SPECIFICATION Spec
CONSTANTS
  Frames <- EthernetFrames
  Configs <- Ethernet
  Counts <- Zeroes
INVARIANTS TypeOK GenericMeaning SecurityMeaning ReadsCaptured OnlyHeadsUseTheCutoff
