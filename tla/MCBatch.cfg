SPECIFICATION Spec
CONSTANTS
  Data <- ShortAndLong
  Args <- Sizes
  DefaultN = 3
  FirstCap = 2
  Slack = 1
  Word = 8
  Junk = 0
INVARIANTS TypeOK PacketsCutOut
