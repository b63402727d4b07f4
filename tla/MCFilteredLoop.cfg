SPECIFICATION LoopSpec
CONSTANTS
  Flows <- MCFlows
  Keys <- MCKeys
  KeyOf <- MCKeyOf
  SlotOf <- MCSlotOf
  Slots = {0, 1}
  ZeroKey = 0
  Cutoff = 2
  CntMod = 4
  MaxCame = 4
  Junk = {0, 7}
  Others = {icmp}
  Watched = {1, icmp}
  Masks <- MCMasks
INVARIANTS LoopTypeOK HeadsPerStart HeadsDelivered HeadsOnlyFirst ResultTellsTheTraffic
