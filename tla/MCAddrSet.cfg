SPECIFICATION FairSpec
CONSTANTS
  Addrs = {1, 2, 3}
  Products = {0, 15}
  Width = 4
  MinBits = 1
  MaxBits = 3
  MaxLen = 7
INVARIANTS SetTypeOK MembershipExact StoredOnce ProbesEnd
PROPERTY BuildEnds
