SPECIFICATION Spec
CONSTANTS
  LOOPER = looper
  POLLER = poller
  NOBODY = nobody
  Generic = {0}
  Security = {0, 1}
  Masks <- SomeMasks
  Junk = {0, 9}
  MaxRuns = 1
  MaxPackets = 2

PROPERTY CountersNeverDecrease
