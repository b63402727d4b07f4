SPECIFICATION Spec
CONSTANTS
  LOOPER = looper
  POLLER = poller
  NOBODY = nobody
  Generic = {0}
  Security = {0, 1}
  Masks <- SomeMasks
  Junk = {0, 9}
  MaxRuns = 2
  MaxPackets = 2
INVARIANTS TypeOK CountsBalance NothingHidden SampleIsCurrent
PROPERTY SamplesMonotone
