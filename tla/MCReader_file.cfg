\* Two threads share one savefile Reader, which may end in an error
\* and is not read again after a callback raised.
SPECIFICATION Spec
CONSTANTS
  t1 = t1
  t2 = t2
  file = file
  nic = nic
  NoThread = NoThread
  Threads = {t1, t2}
  Readers = {file}
  Live <- Nobody
  Failing = {file}
  Ops <- CheckedMethods
  Counts = {0, 1, 2}
  DefaultBatch = 2
  MaxPackets = 3
  Reused <- Nobody
INVARIANTS TypeOK LockOnlyInPython ResultConvention EmptyMeansEnd 
PROPERTIES NoPacketAfterRaise 
