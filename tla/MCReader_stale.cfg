\* A savefile Reader read again after a callback raised: the flag the exception left behind.
SPECIFICATION Spec
CONSTANTS
  t1 = t1
  t2 = t2
  file = file
  nic = nic
  NoThread = NoThread
  Threads = {t1, t2}
  Readers = {file}
  Live <- Nobody
  Failing <- Nobody
  Ops <- CheckedMethods
  Counts = {0, 1, 2}
  DefaultBatch = 2
  MaxPackets = 3
  Reused = {file}
SYMMETRY ThreadSymmetry
INVARIANTS NullHasException
