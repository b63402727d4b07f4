\* A savefile Reader and a live one, two threads, under the fairness of the
\* scheduler; the live one is read again after exceptions.
SPECIFICATION FairSpec
CONSTANTS
  t1 = t1
  t2 = t2
  file = file
  nic = nic
  NoThread = NoThread
  Threads = {t1, t2}
  Readers = {file, nic}
  Live = {nic}
  Failing <- Nobody
  Ops <- LivenessMethods
  Counts = {0}
  DefaultBatch = 2
  MaxPackets = 1
  Reused = {nic}
PROPERTIES SavefileCallsReturn PythonRuns
