SPECIFICATION Spec
CONSTANTS
  Packets <- ThreeClasses
  Admitted <- OneAndTwo
  Cap = 14
  Radix = 3
  LenBytes = 2
  Junk = 1
  Workers = 3
  MaxPackets = 5
INVARIANTS TypeOK WithinBuffer Accounted EveryRecordOnce
PROPERTY ImplementsLog
