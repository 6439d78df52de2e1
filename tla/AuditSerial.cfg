SPECIFICATION Spec
CONSTANTS
  w1 = w1
  w2 = w2
  Writers <- OneWriter
  Window = 3
  MaxBurst = 3
  MaxEvents = 6
  MaxTime = 3
  MaxDamaged = 2
  Tampers <- NoTampering
INVARIANTS TypeOK ChainIntact
PROPERTIES ImplementsLog
CHECK_DEADLOCK FALSE
