SPECIFICATION Spec
CONSTANTS
  w1 = w1
  w2 = w2
  Writers <- TwoWriters
  Window = 2
  MaxBurst = 2
  MaxEvents = 3
  MaxTime = 1
  MaxDamaged = 2
  Tampers <- NoTampering
INVARIANTS ChainIntact
CHECK_DEADLOCK FALSE
