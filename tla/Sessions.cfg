\* Two requests at a time, a reset, a password rotation and a statement that fails.
SPECIFICATION Spec
CONSTANTS
  t1 = t1
  t2 = t2
  Threads = {t1, t2}
  MaxTokens = 4
  MaxTrouble = 1
CHECK_DEADLOCK FALSE
SYMMETRY Swaps
INVARIANTS
  TypeOK
  SessionsBounded
  NoSurvivor
  StaleAccessRefused
