SPECIFICATION Spec
CONSTANTS
  Threads = {t1, t2}
  Count = 2
  Amounts <- MCAmounts
  MaxStates = 4
INVARIANTS LatchOpensOnce
PROPERTIES SettlesOnce ChainsComplete
CHECK_DEADLOCK FALSE
