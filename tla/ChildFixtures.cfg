SPECIFICATION Spec
CONSTANTS
  Programs <- MCPrograms
INVARIANTS TornDownInReverse
CHECK_DEADLOCK FALSE
