SPECIFICATION Spec
CONSTANTS
  PipeCap = 1
  MaxOut = 2
CHECK_DEADLOCK FALSE
INVARIANTS NoChildSurvives DeadlineDecides EvidenceComplete
PROPERTIES FullPipeIsForever Returns
