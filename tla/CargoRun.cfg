SPECIFICATION Spec
CONSTANTS
  Exes = {"a", "b"}
  Builds <- MCBuilds
  Invocations <- MCInvocations
  MaxRuns = 2
  OrphansSurvive = FALSE
INVARIANTS GreenMeansGreen RedIsNeverHidden NoStaleSuites
PROPERTIES ReplacedWhole CommandEnds
CHECK_DEADLOCK FALSE
