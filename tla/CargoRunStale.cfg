SPECIFICATION Spec
CONSTANTS
  Exes = {"a", "b"}
  Builds <- MCBuilds
  Invocations <- MCInvocations
  MaxRuns = 2
  OrphansSurvive = TRUE
INVARIANT NoStaleSuites
CHECK_DEADLOCK FALSE
