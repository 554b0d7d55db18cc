SPECIFICATION Spec
CONSTANTS
  Programs <- MCPrograms
INVARIANTS ExpansionSound AskedCaseRuns FixturesNested TornDownAfterBody FirstFailureDecides
CHECK_DEADLOCK FALSE
