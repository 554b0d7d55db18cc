SPECIFICATION CSpec
CONSTANTS
  smoke = smoke
  lone = lone
  Cases = {smoke, lone}
  Serial = {lone}
  Endless = {lone}
  Matching = {smoke}
  TagsOf <- MCTagsOf
  Invocations <- MCInvocations
  Registries <- MCRegistries
  Declarable <- MCDeclarable
  Modifiers = {}
  MaxProbes = 2
  MaxModifiers = 0
INVARIANTS GatedByPreflight TeardownPaired ExitTellsTests DocumentFaithful
PROPERTIES KeepsBinaryContract CoordinatorEnds
