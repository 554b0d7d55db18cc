SPECIFICATION PSpec
CONSTANTS
  Declarable <- MCDeclarable
  Modifiers <- MCModifiers
  MaxProbes = 3
  MaxModifiers = 1
INVARIANTS NamesTellProbesApart ResultsPairWithProbes AllProbesOrNone
PROPERTIES Settles
