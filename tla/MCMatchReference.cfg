SPECIFICATION Spec
CONSTANTS
  Node <- MCNode
  Detail <- MCDetail
  Name <- MCName
  Identifier <- MCIdentifier
  Inputs <- MCInputs
INVARIANTS
  TypeOK
  LockStep
  MatchesExact
  MatchesItselfElsewhere
  AlikeIsEquivalence
  NameOnlyForgivesName
PROPERTY Terminates
