SPECIFICATION Spec
CONSTANTS
  Identifier <- MCIdentifier
  Node <- MCNode
  Inputs <- MCMetavarInputs
INVARIANTS
  TypeOK
  MetavariableSpansRange
  CleanMetavariablesParsed
  ParsedDisjoint
  ExplicitWins
  BoundAreReachable
PROPERTY Terminates
