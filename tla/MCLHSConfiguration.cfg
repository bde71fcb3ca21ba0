SPECIFICATION Spec
CONSTANTS
  Identifier <- MCIdentifier
  Files <- MCFiles
  IntSize = 8
INVARIANTS
  TypeOK
  AcceptedNested
  DisjointBetween
  OverlapJustified
PROPERTIES
  Terminates
  AnswersAsPromised
