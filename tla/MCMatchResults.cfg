SPECIFICATION Spec
CONSTANTS
  Match <- MCMatch
  Ast <- MCAst
  Inputs <- MCInputs
INVARIANTS
  TypeOK
  DroppedMeetsAnother
  OverlapBehindDropped
  NestedDroppedCovered
PROPERTIES
  ReportsFileByFile
