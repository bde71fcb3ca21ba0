SPECIFICATION Spec
CONSTANTS
  Match <- MCMatch
  Ast <- MCAst
  Inputs <- MCInputs
INVARIANT ResultsDisjoint
