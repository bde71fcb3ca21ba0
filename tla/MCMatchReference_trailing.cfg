SPECIFICATION Spec
CONSTANTS
  Node <- MCNode
  Detail <- MCDetail
  Name <- MCName
  Identifier <- MCIdentifier
  Inputs <- MCInputs
INVARIANT MatchesItself
