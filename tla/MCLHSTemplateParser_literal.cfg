SPECIFICATION Spec
CONSTANTS
  Identifier <- MCIdentifier
  Node <- MCNode
  Inputs <- MCMainFileInputs
INVARIANT TrailingLiteralParsed
