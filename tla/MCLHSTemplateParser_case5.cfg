SPECIFICATION Spec
CONSTANTS
  Identifier <- MCIdentifier
  Node <- MCNode
  Inputs <- MCTemplateInputs
INVARIANT CaseFiveDescended
