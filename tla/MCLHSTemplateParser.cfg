SPECIFICATION Spec
CONSTANTS
  Identifier <- MCIdentifier
  Node <- MCNode
  Inputs <- MCTemplateInputs
INVARIANTS
  TemplateSpansRange
  TemplateIsSiblingRun
  AllowedTemplateParsed
PROPERTY Terminates
