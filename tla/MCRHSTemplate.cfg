CONSTANTS
  a = a
  b = b
  Word <- MCWord
  Inputs <- MCInputs
  Garbage <- MCGarbage
SPECIFICATION Spec
INVARIANTS
  TypeOK
  InstanceIsSubstitution
PROPERTY Terminates
