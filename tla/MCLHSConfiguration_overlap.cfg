SPECIFICATION Spec
CONSTANTS
  Identifier <- MCIdentifier
  Files <- MCExactFiles
  IntSize = 8
INVARIANT AcceptedDisjoint
