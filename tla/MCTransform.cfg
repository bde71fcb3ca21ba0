CONSTANTS
  f1 = f1
  f2 = f2
  header = header
  x = x
  Source = Source
  File <- MCFile
  Name <- MCName
  Match <- MCMatch
  Inputs <- MCInputs
SPECIFICATION Spec
INVARIANTS
  TypeOK
  WholeFiles
  AllTransformed
  FailsBeforeWriting
  KeptSources
  RewriterHasText
PROPERTIES
  Terminates
  WritesWholeOutputs
