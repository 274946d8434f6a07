\* Every short string over a sample alphabet, longer ones, the unit test's.
\* IntMax is the least the assumption on the inputs allows.
CONSTANTS
  NULL = NULL
  Input <- AllInput
  IntMax = 15
SPECIFICATION Spec
INVARIANTS
  TypeOK
  InBounds
  ResultCorrect
  BufferHandedOver
PROPERTIES
  RefusedForCause
  Terminates
  CallSpec
