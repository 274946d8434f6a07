\* A byte has two bits: types of 2, 4, 8 and 16 bits.  Arrays have at most
\* two elements.  Finite floats are those from -6 to 6, and equal within a
\* third; printed floats have the digits and the buffer of the code.
CONSTANTS
  ByteBits = 2
  Numbers <- MCNumbers
  Deltas <- MCDeltas
  Masks <- MCMasks
  MaxElements = 2
  Lengths = {0, 1, 2, 3}
  ArrayDeltas = {0, 1, 5, 65535}
  Arrays <- MCArrays
  Strings <- MCStrings
  ArrayStrings <- MCArrayStrings
  MaxLength = 3
  MaxFloat = 6
  Precision = 3
  Elements <- MCElements
  NibbleCounts = {0, 1, 2, 3, 4, 5}
  Printed <- MCPrinted
  PrintedMasks <- MCMasks
  sig_digits = 7
  BufSize = 16
  FloatPrecision = 16777216
  PrintedFloats <- MCPrintedFloats
SPECIFICATION Spec
\* A behaviour is one call.
CHECK_DEADLOCK FALSE
INVARIANTS
  TypeOK
  InBounds
  VerdictCorrect
  FloatVerdictCorrect
  FailureExplained
  OneLine
  IntegersReadBack
  FloatsReadBack
  FloatsAccurate
PROPERTY Terminates
