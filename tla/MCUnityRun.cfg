\* Four tests, of up to two operations in each of their functions.
CONSTANTS
  MaxTests = 4
  MaxOps = 2
  ExitModulus = 5
SPECIFICATION Spec
INVARIANTS
  TypeOK
  FirstDecides
  SummaryTrue
PROPERTIES
  SuiteSpec
