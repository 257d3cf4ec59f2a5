\* Odd numbers of rows and of terms, so that the halves are of different size.
CONSTANTS
  Rows = 3
  Terms = 3
SPECIFICATION Spec
INVARIANTS
  SumPrinted
PROPERTIES
  Termination
