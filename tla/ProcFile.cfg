\* Five rows, an odd number, so that the halves differ in size.
CONSTANT Rows = 5
SPECIFICATION Spec
INVARIANTS
  WholeGreeting
  SomeoneReportsItself
  ProductPrinted
PROPERTY Termination
