CONSTANTS
  t1 = t1
  t2 = t2
  NoObject = NoObject
  MaxInputs = 1
  a = a
  b = b
  Handles <- MCHandles
  Data <- MCData
VIEW
  View
SPECIFICATION Spec
INVARIANTS
  MadeByItsClass
  WrittenIsRead
PROPERTIES
  ImmutablesStay
  CopiesAreApart
