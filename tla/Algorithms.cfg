SPECIFICATION Spec
CONSTANTS
  W = 3
  MHi = 0
  Bits = 4
  WordBytes = 2
INVARIANTS
  ArithmeticExact
  DrawExact
  RasterExact
  ValuesExact
  TextExact
CHECK_DEADLOCK FALSE
