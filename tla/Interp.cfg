SPECIFICATION Spec
CONSTANTS
  WordBits = 5
  Programs <- MCPrograms
  Compute <- Arith
  StackSizes = {16, 40}
  MaxStack = 40
  Threshold = 12
  MaxSignals = 2
  MaxGcs = 2
INVARIANTS
  ResultExact
  TrapChain
  ExternalRaise
  SignalsKept
CHECK_DEADLOCK FALSE
