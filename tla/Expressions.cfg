SPECIFICATION Spec
CONSTANTS
  Width = 3
  Expressions <- MCExpressionSet
  Expected <- MCExpected
  Precision = 8
INVARIANTS
  OperandsAreSnapshots
  ResultTypes
  OneArithmetic
  QuotientFitsRemainder
  NumbersDoNotFail
  EnsuredIsEqual
