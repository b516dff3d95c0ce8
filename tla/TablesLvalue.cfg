SPECIFICATION Spec
CONSTANTS
  Table = {"t", "u"}
  IntKey = {1, 2, 3}
  s = s
  b = b
  OtherKey = {s}
  BoolKey = {b}
  Nil = Nil
  FieldLists <- MCFieldLists
  Exprs <- MCExprs
  MaxSteps = 2
INVARIANTS
  LeftSidesAreLvalues
