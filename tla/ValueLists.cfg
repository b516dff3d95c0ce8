SPECIFICATION Spec
CONSTANTS
  v = v
  w = w
  Val = {v, w}
  Nil = Nil
  Cell = {c1, c2}
  Exprs <- MCExprs
  MaxExprs = 2
  MaxFormals = 2
  MaxTargets = 3
INVARIANTS
  AssignmentIsSimultaneous
  NamesAreAdjusted
  ArgumentsReachParameters
