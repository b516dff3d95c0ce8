SPECIFICATION Spec
CONSTANTS
  Block <- MCBlock
  Main = "main"
  Body <- MCBody
  Fun <- MCFun
  Depth <- MCDepth
  Name = {"x", "y"}
  Label = {"L", "M"}
  Nil = Nil
  Programs <- MCPrograms
INVARIANTS
  StacksFollowTheTree
  LocalsAreLexical
  ParentsAreLexical
  AcceptedGotosHaveATarget
  RefusedForAReason
