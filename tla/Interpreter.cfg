SPECIFICATION Spec
CONSTANTS
  Block <- MCBlock
  Main = "main"
  Body <- MCBody
  Fun <- MCFun
  Depth <- MCDepth
  Name = {"x", "y"}
  Label = {"L", "M"}
  Nil = Nil
  Programs <- MCPrograms
  MaxStack = 14
INVARIANTS
  TypeOK
  BlocksBalanced
  IndInv
  SearchStops
  NoStaleLocals
PROPERTIES
  NoLocalsDropped
  CallerFrameUntouched
  ImplementsScopes
  ExitsLand
