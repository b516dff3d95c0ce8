SPECIFICATION Spec
CONSTANTS
  Block <- MCBlock
  Main = "main"
  Body <- MCBody
  Fun <- MCFun
  Depth <- MCDepth
  Name = {"x", "y"}
  Label = {"L", "M"}
  Nil = Nil
  Programs <- NestedPrograms
  MaxStack = 14
PROPERTIES
  GotoResumesAfterLabel
