SPECIFICATION Spec
CONSTANTS
  Nil = Nil
  MaxRounds = 2
  Block <- MCBlock
  Body <- MCBody
  Name <- MCName
  Parent <- MCParent
  Fun <- MCFun
  Depth <- MCDepth
  Scenarios <- MCScenarios
INVARIANTS
  CellsAreCounted
  FunctionsAreCounted
  RunningFunctionsAreAlive
  
  CapturesAreLexical
  LookupIsLexical
