CONSTANTS
  Pkg <- MCPkg
  Name <- MCName
  Src <- MCSrc
  Expr <- MCExpr
  node <- MCNode
  length <- MCLength
  OverrideKey <- MCKey
  joined <- MCJoined
  NoExpr = "none"
  Inputs <- ClosureInputs
SPECIFICATION FairSpec
INVARIANT ClosureSound GrowingOrderIndependent PlainSettled
PROPERTY Terminates
