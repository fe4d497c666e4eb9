SPECIFICATION Spec
CONSTANTS
  h1 = h1
  h2 = h2
  c1 = c1
  c2 = c2
  Harnesses = {h1, h2}
  Clients = {c1, c2}
  Plan <- MCPlan
  Stages <- MCStages
  Reused = {h2}
  Inodes <- MCInodes
  MaxSignals = 1
  MaxUserFiles = 1
INVARIANT LeavesNothing RunsUnderOwnConfig
PROPERTY RemovesOnlyItsOwn
