CONSTANTS
  a = a
  b = b
  c = c
  d = d
  None = None
  Stages = 3
  Sources <- Four
  Binaries <- Bins
  Graphs <- AllGraphs
  Inputs <- AllInputs
SPECIFICATION SSpec
INVARIANT Descends Delivered ShipsSelfHosted
PROPERTY Condenses
