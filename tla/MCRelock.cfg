SPECIFICATION Spec
CONSTANTS
  a = a
  b = b
  c = c
  Pkgs = {a, b, c}
  Caps = {"x", "y"}
  Worlds <- MCWorlds
  MaxRuns = 2
  Seed = Seed
  Torn = Torn
  Missing = Missing
INVARIANT SaysWhatIsSo NothingForgotten
PROPERTY RunsEnd
CHECK_DEADLOCK FALSE
