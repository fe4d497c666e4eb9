SPECIFICATION Spec
CONSTANTS
  r1 = r1
  r2 = r2
  Run = {r1, r2}
  Starts <- MCStarts
  Path <- MCPath
  Library <- MCLibrary
  Images <- MCImages
  Imported = {"good", "loop", "foreign", "special"}
  Python = "python3"
  PythonBinary = {"python3.11"}
  StdlibDir = "stdlib"
  Mountpoints = {"proc"}
  Candidates <- MCCandidates
  MaxFaults = 1
  MaxOperator = 1
INVARIANT ReportedWhole MarkerMeansWhole
PROPERTY Ends
CHECK_DEADLOCK FALSE
