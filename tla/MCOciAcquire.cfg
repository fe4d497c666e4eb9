SPECIFICATION Spec
CONSTANTS
  Digest <- Digests
  Image <- Images
  Run = {r1, r2}
  Worlds <- TheWorlds
  MaxFaults = 2
  MaxForeign = 1
INVARIANT PublishedIsTracked WholeUnlessCut AdmittedIsPinned
CHECK_DEADLOCK FALSE
