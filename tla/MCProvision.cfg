CONSTANTS
  Roots = {d1}
  Images = 2
  Forced = {2}
  Saves = {s1, s2}
  Invocations <- MCInvocations
  Topologies = {t1, t2}
  Partial = Partial
  None = None
SPECIFICATION DSpec
INVARIANT RefusedOnlyWhenChanged ReadyIsWhole ServesOnlyComplete
PROPERTY PublishedIsFinal DeployOutcomeHolds
