SPECIFICATION Spec
CONSTANTS
  TargetCpu = "x86_64"
  Arches <- MCArches
  Caps <- MCCaps
  FallbackRepos <- MCFallback
  Worlds <- MCWorlds
  Repos <- MCRepos
  RepoKind <- MCRepoKind
  Optional <- MCOptional
  NoSource = "-"
INVARIANT NewestOfWhole CapabilityHonest UniversesAgree PayloadAccounted LockHolds
CHECK_DEADLOCK FALSE
