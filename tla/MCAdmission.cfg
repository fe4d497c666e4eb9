SPECIFICATION ASpec
CONSTANTS
  Radix = 8
  MaxDigits = 3
  MaxTop = 1
  MaxField = 12
  Fixed64 = 2
  Fixed32 = 1
  Hashes <- MCHashes
  Scenes <- MCScenes
  Forms <- MCForms
  SHA256 = 1
  Blob <- MCBlob
  Corrupt <- MCCorrupt
  MaxPort = 9
  MaxOdd = 2
  Sites <- MCSites
  BaseInstances = 2
  PerDaemon = 2
  BaseWatches = 2
  MinQueue = 2
  MaxInterval = 2
  Ahead = 1
  MaxNow = 2
INVARIANT AdmittedIsSo SoundIsAdmitted
CHECK_DEADLOCK FALSE
