\* Two publications, two changes by Codex, one crash.
SPECIFICATION Spec
CONSTANTS
  Inode = {i1, i2, i3, i4, i5}
  NoFile = NoFile
  AppCred = {saved}
  CodexCred = {first, second}
  NoCred = NoCred
  NoRecord = NoRecord
  MaxBackups = 1
  MaxPublications = 2
  MaxCodexMoves = 2
  MaxCrashes = 1
SYMMETRY FileIdentities
INVARIANTS
  NoCredentialLost
  QuietCrashIsRecoverable
PROPERTIES
  ResultsAreTrue
  RecoveryLeavesLive
