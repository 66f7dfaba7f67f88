\* Every interleaving of one owner, the auto-reload thread, an editor that
\* changes the INI file twice and a disk that fills and empties.
CONSTANTS
  Files <- MCFiles
  NoFile = "none"
  Configs <- MCConfigs
  MaxEdits = 2
SPECIFICATION FairSpec
INVARIANTS DistMatchesMembers SinksFollowConfig
PROPERTIES StopReturns AutoReloadCatchesUp DiskGuardActs
\* The manager may be destroyed.
CHECK_DEADLOCK FALSE
