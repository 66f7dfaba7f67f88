\* An edit of the INI file at any moment, init included.
CONSTANTS
  Files <- MCFiles
  NoFile = "none"
  Configs <- MCConfigs
  MaxEdits = 1
SPECIFICATION FairSpec
PROPERTY EveryChangeIsReloaded
CHECK_DEADLOCK FALSE
