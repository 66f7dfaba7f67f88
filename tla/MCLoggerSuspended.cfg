\* The disk guard while the INI file names other log files.
CONSTANTS
  Files <- MCFiles
  NoFile = "none"
  Configs <- MCConfigs
  MaxEdits = 1
SPECIFICATION Spec
INVARIANT SuspendedMeansNoFileSink
CHECK_DEADLOCK FALSE
