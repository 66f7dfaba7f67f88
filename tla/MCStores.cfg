CONSTANTS
  SectionNames = {"", "s"}
  Keys = {"k", "l"}
  Entries <- MCEntries
  HandWritten <- MCHandWritten
  Settings <- MCSettings
  SettingValues <- MCSettingValues
  ConfigFiles <- MCConfigFiles
  Types = {A, B}
  Names = {n, m}
  Instances = {p, q, Null}
  Null = Null
  Guards = {1, 2}
  MaxCalls = 4
  PartLists <- MCPartLists
  FilenameLines = {"a", "b"}
  Servers <- MCServers
  HeaderLists <- MCHeaderLists
  Queries_ <- MCQueries_
  Answers <- MCAnswers
  Depth = 2
  Makers = {1, 2}
  Trees <- MCTrees
  Root = "r"
  Rank <- MCRank
  FinderOptions <- MCFinderOptions
SPECIFICATION Spec
INVARIANTS ReadsWhatWasSet SettingsSurviveSaveAndLoad TransfersAreWhole SharedPathIsMade SearchIsExact
CHECK_DEADLOCK FALSE
