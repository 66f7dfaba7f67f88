------------------------------- MODULE Stores -------------------------------
(***************************************************************************)
(* The components that hold or find data for a program: settings (ini      *)
(* parser and config manager), instances (object broker), answers of       *)
(* servers (the multipart downloader and the REST clients), and files      *)
(* (directory maker and file finder).  They share nothing with each other, *)
(* so a behaviour is one of one of them.                                   *)
(***************************************************************************)
EXTENDS IniParser, ConfigManager, ObjectBroker,
        MultipartDownloader, RestClient, DirectoryMaker, FileFinder

VARIABLE subject     \* the component that the behaviour is of

Subjects == {"ini", "config", "broker", "download", "rest", "directory", "finder"}

\* The variables of a component that the behaviour is not of.
NoIni == store = 0 /\ file = 0 /\ expected = 0
NoConfig == m_lines = 0 /\ configFile = 0 /\ believed = 0
NoBroker == storage_ = 0 /\ guard = 0 /\ promised = 0 /\ evicted = 0
NoDownload ==
  /\ sent = 0 /\ body = 0 /\ mdPc = 0 /\ pos = 0 /\ part_index = 0 /\ current = 0
  /\ delete_partial_on_fail_ = 0 /\ temp = 0 /\ final = 0 /\ saved_files = 0 /\ lostInFlush = 0
NoRest ==
  /\ client = 0 /\ settings = 0 /\ handle = 0 /\ request = 0 /\ hop = 0
  /\ out_resp = 0 /\ result = 0 /\ arrived = 0
NoMakers == tree = 0 /\ maker = 0 /\ made = 0 /\ disturbed = 0
NoFinder ==
  fs = 0 /\ opt = 0 /\ frames = 0 /\ visited = 0 /\ out = 0 /\ finderPc = 0 /\ failed = 0

Init ==
  /\ subject \in Subjects /\ InitCalls
  /\ IF subject = "ini" THEN InitIni ELSE NoIni
  /\ IF subject = "config" THEN InitConfig ELSE NoConfig
  /\ IF subject = "broker" THEN InitBroker ELSE NoBroker
  /\ IF subject = "download" THEN InitDownload ELSE NoDownload
  /\ IF subject = "rest" THEN InitRest ELSE NoRest
  /\ IF subject = "directory" THEN InitMakers ELSE NoMakers
  /\ IF subject = "finder" THEN InitFinder ELSE NoFinder

settingsVars == <<calls, iniVars, configVars, brokerVars>>
filesVars == <<treeVars, finderVars>>
transferVars == <<mdVars, restVars>>
vars == <<subject, settingsVars, transferVars, filesVars>>

IniStep == NextIni /\ UNCHANGED <<configVars, brokerVars, transferVars, filesVars>>
ConfigStep == NextConfig /\ UNCHANGED <<iniVars, brokerVars, transferVars, filesVars>>
BrokerStep == NextBroker /\ UNCHANGED <<iniVars, configVars, transferVars, filesVars>>
DownloadStep == NextDownload /\ UNCHANGED <<settingsVars, restVars, filesVars>>
RestStep == NextRest /\ UNCHANGED <<iniVars, configVars, brokerVars, mdVars, filesVars>>
DirectoryStep == NextMakers /\ UNCHANGED <<settingsVars, transferVars, finderVars>>
FinderStep == NextFinder /\ UNCHANGED <<settingsVars, transferVars, treeVars>>

Next ==
  /\ UNCHANGED subject
  /\ \/ subject = "ini" /\ IniStep
     \/ subject = "config" /\ ConfigStep
     \/ subject = "broker" /\ BrokerStep
     \/ subject = "download" /\ DownloadStep
     \/ subject = "rest" /\ RestStep
     \/ subject = "directory" /\ DirectoryStep
     \/ subject = "finder" /\ FinderStep

Spec == Init /\ [][Next]_vars

-----------------------------------------------------------------------------
\* What get() answers, in the ini parser, the config manager and the broker, is
\* what was last set, registered, removed or loaded.
ReadsWhatWasSet ==
  /\ subject = "ini" => IniReadsWhatWasSet
  /\ subject = "config" => ConfigReadsWhatWasSet
  /\ subject = "broker" => BrokerKeepsItsPromises

\* Whatever calls were made and whatever file was loaded before, save() and
\* load() give the same settings again, in their order.
SettingsSurviveSaveAndLoad ==
  /\ subject = "ini" => IniSurvivesSaveAndLoad
  /\ subject = "config" => ConfigSurvivesSaveAndLoad

\* A download stores each part once, whole and under its name, and leaves no
\* partial file behind when that was asked for; a request of a REST client asks
\* for what is set now, and is answered by its own answer.
TransfersAreWhole ==
  /\ subject = "download" => DownloadDeliversParts /\ NoPartialFileLeft
  /\ subject = "rest" => RequestsAreTheirOwn /\ AnswersAreTheirOwn

\* Makers of the same path, among other programs, share the work.
SharedPathIsMade == subject = "directory" => MakersShareThePath

\* A search finds what its options ask for, once, whatever links it meets.
SearchIsExact == subject = "finder" => FinderFindsAll
=============================================================================
