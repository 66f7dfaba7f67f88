--------------------------- MODULE LoggerManager ---------------------------
(***************************************************************************)
(* j2::log::logger_manager: an spdlog logger built from an INI file, a     *)
(* background thread that reloads the file when its modification time      *)
(* changes, and a disk guard that detaches the file sinks when the disk is *)
(* low.  mu_ protects everything but autoReloadRunning_ and the thread.    *)
(* One thread owns the manager and makes every call.                       *)
(*                                                                         *)
(* Abstracted: levels, patterns, time mode and flush level are the one     *)
(* field "soft" that applySoftSettings applies, "flush" the seconds of the *)
(* periodic flush; path, size and number of files of a rotating sink are   *)
(* one "file"; a modification time is the number of edits so far, so two   *)
(* edits never share one.                                                  *)
(***************************************************************************)
EXTENDS Integers

CONSTANTS Files,      \* settings of rotating file sinks
          NoFile,     \* a null allSink_ or alertsSink_
          Configs,    \* contents an INI file may have, as loadConfig reads them
          MaxEdits    \* bound: changes to the file in one behaviour

ConfigType == [console : BOOLEAN, all : BOOLEAN, alerts : BOOLEAN,
               allFile : Files, alertsFile : Files,
               guard : BOOLEAN, root : BOOLEAN, soft : Nat, flush : Nat,
               auto : BOOLEAN]

ASSUME ConfigsAssumption == Configs \subseteq ConfigType
ASSUME FilesAssumption == NoFile \notin Files
ASSUME MaxEditsAssumption == MaxEdits \in Nat

VARIABLES
  file,       \* the INI file: its state, its contents, its modification time
  disk,       \* what space(diskRoot_) would find: "ok", "low" or "error"
  cfg,        \* the configuration members, as last loaded
  sinks,      \* consoleSink_, allSink_, alertsSink_, the soft settings applied and the
              \* interval of spdlog's periodic flush, 0 before it is first set
  dist,       \* distSink_: how many times each sink is attached
  detached,   \* fileSinksDetachedForDisk_
  lastWrite,  \* lastWriteTime_, -1 when no time could be read
  running,    \* autoReloadRunning_
  pc,         \* where the owner and the auto-reload thread are
  loaded,     \* history: the time of the contents last loaded
  missed,     \* history: the time was recorded, the contents of that time not read
  skipped,    \* history: what a reload that threw left as it was, until it is set anew
  doubled     \* history: a file sink was attached while the others are detached

members == <<cfg, sinks, dist, detached, lastWrite>>
history == <<loaded, missed, skipped, doubled>>
vars == <<file, disk, members, running, pc, history>>


Console == <<"console", NoFile>>
Sinks == {Console} \cup ({"all", "alerts"} \X Files)
Empty == [s \in Sinks |-> 0]
Attach(d, s) == [d EXCEPT ![s] = @ + 1]
Remove(d, s) == [d EXCEPT ![s] = 0]     \* remove_sink erases every occurrence
AttachIf(d, kind, f) == IF f = NoFile THEN d ELSE Attach(d, <<kind, f>>)
RemoveIf(d, kind, f) == IF f = NoFile THEN d ELSE Remove(d, <<kind, f>>)

Goto(who, state) == pc' = [pc EXCEPT ![who] = state]

\* Faulty variants (HeldWhileJoining, ...) precede the definition they distort.

\* mu_ is held across the steps of init and of reloadIfChanged.
HeldWhileJoining == pc["owner"] \in {"loaded", "load", "flag", "join"} \/ pc["thread"] = "load"
Held == pc["owner"] \in {"loaded", "load"} \/ pc["thread"] = "load"

Init ==
  /\ \E c \in Configs : /\ cfg = c
                        /\ file = [state |-> "present", config |-> c, time |-> 0]
  /\ disk \in {"ok", "low"}
  /\ sinks = [console |-> FALSE, all |-> NoFile, alerts |-> NoFile,
              soft |-> 0, flush |-> 0]
  /\ dist = Empty /\ detached = FALSE /\ lastWrite = -1 /\ running = FALSE
  /\ pc = [who \in {"owner", "thread"} |-> IF who = "owner" THEN "new" ELSE "none"]
  /\ loaded = -1 /\ missed = FALSE /\ skipped = {} /\ doubled = FALSE

-----------------------------------------------------------------------------
(***************************************************************************)
(* The helpers of init and reloadIfChanged, as functions of the record of  *)
(* members m: each returns the record they leave.                          *)
(***************************************************************************)
Members == [cfg |-> cfg, sinks |-> sinks, dist |-> dist, detached |-> detached,
            skipped |-> skipped, doubled |-> doubled]
Become(m) == /\ cfg' = m.cfg /\ sinks' = m.sinks /\ dist' = m.dist
             /\ detached' = m.detached
             /\ skipped' = m.skipped /\ doubled' = m.doubled

ApplySoft(m) == [m EXCEPT !.sinks.soft = m.cfg.soft, !.skipped = @ \ {"soft"}]

\* The flusher that runs is replaced, never stopped: an interval of 0 leaves it.
FlushEvery(m) ==
  [m EXCEPT !.sinks.flush = IF m.cfg.flush > 0 THEN m.cfg.flush ELSE @,
            !.skipped = @ \ {"flush"}]

\* The file sinks that are enabled and exist rejoin the distributor.
Resume(m) ==
  LET all == IF m.cfg.all THEN m.sinks.all ELSE NoFile
      alerts == IF m.cfg.alerts THEN m.sinks.alerts ELSE NoFile
  IN ApplySoft([m EXCEPT !.dist = AttachIf(AttachIf(@, "all", all), "alerts", alerts),
                         !.detached = FALSE])

Suspend(m) ==
  [m EXCEPT !.dist = RemoveIf(RemoveIf(@, "all", m.sinks.all), "alerts", m.sinks.alerts),
            !.detached = TRUE, !.doubled = FALSE]

CheckDisk(m) ==
  CASE ~m.cfg.guard /\ m.detached -> Resume(m)
    [] m.cfg.guard /\ m.cfg.root /\ disk = "low" /\ ~m.detached -> Suspend(m)
    [] m.cfg.guard /\ m.cfg.root /\ disk = "ok" /\ m.detached -> Resume(m)
    [] OTHER -> m

\* No sink left: a console becomes consoleSink_, whatever the configuration says.
Fallback(m) ==
  IF m.dist = Empty
    THEN [m EXCEPT !.dist = Attach(Empty, Console), !.sinks.console = TRUE]
    ELSE m

\* init attaches a new sink of each enabled kind to a new distributor.
Build(m) ==
  LET all == IF m.cfg.all THEN m.cfg.allFile ELSE NoFile
      alerts == IF m.cfg.alerts THEN m.cfg.alertsFile ELSE NoFile
      console == IF m.cfg.console THEN Attach(Empty, Console) ELSE Empty
  IN Fallback([m EXCEPT
       !.sinks.console = m.cfg.console, !.sinks.all = all, !.sinks.alerts = alerts,
       !.dist = AttachIf(AttachIf(console, "all", all), "alerts", alerts)])

HardConsole(m) ==
  CASE m.cfg.console /\ ~m.sinks.console ->
         [m EXCEPT !.dist = Attach(@, Console), !.sinks.console = TRUE]
    [] ~m.cfg.console /\ m.sinks.console ->
         [m EXCEPT !.dist = Remove(@, Console), !.sinks.console = FALSE]
    [] OTHER -> m

\* A new file sink takes the place of the old one, also in the distributor
\* that the disk guard has detached the old one from.
Opens(kind, m, old) ==
  LET file_kind == IF kind = "all" THEN "allFile" ELSE "alertsFile"
  IN m.cfg[kind] /\ \/ m.sinks[kind] = NoFile
                    \/ ~old[kind]
                    \/ m.cfg[file_kind] # old[file_kind]

HardFileKeepingOldAttached(kind, m, old) ==
  LET new == IF kind = "all" THEN m.cfg.allFile ELSE m.cfg.alertsFile
  IN CASE Opens(kind, m, old) ->
            [m EXCEPT !.dist = Attach(@, <<kind, new>>),
                      !.sinks[kind] = new, !.skipped = @ \ {kind},
                      !.doubled = @ \/ m.detached]
       [] ~m.cfg[kind] ->
            [m EXCEPT !.dist = RemoveIf(@, kind, m.sinks[kind]), !.sinks[kind] = NoFile,
                      !.skipped = @ \ {kind}]
       [] OTHER -> m

HardFile(kind, m, old) ==
  LET new == IF kind = "all" THEN m.cfg.allFile ELSE m.cfg.alertsFile
  IN CASE Opens(kind, m, old) ->
            [m EXCEPT !.dist = Attach(RemoveIf(@, kind, m.sinks[kind]), <<kind, new>>),
                      !.sinks[kind] = new, !.skipped = @ \ {kind},
                      !.doubled = @ \/ m.detached]
       [] ~m.cfg[kind] ->
            [m EXCEPT !.dist = RemoveIf(@, kind, m.sinks[kind]), !.sinks[kind] = NoFile,
                      !.skipped = @ \ {kind}]
       [] OTHER -> m

\* applyHardSettingsIfNeeded goes from the console to the all sink, the alerts
\* sink and the fallback: the records that each stage may leave, so that a sink
\* that cannot open its file leaves what was done before it.
AfterConsole(m) == {HardConsole(m)}
AfterAll(m, old) == {HardFile("all", c, old) : c \in AfterConsole(m)}
AfterAlerts(m, old) == {HardFile("alerts", a, old) : a \in AfterAll(m, old)}

ApplyHardWithoutAlerts(m, old) == {Fallback(a) : a \in AfterAll(m, old)}
ApplyHard(m, old) == {Fallback(a) : a \in AfterAlerts(m, old)}

Skip(m, settings) == [m EXCEPT !.skipped = @ \cup settings]
Interrupted(m, old) ==
  {Skip(c, {"all", "alerts", "soft", "flush"}) : c \in {d \in AfterConsole(m) : Opens("all", d, old)}}
  \cup
  {Skip(a, {"alerts", "soft", "flush"}) : a \in {b \in AfterAll(m, old) : Opens("alerts", b, old)}}

-----------------------------------------------------------------------------
(***************************************************************************)
(* init: load, then build, then start the thread once mu_ is released.     *)
(* The modification time is read after the contents.                       *)
(***************************************************************************)
Reading == [Members EXCEPT !.cfg = file.config]

InitLoad ==
  /\ pc["owner"] = "new" /\ ~Held
  /\ file.state = "present"      \* otherwise init returns false: nothing changes
  /\ cfg' = file.config /\ loaded' = file.time
  /\ Goto("owner", "loaded")
  /\ UNCHANGED <<file, disk, sinks, dist, detached, lastWrite, running,
                 missed, skipped, doubled>>

InitBuild ==
  /\ pc["owner"] = "loaded"
  /\ lastWrite' = IF file.state = "missing" THEN -1 ELSE file.time
  /\ missed' = (file.state # "missing" /\ file.time # loaded)
  /\ \/ Become(CheckDisk(FlushEvery(ApplySoft(Build(Members))))) /\ Goto("owner", "launch")
     \/ \* a sink cannot open its file: the exception leaves no logger
        /\ cfg.all \/ cfg.alerts
        /\ Goto("owner", "failed")
        /\ UNCHANGED <<cfg, sinks, dist, detached, skipped, doubled>>
  /\ UNCHANGED <<file, disk, running, loaded>>

\* The flag is set first: when the thread cannot be made, the exception leaves
\* it set and no thread.
Launch ==
  /\ running' = TRUE
  /\ \E thread \in {"check", "none"} : pc' = [owner |-> "idle", thread |-> thread]
  /\ UNCHANGED <<file, disk, members, history>>

\* The end of init: startAutoReload, or a stopAutoReload that finds nothing to
\* stop.  Only init reads AUTO_RELOAD_SEC.
InitLaunch == pc["owner"] = "launch" /\ ~Held /\ cfg.auto /\ Launch

InitManual ==
  /\ pc["owner"] = "launch" /\ ~cfg.auto
  /\ Goto("owner", "idle")
  /\ UNCHANGED <<file, disk, members, running, history>>

(***************************************************************************)
(* reloadIfChanged, called by the owner or by the thread.                  *)
(***************************************************************************)
May(who) == \/ who = "owner" /\ pc[who] = "idle"
            \/ who = "thread" /\ pc[who] = "stat"
End(who) == Goto(who, IF who = "owner" THEN "idle" ELSE "sleep")
Changed == file.state # "missing" /\ file.time # lastWrite

ReloadUnchangedQuietly(who) ==
  /\ May(who) /\ ~Held /\ ~Changed
  /\ End(who)
  /\ UNCHANGED <<file, disk, members, running, history>>

ReloadUnchanged(who) ==
  /\ May(who) /\ ~Held /\ ~Changed
  /\ Become(CheckDisk(Members))
  /\ End(who)
  /\ UNCHANGED <<file, disk, lastWrite, running, loaded, missed>>

ReloadChanged(who) ==
  /\ May(who) /\ ~Held /\ Changed
  /\ lastWrite' = file.time
  /\ Goto(who, "load")
  /\ UNCHANGED <<file, disk, cfg, sinks, dist, detached, running, history>>

ReloadFails(who) ==
  /\ pc[who] = "load" /\ file.state # "present"
  /\ missed' = TRUE
  /\ Become(CheckDisk(Members))
  /\ End(who)
  /\ UNCHANGED <<file, disk, lastWrite, running, loaded>>

ReloadApplies(who) ==
  /\ pc[who] = "load" /\ file.state = "present"
  /\ loaded' = file.time /\ missed' = FALSE
  /\ \E m \in ApplyHard(Reading, cfg) : Become(CheckDisk(FlushEvery(ApplySoft(m))))
  /\ End(who)
  /\ UNCHANGED <<file, disk, lastWrite, running>>

\* A sink cannot open its file: the exception skips what comes after, the soft
\* settings, the flush and the disk check included; the thread swallows it.
ReloadThrows(who) ==
  /\ pc[who] = "load" /\ file.state = "present"
  /\ loaded' = file.time /\ missed' = FALSE
  /\ \E m \in Interrupted(Reading, cfg) : Become(m)
  /\ End(who)
  /\ UNCHANGED <<file, disk, lastWrite, running>>

ReloadStep(who) ==
  \/ ReloadUnchanged(who) \/ ReloadChanged(who)
  \/ ReloadFails(who) \/ ReloadApplies(who) \/ ReloadThrows(who)

(***************************************************************************)
(* startAutoReload and stopAutoReload: the latter takes no lock.           *)
(***************************************************************************)
StartAutoReload == pc["owner"] = "idle" /\ ~Held /\ ~running /\ Launch

StopCheck ==
  /\ pc["owner"] = "idle" /\ running
  /\ Goto("owner", "flag")
  /\ UNCHANGED <<file, disk, members, running, history>>

StopFlag ==
  /\ pc["owner"] = "flag"
  /\ running' = FALSE
  /\ Goto("owner", "join")
  /\ UNCHANGED <<file, disk, members, history>>

StopJoin ==
  /\ pc["owner"] = "join" /\ pc["thread"] \in {"ended", "none"}
  /\ pc' = [owner |-> "idle", thread |-> "none"]
  /\ UNCHANGED <<file, disk, members, running, history>>

\* The destructor is stopAutoReload followed by the end of the members.
Destroy ==
  /\ pc["owner"] \in {"new", "idle", "failed"} /\ ~running
  /\ Goto("owner", "gone")
  /\ UNCHANGED <<file, disk, members, running, history>>

(***************************************************************************)
(* The loop of autoReloadThread_ around reloadIfChanged.                   *)
(***************************************************************************)
ThreadCheck ==
  /\ pc["thread"] = "check"
  /\ Goto("thread", IF running THEN "stat" ELSE "ended")
  /\ UNCHANGED <<file, disk, members, running, history>>

ThreadGivesUp ==
  /\ pc["thread"] = "sleep"
  /\ Goto("thread", IF skipped # {} THEN "ended" ELSE "check")
  /\ UNCHANGED <<file, disk, members, running, history>>

ThreadWakes ==
  /\ pc["thread"] = "sleep"
  /\ Goto("thread", "check")
  /\ UNCHANGED <<file, disk, members, running, history>>

\* The environment: an editor of the INI file, and the disk.
Edit ==
  /\ file.time < MaxEdits
  /\ \E c \in Configs, s \in {"present", "unreadable", "missing"} :
        file' = [state |-> s, config |-> c, time |-> file.time + 1]
  /\ UNCHANGED <<disk, members, running, pc, history>>

DiskChanges ==
  /\ disk' \in {"ok", "low", "error"} \ {disk}
  /\ UNCHANGED <<file, members, running, pc, history>>

InitStep == InitLoad \/ InitBuild \/ InitLaunch \/ InitManual
StopStep == StopCheck \/ StopFlag \/ StopJoin
ThreadStep == ThreadCheck \/ ThreadWakes \/ ReloadStep("thread")

Next ==
  \/ InitStep \/ ReloadStep("owner") \/ StartAutoReload \/ StopStep \/ Destroy
  \/ ThreadStep \/ Edit \/ DiskChanges

Spec == Init /\ [][Next]_vars

\* The system runs the thread and its sleeps end; the owner finishes a call it
\* has begun.  Weak fairness is enough for mu_: the owner holds it across steps
\* only when the file has changed.
Fairness ==
  /\ WF_vars(ThreadStep)
  /\ WF_vars(pc["owner"] # "new" /\ InitStep)
  /\ WF_vars(pc["owner"] = "load" /\ ReloadStep("owner"))
  /\ WF_vars(StopFlag \/ StopJoin)
FairSpec == Spec /\ Fairness

-----------------------------------------------------------------------------
Ready == pc["owner"] \notin {"new", "loaded", "failed", "gone"} /\ ~Held

\* Between calls the distributor holds exactly the sinks the members point to,
\* each once, and no file sink while the disk guard has detached them: no log
\* line is written twice and no forgotten sink keeps a file open.  A file sink
\* attached during a suspension voids it, and a reload that threw voids it for
\* the kinds of sink it did not come to, until one is opened anew or disabled.
DistMatchesMembers ==
  Ready /\ ~doubled =>
    \A s \in Sinks :
      s[1] \notin skipped =>
        dist[s] = IF \/ s = Console /\ sinks.console
                     \/ s[1] # "console" /\ sinks[s[1]] = s[2] /\ ~detached
                  THEN 1 ELSE 0

\* Whatever sequence of edits was loaded, between calls the sinks are those the
\* last configuration asks for, with its soft settings and periodic flush:
\* reloading ends where a fresh init would.  The exceptions are the fallback
\* console, a flush interval set to 0 ("Disabling periodic flush at runtime is
\* limited", the reload warns) and what a reload that threw did not come to,
\* until a later one sets it.
SinksFollowConfig ==
  Ready =>
    /\ cfg.console => sinks.console
    /\ "all" \notin skipped => sinks.all = IF cfg.all THEN cfg.allFile ELSE NoFile
    /\ "alerts" \notin skipped => sinks.alerts = IF cfg.alerts THEN cfg.alertsFile ELSE NoFile
    /\ "soft" \notin skipped => sinks.soft = cfg.soft
    /\ "flush" \notin skipped /\ cfg.flush > 0 => sinks.flush = cfg.flush

\* stopAutoReload returns, although the thread it joins needs mu_ to go on.
StopReturns == pc["owner"] = "flag" ~> pc["owner"] = "idle"

AutoReloading == running /\ pc["thread"] # "none"

\* While auto-reload runs, the contents of a readable file are loaded in the
\* end, even if the file changes between the stat and the load, unless a load
\* failed or the file changed in the middle of init.
Stale == file.state = "present" /\ loaded # file.time
AutoReloadCatchesUp == AutoReloading /\ Stale ~> ~Stale \/ ~running \/ missed

\* While auto-reload runs, file logging is suspended and resumed as the disk
\* demands, whether or not the INI file changes.
GuardOff == ~cfg.guard \/ ~cfg.root
DiskGuardActs ==
  /\ AutoReloading /\ disk = "low" /\ ~detached ~> detached \/ disk # "low" \/ GuardOff \/ ~running
  /\ AutoReloading /\ disk = "ok" /\ detached ~> ~detached \/ disk # "ok" \/ GuardOff \/ ~running

\* What the code says when it suspends: "File logging suspended, console only."
SuspendedMeansNoFileSink ==
  Ready /\ detached /\ skipped = {} => \A s \in Sinks \ {Console} : dist[s] = 0

\* What the header says of reloadIfChanged: a changed file is reloaded.
EveryChangeIsReloaded == AutoReloading /\ Stale ~> ~Stale \/ ~running
=============================================================================
