------------------------ MODULE LoggerManagerProofs -------------------------
(***************************************************************************)
(* What init, reloadIfChanged and the disk guard leave in the distributor, *)
(* for any files and configurations and any number of edits.  Each helper  *)
(* of the model gets a lemma about the record of members it returns; the   *)
(* steps that become that record cite it.                                  *)
(***************************************************************************)
EXTENDS LoggerManager, TLAPS

FileKinds == {"all", "alerts"}
Settings == FileKinds \cup {"soft", "flush"}
SinkType == [console : BOOLEAN, all : Files \cup {NoFile}, alerts : Files \cup {NoFile},
             soft : Nat, flush : Nat]
MemberType == [cfg : ConfigType, sinks : SinkType, dist : [Sinks -> Nat],
               detached : BOOLEAN, skipped : SUBSET Settings, doubled : BOOLEAN]

\* The sink of a kind that a configuration asks for.
Wanted(c, kind) ==
  IF c[kind] THEN (IF kind = "all" THEN c.allFile ELSE c.alertsFile) ELSE NoFile

-----------------------------------------------------------------------------
(***************************************************************************)
(* The inductive invariant.  A sink the members do not point to is never   *)
(* attached.  One they point to is attached as often as the suspension     *)
(* says, unless a file was opened during it ("doubled"): the next          *)
(* suspension removes every occurrence, and the count is exact again.      *)
(* What a reload that threw has "skipped" is owed by a later one.          *)
(***************************************************************************)
ConsoleMatches(m) == m.dist[Console] = IF m.sinks.console THEN 1 ELSE 0
FileMatches(m, kind) ==
  \A f \in Files :
    IF f = m.sinks[kind]
      THEN ~m.doubled /\ kind \notin m.skipped =>
             m.dist[<<kind, f>>] = IF m.detached THEN 0 ELSE 1
      ELSE m.dist[<<kind, f>>] = 0
Matches(m) == ConsoleMatches(m) /\ FileMatches(m, "all") /\ FileMatches(m, "alerts")

\* A kind that was not skipped has the sink that configuration c asks for.
Has(m, c, kind) == kind \in m.skipped \/ m.sinks[kind] = Wanted(c, kind)
Shows(m) ==
  /\ m.cfg.console => m.sinks.console
  /\ Has(m, m.cfg, "all") /\ Has(m, m.cfg, "alerts")
Softened(m) == "soft" \in m.skipped \/ m.sinks.soft = m.cfg.soft
Flushes(m) == "flush" \in m.skipped \/ m.cfg.flush = 0 \/ m.sinks.flush = m.cfg.flush
Fits(m) == Matches(m) /\ Shows(m) /\ Softened(m) /\ Flushes(m)

Typed ==
  /\ file \in [state : {"present", "unreadable", "missing"}, config : Configs, time : Int]
  /\ Members \in MemberType

\* init has built a logger that nothing has ended.  While a call holds mu_ between
\* the stat and the load, the members are still those of the call before.
Built == pc["owner"] \notin {"new", "loaded", "failed", "gone"}

\* Until init builds, no thread runs and nothing is suspended.
Fresh ==
  /\ DOMAIN pc = {"owner", "thread"}
  /\ pc["owner"] \in {"new", "loaded", "launch", "failed"} => pc["thread"] = "none"
  /\ pc["owner"] \in {"new", "loaded"} => ~detached /\ ~doubled

Inv == Typed /\ Fresh /\ (Built => Fits(Members))

-----------------------------------------------------------------------------
(***************************************************************************)
(* The distributor.                                                        *)
(***************************************************************************)
Named == FileKinds \X Files

\* A sink is the console or a kind with a file.
LEMMA SinksAreTwoKinds ==
  /\ Console \in Sinks /\ Named \subseteq Sinks /\ Sinks = {Console} \cup Named
  /\ \A kind \in FileKinds, f \in Files : <<kind, f>> \in Named /\ <<kind, f>> # Console
BY DEF Console, Sinks, Named, FileKinds

\* Attaching a sink adds one of it.
LEMMA AttachAddsOne ==
  ASSUME NEW d \in [Sinks -> Nat], NEW s \in Sinks
  PROVE  /\ Attach(d, s) \in [Sinks -> Nat]
         /\ \A t \in Sinks : Attach(d, s)[t] = IF t = s THEN d[t] + 1 ELSE d[t]
BY DEF Attach

\* Removing a sink takes all of it.
LEMMA RemoveTakesAll ==
  ASSUME NEW d \in [Sinks -> Nat], NEW s \in Sinks
  PROVE  /\ Remove(d, s) \in [Sinks -> Nat]
         /\ \A t \in Sinks : Remove(d, s)[t] = IF t = s THEN 0 ELSE d[t]
BY DEF Remove

\* Attaching a file sink, unless there is none, adds one of it.
LEMMA AttachIfAddsOne ==
  ASSUME NEW d \in [Sinks -> Nat], NEW kind \in FileKinds, NEW f \in Files \cup {NoFile}
  PROVE  /\ AttachIf(d, kind, f) \in [Sinks -> Nat]
         /\ AttachIf(d, kind, f)[Console] = d[Console]
         /\ \A k \in FileKinds, g \in Files :
              AttachIf(d, kind, f)[<<k, g>>] =
                IF k = kind /\ g = f THEN d[<<k, g>>] + 1 ELSE d[<<k, g>>]
<1>1. CASE f = NoFile
  BY <1>1, FilesAssumption DEF AttachIf
<1>2. CASE f \in Files
  <2>1. AttachIf(d, kind, f) = Attach(d, <<kind, f>>) /\ <<kind, f>> \in Sinks
    BY <1>2, FilesAssumption, SinksAreTwoKinds DEF AttachIf
  <2>2. /\ Attach(d, <<kind, f>>) \in [Sinks -> Nat]
        /\ \A t \in Sinks : Attach(d, <<kind, f>>)[t] = IF t = <<kind, f>> THEN d[t] + 1 ELSE d[t]
    BY <2>1, AttachAddsOne
  <2>3. ASSUME NEW k \in FileKinds, NEW g \in Files
        PROVE  <<k, g>> \in Sinks /\ (<<k, g>> = <<kind, f>> <=> k = kind /\ g = f)
    BY SinksAreTwoKinds
  <2>4. Console \in Sinks /\ Console # <<kind, f>>
    BY <1>2, SinksAreTwoKinds
  <2> QED
    BY <1>2, <2>1, <2>2, <2>3, <2>4, FilesAssumption
<1> QED
  BY <1>1, <1>2

\* Removing a file sink, unless there is none, takes all of it.
LEMMA RemoveIfTakesAll ==
  ASSUME NEW d \in [Sinks -> Nat], NEW kind \in FileKinds, NEW f \in Files \cup {NoFile}
  PROVE  /\ RemoveIf(d, kind, f) \in [Sinks -> Nat]
         /\ RemoveIf(d, kind, f)[Console] = d[Console]
         /\ \A k \in FileKinds, g \in Files :
              RemoveIf(d, kind, f)[<<k, g>>] = IF k = kind /\ g = f THEN 0 ELSE d[<<k, g>>]
<1>1. CASE f = NoFile
  BY <1>1, FilesAssumption DEF RemoveIf
<1>2. CASE f \in Files
  <2>1. RemoveIf(d, kind, f) = Remove(d, <<kind, f>>) /\ <<kind, f>> \in Sinks
    BY <1>2, FilesAssumption, SinksAreTwoKinds DEF RemoveIf
  <2>2. /\ Remove(d, <<kind, f>>) \in [Sinks -> Nat]
        /\ \A t \in Sinks : Remove(d, <<kind, f>>)[t] = IF t = <<kind, f>> THEN 0 ELSE d[t]
    BY <2>1, RemoveTakesAll
  <2>3. ASSUME NEW k \in FileKinds, NEW g \in Files
        PROVE  <<k, g>> \in Sinks /\ (<<k, g>> = <<kind, f>> <=> k = kind /\ g = f)
    BY SinksAreTwoKinds
  <2>4. Console \in Sinks /\ Console # <<kind, f>>
    BY <1>2, SinksAreTwoKinds
  <2> QED
    BY <1>2, <2>1, <2>2, <2>3, <2>4, FilesAssumption
<1> QED
  BY <1>1, <1>2

\* The console is attached to, and removed from, a distributor on its own.
LEMMA ConsoleIsApart ==
  ASSUME NEW d \in [Sinks -> Nat]
  PROVE  /\ Attach(d, Console) \in [Sinks -> Nat] /\ Remove(d, Console) \in [Sinks -> Nat]
         /\ Attach(d, Console)[Console] = d[Console] + 1 /\ Remove(d, Console)[Console] = 0
         /\ \A k \in FileKinds, g \in Files : /\ Attach(d, Console)[<<k, g>>] = d[<<k, g>>]
                                              /\ Remove(d, Console)[<<k, g>>] = d[<<k, g>>]
<1>1. Console \in Sinks
  BY SinksAreTwoKinds
<1>2. ASSUME NEW k \in FileKinds, NEW g \in Files PROVE <<k, g>> \in Sinks \ {Console}
  BY SinksAreTwoKinds
<1>3. /\ Attach(d, Console) \in [Sinks -> Nat] /\ Attach(d, Console)[Console] = d[Console] + 1
      /\ \A t \in Sinks \ {Console} : Attach(d, Console)[t] = d[t]
  BY <1>1, AttachAddsOne
<1>4. /\ Remove(d, Console) \in [Sinks -> Nat] /\ Remove(d, Console)[Console] = 0
      /\ \A t \in Sinks \ {Console} : Remove(d, Console)[t] = d[t]
  BY <1>1, RemoveTakesAll
<1> QED
  BY <1>2, <1>3, <1>4

\* A new distributor holds no sink.
LEMMA EmptyHoldsNothing ==
  /\ Empty \in [Sinks -> Nat] /\ Empty[Console] = 0
  /\ \A k \in FileKinds, g \in Files : Empty[<<k, g>>] = 0
BY SinksAreTwoKinds DEF Empty

-----------------------------------------------------------------------------
(***************************************************************************)
(* The disk guard.                                                         *)
(***************************************************************************)
\* A suspension takes the file sinks out and changes nothing else.
LEMMA SuspendFits ==
  ASSUME NEW m \in MemberType
  PROVE  Suspend(m) \in MemberType /\ (Fits(m) => Fits(Suspend(m)))
<1> DEFINE one == RemoveIf(m.dist, "all", m.sinks.all)
           two == RemoveIf(one, "alerts", m.sinks.alerts)
<1>1. /\ m.dist \in [Sinks -> Nat] /\ m.sinks \in SinkType
      /\ m.sinks.all \in Files \cup {NoFile} /\ m.sinks.alerts \in Files \cup {NoFile}
  BY DEF MemberType, SinkType
<1>2. /\ one \in [Sinks -> Nat] /\ one[Console] = m.dist[Console]
      /\ \A k \in FileKinds, g \in Files :
           one[<<k, g>>] = IF k = "all" /\ g = m.sinks.all THEN 0 ELSE m.dist[<<k, g>>]
  BY <1>1, RemoveIfTakesAll DEF FileKinds
<1>3. /\ two \in [Sinks -> Nat] /\ two[Console] = one[Console]
      /\ \A k \in FileKinds, g \in Files :
           two[<<k, g>>] = IF k = "alerts" /\ g = m.sinks.alerts THEN 0 ELSE one[<<k, g>>]
  BY <1>1, <1>2, RemoveIfTakesAll DEF FileKinds
<1> DEFINE r == Suspend(m)
<1>4. /\ r.cfg = m.cfg /\ r.sinks = m.sinks /\ r.dist = two /\ r.detached = TRUE
      /\ r.doubled = FALSE /\ r.skipped = m.skipped /\ r \in MemberType
  BY <1>3 DEF Suspend, MemberType
<1> HIDE DEF one, two, r
<1>5. Matches(m) => Matches(r)
  BY <1>2, <1>3, <1>4 DEF Matches, ConsoleMatches, FileMatches, FileKinds
<1>6. Shows(m) => Shows(r)
  BY <1>4 DEF Shows, Has
<1> QED
  BY <1>4, <1>5, <1>6 DEF Fits, Softened, Flushes, r

\* Soft settings are applied to sinks that stay as they are,
LEMMA ApplySoftKeeps ==
  ASSUME NEW m \in MemberType
  PROVE  /\ ApplySoft(m) \in MemberType /\ Softened(ApplySoft(m))
         /\ Matches(m) => Matches(ApplySoft(m))
         /\ Shows(m) => Shows(ApplySoft(m))
         /\ Flushes(m) => Flushes(ApplySoft(m))
<1> DEFINE r == ApplySoft(m)
<1>1. /\ r.cfg = m.cfg /\ r.dist = m.dist /\ r.detached = m.detached /\ r.doubled = m.doubled
      /\ r.sinks.console = m.sinks.console /\ r.sinks.all = m.sinks.all
      /\ r.sinks.alerts = m.sinks.alerts /\ r.sinks.soft = m.cfg.soft
      /\ r.sinks.flush = m.sinks.flush /\ r.skipped = m.skipped \ {"soft"}
      /\ r \in MemberType
  BY DEF ApplySoft, MemberType, SinkType, ConfigType
<1> HIDE DEF r
<1> QED
  BY <1>1 DEF Softened, Flushes, Matches, ConsoleMatches, FileMatches, Shows, Has, r

\* and so is the interval of the periodic flush.
LEMMA FlushEveryKeeps ==
  ASSUME NEW m \in MemberType
  PROVE  /\ FlushEvery(m) \in MemberType
         /\ Matches(m) /\ Shows(m) /\ Softened(m) => Fits(FlushEvery(m))
<1> DEFINE r == FlushEvery(m)
<1>1. m.cfg.flush \in Nat
  BY DEF MemberType, ConfigType
<1> DEFINE flush == IF m.cfg.flush > 0 THEN m.cfg.flush ELSE m.sinks.flush
<1>2. /\ flush \in Nat /\ (m.cfg.flush = 0 \/ flush = m.cfg.flush)
      /\ r = [m EXCEPT !.sinks.flush = flush, !.skipped = m.skipped \ {"flush"}]
  BY <1>1 DEF FlushEvery, MemberType, SinkType
<1> HIDE DEF flush, r
<1>3. /\ r.cfg = m.cfg /\ r.dist = m.dist /\ r.detached = m.detached /\ r.doubled = m.doubled
      /\ r.sinks.console = m.sinks.console /\ r.sinks.all = m.sinks.all
      /\ r.sinks.alerts = m.sinks.alerts /\ r.sinks.soft = m.sinks.soft
      /\ m.cfg.flush = 0 \/ r.sinks.flush = m.cfg.flush
      /\ r.skipped = m.skipped \ {"flush"} /\ r \in MemberType
  BY <1>1, <1>2 DEF MemberType, SinkType
<1> QED
  BY <1>2, <1>3 DEF Fits, Softened, Flushes, Matches, ConsoleMatches, FileMatches, Shows, Has, r

\* A resumption puts the file sinks back that the suspension took out.
LEMMA ResumeFits ==
  ASSUME NEW m \in MemberType, m.detached
  PROVE  Resume(m) \in MemberType /\ (Fits(m) => Fits(Resume(m)))
<1> DEFINE all == IF m.cfg.all THEN m.sinks.all ELSE NoFile
           alerts == IF m.cfg.alerts THEN m.sinks.alerts ELSE NoFile
           one == AttachIf(m.dist, "all", all)
           two == AttachIf(one, "alerts", alerts)
           r == [m EXCEPT !.dist = two, !.detached = FALSE]
<1>1. /\ m.dist \in [Sinks -> Nat]
      /\ all \in Files \cup {NoFile} /\ alerts \in Files \cup {NoFile}
  BY DEF MemberType, SinkType
<1>2. /\ one \in [Sinks -> Nat] /\ one[Console] = m.dist[Console]
      /\ \A k \in FileKinds, g \in Files :
           one[<<k, g>>] = IF k = "all" /\ g = all THEN m.dist[<<k, g>>] + 1 ELSE m.dist[<<k, g>>]
  BY <1>1, AttachIfAddsOne DEF FileKinds
<1>3. /\ two \in [Sinks -> Nat] /\ two[Console] = one[Console]
      /\ \A k \in FileKinds, g \in Files :
           two[<<k, g>>] = IF k = "alerts" /\ g = alerts THEN one[<<k, g>>] + 1 ELSE one[<<k, g>>]
  BY <1>1, <1>2, AttachIfAddsOne DEF FileKinds
<1>4. /\ r.cfg = m.cfg /\ r.sinks = m.sinks /\ r.dist = two /\ r.detached = FALSE
      /\ r.skipped = m.skipped /\ r.doubled = m.doubled /\ r \in MemberType
  BY <1>3 DEF MemberType
<1>5. Resume(m) = ApplySoft(r)
  BY DEF Resume
<1>6. /\ all \in {m.sinks.all, NoFile} /\ alerts \in {m.sinks.alerts, NoFile}
      /\ Shows(m) => /\ "all" \in m.skipped \/ all = m.sinks.all
                     /\ "alerts" \in m.skipped \/ alerts = m.sinks.alerts
  BY DEF Shows, Has, Wanted
<1> HIDE DEF all, alerts, one, two, r
<1>7. Matches(m) /\ Shows(m) => Matches(r)
  BY <1>2, <1>3, <1>4, <1>6, FilesAssumption
     DEF Matches, ConsoleMatches, FileMatches, FileKinds
<1>8. (Shows(m) => Shows(r)) /\ (Flushes(m) => Flushes(r))
  BY <1>4 DEF Shows, Has, Flushes
<1> QED
  BY <1>4, <1>5, <1>7, <1>8, ApplySoftKeeps DEF Fits

\* The disk guard leaves a fitting distributor, whatever it finds.
LEMMA CheckDiskFits ==
  ASSUME NEW m \in MemberType
  PROVE  CheckDisk(m) \in MemberType /\ (Fits(m) => Fits(CheckDisk(m)))
<1>1. \/ CheckDisk(m) = m
      \/ CheckDisk(m) = Suspend(m)
      \/ m.detached /\ CheckDisk(m) = Resume(m)
  BY DEF CheckDisk
<1> QED
  BY <1>1, SuspendFits, ResumeFits

-----------------------------------------------------------------------------
(***************************************************************************)
(* init.                                                                   *)
(***************************************************************************)
\* The console that is attached when there is no sink fits.
LEMMA FallbackKeeps ==
  ASSUME NEW m \in MemberType
  PROVE  /\ Fallback(m) \in MemberType
         /\ Matches(m) => Matches(Fallback(m))
         /\ Shows(m) => Shows(Fallback(m))
<1>1. CASE m.dist # Empty
  BY <1>1 DEF Fallback
<1>2. CASE m.dist = Empty
  <2> DEFINE r == Fallback(m)
  <2>1. /\ Attach(Empty, Console) \in [Sinks -> Nat] /\ Attach(Empty, Console)[Console] = 1
        /\ \A k \in FileKinds, g \in Files : Attach(Empty, Console)[<<k, g>>] = 0
    BY ConsoleIsApart, EmptyHoldsNothing
  <2>2. /\ r.cfg = m.cfg /\ r.dist = Attach(Empty, Console) /\ r.detached = m.detached
        /\ r.doubled = m.doubled /\ r.sinks.console = TRUE /\ r.sinks.all = m.sinks.all
        /\ r.sinks.alerts = m.sinks.alerts /\ r.sinks.soft = m.sinks.soft
        /\ r.skipped = m.skipped /\ r \in MemberType
    BY <1>2, <2>1 DEF Fallback, MemberType, SinkType
  <2>3. \A k \in FileKinds, g \in Files : m.dist[<<k, g>>] = 0
    BY <1>2, EmptyHoldsNothing
  <2> HIDE DEF r
  <2>4. Matches(m) => Matches(r)
    BY <2>1, <2>2, <2>3 DEF Matches, ConsoleMatches, FileMatches, FileKinds
  <2>5. Shows(m) => Shows(r)
    BY <2>2 DEF Shows, Has
  <2> QED
    BY <2>2, <2>4, <2>5 DEF r
<1> QED
  BY <1>1, <1>2

\* A distributor built while nothing is suspended holds what was asked for.
LEMMA BuildFits ==
  ASSUME NEW m \in MemberType
  PROVE  /\ Build(m) \in MemberType
         /\ ~m.detached => Matches(Build(m)) /\ Shows(Build(m))
<1> DEFINE all == IF m.cfg.all THEN m.cfg.allFile ELSE NoFile
           alerts == IF m.cfg.alerts THEN m.cfg.alertsFile ELSE NoFile
           console == IF m.cfg.console THEN Attach(Empty, Console) ELSE Empty
           one == AttachIf(console, "all", all)
           two == AttachIf(one, "alerts", alerts)
           r == [m EXCEPT !.sinks.console = m.cfg.console, !.sinks.all = all,
                          !.sinks.alerts = alerts, !.dist = two]
<1>1. /\ all \in Files \cup {NoFile} /\ alerts \in Files \cup {NoFile}
      /\ all = Wanted(m.cfg, "all") /\ alerts = Wanted(m.cfg, "alerts")
  BY DEF MemberType, ConfigType, Wanted
<1>2. /\ console \in [Sinks -> Nat] /\ console[Console] = IF m.cfg.console THEN 1 ELSE 0
      /\ \A k \in FileKinds, g \in Files : console[<<k, g>>] = 0
  BY ConsoleIsApart, EmptyHoldsNothing
<1> HIDE DEF all, alerts, console
<1>3. /\ one \in [Sinks -> Nat] /\ one[Console] = console[Console]
      /\ \A k \in FileKinds, g \in Files :
           one[<<k, g>>] = IF k = "all" /\ g = all THEN 1 ELSE 0
  BY <1>1, <1>2, AttachIfAddsOne DEF FileKinds
<1> HIDE DEF one
<1>4. /\ two \in [Sinks -> Nat] /\ two[Console] = console[Console]
      /\ \A g \in Files : /\ two[<<"all", g>>] = IF g = all THEN 1 ELSE 0
                          /\ two[<<"alerts", g>>] = IF g = alerts THEN 1 ELSE 0
  BY <1>1, <1>3, AttachIfAddsOne DEF FileKinds
<1> HIDE DEF two
<1>5. /\ r.cfg = m.cfg /\ r.dist = two /\ r.detached = m.detached /\ r.doubled = m.doubled
      /\ r.sinks.console = m.cfg.console /\ r.sinks.all = all /\ r.sinks.alerts = alerts
      /\ r \in MemberType
  BY <1>1, <1>4 DEF MemberType, SinkType, ConfigType
<1>6. Build(m) = Fallback(r)
  BY DEF Build, all, alerts, console, one, two
<1> HIDE DEF r
<1>7. ~m.detached => Matches(r)
  BY <1>2, <1>4, <1>5 DEF Matches, ConsoleMatches, FileMatches
<1>8. Shows(r)
  BY <1>1, <1>5 DEF Shows, Has
<1> QED
  BY <1>5, <1>6, <1>7, <1>8, FallbackKeeps

-----------------------------------------------------------------------------
(***************************************************************************)
(* The stages of applyHardSettingsIfNeeded, with the configuration before  *)
(* the reload as "old".                                                    *)
(***************************************************************************)
\* The console's stage leaves the console that is asked for.
LEMMA HardConsoleFits ==
  ASSUME NEW m \in MemberType, NEW r, r = HardConsole(m)
  PROVE  /\ r \in MemberType /\ r.cfg = m.cfg
         /\ r.sinks.all = m.sinks.all /\ r.sinks.alerts = m.sinks.alerts
         /\ r.skipped = m.skipped
         /\ r.cfg.console => r.sinks.console
         /\ Matches(m) => Matches(r)
<1>1. m.dist \in [Sinks -> Nat] /\ m.cfg.console \in BOOLEAN /\ m.sinks.console \in BOOLEAN
  BY DEF MemberType, ConfigType, SinkType
<1>2. CASE m.cfg.console /\ ~m.sinks.console
  <2>1. /\ r.cfg = m.cfg /\ r.dist = Attach(m.dist, Console) /\ r.detached = m.detached
        /\ r.doubled = m.doubled /\ r.sinks.console = TRUE
        /\ r.sinks.all = m.sinks.all /\ r.sinks.alerts = m.sinks.alerts
        /\ r.skipped = m.skipped /\ r \in MemberType
    BY <1>1, <1>2, ConsoleIsApart DEF HardConsole, MemberType, SinkType
  <2>2. /\ r.dist[Console] = m.dist[Console] + 1
        /\ \A k \in FileKinds, g \in Files : r.dist[<<k, g>>] = m.dist[<<k, g>>]
    BY <1>1, <2>1, ConsoleIsApart
  <2>3. Matches(m) => Matches(r)
    BY <1>2, <2>1, <2>2 DEF Matches, ConsoleMatches, FileMatches, FileKinds
  <2> QED
    BY <2>1, <2>3
<1>3. CASE ~m.cfg.console /\ m.sinks.console
  <2>1. /\ r.cfg = m.cfg /\ r.dist = Remove(m.dist, Console) /\ r.detached = m.detached
        /\ r.doubled = m.doubled /\ r.sinks.console = FALSE
        /\ r.sinks.all = m.sinks.all /\ r.sinks.alerts = m.sinks.alerts
        /\ r.skipped = m.skipped /\ r \in MemberType
    BY <1>1, <1>3, ConsoleIsApart DEF HardConsole, MemberType, SinkType
  <2>2. /\ r.dist[Console] = 0
        /\ \A k \in FileKinds, g \in Files : r.dist[<<k, g>>] = m.dist[<<k, g>>]
    BY <1>1, <2>1, ConsoleIsApart
  <2>3. Matches(m) => Matches(r)
    BY <1>3, <2>1, <2>2 DEF Matches, ConsoleMatches, FileMatches, FileKinds
  <2> QED
    BY <1>3, <2>1, <2>3
<1>4. CASE m.cfg.console = m.sinks.console
  <2>1. r = m
    BY <1>1, <1>4 DEF HardConsole
  <2> QED
    BY <1>1, <1>4, <2>1
<1> QED
  BY <1>1, <1>2, <1>3, <1>4

\* A file sink's stage touches the sinks of its kind only, and leaves the one
\* that the new configuration asks for if it found the one of the old.
LEMMA HardFileFits ==
  ASSUME NEW m \in MemberType, NEW old \in ConfigType, NEW kind \in FileKinds,
         NEW r, r = HardFile(kind, m, old)
  PROVE  /\ r \in MemberType /\ r.cfg = m.cfg /\ r.sinks.console = m.sinks.console
         /\ \A k \in FileKinds : k # kind => /\ r.sinks[k] = m.sinks[k]
                                             /\ k \in m.skipped => k \in r.skipped
         /\ Matches(m) => Matches(r)
         /\ Has(m, old, kind) => Has(r, m.cfg, kind)
<1> DEFINE new == IF kind = "all" THEN m.cfg.allFile ELSE m.cfg.alertsFile
           without == RemoveIf(m.dist, kind, m.sinks[kind])
<1>1. /\ m.dist \in [Sinks -> Nat] /\ m.sinks[kind] \in Files \cup {NoFile} /\ new \in Files
      /\ m.cfg[kind] \in BOOLEAN
  BY DEF MemberType, SinkType, ConfigType, FileKinds
<1>2. /\ without \in [Sinks -> Nat] /\ without[Console] = m.dist[Console]
      /\ \A k \in FileKinds, g \in Files :
           without[<<k, g>>] = IF k = kind /\ g = m.sinks[kind] THEN 0 ELSE m.dist[<<k, g>>]
  BY <1>1, RemoveIfTakesAll
<1> HIDE DEF without
<1>3. CASE Opens(kind, m, old)
  <2> DEFINE with == AttachIf(without, kind, new)
  <2>1. /\ with \in [Sinks -> Nat] /\ with[Console] = m.dist[Console]
        /\ \A k \in FileKinds, g \in Files :
             with[<<k, g>>] = IF k = kind /\ g = new THEN without[<<k, g>>] + 1 ELSE without[<<k, g>>]
    BY <1>1, <1>2, AttachIfAddsOne
  <2>2. with = Attach(without, <<kind, new>>)
    BY <1>1, FilesAssumption DEF AttachIf
  <2> HIDE DEF with
  <2>3. r = [m EXCEPT !.dist = with, !.sinks[kind] = new,
                     !.skipped = @ \ {kind}, !.doubled = @ \/ m.detached]
    BY <1>3, <2>2 DEF HardFile, Opens, without
  <2> HIDE DEF new
  <2>4. /\ r.cfg = m.cfg /\ r.dist = with /\ r.detached = m.detached
        /\ r.doubled = (m.doubled \/ m.detached) /\ r.sinks.console = m.sinks.console
        /\ r.sinks[kind] = new /\ (\A k \in FileKinds : k # kind => r.sinks[k] = m.sinks[k])
        /\ r.skipped = m.skipped \ {kind}
    BY <2>3 DEF MemberType, SinkType, FileKinds
  <2>5. r \in MemberType
    <3> DEFINE after == [m.sinks EXCEPT ![kind] = new]
    <3>1. after \in SinkType
      BY <1>1 DEF MemberType, SinkType, FileKinds
    <3>2. /\ m.cfg \in ConfigType /\ with \in [Sinks -> Nat] /\ m.detached \in BOOLEAN
          /\ (m.doubled \/ m.detached) \in BOOLEAN /\ (m.skipped \ {kind}) \in SUBSET Settings
      BY <1>2, <2>1 DEF MemberType
    <3>3. r = [m EXCEPT !.dist = with, !.sinks = after, !.skipped = m.skipped \ {kind},
                        !.doubled = m.doubled \/ m.detached]
      BY <2>3 DEF MemberType
    <3> HIDE DEF after
    <3> QED
      BY <3>1, <3>2, <3>3 DEF MemberType
  <2>6. \A k \in FileKinds, g \in Files :
          r.dist[<<k, g>>] = IF k = kind /\ g = new THEN without[<<k, g>>] + 1
                                                   ELSE without[<<k, g>>]
    BY <2>1, <2>4
  <2>7. Matches(m) => ConsoleMatches(r)
    BY <2>1, <2>4 DEF Matches, ConsoleMatches
  <2>8. ASSUME Matches(m), NEW k \in FileKinds, NEW g \in Files
        PROVE  IF g = r.sinks[k]
                 THEN ~r.doubled /\ k \notin r.skipped =>
                        r.dist[<<k, g>>] = IF r.detached THEN 0 ELSE 1
                 ELSE r.dist[<<k, g>>] = 0
    <3>1. CASE k = kind
      <4>1. m.dist[<<k, g>>] = 0 \/ g = m.sinks[kind]
        BY <2>8, <3>1 DEF Matches, FileMatches, FileKinds
      <4>2. without[<<k, g>>] = 0
        BY <1>2, <3>1, <4>1
      <4>3. r.dist[<<k, g>>] = IF g = new THEN 1 ELSE 0
        BY <2>6, <3>1, <4>2
      <4>4. r.sinks[k] = new /\ (~r.doubled => ~r.detached)
        BY <2>4, <3>1
      <4> QED
        BY <4>3, <4>4
    <3>2. CASE k # kind
      <4>1. /\ r.sinks[k] = m.sinks[k] /\ r.dist[<<k, g>>] = m.dist[<<k, g>>]
            /\ ~r.doubled => ~m.doubled /\ r.detached = m.detached
            /\ k \notin r.skipped => k \notin m.skipped
        <5>1. r.dist[<<k, g>>] = without[<<k, g>>] /\ without[<<k, g>>] = m.dist[<<k, g>>]
          BY <1>2, <2>6, <3>2
        <5> QED
          BY <2>4, <3>2, <5>1
      <4> QED
        BY <2>8, <4>1 DEF Matches, FileMatches, FileKinds
    <3> QED
      BY <3>1, <3>2
  <2>9. Matches(m) => Matches(r)
    BY <2>7, <2>8 DEF Matches, FileMatches, FileKinds
  <2>10. Wanted(m.cfg, kind) = new
    BY <1>3 DEF Opens, Wanted, new
  <2> QED
    BY <2>4, <2>5, <2>9, <2>10 DEF Has
<1>4. CASE ~m.cfg[kind]
  <2>1. r = [m EXCEPT !.dist = without, !.sinks[kind] = NoFile,
                     !.skipped = @ \ {kind}]
    BY <1>4 DEF HardFile, Opens, without
  <2>2. /\ r.cfg = m.cfg /\ r.dist = without /\ r.detached = m.detached /\ r.doubled = m.doubled
        /\ r.sinks.console = m.sinks.console /\ r.sinks[kind] = NoFile
        /\ \A k \in FileKinds : k # kind => r.sinks[k] = m.sinks[k]
        /\ r.skipped = m.skipped \ {kind}
    BY <2>1 DEF MemberType, SinkType, FileKinds
  <2>3. r \in MemberType
    <3> DEFINE after == [m.sinks EXCEPT ![kind] = NoFile]
    <3>1. after \in SinkType
      BY <1>1 DEF MemberType, SinkType, FileKinds
    <3>2. /\ m.cfg \in ConfigType /\ without \in [Sinks -> Nat] /\ m.detached \in BOOLEAN
          /\ m.doubled \in BOOLEAN /\ (m.skipped \ {kind}) \in SUBSET Settings
      BY <1>2, <2>1 DEF MemberType
    <3>3. r = [m EXCEPT !.dist = without, !.sinks = after, !.skipped = m.skipped \ {kind}]
      BY <2>1 DEF MemberType
    <3> HIDE DEF after
    <3> QED
      BY <3>1, <3>2, <3>3 DEF MemberType
  <2>4. Matches(m) => ConsoleMatches(r)
    BY <1>2, <2>2 DEF Matches, ConsoleMatches
  <2>5. ASSUME Matches(m), NEW k \in FileKinds, NEW g \in Files
        PROVE  IF g = r.sinks[k]
                 THEN ~r.doubled /\ k \notin r.skipped =>
                        r.dist[<<k, g>>] = IF r.detached THEN 0 ELSE 1
                 ELSE r.dist[<<k, g>>] = 0
    <3>1. CASE k = kind
      <4>1. m.dist[<<k, g>>] = 0 \/ g = m.sinks[kind]
        BY <2>5, <3>1 DEF Matches, FileMatches, FileKinds
      <4> QED
        BY <1>2, <2>2, <3>1, <4>1, FilesAssumption
    <3>2. CASE k # kind
      <4>1. /\ r.sinks[k] = m.sinks[k] /\ r.dist[<<k, g>>] = m.dist[<<k, g>>]
            /\ k \notin r.skipped => k \notin m.skipped
        BY <1>2, <2>2, <3>2
      <4> QED
        BY <2>2, <2>5, <4>1 DEF Matches, FileMatches, FileKinds
    <3> QED
      BY <3>1, <3>2
  <2>6. Matches(m) => Matches(r)
    BY <2>4, <2>5 DEF Matches, FileMatches, FileKinds
  <2> QED
    BY <1>4, <2>2, <2>3, <2>6 DEF Has, Wanted
<1>5. CASE m.cfg[kind] /\ ~Opens(kind, m, old)
  <2>1. r = m
    BY <1>1, <1>5 DEF HardFile
  <2>2. /\ m.sinks[kind] # NoFile /\ old[kind]
        /\ (kind = "all" => m.cfg.allFile = old.allFile)
        /\ (kind = "alerts" => m.cfg.alertsFile = old.alertsFile)
    BY <1>5 DEF Opens
  <2>3. Wanted(m.cfg, kind) = Wanted(old, kind)
    BY <1>5, <2>2 DEF Wanted, FileKinds
  <2> QED
    BY <2>1, <2>3 DEF Has
<1> QED
  BY <1>1, <1>3, <1>4, <1>5

\* After all stages the sinks are those of the new configuration.
LEMMA ApplyHardFits ==
  ASSUME NEW m \in MemberType, NEW old \in ConfigType, NEW r \in ApplyHard(m, old)
  PROVE  /\ r \in MemberType
         /\ Matches(m) /\ Has(m, old, "all") /\ Has(m, old, "alerts") => Matches(r) /\ Shows(r)
<1>1. PICK c, a, b : /\ c = HardConsole(m) /\ a = HardFile("all", c, old)
                     /\ b = HardFile("alerts", a, old) /\ r = Fallback(b)
  BY DEF ApplyHard, AfterAlerts, AfterAll, AfterConsole
<1>2. /\ c \in MemberType /\ c.cfg = m.cfg
      /\ c.cfg.console => c.sinks.console
      /\ Matches(m) => Matches(c)
      /\ Has(m, old, "all") => Has(c, old, "all")
      /\ Has(m, old, "alerts") => Has(c, old, "alerts")
  BY <1>1, HardConsoleFits DEF Has
<1>3. /\ a \in MemberType /\ a.cfg = m.cfg /\ a.sinks.console = c.sinks.console
      /\ Matches(c) => Matches(a)
      /\ Has(c, old, "all") => Has(a, m.cfg, "all")
      /\ a.sinks.alerts = c.sinks.alerts /\ ("alerts" \in c.skipped => "alerts" \in a.skipped)
  BY <1>1, <1>2, HardFileFits DEF FileKinds
<1>4. /\ b \in MemberType /\ b.cfg = m.cfg /\ b.sinks.console = c.sinks.console
      /\ Matches(a) => Matches(b)
      /\ Has(a, old, "alerts") => Has(b, m.cfg, "alerts")
      /\ b.sinks.all = a.sinks.all /\ ("all" \in a.skipped => "all" \in b.skipped)
  BY <1>1, <1>3, HardFileFits DEF FileKinds
<1>5. Has(m, old, "all") /\ Has(m, old, "alerts") => Shows(b)
  BY <1>2, <1>3, <1>4 DEF Shows, Has
<1> QED
  BY <1>1, <1>2, <1>3, <1>4, <1>5, FallbackKeeps

\* What is skipped may stay as it is.
LEMMA SkipKeeps ==
  ASSUME NEW m \in MemberType, NEW settings \in SUBSET Settings
  PROVE  /\ Skip(m, settings) \in MemberType
         /\ Matches(m) => Matches(Skip(m, settings))
         /\ Skip(m, settings).cfg = m.cfg /\ Skip(m, settings).sinks = m.sinks
         /\ Skip(m, settings).skipped = m.skipped \cup settings
<1> DEFINE r == Skip(m, settings)
<1>1. /\ r.cfg = m.cfg /\ r.sinks = m.sinks /\ r.dist = m.dist /\ r.detached = m.detached
      /\ r.doubled = m.doubled /\ r.skipped = m.skipped \cup settings /\ r \in MemberType
  BY DEF Skip, MemberType
<1> HIDE DEF r
<1> QED
  BY <1>1 DEF Matches, ConsoleMatches, FileMatches, r

\* A reload that an exception ends fits but for what it skipped.
LEMMA InterruptedFits ==
  ASSUME NEW m \in MemberType, NEW old \in ConfigType, NEW r \in Interrupted(m, old)
  PROVE  /\ r \in MemberType
         /\ Matches(m) /\ Has(m, old, "all") => Fits(r)
<1> DEFINE c == HardConsole(m)
<1>1. \/ r = Skip(c, {"all", "alerts", "soft", "flush"})
      \/ r = Skip(HardFile("all", c, old), {"alerts", "soft", "flush"})
  BY DEF Interrupted, AfterAll, AfterConsole
<1>2. /\ c \in MemberType /\ c.cfg = m.cfg /\ (c.cfg.console => c.sinks.console)
      /\ Matches(m) => Matches(c)
      /\ c.sinks.all = m.sinks.all /\ c.skipped = m.skipped
  BY HardConsoleFits
<1> HIDE DEF c
<1>3. CASE r = Skip(c, {"all", "alerts", "soft", "flush"})
  BY <1>2, <1>3, SkipKeeps DEF Fits, Shows, Has, Softened, Flushes, Settings, FileKinds
<1>4. CASE r = Skip(HardFile("all", c, old), {"alerts", "soft", "flush"})
  <2> DEFINE a == HardFile("all", c, old)
  <2>1. /\ a \in MemberType /\ a.cfg = m.cfg /\ a.sinks.console = c.sinks.console
        /\ Matches(c) => Matches(a)
        /\ Has(c, old, "all") => Has(a, m.cfg, "all")
    BY <1>2, HardFileFits DEF FileKinds
  <2> HIDE DEF a
  <2>2. /\ r \in MemberType /\ (Matches(a) => Matches(r)) /\ r.cfg = a.cfg
        /\ r.sinks = a.sinks /\ r.skipped = a.skipped \cup {"alerts", "soft", "flush"}
    BY <1>4, <2>1, SkipKeeps DEF Settings, FileKinds, a
  <2> QED
    BY <1>2, <2>1, <2>2 DEF Fits, Shows, Has, Softened, Flushes
<1> QED
  BY <1>1, <1>3, <1>4

-----------------------------------------------------------------------------
(***************************************************************************)
(* The steps.                                                              *)
(***************************************************************************)
\* A step that becomes a record of members has it afterwards.
LEMMA BecomesIt ==
  ASSUME NEW m \in MemberType, Become(m) PROVE Members' = m
BY DEF Become, Members, MemberType

Callers == {"owner", "thread"}

\* A reload moves only its caller, from where it may to where it goes on.
LEMMA ReloadGoes ==
  ASSUME NEW who \in Callers, ReloadStep(who)
  PROVE  /\ pc[who] \in {"idle", "load", "stat"} /\ (who = "owner" => pc[who] # "stat")
         /\ \E state \in {"idle", "load", "sleep"} :
              /\ pc' = [pc EXCEPT ![who] = state]
              /\ who = "owner" => state # "sleep"
<1> USE DEF Goto, End, May, Callers
<1>1. CASE ReloadUnchanged(who)
  BY <1>1 DEF ReloadUnchanged
<1>2. CASE ReloadChanged(who)
  BY <1>2 DEF ReloadChanged
<1>3. CASE ReloadFails(who)
  BY <1>3 DEF ReloadFails
<1>4. CASE ReloadApplies(who)
  BY <1>4 DEF ReloadApplies
<1>5. CASE ReloadThrows(who)
  BY <1>5 DEF ReloadThrows
<1> QED
  BY <1>1, <1>2, <1>3, <1>4, <1>5 DEF ReloadStep

\* Nothing is built or suspended before init has built.
LEMMA FreshIsKept == Fresh /\ Next => Fresh'
<1> SUFFICES ASSUME Fresh, Next PROVE Fresh'
  OBVIOUS
<1> USE DEF Fresh, Goto, members, history
<1>1. CASE InitLoad
  BY <1>1 DEF InitLoad
<1>2. CASE InitBuild
  BY <1>2 DEF InitBuild
<1>3. CASE InitLaunch \/ InitManual \/ StartAutoReload
  BY <1>3 DEF InitLaunch, InitManual, StartAutoReload, Launch
<1>4. CASE ReloadStep("owner")
  BY <1>4, ReloadGoes DEF Callers
<1>5. CASE ReloadStep("thread")
  BY <1>5, ReloadGoes DEF Callers
<1>6. CASE StopStep \/ Destroy
  BY <1>6 DEF StopStep, StopCheck, StopFlag, StopJoin, Destroy
<1>7. CASE ThreadCheck \/ ThreadWakes
  BY <1>7 DEF ThreadCheck, ThreadWakes
<1>8. CASE Edit \/ DiskChanges
  BY <1>8 DEF Edit, DiskChanges
<1> QED
  BY <1>1, <1>2, <1>3, <1>4, <1>5, <1>6, <1>7, <1>8 DEF Next, InitStep, ThreadStep

\* What is to be shown of a step, and of the record of members it becomes.
DataIsKept == Typed' /\ (Built' => Fits(Members)')

\* A step fits when the record it becomes does.
LEMMA BecomesFitting ==
  ASSUME NEW m \in MemberType, Members' = m,
         file' \in [state : {"present", "unreadable", "missing"}, config : Configs, time : Int],
         Built' => Fits(m)
  PROVE  DataIsKept
<1>1. Fits(m) => Fits(Members)'
  BY DEF Fits, Matches, ConsoleMatches, FileMatches, Shows, Has, Softened, Flushes
<1> QED
  BY <1>1 DEF DataIsKept, Typed

\* A step that leaves the members alone keeps what fits.
LEMMA QuietStepKeeps ==
  ASSUME Inv, UNCHANGED <<members, history>>, Built' => Built,
         file' \in [state : {"present", "unreadable", "missing"}, config : Configs, time : Int]
  PROVE  DataIsKept
<1>1. Members' = Members
  BY DEF members, history, Members
<1> QED
  BY <1>1, BecomesFitting DEF Inv, Typed

\* init fits, when it loads
LEMMA InitLoadKeeps == Inv /\ InitLoad => DataIsKept
<1> SUFFICES ASSUME Inv, InitLoad PROVE DataIsKept
  OBVIOUS
<1>1. /\ Members' = [Members EXCEPT !.cfg = file.config]
      /\ UNCHANGED file /\ pc'["owner"] = "loaded"
  BY DEF InitLoad, Members, Goto, Inv, Fresh
<1>2. Members' \in MemberType
  BY <1>1, ConfigsAssumption DEF Inv, Typed, MemberType
<1> QED
  BY <1>1, <1>2, BecomesFitting DEF Inv, Typed, Built

\* and when it builds.
LEMMA InitBuildKeeps == Inv /\ InitBuild => DataIsKept
<1> SUFFICES ASSUME Inv, InitBuild PROVE DataIsKept
  OBVIOUS
<1>1. Members \in MemberType /\ ~Members.detached /\ UNCHANGED file
  BY DEF InitBuild, Inv, Typed, Fresh, Members
<1>2. CASE Become(CheckDisk(FlushEvery(ApplySoft(Build(Members)))))
  <2>1. /\ Build(Members) \in MemberType
        /\ Matches(Build(Members)) /\ Shows(Build(Members))
    BY <1>1, BuildFits
  <2>2. /\ CheckDisk(FlushEvery(ApplySoft(Build(Members)))) \in MemberType
        /\ Fits(CheckDisk(FlushEvery(ApplySoft(Build(Members)))))
    BY <2>1, ApplySoftKeeps, FlushEveryKeeps, CheckDiskFits
  <2> QED
    BY <1>1, <1>2, <2>2, BecomesIt, BecomesFitting DEF Inv, Typed
<1>3. CASE UNCHANGED <<cfg, sinks, dist, detached, skipped, doubled>> /\ Goto("owner", "failed")
  <2>1. Members' = Members /\ ~Built'
    BY <1>3 DEF Members, Goto, Inv, Fresh, Built
  <2> QED
    BY <1>1, <2>1, BecomesFitting DEF Inv, Typed
<1> QED
  BY <1>2, <1>3 DEF InitBuild

\* A reload fits, whoever calls it and whatever the file holds.
LEMMA ReloadKeeps ==
  ASSUME Inv, NEW who \in Callers, ReloadStep(who) PROVE DataIsKept
<1>1. Built' => Built
  BY ReloadGoes DEF Inv, Fresh, Built, Callers
<1>2. /\ Members \in MemberType /\ cfg = Members.cfg /\ cfg \in ConfigType
      /\ file' = file /\ file.config \in ConfigType
  BY ConfigsAssumption DEF Inv, Typed, Members, MemberType, ReloadStep, ReloadUnchanged,
     ReloadChanged, ReloadFails, ReloadApplies, ReloadThrows
<1>3. CASE ReloadUnchanged(who) \/ ReloadFails(who)
  <2>1. Become(CheckDisk(Members))
    BY <1>3 DEF ReloadUnchanged, ReloadFails
  <2>2. CheckDisk(Members) \in MemberType /\ (Fits(Members) => Fits(CheckDisk(Members)))
    BY <1>2, CheckDiskFits
  <2> QED
    BY <1>1, <1>2, <2>1, <2>2, BecomesIt, BecomesFitting DEF Inv, Typed
<1>4. CASE ReloadChanged(who)
  <2>1. Members' = Members
    BY <1>4 DEF ReloadChanged, Members, history
  <2> QED
    BY <1>1, <1>2, <2>1, BecomesFitting DEF Inv, Typed
<1>5. /\ Reading \in MemberType
      /\ Fits(Members) => Matches(Reading) /\ Has(Reading, cfg, "all") /\ Has(Reading, cfg, "alerts")
  BY <1>2 DEF Reading, MemberType, Fits, Matches, ConsoleMatches, FileMatches, Shows, Has
<1>6. CASE ReloadApplies(who)
  <2>1. PICK m \in ApplyHard(Reading, cfg) : Become(CheckDisk(FlushEvery(ApplySoft(m))))
    BY <1>6 DEF ReloadApplies
  <2>2. m \in MemberType /\ (Fits(Members) => Matches(m) /\ Shows(m))
    BY <1>2, <1>5, ApplyHardFits
  <2>3. /\ CheckDisk(FlushEvery(ApplySoft(m))) \in MemberType
        /\ Fits(Members) => Fits(CheckDisk(FlushEvery(ApplySoft(m))))
    BY <2>2, ApplySoftKeeps, FlushEveryKeeps, CheckDiskFits
  <2> QED
    BY <1>1, <1>2, <2>1, <2>3, BecomesIt, BecomesFitting DEF Inv, Typed
<1>7. CASE ReloadThrows(who)
  <2>1. PICK m \in Interrupted(Reading, cfg) : Become(m)
    BY <1>7 DEF ReloadThrows
  <2>2. m \in MemberType /\ (Fits(Members) => Fits(m))
    BY <1>2, <1>5, InterruptedFits
  <2> QED
    BY <1>1, <1>2, <2>1, <2>2, BecomesIt, BecomesFitting DEF Inv, Typed
<1> QED
  BY <1>3, <1>4, <1>6, <1>7 DEF ReloadStep

\* Every step keeps the invariant.
LEMMA StepInv == Inv /\ [Next]_vars => Inv'
<1> SUFFICES ASSUME Inv, [Next]_vars PROVE Inv'
  OBVIOUS
<1>1. file \in [state : {"present", "unreadable", "missing"}, config : Configs, time : Int]
  BY DEF Inv, Typed
<1>2. ASSUME Next PROVE DataIsKept
  <2>1. CASE InitLoad \/ InitBuild
    BY <2>1, InitLoadKeeps, InitBuildKeeps
  <2>2. CASE InitLaunch \/ InitManual \/ StartAutoReload \/ Destroy
    BY <1>1, <2>2, QuietStepKeeps DEF InitLaunch, InitManual, StartAutoReload, Launch, Destroy,
       Goto, Built, Inv, Fresh
  <2>3. CASE ReloadStep("owner") \/ ReloadStep("thread")
    BY <2>3, ReloadKeeps DEF Callers
  <2>4. CASE StopStep \/ ThreadCheck \/ ThreadWakes
    BY <1>1, <2>4, QuietStepKeeps DEF StopStep, StopCheck, StopFlag, StopJoin, ThreadCheck,
       ThreadWakes, Goto, Built, Inv, Fresh
  <2>5. CASE Edit
    <3>1. UNCHANGED <<members, history, pc>>
          /\ file' \in [state : {"present", "unreadable", "missing"}, config : Configs, time : Int]
      BY <1>1, <2>5 DEF Edit
    <3> QED
      BY <3>1, QuietStepKeeps DEF Built
  <2>6. CASE DiskChanges
    BY <1>1, <2>6, QuietStepKeeps DEF DiskChanges, Built
  <2> QED
    BY <1>2, <2>1, <2>2, <2>3, <2>4, <2>5, <2>6 DEF Next, InitStep, ThreadStep
<1>3. CASE UNCHANGED vars
  <2>1. UNCHANGED <<members, history, pc, file>>
    BY <1>3 DEF vars
  <2>2. DataIsKept
    BY <1>1, <2>1, QuietStepKeeps DEF Built
  <2> QED
    BY <2>1, <2>2 DEF Inv, DataIsKept, Fresh, members, history
<1> QED
  BY <1>2, <1>3, FreshIsKept DEF Inv, DataIsKept

\* Before init nothing is built.
LEMMA InitInv == Init => Inv
<1> SUFFICES ASSUME Init PROVE Inv
  OBVIOUS
<1>1. Members \in MemberType
  BY ConfigsAssumption, EmptyHoldsNothing DEF Init, Members, MemberType, SinkType
<1>2. Typed
  <2>1. file \in [state : {"present", "unreadable", "missing"}, config : Configs, time : Int]
    BY DEF Init
  <2> QED
    BY <1>1, <2>1 DEF Typed
<1>3. Fresh /\ ~Built
  BY DEF Init, Fresh, Built
<1> QED
  BY <1>2, <1>3 DEF Inv

-----------------------------------------------------------------------------
\* What init, reloads, suspensions and edits keep, whatever the files and the
\* configurations.
THEOREM LoggerInv == Spec => []Inv
BY InitInv, StepInv, PTL DEF Spec

\* Between calls the distributor holds the sinks the members point to, each once,
\* and no file sink during a suspension, after any sequence of reloads, unless a
\* file was opened during a suspension; a reload that threw leaves out the kinds
\* it did not come to, until one of them is opened anew or disabled.
THEOREM DistributorIsExact == Spec => []DistMatchesMembers
<1>1. Inv => DistMatchesMembers
  <2> SUFFICES ASSUME Inv, Ready, ~doubled, NEW s \in Sinks, s[1] \notin skipped
               PROVE  dist[s] = IF \/ s = Console /\ sinks.console
                                   \/ s[1] # "console" /\ sinks[s[1]] = s[2] /\ ~detached
                                THEN 1 ELSE 0
    BY DEF DistMatchesMembers
  <2>1. Matches(Members)
    BY DEF Inv, Ready, Built, Fits
  <2>2. CASE s = Console
    BY <2>1, <2>2 DEF Matches, ConsoleMatches, Members, Console
  <2>3. CASE s \in {"all"} \X Files
    BY <2>1, <2>3 DEF Matches, FileMatches, Members, Console
  <2>4. CASE s \in {"alerts"} \X Files
    BY <2>1, <2>4 DEF Matches, FileMatches, Members, Console
  <2> QED
    BY <2>2, <2>3, <2>4 DEF Sinks
<1> QED
  BY <1>1, LoggerInv, PTL

\* Between calls the sinks, the soft settings and a flush interval above 0 are
\* those the last loaded configuration asks for, whatever was loaded before it,
\* but for what a reload that threw did not come to.
THEOREM ReloadEndsWhereInitWould == Spec => []SinksFollowConfig
<1>1. Inv => SinksFollowConfig
  BY DEF Inv, Ready, Built, Fits, Shows, Has, Wanted, Softened, Flushes, Members,
     SinksFollowConfig
<1> QED
  BY <1>1, LoggerInv, PTL

=============================================================================
