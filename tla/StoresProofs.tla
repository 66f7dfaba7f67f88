---------------------------- MODULE StoresProofs ----------------------------
(***************************************************************************)
(* What holds of the directory makers, for any number of them and any      *)
(* depth of the path; of a search, for any tree, links and options; of     *)
(* downloads, for any lists of parts; and of requests, for any servers,    *)
(* queries, headers and answers.  A behaviour is of one component          *)
(* ("subject"); the settings are in SettingsProofs.                        *)
(***************************************************************************)
EXTENDS SettingsProofs, FiniteSetTheorems

-----------------------------------------------------------------------------
(***************************************************************************)
(* The directory makers.  Until something is removed or refused, what is   *)
(* at a component stays there: what a maker has seen of the components     *)
(* before its own is still true when it acts.                              *)
(***************************************************************************)
Walkable == {"dir", "link"}

\* Below what is there, everything can be walked into.
LEMMA AllBelowIsWalkable ==
  ASSUME NEW t, Possible(t), NEW i \in Path, t[i] # Missing
  PROVE  \A j \in 1..i-1 : t[j] \in Walkable
<1> SUFFICES ASSUME NEW j \in 1..i-1, t[j] \notin Walkable PROVE FALSE
  OBVIOUS
<1> DEFINE S == {d \in Nat : d \in 1..i-1 /\ t[i - d] \notin Walkable}
<1>1. i \in Nat /\ j \in Nat /\ Depth \in Nat /\ i <= Depth
  BY DepthAssumption DEF Path
<1>2. i - j \in Nat /\ i - j \in 1..i-1 /\ i - (i - j) = j
  BY <1>1
<1>3. i - j \in S
  BY <1>2
<1>4. PICK d \in S : \A e \in S : d =< e
  BY <1>3, HasLeast
<1>5. d \in Nat /\ d \in 1..i-1 /\ t[i - d] \notin Walkable
  BY <1>4
<1>6. ASSUME NEW k \in 2..Depth, t[k] # Missing PROVE t[k - 1] \in Walkable
  BY <1>6 DEF Possible, Walkable
<1>7. t[i - d + 1] # Missing
  <2>1. CASE d = 1
    BY <1>1, <2>1
  <2>2. CASE d # 1
    <3>1. d - 1 \in Nat /\ d - 1 \in 1..i-1 /\ d - 1 < d /\ i - (d - 1) = i - d + 1
      BY <1>1, <1>5, <2>2
    <3>2. t[i - (d - 1)] \in Walkable
      BY <1>4, <3>1
    <3> QED
      BY <3>1, <3>2 DEF Walkable, Missing
  <2> QED
    BY <2>1, <2>2
<1>8. i - d + 1 \in 2..Depth /\ (i - d + 1) - 1 = i - d
  BY <1>1, <1>5
<1> QED
  BY <1>5, <1>6, <1>7, <1>8

Codes == {"none", "AlreadyExists", "Created", "SymlinkBlocked", "NotDirectory", "NoSuchParent",
          "PermissionDenied"}
MakerType == [opt : Options, pc : {"target", "parent", "part", "make", "recheck", "end"},
              at : Path, created : Seq(Path), code : Codes, success : BOOLEAN]

\* A caller reports in the order of the path, and only what is behind it.
Reports(r) ==
  /\ \A i \in 2..Len(r.created) : r.created[i - 1] < r.created[i]
  /\ r.pc # "end" => \A i \in Range(r.created) : i < r.at

\* Its options decide on its way.
Route(r) ==
  /\ r.pc = "target" => r.at = 1
  /\ r.pc = "part" => r.opt.make_parents
  /\ r.pc = "parent" => ~r.opt.make_parents
  /\ r.pc \in {"make", "recheck"} /\ ~r.opt.make_parents => r.at = Depth

Obstructed(t, r) ==
  \/ \E i \in Path : t[i] = "file"
  \/ ~r.opt.follow_symlinks /\ \E i \in Path : t[i] = "link"
  \/ r.code = "AlreadyExists" /\ ~r.opt.succeed_if_exists
  \/ r.code = "NoSuchParent" /\ ~r.opt.make_parents

\* What it has seen or made is there, and its result is true, of the path t.
Sees(t, r) ==
  /\ r.pc \in {"part", "make", "recheck"} /\ r.at > 1 => t[r.at - 1] # Missing
  /\ r.pc = "recheck" => t[r.at] # Missing
  /\ r.pc = "end" => IF r.success THEN t[Depth] \in Walkable ELSE Obstructed(t, r)
  /\ \A i \in Range(r.created) : t[i] = "dir"

MakersTyped ==
  /\ tree \in [Path -> Kinds \cup {Missing}] /\ Possible(tree)
  /\ maker \in [Makers -> MakerType]
  /\ made \in SUBSET Path /\ disturbed \in BOOLEAN

\* What was made was missing before, so nobody else has made it.
Shared ==
  /\ \A i \in made : tree[i] # Missing
  /\ \A m \in Makers : Created(m) \cap made = {}
  /\ \A m, n \in Makers : m # n => Created(m) \cap Created(n) = {}

MakersInv ==
  /\ MakersTyped
  /\ \A m \in Makers : Reports(maker[m]) /\ Route(maker[m])
  /\ ~disturbed => Shared /\ \A m \in Makers : Sees(tree, maker[m])

\* Entries that are there stay.
Grows(t, u) == \A i \in Path : t[i] # Missing => u[i] = t[i]

\* What a maker has seen stays true while entries are only added.
LEMMA SeenStays ==
  ASSUME NEW t, NEW u, Grows(t, u), NEW r \in MakerType, Sees(t, r)
  PROVE  Sees(u, r)
<1>1. /\ r.at \in Path /\ (r.at > 1 => r.at - 1 \in Path) /\ Depth \in Path
      /\ \A i \in Range(r.created) : i \in Path
  BY DepthAssumption DEF MakerType, Path, Range
<1>2. r.pc \in {"part", "make", "recheck"} /\ r.at > 1 => u[r.at - 1] # Missing
  BY <1>1 DEF Sees, Grows
<1>3. r.pc = "recheck" => u[r.at] # Missing
  BY <1>1 DEF Sees, Grows
<1>4. r.pc = "end" => IF r.success THEN u[Depth] \in Walkable ELSE Obstructed(u, r)
  BY <1>1 DEF Sees, Grows, Obstructed, Walkable, Missing
<1>5. \A i \in Range(r.created) : u[i] = "dir"
  BY <1>1 DEF Sees, Grows, Missing
<1> QED
  BY <1>2, <1>3, <1>4, <1>5 DEF Sees

\* A step of one maker that makes nothing.
LEMMA OneMoves ==
  ASSUME MakersInv, NEW m \in Makers, NEW r \in MakerType,
         maker' = [maker EXCEPT ![m] = r], UNCHANGED <<tree, made>>,
         disturbed' \in BOOLEAN, disturbed => disturbed',
         r.created = maker[m].created, Reports(r), Route(r), ~disturbed' => Sees(tree, r)
  PROVE  MakersInv'
<1>1. /\ maker' \in [Makers -> MakerType] /\ maker'[m] = r
      /\ \A n \in Makers : n # m => maker'[n] = maker[n]
      /\ \A n \in Makers : maker'[n].created = maker[n].created
  BY DEF MakersInv, MakersTyped
<1>2. MakersTyped'
  BY <1>1 DEF MakersInv, MakersTyped, Possible
<1>3. \A n \in Makers : Reports(maker'[n]) /\ Route(maker'[n])
  BY <1>1 DEF MakersInv
<1>4. ~disturbed' => Shared'
  BY <1>1 DEF MakersInv, Shared, Created
<1>5. ~disturbed' => \A n \in Makers : Sees(tree, maker'[n])
  BY <1>1 DEF MakersInv
<1> QED
  BY <1>2, <1>3, <1>4, <1>5 DEF MakersInv

\* A maker ends truthfully.
LEMMA EndingKeeps ==
  ASSUME MakersInv, NEW m \in Makers, NEW code \in Codes, NEW success \in BOOLEAN,
         Ends(m, code, success), UNCHANGED <<tree, made>>,
         disturbed' \in BOOLEAN, disturbed => disturbed',
         ~disturbed' /\ success => tree[Depth] \in Walkable,
         ~disturbed' /\ ~success =>
           \/ \E i \in Path : tree[i] = "file"
           \/ ~maker[m].opt.follow_symlinks /\ \E i \in Path : tree[i] = "link"
           \/ code = "AlreadyExists" /\ ~maker[m].opt.succeed_if_exists
           \/ code = "NoSuchParent" /\ ~maker[m].opt.make_parents
  PROVE  MakersInv'
<1> DEFINE r == [maker[m] EXCEPT !.pc = "end", !.code = code, !.success = success]
<1>1. maker[m] \in MakerType /\ Reports(maker[m])
      /\ (~disturbed => \A i \in Range(maker[m].created) : tree[i] = "dir")
  BY DEF MakersInv, MakersTyped, Sees
<1>2. /\ r \in MakerType /\ r.pc = "end" /\ r.code = code /\ r.success = success
      /\ r.opt = maker[m].opt /\ r.created = maker[m].created
  BY <1>1 DEF MakerType
<1>3. maker' = [maker EXCEPT ![m] = r]
  BY DEF Ends
<1> HIDE DEF r
<1>4. Reports(r) /\ Route(r)
  BY <1>1, <1>2 DEF Reports, Route
<1>5. ~disturbed' => Sees(tree, r)
  BY <1>1, <1>2 DEF Sees, Obstructed
<1> QED
  BY <1>2, <1>3, <1>4, <1>5, OneMoves

\* Ending because the target exists is justified by the target.
LEMMA ExistsKeeps ==
  ASSUME MakersInv, NEW m \in Makers, Exists(m), FS, ~disturbed => tree[Depth] \in Walkable
  PROVE  MakersInv'
<1>1. maker[m].opt.succeed_if_exists \in BOOLEAN /\ disturbed \in BOOLEAN
  BY DEF MakersInv, MakersTyped, MakerType, Options
<1> QED
  BY <1>1, EndingKeeps DEF Exists, FS, Codes

\* A maker goes on to the place pc, at the component at.
LEMMA GoingKeeps ==
  ASSUME MakersInv, NEW m \in Makers, NEW pc \in {"parent", "part", "make", "recheck"},
         NEW at \in Path, FS,
         maker' = [maker EXCEPT ![m] = [@ EXCEPT !.pc = pc, !.at = at]],
         maker[m].pc # "end", maker[m].at <= at,
         pc = "part" => maker[m].opt.make_parents,
         pc = "parent" => ~maker[m].opt.make_parents,
         pc \in {"make", "recheck"} /\ ~maker[m].opt.make_parents => at = Depth,
         ~disturbed /\ pc # "parent" /\ at > 1 => tree[at - 1] # Missing,
         ~disturbed /\ pc = "recheck" => tree[at] # Missing
  PROVE  MakersInv'
<1> DEFINE r == [maker[m] EXCEPT !.pc = pc, !.at = at]
<1>1. /\ maker[m] \in MakerType /\ Reports(maker[m]) /\ disturbed \in BOOLEAN
      /\ ~disturbed => \A i \in Range(maker[m].created) : tree[i] = "dir"
  BY DEF MakersInv, MakersTyped, Sees
<1>2. /\ r \in MakerType /\ r.pc = pc /\ r.at = at
      /\ r.opt = maker[m].opt /\ r.created = maker[m].created
  BY <1>1 DEF MakerType
<1>3. maker' = [maker EXCEPT ![m] = r]
  OBVIOUS
<1> HIDE DEF r
<1>4. /\ at \in Nat /\ maker[m].at \in Nat
      /\ \A i \in Range(maker[m].created) : i \in Nat /\ i < maker[m].at
  BY <1>1, DepthAssumption DEF Reports, Path, MakerType, Range
<1>5. Reports(r) /\ Route(r)
  BY <1>1, <1>2, <1>4 DEF Reports, Route
<1>6. ~disturbed => Sees(tree, r)
  BY <1>1, <1>2 DEF Sees
<1> QED
  BY <1>1, <1>2, <1>3, <1>5, <1>6, OneMoves DEF FS

\* What status() answers is true of the path.
LEMMA StatusTells ==
  ASSUME MakersInv, NEW m \in Makers, NEW i \in Path
  PROVE  /\ Status(m, i) = "dir" => tree[i] \in Walkable
         /\ Status(m, i) = "file" => tree[i] = "file"
         /\ Status(m, i) = "link" => tree[i] = "link" /\ ~maker[m].opt.follow_symlinks
         /\ Status(m, i) = "not_a_directory" => i - 1 \in Path /\ tree[i - 1] = "file"
         /\ Status(m, i) \in {"dir", "file", "link", "not_a_directory", Missing}
<1>1. /\ tree[i] \in {"dir", "file", "link", Missing} /\ (i > 1 => i - 1 \in Path)
      /\ maker[m].opt.follow_symlinks \in BOOLEAN
  BY DepthAssumption DEF MakersInv, MakersTyped, Kinds, Path, MakerType, Options
<1> QED
  BY <1>1 DEF Status, Walkable, Missing

\* What stands where a directory is wanted, at the component i, is the reason.
LEMMA ObstacleKeeps ==
  ASSUME MakersInv, NEW m \in Makers, NEW i \in Path, FS,
         \/ Status(m, i) \in {"file", "link"} /\ Obstacle(m, Status(m, i))
         \/ Status(m, i) = "not_a_directory" /\ Ends(m, MapErrc(Status(m, i)), FALSE)
  PROVE  MakersInv'
<1>1. \E code \in Codes : Ends(m, code, FALSE)
  BY DEF Obstacle, MapErrc, Codes
<1>2. \/ \E j \in Path : tree[j] = "file"
      \/ ~maker[m].opt.follow_symlinks /\ \E j \in Path : tree[j] = "link"
  BY StatusTells
<1>3. disturbed \in BOOLEAN
  BY DEF MakersInv, MakersTyped
<1> QED
  BY <1>1, <1>2, <1>3, EndingKeeps DEF FS

\* A component that can be walked into is behind the maker.
LEMMA NextPartKeeps ==
  ASSUME MakersInv, NEW m \in Makers, NextPart(m), FS, maker[m].pc \in {"part", "recheck"},
         maker[m].opt.make_parents, ~disturbed => tree[maker[m].at] \in Walkable
  PROVE  MakersInv'
<1>1. /\ maker[m].at \in Path /\ Depth \in Nat /\ disturbed \in BOOLEAN
  BY DepthAssumption DEF MakersInv, MakersTyped, MakerType
<1>2. CASE maker[m].at = Depth
  <2>1. CASE Exists(m)
    BY <1>2, <2>1, ExistsKeeps
  <2>2. CASE Ends(m, "Created", TRUE)
    BY <1>1, <1>2, <2>2, EndingKeeps DEF Codes, FS
  <2> QED
    BY <1>2, <2>1, <2>2 DEF NextPart, EndsLoop
<1>3. CASE maker[m].at # Depth
  <2>1. /\ maker[m].at + 1 \in Path /\ maker[m].at <= maker[m].at + 1
        /\ (maker[m].at + 1) - 1 = maker[m].at
    BY <1>1, <1>3 DEF Path
  <2>2. maker' = [maker EXCEPT ![m] = [@ EXCEPT !.pc = "part", !.at = maker[m].at + 1]]
    BY <1>3 DEF NextPart, MakersInv, MakersTyped
  <2> QED
    BY <2>1, <2>2, GoingKeeps DEF Walkable, Missing
<1> QED
  BY <1>2, <1>3

\* A maker goes on to the place pc, at the same component.
LEMMA StayingKeeps ==
  ASSUME MakersInv, NEW m \in Makers, NEW pc \in {"parent", "part", "make", "recheck"},
         FS, Goes(m, pc), maker[m].pc # "end",
         pc = "part" => maker[m].opt.make_parents,
         pc = "parent" => ~maker[m].opt.make_parents,
         pc \in {"make", "recheck"} /\ ~maker[m].opt.make_parents => maker[m].at = Depth,
         ~disturbed /\ pc # "parent" /\ maker[m].at > 1 => tree[maker[m].at - 1] # Missing,
         ~disturbed /\ pc = "recheck" => tree[maker[m].at] # Missing
  PROVE  MakersInv'
<1>1. maker \in [Makers -> MakerType] /\ maker[m] \in MakerType /\ maker[m].at \in Path
  BY DEF MakersInv, MakersTyped, MakerType
<1>2. [maker[m] EXCEPT !.pc = pc] = [maker[m] EXCEPT !.pc = pc, !.at = maker[m].at]
  BY <1>1 DEF MakerType
<1>3. maker' = [maker EXCEPT ![m] = [maker[m] EXCEPT !.pc = pc]]
  BY DEF Goes
<1>4. maker' = [maker EXCEPT ![m] = [@ EXCEPT !.pc = pc, !.at = maker[m].at]]
  BY <1>2, <1>3
<1>5. maker[m].at <= maker[m].at
  BY <1>1, DepthAssumption DEF Path
<1> QED
  BY <1>1, <1>4, <1>5, GoingKeeps

\* Checking the target, the parent or a part keeps the invariant.
LEMMA ChecksKeep ==
  ASSUME MakersInv, NEW m \in Makers, CheckTarget(m) \/ CheckParent(m) \/ CheckPart(m)
  PROVE  MakersInv'
<1>1. /\ MakersTyped /\ maker[m].at \in Path /\ Depth \in Path /\ 1 \in Path
      /\ maker[m].at <= Depth /\ disturbed \in BOOLEAN
      /\ maker[m].opt.make_parents \in BOOLEAN
  BY DepthAssumption DEF MakersInv, MakersTyped, MakerType, Options, Path
<1>2. CASE CheckTarget(m)
  <2>1. CASE Status(m, Depth) = "dir" /\ Exists(m)
    BY <1>1, <1>2, <2>1, ExistsKeeps, StatusTells DEF CheckTarget
  <2>2. CASE \/ Status(m, Depth) \in {"file", "link"} /\ Obstacle(m, Status(m, Depth))
             \/ Status(m, Depth) = "not_a_directory" /\ Ends(m, MapErrc(Status(m, Depth)), FALSE)
    BY <1>1, <1>2, <2>2, ObstacleKeeps DEF CheckTarget
  <2>3. CASE Goes(m, IF maker[m].opt.make_parents THEN "part" ELSE "parent")
    <3>1. FS /\ maker[m].pc = "target"
      BY <1>2 DEF CheckTarget
    <3>2. maker[m].pc = "target" => maker[m].at = 1
      BY DEF MakersInv, Route
    <3>3. CASE maker[m].opt.make_parents
      <4>1. Goes(m, "part")
        BY <2>3, <3>3
      <4>2. ~disturbed /\ maker[m].at > 1 => tree[maker[m].at - 1] # Missing
        BY <3>1, <3>2
      <4> QED
        BY <3>1, <3>3, <4>1, <4>2, StayingKeeps
    <3>4. CASE ~maker[m].opt.make_parents
      <4>1. Goes(m, "parent")
        BY <2>3, <3>4
      <4> QED
        BY <3>1, <3>4, <4>1, StayingKeeps
    <3> QED
      BY <1>1, <3>3, <3>4
  <2> QED
    BY <1>2, <2>1, <2>2, <2>3 DEF CheckTarget
<1>3. CASE CheckParent(m)
  <2>1. ~maker[m].opt.make_parents /\ maker[m].pc = "parent" /\ FS
    BY <1>3 DEF CheckParent, MakersInv, Route
  <2>2. CASE Ends(m, "NoSuchParent", FALSE)
    BY <1>1, <2>1, <2>2, EndingKeeps DEF Codes, FS
  <2>3. CASE /\ ~(Depth > 1 /\ tree[Depth - 1] = Missing)
             /\ maker' = [maker EXCEPT ![m].pc = "make", ![m].at = Depth]
    <3>1. maker' = [maker EXCEPT ![m] = [@ EXCEPT !.pc = "make", !.at = Depth]]
      BY <2>3 DEF MakersInv, MakersTyped
    <3> QED
      BY <1>1, <2>1, <2>3, <3>1, GoingKeeps
  <2> QED
    BY <1>3, <2>2, <2>3 DEF CheckParent
<1>4. CASE CheckPart(m)
  <2>1. maker[m].opt.make_parents /\ maker[m].pc = "part" /\ FS
    BY <1>4 DEF CheckPart, MakersInv, Route
  <2>2. CASE Status(m, maker[m].at) = "dir" /\ NextPart(m)
    BY <1>1, <2>1, <2>2, NextPartKeeps, StatusTells
  <2>3. CASE \/ Status(m, maker[m].at) \in {"file", "link"} /\ Obstacle(m, Status(m, maker[m].at))
             \/ /\ Status(m, maker[m].at) = "not_a_directory"
                /\ Ends(m, MapErrc(Status(m, maker[m].at)), FALSE)
    BY <1>1, <2>1, <2>3, ObstacleKeeps
  <2>4. CASE Goes(m, "make")
    <3>1. ~disturbed /\ maker[m].at > 1 => tree[maker[m].at - 1] # Missing
      BY <2>1 DEF MakersInv, Sees
    <3> QED
      BY <2>1, <2>4, <3>1, StayingKeeps
  <2> QED
    BY <1>4, <2>2, <2>3, <2>4 DEF CheckPart
<1> QED
  BY <1>2, <1>3, <1>4

\* So does looking again after mkdir found the entry there,
LEMMA RecheckKeeps == ASSUME MakersInv, NEW m \in Makers, Recheck(m) PROVE MakersInv'
<1>1. /\ maker[m].at \in Path /\ disturbed \in BOOLEAN /\ maker[m].opt.make_parents \in BOOLEAN
      /\ maker[m].pc = "recheck" /\ FS
      /\ ~maker[m].opt.make_parents => maker[m].at = Depth
      /\ ~disturbed => tree[maker[m].at] # Missing
  BY DEF Recheck, MakersInv, MakersTyped, MakerType, Options, Route, Sees
<1>2. Status(m, maker[m].at) = "dir" => tree[maker[m].at] \in Walkable
  BY <1>1, StatusTells
<1>3. CASE Status(m, maker[m].at) # "dir" /\ Ends(m, "NotDirectory", FALSE)
  <2>1. CASE maker[m].at > 1 /\ tree[maker[m].at] # Missing
    <3> DEFINE at == maker[m].at
    <3>1. tree[at - 1] \in Walkable
      <4>1. at - 1 \in 1..at-1
        BY <1>1, <2>1, DepthAssumption DEF Path
      <4>2. Possible(tree) /\ at \in Path /\ tree[at] # Missing
        BY <1>1, <2>1 DEF MakersInv, MakersTyped
      <4> HIDE DEF at
      <4> QED
        BY <4>1, <4>2, AllBelowIsWalkable
    <3>2. Status(m, maker[m].at) # Missing
      BY <1>1, <2>1, <3>1 DEF Status, Walkable, Missing
    <3> QED
      BY <1>1, <1>3, <3>2, StatusTells, EndingKeeps DEF FS, Codes
  <2>2. CASE maker[m].at = 1 /\ tree[maker[m].at] # Missing
    <3>1. Status(m, maker[m].at) # Missing
      BY <2>2 DEF Status, Missing
    <3> QED
      BY <1>1, <1>3, <3>1, StatusTells, EndingKeeps DEF FS, Codes
  <2>3. CASE disturbed
    BY <1>1, <1>3, <2>3, EndingKeeps DEF FS, Codes
  <2> QED
    BY <1>1, <2>1, <2>2, <2>3, DepthAssumption DEF Path
<1>4. CASE Status(m, maker[m].at) = "dir" /\ maker[m].opt.make_parents /\ NextPart(m)
  BY <1>1, <1>2, <1>4, NextPartKeeps
<1>5. CASE Status(m, maker[m].at) = "dir" /\ ~maker[m].opt.make_parents /\ Exists(m)
  BY <1>1, <1>2, <1>5, ExistsKeeps
<1> QED
  BY <1>3, <1>4, <1>5 DEF Recheck

\* Appending adds an element to those of a sequence.
LEMMA RangeOfAppend ==
  ASSUME NEW S, NEW s \in Seq(S), NEW x \in S
  PROVE  Append(s, x) \in Seq(S) /\ Range(Append(s, x)) = Range(s) \cup {x}
<1>1. /\ Append(s, x) \in Seq(S) /\ Len(Append(s, x)) = Len(s) + 1 /\ Len(s) \in Nat
      /\ \A i \in 1..Len(s) : Append(s, x)[i] = s[i]
      /\ Append(s, x)[Len(s) + 1] = x
  OBVIOUS
<1>2. DOMAIN s = 1..Len(s) /\ DOMAIN Append(s, x) = 1..Len(Append(s, x))
  BY <1>1
<1> QED
  BY <1>1, <1>2 DEF Range

\* The one step that makes a component.
LEMMA MakingKeeps ==
  ASSUME MakersInv, NEW m \in Makers, NEW r \in MakerType, NEW i \in Path,
         maker[m].pc = "make", i = maker[m].at, tree[i] = Missing,
         i > 1 => tree[i - 1] \in Walkable,
         tree' = [tree EXCEPT ![i] = "dir"], maker' = [maker EXCEPT ![m] = r],
         UNCHANGED <<made, disturbed>>,
         r.created = Append(maker[m].created, i), r.opt = maker[m].opt,
         \/ i = Depth /\ r.pc = "end" /\ r.success
         \/ i # Depth /\ r.pc = "part" /\ r.at = i + 1
  PROVE  MakersInv'
<1> DEFINE old == maker[m]
<1>1. /\ old \in MakerType /\ Reports(old) /\ Route(old) /\ Depth \in Nat /\ i \in Nat
      /\ old.created \in Seq(Path)
      /\ (~disturbed => \A j \in Range(old.created) : tree[j] = "dir")
  BY DepthAssumption DEF MakersInv, MakersTyped, MakerType, Sees, Path
<1>2. Range(r.created) = Range(old.created) \cup {i}
  BY <1>1, RangeOfAppend
<1>3. /\ tree' \in [Path -> Kinds \cup {Missing}] /\ tree'[i] = "dir"
      /\ \A j \in Path : j # i => tree'[j] = tree[j]
      /\ Grows(tree, tree')
  BY DEF MakersInv, MakersTyped, Kinds, Grows
<1>4. /\ maker' \in [Makers -> MakerType] /\ maker'[m] = r
      /\ \A n \in Makers : n # m => maker'[n] = maker[n]
  BY DEF MakersInv, MakersTyped
<1>5. Possible(tree)'
  <2>1. ASSUME NEW k \in 2..Depth, tree'[k] # Missing PROVE tree'[k - 1] \in Walkable
    <3>1. k \in Path /\ k - 1 \in Path /\ (tree[k] # Missing => tree[k - 1] \in Walkable)
      BY <1>1 DEF MakersInv, MakersTyped, Possible, Path, Walkable
    <3>2. CASE k = i
      BY <1>3, <2>1, <3>1, <3>2 DEF Walkable
    <3>3. CASE k # i
      BY <1>3, <2>1, <3>1, <3>3 DEF Walkable, Missing
    <3> QED
      BY <3>2, <3>3
  <2> QED
    BY <2>1 DEF Possible, Walkable
<1>6. Reports(r)
  <2>1. /\ Len(r.created) = Len(old.created) + 1 /\ Len(old.created) \in Nat
        /\ \A k \in 1..Len(old.created) : r.created[k] = old.created[k]
        /\ r.created[Len(old.created) + 1] = i
    BY <1>1
  <2>2. \A k \in Range(old.created) : k \in Nat /\ k < i
    <3>1. \A k \in Range(old.created) : k < i
      BY DEF MakersInv, Reports
    <3>2. Range(old.created) \subseteq Path
      BY <1>1 DEF Range
    <3> QED
      BY <1>1, <3>1, <3>2 DEF Path
  <2>3. ASSUME NEW k \in 2..Len(r.created) PROVE r.created[k - 1] < r.created[k]
    <3>1. CASE k = Len(old.created) + 1
      <4>1. k - 1 \in DOMAIN old.created /\ k - 1 \in 1..Len(old.created)
        BY <1>1, <2>1, <3>1
      <4>2. old.created[k - 1] \in Range(old.created)
        BY <4>1 DEF Range
      <4>3. r.created[k - 1] = old.created[k - 1] /\ r.created[k] = i
        BY <2>1, <3>1, <4>1
      <4> QED
        BY <2>2, <4>2, <4>3
    <3>2. CASE k \in 2..Len(old.created)
      BY <1>1, <2>1, <3>2 DEF Reports
    <3> QED
      BY <2>1, <3>1, <3>2
  <2>4. r.pc # "end" => \A k \in Range(r.created) : k < r.at
    <3>1. r.pc # "end" => r.at = i + 1
      OBVIOUS
    <3> QED
      BY <1>1, <1>2, <2>2, <3>1
  <2> QED
    BY <2>3, <2>4 DEF Reports
<1>7. Route(r)
  BY <1>1 DEF Route
<1>8. ~disturbed => Sees(tree', r)
  BY <1>1, <1>2, <1>3 DEF Sees, Walkable, Missing
<1>9. ~disturbed => \A n \in Makers : Sees(tree', maker'[n])
  BY <1>3, <1>4, <1>8, SeenStays DEF MakersInv, MakersTyped
<1>10. ~disturbed => Shared'
  <2> SUFFICES ASSUME ~disturbed PROVE Shared'
    OBVIOUS
  <2>1. Shared /\ i \notin made /\ made' = made /\ made \subseteq Path
    BY DEF MakersInv, MakersTyped, Shared
  <2>2. \A n \in Makers : i \notin Created(n)
    BY DEF MakersInv, Sees, Created, Missing
  <2>3. Created(m)' = Created(m) \cup {i} /\ \A n \in Makers : n # m => Created(n)' = Created(n)
    BY <1>2, <1>4 DEF Created
  <2> QED
    BY <1>3, <2>1, <2>2, <2>3 DEF Shared, Grows
<1> QED
  BY <1>3, <1>4, <1>5, <1>6, <1>7, <1>9, <1>10 DEF MakersInv, MakersTyped

\* mkdir, which makes what was missing or fails,
LEMMA MakeKeeps == ASSUME MakersInv, NEW m \in Makers, Make(m) PROVE MakersInv'
<1> DEFINE i == maker[m].at
           e == MkdirError(i)
<1>1. /\ maker[m] \in MakerType /\ i \in Path /\ Depth \in Nat /\ disturbed \in BOOLEAN
      /\ maker[m].opt.make_parents \in BOOLEAN /\ maker[m].created \in Seq(Path)
      /\ tree[i] \in {"dir", "file", "link", Missing}
      /\ i > 1 => i - 1 \in Path /\ tree[i - 1] \in {"dir", "file", "link", Missing}
      /\ maker[m].pc = "make" /\ UNCHANGED <<made, disturbed>>
  BY DepthAssumption DEF Make, MakersInv, MakersTyped, MakerType, Options, Kinds, Path
<1>2. /\ ~disturbed /\ i > 1 => tree[i - 1] # Missing
      /\ ~maker[m].opt.make_parents => i = Depth
  BY <1>1 DEF MakersInv, Sees, Route
<1>3. /\ e = "none" => tree[i] = Missing /\ (i > 1 => tree[i - 1] \in Walkable)
      /\ e = "no_such_file" => i > 1 /\ tree[i - 1] = Missing
      /\ e = "not_a_directory" => i > 1 /\ tree[i - 1] = "file"
      /\ e \in {"file_exists", "made_by_other"} => tree[i] # Missing
  BY <1>1 DEF MkdirError, Walkable, Missing
<1>4. CASE e = "none" /\ tree' = [tree EXCEPT ![i] = "dir"]
  <2> DEFINE done == [maker[m] EXCEPT !.created = Append(@, i)]
             r == IF i = Depth THEN [done EXCEPT !.pc = "end", !.code = "Created", !.success = TRUE]
                               ELSE [done EXCEPT !.pc = "part", !.at = @ + 1]
  <2>1. maker' = [maker EXCEPT ![m] = r]
    BY <1>1, <1>4 DEF Make
  <2>2. Append(maker[m].created, i) \in Seq(Path)
    BY <1>1, RangeOfAppend
  <2>3. done \in MakerType
    BY <1>1, <2>2 DEF MakerType
  <2>4. i # Depth => i + 1 \in Path
    BY <1>1 DEF Path
  <2>5. /\ r \in MakerType /\ r.created = Append(maker[m].created, i) /\ r.opt = maker[m].opt
        /\ i = Depth => r.pc = "end" /\ r.success
        /\ i # Depth => r.pc = "part" /\ r.at = i + 1
    BY <1>1, <2>2, <2>3, <2>4 DEF MakerType, Codes
  <2>6. i # Depth => r.opt.make_parents
    BY <1>2, <2>5
  <2> HIDE DEF r, i
  <2> QED
    BY <1>1, <1>3, <1>4, <2>1, <2>5, <2>6, MakingKeeps DEF i
<1>5. CASE e \in {"file_exists", "made_by_other"} /\ Goes(m, "recheck") /\ UNCHANGED tree
  <2>1. FS /\ maker[m].pc # "end"
    BY <1>1, <1>5 DEF FS
  <2>2. Goes(m, "recheck") /\ tree[i] # Missing
    BY <1>3, <1>5
  <2> QED
    BY <1>2, <2>1, <2>2, StayingKeeps
<1>6. CASE e \in {"no_such_file", "not_a_directory"} /\ Ends(m, MapErrc(e), FALSE) /\ UNCHANGED tree
  <2>1. MapErrc(e) \in Codes
    BY <1>6 DEF MapErrc, Codes
  <2>2. ~disturbed => \E j \in Path : tree[j] = "file"
    BY <1>1, <1>2, <1>3, <1>6
  <2> QED
    BY <1>1, <1>6, <2>1, <2>2, EndingKeeps
<1> QED
  BY <1>4, <1>5, <1>6 DEF Make

\* a refusal by the system, which ends the call,
LEMMA RefusalKeeps == ASSUME MakersInv, NEW m \in Makers, SystemRefuses(m) PROVE MakersInv'
BY EndingKeeps DEF SystemRefuses, Codes

\* and whatever another process makes or removes.
LEMMA OthersKeep == ASSUME MakersInv, OtherMakes \/ OtherRemoves PROVE MakersInv'
<1>1. CASE OtherMakes
  <2>1. PICK i \in Path, kind \in Kinds :
          /\ tree[i] = Missing /\ Possible([tree EXCEPT ![i] = kind])
          /\ tree' = [tree EXCEPT ![i] = kind] /\ made' = made \cup {i}
    BY <1>1 DEF OtherMakes
  <2>2. UNCHANGED <<maker, disturbed>>
    BY <1>1 DEF OtherMakes
  <2>3. /\ tree' \in [Path -> Kinds \cup {Missing}] /\ Possible(tree')
        /\ Grows(tree, tree') /\ tree'[i] # Missing
    BY <2>1 DEF MakersInv, MakersTyped, Grows, Kinds, Missing
  <2>4. ~disturbed => \A m \in Makers : i \notin Created(m)
    BY <2>1 DEF MakersInv, Sees, Created, Missing
  <2>5. ~disturbed => Shared'
    BY <2>1, <2>2, <2>3, <2>4 DEF MakersInv, MakersTyped, Shared, Created, Grows
  <2>6. ~disturbed => \A m \in Makers : Sees(tree', maker[m])
    BY <2>3, SeenStays DEF MakersInv, MakersTyped
  <2>7. MakersTyped'
    BY <2>1, <2>2, <2>3 DEF MakersInv, MakersTyped, Possible
  <2> QED
    BY <2>2, <2>5, <2>6, <2>7 DEF MakersInv
<1>2. CASE OtherRemoves
  <2>1. UNCHANGED <<maker, made>> /\ disturbed'
    BY <1>2 DEF OtherRemoves
  <2>2. tree' \in [Path -> Kinds \cup {Missing}] /\ Possible(tree')
    BY <1>2 DEF OtherRemoves, MakersInv, MakersTyped
  <2>3. disturbed' = TRUE
    BY <1>2 DEF OtherRemoves
  <2> QED
    BY <2>1, <2>2, <2>3 DEF MakersInv, MakersTyped, Possible
<1> QED
  BY <1>1, <1>2

\* Nothing is seen or made when the calls begin.
LEMMA MakersStart == InitMakers => MakersInv
<1> SUFFICES ASSUME InitMakers PROVE MakersInv
  OBVIOUS
<1>1. /\ tree \in [Path -> Kinds \cup {Missing}] /\ Possible(tree) /\ made = {} /\ disturbed = FALSE
  BY DEF InitMakers
<1>2. /\ maker \in [Makers -> MakerType]
      /\ \A m \in Makers : maker[m].pc = "target" /\ maker[m].at = 1 /\ maker[m].created = <<>>
  <2>1. 1 \in Path /\ <<>> \in Seq(Path)
    BY DepthAssumption DEF Path
  <2>2. \A o \in Options : [opt |-> o, pc |-> "target", at |-> 1, created |-> <<>>, code |-> "none",
                            success |-> FALSE] \in MakerType
    BY <2>1 DEF MakerType, Codes
  <2> QED
    BY <2>2 DEF InitMakers
<1>3. Len(<<>>) = 0 /\ Range(<<>>) = {}
  BY DEF Range
<1>4. \A m \in Makers : Reports(maker[m]) /\ Route(maker[m]) /\ Sees(tree, maker[m])
  BY <1>2, <1>3 DEF Reports, Route, Sees
<1>5. Shared
  BY <1>1, <1>2, <1>3 DEF Shared, Created
<1> QED
  BY <1>1, <1>2, <1>4, <1>5 DEF MakersInv, MakersTyped

\* Every step of the makers and of the system keeps the invariant.
LEMMA MakersKeep == MakersInv /\ [NextMakers]_treeVars => MakersInv'
<1> SUFFICES ASSUME MakersInv, [NextMakers]_treeVars PROVE MakersInv'
  OBVIOUS
<1>1. CASE UNCHANGED treeVars
  <2>1. MakersTyped' /\ (Shared => Shared')
    BY <1>1 DEF MakersInv, MakersTyped, Possible, Shared, Created, treeVars
  <2> QED
    BY <1>1, <2>1 DEF MakersInv, treeVars
<1>2. CASE \E m \in Makers : \/ CheckTarget(m) \/ CheckParent(m) \/ CheckPart(m)
                             \/ Make(m) \/ Recheck(m) \/ SystemRefuses(m)
  BY <1>2, ChecksKeep, MakeKeeps, RecheckKeeps, RefusalKeeps
<1>3. CASE OtherMakes \/ OtherRemoves
  BY <1>3, OthersKeep
<1> QED
  BY <1>1, <1>2, <1>3 DEF NextMakers

\* The invariant gives what the makers promise together.
LEMMA MakersShare == MakersInv => MakersShareThePath
<1> SUFFICES ASSUME MakersInv PROVE MakersShareThePath
  OBVIOUS
<1>1. \A m, n \in Makers : m # n /\ ~disturbed => Created(m) \cap Created(n) = {}
  BY DEF MakersInv, Shared
<1>2. \A m \in Makers : \A i \in 2..Len(maker[m].created) : maker[m].created[i - 1] < maker[m].created[i]
  BY DEF MakersInv, Reports
<1>3. ~disturbed => \A m \in Makers : Created(m) \cap made = {} /\ \A i \in Created(m) : tree[i] = "dir"
  BY DEF MakersInv, Shared, Sees, Created
<1>4. tree[Depth] \in Walkable => \A i \in Path : tree[i] \in Walkable
  <2> SUFFICES ASSUME tree[Depth] \in Walkable, NEW i \in Path PROVE tree[i] \in Walkable
    OBVIOUS
  <2>1. Depth \in Path /\ (i # Depth => i \in 1..Depth-1)
    BY DepthAssumption DEF Path
  <2>2. tree[Depth] # Missing
    BY DEF Walkable, Missing
  <2> QED
    BY <2>1, <2>2, AllBelowIsWalkable DEF MakersInv, MakersTyped
<1>5. ASSUME NEW m \in Makers, Ended(m), ~disturbed
      PROVE  IF maker[m].success THEN tree[Depth] \in Walkable ELSE Obstructed(tree, maker[m])
  BY <1>5 DEF MakersInv, Sees, Ended
<1> QED
  BY <1>1, <1>2, <1>3, <1>4, <1>5 DEF MakersShareThePath, Walkable, Obstructed

DirectoryInv == subject = "directory" => MakersInv

\* Makers of the same path, among other programs that make and remove entries,
\* share the work, in any number and for a path of any depth: each directory is
\* reported by the one that made it, and, unless an entry was removed or the
\* system refused a call, success means the path is there and failure that it
\* is obstructed (create_directory_tree).
THEOREM PathIsShared == Spec => []SharedPathIsMade
<1>1. Init => DirectoryInv
  BY MakersStart DEF Init, DirectoryInv
<1>2. DirectoryInv /\ [Next]_vars => DirectoryInv'
  <2> SUFFICES ASSUME DirectoryInv, [Next]_vars, subject' = "directory" PROVE MakersInv'
    BY DEF DirectoryInv
  <2>1. subject = "directory" /\ [NextMakers]_treeVars
    BY DEF Next, vars, filesVars, DirectoryStep
  <2> QED
    BY <2>1, MakersKeep DEF DirectoryInv
<1>3. DirectoryInv => SharedPathIsMade
  BY MakersShare DEF DirectoryInv, SharedPathIsMade
<1> QED
  BY <1>1, <1>2, <1>3, PTL DEF Spec

-----------------------------------------------------------------------------
(***************************************************************************)
(* The file finder.  The calls of scan_dir_children on the stack are a way *)
(* from the root, each of a directory of its own: what is still to be      *)
(* listed was not found yet, and what was listed is found and entered.     *)
(***************************************************************************)
Nodes == DOMAIN fs.kind
Dirs == {d \in Nodes : fs.kind[d] = "dir"}
Exact == MaxDepth < 0 \/ ~opt.follow_symlinks
Reached == opt.limit_results > 0 /\ Len(out) >= opt.limit_results

\* A call at depth n.  Without links there is one way to a directory.
FrameFits(f, n, vis) ==
  /\ f = [dir |-> f.dir, depth |-> n, left |-> f.left]
  /\ f.dir \in vis /\ n \in 0..Most /\ f.dir \in Within[n] /\ f.left \subseteq fs.children[f.dir]
  /\ f.left # {} => MaxDepth < 0 \/ n < MaxDepth
  /\ ~opt.follow_symlinks => \A m \in 0..Most : f.dir \in Within[m] => n <= m

FramesFit(fr, vis) ==
  /\ Sequence(fr) /\ vis \in SUBSET Dirs /\ Root \in vis /\ Len(fr) <= Cardinality(vis)
  /\ \A i \in 1..Len(fr) : FrameFits(fr[i], i - 1, vis)
  /\ \A i, j \in 1..Len(fr) : fr[i].dir = fr[j].dir => i = j

\* Results are wanted, and found once.
FoundFit(o, vis) ==
  /\ Sequence(o) /\ \A i, j \in 1..Len(o) : o[i] = o[j] => i = j
  /\ Range(o) \subseteq WantedEntries
  /\ \A e \in Range(o) : e = <<Root, Root>> \/ e[1] \in vis
  /\ opt.include_dirs /\ Root \in opt.matching => <<Root, Root>> \in Range(o)

\* What is still to be listed was not found yet,
NotYet(fr, o) == \A i \in 1..Len(fr) : \A node \in fr[i].left : <<fr[i].dir, node>> \notin Range(o)

\* and all that was listed has been taken and entered.
Treated(d, node, vis, o) ==
  \/ Skips(node)
  \/ (TakesEntry(node) => <<d, node>> \in Range(o)) /\ (Enters(node) => Real(node) \in vis)
AllTreated(fr, vis, o) ==
  Exact => \A d \in vis \cap Searched : \A node \in fs.children[d] :
             (\E i \in 1..Len(fr) : fr[i].dir = d /\ node \in fr[i].left) \/ Treated(d, node, vis, o)

\* What is promised of the results when the search has ended.
Complete(o) ==
  /\ opt.limit_results > 0 => Len(o) <= opt.limit_results
  /\ ~failed /\ Exact =>
       IF opt.limit_results > 0 /\ Cardinality(WantedEntries) > opt.limit_results
       THEN Len(o) = opt.limit_results ELSE Range(o) = WantedEntries

FinderInv ==
  /\ fs \in Trees /\ opt \in FinderOptions
  /\ finderPc \in {"walk", "sort", "end", "terminated"} /\ failed \in BOOLEAN
  /\ finderPc # "end" => FramesFit(frames, visited) /\ FoundFit(out, visited)
  /\ finderPc = "walk" => NotYet(frames, out) /\ (~failed => AllTreated(frames, visited, out))
  /\ finderPc = "sort" =>
       failed \/ Reached \/ (frames = <<>> /\ AllTreated(frames, visited, out))
  /\ finderPc = "end" =>
       /\ \A i, j \in DOMAIN out : out[i] = out[j] => i = j
       /\ Range(out) \subseteq WantedEntries /\ Complete(out)
-----------------------------------------------------------------------------
\* What a file system is, and where an entry leads.
LEMMA TreeIs ==
  ASSUME fs \in Trees
  PROVE  /\ IsFiniteSet(Nodes) /\ Most \in Nat /\ Root \in Dirs
         /\ \A n \in Nodes : fs.children[n] \subseteq Nodes \ {Root}
         /\ \A m, n \in Nodes : m # n => fs.children[m] \cap fs.children[n] = {}
         /\ \A n \in Nodes : IsDir(n) => Real(n) \in Dirs
         /\ \A n \in Nodes : Enters(n) /\ ~opt.follow_symlinks => Real(n) = n
<1>1. /\ IsFiniteSet(Nodes) /\ Root \in Nodes /\ fs.kind[Root] = "dir"
      /\ \A n \in Nodes :
          /\ fs.children[n] \subseteq Nodes \ {Root}
          /\ fs.kind[n] = "link" => fs.target[n] \in Nodes /\ fs.kind[fs.target[n]] # "link"
          /\ \A m \in Nodes : m # n => fs.children[m] \cap fs.children[n] = {}
  BY TreesAssumption DEF Nodes
<1>2. Most \in Nat
  BY <1>1, FS_CardinalityType DEF Most, Nodes
<1>3. \A n \in Nodes : IsDir(n) => Real(n) \in Dirs
  BY <1>1 DEF IsDir, Real, Dirs
<1>4. \A n \in Nodes : Enters(n) /\ ~opt.follow_symlinks => Real(n) = n
  BY DEF Enters, IsLink, Real
<1> QED
  BY <1>1, <1>2, <1>3, <1>4 DEF Dirs

\* The directories within n steps are the function of its recursive definition.
LEMMA WithinIs ==
  ASSUME fs \in Trees
  PROVE  /\ Within[0] = {Root}
         /\ \A n \in 1..Most : Within[n] = Within[n - 1] \cup Below(Within[n - 1])
<1> DEFINE start == {Root}
           Up(dirs) == dirs \cup Below(dirs)
           Is(f, n) == f = [i \in 0..n |-> IF i = 0 THEN start ELSE Up(f[i - 1])]
<1> HIDE DEF start, Up
<1>1. ASSUME NEW n \in Nat, NEW f, Is(f, n)
      PROVE  \E g : Is(g, n + 1)
  <2> DEFINE g == [i \in 0..n+1 |-> IF i = n + 1 THEN Up(f[n]) ELSE f[i]]
  <2>0. DOMAIN g = 0..n+1 /\ g = [i \in 0..n+1 |-> g[i]]
    OBVIOUS
  <2>1. ASSUME NEW i \in 0..n+1
        PROVE  g[i] = IF i = 0 THEN start ELSE Up(g[i - 1])
    <3>1. CASE i = n + 1
      BY <3>1
    <3>2. CASE i \in 0..n
      BY <1>1, <3>2
    <3> QED
      BY <3>1, <3>2
  <2> HIDE DEF g
  <2>2. Is(g, n + 1)
    BY <2>0, <2>1
  <2> QED
    BY <2>2
<1>2. \E f : Is(f, 0)
  <2>1. Is([i \in 0..0 |-> start], 0)
    OBVIOUS
  <2> QED
    BY <2>1
<1>3. \A n \in Nat : \E f : Is(f, n)
  <2> DEFINE S == {n \in Nat : ~ \E f : Is(f, n)}
  <2> HIDE DEF Is
  <2> SUFFICES ASSUME S # {} PROVE FALSE
    OBVIOUS
  <2>1. PICK n \in S : \A m \in S : n =< m
    BY HasLeast
  <2>2. n # 0
    BY <1>2
  <2>3. n - 1 \in Nat /\ n - 1 \notin S
    BY <2>1, <2>2
  <2>4. PICK f : Is(f, n - 1)
    BY <2>3
  <2>5. \E g : Is(g, (n - 1) + 1)
    BY <1>1, <2>3, <2>4
  <2> QED
    BY <2>5, <2>1
<1>4. Within = CHOOSE f : Is(f, Most)
  BY DEF Within, Up, start
<1>5. Is(Within, Most)
  <2> HIDE DEF Is
  <2> QED
    BY <1>3, <1>4, TreeIs
<1>6. Most \in Nat
  BY TreeIs
<1>7. Within[0] = start /\ \A n \in 1..Most : Within[n] = Up(Within[n - 1])
  BY <1>5, <1>6
<1> QED
  BY <1>7 DEF Up, start

\* More steps lead to what fewer lead to.
LEMMA WithinGrows ==
  ASSUME fs \in Trees, NEW n \in 0..Most, NEW m \in 0..n
  PROVE  Within[m] \subseteq Within[n]
<1> DEFINE S == {k \in 0..Most : m =< k => Within[m] \subseteq Within[k]}
<1>1. n \in Nat /\ m \in Nat /\ Most \in Nat /\ m =< n
  BY TreeIs
<1>2. 0 \in S
  BY <1>1
<1>3. ASSUME NEW k \in 0..n-1, k \in S PROVE k + 1 \in S
  <2>1. k + 1 \in 1..Most /\ (k + 1) - 1 = k
    BY <1>1
  <2>2. Within[k] \subseteq Within[k + 1]
    BY <2>1, WithinIs
  <2> QED
    BY <1>1, <1>3, <2>1, <2>2
<1>4. 0..n \subseteq S
  <2> HIDE DEF S
  <2> QED
    BY <1>1, <1>2, <1>3, CountUp
<1> QED
  BY <1>1, <1>4

\* They are directories.
LEMMA WithinAreDirs ==
  ASSUME fs \in Trees, NEW n \in 0..Most
  PROVE  Within[n] \subseteq Dirs
<1> DEFINE S == {k \in 0..Most : Within[k] \subseteq Dirs}
<1>1. n \in Nat /\ Most \in Nat
  BY TreeIs
<1>2. 0 \in S
  BY <1>1, WithinIs, TreeIs
<1>3. ASSUME NEW k \in 0..n-1, k \in S PROVE k + 1 \in S
  <2>1. k + 1 \in 1..Most /\ (k + 1) - 1 = k
    BY <1>1
  <2>2. Within[k + 1] = Within[k] \cup Below(Within[k])
    BY <2>1, WithinIs
  <2>3. Below(Within[k]) \subseteq Dirs
    BY <1>3, TreeIs DEF Below, Enters, Dirs
  <2> QED
    BY <1>3, <2>1, <2>2, <2>3
<1>4. 0..n \subseteq S
  <2> HIDE DEF S
  <2> QED
    BY <1>1, <1>2, <1>3, CountUp
<1> QED
  BY <1>1, <1>4

\* Without links, the one way to a directory is by the directory it is in.
LEMMA OneWay ==
  ASSUME fs \in Trees, ~opt.follow_symlinks, NEW p \in Nodes, NEW d \in fs.children[p],
         NEW n \in 0..Most, d \in Within[n]
  PROVE  n # 0 /\ p \in Within[n - 1]
<1> DEFINE S == {k \in 0..Most : d \in Within[k] => k # 0 /\ p \in Within[k - 1]}
<1>1. n \in Nat /\ Most \in Nat /\ d # Root
  BY TreeIs
<1>2. 0 \in S
  BY <1>1, WithinIs
<1>3. ASSUME NEW k \in 0..n-1, k \in S PROVE k + 1 \in S
  <2>1. k + 1 \in 1..Most /\ (k + 1) - 1 = k /\ k \in 0..Most
    BY <1>1
  <2>2. Within[k + 1] = Within[k] \cup Below(Within[k])
    BY <2>1, WithinIs
  <2>3. ASSUME d \in Within[k] PROVE p \in Within[k]
    <3>1. k # 0 /\ p \in Within[k - 1]
      BY <1>3, <2>3
    <3>2. k - 1 \in 0..k
      BY <1>1, <3>1
    <3> QED
      BY <2>1, <3>1, <3>2, WithinGrows
  <2>4. ASSUME d \in Below(Within[k]) PROVE p \in Within[k]
    <3>1. PICK q, node : q \in Within[k] /\ node \in fs.children[q] /\ Enters(node) /\ d = Real(node)
      BY <2>4 DEF Below
    <3>2. q \in Nodes
      <4>1. Within[k] \subseteq Dirs
        BY <2>1, WithinAreDirs
      <4> QED
        BY <3>1, <4>1 DEF Dirs
    <3>3. node = d
      BY <3>1, <3>2, TreeIs
    <3> QED
      BY <3>1, <3>2, <3>3, TreeIs
  <2> QED
    BY <2>1, <2>2, <2>3, <2>4
<1>4. 0..n \subseteq S
  <2> HIDE DEF S
  <2> QED
    BY <1>1, <1>2, <1>3, CountUp
<1>5. n \in S
  BY <1>1, <1>4
<1> QED
  BY <1>5
\* The least of two numbers.
LEMMA MinOfTwo ==
  ASSUME NEW a \in Int, NEW b \in Int
  PROVE  Min({a, b}) \in Int /\ Min({a, b}) =< a /\ Min({a, b}) =< b /\ Min({a, b}) \in {a, b}
<1>1. \E x \in {a, b} : \A y \in {a, b} : x =< y
  <2>1. CASE a =< b
    BY <2>1
  <2>2. CASE b =< a
    BY <2>2
  <2> QED
    BY <2>1, <2>2
<1>2. Min({a, b}) \in {a, b} /\ \A y \in {a, b} : Min({a, b}) =< y
  BY <1>1 DEF Min
<1> QED
  BY <1>2

\* Where the entries that are asked for are, is as many steps away as the limit
\* of the depth allows.
LEMMA SearchedIs ==
  ASSUME fs \in Trees, opt \in FinderOptions
  PROVE  /\ MaxDepth \in Int /\ Searched \subseteq Dirs
         /\ \A n \in 0..Most : MaxDepth < 0 \/ n < MaxDepth => Within[n] \subseteq Searched
         /\ \A d \in Searched : \E n \in 0..Most : d \in Within[n] /\ (MaxDepth < 0 \/ n < MaxDepth)
         /\ MaxDepth < 0 => Searched = Within[Most]
         /\ MaxDepth > 0 => \E n \in 0..Most : Searched = Within[n] /\ n < MaxDepth
<1> DEFINE k == Min({MaxDepth - 1, Most})
<1>1. MaxDepth \in Int /\ Most \in Nat
  BY TreeIs, FinderOptionsAssumption DEF MaxDepth
<1>2. CASE MaxDepth = 0
  <2>1. Searched = {}
    BY <1>2 DEF Searched
  <2> QED
    BY <1>1, <1>2, <2>1
<1>3. CASE MaxDepth < 0
  <2>1. Searched = Within[Most]
    BY <1>1, <1>3 DEF Searched
  <2>2. Most \in 0..Most /\ \A n \in 0..Most : n \in 0..Most
    BY <1>1
  <2>3. \A n \in 0..Most : Within[n] \subseteq Searched
    BY <2>1, <2>2, WithinGrows
  <2>4. Searched \subseteq Dirs
    BY <2>1, <2>2, WithinAreDirs
  <2> QED
    BY <1>1, <1>3, <2>1, <2>2, <2>3, <2>4
<1>4. CASE MaxDepth > 0
  <2>1. Searched = Within[k]
    BY <1>1, <1>4 DEF Searched
  <2>2. k \in 0..Most /\ k < MaxDepth
    <3>1. MaxDepth - 1 \in Int /\ Most \in Int
      BY <1>1
    <3>2. k \in Int /\ k =< MaxDepth - 1 /\ k =< Most /\ k \in {MaxDepth - 1, Most}
      BY <3>1, MinOfTwo
    <3> QED
      BY <1>1, <1>4, <3>2
  <2>3. \A n \in 0..Most : n < MaxDepth => n =< k
    <3>1. MaxDepth - 1 \in Int /\ Most \in Int
      BY <1>1
    <3>2. k \in {MaxDepth - 1, Most}
      BY <3>1, MinOfTwo
    <3> HIDE DEF k
    <3> QED
      BY <1>1, <1>4, <3>2
  <2> HIDE DEF k
  <2>4. ASSUME NEW n \in 0..Most, n < MaxDepth PROVE Within[n] \subseteq Searched
    <3>1. n \in 0..k
      BY <2>2, <2>3, <2>4
    <3> QED
      BY <2>1, <2>2, <3>1, WithinGrows
  <2>5. Searched \subseteq Dirs
    BY <2>1, <2>2, WithinAreDirs
  <2>6. \A d \in Searched : d \in Within[k]
    BY <2>1
  <2> QED
    BY <1>1, <1>4, <2>1, <2>2, <2>4, <2>5, <2>6
<1> QED
  BY <1>1, <1>2, <1>3, <1>4

\* An entry that is wanted is the root, or listed in one of the directories.
LEMMA WantedIs ==
  ASSUME fs \in Trees, opt \in FinderOptions
  PROVE  /\ IsFiniteSet(WantedEntries)
         /\ \A e \in WantedEntries :
              \/ e = <<Root, Root>> /\ opt.include_dirs /\ Root \in opt.matching
              \/ \E d \in Searched, node \in Nodes :
                   e = <<d, node>> /\ node \in fs.children[d] /\ ~Skips(node) /\ TakesEntry(node)
         /\ \A d \in Searched : \A node \in fs.children[d] :
              ~Skips(node) /\ TakesEntry(node) => <<d, node>> \in WantedEntries
         /\ opt.include_dirs /\ Root \in opt.matching => <<Root, Root>> \in WantedEntries
<1>1. Searched \subseteq Dirs /\ Dirs \subseteq Nodes /\ IsFiniteSet(Nodes) /\ Root \in Nodes
  BY SearchedIs, TreeIs DEF Dirs
<1>2. WantedEntries \in SUBSET (Nodes \X Nodes)
  BY <1>1 DEF WantedEntries, Nodes
<1>3. IsFiniteSet(WantedEntries)
  <2>1. IsFiniteSet(Nodes \X Nodes)
    BY <1>1, FS_Product
  <2> QED
    BY <1>2, <2>1, FS_Subset
<1>4. ASSUME NEW e \in WantedEntries
      PROVE  \/ e = <<Root, Root>> /\ opt.include_dirs /\ Root \in opt.matching
             \/ \E d \in Searched, node \in Nodes :
                  e = <<d, node>> /\ node \in fs.children[d] /\ ~Skips(node) /\ TakesEntry(node)
  BY <1>4 DEF WantedEntries, Nodes
<1>5. ASSUME NEW d \in Searched, NEW node \in fs.children[d], ~Skips(node) /\ TakesEntry(node)
      PROVE  <<d, node>> \in WantedEntries
  <2>1. node \in Nodes
    BY <1>1, TreeIs
  <2> QED
    BY <1>5, <2>1 DEF WantedEntries, Nodes
<1>6. opt.include_dirs /\ Root \in opt.matching => <<Root, Root>> \in WantedEntries
  BY DEF WantedEntries
<1> QED
  BY <1>3, <1>4, <1>5, <1>6

\* An injective sequence has as many elements as its length.
LEMMA CountsItsRange ==
  ASSUME NEW s, Sequence(s), \A i, j \in 1..Len(s) : s[i] = s[j] => i = j
  PROVE  IsFiniteSet(Range(s)) /\ Cardinality(Range(s)) = Len(s)
<1> DEFINE n == Len(s)
<1>1. n \in Nat /\ DOMAIN s = 1..n /\ s = [i \in 1..n |-> s[i]]
  BY SequenceIs
<1>2. IsFiniteSet(1..n) /\ Cardinality(1..n) = n
  <2>1. 1 \in Int /\ n \in Int /\ ~ 1 > n + 1
    BY <1>1
  <2>2. IsFiniteSet(1..n) /\ Cardinality(1..n) = IF 1 > n THEN 0 ELSE n - 1 + 1
    BY <2>1, FS_Interval
  <2> QED
    BY <1>1, <2>2
<1>3. s \in Surjection(1..n, Range(s)) /\ s \in Injection(1..n, Range(s))
  <2>1. \A i \in 1..n : s[i] \in Range(s)
    BY <1>1 DEF Range
  <2>2. s \in [1..n -> Range(s)]
    BY <1>1, <2>1
  <2>3. \A e \in Range(s) : \E i \in 1..n : s[i] = e
    BY <1>1 DEF Range
  <2> QED
    BY <2>2, <2>3 DEF Surjection, Injection, IsInjective
<1> HIDE DEF n
<1>4. IsFiniteSet(Range(s)) /\ (Cardinality(Range(s)) = Cardinality(1..n) <=> s \in Injection(1..n, Range(s)))
  BY <1>2, <1>3, FS_Surjection
<1> QED
  BY <1>2, <1>3, <1>4 DEF n
-----------------------------------------------------------------------------
\* Entries are left in a call only for directories that are searched, of which
\* a new call for one takes all.
LEMMA ListsSearched ==
  ASSUME fs \in Trees, opt \in FinderOptions, NEW f, NEW n, NEW vis, FrameFits(f, n, vis), f.left # {}
  PROVE  f.dir \in Searched
BY SearchedIs DEF FrameFits

\* What a round of the loop leaves to be listed.
WithoutEntry(fr, node) == ReplaceAt(fr, Len(fr), [Last(fr) EXCEPT !.left = @ \ {node}])
OneLess(fr, node, rest) ==
  \A i \in 1..Len(fr) :
     /\ rest[i].dir = fr[i].dir /\ rest[i].left \subseteq fr[i].left
     /\ rest[i].left = IF i = Len(fr) THEN fr[i].left \ {node} ELSE fr[i].left

LEMMA RestIs ==
  ASSUME NEW fr, NEW vis, FramesFit(fr, vis), fr # <<>>, NEW node \in Last(fr).left,
         NEW rest, rest = WithoutEntry(fr, node)
  PROVE  /\ FramesFit(rest, vis) /\ Len(rest) = Len(fr) /\ Len(fr) \in Nat /\ Len(fr) # 0
         /\ OneLess(fr, node, rest)
<1> DEFINE n == Len(fr)
           top == [Last(fr) EXCEPT !.left = @ \ {node}]
<1>1. n \in Nat /\ n # 0 /\ DOMAIN fr = 1..n /\ n \in 1..n /\ Last(fr) = fr[n]
  <2>1. n \in Nat /\ DOMAIN fr = 1..n /\ fr = [i \in 1..n |-> fr[i]]
    BY SequenceIs DEF FramesFit
  <2>2. n # 0
    BY <2>1, EmptySeq DEF FramesFit, Sequence
  <2> QED
    BY <2>1, <2>2 DEF Last
<1>2. /\ rest = [i \in 1..n |-> rest[i]] /\ rest[n] = top
      /\ \A i \in 1..n : i # n => rest[i] = fr[i]
  BY <1>1 DEF ReplaceAt, WithoutEntry
<1>3. Sequence(rest) /\ Len(rest) = n
  BY <1>1, <1>2, SequenceFrom
<1>4. FrameFits(fr[n], n - 1, vis) /\ node \in fr[n].left
  BY <1>1 DEF FramesFit
<1>5. top = [dir |-> fr[n].dir, depth |-> n - 1, left |-> fr[n].left \ {node}]
  <2>1. fr[n] = [dir |-> fr[n].dir, depth |-> n - 1, left |-> fr[n].left]
    BY <1>4 DEF FrameFits
  <2> DEFINE f == Last(fr)
             rem == f.left \ {node}
  <2>2. top = [f EXCEPT !.left = rem]
    OBVIOUS
  <2>3. f = [dir |-> f.dir, depth |-> n - 1, left |-> f.left]
    BY <1>1, <2>1
  <2> HIDE DEF f, rem, top, n
  <2>4. top = [dir |-> f.dir, depth |-> n - 1, left |-> rem]
    BY <2>2, <2>3
  <2> QED
    BY <1>1, <2>4 DEF f, rem, n
<1> HIDE DEF n, top
<1>6. /\ rest[n] = [dir |-> rest[n].dir, depth |-> n - 1, left |-> rest[n].left]
      /\ rest[n].dir = fr[n].dir /\ rest[n].left = fr[n].left \ {node}
  <2> DEFINE rem == fr[n].left \ {node}
             a == fr[n].dir
             g == rest[n]
  <2>1. g = [dir |-> a, depth |-> n - 1, left |-> rem]
    BY <1>2, <1>5
  <2> HIDE DEF rem, a, g
  <2>2. g = [dir |-> g.dir, depth |-> n - 1, left |-> g.left] /\ g.dir = a /\ g.left = rem
    BY <2>1
  <2> QED
    BY <2>2 DEF rem, a, g
<1>10. FrameFits(rest[n], n - 1, vis)
  <2> DEFINE f == fr[n]
             g == rest[n]
  <2>1. /\ g = [dir |-> g.dir, depth |-> n - 1, left |-> g.left] /\ g.dir = f.dir
        /\ g.left \subseteq f.left
    BY <1>6
  <2> HIDE DEF f, g
  <2>2. FrameFits(f, n - 1, vis)
    BY <1>4 DEF f
  <2>3. FrameFits(g, n - 1, vis)
    BY <2>1, <2>2 DEF FrameFits
  <2> QED
    BY <2>3 DEF g
<1>7. ASSUME NEW i \in 1..n
      PROVE  /\ rest[i].dir = fr[i].dir /\ rest[i].left \subseteq fr[i].left
             /\ rest[i].left = IF i = n THEN fr[i].left \ {node} ELSE fr[i].left
  <2>1. CASE i = n
    BY <1>6, <2>1
  <2>2. CASE i # n
    BY <1>2, <2>2
  <2> QED
    BY <2>1, <2>2
<1>8. \A i \in 1..n : FrameFits(rest[i], i - 1, vis)
  BY <1>2, <1>10 DEF FramesFit, n
<1>9. FramesFit(rest, vis)
  <2>1. \A i, j \in 1..n : rest[i].dir = rest[j].dir => i = j
    BY <1>7 DEF FramesFit, n
  <2> QED
    BY <1>3, <1>8, <2>1 DEF FramesFit, n
<1>11. OneLess(fr, node, rest)
  BY <1>7 DEF OneLess, n
<1> QED
  BY <1>1, <1>3, <1>9, <1>11 DEF n

\* A round that may take its entry.
Takes(fr, vis, node, rest, o, found) ==
  /\ fs \in Trees /\ opt \in FinderOptions
  /\ FramesFit(fr, vis) /\ fr # <<>> /\ node \in Last(fr).left /\ ~Skips(node)
  /\ rest = WithoutEntry(fr, node) /\ FoundFit(o, vis) /\ NotYet(fr, o)
  /\ found = IF TakesEntry(node) THEN Append(o, <<Last(fr).dir, node>>) ELSE o

\* A result is added once.
LEMMA TakingFits ==
  ASSUME NEW fr, NEW vis, NEW node, NEW rest, NEW o, NEW found, Takes(fr, vis, node, rest, o, found)
  PROVE  /\ FoundFit(found, vis) /\ NotYet(rest, found)
         /\ Range(found) = Range(o) \cup (IF TakesEntry(node) THEN {<<Last(fr).dir, node>>} ELSE {})
<1> USE DEF Takes
<1> DEFINE n == Len(fr)
           d == fr[n].dir
<1>1. /\ n \in Nat \ {0} /\ n \in 1..n /\ Len(rest) = n /\ Last(fr) = fr[n] /\ node \in fr[n].left
      /\ \A i \in 1..n :
           /\ rest[i].dir = fr[i].dir /\ rest[i].left \subseteq fr[i].left
           /\ rest[i].left = IF i = n THEN fr[i].left \ {node} ELSE fr[i].left
  <2>1. Len(rest) = n /\ n \in Nat /\ n # 0 /\ OneLess(fr, node, rest)
    BY RestIs
  <2>2. Last(fr) = fr[n] /\ node \in fr[n].left
    BY DEF Last
  <2>3. n \in Nat \ {0} /\ n \in 1..n
    BY <2>1
  <2> QED
    BY <2>1, <2>2, <2>3 DEF OneLess
<1>2. FrameFits(fr[n], n - 1, vis)
  BY <1>1 DEF FramesFit
<1>3. /\ <<d, node>> \notin Range(o) /\ d \in Searched /\ d \in vis /\ node \in fs.children[d]
  BY <1>1, <1>2, ListsSearched DEF NotYet, FrameFits
<1>4. \A i \in 1..n : fr[i].dir = d => i = n
  BY <1>1 DEF FramesFit
<1>5. ASSUME NEW i \in 1..n, NEW x \in rest[i].left
      PROVE  <<rest[i].dir, x>> \notin Range(o) \cup {<<d, node>>}
  <2>1. rest[i].dir = fr[i].dir /\ x \in fr[i].left
    BY <1>1
  <2>2. <<fr[i].dir, x>> \notin Range(o)
    BY <2>1 DEF NotYet
  <2>3. i = n => x # node
    BY <1>1
  <2>4. <<fr[i].dir, x>> # <<d, node>>
    BY <1>4, <2>3
  <2> QED
    BY <2>1, <2>2, <2>4
<1>6. CASE ~TakesEntry(node)
  BY <1>1, <1>5, <1>6 DEF NotYet
<1>7. CASE TakesEntry(node)
  <2>1. found = Append(o, <<d, node>>) /\ <<d, node>> \in WantedEntries
    BY <1>1, <1>3, <1>7, WantedIs
  <2>2. Sequence(o) /\ Len(o) \in Nat /\ DOMAIN o = 1..Len(o)
    BY SequenceIs DEF FoundFit
  <2>3. /\ Sequence(found) /\ Len(found) = Len(o) + 1 /\ DOMAIN found = 1..Len(o) + 1
        /\ (\A i \in 1..Len(o) : found[i] = o[i]) /\ found[Len(o) + 1] = <<d, node>>
    BY <2>1, <2>2, Longer
  <2>4. Range(found) = Range(o) \cup {<<d, node>>}
    BY <2>2, <2>3 DEF Range
  <2>5. \A i \in 1..Len(o) : o[i] \in Range(o)
    BY <2>2 DEF Range
  <2>6. \A i, j \in 1..Len(o) + 1 : found[i] = found[j] => i = j
    <3>1. ASSUME NEW i \in 1..Len(o) + 1, NEW j \in 1..Len(o) + 1, found[i] = found[j] PROVE i = j
      <4>1. CASE i \in 1..Len(o) /\ j \in 1..Len(o)
        BY <2>3, <3>1, <4>1 DEF FoundFit
      <4>2. CASE i = Len(o) + 1 /\ j \in 1..Len(o)
        BY <1>3, <2>3, <2>5, <3>1, <4>2
      <4>3. CASE j = Len(o) + 1 /\ i \in 1..Len(o)
        BY <1>3, <2>3, <2>5, <3>1, <4>3
      <4> QED
        BY <2>2, <4>1, <4>2, <4>3
    <3> QED
      BY <3>1
  <2>7. \A e \in Range(found) : e = <<Root, Root>> \/ e[1] \in vis
    BY <1>3, <2>4 DEF FoundFit
  <2>8. FoundFit(found, vis)
    BY <2>1, <2>3, <2>4, <2>6, <2>7 DEF FoundFit
  <2>9. NotYet(rest, found)
    BY <1>1, <1>5, <2>4 DEF NotYet
  <2> QED
    BY <1>1, <1>7, <2>4, <2>8, <2>9
<1> QED
  BY <1>6, <1>7

\* What was treated stays treated, and so is the entry of this round.
LEMMA TreatedStays ==
  ASSUME NEW fr, NEW vis, FramesFit(fr, vis), fr # <<>>, NEW node \in Last(fr).left,
         NEW rest, rest = WithoutEntry(fr, node),
         NEW more, vis \subseteq more, NEW o, NEW found, Range(o) \subseteq Range(found),
         Treated(Last(fr).dir, node, more, found), AllTreated(fr, vis, o), Exact,
         NEW d \in vis \cap Searched, NEW x \in fs.children[d]
  PROVE  (\E i \in 1..Len(rest) : rest[i].dir = d /\ x \in rest[i].left) \/ Treated(d, x, more, found)
<1> DEFINE n == Len(fr)
<1>1. /\ n \in Nat \ {0} /\ n \in 1..n /\ Len(rest) = n /\ Last(fr) = fr[n]
      /\ \A i \in 1..n :
           /\ rest[i].dir = fr[i].dir
           /\ rest[i].left = IF i = n THEN fr[i].left \ {node} ELSE fr[i].left
  <2>1. Len(rest) = n /\ n \in Nat /\ n # 0 /\ OneLess(fr, node, rest)
    BY RestIs
  <2>2. Last(fr) = fr[n] /\ node \in fr[n].left
    BY DEF Last
  <2>3. n \in Nat \ {0} /\ n \in 1..n
    BY <2>1
  <2> QED
    BY <2>1, <2>2, <2>3 DEF OneLess
<1>2. CASE Treated(d, x, vis, o)
  BY <1>2 DEF Treated
<1>3. ASSUME NEW i \in 1..n, fr[i].dir = d, x \in fr[i].left
      PROVE  (rest[i].dir = d /\ x \in rest[i].left) \/ Treated(d, x, more, found)
  <2>1. CASE i = n /\ x = node
    BY <1>1, <1>3, <2>1
  <2>2. CASE ~ (i = n /\ x = node)
    BY <1>1, <1>3, <2>2
  <2> QED
    BY <2>1, <2>2
<1> QED
  BY <1>1, <1>2, <1>3 DEF AllTreated
\* A directory that is entered is one step further than the one it is listed in.
LEMMA EnteredFits ==
  ASSUME fs \in Trees, opt \in FinderOptions,
         NEW f, NEW n, NEW vis, FrameFits(f, n, vis), n < Most, NEW node \in f.left,
         Enters(node), ~Skips(node), NEW d, d = Real(node), NEW more, more = vis \cup {d}
  PROVE  /\ FrameFits(Frame(d, n + 1), n + 1, more) /\ d \in Dirs /\ Frame(d, n + 1).dir = d
         /\ Frame(d, n + 1).left \subseteq fs.children[d]
         /\ Exact /\ d \in Searched => Frame(d, n + 1).left = fs.children[d]
<1> DEFINE g == Frame(d, n + 1)
           left == IF MaxDepth >= 0 /\ n + 1 >= MaxDepth THEN {} ELSE fs.children[d]
<1>1. /\ f.dir \in Within[n] /\ n \in 0..Most /\ Most \in Nat /\ f.left \subseteq fs.children[f.dir]
      /\ node \in fs.children[f.dir]
  BY TreeIs DEF FrameFits
<1>2. f.dir \in Dirs /\ f.dir \in Nodes /\ node \in Nodes
  <2>1. f.dir \in Dirs
    BY <1>1, WithinAreDirs
  <2>2. f.dir \in Nodes
    BY <2>1 DEF Dirs
  <2> QED
    BY <1>1, <2>1, <2>2, TreeIs
<1>3. d \in Dirs
  BY <1>2, TreeIs DEF Enters
<1>4. n + 1 \in 0..Most /\ n + 1 \in 1..Most /\ (n + 1) - 1 = n
  BY <1>1
<1>5. d \in Within[n + 1]
  <2>1. d \in Below(Within[n])
    BY <1>1 DEF Below
  <2>2. Within[n + 1] = Within[n] \cup Below(Within[n])
    BY <1>4, WithinIs
  <2> QED
    BY <2>1, <2>2
<1>6. ASSUME ~opt.follow_symlinks, NEW m \in 0..Most, d \in Within[m] PROVE n + 1 <= m
  <2>1. d = node
    BY <1>2, <1>6, TreeIs
  <2>2. m # 0 /\ f.dir \in Within[m - 1]
    BY <1>1, <1>2, <1>6, <2>1, OneWay
  <2>3. m - 1 \in 0..Most
    BY <1>1, <2>2
  <2>4. n <= m - 1
    BY <1>6, <2>2, <2>3 DEF FrameFits
  <2> QED
    BY <1>1, <2>3, <2>4
<1>7. g = [dir |-> d, depth |-> n + 1, left |-> left]
  BY DEF Frame
<1>8. left \subseteq fs.children[d] /\ (left # {} => MaxDepth < 0 \/ n + 1 < MaxDepth)
  BY <1>1, SearchedIs
<1>9. ASSUME Exact, d \in Searched PROVE left = fs.children[d]
  <2>1. CASE MaxDepth < 0
    BY <2>1, SearchedIs
  <2>2. CASE ~ (MaxDepth < 0)
    <3>1. ~opt.follow_symlinks /\ MaxDepth \in Int
      BY <1>9, <2>2, SearchedIs DEF Exact
    <3>2. PICK m \in 0..Most : d \in Within[m] /\ m < MaxDepth
      BY <1>9, <2>2, SearchedIs
    <3>3. n + 1 <= m
      BY <1>6, <3>1, <3>2
    <3>4. ~ (n + 1 >= MaxDepth)
      BY <1>1, <3>1, <3>2, <3>3
    <3> QED
      BY <3>4
  <2> QED
    BY <2>1, <2>2
<1> HIDE DEF g, left
<1>10. g = [dir |-> g.dir, depth |-> n + 1, left |-> g.left] /\ g.dir = d /\ g.left = left
  BY <1>7
<1>11. FrameFits(g, n + 1, more)
  BY <1>4, <1>5, <1>6, <1>8, <1>10 DEF FrameFits
<1> QED
  BY <1>3, <1>8, <1>9, <1>10, <1>11 DEF g

\* A round that walks into its entry.
Walks(fr, vis, node, d, rest, more, new, fr2) ==
  /\ fs \in Trees /\ opt \in FinderOptions
  /\ FramesFit(fr, vis) /\ fr # <<>> /\ node \in Last(fr).left /\ ~Skips(node) /\ Enters(node)
  /\ d = Real(node) /\ d \notin vis /\ more = vis \cup {d}
  /\ rest = WithoutEntry(fr, node)
  /\ new = Frame(d, Last(fr).depth + 1) /\ fr2 = Append(rest, new)

\* Entering a directory that was not visited keeps what holds of the calls.
LEMMA EnteringFits ==
  ASSUME NEW fr, NEW vis, NEW node, NEW d, NEW rest, NEW more, NEW new, NEW fr2,
         Walks(fr, vis, node, d, rest, more, new, fr2)
  PROVE  /\ FramesFit(fr2, more) /\ Len(fr2) = Len(fr) + 1 /\ fr2[Len(fr) + 1] = new
         /\ \A i \in 1..Len(fr) : fr2[i] = rest[i]
         /\ new.dir = d /\ (Exact /\ d \in Searched => new.left = fs.children[d])
<1> USE DEF Walks
<1> DEFINE n == Len(fr)
           f == fr[n]
<1>1. n \in Nat /\ n # 0 /\ FramesFit(rest, vis) /\ Len(rest) = n /\ OneLess(fr, node, rest)
  BY RestIs
<1>2. Last(fr) = f /\ node \in f.left
  BY DEF Last
<1>3. n \in 1..n
  BY <1>1
<1>4. FrameFits(f, n - 1, vis)
  BY <1>3 DEF FramesFit
<1>5. f.depth = n - 1
  BY <1>4 DEF FrameFits
<1>6. vis \in SUBSET Dirs /\ n <= Cardinality(vis)
  BY DEF FramesFit
<1>7. IsFiniteSet(Dirs) /\ IsFiniteSet(Nodes) /\ Cardinality(Dirs) <= Most
      /\ Cardinality(Dirs) \in Nat /\ Most \in Nat
  <2>1. Dirs \in SUBSET Nodes /\ IsFiniteSet(Nodes) /\ Most \in Nat
    BY TreeIs DEF Dirs
  <2>2. IsFiniteSet(Dirs) /\ Cardinality(Dirs) <= Cardinality(Nodes)
    BY <2>1, FS_Subset
  <2>3. Cardinality(Dirs) \in Nat
    BY <2>2, FS_CardinalityType
  <2> QED
    BY <2>1, <2>2, <2>3 DEF Most, Nodes
<1>8. d \in Dirs
  <2>1. node \in Nodes
    <3>1. f.dir \in Nodes /\ node \in fs.children[f.dir]
      BY <1>2, <1>4, <1>6 DEF FrameFits, Dirs
    <3> QED
      BY <3>1, TreeIs
  <2> QED
    BY <2>1, TreeIs DEF Enters
<1>9. /\ Cardinality(vis) \in Nat /\ Cardinality(more) = Cardinality(vis) + 1
      /\ Cardinality(more) <= Most /\ more \in SUBSET Dirs
  <2>1. IsFiniteSet(vis)
    BY <1>6, <1>7, FS_Subset
  <2>2. Cardinality(vis) \in Nat
    BY <2>1, FS_CardinalityType
  <2>3. Cardinality(more) = Cardinality(vis) + 1
    BY <2>1, FS_AddElement
  <2>4. more \in SUBSET Dirs
    BY <1>6, <1>8
  <2>5. Cardinality(more) <= Cardinality(Dirs)
    BY <1>7, <2>4, FS_Subset
  <2> QED
    BY <1>7, <2>2, <2>3, <2>4, <2>5
<1>10. n - 1 < Most /\ n + 1 <= Cardinality(more) /\ (n - 1) + 1 = n
  BY <1>1, <1>6, <1>7, <1>9
<1>11. new = Frame(d, (n - 1) + 1)
  BY <1>2, <1>5
<1>12. /\ FrameFits(new, n, more) /\ new.dir = d
       /\ Exact /\ d \in Searched => new.left = fs.children[d]
  <2> DEFINE k == n - 1
  <2>1. FrameFits(f, k, vis) /\ k < Most /\ new = Frame(d, k + 1) /\ k + 1 = n /\ node \in f.left
    BY <1>2, <1>4, <1>10, <1>11
  <2> HIDE DEF k, f, n
  <2>2. /\ FrameFits(Frame(d, k + 1), k + 1, more) /\ Frame(d, k + 1).dir = d
        /\ Exact /\ d \in Searched => Frame(d, k + 1).left = fs.children[d]
    BY <2>1, EnteredFits
  <2> QED
    BY <2>1, <2>2
<1>13. /\ Sequence(fr2) /\ Len(fr2) = n + 1 /\ fr2[n + 1] = new
       /\ \A i \in 1..n : fr2[i] = rest[i]
  BY <1>1, Longer DEF FramesFit
<1>14. ASSUME NEW i \in 1..n PROVE FrameFits(fr2[i], i - 1, more) /\ fr2[i].dir \in vis
  <2>1. FrameFits(rest[i], i - 1, vis)
    BY <1>1 DEF FramesFit
  <2> DEFINE g == rest[i]
  <2> HIDE DEF g
  <2>2. FrameFits(g, i - 1, more) /\ g.dir \in vis
    BY <2>1 DEF FrameFits, g
  <2> QED
    BY <1>13, <2>2 DEF g
<1>15. \A i \in 1..n + 1 : FrameFits(fr2[i], i - 1, more)
  <2>1. (n + 1) - 1 = n /\ \A i \in 1..n + 1 : i \in 1..n \/ i = n + 1
    BY <1>1
  <2> QED
    BY <1>12, <1>13, <1>14, <2>1
<1>16. ASSUME NEW i \in 1..n + 1, NEW j \in 1..n + 1, fr2[i].dir = fr2[j].dir PROVE i = j
  <2>1. CASE i \in 1..n /\ j \in 1..n
    BY <1>1, <1>13, <1>16, <2>1 DEF FramesFit
  <2>2. CASE i = n + 1 /\ j \in 1..n
    BY <1>12, <1>13, <1>14, <1>16, <2>2
  <2>3. CASE i \in 1..n /\ j = n + 1
    BY <1>12, <1>13, <1>14, <1>16, <2>3
  <2>4. \A k \in 1..n + 1 : k \in 1..n \/ k = n + 1
    BY <1>1
  <2> QED
    BY <2>1, <2>2, <2>3, <2>4
<1>17. Root \in more
  BY DEF FramesFit
<1> HIDE DEF n
<1>18. FramesFit(fr2, more)
  <2>1. \A i, j \in 1..n + 1 : fr2[i].dir = fr2[j].dir => i = j
    BY <1>16
  <2>2. more \in SUBSET Dirs /\ Sequence(fr2) /\ n + 1 <= Cardinality(more)
    BY <1>9, <1>10, <1>13
  <2>3. n + 1 = Len(fr2)
    BY <1>13
  <2>4. \A i \in 1..Len(fr2) : FrameFits(fr2[i], i - 1, more)
    BY <1>15, <2>3
  <2>5. \A i, j \in 1..Len(fr2) : fr2[i].dir = fr2[j].dir => i = j
    BY <2>1, <2>3
  <2>6. Len(fr2) <= Cardinality(more)
    BY <2>2, <2>3
  <2> QED
    BY <1>17, <2>2, <2>4, <2>5, <2>6 DEF FramesFit
<1> QED
  BY <1>12, <1>13, <1>18 DEF n

\* Leaving a directory, the calls before it go on.
LEMMA LeavingFits ==
  ASSUME fs \in Trees, NEW fr, NEW vis, FramesFit(fr, vis), fr # <<>>, NEW fr2, fr2 = Front(fr)
  PROVE  /\ FramesFit(fr2, vis) /\ Len(fr2) = Len(fr) - 1 /\ Len(fr) \in Nat /\ Len(fr) # 0
         /\ \A i \in 1..Len(fr) - 1 : fr2[i] = fr[i]
         /\ Len(fr) = 1 => fr2 = <<>>
<1> DEFINE n == Len(fr)
<1>1. n \in Nat /\ n # 0 /\ DOMAIN fr = 1..n /\ fr \in Seq(Range(fr))
  BY SequenceIs, EmptySeq DEF FramesFit, Sequence
<1>2. fr2 = SubSeq(fr, 1, n - 1)
  BY DEF Front
<1>3. /\ fr2 = [i \in 1..n-1 |-> fr2[i]] /\ Len(fr2) = n - 1 /\ \A i \in 1..n-1 : fr2[i] = fr[i]
  BY <1>1, <1>2, SubSeqProperties
<1>4. Sequence(fr2)
  <2>1. n - 1 \in Nat
    BY <1>1
  <2> QED
    BY <1>3, <2>1, SequenceFrom
<1>5. n = 1 => fr2 = <<>>
  BY <1>3, <1>4, EmptySeq DEF Sequence
<1>6. n - 1 <= Cardinality(vis)
  <2>1. Dirs \in SUBSET Nodes /\ IsFiniteSet(Nodes) /\ vis \in SUBSET Dirs /\ n <= Cardinality(vis)
    BY TreeIs DEF Dirs, FramesFit
  <2>2. IsFiniteSet(vis)
    BY <2>1, FS_Subset
  <2>3. Cardinality(vis) \in Nat
    BY <2>2, FS_CardinalityType
  <2> QED
    BY <1>1, <2>1, <2>3
<1>7. \A i \in 1..n-1 : i \in 1..n
  BY <1>1
<1> HIDE DEF n
<1>8. \A i \in 1..n-1 : FrameFits(fr2[i], i - 1, vis)
  BY <1>3, <1>7 DEF FramesFit, n
<1>9. \A i, j \in 1..n-1 : fr2[i].dir = fr2[j].dir => i = j
  BY <1>3, <1>7 DEF FramesFit, n
<1>10. vis \in SUBSET Dirs /\ Root \in vis
  BY DEF FramesFit
<1>11. FramesFit(fr2, vis)
  BY <1>3, <1>4, <1>6, <1>8, <1>9, <1>10 DEF FramesFit
<1> QED
  BY <1>1, <1>3, <1>5, <1>11 DEF n
-----------------------------------------------------------------------------
\* The file system and the options do not change.
LEMMA Carried ==
  ASSUME fs' = fs, opt' = opt
  PROVE  /\ FramesFit(frames', visited') => FramesFit(frames, visited)'
         /\ FoundFit(out', visited') => FoundFit(out, visited)'
         /\ NotYet(frames', out') => NotYet(frames, out)'
         /\ AllTreated(frames', visited', out') => AllTreated(frames, visited, out)'
         /\ WantedEntries' = WantedEntries /\ Exact' = Exact
<1>1. MaxDepth' = MaxDepth /\ Exact' = Exact
  BY DEF MaxDepth, Exact
<1>2. Within' = Within /\ Most' = Most
  BY DEF Within, Most, Below, Skips, Enters, IsDir, IsLink, Real
<1>3. Searched' = Searched
  BY <1>1, <1>2 DEF Searched
<1>4. WantedEntries' = WantedEntries
  BY <1>3 DEF WantedEntries, Skips, TakesEntry, IsDir, IsLink, Real
<1>5. FramesFit(frames', visited') => FramesFit(frames, visited)'
  BY <1>1, <1>2 DEF FramesFit, FrameFits, Dirs, Nodes
<1>6. FoundFit(out', visited') => FoundFit(out, visited)'
  BY <1>4 DEF FoundFit
<1>7. NotYet(frames', out') => NotYet(frames, out)'
  BY DEF NotYet
<1>8. AllTreated(frames', visited', out') => AllTreated(frames, visited, out)'
  <2>1. \A x : Skips(x)' = Skips(x) /\ TakesEntry(x)' = TakesEntry(x)
    BY DEF Skips, TakesEntry, IsDir, IsLink, Real
  <2>2. \A x : Enters(x)' = Enters(x) /\ Real(x)' = Real(x)
    BY DEF Enters, IsDir, IsLink, Real
  <2> DEFINE Known(d, x) ==
        \/ \E i \in 1..Len(frames') : frames'[i].dir = d /\ x \in frames'[i].left
        \/ Skips(x)
        \/ (TakesEntry(x) => <<d, x>> \in Range(out')) /\ (Enters(x) => Real(x) \in visited')
  <2>3. AllTreated(frames, visited, out)'
          <=> (Exact => \A d \in visited' \cap Searched : \A x \in fs.children[d] : Known(d, x))
    BY <1>1, <1>3, <2>1, <2>2 DEF AllTreated, Treated
  <2>4. AllTreated(frames', visited', out')
          <=> (Exact => \A d \in visited' \cap Searched : \A x \in fs.children[d] : Known(d, x))
    BY DEF AllTreated, Treated
  <2> QED
    BY <2>3, <2>4
<1> QED
  BY <1>1, <1>4, <1>5, <1>6, <1>7, <1>8

\* What a step that goes on walking, or stops, has to keep.
LEMMA WalkKeeps ==
  ASSUME FinderInv, finderPc = "walk", fs' = fs, opt' = opt, failed' \in BOOLEAN,
         FramesFit(frames', visited'), FoundFit(out', visited'),
         \/ /\ finderPc' = "walk" /\ NotYet(frames', out')
            /\ ~failed' => AllTreated(frames', visited', out')
         \/ /\ finderPc' = "sort"
            /\ failed' \/ Reached' \/ (frames' = <<>> /\ AllTreated(frames', visited', out'))
  PROVE  FinderInv'
BY Carried DEF FinderInv

\* More may have been visited than the results come from.
LEMMA VisitedMore ==
  ASSUME NEW o, NEW vis, NEW more, vis \subseteq more, FoundFit(o, vis) PROVE FoundFit(o, more)
BY DEF FoundFit

\* A round of the loop keeps the invariant.
LEMMA VisitKeeps == ASSUME FinderInv, VisitEntry PROVE FinderInv'
<1> DEFINE top == Last(frames)
           rest(node) == WithoutEntry(frames, node)
           found(node) == IF TakesEntry(node) THEN Append(out, <<top.dir, node>>) ELSE out
<1>1. /\ fs \in Trees /\ opt \in FinderOptions /\ failed \in BOOLEAN
      /\ FramesFit(frames, visited) /\ FoundFit(out, visited) /\ NotYet(frames, out)
      /\ ~failed => AllTreated(frames, visited, out)
      /\ finderPc = "walk" /\ frames # <<>> /\ fs' = fs /\ opt' = opt
  BY DEF FinderInv, VisitEntry
<1>2. PICK node \in top.left :
        \/ Skips(node) /\ frames' = rest(node) /\ UNCHANGED <<visited, out, finderPc, failed>>
        \/ /\ ~Skips(node) /\ opt.limit_results > 0 /\ Len(found(node)) >= opt.limit_results
           /\ out' = found(node) /\ finderPc' = "sort" /\ failed' \in BOOLEAN
           /\ UNCHANGED <<frames, visited>>
        \/ /\ ~Skips(node) /\ out' \in {out, found(node)} /\ failed' = TRUE
           /\ frames' = rest(node) /\ UNCHANGED <<visited, finderPc>>
        \/ /\ ~Skips(node) /\ out' = found(node) /\ Enters(node) /\ Real(node) \notin visited
           /\ visited' = visited \cup {Real(node)}
           /\ frames' = Append(rest(node), Frame(Real(node), top.depth + 1))
           /\ UNCHANGED <<finderPc, failed>>
        \/ /\ ~Skips(node) /\ out' = found(node) /\ ~ (Enters(node) /\ Real(node) \notin visited)
           /\ frames' = rest(node) /\ UNCHANGED <<visited, finderPc, failed>>
        \/ /\ ~Skips(node) /\ out' = found(node) /\ failed' = TRUE
           /\ frames' = rest(node) /\ finderPc' \in {"sort", "walk"} /\ UNCHANGED visited
  <2>1. PICK node \in top.left, known \in BOOLEAN :
          LET takes == TakesEntry(node) /\ (known \/ (IsLink(node) /\ opt.include_symlinks_as_items))
              taken == IF takes THEN Append(out, <<top.dir, node>>) ELSE out
              enough == taken # out /\ opt.limit_results > 0 /\ Len(taken) >= opt.limit_results
          IN \/ Skips(node) /\ frames' = rest(node) /\ UNCHANGED <<visited, out, finderPc, failed>>
             \/ /\ ~Skips(node) /\ enough /\ out' = taken /\ finderPc' = "sort"
                /\ failed' = (failed \/ ~known) /\ UNCHANGED <<frames, visited>>
             \/ /\ ~Skips(node) /\ ~enough /\ ~known /\ out' = taken
                /\ failed' = TRUE /\ frames' = rest(node) /\ UNCHANGED <<visited, finderPc>>
             \/ /\ ~Skips(node) /\ ~enough /\ known /\ out' = taken
                /\ \/ /\ Enters(node) /\ Real(node) \notin visited
                      /\ visited' = visited \cup {Real(node)}
                      /\ frames' = Append(rest(node), Frame(Real(node), top.depth + 1))
                      /\ UNCHANGED <<finderPc, failed>>
                   \/ /\ ~(Enters(node) /\ Real(node) \notin visited)
                      /\ frames' = rest(node) /\ UNCHANGED <<visited, finderPc, failed>>
                   \/ /\ Enters(node) /\ failed' = TRUE
                      /\ frames' = rest(node) /\ finderPc' = IF opt.stop_on_error THEN "sort" ELSE "walk"
                      /\ UNCHANGED visited
    BY DEF VisitEntry, Entered, WithoutEntry
  <2> DEFINE takes == TakesEntry(node) /\ (known \/ (IsLink(node) /\ opt.include_symlinks_as_items))
             taken == IF takes THEN Append(out, <<top.dir, node>>) ELSE out
  <2>2. taken \in {out, found(node)} /\ (taken # out => taken = found(node)) /\ (known => taken = found(node))
    OBVIOUS
  <2> HIDE DEF taken
  <2>3. finderPc' \in {"sort", "walk"} \/ finderPc' = finderPc
    BY <2>1
  <2> HIDE DEF top, rest, found
  <2> QED
    BY <1>1, <2>1, <2>2, <2>3 DEF taken
<1> DEFINE r == rest(node)
           o == found(node)
<1>3. /\ FramesFit(r, visited) /\ Len(r) = Len(frames) /\ Len(frames) \in Nat /\ Len(frames) # 0
      /\ OneLess(frames, node, r)
  BY <1>1, RestIs
<1>4. ASSUME ~Skips(node)
      PROVE  /\ FoundFit(o, visited) /\ NotYet(r, o)
             /\ Range(o) = Range(out) \cup (IF TakesEntry(node) THEN {<<top.dir, node>>} ELSE {})
  <2>1. r = WithoutEntry(frames, node) /\ node \in Last(frames).left
    OBVIOUS
  <2>2. o = IF TakesEntry(node) THEN Append(out, <<Last(frames).dir, node>>) ELSE out
    OBVIOUS
  <2> HIDE DEF r, o
  <2>3. Takes(frames, visited, node, r, out, o)
    BY <1>1, <1>4, <2>1, <2>2 DEF Takes
  <2> QED
    BY <2>3, TakingFits
<1>5. ASSUME ~failed, Exact, NEW more, visited \subseteq more, NEW s, Range(out) \subseteq Range(s),
             Treated(top.dir, node, more, s), NEW d \in visited \cap Searched, NEW x \in fs.children[d]
      PROVE  (\E i \in 1..Len(r) : r[i].dir = d /\ x \in r[i].left) \/ Treated(d, x, more, s)
  BY <1>1, <1>5, TreatedStays
<1> HIDE DEF r, o
<1>11. NotYet(r, out)
  BY <1>1, <1>3 DEF NotYet, OneLess
<1>6. CASE Skips(node) /\ frames' = r /\ UNCHANGED <<visited, out, finderPc, failed>>
  <2>2. ~failed => AllTreated(r, visited, out)
    <3>1. Treated(top.dir, node, visited, out)
      BY <1>6 DEF Treated
    <3> QED
      BY <1>5, <3>1 DEF AllTreated
  <2> QED
    BY <1>1, <1>3, <1>6, <1>11, <2>2, WalkKeeps
<1>7. CASE /\ ~Skips(node) /\ opt.limit_results > 0 /\ Len(o) >= opt.limit_results
           /\ out' = o /\ finderPc' = "sort" /\ failed' \in BOOLEAN
           /\ UNCHANGED <<frames, visited>>
  <2>1. Reached'
    BY <1>1, <1>7 DEF Reached
  <2> QED
    BY <1>1, <1>4, <1>7, <2>1, WalkKeeps
<1>8. CASE /\ ~Skips(node) /\ out' = o /\ Enters(node) /\ Real(node) \notin visited
           /\ visited' = visited \cup {Real(node)}
           /\ frames' = Append(r, Frame(Real(node), top.depth + 1))
           /\ UNCHANGED <<finderPc, failed>>
  <2> DEFINE n == Len(frames)
             d == Real(node)
             more == visited \cup {d}
             new == Frame(d, top.depth + 1)
             fr2 == Append(r, new)
  <2>1. /\ FramesFit(fr2, more) /\ Len(fr2) = n + 1 /\ fr2[n + 1] = new
        /\ \A i \in 1..n : fr2[i] = r[i]
        /\ new.dir = d /\ (Exact /\ d \in Searched => new.left = fs.children[d])
    <3>1. r = WithoutEntry(frames, node) /\ node \in Last(frames).left
      BY DEF r
    <3>2. d = Real(node) /\ more = visited \cup {d} /\ fr2 = Append(r, new)
          /\ new = Frame(d, Last(frames).depth + 1) /\ d \notin visited /\ ~Skips(node) /\ Enters(node)
      BY <1>8
    <3> HIDE DEF d, more, new, fr2
    <3>3. Walks(frames, visited, node, d, r, more, new, fr2)
      BY <1>1, <3>1, <3>2 DEF Walks
    <3> QED
      BY <3>3, EnteringFits DEF n
  <2>2. d \notin visited /\ visited \subseteq more /\ d \in more /\ Root \in visited
    BY <1>1, <1>8 DEF FramesFit
  <2>3. FoundFit(o, more)
    BY <1>4, <1>8, <2>2, VisitedMore
  <2>10. \A i \in 1..n + 1 : i \in 1..n \/ i = n + 1
    BY <1>3
  <2>4. NotYet(fr2, o)
    <3>1. \A i \in 1..n : \A x \in fr2[i].left : <<fr2[i].dir, x>> \notin Range(o)
      BY <1>3, <1>4, <1>8, <2>1 DEF NotYet
    <3>2. \A x : <<d, x>> \notin Range(o)
      BY <1>4, <1>8, <2>2 DEF FoundFit
    <3> QED
      BY <2>1, <2>10, <3>1, <3>2 DEF NotYet
  <2>5. Treated(top.dir, node, more, o)
    BY <1>4, <1>8, <2>2 DEF Treated
  <2>6. Range(out) \subseteq Range(o)
    BY <1>4, <1>8
  <2>11. n + 1 \in 1..n + 1 /\ \A i \in 1..n : i \in 1..n + 1
    BY <1>3
  <2> HIDE DEF n, d, more, new, fr2
  <2>7. ~failed => AllTreated(fr2, more, o)
    <3> SUFFICES ASSUME ~failed, Exact, NEW e \in more \cap Searched, NEW x \in fs.children[e]
                 PROVE  (\E i \in 1..Len(fr2) : fr2[i].dir = e /\ x \in fr2[i].left) \/ Treated(e, x, more, o)
      BY DEF AllTreated
    <3>1. CASE e = d
      BY <2>1, <2>11, <3>1
    <3>2. CASE e \in visited
      <4>1. (\E i \in 1..n : r[i].dir = e /\ x \in r[i].left) \/ Treated(e, x, more, o)
        BY <1>3, <1>5, <2>2, <2>5, <2>6, <3>2 DEF n
      <4> QED
        BY <2>1, <2>11, <4>1
    <3> QED
      BY <3>1, <3>2 DEF more
  <2> QED
    BY <1>1, <1>8, <2>1, <2>3, <2>4, <2>7, WalkKeeps DEF fr2, more, d, new
<1>9. CASE /\ ~Skips(node) /\ out' = o /\ ~ (Enters(node) /\ Real(node) \notin visited)
           /\ frames' = r /\ UNCHANGED <<visited, finderPc, failed>>
  <2>1. Treated(top.dir, node, visited, o)
    BY <1>4, <1>9 DEF Treated
  <2>2. Range(out) \subseteq Range(o)
    BY <1>4, <1>9
  <2>3. ~failed => AllTreated(r, visited, o)
    BY <1>5, <2>1, <2>2 DEF AllTreated
  <2> QED
    BY <1>1, <1>3, <1>4, <1>9, <2>3, WalkKeeps
<1>10. CASE /\ ~Skips(node) /\ out' = o /\ failed' = TRUE
            /\ frames' = r /\ finderPc' \in {"sort", "walk"} /\ UNCHANGED visited
  BY <1>1, <1>3, <1>4, <1>10, WalkKeeps
<1>12. CASE /\ ~Skips(node) /\ out' \in {out, o} /\ failed' = TRUE
            /\ frames' = r /\ UNCHANGED <<visited, finderPc>>
  BY <1>1, <1>3, <1>4, <1>11, <1>12, WalkKeeps
<1> QED
  BY <1>2, <1>6, <1>7, <1>8, <1>9, <1>10, <1>12 DEF r, o

\* A search that is terminated leaves what was found up to then.
LEMMA ThrowKeeps == ASSUME FinderInv, EntryThrows PROVE FinderInv'
<1>1. /\ fs' = fs /\ opt' = opt /\ frames' = frames /\ visited' = visited /\ out' = out
      /\ failed' = failed /\ finderPc' = "terminated" /\ finderPc = "walk"
  BY DEF EntryThrows
<1>2. /\ FramesFit(frames, visited) => FramesFit(frames, visited)'
      /\ FoundFit(out, visited) => FoundFit(out, visited)'
  BY <1>1, Carried
<1> QED
  BY <1>1, <1>2 DEF FinderInv

\* Leaving a directory keeps it, and what is found when all calls are over.
LEMMA LeaveKeeps == ASSUME FinderInv, LeaveDirectory PROVE FinderInv'
<1> DEFINE n == Len(frames)
           fr == Front(frames)
<1>1. /\ fs \in Trees /\ opt \in FinderOptions /\ failed \in BOOLEAN
      /\ FramesFit(frames, visited) /\ FoundFit(out, visited) /\ NotYet(frames, out)
      /\ ~failed => AllTreated(frames, visited, out)
      /\ finderPc = "walk" /\ frames # <<>> /\ fs' = fs /\ opt' = opt
      /\ frames' = fr /\ visited' = visited /\ out' = out
  BY DEF FinderInv, LeaveDirectory
<1>2. /\ \/ /\ Last(frames).left = {} /\ finderPc' = (IF n = 1 THEN "sort" ELSE "walk")
            /\ failed' = failed
         \/ failed' = TRUE /\ finderPc' \in {"sort", "walk"}
  BY DEF LeaveDirectory
<1>3. /\ FramesFit(fr, visited) /\ Len(fr) = n - 1 /\ n \in Nat /\ n # 0
      /\ \A i \in 1..n - 1 : fr[i] = frames[i]
      /\ n = 1 => fr = <<>>
  BY <1>1, LeavingFits
<1>4. Last(frames) = frames[n] /\ \A i \in 1..n : i \in 1..n - 1 \/ i = n
  BY <1>3 DEF Last
<1>5. \A i \in 1..n - 1 : i \in 1..n
  BY <1>3
<1> HIDE DEF n, fr
<1>6. NotYet(fr, out)
  BY <1>1, <1>3, <1>5 DEF NotYet, n
<1>7. ASSUME Last(frames).left = {}, ~failed PROVE AllTreated(fr, visited, out)
  BY <1>1, <1>3, <1>4, <1>7 DEF AllTreated, n
<1>8. CASE Last(frames).left = {} /\ finderPc' = (IF n = 1 THEN "sort" ELSE "walk") /\ failed' = failed
  BY <1>1, <1>3, <1>6, <1>7, <1>8, WalkKeeps
<1>9. CASE failed' = TRUE /\ finderPc' \in {"sort", "walk"}
  BY <1>1, <1>3, <1>6, <1>9, WalkKeeps
<1> QED
  BY <1>2, <1>8, <1>9
-----------------------------------------------------------------------------
\* Results, each found once.
Once(o) == Sequence(o) /\ \A i, j \in 1..Len(o) : o[i] = o[j] => i = j

\* One more of what is left is found once, too.
LEMMA OnceMore ==
  ASSUME NEW g, Once(g), NEW a, a \notin Range(g)
  PROVE  /\ Once(Append(g, a)) /\ Len(Append(g, a)) = Len(g) + 1
         /\ Range(Append(g, a)) = Range(g) \cup {a}
<1> DEFINE h == Append(g, a)
           n == Len(g)
<1>1. n \in Nat /\ DOMAIN g = 1..n
  BY SequenceIs DEF Once
<1>2. /\ Sequence(h) /\ Len(h) = n + 1 /\ DOMAIN h = 1..n + 1
      /\ (\A i \in 1..n : h[i] = g[i]) /\ h[n + 1] = a
  BY <1>1, Longer DEF Once
<1> HIDE DEF h
<1>3. \A i \in 1..n : g[i] \in Range(g)
  BY <1>1 DEF Range
<1>4. \A i \in 1..n + 1 : i \in 1..n \/ i = n + 1
  BY <1>1
<1>5. \A i, j \in 1..n : g[i] = g[j] => i = j
  BY DEF Once
<1> HIDE DEF n
<1>6. \A i, j \in 1..n + 1 : h[i] = h[j] => i = j
  BY <1>2, <1>3, <1>4, <1>5
<1>7. Range(h) = Range(g) \cup {a}
  <2>1. \A i \in 1..n : i \in 1..n + 1
    BY <1>1 DEF n
  <2>2. n + 1 \in 1..n + 1
    BY <1>1
  <2> QED
    BY <1>1, <1>2, <1>4, <2>1, <2>2 DEF Range
<1> QED
  BY <1>2, <1>6, <1>7 DEF Once, h, n

\* Sorting keeps what was found.
LEMMA SortedIs ==
  ASSUME fs \in Trees, NEW s, Once(s), \A e \in Range(s) : e[2] \in Nodes
  PROVE  Once(Sorted(s)) /\ Len(Sorted(s)) = Len(s) /\ Range(Sorted(s)) = Range(s)
<1> DEFINE len == Len(s)
           Next1(g) == LET rest == Range(s) \ Range(g)
                       IN Append(g, CHOOSE a \in rest : \A b \in rest : Rank[a[2]] =< Rank[b[2]])
           first == CHOOSE f : f = [n \in 0..len |-> IF n = 0 THEN <<>> ELSE Next1(f[n - 1])]
           Is(f, n) == f = [i \in 0..n |-> IF i = 0 THEN <<>> ELSE Next1(f[i - 1])]
<1>1. Sorted(s) = first[len]
  BY DEF Sorted
<1>2. len \in Nat /\ IsFiniteSet(Range(s)) /\ Cardinality(Range(s)) = len
  BY SequenceIs, CountsItsRange DEF Once
<1> HIDE DEF Next1
<1>3. ASSUME NEW n \in Nat, NEW f, Is(f, n) PROVE \E g : Is(g, n + 1)
  <2> DEFINE g == [i \in 0..n+1 |-> IF i = n + 1 THEN Next1(f[n]) ELSE f[i]]
  <2>1. DOMAIN g = 0..n+1 /\ g = [i \in 0..n+1 |-> g[i]]
    OBVIOUS
  <2>2. ASSUME NEW i \in 0..n+1 PROVE g[i] = IF i = 0 THEN <<>> ELSE Next1(g[i - 1])
    <3>1. CASE i = n + 1
      BY <3>1
    <3>2. CASE i \in 0..n
      BY <1>3, <3>2
    <3> QED
      BY <3>1, <3>2
  <2> HIDE DEF g
  <2>3. Is(g, n + 1)
    BY <2>1, <2>2
  <2> QED
    BY <2>3
<1>4. \E f : Is(f, 0)
  <2>1. Is([i \in 0..0 |-> <<>>], 0)
    OBVIOUS
  <2> QED
    BY <2>1
<1>5. \A n \in Nat : \E f : Is(f, n)
  <2> DEFINE S == {n \in Nat : ~ \E f : Is(f, n)}
  <2> HIDE DEF Is
  <2> SUFFICES ASSUME S # {} PROVE FALSE
    OBVIOUS
  <2>1. PICK n \in S : \A m \in S : n =< m
    BY HasLeast
  <2>2. n # 0
    BY <1>4
  <2>3. n - 1 \in Nat /\ n - 1 \notin S
    BY <2>1, <2>2
  <2>4. PICK f : Is(f, n - 1)
    BY <2>3
  <2>5. \E g : Is(g, (n - 1) + 1)
    BY <1>3, <2>3, <2>4
  <2> QED
    BY <2>5, <2>1
<1>6. Is(first, len)
  <2>1. first = CHOOSE f : Is(f, len)
    OBVIOUS
  <2> HIDE DEF Is, first
  <2> QED
    BY <1>2, <1>5, <2>1
<1> HIDE DEF first
<1>7. first[0] = <<>> /\ \A n \in 1..len : first[n] = Next1(first[n - 1])
  BY <1>2, <1>6
<1> DEFINE Fits(n) == Once(first[n]) /\ Len(first[n]) = n /\ Range(first[n]) \subseteq Range(s)
           T == {n \in 0..len : Fits(n)}
<1>8. 0 \in T
  <2>1. Once(<<>>) /\ Len(<<>>) = 0 /\ Range(<<>>) = {}
    BY DEF Once, Range, Sequence
  <2> QED
    BY <1>2, <1>7, <2>1
<1>9. ASSUME NEW k \in 0..len-1, k \in T PROVE Fits(k + 1) /\ k + 1 \in 0..len
  <2> DEFINE g == first[k]
             rest == Range(s) \ Range(g)
             a == CHOOSE a \in rest : \A b \in rest : Rank[a[2]] =< Rank[b[2]]
             ranks == {Rank[b[2]] : b \in rest}
  <2>1. k \in Nat /\ k + 1 \in 1..len /\ (k + 1) - 1 = k /\ k < len
    BY <1>2
  <2>2. Once(g) /\ Len(g) = k /\ Range(g) \subseteq Range(s)
    BY <1>9
  <2>3. first[k + 1] = Append(g, a)
    BY <1>7, <2>1 DEF Next1
  <2>4. rest # {}
    <3>1. Cardinality(Range(g)) = k
      BY <2>2, CountsItsRange DEF Once
    <3> HIDE DEF g
    <3>2. Range(g) # Range(s)
      BY <1>2, <2>1, <3>1
    <3> QED
      BY <2>2, <3>2
  <2>5. \E x \in rest : \A b \in rest : Rank[x[2]] =< Rank[b[2]]
    <3>1. ranks \in SUBSET Nat
      BY RankAssumption DEF Nodes
    <3>2. ranks # {}
      BY <2>4
    <3> HIDE DEF ranks, rest
    <3>3. PICK r \in ranks : \A q \in ranks : r =< q
      BY <3>1, <3>2, HasLeast
    <3> QED
      BY <3>3 DEF ranks
  <2>6. a \in rest
    <3> HIDE DEF rest
    <3> QED
      BY <2>5
  <2>7. a \in Range(s) /\ a \notin Range(g)
    BY <2>6
  <2> HIDE DEF a, g, rest
  <2>8. Once(Append(g, a)) /\ Len(Append(g, a)) = k + 1 /\ Range(Append(g, a)) \subseteq Range(s)
    BY <2>2, <2>7, OnceMore
  <2> QED
    BY <2>1, <2>3, <2>8
<1>10. len \in T
  <2>2. ASSUME NEW k \in 0..len-1, k \in T PROVE k + 1 \in T
    BY <1>9, <2>2
  <2> HIDE DEF T
  <2>1. 0..len \subseteq T
    BY <1>2, <1>8, <2>2, CountUp
  <2> QED
    BY <1>2, <2>1
<1>11. Once(Sorted(s)) /\ Len(Sorted(s)) = len /\ Range(Sorted(s)) \subseteq Range(s)
  BY <1>1, <1>10
<1>12. Range(Sorted(s)) = Range(s)
  <2>1. Cardinality(Range(Sorted(s))) = len
    BY <1>11, CountsItsRange DEF Once
  <2> QED
    BY <1>2, <1>11, <2>1, FS_Subset
<1> QED
  BY <1>11, <1>12

Cut(s, limit) == SubSeq(s, 1, Min({Len(s), limit}))

\* Cutting to the limit keeps the first of what was found.
LEMMA CutIs ==
  ASSUME NEW s, Once(s), NEW limit \in Nat \ {0}, NEW o, o = Cut(s, limit)
  PROVE  /\ Once(o) /\ Range(o) \subseteq Range(s) /\ Len(o) \in Nat /\ Len(o) =< limit
         /\ Len(s) >= limit => Len(o) = limit
         /\ Len(s) =< limit => Range(o) = Range(s)
<1> DEFINE n == Len(s)
           m == Min({n, limit})
<1>1. n \in Nat /\ DOMAIN s = 1..n /\ s \in Seq(Range(s))
  BY SequenceIs DEF Once, Sequence
<1>2. /\ m \in Nat /\ m =< n /\ m =< limit
      /\ (n =< limit => m = n) /\ (n >= limit => m = limit)
  <2> HIDE DEF n, m
  <2>1. n \in Int /\ limit \in Int /\ limit \in Nat
    BY <1>1
  <2>2. m \in Int /\ m =< n /\ m =< limit /\ m \in {n, limit}
    BY <2>1, MinOfTwo DEF m
  <2> QED
    BY <1>1, <2>1, <2>2
<1> HIDE DEF m
<1>3. o = SubSeq(s, 1, m)
  BY DEF m, Cut
<1>4. o = [i \in 1..m |-> o[i]] /\ \A i \in 1..m : o[i] = s[i]
  <2> DEFINE R == Range(s)
  <2>1. \A i \in 1..m : s[i] \in R
    <3>1. \A i \in 1..n : s[i] \in R
      BY <1>1 DEF Range
    <3> HIDE DEF R, n
    <3> QED
      BY <1>1, <1>2, <3>1
  <2> HIDE DEF R, n
  <2>2. m \in Int /\ 1 \in Int /\ m-1+1 = m /\ \A i \in 1..m : 1+i-1 = i
    BY <1>2
  <2>3. /\ SubSeq(s, 1, m) \in Seq(R) /\ Len(SubSeq(s, 1, m)) = IF 1 <= m THEN m-1+1 ELSE 0
        /\ \A i \in 1..m-1+1 : SubSeq(s, 1, m)[i] = s[1+i-1]
    BY <2>1, <2>2, SubSeqProperties
  <2>4. Len(o) = m /\ o \in Seq(R)
    <3> DEFINE p == SubSeq(s, 1, m)
    <3>1. p \in Seq(R) /\ Len(p) = IF 1 <= m THEN m-1+1 ELSE 0
      BY <2>3
    <3>2. o = p
      BY <1>3
    <3> HIDE DEF p
    <3> QED
      BY <1>2, <2>2, <3>1, <3>2
  <2>5. o = [i \in 1..Len(o) |-> o[i]]
    BY <2>4
  <2>6. \A i \in 1..m : o[i] = s[i]
    BY <1>3, <2>2, <2>3
  <2> QED
    BY <2>4, <2>5, <2>6
<1>5. Sequence(o) /\ Len(o) = m /\ DOMAIN o = 1..m
  <2> HIDE DEF n
  <2>1. m \in Nat
    BY <1>2
  <2> QED
    BY <1>4, <2>1, SequenceFrom
<1> HIDE DEF n
<1>6. \A i \in 1..m : i \in 1..n
  BY <1>1, <1>2
<1>7. Once(o)
  <2>1. \A i, j \in 1..n : s[i] = s[j] => i = j
    BY DEF Once, n
  <2>2. \A i, j \in 1..m : o[i] = o[j] => i = j
    BY <1>4, <1>6, <2>1
  <2> QED
    BY <1>5, <2>2 DEF Once
<1>8. \A i \in 1..n : s[i] \in Range(s)
  BY <1>1 DEF Range
<1>9. ASSUME NEW x \in Range(o) PROVE x \in Range(s)
  <2>1. PICK i \in 1..m : x = o[i]
    BY <1>5 DEF Range
  <2> QED
    BY <1>4, <1>6, <1>8, <2>1
<1>10. ASSUME m = n, NEW x \in Range(s) PROVE x \in Range(o)
  <2>1. PICK i \in 1..m : x = s[i]
    BY <1>1, <1>10 DEF Range
  <2>2. x = o[i]
    BY <1>4, <2>1
  <2> QED
    BY <1>5, <2>2 DEF Range
<1> QED
  <2>1. m = n => Range(o) = Range(s)
    BY <1>9, <1>10
  <2> QED
    BY <1>2, <1>5, <1>7, <1>9, <2>1 DEF n
-----------------------------------------------------------------------------
\* When all calls are over, all that was asked for is found.
LEMMA AllFound ==
  ASSUME fs \in Trees, opt \in FinderOptions, NEW vis, FramesFit(<<>>, vis), NEW o, FoundFit(o, vis),
         Exact, AllTreated(<<>>, vis, o)
  PROVE  Range(o) = WantedEntries
<1>1. Most \in Nat /\ MaxDepth \in Int /\ Root \in vis
  BY TreeIs, SearchedIs DEF FramesFit
<1>2. \A d \in vis \cap Searched : \A node \in fs.children[d] : Treated(d, node, vis, o)
  <2>1. Len(<<>>) = 0
    OBVIOUS
  <2> QED
    BY <2>1 DEF AllTreated
<1> DEFINE Near(k) == MaxDepth < 0 \/ k < MaxDepth
           S == {k \in 0..Most : Near(k) => Within[k] \subseteq vis}
<1>3. 0 \in S
  BY <1>1, WithinIs
<1>4. ASSUME NEW k \in 0..Most-1, k \in S, Near(k + 1) PROVE Within[k + 1] \subseteq vis
  <2>1. k \in 0..Most /\ k + 1 \in 1..Most /\ (k + 1) - 1 = k /\ Near(k)
    BY <1>1, <1>4
  <2>2. Within[k] \subseteq vis /\ Within[k] \subseteq Searched
    BY <1>4, <2>1, SearchedIs
  <2>3. Below(Within[k]) \subseteq vis
    <3> SUFFICES ASSUME NEW d \in Within[k], NEW node \in fs.children[d], Enters(node), ~Skips(node)
                 PROVE  Real(node) \in vis
      BY DEF Below
    <3>1. Treated(d, node, vis, o)
      BY <1>2, <2>2
    <3> QED
      BY <3>1 DEF Treated
  <2>4. Within[k + 1] = Within[k] \cup Below(Within[k])
    BY <2>1, WithinIs
  <2> QED
    BY <2>2, <2>3, <2>4
<1>5. ASSUME NEW k \in 0..Most-1, k \in S PROVE k + 1 \in S
  <2>1. k + 1 \in 0..Most
    BY <1>1
  <2> QED
    BY <1>4, <1>5, <2>1
<1>6. 0..Most \subseteq S
  <2> HIDE DEF S
  <2> QED
    BY <1>1, <1>3, <1>5, CountUp
<1>7. Searched \subseteq vis
  <2> SUFFICES ASSUME NEW d \in Searched PROVE d \in vis
    OBVIOUS
  <2>1. PICK n \in 0..Most : d \in Within[n] /\ Near(n)
    BY SearchedIs
  <2> QED
    BY <1>6, <2>1
<1>8. ASSUME NEW e \in WantedEntries PROVE e \in Range(o)
  <2>1. CASE e = <<Root, Root>> /\ opt.include_dirs /\ Root \in opt.matching
    BY <2>1 DEF FoundFit
  <2>2. ASSUME NEW d \in Searched, NEW node \in Nodes,
               e = <<d, node>> /\ node \in fs.children[d] /\ ~Skips(node) /\ TakesEntry(node)
        PROVE  e \in Range(o)
    <3>1. Treated(d, node, vis, o)
      BY <1>2, <1>7, <2>2
    <3> QED
      BY <2>2, <3>1 DEF Treated
  <2> QED
    BY <2>1, <2>2, WantedIs
<1> QED
  BY <1>8 DEF FoundFit

\* What was found, once all that was asked for is or the limit was reached, is
\* cut to what was asked for.
LEMMA CutIsComplete ==
  ASSUME fs \in Trees, opt \in FinderOptions, NEW o, Once(o), Range(o) \subseteq WantedEntries,
         NEW len, len = Len(o),
         ~failed /\ Exact => (opt.limit_results > 0 /\ len >= opt.limit_results) \/ Range(o) = WantedEntries,
         NEW s, s = IF opt.limit_results > 0 THEN Cut(o, opt.limit_results) ELSE o
  PROVE  Once(s) /\ Range(s) \subseteq WantedEntries /\ Complete(s)
<1> DEFINE limit == opt.limit_results
           wanted == Cardinality(WantedEntries)
<1>1. limit \in Nat /\ len \in Nat
  BY FinderOptionsAssumption, SequenceIs DEF Once
<1>2. IsFiniteSet(WantedEntries) /\ wanted \in Nat
  BY WantedIs, FS_CardinalityType
<1>3. Cardinality(Range(o)) = len
  BY CountsItsRange DEF Once
<1>4. len <= wanted /\ (len = wanted => Range(o) = WantedEntries)
  BY <1>2, <1>3, FS_Subset
<1>5. CASE ~ (limit > 0)
  BY <1>5 DEF Complete
<1>6. CASE limit > 0
  <2>1. limit \in Nat \ {0} /\ s = Cut(o, limit)
    BY <1>1, <1>6
  <2> HIDE DEF limit
  <2>2. /\ Once(s) /\ Range(s) \subseteq Range(o) /\ Len(s) =< limit
        /\ len >= limit => Len(s) = limit
        /\ len =< limit => Range(s) = Range(o)
    BY <2>1, CutIs
  <2>3. ~failed /\ Exact => len >= limit \/ Range(o) = WantedEntries
    BY DEF limit
  <2> HIDE DEF wanted
  <2>4. ASSUME ~failed, Exact
        PROVE  IF wanted > limit THEN Len(s) = limit ELSE Range(s) = WantedEntries
    <3>1. CASE Range(o) = WantedEntries
      <4>1. len = wanted
        BY <1>3, <3>1 DEF wanted
      <4> QED
        BY <1>1, <1>2, <2>1, <2>2, <3>1, <4>1
    <3>2. CASE len >= limit
      <4>1. CASE wanted > limit
        BY <2>2, <3>2, <4>1
      <4>2. CASE ~ (wanted > limit)
        <5>1. len = wanted /\ len =< limit
          BY <1>1, <1>2, <1>4, <2>1, <3>2, <4>2
        <5> QED
          BY <1>4, <2>2, <4>2, <5>1
      <4> QED
        BY <4>1, <4>2
    <3> QED
      BY <2>3, <2>4, <3>1, <3>2
  <2> QED
    BY <1>6, <2>2, <2>4 DEF Complete, limit, wanted
<1> QED
  BY <1>5, <1>6
\* Sorting and cutting ends the search with what was promised.
LEMMA SortKeeps == ASSUME FinderInv, SortAndCut PROVE FinderInv'
<1> DEFINE sorted == IF opt.sorted THEN Sorted(out) ELSE out
<1>1. /\ fs \in Trees /\ opt \in FinderOptions /\ failed \in BOOLEAN
      /\ FramesFit(frames, visited) /\ FoundFit(out, visited)
      /\ failed \/ Reached \/ (frames = <<>> /\ AllTreated(frames, visited, out))
      /\ fs' = fs /\ opt' = opt /\ failed' = failed /\ finderPc' = "end"
  BY DEF FinderInv, SortAndCut
<1>2. out' = IF opt.limit_results > 0 THEN Cut(sorted, opt.limit_results) ELSE sorted
  BY DEF SortAndCut, Cut
<1>3. Once(out) /\ Range(out) \subseteq WantedEntries
  BY <1>1 DEF FoundFit, Once
<1>4. \A e \in Range(out) : e[2] \in Nodes
  <2>1. \A e \in WantedEntries : e[2] \in Nodes
    BY <1>1, WantedIs, TreeIs DEF Dirs
  <2> QED
    BY <1>3, <2>1
<1>5. Once(sorted) /\ Len(sorted) = Len(out) /\ Range(sorted) = Range(out)
  <2>1. CASE opt.sorted
    BY <1>1, <1>3, <1>4, <2>1, SortedIs
  <2>2. CASE ~opt.sorted
    BY <1>3, <2>2
  <2> QED
    BY <2>1, <2>2
<1> HIDE DEF sorted
<1>6. ~failed /\ Exact =>
        (opt.limit_results > 0 /\ Len(sorted) >= opt.limit_results) \/ Range(sorted) = WantedEntries
  <2> SUFFICES ASSUME ~failed, Exact, ~Reached PROVE Range(out) = WantedEntries
    BY <1>5 DEF Reached
  <2>1. FramesFit(<<>>, visited) /\ AllTreated(<<>>, visited, out)
    BY <1>1
  <2> QED
    BY <1>1, <2>1, AllFound
<1>7. Once(out') /\ Range(out') \subseteq WantedEntries /\ Complete(out')
  <2> DEFINE s == out'
             len == Len(sorted)
  <2>1. /\ s = IF opt.limit_results > 0 THEN Cut(sorted, opt.limit_results) ELSE sorted
        /\ Range(sorted) \subseteq WantedEntries /\ Once(sorted)
        /\ ~failed /\ Exact => (opt.limit_results > 0 /\ len >= opt.limit_results) \/ Range(sorted) = WantedEntries
    BY <1>2, <1>3, <1>5, <1>6
  <2> HIDE DEF s
  <2>2. Once(s) /\ Range(s) \subseteq WantedEntries /\ Complete(s)
    BY <1>1, <2>1, CutIsComplete
  <2> QED
    BY <2>2 DEF s
<1>8. WantedEntries' = WantedEntries /\ Exact' = Exact
  BY <1>1, Carried
<1>9. Complete(out)'
  BY <1>1, <1>7, <1>8 DEF Complete
<1>10. (\A i, j \in DOMAIN out : out[i] = out[j] => i = j)'
  BY <1>7, SequenceIs DEF Once
<1> QED
  BY <1>1, <1>7, <1>8, <1>9, <1>10 DEF FinderInv

\* A search starts with a call for the root, that lists it to its end.
LEMMA FinderStarts == InitFinder => FinderInv
<1> SUFFICES ASSUME InitFinder PROVE FinderInv
  OBVIOUS
<1> DEFINE f == Frame(Root, 0)
           left == IF MaxDepth >= 0 /\ 0 >= MaxDepth THEN {} ELSE fs.children[Root]
           vis == {Root}
           one == <<f>>
<1>1. /\ fs \in Trees /\ opt \in FinderOptions /\ visited = vis /\ finderPc = "walk" /\ failed = FALSE
      /\ frames = one
      /\ out = IF opt.include_dirs /\ Root \in opt.matching THEN <<<<Root, Root>>>> ELSE <<>>
  BY DEF InitFinder
<1>2. /\ Root \in Dirs /\ Most \in Nat /\ Root \in Nodes /\ fs.children[Root] \subseteq Nodes \ {Root}
      /\ Within[0] = {Root} /\ MaxDepth \in Int
  BY <1>1, TreeIs, WithinIs, SearchedIs DEF Dirs
<1>3. f = [dir |-> Root, depth |-> 0, left |-> left]
  BY DEF Frame
<1>4. left \subseteq fs.children[Root] /\ (left # {} => MaxDepth < 0 \/ 0 < MaxDepth)
  BY <1>2
<1>5. Root \in Searched => left = fs.children[Root]
  <2>1. MaxDepth = 0 => Searched = {}
    BY DEF Searched
  <2> QED
    BY <1>2, <2>1
<1> HIDE DEF left
<1>6. one = [i \in 1..1 |-> one[i]] /\ one[1] = f
  OBVIOUS
<1> HIDE DEF f, one
<1>7. f = [dir |-> f.dir, depth |-> 0, left |-> f.left] /\ f.dir = Root /\ f.left = left
  BY <1>3
<1>8. Sequence(one) /\ Len(one) = 1
  BY <1>6, SequenceFrom
<1>9. Cardinality(vis) = 1
  BY FS_Singleton
<1> HIDE DEF vis
<1>10. Root \in vis /\ \A d \in vis : d = Root
  BY DEF vis
<1>11. FrameFits(f, 0, vis)
  BY <1>2, <1>4, <1>7, <1>10 DEF FrameFits
<1>12. FramesFit(one, vis)
  <2>1. \A i \in 1..1 : i = 1 /\ i - 1 = 0
    OBVIOUS
  <2>2. \A i \in 1..Len(one) : FrameFits(one[i], i - 1, vis)
    BY <1>6, <1>8, <1>11, <2>1
  <2>3. \A i, j \in 1..Len(one) : i = j
    BY <1>8, <2>1
  <2> QED
    BY <1>2, <1>8, <1>9, <1>10, <2>2, <2>3 DEF FramesFit
<1>13. /\ Once(out) /\ Range(out) \subseteq {<<Root, Root>>}
       /\ opt.include_dirs /\ Root \in opt.matching => <<Root, Root>> \in Range(out)
  <2> DEFINE e == <<Root, Root>>
             o == <<e>>
  <2>1. Once(<<>>) /\ Range(<<>>) = {}
    BY DEF Once, Range, Sequence
  <2>2. o = [i \in 1..1 |-> o[i]] /\ o[1] = e
    OBVIOUS
  <2>3. out = IF opt.include_dirs /\ Root \in opt.matching THEN o ELSE <<>>
    BY <1>1
  <2> HIDE DEF o, e
  <2>4. Sequence(o) /\ Len(o) = 1 /\ DOMAIN o = 1..1
    BY <2>2, SequenceFrom
  <2>5. Once(o)
    BY <2>4 DEF Once
  <2>6. Range(o) = {e}
    BY <2>2, <2>4 DEF Range
  <2> QED
    BY <2>1, <2>3, <2>5, <2>6 DEF e
<1>14. FoundFit(out, vis)
  <2>1. Range(out) \subseteq WantedEntries
    <3>1. CASE opt.include_dirs /\ Root \in opt.matching
      BY <1>1, <1>13, <3>1, WantedIs
    <3>2. CASE ~ (opt.include_dirs /\ Root \in opt.matching)
      <4>1. out = <<>>
        BY <1>1, <3>2
      <4> QED
        BY <4>1 DEF Range
    <3> QED
      BY <3>1, <3>2
  <2> QED
    BY <1>13, <2>1 DEF FoundFit, Once
<1>15. NotYet(one, out)
  <2> SUFFICES ASSUME NEW i \in 1..Len(one), NEW node \in one[i].left, <<one[i].dir, node>> \in Range(out)
               PROVE  FALSE
    BY DEF NotYet
  <2>1. i = 1
    BY <1>8
  <2>2. node \in fs.children[Root]
    BY <1>4, <1>6, <1>7, <2>1
  <2>3. node # Root
    BY <1>2, <2>2
  <2>4. <<one[i].dir, node>> = <<Root, Root>>
    BY <1>13
  <2> QED
    BY <2>3, <2>4
<1>16. AllTreated(one, vis, out)
  <2> SUFFICES ASSUME NEW d \in vis \cap Searched, NEW node \in fs.children[d]
               PROVE  \E i \in 1..Len(one) : one[i].dir = d /\ node \in one[i].left
    BY DEF AllTreated
  <2>1. d = Root /\ node \in left
    BY <1>5, <1>10
  <2> QED
    BY <1>6, <1>7, <1>8, <2>1
<1> QED
  BY <1>1, <1>12, <1>14, <1>15, <1>16 DEF FinderInv

\* Every step keeps it.
LEMMA FinderKeeps == FinderInv /\ [NextFinder]_finderVars => FinderInv'
<1> SUFFICES ASSUME FinderInv, [NextFinder]_finderVars PROVE FinderInv'
  OBVIOUS
<1>1. CASE VisitEntry
  BY <1>1, VisitKeeps
<1>5. CASE EntryThrows
  BY <1>5, ThrowKeeps
<1>2. CASE LeaveDirectory
  BY <1>2, LeaveKeeps
<1>3. CASE SortAndCut
  BY <1>3, SortKeeps
<1>4. CASE UNCHANGED finderVars
  <2>1. /\ fs' = fs /\ opt' = opt /\ frames' = frames /\ visited' = visited /\ out' = out
        /\ finderPc' = finderPc /\ failed' = failed
    BY <1>4 DEF finderVars
  <2>2. /\ FramesFit(frames, visited) => FramesFit(frames, visited)'
        /\ FoundFit(out, visited) => FoundFit(out, visited)'
        /\ NotYet(frames, out) => NotYet(frames, out)'
        /\ AllTreated(frames, visited, out) => AllTreated(frames, visited, out)'
        /\ WantedEntries' = WantedEntries /\ Exact' = Exact
    BY <2>1, Carried
  <2>3. Reached' = Reached /\ (AllTreated(<<>>, visited, out) /\ frames = <<>> => AllTreated(frames, visited, out)')
    BY <2>1, <2>2 DEF Reached
  <2>4. Complete(out) => Complete(out)'
    BY <2>1, <2>2 DEF Complete
  <2> QED
    BY <2>1, <2>2, <2>3, <2>4 DEF FinderInv
<1> QED
  BY <1>1, <1>2, <1>3, <1>4, <1>5 DEF NextFinder

\* It says what is promised, while the search goes on and when it has ended.
LEMMA FinderFinds == FinderInv => FinderFindsAll
<1> SUFFICES ASSUME FinderInv PROVE FinderFindsAll
  OBVIOUS
<1>1. CASE finderPc = "end"
  BY <1>1, FinderOptionsAssumption DEF FinderInv, FinderFindsAll, Complete, Exact
<1>2. CASE finderPc # "end"
  <2>1. Once(out) /\ Range(out) \subseteq WantedEntries
    BY <1>2 DEF FinderInv, FoundFit, Once
  <2>2. DOMAIN out = 1..Len(out)
    BY <2>1, SequenceIs DEF Once
  <2> QED
    BY <1>2, <2>1, <2>2 DEF FinderFindsAll, Once
<1> QED
  BY <1>1, <1>2

SearchInv == subject = "finder" => FinderInv

\* A search, whatever it walks and with whatever options: nothing is found
\* twice or unasked for, and all is found that was asked for, unless reading
\* failed, the limit was reached, or links met a limit of the depth.
THEOREM SearchFindsAll == Spec => []SearchIsExact
<1>1. Init => SearchInv
  BY FinderStarts DEF Init, SearchInv
<1>2. SearchInv /\ [Next]_vars => SearchInv'
  <2> SUFFICES ASSUME SearchInv, [Next]_vars, subject' = "finder" PROVE FinderInv'
    BY DEF SearchInv
  <2>1. subject = "finder" /\ [NextFinder]_finderVars
    BY DEF Next, vars, filesVars, FinderStep
  <2> QED
    BY <2>1, FinderKeeps DEF SearchInv
<1>3. SearchInv => SearchIsExact
  BY FinderFinds DEF SearchInv, SearchIsExact
<1> QED
  BY <1>1, <1>2, <1>3, PTL DEF Spec

-----------------------------------------------------------------------------
(***************************************************************************)
(* The downloader.  Where the parts of a response stand: part i begins     *)
(* with the marker at p[i], and the closing marker is the one behind them. *)
(***************************************************************************)
PartOk(part) ==
  /\ Sequence(part.header) /\ Sequence(part.data)
  /\ \A k \in 1..Len(part.header) : part.header[k] = LineEnd => k # Len(part.header) /\ part.header[k + 1] # LineEnd
  /\ \A k \in 1..Len(part.data) - 1 : ~(part.data[k] = LineEnd /\ part.data[k + 1] = Marker)

\* The header stands from a + 2 on, the data from d on.
DataAt(part, a) == a + 4 + Len(part.header)
PartAt(part, r, a) ==
  LET d == DataAt(part, a) IN
  /\ r[a] = Marker /\ r[a + 1] = LineEnd
  /\ \A x \in 1..Len(part.header) : r[a + 1 + x] = part.header[x]
  /\ r[d - 2] = LineEnd /\ r[d - 1] = LineEnd
  /\ \A y \in 1..Len(part.data) : r[d - 1 + y] = part.data[y]

Stand(parts, r, p) ==
  /\ Sequence(r) /\ Len(parts) \in Nat
  /\ \A i \in 1..Len(parts) + 1 : p[i] \in Nat /\ p[i] >= 1 /\ p[i] < Len(r)
  /\ p[1] = 1 \/ (p[1] = 2 /\ r[1] = LineEnd)
  /\ \A i \in 1..Len(parts) :
       /\ PartOk(parts[i]) /\ PartAt(parts[i], r, p[i])
       /\ r[p[i + 1] - 1] = LineEnd /\ r[p[i + 1]] = Marker
       /\ p[i + 1] - 1 = DataAt(parts[i], p[i]) + Len(parts[i].data)
  /\ Len(r) = p[Len(parts) + 1] + 1 /\ r[p[Len(parts) + 1]] = Marker /\ r[Len(r)] = Dashes

Sends(pre, part) == pre \o <<Marker, LineEnd>> \o part.header \o <<LineEnd, LineEnd>> \o part.data

LEMMA PairIs ==
  ASSUME NEW a, NEW b
  PROVE  Sequence(<<a, b>>) /\ Len(<<a, b>>) = 2 /\ <<a, b>>[1] = a /\ <<a, b>>[2] = b
BY DEF Sequence, Range

\* One sequence behind another.
Behind(s, a, b) ==
  /\ Sequence(s) /\ Len(a) \in Nat /\ Len(b) \in Nat /\ Len(s) = Len(a) + Len(b)
  /\ \A x \in 1..Len(a) : s[x] = a[x]
  /\ \A y \in 1..Len(b) : s[Len(a) + y] = b[y]
LEMMA BehindIs ==
  ASSUME NEW a, Sequence(a), NEW b, Sequence(b) PROVE Behind(a \o b, a, b) /\ Sequence(a \o b)
BY Appended DEF Behind

\* What a server writes for a part, behind what ends the part before it.
Sent(s, pre, part) ==
  /\ Sequence(s) /\ Len(pre) \in Nat
  /\ Len(s) = Len(pre) + 4 + Len(part.header) + Len(part.data)
  /\ PartAt(part, s, Len(pre) + 1)
  /\ \A x \in 1..Len(pre) : s[x] = pre[x]
LEMMA PieceStands ==
  ASSUME NEW part, PartOk(part), NEW pre, Sequence(pre)
  PROVE  Sent(Sends(pre, part), pre, part)
<1> DEFINE s == Sends(pre, part)
           h == part.header
           d == part.data
           two == <<Marker, LineEnd>>
           ends == <<LineEnd, LineEnd>>
           s1 == pre \o two
           s2 == s1 \o h
           s3 == s2 \o ends
<1>1. Sequence(two) /\ Len(two) = 2 /\ two[1] = Marker /\ two[2] = LineEnd
  BY PairIs
<1>2. Sequence(ends) /\ Len(ends) = 2 /\ ends[1] = LineEnd /\ ends[2] = LineEnd
  BY PairIs
<1>3. Sequence(h) /\ Sequence(d) /\ s = s3 \o d
  BY DEF PartOk, Sends
<1>4. Behind(s1, pre, two) /\ Sequence(s1)
  BY <1>1, BehindIs, Zenon
<1>5. Behind(s2, s1, h) /\ Sequence(s2)
  BY <1>3, <1>4, BehindIs, Zenon
<1>6. Behind(s3, s2, ends) /\ Sequence(s3)
  BY <1>2, <1>5, BehindIs, Zenon
<1>7. Behind(s, s3, d)
  BY <1>3, <1>6, BehindIs, Zenon
<1> HIDE DEF two, ends, h, d, s1, s2, s3, s
<1> USE DEF Behind
<1> DEFINE n == Len(pre)
           k == Len(h)
           l == Len(d)
<1>8. /\ n \in Nat /\ k \in Nat /\ l \in Nat /\ Len(s1) = n + 2 /\ Len(s2) = n + 2 + k /\ Len(s3) = n + 4 + k
      /\ Len(s) = n + 4 + k + l
  BY <1>1, <1>2, <1>4, <1>5, <1>6, <1>7
<1>9. \A x \in 1..n : s[x] = pre[x]
  <2> SUFFICES ASSUME NEW x \in 1..n PROVE s[x] = pre[x]
    OBVIOUS
  <2>1. x \in 1..Len(s1) /\ x \in 1..Len(s2) /\ x \in 1..Len(s3)
    BY <1>8
  <2> QED
    BY <1>4, <1>5, <1>6, <1>7, <2>1
<1>10. s[n + 1] = Marker /\ s[n + 2] = LineEnd
  <2>1. \A x \in {n + 1, n + 2} : x \in 1..Len(s1) /\ x \in 1..Len(s2) /\ x \in 1..Len(s3)
    BY <1>8
  <2> QED
    BY <1>1, <1>4, <1>5, <1>6, <1>7, <2>1
<1>11. \A x \in 1..k : s[n + 2 + x] = h[x]
  <2> SUFFICES ASSUME NEW x \in 1..k PROVE s[n + 2 + x] = h[x]
    OBVIOUS
  <2>1. n + 2 + x \in 1..Len(s2) /\ n + 2 + x \in 1..Len(s3) /\ n + 2 + x = Len(s1) + x
    BY <1>8
  <2> HIDE DEF n
  <2> QED
    BY <1>5, <1>6, <1>7, <2>1
<1>12. s[n + 3 + k] = LineEnd /\ s[n + 4 + k] = LineEnd
  <2>1. \A y \in 1..2 : Len(s2) + y \in 1..Len(s3)
    BY <1>8
  <2>2. \A y \in 1..2 : s[Len(s2) + y] = LineEnd
    BY <1>2, <1>6, <1>7, <2>1
  <2>3. n + 3 + k = Len(s2) + 1 /\ n + 4 + k = Len(s2) + 2
    BY <1>8
  <2> QED
    BY <2>2, <2>3
<1>13. \A y \in 1..l : s[n + 4 + k + y] = d[y]
  BY <1>7, <1>8
<1> HIDE DEF n, k, l
<1>14. PartAt(part, s, n + 1)
  <2>1. DataAt(part, n + 1) = n + 5 + k
    BY <1>8 DEF DataAt, h, k
  <2>2. \A x \in 1..k : n + 1 + 1 + x = n + 2 + x
    BY <1>8
  <2>3. \A y \in 1..l : (n + 5 + k) - 1 + y = n + 4 + k + y
    BY <1>8
  <2>4. n + 1 + 1 = n + 2 /\ (n + 5 + k) - 2 = n + 3 + k /\ (n + 5 + k) - 1 = n + 4 + k
    BY <1>8
  <2>5. /\ s[n + 1 + 1] = LineEnd /\ \A x \in 1..k : s[n + 1 + 1 + x] = h[x]
    BY <1>10, <1>11, <2>2, <2>4
  <2>6. s[(n + 5 + k) - 2] = LineEnd /\ s[(n + 5 + k) - 1] = LineEnd
    BY <1>12, <2>4
  <2>7. \A y \in 1..l : s[(n + 5 + k) - 1 + y] = d[y]
    BY <1>13, <2>3
  <2> QED
    BY <1>10, <2>1, <2>5, <2>6, <2>7, Zenon DEF PartAt, h, d, k, l
<1> QED
  BY <1>7, <1>8, <1>9, <1>14, Zenon DEF n, k, l, h, d, s, Sent

\* A part stands in a longer text as it does in its own.
Holds(r, o, s) == \A y \in 1..Len(s) : r[o + y] = s[y]
LEMMA PartMoves ==
  ASSUME NEW part, PartOk(part), NEW s, NEW a \in Nat, PartAt(part, s, a), a >= 1,
         Len(s) = DataAt(part, a) - 1 + Len(part.data),
         NEW r, NEW o \in Nat, Holds(r, o, s)
  PROVE  PartAt(part, r, o + a)
<1> DEFINE k == Len(part.header)
           l == Len(part.data)
           d == a + 4 + k
<1>1. k \in Nat /\ l \in Nat /\ Len(s) = d - 1 + l /\ d = DataAt(part, a) /\ d \in Nat
  BY SequenceIs DEF PartOk, DataAt
<1>2. /\ s[a] = Marker /\ s[a + 1] = LineEnd /\ s[d - 2] = LineEnd /\ s[d - 1] = LineEnd
      /\ \A x \in 1..k : s[a + 1 + x] = part.header[x]
      /\ \A y \in 1..l : s[d - 1 + y] = part.data[y]
  BY <1>1 DEF PartAt
<1>3. DataAt(part, o + a) = o + a + 4 + k
  BY DEF DataAt
<1> HIDE DEF k, l
<1>4. /\ a \in 1..Len(s) /\ a + 1 \in 1..Len(s) /\ d - 2 \in 1..Len(s) /\ d - 1 \in 1..Len(s)
      /\ o + (a + 1) = (o + a) + 1
  BY <1>1
<1>5. \A x \in 1..k : a + 1 + x \in 1..Len(s) /\ o + (a + 1 + x) = (o + a) + 1 + x
  BY <1>1
<1> DEFINE D == DataAt(part, o + a)
<1>6. D = o + d /\ o + (d - 2) = D - 2 /\ o + (d - 1) = D - 1
  BY <1>1, <1>3
<1>7. \A y \in 1..l : d - 1 + y \in 1..Len(s) /\ o + (d - 1 + y) = D - 1 + y
  BY <1>1, <1>6
<1> HIDE DEF d, D
<1>8. /\ r[o + a] = Marker /\ r[o + a + 1] = LineEnd /\ r[D - 2] = LineEnd /\ r[D - 1] = LineEnd
  BY <1>2, <1>4, <1>6, Zenon DEF Holds
<1>9. \A x \in 1..k : r[o + a + 1 + x] = part.header[x]
  BY <1>2, <1>5, Zenon DEF Holds
<1>10. \A y \in 1..l : r[D - 1 + y] = part.data[y]
  <2> SUFFICES ASSUME NEW y \in 1..l PROVE r[D - 1 + y] = part.data[y]
    OBVIOUS
  <2>1. r[o + (d - 1 + y)] = s[d - 1 + y]
    BY <1>7, Zenon DEF Holds
  <2>2. s[d - 1 + y] = part.data[y]
    BY <1>2, Zenon
  <2>3. o + (d - 1 + y) = D - 1 + y
    BY <1>7, Zenon
  <2> QED
    BY <2>1, <2>2, <2>3, Zenon
<1> QED
  BY <1>8, <1>9, <1>10, Zenon DEF PartAt, k, l, D

\* The parts stand in the response, one behind the other.
LEMMA RenderedStands ==
  ASSUME NEW parts \in PartLists PROVE \E p : Stand(parts, Rendered(parts), p)
<1> DEFINE n == Len(parts)
           pre(i) == IF i = 1 THEN <<>> ELSE <<LineEnd>>
           ss == [i \in DOMAIN parts |-> Sends(pre(i), parts[i])]
           r == Rendered(parts)
           last == <<LineEnd, Marker, Dashes>>
<1>1. Sequence(parts) /\ n \in Nat /\ DOMAIN parts = 1..n
  BY PartListsAssumption, SequenceIs DEF Sequence
<1>2. ASSUME NEW i \in 1..n PROVE PartOk(parts[i])
  <2>1. i \in DOMAIN parts
    BY <1>1
  <2>2. Sequence(parts[i].header) /\ Sequence(parts[i].data)
    BY <2>1, PartListsAssumption DEF Sequence
  <2>3. DOMAIN parts[i].header = 1..Len(parts[i].header)
    BY <2>2, SequenceIs
  <2> QED
    BY <2>1, <2>2, <2>3, PartListsAssumption DEF PartOk
<1>3. \A i \in 1..n : /\ Sequence(pre(i)) /\ Len(pre(i)) = (IF i = 1 THEN 0 ELSE 1)
                      /\ i # 1 => pre(i)[1] = LineEnd
  <2>1. Sequence(<<>>) /\ Len(<<>>) = 0 /\ Sequence(<<LineEnd>>) /\ Len(<<LineEnd>>) = 1 /\ <<LineEnd>>[1] = LineEnd
    BY DEF Sequence, Range
  <2>2. \A i : (i = 1 => pre(i) = <<>>) /\ (i # 1 => pre(i) = <<LineEnd>>)
    BY Zenon
  <2> HIDE DEF pre
  <2> SUFFICES ASSUME NEW i \in 1..n
               PROVE  /\ Sequence(pre(i)) /\ Len(pre(i)) = (IF i = 1 THEN 0 ELSE 1)
                      /\ i # 1 => pre(i)[1] = LineEnd
    OBVIOUS
  <2> QED
    BY <2>1, <2>2, Zenon
<1>4. r = FlattenSeq(ss) \o last
  BY Zenon DEF Rendered, Sends
<1>5. Sequence(last) /\ Len(last) = 3 /\ last[1] = LineEnd /\ last[2] = Marker /\ last[3] = Dashes
  BY DEF Sequence, Range
<1> HIDE DEF pre, last, r
<1>6. \A i \in 1..n : Sequence(ss[i]) /\ ss[i] = Sends(pre(i), parts[i])
  <2> SUFFICES ASSUME NEW i \in 1..n PROVE Sequence(ss[i]) /\ ss[i] = Sends(pre(i), parts[i])
    OBVIOUS
  <2>1. ss[i] = Sends(pre(i), parts[i])
    BY <1>1
  <2> HIDE DEF ss
  <2> QED
    <3>1. Sent(Sends(pre(i), parts[i]), pre(i), parts[i])
      BY <1>2, <1>3, PieceStands, Zenon
    <3> QED
      BY <2>1, <3>1, Zenon DEF Sent
<1>7. ss = [i \in DOMAIN parts |-> ss[i]]
  OBVIOUS
<1> HIDE DEF ss
<1>8. PICK f : Joining(ss, f) /\ FlattenSeq(ss) = f[n] /\ Sequence(ss) /\ Len(ss) = n
  BY <1>1, <1>6, <1>7, Encoded
<1>9. Places(ss, f)
  BY <1>6, <1>8, JoinedPlaces
<1>10. \A i \in 0..n : Sequence(f[i]) /\ Len(f[i]) \in Nat
  BY <1>8, SequenceIs DEF Joining
<1>11. f[0] = <<>> /\ Len(f[0]) = 0
  BY <1>8 DEF Joining
<1>12. /\ Sequence(r) /\ Len(r) = Len(f[n]) + 3
       /\ (\A x \in 1..Len(f[n]) : r[x] = f[n][x])
       /\ r[Len(f[n]) + 1] = LineEnd /\ r[Len(f[n]) + 2] = Marker /\ r[Len(f[n]) + 3] = Dashes
  <2>1. n \in 0..n
    BY <1>1
  <2>2. Behind(r, f[n], last) /\ Sequence(r)
    BY <1>4, <1>5, <1>8, <1>10, <2>1, BehindIs, Zenon
  <2>3. 1 \in 1..3 /\ 2 \in 1..3 /\ 3 \in 1..3
    OBVIOUS
  <2> QED
    BY <1>5, <2>2, <2>3 DEF Behind
<1>13. \A i \in 0..n : Len(f[i]) =< Len(f[n])
  BY <1>6, <1>8, JoinsGrow
<1> DEFINE at(i) == IF i = 1 /\ n # 0 THEN 1 ELSE 2
           p == [i \in 1..n+1 |-> Len(f[i - 1]) + at(i)]
<1>14. \A i \in 1..n+1 : p[i] = Len(f[i - 1]) + at(i) /\ i - 1 \in 0..n
  BY <1>1
<1> HIDE DEF p
<1>15. \A i \in 1..n+1 : p[i] \in Nat /\ p[i] >= 1 /\ p[i] < Len(r)
  <2> SUFFICES ASSUME NEW i \in 1..n+1 PROVE p[i] \in Nat /\ p[i] >= 1 /\ p[i] < Len(r)
    OBVIOUS
  <2>1. at(i) \in {1, 2}
    OBVIOUS
  <2> HIDE DEF at
  <2> DEFINE k == Len(f[i - 1])
             m == Len(f[n])
  <2>2. p[i] = k + at(i) /\ k \in Nat /\ k =< m /\ m \in Nat /\ Len(r) = m + 3
    <3>1. n \in 0..n
      BY <1>1
    <3>2. i - 1 \in 0..n /\ p[i] = k + at(i)
      BY <1>14
    <3>3. k \in Nat /\ k =< m /\ m \in Nat
      BY <1>10, <1>13, <3>1, <3>2, Zenon
    <3> QED
      BY <1>12, <3>2, <3>3, Zenon
  <2> HIDE DEF k, m, n
  <2> QED
    BY <2>1, <2>2
<1>16. p[1] = 1 \/ (p[1] = 2 /\ r[1] = LineEnd)
  <2>1. p[1] = at(1)
    <3>1. 1 \in 1..n+1 /\ 1 - 1 = 0
      BY <1>1
    <3>2. p[1] = Len(f[0]) + at(1)
      BY <1>14, <3>1
    <3> QED
      BY <1>11, <3>2
  <2>2. CASE n = 0
    BY <1>11, <1>12, <2>1, <2>2
  <2> QED
    BY <2>1, <2>2
<1>17. ASSUME NEW i \in 1..n
       PROVE  /\ PartAt(parts[i], r, p[i])
              /\ (i # 1 => r[p[i] - 1] = LineEnd) /\ r[p[i]] = Marker
              /\ DataAt(parts[i], p[i]) + Len(parts[i].data) = Len(f[i]) + 1
  <2> DEFINE o == Len(f[i - 1])
             s == ss[i]
             a == Len(pre(i)) + 1
  <2>1. PartOk(parts[i]) /\ Len(parts[i].header) \in Nat /\ Len(parts[i].data) \in Nat
    BY <1>2, SequenceIs DEF PartOk
  <2>2. Sent(s, pre(i), parts[i])
    BY <1>3, <1>6, <2>1, PieceStands, Zenon
  <2>10. Len(s) = Len(pre(i)) + 4 + Len(parts[i].header) + Len(parts[i].data) /\ PartAt(parts[i], s, a)
    BY <2>2, Zenon DEF Sent
  <2>11. \A x \in 1..Len(pre(i)) : s[x] = pre(i)[x]
    BY <2>2, Zenon DEF Sent
  <2> DEFINE hh == Len(parts[i].header)
             ll == Len(parts[i].data)
  <2>3. o \in Nat /\ a \in {1, 2} /\ p[i] = o + a /\ (i # 1 => a = 2) /\ i \in 0..n
    <3>1. i \in 0..n /\ i - 1 \in 0..n /\ i \in 1..n+1
      BY <1>1
    <3>2. p[i] = o + at(i) /\ o \in Nat
      BY <1>10, <1>14, <3>1
    <3>3. Len(pre(i)) = IF i = 1 THEN 0 ELSE 1
      BY <1>3
    <3>4. at(i) = IF i = 1 THEN 1 ELSE 2
      BY <1>1
    <3> HIDE DEF at, o
    <3> QED
      BY <3>1, <3>2, <3>3, <3>4
  <2>4. Holds(r, o, s)
    <3> SUFFICES ASSUME NEW y \in 1..Len(s) PROVE r[o + y] = s[y]
      BY DEF Holds
    <3>1. o + y \in 1..Len(f[n]) /\ f[n][o + y] = s[y]
      BY <1>8, <1>9, Zenon DEF Places
    <3> QED
      BY <1>12, <3>1, Zenon
  <2>5. Len(f[i]) = o + Len(s)
    BY <1>8, <1>9 DEF Places
  <2> HIDE DEF o, s
  <2>6. Len(s) = DataAt(parts[i], a) - 1 + Len(parts[i].data)
    <3>1. DataAt(parts[i], a) = a + 4 + hh
      BY DEF DataAt
    <3>2. Len(s) = Len(pre(i)) + 4 + hh + ll /\ Len(pre(i)) = (IF i = 1 THEN 0 ELSE 1) /\ hh \in Nat /\ ll \in Nat
      BY <1>3, <2>1, <2>10
    <3> HIDE DEF hh, ll
    <3>3. Len(s) = DataAt(parts[i], a) - 1 + ll
      BY <3>1, <3>2
    <3> QED
      BY <3>3 DEF ll
  <2>7. i # 1 => r[p[i] - 1] = LineEnd
    <3> SUFFICES ASSUME i # 1 PROVE r[p[i] - 1] = LineEnd
      OBVIOUS
    <3>1. Len(pre(i)) = 1 /\ pre(i)[1] = LineEnd
      BY <1>3
    <3>2. Len(s) >= 1 /\ Len(s) \in Nat
      <4>1. Len(s) = 1 + 4 + hh + ll /\ hh \in Nat /\ ll \in Nat
        BY <2>1, <2>10, <3>1
      <4> HIDE DEF hh, ll
      <4> QED
        BY <4>1
    <3>3. 1 \in 1..Len(s) /\ 1 \in 1..Len(pre(i))
      BY <3>1, <3>2
    <3>4. p[i] - 1 = o + 1
      BY <2>3
    <3> QED
      BY <2>11, <2>4, <3>1, <3>3, <3>4, Zenon DEF Holds
  <2> HIDE DEF a
  <2>8. PartAt(parts[i], r, o + a)
    <3>1. a \in Nat /\ a >= 1
      BY <2>3
    <3> QED
      BY <2>1, <2>10, <2>3, <2>4, <2>6, <3>1, PartMoves, Zenon
  <2>9. DataAt(parts[i], p[i]) + Len(parts[i].data) = Len(f[i]) + 1
    <3>1. DataAt(parts[i], a) = a + 4 + hh /\ DataAt(parts[i], p[i]) = p[i] + 4 + hh
      BY DEF DataAt
    <3>2. Len(s) = DataAt(parts[i], a) - 1 + ll /\ hh \in Nat /\ ll \in Nat
      BY <2>1, <2>6
    <3>3. p[i] = o + a /\ o \in Nat /\ a \in Nat
      BY <2>3
    <3> HIDE DEF hh, ll
    <3>4. DataAt(parts[i], p[i]) + ll = Len(f[i]) + 1
      BY <2>5, <3>1, <3>2, <3>3
    <3> QED
      BY <3>4 DEF ll
  <2> QED
    BY <2>3, <2>7, <2>8, <2>9 DEF PartAt
<1>18. ASSUME NEW i \in 1..n
       PROVE  /\ r[p[i + 1] - 1] = LineEnd /\ r[p[i + 1]] = Marker
              /\ p[i + 1] - 1 = DataAt(parts[i], p[i]) + Len(parts[i].data)
  <2>1. p[i + 1] - 1 = Len(f[i]) + 1 /\ Len(f[i]) \in Nat /\ p[i + 1] = Len(f[i]) + 2
    <3>1. i + 1 \in 1..n+1 /\ i \in 0..n /\ (i + 1) - 1 = i /\ at(i + 1) = 2
      BY <1>1
    <3>2. p[i + 1] = Len(f[i]) + 2 /\ Len(f[i]) \in Nat
      BY <1>10, <1>14, <3>1, Zenon
    <3> QED
      BY <3>2
  <2>2. CASE i = n
    BY <1>12, <1>17, <2>1, <2>2
  <2>3. CASE i + 1 \in 1..n
    <3>1. i + 1 # 1
      OBVIOUS
    <3> QED
      BY <1>17, <2>1, <2>3, <3>1
  <2>4. i = n \/ i + 1 \in 1..n
    <3> HIDE DEF n
    <3> QED
      BY <1>1
  <2> QED
    BY <2>2, <2>3, <2>4
<1>19. Len(r) = p[n + 1] + 1 /\ r[p[n + 1]] = Marker /\ r[Len(r)] = Dashes
  <2>1. n + 1 \in 1..n+1 /\ (n + 1) - 1 = n /\ at(n + 1) = 2 /\ n \in 0..n
    BY <1>1
  <2>2. p[n + 1] = Len(f[n]) + 2 /\ Len(f[n]) \in Nat
    BY <1>10, <1>14, <2>1
  <2> QED
    BY <1>12, <2>2
<1>20. Stand(parts, r, p)
  BY <1>1, <1>2, <1>12, <1>15, <1>16, <1>17, <1>18, <1>19, Zenon DEF Stand, n
<1> QED
  BY <1>20 DEF r

-----------------------------------------------------------------------------
\* What a search in the body finds, for one token and for two.
FirstAt(q, p, last, T) ==
  \/ q = 0 /\ \A i \in p..last : i \notin T
  \/ q \in p..last /\ q \in T /\ \A i \in p..q - 1 : i \notin T

LEMMA FirstOf ==
  ASSUME NEW p \in Nat, NEW last \in Int, NEW T, NEW at, at = {i \in p..last : i \in T},
         NEW q, q = IF at = {} THEN 0 ELSE Min(at)
  PROVE  FirstAt(q, p, last, T)
<1>1. CASE at = {}
  BY <1>1 DEF FirstAt
<1>2. CASE at # {}
  <2>1. at \in SUBSET Nat
    OBVIOUS
  <2>2. q \in at /\ \A y \in at : q =< y
    BY <1>2, <2>1, MinIs
  <2>3. \A i \in p..q - 1 : i \notin at /\ i \in p..last
    BY <2>2
  <2>4. q \in p..last /\ q \in T
    BY <2>2
  <2>5. \A i \in p..q - 1 : i \notin T
    BY <2>3
  <2> QED
    BY <2>4, <2>5 DEF FirstAt
<1> QED
  BY <1>1, <1>2

Ones(c) == {i \in 1..Len(body) : body[i] = c}
Twos(c, e) == {i \in 1..Len(body) - 1 : body[i] = c /\ body[i + 1] = e}

LEMMA OneFound ==
  ASSUME Sequence(body), NEW p \in Nat, p >= 1, NEW c
  PROVE  FirstAt(FindFrom(<<c>>, p), p, Len(body), Ones(c))
<1> DEFINE at == {i \in p..(Len(body) - Len(<<c>>) + 1) : SubSeq(body, i, i + Len(<<c>>) - 1) = <<c>>}
           q == FindFrom(<<c>>, p)
<1>1. q = IF at = {} THEN 0 ELSE Min(at)
  BY Zenon DEF FindFrom
<1>2. Len(body) \in Nat /\ Len(<<c>>) = 1 /\ Sequence(<<c>>) /\ <<c>>[1] = c
  BY SequenceIs DEF Sequence, Range
<1>3. ASSUME NEW i \in p..Len(body) PROVE SubSeq(body, i, i + 1 - 1) = <<c>> <=> i \in Ones(c)
  <2> DEFINE s == SubSeq(body, i, i)
  <2>1. i \in Nat /\ i >= 1 /\ i =< Len(body) /\ i + 1 - 1 = i /\ i \in 1..Len(body)
    BY <1>2
  <2>2. Sequence(s) /\ Len(s) = 1 /\ s[1] = body[i]
    <3>1. /\ Sequence(s) /\ Len(s) = (IF i =< i THEN i - i + 1 ELSE 0)
          /\ \A x \in 1..i-i+1 : s[x] = body[i + x - 1]
      BY <2>1, PartIs
    <3>2. 1 \in 1..i-i+1 /\ i + 1 - 1 = i /\ i - i + 1 = 1
      BY <2>1
    <3> HIDE DEF s
    <3> QED
      BY <2>1, <3>1, <3>2
  <2> HIDE DEF s
  <2>3. s = <<c>> <=> s[1] = c
    <3>1. s = <<c>> => s[1] = c
      BY <1>2
    <3>2. ASSUME s[1] = c PROVE s = <<c>>
      <4> DEFINE one == <<c>>
      <4>1. Sequence(one) /\ Len(one) = 1 /\ one[1] = c
        BY <1>2
      <4> HIDE DEF one
      <4>2. \A x \in 1..Len(s) : s[x] = one[x]
        BY <2>2, <3>2, <4>1
      <4>3. s = one
        BY <2>2, <4>1, <4>2, SameText, Zenon
      <4> QED
        BY <4>3 DEF one
    <3> QED
      BY <3>1, <3>2
  <2> QED
    BY <2>1, <2>2, <2>3 DEF s, Ones
<1>4. at = {i \in p..Len(body) : i \in Ones(c)}
  <2>1. Len(body) - 1 + 1 = Len(body)
    BY <1>2
  <2>2. at = {i \in p..Len(body) : SubSeq(body, i, i + 1 - 1) = <<c>>}
    BY <1>2, <2>1
  <2> HIDE DEF at
  <2> QED
    BY <1>3, <2>2
<1> HIDE DEF at, q
<1> DEFINE last == Len(body)
           T == Ones(c)
<1>5. last \in Int /\ at = {i \in p..last : i \in T}
  BY <1>2, <1>4
<1> HIDE DEF last, T
<1>6. FirstAt(q, p, last, T)
  BY <1>1, <1>5, FirstOf, Zenon
<1> QED
  BY <1>6 DEF q, last, T

LEMMA TwoFound ==
  ASSUME Sequence(body), NEW p \in Nat, p >= 1, NEW c, NEW e
  PROVE  FirstAt(FindFrom(<<c, e>>, p), p, Len(body) - 1, Twos(c, e))
<1> DEFINE two == <<c, e>>
           at == {i \in p..(Len(body) - Len(two) + 1) : SubSeq(body, i, i + Len(two) - 1) = two}
           q == FindFrom(two, p)
<1>1. q = IF at = {} THEN 0 ELSE Min(at)
  BY Zenon DEF FindFrom
<1>2. Len(body) \in Nat /\ Len(two) = 2 /\ Sequence(two) /\ two[1] = c /\ two[2] = e
  BY SequenceIs, PairIs
<1> HIDE DEF two
<1>3. ASSUME NEW i \in p..Len(body)-1 PROVE SubSeq(body, i, i + 2 - 1) = two <=> i \in Twos(c, e)
  <2> DEFINE s == SubSeq(body, i, i + 1)
  <2>1. /\ i \in Nat /\ i >= 1 /\ i + 1 =< Len(body) /\ i + 2 - 1 = i + 1 /\ i \in 1..Len(body) - 1
        /\ i + 1 \in Nat
    BY <1>2
  <2>2. Sequence(s) /\ Len(s) = 2 /\ s[1] = body[i] /\ s[2] = body[i + 1]
    <3>1. /\ Sequence(s) /\ Len(s) = (IF i =< i + 1 THEN (i + 1) - i + 1 ELSE 0)
          /\ \A x \in 1..(i+1)-i+1 : s[x] = body[i + x - 1]
      BY <2>1, PartIs
    <3>2. 1 \in 1..(i+1)-i+1 /\ 2 \in 1..(i+1)-i+1 /\ i + 1 - 1 = i /\ i + 2 - 1 = i + 1 /\ (i+1)-i+1 = 2 /\ i =< i + 1
      BY <2>1
    <3> HIDE DEF s
    <3> QED
      BY <2>1, <3>1, <3>2
  <2> HIDE DEF s
  <2>3. s = two <=> s[1] = c /\ s[2] = e
    <3>1. s = two => s[1] = c /\ s[2] = e
      BY <1>2
    <3>2. ASSUME s[1] = c, s[2] = e PROVE s = two
      <4>1. \A x \in 1..Len(s) : s[x] = two[x]
        BY <1>2, <2>2, <3>2
      <4> QED
        BY <1>2, <2>2, <4>1, SameText, Zenon
    <3> QED
      BY <3>1, <3>2
  <2>4. s = SubSeq(body, i, i + 2 - 1)
    BY <2>1 DEF s
  <2> QED
    BY <2>1, <2>2, <2>3, <2>4 DEF Twos
<1>4. at = {i \in p..Len(body)-1 : i \in Twos(c, e)}
  <2>1. Len(body) - 2 + 1 = Len(body) - 1
    BY <1>2
  <2>2. at = {i \in p..Len(body)-1 : SubSeq(body, i, i + 2 - 1) = two}
    BY <1>2, <2>1
  <2> HIDE DEF at
  <2> QED
    BY <1>3, <2>2
<1> HIDE DEF at, q
<1> DEFINE last == Len(body) - 1
           T == Twos(c, e)
<1>5. last \in Int /\ at = {i \in p..last : i \in T}
  BY <1>2, <1>4
<1> HIDE DEF last, T
<1>6. FirstAt(q, p, last, T)
  BY <1>1, <1>5, FirstOf, Zenon
<1> QED
  BY <1>6 DEF q, two, last, T

-----------------------------------------------------------------------------
\* The parts have places, and what has arrived is a beginning of the response.
PlaceOf(parts) == CHOOSE p : Stand(parts, Rendered(parts), p)
At(i) == PlaceOf(sent)[i]
Response == Rendered(sent)
ResponseOk == sent \in PartLists /\ Len(body) \in 0..Len(Response) /\ body = SubSeq(Response, 1, Len(body))
IsCut == Len(body) < Len(Response)

LEMMA SentStands ==
  ASSUME sent \in PartLists PROVE Stand(sent, Response, PlaceOf(sent))
BY RenderedStands, Zenon DEF PlaceOf, Response

\* What stands at the places, in one fact for each part.
PartStands(i) ==
  LET part == sent[i]
      d == DataAt(part, At(i))
      e == d + Len(part.data)
  IN /\ PartOk(part) /\ PartAt(part, Response, At(i))
     /\ At(i) \in Nat /\ At(i) >= 1 /\ At(i + 1) = e + 1 /\ e + 1 < Len(Response)
     /\ d = At(i) + 4 + Len(part.header) /\ Len(part.header) \in Nat /\ Len(part.data) \in Nat
     /\ Response[e] = LineEnd /\ Response[e + 1] = Marker

LEMMA SumIsNat == ASSUME NEW a \in Nat, NEW b \in Nat PROVE a + 4 + b \in Nat
OBVIOUS

LEMMA PartsStand ==
  ASSUME sent \in PartLists, NEW i \in 1..Len(sent) PROVE PartStands(i)
<1> DEFINE p == PlaceOf(sent)
           r == Response
           d == DataAt(sent[i], p[i])
           l == Len(sent[i].data)
<1>1. Stand(sent, r, p) /\ Len(sent) \in Nat
  BY SentStands DEF Stand
<1>2. i \in 1..Len(sent) + 1 /\ i + 1 \in 1..Len(sent) + 1
  BY <1>1
<1> HIDE DEF p, r
<1>3. /\ PartOk(sent[i]) /\ PartAt(sent[i], r, p[i])
      /\ r[p[i + 1] - 1] = LineEnd /\ r[p[i + 1]] = Marker
  BY <1>1, Zenon DEF Stand
<1>8. p[i + 1] - 1 = d + l
  BY <1>1, Zenon DEF Stand
<1>4. p[i] \in Nat /\ p[i] >= 1 /\ p[i + 1] \in Nat /\ p[i + 1] < Len(r)
  BY <1>1, <1>2, Zenon DEF Stand
<1>5. d = p[i] + 4 + Len(sent[i].header) /\ Len(sent[i].header) \in Nat /\ l \in Nat
  BY <1>3, SequenceIs DEF DataAt, PartOk
<1> HIDE DEF d, l
<1> DEFINE e == p[i + 1]
<1>7. e - 1 = d + l /\ e \in Nat /\ p[i] \in Nat /\ l \in Nat /\ d \in Nat
  <2>1. e \in Nat /\ p[i] \in Nat /\ l \in Nat
    BY <1>4, <1>5, Zenon
  <2>2. d \in Nat
    BY <1>5, <2>1, SumIsNat, Zenon
  <2> QED
    BY <1>8, <2>1, <2>2, Zenon
<1> HIDE DEF e
<1>6. e = d + l + 1 /\ e - 1 = d + l
  BY <1>7
<1>9. r[d + l] = LineEnd /\ r[d + l + 1] = Marker
  BY <1>3, <1>6, Zenon DEF e
<1> QED
  BY <1>3, <1>4, <1>5, <1>6, <1>9, Zenon DEF PartStands, At, p, r, d, l, e

LEMMA BodyIs ==
  ASSUME ResponseOk
  PROVE  /\ Sequence(body) /\ Len(body) \in Nat /\ Len(Response) \in Nat /\ Len(body) =< Len(Response)
         /\ \A i \in 1..Len(body) : body[i] = Response[i]
         /\ body = Response => ~IsCut
<1>1. Sequence(Response) /\ Len(Response) \in Nat
  BY SentStands, SequenceIs DEF ResponseOk, Stand
<1> DEFINE n == Len(body)
<1>2. n \in Nat /\ n =< Len(Response) /\ body = SubSeq(Response, 1, n)
  BY <1>1 DEF ResponseOk
<1> HIDE DEF n
<1>3. /\ Sequence(SubSeq(Response, 1, n))
      /\ \A x \in 1..n-1+1 : SubSeq(Response, 1, n)[x] = Response[1 + x - 1]
  BY <1>1, <1>2, PartIs
<1>4. n - 1 + 1 = n /\ \A x \in 1..n : 1 + x - 1 = x
  BY <1>2
<1>5. \A x \in 1..n : body[x] = Response[x]
  BY <1>2, <1>3, <1>4
<1>6. body = Response => ~IsCut
  BY <1>1 DEF IsCut
<1> QED
  BY <1>1, <1>2, <1>3, <1>5, <1>6 DEF n

\* Where the scan is: before the marker of part i, or at the end of a body
\* that was cut.
Before(i) == pos \in Nat /\ pos >= 1 /\ pos \in {At(i), At(i) - 1}
AtEnd == IsCut /\ pos = Len(body) + 1

LEMMA MarkerStands ==
  ASSUME ResponseOk, NEW i \in 1..Len(sent) + 1
  PROVE  /\ At(i) \in Nat /\ At(i) >= 1 /\ At(i) < Len(Response)
         /\ At(i) >= 2 => Response[At(i) - 1] = LineEnd
         /\ Response[At(i)] = Marker
         /\ Response[At(i) + 1] = IF i = Len(sent) + 1 THEN Dashes ELSE LineEnd
<1> DEFINE p == PlaceOf(sent)
           r == Response
           n == Len(sent)
<1>1. Stand(sent, r, p) /\ n \in Nat
  BY SentStands DEF Stand, ResponseOk
<1> HIDE DEF p, r
<1>2. At(i) = p[i]
  BY DEF At, p
<1>3. p[i] \in Nat /\ p[i] >= 1 /\ p[i] < Len(r)
  BY <1>1, Zenon DEF Stand, n
<1>4. p[i] >= 2 => r[p[i] - 1] = LineEnd
  <2>1. CASE i = 1
    <3>1. p[1] = 1 \/ (p[1] = 2 /\ r[1] = LineEnd)
      BY <1>1, Zenon DEF Stand
    <3> HIDE DEF n
    <3> QED
      BY <2>1, <3>1
  <2>2. CASE i # 1
    <3>1. i - 1 \in 1..n /\ (i - 1) + 1 = i
      BY <1>1, <2>2
    <3>2. r[p[(i - 1) + 1] - 1] = LineEnd
      BY <1>1, <3>1, Zenon DEF Stand
    <3> QED
      BY <3>1, <3>2
  <2> QED
    BY <2>1, <2>2
<1>5. r[p[i]] = Marker /\ r[p[i] + 1] = IF i = n + 1 THEN Dashes ELSE LineEnd
  <2>1. CASE i = n + 1
    <3>1. r[p[n + 1]] = Marker /\ r[Len(r)] = Dashes /\ Len(r) = p[n + 1] + 1
      BY <1>1, Zenon DEF Stand
    <3> QED
      BY <2>1, <3>1
  <2>2. CASE i \in 1..n /\ i # n + 1
    <3>1. PartAt(sent[i], r, p[i])
      BY <1>1, <2>2, Zenon DEF Stand
    <3> QED
      BY <2>2, <3>1 DEF PartAt
  <2>3. i = n + 1 \/ (i \in 1..n /\ i # n + 1)
    BY <1>1
  <2> QED
    BY <2>1, <2>2, <2>3
<1> QED
  BY <1>2, <1>3, <1>4, <1>5 DEF r, n

\* The scan finds the marker of the next part, unless it was cut off.
MarkerFrom(p) == FindFrom(<<Marker>>, p)
LEMMA ScanFinds ==
  ASSUME ResponseOk, NEW i \in 1..Len(sent) + 1, Before(i) \/ AtEnd, NEW q, q = MarkerFrom(pos)
  PROVE  \/ q = 0 /\ IsCut
         \/ q = At(i) /\ q =< Len(body) /\ Before(i)
<1> DEFINE n == Len(body)
           T == Ones(Marker)
<1>1. /\ Sequence(body) /\ n \in Nat /\ Len(Response) \in Nat /\ n =< Len(Response)
      /\ \A j \in 1..n : body[j] = Response[j]
  BY BodyIs
<1>2. /\ At(i) \in Nat /\ At(i) >= 1 /\ At(i) < Len(Response)
      /\ At(i) >= 2 => Response[At(i) - 1] = LineEnd
      /\ Response[At(i)] = Marker
  BY MarkerStands
<1>3. pos \in Nat /\ pos >= 1
  BY <1>1 DEF Before, AtEnd
<1>4. FirstAt(q, pos, n, T)
  BY <1>1, <1>3, OneFound, Zenon DEF MarkerFrom
<1>5. \A j \in 1..n : j \in T <=> Response[j] = Marker
  BY <1>1 DEF Ones
<1> HIDE DEF n, T
<1>6. CASE AtEnd
  BY <1>1, <1>4, <1>6 DEF AtEnd, FirstAt, n
<1>7. CASE Before(i)
  <2>1. \A j \in pos..n : j < At(i) => j \notin T
    <3> SUFFICES ASSUME NEW j \in pos..n, j < At(i) PROVE j \notin T
      OBVIOUS
    <3>1. j = At(i) - 1 /\ At(i) >= 2 /\ j \in 1..n
      BY <1>2, <1>3, <1>7 DEF Before
    <3>2. LineEnd # Marker
      BY DEF LineEnd, Marker
    <3> QED
      BY <1>2, <1>5, <3>1, <3>2
  <2>2. CASE At(i) =< n
    <3>1. At(i) \in T /\ At(i) \in pos..n
      BY <1>2, <1>5, <1>7, <2>2, <1>1 DEF Before
    <3>2. q = At(i)
      BY <1>1, <1>2, <1>3, <1>4, <2>1, <3>1 DEF FirstAt
    <3> QED
      BY <1>7, <2>2, <3>2 DEF n
  <2>3. CASE ~(At(i) =< n)
    <3>1. q = 0
      BY <1>1, <1>2, <1>3, <1>4, <2>1, <2>3 DEF FirstAt
    <3>2. IsCut
      BY <1>1, <1>2, <2>3 DEF IsCut, n
    <3> QED
      BY <3>1, <3>2
  <2> QED
    BY <2>2, <2>3
<1> QED
  BY <1>6, <1>7

\* A search that starts before the only place that fits finds that place.
Only(T, n, from, place) ==
  /\ \A j \in 1..n - 1 : j >= from /\ j < place => j \notin T
  /\ place \in 1..n - 1 => place \in T
CutOut(p, s, i, j) ==
  /\ Sequence(p) /\ Len(p) = IF i =< j THEN j - i + 1 ELSE 0
  /\ \A x \in 1..j-i+1 : p[x] = s[i + x - 1]
LEMMA CutOutIs ==
  ASSUME NEW s, Sequence(s), NEW i \in Nat, i >= 1, NEW j \in Nat, j =< Len(s)
  PROVE  CutOut(SubSeq(s, i, j), s, i, j)
BY PartIs DEF CutOut

LEMMA FirstIsPlace ==
  ASSUME NEW n \in Nat, NEW from \in Nat, from >= 1, NEW place \in Nat, from =< place,
         NEW q, NEW T, FirstAt(q, from, n - 1, T), Only(T, n, from, place)
  PROVE  (q = 0 /\ n =< place) \/ (q = place /\ q =< n - 1)
<1>1. CASE q = 0 /\ \A j \in from..n - 1 : j \notin T
  <2>1. ASSUME place =< n - 1 PROVE FALSE
    <3>1. place \in from..n - 1 /\ place \in 1..n - 1
      BY <2>1
    <3> QED
      BY <1>1, <3>1 DEF Only
  <2> QED
    BY <1>1, <2>1
<1>2. CASE q \in from..n - 1 /\ q \in T /\ \A j \in from..q - 1 : j \notin T
  <2>1. q \in 1..n - 1 /\ q >= from /\ q \in Nat
    BY <1>2
  <2>2. ~(q < place)
    BY <1>2, <2>1 DEF Only
  <2>3. ASSUME q > place PROVE FALSE
    <3>1. place \in from..q - 1 /\ place \in 1..n - 1
      BY <2>1, <2>3
    <3> QED
      BY <1>2, <3>1 DEF Only
  <2> QED
    BY <2>1, <2>2, <2>3
<1> QED
  BY <1>1, <1>2 DEF FirstAt

\* Behind its marker the header of a part is found, unless it was cut off.
EmptyLineFrom(p) == FindFrom(<<LineEnd, LineEnd>>, p)
BehindMarker(a) == IF a + 1 <= Len(body) /\ body[a + 1] = LineEnd THEN a + 2 ELSE a + 1
LEMMA HeaderSums ==
  ASSUME NEW a \in Nat, NEW k \in Nat PROVE (a + 4 + k) - 2 = a + 2 + k /\ (a + 4 + k) - 1 = a + 3 + k
OBVIOUS
LEMMA HeaderFinds ==
  ASSUME ResponseOk, NEW i \in 1..Len(sent), At(i) =< Len(body),
         NEW cur, cur = BehindMarker(At(i)), NEW q, q = EmptyLineFrom(cur)
  PROVE  \/ q = 0
         \/ /\ cur = At(i) + 2 /\ q = DataAt(sent[i], At(i)) - 2 /\ q + 1 =< Len(body)
            /\ SubSeq(body, cur, q - 1) = sent[i].header
<1> DEFINE n == Len(body)
           a == At(i)
           head == sent[i].header
           k == Len(head)
           T == Twos(LineEnd, LineEnd)
           r == Response
<1>1. /\ Sequence(body) /\ n \in Nat /\ Len(r) \in Nat /\ n =< Len(r)
      /\ \A j \in 1..n : body[j] = r[j]
  BY BodyIs
<1>2. PartStands(i)
  BY PartsStand DEF ResponseOk
<1>3. /\ a \in Nat /\ a >= 1 /\ k \in Nat /\ DataAt(sent[i], a) = a + 4 + k /\ Sequence(head)
      /\ r[a + 1] = LineEnd
  BY <1>2 DEF PartStands, PartAt, PartOk
<1>4. \A x \in 1..k : r[a + 1 + x] = head[x]
  BY <1>2 DEF PartStands, PartAt
<1>5. r[a + 2 + k] = LineEnd /\ r[a + 3 + k] = LineEnd
  <2>1. r[DataAt(sent[i], a) - 2] = LineEnd /\ r[DataAt(sent[i], a) - 1] = LineEnd
    BY <1>2 DEF PartStands, PartAt
  <2>2. DataAt(sent[i], a) - 2 = a + 2 + k /\ DataAt(sent[i], a) - 1 = a + 3 + k
    BY <1>3, HeaderSums, Zenon
  <2> QED
    BY <2>1, <2>2
<1>6. \A x \in 1..k : head[x] = LineEnd => x # k /\ head[x + 1] # LineEnd
  BY <1>2 DEF PartStands, PartOk
<1>7. \A j \in 1..n - 1 : j \in T <=> r[j] = LineEnd /\ r[j + 1] = LineEnd
  <2> SUFFICES ASSUME NEW j \in 1..n - 1 PROVE j \in T <=> r[j] = LineEnd /\ r[j + 1] = LineEnd
    OBVIOUS
  <2>1. j \in 1..n /\ j + 1 \in 1..n
    BY <1>1
  <2> QED
    BY <1>1, <2>1 DEF Twos
<1> HIDE DEF n, a, T, r
<1> HIDE DEF head, k
<1>8. n \in Nat /\ a \in Nat /\ a >= 1 /\ k \in Nat
  BY <1>1, <1>3
<1>9. /\ (a + 1 =< n => cur = a + 2) /\ (~(a + 1 =< n) => cur = a + 1)
  <2>1. a + 1 =< n => a + 1 \in 1..n
    BY <1>8
  <2>2. a + 1 =< n => body[a + 1] = LineEnd
    BY <1>1, <1>3, <2>1
  <2>3. cur = IF a + 1 <= n /\ body[a + 1] = LineEnd THEN a + 2 ELSE a + 1
    BY DEF a, n, BehindMarker
  <2> QED
    BY <2>2, <2>3
<1>10. cur \in Nat /\ cur >= 1 /\ FirstAt(q, cur, n - 1, T)
  <2>1. cur \in Nat /\ cur >= 1
    BY <1>8, <1>9
  <2> QED
    BY <1>1, <2>1, TwoFound, Zenon DEF n, T, EmptyLineFrom
<1>11. CASE ~(a + 1 =< n)
  <2>1. q = 0 \/ q \in cur..n - 1
    BY <1>10 DEF FirstAt
  <2> QED
    BY <1>8, <1>9, <1>11, <2>1
<1>12. CASE a + 1 =< n
  <2>2. cur = a + 2
    BY <1>9, <1>12
  <2>3. \A j \in 1..n - 1 : j >= a + 2 /\ j < a + 2 + k => j \notin T
    <3> SUFFICES ASSUME NEW j \in 1..n - 1, j >= a + 2, j < a + 2 + k, j \in T PROVE FALSE
      OBVIOUS
    <3> DEFINE x == j - (a + 1)
    <3>1. x \in 1..k /\ a + 1 + x = j /\ (x # k => x + 1 \in 1..k /\ a + 1 + (x + 1) = j + 1)
      BY <1>8
    <3>2. r[j] = LineEnd /\ r[j + 1] = LineEnd
      BY <1>7
    <3> HIDE DEF x
    <3>3. head[x] = LineEnd
      BY <1>4, <3>1, <3>2
    <3>4. x # k /\ head[x + 1] # LineEnd
      BY <1>6, <3>1, <3>3
    <3> QED
      BY <1>4, <3>1, <3>2, <3>4
  <2>4. a + 2 + k \in 1..n - 1 => a + 2 + k \in T
    <3>1. a + 2 + k + 1 = a + 3 + k
      BY <1>8
    <3> QED
      BY <1>5, <1>7, <3>1
  <2>5. q = 0 \/ (q = a + 2 + k /\ q =< n - 1)
    <3> DEFINE place == a + 2 + k
    <3>1. place \in Nat /\ cur =< place
      BY <1>8, <2>2
    <3>3. Only(T, n, cur, place)
      BY <2>2, <2>3, <2>4 DEF Only
    <3> HIDE DEF place
    <3>4. (q = 0 /\ n =< place) \/ (q = place /\ q =< n - 1)
      BY <1>8, <1>10, <3>1, <3>3, FirstIsPlace, Zenon
    <3> QED
      BY <3>4 DEF place
  <2>6. ASSUME q = a + 2 + k, q =< n - 1 PROVE SubSeq(body, cur, q - 1) = head
    <3> DEFINE s == SubSeq(body, a + 2, a + 1 + k)
               m == (a + 1 + k)-(a + 2)+1
    <3>1. a + 2 \in Nat /\ a + 2 >= 1 /\ a + 1 + k \in Nat /\ a + 1 + k =< n /\ q - 1 = a + 1 + k
      BY <1>8, <2>6
    <3>7. CutOut(s, body, a + 2, a + 1 + k)
      BY <1>1, <3>1, CutOutIs, Zenon DEF n
    <3>3. m = k /\ (IF a + 2 =< a + 1 + k THEN m ELSE 0) = k
      BY <1>8
    <3>4. \A x \in 1..k : (a + 2) + x - 1 = a + 1 + x /\ a + 1 + x \in 1..n
      BY <1>8, <3>1
    <3>2. /\ Sequence(s) /\ Len(s) = (IF a + 2 =< a + 1 + k THEN m ELSE 0)
          /\ \A x \in 1..m : s[x] = body[(a + 2) + x - 1]
      BY <3>7, Zenon DEF CutOut
    <3> HIDE DEF s, m
    <3>5. \A x \in 1..k : s[x] = head[x]
      <4> SUFFICES ASSUME NEW x \in 1..k PROVE s[x] = head[x]
        OBVIOUS
      <4>1. s[x] = body[(a + 2) + x - 1] /\ (a + 2) + x - 1 = a + 1 + x /\ a + 1 + x \in 1..n
        BY <3>2, <3>3, <3>4
      <4>2. s[x] = r[a + 1 + x]
        BY <1>1, <4>1, Zenon
      <4> QED
        BY <1>4, <4>2, Zenon
    <3>6. s = head
      <4>1. Len(s) = k /\ Sequence(s) /\ Sequence(head) /\ Len(head) = k
        BY <1>3, <3>2, <3>3 DEF k
      <4> QED
        BY <3>5, <4>1, SameText, Zenon
    <3> QED
      BY <2>2, <3>1, <3>6 DEF s
  <2>7. ASSUME q = a + 2 + k, q =< n - 1
        PROVE  cur = At(i) + 2 /\ q = DataAt(sent[i], At(i)) - 2 /\ q + 1 =< Len(body)
    <3>1. q + 1 =< n /\ q = (a + 4 + k) - 2
      BY <1>8, <2>7
    <3> QED
      BY <1>3, <2>2, <3>1 DEF a, n
  <2> QED
    BY <2>5, <2>6, <2>7, Zenon DEF head
<1> QED
  BY <1>11, <1>12

\* What a part holds: all its data, or what arrived of them before the cut.
Begins(c, i) == IsPrefix(c, sent[i].data \o <<LineEnd>>)

NextFrom(d) ==
  LET q == FindFrom(<<LineEnd, Marker>>, d) IN IF q = 0 THEN Len(body) + 1 ELSE q
Stays(x, d, n) == x \in Nat /\ x >= d /\ x - 1 \in Nat /\ x - 1 =< n
LEMMA DataSums ==
  ASSUME NEW d \in Nat, d >= 5, NEW l \in Nat, NEW n \in Nat, d - 1 =< n
  PROVE  (d + l =< n - 1 => Stays(d + l, d, n)) /\ Stays(n + 1, d, n)
BY DEF Stays
IndexOf(y, j, d, l) ==
  /\ y \in 1..l /\ d - 1 + y = j /\ (y # l => y \in 1..l - 1 /\ y + 1 \in 1..l /\ d - 1 + (y + 1) = j + 1)
  /\ (y = l => j + 1 = d + l)
LEMMA IndexSums ==
  ASSUME NEW d \in Nat, NEW l \in Nat, NEW j \in Nat, j >= d, j < d + l
  PROVE  IndexOf(j - (d - 1), j, d, l)
BY DEF IndexOf
InCut(d, n, next) == \A y \in 1..next - d : d + y - 1 = d - 1 + y /\ d + y - 1 \in 1..n
LEMMA CutSums ==
  ASSUME NEW d \in Nat, d >= 5, NEW n \in Nat, NEW next \in Nat, next >= d, next - 1 =< n
  PROVE  InCut(d, n, next)
BY DEF InCut
LEMMA WholeSums ==
  ASSUME NEW d \in Nat, d >= 5, NEW l \in Nat
  PROVE  (d + l) - d = l /\ (d + l + 1) - 1 = d + l /\ d + l >= 1
OBVIOUS
LEMMA LeftOver ==
  ASSUME NEW d \in Nat, NEW l \in Nat, NEW n \in Nat, n =< d + l, n + 1 >= d
  PROVE  (n + 1) - d \in Nat /\ (n + 1) - d =< l + 1
OBVIOUS
LEMMA DataFinds ==
  ASSUME ResponseOk, NEW i \in 1..Len(sent), NEW d, d = DataAt(sent[i], At(i)), d - 1 =< Len(body),
         NEW next, next = NextFrom(d)
  PROVE  \/ next = At(i + 1) - 1 /\ next \in Nat /\ next >= 1 /\ SubSeq(body, d, next - 1) = sent[i].data
         \/ IsCut /\ next = Len(body) + 1 /\ Begins(SubSeq(body, d, next - 1), i)
<1> DEFINE q == FindFrom(<<LineEnd, Marker>>, d)
           c == SubSeq(body, d, next - 1)
           n == Len(body)
           data == sent[i].data
           l == Len(data)
           T == Twos(LineEnd, Marker)
           r == Response
<1>1. /\ Sequence(body) /\ n \in Nat /\ Len(r) \in Nat /\ n =< Len(r)
      /\ \A j \in 1..n : body[j] = r[j]
  BY BodyIs
<1>2. PartStands(i)
  BY PartsStand DEF ResponseOk
<1>3. /\ d \in Nat /\ d >= 5 /\ l \in Nat /\ At(i + 1) = d + l + 1 /\ d + l + 1 < Len(r) /\ Sequence(data)
      /\ r[d + l] = LineEnd /\ r[d + l + 1] = Marker
  <2>1. /\ At(i) \in Nat /\ At(i) >= 1 /\ l \in Nat /\ At(i + 1) = d + l + 1 /\ d + l + 1 < Len(r) /\ Sequence(data)
        /\ r[d + l] = LineEnd /\ r[d + l + 1] = Marker
        /\ d = At(i) + 4 + Len(sent[i].header) /\ Len(sent[i].header) \in Nat
    BY <1>2 DEF PartStands, PartOk
  <2> DEFINE h == Len(sent[i].header)
             a == At(i)
  <2>2. d = a + 4 + h /\ h \in Nat /\ a \in Nat /\ a >= 1
    BY <2>1
  <2> HIDE DEF h, a
  <2>3. d \in Nat /\ d >= 5
    BY <2>2
  <2> QED
    BY <2>1, <2>3, Zenon
<1>4. \A y \in 1..l : r[d - 1 + y] = data[y]
  BY <1>2 DEF PartStands, PartAt
<1>5. \A y \in 1..l - 1 : ~(data[y] = LineEnd /\ data[y + 1] = Marker)
  BY <1>2 DEF PartStands, PartOk
<1>6. \A j \in 1..n - 1 : j \in T <=> r[j] = LineEnd /\ r[j + 1] = Marker
  <2> SUFFICES ASSUME NEW j \in 1..n - 1 PROVE j \in T <=> r[j] = LineEnd /\ r[j + 1] = Marker
    OBVIOUS
  <2>1. j \in 1..n /\ j + 1 \in 1..n
    BY <1>1
  <2> QED
    BY <1>1, <2>1 DEF Twos
<1>7. FirstAt(q, d, n - 1, T)
  <2>1. d \in Nat /\ d >= 1
    BY <1>3
  <2> QED
    BY <1>1, <2>1, TwoFound, Zenon DEF n, T
<1>16. next = (IF q = 0 THEN n + 1 ELSE q) /\ d - 1 =< n
  BY DEF NextFrom
<1> HIDE DEF n, T, r, data, l, q, c
<1>15. n \in Nat /\ d \in Nat /\ d >= 5 /\ l \in Nat
  BY <1>1, <1>3
<1>8. \A j \in 1..n - 1 : j >= d /\ j < d + l => j \notin T
  <2> SUFFICES ASSUME NEW j \in 1..n - 1, j >= d, j < d + l, j \in T PROVE FALSE
    OBVIOUS
  <2> DEFINE y == j - (d - 1)
  <2>1. y \in 1..l /\ d - 1 + y = j /\ (y # l => y \in 1..l - 1 /\ y + 1 \in 1..l /\ d - 1 + (y + 1) = j + 1)
        /\ (y = l => j + 1 = d + l)
    <3>1. j \in Nat
      BY <1>15
    <3>2. IndexOf(y, j, d, l)
      BY <1>15, <3>1, IndexSums, Zenon
    <3> QED
      BY <3>2, Zenon DEF IndexOf
  <2>2. r[j] = LineEnd /\ r[j + 1] = Marker
    BY <1>6
  <2> HIDE DEF y
  <2>3. CASE y = l
    <3>1. LineEnd # Marker
      BY DEF LineEnd, Marker
    <3> QED
      BY <1>3, <2>1, <2>2, <2>3, <3>1
  <2>4. CASE y # l
    BY <1>4, <1>5, <2>1, <2>2, <2>4
  <2> QED
    BY <2>3, <2>4
<1>9. d + l \in 1..n - 1 => d + l \in T
  BY <1>3, <1>6
<1>10. (q = d + l /\ q =< n - 1) \/ (q = 0 /\ n =< d + l)
  <2> DEFINE place == d + l
  <2>1. place \in Nat /\ d =< place /\ d >= 1
    BY <1>15
  <2>3. Only(T, n, d, place)
    BY <1>8, <1>9 DEF Only
  <2> HIDE DEF place
  <2>4. (q = 0 /\ n =< place) \/ (q = place /\ q =< n - 1)
    BY <1>7, <1>15, <2>1, <2>3, FirstIsPlace, Zenon
  <2> QED
    BY <2>4 DEF place
<1>11. /\ next \in Nat /\ next >= d /\ next - 1 \in Nat /\ next - 1 =< n
       /\ \/ next = d + l
          \/ next = n + 1 /\ n =< d + l
  <2>1. CASE q = d + l /\ q =< n - 1
    <3>1. next = d + l /\ d + l =< n - 1
      BY <1>15, <1>16, <2>1
    <3> QED
      <4>1. Stays(next, d, n)
        BY <1>15, <1>16, <3>1, DataSums, Zenon
      <4> QED
        BY <3>1, <4>1, Zenon DEF Stays
  <2>2. CASE q = 0 /\ n =< d + l
    <3>1. next = n + 1
      BY <1>16, <2>2
    <3> QED
      BY <1>15, <1>16, <2>2, <3>1, DataSums DEF Stays
  <2> QED
    BY <1>10, <2>1, <2>2, Zenon
<1>12. /\ Sequence(c) /\ Len(c) = next - d
       /\ \A y \in 1..next - d : c[y] = r[d - 1 + y]
  <2>1. /\ Sequence(c) /\ Len(c) = (IF d =< next - 1 THEN (next - 1) - d + 1 ELSE 0)
        /\ \A y \in 1..(next - 1) - d + 1 : c[y] = body[d + y - 1]
    <3>1. d >= 1 /\ d \in Nat /\ next - 1 \in Nat /\ next - 1 =< Len(body)
      BY <1>11, <1>15 DEF n
    <3>2. CutOut(c, body, d, next - 1)
      BY <1>1, <3>1, CutOutIs, Zenon DEF c
    <3> QED
      BY <3>2, Zenon DEF CutOut
  <2>2. (next - 1) - d + 1 = next - d /\ (IF d =< next - 1 THEN (next - 1) - d + 1 ELSE 0) = next - d
    BY <1>11, <1>15
  <2>3. \A y \in 1..next - d : d + y - 1 = d - 1 + y /\ d + y - 1 \in 1..n
    <3>1. InCut(d, n, next)
      <4>1. next >= d /\ next - 1 =< n /\ next \in Nat
        BY <1>11, Zenon
      <4> QED
        BY <1>15, <4>1, CutSums, Zenon
    <3> QED
      BY <3>1, Zenon DEF InCut
  <2>4. \A y \in 1..next - d : c[y] = r[d - 1 + y]
    <3> SUFFICES ASSUME NEW y \in 1..next - d PROVE c[y] = r[d - 1 + y]
      OBVIOUS
    <3>1. c[y] = body[d + y - 1] /\ d + y - 1 = d - 1 + y /\ d + y - 1 \in 1..n
      BY <2>1, <2>2, <2>3
    <3> QED
      BY <1>1, <3>1
  <2> QED
    BY <2>1, <2>2, <2>4
<1>13. CASE next = d + l
  <2>1. next - d = l /\ (d + l + 1) - 1 = next /\ next >= 1 /\ At(i + 1) = d + l + 1
    <3>1. At(i + 1) = d + l + 1
      BY <1>3
    <3> QED
      <4>1. (d + l) - d = l /\ (d + l + 1) - 1 = d + l /\ d + l >= 1
        BY <1>15, WholeSums, Zenon
      <4> QED
        BY <1>13, <3>1, <4>1
  <2>2. \A y \in 1..Len(c) : c[y] = data[y]
    BY <1>4, <1>12, <2>1
  <2>3. c = data
    BY <1>3, <1>12, <2>1, <2>2, SameText DEF l
  <2> QED
    BY <1>11, <2>1, <2>3 DEF data, c
<1>14. CASE next = n + 1 /\ n =< d + l
  <2> DEFINE w == data \o <<LineEnd>>
  <2>1. /\ Sequence(w) /\ Len(w) = l + 1 /\ (\A y \in 1..l : w[y] = data[y]) /\ w[l + 1] = LineEnd
    <3> DEFINE one == <<LineEnd>>
    <3>1. Sequence(one) /\ Len(one) = 1 /\ one[1] = LineEnd
      BY DEF Sequence, Range
    <3> HIDE DEF one
    <3>2. Behind(data \o one, data, one) /\ Sequence(data \o one)
      BY <1>3, <3>1, BehindIs, Zenon
    <3>3. 1 \in 1..1
      OBVIOUS
    <3> DEFINE v == data \o one
    <3> HIDE DEF v
    <3>4. /\ Sequence(v) /\ Len(v) = l + 1 /\ (\A y \in 1..l : v[y] = data[y]) /\ v[l + 1] = LineEnd
      BY <3>1, <3>2, <3>3, Zenon DEF Behind, v, l
    <3> QED
      BY <3>4 DEF v, one
  <2> HIDE DEF w
  <2> DEFINE k == Len(c)
  <2>2. k = next - d /\ k \in Nat /\ k =< l + 1
    <3>1. k = next - d
      BY <1>12
    <3> HIDE DEF k
    <3> QED
      BY <1>11, <1>14, <1>15, <3>1, LeftOver, Zenon
  <2>3. \A y \in 1..k : c[y] = w[y]
    <3> SUFFICES ASSUME NEW y \in 1..k PROVE c[y] = w[y]
      OBVIOUS
    <3>1. c[y] = r[d - 1 + y]
      BY <1>12, <2>2
    <3>2. CASE y \in 1..l
      BY <1>4, <2>1, <3>1, <3>2
    <3>3. CASE y = l + 1
      <4>1. d - 1 + y = d + l
        BY <1>3, <3>3
      <4> QED
        BY <1>3, <2>1, <3>1, <3>3, <4>1
    <3> HIDE DEF k
    <3>4. y \in 1..l \/ y = l + 1
      BY <1>15, <2>2
    <3> QED
      BY <3>2, <3>3, <3>4
  <2> HIDE DEF k
  <2> DEFINE begin == SubSeq(w, 1, k)
  <2>5. SubSeq(c, 1, k) = c
    BY <1>12, WholeIs DEF k
  <2>9. Sequence(begin) /\ Len(begin) = k /\ \A y \in 1..k : begin[y] = w[y]
    <3>1. 1 \in Nat /\ 1 >= 1 /\ k =< Len(w)
      BY <2>1, <2>2
    <3>2. CutOut(begin, w, 1, k)
      BY <2>1, <2>2, <3>1, CutOutIs, Zenon
    <3> HIDE DEF begin
    <3>3. k - 1 + 1 = k /\ (IF 1 =< k THEN k - 1 + 1 ELSE 0) = k /\ \A x \in 1..k : 1 + x - 1 = x
      BY <2>2
    <3>4. Sequence(begin) /\ Len(begin) = k /\ \A y \in 1..k : begin[y] = w[1 + y - 1]
      BY <3>2, <3>3, Zenon DEF CutOut
    <3> QED
      BY <3>3, <3>4
  <2> HIDE DEF begin
  <2>6. c = begin
    <3>1. Len(c) = k
      BY DEF k
    <3>2. \A y \in 1..k : c[y] = begin[y]
      BY <2>3, <2>9
    <3> QED
      BY <1>12, <2>9, <3>1, <3>2, SameText
  <2>7. Begins(c, i)
    <3>1. IsPrefix(c, w)
      BY <2>1, <2>2, <2>5, <2>6 DEF IsPrefix, k, begin
    <3> QED
      BY <3>1 DEF Begins, w, data
  <2>8. IsCut
    BY <1>1, <1>3, <1>14 DEF IsCut, n, r
  <2> QED
    BY <1>14, <2>7, <2>8 DEF n, c
<1> QED
  BY <1>11, <1>13, <1>14

-----------------------------------------------------------------------------
\* What is saved, what is written, and where the scan goes on.
NameAt(i) == NameOf(sent[i].header, i - 1)
Latest(i, m) == saved_files[i] = m /\ \A j \in i + 1..Len(saved_files) : saved_files[j] # m
Scanning_ == mdPc \in {"fetch", "scan"}
Writing == mdPc \in {"write", "rename"}

SavedOk ==
  /\ Sequence(saved_files) /\ part_index = Len(saved_files) /\ part_index =< Len(sent) /\ Len(sent) \in Nat
  /\ \A i \in 1..Len(saved_files) : saved_files[i] = NameAt(i)

\* The part in hand, and the place of the next one.
InHand(i) ==
  /\ current.name = NameAt(i)
  /\ \/ Before(i + 1) /\ current.data = sent[i].data
     \/ AtEnd /\ Begins(current.data, i)

\* A file is whole, or the last one, and the response was cut in it.
Kept(i, c) == c = sent[i].data \/ (i = Len(saved_files) /\ AtEnd /\ ~Writing /\ Begins(c, i))
Found(m) == \E i \in 1..Len(saved_files) : Latest(i, m) /\ Kept(i, final[m])
FilesOk ==
  /\ DOMAIN final = Range(saved_files)
  /\ \A m \in DOMAIN final \ lostInFlush : Found(m)

\* A temporary file is there from its writing to its renaming, and afterwards
\* only if it may stay.
TempOk ==
  /\ mdPc \in {"fetch", "scan", "write", "true"} => temp = <<>>
  /\ mdPc = "rename" => DOMAIN temp = {current.name}
  /\ mdPc = "false" /\ delete_partial_on_fail_ => temp = <<>>

DownloadInv ==
  /\ ResponseOk /\ mdPc \in {"fetch", "scan", "write", "rename", "true", "false"}
  /\ SavedOk /\ FilesOk /\ TempOk
  /\ Scanning_ => Before(part_index + 1) \/ AtEnd
  /\ Writing => part_index < Len(sent) /\ InHand(part_index + 1)
  /\ mdPc = "true" /\ ~IsCut => part_index = Len(sent)

LEMMA DownloadStarts == InitDownload => DownloadInv
<1> SUFFICES ASSUME InitDownload PROVE DownloadInv
  OBVIOUS
<1>1. /\ sent \in PartLists /\ mdPc = "fetch" /\ pos = 1 /\ part_index = 0
      /\ temp = <<>> /\ final = <<>> /\ saved_files = <<>> /\ lostInFlush = {}
  BY DEF InitDownload
<1>2. Stand(sent, Response, PlaceOf(sent)) /\ Len(sent) \in Nat
  BY <1>1, SentStands DEF Stand
<1>3. ResponseOk
  <2> DEFINE r == Response
  <2>1. Sequence(r) /\ Len(r) \in Nat
    BY <1>2, SequenceIs DEF Stand
  <2>2. PICK n \in 0..Len(r) : body = SubSeq(r, 1, n)
    BY DEF InitDownload, Response
  <2> HIDE DEF r
  <2>3. Len(body) = n
    <3>1. CutOut(SubSeq(r, 1, n), r, 1, n)
      <4>1. n \in Nat /\ n =< Len(r) /\ 1 \in Nat /\ 1 >= 1
        BY <2>1
      <4> QED
        BY <2>1, <4>1, CutOutIs, Zenon
    <3>2. (IF 1 =< n THEN n - 1 + 1 ELSE 0) = n
      BY <2>1
    <3> QED
      BY <2>2, <3>1, <3>2, Zenon DEF CutOut
  <2> QED
    BY <1>1, <2>2, <2>3 DEF ResponseOk, r
<1>4. Sequence(<<>>) /\ Len(<<>>) = 0 /\ DOMAIN <<>> = {} /\ Range(<<>>) = {}
  BY DEF Sequence, Range
<1>5. SavedOk
  BY <1>1, <1>2, <1>4 DEF SavedOk
<1>6. FilesOk
  BY <1>1, <1>4 DEF FilesOk
<1>7. TempOk
  BY <1>1 DEF TempOk
<1>8. Before(part_index + 1)
  <2> DEFINE p == PlaceOf(sent)
  <2>1. 1 \in 1..Len(sent) + 1 /\ part_index + 1 = 1
    BY <1>1, <1>2
  <2>2. p[1] = 1 \/ p[1] = 2
    BY <1>2, Zenon DEF Stand
  <2>3. At(1) = 1 \/ At(1) = 2
    BY <2>2 DEF At
  <2> QED
    BY <1>1, <2>1, <2>3 DEF Before
<1> QED
  BY <1>1, <1>3, <1>5, <1>6, <1>7, <1>8 DEF DownloadInv, Writing, Scanning_

\* What the part in hand was found in stays, so what is true of the places
\* stays true.
SameResponse == UNCHANGED <<sent, body>>
LEMMA PlacesStay ==
  ASSUME ResponseOk, SameResponse
  PROVE  /\ ResponseOk' /\ IsCut' = IsCut /\ Len(sent)' = Len(sent)
         /\ \A i : NameAt(i)' = NameAt(i) /\ sent[i]' = sent[i]
         /\ \A c, i : Begins(c, i)' = Begins(c, i)
         /\ pos' = pos => AtEnd' = AtEnd /\ \A i : Before(i)' = Before(i)
BY DEF SameResponse, ResponseOk, Response, IsCut, NameAt, Begins, Before, AtEnd, At

LEMMA FilesStay ==
  ASSUME FilesOk, UNCHANGED <<saved_files, final, lostInFlush>>, \A c, i : Kept(i, c) => Kept(i, c)'
  PROVE  FilesOk'
<1>1. ASSUME NEW m, Found(m) PROVE Found(m)'
  <2>1. PICK i \in 1..Len(saved_files) : Latest(i, m) /\ Kept(i, final[m])
    BY <1>1 DEF Found
  <2>2. Latest(i, m)'
    BY <2>1 DEF Latest
  <2>3. Kept(i, final[m])'
    <3>1. final[m]' = final[m]
      OBVIOUS
    <3> DEFINE c == final[m]
    <3>2. Kept(i, c)
      BY <2>1
    <3> QED
      BY <2>1, <3>1 DEF Kept
  <2> QED
    BY <2>1, <2>2, <2>3 DEF Found
<1> QED
  BY <1>1 DEF FilesOk

LEMMA ScanKeeps == ASSUME DownloadInv, Scan PROVE DownloadInv'
<1> DEFINE bpos == MarkerFrom(pos)
           cur == BehindMarker(bpos)
           hend == EmptyLineFrom(cur)
           next == NextFrom(hend + 2)
           k == part_index + 1
           closes == bpos < Len(body) /\ body[bpos + 1] = Dashes
<1>1. /\ mdPc = "scan"
      /\ UNCHANGED <<sent, body, part_index, delete_partial_on_fail_, temp, final, saved_files, lostInFlush>>
  BY DEF Scan
<1>2. \/ (bpos = 0 \/ closes) /\ mdPc' = (IF saved_files # <<>> THEN "true" ELSE "false") /\ UNCHANGED <<pos, current>>
      \/ bpos # 0 /\ ~closes /\ hend = 0 /\ mdPc' = "false" /\ UNCHANGED <<pos, current>>
      \/ /\ bpos # 0 /\ ~closes /\ hend # 0
         /\ current' = [name |-> NameOf(SubSeq(body, cur, hend - 1), part_index),
                        data |-> SubSeq(body, hend + 2, next - 1)]
         /\ pos' = next /\ mdPc' = "write"
  BY Zenon DEF Scan, Returns, MarkerFrom, BehindMarker, EmptyLineFrom, NextFrom
<1> HIDE DEF bpos, cur, hend, next
<1>3. ResponseOk /\ SavedOk /\ FilesOk /\ TempOk /\ (Before(k) \/ AtEnd)
  BY <1>1 DEF DownloadInv, Scanning_
<1>4. part_index \in Nat /\ Len(sent) \in Nat /\ part_index =< Len(sent) /\ k \in 1..Len(sent) + 1
  BY <1>3, SequenceIs DEF SavedOk
<1>5. /\ ResponseOk' /\ IsCut' = IsCut /\ Len(sent)' = Len(sent)
      /\ \A i : NameAt(i)' = NameAt(i) /\ sent[i]' = sent[i]
      /\ \A c, i : Begins(c, i)' = Begins(c, i)
      /\ pos' = pos => AtEnd' = AtEnd /\ \A i : Before(i)' = Before(i)
  BY <1>1, <1>3, PlacesStay DEF SameResponse
<1>6. SavedOk'
  BY <1>1, <1>3, <1>5 DEF SavedOk
<1>7. TempOk'
  BY <1>1, <1>2, <1>3 DEF TempOk
<1>8. \/ bpos = 0 /\ IsCut
      \/ bpos = At(k) /\ bpos =< Len(body) /\ Before(k)
  <2> HIDE DEF k
  <2> QED
    BY <1>3, <1>4, ScanFinds DEF bpos
<1>9. At(k) \in Nat /\ At(k) >= 1 /\ At(k) < Len(Response) /\ Len(body) \in Nat /\ Len(Response) \in Nat
  <2> HIDE DEF k
  <2> QED
    BY <1>3, <1>4, MarkerStands, BodyIs
<1>10. CASE pos' = pos /\ mdPc' \in {"true", "false"} /\ (mdPc' = "true" => bpos = 0 \/ closes)
  <2>1. FilesOk'
    <3>1. \A c, i : Kept(i, c) => Kept(i, c)'
      BY <1>1, <1>5, <1>10 DEF Kept, Writing
    <3> QED
      BY <1>1, <1>3, <3>1, FilesStay
  <2>2. mdPc' = "true" /\ ~IsCut => part_index = Len(sent)
    <3> SUFFICES ASSUME mdPc' = "true", ~IsCut PROVE part_index = Len(sent)
      OBVIOUS
    <3>1. bpos = At(k) /\ closes
      BY <1>8, <1>9, <1>10
    <3>2. Response[At(k) + 1] = Dashes
      <4>1. At(k) + 1 \in 1..Len(body)
        BY <1>9, <3>1
      <4> QED
        BY <1>3, <3>1, <4>1, BodyIs
    <3>3. k = Len(sent) + 1
      <4>1. Dashes # LineEnd
        BY DEF Dashes, LineEnd
      <4> HIDE DEF k
      <4> QED
        BY <1>3, <1>4, <3>2, <4>1, MarkerStands
    <3> QED
      BY <1>4, <3>3
  <2> QED
    BY <1>1, <1>5, <1>6, <1>7, <1>10, <2>1, <2>2 DEF DownloadInv, Writing, Scanning_
<1>11. CASE /\ bpos # 0 /\ ~closes /\ hend # 0
            /\ current' = [name |-> NameOf(SubSeq(body, cur, hend - 1), part_index),
                           data |-> SubSeq(body, hend + 2, next - 1)]
            /\ pos' = next /\ mdPc' = "write"
  <2>1. bpos = At(k) /\ bpos =< Len(body) /\ Before(k)
    BY <1>8, <1>11
  <2>2. k \in 1..Len(sent) /\ part_index < Len(sent)
    <3>1. k # Len(sent) + 1
      <4> SUFFICES ASSUME k = Len(sent) + 1 PROVE FALSE
        OBVIOUS
      <4>1. At(k) + 1 = Len(Response)
        <5>1. Stand(sent, Response, PlaceOf(sent))
          BY <1>3, SentStands DEF ResponseOk
        <5>2. Len(Response) = At(Len(sent) + 1) + 1
          BY <5>1, Zenon DEF Stand, At
        <5> QED
          BY <5>2
      <4>2. Response[At(k) + 1] = Dashes
        <5> HIDE DEF k
        <5> QED
          BY <1>3, <1>4, MarkerStands
      <4>3. CASE At(k) + 1 =< Len(body)
        <5>1. At(k) + 1 \in 1..Len(body) /\ At(k) < Len(body)
          BY <1>9, <4>3
        <5>2. body[At(k) + 1] = Dashes
          BY <1>3, <4>2, <5>1, BodyIs
        <5> QED
          BY <1>11, <2>1, <5>1, <5>2
      <4>4. CASE ~(At(k) + 1 =< Len(body))
        <5>1. Len(body) = At(k)
          BY <1>9, <2>1, <4>4
        <5>2. cur = At(k) + 1
          BY <1>9, <2>1, <5>1 DEF cur, BehindMarker
        <5>3. FirstAt(hend, cur, Len(body) - 1, Twos(LineEnd, LineEnd))
          <6>1. cur \in Nat /\ cur >= 1
            BY <1>9, <5>2
          <6> QED
            BY <1>3, <6>1, BodyIs, TwoFound, Zenon DEF hend, EmptyLineFrom
        <5>4. ~(hend \in cur..Len(body) - 1)
          BY <1>9, <5>1, <5>2
        <5> QED
          BY <1>11, <5>3, <5>4 DEF FirstAt
      <4> QED
        BY <4>3, <4>4
    <3> QED
      BY <1>4, <3>1
  <2>3. /\ cur = At(k) + 2 /\ hend = DataAt(sent[k], At(k)) - 2 /\ hend + 1 =< Len(body)
        /\ SubSeq(body, cur, hend - 1) = sent[k].header
    <3> HIDE DEF k
    <3>1. cur = BehindMarker(At(k)) /\ hend = EmptyLineFrom(cur) /\ At(k) =< Len(body)
      BY <2>1 DEF cur, hend
    <3> QED
      BY <1>3, <1>11, <2>2, <3>1, HeaderFinds
  <2> DEFINE d == DataAt(sent[k], At(k))
  <2>4. d \in Nat /\ hend + 2 = d /\ d - 1 =< Len(body)
    <3>1. PartStands(k)
      <4> HIDE DEF k
      <4> QED
        BY <1>3, <2>2, PartsStand DEF ResponseOk
    <3>2. d = At(k) + 4 + Len(sent[k].header) /\ Len(sent[k].header) \in Nat
      BY <3>1 DEF PartStands
    <3>3. d \in Nat
      BY <1>9, <3>2
    <3>4. hend = d - 2 /\ hend + 1 =< Len(body)
      BY <2>3
    <3> HIDE DEF d
    <3> QED
      BY <1>9, <3>3, <3>4
  <2> HIDE DEF d
  <2>5. \/ next = At(k + 1) - 1 /\ next \in Nat /\ next >= 1 /\ SubSeq(body, d, next - 1) = sent[k].data
        \/ IsCut /\ next = Len(body) + 1 /\ Begins(SubSeq(body, d, next - 1), k)
    <3> HIDE DEF k
    <3>1. next = NextFrom(d)
      BY <2>4 DEF next
    <3>2. ResponseOk /\ k \in 1..Len(sent) /\ d - 1 =< Len(body)
      BY <1>3, <2>2, <2>4
    <3> QED
      BY <3>1, <3>2, DataFinds DEF d
  <2>6. current'.name = NameAt(k) /\ current'.data = SubSeq(body, d, next - 1) /\ pos' = next
    <3>1. k - 1 = part_index
      BY <1>4
    <3>2. current'.name = NameOf(sent[k].header, part_index)
      BY <1>11, <2>3
    <3>3. current'.data = SubSeq(body, d, next - 1)
      BY <1>11, <2>4
    <3> QED
      BY <1>11, <3>1, <3>2, <3>3 DEF NameAt
  <2>7. InHand(k)'
    <3>1. sent' = sent /\ body' = body
      BY <1>1
    <3>2. NameAt(k)' = NameAt(k) /\ sent[k]' = sent[k] /\ k' = k
      BY <1>1, <1>5
    <3>3. CASE next = At(k + 1) - 1 /\ next \in Nat /\ next >= 1 /\ SubSeq(body, d, next - 1) = sent[k].data
      <4>1. Before(k + 1)'
        BY <1>1, <2>6, <3>1, <3>3 DEF Before, At
      <4> QED
        BY <2>6, <3>1, <3>2, <3>3, <4>1 DEF InHand, NameAt
    <3>4. CASE IsCut /\ next = Len(body) + 1 /\ Begins(SubSeq(body, d, next - 1), k)
      <4>1. AtEnd'
        BY <1>5, <2>6, <3>1, <3>4 DEF AtEnd
      <4>2. Begins(current.data, k)'
        BY <1>1, <2>6, <3>1, <3>4 DEF Begins
      <4> QED
        BY <2>6, <3>1, <3>2, <4>1, <4>2 DEF InHand, NameAt
    <3> QED
      BY <2>5, <3>3, <3>4
  <2>8. FilesOk'
    <3>1. ~AtEnd
      BY <1>9, <2>1 DEF Before, AtEnd
    <3>2. \A c, i : Kept(i, c) => Kept(i, c)'
      BY <1>1, <3>1 DEF Kept
    <3> QED
      BY <1>1, <1>3, <3>2, FilesStay
  <2> QED
    BY <1>1, <1>5, <1>6, <1>7, <1>11, <2>2, <2>7, <2>8 DEF DownloadInv, Writing, Scanning_
<1> QED
  BY <1>2, <1>10, <1>11

\* The last file is taken away.
LEMMA WithoutLast ==
  ASSUME NEW disk, NEW name, DOMAIN disk \subseteq {name} PROVE Without(disk, name) = <<>>
<1>1. Without(disk, name) = [x \in {} |-> disk[x]]
  BY DEF Without, Restrict
<1> QED
  BY <1>1

LEMMA NothingThere == DOMAIN <<>> = {}
OBVIOUS

\* A failure of the write or the renaming, and a fetch.
LEMMA FailureKeeps ==
  ASSUME DownloadInv, Writing, NEW left, Fails(left)
  PROVE  DownloadInv'
<1>1. /\ mdPc' = "false"
      /\ temp' = (IF delete_partial_on_fail_ THEN Without(temp, current.name) ELSE left)
      /\ UNCHANGED <<sent, body, pos, part_index, current, delete_partial_on_fail_, final, saved_files, lostInFlush>>
  BY DEF Fails, Returns
<1>2. /\ ResponseOk /\ SavedOk /\ FilesOk /\ TempOk
  BY DEF DownloadInv
<1>3. /\ ResponseOk' /\ IsCut' = IsCut /\ Len(sent)' = Len(sent)
      /\ \A i : NameAt(i)' = NameAt(i) /\ sent[i]' = sent[i]
      /\ \A c, i : Begins(c, i)' = Begins(c, i)
      /\ pos' = pos => AtEnd' = AtEnd /\ \A i : Before(i)' = Before(i)
  BY <1>1, <1>2, PlacesStay DEF SameResponse
<1>4. SavedOk'
  BY <1>1, <1>2, <1>3 DEF SavedOk
<1>5. FilesOk'
  <2>1. \A c, i : Kept(i, c) => Kept(i, c)'
    BY <1>1, <1>3 DEF Kept
  <2> QED
    BY <1>1, <1>2, <2>1, FilesStay
<1>6. TempOk'
  <2>1. DOMAIN temp \subseteq {current.name}
    BY <1>2, NothingThere DEF TempOk, Writing
  <2>2. Without(temp, current.name) = <<>>
    BY <2>1, WithoutLast
  <2> QED
    BY <1>1, <2>2 DEF TempOk
<1> QED
  BY <1>1, <1>3, <1>4, <1>5, <1>6 DEF DownloadInv, Scanning_, Writing

LEMMA FetchKeeps ==
  ASSUME DownloadInv, FetchFails \/ FetchSucceeds PROVE DownloadInv'
<1>1. /\ mdPc = "fetch" /\ mdPc' \in {"false", "scan"}
      /\ UNCHANGED <<sent, body, pos, part_index, current, delete_partial_on_fail_, temp, final, saved_files, lostInFlush>>
  BY DEF FetchFails, FetchSucceeds, Returns
<1>2. /\ ResponseOk /\ SavedOk /\ FilesOk /\ TempOk
  BY DEF DownloadInv
<1>3. /\ ResponseOk' /\ IsCut' = IsCut /\ Len(sent)' = Len(sent)
      /\ \A i : NameAt(i)' = NameAt(i) /\ sent[i]' = sent[i]
      /\ \A c, i : Begins(c, i)' = Begins(c, i)
      /\ pos' = pos => AtEnd' = AtEnd /\ \A i : Before(i)' = Before(i)
  BY <1>1, <1>2, PlacesStay DEF SameResponse
<1>4. SavedOk'
  BY <1>1, <1>2, <1>3 DEF SavedOk
<1>5. FilesOk'
  <2>1. \A c, i : Kept(i, c) => Kept(i, c)'
    BY <1>1, <1>3 DEF Kept, Writing
  <2> QED
    BY <1>1, <1>2, <2>1, FilesStay
<1>6. TempOk'
  BY <1>1, <1>2 DEF TempOk
<1>7. Before(part_index + 1)' \/ AtEnd'
  <2>1. Before(part_index + 1) \/ AtEnd
    BY <1>1 DEF DownloadInv, Scanning_
  <2> QED
    BY <1>1, <1>3, <2>1 DEF Before, At
<1> QED
  BY <1>1, <1>3, <1>4, <1>5, <1>6, <1>7 DEF DownloadInv, Scanning_, Writing

LEMMA WriteKeeps == ASSUME DownloadInv, Write PROVE DownloadInv'
<1>1. /\ mdPc = "write" /\ mdPc' = "rename"
      /\ UNCHANGED <<sent, body, pos, part_index, current, delete_partial_on_fail_, final, saved_files, lostInFlush>>
      /\ \E reached \in {current.data, <<>>} : temp' = StoreAs(temp, current.name, reached)
  BY DEF Write
<1>2. /\ ResponseOk /\ SavedOk /\ FilesOk /\ TempOk /\ Writing
  BY <1>1 DEF DownloadInv, Writing
<1>3. /\ ResponseOk' /\ IsCut' = IsCut /\ Len(sent)' = Len(sent)
      /\ \A i : NameAt(i)' = NameAt(i) /\ sent[i]' = sent[i]
      /\ \A c, i : Begins(c, i)' = Begins(c, i)
      /\ pos' = pos => AtEnd' = AtEnd /\ \A i : Before(i)' = Before(i)
  BY <1>1, <1>2, PlacesStay DEF SameResponse
<1>4. SavedOk'
  BY <1>1, <1>2, <1>3 DEF SavedOk
<1>5. FilesOk'
  <2>1. \A c, i : Kept(i, c) => Kept(i, c)'
    BY <1>1, <1>2, <1>3 DEF Kept
  <2> QED
    BY <1>1, <1>2, <2>1, FilesStay
<1>6. TempOk'
  <2>1. DOMAIN temp = {}
    BY <1>1, <1>2, NothingThere DEF TempOk
  <2>2. DOMAIN temp' = {current.name}
    BY <1>1, <2>1 DEF StoreAs
  <2> QED
    BY <1>1, <2>2 DEF TempOk
<1>7. part_index < Len(sent) /\ InHand(part_index + 1)
  BY <1>2 DEF DownloadInv
<1>8. InHand(part_index + 1)'
  <2> DEFINE k == part_index + 1
  <2>1. sent' = sent /\ body' = body /\ pos' = pos /\ current' = current /\ k' = k /\ (k + 1)' = k + 1
    BY <1>1
  <2> HIDE DEF k
  <2>2. InHand(k)'
    BY <1>3, <1>7, <2>1 DEF InHand, NameAt, Before, At, Begins, k
  <2> QED
    BY <2>2 DEF k
<1> QED
  BY <1>1, <1>3, <1>4, <1>5, <1>6, <1>7, <1>8 DEF DownloadInv, Scanning_, Writing

LEMMA RenameKeeps == ASSUME DownloadInv, Rename PROVE DownloadInv'
<1> DEFINE name == current.name
           k == part_index + 1
           s == saved_files
<1>1. /\ mdPc = "rename" /\ mdPc' = "scan"
      /\ final' = StoreAs(final, name, temp[name]) /\ temp' = Without(temp, name)
      /\ saved_files' = Append(s, name) /\ part_index' = k
      /\ lostInFlush' = (IF temp[name] = current.data THEN lostInFlush \ {name} ELSE lostInFlush \cup {name})
      /\ UNCHANGED <<sent, body, pos, current, delete_partial_on_fail_>>
  BY Zenon DEF Rename
<1>2. /\ ResponseOk /\ SavedOk /\ FilesOk /\ TempOk /\ Writing /\ part_index < Len(sent) /\ InHand(k)
  BY <1>1 DEF DownloadInv, Writing
<1>3. /\ ResponseOk' /\ IsCut' = IsCut /\ Len(sent)' = Len(sent)
      /\ \A i : NameAt(i)' = NameAt(i) /\ sent[i]' = sent[i]
      /\ \A c, i : Begins(c, i)' = Begins(c, i)
      /\ AtEnd' = AtEnd /\ \A i : Before(i)' = Before(i)
  BY <1>1, <1>2, PlacesStay DEF SameResponse
<1>4. /\ Sequence(s) /\ Len(s) = part_index /\ part_index \in Nat /\ Len(sent) \in Nat
      /\ \A i \in 1..Len(s) : s[i] = NameAt(i)
  BY <1>2, SequenceIs DEF SavedOk
<1> HIDE DEF s
<1>5. /\ Sequence(saved_files') /\ Len(saved_files') = k
      /\ DOMAIN saved_files' = 1..k
      /\ \A i \in 1..Len(s) : saved_files'[i] = s[i]
      /\ saved_files'[k] = name
  BY <1>1, <1>4, Longer
<1>6. name = NameAt(k)
  BY <1>2 DEF InHand
<1>7. k \in Nat /\ k =< Len(sent) /\ \A i \in 1..k : i \in 1..Len(s) \/ i = k
  BY <1>2, <1>4
<1> HIDE DEF k, name
<1>8. SavedOk'
  <2>1. \A i \in 1..k : saved_files'[i] = NameAt(i)
    BY <1>4, <1>5, <1>6, <1>7
  <2>2. Len(sent') = Len(sent)
    BY <1>3
  <2>3. \A i \in 1..Len(saved_files') : saved_files'[i] = NameAt(i)'
    BY <1>3, <1>5, <2>1
  <2> QED
    BY <1>1, <1>4, <1>5, <1>7, <2>2, <2>3 DEF SavedOk
<1>9. DOMAIN final' = Range(saved_files')
  <2>1. DOMAIN final' = DOMAIN final \cup {name}
    BY <1>1 DEF StoreAs
  <2>2. DOMAIN final = {s[i] : i \in 1..Len(s)}
    <3>1. DOMAIN s = 1..Len(s)
      BY <1>4, SequenceIs
    <3> QED
      BY <1>2, <3>1 DEF FilesOk, Range, s
  <2>3. \A i \in 1..Len(s) : i \in 1..k
    BY <1>4, <1>7 DEF k
  <2>4. k \in 1..k
    BY <1>4 DEF k
  <2>5. Range(saved_files') = {saved_files'[i] : i \in 1..k}
    BY <1>5 DEF Range
  <2>6. Range(saved_files') = {s[i] : i \in 1..Len(s)} \cup {name}
    BY <1>5, <1>7, <2>3, <2>4, <2>5
  <2> QED
    BY <2>1, <2>2, <2>6
<1>10. ASSUME NEW m \in DOMAIN final' \ lostInFlush' PROVE Found(m)'
  <2>1. CASE m # name
    <3>1. m \in DOMAIN final \ lostInFlush /\ final'[m] = final[m]
      BY <1>1, <1>10, <2>1 DEF StoreAs
    <3>2. PICK i \in 1..Len(s) : Latest(i, m) /\ Kept(i, final[m])
      BY <1>2, <3>1 DEF FilesOk, Found, s
    <3>3. final[m] = sent[i].data
      BY <1>2, <3>2 DEF Kept
    <3>4. saved_files'[i] = m /\ i \in 1..k
      BY <1>4, <1>5, <3>2 DEF Latest, s, k
    <3>5. \A j \in i + 1..k : saved_files'[j] # m
      <4> SUFFICES ASSUME NEW j \in i + 1..k PROVE saved_files'[j] # m
        OBVIOUS
      <4>1. CASE j = k
        BY <1>5, <2>1, <4>1
      <4>2. CASE j # k
        <5>1. j \in i + 1..Len(s) /\ j \in 1..Len(s)
          BY <1>4, <4>2 DEF k
        <5> QED
          BY <1>5, <3>2, <5>1 DEF Latest, s
      <4> QED
        BY <4>1, <4>2
    <3>6. Latest(i, m)'
      BY <1>5, <3>4, <3>5 DEF Latest
    <3>7. Kept(i, final[m])'
      BY <1>1, <3>1, <3>3 DEF Kept
    <3> QED
      BY <1>5, <3>4, <3>6, <3>7 DEF Found
  <2>2. CASE m = name
    <3>1. temp[name] = current.data
      BY <1>1, <1>10, <2>2
    <3>2. final'[m] = current.data
      BY <1>1, <2>2, <3>1 DEF StoreAs
    <3>3. PICK i \in Nat : i = k
      BY <1>7
    <3>4. i \in 1..Len(saved_files') /\ saved_files'[i] = m /\ Len(saved_files') = i
      <4>1. k >= 1
        BY <1>4 DEF k
      <4> QED
        BY <1>5, <2>2, <3>3, <4>1
    <3>5. Latest(i, m)'
      <4>1. \A j \in i + 1..Len(saved_files') : FALSE
        BY <3>3, <3>4
      <4> QED
        BY <3>4, <4>1 DEF Latest
    <3>6. Kept(i, final[m])'
      <4>1. current.data = sent[i].data \/ (AtEnd /\ Begins(current.data, i))
        BY <1>2, <3>3 DEF InHand
      <4>2. AtEnd => AtEnd' /\ ~Writing'
        BY <1>1, <1>3 DEF Writing
      <4>3. Begins(current.data, i) => Begins(final[m], i)'
        BY <1>1, <3>2 DEF Begins
      <4>4. sent'[i].data = sent[i].data
        BY <1>1
      <4> QED
        BY <3>2, <3>4, <4>1, <4>2, <4>3, <4>4 DEF Kept
    <3> QED
      BY <3>4, <3>5, <3>6 DEF Found
  <2> QED
    BY <2>1, <2>2
<1>11. FilesOk'
  BY <1>9, <1>10 DEF FilesOk
<1>12. TempOk'
  <2>1. DOMAIN temp \subseteq {name}
    BY <1>1, <1>2 DEF TempOk, name
  <2>2. temp' = <<>>
    BY <1>1, <2>1, WithoutLast
  <2> QED
    BY <1>1, <2>2 DEF TempOk
<1>13. Before(part_index + 1)' \/ AtEnd'
  <2>1. Before(k + 1) \/ AtEnd
    BY <1>2 DEF InHand
  <2>2. part_index' + 1 = k + 1
    BY <1>1
  <2>3. Before(part_index + 1)' = Before(k + 1)
    BY <1>1, <2>2 DEF Before, At
  <2> QED
    BY <1>3, <2>1, <2>3
<1> QED
  BY <1>1, <1>3, <1>8, <1>11, <1>12, <1>13 DEF DownloadInv, Scanning_, Writing

LEMMA DownloadKeeps == DownloadInv /\ [NextDownload]_mdVars => DownloadInv'
<1> SUFFICES ASSUME DownloadInv, [NextDownload]_mdVars PROVE DownloadInv'
  OBVIOUS
<1>1. CASE UNCHANGED mdVars
  BY <1>1 DEF mdVars, DownloadInv, ResponseOk, Response, SavedOk, FilesOk, Found, Latest, Kept, AtEnd, Begins, IsCut,
              TempOk, Scanning_, Writing, Before, At, InHand, NameAt
<1>2. CASE WriteFails \/ RenameFails
  <2>1. Writing /\ \E left : Fails(left)
    BY <1>2 DEF WriteFails, RenameFails, Writing
  <2> QED
    BY <2>1, FailureKeeps
<1> QED
  BY <1>1, <1>2, FetchKeeps, ScanKeeps, WriteKeeps, RenameKeeps DEF NextDownload

\* The last place of a name is the greatest, so the files are as they should be.
LEMMA DownloadDelivers == DownloadInv => DownloadDeliversParts /\ NoPartialFileLeft
<1> SUFFICES ASSUME DownloadInv PROVE DownloadDeliversParts /\ NoPartialFileLeft
  OBVIOUS
<1>1. ResponseOk /\ SavedOk /\ FilesOk /\ TempOk
  BY DEF DownloadInv
<1>2. NoPartialFileLeft
  BY <1>1 DEF NoPartialFileLeft, TempOk
<1>3. Sequence(saved_files) /\ Len(saved_files) \in Nat /\ DOMAIN saved_files = 1..Len(saved_files)
  BY <1>1, SequenceIs DEF SavedOk
<1>4. Len(saved_files) =< Len(sent) /\ \A i \in DOMAIN saved_files : saved_files[i] = NameOf(sent[i].header, i - 1)
  BY <1>1, <1>3 DEF SavedOk, NameAt
<1>5. body = Rendered(sent) => ~IsCut
  BY <1>1, BodyIs DEF Response
<1>6. body = Rendered(sent) /\ mdPc = "true" => Len(saved_files) = Len(sent)
  BY <1>1, <1>5 DEF DownloadInv, SavedOk
<1>7. ASSUME NEW n \in DOMAIN final \ lostInFlush,
             NEW last, last = Max({i \in DOMAIN saved_files : saved_files[i] = n})
      PROVE  \/ final[n] = sent[last].data
             \/ /\ body # Rendered(sent) /\ last = Len(saved_files)
                /\ IsPrefix(final[n], sent[last].data \o <<LineEnd>>)
  <2> DEFINE S == {i \in DOMAIN saved_files : saved_files[i] = n}
  <2>1. PICK i \in 1..Len(saved_files) : Latest(i, n) /\ Kept(i, final[n])
    BY <1>1 DEF FilesOk, Found
  <2>2. S \in SUBSET Int /\ i \in S
    BY <1>3, <2>1 DEF Latest
  <2>3. \A j \in S : i >= j
    <3> SUFFICES ASSUME NEW j \in S, ~(i >= j) PROVE FALSE
      OBVIOUS
    <3>1. j \in i + 1..Len(saved_files)
      BY <1>3
    <3> QED
      BY <2>1, <3>1 DEF Latest
  <2> HIDE DEF S
  <2>4. Max(S) = i
    BY <2>2, <2>3, MaxIs
  <2>5. last = i
    BY <1>7, <2>4 DEF S
  <2> QED
    BY <1>5, <2>1, <2>5 DEF Kept, AtEnd, Begins
<1>8. DownloadDeliversParts
  BY <1>4, <1>6, <1>7, Zenon DEF DownloadDeliversParts
<1> QED
  BY <1>2, <1>8

-----------------------------------------------------------------------------
(***************************************************************************)
(* The REST clients.  A text is cut at places e[0] < e[1] < ... < e[n].    *)
(***************************************************************************)
Rises(n, e) == (\A k \in 0..n : e[k] \in Nat) /\ \A j, k \in 0..n : j < k => e[j] < e[k]
FirstPlaces(e, m) == {e[k] : k \in 0..m - 1}
BelowPlace(E, x) == {y \in E : y < x}
Cuts(s, c) == {0, Len(s) + 1} \cup {i \in DOMAIN s : s[i] = c}
PlaceAt(s, c, k) == CHOOSE x \in Cuts(s, c) : Cardinality(BelowPlace(Cuts(s, c), x)) = k

LEMMA PlacesCount ==
  ASSUME NEW n \in Nat, NEW e, Rises(n, e), NEW m \in 0..n + 1
  PROVE  Cardinality(FirstPlaces(e, m)) = m
<1> DEFINE q == [i \in 1..m |-> e[i - 1]]
<1>1. q = [i \in 1..m |-> q[i]] /\ \A i \in 1..m : q[i] = e[i - 1] /\ i - 1 \in 0..n
  OBVIOUS
<1> HIDE DEF q
<1>2. Sequence(q) /\ Len(q) = m /\ DOMAIN q = 1..m
  <2>1. m \in Nat
    OBVIOUS
  <2> QED
    BY <1>1, <2>1, SequenceFrom, Zenon
<1>3. Cardinality(Range(q)) = m
  <2>1. ASSUME NEW i \in 1..m, NEW j \in 1..m, q[i] = q[j] PROVE i = j
    <3>1. e[i - 1] = e[j - 1] /\ e[i - 1] \in Nat /\ e[j - 1] \in Nat
      BY <1>1, <2>1 DEF Rises
    <3>2. ~(i < j) /\ ~(j < i)
      <4>1. i < j => e[i - 1] < e[j - 1]
        BY <1>1 DEF Rises
      <4>2. j < i => e[j - 1] < e[i - 1]
        BY <1>1 DEF Rises
      <4> QED
        BY <3>1, <4>1, <4>2
    <3> QED
      BY <3>2
  <2>2. \A i, j \in 1..Len(q) : q[i] = q[j] => i = j
    BY <1>2, <2>1
  <2> QED
    BY <1>2, <2>2, CountsItsRange
<1>4. Range(q) = FirstPlaces(e, m)
  <2>1. \A k \in 0..m - 1 : k + 1 \in 1..m /\ (k + 1) - 1 = k
    OBVIOUS
  <2>2. \A k \in 0..m - 1 : q[k + 1] = e[k] /\ k + 1 \in 1..m
    BY <1>1, <2>1
  <2>3. \A i \in 1..m : i - 1 \in 0..m - 1
    OBVIOUS
  <2>4. Range(q) = {q[i] : i \in 1..m}
    BY <1>2 DEF Range
  <2>5. \A x \in Range(q) : x \in FirstPlaces(e, m)
    BY <1>1, <2>3, <2>4 DEF FirstPlaces
  <2>6. \A x \in FirstPlaces(e, m) : x \in Range(q)
    BY <2>2, <2>4 DEF FirstPlaces
  <2> QED
    BY <2>5, <2>6
<1> QED
  BY <1>3, <1>4

LEMMA PlacesFound ==
  ASSUME NEW s, NEW c, NEW n \in Nat, NEW e, Rises(n, e), Cuts(s, c) = FirstPlaces(e, n + 1)
  PROVE  Cardinality(Cuts(s, c)) = n + 1 /\ \A k \in 0..n : PlaceAt(s, c, k) = e[k]
<1> DEFINE E == Cuts(s, c)
<1>1. Cardinality(E) = n + 1
  BY PlacesCount
<1>2. ASSUME NEW k \in 0..n PROVE e[k] \in E /\ Cardinality(BelowPlace(E, e[k])) = k
  <2>1. BelowPlace(E, e[k]) = FirstPlaces(e, k)
    <3>1. \A j \in 0..n : e[j] < e[k] <=> j \in 0..k - 1
      <4> SUFFICES ASSUME NEW j \in 0..n PROVE e[j] < e[k] <=> j \in 0..k - 1
        OBVIOUS
      <4>1. e[j] \in Nat /\ e[k] \in Nat /\ (j < k => e[j] < e[k]) /\ (k < j => e[k] < e[j])
        BY DEF Rises
      <4> QED
        BY <4>1
    <3>2. \A j \in 0..k - 1 : j \in 0..(n + 1) - 1
      OBVIOUS
    <3> QED
      BY <3>1, <3>2 DEF BelowPlace, FirstPlaces
  <2>2. k \in 0..n + 1 /\ k \in 0..(n + 1) - 1
    OBVIOUS
  <2> QED
    BY <2>1, <2>2, PlacesCount DEF FirstPlaces
<1>3. ASSUME NEW k \in 0..n PROVE PlaceAt(s, c, k) = e[k]
  <2> DEFINE x == PlaceAt(s, c, k)
  <2>1. x \in E /\ Cardinality(BelowPlace(E, x)) = k
    BY <1>2 DEF PlaceAt
  <2> HIDE DEF x
  <2>2. PICK j \in 0..n : x = e[j]
    BY <2>1 DEF FirstPlaces
  <2> QED
    BY <1>2, <2>1, <2>2 DEF x
<1> QED
  BY <1>1, <1>3

CutInto(p, s, n, e) ==
  /\ Sequence(p) /\ Len(p) = n /\ DOMAIN p = 1..n
  /\ \A k \in 1..n : p[k] = SubSeq(s, e[k - 1] + 1, e[k] - 1)

LEMMA CutsAre ==
  ASSUME NEW s, Sequence(s), NEW c, NEW n \in Nat, NEW e, Rises(n, e), Cuts(s, c) = FirstPlaces(e, n + 1)
  PROVE  CutInto(CutAt(s, c), s, n, e)
<1> DEFINE p == CutAt(s, c)
<1>1. Cardinality(Cuts(s, c)) = n + 1 /\ \A k \in 0..n : PlaceAt(s, c, k) = e[k]
  BY PlacesFound
<1>2. p = [k \in 1..Cardinality(Cuts(s, c)) - 1 |-> SubSeq(s, PlaceAt(s, c, k - 1) + 1, PlaceAt(s, c, k) - 1)]
  BY Zenon DEF CutAt, Cuts, PlaceAt, BelowPlace
<1> HIDE DEF p
<1>3. (n + 1) - 1 = n /\ \A k \in 1..n : k - 1 \in 0..n /\ k \in 0..n
  OBVIOUS
<1>4. p = [k \in 1..n |-> SubSeq(s, PlaceAt(s, c, k - 1) + 1, PlaceAt(s, c, k) - 1)]
  BY <1>1, <1>2, <1>3, Zenon
<1>5. \A k \in 1..n : p[k] = SubSeq(s, PlaceAt(s, c, k - 1) + 1, PlaceAt(s, c, k) - 1)
  BY <1>4, Zenon
<1>6. \A k \in 1..n : p[k] = SubSeq(s, e[k - 1] + 1, e[k] - 1)
  BY <1>1, <1>3, <1>5, Zenon
<1>7. p = [k \in 1..n |-> p[k]]
  BY <1>4
<1> QED
  <2>1. Sequence(p) /\ Len(p) = n /\ DOMAIN p = 1..n
    BY <1>7, SequenceFrom, Zenon
  <2> QED
    BY <1>6, <2>1, Zenon DEF p, CutInto

\* A text that c divides in two, or is not in.
Free(s, c) == \A i \in 1..Len(s) : s[i] # c
Divided(s, a, c, b) ==
  /\ Sequence(s) /\ Sequence(a) /\ Sequence(b) /\ Len(s) = Len(a) + 1 + Len(b)
  /\ \A x \in 1..Len(a) : s[x] = a[x]
  /\ s[Len(a) + 1] = c
  /\ \A y \in 1..Len(b) : s[Len(a) + 1 + y] = b[y]

LEMMA InOne ==
  ASSUME NEW s, Sequence(s), NEW c, Free(s, c)
  PROVE  Len(CutAt(s, c)) = 1 /\ CutAt(s, c)[1] = s
<1> DEFINE e == [k \in 0..1 |-> IF k = 0 THEN 0 ELSE Len(s) + 1]
<1>1. Len(s) \in Nat /\ DOMAIN s = 1..Len(s)
  BY SequenceIs
<1>2. e[0] = 0 /\ e[1] = Len(s) + 1
  OBVIOUS
<1> HIDE DEF e
<1>3. Rises(1, e)
  BY <1>1, <1>2 DEF Rises
<1>4. FirstPlaces(e, 1 + 1) = {0, Len(s) + 1}
  <2>1. FirstPlaces(e, 1 + 1) = {e[k] : k \in {0, 1}}
    <3>1. 0..(1 + 1) - 1 = {0, 1}
      OBVIOUS
    <3> QED
      BY <3>1 DEF FirstPlaces
  <2> QED
    BY <1>2, <2>1
<1>5. Cuts(s, c) = {0, Len(s) + 1}
  BY <1>1 DEF Cuts, Free
<1>6. Len(CutAt(s, c)) = 1 /\ \A k \in 1..1 : CutAt(s, c)[k] = SubSeq(s, e[k - 1] + 1, e[k] - 1)
  <2>1. Cuts(s, c) = FirstPlaces(e, 1 + 1) /\ 1 \in Nat
    BY <1>4, <1>5
  <2> QED
    <3>1. CutInto(CutAt(s, c), s, 1, e)
      BY <1>3, <2>1, CutsAre, Zenon
    <3> QED
      BY <3>1, Zenon DEF CutInto
<1>7. CutAt(s, c)[1] = SubSeq(s, e[0] + 1, e[1] - 1)
  <2>1. 1 \in 1..1 /\ 1 - 1 = 0
    OBVIOUS
  <2> QED
    BY <1>6, <2>1, Zenon
<1>8. e[0] + 1 = 1 /\ e[1] - 1 = Len(s)
  BY <1>1, <1>2
<1> QED
  BY <1>6, <1>7, <1>8, WholeIs

TheTwo(p, a, b) == Len(p) = 2 /\ p[1] = a /\ p[2] = b
LEMMA InTwo ==
  ASSUME NEW s, NEW a, NEW c, NEW b, Divided(s, a, c, b), Free(a, c), Free(b, c)
  PROVE  TheTwo(CutAt(s, c), a, b)
<1> DEFINE n == Len(s)
           k == Len(a)
           l == Len(b)
           e == [i \in 0..2 |-> IF i = 0 THEN 0 ELSE IF i = 1 THEN k + 1 ELSE n + 1]
<1>1. n \in Nat /\ k \in Nat /\ l \in Nat /\ n = k + 1 + l /\ DOMAIN s = 1..n
  BY SequenceIs DEF Divided
<1>2. e[0] = 0 /\ e[1] = k + 1 /\ e[2] = n + 1
  OBVIOUS
<1> HIDE DEF e, n, k, l
<1>3. Rises(2, e)
  <2>1. \A i \in 0..2 : i = 0 \/ i = 1 \/ i = 2
    OBVIOUS
  <2> QED
    BY <1>1, <1>2, <2>1 DEF Rises
<1>4. FirstPlaces(e, 2 + 1) = {0, k + 1, n + 1}
  <2>1. 0..(2 + 1) - 1 = {0, 1, 2}
    OBVIOUS
  <2>2. FirstPlaces(e, 2 + 1) = {e[i] : i \in {0, 1, 2}}
    BY <2>1 DEF FirstPlaces
  <2> QED
    BY <1>2, <2>2
<1>5. Cuts(s, c) = {0, k + 1, n + 1}
  <2>1. ASSUME NEW i \in 1..n PROVE s[i] = c <=> i = k + 1
    <3>1. CASE i \in 1..k
      <4>1. s[i] = a[i] /\ a[i] # c /\ i # k + 1
        BY <1>1, <3>1 DEF Divided, Free, k
      <4> QED
        BY <4>1
    <3>2. CASE i = k + 1
      BY <3>2 DEF Divided, k
    <3>3. CASE i > k + 1
      <4>1. i - (k + 1) \in 1..l /\ k + 1 + (i - (k + 1)) = i
        BY <1>1, <3>3
      <4>2. s[k + 1 + (i - (k + 1))] = b[i - (k + 1)]
        BY <4>1 DEF Divided, k, l
      <4> QED
        BY <3>3, <4>1, <4>2 DEF Free, l
    <3> QED
      BY <1>1, <3>1, <3>2, <3>3
  <2>2. k + 1 \in 1..n
    BY <1>1
  <2> QED
    BY <1>1, <2>1, <2>2 DEF Cuts, n
<1>6. Len(CutAt(s, c)) = 2 /\ \A i \in 1..2 : CutAt(s, c)[i] = SubSeq(s, e[i - 1] + 1, e[i] - 1)
  <2>1. Sequence(s) /\ Cuts(s, c) = FirstPlaces(e, 2 + 1) /\ 2 \in Nat
    BY <1>4, <1>5 DEF Divided
  <2> QED
    <3>1. CutInto(CutAt(s, c), s, 2, e)
      BY <1>3, <2>1, CutsAre, Zenon
    <3> QED
      BY <3>1, Zenon DEF CutInto
<1>7. CutAt(s, c)[1] = SubSeq(s, 1, k) /\ CutAt(s, c)[2] = SubSeq(s, k + 2, n)
  <2>1. 1 \in 1..2 /\ 2 \in 1..2 /\ 1 - 1 = 0 /\ 2 - 1 = 1
    OBVIOUS
  <2>2. CutAt(s, c)[1] = SubSeq(s, e[0] + 1, e[1] - 1) /\ CutAt(s, c)[2] = SubSeq(s, e[1] + 1, e[2] - 1)
    BY <1>6, <2>1, Zenon
  <2>3. e[0] + 1 = 1 /\ e[1] - 1 = k /\ e[1] + 1 = k + 2 /\ e[2] - 1 = n
    BY <1>1, <1>2
  <2> QED
    BY <2>2, <2>3
<1>8. SubSeq(s, 1, k) = a
  <2> DEFINE p == SubSeq(s, 1, k)
  <2>1. CutOut(p, s, 1, k)
    <3>1. Sequence(s) /\ 1 \in Nat /\ 1 >= 1 /\ k =< Len(s)
      BY <1>1 DEF Divided, n
    <3> QED
      BY <1>1, <3>1, CutOutIs, Zenon
  <2> HIDE DEF p
  <2>2. Sequence(p) /\ Len(p) = k /\ \A x \in 1..k : p[x] = s[x]
    <3>1. (IF 1 =< k THEN k - 1 + 1 ELSE 0) = k /\ k - 1 + 1 = k /\ \A x \in 1..k : 1 + x - 1 = x
      BY <1>1
    <3>2. Sequence(p) /\ Len(p) = k /\ \A x \in 1..k : p[x] = s[1 + x - 1]
      BY <2>1, <3>1 DEF CutOut
    <3> QED
      BY <3>1, <3>2
  <2>3. \A x \in 1..Len(p) : p[x] = a[x]
    BY <2>2 DEF Divided, k
  <2> QED
    BY <2>2, <2>3, SameText DEF p, k, Divided
<1>9. SubSeq(s, k + 2, n) = b
  <2> DEFINE p == SubSeq(s, k + 2, n)
  <2>1. CutOut(p, s, k + 2, n)
    <3>1. Sequence(s) /\ k + 2 \in Nat /\ k + 2 >= 1 /\ n =< Len(s)
      BY <1>1 DEF Divided, n
    <3> QED
      BY <1>1, <3>1, CutOutIs, Zenon
  <2> HIDE DEF p
  <2>2. Sequence(p) /\ Len(p) = l /\ \A x \in 1..l : p[x] = s[k + 1 + x]
    <3>1. /\ (IF k + 2 =< n THEN n - (k + 2) + 1 ELSE 0) = l /\ n - (k + 2) + 1 = l
          /\ \A x \in 1..l : k + 2 + x - 1 = k + 1 + x
      BY <1>1
    <3>2. Sequence(p) /\ Len(p) = l /\ \A x \in 1..l : p[x] = s[k + 2 + x - 1]
      BY <2>1, <3>1 DEF CutOut
    <3> QED
      BY <3>1, <3>2
  <2>3. \A x \in 1..Len(p) : p[x] = b[x]
    BY <2>2 DEF Divided, k, l
  <2> QED
    BY <2>2, <2>3, SameText DEF p, l, Divided
<1> QED
  BY <1>6, <1>7, <1>8, <1>9 DEF TheTwo

\* The texts that were joined, each behind one c but the first, which stands
\* behind something else: cutting at c what follows that gives them back.
PieceFits(piece, c) == Sequence(piece) /\ Len(piece) >= 1 /\ \A y \in 2..Len(piece) : piece[y] # c
Tail1(rest, whole) ==
  /\ Sequence(rest) /\ Len(rest) \in Nat /\ Len(whole) = Len(rest) + 1
  /\ \A y \in 1..Len(rest) : rest[y] = whole[y + 1]

\* Each place of the whole is in one of the texts.
InOneOf(ss, f, x) == \E k \in 1..Len(ss) : \E y \in 1..Len(ss[k]) : x = Len(f[k - 1]) + y
LEMMA PlaceIsIn ==
  ASSUME NEW ss, Sequence(ss), \A i \in 1..Len(ss) : Sequence(ss[i]), NEW f, Joining(ss, f),
         NEW x \in 1..Len(f[Len(ss)])
  PROVE  InOneOf(ss, f, x)
<1> DEFINE n == Len(ss)
           S == {k \in 0..n : x =< Len(f[k])}
<1>1. n \in Nat /\ Places(ss, f) /\ f[0] = <<>>
  BY SequenceIs, JoinedPlaces DEF Joining
<1>2. \A k \in 0..n : Len(f[k]) \in Nat
  BY SequenceIs DEF Joining
<1>3. S \in SUBSET Nat /\ n \in S
  BY <1>1, <1>2
<1>4. PICK k \in S : \A j \in S : k =< j
  BY <1>3, HasLeast
<1>5. k # 0
  BY <1>1, <1>4
<1>6. k \in 1..n /\ k - 1 \in 0..n /\ ~(k =< k - 1)
  BY <1>1, <1>4, <1>5
<1>7. ~(x =< Len(f[k - 1])) /\ x =< Len(f[k])
  BY <1>4, <1>6
<1> DEFINE a == Len(f[k - 1])
           l == Len(ss[k])
           m == Len(f[k])
<1>8. m = a + l /\ a \in Nat /\ l \in Nat
  BY <1>1, <1>6 DEF Places
<1>11. ~(x =< a) /\ x =< m /\ x \in Nat
  <2>1. x \in Nat
    <3>1. Len(f[n]) \in Nat
      BY <1>1, <1>2
    <3> QED
      BY <3>1
  <2> QED
    BY <1>7, <2>1
<1> HIDE DEF a, l, m
<1>9. x \in Nat /\ x > a /\ x =< m /\ m = a + l /\ a \in Nat /\ l \in Nat
  BY <1>8, <1>11
<1> HIDE DEF n, S
<1>10. x - a \in 1..l /\ x = a + (x - a)
  BY <1>9
<1> QED
  BY <1>6, <1>10 DEF a, l, n, InOneOf

\* Joined pieces that start with c and have no other come back when cut at c, without it.
LEMMA PiecesComeBack ==
  ASSUME NEW ss, Sequence(ss), NEW c, \A i \in 1..Len(ss) : PieceFits(ss[i], c),
         \A i \in 2..Len(ss) : ss[i][1] = c, Len(ss) >= 1, NEW f, Joining(ss, f),
         NEW rest, Tail1(rest, f[Len(ss)])
  PROVE  /\ Len(CutAt(rest, c)) = Len(ss) /\ DOMAIN CutAt(rest, c) = 1..Len(ss)
         /\ \A k \in 1..Len(ss) : Tail1(CutAt(rest, c)[k], ss[k])
<1> DEFINE n == Len(ss)
           e == [k \in 0..n |-> Len(f[k])]
           m == Len(rest)
           w == f[n]
<1>1. n \in Nat /\ n >= 1 /\ f[0] = <<>> /\ Places(ss, f) /\ \A i \in 1..n : Sequence(ss[i])
  BY SequenceIs, JoinedPlaces DEF Joining, PieceFits
<1>2. m \in Nat /\ Len(w) = m + 1 /\ DOMAIN rest = 1..m /\ \A y \in 1..m : rest[y] = w[y + 1]
  BY SequenceIs DEF Tail1
<1>3. \A k \in 0..n : e[k] = Len(f[k]) /\ e[k] \in Nat
  BY SequenceIs DEF Joining
<1>4. e[0] = 0 /\ e[n] = m + 1
  BY <1>1, <1>2, <1>3
<1>5. \A k \in 1..n : /\ k - 1 \in 0..n /\ e[k] = e[k - 1] + Len(ss[k]) /\ Len(ss[k]) \in Nat /\ Len(ss[k]) >= 1
                      /\ \A y \in 1..Len(ss[k]) : e[k - 1] + y \in 1..m + 1 /\ w[e[k - 1] + y] = ss[k][y]
  <2> SUFFICES ASSUME NEW k \in 1..n
               PROVE  /\ k - 1 \in 0..n /\ e[k] = e[k - 1] + Len(ss[k]) /\ Len(ss[k]) \in Nat /\ Len(ss[k]) >= 1
                      /\ \A y \in 1..Len(ss[k]) : e[k - 1] + y \in 1..m + 1 /\ w[e[k - 1] + y] = ss[k][y]
    OBVIOUS
  <2>1. k \in 0..n /\ k - 1 \in 0..n
    BY <1>1
  <2>2. e[k] = Len(f[k]) /\ e[k - 1] = Len(f[k - 1])
    BY <1>3, <2>1
  <2> HIDE DEF e, w, m
  <2>3. Len(f[k]) = Len(f[k - 1]) + Len(ss[k]) /\ Len(ss[k]) \in Nat /\ Len(ss[k]) >= 1
    BY <1>1 DEF Places, PieceFits
  <2>4. \A y \in 1..Len(ss[k]) : Len(f[k - 1]) + y \in 1..Len(w) /\ w[Len(f[k - 1]) + y] = ss[k][y]
    BY <1>1 DEF Places, w
  <2> QED
    BY <1>2, <2>1, <2>2, <2>3, <2>4
<1> HIDE DEF e, m, w, n
<1>6. Rises(n, e)
  <2> DEFINE S(j) == {k \in 0..n : j < k => e[j] < e[k]}
  <2>1. ASSUME NEW j \in 0..n PROVE 0..n \subseteq S(j)
    <3>1. 0 \in S(j)
      BY <1>1
    <3>2. ASSUME NEW k \in 0..n - 1, k \in S(j) PROVE k + 1 \in S(j)
      <4>1. k + 1 \in 1..n /\ (k + 1) - 1 = k /\ k \in 0..n /\ k + 1 \in 0..n
        BY <1>1
      <4>2. e[k + 1] = e[k] + Len(ss[k + 1]) /\ Len(ss[k + 1]) \in Nat /\ Len(ss[k + 1]) >= 1
        BY <1>5, <4>1
      <4>3. e[k] \in Nat /\ e[j] \in Nat /\ e[k + 1] \in Nat
        BY <1>3, <4>1
      <4>4. e[k] < e[k + 1]
        BY <4>2, <4>3
      <4>5. j < k + 1 => e[j] < e[k + 1]
        <5>1. j < k + 1 => j < k \/ j = k
          BY <4>1
        <5> QED
          BY <3>2, <4>3, <4>4, <5>1
      <4> QED
        BY <4>1, <4>5
    <3> HIDE DEF S
    <3> QED
      BY <1>1, <3>1, <3>2, CountUp
  <2>2. \A j, k \in 0..n : j < k => e[j] < e[k]
    BY <2>1
  <2> QED
    BY <1>3, <2>2 DEF Rises
<1>7. ASSUME NEW x \in 1..m PROVE rest[x] = c <=> \E k \in 1..n - 1 : x = e[k]
  <2>1. x + 1 \in 1..Len(w) /\ rest[x] = w[x + 1]
    BY <1>2
  <2>2. PICK k \in 1..n : \E y \in 1..Len(ss[k]) : x + 1 = Len(f[k - 1]) + y
    <3>1. x + 1 \in 1..Len(f[Len(ss)]) /\ \A i \in 1..Len(ss) : Sequence(ss[i])
      BY <1>1, <2>1 DEF n, w
    <3>2. InOneOf(ss, f, x + 1)
      BY <3>1, PlaceIsIn, Zenon
    <3> QED
      BY <3>2, Zenon DEF n, InOneOf
  <2>3. PICK y \in 1..Len(ss[k]) : x + 1 = Len(f[k - 1]) + y
    BY <2>2
  <2>4. e[k - 1] = Len(f[k - 1]) /\ e[k - 1] \in Nat /\ rest[x] = ss[k][y] /\ x + 1 = e[k - 1] + y
    <3>1. k - 1 \in 0..n
      BY <1>1
    <3> QED
      BY <1>3, <1>5, <2>1, <2>3, <3>1
  <2>5. CASE y = 1
    <3>1. x = e[k - 1] /\ k # 1
      BY <1>4, <2>4, <2>5
    <3>2. k \in 2..Len(ss) /\ k - 1 \in 1..n - 1
      BY <1>1, <3>1 DEF n
    <3>3. rest[x] = c
      BY <2>4, <2>5, <3>2
    <3> QED
      BY <3>1, <3>2, <3>3
  <2>6. CASE y # 1
    <3>1. y \in 2..Len(ss[k])
      BY <1>5, <2>6
    <3>2. rest[x] # c
      BY <2>4, <3>1 DEF PieceFits, n
    <3>3. ASSUME NEW j \in 1..n - 1, x = e[j] PROVE FALSE
      <4>1. j + 1 \in 1..n /\ (j + 1) - 1 = j /\ j + 1 \in 2..Len(ss)
        BY <1>1 DEF n
      <4>2. 1 \in 1..Len(ss[j + 1])
        BY <1>5, <4>1
      <4>3. w[e[j] + 1] = ss[j + 1][1]
        BY <1>5, <4>1, <4>2
      <4>4. ss[j + 1][1] = c
        BY <4>1
      <4> QED
        BY <2>1, <3>2, <3>3, <4>3, <4>4
    <3> QED
      BY <3>2, <3>3
  <2> QED
    BY <2>5, <2>6
<1>8. Cuts(rest, c) = FirstPlaces(e, n + 1)
  <2>1. ASSUME NEW x \in Cuts(rest, c) PROVE x \in FirstPlaces(e, n + 1)
    <3>1. x = 0 \/ x = m + 1 \/ (x \in 1..m /\ rest[x] = c)
      BY <1>2 DEF Cuts, m
    <3>2. \E k \in 0..n : x = e[k]
      <4>1. 0 \in 0..n /\ n \in 0..n /\ \A k \in 1..n - 1 : k \in 0..n
        BY <1>1
      <4> QED
        BY <1>4, <1>7, <3>1, <4>1
    <3>3. (n + 1) - 1 = n
      BY <1>1
    <3> QED
      BY <3>2, <3>3 DEF FirstPlaces
  <2>2. ASSUME NEW k \in 0..n PROVE e[k] \in Cuts(rest, c)
    <3>1. CASE k = 0 \/ k = n
      BY <1>4, <3>1 DEF Cuts, m
    <3>2. CASE k # 0 /\ k # n
      <4>1. k \in 1..n - 1 /\ 0 < k /\ k < n /\ 0 \in 0..n /\ n \in 0..n
        BY <1>1, <3>2
      <4>2. e[0] < e[k] /\ e[k] < e[n] /\ e[k] \in Nat
        BY <1>3, <1>6, <4>1 DEF Rises
      <4>3. e[k] \in 1..m
        BY <1>2, <1>4, <4>2
      <4>4. rest[e[k]] = c
        BY <1>7, <4>1, <4>3
      <4> QED
        BY <1>2, <4>3, <4>4 DEF Cuts
    <3> QED
      BY <3>1, <3>2
  <2>3. \A x \in FirstPlaces(e, n + 1) : \E k \in 0..n : x = e[k]
    <3>1. (n + 1) - 1 = n
      BY <1>1
    <3> QED
      BY <3>1 DEF FirstPlaces
  <2>4. \A x \in FirstPlaces(e, n + 1) : x \in Cuts(rest, c)
    BY <2>2, <2>3
  <2> QED
    BY <2>1, <2>4
<1>9. Sequence(rest)
  BY DEF Tail1
<1>10. /\ Len(CutAt(rest, c)) = n /\ DOMAIN CutAt(rest, c) = 1..n
       /\ \A k \in 1..n : CutAt(rest, c)[k] = SubSeq(rest, e[k - 1] + 1, e[k] - 1)
  <2>1. n \in Nat
    BY <1>1
  <2>2. CutInto(CutAt(rest, c), rest, n, e)
    BY <1>6, <1>8, <1>9, <2>1, CutsAre, Zenon
  <2> QED
    BY <2>2, Zenon DEF CutInto
<1>11. ASSUME NEW k \in 1..n PROVE Tail1(SubSeq(rest, e[k - 1] + 1, e[k] - 1), ss[k])
  <2> DEFINE a == e[k - 1]
             b == e[k]
             l == Len(ss[k])
             p == SubSeq(rest, a + 1, b - 1)
  <2>1. a \in Nat /\ l \in Nat /\ l >= 1 /\ b = a + l /\ b =< m + 1
    <3>1. k - 1 \in 0..n /\ l \in Nat /\ l >= 1 /\ b = a + l
      BY <1>5
    <3>2. a \in Nat
      BY <1>3, <3>1
    <3>3. l \in 1..l
      BY <3>1
    <3>4. a + l \in 1..m + 1
      BY <1>5, <3>3
    <3> HIDE DEF a, b, l
    <3> QED
      BY <1>2, <3>1, <3>2, <3>4
  <2>2. \A y \in 1..l : w[a + y] = ss[k][y]
    BY <1>5
  <2> HIDE DEF a, b, l
  <2>3. CutOut(p, rest, a + 1, b - 1)
    <3>1. a + 1 \in Nat /\ a + 1 >= 1 /\ b - 1 \in Nat /\ b - 1 =< Len(rest)
      BY <1>2, <2>1 DEF m
    <3> QED
      BY <1>9, <3>1, CutOutIs, Zenon
  <2> HIDE DEF p
  <2>4. /\ (IF a + 1 =< b - 1 THEN (b - 1) - (a + 1) + 1 ELSE 0) = l - 1 /\ (b - 1) - (a + 1) + 1 = l - 1
        /\ \A x \in 1..l - 1 : (a + 1) + x - 1 = a + x /\ a + x \in 1..m /\ (a + x) + 1 = a + (x + 1) /\ x + 1 \in 1..l
    BY <1>2, <2>1
  <2>5. Sequence(p) /\ Len(p) = l - 1 /\ \A x \in 1..l - 1 : p[x] = rest[(a + 1) + x - 1]
    BY <2>3, <2>4 DEF CutOut
  <2>6. ASSUME NEW x \in 1..l - 1 PROVE p[x] = ss[k][x + 1]
    <3>1. p[x] = rest[a + x] /\ a + x \in 1..m /\ (a + x) + 1 = a + (x + 1) /\ x + 1 \in 1..l
      BY <2>4, <2>5
    <3>2. rest[a + x] = w[a + (x + 1)]
      BY <1>2, <3>1
    <3> QED
      BY <2>2, <3>1, <3>2
  <2>7. l - 1 \in Nat /\ l = (l - 1) + 1
    BY <2>1
  <2> QED
    BY <2>5, <2>6, <2>7 DEF Tail1, p, l, a, b
<1> QED
  BY <1>10, <1>11 DEF n

\* A text that was escaped holds nothing reserved, and comes back.
Escaped(c) == "%" \o c
TextOk(t) == Sequence(t) /\ \A c \in Reserved : Escaped(c) \notin Range(t)
EscapesOk ==
  \A c, d \in Reserved : Escaped(c) \notin Reserved /\ (Escaped(c) = Escaped(d) => c = d)

LEMMA EscapesAreOk == EscapesOk
  BY RestAssumption DEF EscapesOk, Escaped

EscapedText(e, t) ==
  /\ Sequence(e) /\ Len(e) = Len(t) /\ Unescape(e) = t
  /\ \A c \in Reserved : Free(e, c)

\* What is escaped holds none of the reserved characters and reads as it was.
LEMMA EscapeGoes ==
  ASSUME NEW t, TextOk(t) PROVE EscapedText(Escape(t), t)
<1> DEFINE e == Escape(t)
           n == Len(t)
           u == Unescape(e)
           of(x) == IF \E c \in Reserved : x = Escaped(c) THEN CHOOSE c \in Reserved : x = Escaped(c) ELSE x
<1>1. Sequence(t) /\ n \in Nat /\ DOMAIN t = 1..n /\ t = [i \in 1..n |-> t[i]]
  BY SequenceIs DEF TextOk
<1>2. e = [i \in 1..n |-> IF t[i] \in Reserved THEN Escaped(t[i]) ELSE t[i]]
  BY <1>1 DEF Escape, Escaped
<1> HIDE DEF e
<1>3. e = [i \in 1..n |-> e[i]] /\ \A i \in 1..n : e[i] = IF t[i] \in Reserved THEN Escaped(t[i]) ELSE t[i]
  BY <1>2
<1>4. Sequence(e) /\ Len(e) = n /\ DOMAIN e = 1..n
  BY <1>1, <1>3, SequenceFrom, Zenon
<1>5. u = [i \in 1..n |-> of(e[i])]
  BY <1>4 DEF Unescape, Escaped
<1> HIDE DEF u
<1>6. ASSUME NEW i \in 1..n PROVE of(e[i]) = t[i] /\ e[i] \notin Reserved
  <2>1. CASE t[i] \in Reserved
    <3>1. e[i] = Escaped(t[i])
      BY <1>3, <2>1
    <3>2. \A c \in Reserved : e[i] = Escaped(c) <=> c = t[i]
      BY <2>1, <3>1, EscapesAreOk DEF EscapesOk
    <3>3. (CHOOSE c \in Reserved : e[i] = Escaped(c)) = t[i]
      BY <2>1, <3>1, <3>2
    <3> QED
      BY <2>1, <3>1, <3>3, EscapesAreOk DEF EscapesOk
  <2>2. CASE t[i] \notin Reserved
    <3>1. e[i] = t[i] /\ t[i] \in Range(t)
      BY <1>1, <1>3, <2>2 DEF Range
    <3>2. \A c \in Reserved : e[i] # Escaped(c)
      BY <3>1 DEF TextOk
    <3> QED
      BY <2>2, <3>1, <3>2
  <2> QED
    BY <2>1, <2>2
<1> HIDE DEF of
<1>7. u = t
  BY <1>1, <1>5, <1>6
<1>8. \A c \in Reserved : Free(e, c)
  BY <1>4, <1>6 DEF Free
<1> QED
  BY <1>4, <1>7, <1>8 DEF EscapedText, e, u, n

\* A name and its value as they stand in the url.
PairText(sep, n, v) == sep \o n \o <<"=">> \o v
PairStands(w, sep, n, v) ==
  /\ Sequence(w) /\ Len(w) >= 1 /\ w[1] = sep
  /\ \A y \in 2..Len(w) : w[y] \notin {"&", "?"}
  /\ \A p : Tail1(p, w) => Divided(p, n, "=", v)

LEMMA NotAlike == "=" \notin {"&", "?"} /\ "&" # "?" /\ {"=", "&", "?"} \subseteq Reserved
BY DEF Reserved

LEMMA OneIs == ASSUME NEW c PROVE Sequence(<<c>>) /\ Len(<<c>>) = 1 /\ <<c>>[1] = c
BY DEF Sequence, Range

LEMMA LessOne ==
  ASSUME NEW m \in Nat, NEW k \in Nat, NEW l \in Nat, m + 1 = k + 2 + l PROVE m = k + 1 + l
OBVIOUS

\* A name, "=" and a value: a text with one "=", behind its separator.
LEMMA PairIsText ==
  ASSUME NEW sep, NEW n, NEW v, Sequence(n), Sequence(v), \A c \in Reserved : Free(n, c) /\ Free(v, c)
  PROVE  PairStands(PairText(<<sep>>, n, v), sep, n, v)
<1> DEFINE w == PairText(<<sep>>, n, v)
           s1 == <<sep>> \o n
           s2 == s1 \o <<"=">>
           k == Len(n)
           l == Len(v)
<1>1. Behind(s1, <<sep>>, n) /\ Sequence(s1)
  BY OneIs, BehindIs
<1>2. Behind(s2, s1, <<"=">>) /\ Sequence(s2)
  BY <1>1, OneIs, BehindIs, Zenon
<1>3. Behind(w, s2, v) /\ Sequence(w)
  <2>1. w = s2 \o v
    BY DEF PairText
  <2> QED
    BY <1>2, <2>1, BehindIs, Zenon
<1>4. /\ Len(<<sep>>) = 1 /\ <<sep>>[1] = sep /\ Len(<<"=">>) = 1 /\ <<"=">>[1] = "="
  BY OneIs
<1> HIDE DEF w, s1, s2
<1>5. k \in Nat /\ l \in Nat /\ Len(s1) = 1 + k /\ Len(s2) = k + 2 /\ Len(w) = k + 2 + l
  BY <1>1, <1>2, <1>3, <1>4 DEF Behind
<1> HIDE DEF k, l
<1>6. w[1] = sep
  <2>1. 1 \in 1..1 /\ 1 \in 1..Len(s1) /\ 1 \in 1..Len(s2)
    BY <1>5
  <2>2. s1[1] = sep
    BY <1>1, <1>4, <2>1 DEF Behind
  <2> QED
    BY <1>2, <1>3, <2>1, <2>2 DEF Behind
<1>7. \A x \in 1..k : w[1 + x] = n[x]
  <2> SUFFICES ASSUME NEW x \in 1..k PROVE w[1 + x] = n[x]
    OBVIOUS
  <2>1. 1 + x \in 1..Len(s1) /\ 1 + x \in 1..Len(s2)
    BY <1>5
  <2>2. s1[1 + x] = n[x]
    BY <1>1, <1>4 DEF Behind, k
  <2> QED
    BY <1>2, <1>3, <2>1, <2>2 DEF Behind
<1>8. w[k + 2] = "="
  <2>1. k + 2 \in 1..Len(s2) /\ k + 2 = Len(s1) + 1 /\ 1 \in 1..1
    BY <1>5
  <2>2. s2[k + 2] = "="
    BY <1>2, <1>4, <2>1 DEF Behind
  <2> QED
    BY <1>3, <2>1, <2>2 DEF Behind
<1>9. \A x \in 1..l : w[k + 2 + x] = v[x]
  BY <1>3, <1>5 DEF Behind, l
<1>10. \A y \in 2..Len(w) : w[y] \notin {"&", "?"}
  <2> SUFFICES ASSUME NEW y \in 2..Len(w) PROVE w[y] \notin {"&", "?"}
    OBVIOUS
  <2>1. CASE y =< k + 1
    <3>1. y - 1 \in 1..k /\ 1 + (y - 1) = y
      BY <1>5, <2>1
    <3>2. w[y] = n[y - 1]
      BY <1>7, <3>1
    <3> QED
      BY <3>1, <3>2, NotAlike DEF Free, k
  <2>2. CASE y = k + 2
    BY <1>8, <2>2, NotAlike
  <2>3. CASE y > k + 2
    <3>1. y - (k + 2) \in 1..l /\ k + 2 + (y - (k + 2)) = y
      BY <1>5, <2>3
    <3>2. w[y] = v[y - (k + 2)]
      BY <1>9, <3>1
    <3> QED
      BY <3>1, <3>2, NotAlike DEF Free, l
  <2> QED
    BY <1>5, <2>1, <2>2, <2>3
<1>11. ASSUME NEW p, Tail1(p, w) PROVE Divided(p, n, "=", v)
  <2> DEFINE m == Len(p)
  <2>1. Sequence(p) /\ m \in Nat /\ Len(w) = m + 1 /\ \A y \in 1..m : p[y] = w[y + 1]
    BY <1>11 DEF Tail1
  <2> HIDE DEF m
  <2>2. m = k + 1 + l
    <3>1. m + 1 = k + 2 + l
      BY <1>5, <2>1
    <3> QED
      BY <1>5, <2>1, <3>1, LessOne, Zenon
  <2>3. \A x \in 1..k : p[x] = n[x]
    <3>1. \A x \in 1..k : x \in 1..m /\ x + 1 = 1 + x
      BY <1>5, <2>2
    <3> QED
      BY <1>7, <2>1, <3>1
  <2>4. p[k + 1] = "="
    <3>1. k + 1 \in 1..m /\ (k + 1) + 1 = k + 2
      BY <1>5, <2>2
    <3> QED
      BY <1>8, <2>1, <3>1
  <2>5. \A x \in 1..l : p[k + 1 + x] = v[x]
    <3>1. \A x \in 1..l : k + 1 + x \in 1..m /\ (k + 1 + x) + 1 = k + 2 + x
      BY <1>5, <2>2
    <3> QED
      BY <1>9, <2>1, <3>1
  <2> QED
    BY <2>1, <2>2, <2>3, <2>4, <2>5 DEF Divided, k, l, m
<1> QED
  BY <1>3, <1>5, <1>6, <1>10, <1>11 DEF PairStands, w

\* The query of a url: the pairs of names and values, and what is read of it.
QueryOk(q) ==
  /\ Sequence(q)
  /\ \A i \in 1..Len(q) : /\ q[i] = [name |-> q[i].name, value |-> q[i].value]
                          /\ TextOk(q[i].name) /\ TextOk(q[i].value)
SepOf(i) == IF i = 1 THEN "?" ELSE "&"
PairsOf(q) == [i \in DOMAIN q |-> PairText(<<SepOf(i)>>, Escape(q[i].name), Escape(q[i].value))]
TextRead(t) == [name |-> Unescape(CutAt(t, "=")[1]), value |-> Unescape(CutAt(t, "=")[2])]

LEMMA PairsStand ==
  ASSUME NEW q, QueryOk(q), NEW i \in 1..Len(q)
  PROVE  PairStands(PairsOf(q)[i], SepOf(i), Escape(q[i].name), Escape(q[i].value))
<1> DEFINE e == Escape(q[i].name)
           v == Escape(q[i].value)
<1>1. TextOk(q[i].name) /\ TextOk(q[i].value)
  BY DEF QueryOk
<1>2. EscapedText(e, q[i].name) /\ EscapedText(v, q[i].value)
  BY <1>1, EscapeGoes
<1>3. DOMAIN q = 1..Len(q)
  BY SequenceIs DEF QueryOk
<1>4. PairsOf(q)[i] = PairText(<<SepOf(i)>>, e, v)
  BY <1>3 DEF PairsOf
<1> HIDE DEF e, v
<1>5. PairStands(PairText(<<SepOf(i)>>, e, v), SepOf(i), e, v)
  <2>1. Sequence(e) /\ Sequence(v) /\ \A c \in Reserved : Free(e, c) /\ Free(v, c)
    BY <1>2 DEF EscapedText
  <2> QED
    BY <2>1, PairIsText, Zenon
<1> QED
  BY <1>4, <1>5 DEF e, v

LEMMA PairComesBack ==
  ASSUME NEW q, QueryOk(q), NEW i \in 1..Len(q), NEW p, Tail1(p, PairsOf(q)[i])
  PROVE  TextRead(p) = q[i]
<1> DEFINE n == q[i].name
           v == q[i].value
<1>1. TextOk(n) /\ TextOk(v) /\ q[i] = [name |-> n, value |-> v]
  BY DEF QueryOk
<1>2. EscapedText(Escape(n), n) /\ EscapedText(Escape(v), v)
  BY <1>1, EscapeGoes
<1>3. Divided(p, Escape(n), "=", Escape(v))
  BY PairsStand DEF PairStands
<1> HIDE DEF n, v
<1>4. Free(Escape(n), "=") /\ Free(Escape(v), "=")
  BY <1>2, NotAlike DEF EscapedText
<1>5. CutAt(p, "=")[1] = Escape(n) /\ CutAt(p, "=")[2] = Escape(v)
  <2>1. TheTwo(CutAt(p, "="), Escape(n), Escape(v))
    BY <1>3, <1>4, InTwo, Zenon
  <2> QED
    BY <2>1 DEF TheTwo
<1>6. Unescape(Escape(n)) = n /\ Unescape(Escape(v)) = v
  BY <1>2 DEF EscapedText
<1> QED
  BY <1>1, <1>5, <1>6 DEF TextRead

UrlReads(url, base, q) == ReadUrl(url).where = base /\ ReadUrl(url).query = q
LEMMA QueryComesBack ==
  ASSUME NEW base, Sequence(base), Free(base, "?"), NEW q, QueryOk(q),
         NEW url, url = base \o FlattenSeq(PairsOf(q))
  PROVE  UrlReads(url, base, q)
<1> DEFINE n == Len(q)
           ss == PairsOf(q)
           parts == CutAt(url, "?")
           pairs == IF Len(parts) = 1 THEN <<>> ELSE CutAt(parts[2], "&")
<1>1. n \in Nat /\ DOMAIN q = 1..n /\ q = [i \in 1..n |-> q[i]]
  BY SequenceIs DEF QueryOk
<1>2. ASSUME NEW i \in 1..n PROVE PairStands(ss[i], SepOf(i), Escape(q[i].name), Escape(q[i].value))
  BY PairsStand
<1>3. ss = [i \in DOMAIN q |-> ss[i]]
  BY DEF PairsOf
<1> HIDE DEF ss
<1>4. \A i \in 1..Len(q) : Sequence(ss[i])
  BY <1>2 DEF PairStands
<1>5. PICK f : Joining(ss, f) /\ FlattenSeq(ss) = f[n] /\ Sequence(ss) /\ Len(ss) = n
  <2>1. Sequence(q)
    BY DEF QueryOk
  <2> QED
    BY <1>3, <1>4, <2>1, Encoded
<1>10. Sequence(f[n]) /\ Places(ss, f)
  <2>1. n \in 0..Len(ss)
    BY <1>1, <1>5
  <2> QED
    BY <1>4, <1>5, <2>1, JoinedPlaces DEF Joining
<1>6. url = base \o f[n]
  BY <1>5 DEF ss
<1>7. ReadUrl(url).where = parts[1] /\ ReadUrl(url).query = [i \in DOMAIN pairs |-> TextRead(pairs[i])]
  BY DEF ReadUrl, TextRead
<1> HIDE DEF pairs, parts
<1>8. CASE n = 0
  <2>1. f[n] = <<>>
    BY <1>5, <1>8 DEF Joining
  <2>2. url = base
    <3>1. base \in Seq(Range(base))
      BY DEF Sequence
    <3> QED
      BY <1>6, <2>1, <3>1
  <2>3. Len(parts) = 1 /\ parts[1] = base
    BY <2>2, InOne DEF parts
  <2>4. pairs = <<>>
    BY <2>3 DEF pairs
  <2>5. q = <<>>
    BY <1>1, <1>8
  <2>6. [i \in DOMAIN pairs |-> TextRead(pairs[i])] = q
    BY <2>4, <2>5, NothingThere
  <2> QED
    BY <1>7, <2>3, <2>6 DEF UrlReads
<1>9. CASE n # 0
  <2> DEFINE w == f[n]
             rest == SubSeq(w, 2, Len(w))
  <2>1. n >= 1 /\ 1 \in 1..n
    BY <1>1, <1>9
  <2>2. \A i \in 1..n : PieceFits(ss[i], "&") /\ \A y \in 2..Len(ss[i]) : ss[i][y] # "?"
    BY <1>2 DEF PairStands, PieceFits
  <2>3. ss[1][1] = "?" /\ \A i \in 2..n : ss[i][1] = "&"
    BY <1>2, <2>1 DEF PairStands, SepOf
  <2>4. Sequence(w) /\ Len(w) \in Nat /\ Len(w) >= 1 /\ w[1] = "?"
    <3>1. Places(ss, f) /\ f[0] = <<>> /\ Len(f[0]) = 0
      BY <1>5, <1>10 DEF Joining
    <3>2. 1 \in 1..Len(ss[1])
      <4>1. Sequence(ss[1]) /\ Len(ss[1]) >= 1
        BY <2>1, <2>2 DEF PieceFits
      <4> QED
        BY <4>1, SequenceIs
    <3>3. 1 - 1 = 0 /\ Len(f[0]) + 1 = 1
      BY <3>1
    <3>4. Len(f[1 - 1]) + 1 \in 1..Len(f[n]) /\ f[n][Len(f[1 - 1]) + 1] = ss[1][1]
      BY <1>5, <2>1, <3>1, <3>2, Zenon DEF Places
    <3>5. 1 \in 1..Len(w) /\ w[1] = "?"
      BY <2>3, <3>3, <3>4
    <3>6. Sequence(w)
      BY <1>10
    <3> HIDE DEF w
    <3> QED
      BY <3>5, <3>6, SequenceIs
  <2> HIDE DEF w
  <2>5. Tail1(rest, w)
    <3> DEFINE m == Len(w)
    <3>1. CutOut(rest, w, 2, m)
      <4>1. 2 \in Nat /\ 2 >= 1 /\ m =< Len(w) /\ m \in Nat
        BY <2>4
      <4> QED
        BY <2>4, <4>1, CutOutIs, Zenon
    <3> HIDE DEF rest
    <3>5. m \in Nat /\ m >= 1
      BY <2>4
    <3> HIDE DEF m
    <3>2. /\ (IF 2 =< m THEN m - 2 + 1 ELSE 0) = m - 1 /\ m - 2 + 1 = m - 1 /\ m - 1 \in Nat /\ m = (m - 1) + 1
          /\ \A y \in 1..m - 1 : 2 + y - 1 = y + 1
      BY <3>5
    <3>3. Sequence(rest) /\ Len(rest) = m - 1 /\ \A y \in 1..m - 1 : rest[y] = w[2 + y - 1]
      BY <3>1, <3>2 DEF CutOut
    <3>4. \A y \in 1..m - 1 : rest[y] = w[y + 1]
      BY <3>2, <3>3
    <3> QED
      BY <3>2, <3>3, <3>4 DEF Tail1, m
  <2> HIDE DEF rest
  <2>6. Free(rest, "?")
    <3> SUFFICES ASSUME NEW y \in 1..Len(rest) PROVE rest[y] # "?"
      BY DEF Free
    <3>1. rest[y] = w[y + 1] /\ y + 1 \in 1..Len(w) /\ y \in Nat /\ y # 0
      BY <2>5 DEF Tail1
    <3>2. InOneOf(ss, f, y + 1)
      <4>1. y + 1 \in 1..Len(f[Len(ss)]) /\ \A i \in 1..Len(ss) : Sequence(ss[i])
        BY <1>4, <1>5, <3>1 DEF w
      <4> QED
        BY <1>5, <4>1, PlaceIsIn, Zenon
    <3>3. PICK k \in 1..n : \E z \in 1..Len(ss[k]) : y + 1 = Len(f[k - 1]) + z
      BY <1>5, <3>2 DEF InOneOf
    <3>4. PICK z \in 1..Len(ss[k]) : y + 1 = Len(f[k - 1]) + z
      BY <3>3
    <3>5. rest[y] = ss[k][z]
      <4>1. f[n][Len(f[k - 1]) + z] = ss[k][z]
        BY <1>5, <1>10 DEF Places
      <4> QED
        BY <3>1, <3>4, <4>1 DEF w
    <3>6. Len(ss[k]) \in Nat
      BY <1>4, SequenceIs
    <3>7. CASE z = 1
      <4>1. k # 1
        <5>1. f[0] = <<>> /\ Len(f[0]) = 0
          BY <1>5 DEF Joining
        <5> QED
          BY <3>1, <3>4, <3>7, <5>1
      <4>2. k \in 2..n
        BY <1>1, <4>1
      <4> QED
        BY <2>3, <3>5, <3>7, <4>2, NotAlike
    <3>8. CASE z # 1
      <4>1. z \in 2..Len(ss[k])
        BY <3>6, <3>8
      <4> QED
        BY <2>2, <3>5, <4>1
    <3> QED
      BY <3>7, <3>8
  <2>7. Divided(url, base, "?", rest)
    <3> DEFINE a == Len(base)
               m == Len(rest)
    <3>1. Behind(url, base, w) /\ Sequence(url)
      BY <1>6, <2>4, BehindIs DEF w
    <3>2. a \in Nat /\ m \in Nat /\ Len(w) = m + 1 /\ Len(url) = a + Len(w)
      BY <2>5, <3>1 DEF Behind, Tail1
    <3> HIDE DEF a, m
    <3>3. Len(url) = a + 1 + m
      BY <3>2
    <3>4. url[a + 1] = "?"
      <4>1. 1 \in 1..Len(w)
        BY <3>2
      <4> QED
        BY <2>4, <3>1, <4>1 DEF Behind, a
    <3>5. \A y \in 1..m : url[a + 1 + y] = rest[y]
      <4> SUFFICES ASSUME NEW y \in 1..m PROVE url[a + 1 + y] = rest[y]
        OBVIOUS
      <4>1. y + 1 \in 1..Len(w) /\ a + (y + 1) = a + 1 + y
        BY <3>2
      <4>2. url[a + (y + 1)] = w[y + 1]
        BY <3>1, <4>1 DEF Behind, a
      <4> QED
        BY <2>5, <4>1, <4>2 DEF Tail1, m
    <3> QED
      BY <2>5, <3>1, <3>3, <3>4, <3>5 DEF Divided, Behind, Tail1, a, m
  <2>8. Len(parts) = 2 /\ parts[1] = base /\ parts[2] = rest
    <3>1. TheTwo(parts, base, rest)
      BY <2>6, <2>7, InTwo, Zenon DEF parts
    <3> QED
      BY <3>1 DEF TheTwo
  <2>9. pairs = CutAt(rest, "&")
    BY <2>8 DEF pairs
  <2>10. DOMAIN pairs = 1..n /\ \A k \in 1..n : Tail1(pairs[k], ss[k])
    <3>1. /\ \A i \in 1..Len(ss) : PieceFits(ss[i], "&")
          /\ \A i \in 2..Len(ss) : ss[i][1] = "&"
          /\ Len(ss) >= 1 /\ Tail1(rest, f[Len(ss)])
      BY <1>5, <2>1, <2>2, <2>3, <2>5 DEF w
    <3>2. DOMAIN CutAt(rest, "&") = 1..Len(ss) /\ \A k \in 1..Len(ss) : Tail1(CutAt(rest, "&")[k], ss[k])
      BY <1>5, <3>1, PiecesComeBack
    <3> QED
      BY <1>5, <2>9, <3>2
  <2>11. \A k \in 1..n : TextRead(pairs[k]) = q[k]
    BY <2>10, PairComesBack DEF ss
  <2>12. [i \in DOMAIN pairs |-> TextRead(pairs[i])] = q
    BY <1>1, <2>10, <2>11
  <2> QED
    BY <1>7, <2>8, <2>12 DEF UrlReads
<1> QED
  BY <1>8, <1>9

\* Where a server is.
HostOf(s) == <<s.scheme, "://", s.host>>
PortOf(s) == IF s.port > 0 THEN <<":", ToString(s.port)>> ELSE <<>>
SlashOf(s) == IF s.path # <<>> /\ s.path[1] # "/" THEN <<"/">> ELSE <<>>
BaseOf(s) == HostOf(s) \o PortOf(s) \o SlashOf(s) \o s.path

\* Prefixes and suffixes of a joined text.
LEMMA FreeJoins ==
  ASSUME NEW a, Sequence(a), NEW b, Sequence(b), NEW c, Free(a, c), Free(b, c) PROVE Free(a \o b, c)
<1> DEFINE s == a \o b
<1>1. Behind(s, a, b)
  BY BehindIs
<1> HIDE DEF s
<1> SUFFICES ASSUME NEW i \in 1..Len(s) PROVE s[i] # c
  BY DEF Free, s
<1>2. CASE i \in 1..Len(a)
  BY <1>1, <1>2 DEF Behind, Free
<1>3. CASE i \notin 1..Len(a)
  <2>1. i - Len(a) \in 1..Len(b) /\ Len(a) + (i - Len(a)) = i
    BY <1>1, <1>3 DEF Behind
  <2>2. s[i] = b[i - Len(a)]
    BY <1>1, <2>1 DEF Behind
  <2> QED
    BY <2>1, <2>2 DEF Free
<1> QED
  BY <1>2, <1>3

LEMMA PrefixIs ==
  ASSUME NEW a, Sequence(a), NEW s, Sequence(s), Len(a) =< Len(s), \A i \in 1..Len(a) : s[i] = a[i]
  PROVE  IsPrefix(a, s)
<1> DEFINE n == Len(a)
           p == SubSeq(s, 1, n)
<1>1. n \in Nat /\ n =< Len(s)
  BY SequenceIs
<1>2. CutOut(p, s, 1, n)
  <2>1. 1 \in Nat /\ 1 >= 1
    OBVIOUS
  <2> QED
    BY <1>1, <2>1, CutOutIs, Zenon
<1> HIDE DEF p
<1>3. (IF 1 =< n THEN n - 1 + 1 ELSE 0) = n /\ n - 1 + 1 = n /\ \A x \in 1..n : 1 + x - 1 = x
  BY <1>1
<1>4. Sequence(p) /\ Len(p) = n /\ \A x \in 1..n : p[x] = s[x]
  <2>1. Sequence(p) /\ Len(p) = n /\ \A x \in 1..n : p[x] = s[1 + x - 1]
    BY <1>2, <1>3 DEF CutOut
  <2> QED
    BY <1>3, <2>1
<1>5. \A x \in 1..Len(p) : p[x] = a[x]
  BY <1>4
<1>6. p = a
  BY <1>4, <1>5, SameText
<1>7. SubSeq(a, 1, n) = a
  BY WholeIs
<1> QED
  BY <1>6, <1>7 DEF IsPrefix, p

LEMMA SuffixIs ==
  ASSUME NEW a, Sequence(a), NEW s, Sequence(s) PROVE IsSuffix(s, a \o s)
<1> DEFINE t == a \o s
           n == Len(s)
           m == Len(t)
           rs == Reverse(s)
           rt == Reverse(t)
<1>1. Behind(t, a, s) /\ Sequence(t)
  BY BehindIs
<1> HIDE DEF t
<1>2. n \in Nat /\ m \in Nat /\ Len(a) \in Nat /\ m = Len(a) + n
  BY <1>1, SequenceIs DEF Behind
<1>3. rs = [i \in 1..n |-> s[(n - i) + 1]] /\ rt = [i \in 1..m |-> t[(m - i) + 1]]
  BY DEF Reverse
<1> HIDE DEF rs, rt, n, m
<1>4. rs = [i \in 1..n |-> rs[i]] /\ rt = [i \in 1..m |-> rt[i]]
  BY <1>3
<1>5. Sequence(rs) /\ Len(rs) = n /\ Sequence(rt) /\ Len(rt) = m
  BY <1>2, <1>4, SequenceFrom
<1>6. \A i \in 1..n : rt[i] = rs[i]
  <2> SUFFICES ASSUME NEW i \in 1..n PROVE rt[i] = rs[i]
    OBVIOUS
  <2>1. i \in 1..m /\ (n - i) + 1 \in 1..n /\ (m - i) + 1 = Len(a) + ((n - i) + 1)
    BY <1>2
  <2>2. rt[i] = t[(m - i) + 1] /\ rs[i] = s[(n - i) + 1]
    BY <1>3, <2>1
  <2>3. t[Len(a) + ((n - i) + 1)] = s[(n - i) + 1]
    BY <1>1, <2>1 DEF Behind, n
  <2> QED
    BY <2>1, <2>2, <2>3
<1>7. IsPrefix(rs, rt)
  <2>1. Len(rs) =< Len(rt) /\ \A i \in 1..Len(rs) : rt[i] = rs[i]
    BY <1>2, <1>5, <1>6
  <2> QED
    BY <1>5, <2>1, PrefixIs
<1> QED
  BY <1>7 DEF IsSuffix, rs, rt, t

ServerOk(s) ==
  Sequence(s.path) /\ "?" \notin {s.scheme, s.host, ToString(s.port)} /\ "?" \notin Range(s.path)
LEMMA ServersOk == \A s \in Servers : ServerOk(s)
BY RestAssumption DEF ServerOk, Sequence

BaseStands(base, s) ==
  /\ Sequence(base) /\ Free(base, "?")
  /\ IsPrefix(HostOf(s), base) /\ IsSuffix(s.path, base)
  /\ Len(base) > 3 => base[4] \in {"/", ":"}

\* Small facts about texts.
LEMMA TextsDiffer == "?" # "://" /\ "?" # ":" /\ "?" # "/"
OBVIOUS
LEMMA TripleIs ==
  ASSUME NEW a, NEW b, NEW c
  PROVE  /\ Sequence(<<a, b, c>>) /\ Len(<<a, b, c>>) = 3
         /\ <<a, b, c>>[1] = a /\ <<a, b, c>>[2] = b /\ <<a, b, c>>[3] = c
BY DEF Sequence, Range
LEMMA EmptyIs == Sequence(<<>>) /\ Len(<<>>) = 0 /\ \A c : Free(<<>>, c)
BY DEF Sequence, Range, Free

LEMMA StillThree ==
  ASSUME NEW x, NEW a \in Nat, NEW b \in Nat, 3 =< a, x = a + b PROVE 3 =< x
OBVIOUS

\* Before the query a url is the server it was built for.
LEMMA BaseIs ==
  ASSUME NEW s, ServerOk(s) PROVE BaseStands(BaseOf(s), s)
<1> DEFINE h == HostOf(s)
           p == PortOf(s)
           l == SlashOf(s)
           b1 == h \o p
           b2 == b1 \o l
           b == b2 \o s.path
<1>1. Sequence(h) /\ Len(h) = 3 /\ Free(h, "?")
  <2>1. Sequence(h) /\ Len(h) = 3 /\ h[1] = s.scheme /\ h[2] = "://" /\ h[3] = s.host
    BY TripleIs DEF HostOf
  <2>2. \A i \in 1..3 : i = 1 \/ i = 2 \/ i = 3
    OBVIOUS
  <2> QED
    BY <2>1, <2>2, TextsDiffer DEF Free, ServerOk
<1>2. Sequence(p) /\ Free(p, "?") /\ (p = <<>> \/ (Len(p) = 2 /\ p[1] = ":"))
  <2>1. CASE s.port > 0
    <3>1. Sequence(p) /\ Len(p) = 2 /\ p[1] = ":" /\ p[2] = ToString(s.port)
      BY <2>1, PairIs DEF PortOf
    <3>2. \A i \in 1..2 : i = 1 \/ i = 2
      OBVIOUS
    <3> HIDE DEF p
    <3> QED
      BY <3>1, <3>2, TextsDiffer DEF Free, ServerOk
  <2>2. CASE ~(s.port > 0)
    <3>1. p = <<>>
      BY <2>2 DEF PortOf
    <3>2. Free(<<>>, "?")
      BY EmptyIs, Zenon
    <3> HIDE DEF p
    <3> QED
      BY <3>1, <3>2, EmptyIs
  <2> QED
    BY <2>1, <2>2
<1>3. Sequence(l) /\ Free(l, "?") /\ (l = <<>> \/ (Len(l) = 1 /\ l[1] = "/")) /\ (l = <<>> => s.path = <<>> \/ s.path[1] = "/")
  <2>1. CASE s.path # <<>> /\ s.path[1] # "/"
    <3>1. l = <<"/">>
      BY <2>1 DEF SlashOf
    <3>2. Sequence(l) /\ Len(l) = 1 /\ l[1] = "/"
      BY <3>1, OneIs
    <3>3. Free(l, "?")
      <4>1. \A i \in 1..1 : i = 1
        OBVIOUS
      <4> HIDE DEF l
      <4> QED
        BY <3>2, <4>1, TextsDiffer DEF Free
    <3>4. l # <<>>
      BY <3>2, EmptyIs
    <3> QED
      BY <3>2, <3>3, <3>4
  <2>2. CASE ~(s.path # <<>> /\ s.path[1] # "/")
    <3>1. l = <<>>
      BY <2>2 DEF SlashOf
    <3>2. Free(<<>>, "?")
      BY EmptyIs, Zenon
    <3> HIDE DEF l
    <3> QED
      BY <2>2, <3>1, <3>2, EmptyIs
  <2> QED
    BY <2>1, <2>2
<1> HIDE DEF h, p, l
<1>4. Sequence(s.path) /\ Free(s.path, "?")
  <2>1. Sequence(s.path) /\ DOMAIN s.path = 1..Len(s.path)
    BY SequenceIs DEF ServerOk
  <2> QED
    BY <2>1 DEF ServerOk, Free, Range
<1>5. Behind(b1, h, p) /\ Sequence(b1) /\ Free(b1, "?")
  BY <1>1, <1>2, BehindIs, FreeJoins
<1> HIDE DEF b1
<1>6. Behind(b2, b1, l) /\ Sequence(b2) /\ Free(b2, "?")
  BY <1>3, <1>5, BehindIs, FreeJoins
<1> HIDE DEF b2
<1>7. Behind(b, b2, s.path) /\ Sequence(b) /\ Free(b, "?") /\ IsSuffix(s.path, b)
  BY <1>4, <1>6, BehindIs, FreeJoins, SuffixIs
<1> HIDE DEF b
<1>8. /\ Len(b1) = 3 + Len(p) /\ Len(p) \in Nat /\ Len(b2) = Len(b1) + Len(l) /\ Len(l) \in Nat
      /\ Len(b) = Len(b2) + Len(s.path) /\ Len(s.path) \in Nat
  BY <1>1, <1>5, <1>6, <1>7 DEF Behind
<1>9. IsPrefix(h, b)
  <2>1. \A i \in 1..3 : i \in 1..Len(b1) /\ i \in 1..Len(b2)
    BY <1>8
  <2>2. \A i \in 1..3 : b1[i] = h[i]
    BY <1>1, <1>5 DEF Behind
  <2>3. \A i \in 1..3 : b2[i] = h[i]
    BY <1>6, <2>1, <2>2 DEF Behind
  <2>4. \A i \in 1..3 : b[i] = h[i]
    BY <1>7, <2>1, <2>3 DEF Behind
  <2>5. Len(h) =< Len(b) /\ \A i \in 1..Len(h) : b[i] = h[i]
    <3>1. 3 =< Len(b)
      <4>1. Len(b1) \in Nat /\ 3 =< Len(b1)
        BY <1>8
      <4>2. Len(b2) \in Nat /\ 3 =< Len(b2)
        BY <1>8, <4>1
      <4> QED
        BY <1>8, <4>2, StillThree, Zenon
    <3> QED
      BY <1>1, <2>4, <3>1
  <2> QED
    BY <1>1, <1>7, <2>5, PrefixIs
<1>10. ASSUME Len(b) > 3 PROVE b[4] \in {"/", ":"}
  <2>1. CASE Len(p) = 2 /\ p[1] = ":"
    <3>1. 1 \in 1..Len(p) /\ 4 = Len(h) + 1 /\ 4 \in 1..Len(b1) /\ 4 \in 1..Len(b2)
      BY <1>1, <1>8, <2>1
    <3>2. b1[4] = ":"
      BY <1>5, <2>1, <3>1 DEF Behind
    <3> QED
      BY <1>6, <1>7, <3>1, <3>2 DEF Behind
  <2>2. CASE p = <<>> /\ Len(l) = 1 /\ l[1] = "/"
    <3>1. Len(b1) = 3 /\ 1 \in 1..Len(l) /\ 4 = Len(b1) + 1 /\ 4 \in 1..Len(b2)
      BY <1>8, <2>2, EmptyIs
    <3>2. b2[4] = "/"
      BY <1>6, <2>2, <3>1 DEF Behind
    <3> QED
      BY <1>7, <3>1, <3>2 DEF Behind
  <2>3. CASE p = <<>> /\ l = <<>>
    <3>1. Len(b1) = 3 /\ Len(b2) = 3 /\ 1 \in 1..Len(s.path) /\ 4 = Len(b2) + 1
      BY <1>8, <1>10, <2>3, EmptyIs
    <3>2. s.path[1] = "/"
      BY <1>3, <2>3, <3>1, EmptyIs
    <3> QED
      BY <1>7, <3>1, <3>2 DEF Behind
  <2> QED
    BY <1>2, <1>3, <2>1, <2>2, <2>3
<1>11. BaseOf(s) = b
  BY DEF BaseOf, h, p, l, b1, b2, b
<1> QED
  BY <1>7, <1>9, <1>10, <1>11 DEF BaseStands, h

\* A request as it starts: it asks for what is set now.
LEMMA UrlIs ==
  ASSUME NEW s \in Servers, NEW q, QueryOk(q), NEW url, url = BuildUrl(s, q)
  PROVE  ReadUrl(url).query = q /\ BaseStands(ReadUrl(url).where, s)
<1>1. BaseStands(BaseOf(s), s)
  BY BaseIs, ServersOk
<1>2. url = BaseOf(s) \o FlattenSeq(PairsOf(q))
  <2> DEFINE pair(i) == (IF i = 1 THEN <<"?">> ELSE <<"&">>) \o Escape(q[i].name) \o <<"=">> \o Escape(q[i].value)
  <2>1. url = BaseOf(s) \o FlattenSeq([i \in DOMAIN q |-> pair(i)])
    BY Zenon DEF BuildUrl, BaseOf, HostOf, PortOf, SlashOf
  <2>2. \A i : pair(i) = PairText(<<SepOf(i)>>, Escape(q[i].name), Escape(q[i].value))
    <3> SUFFICES ASSUME NEW i PROVE pair(i) = PairText(<<SepOf(i)>>, Escape(q[i].name), Escape(q[i].value))
      OBVIOUS
    <3>1. (IF i = 1 THEN <<"?">> ELSE <<"&">>) = <<SepOf(i)>>
      BY DEF SepOf
    <3> QED
      BY <3>1 DEF PairText
  <2> HIDE DEF pair
  <2>3. [i \in DOMAIN q |-> pair(i)] = PairsOf(q)
    BY <2>2 DEF PairsOf
  <2> QED
    BY <2>1, <2>3
<1>3. ReadUrl(url).where = BaseOf(s) /\ ReadUrl(url).query = q
  <2>1. Sequence(BaseOf(s)) /\ Free(BaseOf(s), "?")
    BY <1>1 DEF BaseStands
  <2> QED
    <3>1. UrlReads(url, BaseOf(s), q)
      BY <1>2, <2>1, QueryComesBack, Zenon
    <3> QED
      BY <3>1 DEF UrlReads
<1> QED
  BY <1>1, <1>3

\* The queries that are asked, and the empty one of a post.
LEMMA QueriesOk == QueryOk(<<>>) /\ \A q \in Queries_ : QueryOk(q)
<1>1. QueryOk(<<>>)
  BY EmptyIs DEF QueryOk
<1>2. ASSUME NEW q \in Queries_ PROVE QueryOk(q)
  <2>1. Sequence(q) /\ DOMAIN q = 1..Len(q)
    BY RestAssumption, SequenceIs DEF Sequence
  <2>2. ASSUME NEW i \in 1..Len(q)
        PROVE  /\ q[i] = [name |-> q[i].name, value |-> q[i].value]
               /\ TextOk(q[i].name) /\ TextOk(q[i].value)
    <3>1. q[i] \in Range(q)
      BY <2>1 DEF Range
    <3>2. q[i] = [name |-> q[i].name, value |-> q[i].value]
      BY <3>1, RestAssumption
    <3>3. \A t \in {q[i].name, q[i].value} : t \in Seq(Range(t)) /\ \A c \in Reserved : "%" \o c \notin Range(t)
      BY <3>1, RestAssumption, Zenon
    <3>4. \A t \in {q[i].name, q[i].value} : TextOk(t)
      BY <3>3, Zenon DEF TextOk, Sequence, Escaped
    <3> QED
      BY <3>2, <3>4
  <2> QED
    BY <2>1, <2>2 DEF QueryOk
<1> QED
  BY <1>1, <1>2

\* The request in progress, and what is kept of it.
OfNone(r) == r = [NoResponse EXCEPT !.headers = r.headers, !.content_type = r.content_type]
RequestOk ==
  /\ request = [number |-> request.number, query |-> request.query, resp |-> request.resp, body |-> request.body]
  /\ OfNone(request.resp)
  /\ arrived = [lines |-> arrived.lines, answer |-> arrived.answer, ending |-> "none"]
AskedOk == (settings.server = None \/ settings.server \in Servers) /\ RequestsAreTheirOwn

\* However the handle was left, its options are those of this request.
LEMMA RequestStarts ==
  ASSUME AskedOk, NEW q, QueryOk(q), Starts(q) PROVE AskedOk' /\ RequestOk'
<1> DEFINE s == settings.server
           lines == BuildHeaderLines(settings.headers)
           n == calls'
<1>1. /\ settings' = settings /\ s \in Servers
      /\ request' = [number |-> n, query |-> q, resp |-> NoResponse, body |-> <<>>]
      /\ arrived' = [lines |-> <<>>, answer |-> None, ending |-> "none"]
  BY Zenon DEF Starts, AskedOk
<1>2. handle' = [url |-> BuildUrl(s, q), post |-> client = "post",
                 header_list |-> IF lines = <<>> THEN NoOptions.header_list ELSE [of |-> n, lines |-> lines],
                 write_data |-> n, header_data |-> n,
                 post_fields |-> IF client = "post" THEN n ELSE NoOptions.post_fields,
                 verify |-> ~settings.ignore_ssl_errors_]
  BY Zenon DEF Starts, ResetOptions
<1> DEFINE url == BuildUrl(s, q)
<1>3. ReadUrl(url).query = q /\ BaseStands(ReadUrl(url).where, s)
  BY <1>1, UrlIs
<1> HIDE DEF lines, n, s, url
<1>4. NoOptions.header_list = [of |-> Nowhere, lines |-> <<>>] /\ NoOptions.post_fields = Nowhere
  BY DEF NoOptions
<1>5. /\ handle'.header_list.of \in {Nowhere, n} /\ handle'.header_list.lines = lines
      /\ handle'.write_data = n /\ handle'.header_data = n /\ handle'.post_fields \in {Nowhere, n}
      /\ handle'.verify = ~settings.ignore_ssl_errors_ /\ handle'.url = url
  BY <1>2, <1>4 DEF url
<1>6. request'.number = n /\ request'.query = q
  BY <1>1
<1>7. RequestsAreTheirOwn'
  BY <1>1, <1>3, <1>5, <1>6 DEF RequestsAreTheirOwn, BaseStands, HostOf, lines, s
<1>8. RequestOk'
  BY <1>1 DEF RequestOk, NoResponse, OfNone
<1> QED
  BY <1>1, <1>7, <1>8 DEF AskedOk, s

-----------------------------------------------------------------------------
\* What is left of a sequence when m of its elements were taken.
LeftOf(rest, all, m) ==
  /\ Sequence(rest) /\ m \in Nat /\ Len(rest) \in Nat /\ Len(all) = m + Len(rest)
  /\ \A y \in 1..Len(rest) : rest[y] = all[m + y]

LEMMA AllLeft == ASSUME NEW all, Sequence(all) PROVE LeftOf(all, all, 0)
<1>1. Len(all) \in Nat /\ Len(all) = 0 + Len(all) /\ \A y \in 1..Len(all) : 0 + y = y
  BY SequenceIs
<1> QED
  BY <1>1 DEF LeftOf

LEMMA NextLeft ==
  ASSUME NEW rest, NEW all, NEW m, LeftOf(rest, all, m), rest # <<>>
  PROVE  /\ LeftOf(Tail(rest), all, m + 1) /\ m + 1 \in 1..Len(all)
         /\ Head(rest) = all[m + 1]
<1> DEFINE t == Tail(rest)
           n == Len(rest)
<1>1. rest \in Seq(Range(rest)) /\ n \in Nat /\ n # 0 /\ m \in Nat /\ Len(all) = m + n
  BY DEF LeftOf, Sequence
<1>2. t \in Seq(Range(rest)) /\ Len(t) = n - 1 /\ Head(rest) = rest[1]
  BY <1>1
<1>3. \A y \in 1..n - 1 : t[y] = rest[y + 1]
  BY <1>1
<1>4. Sequence(t)
  BY <1>2, SeqOfRange DEF Sequence
<1> HIDE DEF t, n
<1>5. \A y \in 1..n : rest[y] = all[m + y]
  BY DEF LeftOf, n
<1>6. /\ n - 1 \in Nat /\ m + 1 \in Nat /\ m + n = (m + 1) + (n - 1) /\ m + 1 \in 1..m + n /\ 1 \in 1..n
      /\ \A y \in 1..n - 1 : y + 1 \in 1..n /\ m + (y + 1) = (m + 1) + y
  BY <1>1
<1>7. \A y \in 1..n - 1 : t[y] = all[(m + 1) + y]
  <2> SUFFICES ASSUME NEW y \in 1..n - 1 PROVE t[y] = all[(m + 1) + y]
    OBVIOUS
  <2>1. t[y] = rest[y + 1] /\ y + 1 \in 1..n /\ m + (y + 1) = (m + 1) + y
    BY <1>3, <1>6
  <2> QED
    BY <1>5, <2>1
<1>8. Head(rest) = all[m + 1]
  BY <1>2, <1>5, <1>6
<1>9. LeftOf(t, all, m + 1)
  BY <1>1, <1>2, <1>4, <1>6, <1>7 DEF LeftOf
<1> QED
  BY <1>1, <1>6, <1>8, <1>9 DEF t

LEMMA NoneLeft == ASSUME NEW all, NEW m, LeftOf(<<>>, all, m) PROVE m = Len(all)
BY EmptyIs DEF LeftOf

LEMMA AppendIs ==
  ASSUME NEW a, Sequence(a) PROVE a \o <<>> = a /\ \A x : a \o <<x>> = Append(a, x)
<1>1. a \o <<>> = a
  BY DEF Sequence
<1>2. ASSUME NEW x PROVE a \o <<x>> = Append(a, x)
  <2> DEFINE b == Append(a, x)
             c == a \o <<x>>
  <2>1. Sequence(b) /\ Len(b) = Len(a) + 1 /\ (\A i \in 1..Len(a) : b[i] = a[i]) /\ b[Len(a) + 1] = x
    BY Longer
  <2>2. Behind(c, a, <<x>>) /\ Len(<<x>>) = 1 /\ <<x>>[1] = x
    BY BehindIs, OneIs
  <2> HIDE DEF b, c
  <2>3. Sequence(c) /\ Len(c) = Len(a) + 1 /\ (\A i \in 1..Len(a) : c[i] = a[i]) /\ c[Len(a) + 1] = x /\ Len(a) \in Nat
    BY <2>2 DEF Behind
  <2>4. \A i \in 1..Len(b) : i \in 1..Len(a) \/ i = Len(a) + 1
    BY <2>1, <2>3
  <2>5. \A i \in 1..Len(b) : b[i] = c[i]
    BY <2>1, <2>3, <2>4
  <2>6. b = c
    BY <2>1, <2>3, <2>5, SameText
  <2> QED
    BY <2>6 DEF b, c
<1> QED
  BY <1>1, <1>2

\* The headers that were kept of the lines that arrived.
KeptLines(ls) == [i \in DOMAIN ls |-> IF ls[i].colon THEN <<ls[i]>> ELSE <<>>]
HeadersAre(h, ls) == \A f : Joining(KeptLines(ls), f) => h = f[Len(ls)]

LEMMA KeptAre ==
  ASSUME NEW ls, Sequence(ls)
  PROVE  /\ Sequence(KeptLines(ls)) /\ Len(KeptLines(ls)) = Len(ls) /\ Len(ls) \in Nat
         /\ \A i \in 1..Len(ls) : /\ KeptLines(ls)[i] = (IF ls[i].colon THEN <<ls[i]>> ELSE <<>>)
                                  /\ Sequence(KeptLines(ls)[i])
<1> DEFINE k == KeptLines(ls)
           n == Len(ls)
<1>1. n \in Nat /\ DOMAIN ls = 1..n
  BY SequenceIs
<1> HIDE DEF n
<1>2. k = [i \in 1..n |-> k[i]] /\ \A i \in 1..n : k[i] = IF ls[i].colon THEN <<ls[i]>> ELSE <<>>
  BY <1>1 DEF KeptLines
<1> HIDE DEF k
<1>3. Sequence(k) /\ Len(k) = n
  BY <1>1, <1>2, SequenceFrom
<1>4. \A i \in 1..n : Sequence(k[i])
  <2> SUFFICES ASSUME NEW i \in 1..n PROVE Sequence(k[i])
    OBVIOUS
  <2>1. k[i] = <<ls[i]>> \/ k[i] = <<>>
    BY <1>2
  <2> QED
    BY <2>1, OneIs, EmptyIs
<1> QED
  BY <1>1, <1>2, <1>3, <1>4 DEF k, n

LEMMA NoLines == HeadersAre(<<>>, <<>>)
BY EmptyIs DEF HeadersAre, Joining

\* One more line: its header is kept behind the others, if it has a colon.
LEMMA LineTaken ==
  ASSUME NEW ls, Sequence(ls), NEW h, HeadersAre(h, ls), NEW line
  PROVE  HeadersAre(IF line.colon THEN Append(h, line) ELSE h, Append(ls, line))
<1> DEFINE n == Len(ls)
           more == Append(ls, line)
           a == KeptLines(ls)
           b == KeptLines(more)
<1>1. /\ Sequence(more) /\ Len(more) = n + 1 /\ more[n + 1] = line
      /\ \A i \in 1..n : more[i] = ls[i]
  BY Longer
<1>2. /\ Len(a) = n /\ n \in Nat /\ \A i \in 1..n : a[i] = IF ls[i].colon THEN <<ls[i]>> ELSE <<>>
  BY KeptAre
<1>3. /\ Len(b) = n + 1
      /\ \A i \in 1..n + 1 : b[i] = IF more[i].colon THEN <<more[i]>> ELSE <<>>
  BY <1>1, KeptAre
<1> HIDE DEF n, more, a, b
<1> SUFFICES ASSUME NEW f, Joining(b, f)
             PROVE  (IF line.colon THEN Append(h, line) ELSE h) = f[Len(more)]
  BY DEF HeadersAre, more, b
<1>4. \A i \in 1..n : i \in 1..n + 1 /\ b[i] = a[i]
  BY <1>1, <1>2, <1>3
<1>5. Joining(a, f)
  <2>1. f[0] = <<>> /\ \A i \in 0..n : Sequence(f[i])
    BY <1>2, <1>3 DEF Joining
  <2>2. \A i \in 1..n : f[i] = f[i - 1] \o b[i]
    BY <1>3, <1>4 DEF Joining
  <2>3. \A i \in 1..n : f[i] = f[i - 1] \o a[i]
    BY <1>4, <2>2
  <2> QED
    BY <1>2, <2>1, <2>3 DEF Joining
<1>6. h = f[n] /\ Sequence(f[n])
  <2>1. h = f[n]
    BY <1>5 DEF HeadersAre, a, n
  <2> QED
    BY <1>2, <1>5, <2>1 DEF Joining
<1>7. f[n + 1] = f[n] \o b[n + 1]
  <2>1. n + 1 \in 1..n + 1 /\ (n + 1) - 1 = n
    BY <1>2
  <2> QED
    BY <1>3, <2>1 DEF Joining
<1>8. b[n + 1] = IF line.colon THEN <<line>> ELSE <<>>
  <2>1. n + 1 \in 1..n + 1
    BY <1>2
  <2> QED
    BY <1>1, <1>3, <2>1
<1>9. CASE line.colon
  <2>1. f[n + 1] = Append(h, line)
    BY <1>6, <1>7, <1>8, <1>9, AppendIs
  <2> QED
    BY <1>1, <1>9, <2>1
<1>10. CASE ~line.colon
  <2>1. f[n + 1] = h
    BY <1>6, <1>7, <1>8, <1>10, AppendIs
  <2> QED
    BY <1>1, <1>10, <2>1
<1> QED
  BY <1>9, <1>10

\* When all lines have arrived, what was kept is what AnswersAreTheirOwn asks for.
LEMMA HeadersWhole ==
  ASSUME NEW ls, Sequence(ls), NEW h, HeadersAre(h, ls) PROVE h = WithColon(ls)
<1>1. Sequence(KeptLines(ls)) /\ Len(KeptLines(ls)) = Len(ls) /\ \A i \in 1..Len(KeptLines(ls)) : Sequence(KeptLines(ls)[i])
  BY KeptAre
<1>2. PICK f : Joining(KeptLines(ls), f) /\ FlattenSeq(KeptLines(ls)) = f[Len(KeptLines(ls))]
  BY <1>1, FlattenJoins
<1>3. h = FlattenSeq(KeptLines(ls))
  BY <1>1, <1>2 DEF HeadersAre
<1> QED
  BY <1>3 DEF WithColon, KeptLines

\* The chunks of a body, and the type that the lines have named.
BodyHas(b, chunks, k) == \A f : Joining(chunks, f) => b = f[k]
LEMMA ChunkTaken ==
  ASSUME NEW chunks, NEW b, NEW k \in Nat, BodyHas(b, chunks, k), k + 1 \in 1..Len(chunks)
  PROVE  BodyHas(b \o chunks[k + 1], chunks, k + 1)
<1> SUFFICES ASSUME NEW f, Joining(chunks, f) PROVE b \o chunks[k + 1] = f[k + 1]
  BY DEF BodyHas
<1>1. b = f[k]
  BY DEF BodyHas
<1>2. f[k + 1] = f[(k + 1) - 1] \o chunks[k + 1] /\ (k + 1) - 1 = k
  <2>1. (k + 1) - 1 = k
    OBVIOUS
  <2> QED
    BY <2>1, Zenon DEF Joining
<1> QED
  BY <1>1, <1>2
LEMMA BodyWhole ==
  ASSUME NEW chunks, Sequence(chunks), \A i \in 1..Len(chunks) : Sequence(chunks[i]),
         NEW b, BodyHas(b, chunks, Len(chunks))
  PROVE  b = FlattenSeq(chunks)
<1>1. PICK f : Joining(chunks, f) /\ FlattenSeq(chunks) = f[Len(chunks)]
  BY FlattenJoins
<1> QED
  BY <1>1 DEF BodyHas

NamesType(l) == l.name = "content-type"
LastNamed(lines, j, m) == NamesType(lines[j]) /\ \A i \in j + 1..m : ~NamesType(lines[i])
TypeIs(t, lines, m) == \A j \in 1..m : LastNamed(lines, j, m) => t = lines[j].value

\* The type that was named last stays until another line names one.
LEMMA TypeTaken ==
  ASSUME NEW lines, NEW m \in Nat, NEW t, TypeIs(t, lines, m),
         NEW u, u = IF NamesType(lines[m + 1]) THEN lines[m + 1].value ELSE t
  PROVE  TypeIs(u, lines, m + 1)
<1> SUFFICES ASSUME NEW j \in 1..m + 1, LastNamed(lines, j, m + 1) PROVE u = lines[j].value
  BY DEF TypeIs
<1>1. CASE j = m + 1
  BY <1>1 DEF LastNamed
<1>2. CASE j # m + 1
  <2>1. j \in 1..m /\ m + 1 \in j + 1..m + 1 /\ \A i \in j + 1..m : i \in j + 1..m + 1
    BY <1>2
  <2>2. ~NamesType(lines[m + 1])
    BY <2>1 DEF LastNamed
  <2>3. LastNamed(lines, j, m)
    BY <2>1 DEF LastNamed
  <2> QED
    BY <2>1, <2>2, <2>3 DEF TypeIs
<1> QED
  BY <1>1, <1>2

LEMMA TypeWhole ==
  ASSUME NEW lines, Sequence(lines), NEW t, TypeIs(t, lines, Len(lines)),
         NEW typed, typed = {i \in DOMAIN lines : NamesType(lines[i])}, typed # {}
  PROVE  t = lines[Max(typed)].value
<1> DEFINE n == Len(lines)
           j == Max(typed)
<1>1. n \in Nat /\ DOMAIN lines = 1..n
  BY SequenceIs
<1>2. typed \in SUBSET (1..n)
  BY <1>1
<1>3. j \in typed /\ \A y \in typed : j >= y
  BY <1>1, <1>2, LastIs
<1> HIDE DEF j
<1>4. j \in 1..n /\ NamesType(lines[j])
  BY <1>1, <1>3
<1>5. LastNamed(lines, j, n)
  <2>1. ASSUME NEW i \in j + 1..n, NamesType(lines[i]) PROVE FALSE
    <3>1. i \in typed /\ ~(j >= i)
      BY <1>1, <1>4, <2>1
    <3> QED
      BY <1>3, <3>1
  <2> QED
    BY <1>4, <2>1 DEF LastNamed
<1> QED
  BY <1>4, <1>5 DEF TypeIs, n, j

-----------------------------------------------------------------------------
\* The requests: what is invariant while one runs and after it.
HeaderOk(l) == l.colon \in BOOLEAN /\ (NamesType(l) => l.colon)
AnswerOk(a) ==
  /\ a = [status |-> a.status, lines |-> a.lines, chunks |-> a.chunks] /\ a.status \in Nat
  /\ Sequence(a.lines) /\ \A i \in 1..Len(a.lines) : HeaderOk(a.lines[i])
  /\ Sequence(a.chunks) /\ \A i \in 1..Len(a.chunks) : Sequence(a.chunks[i])
LinesTaken(t, rest, all) == \E m \in Nat : LeftOf(rest, all, m) /\ TypeIs(t, all, m)
ChunksTaken(b, rest, all) == \E k \in Nat : LeftOf(rest, all, k) /\ BodyHas(b, all, k)
HopOk ==
  /\ AnswerOk(arrived.answer)
  /\ hop = [status |-> arrived.answer.status, lines |-> hop.lines, chunks |-> hop.chunks]
  /\ LinesTaken(request.resp.content_type, hop.lines, arrived.answer.lines)
  /\ ChunksTaken(request.body, hop.chunks, arrived.answer.chunks)
  /\ Redirects(hop.status) => request.body = <<>>
ProgressOk ==
  /\ RequestOk /\ Sequence(arrived.lines) /\ HeadersAre(request.resp.headers, arrived.lines)
  /\ IF hop = None THEN request.body = <<>> ELSE HopOk
SettingsOk ==
  settings = [server |-> settings.server, headers |-> settings.headers,
              ignore_ssl_errors_ |-> settings.ignore_ssl_errors_]
AnswerGiven(r) ==
  r = [status |-> r.status, raw_status_code |-> r.raw_status_code, curl_error_code |-> r.curl_error_code,
       body |-> r.body, error |-> r.error, headers |-> r.headers, content_type |-> r.content_type]
RestInv ==
  /\ AskedOk /\ SettingsOk /\ AnswerGiven(out_resp) /\ AnswersAreTheirOwn
  /\ request # None => ProgressOk

\* The answers are texts and numbers, and records are no None.
LEMMA AnswersOk == \A a \in Answers : AnswerOk(a)
<1> SUFFICES ASSUME NEW a \in Answers PROVE AnswerOk(a)
  OBVIOUS
<1>1. /\ a = [status |-> a.status, lines |-> a.lines, chunks |-> a.chunks] /\ a.status \in Nat
      /\ Sequence(a.lines) /\ Sequence(a.chunks)
  BY RestAssumption DEF Sequence
<1>2. \A l \in Range(a.lines) : l.colon \in BOOLEAN /\ (l.name = "content-type" => l.colon)
  BY RestAssumption
<1>3. \A chunk \in Range(a.chunks) : chunk \in Seq(Range(chunk))
  BY RestAssumption
<1>4. DOMAIN a.lines = 1..Len(a.lines) /\ DOMAIN a.chunks = 1..Len(a.chunks)
  BY <1>1, SequenceIs
<1>5. \A i \in 1..Len(a.lines) : a.lines[i] \in Range(a.lines)
  BY <1>4 DEF Range
<1>6. \A i \in 1..Len(a.chunks) : a.chunks[i] \in Range(a.chunks)
  BY <1>4 DEF Range
<1>7. \A i \in 1..Len(a.lines) : HeaderOk(a.lines[i])
  BY <1>2, <1>5 DEF NamesType, HeaderOk
<1>8. \A i \in 1..Len(a.chunks) : Sequence(a.chunks[i])
  BY <1>3, <1>6, Zenon DEF Sequence
<1> QED
  BY <1>1, <1>7, <1>8 DEF AnswerOk

LEMMA RecordsAreThere ==
  /\ \A a, b, c : [status |-> a, lines |-> b, chunks |-> c] # None
  /\ \A a, b, c, d : [number |-> a, query |-> b, resp |-> c, body |-> d] # None
  /\ \A a, b, c : [lines |-> a, answer |-> b, ending |-> c] # None
BY DEF None

\* It holds of a new client.
LEMMA RestStarts == InitRest => RestInv
<1> SUFFICES ASSUME InitRest PROVE RestInv
  OBVIOUS
<1>1. request = None /\ result = "none" /\ out_resp = NoResponse
      /\ settings = [server |-> None, headers |-> <<>>, ignore_ssl_errors_ |-> FALSE]
  BY Zenon DEF InitRest
<1>2. AskedOk /\ AnswersAreTheirOwn
  BY <1>1 DEF AskedOk, RequestsAreTheirOwn, AnswersAreTheirOwn
<1>3. SettingsOk
  BY <1>1 DEF SettingsOk
<1>4. AnswerGiven(out_resp)
  BY <1>1 DEF AnswerGiven, NoResponse
<1> QED
  BY <1>1, <1>2, <1>3, <1>4 DEF RestInv

\* A setter is refused while a request runs.
LEMMA SetterKeeps == ASSUME RestInv, Settings_ PROVE RestInv'
<1>1. request' = None /\ request = None /\ out_resp' = out_resp /\ result' = result /\ arrived' = arrived
  <2>1. PICK s : Sets(s)
    BY Zenon DEF Settings_
  <2> QED
    BY <2>1 DEF Sets
<1>2. (settings'.server = None \/ settings'.server \in Servers) /\ SettingsOk'
  <2>1. settings.server = None \/ settings.server \in Servers
    BY DEF RestInv, AskedOk
  <2>2. SettingsOk
    BY DEF RestInv
  <2>3. CASE \E s \in Servers : settings' = [settings EXCEPT !.server = s]
    BY <2>2, <2>3 DEF SettingsOk
  <2>4. CASE \E h \in HeaderLists : settings' = [settings EXCEPT !.headers = h]
    BY <2>1, <2>2, <2>4 DEF SettingsOk
  <2>5. CASE \E b \in BOOLEAN : settings' = [settings EXCEPT !.ignore_ssl_errors_ = b]
    BY <2>1, <2>2, <2>5 DEF SettingsOk
  <2> QED
    BY <2>3, <2>4, <2>5, Zenon DEF Settings_, Sets
<1>3. AskedOk'
  BY <1>1, <1>2 DEF AskedOk, RequestsAreTheirOwn
<1>4. AnswersAreTheirOwn' /\ AnswerGiven(out_resp')
  <2>1. AnswersAreTheirOwn /\ AnswerGiven(out_resp)
    BY DEF RestInv
  <2> QED
    BY <1>1, <2>1 DEF AnswersAreTheirOwn
<1> QED
  BY <1>1, <1>2, <1>3, <1>4 DEF RestInv

\* An exception: the caller gets a code, and no answer has arrived.
LEMMA CallThrowsKeeps == ASSUME RestInv, CallThrows PROVE RestInv'
<1>1. /\ request' = None /\ settings' = settings /\ arrived' = None /\ result' = "unknown_error"
      /\ out_resp' = [out_resp EXCEPT !.error = TRUE]
  BY Zenon DEF CallThrows, WithError
<1>2. AskedOk' /\ SettingsOk'
  BY <1>1 DEF RestInv, AskedOk, RequestsAreTheirOwn, SettingsOk
<1>3. AnswerGiven(out_resp') /\ out_resp'.error = TRUE
  BY <1>1 DEF RestInv, AnswerGiven
<1>4. AnswersAreTheirOwn'
  BY <1>1, <1>3 DEF AnswersAreTheirOwn, IsSuccess
<1> QED
  BY <1>1, <1>2, <1>3, <1>4 DEF RestInv

\* get() and post(): a request with its own response and buffers.
LEMMA StartKeeps == ASSUME RestInv, StartGet \/ StartPost PROVE RestInv'
<1>1. PICK q : QueryOk(q) /\ Starts(q)
  BY QueriesOk DEF StartGet, StartPost
<1>2. AskedOk' /\ RequestOk'
  BY <1>1, RequestStarts DEF RestInv
<1>3. /\ settings' = settings /\ out_resp' = out_resp /\ hop' = None
      /\ request' = [number |-> calls', query |-> q, resp |-> NoResponse, body |-> <<>>]
      /\ arrived' = [lines |-> <<>>, answer |-> None, ending |-> "none"]
  BY <1>1, Zenon DEF Starts
<1>4. request' # None
  BY <1>3, RecordsAreThere, Zenon
<1>5. request'.resp.headers = <<>> /\ request'.body = <<>> /\ arrived'.lines = <<>>
  BY <1>3 DEF NoResponse
<1>6. ProgressOk'
  BY <1>2, <1>3, <1>5, NoLines, EmptyIs DEF ProgressOk
<1>7. AnswersAreTheirOwn'
  BY <1>4 DEF AnswersAreTheirOwn
<1>8. SettingsOk' /\ AnswerGiven(out_resp')
  BY <1>3 DEF RestInv, SettingsOk
<1> QED
  BY <1>2, <1>6, <1>7, <1>8 DEF RestInv

\* The steps of a request that runs: they leave what it asks for alone.
SameRequest ==
  /\ settings' = settings /\ handle' = handle /\ out_resp' = out_resp /\ request' # None
  /\ request'.number = request.number /\ request'.query = request.query
LEMMA StillAsked ==
  ASSUME RestInv, request # None, SameRequest, ProgressOk' PROVE RestInv'
<1>1. AskedOk /\ SettingsOk /\ AnswerGiven(out_resp)
  BY DEF RestInv
<1>2. RequestsAreTheirOwn'
  BY <1>1 DEF AskedOk, SameRequest, RequestsAreTheirOwn
<1>3. AskedOk' /\ SettingsOk' /\ AnswerGiven(out_resp')
  BY <1>1, <1>2 DEF SameRequest, AskedOk, SettingsOk
<1>4. AnswersAreTheirOwn'
  BY DEF SameRequest, AnswersAreTheirOwn
<1> QED
  BY <1>3, <1>4 DEF RestInv

LEMMA SameIs ==
  ASSUME request # None, UNCHANGED <<settings, request, handle, out_resp>> PROVE SameRequest
BY DEF SameRequest

\* A server answers: nothing of its lines and chunks has been taken yet.
LEMMA AnsweringKeeps == ASSUME RestInv, Answering PROVE RestInv'
<1>1. PICK a \in Answers : hop' = a /\ arrived' = [arrived EXCEPT !.answer = a]
  BY Zenon DEF Answering
<1>2. request # None /\ hop = None /\ UNCHANGED <<settings, request, handle, out_resp>>
  BY DEF Answering
<1>3. RequestOk /\ Sequence(arrived.lines) /\ HeadersAre(request.resp.headers, arrived.lines) /\ request.body = <<>>
  BY <1>2, Zenon DEF RestInv, ProgressOk
<1>4. arrived' = [lines |-> arrived.lines, answer |-> a, ending |-> "none"]
  BY <1>1, <1>3 DEF RequestOk
<1>5. AnswerOk(a)
  BY AnswersOk
<1>6. a # None
  BY <1>5, RecordsAreThere, Zenon DEF AnswerOk
<1>7. LinesTaken(request.resp.content_type, a.lines, a.lines)
  <2>1. LeftOf(a.lines, a.lines, 0) /\ 0 \in Nat
    BY <1>5, AllLeft DEF AnswerOk
  <2>2. TypeIs(request.resp.content_type, a.lines, 0)
    BY DEF TypeIs
  <2> QED
    BY <2>1, <2>2, Zenon DEF LinesTaken
<1>8. ChunksTaken(<<>>, a.chunks, a.chunks)
  <2>1. LeftOf(a.chunks, a.chunks, 0) /\ 0 \in Nat
    BY <1>5, AllLeft DEF AnswerOk
  <2>2. BodyHas(<<>>, a.chunks, 0)
    BY DEF BodyHas, Joining
  <2> QED
    BY <2>1, <2>2, Zenon DEF ChunksTaken
<1>9. HopOk'
  <2>1. a = [status |-> a.status, lines |-> a.lines, chunks |-> a.chunks]
    BY <1>5 DEF AnswerOk
  <2>2. hop' = a /\ arrived'.answer = a /\ request' = request
    BY <1>1, <1>2, <1>4
  <2> QED
    BY <1>3, <1>5, <1>7, <1>8, <2>1, <2>2, Zenon DEF HopOk
<1>10. RequestOk'
  BY <1>2, <1>3, <1>4 DEF RequestOk
<1>11. ProgressOk'
  <2>1. arrived'.lines = arrived.lines /\ request' = request /\ hop' # None
    BY <1>1, <1>2, <1>4, <1>6
  <2> QED
    BY <1>3, <1>9, <1>10, <2>1, Zenon DEF ProgressOk
<1> QED
  BY <1>2, <1>11, SameIs, StillAsked

\* A redirection is followed, with nothing of its body taken.
LEMMA FollowKeeps == ASSUME RestInv, FollowLocation PROVE RestInv'
<1>1. request # None /\ hop # None /\ Redirects(hop.status) /\ hop' = None
      /\ UNCHANGED <<settings, request, handle, out_resp, arrived>>
  BY DEF FollowLocation
<1>2. ProgressOk
  BY <1>1 DEF RestInv
<1>3. RequestOk /\ Sequence(arrived.lines) /\ HeadersAre(request.resp.headers, arrived.lines) /\ HopOk
  BY <1>1, <1>2, Zenon DEF ProgressOk
<1>4. request.body = <<>>
  BY <1>1, <1>3 DEF HopOk
<1>5. RequestOk'
  BY <1>1, <1>3 DEF RequestOk
<1>6. ProgressOk'
  <2>1. request' = request /\ arrived' = arrived /\ hop' = None
    BY <1>1
  <2> QED
    BY <1>3, <1>4, <1>5, <2>1, Zenon DEF ProgressOk
<1> QED
  BY <1>1, <1>6, SameIs, StillAsked

\* write_callback(): the next chunk of the answer.
LEMMA BodyChunkKeeps == ASSUME RestInv, BodyChunk PROVE RestInv'
<1> DEFINE a == arrived.answer
           rest == hop.chunks
           b == request.body \o Head(rest)
<1>1. request # None /\ hop # None /\ ~Redirects(hop.status) /\ rest # <<>>
      /\ UNCHANGED <<settings, handle, out_resp, arrived>>
  BY DEF BodyChunk
<1>2. request' = [request EXCEPT !.body = b] /\ hop' = [hop EXCEPT !.chunks = Tail(rest)]
  BY DEF BodyChunk
<1>3. RequestOk /\ Sequence(arrived.lines) /\ HeadersAre(request.resp.headers, arrived.lines) /\ HopOk
  BY <1>1, Zenon DEF RestInv, ProgressOk
<1>4. /\ AnswerOk(a) /\ hop = [status |-> a.status, lines |-> hop.lines, chunks |-> rest]
      /\ LinesTaken(request.resp.content_type, hop.lines, a.lines)
  BY <1>3, Zenon DEF HopOk
<1>5. PICK k \in Nat : LeftOf(rest, a.chunks, k) /\ BodyHas(request.body, a.chunks, k)
  BY <1>3 DEF HopOk, ChunksTaken
<1>6. LeftOf(Tail(rest), a.chunks, k + 1) /\ k + 1 \in 1..Len(a.chunks) /\ Head(rest) = a.chunks[k + 1]
  BY <1>1, <1>5, NextLeft
<1>7. BodyHas(b, a.chunks, k + 1)
  BY <1>5, <1>6, ChunkTaken
<1>8. ChunksTaken(b, Tail(rest), a.chunks)
  <2>1. k + 1 \in Nat
    BY <1>5
  <2> QED
    BY <1>6, <1>7, <2>1, Zenon DEF ChunksTaken
<1> DEFINE left == Tail(rest)
<1>9. /\ request' = [number |-> request.number, query |-> request.query, resp |-> request.resp, body |-> b]
      /\ hop' = [status |-> a.status, lines |-> hop.lines, chunks |-> left]
  <2> HIDE DEF b
  <2>1. request = [number |-> request.number, query |-> request.query, resp |-> request.resp, body |-> request.body]
    BY <1>3, Zenon DEF RequestOk
  <2>2. [hop EXCEPT !.chunks = left] = [status |-> a.status, lines |-> hop.lines, chunks |-> left]
    <3> HIDE DEF left
    <3> QED
      BY <1>4
  <2>3. [request EXCEPT !.body = b]
          = [number |-> request.number, query |-> request.query, resp |-> request.resp, body |-> b]
    BY <2>1
  <2> QED
    BY <1>2, <2>2, <2>3, Zenon
<1> HIDE DEF b, left
<1>10. HopOk'
  <2>1. /\ arrived'.answer = a /\ hop'.status = hop.status /\ hop'.lines = hop.lines /\ hop'.chunks = left
        /\ request'.resp = request.resp /\ request'.body = b
    BY <1>1, <1>4, <1>9
  <2>2. hop' = [status |-> arrived'.answer.status, lines |-> hop'.lines, chunks |-> hop'.chunks]
    BY <1>9, <2>1
  <2> QED
    BY <1>1, <1>4, <1>8, <2>1, <2>2, Zenon DEF HopOk, left
<1>11. RequestOk'
  BY <1>1, <1>3, <1>9 DEF RequestOk
<1>12. hop' # None /\ request' # None
  BY <1>9, RecordsAreThere, Zenon
<1>13. ProgressOk'
  <2>1. request'.resp = request.resp /\ arrived' = arrived
    BY <1>1, <1>9
  <2> QED
    BY <1>3, <1>10, <1>11, <1>12, <2>1, Zenon DEF ProgressOk
<1>14. SameRequest
  BY <1>1, <1>9, <1>12 DEF SameRequest
<1> QED
  BY <1>1, <1>13, <1>14, StillAsked

\* header_callback(): the next line of the answer, kept if it has a colon.
LineKept(r, line) ==
  IF ~line.colon THEN r
  ELSE [r EXCEPT !.headers = Append(@, line), !.content_type = IF NamesType(line) THEN line.value ELSE @]
Keeps_(s, r, line) ==
  /\ OfNone(s)
  /\ s.headers = IF line.colon THEN Append(r.headers, line) ELSE r.headers
  /\ s.content_type = IF NamesType(line) THEN line.value ELSE r.content_type
LEMMA ResponseTakes ==
  ASSUME NEW r, OfNone(r),
         NEW line, HeaderOk(line), NEW s, s = LineKept(r, line)
  PROVE  Keeps_(s, r, line)
<1>1. CASE ~line.colon
  BY <1>1 DEF HeaderOk, LineKept, Keeps_, OfNone
<1>2. CASE line.colon
  <2> DEFINE h == Append(r.headers, line)
             t == IF NamesType(line) THEN line.value ELSE r.content_type
  <2>1. s = [r EXCEPT !.headers = h, !.content_type = t]
    BY <1>2 DEF LineKept
  <2> HIDE DEF h, t
  <2>2. s = [NoResponse EXCEPT !.headers = h, !.content_type = t] /\ s.headers = h /\ s.content_type = t
    BY <2>1 DEF NoResponse, OfNone
  <2> QED
    BY <1>2, <2>2 DEF h, t, Keeps_, OfNone
<1> QED
  BY <1>1, <1>2

LEMMA HeaderLineKeeps == ASSUME RestInv, HeaderLine PROVE RestInv'
<1> DEFINE a == arrived.answer
           rest == hop.lines
           line == Head(rest)
           left == Tail(rest)
           resp == LineKept(request.resp, line)
<1>1. request # None /\ hop # None /\ rest # <<>> /\ UNCHANGED <<settings, handle, out_resp>>
  BY DEF HeaderLine
<1>2. RequestOk /\ Sequence(arrived.lines) /\ HeadersAre(request.resp.headers, arrived.lines) /\ HopOk
  BY <1>1, Zenon DEF RestInv, ProgressOk
<1>3. request = [number |-> request.number, query |-> request.query, resp |-> request.resp, body |-> request.body]
  BY <1>2, Zenon DEF RequestOk
<1>4. /\ hop' = [hop EXCEPT !.lines = left] /\ arrived' = [arrived EXCEPT !.lines = Append(arrived.lines, line)]
      /\ request' = IF ~line.colon THEN request
                    ELSE [request EXCEPT !.resp.headers = Append(@, line),
                            !.resp.content_type = IF line.name = "content-type" THEN line.value ELSE @]
  BY DEF HeaderLine
<1>5. request' = [request EXCEPT !.resp = resp]
  <2> HIDE DEF line
  <2>1. CASE ~line.colon
    <3>1. resp = request.resp /\ request' = request
      BY <1>4, <2>1 DEF LineKept
    <3> QED
      BY <1>3, <3>1
  <2>2. CASE line.colon
    <3> DEFINE h == Append(request.resp.headers, line)
               t == IF NamesType(line) THEN line.value ELSE request.resp.content_type
    <3>1. resp = [request.resp EXCEPT !.headers = h, !.content_type = t]
      BY <2>2 DEF LineKept
    <3>2. request' = [request EXCEPT !.resp.headers = h, !.resp.content_type = t]
      BY <1>4, <2>2 DEF NamesType
    <3> HIDE DEF h, t
    <3> QED
      BY <1>3, <3>1, <3>2
  <2> QED
    BY <2>1, <2>2
<1> HIDE DEF resp
<1>6. request' = [number |-> request.number, query |-> request.query, resp |-> resp, body |-> request.body]
  BY <1>3, <1>5
<1>7. /\ AnswerOk(a) /\ hop = [status |-> a.status, lines |-> rest, chunks |-> hop.chunks]
      /\ ChunksTaken(request.body, hop.chunks, a.chunks) /\ (Redirects(hop.status) => request.body = <<>>)
  BY <1>2, Zenon DEF HopOk
<1>8. PICK m \in Nat : LeftOf(rest, a.lines, m) /\ TypeIs(request.resp.content_type, a.lines, m)
  BY <1>2 DEF HopOk, LinesTaken
<1>9. LeftOf(left, a.lines, m + 1) /\ m + 1 \in 1..Len(a.lines) /\ line = a.lines[m + 1]
  BY <1>1, <1>8, NextLeft
<1>10. HeaderOk(line)
  BY <1>7, <1>9 DEF AnswerOk
<1> HIDE DEF line, left
<1>11. /\ OfNone(resp)
       /\ resp.headers = IF line.colon THEN Append(request.resp.headers, line) ELSE request.resp.headers
       /\ resp.content_type = IF NamesType(line) THEN line.value ELSE request.resp.content_type
  <2>1. OfNone(request.resp)
    BY <1>2, Zenon DEF RequestOk
  <2>2. resp = LineKept(request.resp, line)
    BY DEF resp
  <2>3. Keeps_(resp, request.resp, line)
    BY <1>10, <2>1, <2>2, ResponseTakes, Zenon
  <2> QED
    BY <2>3 DEF Keeps_
<1>12. LinesTaken(resp.content_type, left, a.lines)
  <2>1. TypeIs(resp.content_type, a.lines, m + 1)
    BY <1>8, <1>9, <1>11, TypeTaken
  <2>2. m + 1 \in Nat
    BY <1>8
  <2> QED
    BY <1>9, <2>1, <2>2, Zenon DEF LinesTaken
<1> DEFINE more == Append(arrived.lines, line)
<1>13. Sequence(more) /\ HeadersAre(resp.headers, more)
  <2>1. HeadersAre(IF line.colon THEN Append(request.resp.headers, line) ELSE request.resp.headers, more)
    BY <1>2, LineTaken, Zenon
  <2>2. Sequence(more)
    BY <1>2, Longer
  <2> QED
    BY <1>11, <2>1, <2>2, Zenon
<1> HIDE DEF more
<1>14. arrived' = [lines |-> more, answer |-> a, ending |-> "none"]
  <2>1. arrived = [lines |-> arrived.lines, answer |-> a, ending |-> "none"] /\ arrived' = [arrived EXCEPT !.lines = more]
    BY <1>2, <1>4, Zenon DEF RequestOk, more
  <2> QED
    BY <2>1
<1>15. hop' = [status |-> a.status, lines |-> left, chunks |-> hop.chunks]
  BY <1>4, <1>7
<1>16. HopOk'
  <2>1. /\ arrived'.answer = a /\ hop'.status = hop.status /\ hop'.lines = left /\ hop'.chunks = hop.chunks
        /\ request'.resp = resp /\ request'.body = request.body
    BY <1>6, <1>7, <1>14, <1>15
  <2>2. hop' = [status |-> arrived'.answer.status, lines |-> hop'.lines, chunks |-> hop'.chunks]
    BY <1>15, <2>1
  <2> QED
    BY <1>7, <1>12, <2>1, <2>2, Zenon DEF HopOk
<1>17. RequestOk'
  BY <1>6, <1>11, <1>14 DEF RequestOk
<1>18. hop' # None /\ request' # None
  BY <1>6, <1>15, RecordsAreThere, Zenon
<1>19. ProgressOk'
  <2>1. request'.resp = resp /\ arrived'.lines = more
    BY <1>6, <1>14
  <2> QED
    BY <1>13, <1>16, <1>17, <1>18, <2>1, Zenon DEF ProgressOk
<1>20. SameRequest
  BY <1>1, <1>6, <1>18 DEF SameRequest
<1> QED
  BY <1>1, <1>19, <1>20, StillAsked

\* The end of a request: what the caller gets is classified as it is.
CallEnded(resp, ending) ==
  /\ settings' = settings /\ request' = None /\ out_resp' = resp /\ result' = Classify(resp)
  /\ arrived' = [arrived EXCEPT !.ending = ending]
LEMMA EndKeeps ==
  ASSUME RestInv, NEW resp, NEW ending, CallEnded(resp, ending), AnswerGiven(resp), AnswersAreTheirOwn'
  PROVE  RestInv'
<1>1. settings' = settings /\ request' = None /\ out_resp' = resp
  BY DEF CallEnded
<1>2. AskedOk' /\ SettingsOk'
  <2>1. RequestsAreTheirOwn'
    BY <1>1 DEF RequestsAreTheirOwn
  <2>2. (settings.server = None \/ settings.server \in Servers) /\ SettingsOk
    BY DEF RestInv, AskedOk
  <2> QED
    BY <1>1, <2>1, <2>2 DEF AskedOk, SettingsOk
<1> QED
  BY <1>1, <1>2 DEF RestInv

\* How a failure and an answer are classified.
LEMMA FailureIs ==
  ASSUME NEW e \in CurlErrors, NEW r, r.error = TRUE, r.curl_error_code = e
  PROVE  Classify(r) # "ok" /\ ~IsSuccess(r)
<1> DEFINE c == Classify(r)
           codes == {"curl_timeout", "curl_ssl_error", "curl_network_error", "curl_other_error"}
<1>1. ASSUME e = "timedout" PROVE c = "curl_timeout"
  BY <1>1 DEF Classify
<1>2. ASSUME e = "verification" PROVE c = "curl_ssl_error"
  BY <1>2 DEF Classify
<1>3. ASSUME e = "ssl" PROVE c = "curl_ssl_error"
  BY <1>3 DEF Classify
<1>4. ASSUME e = "resolve" PROVE c = "curl_network_error"
  BY <1>4 DEF Classify
<1>5. ASSUME e = "connect" PROVE c = "curl_network_error"
  BY <1>5 DEF Classify
<1>6. ASSUME e = "other" PROVE c = "curl_other_error"
  BY <1>6 DEF Classify, CurlErrors
<1> HIDE DEF c
<1>7. c # "ok"
  <2>1. c \in codes
    BY <1>1, <1>2, <1>3, <1>4, <1>5, <1>6 DEF CurlErrors
  <2> QED
    BY <2>1
<1>8. ~IsSuccess(r)
  BY DEF IsSuccess
<1> QED
  BY <1>7, <1>8 DEF c
ClassifiedBy(r, raw) ==
  (Classify(r) = "ok") = (raw \in 200..299) /\ IsSuccess(r) = (raw \in 200..299)
LEMMA SuccessIs ==
  ASSUME NEW r, NEW raw \in Nat, r.error = FALSE, r.raw_status_code = raw
  PROVE  ClassifiedBy(r, raw)
<1> DEFINE c == Classify(r)
<1>1. IsSuccess(r) = (raw \in 200..299)
  BY DEF IsSuccess
<1>2. raw \in 200..299 => c = "ok"
  BY DEF Classify
<1>3. raw \notin 200..299 => c # "ok"
  BY DEF Classify
<1> HIDE DEF c
<1>4. (c = "ok") = (raw \in 200..299)
  BY <1>2, <1>3
<1> QED
  BY <1>1, <1>4 DEF ClassifiedBy, c

\* The response of the caller, field by field.
FieldsOf(r, a, b, c, d, e, h, t) ==
  r = [status |-> a, raw_status_code |-> b, curl_error_code |-> c, body |-> d,
       error |-> e, headers |-> h, content_type |-> t]
SetsError(s, r, x) == s = [r EXCEPT !.error = x]
LEMMA ErrorSet ==
  ASSUME NEW a, NEW b, NEW c, NEW d, NEW e, NEW h, NEW t, NEW r, FieldsOf(r, a, b, c, d, e, h, t),
         NEW x, NEW s, SetsError(s, r, x)
  PROVE  FieldsOf(s, a, b, c, d, x, h, t)
BY DEF FieldsOf, SetsError
SetsCurlCode(s, r, x) == s = [r EXCEPT !.curl_error_code = x]
LEMMA CurlCodeSet ==
  ASSUME NEW a, NEW b, NEW c, NEW d, NEW e, NEW h, NEW t, NEW r, FieldsOf(r, a, b, c, d, e, h, t),
         NEW x, NEW s, SetsCurlCode(s, r, x)
  PROVE  FieldsOf(s, a, b, x, d, e, h, t)
BY DEF FieldsOf, SetsCurlCode
SetsStatusCode(s, r, x) == s = [r EXCEPT !.raw_status_code = x]
LEMMA StatusCodeSet ==
  ASSUME NEW a, NEW b, NEW c, NEW d, NEW e, NEW h, NEW t, NEW r, FieldsOf(r, a, b, c, d, e, h, t),
         NEW x, NEW s, SetsStatusCode(s, r, x)
  PROVE  FieldsOf(s, a, x, c, d, e, h, t)
BY DEF FieldsOf, SetsStatusCode
SetsStatus(s, r, x) == s = [r EXCEPT !.status = x]
LEMMA StatusSet ==
  ASSUME NEW a, NEW b, NEW c, NEW d, NEW e, NEW h, NEW t, NEW r, FieldsOf(r, a, b, c, d, e, h, t),
         NEW x, NEW s, SetsStatus(s, r, x)
  PROVE  FieldsOf(s, x, b, c, d, e, h, t)
BY DEF FieldsOf, SetsStatus
SetsBody(s, r, x) == s = [r EXCEPT !.body = x]
LEMMA BodySet ==
  ASSUME NEW a, NEW b, NEW c, NEW d, NEW e, NEW h, NEW t, NEW r, FieldsOf(r, a, b, c, d, e, h, t),
         NEW x, NEW s, SetsBody(s, r, x)
  PROVE  FieldsOf(s, a, b, c, x, e, h, t)
BY DEF FieldsOf, SetsBody
LEMMA OfNoneIs ==
  ASSUME NEW r, OfNone(r)
  PROVE  FieldsOf(r, "unknown", 0, "", <<>>, FALSE, r.headers, r.content_type)
BY DEF OfNone, NoResponse, FieldsOf

Failed(s, r, e) ==
  /\ AnswerGiven(s) /\ s.error = TRUE /\ s.curl_error_code = e /\ s.body = <<>> /\ s.headers = r.headers
LEMMA FailedIs ==
  ASSUME NEW r, OfNone(r), NEW e, NEW q, SetsError(q, r, TRUE), NEW s, SetsCurlCode(s, q, e)
  PROVE  Failed(s, r, e)
<1> DEFINE h == r.headers
           t == r.content_type
<1>1. FieldsOf(r, "unknown", 0, "", <<>>, FALSE, h, t)
  BY OfNoneIs
<1> HIDE DEF h, t
<1>2. FieldsOf(q, "unknown", 0, "", <<>>, TRUE, h, t)
  BY <1>1, ErrorSet, Zenon
<1>3. FieldsOf(s, "unknown", 0, e, <<>>, TRUE, h, t)
  BY <1>2, CurlCodeSet, Zenon
<1>4. AnswerGiven(s) /\ s.error = TRUE /\ s.curl_error_code = e /\ s.body = <<>> /\ s.headers = h
  BY <1>3 DEF FieldsOf, AnswerGiven
<1> QED
  BY <1>4, Zenon DEF Failed, h

Succeeded(s, r, raw, b) ==
  /\ AnswerGiven(s) /\ s.error = FALSE /\ s.raw_status_code = raw /\ s.body = b
  /\ s.headers = r.headers /\ s.content_type = r.content_type
LEMMA SucceededIs ==
  ASSUME NEW r, OfNone(r), NEW raw, NEW p, SetsStatusCode(p, r, raw),
         NEW x, NEW q, SetsStatus(q, p, x), NEW b, NEW s, SetsBody(s, q, b)
  PROVE  Succeeded(s, r, raw, b)
<1> DEFINE h == r.headers
           t == r.content_type
<1>1. FieldsOf(r, "unknown", 0, "", <<>>, FALSE, h, t)
  BY OfNoneIs
<1> HIDE DEF h, t
<1>2. FieldsOf(p, "unknown", raw, "", <<>>, FALSE, h, t)
  BY <1>1, StatusCodeSet, Zenon
<1>3. FieldsOf(q, x, raw, "", <<>>, FALSE, h, t)
  BY <1>2, StatusSet, Zenon
<1>4. FieldsOf(s, x, raw, "", b, FALSE, h, t)
  BY <1>3, BodySet, Zenon
<1>5. /\ AnswerGiven(s) /\ s.error = FALSE /\ s.raw_status_code = raw /\ s.body = b
      /\ s.headers = h /\ s.content_type = t
  BY <1>4 DEF FieldsOf, AnswerGiven
<1> QED
  BY <1>5, Zenon DEF Succeeded, h, t

\* libcurl gives up.
LEMMA RequestFailsKeeps == ASSUME RestInv, RequestFails PROVE RestInv'
<1>1. PICK e \in CurlErrors : Returns_([request.resp EXCEPT !.error = TRUE, !.curl_error_code = e], "failed")
  BY DEF RequestFails
<1> DEFINE resp == [request.resp EXCEPT !.error = TRUE, !.curl_error_code = e]
<1>2. CallEnded(resp, "failed")
  BY <1>1 DEF CallEnded, Returns_
<1>3. RequestOk /\ HeadersAre(request.resp.headers, arrived.lines) /\ Sequence(arrived.lines)
  BY Zenon DEF RequestFails, RestInv, ProgressOk
<1>4. AnswerGiven(resp) /\ resp.error = TRUE /\ resp.curl_error_code = e /\ resp.body = <<>> /\ resp.headers = request.resp.headers
  <2>1. OfNone(request.resp)
    BY <1>3, Zenon DEF RequestOk
  <2>2. Failed(resp, request.resp, e)
    <3> DEFINE q == [request.resp EXCEPT !.error = TRUE]
    <3>1. SetsError(q, request.resp, TRUE) /\ SetsCurlCode(resp, q, e)
      BY DEF SetsError, SetsCurlCode, resp
    <3> HIDE DEF q
    <3> QED
      BY <2>1, <3>1, FailedIs, Zenon
  <2> QED
    BY <2>2, Zenon DEF Failed
<1> HIDE DEF resp
<1>5. arrived' = [lines |-> arrived.lines, answer |-> arrived.answer, ending |-> "failed"]
  <2>1. arrived = [lines |-> arrived.lines, answer |-> arrived.answer, ending |-> "none"]
        /\ arrived' = [arrived EXCEPT !.ending = "failed"]
    BY <1>2, <1>3, Zenon DEF RequestOk, CallEnded
  <2> QED
    BY <2>1
<1>6. Classify(resp) # "ok" /\ ~IsSuccess(resp)
  BY <1>4, FailureIs
<1>7. resp.headers = WithColon(arrived.lines)
  BY <1>3, <1>4, HeadersWhole, Zenon
<1>8. AnswersAreTheirOwn'
  <2>1. /\ out_resp' = resp /\ result' # "ok" /\ arrived'.ending = "failed" /\ arrived'.lines = arrived.lines
        /\ out_resp'.body = <<>> /\ out_resp'.error = TRUE
    BY <1>2, <1>4, <1>5, <1>6 DEF CallEnded
  <2>2. ("failed" = "complete") = FALSE
    OBVIOUS
  <2> SUFFICES ASSUME request' = None, result' # "none"
               PROVE  /\ (result' = "ok") = IsSuccess(out_resp')
                      /\ (result' = "ok") = (arrived' # None /\ arrived'.ending = "complete" /\ arrived'.answer.status \in 200..299)
                      /\ out_resp'.headers = WithColon(arrived'.lines)
                      /\ out_resp'.body = <<>> /\ out_resp'.error
    BY <2>1, <2>2 DEF AnswersAreTheirOwn
  <2>3. IsSuccess(out_resp') = FALSE
    BY <1>6, <2>1 DEF IsSuccess
  <2> QED
    BY <1>7, <2>1, <2>2, <2>3
<1> QED
  BY <1>2, <1>4, <1>8, EndKeeps

\* All lines and chunks were taken, so the response is the whole answer.
LEMMA RequestSucceedsKeeps == ASSUME RestInv, RequestSucceeds PROVE RestInv'
<1> DEFINE a == arrived.answer
           resp == [request.resp EXCEPT !.raw_status_code = hop.status, !.status = ToHttpStatus(hop.status),
                                        !.body = request.body]
<1>1. CallEnded(resp, "complete") /\ request # None /\ hop # None /\ hop.lines = <<>> /\ hop.chunks = <<>>
  BY DEF RequestSucceeds, Returns_, CallEnded
<1>2. RequestOk /\ HeadersAre(request.resp.headers, arrived.lines) /\ Sequence(arrived.lines) /\ HopOk
  BY <1>1, Zenon DEF RestInv, ProgressOk
<1>3. /\ AnswerOk(a) /\ hop = [status |-> a.status, lines |-> hop.lines, chunks |-> hop.chunks]
      /\ LinesTaken(request.resp.content_type, hop.lines, a.lines) /\ ChunksTaken(request.body, hop.chunks, a.chunks)
  BY <1>2, Zenon DEF HopOk
<1>4. /\ AnswerGiven(resp) /\ resp.error = FALSE /\ resp.raw_status_code = a.status /\ resp.body = request.body
      /\ resp.headers = request.resp.headers /\ resp.content_type = request.resp.content_type
  <2>1. OfNone(request.resp) /\ hop.status = a.status
    BY <1>2, <1>3 DEF RequestOk
  <2>2. Succeeded(resp, request.resp, hop.status, request.body)
    <3> DEFINE t == ToHttpStatus(hop.status)
               p == [request.resp EXCEPT !.raw_status_code = hop.status]
               q == [p EXCEPT !.status = t]
    <3>1. SetsStatusCode(p, request.resp, hop.status) /\ SetsStatus(q, p, t) /\ SetsBody(resp, q, request.body)
      BY DEF SetsStatusCode, SetsStatus, SetsBody, resp
    <3> HIDE DEF p, q, t
    <3> QED
      BY <2>1, <3>1, SucceededIs, Zenon
  <2> QED
    BY <2>1, <2>2, Zenon DEF Succeeded
<1> HIDE DEF resp
<1>5. arrived' = [lines |-> arrived.lines, answer |-> a, ending |-> "complete"]
  <2>1. arrived = [lines |-> arrived.lines, answer |-> a, ending |-> "none"]
        /\ arrived' = [arrived EXCEPT !.ending = "complete"]
    BY <1>1, <1>2, Zenon DEF RequestOk, CallEnded
  <2> QED
    BY <2>1
<1> HIDE DEF a
<1>6. request.body = FlattenSeq(a.chunks)
  <2>1. PICK k \in Nat : LeftOf(<<>>, a.chunks, k) /\ BodyHas(request.body, a.chunks, k)
    BY <1>1, <1>3 DEF ChunksTaken
  <2>2. BodyHas(request.body, a.chunks, Len(a.chunks))
    BY <2>1, NoneLeft
  <2> QED
    BY <1>3, <2>2, BodyWhole DEF AnswerOk
<1> DEFINE typed == {i \in DOMAIN a.lines : NamesType(a.lines[i])}
<1>7. typed # {} => resp.content_type = a.lines[Max(typed)].value
  <2>1. PICK m \in Nat : LeftOf(<<>>, a.lines, m) /\ TypeIs(request.resp.content_type, a.lines, m)
    BY <1>1, <1>3 DEF LinesTaken
  <2>2. TypeIs(resp.content_type, a.lines, Len(a.lines))
    BY <1>4, <2>1, NoneLeft
  <2>3. Sequence(a.lines)
    BY <1>3 DEF AnswerOk
  <2> QED
    BY <2>2, <2>3, TypeWhole
<1>8. resp.headers = WithColon(arrived.lines)
  BY <1>2, <1>4, HeadersWhole, Zenon
<1>9. ClassifiedBy(resp, a.status)
  <2>1. a.status \in Nat
    BY <1>3 DEF AnswerOk
  <2> QED
    BY <1>4, <2>1, SuccessIs
<1>10. AnswersAreTheirOwn'
  <2>1. /\ out_resp' = resp /\ result' = Classify(resp) /\ arrived'.lines = arrived.lines /\ arrived'.answer = a
        /\ arrived'.ending = "complete" /\ arrived' # None
    BY <1>1, <1>5, RecordsAreThere DEF CallEnded
  <2>2. typed = {i \in DOMAIN a.lines : a.lines[i].name = "content-type"}
    BY DEF NamesType
  <2> HIDE DEF typed
  <2>3. ("complete" = "failed") = FALSE
    OBVIOUS
  <2> SUFFICES ASSUME request' = None, result' # "none"
               PROVE  /\ (result' = "ok") = IsSuccess(out_resp')
                      /\ (result' = "ok") = (arrived' # None /\ arrived'.ending = "complete" /\ arrived'.answer.status \in 200..299)
                      /\ out_resp'.headers = WithColon(arrived'.lines)
                      /\ out_resp'.raw_status_code = arrived'.answer.status
                      /\ out_resp'.body = FlattenSeq(arrived'.answer.chunks)
                      /\ typed # {} => out_resp'.content_type = arrived'.answer.lines[Max(typed)].value
    BY <2>1, <2>2, <2>3 DEF AnswersAreTheirOwn
  <2> QED
    BY <1>4, <1>6, <1>7, <1>8, <1>9, <2>1 DEF ClassifiedBy
<1> QED
  BY <1>1, <1>4, <1>10, EndKeeps

LEMMA RestSame == ASSUME RestInv, UNCHANGED restVars PROVE RestInv'
<1>1. UNCHANGED <<settings, handle, request, hop, out_resp, result, arrived>>
  BY DEF restVars
<1>2. AskedOk' /\ SettingsOk' /\ AnswerGiven(out_resp') /\ AnswersAreTheirOwn'
  BY <1>1 DEF RestInv, AskedOk, RequestsAreTheirOwn, SettingsOk, AnswersAreTheirOwn
<1>3. ASSUME request' # None PROVE ProgressOk'
  <2>1. ProgressOk
    BY <1>1, <1>3 DEF RestInv
  <2>2. RequestOk' /\ (HopOk => HopOk')
    BY <1>1, <2>1 DEF ProgressOk, RequestOk, HopOk
  <2> QED
    BY <1>1, <2>1, <2>2 DEF ProgressOk
<1> QED
  BY <1>2, <1>3 DEF RestInv

LEMMA RestKeeps == ASSUME RestInv, NextRest \/ UNCHANGED restVars PROVE RestInv'
BY SetterKeeps, CallThrowsKeeps, StartKeeps, AnsweringKeeps, HeaderLineKeeps, FollowKeeps, BodyChunkKeeps,
   RequestFailsKeeps, RequestSucceedsKeeps, RestSame, Zenon DEF NextRest
LEMMA RestDelivers == RestInv => RequestsAreTheirOwn /\ AnswersAreTheirOwn
BY DEF RestInv, AskedOk

-----------------------------------------------------------------------------
TransferInv == (subject = "download" => DownloadInv) /\ (subject = "rest" => RestInv)

\* A download, whatever the servers send and wherever the response is cut: the
\* saved files are the first parts under their names, each of them whole but
\* for what a flush lost or the cut took away, and all of a whole response when
\* true is returned; no partial file is left when that was asked for.  A
\* request, whatever calls came before on the handle and wherever the servers
\* redirect it: it asks for what is set now, and its caller gets the answer to
\* this call and to no other.
THEOREM TransfersAreDelivered == Spec => []TransfersAreWhole
<1>1. Init => TransferInv
  BY DownloadStarts, RestStarts DEF Init, TransferInv
<1>2. TransferInv /\ [Next]_vars => TransferInv'
  <2> SUFFICES ASSUME TransferInv, [Next]_vars PROVE TransferInv'
    OBVIOUS
  <2>1. ASSUME subject' = "download" PROVE DownloadInv'
    <3>1. subject = "download" /\ [NextDownload]_mdVars
      BY <2>1 DEF Next, vars, transferVars, DownloadStep
    <3> QED
      BY <3>1, DownloadKeeps DEF TransferInv
  <2>2. ASSUME subject' = "rest" PROVE RestInv'
    <3>1. subject = "rest" /\ (NextRest \/ UNCHANGED restVars)
      BY <2>2 DEF Next, vars, transferVars, RestStep
    <3> QED
      BY <3>1, RestKeeps DEF TransferInv
  <2> QED
    BY <2>1, <2>2 DEF TransferInv
<1>3. TransferInv => TransfersAreWhole
  BY DownloadDelivers, RestDelivers DEF TransferInv, TransfersAreWhole
<1> QED
  BY <1>1, <1>2, <1>3, PTL DEF Spec
=============================================================================
