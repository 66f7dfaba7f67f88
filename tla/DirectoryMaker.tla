--------------------------- MODULE DirectoryMaker ---------------------------
(***************************************************************************)
(* j2::directory::directory_maker: makes a path of directories from the    *)
(* first component down, while others work on the same path.  Every call   *)
(* into the file system is a step: what a maker has seen may be stale when *)
(* it acts.                                                                *)
(***************************************************************************)
EXTENDS Integers, SequencesExt

CONSTANTS
  Depth,       \* components of the path
  Makers       \* callers of create_directory_tree on that path

ASSUME DepthAssumption == Depth \in Nat \ {0}

VARIABLES
  tree,        \* what is at each component
  maker,       \* per caller: options, place in the code, and its result so far
  made,        \* components that somebody else made
  disturbed    \* somebody removed something, or the system refused a call

treeVars == <<tree, maker, made, disturbed>>
Path == 1..Depth
Missing == "none"
Kinds == {"dir", "file", "link"}     \* a link leads to a directory elsewhere

\* A component can only exist below a directory or a link to one.
Possible(t) == \A i \in 2..Depth : t[i] # Missing => t[i - 1] \in {"dir", "link"}

Options == [make_parents : BOOLEAN, follow_symlinks : BOOLEAN, succeed_if_exists : BOOLEAN]

InitMakers ==
  /\ tree \in {t \in [Path -> Kinds \cup {Missing}] : Possible(t)}
  /\ maker \in [Makers -> {[opt |-> o, pc |-> "target", at |-> 1, created |-> <<>>, code |-> "none",
                            success |-> FALSE] : o \in Options}]
  /\ made = {} /\ disturbed = FALSE

-----------------------------------------------------------------------------
\* The file system: status() of a component for a maker, and create_directory.
Status(m, i) ==
  CASE i > 1 /\ tree[i - 1] = "file" -> "not_a_directory"
    [] i > 1 /\ tree[i - 1] = Missing -> Missing
    [] tree[i] = "link" /\ maker[m].opt.follow_symlinks -> "dir"
    [] OTHER -> tree[i]

MkdirError(i) ==
  CASE i > 1 /\ tree[i - 1] = Missing -> "no_such_file"
    [] i > 1 /\ tree[i - 1] = "file" -> "not_a_directory"
    [] tree[i] = "file" -> "file_exists"
    [] tree[i] \in {"dir", "link"} -> "made_by_other"   \* libstdc++: no error, but FALSE
    [] OTHER -> "none"

MapErrc(e) ==
  CASE e = "not_a_directory" -> "NotDirectory"
    [] e = "no_such_file" -> "NoSuchParent"
    [] OTHER -> "PermissionDenied"

Goes(m, pc) == maker' = [maker EXCEPT ![m].pc = pc]
Ends(m, code, success) ==
  maker' = [maker EXCEPT ![m].pc = "end", ![m].code = code, ![m].success = success]
Exists(m) == Ends(m, "AlreadyExists", maker[m].opt.succeed_if_exists)

\* The end of the loop over the components.
EndsLoop(m) ==
  IF maker[m].created = <<>> THEN Exists(m) ELSE Ends(m, "Created", TRUE)

NextPart(m) ==
  IF maker[m].at = Depth THEN EndsLoop(m)
  ELSE maker' = [maker EXCEPT ![m].pc = "part", ![m].at = @ + 1]

\* What stands where a directory is wanted.
Obstacle(m, st) ==
  Ends(m, IF st = "link" THEN "SymlinkBlocked" ELSE "NotDirectory", FALSE)

FS == UNCHANGED <<tree, made, disturbed>>

\* Step 1: is the path there already?
CheckTarget(m) ==
  /\ maker[m].pc = "target" /\ FS
  /\ LET st == Status(m, Depth) IN
     \/ st = "dir" /\ Exists(m)
     \/ st \in {"file", "link"} /\ Obstacle(m, st)
     \/ st = "not_a_directory" /\ Ends(m, MapErrc(st), FALSE)
     \/ st = Missing /\ Goes(m, IF maker[m].opt.make_parents THEN "part" ELSE "parent")

\* Step 2: only the last component is made; exists() follows links.
CheckParent(m) ==
  /\ maker[m].pc = "parent" /\ FS
  /\ IF Depth > 1 /\ tree[Depth - 1] = Missing THEN Ends(m, "NoSuchParent", FALSE)
     ELSE maker' = [maker EXCEPT ![m].pc = "make", ![m].at = Depth]

\* Step 3: one component after the other.
CheckPart(m) ==
  /\ maker[m].pc = "part" /\ FS
  /\ LET st == Status(m, maker[m].at) IN
     \/ st = "dir" /\ NextPart(m)
     \/ st \in {"file", "link"} /\ Obstacle(m, st)
     \/ st = "not_a_directory" /\ Ends(m, MapErrc(st), FALSE)
     \/ st = Missing /\ Goes(m, "make")

\* create_directory() of the component.
Make(m) ==
  LET i == maker[m].at
      e == MkdirError(i)
  IN /\ maker[m].pc = "make"
     /\ \/ /\ e = "none" /\ tree' = [tree EXCEPT ![i] = "dir"]
           /\ LET done == [maker[m] EXCEPT !.created = Append(@, i)]
                  last == i = Depth
              IN maker' = [maker EXCEPT ![m] =
                   IF last THEN [done EXCEPT !.pc = "end", !.code = "Created", !.success = TRUE]
                   ELSE [done EXCEPT !.pc = "part", !.at = @ + 1]]
        \/ e \in {"file_exists", "made_by_other"} /\ Goes(m, "recheck") /\ UNCHANGED tree
        \/ e \in {"no_such_file", "not_a_directory"} /\ Ends(m, MapErrc(e), FALSE) /\ UNCHANGED tree
     /\ UNCHANGED <<made, disturbed>>

\* (A faulty variant: somebody else's directory is an error.)
NoRecheck(m) == maker[m].pc = "recheck" /\ Ends(m, "NotDirectory", FALSE) /\ FS

\* Somebody else may have made it between the check and the call.
Recheck(m) ==
  /\ maker[m].pc = "recheck" /\ FS
  /\ IF Status(m, maker[m].at) # "dir" THEN Ends(m, "NotDirectory", FALSE)
     ELSE IF maker[m].opt.make_parents THEN NextPart(m) ELSE Exists(m)

\* A call the system refuses: the code for its errno, and what was made stays.
SystemRefuses(m) ==
  /\ maker[m].pc \in {"target", "part", "make"} /\ Ends(m, "PermissionDenied", FALSE)
  /\ disturbed' = TRUE /\ UNCHANGED <<tree, made>>

\* Other programs, which make and remove entries of the path.
OtherMakes ==
  /\ \E i \in Path, kind \in Kinds :
        /\ tree[i] = Missing /\ Possible([tree EXCEPT ![i] = kind])
        /\ tree' = [tree EXCEPT ![i] = kind] /\ made' = made \cup {i}
  /\ UNCHANGED <<maker, disturbed>>

OtherRemoves ==
  /\ \E i \in Path : /\ tree[i] # Missing /\ Possible([tree EXCEPT ![i] = Missing])
                     /\ tree' = [tree EXCEPT ![i] = Missing]
  /\ disturbed' = TRUE /\ UNCHANGED <<maker, made>>

NextMakers ==
  \/ \E m \in Makers : \/ CheckTarget(m) \/ CheckParent(m) \/ CheckPart(m)
                       \/ Make(m) \/ Recheck(m) \/ SystemRefuses(m)
  \/ OtherMakes \/ OtherRemoves

-----------------------------------------------------------------------------
Ended(m) == maker[m].pc = "end"
Created(m) == Range(maker[m].created)

\* Makers that meet on a path share its work and do not fail because of each
\* other: every directory is reported by the one that made it, a report is in
\* the order of the path, and, unless somebody removed an entry or the system
\* refused a call, success means that the path is there, and failure that an
\* obstacle is in it, or that its options forbid the rest.
MakersShareThePath ==
  /\ \A m, n \in Makers : m # n /\ ~disturbed => Created(m) \cap Created(n) = {}
  /\ \A m \in Makers : \A i \in 2..Len(maker[m].created) : maker[m].created[i - 1] < maker[m].created[i]
  /\ ~disturbed => \A m \in Makers : Created(m) \cap made = {} /\ \A i \in Created(m) : tree[i] = "dir"
  /\ \A m \in Makers : Ended(m) /\ ~disturbed =>
       IF maker[m].success THEN \A i \in Path : tree[i] \in {"dir", "link"}
       ELSE \/ \E i \in Path : tree[i] = "file"
            \/ ~maker[m].opt.follow_symlinks /\ \E i \in Path : tree[i] = "link"
            \/ maker[m].code = "AlreadyExists" /\ ~maker[m].opt.succeed_if_exists
            \/ maker[m].code = "NoSuchParent" /\ ~maker[m].opt.make_parents
=============================================================================
