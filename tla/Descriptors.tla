---------------------------- MODULE Descriptors ----------------------------
(***************************************************************************)
(* The descriptor table of the process, as socket(), accept() and close()  *)
(* use it: the lowest free number is handed out to whichever component     *)
(* asks, and close() frees a number whoever owns it by then.               *)
(***************************************************************************)
EXTENDS Integers, FiniteSetsExt

CONSTANT MaxFd    \* bound: descriptors 1..MaxFd; the code's -1 is 0 here

VARIABLES table,    \* what each descriptor is: "free" or the kind of its owner
          strayed   \* history: a component has used or closed another's

Fds == 1..MaxFd
NoFd == 0
FreeFds == {f \in Fds : table[f] = "free"}
NextFd == Min(FreeFds)

InitTable == table = [f \in Fds |-> "free"] /\ strayed = FALSE

Opens(kind) == FreeFds # {} /\ table' = [table EXCEPT ![NextFd] = kind]

\* A use of a number by a component that opened it as "kind".
Stray(f, kind) == f \in Fds /\ table[f] \notin {"free", kind}

Closes(f, kind) ==
  /\ table' = [d \in Fds |-> IF d = f THEN "free" ELSE table[d]]
  /\ strayed' = (strayed \/ Stray(f, kind))
=============================================================================
