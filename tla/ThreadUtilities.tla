--------------------------- MODULE ThreadUtilities ---------------------------
(***************************************************************************)
(* The two utilities that programs of this library put under their own     *)
(* threads: dynamic_thread and mutex_string.  They share nothing, so a     *)
(* behaviour is one of one of them, and the other stays as it began.       *)
(***************************************************************************)
EXTENDS DynamicThread, MutexString

VARIABLE used     \* the utility that the behaviour is of

vars == <<used, threadVars, mutexVars>>

Init == used \in {"thread", "mutex"} /\ InitThread /\ InitMutex

Next ==
  /\ UNCHANGED used
  /\ \/ used = "thread" /\ NextThread /\ UNCHANGED mutexVars
     \/ used = "mutex" /\ NextMutex /\ UNCHANGED threadVars

Spec == Init /\ [][Next]_vars /\ ThreadFairness /\ MutexFairness
=============================================================================
