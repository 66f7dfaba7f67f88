--------------------------- MODULE BlockingQueue ---------------------------
(***************************************************************************)
(* What concurrent_queue promises its callers, with no mutex, condition    *)
(* variable or notification: a FIFO with an optional limit, consumers that *)
(* block on an empty queue, and an owner that may empty it.                *)
(***************************************************************************)
EXTENDS Integers, Sequences

CONSTANTS Threads, MaxItems

VARIABLES items, blocked, taken, limit, overwrite

avars == <<items, blocked, taken, limit, overwrite>>

Init ==
  /\ items = <<>> /\ blocked = {} /\ taken = <<>>
  /\ limit \in Nat /\ overwrite \in BOOLEAN

Static == UNCHANGED <<limit, overwrite>>
HasRoom == limit = 0 \/ Len(items) < limit

Put(v) ==
  /\ \/ HasRoom /\ items' = Append(items, v)
     \/ ~HasRoom /\ overwrite /\ items' = Append(Tail(items), v)
  /\ Static /\ UNCHANGED <<blocked, taken>>

\* A consumer that finds an item leaves with the oldest one, blocked or not.
Take(waiters) ==
  /\ items # <<>>
  /\ taken' = Append(taken, Head(items))
  /\ items' = Tail(items)
  /\ blocked' = blocked \ waiters
  /\ Static

TakeNow == Take({})
Serve == \E t \in blocked : Take({t})

Wait(t) ==
  /\ items = <<>> /\ blocked' = blocked \cup {t}
  /\ Static /\ UNCHANGED <<items, taken>>

Discard ==
  /\ items' = <<>>
  /\ Static /\ UNCHANGED <<blocked, taken>>

Next ==
  \/ \E v \in 1..MaxItems : Put(v)
  \/ TakeNow \/ Serve \/ Discard
  \/ \E t \in Threads : Wait(t)

Safety == Init /\ [][Next]_avars

\* A queue with items does not leave its consumers blocked for ever.
Spec == Safety /\ WF_avars(Serve)
=============================================================================
