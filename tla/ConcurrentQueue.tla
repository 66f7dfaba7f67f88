-------------------------- MODULE ConcurrentQueue --------------------------
(***************************************************************************)
(* j2::queue::concurrent_queue<T>: a FIFO guarded by one mutex, with one   *)
(* condition variable for consumers.  A thread that enqueues leaves the    *)
(* critical section first and notifies afterwards, so other threads may    *)
(* run between the two.  A critical section that calls no user code is one *)
(* step; dequeue_if calls its predicate with the mutex held, so it is two. *)
(*                                                                         *)
(* An item is identified by its rank among the accepted items.  outs and   *)
(* discarded are history: what consumers received, and what drop_oldest or *)
(* clear() threw away.                                                     *)
(***************************************************************************)
EXTENDS Integers, Sequences, FiniteSets

CONSTANTS Threads,   \* the threads that share the queue
          None,      \* "no thread holds the mutex"
          Sizes,     \* the max_size values a constructor call may pass
          MaxItems   \* bound: items accepted in one behaviour

ASSUME ThreadsAssumption == IsFiniteSet(Threads) /\ None \notin Threads
ASSUME SizesAssumption == Sizes \subseteq Nat
ASSUME MaxItemsAssumption == MaxItems \in Nat

VARIABLES max_size,   \* max_size_: 0 means unbounded
          policy,     \* policy_
          queue,      \* queue_
          lock,       \* the thread that holds mutex_ across steps, or None
          pc,         \* where each thread is
          seen,       \* what each dequeue_if predicate was shown
          produced,   \* number of accepted items
          outs,       \* items handed to consumers, oldest first
          discarded   \* items removed without a consumer

vars == <<max_size, policy, queue, lock, pc, seen, produced, outs, discarded>>

Policies == {"drop_oldest", "reject_new"}
States == {"idle", "notify", "waiting", "woken", "predicate"}
Items == 1..MaxItems

At(state) == {t \in Threads : pc[t] = state}
Goto(t, state) == pc' = [pc EXCEPT ![t] = state]
FullOffByOne == max_size # 0 /\ Len(queue) > max_size
Full == max_size # 0 /\ Len(queue) >= max_size
Free == lock = None

Init ==
  /\ max_size \in Sizes
  /\ policy \in Policies
  /\ queue = <<>> /\ lock = None
  /\ pc = [t \in Threads |-> "idle"]
  /\ seen = [t \in Threads |-> [head |-> 0, size |-> 0]]
  /\ produced = 0 /\ outs = <<>> /\ discarded = {}

(***************************************************************************)
(* The operators named after a mistake (FullOffByOne, PushFront, ...) are  *)
(* faulty variants of the definition that follows them: substituted for    *)
(* it, they show that a property below can fail.                           *)
(***************************************************************************)

(***************************************************************************)
(* emplace_impl: a value enters with room to spare or in place of the      *)
(* oldest; a full queue with reject_new returns false and changes nothing. *)
(***************************************************************************)
AcceptPushingFront(t, rest) ==
  /\ produced < MaxItems
  /\ produced' = produced + 1
  /\ queue' = <<produced + 1>> \o rest
  /\ Goto(t, "notify")
  /\ UNCHANGED <<max_size, policy, lock, seen, outs>>

AcceptNotifyingOnlyIfEmpty(t, rest) ==
  /\ produced < MaxItems
  /\ produced' = produced + 1
  /\ queue' = Append(rest, produced + 1)
  /\ Goto(t, IF rest = <<>> THEN "notify" ELSE "idle")
  /\ UNCHANGED <<max_size, policy, lock, seen, outs>>

Accept(t, rest) ==
  /\ produced < MaxItems
  /\ produced' = produced + 1
  /\ queue' = Append(rest, produced + 1)
  /\ Goto(t, "notify")
  /\ UNCHANGED <<max_size, policy, lock, seen, outs>>

EnqueueWithRoom(t) ==
  /\ pc[t] = "idle" /\ Free /\ ~Full
  /\ Accept(t, queue)
  /\ UNCHANGED discarded

EnqueueDroppingNewest(t) ==
  /\ pc[t] = "idle" /\ Free /\ Full /\ policy = "drop_oldest"
  /\ produced < MaxItems /\ produced' = produced + 1
  /\ Goto(t, "notify")
  /\ UNCHANGED <<max_size, policy, queue, lock, seen, outs, discarded>>

EnqueueDroppingOldest(t) ==
  /\ pc[t] = "idle" /\ Free /\ Full /\ policy = "drop_oldest"
  /\ Accept(t, Tail(queue))
  /\ discarded' = discarded \cup {Head(queue)}

\* notify_one, after unlock: it wakes one of the threads then waiting, if any.
NotifyOne(t) ==
  /\ pc[t] = "notify"
  /\ \/ /\ At("waiting") = {}
        /\ Goto(t, "idle")
     \/ \E w \in At("waiting") :
           pc' = [pc EXCEPT ![t] = "idle", ![w] = "woken"]
  /\ UNCHANGED <<max_size, policy, queue, lock, seen, produced, outs, discarded>>

Pop(t) ==
  /\ outs' = Append(outs, Head(queue))
  /\ queue' = Tail(queue)
  /\ Goto(t, "idle")
  /\ UNCHANGED <<max_size, policy, seen, produced, discarded>>

TryDequeue(t) ==
  /\ pc[t] = "idle" /\ Free /\ queue # <<>>
  /\ Pop(t)
  /\ UNCHANGED lock

(***************************************************************************)
(* wait_dequeue: wait(lock, pred) tests the predicate before it blocks and *)
(* again after every wakeup, notified or spurious.                         *)
(***************************************************************************)
WaitDequeue(t) ==
  /\ pc[t] \in {"idle", "woken"} /\ Free /\ queue # <<>>
  /\ Pop(t)
  /\ UNCHANGED lock

BlockOnceOnly(t) ==
  /\ pc[t] \in {"idle", "woken"} /\ Free /\ queue = <<>>
  /\ Goto(t, IF pc[t] = "idle" THEN "waiting" ELSE "idle")
  /\ UNCHANGED <<max_size, policy, queue, lock, seen, produced, outs, discarded>>

Block(t) ==
  /\ pc[t] \in {"idle", "woken"} /\ Free /\ queue = <<>>
  /\ Goto(t, "waiting")
  /\ UNCHANGED <<max_size, policy, queue, lock, seen, produced, outs, discarded>>

SpuriousWakeup(t) ==
  /\ pc[t] = "waiting"
  /\ Goto(t, "woken")
  /\ UNCHANGED <<max_size, policy, queue, lock, seen, produced, outs, discarded>>

(***************************************************************************)
(* dequeue_if: the predicate sees the head and the size under the mutex.   *)
(***************************************************************************)
DequeueIfUnlocked(t) ==
  /\ pc[t] = "idle" /\ Free /\ queue # <<>>
  /\ seen' = [seen EXCEPT ![t] = [head |-> Head(queue), size |-> Len(queue)]]
  /\ Goto(t, "predicate")
  /\ UNCHANGED <<max_size, policy, queue, lock, produced, outs, discarded>>

DequeueIfCall(t) ==
  /\ pc[t] = "idle" /\ Free /\ queue # <<>>
  /\ lock' = t
  /\ seen' = [seen EXCEPT ![t] = [head |-> Head(queue), size |-> Len(queue)]]
  /\ Goto(t, "predicate")
  /\ UNCHANGED <<max_size, policy, queue, produced, outs, discarded>>

DequeueIfReturn(t) ==
  /\ pc[t] = "predicate"
  /\ lock' = None
  /\ \/ Pop(t)
     \/ /\ Goto(t, "idle")
        /\ UNCHANGED <<max_size, policy, queue, seen, produced, outs, discarded>>

Clear(t) ==
  /\ pc[t] = "idle" /\ Free /\ queue # <<>>
  /\ discarded' = discarded \cup {queue[i] : i \in DOMAIN queue}
  /\ queue' = <<>>
  /\ UNCHANGED <<max_size, policy, lock, pc, seen, produced, outs>>

Step(t) ==
  \/ EnqueueWithRoom(t) \/ EnqueueDroppingOldest(t) \/ NotifyOne(t)
  \/ TryDequeue(t) \/ WaitDequeue(t) \/ Block(t) \/ SpuriousWakeup(t)
  \/ DequeueIfCall(t) \/ DequeueIfReturn(t) \/ Clear(t)

Next == \E t \in Threads : Step(t)

(***************************************************************************)
(* A thread inside an operation keeps running: it reaches notify_one, its  *)
(* predicate returns, and a woken consumer eventually gets the mutex even  *)
(* if others keep taking it (strong fairness: the mutex starves nobody).   *)
(* No operation is ever obliged to start.                                  *)
(***************************************************************************)
Resume(t) == pc[t] = "woken" /\ (WaitDequeue(t) \/ Block(t))

Fairness == \A t \in Threads : /\ WF_vars(NotifyOne(t))
                               /\ WF_vars(DequeueIfReturn(t))
                               /\ SF_vars(Resume(t))

Spec == Init /\ [][Next]_vars
FairSpec == Spec /\ Fairness

-----------------------------------------------------------------------------
\* Every variable stays in its domain: the mutex owner is the one thread in a
\* dequeue_if predicate, and a thread's pc names a place in the class.
TypeOK ==
  /\ max_size \in Sizes /\ policy \in Policies
  /\ queue \in Seq(Items) /\ outs \in Seq(Items) /\ discarded \subseteq Items
  /\ produced \in 0..MaxItems
  /\ lock \in Threads \cup {None}
  /\ pc \in [Threads -> States]
  /\ \A t \in Threads : lock = t <=> pc[t] = "predicate"
  /\ seen \in [Threads -> [head : Nat, size : Nat]]

\* A bounded queue never holds more than max_size items, whatever the policy
\* (emplace_impl tests the size and pops under the same lock as it pushes).
WithinCapacity == max_size # 0 => Len(queue) <= max_size

Increasing(s) == \A i, j \in DOMAIN s : i < j => s[i] < s[j]

\* FIFO across every way in and out: what consumers received so far, followed
\* by what is still queued, is in acceptance order; so nothing is delivered
\* twice, reordered, or delivered after it was dropped behind a younger item.
Fifo == Increasing(outs \o queue)

\* No item vanishes and none is in two places: every accepted item is queued,
\* was handed to one consumer, or was thrown away by drop_oldest or clear().
Elements(s) == {s[i] : i \in DOMAIN s}
EveryItemAccounted ==
  /\ Elements(queue) \cup Elements(outs) \cup discarded = 1..produced
  /\ discarded \cap (Elements(queue) \cup Elements(outs)) = {}

\* No lost wakeup: while a consumer sleeps in wait_dequeue, each queued item is
\* matched by a notify_one still to come or a woken consumer still to run,
\* although notify_one runs after the unlock and others may barge in between.
WakeupsCoverItems ==
  At("waiting") # {} =>
    Len(queue) <= Cardinality(At("notify")) + Cardinality(At("woken"))

\* The head and the size that dequeue_if showed to its predicate are still the
\* head and the size when the predicate returns and the pop happens.
PredicateSeesWhatIsPopped ==
  \A t \in At("predicate") :
    queue # <<>> /\ seen[t] = [head |-> Head(queue), size |-> Len(queue)]

(***************************************************************************)
(* The abstract queue: blocked consumers and atomic operations, no mutex,  *)
(* no condition variable.                                                  *)
(***************************************************************************)
Blocked == At("waiting") \cup At("woken")
Abstract == INSTANCE BlockingQueue WITH
              items <- queue, blocked <- Blocked, taken <- outs,
              limit <- max_size, overwrite <- (policy = "drop_oldest")

\* The class implements the abstract blocking queue, its liveness included:
\* while consumers block and items are queued, some blocked consumer is served.
ImplementsBlockingQueue == Abstract!Spec
=============================================================================
