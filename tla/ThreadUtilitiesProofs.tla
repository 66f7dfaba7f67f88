------------------------ MODULE ThreadUtilitiesProofs ------------------------
(***************************************************************************)
(* The safety of dynamic_thread, for any number of restarts, and of        *)
(* mutex_string's debug assertion, for any threads, strings and depth of   *)
(* scopes.                                                                 *)
(*                                                                         *)
(* While no task has stopped its own object, where the owner is in start() *)
(* or stop() decides what running_ and workerThread_ can be; the thread's  *)
(* properties follow from that relation, which every step preserves.       *)
(*                                                                         *)
(* The mark of a thread and the marks that its with() calls will restore   *)
(* each have a scope to stand for them; an early unlock cannot take that   *)
(* scope's mark away, because a guard that still owns the lock of its      *)
(* string is marked only while the mark is current.                        *)
(***************************************************************************)
EXTENDS ThreadUtilities, SequenceTheorems, TLAPS

PlacesOfOwner == {"idle", "arm", "spawn", "assign", "flag", "join", "joining", "gone"}
PlacesOfWorker == {"unborn", "check", "task", "sleep", "ended"}

ThreadTyped ==
  /\ running \in BOOLEAN /\ destroying \in BOOLEAN
  /\ stopped \in BOOLEAN /\ selfStop \in BOOLEAN
  /\ handle \in 0..MaxStarts /\ held \in 0..MaxStarts /\ spawned \in 0..MaxStarts
  /\ worker \in [Workers -> PlacesOfWorker]
  /\ pc \in PlacesOfOwner
  /\ crash \in {"none", "assigned_joinable", "destroyed_joinable", "joined_itself"}

\* workerThread_ is joinable only between the assignment in start() and the
\* join() in stop(), and running_ is set from before the thread is created until stop().
HandleFitsPlace ==
  /\ handle # 0 => \/ running /\ pc \in {"idle", "flag"}
                   \/ pc \in {"join", "joining"}
  /\ pc = "joining" => handle # 0
  /\ pc \in {"spawn", "assign", "flag"} => running
  /\ pc \in {"arm", "join", "joining", "gone"} => ~running

\* A worker that has been created and not assigned belongs to the start() in
\* progress.
HeldFitsPlace == held # 0 => pc = "assign"

\* No live worker is out of reach.
LiveAreKnown == \A w \in Workers : worker[w] \in {"check", "task", "sleep"} => w \in {handle, held}

\* A stop() that has returned leaves nothing behind, until start() sets the flag.
StoppedIsClean == stopped => ~running /\ handle = 0 /\ pc \in {"idle", "arm", "gone"}

\* What holds while no task has stopped its own object.
Undisturbed ==
  /\ crash = "none"
  /\ HandleFitsPlace /\ HeldFitsPlace /\ LiveAreKnown /\ StoppedIsClean

ThreadInv == ThreadTyped /\ (~selfStop => Undisturbed)

-----------------------------------------------------------------------------
\* The object is constructed without a worker.
LEMMA ThreadInit == InitThread => ThreadInv
<1> SUFFICES ASSUME InitThread PROVE ThreadInv
  OBVIOUS
<1>1. ThreadTyped
  <2>1. worker \in [Workers -> PlacesOfWorker]
    BY DEF InitThread, PlacesOfWorker
  <2>2. handle \in 0..MaxStarts /\ held \in 0..MaxStarts /\ spawned \in 0..MaxStarts
    BY MaxStartsAssumption DEF InitThread
  <2> QED
    BY <2>1, <2>2 DEF InitThread, ThreadTyped, PlacesOfOwner
<1>2. Undisturbed
  BY DEF InitThread, Undisturbed, HandleFitsPlace, HeldFitsPlace, LiveAreKnown, StoppedIsClean
<1> QED
  BY <1>1, <1>2 DEF ThreadInv

\* What each step does to the types.
LEMMA ThreadTypedStep == ThreadTyped /\ NextThread => ThreadTyped'
<1> SUFFICES ASSUME ThreadTyped, NextThread PROVE ThreadTyped'
  OBVIOUS
<1> USE MaxStartsAssumption DEF ThreadTyped, PlacesOfOwner, PlacesOfWorker, Workers, Goto, shared
<1>1. CASE Start
  <2>1. CASE StartCheck
    BY <2>1 DEF StartCheck
  <2>2. CASE StartArm
    BY <2>2 DEF StartArm
  <2>3. CASE StartCreate
    BY <2>3 DEF StartCreate
  <2>4. CASE StartCreateFails
    BY <2>4 DEF StartCreateFails
  <2>5. CASE StartAssign
    BY <2>5 DEF StartAssign
  <2> QED
    BY <1>1, <2>1, <2>2, <2>3, <2>4, <2>5 DEF Start
<1>2. CASE Stop
  <2>1. CASE StopCheck
    BY <2>1 DEF StopCheck, Return
  <2>2. CASE StopFlag
    BY <2>2 DEF StopFlag
  <2>3. CASE StopJoinable
    BY <2>3 DEF StopJoinable, Return
  <2>4. CASE StopJoin
    BY <2>4 DEF StopJoin, Return
  <2> QED
    BY <1>2, <2>1, <2>2, <2>3, <2>4 DEF Stop
<1>3. CASE Destroy
  BY <1>3 DEF Destroy, Return
<1>4. CASE \E w \in Workers : Run(w) \/ WorkerTaskStops(w)
  <2> PICK w \in Workers : Run(w) \/ WorkerTaskStops(w)
    BY <1>4
  <2>1. CASE WorkerCheck(w)
    BY <2>1 DEF WorkerCheck, Move
  <2>2. CASE WorkerTaskReturns(w)
    BY <2>2 DEF WorkerTaskReturns, Move
  <2>3. CASE WorkerWakes(w)
    BY <2>3 DEF WorkerWakes, Move
  <2>4. CASE WorkerTaskStops(w)
    BY <2>4 DEF WorkerTaskStops, Move
  <2> QED
    BY <2>1, <2>2, <2>3, <2>4 DEF Run
<1> QED
  BY <1>1, <1>2, <1>3, <1>4 DEF NextThread

\* Every step of an undisturbed object leaves it undisturbed, unless it is a task
\* that stops the object.
LEMMA UndisturbedStep == ThreadTyped /\ Undisturbed /\ NextThread /\ ~selfStop' => Undisturbed'
<1> SUFFICES ASSUME ThreadTyped, Undisturbed, NextThread, ~selfStop' PROVE Undisturbed'
  OBVIOUS
<1> USE MaxStartsAssumption
    DEF ThreadTyped, Workers, Goto, shared, Undisturbed, HandleFitsPlace, HeldFitsPlace, LiveAreKnown,
        StoppedIsClean
<1>1. CASE StartCheck
  BY <1>1 DEF StartCheck, MayBegin
<1>2. CASE StartArm
  BY <1>2 DEF StartArm
<1>3. CASE StartCreate
  BY <1>3 DEF StartCreate
<1>4. CASE StartCreateFails
  BY <1>4 DEF StartCreateFails
<1>5. CASE StartAssign
  <2>1. handle = 0 /\ handle' = held /\ crash' = crash /\ held' = 0 /\ pc' = "idle"
    BY <1>5 DEF StartAssign
  <2>2. running' = running /\ worker' = worker /\ stopped' = stopped
    BY <1>5 DEF StartAssign
  <2>3. running /\ ~stopped
    BY <1>5 DEF StartAssign
  <2> QED
    BY <2>1, <2>2, <2>3
<1>6. CASE StopCheck
  BY <1>6 DEF StopCheck, MayBegin, Return
<1>7. CASE StopFlag
  BY <1>7 DEF StopFlag
<1>8. CASE StopJoinable
  BY <1>8 DEF StopJoinable, Return
<1>9. CASE StopJoin
  BY <1>9 DEF StopJoin, Return
<1>10. CASE Destroy
  BY <1>10 DEF Destroy, Return
<1>11. ASSUME NEW w \in Workers, Run(w) PROVE Undisturbed'
  BY <1>11 DEF Run, WorkerCheck, WorkerTaskReturns, WorkerWakes, Move
<1>12. ASSUME NEW w \in Workers, WorkerTaskStops(w) PROVE Undisturbed'
  BY <1>12 DEF WorkerTaskStops
<1> QED
  BY <1>1, <1>2, <1>3, <1>4, <1>5, <1>6, <1>7, <1>8, <1>9, <1>10, <1>11, <1>12
  DEF NextThread, Start, Stop

\* Once a task has stopped its own object, that is remembered.
LEMMA SelfStopStays == ThreadTyped /\ NextThread /\ selfStop => selfStop'
  BY DEF ThreadTyped, NextThread, Start, Stop, StartCheck, StartArm, StartCreate, StartCreateFails,
         StartAssign, StopCheck, StopFlag, StopJoinable, StopJoin, Destroy, Run, WorkerCheck,
         WorkerTaskReturns, WorkerWakes, WorkerTaskStops, Move

\* Every step of the object keeps its invariant.
LEMMA ThreadStep == ThreadInv /\ [NextThread]_threadVars => ThreadInv'
<1>1. ASSUME ThreadInv, NextThread PROVE ThreadInv'
  BY <1>1, ThreadTypedStep, UndisturbedStep, SelfStopStays DEF ThreadInv, ThreadTyped
<1>2. ASSUME ThreadInv, UNCHANGED threadVars PROVE ThreadInv'
  BY <1>2
  DEF ThreadInv, ThreadTyped, Undisturbed, HandleFitsPlace, HeldFitsPlace, LiveAreKnown, StoppedIsClean,
      threadVars, shared
<1> QED
  BY <1>1, <1>2

\* The worker's object keeps its invariant, whichever of the two is used.
LEMMA ThreadAlways == Spec => []ThreadInv
<1>1. Init => ThreadInv
  BY ThreadInit DEF Init
<1>2. ThreadInv /\ [Next]_vars => ThreadInv'
  BY ThreadStep DEF Next, vars
<1> QED
  BY <1>1, <1>2, PTL DEF Spec

-----------------------------------------------------------------------------
\* At most one worker lives at a time, and start() or workerThread_ knows it.
THEOREM OneWorkerAlways == Spec => []OneWorker
<1>1. ThreadInv => OneWorker
  BY DEF ThreadInv, ThreadTyped, Undisturbed, HandleFitsPlace, HeldFitsPlace, LiveAreKnown, OneWorker,
         Alive, Live, Workers
<1> QED
  BY <1>1, ThreadAlways, PTL

\* No task runs after stop() has returned, until the object is started again.
THEOREM QuietAfterStop == Spec => []NoTaskAfterStop
<1>1. ThreadInv => NoTaskAfterStop
  BY DEF ThreadInv, ThreadTyped, Undisturbed, HandleFitsPlace, HeldFitsPlace, LiveAreKnown, StoppedIsClean,
         NoTaskAfterStop, Alive, Starting, Workers
<1> QED
  BY <1>1, ThreadAlways, PTL

\* Only a task that stops its own object makes std::thread end the program.
THEOREM TerminationNeedsSelfStop == Spec => []OnlySelfStopTerminates
<1>1. ThreadInv => OnlySelfStopTerminates
  BY DEF ThreadInv, Undisturbed, OnlySelfStopTerminates
<1> QED
  BY <1>1, ThreadAlways, PTL

-----------------------------------------------------------------------------
(***************************************************************************)
(* mutex_string.                                                           *)
(***************************************************************************)
Marks == Strings \cup {None}
Scope == [kind : {"guard", "with"}, of : Strings, prev : Marks,
          mark_set : BOOLEAN, owns_lock : BOOLEAN]
Request == [kind : {"none", "member", "guard", "with"}, of : SUBSET Strings,
            operand : SUBSET Strings, prev : Marks]

MutexTyped ==
  /\ m_ \in [Strings -> Threads \cup {None}]
  /\ tls_owner \in [Threads -> Marks]
  /\ scopes \in [Threads -> Seq(Scope)]
  /\ wants \in [Threads -> Request]
  /\ \A t \in Threads : wants[t].kind \in {"guard", "with"} => \E s \in Strings : wants[t].of = {s}
  /\ \A t \in Threads : wants[t].kind = "none" => wants[t].of = {}

Depth(t) == 1..Len(scopes[t])

\* A mutex is held by exactly the scope that owns its lock.
LocksFit ==
  /\ \A t \in Threads : \A i \in Depth(t) :
       scopes[t][i].owns_lock => m_[scopes[t][i].of] = t
  /\ \A t \in Threads : \A i, j \in Depth(t) :
       scopes[t][i].owns_lock /\ scopes[t][j].owns_lock /\ scopes[t][i].of = scopes[t][j].of => i = j
  /\ \A t \in Threads, s \in Strings : m_[s] = t =>
       \E i \in Depth(t) : scopes[t][i].of = s /\ scopes[t][i].owns_lock

\* One of the thread's first n scopes stands for the mark x.
StandsFor(g, x) == g.of = x /\ (g.kind = "guard" => g.mark_set)
Witnessed(t, x, n) == \E j \in 1..n : StandsFor(scopes[t][j], x)

MarkFits(t) ==
  tls_owner[t] # None =>
    \/ Witnessed(t, tls_owner[t], Len(scopes[t]))
    \/ wants[t].kind = "with" /\ tls_owner[t] \in wants[t].of

RequestFits(t) ==
  wants[t].kind = "with" /\ wants[t].prev # None => Witnessed(t, wants[t].prev, Len(scopes[t]))

ScopesFit(t) ==
  \A i \in Depth(t) : scopes[t][i].kind = "with" /\ scopes[t][i].prev # None =>
    Witnessed(t, scopes[t][i].prev, i - 1)

MarksFit == \A t \in Threads : MarkFits(t) /\ RequestFits(t) /\ ScopesFit(t)

\* The i-th scope of t, a with(), will restore the mark of a scope outside of it
\* that still owns its lock.
Restores(t, i) ==
  /\ scopes[t][i].kind = "with"
  /\ \E j \in 1..(i - 1) : scopes[t][j].of = scopes[t][i].prev /\ scopes[t][j].owns_lock

\* Until then no mark names that string again: its mutex is taken.
StaysAway(t) ==
  \A i \in Depth(t) : Restores(t, i) =>
    /\ wants[t].kind # "with" => tls_owner[t] # scopes[t][i].prev
    /\ wants[t].kind = "with" => wants[t].prev # scopes[t][i].prev
    /\ \A k \in Depth(t) : k > i /\ scopes[t][k].kind = "with" => scopes[t][k].prev # scopes[t][i].prev

MarksStayAway == \A t \in Threads : StaysAway(t)

\* A thread with one scope is marked by it, and asks for another string.
SingleIsMarked ==
  /\ ~deep => \A t \in Threads : Len(scopes[t]) <= 1
  /\ ~deep /\ ~aborted =>
       \A t \in Threads, s \in Strings : m_[s] = t =>
         /\ s \notin wants[t].of \ wants[t].operand
         /\ wants[t].kind # "with" => tls_owner[t] = s

MutexInv == MutexTyped /\ LocksFit /\ MarksFit /\ MarksStayAway /\ SingleIsMarked

-----------------------------------------------------------------------------
\* Each scope of a thread is a scope.
LEMMA ScopeIsTyped ==
  ASSUME MutexTyped, NEW t \in Threads, NEW i \in Depth(t)
  PROVE  scopes[t][i] \in Scope
<1>1. scopes[t] \in Seq(Scope)
  BY DEF MutexTyped
<1> QED
  BY <1>1 DEF Depth

\* What the actions do to the sequence of scopes of a thread.
LEMMA ScopesAppended ==
  ASSUME MutexTyped, NEW t \in Threads, NEW g \in Scope,
         scopes' = [scopes EXCEPT ![t] = Append(@, g)]
  PROVE  /\ scopes' \in [Threads -> Seq(Scope)]
         /\ \A u \in Threads \ {t} : scopes'[u] = scopes[u]
         /\ Len(scopes[t]) \in Nat /\ Len(scopes'[t]) = Len(scopes[t]) + 1
         /\ \A i \in Depth(t) : scopes'[t][i] = scopes[t][i]
         /\ scopes'[t][Len(scopes[t]) + 1] = g
<1>1. scopes \in [Threads -> Seq(Scope)] /\ scopes[t] \in Seq(Scope)
  BY DEF MutexTyped
<1>2. scopes'[t] = Append(scopes[t], g)
  BY <1>1
<1> QED
  BY <1>1, <1>2, AppendProperties DEF Depth

\* The innermost scope of a thread ends.
LEMMA ScopesDropped ==
  ASSUME MutexTyped, NEW t \in Threads, Inside(t),
         scopes' = [scopes EXCEPT ![t] = Front(@)]
  PROVE  /\ scopes' \in [Threads -> Seq(Scope)]
         /\ \A u \in Threads \ {t} : scopes'[u] = scopes[u]
         /\ Len(scopes[t]) \in Nat \ {0} /\ Len(scopes'[t]) = Len(scopes[t]) - 1
         /\ \A i \in 1..(Len(scopes[t]) - 1) : scopes'[t][i] = scopes[t][i]
         /\ Last(scopes[t]) = scopes[t][Len(scopes[t])] /\ Last(scopes[t]) \in Scope
<1>1. scopes \in [Threads -> Seq(Scope)] /\ scopes[t] \in Seq(Scope) /\ scopes[t] # <<>>
  BY DEF MutexTyped, Inside
<1>2. scopes'[t] = SubSeq(scopes[t], 1, Len(scopes[t]) - 1)
  BY <1>1 DEF Front
<1>3. Len(scopes[t]) \in Nat \ {0}
  BY <1>1
<1>4. SubSeq(scopes[t], 1, Len(scopes[t]) - 1) \in Seq(Scope)
      /\ Len(SubSeq(scopes[t], 1, Len(scopes[t]) - 1)) = Len(scopes[t]) - 1
      /\ \A i \in 1..(Len(scopes[t]) - 1) : SubSeq(scopes[t], 1, Len(scopes[t]) - 1)[i] = scopes[t][i]
  <2> DEFINE q == scopes[t]
             n == Len(q) - 1
  <2>1. q \in Seq(Scope) /\ n \in Int /\ n >= 0 /\ \A i \in 1..n : q[i] \in Scope
    BY <1>1, <1>3
  <2> HIDE DEF q, n
  <2>2. SubSeq(q, 1, n) \in Seq(Scope) /\ Len(SubSeq(q, 1, n)) = (IF 1 <= n THEN n - 1 + 1 ELSE 0)
        /\ \A i \in 1..(n - 1 + 1) : SubSeq(q, 1, n)[i] = q[1 + i - 1]
    BY <2>1, SubSeqProperties
  <2>3. Len(SubSeq(q, 1, n)) = n /\ \A i \in 1..n : SubSeq(q, 1, n)[i] = q[i]
    BY <2>1, <2>2
  <2> QED
    BY <2>2, <2>3 DEF q, n
<1>5. scopes' \in [Threads -> Seq(Scope)]
  BY <1>1, <1>2, <1>4
<1>6. Last(scopes[t]) = scopes[t][Len(scopes[t])] /\ Last(scopes[t]) \in Scope
  BY <1>1, <1>3 DEF Last
<1> QED
  BY <1>1, <1>2, <1>3, <1>4, <1>5, <1>6

Replace(t, i, g) == scopes' = [scopes EXCEPT ![t] = [scopes[t] EXCEPT ![i] = g]]
Replaced(t, i, g) ==
  /\ scopes' \in [Threads -> Seq(Scope)]
  /\ \A u \in Threads \ {t} : scopes'[u] = scopes[u]
  /\ Len(scopes'[t]) = Len(scopes[t])
  /\ \A j \in Depth(t) : scopes'[t][j] = IF j = i THEN g ELSE scopes[t][j]

\* One scope of a thread changes, in place.
LEMMA ScopeReplaced ==
  ASSUME MutexTyped, NEW t \in Threads, NEW i \in Depth(t), NEW g \in Scope, Replace(t, i, g)
  PROVE  Replaced(t, i, g)
<1>1. scopes \in [Threads -> Seq(Scope)] /\ scopes[t] \in Seq(Scope)
  BY DEF MutexTyped
<1>2. /\ scopes'[t] = [scopes[t] EXCEPT ![i] = g] /\ DOMAIN scopes' = Threads
      /\ \A u \in Threads \ {t} : scopes'[u] = scopes[u]
  BY <1>1 DEF Replace
<1>3. [scopes[t] EXCEPT ![i] = g] \in Seq(Scope) /\ Len([scopes[t] EXCEPT ![i] = g]) = Len(scopes[t])
      /\ \A j \in Depth(t) : [scopes[t] EXCEPT ![i] = g][j] = IF j = i THEN g ELSE scopes[t][j]
  <2> DEFINE q == scopes[t]
  <2>1. q \in Seq(Scope) /\ i \in 1..Len(q)
    BY <1>1 DEF Depth
  <2> HIDE DEF q
  <2>2. [q EXCEPT ![i] = g] \in Seq(Scope) /\ Len([q EXCEPT ![i] = g]) = Len(q)
        /\ \A j \in 1..Len(q) : [q EXCEPT ![i] = g][j] = IF j = i THEN g ELSE q[j]
    BY <2>1, ExceptSeq
  <2> QED
    BY <2>2 DEF q, Depth
<1>4. scopes' \in [Threads -> Seq(Scope)]
  BY <1>1, <1>3 DEF Replace
<1> QED
  BY <1>2, <1>3, <1>4 DEF Replaced

\* A thread that a step does not touch keeps its marks in order.
LEMMA OthersKeepMarks ==
  ASSUME NEW t \in Threads, MarksFit, MarksStayAway,
         scopes'[t] = scopes[t], tls_owner'[t] = tls_owner[t], wants'[t] = wants[t]
  PROVE  MarkFits(t)' /\ RequestFits(t)' /\ ScopesFit(t)' /\ StaysAway(t)'
<1>1. \A x, n : Witnessed(t, x, n)' <=> Witnessed(t, x, n)
  BY DEF Witnessed, StandsFor
<1>2. MarkFits(t) /\ RequestFits(t) /\ ScopesFit(t) /\ StaysAway(t)
  BY DEF MarksFit, MarksStayAway
<1>3. MarkFits(t)' /\ RequestFits(t)' /\ ScopesFit(t)'
  BY <1>1, <1>2 DEF MarkFits, RequestFits, ScopesFit, Depth
<1>4. StaysAway(t)'
  BY <1>2 DEF StaysAway, Restores, Depth
<1> QED
  BY <1>3, <1>4

-----------------------------------------------------------------------------
\* No mutex is held at the beginning, and no thread is marked.
LEMMA MutexInit == InitMutex => MutexInv
<1> SUFFICES ASSUME InitMutex PROVE MutexInv
  OBVIOUS
<1>1. Idle \in Request
  BY DEF Idle, Request, Marks
<1>2. \A t \in Threads : scopes[t] = <<>> /\ Len(scopes[t]) = 0 /\ wants[t] = Idle
  BY DEF InitMutex
<1>3. \A t \in Threads : wants[t].kind = "none" /\ wants[t].of = {}
  BY <1>2 DEF Idle
<1>4. MutexTyped
  BY <1>1, <1>3, EmptySeq DEF InitMutex, MutexTyped, Marks
<1>5. LocksFit
  BY <1>2, NoneAssumption DEF InitMutex, LocksFit, Depth
<1>6. MarksFit /\ MarksStayAway
  BY <1>2, <1>3
  DEF InitMutex, MarksFit, MarkFits, RequestFits, ScopesFit, MarksStayAway, StaysAway, Depth
<1>7. SingleIsMarked
  BY <1>2, <1>3, NoneAssumption DEF InitMutex, SingleIsMarked
<1> QED
  BY <1>4, <1>5, <1>6, <1>7 DEF MutexInv

-----------------------------------------------------------------------------
(***************************************************************************)
(* A call begins: it asks for the mutexes of S.  All that the steps share  *)
(* is that the mark changes only for with(), and that a thread inside a    *)
(* scope either is not marked with one of S, or is caught or remembered.   *)
(***************************************************************************)
AskStep(t, what, S, read) ==
  /\ Runs(t) /\ AskReading(t, what, S, read) /\ UNCHANGED <<m_, scopes, deep>>
  /\ what = "member" \/ \E s \in Strings : S = {s}
  /\ \/ what # "with" /\ UNCHANGED tls_owner
     \/ what = "with" /\ \E s \in S : tls_owner' = [tls_owner EXCEPT ![t] = s]
  /\ ~aborted' => tls_owner[t] \notin S \ read

\* A request for locks keeps the invariant.
LEMMA AskKeepsInv ==
  ASSUME MutexInv, NEW t \in Threads, NEW what \in {"member", "guard", "with"}, NEW S \in SUBSET Strings,
         NEW read \in SUBSET Strings, AskStep(t, what, S, read)
  PROVE  MutexInv'
<1>1. MutexTyped /\ LocksFit /\ MarksFit /\ MarksStayAway /\ SingleIsMarked
  BY DEF MutexInv
<1>2. wants[t].kind = "none" /\ wants[t].of = {} /\ ~aborted
  BY DEF AskStep, Runs, Idle
<1>3. /\ \A u \in Threads \ {t} : wants'[u] = wants[u] /\ tls_owner'[u] = tls_owner[u]
      /\ wants'[t].kind = what /\ wants'[t].of = S /\ wants'[t].prev = tls_owner[t]
      /\ wants'[t].operand = read /\ wants' \in [Threads -> Request]
  BY <1>1 DEF AskStep, AskReading, MutexTyped, Request
<1>4. m_' = m_ /\ scopes' = scopes /\ deep' = deep
  BY DEF AskStep
<1>5. /\ tls_owner' \in [Threads -> Marks]
      /\ what # "with" => tls_owner' = tls_owner
      /\ what = "with" => tls_owner'[t] \in S
      /\ what # "member" => \E s \in Strings : S = {s}
  BY <1>1 DEF AskStep, MutexTyped, Marks
<1>6. ~aborted' => tls_owner[t] \notin S \ read
  BY DEF AskStep
<1>7. MutexTyped'
  <2>1. ASSUME NEW u \in Threads
        PROVE  /\ wants'[u].kind \in {"guard", "with"} => \E s \in Strings : wants'[u].of = {s}
               /\ wants'[u].kind = "none" => wants'[u].of = {}
    <3>1. CASE u = t
      BY <1>3, <1>5, <3>1
    <3>2. CASE u # t
      BY <1>1, <1>3, <3>2 DEF MutexTyped
    <3> QED
      BY <3>1, <3>2
  <2>2. m_' \in [Strings -> Threads \cup {None}] /\ scopes' \in [Threads -> Seq(Scope)]
    BY <1>1, <1>4 DEF MutexTyped
  <2> QED
    BY <1>3, <1>5, <2>1, <2>2 DEF MutexTyped
<1>8. LocksFit'
  BY <1>1, <1>4 DEF LocksFit, Depth
<1>9. MarksFit'
  BY <1>1, <1>2, <1>3, <1>4, <1>5
  DEF MarksFit, MarkFits, RequestFits, ScopesFit, Witnessed, StandsFor, Depth
<1>10. MarksStayAway'
  BY <1>1, <1>2, <1>3, <1>4, <1>5 DEF MarksStayAway, StaysAway, Restores, Depth
<1>11. SingleIsMarked'
  <2>1. ~Inside(t) => \A s \in Strings : m_[s] # t
    BY <1>1 DEF LocksFit, Inside, Depth
  <2>2. ASSUME ~deep, ~aborted', NEW u \in Threads, NEW s \in Strings, m_[s] = u
        PROVE  s \notin wants'[u].of \ wants'[u].operand /\ (wants'[u].kind # "with" => tls_owner'[u] = s)
    <3>1. s \notin wants[u].of \ wants[u].operand /\ (wants[u].kind # "with" => tls_owner[u] = s)
      BY <1>1, <1>2, <1>6, <2>2 DEF SingleIsMarked
    <3> QED
      BY <1>2, <1>3, <1>5, <1>6, <2>1, <2>2, <3>1
  <2> QED
    BY <1>1, <1>4, <2>2 DEF SingleIsMarked
<1> QED
  BY <1>7, <1>8, <1>9, <1>10, <1>11 DEF MutexInv

\* A member of the class has run.
LEMMA MemberKeepsInv ==
  ASSUME MutexInv, NEW t \in Threads, MemberRuns(t)
  PROVE  MutexInv'
<1>1. MutexTyped /\ LocksFit /\ MarksFit /\ MarksStayAway /\ SingleIsMarked
  BY DEF MutexInv
<1>2. wants[t].kind = "member"
  BY DEF MemberRuns
<1>3. /\ \A u \in Threads \ {t} : wants'[u] = wants[u]
      /\ wants'[t] = Idle /\ Idle.kind = "none" /\ Idle.of = {} /\ Idle \in Request
      /\ UNCHANGED <<m_, tls_owner, scopes, aborted, deep>>
  BY <1>1 DEF MemberRuns, history, MutexTyped, Idle, Request, Marks
<1>4. MutexTyped'
  <2>1. wants' \in [Threads -> Request]
    BY <1>1, <1>3 DEF MemberRuns, MutexTyped
  <2> QED
    BY <1>1, <1>3, <2>1 DEF MutexTyped
<1>5. LocksFit' /\ MarksFit' /\ MarksStayAway' /\ SingleIsMarked'
  BY <1>1, <1>2, <1>3
  DEF LocksFit, MarksFit, MarkFits, RequestFits, ScopesFit, Witnessed, StandsFor, MarksStayAway,
      StaysAway, Restores, SingleIsMarked, Depth
<1> QED
  BY <1>4, <1>5 DEF MutexInv

\* A scope begins, with the mutex of its string.
LEMMA ScopeBeginsKeepsInv ==
  ASSUME MutexInv, NEW t \in Threads, ScopeBegins(t)
  PROVE  MutexInv'
<1>1. MutexTyped /\ LocksFit /\ MarksFit /\ MarksStayAway /\ SingleIsMarked
  BY DEF MutexInv
<1>2. PICK s \in Strings : wants[t].of = {s}
  BY <1>1 DEF ScopeBegins, MutexTyped
<1> PICK g : g = [kind |-> wants[t].kind, of |-> s, prev |-> wants[t].prev,
                  mark_set |-> wants[t].kind = "guard", owns_lock |-> TRUE]
  OBVIOUS
<1> PICK n : n = Len(scopes[t])
  OBVIOUS
<1>3. /\ wants[t] \in Request /\ wants[t].kind \in {"guard", "with"} /\ m_[s] = None
      /\ m_' = [m_ EXCEPT ![s] = t] /\ tls_owner' = [tls_owner EXCEPT ![t] = s]
      /\ scopes' = [scopes EXCEPT ![t] = Append(@, g)]
      /\ wants' = [wants EXCEPT ![t] = Idle]
  BY <1>1, <1>2 DEF ScopeBegins, Granted, MutexTyped
<1>4. g \in Scope /\ g.of = s /\ g.kind = wants[t].kind /\ g.prev = wants[t].prev
      /\ g.owns_lock /\ (g.kind = "guard" => g.mark_set)
  BY <1>3 DEF Scope, Request
<1>5. /\ scopes' \in [Threads -> Seq(Scope)]
      /\ \A u \in Threads \ {t} : scopes'[u] = scopes[u]
      /\ n \in Nat /\ Len(scopes'[t]) = n + 1
      /\ \A i \in 1..n : scopes'[t][i] = scopes[t][i]
      /\ scopes'[t][n + 1] = g
  <2>0. MutexTyped /\ g \in Scope /\ scopes' = [scopes EXCEPT ![t] = Append(@, g)]
    BY <1>1, <1>3, <1>4
  <2>1. /\ scopes' \in [Threads -> Seq(Scope)]
        /\ \A u \in Threads \ {t} : scopes'[u] = scopes[u]
        /\ Len(scopes[t]) \in Nat /\ Len(scopes'[t]) = Len(scopes[t]) + 1
        /\ \A i \in Depth(t) : scopes'[t][i] = scopes[t][i]
        /\ scopes'[t][Len(scopes[t]) + 1] = g
    BY <2>0, ScopesAppended
  <2> QED
    BY <2>1 DEF Depth
<1>6. /\ m_'[s] = t /\ \A r \in Strings \ {s} : m_'[r] = m_[r]
      /\ tls_owner'[t] = s
      /\ \A u \in Threads \ {t} : tls_owner'[u] = tls_owner[u] /\ wants'[u] = wants[u]
      /\ wants'[t] = Idle /\ Idle.kind = "none" /\ Idle.of = {} /\ Idle \in Request
      /\ t # None
  BY <1>1, <1>3, NoneAssumption DEF MutexTyped, Idle, Request, Marks
<1>7. aborted' = aborted /\ (~deep' => ~deep /\ ~Inside(t))
  BY <1>1 DEF ScopeBegins
<1>8. \A i \in 1..n : scopes[t][i] \in Scope
  BY <1>1, <1>5 DEF MutexTyped
<1>9. MutexTyped'
  <2>1. m_' \in [Strings -> Threads \cup {None}] /\ tls_owner' \in [Threads -> Marks]
        /\ wants' \in [Threads -> Request]
    BY <1>1, <1>3, <1>6 DEF MutexTyped, Marks
  <2>2. ASSUME NEW u \in Threads
        PROVE  /\ wants'[u].kind \in {"guard", "with"} => \E r \in Strings : wants'[u].of = {r}
               /\ wants'[u].kind = "none" => wants'[u].of = {}
    <3>1. CASE u = t
      BY <1>6, <3>1
    <3>2. CASE u # t
      <4>1. wants'[u] = wants[u]
        BY <1>6, <3>2
      <4> QED
        BY <1>1, <4>1 DEF MutexTyped
    <3> QED
      BY <3>1, <3>2
  <2> QED
    BY <1>5, <2>1, <2>2 DEF MutexTyped
<1>10. LocksFit'
  <2>1. \A i \in 1..n : scopes[t][i].owns_lock => scopes[t][i].of # s
    BY <1>1, <1>3, <1>6 DEF LocksFit, Depth
  <2>2. ASSUME NEW u \in Threads, NEW i \in Depth(u)', scopes'[u][i].owns_lock
        PROVE  m_'[scopes'[u][i].of] = u
    <3>1. CASE u # t
      <4>1. scopes'[u] = scopes[u] /\ i \in Depth(u) /\ m_[scopes[u][i].of] = u
        BY <1>1, <1>5, <2>2, <3>1 DEF LocksFit, Depth
      <4>2. scopes[u][i].of \in Strings
        BY <1>1, <4>1, ScopeIsTyped DEF Scope
      <4>3. u # None
        BY NoneAssumption
      <4>4. scopes[u][i].of # s
        BY <1>3, <4>1, <4>3
      <4>5. m_'[scopes[u][i].of] = m_[scopes[u][i].of]
        BY <1>6, <4>2, <4>4
      <4> QED
        BY <4>1, <4>5
    <3>2. CASE u = t /\ i \in 1..n
      <4>1. scopes'[u][i] = scopes[t][i] /\ m_[scopes[t][i].of] = t
        BY <1>1, <1>5, <2>2, <3>2 DEF LocksFit, Depth
      <4>2. scopes[t][i].of \in Strings
        BY <1>8, <3>2 DEF Scope
      <4> QED
        BY <1>6, <3>2, <4>1, <4>2
    <3>3. CASE u = t /\ i = n + 1
      BY <1>4, <1>5, <1>6, <3>3
    <3> QED
      BY <1>5, <3>1, <3>2, <3>3 DEF Depth
  <2>3. ASSUME NEW u \in Threads, NEW i \in Depth(u)', NEW j \in Depth(u)',
               scopes'[u][i].owns_lock, scopes'[u][j].owns_lock, scopes'[u][i].of = scopes'[u][j].of
        PROVE  i = j
    <3>0. CASE u # t
      <4>1. scopes'[u] = scopes[u] /\ i \in Depth(u) /\ j \in Depth(u)
        BY <1>5, <2>3, <3>0 DEF Depth
      <4> QED
        BY <1>1, <2>3, <4>1 DEF LocksFit
    <3>1. ASSUME u = t PROVE i \in 1..(n + 1) /\ j \in 1..(n + 1)
      BY <1>5, <3>1 DEF Depth
    <3>2. CASE u = t /\ i \in 1..n /\ j \in 1..n
      <4>1. scopes'[t][i] = scopes[t][i] /\ scopes'[t][j] = scopes[t][j]
        BY <1>5, <3>2
      <4>2. i \in Depth(t) /\ j \in Depth(t)
        BY <3>2 DEF Depth
      <4> QED
        BY <1>1, <2>3, <3>2, <4>1, <4>2 DEF LocksFit
    <3>3. CASE u = t /\ i \in 1..n /\ j = n + 1
      BY <1>4, <1>5, <2>1, <2>3, <3>3
    <3>4. CASE u = t /\ j \in 1..n /\ i = n + 1
      BY <1>4, <1>5, <2>1, <2>3, <3>4
    <3>5. CASE u = t /\ i \notin 1..n /\ j \notin 1..n
      BY <1>5, <3>1, <3>5
    <3> QED
      <4>1. ASSUME u = t PROVE (i \in 1..n \/ i = n + 1) /\ (j \in 1..n \/ j = n + 1)
        BY <1>5, <3>1, <4>1
      <4> QED
        BY <3>0, <3>2, <3>3, <3>4, <3>5, <4>1
  <2>4. ASSUME NEW u \in Threads, NEW r \in Strings, m_'[r] = u
        PROVE  \E i \in Depth(u)' : scopes'[u][i].of = r /\ scopes'[u][i].owns_lock
    <3>1. CASE r = s
      <4>1. u = t /\ n + 1 \in Depth(t)'
        BY <1>5, <1>6, <2>4, <3>1 DEF Depth
      <4> QED
        BY <1>4, <1>5, <3>1, <4>1
    <3>2. CASE r # s
      <4>1. PICK i \in Depth(u) : scopes[u][i].of = r /\ scopes[u][i].owns_lock
        BY <1>1, <1>6, <2>4, <3>2 DEF LocksFit
      <4>2. CASE u = t
        <5>1. i \in 1..n
          BY <4>1, <4>2 DEF Depth
        <5>2. i \in Depth(t)' /\ scopes'[t][i] = scopes[t][i]
          BY <1>5, <5>1 DEF Depth
        <5> QED
          BY <4>1, <4>2, <5>2
      <4>3. CASE u # t
        <5>1. scopes'[u] = scopes[u]
          BY <1>5, <4>3
        <5> QED
          BY <4>1, <5>1 DEF Depth
      <4> QED
        BY <4>2, <4>3
    <3> QED
      BY <3>1, <3>2
  <2> QED
    BY <2>2, <2>3, <2>4 DEF LocksFit
<1>11. MarksFit' /\ MarksStayAway'
  <2>1. ASSUME NEW u \in Threads, u # t
        PROVE  MarkFits(u)' /\ RequestFits(u)' /\ ScopesFit(u)' /\ StaysAway(u)'
    BY <1>1, <1>5, <1>6, <2>1, OthersKeepMarks
  <2>2. MarkFits(t)' /\ RequestFits(t)'
    <3>1. Witnessed(t, s, n + 1)'
      <4>1. StandsFor(g, s)
        BY <1>4 DEF StandsFor
      <4>2. n + 1 \in 1..(n + 1) /\ scopes'[t][n + 1] = g
        BY <1>5
      <4> QED
        BY <4>1, <4>2 DEF Witnessed, StandsFor
    <3> QED
      BY <1>5, <1>6, <3>1 DEF MarkFits, RequestFits
  <2>3. ScopesFit(t)'
    <3>1. ASSUME NEW x, NEW k \in 0..n, Witnessed(t, x, k) PROVE Witnessed(t, x, k)'
      BY <1>5, <3>1 DEF Witnessed, StandsFor
    <3>2. ASSUME NEW i \in 1..n, NEW x, x = scopes[t][i].prev, scopes[t][i].kind = "with", x # None
          PROVE  Witnessed(t, x, i - 1)'
      <4>1. Witnessed(t, x, i - 1)
        BY <1>1, <3>2 DEF MarksFit, ScopesFit, Depth
      <4>2. i - 1 \in 0..n
        BY <1>5
      <4> QED
        BY <3>1, <4>1, <4>2
    <3>3. ASSUME g.kind = "with", g.prev # None PROVE Witnessed(t, g.prev, n)'
      <4>1. Witnessed(t, g.prev, n)
        BY <1>1, <1>4, <3>3 DEF MarksFit, RequestFits
      <4> QED
        BY <1>5, <3>1, <4>1
    <3> SUFFICES ASSUME NEW i \in 1..(n + 1), NEW x, x = scopes'[t][i].prev,
                        scopes'[t][i].kind = "with", x # None
                 PROVE  Witnessed(t, x, i - 1)'
      BY <1>5 DEF ScopesFit, Depth, Witnessed
    <3>4. CASE i \in 1..n
      BY <1>5, <3>2, <3>4
    <3>5. CASE i = n + 1
      <4>1. i - 1 = n /\ x = g.prev /\ g.kind = "with"
        BY <1>5, <3>5
      <4> QED
        BY <3>3, <4>1
    <3> QED
      BY <1>5, <3>4, <3>5
  <2>4. StaysAway(t)'
    <3>1. \A i \in 1..n : scopes[t][i].owns_lock => scopes[t][i].of # s
      BY <1>1, <1>3, <1>6 DEF LocksFit, Depth
    <3>2. ASSUME NEW i \in 1..n, Restores(t, i)'
          PROVE  /\ s # scopes[t][i].prev
                 /\ \A k \in 1..n : k > i /\ scopes[t][k].kind = "with" => scopes[t][k].prev # scopes[t][i].prev
                 /\ g.kind = "with" => g.prev # scopes[t][i].prev
      <4>1. Restores(t, i)
        BY <1>5, <3>2 DEF Restores
      <4>2. s # scopes[t][i].prev
        BY <1>5, <3>1, <4>1 DEF Restores
      <4> QED
        BY <1>1, <1>4, <4>1, <4>2 DEF MarksStayAway, StaysAway, Depth
    <3>3. ASSUME Restores(t, n + 1)' PROVE s # g.prev
      BY <1>5, <3>1, <3>3 DEF Restores
    <3> wants'[t].kind = "none" /\ tls_owner'[t] = s /\ Depth(t)' = 1..(n + 1)
      BY <1>5, <1>6 DEF Depth
    <3>4. ASSUME NEW i \in 1..(n + 1), Restores(t, i)', NEW k \in 1..(n + 1), k > i,
                 scopes'[t][k].kind = "with"
          PROVE  scopes'[t][k].prev # scopes'[t][i].prev
      <4>1. i \in 1..n /\ scopes'[t][i] = scopes[t][i] /\ (k \in 1..n \/ k = n + 1)
        BY <1>5, <3>4
      <4>2. CASE k \in 1..n
        <5>1. scopes'[t][k] = scopes[t][k]
          BY <1>5, <4>2
        <5> QED
          BY <3>2, <3>4, <4>1, <4>2, <5>1
      <4>3. CASE k = n + 1
        BY <1>5, <3>2, <3>4, <4>1, <4>3
      <4> QED
        BY <4>1, <4>2, <4>3
    <3>5. ASSUME NEW i \in 1..(n + 1), Restores(t, i)' PROVE s # scopes'[t][i].prev
      <4>1. i \in 1..n \/ i = n + 1
        BY <1>5
      <4> QED
        BY <1>5, <3>2, <3>3, <3>5, <4>1
    <3> QED
      BY <3>4, <3>5 DEF StaysAway
  <2> QED
    BY <2>1, <2>2, <2>3, <2>4 DEF MarksFit, MarksStayAway
<1>12. SingleIsMarked'
  <2>1. ~deep' => n = 0
    BY <1>1, <1>5, <1>7, EmptySeq DEF Inside, MutexTyped
  <2>2. ~deep' => \A r \in Strings : m_'[r] = t => r = s
    BY <1>1, <1>5, <1>6, <2>1 DEF LocksFit, Depth
  <2>3. ASSUME ~deep', NEW u \in Threads PROVE Len(scopes'[u]) <= 1
    <3>1. CASE u = t
      BY <1>5, <2>1, <2>3, <3>1
    <3>2. CASE u # t
      BY <1>1, <1>5, <1>7, <2>3, <3>2 DEF SingleIsMarked
    <3> QED
      BY <3>1, <3>2
  <2>4. ASSUME ~deep', ~aborted, NEW u \in Threads, NEW r \in Strings, m_'[r] = u
        PROVE  r \notin wants'[u].of \ wants'[u].operand /\ (wants'[u].kind # "with" => tls_owner'[u] = r)
    <3>1. CASE u = t
      BY <1>6, <2>2, <2>4, <3>1
    <3>2. CASE u # t
      <4>1. m_[r] = u
        BY <1>6, <2>4, <3>2
      <4> QED
        BY <1>1, <1>6, <1>7, <2>4, <3>2, <4>1 DEF SingleIsMarked
    <3> QED
      BY <3>1, <3>2
  <2> QED
    BY <1>7, <2>3, <2>4 DEF SingleIsMarked
<1> QED
  BY <1>9, <1>10, <1>11, <1>12 DEF MutexInv

\* A guard gives up its lock, and its mark if that is the thread's.
LEMMA EarlyUnlockKeepsInv ==
  ASSUME MutexInv, NEW t \in Threads, EarlyUnlock(t)
  PROVE  MutexInv'
<1>1. MutexTyped /\ LocksFit /\ MarksFit /\ MarksStayAway /\ SingleIsMarked
  BY DEF MutexInv
<1> PICK n : n = Len(scopes[t])
  OBVIOUS
<1>2. n \in Nat /\ Depth(t) = 1..n /\ \A i \in 1..n : scopes[t][i] \in Scope
  BY <1>1, ScopeIsTyped DEF MutexTyped, Depth
<1> DEFINE Mine(i) == scopes[t][i].mark_set /\ tls_owner[t] = scopes[t][i].of
<1>3. PICK i \in 1..n :
        /\ scopes[t][i].kind = "guard" /\ scopes[t][i].owns_lock
        /\ m_' = [m_ EXCEPT ![scopes[t][i].of] = None]
        /\ tls_owner' = IF Mine(i) THEN [tls_owner EXCEPT ![t] = None] ELSE tls_owner
        /\ scopes' = [scopes EXCEPT ![t][i].owns_lock = FALSE,
                                    ![t][i].mark_set = scopes[t][i].mark_set /\ ~Mine(i)]
  <2>1. DOMAIN scopes[t] = 1..n
    BY <1>1, <1>2, LenProperties DEF MutexTyped
  <2> QED
    BY <2>1 DEF EarlyUnlock
<1>4. wants[t].kind = "none" /\ UNCHANGED <<wants, aborted, deep>>
  BY DEF EarlyUnlock, Runs, Idle, history
<1> PICK mark : mark = (scopes[t][i].mark_set /\ ~Mine(i))
  OBVIOUS
<1>5. /\ scopes' \in [Threads -> Seq(Scope)]
      /\ \A u \in Threads \ {t} : scopes'[u] = scopes[u]
      /\ Len(scopes'[t]) = n
      /\ \A j \in 1..n : j # i => scopes'[t][j] = scopes[t][j]
      /\ scopes'[t][i].of = scopes[t][i].of /\ scopes'[t][i].kind = scopes[t][i].kind
      /\ scopes'[t][i].prev = scopes[t][i].prev
      /\ scopes'[t][i].owns_lock = FALSE /\ scopes'[t][i].mark_set = mark
  <2>1. mark \in BOOLEAN /\ scopes[t][i] \in Scope /\ i \in Depth(t)
    BY <1>2
  <2>2. scopes' = [scopes EXCEPT ![t][i].owns_lock = FALSE, ![t][i].mark_set = mark]
    BY <1>3
  <2> HIDE DEF Mine
  <2>3. PICK g \in Scope :
          /\ g.of = scopes[t][i].of /\ g.kind = scopes[t][i].kind /\ g.prev = scopes[t][i].prev
          /\ g.owns_lock = FALSE /\ g.mark_set = mark
          /\ scopes' = [scopes EXCEPT ![t] = [scopes[t] EXCEPT ![i] = g]]
    <3> DEFINE h == [scopes[t][i] EXCEPT !.owns_lock = FALSE, !.mark_set = mark]
    <3>1. h \in Scope /\ h.of = scopes[t][i].of /\ h.kind = scopes[t][i].kind
          /\ h.prev = scopes[t][i].prev /\ h.owns_lock = FALSE /\ h.mark_set = mark
      BY <2>1 DEF Scope
    <3>2. scopes' = [scopes EXCEPT ![t] = [scopes[t] EXCEPT ![i] = h]]
      BY <2>2
    <3> HIDE DEF h
    <3> QED
      BY <3>1, <3>2
  <2>4. MutexTyped /\ i \in Depth(t)
    BY <1>1, <2>1
  <2>5. Replace(t, i, g)
    BY <2>3 DEF Replace
  <2>6. Replaced(t, i, g)
    BY <2>3, <2>4, <2>5, ScopeReplaced
  <2> QED
    BY <1>2, <2>1, <2>3, <2>6 DEF Replaced
<1> PICK s \in Strings : s = scopes[t][i].of
  BY <1>2 DEF Scope
<1>6. /\ m_[s] = t /\ m_'[s] = None /\ \A r \in Strings \ {s} : m_'[r] = m_[r]
      /\ m_' \in [Strings -> Threads \cup {None}]
      /\ \A u \in Threads : u # None
  <2>1. m_[s] = t
    BY <1>1, <1>2, <1>3 DEF LocksFit
  <2>2. m_ \in [Strings -> Threads \cup {None}] /\ m_' = [m_ EXCEPT ![s] = None]
    BY <1>1, <1>3 DEF MutexTyped
  <2> QED
    BY <2>1, <2>2, NoneAssumption
<1>7. /\ tls_owner' \in [Threads -> Marks]
      /\ \A u \in Threads \ {t} : tls_owner'[u] = tls_owner[u]
      /\ Mine(i) => tls_owner'[t] = None
      /\ ~Mine(i) => tls_owner' = tls_owner
  BY <1>1, <1>3 DEF MutexTyped, Marks
<1>8. ~Mine(i) => (mark <=> scopes[t][i].mark_set)
  OBVIOUS
<1> HIDE DEF Mine
<1>9. MutexTyped'
  BY <1>1, <1>4, <1>5, <1>6, <1>7 DEF MutexTyped
<1>10. LocksFit'
  <2>1. ASSUME NEW u \in Threads, NEW j \in Depth(u)', scopes'[u][j].owns_lock
        PROVE  /\ j \in Depth(u) /\ scopes[u][j].owns_lock /\ scopes[u][j].of = scopes'[u][j].of
               /\ scopes[u][j].of # s /\ scopes[u][j].of \in Strings
    <3>1. j \in Depth(u) /\ ~(u = t /\ j = i) /\ scopes'[u][j] = scopes[u][j]
      BY <1>2, <1>5, <2>1 DEF Depth
    <3>2. scopes[u][j].of \in Strings
      BY <1>1, <3>1, ScopeIsTyped DEF Scope
    <3>3. scopes[u][j].of # s
      BY <1>1, <1>2, <1>3, <1>6, <2>1, <3>1 DEF LocksFit
    <3> QED
      BY <2>1, <3>1, <3>2, <3>3
  <2>2. ASSUME NEW u \in Threads, NEW j \in Depth(u)', scopes'[u][j].owns_lock
        PROVE  m_'[scopes'[u][j].of] = u
    BY <1>1, <1>6, <2>1, <2>2 DEF LocksFit
  <2>3. ASSUME NEW u \in Threads, NEW j \in Depth(u)', NEW k \in Depth(u)',
               scopes'[u][j].owns_lock, scopes'[u][k].owns_lock, scopes'[u][j].of = scopes'[u][k].of
        PROVE  j = k
    BY <1>1, <2>1, <2>3 DEF LocksFit
  <2>4. ASSUME NEW u \in Threads, NEW r \in Strings, m_'[r] = u
        PROVE  \E j \in Depth(u)' : scopes'[u][j].of = r /\ scopes'[u][j].owns_lock
    <3>1. r # s /\ m_[r] = u
      BY <1>6, <2>4
    <3>2. PICK j \in Depth(u) : scopes[u][j].of = r /\ scopes[u][j].owns_lock
      BY <1>1, <3>1 DEF LocksFit
    <3>3. j \in Depth(u)' /\ scopes'[u][j] = scopes[u][j]
      BY <1>2, <1>5, <3>1, <3>2 DEF Depth
    <3> QED
      BY <3>2, <3>3
  <2> QED
    BY <2>2, <2>3, <2>4 DEF LocksFit
<1>11. MarksFit' /\ MarksStayAway'
  <2>1. ASSUME NEW u \in Threads, u # t
        PROVE  MarkFits(u)' /\ RequestFits(u)' /\ ScopesFit(u)' /\ StaysAway(u)'
    BY <1>1, <1>4, <1>5, <1>7, <2>1, OthersKeepMarks
  <2>2. ASSUME NEW x, NEW k \in 0..n, Witnessed(t, x, k), ~Mine(i) \/ x # s
        PROVE  Witnessed(t, x, k)'
    <3>1. PICK j \in 1..k : StandsFor(scopes[t][j], x)
      BY <2>2 DEF Witnessed
    <3>2. StandsFor(scopes'[t][j], x)
      BY <1>2, <1>5, <1>8, <2>2, <3>1 DEF StandsFor
    <3> QED
      BY <3>1, <3>2 DEF Witnessed
  <2>3. MarkFits(t)'
    <3> SUFFICES ASSUME NEW x, x = tls_owner'[t], x # None PROVE Witnessed(t, x, n)'
      BY <1>5 DEF MarkFits, Witnessed
    <3>1. ~Mine(i) /\ x = tls_owner[t]
      BY <1>7
    <3>2. Witnessed(t, x, n)
      BY <1>1, <1>4, <3>1 DEF MarksFit, MarkFits
    <3> QED
      BY <1>2, <2>2, <3>1, <3>2
  <2>4. RequestFits(t)'
    BY <1>4 DEF RequestFits
  <2>5. ScopesFit(t)'
    <3> SUFFICES ASSUME NEW k \in 1..n, NEW x, x = scopes'[t][k].prev, scopes'[t][k].kind = "with", x # None
                 PROVE  Witnessed(t, x, k - 1)'
      BY <1>5 DEF ScopesFit, Depth, Witnessed
    <3>1. k # i /\ x = scopes[t][k].prev /\ scopes[t][k].kind = "with"
      BY <1>3, <1>5
    <3>2. Witnessed(t, x, k - 1) /\ k - 1 \in 0..n
      BY <1>1, <1>2, <3>1 DEF MarksFit, ScopesFit
    <3>3. CASE i < k
      <4>1. x = s => Restores(t, k)
        BY <1>2, <1>3, <3>1, <3>3 DEF Restores
      <4>2. ~Mine(i) \/ x # s
        BY <1>1, <1>2, <1>4, <3>1, <4>1 DEF MarksStayAway, StaysAway, Mine
      <4> QED
        BY <2>2, <3>2, <4>2
    <3>4. CASE ~(i < k)
      BY <1>2, <1>5, <3>2, <3>4 DEF Witnessed
    <3> QED
      BY <3>3, <3>4
  <2>6. StaysAway(t)'
    <3>1. ASSUME NEW k \in 1..n, Restores(t, k)'
          PROVE  Restores(t, k) /\ scopes'[t][k].prev = scopes[t][k].prev
      BY <1>2, <1>5, <3>1 DEF Restores
    <3>2. \A k \in 1..n : scopes[t][k].prev # None \/ ~Restores(t, k)
      BY <1>2, NoneAssumption DEF Restores, Scope
    <3>3. ASSUME NEW k \in 1..n, Restores(t, k)
          PROVE  /\ tls_owner'[t] # scopes[t][k].prev
                 /\ \A h \in 1..n : h > k /\ scopes[t][h].kind = "with" => scopes[t][h].prev # scopes[t][k].prev
      BY <1>1, <1>2, <1>4, <1>7, <3>2, <3>3 DEF MarksStayAway, StaysAway
    <3>4. \A h \in 1..n : scopes'[t][h].prev = scopes[t][h].prev /\ scopes'[t][h].kind = scopes[t][h].kind
      BY <1>5
    <3>5. Depth(t)' = 1..n /\ wants'[t].kind = "none"
      BY <1>4, <1>5 DEF Depth
    <3>6. ASSUME NEW k \in 1..n, Restores(t, k)'
          PROVE  /\ tls_owner'[t] # scopes'[t][k].prev
                 /\ \A h \in 1..n : h > k /\ scopes'[t][h].kind = "with" =>
                      scopes'[t][h].prev # scopes'[t][k].prev
      <4>1. Restores(t, k) /\ scopes'[t][k].prev = scopes[t][k].prev
        BY <3>1, <3>6
      <4> QED
        BY <3>3, <3>4, <4>1
    <3> QED
      BY <3>5, <3>6 DEF StaysAway
  <2> QED
    BY <2>1, <2>3, <2>4, <2>5, <2>6 DEF MarksFit, MarksStayAway
<1>12. SingleIsMarked'
  <2>1. ASSUME ~deep PROVE \A r \in Strings : m_'[r] # t
    BY <1>1, <1>2, <1>5, <1>6, <1>10, <2>1 DEF SingleIsMarked, LocksFit, Depth
  <2>2. ~deep' => \A u \in Threads : Len(scopes'[u]) <= 1
    BY <1>1, <1>4, <1>5 DEF SingleIsMarked
  <2>3. ASSUME NEW u \in Threads, NEW r \in Strings, m_'[r] = u, ~deep
        PROVE  u # t /\ m_[r] = u
    BY <1>6, <2>1, <2>3
  <2> QED
    BY <1>1, <1>4, <1>7, <2>2, <2>3 DEF SingleIsMarked
<1> QED
  BY <1>9, <1>10, <1>11, <1>12 DEF MutexInv

\* The innermost scope ends: a guard drops its mark, a with() restores the earlier one.
LEMMA ScopeEndsKeepsInv ==
  ASSUME MutexInv, NEW t \in Threads, End(t)
  PROVE  MutexInv'
<1>1. MutexTyped /\ LocksFit /\ MarksFit /\ MarksStayAway /\ SingleIsMarked
  BY DEF MutexInv
<1> PICK n : n = Len(scopes[t])
  OBVIOUS
<1> PICK g : g = Last(scopes[t])
  OBVIOUS
<1>2. /\ Inside(t) /\ wants[t].kind = "none" /\ UNCHANGED <<wants, aborted, deep>>
      /\ scopes' = [scopes EXCEPT ![t] = Front(@)]
      /\ m_' = IF g.owns_lock THEN [m_ EXCEPT ![g.of] = None] ELSE m_
  BY DEF End, GuardEnds, WithEnds, Runs, Idle, history, Release
<1>3. /\ scopes' \in [Threads -> Seq(Scope)]
      /\ \A u \in Threads \ {t} : scopes'[u] = scopes[u]
      /\ n \in Nat \ {0} /\ Len(scopes'[t]) = n - 1
      /\ \A i \in 1..(n - 1) : scopes'[t][i] = scopes[t][i]
      /\ g = scopes[t][n] /\ g \in Scope
  BY <1>1, <1>2, ScopesDropped
<1>4. /\ Depth(t) = 1..n /\ Depth(t)' = 1..(n - 1) /\ n \in 1..n
      /\ \A i \in 1..(n - 1) : i \in 1..n /\ i # n
      /\ \A i \in 1..n : i # n => i \in 1..(n - 1)
  BY <1>3 DEF Depth
<1>5. /\ tls_owner' \in [Threads -> Marks]
      /\ \A u \in Threads \ {t} : tls_owner'[u] = tls_owner[u]
      /\ \/ tls_owner'[t] = None
         \/ /\ tls_owner'[t] = tls_owner[t] /\ g.kind = "guard"
            /\ g.of = tls_owner[t] => ~g.mark_set
         \/ g.kind = "with" /\ tls_owner'[t] = g.prev
  <2>1. tls_owner \in [Threads -> Marks] /\ None \in Marks /\ g.prev \in Marks
    BY <1>1, <1>3 DEF MutexTyped, Marks, Scope
  <2>2. CASE GuardEnds(t)
    <3>1. /\ g.kind = "guard"
          /\ tls_owner' = IF g.mark_set /\ tls_owner[t] = g.of
                            THEN [tls_owner EXCEPT ![t] = None] ELSE tls_owner
      BY <2>2 DEF GuardEnds
    <3>2. CASE g.mark_set /\ tls_owner[t] = g.of
      BY <2>1, <3>1, <3>2
    <3>3. CASE ~(g.mark_set /\ tls_owner[t] = g.of)
      BY <2>1, <3>1, <3>3
    <3> QED
      BY <3>2, <3>3
  <2>3. CASE WithEnds(t)
    <3>1. g.kind = "with" /\ tls_owner' = [tls_owner EXCEPT ![t] = g.prev]
      BY <2>3 DEF WithEnds
    <3> QED
      BY <2>1, <3>1
  <2> QED
    BY <2>2, <2>3 DEF End
<1>6. /\ g.of \in Strings /\ \A r \in Strings \ {g.of} : m_'[r] = m_[r]
      /\ m_' \in [Strings -> Threads \cup {None}]
      /\ g.owns_lock => m_'[g.of] = None
      /\ ~g.owns_lock => m_' = m_
      /\ \A u \in Threads : u # None
  <2>1. g.of \in Strings /\ m_ \in [Strings -> Threads \cup {None}] /\ \A u \in Threads : u # None
    BY <1>1, <1>3, NoneAssumption DEF MutexTyped, Scope
  <2> QED
    BY <1>2, <2>1
<1>7. MutexTyped'
  BY <1>1, <1>2, <1>3, <1>5, <1>6 DEF MutexTyped
<1>8. LocksFit'
  <2>1. ASSUME NEW u \in Threads, NEW j \in Depth(u)', scopes'[u][j].owns_lock
        PROVE  /\ j \in Depth(u) /\ scopes[u][j].owns_lock /\ scopes[u][j].of = scopes'[u][j].of
               /\ scopes[u][j].of \in Strings
               /\ g.owns_lock => scopes[u][j].of # g.of
    <3>1. j \in Depth(u) /\ ~(u = t /\ j = n) /\ scopes'[u][j] = scopes[u][j]
      BY <1>3, <1>4, <2>1 DEF Depth
    <3>2. scopes[u][j].of \in Strings
      BY <1>1, <3>1, ScopeIsTyped DEF Scope
    <3>3. g.owns_lock => scopes[u][j].of # g.of
      <4>1. n \in Depth(t) /\ g = scopes[t][n]
        BY <1>3, <1>4
      <4>2. CASE u = t
        BY <1>1, <2>1, <3>1, <4>1, <4>2 DEF LocksFit
      <4>3. CASE u # t
        BY <1>1, <2>1, <3>1, <4>1, <4>3 DEF LocksFit
      <4> QED
        BY <4>2, <4>3
    <3> QED
      BY <2>1, <3>1, <3>2, <3>3
  <2>2. ASSUME NEW u \in Threads, NEW j \in Depth(u)', scopes'[u][j].owns_lock
        PROVE  m_'[scopes'[u][j].of] = u
    BY <1>1, <1>6, <2>1, <2>2 DEF LocksFit
  <2>3. ASSUME NEW u \in Threads, NEW j \in Depth(u)', NEW k \in Depth(u)',
               scopes'[u][j].owns_lock, scopes'[u][k].owns_lock, scopes'[u][j].of = scopes'[u][k].of
        PROVE  j = k
    BY <1>1, <2>1, <2>3 DEF LocksFit
  <2>4. ASSUME NEW u \in Threads, NEW r \in Strings, m_'[r] = u
        PROVE  \E j \in Depth(u)' : scopes'[u][j].of = r /\ scopes'[u][j].owns_lock
    <3>1. m_[r] = u /\ ~(r = g.of /\ g.owns_lock)
      BY <1>6, <2>4
    <3>2. PICK j \in Depth(u) : scopes[u][j].of = r /\ scopes[u][j].owns_lock
      BY <1>1, <3>1 DEF LocksFit
    <3>3. j \in Depth(u)' /\ scopes'[u][j] = scopes[u][j]
      <4>1. CASE u # t
        <5>1. scopes'[u] = scopes[u]
          BY <1>3, <4>1
        <5> QED
          BY <3>2, <5>1 DEF Depth
      <4>2. CASE u = t
        <5>1. j \in 1..n
          BY <1>4, <3>2, <4>2
        <5>2. ASSUME j = n PROVE FALSE
          <6>1. scopes[u][j] = g
            BY <1>3, <4>2, <5>2
          <6> QED
            BY <3>1, <3>2, <6>1
        <5>3. j \in 1..(n - 1)
          BY <1>4, <5>1, <5>2
        <5> QED
          BY <1>3, <1>4, <4>2, <5>3
      <4> QED
        BY <4>1, <4>2
    <3> QED
      BY <3>2, <3>3
  <2> QED
    BY <2>2, <2>3, <2>4 DEF LocksFit
<1>9. MarksFit' /\ MarksStayAway'
  <2>1. ASSUME NEW u \in Threads, u # t
        PROVE  MarkFits(u)' /\ RequestFits(u)' /\ ScopesFit(u)' /\ StaysAway(u)'
    BY <1>1, <1>2, <1>3, <1>5, <2>1, OthersKeepMarks
  <2>2. ASSUME NEW x, NEW k \in 0..(n - 1), Witnessed(t, x, k)
        PROVE  Witnessed(t, x, k)'
    <3>1. PICK j \in 1..k : StandsFor(scopes[t][j], x)
      BY <2>2 DEF Witnessed
    <3>2. scopes'[t][j] = scopes[t][j]
      BY <1>3
    <3> QED
      BY <3>1, <3>2 DEF Witnessed, StandsFor
  <2>3. MarkFits(t)'
    <3> SUFFICES ASSUME NEW x, x = tls_owner'[t], x # None PROVE Witnessed(t, x, n - 1)'
      BY <1>3 DEF MarkFits, Witnessed
    <3>1. CASE x = tls_owner[t] /\ g.kind = "guard" /\ (g.of = x => ~g.mark_set)
      <4>1. Witnessed(t, x, n)
        BY <1>1, <1>2, <3>1 DEF MarksFit, MarkFits
      <4>2. PICK j \in 1..n : StandsFor(scopes[t][j], x)
        BY <4>1 DEF Witnessed
      <4>3. j # n
        BY <1>3, <3>1, <4>2 DEF StandsFor
      <4> QED
        BY <1>3, <1>4, <4>2, <4>3 DEF Witnessed
    <3>2. CASE g.kind = "with" /\ x = g.prev
      <4>0. n \in Depth(t) /\ scopes[t][n] = g /\ ScopesFit(t)
        BY <1>1, <1>3, <1>4 DEF MarksFit
      <4>1. Witnessed(t, x, n - 1)
        BY <3>2, <4>0 DEF ScopesFit
      <4> QED
        BY <1>3, <2>2, <4>1
    <3> QED
      BY <1>5, <3>1, <3>2
  <2>4. RequestFits(t)'
    BY <1>2 DEF RequestFits
  <2>5. ScopesFit(t)'
    <3> SUFFICES ASSUME NEW k \in 1..(n - 1), NEW x, x = scopes'[t][k].prev,
                        scopes'[t][k].kind = "with", x # None
                 PROVE  Witnessed(t, x, k - 1)'
      BY <1>4 DEF ScopesFit, Witnessed
    <3>1. x = scopes[t][k].prev /\ scopes[t][k].kind = "with" /\ k \in 1..n
      BY <1>3, <1>4
    <3>2. k - 1 \in 0..(n - 1)
      BY <1>3
    <3>3. Witnessed(t, x, k - 1)
      BY <1>1, <1>4, <3>1 DEF MarksFit, ScopesFit
    <3> QED
      BY <2>2, <3>3, <3>2
  <2>6. StaysAway(t)'
    <3>1. ASSUME NEW k \in 1..(n - 1), Restores(t, k)'
          PROVE  Restores(t, k) /\ scopes'[t][k].prev = scopes[t][k].prev
      <4>1. scopes'[t][k] = scopes[t][k] /\ \A j \in 1..(k - 1) : scopes'[t][j] = scopes[t][j]
        BY <1>3
      <4> QED
        BY <3>1, <4>1 DEF Restores
    <3>2. ASSUME NEW k \in 1..n, Restores(t, k) PROVE scopes[t][k].prev # None
      <4>1. PICK j \in 1..(k - 1) : scopes[t][j].of = scopes[t][k].prev
        BY <3>2 DEF Restores
      <4>2. j \in Depth(t)
        BY <1>3, <1>4
      <4>3. scopes[t][j].of \in Strings
        BY <1>1, <4>2, ScopeIsTyped DEF Scope
      <4> QED
        BY <4>1, <4>3, NoneAssumption
    <3>3. ASSUME NEW k \in 1..(n - 1), Restores(t, k)
          PROVE  /\ tls_owner'[t] # scopes[t][k].prev
                 /\ \A h \in 1..(n - 1) : h > k /\ scopes[t][h].kind = "with" => scopes[t][h].prev # scopes[t][k].prev
      <4>1. k \in 1..n /\ n > k
        BY <1>3
      <4>2. /\ tls_owner[t] # scopes[t][k].prev
            /\ \A h \in 1..n : h > k /\ scopes[t][h].kind = "with" => scopes[t][h].prev # scopes[t][k].prev
        BY <1>1, <1>2, <1>4, <3>3, <4>1 DEF MarksStayAway, StaysAway
      <4> QED
        BY <1>3, <1>4, <1>5, <3>2, <3>3, <4>2, <4>1
    <3>4. wants'[t].kind = "none"
      BY <1>2
    <3> QED
      <4>1. \A j \in 1..(n - 1) : scopes'[t][j] = scopes[t][j]
        BY <1>3
      <4>2. Depth(t)' = 1..(n - 1)
        BY <1>4
      <4>3. ASSUME NEW k \in 1..(n - 1), Restores(t, k)'
            PROVE  /\ tls_owner'[t] # scopes'[t][k].prev
                   /\ \A h \in 1..(n - 1) : h > k /\ scopes'[t][h].kind = "with" =>
                        scopes'[t][h].prev # scopes'[t][k].prev
        <5>1. Restores(t, k) /\ scopes'[t][k].prev = scopes[t][k].prev
          BY <3>1, <4>3
        <5> QED
          BY <3>3, <4>1, <5>1
      <4> QED
        BY <3>4, <4>2, <4>3 DEF StaysAway
  <2> QED
    BY <2>1, <2>3, <2>4, <2>5, <2>6 DEF MarksFit, MarksStayAway
<1>10. SingleIsMarked'
  <2>1. ASSUME ~deep PROVE \A r \in Strings : m_'[r] # t
    <3>1. 1..(n - 1) = {}
      BY <1>1, <1>3, <2>1 DEF SingleIsMarked
    <3>2. Depth(t)' = {}
      BY <1>4, <3>1
    <3> QED
      BY <1>8, <3>2 DEF LocksFit
  <2>2. ~deep' => \A u \in Threads : Len(scopes'[u]) <= 1
    BY <1>1, <1>2, <1>3 DEF SingleIsMarked
  <2>3. ASSUME NEW u \in Threads, NEW r \in Strings, m_'[r] = u, ~deep
        PROVE  u # t /\ m_[r] = u
    BY <1>6, <2>1, <2>3
  <2> QED
    BY <1>1, <1>2, <1>5, <2>2, <2>3 DEF SingleIsMarked
<1> QED
  BY <1>7, <1>8, <1>9, <1>10 DEF MutexInv

-----------------------------------------------------------------------------
\* Every call begins with such a request.
LEMMA BeginKeepsInv ==
  ASSUME MutexInv, NEW t \in Threads, Begin(t)
  PROVE  MutexInv'
<1>1. ASSUME NEW s \in Strings, Member(t, s) PROVE MutexInv'
  <2>1. AskStep(t, "member", {s}, {})
    BY <1>1 DEF AskStep, Asserting, Ask, Member
  <2> QED
    BY <2>1, AskKeepsInv
<1>2. ASSUME NEW s \in Strings, Copy(t, s) PROVE MutexInv'
  <2>1. AskStep(t, "member", {s}, {s})
    BY <1>2 DEF AskStep, Asserting, Ask, Copy
  <2> QED
    BY <2>1, AskKeepsInv
<1>3. ASSUME NEW s \in Strings, Guard(t, s) PROVE MutexInv'
  <2>1. AskStep(t, "guard", {s}, {})
    BY <1>3 DEF AskStep, Asserting, Ask, Guard
  <2> QED
    BY <2>1, AskKeepsInv
<1>4. ASSUME NEW s \in Strings, With(t, s) PROVE MutexInv'
  <2>1. AskStep(t, "with", {s}, {})
    BY <1>4 DEF AskStep, Asserting, Ask, With
  <2> QED
    BY <2>1, AskKeepsInv
<1>5. ASSUME NEW a \in Strings, NEW b \in Strings, Swap(t, a, b) PROVE MutexInv'
  <2>1. AskStep(t, "member", {a, b}, {})
    BY <1>5 DEF AskStep, Asserting, Ask, Swap
  <2> QED
    BY <2>1, AskKeepsInv
<1>6. ASSUME NEW a \in Strings, NEW b \in Strings, Assign(t, a, b) PROVE MutexInv'
  <2>1. AskStep(t, "member", {a, b}, {b})
    BY <1>6 DEF AskStep, Asserting, Ask, Assign
  <2> QED
    BY <2>1, AskKeepsInv
<1> QED
  BY <1>1, <1>2, <1>3, <1>4, <1>5, <1>6 DEF Begin

\* Every step of a thread keeps the invariant.
LEMMA MutexStep == MutexInv /\ [NextMutex]_mutexVars => MutexInv'
<1>1. ASSUME MutexInv, NEW t \in Threads, Begin(t) \/ Lock(t) \/ EarlyUnlock(t) \/ End(t) PROVE MutexInv'
  BY <1>1, BeginKeepsInv, MemberKeepsInv, ScopeBeginsKeepsInv, EarlyUnlockKeepsInv, ScopeEndsKeepsInv
  DEF Lock
<1>2. ASSUME MutexInv, UNCHANGED mutexVars PROVE MutexInv'
  <2>1. /\ m_' = m_ /\ tls_owner' = tls_owner /\ scopes' = scopes /\ wants' = wants
        /\ aborted' = aborted /\ deep' = deep
    BY <1>2 DEF mutexVars, history
  <2>2. MutexTyped'
    BY <1>2, <2>1 DEF MutexInv, MutexTyped
  <2>3. LocksFit'
    BY <1>2, <2>1 DEF MutexInv, LocksFit, Depth
  <2>4. MarksFit' /\ MarksStayAway'
    BY <1>2, <2>1, OthersKeepMarks DEF MutexInv, MarksFit, MarksStayAway
  <2>5. SingleIsMarked'
    BY <1>2, <2>1 DEF MutexInv, SingleIsMarked
  <2> QED
    BY <2>2, <2>3, <2>4, <2>5 DEF MutexInv
<1> QED
  BY <1>1, <1>2 DEF NextMutex

\* The string and its mutex keep theirs.
LEMMA MutexAlways == Spec => []MutexInv
<1>1. Init => MutexInv
  BY MutexInit DEF Init
<1>2. MutexInv /\ [Next]_vars => MutexInv'
  BY MutexStep DEF Next, vars
<1> QED
  BY <1>1, <1>2, PTL DEF Spec

-----------------------------------------------------------------------------
\* Only a guard can be unlocked early: a with() owns its lock until it ends.
WithsOwn == \A t \in Threads : \A i \in Depth(t) : scopes[t][i].kind = "with" => scopes[t][i].owns_lock

\* Every step of a thread leaves its with() calls their locks.
LEMMA WithsOwnStep == MutexInv /\ WithsOwn /\ [NextMutex]_mutexVars => WithsOwn'
<1> SUFFICES ASSUME MutexInv, WithsOwn, [NextMutex]_mutexVars PROVE WithsOwn'
  OBVIOUS
<1>1. MutexTyped
  BY DEF MutexInv
<1>2. CASE scopes' = scopes
  BY <1>2 DEF WithsOwn, Depth
<1>3. ASSUME NEW t \in Threads, ScopeBegins(t) PROVE WithsOwn'
  <2>1. PICK g : /\ g \in Scope /\ g.owns_lock
                 /\ scopes' = [scopes EXCEPT ![t] = Append(@, g)]
    <3>1. wants[t] \in Request /\ wants[t].prev \in Marks /\ wants[t].of \subseteq Strings
      BY <1>1 DEF MutexTyped, Request
    <3>2. PICK s \in wants[t].of :
            scopes' = [scopes EXCEPT ![t] = Append(@,
              [kind |-> wants[t].kind, of |-> s, prev |-> wants[t].prev,
               mark_set |-> wants[t].kind = "guard", owns_lock |-> TRUE])]
      BY <1>3 DEF ScopeBegins
    <3> QED
      BY <1>3, <3>1, <3>2 DEF Scope, ScopeBegins
  <2> QED
    BY <1>1, <2>1, ScopesAppended DEF WithsOwn, Depth
<1>4. ASSUME NEW t \in Threads, EarlyUnlock(t) PROVE WithsOwn'
  <2>1. PICK i \in DOMAIN scopes[t] :
          /\ scopes[t][i].kind = "guard"
          /\ \E b \in BOOLEAN : scopes' = [scopes EXCEPT ![t][i].owns_lock = FALSE, ![t][i].mark_set = b]
    <3>1. PICK i \in DOMAIN scopes[t] :
            /\ scopes[t][i].kind = "guard"
            /\ scopes' = [scopes EXCEPT ![t][i].owns_lock = FALSE,
                 ![t][i].mark_set = scopes[t][i].mark_set /\
                                    ~(scopes[t][i].mark_set /\ tls_owner[t] = scopes[t][i].of)]
      BY <1>4 DEF EarlyUnlock
    <3>2. i \in Depth(t)
      BY <1>1, <3>1, LenProperties DEF MutexTyped, Depth
    <3>3. scopes[t][i].mark_set \in BOOLEAN
      BY <1>1, <3>2, ScopeIsTyped DEF Scope
    <3> QED
      BY <3>1, <3>3
  <2>2. PICK b \in BOOLEAN :
          scopes' = [scopes EXCEPT ![t][i].owns_lock = FALSE, ![t][i].mark_set = b]
    BY <2>1
  <2>3. i \in Depth(t) /\ scopes \in [Threads -> Seq(Scope)] /\ scopes[t] \in Seq(Scope)
    BY <1>1, <2>1, LenProperties DEF MutexTyped, Depth
  <2> DEFINE g == [scopes[t][i] EXCEPT !.owns_lock = FALSE, !.mark_set = b]
  <2>4. g \in Scope /\ g.kind = "guard"
    BY <1>1, <2>1, <2>3, ScopeIsTyped DEF Scope
  <2>5. Replace(t, i, g)
    BY <2>2, <2>3, <1>1 DEF Replace, MutexTyped
  <2> HIDE DEF g
  <2>6. Replaced(t, i, g)
    BY <1>1, <2>3, <2>4, <2>5, ScopeReplaced
  <2> QED
    BY <2>4, <2>6 DEF Replaced, WithsOwn, Depth
<1>5. ASSUME NEW t \in Threads, End(t) PROVE WithsOwn'
  <2>1. Inside(t) /\ scopes' = [scopes EXCEPT ![t] = Front(@)]
    BY <1>5 DEF End, GuardEnds, WithEnds
  <2>2. /\ \A u \in Threads \ {t} : scopes'[u] = scopes[u]
        /\ Len(scopes[t]) \in Nat \ {0} /\ Len(scopes'[t]) = Len(scopes[t]) - 1
        /\ \A i \in 1..(Len(scopes[t]) - 1) : scopes'[t][i] = scopes[t][i]
    BY <1>1, <2>1, ScopesDropped
  <2>3. ASSUME NEW u \in Threads, NEW i \in 1..Len(scopes'[u])
        PROVE  i \in 1..Len(scopes[u]) /\ scopes'[u][i] = scopes[u][i]
    BY <2>2, <2>3
  <2> QED
    BY <2>3 DEF WithsOwn, Depth
<1> QED
  BY <1>2, <1>3, <1>4, <1>5
  DEF NextMutex, mutexVars, Begin, Lock, MemberRuns, Member, Swap, Assign, Copy, Guard, With

\* The mark of a thread names a string that the thread holds or is about to lock,
\* or that of a guard which was unlocked while another mark stood in its place.
THEOREM NoFalseAlarm == Spec => []MarksAreHonest
<1>1. Init => MutexInv /\ WithsOwn
  <2>1. InitMutex => \A t \in Threads : Len(scopes[t]) = 0
    BY DEF InitMutex
  <2> QED
    BY <2>1, MutexInit DEF Init, WithsOwn, Depth
<1>2. MutexInv /\ WithsOwn /\ [Next]_vars => (MutexInv /\ WithsOwn)'
  BY MutexStep, WithsOwnStep DEF Next, vars
<1>3. MutexInv /\ WithsOwn => MarksAreHonest
  <2> SUFFICES ASSUME MutexInv, WithsOwn, NEW t \in Threads, tls_owner[t] # None
               PROVE  \/ Holds(t, tls_owner[t])
                      \/ wants[t].kind = "with" /\ tls_owner[t] \in wants[t].of
                      \/ \E i \in DOMAIN scopes[t] : /\ scopes[t][i].of = tls_owner[t]
                                                    /\ UnlockedUnderAnotherMark(scopes[t][i])
    BY DEF MarksAreHonest
  <2>1. CASE wants[t].kind = "with" /\ tls_owner[t] \in wants[t].of
    BY <2>1
  <2>2. ASSUME NEW j \in Depth(t), StandsFor(scopes[t][j], tls_owner[t])
        PROVE  \/ Holds(t, tls_owner[t])
               \/ \E i \in DOMAIN scopes[t] : /\ scopes[t][i].of = tls_owner[t]
                                             /\ UnlockedUnderAnotherMark(scopes[t][i])
    <3>1. j \in DOMAIN scopes[t] /\ scopes[t][j] \in Scope
      BY ScopeIsTyped, LenProperties DEF MutexInv, MutexTyped, Depth
    <3>2. CASE scopes[t][j].owns_lock
      BY <2>2, <3>2 DEF MutexInv, LocksFit, StandsFor, Holds
    <3>3. CASE ~scopes[t][j].owns_lock
      <4>1. scopes[t][j].kind # "with"
        BY <3>3 DEF WithsOwn
      <4>2. scopes[t][j].kind = "guard"
        BY <3>1, <4>1 DEF Scope
      <4> QED
        BY <2>2, <3>1, <3>3, <4>2 DEF StandsFor, UnlockedUnderAnotherMark
    <3> QED
      BY <3>2, <3>3
  <2> QED
    BY <2>1, <2>2 DEF MutexInv, MarksFit, MarkFits, Witnessed, Depth
<1> QED
  BY <1>1, <1>2, <1>3, PTL DEF Spec

\* A thread with one scope at a time blocks on itself only through an operand.
THEOREM AssertionComesFirst == Spec => []OneScopeNeverWaitsForItself
<1>1. MutexInv => OneScopeNeverWaitsForItself
  <2> SUFFICES ASSUME MutexInv, ~deep, ~aborted, NEW t \in Threads,
                      NEW s \in wants[t].of \ wants[t].operand, m_[s] = t
               PROVE  FALSE
    BY DEF OneScopeNeverWaitsForItself, WaitsForItself, Holds
  <2>1. s \in Strings
    BY DEF MutexInv, MutexTyped, Request
  <2> QED
    BY <2>1 DEF MutexInv, SingleIsMarked
<1> QED
  BY <1>1, MutexAlways, PTL
=============================================================================
