--------------------------- MODULE DynamicThread ---------------------------
(***************************************************************************)
(* j2::thread::dynamic_thread: a worker thread that runs a task, sleeps    *)
(* and repeats while running_ is set.  start() and stop() are sequences of *)
(* loads and stores with no lock, so each load and store is a step, and    *)
(* the worker runs between any two.  One owner makes the calls (the class  *)
(* promises nothing to concurrent callers); a task may call stop() on its  *)
(* own object.  The start() overloads differ only in what they store.      *)
(*                                                                         *)
(* What std::thread does with a misuse (assigning to or destroying a       *)
(* joinable handle, joining oneself) is to end the program: crash says so. *)
(***************************************************************************)
EXTENDS Integers

CONSTANT MaxStarts   \* bound: workers created in one behaviour

ASSUME MaxStartsAssumption == MaxStarts \in Nat

VARIABLES running,     \* running_
          handle,      \* the worker workerThread_ may join, 0 when not joinable
          worker,      \* where each worker is in threadFunction
          spawned,     \* workers created so far
          pc,          \* where the owner is in start() or stop()
          destroying,  \* the destructor has begun
          held,        \* the worker start() has created but not assigned, or 0
          stopped,     \* a stop() has returned since the last start() took effect
          selfStop,    \* a task has called stop() on its own object
          crash        \* "none", or why the program was terminated

shared == <<running, handle, worker, spawned>>
threadVars == <<shared, pc, destroying, held, stopped, selfStop, crash>>

Workers == 1..MaxStarts
Live == {w \in Workers : worker[w] \in {"check", "task", "sleep"}}

InitThread ==
  /\ running = FALSE /\ handle = 0 /\ spawned = 0
  /\ worker = [w \in Workers |-> "unborn"]
  /\ pc = "idle" /\ held = 0
  /\ destroying = FALSE /\ stopped = FALSE /\ selfStop = FALSE /\ crash = "none"

Alive == crash = "none"
Goto(state) == pc' = state
MayBegin == Alive /\ pc = "idle" /\ ~destroying

-----------------------------------------------------------------------------
\* Faulty variants (StartUnchecked, ...) precede the definition they distort.

\* start(): a set flag is an early return that changes nothing.
StartUnchecked ==
  /\ MayBegin /\ spawned < MaxStarts
  /\ Goto("arm")
  /\ UNCHANGED <<shared, destroying, held, stopped, selfStop, crash>>

StartCheck ==
  /\ MayBegin /\ ~running /\ spawned < MaxStarts
  /\ Goto("arm")
  /\ UNCHANGED <<shared, destroying, held, stopped, selfStop, crash>>

StartArm ==
  /\ Alive /\ pc = "arm"
  /\ running' = TRUE /\ stopped' = FALSE
  /\ Goto("spawn")
  /\ UNCHANGED <<handle, worker, spawned, destroying, held, selfStop, crash>>

\* std::thread(...): the worker may run before the handle is assigned.
StartCreateTwice ==
  /\ Alive /\ pc = "spawn" /\ spawned + 1 < MaxStarts
  /\ spawned' = spawned + 2
  /\ worker' = [worker EXCEPT ![spawned + 1] = "check", ![spawned + 2] = "check"]
  /\ held' = spawned + 1
  /\ Goto("assign")
  /\ UNCHANGED <<running, handle, destroying, stopped, selfStop, crash>>

StartCreate ==
  /\ Alive /\ pc = "spawn" /\ spawned < MaxStarts
  /\ spawned' = spawned + 1
  /\ worker' = [worker EXCEPT ![spawned + 1] = "check"]
  /\ held' = spawned + 1
  /\ Goto("assign")
  /\ UNCHANGED <<running, handle, destroying, stopped, selfStop, crash>>

\* The thread cannot be created: std::system_error leaves start() with
\* running_ already set and no worker.
StartCreateFails ==
  /\ Alive /\ pc = "spawn"
  /\ Goto("idle")
  /\ UNCHANGED <<shared, destroying, held, stopped, selfStop, crash>>

\* The move assignment terminates the program if workerThread_ is joinable.
StartAssign ==
  /\ Alive /\ pc = "assign"
  /\ IF handle = 0 THEN handle' = held /\ UNCHANGED crash
                   ELSE crash' = "assigned_joinable" /\ UNCHANGED handle
  /\ held' = 0
  /\ Goto("idle")
  /\ UNCHANGED <<running, worker, spawned, destroying, stopped, selfStop>>

(***************************************************************************)
(* stop(), also the body of the destructor.  Return is its end: a          *)
(* destructor goes on to destroy workerThread_.                            *)
(***************************************************************************)
Return ==
  /\ stopped' = TRUE
  /\ Goto(IF destroying' THEN "gone" ELSE "idle")
  /\ crash' = IF destroying' /\ handle' # 0 THEN "destroyed_joinable" ELSE crash

StopCheck ==
  /\ MayBegin
  /\ UNCHANGED <<shared, destroying, held, selfStop>>
  /\ \/ running /\ Goto("flag") /\ UNCHANGED <<stopped, crash>>
     \/ ~running /\ Return

StopFlagKept ==
  /\ Alive /\ pc = "flag"
  /\ Goto("join")
  /\ UNCHANGED <<shared, destroying, held, stopped, selfStop, crash>>

StopFlag ==
  /\ Alive /\ pc = "flag"
  /\ running' = FALSE
  /\ Goto("join")
  /\ UNCHANGED <<handle, worker, spawned, destroying, held, stopped, selfStop, crash>>

StopJoinable ==
  /\ Alive /\ pc = "join"
  /\ UNCHANGED <<shared, destroying, held, selfStop>>
  /\ \/ handle # 0 /\ Goto("joining") /\ UNCHANGED <<stopped, crash>>
     \/ handle = 0 /\ Return

StopDetaching ==
  /\ Alive /\ pc = "joining"
  /\ handle' = 0
  /\ UNCHANGED <<running, worker, spawned, destroying, held, selfStop>>
  /\ Return

\* join() returns when the worker has ended.
StopJoin ==
  /\ Alive /\ pc = "joining" /\ worker[handle] = "ended"
  /\ handle' = 0
  /\ UNCHANGED <<running, worker, spawned, destroying, held, selfStop>>
  /\ Return

\* The lifetime rule of C++: the destructor starts when no call is in progress.
Destroy ==
  /\ Alive /\ ~destroying /\ pc = "idle"
  /\ destroying' = TRUE
  /\ UNCHANGED <<shared, held, selfStop>>
  /\ \/ running /\ Goto("flag") /\ UNCHANGED <<stopped, crash>>
     \/ ~running /\ Return

(***************************************************************************)
(* threadFunction.                                                         *)
(***************************************************************************)
Move(w, state) ==
  /\ Alive
  /\ worker' = [worker EXCEPT ![w] = state]
  /\ UNCHANGED <<running, handle, spawned, pc, destroying, held, stopped, selfStop, crash>>

WorkerCheck(w) ==
  worker[w] = "check" /\ Move(w, IF running THEN "task" ELSE "ended")

WorkerTaskReturns(w) == worker[w] = "task" /\ Move(w, "sleep")

WorkerWakes(w) == worker[w] = "sleep" /\ Move(w, "check")

\* A task that calls stop() on its own object while running_ is set: join()
\* throws in the worker, unless the handle is not assigned yet.
WorkerTaskStops(w) ==
  /\ Alive /\ worker[w] = "task" /\ running
  /\ running' = FALSE /\ selfStop' = TRUE
  /\ crash' = IF handle = w THEN "joined_itself" ELSE crash
  /\ UNCHANGED <<handle, worker, spawned, pc, destroying, held, stopped>>

Start ==
  \/ StartCheck \/ StartArm \/ StartCreate \/ StartCreateFails
  \/ StartAssign
Stop == StopCheck \/ StopFlag \/ StopJoinable \/ StopJoin
Run(w) == WorkerCheck(w) \/ WorkerTaskReturns(w) \/ WorkerWakes(w)

NextThread ==
  \/ Start \/ Stop \/ Destroy
  \/ \E w \in Workers : Run(w) \/ WorkerTaskStops(w)

\* The operating system runs every thread, tasks return and sleeps end; a call
\* that has begun goes on, but no call is obliged to begin.
ThreadFairness ==
  /\ WF_threadVars(pc # "idle" /\ (Start \/ Stop))
  /\ \A w \in Workers : WF_threadVars(Run(w))

-----------------------------------------------------------------------------
\* Unless a task stops its own object, start() and stop() never lose track of a
\* worker: the only live one, if any, is the one workerThread_ joins or the one
\* start() is about to assign to it.
OneWorker ==
  Alive /\ ~selfStop =>
    \E h \in {handle, held} : Live \subseteq {h}

\* After stop() returns no task runs until the next start(), unless the task
\* itself stopped the object (threadFunction tests running_ only between tasks,
\* so stop() has to wait for the worker).
Starting == pc \in {"arm", "spawn", "assign"}
NoTaskAfterStop ==
  Alive /\ stopped /\ ~selfStop /\ ~Starting =>
    \A w \in Workers : worker[w] # "task"

\* Starting again, failing to start and destroying never end the program: only
\* a task that stops its own object can bring that about.
OnlySelfStopTerminates == crash # "none" => selfStop

\* A stop() that has begun returns: the worker notices the flag, ends, and is joined.
StopEnds ==
  pc \in {"flag", "join", "joining"} ~> pc \in {"idle", "gone"} \/ ~Alive
=============================================================================
