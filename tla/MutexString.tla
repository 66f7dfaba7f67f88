---------------------------- MODULE MutexString ----------------------------
(***************************************************************************)
(* j2::string::mutex_string in a debug build: a string and its mutex, and  *)
(* one thread-local mark that names the string whose scope the thread is   *)
(* in, so that an assertion can stop a thread from locking a string twice. *)
(* The members lock for their own duration; guard() returns a Locked that  *)
(* holds the mutex for a scope; with() holds it while a callable runs.     *)
(*                                                                         *)
(* Abstracted: the contents.  All members of one string that assert, lock, *)
(* touch s_ and unlock are the one operation "member".  Scopes of a thread *)
(* end in reverse order.                                                   *)
(***************************************************************************)
EXTENDS Integers, Sequences, SequencesExt

CONSTANTS Threads, Strings,
          None,         \* no thread; no string, as a mark
          MaxDepth      \* bound: scopes of one thread at a time

ASSUME NoneAssumption == None \notin Threads \cup Strings
ASSUME MaxDepthAssumption == MaxDepth \in Nat

VARIABLES
  m_,         \* which thread holds each string's mutex
  tls_owner,  \* g_tls_owner of each thread
  scopes,     \* the guards and with() calls each thread is in, innermost last
  wants,      \* the lock request each thread is blocked on, or about to get
  aborted,    \* an assertion has failed
  deep,       \* history: a thread has had two scopes at once
  nested      \* history: a call began inside a scope

history == <<deep, nested>>
mutexVars == <<m_, tls_owner, scopes, wants, aborted, history>>

Idle == [kind |-> "none", of |-> {}, operand |-> {}, prev |-> None]

InitMutex ==
  /\ m_ = [s \in Strings |-> None] /\ tls_owner = [t \in Threads |-> None]
  /\ scopes = [t \in Threads |-> <<>>] /\ wants = [t \in Threads |-> Idle]
  /\ aborted = FALSE /\ deep = FALSE /\ nested = FALSE

Runs(t) == ~aborted /\ wants[t] = Idle
Inside(t) == scopes[t] # <<>>

\* assert_not_reentrant_ on every string of S, or the end of the program.
Asserting(t, S) == aborted' = (tls_owner[t] \in S)

\* The locks of S are asked for; those of read belong to an operand.
AskReading(t, kind, S, read) ==
  /\ wants' = [wants EXCEPT ![t] = [kind |-> kind, of |-> S, operand |-> read,
                                   prev |-> tls_owner[t]]]
  /\ nested' = (nested \/ Inside(t))
Ask(t, kind, S) == AskReading(t, kind, S, {})

-----------------------------------------------------------------------------
\* Faulty variants (ScopeBeginsUnmarked, ...) precede the definition they distort.

Member(t, s) ==
  /\ Runs(t) /\ Asserting(t, {s}) /\ Ask(t, "member", {s})
  /\ UNCHANGED <<m_, tls_owner, scopes, deep>>

\* swap() asserts on both strings; scoped_lock takes both mutexes or none.
Swap(t, a, b) ==
  /\ Runs(t) /\ a # b /\ Asserting(t, {a, b}) /\ Ask(t, "member", {a, b})
  /\ UNCHANGED <<m_, tls_owner, scopes, deep>>

\* Assignment from another string asserts on the target only.
Assign(t, a, b) ==
  /\ Runs(t) /\ a # b /\ Asserting(t, {a}) /\ AskReading(t, "member", {a, b}, {b})
  /\ UNCHANGED <<m_, tls_owner, scopes, deep>>

\* A copy or move constructor asserts on the new string, which no mark names.
Copy(t, s) ==
  /\ Runs(t) /\ Asserting(t, {}) /\ AskReading(t, "member", {s}, {s})
  /\ UNCHANGED <<m_, tls_owner, scopes, deep>>

Guard(t, s) ==
  /\ Runs(t) /\ Len(scopes[t]) < MaxDepth
  /\ Asserting(t, {s}) /\ Ask(t, "guard", {s})
  /\ UNCHANGED <<m_, tls_owner, scopes, deep>>

\* with_lock marks the string before it locks the mutex.
With(t, s) ==
  /\ Runs(t) /\ Len(scopes[t]) < MaxDepth
  /\ Asserting(t, {s}) /\ Ask(t, "with", {s})
  /\ tls_owner' = [tls_owner EXCEPT ![t] = s]
  /\ UNCHANGED <<m_, scopes, deep>>

Granted(t) == ~aborted /\ wants[t] # Idle /\ \A s \in wants[t].of : m_[s] = None

\* A member gets its locks, does its work and unlocks.
MemberRuns(t) ==
  /\ Granted(t) /\ wants[t].kind = "member"
  /\ wants' = [wants EXCEPT ![t] = Idle]
  /\ UNCHANGED <<m_, tls_owner, scopes, aborted, history>>

ScopeBeginsUnmarked(t) ==
  /\ Granted(t) /\ wants[t].kind \in {"guard", "with"}
  /\ \E s \in wants[t].of :
       /\ m_' = [m_ EXCEPT ![s] = t]
       /\ scopes' = [scopes EXCEPT ![t] = Append(@,
                       [kind |-> wants[t].kind, of |-> s, prev |-> wants[t].prev,
                        mark_set |-> wants[t].kind = "guard", owns_lock |-> TRUE])]
  /\ deep' = (deep \/ Inside(t))
  /\ wants' = [wants EXCEPT ![t] = Idle]
  /\ UNCHANGED <<tls_owner, aborted, nested>>

\* A scope begins: a Locked marks its string once it has the mutex.
ScopeBegins(t) ==
  /\ Granted(t) /\ wants[t].kind \in {"guard", "with"}
  /\ \E s \in wants[t].of :
       /\ m_' = [m_ EXCEPT ![s] = t]
       /\ tls_owner' = [tls_owner EXCEPT ![t] = s]
       /\ scopes' = [scopes EXCEPT ![t] = Append(@,
                       [kind |-> wants[t].kind, of |-> s, prev |-> wants[t].prev,
                        mark_set |-> wants[t].kind = "guard", owns_lock |-> TRUE])]
  /\ deep' = (deep \/ Inside(t))
  /\ wants' = [wants EXCEPT ![t] = Idle]
  /\ UNCHANGED <<aborted, nested>>

\* A guard may be unlocked early; it gives up its mark if that is current.
EarlyUnlock(t) ==
  /\ Runs(t)
  /\ \E i \in DOMAIN scopes[t] :
       LET g == scopes[t][i]
           mine == g.mark_set /\ tls_owner[t] = g.of
       IN /\ g.kind = "guard" /\ g.owns_lock
          /\ m_' = [m_ EXCEPT ![g.of] = None]
          /\ tls_owner' = IF mine THEN [tls_owner EXCEPT ![t] = None] ELSE tls_owner
          /\ scopes' = [scopes EXCEPT ![t][i].owns_lock = FALSE,
                                      ![t][i].mark_set = g.mark_set /\ ~mine]
  /\ UNCHANGED <<wants, aborted, history>>

Release(g) == IF g.owns_lock THEN [m_ EXCEPT ![g.of] = None] ELSE m_

GuardEndsKeepingMark(t) ==
  /\ Runs(t) /\ Inside(t) /\ Last(scopes[t]).kind = "guard"
  /\ m_' = Release(Last(scopes[t]))
  /\ scopes' = [scopes EXCEPT ![t] = Front(@)]
  /\ UNCHANGED <<tls_owner, wants, aborted, history>>

GuardEndsKeepingLock(t) ==
  /\ Runs(t) /\ Inside(t) /\ Last(scopes[t]).kind = "guard"
  /\ tls_owner' = [tls_owner EXCEPT ![t] = None]
  /\ scopes' = [scopes EXCEPT ![t] = Front(@)]
  /\ UNCHANGED <<m_, wants, aborted, history>>

\* ~Locked clears a mark that is its own, whatever was marked before.
GuardEnds(t) ==
  /\ Runs(t) /\ Inside(t) /\ Last(scopes[t]).kind = "guard"
  /\ LET g == Last(scopes[t])
     IN /\ m_' = Release(g)
        /\ tls_owner' = IF g.mark_set /\ tls_owner[t] = g.of
                          THEN [tls_owner EXCEPT ![t] = None] ELSE tls_owner
  /\ scopes' = [scopes EXCEPT ![t] = Front(@)]
  /\ UNCHANGED <<wants, aborted, history>>

\* The end of with(), also when the callable throws: the earlier mark returns.
WithEnds(t) ==
  /\ Runs(t) /\ Inside(t) /\ Last(scopes[t]).kind = "with"
  /\ m_' = Release(Last(scopes[t]))
  /\ tls_owner' = [tls_owner EXCEPT ![t] = Last(scopes[t]).prev]
  /\ scopes' = [scopes EXCEPT ![t] = Front(@)]
  /\ UNCHANGED <<wants, aborted, history>>

Begin(t) ==
  \/ \E s \in Strings : Member(t, s) \/ Copy(t, s) \/ Guard(t, s) \/ With(t, s)
  \/ \E a, b \in Strings : Swap(t, a, b) \/ Assign(t, a, b)
Lock(t) == MemberRuns(t) \/ ScopeBegins(t)
End(t) == GuardEnds(t) \/ WithEnds(t)

NextMutex == \E t \in Threads : Begin(t) \/ Lock(t) \/ EarlyUnlock(t) \/ End(t)

MutexSpec == InitMutex /\ [][NextMutex]_mutexVars

\* A mutex that is free again and again is granted to each thread that waits
\* for it, and scopes end; no call is obliged to begin.
MutexFairness == \A t \in Threads : SF_mutexVars(Lock(t)) /\ SF_mutexVars(End(t))

-----------------------------------------------------------------------------
Holds(t, s) == m_[s] = t
WaitsForItself(t) == \E s \in wants[t].of \ wants[t].operand : Holds(t, s)

\* A guard unlocked while another mark stood in the place of its own: unlock()
\* leaves its mark set, and the end of a with() inside the guard may restore it.
UnlockedUnderAnotherMark(g) == g.kind = "guard" /\ g.mark_set /\ ~g.owns_lock

\* However guards, with() calls and early unlocks nest, the mark names a string
\* whose mutex the thread holds or is about to lock in with(): the assertion
\* stops only a thread that would break the rule, and no mark outlives its scope.
\* There is one exception, in which the assertion is a false alarm: inside a guard
\* of a, a with() of b in which the guard is unlocked early brings the mark of a
\* back when it ends, although the comment at that unlock (mutex_string.cpp:87)
\* says that the mark is kept no longer.
MarksAreHonest ==
  \A t \in Threads : tls_owner[t] # None =>
    \/ Holds(t, tls_owner[t])
    \/ wants[t].kind = "with" /\ tls_owner[t] \in wants[t].of
    \/ \E i \in DOMAIN scopes[t] : /\ scopes[t][i].of = tls_owner[t]
                                  /\ UnlockedUnderAnotherMark(scopes[t][i])

\* A thread that keeps to one scope at a time blocks on a mutex that it holds
\* itself only by reading its string as the operand of a copy or an assignment,
\* which asserts nothing of it: for every other member, swap included, the
\* assertion comes first.
OneScopeNeverWaitsForItself ==
  ~deep /\ ~aborted => \A t \in Threads : ~WaitsForItself(t)

\* As long as no call is made inside a scope, every call gets its locks, even if
\* two threads swap the same two strings in opposite directions.
CallsReturn ==
  \A t \in Threads : wants[t] # Idle ~> wants[t] = Idle \/ nested \/ aborted

\* What the test says: calling other members of the same object during guard
\* lifetime is blocked by assert in debug mode.  Here for the members that
\* assert on every string they lock.
ReentrancyIsAsserted ==
  ~aborted => \A t \in Threads : ~WaitsForItself(t)
=============================================================================
