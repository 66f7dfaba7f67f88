----------------------------- MODULE TcpClient -----------------------------
(***************************************************************************)
(* j2::network::tcp::tcp_client: a worker thread that connects, receives   *)
(* until the connection ends, sleeps and connects again; and an owner that *)
(* starts, stops, sends and closes.  send_mutex covers send_data and       *)
(* close_connection, but not the worker's own uses of socket_fd: each of   *)
(* these reads the descriptor in one step and enters the system call in    *)
(* the next.                                                               *)
(*                                                                         *)
(* Descriptors are the process's: the lowest free one is handed out, to    *)
(* the client or to any other component, so a stale number may name a file *)
(* that is not the client's.  A file stays open in the kernel while a call *)
(* blocks on it: close() does not end a recv() in progress.                *)
(***************************************************************************)
EXTENDS Integers, FiniteSetsExt

CONSTANT MaxFd    \* bound: descriptors 1..MaxFd; the code's -1 is 0 here

ASSUME MaxFdAssumption == MaxFd \in Nat \ {0}

VARIABLES
  supported,  \* address_family is AF_INET or AF_INET6
  socket_fd, stop_flag,
  joinable,   \* client_thread is joinable
  lock,       \* who holds send_mutex across steps, or "none"
  table,      \* what each descriptor is: free, the client's, another component's
  pc, reg,    \* where the owner and the worker are; the descriptor each has read
  up,         \* history: on_connect was the last callback
  failed,     \* history: the worker has closed a socket that never connected
  early,      \* history: the owner closed before on_connect was called
  late,       \* history: a socket was created after stop_flag was set
  raced,      \* history: the worker reset socket_fd inside the owner's close
  restarted,  \* history: start() found a socket still open
  strayed,    \* history: close() or send() reached a foreign descriptor
  skewed      \* history: two on_connect, or two on_close, in a row

settings == <<supported, joinable>>
marks == <<failed, early, late, raced, restarted>>
verdicts == <<up, strayed, skewed>>
vars == <<settings, socket_fd, stop_flag, lock, table, pc, reg, marks, verdicts>>

Fds == 1..MaxFd
NoFd == 0
Actors == {"owner", "worker"}

Init ==
  /\ supported \in BOOLEAN
  /\ socket_fd = NoFd /\ stop_flag = FALSE /\ joinable = FALSE /\ lock = "none"
  /\ table = [f \in Fds |-> "free"]
  /\ pc = [a \in Actors |-> IF a = "owner" THEN "idle" ELSE "none"]
  /\ reg = [a \in Actors |-> NoFd]
  /\ up = FALSE /\ strayed = FALSE /\ skewed = FALSE
  /\ failed = FALSE /\ early = FALSE /\ late = FALSE /\ raced = FALSE /\ restarted = FALSE

Goto(a, state) == pc' = [pc EXCEPT ![a] = state]
Read(a) == reg' = [reg EXCEPT ![a] = socket_fd]
FreeFds == {f \in Fds : table[f] = "free"}
Foreign(f) == f \in Fds /\ table[f] = "other"

\* close(reg[a]), whatever the descriptor has become since it was read.
CloseFd(a) ==
  /\ table' = [f \in Fds |-> IF f = reg[a] THEN "free" ELSE table[f]]
  /\ strayed' = (strayed \/ Foreign(reg[a]))

-----------------------------------------------------------------------------
(***************************************************************************)
(* close_connection, for the owner and for the worker.  A call of the      *)
(* owner with stop_flag set goes on to the join of stop(), which finds no  *)
(* thread when the client was stopped before.                              *)
(* Faulty variants (CloseKeepingFd, ...) precede the definition they       *)
(* distort.                                                                *)
(***************************************************************************)
AfterClose(a) ==
  IF a = "worker" THEN "sleep" ELSE IF stop_flag THEN "join" ELSE "idle"

Unconnected == pc["worker"] \in {"connect", "connecting", "awaiting", "connected",
                                 "fail", "failclose", "failreset"}

CloseTestNotifying(a) ==
  /\ pc[a] = "close" /\ lock = "none" /\ socket_fd = NoFd
  /\ up' = FALSE /\ skewed' = (skewed \/ ~up)
  /\ Goto(a, AfterClose(a))
  /\ UNCHANGED <<settings, socket_fd, stop_flag, lock, table, reg, marks, strayed>>

CloseTest(a) ==
  /\ pc[a] = "close" /\ lock = "none"
  /\ UNCHANGED <<settings, socket_fd, stop_flag, table, failed, late, raced, restarted, verdicts>>
  /\ IF socket_fd = NoFd
       THEN Goto(a, AfterClose(a)) /\ UNCHANGED <<lock, reg, early>>
       ELSE /\ lock' = a /\ Read(a) /\ Goto(a, "closing")
            /\ early' = (early \/ (a = "owner" /\ Unconnected))

CloseCall(a) ==
  /\ pc[a] = "closing"
  /\ CloseFd(a) /\ Goto(a, "reset")
  /\ UNCHANGED <<settings, socket_fd, stop_flag, lock, reg, marks, up, skewed>>

CloseKeepingFd(a) ==
  /\ pc[a] = "reset"
  /\ up' = FALSE /\ skewed' = (skewed \/ ~up)
  /\ lock' = "none" /\ Goto(a, AfterClose(a))
  /\ UNCHANGED <<settings, socket_fd, stop_flag, table, reg, marks, strayed>>

\* socket_fd = -1, then on_close, then the mutex is released.
CloseReset(a) ==
  /\ pc[a] = "reset"
  /\ socket_fd' = NoFd
  /\ up' = FALSE /\ skewed' = (skewed \/ ~up)
  /\ lock' = "none" /\ Goto(a, AfterClose(a))
  /\ UNCHANGED <<settings, stop_flag, table, reg, marks, strayed>>

CloseConnection(a) == CloseTest(a) \/ CloseCall(a) \/ CloseReset(a)

(***************************************************************************)
(* The owner.  start() is called only when no thread is joinable: the move *)
(* assignment would end the program otherwise.                             *)
(***************************************************************************)
Start ==
  /\ pc["owner"] = "idle" /\ ~joinable
  /\ stop_flag' = FALSE /\ joinable' = TRUE
  /\ restarted' = (restarted \/ socket_fd # NoFd)
  /\ Goto("worker", "check")
  /\ UNCHANGED <<supported, socket_fd, lock, table, reg, failed, early, late, raced, verdicts>>

StopFlagWithoutClose ==
  /\ pc["owner"] = "idle"
  /\ stop_flag' = TRUE
  /\ Goto("owner", "join")
  /\ UNCHANGED <<settings, socket_fd, lock, table, reg, marks, verdicts>>

\* stop(), also the body of the destructor.
StopFlag ==
  /\ pc["owner"] = "idle"
  /\ stop_flag' = TRUE
  /\ Goto("owner", "close")
  /\ UNCHANGED <<settings, socket_fd, lock, table, reg, marks, verdicts>>

StopJoin ==
  /\ pc["owner"] = "join" /\ (joinable => pc["worker"] = "ended")
  /\ joinable' = FALSE
  /\ pc' = [pc EXCEPT !["owner"] = "idle", !["worker"] = IF joinable THEN "none" ELSE @]
  /\ UNCHANGED <<supported, socket_fd, stop_flag, lock, table, reg, marks, verdicts>>

OwnerCloses ==
  /\ pc["owner"] = "idle"
  /\ Goto("owner", "close")
  /\ UNCHANGED <<settings, socket_fd, stop_flag, lock, table, reg, marks, verdicts>>

\* send_data: without a socket it returns -1 and changes nothing.
SendRead ==
  /\ pc["owner"] = "idle" /\ lock = "none" /\ socket_fd # NoFd
  /\ lock' = "owner" /\ Read("owner") /\ Goto("owner", "send")
  /\ UNCHANGED <<settings, socket_fd, stop_flag, table, marks, verdicts>>

SendCall ==
  /\ pc["owner"] = "send"
  /\ strayed' = (strayed \/ Foreign(reg["owner"]))
  /\ lock' = "none" /\ Goto("owner", "idle")
  /\ UNCHANGED <<settings, socket_fd, stop_flag, table, reg, marks, up, skewed>>

-----------------------------------------------------------------------------
(***************************************************************************)
(* connect_to_server.                                                      *)
(***************************************************************************)
WorkerCheckIgnoringStop ==
  /\ pc["worker"] = "check"
  /\ Goto("worker", "socket")
  /\ UNCHANGED <<settings, socket_fd, stop_flag, lock, table, reg, marks, verdicts>>

WorkerCheck ==
  /\ pc["worker"] = "check"
  /\ Goto("worker", IF stop_flag THEN "ended" ELSE "socket")
  /\ UNCHANGED <<settings, socket_fd, stop_flag, lock, table, reg, marks, verdicts>>

WorkerCreates ==
  /\ pc["worker"] = "socket" /\ FreeFds # {}
  /\ socket_fd' = Min(FreeFds)
  /\ table' = [table EXCEPT ![Min(FreeFds)] = "client"]
  /\ late' = (late \/ stop_flag)
  /\ Goto("worker", IF supported THEN "connect" ELSE "fail")
  /\ UNCHANGED <<settings, stop_flag, lock, reg, failed, early, raced, restarted, verdicts>>

WorkerCannotCreate ==
  /\ pc["worker"] = "socket"
  /\ socket_fd' = NoFd
  /\ Goto("worker", "sleep")
  /\ UNCHANGED <<settings, stop_flag, lock, table, reg, marks, verdicts>>

WorkerConnects ==
  /\ pc["worker"] = "connect"
  /\ Read("worker") /\ Goto("worker", "connecting")
  /\ UNCHANGED <<settings, socket_fd, stop_flag, lock, table, marks, verdicts>>

\* connect() of no file at all fails at once; of a file, even one that the
\* owner closes or another component has opened meanwhile, it has both outcomes.
ConnectEnters ==
  /\ pc["worker"] = "connecting"
  /\ Goto("worker", IF reg["worker"] \in Fds \ FreeFds THEN "awaiting" ELSE "fail")
  /\ UNCHANGED <<settings, socket_fd, stop_flag, lock, table, reg, marks, verdicts>>

ConnectSucceeds ==
  /\ pc["worker"] = "awaiting"
  /\ Goto("worker", "connected")
  /\ UNCHANGED <<settings, socket_fd, stop_flag, lock, table, reg, marks, verdicts>>

ConnectFails ==
  /\ pc["worker"] = "awaiting"
  /\ Goto("worker", "fail")
  /\ UNCHANGED <<settings, socket_fd, stop_flag, lock, table, reg, marks, verdicts>>

OnConnect ==
  /\ pc["worker"] = "connected"
  /\ up' = TRUE /\ skewed' = (skewed \/ up)
  /\ Goto("worker", "loop")
  /\ UNCHANGED <<settings, socket_fd, stop_flag, lock, table, reg, marks, strayed>>

\* The socket of a failed connect, or of an unsupported address family, is
\* closed and reset without the mutex and without on_close.
FailRead ==
  /\ pc["worker"] = "fail"
  /\ Read("worker") /\ Goto("worker", "failclose")
  /\ UNCHANGED <<settings, socket_fd, stop_flag, lock, table, marks, verdicts>>

FailClose ==
  /\ pc["worker"] = "failclose"
  /\ CloseFd("worker") /\ failed' = TRUE
  /\ Goto("worker", "failreset")
  /\ UNCHANGED <<settings, socket_fd, stop_flag, lock, reg, early, late, raced, restarted, up, skewed>>

FailReset ==
  /\ pc["worker"] = "failreset"
  /\ socket_fd' = NoFd
  /\ raced' = (raced \/ pc["owner"] \in {"closing", "reset"})
  /\ Goto("worker", "sleep")
  /\ UNCHANGED <<settings, stop_flag, lock, table, reg, failed, early, late, restarted,
                 verdicts>>

WorkerGivesUp ==
  /\ pc["worker"] = "sleep"
  /\ Goto("worker", IF failed THEN "ended" ELSE "check")
  /\ UNCHANGED <<settings, socket_fd, stop_flag, lock, table, reg, marks, verdicts>>

WorkerWakes ==
  /\ pc["worker"] = "sleep"
  /\ Goto("worker", "check")
  /\ UNCHANGED <<settings, socket_fd, stop_flag, lock, table, reg, marks, verdicts>>

(***************************************************************************)
(* receive_loop: a set stop_flag leaves it without closing the socket.     *)
(***************************************************************************)
ReceiveCheck ==
  /\ pc["worker"] = "loop"
  /\ Goto("worker", IF stop_flag THEN "sleep" ELSE "recv") /\ Read("worker")
  /\ UNCHANGED <<settings, socket_fd, stop_flag, lock, table, marks, verdicts>>

\* recv() of no file at all fails at once.
ReceiveEnters ==
  /\ pc["worker"] = "recv"
  /\ Goto("worker", IF reg["worker"] \in Fds \ FreeFds THEN "blocked" ELSE "close")
  /\ UNCHANGED <<settings, socket_fd, stop_flag, lock, table, reg, marks, verdicts>>

ReceiveLeavesOpen ==
  /\ pc["worker"] = "blocked"
  /\ Goto("worker", "loop") \/ Goto("worker", "sleep")
  /\ UNCHANGED <<settings, socket_fd, stop_flag, lock, table, reg, marks, verdicts>>

\* The peer sends, or ends the connection.
ReceiveReturns ==
  /\ pc["worker"] = "blocked"
  /\ Goto("worker", "loop") \/ Goto("worker", "close")
  /\ UNCHANGED <<settings, socket_fd, stop_flag, lock, table, reg, marks, verdicts>>

\* Another component opens a descriptor, leaving one free, or closes its own.
OtherOpens ==
  /\ Cardinality(FreeFds) > 1
  /\ table' = [table EXCEPT ![Min(FreeFds)] = "other"]
  /\ UNCHANGED <<settings, socket_fd, stop_flag, lock, pc, reg, marks, verdicts>>

OtherCloses ==
  /\ \E f \in Fds : Foreign(f) /\ table' = [table EXCEPT ![f] = "free"]
  /\ UNCHANGED <<settings, socket_fd, stop_flag, lock, pc, reg, marks, verdicts>>

OwnerGoesOn == CloseConnection("owner") \/ StopJoin \/ SendCall
Owner == Start \/ StopFlag \/ OwnerCloses \/ SendRead \/ OwnerGoesOn
WorkerGoesOn ==
  \/ WorkerCheck \/ WorkerCreates \/ WorkerCannotCreate
  \/ WorkerConnects \/ ConnectEnters \/ ConnectSucceeds \/ ConnectFails \/ OnConnect
  \/ FailRead \/ FailClose \/ FailReset \/ WorkerWakes
  \/ ReceiveCheck \/ ReceiveEnters \/ ReceiveReturns
Worker == WorkerGoesOn \/ CloseConnection("worker")

Next == Owner \/ Worker \/ OtherOpens \/ OtherCloses

Spec == Init /\ [][Next]_vars

\* Threads run, sleeps end, connect() returns, and the owner finishes a call it
\* has begun; a thread that wants send_mutex gets it even if the other keeps
\* taking it.  Of the environment: the peer of a blocked recv() speaks or ends
\* the connection at last, a reachable server does not refuse for ever, and the
\* system does not deny a socket for ever.
Fairness ==
  /\ WF_vars(WorkerGoesOn) /\ SF_vars(CloseConnection("worker"))
  /\ SF_vars(OwnerGoesOn)
  /\ SF_vars(WorkerCreates) /\ SF_vars(ConnectSucceeds)
FairSpec == Spec /\ Fairness

-----------------------------------------------------------------------------
\* However the owner's calls and the worker interleave, close() and send()
\* touch another component's descriptor only if some socket was closed without
\* the mutex, after a connect that failed: close_connection resets what it
\* closes before anyone else may look.  connect() and recv() take no mutex, so
\* what they are called on is not claimed.
StraysOnlyAfterFailure == strayed => failed

\* Descriptors do not leak: whatever the connection attempts, the only one that
\* belongs to the client is socket_fd.  Starting a client whose socket is still
\* open forgets that socket, and voids this; so does a failed connect that
\* resets socket_fd in the middle of the owner's close_connection.
NoLeak == ~restarted /\ ~raced => \A f \in Fds : table[f] = "client" => f = socket_fd

\* When stop() has returned, the client has no socket, unless the worker had
\* passed its test of stop_flag before and created one afterwards.
Stopped == pc["owner"] = "idle" /\ stop_flag /\ ~joinable
ClosedAfterStop ==
  Stopped /\ ~late /\ ~raced /\ ~restarted =>
    socket_fd = NoFd /\ \A f \in Fds : table[f] # "client"

\* on_connect and on_close alternate, although two threads call on_close, as
\* long as the owner does not close a socket that is not connected yet: then
\* on_close comes first, and on_connect may still follow it.
CallbacksAlternate == skewed => early \/ restarted

\* stop() returns: the worker sees stop_flag at the end of whatever it is in,
\* which for a recv() is when the peer speaks or ends the connection.
StopReturns == pc["owner"] = "close" /\ stop_flag ~> pc["owner"] = "idle"

\* Until it is stopped, a client whose connection ended, or never began, connects
\* to a reachable server again, whatever failed or closed before, unless the
\* owner closes once more or the sockets above leaked.
Reconnects ==
  pc["worker"] \in {"close", "fail", "sleep"} /\ ~stop_flag /\ supported ~>
    pc["worker"] = "connected" \/ pc["owner"] = "close"
    \/ stop_flag \/ restarted \/ raced
=============================================================================
