-------------------------- MODULE TcpClientProofs --------------------------
(***************************************************************************)
(* The safety of tcp_client, for any number of descriptors.  send_mutex    *)
(* and the order of the worker's steps decide together which descriptor    *)
(* socket_fd is while either thread is between reading it and closing it.  *)
(***************************************************************************)
EXTENDS TcpClient, FiniteSetTheorems, WellFoundedInduction, TLAPS

PlacesOfOwner == {"idle", "close", "closing", "reset", "join", "send"}
PlacesOfWorker == {"none", "check", "socket", "connect", "connecting", "awaiting",
                   "connected", "fail", "failclose", "failreset", "loop", "recv", "blocked",
                   "close", "closing", "reset", "sleep", "ended"}

FlagsTyped ==
  /\ supported \in BOOLEAN /\ joinable \in BOOLEAN /\ stop_flag \in BOOLEAN
  /\ up \in BOOLEAN /\ strayed \in BOOLEAN /\ skewed \in BOOLEAN
  /\ failed \in BOOLEAN /\ early \in BOOLEAN /\ late \in BOOLEAN
  /\ raced \in BOOLEAN /\ restarted \in BOOLEAN

PlacesTyped ==
  /\ pc \in [Actors -> PlacesOfOwner \cup PlacesOfWorker]
  /\ pc["owner"] \in PlacesOfOwner /\ pc["worker"] \in PlacesOfWorker

FdsTyped ==
  /\ socket_fd \in 0..MaxFd
  /\ lock \in Actors \cup {"none"}
  /\ table \in [Fds -> {"free", "client", "other"}]
  /\ reg \in [Actors -> 0..MaxFd]

Typed == FlagsTyped /\ PlacesTyped /\ FdsTyped

\* Who is between the descriptor it read and its use holds send_mutex, the
\* worker's unprotected close after a failed connect excepted.
LockFits ==
  /\ lock = "owner" <=> pc["owner"] \in {"closing", "reset", "send"}
  /\ lock = "worker" <=> pc["worker"] \in {"closing", "reset"}
  /\ ~joinable => pc["worker"] = "none"

\* Before the first such close, whoever uses a descriptor uses the client's.
UsesItsOwn ==
  /\ pc["worker"] = "failreset" => failed
  /\ strayed => failed
  /\ ~failed =>
       /\ \A a \in Actors : pc[a] \in {"closing", "send"} => table[reg[a]] = "client"
       /\ socket_fd # NoFd /\ pc["owner"] # "reset" /\ pc["worker"] # "reset" =>
            table[socket_fd] = "client"

\* Unless a socket was overwritten by start() or reset under the owner's close,
\* the only socket is socket_fd, and there is none where one is created.
Sound == ~restarted /\ ~raced

SocketIsKnown ==
  Sound =>
    /\ \A f \in Fds : table[f] = "client" => f = socket_fd
    /\ \A a \in Actors : pc[a] \in {"closing", "reset"} => socket_fd = reg[a] /\ reg[a] # NoFd
    /\ \A a \in Actors : pc[a] = "reset" => table[reg[a]] # "client"
    /\ pc["worker"] = "failclose" => socket_fd \in {NoFd, reg["worker"]}
    /\ pc["worker"] = "failreset" => \A f \in Fds : table[f] # "client"
    /\ pc["worker"] = "socket" => socket_fd = NoFd
    /\ pc["worker"] \in {"check", "sleep"} /\ ~stop_flag => socket_fd = NoFd

\* stop() leaves no socket: it joins the worker with the socket closed.
ClosedByStop ==
  Sound /\ ~late /\ stop_flag =>
    /\ pc["owner"] # "send"
    /\ pc["owner"] \in {"idle", "join"} => socket_fd = NoFd

\* on_connect is owed exactly while a socket is being connected.
UpFits ==
  ~early /\ ~restarted =>
    /\ ~raced /\ ~skewed
    /\ up <=> socket_fd # NoFd /\ ~Unconnected
    /\ pc["worker"] \in {"connect", "connecting", "awaiting", "connected"} => socket_fd # NoFd
    /\ pc["owner"] \in {"closing", "reset"} => ~Unconnected

Inv == Typed /\ LockFits /\ UsesItsOwn /\ SocketIsKnown /\ ClosedByStop /\ UpFits

-----------------------------------------------------------------------------
LessThan == {p \in Nat \X Nat : p[1] < p[2]}

LEMMA NatIsWellFounded == IsWellFoundedOn(LessThan, Nat)
<1>1. OpToRel(<, Nat) = LessThan
  BY DEF OpToRel, LessThan
<1> QED
  BY <1>1, NatLessThanWellFounded

LEMMA MinBelongs == ASSUME NEW S \in SUBSET Nat, S # {} PROVE Min(S) \in S
<1>1. \E x \in S : \A y \in S : ~ (<<y, x>> \in LessThan)
  BY NatIsWellFounded, WFMin
<1>2. \E x \in S : \A y \in S : x =< y
  <2>1. ASSUME NEW x \in S, NEW y \in S, ~ (<<y, x>> \in LessThan) PROVE x =< y
    <3>1. x \in Nat /\ y \in Nat /\ <<y, x>> \in Nat \X Nat
      OBVIOUS
    <3> QED
      BY <2>1, <3>1 DEF LessThan
  <2> QED
    BY <1>1, <2>1
<1> QED
  BY <1>2 DEF Min

\* The system hands out a descriptor that is free.
LEMMA LowestIsFree == ASSUME FreeFds # {} PROVE Min(FreeFds) \in FreeFds
  BY MinBelongs, MaxFdAssumption DEF FreeFds, Fds

\* Leaving a descriptor free, one can still be had.
LEMMA SomeAreFree == ASSUME Cardinality(FreeFds) > 1 PROVE FreeFds # {}
  BY FS_EmptySet

LEMMA InitInv == Init => Inv
<1> SUFFICES ASSUME Init PROVE Inv
  OBVIOUS
<1>1. pc["owner"] = "idle" /\ pc["worker"] = "none" /\ \A a \in Actors : pc[a] \in {"idle", "none"}
  BY DEF Init, Actors
<1>2. Typed
  <2>1. pc \in [Actors -> PlacesOfOwner \cup PlacesOfWorker]
    BY <1>1 DEF Init, PlacesOfOwner, PlacesOfWorker
  <2>2. reg \in [Actors -> 0..MaxFd] /\ socket_fd \in 0..MaxFd
    BY MaxFdAssumption DEF Init, NoFd
  <2>3. table \in [Fds -> {"free", "client", "other"}]
    BY DEF Init
  <2> QED
    BY <1>1, <2>1, <2>2, <2>3 DEF Init, Typed, FlagsTyped, PlacesTyped, FdsTyped, PlacesOfOwner, PlacesOfWorker
<1>3. LockFits /\ UsesItsOwn /\ ClosedByStop /\ UpFits
  BY <1>1 DEF Init, LockFits, UsesItsOwn, ClosedByStop, UpFits, Unconnected
<1>4. SocketIsKnown
  BY <1>1 DEF Init, SocketIsKnown
<1> QED
  BY <1>2, <1>3, <1>4 DEF Inv

\* What each step does to the types.
LEMMA TypedStep == Typed /\ Next => Typed'
<1> SUFFICES ASSUME Typed, Next PROVE Typed'
  OBVIOUS
<1> USE MaxFdAssumption DEF Goto, settings, marks, verdicts, Actors, Fds, NoFd,
        Typed, FlagsTyped, PlacesTyped, FdsTyped, PlacesOfOwner, PlacesOfWorker
<1>1. ASSUME NEW a \in Actors, CloseConnection(a) PROVE Typed'
  <2>1. CASE CloseTest(a)
    <3>1. CASE a = "owner"
      <4>1. pc' \in [Actors -> PlacesOfOwner \cup PlacesOfWorker]
            /\ pc'["owner"] \in PlacesOfOwner /\ pc'["worker"] \in PlacesOfWorker
        BY <2>1, <3>1 DEF CloseTest, AfterClose
      <4>2. reg' \in [Actors -> 0..MaxFd] /\ lock' \in Actors \cup {"none"}
        BY <2>1 DEF CloseTest, Read
      <4>3. early' \in BOOLEAN
        BY <2>1 DEF CloseTest
      <4> QED
        BY <2>1, <4>1, <4>2, <4>3 DEF CloseTest
    <3>2. CASE a = "worker"
      <4>1. pc' \in [Actors -> PlacesOfOwner \cup PlacesOfWorker]
            /\ pc'["owner"] \in PlacesOfOwner /\ pc'["worker"] \in PlacesOfWorker
        BY <2>1, <3>2 DEF CloseTest, AfterClose
      <4>2. reg' \in [Actors -> 0..MaxFd] /\ lock' \in Actors \cup {"none"}
        BY <2>1 DEF CloseTest, Read
      <4>3. early' \in BOOLEAN
        BY <2>1 DEF CloseTest
      <4> QED
        BY <2>1, <4>1, <4>2, <4>3 DEF CloseTest
    <3> QED
      BY <3>1, <3>2
  <2>2. CASE CloseCall(a)
    BY <2>2 DEF CloseCall, CloseFd, Foreign
  <2>3. CASE CloseReset(a)
    <3>1. PlacesTyped'
      BY <2>3 DEF CloseReset, AfterClose
    <3>2. FdsTyped'
      BY <2>3 DEF CloseReset
    <3>3. FlagsTyped'
      BY <2>3 DEF CloseReset
    <3> HIDE DEF FlagsTyped, PlacesTyped, FdsTyped
    <3> QED
      BY <3>1, <3>2, <3>3
  <2> QED
    BY <1>1, <2>1, <2>2, <2>3 DEF CloseConnection
<1>2. CASE Start
  <2>1. PlacesTyped'
    BY <1>2 DEF Start
  <2>2. FdsTyped'
    BY <1>2 DEF Start
  <2>3. FlagsTyped'
    BY <1>2 DEF Start
  <2> HIDE DEF FlagsTyped, PlacesTyped, FdsTyped
  <2> QED
    BY <2>1, <2>2, <2>3
<1>3. CASE StopFlag
  BY <1>3 DEF StopFlag
<1>4. CASE StopJoin
  <2>1. PlacesTyped'
    BY <1>4 DEF StopJoin
  <2>2. FdsTyped'
    BY <1>4 DEF StopJoin
  <2>3. FlagsTyped'
    BY <1>4 DEF StopJoin
  <2> HIDE DEF FlagsTyped, PlacesTyped, FdsTyped
  <2> QED
    BY <2>1, <2>2, <2>3
<1>5. CASE OwnerCloses
  BY <1>5 DEF OwnerCloses
<1>6. CASE SendRead
  BY <1>6 DEF SendRead, Read
<1>7. CASE SendCall
  BY <1>7 DEF SendCall, Foreign
<1>8. CASE WorkerCheck
  BY <1>8 DEF WorkerCheck
<1>9. CASE WorkerCreates
  BY <1>9, LowestIsFree DEF WorkerCreates, FreeFds
<1>10. CASE WorkerCannotCreate
  BY <1>10 DEF WorkerCannotCreate
<1>11. CASE WorkerConnects
  BY <1>11 DEF WorkerConnects, Read
<1>12. CASE ConnectEnters \/ ConnectSucceeds
  BY <1>12 DEF ConnectEnters, ConnectSucceeds
<1>13. CASE ConnectFails
  BY <1>13 DEF ConnectFails
<1>14. CASE OnConnect
  BY <1>14 DEF OnConnect
<1>15. CASE FailRead
  BY <1>15 DEF FailRead, Read
<1>16. CASE FailClose
  BY <1>16 DEF FailClose, CloseFd, Foreign
<1>17. CASE FailReset
  BY <1>17 DEF FailReset
<1>18. CASE WorkerWakes
  BY <1>18 DEF WorkerWakes
<1>19. CASE ReceiveCheck
  BY <1>19 DEF ReceiveCheck, Read
<1>20. CASE ReceiveEnters
  BY <1>20 DEF ReceiveEnters
<1>21. CASE ReceiveReturns
  BY <1>21 DEF ReceiveReturns
<1>22. CASE OtherOpens
  BY <1>22, LowestIsFree, SomeAreFree DEF OtherOpens, FreeFds
<1>23. CASE OtherCloses
  BY <1>23 DEF OtherCloses, Foreign
<1> QED
  BY <1>1, <1>2, <1>3, <1>4, <1>5, <1>6, <1>7, <1>8, <1>9, <1>10, <1>11, <1>12,
     <1>13, <1>14, <1>15, <1>16, <1>17, <1>18, <1>19, <1>20, <1>21, <1>22, <1>23
  DEF Next, Owner, OwnerGoesOn, Worker, WorkerGoesOn

\* What each step does to send_mutex.
LEMMA LockStep == Typed /\ LockFits /\ Next => LockFits'
<1> SUFFICES ASSUME Typed, LockFits, Next PROVE LockFits'
  OBVIOUS
<1> USE MaxFdAssumption DEF Goto, settings, marks, verdicts, Actors, Fds, NoFd,
        Typed, FlagsTyped, PlacesTyped, FdsTyped, LockFits
<1>1. ASSUME NEW a \in Actors, CloseConnection(a) PROVE LockFits'
  <2>1. CASE CloseTest(a)
    BY <2>1 DEF CloseTest, AfterClose, Read, Unconnected
  <2>2. CASE CloseCall(a)
    BY <2>2 DEF CloseCall, CloseFd, Foreign
  <2>3. CASE CloseReset(a)
    BY <2>3 DEF CloseReset, AfterClose
  <2> QED
    BY <1>1, <2>1, <2>2, <2>3 DEF CloseConnection
<1>2. CASE Start
  BY <1>2 DEF Start
<1>3. CASE StopFlag
  BY <1>3 DEF StopFlag
<1>4. CASE StopJoin
  BY <1>4 DEF StopJoin
<1>5. CASE OwnerCloses
  BY <1>5 DEF OwnerCloses
<1>6. CASE SendRead
  BY <1>6 DEF SendRead, Read
<1>7. CASE SendCall
  BY <1>7 DEF SendCall, Foreign
<1>8. CASE WorkerCheck
  BY <1>8 DEF WorkerCheck
<1>9. CASE WorkerCreates
  BY <1>9, LowestIsFree DEF WorkerCreates, FreeFds
<1>10. CASE WorkerCannotCreate
  BY <1>10 DEF WorkerCannotCreate
<1>11. CASE WorkerConnects
  BY <1>11 DEF WorkerConnects, Read
<1>12. CASE ConnectEnters \/ ConnectSucceeds
  BY <1>12 DEF ConnectEnters, ConnectSucceeds
<1>13. CASE ConnectFails
  BY <1>13 DEF ConnectFails
<1>14. CASE OnConnect
  BY <1>14 DEF OnConnect
<1>15. CASE FailRead
  BY <1>15 DEF FailRead, Read
<1>16. CASE FailClose
  BY <1>16 DEF FailClose, CloseFd, Foreign
<1>17. CASE FailReset
  BY <1>17 DEF FailReset
<1>18. CASE WorkerWakes
  BY <1>18 DEF WorkerWakes
<1>19. CASE ReceiveCheck
  BY <1>19 DEF ReceiveCheck, Read
<1>20. CASE ReceiveEnters
  BY <1>20 DEF ReceiveEnters
<1>21. CASE ReceiveReturns
  BY <1>21 DEF ReceiveReturns
<1>22. CASE OtherOpens
  BY <1>22, LowestIsFree, SomeAreFree DEF OtherOpens, FreeFds
<1>23. CASE OtherCloses
  BY <1>23 DEF OtherCloses, Foreign
<1> QED
  BY <1>1, <1>2, <1>3, <1>4, <1>5, <1>6, <1>7, <1>8, <1>9, <1>10, <1>11, <1>12,
     <1>13, <1>14, <1>15, <1>16, <1>17, <1>18, <1>19, <1>20, <1>21, <1>22, <1>23
  DEF Next, Owner, OwnerGoesOn, Worker, WorkerGoesOn

\* What each step does to the descriptors that are about to be used.
LEMMA UsesItsOwnStep == Typed /\ LockFits /\ UsesItsOwn /\ Next => UsesItsOwn'
<1> SUFFICES ASSUME Typed, LockFits, UsesItsOwn, Next PROVE UsesItsOwn'
  OBVIOUS
<1> USE MaxFdAssumption DEF Goto, settings, marks, verdicts, Actors, Fds, NoFd,
        Typed, FlagsTyped, PlacesTyped, FdsTyped, LockFits, UsesItsOwn
<1>1. ASSUME NEW a \in Actors, CloseConnection(a) PROVE UsesItsOwn'
  <2>1. CASE CloseTest(a)
    BY <2>1 DEF CloseTest, AfterClose, Read, Unconnected
  <2>2. CASE CloseCall(a)
    <3>1. failed' = failed /\ pc' = [pc EXCEPT ![a] = "reset"] 
          /\ reg' = reg /\ socket_fd' = socket_fd
      BY <2>2 DEF CloseCall
    <3>2. strayed' => failed'
      <4>1. (strayed' => strayed \/ Foreign(reg[a])) /\ pc[a] = "closing"
        BY <2>2 DEF CloseCall, CloseFd
      <4>2. Foreign(reg[a]) => failed
        BY <4>1 DEF Foreign
      <4>3. strayed => failed
        OBVIOUS
      <4> QED
        BY <3>1, <4>1, <4>2, <4>3, Zenon
    <3>3. \A b \in Actors : pc'[b] \notin {"closing", "send"}
      BY <2>2, <3>1 DEF CloseCall, PlacesOfOwner, PlacesOfWorker
    <3>4. pc'["owner"] = "reset" \/ pc'["worker"] = "reset"
      BY <3>1
    <3>5. pc'["worker"] = "failreset" => failed'
      BY <3>1
    <3> QED
      BY <3>2, <3>3, <3>4, <3>5
  <2>3. CASE CloseReset(a)
    BY <2>3 DEF CloseReset, AfterClose
  <2> QED
    BY <1>1, <2>1, <2>2, <2>3 DEF CloseConnection
<1>2. CASE Start
  BY <1>2 DEF Start
<1>3. CASE StopFlag
  BY <1>3 DEF StopFlag
<1>4. CASE StopJoin
  BY <1>4 DEF StopJoin
<1>5. CASE OwnerCloses
  BY <1>5 DEF OwnerCloses
<1>6. CASE SendRead
  BY <1>6 DEF SendRead, Read
<1>7. CASE SendCall
  BY <1>7 DEF SendCall, Foreign
<1>8. CASE WorkerCheck
  BY <1>8 DEF WorkerCheck
<1>9. CASE WorkerCreates
  BY <1>9, LowestIsFree DEF WorkerCreates, FreeFds
<1>10. CASE WorkerCannotCreate
  BY <1>10 DEF WorkerCannotCreate
<1>11. CASE WorkerConnects
  BY <1>11 DEF WorkerConnects, Read
<1>12. CASE ConnectEnters \/ ConnectSucceeds
  BY <1>12 DEF ConnectEnters, ConnectSucceeds
<1>13. CASE ConnectFails
  BY <1>13 DEF ConnectFails
<1>14. CASE OnConnect
  BY <1>14 DEF OnConnect
<1>15. CASE FailRead
  BY <1>15 DEF FailRead, Read
<1>16. CASE FailClose
  BY <1>16 DEF FailClose, CloseFd, Foreign
<1>17. CASE FailReset
  BY <1>17 DEF FailReset
<1>18. CASE WorkerWakes
  BY <1>18 DEF WorkerWakes
<1>19. CASE ReceiveCheck
  BY <1>19 DEF ReceiveCheck, Read
<1>20. CASE ReceiveEnters
  BY <1>20 DEF ReceiveEnters
<1>21. CASE ReceiveReturns
  BY <1>21 DEF ReceiveReturns
<1>22. CASE OtherOpens
  BY <1>22, LowestIsFree, SomeAreFree DEF OtherOpens, FreeFds
<1>23. CASE OtherCloses
  BY <1>23 DEF OtherCloses, Foreign
<1> QED
  BY <1>1, <1>2, <1>3, <1>4, <1>5, <1>6, <1>7, <1>8, <1>9, <1>10, <1>11, <1>12,
     <1>13, <1>14, <1>15, <1>16, <1>17, <1>18, <1>19, <1>20, <1>21, <1>22, <1>23
  DEF Next, Owner, OwnerGoesOn, Worker, WorkerGoesOn

\* What each step does to the client's sockets.
LEMMA SocketIsKnownStep == Typed /\ LockFits /\ SocketIsKnown /\ Next => SocketIsKnown'
<1> SUFFICES ASSUME Typed, LockFits, SocketIsKnown, Next PROVE SocketIsKnown'
  OBVIOUS
<1> USE MaxFdAssumption DEF Goto, settings, marks, verdicts, Actors, Fds, NoFd,
        Typed, FlagsTyped, PlacesTyped, FdsTyped, LockFits, SocketIsKnown, Sound
<1>1. ASSUME NEW a \in Actors, CloseConnection(a) PROVE SocketIsKnown'
  <2>1. CASE CloseTest(a)
    BY <2>1 DEF CloseTest, AfterClose, Read, Unconnected
  <2>2. CASE CloseCall(a)
    BY <2>2 DEF CloseCall, CloseFd, Foreign
  <2>3. CASE CloseReset(a)
    BY <2>3 DEF CloseReset, AfterClose
  <2> QED
    BY <1>1, <2>1, <2>2, <2>3 DEF CloseConnection
<1>2. CASE Start
  BY <1>2 DEF Start
<1>3. CASE StopFlag
  BY <1>3 DEF StopFlag
<1>4. CASE StopJoin
  BY <1>4 DEF StopJoin
<1>5. CASE OwnerCloses
  BY <1>5 DEF OwnerCloses
<1>6. CASE SendRead
  BY <1>6 DEF SendRead, Read
<1>7. CASE SendCall
  BY <1>7 DEF SendCall, Foreign
<1>8. CASE WorkerCheck
  BY <1>8 DEF WorkerCheck
<1>9. CASE WorkerCreates
  BY <1>9, LowestIsFree DEF WorkerCreates, FreeFds
<1>10. CASE WorkerCannotCreate
  BY <1>10 DEF WorkerCannotCreate
<1>11. CASE WorkerConnects
  BY <1>11 DEF WorkerConnects, Read
<1>12. CASE ConnectEnters \/ ConnectSucceeds
  BY <1>12 DEF ConnectEnters, ConnectSucceeds
<1>13. CASE ConnectFails
  BY <1>13 DEF ConnectFails
<1>14. CASE OnConnect
  BY <1>14 DEF OnConnect
<1>15. CASE FailRead
  BY <1>15 DEF FailRead, Read
<1>16. CASE FailClose
  BY <1>16 DEF FailClose, CloseFd, Foreign
<1>17. CASE FailReset
  BY <1>17 DEF FailReset
<1>18. CASE WorkerWakes
  BY <1>18 DEF WorkerWakes
<1>19. CASE ReceiveCheck
  BY <1>19 DEF ReceiveCheck, Read
<1>20. CASE ReceiveEnters
  BY <1>20 DEF ReceiveEnters
<1>21. CASE ReceiveReturns
  BY <1>21 DEF ReceiveReturns
<1>22. CASE OtherOpens
  BY <1>22, LowestIsFree, SomeAreFree DEF OtherOpens, FreeFds
<1>23. CASE OtherCloses
  BY <1>23 DEF OtherCloses, Foreign
<1> QED
  BY <1>1, <1>2, <1>3, <1>4, <1>5, <1>6, <1>7, <1>8, <1>9, <1>10, <1>11, <1>12,
     <1>13, <1>14, <1>15, <1>16, <1>17, <1>18, <1>19, <1>20, <1>21, <1>22, <1>23
  DEF Next, Owner, OwnerGoesOn, Worker, WorkerGoesOn

\* What each step does to the socket of a stopped client.
LEMMA ClosedByStopStep ==
  Typed /\ LockFits /\ SocketIsKnown /\ ClosedByStop /\ Next => ClosedByStop'
<1> SUFFICES ASSUME Typed, LockFits, SocketIsKnown, ClosedByStop, Next PROVE ClosedByStop'
  OBVIOUS
<1> USE MaxFdAssumption DEF Goto, settings, marks, verdicts, Actors, Fds, NoFd,
        Typed, FlagsTyped, PlacesTyped, FdsTyped, LockFits, SocketIsKnown, ClosedByStop, Sound
<1>1. ASSUME NEW a \in Actors, CloseConnection(a) PROVE ClosedByStop'
  <2>1. CASE CloseTest(a)
    BY <2>1 DEF CloseTest, AfterClose, Read, Unconnected
  <2>2. CASE CloseCall(a)
    BY <2>2 DEF CloseCall, CloseFd, Foreign
  <2>3. CASE CloseReset(a)
    BY <2>3 DEF CloseReset, AfterClose
  <2> QED
    BY <1>1, <2>1, <2>2, <2>3 DEF CloseConnection
<1>2. CASE Start
  BY <1>2 DEF Start
<1>3. CASE StopFlag
  BY <1>3 DEF StopFlag
<1>4. CASE StopJoin
  BY <1>4 DEF StopJoin
<1>5. CASE OwnerCloses
  BY <1>5 DEF OwnerCloses
<1>6. CASE SendRead
  BY <1>6 DEF SendRead, Read
<1>7. CASE SendCall
  BY <1>7 DEF SendCall, Foreign
<1>8. CASE WorkerCheck
  BY <1>8 DEF WorkerCheck
<1>9. CASE WorkerCreates
  BY <1>9, LowestIsFree DEF WorkerCreates, FreeFds
<1>10. CASE WorkerCannotCreate
  BY <1>10 DEF WorkerCannotCreate
<1>11. CASE WorkerConnects
  BY <1>11 DEF WorkerConnects, Read
<1>12. CASE ConnectEnters \/ ConnectSucceeds
  BY <1>12 DEF ConnectEnters, ConnectSucceeds
<1>13. CASE ConnectFails
  BY <1>13 DEF ConnectFails
<1>14. CASE OnConnect
  BY <1>14 DEF OnConnect
<1>15. CASE FailRead
  BY <1>15 DEF FailRead, Read
<1>16. CASE FailClose
  BY <1>16 DEF FailClose, CloseFd, Foreign
<1>17. CASE FailReset
  BY <1>17 DEF FailReset
<1>18. CASE WorkerWakes
  BY <1>18 DEF WorkerWakes
<1>19. CASE ReceiveCheck
  BY <1>19 DEF ReceiveCheck, Read
<1>20. CASE ReceiveEnters
  BY <1>20 DEF ReceiveEnters
<1>21. CASE ReceiveReturns
  BY <1>21 DEF ReceiveReturns
<1>22. CASE OtherOpens
  BY <1>22, LowestIsFree, SomeAreFree DEF OtherOpens, FreeFds
<1>23. CASE OtherCloses
  BY <1>23 DEF OtherCloses, Foreign
<1> QED
  BY <1>1, <1>2, <1>3, <1>4, <1>5, <1>6, <1>7, <1>8, <1>9, <1>10, <1>11, <1>12,
     <1>13, <1>14, <1>15, <1>16, <1>17, <1>18, <1>19, <1>20, <1>21, <1>22, <1>23
  DEF Next, Owner, OwnerGoesOn, Worker, WorkerGoesOn

\* What each step does to the callbacks.
LEMMA UpFitsStep == Typed /\ LockFits /\ SocketIsKnown /\ UpFits /\ Next => UpFits'
<1> SUFFICES ASSUME Typed, LockFits, SocketIsKnown, UpFits, Next PROVE UpFits'
  OBVIOUS
<1> USE MaxFdAssumption DEF Goto, settings, marks, verdicts, Actors, Fds, NoFd,
        Typed, FlagsTyped, PlacesTyped, FdsTyped, LockFits, SocketIsKnown, UpFits, Unconnected, Sound
<1>1. ASSUME NEW a \in Actors, CloseConnection(a) PROVE UpFits'
  <2>1. CASE CloseTest(a)
    BY <2>1 DEF CloseTest, AfterClose, Read
  <2>2. CASE CloseCall(a)
    BY <2>2 DEF CloseCall, CloseFd, Foreign
  <2>3. CASE CloseReset(a)
    BY <2>3 DEF CloseReset, AfterClose
  <2> QED
    BY <1>1, <2>1, <2>2, <2>3 DEF CloseConnection
<1>2. CASE Start
  BY <1>2 DEF Start
<1>3. CASE StopFlag
  BY <1>3 DEF StopFlag
<1>4. CASE StopJoin
  BY <1>4 DEF StopJoin
<1>5. CASE OwnerCloses
  BY <1>5 DEF OwnerCloses
<1>6. CASE SendRead
  BY <1>6 DEF SendRead, Read
<1>7. CASE SendCall
  BY <1>7 DEF SendCall, Foreign
<1>8. CASE WorkerCheck
  BY <1>8 DEF WorkerCheck
<1>9. CASE WorkerCreates
  BY <1>9, LowestIsFree DEF WorkerCreates, FreeFds
<1>10. CASE WorkerCannotCreate
  BY <1>10 DEF WorkerCannotCreate
<1>11. CASE WorkerConnects
  BY <1>11 DEF WorkerConnects, Read
<1>12. CASE ConnectEnters \/ ConnectSucceeds
  BY <1>12 DEF ConnectEnters, ConnectSucceeds
<1>13. CASE ConnectFails
  BY <1>13 DEF ConnectFails
<1>14. CASE OnConnect
  BY <1>14 DEF OnConnect
<1>15. CASE FailRead
  BY <1>15 DEF FailRead, Read
<1>16. CASE FailClose
  BY <1>16 DEF FailClose, CloseFd, Foreign
<1>17. CASE FailReset
  BY <1>17 DEF FailReset
<1>18. CASE WorkerWakes
  BY <1>18 DEF WorkerWakes
<1>19. CASE ReceiveCheck
  BY <1>19 DEF ReceiveCheck, Read
<1>20. CASE ReceiveEnters
  BY <1>20 DEF ReceiveEnters
<1>21. CASE ReceiveReturns
  BY <1>21 DEF ReceiveReturns
<1>22. CASE OtherOpens
  BY <1>22, LowestIsFree, SomeAreFree DEF OtherOpens, FreeFds
<1>23. CASE OtherCloses
  BY <1>23 DEF OtherCloses, Foreign
<1> QED
  BY <1>1, <1>2, <1>3, <1>4, <1>5, <1>6, <1>7, <1>8, <1>9, <1>10, <1>11, <1>12,
     <1>13, <1>14, <1>15, <1>16, <1>17, <1>18, <1>19, <1>20, <1>21, <1>22, <1>23
  DEF Next, Owner, OwnerGoesOn, Worker, WorkerGoesOn

LEMMA StepInv == Inv /\ [Next]_vars => Inv'
<1>1. ASSUME Inv, Next PROVE Inv'
  BY <1>1, TypedStep, LockStep, UsesItsOwnStep, SocketIsKnownStep, ClosedByStopStep, UpFitsStep
  DEF Inv
<1>2. ASSUME Inv, UNCHANGED vars PROVE Inv'
  BY <1>2
  DEF Inv, Typed, FlagsTyped, PlacesTyped, FdsTyped, LockFits, UsesItsOwn, SocketIsKnown, Sound, ClosedByStop, UpFits, Unconnected,
      vars, settings, marks, verdicts
<1> QED
  BY <1>1, <1>2

LEMMA Invariance == Spec => []Inv
<1> QED
  BY InitInv, StepInv, PTL DEF Spec

-----------------------------------------------------------------------------
\* Descriptors of others are closed or written only after a connect that failed
\* closed its socket without the mutex.
THEOREM StraysNeedFailure == Spec => []StraysOnlyAfterFailure
<1>1. Inv => StraysOnlyAfterFailure
  BY DEF Inv, UsesItsOwn, StraysOnlyAfterFailure
<1> QED
  BY <1>1, Invariance, PTL

\* The client never owns a descriptor that is not in socket_fd, unless start()
\* overwrote one or a failed connect reset the owner's.
THEOREM NothingLeaks == Spec => []NoLeak
<1>1. Inv => NoLeak
  BY DEF Inv, SocketIsKnown, Sound, NoLeak
<1> QED
  BY <1>1, Invariance, PTL

\* A stopped client has no socket, unless one was created after the flag was set.
THEOREM StopCloses == Spec => []ClosedAfterStop
<1>1. Inv => ClosedAfterStop
  BY DEF Inv, Typed, FlagsTyped, PlacesTyped, FdsTyped, SocketIsKnown, ClosedByStop, Sound, ClosedAfterStop, Stopped, NoFd, Fds
<1> QED
  BY <1>1, Invariance, PTL

\* on_connect and on_close take turns, unless the owner closed a socket before it
\* was connected, or start() found one.
THEOREM CallbacksTakeTurns == Spec => []CallbacksAlternate
<1>1. Inv => CallbacksAlternate
  BY DEF Inv, Typed, FlagsTyped, PlacesTyped, FdsTyped, UpFits, CallbacksAlternate
<1> QED
  BY <1>1, Invariance, PTL
=============================================================================
