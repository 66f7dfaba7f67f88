--------------------------- MODULE SocketsProofs ---------------------------
(***************************************************************************)
(* What the servers and the UDP classes promise of their sockets, for any  *)
(* number of descriptors, handlers and clients.  The components share only *)
(* the table, so each invariant is proved in two parts: the component's    *)
(* own steps keep it, and a step that leaves the component's variables and *)
(* opens nothing in its name ("Unharmed") keeps it too.                    *)
(***************************************************************************)
EXTENDS Sockets, WellFoundedInduction, TLAPS

Kinds == {"free", "other", "client", "listener", "udp"}
TableTyped == table \in [Fds -> Kinds]

-----------------------------------------------------------------------------
\* The server.  accepted names an open connection from accept() to the start of
\* its handler, and is in the list from push_back on; quit() walks the list and
\* closes the listener with the accept thread joined.
ServerFits ==
  /\ acceptor \in {"none", "check", "accept", "push", "spawn", "ended"}
  /\ IF acceptor \in {"push", "spawn"} THEN accepted \in Fds ELSE accepted = NoFd
  /\ acceptor = "spawn" => accepted \in Listed
  /\ owner = "close" => acceptor = "none"
  /\ owner = "idle" /\ ~is_running => \A f \in Fds \ abandoned : table[f] # "listener"
  /\ client_sockets \in Seq(Fds)

\* A connection that has been accepted is not served before its handler starts.
Serves(h, f) == handler[h] # "none" /\ served[h] = f
HandlersFit ==
  /\ handler \in [Handlers -> {"none", "check", "recv", "blocked", "close"}]
  /\ served \in [Handlers -> Fds \cup {NoFd}]
  /\ ~interfered /\ ~strayed =>
       /\ \A h \in Handlers : handler[h] # "none" => served[h] \in Fds
       /\ acceptor \in {"push", "spawn"} =>
            /\ table[accepted] = "client"
            /\ \A h \in Handlers : ~Serves(h, accepted)

ServerInv == ServerForgetsNoSocket /\ HandlersOwnTheirSockets /\ ServerFits /\ HandlersFit

\* What the steps of other components do to the server: they may close its
\* sockets through a stale number, and then have strayed.
ServerUnharmed ==
  /\ UNCHANGED tcpVars
  /\ \A f \in Fds : table'[f] \in {"client", "listener"} => table'[f] = table[f]
  /\ ~strayed' => ~strayed /\ \A f \in Fds : table[f] = "client" => table'[f] = "client"

-----------------------------------------------------------------------------
\* The UDP classes.  From start() to the close in quit() the receiver's socket is
\* its own, and not the sender's.
ReceiverRuns == running \/ quitting \in {"join", "close"}
UdpFits ==
  /\ quitting \in {"idle", "join", "close"}
  /\ receiver \in {"none", "check", "recvfrom", "ended"}
  /\ running => quitting = "idle"
  /\ ~strayed /\ ~unseated /\ ReceiverRuns => Udp!Mine(receiver_socket) /\ receiver_socket # socket_fd

UdpInv == Udp!UdpForgetsNoSocket /\ Udp!UdpSocketsAreTheirOwn /\ UdpFits

UdpUnharmed ==
  /\ UNCHANGED udpVars
  /\ \A f \in Fds : table'[f] = "udp" => table[f] = "udp"
  /\ ~strayed' => ~strayed /\ \A f \in Fds : table[f] = "udp" => table'[f] = "udp"

Inv == TableTyped /\ ServerInv /\ UdpInv

-----------------------------------------------------------------------------
(***************************************************************************)
(* The descriptor table.                                                   *)
(***************************************************************************)
\* The order of the naturals, as a relation.
LessThan == {p \in Nat \X Nat : p[1] < p[2]}

\* The naturals have no endless descent.
LEMMA NatIsWellFounded == IsWellFoundedOn(LessThan, Nat)
<1>1. OpToRel(<, Nat) = LessThan
  BY DEF OpToRel, LessThan
<1> QED
  BY <1>1, NatLessThanWellFounded

\* The lowest number of a set belongs to it.
LEMMA MinBelongs == ASSUME NEW S \in SUBSET Nat, S # {} PROVE Min(S) \in S
<1>1. \E x \in S : \A y \in S : ~ (<<y, x>> \in LessThan)
  BY NatIsWellFounded, WFMin
<1>2. ASSUME NEW x \in S, NEW y \in S, ~ (<<y, x>> \in LessThan) PROVE x =< y
  BY <1>2 DEF LessThan
<1> QED
  BY <1>1, <1>2 DEF Min

\* A number is handed out that names nothing, and only its entry changes.
OpenedAt(d, kind) ==
  /\ d \in Fds /\ table[d] = "free" /\ table'[d] = kind
  /\ \A f \in Fds : f # d => table'[f] = table[f]

\* Opening takes the lowest free descriptor and leaves the others.
LEMMA OpensOne ==
  ASSUME TableTyped, NEW kind \in Kinds, Opens(kind)
  PROVE  OpenedAt(NextFd, kind) /\ TableTyped'
<1>1. FreeFds \in SUBSET Nat
  BY DEF FreeFds, Fds
<1>2. NextFd \in FreeFds /\ table' = [table EXCEPT ![NextFd] = kind]
  BY <1>1, MinBelongs DEF Opens, NextFd
<1>3. NextFd \in Fds /\ table[NextFd] = "free"
  BY <1>2 DEF FreeFds
<1> HIDE DEF NextFd
<1> QED
  BY <1>2, <1>3 DEF OpenedAt, TableTyped

\* The entry of the number is free afterwards, whoever had it.
ClosedAt(f) ==
  /\ \A d \in Fds : d # f => table'[d] = table[d]
  /\ f \in Fds => table'[f] = "free"

\* Closing frees one descriptor, and strays if it was another component's.
LEMMA ClosesOne ==
  ASSUME TableTyped, NEW f, NEW kind, Closes(f, kind)
  PROVE  /\ ClosedAt(f) /\ TableTyped'
         /\ ~strayed' => ~strayed /\ (f \in Fds => table[f] \in {"free", kind})
  BY DEF Closes, ClosedAt, Stray, TableTyped, Kinds

-----------------------------------------------------------------------------
(***************************************************************************)
(* The server's own steps.                                                 *)
(***************************************************************************)
\* An accepted connection is added to the list of clients.
LEMMA AcceptedIsListed ==
  ASSUME NEW c \in Fds, client_sockets \in Seq(Fds), client_sockets' = Append(client_sockets, c)
  PROVE  client_sockets' \in Seq(Fds) /\ Listed' = Listed \cup {c}
<1>1. /\ client_sockets' \in Seq(Fds) /\ Len(client_sockets') = Len(client_sockets) + 1
      /\ \A i \in 1..Len(client_sockets) : client_sockets'[i] = client_sockets[i]
      /\ client_sockets'[Len(client_sockets) + 1] = c
  OBVIOUS
<1>2. Len(client_sockets) \in Nat
  OBVIOUS
<1>3. DOMAIN client_sockets = 1..Len(client_sockets) /\ DOMAIN client_sockets' = 1..Len(client_sockets')
  BY <1>1
<1> QED
  BY <1>1, <1>2, <1>3 DEF Listed

\* quit() takes the clients off the list one by one.
LEMMA HeadIsUnlisted ==
  ASSUME client_sockets \in Seq(Fds), client_sockets # <<>>, client_sockets' = Tail(client_sockets)
  PROVE  /\ client_sockets' \in Seq(Fds) /\ Head(client_sockets) \in Fds
         /\ Listed = Listed' \cup {Head(client_sockets)}
<1>1. /\ client_sockets' \in Seq(Fds) /\ Len(client_sockets') = Len(client_sockets) - 1
      /\ \A i \in 1..Len(client_sockets') : client_sockets'[i] = client_sockets[i + 1]
      /\ Head(client_sockets) = client_sockets[1] /\ Head(client_sockets) \in Fds
  OBVIOUS
<1>2. Len(client_sockets) \in Nat \ {0}
  OBVIOUS
<1>3. DOMAIN client_sockets = 1..Len(client_sockets) /\ DOMAIN client_sockets' = 1..Len(client_sockets')
  BY <1>1
<1> HIDE DEF Fds
<1>4. ASSUME NEW f \in Listed PROVE f \in Listed' \/ f = Head(client_sockets)
  <2>1. PICK i \in 1..Len(client_sockets) : client_sockets[i] = f
    BY <1>3 DEF Listed
  <2>2. CASE i = 1
    BY <1>1, <2>1, <2>2
  <2>3. CASE i # 1
    <3>1. i - 1 \in 1..Len(client_sockets') /\ client_sockets'[i - 1] = client_sockets[i]
      BY <1>1, <1>2, <2>3
    <3> QED
      BY <1>3, <2>1, <3>1 DEF Listed
  <2> QED
    BY <2>2, <2>3
<1>5. ASSUME NEW i \in 1..Len(client_sockets') PROVE client_sockets'[i] \in Listed
  BY <1>1, <1>2, <1>3 DEF Listed
<1>6. Head(client_sockets) \in Listed
  BY <1>1, <1>2, <1>3 DEF Listed
<1>7. Listed' \subseteq Listed
  BY <1>3, <1>5 DEF Listed
<1> QED
  BY <1>1, <1>4, <1>6, <1>7

\* No step of the server forgets a socket.
LEMMA ServerForgetsNothing ==
  TableTyped /\ ServerFits /\ ServerForgetsNoSocket /\ NextTcp =>
    TableTyped' /\ ServerFits' /\ ServerForgetsNoSocket'
<1> SUFFICES ASSUME TableTyped, ServerFits, ServerForgetsNoSocket, NextTcp
             PROVE  TableTyped' /\ ServerFits' /\ ServerForgetsNoSocket'
  OBVIOUS
<1> USE DEF ServerFits, ServerForgetsNoSocket
<1>1. CASE StartCannotBind
  BY <1>1 DEF StartCannotBind, MayStart, Replaced, Listed, TableTyped
<1>2. CASE StartCannotListen
  BY <1>2 DEF StartCannotListen, MayStart, Replaced, Listed, TableTyped
<1>3. CASE Start
  <2>1. OpenedAt(NextFd, "listener") /\ TableTyped' /\ server_socket' = NextFd
    BY <1>3, OpensOne DEF Start, Kinds
  <2>2. /\ Listed' = Listed /\ owner = "idle" /\ acceptor = "none"
        /\ is_running' = TRUE /\ acceptor' \in {"check", "none"}
        /\ abandoned' = (abandoned \cup Replaced) \ {NextFd}
        /\ UNCHANGED <<client_sockets, owner, accepted>>
    BY <1>3 DEF Start, MayStart, Listed
  <2> HIDE DEF NextFd
  <2>3. ASSUME NEW f \in Fds \ abandoned', table'[f] = "listener" PROVE f = server_socket'
    BY <2>1, <2>2, <2>3 DEF OpenedAt, Replaced
  <2>4. ASSUME NEW f \in Fds, table'[f] = "client" PROVE f \in Listed' \cup {accepted'}
    BY <2>1, <2>2, <2>4 DEF OpenedAt
  <2> QED
    BY <2>1, <2>2, <2>3, <2>4
<1>4. CASE Send
  BY <1>4 DEF Send, tcpVars, Listed, TableTyped
<1>5. ASSUME NEW f \in Fds, CloseClient(f) PROVE TableTyped' /\ ServerFits' /\ ServerForgetsNoSocket'
  <2>1. ClosedAt(f) /\ TableTyped'
    BY <1>5, ClosesOne DEF CloseClient
  <2>2. Listed' = Listed
    BY <1>5 DEF CloseClient, Listed
  <2> QED
    BY <1>5, <2>1, <2>2 DEF CloseClient, ClosedAt
<1>6. CASE QuitFlag
  BY <1>6 DEF QuitFlag, Listed, TableTyped
<1>7. CASE QuitJoin
  BY <1>7 DEF QuitJoin, Listed, TableTyped
<1>8. CASE QuitClosesClient
  <2>1. ClosedAt(Head(client_sockets)) /\ TableTyped'
    BY <1>8, ClosesOne DEF QuitClosesClient
  <2>2. /\ client_sockets' \in Seq(Fds) /\ Head(client_sockets) \in Fds
        /\ Listed = Listed' \cup {Head(client_sockets)}
    BY <1>8, HeadIsUnlisted DEF QuitClosesClient
  <2> QED
    BY <1>8, <2>1, <2>2 DEF QuitClosesClient, ClosedAt
<1>9. CASE QuitClosesListener
  <2>1. ClosedAt(server_socket) /\ TableTyped'
    BY <1>9, ClosesOne DEF QuitClosesListener
  <2>2. Listed' = Listed
    BY <1>9 DEF QuitClosesListener, Listed
  <2> QED
    BY <1>9, <2>1, <2>2 DEF QuitClosesListener, ClosedAt
<1>10. CASE AcceptCheck
  BY <1>10 DEF AcceptCheck, Listed, TableTyped
<1>11. CASE AcceptReturns
  <2>1. OpenedAt(NextFd, "client") /\ TableTyped' /\ accepted' = NextFd
    BY <1>11, OpensOne DEF AcceptReturns, Kinds
  <2>2. Listed' = Listed
    BY <1>11 DEF AcceptReturns, Listed
  <2> HIDE DEF NextFd
  <2> QED
    BY <1>11, <2>1, <2>2 DEF AcceptReturns, OpenedAt, NoFd, Fds
<1>12. CASE AcceptFails
  BY <1>12 DEF AcceptFails, Listed, TableTyped
<1>13. CASE AcceptPushes
  <2>1. client_sockets' \in Seq(Fds) /\ Listed' = Listed \cup {accepted}
    BY <1>13, AcceptedIsListed DEF AcceptPushes
  <2> QED
    BY <1>13, <2>1 DEF AcceptPushes, TableTyped
<1>14. ASSUME NEW h \in Handlers, AcceptSpawns(h)
       PROVE  TableTyped' /\ ServerFits' /\ ServerForgetsNoSocket'
  BY <1>14 DEF AcceptSpawns, Listed, TableTyped
<1>15. ASSUME NEW h \in Handlers, Handles(h)
       PROVE  TableTyped' /\ ServerFits' /\ ServerForgetsNoSocket'
  <2>1. CASE HandlerCheck(h) \/ HandlerReceives(h) \/ HandlerReturns(h)
    BY <2>1 DEF HandlerCheck, HandlerReceives, HandlerReturns, HandlerTo, Listed, TableTyped
  <2>2. CASE HandlerCloses(h)
    <3>1. ClosedAt(served[h]) /\ TableTyped'
      BY <2>2, ClosesOne DEF HandlerCloses
    <3>2. UNCHANGED <<is_running, server_socket, client_sockets, owner, acceptor, accepted, abandoned>>
          /\ Listed' = Listed
      BY <2>2 DEF HandlerCloses, HandlerTo, Listed
    <3> QED
      BY <3>1, <3>2 DEF ClosedAt
  <2> QED
    BY <1>15, <2>1, <2>2 DEF Handles
<1> QED
  BY <1>1, <1>2, <1>3, <1>4, <1>5, <1>6, <1>7, <1>8, <1>9, <1>10, <1>11, <1>12, <1>13, <1>14, <1>15
  DEF NextTcp, Quits, Accepts

\* While nobody interferes, a handler's connection is closed by the handler only.
HandlersInv == HandlersFit /\ HandlersOwnTheirSockets

\* No step of the server takes a handler's connection from it.
LEMMA HandlersKeepTheirSockets ==
  TableTyped /\ ServerFits /\ HandlersInv /\ NextTcp => HandlersInv'
<1> SUFFICES ASSUME TableTyped, ServerFits, HandlersInv, NextTcp PROVE HandlersInv'
  OBVIOUS
<1> USE DEF HandlersInv, HandlersFit, HandlersOwnTheirSockets, Serves, Alive
<1>1. CASE StartCannotBind
  BY <1>1 DEF StartCannotBind
<1>2. CASE StartCannotListen
  BY <1>2 DEF StartCannotListen
<1>3. CASE Start
  <2>1. /\ OpenedAt(NextFd, "listener") /\ acceptor = "none"
        /\ acceptor' \in {"check", "none"}
        /\ UNCHANGED <<strayed, accepted, handler, served, interfered>>
    BY <1>3, OpensOne DEF Start, Kinds
  <2> HIDE DEF NextFd
  <2> QED
    BY <2>1 DEF OpenedAt
<1>4. CASE Send
  BY <1>4 DEF Send, tcpVars
<1>5. ASSUME NEW f \in Fds, CloseClient(f) PROVE HandlersInv'
  BY <1>5 DEF CloseClient
<1>6. CASE QuitFlag
  BY <1>6 DEF QuitFlag
<1>7. CASE QuitJoin
  BY <1>7 DEF QuitJoin
<1>8. CASE QuitClosesClient
  <2>1. ClosedAt(Head(client_sockets)) /\ (~strayed' => ~strayed)
    BY <1>8, ClosesOne DEF QuitClosesClient
  <2>2. acceptor = "none" /\ UNCHANGED <<acceptor, accepted, handler, served>>
    BY <1>8 DEF QuitClosesClient, ServerFits
  <2>3. ~interfered' => ~interfered /\ \A h \in Alive : served[h] # Head(client_sockets)
    BY <1>8 DEF QuitClosesClient
  <2> QED
    BY <2>1, <2>2, <2>3 DEF ClosedAt
<1>9. CASE QuitClosesListener
  <2>1. ClosedAt(server_socket)
        /\ (~strayed' => ~strayed /\ (server_socket \in Fds => table[server_socket] \in {"free", "listener"}))
    BY <1>9, ClosesOne DEF QuitClosesListener
  <2>2. UNCHANGED <<acceptor, accepted, handler, served, interfered>>
    BY <1>9 DEF QuitClosesListener
  <2> QED
    BY <2>1, <2>2 DEF ClosedAt, ServerFits
<1>10. CASE AcceptCheck
  BY <1>10 DEF AcceptCheck
<1>11. CASE AcceptReturns
  <2>1. OpenedAt(NextFd, "client") /\ accepted' = NextFd /\ acceptor' = "push"
    BY <1>11, OpensOne DEF AcceptReturns, Kinds
  <2>2. UNCHANGED <<handler, served, interfered, strayed>>
    BY <1>11 DEF AcceptReturns
  <2> HIDE DEF NextFd
  <2> QED
    BY <2>1, <2>2 DEF OpenedAt
<1>12. CASE AcceptFails
  BY <1>12 DEF AcceptFails
<1>13. CASE AcceptPushes
  BY <1>13 DEF AcceptPushes
<1>14. ASSUME NEW h \in Handlers \ Alive, AcceptSpawns(h) PROVE HandlersInv'
  <2>1. /\ handler' = [handler EXCEPT ![h] = "check"] /\ served' = [served EXCEPT ![h] = accepted]
        /\ acceptor = "spawn" /\ acceptor' = "check" /\ accepted \in Fds
        /\ UNCHANGED <<table, strayed, interfered>>
    BY <1>14 DEF AcceptSpawns, ServerFits
  <2>2. HandlersFit'
    BY <2>1
  <2>3. HandlersOwnTheirSockets'
    BY <2>1
  <2> QED
    BY <2>2, <2>3
<1>15. ASSUME NEW h \in Handlers, HandlerCheck(h) \/ HandlerReceives(h) \/ HandlerReturns(h)
       PROVE  HandlersInv'
  <2> DEFINE States == {"none", "check", "recv", "blocked", "close"}
  <2>1. PICK state \in States : HandlerTo(h, state)
    <3>1. CASE HandlerCheck(h)
      <4>1. (IF is_running THEN "recv" ELSE "none") \in States
        OBVIOUS
      <4> QED
        BY <3>1, <4>1 DEF HandlerCheck
    <3>2. CASE HandlerReceives(h)
      <4>1. (IF table[served[h]] \in {"free", "listener"} THEN "close" ELSE "blocked") \in States
        OBVIOUS
      <4> QED
        BY <3>2, <4>1 DEF HandlerReceives
    <3>3. CASE HandlerReturns(h)
      <4>1. "check" \in States /\ "close" \in States
        OBVIOUS
      <4> QED
        BY <3>3, <4>1 DEF HandlerReturns
    <3> QED
      BY <1>15, <3>1, <3>2, <3>3
  <2>2. handler[h] # "none" /\ UNCHANGED <<table, interfered>> /\ (~strayed' => ~strayed)
    <3>1. CASE HandlerCheck(h)
      BY <3>1 DEF HandlerCheck
    <3>2. CASE HandlerReceives(h)
      BY <3>2 DEF HandlerReceives
    <3>3. CASE HandlerReturns(h)
      BY <3>3 DEF HandlerReturns
    <3> QED
      BY <1>15, <3>1, <3>2, <3>3
  <2>3. HandlersFit'
    BY <2>1, <2>2 DEF HandlerTo
  <2>4. HandlersOwnTheirSockets'
    BY <2>1, <2>2 DEF HandlerTo
  <2> QED
    BY <2>3, <2>4
<1>16. ASSUME NEW h \in Handlers, HandlerCloses(h) PROVE HandlersInv'
  <2>1. ClosedAt(served[h]) /\ (~strayed' => ~strayed)
    BY <1>16, ClosesOne DEF HandlerCloses
  <2>2. /\ handler[h] = "close" /\ handler' = [handler EXCEPT ![h] = "none"]
        /\ served' = [served EXCEPT ![h] = NoFd]
        /\ UNCHANGED <<acceptor, accepted>>
        /\ ~interfered' => ~interfered /\ \A g \in Alive \ {h} : served[g] # served[h]
    BY <1>16 DEF HandlerCloses, HandlerTo
  <2>3. HandlersFit'
    BY <2>1, <2>2 DEF ClosedAt, ServerFits
  <2>4. HandlersOwnTheirSockets'
    BY <2>1, <2>2 DEF ClosedAt
  <2> QED
    BY <2>3, <2>4
<1> QED
  BY <1>1, <1>2, <1>3, <1>4, <1>5, <1>6, <1>7, <1>8, <1>9, <1>10, <1>11, <1>12, <1>13, <1>14, <1>15, <1>16
  DEF NextTcp, Quits, Accepts, Handles

\* A step that opens no socket for the server leaves it as it was.
LEMMA ServerStaysUnharmed ==
  ServerInv /\ ServerUnharmed => ServerInv'
<1> SUFFICES ASSUME ServerInv, ServerUnharmed PROVE ServerInv'
  OBVIOUS
<1>1. UNCHANGED <<is_running, server_socket, client_sockets, owner, acceptor, accepted, handler,
                  served, interfered, abandoned, Listed, Alive>>
  BY DEF ServerUnharmed, tcpVars, Listed, Alive
<1>2. ServerForgetsNoSocket' /\ ServerFits'
  BY <1>1 DEF ServerInv, ServerUnharmed, ServerForgetsNoSocket, ServerFits
<1>3. HandlersFit' /\ HandlersOwnTheirSockets'
  BY <1>1 DEF ServerInv, ServerUnharmed, ServerFits, HandlersFit, HandlersOwnTheirSockets, Serves, Alive
<1> QED
  BY <1>2, <1>3 DEF ServerInv

-----------------------------------------------------------------------------
(***************************************************************************)
(* The steps of the UDP classes.                                           *)
(***************************************************************************)
\* The UDP classes and the server see one descriptor table.
LEMMA SameDescriptors ==
  /\ Udp!Fds = Fds /\ Udp!NoFd = NoFd /\ Udp!FreeFds = FreeFds /\ Udp!NextFd = NextFd
  /\ NoFd \notin Fds
BY DEF Udp!Fds, Fds, Udp!NoFd, NoFd, Udp!FreeFds, FreeFds, Udp!NextFd, NextFd, Udp!Min, Min

\* What OpensOne and ClosesOne say holds of the UDP classes, which open
LEMMA UdpOpensOne ==
  ASSUME TableTyped, Udp!Opens("udp")
  PROVE  OpenedAt(Udp!NextFd, "udp") /\ TableTyped'
<1>1. Opens("udp")
  BY SameDescriptors DEF Udp!Opens, Opens
<1> QED
  BY <1>1, OpensOne, SameDescriptors DEF Kinds

\* and close.
LEMMA UdpClosesOne ==
  ASSUME TableTyped, NEW f, Udp!Closes(f, "udp")
  PROVE  /\ ClosedAt(f) /\ TableTyped'
         /\ ~strayed' => ~strayed /\ (f \in Fds => table[f] \in {"free", "udp"})
<1>1. Closes(f, "udp")
  BY SameDescriptors DEF Udp!Closes, Udp!Stray, Closes, Stray
<1> QED
  BY <1>1, ClosesOne

\* What the UDP steps promise together.
UdpKept == TableTyped' /\ UdpInv'

\* No step of the UDP classes forgets a socket or uses another's.
LEMMA UdpStepsKeepTheirSockets ==
  TableTyped /\ UdpInv /\ Udp!NextUdp => UdpKept
<1> SUFFICES ASSUME TableTyped, UdpInv, Udp!NextUdp PROVE UdpKept
  OBVIOUS
<1> USE SameDescriptors DEF UdpKept, UdpInv, UdpFits, ReceiverRuns, Udp!Mine,
        Udp!UdpForgetsNoSocket, Udp!UdpSocketsAreTheirOwn, Udp!Replaced, Udp!Recreated
<1>1. CASE Udp!StartWithoutSocket
  BY <1>1 DEF Udp!StartWithoutSocket, TableTyped
<1>2. CASE Udp!StartWithoutOption
  <2>1. OpenedAt(Udp!NextFd, "udp") /\ TableTyped'
    BY <1>2, UdpOpensOne DEF Udp!StartWithoutOption
  <2>2. /\ quitting = "idle" /\ receiver_socket' = Udp!NextFd
        /\ unheld' = IF running THEN (unheld \cup Udp!Replaced) \ {Udp!NextFd}
                                ELSE unheld \cup {Udp!NextFd}
        /\ UNCHANGED <<strayed, running, receiver, quitting, socket_fd, unseated>>
    BY <1>2 DEF Udp!StartWithoutOption
  <2>3. Udp!UdpForgetsNoSocket'
    BY <2>1, <2>2 DEF OpenedAt
  <2>4. ~strayed' /\ ~unseated' =>
          /\ ReceiverRuns' => Udp!Mine(receiver_socket)' /\ (receiver_socket # socket_fd)'
          /\ socket_fd' # NoFd => Udp!Mine(socket_fd)'
    BY <2>1, <2>2 DEF OpenedAt
  <2> QED
    BY <2>1, <2>2, <2>3, <2>4
<1>3. CASE Udp!StartUnbound
  BY <1>3 DEF Udp!StartUnbound, TableTyped
<1>4. CASE Udp!Start
  <2>1. OpenedAt(Udp!NextFd, "udp") /\ TableTyped'
    BY <1>4, UdpOpensOne DEF Udp!Start
  <2>2. /\ quitting = "idle" /\ receiver' \in {"check", "none"} /\ running' = TRUE
        /\ receiver_socket' = Udp!NextFd
        /\ unheld' = (unheld \cup Udp!Replaced) \ {Udp!NextFd}
        /\ UNCHANGED <<strayed, quitting, socket_fd, unseated>>
    BY <1>4 DEF Udp!Start
  <2>3. Udp!UdpForgetsNoSocket'
    BY <2>1, <2>2 DEF OpenedAt
  <2>4. ~strayed' /\ ~unseated' =>
          /\ Udp!Mine(receiver_socket)' /\ (receiver_socket # socket_fd)'
          /\ socket_fd' # NoFd => Udp!Mine(socket_fd)'
    BY <2>1, <2>2 DEF OpenedAt
  <2> QED
    BY <2>1, <2>2, <2>3, <2>4
<1>5. CASE Udp!ReceiverCheck
  BY <1>5 DEF Udp!ReceiverCheck, Udp!ReceiverTo, TableTyped
<1>6. CASE Udp!ReceiverReturns
  BY <1>6 DEF Udp!ReceiverReturns, Udp!ReceiverTo, TableTyped
<1>7. CASE Udp!QuitFlag
  BY <1>7 DEF Udp!QuitFlag, TableTyped
<1>8. CASE Udp!QuitJoin
  BY <1>8 DEF Udp!QuitJoin, TableTyped
<1>9. CASE Udp!QuitCloses
  BY <1>9, UdpClosesOne DEF Udp!QuitCloses, ClosedAt
<1>10. CASE Udp!Create
  <2>1. UNCHANGED <<strayed, running, receiver_socket, receiver, quitting, unseated>>
    BY <1>10 DEF Udp!Create
  <2>2. CASE /\ OpenedAt(Udp!NextFd, "udp") /\ TableTyped' /\ socket_fd' = Udp!NextFd
             /\ unheld' = (unheld \cup Udp!Recreated) \ {Udp!NextFd}
    <3>1. Udp!UdpForgetsNoSocket'
      BY <2>1, <2>2 DEF OpenedAt
    <3>2. ~strayed' /\ ~unseated' =>
            /\ ReceiverRuns' => Udp!Mine(receiver_socket)' /\ (receiver_socket # socket_fd)'
            /\ Udp!Mine(socket_fd)'
      BY <2>1, <2>2 DEF OpenedAt
    <3> QED
      BY <2>1, <2>2, <3>1, <3>2
  <2>3. CASE UNCHANGED table /\ socket_fd' = NoFd /\ unheld' = unheld \cup Udp!Recreated
    BY <2>1, <2>3 DEF TableTyped
  <2> QED
    BY <1>10, <2>2, <2>3, UdpOpensOne DEF Udp!Create
<1>11. CASE Udp!SendData
  BY <1>11 DEF Udp!SendData, Udp!udpVars, TableTyped
<1>12. CASE Udp!Stop
  <2>1. /\ ClosedAt(socket_fd) /\ TableTyped' /\ (~strayed' => ~strayed)
        /\ socket_fd' = NoFd
        /\ UNCHANGED <<running, receiver_socket, receiver, quitting, unheld, unseated>>
    BY <1>12, UdpClosesOne DEF Udp!Stop
  <2>2. Udp!UdpForgetsNoSocket'
    BY <2>1 DEF ClosedAt
  <2>3. ReceiverRuns' /\ ~strayed' /\ ~unseated' => Udp!Mine(receiver_socket)' /\ (receiver_socket # socket_fd)'
    BY <2>1 DEF ClosedAt
  <2> QED
    BY <2>1, <2>2, <2>3
<1> QED
  BY <1>1, <1>2, <1>3, <1>4, <1>5, <1>6, <1>7, <1>8, <1>9, <1>10, <1>11, <1>12
  DEF Udp!NextUdp, Udp!Receives, Udp!Quits

\* A step that opens no socket for the UDP classes leaves them as they were.
LEMMA UdpStaysUnharmed ==
  UdpInv /\ UdpUnharmed => UdpInv'
BY SameDescriptors DEF UdpInv, UdpUnharmed, udpVars, UdpFits, ReceiverRuns, Udp!Mine,
   Udp!UdpForgetsNoSocket, Udp!UdpSocketsAreTheirOwn

-----------------------------------------------------------------------------
(***************************************************************************)
(* A step of one component leaves the others unharmed, or has strayed.     *)
(***************************************************************************)
\* A step of the server leaves the UDP sockets alone, or has strayed.
LEMMA ServerSparesUdp ==
  TableTyped /\ ServerFits /\ NextTcp /\ UNCHANGED udpVars => UdpUnharmed
<1> SUFFICES ASSUME TableTyped, ServerFits, NextTcp, UNCHANGED udpVars PROVE UdpUnharmed
  OBVIOUS
<1>1. CASE UNCHANGED table /\ (~strayed' => ~strayed)
  BY <1>1 DEF UdpUnharmed
<1>2. CASE \E kind \in {"listener", "client"} : Opens(kind) /\ UNCHANGED strayed
  BY <1>2, OpensOne DEF OpenedAt, UdpUnharmed, Kinds
<1>3. CASE \E f, kind : kind \in {"listener", "client"} /\ Closes(f, kind)
  BY <1>3, ClosesOne DEF ClosedAt, UdpUnharmed
<1>4. CASE StartCannotBind \/ StartCannotListen \/ Start \/ Send
  BY <1>1, <1>2, <1>4 DEF StartCannotBind, StartCannotListen, Start, Send
<1>5. CASE \E f \in Fds : CloseClient(f)
  BY <1>3, <1>5 DEF CloseClient
<1>6. CASE Quits
  BY <1>1, <1>3, <1>6 DEF Quits, QuitFlag, QuitJoin, QuitClosesClient, QuitClosesListener
<1>7. CASE Accepts
  BY <1>1, <1>2, <1>7
  DEF Accepts, AcceptCheck, AcceptReturns, AcceptFails, AcceptPushes, AcceptSpawns
<1>8. ASSUME NEW h \in Handlers, Handles(h) PROVE UdpUnharmed
  BY <1>1, <1>3, <1>8 DEF Handles, HandlerCheck, HandlerReceives, HandlerReturns, HandlerCloses
<1> QED
  BY <1>4, <1>5, <1>6, <1>7, <1>8 DEF NextTcp

\* A step of the UDP classes leaves the server's sockets alone, or has strayed.
LEMMA UdpSparesServer ==
  TableTyped /\ Udp!NextUdp /\ UNCHANGED tcpVars => ServerUnharmed
<1> SUFFICES ASSUME TableTyped, Udp!NextUdp, UNCHANGED tcpVars PROVE ServerUnharmed
  OBVIOUS
<1>1. CASE UNCHANGED table /\ (~strayed' => ~strayed)
  BY <1>1 DEF ServerUnharmed
<1>2. CASE Udp!Opens("udp") /\ UNCHANGED strayed
  BY <1>2, UdpOpensOne DEF OpenedAt, ServerUnharmed
<1>3. CASE \E f : Udp!Closes(f, "udp")
  BY <1>3, UdpClosesOne DEF ClosedAt, ServerUnharmed
<1>4. CASE Udp!StartWithoutSocket \/ Udp!StartWithoutOption \/ Udp!StartUnbound \/ Udp!Start
  BY <1>1, <1>2, <1>4
  DEF Udp!StartWithoutSocket, Udp!StartWithoutOption, Udp!StartUnbound, Udp!Start
<1>5. CASE Udp!Receives \/ Udp!Quits
  BY <1>1, <1>3, <1>5 DEF Udp!Receives, Udp!ReceiverCheck, Udp!ReceiverReturns, Udp!ReceiverTo,
     Udp!Quits, Udp!QuitFlag, Udp!QuitJoin, Udp!QuitCloses
<1>6. CASE Udp!Create \/ Udp!SendData \/ Udp!Stop
  BY <1>1, <1>2, <1>3, <1>6 DEF Udp!Create, Udp!SendData, Udp!Stop
<1> QED
  BY <1>4, <1>5, <1>6 DEF Udp!NextUdp

\* What another component opens and closes is never theirs.
LEMMA OtherSparesBoth ==
  TableTyped /\ (OtherOpens \/ OtherCloses) => TableTyped' /\ ServerUnharmed /\ UdpUnharmed
<1> SUFFICES ASSUME TableTyped, OtherOpens \/ OtherCloses
             PROVE  TableTyped' /\ ServerUnharmed /\ UdpUnharmed
  OBVIOUS
<1>1. CASE OtherOpens
  BY <1>1, OpensOne DEF OtherOpens, Kinds, OpenedAt, ServerUnharmed, UdpUnharmed
<1>2. CASE OtherCloses
  BY <1>2 DEF OtherCloses, TableTyped, Kinds, ServerUnharmed, UdpUnharmed
<1> QED
  BY <1>1, <1>2

-----------------------------------------------------------------------------
(***************************************************************************)
(* The process.                                                            *)
(***************************************************************************)
\* Before any call nothing is open and nothing is owned.
LEMMA InitInv == Init => Inv
<1> SUFFICES ASSUME Init PROVE Inv
  OBVIOUS
<1>1. TableTyped /\ (\A f \in Fds : table[f] = "free")
  BY DEF Init, InitTable, TableTyped, Kinds
<1>2. ServerInv
  BY <1>1 DEF Init, InitTcp, ServerInv, ServerForgetsNoSocket, HandlersOwnTheirSockets, ServerFits,
     HandlersFit, Alive
<1>3. UdpInv
  BY <1>1, SameDescriptors DEF Init, Udp!InitUdp, UdpInv, UdpFits, ReceiverRuns,
     Udp!UdpForgetsNoSocket, Udp!UdpSocketsAreTheirOwn
<1> QED
  BY <1>1, <1>2, <1>3 DEF Inv

\* Every step of the process keeps the invariant.
LEMMA StepInv == Inv /\ [Next]_vars => Inv'
<1> SUFFICES ASSUME Inv, [Next]_vars PROVE Inv'
  OBVIOUS
<1> USE DEF Inv
<1>1. CASE NextTcp /\ UNCHANGED udpVars
  <2>1. TableTyped' /\ ServerInv'
    BY <1>1, ServerForgetsNothing, HandlersKeepTheirSockets DEF ServerInv, HandlersInv
  <2>2. UdpInv'
    BY <1>1, ServerSparesUdp, UdpStaysUnharmed DEF ServerInv
  <2> QED
    BY <2>1, <2>2
<1>2. CASE Udp!NextUdp /\ UNCHANGED tcpVars
  <2>1. TableTyped' /\ UdpInv'
    BY <1>2, UdpStepsKeepTheirSockets DEF UdpKept
  <2>2. ServerInv'
    BY <1>2, UdpSparesServer, ServerStaysUnharmed
  <2> QED
    BY <2>1, <2>2
<1>3. CASE OtherOpens \/ OtherCloses
  BY <1>3, OtherSparesBoth, ServerStaysUnharmed, UdpStaysUnharmed
<1>4. CASE UNCHANGED vars
  <2>1. TableTyped' /\ ServerUnharmed /\ UdpUnharmed
    BY <1>4 DEF vars, TableTyped, ServerUnharmed, UdpUnharmed
  <2> QED
    BY <2>1, ServerStaysUnharmed, UdpStaysUnharmed
<1> QED
  BY <1>1, <1>2, <1>3, <1>4 DEF Next

\* What the steps of the process keep, whatever the bounds: the sockets below
\* rest on it.
THEOREM SocketsInv == Spec => []Inv
BY InitInv, StepInv, PTL DEF Spec

\* Whatever start(), quit(), create() and stop() of the servers and UDP classes
\* come to, with any number of descriptors, handlers and connections and whatever
\* stale numbers the process has used, no socket is forgotten but those that a
\* start() on a running server or receiver replaces, that a start() of a receiver
\* leaves open when an option fails, and that create() overwrites.
THEOREM NothingForgotten == Spec => []NoSocketForgotten
<1>1. Inv => NoSocketForgotten
  BY DEF Inv, ServerInv, UdpInv, NoSocketForgotten
<1> QED
  BY <1>1, SocketsInv, PTL

\* Handlers serve, the receiver reads and the sender writes sockets of their own,
\* until a connection is closed under its handler, a stale number is used or a
\* start() fails on a running receiver.
THEOREM SocketsOwned == Spec => []SocketsAreTheirOwn
<1>1. Inv => SocketsAreTheirOwn
  BY DEF Inv, ServerInv, UdpInv, SocketsAreTheirOwn
<1> QED
  BY <1>1, SocketsInv, PTL

=============================================================================
