------------------------------ MODULE Sockets ------------------------------
(***************************************************************************)
(* A process with sockets: either a tcp_server or the UDP classes, beside  *)
(* another component that opens and closes a descriptor of its own.  The   *)
(* components share nothing but the numbers.                               *)
(***************************************************************************)
EXTENDS TcpServer

VARIABLES subject, running, receiver_socket, receiver, quitting, socket_fd, unheld, unseated

Udp == INSTANCE UdpSockets

udpVars == <<running, receiver_socket, receiver, quitting, socket_fd, unheld, unseated>>
vars == <<subject, table, strayed, tcpVars, udpVars>>

Init == InitTable /\ InitTcp /\ Udp!InitUdp /\ subject \in {"server", "udp"}

OtherOpens ==
  /\ \A f \in Fds : table[f] # "other"
  /\ Opens("other")
  /\ UNCHANGED <<subject, strayed, tcpVars, udpVars>>

OtherCloses ==
  /\ \E f \in Fds : table[f] = "other" /\ table' = [table EXCEPT ![f] = "free"]
  /\ UNCHANGED <<subject, strayed, tcpVars, udpVars>>

Next ==
  \/ subject = "server" /\ NextTcp /\ UNCHANGED <<subject, udpVars>>
  \/ subject = "udp" /\ Udp!NextUdp /\ UNCHANGED <<subject, tcpVars>>
  \/ OtherOpens \/ OtherCloses

Spec == Init /\ [][Next]_vars
FairSpec == Spec /\ FairTcp /\ Udp!FairUdp

-----------------------------------------------------------------------------
\* Whatever clients come and go, however often the servers are started and
\* quit and whatever fails, an open connection is in the list that quit() walks,
\* an open listener or receiver is in the member that quit() will close, even
\* when stale numbers make one component close the socket of another.  What is
\* lost is only what a start() on a running server or receiver replaces, what a
\* start() of a receiver leaves open when an option fails, and what create()
\* overwrites.
NoSocketForgotten == ServerForgetsNoSocket /\ Udp!UdpForgetsNoSocket

\* Sockets are used by those who opened them, as long as no connection was
\* closed under its handler, no stale number was used and no start() failed on
\* a running receiver.
SocketsAreTheirOwn == HandlersOwnTheirSockets /\ Udp!UdpSocketsAreTheirOwn

\* quit() returns although it joins its thread before it closes the socket the
\* thread waits on, if a connection, a datagram or an error ends that wait.
QuitReturns == (owner = "join" ~> owner = "idle") /\ (quitting = "join" ~> quitting = "idle")
=============================================================================
