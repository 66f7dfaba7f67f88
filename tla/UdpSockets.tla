---------------------------- MODULE UdpSockets -----------------------------
(***************************************************************************)
(* j2::network::udp: a udp_receiver, whose thread waits in recvfrom(), and *)
(* a udp_sender, which has no thread.  One owner calls both.               *)
(***************************************************************************)
EXTENDS Descriptors

VARIABLES
  running, receiver_socket,
  receiver,      \* where receiver_thread is; it is joinable unless "none"
  quitting,      \* where the owner is in quit(), or "idle"
  socket_fd,     \* the sender's socket
  unheld,        \* history: open sockets that no later call can close
  unseated       \* history: a start() took a running receiver's socket and failed

udpVars == <<running, receiver_socket, receiver, quitting, socket_fd, unheld, unseated>>

Mine(f) == f \in Fds /\ table[f] = "udp"

InitUdp ==
  /\ running = FALSE /\ receiver_socket = NoFd
  /\ receiver = "none" /\ quitting = "idle"
  /\ socket_fd = NoFd /\ unheld = {} /\ unseated = FALSE

(***************************************************************************)
(* startUnicast, startMulticast and startBroadcast.  They differ in the    *)
(* options they ask for; what they record of the mode is read by getters   *)
(* only.  None asks whether the receiver runs: the socket is overwritten,  *)
(* also under the thread of an earlier start.                              *)
(***************************************************************************)
Replaced == IF running /\ Mine(receiver_socket) THEN {receiver_socket} ELSE {}

StartWithoutSocket ==
  /\ quitting = "idle"
  /\ receiver_socket' = NoFd /\ unheld' = unheld \cup Replaced
  /\ unseated' = (unseated \/ running)
  /\ UNCHANGED <<table, strayed, running, receiver, quitting, socket_fd>>

\* SO_REUSEADDR (any mode), SO_BROADCAST or IP_PKTINFO (IPv4) fails: start()
\* returns without closing the socket.  quit() closes it only while running.
StartWithoutOption ==
  /\ quitting = "idle"
  /\ Opens("udp")
  /\ receiver_socket' = NextFd
  /\ unheld' = IF running THEN (unheld \cup Replaced) \ {NextFd} ELSE unheld \cup {NextFd}
  /\ UNCHANGED <<strayed, running, receiver, quitting, socket_fd, unseated>>

\* bind(), or joining the group, fails: the socket is closed, its number kept.
StartUnbound ==
  /\ quitting = "idle" /\ FreeFds # {}
  /\ receiver_socket' = NextFd /\ unheld' = unheld \cup Replaced
  /\ unseated' = (unseated \/ running)
  /\ UNCHANGED <<table, strayed, running, receiver, quitting, socket_fd>>

\* A move assignment to a thread that is joinable ends the program, so that
\* nothing follows a start() which succeeds on a running receiver.  The flag is
\* set first: a thread that cannot be made leaves it set.
Start ==
  /\ quitting = "idle" /\ receiver = "none"
  /\ Opens("udp")
  /\ receiver_socket' = NextFd /\ unheld' = (unheld \cup Replaced) \ {NextFd}
  /\ running' = TRUE /\ receiver' \in {"check", "none"}
  /\ UNCHANGED <<strayed, quitting, socket_fd, unseated>>

(***************************************************************************)
(* receiveLoop, the same for both families.                                *)
(***************************************************************************)
ReceiverTo(state) ==
  /\ receiver' = state
  /\ UNCHANGED <<table, running, receiver_socket, quitting, socket_fd,
                 unheld, unseated>>

ReceiverCheck ==
  /\ receiver = "check"
  /\ ReceiverTo(IF running THEN "recvfrom" ELSE "ended")
  /\ strayed' = (strayed \/ (running /\ Stray(receiver_socket, "udp")))

\* A datagram goes to on_receive, or recvfrom() fails and is called again.
ReceiverReturns ==
  /\ receiver = "recvfrom"
  /\ ReceiverTo("check") /\ UNCHANGED strayed

(***************************************************************************)
(* quit().                                                                 *)
(***************************************************************************)
QuitFlag ==
  /\ quitting = "idle" /\ running
  /\ running' = FALSE /\ quitting' = "join"
  /\ UNCHANGED <<table, strayed, receiver_socket, receiver, socket_fd,
                 unheld, unseated>>

QuitJoin ==
  /\ quitting = "join" /\ receiver \in {"ended", "none"}
  /\ receiver' = "none" /\ quitting' = "close"
  /\ UNCHANGED <<table, strayed, running, receiver_socket, socket_fd,
                 unheld, unseated>>

QuitCloses ==
  /\ quitting = "close"
  /\ Closes(receiver_socket, "udp")
  /\ receiver_socket' = NoFd /\ quitting' = "idle"
  /\ UNCHANGED <<running, receiver, socket_fd, unheld, unseated>>

(***************************************************************************)
(* The sender: create() with a valid address, send_data, send_data_to and  *)
(* set_multicast_ttl as uses of the socket, and stop().                    *)
(***************************************************************************)
Recreated == IF Mine(socket_fd) THEN {socket_fd} ELSE {}

Create ==
  /\ \/ Opens("udp") /\ socket_fd' = NextFd /\ unheld' = (unheld \cup Recreated) \ {NextFd}
     \/ UNCHANGED table /\ socket_fd' = NoFd /\ unheld' = unheld \cup Recreated
  /\ UNCHANGED <<strayed, running, receiver_socket, receiver, quitting, unseated>>

SendData ==
  /\ Stray(socket_fd, "udp") /\ strayed' = TRUE
  /\ UNCHANGED <<table, udpVars>>

Stop ==
  /\ socket_fd # NoFd
  /\ Closes(socket_fd, "udp")
  /\ socket_fd' = NoFd
  /\ UNCHANGED <<running, receiver_socket, receiver, quitting, unheld, unseated>>

Receives == ReceiverCheck \/ ReceiverReturns
Quits == QuitFlag \/ QuitJoin \/ QuitCloses

NextUdp ==
  \/ StartWithoutSocket \/ StartWithoutOption \/ StartUnbound \/ Start
  \/ Receives \/ Quits
  \/ Create \/ SendData \/ Stop

\* Threads run, and a datagram or an error ends a recvfrom() at last.
FairUdp ==
  /\ WF_<<table, strayed, udpVars>>(Receives)
  /\ WF_<<table, strayed, udpVars>>(Quits /\ quitting # "idle")

-----------------------------------------------------------------------------
\* Every socket the UDP classes opened and did not close is one they can still
\* close: the sender's with stop(), the receiver's with quit(), which does
\* nothing once the receiver has quit.  Three sequences of calls break it, and
\* only they: a start() that fails on an option while the receiver does not run,
\* any start() on a running receiver, and create() without stop().
UdpForgetsNoSocket ==
  \A f \in Fds \ unheld :
    table[f] = "udp" => \/ f = socket_fd
                        \/ f = receiver_socket /\ (running \/ quitting # "idle")

\* Unless a stale number was used somewhere in the process, or a start() failed
\* on a running receiver, the thread receives from, and the sender sends to, a
\* socket of theirs, and not the same one.
UdpSocketsAreTheirOwn ==
  ~strayed /\ ~unseated =>
    /\ running => Mine(receiver_socket) /\ receiver_socket # socket_fd
    /\ socket_fd # NoFd => Mine(socket_fd)
=============================================================================
