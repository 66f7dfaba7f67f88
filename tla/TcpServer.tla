----------------------------- MODULE TcpServer -----------------------------
(***************************************************************************)
(* j2::network::tcp::tcp_server: an accept thread, one detached handler    *)
(* thread per connection, and an owner that starts, sends, closes and      *)
(* quits.  client_sockets is appended to by the accept thread and cleared  *)
(* by quit(); closeClient leaves the number it closes in the list.         *)
(*                                                                         *)
(* A connection stays open in the kernel while a recv() blocks on it, so a *)
(* handler may outlive the descriptor it was given, and the server.        *)
(***************************************************************************)
EXTENDS Descriptors, Sequences

CONSTANTS Handlers,     \* bound: handler threads alive at a time
          MaxClients,   \* bound: connections listed at a time
          MaxAbandoned  \* bound: listeners lost before the last start()

VARIABLES
  is_running, server_socket, client_sockets,
  owner,       \* where the owner is in quit(), or "idle"
  acceptor,    \* where server_thread is; it is joinable unless "none"
  accepted,    \* acceptLoop's client_socket
  handler,     \* each clientHandler's place in its loop
  served,      \* each clientHandler's client_socket
  interfered,  \* history: a socket was closed under the handler that serves it
  abandoned    \* history: listeners that a start() on a running server replaced

tcpVars == <<is_running, server_socket, client_sockets, owner, acceptor, accepted,
             handler, served, interfered, abandoned>>

Listed == {client_sockets[i] : i \in DOMAIN client_sockets}
Alive == {h \in Handlers : handler[h] # "none"}

InitTcp ==
  /\ is_running = FALSE /\ server_socket = NoFd /\ client_sockets = <<>>
  /\ owner = "idle" /\ acceptor = "none" /\ accepted = NoFd
  /\ handler = [h \in Handlers |-> "none"] /\ served = [h \in Handlers |-> NoFd]
  /\ interfered = FALSE /\ abandoned = {}

(***************************************************************************)
(* start().  It does not ask whether the server runs: whatever comes of    *)
(* it, server_socket is overwritten, also under the accept thread of an    *)
(* earlier start.  Addresses that cannot be bound are closed again before  *)
(* the next one is tried.                                                  *)
(***************************************************************************)
Replaced == IF is_running /\ server_socket \in Fds /\ table[server_socket] = "listener"
              THEN {server_socket} ELSE {}

MayStart == owner = "idle" /\ Cardinality(abandoned) < MaxAbandoned

StartCannotBind ==
  /\ MayStart
  /\ server_socket' = NoFd /\ abandoned' = abandoned \cup Replaced
  /\ UNCHANGED <<table, strayed, is_running, client_sockets, owner, acceptor, accepted,
                 handler, served, interfered>>

\* The socket that cannot listen is closed; its number stays in server_socket.
StartCannotListen ==
  /\ MayStart /\ FreeFds # {}
  /\ server_socket' = NextFd /\ abandoned' = abandoned \cup Replaced
  /\ UNCHANGED <<table, strayed, is_running, client_sockets, owner, acceptor, accepted,
                 handler, served, interfered>>

\* A move assignment to a thread that is joinable ends the program, so that
\* nothing follows a start() which succeeds on a running server.  The flag is
\* set first: a thread that cannot be made leaves it set.
Start ==
  /\ MayStart /\ acceptor = "none"
  /\ Opens("listener")
  /\ server_socket' = NextFd /\ abandoned' = (abandoned \cup Replaced) \ {NextFd}
  /\ is_running' = TRUE /\ acceptor' \in {"check", "none"}
  /\ UNCHANGED <<strayed, client_sockets, owner, accepted, handler, served, interfered>>

\* sendToClient and broadcastToClients: one send() under send_mutex to the
\* listed numbers the caller chose, or to all.
Send ==
  /\ owner = "idle"
  /\ \E f \in Listed : Stray(f, "client")
  /\ strayed' = TRUE
  /\ UNCHANGED <<table, tcpVars>>

\* closeClient, called by the owner with a number it got from a callback or
\* from getClientSockets.
CloseClient(f) ==
  /\ owner = "idle" /\ f \in Listed
  /\ Closes(f, "client")
  /\ interfered' = TRUE
  /\ UNCHANGED <<is_running, server_socket, client_sockets, owner, acceptor, accepted,
                 handler, served, abandoned>>

(***************************************************************************)
(* quit(), also the body of the destructor.  It takes no lock.  The        *)
(* accept thread has ended by the time the list is walked, so removing a   *)
(* number when it is closed is the same as clearing the list afterwards.   *)
(***************************************************************************)
QuitFlag ==
  /\ owner = "idle" /\ is_running
  /\ is_running' = FALSE /\ owner' = "join"
  /\ UNCHANGED <<table, strayed, server_socket, client_sockets, acceptor, accepted,
                 handler, served, interfered, abandoned>>

QuitJoin ==
  /\ owner = "join" /\ acceptor \in {"ended", "none"}
  /\ acceptor' = "none" /\ owner' = "close"
  /\ UNCHANGED <<table, strayed, is_running, server_socket, client_sockets, accepted,
                 handler, served, interfered, abandoned>>

QuitForgettingClients ==
  /\ owner = "close" /\ client_sockets # <<>>
  /\ client_sockets' = <<>>
  /\ UNCHANGED <<table, strayed, is_running, server_socket, owner, acceptor, accepted,
                 handler, served, interfered, abandoned>>

QuitClosesClient ==
  /\ owner = "close" /\ client_sockets # <<>>
  /\ Closes(Head(client_sockets), "client")
  /\ client_sockets' = Tail(client_sockets)
  /\ interfered' = (interfered \/ \E h \in Alive : served[h] = Head(client_sockets))
  /\ UNCHANGED <<is_running, server_socket, owner, acceptor, accepted, handler, served, abandoned>>

QuitClosesListener ==
  /\ owner = "close" /\ client_sockets = <<>>
  /\ Closes(server_socket, "listener")
  /\ server_socket' = NoFd /\ owner' = "idle"
  /\ UNCHANGED <<is_running, client_sockets, acceptor, accepted, handler, served, interfered, abandoned>>

-----------------------------------------------------------------------------
(***************************************************************************)
(* acceptLoop: the flag is looked at between two calls of accept() only.   *)
(* accept() of a number that names no listener fails at once.              *)
(***************************************************************************)
MayWait(f) == f \in Fds /\ table[f] \in {"listener", "other"}

AcceptCheckBlind ==
  /\ acceptor = "check" /\ acceptor' = "accept"
  /\ UNCHANGED <<table, strayed, is_running, server_socket, client_sockets, owner, accepted,
                 handler, served, interfered, abandoned>>

AcceptCheck ==
  /\ acceptor = "check"
  /\ IF is_running
       THEN /\ acceptor' \in IF MayWait(server_socket) THEN {"accept", "check"} ELSE {"check"}
            /\ strayed' = (strayed \/ Stray(server_socket, "listener"))
       ELSE acceptor' = "ended" /\ UNCHANGED strayed
  /\ UNCHANGED <<table, is_running, server_socket, client_sockets, owner, accepted,
                 handler, served, interfered, abandoned>>

AcceptReturns ==
  /\ acceptor = "accept" /\ Len(client_sockets) < MaxClients
  /\ Opens("client")
  /\ accepted' = NextFd /\ acceptor' = "push"
  /\ UNCHANGED <<strayed, is_running, server_socket, client_sockets, owner, handler, served,
                 interfered, abandoned>>

AcceptFails ==
  /\ acceptor = "accept" /\ acceptor' = "check"
  /\ UNCHANGED <<table, strayed, is_running, server_socket, client_sockets, owner, accepted,
                 handler, served, interfered, abandoned>>

AcceptPushes ==
  /\ acceptor = "push"
  /\ client_sockets' = Append(client_sockets, accepted) /\ acceptor' = "spawn"
  /\ UNCHANGED <<table, strayed, is_running, server_socket, owner, accepted, handler, served,
                 interfered, abandoned>>

\* on_connect, then a detached handler.
AcceptSpawns(h) ==
  /\ acceptor = "spawn" /\ h = Min(Handlers \ Alive)
  /\ handler' = [handler EXCEPT ![h] = "check"]
  /\ served' = [served EXCEPT ![h] = accepted]
  /\ acceptor' = "check" /\ accepted' = NoFd
  /\ UNCHANGED <<table, strayed, is_running, server_socket, client_sockets, owner, interfered, abandoned>>

-----------------------------------------------------------------------------
(***************************************************************************)
(* clientHandler.  It ends without closing its socket when the flag falls. *)
(***************************************************************************)
HandlerTo(h, state) ==
  /\ handler' = [handler EXCEPT ![h] = state]
  /\ served' = [served EXCEPT ![h] = IF state = "none" THEN NoFd ELSE @]
  /\ UNCHANGED <<is_running, server_socket, client_sockets, owner, acceptor, accepted, abandoned>>

HandlerCheck(h) ==
  /\ handler[h] = "check"
  /\ HandlerTo(h, IF is_running THEN "recv" ELSE "none")
  /\ UNCHANGED <<table, strayed, interfered, abandoned>>

\* recv() of a closed number, or of a listener, fails at once.
HandlerReceives(h) ==
  /\ handler[h] = "recv"
  /\ HandlerTo(h, IF table[served[h]] \in {"free", "listener"} THEN "close" ELSE "blocked")
  /\ strayed' = (strayed \/ Stray(served[h], "client"))
  /\ UNCHANGED <<table, interfered, abandoned>>

\* Data arrives and goes to on_receive, or the connection ends.
HandlerReturns(h) ==
  /\ handler[h] = "blocked"
  /\ HandlerTo(h, "check") \/ HandlerTo(h, "close")
  /\ UNCHANGED <<table, strayed, interfered, abandoned>>

HandlerClosesAndGoesOn(h) ==
  /\ handler[h] = "close"
  /\ Closes(served[h], "client")
  /\ HandlerTo(h, "check")
  /\ UNCHANGED interfered

HandlerCloses(h) ==
  /\ handler[h] = "close"
  /\ Closes(served[h], "client")
  /\ interfered' = (interfered \/ \E g \in Alive \ {h} : served[g] = served[h])
  /\ HandlerTo(h, "none")

Quits == QuitFlag \/ QuitJoin \/ QuitClosesClient \/ QuitClosesListener
Accepts ==
  \/ AcceptCheck \/ AcceptReturns \/ AcceptFails \/ AcceptPushes
  \/ \E h \in Handlers \ Alive : AcceptSpawns(h)
Handles(h) == HandlerCheck(h) \/ HandlerReceives(h) \/ HandlerReturns(h) \/ HandlerCloses(h)

NextTcp ==
  \/ StartCannotBind \/ StartCannotListen \/ Start \/ Send
  \/ \E f \in Fds : CloseClient(f)
  \/ Quits \/ Accepts
  \/ \E h \in Handlers : Handles(h)

\* Threads run; a blocked accept() sees a connection or an error at last, and
\* the peer of a blocked recv() speaks or ends the connection.
FairTcp ==
  /\ WF_<<table, strayed, tcpVars>>(Quits /\ owner # "idle")
  /\ WF_<<table, strayed, tcpVars>>(Accepts)
  /\ \A h \in Handlers : WF_<<table, strayed, tcpVars>>(Handles(h))

-----------------------------------------------------------------------------
\* Whatever clients come and go and however often the server is started and
\* quit, an open connection is in the list that quit() walks (or about to be
\* pushed), an open listener is server_socket: no socket is ever forgotten, but
\* the listener of a running server that is started again (in vain: a start()
\* that succeeded would end the program).
ServerForgetsNoSocket ==
  /\ \A f \in Fds : table[f] = "client" => f \in Listed \cup {accepted}
  /\ \A f \in Fds \ abandoned : table[f] = "listener" => f = server_socket

\* As long as nobody closes a socket under its handler (the owner with
\* closeClient, quit() with the handler still in recv(), a second handler with
\* the same number), each handler serves an open connection of its own.
HandlersOwnTheirSockets ==
  ~interfered /\ ~strayed =>
    \A h \in Alive : /\ table[served[h]] = "client"
                     /\ \A g \in Alive \ {h} : served[g] # served[h]
=============================================================================
