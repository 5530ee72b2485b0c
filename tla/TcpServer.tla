----------------------------- MODULE TcpServer ------------------------------
(***************************************************************************)
(* The descriptors of a TcpServer: the ones the kernel hands out, the mask *)
(* for select and the map of connections that TcpServer keeps for them, and*)
(* the TcpSocket objects, each of which closes its descriptor at its end.  *)
(*                                                                         *)
(* One thread uses the TcpServer.  In the binder it serves the connections *)
(* itself and calls connectionClosed; in a server it is                    *)
(* client_listen_thread, which releases them to threads of their own: those*)
(* close descriptors while the listener is given new ones.                 *)
(***************************************************************************)
EXTENDS Integers, Sequences, FiniteSets

CONSTANTS
  Conn,        \* the connections that clients make
  FdLimit,     \* how many descriptors the process may have
  FdSetSize,   \* how many an fd_set has bits for: FD_SETSIZE
  None, Listening

ASSUME TcpServerAssumption ==
  /\ FdLimit \in Nat \ {0} /\ FdSetSize \in Nat \ {0}
  /\ None \notin Conn \cup {Listening} /\ None \notin 0 .. FdLimit - 1
  /\ Listening \notin Conn

Fd == 0 .. FdLimit - 1
ListenerFd == 0

VARIABLES
  threaded,      \* whether the process is a server; it is the binder if not
  file,          \* file[fd]: what the kernel has open at fd
  master,        \* fd_master
  fdMax,         \* fd_max
  connections,   \* connections[fd]: the TcpSocket at that key
  socket,        \* socket[c]: the descriptor the TcpSocket of c holds, None
                 \* when there is no such object
  pc,            \* where the thread that uses the TcpServer is
  round,         \* what is left of the vector of connectionsWithData
  worker,        \* worker[c]: the serve_client_thread of c
  backlog, peer, data   \* as in ConnectionPool

serverVars == <<master, fdMax, connections>>
netVars == <<backlog, peer, data>>
vars == <<threaded, file, serverVars, socket, pc, round, worker, netVars>>

Init ==
  /\ threaded \in BOOLEAN
  /\ file = [fd \in Fd |-> IF fd = ListenerFd THEN Listening ELSE None]
  /\ master = {ListenerFd} /\ fdMax = ListenerFd
  /\ connections = [fd \in Fd |-> None]
  /\ socket = [c \in Conn |-> None]
  /\ pc = "accept" /\ round = {}
  /\ worker = [c \in Conn |-> "none"]
  /\ backlog = <<>>
  /\ peer = [c \in Conn |-> "none"]
  /\ data = {}

-----------------------------------------------------------------------------
(* The kernel: the least free descriptor is handed out; select fails when a*)
(* descriptor of its mask is not open, and waits until one is readable.    *)

Free == {fd \in Fd : file[fd] = None}
NewFd == CHOOSE fd \in Free : \A other \in Free : fd <= other

Selected == {fd \in master : fd <= fdMax}
SelectFails == \E fd \in Selected : file[fd] = None
IsReadable(fd) ==
  IF file[fd] = Listening THEN backlog # <<>>
  ELSE file[fd] \in data \/ peer[file[fd]] = "gone"
Ready == {fd \in Selected : file[fd] # None /\ IsReadable(fd)}
SelectReturns == ~SelectFails /\ Ready # {}

-----------------------------------------------------------------------------
(* TcpServer.                                                              *)

\* Mutant: fd_max is kept as select wants it, one larger.
FdSetNext(fd) ==
  IF fd < FdSetSize
  THEN /\ master' = master \cup {fd}
       /\ fdMax' = IF fd + 1 > fdMax THEN fd + 1 ELSE fdMax
       /\ pc' = "poll"
  ELSE /\ master' \in SUBSET Fd /\ fdMax' \in Fd
       /\ pc' \in {"poll", "aborted"}

\* FD_SET beyond FD_SETSIZE is undefined: it writes past fd_master, where fd_max
\* follows, or aborts in a fortified build. Nothing is known of the two then.
FdSet(fd) ==
  IF fd < FdSetSize
  THEN /\ master' = master \cup {fd}
       /\ fdMax' = IF fd > fdMax THEN fd ELSE fdMax
       /\ pc' = "poll"
  ELSE /\ master' \in SUBSET Fd /\ fdMax' \in Fd
       /\ pc' \in {"poll", "aborted"}

\* emplace does not replace: then the new TcpSocket is destroyed at once.
Emplace(fd, c) ==
  IF connections[fd] = None
  THEN /\ connections' = [connections EXCEPT ![fd] = c]
       /\ socket' = [socket EXCEPT ![c] = fd]
       /\ file' = [file EXCEPT ![fd] = c]
  ELSE UNCHANGED <<connections, socket, file>>

\* Without a free descriptor accept fails; the error is ignored.
AcceptIfAny ==
  /\ pc = "accept"
  /\ SelectFails \/ SelectReturns
  /\ IF SelectReturns /\ ListenerFd \in Ready /\ Free # {}
     THEN /\ FdSet(NewFd)
          /\ Emplace(NewFd, Head(backlog))
          /\ backlog' = Tail(backlog)
     ELSE pc' = "poll" /\ UNCHANGED <<file, serverVars, socket, backlog>>
  /\ UNCHANGED <<threaded, round, worker, peer, data>>

\* A SelectError, and the out_of_range of at(fd), are caught by nobody.
ConnectionsWithData ==
  /\ pc = "poll"
  /\ LET fds == Ready \ {ListenerFd}
         throws == SelectFails \/ \E fd \in fds : connections[fd] = None
     IN /\ SelectFails \/ SelectReturns
        /\ round' = IF throws THEN {} ELSE {connections[fd] : fd \in fds}
        /\ pc' = IF throws THEN "aborted"
                 ELSE IF fds = {} THEN "accept" ELSE "serve"
  /\ UNCHANGED <<threaded, file, serverVars, socket, worker, netVars>>

\* The next connection of the round, in any order.
Serve(c) ==
  /\ pc = "serve" /\ c \in round
  /\ round' = round \ {c}
  /\ pc' = IF round' = {} THEN "accept" ELSE "serve"

-----------------------------------------------------------------------------
(* The binder: a message is received and answered, or connectionClosed.    *)

BinderReceives(c) ==
  /\ ~threaded
  /\ Serve(c)
  /\ c \in data
  /\ data' = data \ {c}
  /\ UNCHANGED <<threaded, file, serverVars, socket, worker, backlog, peer>>

\* Mutant: the mask keeps the descriptor.
ConnectionClosedKeepsBit(c) ==
  /\ ~threaded
  /\ Serve(c)
  /\ c \notin data /\ peer[c] = "gone"
  /\ file' = [file EXCEPT ![socket[c]] = None]
  /\ connections' = [connections EXCEPT ![socket[c]] = None]
  /\ socket' = [socket EXCEPT ![c] = None]
  /\ UNCHANGED <<threaded, master, fdMax, worker, netVars>>

\* The descriptor is closed here and by the destructor that erase runs: the
\* one thread of the binder has been given no other in between.
ConnectionClosed(c) ==
  /\ ~threaded
  /\ Serve(c)
  /\ c \notin data /\ peer[c] = "gone"
  /\ file' = [file EXCEPT ![socket[c]] = None]
  /\ connections' = [connections EXCEPT ![socket[c]] = None]
  /\ socket' = [socket EXCEPT ![c] = None]
  /\ master' = master \ {socket[c]}
  /\ UNCHANGED <<threaded, fdMax, worker, netVars>>

-----------------------------------------------------------------------------
(* A server: releaseConnection, and the thread that owns the TcpSocket.    *)

\* Mutant: the mask keeps the descriptor.
ReleaseConnectionKeepsBit(c) ==
  /\ threaded
  /\ Serve(c)
  /\ connections' = [connections EXCEPT ![socket[c]] = None]
  /\ worker' = [worker EXCEPT ![c] = "serving"]
  /\ UNCHANGED <<threaded, file, master, fdMax, socket, netVars>>

\* Mutant: the TcpSocket is erased without release, which closes it.
ReleaseConnectionErases(c) ==
  /\ threaded
  /\ Serve(c)
  /\ file' = [file EXCEPT ![socket[c]] = None]
  /\ master' = master \ {socket[c]}
  /\ connections' = [connections EXCEPT ![socket[c]] = None]
  /\ worker' = [worker EXCEPT ![c] = "serving"]
  /\ UNCHANGED <<threaded, fdMax, socket, netVars>>

ReleaseConnection(c) ==
  /\ threaded
  /\ Serve(c)
  /\ master' = master \ {socket[c]}
  /\ connections' = [connections EXCEPT ![socket[c]] = None]
  /\ worker' = [worker EXCEPT ![c] = "serving"]
  /\ UNCHANGED <<threaded, file, fdMax, socket, netVars>>

WorkerReceives(c) ==
  /\ worker[c] = "serving"
  /\ c \in data
  /\ data' = data \ {c}
  /\ UNCHANGED <<threaded, file, serverVars, socket, pc, round, worker, backlog, peer>>

\* Mutant: the thread ends without deleting the TcpSocket.
WorkerForgets(c) ==
  /\ worker[c] = "serving"
  /\ peer[c] = "gone"
  /\ worker' = [worker EXCEPT ![c] = "ended"]
  /\ UNCHANGED <<threaded, file, serverVars, socket, pc, round, netVars>>

\* Mutant: a connection is served once and then closed.
WorkerClosesEarly(c) ==
  /\ worker[c] = "serving"
  /\ c \notin data
  /\ worker' = [worker EXCEPT ![c] = "ended"]
  /\ file' = [file EXCEPT ![socket[c]] = None]
  /\ socket' = [socket EXCEPT ![c] = None]
  /\ UNCHANGED <<threaded, serverVars, pc, round, netVars>>

\* recv reports the end, or an answer cannot be sent: delete client_ptr.
WorkerCloses(c) ==
  /\ worker[c] = "serving"
  /\ peer[c] = "gone"
  /\ worker' = [worker EXCEPT ![c] = "ended"]
  /\ file' = [file EXCEPT ![socket[c]] = None]
  /\ socket' = [socket EXCEPT ![c] = None]
  /\ UNCHANGED <<threaded, serverVars, pc, round, netVars>>

-----------------------------------------------------------------------------
(* The clients.                                                            *)

processFrame == <<threaded, file, serverVars, socket, pc, round, worker>>

Connect(c) ==
  /\ peer[c] = "none"
  /\ peer' = [peer EXCEPT ![c] = "up"]
  /\ backlog' = Append(backlog, c)
  /\ UNCHANGED <<processFrame, data>>

Send(c) ==
  /\ peer[c] = "up" /\ c \notin data
  /\ data' = data \cup {c}
  /\ UNCHANGED <<processFrame, backlog, peer>>

Leave(c) ==
  /\ peer[c] = "up"
  /\ peer' = [peer EXCEPT ![c] = "gone"]
  /\ UNCHANGED <<processFrame, backlog, data>>

\* Every client is gone and the process waits in select for more.
AllServed ==
  /\ pc \in {"accept", "poll"} /\ ~SelectFails /\ Ready = {}
  /\ \A c \in Conn : peer[c] = "gone" /\ worker[c] # "serving"
  /\ UNCHANGED vars

User ==
  \/ AcceptIfAny \/ ConnectionsWithData
  \/ \E c \in Conn : BinderReceives(c) \/ ConnectionClosed(c) \/ ReleaseConnection(c)
Worker(c) == WorkerReceives(c) \/ WorkerCloses(c)
Client(c) == Connect(c) \/ Send(c) \/ Leave(c)

Next ==
  \/ User
  \/ \E c \in Conn : Worker(c) \/ Client(c)
  \/ AllServed

\* The threads run, and a client of a server does not stay for ever.
Fairness ==
  /\ WF_vars(User)
  /\ \A c \in Conn : WF_vars(Worker(c)) /\ WF_vars(threaded /\ Leave(c))

Spec == Init /\ [][Next]_vars
FairSpec == Spec /\ Fairness

-----------------------------------------------------------------------------
(* Properties.                                                             *)

\* Every variable has its type.
TypeOK ==
  /\ threaded \in BOOLEAN
  /\ file \in [Fd -> Conn \cup {None, Listening}]
  /\ master \subseteq Fd
  /\ fdMax \in Fd
  /\ connections \in [Fd -> Conn \cup {None}]
  /\ socket \in [Conn -> Fd \cup {None}]
  /\ pc \in {"accept", "poll", "serve", "aborted"}
  /\ round \subseteq Conn
  /\ worker \in [Conn -> {"none", "serving", "ended"}]
  /\ backlog \in Seq(Conn)
  /\ peer \in [Conn -> {"none", "up", "gone"}]
  /\ data \subseteq Conn

\* fd_master has the listener and the keys of connections, and fd_max is at
\* least as large as each: select watches every connection that is managed
\* ("keeps track of all open sockets including listener", tcp_server.h:26-27).
MasterTracksConnections ==
  /\ master = {ListenerFd} \cup {fd \in Fd : connections[fd] # None}
  /\ \A fd \in master : fd <= fdMax

\* A TcpSocket's descriptor is open and is that of its own connection as long
\* as the object exists, so that no close hits the connection of somebody else;
\* and none that accept may return is a key of connections, or emplace would
\* close the connection it is given (the assertion of tcp_server.cc:104).
SocketsOwnDescriptors ==
  /\ \A c \in Conn : socket[c] # None => file[socket[c]] = c
  /\ \A fd \in Free : connections[fd] = None

\* select is given open descriptors only, and each of them is found in
\* connections ("it should never happen", tcp_server.cc:121-122).
NeverAborts == pc # "aborted"

\* Connections are accepted in order and never closed under a live peer.
Pool == INSTANCE ConnectionPool WITH
  waiting <- backlog,
  open <- {c \in Conn : \E fd \in Fd : file[fd] = c}

ImplementsConnectionPool == Pool!Spec

\* In a server, also when descriptors run out, a connection that waits is
\* accepted in the end, and one whose client is gone gives its descriptor back.
DescriptorsComeBack ==
  \A c \in Conn :
    threaded /\ peer[c] = "gone" ~>
      (\A i \in DOMAIN backlog : backlog[i] # c) /\ (\A fd \in Fd : file[fd] # c)

=============================================================================
