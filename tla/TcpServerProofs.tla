-------------------------- MODULE TcpServerProofs ---------------------------
(***************************************************************************)
(* Theorems about TcpServer, for every set of connections and every number *)
(* of descriptors that an fd_set has bits for (EnoughBits; beyond it FD_SET*)
(* is undefined): who owns which descriptor, that nothing is thrown, and   *)
(* that the TcpServer implements ConnectionPool.                           *)
(***************************************************************************)
EXTENDS TcpServer, WellFoundedInduction, TLAPS

\* Every descriptor has a bit in an fd_set.
EnoughBits == FdLimit <= FdSetSize

-----------------------------------------------------------------------------
(* The inductive invariant.                                                *)

\* TypeOK without threaded.
Types ==
  /\ file \in [Fd -> Conn \cup {None, Listening}]
  /\ master \subseteq Fd
  /\ fdMax \in Fd
  /\ connections \in [Fd -> Conn \cup {None}]
  /\ socket \in [Conn -> Fd \cup {None}]
  /\ pc \in {"accept", "poll", "serve", "aborted"}
  /\ round \subseteq Conn
  /\ worker \in [Conn -> {"none", "serving", "ended"}]
  /\ backlog \in Seq(Conn)
  /\ peer \in [Conn -> {"none", "up", "gone"}]
  /\ data \subseteq Conn

\* An open descriptor is the listener's or that of the one TcpSocket of its
\* connection; what connections has at a key is the connection open there.
Owned ==
  /\ file[ListenerFd] = Listening
  /\ \A fd \in Fd \ {ListenerFd} : file[fd] # Listening
  /\ \A c \in Conn : socket[c] # None => file[socket[c]] = c
  /\ \A fd \in Fd : file[fd] \in Conn => socket[file[fd]] = fd
  /\ \A fd \in Fd : connections[fd] # None => file[fd] = connections[fd]

\* The mask has the listener and the keys of connections.
Masked ==
  /\ ListenerFd \in master
  /\ \A fd \in master : fd <= fdMax /\ (fd # ListenerFd => connections[fd] # None)
  /\ \A fd \in Fd : connections[fd] # None => fd \in master

\* A connection waits, is managed, or has been handed to a thread.
Managed(c) == socket[c] # None /\ connections[socket[c]] = c
Unaccepted(c) == socket[c] = None /\ worker[c] = "none"

Placed ==
  /\ \A c \in round : Managed(c)
  /\ pc # "serve" => round = {}
  /\ \A c \in Conn : worker[c] = "serving" => socket[c] # None /\ ~Managed(c)
  /\ \A i \in 1 .. Len(backlog) : Unaccepted(backlog[i]) /\ peer[backlog[i]] # "none"
  /\ \A i, j \in 1 .. Len(backlog) : backlog[i] = backlog[j] => i = j
  /\ \A c \in Conn : peer[c] = "none" => Unaccepted(c)

Inv == Types /\ Owned /\ Masked /\ Placed /\ NeverAborts

-----------------------------------------------------------------------------
(* Descriptors and queues.                                                 *)

LEMMA LeastOfNat ==
  ASSUME NEW S, S \subseteq Nat, S # {}
  PROVE  \E n \in S : \A m \in S : n <= m
<1>1. \E n \in S : \A m \in S : ~(m < n)
  <2>1. \E n \in S : \A m \in S : ~(<<m, n>> \in OpToRel(<, Nat))
    BY WFMin, NatLessThanWellFounded
  <2>2. OpToRel(<, Nat) = {ss \in Nat \X Nat : ss[1] < ss[2]}
    BY DEF OpToRel
  <2> QED
    BY <2>1, <2>2
<1> QED
  BY <1>1

\* accept returns a descriptor that is not in use.
LEMMA NewFdIsFree ==
  ASSUME Free # {}
  PROVE  NewFd \in Fd /\ file[NewFd] = None
<1>1. Free \subseteq Nat /\ Free \subseteq Fd
  BY TcpServerAssumption DEF Free, Fd
<1>2. \E fd \in Free : \A other \in Free : fd <= other
  BY <1>1, LeastOfNat
<1>3. NewFd \in Free
  BY <1>2 DEF NewFd
<1> QED
  BY <1>1, <1>3 DEF Free

\* The head of a queue and the rest.
LEMMA TakingTheHead ==
  ASSUME NEW S, NEW q \in Seq(S), q # <<>>
  PROVE  /\ Head(q) \in S /\ Head(q) = q[1]
         /\ Tail(q) \in Seq(S) /\ Len(Tail(q)) = Len(q) - 1
         /\ Len(q) \in Nat /\ Len(q) >= 1
         /\ \A i \in 1 .. Len(Tail(q)) : Tail(q)[i] = q[i + 1]
OBVIOUS

\* What is open at a key of connections, and what is not.
LEMMA KeysAreOpen ==
  ASSUME Types, Owned, NEW fd \in Fd
  PROVE  /\ connections[fd] # None => /\ connections[fd] \in Conn
                                      /\ socket[connections[fd]] = fd
                                      /\ file[fd] # None /\ file[fd] # Listening
         /\ file[fd] = None => connections[fd] = None
BY TcpServerAssumption DEF Types, Owned

LEMMA ListenerIsFd == ListenerFd \in Fd /\ None \notin Fd
BY TcpServerAssumption DEF Fd, ListenerFd

\* select is not given a descriptor that is closed.
LEMMA SelectWorks ==
  ASSUME Types, Owned, Masked
  PROVE  ~SelectFails /\ \A fd \in Ready \ {ListenerFd} : fd \in Fd /\ connections[fd] # None
<1>1. \A fd \in master : fd \in Fd /\ file[fd] # None
  BY KeysAreOpen, TcpServerAssumption, ListenerIsFd DEF Types, Masked, Owned
<1> QED
  BY <1>1 DEF SelectFails, Selected, Ready, Masked

LEMMA InitInv == Init => Inv
<1> SUFFICES ASSUME Init PROVE Inv
  OBVIOUS
<1>1. Types
  BY TcpServerAssumption, ListenerIsFd DEF Init, Types, ListenerFd
<1>2. Owned /\ Masked
  BY TcpServerAssumption, ListenerIsFd DEF Init, Owned, Masked, ListenerFd
<1>3. Placed /\ NeverAborts
  BY TcpServerAssumption DEF Init, Placed, Unaccepted, NeverAborts
<1> QED
  BY <1>1, <1>2, <1>3 DEF Inv

-----------------------------------------------------------------------------
(* The steps.                                                              *)

\* A connection is accepted ...
LEMMA AcceptInv ==
  ASSUME EnoughBits, Inv, AcceptIfAny, SelectReturns, ListenerFd \in Ready, Free # {}
  PROVE  Inv'
<1> PICK fd \in Fd : fd = NewFd /\ file[fd] = None
  BY NewFdIsFree
<1>1. backlog # <<>>
  BY DEF Ready, IsReadable, Inv, Owned
<1> PICK h \in Conn : h = Head(backlog)
  BY <1>1, TakingTheHead DEF Inv, Types
<1>2. /\ pc = "accept"
      /\ FdSet(fd) /\ Emplace(fd, h) /\ backlog' = Tail(backlog)
      /\ UNCHANGED <<round, worker, peer, data>>
  BY DEF AcceptIfAny
<1>2a. /\ master' = master \cup {fd} /\ pc' = "poll"
       /\ fdMax' = IF fd > fdMax THEN fd ELSE fdMax
  <2>1. fd < FdSetSize
    BY TcpServerAssumption DEF EnoughBits, Fd
  <2> QED
    BY <1>2, <2>1 DEF FdSet
<1>3. connections[fd] = None /\ fd # ListenerFd
  BY KeysAreOpen, TcpServerAssumption DEF Inv, Owned
<1>4. /\ connections' = [connections EXCEPT ![fd] = h]
      /\ socket' = [socket EXCEPT ![h] = fd]
      /\ file' = [file EXCEPT ![fd] = h]
  BY <1>2, <1>3 DEF Emplace
<1>5. /\ Len(backlog') = Len(backlog) - 1 /\ Len(backlog) \in Nat
      /\ Len(backlog) >= 1 /\ backlog[1] = h /\ backlog' \in Seq(Conn)
      /\ \A i \in 1 .. Len(backlog') : backlog'[i] = backlog[i + 1]
  BY <1>1, <1>2, TakingTheHead DEF Inv, Types
<1>6. \A i \in 1 .. Len(backlog') : i + 1 \in 1 .. Len(backlog)
  BY <1>5
<1>7. Unaccepted(h) /\ peer[h] # "none"
  BY <1>5 DEF Inv, Placed
<1>8. Types'
  <2>1. master' \subseteq Fd /\ fdMax' \in Fd
    BY <1>2a DEF Inv, Types
  <2> QED
    BY <1>2, <1>4, <1>5, <1>2a, <2>1 DEF Inv, Types
<1>9. \A c \in Conn : socket[c] # fd
  BY ListenerIsFd, TcpServerAssumption DEF Inv, Owned
<1>10. \A g \in Fd : file[g] # h
  BY <1>7, ListenerIsFd DEF Inv, Owned, Unaccepted
<1>11. /\ \A g \in Fd : /\ file'[g] = IF g = fd THEN h ELSE file[g]
                        /\ connections'[g] = IF g = fd THEN h ELSE connections[g]
       /\ \A c \in Conn : socket'[c] = IF c = h THEN fd ELSE socket[c]
  BY <1>4 DEF Inv, Types
<1>12. Owned'
  <2>1. file'[ListenerFd] = Listening
    BY <1>3, <1>11, ListenerIsFd DEF Inv, Owned
  <2>2. \A g \in Fd \ {ListenerFd} : file'[g] # Listening
    BY <1>11, TcpServerAssumption DEF Inv, Owned
  <2>3. \A c \in Conn : socket'[c] # None => file'[socket'[c]] = c
    BY <1>9, <1>11 DEF Inv, Owned, Types
  <2>4. \A g \in Fd : file'[g] \in Conn => socket'[file'[g]] = g
    BY <1>10, <1>11 DEF Inv, Owned, Types
  <2>5. \A g \in Fd : connections'[g] # None => file'[g] = connections'[g]
    BY <1>11 DEF Inv, Owned, Types
  <2> QED
    BY <2>1, <2>2, <2>3, <2>4, <2>5 DEF Owned
<1>13. Masked'
  <2>1. fdMax' >= fd /\ fdMax' >= fdMax
    BY <1>2a DEF Inv, Types, Fd
  <2>2. \A g \in master' : g <= fdMax'
    <3>1. fd \in Int /\ fdMax \in Int /\ fdMax' \in Int /\ master \subseteq Int
      BY <1>8 DEF Inv, Types, Fd
    <3>2. \A g \in master : g <= fdMax
      BY DEF Inv, Masked
    <3> SUFFICES ASSUME NEW g \in master' PROVE g <= fdMax'
      OBVIOUS
    <3>3. CASE g = fd
      BY <2>1, <3>3
    <3>4. CASE g \in master
      <4>1. g <= fdMax /\ g \in Int
        BY <3>1, <3>2, <3>4
      <4> QED
        BY <2>1, <3>1, <4>1
    <3> QED
      BY <1>2a, <3>3, <3>4
  <2>3. \A g \in master' : g # ListenerFd => connections'[g] # None
    BY <1>11, <1>2a, TcpServerAssumption DEF Inv, Masked, Types
  <2>4. \A g \in Fd : connections'[g] # None => g \in master'
    BY <1>11, <1>2a DEF Inv, Masked
  <2> QED
    BY <1>2a, <2>2, <2>3, <2>4 DEF Inv, Masked
<1>14. Placed'
  <2>1. round' = {}
    BY <1>2 DEF Inv, Placed
  <2>2. \A c \in Conn : worker'[c] = "serving" => socket'[c] # None /\ ~Managed(c)'
    BY <1>2, <1>7, <1>9, <1>11 DEF Inv, Placed, Managed, Unaccepted, Types
  <2>3. \A i \in 1 .. Len(backlog') : backlog'[i] \in Conn /\ backlog'[i] # h
    BY <1>5, <1>6 DEF Inv, Placed, Types
  <2>4. \A i \in 1 .. Len(backlog') : Unaccepted(backlog[i])' /\ peer'[backlog'[i]] # "none"
    BY <1>2, <1>5, <1>6, <1>11, <2>3 DEF Inv, Placed, Unaccepted
  <2>5. \A i, j \in 1 .. Len(backlog') : backlog'[i] = backlog'[j] => i = j
    BY <1>5, <1>6 DEF Inv, Placed
  <2>6. \A c \in Conn : peer'[c] = "none" => Unaccepted(c)'
    BY <1>2, <1>7, <1>11 DEF Inv, Placed, Unaccepted
  <2> QED
    BY <2>1, <2>2, <2>4, <2>5, <2>6 DEF Placed
<1> QED
  BY <1>8, <1>12, <1>13, <1>14, <1>2a DEF Inv, NeverAborts

\* ... or there is none, or no descriptor for it.
LEMMA NoAcceptInv ==
  ASSUME Inv, AcceptIfAny, ~(SelectReturns /\ ListenerFd \in Ready /\ Free # {})
  PROVE  Inv'
<1>1. /\ pc = "accept" /\ pc' = "poll"
      /\ UNCHANGED <<file, serverVars, socket, backlog, round, worker, peer, data>>
  BY DEF AcceptIfAny
<1>2. UNCHANGED <<master, fdMax, connections>>
  BY <1>1 DEF serverVars
<1> QED
  BY <1>1, <1>2 DEF Inv, Types, Owned, Masked, Placed, Managed, Unaccepted, NeverAborts

LEMMA PollInv ==
  ASSUME Inv, ConnectionsWithData
  PROVE  Inv'
<1> DEFINE fds == Ready \ {ListenerFd}
<1>1. ~SelectFails /\ \A fd \in fds : fd \in Fd /\ connections[fd] # None
  BY SelectWorks DEF Inv
<1>2. /\ round' = {connections[fd] : fd \in fds}
      /\ pc' = IF fds = {} THEN "accept" ELSE "serve"
      /\ UNCHANGED <<file, master, fdMax, connections, socket, worker, backlog, peer, data>>
  BY <1>1 DEF ConnectionsWithData, serverVars, netVars
<1>3. \A c \in round' : c \in Conn /\ Managed(c)
  BY <1>1, <1>2, KeysAreOpen, ListenerIsFd DEF Inv, Managed
<1>4. pc' \in {"accept", "serve"} /\ (pc' # "serve" => round' = {})
  BY <1>2
<1> QED
  BY <1>2, <1>3, <1>4 DEF Inv, Types, Owned, Masked, Placed, Managed, Unaccepted, NeverAborts

\* Data that is read or sent, and the ends of clients, concern nobody.
LEMMA QuietInv ==
  ASSUME Inv,
         \/ \E c \in Conn : \/ BinderReceives(c) \/ WorkerReceives(c)
                            \/ Send(c) \/ Leave(c)
         \/ UNCHANGED vars
  PROVE  Inv'
<1>1. UNCHANGED <<file, master, fdMax, connections, socket, worker, backlog>>
  BY DEF BinderReceives, WorkerReceives, Send, Leave, serverVars, netVars, processFrame, vars
<1>2. /\ data' \subseteq Conn
      /\ peer' \in [Conn -> {"none", "up", "gone"}]
      /\ \A c \in Conn : peer'[c] = "none" <=> peer[c] = "none"
  BY DEF BinderReceives, WorkerReceives, Send, Leave, serverVars, netVars, processFrame,
         vars, Inv, Types
<1>3. /\ round' \subseteq round
      /\ pc' \in {pc, "accept", "serve"} /\ (pc' # "serve" => round' = {})
  BY DEF BinderReceives, Serve, WorkerReceives, Send, Leave, serverVars, netVars,
         processFrame, vars, Inv, Placed
<1>4. \A i \in 1 .. Len(backlog) : backlog[i] \in Conn
  BY DEF Inv, Types
<1> QED
  BY <1>1, <1>2, <1>3, <1>4 DEF Inv, Types, Owned, Masked, Placed, Managed, Unaccepted, NeverAborts

LEMMA ConnectInv ==
  ASSUME Inv, NEW c \in Conn, Connect(c)
  PROVE  Inv'
<1>1. /\ peer[c] = "none" /\ peer' = [peer EXCEPT ![c] = "up"]
      /\ backlog' = Append(backlog, c)
      /\ UNCHANGED <<file, master, fdMax, connections, socket, pc, round, worker, data>>
  BY DEF Connect, processFrame, serverVars
<1>2. /\ Len(backlog) \in Nat /\ Len(backlog') = Len(backlog) + 1
      /\ \A i \in 1 .. Len(backlog) : backlog'[i] = backlog[i] /\ backlog[i] \in Conn
      /\ backlog'[Len(backlog) + 1] = c /\ backlog' \in Seq(Conn)
  BY <1>1 DEF Inv, Types
<1>3. Unaccepted(c) /\ \A i \in 1 .. Len(backlog) : backlog[i] # c
  BY <1>1 DEF Inv, Placed
<1>4. Types' /\ Owned' /\ Masked' /\ NeverAborts'
  BY <1>1, <1>2 DEF Inv, Types, Owned, Masked, NeverAborts
<1>5. Placed'
  <2>1. \A i \in 1 .. Len(backlog') : Unaccepted(backlog[i])' /\ peer'[backlog'[i]] # "none"
    BY <1>1, <1>2, <1>3 DEF Inv, Placed, Unaccepted, Types
  <2>2. \A i, j \in 1 .. Len(backlog') : backlog'[i] = backlog'[j] => i = j
    BY <1>2, <1>3 DEF Inv, Placed
  <2>3. \A d \in Conn : peer'[d] = "none" => Unaccepted(d)'
    BY <1>1 DEF Inv, Placed, Unaccepted, Types
  <2> QED
    BY <1>1, <2>1, <2>2, <2>3 DEF Inv, Placed, Managed
<1> QED
  BY <1>4, <1>5 DEF Inv

\* A descriptor is closed with its TcpSocket, by the thread that owns it.
LEMMA CloseInv ==
  ASSUME Inv, NEW c \in Conn, ConnectionClosed(c) \/ WorkerCloses(c)
  PROVE  Inv'
<1> PICK fd \in Fd : fd = socket[c] /\ file[fd] = c
  <2>1. socket[c] # None
    BY DEF ConnectionClosed, WorkerCloses, Serve, Inv, Placed, Managed
  <2> QED
    BY <2>1 DEF Inv, Types, Owned
<1>1. /\ file' = [file EXCEPT ![fd] = None]
      /\ socket' = [socket EXCEPT ![c] = None]
      /\ UNCHANGED <<fdMax, backlog, peer, data>>
  BY DEF ConnectionClosed, WorkerCloses, serverVars, netVars
<1>2. fd # ListenerFd /\ fd \in Nat
  BY TcpServerAssumption DEF Inv, Owned, Fd
<1>3. \A d \in Conn : d # c => socket[d] # fd
  BY ListenerIsFd DEF Inv, Owned
<1>4. /\ \A g \in Fd : file'[g] = IF g = fd THEN None ELSE file[g]
      /\ \A d \in Conn : socket'[d] = IF d = c THEN None ELSE socket[d]
  BY <1>1 DEF Inv, Types
<1>5. \/ /\ c \in round /\ round' = round \ {c} /\ pc = "serve"
         /\ pc' = IF round' = {} THEN "accept" ELSE "serve"
         /\ connections' = [connections EXCEPT ![fd] = None]
         /\ master' = master \ {fd} /\ worker' = worker
      \/ /\ UNCHANGED <<round, pc, connections, master>>
         /\ worker[c] = "serving" /\ worker' = [worker EXCEPT ![c] = "ended"]
  BY DEF ConnectionClosed, WorkerCloses, Serve, serverVars
<1>6. connections'[fd] = None /\ \A g \in Fd : g # fd => connections'[g] = connections[g]
  <2>1. worker[c] = "serving" => connections[fd] = None
    BY DEF Inv, Placed, Managed, Owned
  <2> QED
    BY <1>5, <2>1 DEF Inv, Types
<1>7. Types'
  BY <1>1, <1>5, ListenerIsFd DEF Inv, Types
<1>8. Owned'
  <2>1. file'[ListenerFd] = Listening
    BY <1>2, <1>4, ListenerIsFd DEF Inv, Owned
  <2>2. \A g \in Fd \ {ListenerFd} : file'[g] # Listening
    BY <1>4, TcpServerAssumption DEF Inv, Owned
  <2>3. \A d \in Conn : socket'[d] # None => file'[socket'[d]] = d
    BY <1>3, <1>4 DEF Inv, Owned, Types
  <2>4. \A g \in Fd : file'[g] \in Conn => socket'[file'[g]] = g
    <3> SUFFICES ASSUME NEW g \in Fd, file'[g] \in Conn PROVE socket'[file'[g]] = g
      OBVIOUS
    <3>1. g # fd /\ file'[g] = file[g]
      BY <1>4, TcpServerAssumption
    <3>2. socket[file[g]] = g /\ file[g] # c
      BY <3>1 DEF Inv, Owned
    <3> QED
      BY <1>4, <3>1, <3>2
  <2>5. \A g \in Fd : connections'[g] # None => file'[g] = connections'[g]
    BY <1>4, <1>6 DEF Inv, Owned
  <2> QED
    BY <2>1, <2>2, <2>3, <2>4, <2>5 DEF Owned
<1>9. Masked'
  <2>1. master' \in {master, master \ {fd}} /\ ListenerFd \in master'
    BY <1>2, <1>5 DEF Inv, Masked
  <2>2. fd \in master' => FALSE
    <3>1. fd \in master => connections[fd] # None
      BY <1>2 DEF Inv, Masked
    <3> QED
      BY <1>5, <1>6, <3>1
  <2>3. \A g \in Fd : g # fd => (g \in master' <=> g \in master)
    BY <2>1
  <2> QED
    BY <1>1, <1>6, <2>1, <2>2, <2>3 DEF Inv, Masked, Types
<1>10. Placed'
  <2>1. \A d \in Conn : d # c => (Managed(d)' <=> Managed(d))
    BY <1>3, <1>4, <1>6 DEF Managed, Inv, Types
  <2>2. c \notin round'
    <3>1. worker[c] = "serving" => c \notin round
      BY DEF Inv, Placed
    <3> QED
      BY <1>5, <3>1
  <2>3. \A d \in round' : Managed(d)'
    BY <1>5, <2>1, <2>2 DEF Inv, Placed, Types
  <2>4. pc' # "serve" => round' = {}
    BY <1>5 DEF Inv, Placed
  <2>5. \A d \in Conn : d # c => worker'[d] = worker[d]
    BY <1>5 DEF Inv, Types
  <2>6. worker'[c] # "serving"
    <3>1. c \in round => worker[c] # "serving"
      BY DEF Inv, Placed
    <3> QED
      BY <1>5, <3>1 DEF Inv, Types
  <2>7. \A d \in Conn : worker'[d] = "serving" => socket'[d] # None /\ ~Managed(d)'
    BY <1>4, <2>1, <2>5, <2>6 DEF Inv, Placed
  <2>8. ~Unaccepted(c)
    BY ListenerIsFd DEF Unaccepted
  <2>9. \A d \in Conn : Unaccepted(d) => Unaccepted(d)'
    BY <1>4, <2>5, <2>8 DEF Unaccepted
  <2>10. \A i \in 1 .. Len(backlog) : backlog[i] \in Conn
    BY DEF Inv, Types
  <2> QED
    BY <1>1, <2>3, <2>4, <2>7, <2>9, <2>10 DEF Inv, Placed
<1> QED
  BY <1>5, <1>7, <1>8, <1>9, <1>10 DEF Inv, NeverAborts

\* A connection is handed to a thread, which is the only one to close it.
LEMMA ReleaseInv ==
  ASSUME Inv, NEW c \in Conn, ReleaseConnection(c)
  PROVE  Inv'
<1> PICK fd \in Fd : fd = socket[c] /\ connections[fd] = c /\ c \in round
  BY DEF ReleaseConnection, Serve, Inv, Types, Placed, Managed
<1>1. /\ pc = "serve" /\ round' = round \ {c}
      /\ pc' = IF round' = {} THEN "accept" ELSE "serve"
      /\ master' = master \ {fd}
      /\ connections' = [connections EXCEPT ![fd] = None]
      /\ worker' = [worker EXCEPT ![c] = "serving"]
      /\ UNCHANGED <<file, fdMax, socket, backlog, peer, data>>
  BY DEF ReleaseConnection, Serve, netVars
<1>2. fd # ListenerFd
  BY KeysAreOpen, TcpServerAssumption DEF Inv, Owned
<1>3. \A g \in Fd : connections'[g] = IF g = fd THEN None ELSE connections[g]
  BY <1>1 DEF Inv, Types
<1>4. \A d \in Conn : d # c => socket[d] # fd /\ worker'[d] = worker[d]
  BY <1>1, ListenerIsFd DEF Inv, Owned, Types
<1>5. Types'
  BY <1>1 DEF Inv, Types
<1>6. Owned'
  BY <1>1, <1>3 DEF Inv, Owned
<1>7. Masked'
  BY <1>1, <1>2, <1>3 DEF Inv, Masked, Types
<1>8. Placed'
  <2>1. \A d \in Conn : d # c => (Managed(d)' <=> Managed(d))
    BY <1>1, <1>3, <1>4 DEF Managed, Inv, Types
  <2>2. \A d \in round' : Managed(d)'
    BY <1>1, <2>1 DEF Inv, Placed, Types
  <2>3. socket'[c] # None /\ ~Managed(c)'
    BY <1>1, <1>3, ListenerIsFd, TcpServerAssumption DEF Managed
  <2>4. \A d \in Conn : worker'[d] = "serving" => socket'[d] # None /\ ~Managed(d)'
    BY <1>1, <1>4, <2>1, <2>3 DEF Inv, Placed
  <2>5. \A d \in Conn : Unaccepted(d) => Unaccepted(d)'
    BY <1>1, <1>4, ListenerIsFd DEF Unaccepted
  <2>6. \A i \in 1 .. Len(backlog) : backlog[i] \in Conn
    BY DEF Inv, Types
  <2> QED
    BY <1>1, <2>2, <2>4, <2>5, <2>6 DEF Inv, Placed
<1> QED
  BY <1>1, <1>5, <1>6, <1>7, <1>8 DEF Inv, NeverAborts

LEMMA StepInv ==
  ASSUME EnoughBits, Inv, [Next]_vars
  PROVE  Inv'
<1>1. CASE User
  BY <1>1, AcceptInv, NoAcceptInv, PollInv, QuietInv, CloseInv, ReleaseInv DEF User
<1>2. ASSUME NEW c \in Conn, Worker(c) \/ Client(c) PROVE Inv'
  BY <1>2, QuietInv, CloseInv, ConnectInv DEF Worker, Client
<1>3. CASE AllServed \/ UNCHANGED vars
  BY <1>3, QuietInv DEF AllServed
<1> QED
  BY <1>1, <1>2, <1>3 DEF Next

THEOREM Invariance == ASSUME EnoughBits PROVE Spec => []Inv
<1>1. Inv /\ [Next]_vars => Inv'
  BY StepInv
<1> QED
  BY <1>1, InitInv, PTL DEF Spec

-----------------------------------------------------------------------------
(* The theorems.                                                           *)

Flag == threaded \in BOOLEAN

\* TypeOK is an invariant.
THEOREM TypeCorrect == ASSUME EnoughBits PROVE Spec => []TypeOK
<1>1. Init => Flag
  BY Zenon DEF Init, Flag
<1>2. Flag /\ [Next]_vars => Flag'
  <2> SUFFICES ASSUME Flag, [Next]_vars PROVE threaded' = threaded
    BY Zenon DEF Flag
  <2>1. CASE User
    BY <2>1, Zenon DEF User, AcceptIfAny, ConnectionsWithData, BinderReceives,
       ConnectionClosed, ReleaseConnection
  <2>2. CASE \E c \in Conn : Worker(c) \/ Client(c)
    BY <2>2, Zenon DEF Worker, WorkerReceives, WorkerCloses, Client, Connect, Send,
       Leave, processFrame
  <2>3. CASE AllServed \/ UNCHANGED vars
    BY <2>3, Zenon DEF AllServed, vars
  <2> QED
    BY <2>1, <2>2, <2>3, Zenon DEF Next
<1>3. Inv /\ Flag => TypeOK
  BY Zenon DEF Inv, Types, Flag, TypeOK
<1> QED
  BY <1>1, <1>2, <1>3, Invariance, PTL DEF Spec

\* A TcpSocket that exists holds the open descriptor of its own connection, and
\* accept never returns one that is a key of connections, whoever closes what
\* while the listener accepts (connectionClosed, releaseConnection and the
\* destructor of TcpSocket).
THEOREM DescriptorsAreOwned == ASSUME EnoughBits PROVE Spec => []SocketsOwnDescriptors
<1>1. Inv => SocketsOwnDescriptors
  BY KeysAreOpen DEF Inv, Owned, SocketsOwnDescriptors, Free
<1> QED
  BY <1>1, Invariance, PTL

\* select is never given a closed descriptor and what it reports is in
\* connections: as long as every descriptor has a bit, neither exception of
\* connectionsWithData is thrown.
THEOREM PollNeverAborts == ASSUME EnoughBits PROVE Spec => []NeverAborts
<1>1. Inv => NeverAborts
  BY DEF Inv
<1> QED
  BY <1>1, Invariance, PTL

\* fd_master and fd_max follow connections: select watches every connection that
\* the TcpServer manages and none that it released or closed.
THEOREM MaskIsExact == ASSUME EnoughBits PROVE Spec => []MasterTracksConnections
<1>1. Inv => MasterTracksConnections
  BY ListenerIsFd DEF Inv, Types, Masked, MasterTracksConnections
<1> QED
  BY <1>1, Invariance, PTL

-----------------------------------------------------------------------------
(* TcpServer implements ConnectionPool.                                    *)

LEMMA StepImplements ==
  ASSUME Inv, [Next]_vars
  PROVE  [Pool!Next]_(Pool!vars)
<1> DEFINE open == {c \in Conn : \E fd \in Fd : file[fd] = c}
<1>1. CASE UNCHANGED <<file, netVars>>
  BY <1>1 DEF Pool!vars, netVars
<1>2. CASE /\ AcceptIfAny /\ SelectReturns /\ ListenerFd \in Ready /\ Free # {}
  <2> PICK fd \in Fd : fd = NewFd /\ file[fd] = None
    BY <1>2, NewFdIsFree
  <2>1. backlog # <<>>
    BY <1>2 DEF Ready, IsReadable, Inv, Owned
  <2> PICK h \in Conn : h = Head(backlog)
    BY <2>1, TakingTheHead DEF Inv, Types
  <2>2. connections[fd] = None
    BY KeysAreOpen DEF Inv
  <2>3. /\ file' = [file EXCEPT ![fd] = h]
        /\ backlog' = Tail(backlog) /\ UNCHANGED <<peer, data>>
    BY <1>2, <2>2 DEF AcceptIfAny, Emplace
  <2>4. open' = open \cup {h}
    BY <2>3, TcpServerAssumption DEF Inv, Types
  <2>5. Pool!Accept
    BY <2>1, <2>3, <2>4 DEF Pool!Accept
  <2> QED
    BY <2>5 DEF Pool!Next
<1>3. ASSUME NEW c \in Conn, ConnectionClosed(c) \/ WorkerCloses(c)
      PROVE  [Pool!Next]_(Pool!vars)
  <2> PICK fd \in Fd : fd = socket[c] /\ file[fd] = c
    <3>1. socket[c] # None
      BY <1>3 DEF ConnectionClosed, WorkerCloses, Serve, Inv, Placed, Managed
    <3> QED
      BY <3>1 DEF Inv, Types, Owned
  <2>1. file' = [file EXCEPT ![fd] = None] /\ peer[c] = "gone" /\ UNCHANGED netVars
    BY <1>3 DEF ConnectionClosed, WorkerCloses
  <2>2. \A g \in Fd : g # fd => file[g] # c
    BY DEF Inv, Owned
  <2>3. open' = open \ {c}
    BY <2>1, <2>2, TcpServerAssumption DEF Inv, Types
  <2>4. Pool!Close(c)
    BY <2>1, <2>3 DEF Pool!Close, netVars
  <2> QED
    BY <2>4 DEF Pool!Next
<1>4. ASSUME NEW c \in Conn, BinderReceives(c) \/ WorkerReceives(c)
      PROVE  [Pool!Next]_(Pool!vars)
  <2>1. socket[c] # None
    BY <1>4 DEF BinderReceives, WorkerReceives, Serve, Inv, Placed, Managed
  <2>2. c \in open
    BY <2>1 DEF Inv, Types, Owned
  <2>3. c \in data /\ data' = data \ {c} /\ UNCHANGED <<file, backlog, peer>>
    BY <1>4 DEF BinderReceives, WorkerReceives
  <2>4. Pool!Read(c)
    BY <2>2, <2>3 DEF Pool!Read
  <2> QED
    BY <2>4 DEF Pool!Next
<1>5. ASSUME NEW c \in Conn, Client(c)
      PROVE  [Pool!Next]_(Pool!vars)
  <2>1. Pool!Arrive(c) \/ Pool!Write(c) \/ Pool!Leave(c)
    BY <1>5 DEF Client, Connect, Send, Leave, processFrame, Pool!Arrive, Pool!Write, Pool!Leave
  <2> QED
    BY <2>1 DEF Pool!Next
<1>6. CASE AcceptIfAny /\ ~(SelectReturns /\ ListenerFd \in Ready /\ Free # {})
  BY <1>1, <1>6 DEF AcceptIfAny, netVars
<1>7. CASE ConnectionsWithData
  BY <1>1, <1>7 DEF ConnectionsWithData
<1>8. ASSUME NEW c \in Conn, ReleaseConnection(c)
      PROVE  [Pool!Next]_(Pool!vars)
  BY <1>1, <1>8 DEF ReleaseConnection
<1>9. CASE AllServed \/ UNCHANGED vars
  BY <1>1, <1>9 DEF AllServed, vars
<1> QED
  BY <1>2, <1>3, <1>4, <1>5, <1>6, <1>7, <1>8, <1>9 DEF Next, User, Worker

\* Connections are accepted in the order they arrive, only an open one is read
\* from, and none is closed before its client is gone, whatever descriptors are
\* reused and also when accept finds none free.
THEOREM TcpServerImplementsConnectionPool ==
  ASSUME EnoughBits PROVE Spec => ImplementsConnectionPool
<1>1. Init => Pool!Init
  BY TcpServerAssumption DEF Init, Pool!Init
<1>2. Inv /\ [Next]_vars => [Pool!Next]_(Pool!vars)
  BY StepImplements
<1> QED
  BY <1>1, <1>2, Invariance, PTL DEF Spec, ImplementsConnectionPool, Pool!Spec

=============================================================================
