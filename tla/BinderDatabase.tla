--------------------------- MODULE BinderDatabase ---------------------------
(***************************************************************************)
(* class BinderDatabase of binder.cc: which servers serve which signature, *)
(* and in which order they are handed out.                                 *)
(*                                                                         *)
(* A ServerData is an address (host name and port) and the connection it   *)
(* registered on, but operator< compares the address alone.  So            *)
(*   set<ServerData>              is a partial map from Addr to Socket,    *)
(*   map<ServerData, unsigned>    a partial map from Addr to the socket of *)
(*                                the first insertion and a timestamp,     *)
(*   set<pair<unsigned, ServerData>>  a set of entries of which no two     *)
(*                                have the same timestamp and address.     *)
(* A missing key is None in the first, NoStamp in the second.  An empty    *)
(* set under a signature and no set at all are the same to every handler.  *)
(*                                                                         *)
(* The environment is the main loop: it accepts connections, each from a   *)
(* process that announces one address, passes on their requests, and       *)
(* reports closed ones.  A Socket is the TcpSocket pointer, so it can come *)
(* back for another connection once it has been freed.                     *)
(***************************************************************************)
EXTENDS Integers

CONSTANTS
  Addr,        \* the (server_hostname, server_port) pairs
  Socket,      \* the TcpSocket pointers
  Signature,   \* the function signatures
  None,        \* no entry, no connection
  TimeMod,     \* the number of values of time_: 2^32 for an unsigned int
  MaxTime,     \* bound: no request is made once time_ has reached it
  AddrReuse    \* may a new process announce the address of one that is
               \* gone while the old connection is still in the database?

ASSUME ConstantsAssumption ==
  /\ None \notin Addr
  /\ None \notin Socket
  /\ TimeMod \in Nat /\ TimeMod > 1
  /\ MaxTime \in Nat
  /\ AddrReuse \in BOOLEAN

VARIABLES
  time,                \* time_
  serverQueue,         \* server_queue
  serverToTimestamp,   \* server_to_timestamp
  signatureToServers,  \* signature_to_servers
  response,            \* the message the last handler returned
  peer                 \* the address announced on each open connection

database == <<time, serverQueue, serverToTimestamp, signatureToServers>>
vars == <<database, response, peer>>

Timestamp == 0 .. TimeMod - 1
QueueEntry == [ts : Timestamp, addr : Addr, sock : Socket]
NoStamp == [sock |-> None, ts |-> 0]

RegisterSuccess(status) == [type |-> "REGISTER_SUCCESS", status |-> status]
LocateSuccess(a) == [type |-> "LOCATE_SUCCESS", server |-> a]
LocateFailure == [type |-> "LOCATE_FAILURE"]
TerminateSuccess == [type |-> "TERMINATE_SUCCESS"]
TerminateFailure(status) == [type |-> "TERMINATE_FAILURE", status |-> status]

\* A status is sent as one byte, and read back as a signed one.
StatusByte(status) == ((status + 128) % 256) - 128

UnexpectedMessage == StatusByte(-1003)
ServerConnectionError == StatusByte(-1004)

TerminateResponse ==
  {TerminateSuccess, TerminateFailure(UnexpectedMessage),
   TerminateFailure(ServerConnectionError)}
Answer ==
  {RegisterSuccess(0), RegisterSuccess(1), LocateFailure}
    \cup {LocateSuccess(a) : a \in Addr} \cup TerminateResponse
Response == Answer \cup {None}

-----------------------------------------------------------------------------
(* The handlers.                                                           *)

\* set::insert: an entry with the same timestamp and address stays as it is.
Insert(queue, entry) ==
  IF \E p \in queue : p.ts = entry.ts /\ p.addr = entry.addr
  THEN queue
  ELSE queue \cup {entry}

\* The server at a, known by socket k, becomes the most recently used one;
\* the entries in stale are erased from the queue first.  Assigning through
\* server_to_timestamp[server] keeps the socket of a key that is there.
Requeue(a, k, stale) ==
  /\ serverQueue' = Insert(serverQueue \ stale,
                           [ts |-> time, addr |-> a, sock |-> k])
  /\ serverToTimestamp' =
       [serverToTimestamp EXCEPT
          ![a] = [sock |-> IF @.sock = None THEN k ELSE @.sock, ts |-> time]]
  /\ time' = (time + 1) % TimeMod

\* Mutant: a server that registered anything before counts as a duplicate.
HandleRegisterOnce(g, a, k) ==
  \/ /\ serverToTimestamp[a] # NoStamp
     /\ response' = RegisterSuccess(1)
     /\ UNCHANGED database
  \/ /\ serverToTimestamp[a] = NoStamp
     /\ signatureToServers' = [signatureToServers EXCEPT ![g][a] = k]
     /\ Requeue(a, k, {})
     /\ response' = RegisterSuccess(0)

\* Mutant: the server's old place in the queue is kept.
HandleRegisterKeepsPlace(g, a, k) ==
  \/ /\ signatureToServers[g][a] # None
     /\ response' = RegisterSuccess(1)
     /\ UNCHANGED database
  \/ /\ signatureToServers[g][a] = None
     /\ signatureToServers' = [signatureToServers EXCEPT ![g][a] = k]
     /\ Requeue(a, k, {})
     /\ response' = RegisterSuccess(0)

HandleRegister(g, a, k) ==
  \/ /\ signatureToServers[g][a] # None
     /\ response' = RegisterSuccess(1)
     /\ UNCHANGED database
  \/ /\ signatureToServers[g][a] = None
     /\ signatureToServers' = [signatureToServers EXCEPT ![g][a] = k]
     /\ LET timestamp == serverToTimestamp[a].ts
        IN Requeue(a, k, {p \in serverQueue :
                            p.addr = a /\ p.ts = timestamp /\ timestamp > 0})
     /\ response' = RegisterSuccess(0)

\* The entries of the queue whose server serves g.
Serving(g) == {p \in serverQueue : signatureToServers[g][p.addr] # None}

\* Mutant: the server handed out keeps its timestamp.
HandleLocateNoRequeue(g) ==
  \/ /\ Serving(g) = {}
     /\ response' = LocateFailure
     /\ UNCHANGED database
  \/ \E p \in Serving(g) :
       /\ \A q \in Serving(g) : p.ts <= q.ts
       /\ response' = LocateSuccess(p.addr)
       /\ UNCHANGED database

\* Mutant: the most recently used server is handed out.
HandleLocateFromBack(g) ==
  \/ /\ Serving(g) = {}
     /\ response' = LocateFailure
     /\ UNCHANGED database
  \/ \E p \in Serving(g) :
       /\ \A q \in Serving(g) : p.ts >= q.ts
       /\ Requeue(p.addr, p.sock, {p})
       /\ response' = LocateSuccess(p.addr)
       /\ UNCHANGED signatureToServers

HandleLocate(g) ==
  \/ /\ Serving(g) = {}
     /\ response' = LocateFailure
     /\ UNCHANGED database
  \/ \E p \in Serving(g) :
       /\ \A q \in Serving(g) : p.ts <= q.ts
       /\ Requeue(p.addr, p.sock, {p})
       /\ response' = LocateSuccess(p.addr)
       /\ UNCHANGED signatureToServers

\* The exchange with the servers is in module Binder; the database is only
\* read, and the outcome of the exchange is returned.
HandleTerminate ==
  /\ response' \in TerminateResponse
  /\ (\A a \in Addr : serverToTimestamp[a] = NoStamp)
       => response' = TerminateSuccess
  /\ UNCHANGED database

\* Mutant: the connection is cleared in server_to_timestamp, the entry kept.
RemoveIfServerKeepsStamp(k) ==
  /\ serverQueue' = {p \in serverQueue : p.sock # k}
  /\ serverToTimestamp' =
       [a \in Addr |-> IF serverToTimestamp[a].sock = k
                       THEN [serverToTimestamp[a] EXCEPT !.sock = None]
                       ELSE serverToTimestamp[a]]
  /\ signatureToServers' =
       [g \in Signature |->
          [a \in Addr |-> IF signatureToServers[g][a] = k
                          THEN None ELSE signatureToServers[g][a]]]
  /\ UNCHANGED <<time, response>>

\* Mutant: the loop over server_to_timestamp is missing.
RemoveIfServerNoTimestamps(k) ==
  /\ serverQueue' = {p \in serverQueue : p.sock # k}
  /\ signatureToServers' =
       [g \in Signature |->
          [a \in Addr |-> IF signatureToServers[g][a] = k
                          THEN None ELSE signatureToServers[g][a]]]
  /\ UNCHANGED <<serverToTimestamp, time, response>>

\* Mutant: the loop over signature_to_servers is missing.
RemoveIfServerNoSignatures(k) ==
  /\ serverQueue' = {p \in serverQueue : p.sock # k}
  /\ serverToTimestamp' =
       [a \in Addr |-> IF serverToTimestamp[a].sock = k
                       THEN NoStamp ELSE serverToTimestamp[a]]
  /\ UNCHANGED <<signatureToServers, time, response>>

RemoveIfServer(k) ==
  /\ serverQueue' = {p \in serverQueue : p.sock # k}
  /\ serverToTimestamp' =
       [a \in Addr |-> IF serverToTimestamp[a].sock = k
                       THEN NoStamp ELSE serverToTimestamp[a]]
  /\ signatureToServers' =
       [g \in Signature |->
          [a \in Addr |-> IF signatureToServers[g][a] = k
                          THEN None ELSE signatureToServers[g][a]]]
  /\ UNCHANGED <<time, response>>

-----------------------------------------------------------------------------
(* The calls the main loop makes.                                          *)

Init ==
  /\ time = 1
  /\ serverQueue = {}
  /\ serverToTimestamp = [a \in Addr |-> NoStamp]
  /\ signatureToServers = [g \in Signature |-> [a \in Addr |-> None]]
  /\ response = None
  /\ peer = [k \in Socket |-> None]

Accept(k, a) ==
  /\ peer[k] = None
  /\ AddrReuse \/ \A j \in Socket : peer[j] # a
  /\ peer' = [peer EXCEPT ![k] = a]
  /\ UNCHANGED <<database, response>>

Register(k, g) ==
  /\ time < MaxTime
  /\ peer[k] # None
  /\ HandleRegister(g, peer[k], k)
  /\ UNCHANGED peer

Locate(g) ==
  /\ time < MaxTime
  /\ HandleLocate(g)
  /\ UNCHANGED peer

Terminate ==
  /\ HandleTerminate
  /\ UNCHANGED peer

\* A send on k failed: the server is removed, the connection still there.
SendFailed(k) ==
  /\ peer[k] # None
  /\ RemoveIfServer(k)
  /\ UNCHANGED peer

Closed(k) ==
  /\ peer[k] # None
  /\ RemoveIfServer(k)
  /\ peer' = [peer EXCEPT ![k] = None]

Next ==
  \/ \E k \in Socket, a \in Addr : Accept(k, a)
  \/ \E k \in Socket, g \in Signature : Register(k, g)
  \/ \E g \in Signature : Locate(g)
  \/ Terminate
  \/ \E k \in Socket : SendFailed(k)
  \/ \E k \in Socket : Closed(k)

Spec == Init /\ [][Next]_vars

-----------------------------------------------------------------------------
(* Properties.                                                             *)

\* Every variable has its type; time_ stays an unsigned int.
TypeOK ==
  /\ time \in Timestamp
  /\ serverQueue \subseteq QueueEntry
  /\ serverToTimestamp \in [Addr -> {NoStamp} \cup [sock : Socket, ts : Timestamp]]
  /\ signatureToServers \in [Signature -> [Addr -> Socket \cup {None}]]
  /\ response \in Response
  /\ peer \in [Socket -> Addr \cup {None}]

\* The three structures describe the same servers: every entry of the queue
\* carries the timestamp and the socket the server has in server_to_timestamp
\* (so no server is queued twice), every stamped server is queued, and every
\* registration is by the socket under which its server is stamped.
StructuresAgree ==
  /\ \A p \in serverQueue :
       serverToTimestamp[p.addr] = [sock |-> p.sock, ts |-> p.ts]
  /\ \A a \in Addr : serverToTimestamp[a] # NoStamp =>
       \E p \in serverQueue : p.addr = a
  /\ \A g \in Signature, a \in Addr : signatureToServers[g][a] # None =>
       serverToTimestamp[a].sock = signatureToServers[g][a]

\* A registered server can be located: handleLocate, having found servers
\* for a signature, finds one of them in the queue (binder.cc:101).
RegisteredIsQueued ==
  \A g \in Signature, a \in Addr : signatureToServers[g][a] # None =>
    \E p \in serverQueue : p.addr = a

\* No structure keeps the TcpSocket pointer of a connection that was closed:
\* handleTerminate would send through a freed object, and the pointer may
\* come back for the connection of another process.
NoDanglingSocket ==
  \A k \in Socket : peer[k] = None =>
    /\ \A p \in serverQueue : p.sock # k
    /\ \A a \in Addr : serverToTimestamp[a].sock # k
    /\ \A g \in Signature, a \in Addr : signatureToServers[g][a] # k

\* Round robin: the server just handed out is behind all others in the
\* queue, so none of them is passed over the next time.
JustLocatedIsLast ==
  \A p \in serverQueue : response = LocateSuccess(p.addr) =>
    \A q \in serverQueue : q.ts <= p.ts

\* What makes the invariants above inductive: timestamps lie in the past and
\* no two servers share one, servers are stamped under a connection of their
\* own, and no two connections announce the same address.
StampsArePast ==
  /\ time > 0
  /\ \A p \in serverQueue : 0 < p.ts /\ p.ts < time
  /\ \A p, q \in serverQueue : p.ts = q.ts => p = q

StampedByOwner ==
  \A a \in Addr : serverToTimestamp[a].sock # None =>
    peer[serverToTimestamp[a].sock] = a

AddressesDistinct ==
  \A j, k \in Socket : peer[j] # None /\ peer[j] = peer[k] => j = k

DatabaseInv ==
  /\ TypeOK
  /\ StructuresAgree
  /\ JustLocatedIsLast
  /\ StampsArePast
  /\ StampedByOwner
  /\ AddressesDistinct

\* The queue of timestamps hands out the server that has been idle longest,
\* and finds one whenever there is one: the promise of module RoundRobin.
RR == INSTANCE RoundRobin WITH
  Server   <- Addr,
  NoAnswer <- None,
  serves   <- [g \in Signature |-> {a \in Addr : signatureToServers[g][a] # None}],
  idle     <- {w \in Addr \X Addr : \E p, q \in serverQueue :
                 p.addr = w[1] /\ q.addr = w[2] /\ p.ts < q.ts},
  answer   <- response

ImplementsRoundRobin == RR!Spec

=============================================================================
