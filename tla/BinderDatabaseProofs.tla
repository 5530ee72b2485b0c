------------------------ MODULE BinderDatabaseProofs ------------------------
(***************************************************************************)
(* Theorems about BinderDatabase, for every set of addresses, connections  *)
(* and signatures and every value of the bounds.                           *)
(***************************************************************************)
EXTENDS BinderDatabase, TLAPS

-----------------------------------------------------------------------------
(* Type correctness.                                                       *)

\* A TerminateResponse is a Response, and None is one.
LEMMA Responses ==
  /\ None \in Response
  /\ LocateFailure \in Response
  /\ RegisterSuccess(0) \in Response
  /\ RegisterSuccess(1) \in Response
  /\ TerminateResponse \subseteq Response
  /\ \A a \in Addr : LocateSuccess(a) \in Response
BY DEF Response, Answer

\* The next value of time_ is an unsigned int again.
LEMMA NextTime ==
  ASSUME time \in Timestamp
  PROVE  (time + 1) % TimeMod \in Timestamp
BY ConstantsAssumption DEF Timestamp

\* Requeueing a server with a connection keeps the types.
LEMMA RequeueType ==
  ASSUME TypeOK, NEW a \in Addr, NEW k \in Socket, NEW stale, Requeue(a, k, stale)
  PROVE  /\ time' \in Timestamp
         /\ serverQueue' \subseteq QueueEntry
         /\ serverToTimestamp' \in
              [Addr -> {NoStamp} \cup [sock : Socket, ts : Timestamp]]
<1>1. time' \in Timestamp
  BY NextTime DEF TypeOK, Requeue
<1>2. serverQueue' \subseteq QueueEntry
  BY DEF TypeOK, Requeue, Insert, QueueEntry
<1>3. serverToTimestamp' \in
        [Addr -> {NoStamp} \cup [sock : Socket, ts : Timestamp]]
  <2> DEFINE old == serverToTimestamp[a]
             new == [sock |-> IF old.sock = None THEN k ELSE old.sock, ts |-> time]
  <2>1. old \in {NoStamp} \cup [sock : Socket, ts : Timestamp]
    BY DEF TypeOK
  <2>2. new \in [sock : Socket, ts : Timestamp]
    BY <2>1, ConstantsAssumption DEF TypeOK, NoStamp
  <2>3. serverToTimestamp' = [serverToTimestamp EXCEPT ![a] = new]
    BY DEF Requeue
  <2> QED
    BY <2>2, <2>3 DEF TypeOK
<1> QED
  BY <1>1, <1>2, <1>3

\* Removing a server keeps the types.
LEMMA RemoveType ==
  ASSUME TypeOK, NEW k \in Socket, RemoveIfServer(k)
  PROVE  /\ time' \in Timestamp
         /\ serverQueue' \subseteq QueueEntry
         /\ serverToTimestamp' \in
              [Addr -> {NoStamp} \cup [sock : Socket, ts : Timestamp]]
         /\ signatureToServers' \in [Signature -> [Addr -> Socket \cup {None}]]
         /\ response' \in Response
BY DEF TypeOK, RemoveIfServer

LEMMA InitType == Init => TypeOK
<1> SUFFICES ASSUME Init PROVE TypeOK
  OBVIOUS
<1>1. time \in Timestamp
  BY ConstantsAssumption DEF Init, Timestamp
<1> QED
  BY <1>1, Responses DEF Init, TypeOK

LEMMA NextType == TypeOK /\ [Next]_vars => TypeOK'
<1> SUFFICES ASSUME TypeOK, [Next]_vars PROVE TypeOK'
  OBVIOUS
<1>1. ASSUME NEW k \in Socket, NEW a \in Addr, Accept(k, a) PROVE TypeOK'
  BY <1>1 DEF TypeOK, Accept, database
<1>2. ASSUME NEW k \in Socket, NEW g \in Signature, Register(k, g) PROVE TypeOK'
  <2>1. peer[k] \in Addr /\ peer' = peer /\ HandleRegister(g, peer[k], k)
    BY <1>2 DEF Register, TypeOK
  <2>2. CASE response' = RegisterSuccess(1) /\ UNCHANGED database
    BY <2>1, <2>2, Responses DEF TypeOK, database
  <2>3. CASE /\ signatureToServers' = [signatureToServers EXCEPT ![g][peer[k]] = k]
             /\ \E stale : Requeue(peer[k], k, stale)
             /\ response' = RegisterSuccess(0)
    <3>1. PICK stale : Requeue(peer[k], k, stale)
      BY <2>3
    <3>2. signatureToServers' \in [Signature -> [Addr -> Socket \cup {None}]]
      BY <2>1, <2>3 DEF TypeOK
    <3> QED
      BY <2>1, <2>3, <3>1, <3>2, RequeueType, Responses DEF TypeOK
  <2> QED
    BY <2>1, <2>2, <2>3 DEF HandleRegister
<1>3. ASSUME NEW g \in Signature, Locate(g) PROVE TypeOK'
  <2>1. HandleLocate(g) /\ peer' = peer
    BY <1>3 DEF Locate
  <2>2. CASE response' = LocateFailure /\ UNCHANGED database
    BY <2>1, <2>2, Responses DEF TypeOK, database
  <2>3. ASSUME NEW p \in Serving(g),
               Requeue(p.addr, p.sock, {p}),
               response' = LocateSuccess(p.addr),
               UNCHANGED signatureToServers
        PROVE TypeOK'
    <3>1. p.addr \in Addr /\ p.sock \in Socket
      BY DEF Serving, TypeOK, QueueEntry
    <3> QED
      BY <2>1, <2>3, <3>1, RequeueType, Responses DEF TypeOK
  <2> QED
    BY <2>1, <2>2, <2>3 DEF HandleLocate
<1>4. ASSUME Terminate PROVE TypeOK'
  BY <1>4, Responses DEF Terminate, HandleTerminate, TypeOK, database
<1>5. ASSUME NEW k \in Socket, SendFailed(k) PROVE TypeOK'
  BY <1>5, RemoveType DEF SendFailed, TypeOK
<1>6. ASSUME NEW k \in Socket, Closed(k) PROVE TypeOK'
  <2>1. peer' \in [Socket -> Addr \cup {None}]
    BY <1>6 DEF Closed, TypeOK
  <2> QED
    BY <1>6, <2>1, RemoveType DEF Closed, TypeOK
<1>7. CASE UNCHANGED vars
  BY <1>7 DEF TypeOK, vars, database
<1> QED
  BY <1>1, <1>2, <1>3, <1>4, <1>5, <1>6, <1>7 DEF Next

\* The structures of BinderDatabase always have their types, and time_ stays
\* an unsigned int when it wraps (binder.cc:30-33).
THEOREM TypeCorrect == Spec => []TypeOK
BY InitType, NextType, PTL DEF Spec

-----------------------------------------------------------------------------
(* No pointer to a closed connection is kept.  The invariant is inductive  *)
(* as it stands, whether or not addresses are reused.                      *)

\* Requeueing a server known by an open connection adds no dangling pointer.
LEMMA RequeueNoDangling ==
  ASSUME TypeOK, NoDanglingSocket, NEW a \in Addr, NEW k \in Socket, NEW stale,
         Requeue(a, k, stale), peer[k] # None, NEW j \in Socket, peer[j] = None
  PROVE  /\ \A p \in serverQueue' : p.sock # j
         /\ \A b \in Addr : serverToTimestamp'[b].sock # j
<1>1. \A p \in serverQueue' : p.sock # j
  BY DEF NoDanglingSocket, Requeue, Insert
<1>2. ASSUME NEW b \in Addr PROVE serverToTimestamp'[b].sock # j
  <2>1. CASE b # a
    BY <2>1 DEF NoDanglingSocket, Requeue, TypeOK
  <2>2. CASE b = a
    <3>1. serverToTimestamp'[a].sock =
            IF serverToTimestamp[a].sock = None THEN k ELSE serverToTimestamp[a].sock
      BY DEF Requeue, TypeOK
    <3> QED
      BY <2>2, <3>1 DEF NoDanglingSocket
  <2> QED
    BY <2>1, <2>2
<1> QED
  BY <1>1, <1>2

\* After removeIfServer no structure mentions the connection.
LEMMA RemoveForgets ==
  ASSUME TypeOK, NEW k \in Socket, RemoveIfServer(k)
  PROVE  /\ \A p \in serverQueue' : p.sock # k
         /\ \A a \in Addr : serverToTimestamp'[a].sock # k
         /\ \A g \in Signature, a \in Addr : signatureToServers'[g][a] # k
BY ConstantsAssumption DEF TypeOK, RemoveIfServer, NoStamp

\* removeIfServer adds nothing: what is left was there before.
LEMMA RemoveAddsNothing ==
  ASSUME TypeOK, NEW k \in Socket, RemoveIfServer(k)
  PROVE  /\ serverQueue' \subseteq serverQueue
         /\ \A a \in Addr : serverToTimestamp'[a] \in {serverToTimestamp[a], NoStamp}
         /\ \A g \in Signature, a \in Addr :
              signatureToServers'[g][a] \in {signatureToServers[g][a], None}
BY DEF TypeOK, RemoveIfServer

LEMMA RemoveNoDangling ==
  ASSUME TypeOK, NoDanglingSocket, NEW k \in Socket, RemoveIfServer(k),
         NEW j \in Socket, peer[j] = None \/ j = k
  PROVE  /\ \A p \in serverQueue' : p.sock # j
         /\ \A a \in Addr : serverToTimestamp'[a].sock # j
         /\ \A g \in Signature, a \in Addr : signatureToServers'[g][a] # j
<1>1. NoStamp.sock # j /\ None # j
  BY ConstantsAssumption DEF NoStamp
<1>2. CASE j = k
  BY <1>2, RemoveForgets
<1>3. CASE peer[j] = None
  BY <1>1, <1>3, RemoveAddsNothing DEF NoDanglingSocket
<1> QED
  BY <1>2, <1>3

LEMMA NextNoDangling ==
  TypeOK /\ NoDanglingSocket /\ [Next]_vars => NoDanglingSocket'
<1> SUFFICES ASSUME TypeOK, NoDanglingSocket, [Next]_vars
             PROVE  NoDanglingSocket'
  OBVIOUS
<1>1. ASSUME NEW k \in Socket, NEW a \in Addr, Accept(k, a)
      PROVE  NoDanglingSocket'
  <2>1. \A j \in Socket : peer'[j] = None => peer[j] = None
    BY <1>1 DEF Accept, TypeOK
  <2> QED
    BY <1>1, <2>1 DEF Accept, NoDanglingSocket, database
<1>2. ASSUME NEW k \in Socket, NEW g \in Signature, Register(k, g)
      PROVE  NoDanglingSocket'
  <2>1. /\ peer[k] # None /\ peer[k] \in Addr /\ peer' = peer
        /\ HandleRegister(g, peer[k], k)
    BY <1>2 DEF Register, TypeOK
  <2>2. CASE UNCHANGED database
    BY <2>1, <2>2 DEF NoDanglingSocket, database
  <2>3. CASE /\ signatureToServers' = [signatureToServers EXCEPT ![g][peer[k]] = k]
             /\ \E stale : Requeue(peer[k], k, stale)
    <3> SUFFICES ASSUME NEW j \in Socket, peer[j] = None
                 PROVE  /\ \A p \in serverQueue' : p.sock # j
                        /\ \A a \in Addr : serverToTimestamp'[a].sock # j
                        /\ \A h \in Signature, a \in Addr :
                             signatureToServers'[h][a] # j
      BY <2>1 DEF NoDanglingSocket
    <3>1. \A h \in Signature, a \in Addr :
            signatureToServers'[h][a] \in {signatureToServers[h][a], k}
      BY <2>1, <2>3 DEF TypeOK
    <3> QED
      BY <2>1, <2>3, <3>1, RequeueNoDangling DEF NoDanglingSocket
  <2> QED
    BY <2>1, <2>2, <2>3 DEF HandleRegister
<1>3. ASSUME NEW g \in Signature, Locate(g) PROVE NoDanglingSocket'
  <2>1. HandleLocate(g) /\ peer' = peer
    BY <1>3 DEF Locate
  <2>2. CASE UNCHANGED database
    BY <2>1, <2>2 DEF NoDanglingSocket, database
  <2>3. ASSUME NEW p \in Serving(g), Requeue(p.addr, p.sock, {p}),
               UNCHANGED signatureToServers
        PROVE  NoDanglingSocket'
    <3>1. p \in serverQueue /\ p.addr \in Addr /\ p.sock \in Socket
      BY DEF Serving, TypeOK, QueueEntry
    <3>2. peer[p.sock] # None
      BY <3>1 DEF NoDanglingSocket
    <3> QED
      BY <2>1, <2>3, <3>1, <3>2, RequeueNoDangling DEF NoDanglingSocket
  <2> QED
    BY <2>1, <2>2, <2>3 DEF HandleLocate
<1>4. ASSUME Terminate PROVE NoDanglingSocket'
  BY <1>4 DEF Terminate, HandleTerminate, NoDanglingSocket, database
<1>5. ASSUME NEW k \in Socket, SendFailed(k) PROVE NoDanglingSocket'
  BY <1>5, RemoveNoDangling DEF SendFailed, NoDanglingSocket
<1>6. ASSUME NEW k \in Socket, Closed(k) PROVE NoDanglingSocket'
  <2>1. \A j \in Socket : peer'[j] = None => peer[j] = None \/ j = k
    BY <1>6 DEF Closed, TypeOK
  <2>2. RemoveIfServer(k)
    BY <1>6 DEF Closed
  <2> QED
    BY <2>1, <2>2, RemoveNoDangling DEF NoDanglingSocket
<1>7. CASE UNCHANGED vars
  BY <1>7 DEF NoDanglingSocket, vars, database
<1> QED
  BY <1>1, <1>2, <1>3, <1>4, <1>5, <1>6, <1>7 DEF Next

\* No structure keeps the TcpSocket of a connection that was closed
\* (binder.cc:162-190), even if a new process takes the address of an old one.
THEOREM NoDanglingSocketHolds == Spec => []NoDanglingSocket
<1>1. Init => NoDanglingSocket
  BY ConstantsAssumption DEF Init, NoDanglingSocket, NoStamp
<1> QED
  BY <1>1, TypeCorrect, NextNoDangling, PTL DEF Spec

-----------------------------------------------------------------------------
(* The structures agree, as long as time_ does not wrap and no address is  *)
(* reused while its connection is open.                                    *)

NoWrap == MaxTime < TimeMod

\* What Requeue does when the stale entries are those of the server.
LEMMA RequeueEffect ==
  ASSUME DatabaseInv, NoWrap, time < MaxTime,
         NEW a \in Addr, NEW k \in Socket,
         serverToTimestamp[a].sock \in {None, k},
         Requeue(a, k, {p \in serverQueue : p.addr = a})
  PROVE  /\ time' = time + 1
         /\ serverQueue' = {p \in serverQueue : p.addr # a}
                             \cup {[ts |-> time, addr |-> a, sock |-> k]}
         /\ serverToTimestamp' =
              [serverToTimestamp EXCEPT ![a] = [sock |-> k, ts |-> time]]
<1>1. time' = time + 1
  <2>1. time \in Nat /\ TimeMod \in Nat /\ time + 1 < TimeMod
    BY ConstantsAssumption DEF DatabaseInv, TypeOK, Timestamp, NoWrap
  <2>2. (time + 1) % TimeMod = time + 1
    BY <2>1
  <2> QED
    BY <2>2 DEF Requeue
<1>2. \A p \in serverQueue : p.ts # time
  BY DEF DatabaseInv, StampsArePast, TypeOK, QueueEntry, Timestamp
<1>3. serverQueue' = {p \in serverQueue : p.addr # a}
                       \cup {[ts |-> time, addr |-> a, sock |-> k]}
  BY <1>2 DEF Requeue, Insert
<1>4. serverToTimestamp' =
        [serverToTimestamp EXCEPT ![a] = [sock |-> k, ts |-> time]]
  BY DEF Requeue
<1> QED
  BY <1>1, <1>3, <1>4

\* A server in the queue has one entry, its stamp.
LEMMA OneEntry ==
  ASSUME DatabaseInv, NEW p \in serverQueue
  PROVE  /\ {q \in serverQueue : q.addr = p.addr} = {p}
         /\ p.addr \in Addr /\ p.sock \in Socket
         /\ serverToTimestamp[p.addr] = [sock |-> p.sock, ts |-> p.ts]
<1>1. p.addr \in Addr /\ p.sock \in Socket
  BY DEF DatabaseInv, TypeOK, QueueEntry
<1>2. \A q \in serverQueue : serverToTimestamp[q.addr] = [sock |-> q.sock, ts |-> q.ts]
  BY DEF DatabaseInv, StructuresAgree
<1>3. ASSUME NEW q \in serverQueue, q.addr = p.addr PROVE q = p
  <2>1. /\ serverToTimestamp[q.addr] = [sock |-> q.sock, ts |-> q.ts]
        /\ serverToTimestamp[q.addr] = [sock |-> p.sock, ts |-> p.ts]
    BY <1>2, <1>3
  <2>2. q.ts = p.ts
    BY <2>1
  <2> QED
    BY <2>2 DEF DatabaseInv, StampsArePast
<1> QED
  BY <1>1, <1>2, <1>3

\* Requeueing keeps what the invariant says of the queue and the stamps.
LEMMA RequeueInv ==
  ASSUME DatabaseInv, NoWrap, time < MaxTime,
         NEW a \in Addr, NEW k \in Socket, peer[k] = a, UNCHANGED peer,
         serverToTimestamp[a].sock \in {None, k},
         Requeue(a, k, {p \in serverQueue : p.addr = a})
  PROVE  /\ \A p \in serverQueue' :
              serverToTimestamp'[p.addr] = [sock |-> p.sock, ts |-> p.ts]
         /\ \A b \in Addr : serverToTimestamp'[b] # NoStamp =>
              \E p \in serverQueue' : p.addr = b
         /\ StampsArePast' /\ StampedByOwner' /\ AddressesDistinct'
<1> DEFINE new == [ts |-> time, addr |-> a, sock |-> k]
<1>1. /\ time' = time + 1
      /\ serverQueue' = {p \in serverQueue : p.addr # a} \cup {new}
      /\ serverToTimestamp' =
           [serverToTimestamp EXCEPT ![a] = [sock |-> k, ts |-> time]]
  BY RequeueEffect
<1>2. time \in Nat /\ serverToTimestamp \in [Addr -> {NoStamp} \cup [sock : Socket, ts : Timestamp]]
  BY DEF DatabaseInv, TypeOK, Timestamp
<1>3. \A p \in serverQueue : p.addr \in Addr /\ p.ts \in Nat
  BY DEF DatabaseInv, TypeOK, QueueEntry, Timestamp
<1>4. ASSUME NEW p \in serverQueue'
      PROVE  serverToTimestamp'[p.addr] = [sock |-> p.sock, ts |-> p.ts]
  <2>1. CASE p = new
    BY <1>1, <1>2, <2>1
  <2>2. CASE p \in serverQueue /\ p.addr # a
    BY <1>1, <1>2, <1>3, <2>2 DEF DatabaseInv, StructuresAgree
  <2> QED
    BY <1>1, <2>1, <2>2
<1>5. ASSUME NEW b \in Addr, serverToTimestamp'[b] # NoStamp
      PROVE  \E p \in serverQueue' : p.addr = b
  <2>1. CASE b = a
    <3>1. new \in serverQueue' /\ new.addr = b
      BY <1>1, <2>1
    <3> QED
      BY <3>1
  <2>2. CASE b # a
    BY <1>1, <1>2, <1>5, <2>2 DEF DatabaseInv, StructuresAgree
  <2> QED
    BY <2>1, <2>2
<1>6. StampsArePast'
  <2>1. \A p \in serverQueue : 0 < p.ts /\ p.ts < time
    BY DEF DatabaseInv, StampsArePast
  <2>2. time' > 0 /\ \A p \in serverQueue' : 0 < p.ts /\ p.ts < time'
    BY <1>1, <1>2, <1>3, <2>1 DEF DatabaseInv, StampsArePast
  <2>3. \A p, q \in serverQueue' : p.ts = q.ts => p = q
    BY <1>1, <1>2, <1>3, <2>1 DEF DatabaseInv, StampsArePast
  <2> QED
    BY <2>2, <2>3 DEF StampsArePast
<1>7. StampedByOwner'
  BY <1>1, <1>2 DEF DatabaseInv, StampedByOwner
<1>8. AddressesDistinct'
  BY DEF DatabaseInv, AddressesDistinct
<1> QED
  BY <1>4, <1>5, <1>6, <1>7, <1>8

\* removeIfServer keeps the invariant, whatever happens to the connection.
LEMMA RemoveInv ==
  ASSUME DatabaseInv, TypeOK', NEW k \in Socket, RemoveIfServer(k),
         \A j \in Socket : peer'[j] = peer[j] \/ (j = k /\ peer'[j] = None)
  PROVE  DatabaseInv'
<1>1. /\ serverQueue' = {p \in serverQueue : p.sock # k}
      /\ \A a \in Addr : serverToTimestamp'[a] =
           IF serverToTimestamp[a].sock = k THEN NoStamp ELSE serverToTimestamp[a]
      /\ \A g \in Signature, a \in Addr : signatureToServers'[g][a] =
           IF signatureToServers[g][a] = k THEN None ELSE signatureToServers[g][a]
      /\ time' = time /\ response' = response
  BY DEF RemoveIfServer
<1>2. ASSUME NEW p \in serverQueue'
      PROVE  serverToTimestamp'[p.addr] = [sock |-> p.sock, ts |-> p.ts]
  <2>1. p \in serverQueue /\ p.sock # k
    BY <1>1
  <2>2. p.addr \in Addr /\ serverToTimestamp[p.addr] = [sock |-> p.sock, ts |-> p.ts]
    BY <2>1, OneEntry
  <2>3. serverToTimestamp[p.addr].sock # k
    BY <2>1, <2>2
  <2> QED
    BY <1>1, <2>2, <2>3
<1>3. ASSUME NEW a \in Addr, serverToTimestamp'[a] # NoStamp
      PROVE  \E p \in serverQueue' : p.addr = a
  <2>1. serverToTimestamp[a] # NoStamp /\ serverToTimestamp[a].sock # k
    BY <1>1, <1>3
  <2>2. PICK p \in serverQueue : p.addr = a
    BY <2>1 DEF DatabaseInv, StructuresAgree
  <2>3. serverToTimestamp[a] = [sock |-> p.sock, ts |-> p.ts]
    BY <2>2, OneEntry
  <2>4. p.sock # k
    BY <2>1, <2>3
  <2> QED
    BY <1>1, <2>2, <2>4
<1>4. ASSUME NEW g \in Signature, NEW a \in Addr, signatureToServers'[g][a] # None
      PROVE  serverToTimestamp'[a].sock = signatureToServers'[g][a]
  BY <1>1, <1>4 DEF DatabaseInv, StructuresAgree
<1>5. StructuresAgree'
  BY <1>2, <1>3, <1>4 DEF StructuresAgree
<1>6. JustLocatedIsLast' /\ StampsArePast'
  BY <1>1 DEF DatabaseInv, JustLocatedIsLast, StampsArePast
<1>7. StampedByOwner'
  <2> SUFFICES ASSUME NEW a \in Addr, serverToTimestamp'[a].sock # None
               PROVE  peer'[serverToTimestamp'[a].sock] = a
    BY DEF StampedByOwner
  <2>1. serverToTimestamp'[a] = serverToTimestamp[a] /\ serverToTimestamp[a].sock # k
    BY <1>1 DEF NoStamp
  <2>2. serverToTimestamp[a].sock \in Socket
    BY <2>1 DEF DatabaseInv, TypeOK, NoStamp
  <2> QED
    BY <2>1, <2>2 DEF DatabaseInv, StampedByOwner
<1>8. AddressesDistinct'
  BY DEF DatabaseInv, AddressesDistinct
<1> QED
  BY <1>5, <1>6, <1>7, <1>8 DEF DatabaseInv

\* handleRegister erases the old entry of the server, whose stamp is known
\* under the caller's connection, if it has one.
LEMMA RegisterRequeues ==
  ASSUME DatabaseInv, NEW k \in Socket, NEW a \in Addr, peer[k] = a,
         LET timestamp == serverToTimestamp[a].ts
         IN Requeue(a, k, {p \in serverQueue :
                             p.addr = a /\ p.ts = timestamp /\ timestamp > 0})
  PROVE  /\ serverToTimestamp[a].sock \in {None, k}
         /\ Requeue(a, k, {p \in serverQueue : p.addr = a})
<1>1. serverToTimestamp[a].sock \in {None, k}
  <2>1. serverToTimestamp[a].sock \in Socket \cup {None}
    BY DEF DatabaseInv, TypeOK, NoStamp
  <2> QED
    BY <2>1, ConstantsAssumption DEF DatabaseInv, StampedByOwner, AddressesDistinct
<1>2. {p \in serverQueue : p.addr = a /\ p.ts = serverToTimestamp[a].ts
                            /\ serverToTimestamp[a].ts > 0}
        = {p \in serverQueue : p.addr = a}
  <2>1. ASSUME NEW p \in serverQueue, p.addr = a
        PROVE  p.ts = serverToTimestamp[a].ts /\ serverToTimestamp[a].ts > 0
    <3>1. serverToTimestamp[a] = [sock |-> p.sock, ts |-> p.ts]
      BY <2>1, OneEntry
    <3> QED
      BY <3>1 DEF DatabaseInv, StampsArePast
  <2> QED
    BY <2>1
<1> QED
  BY <1>1, <1>2

\* The one entry handleLocate erases is all the queue has of the server.
LEMMA LocateRequeues ==
  ASSUME DatabaseInv, NEW g \in Signature, NEW p \in Serving(g),
         Requeue(p.addr, p.sock, {p})
  PROVE  /\ p.addr \in Addr /\ p.sock \in Socket
         /\ serverToTimestamp[p.addr].sock = p.sock
         /\ peer[p.sock] = p.addr
         /\ Requeue(p.addr, p.sock, {q \in serverQueue : q.addr = p.addr})
<1>1. /\ p \in serverQueue /\ p.addr \in Addr /\ p.sock \in Socket
      /\ {p} = {q \in serverQueue : q.addr = p.addr}
      /\ serverToTimestamp[p.addr] = [sock |-> p.sock, ts |-> p.ts]
  BY OneEntry DEF Serving
<1>2. serverToTimestamp[p.addr].sock = p.sock
  BY <1>1
<1>3. peer[p.sock] = p.addr
  BY <1>1, <1>2, ConstantsAssumption DEF DatabaseInv, StampedByOwner
<1> QED
  BY <1>1, <1>2, <1>3

LEMMA InitInv == Init => DatabaseInv
<1> SUFFICES ASSUME Init PROVE DatabaseInv
  OBVIOUS
<1>1. TypeOK
  BY InitType
<1>2. StructuresAgree
  BY DEF Init, StructuresAgree, NoStamp
<1>3. JustLocatedIsLast /\ StampsArePast
  BY DEF Init, JustLocatedIsLast, StampsArePast
<1>4. StampedByOwner /\ AddressesDistinct
  BY DEF Init, StampedByOwner, AddressesDistinct, NoStamp
<1> QED
  BY <1>1, <1>2, <1>3, <1>4 DEF DatabaseInv

LEMMA NextInv ==
  ASSUME NoWrap, ~AddrReuse
  PROVE  DatabaseInv /\ [Next]_vars => DatabaseInv'
<1> SUFFICES ASSUME DatabaseInv, [Next]_vars PROVE DatabaseInv'
  OBVIOUS
<1>0. TypeOK /\ TypeOK'
  BY NextType DEF DatabaseInv
<1>1. ASSUME NEW k \in Socket, NEW a \in Addr, Accept(k, a) PROVE DatabaseInv'
  <2>1. /\ peer[k] = None /\ (\A j \in Socket : peer[j] # a)
        /\ peer' = [peer EXCEPT ![k] = a]
        /\ UNCHANGED <<database, response>>
    BY <1>1 DEF Accept
  <2>2. StructuresAgree' /\ JustLocatedIsLast' /\ StampsArePast'
    BY <2>1 DEF DatabaseInv, StructuresAgree, JustLocatedIsLast, StampsArePast, database
  <2>3. StampedByOwner'
    BY <1>0, <2>1, ConstantsAssumption
       DEF DatabaseInv, StampedByOwner, TypeOK, NoStamp, database
  <2>4. AddressesDistinct'
    BY <1>0, <2>1, ConstantsAssumption DEF DatabaseInv, AddressesDistinct, TypeOK
  <2> QED
    BY <1>0, <2>2, <2>3, <2>4 DEF DatabaseInv
<1>2. ASSUME NEW k \in Socket, NEW g \in Signature, Register(k, g)
      PROVE  DatabaseInv'
  <2> DEFINE a == peer[k]
  <2>1. /\ time < MaxTime /\ a \in Addr /\ peer' = peer
        /\ HandleRegister(g, a, k)
    BY <1>0, <1>2 DEF Register, TypeOK
  <2>2. CASE response' = RegisterSuccess(1) /\ UNCHANGED database
    <3>1. JustLocatedIsLast'
      BY <2>2 DEF JustLocatedIsLast, RegisterSuccess, LocateSuccess
    <3>2. StructuresAgree' /\ StampsArePast' /\ StampedByOwner' /\ AddressesDistinct'
      BY <2>1, <2>2 DEF DatabaseInv, StructuresAgree, StampsArePast,
                        StampedByOwner, AddressesDistinct, database
    <3> QED
      BY <1>0, <3>1, <3>2 DEF DatabaseInv
  <2>3. CASE /\ signatureToServers' = [signatureToServers EXCEPT ![g][a] = k]
             /\ LET timestamp == serverToTimestamp[a].ts
                IN Requeue(a, k, {p \in serverQueue :
                                    p.addr = a /\ p.ts = timestamp /\ timestamp > 0})
             /\ response' = RegisterSuccess(0)
    <3>1. /\ serverToTimestamp[a].sock \in {None, k}
          /\ Requeue(a, k, {p \in serverQueue : p.addr = a})
      BY <2>1, <2>3, RegisterRequeues
    <3>4. /\ \A p \in serverQueue' :
               serverToTimestamp'[p.addr] = [sock |-> p.sock, ts |-> p.ts]
          /\ \A b \in Addr : serverToTimestamp'[b] # NoStamp =>
               \E p \in serverQueue' : p.addr = b
          /\ StampsArePast' /\ StampedByOwner' /\ AddressesDistinct'
      BY <2>1, <3>1, RequeueInv
    <3>5. serverToTimestamp' =
            [serverToTimestamp EXCEPT ![a] = [sock |-> k, ts |-> time]]
      BY <2>1, <3>1, RequeueEffect
    <3>6. ASSUME NEW h \in Signature, NEW b \in Addr, signatureToServers'[h][b] # None
          PROVE  serverToTimestamp'[b].sock = signatureToServers'[h][b]
      <4>1. CASE b # a
        BY <1>0, <2>1, <2>3, <3>5, <3>6, <4>1 DEF DatabaseInv, StructuresAgree, TypeOK
      <4>2. CASE b = a
        <5>1. serverToTimestamp'[b].sock = k
          BY <1>0, <2>1, <3>5, <4>2 DEF TypeOK
        <5>2. signatureToServers[h][a] \in {None, k}
          BY <2>1, <3>1 DEF DatabaseInv, StructuresAgree
        <5>3. signatureToServers'[h][b] \in {k, signatureToServers[h][a]}
          BY <1>0, <2>1, <2>3, <4>2 DEF TypeOK
        <5> QED
          BY <3>6, <5>1, <5>2, <5>3
      <4> QED
        BY <4>1, <4>2
    <3>7. StructuresAgree'
      BY <3>4, <3>6 DEF StructuresAgree
    <3>8. JustLocatedIsLast'
      BY <2>3 DEF JustLocatedIsLast, RegisterSuccess, LocateSuccess
    <3> QED
      BY <1>0, <3>4, <3>7, <3>8 DEF DatabaseInv
  <2> QED
    BY <2>1, <2>2, <2>3 DEF HandleRegister
<1>3. ASSUME NEW g \in Signature, Locate(g) PROVE DatabaseInv'
  <2>1. HandleLocate(g) /\ peer' = peer /\ time < MaxTime
    BY <1>3 DEF Locate
  <2>2. CASE response' = LocateFailure /\ UNCHANGED database
    <3>1. JustLocatedIsLast'
      BY <2>2 DEF JustLocatedIsLast, LocateFailure, LocateSuccess
    <3>2. StructuresAgree' /\ StampsArePast' /\ StampedByOwner' /\ AddressesDistinct'
      BY <2>1, <2>2 DEF DatabaseInv, StructuresAgree, StampsArePast,
                        StampedByOwner, AddressesDistinct, database
    <3> QED
      BY <1>0, <3>1, <3>2 DEF DatabaseInv
  <2>3. ASSUME NEW p \in Serving(g), Requeue(p.addr, p.sock, {p}),
               response' = LocateSuccess(p.addr), UNCHANGED signatureToServers
        PROVE  DatabaseInv'
    <3>1. /\ p.addr \in Addr /\ p.sock \in Socket
          /\ serverToTimestamp[p.addr].sock = p.sock
          /\ peer[p.sock] = p.addr
          /\ Requeue(p.addr, p.sock, {q \in serverQueue : q.addr = p.addr})
      BY <2>3, LocateRequeues
    <3>4. /\ \A q \in serverQueue' :
               serverToTimestamp'[q.addr] = [sock |-> q.sock, ts |-> q.ts]
          /\ \A b \in Addr : serverToTimestamp'[b] # NoStamp =>
               \E q \in serverQueue' : q.addr = b
          /\ StampsArePast' /\ StampedByOwner' /\ AddressesDistinct'
      BY <2>1, <3>1, RequeueInv
    <3>5. /\ serverToTimestamp' =
               [serverToTimestamp EXCEPT ![p.addr] = [sock |-> p.sock, ts |-> time]]
          /\ serverQueue' = {q \in serverQueue : q.addr # p.addr}
               \cup {[ts |-> time, addr |-> p.addr, sock |-> p.sock]}
      BY <2>1, <3>1, RequeueEffect
    <3>6. \A b \in Addr : serverToTimestamp'[b].sock = serverToTimestamp[b].sock
      BY <1>0, <3>1, <3>5 DEF TypeOK
    <3>7. StructuresAgree'
      BY <2>3, <3>4, <3>6 DEF DatabaseInv, StructuresAgree
    <3>8. JustLocatedIsLast'
      <4> SUFFICES ASSUME NEW r \in serverQueue', response' = LocateSuccess(r.addr),
                          NEW q \in serverQueue'
                   PROVE  q.ts <= r.ts
        BY DEF JustLocatedIsLast, LocateSuccess
      <4>1. r.addr = p.addr
        BY <2>3 DEF LocateSuccess
      <4>2. r.ts = time
        BY <3>5, <4>1
      <4>3. q.ts = time \/ q \in serverQueue
        BY <3>5
      <4> QED
        BY <1>0, <4>2, <4>3
           DEF DatabaseInv, StampsArePast, TypeOK, QueueEntry, Timestamp
    <3> QED
      BY <1>0, <3>4, <3>7, <3>8 DEF DatabaseInv
  <2> QED
    BY <2>1, <2>2, <2>3 DEF HandleLocate
<1>4. ASSUME Terminate PROVE DatabaseInv'
  <2>1. response' \in TerminateResponse /\ UNCHANGED <<database, peer>>
    BY <1>4 DEF Terminate, HandleTerminate
  <2>2. JustLocatedIsLast'
    BY <2>1 DEF JustLocatedIsLast, TerminateResponse, TerminateSuccess,
                TerminateFailure, LocateSuccess
  <2>3. StructuresAgree' /\ StampsArePast' /\ StampedByOwner' /\ AddressesDistinct'
    BY <2>1 DEF DatabaseInv, StructuresAgree, StampsArePast,
                StampedByOwner, AddressesDistinct, database
  <2> QED
    BY <1>0, <2>2, <2>3 DEF DatabaseInv
<1>5. ASSUME NEW k \in Socket, SendFailed(k) PROVE DatabaseInv'
  BY <1>0, <1>5, RemoveInv DEF SendFailed
<1>6. ASSUME NEW k \in Socket, Closed(k) PROVE DatabaseInv'
  <2>1. \A j \in Socket : peer'[j] = peer[j] \/ (j = k /\ peer'[j] = None)
    BY <1>0, <1>6 DEF Closed, TypeOK
  <2>2. RemoveIfServer(k)
    BY <1>6 DEF Closed
  <2> QED
    BY <1>0, <2>1, <2>2, RemoveInv
<1>7. CASE UNCHANGED vars
  BY <1>0, <1>7 DEF DatabaseInv, StructuresAgree, JustLocatedIsLast,
     StampsArePast, StampedByOwner, AddressesDistinct, vars, database
<1> QED
  BY <1>1, <1>2, <1>3, <1>4, <1>5, <1>6, <1>7 DEF Next

\* While time_ does not wrap and addresses are not reused, the invariant holds.
THEOREM DatabaseInvariant ==
  ASSUME NoWrap, ~AddrReuse
  PROVE  Spec => []DatabaseInv
BY InitInv, NextInv, PTL DEF Spec

\* server_queue, server_to_timestamp and signature_to_servers describe the
\* same servers (binder.cc:31-33).
THEOREM StructuresAgreeHolds ==
  ASSUME NoWrap, ~AddrReuse
  PROVE  Spec => []StructuresAgree
<1>1. DatabaseInv => StructuresAgree
  BY DEF DatabaseInv
<1> QED
  BY <1>1, DatabaseInvariant, PTL

\* handleLocate finds a server in the queue whenever one is registered for
\* the signature: the commented assertion of binder.cc:101 holds.
THEOREM RegisteredIsQueuedHolds ==
  ASSUME NoWrap, ~AddrReuse
  PROVE  Spec => []RegisteredIsQueued
<1>1. DatabaseInv => RegisteredIsQueued
  <2> SUFFICES ASSUME DatabaseInv, NEW g \in Signature, NEW a \in Addr,
                      signatureToServers[g][a] # None
               PROVE  \E p \in serverQueue : p.addr = a
    BY DEF RegisteredIsQueued
  <2>1. serverToTimestamp[a].sock # None
    BY DEF DatabaseInv, StructuresAgree
  <2>2. serverToTimestamp[a] # NoStamp
    BY <2>1 DEF NoStamp
  <2> QED
    BY <2>2 DEF DatabaseInv, StructuresAgree
<1> QED
  BY <1>1, DatabaseInvariant, PTL

\* The server just handed out is behind all others (binder.cc:111-112).
THEOREM JustLocatedIsLastHolds ==
  ASSUME NoWrap, ~AddrReuse
  PROVE  Spec => []JustLocatedIsLast
<1>1. DatabaseInv => JustLocatedIsLast
  BY DEF DatabaseInv
<1> QED
  BY <1>1, DatabaseInvariant, PTL

=============================================================================
