-------------------------- MODULE RoundRobinProofs --------------------------
(***************************************************************************)
(* The binder's database implements RoundRobin, for every set of           *)
(* addresses, connections and signatures.                                  *)
(***************************************************************************)
EXTENDS BinderDatabaseProofs

\* Every server in the queue serves a function.
QueuedIsRegistered ==
  \A p \in serverQueue : \E g \in Signature : signatureToServers[g][p.addr] # None

RefinementInv == DatabaseInv /\ QueuedIsRegistered

\* The refinement mapping of RR, by name.
Servers(g) == {a \in Addr : signatureToServers[g][a] # None}
Queued == {p.addr : p \in serverQueue}
Idle == {w \in Addr \X Addr : \E p, q \in serverQueue :
           p.addr = w[1] /\ q.addr = w[2] /\ p.ts < q.ts}

-----------------------------------------------------------------------------
(* The strengthening that the mapping needs.                               *)

\* A registration is never overwritten by none.
LEMMA InitQueued == Init => QueuedIsRegistered
BY DEF Init, QueuedIsRegistered

LEMMA NextQueued ==
  ASSUME NoWrap
  PROVE  RefinementInv /\ [Next]_vars => QueuedIsRegistered'
<1> SUFFICES ASSUME RefinementInv, [Next]_vars PROVE QueuedIsRegistered'
  OBVIOUS
<1>0. DatabaseInv /\ QueuedIsRegistered /\ TypeOK
  BY DEF RefinementInv, DatabaseInv
<1>1. ASSUME UNCHANGED database PROVE QueuedIsRegistered'
  BY <1>0, <1>1 DEF QueuedIsRegistered, database
<1>2. ASSUME NEW k \in Socket, NEW g \in Signature, Register(k, g)
      PROVE  QueuedIsRegistered'
  <2> DEFINE a == peer[k]
  <2>1. a \in Addr /\ time < MaxTime /\ HandleRegister(g, a, k)
    BY <1>0, <1>2 DEF Register, TypeOK
  <2>2. CASE UNCHANGED database
    BY <1>1, <2>2
  <2>3. CASE /\ signatureToServers' = [signatureToServers EXCEPT ![g][a] = k]
             /\ LET timestamp == serverToTimestamp[a].ts
                IN Requeue(a, k, {p \in serverQueue :
                                    p.addr = a /\ p.ts = timestamp /\ timestamp > 0})
    <3>1. serverQueue' = {p \in serverQueue : p.addr # a}
                           \cup {[ts |-> time, addr |-> a, sock |-> k]}
      BY ZenonT(60), <1>0, <2>1, <2>3, RegisterRequeues, RequeueEffect
    <3>2. signatureToServers'[g][a] # None
      BY <1>0, <2>1, <2>3, ConstantsAssumption DEF TypeOK
    <3>3. \A h \in Signature, b \in Addr :
            signatureToServers[h][b] # None => signatureToServers'[h][b] # None
      BY <1>0, <2>1, <2>3, ConstantsAssumption DEF TypeOK
    <3>4. \A p \in serverQueue : p.addr \in Addr
      BY <1>0 DEF TypeOK, QueueEntry
    <3> QED
      BY <1>0, <3>1, <3>2, <3>3, <3>4 DEF QueuedIsRegistered
  <2> QED
    BY <2>1, <2>2, <2>3 DEF HandleRegister
<1>3. ASSUME NEW g \in Signature, Locate(g) PROVE QueuedIsRegistered'
  <2>1. HandleLocate(g)
    BY <1>3 DEF Locate
  <2>2. ASSUME NEW p \in Serving(g), Requeue(p.addr, p.sock, {p}),
               UNCHANGED signatureToServers
        PROVE  QueuedIsRegistered'
    <3>1. \A q \in serverQueue' : \E r \in serverQueue : q.addr = r.addr
      BY <2>2 DEF Requeue, Insert, Serving
    <3> QED
      BY <1>0, <2>2, <3>1 DEF QueuedIsRegistered
  <2> QED
    BY <1>1, <2>1, <2>2 DEF HandleLocate
<1>4. ASSUME NEW k \in Socket, RemoveIfServer(k) PROVE QueuedIsRegistered'
  <2> SUFFICES ASSUME NEW p \in serverQueue'
               PROVE  \E g \in Signature : signatureToServers'[g][p.addr] # None
    BY DEF QueuedIsRegistered
  <2>1. p \in serverQueue /\ p.sock # k
    BY <1>4 DEF RemoveIfServer
  <2>2. PICK g \in Signature : signatureToServers[g][p.addr] # None
    BY <1>0, <2>1 DEF QueuedIsRegistered
  <2>3. p.addr \in Addr /\ serverToTimestamp[p.addr].sock = p.sock
    <3>1. p.addr \in Addr /\ serverToTimestamp[p.addr] = [sock |-> p.sock, ts |-> p.ts]
      BY <1>0, <2>1, OneEntry
    <3> QED
      BY <3>1
  <2>4. signatureToServers[g][p.addr] = p.sock
    BY <1>0, <2>2, <2>3 DEF DatabaseInv, StructuresAgree
  <2>5. signatureToServers'[g][p.addr] = signatureToServers[g][p.addr]
    BY <1>4, <2>1, <2>3, <2>4 DEF RemoveIfServer
  <2> QED
    BY <2>2, <2>5
<1>5. ASSUME Terminate \/ (\E k \in Socket, a \in Addr : Accept(k, a)) \/ UNCHANGED vars
      PROVE  UNCHANGED database
  BY <1>5 DEF Terminate, HandleTerminate, Accept, vars, database
<1> QED
  BY <1>1, <1>2, <1>3, <1>4, <1>5 DEF Next, SendFailed, Closed

\* The queue holds the registered servers, and no others.
THEOREM RefinementInvariant ==
  ASSUME NoWrap, ~AddrReuse
  PROVE  Spec => []RefinementInv
<1>1. Init => RefinementInv
  BY InitInv, InitQueued DEF RefinementInv
<1>2. RefinementInv /\ [Next]_vars => RefinementInv'
  BY NextInv, NextQueued DEF RefinementInv
<1> QED
  BY <1>1, <1>2, PTL DEF Spec


-----------------------------------------------------------------------------
(* The mapping.                                                            *)

\* The servers RoundRobin knows are those in the queue.
LEMMA KnownIsQueued ==
  ASSUME RefinementInv
  PROVE  RR!Known = Queued
<1>1. ASSUME NEW a, a \in RR!Known PROVE a \in Queued
  <2>1. PICK g \in Signature : a \in Addr /\ signatureToServers[g][a] # None
    BY <1>1 DEF RR!Known
  <2>2. serverToTimestamp[a].sock # None
    BY <2>1 DEF RefinementInv, DatabaseInv, StructuresAgree
  <2>3. serverToTimestamp[a] # NoStamp
    BY <2>2 DEF NoStamp
  <2> QED
    BY <2>1, <2>3 DEF RefinementInv, DatabaseInv, StructuresAgree, Queued
<1>2. ASSUME NEW a, a \in Queued PROVE a \in RR!Known
  <2>1. PICK p \in serverQueue : a = p.addr
    BY <1>2 DEF Queued
  <2>2. a \in Addr
    BY <2>1 DEF RefinementInv, DatabaseInv, TypeOK, QueueEntry
  <2>3. PICK g \in Signature : signatureToServers[g][a] # None
    BY <2>1 DEF RefinementInv, QueuedIsRegistered
  <2> QED
    BY <2>2, <2>3 DEF RR!Known
<1> QED
  BY <1>1, <1>2

\* Requeueing a server is a use of it: it is behind all others afterwards,
\* and the order of the others is as before.
LEMMA RequeueIsUse ==
  ASSUME RefinementInv, NoWrap, time < MaxTime,
         NEW a \in Addr, NEW k \in Socket,
         serverToTimestamp[a].sock \in {None, k},
         Requeue(a, k, {p \in serverQueue : p.addr = a})
  PROVE  RR!Used(a)
<1> DEFINE new == [ts |-> time, addr |-> a, sock |-> k]
<1>0. DatabaseInv
  BY DEF RefinementInv
<1>1. serverQueue' = {p \in serverQueue : p.addr # a} \cup {new}
  BY <1>0, RequeueEffect
<1>2. \A p \in serverQueue : p.addr \in Addr /\ p.ts \in Nat /\ p.ts < time
  BY <1>0 DEF DatabaseInv, TypeOK, QueueEntry, Timestamp, StampsArePast
<1>3. time \in Nat
  BY <1>0 DEF DatabaseInv, TypeOK, Timestamp
<1>4. ASSUME NEW b \in Addr, NEW c \in Addr, b # a, c # a
      PROVE  <<b, c>> \in Idle' <=> <<b, c>> \in Idle
  BY <1>1, <1>4 DEF Idle
<1>5. ASSUME NEW b \in Addr, b # a
      PROVE  <<b, a>> \in Idle' <=> b \in Queued
  <2>1. new \in serverQueue' /\ new.addr = a /\ new.ts = time
    BY <1>1
  <2>2. ASSUME NEW p \in serverQueue, p.addr = b PROVE <<b, a>> \in Idle'
    BY <1>1, <1>2, <1>5, <2>1, <2>2 DEF Idle
  <2>3. ASSUME <<b, a>> \in Idle' PROVE b \in Queued
    BY <1>1, <1>5, <2>3 DEF Idle, Queued
  <2> QED
    BY <2>2, <2>3 DEF Queued
<1>6. ASSUME NEW b \in Addr PROVE <<a, b>> \notin Idle'
  BY <1>1, <1>2, <1>3 DEF Idle
<1>7. Idle' = {w \in Idle : a \notin {w[1], w[2]}} \cup ((Queued \ {a}) \X {a})
  <2> DEFINE new2 == {w \in Idle : a \notin {w[1], w[2]}} \cup ((Queued \ {a}) \X {a})
  <2>1. Queued \subseteq Addr
    BY <1>2 DEF Queued
  <2>2. Idle' \subseteq Addr \X Addr /\ new2 \subseteq Addr \X Addr
    BY <2>1 DEF Idle
  <2>3. ASSUME NEW b \in Addr, NEW c \in Addr
        PROVE  <<b, c>> \in Idle' <=> <<b, c>> \in new2
    <3>1. /\ <<b, c>> \in {w \in Idle : a \notin {w[1], w[2]}}
               <=> <<b, c>> \in Idle /\ b # a /\ c # a
          /\ <<b, c>> \in (Queued \ {a}) \X {a} <=> b \in Queued /\ b # a /\ c = a
      OBVIOUS
    <3>2. CASE b = a
      BY <1>6, <3>1, <3>2
    <3>3. CASE b # a /\ c = a
      BY <1>5, <3>1, <3>3
    <3>4. CASE b # a /\ c # a
      BY <1>4, <3>1, <3>4
    <3> QED
      BY <3>2, <3>3, <3>4
  <2> HIDE DEF new2
  <2>4. ASSUME NEW w \in Addr \X Addr PROVE w \in Idle' <=> w \in new2
    <3>1. PICK b \in Addr, c \in Addr : w = <<b, c>>
      OBVIOUS
    <3> QED
      BY <2>3, <3>1
  <2>5. Idle' = new2
    BY <2>2, <2>4
  <2> QED
    BY <2>5 DEF new2
<1> QED
  BY <1>7, KnownIsQueued DEF RR!Used, Idle

-----------------------------------------------------------------------------
(* Every step of the database is a step of RoundRobin, or a stutter.       *)

LEMMA InitRefines == Init => RR!Init
<1> SUFFICES ASSUME Init PROVE RR!Init
  OBVIOUS
<1>1. \A g \in Signature : {a \in Addr : signatureToServers[g][a] # None} = {}
  BY DEF Init
<1>2. Idle = {}
  BY DEF Init, Idle
<1> QED
  BY <1>1, <1>2 DEF Init, Idle, RR!Init

\* What is not changed in the database is not changed in RoundRobin.
LEMMA SameServers ==
  ASSUME UNCHANGED database
  PROVE  /\ [g \in Signature |-> Servers(g)]' = [g \in Signature |-> Servers(g)]
         /\ Idle' = Idle
BY DEF database, Servers, Idle

LEMMA RegisterRefines ==
  ASSUME RefinementInv, NoWrap, NEW k \in Socket, NEW g \in Signature, Register(k, g)
  PROVE  RR!Next
<1>0. DatabaseInv /\ TypeOK
  BY DEF RefinementInv, DatabaseInv
<1>1. PICK a \in Addr : a = peer[k]
  BY <1>0 DEF Register, TypeOK
<1>2. time < MaxTime /\ HandleRegister(g, a, k)
  BY <1>1 DEF Register
<1>3. CASE /\ signatureToServers[g][a] # None
           /\ response' = RegisterSuccess(1)
           /\ UNCHANGED database
  <2>1. RR!RegisterAgain(a, g)
    BY <1>1, <1>3, SameServers DEF RR!RegisterAgain, RegisterSuccess, Servers, Idle
  <2> QED
    BY <2>1 DEF RR!Next
<1>4. CASE /\ signatureToServers[g][a] = None
           /\ signatureToServers' = [signatureToServers EXCEPT ![g][a] = k]
           /\ LET timestamp == serverToTimestamp[a].ts
              IN Requeue(a, k, {p \in serverQueue :
                                  p.addr = a /\ p.ts = timestamp /\ timestamp > 0})
           /\ response' = RegisterSuccess(0)
  <2>1. /\ serverToTimestamp[a].sock \in {None, k}
        /\ Requeue(a, k, {p \in serverQueue : p.addr = a})
    BY <1>0, <1>1, <1>4, RegisterRequeues
  <2>2. RR!Used(a)
    BY <1>2, <2>1, RequeueIsUse
  <2>3. ASSUME NEW h \in Signature
        PROVE  Servers(h)' = IF h = g THEN Servers(h) \cup {a} ELSE Servers(h)
    BY <1>0, <1>1, <1>4, ConstantsAssumption DEF Servers, TypeOK
  <2>4. a \notin Servers(g)
    BY <1>4 DEF Servers
  <2>5. RR!Register(a, g)
    BY ZenonT(60), <1>4, <2>2, <2>3, <2>4 DEF RR!Register, RegisterSuccess, Servers
  <2> QED
    BY <2>5 DEF RR!Next
<1> QED
  BY <1>2, <1>3, <1>4 DEF HandleRegister

LEMMA LocateRefines ==
  ASSUME RefinementInv, NoWrap, NEW g \in Signature, Locate(g)
  PROVE  RR!Next
<1>0. DatabaseInv /\ TypeOK
  BY DEF RefinementInv, DatabaseInv
<1>1. time < MaxTime /\ HandleLocate(g)
  BY DEF Locate
<1>2. ASSUME NEW a \in Servers(g)
      PROVE  a \in Addr /\ \E q \in Serving(g) : q.addr = a
  <2>1. a \in Addr /\ signatureToServers[g][a] # None
    BY DEF Servers
  <2>2. serverToTimestamp[a].sock # None
    BY <1>0, <2>1 DEF DatabaseInv, StructuresAgree
  <2>3. serverToTimestamp[a] # NoStamp
    BY <2>2 DEF NoStamp
  <2>4. PICK q \in serverQueue : q.addr = a
    BY <1>0, <2>1, <2>3 DEF DatabaseInv, StructuresAgree
  <2> QED
    BY <2>1, <2>4 DEF Serving
<1>3. CASE Serving(g) = {} /\ response' = LocateFailure /\ UNCHANGED database
  <2>1. Servers(g) = {}
    BY <1>2, <1>3
  <2>2. RR!LocateFails(g)
    BY <1>3, <2>1, SameServers DEF RR!LocateFails, LocateFailure, Servers, Idle
  <2> QED
    BY <2>2 DEF RR!Next
<1>4. ASSUME NEW p \in Serving(g), \A q \in Serving(g) : p.ts <= q.ts,
             Requeue(p.addr, p.sock, {p}),
             response' = LocateSuccess(p.addr), UNCHANGED signatureToServers
      PROVE  RR!Next
  <2>1. /\ p.addr \in Addr /\ p.sock \in Socket
        /\ serverToTimestamp[p.addr].sock = p.sock
        /\ Requeue(p.addr, p.sock, {q \in serverQueue : q.addr = p.addr})
    BY <1>0, <1>4, LocateRequeues
  <2>2. RR!Used(p.addr)
    BY <1>1, <2>1, RequeueIsUse
  <2>3. p.addr \in Servers(g) /\ p \in serverQueue
    BY <2>1 DEF Serving, Servers
  <2>4. ASSUME NEW t \in Servers(g) \ {p.addr}
        PROVE  <<p.addr, t>> \in Idle
    <3>1. PICK q \in Serving(g) : q.addr = t
      BY <1>2
    <3>2. q \in serverQueue /\ p # q
      BY <3>1, <2>4 DEF Serving
    <3>3. p.ts # q.ts /\ p.ts <= q.ts /\ p.ts \in Nat /\ q.ts \in Nat
      BY <1>0, <1>4, <2>3, <3>2
         DEF DatabaseInv, StampsArePast, TypeOK, QueueEntry, Timestamp
    <3>4. p.ts < q.ts
      BY <3>3
    <3>5. t \in Addr
      BY <1>2
    <3> QED
      BY <2>1, <2>3, <3>1, <3>2, <3>4, <3>5 DEF Idle
  <2>5. RR!Locate(p.addr, g)
    BY <1>4, <2>2, <2>3, <2>4 DEF RR!Locate, LocateSuccess, Servers, Idle
  <2> QED
    BY <2>1, <2>5 DEF RR!Next
<1> QED
  BY <1>1, <1>3, <1>4 DEF HandleLocate

\* A status that has been sent is a signed byte.
LEMMA StatusIsByte ==
  ASSUME NEW status \in Int
  PROVE  StatusByte(status) \in -128 .. 127
<1>1. (status + 128) % 256 \in 0 .. 255
  OBVIOUS
<1> QED
  BY <1>1 DEF StatusByte

LEMMA TerminateRefines ==
  ASSUME Terminate
  PROVE  RR!Next
<1>1. response' \in TerminateResponse /\ UNCHANGED database
  BY DEF Terminate, HandleTerminate
<1>2. UnexpectedMessage \in -128 .. 127 /\ ServerConnectionError \in -128 .. 127
  BY StatusIsByte DEF UnexpectedMessage, ServerConnectionError
<1>3. response' \in {[type |-> "TERMINATE_SUCCESS"]} \cup
                    [type : {"TERMINATE_FAILURE"}, status : -128 .. 127]
  BY <1>1, <1>2 DEF TerminateResponse, TerminateSuccess, TerminateFailure
<1>4. RR!Terminate
  BY <1>1, <1>3, SameServers DEF RR!Terminate, Servers, Idle
<1> QED
  BY <1>4 DEF RR!Next

\* A server whose connection is lost leaves: all that is erased is its own.
LEMMA RemoveRefines ==
  ASSUME RefinementInv, NEW k \in Socket, peer[k] # None, RemoveIfServer(k)
  PROVE  RR!Next
<1>0. DatabaseInv /\ TypeOK
  BY DEF RefinementInv, DatabaseInv
<1>1. PICK a \in Addr : a = peer[k]
  BY <1>0 DEF TypeOK
<1>2. ASSUME NEW b \in Addr, serverToTimestamp[b].sock # None
      PROVE  serverToTimestamp[b].sock = k <=> b = a
  <2>1. serverToTimestamp[b].sock \in Socket
    BY <1>0, <1>2 DEF TypeOK, NoStamp
  <2>2. peer[serverToTimestamp[b].sock] = b
    BY <1>0, <1>2 DEF DatabaseInv, StampedByOwner
  <2> QED
    BY <1>0, <1>1, <2>1, <2>2 DEF DatabaseInv, AddressesDistinct
<1>3. ASSUME NEW p \in serverQueue
      PROVE  p.addr \in Addr /\ (p.sock = k <=> p.addr = a)
  <2>1. /\ p.addr \in Addr /\ p.sock \in Socket
        /\ serverToTimestamp[p.addr] = [sock |-> p.sock, ts |-> p.ts]
    BY <1>0, OneEntry
  <2>2. serverToTimestamp[p.addr].sock = p.sock /\ p.sock # None
    BY <2>1, ConstantsAssumption
  <2> QED
    BY <1>2, <2>1, <2>2
<1>4. ASSUME NEW g \in Signature PROVE Servers(g)' = Servers(g) \ {a}
  <2>1. ASSUME NEW b \in Addr, signatureToServers[g][b] # None
        PROVE  signatureToServers[g][b] = k <=> b = a
    BY <1>0, <1>2, <2>1 DEF DatabaseInv, StructuresAgree
  <2>2. \A b \in Addr : signatureToServers'[g][b] =
          IF signatureToServers[g][b] = k THEN None ELSE signatureToServers[g][b]
    BY DEF RemoveIfServer
  <2> QED
    BY <1>1, <2>1, <2>2 DEF Servers
<1>5. serverQueue' = {p \in serverQueue : p.addr # a}
  BY <1>3 DEF RemoveIfServer
<1>6. Idle' = {w \in Idle : a \notin {w[1], w[2]}}
  BY <1>5 DEF Idle
<1>7. RR!Leave(a)
  BY <1>4, <1>6 DEF RR!Leave, RemoveIfServer, Servers, Idle
<1> QED
  BY <1>7 DEF RR!Next

LEMMA NextRefines ==
  ASSUME NoWrap
  PROVE  RefinementInv /\ [Next]_vars => [RR!Next]_RR!vars
<1> SUFFICES ASSUME RefinementInv, [Next]_vars PROVE RR!Next \/ UNCHANGED RR!vars
  OBVIOUS
<1>1. ASSUME UNCHANGED <<database, response>> PROVE UNCHANGED RR!vars
  BY <1>1, SameServers DEF RR!vars, Servers, Idle
<1>2. ASSUME NEW k \in Socket, NEW a \in Addr, Accept(k, a) PROVE UNCHANGED RR!vars
  BY <1>1, <1>2 DEF Accept
<1>3. ASSUME UNCHANGED vars PROVE UNCHANGED RR!vars
  BY <1>1, <1>3 DEF vars
<1>4. ASSUME NEW k \in Socket, SendFailed(k) \/ Closed(k) PROVE RR!Next
  BY <1>4, RemoveRefines DEF SendFailed, Closed
<1> QED
  BY <1>2, <1>3, <1>4, RegisterRefines, LocateRefines, TerminateRefines DEF Next

\* The three structures of the database and their stamps keep the promise of
\* RoundRobin: handleLocate hands out the server idle longest, and finds one
\* whenever there is one (binder.cc:72-117).
THEOREM DatabaseImplementsRoundRobin ==
  ASSUME NoWrap, ~AddrReuse
  PROVE  Spec => ImplementsRoundRobin
BY InitRefines, RefinementInvariant, NextRefines, PTL
   DEF Spec, ImplementsRoundRobin, RR!Spec

=============================================================================
