---------------------------- MODULE BinderProofs ----------------------------
(***************************************************************************)
(* Theorems about Binder, for every set of servers, clients, addresses and *)
(* functions: that main and its peers drive the database as its own        *)
(* specification allows, that an answer belongs to the request of the      *)
(* moment, and what rpcRegister and rpcTerminate report.                   *)
(***************************************************************************)
EXTENDS Binder, FiniteSetTheorems, TLAPS

\* The theorems about the database, for the one inside the binder.
DBP == INSTANCE BinderDatabaseProofs WITH peer <- announced

-----------------------------------------------------------------------------
(* The inductive invariant.                                                *)

\* TypeOK without the database and without running.
Types ==
  /\ pc \in {"accept", "poll", "serve", "send", "ask", "wait", "exited"}
  /\ open \subseteq Socket
  /\ ready \subseteq open
  /\ current \in open \cup {None}
  /\ asked \in open \cup {None}
  /\ waiting \subseteq Addr
  /\ failure \in {None, DB!UnexpectedMessage, DB!ServerConnectionError}
  /\ proc \in [Socket -> {"none", "gone", "reset", "ready", "registering",
                          "serving", "stopping", "returned",
                          "idle", "locating", "terminating"}]
  /\ home \in [Socket -> Addr \cup {None}]
  /\ pending \in [Socket -> Signature \cup {None}]
  /\ registered \in [Socket -> SUBSET Signature]
  /\ crashes \in 0 .. MaxCrashes
  /\ backlog \in Seq(Socket)
  /\ toBinder \in [Socket -> Seq(Message)]
  /\ toPeer \in [Socket -> Seq(DB!Answer \cup {Terminate})]

\* The database knows connections only that are open.
Database == DB!TypeOK /\ DB!NoDanglingSocket

\* handleTerminate has returned.
Ended == response \in DB!TerminateResponse
Flag == running = (~Ended)

\* main serves requests, and no server has been asked to terminate.
Normal == pc \in {"accept", "poll", "serve", "send"} /\ ~Ended

\* Where main is, and what it holds there.
Loop ==
  /\ pc \in {"send", "ask", "wait"} <=> current # None
  /\ pc = "wait" <=> asked # None
  /\ pc = "send" => response \in DB!Answer
  /\ Ended => pc \in {"send", "exited"}
  /\ pc = "exited" => Ended
  /\ Normal => failure = None /\ waiting = {}
  /\ \A a \in waiting : serverToTimestamp[a].sock # None
  /\ asked # None => \E a \in Addr : serverToTimestamp[a].sock = asked
  /\ failure # None => \E a \in Addr : serverToTimestamp[a].sock # None
  /\ pc \in {"ask", "wait"} \/ (pc = "send" /\ Ended) => current \in ClientSocket

\* A connection without a process is not open and carries nothing, ...
Unused ==
  \A k \in Socket : proc[k] = "none" =>
    k \notin open /\ toBinder[k] = <<>> /\ home[k] = None

\* ... the others are those of servers, which have an address, or of clients, ...
Homes ==
  /\ \A k \in ServerSocket : proc[k] # "none" => home[k] \in Addr
  /\ \A k \in ClientSocket : home[k] = None
  /\ ~AddrReuse => \A j, k \in Socket : home[j] # None /\ home[j] = home[k] => j = k

\* ... each wait once at most to be accepted, ...
Queued ==
  /\ \A i \in 1 .. Len(backlog) : proc[backlog[i]] # "none" /\ backlog[i] \notin open
  /\ \A i, j \in 1 .. Len(backlog) : backlog[i] = backlog[j] => i = j

\* ... and servers and clients ask for different things.
Roles ==
  /\ \A k \in ServerSocket :
       /\ proc[k] \in {"none", "gone", "reset", "ready", "registering", "serving", "stopping",
                         "returned"}
       /\ \A i \in 1 .. Len(toBinder[k]) :
            toBinder[k][i].type \in {"REGISTER", "TERMINATE_SUCCESS"}
  /\ \A k \in ClientSocket :
       /\ proc[k] \in {"none", "gone", "reset", "idle", "locating", "terminating"}
       /\ \A i \in 1 .. Len(toBinder[k]) :
            toBinder[k][i].type \in {"LOCATE_REQUEST", "TERMINATE"}
  /\ \A k \in Socket : proc[k] \in {"registering", "locating"} => pending[k] \in Signature

Connections == Unused /\ Homes /\ Queued /\ Roles

\* What a process in state s may be answered, and what it has asked.
Answers(s) ==
  CASE s = "registering" -> {"REGISTER_SUCCESS"}
    [] s = "locating" -> {"LOCATE_SUCCESS", "LOCATE_FAILURE"}
    [] s = "terminating" -> {"TERMINATE_SUCCESS", "TERMINATE_FAILURE"}
    [] OTHER -> {}

Asks(s) ==
  CASE s = "registering" -> {"REGISTER"}
    [] s = "locating" -> {"LOCATE_REQUEST"}
    [] s = "terminating" -> {"TERMINATE"}
    [] OTHER -> {}

\* As long as no server is asked to terminate, a connection carries one message.
Lockstep ==
  Normal => \A k \in Socket :
    /\ Len(toBinder[k]) <= 1
    /\ Alive(k) =>
         /\ proc[k] \notin {"stopping", "returned"}
         /\ \A i \in 1 .. Len(toPeer[k]) : toPeer[k][i] # Terminate
         /\ toBinder[k] # <<>> =>
              /\ Head(toBinder[k]).type \in Asks(proc[k])
              /\ proc[k] = "registering" => Head(toBinder[k]).sig = pending[k]

\* The requests on their way that advance time_, and the bound on it.
Requests == {k \in Socket : /\ toBinder[k] # <<>>
                            /\ Head(toBinder[k]).type \in {"REGISTER", "LOCATE_REQUEST"}}
Budget == Normal /\ Requests # {} => time + Cardinality(Requests) <= MaxTime

\* The one answer that may be on its way to a process, before any TERMINATE ...
Answered ==
  \A k \in Socket :
    /\ ~Alive(k) => toPeer[k] = <<>>
    /\ \A i \in 1 .. Len(toPeer[k]) : toPeer[k][i] # Terminate =>
         i = 1 /\ toPeer[k][i].type \in Answers(proc[k]) /\ toBinder[k] = <<>>

\* ... and the one main is about to send.
Serving ==
  current # None /\ Alive(current) =>
    /\ toBinder[current] = <<>> /\ toPeer[current] = <<>>
    /\ pc = "send" => response.type \in Answers(proc[current])
    /\ pc \in {"ask", "wait"} => proc[current] = "terminating"

Inv ==
  /\ Types /\ Database /\ Flag /\ Loop /\ Connections
  /\ Lockstep /\ Budget /\ Answered /\ Serving

\* What rpcRegister has reported, or is about to, is in the database.
Located(k, g) == signatureToServers[g][home[k]] # None
IsRegistered(k) ==
  /\ ~Alive(k) => registered[k] = {}
  /\ Alive(k) =>
       /\ \A g \in registered[k] : Located(k, g)
       /\ \A i \in 1 .. Len(toPeer[k]) : toPeer[k][i] # Terminate => Located(k, pending[k])
       /\ pc = "send" /\ current = k => Located(k, pending[k])
Registered == \A k \in ServerSocket : IsRegistered(k)

\* The acknowledgement of a server is the last it does, and main takes nothing
\* else for it: in the end, every server in the database has finished.
Told ==
  \A k \in ServerSocket : \A i \in 1 .. Len(toBinder[k]) :
    toBinder[k][i].type = "TERMINATE_SUCCESS" => Finished(k)
Heard ==
  pc \in {"ask", "wait"} /\ failure = None =>
    \A a \in Addr \ waiting, k \in Socket :
      serverToTimestamp[a].sock = k /\ k # asked => Finished(k)
Over ==
  response = DB!TerminateSuccess =>
    \A a \in Addr, k \in Socket : serverToTimestamp[a].sock = k => Finished(k)
Acknowledged == Told /\ Heard /\ Over

-----------------------------------------------------------------------------
(* The database inside the binder.                                         *)

\* DB and DBP are the same database.
LEMMA SameDatabase ==
  /\ DB!TypeOK <=> DBP!TypeOK
  /\ DB!TypeOK' <=> DBP!TypeOK'
  /\ DB!NoDanglingSocket <=> DBP!NoDanglingSocket
  /\ DB!NoDanglingSocket' <=> DBP!NoDanglingSocket'
  /\ DB!DatabaseInv <=> DBP!DatabaseInv
  /\ DB!Init <=> DBP!Init
  /\ [DB!Next]_(DB!vars) <=> [DBP!Next]_(DBP!vars)
<1>. USE DEF DB!Timestamp, DB!QueueEntry, DB!NoStamp, DB!RegisterSuccess,
       DB!LocateSuccess, DB!LocateFailure, DB!TerminateSuccess,
       DB!TerminateFailure, DB!StatusByte, DB!UnexpectedMessage,
       DB!ServerConnectionError, DB!TerminateResponse, DB!Answer, DB!Response,
       DB!Insert, DB!Requeue, DB!HandleRegister, DB!Serving, DB!HandleLocate,
       DB!HandleTerminate, DB!RemoveIfServer, DB!database, DB!vars, DB!Init,
       DB!Accept, DB!Register, DB!Locate, DB!Terminate, DB!SendFailed,
       DB!Closed, DB!Next, DB!TypeOK, DB!NoDanglingSocket, DB!StructuresAgree,
       DB!JustLocatedIsLast, DB!StampsArePast, DB!StampedByOwner,
       DB!AddressesDistinct, DB!DatabaseInv, DBP!Timestamp, DBP!QueueEntry,
       DBP!NoStamp, DBP!RegisterSuccess, DBP!LocateSuccess, DBP!LocateFailure,
       DBP!TerminateSuccess, DBP!TerminateFailure, DBP!StatusByte,
       DBP!UnexpectedMessage, DBP!ServerConnectionError, DBP!TerminateResponse,
       DBP!Answer, DBP!Response, DBP!Insert, DBP!Requeue, DBP!HandleRegister,
       DBP!Serving, DBP!HandleLocate, DBP!HandleTerminate, DBP!RemoveIfServer,
       DBP!database, DBP!vars, DBP!Init, DBP!Accept, DBP!Register, DBP!Locate,
       DBP!Terminate, DBP!SendFailed, DBP!Closed, DBP!Next, DBP!TypeOK,
       DBP!NoDanglingSocket, DBP!StructuresAgree, DBP!JustLocatedIsLast,
       DBP!StampsArePast, DBP!StampedByOwner, DBP!AddressesDistinct,
       DBP!DatabaseInv
<1>1. DB!TypeOK <=> DBP!TypeOK
  OBVIOUS
<1>2. DB!TypeOK' <=> DBP!TypeOK'
  OBVIOUS
<1>3. DB!NoDanglingSocket <=> DBP!NoDanglingSocket
  OBVIOUS
<1>4. DB!NoDanglingSocket' <=> DBP!NoDanglingSocket'
  OBVIOUS
<1>5. DB!DatabaseInv <=> DBP!DatabaseInv
  OBVIOUS
<1>6. DB!Init <=> DBP!Init
  OBVIOUS
<1>7. [DB!Next]_(DB!vars) <=> [DBP!Next]_(DBP!vars)
  OBVIOUS
<1>. HIDE DEF DB!Timestamp, DB!QueueEntry, DB!NoStamp, DB!RegisterSuccess,
       DB!LocateSuccess, DB!LocateFailure, DB!TerminateSuccess,
       DB!TerminateFailure, DB!StatusByte, DB!UnexpectedMessage,
       DB!ServerConnectionError, DB!TerminateResponse, DB!Answer, DB!Response,
       DB!Insert, DB!Requeue, DB!HandleRegister, DB!Serving, DB!HandleLocate,
       DB!HandleTerminate, DB!RemoveIfServer, DB!database, DB!vars, DB!Init,
       DB!Accept, DB!Register, DB!Locate, DB!Terminate, DB!SendFailed,
       DB!Closed, DB!Next, DB!TypeOK, DB!NoDanglingSocket, DB!StructuresAgree,
       DB!JustLocatedIsLast, DB!StampsArePast, DB!StampedByOwner,
       DB!AddressesDistinct, DB!DatabaseInv, DBP!Timestamp, DBP!QueueEntry,
       DBP!NoStamp, DBP!RegisterSuccess, DBP!LocateSuccess, DBP!LocateFailure,
       DBP!TerminateSuccess, DBP!TerminateFailure, DBP!StatusByte,
       DBP!UnexpectedMessage, DBP!ServerConnectionError, DBP!TerminateResponse,
       DBP!Answer, DBP!Response, DBP!Insert, DBP!Requeue, DBP!HandleRegister,
       DBP!Serving, DBP!HandleLocate, DBP!HandleTerminate, DBP!RemoveIfServer,
       DBP!database, DBP!vars, DBP!Init, DBP!Accept, DBP!Register, DBP!Locate,
       DBP!Terminate, DBP!SendFailed, DBP!Closed, DBP!Next, DBP!TypeOK,
       DBP!NoDanglingSocket, DBP!StructuresAgree, DBP!JustLocatedIsLast,
       DBP!StampsArePast, DBP!StampedByOwner, DBP!AddressesDistinct,
       DBP!DatabaseInv
<1>. QED
  BY <1>1, <1>2, <1>3, <1>4, <1>5, <1>6, <1>7


\* The answers, and what they are not.
LEMMA AnswerFacts ==
  /\ DB!RegisterSuccess(0) \in DB!Answer /\ DB!RegisterSuccess(1) \in DB!Answer
  /\ DB!LocateFailure \in DB!Answer
  /\ \A a \in Addr : DB!LocateSuccess(a) \in DB!Answer
  /\ DB!TerminateResponse \subseteq DB!Answer
  /\ Terminate \notin DB!Answer /\ Terminate.type = "TERMINATE"
  /\ \A m \in DB!TerminateResponse : m.type \in {"TERMINATE_SUCCESS", "TERMINATE_FAILURE"}
  /\ None \notin DB!TerminateResponse
<1>1. /\ DB!RegisterSuccess(0) \in DB!Answer /\ DB!RegisterSuccess(1) \in DB!Answer
      /\ DB!LocateFailure \in DB!Answer
      /\ \A a \in Addr : DB!LocateSuccess(a) \in DB!Answer
      /\ DB!TerminateResponse \subseteq DB!Answer
  BY DEF DB!Answer
<1>2. \A m \in DB!TerminateResponse : m.type \in {"TERMINATE_SUCCESS", "TERMINATE_FAILURE"}
  BY DEF DB!TerminateResponse, DB!TerminateSuccess, DB!TerminateFailure
<1>3. Terminate.type = "TERMINATE"
  BY DEF Terminate
<1>4. \A m \in DB!Answer : m.type # "TERMINATE"
  BY <1>2 DEF DB!Answer, DB!RegisterSuccess, DB!LocateSuccess, DB!LocateFailure
<1>. QED
  BY <1>1, <1>2, <1>3, <1>4, NoneAssumption

\* What handleRegister does, whatever the database holds.
LEMMA RegisterEffect ==
  ASSUME DB!TypeOK, NEW g \in Signature, NEW a \in Addr, NEW k \in Socket,
         DB!HandleRegister(g, a, k)
  PROVE  /\ time' \in Nat /\ time' <= time + 1
         /\ response' \in DB!Answer
         /\ response'.type = "REGISTER_SUCCESS"
         /\ signatureToServers'[g][a] # None
<1>1. time \in Nat /\ (time + 1) % TimeMod \in Nat /\ (time + 1) % TimeMod <= time + 1
  <2>1. time \in Nat /\ time + 1 <= TimeMod
    BY DatabaseAssumption DEF DB!TypeOK, DB!Timestamp
  <2>. QED
    BY <2>1, DatabaseAssumption
<1>2. signatureToServers[g] \in [Addr -> Socket \cup {None}]
  BY DEF DB!TypeOK
<1>3. CASE signatureToServers[g][a] # None /\ response' = DB!RegisterSuccess(1)
           /\ UNCHANGED DB!database
  BY <1>1, <1>3, AnswerFacts DEF DB!database, DB!RegisterSuccess
<1>4. CASE response' = DB!RegisterSuccess(0) /\ time' = (time + 1) % TimeMod
           /\ signatureToServers' = [signatureToServers EXCEPT ![g][a] = k]
  <2>1. signatureToServers'[g][a] = k
    BY <1>2, <1>4 DEF DB!TypeOK
  <2>. QED
    BY <1>1, <1>4, <2>1, AnswerFacts, DatabaseAssumption DEF DB!RegisterSuccess
<1>. QED
  BY <1>3, <1>4 DEF DB!HandleRegister, DB!Requeue

\* What handleLocate does, whatever the database holds.
LEMMA LocateEffect ==
  ASSUME DB!TypeOK, NEW g \in Signature, DB!HandleLocate(g)
  PROVE  /\ time' \in Nat /\ time' <= time + 1
         /\ response' \in DB!Answer
         /\ response'.type \in {"LOCATE_SUCCESS", "LOCATE_FAILURE"}
         /\ UNCHANGED signatureToServers
<1>1. time \in Nat /\ (time + 1) % TimeMod \in Nat /\ (time + 1) % TimeMod <= time + 1
  <2>1. time \in Nat /\ time + 1 <= TimeMod
    BY DatabaseAssumption DEF DB!TypeOK, DB!Timestamp
  <2>. QED
    BY <2>1, DatabaseAssumption
<1>2. CASE response' = DB!LocateFailure /\ UNCHANGED DB!database
  BY <1>1, <1>2, AnswerFacts DEF DB!database, DB!LocateFailure
<1>3. ASSUME NEW p \in DB!Serving(g), response' = DB!LocateSuccess(p.addr),
             time' = (time + 1) % TimeMod, UNCHANGED signatureToServers
      PROVE  /\ time' \in Nat /\ time' <= time + 1
             /\ response' \in DB!Answer
             /\ response'.type \in {"LOCATE_SUCCESS", "LOCATE_FAILURE"}
             /\ UNCHANGED signatureToServers
  <2>1. p.addr \in Addr
    BY DEF DB!Serving, DB!TypeOK, DB!QueueEntry
  <2>. QED
    BY <1>1, <1>3, <2>1, AnswerFacts DEF DB!LocateSuccess
<1>. QED
  BY <1>2, <1>3 DEF DB!HandleLocate, DB!Requeue

\* A connection that has announced nothing is not in the database: removing
\* it changes nothing.
LEMMA RemoveNothing ==
  ASSUME Database, NEW k \in Socket, announced[k] = None, DB!RemoveIfServer(k)
  PROVE  UNCHANGED <<dbVars, response>>
<1>1. /\ \A p \in serverQueue : p.sock # k
      /\ \A a \in Addr : serverToTimestamp[a].sock # k
      /\ \A g \in Signature, a \in Addr : signatureToServers[g][a] # k
  BY DEF Database, DB!NoDanglingSocket
<1>2. serverQueue' = serverQueue
  BY <1>1 DEF DB!RemoveIfServer
<1>3. serverToTimestamp' = serverToTimestamp
  BY <1>1 DEF DB!RemoveIfServer, Database, DB!TypeOK
<1>4. signatureToServers' = signatureToServers
  <2>1. \A g \in Signature : signatureToServers[g] =
          [a \in Addr |-> IF signatureToServers[g][a] = k
                          THEN None ELSE signatureToServers[g][a]]
    BY <1>1 DEF Database, DB!TypeOK
  <2>. QED
    BY <2>1 DEF DB!RemoveIfServer, Database, DB!TypeOK
<1>. QED
  BY <1>2, <1>3, <1>4 DEF DB!RemoveIfServer, dbVars

\* A connection the database knows is open, and that of a server.
LEMMA KnownIsServer ==
  ASSUME Database, Types, Connections, NEW a \in Addr, serverToTimestamp[a].sock # None
  PROVE  serverToTimestamp[a].sock \in open \cap ServerSocket
<1>. DEFINE k == serverToTimestamp[a].sock
<1>1. k \in Socket
  BY DEF Database, DB!TypeOK, DB!NoStamp
<1>2. announced[k] # None
  BY <1>1 DEF Database, DB!NoDanglingSocket
<1>. QED
  BY <1>1, <1>2 DEF announced, Connections, Homes, Socket

-----------------------------------------------------------------------------
(* Messages on a connection.                                               *)

LEMMA Appending ==
  ASSUME NEW S, NEW s \in Seq(S), NEW e \in S
  PROVE  /\ Append(s, e) \in Seq(S) /\ Append(s, e) # <<>>
         /\ Len(s) \in Nat /\ Len(Append(s, e)) = Len(s) + 1
         /\ \A i \in 1 .. Len(s) : Append(s, e)[i] = s[i]
         /\ Append(s, e)[Len(s) + 1] = e
         /\ s = <<>> => Head(Append(s, e)) = e /\ Len(Append(s, e)) = 1
         /\ s # <<>> => Head(Append(s, e)) = Head(s)
OBVIOUS

LEMMA TakingTheHead ==
  ASSUME NEW S, NEW s \in Seq(S), s # <<>>
  PROVE  /\ Head(s) \in S /\ Head(s) = s[1] /\ 1 \in 1 .. Len(s)
         /\ Tail(s) \in Seq(S) /\ Len(s) \in Nat /\ Len(Tail(s)) = Len(s) - 1
         /\ \A i \in 1 .. Len(Tail(s)) : Tail(s)[i] = s[i + 1] /\ i + 1 \in 2 .. Len(s)
         /\ Len(s) <= 1 => Tail(s) = <<>>
OBVIOUS

LEMMA Emptiness ==
  ASSUME NEW S, NEW s \in Seq(S)
  PROVE  /\ Len(s) \in Nat
         /\ s = <<>> <=> Len(s) = 0
         /\ s = <<>> => 1 .. Len(s) = {}
OBVIOUS

LEMMA MessageTypes ==
  /\ \A m \in Message :
       /\ m.type \in {"REGISTER", "LOCATE_REQUEST", "TERMINATE", "TERMINATE_SUCCESS"}
       /\ m.type \in {"REGISTER", "LOCATE_REQUEST"} => m.sig \in Signature
  /\ \A g \in Signature :
       /\ RegisterMessage(g) \in Message /\ RegisterMessage(g).type = "REGISTER"
       /\ RegisterMessage(g).sig = g
       /\ LocateRequest(g) \in Message /\ LocateRequest(g).type = "LOCATE_REQUEST"
       /\ LocateRequest(g).sig = g
  /\ Terminate \in Message /\ Terminate.type = "TERMINATE"
  /\ DB!TerminateSuccess \in Message /\ DB!TerminateSuccess.type = "TERMINATE_SUCCESS"
BY DEF Message, RegisterMessage, LocateRequest, Terminate, DB!TerminateSuccess

-----------------------------------------------------------------------------
(* The processes.                                                          *)

\* A process step leaves main and the database as they are.
LEMMA ProcessFrame ==
  ASSUME Inv, UNCHANGED procFrame, announced' = announced
  PROVE  /\ Database' /\ Flag' /\ Loop'
         /\ Ended' = Ended /\ Normal' = Normal
<1>1. Database'
  BY DEF Inv, Database, DB!TypeOK, DB!NoDanglingSocket, procFrame, dbVars
<1>2. Ended' = Ended
  BY DEF Ended, procFrame
<1>3. Normal' = Normal
  BY <1>2 DEF Normal, procFrame
<1>4. Flag'
  BY <1>2 DEF Inv, Flag, procFrame
<1>5. Loop'
  BY <1>2, <1>3 DEF Inv, Loop, procFrame, dbVars, terminateVars
<1>. QED
  BY <1>1, <1>2, <1>3, <1>4, <1>5

\* A process that waits for no answer is not being served, and none is coming.
LEMMA Unasked ==
  ASSUME Inv, NEW k \in Socket, Alive(k), proc[k] \in {"ready", "serving", "stopping", "returned", "idle"}
  PROVE  /\ current # k
         /\ \A i \in 1 .. Len(toPeer[k]) : toPeer[k][i] = Terminate
         /\ Normal => toBinder[k] = <<>> /\ toPeer[k] = <<>>
<1>1. Answers(proc[k]) = {} /\ Asks(proc[k]) = {} /\ proc[k] # "terminating"
  BY DEF Answers, Asks
<1>2. current # k
  BY <1>1, DatabaseAssumption DEF Inv, Serving, Loop
<1>3. \A i \in 1 .. Len(toPeer[k]) : toPeer[k][i] = Terminate
  BY <1>1 DEF Inv, Answered
<1>4. ASSUME Normal PROVE toBinder[k] = <<>> /\ toPeer[k] = <<>>
  <2>1. toBinder[k] = <<>>
    BY <1>1, <1>4 DEF Inv, Lockstep
  <2>2. \A i \in 1 .. Len(toPeer[k]) : toPeer[k][i] # Terminate
    BY <1>4 DEF Inv, Lockstep
  <2>3. toPeer[k] \in Seq(DB!Answer \cup {Terminate})
    BY DEF Inv, Types
  <2>4. Len(toPeer[k]) = 0
    BY <1>3, <2>2, <2>3, Emptiness
  <2>. QED
    BY <2>1, <2>3, <2>4, Emptiness
<1>. QED
  BY <1>2, <1>3, <1>4

\* The step of a process that sends request m and waits in state s.
LEMMA SendKeepsInv ==
  ASSUME Inv, NEW k \in Socket, NEW m \in Message, NEW s, NEW v \in Signature \cup {None},
         Send(k, m, s), pending' = [pending EXCEPT ![k] = v],
         proc[k] \in {"ready", "idle"}, m.type \in Asks(s),
         s = "registering" => k \in ServerSocket /\ m.sig = v,
         s \in {"locating", "terminating"} => k \in ClientSocket,
         s \in {"registering", "locating"} => v \in Signature,
         m.type \in {"REGISTER", "LOCATE_REQUEST"} => MayRequest
  PROVE  Inv'
<1>1. /\ UNCHANGED procFrame /\ announced' = announced
      /\ UNCHANGED <<home, registered, crashes, backlog, toPeer>>
      /\ UNCHANGED <<pc, open, ready, current, asked, response, time>>
  BY DEF Send, announced, procFrame, dbVars, terminateVars
<1>2. /\ Database' /\ Flag' /\ Loop' /\ Ended' = Ended /\ Normal' = Normal
  BY <1>1, ProcessFrame
<1>3. s \in {"registering", "locating", "terminating"}
  BY DEF Asks
<1>4. Alive(k)
  BY DEF Alive, Gone
<1>5. /\ current # k
      /\ \A i \in 1 .. Len(toPeer[k]) : toPeer[k][i] = Terminate
      /\ Normal => toBinder[k] = <<>> /\ toPeer[k] = <<>>
  BY <1>4, Unasked
<1>6. /\ proc' = [proc EXCEPT ![k] = s]
      /\ \A j \in Socket : proc'[j] = IF j = k THEN s ELSE proc[j]
      /\ \A j \in Socket : pending'[j] = IF j = k THEN v ELSE pending[j]
  BY DEF Inv, Types, Send
<1>7. \A j \in Socket : toBinder[j] \in Seq(Message)
  BY DEF Inv, Types
<1>8. /\ toBinder' \in [Socket -> Seq(Message)]
      /\ \A j \in Socket : j # k => toBinder'[j] = toBinder[j]
      /\ pc = "exited" => toBinder' = toBinder
      /\ pc # "exited" => toBinder'[k] = Append(toBinder[k], m)
  <2>1. Append(toBinder[k], m) \in Seq(Message)
    BY <1>7, Appending
  <2>. QED
    BY <2>1 DEF Inv, Types, Send, ToBinder
<1>9. Types'
  BY <1>1, <1>3, <1>6, <1>8 DEF Inv, Types, procFrame, terminateVars
<1>10. Connections'
  <2>1. \A i \in 1 .. Len(toBinder'[k]) :
          toBinder'[k][i] = m \/ (i \in 1 .. Len(toBinder[k]) /\ toBinder'[k][i] = toBinder[k][i])
    BY <1>7, <1>8, Appending
  <2>2. k \in ServerSocket => m.type = "REGISTER" /\ s = "registering"
    BY <1>3, RolesAssumption DEF Asks
  <2>3. k \in ClientSocket => m.type \in {"LOCATE_REQUEST", "TERMINATE"} /\ s # "registering"
    BY <1>3, RolesAssumption DEF Asks
  <2>4. Unused'
    BY <1>1, <1>3, <1>6, <1>8 DEF Inv, Connections, Unused
  <2>5. Homes'
    BY <1>1, <1>3, <1>6 DEF Inv, Connections, Homes, Socket
  <2>6. Queued'
    BY <1>1, <1>3, <1>6 DEF Inv, Types, Connections, Queued
  <2>7. Roles'
    <3>. Roles
      BY DEF Inv, Connections
    <3>1. ASSUME NEW j \in ServerSocket
          PROVE  proc'[j] \in {"none", "gone", "reset", "ready", "registering", "serving", "stopping",
                         "returned"}
      BY <1>6, <2>2 DEF Roles, Socket
    <3>2. ASSUME NEW j \in ClientSocket
          PROVE  proc'[j] \in {"none", "gone", "reset", "idle", "locating", "terminating"}
      BY <1>3, <1>6, <2>3 DEF Roles, Socket
    <3>3. ASSUME NEW j \in ServerSocket, NEW i \in 1 .. Len(toBinder'[j])
          PROVE  toBinder'[j][i].type \in {"REGISTER", "TERMINATE_SUCCESS"}
      <4>1. CASE j = k
        BY <4>1, <2>1, <2>2 DEF Roles
      <4>2. CASE j # k
        BY <4>2, <1>8 DEF Roles, Socket
      <4>. QED
        BY <4>1, <4>2
    <3>4. ASSUME NEW j \in ClientSocket, NEW i \in 1 .. Len(toBinder'[j])
          PROVE  toBinder'[j][i].type \in {"LOCATE_REQUEST", "TERMINATE"}
      <4>1. CASE j = k
        BY <4>1, <2>1, <2>3 DEF Roles
      <4>2. CASE j # k
        BY <4>2, <1>8 DEF Roles, Socket
      <4>. QED
        BY <4>1, <4>2
    <3>5. ASSUME NEW j \in Socket, proc'[j] \in {"registering", "locating"}
          PROVE  pending'[j] \in Signature
      BY <3>5, <1>6 DEF Roles
    <3>. QED
      BY <3>1, <3>2, <3>3, <3>4, <3>5 DEF Roles
  <2>. QED
    BY <2>4, <2>5, <2>6, <2>7 DEF Connections
<1>11. Alive(k)' /\ \A j \in Socket : j # k => Alive(j)' = Alive(j)
  BY <1>3, <1>6 DEF Alive, Gone
<1>12. Lockstep'
  <2>. SUFFICES ASSUME Normal', NEW j \in Socket
                PROVE  /\ Len(toBinder[j])' <= 1
                       /\ Alive(j)' =>
                            /\ proc'[j] \notin {"stopping", "returned"}
                            /\ \A i \in 1 .. Len(toPeer[j]') : toPeer[j][i]' # Terminate
                            /\ toBinder[j]' # <<>> =>
                                 /\ Head(toBinder[j]').type \in Asks(proc'[j])
                                 /\ proc'[j] = "registering" => Head(toBinder[j]').sig = pending[j]'
    BY DEF Lockstep
  <2>1. CASE j = k
    <3>1. toBinder'[k] = Append(<<>>, m) /\ toPeer'[k] = <<>> /\ toBinder[k] = <<>>
      BY <1>1, <1>2, <1>5, <1>8 DEF Normal
    <3>2. Len(toBinder'[k]) = 1 /\ Head(toBinder'[k]) = m
      BY <3>1, <1>7, Appending
    <3>3. 1 .. Len(toPeer'[k]) = {}
      BY <3>1
    <3>. QED
      BY <2>1, <3>2, <3>3, <1>3, <1>6
  <2>2. CASE j # k
    BY <2>2, <1>1, <1>2, <1>6, <1>8, <1>11 DEF Inv, Lockstep
  <2>. QED
    BY <2>1, <2>2
<1>13. Budget'
  <2>. SUFFICES ASSUME Normal', Requests' # {}
                PROVE  time' + Cardinality(Requests') <= MaxTime
    BY DEF Budget
  <2>1. toBinder[k] = <<>> /\ toBinder'[k] = Append(<<>>, m) /\ Head(toBinder'[k]) = m
    BY <1>2, <1>5, <1>7, <1>8, Appending DEF Normal
  <2>2. CASE m.type \notin {"REGISTER", "LOCATE_REQUEST"}
    <3>1. Requests' = Requests
      BY <1>8, <2>1, <2>2 DEF Requests
    <3>. QED
      BY <3>1, <1>1, <1>2 DEF Inv, Budget
  <2>3. CASE MayRequest
    <3>. DEFINE Busy == {j \in Socket : toBinder[j] # <<>>}
    <3>1. Requests' \subseteq Busy \cup {k}
      BY <1>8 DEF Requests
    <3>2. IsFiniteSet(Busy) /\ k \notin Busy
      BY <2>1, RolesAssumption, FS_Subset
    <3>3. /\ IsFiniteSet(Busy \cup {k}) /\ Cardinality(Busy) \in Nat
          /\ Cardinality(Busy \cup {k}) = Cardinality(Busy) + 1
      BY <3>2, FS_AddElement, FS_CardinalityType
    <3>4. Cardinality(Requests') \in Nat /\ Cardinality(Requests') <= Cardinality(Busy) + 1
      BY <3>1, <3>3, FS_Subset, FS_CardinalityType
    <3>5. time + Cardinality(Busy) < MaxTime
      BY <2>3 DEF MayRequest
    <3>6. time \in Nat
      BY DatabaseAssumption DEF Inv, Database, DB!TypeOK, DB!Timestamp
    <3>. QED
      BY <3>3, <3>4, <3>5, <3>6, <1>1, DatabaseAssumption
  <2>. QED
    BY <2>2, <2>3
<1>14. Answered'
  BY <1>1, <1>5, <1>6, <1>8, <1>11 DEF Inv, Answered
<1>15. Serving'
  BY <1>1, <1>5, <1>6, <1>8, <1>11 DEF Inv, Types, Serving
<1>. QED
  BY <1>2, <1>9, <1>10, <1>12, <1>13, <1>14, <1>15 DEF Inv

\* The step of a process to a state s in which it waits for no answer.
LEMMA RestKeepsInv ==
  ASSUME Inv, NEW k \in Socket, NEW s \in {"ready", "serving", "stopping", "returned", "idle"},
         NEW v \in Signature \cup {None},
         UNCHANGED <<procFrame, home, crashes, backlog>>,
         toBinder' \in [Socket -> Seq(Message)],
         \/ toBinder' = toBinder
         \/ /\ ~Normal /\ k \in ServerSocket
            /\ toBinder' = [toBinder EXCEPT ![k] = Append(@, DB!TerminateSuccess)],
         proc' = [proc EXCEPT ![k] = s], pending' = [pending EXCEPT ![k] = v],
         registered' \in [Socket -> SUBSET Signature],
         toPeer' \in [Socket -> Seq(DB!Answer \cup {Terminate})],
         \A j \in Socket : j # k => toPeer'[j] = toPeer[j],
         \A i \in 1 .. Len(toPeer'[k]) : toPeer'[k][i] = Terminate,
         Alive(k), current # k,
         Normal => toBinder[k] = <<>> /\ toPeer'[k] = <<>> /\ s \notin {"stopping", "returned"},
         IF s = "idle" THEN k \in ClientSocket ELSE k \in ServerSocket
  PROVE  Inv'
<1>1. /\ announced' = announced
      /\ UNCHANGED <<pc, open, ready, current, asked, response, time>>
  BY DEF announced, procFrame, dbVars, terminateVars
<1>2. /\ Database' /\ Flag' /\ Loop' /\ Ended' = Ended /\ Normal' = Normal
  BY <1>1, ProcessFrame
<1>3. /\ \A j \in Socket : proc'[j] = IF j = k THEN s ELSE proc[j]
      /\ \A j \in Socket : pending'[j] = IF j = k THEN v ELSE pending[j]
      /\ \A j \in Socket : j # k => toBinder'[j] = toBinder[j]
      /\ Normal => toBinder' = toBinder
  BY DEF Inv, Types
<1>4. Alive(k)' /\ \A j \in Socket : Alive(j)' = Alive(j)
  BY <1>3 DEF Alive, Gone
<1>5. Types'
  BY <1>1, <1>3 DEF Inv, Types, procFrame, terminateVars
<1>6. Connections'
  <2>1. Unused'
    BY <1>1, <1>3, <1>4 DEF Inv, Connections, Unused, Alive
  <2>2. Homes'
    BY <1>1, <1>3, <1>4 DEF Inv, Connections, Homes, Socket, Alive
  <2>3. Queued'
    <3>1. backlog \in Seq(Socket) /\ \A i \in 1 .. Len(backlog) : backlog[i] \in Socket
      BY DEF Inv, Types
    <3>2. \A j \in Socket : proc[j] # "none" => proc'[j] # "none"
      BY <1>3
    <3>. QED
      BY <1>1, <3>1, <3>2 DEF Inv, Connections, Queued
  <2>4. Roles'
    <3>1. CASE toBinder' = toBinder
      BY <3>1, <1>3, RolesAssumption DEF Inv, Connections, Roles, Socket
    <3>2. CASE k \in ServerSocket
               /\ toBinder' = [toBinder EXCEPT ![k] = Append(@, DB!TerminateSuccess)]
      <4>1. toBinder[k] \in Seq(Message) /\ toBinder'[k] = Append(toBinder[k], DB!TerminateSuccess)
        BY <3>2 DEF Inv, Types
      <4>2. \A i \in 1 .. Len(toBinder'[k]) :
              \/ toBinder'[k][i].type = "TERMINATE_SUCCESS"
              \/ i \in 1 .. Len(toBinder[k]) /\ toBinder'[k][i] = toBinder[k][i]
        BY <4>1, Appending, MessageTypes
      <4>3. k \notin ClientSocket /\ \A j \in ClientSocket : toBinder'[j] = toBinder[j]
        BY <1>3, <3>2, RolesAssumption DEF Socket
      <4>4. \A j \in ServerSocket : \A i \in 1 .. Len(toBinder'[j]) :
              toBinder'[j][i].type \in {"REGISTER", "TERMINATE_SUCCESS"}
        <5>1. ASSUME NEW j \in ServerSocket, NEW i \in 1 .. Len(toBinder[j])
              PROVE  toBinder[j][i].type \in {"REGISTER", "TERMINATE_SUCCESS"}
          BY DEF Inv, Connections, Roles
        <5>2. \A j \in ServerSocket : j # k => toBinder'[j] = toBinder[j]
          BY <1>3 DEF Socket
        <5>. QED
          BY <3>2, <4>2, <5>1, <5>2
      <4>5. \A j \in ServerSocket :
              proc'[j] \in {"none", "gone", "reset", "ready", "registering", "serving", "stopping",
                         "returned"}
        BY <1>3, RolesAssumption DEF Inv, Connections, Roles, Socket
      <4>6. \A j \in ClientSocket :
              proc'[j] \in {"none", "gone", "reset", "idle", "locating", "terminating"}
        BY <1>3, RolesAssumption DEF Inv, Connections, Roles, Socket
      <4>7. \A j \in Socket : proc'[j] \in {"registering", "locating"} => pending'[j] \in Signature
        BY <1>3 DEF Inv, Connections, Roles
      <4>8. \A j \in ClientSocket : \A i \in 1 .. Len(toBinder'[j]) :
              toBinder'[j][i].type \in {"LOCATE_REQUEST", "TERMINATE"}
        BY <4>3 DEF Inv, Connections, Roles
      <4>. QED
        BY <4>4, <4>5, <4>6, <4>7, <4>8 DEF Roles
    <3>. QED
      BY <3>1, <3>2
  <2>. QED
    BY <2>1, <2>2, <2>3, <2>4 DEF Connections
<1>7. Lockstep'
  <2>. SUFFICES ASSUME Normal', NEW j \in Socket
                PROVE  /\ Len(toBinder[j])' <= 1
                       /\ Alive(j)' =>
                            /\ proc'[j] \notin {"stopping", "returned"}
                            /\ \A i \in 1 .. Len(toPeer[j]') : toPeer[j][i]' # Terminate
                            /\ toBinder[j]' # <<>> =>
                                 /\ Head(toBinder[j]').type \in Asks(proc'[j])
                                 /\ proc'[j] = "registering" => Head(toBinder[j]').sig = pending[j]'
    BY DEF Lockstep
  <2>1. CASE j = k
    BY <2>1, <1>2, <1>3 DEF Inv, Lockstep
  <2>2. CASE j # k
    BY <2>2, <1>2, <1>3, <1>4 DEF Inv, Lockstep
  <2>. QED
    BY <2>1, <2>2
<1>8. Budget'
  BY <1>1, <1>2 DEF Inv, Budget, Requests
<1>9. Answered'
  <2>. SUFFICES ASSUME NEW j \in Socket
                PROVE  /\ ~Alive(j)' => toPeer'[j] = <<>>
                       /\ \A i \in 1 .. Len(toPeer'[j]) : toPeer'[j][i] # Terminate =>
                            /\ i = 1 /\ toPeer'[j][i].type \in Answers(proc'[j])
                            /\ toBinder'[j] = <<>>
    BY DEF Answered
  <2>1. CASE j = k
    BY <2>1, <1>4
  <2>2. CASE j # k
    BY <2>2, <1>3, <1>4 DEF Inv, Answered
  <2>. QED
    BY <2>1, <2>2
<1>10. Serving'
  BY <1>1, <1>3, <1>4 DEF Inv, Types, Serving
<1>. QED
  BY <1>2, <1>5, <1>6, <1>7, <1>8, <1>9, <1>10 DEF Inv

\* The step of a process that hears the answer it waits for, or the loss of
\* the binder: answers come first, so what is left is a TERMINATE at most.
LEMMA HearKeepsInv ==
  ASSUME Inv, NEW k \in Socket, NEW s,
         IF k \in ClientSocket THEN s = "idle" ELSE s = "ready",
         proc[k] \in {"registering", "locating", "terminating"},
         toPeer[k] # <<>> \/ EndOfMessages(k),
         UNCHANGED <<procFrame, home, crashes, backlog, toBinder>>,
         proc' = [proc EXCEPT ![k] = s], pending' = [pending EXCEPT ![k] = None],
         registered' \in [Socket -> SUBSET Signature],
         toPeer' = IF toPeer[k] = <<>> THEN toPeer ELSE [toPeer EXCEPT ![k] = Tail(@)]
  PROVE  Inv'
<1>1. Alive(k)
  BY DEF Alive, Gone
<1>2. toPeer[k] \in Seq(DB!Answer \cup {Terminate})
  BY DEF Inv, Types
<1>3. current # k
  BY <1>1, DatabaseAssumption DEF Inv, Serving, Loop, EndOfMessages
<1>4. \A i \in 2 .. Len(toPeer[k]) : toPeer[k][i] = Terminate
  BY <1>2, Emptiness DEF Inv, Answered
<1>5. /\ toPeer' \in [Socket -> Seq(DB!Answer \cup {Terminate})]
      /\ \A j \in Socket : j # k => toPeer'[j] = toPeer[j]
      /\ toPeer[k] # <<>> => toPeer'[k] = Tail(toPeer[k])
  BY <1>2, TakingTheHead DEF Inv, Types
<1>6. \A i \in 1 .. Len(toPeer'[k]) : toPeer'[k][i] = Terminate
  BY <1>2, <1>4, <1>5, TakingTheHead, Emptiness
<1>7. ASSUME Normal PROVE toBinder[k] = <<>> /\ toPeer'[k] = <<>>
  <2>1. toPeer[k] # <<>>
    BY <1>7 DEF EndOfMessages, Normal
  <2>2. \A i \in 1 .. Len(toPeer[k]) : toPeer[k][i] # Terminate
    BY <1>1, <1>7 DEF Inv, Lockstep
  <2>3. 1 \in 1 .. Len(toPeer[k]) /\ Len(toPeer[k]) \in Nat
    BY <1>2, <2>1, TakingTheHead
  <2>4. toBinder[k] = <<>>
    BY <2>2, <2>3 DEF Inv, Answered
  <2>5. ~(2 <= Len(toPeer[k]))
    BY <1>4, <2>2, <2>3
  <2>. QED
    BY <1>2, <1>5, <2>1, <2>3, <2>4, <2>5, TakingTheHead
<1>8. IF s = "idle" THEN k \in ClientSocket ELSE k \in ServerSocket
  BY DEF Socket
<1>9. s \in {"ready", "serving", "stopping", "returned", "idle"} /\ s \notin {"stopping", "returned"}
  OBVIOUS
<1>10. toBinder' \in [Socket -> Seq(Message)]
  BY DEF Inv, Types
<1>. QED
  BY <1>1, <1>3, <1>5, <1>6, <1>7, <1>8, <1>9, <1>10, RestKeepsInv

\* The step of a process that connects.
LEMMA ConnectKeepsInv ==
  ASSUME Inv, NEW k \in Socket, NEW s, NEW a \in Addr \cup {None}, Connect(k, s, a),
         \/ k \in ServerSocket /\ s = "ready" /\ a \in Addr
         \/ k \in ClientSocket /\ s = "idle" /\ a = None,
         a # None /\ ~AddrReuse => \A j \in Socket : home[j] # a
  PROVE  Inv'
<1>0. k \notin open /\ toBinder[k] = <<>> /\ home[k] = None /\ toPeer[k] = <<>> /\ ~Alive(k)
  BY DEF Inv, Connections, Unused, Connect, Answered, Alive
<1>1. /\ UNCHANGED procFrame /\ UNCHANGED <<pending, registered, crashes, toBinder, toPeer>>
      /\ UNCHANGED <<pc, open, ready, current, asked, response, time>>
  BY DEF Connect, procFrame, dbVars, terminateVars
<1>2. /\ \A j \in Socket : proc'[j] = IF j = k THEN s ELSE proc[j]
      /\ \A j \in Socket : home'[j] = IF j = k THEN a ELSE home[j]
      /\ proc[k] = "none"
  BY DEF Inv, Types, Connect
<1>3. announced' = announced
  BY <1>0, <1>1, <1>2 DEF announced
<1>4. /\ Database' /\ Flag' /\ Loop' /\ Ended' = Ended /\ Normal' = Normal
  BY <1>1, <1>3, ProcessFrame
<1>5. Alive(k)' /\ \A j \in Socket : j # k => Alive(j)' = Alive(j)
  BY <1>2 DEF Alive, Gone
<1>6. backlog' = Append(backlog, k) /\ backlog \in Seq(Socket)
  BY DEF Inv, Types, Connect
<1>7. Types'
  <2>1. proc' \in [Socket -> {"none", "gone", "reset", "ready", "registering",
                          "serving", "stopping", "returned",
                          "idle", "locating", "terminating"}]
    BY DEF Inv, Types, Connect
  <2>2. home' \in [Socket -> Addr \cup {None}]
    BY DEF Inv, Types, Connect
  <2>. QED
    BY <1>1, <1>6, <2>1, <2>2, Appending DEF Inv, Types, procFrame, terminateVars
<1>8. Connections'
  <2>1. Unused'
    BY <1>0, <1>1, <1>2 DEF Inv, Connections, Unused
  <2>2. Homes'
    BY <1>1, <1>2, RolesAssumption DEF Inv, Connections, Homes, Socket
  <2>3. Queued'
    <3>1. \A i \in 1 .. Len(backlog) : backlog[i] # k
      BY <1>2 DEF Inv, Connections, Queued
    <3>2. /\ Len(backlog) \in Nat /\ Len(backlog') = Len(backlog) + 1
          /\ \A i \in 1 .. Len(backlog) : backlog'[i] = backlog[i] /\ backlog[i] \in Socket
          /\ backlog'[Len(backlog) + 1] = k
      BY <1>6, Appending
    <3>. QED
      BY <1>0, <1>1, <1>2, <3>1, <3>2 DEF Inv, Connections, Queued
  <2>4. Roles'
    BY <1>0, <1>1, <1>2, RolesAssumption DEF Inv, Connections, Roles, Socket
  <2>. QED
    BY <2>1, <2>2, <2>3, <2>4 DEF Connections
<1>9. Lockstep'
  <2>. SUFFICES ASSUME Normal', NEW j \in Socket
                PROVE  /\ Len(toBinder[j])' <= 1
                       /\ Alive(j)' =>
                            /\ proc'[j] \notin {"stopping", "returned"}
                            /\ \A i \in 1 .. Len(toPeer[j]') : toPeer[j][i]' # Terminate
                            /\ toBinder[j]' # <<>> =>
                                 /\ Head(toBinder[j]').type \in Asks(proc'[j])
                                 /\ proc'[j] = "registering" => Head(toBinder[j]').sig = pending[j]'
    BY DEF Lockstep
  <2>1. CASE j = k
    BY <2>1, <1>0, <1>1, <1>2
  <2>2. CASE j # k
    BY <2>2, <1>1, <1>2, <1>4, <1>5 DEF Inv, Lockstep
  <2>. QED
    BY <2>1, <2>2
<1>10. Budget'
  BY <1>1, <1>4 DEF Inv, Budget, Requests
<1>11. Answered'
  BY <1>0, <1>1, <1>2, <1>5 DEF Inv, Answered
<1>12. Serving'
  <2>1. current # k
    BY <1>0, DatabaseAssumption DEF Inv, Types
  <2>. QED
    BY <2>1, <1>1, <1>2, <1>5 DEF Inv, Types, Serving
<1>. QED
  BY <1>4, <1>7, <1>8, <1>9, <1>10, <1>11, <1>12 DEF Inv

\* The step of a process that ends.
LEMMA EndKeepsInv ==
  ASSUME Inv, NEW k \in Socket, NEW s \in {"gone", "reset"}, End(k, s), Alive(k),
         crashes' \in 0 .. MaxCrashes,
         toBinder' = toBinder
  PROVE  Inv'
<1>1. /\ UNCHANGED procFrame /\ announced' = announced
      /\ UNCHANGED <<home, backlog>>
      /\ UNCHANGED <<pc, open, ready, current, asked, response, time>>
  BY DEF End, announced, procFrame, dbVars, terminateVars
<1>2. /\ Database' /\ Flag' /\ Loop' /\ Ended' = Ended /\ Normal' = Normal
  BY <1>1, ProcessFrame
<1>3. /\ \A j \in Socket : proc'[j] = IF j = k THEN s ELSE proc[j]
      /\ \A j \in Socket : pending'[j] = IF j = k THEN None ELSE pending[j]
      /\ \A j \in Socket : toPeer'[j] = IF j = k THEN <<>> ELSE toPeer[j]
  BY DEF Inv, Types, End
<1>4. ~Alive(k)' /\ \A j \in Socket : j # k => Alive(j)' = Alive(j)
  BY <1>3 DEF Alive, Gone
<1>5. proc[k] # "none"
  BY DEF Alive
<1>6. Types'
  <2>1. toPeer' \in [Socket -> Seq(DB!Answer \cup {Terminate})]
    BY DEF Inv, Types, End
  <2>. QED
    BY <1>1, <2>1 DEF Inv, Types, End, procFrame, terminateVars
<1>7. Connections'
  <2>1. Unused'
    BY <1>1, <1>3 DEF Inv, Connections, Unused
  <2>2. Homes'
    BY <1>1, <1>3, <1>5 DEF Inv, Connections, Homes, Socket
  <2>3. Queued'
    <3>1. backlog \in Seq(Socket) /\ \A i \in 1 .. Len(backlog) : backlog[i] \in Socket
      BY DEF Inv, Types
    <3>2. \A j \in Socket : proc[j] # "none" => proc'[j] # "none"
      BY <1>3
    <3>. QED
      BY <1>1, <3>1, <3>2 DEF Inv, Connections, Queued
  <2>4. Roles'
    BY <1>3 DEF Inv, Connections, Roles, Socket
  <2>. QED
    BY <2>1, <2>2, <2>3, <2>4 DEF Connections
<1>8. Lockstep'
  BY <1>2, <1>3, <1>4 DEF Inv, Lockstep
<1>9. Budget'
  BY <1>1, <1>2, <1>3 DEF Inv, Budget, Requests
<1>10. Answered'
  BY <1>3, <1>4 DEF Inv, Answered
<1>11. Serving'
  BY <1>1, <1>3, <1>4 DEF Inv, Types, Serving
<1>. QED
  BY <1>2, <1>6, <1>7, <1>8, <1>9, <1>10, <1>11 DEF Inv

LEMMA ServerStepInv ==
  ASSUME Inv, NEW k \in ServerSocket, ServerStep(k)
  PROVE  Inv'
<1>0. k \in Socket /\ k \notin ClientSocket /\ (k \in ServerSocket) /\ registered[k] \in SUBSET Signature
  BY RolesAssumption DEF Socket, Inv, Types
<1>1. ASSUME NEW a \in Addr, ServerStart(k, a) PROVE Inv'
  BY <1>0, <1>1, DatabaseAssumption, ConnectKeepsInv DEF ServerStart
<1>2. ASSUME NEW g \in Signature, ServerRegister(k, g) PROVE Inv'
  <2>1. RegisterMessage(g) \in Message /\ RegisterMessage(g).sig = g
        /\ RegisterMessage(g).type \in Asks("registering")
    BY MessageTypes DEF Asks
  <2>. QED
    BY <1>0, <1>2, <2>1, SendKeepsInv DEF ServerRegister
<1>3. CASE ServerHear(k)
  <2>1. pending[k] \in Signature
    BY <1>0, <1>3 DEF ServerHear, Inv, Connections, Roles
  <2>2. registered' \in [Socket -> SUBSET Signature]
    <3>1. registered[k] \cup {pending[k]} \in SUBSET Signature
      BY <1>0, <2>1
    <3>. QED
      BY <1>3, <3>1 DEF ServerHear, Inv, Types
  <2>. QED
    BY <1>0, <1>3, <2>2, HearKeepsInv DEF ServerHear
<1>4. CASE ServerExecute(k)
  <2>1. Alive(k) /\ proc[k] = "ready"
    BY <1>4 DEF ServerExecute, Alive, Gone
  <2>2. /\ current # k
        /\ \A i \in 1 .. Len(toPeer[k]) : toPeer[k][i] = Terminate
        /\ Normal => toBinder[k] = <<>> /\ toPeer[k] = <<>>
    BY <1>0, <2>1, Unasked
  <2>3. pending' = [pending EXCEPT ![k] = pending[k]] /\ pending[k] \in Signature \cup {None}
    BY <1>0, <1>4 DEF ServerExecute, Inv, Types
  <2>4. /\ proc' = [proc EXCEPT ![k] = "serving"]
        /\ UNCHANGED <<procFrame, home, crashes, backlog, toBinder>>
        /\ UNCHANGED <<registered, toPeer>>
    BY <1>4 DEF ServerExecute, netVars
  <2>5. /\ registered' \in [Socket -> SUBSET Signature]
        /\ toPeer' \in [Socket -> Seq(DB!Answer \cup {Terminate})]
        /\ toBinder' \in [Socket -> Seq(Message)]
    BY <2>4 DEF Inv, Types
  <2>. QED
    BY <1>0, <2>1, <2>2, <2>3, <2>4, <2>5, RestKeepsInv
<1>5. CASE ServerStop(k)
  <2>1. Alive(k) /\ proc[k] = "serving"
    BY <1>5 DEF ServerStop, Alive, Gone
  <2>2. /\ current # k
        /\ \A i \in 1 .. Len(toPeer[k]) : toPeer[k][i] = Terminate
        /\ Normal => toPeer[k] = <<>>
    BY <1>0, <2>1, Unasked
  <2>3. ~Normal
    BY <1>5, <2>2 DEF ServerStop, EndOfMessages, Normal
  <2>4. pending' = [pending EXCEPT ![k] = pending[k]] /\ pending[k] \in Signature \cup {None}
    BY <1>0, <1>5 DEF ServerStop, Inv, Types
  <2>5. PICK s \in {"serving", "stopping"} : proc' = [proc EXCEPT ![k] = s]
    <3>1. proc = [proc EXCEPT ![k] = "serving"]
      BY <1>0, <2>1 DEF Inv, Types
    <3>. QED
      BY <1>5, <3>1 DEF ServerStop
  <2>6. toPeer[k] \in Seq(DB!Answer \cup {Terminate})
    BY <1>0 DEF Inv, Types
  <2>7. /\ toPeer' \in [Socket -> Seq(DB!Answer \cup {Terminate})]
        /\ \A j \in Socket : j # k => toPeer'[j] = toPeer[j]
        /\ toPeer'[k] = IF toPeer[k] = <<>> THEN <<>> ELSE Tail(toPeer[k])
    BY <1>0, <1>5, <2>6, TakingTheHead DEF ServerStop, Inv, Types
  <2>8. \A i \in 1 .. Len(toPeer'[k]) : toPeer'[k][i] = Terminate
    BY <2>2, <2>6, <2>7, TakingTheHead, Emptiness
  <2>9. /\ UNCHANGED <<procFrame, home, crashes, backlog, toBinder>>
        /\ registered' \in [Socket -> SUBSET Signature]
        /\ toBinder' \in [Socket -> Seq(Message)]
    BY <1>5 DEF ServerStop, Inv, Types
  <2>. QED
    BY <1>0, <2>1, <2>2, <2>3, <2>4, <2>5, <2>7, <2>8, <2>9, RestKeepsInv
<1>6. CASE ServeReturns(k)
  <2>1. Alive(k) /\ proc[k] = "stopping"
    BY <1>6 DEF ServeReturns, Alive, Gone
  <2>2. /\ current # k
        /\ \A i \in 1 .. Len(toPeer[k]) : toPeer[k][i] = Terminate
    BY <1>0, <2>1, Unasked
  <2>3. ~Normal
    BY <1>0, <2>1 DEF Inv, Lockstep
  <2>4. pending' = [pending EXCEPT ![k] = pending[k]] /\ pending[k] \in Signature \cup {None}
    BY <1>0, <1>6 DEF ServeReturns, Inv, Types
  <2>5. toBinder' \in [Socket -> Seq(Message)]
    <3>1. Append(toBinder[k], DB!TerminateSuccess) \in Seq(Message)
      BY <1>0, MessageTypes, Appending DEF Inv, Types
    <3>. QED
      BY <1>6, <3>1 DEF ServeReturns, Send, ToBinder, Inv, Types
  <2>6. \/ toBinder' = toBinder
        \/ toBinder' = [toBinder EXCEPT ![k] = Append(@, DB!TerminateSuccess)]
    BY <1>6 DEF ServeReturns, Send, ToBinder
  <2>7. /\ proc' = [proc EXCEPT ![k] = "returned"]
        /\ UNCHANGED <<procFrame, home, crashes, backlog>>
        /\ UNCHANGED <<registered, toPeer>>
    BY <1>6 DEF ServeReturns, Send
  <2>8. /\ registered' \in [Socket -> SUBSET Signature]
        /\ toPeer' \in [Socket -> Seq(DB!Answer \cup {Terminate})]
    BY <2>7 DEF Inv, Types
  <2>. QED
    BY <1>0, <2>1, <2>2, <2>3, <2>4, <2>5, <2>6, <2>7, <2>8, RestKeepsInv
<1>7. CASE ServerExit(k)
  <2>1. Alive(k)
    BY <1>7 DEF ServerExit, Alive, Gone
  <2>2. crashes' \in 0 .. MaxCrashes /\ toBinder' = toBinder
    BY <1>7 DEF ServerExit, Inv, Types
  <2>. QED
    BY <1>0, <1>7, <2>1, <2>2, EndKeepsInv DEF ServerExit
<1>. QED
  BY <1>1, <1>2, <1>3, <1>4, <1>5, <1>6, <1>7 DEF ServerStep

LEMMA ClientStepInv ==
  ASSUME Inv, NEW k \in ClientSocket, ClientStep(k)
  PROVE  Inv'
<1>0. k \in Socket /\ k \in ClientSocket
  BY DEF Socket
<1>1. CASE ClientStart(k)
  BY <1>0, <1>1, ConnectKeepsInv DEF ClientStart
<1>2. ASSUME NEW g \in Signature, ClientLocate(k, g) PROVE Inv'
  <2>1. LocateRequest(g) \in Message /\ LocateRequest(g).type \in Asks("locating")
    BY MessageTypes DEF Asks
  <2>. QED
    BY <1>0, <1>2, <2>1, SendKeepsInv DEF ClientLocate
<1>3. CASE ClientTerminate(k)
  <2>1. /\ Terminate \in Message /\ Terminate.type \in Asks("terminating")
        /\ Terminate.type \notin {"REGISTER", "LOCATE_REQUEST"}
    BY MessageTypes DEF Asks
  <2>2. pending' = [pending EXCEPT ![k] = pending[k]] /\ pending[k] \in Signature \cup {None}
    BY <1>0, <1>3 DEF ClientTerminate, Inv, Types
  <2>. QED
    BY <1>0, <1>3, <2>1, <2>2, SendKeepsInv DEF ClientTerminate
<1>4. CASE ClientHear(k)
  <2>1. registered' \in [Socket -> SUBSET Signature]
    BY <1>4 DEF ClientHear, Inv, Types
  <2>. QED
    BY <1>0, <1>4, <2>1, HearKeepsInv DEF ClientHear
<1>. QED
  BY <1>1, <1>2, <1>3, <1>4 DEF ClientStep

LEMMA CrashInv ==
  ASSUME Inv, NEW k \in Socket, Crash(k)
  PROVE  Inv'
<1>1. PICK s \in {"gone", "reset"} : End(k, s)
  BY DEF Crash
<1>2. crashes' \in 0 .. MaxCrashes
  BY RolesAssumption DEF Crash, Inv, Types
<1>3. toBinder' = toBinder /\ Alive(k)
  BY DEF Crash
<1>. QED
  BY <1>1, <1>2, <1>3, EndKeepsInv

-----------------------------------------------------------------------------
(* Main drives the database as its specification allows.                   *)

\* A step that leaves the database, the last response and the connections alone.
LEMMA Stutters ==
  ASSUME UNCHANGED <<dbVars, response>>, announced' = announced
  PROVE  [DB!Next]_(DB!vars)
BY DEF DB!vars, DB!database, dbVars

LEMMA AcceptDrives ==
  ASSUME Inv, AcceptIfAny
  PROVE  [DB!Next]_(DB!vars)
<1>1. UNCHANGED <<dbVars, response>> /\ UNCHANGED home
  BY DEF AcceptIfAny, procVars
<1>2. CASE backlog = <<>>
  <2>1. announced' = announced
    BY <1>1, <1>2 DEF AcceptIfAny, announced
  <2>. QED
    BY <1>1, <2>1, Stutters
<1>3. CASE backlog # <<>>
  <2>. DEFINE k == Head(backlog)
  <2>1. k \in Socket /\ k \notin open /\ open' = open \cup {k}
    BY <1>3, TakingTheHead DEF AcceptIfAny, Inv, Types, Connections, Queued
  <2>2. announced[k] = None /\ announced' = [announced EXCEPT ![k] = home[k]]
    BY <1>1, <2>1 DEF announced
  <2>3. CASE home[k] = None
    <3>1. announced' = announced
      BY <2>1, <2>2, <2>3 DEF announced
    <3>. QED
      BY <1>1, <3>1, Stutters
  <2>4. CASE home[k] # None
    <3>1. home[k] \in Addr
      BY <2>1, <2>4 DEF Inv, Types
    <3>2. AddrReuse \/ \A i \in Socket : announced[i] # home[k]
      BY <2>1, <2>4, DatabaseAssumption DEF Inv, Connections, Homes, announced
    <3>3. DB!Accept(k, home[k])
      BY <1>1, <2>2, <3>2 DEF DB!Accept, DB!database, dbVars
    <3>. QED
      BY <2>1, <3>1, <3>3 DEF DB!Next
  <2>. QED
    BY <2>3, <2>4
<1>. QED
  BY <1>2, <1>3

LEMMA ClosedDrives ==
  ASSUME Inv, NEW k \in Socket, ConnectionClosed(k)
  PROVE  [DB!Next]_(DB!vars)
<1>1. announced' = [announced EXCEPT ![k] = None]
  BY DEF Inv, Types, ConnectionClosed, announced
<1>2. CASE announced[k] = None
  <2>1. announced' = announced
    BY <1>1, <1>2 DEF announced
  <2>. QED
    BY <1>2, <2>1, RemoveNothing, Stutters DEF Inv, ConnectionClosed
<1>3. CASE announced[k] # None
  BY <1>1, <1>3 DEF ConnectionClosed, DB!Closed, DB!Next
<1>. QED
  BY <1>2, <1>3

LEMMA ResponseDrives ==
  ASSUME Inv, SendResponse
  PROVE  [DB!Next]_(DB!vars)
<1>1. announced' = announced
  BY DEF SendResponse, announced, procVars
<1>2. current \in Socket
  BY DEF SendResponse, Inv, Types, Loop
<1>3. CASE UNCHANGED <<dbVars, response>>
  BY <1>1, <1>3, Stutters
<1>4. CASE DB!RemoveIfServer(current) /\ announced[current] = None
  BY <1>1, <1>2, <1>4, RemoveNothing, Stutters DEF Inv
<1>5. CASE DB!RemoveIfServer(current) /\ announced[current] # None
  BY <1>1, <1>2, <1>5 DEF DB!SendFailed, DB!Next
<1>. QED
  BY <1>3, <1>4, <1>5 DEF SendResponse

\* What main knows of the connection it receives a request on.
LEMMA Received ==
  ASSUME Inv, NEW k \in Socket, NEW t, Receive(k, t)
  PROVE  /\ Normal /\ k \in open /\ proc[k] # "none" /\ current = None /\ asked = None
         /\ toBinder[k] # <<>> /\ toBinder[k] \in Seq(Message) /\ Head(toBinder[k]).type = t
         /\ Head(toBinder[k]) \in Message /\ Len(toBinder[k]) = 1
         /\ t \in {"REGISTER", "TERMINATE_SUCCESS"} => k \in ServerSocket /\ home[k] \in Addr
         /\ t \in {"LOCATE_REQUEST", "TERMINATE"} => k \in ClientSocket
         /\ t \in {"REGISTER", "LOCATE_REQUEST"} =>
              Head(toBinder[k]).sig \in Signature /\ k \in Requests
<1>1. pc = "serve" /\ k \in ready /\ toBinder[k] # <<>> /\ Head(toBinder[k]).type = t
  BY DEF Receive
<1>2. toBinder[k] \in Seq(Message) /\ k \in open
  BY <1>1 DEF Inv, Types
<1>3. Head(toBinder[k]) \in Message /\ Head(toBinder[k]) = toBinder[k][1]
      /\ 1 \in 1 .. Len(toBinder[k]) /\ Len(toBinder[k]) \in Nat
  BY <1>1, <1>2, TakingTheHead
<1>4. Normal /\ current = None /\ asked = None
  BY <1>1 DEF Inv, Normal, Loop
<1>5. proc[k] # "none"
  BY <1>2 DEF Inv, Connections, Unused
<1>6. Len(toBinder[k]) = 1
  <2>1. Len(toBinder[k]) <= 1
    BY <1>4 DEF Inv, Lockstep
  <2>2. 1 <= Len(toBinder[k]) /\ Len(toBinder[k]) \in Nat
    BY <1>3
  <2>3. \A n \in Nat : n <= 1 /\ 1 <= n => n = 1
    OBVIOUS
  <2>. QED
    BY <2>1, <2>2, <2>3, Zenon
<1>7. /\ t \in {"REGISTER", "TERMINATE_SUCCESS"} => k \in ServerSocket
      /\ t \in {"LOCATE_REQUEST", "TERMINATE"} => k \in ClientSocket
  BY <1>1, <1>3 DEF Inv, Connections, Roles, Socket
<1>8. k \in ServerSocket => home[k] \in Addr
  BY <1>5 DEF Inv, Connections, Homes
<1>9. t \in {"REGISTER", "LOCATE_REQUEST"} =>
        Head(toBinder[k]).sig \in Signature /\ k \in Requests
  BY <1>1, <1>3, MessageTypes DEF Requests
<1>. QED
  BY <1>1, <1>2, <1>3, <1>4, <1>5, <1>6, <1>7, <1>8, <1>9

\* A request that is on its way when time_ is bounded can be served.
LEMMA Bounded ==
  ASSUME Inv, Normal, NEW k \in Requests
  PROVE  /\ time < MaxTime
         /\ time \in Nat /\ IsFiniteSet(Requests)
         /\ Cardinality(Requests) \in Nat
         /\ Cardinality(Requests \ {k}) = Cardinality(Requests) - 1
<1>1. IsFiniteSet(Requests)
  BY RolesAssumption, FS_Subset DEF Requests
<1>2. /\ IsFiniteSet(Requests \ {k}) /\ Cardinality(Requests) \in Nat
      /\ Cardinality(Requests \ {k}) = Cardinality(Requests) - 1
      /\ Cardinality(Requests \ {k}) \in Nat
  BY <1>1, FS_RemoveElement, FS_CardinalityType
<1>3. time + Cardinality(Requests) <= MaxTime
  BY DEF Inv, Budget
<1>4. time \in Nat
  BY DatabaseAssumption DEF Inv, Database, DB!TypeOK, DB!Timestamp
<1>. QED
  BY <1>1, <1>2, <1>3, <1>4, DatabaseAssumption

LEMMA RequestDrives ==
  ASSUME Inv, NEW k \in Socket, ServeRegister(k) \/ ServeLocate(k) \/ ServeTerminate(k)
  PROVE  [DB!Next]_(DB!vars)
<1>1. announced' = announced
  BY DEF ServeRegister, ServeLocate, ServeTerminate, Receive, procVars, announced
<1>2. CASE ServeRegister(k)
  <2>. DEFINE g == Head(toBinder[k]).sig
  <2>1. Normal /\ k \in open /\ home[k] \in Addr /\ g \in Signature /\ k \in Requests
    BY <1>2, Received DEF ServeRegister
  <2>2. announced[k] = home[k] /\ announced[k] # None
    BY <2>1, DatabaseAssumption DEF announced
  <2>3. time < MaxTime
    BY <2>1, Bounded
  <2>4. DB!Register(k, g)
    BY <1>1, <1>2, <2>2, <2>3 DEF ServeRegister, DB!Register
  <2>. QED
    BY <2>1, <2>4 DEF DB!Next
<1>3. CASE ServeLocate(k)
  <2>. DEFINE g == Head(toBinder[k]).sig
  <2>1. Normal /\ g \in Signature /\ k \in Requests
    BY <1>3, Received DEF ServeLocate
  <2>2. DB!Locate(g)
    BY <1>1, <1>3, <2>1, Bounded DEF ServeLocate, DB!Locate
  <2>. QED
    BY <2>1, <2>2 DEF DB!Next
<1>4. CASE ServeTerminate(k)
  BY <1>1, <1>4, Stutters DEF ServeTerminate
<1>. QED
  BY <1>2, <1>3, <1>4

LEMMA TerminateDrives ==
  ASSUME Inv, TerminateDone
  PROVE  [DB!Next]_(DB!vars) /\ response' \in DB!TerminateResponse
<1>1. UNCHANGED dbVars /\ announced' = announced
  BY DEF TerminateDone, procVars, announced
<1>2. response' \in DB!TerminateResponse
  BY DEF TerminateDone, DB!TerminateResponse, Inv, Types
<1>3. (\A a \in Addr : serverToTimestamp[a] = DB!NoStamp) => response' = DB!TerminateSuccess
  BY DEF TerminateDone, Inv, Loop, DB!NoStamp
<1>4. DB!Terminate
  BY <1>1, <1>2, <1>3 DEF DB!Terminate, DB!HandleTerminate, DB!database, dbVars
<1>. QED
  BY <1>2, <1>4 DEF DB!Next

LEMMA QuietDrives ==
  ASSUME \/ ConnectionsWithData \/ (\E k \in Socket : ReceiveFails(k))
         \/ (\E a \in Addr : AskServer(a)) \/ HearServer \/ LoseServer
  PROVE  [DB!Next]_(DB!vars)
<1>1. UNCHANGED <<dbVars, response>> /\ announced' = announced
  BY DEF ConnectionsWithData, ReceiveFails, AskServer, HearServer, LoseServer,
         procVars, announced
<1>. QED
  BY <1>1, Stutters

LEMMA BinderDrives ==
  ASSUME Inv, BinderStep
  PROVE  [DB!Next]_(DB!vars)
BY AcceptDrives, ClosedDrives, ResponseDrives, RequestDrives, TerminateDrives, QuietDrives
   DEF BinderStep, Serve

-----------------------------------------------------------------------------
(* Main keeps the invariant.                                               *)

LEMMA DatabaseKept ==
  ASSUME Inv, [DB!Next]_(DB!vars)
  PROVE  Database'
<1>1. DBP!TypeOK /\ DBP!NoDanglingSocket /\ [DBP!Next]_(DBP!vars)
  BY SameDatabase DEF Inv, Database
<1>2. DBP!TypeOK'
  BY <1>1, DBP!NextType, DatabaseAssumption
<1>3. DBP!NoDanglingSocket'
  BY <1>1, DBP!NextNoDangling, DatabaseAssumption
<1>. QED
  BY <1>2, <1>3, SameDatabase DEF Database

LEMMA AcceptInv ==
  ASSUME Inv, AcceptIfAny
  PROVE  Inv'
<1>0. pc = "accept" /\ pc' = "poll"
      /\ UNCHANGED <<dbVars, response, ready, current, running, terminateVars,
                     procVars, toBinder, toPeer>>
  BY DEF AcceptIfAny
<1>1. Normal /\ Normal' /\ ~Ended' /\ current = None /\ asked = None
  BY <1>0 DEF Inv, Loop, Normal, Ended
<1>2. /\ open \subseteq open' /\ open' \subseteq Socket
      /\ \A k \in open' : proc[k] # "none"
      /\ backlog' \in Seq(Socket)
  <2>1. \A k \in open : proc[k] # "none" /\ k \in Socket
    BY DEF Inv, Types, Connections, Unused
  <2>2. CASE backlog = <<>>
    BY <2>1, <2>2 DEF AcceptIfAny, Inv, Types
  <2>3. CASE backlog # <<>>
    <3>1. backlog \in Seq(Socket)
      BY DEF Inv, Types
    <3>2. /\ Head(backlog) \in Socket /\ Tail(backlog) \in Seq(Socket)
          /\ Head(backlog) = backlog[1] /\ 1 \in 1 .. Len(backlog)
      BY <2>3, <3>1, TakingTheHead
    <3>3. proc[Head(backlog)] # "none"
      BY <3>2 DEF Inv, Connections, Queued
    <3>. QED
      BY <2>1, <2>3, <3>2, <3>3 DEF AcceptIfAny
  <2>. QED
    BY <2>2, <2>3
<1>3. Queued'
  <2>1. CASE backlog = <<>>
    BY <1>0, <2>1 DEF AcceptIfAny, Inv, Connections, Queued, procVars
  <2>2. CASE backlog # <<>>
    <3>1. /\ Head(backlog) = backlog[1] /\ 1 \in 1 .. Len(backlog) /\ Len(backlog) \in Nat
          /\ Len(Tail(backlog)) = Len(backlog) - 1
          /\ \A i \in 1 .. Len(Tail(backlog)) :
               Tail(backlog)[i] = backlog[i + 1] /\ i + 1 \in 2 .. Len(backlog)
      BY <2>2, TakingTheHead DEF Inv, Types
    <3>2. backlog' = Tail(backlog) /\ open' = open \cup {backlog[1]} /\ proc' = proc
      BY <1>0, <2>2, <3>1 DEF AcceptIfAny, procVars
    <3>3. \A i \in 1 .. Len(backlog') : backlog'[i] = backlog[i + 1] /\ i + 1 \in 2 .. Len(backlog)
      BY <3>1, <3>2
    <3>4. \A i \in 2 .. Len(backlog) :
            proc[backlog[i]] # "none" /\ backlog[i] \notin open /\ backlog[i] # backlog[1]
      BY <3>1 DEF Inv, Connections, Queued
    <3>5. \A i \in 1 .. Len(backlog') : proc'[backlog'[i]] # "none" /\ backlog'[i] \notin open'
      BY <3>2, <3>3, <3>4
    <3>6. ASSUME NEW i \in 1 .. Len(backlog'), NEW l \in 1 .. Len(backlog'), backlog'[i] = backlog'[l]
          PROVE  i = l
      <4>1. backlog[i + 1] = backlog[l + 1] /\ i + 1 \in 1 .. Len(backlog) /\ l + 1 \in 1 .. Len(backlog)
        BY <3>1, <3>3, <3>6
      <4>2. i + 1 = l + 1
        BY <4>1 DEF Inv, Connections, Queued
      <4>. QED
        BY <4>2
    <3>. QED
      BY <3>5, <3>6 DEF Queued
  <2>. QED
    BY <2>1, <2>2
<1>4. Types'
  BY <1>0, <1>1, <1>2 DEF Inv, Types, terminateVars, procVars
<1>5. Database'
  BY AcceptDrives, DatabaseKept
<1>6. Flag'
  BY <1>0 DEF Inv, Flag, Ended
<1>7. Loop'
  BY <1>0, <1>1 DEF Inv, Loop, dbVars, terminateVars
<1>8. Connections'
  <2>1. Unused'
    BY <1>0, <1>2 DEF Inv, Connections, Unused, procVars
  <2>2. Homes' /\ Roles'
    BY <1>0 DEF Inv, Connections, Homes, Roles, procVars
  <2>. QED
    BY <1>3, <2>1, <2>2 DEF Connections
<1>9. Lockstep'
  BY <1>0, <1>1 DEF Inv, Lockstep, Alive, Gone, procVars
<1>10. Budget'
  BY <1>0, <1>1 DEF Inv, Budget, Requests, dbVars
<1>11. Answered'
  BY <1>0 DEF Inv, Answered, Alive, Gone, procVars
<1>12. Serving'
  BY <1>0, <1>1 DEF Serving
<1>. QED
  BY <1>4, <1>5, <1>6, <1>7, <1>8, <1>9, <1>10, <1>11, <1>12 DEF Inv

LEMMA PollInv ==
  ASSUME Inv, ConnectionsWithData
  PROVE  Inv'
<1>0. pc = "poll" /\ pc' \in {"accept", "serve"}
      /\ UNCHANGED <<dbVars, response, open, current, running, terminateVars, procVars, netVars>>
  BY DEF ConnectionsWithData
<1>1. Normal /\ Normal' /\ ~Ended' /\ current = None /\ asked = None
  BY <1>0 DEF Inv, Loop, Normal, Ended
<1>2. Types'
  <2>1. ready' \subseteq open'
    BY DEF ConnectionsWithData
  <2>. QED
    BY <1>0, <1>1, <2>1 DEF Inv, Types, terminateVars, procVars, netVars
<1>3. Database'
  BY QuietDrives, DatabaseKept
<1>4. Flag'
  BY <1>0 DEF Inv, Flag, Ended
<1>5. Loop'
  BY <1>0, <1>1 DEF Inv, Loop, dbVars, terminateVars
<1>6. Connections'
  BY <1>0 DEF Inv, Connections, Unused, Homes, Queued, Roles, procVars, netVars
<1>7. Lockstep'
  BY <1>0, <1>1 DEF Inv, Lockstep, Alive, Gone, procVars, netVars
<1>8. Budget'
  BY <1>0, <1>1 DEF Inv, Budget, Requests, dbVars, netVars
<1>9. Answered'
  BY <1>0 DEF Inv, Answered, Alive, Gone, procVars, netVars
<1>10. Serving'
  BY <1>0, <1>1 DEF Serving
<1>. QED
  BY <1>2, <1>3, <1>4, <1>5, <1>6, <1>7, <1>8, <1>9, <1>10 DEF Inv

LEMMA ClosedInv ==
  ASSUME Inv, NEW k \in Socket, ConnectionClosed(k)
  PROVE  Inv'
<1>0. /\ pc = "serve" /\ pc' \in {"accept", "serve"} /\ k \in ready /\ ready' = ready \ {k}
      /\ toBinder[k] = <<>> /\ proc[k] = "gone" /\ open' = open \ {k}
      /\ proc' = [proc EXCEPT ![k] = "none"] /\ home' = [home EXCEPT ![k] = None]
      /\ UNCHANGED <<current, running, terminateVars, pending, registered, crashes, netVars>>
      /\ UNCHANGED <<time, response>>
  BY DEF ConnectionClosed, NextClient, DB!RemoveIfServer
<1>1. Normal /\ Normal' /\ ~Ended' /\ current = None /\ asked = None
  BY <1>0 DEF Inv, Loop, Normal, Ended
<1>2. /\ \A j \in Socket : proc'[j] = IF j = k THEN "none" ELSE proc[j]
      /\ \A j \in Socket : home'[j] = IF j = k THEN None ELSE home[j]
      /\ k \in open
  BY <1>0 DEF Inv, Types
<1>3. ~Alive(k)' /\ ~Alive(k) /\ \A j \in Socket : Alive(j)' = Alive(j)
  BY <1>0, <1>2 DEF Alive, Gone
<1>4. Types'
  <2>1. proc' \in [Socket -> {"none", "gone", "reset", "ready", "registering",
                          "serving", "stopping", "returned",
                          "idle", "locating", "terminating"}]
    BY <1>0 DEF Inv, Types
  <2>2. home' \in [Socket -> Addr \cup {None}]
    BY <1>0 DEF Inv, Types
  <2>3. ready' \subseteq open' /\ open' \subseteq Socket
    BY <1>0 DEF Inv, Types
  <2>. QED
    BY <1>0, <1>1, <2>1, <2>2, <2>3 DEF Inv, Types, terminateVars, netVars
<1>5. Database'
  BY ClosedDrives, DatabaseKept
<1>6. Flag'
  BY <1>0 DEF Inv, Flag, Ended
<1>7. Loop'
  BY <1>0, <1>1 DEF Inv, Loop, terminateVars
<1>8. Connections'
  <2>1. Unused'
    BY <1>0, <1>2 DEF Inv, Connections, Unused, netVars
  <2>2. Homes'
    BY <1>0, <1>2 DEF Inv, Connections, Homes, Socket
  <2>3. Queued'
    <3>1. backlog \in Seq(Socket) /\ \A i \in 1 .. Len(backlog) : backlog[i] \in Socket
      BY DEF Inv, Types
    <3>2. backlog' = backlog /\ \A j \in Socket \ {k} : proc'[j] = proc[j]
      BY <1>0, <1>2 DEF netVars
    <3>3. \A i \in 1 .. Len(backlog) : backlog[i] # k
      BY <1>2 DEF Inv, Connections, Queued
    <3>. QED
      BY <1>0, <3>1, <3>2, <3>3 DEF Inv, Connections, Queued
  <2>4. Roles'
    BY <1>0, <1>2 DEF Inv, Connections, Roles, Socket, netVars
  <2>. QED
    BY <2>1, <2>2, <2>3, <2>4 DEF Connections
<1>9. Lockstep'
  BY <1>0, <1>1, <1>2, <1>3 DEF Inv, Lockstep, netVars
<1>10. Budget'
  BY <1>0, <1>1 DEF Inv, Budget, Requests, netVars
<1>11. Answered'
  BY <1>0, <1>2, <1>3 DEF Inv, Answered, netVars
<1>12. Serving'
  BY <1>0, <1>1 DEF Serving
<1>. QED
  BY <1>4, <1>5, <1>6, <1>7, <1>8, <1>9, <1>10, <1>11, <1>12 DEF Inv

\* Main notes that the process at k is gone: its connection is not closed yet.
LEMMA GoneKept ==
  ASSUME Inv, NEW k \in Socket, Gone(k), proc' = [proc EXCEPT ![k] = "gone"],
         UNCHANGED <<open, home, pending, registered, crashes, netVars>>
  PROVE  /\ Connections' /\ Answered'
         /\ \A j \in Socket : Alive(j)' = Alive(j)
         /\ \A j \in Socket : Alive(j) => proc'[j] = proc[j]
         /\ proc' \in [Socket -> {"none", "gone", "reset", "ready", "registering",
                          "serving", "stopping", "returned",
                          "idle", "locating", "terminating"}]
<1>1. /\ \A j \in Socket : proc'[j] = IF j = k THEN "gone" ELSE proc[j]
      /\ proc[k] \in {"gone", "reset"}
      /\ proc' \in [Socket -> {"none", "gone", "reset", "ready", "registering",
                          "serving", "stopping", "returned",
                          "idle", "locating", "terminating"}]
  BY DEF Inv, Types, Gone
<1>2. /\ \A j \in Socket : Alive(j)' = Alive(j)
      /\ \A j \in Socket : Alive(j) => proc'[j] = proc[j]
  BY <1>1 DEF Alive, Gone
<1>3. Connections'
  <2>1. Unused'
    BY <1>1 DEF Inv, Connections, Unused, netVars
  <2>2. Homes'
    BY <1>1 DEF Inv, Connections, Homes, Socket
  <2>3. Queued'
    <3>1. backlog \in Seq(Socket) /\ \A i \in 1 .. Len(backlog) : backlog[i] \in Socket
      BY DEF Inv, Types
    <3>2. backlog' = backlog /\ \A j \in Socket : proc[j] # "none" => proc'[j] # "none"
      BY <1>1 DEF netVars
    <3>. QED
      BY <3>1, <3>2 DEF Inv, Connections, Queued
  <2>4. Roles'
    BY <1>1 DEF Inv, Connections, Roles, Socket, netVars
  <2>. QED
    BY <2>1, <2>2, <2>3, <2>4 DEF Connections
<1>4. Answered'
  BY <1>1, <1>2 DEF Inv, Answered, netVars
<1>. QED
  BY <1>1, <1>2, <1>3, <1>4

LEMMA ReceiveFailsInv ==
  ASSUME Inv, NEW k \in Socket, ReceiveFails(k)
  PROVE  Inv'
<1>0. /\ pc = "serve" /\ pc' \in {"accept", "serve"} /\ k \in ready /\ ready' = ready \ {k}
      /\ Gone(k) /\ proc' = [proc EXCEPT ![k] = "gone"]
      /\ UNCHANGED <<dbVars, response, open, current, running, terminateVars,
                     home, pending, registered, crashes, netVars>>
  BY DEF ReceiveFails, NextClient, Gone
<1>1. Normal /\ Normal' /\ ~Ended' /\ current = None /\ asked = None
  BY <1>0 DEF Inv, Loop, Normal, Ended
<1>2. /\ Connections' /\ Answered'
      /\ \A j \in Socket : Alive(j)' = Alive(j)
      /\ \A j \in Socket : Alive(j) => proc'[j] = proc[j]
      /\ proc' \in [Socket -> {"none", "gone", "reset", "ready", "registering",
                          "serving", "stopping", "returned",
                          "idle", "locating", "terminating"}]
  BY <1>0, GoneKept
<1>3. Types'
  BY <1>0, <1>1, <1>2 DEF Inv, Types, terminateVars, netVars
<1>4. Database'
  BY QuietDrives, DatabaseKept
<1>5. Flag'
  BY <1>0 DEF Inv, Flag, Ended
<1>6. Loop'
  BY <1>0, <1>1 DEF Inv, Loop, dbVars, terminateVars
<1>7. Lockstep'
  BY <1>0, <1>1, <1>2 DEF Inv, Lockstep, netVars
<1>8. Budget'
  BY <1>0, <1>1 DEF Inv, Budget, Requests, dbVars, netVars
<1>9. Serving'
  BY <1>0, <1>1 DEF Serving
<1>. QED
  BY <1>2, <1>3, <1>4, <1>5, <1>6, <1>7, <1>8, <1>9 DEF Inv

LEMMA TakesTheOnly ==
  ASSUME Inv, NEW k \in Socket, toBinder[k] # <<>>, Len(toBinder[k]) = 1,
         toBinder' = [toBinder EXCEPT ![k] = Tail(@)]
  PROVE  /\ \A j \in Socket : toBinder'[j] = IF j = k THEN <<>> ELSE toBinder[j]
         /\ toBinder' \in [Socket -> Seq(Message)]
<1>1. toBinder[k] \in Seq(Message) /\ toBinder \in [Socket -> Seq(Message)]
  BY DEF Inv, Types
<1>2. Tail(toBinder[k]) = <<>> /\ Tail(toBinder[k]) \in Seq(Message)
  BY <1>1, TakingTheHead
<1>. QED
  BY <1>1, <1>2

\* The request at k is taken from its connection, and an answer of the right
\* kind is ready to be sent.
LEMMA AnswerInv ==
  ASSUME Inv, NEW k \in Socket, NEW t \in {"REGISTER", "LOCATE_REQUEST"}, Receive(k, t),
         pc' = "send", UNCHANGED <<running, terminateVars>>, Database',
         response' \in DB!Answer, time' \in Nat, time' <= time + 1,
         IF t = "REGISTER" THEN response'.type = "REGISTER_SUCCESS"
         ELSE response'.type \in {"LOCATE_SUCCESS", "LOCATE_FAILURE"}
  PROVE  Inv'
<1>0. /\ toBinder' = [toBinder EXCEPT ![k] = Tail(@)] /\ current' = k
      /\ UNCHANGED <<open, ready, procVars, backlog, toPeer>>
  BY DEF Receive
<1>1. /\ Normal /\ k \in open /\ proc[k] # "none" /\ current = None /\ asked = None
      /\ toBinder[k] # <<>> /\ toBinder[k] \in Seq(Message) /\ Head(toBinder[k]).type = t
      /\ Head(toBinder[k]) \in Message /\ Len(toBinder[k]) = 1
      /\ k \in Requests
  BY Received
<1>2. ~Ended' /\ Normal' /\ ~Ended
  BY <1>1, AnswerFacts DEF Ended, Normal
<1>3. /\ \A j \in Socket : toBinder'[j] = IF j = k THEN <<>> ELSE toBinder[j]
      /\ toBinder' \in [Socket -> Seq(Message)]
  BY <1>0, <1>1, TakesTheOnly
<1>4. Types'
  BY <1>0, <1>1, <1>3 DEF Inv, Types, terminateVars, procVars
<1>5. Flag'
  BY <1>2 DEF Inv, Flag
<1>6. Loop'
  BY <1>0, <1>1, <1>2, DatabaseAssumption DEF Inv, Loop, terminateVars
<1>7. Connections'
  <2>1. Unused'
    BY <1>0, <1>3 DEF Inv, Connections, Unused, procVars
  <2>2. Homes' /\ Queued'
    BY <1>0 DEF Inv, Connections, Homes, Queued, procVars
  <2>3. 1 .. Len(<<>>) = {}
    OBVIOUS
  <2>4. Roles'
    BY <1>0, <1>3, <2>3 DEF Inv, Connections, Roles, procVars, Socket
  <2>. QED
    BY <2>1, <2>2, <2>4 DEF Connections
<1>8. Alive(k) => /\ toPeer[k] = <<>>
                  /\ proc[k] = IF t = "REGISTER" THEN "registering" ELSE "locating"
  <2>. SUFFICES ASSUME Alive(k)
                PROVE  /\ toPeer[k] = <<>>
                       /\ proc[k] = IF t = "REGISTER" THEN "registering" ELSE "locating"
    OBVIOUS
  <2>1. /\ \A i \in 1 .. Len(toPeer[k]) : toPeer[k][i] # Terminate
        /\ t \in Asks(proc[k])
    BY <1>1 DEF Inv, Lockstep
  <2>2. \A i \in 1 .. Len(toPeer[k]) : toPeer[k][i] = Terminate
    BY <1>1 DEF Inv, Answered
  <2>3. toPeer[k] \in Seq(DB!Answer \cup {Terminate})
    BY DEF Inv, Types
  <2>4. Len(toPeer[k]) = 0
    BY <2>1, <2>2, <2>3, Emptiness
  <2>5. proc[k] = IF t = "REGISTER" THEN "registering" ELSE "locating"
    BY <2>1 DEF Asks
  <2>. QED
    BY <2>3, <2>4, <2>5, Emptiness
<1>9. Lockstep'
  BY <1>0, <1>1, <1>3 DEF Inv, Lockstep, Alive, Gone, procVars
<1>10. Budget'
  <2>1. Requests' = Requests \ {k}
    BY <1>3 DEF Requests
  <2>2. /\ time \in Nat /\ Cardinality(Requests) \in Nat
        /\ Cardinality(Requests \ {k}) = Cardinality(Requests) - 1
    BY <1>1, Bounded
  <2>3. time + Cardinality(Requests) <= MaxTime
    BY <1>1 DEF Inv, Budget
  <2>. QED
    BY <2>1, <2>2, <2>3, DatabaseAssumption DEF Budget
<1>11. Answered'
  BY <1>0, <1>3 DEF Inv, Answered, Alive, Gone, procVars
<1>12. Serving'
  <2>1. Alive(k)' = Alive(k) /\ proc'[k] = proc[k] /\ toPeer'[k] = toPeer[k] /\ toBinder'[k] = <<>>
    BY <1>0, <1>3 DEF Alive, Gone, procVars
  <2>2. Alive(k) => response'.type \in Answers(proc[k])
    BY <1>8 DEF Answers
  <2>. QED
    BY <1>0, <1>8, <2>1, <2>2 DEF Serving
<1>. QED
  BY <1>4, <1>5, <1>6, <1>7, <1>9, <1>10, <1>11, <1>12 DEF Inv

LEMMA RequestInv ==
  ASSUME Inv, NEW k \in Socket, ServeRegister(k) \/ ServeLocate(k)
  PROVE  Inv'
<1>1. Database'
  BY RequestDrives, DatabaseKept
<1>2. CASE ServeRegister(k)
  <2>1. Head(toBinder[k]).sig \in Signature /\ home[k] \in Addr
    BY <1>2, Received DEF ServeRegister
  <2>2. /\ time' \in Nat /\ time' <= time + 1
        /\ response' \in DB!Answer /\ response'.type = "REGISTER_SUCCESS"
    BY <1>2, <2>1, RegisterEffect DEF ServeRegister, Inv, Database
  <2>. QED
    BY <1>1, <1>2, <2>2, AnswerInv DEF ServeRegister
<1>3. CASE ServeLocate(k)
  <2>1. Head(toBinder[k]).sig \in Signature
    BY <1>3, Received DEF ServeLocate
  <2>2. /\ time' \in Nat /\ time' <= time + 1
        /\ response' \in DB!Answer
        /\ response'.type \in {"LOCATE_SUCCESS", "LOCATE_FAILURE"}
    BY <1>3, <2>1, LocateEffect DEF ServeLocate, Inv, Database
  <2>. QED
    BY <1>1, <1>3, <2>2, AnswerInv DEF ServeLocate
<1>. QED
  BY <1>2, <1>3

LEMMA ServeTerminateInv ==
  ASSUME Inv, NEW k \in Socket, ServeTerminate(k)
  PROVE  Inv'
<1>0. /\ toBinder' = [toBinder EXCEPT ![k] = Tail(@)] /\ current' = k
      /\ UNCHANGED <<open, ready, procVars, backlog, toPeer>>
      /\ waiting' = {a \in Addr : serverToTimestamp[a].sock # None} /\ pc' = "ask"
      /\ UNCHANGED <<dbVars, response, running, asked, failure>>
  BY DEF ServeTerminate, Receive
<1>1. /\ Normal /\ k \in open /\ proc[k] # "none" /\ current = None /\ asked = None
      /\ toBinder[k] # <<>> /\ toBinder[k] \in Seq(Message) /\ Head(toBinder[k]).type = "TERMINATE"
      /\ Len(toBinder[k]) = 1 /\ k \in ClientSocket
  BY Received DEF ServeTerminate
<1>2. ~Ended' /\ ~Normal' /\ ~Ended /\ failure = None
  BY <1>0, <1>1 DEF Ended, Normal, Inv, Loop
<1>3. /\ \A j \in Socket : toBinder'[j] = IF j = k THEN <<>> ELSE toBinder[j]
      /\ toBinder' \in [Socket -> Seq(Message)]
  BY <1>0, <1>1, TakesTheOnly
<1>4. Types'
  BY <1>0, <1>1, <1>3 DEF Inv, Types, procVars
<1>5. Database'
  BY RequestDrives, DatabaseKept
<1>6. Flag'
  BY <1>0, <1>2 DEF Inv, Flag
<1>7. Loop'
  BY <1>0, <1>1, <1>2, DatabaseAssumption DEF Inv, Loop, dbVars
<1>8. Connections'
  <2>1. Unused'
    BY <1>0, <1>3 DEF Inv, Connections, Unused, procVars
  <2>2. Homes' /\ Queued'
    BY <1>0 DEF Inv, Connections, Homes, Queued, procVars
  <2>3. 1 .. Len(<<>>) = {}
    OBVIOUS
  <2>4. Roles'
    BY <1>0, <1>3, <2>3 DEF Inv, Connections, Roles, procVars, Socket
  <2>. QED
    BY <2>1, <2>2, <2>4 DEF Connections
<1>9. Alive(k) => toPeer[k] = <<>> /\ proc[k] = "terminating"
  <2>. SUFFICES ASSUME Alive(k)
                PROVE  toPeer[k] = <<>> /\ proc[k] = "terminating"
    OBVIOUS
  <2>1. /\ \A i \in 1 .. Len(toPeer[k]) : toPeer[k][i] # Terminate
        /\ "TERMINATE" \in Asks(proc[k])
    BY <1>1 DEF Inv, Lockstep
  <2>2. \A i \in 1 .. Len(toPeer[k]) : toPeer[k][i] = Terminate
    BY <1>1 DEF Inv, Answered
  <2>3. toPeer[k] \in Seq(DB!Answer \cup {Terminate})
    BY DEF Inv, Types
  <2>4. Len(toPeer[k]) = 0
    BY <2>1, <2>2, <2>3, Emptiness
  <2>5. proc[k] = "terminating"
    BY <2>1 DEF Asks
  <2>. QED
    BY <2>3, <2>4, <2>5, Emptiness
<1>10. Lockstep' /\ Budget'
  BY <1>2 DEF Lockstep, Budget
<1>11. Answered'
  BY <1>0, <1>3 DEF Inv, Answered, Alive, Gone, procVars
<1>12. Serving'
  <2>1. Alive(k)' = Alive(k) /\ proc'[k] = proc[k] /\ toPeer'[k] = toPeer[k] /\ toBinder'[k] = <<>>
    BY <1>0, <1>3 DEF Alive, Gone, procVars
  <2>. QED
    BY <1>0, <1>9, <2>1 DEF Serving
<1>. QED
  BY <1>4, <1>5, <1>6, <1>7, <1>8, <1>10, <1>11, <1>12 DEF Inv

LEMMA AskInv ==
  ASSUME Inv, NEW a \in Addr, AskServer(a)
  PROVE  Inv'
<1>. DEFINE k == serverToTimestamp[a].sock
<1>0. /\ pc = "ask" /\ a \in waiting /\ waiting' = waiting \ {a}
      /\ UNCHANGED <<dbVars, response, open, ready, current, running, procVars,
                     backlog, toBinder>>
  BY DEF AskServer
<1>1. k # None
  BY <1>0 DEF Inv, Loop
<1>2. k \in open /\ k \in ServerSocket /\ k \in Socket
  BY <1>1, KnownIsServer DEF Inv, Socket
<1>3. ~Ended /\ ~Ended' /\ ~Normal /\ asked = None /\ current # None /\ current \in ClientSocket
  BY <1>0 DEF Inv, Loop, Normal, Ended
<1>4. current # k
  BY <1>2, <1>3, RolesAssumption
<1>5. \/ /\ asked' = k /\ pc' = "wait" /\ failure' = failure
         /\ toPeer' = IF Gone(k) THEN toPeer ELSE [toPeer EXCEPT ![k] = Append(@, Terminate)]
      \/ /\ failure' = DB!ServerConnectionError
         /\ UNCHANGED <<pc, asked, toPeer>>
  BY DEF AskServer
<1>6. ~Normal'
  BY <1>0, <1>5 DEF Normal
<1>7. /\ toPeer' \in [Socket -> Seq(DB!Answer \cup {Terminate})]
      /\ \A j \in Socket : j # k => toPeer'[j] = toPeer[j]
      /\ Gone(k) => toPeer'[k] = toPeer[k]
      /\ \A i \in 1 .. Len(toPeer'[k]) :
           toPeer'[k][i] = Terminate
             \/ (i \in 1 .. Len(toPeer[k]) /\ toPeer'[k][i] = toPeer[k][i])
  <2>1. toPeer[k] \in Seq(DB!Answer \cup {Terminate})
    BY <1>2 DEF Inv, Types
  <2>2. /\ Append(toPeer[k], Terminate) \in Seq(DB!Answer \cup {Terminate})
        /\ \A i \in 1 .. Len(Append(toPeer[k], Terminate)) :
             Append(toPeer[k], Terminate)[i] = Terminate
             \/ (i \in 1 .. Len(toPeer[k]) /\ Append(toPeer[k], Terminate)[i] = toPeer[k][i])
    BY <2>1, Appending
  <2>3. CASE toPeer' = toPeer
    BY <2>3 DEF Inv, Types
  <2>4. CASE ~Gone(k) /\ toPeer' = [toPeer EXCEPT ![k] = Append(@, Terminate)]
    BY <1>2, <2>2, <2>4 DEF Inv, Types
  <2>. QED
    BY <1>5, <2>3, <2>4
<1>8. Types'
  BY <1>0, <1>2, <1>5, <1>7 DEF Inv, Types, procVars
<1>9. Database'
  BY QuietDrives, DatabaseKept
<1>10. Flag'
  BY <1>0, <1>3 DEF Inv, Flag
<1>11. Loop'
  <2>1. /\ serverToTimestamp' = serverToTimestamp
        /\ pc' \in {"ask", "wait"} /\ current' = current
        /\ pc' = "wait" <=> asked' # None
        /\ waiting' \subseteq waiting
        /\ asked' \in {None, k}
    BY <1>0, <1>1, <1>3, <1>5 DEF dbVars
  <2>2. /\ asked' # None => \E b \in Addr : serverToTimestamp[b].sock = asked'
        /\ failure' # None => \E b \in Addr : serverToTimestamp[b].sock # None
    BY <1>1, <2>1
  <2>. QED
    BY <1>3, <1>6, <2>1, <2>2 DEF Inv, Loop
<1>12. Connections'
  BY <1>0 DEF Inv, Connections, Unused, Homes, Queued, Roles, procVars
<1>13. Lockstep' /\ Budget'
  BY <1>6 DEF Lockstep, Budget
<1>14. \A j \in Socket : Alive(j)' = Alive(j)
  BY <1>0 DEF Alive, Gone, procVars
<1>15. Answered'
  <2>1. ~Alive(k) => Gone(k)
    BY <1>2 DEF Inv, Connections, Unused, Alive
  <2>. QED
    BY <1>0, <1>7, <1>14, <2>1 DEF Inv, Answered, procVars
<1>16. Serving'
  <2>1. current \in Socket /\ toPeer'[current] = toPeer[current]
    BY <1>3, <1>4, <1>7 DEF Socket
  <2>2. pc' \in {"ask", "wait"} /\ current' = current
    BY <1>0, <1>5
  <2>. QED
    BY <1>0, <1>14, <2>1, <2>2 DEF Inv, Serving, procVars
<1>. QED
  BY <1>8, <1>9, <1>10, <1>11, <1>12, <1>13, <1>15, <1>16 DEF Inv

\* Main no longer waits for the server it has asked.
LEMMA AskedDone ==
  ASSUME Inv, pc = "wait", pc' = "ask", asked' = None,
         failure' \in {None, DB!UnexpectedMessage, DB!ServerConnectionError},
         UNCHANGED <<dbVars, response, open, ready, current, running, waiting>>
  PROVE  /\ asked \in Socket /\ asked # None /\ current # None /\ current \in ClientSocket
         /\ Flag' /\ Loop' /\ Lockstep' /\ Budget'
<1>1. ~Ended /\ ~Ended' /\ ~Normal' /\ asked # None /\ current # None /\ current \in ClientSocket
  BY DEF Inv, Loop, Normal, Ended
<1>2. asked \in Socket
  BY <1>1 DEF Inv, Types
<1>3. \E a \in Addr : serverToTimestamp[a].sock # None
  BY <1>1 DEF Inv, Loop
<1>4. Flag'
  BY <1>1 DEF Inv, Flag
<1>5. Loop'
  BY <1>1, <1>3 DEF Inv, Loop, dbVars
<1>6. Lockstep' /\ Budget'
  BY <1>1 DEF Lockstep, Budget
<1>. QED
  BY <1>1, <1>2, <1>4, <1>5, <1>6

LEMMA HearInv ==
  ASSUME Inv, HearServer
  PROVE  Inv'
<1>0. /\ pc = "wait" /\ toBinder[asked] # <<>>
      /\ toBinder' = [toBinder EXCEPT ![asked] = Tail(@)]
      /\ asked' = None /\ pc' = "ask"
      /\ UNCHANGED <<dbVars, response, open, ready, current, running, waiting,
                     procVars, backlog, toPeer>>
  BY DEF HearServer
<1>1. failure' \in {None, DB!UnexpectedMessage, DB!ServerConnectionError}
  BY DEF HearServer, Inv, Types
<1>2. /\ asked \in Socket /\ asked # None /\ current # None /\ current \in ClientSocket
      /\ Flag' /\ Loop' /\ Lockstep' /\ Budget'
  BY <1>0, <1>1, AskedDone
<1>3. toBinder[asked] \in Seq(Message)
  BY <1>2 DEF Inv, Types
<1>4. /\ toBinder' \in [Socket -> Seq(Message)]
      /\ \A j \in Socket : j # asked => toBinder'[j] = toBinder[j]
      /\ toBinder'[asked] = Tail(toBinder[asked])
  BY <1>0, <1>2, <1>3, TakingTheHead DEF Inv, Types
<1>5. \A i \in 1 .. Len(toBinder'[asked]) :
        toBinder'[asked][i] = toBinder[asked][i + 1] /\ i + 1 \in 1 .. Len(toBinder[asked])
  BY <1>0, <1>3, <1>4, TakingTheHead
<1>6. Types'
  BY <1>0, <1>1, <1>4 DEF Inv, Types, procVars
<1>7. Database'
  BY QuietDrives, DatabaseKept
<1>8. Connections'
  <2>1. Unused'
    BY <1>0, <1>4 DEF Inv, Connections, Unused, procVars
  <2>2. Homes' /\ Queued'
    BY <1>0 DEF Inv, Connections, Homes, Queued, procVars
  <2>3. ASSUME NEW j \in ServerSocket, NEW i \in 1 .. Len(toBinder'[j])
        PROVE  toBinder'[j][i].type \in {"REGISTER", "TERMINATE_SUCCESS"}
    <3>1. CASE j = asked
      BY <1>5, <3>1 DEF Inv, Connections, Roles
    <3>2. CASE j # asked
      BY <1>4, <3>2 DEF Inv, Connections, Roles, Socket
    <3>. QED
      BY <3>1, <3>2
  <2>4. ASSUME NEW j \in ClientSocket, NEW i \in 1 .. Len(toBinder'[j])
        PROVE  toBinder'[j][i].type \in {"LOCATE_REQUEST", "TERMINATE"}
    <3>1. CASE j = asked
      BY <1>5, <3>1 DEF Inv, Connections, Roles
    <3>2. CASE j # asked
      BY <1>4, <3>2 DEF Inv, Connections, Roles, Socket
    <3>. QED
      BY <3>1, <3>2
  <2>5. Roles'
    BY <1>0, <2>3, <2>4 DEF Inv, Connections, Roles, procVars
  <2>. QED
    BY <2>1, <2>2, <2>5 DEF Connections
<1>9. \A j \in Socket : Alive(j)' = Alive(j)
  BY <1>0 DEF Alive, Gone, procVars
<1>10. Answered'
  BY <1>0, <1>4, <1>9 DEF Inv, Answered, procVars
<1>11. Serving'
  <2>1. current \in Socket
    BY <1>2 DEF Socket
  <2>. QED
    BY <1>0, <1>4, <1>9, <2>1 DEF Inv, Serving, procVars
<1>. QED
  BY <1>2, <1>6, <1>7, <1>8, <1>10, <1>11 DEF Inv

LEMMA LoseInv ==
  ASSUME Inv, LoseServer
  PROVE  Inv'
<1>0. /\ pc = "wait" /\ Gone(asked) /\ failure' = DB!ServerConnectionError
      /\ proc' = [proc EXCEPT ![asked] = "gone"]
      /\ asked' = None /\ pc' = "ask"
      /\ UNCHANGED <<dbVars, response, open, ready, current, running, waiting,
                     home, pending, registered, crashes, netVars>>
  BY DEF LoseServer
<1>1. /\ asked \in Socket /\ asked # None /\ current # None /\ current \in ClientSocket
      /\ Flag' /\ Loop' /\ Lockstep' /\ Budget'
  BY <1>0, AskedDone
<1>2. /\ Connections' /\ Answered'
      /\ \A j \in Socket : Alive(j)' = Alive(j)
      /\ \A j \in Socket : Alive(j) => proc'[j] = proc[j]
      /\ proc' \in [Socket -> {"none", "gone", "reset", "ready", "registering",
                          "serving", "stopping", "returned",
                          "idle", "locating", "terminating"}]
  BY <1>0, <1>1, GoneKept
<1>3. Types'
  BY <1>0, <1>2 DEF Inv, Types, netVars
<1>4. Database'
  BY QuietDrives, DatabaseKept
<1>5. Serving'
  <2>1. current \in Socket
    BY <1>1 DEF Socket
  <2>. QED
    BY <1>0, <1>2, <2>1 DEF Inv, Serving, netVars
<1>. QED
  BY <1>1, <1>2, <1>3, <1>4, <1>5 DEF Inv

LEMMA TerminateDoneInv ==
  ASSUME Inv, TerminateDone
  PROVE  Inv'
<1>0. /\ pc = "ask" /\ pc' = "send" /\ running' = FALSE
      /\ UNCHANGED <<dbVars, open, ready, current, terminateVars, procVars, netVars>>
  BY DEF TerminateDone
<1>1. response' \in DB!TerminateResponse /\ Database'
  BY TerminateDrives, DatabaseKept
<1>2. Ended' /\ ~Normal' /\ response' \in DB!Answer
      /\ response'.type \in {"TERMINATE_SUCCESS", "TERMINATE_FAILURE"}
  BY <1>1, AnswerFacts DEF Ended, Normal
<1>3. current # None /\ current \in ClientSocket /\ asked = None
  BY <1>0 DEF Inv, Loop
<1>4. Types'
  BY <1>0 DEF Inv, Types, terminateVars, procVars, netVars
<1>5. Flag'
  BY <1>0, <1>2 DEF Flag
<1>6. Loop'
  BY <1>0, <1>2, <1>3 DEF Inv, Loop, dbVars, terminateVars
<1>7. Connections'
  BY <1>0 DEF Inv, Connections, Unused, Homes, Queued, Roles, procVars, netVars
<1>8. Lockstep' /\ Budget'
  BY <1>2 DEF Lockstep, Budget
<1>9. \A j \in Socket : Alive(j)' = Alive(j)
  BY <1>0 DEF Alive, Gone, procVars
<1>10. Answered'
  BY <1>0, <1>9 DEF Inv, Answered, procVars, netVars
<1>11. Serving'
  <2>1. current \in Socket
    BY <1>3 DEF Socket
  <2>2. response'.type \in Answers("terminating")
    BY <1>2 DEF Answers
  <2>. QED
    BY <1>0, <1>9, <2>1, <2>2 DEF Inv, Serving, procVars, netVars
<1>. QED
  BY <1>1, <1>4, <1>5, <1>6, <1>7, <1>8, <1>10, <1>11 DEF Inv

LEMMA ResponseInv ==
  ASSUME Inv, SendResponse
  PROVE  Inv'
<1>. DEFINE k == current
<1>0. /\ pc = "send" /\ current' = None
      /\ UNCHANGED <<open, running, terminateVars, procVars, backlog>>
  BY DEF SendResponse
<1>1. k \in Socket /\ k \in open /\ k # None /\ asked = None /\ response \in DB!Answer
      /\ proc[k] # "none"
  BY <1>0 DEF Inv, Types, Loop, Connections, Unused
<1>2. time' = time /\ response' = response
  BY DEF SendResponse, DB!RemoveIfServer, dbVars
<1>3. Database'
  BY ResponseDrives, DatabaseKept
<1>4. Ended' = Ended
  BY <1>2 DEF Ended
<1>5. \/ /\ ~Ended /\ NextClient(k) /\ UNCHANGED toBinder
      \/ Ended /\ Exit
  BY DEF SendResponse, Inv, Flag
<1>6. /\ pc' \in {"accept", "serve", "exited"} /\ ready' \subseteq open
      /\ toBinder' \in [Socket -> Seq(Message)]
      /\ \A j \in Socket : toBinder'[j] \in {toBinder[j], <<>>}
      /\ ~Ended => Normal /\ Normal' /\ toBinder' = toBinder
      /\ Ended => ~Normal' /\ pc' = "exited"
      /\ pc' = "exited" => Ended
  <2>1. <<>> \in Seq(Message)
    OBVIOUS
  <2>2. CASE ~Ended /\ NextClient(k) /\ UNCHANGED toBinder
    BY <1>0, <1>4, <2>2 DEF NextClient, Normal, Inv, Types
  <2>3. CASE Ended /\ Exit
    BY <1>4, <2>1, <2>3 DEF Exit, Normal, Inv, Types
  <2>. QED
    BY <1>5, <2>2, <2>3
<1>7. \A j \in Socket : Alive(j)' = Alive(j) /\ proc'[j] = proc[j] /\ Gone(j)' = Gone(j)
  BY <1>0 DEF Alive, Gone, procVars
<1>8. \/ toPeer' = toPeer
      \/ ~Gone(k) /\ toPeer' = [toPeer EXCEPT ![k] = Append(@, response)]
  BY DEF SendResponse
<1>9. Alive(k) => toPeer[k] = <<>> /\ toBinder[k] = <<>> /\ response.type \in Answers(proc[k])
  BY <1>0, <1>1 DEF Inv, Serving
<1>10. \/ toPeer' = toPeer
       \/ /\ Alive(k)
          /\ \A j \in Socket : toPeer'[j] = IF j = k THEN <<response>> ELSE toPeer[j]
          /\ toPeer' \in [Socket -> Seq(DB!Answer \cup {Terminate})]
  <2>1. CASE ~Gone(k) /\ toPeer' = [toPeer EXCEPT ![k] = Append(@, response)]
    <3>1. Alive(k)
      BY <1>1, <2>1 DEF Alive
    <3>2. Append(toPeer[k], response) = <<response>>
      <4>1. \A r : Append(<<>>, r) = <<r>>
        OBVIOUS
      <4>. QED
        BY <1>9, <3>1, <4>1, Zenon
    <3>3. <<response>> \in Seq(DB!Answer \cup {Terminate})
      BY <1>1
    <3>. QED
      BY <2>1, <3>1, <3>2, <3>3 DEF Inv, Types
  <2>. QED
    BY <1>8, <2>1
<1>11. Types'
  <2>1. toPeer' \in [Socket -> Seq(DB!Answer \cup {Terminate})]
    BY <1>10 DEF Inv, Types
  <2>. QED
    BY <1>0, <1>6, <2>1 DEF Inv, Types, terminateVars, procVars
<1>12. Flag'
  BY <1>0, <1>4 DEF Inv, Flag
<1>13. Loop'
  <2>1. CASE ~Ended
    <3>1. failure' = None /\ waiting' = {} /\ asked' = None
      BY <1>0, <1>1, <1>6, <2>1 DEF Inv, Loop, terminateVars
    <3>. QED
      BY <1>0, <1>4, <1>6, <2>1, <3>1 DEF Loop
  <2>2. CASE Ended
    <3>1. current \in ClientSocket
      BY <1>0, <2>2 DEF Inv, Loop
    <3>2. announced[k] = None
      BY <1>1, <3>1 DEF Inv, Connections, Homes, announced
    <3>3. UNCHANGED dbVars
      BY <1>1, <3>2, RemoveNothing DEF SendResponse, Inv
    <3>. QED
      BY <1>0, <1>1, <1>4, <1>6, <2>2, <3>3 DEF Inv, Loop, terminateVars, dbVars
  <2>. QED
    BY <2>1, <2>2
<1>14. Connections'
  <2>1. Unused'
    BY <1>0, <1>6 DEF Inv, Connections, Unused, procVars
  <2>2. Homes' /\ Queued'
    BY <1>0 DEF Inv, Connections, Homes, Queued, procVars
  <2>3. 1 .. Len(<<>>) = {}
    OBVIOUS
  <2>4. \A j \in Socket : \A i \in 1 .. Len(toBinder'[j]) :
          i \in 1 .. Len(toBinder[j]) /\ toBinder'[j][i] = toBinder[j][i]
    BY <1>6, <2>3
  <2>5. Roles'
    BY <1>0, <2>4 DEF Inv, Connections, Roles, procVars, Socket
  <2>. QED
    BY <2>1, <2>2, <2>5 DEF Connections
<1>15. response # Terminate
  BY <1>1, AnswerFacts
<1>16. Lockstep'
  <2>. SUFFICES ASSUME Normal', NEW j \in Socket
                PROVE  /\ Len(toBinder[j])' <= 1
                       /\ Alive(j)' =>
                            /\ proc'[j] \notin {"stopping", "returned"}
                            /\ \A i \in 1 .. Len(toPeer[j]') : toPeer[j][i]' # Terminate
                            /\ toBinder[j]' # <<>> =>
                                 /\ Head(toBinder[j]').type \in Asks(proc'[j])
                                 /\ proc'[j] = "registering" => Head(toBinder[j]').sig = pending[j]'
    BY DEF Lockstep
  <2>1. Normal /\ toBinder' = toBinder
    BY <1>6
  <2>2. Alive(j) => \A i \in 1 .. Len(toPeer'[j]) : toPeer'[j][i] # Terminate
    <3>1. CASE toPeer'[j] = toPeer[j]
      BY <2>1, <3>1 DEF Inv, Lockstep
    <3>2. CASE toPeer'[j] = <<response>>
      BY <1>15, <3>2
    <3>. QED
      BY <1>10, <3>1, <3>2
  <2>. QED
    BY <1>0, <1>7, <2>1, <2>2 DEF Inv, Lockstep, procVars
<1>17. Budget'
  <2>. SUFFICES ASSUME Normal', Requests' # {}
                PROVE  time' + Cardinality(Requests') <= MaxTime
    BY DEF Budget
  <2>1. Normal /\ toBinder' = toBinder
    BY <1>6
  <2>2. Requests' = Requests
    BY <2>1 DEF Requests
  <2>. QED
    BY <1>2, <2>1, <2>2 DEF Inv, Budget
<1>18. Answered'
  <2>. SUFFICES ASSUME NEW j \in Socket
                PROVE  /\ ~Alive(j)' => toPeer'[j] = <<>>
                       /\ \A i \in 1 .. Len(toPeer'[j]) : toPeer'[j][i] # Terminate =>
                            i = 1 /\ toPeer'[j][i].type \in Answers(proc'[j]) /\ toBinder'[j] = <<>>
    BY DEF Answered
  <2>1. CASE toPeer'[j] = toPeer[j]
    BY <1>6, <1>7, <2>1 DEF Inv, Answered
  <2>2. CASE j = k /\ Alive(k) /\ toPeer'[j] = <<response>>
    <3>1. \A i \in 1 .. Len(toPeer'[j]) : i = 1 /\ toPeer'[j][i] = response
      BY <2>2
    <3>. QED
      BY <1>6, <1>7, <1>9, <2>2, <3>1
  <2>. QED
    BY <1>10, <2>1, <2>2
<1>19. Serving'
  BY <1>0 DEF Serving
<1>. QED
  BY <1>3, <1>11, <1>12, <1>13, <1>14, <1>16, <1>17, <1>18, <1>19 DEF Inv

-----------------------------------------------------------------------------
(* The invariant, and what follows from it.                                *)

LEMMA InitInv == Init => Inv
<1> SUFFICES ASSUME Init PROVE Inv
  OBVIOUS
<1>1. /\ pc = "accept" /\ open = {} /\ ready = {} /\ current = None /\ running = TRUE
      /\ waiting = {} /\ asked = None /\ failure = None /\ crashes = 0 /\ backlog = <<>>
      /\ proc = [k \in Socket |-> "none"] /\ home = [k \in Socket |-> None]
      /\ pending = [k \in Socket |-> None] /\ registered = [k \in Socket |-> {}]
      /\ toBinder = [k \in Socket |-> <<>>] /\ toPeer = [k \in Socket |-> <<>>]
      /\ response = None
  BY DEF Init, DB!Init
<1>2. \A S : <<>> \in Seq(S) /\ Len(<<>>) = 0
  OBVIOUS
<1>3. ~Ended
  BY <1>1, AnswerFacts DEF Ended
<1>4. Types
  BY <1>1, <1>2, RolesAssumption DEF Types
<1>5. Database
  <2>1. DBP!Init
    BY SameDatabase DEF Init
  <2>2. DBP!TypeOK
    BY <2>1, DBP!InitType, DatabaseAssumption
  <2>3. DB!NoDanglingSocket
    BY DatabaseAssumption DEF Init, DB!Init, DB!NoDanglingSocket, DB!NoStamp
  <2>. QED
    BY <2>2, <2>3, SameDatabase DEF Database
<1>6. Flag
  BY <1>1, <1>3 DEF Flag
<1>7. Loop
  BY <1>1, <1>3 DEF Loop
<1>8. Connections
  BY <1>1, <1>2 DEF Connections, Unused, Homes, Queued, Roles, Socket
<1>9. Lockstep
  BY <1>1, <1>2 DEF Lockstep, Alive, Gone
<1>10. Budget
  BY <1>1 DEF Budget, Requests
<1>11. Answered
  BY <1>1, <1>2 DEF Answered
<1>12. Serving
  BY <1>1 DEF Serving
<1>. QED
  BY <1>4, <1>5, <1>6, <1>7, <1>8, <1>9, <1>10, <1>11, <1>12 DEF Inv

LEMMA BinderStepInv ==
  ASSUME Inv, BinderStep
  PROVE  Inv'
BY AcceptInv, PollInv, ClosedInv, ReceiveFailsInv, RequestInv, ServeTerminateInv,
   AskInv, HearInv, LoseInv, TerminateDoneInv, ResponseInv
   DEF BinderStep, Serve

\* A step of a process is seen neither by main nor by the database.
LEMMA ProcessIsUnseen ==
  ASSUME Inv,
         \/ \E k \in ServerSocket : ServerStep(k)
         \/ \E k \in ClientSocket : ClientStep(k)
         \/ \E k \in Socket : Crash(k)
  PROVE  UNCHANGED procFrame /\ announced' = announced /\ [DB!Next]_(DB!vars)
<1>1. ASSUME NEW k \in Socket, NEW s, NEW a, Connect(k, s, a) PROVE announced' = announced
  BY <1>1 DEF Connect, procFrame, announced, Inv, Types, Connections, Unused
<1>2. CASE \E k \in ServerSocket : ServerStep(k)
  <2>1. PICK k \in ServerSocket : ServerStep(k)
    BY <1>2
  <2>2. UNCHANGED procFrame
    BY <2>1 DEF ServerStep, ServerStart, Connect, ServerRegister, Send, ServerHear,
                ServerExecute, ServerStop, ServeReturns, ServerExit, End
  <2>3. (\E a \in Addr : ServerStart(k, a)) \/ UNCHANGED home
    BY <2>1 DEF ServerStep, ServerRegister, Send, ServerHear,
                ServerExecute, ServerStop, ServeReturns, ServerExit, End
  <2>4. announced' = announced
    BY <1>1, <2>2, <2>3 DEF ServerStart, Socket, procFrame, announced
  <2>. QED
    BY <2>2, <2>4, Stutters DEF procFrame
<1>3. CASE \E k \in ClientSocket : ClientStep(k)
  <2>1. PICK k \in ClientSocket : ClientStep(k)
    BY <1>3
  <2>2. UNCHANGED procFrame
    BY <2>1 DEF ClientStep, ClientStart, Connect, ClientLocate, ClientTerminate, Send,
                ClientHear
  <2>3. ClientStart(k) \/ UNCHANGED home
    BY <2>1 DEF ClientStep, ClientLocate, ClientTerminate, Send, ClientHear
  <2>4. announced' = announced
    BY <1>1, <2>2, <2>3 DEF ClientStart, Socket, procFrame, announced
  <2>. QED
    BY <2>2, <2>4, Stutters DEF procFrame
<1>4. CASE \E k \in Socket : Crash(k)
  <2>1. UNCHANGED procFrame /\ UNCHANGED home
    BY <1>4 DEF Crash, End
  <2>. QED
    BY <2>1, Stutters DEF procFrame, announced
<1>. QED
  BY <1>2, <1>3, <1>4

LEMMA NextInv == Inv /\ [Next]_vars => Inv'
<1> SUFFICES ASSUME Inv, [Next]_vars PROVE Inv'
  OBVIOUS
<1>1. CASE Next /\ ~UNCHANGED vars
  BY <1>1, BinderStepInv, ServerStepInv, ClientStepInv, CrashInv DEF Next, AllGone
<1>2. CASE UNCHANGED vars
  <2>1. UNCHANGED <<procFrame, home, pending, registered, crashes, netVars, proc>>
    BY <1>2 DEF vars, procFrame, procVars
  <2>2. announced' = announced
    BY <2>1 DEF procFrame, announced
  <2>3. Database' /\ Flag' /\ Loop' /\ Normal' = Normal
    BY <2>1, <2>2, ProcessFrame
  <2>4. Types' /\ Connections'
    BY <2>1 DEF Inv, Types, Connections, Unused, Homes, Queued, Roles, procFrame,
                terminateVars, netVars
  <2>5. \A k \in Socket : Alive(k)' = Alive(k)
    BY <2>1 DEF Alive, Gone
  <2>6. Lockstep' /\ Budget'
    BY <2>1, <2>3, <2>5 DEF Inv, Lockstep, Budget, Requests, procFrame, dbVars, netVars
  <2>7. Answered' /\ Serving'
    BY <2>1, <2>5 DEF Inv, Types, Answered, Serving, procFrame, netVars
  <2>. QED
    BY <2>3, <2>4, <2>6, <2>7 DEF Inv
<1>. QED
  BY <1>1, <1>2

LEMMA NextDrives == Inv /\ [Next]_vars => [DB!Next]_(DB!vars)
<1> SUFFICES ASSUME Inv, [Next]_vars PROVE [DB!Next]_(DB!vars)
  OBVIOUS
<1>1. CASE Next /\ ~UNCHANGED vars
  BY <1>1, BinderDrives, ProcessIsUnseen DEF Next, AllGone
<1>2. CASE UNCHANGED vars
  BY <1>2, Stutters DEF vars, announced, procVars
<1>. QED
  BY <1>1, <1>2

\* The inductive invariant holds: requests and answers alternate on every
\* connection until the system is terminated, and main knows only connections
\* that are open (binder.cc:193-279).
THEOREM Invariance == Spec => []Inv
BY InitInv, NextInv, PTL DEF Spec

\* Every variable has its type; in particular main never calls recv on a
\* connection of the round that it has closed (binder.cc:212-215).
THEOREM TypeCorrect == Spec => []TypeOK
<1>1. Inv => running \in BOOLEAN
  BY DEF Inv, Flag
<1>2. Inv => TypeOK
  BY <1>1 DEF Inv, Types, Database, TypeOK
<1>. QED
  BY <1>2, Invariance, PTL

\* Main, its clients and its servers, however they interleave, crash and
\* leave, use the database as its specification allows: all that is proved of
\* BinderDatabase holds in the binder (binder.cc:193-279).
THEOREM BinderImplementsDatabase == Spec => ImplementsDatabase
<1>1. Init => DB!Init
  BY DEF Init
<1>. QED
  BY <1>1, NextDrives, Invariance, PTL DEF Spec, ImplementsDatabase, DB!Spec

\* Although requests carry no number, an answer on its way belongs to the
\* request its process waits for, and there is one at most (rpc.cc:112-124,
\* binder.cc:217-251).
THEOREM AnswersMatch == Spec => []AnswersMatchRequests
<1>1. Inv => AnswersMatchRequests
  <2> SUFFICES ASSUME Inv, NEW k \in Socket, Alive(k)
               PROVE  LET answers == {i \in DOMAIN toPeer[k] : toPeer[k][i] # Terminate}
                      IN /\ \A i \in answers : toPeer[k][i].type \in Answers(proc[k])
                         /\ Cardinality(answers) <= 1
                         /\ answers # {} => toBinder[k] = <<>>
    BY DEF AnswersMatchRequests, Answers
  <2>. DEFINE answers == {i \in DOMAIN toPeer[k] : toPeer[k][i] # Terminate}
  <2>1. DOMAIN toPeer[k] = 1 .. Len(toPeer[k])
    BY DEF Inv, Types
  <2>2. \A i \in answers : /\ i = 1 /\ toPeer[k][i].type \in Answers(proc[k])
                           /\ toBinder[k] = <<>>
    BY <2>1 DEF Inv, Answered
  <2>3. answers \subseteq {1}
    BY <2>2
  <2>4. Cardinality(answers) <= 1
    <3>1. IsFiniteSet({1}) /\ Cardinality({1}) = 1
      BY FS_Singleton
    <3>2. Cardinality(answers) <= Cardinality({1})
      BY <2>3, <3>1, FS_Subset
    <3>. QED
      BY <3>1, <3>2
  <2>. QED
    BY <2>2, <2>4
<1>. QED
  BY <1>1, Invariance, PTL

-----------------------------------------------------------------------------
(* What rpcTerminate reports.                                              *)

\* Only a process that connects becomes alive, and its connection was not open:
\* a server that has returned from serve does nothing but end.
LEMMA Revives ==
  ASSUME Inv, [Next]_vars, NEW k \in Socket, Finished(k), ~Finished(k)'
  PROVE  k \notin open /\ toBinder'[k] = <<>> /\ UNCHANGED procFrame
<1>. DEFINE Final == {"none", "gone", "reset", "returned"}
<1>0. proc[k] \in Final /\ proc'[k] \notin Final
  BY DEF Finished, Alive, Gone
<1>1. CASE \E s \in {"ready", "idle"}, a \in Addr \cup {None} : Connect(k, s, a)
  BY <1>1 DEF Connect, Inv, Connections, Unused
<1>2. CASE BinderStep
  <2>1. ASSUME NEW j \in Socket, proc' = [proc EXCEPT ![j] = "none"] PROVE FALSE
    BY <1>0, <2>1 DEF Inv, Types
  <2>2. ASSUME NEW j, proc' = [proc EXCEPT ![j] = "gone"] PROVE FALSE
    BY <1>0, <2>2 DEF Inv, Types
  <2>3. ASSUME proc' = proc PROVE FALSE
    BY <1>0, <2>3
  <2>. QED
    BY <1>2, <2>1, <2>2, <2>3
       DEF BinderStep, Serve, AcceptIfAny, ConnectionsWithData, SendResponse,
           ConnectionClosed, ReceiveFails, ServeRegister, ServeLocate, ServeTerminate,
           Receive, AskServer, HearServer, LoseServer, TerminateDone, procVars
<1>3. CASE \E j \in ServerSocket : ServerStep(j)
  <2>1. PICK j \in ServerSocket : ServerStep(j)
    BY <1>3
  <2>2. ASSUME NEW s, proc[j] \notin Final \/ s \in Final, proc' = [proc EXCEPT ![j] = s]
        PROVE  FALSE
    BY <1>0, <2>2 DEF Inv, Types
  <2>3. ASSUME proc' = proc PROVE FALSE
    BY <1>0, <2>3
  <2>4. CASE \E a \in Addr : ServerStart(j, a)
    <3>1. j = k
      BY <1>0, <2>4 DEF ServerStart, Connect, Inv, Types
    <3>. QED
      BY <1>1, <2>4, <3>1 DEF ServerStart
  <2>5. CASE ServerExit(j)
    BY <2>2, <2>5 DEF ServerExit, End
  <2>6. CASE ~ServerExit(j) /\ ~\E a \in Addr : ServerStart(j, a)
    <3>1. proc[j] \notin Final
      BY <2>1, <2>6 DEF ServerStep, ServerRegister, ServerHear, ServerExecute,
                        ServerStop, ServeReturns
    <3>. QED
      BY <2>1, <2>2, <2>3, <2>6, <3>1
         DEF ServerStep, ServerRegister, Send, ServerHear, ServerExecute, ServerStop,
             ServeReturns
  <2>. QED
    BY <2>4, <2>5, <2>6
<1>4. CASE \E j \in ClientSocket : ClientStep(j)
  <2>1. PICK j \in ClientSocket : ClientStep(j)
    BY <1>4
  <2>2. ASSUME NEW s, proc[j] \notin Final, proc' = [proc EXCEPT ![j] = s] PROVE FALSE
    BY <1>0, <2>2 DEF Inv, Types
  <2>3. CASE ClientStart(j)
    <3>1. j = k
      BY <1>0, <2>3 DEF ClientStart, Connect, Inv, Types
    <3>. QED
      BY <1>1, <2>3, <3>1 DEF ClientStart
  <2>4. CASE ~ClientStart(j)
    BY <2>1, <2>2, <2>4 DEF ClientStep, ClientLocate, ClientTerminate, Send, ClientHear
  <2>. QED
    BY <2>3, <2>4
<1>5. CASE \E j \in Socket : Crash(j)
  BY <1>0, <1>5 DEF Crash, End, Inv, Types
<1>6. CASE UNCHANGED vars
  BY <1>0, <1>6 DEF vars, procVars
<1>. QED
  BY <1>2, <1>3, <1>4, <1>5, <1>6 DEF Next, AllGone

LEMMA NextTold == Inv /\ Told /\ [Next]_vars => Told'
<1> SUFFICES ASSUME Inv, Told, [Next]_vars,
                    NEW k \in ServerSocket, NEW i \in 1 .. Len(toBinder'[k]),
                    toBinder'[k][i].type = "TERMINATE_SUCCESS", ~Finished(k)'
             PROVE  FALSE
  BY DEF Told
<1>0. k \in Socket /\ toBinder[k] \in Seq(Message)
  BY DEF Socket, Inv, Types
<1>1. ~Finished(k)
  <2>1. toBinder'[k] # <<>>
    OBVIOUS
  <2>. QED
    BY <1>0, <2>1, Revives
<1>2. \A l \in 1 .. Len(toBinder[k]) : toBinder[k][l].type # "TERMINATE_SUCCESS"
  BY <1>1 DEF Told
<1>3. \A l \in 1 .. Len(toBinder[k]) : toBinder'[k][i] # toBinder[k][l]
  BY <1>2
<1>4. ASSUME toBinder'[k] = toBinder[k] PROVE FALSE
  BY <1>3, <1>4
<1>5. ASSUME toBinder[k] # <<>>, toBinder'[k] = Tail(toBinder[k]) PROVE FALSE
  BY <1>0, <1>3, <1>5, TakingTheHead
<1>6. ASSUME NEW m \in Message, m.type # "TERMINATE_SUCCESS", toBinder'[k] = Append(toBinder[k], m)
      PROVE  FALSE
  BY <1>0, <1>3, <1>6, Appending
<1>7. ASSUME NEW j \in Socket, toBinder[j] # <<>>, toBinder' = [toBinder EXCEPT ![j] = Tail(@)]
      PROVE  FALSE
  BY <1>0, <1>4, <1>5, <1>7 DEF Inv, Types
<1>8. ASSUME NEW j \in Socket, NEW m \in Message, NEW s, m.type # "TERMINATE_SUCCESS", Send(j, m, s)
      PROVE  FALSE
  BY <1>0, <1>4, <1>6, <1>8 DEF Inv, Types, Send, ToBinder
<1>9. CASE BinderStep
  <2>1. CASE \E j \in Socket : ServeRegister(j) \/ ServeLocate(j) \/ ServeTerminate(j)
    BY <2>1, <1>7 DEF ServeRegister, ServeLocate, ServeTerminate, Receive
  <2>2. CASE HearServer
    <3>1. asked \in Socket
      BY <2>2 DEF HearServer, Inv, Types, Loop
    <3>. QED
      BY <2>2, <3>1, <1>7 DEF HearServer
  <2>3. CASE SendResponse
    <3>1. CASE toBinder' = toBinder
      BY <1>4, <3>1
    <3>2. CASE Exit
      BY <1>0, <3>2 DEF Exit
    <3>. QED
      BY <2>3, <3>1, <3>2 DEF SendResponse
  <2>. QED
    BY <1>4, <1>9, <2>1, <2>2, <2>3
       DEF BinderStep, Serve, AcceptIfAny, ConnectionsWithData, ConnectionClosed,
           ReceiveFails, AskServer, LoseServer, TerminateDone, netVars
<1>10. CASE \E j \in ServerSocket : ServerStep(j)
  <2>1. PICK j \in ServerSocket : ServerStep(j)
    BY <1>10
  <2>2. j \in Socket
    BY DEF Socket
  <2>3. CASE \E g \in Signature : ServerRegister(j, g)
    BY <2>2, <2>3, <1>8, MessageTypes DEF ServerRegister
  <2>4. CASE ServeReturns(j)
    <3>1. j # k
      BY <2>2, <2>4 DEF ServeReturns, Send, Inv, Types, Finished
    <3>. QED
      BY <1>0, <1>4, <2>4, <3>1 DEF ServeReturns, Send, ToBinder, Inv, Types
  <2>. QED
    BY <1>4, <2>1, <2>3, <2>4
       DEF ServerStep, ServerStart, Connect, ServerHear, ServerExecute, ServerStop,
           ServerExit, netVars
<1>11. CASE \E j \in ClientSocket : ClientStep(j)
  <2>1. PICK j \in ClientSocket : ClientStep(j)
    BY <1>11
  <2>2. j \in Socket
    BY DEF Socket
  <2>3. CASE \E g \in Signature : ClientLocate(j, g)
    BY <2>2, <2>3, <1>8, MessageTypes DEF ClientLocate
  <2>4. CASE ClientTerminate(j)
    BY <2>2, <2>4, <1>8, MessageTypes DEF ClientTerminate
  <2>. QED
    BY <1>4, <2>1, <2>3, <2>4 DEF ClientStep, ClientStart, Connect, ClientHear
<1>12. CASE (\E j \in Socket : Crash(j)) \/ UNCHANGED vars
  BY <1>4, <1>12 DEF Crash, vars, netVars
<1>. QED
  BY <1>9, <1>10, <1>11, <1>12 DEF Next, AllGone

LEMMA NextHeard == Inv /\ Told /\ Heard /\ [Next]_vars => Heard'
<1> SUFFICES ASSUME Inv, Told, Heard, [Next]_vars,
                    pc' \in {"ask", "wait"}, failure' = None,
                    NEW a \in Addr \ waiting', NEW k \in Socket,
                    serverToTimestamp'[a].sock = k, k # asked', ~Finished(k)'
             PROVE  FALSE
  BY DEF Heard
<1>1. ASSUME serverToTimestamp' = serverToTimestamp PROVE ~Finished(k) /\ k \in open
  <2>1. k \in open
    BY <1>1, KnownIsServer, DatabaseAssumption DEF Inv
  <2>. QED
    BY <2>1, Revives
<1>2. ASSUME serverToTimestamp' = serverToTimestamp, pc \in {"ask", "wait"}, failure = None,
             a \notin waiting, k # asked
      PROVE  FALSE
  BY <1>1, <1>2 DEF Heard
<1>3. CASE UNCHANGED procFrame
  BY <1>2, <1>3 DEF procFrame, dbVars, terminateVars
<1>4. CASE \E j \in Socket : ServeTerminate(j)
  BY <1>4, DatabaseAssumption DEF ServeTerminate, dbVars
<1>5. CASE \E b \in Addr : AskServer(b)
  <2>1. PICK b \in Addr : AskServer(b)
    BY <1>5
  <2>2. asked = None /\ pc = "ask" /\ serverToTimestamp' = serverToTimestamp
    BY <2>1 DEF AskServer, Inv, Loop, dbVars
  <2>3. asked' = serverToTimestamp[b].sock /\ failure = None /\ waiting' = waiting \ {b}
    BY <2>1, NoneAssumption DEF AskServer
  <2>4. a # b /\ a \notin waiting /\ k # None
    BY <2>2, <2>3, DatabaseAssumption
  <2>. QED
    BY <1>2, <2>2, <2>3, <2>4
<1>6. CASE HearServer
  <2>1. /\ asked \in Socket /\ asked # None /\ pc = "wait" /\ toBinder[asked] # <<>>
        /\ waiting' = waiting /\ serverToTimestamp' = serverToTimestamp
    BY <1>6 DEF HearServer, Inv, Types, Loop, dbVars
  <2>2. Head(toBinder[asked]).type = "TERMINATE_SUCCESS" /\ failure = None
    BY <1>6, NoneAssumption DEF HearServer
  <2>3. PICK b \in Addr : serverToTimestamp[b].sock = asked
    BY <2>1 DEF Inv, Loop
  <2>4. asked \in ServerSocket
    BY <2>1, <2>3, KnownIsServer DEF Inv
  <2>5. Head(toBinder[asked]) = toBinder[asked][1] /\ 1 \in 1 .. Len(toBinder[asked])
    BY <2>1, TakingTheHead DEF Inv, Types
  <2>6. Finished(asked)
    BY <2>2, <2>4, <2>5 DEF Told
  <2>7. CASE k = asked
    BY <1>1, <2>1, <2>6, <2>7
  <2>8. CASE k # asked
    BY <1>2, <2>1, <2>2, <2>8
  <2>. QED
    BY <2>7, <2>8
<1>7. CASE LoseServer
  BY <1>7, NoneAssumption DEF LoseServer
<1>8. CASE UNCHANGED vars
  BY <1>3, <1>8 DEF vars, procFrame
<1>9. ASSUME \/ \E j \in Socket : ConnectionClosed(j) \/ ReceiveFails(j)
                                  \/ ServeRegister(j) \/ ServeLocate(j)
             \/ AcceptIfAny \/ ConnectionsWithData \/ SendResponse \/ TerminateDone
      PROVE  FALSE
  BY <1>9 DEF ConnectionClosed, ReceiveFails, ServeRegister, ServeLocate, AcceptIfAny,
              ConnectionsWithData, SendResponse, TerminateDone, NextClient, Exit
<1>. QED
  BY <1>3, <1>4, <1>5, <1>6, <1>7, <1>8, <1>9, ProcessIsUnseen
     DEF Next, AllGone, BinderStep, Serve

LEMMA NextOver == Inv /\ Heard /\ Over /\ [Next]_vars => Over'
<1> SUFFICES ASSUME Inv, Heard, Over, [Next]_vars, response' = DB!TerminateSuccess,
                    NEW a \in Addr, NEW k \in Socket,
                    serverToTimestamp'[a].sock = k, ~Finished(k)'
             PROVE  FALSE
  BY DEF Over
<1>1. ASSUME serverToTimestamp' = serverToTimestamp PROVE ~Finished(k)
  <2>1. k \in open
    BY <1>1, KnownIsServer, DatabaseAssumption DEF Inv
  <2>. QED
    BY <2>1, Revives
<1>2. ASSUME serverToTimestamp' = serverToTimestamp, response = DB!TerminateSuccess
      PROVE  FALSE
  BY <1>1, <1>2 DEF Over
<1>3. ASSUME response = DB!TerminateSuccess
      PROVE  pc \in {"send", "exited"} /\ Ended
  BY <1>3 DEF Inv, Loop, Ended, DB!TerminateResponse
<1>4. CASE UNCHANGED procFrame
  BY <1>2, <1>4 DEF procFrame, dbVars
<1>5. CASE UNCHANGED vars
  BY <1>4, <1>5 DEF vars, procFrame
<1>6. CASE SendResponse
  <2>1. response = DB!TerminateSuccess
    BY <1>6 DEF SendResponse, DB!RemoveIfServer
  <2>2. current \in ClientSocket /\ current \in Socket
    BY <1>3, <1>6, <2>1 DEF SendResponse, Inv, Loop, Socket
  <2>3. announced[current] = None
    BY <2>2 DEF Inv, Connections, Homes, announced
  <2>4. UNCHANGED dbVars
    BY <1>6, <2>2, <2>3, RemoveNothing DEF SendResponse, Inv
  <2>. QED
    BY <1>2, <2>1, <2>4 DEF dbVars
<1>7. CASE TerminateDone
  <2>1. failure = None
    BY <1>7 DEF TerminateDone, DB!TerminateSuccess, DB!TerminateFailure
  <2>2. pc = "ask" /\ waiting = {} /\ asked = None /\ serverToTimestamp' = serverToTimestamp
    BY <1>7 DEF TerminateDone, Inv, Loop, dbVars
  <2>3. k # asked
    BY <2>2, DatabaseAssumption
  <2>. QED
    BY <1>1, <2>1, <2>2, <2>3 DEF Heard
<1>8. ASSUME NEW j \in Socket, ServeRegister(j) \/ ServeLocate(j)
      PROVE  FALSE
  <2>1. CASE ServeRegister(j)
    <3>1. Head(toBinder[j]).sig \in Signature /\ home[j] \in Addr
      BY <2>1, Received DEF ServeRegister
    <3>2. response'.type = "REGISTER_SUCCESS"
      BY <2>1, <3>1, RegisterEffect DEF ServeRegister, Inv, Database
    <3>. QED
      BY <3>2 DEF DB!TerminateSuccess
  <2>2. CASE ServeLocate(j)
    <3>1. Head(toBinder[j]).sig \in Signature
      BY <2>2, Received DEF ServeLocate
    <3>2. response'.type \in {"LOCATE_SUCCESS", "LOCATE_FAILURE"}
      BY <2>2, <3>1, LocateEffect DEF ServeLocate, Inv, Database
    <3>. QED
      BY <3>2 DEF DB!TerminateSuccess
  <2>. QED
    BY <1>8, <2>1, <2>2
<1>9. CASE \/ \E j \in Socket : ConnectionClosed(j) \/ ReceiveFails(j) \/ ServeTerminate(j)
           \/ \E b \in Addr : AskServer(b)
           \/ AcceptIfAny \/ ConnectionsWithData \/ HearServer \/ LoseServer
  <2>1. response' = response /\ pc \notin {"send", "exited"}
    BY <1>9 DEF ConnectionClosed, ReceiveFails, ServeTerminate, AskServer, AcceptIfAny,
                ConnectionsWithData, HearServer, LoseServer, Receive, DB!RemoveIfServer
  <2>. QED
    BY <1>3, <2>1
<1>. QED
  BY <1>4, <1>5, <1>6, <1>7, <1>8, <1>9, ProcessIsUnseen DEF Next, AllGone, BinderStep, Serve

-----------------------------------------------------------------------------
(* What rpcRegister reports.                                               *)

\* A server that waits for an answer, or for main to send it, is registering.
LEMMA Registering ==
  ASSUME Inv, NEW k \in ServerSocket, Alive(k),
         \/ \E i \in 1 .. Len(toPeer[k]) : toPeer[k][i] # Terminate
         \/ pc = "send" /\ current = k
  PROVE  proc[k] = "registering" /\ pending[k] \in Signature
<1>1. k \in Socket /\ k # None /\ k \notin ClientSocket
  BY RolesAssumption, DatabaseAssumption DEF Socket
<1>2. Answers(proc[k]) # {}
  BY <1>1 DEF Inv, Answered, Serving
<1>3. proc[k] = "registering"
  BY <1>1, <1>2 DEF Inv, Connections, Roles, Answers
<1>. QED
  BY <1>1, <1>3 DEF Inv, Connections, Roles

\* Removing another server leaves a living one in the database.
LEMMA StaysLocated ==
  ASSUME Inv, DB!DatabaseInv, ~AddrReuse, NEW j \in Socket, DB!RemoveIfServer(j),
         NEW k \in ServerSocket, k # j, Alive(k), home'[k] = home[k],
         NEW g \in Signature, Located(k, g)
  PROVE  Located(k, g)'
<1>. DEFINE x == signatureToServers[g][home[k]]
<1>1. home[k] \in Addr /\ k \in Socket
  BY DEF Inv, Connections, Homes, Alive, Socket
<1>2. x \in Socket /\ x # None
  BY <1>1 DEF Located, Inv, Database, DB!TypeOK
<1>3. serverToTimestamp[home[k]].sock = x
  BY <1>1, <1>2 DEF DB!DatabaseInv, DB!StructuresAgree
<1>4. announced[x] = home[k]
  BY <1>1, <1>2, <1>3 DEF DB!DatabaseInv, DB!StampedByOwner
<1>5. home[x] = home[k] /\ home[k] # None
  BY <1>1, <1>2, <1>4, DatabaseAssumption DEF announced
<1>6. x = k
  BY <1>1, <1>2, <1>5 DEF Inv, Connections, Homes
<1>7. signatureToServers'[g][home[k]] = x
  BY <1>1, <1>6 DEF DB!RemoveIfServer
<1>. QED
  BY <1>2, <1>7 DEF Located

\* Main's steps that touch neither the registrations nor a server's answer.
LEMMA QuietRegistered ==
  ASSUME Inv, [Next]_vars, NEW k \in ServerSocket, IsRegistered(k), Alive(k)' = Alive(k),
         UNCHANGED <<signatureToServers, home, registered, pending>>,
         ~(pc' = "send" /\ current' = k),
         \A i \in 1 .. Len(toPeer'[k]) : toPeer'[k][i] # Terminate =>
            i \in 1 .. Len(toPeer[k]) /\ toPeer'[k][i] = toPeer[k][i]
  PROVE  IsRegistered(k)'
BY DEF IsRegistered, Located

LEMMA BinderRegistered ==
  ASSUME Inv, Inv', DB!DatabaseInv, ~AddrReuse, BinderStep,
         NEW k \in ServerSocket, IsRegistered(k)
  PROVE  IsRegistered(k)'
<1>0. k \in Socket /\ k # None /\ k \notin ClientSocket
  BY RolesAssumption, DatabaseAssumption DEF Socket
<1>1. [Next]_vars
  BY DEF Next
<1>2. registered' = registered /\ pending' = pending
  BY DEF BinderStep, Serve, AcceptIfAny, ConnectionsWithData, SendResponse,
         ConnectionClosed, ReceiveFails, ServeRegister, ServeLocate, ServeTerminate,
         Receive, AskServer, HearServer, LoseServer, TerminateDone, procVars
<1>3. Alive(k)' = Alive(k)
  <2>1. \/ proc' = proc
        \/ \E j \in Socket, s \in {"none", "gone"} : ~Alive(j) /\ proc' = [proc EXCEPT ![j] = s]
    BY DEF BinderStep, Serve, AcceptIfAny, ConnectionsWithData, SendResponse,
           ConnectionClosed, ReceiveFails, ServeRegister, ServeLocate, ServeTerminate,
           Receive, AskServer, HearServer, LoseServer, TerminateDone, procVars,
           Alive, Gone, Inv, Types, Loop
  <2>2. Alive(k)' <=> Alive(k)
    BY <1>0, <2>1 DEF Alive, Gone, Inv, Types
  <2>. QED
    BY <2>2 DEF Alive, Gone
<1>4. ASSUME NEW i \in 1 .. Len(toPeer[k]), toPeer[k][i] # Terminate, Alive(k)
      PROVE  pending[k] \in Signature
  BY <1>4, Registering
<1>5. registered[k] \subseteq Signature
  BY <1>0 DEF Inv, Types
<1>6. ASSUME toPeer' = toPeer, home'[k] = home[k], ~(pc' = "send" /\ current' = k),
             \A g \in Signature : Alive(k) /\ Located(k, g) => Located(k, g)'
      PROVE  IsRegistered(k)'
  BY <1>2, <1>3, <1>4, <1>5, <1>6 DEF IsRegistered
<1>7. CASE AcceptIfAny \/ ConnectionsWithData \/ HearServer \/ LoseServer
           \/ \E j \in Socket : ReceiveFails(j) \/ ServeTerminate(j)
  <2>1. /\ UNCHANGED <<signatureToServers, home, toPeer>> /\ pc' # "send"
    BY <1>7 DEF AcceptIfAny, ConnectionsWithData, HearServer, LoseServer, ReceiveFails,
                ServeTerminate, Receive, NextClient, dbVars, procVars, netVars
  <2>. QED
    BY <1>6, <2>1 DEF Located
<1>8. CASE TerminateDone
  <2>1. current' # k
    BY <1>0, <1>8 DEF TerminateDone, Inv, Loop
  <2>. QED
    BY <1>6, <1>8, <2>1 DEF TerminateDone, dbVars, procVars, netVars, Located
<1>9. CASE \E j \in Socket : ServeLocate(j)
  <2>1. PICK j \in Socket : ServeLocate(j)
    BY <1>9
  <2>2. j \in ClientSocket /\ Head(toBinder[j]).sig \in Signature
    BY <2>1, Received DEF ServeLocate
  <2>3. UNCHANGED <<signatureToServers, home, toPeer>> /\ current' # k
    BY <1>0, <2>1, <2>2, LocateEffect DEF ServeLocate, Receive, procVars, Inv, Database
  <2>. QED
    BY <1>6, <2>3 DEF Located
<1>10. CASE \E a \in Addr : AskServer(a)
  <2>1. PICK a \in Addr : AskServer(a)
    BY <1>10
  <2>2. /\ UNCHANGED <<signatureToServers, home>> /\ pc' # "send"
        /\ \/ toPeer' = toPeer
           \/ toPeer' = [toPeer EXCEPT ![serverToTimestamp[a].sock] = Append(@, Terminate)]
    BY <2>1 DEF AskServer, dbVars, procVars
  <2>3. \/ toPeer'[k] = toPeer[k]
        \/ toPeer'[k] = Append(toPeer[k], Terminate)
    <3>. DEFINE x == serverToTimestamp[a].sock
    <3>1. toPeer \in [Socket -> Seq(DB!Answer \cup {Terminate})]
      BY DEF Inv, Types
    <3>2. ASSUME toPeer' = [toPeer EXCEPT ![x] = Append(@, Terminate)]
          PROVE  toPeer'[k] = IF k = x THEN Append(toPeer[k], Terminate) ELSE toPeer[k]
      BY <1>0, <3>1, <3>2
    <3>. QED
      BY <2>2, <3>2
  <2>4. toPeer[k] \in Seq(DB!Answer \cup {Terminate})
    BY <1>0 DEF Inv, Types
  <2>5. \A i \in 1 .. Len(toPeer'[k]) : toPeer'[k][i] # Terminate =>
            i \in 1 .. Len(toPeer[k]) /\ toPeer'[k][i] = toPeer[k][i]
    BY <2>3, <2>4, Appending
  <2>. QED
    BY <1>1, <1>2, <1>3, <2>2, <2>5, QuietRegistered
<1>11. CASE \E j \in Socket : ServeRegister(j)
  <2>1. PICK j \in Socket : ServeRegister(j)
    BY <1>11
  <2>. DEFINE h == Head(toBinder[j]).sig
  <2>2. /\ h \in Signature /\ home[j] \in Addr /\ Normal /\ j \in Socket
        /\ toBinder[j] # <<>> /\ Head(toBinder[j]).type = "REGISTER"
    BY <2>1, Received DEF ServeRegister
  <2>3. UNCHANGED <<home, toPeer>> /\ current' = j
    BY <2>1 DEF ServeRegister, Receive, procVars
  <2>4. signatureToServers'[h][home[j]] # None
    BY <2>1, <2>2, RegisterEffect DEF ServeRegister, Inv, Database
  <2>5. \A g \in Signature, a \in Addr :
          signatureToServers[g][a] # None => signatureToServers'[g][a] # None
    BY <2>1, <2>2, DatabaseAssumption
       DEF ServeRegister, DB!HandleRegister, DB!database, Inv, Database, DB!TypeOK
  <2>6. Alive(k) => home[k] \in Addr
    BY DEF Alive, Inv, Connections, Homes
  <2>7. \A g \in Signature : Alive(k) /\ Located(k, g) => Located(k, g)'
    BY <2>3, <2>5, <2>6 DEF Located
  <2>8. CASE j # k
    BY <1>6, <2>3, <2>7, <2>8
  <2>9. CASE j = k
    <3>1. Alive(k) => h = pending[k]
      <4>. SUFFICES ASSUME Alive(k) PROVE h = pending[k]
        OBVIOUS
      <4>1. "REGISTER" \in Asks(proc[k]) /\ (proc[k] = "registering" => h = pending[k])
        BY <1>0, <2>2, <2>9 DEF Inv, Lockstep
      <4>. QED
        BY <4>1 DEF Asks
    <3>2. Alive(k) => Located(k, pending[k])'
      BY <1>2, <2>3, <2>4, <2>9, <3>1 DEF Located
    <3>. QED
      BY <1>2, <1>3, <1>4, <1>5, <2>3, <2>7, <3>2 DEF IsRegistered
  <2>. QED
    BY <2>8, <2>9
<1>12. CASE \E j \in Socket : ConnectionClosed(j)
  <2>1. PICK j \in Socket : ConnectionClosed(j)
    BY <1>12
  <2>2. UNCHANGED toPeer /\ pc' # "send" /\ DB!RemoveIfServer(j) /\ ~Alive(j)
    BY <2>1 DEF ConnectionClosed, NextClient, netVars, Alive, Gone
  <2>3. CASE Alive(k)
    <3>1. k # j /\ home'[k] = home[k]
      BY <1>0, <2>1, <2>2, <2>3 DEF ConnectionClosed, Inv, Types
    <3>2. \A g \in Signature : Located(k, g) => Located(k, g)'
      BY <2>2, <2>3, <3>1, StaysLocated
    <3>. QED
      BY <1>6, <2>2, <3>1, <3>2
  <2>4. CASE ~Alive(k)
    BY <1>2, <1>3, <2>4 DEF IsRegistered
  <2>. QED
    BY <2>3, <2>4
<1>13. CASE SendResponse
  <2>1. /\ current \in Socket /\ pc = "send" /\ pc' # "send" /\ home' = home
        /\ \/ Gone(current) /\ DB!RemoveIfServer(current) /\ toPeer' = toPeer
           \/ /\ toPeer' = toPeer \/ toPeer' = [toPeer EXCEPT ![current] = Append(@, response)]
              /\ signatureToServers' = signatureToServers
    BY <1>13 DEF SendResponse, NextClient, Exit, Inv, Types, Loop, dbVars, procVars
  <2>2. CASE ~Alive(k)
    BY <1>2, <1>3, <2>2 DEF IsRegistered
  <2>3. CASE Alive(k) /\ Gone(current) /\ DB!RemoveIfServer(current) /\ toPeer' = toPeer
    <3>1. k # current
      BY <2>3 DEF Alive
    <3>2. \A g \in Signature : Located(k, g) => Located(k, g)'
      BY <2>1, <2>3, <3>1, StaysLocated
    <3>. QED
      BY <1>6, <2>1, <2>3, <3>2
  <2>4. CASE /\ signatureToServers' = signatureToServers
             /\ toPeer'[k] = toPeer[k]
    BY <1>1, <1>2, <1>3, <2>1, <2>4, QuietRegistered
  <2>5. CASE /\ signatureToServers' = signatureToServers
             /\ current = k /\ Alive(k)
    BY <1>2, <1>3, <2>1, <2>5 DEF IsRegistered, Located
  <2>6. k # current /\ toPeer' = [toPeer EXCEPT ![current] = Append(@, response)]
          => toPeer'[k] = toPeer[k]
    BY <1>0, <2>1 DEF Inv, Types
  <2>. QED
    BY <2>1, <2>2, <2>3, <2>4, <2>5, <2>6
<1>. QED
  BY <1>7, <1>8, <1>9, <1>10, <1>11, <1>12, <1>13 DEF BinderStep, Serve

\* The step of the server itself.
LEMMA ServerRegistered ==
  ASSUME Inv, NEW k \in ServerSocket, ServerStep(k), IsRegistered(k)
  PROVE  IsRegistered(k)'
<1>0. k \in Socket /\ k # None
  BY DatabaseAssumption DEF Socket
<1>1. UNCHANGED <<signatureToServers, current, pc>>
  BY ProcessIsUnseen DEF procFrame, dbVars
<1>2. CASE \E a \in Addr : ServerStart(k, a)
  <2>1. /\ ~Alive(k) /\ k \notin open /\ toPeer[k] = <<>> /\ proc[k] = "none"
        /\ registered' = registered /\ toPeer' = toPeer
    BY <1>0, <1>2 DEF ServerStart, Connect, Alive, Inv, Connections, Unused, Answered
  <2>2. registered'[k] = {} /\ 1 .. Len(toPeer'[k]) = {} /\ current' # k
    BY <1>0, <1>1, <2>1 DEF IsRegistered, Inv, Types
  <2>. QED
    BY <2>2 DEF IsRegistered
<1>3. CASE ServerExit(k)
  <2>1. proc'[k] = "gone" /\ registered'[k] = {}
    BY <1>0, <1>3 DEF ServerExit, End, Inv, Types
  <2>. QED
    BY <2>1 DEF IsRegistered, Alive, Gone
<1>4. CASE ServerHear(k)
  <2>1. /\ proc[k] = "registering" /\ Alive(k) /\ home' = home
        /\ toPeer[k] # <<>> \/ EndOfMessages(k)
        /\ toPeer' = IF toPeer[k] = <<>> THEN toPeer ELSE [toPeer EXCEPT ![k] = Tail(@)]
    BY <1>4 DEF ServerHear, Alive, Gone
  <2>2. toPeer[k] \in Seq(DB!Answer \cup {Terminate})
    BY <1>0 DEF Inv, Types
  <2>3. current # k
    BY <1>0, <2>1 DEF Inv, Serving, Loop, EndOfMessages
  <2>4. \A i \in 2 .. Len(toPeer[k]) : toPeer[k][i] = Terminate
    BY <1>0, <2>2, Emptiness DEF Inv, Answered
  <2>5. toPeer'[k] = IF toPeer[k] = <<>> THEN <<>> ELSE Tail(toPeer[k])
    BY <1>0, <2>1 DEF Inv, Types
  <2>6. \A i \in 1 .. Len(toPeer'[k]) : toPeer'[k][i] = Terminate
    <3>1. CASE toPeer[k] = <<>>
      <4>1. 1 .. Len(<<>>) = {}
        OBVIOUS
      <4>. QED
        BY <2>5, <3>1, <4>1
    <3>2. CASE toPeer[k] # <<>>
      <4>1. toPeer'[k] = Tail(toPeer[k])
        BY <2>5, <3>2
      <4>2. \A i \in 1 .. Len(Tail(toPeer[k])) :
              Tail(toPeer[k])[i] = toPeer[k][i + 1] /\ i + 1 \in 2 .. Len(toPeer[k])
        BY <2>2, <3>2, TakingTheHead
      <4>. QED
        BY <2>4, <4>1, <4>2
    <3>. QED
      BY <3>1, <3>2
  <2>7. CASE toPeer[k] # <<>> /\ Head(toPeer[k]).type = "REGISTER_SUCCESS"
    <3>1. Head(toPeer[k]) = toPeer[k][1] /\ 1 \in 1 .. Len(toPeer[k])
      BY <2>2, <2>7, TakingTheHead
    <3>2. toPeer[k][1] # Terminate
      BY <2>7, <3>1, AnswerFacts
    <3>3. Located(k, pending[k])
      BY <2>1, <3>1, <3>2 DEF IsRegistered
    <3>4. registered'[k] = registered[k] \cup {pending[k]}
      BY <1>0, <1>4, <2>7 DEF ServerHear, Inv, Types
    <3>5. \A g \in registered'[k] : Located(k, g)'
      BY <1>1, <2>1, <3>3, <3>4 DEF IsRegistered, Located
    <3>6. Alive(k)'
      BY <1>0, <1>4 DEF ServerHear, Alive, Gone, Inv, Types
    <3>. QED
      BY <1>1, <2>3, <2>6, <3>5, <3>6 DEF IsRegistered
  <2>8. CASE registered' = registered
    <3>1. \A g \in registered'[k] : Located(k, g)'
      BY <1>1, <2>1, <2>8 DEF IsRegistered, Located
    <3>2. Alive(k)'
      BY <1>0, <1>4 DEF ServerHear, Alive, Gone, Inv, Types
    <3>. QED
      BY <1>1, <2>3, <2>6, <3>1, <3>2 DEF IsRegistered
  <2>. QED
    BY <1>4, <2>7, <2>8 DEF ServerHear
<1>5. CASE \/ \E g \in Signature : ServerRegister(k, g)
           \/ ServerExecute(k) \/ ServerStop(k) \/ ServeReturns(k)
  <2>1. /\ proc[k] \in {"ready", "serving", "stopping"}
        /\ Alive(k) /\ home' = home /\ registered' = registered
    BY <1>5 DEF ServerRegister, Send, ServerExecute, ServerStop, ServeReturns, Alive, Gone
  <2>2. /\ current # k
        /\ \A i \in 1 .. Len(toPeer[k]) : toPeer[k][i] = Terminate
    BY <1>0, <2>1, Unasked
  <2>3. toPeer[k] \in Seq(DB!Answer \cup {Terminate})
    BY <1>0 DEF Inv, Types
  <2>4. toPeer'[k] = toPeer[k] \/ (toPeer[k] # <<>> /\ toPeer'[k] = Tail(toPeer[k]))
    BY <1>0, <1>5 DEF ServerRegister, Send, ServerExecute, ServerStop, ServeReturns, netVars, Inv, Types
  <2>5. \A i \in 1 .. Len(toPeer'[k]) : toPeer'[k][i] = Terminate
    <3>1. CASE toPeer'[k] = toPeer[k]
      BY <2>2, <3>1
    <3>2. CASE toPeer[k] # <<>> /\ toPeer'[k] = Tail(toPeer[k])
      <4>1. \A i \in 1 .. Len(Tail(toPeer[k])) :
              Tail(toPeer[k])[i] = toPeer[k][i + 1] /\ i + 1 \in 2 .. Len(toPeer[k])
        BY <2>3, <3>2, TakingTheHead
      <4>2. 2 .. Len(toPeer[k]) \subseteq 1 .. Len(toPeer[k])
        OBVIOUS
      <4>. QED
        BY <2>2, <3>2, <4>1, <4>2
    <3>. QED
      BY <2>4, <3>1, <3>2
  <2>6. Alive(k)'
    BY <1>0, <1>5, <2>1 DEF ServerRegister, Send, ServerExecute, ServerStop, ServeReturns, Alive, Gone, Inv, Types
  <2>. QED
    BY <1>1, <2>1, <2>2, <2>5, <2>6 DEF IsRegistered, Located
<1>. QED
  BY <1>2, <1>3, <1>4, <1>5 DEF ServerStep

LEMMA ProcessRegistered ==
  ASSUME Inv, NEW k \in ServerSocket, IsRegistered(k),
         \/ \E j \in ServerSocket : ServerStep(j)
         \/ \E j \in ClientSocket : ClientStep(j)
         \/ \E j \in Socket : Crash(j)
  PROVE  IsRegistered(k)'
<1>0. k \in Socket /\ k \notin ClientSocket
  BY RolesAssumption DEF Socket
<1>1. UNCHANGED <<signatureToServers, current, pc>>
  BY ProcessIsUnseen DEF procFrame, dbVars
<1>2. ASSUME proc'[k] = proc[k], home'[k] = home[k], pending'[k] = pending[k],
             registered'[k] = registered[k], toPeer'[k] = toPeer[k]
      PROVE  IsRegistered(k)'
  BY <1>1, <1>2 DEF IsRegistered, Located, Alive, Gone
<1>3. CASE Crash(k)
  <2>1. PICK s \in {"gone", "reset"} : End(k, s)
    BY <1>3 DEF Crash
  <2>2. proc'[k] = s /\ registered'[k] = {}
    BY <1>0, <2>1 DEF End, Inv, Types
  <2>. QED
    BY <2>2 DEF IsRegistered, Alive, Gone
<1>4. ASSUME NEW j \in Socket, j # k,
             \/ Crash(j)
             \/ j \in ServerSocket /\ ServerStep(j)
             \/ j \in ClientSocket /\ ClientStep(j)
      PROVE  /\ proc'[k] = proc[k] /\ home'[k] = home[k] /\ pending'[k] = pending[k]
             /\ registered'[k] = registered[k] /\ toPeer'[k] = toPeer[k]
  <2>1. CASE Crash(j)
    BY <1>0, <1>4, <2>1 DEF Crash, End, Inv, Types
  <2>2. CASE j \in ServerSocket /\ ServerStep(j)
    BY <1>0, <1>4, <2>2
       DEF ServerStep, ServerStart, Connect, ServerRegister, Send, ServerHear, ServerExecute,
           ServerStop, ServeReturns, ServerExit, End, netVars, Inv, Types
  <2>3. CASE j \in ClientSocket /\ ClientStep(j)
    BY <1>0, <1>4, <2>3
       DEF ClientStep, ClientStart, Connect, ClientLocate, ClientTerminate, Send, ClientHear,
           Inv, Types
  <2>. QED
    BY <1>4, <2>1, <2>2, <2>3
<1>. QED
  BY <1>0, <1>2, <1>3, <1>4, ServerRegistered DEF Socket

LEMMA NextRegistered ==
  ASSUME ~AddrReuse
  PROVE  Inv /\ Inv' /\ DB!DatabaseInv /\ Registered /\ [Next]_vars => Registered'
<1> SUFFICES ASSUME Inv, Inv', DB!DatabaseInv, Registered, [Next]_vars, NEW k \in ServerSocket
             PROVE  IsRegistered(k)'
  BY DEF Registered
<1>1. IsRegistered(k)
  BY DEF Registered
<1>2. CASE UNCHANGED vars
  BY <1>1, <1>2 DEF vars, procVars, netVars, dbVars, IsRegistered, Located, Alive, Gone
<1>. QED
  BY <1>1, <1>2, BinderRegistered, ProcessRegistered DEF Next, AllGone

\* A fact about the database inside the binder, as long as time_ does not wrap
\* and no address is announced twice.
LEMMA DatabaseHolds ==
  ASSUME DBP!NoWrap, ~AddrReuse
  PROVE  Spec => []DB!DatabaseInv
<1>1. DBP!Spec => []DBP!DatabaseInv
  BY DBP!DatabaseInvariant, DatabaseAssumption
<1>2. Init => DBP!Init
  BY SameDatabase DEF Init
<1>3. Inv /\ [Next]_vars => [DBP!Next]_(DBP!vars)
  BY NextDrives, SameDatabase
<1>4. DBP!DatabaseInv => DB!DatabaseInv
  BY SameDatabase
<1>. QED
  BY <1>1, <1>2, <1>3, <1>4, Invariance, PTL DEF Spec, DBP!Spec

\* What a server has been told is registered can be located at it as long as it
\* runs, until the binder serves it for the last time (binder.cc:39-60): the
\* binder answers REGISTER_SUCCESS only after the database has the signature,
\* and removes nothing of a server but when it closes its connection.
THEOREM RegisteredIsLocated ==
  ASSUME DBP!NoWrap, ~AddrReuse
  PROVE  Spec => []Registered
<1>1. Init => Registered
  BY DEF Init, Registered, IsRegistered, Alive, Gone, Socket
<1>2. Inv /\ Inv' /\ DB!DatabaseInv /\ Registered /\ [Next]_vars => Registered'
  BY NextRegistered
<1>. QED
  BY <1>1, <1>2, Invariance, DatabaseHolds, PTL DEF Spec

\* As long as the binder runs and a server is alive, every function for which
\* rpcRegister has reported success is found by handleLocate: provided that
\* time_ does not wrap, and that no server announces the address of a
\* connection the binder still has (rpc.cc:118-124, README.md:5).
THEOREM ServersAreLocatable ==
  ASSUME DBP!NoWrap, ~AddrReuse
  PROVE  Spec => []ServerIsLocatable
<1>1. Inv /\ DB!DatabaseInv /\ Registered => ServerIsLocatable
  <2> SUFFICES ASSUME Inv, DB!DatabaseInv, Registered,
                      NEW k \in ServerSocket, NEW g \in registered[k], Alive(k)
               PROVE  /\ signatureToServers[g][home[k]] # None
                      /\ \E p \in serverQueue : p.addr = home[k]
    BY DEF ServerIsLocatable
  <2>1. home[k] \in Addr /\ g \in Signature
    BY DEF Inv, Types, Connections, Homes, Alive, Socket
  <2>2. signatureToServers[g][home[k]] # None
    BY DEF Registered, IsRegistered, Located
  <2>3. serverToTimestamp[home[k]] # DB!NoStamp
    BY <2>1, <2>2 DEF DB!DatabaseInv, DB!StructuresAgree, DB!NoStamp
  <2>. QED
    BY <2>1, <2>2, <2>3 DEF DB!DatabaseInv, DB!StructuresAgree
<1>. QED
  BY <1>1, Invariance, DatabaseHolds, RegisteredIsLocated, PTL

\* When the binder answers TERMINATE_SUCCESS, every server with a registered
\* function has acknowledged, its process having ended or being about to, or
\* was lost before (libserver.cc:170-184, binder.cc:140-166).
THEOREM TerminationIsReported ==
  ASSUME DBP!NoWrap, ~AddrReuse
  PROVE  Spec => []TerminationReported
<1>1. Init => Told /\ Heard /\ Over
  BY NoneAssumption DEF Init, DB!Init, Told, Heard, Over, Socket, DB!Answer, DB!TerminateResponse
<1>2. Spec => [](Told /\ Heard /\ Over)
  BY <1>1, NextTold, NextHeard, NextOver, Invariance, PTL DEF Spec
<1>3. Inv /\ DB!DatabaseInv /\ Registered /\ Told /\ Heard /\ Over => TerminationReported
  <2> SUFFICES ASSUME Inv, DB!DatabaseInv, Registered, Over, response = DB!TerminateSuccess,
                      NEW k \in ServerSocket, NEW g \in registered[k], ~Finished(k)
               PROVE  FALSE
    BY DEF TerminationReported
  <2>. DEFINE x == serverToTimestamp[home[k]].sock
  <2>0. Alive(k)
    BY DEF Finished
  <2>1. home[k] \in Addr /\ g \in Signature /\ k \in Socket
    BY <2>0 DEF Inv, Types, Connections, Homes, Alive, Socket
  <2>2. signatureToServers[g][home[k]] # None
    BY <2>0 DEF Registered, IsRegistered, Located
  <2>3. x = signatureToServers[g][home[k]] /\ x \in Socket
    BY <2>1, <2>2 DEF DB!DatabaseInv, DB!StructuresAgree, DB!TypeOK
  <2>4. announced[x] = home[k] /\ home[k] # None
    BY <2>1, <2>2, <2>3, DatabaseAssumption DEF DB!DatabaseInv, DB!StampedByOwner
  <2>5. home[x] = home[k]
    BY <2>3, <2>4 DEF announced
  <2>6. x = k
    BY <2>1, <2>3, <2>4, <2>5 DEF Inv, Connections, Homes
  <2>. QED
    BY <2>1, <2>6 DEF Over
<1>. QED
  BY <1>2, <1>3, Invariance, DatabaseHolds, RegisteredIsLocated, PTL

=============================================================================
