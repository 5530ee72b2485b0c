---------------------------- MODULE RpcApiProofs ----------------------------
(***************************************************************************)
(* Theorems about RpcApi, for every set of processes, functions and calls  *)
(* and any number of failures: that from rpcCall to the skeleton and back  *)
(* a call is served as module RemoteCall promises, and that a call is only *)
(* refused when the binder is lost or the answers of the binder crossed.   *)
(***************************************************************************)
EXTENDS RpcApi, TLAPS

-----------------------------------------------------------------------------
(* The inductive invariant.                                                *)

\* Types, by the parts of TypeOK.
BinderTypes ==
  /\ binder \in {"up", "terminating", "gone"}
  /\ bound \subseteq Function \X Server
  /\ waiting \subseteq Server /\ asked \in Server \cup {None}
  /\ asker \in Process \cup {None}
  /\ faults \in 0 .. MaxFaults
ProcessTypes ==
  /\ proc \in [Process -> {"init", "ready", "registering", "serving", "leaving", "returned",
                           "idle", "terminating", "gone"}]
  /\ database \in [Server -> SUBSET Function]
  /\ pending \in [Server -> Function \cup {None}]
Flags ==
  /\ localServer \in [Server -> BOOLEAN] /\ listening \in [Server -> BOOLEAN]
NetTypes ==
  /\ conn \in [Process -> {"none", "open", "lost"}]
  /\ toBinder \in [Process -> Seq(Message)] /\ toProcess \in [Process -> Seq(Message)]
CallTypes ==
  /\ caller \in [Call -> Process \cup {None}] /\ within \in [Call -> Call \cup {None}]
  /\ fn \in [Call -> Function \cup {None}] /\ at \in [Call -> Server \cup {None}]
  /\ pc \in [Call -> {"idle", "locating", "executing", "done"}]
  /\ result \in [Call -> Result \cup {None}]
WorkerTypes ==
  /\ worker \in [Call -> {"none", "running", "ran", "refused", "answered", "gone"}]
  /\ runs \in [Call -> Nat] /\ answer \in [Call -> {None, "ran", "refused"}]

\* What main does, and what that says of its connection.
Mains ==
  /\ \A s \in Server : proc[s] \notin {"idle", "terminating"}
  /\ \A s \in Server : proc[s] = "registering" => pending[s] \in Function
  /\ \A p \in Client : proc[p] \in {"idle", "terminating", "gone"}
  /\ binder = "terminating" => asker \in Process
  /\ \A p \in Process : conn[p] = "lost" => binder = "gone" \/ Gone(p)
  /\ \A s \in Server : proc[s] = "registering" => conn[s] # "none"

\* The threads of a server run from rpcExecute on.
Executing(s) == proc[s] \in {"serving", "leaving", "returned"}

\* A call: who makes it, where it is, and what its worker does.
CallOK(c) ==
  /\ pc[c] = "idle" => caller[c] = None /\ within[c] = None /\ worker[c] = "none"
  /\ pc[c] # "idle" => caller[c] \in Process /\ fn[c] \in Function
  /\ pc[c] # "done" => result[c] = None
  /\ pc[c] \in {"idle", "locating"} => at[c] = None
  /\ pc[c] = "executing" => at[c] # None
  /\ worker[c] # "none" => at[c] # None
  /\ caller[c] \in Server => within[c] # None
  /\ worker[c] \notin {"none", "gone"} => Executing(at[c])
  /\ Calling(c) /\ caller[c] \in Server => Executing(caller[c])
  /\ Calling(c) /\ caller[c] \in Client => proc[caller[c]] = "idle"
Calls == \A c \in Call : CallOK(c)
OneCall ==
  \A c, d \in Call :
    Calling(c) /\ Calling(d) /\ caller[c] = caller[d] /\ caller[c] \in Client => c = d

\* How far a call has been served.
Stage(c) ==
  /\ worker[c] \in {"none", "running", "refused"} => runs[c] = 0
  /\ worker[c] = "ran" => runs[c] = 1
  /\ worker[c] \in {"none", "running", "ran", "refused"} => answer[c] = None
  /\ answer[c] = "ran" => runs[c] = 1
  /\ answer[c] = "refused" => runs[c] = 0
  /\ result[c] \in {"ran", "refused"} => answer[c] = result[c]
Stages == \A c \in Call : Stage(c)

\* Server s serves g, or will before it serves, if it lives.
Known(g, s) ==
  \/ g \in database[s]
  \/ proc[s] = "registering" /\ pending[s] = g /\ Is(s, "REGISTER_SUCCESS")
  \/ Gone(s)
Bound == \A g \in Function, s \in Server : <<g, s>> \in bound => Known(g, s)

\* The messages on a connection, in one direction.
Messages(line) == {line[i] : i \in 1 .. Len(line)}

\* The connection of a server, before it serves: one REGISTER and its answer.
ServerLine(s) ==
  /\ proc[s] \in {"init", "ready"} => toBinder[s] = <<>> /\ toProcess[s] = <<>>
  /\ proc[s] = "registering" =>
       \/ toBinder[s] = <<Register(pending[s])>> /\ toProcess[s] = <<>>
       \/ toBinder[s] = <<>> /\ toProcess[s] = <<Plain("REGISTER_SUCCESS")>>
  /\ Executing(s) => \A m \in Messages(toBinder[s]) : m.type # "REGISTER"
ServerLines == \A s \in Server : ServerLine(s)

\* Only servers register.
Registrants ==
  \A p \in Client : \A m \in Messages(toBinder[p]) : m.type # "REGISTER"

\* The connection of a client's main: one LOCATE_REQUEST and its answer.
Asks(p, c) ==
  /\ caller[c] = p /\ pc[c] = "locating"
  /\ \/ toBinder[p] = <<LocateRequest(fn[c])>> /\ toProcess[p] = <<>>
     \/ toBinder[p] = <<>> /\ toProcess[p] = <<Plain("LOCATE_FAILURE")>>
     \/ \E s \in Server : /\ toBinder[p] = <<>> /\ toProcess[p] = <<LocateSuccess(s)>>
                          /\ Known(fn[c], s)
ClientLine(p) ==
  proc[p] = "idle" =>
    \/ toBinder[p] = <<>> /\ toProcess[p] = <<>>
    \/ \E c \in Call : Asks(p, c)
ClientLines == \A p \in Client : ClientLine(p)

\* What a server is told of is what some of its calls have asked for.
Source(p, g) == \E e \in Call : caller[e] = p /\ fn[e] = g
Sources ==
  \A p \in Server :
    /\ \A m \in Messages(toBinder[p]) : m.type = "LOCATE_REQUEST" => Source(p, m.fn)
    /\ \A m \in Messages(toProcess[p]) :
         m.type = "LOCATE_SUCCESS" => \E g \in Function : Source(p, g) /\ Known(g, m.at)

\* Where a call is sent, and which are refused.
Located(c) == at[c] # None => Known(fn[c], at[c]) \/ Crossing(c)
AllLocated == \A c \in Call : Located(c)
Refused ==
  \A c \in Call :
    worker[c] = "refused" \/ answer[c] = "refused" => binder = "gone" \/ Crossing(c)

Lines ==
  /\ binder = "up" => ServerLines
  /\ binder # "gone" => Bound /\ ClientLines /\ Sources /\ AllLocated

Inv ==
  /\ BinderTypes /\ ProcessTypes /\ Flags /\ NetTypes /\ CallTypes /\ WorkerTypes
  /\ Mains /\ Calls /\ OneCall /\ Stages /\ Registrants /\ Lines /\ Refused

-----------------------------------------------------------------------------
(* Sequences and messages.                                                 *)

LEMMA Appending ==
  ASSUME NEW S, NEW s \in Seq(S), NEW e \in S
  PROVE  /\ Append(s, e) \in Seq(S) /\ Append(s, e) # <<>>
         /\ Len(s) \in Nat /\ Len(Append(s, e)) = Len(s) + 1
         /\ \A i \in 1 .. Len(s) : Append(s, e)[i] = s[i]
         /\ Append(s, e)[Len(s) + 1] = e
         /\ s = <<>> => Append(s, e) = <<e>>
         /\ s # <<>> => Head(Append(s, e)) = Head(s)
<1>1. s = <<>> => Append(s, e) = <<e>>
  <2>1. Append(<<>>, e) = <<e>>
    OBVIOUS
  <2>. QED
    BY <2>1
<1>2. /\ Append(s, e) \in Seq(S) /\ Append(s, e) # <<>>
      /\ Len(s) \in Nat /\ Len(Append(s, e)) = Len(s) + 1
      /\ \A i \in 1 .. Len(s) : Append(s, e)[i] = s[i]
      /\ Append(s, e)[Len(s) + 1] = e
  OBVIOUS
<1>3. s # <<>> => Head(Append(s, e)) = Head(s)
  OBVIOUS
<1>. QED
  BY <1>1, <1>2, <1>3

LEMMA TakingTheHead ==
  ASSUME NEW S, NEW s \in Seq(S), s # <<>>
  PROVE  /\ Head(s) \in S /\ Head(s) = s[1] /\ 1 \in 1 .. Len(s)
         /\ Tail(s) \in Seq(S) /\ Len(s) \in Nat
         /\ \A i \in 1 .. Len(Tail(s)) : Tail(s)[i] = s[i + 1] /\ i + 1 \in 1 .. Len(s)
OBVIOUS

LEMMA Single ==
  ASSUME NEW e
  PROVE  /\ <<e>> # <<>> /\ Head(<<e>>) = e /\ Tail(<<e>>) = <<>>
         /\ 1 .. Len(<<>>) = {}
OBVIOUS

LEMMA MessagesOf ==
  ASSUME NEW S, NEW s \in Seq(S)
  PROVE  /\ Messages(s) \subseteq S
         /\ \A e \in S : Messages(Append(s, e)) = Messages(s) \cup {e}
         /\ s # <<>> => Head(s) \in Messages(s) /\ Messages(Tail(s)) \subseteq Messages(s)
<1>1. Messages(s) \subseteq S
  BY DEF Messages
<1>2. ASSUME NEW e \in S
      PROVE  Messages(Append(s, e)) = Messages(s) \cup {e}
  <2>1. Messages(Append(s, e)) \subseteq Messages(s) \cup {e}
    <3> SUFFICES ASSUME NEW i \in 1 .. Len(Append(s, e))
                 PROVE  Append(s, e)[i] \in Messages(s) \cup {e}
      BY DEF Messages
    <3>1. i \in 1 .. Len(s) \/ i = Len(s) + 1
      BY Appending
    <3>. QED
      BY <3>1, Appending DEF Messages
  <2>2. \A i \in 1 .. Len(s) : s[i] = Append(s, e)[i] /\ i \in 1 .. Len(Append(s, e))
    BY Appending
  <2>3. e = Append(s, e)[Len(s) + 1] /\ Len(s) + 1 \in 1 .. Len(Append(s, e))
    BY Appending
  <2>. QED
    BY <2>1, <2>2, <2>3 DEF Messages
<1>3. s # <<>> => Head(s) \in Messages(s) /\ Messages(Tail(s)) \subseteq Messages(s)
  BY TakingTheHead DEF Messages
<1>. QED
  BY <1>1, <1>2, <1>3

LEMMA NoMessage == Messages(<<>>) = {}
BY Single DEF Messages

LEMMA MessageTypes ==
  /\ \A m \in Message :
       /\ m.type \in {"REGISTER", "LOCATE_REQUEST"} => m.fn \in Function
       /\ m.type = "LOCATE_SUCCESS" => m.at \in Server
  /\ \A f \in Function :
       /\ Register(f) \in Message /\ Register(f).type = "REGISTER" /\ Register(f).fn = f
       /\ LocateRequest(f) \in Message /\ LocateRequest(f).type = "LOCATE_REQUEST"
       /\ LocateRequest(f).fn = f
  /\ \A s \in Server : /\ LocateSuccess(s) \in Message
                        /\ LocateSuccess(s).type = "LOCATE_SUCCESS"
                        /\ LocateSuccess(s).at = s
  /\ \A t \in {"REGISTER_SUCCESS", "LOCATE_FAILURE", "TERMINATE",
                "TERMINATE_SUCCESS", "TERMINATED"} :
       Plain(t) \in Message /\ Plain(t).type = t
<1>1. ASSUME NEW m \in Message
      PROVE  /\ m.type \in {"REGISTER", "LOCATE_REQUEST"} => m.fn \in Function
             /\ m.type = "LOCATE_SUCCESS" => m.at \in Server
  <2>1. CASE \E f \in Function : m = Register(f) \/ m = LocateRequest(f)
    BY <2>1 DEF Register, LocateRequest
  <2>2. CASE \E s \in Server : m = LocateSuccess(s)
    BY <2>2 DEF LocateSuccess
  <2>3. CASE \E t \in {"REGISTER_SUCCESS", "LOCATE_FAILURE", "TERMINATE",
                     "TERMINATE_SUCCESS", "TERMINATED"} : m = Plain(t)
    BY <2>3 DEF Plain
  <2>. QED
    BY <2>1, <2>2, <2>3 DEF Message
<1>2. \A f \in Function :
        /\ Register(f) \in Message /\ Register(f).type = "REGISTER" /\ Register(f).fn = f
        /\ LocateRequest(f) \in Message /\ LocateRequest(f).type = "LOCATE_REQUEST"
        /\ LocateRequest(f).fn = f
  BY DEF Message, Register, LocateRequest
<1>3. \A s \in Server : /\ LocateSuccess(s) \in Message
                        /\ LocateSuccess(s).type = "LOCATE_SUCCESS"
                        /\ LocateSuccess(s).at = s
  BY DEF Message, LocateSuccess
<1>4. \A t \in {"REGISTER_SUCCESS", "LOCATE_FAILURE", "TERMINATE",
                "TERMINATE_SUCCESS", "TERMINATED"} :
        Plain(t) \in Message /\ Plain(t).type = t
  BY DEF Message, Plain
<1>. QED
  BY <1>1, <1>2, <1>3, <1>4

-----------------------------------------------------------------------------
(* What the steps do.                                                      *)

\* Process p ends, and leaves the connections of the others alone.
Ends(p) ==
  /\ End(p)
  /\ \A q \in Process \ {p} : conn'[q] = conn[q]
  /\ toBinder' = toBinder

LEMMA EndEffect ==
  ASSUME ProcessTypes, NetTypes, CallTypes, WorkerTypes, NEW p \in Process, End(p)
  PROVE  /\ proc'[p] = "gone" /\ toProcess'[p] = <<>>
         /\ \A q \in Process \ {p} : proc'[q] = proc[q] /\ toProcess'[q] = toProcess[q]
         /\ \A c \in Call : worker'[c] = IF at[c] = p THEN "gone" ELSE worker[c]
         /\ \A c \in Call :
              IF caller[c] = p /\ Calling(c) THEN pc'[c] = "done" /\ result'[c] = "killed"
              ELSE pc'[c] = pc[c] /\ result'[c] = result[c]
         /\ UNCHANGED <<binderVars, localServer, database, pending, listening,
                        caller, within, fn, at, runs, answer>>
BY DEF End, ProcessTypes, NetTypes, CallTypes, WorkerTypes

LEMMA SentEffect ==
  ASSUME NetTypes, NEW p \in Process, NEW c, NEW m \in Message, Sent(p, c, m)
  PROVE  /\ toBinder' \in [Process -> Seq(Message)]
         /\ \A q \in Process \ {p} : toBinder'[q] = toBinder[q]
         /\ toBinder'[p] = IF c = "open" THEN Append(toBinder[p], m) ELSE toBinder[p]
BY Appending DEF Sent, NetTypes

LEMMA AnsweredEffect ==
  ASSUME NetTypes, NEW p \in Process, NEW m \in Message, Answered(p, m)
  PROVE  /\ toProcess' \in [Process -> Seq(Message)]
         /\ \A q \in Process \ {p} : toProcess'[q] = toProcess[q]
         /\ toProcess'[p] = IF Gone(p) THEN toProcess[p] ELSE Append(toProcess[p], m)
BY Appending DEF Answered, NetTypes

LEMMA ReceivedEffect ==
  ASSUME NetTypes, NEW p \in Process, Readable(p), Received(p)
  PROVE  /\ toProcess' \in [Process -> Seq(Message)]
         /\ \A q \in Process \ {p} : toProcess'[q] = toProcess[q]
         /\ toProcess'[p] = Tail(toProcess[p])
BY TakingTheHead DEF Received, Readable, NetTypes

LEMMA ReceivesEffect ==
  ASSUME NetTypes, NEW p \in Process, NEW t, BinderReceives(p, t)
  PROVE  /\ toBinder' \in [Process -> Seq(Message)]
         /\ \A q \in Process \ {p} : toBinder'[q] = toBinder[q]
         /\ toBinder[p] # <<>> /\ Head(toBinder[p]).type = t
         /\ toBinder'[p] = Tail(toBinder[p])
         /\ Head(toBinder[p]) \in Message
BY TakingTheHead DEF BinderReceives, NetTypes

LEMMA LazyEffect ==
  ASSUME NetTypes, NEW p \in Process, NEW c, LazyConnection(p, c)
  PROVE  /\ conn' \in [Process -> {"none", "open", "lost"}]
         /\ \A q \in Process \ {p} : conn'[q] = conn[q]
         /\ conn'[p] = c /\ c \in {"none", "open", "lost"}
         /\ c = "lost" => conn[p] = "lost"
         /\ c = "none" => conn[p] = "none"
BY DEF LazyConnection, Connects, ConnectFails, NetTypes

LEMMA CallEffect ==
  ASSUME CallTypes, NEW c \in Call, NEW p \in Process, NEW f \in Function, NEW d,
         RpcCall(c, p, f, d)
  PROVE  /\ pc[c] = "idle"
         /\ caller'[c] = p /\ within'[c] = d /\ fn'[c] = f
         /\ \/ pc'[c] = "done" /\ result'[c] = "BINDER_CONNECTION_ERROR"
            \/ pc'[c] = "locating" /\ result'[c] = result[c]
         /\ \A e \in Call \ {c} :
              /\ caller'[e] = caller[e] /\ within'[e] = within[e] /\ fn'[e] = fn[e]
              /\ pc'[e] = pc[e] /\ result'[e] = result[e]
         /\ UNCHANGED <<binderVars, processVars, workerVars, at, toProcess>>
BY DEF RpcCall, CallTypes, callFrame

\* A step is one of the binder, ...
BinderMoves ==
  \/ \E p \in Process : BinderStep(p)
  \/ \E s \in Server : BinderAsks(s)
  \/ BinderHears \/ BinderExits \/ BinderCrashes

\* ... or of a main that goes on, ...
Executes(s) ==
  /\ proc[s] = "ready"
  /\ \E c \in {"open", "lost"} : LazyConnection(s, c)
  /\ proc' = [proc EXCEPT ![s] = "serving"]
  /\ listening' = [listening EXCEPT ![s] = TRUE]
  /\ UNCHANGED <<mainFrame, localServer, database, pending, toProcess, toBinder>>

ServerMoves(s) ==
  \/ RpcInit(s) \/ (\E f \in Function : RpcRegister(s, f)) \/ RpcRegisterReturns(s)
  \/ Executes(s) \/ BinderListens(s) \/ LeaveLoop(s) \/ ServeReturns(s)

Terminates(p) ==
  /\ proc[p] = "idle" /\ NoCallOf(p)
  /\ \E c \in {"open", "lost"} : LazyConnection(p, c) /\ Sent(p, c, Plain("TERMINATE"))
  /\ proc' = [proc EXCEPT ![p] = "terminating"]
  /\ UNCHANGED <<mainFrame, localServer, database, pending, listening, toProcess>>

\* ... or one of a thread that calls or serves.
Begins(c) ==
  \E f \in Function :
    \/ \E p \in Client : ClientCalls(c, p, f)
    \/ \E d \in Call : SkeletonCalls(c, d, f)

LEMMA Ending ==
  ASSUME NetTypes, NEW p \in Process
  PROVE  /\ Crash(p) => Ends(p)
         /\ p \in Server /\ RpcExecuteReturns(p) => Ends(p)
         /\ p \in Server /\ RpcExecute(p) => Executes(p) \/ Ends(p)
         /\ p \in Client /\ ClientReturns(p) => Ends(p)
         /\ p \in Client /\ RpcTerminate(p) => Terminates(p) \/ Ends(p)
<1>2. Crash(p) => Ends(p)
  BY DEF Crash, Ends
<1>3. ClientReturns(p) => Ends(p)
  BY DEF ClientReturns, Ends
<1>4. RpcExecuteReturns(p) => Ends(p)
  BY DEF RpcExecuteReturns, Ends
<1>5. RpcExecute(p) => Executes(p) \/ Ends(p)
  BY LazyEffect DEF RpcExecute, Executes, Ends
<1>6. RpcTerminate(p) => Terminates(p) \/ Ends(p)
  BY LazyEffect DEF RpcTerminate, Terminates, Ends, Sent
<1>. QED
  BY <1>2, <1>3, <1>4, <1>5, <1>6

\* What the main of a server sends to the binder.
LEMMA Sends ==
  ASSUME NetTypes, NEW s \in Server, ServerMoves(s)
  PROVE  /\ \A q \in Process \ {s} : toBinder'[q] = toBinder[q]
         /\ \/ toBinder'[s] = toBinder[s]
            \/ \E m \in Message : /\ m.type \in {"REGISTER", "TERMINATE_SUCCESS"}
                                  /\ ServeReturns(s) => m.type = "TERMINATE_SUCCESS"
                                  /\ toBinder'[s] = Append(toBinder[s], m)
<1>0. s \in Process
  BY DEF Process
<1>1. ASSUME NEW m \in Message, NEW c, Sent(s, c, m)
      PROVE  /\ \A q \in Process \ {s} : toBinder'[q] = toBinder[q]
             /\ toBinder'[s] = toBinder[s] \/ toBinder'[s] = Append(toBinder[s], m)
  BY <1>0, <1>1, SentEffect
<1>2. CASE \E f \in Function : RpcRegister(s, f)
  <2>1. PICK f \in Function : RpcRegister(s, f)
    BY <1>2
  <2>2. Register(f) \in Message /\ Register(f).type = "REGISTER"
    BY MessageTypes
  <2>3. Sent(s, conn[s], Register(f)) /\ ~ServeReturns(s)
    BY <2>1 DEF RpcRegister, ServeReturns
  <2>. QED
    BY <1>1, <2>2, <2>3
<1>3. CASE ServeReturns(s)
  <2>1. /\ Plain("TERMINATE_SUCCESS") \in Message
        /\ Plain("TERMINATE_SUCCESS").type = "TERMINATE_SUCCESS"
    BY MessageTypes
  <2>2. Sent(s, conn[s], Plain("TERMINATE_SUCCESS"))
    BY <1>3 DEF ServeReturns
  <2>. QED
    BY <1>1, <2>1, <2>2
<1>4. CASE toBinder' = toBinder
  BY <1>4
<1>. QED
  BY <1>2, <1>3, <1>4
     DEF ServerMoves, RpcInit, RpcRegisterReturns, Executes, BinderListens, LeaveLoop, netVars

LEMMA Steps ==
  ASSUME NetTypes, [Next]_vars
  PROVE  \/ BinderMoves
         \/ \E s \in Server : ServerMoves(s)
         \/ \E p \in Client : Terminates(p)
         \/ \E p \in Process : Ends(p)
         \/ \E c \in Call : Begins(c) \/ CallStep(c) \/ WorkerStep(c)
         \/ UNCHANGED vars
<1>1. Server \subseteq Process /\ Client \subseteq Process
  BY DEF Process
<1>2. CASE \E p \in Process : Crash(p)
  BY <1>2, Ending
<1>3. CASE \E s \in Server : ServerMain(s) \/ RpcExecute(s) \/ BinderListens(s)
  BY <1>1, <1>3, Ending DEF ServerMain, ServerMoves
<1>4. CASE \E s \in Server, f \in Function : RpcRegister(s, f)
  BY <1>4 DEF ServerMoves
<1>5. CASE \E p \in Client : RpcTerminate(p) \/ ClientReturns(p)
  BY <1>1, <1>5, Ending
<1>6. CASE \E c \in Call, f \in Function :
             \/ \E p \in Client : ClientCalls(c, p, f)
             \/ \E d \in Call : SkeletonCalls(c, d, f)
  BY <1>6 DEF Begins
<1>7. CASE BinderMoves \/ (\E c \in Call : CallStep(c) \/ WorkerStep(c)) \/ UNCHANGED vars
  BY <1>7
<1>. QED
  BY <1>2, <1>3, <1>4, <1>5, <1>6, <1>7 DEF Next, BinderMoves

LEMMA BinderFrame ==
  ASSUME BinderMoves
  PROVE  /\ UNCHANGED <<processVars, callVars, workerVars>>
         /\ binder = "gone" => binder' = "gone"
BY DEF BinderMoves, BinderStep, BinderRegisters, BinderLocates, BinderForgets,
       BinderTerminates, BinderAsks, BinderHears, BinderExits, BinderCrashes,
       BinderReceives, Vanish, binderFrame, binderVars

LEMMA WorkerFrame ==
  ASSUME NEW c \in Call, WorkerStep(c)
  PROVE  UNCHANGED workerFrame
BY DEF WorkerStep, Accept, HandleExecute, Answer, HangUp

-----------------------------------------------------------------------------
(* Types.                                                                  *)

LEMMA FaultsStep ==
  ASSUME Next
  PROVE  faults' = faults \/ Fault
<1>1. CASE BinderMoves
  BY <1>1 DEF BinderMoves, BinderStep, BinderRegisters, BinderLocates, BinderForgets,
     BinderTerminates, BinderAsks, BinderHears, BinderExits, BinderCrashes,
     BinderReceives, binderFrame
<1>2. CASE \E p \in Process : Crash(p)
  BY <1>2 DEF Crash
<1>3. CASE \E s \in Server : ServerMain(s) \/ RpcExecute(s) \/ BinderListens(s)
  BY <1>3 DEF ServerMain, RpcInit, RpcRegisterReturns, LeaveLoop, ServeReturns, RpcExecuteReturns,
     RpcExecute, BinderListens, LazyConnection, ConnectFails
<1>4. CASE \E s \in Server, f \in Function : RpcRegister(s, f)
  BY <1>4 DEF RpcRegister
<1>5. CASE \E c \in Call, f \in Function :
             \/ \E p \in Client : ClientCalls(c, p, f)
             \/ \E d \in Call : SkeletonCalls(c, d, f)
  BY <1>5 DEF ClientCalls, SkeletonCalls, RpcCall, LazyConnection, ConnectFails
<1>6. CASE \E c \in Call : CallStep(c) \/ WorkerStep(c)
  BY <1>6, WorkerFrame DEF CallStep, RpcCallLocates, RpcCallReturns, workerFrame
<1>7. CASE \E p \in Client : RpcTerminate(p) \/ ClientReturns(p)
  BY <1>7 DEF RpcTerminate, ClientReturns, LazyConnection, ConnectFails
<1>. QED
  BY <1>1, <1>2, <1>3, <1>4, <1>5, <1>6, <1>7 DEF Next, BinderMoves

\* What the steps of the processes and the calls leave alone.
LEMMA MainFrame ==
  /\ \A s \in Server : ServerMoves(s) => UNCHANGED <<binderVars, callVars, workerVars>>
  /\ \A p \in Client : Terminates(p) => UNCHANGED <<binderVars, callVars, workerVars>>
BY DEF ServerMoves, RpcInit, RpcRegister, RpcRegisterReturns, Executes, BinderListens,
       LeaveLoop, ServeReturns, Terminates, mainFrame

LEMMA CallFrame ==
  /\ \A c \in Call : Begins(c) => UNCHANGED <<binderVars, processVars, workerVars, at, toProcess>>
  /\ \A c \in Call : CallStep(c) =>
       UNCHANGED <<binderVars, processVars, workerVars, caller, within, fn, conn, toBinder>>
BY DEF Begins, ClientCalls, SkeletonCalls, RpcCall, CallStep, RpcCallLocates,
       RpcCallReturns, callFrame, netVars

LEMMA BinderTyped ==
  ASSUME BinderTypes, ProcessTypes, NetTypes, CallTypes, Mains, Registrants, [Next]_vars
  PROVE  BinderTypes'
<1>1. faults' \in 0 .. MaxFaults
  <2>1. faults \in 0 .. MaxFaults /\ MaxFaults \in Nat
    BY RpcApiAssumption DEF BinderTypes
  <2>2. faults' = faults \/ (faults < MaxFaults /\ faults' = faults + 1)
    BY FaultsStep DEF vars, Fault
  <2>. QED
    BY <2>1, <2>2
<1>2. CASE UNCHANGED binderVars
  BY <1>1, <1>2 DEF BinderTypes, binderVars
<1>3. CASE \E p \in Process : BinderRegisters(p)
  <2>1. PICK p \in Process : BinderRegisters(p)
    BY <1>3
  <2>2. /\ Head(toBinder[p]) \in Message /\ Head(toBinder[p]).type = "REGISTER"
        /\ Head(toBinder[p]) \in Messages(toBinder[p])
    BY <2>1, ReceivesEffect, TakingTheHead, MessagesOf DEF BinderRegisters, NetTypes
  <2>3. p \in Server /\ Head(toBinder[p]).fn \in Function
    BY <2>2, MessageTypes DEF Process, Registrants
  <2>. QED
    BY <1>1, <2>1, <2>3 DEF BinderTypes, BinderRegisters
<1>4. CASE \E p \in Process : BinderLocates(p) \/ BinderForgets(p)
  BY <1>1, <1>4 DEF BinderTypes, BinderLocates, BinderForgets, binderVars
<1>5. CASE \E p \in Process : BinderTerminates(p)
  <2>1. {b[2] : b \in bound} \subseteq Server
    BY DEF BinderTypes
  <2>. QED
    BY <1>1, <1>5, <2>1 DEF BinderTypes, BinderTerminates
<1>6. CASE (\E s \in Server : BinderAsks(s)) \/ BinderHears
  BY <1>1, <1>6 DEF BinderTypes, BinderAsks, BinderHears
<1>7. CASE BinderExits \/ BinderCrashes
  BY <1>1, <1>7 DEF BinderTypes, BinderExits, BinderCrashes, Vanish
<1>8. CASE BinderMoves
  BY <1>3, <1>4, <1>5, <1>6, <1>7, <1>8 DEF BinderMoves, BinderStep
<1>9. CASE ~BinderMoves
  <2>1. \A p \in Process : Ends(p) => UNCHANGED binderVars
    BY DEF Ends, End
  <2>2. \A c \in Call : WorkerStep(c) => UNCHANGED binderVars
    BY WorkerFrame DEF workerFrame
  <2>. QED
    BY <1>2, <1>9, <2>1, <2>2, Steps, MainFrame, CallFrame DEF vars
<1>. QED
  BY <1>8, <1>9

LEMMA ProcessTyped ==
  ASSUME ProcessTypes, NetTypes, CallTypes, WorkerTypes, Mains, [Next]_vars
  PROVE  ProcessTypes'
<1>0. Server \subseteq Process /\ Client \subseteq Process
  BY DEF Process
<1>1. CASE UNCHANGED <<proc, database, pending>>
  BY <1>1 DEF ProcessTypes
<1>2. ASSUME NEW s \in Server, ServerMoves(s)
      PROVE  ProcessTypes'
  <2>1. CASE RpcInit(s) \/ Executes(s) \/ BinderListens(s) \/ LeaveLoop(s) \/ ServeReturns(s)
    BY <1>0, <2>1 DEF ProcessTypes, RpcInit, Executes, BinderListens, LeaveLoop, ServeReturns
  <2>2. CASE \E f \in Function : RpcRegister(s, f)
    BY <1>0, <2>2 DEF ProcessTypes, RpcRegister
  <2>3. CASE RpcRegisterReturns(s)
    <3>1. pending[s] \in Function
      BY <2>3 DEF Mains, RpcRegisterReturns
    <3>. QED
      BY <1>0, <2>3, <3>1 DEF ProcessTypes, RpcRegisterReturns
  <2>. QED
    BY <1>2, <2>1, <2>2, <2>3 DEF ServerMoves
<1>3. ASSUME NEW p \in Client, Terminates(p)
      PROVE  ProcessTypes'
  BY <1>0, <1>3 DEF ProcessTypes, Terminates
<1>4. ASSUME NEW p \in Process, Ends(p)
      PROVE  ProcessTypes'
  BY <1>4 DEF ProcessTypes, Ends, End
<1>5. BinderMoves => UNCHANGED <<proc, database, pending>>
  BY BinderFrame DEF processVars
<1>6. \A c \in Call : Begins(c) \/ CallStep(c) \/ WorkerStep(c)
        => UNCHANGED <<proc, database, pending>>
  BY CallFrame, WorkerFrame DEF workerFrame, processVars
<1>. QED
  BY <1>1, <1>2, <1>3, <1>4, <1>5, <1>6, Steps DEF vars, processVars

LEMMA FlagsTyped ==
  ASSUME Flags, NetTypes, [Next]_vars
  PROVE  Flags'
<1>1. CASE UNCHANGED <<localServer, listening>>
  BY <1>1 DEF Flags
<1>2. ASSUME NEW s \in Server, ServerMoves(s)
      PROVE  Flags'
  <2>1. CASE RpcInit(s) \/ Executes(s)
    BY <2>1 DEF Flags, RpcInit, Executes
  <2>2. CASE BinderListens(s)
    <3>1. (Readable(s) /\ ~Is(s, "TERMINATE")) \in BOOLEAN
      OBVIOUS
    <3>. QED
      BY <2>2, <3>1 DEF Flags, BinderListens
  <2>3. CASE (\E f \in Function : RpcRegister(s, f)) \/ RpcRegisterReturns(s) \/ LeaveLoop(s)
           \/ ServeReturns(s)
    BY <1>1, <2>3 DEF RpcRegister, RpcRegisterReturns, LeaveLoop, ServeReturns
  <2>. QED
    BY <1>2, <2>1, <2>2, <2>3 DEF ServerMoves
<1>3. \A p \in Process : Ends(p) => UNCHANGED <<localServer, listening>>
  BY DEF Ends, End
<1>4. \A p \in Client : Terminates(p) => UNCHANGED <<localServer, listening>>
  BY DEF Terminates
<1>5. BinderMoves => UNCHANGED <<localServer, listening>>
  BY BinderFrame DEF processVars
<1>6. \A c \in Call : Begins(c) \/ CallStep(c) \/ WorkerStep(c)
        => UNCHANGED <<localServer, listening>>
  BY CallFrame, WorkerFrame DEF workerFrame, processVars
<1>. QED
  BY <1>1, <1>2, <1>3, <1>4, <1>5, <1>6, Steps DEF vars, processVars

LEMMA BinderNet ==
  ASSUME BinderTypes, NetTypes, Mains, BinderMoves
  PROVE  NetTypes'
<1>0. /\ \A t \in {"REGISTER_SUCCESS", "LOCATE_FAILURE", "TERMINATE",
                   "TERMINATE_SUCCESS", "TERMINATED"} : Plain(t) \in Message
      /\ \A s \in Server : LocateSuccess(s) \in Message
  BY MessageTypes
<1>1. ASSUME NEW p \in Process, BinderRegisters(p) \/ BinderLocates(p)
      PROVE  NetTypes'
  <2>1. toBinder' \in [Process -> Seq(Message)] /\ conn' = conn
    BY <1>1, ReceivesEffect DEF BinderRegisters, BinderLocates, BinderReceives
  <2>2. \E m \in Message : Answered(p, m)
    BY <1>0, <1>1 DEF BinderRegisters, BinderLocates, Found
  <2>. QED
    BY <2>1, <2>2, AnsweredEffect DEF NetTypes
<1>2. ASSUME NEW p \in Process, BinderForgets(p)
      PROVE  NetTypes'
  BY <1>2 DEF BinderForgets, NetTypes
<1>3. ASSUME NEW p \in Process, BinderTerminates(p)
      PROVE  NetTypes'
  <2>1. toBinder' \in [Process -> Seq(Message)] /\ conn' = conn /\ toProcess' = toProcess
    BY <1>3, ReceivesEffect DEF BinderTerminates, BinderReceives
  <2>. QED
    BY <2>1 DEF NetTypes
<1>4. ASSUME NEW s \in Server, BinderAsks(s)
      PROVE  NetTypes'
  <2>1. s \in Process
    BY DEF Process
  <2>. QED
    BY <1>0, <1>4, <2>1, AnsweredEffect DEF BinderAsks, NetTypes
<1>5. CASE BinderHears
  <2>1. asked \in Process
    BY <1>5 DEF BinderHears, BinderTypes, Process
  <2>2. toBinder[asked] \in Seq(Message)
    BY <2>1 DEF NetTypes
  <2>3. toBinder[asked] # <<>> => Tail(toBinder[asked]) \in Seq(Message)
    BY <2>2, TakingTheHead
  <2>. QED
    BY <1>5, <2>1, <2>3 DEF BinderHears, NetTypes
<1>6. \A p \in Process : <<>> \in Seq(Message)
  OBVIOUS
<1>7. CASE BinderExits
  <2>1. toProcess' \in [Process -> Seq(Message)]
    BY <1>0, <1>7, AnsweredEffect DEF BinderExits, Mains
  <2>. QED
    BY <1>6, <1>7, <2>1 DEF BinderExits, Vanish, NetTypes
<1>8. CASE BinderCrashes
  <2>1. toProcess' \in [Process -> Seq(Message)]
    BY <1>6, <1>8 DEF BinderCrashes, NetTypes
  <2>. QED
    BY <1>6, <1>8, <2>1 DEF BinderCrashes, Vanish, NetTypes
<1>. QED
  BY <1>1, <1>2, <1>3, <1>4, <1>5, <1>7, <1>8 DEF BinderMoves, BinderStep

LEMMA NetTyped ==
  ASSUME BinderTypes, ProcessTypes, NetTypes, CallTypes, WorkerTypes, Mains, Calls,
         [Next]_vars
  PROVE  NetTypes'
<1>0. Server \subseteq Process /\ Client \subseteq Process
  BY DEF Process
<1>1. ASSUME NEW s \in Server, ServerMoves(s)
      PROVE  NetTypes'
  <2>1. CASE RpcInit(s)
    BY <1>0, <2>1 DEF NetTypes, RpcInit, Connects, ConnectFails
  <2>2. CASE \E f \in Function : RpcRegister(s, f)
    BY <1>0, <2>2, SentEffect, MessageTypes DEF NetTypes, RpcRegister
  <2>3. CASE RpcRegisterReturns(s) \/ BinderListens(s)
    BY <1>0, <2>3, ReceivedEffect DEF NetTypes, RpcRegisterReturns, BinderListens
  <2>4. CASE Executes(s)
    BY <1>0, <2>4, LazyEffect DEF NetTypes, Executes
  <2>5. CASE LeaveLoop(s)
    BY <2>5 DEF NetTypes, LeaveLoop, netVars
  <2>6. CASE ServeReturns(s)
    BY <1>0, <2>6, SentEffect, MessageTypes DEF NetTypes, ServeReturns
  <2>. QED
    BY <1>1, <2>1, <2>2, <2>3, <2>4, <2>5, <2>6 DEF ServerMoves
<1>2. ASSUME NEW p \in Client, Terminates(p)
      PROVE  NetTypes'
  BY <1>0, <1>2, LazyEffect, SentEffect, MessageTypes DEF NetTypes, Terminates
<1>3. ASSUME NEW p \in Process, Crash(p)
      PROVE  NetTypes'
  BY <1>3 DEF NetTypes, Crash, End
<1>4. ASSUME NEW s \in Server, RpcExecuteReturns(s)
      PROVE  NetTypes'
  BY <1>0, <1>4 DEF NetTypes, RpcExecuteReturns, End
<1>5. ASSUME NEW s \in Server, RpcExecute(s)
      PROVE  NetTypes' \/ Executes(s)
  <2>1. Executes(s) \/ End(s)
    BY <1>0, <1>5, Ending DEF Ends
  <2>2. conn' \in [Process -> {"none", "open", "lost"}] /\ toBinder' = toBinder
    BY <1>0, <1>5, LazyEffect DEF RpcExecute
  <2>3. End(s) => toProcess' \in [Process -> Seq(Message)]
    BY <1>0 DEF NetTypes, End
  <2>. QED
    BY <2>1, <2>2, <2>3 DEF NetTypes
<1>6. ASSUME NEW p \in Client, RpcTerminate(p)
      PROVE  NetTypes' \/ Terminates(p)
  <2>1. Terminates(p) \/ End(p)
    BY <1>0, <1>6, Ending DEF Ends
  <2>2. /\ conn' \in [Process -> {"none", "open", "lost"}]
        /\ toBinder' \in [Process -> Seq(Message)]
    BY <1>0, <1>6, LazyEffect, SentEffect, MessageTypes DEF RpcTerminate
  <2>3. End(p) => toProcess' \in [Process -> Seq(Message)]
    BY <1>0 DEF NetTypes, End
  <2>. QED
    BY <2>1, <2>2, <2>3 DEF NetTypes
<1>7. ASSUME NEW p \in Client, ClientReturns(p)
      PROVE  NetTypes'
  BY <1>0, <1>7 DEF NetTypes, ClientReturns, End
<1>8. ASSUME NEW c \in Call, NEW p \in Process, NEW f \in Function, NEW d, RpcCall(c, p, f, d)
      PROVE  NetTypes'
  BY <1>8, LazyEffect, SentEffect, MessageTypes DEF NetTypes, RpcCall
<1>9. ASSUME NEW c \in Call, Begins(c)
      PROVE  NetTypes'
  <2>1. \A d \in Call : worker[d] = "running" => at[d] \in Server
    BY DEF Calls, CallOK, CallTypes
  <2>. QED
    BY <1>0, <1>8, <1>9, <2>1 DEF Begins, ClientCalls, SkeletonCalls
<1>10. ASSUME NEW c \in Call, CallStep(c)
       PROVE  NetTypes'
  <2>1. CASE RpcCallLocates(c)
    <3>1. caller[c] \in Process
      BY <2>1 DEF RpcCallLocates, Calls, CallOK
    <3>2. toProcess' = toProcess \/ (Readable(caller[c]) /\ Received(caller[c]))
      BY <2>1 DEF RpcCallLocates, Is
    <3>. QED
      BY <2>1, <3>1, <3>2, ReceivedEffect DEF NetTypes, RpcCallLocates
  <2>2. CASE RpcCallReturns(c)
    BY <2>2 DEF NetTypes, RpcCallReturns, netVars
  <2>. QED
    BY <1>10, <2>1, <2>2 DEF CallStep
<1>11. CASE UNCHANGED netVars
  BY <1>11 DEF NetTypes, netVars
<1>12. \A c \in Call : WorkerStep(c) => UNCHANGED netVars
  BY WorkerFrame DEF workerFrame
<1>13. CASE \E s \in Server : ServerMain(s) \/ RpcExecute(s) \/ BinderListens(s)
  BY <1>1, <1>4, <1>5, <1>13 DEF ServerMain, ServerMoves
<1>14. CASE \E s \in Server, f \in Function : RpcRegister(s, f)
  BY <1>1, <1>14 DEF ServerMoves
<1>15. CASE \E p \in Client : RpcTerminate(p) \/ ClientReturns(p)
  BY <1>2, <1>6, <1>7, <1>15
<1>16. CASE \E c \in Call, f \in Function :
             \/ \E p \in Client : ClientCalls(c, p, f)
             \/ \E d \in Call : SkeletonCalls(c, d, f)
  BY <1>9, <1>16 DEF Begins
<1>17. CASE BinderMoves \/ (\E p \in Process : Crash(p))
            \/ (\E c \in Call : CallStep(c) \/ WorkerStep(c)) \/ UNCHANGED vars
  BY <1>3, <1>10, <1>11, <1>12, <1>17, BinderNet DEF vars
<1>. QED
  BY <1>13, <1>14, <1>15, <1>16, <1>17 DEF Next, BinderMoves

LEMMA CallTyped ==
  ASSUME ProcessTypes, NetTypes, CallTypes, WorkerTypes, Calls, [Next]_vars
  PROVE  CallTypes'
<1>0. Server \subseteq Process /\ Client \subseteq Process
  BY DEF Process
<1>1. CASE UNCHANGED callVars
  BY <1>1 DEF CallTypes, callVars
<1>2. ASSUME NEW p \in Process, Ends(p)
      PROVE  CallTypes'
  BY <1>2 DEF CallTypes, Ends, End, Result
<1>3. ASSUME NEW c \in Call, NEW p \in Process, NEW f \in Function, NEW d \in Call \cup {None},
             RpcCall(c, p, f, d)
      PROVE  CallTypes'
  BY <1>3 DEF CallTypes, RpcCall, Result
<1>4. ASSUME NEW c \in Call, Begins(c)
      PROVE  CallTypes'
  <2>1. \A d \in Call : worker[d] = "running" => at[d] \in Server
    BY DEF Calls, CallOK, CallTypes
  <2>. QED
    BY <1>0, <1>3, <1>4, <2>1 DEF Begins, ClientCalls, SkeletonCalls
<1>5. ASSUME NEW c \in Call, RpcCallLocates(c)
      PROVE  CallTypes'
  <2>1. caller[c] \in Process
    BY <1>5 DEF RpcCallLocates, Calls, CallOK
  <2>2. Is(caller[c], "LOCATE_SUCCESS") => Head(toProcess[caller[c]]).at \in Server
    BY <2>1, TakingTheHead, MessageTypes DEF Is, Readable, NetTypes
  <2>. QED
    BY <1>5, <2>2 DEF RpcCallLocates, Returns, CallTypes, Result
<1>6. ASSUME NEW c \in Call, RpcCallReturns(c)
      PROVE  CallTypes'
  <2>1. answer[c] \in {None, "ran", "refused"}
    BY DEF WorkerTypes
  <2>. QED
    BY <1>6, <2>1 DEF RpcCallReturns, Returns, CallTypes, Result
<1>7. BinderMoves \/ (\E c \in Call : WorkerStep(c)) => UNCHANGED callVars
  BY BinderFrame, WorkerFrame DEF workerFrame
<1>. QED
  BY <1>1, <1>2, <1>4, <1>5, <1>6, <1>7, Steps, MainFrame DEF CallStep, vars

LEMMA WorkerTyped ==
  ASSUME ProcessTypes, NetTypes, CallTypes, WorkerTypes, [Next]_vars
  PROVE  WorkerTypes'
<1>1. CASE UNCHANGED workerVars
  BY <1>1 DEF WorkerTypes, workerVars
<1>2. ASSUME NEW p \in Process, Ends(p)
      PROVE  WorkerTypes'
  BY <1>2 DEF WorkerTypes, Ends, End
<1>3. ASSUME NEW c \in Call, WorkerStep(c)
      PROVE  WorkerTypes'
  BY <1>3 DEF WorkerTypes, WorkerStep, Accept, HandleExecute, Answer, HangUp
<1>. QED
  BY <1>1, <1>2, <1>3, Steps, MainFrame, CallFrame, BinderFrame DEF vars

-----------------------------------------------------------------------------
(* What main does.                                                         *)

LEMMA Disjoint ==
  /\ Process = Server \cup Client /\ Server \cap Client = {}
  /\ None \notin Process /\ None \notin Function /\ None \notin Call /\ None \notin Result
BY RpcApiAssumption DEF Process

LEMMA MainsStep ==
  ASSUME BinderTypes, ProcessTypes, NetTypes, CallTypes, WorkerTypes, Mains, Calls,
         [Next]_vars
  PROVE  Mains'
<1>0. Server \subseteq Process /\ Client \subseteq Process
  BY DEF Process
<1>1. ASSUME UNCHANGED <<proc, pending>>, binder = "gone" => binder' = "gone",
             binder' = "terminating" => asker' \in Process,
             \A p \in Process :
               conn'[p] # conn[p] =>
                 /\ conn'[p] # "none"
                 /\ conn'[p] = "lost" => binder' = "gone" \/ Gone(p)
      PROVE  Mains'
  BY <1>0, <1>1 DEF Mains, Gone
<1>2. ASSUME BinderMoves
      PROVE  Mains'
  <2>1. UNCHANGED <<proc, pending>> /\ (binder = "gone" => binder' = "gone")
    BY <1>2, BinderFrame DEF processVars
  <2>2. CASE \E p \in Process : BinderRegisters(p) \/ BinderLocates(p)
    <3>1. UNCHANGED <<conn, binder, asker>>
      BY <2>2 DEF BinderRegisters, BinderLocates, BinderReceives, binderVars
    <3>. QED
      BY <1>1, <2>1, <3>1 DEF Mains
  <2>3. CASE \E p \in Process : BinderForgets(p)
    <3>1. PICK p \in Process : BinderForgets(p)
      BY <2>3
    <3>2. /\ Gone(p) /\ conn'[p] = "lost" /\ UNCHANGED <<binder, asker>>
          /\ \A q \in Process \ {p} : conn'[q] = conn[q]
      BY <3>1 DEF BinderForgets, NetTypes
    <3>. QED
      BY <1>1, <2>1, <3>2 DEF Mains
  <2>4. CASE \E p \in Process : BinderTerminates(p)
    <3>1. conn' = conn /\ asker' \in Process
      BY <2>4 DEF BinderTerminates, BinderReceives
    <3>. QED
      BY <1>1, <2>1, <3>1
  <2>5. CASE (\E s \in Server : BinderAsks(s)) \/ BinderHears
    <3>1. UNCHANGED <<conn, binder, asker>>
      BY <2>5 DEF BinderAsks, BinderHears
    <3>. QED
      BY <1>1, <2>1, <3>1 DEF Mains
  <2>6. CASE BinderExits \/ BinderCrashes
    <3>1. binder' = "gone" /\ conn' = [p \in Process |-> IF conn[p] = "none" THEN "none" ELSE "lost"]
      BY <2>6 DEF BinderExits, BinderCrashes, Vanish
    <3>. QED
      BY <1>1, <2>1, <3>1
  <2>. QED
    BY <1>2, <2>2, <2>3, <2>4, <2>5, <2>6 DEF BinderMoves, BinderStep
<1>3. ASSUME NEW s \in Server, ServerMoves(s)
      PROVE  Mains'
  <2>1. /\ UNCHANGED <<binder, asker>>
        /\ \A q \in Process \ {s} : proc'[q] = proc[q] /\ conn'[q] = conn[q]
        /\ \A q \in Server \ {s} : pending'[q] = pending[q]
    BY <1>0, <1>3, LazyEffect DEF ServerMoves, RpcInit, RpcRegister, RpcRegisterReturns, Executes,
       BinderListens, LeaveLoop, ServeReturns, Connects, ConnectFails, mainFrame, binderVars, netVars,
       ProcessTypes, NetTypes
  <2>2. /\ proc'[s] \notin {"idle", "terminating", "gone"}
        /\ ~Gone(s)
        /\ proc'[s] = "registering" => pending'[s] \in Function /\ conn'[s] # "none"
        /\ conn'[s] = "lost" => conn[s] = "lost"
    <3>1. CASE RpcInit(s)
      BY <1>0, <3>1 DEF RpcInit, Connects, ConnectFails, Gone, ProcessTypes, NetTypes
    <3>2. CASE \E f \in Function : RpcRegister(s, f)
      BY <1>0, <3>2 DEF RpcRegister, Gone, ProcessTypes, NetTypes
    <3>3. CASE RpcRegisterReturns(s) \/ LeaveLoop(s)
           \/ ServeReturns(s)
      BY <1>0, <3>3 DEF RpcRegisterReturns, LeaveLoop, ServeReturns, netVars, Gone, ProcessTypes, NetTypes
    <3>4. CASE Executes(s)
      BY <1>0, <3>4, LazyEffect DEF Executes, Gone, ProcessTypes
    <3>5. CASE BinderListens(s)
      BY <1>0, <3>5 DEF BinderListens, Executing, Serving, Gone, ProcessTypes, NetTypes
    <3>. QED
      BY <1>3, <3>1, <3>2, <3>3, <3>4, <3>5 DEF ServerMoves
  <2>. QED
    BY <1>0, <2>1, <2>2, Disjoint DEF Mains, Gone
<1>4. ASSUME NEW p \in Client, Terminates(p)
      PROVE  Mains'
  <2>1. /\ UNCHANGED <<binder, asker, pending>> /\ ~Gone(p)
        /\ proc'[p] = "terminating"
        /\ \A q \in Process \ {p} : proc'[q] = proc[q] /\ conn'[q] = conn[q]
        /\ conn'[p] = "lost" => conn[p] = "lost"
    BY <1>0, <1>4, LazyEffect DEF Terminates, mainFrame, binderVars, Gone, ProcessTypes
  <2>. QED
    BY <1>0, <2>1, Disjoint DEF Mains, Gone
<1>5. ASSUME NEW p \in Process, Ends(p)
      PROVE  Mains'
  <2>1. /\ UNCHANGED <<binder, asker, pending>>
        /\ proc'[p] = "gone"
        /\ \A q \in Process \ {p} : proc'[q] = proc[q] /\ conn'[q] = conn[q]
    BY <1>5, EndEffect DEF Ends, binderVars
  <2>. QED
    BY <1>0, <2>1, Disjoint DEF Mains, Gone
<1>6. ASSUME NEW c \in Call, NEW p \in Process, NEW f \in Function, NEW d, RpcCall(c, p, f, d)
      PROVE  Mains'
  <2>1. PICK k \in {"none", "open", "lost"} : LazyConnection(p, k)
    BY <1>6 DEF RpcCall
  <2>2. UNCHANGED <<binder, asker, proc, pending>>
    BY <1>6 DEF RpcCall, callFrame, binderVars, processVars
  <2>3. /\ \A q \in Process \ {p} : conn'[q] = conn[q]
        /\ conn'[p] = "lost" => conn[p] = "lost"
        /\ conn'[p] = "none" => conn[p] = "none"
    BY <2>1, LazyEffect
  <2>. QED
    BY <1>1, <2>2, <2>3 DEF Mains
<1>7. ASSUME NEW c \in Call, Begins(c)
      PROVE  Mains'
  <2>1. \A d \in Call : worker[d] = "running" => at[d] \in Server
    BY DEF Calls, CallOK, CallTypes
  <2>. QED
    BY <1>0, <1>6, <1>7, <2>1 DEF Begins, ClientCalls, SkeletonCalls
<1>8. CASE UNCHANGED <<binder, asker, proc, pending, conn>>
  BY <1>1, <1>8 DEF Mains
<1>9. \A c \in Call : CallStep(c) \/ WorkerStep(c) => UNCHANGED <<binder, asker, proc, pending, conn>>
  BY CallFrame, WorkerFrame DEF workerFrame, processVars, binderVars, netVars
<1>. QED
  BY <1>2, <1>3, <1>4, <1>5, <1>7, <1>8, <1>9, Steps DEF vars, binderVars, processVars, netVars

-----------------------------------------------------------------------------
(* The calls.                                                              *)

LEMMA SameCall ==
  ASSUME NEW c, CallOK(c), caller'[c] = caller[c], within'[c] = within[c], fn'[c] = fn[c],
         pc'[c] = pc[c], at'[c] = at[c], result'[c] = result[c],
         worker'[c] = worker[c] \/ (worker'[c] = "gone" /\ at[c] # None),
         worker'[c] \notin {"none", "gone"} /\ Executing(at[c]) =>
           proc'[at[c]] \in {"serving", "leaving", "returned"},
         Calling(c) /\ caller[c] \in Server /\ Executing(caller[c]) =>
           proc'[caller[c]] \in {"serving", "leaving", "returned"},
         Calling(c) /\ caller[c] \in Client /\ proc[caller[c]] = "idle" => proc'[caller[c]] = "idle"
  PROVE  CallOK(c)'
BY DEF CallOK, Calling, Executing, Serving

LEMMA CallsStep ==
  ASSUME ProcessTypes, NetTypes, CallTypes, WorkerTypes, Mains, Calls, [Next]_vars
  PROVE  Calls'
<1> SUFFICES ASSUME NEW e \in Call PROVE CallOK(e)'
  BY DEF Calls
<1>0. CallOK(e) /\ Server \subseteq Process /\ Client \subseteq Process
  BY DEF Calls, Process
<1>1. ASSUME UNCHANGED <<callVars, workerVars>>,
             \A q \in Process : Executing(q) => proc'[q] \in {"serving", "leaving", "returned"},
             \A q \in Client : proc[q] = "idle" => proc'[q] = "idle" \/ NoCallOf(q)
      PROVE  CallOK(e)'
  <2>1. /\ caller'[e] = caller[e] /\ within'[e] = within[e] /\ fn'[e] = fn[e]
        /\ pc'[e] = pc[e] /\ at'[e] = at[e] /\ result'[e] = result[e] /\ worker'[e] = worker[e]
    BY <1>1 DEF callVars, workerVars
  <2>2. Executing(at[e]) /\ at[e] # None => proc'[at[e]] \in {"serving", "leaving", "returned"}
    BY <1>0, <1>1 DEF Executing, Serving, CallTypes
  <2>3. caller[e] \in Server /\ Executing(caller[e]) => proc'[caller[e]] \in {"serving", "leaving", "returned"}
    BY <1>0, <1>1 DEF Executing, Serving
  <2>4. Calling(e) /\ caller[e] \in Client /\ proc[caller[e]] = "idle" => proc'[caller[e]] = "idle"
    BY <1>1 DEF NoCallOf
  <2>. QED
    BY <1>0, <2>1, <2>2, <2>3, <2>4, SameCall DEF CallOK
<1>2. CASE BinderMoves
  BY <1>1, <1>2, BinderFrame DEF processVars, Executing, Serving
<1>3. ASSUME NEW s \in Server, ServerMoves(s)
      PROVE  CallOK(e)'
  <2>1. /\ \A q \in Process \ {s} : proc'[q] = proc[q]
        /\ Executing(s) => proc'[s] \in {"serving", "leaving", "returned"}
    BY <1>0, <1>3 DEF ServerMoves, RpcInit, RpcRegister, RpcRegisterReturns, Executes,
       BinderListens, LeaveLoop, ServeReturns, Executing, Serving, ProcessTypes
  <2>. QED
    BY <1>0, <1>1, <1>3, <2>1, MainFrame, Disjoint DEF Executing, Serving
<1>4. ASSUME NEW p \in Client, Terminates(p)
      PROVE  CallOK(e)'
  <2>1. NoCallOf(p) /\ \A q \in Process \ {p} : proc'[q] = proc[q]
    BY <1>0, <1>4 DEF Terminates, ProcessTypes
  <2>2. ~Executing(p)
    BY <1>4 DEF Terminates, Executing, Serving
  <2>. QED
    BY <1>0, <1>1, <1>4, <2>1, <2>2, MainFrame DEF Executing, Serving
<1>5. ASSUME NEW p \in Process, Ends(p)
      PROVE  CallOK(e)'
  <2>1. /\ \A q \in Process \ {p} : proc'[q] = proc[q]
        /\ worker'[e] = IF at[e] = p THEN "gone" ELSE worker[e]
        /\ IF caller[e] = p /\ Calling(e) THEN pc'[e] = "done" /\ result'[e] = "killed"
           ELSE pc'[e] = pc[e] /\ result'[e] = result[e]
        /\ UNCHANGED <<caller, within, fn, at>>
    BY <1>5, EndEffect DEF Ends
  <2>2. at[e] # None => at[e] \in Process
    BY <1>0 DEF CallTypes
  <2>3. p # None
    BY Disjoint
  <2>4. CASE caller[e] = p /\ Calling(e)
    BY <1>0, <2>1, <2>2, <2>3, <2>4 DEF CallOK, Calling, Executing, Serving
  <2>5. CASE ~(caller[e] = p /\ Calling(e))
    <3>1. pc'[e] = pc[e] /\ result'[e] = result[e]
      BY <2>1, <2>5
    <3>2. Calling(e) => caller[e] # p
      BY <2>5
    <3>3. worker'[e] \notin {"none", "gone"} => at[e] # p /\ worker'[e] = worker[e]
      BY <2>1
    <3>4. /\ worker'[e] \notin {"none", "gone"} /\ Executing(at[e]) =>
               proc'[at[e]] \in {"serving", "leaving", "returned"}
          /\ worker'[e] = worker[e] \/ (worker'[e] = "gone" /\ at[e] # None)
      BY <1>0, <2>1, <2>2, <2>3, <3>3 DEF Executing, Serving, CallOK
    <3>5. Calling(e) /\ caller[e] \in Server /\ Executing(caller[e]) =>
            proc'[caller[e]] \in {"serving", "leaving", "returned"}
      BY <1>0, <2>1, <3>2 DEF Executing, Serving
    <3>6. Calling(e) /\ caller[e] \in Client /\ proc[caller[e]] = "idle" => proc'[caller[e]] = "idle"
      BY <1>0, <2>1, <3>2
    <3>. QED
      BY <1>0, <2>1, <3>1, <3>4, <3>5, <3>6, SameCall
  <2>. QED
    BY <2>4, <2>5
<1>6. ASSUME NEW c \in Call, NEW p \in Process, NEW f \in Function, NEW d, RpcCall(c, p, f, d),
             p \in Server => d # None /\ Executing(p), p \in Client => proc[p] = "idle"
      PROVE  CallOK(e)'
  <2>1. /\ pc[c] = "idle" /\ caller'[c] = p /\ within'[c] = d /\ fn'[c] = f
        /\ \/ pc'[c] = "done"
           \/ pc'[c] = "locating" /\ result'[c] = result[c]
        /\ \A x \in Call \ {c} :
             /\ caller'[x] = caller[x] /\ within'[x] = within[x] /\ fn'[x] = fn[x]
             /\ pc'[x] = pc[x] /\ result'[x] = result[x]
        /\ UNCHANGED <<proc, worker, at>>
    BY <1>6, CallEffect DEF processVars, workerVars
  <2>2. CASE e = c
    BY <1>0, <1>6, <2>1, <2>2 DEF CallOK, Calling, Executing, Serving
  <2>3. CASE e # c
    BY <1>0, <2>1, <2>3, SameCall DEF Executing, Serving
  <2>. QED
    BY <2>2, <2>3
<1>7. ASSUME NEW c \in Call, Begins(c)
      PROVE  CallOK(e)'
  <2>1. PICK f \in Function :
          (\E p \in Client : ClientCalls(c, p, f)) \/ (\E d \in Call : SkeletonCalls(c, d, f))
    BY <1>7 DEF Begins
  <2>2. CASE \E p \in Client : ClientCalls(c, p, f)
    BY <1>0, <1>6, <2>2, Disjoint DEF ClientCalls
  <2>3. CASE \E d \in Call : SkeletonCalls(c, d, f)
    <3>1. PICK d \in Call : SkeletonCalls(c, d, f)
      BY <2>3
    <3>2. at[d] \in Server /\ Executing(at[d]) /\ d # None
      BY <3>1, Disjoint DEF SkeletonCalls, Calls, CallOK, CallTypes
    <3>. QED
      BY <1>0, <1>6, <3>1, <3>2, Disjoint DEF SkeletonCalls
  <2>. QED
    BY <2>1, <2>2, <2>3
<1>8. ASSUME NEW c \in Call, CallStep(c)
      PROVE  CallOK(e)'
  <2>1. UNCHANGED <<proc, caller, within, fn, worker>>
    BY <1>8, CallFrame DEF processVars, workerVars
  <2>2. /\ Calling(c)
        /\ \/ pc'[c] = "done" /\ at' = at
           \/ pc'[c] = "executing" /\ pc[c] = "locating" /\ result' = result
              /\ at'[c] \in Server
        /\ \A x \in Call \ {c} : pc'[x] = pc[x] /\ at'[x] = at[x] /\ result'[x] = result[x]
    <3>1. CASE RpcCallLocates(c)
      <4>1. caller[c] \in Process
        BY <3>1 DEF RpcCallLocates, Calls, CallOK
      <4>2. Is(caller[c], "LOCATE_SUCCESS") => Head(toProcess[caller[c]]).at \in Server
        BY <4>1, TakingTheHead, MessageTypes DEF Is, Readable, NetTypes
      <4>. QED
        BY <3>1, <4>2 DEF RpcCallLocates, Returns, CallTypes, Calling
    <3>2. CASE RpcCallReturns(c)
      BY <3>2 DEF RpcCallReturns, Returns, CallTypes, Calling
    <3>. QED
      BY <1>8, <3>1, <3>2 DEF CallStep
  <2>3. CASE e = c
    <3>1. worker[c] # "none" => at'[c] = at[c]
      BY <1>0, <2>2, <2>3 DEF CallOK
    <3>. QED
      BY <1>0, <2>1, <2>2, <2>3, <3>1, Disjoint DEF CallOK, Calling, Executing, Serving
  <2>4. CASE e # c
    BY <1>0, <2>1, <2>2, <2>4, SameCall DEF Executing, Serving
  <2>. QED
    BY <2>3, <2>4
<1>9. ASSUME NEW c \in Call, WorkerStep(c)
      PROVE  CallOK(e)'
  <2>1. UNCHANGED <<proc, caller, within, fn, at, pc, result>>
    BY <1>9, WorkerFrame DEF workerFrame, processVars, callVars
  <2>2. /\ \A x \in Call \ {c} : worker'[x] = worker[x]
        /\ at[c] # None
        /\ worker'[c] \notin {"none", "gone"} => Executing(at[c])
    BY <1>9 DEF WorkerStep, Accept, HandleExecute, Answer, HangUp, WorkerTypes, Calls, CallOK,
                Executing, Serving
  <2>3. CASE e = c
    BY <1>0, <2>1, <2>2, <2>3 DEF CallOK, Calling, Executing, Serving
  <2>4. CASE e # c
    BY <1>0, <2>1, <2>2, <2>4, SameCall DEF Executing, Serving
  <2>. QED
    BY <2>3, <2>4
<1>10. CASE UNCHANGED vars
  BY <1>1, <1>10 DEF vars, processVars, Executing, Serving
<1>. QED
  BY <1>2, <1>3, <1>4, <1>5, <1>7, <1>8, <1>9, <1>10, Steps

\* A call ends, or goes on, but a call that has ended is not made again.
LEMMA OnlyBegins ==
  ASSUME ProcessTypes, NetTypes, CallTypes, WorkerTypes, [Next]_vars,
         NEW e \in Call
  PROVE  \/ /\ caller'[e] = caller[e] /\ within'[e] = within[e] /\ fn'[e] = fn[e]
            /\ Calling(e)' => Calling(e)
         \/ pc[e] = "idle" /\ Begins(e)
<1>1. CASE UNCHANGED callVars
  BY <1>1 DEF callVars, Calling
<1>2. ASSUME NEW p \in Process, Ends(p)
      PROVE  /\ caller'[e] = caller[e] /\ within'[e] = within[e] /\ fn'[e] = fn[e]
             /\ Calling(e)' => Calling(e)
  BY <1>2, EndEffect DEF Ends, Calling
<1>3. ASSUME NEW c \in Call, CallStep(c)
      PROVE  /\ caller'[e] = caller[e] /\ within'[e] = within[e] /\ fn'[e] = fn[e]
             /\ Calling(e)' => Calling(e)
  BY <1>3 DEF CallStep, RpcCallLocates, RpcCallReturns, Returns, CallTypes, Calling
<1>4. ASSUME NEW c \in Call, Begins(c), c # e
      PROVE  /\ caller'[e] = caller[e] /\ within'[e] = within[e] /\ fn'[e] = fn[e]
             /\ Calling(e)' => Calling(e)
  BY <1>4 DEF Begins, ClientCalls, SkeletonCalls, RpcCall, CallTypes, Calling
<1>5. Begins(e) => pc[e] = "idle"
  BY DEF Begins, ClientCalls, SkeletonCalls, RpcCall
<1>6. BinderMoves \/ (\E c \in Call : WorkerStep(c)) => UNCHANGED callVars
  BY BinderFrame, WorkerFrame DEF workerFrame
<1>. QED
  BY <1>1, <1>2, <1>3, <1>4, <1>5, <1>6, Steps, MainFrame DEF vars

\* A client begins a call when its last one has ended.
LEMMA ClientBegins ==
  ASSUME ProcessTypes, NetTypes, CallTypes, WorkerTypes, Calls, NEW c \in Call, Begins(c),
         caller'[c] \in Client
  PROVE  /\ NoCallOf(caller'[c]) /\ proc[caller'[c]] = "idle"
         /\ \E f \in Function : RpcCall(c, caller'[c], f, None)
<1>1. PICK f \in Function :
        (\E p \in Client : ClientCalls(c, p, f)) \/ (\E d \in Call : SkeletonCalls(c, d, f))
  BY DEF Begins
<1>2. CASE \E d \in Call : SkeletonCalls(c, d, f)
  <2>1. PICK d \in Call : SkeletonCalls(c, d, f)
    BY <1>2
  <2>2. at[d] \in Server
    BY <2>1 DEF SkeletonCalls, Calls, CallOK, CallTypes
  <2>3. caller'[c] = at[d]
    BY <2>1, <2>2 DEF SkeletonCalls, RpcCall, CallTypes
  <2>. QED
    BY <2>2, <2>3, Disjoint
<1>3. CASE \E p \in Client : ClientCalls(c, p, f)
  <2>1. PICK p \in Client : ClientCalls(c, p, f)
    BY <1>3
  <2>2. caller'[c] = p
    BY <2>1 DEF ClientCalls, RpcCall, CallTypes
  <2>. QED
    BY <2>1, <2>2 DEF ClientCalls
<1>. QED
  BY <1>1, <1>2, <1>3

LEMMA OneCallStep ==
  ASSUME ProcessTypes, NetTypes, CallTypes, WorkerTypes, Calls, OneCall, [Next]_vars
  PROVE  OneCall'
<1> SUFFICES ASSUME NEW c \in Call, NEW d \in Call, c # d,
                    Calling(c)', Calling(d)', caller'[c] = caller'[d], caller'[c] \in Client
             PROVE  FALSE
  BY DEF OneCall
<1>1. \A x, y \in Call : x # y /\ Begins(x) => caller'[y] = caller[y] /\ (Calling(y)' => Calling(y))
  BY DEF Begins, ClientCalls, SkeletonCalls, RpcCall, CallTypes, Calling
<1>2. CASE Begins(c) \/ Begins(d)
  BY <1>1, <1>2, ClientBegins DEF NoCallOf
<1>3. CASE ~Begins(c) /\ ~Begins(d)
  <2>1. /\ caller'[c] = caller[c] /\ Calling(c)
        /\ caller'[d] = caller[d] /\ Calling(d)
    BY <1>3, OnlyBegins
  <2>. QED
    BY <2>1 DEF OneCall
<1>. QED
  BY <1>2, <1>3

LEMMA SameStage ==
  ASSUME NEW c, Stage(c), runs'[c] = runs[c], answer'[c] = answer[c],
         worker'[c] = worker[c] \/ worker'[c] = "gone",
         result'[c] = result[c] \/ result'[c] \notin {"ran", "refused"}
  PROVE  Stage(c)'
BY DEF Stage

LEMMA StagesStep ==
  ASSUME ProcessTypes, NetTypes, CallTypes, WorkerTypes, Calls, Stages, [Next]_vars
  PROVE  Stages'
<1> SUFFICES ASSUME NEW e \in Call PROVE Stage(e)'
  BY DEF Stages
<1>0. Stage(e) /\ None # "ran" /\ None # "refused"
  BY Disjoint DEF Stages, Result
<1>1. CASE UNCHANGED <<callVars, workerVars>>
  BY <1>0, <1>1, SameStage DEF callVars, workerVars
<1>2. ASSUME NEW p \in Process, Ends(p)
      PROVE  Stage(e)'
  BY <1>0, <1>2, EndEffect, SameStage DEF Ends
<1>3. ASSUME NEW c \in Call, Begins(c)
      PROVE  Stage(e)'
  <2>1. result'[e] = result[e] \/ result'[e] = "BINDER_CONNECTION_ERROR"
    BY <1>3 DEF Begins, ClientCalls, SkeletonCalls, RpcCall, CallTypes
  <2>. QED
    BY <1>0, <1>3, <2>1, CallFrame, SameStage DEF workerVars
<1>4. ASSUME NEW c \in Call, RpcCallLocates(c)
      PROVE  Stage(e)'
  <2>1. result'[e] = result[e] \/ result'[e] \notin {"ran", "refused"}
    BY <1>4 DEF RpcCallLocates, Returns, CallTypes
  <2>2. UNCHANGED workerVars
    BY <1>4 DEF RpcCallLocates
  <2>. QED
    BY <1>0, <2>1, <2>2, SameStage DEF workerVars
<1>5. ASSUME NEW c \in Call, RpcCallReturns(c)
      PROVE  Stage(e)'
  <2>1. /\ \A x \in Call \ {c} : result'[x] = result[x]
        /\ result'[c] = answer[c] \/ result'[c] = "SERVER_CONNECTION_ERROR"
    BY <1>5 DEF RpcCallReturns, Returns, CallTypes
  <2>2. UNCHANGED workerVars
    BY <1>5 DEF RpcCallReturns
  <2>. QED
    BY <1>0, <2>1, <2>2 DEF workerVars, Stage
<1>6. ASSUME NEW c \in Call, WorkerStep(c)
      PROVE  Stage(e)'
  <2>1. result' = result
    BY <1>6, WorkerFrame DEF workerFrame, callVars
  <2>2. /\ \A x \in Call \ {c} :
             worker'[x] = worker[x] /\ runs'[x] = runs[x] /\ answer'[x] = answer[x]
        /\ \/ worker[c] = "none" /\ worker'[c] = "running" /\ UNCHANGED <<runs, answer>>
           \/ worker[c] = "running" /\ worker'[c] = "ran" /\ runs'[c] = runs[c] + 1
              /\ answer' = answer
           \/ worker[c] = "running" /\ worker'[c] = "refused" /\ UNCHANGED <<runs, answer>>
           \/ worker[c] \in {"ran", "refused"} /\ worker'[c] = "answered"
              /\ answer'[c] = worker[c] /\ runs' = runs
           \/ worker'[c] = "gone" /\ UNCHANGED <<runs, answer>>
    BY <1>6 DEF WorkerStep, Accept, Unserved, HandleExecute, Answer, HangUp, WorkerTypes
  <2>3. CASE e # c
    BY <1>0, <2>1, <2>2, <2>3, SameStage
  <2>4. CASE e = c
    BY <1>0, <2>1, <2>2, <2>4 DEF Stage
  <2>. QED
    BY <2>3, <2>4
<1>. QED
  BY <1>1, <1>2, <1>3, <1>4, <1>5, <1>6, Steps, MainFrame, BinderFrame DEF CallStep, vars

-----------------------------------------------------------------------------
(* Each call is run as RemoteCall says.                                    *)

LEMMA Outcomes ==
  /\ Outcome(None) = "none" /\ Outcome("ran") = "returned" /\ Outcome("refused") = "refused"
  /\ \A r : r \notin {None, "ran", "refused"} => Outcome(r) = "error"
<1>1. None # "ran" /\ None # "refused"
  BY Disjoint DEF Result
<1>. QED
  BY <1>1 DEF Outcome

LEMMA Fails ==
  ASSUME CallTypes, CallTypes', runs' = runs, NEW calls \in SUBSET Call,
         \A c \in calls : result[c] = None /\ result'[c] \notin {None, "ran", "refused"},
         \A c \in Call \ calls : result'[c] = result[c]
  PROVE  RC!Next
<1>1. \A c \in calls : CallOutcome[c] = "none" /\ CallOutcome'[c] = "error"
  BY Outcomes DEF CallOutcome
<1>2. \A c \in Call \ calls : CallOutcome'[c] = CallOutcome[c]
  BY DEF CallOutcome
<1>3. CallOutcome' = [c \in Call |-> IF c \in calls THEN "error" ELSE CallOutcome[c]]
  BY <1>1, <1>2 DEF CallOutcome
<1>. QED
  BY <1>1, <1>3 DEF RC!Next, RC!Fail

LEMMA StepImplements ==
  ASSUME ProcessTypes, NetTypes, CallTypes, WorkerTypes, Calls, Stages, CallTypes', [Next]_vars
  PROVE  [RC!Next]_(RC!vars)
<1>1. CASE UNCHANGED <<runs, result>>
  BY <1>1 DEF RC!vars, CallOutcome
<1>2. None \notin Result
  BY Disjoint
<1>3. ASSUME NEW p \in Process, Ends(p)
      PROVE  RC!Next
  <2> DEFINE cut == {c \in Call : caller[c] = p /\ Calling(c)}
  <2>1. runs' = runs
    BY <1>3, EndEffect DEF Ends
  <2>2. \A c \in cut : result[c] = None /\ result'[c] = "killed"
    BY <1>3, EndEffect DEF Ends, Calls, CallOK, Calling
  <2>3. \A c \in Call \ cut : result'[c] = result[c]
    BY <1>3, EndEffect DEF Ends
  <2>4. "killed" \notin {None, "ran", "refused"}
    BY <1>2 DEF Result
  <2> HIDE DEF cut
  <2>5. cut \in SUBSET Call
    BY DEF cut
  <2>. QED
    BY <2>1, <2>2, <2>3, <2>4, <2>5, Fails
<1>4. ASSUME NEW c \in Call, result[c] = None, runs' = runs,
             result'[c] \in Result \ {"ran", "refused"},
             \A x \in Call \ {c} : result'[x] = result[x]
      PROVE  RC!Next
  <2>1. /\ {c} \in SUBSET Call
        /\ \A x \in {c} : result[x] = None /\ result'[x] \notin {None, "ran", "refused"}
        /\ \A x \in Call \ {c} : result'[x] = result[x]
    BY <1>2, <1>4
  <2>. QED
    BY <1>4, <2>1, Fails
<1>5. ASSUME NEW c \in Call, Begins(c)
      PROVE  [RC!Next]_(RC!vars)
  <2>1. /\ pc[c] = "idle" /\ DOMAIN result = Call /\ DOMAIN result' = Call
        /\ result'[c] = result[c] \/ result'[c] = "BINDER_CONNECTION_ERROR"
        /\ \A x \in Call \ {c} : result'[x] = result[x]
    BY <1>5 DEF Begins, ClientCalls, SkeletonCalls, RpcCall, CallTypes
  <2>2. result[c] = None /\ runs' = runs
    BY <1>5, <2>1, CallFrame DEF Calls, CallOK, workerVars
  <2>3. result'[c] = result[c] => CallOutcome' = CallOutcome
    BY <2>1 DEF CallOutcome
  <2>. QED
    BY <1>4, <2>1, <2>2, <2>3 DEF RC!vars, Result
<1>6. ASSUME NEW c \in Call, RpcCallLocates(c)
      PROVE  [RC!Next]_(RC!vars)
  <2>1. /\ result' = result \/ result'[c] \in Result \ {"ran", "refused"}
        /\ \A x \in Call \ {c} : result'[x] = result[x]
        /\ pc[c] = "locating"
    BY <1>6 DEF RpcCallLocates, Returns, CallTypes, Result
  <2>2. result[c] = None /\ runs' = runs
    BY <1>6, <2>1 DEF Calls, CallOK, RpcCallLocates, workerVars
  <2>. QED
    BY <1>1, <1>4, <2>1, <2>2
<1>7. ASSUME NEW c \in Call, RpcCallReturns(c)
      PROVE  RC!Next
  <2>1. /\ \A x \in Call \ {c} : result'[x] = result[x]
        /\ \/ result'[c] = answer[c] /\ answer[c] # None
           \/ result'[c] = "SERVER_CONNECTION_ERROR"
        /\ pc[c] = "executing"
    BY <1>7 DEF RpcCallReturns, Returns, CallTypes
  <2>2. result[c] = None /\ runs' = runs
    BY <1>7, <2>1 DEF Calls, CallOK, RpcCallReturns, workerVars
  <2>3. CASE result'[c] = "SERVER_CONNECTION_ERROR"
    BY <1>4, <2>1, <2>2, <2>3 DEF Result
  <2>4. CASE result'[c] = answer[c] /\ answer[c] # None
    <3>1. \/ answer[c] = "ran" /\ runs[c] = 1
          \/ answer[c] = "refused" /\ runs[c] = 0
      BY <2>4 DEF WorkerTypes, Stages, Stage
    <3>2. CallOutcome[c] = "none" /\ \A x \in Call \ {c} : CallOutcome'[x] = CallOutcome[x]
      BY <2>1, <2>2, Outcomes DEF CallOutcome
    <3>3. CallOutcome'[c] = IF answer[c] = "ran" THEN "returned" ELSE "refused"
      BY <2>4, <3>1, Outcomes DEF CallOutcome
    <3>4. CallOutcome' = [CallOutcome EXCEPT ![c] = CallOutcome'[c]]
      BY <3>2 DEF CallOutcome
    <3>5. RC!Return(c)
      BY <2>2, <3>1, <3>2, <3>3, <3>4 DEF RC!Return
    <3>. QED
      BY <3>5 DEF RC!Next
  <2>. QED
    BY <2>1, <2>3, <2>4
<1>8. ASSUME NEW c \in Call, WorkerStep(c)
      PROVE  [RC!Next]_(RC!vars)
  <2>1. result' = result
    BY <1>8, WorkerFrame DEF workerFrame, callVars
  <2>2. CASE runs' = runs
    BY <1>1, <2>1, <2>2
  <2>3. CASE runs' # runs
    <3>1. worker[c] = "running" /\ runs' = [runs EXCEPT ![c] = @ + 1]
      BY <1>8, <2>3 DEF WorkerStep, Accept, HandleExecute, Answer, HangUp
    <3>2. runs[c] = 0 /\ result[c] # "refused"
      BY <1>2, <3>1 DEF Stages, Stage, Result
    <3>3. Outcome(result[c]) # "refused"
      BY <3>2, Outcomes
    <3>4. runs' = [runs EXCEPT ![c] = 1] /\ CallOutcome' = CallOutcome
      BY <2>1, <3>1, <3>2 DEF CallOutcome
    <3>5. RC!Run(c)
      BY <3>2, <3>3, <3>4 DEF RC!Run, CallOutcome
    <3>. QED
      BY <3>5 DEF RC!Next
  <2>. QED
    BY <2>2, <2>3
<1>9. BinderMoves => UNCHANGED <<runs, result>>
  BY BinderFrame DEF callVars, workerVars
<1>10. /\ \A s \in Server : ServerMoves(s) => UNCHANGED <<runs, result>>
       /\ \A p \in Client : Terminates(p) => UNCHANGED <<runs, result>>
  BY MainFrame DEF callVars, workerVars
<1>. QED
  BY <1>1, <1>3, <1>5, <1>6, <1>7, <1>8, <1>9, <1>10, Steps DEF CallStep, vars, callVars, workerVars

-----------------------------------------------------------------------------
(* The connections.                                                        *)

LEMMA GoneStays ==
  ASSUME NetTypes, [Next]_vars, binder' # "gone"
  PROVE  binder # "gone"
<1>1. \A p \in Process : Ends(p) => binder' = binder
  BY DEF Ends, End, binderVars
<1>. QED
  BY <1>1, Steps, BinderFrame, MainFrame, CallFrame, WorkerFrame
     DEF vars, workerFrame, binderVars

\* What the binder does to a connection: it takes a message, or says something.
LEMMA BinderTakes ==
  ASSUME BinderTypes, NetTypes, BinderMoves, NEW p \in Process
  PROVE  \/ toBinder'[p] = toBinder[p] \/ toBinder'[p] = <<>>
         \/ toBinder[p] # <<>> /\ toBinder'[p] = Tail(toBinder[p])
<1>1. CASE \E q \in Process : BinderRegisters(q) \/ BinderLocates(q) \/ BinderTerminates(q)
  <2>1. PICK q \in Process, t \in {"REGISTER", "LOCATE_REQUEST", "TERMINATE"} : BinderReceives(q, t)
    BY <1>1 DEF BinderRegisters, BinderLocates, BinderTerminates
  <2>. QED
    BY <2>1, ReceivesEffect
<1>2. CASE (\E q \in Process : BinderForgets(q)) \/ (\E s \in Server : BinderAsks(s))
  BY <1>2 DEF BinderForgets, BinderAsks
<1>3. CASE BinderHears
  BY <1>3 DEF BinderHears, NetTypes
<1>4. CASE BinderExits \/ BinderCrashes
  BY <1>4 DEF BinderExits, BinderCrashes, Vanish
<1>. QED
  BY <1>1, <1>2, <1>3, <1>4 DEF BinderMoves, BinderStep

LEMMA BinderSays ==
  ASSUME BinderTypes, NetTypes, BinderMoves, binder' # "gone", NEW p \in Process
  PROVE  \/ toProcess'[p] = toProcess[p]
         \/ \E m \in Message : /\ toProcess'[p] = Append(toProcess[p], m)
                               /\ m.type = "LOCATE_SUCCESS" => BinderLocates(p)
<1>1. ASSUME NEW q \in Process, BinderRegisters(q)
      PROVE  \/ toProcess'[p] = toProcess[p]
             \/ \E m \in Message : /\ toProcess'[p] = Append(toProcess[p], m)
                                   /\ m.type # "LOCATE_SUCCESS"
  <2>1. Answered(q, Plain("REGISTER_SUCCESS"))
    BY <1>1 DEF BinderRegisters
  <2>2. Plain("REGISTER_SUCCESS") \in Message /\ Plain("REGISTER_SUCCESS").type # "LOCATE_SUCCESS"
    BY MessageTypes
  <2>3. toProcess'[p] = toProcess[p] \/ toProcess'[p] = Append(toProcess[p], Plain("REGISTER_SUCCESS"))
    BY <2>1, <2>2, AnsweredEffect
  <2>. QED
    BY <2>2, <2>3
<1>2. ASSUME NEW q \in Process, BinderLocates(q)
      PROVE  \/ toProcess'[p] = toProcess[p]
             \/ p = q /\ \E m \in Message : toProcess'[p] = Append(toProcess[p], m)
  <2>1. PICK m \in Message : Answered(q, m)
    BY <1>2, MessageTypes DEF BinderLocates, Found
  <2>. QED
    BY <2>1, AnsweredEffect
<1>3. CASE \E q \in Process : BinderForgets(q) \/ BinderTerminates(q)
  BY <1>3 DEF BinderForgets, BinderTerminates
<1>4. ASSUME NEW s \in Server, BinderAsks(s)
      PROVE  \/ toProcess'[p] = toProcess[p]
             \/ \E m \in Message : /\ toProcess'[p] = Append(toProcess[p], m)
                                   /\ m.type # "LOCATE_SUCCESS"
  <2>1. s \in Process /\ Answered(s, Plain("TERMINATE"))
    BY <1>4 DEF Process, BinderAsks
  <2>2. Plain("TERMINATE") \in Message /\ Plain("TERMINATE").type # "LOCATE_SUCCESS"
    BY MessageTypes
  <2>3. toProcess'[p] = toProcess[p] \/ toProcess'[p] = Append(toProcess[p], Plain("TERMINATE"))
    BY <2>1, <2>2, AnsweredEffect
  <2>. QED
    BY <2>2, <2>3
<1>5. CASE BinderHears
  BY <1>5 DEF BinderHears
<1>6. ~BinderExits /\ ~BinderCrashes
  BY DEF BinderExits, BinderCrashes, Vanish
<1>. QED
  BY <1>1, <1>2, <1>3, <1>4, <1>5, <1>6 DEF BinderMoves, BinderStep

LEMMA RegistrantsStep ==
  ASSUME BinderTypes, ProcessTypes, NetTypes, CallTypes, WorkerTypes, Calls, Registrants,
         [Next]_vars
  PROVE  Registrants'
<1> SUFFICES ASSUME NEW p \in Client PROVE \A m \in Messages(toBinder'[p]) : m.type # "REGISTER"
  BY DEF Registrants
<1>0. p \in Process /\ p \notin Server /\ toBinder[p] \in Seq(Message)
  BY Disjoint DEF NetTypes
<1>1. \A m \in Messages(toBinder[p]) : m.type # "REGISTER"
  BY DEF Registrants
<1>2. ASSUME \/ toBinder'[p] = toBinder[p] \/ toBinder'[p] = <<>>
             \/ toBinder[p] # <<>> /\ toBinder'[p] = Tail(toBinder[p])
             \/ \E m \in Message : m.type # "REGISTER" /\ toBinder'[p] = Append(toBinder[p], m)
      PROVE  \A m \in Messages(toBinder'[p]) : m.type # "REGISTER"
  <2>1. ASSUME NEW m \in Message, m.type # "REGISTER", toBinder'[p] = Append(toBinder[p], m)
        PROVE  \A n \in Messages(toBinder'[p]) : n.type # "REGISTER"
    <3>1. Messages(toBinder'[p]) = Messages(toBinder[p]) \cup {m}
      BY <1>0, <2>1, MessagesOf
    <3>. QED
      BY <1>1, <2>1, <3>1
  <2>2. CASE toBinder[p] # <<>> /\ toBinder'[p] = Tail(toBinder[p])
    <3>1. Messages(toBinder'[p]) \subseteq Messages(toBinder[p])
      BY <1>0, <2>2, MessagesOf
    <3>. QED
      BY <1>1, <3>1
  <2>. QED
    BY <1>1, <1>2, <2>1, <2>2, NoMessage
<1>3. CASE BinderMoves
  BY <1>0, <1>2, <1>3, BinderTakes
<1>4. ASSUME NEW s \in Server, ServerMoves(s)
      PROVE  toBinder'[p] = toBinder[p]
  <2>1. s \in Process /\ s # p
    BY <1>0, Disjoint
  <2>. QED
    BY <1>0, <1>4, <2>1, Sends
<1>5. ASSUME NEW q \in Client, Terminates(q)
      PROVE  \/ toBinder'[p] = toBinder[p]
             \/ toBinder'[p] = Append(toBinder[p], Plain("TERMINATE"))
  <2>1. q \in Process /\ Plain("TERMINATE") \in Message
    BY Disjoint, MessageTypes
  <2>2. \E k \in {"open", "lost"} : Sent(q, k, Plain("TERMINATE"))
    BY <1>5 DEF Terminates
  <2>. QED
    BY <1>0, <2>1, <2>2, SentEffect
<1>6. ASSUME NEW q \in Process, Ends(q)
      PROVE  toBinder' = toBinder
  BY <1>6 DEF Ends
<1>7. ASSUME NEW c \in Call, NEW q \in Process, NEW f \in Function, NEW d, RpcCall(c, q, f, d)
      PROVE  \/ toBinder'[p] = toBinder[p]
             \/ toBinder'[p] = Append(toBinder[p], LocateRequest(f))
  <2>1. LocateRequest(f) \in Message /\ \E k \in {"none", "open", "lost"} : Sent(q, k, LocateRequest(f))
    BY <1>7, MessageTypes DEF RpcCall
  <2>. QED
    BY <1>0, <2>1, SentEffect
<1>8. ASSUME NEW c \in Call, Begins(c)
      PROVE  \/ toBinder'[p] = toBinder[p]
             \/ \E f \in Function : toBinder'[p] = Append(toBinder[p], LocateRequest(f))
  <2>1. \A d \in Call : worker[d] = "running" => at[d] \in Process
    BY DEF Calls, CallOK, CallTypes, Process
  <2>. QED
    BY <1>7, <1>8, <2>1, Disjoint DEF Begins, ClientCalls, SkeletonCalls
<1>9. \A c \in Call : CallStep(c) \/ WorkerStep(c) => toBinder' = toBinder
  BY CallFrame, WorkerFrame DEF workerFrame, netVars
<1>10. /\ \A t \in {"TERMINATE", "TERMINATE_SUCCESS"} :
            Plain(t) \in Message /\ Plain(t).type # "REGISTER"
       /\ \A f \in Function : LocateRequest(f) \in Message /\ LocateRequest(f).type # "REGISTER"
  BY MessageTypes
<1>. QED
  BY <1>2, <1>3, <1>4, <1>5, <1>6, <1>8, <1>9, <1>10, Steps DEF vars, netVars

\* A function that a server has registered stays known to it.
LEMMA KnownStep ==
  ASSUME BinderTypes, ProcessTypes, NetTypes, CallTypes, WorkerTypes, Calls, [Next]_vars,
         binder' # "gone", NEW s \in Server, NEW g \in Function, Known(g, s)
  PROVE  Known(g, s)'
<1>0. s \in Process /\ s \notin Client /\ toProcess[s] \in Seq(Message)
  BY Disjoint DEF NetTypes
<1>1. ASSUME UNCHANGED <<database, proc, pending>>,
             toProcess'[s] = toProcess[s] \/ \E m \in Message : toProcess'[s] = Append(toProcess[s], m)
      PROVE  Known(g, s)'
  BY <1>0, <1>1, Appending DEF Known, Is, Readable, Gone
<1>2. CASE BinderMoves
  BY <1>0, <1>1, <1>2, BinderFrame, BinderSays DEF processVars
<1>3. ASSUME database'[s] = database[s], proc'[s] = proc[s], pending'[s] = pending[s],
             toProcess'[s] = toProcess[s] \/ proc[s] # "registering"
      PROVE  Known(g, s)'
  BY <1>3 DEF Known, Is, Readable, Gone
<1>4. ASSUME NEW r \in Server, ServerMoves(r), r # s
      PROVE  Known(g, s)'
  <2>1. /\ database'[s] = database[s] /\ proc'[s] = proc[s] /\ pending'[s] = pending[s]
        /\ toProcess'[s] = toProcess[s]
    BY <1>0, <1>4, Disjoint DEF ServerMoves, RpcInit, RpcRegister, RpcRegisterReturns, Executes,
       BinderListens, LeaveLoop, ServeReturns, Received, netVars, ProcessTypes, NetTypes
  <2>. QED
    BY <1>3, <2>1
<1>5. CASE ServerMoves(s)
  <2>1. CASE RpcRegisterReturns(s)
    <3>1. g \in database[s] \/ (pending[s] = g /\ Is(s, "REGISTER_SUCCESS"))
      BY <2>1 DEF RpcRegisterReturns, Known, Gone
    <3>2. g \in database'[s]
      BY <2>1, <3>1 DEF RpcRegisterReturns, ProcessTypes
    <3>. QED
      BY <3>2 DEF Known
  <2>2. CASE ~RpcRegisterReturns(s)
    <3>1. proc[s] \notin {"registering", "gone"} /\ database' = database
      BY <1>5, <2>2 DEF ServerMoves, RpcInit, RpcRegister, Executes, BinderListens, LeaveLoop, ServeReturns, Executing, Serving
    <3>. QED
      BY <3>1 DEF Known, Gone
  <2>. QED
    BY <2>1, <2>2
<1>6. ASSUME NEW p \in Client, Terminates(p)
      PROVE  Known(g, s)'
  BY <1>0, <1>3, <1>6 DEF Terminates, ProcessTypes
<1>7. ASSUME NEW p \in Process, Ends(p)
      PROVE  Known(g, s)'
  <2>1. CASE p = s
    BY <1>7, <2>1, EndEffect DEF Ends, Known, Gone
  <2>2. CASE p # s
    BY <1>0, <1>3, <1>7, <2>2, EndEffect DEF Ends
  <2>. QED
    BY <2>1, <2>2
<1>8. ASSUME NEW c \in Call, CallStep(c)
      PROVE  Known(g, s)'
  <2>1. toProcess'[s] = toProcess[s] \/ proc[s] # "registering"
    <3>1. CASE RpcCallReturns(c)
      BY <3>1 DEF RpcCallReturns, netVars
    <3>2. CASE RpcCallLocates(c) /\ caller[c] = s
      BY <3>2 DEF RpcCallLocates, Calls, CallOK, Calling, Executing, Serving
    <3>3. CASE RpcCallLocates(c) /\ caller[c] # s
      BY <1>0, <3>3 DEF RpcCallLocates, Received, NetTypes
    <3>. QED
      BY <1>8, <3>1, <3>2, <3>3 DEF CallStep
  <2>. QED
    BY <1>3, <1>8, <2>1, CallFrame DEF processVars
<1>9. \A c \in Call : Begins(c) \/ WorkerStep(c) =>
        UNCHANGED <<database, proc, pending, toProcess>>
  BY CallFrame, WorkerFrame DEF workerFrame, processVars, netVars
<1>10. CASE UNCHANGED <<database, proc, pending, toProcess>>
  BY <1>1, <1>10
<1>. QED
  BY <1>2, <1>4, <1>5, <1>6, <1>7, <1>8, <1>9, <1>10, Steps DEF vars, processVars, netVars

LEMMA ServerLinesStep ==
  ASSUME BinderTypes, ProcessTypes, NetTypes, CallTypes, WorkerTypes, Mains, Calls, ServerLines,
         [Next]_vars, binder = "up", binder' = "up", NEW s \in Server
  PROVE  ServerLine(s)'
<1>0. /\ s \in Process /\ s \notin Client /\ ServerLine(s)
      /\ toBinder[s] \in Seq(Message) /\ toProcess[s] \in Seq(Message)
  BY Disjoint DEF NetTypes, ServerLines
<1>1. ASSUME proc'[s] = proc[s], pending'[s] = pending[s], toProcess'[s] = toProcess[s],
             toBinder'[s] = toBinder[s]
      PROVE  ServerLine(s)'
  BY <1>0, <1>1 DEF ServerLine, Executing, Serving
<1>2. ASSUME proc'[s] \notin {"init", "ready", "registering"},
             proc'[s] # "gone" => \A m \in Messages(toBinder'[s]) : m.type # "REGISTER"
      PROVE  ServerLine(s)'
  BY <1>2 DEF ServerLine, Executing, Serving
<1>3. ASSUME NEW p \in Process, BinderRegisters(p)
      PROVE  ServerLine(s)'
  <2>1. UNCHANGED <<proc, pending>>
    BY <1>3 DEF BinderRegisters, BinderReceives, binderFrame, processVars
  <2>2. /\ toBinder[p] # <<>> /\ Head(toBinder[p]).type = "REGISTER"
        /\ toBinder'[p] = Tail(toBinder[p])
        /\ \A q \in Process \ {p} : toBinder'[q] = toBinder[q]
    BY <1>3, ReceivesEffect DEF BinderRegisters
  <2>3. Plain("REGISTER_SUCCESS") \in Message /\ Answered(p, Plain("REGISTER_SUCCESS"))
    BY <1>3, MessageTypes DEF BinderRegisters
  <2>4. /\ toProcess'[p] = IF Gone(p) THEN toProcess[p]
                           ELSE Append(toProcess[p], Plain("REGISTER_SUCCESS"))
        /\ \A q \in Process \ {p} : toProcess'[q] = toProcess[q]
    BY <2>3, AnsweredEffect
  <2>5. CASE p # s
    BY <1>0, <1>1, <2>1, <2>2, <2>4, <2>5
  <2>6. CASE p = s /\ proc[s] = "registering"
    <3>1. toBinder[s] = <<Register(pending[s])>> /\ toProcess[s] = <<>> /\ ~Gone(s)
      BY <1>0, <2>2, <2>6 DEF ServerLine, Gone
    <3>2. toBinder'[s] = <<>>
      BY <2>2, <2>6, <3>1, Single
    <3>3. toProcess'[s] = <<Plain("REGISTER_SUCCESS")>>
      BY <1>0, <2>3, <2>4, <2>6, <3>1, Appending
    <3>. QED
      BY <2>1, <2>6, <3>2, <3>3 DEF ServerLine, Executing, Serving
  <2>7. CASE p = s /\ proc[s] # "registering"
    <3>1. Head(toBinder[s]) \in Messages(toBinder[s])
      BY <1>0, <2>2, <2>7, MessagesOf
    <3>2. proc[s] \notin {"init", "ready", "serving", "leaving", "returned"}
      BY <1>0, <2>2, <2>7, <3>1 DEF ServerLine, Executing, Serving
    <3>. QED
      BY <2>1, <2>7, <3>2 DEF ServerLine, Executing, Serving
  <2>. QED
    BY <2>5, <2>6, <2>7
<1>4. ASSUME NEW p \in Process, BinderLocates(p)
      PROVE  ServerLine(s)'
  <2>1. UNCHANGED <<proc, pending>>
    BY <1>4 DEF BinderLocates, BinderReceives, binderFrame, processVars
  <2>2. /\ toBinder[p] # <<>> /\ Head(toBinder[p]).type = "LOCATE_REQUEST"
        /\ toBinder'[p] = Tail(toBinder[p])
        /\ \A q \in Process \ {p} : toBinder'[q] = toBinder[q]
    BY <1>4, ReceivesEffect DEF BinderLocates
  <2>3. \E m \in Message : Answered(p, m)
    BY <1>4, MessageTypes DEF BinderLocates, Found
  <2>4. \A q \in Process \ {p} : toProcess'[q] = toProcess[q]
    BY <2>3, AnsweredEffect
  <2>5. CASE p # s
    BY <1>0, <1>1, <2>1, <2>2, <2>4, <2>5
  <2>6. CASE p = s
    <3>1. proc[s] # "registering"
      BY <1>0, <2>2, <2>6, Single DEF ServerLine, Register
    <3>2. proc[s] \notin {"init", "ready"}
      BY <1>0, <2>2, <2>6 DEF ServerLine
    <3>3. Messages(toBinder'[s]) \subseteq Messages(toBinder[s])
      BY <1>0, <2>2, <2>6, MessagesOf
    <3>. QED
      BY <1>0, <2>1, <3>1, <3>2, <3>3 DEF ServerLine, Executing, Serving
  <2>. QED
    BY <2>5, <2>6
<1>5. CASE BinderMoves
  <2>1. \/ \E p \in Process : BinderRegisters(p) \/ BinderLocates(p)
        \/ \E p \in Process : BinderForgets(p)
    BY <1>5 DEF BinderMoves, BinderStep, BinderTerminates, BinderAsks, BinderHears, BinderExits,
       BinderCrashes, Vanish
  <2>2. CASE \E p \in Process : BinderForgets(p)
    BY <1>1, <2>2 DEF BinderForgets, binderFrame, processVars
  <2>. QED
    BY <1>3, <1>4, <2>1, <2>2
<1>6. ASSUME NEW r \in Server, ServerMoves(r), r # s
      PROVE  ServerLine(s)'
  <2>1. r \in Process
    BY Disjoint
  <2>2. proc'[s] = proc[s] /\ pending'[s] = pending[s] /\ toProcess'[s] = toProcess[s]
    BY <1>0, <1>6 DEF ServerMoves, RpcInit, RpcRegister, RpcRegisterReturns, Executes,
       BinderListens, LeaveLoop, ServeReturns, Received, netVars, ProcessTypes, NetTypes
  <2>3. toBinder'[s] = toBinder[s]
    BY <1>0, <1>6, <2>1, Sends
  <2>. QED
    BY <1>1, <2>2, <2>3
<1>7. CASE ServerMoves(s)
  <2>1. CASE RpcInit(s)
    <3>1. proc[s] = "init" /\ proc'[s] = "ready" /\ UNCHANGED <<toBinder, toProcess>>
      BY <1>0, <2>1 DEF RpcInit, ProcessTypes
    <3>. QED
      BY <1>0, <3>1 DEF ServerLine, Executing, Serving
  <2>2. ASSUME NEW f \in Function, RpcRegister(s, f)
        PROVE  ServerLine(s)'
    <3>1. /\ proc[s] = "ready" /\ proc'[s] = "registering" /\ pending'[s] = f
          /\ toProcess' = toProcess /\ conn[s] # "none" /\ Sent(s, conn[s], Register(f))
      BY <1>0, <2>2 DEF RpcRegister, ProcessTypes
    <3>2. conn[s] = "open"
      BY <1>0, <3>1 DEF Mains, NetTypes, Gone
    <3>3. toBinder[s] = <<>> /\ toProcess[s] = <<>>
      BY <1>0, <3>1 DEF ServerLine
    <3>4. Register(f) \in Message
      BY MessageTypes
    <3>5. toBinder'[s] = Append(toBinder[s], Register(f))
      BY <1>0, <3>1, <3>2, <3>4, SentEffect
    <3>6. toBinder'[s] = <<Register(f)>>
      BY <1>0, <3>3, <3>4, <3>5, Appending
    <3>. QED
      BY <3>1, <3>3, <3>6 DEF ServerLine, Executing, Serving
  <2>3. CASE RpcRegisterReturns(s)
    <3>1. proc[s] = "registering" /\ proc'[s] = "ready" /\ toBinder' = toBinder /\ ~Gone(s)
      BY <1>0, <2>3 DEF RpcRegisterReturns, ProcessTypes, Gone
    <3>2. Readable(s) /\ Received(s)
      BY <1>0, <2>3, <3>1 DEF RpcRegisterReturns, Mains, Lost
    <3>3. toProcess[s] = <<Plain("REGISTER_SUCCESS")>> /\ toBinder[s] = <<>>
      BY <1>0, <3>1, <3>2 DEF ServerLine, Readable
    <3>4. toProcess'[s] = <<>>
      BY <1>0, <3>2, <3>3, ReceivedEffect, Single
    <3>. QED
      BY <3>1, <3>3, <3>4 DEF ServerLine, Executing, Serving
  <2>4. CASE Executes(s)
    <3>1. proc[s] = "ready" /\ proc'[s] = "serving" /\ toBinder' = toBinder
      BY <1>0, <2>4 DEF Executes, ProcessTypes
    <3>2. Messages(toBinder'[s]) = {}
      BY <1>0, <3>1, NoMessage DEF ServerLine
    <3>. QED
      BY <1>2, <3>1, <3>2
  <2>5. CASE BinderListens(s) \/ LeaveLoop(s)
    <3>1. Executing(s) /\ proc'[s] \in {"serving", "leaving", "returned"} /\ toBinder' = toBinder
      BY <1>0, <2>5 DEF BinderListens, LeaveLoop, Executing, Serving, netVars, ProcessTypes
    <3>. QED
      BY <1>0, <1>2, <3>1 DEF ServerLine
  <2>6. CASE ServeReturns(s)
    <3>1. Executing(s) /\ proc'[s] = "returned"
      BY <1>0, <2>6 DEF ServeReturns, Executing, ProcessTypes
    <3>2. \/ toBinder'[s] = toBinder[s]
          \/ \E m \in Message : /\ m.type \in {"REGISTER", "TERMINATE_SUCCESS"}
                                /\ ServeReturns(s) => m.type = "TERMINATE_SUCCESS"
                                /\ toBinder'[s] = Append(toBinder[s], m)
      BY <1>7, Sends
    <3>3. \A m \in Messages(toBinder[s]) : m.type # "REGISTER"
      BY <1>0, <3>1 DEF ServerLine
    <3>4. CASE toBinder'[s] = toBinder[s]
      BY <1>2, <3>1, <3>3, <3>4
    <3>5. CASE toBinder'[s] # toBinder[s]
      <4>0. PICK m \in Message : /\ ServeReturns(s) => m.type = "TERMINATE_SUCCESS"
                                 /\ toBinder'[s] = Append(toBinder[s], m)
        BY <3>2, <3>5
      <4>1. m.type # "REGISTER" /\ toBinder'[s] = Append(toBinder[s], m)
        BY <2>6, <4>0
      <4>2. Messages(toBinder'[s]) = Messages(toBinder[s]) \cup {m}
        BY <1>0, <4>1, MessagesOf
      <4>. QED
        BY <1>2, <3>1, <3>3, <4>1, <4>2
    <3>. QED
      BY <3>4, <3>5
  <2>. QED
    BY <1>7, <2>1, <2>2, <2>3, <2>4, <2>5, <2>6 DEF ServerMoves
<1>8. ASSUME NEW p \in Client, Terminates(p)
      PROVE  ServerLine(s)'
  <2>1. p \in Process /\ p # s /\ Plain("TERMINATE") \in Message
    BY <1>0, Disjoint, MessageTypes
  <2>2. toBinder'[s] = toBinder[s]
    BY <1>0, <1>8, <2>1, SentEffect DEF Terminates
  <2>. QED
    BY <1>0, <1>1, <1>8, <2>1, <2>2 DEF Terminates, ProcessTypes
<1>9. ASSUME NEW p \in Process, Ends(p)
      PROVE  ServerLine(s)'
  <2>1. CASE p = s
    BY <1>2, <1>9, <2>1, EndEffect DEF Ends
  <2>2. CASE p # s
    BY <1>0, <1>1, <1>9, <2>2, EndEffect DEF Ends
  <2>. QED
    BY <2>1, <2>2
<1>10. ASSUME NEW c \in Call, NEW p \in Process, NEW f \in Function, NEW d, RpcCall(c, p, f, d),
              p \in Server => Executing(p)
       PROVE  ServerLine(s)'
  <2>1. UNCHANGED <<proc, pending, toProcess>>
    BY <1>10, CallEffect DEF processVars
  <2>2. LocateRequest(f) \in Message /\ LocateRequest(f).type # "REGISTER"
    BY MessageTypes
  <2>3. \E k \in {"none", "open", "lost"} : Sent(p, k, LocateRequest(f))
    BY <1>10 DEF RpcCall
  <2>4. /\ \A q \in Process \ {p} : toBinder'[q] = toBinder[q]
        /\ toBinder'[p] = toBinder[p] \/ toBinder'[p] = Append(toBinder[p], LocateRequest(f))
    BY <2>2, <2>3, SentEffect
  <2>5. CASE p = s /\ toBinder'[p] = Append(toBinder[p], LocateRequest(f))
    <3>1. Messages(toBinder'[s]) = Messages(toBinder[s]) \cup {LocateRequest(f)}
      BY <1>0, <2>2, <2>5, MessagesOf
    <3>2. Executing(s)
      BY <1>10, <2>5
    <3>. QED
      BY <1>0, <1>2, <2>1, <2>2, <3>1, <3>2 DEF ServerLine, Executing, Serving
  <2>6. CASE toBinder'[s] = toBinder[s]
    BY <1>1, <2>1, <2>6
  <2>. QED
    BY <1>0, <2>4, <2>5, <2>6
<1>11. ASSUME NEW c \in Call, Begins(c)
       PROVE  ServerLine(s)'
  <2>1. \A d \in Call : worker[d] = "running" => at[d] \in Process /\ Executing(at[d])
    BY DEF Calls, CallOK, CallTypes, Process
  <2>. QED
    BY <1>10, <1>11, <2>1, Disjoint DEF Begins, ClientCalls, SkeletonCalls
<1>12. ASSUME NEW c \in Call, CallStep(c)
       PROVE  ServerLine(s)'
  <2>1. UNCHANGED <<proc, pending, toBinder>>
    BY <1>12, CallFrame DEF processVars
  <2>2. toProcess'[s] = toProcess[s] \/ Executing(s)
    <3>1. CASE RpcCallReturns(c)
      BY <3>1 DEF RpcCallReturns, netVars
    <3>2. CASE RpcCallLocates(c) /\ caller[c] = s
      BY <3>2 DEF RpcCallLocates, Calls, CallOK, Calling
    <3>3. CASE RpcCallLocates(c) /\ caller[c] # s
      BY <1>0, <3>3 DEF RpcCallLocates, Received, NetTypes
    <3>. QED
      BY <1>12, <3>1, <3>2, <3>3 DEF CallStep
  <2>3. CASE Executing(s)
    BY <1>0, <1>2, <2>1, <2>3 DEF ServerLine, Executing, Serving
  <2>. QED
    BY <1>1, <2>1, <2>2, <2>3
<1>13. \A c \in Call : WorkerStep(c) => UNCHANGED <<proc, pending, toBinder, toProcess>>
  BY WorkerFrame DEF workerFrame, processVars, netVars
<1>. QED
  BY <1>1, <1>5, <1>6, <1>7, <1>8, <1>9, <1>11, <1>12, <1>13, Steps DEF vars, processVars, netVars

LEMMA BoundStep ==
  ASSUME BinderTypes, ProcessTypes, NetTypes, CallTypes, WorkerTypes, Mains, Calls, Registrants,
         binder = "up" => ServerLines, Bound, [Next]_vars, binder' # "gone"
  PROVE  Bound'
<1>1. ASSUME NEW g \in Function, NEW s \in Server, <<g, s>> \in bound
      PROVE  Known(g, s)'
  BY <1>1, KnownStep DEF Bound
<1>2. CASE bound' \subseteq bound
  BY <1>1, <1>2 DEF Bound
<1>3. ASSUME NEW p \in Process, BinderRegisters(p)
      PROVE  Bound'
  <2>1. /\ toBinder[p] # <<>> /\ Head(toBinder[p]).type = "REGISTER" /\ Head(toBinder[p]) \in Message
        /\ toBinder[p] \in Seq(Message) /\ binder = "up"
    BY <1>3, ReceivesEffect DEF BinderRegisters, BinderReceives, NetTypes
  <2>2. Head(toBinder[p]) \in Messages(toBinder[p])
    BY <2>1, MessagesOf
  <2>3. p \in Server
    BY <2>1, <2>2, Disjoint DEF Registrants
  <2>4. ServerLine(p)
    BY <2>1, <2>3 DEF ServerLines
  <2>5. PICK g \in Function : g = Head(toBinder[p]).fn
    BY <2>1, MessageTypes
  <2>6. ASSUME proc[p] = "registering"
        PROVE  Known(g, p)'
    <3>1. toBinder[p] = <<Register(pending[p])>> /\ toProcess[p] = <<>> /\ ~Gone(p)
      BY <2>1, <2>4, <2>6 DEF ServerLine, Gone
    <3>2. g = pending[p]
      BY <2>5, <3>1, Single DEF Register
    <3>3. Plain("REGISTER_SUCCESS") \in Message /\ Answered(p, Plain("REGISTER_SUCCESS"))
      BY <1>3, MessageTypes DEF BinderRegisters
    <3>4. toProcess'[p] = Append(toProcess[p], Plain("REGISTER_SUCCESS"))
      BY <3>1, <3>3, AnsweredEffect
    <3>5. toProcess'[p] = <<Plain("REGISTER_SUCCESS")>>
      BY <3>1, <3>3, <3>4, Appending
    <3>6. UNCHANGED <<proc, pending>>
      BY <1>3 DEF BinderRegisters, BinderReceives, binderFrame, processVars
    <3>7. toProcess'[p] # <<>> /\ Head(toProcess'[p]).type = "REGISTER_SUCCESS"
      BY <3>5, Single DEF Plain
    <3>. QED
      BY <2>6, <3>2, <3>6, <3>7 DEF Known, Is, Readable
  <2>7. ASSUME proc[p] # "registering"
        PROVE  Known(g, p)'
    <3>1. proc[p] = "gone"
      BY <2>1, <2>2, <2>3, <2>4, <2>7 DEF ServerLine, Executing, Serving, Mains, ProcessTypes
    <3>2. proc' = proc
      BY <1>3 DEF BinderRegisters, BinderReceives, binderFrame, processVars
    <3>. QED
      BY <3>1, <3>2 DEF Known, Gone
  <2>8. Known(g, p)'
    BY <2>6, <2>7
  <2>. QED
    BY <1>1, <1>3, <2>8, <2>5 DEF BinderRegisters, Bound
<1>4. CASE BinderMoves
  BY <1>2, <1>3, <1>4 DEF BinderMoves, BinderStep, BinderLocates, BinderForgets, BinderTerminates,
     BinderAsks, BinderHears, BinderExits, BinderCrashes, Vanish, binderVars
<1>5. CASE ~BinderMoves
  <2>1. \A p \in Process : Ends(p) => bound' = bound
    BY DEF Ends, End, binderVars
  <2>2. bound' = bound
    BY <1>5, <2>1, Steps, MainFrame, CallFrame, WorkerFrame DEF workerFrame, vars, binderVars
  <2>. QED
    BY <1>2, <2>2
<1>. QED
  BY <1>4, <1>5

\* So does the function of a call.
LEMMA KnownOfCall ==
  ASSUME BinderTypes, ProcessTypes, NetTypes, CallTypes, WorkerTypes, Calls, [Next]_vars,
         binder' # "gone", NEW s \in Server, NEW c \in Call, fn[c] \in Function,
         fn'[c] = fn[c], Known(fn[c], s)
  PROVE  Known(fn[c], s)'
<1>1. PICK g \in Function : g = fn[c]
  OBVIOUS
<1>2. Known(g, s)'
  BY <1>1, KnownStep
<1>. QED
  BY <1>1, <1>2 DEF Known

LEMMA AsksStep ==
  ASSUME BinderTypes, ProcessTypes, NetTypes, CallTypes, WorkerTypes, Calls, [Next]_vars,
         binder' # "gone", NEW p, NEW c \in Call, Asks(p, c),
         caller'[c] = caller[c], pc'[c] = pc[c], fn'[c] = fn[c],
         toBinder'[p] = toBinder[p], toProcess'[p] = toProcess[p]
  PROVE  Asks(p, c)'
<1>1. fn[c] \in Function
  BY DEF Asks, Calls, CallOK
<1>2. \A s \in Server : Known(fn[c], s) => Known(fn[c], s)'
  BY <1>1, KnownOfCall
<1>. QED
  BY <1>2 DEF Asks

LEMMA ClientLinesStep ==
  ASSUME BinderTypes, ProcessTypes, NetTypes, CallTypes, WorkerTypes, Mains, Calls, OneCall, Bound,
         ClientLines, [Next]_vars, binder # "gone", binder' # "gone", NEW p \in Client
  PROVE  ClientLine(p)'
<1>0. /\ p \in Process /\ p \notin Server /\ ClientLine(p)
      /\ toBinder[p] \in Seq(Message) /\ toProcess[p] \in Seq(Message)
  BY Disjoint DEF NetTypes, ClientLines
<1>1. ASSUME proc'[p] = proc[p], toBinder'[p] = toBinder[p], toProcess'[p] = toProcess[p],
             \A c \in Call : caller[c] = p /\ pc[c] = "locating" =>
               caller'[c] = caller[c] /\ pc'[c] = pc[c] /\ fn'[c] = fn[c]
      PROVE  ClientLine(p)'
  <2>1. \A c \in Call : Asks(p, c) => Asks(p, c)'
    BY <1>1, AsksStep DEF Asks
  <2>. QED
    BY <1>0, <1>1, <2>1 DEF ClientLine
<1>2. ASSUME proc'[p] # "idle"
      PROVE  ClientLine(p)'
  BY <1>2 DEF ClientLine
<1>3. ASSUME NEW q \in Process, BinderLocates(q)
      PROVE  ClientLine(p)'
  <2>1. UNCHANGED <<proc, caller, pc, fn>>
    BY <1>3 DEF BinderLocates, BinderReceives, binderFrame, processVars, callVars
  <2>2. /\ toBinder[q] # <<>> /\ toBinder'[q] = Tail(toBinder[q])
        /\ \A r \in Process \ {q} : toBinder'[r] = toBinder[r]
    BY <1>3, ReceivesEffect DEF BinderLocates
  <2>3. PICK m \in Message :
          /\ Answered(q, m)
          /\ \/ m = Plain("LOCATE_FAILURE")
             \/ \E s \in Server : <<Head(toBinder[q]).fn, s>> \in bound /\ m = LocateSuccess(s)
    BY <1>3, MessageTypes DEF BinderLocates, Found
  <2>4. /\ \A r \in Process \ {q} : toProcess'[r] = toProcess[r]
        /\ toProcess'[q] = IF Gone(q) THEN toProcess[q] ELSE Append(toProcess[q], m)
    BY <2>3, AnsweredEffect
  <2>5. CASE q # p
    BY <1>0, <1>1, <2>1, <2>2, <2>4, <2>5
  <2>6. CASE q = p /\ proc[p] = "idle"
    <3>1. PICK c \in Call : Asks(p, c)
      BY <1>0, <2>2, <2>6 DEF ClientLine
    <3>2. /\ toBinder[p] = <<LocateRequest(fn[c])>> /\ toProcess[p] = <<>>
          /\ caller[c] = p /\ pc[c] = "locating" /\ fn[c] \in Function
      BY <2>2, <2>6, <3>1 DEF Asks, Calls, CallOK
    <3>3. toBinder'[p] = <<>> /\ Head(toBinder[p]).fn = fn[c]
      BY <2>2, <2>6, <3>2, Single DEF LocateRequest
    <3>4. toProcess'[p] = <<m>>
      BY <1>0, <2>4, <2>6, <3>2, Appending DEF Gone
    <3>5. CASE m = Plain("LOCATE_FAILURE")
      BY <2>1, <3>2, <3>3, <3>4, <3>5 DEF ClientLine, Asks
    <3>6. ASSUME NEW s \in Server, <<fn[c], s>> \in bound, m = LocateSuccess(s)
          PROVE  ClientLine(p)'
      <4>1. Known(fn[c], s)
        BY <3>2, <3>6 DEF Bound
      <4>2. Known(fn[c], s)'
        BY <2>1, <3>2, <4>1, KnownOfCall
      <4>. QED
        BY <2>1, <3>2, <3>3, <3>4, <3>6, <4>2 DEF ClientLine, Asks
    <3>. QED
      BY <2>3, <2>6, <3>3, <3>5, <3>6
  <2>7. CASE q = p /\ proc[p] # "idle"
    BY <1>2, <2>1, <2>7
  <2>. QED
    BY <2>5, <2>6, <2>7
<1>4. ASSUME NEW q \in Process, BinderRegisters(q) \/ BinderTerminates(q)
      PROVE  ClientLine(p)'
  <2>1. UNCHANGED <<proc, caller, pc, fn>>
    BY <1>4 DEF BinderRegisters, BinderTerminates, BinderReceives, binderFrame, processVars, callVars
  <2>2. /\ toBinder[q] # <<>> /\ Head(toBinder[q]).type # "LOCATE_REQUEST"
        /\ \A r \in Process \ {q} : toBinder'[r] = toBinder[r]
    BY <1>4, ReceivesEffect DEF BinderRegisters, BinderTerminates
  <2>3. \A r \in Process \ {q} : toProcess'[r] = toProcess[r]
    <3>1. CASE BinderTerminates(q)
      BY <3>1 DEF BinderTerminates
    <3>2. CASE BinderRegisters(q)
      <4>1. Plain("REGISTER_SUCCESS") \in Message /\ Answered(q, Plain("REGISTER_SUCCESS"))
        BY <3>2, MessageTypes DEF BinderRegisters
      <4>. QED
        BY <4>1, AnsweredEffect
    <3>. QED
      BY <1>4, <3>1, <3>2
  <2>4. CASE q # p
    BY <1>0, <1>1, <2>1, <2>2, <2>3, <2>4
  <2>5. CASE q = p
    <3>1. ASSUME proc[p] = "idle"
          PROVE  FALSE
      <4>1. PICK c \in Call : Asks(p, c)
        BY <1>0, <2>2, <2>5, <3>1 DEF ClientLine
      <4>2. toBinder[p] = <<LocateRequest(fn[c])>>
        BY <2>2, <2>5, <4>1 DEF Asks
      <4>. QED
        BY <2>2, <2>5, <4>2, Single DEF LocateRequest
    <3>. QED
      BY <1>2, <2>1, <3>1
  <2>. QED
    BY <2>4, <2>5
<1>5. CASE (\E q \in Process : BinderForgets(q)) \/ (\E s \in Server : BinderAsks(s)) \/ BinderHears
  <2>1. UNCHANGED <<proc, caller, pc, fn>>
    BY <1>5 DEF BinderForgets, BinderAsks, BinderHears, binderFrame, processVars, callVars
  <2>2. toBinder'[p] = toBinder[p]
    <3>1. asked # p
      BY <1>0, Disjoint DEF BinderTypes
    <3>. QED
      BY <1>0, <1>5, <3>1 DEF BinderForgets, BinderAsks, BinderHears, NetTypes
  <2>3. ASSUME NEW s \in Server, BinderAsks(s)
        PROVE  toProcess'[p] = toProcess[p]
    <3>1. s \in Process /\ s # p /\ Plain("TERMINATE") \in Message /\ Answered(s, Plain("TERMINATE"))
      BY <1>0, <2>3, Disjoint, MessageTypes DEF BinderAsks
    <3>. QED
      BY <1>0, <3>1, AnsweredEffect
  <2>4. toProcess'[p] = toProcess[p]
    BY <1>5, <2>3 DEF BinderForgets, BinderHears
  <2>. QED
    BY <1>1, <2>1, <2>2, <2>4
<1>6. CASE BinderMoves
  <2>1. ~BinderExits /\ ~BinderCrashes
    BY DEF BinderExits, BinderCrashes, Vanish
  <2>. QED
    BY <1>3, <1>4, <1>5, <1>6, <2>1 DEF BinderMoves, BinderStep
<1>7. ASSUME NEW s \in Server, ServerMoves(s)
      PROVE  ClientLine(p)'
  <2>1. s \in Process /\ s # p
    BY <1>0, Disjoint
  <2>2. proc'[p] = proc[p] /\ toProcess'[p] = toProcess[p]
    BY <1>0, <1>7, <2>1 DEF ServerMoves, RpcInit, RpcRegister, RpcRegisterReturns, Executes,
       BinderListens, LeaveLoop, ServeReturns, Received, netVars, ProcessTypes, NetTypes
  <2>3. toBinder'[p] = toBinder[p]
    BY <1>0, <1>7, <2>1, Sends
  <2>. QED
    BY <1>1, <1>7, <2>2, <2>3, MainFrame DEF callVars
<1>8. ASSUME NEW q \in Client, Terminates(q)
      PROVE  ClientLine(p)'
  <2>1. CASE q = p
    BY <1>0, <1>2, <1>8, <2>1 DEF Terminates, ProcessTypes
  <2>2. CASE q # p
    <3>1. q \in Process /\ Plain("TERMINATE") \in Message
      BY Disjoint, MessageTypes
    <3>2. toBinder'[p] = toBinder[p]
      BY <1>0, <1>8, <2>2, <3>1, SentEffect DEF Terminates
    <3>3. proc'[p] = proc[p] /\ toProcess'[p] = toProcess[p]
      BY <1>0, <1>8, <2>2 DEF Terminates, ProcessTypes
    <3>. QED
      BY <1>1, <1>8, <3>2, <3>3, MainFrame DEF callVars
  <2>. QED
    BY <2>1, <2>2
<1>9. ASSUME NEW q \in Process, Ends(q)
      PROVE  ClientLine(p)'
  <2>1. CASE q = p
    BY <1>2, <1>9, <2>1, EndEffect DEF Ends
  <2>2. CASE q # p
    <3>1. /\ proc'[p] = proc[p] /\ toProcess'[p] = toProcess[p] /\ toBinder'[p] = toBinder[p]
          /\ \A c \in Call : caller[c] = p => pc'[c] = pc[c]
          /\ UNCHANGED <<caller, fn>>
      BY <1>0, <1>9, <2>2, EndEffect DEF Ends
    <3>. QED
      BY <1>1, <3>1
  <2>. QED
    BY <2>1, <2>2
<1>10. ASSUME NEW c \in Call, Begins(c)
       PROVE  ClientLine(p)'
  <2>1. PICK q \in Process, f \in Function, d \in Call \cup {None} : RpcCall(c, q, f, d)
    <3>1. \A x \in Call : worker[x] = "running" => at[x] \in Process
      BY DEF Calls, CallOK, CallTypes, Process
    <3>. QED
      BY <1>10, <3>1, Disjoint DEF Begins, ClientCalls, SkeletonCalls
  <2>2. /\ pc[c] = "idle" /\ caller'[c] = q /\ fn'[c] = f
        /\ \A x \in Call \ {c} : caller'[x] = caller[x] /\ pc'[x] = pc[x] /\ fn'[x] = fn[x]
        /\ UNCHANGED <<proc, toProcess>>
    BY <2>1, CallEffect DEF processVars
  <2>3. PICK k \in {"none", "open", "lost"} :
          /\ LazyConnection(q, k) /\ Sent(q, k, LocateRequest(f))
          /\ pc'[c] = "locating" \/ k # "open"
    BY <2>1 DEF RpcCall, CallTypes
  <2>4. LocateRequest(f) \in Message
    BY MessageTypes
  <2>5. /\ \A r \in Process \ {q} : toBinder'[r] = toBinder[r]
        /\ toBinder'[q] = IF k = "open" THEN Append(toBinder[q], LocateRequest(f)) ELSE toBinder[q]
    BY <2>3, <2>4, SentEffect
  <2>6. CASE q # p
    BY <1>0, <1>1, <2>2, <2>5, <2>6
  <2>7. CASE q = p /\ proc[p] = "idle"
    <3>1. NoCallOf(p)
      BY <1>10, <2>2, <2>7, ClientBegins
    <3>2. toBinder[p] = <<>> /\ toProcess[p] = <<>>
      BY <1>0, <2>7, <3>1 DEF ClientLine, Asks, NoCallOf, Calling
    <3>3. CASE k = "open"
      <4>1. toBinder'[p] = <<LocateRequest(f)>>
        BY <1>0, <2>4, <2>5, <2>7, <3>2, <3>3, Appending
      <4>2. Asks(p, c)'
        BY <2>2, <2>3, <2>7, <3>2, <3>3, <4>1 DEF Asks
      <4>. QED
        BY <4>2 DEF ClientLine
    <3>4. CASE k # "open"
      BY <2>2, <2>5, <2>7, <3>2, <3>4 DEF ClientLine
    <3>. QED
      BY <3>3, <3>4
  <2>8. CASE q = p /\ proc[p] # "idle"
    BY <1>2, <2>2, <2>8
  <2>. QED
    BY <2>6, <2>7, <2>8
<1>11. ASSUME NEW c \in Call, RpcCallLocates(c)
       PROVE  ClientLine(p)'
  <2>1. UNCHANGED <<proc, caller, fn, toBinder>>
    BY <1>11 DEF RpcCallLocates, callFrame, processVars
  <2>2. pc[c] = "locating" /\ \A x \in Call \ {c} : pc'[x] = pc[x]
    BY <1>11 DEF RpcCallLocates, Returns, CallTypes
  <2>3. CASE caller[c] # p
    <3>1. toProcess'[p] = toProcess[p]
      BY <1>0, <1>11, <2>3 DEF RpcCallLocates, Received, NetTypes
    <3>. QED
      BY <1>1, <2>1, <2>2, <2>3, <3>1
  <2>4. CASE caller[c] = p /\ proc[p] = "idle"
    <3>1. ~Lost(p)
      BY <1>0, <2>4 DEF Lost, Mains, Gone
    <3>2. Readable(p) /\ Received(p)
      BY <1>11, <2>4, <3>1 DEF RpcCallLocates, Is
    <3>3. PICK e \in Call : Asks(p, e)
      BY <1>0, <2>4, <3>2 DEF ClientLine, Readable
    <3>4. toBinder[p] = <<>> /\ \E m : toProcess[p] = <<m>>
      BY <3>2, <3>3 DEF Asks, Readable
    <3>5. toProcess'[p] = <<>>
      BY <1>0, <3>2, <3>4, ReceivedEffect, Single
    <3>. QED
      BY <2>1, <3>4, <3>5 DEF ClientLine
  <2>5. CASE proc[p] # "idle"
    BY <1>2, <2>1, <2>5
  <2>. QED
    BY <2>3, <2>4, <2>5
<1>12. ASSUME NEW c \in Call, RpcCallReturns(c)
       PROVE  ClientLine(p)'
  <2>1. /\ UNCHANGED <<proc, caller, fn, toBinder, toProcess>>
        /\ pc[c] = "executing" /\ \A x \in Call \ {c} : pc'[x] = pc[x]
    BY <1>12 DEF RpcCallReturns, Returns, callFrame, processVars, netVars, CallTypes
  <2>. QED
    BY <1>1, <2>1
<1>13. \A c \in Call : WorkerStep(c) => UNCHANGED <<proc, toBinder, toProcess, caller, fn, pc>>
  BY WorkerFrame DEF workerFrame, processVars, callVars, netVars
<1>14. CASE UNCHANGED <<proc, toBinder, toProcess, caller, fn, pc>>
  BY <1>1, <1>14
<1>. QED
  BY <1>6, <1>7, <1>8, <1>9, <1>10, <1>11, <1>12, <1>13, <1>14, Steps
     DEF CallStep, vars, processVars, callVars, netVars

\* What a server has asked for, it has asked for; what it asks for, a call of it
\* asks for.
LEMMA SourceStep ==
  ASSUME ProcessTypes, NetTypes, CallTypes, WorkerTypes, Calls, [Next]_vars,
         NEW p \in Process, NEW g, Source(p, g)
  PROVE  Source(p, g)'
<1>1. PICK e \in Call : caller[e] = p /\ fn[e] = g
  BY DEF Source
<1>2. pc[e] # "idle"
  BY <1>1, Disjoint DEF Calls, CallOK
<1>3. caller'[e] = p /\ fn'[e] = g
  BY <1>1, <1>2, OnlyBegins
<1>. QED
  BY <1>3 DEF Source

LEMMA Requests ==
  ASSUME BinderTypes, ProcessTypes, NetTypes, CallTypes, WorkerTypes, Calls, [Next]_vars,
         NEW p \in Process, NEW m \in Messages(toBinder'[p]), m.type = "LOCATE_REQUEST"
  PROVE  m \in Messages(toBinder[p]) \/ Source(p, m.fn)'
<1>0. toBinder[p] \in Seq(Message)
  BY DEF NetTypes
<1>1. ASSUME \/ toBinder'[p] = toBinder[p] \/ toBinder'[p] = <<>>
             \/ toBinder[p] # <<>> /\ toBinder'[p] = Tail(toBinder[p])
      PROVE  m \in Messages(toBinder[p])
  BY <1>0, <1>1, MessagesOf, NoMessage
<1>2. ASSUME NEW n \in Message, n.type # "LOCATE_REQUEST",
             toBinder'[p] = toBinder[p] \/ toBinder'[p] = Append(toBinder[p], n)
      PROVE  m \in Messages(toBinder[p])
  <2>1. Messages(Append(toBinder[p], n)) = Messages(toBinder[p]) \cup {n}
    BY <1>0, MessagesOf
  <2>. QED
    BY <1>2, <2>1
<1>3. CASE BinderMoves
  BY <1>1, <1>3, BinderTakes
<1>4. ASSUME NEW s \in Server, ServerMoves(s)
      PROVE  m \in Messages(toBinder[p])
  <2>1. CASE toBinder'[p] = toBinder[p]
    BY <1>1, <2>1
  <2>2. CASE toBinder'[p] # toBinder[p]
    <3>1. p = s
      BY <1>0, <1>4, <2>2, Sends
    <3>2. PICK n \in Message : /\ n.type \in {"REGISTER", "TERMINATE_SUCCESS"}
                               /\ toBinder'[s] = Append(toBinder[s], n)
      BY <1>4, <2>2, <3>1, Sends
    <3>3. n.type # "LOCATE_REQUEST"
      BY <3>2
    <3>. QED
      BY <1>2, <3>1, <3>2, <3>3
  <2>. QED
    BY <2>1, <2>2
<1>5. ASSUME NEW q \in Client, Terminates(q)
      PROVE  m \in Messages(toBinder[p])
  <2>1. q \in Process /\ Plain("TERMINATE") \in Message /\ Plain("TERMINATE").type # "LOCATE_REQUEST"
    BY Disjoint, MessageTypes
  <2>2. \E k \in {"open", "lost"} : Sent(q, k, Plain("TERMINATE"))
    BY <1>5 DEF Terminates
  <2>3. toBinder'[p] = toBinder[p] \/ toBinder'[p] = Append(toBinder[p], Plain("TERMINATE"))
    BY <2>1, <2>2, SentEffect
  <2>. QED
    BY <1>2, <2>1, <2>3
<1>6. ASSUME NEW q \in Process, Ends(q)
      PROVE  m \in Messages(toBinder[p])
  BY <1>1, <1>6 DEF Ends
<1>7. ASSUME NEW c \in Call, NEW q \in Process, NEW f \in Function, NEW d, RpcCall(c, q, f, d)
      PROVE  m \in Messages(toBinder[p]) \/ Source(p, m.fn)'
  <2>1. LocateRequest(f) \in Message /\ LocateRequest(f).fn = f
    BY MessageTypes
  <2>2. PICK k \in {"none", "open", "lost"} : Sent(q, k, LocateRequest(f))
    BY <1>7 DEF RpcCall
  <2>3. /\ \A r \in Process \ {q} : toBinder'[r] = toBinder[r]
        /\ toBinder'[q] = toBinder[q] \/ toBinder'[q] = Append(toBinder[q], LocateRequest(f))
    BY <2>1, <2>2, SentEffect
  <2>4. CASE toBinder'[p] = toBinder[p]
    BY <2>4
  <2>5. CASE p = q /\ toBinder'[p] = Append(toBinder[p], LocateRequest(f))
    <3>1. m \in Messages(toBinder[p]) \/ m = LocateRequest(f)
      BY <1>0, <2>1, <2>5, MessagesOf
    <3>2. caller'[c] = p /\ fn'[c] = f
      BY <1>7, <2>5, CallEffect
    <3>. QED
      BY <2>1, <3>1, <3>2 DEF Source
  <2>. QED
    BY <2>3, <2>4, <2>5
<1>8. ASSUME NEW c \in Call, Begins(c)
      PROVE  m \in Messages(toBinder[p]) \/ Source(p, m.fn)'
  <2>1. \A d \in Call : worker[d] = "running" => at[d] \in Process
    BY DEF Calls, CallOK, CallTypes, Process
  <2>. QED
    BY <1>7, <1>8, <2>1, Disjoint DEF Begins, ClientCalls, SkeletonCalls
<1>9. \A c \in Call : CallStep(c) \/ WorkerStep(c) => toBinder' = toBinder
  BY CallFrame, WorkerFrame DEF workerFrame, netVars
<1>. QED
  BY <1>1, <1>3, <1>4, <1>5, <1>6, <1>8, <1>9, Steps DEF vars, netVars

\* Only the binder says something to a process.
LEMMA Untold ==
  ASSUME ProcessTypes, NetTypes, CallTypes, WorkerTypes, Calls, [Next]_vars, ~BinderMoves,
         NEW p \in Process
  PROVE  Messages(toProcess'[p]) \subseteq Messages(toProcess[p])
<1>0. toProcess[p] \in Seq(Message)
  BY DEF NetTypes
<1>1. CASE toProcess'[p] = toProcess[p] \/ toProcess'[p] = <<>>
  BY <1>1, NoMessage
<1>2. ASSUME NEW q \in Process, Readable(q), Received(q)
      PROVE  Messages(toProcess'[p]) \subseteq Messages(toProcess[p])
  <2>1. CASE q = p
    <3>1. toProcess'[p] = Tail(toProcess[p]) /\ toProcess[p] # <<>>
      BY <1>2, <2>1, ReceivedEffect DEF Readable
    <3>. QED
      BY <1>0, <3>1, MessagesOf
  <2>2. CASE q # p
    BY <1>1, <1>2, <2>2, ReceivedEffect
  <2>. QED
    BY <2>1, <2>2
<1>3. ASSUME NEW s \in Server, ServerMoves(s)
      PROVE  Messages(toProcess'[p]) \subseteq Messages(toProcess[p])
  <2>1. s \in Process
    BY Disjoint
  <2>2. (Readable(s) /\ Received(s)) \/ toProcess' = toProcess
    BY <1>3 DEF ServerMoves, RpcInit, RpcRegister, RpcRegisterReturns, Executes, BinderListens,
       LeaveLoop, ServeReturns, netVars
  <2>. QED
    BY <1>1, <1>2, <2>1, <2>2
<1>4. \A q \in Client : Terminates(q) => toProcess' = toProcess
  BY DEF Terminates
<1>5. \A q \in Process : Ends(q) => toProcess'[p] = toProcess[p] \/ toProcess'[p] = <<>>
  BY EndEffect DEF Ends
<1>6. ASSUME NEW c \in Call, CallStep(c)
      PROVE  Messages(toProcess'[p]) \subseteq Messages(toProcess[p])
  <2>1. caller[c] \in Process
    BY <1>6 DEF CallStep, RpcCallLocates, RpcCallReturns, Calls, CallOK
  <2>2. (Readable(caller[c]) /\ Received(caller[c])) \/ toProcess' = toProcess
    BY <1>6 DEF CallStep, RpcCallLocates, RpcCallReturns, Is, netVars
  <2>. QED
    BY <1>1, <1>2, <2>1, <2>2
<1>7. \A c \in Call : Begins(c) \/ WorkerStep(c) => toProcess' = toProcess
  BY CallFrame, WorkerFrame DEF workerFrame, netVars
<1>. QED
  BY <1>1, <1>3, <1>4, <1>5, <1>6, <1>7, Steps DEF vars, netVars

LEMMA SourcesStep ==
  ASSUME BinderTypes, ProcessTypes, NetTypes, CallTypes, WorkerTypes, Mains, Calls, Bound,
         Sources, [Next]_vars, binder' # "gone"
  PROVE  Sources'
<1>1. ASSUME NEW p \in Server, NEW m \in Messages(toBinder'[p]), m.type = "LOCATE_REQUEST"
      PROVE  Source(p, m.fn)'
  <2>1. p \in Process
    BY Disjoint
  <2>2. CASE m \in Messages(toBinder[p])
    <3>1. Source(p, m.fn)
      BY <1>1, <2>2 DEF Sources
    <3>. QED
      BY <2>1, <3>1, SourceStep
  <2>. QED
    BY <1>1, <2>1, <2>2, Requests
<1>2. ASSUME NEW p \in Server, NEW m \in Messages(toProcess'[p]), m.type = "LOCATE_SUCCESS"
      PROVE  \E g \in Function : Source(p, g)' /\ Known(g, m.at)'
  <2>0. p \in Process /\ toProcess[p] \in Seq(Message) /\ toProcess'[p] \in Seq(Message)
    BY Disjoint, NetTyped DEF NetTypes
  <2>1. m.at \in Server
    BY <1>2, <2>0, MessagesOf, MessageTypes
  <2>2. ASSUME NEW g \in Function, Source(p, g), Known(g, m.at)
        PROVE  Source(p, g)' /\ Known(g, m.at)'
    <3>1. Source(p, g)'
      BY <2>0, <2>2, SourceStep
    <3>2. PICK s \in Server : s = m.at
      BY <2>1
    <3>3. Known(g, s)'
      BY <2>2, <3>2, KnownStep
    <3>. QED
      BY <3>1, <3>2, <3>3
  <2>3. CASE m \in Messages(toProcess[p])
    BY <1>2, <2>2, <2>3 DEF Sources
  <2>4. CASE m \notin Messages(toProcess[p])
    <3>1. BinderMoves
      BY <2>0, <2>4, Untold
    <3>2. BinderLocates(p)
      <4>1. PICK n \in Message : /\ toProcess'[p] = Append(toProcess[p], n)
                                 /\ n.type = "LOCATE_SUCCESS" => BinderLocates(p)
        BY <2>0, <2>4, <3>1, BinderSays
      <4>2. m = n
        BY <2>0, <2>4, <4>1, MessagesOf
      <4>. QED
        BY <1>2, <4>1, <4>2
    <3>3. /\ Head(toBinder[p]) \in Message /\ Head(toBinder[p]).type = "LOCATE_REQUEST"
          /\ toBinder[p] # <<>> /\ toBinder[p] \in Seq(Message)
      BY <2>0, <3>2, ReceivesEffect DEF BinderLocates, NetTypes
    <3>4. PICK g \in Function : g = Head(toBinder[p]).fn
      BY <3>3, MessageTypes
    <3>5. Source(p, g)
      BY <3>3, <3>4, MessagesOf DEF Sources
    <3>6. PICK n \in Message :
            /\ Answered(p, n)
            /\ \/ n = Plain("LOCATE_FAILURE")
               \/ \E s \in Server : <<g, s>> \in bound /\ n = LocateSuccess(s)
      BY <3>2, <3>4, MessageTypes DEF BinderLocates, Found
    <3>7. toProcess'[p] = toProcess[p] \/ toProcess'[p] = Append(toProcess[p], n)
      BY <2>0, <3>6, AnsweredEffect
    <3>8. m = n
      <4>1. Messages(Append(toProcess[p], n)) = Messages(toProcess[p]) \cup {n}
        BY <2>0, MessagesOf
      <4>. QED
        BY <2>4, <3>7, <4>1
    <3>9. Known(g, m.at)
      BY ZenonT(60), <1>2, <3>6, <3>8, MessageTypes DEF Bound
    <3>. QED
      BY <2>2, <3>5, <3>9
  <2>. QED
    BY <2>3, <2>4
<1>. QED
  BY <1>1, <1>2 DEF Sources

-----------------------------------------------------------------------------
(* Where calls are sent, and which are refused.                            *)

\* Calls that have crossed stay so.
LEMMA CrossingStep ==
  ASSUME ProcessTypes, NetTypes, CallTypes, WorkerTypes, Calls, [Next]_vars,
         NEW c \in Call, pc[c] # "idle", Crossing(c)
  PROVE  Crossing(c)'
<1>1. PICK e \in Call \ {c} : caller[e] = caller[c] /\ within[e] # None /\ fn[e] # fn[c]
  BY DEF Crossing
<1>2. pc[e] # "idle"
  BY <1>1 DEF Calls, CallOK
<1>3. /\ caller'[e] = caller[e] /\ within'[e] = within[e] /\ fn'[e] = fn[e]
      /\ caller'[c] = caller[c] /\ fn'[c] = fn[c]
  BY <1>2, OnlyBegins
<1>. QED
  BY <1>1, <1>3 DEF Crossing

\* A call is sent to a server that knows its function, or answers have crossed.
LEMMA LocatesRight ==
  ASSUME ProcessTypes, NetTypes, CallTypes, Mains, Calls, OneCall, ClientLines, Sources,
         NEW c \in Call, RpcCallLocates(c), at'[c] # at[c]
  PROVE  /\ at'[c] \in Server
         /\ Known(fn[c], at'[c]) \/ Crossing(c)
<1>1. PICK p \in Process : p = caller[c]
  BY DEF RpcCallLocates, Calls, CallOK
<1>2. /\ Is(p, "LOCATE_SUCCESS") /\ at'[c] = Head(toProcess[p]).at
      /\ pc[c] = "locating" /\ fn[c] \in Function
  BY <1>1 DEF RpcCallLocates, CallTypes, Calls, CallOK
<1>3. /\ toProcess[p] \in Seq(Message) /\ toProcess[p] # <<>>
      /\ Head(toProcess[p]).type = "LOCATE_SUCCESS"
  BY <1>2 DEF NetTypes, Is, Readable
<1>4. Head(toProcess[p]) \in Messages(toProcess[p]) /\ Head(toProcess[p]) \in Message
  BY <1>3, MessagesOf
<1>5. at'[c] \in Server
  BY <1>2, <1>3, <1>4, MessageTypes
<1>6. CASE p \in Client
  <2>1. proc[p] = "idle"
    BY <1>1, <1>2, <1>6 DEF Calls, CallOK, Calling
  <2>2. PICK d \in Call : Asks(p, d)
    BY <1>3, <1>6, <2>1 DEF ClientLines, ClientLine
  <2>3. d = c
    BY <1>1, <1>2, <1>6, <2>2 DEF OneCall, Asks, Calling
  <2>4. \/ toProcess[p] = <<Plain("LOCATE_FAILURE")>>
        \/ \E s \in Server : toProcess[p] = <<LocateSuccess(s)>> /\ Known(fn[c], s)
    BY <1>3, <2>2, <2>3 DEF Asks
  <2>5. toProcess[p] # <<Plain("LOCATE_FAILURE")>>
    BY <1>3, Single DEF Plain
  <2>6. PICK s \in Server : toProcess[p] = <<LocateSuccess(s)>> /\ Known(fn[c], s)
    BY <2>4, <2>5
  <2>7. at'[c] = s
    BY <1>2, <2>6, Single DEF LocateSuccess
  <2>. QED
    BY <1>5, <2>6, <2>7
<1>7. CASE p \in Server
  <2>1. PICK g \in Function : Source(p, g) /\ Known(g, at'[c])
    BY <1>2, <1>3, <1>4, <1>7 DEF Sources
  <2>2. PICK e \in Call : caller[e] = p /\ fn[e] = g
    BY <2>1 DEF Source
  <2>3. within[e] # None
    BY <1>7, <2>2 DEF Calls, CallOK
  <2>4. CASE g = fn[c]
    BY <1>5, <2>1, <2>4
  <2>5. CASE g # fn[c]
    BY <1>1, <1>5, <2>2, <2>3, <2>5 DEF Crossing
  <2>. QED
    BY <2>4, <2>5
<1>. QED
  BY <1>6, <1>7, Disjoint

LEMMA LocatedStep ==
  ASSUME BinderTypes, ProcessTypes, NetTypes, CallTypes, WorkerTypes, Mains, Calls, OneCall,
         ClientLines, Sources, AllLocated, [Next]_vars, binder' # "gone", NEW c \in Call
  PROVE  Located(c)'
<1>1. at'[c] = at[c] \/ RpcCallLocates(c)
  <2>1. \A p \in Process : Ends(p) => at' = at
    BY DEF Ends, End
  <2>2. ASSUME NEW d \in Call, CallStep(d)
        PROVE  at'[c] = at[c] \/ RpcCallLocates(c)
    BY <2>2 DEF CallStep, RpcCallLocates, RpcCallReturns, CallTypes
  <2>. QED
    BY <2>1, <2>2, Steps, BinderFrame, MainFrame, CallFrame, WorkerFrame
       DEF vars, workerFrame, callVars
<1>2. ASSUME at'[c] # None, NEW s \in Server, s = at'[c], Known(fn[c], s) \/ Crossing(c),
             pc[c] # "idle"
      PROVE  Located(c)'
  <2>1. fn'[c] = fn[c] /\ fn[c] \in Function
    BY <1>2, OnlyBegins DEF Calls, CallOK
  <2>2. CASE Crossing(c)
    BY <1>2, <2>2, CrossingStep DEF Located
  <2>3. CASE Known(fn[c], s)
    <3>1. Known(fn[c], s)'
      BY <2>1, <2>3, KnownOfCall
    <3>. QED
      BY <1>2, <3>1 DEF Located
  <2>. QED
    BY <1>2, <2>2, <2>3
<1>3. CASE at'[c] = None
  BY <1>3 DEF Located
<1>4. CASE at'[c] = at[c] /\ at[c] # None
  <2>1. pc[c] # "idle" /\ at[c] \in Server
    BY <1>4 DEF Calls, CallOK, CallTypes
  <2>2. Known(fn[c], at[c]) \/ Crossing(c)
    BY <1>4 DEF AllLocated, Located
  <2>. QED
    BY <1>2, <1>4, <2>1, <2>2
<1>5. CASE at'[c] # at[c]
  <2>1. RpcCallLocates(c) /\ pc[c] # "idle"
    BY <1>1, <1>5 DEF RpcCallLocates
  <2>2. at'[c] \in Server /\ (Known(fn[c], at'[c]) \/ Crossing(c))
    BY <1>5, <2>1, LocatesRight
  <2>3. PICK s \in Server : s = at'[c]
    BY <2>2
  <2>4. Known(fn[c], s) \/ Crossing(c)
    BY <2>2, <2>3
  <2>. QED
    BY <1>2, <1>3, <2>1, <2>3, <2>4
<1>. QED
  BY <1>3, <1>4, <1>5

LEMMA RefusedStep ==
  ASSUME BinderTypes, ProcessTypes, NetTypes, CallTypes, WorkerTypes, Calls, Stages,
         Refused, binder # "gone" => AllLocated, [Next]_vars
  PROVE  Refused'
<1> SUFFICES ASSUME NEW c \in Call, worker'[c] = "refused" \/ answer'[c] = "refused",
                    binder' # "gone"
             PROVE  Crossing(c)'
  BY DEF Refused
<1>1. binder # "gone"
  BY GoneStays
<1>2. \/ worker[c] = "refused" \/ answer[c] = "refused"
      \/ HandleExecute(c) /\ fn[c] \notin database[at[c]]
  <2>1. \A p \in Process : Ends(p) =>
          answer' = answer /\ (worker'[c] = worker[c] \/ worker'[c] = "gone")
    BY EndEffect DEF Ends
  <2>2. ASSUME NEW d \in Call, WorkerStep(d)
        PROVE  \/ worker[c] = "refused" \/ answer[c] = "refused"
               \/ HandleExecute(c) /\ fn[c] \notin database[at[c]]
    <3>1. CASE d # c
      BY <2>2, <3>1 DEF WorkerStep, Accept, HandleExecute, Answer, HangUp, WorkerTypes
    <3>2. CASE Accept(c) \/ HandleExecute(c) \/ Answer(c) \/ HangUp(c)
      BY <3>2 DEF Accept, HandleExecute, Answer, HangUp, WorkerTypes
    <3>. QED
      BY <2>2, <3>1, <3>2 DEF WorkerStep
  <2>. QED
    BY <2>1, <2>2, Steps, BinderFrame, MainFrame, CallFrame DEF vars, workerVars
<1>3. worker[c] # "none"
  <2>1. None # "refused"
    BY Disjoint DEF Result
  <2>2. CASE HandleExecute(c)
    BY <2>2 DEF HandleExecute
  <2>3. CASE answer[c] = "refused"
    BY <2>1, <2>3 DEF Stages, Stage
  <2>. QED
    BY <1>2, <2>2, <2>3
<1>4. Crossing(c)
  <2>1. CASE worker[c] = "refused" \/ answer[c] = "refused"
    BY <1>1, <2>1 DEF Refused
  <2>2. CASE HandleExecute(c) /\ fn[c] \notin database[at[c]]
    <3>1. worker[c] = "running" /\ at[c] # None /\ Executing(at[c])
      BY <2>2 DEF HandleExecute, Calls, CallOK
    <3>2. ~Known(fn[c], at[c])
      BY <2>2, <3>1 DEF Known, Executing, Serving, Gone
    <3>. QED
      BY <1>1, <3>1, <3>2 DEF AllLocated, Located
  <2>. QED
    BY <1>2, <2>1, <2>2
<1>5. pc[c] # "idle"
  BY <1>3 DEF Calls, CallOK
<1>. QED
  BY <1>4, <1>5, CrossingStep

-----------------------------------------------------------------------------
(* The theorems.                                                           *)

LEMMA UpBefore ==
  ASSUME NetTypes, [Next]_vars, binder' = "up"
  PROVE  binder = "up"
<1>1. CASE BinderMoves
  BY <1>1 DEF BinderMoves, BinderStep, BinderRegisters, BinderLocates, BinderForgets,
     BinderTerminates, BinderAsks, BinderHears, BinderExits, BinderCrashes,
     BinderReceives, Vanish, binderVars
<1>2. CASE UNCHANGED binderVars
  BY <1>2 DEF binderVars
<1>3. \A p \in Process : Ends(p) => UNCHANGED binderVars
  BY DEF Ends, End
<1>. QED
  BY <1>1, <1>2, <1>3, Steps, MainFrame, CallFrame, WorkerFrame DEF vars, workerFrame

LEMMA InitInv == Init => Inv
<1> SUFFICES ASSUME Init PROVE Inv
  OBVIOUS
<1>0. Server \subseteq Process /\ Client \subseteq Process
  BY Disjoint
<1>1. BinderTypes
  BY RpcApiAssumption DEF Init, BinderTypes
<1>2. ProcessTypes /\ Flags
  BY DEF Init, ProcessTypes, Flags
<1>3. NetTypes
  <2>1. <<>> \in Seq(Message)
    OBVIOUS
  <2>. QED
    BY <2>1 DEF Init, NetTypes
<1>4. CallTypes
  BY DEF Init, CallTypes
<1>5. WorkerTypes
  BY DEF Init, WorkerTypes
<1>6. Mains
  BY <1>0, Disjoint DEF Init, Mains
<1>7. Calls
  BY Disjoint DEF Init, Calls, CallOK, Calling
<1>8. OneCall
  BY DEF Init, OneCall, Calling
<1>9. None \notin {"ran", "refused"}
  BY Disjoint DEF Result
<1>10. Stages
  BY <1>9 DEF Init, Stages, Stage
<1>11. Registrants
  BY <1>0, NoMessage DEF Init, Registrants
<1>12. Refused
  BY <1>9 DEF Init, Refused
<1>13. Lines
  <2>1. ServerLines
    BY <1>0, NoMessage DEF Init, ServerLines, ServerLine
  <2>2. Bound
    BY DEF Init, Bound
  <2>3. ClientLines
    BY <1>0 DEF Init, ClientLines, ClientLine
  <2>4. Sources
    BY <1>0, NoMessage DEF Init, Sources
  <2>5. AllLocated
    BY DEF Init, AllLocated, Located
  <2>. QED
    BY <2>1, <2>2, <2>3, <2>4, <2>5 DEF Lines
<1>. QED
  BY <1>1, <1>2, <1>3, <1>4, <1>5, <1>6, <1>7, <1>8, <1>10, <1>11, <1>12, <1>13 DEF Inv

LEMMA NextInv == Inv /\ [Next]_vars => Inv'
<1> SUFFICES ASSUME Inv, [Next]_vars PROVE Inv'
  OBVIOUS
<1>0. /\ BinderTypes /\ ProcessTypes /\ Flags /\ NetTypes /\ CallTypes /\ WorkerTypes
      /\ Mains /\ Calls /\ OneCall /\ Stages /\ Registrants /\ Lines /\ Refused
  BY DEF Inv
<1>1. BinderTypes' /\ ProcessTypes' /\ Flags'
  BY <1>0, BinderTyped, ProcessTyped, FlagsTyped
<1>2. NetTypes' /\ CallTypes' /\ WorkerTypes'
  BY <1>0, NetTyped, CallTyped, WorkerTyped
<1>3. Mains' /\ Calls' /\ OneCall'
  BY <1>0, MainsStep, CallsStep, OneCallStep
<1>4. Stages' /\ Registrants'
  BY <1>0, StagesStep, RegistrantsStep
<1>5. Refused'
  BY <1>0, RefusedStep DEF Lines
<1>6. ASSUME binder' = "up"
      PROVE  ServerLines'
  <2>1. binder = "up"
    BY <1>0, <1>6, UpBefore
  <2>. QED
    BY <1>0, <1>6, <2>1, ServerLinesStep DEF Lines, ServerLines
<1>7. ASSUME binder' # "gone"
      PROVE  Bound' /\ ClientLines' /\ Sources' /\ AllLocated'
  <2>1. binder # "gone"
    BY <1>0, <1>7, GoneStays
  <2>2. Bound /\ ClientLines /\ Sources /\ AllLocated /\ (binder = "up" => ServerLines)
    BY <1>0, <2>1 DEF Lines
  <2>3. Bound'
    BY <1>0, <1>7, <2>2, BoundStep
  <2>4. ClientLines'
    BY <1>0, <1>7, <2>1, <2>2, ClientLinesStep DEF ClientLines
  <2>5. Sources'
    BY <1>0, <1>7, <2>2, SourcesStep
  <2>6. AllLocated'
    BY <1>0, <1>7, <2>2, LocatedStep DEF AllLocated
  <2>. QED
    BY <2>3, <2>4, <2>5, <2>6
<1>8. Lines'
  BY <1>6, <1>7 DEF Lines
<1>. QED
  BY <1>1, <1>2, <1>3, <1>4, <1>5, <1>8 DEF Inv

\* The invariant that the theorems below rest on: beside the types, what main
\* of a process does says what can be on its connection to the binder, and what
\* is on it, or has been read from it, names a server that has registered the
\* function, or has ended (rpc.cc:82-190).
THEOREM Invariance == Spec => []Inv
<1>1. Init => Inv
  BY InitInv
<1>2. Inv /\ [Next]_vars => Inv'
  BY NextInv
<1>. QED
  BY <1>1, <1>2, PTL DEF Spec

\* The globals of every process, the messages on its connection and its calls
\* have their types: no server but one that has registered is ever bound, asked
\* to terminate or named to a caller.
THEOREM TypeCorrect == Spec => []TypeOK
<1>1. Inv => TypeOK
  BY DEF Inv, BinderTypes, ProcessTypes, Flags, NetTypes, CallTypes, WorkerTypes, TypeOK
<1>. QED
  BY <1>1, Invariance, PTL

\* A server refuses a call that the binder has sent it only if the binder is
\* lost, or if another skeleton of the calling process has called another
\* function, so that the answers to the two can have been exchanged: otherwise
\* rpcRegister has put a function in the local database before the server serves,
\* if the binder has it (rpc.cc:118-141, libserver.cc:55-79).
THEOREM RefusalsExplained == Spec => []RefusedMeansBinderLost
<1>1. Inv => RefusedMeansBinderLost
  <2> SUFFICES ASSUME Inv, NEW c \in Call, result[c] = "refused"
               PROVE  binder = "gone" \/ Crossing(c)
    BY DEF RefusedMeansBinderLost
  <2>1. answer[c] = "refused"
    BY DEF Inv, Stages, Stage
  <2>. QED
    BY <2>1 DEF Inv, Refused
<1>. QED
  BY <1>1, Invariance, PTL

\* From rpcCall to the skeleton and back a call is served as module RemoteCall
\* promises: its skeleton is run at most once, rpcCall returns a result only of
\* one that was run, and reports a refusal only for one that never will be; the
\* calls that a process makes end with it, together.
THEOREM RpcApiImplementsRemoteCall == Spec => ImplementsRemoteCall
<1>1. Init => RC!Init
  BY Outcomes DEF Init, RC!Init, CallOutcome
<1>2. Inv /\ [Next]_vars => [RC!Next]_(RC!vars)
  BY StepImplements, CallTyped DEF Inv
<1>. QED
  BY <1>1, <1>2, Invariance, PTL DEF Spec, ImplementsRemoteCall, RC!Spec

=============================================================================
