------------------------------- MODULE RpcApi -------------------------------
(***************************************************************************)
(* The processes of a system that use rpc.h, through the globals each of   *)
(* them has: a server's main calls rpcInit, rpcRegister and rpcExecute and *)
(* does not look at what they return (server.c); a client's main calls     *)
(* rpcCall and rpcTerminate (client1.c); a skeleton may call rpcCall too.  *)
(* All of a process's threads use its one connection to the binder.        *)
(*                                                                         *)
(* The binder of module Binder serves one message at a time, the threads   *)
(* of module Server one call each.  The port of the binder is a new one    *)
(* each time it is started (tcp_server.cc:27), so that for a process there *)
(* is one binder, and none after it.                                       *)
(***************************************************************************)
EXTENDS Naturals, Sequences, FiniteSets

CONSTANTS
  Server, Client,   \* processes; one that is started again is another one
  Function,
  Nested,           \* the functions whose skeletons may call another
  Call,             \* calls of rpcCall, one thread each
  MaxFaults,        \* bound: crashes, and failures to connect or to listen
  None

Process == Server \cup Client

\* What rpcCall returns, or what becomes of it.
Result ==
  {"BINDER_CONNECTION_ERROR", "SERVER_CONNECTION_ERROR", "LOCATE_FAILURE",
   "UNEXPECTED_MESSAGE", "ran", "refused", "killed"}

ASSUME RpcApiAssumption ==
  /\ Server \cap Client = {}
  /\ Nested \subseteq Function
  /\ MaxFaults \in Nat
  /\ None \notin Process \cup Function \cup Call \cup Result

VARIABLES
  \* The binder.
  binder,       \* what its main does
  bound,        \* the functions it has registered, and whose they are
  waiting,      \* the servers handleTerminate has not asked yet
  asked,        \* the server it waits for
  asker,        \* the process that called rpcTerminate
  \* The processes.
  proc,         \* what main does
  conn,         \* the global binder: none, or a connection, which may be lost
  localServer,  \* whether the global local_server has been set
  database,     \* the keys of the global database
  pending,      \* the function main registers
  listening,    \* binder_listen_thread runs
  toBinder, toProcess,   \* messages on the connections
  \* The calls.
  caller,       \* the process of the thread
  within,       \* the call whose skeleton makes this one
  fn,           \* the function called
  pc,           \* where rpcCall is
  at,           \* the server it was told of
  result,       \* what it returned
  worker,       \* the thread that serves it
  runs,         \* how often its skeleton was run
  answer,       \* what was sent back
  faults        \* how often something failed

binderVars == <<binder, bound, waiting, asked, asker>>
processVars == <<proc, localServer, database, pending, listening>>
netVars == <<conn, toBinder, toProcess>>
callVars == <<caller, within, fn, pc, at, result>>
workerVars == <<worker, runs, answer>>
vars == <<binderVars, processVars, netVars, callVars, workerVars, faults>>

Register(f) == [type |-> "REGISTER", fn |-> f]
LocateRequest(f) == [type |-> "LOCATE_REQUEST", fn |-> f]
LocateSuccess(s) == [type |-> "LOCATE_SUCCESS", at |-> s]
Plain(type) == [type |-> type]

Gone(p) == proc[p] = "gone"
Serving(s) == proc[s] \in {"serving", "leaving"}
Calling(c) == pc[c] \in {"locating", "executing"}

Init ==
  /\ binder = "up" /\ bound = {} /\ waiting = {} /\ asked = None /\ asker = None
  /\ proc = [p \in Process |-> IF p \in Server THEN "init" ELSE "idle"]
  /\ conn = [p \in Process |-> "none"]
  /\ localServer = [s \in Server |-> FALSE]
  /\ database = [s \in Server |-> {}]
  /\ pending = [s \in Server |-> None]
  /\ listening = [s \in Server |-> FALSE]
  /\ toBinder = [p \in Process |-> <<>>]
  /\ toProcess = [p \in Process |-> <<>>]
  /\ caller = [c \in Call |-> None] /\ within = [c \in Call |-> None]
  /\ fn = [c \in Call |-> None] /\ pc = [c \in Call |-> "idle"]
  /\ at = [c \in Call |-> None] /\ result = [c \in Call |-> None]
  /\ worker = [c \in Call |-> "none"]
  /\ runs = [c \in Call |-> 0]
  /\ answer = [c \in Call |-> None]
  /\ faults = 0

-----------------------------------------------------------------------------
(* The connection to the binder.                                           *)

Fault == faults < MaxFaults /\ faults' = faults + 1

\* connect_to_binder.
Connects(p) ==
  /\ conn[p] = "none" /\ binder # "gone"
  /\ conn' = [conn EXCEPT ![p] = "open"]

ConnectFails(p) ==
  /\ conn[p] = "none" /\ UNCHANGED conn
  /\ \/ binder = "gone" /\ UNCHANGED faults
     \/ binder # "gone" /\ Fault

\* if (!binder) binder = connect_to_binder(): c is what binder then is.
LazyConnection(p, c) ==
  \/ conn[p] # "none" /\ c = conn[p] /\ UNCHANGED <<conn, faults>>
  \/ Connects(p) /\ c = "open" /\ UNCHANGED faults
  \/ ConnectFails(p) /\ c = "none"

\* What p sends on connection c: it is lost with the connection.
Sent(p, c, m) ==
  toBinder' = IF c = "open" THEN [toBinder EXCEPT ![p] = Append(@, m)] ELSE toBinder

\* recv: a message, or an error once the connection is lost.
Readable(p) == toProcess[p] # <<>>

\* Mutant: errors of recv are ignored.
LostNever(p) == FALSE
Lost(p) == conn[p] = "lost" /\ toProcess[p] = <<>>
Received(p) == toProcess' = [toProcess EXCEPT ![p] = Tail(@)]
Is(p, type) == Readable(p) /\ Head(toProcess[p]).type = type

\* What the binder sends to p.
Answered(p, m) ==
  toProcess' = IF Gone(p) THEN toProcess ELSE [toProcess EXCEPT ![p] = Append(@, m)]

-----------------------------------------------------------------------------
(* The binder.                                                             *)

binderFrame == <<processVars, callVars, workerVars, faults>>

BinderReceives(p, type) ==
  /\ binder = "up"
  /\ toBinder[p] # <<>> /\ Head(toBinder[p]).type = type
  /\ toBinder' = [toBinder EXCEPT ![p] = Tail(@)]
  /\ UNCHANGED <<binderFrame, conn>>

BinderRegisters(p) ==
  /\ BinderReceives(p, "REGISTER")
  /\ bound' = bound \cup {<<Head(toBinder[p]).fn, p>>}
  /\ Answered(p, Plain("REGISTER_SUCCESS"))
  /\ UNCHANGED <<binder, waiting, asked, asker>>

\* Mutant: a server is found whatever it has registered.
FoundAny(f) == {s \in Server : \E g \in Function : <<g, s>> \in bound}
Found(f) == {s \in Server : <<f, s>> \in bound}

BinderLocates(p) ==
  /\ BinderReceives(p, "LOCATE_REQUEST")
  /\ LET found == Found(Head(toBinder[p]).fn)
     IN \/ found = {} /\ Answered(p, Plain("LOCATE_FAILURE"))
        \/ \E s \in found : Answered(p, LocateSuccess(s))
  /\ UNCHANGED binderVars

\* The connection of p is closed, and what p has registered removed.
BinderForgets(p) ==
  /\ binder = "up" /\ Gone(p)
  /\ conn[p] = "open" /\ toBinder[p] = <<>>
  /\ conn' = [conn EXCEPT ![p] = "lost"]
  /\ bound' = {b \in bound : b[2] # p}
  /\ UNCHANGED <<binderFrame, binder, waiting, asked, asker, toBinder, toProcess>>

\* handleTerminate asks one server after the other and takes the next thing
\* it hears from a server, or that it is gone, for its answer.
BinderTerminates(p) ==
  /\ BinderReceives(p, "TERMINATE")
  /\ binder' = "terminating"
  /\ waiting' = {b[2] : b \in bound}
  /\ asker' = p
  /\ UNCHANGED <<bound, asked, toProcess>>

BinderAsks(s) ==
  /\ binder = "terminating" /\ asked = None /\ s \in waiting
  /\ waiting' = waiting \ {s}
  /\ asked' = s
  /\ Answered(s, Plain("TERMINATE"))
  /\ UNCHANGED <<binderFrame, binder, bound, asker, conn, toBinder>>

BinderHears ==
  /\ binder = "terminating" /\ asked # None
  /\ toBinder[asked] # <<>> \/ Gone(asked)
  /\ toBinder' = IF toBinder[asked] = <<>> THEN toBinder
                 ELSE [toBinder EXCEPT ![asked] = Tail(@)]
  /\ asked' = None
  /\ UNCHANGED <<binderFrame, binder, bound, waiting, asker, conn, toProcess>>

\* Without a binder every connection to it is lost, ...
Vanish ==
  /\ binder' = "gone"
  /\ bound' = {} /\ waiting' = {} /\ asked' = None /\ asker' = None
  /\ conn' = [p \in Process |-> IF conn[p] = "none" THEN "none" ELSE "lost"]
  /\ toBinder' = [p \in Process |-> <<>>]

BinderExits ==
  /\ binder = "terminating" /\ waiting = {} /\ asked = None
  /\ Answered(asker, Plain("TERMINATED"))
  /\ Vanish
  /\ UNCHANGED binderFrame

\* ... and if it crashes, so may be what it has sent.
BinderCrashes ==
  /\ binder # "gone" /\ Fault
  /\ Vanish
  /\ \E undelivered \in SUBSET Process :
       toProcess' = [p \in Process |-> IF p \in undelivered THEN <<>> ELSE toProcess[p]]
  /\ UNCHANGED <<processVars, callVars, workerVars>>

BinderStep(p) ==
  \/ BinderRegisters(p) \/ BinderLocates(p) \/ BinderForgets(p) \/ BinderTerminates(p)

-----------------------------------------------------------------------------
(* main of a server.                                                       *)

mainFrame == <<binderVars, callVars, workerVars>>

\* Process p ends, with its threads, its calls and what it has not read.
End(p) ==
  /\ proc' = [proc EXCEPT ![p] = "gone"]
  /\ toProcess' = [toProcess EXCEPT ![p] = <<>>]
  /\ worker' = [c \in Call |-> IF at[c] = p THEN "gone" ELSE worker[c]]
  /\ LET cut == {c \in Call : caller[c] = p /\ Calling(c)}
     IN /\ pc' = [c \in Call |-> IF c \in cut THEN "done" ELSE pc[c]]
        /\ result' = [c \in Call |-> IF c \in cut THEN "killed" ELSE result[c]]
  /\ UNCHANGED <<binderVars, localServer, database, pending, listening,
                 caller, within, fn, at, runs, answer>>

\* Without a connection no listener is created.
RpcInit(s) ==
  /\ proc[s] = "init"
  /\ proc' = [proc EXCEPT ![s] = "ready"]
  /\ \/ ConnectFails(s) /\ UNCHANGED localServer
     \/ Connects(s) /\ Fault /\ UNCHANGED localServer
     \/ /\ Connects(s) /\ UNCHANGED faults
        /\ localServer' = [localServer EXCEPT ![s] = TRUE]
  /\ UNCHANGED <<mainFrame, database, pending, listening, toBinder, toProcess>>

\* rpcRegister up to recv; without a local_server it returns at once.
RpcRegister(s, f) ==
  /\ proc[s] = "ready" /\ f \notin database[s]
  /\ localServer[s] /\ conn[s] # "none"
  /\ proc' = [proc EXCEPT ![s] = "registering"]
  /\ pending' = [pending EXCEPT ![s] = f]
  /\ Sent(s, conn[s], Register(f))
  /\ UNCHANGED <<mainFrame, localServer, database, listening, conn, toProcess, faults>>

\* The rest of rpcRegister.
RpcRegisterReturns(s) ==
  /\ proc[s] = "registering"
  /\ Readable(s) \/ Lost(s)
  /\ database' = IF Is(s, "REGISTER_SUCCESS")
                 THEN [database EXCEPT ![s] = @ \cup {pending[s]}] ELSE database
  /\ IF Readable(s) THEN Received(s) ELSE UNCHANGED toProcess
  /\ proc' = [proc EXCEPT ![s] = "ready"]
  /\ pending' = [pending EXCEPT ![s] = None]
  /\ UNCHANGED <<mainFrame, localServer, listening, conn, toBinder, faults>>

\* Without a connection rpcExecute returns; with one it serves on *local_server,
\* which it does not look at: it crashes if there is none.
RpcExecute(s) ==
  /\ proc[s] = "ready"
  /\ \E c \in {"none", "open", "lost"} :
       /\ LazyConnection(s, c)
       /\ \/ /\ c # "none" /\ localServer[s]
             /\ proc' = [proc EXCEPT ![s] = "serving"]
             /\ listening' = [listening EXCEPT ![s] = TRUE]
             /\ UNCHANGED <<mainFrame, localServer, database, pending, toProcess>>
          \/ /\ c = "none" \/ ~localServer[s]
             /\ End(s)
  /\ UNCHANGED toBinder

\* binder_listen_thread ends at a TERMINATE, or an error, and drops the rest.
BinderListens(s) ==
  /\ Serving(s) /\ listening[s]
  /\ Readable(s) \/ Lost(s)
  /\ listening' = [listening EXCEPT ![s] = Readable(s) /\ ~Is(s, "TERMINATE")]
  /\ IF Readable(s) THEN Received(s) ELSE UNCHANGED toProcess
  /\ UNCHANGED <<mainFrame, proc, localServer, database, pending, conn, toBinder, faults>>

\* The threads of s that serve calls.
Workers(s) == {c \in Call : at[c] = s /\ worker[c] \notin {"none", "gone"}}

\* The loop of serve is left: it was terminated, and no call is being served.
LeaveLoop(s) ==
  /\ proc[s] = "serving" /\ ~listening[s]
  /\ Workers(s) = {}
  /\ proc' = [proc EXCEPT ![s] = "leaving"]
  /\ UNCHANGED <<mainFrame, localServer, database, pending, listening, netVars, faults>>

\* No call is accepted any more, and the binder is told: a call accepted too
\* late is still being served.
ServeReturns(s) ==
  /\ proc[s] = "leaving"
  /\ Sent(s, conn[s], Plain("TERMINATE_SUCCESS"))
  /\ proc' = [proc EXCEPT ![s] = "returned"]
  /\ UNCHANGED <<mainFrame, localServer, database, pending, listening, conn, toProcess, faults>>

\* rpcExecute returns, and so does main.
RpcExecuteReturns(s) ==
  /\ proc[s] = "returned"
  /\ End(s)
  /\ UNCHANGED <<conn, toBinder, faults>>

-----------------------------------------------------------------------------
(* rpcCall.                                                                *)

callFrame == <<binderVars, processVars>>

\* rpcCall up to recv, on a thread of p, for the skeleton of call d if any.
\* Which name a call gets does not matter.
RpcCall(c, p, f, d) ==
  /\ pc[c] = "idle" /\ c = CHOOSE e \in Call : pc[e] = "idle"
  /\ caller' = [caller EXCEPT ![c] = p]
  /\ within' = [within EXCEPT ![c] = d]
  /\ fn' = [fn EXCEPT ![c] = f]
  /\ \E conn1 \in {"none", "open", "lost"} :
       /\ LazyConnection(p, conn1)
       /\ Sent(p, conn1, LocateRequest(f))
       /\ \/ /\ conn1 # "open"   \* there is none, or send fails
             /\ pc' = [pc EXCEPT ![c] = "done"]
             /\ result' = [result EXCEPT ![c] = "BINDER_CONNECTION_ERROR"]
          \/ /\ conn1 # "none"
             /\ pc' = [pc EXCEPT ![c] = "locating"]
             /\ UNCHANGED result
  /\ UNCHANGED <<callFrame, workerVars, at, toProcess>>

NoCallOf(p) == \A c \in Call : caller[c] = p => ~Calling(c)

\* The main thread of a client makes one call after the other ...
ClientCalls(c, p, f) ==
  /\ proc[p] = "idle" /\ NoCallOf(p)
  /\ RpcCall(c, p, f, None)

\* ... and so does a skeleton, each on the thread of its own call.
NoCallWithin(d) == \A c \in Call : within[c] = d => ~Calling(c)

SkeletonCalls(c, d, f) ==
  /\ worker[d] = "running" /\ fn[d] \in Nested /\ f \notin Nested
  /\ fn[d] \in database[at[d]]
  /\ NoCallWithin(d)
  /\ RpcCall(c, at[d], f, d)

Returns(c, r) ==
  /\ pc' = [pc EXCEPT ![c] = "done"]
  /\ result' = [result EXCEPT ![c] = r]

\* What the binder says: rpcCall connects to the server and sends an EXECUTE.
RpcCallLocates(c) ==
  /\ pc[c] = "locating"
  /\ LET p == caller[c]
         reply == Head(toProcess[p])
     IN \/ /\ Lost(p)
           /\ Returns(c, "BINDER_CONNECTION_ERROR")
           /\ UNCHANGED <<at, toProcess>>
        \/ /\ Is(p, "LOCATE_SUCCESS") /\ ~Gone(reply.at)
           /\ at' = [at EXCEPT ![c] = reply.at]
           /\ pc' = [pc EXCEPT ![c] = "executing"]
           /\ Received(p)
           /\ UNCHANGED result
        \/ /\ Is(p, "LOCATE_SUCCESS") /\ Gone(reply.at)
           /\ Returns(c, "SERVER_CONNECTION_ERROR")
           /\ Received(p)
           /\ UNCHANGED at
        \/ /\ Is(p, "LOCATE_FAILURE")
           /\ Returns(c, "LOCATE_FAILURE")
           /\ Received(p)
           /\ UNCHANGED at
        \/ /\ Readable(p) /\ reply.type \notin {"LOCATE_SUCCESS", "LOCATE_FAILURE"}
           /\ Returns(c, "UNEXPECTED_MESSAGE")
           /\ Received(p)
           /\ UNCHANGED at
  /\ UNCHANGED <<callFrame, workerVars, caller, within, fn, conn, toBinder, faults>>

\* Mutant: the end of the connection is not noticed.
HungUpNever(c) == FALSE
HungUp(c) == Gone(at[c])

\* The answer, or the end of the connection, ends the call.
RpcCallReturns(c) ==
  /\ pc[c] = "executing"
  /\ \/ answer[c] # None /\ Returns(c, answer[c])
     \/ HungUp(c) /\ Returns(c, "SERVER_CONNECTION_ERROR")
  /\ UNCHANGED <<callFrame, workerVars, caller, within, fn, at, netVars, faults>>

\* rpcTerminate, the last thing a client's main does.
RpcTerminate(p) ==
  /\ proc[p] = "idle" /\ NoCallOf(p)
  /\ \E c \in {"none", "open", "lost"} :
       /\ LazyConnection(p, c)
       /\ Sent(p, c, Plain("TERMINATE"))
       /\ \/ /\ c # "none"
             /\ proc' = [proc EXCEPT ![p] = "terminating"]
             /\ UNCHANGED <<mainFrame, localServer, database, pending, listening, toProcess>>
          \/ c = "none" /\ End(p)

ClientReturns(p) ==
  /\ \/ proc[p] = "idle" /\ NoCallOf(p)
     \/ proc[p] = "terminating" /\ (Readable(p) \/ Lost(p))
  /\ End(p)
  /\ UNCHANGED <<conn, toBinder, faults>>

-----------------------------------------------------------------------------
(* The threads of a server that serve calls.  What a caller has sent is    *)
(* there even if it is not.                                                *)

workerFrame == <<binderVars, processVars, netVars, callVars, faults>>

\* Mutant: the connection is not released, and another thread gets it.
UnservedYet(c) == worker[c] \in {"none", "ran"}
Unserved(c) == worker[c] = "none"

Accept(c) ==
  /\ at[c] # None /\ Unserved(c) /\ Serving(at[c])
  /\ worker' = [worker EXCEPT ![c] = "running"]
  /\ UNCHANGED <<workerFrame, runs, answer>>

\* handle_execute.
HandleExecute(c) ==
  /\ worker[c] = "running" /\ NoCallWithin(c)
  /\ \/ /\ fn[c] \in database[at[c]]
        /\ runs' = [runs EXCEPT ![c] = @ + 1]
        /\ worker' = [worker EXCEPT ![c] = "ran"]
     \/ /\ fn[c] \notin database[at[c]]
        /\ worker' = [worker EXCEPT ![c] = "refused"]
        /\ UNCHANGED runs
  /\ UNCHANGED <<workerFrame, answer>>

\* Mutant: what the thread has become is sent, and not what it was.
AnswerLate(c) ==
  /\ worker[c] \in {"ran", "refused"}
  /\ worker' = [worker EXCEPT ![c] = "answered"]
  /\ answer' = [answer EXCEPT ![c] = worker'[c]]
  /\ UNCHANGED <<workerFrame, runs>>

Answer(c) ==
  /\ worker[c] \in {"ran", "refused"}
  /\ answer' = [answer EXCEPT ![c] = worker[c]]
  /\ worker' = [worker EXCEPT ![c] = "answered"]
  /\ UNCHANGED <<workerFrame, runs>>

\* The thread ends when the caller, or what is left of it, hangs up.
HangUp(c) ==
  /\ worker[c] = "answered" /\ pc[c] = "done"
  /\ worker' = [worker EXCEPT ![c] = "gone"]
  /\ UNCHANGED <<workerFrame, runs, answer>>

-----------------------------------------------------------------------------

\* A process is killed.
Crash(p) ==
  /\ ~Gone(p) /\ Fault
  /\ End(p)
  /\ UNCHANGED <<conn, toBinder>>

ServerMain(s) ==
  \/ RpcInit(s) \/ RpcRegisterReturns(s)
  \/ LeaveLoop(s) \/ ServeReturns(s) \/ RpcExecuteReturns(s)
CallStep(c) == RpcCallLocates(c) \/ RpcCallReturns(c)
WorkerStep(c) == Accept(c) \/ HandleExecute(c) \/ Answer(c) \/ HangUp(c)

Next ==
  \/ \E p \in Process : BinderStep(p) \/ Crash(p)
  \/ \E s \in Server : BinderAsks(s)
  \/ BinderHears \/ BinderExits \/ BinderCrashes
  \/ \E s \in Server : ServerMain(s) \/ RpcExecute(s) \/ BinderListens(s)
  \/ \E s \in Server, f \in Function : RpcRegister(s, f)
  \/ \E c \in Call, f \in Function :
       \/ \E p \in Client : ClientCalls(c, p, f)
       \/ \E d \in Call : SkeletonCalls(c, d, f)
  \/ \E c \in Call : CallStep(c) \/ WorkerStep(c)
  \/ \E p \in Client : RpcTerminate(p) \/ ClientReturns(p)

\* Every thread that can go on does, and a server that can always register
\* calls rpcExecute in the end; what clients ask for is left open.
Fairness ==
  /\ \A p \in Process : WF_vars(BinderStep(p))
  /\ WF_vars(BinderHears \/ BinderExits \/ \E s \in Server : BinderAsks(s))
  /\ \A s \in Server :
       /\ WF_vars(ServerMain(s)) /\ WF_vars(BinderListens(s))
       /\ SF_vars(RpcExecute(s))
  /\ \A c \in Call : WF_vars(CallStep(c)) /\ WF_vars(WorkerStep(c))

Spec == Init /\ [][Next]_vars
FairSpec == Spec /\ Fairness

-----------------------------------------------------------------------------
(* Properties.                                                             *)

\* Every variable has its type; what is on its way is what its receiver can
\* be sent, and nothing is bound that has not been sent by a server.
Message ==
  {Register(f) : f \in Function} \cup {LocateRequest(f) : f \in Function}
    \cup {LocateSuccess(s) : s \in Server}
    \cup {Plain(t) : t \in {"REGISTER_SUCCESS", "LOCATE_FAILURE", "TERMINATE",
                            "TERMINATE_SUCCESS", "TERMINATED"}}

TypeOK ==
  /\ binder \in {"up", "terminating", "gone"}
  /\ bound \subseteq Function \X Server
  /\ waiting \subseteq Server /\ asked \in Server \cup {None}
  /\ asker \in Process \cup {None}
  /\ proc \in [Process -> {"init", "ready", "registering", "serving", "leaving", "returned",
                           "idle", "terminating", "gone"}]
  /\ conn \in [Process -> {"none", "open", "lost"}]
  /\ localServer \in [Server -> BOOLEAN] /\ listening \in [Server -> BOOLEAN]
  /\ database \in [Server -> SUBSET Function]
  /\ pending \in [Server -> Function \cup {None}]
  /\ toBinder \in [Process -> Seq(Message)] /\ toProcess \in [Process -> Seq(Message)]
  /\ caller \in [Call -> Process \cup {None}] /\ within \in [Call -> Call \cup {None}]
  /\ fn \in [Call -> Function \cup {None}] /\ at \in [Call -> Server \cup {None}]
  /\ pc \in [Call -> {"idle", "locating", "executing", "done"}]
  /\ result \in [Call -> Result \cup {None}]
  /\ worker \in [Call -> {"none", "running", "ran", "refused", "answered", "gone"}]
  /\ runs \in [Call -> Nat] /\ answer \in [Call -> {None, "ran", "refused"}]
  /\ faults \in 0 .. MaxFaults

\* Another skeleton of the process that makes call c calls, or has called,
\* another function. Both receive on the connection of the process, so that c can
\* have got what the other was told (rpc.cc:171-185); whether it has is not said.
Crossing(c) ==
  \E e \in Call \ {c} :
    caller[e] = caller[c] /\ within[e] # None /\ fn[e] # fn[c]

\* A server that has been located refuses a call only if it lost the binder
\* before it heard that its function was registered (rpc.cc:118-141). Calls whose
\* answers can have been exchanged within their process are excepted.
RefusedMeansBinderLost ==
  \A c \in Call : result[c] = "refused" => binder = "gone" \/ Crossing(c)

\* From rpcCall to the skeleton and back, a call is run at most once and its
\* result tells what happened: the promise of module RemoteCall.
Outcome(r) ==
  CASE r = None -> "none"
    [] r = "ran" -> "returned"
    [] r = "refused" -> "refused"
    [] OTHER -> "error"
CallOutcome == [c \in Call |-> Outcome(result[c])]
RC == INSTANCE RemoteCall WITH outcome <- CallOutcome

ImplementsRemoteCall == RC!Spec

\* binder_listen_thread and a skeleton that makes a call receive on the same
\* connection, and each may get what was meant for the other (libserver.cc:139,
\* rpc.cc:185): the skeleton is left without its answer, or it has got the
\* TERMINATE.
Crossed ==
  \E d \in Call : /\ within[d] # None
                  /\ pc[d] = "locating" \/ result[d] = "UNEXPECTED_MESSAGE"

\* rpcCall returns, whatever becomes of the binder and the server, unless
\* messages have crossed.
EveryCallEnds == \A c \in Call : Calling(c) ~> (~Calling(c) \/ []Crossed)

\* A server whose binder terminates the system, or is lost, ends, with the same
\* exception.
ServersEnd ==
  \A s \in Server : binder \in {"terminating", "gone"} ~> (Gone(s) \/ []Crossed)

\* serve "Returns 0 on normal termination by binder" (libserver.h:13-14): a server
\* that is sent a TERMINATE ends.
TerminatedServersEnd ==
  \A s \in Server : asked = s ~> Gone(s)

=============================================================================
