------------------------------- MODULE Server -------------------------------
(***************************************************************************)
(* A server process inside rpcExecute (serve and its threads, of           *)
(* libserver.cc) and the calls it is sent (rpcCall from connect on).       *)
(*                                                                         *)
(* The threads are main, which waits for the end; binder_listen_thread;    *)
(* client_listen_thread, which accepts connections and starts a thread for *)
(* each one that has data; and those threads, here the worker of a call.   *)
(* They share total_threads, under its lock, and terminating.  Each rpcCall*)
(* uses a connection of its own.                                           *)
(***************************************************************************)
EXTENDS Integers, Sequences, FiniteSets

CONSTANTS
  Call,          \* the calls, each a process that makes one
  ThreadLimit,   \* how many workers can be created: they are never joined
                 \* nor detached, so each keeps its stack to the end
  None

ASSUME ServerAssumption ==
  /\ IsFiniteSet(Call)
  /\ ThreadLimit \in Nat
  /\ None \notin Call \cup {"returned", "refused"}

VARIABLES
  totalThreads,   \* total_threads
  terminating,    \* terminating
  \* The threads.
  main,           \* where serve is
  result,         \* what serve returned
  binderThread,   \* where binder_listen_thread is
  listener,       \* where client_listen_thread is
  toDispatch,     \* what is left of its vector clients
  creating,       \* the connection it is about to create a thread for
  cancelled,      \* pthread_cancel was called on it
  worker,         \* worker[c]: where the serve_client_thread of c is
  \* The connections and the processes.
  backlog,        \* connections not yet accepted
  managed,        \* the keys of TcpServer::connections
  closed,         \* the connections the server has closed
  request,        \* the calls whose EXECUTE waits to be received
  reply,          \* reply[c]: the answer sent on c, None before
  runs,           \* runs[c]: how often the skeleton was run for c
  client,         \* client[c]: where rpcCall is
  binder          \* what the binder's end of the connection is doing

countVars == <<totalThreads, terminating>>
mainVars == <<main, result>>
listenerVars == <<listener, toDispatch, creating, managed>>
netVars == <<closed, request, reply>>
vars == <<countVars, mainVars, binderThread, listenerVars, cancelled, worker,
          backlog, netVars, runs, client, binder>>

ClientGone(c) == client[c] \in {"returned", "refused", "error", "crashed"}
Running(c) == worker[c] \notin {"none", "gone", "killed"}
Created == {c \in Call : worker[c] # "none"}
Exited == main = "exited"

Init ==
  /\ totalThreads = 2 /\ terminating = FALSE   \* inc_threads(2)
  /\ main = "spin" /\ result = None
  /\ binderThread = "recv"
  /\ listener = "accept" /\ toDispatch = {} /\ creating = None
  /\ cancelled = FALSE
  /\ worker = [c \in Call |-> "none"]
  /\ backlog = <<>> /\ managed = {} /\ closed = {}
  /\ request = {}
  /\ reply = [c \in Call |-> None]
  /\ runs = [c \in Call |-> 0]
  /\ client = [c \in Call |-> "idle"]
  /\ binder = "up"

-----------------------------------------------------------------------------
(* binder_listen_thread.                                                   *)

\* Mutant: errors of recv are ignored.
BinderThreadIgnoresErrors ==
  /\ ~Exited
  /\ binderThread = "recv" /\ binder # "up"
  /\ IF binder = "terminate"
     THEN terminating' = TRUE /\ binderThread' = "dec"
     ELSE UNCHANGED <<terminating, binderThread>>
  /\ UNCHANGED <<totalThreads, mainVars, listenerVars, cancelled, worker,
                 backlog, netVars, runs, client, binder>>

\* A TERMINATE, or an error, sets terminating ...
BinderThreadHears ==
  /\ ~Exited
  /\ binderThread = "recv" /\ binder # "up"
  /\ terminating' = TRUE
  /\ binderThread' = "dec"
  /\ UNCHANGED <<totalThreads, mainVars, listenerVars, cancelled, worker,
                 backlog, netVars, runs, client, binder>>

\* ... and only then the thread stops counting.
BinderThreadEnds ==
  /\ ~Exited
  /\ binderThread = "dec"
  /\ totalThreads' = totalThreads - 1
  /\ binderThread' = "gone"
  /\ UNCHANGED <<terminating, mainVars, listenerVars, cancelled, worker,
                 backlog, netVars, runs, client, binder>>

-----------------------------------------------------------------------------
(* client_listen_thread.  Cancellation takes effect in select.             *)

Readable(c) == c \in managed /\ (c \in request \/ ClientGone(c))
SelectReturns == backlog # <<>> \/ \E c \in managed : Readable(c)

ListenerStep(from) == ~Exited /\ listener = from

AcceptIfAny ==
  /\ ListenerStep("accept") /\ ~cancelled
  /\ SelectReturns
  /\ \/ /\ backlog # <<>>
        /\ managed' = managed \cup {Head(backlog)}
        /\ backlog' = Tail(backlog)
     \/ /\ backlog = <<>>
        /\ UNCHANGED <<managed, backlog>>
  /\ listener' = "poll"
  /\ UNCHANGED <<countVars, mainVars, binderThread, toDispatch, creating,
                 cancelled, worker, netVars, runs, client, binder>>

ConnectionsWithData ==
  /\ ListenerStep("poll") /\ ~cancelled
  /\ SelectReturns
  /\ toDispatch' = {c \in managed : Readable(c)}
  /\ listener' = IF toDispatch' = {} THEN "accept" ELSE "dispatch"
  /\ UNCHANGED <<countVars, mainVars, binderThread, creating, managed,
                 cancelled, worker, backlog, netVars, runs, client, binder>>

\* Mutant: the connection is not released.
DispatchKeepsConnection(c) ==
  /\ ListenerStep("dispatch") /\ c \in toDispatch
  /\ toDispatch' = toDispatch \ {c}
  /\ totalThreads' = totalThreads + 1
  /\ creating' = c
  /\ listener' = "create"
  /\ UNCHANGED <<terminating, mainVars, binderThread, managed, cancelled,
                 worker, backlog, netVars, runs, client, binder>>

\* releaseConnection and inc_threads(1).
Dispatch(c) ==
  /\ ListenerStep("dispatch") /\ c \in toDispatch
  /\ toDispatch' = toDispatch \ {c}
  /\ managed' = managed \ {c}
  /\ totalThreads' = totalThreads + 1
  /\ creating' = c
  /\ listener' = "create"
  /\ UNCHANGED <<terminating, mainVars, binderThread, cancelled, worker,
                 backlog, netVars, runs, client, binder>>

\* pthread_create; its return value is ignored.
CreateWorker ==
  /\ ListenerStep("create")
  /\ worker' = IF Cardinality(Created) < ThreadLimit
               THEN [worker EXCEPT ![creating] = "recv"] ELSE worker
  /\ creating' = None
  /\ listener' = IF toDispatch = {} THEN "accept" ELSE "dispatch"
  /\ UNCHANGED <<countVars, mainVars, binderThread, toDispatch, managed,
                 cancelled, backlog, netVars, runs, client, binder>>

ListenerCancelled ==
  /\ listener \in {"accept", "poll"} /\ ~Exited
  /\ cancelled
  /\ listener' = "gone"
  /\ UNCHANGED <<countVars, mainVars, binderThread, toDispatch, creating,
                 managed, cancelled, worker, backlog, netVars, runs, client,
                 binder>>

-----------------------------------------------------------------------------
(* serve_client_thread.                                                    *)

workerFrame == <<terminating, mainVars, binderThread, listenerVars, cancelled,
                 backlog, client, binder>>

\* The worker of c goes from one place to another.
WorkerStep(c, from, to) ==
  /\ ~Exited
  /\ worker[c] = from
  /\ worker' = [worker EXCEPT ![c] = to]
  /\ UNCHANGED workerFrame

\* recv returns an EXECUTE, or fails because the client is gone.
WorkerReceives(c) ==
  \/ /\ c \in request
     /\ WorkerStep(c, "recv", "call")
     /\ request' = request \ {c}
     /\ UNCHANGED <<totalThreads, closed, reply, runs>>
  \/ /\ c \notin request /\ ClientGone(c)
     /\ WorkerStep(c, "recv", "close")
     /\ UNCHANGED <<totalThreads, netVars, runs>>

\* handle_execute: without a skeleton for the signature nothing is run.
WorkerRuns(c) ==
  /\ WorkerStep(c, "call", "ran")
  /\ runs' = [runs EXCEPT ![c] = @ + 1]
  /\ UNCHANGED <<totalThreads, netVars>>

WorkerRefuses(c) ==
  /\ WorkerStep(c, "call", "refused")
  /\ UNCHANGED <<totalThreads, netVars, runs>>

\* Mutant: when the answer cannot be sent, the call is served again.
WorkerRepliesRetries(c) ==
  /\ \/ /\ WorkerStep(c, "ran", "recv")
        /\ reply' = [reply EXCEPT ![c] = "returned"]
     \/ /\ WorkerStep(c, "refused", "recv")
        /\ reply' = [reply EXCEPT ![c] = "refused"]
     \/ /\ ClientGone(c)
        /\ WorkerStep(c, "ran", "call") \/ WorkerStep(c, "refused", "close")
        /\ UNCHANGED reply
  /\ UNCHANGED <<totalThreads, closed, request, runs>>

\* Mutant: a call that cannot be run is not answered.
WorkerRepliesIfRun(c) ==
  /\ \/ /\ WorkerStep(c, "ran", "recv")
        /\ reply' = [reply EXCEPT ![c] = "returned"]
     \/ /\ WorkerStep(c, "refused", "recv")
        /\ UNCHANGED reply
     \/ /\ ClientGone(c)
        /\ WorkerStep(c, "ran", "close") \/ WorkerStep(c, "refused", "close")
        /\ UNCHANGED reply
  /\ UNCHANGED <<totalThreads, closed, request, runs>>

\* The answer is sent; to a client that is gone, this may fail.
WorkerReplies(c) ==
  /\ \/ /\ WorkerStep(c, "ran", "recv")
        /\ reply' = [reply EXCEPT ![c] = "returned"]
     \/ /\ WorkerStep(c, "refused", "recv")
        /\ reply' = [reply EXCEPT ![c] = "refused"]
     \/ /\ ClientGone(c)
        /\ WorkerStep(c, "ran", "close") \/ WorkerStep(c, "refused", "close")
        /\ UNCHANGED reply
  /\ UNCHANGED <<totalThreads, closed, request, runs>>

WorkerCloses(c) ==
  /\ WorkerStep(c, "close", "dec")
  /\ closed' = closed \cup {c}
  /\ UNCHANGED <<totalThreads, request, reply, runs>>

\* Mutant: the thread ends without inc_threads(-1).
WorkerEndsUncounted(c) ==
  /\ WorkerStep(c, "dec", "gone")
  /\ UNCHANGED <<totalThreads, netVars, runs>>

WorkerEnds(c) ==
  /\ WorkerStep(c, "dec", "gone")
  /\ totalThreads' = totalThreads - 1
  /\ UNCHANGED <<netVars, runs>>

-----------------------------------------------------------------------------
(* serve.                                                                  *)

mainFrame == <<countVars, binderThread, listenerVars, backlog, request, reply,
               runs, client, binder>>

\* while (!terminating or total_threads > 1): the two are read in turn.
SpinReadsTerminating ==
  /\ main = "spin" /\ terminating
  /\ main' = "check"
  /\ UNCHANGED <<mainFrame, result, cancelled, worker, closed>>

\* Mutant: binder_listen_thread, too, is not waited for.
SpinReadsTotalThreadsOff ==
  /\ main = "check"
  /\ main' = IF totalThreads > 2 THEN "spin" ELSE "cancel"
  /\ UNCHANGED <<mainFrame, result, cancelled, worker, closed>>

SpinReadsTotalThreads ==
  /\ main = "check"
  /\ main' = IF totalThreads > 1 THEN "spin" ELSE "cancel"
  /\ UNCHANGED <<mainFrame, result, cancelled, worker, closed>>

CancelListener ==
  /\ main = "cancel"
  /\ cancelled' = TRUE
  /\ main' = "join"
  /\ UNCHANGED <<mainFrame, result, worker, closed>>

\* Mutant: the listener is cancelled and not joined.
JoinListenerNever ==
  /\ main = "join"
  /\ main' = "send"
  /\ UNCHANGED <<mainFrame, result, cancelled, worker, closed>>

JoinListener ==
  /\ main = "join" /\ listener = "gone"
  /\ main' = "send"
  /\ UNCHANGED <<mainFrame, result, cancelled, worker, closed>>

\* TERMINATE_SUCCESS is sent; to a binder that is gone, this may fail.
ServeReturns ==
  /\ main = "send"
  /\ \/ result' = 0
     \/ binder = "gone" /\ result' = -1002   \* BINDER_CONNECTION_ERROR
  /\ main' = "returned"
  /\ UNCHANGED <<mainFrame, cancelled, worker, closed>>

\* After rpcExecute the process exits, with every thread and connection.
ProcessExits ==
  /\ main = "returned"
  /\ main' = "exited"
  /\ worker' = [c \in Call |-> IF Running(c) THEN "killed" ELSE worker[c]]
  /\ closed' = Call
  /\ UNCHANGED <<mainFrame, result, cancelled>>

-----------------------------------------------------------------------------
(* The binder and the clients.                                             *)

environmentFrame == <<countVars, mainVars, binderThread, listenerVars,
                      cancelled, worker, closed, reply, runs>>

\* The binder asks the server to terminate, or is lost.
BinderTerminates ==
  /\ binder = "up"
  /\ binder' = "terminate"
  /\ UNCHANGED <<environmentFrame, backlog, request, client>>

BinderLost ==
  /\ binder # "gone"
  /\ binder' = "gone"
  /\ UNCHANGED <<environmentFrame, backlog, request, client>>

ClientConnects(c) ==
  /\ client[c] = "idle"
  /\ \/ ~Exited /\ client' = [client EXCEPT ![c] = "connected"]
                /\ backlog' = Append(backlog, c)
     \/ Exited /\ client' = [client EXCEPT ![c] = "error"]
               /\ UNCHANGED backlog
  /\ UNCHANGED <<environmentFrame, request, binder>>

\* What is sent to a connection that was closed is lost.
ClientSends(c) ==
  /\ client[c] = "connected"
  /\ client' = [client EXCEPT ![c] = "waiting"]
  /\ request' = IF c \in closed THEN request ELSE request \cup {c}
  /\ UNCHANGED <<environmentFrame, backlog, binder>>

\* The answer ends the call, and so does the end of the connection; the
\* TcpClient is destroyed when rpcCall returns.
ClientHears(c) ==
  /\ client[c] = "waiting"
  /\ reply[c] # None \/ c \in closed
  /\ client' = [client EXCEPT ![c] = IF reply[c] # None THEN reply[c] ELSE "error"]
  /\ UNCHANGED <<environmentFrame, backlog, request, binder>>

ClientCrashes(c) ==
  /\ client[c] \in {"connected", "waiting"}
  /\ client' = [client EXCEPT ![c] = "crashed"]
  /\ UNCHANGED <<environmentFrame, backlog, request, binder>>

\* The server has exited and every call is over.
Finished ==
  /\ Exited
  /\ \A c \in Call : ClientGone(c)
  /\ UNCHANGED vars

BinderThread == BinderThreadHears \/ BinderThreadEnds
Listener ==
  \/ AcceptIfAny \/ ConnectionsWithData \/ CreateWorker \/ ListenerCancelled
  \/ \E c \in Call : Dispatch(c)
Worker(c) ==
  \/ WorkerReceives(c) \/ WorkerRuns(c) \/ WorkerRefuses(c)
  \/ WorkerReplies(c) \/ WorkerCloses(c) \/ WorkerEnds(c)
Main ==
  \/ SpinReadsTerminating \/ SpinReadsTotalThreads \/ CancelListener
  \/ JoinListener \/ ServeReturns \/ ProcessExits
Client(c) ==
  \/ ClientConnects(c) \/ ClientSends(c) \/ ClientHears(c) \/ ClientCrashes(c)

Next ==
  \/ Main \/ BinderThread \/ Listener
  \/ \E c \in Call : Worker(c) \/ Client(c)
  \/ BinderTerminates \/ BinderLost
  \/ Finished

\* The scheduler runs every thread, a skeleton returns, and a client that is
\* connected sends its request and hears the answer, or crashes.
Fairness ==
  /\ WF_vars(Main) /\ WF_vars(BinderThread) /\ WF_vars(Listener)
  /\ \A c \in Call :
       WF_vars(Worker(c)) /\ WF_vars(ClientSends(c) \/ ClientHears(c))

Spec == Init /\ [][Next]_vars
FairSpec == Spec /\ Fairness

-----------------------------------------------------------------------------
(* Properties.                                                             *)

\* Every variable has its type.
TypeOK ==
  /\ totalThreads \in 0 .. Cardinality(Call) + 2
  /\ terminating \in BOOLEAN
  /\ main \in {"spin", "check", "cancel", "join", "send", "returned", "exited"}
  /\ result \in {None, 0, -1002}
  /\ binderThread \in {"recv", "dec", "gone"}
  /\ listener \in {"accept", "poll", "dispatch", "create", "gone"}
  /\ toDispatch \subseteq managed
  /\ creating \in Call \cup {None}
  /\ cancelled \in BOOLEAN
  /\ worker \in [Call -> {"none", "recv", "call", "ran", "refused", "close",
                          "dec", "gone", "killed"}]
  /\ backlog \in Seq(Call)
  /\ managed \subseteq Call
  /\ closed \subseteq Call
  /\ request \subseteq Call
  /\ reply \in [Call -> {None, "returned", "refused"}]
  /\ runs \in [Call -> Nat]
  /\ client \in [Call -> {"idle", "connected", "waiting", "returned",
                          "refused", "error", "crashed"}]
  /\ binder \in {"up", "terminate", "gone"}

\* total_threads counts the threads that serve has started and that have not
\* ended, the one being created included: the wait for it to fall to 1 is a
\* wait for all of them but client_listen_thread.
ThreadsCounted ==
  ~Exited => totalThreads =
    1 + (IF binderThread = "gone" THEN 0 ELSE 1)
      + Cardinality({c \in Call : Running(c)})
      + (IF listener = "create" THEN 1 ELSE 0)

\* serve leaves its loop when no call is being served and no thread for one
\* is on its way.
LeavesLoopIdle ==
  [][main = "check" /\ main' = "cancel" =>
       \A c \in Call : ~Running(c) /\ creating # c]_vars

\* The binder is told that the server has terminated when client_listen_thread
\* is over: from then on no thread is started for a call.
NoWorkerAfterJoin ==
  [][(main \in {"send", "returned"}) => Created' = Created]_vars

\* After the loop, the only thread running is client_listen_thread
\* (libserver.cc:166).
OnlyListenerRuns ==
  main \in {"cancel", "join", "send", "returned"} => \A c \in Call : ~Running(c)

\* What is known of a call: nothing before it ends.
CallOutcome ==
  [c \in Call |-> CASE client[c] \in {"returned", "refused", "error"} -> client[c]
                    [] client[c] = "crashed" -> "error"
                    [] OTHER -> "none"]

\* Every call is run at most once, and its outcome tells what happened: the
\* promise of module RemoteCall.
RC == INSTANCE RemoteCall WITH outcome <- CallOutcome

ImplementsRemoteCall == RC!Spec

\* Once the binder terminates the server, or is lost, serve returns and the
\* process exits (libserver.h:13-14).
ServerTerminates == binder # "up" ~> Exited

\* A call that was sent ends: with an answer, or with an error once the
\* connection is closed.
EveryCallEnds == \A c \in Call : client[c] = "waiting" ~> client[c] # "waiting"

=============================================================================
