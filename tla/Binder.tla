------------------------------- MODULE Binder -------------------------------
(***************************************************************************)
(* The binder process (main of binder.cc and the TcpServer it runs on) and *)
(* the processes connected to it: servers, which register functions and    *)
(* then execute (rpcInit, rpcRegister, rpcExecute), and clients, which     *)
(* locate functions and may terminate the system (rpcCall up to the reply  *)
(* of the binder, rpcTerminate).                                           *)
(*                                                                         *)
(* The binder is one thread: it accepts at most one connection, asks       *)
(* select which connections can be read, and serves each of them once.     *)
(* A Socket stands for a connection from the moment its process connects   *)
(* until the binder closes it, and is then free for another process.       *)
(* Channels are FIFO and lose nothing, as TCP; a process that exits or     *)
(* crashes closes its end, and what it sent before can still be read.      *)
(***************************************************************************)
EXTENDS Integers, Sequences, FiniteSets

CONSTANTS
  Addr, Signature, None, TimeMod, MaxTime, AddrReuse,   \* as BinderDatabase
  ServerSocket,   \* connections of server processes
  ClientSocket,   \* connections of client processes
  MaxCrashes      \* bound: how many processes may crash or leave

Socket == ServerSocket \cup ClientSocket

ASSUME RolesAssumption ==
  /\ IsFiniteSet(Socket)
  /\ ServerSocket \cap ClientSocket = {}
  /\ MaxCrashes \in Nat

ASSUME DatabaseAssumption ==
  /\ None \notin Addr /\ None \notin Socket
  /\ TimeMod \in Nat /\ TimeMod > 1
  /\ MaxTime \in Nat
  /\ AddrReuse \in BOOLEAN

VARIABLES
  time, serverQueue, serverToTimestamp, signatureToServers, response,
  \* The binder's loop.
  pc,          \* where main is
  open,        \* the keys of TcpServer::connections
  ready,       \* what is left of the vector clients of this round
  current,     \* the connection being served
  running,     \* the flag of main's loop
  waiting,     \* the servers handleTerminate has not asked yet
  asked,       \* the connection handleTerminate waits on
  failure,     \* the last error of handleTerminate, None without one
  \* The processes.
  proc,        \* what the process at the other end is doing
  home,        \* the address of a server process
  pending,     \* the function it is registering or locating
  registered,  \* the keys of its ServerDatabase
  crashes,     \* how many processes have crashed or left
  \* The connections.
  backlog,     \* connected and not yet accepted
  toBinder,    \* messages not yet received by the binder
  toPeer       \* messages not yet received by the process

dbVars == <<time, serverQueue, serverToTimestamp, signatureToServers>>
terminateVars == <<waiting, asked, failure>>
procVars == <<proc, home, pending, registered, crashes>>
netVars == <<backlog, toBinder, toPeer>>
vars == <<dbVars, response, pc, open, ready, current, running, terminateVars,
          procVars, netVars>>

announced == [k \in Socket |-> IF k \in open THEN home[k] ELSE None]
DB == INSTANCE BinderDatabase WITH peer <- announced

ASSUME NoneAssumption ==
  /\ None \notin DB!Answer
  /\ None \notin {DB!UnexpectedMessage, DB!ServerConnectionError}

RegisterMessage(g) == [type |-> "REGISTER", sig |-> g]
LocateRequest(g) == [type |-> "LOCATE_REQUEST", sig |-> g]
Terminate == [type |-> "TERMINATE"]

Gone(k) == proc[k] \in {"gone", "reset"}
Alive(k) == ~Gone(k) /\ proc[k] # "none"

Init ==
  /\ pc = "accept" /\ open = {} /\ ready = {} /\ current = None
  /\ running = TRUE
  /\ waiting = {} /\ asked = None /\ failure = None
  /\ proc = [k \in Socket |-> "none"]
  /\ home = [k \in Socket |-> None]
  /\ pending = [k \in Socket |-> None]
  /\ registered = [k \in Socket |-> {}]
  /\ crashes = 0
  /\ backlog = <<>>
  /\ toBinder = [k \in Socket |-> <<>>]
  /\ toPeer = [k \in Socket |-> <<>>]
  /\ DB!Init

-----------------------------------------------------------------------------
(* The binder's loop.                                                      *)

Readable(k) == k \in open /\ (toBinder[k] # <<>> \/ Gone(k))

\* select returns: somebody waits to be accepted or can be read.
SelectReturns == backlog # <<>> \/ \E k \in open : Readable(k)

AcceptIfAny ==
  /\ pc = "accept"
  /\ SelectReturns
  /\ \/ /\ backlog # <<>>
        /\ open' = open \cup {Head(backlog)}
        /\ backlog' = Tail(backlog)
     \/ /\ backlog = <<>>
        /\ UNCHANGED <<open, backlog>>
  /\ pc' = "poll"
  /\ UNCHANGED <<dbVars, response, ready, current, running, terminateVars,
                 procVars, toBinder, toPeer>>

\* Mutant: the caller serves one connection, and not all, of a round.
ConnectionsWithDataOne ==
  /\ pc = "poll"
  /\ SelectReturns
  /\ \/ \E k \in open : Readable(k) /\ ready' = {k}
     \/ (\A k \in open : ~Readable(k)) /\ ready' = {}
  /\ pc' = IF ready' = {} THEN "accept" ELSE "serve"
  /\ UNCHANGED <<dbVars, response, open, current, running, terminateVars,
                 procVars, netVars>>

ConnectionsWithData ==
  /\ pc = "poll"
  /\ SelectReturns
  /\ ready' = {k \in open : Readable(k)}
  /\ pc' = IF ready' = {} THEN "accept" ELSE "serve"
  /\ UNCHANGED <<dbVars, response, open, current, running, terminateVars,
                 procVars, netVars>>

\* Mutant: the round keeps what has been served.
NextClientKeeps(k) ==
  /\ UNCHANGED ready
  /\ pc' = "serve"

\* Done with k: on to the next of the round, or to the next round.
NextClient(k) ==
  /\ ready' = ready \ {k}
  /\ pc' = IF ready' = {} THEN "accept" ELSE "serve"

\* Mutant: the connection is closed, the server stays in the database.
ConnectionClosedKeepsServer(k) ==
  /\ pc = "serve" /\ k \in ready
  /\ toBinder[k] = <<>> /\ proc[k] = "gone"
  /\ open' = open \ {k}
  /\ proc' = [proc EXCEPT ![k] = "none"]
  /\ home' = [home EXCEPT ![k] = None]
  /\ NextClient(k)
  /\ UNCHANGED <<dbVars, response, current, running, terminateVars, pending,
                 registered, crashes, netVars>>

\* recv returns 0: ConnectionClosed.
ConnectionClosed(k) ==
  /\ pc = "serve" /\ k \in ready
  /\ toBinder[k] = <<>> /\ proc[k] = "gone"
  /\ DB!RemoveIfServer(k)
  /\ open' = open \ {k}
  /\ proc' = [proc EXCEPT ![k] = "none"]
  /\ home' = [home EXCEPT ![k] = None]
  /\ NextClient(k)
  /\ UNCHANGED <<current, running, terminateVars, pending, registered,
                 crashes, netVars>>

\* recv fails: reported once, ignored, and the next recv returns 0.
ReceiveFails(k) ==
  /\ pc = "serve" /\ k \in ready
  /\ toBinder[k] = <<>> /\ proc[k] = "reset"
  /\ proc' = [proc EXCEPT ![k] = "gone"]
  /\ NextClient(k)
  /\ UNCHANGED <<dbVars, response, open, current, running, terminateVars,
                 home, pending, registered, crashes, netVars>>

\* recv returns a message of the given type.
Receive(k, type) ==
  /\ pc = "serve" /\ k \in ready
  /\ toBinder[k] # <<>>
  /\ Head(toBinder[k]).type = type
  /\ toBinder' = [toBinder EXCEPT ![k] = Tail(@)]
  /\ current' = k
  /\ UNCHANGED <<open, ready, procVars, backlog, toPeer>>

ServeRegister(k) ==
  /\ Receive(k, "REGISTER")
  /\ DB!HandleRegister(Head(toBinder[k]).sig, home[k], k)
  /\ pc' = "send"
  /\ UNCHANGED <<running, terminateVars>>

ServeLocate(k) ==
  /\ Receive(k, "LOCATE_REQUEST")
  /\ DB!HandleLocate(Head(toBinder[k]).sig)
  /\ pc' = "send"
  /\ UNCHANGED <<running, terminateVars>>

\* handleTerminate is entered.
ServeTerminate(k) ==
  /\ Receive(k, "TERMINATE")
  /\ waiting' = {a \in Addr : serverToTimestamp[a].sock # None}
  /\ pc' = "ask"
  /\ UNCHANGED <<dbVars, response, running, asked, failure>>

\* TERMINATE is sent to the next server.  A send to a process that is gone
\* may succeed all the same; otherwise it is the server's failure.
AskServer(a) ==
  /\ pc = "ask" /\ a \in waiting
  /\ waiting' = waiting \ {a}
  /\ LET k == serverToTimestamp[a].sock
     IN \/ /\ asked' = k
           /\ pc' = "wait"
           /\ toPeer' = IF Gone(k) THEN toPeer
                        ELSE [toPeer EXCEPT ![k] = Append(@, Terminate)]
           /\ UNCHANGED failure
        \/ /\ Gone(k)
           /\ failure' = DB!ServerConnectionError
           /\ UNCHANGED <<pc, asked, toPeer>>
  /\ UNCHANGED <<dbVars, response, open, ready, current, running, procVars,
                 backlog, toBinder>>

\* Mutant: any message is taken for an acknowledgement.
HearServerAnything ==
  /\ pc = "wait" /\ toBinder[asked] # <<>>
  /\ toBinder' = [toBinder EXCEPT ![asked] = Tail(@)]
  /\ asked' = None
  /\ pc' = "ask"
  /\ UNCHANGED <<dbVars, response, open, ready, current, running, waiting,
                 failure, procVars, backlog, toPeer>>

\* The server answered: with TERMINATE_SUCCESS, or with something else.
HearServer ==
  /\ pc = "wait" /\ toBinder[asked] # <<>>
  /\ failure' = IF Head(toBinder[asked]).type = "TERMINATE_SUCCESS"
                THEN failure ELSE DB!UnexpectedMessage
  /\ toBinder' = [toBinder EXCEPT ![asked] = Tail(@)]
  /\ asked' = None
  /\ pc' = "ask"
  /\ UNCHANGED <<dbVars, response, open, ready, current, running, waiting,
                 procVars, backlog, toPeer>>

\* recv reports that the server is gone.
LoseServer ==
  /\ pc = "wait" /\ toBinder[asked] = <<>> /\ Gone(asked)
  /\ failure' = DB!ServerConnectionError
  /\ proc' = [proc EXCEPT ![asked] = "gone"]
  /\ asked' = None
  /\ pc' = "ask"
  /\ UNCHANGED <<dbVars, response, open, ready, current, running, waiting,
                 home, pending, registered, crashes, netVars>>

\* handleTerminate returns the last error it met, if any.
TerminateDone ==
  /\ pc = "ask" /\ waiting = {}
  /\ response' = IF failure = None THEN DB!TerminateSuccess
                                   ELSE DB!TerminateFailure(failure)
  /\ running' = FALSE
  /\ pc' = "send"
  /\ UNCHANGED <<dbVars, open, ready, current, terminateVars, procVars, netVars>>

\* The rest of the round is not served, nor what came in since.
Exit ==
  /\ pc' = "exited"
  /\ ready' = {}
  /\ toBinder' = [k \in Socket |-> <<>>]

\* Sending to a process that is gone may go unnoticed, fail with an error
\* that is ignored, or report the connection closed: only then is it removed
\* from the database, and the connection is kept until recv reports it too.
SendResponse ==
  /\ pc = "send"
  /\ \/ /\ Gone(current)
        /\ DB!RemoveIfServer(current)
        /\ UNCHANGED toPeer
     \/ /\ toPeer' = IF Gone(current) THEN toPeer
                     ELSE [toPeer EXCEPT ![current] = Append(@, response)]
        /\ UNCHANGED <<dbVars, response>>
  /\ current' = None
  /\ \/ running /\ NextClient(current) /\ UNCHANGED toBinder
     \/ ~running /\ Exit
  /\ UNCHANGED <<open, running, terminateVars, procVars, backlog>>

Serve(k) ==
  \/ ConnectionClosed(k) \/ ReceiveFails(k)
  \/ ServeRegister(k) \/ ServeLocate(k) \/ ServeTerminate(k)

BinderStep ==
  \/ AcceptIfAny \/ ConnectionsWithData \/ SendResponse
  \/ \E k \in Socket : Serve(k)
  \/ \E a \in Addr : AskServer(a)
  \/ HearServer \/ LoseServer \/ TerminateDone

-----------------------------------------------------------------------------
(* The processes.                                                          *)

procFrame == <<dbVars, response, pc, open, ready, current, running,
               terminateVars>>

\* A process ends: what it knew, and what it has not read, is gone with it.
End(k, s) ==
  /\ proc' = [proc EXCEPT ![k] = s]
  /\ pending' = [pending EXCEPT ![k] = None]
  /\ registered' = [registered EXCEPT ![k] = {}]
  /\ toPeer' = [toPeer EXCEPT ![k] = <<>>]
  /\ UNCHANGED <<procFrame, home, backlog>>

\* Message m is sent to the binder, and lost once the binder has exited.
ToBinder(k, m) ==
  toBinder' = IF pc = "exited" THEN toBinder
              ELSE [toBinder EXCEPT ![k] = Append(@, m)]

\* The process at k sends message m to the binder and becomes s.
Send(k, m, s) ==
  /\ ToBinder(k, m)
  /\ proc' = [proc EXCEPT ![k] = s]
  /\ UNCHANGED <<procFrame, home, registered, crashes, backlog, toPeer>>

\* The bound on time_: every request that is on its way may advance it.
MayRequest == time + Cardinality({k \in Socket : toBinder[k] # <<>>}) < MaxTime

\* The end of the binder's messages: it has exited.
EndOfMessages(k) == pc = "exited" /\ toPeer[k] = <<>>

Connect(k, s, a) ==
  /\ proc[k] = "none" /\ pc # "exited"
  /\ proc' = [proc EXCEPT ![k] = s]
  /\ home' = [home EXCEPT ![k] = a]
  /\ backlog' = Append(backlog, k)
  /\ UNCHANGED <<procFrame, pending, registered, crashes, toBinder, toPeer>>

\* rpcInit.  The address is that of no living process, nor, unless it may be
\* reused, of one whose connection the binder still has.
ServerStart(k, a) ==
  /\ \A j \in Socket : home[j] = a => AddrReuse /\ ~Alive(j)
  /\ Connect(k, "ready", a)

\* rpcRegister up to recv.
ServerRegister(k, g) ==
  /\ proc[k] = "ready" /\ MayRequest
  /\ pending' = [pending EXCEPT ![k] = g]
  /\ Send(k, RegisterMessage(g), "registering")

\* rpcRegister after recv: anything but a REGISTER_SUCCESS is an error.
ServerHear(k) ==
  /\ proc[k] = "registering"
  /\ toPeer[k] # <<>> \/ EndOfMessages(k)
  /\ IF toPeer[k] # <<>> /\ Head(toPeer[k]).type = "REGISTER_SUCCESS"
     THEN registered' = [registered EXCEPT ![k] = @ \cup {pending[k]}]
     ELSE UNCHANGED registered
  /\ toPeer' = IF toPeer[k] = <<>> THEN toPeer
               ELSE [toPeer EXCEPT ![k] = Tail(@)]
  /\ proc' = [proc EXCEPT ![k] = "ready"]
  /\ pending' = [pending EXCEPT ![k] = None]
  /\ UNCHANGED <<procFrame, home, crashes, backlog, toBinder>>

\* rpcExecute.
ServerExecute(k) ==
  /\ proc[k] = "ready"
  /\ proc' = [proc EXCEPT ![k] = "serving"]
  /\ UNCHANGED <<procFrame, home, pending, registered, crashes, netVars>>

\* Mutant: the loss of the binder is ignored.
ServerStopIgnoresLoss(k) ==
  /\ proc[k] = "serving"
  /\ toPeer[k] # <<>> \/ EndOfMessages(k)
  /\ IF toPeer[k] # <<>> /\ Head(toPeer[k]).type = "TERMINATE"
     THEN proc' = [proc EXCEPT ![k] = "stopping"]
     ELSE UNCHANGED proc
  /\ toPeer' = IF toPeer[k] = <<>> THEN toPeer
               ELSE [toPeer EXCEPT ![k] = Tail(@)]
  /\ UNCHANGED <<procFrame, home, pending, registered, crashes, backlog, toBinder>>

\* binder_listen_thread: a TERMINATE or the loss of the binder ends it,
\* any other message is dropped.
ServerStop(k) ==
  /\ proc[k] = "serving"
  /\ toPeer[k] # <<>> \/ EndOfMessages(k)
  /\ IF EndOfMessages(k) \/ Head(toPeer[k]).type = "TERMINATE"
     THEN proc' = [proc EXCEPT ![k] = "stopping"]
     ELSE UNCHANGED proc
  /\ toPeer' = IF toPeer[k] = <<>> THEN toPeer
               ELSE [toPeer EXCEPT ![k] = Tail(@)]
  /\ UNCHANGED <<procFrame, home, pending, registered, crashes, backlog, toBinder>>

\* The end of serve: the binder is told, by a process that still runs.
ServeReturns(k) ==
  /\ proc[k] = "stopping"
  /\ Send(k, DB!TerminateSuccess, "returned")
  /\ UNCHANGED pending

\* rpcExecute has returned, and main ends.
ServerExit(k) ==
  /\ proc[k] = "returned"
  /\ End(k, "gone")
  /\ UNCHANGED <<crashes, toBinder>>

\* A client's first call connects it.
ClientStart(k) == Connect(k, "idle", None)

\* rpcCall up to recv.
ClientLocate(k, g) ==
  /\ proc[k] = "idle" /\ MayRequest
  /\ pending' = [pending EXCEPT ![k] = g]
  /\ Send(k, LocateRequest(g), "locating")

\* rpcTerminate up to recv.
ClientTerminate(k) ==
  /\ proc[k] = "idle"
  /\ Send(k, Terminate, "terminating")
  /\ UNCHANGED pending

\* Mutant: a client need not wait for its answer.
ClientHearGivesUp(k) ==
  /\ proc[k] \in {"locating", "terminating"}
  /\ proc' = [proc EXCEPT ![k] = "idle"]
  /\ pending' = [pending EXCEPT ![k] = None]
  /\ UNCHANGED <<procFrame, home, registered, crashes, netVars>>

\* The answer, or the loss of the binder, ends the call.
ClientHear(k) ==
  /\ proc[k] \in {"locating", "terminating"}
  /\ toPeer[k] # <<>> \/ EndOfMessages(k)
  /\ toPeer' = IF toPeer[k] = <<>> THEN toPeer
               ELSE [toPeer EXCEPT ![k] = Tail(@)]
  /\ proc' = [proc EXCEPT ![k] = "idle"]
  /\ pending' = [pending EXCEPT ![k] = None]
  /\ UNCHANGED <<procFrame, home, registered, crashes, backlog, toBinder>>

\* A process exits or is killed at any moment; the binder may see the
\* connection reset before it sees it closed.
Crash(k) ==
  /\ Alive(k)
  /\ crashes < MaxCrashes
  /\ crashes' = crashes + 1
  /\ \E s \in {"gone", "reset"} : End(k, s)
  /\ UNCHANGED toBinder

ServerStep(k) ==
  \/ \E a \in Addr : ServerStart(k, a)
  \/ \E g \in Signature : ServerRegister(k, g)
  \/ ServerHear(k) \/ ServerExecute(k) \/ ServerStop(k)
  \/ ServeReturns(k) \/ ServerExit(k)

ClientStep(k) ==
  \/ ClientStart(k) \/ ClientTerminate(k) \/ ClientHear(k)
  \/ \E g \in Signature : ClientLocate(k, g)

\* Without a binder, and with nobody left to notice, nothing happens.
AllGone ==
  /\ pc = "exited"
  /\ \A k \in Socket : ~Alive(k)
  /\ UNCHANGED vars

Next ==
  \/ BinderStep
  \/ \E k \in ServerSocket : ServerStep(k)
  \/ \E k \in ClientSocket : ClientStep(k)
  \/ \E k \in Socket : Crash(k)
  \/ AllGone

\* The binder and the calls in progress keep running.  A server that can
\* always go on registering calls rpcExecute in the end; when processes
\* start, what they ask for, and whether they crash is left open.
Fairness ==
  /\ WF_vars(BinderStep)
  /\ \A k \in ServerSocket :
       /\ WF_vars(ServerHear(k) \/ ServerStop(k) \/ ServeReturns(k) \/ ServerExit(k))
       /\ SF_vars(ServerExecute(k))
  /\ \A k \in ClientSocket : WF_vars(ClientHear(k))

Spec == Init /\ [][Next]_vars
FairSpec == Spec /\ Fairness

-----------------------------------------------------------------------------
(* Properties.                                                             *)

Message ==
  [type : {"REGISTER", "LOCATE_REQUEST"}, sig : Signature]
    \cup {Terminate, DB!TerminateSuccess}

\* Every variable has its type; the database's by its own type invariant.
\* The round in progress holds no connection that has been closed: main
\* would call recv on a deleted TcpSocket (binder.cc:212-215).
TypeOK ==
  /\ DB!TypeOK
  /\ pc \in {"accept", "poll", "serve", "send", "ask", "wait", "exited"}
  /\ open \subseteq Socket
  /\ ready \subseteq open
  /\ current \in open \cup {None}
  /\ asked \in open \cup {None}
  /\ running \in BOOLEAN
  /\ waiting \subseteq Addr
  /\ failure \in {None, DB!UnexpectedMessage, DB!ServerConnectionError}
  /\ proc \in [Socket -> {"none", "gone", "reset", "ready", "registering",
                          "serving", "stopping", "returned",
                          "idle", "locating", "terminating"}]
  /\ home \in [Socket -> Addr \cup {None}]
  /\ pending \in [Socket -> Signature \cup {None}]
  /\ registered \in [Socket -> SUBSET Signature]
  /\ crashes \in 0 .. MaxCrashes
  /\ backlog \in Seq(Socket)
  /\ toBinder \in [Socket -> Seq(Message)]
  /\ toPeer \in [Socket -> Seq(DB!Answer \cup {Terminate})]

\* What rpcRegister reported holds: as long as the binder runs and the server
\* is alive, every function it has registered is found by a locate request
\* (README.md:5, rpc.cc:118-124).
ServerIsLocatable ==
  \A k \in ServerSocket : \A g \in registered[k] :
    Alive(k) /\ pc # "exited" =>
      /\ signatureToServers[g][home[k]] # None
      /\ \E p \in serverQueue : p.addr = home[k]

\* A server has finished when serve has returned, which sends its acknowledgement
\* last of all, or when its process is gone.
Finished(k) == ~Alive(k) \/ proc[k] = "returned"

\* When the binder reports that the system has terminated, no server with a
\* registered function serves any more: each has acknowledged, though its
\* process may not have ended yet, or was lost before (libserver.cc:170-184,
\* binder.cc:140-166).
TerminationReported ==
  response = DB!TerminateSuccess =>
    \A k \in ServerSocket : registered[k] # {} => Finished(k)

\* Requests carry no number, so an answer belongs to the request of the
\* moment: a process that waits for nothing has no answer coming, one that
\* waits has at most one, of the kind it asked for, and only a TERMINATE can
\* come before or after it.
AnswersMatchRequests ==
  \A k \in Socket : Alive(k) =>
    LET answers == {i \in DOMAIN toPeer[k] : toPeer[k][i] # Terminate}
        kinds == CASE proc[k] = "registering" -> {"REGISTER_SUCCESS"}
                   [] proc[k] = "locating" -> {"LOCATE_SUCCESS", "LOCATE_FAILURE"}
                   [] proc[k] = "terminating" -> {"TERMINATE_SUCCESS", "TERMINATE_FAILURE"}
                   [] OTHER -> {}
    IN /\ \A i \in answers : toPeer[k][i].type \in kinds
       /\ Cardinality(answers) <= 1
       /\ answers # {} => toBinder[k] = <<>>

\* Main, its clients and its servers drive the database as its own
\* specification allows.
ImplementsDatabase == DB!Spec

\* A server that is gone is forgotten, so that the next one is used
\* (integration_test.py:44-46).
DeadServersForgotten ==
  \A k \in ServerSocket : Gone(k) ~>
    \/ pc = "exited"
    \/ /\ \A p \in serverQueue : p.sock # k
       /\ \A a \in Addr : serverToTimestamp[a].sock # k
       /\ \A g \in Signature, a \in Addr : signatureToServers[g][a] # k

\* No rpcRegister, rpcCall or rpcTerminate waits for the binder for ever.
EveryRequestEnds ==
  \A k \in Socket : proc[k] \in {"registering", "locating", "terminating"} ~>
                    proc[k] \notin {"registering", "locating", "terminating"}

\* Once a TERMINATE has been sent, the binder and all servers finish on
\* their own (integration_test.py:88-89).
TerminateStopsAll ==
  (\E k \in ClientSocket : proc[k] = "terminating") ~>
    /\ pc = "exited"
    /\ \A k \in ServerSocket : ~Alive(k)

=============================================================================
