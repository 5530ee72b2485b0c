# TLA+ specifications of rpc-library

rpc-library lets a C or C++ program call functions in another process. Servers
register functions with a *binder*; a client asks the binder for a server of a
function and then calls that server directly. This directory models the library
from the descriptors and byte streams it is built on to the functions of rpc.h
that programs call: the binder with its database, the threads of a server, the
messages, and the processes that use them.

- [Inventory](#inventory): the parts of the system and what makes each correct
- [Modules](#modules): which module models what, and how it corresponds to the code
- [Runs](#runs): what TLC checks, and with which bounds
- [Fairness](#fairness)
- [Proofs](#proofs)
- [Disagreements](#disagreements-between-the-code-and-what-it-says)
- [What is not modelled](#what-is-not-modelled)
- [Plan](#plan)

Every definition is translated from the code; `PROJECT.json` gives the lines
each one stands for. The operators introduced by a comment "Mutant:" are not
part of any specification. Each is a plausible bug in the code, in the form of
the definition it would replace, and is kept to show that the property named in
`PROJECT.json` notices it.

## Inventory

| Component | State | Operations | Talks to |
|---|---|---|---|
| `BinderDatabase` (binder.cc:17-191) | `time_`; `server_queue`, ordered by timestamp; `server_to_timestamp`; `signature_to_servers` | `handleRegister`, `handleLocate`, `handleTerminate`, `removeIfServer` | called by the main loop; `handleTerminate` exchanges messages with every server |
| Binder main loop (binder.cc:193-279) | the round of ready connections, `running` | accept, poll, receive, dispatch, send | `TcpServer`, all clients and servers |
| Server runtime (libserver.cc) | `total_threads`, `terminating`, four kinds of threads | `serve`, `binder_listen_thread`, `client_listen_thread`, `serve_client_thread` | the binder's `TERMINATE`, one connection per call |
| Library API (rpc.cc, rpc.h) | `local_server`, `binder`, `database` | `rpcInit`, `rpcRegister`, `rpcExecute`, `rpcCall`, `rpcTerminate` | binder by request and answer; servers |
| `TcpServer` (tcp_server.cc) | `connections`, `fd_master`, `fd_max`, `listener` | `acceptIfAny`, `connectionsWithData`, `connectionClosed`, `releaseConnection` | used by the binder and, from one thread, by a server |
| `TcpSocket` (tcp_socket.cc) | a descriptor | `send`, `recv` of length-prefixed messages | both ends of every connection |
| `TcpClient` (tcp_client.cc) | a socket | connect, `send`, `recv` | used by clients and servers |
| Message codec (message, protocol_macros, \*_messages) | none | serialise, deserialise | every message |
| Arguments, signatures (arg, signature) | none | `signature_of_arg_types`, argument sizes | codec, both databases |
| Errors (error.\*) | none | exception classes | |
| Examples, tests | | `server.c`, `client1.c`, `integration_test.py`, unit tests | use the library |

What is hard in each, and what would make it correct:

- **BinderDatabase.** Three structures describe the same servers and are
  changed together by three handlers; servers are compared by address only,
  while the connection (`server_socket`) rides along and may be that of an
  earlier insertion. `time_` is an `unsigned int`. *Correct when*: the
  structures agree; a registered server can be located; locating is round
  robin; no pointer of a closed connection stays behind.
- **Binder main loop.** One thread serves everybody, from a vector of
  connections taken before they are served. Processes crash at any moment, also
  with messages on their way, and an error may be seen by `send`, by `recv`, or
  first as a reset and then as an end. While `handleTerminate` waits for one
  server's acknowledgement nobody else is served, and what it receives may be
  a `REGISTER`. *Correct when*: answers reach the request they belong to; every
  request ends; lost servers are forgotten; `TERMINATE` stops the binder and
  all servers; success is reported only when all have acknowledged or are gone.
- **Server runtime.** Threads share a counter (locked when written, not when
  read) and a flag; `serve` spins on the two and then cancels a thread that may
  be creating another. *Correct when*: the counter is exact, `serve` ends once
  told to and not while a call is being served, each call runs at most once and
  gets the outcome it had.
- **Library API.** Global pointers created on first use and never replaced:
  `rpcExecute` without `rpcInit` dereferences null, and the binder's connection
  is not renewed after it was lost. All threads of a process share that one
  connection, `binder_listen_thread` and skeletons that call other functions among
  them. *Correct when*: a call is run at most once and ends with what happened,
  whoever dies; a server that can be located knows its functions; a server ends
  with its binder.
- **TcpServer.** Descriptors are keys of the map, members of `fd_master` and
  are reused by the kernel as soon as they are closed; `connectionClosed` closes
  one that the `TcpSocket` destructor closes again. *Correct when*: `fd_master`
  and `connections` have the same descriptors, and no open one is closed by
  mistake.
- **TcpSocket.** A message is a length and a body on a byte stream; reads are
  partial. *Correct when*: `recv` returns exactly the messages that were sent, or
  an error.
- **Codec, arguments.** Direction, type and length of an argument share one int,
  with the sign bit in use; integers are put together from signed chars; a status
  has one byte. *Correct when*: a reader gets what the writer wrote, signatures
  are equal exactly for the same functions, outputs and only outputs come back
  to the client, and errors remain errors.

`PROJECT.json` lists the hazards line by line, each with the properties that
would notice it, or the reason why none does.

## Modules

```
RoundRobin <---implements--- BinderDatabase <---implements--- Binder <- MCBinder
RemoteCall <---implements--- Server
           <---implements--- RpcApi
ConnectionPool <---implements--- TcpServer
MessageChannel <---implements--- TcpSocket
Marshalling <- MCMarshalling
```

Every arrow of this picture is a property that a run checks and a theorem
states. The proofs about module `M` are in `MProofs`: `BinderDatabaseProofs`,
`RoundRobinProofs` (the database implements `RoundRobin`), `BinderProofs`,
`ServerProofs`, `TcpServerProofs`, `TcpSocketProofs`, `MarshallingProofs`,
`RpcApiProofs`.

### BinderDatabase

The class of the same name. A `ServerData` is an address and a connection, but
`operator<` (binder.cc:23-26) sees the address alone; therefore a
`set<ServerData>` is a partial map from addresses to connections, and
`server_to_timestamp` maps an address to the connection *of the first
insertion* and a timestamp. `server_queue` is a set of entries in which no two
have the same timestamp and address (`Insert`).

| Code | Model |
|---|---|
| `time_`, `server_queue`, `server_to_timestamp`, `signature_to_servers` | `time`, `serverQueue`, `serverToTimestamp`, `signatureToServers` |
| `handleRegister` | `HandleRegister(g, a, k)`: duplicate (warning 1), or insert and `Requeue` |
| `handleLocate` | `HandleLocate(g)`: the entry with the least timestamp among `Serving(g)`, requeued at the back |
| `handleTerminate` | `HandleTerminate`: read only, any outcome the exchange can have; the exchange is in `Binder` |
| `removeIfServer` | `RemoveIfServer(k)` |
| `unsigned int` | arithmetic modulo `TimeMod` |
| a status in a message | `StatusByte`: one byte, read back signed (-1003 arrives as 21); `Marshalling` has the other messages |

The module's own `Next` is the most general main loop: connections are
accepted and closed, requests come in any order. `AddrReuse` says whether a
new process may announce the address of one whose old connection the binder
still holds, which happens when a server crashes and another gets its port.

**RoundRobin** is its abstract specification: sets of servers per function and
a relation "idle for longer than". `Locate` hands out a server that has been
idle for longer than all others of the function; `LocateFails` is possible only
when there is none. There are no timestamps and no queue. The refinement mapping
(`RR` in BinderDatabase) reads `serves` off the signatures and `idle` off the
timestamps.

### Binder

The main loop, step by step, with the processes at the other ends. `Binder`
instantiates `BinderDatabase` with `peer <- announced`, uses its handlers as
parts of its actions, and checks that the composition does to the database only
what the database's own specification allows (`ImplementsDatabase`).

| Code | Model |
|---|---|
| binder.cc:202-209 `acceptIfAny` | `AcceptIfAny`: waits in select, accepts at most one |
| 211 `connectionsWithData` | `ConnectionsWithData`: fixes the round, `ready` |
| 214-227 `recv` | `ConnectionClosed`, `ReceiveFails`, or `Receive` as part of the next three |
| 236-249 | `ServeRegister`, `ServeLocate` with the database's handler |
| 250-257, 119-160 | `ServeTerminate`, `AskServer`, `HearServer`, `LoseServer`, `TerminateDone` |
| 267-276 | `SendResponse`, which may find the peer gone |
| rpc.cc:86-95, 97-143, 145-151 | `ServerStart`, `ServerRegister`/`ServerHear`, `ServerExecute` |
| libserver.cc:131-153, 170-184; the end of main | `ServerStop`, `ServeReturns`, `ServerExit` |
| rpc.cc:169-208, 247-280 | `ClientStart`, `ClientLocate`, `ClientTerminate`, `ClientHear` |
| death of a process | `Crash`: the end may be seen as a reset first |

A `Socket` is a connection from connect to close and may then be taken by another
process, as a `TcpSocket` pointer may. The binder keeps `connections` by descriptor
and serves them in that order; descriptors are reused, so the order is any order, and
the model picks it freely. Channels carry whole messages, in order, without loss until
an end closes. The server program of `Server` appears here by its interface to the
binder: `ready`, `registering`, `serving`, `stopping`, `returned`. The acknowledgement
is sent by a process that is still alive; that `serve` has returned and that the
process ends are two steps. The loop of main never sees a type it does not know from a
process that uses the library, except an acknowledgement that comes too late, which is
not possible either: the binder waits for it.

### Server

`serve` and its threads, and the calls of clients from connect on. Reads and
writes of the shared variables are steps of their own: `SpinReadsTerminating`
and `SpinReadsTotalThreads` are the two halves of the condition of the loop
`while(!terminating or total_threads > 1)`; `BinderThreadHears` sets the flag,
`BinderThreadEnds` counts down; `Dispatch` counts up, `CreateWorker` creates.
`pthread_cancel` takes effect in `select` and `accept` (`ListenerCancelled`), not between
`inc_threads` and `pthread_create`. `volatile int` reads outside the lock are
taken to return the current value, which is what the build produces for an
aligned word.

| Code | Model |
|---|---|
| `total_threads`, `terminating` | `totalThreads`, `terminating` |
| libserver.cc:155-184 `serve` | `main`: `SpinReads…`, `CancelListener`, `JoinListener`, `ServeReturns`, then `ProcessExits` |
| 131-153 | `binderThread`: `BinderThreadHears`, `BinderThreadEnds` |
| 101-129 | `listener`: `AcceptIfAny`, `ConnectionsWithData`, `Dispatch`, `CreateWorker`, `ListenerCancelled` |
| 51-99 | `worker[c]`: `WorkerReceives`, `WorkerRuns`/`WorkerRefuses`, `WorkerReplies`, `WorkerCloses`, `WorkerEnds` |
| rpc.cc:210-245 | `client[c]`: `ClientConnects`, `ClientSends`, `ClientHears` |

**RemoteCall** is its abstract specification: for each call, how often it was
run and what the caller knows. A call runs at most once, a result is returned
only for one that ran, "could not be run" only for one that never will. A call
may end without an outcome at any time, and several end together when the
process dies that made them (`Fail`).

### TcpServer

The descriptors of one process, as the kernel hands them out (always the least
free one) and as `TcpServer` keeps them: `fd_master`, `fd_max`, the map
`connections`, and the `TcpSocket` objects, each of which closes its descriptor
when it is destroyed. `threaded` says who uses it: the binder, whose single
thread serves the connections and calls `connectionClosed`, or
`client_listen_thread`, which releases them to threads that close descriptors
while it accepts.

| Code | Model |
|---|---|
| tcp_server.cc:92-109 `acceptIfAny` | `AcceptIfAny`, with `FdSet` and `Emplace`; fails without a free descriptor |
| 111-128 `connectionsWithData` | `ConnectionsWithData`; `aborted` is an exception nobody catches |
| 130-135, 137-143 | `ConnectionClosed`, `ReleaseConnection` |
| libserver.cc:59-95 | `WorkerReceives`, `WorkerCloses` |

**ConnectionPool** is its abstract specification: a backlog and a set of open
connections; they are accepted in order, and never closed under a peer that is
still there.

### TcpSocket

`send` and `recv` over streams whose bytes arrive in pieces, read by one thread that
serves several connections in rounds. An int has `LengthBytes` bytes of `Base`
values each, lowest first; there are two, so that one can be missing. `recv` reads
the length with one call of `::recv` and the body with a loop (`RecvLength`,
`RecvBody`), and throws when the stream ends (`RecvFails`). With `SplitsLength` the
bytes of a length may arrive one by one; what `::recv` has not written is then
whatever the stack held.

**MessageChannel** is its abstract specification, one FIFO of whole messages per
connection. That is what `Binder`, `Server` and `RpcApi` take a connection to be.

### Marshalling

The data of one call, byte by byte: the REGISTER of a server, the
LOCATE_REQUEST and LOCATE_SUCCESS, the EXECUTE with its arguments, the skeleton,
and the answer. An argument type is the signed 32-bit int of rpc.h, a message the
sequence of bytes the `Serializer` makes of it, and every reader decodes bytes.

| Code | Model |
|---|---|
| arg.cc, signature.cc | `GetArgType` ... `NumberOfArgs`, `SignatureOf` |
| protocol_macros.cc, .h | `EncodeInteger`, `DecodeInteger`, `DecodeString`, `StatusMessage`, `DecodeStatus` |
| `Serializer<Register>` and so on | `Register`, `DecodeRegister` and so on |
| binder.cc:46-59, 72-117 | `HandleRegister`, `HandleLocate`, for one server |
| libserver.cc:24-49 | `HandleExecute`: any subset of the arguments is overwritten |
| rpc.cc:153-167, 185-244 | `LocateHeard`, `CopyOutputArgumentsBack`, `ReplyHeard` |

`restarted` stands for a server that is at the announced address and does not know
the function. Names and hosts are sequences of bytes. Positions in a buffer are
natural numbers, where the code's are ints: messages are shorter than 2 GB.
`MCMarshalling` has the functions of `client1.c` and `server.c`, and variants of them
that differ in one respect.

### RpcApi

The processes, through the globals `binder`, `local_server` and `database` of
rpc.cc. The main of a server calls `rpcInit`, `rpcRegister` as often as it likes
and `rpcExecute`, and does not look at the results, like `server.c`; that of a client
calls `rpcCall` any number of times and ends with or without `rpcTerminate`, like
`client1.c`. The skeletons of the functions in `Nested` may call `rpcCall`
themselves, on the thread of their call.

| Code | Model |
|---|---|
| rpc.cc:39-74, 171-174 | `Connects`, `ConnectFails`, `LazyConnection` |
| 76-95, 97-143, 145-151 | `RpcInit`, `RpcRegister` and `RpcRegisterReturns`, `RpcExecute` |
| 169-245 | `RpcCall`, `RpcCallLocates`, `RpcCallReturns` |
| 247-280 | `RpcTerminate`, `ClientReturns` |
| libserver.cc:131-153, 155-184; the end of main | `BinderListens`; `LeaveLoop`, `ServeReturns`; `RpcExecuteReturns` |
| libserver.cc:101-128, 51-99, 24-49 | `Accept`, `HandleExecute`, `Answer`, `HangUp` |
| binder.cc | `BinderRegisters`, `BinderLocates`, `BinderForgets`, `BinderTerminates`, `BinderAsks`, `BinderHears`, `BinderExits` |

The binder and the threads are here in the form their own modules justify: the
binder handles one message at a time and hands out any server of the function
(`Binder`, `BinderDatabase`), a thread serves one call (`Server`). The binder's port
is a new one each time it is started (tcp_server.cc:27), so for processes with the
environment of the old one there is no second binder. A connection `"none"` is
the null pointer; one that is `"lost"` stays, and every use of it fails. Whatever
receives on a connection first gets the message: `RpcCallLocates` and
`BinderListens` compete for it.

### MCBinder, MCMarshalling

`MCBinder` adds the symmetry of addresses and of servers, which only runs without
liveness properties use. `MCMarshalling` adds the functions.

## Runs

| Run | Question | Bounds | Distinct states |
|---|---|---|---|
| database_safety | Do the structures agree, is no closed connection kept, and is locating round robin (`ImplementsRoundRobin`)? | 3 addresses, 3 connections, 2 signatures, `MaxTime` 5 | 43 000 |
| binder_safety | Do registered functions stay locatable, is termination reported truthfully, do answers match requests, is the database used as specified? | 2 servers, 1 client, 2 signatures, 2 crashes, `MaxTime` 4 | 1 080 000 |
| binder_reuse | Do they stay locatable when an address is reused? (violated) | the same, `AddrReuse` | |
| binder_liveness | Are dead servers forgotten, does every request end, does TERMINATE stop everything? | 2 servers, 1 client, 1 signature, 1 crash, `MaxTime` 3 | 108 000 |
| server | Is `total_threads` exact, does `serve` leave its loop idle, is no thread started after the join, is each call run at most once, do the server and every call end? | 2 calls, `ThreadLimit` 2 | 56 000 |
| server_cancel | Is the listener the only thread after the loop? (violated) | 2 calls | |
| tcpserver | Do mask and map agree, does each object own its descriptor, is nothing thrown that is not caught, do descriptors come back? | 4 connections, `FdLimit` and `FdSetSize` 3 | 341 000 |
| tcpsocket | Are messages received whole, in order, and in the end? | 2 connections, `MaxSent` and `MaxLength` 2, `Capacity` 4, `LengthBytes` 2, `Base` 4 | 264 000 |
| marshalling | Do signatures tell functions apart, are messages read as written, do outputs and only outputs come back, does 0 mean success? | 15 functions, returns 0, 1, -1, 256 | 3 000 |
| marshalling_status | Are errors negative? (violated) | the same | |
| api | Does a call run at most once and end, does a located server know its function, do servers end? | 1 server, 2 clients, 2 functions, 2 calls, `MaxFaults` 1 | 556 000 |
| api_nested | Does a server that was sent a TERMINATE end? (violated) | the same | |

**What the properties say**

- `StructuresAgree`, `RegisteredIsQueued`, `JustLocatedIsLast`: see above and
  the comments. They hold only while addresses are not reused and `time_` does
  not wrap: set `AddrReuse` to TRUE, or `TimeMod` to 4, in
  BinderDatabase_safety.cfg and they fail.
- `NoDanglingSocket` holds in general, with reused addresses too, which is
  proved. It is what makes `handleTerminate`'s use of stored pointers safe.
- `ServerIsLocatable` relates what a server was told to what the binder keeps:
  after REGISTER_SUCCESS, and while it lives, its function can be located.
- `TerminationReported`: TERMINATE_SUCCESS implies that every server with a
  registered function has finished (`Finished`): its `serve` has returned, having
  sent the acknowledgement, or its process is gone. That the process of a server
  that has acknowledged is gone as well is not implied: it is in the last lines of
  main, and may still run a skeleton that the listener started late (run
  server_cancel). A server that has registered nothing is not asked, and ends
  when it sees the binder gone.
- `AnswersMatchRequests`: messages carry no request number, so a process must
  never have an answer on its way that it does not wait for. Only `TERMINATE`
  may come unasked, and `rpcRegister` may receive it in place of its answer.
- `DeadServersForgotten`, `EveryRequestEnds`, `TerminateStopsAll`: liveness of
  the binder, including that waiting for an acknowledgement never blocks it for
  ever.
- `ThreadsCounted`, `LeavesLoopIdle`, `NoWorkerAfterJoin`: the protocol of
  `total_threads`. `LeavesLoopIdle` is about the very moment `serve` reads the
  counter; what happens after it is the finding of server_cancel.
- `ServerTerminates`, `EveryCallEnds`: liveness of the server.
- `MasterTracksConnections`, `SocketsOwnDescriptors`, `NeverAborts`: a descriptor is
  known in four places, and the kernel reuses it at once when it is closed; the
  three say that the places agree at every moment, that no `close` hits somebody
  else's connection, and that select and `at(fd)` never throw.
  `DescriptorsComeBack`: after `accept` has failed for want of descriptors, those of
  finished calls return and the waiting connections are accepted.
- `ImplementsMessageChannel`, `ArrivedIsReceived`: framing, with partial reads and
  senders that die in the middle of a message. The second is weaker than the
  "Non-blocking" of tcp_server.h:12: one sender that stays and goes silent in the
  middle of a message keeps all others waiting, which fairness excludes.
- `LocatedIffSame` compares signatures with what signature.h promises about the
  programmer's declarations; `MessagesArrive`, `OutputsComeBack` and
  `ZeroMeansSuccess` follow one call's data through every encoding. The last is as
  strong as the code allows: a skeleton that returns 256 looks successful.
- `RefusedMeansBinderLost`: a server is registered with the binder a little before
  it knows of it itself. A call can fall into the gap, but then it waits in the
  backlog until `rpcExecute`; it is refused only if the answer was lost with the
  binder, or if it was sent to a server of another function. That is possible
  when two skeletons of one server call different functions at once: their
  LOCATE_REQUESTs go over the one connection of the process, and each thread may
  take the other's answer. The property excepts every call for which there is
  another nested call of the same process to another function (`Crossing`), whether
  or not their answers were exchanged. An exchange needs two servers, two clients,
  three functions and four calls; in the bounds of run api there is no `Crossing`,
  and the property says there that only a lost binder makes a refusal.
- `EveryCallEnds`, `ServersEnd` of `RpcApi` hold unless messages have crossed
  (`Crossed`), the exception that api_nested is about.

**Why the bounds are enough.** *BinderDatabase*: three addresses are needed to tell
"idle longest" from "not used last", two signatures to have servers that are in the
queue and not candidates. `MaxTime` 5 admits four requests that change the queue:
every server once, and one of them again; each later one finds a database of the same
shape, since only the order of the timestamps matters. *Binder*: two servers and a
client are the least with which one server fails while the other is asked to stop and
a third process waits; two crashes let both servers, or a server and the client that
asked, die at every moment. A request on its way counts against `MaxTime` when it is
sent (`MayRequest`), so the bound never drops one. *Server*: two calls put one between
counting and creation, and one in a thread. `ThreadLimit` lets both have a thread: a
thread that cannot be created stays counted (libserver.cc:123-124) and with a lower
limit `ServerTerminates` fails. *TcpServer*: two descriptors for four connections
reuse each and exhaust them; `FdSetSize` is no lower than `FdLimit`, as with the
default limits of a process. Beyond it FD_SET writes out of bounds, into `fd_max` or
whatever the compiler makes of it; `FdSet` then leaves the mask, `fd_max` and whether
the process aborts open, and the properties of the mask fail. *TcpSocket*: two
messages show a stream out of step, two connections one that waits for the other; a
socket holds one whole message, so that longer ones arrive while they are read.
`SplitsLength` is FALSE: four bytes that are sent together arrive together on every
network the library was written for, but nothing guarantees it, and with TRUE both
`TypeOK` and `ImplementsMessageChannel` fail. *Marshalling*: one call passes every
encoder; the functions have every type, direction and kind of length that `client1.c`
uses, and lengths above 255. *RpcApi*: one call inside another, or two clients against
each other, at one server, with one crash or failure at any step; what two servers do
to each other is the matter of `Binder`.

Deadlock is checked in every run but api and api_nested: there the system stops
when no call is left to make, and when messages have crossed. `AllGone`,
`Finished`, `AllServed`, `Quiet` and `Done` are the stutters of systems in which
everything has ended.

## Fairness

`FairSpec` assumes of the binder that its single thread keeps running
(`WF(BinderStep)`), of processes that a call in progress goes on, and of the
threads of a server that the scheduler runs each of them: POSIX threads are
scheduled preemptively, so the spinning main cannot starve the others, and
`pthread_mutex_lock` is held for one addition. Beyond that:

- A server calls `rpcExecute` in the end (`SF(ServerExecute)`): a program may
  register as often as it likes, and is not ready while it does, so weak fairness
  would not be enough; every server program of the repository registers a
  fixed list and executes. Without it the binder's wait for an acknowledgement
  has no bound.
- A skeleton returns (part of `WF(Worker(c))`). A function that loops keeps
  `serve` from returning, by design.
- A connected client sends its request and hears the answer. `recv` has no
  timeout, so a client that connects and stays silent would keep its thread,
  and the termination of the server, waiting.
- Nothing is assumed of when processes start, what they ask, and whether they
  crash; of when the binder terminates a server; of the choices inside an
  action, such as whether a send to a dead process fails.

- In `TcpServer`, a client of a server leaves in the end (`WF(threaded /\ Leave(c))`):
  `rpcCall` closes its connection when it returns. A client of the binder need not.
- In `TcpSocket`, what was sent arrives unless the sender dies. Without that
  assumption a peer that stops in the middle of a message blocks the one thread
  of the binder in `recv`, although select has said that there is something to
  read, and `ArrivedIsReceived` fails.
- In `RpcApi` the same as in `Binder` and `Server`; nothing is assumed of what
  clients and skeletons ask for.

The calls are finitely many. With calls without end the
counter need never be seen at 1, and the accept loop keeps taking them after
`terminating` is set: see the hazard at libserver.cc:164.

## Proofs

Each theorem holds for every value of the constants that satisfies the named
assumptions of its module, and of the extra ones in the second column.

| Module | Theorem | Assumes | States of `Spec` |
|---|---|---|---|
| `BinderDatabaseProofs` | `TypeCorrect`, `NoDanglingSocketHolds` | - | `[]TypeOK`, `[]NoDanglingSocket` |
| | `DatabaseInvariant` | `NoWrap`, `~AddrReuse` | `[]DatabaseInv` |
| | `StructuresAgreeHolds`, `RegisteredIsQueuedHolds`, `JustLocatedIsLastHolds` | the same | the three properties |
| `RoundRobinProofs` | `DatabaseImplementsRoundRobin` | the same | `ImplementsRoundRobin` |
| `BinderProofs` | `TypeCorrect`, `AnswersMatch` | - | `[]TypeOK`, `[]AnswersMatchRequests` |
| | `BinderImplementsDatabase` | - | `ImplementsDatabase` |
| | `ServersAreLocatable`, `TerminationIsReported` | `NoWrap`, `~AddrReuse` | `[]ServerIsLocatable`, `[]TerminationReported` |
| `ServerProofs` | `TypeCorrect` | - | `[]TypeOK` |
| | `LoopIsLeftIdle`, `JoinIsFinal` | - | `LeavesLoopIdle`, `NoWorkerAfterJoin` |
| | `ThreadsAreCounted` | `EnoughThreads` | `[]ThreadsCounted` |
| | `ServerImplementsRemoteCall` | - | `ImplementsRemoteCall` |
| `TcpServerProofs` | `TypeCorrect`, `DescriptorsAreOwned`, `PollNeverAborts` | `EnoughBits` | `[]TypeOK`, `[]SocketsOwnDescriptors`, `[]NeverAborts` |
| | `MaskIsExact` | the same | `[]MasterTracksConnections` |
| | `TcpServerImplementsConnectionPool` | the same | `ImplementsConnectionPool` |
| `TcpSocketProofs` | `TypeCorrect` | `~SplitsLength` | `[]TypeOK` |
| | `TcpSocketImplementsMessageChannel` | the same | `ImplementsMessageChannel` |
| `MarshallingProofs` | `IntegerArrives`, `SameSignature` | - | (about operators) |
| | `TypeCorrect`, `LocatesTheSame`, `ReadAsWritten` | - | `[]TypeOK`, `[]LocatedIffSame`, `[]MessagesArrive` |
| | `OutputsAreCopiedBack`, `ZeroIsSuccess` | - | `[]OutputsComeBack`, `[]ZeroMeansSuccess` |
| `RpcApiProofs` | `TypeCorrect`, `RefusalsExplained` | - | `[]TypeOK`, `[]RefusedMeansBinderLost` |
| | `RpcApiImplementsRemoteCall` | - | `ImplementsRemoteCall` |

The extra assumptions are necessary: without any of them TLC finds properties
violated.

- `NoWrap` is `MaxTime < TimeMod`: fewer than 2^32 requests. `~AddrReuse`: no
  process gets the address of one whose connection the binder still holds.
- `EnoughThreads`: as many threads as calls, so `pthread_create` does not fail. A
  thread that was counted and not created is counted for ever. The other theorems
  about `Server` hold however many threads fail to be created.
- `EnoughBits` is `FdLimit <= FdSetSize`: every descriptor has a bit. Without it
  FD_SET is undefined behaviour and nothing is claimed of a `TcpServer`.
- `~SplitsLength`: the bytes of a length arrive together, as one `::recv` for
  all of them assumes.

The assumptions in the modules only give the constants their kinds: finite sets of
calls (`ServerAssumption`) and of connections (`RolesAssumption`), sets of servers
and of clients that are disjoint (`RolesAssumption`, `RpcApiAssumption`), natural
numbers for limits (`TcpServerAssumption`, `TcpSocketAssumption`,
`ConstantsAssumption`), and a `None` that is nothing else (`NoneAssumption`).
`TcpSocketAssumption` also says that `Encode` can express the lengths that occur, as an
int can. `MarshallingAssumption` takes names and hosts to be bytes, numbers of them and
of parameters to fit an int, and lengths of arrays and the port 16 bits, as the code
does.

*The database.* `NoDanglingSocket` is inductive given the types: a handler stores
only the socket it was called with, which is open, or one it found in the
queue, and closing a connection purges all three structures.

`StructuresAgree` is not inductive alone. `handleRegister` erases the server's old
queue entry by its timestamp, and keeps the socket that `server_to_timestamp`
already has; agreement survives only if that socket is the caller's, which is
`StampedByOwner` (a stamped server is the one that announced the address on that
connection) together with `AddressesDistinct`. That `Insert` really inserts, and
that the new entry is the last, needs `StampsArePast`: every stamp is positive and
less than `time_`, and stamps are distinct. `DatabaseInv` is the conjunction; TLC
finds it invariant within the bounds of database_safety, and the proof shows that
each handler preserves it, one lemma per handler and one step per conjunct it can
disturb. `RegisteredIsQueued` follows from `StructuresAgree`.

The refinement needs one fact more, `QueuedIsRegistered`: RoundRobin forgets a
server that serves nothing, so the queue must not hold one; `removeIfServer`
erases a registration only along with the entry of the queue. With it, the
servers RoundRobin knows are those in the queue (`KnownIsQueued`), requeueing is
a use (`RequeueIsUse`), and each handler is one step of RoundRobin: a register
or a repeated one, a locate or a failed one, a terminate, or a leave
(`RegisterRefines` to `RemoveRefines`). That the least timestamp among the
candidates means "idle longest" is where distinct timestamps are used.

*The binder.* The composition is shown to use the database as its specification
says (`BinderImplementsDatabase`); everything proved about the database is then
true inside the binder, by the theorems of `BinderDatabaseProofs` under the
substitution (`DBP`). What the database's specification asks of its environment
is proved from the other side: a handler is called with an open connection only
(`Database`, `Loop`), `time` stays within `MaxTime` because a request was counted
when it was sent (`Budget`), and a new process announces a new address (`Homes`).

`AnswersMatchRequests` needs to know that requests and answers alternate. `Lockstep`:
while no server is asked to terminate, a connection carries at most one request,
of the kind its process waits for. `Answered`: at most one answer is on its way, it fits
the state of the process, it comes before any TERMINATE, and then there is no
request. `Serving`: the same for the answer main is about to send. After the first
TERMINATE a server may have its acknowledgement and an old request on the line;
that is why `Lockstep` is stated for `Normal` states.

`ServerIsLocatable` follows from `Registered`: what a server was told, or is about
to be told, is in `signature_to_servers` at its address. It is preserved because
`removeIfServer` is called for connections that have ended only, and those of
two servers have different addresses. `TerminationReported` follows from `Told`
(an acknowledgement is sent by a server that has finished), `Heard` (a server that
is not in `waiting` and was not the cause of a failure has finished) and `Over`.
A server that has finished sends nothing more, so its acknowledgement stays the
last message of its connection.

*The server.* `ThreadsCounted` alone is not inductive: if a second thread could
be created for a connection that has one, `CreateWorker` would keep the number of
workers and lose the one `Dispatch` counted. `Places` excludes that: a connection
is in the backlog, or in `managed`, or the one being created, in at most one
of them, and has no worker until it leaves the last. What total_threads counts
is `Handed`: the connections handed out to a thread that runs, is being created, or
could not be created. `HandedCounted` is true whether or not threads can be created;
with `EnoughThreads` no connection is lost on the way (`NoneLost`), and it is
`ThreadsCounted`. `Joined` (after the join the listener is gone) gives
`NoWorkerAfterJoin`; `Last` keeps the bound of `total_threads` when the process has
exited and nothing counts any more. Where a step changes the set handed out, the
cardinality theorems of the library give the difference. `LeavesLoopIdle` then is
arithmetic: with `total_threads` at most 1 and the listener counted, `Handed` is empty.

For `RemoteCall`, `Stages` ties together the four places that know of a call: while the
client has not been answered, how often the call was run can be read off its worker;
an answer on the wire tells whether it ran; and a worker that goes back to receive on
the connection finds no second request. Each step then is one of `RemoteCall` or
none.

*TcpServer.* `Owned` is the heart: what a `TcpSocket` has at its descriptor is its own
connection, and what `connections` has at a key is the connection open there. It is
what makes the second close in `connectionClosed` harmless (the binder is alone), and
what a thread that closes while the listener accepts would break if the two could
hold the same descriptor: `Placed` says that a connection waits, is managed, or was handed
to a thread. `Masked` bounds `fd_master` by `fd_max` and by the keys of the map.
From them, `select` and `at(fd)` never throw, and no connection is closed under its
peer, which is what `ConnectionPool` allows. `EnoughBits` is used in one place, the
`FD_SET` of `acceptIfAny`, and everything else depends on it.

*TcpSocket.* The invariant describes a stream in the middle of anything. What recv
has read of the current message (`Held`), what waits in the socket and what is still
on its way together are the wire of the messages sent and not returned (`Pending`),
but for an end that died with the sender (`Carries`); `rest` gives, for each of them, what
follows it on the wire. `Whole` says that the bytes that have arrived do not end
within a length, which `Arrive` preserves if lengths arrive together, and which a
death of the sender preserves as well. Then the two bytes of `RecvLength` are the length of
the first pending message, the bytes of `RecvBody` are those of its body, and when
they are complete the first message is cancelled from both ends (`Completed`). It
holds for messages of every length up to what an int can express, and sockets that hold
less than a message.

*Marshalling.* Everything rests on one predicate, `At(b, pos, s)`: the buffer `b`
has the bytes `s` from `pos` on. A concatenation that is in a buffer is there in its
parts (`AtParts`), so each decoder needs to be shown right for its own bytes at any
position: an int from its four bytes with the sign in the highest (`FourBytes`), a
string, an array of types, the arguments. The last two are sequences of any length,
which the encoder concatenates and the decoder walks along by recursion; the lemmas
about them (`FlattenIsLast`, `FlatArrives`, `DataArrives`) are proved by induction.
The library's induction theorem takes an operator, which the provers cannot
instantiate; `Induction` says the same of a set, and is proved from the
well-foundedness of `<` (`NatLessThanWellFounded`, `WFMin`). What is recursive is
defined as a `CHOOSE` of a function that satisfies its equation: a witness is
exhibited, and the one chosen then is shown to equal it by induction. The invariant
itself is simple: what is on the wire in each step (`Sent`), and that nothing has
changed at the client before the reply (`Untouched`).

*RpcApi.* `RefusedMeansBinderLost` is about a gap between two processes, so the
invariant follows a function's name around: a function registered with the binder is
`Known` to its server, or its REGISTER_SUCCESS is on the way, or the server is gone
(`Bound`); that needs the connection of a server that registers to carry one message
(`ServerLine`), and a client's to carry one LOCATE_REQUEST or an answer with a
server that knows the function asked for (`ClientLine`). For servers whose skeletons
call, the answers on the line are only known to be for *some* call of the process
(`Sources`), hence `Crossing` in `Located` and `Refused`. All of it is stated for
the time the binder is up, or not gone (`Lines`): afterwards answers may be missing.
`Stages` is for the refinement what it is in `ServerProofs`.

**What the proofs found in the model.** `RefusedMeansBinderLost` was at first stated
without `Crossing`; its proof failed where two skeletons of one server wait for
answers, and TLC confirmed the counterexample with a second server. `RemoteCall` let
one call fail at a time; in the proof that `RpcApi` implements it, the calls of a
process that dies end in one step. `EnoughThreads` turned out to be needed for
`ThreadsCounted` alone.

**Only model-checked.** The liveness properties (`DeadServersForgotten`,
`EveryRequestEnds`, `TerminateStopsAll`, `ServerTerminates`, `EveryCallEnds`,
`DescriptorsComeBack`, `ArrivedIsReceived`, `ServersEnd`): the proof system does not
reason about ENABLED, on which fairness rests.

## Disagreements between the code and what it says

Each has a run that shows it.

1. A server at a reused address (binder.cc:23, run binder_reuse): it is taken for
   the old one, answered with success, and forgotten with the old connection
   (README.md:5 "full crash tolerance").
2. `serve` may cancel the listener after it has started a thread
   (libserver.cc:164-167, run server_cancel), against the comment in line 166.
3. A status has one byte (protocol_macros.h:34, run marshalling_status): the
   refusal of a call, -1003, arrives as 21, against message.h:7, and `client1.c`
   takes it for success.
4. A skeleton that calls another function receives on the connection of
   `binder_listen_thread` (libserver.cc:139, rpc.cc:185, run api_nested): it may take the
   TERMINATE, and neither the server nor the binder ends, against
   libserver.h:13-14.

Further limits appear when a constant is changed, as said under
[Runs](#runs): `time_` wraps after 2^32 requests (`TimeMod`); the commented
assertion at binder.cc:101 fails with reused addresses (`AddrReuse`); a thread that
cannot be created stays counted (`ThreadLimit`); descriptors beyond FD_SETSIZE
(`FdSetSize`); a length that arrives in parts (`SplitsLength`).

## What is not modelled

- `rpcCacheCall`, and with it "client side location caching" (README.md:7): it is
  declared in rpc.h:25 and implemented nowhere in the repository.
- A second `rpcInit` in one process, and clients with several threads: no program
  of the repository does either. (Two skeletons of one server in `rpcCall` are
  modelled: see api_nested and `Crossing`.)
- Interleaving of two threads inside one `recv`, and of two `send`s on one
  connection: a message is received and sent as a whole in `RpcApi`.
- The default case of main's switch (binder.cc:258-264) and the answer to a
  message other than EXECUTE (libserver.cc:69-80): no process that uses the
  library sends such a message.
- Failures of `pthread_create` for the two listeners: nothing has started then.
- Name resolution, socket options, failures of the constructor of `TcpServer`
  other than that it fails (tcp_client.cc:18-40, tcp_server.cc:14-89).
- The ownership of memory in `RawMessage`, `Execute` and `Register` (constructors,
  destructors, copies): sequential code without state of its own.
- What skeletons compute, text and logging, the unit tests; `totalSizeOfArgs`
  (arg.cc:47-56), which nothing calls; error.\*, classes that carry a text.
- Calls without end (libserver.cc:164): see [Fairness](#fairness).

## Plan

The modules are done: `BinderDatabase` and `RoundRobin`, `Binder`, `Server` and
`RemoteCall`, `TcpServer` and `ConnectionPool`, `TcpSocket` and `MessageChannel`,
`Marshalling`, `RpcApi`. So are the proofs of every safety property and every
refinement that the runs check; what is left to TLC is liveness.
