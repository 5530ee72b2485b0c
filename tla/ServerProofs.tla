---------------------------- MODULE ServerProofs ----------------------------
(***************************************************************************)
(* Theorems about Server, for every set of calls: what total_threads counts*)
(* and what serve may conclude from it, and that the server implements     *)
(* RemoteCall.                                                             *)
(***************************************************************************)
EXTENDS Server, FiniteSetTheorems, TLAPS

-----------------------------------------------------------------------------
(* The inductive invariant.                                                *)

\* TypeOK without its bound on total_threads, which follows from the rest, and
\* without the two Boolean variables.
Types ==
  /\ totalThreads \in Int
  /\ main \in {"spin", "check", "cancel", "join", "send", "returned", "exited"}
  /\ result \in {None, 0, -1002}
  /\ binderThread \in {"recv", "dec", "gone"}
  /\ listener \in {"accept", "poll", "dispatch", "create", "gone"}
  /\ toDispatch \subseteq managed
  /\ creating \in Call \cup {None}
  /\ worker \in [Call -> {"none", "recv", "call", "ran", "refused", "close",
                          "dec", "gone", "killed"}]
  /\ backlog \in Seq(Call)
  /\ managed \subseteq Call
  /\ closed \subseteq Call
  /\ request \subseteq Call
  /\ reply \in [Call -> {None, "returned", "refused"}]
  /\ runs \in [Call -> Nat]
  /\ client \in [Call -> {"idle", "connected", "waiting", "returned",
                          "refused", "error", "crashed"}]
  /\ binder \in {"up", "terminate", "gone"}

Flags == terminating \in BOOLEAN /\ cancelled \in BOOLEAN

Queued(c) == \E i \in 1 .. Len(backlog) : backlog[i] = c
Fresh(c) == worker[c] = "none" /\ client[c] # "idle"

\* A connection is in one place, and has no thread before it leaves the last:
\* no second thread is started for it.
Places ==
  /\ listener = "create" <=> creating # None
  /\ creating # None => Fresh(creating) /\ creating \notin managed /\ ~Queued(creating)
  /\ \A c \in managed : Fresh(c) /\ ~Queued(c)
  /\ \A i \in 1 .. Len(backlog) : Fresh(backlog[i])
  /\ \A i, j \in 1 .. Len(backlog) : backlog[i] = backlog[j] => i = j
  /\ \A c \in Call : client[c] = "idle" => worker[c] = "none"

\* The calls dispatched to a thread that has not ended: one that runs, is being
\* created, or was counted but could not be created.  total_threads counts them.
Handed == {c \in Call : /\ client[c] # "idle" /\ c \notin managed
                        /\ ~Queued(c) /\ worker[c] # "gone"}

HandedCounted ==
  ~Exited => totalThreads =
    1 + (IF binderThread = "gone" THEN 0 ELSE 1) + Cardinality(Handed)

\* After the join client_listen_thread is over.
Joined == main \in {"send", "returned", "exited"} => listener = "gone"

\* When the process has exited, total_threads stays what it was.
Bounded == totalThreads \in 0 .. Cardinality(Call) + 2
Last == Exited => Bounded

Inv == Types /\ Flags /\ Places /\ Joined /\ HandedCounted /\ Last

-----------------------------------------------------------------------------
(* Counting.                                                               *)

\* There are finitely many, and no more than calls.
LEMMA HandedIsFinite ==
  /\ IsFiniteSet(Handed)
  /\ Cardinality(Handed) \in 0 .. Cardinality(Call)
<1>1. IsFiniteSet(Call) /\ Cardinality(Call) \in Nat
  BY ServerAssumption, FS_CardinalityType
<1>2. Handed \in SUBSET Call
  BY DEF Handed
<1>3. IsFiniteSet(Handed) /\ Cardinality(Handed) <= Cardinality(Call)
  BY <1>1, <1>2, FS_Subset
<1>4. Cardinality(Handed) \in Nat
  BY <1>3, FS_CardinalityType
<1> QED
  BY <1>1, <1>3, <1>4

\* The count bounds total_threads.
LEMMA CountBounds ==
  ASSUME HandedCounted, ~Exited
  PROVE  Bounded
<1>1. Cardinality(Call) \in Nat
  BY ServerAssumption, FS_CardinalityType
<1> QED
  BY <1>1, HandedIsFinite DEF HandedCounted, Bounded

\* With the same calls handed out, the counter and the binder's thread decide.
LEMMA SameHanded ==
  ASSUME Types, HandedCounted, ~Exited' => ~Exited,
         Handed' = Handed,
         totalThreads' - (IF binderThread' = "gone" THEN 0 ELSE 1)
           = totalThreads - (IF binderThread = "gone" THEN 0 ELSE 1),
         totalThreads' \in Int
  PROVE  HandedCounted'
<1> SUFFICES ASSUME ~Exited' PROVE
      totalThreads' = 1 + (IF binderThread' = "gone" THEN 0 ELSE 1)
        + Cardinality(Handed')
  BY DEF HandedCounted
<1>1. totalThreads = 1 + (IF binderThread = "gone" THEN 0 ELSE 1)
        + Cardinality(Handed)
  BY DEF HandedCounted
<1>2. Cardinality(Handed) \in Nat
  BY HandedIsFinite
<1>3. Cardinality(Handed') = Cardinality(Handed)
  OBVIOUS
<1> QED
  BY <1>1, <1>2, <1>3 DEF Types

LEMMA InitInv == Init => Inv
<1> SUFFICES ASSUME Init PROVE Inv
  OBVIOUS
<1>1. Types
  <2>1. backlog \in Seq(Call) /\ runs \in [Call -> Nat]
    BY DEF Init
  <2>2. totalThreads \in Int /\ result \in {None, 0, -1002}
    <3>1. totalThreads = 2 /\ result = None
      BY DEF Init
    <3> QED
      BY <3>1
  <2> QED
    BY <2>1, <2>2 DEF Init, Types
<1>2. Places
  BY DEF Init, Places, Fresh, Queued
<1>3. HandedCounted
  <2>1. Handed = {}
    BY DEF Init, Handed
  <2>2. Cardinality({}) = 0
    BY FS_EmptySet
  <2>3. totalThreads = 2 /\ binderThread = "recv"
    BY DEF Init
  <2> QED
    BY <2>1, <2>2, <2>3 DEF HandedCounted
<1>4. Joined /\ Last
  BY DEF Init, Joined, Last, Exited
<1>5. Flags
  BY Zenon DEF Init, Flags
<1> QED
  BY <1>1, <1>2, <1>3, <1>4, <1>5 DEF Inv

-----------------------------------------------------------------------------
(* Queues.                                                                 *)

\* The head of a queue and the rest.
LEMMA TakingTheHead ==
  ASSUME NEW S, NEW q \in Seq(S), q # <<>>
  PROVE  /\ Head(q) \in S /\ Head(q) = q[1]
         /\ Tail(q) \in Seq(S) /\ Len(Tail(q)) = Len(q) - 1
         /\ Len(q) \in Nat /\ Len(q) >= 1
         /\ \A i \in 1 .. Len(Tail(q)) : Tail(q)[i] = q[i + 1]
<1>1. Len(q) \in Nat /\ Len(q) >= 1
  OBVIOUS
<1> QED
  BY <1>1

-----------------------------------------------------------------------------
(* The steps.                                                              *)

\* Places is about few variables.
LEMMA SamePlaces ==
  ASSUME Places, UNCHANGED <<listenerVars, backlog, worker>>,
         \A c \in Call : client'[c] = "idle" => client[c] = "idle",
         Types
  PROVE  Places'
<1> QED
  BY DEF Places, Fresh, Queued, listenerVars, Types

\* What a step other than the end of the process has to keep.
LEMMA InvFromParts ==
  ASSUME Inv, Types', Flags', Places', Joined', HandedCounted',
         Exited => UNCHANGED <<totalThreads, main>>, ~Exited => ~Exited'
  PROVE  Inv'
<1>1. Last'
  BY DEF Inv, Last, Exited, Bounded
<1> QED
  BY <1>1 DEF Inv

LEMMA BinderThreadInv ==
  ASSUME Inv, BinderThread
  PROVE  Inv'
<1>1. Types' /\ ~Exited /\ UNCHANGED <<mainVars, listenerVars, backlog, worker, client>>
  BY DEF Inv, Types, BinderThread, BinderThreadHears, BinderThreadEnds,
         listenerVars, mainVars, netVars
<1>2. Flags'
  BY Zenon DEF Inv, Flags, BinderThread, BinderThreadHears, BinderThreadEnds
<1>3. Places'
  BY <1>1, SamePlaces DEF Inv
<1>4. Joined' /\ Exited' = Exited
  BY <1>1 DEF Inv, Joined, Exited, listenerVars, mainVars
<1>5. HandedCounted'
  <2>1. Handed' = Handed
    BY <1>1 DEF Handed, Queued, listenerVars
  <2>2. totalThreads' - (IF binderThread' = "gone" THEN 0 ELSE 1)
        = totalThreads - (IF binderThread = "gone" THEN 0 ELSE 1)
    BY DEF Inv, Types, BinderThread, BinderThreadHears, BinderThreadEnds
  <2>3. totalThreads' \in Int
    BY <1>1 DEF Types
  <2> QED
    BY <1>1, <1>4, <2>1, <2>2, <2>3, SameHanded DEF Inv
<1> QED
  BY <1>1, <1>2, <1>3, <1>4, <1>5, InvFromParts DEF Inv

\* A step of the listener that hands out nothing.
LEMMA QuietListenerInv ==
  ASSUME Inv, AcceptIfAny \/ ConnectionsWithData \/ ListenerCancelled
  PROVE  Inv' /\ Handed' = Handed
<1>1. /\ ~Exited /\ UNCHANGED <<countVars, mainVars, creating, cancelled, worker, client>>
      /\ binderThread' = binderThread
      /\ listener \in {"accept", "poll"}
      /\ listener' \in {"accept", "poll", "dispatch", "gone"}
  BY DEF AcceptIfAny, ConnectionsWithData, ListenerCancelled, ListenerStep
<1>2. Types'
  <2>1. CASE AcceptIfAny
    <3>1. backlog' \in Seq(Call) /\ managed' \subseteq Call /\ managed \subseteq managed'
      <4>1. backlog \in Seq(Call) /\ managed \subseteq Call
        BY DEF Inv, Types
      <4>2. CASE /\ backlog # <<>> /\ backlog' = Tail(backlog)
                 /\ managed' = managed \cup {Head(backlog)}
        BY <4>1, <4>2, TakingTheHead
      <4>3. CASE UNCHANGED <<backlog, managed>>
        BY <4>1, <4>3
      <4> QED
        BY <2>1, <4>2, <4>3 DEF AcceptIfAny
    <3> QED
      BY <2>1, <3>1 DEF Inv, Types, AcceptIfAny, countVars, mainVars, netVars
  <2>2. CASE ConnectionsWithData
    BY <2>2 DEF Inv, Types, ConnectionsWithData, countVars, mainVars, netVars
  <2>3. CASE ListenerCancelled
    BY <2>3 DEF Inv, Types, ListenerCancelled, countVars, mainVars, netVars
  <2> QED
    BY <2>1, <2>2, <2>3
<1>3. Flags'
  BY Zenon, <1>1 DEF Inv, Flags, countVars
<1>4. Places' /\ Handed' = Handed
  <2>1. CASE AcceptIfAny /\ backlog # <<>>
    <3> PICK h \in Call : h = Head(backlog)
      BY <2>1, TakingTheHead DEF Inv, Types
    <3>1. managed' = managed \cup {h} /\ backlog' = Tail(backlog)
      BY <2>1 DEF AcceptIfAny
    <3>2. /\ Len(backlog') = Len(backlog) - 1 /\ Len(backlog) \in Nat
          /\ Len(backlog) >= 1 /\ backlog[1] = h
          /\ \A i \in 1 .. Len(backlog') : backlog'[i] = backlog[i + 1]
      BY <2>1, <3>1, TakingTheHead DEF Inv, Types
    <3>3. \A i \in 1 .. Len(backlog') : i + 1 \in 1 .. Len(backlog)
      BY <3>2
    <3>4. \A c : Queued(c)' => Queued(c)
      BY <3>2, <3>3 DEF Queued
    <3>14. \A c : Queued(c) => Queued(c)' \/ c = h
      <4> SUFFICES ASSUME NEW c, NEW i \in 1 .. Len(backlog), backlog[i] = c, c # h
                   PROVE  Queued(c)'
        BY DEF Queued
      <4>1. i # 1
        BY <3>2
      <4>2. i - 1 \in 1 .. Len(backlog') /\ backlog'[i - 1] = backlog[(i - 1) + 1]
        BY <3>2, <4>1
      <4>3. (i - 1) + 1 = i
        OBVIOUS
      <4> QED
        BY <4>2, <4>3 DEF Queued
    <3>5. Queued(h) /\ Fresh(h)
      BY <3>2 DEF Inv, Places, Queued
    <3>6. ~Queued(h)'
      <4>1. \A i \in 1 .. Len(backlog') : backlog[i + 1] # backlog[1]
        BY <3>2, <3>3 DEF Inv, Places
      <4> QED
        BY <4>1, <3>2 DEF Queued
    <3>7. \A i, j \in 1 .. Len(backlog') : backlog'[i] = backlog'[j] => i = j
      BY <3>2, <3>3 DEF Inv, Places
    <3>8. \A c : Fresh(c)' <=> Fresh(c)
      BY <1>1 DEF Fresh
    <3>9. \A i \in 1 .. Len(backlog') : Fresh(backlog[i])'
      BY SMTT(30), <1>1, <3>2, <3>3 DEF Inv, Places, Fresh
    <3>10. listener' # "create" /\ creating' = None
      BY <1>1 DEF Inv, Places
    <3>11. \A c \in managed' : Fresh(c)' /\ ~Queued(c)'
      BY <3>1, <3>4, <3>5, <3>6, <3>8 DEF Inv, Places
    <3>12. \A c \in Call : client'[c] = "idle" => worker'[c] = "none"
      BY <1>1 DEF Inv, Places
    <3>13. Handed' = Handed
      BY <1>1, <3>1, <3>4, <3>14, <3>5, <3>6 DEF Handed
    <3> QED
      BY <3>7, <3>9, <3>10, <3>11, <3>12, <3>13 DEF Places
  <2>2. CASE UNCHANGED <<managed, backlog>>
    BY <1>1, <2>2 DEF Inv, Places, Fresh, Queued, Handed
  <2> QED
    BY <2>1, <2>2 DEF AcceptIfAny, ConnectionsWithData, ListenerCancelled
<1>5. Joined'
  <2>1. main \notin {"send", "returned", "exited"}
    BY <1>1 DEF Inv, Joined
  <2> QED
    BY <1>1, <2>1 DEF Joined, mainVars
<1>6. HandedCounted' /\ Exited' = Exited
  <2>1. Exited' = Exited
    BY <1>1 DEF Exited, mainVars
  <2>2. totalThreads' = totalThreads /\ totalThreads \in Int
    BY <1>1 DEF Inv, Types, countVars
  <2> QED
    BY <1>1, <1>4, <2>1, <2>2, SameHanded DEF Inv
<1> QED
  BY <1>1, <1>2, <1>3, <1>4, <1>5, <1>6, InvFromParts DEF Inv

LEMMA DispatchInv ==
  ASSUME Inv, NEW c \in Call, Dispatch(c)
  PROVE  Inv' /\ Handed' = Handed \cup {c}
<1>1. /\ ~Exited /\ listener = "dispatch" /\ listener' = "create"
      /\ creating' = c /\ c \in managed /\ managed' = managed \ {c}
      /\ totalThreads' = totalThreads + 1
      /\ UNCHANGED <<terminating, mainVars, binderThread, cancelled, worker,
                     backlog, client>>
  BY DEF Dispatch, ListenerStep, Inv, Types
<1>2. Types'
  BY DEF Inv, Types, Dispatch, mainVars, netVars
<1>3. Flags'
  BY Zenon, <1>1 DEF Inv, Flags
<1>4. Places'
  BY <1>1, ServerAssumption DEF Inv, Places, Fresh, Queued, Types
<1>5. Joined' /\ Exited' = Exited
  BY <1>1 DEF Inv, Joined, Exited, mainVars
<1>6. HandedCounted' /\ Handed' = Handed \cup {c}
  <2>1. Handed' = Handed \cup {c} /\ c \notin Handed
    BY <1>1 DEF Handed, Queued, Inv, Places, Fresh
  <2>2. Cardinality(Handed') = Cardinality(Handed) + 1 /\ Cardinality(Handed) \in Nat
    BY <2>1, HandedIsFinite, FS_AddElement
  <2>3. totalThreads = 1 + (IF binderThread = "gone" THEN 0 ELSE 1) + Cardinality(Handed)
    BY <1>1 DEF Inv, HandedCounted
  <2>4. totalThreads' = 1 + (IF binderThread' = "gone" THEN 0 ELSE 1) + Cardinality(Handed')
    BY <1>1, <2>2, <2>3
  <2> QED
    BY <2>1, <2>4 DEF HandedCounted
<1> QED
  BY <1>1, <1>2, <1>3, <1>4, <1>5, <1>6, InvFromParts DEF Inv

\* Whether or not the thread is created, it stays counted; it is the only one
\* of its connection.
LEMMA CreateWorkerInv ==
  ASSUME Inv, CreateWorker
  PROVE  Inv'
<1>1. /\ ~Exited /\ listener = "create" /\ listener' \in {"accept", "dispatch"}
      /\ creating' = None
      /\ UNCHANGED <<countVars, mainVars, binderThread, managed, cancelled,
                     backlog, client>>
  BY DEF CreateWorker, ListenerStep
<1> PICK c \in Call : c = creating
  BY <1>1, ServerAssumption DEF Inv, Types, Places
<1>2. worker[c] = "none" /\ c \notin managed /\ ~Queued(c) /\ client[c] # "idle"
  BY <1>1, ServerAssumption DEF Inv, Places, Fresh
<1>3. worker' \in {worker, [worker EXCEPT ![c] = "recv"]}
  BY DEF CreateWorker
<1>4. Types'
  BY <1>1, <1>3 DEF Inv, Types, CreateWorker, countVars, mainVars, netVars
<1>5. Flags'
  BY Zenon, <1>1 DEF Inv, Flags, countVars
<1>6. Places'
  <2>1. \A d \in Call : d # c => worker'[d] = worker[d]
    BY <1>3 DEF Inv, Types
  <2>2. \A d \in managed' : Fresh(d)' /\ ~Queued(d)'
    <3>1. \A d : Queued(d)' <=> Queued(d)
      BY <1>1 DEF Queued
    <3>2. \A d \in Call : d # c => (Fresh(d)' <=> Fresh(d))
      BY <1>1, <2>1 DEF Fresh
    <3> QED
      BY <1>1, <1>2, <3>1, <3>2 DEF Inv, Places, Types
  <2>3. \A i \in 1 .. Len(backlog') : Fresh(backlog[i])'
    <3>1. \A i \in 1 .. Len(backlog) : backlog[i] \in Call /\ backlog[i] # c
      BY <1>2 DEF Inv, Types, Queued
    <3> QED
      BY <1>1, <2>1, <3>1 DEF Inv, Places, Fresh
  <2>4. \A d \in Call : client'[d] = "idle" => worker'[d] = "none"
    BY <1>1, <1>2, <2>1 DEF Inv, Places
  <2> QED
    BY <1>1, <2>2, <2>3, <2>4 DEF Inv, Places
<1>7. Joined' /\ Exited' = Exited
  BY <1>1 DEF Inv, Joined, Exited, mainVars
<1>8. HandedCounted'
  <2>1. \A d \in Call : worker'[d] = "gone" <=> worker[d] = "gone"
    BY <1>2, <1>3 DEF Inv, Types
  <2>2. Handed' = Handed
    BY <1>1, <2>1 DEF Handed, Queued
  <2> QED
    BY <1>1, <1>7, <2>2, SameHanded DEF Inv, Types, countVars
<1> QED
  BY <1>1, <1>4, <1>5, <1>6, <1>7, <1>8, InvFromParts DEF Inv

\* A step of a worker: only its end changes the count.
LEMMA WorkerInv ==
  ASSUME Inv, NEW c \in Call, Worker(c)
  PROVE  Inv'
<1> DEFINE Alive == {"recv", "call", "ran", "refused", "close", "dec"}
<1>1. /\ ~Exited /\ UNCHANGED workerFrame
      /\ worker[c] \in Alive
      /\ \E to \in Alive \cup {"gone"} :
           /\ worker' = [worker EXCEPT ![c] = to]
           /\ to = "gone" => WorkerEnds(c)
           /\ to # "gone" => totalThreads' = totalThreads
  BY DEF Worker, WorkerReceives, WorkerRuns, WorkerRefuses, WorkerReplies,
         WorkerCloses, WorkerEnds, WorkerStep
<1> PICK to \in Alive \cup {"gone"} :
      /\ worker' = [worker EXCEPT ![c] = to]
      /\ to = "gone" => WorkerEnds(c)
      /\ to # "gone" => totalThreads' = totalThreads
  BY <1>1
<1>2. UNCHANGED <<terminating, main, result, binderThread, listener, toDispatch,
                  creating, managed, cancelled, backlog, client, binder>>
  BY <1>1 DEF workerFrame, mainVars, listenerVars
<1>3. Types'
  <2>1. totalThreads' \in Int /\ worker' \in [Call -> {"none", "recv", "call",
          "ran", "refused", "close", "dec", "gone", "killed"}]
    BY DEF Inv, Types, WorkerEnds
  <2>2. closed' \subseteq Call /\ request' \subseteq Call
        /\ reply' \in [Call -> {None, "returned", "refused"}]
    BY ZenonT(60) DEF Inv, Types, Worker, WorkerReceives, WorkerRuns, WorkerRefuses,
           WorkerReplies, WorkerCloses, WorkerEnds, netVars
  <2>3. runs' \in [Call -> Nat]
    <3>1. runs \in [Call -> Nat]
      BY DEF Inv, Types
    <3>2. CASE runs' = runs
      BY <3>1, <3>2
    <3>3. CASE runs' = [runs EXCEPT ![c] = @ + 1]
      BY <3>1, <3>3
    <3> QED
      BY <3>2, <3>3 DEF Worker, WorkerReceives, WorkerRuns, WorkerRefuses,
         WorkerReplies, WorkerCloses, WorkerEnds
  <2> QED
    BY <1>2, <2>1, <2>2, <2>3 DEF Inv, Types
<1>4. Flags'
  BY Zenon, <1>2 DEF Inv, Flags
<1>5. Places'
  <2>1. \A d \in Call : worker[d] = "none" => worker'[d] = "none"
    BY <1>1 DEF Inv, Types
  <2>2. \A d : Queued(d)' <=> Queued(d)
    BY <1>2 DEF Queued
  <2>3. \A d \in Call : Fresh(d) => Fresh(d)'
    BY <1>2, <2>1 DEF Fresh
  <2>4. \A d \in managed' : Fresh(d)' /\ ~Queued(d)'
    BY <1>2, <2>2, <2>3 DEF Inv, Places, Types
  <2>5. \A i \in 1 .. Len(backlog') : Fresh(backlog[i])'
    <3>1. \A i \in 1 .. Len(backlog) : backlog[i] \in Call /\ Fresh(backlog[i])
      BY DEF Inv, Types, Places
    <3> QED
      BY <1>2, <2>1, <3>1 DEF Fresh
  <2>6. creating' # None => Fresh(creating)' /\ creating' \notin managed' /\ ~Queued(creating)'
    <3>1. creating # None => creating \in Call /\ Fresh(creating)
            /\ creating \notin managed /\ ~Queued(creating)
      BY DEF Inv, Types, Places
    <3>2. Queued(creating)' <=> Queued(creating)
      BY <1>2 DEF Queued
    <3> QED
      BY <1>2, <2>1, <3>1, <3>2 DEF Fresh
  <2>7. \A d \in Call : client'[d] = "idle" => worker'[d] = "none"
    BY <1>2, <2>1 DEF Inv, Places
  <2> QED
    BY <1>2, <2>4, <2>5, <2>6, <2>7 DEF Inv, Places
<1>6. Joined' /\ Exited' = Exited
  BY <1>2 DEF Inv, Joined, Exited
<1>7. HandedCounted'
  <2>1. CASE to # "gone"
    <3>1. \A d \in Call : worker'[d] = "gone" <=> worker[d] = "gone"
      BY <1>1, <2>1 DEF Inv, Types
    <3>2. Handed' = Handed
      BY <1>2, <3>1 DEF Handed, Queued
    <3> QED
      BY <1>2, <1>6, <2>1, <3>2, SameHanded DEF Inv, Types
  <2>2. CASE to = "gone"
    <3>1. c \in Handed
      <4>1. worker[c] # "none" /\ worker[c] # "gone"
        BY <1>1
      <4>2. client[c] # "idle" /\ c \notin managed
        BY <4>1 DEF Inv, Places, Fresh
      <4>3. ~Queued(c)
        BY <4>1 DEF Inv, Places, Fresh, Queued
      <4> QED
        BY <4>1, <4>2, <4>3 DEF Handed
    <3>2. \A d \in Call : worker'[d] = "gone" <=> worker[d] = "gone" \/ d = c
      BY <2>2 DEF Inv, Types
    <3>3. Handed' = Handed \ {c}
      BY <1>2, <3>2 DEF Handed, Queued
    <3>4. Cardinality(Handed') = Cardinality(Handed) - 1 /\ Cardinality(Handed) \in Nat
      BY SMTT(30), <3>1, <3>3, HandedIsFinite, FS_RemoveElement
    <3>5. totalThreads' = totalThreads - 1 /\ totalThreads \in Int
      BY <2>2 DEF WorkerEnds, Inv, Types
    <3>6. totalThreads = 1 + (IF binderThread = "gone" THEN 0 ELSE 1) + Cardinality(Handed)
      BY <1>1 DEF Inv, HandedCounted
    <3>7. totalThreads' = 1 + (IF binderThread' = "gone" THEN 0 ELSE 1) + Cardinality(Handed')
      BY <1>2, <3>4, <3>5, <3>6
    <3> QED
      BY <3>7 DEF HandedCounted
  <2> QED
    BY <2>1, <2>2
<1> QED
  BY <1>1, <1>3, <1>4, <1>5, <1>6, <1>7, InvFromParts DEF Inv

\* A step of serve before the process exits.
LEMMA ServeInv ==
  ASSUME Inv,
         \/ SpinReadsTerminating \/ SpinReadsTotalThreads \/ CancelListener
         \/ JoinListener \/ ServeReturns
  PROVE  Inv'
<1>1. /\ UNCHANGED <<totalThreads, terminating, binderThread, listener,
                     toDispatch, creating, managed, backlog, request, reply,
                     runs, client, binder, worker, closed>>
      /\ main # "exited" /\ main' \in {"spin", "check", "cancel", "join",
                                       "send", "returned"}
      /\ result' \in {result, 0, -1002}
      /\ main' \in {"send", "returned"} => listener = "gone"
  BY DEF SpinReadsTerminating, SpinReadsTotalThreads, CancelListener,
         JoinListener, ServeReturns, mainFrame, countVars, listenerVars, Inv, Joined
<1>2. Types'
  BY <1>1 DEF Inv, Types
<1>3. Flags'
  BY ZenonT(40), <1>1 DEF Inv, Flags, SpinReadsTerminating, SpinReadsTotalThreads,
     CancelListener, JoinListener, ServeReturns
<1>4. Places'
  BY <1>1, SamePlaces DEF Inv, listenerVars
<1>5. Joined' /\ ~Exited /\ ~Exited'
  BY <1>1 DEF Joined, Exited
<1>6. HandedCounted'
  <2>1. Handed' = Handed
    BY <1>1 DEF Handed, Queued
  <2> QED
    BY <1>1, <1>5, <2>1, SameHanded DEF Inv, Types
<1> QED
  BY <1>2, <1>3, <1>4, <1>5, <1>6, InvFromParts DEF Inv

LEMMA ProcessExitsInv ==
  ASSUME Inv, ProcessExits
  PROVE  Inv'
<1>1. /\ UNCHANGED <<totalThreads, terminating, binderThread, listener,
                     toDispatch, creating, managed, backlog, request, reply,
                     runs, client, binder, result, cancelled>>
      /\ main = "returned" /\ main' = "exited" /\ closed' = Call
      /\ worker' = [c \in Call |-> IF Running(c) THEN "killed" ELSE worker[c]]
  BY DEF ProcessExits, mainFrame, countVars, listenerVars
<1>2. Types'
  BY <1>1 DEF Inv, Types, Running
<1>3. Flags'
  BY Zenon, <1>1 DEF Inv, Flags
<1>4. Places'
  <2>1. \A d \in Call : worker[d] = "none" => worker'[d] = "none"
    BY <1>1 DEF Running
  <2>2. \A d : Queued(d)' <=> Queued(d)
    BY <1>1 DEF Queued
  <2>3. \A d \in Call : Fresh(d) => Fresh(d)'
    BY <1>1, <2>1 DEF Fresh
  <2>4. \A d \in managed' : Fresh(d)' /\ ~Queued(d)'
    BY <1>1, <2>2, <2>3 DEF Inv, Places, Types
  <2>5. \A i \in 1 .. Len(backlog') : Fresh(backlog[i])'
    <3>1. \A i \in 1 .. Len(backlog) : backlog[i] \in Call /\ Fresh(backlog[i])
      BY DEF Inv, Types, Places
    <3> QED
      BY <1>1, <2>1, <3>1 DEF Fresh
  <2>6. creating' = None
    BY <1>1 DEF Inv, Joined, Places
  <2>7. \A d \in Call : client'[d] = "idle" => worker'[d] = "none"
    BY <1>1, <2>1 DEF Inv, Places
  <2> QED
    BY <1>1, <2>4, <2>5, <2>6, <2>7 DEF Inv, Places
<1>5. Joined' /\ HandedCounted' /\ ~Exited
  BY <1>1 DEF Inv, Joined, HandedCounted, Exited
<1>6. Last'
  BY <1>1, <1>5, CountBounds DEF Inv, Last, Bounded
<1> QED
  BY <1>2, <1>3, <1>4, <1>5, <1>6 DEF Inv

\* A step of the clients or of the binder, and the end.
LEMMA EnvironmentInv ==
  ASSUME Inv,
         \/ \E c \in Call : Client(c)
         \/ BinderTerminates \/ BinderLost \/ UNCHANGED vars
  PROVE  Inv' /\ (Exited \/ Handed' = Handed)
<1>1. UNCHANGED <<totalThreads, terminating, main, result, binderThread, listener,
                  toDispatch, creating, managed, cancelled, worker, closed, reply, runs>>
  BY DEF Client, ClientConnects, ClientSends, ClientHears, ClientCrashes,
         BinderTerminates, BinderLost, environmentFrame, vars, countVars,
         mainVars, listenerVars, netVars
<1>2. Flags'
  BY Zenon, <1>1 DEF Inv, Flags
<1>3. Joined' /\ Exited' = Exited
  BY <1>1 DEF Inv, Joined, Exited
<1>4. ASSUME Exited \/ Handed' = Handed PROVE HandedCounted'
  <2>1. CASE Exited
    BY <1>3, <2>1 DEF HandedCounted
  <2>2. CASE Handed' = Handed
    BY <1>1, <1>3, <2>2, SameHanded DEF Inv, Types
  <2> QED
    BY <1>4, <2>1, <2>2
<1>5. CASE \E c \in Call : ClientConnects(c) /\ ~Exited
  <2> PICK c \in Call : ClientConnects(c) /\ ~Exited
    BY <1>5
  <2>1. /\ client[c] = "idle" /\ client' = [client EXCEPT ![c] = "connected"]
        /\ backlog' = Append(backlog, c) /\ request' = request /\ binder' = binder
    BY DEF ClientConnects
  <2>2. Types'
    BY <1>1, <2>1 DEF Inv, Types
  <2>3. /\ Len(backlog) \in Nat /\ Len(backlog') = Len(backlog) + 1
        /\ \A i \in 1 .. Len(backlog) : backlog'[i] = backlog[i]
        /\ backlog'[Len(backlog) + 1] = c
        /\ \A i \in 1 .. Len(backlog) : backlog[i] \in Call
    BY <2>1 DEF Inv, Types
  <2>4. \A d : Queued(d)' <=> Queued(d) \/ d = c
    BY <2>3 DEF Queued
  <2>5. worker[c] = "none" /\ ~Fresh(c) /\ ~Queued(c)
    BY <2>1 DEF Inv, Places, Fresh, Queued
  <2>6. \A d \in Call : /\ Fresh(d) => Fresh(d)'
                        /\ client'[d] = "idle" => client[d] = "idle"
    BY <1>1, <2>1 DEF Inv, Types, Fresh
  <2>7. worker'[c] = "none" /\ client'[c] # "idle"
    BY <1>1, <2>1, <2>5 DEF Inv, Types
  <2>8. \A i \in 1 .. Len(backlog') : Fresh(backlog[i])'
    <3>1. \A i \in 1 .. Len(backlog) : client'[backlog[i]] # "idle" /\ worker'[backlog[i]] = "none"
      BY <1>1, <2>3, <2>6 DEF Inv, Places, Fresh
    <3> QED
      BY <2>3, <2>7, <3>1 DEF Fresh
  <2>9. \A i, j \in 1 .. Len(backlog') : backlog'[i] = backlog'[j] => i = j
    <3>1. \A i \in 1 .. Len(backlog) : backlog[i] # c
      BY <2>5 DEF Queued
    <3> QED
      BY <2>3, <3>1 DEF Inv, Places
  <2>10. \A d \in managed' : Fresh(d)' /\ ~Queued(d)'
    BY <1>1, <2>4, <2>5, <2>6 DEF Inv, Places, Types
  <2>11. creating' # None => Fresh(creating)' /\ creating' \notin managed' /\ ~Queued(creating)'
    <3>1. creating # None => creating \in Call /\ Fresh(creating)
            /\ creating \notin managed /\ ~Queued(creating)
      BY DEF Inv, Types, Places
    <3>2. creating # None => creating # c /\ client'[creating] # "idle"
      BY <2>5, <2>6, <3>1 DEF Fresh
    <3>3. creating # None => ~Queued(creating)'
      BY <1>1, <2>4, <3>1, <3>2 DEF Queued
    <3> QED
      BY <1>1, <3>1, <3>2, <3>3 DEF Fresh
  <2>12. Places'
    BY <1>1, <2>6, <2>8, <2>9, <2>10, <2>11 DEF Inv, Places
  <2>13. Handed' = Handed
    BY <1>1, <2>1, <2>4 DEF Handed, Inv, Types
  <2> QED
    BY <1>1, <1>2, <1>3, <1>4, <2>2, <2>12, <2>13, InvFromParts DEF Inv, Exited
<1>6. CASE ~\E c \in Call : ClientConnects(c) /\ ~Exited
  <2>1. /\ backlog' = backlog /\ request' \subseteq Call
        /\ binder' \in {"up", "terminate", "gone"}
    <3>1. request \subseteq Call /\ binder \in {"up", "terminate", "gone"}
      BY DEF Inv, Types
    <3>2. CASE \E c \in Call : Client(c)
      BY <1>6, <3>1, <3>2 DEF Client, ClientConnects, ClientSends, ClientHears,
         ClientCrashes
    <3>3. CASE BinderTerminates \/ BinderLost \/ UNCHANGED vars
      BY <3>1, <3>3 DEF BinderTerminates, BinderLost, vars, netVars
    <3> QED
      BY <3>2, <3>3
  <2>2. \/ client' = client
        \/ \E c \in Call :
             \E to \in {"waiting", "returned", "refused", "error", "crashed"} :
               client' = [client EXCEPT ![c] = to]
    <3>1. CASE BinderTerminates \/ BinderLost \/ UNCHANGED vars
      BY <3>1 DEF BinderTerminates, BinderLost, vars
    <3>2. ASSUME NEW c \in Call, Client(c)
          PROVE  \E to \in {"waiting", "returned", "refused", "error", "crashed"} :
                   client' = [client EXCEPT ![c] = to]
      <4>1. reply[c] # None => reply[c] \in {"returned", "refused"}
        BY DEF Inv, Types
      <4> QED
        BY <1>6, <3>2, <4>1 DEF Client, ClientConnects, ClientSends, ClientHears,
           ClientCrashes
    <3> QED
      BY <3>1, <3>2
  <2>3. /\ client' \in [Call -> {"idle", "connected", "waiting", "returned",
                                 "refused", "error", "crashed"}]
        /\ \A d \in Call : client'[d] = "idle" => client[d] = "idle"
    <3>1. client \in [Call -> {"idle", "connected", "waiting", "returned",
                                 "refused", "error", "crashed"}]
      BY DEF Inv, Types
    <3> QED
      BY <2>2, <3>1
  <2>4. Types'
    BY <1>1, <2>1, <2>3 DEF Inv, Types
  <2>5. Places'
    BY <1>1, <2>1, <2>3, SamePlaces DEF Inv, listenerVars
  <2>6. Exited \/ Handed' = Handed
    <3> SUFFICES ASSUME ~Exited PROVE Handed' = Handed
      OBVIOUS
    <3>1. \A d \in Call : client'[d] = "idle" <=> client[d] = "idle"
      <4>1. CASE BinderTerminates \/ BinderLost \/ UNCHANGED vars
        BY <4>1 DEF BinderTerminates, BinderLost, vars
      <4>2. ASSUME NEW c \in Call, Client(c)
            PROVE  client[c] # "idle" /\ \E to : client' = [client EXCEPT ![c] = to]
        BY <1>6, <4>2 DEF Client, ClientConnects, ClientSends, ClientHears, ClientCrashes
      <4> QED
        BY <2>3, <4>1, <4>2 DEF Inv, Types
    <3> QED
      BY <1>1, <2>1, <3>1 DEF Handed, Queued
  <2> QED
    BY <1>1, <1>2, <1>3, <1>4, <2>4, <2>5, <2>6, InvFromParts DEF Inv, Exited
<1> QED
  BY <1>5, <1>6

-----------------------------------------------------------------------------
(* The theorems.                                                           *)

LEMMA StepInv ==
  ASSUME Inv, [Next]_vars
  PROVE  Inv'
<1>1. CASE Main
  BY <1>1, ServeInv, ProcessExitsInv DEF Main
<1>2. CASE BinderThread
  BY <1>2, BinderThreadInv
<1>3. CASE Listener
  BY <1>3, QuietListenerInv, DispatchInv, CreateWorkerInv DEF Listener
<1>4. CASE \E c \in Call : Worker(c)
  BY <1>4, WorkerInv
<1>5. CASE \/ \E c \in Call : Client(c)
           \/ BinderTerminates \/ BinderLost \/ UNCHANGED vars
  BY <1>5, EnvironmentInv
<1> QED
  BY <1>1, <1>2, <1>3, <1>4, <1>5 DEF Next, Finished

THEOREM Invariance == Spec => []Inv
<1>1. Inv /\ [Next]_vars => Inv'
  BY StepInv
<1> QED
  BY <1>1, InitInv, PTL DEF Spec

\* TypeOK is an invariant: total_threads in particular stays between 0 and two
\* more than the number of calls, even if threads cannot be created.
THEOREM TypeCorrect == Spec => []TypeOK
<1>1. Inv => TypeOK
  <2> SUFFICES ASSUME Inv PROVE TypeOK
    OBVIOUS
  <2>1. Types /\ Bounded
    BY CountBounds DEF Inv, Last
  <2>2. terminating \in BOOLEAN
    BY Zenon DEF Inv, Flags
  <2>3. cancelled \in BOOLEAN
    BY Zenon DEF Inv, Flags
  <2> QED
    BY ZenonT(40), <2>1, <2>2, <2>3 DEF Types, Bounded, TypeOK
<1> QED
  BY <1>1, Invariance, PTL

\* What ends the loop of serve: only the listener counts.
LEMMA LoopEndsIdle ==
  ASSUME Inv, [Next]_vars, main = "check", main' = "cancel", NEW c \in Call
  PROVE  ~Running(c) /\ creating # c
<1>1. SpinReadsTotalThreads
  <2>1. main' # main
    OBVIOUS
  <2>2. ~BinderThread /\ ~Listener /\ \A d \in Call : ~Worker(d) /\ ~Client(d)
    BY <2>1 DEF BinderThread, BinderThreadHears, BinderThreadEnds, Listener,
       AcceptIfAny, ConnectionsWithData, CreateWorker, ListenerCancelled, Dispatch,
       Worker, WorkerReceives, WorkerRuns, WorkerRefuses, WorkerReplies,
       WorkerCloses, WorkerEnds, WorkerStep, workerFrame, Client, ClientConnects,
       ClientSends, ClientHears, ClientCrashes, environmentFrame, mainVars
  <2>3. ~BinderTerminates /\ ~BinderLost /\ ~Finished /\ ~UNCHANGED vars
    BY <2>1 DEF BinderTerminates, BinderLost, Finished, environmentFrame, mainVars, vars
  <2>4. Main
    BY <2>2, <2>3 DEF Next
  <2> QED
    BY <2>4 DEF Main, SpinReadsTerminating, CancelListener, JoinListener,
       ServeReturns, ProcessExits
<1>2. totalThreads <= 1 /\ totalThreads \in Int
  BY <1>1 DEF SpinReadsTotalThreads, Inv, Types
<1>3. totalThreads = 1 + (IF binderThread = "gone" THEN 0 ELSE 1) + Cardinality(Handed)
  BY DEF Inv, HandedCounted, Exited
<1>4. Cardinality(Handed) \in Nat /\ IsFiniteSet(Handed)
  BY HandedIsFinite
<1>5. Handed = {}
  BY <1>2, <1>3, <1>4, FS_EmptySet
<1>6. creating # c
  BY <1>5, ServerAssumption DEF Inv, Places, Handed, Fresh
<1>7. ~Running(c)
  <2> SUFFICES ASSUME worker[c] # "none", worker[c] # "gone" PROVE FALSE
    BY DEF Running
  <2>1. client[c] # "idle" /\ c \notin managed
    BY DEF Inv, Places, Fresh
  <2>2. ~Queued(c)
    BY DEF Inv, Places, Fresh, Queued
  <2> QED
    BY <1>5, <2>1, <2>2 DEF Handed
<1> QED
  BY <1>6, <1>7

\* When serve leaves its loop, while (!terminating or total_threads > 1), no
\* call is being served and none is about to be.
THEOREM LoopIsLeftIdle == Spec => LeavesLoopIdle
<1>1. Inv /\ [Next]_vars =>
        [main = "check" /\ main' = "cancel" =>
           \A c \in Call : ~Running(c) /\ creating # c]_vars
  BY LoopEndsIdle
<1> QED
  BY <1>1, Invariance, PTL DEF LeavesLoopIdle, Spec

\* After pthread_join no thread is created for a call: the binder is told that
\* the server has terminated when that is so.
THEOREM JoinIsFinal == Spec => NoWorkerAfterJoin
<1>1. Inv /\ [Next]_vars => [(main \in {"send", "returned"}) => Created' = Created]_vars
  <2> SUFFICES ASSUME Inv, Next, main \in {"send", "returned"}
               PROVE  Created' = Created
    OBVIOUS
  <2>1. listener = "gone"
    BY DEF Inv, Joined
  <2>2. ~CreateWorker
    BY <2>1 DEF CreateWorker, ListenerStep
  <2>3. CASE \E c \in Call : Worker(c)
    <3> PICK c \in Call : Worker(c)
      BY <2>3
    <3>1. worker[c] # "none" /\ \E to : to # "none" /\ worker' = [worker EXCEPT ![c] = to]
      BY DEF Worker, WorkerReceives, WorkerRuns, WorkerRefuses, WorkerReplies,
             WorkerCloses, WorkerEnds, WorkerStep
    <3> QED
      BY <3>1 DEF Created, Inv, Types
  <2>4. CASE ProcessExits
    BY <2>4 DEF ProcessExits, Created, Running
  <2>5. CASE worker' = worker
    BY <2>5 DEF Created
  <2>6. CASE Main
    BY <2>4, <2>5, <2>6 DEF Main, SpinReadsTerminating, SpinReadsTotalThreads,
       CancelListener, JoinListener, ServeReturns
  <2>7. CASE BinderThread \/ Listener
    BY <2>2, <2>5, <2>7 DEF BinderThread, BinderThreadHears, BinderThreadEnds,
       Listener, AcceptIfAny, ConnectionsWithData, ListenerCancelled, Dispatch
  <2>8. CASE \/ \E c \in Call : Client(c)
             \/ BinderTerminates \/ BinderLost \/ Finished
    BY <2>5, <2>8 DEF Client, ClientConnects, ClientSends, ClientHears,
       ClientCrashes, BinderTerminates, BinderLost, Finished, environmentFrame, vars
  <2> QED
    BY <2>3, <2>6, <2>7, <2>8 DEF Next
<1> QED
  BY <1>1, Invariance, PTL DEF NoWorkerAfterJoin, Spec

-----------------------------------------------------------------------------
(* The threads that are counted exist, if every call can have one.         *)

\* pthread_create does not fail.
EnoughThreads == Cardinality(Call) <= ThreadLimit

\* What was handed out and is not running is being created.
NoneLost ==
  ~Exited => \A c \in Call : /\ worker[c] # "killed"
                             /\ c \in Handed /\ worker[c] = "none" => c = creating

LEMMA NoneLostStep ==
  ASSUME EnoughThreads, Inv, NoneLost, [Next]_vars
  PROVE  NoneLost'
<1> SUFFICES ASSUME ~Exited', NEW d \in Call
             PROVE  /\ worker'[d] # "killed"
                    /\ d \in Handed' /\ worker'[d] = "none" => d = creating'
  BY DEF NoneLost
<1>1. ~Exited
  <2>1. main' # "exited"
    BY DEF Exited
  <2>2. Exited => main' = main
    BY DEF Exited, Next, Main, SpinReadsTerminating, SpinReadsTotalThreads, CancelListener,
           JoinListener, ServeReturns, ProcessExits, BinderThread, BinderThreadHears,
           BinderThreadEnds, Listener, AcceptIfAny, ConnectionsWithData, CreateWorker,
           ListenerCancelled, Dispatch, ListenerStep, Worker, WorkerReceives, WorkerRuns,
           WorkerRefuses, WorkerReplies, WorkerCloses, WorkerEnds, WorkerStep, Client,
           ClientConnects, ClientSends, ClientHears, ClientCrashes, BinderTerminates,
           BinderLost, Finished, environmentFrame, mainVars, vars
  <2> QED
    BY <2>1, <2>2 DEF Exited
<1>2. worker[d] # "killed" /\ (d \in Handed /\ worker[d] = "none" => d = creating)
  BY <1>1 DEF NoneLost
<1>3. CASE UNCHANGED <<worker, creating>> /\ Handed' = Handed
  BY <1>2, <1>3
<1>4. CASE Main
  <2>1. UNCHANGED <<worker, creating, client, managed, backlog>>
    BY <1>4 DEF Exited, Main, SpinReadsTerminating, SpinReadsTotalThreads, CancelListener,
       JoinListener, ServeReturns, ProcessExits, mainFrame, listenerVars
  <2> QED
    BY <1>3, <2>1 DEF Handed, Queued
<1>5. CASE BinderThread
  <2>1. UNCHANGED <<worker, creating, client, managed, backlog>>
    BY <1>5 DEF BinderThread, BinderThreadHears, BinderThreadEnds, listenerVars
  <2> QED
    BY <1>3, <2>1 DEF Handed, Queued
<1>6. CASE AcceptIfAny \/ ConnectionsWithData \/ ListenerCancelled
  BY <1>3, <1>6, QuietListenerInv DEF AcceptIfAny, ConnectionsWithData, ListenerCancelled
<1>7. CASE \E c \in Call : Dispatch(c)
  <2> PICK c \in Call : Dispatch(c)
    BY <1>7
  <2>1. Handed' = Handed \cup {c} /\ worker' = worker /\ creating' = c /\ creating = None
    BY DispatchInv DEF Dispatch, ListenerStep, Inv, Places
  <2> QED
    BY <1>2, <2>1, ServerAssumption
<1>8. CASE CreateWorker
  <2> PICK c \in Call : c = creating
    BY <1>8, ServerAssumption DEF CreateWorker, ListenerStep, Inv, Types, Places
  <2>1. Created \subseteq Call \ {c}
    BY ServerAssumption DEF Created, Inv, Places, Fresh
  <2>2. Cardinality(Created) < ThreadLimit
    <3>1. Cardinality(Call \ {c}) = Cardinality(Call) - 1 /\ IsFiniteSet(Call \ {c})
          /\ Cardinality(Call) \in Nat
      BY ServerAssumption, FS_RemoveElement, FS_CardinalityType
    <3>2. Cardinality(Created) <= Cardinality(Call \ {c}) /\ IsFiniteSet(Created)
      BY <2>1, <3>1, FS_Subset
    <3>3. Cardinality(Created) \in Nat
      BY <3>2, FS_CardinalityType
    <3> QED
      BY <3>1, <3>2, <3>3, ServerAssumption DEF EnoughThreads
  <2>3. worker' = [worker EXCEPT ![c] = "recv"]
    BY <1>8, <2>2 DEF CreateWorker
  <2>4. worker[c] = "none" /\ UNCHANGED <<managed, backlog, client>>
    BY <1>8, ServerAssumption DEF CreateWorker, Inv, Places, Fresh
  <2>5. worker'[d] = IF d = c THEN "recv" ELSE worker[d]
    BY <2>3 DEF Inv, Types
  <2>6. d \in Handed' => d \in Handed
    BY <2>4, <2>5 DEF Handed, Queued
  <2> QED
    BY <1>2, <2>5, <2>6
<1>9. CASE \E c \in Call : Worker(c)
  <2> PICK c \in Call : Worker(c)
    BY <1>9
  <2>1. \E to \in {"recv", "call", "ran", "refused", "close", "dec", "gone"} :
          worker' = [worker EXCEPT ![c] = to]
    BY DEF Worker, WorkerReceives, WorkerRuns, WorkerRefuses, WorkerReplies,
           WorkerCloses, WorkerEnds, WorkerStep
  <2>2. worker'[d] # "killed" /\ (worker'[d] = "none" => worker[d] = "none")
    BY <1>2, <2>1 DEF Inv, Types
  <2>3. UNCHANGED <<creating, managed, backlog, client>>
    BY DEF Worker, WorkerReceives, WorkerRuns, WorkerRefuses, WorkerReplies,
           WorkerCloses, WorkerEnds, WorkerStep, workerFrame, listenerVars
  <2>4. d \in Handed' /\ worker'[d] = "none" => d \in Handed
    BY <2>2, <2>3 DEF Handed, Queued
  <2> QED
    BY <1>2, <2>2, <2>3, <2>4
<1>10. CASE \/ \E c \in Call : Client(c)
            \/ BinderTerminates \/ BinderLost \/ UNCHANGED vars
  <2>1. Handed' = Handed
    BY <1>1, <1>10, EnvironmentInv
  <2>2. UNCHANGED <<worker, creating>>
    BY <1>10 DEF Client, ClientConnects, ClientSends, ClientHears, ClientCrashes,
       BinderTerminates, BinderLost, environmentFrame, listenerVars, vars
  <2> QED
    BY <1>3, <2>1, <2>2
<1> QED
  BY <1>4, <1>5, <1>6, <1>7, <1>8, <1>9, <1>10 DEF Next, Listener, Finished

\* The calls handed out are the workers that run and the one being created.
LEMMA HandedAreThreads ==
  ASSUME Inv, NoneLost, ~Exited
  PROVE  Cardinality(Handed) = Cardinality({c \in Call : Running(c)})
           + (IF listener = "create" THEN 1 ELSE 0)
<1> DEFINE Busy == {c \in Call : Running(c)}
<1>1. Busy \subseteq Handed
  <2> SUFFICES ASSUME NEW c \in Call, worker[c] # "none", worker[c] # "gone"
               PROVE  c \in Handed
    BY DEF Running
  <2> QED
    BY DEF Handed, Inv, Places, Fresh, Queued
<1>2. \A c \in Handed : c \in Busy \/ c = creating
  BY DEF Handed, NoneLost, Running
<1>3. IsFiniteSet(Busy) /\ Cardinality(Busy) \in Nat
  BY <1>1, HandedIsFinite, FS_Subset, FS_CardinalityType
<1>4. CASE listener = "create"
  <2>1. creating \in Call /\ creating \in Handed /\ creating \notin Busy
    BY <1>4, ServerAssumption DEF Inv, Types, Places, Fresh, Handed, Running
  <2>2. Handed = Busy \cup {creating}
    BY <1>1, <1>2, <2>1
  <2>3. Cardinality(Handed) = Cardinality(Busy) + 1
    BY <1>3, <2>1, <2>2, FS_AddElement
  <2> QED
    BY <1>3, <1>4, <2>3
<1>5. CASE listener # "create"
  <2>1. creating = None
    BY <1>5 DEF Inv, Places
  <2>2. Handed = Busy
    BY <1>1, <1>2, <2>1, ServerAssumption DEF Handed
  <2> QED
    BY <1>3, <1>5, <2>2
<1> QED
  BY <1>4, <1>5

\* total_threads counts the threads that serve waits for (inc_threads,
\* libserver.cc), whatever the order of their ends and of new calls, as long as
\* no thread that is counted fails to be created.
THEOREM ThreadsAreCounted == ASSUME EnoughThreads PROVE Spec => []ThreadsCounted
<1>1. Init => NoneLost
  BY DEF Init, NoneLost, Handed
<1>2. Inv /\ NoneLost /\ [Next]_vars => NoneLost'
  BY NoneLostStep
<1>3. Inv /\ NoneLost => ThreadsCounted
  <2> SUFFICES ASSUME Inv, NoneLost, ~Exited PROVE
        totalThreads = 1 + (IF binderThread = "gone" THEN 0 ELSE 1)
          + Cardinality({c \in Call : Running(c)})
          + (IF listener = "create" THEN 1 ELSE 0)
    BY DEF ThreadsCounted
  <2>1. totalThreads = 1 + (IF binderThread = "gone" THEN 0 ELSE 1) + Cardinality(Handed)
    BY DEF Inv, HandedCounted
  <2>2. Cardinality(Handed) = Cardinality({c \in Call : Running(c)})
          + (IF listener = "create" THEN 1 ELSE 0)
    BY HandedAreThreads
  <2>3. Cardinality({c \in Call : Running(c)}) \in Nat
    <3>1. {c \in Call : Running(c)} \in SUBSET Call
      OBVIOUS
    <3> QED
      BY <3>1, ServerAssumption, FS_Subset, FS_CardinalityType
  <2> QED
    BY <2>1, <2>2, <2>3
<1> QED
  BY <1>1, <1>2, <1>3, Invariance, PTL DEF Spec

-----------------------------------------------------------------------------
(* The server implements RemoteCall.                                       *)

\* What the stage of a call says of its run and its answer: nothing of it is
\* left when the worker waits for the next message on the connection.
Stage(c) ==
  /\ client[c] \in {"idle", "connected"} \/ c \in request =>
       runs[c] = 0 /\ reply[c] = None /\ worker[c] \in {"none", "recv", "killed"}
  /\ client[c] \in {"idle", "connected"} => c \notin request
  /\ worker[c] = "call" => runs[c] = 0 /\ reply[c] = None
  /\ worker[c] = "ran" => runs[c] = 1 /\ reply[c] = None
  /\ worker[c] = "refused" => runs[c] = 0 /\ reply[c] = None
  /\ reply[c] = "returned" => runs[c] = 1
  /\ reply[c] = "refused" => runs[c] = 0
  /\ client[c] \in {"returned", "refused"} => reply[c] = client[c]

Stages == \A c \in Call : Stage(c)

LEMMA SameStage ==
  ASSUME NEW c, Stage(c), client'[c] = client[c], c \in request' <=> c \in request,
         runs'[c] = runs[c], reply'[c] = reply[c], worker'[c] = worker[c]
  PROVE  Stage(c)'
BY DEF Stage

\* A worker's step advances the stage of its own call.
LEMMA WorkerStage ==
  ASSUME Types, Stages, NEW c \in Call, Worker(c), NEW d \in Call
  PROVE  Stage(d)'
<1>1. Stage(c) /\ Stage(d)
  BY DEF Stages
<1>2. client' = client
  BY DEF Worker, WorkerReceives, WorkerRuns, WorkerRefuses, WorkerReplies,
         WorkerCloses, WorkerEnds, WorkerStep, workerFrame
<1>3. CASE d # c
  <2>1. worker'[d] = worker[d] /\ runs'[d] = runs[d] /\ reply'[d] = reply[d]
        /\ (d \in request' <=> d \in request)
    BY <1>3 DEF Types, Worker, WorkerReceives, WorkerRuns, WorkerRefuses, WorkerReplies,
       WorkerCloses, WorkerEnds, WorkerStep, netVars
  <2> QED
    BY <1>1, <1>2, <2>1, SameStage
<1>4. CASE d = c
  <2>1. CASE WorkerReceives(c)
    BY <1>1, <1>2, <1>4, <2>1 DEF Stage, Types, WorkerReceives, WorkerStep, ClientGone, netVars
  <2>2. CASE WorkerRuns(c)
    <3>1. /\ runs'[c] = 1 /\ worker'[c] = "ran" /\ UNCHANGED <<reply, request>>
          /\ runs[c] = 0 /\ reply[c] = None /\ client[c] \notin {"idle", "connected"}
          /\ c \notin request
      BY <1>1, <2>2 DEF Stage, Types, WorkerRuns, WorkerStep, netVars
    <3> QED
      BY <1>1, <1>2, <1>4, <3>1, ServerAssumption DEF Stage
  <2>3. CASE WorkerRefuses(c)
    BY <1>1, <1>2, <1>4, <2>3 DEF Stage, Types, WorkerRefuses, WorkerStep, netVars
  <2>4. CASE WorkerReplies(c)
    <3>1. /\ worker[c] \in {"ran", "refused"} /\ worker'[c] \in {"recv", "close"}
          /\ UNCHANGED <<request, runs>>
          /\ \/ worker[c] = "ran" /\ reply'[c] = "returned"
             \/ worker[c] = "refused" /\ reply'[c] = "refused"
             \/ reply' = reply
      BY <2>4 DEF Types, WorkerReplies, WorkerStep
    <3> QED
      BY <1>1, <1>2, <1>4, <3>1, ServerAssumption DEF Stage
  <2>5. CASE WorkerCloses(c)
    BY <1>1, <1>2, <1>4, <2>5 DEF Stage, Types, WorkerCloses, WorkerStep
  <2>6. CASE WorkerEnds(c)
    BY <1>1, <1>2, <1>4, <2>6 DEF Stage, Types, WorkerEnds, WorkerStep, netVars
  <2> QED
    BY <2>1, <2>2, <2>3, <2>4, <2>5, <2>6 DEF Worker
<1> QED
  BY <1>3, <1>4

\* So does a client's.
LEMMA ClientStage ==
  ASSUME Types, Stages, NEW c \in Call, Client(c), NEW d \in Call
  PROVE  Stage(d)'
<1>1. Stage(c) /\ Stage(d) /\ UNCHANGED <<worker, reply, runs>>
  BY DEF Stages, Client, ClientConnects, ClientSends, ClientHears, ClientCrashes,
         environmentFrame
<1>2. CASE d # c
  <2>1. client'[d] = client[d] /\ (d \in request' <=> d \in request)
    BY <1>2 DEF Types, Client, ClientConnects, ClientSends, ClientHears, ClientCrashes
  <2> QED
    BY <1>1, <2>1, SameStage
<1>3. CASE d = c
  <2>1. CASE ClientConnects(c)
    <3>1. client[c] = "idle" /\ client'[c] \in {"connected", "error"} /\ request' = request
      BY <2>1 DEF ClientConnects, Types
    <3> QED
      BY <1>1, <1>3, <3>1 DEF Stage
  <2>2. CASE ClientSends(c)
    <3>1. client[c] = "connected" /\ client'[c] = "waiting" /\ request' \in {request, request \cup {c}}
      BY <2>2 DEF ClientSends, Types
    <3> QED
      BY <1>1, <1>3, <3>1 DEF Stage
  <2>3. CASE ClientHears(c)
    <3>1. /\ client[c] = "waiting" /\ request' = request
          /\ client'[c] = IF reply[c] # None THEN reply[c] ELSE "error"
      BY <2>3 DEF ClientHears, Types
    <3>2. reply[c] \in {None, "returned", "refused"}
      BY DEF Types
    <3> QED
      BY <1>1, <1>3, <3>1, <3>2 DEF Stage
  <2>4. CASE ClientCrashes(c)
    <3>1. client'[c] = "crashed" /\ request' = request
      BY <2>4 DEF ClientCrashes, Types
    <3> QED
      BY <1>1, <1>3, <3>1 DEF Stage
  <2> QED
    BY <2>1, <2>2, <2>3, <2>4 DEF Client
<1> QED
  BY <1>2, <1>3

LEMMA StagesStep ==
  ASSUME Inv, Stages, [Next]_vars
  PROVE  Stages'
<1> SUFFICES ASSUME NEW d \in Call PROVE Stage(d)'
  BY DEF Stages
<1>1. Types /\ Stage(d)
  BY DEF Inv, Stages
<1>2. CASE \E c \in Call : Worker(c) \/ Client(c)
  BY <1>1, <1>2, WorkerStage, ClientStage
<1>3. CASE UNCHANGED <<client, request, runs, reply, worker>>
  BY <1>1, <1>3, SameStage
<1>4. CASE CreateWorker
  <2>1. UNCHANGED <<client, request, runs, reply>>
    BY <1>4 DEF CreateWorker, netVars
  <2>2. worker[creating] = "none" /\ creating \in Call
    BY <1>4, ServerAssumption DEF CreateWorker, ListenerStep, Inv, Types, Places, Fresh
  <2>3. worker' \in {worker, [worker EXCEPT ![creating] = "recv"]}
    BY <1>4 DEF CreateWorker
  <2>4. worker'[d] = worker[d] \/ (worker[d] = "none" /\ worker'[d] = "recv")
    BY <1>1, <2>2, <2>3 DEF Types
  <2> QED
    BY <1>1, <2>1, <2>4 DEF Stage
<1>5. CASE ProcessExits
  <2>1. UNCHANGED <<client, request, runs, reply>> /\ worker'[d] \in {"killed", worker[d]}
    BY <1>5 DEF ProcessExits, mainFrame
  <2> QED
    BY <1>1, <2>1 DEF Stage
<1>6. CASE Main
  BY <1>3, <1>5, <1>6 DEF Main, SpinReadsTerminating, SpinReadsTotalThreads,
     CancelListener, JoinListener, ServeReturns, mainFrame
<1>7. CASE BinderThread \/ Listener
  BY <1>3, <1>4, <1>7 DEF BinderThread, BinderThreadHears, BinderThreadEnds,
     Listener, AcceptIfAny, ConnectionsWithData, ListenerCancelled, Dispatch, netVars
<1>8. CASE BinderTerminates \/ BinderLost \/ Finished \/ UNCHANGED vars
  BY <1>3, <1>8 DEF BinderTerminates, BinderLost, Finished, environmentFrame, netVars, vars
<1> QED
  BY <1>2, <1>6, <1>7, <1>8 DEF Next

LEMMA StepImplements ==
  ASSUME Inv, Stages, [Next]_vars
  PROVE  [RC!Next]_(RC!vars)
<1>1. Types
  BY DEF Inv
<1>2. CASE UNCHANGED <<runs, client>>
  BY <1>2 DEF RC!vars, CallOutcome
<1>3. ASSUME NEW c \in Call, Worker(c)
      PROVE  [RC!Next]_(RC!vars)
  <2>1. client' = client
    BY <1>3 DEF Worker, WorkerReceives, WorkerRuns, WorkerRefuses, WorkerReplies,
       WorkerCloses, WorkerEnds, WorkerStep, workerFrame
  <2>2. CASE WorkerRuns(c)
    <3>1. runs[c] = 0 /\ client[c] # "refused"
      BY <2>2, ServerAssumption DEF WorkerRuns, WorkerStep, Stages, Stage
    <3>2. runs' = [runs EXCEPT ![c] = 1]
      BY <2>2, <3>1 DEF WorkerRuns
    <3>3. CallOutcome[c] # "refused" /\ CallOutcome' = CallOutcome
      BY <2>1, <3>1 DEF CallOutcome
    <3>4. RC!Run(c)
      BY <3>1, <3>2, <3>3 DEF RC!Run
    <3> QED
      BY <3>4 DEF RC!Next
  <2>3. CASE ~WorkerRuns(c)
    BY <1>2, <1>3, <2>1, <2>3 DEF Worker, WorkerReceives, WorkerRefuses, WorkerReplies,
       WorkerCloses, WorkerEnds
  <2> QED
    BY <2>2, <2>3
<1>4. ASSUME NEW c \in Call, Client(c)
      PROVE  [RC!Next]_(RC!vars)
  <2>1. runs' = runs
    BY <1>4 DEF Client, ClientConnects, ClientSends, ClientHears, ClientCrashes, environmentFrame
  <2>2. CASE \E to \in {"connected", "waiting"} :
               client[c] \in {"idle", "connected"} /\ client' = [client EXCEPT ![c] = to]
    <3>1. CallOutcome' = CallOutcome
      BY <1>1, <2>2 DEF Types, CallOutcome
    <3> QED
      BY <2>1, <3>1 DEF RC!vars
  <2>3. CASE \E to \in {"error", "crashed"} :
               /\ client[c] \in {"idle", "connected", "waiting"}
               /\ client' = [client EXCEPT ![c] = to]
    <3>3. CallOutcome[c] = "none"
      BY <2>3 DEF CallOutcome
    <3>4. client'[c] \in {"error", "crashed"} /\ \A d \in Call : d # c => client'[d] = client[d]
      BY <1>1, <2>3 DEF Types
    <3>5. CallOutcome'[c] = "error" /\ \A d \in Call : d # c => CallOutcome'[d] = CallOutcome[d]
      BY <3>4 DEF CallOutcome
    <3>1. CallOutcome' = [d \in Call |-> IF d \in {c} THEN "error" ELSE CallOutcome[d]]
      BY <3>5 DEF CallOutcome
    <3>2. RC!Fail({c})
      BY <2>1, <3>1, <3>3 DEF RC!Fail
    <3> QED
      BY <3>2 DEF RC!Next
  <2>4. CASE \E to \in {"returned", "refused"} :
               /\ client[c] = "waiting" /\ reply[c] = to
               /\ client' = [client EXCEPT ![c] = to]
    <3> PICK to \in {"returned", "refused"} :
               /\ client[c] = "waiting" /\ reply[c] = to
               /\ client' = [client EXCEPT ![c] = to]
      BY <2>4
    <3>1. CallOutcome[c] = "none" /\ CallOutcome' = [CallOutcome EXCEPT ![c] = to]
      BY ZenonT(60), <1>1 DEF Types, CallOutcome
    <3>2. \/ to = "returned" /\ runs[c] = 1
          \/ to = "refused" /\ runs[c] = 0
      BY DEF Stages, Stage
    <3>3. RC!Return(c)
      BY <2>1, <3>1, <3>2 DEF RC!Return
    <3> QED
      BY <3>3 DEF RC!Next
  <2>5. CASE ClientConnects(c) \/ ClientSends(c) \/ ClientCrashes(c)
    BY <2>2, <2>3, <2>5 DEF ClientConnects, ClientSends, ClientCrashes
  <2>6. CASE ClientHears(c)
    <3>1. reply[c] \in {None, "returned", "refused"}
      BY <1>1 DEF Types
    <3> QED
      BY <2>3, <2>4, <2>6, <3>1 DEF ClientHears
  <2> QED
    BY <1>4, <2>5, <2>6 DEF Client
<1>5. CASE Main \/ BinderThread \/ Listener \/ BinderTerminates \/ BinderLost
           \/ Finished \/ UNCHANGED vars
  BY <1>2, <1>5 DEF Main, SpinReadsTerminating, SpinReadsTotalThreads, CancelListener,
     JoinListener, ServeReturns, ProcessExits, mainFrame, BinderThread,
     BinderThreadHears, BinderThreadEnds, Listener, AcceptIfAny, ConnectionsWithData,
     CreateWorker, ListenerCancelled, Dispatch, BinderTerminates, BinderLost,
     environmentFrame, Finished, vars
<1> QED
  BY <1>3, <1>4, <1>5 DEF Next

\* Every call is run at most once, a caller that is told of a result has had
\* its function run, and one that is refused has not (serve_client_thread and
\* rpcCall): whatever the threads, the binder and the other clients do.
THEOREM ServerImplementsRemoteCall == Spec => ImplementsRemoteCall
<1>1. Init => Stages
  BY ServerAssumption DEF Init, Stages, Stage
<1>2. Init => RC!Init
  BY DEF Init, RC!Init, CallOutcome
<1>3. Inv /\ Stages /\ [Next]_vars => Stages'
  BY StagesStep
<1>4. Inv /\ Stages /\ [Next]_vars => [RC!Next]_(RC!vars)
  BY StepImplements
<1> QED
  BY <1>1, <1>2, <1>3, <1>4, Invariance, PTL DEF Spec, ImplementsRemoteCall, RC!Spec

=============================================================================
