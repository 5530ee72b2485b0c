--------------------------- MODULE ConnectionPool ---------------------------
(***************************************************************************)
(* What TcpServer promises to those that use it, whatever descriptors it   *)
(* goes through: connections are accepted in the order they arrive, only   *)
(* an open one is read from, and none is closed under a peer that is there.*)
(***************************************************************************)
EXTENDS Sequences

CONSTANT Conn

VARIABLES
  waiting,   \* the connections not yet accepted, in order
  open,      \* the connections that are accepted and not closed
  peer,      \* peer[c]: "none" before c is made, "up", or "gone"
  data       \* the connections with something to read

vars == <<waiting, open, peer, data>>

Init ==
  /\ waiting = <<>> /\ open = {} /\ data = {}
  /\ peer = [c \in Conn |-> "none"]

Arrive(c) ==
  /\ peer[c] = "none"
  /\ peer' = [peer EXCEPT ![c] = "up"]
  /\ waiting' = Append(waiting, c)
  /\ UNCHANGED <<open, data>>

Write(c) ==
  /\ peer[c] = "up"
  /\ data' = data \cup {c}
  /\ UNCHANGED <<waiting, open, peer>>

Leave(c) ==
  /\ peer[c] = "up"
  /\ peer' = [peer EXCEPT ![c] = "gone"]
  /\ UNCHANGED <<waiting, open, data>>

Accept ==
  /\ waiting # <<>>
  /\ open' = open \cup {Head(waiting)}
  /\ waiting' = Tail(waiting)
  /\ UNCHANGED <<peer, data>>

Read(c) ==
  /\ c \in open /\ c \in data
  /\ data' = data \ {c}
  /\ UNCHANGED <<waiting, open, peer>>

Close(c) ==
  /\ c \in open /\ peer[c] = "gone"
  /\ open' = open \ {c}
  /\ UNCHANGED <<waiting, peer, data>>

Next ==
  \/ Accept
  \/ \E c \in Conn : Arrive(c) \/ Write(c) \/ Leave(c) \/ Read(c) \/ Close(c)

Spec == Init /\ [][Next]_vars

=============================================================================
