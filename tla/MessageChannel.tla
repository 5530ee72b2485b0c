--------------------------- MODULE MessageChannel ---------------------------
(***************************************************************************)
(* What TcpSocket makes of a byte stream: each connection carries whole    *)
(* messages in order, every one at most once.  It is what modules Binder   *)
(* and Server take a connection to be.                                     *)
(***************************************************************************)
EXTENDS Integers, Sequences

CONSTANTS Conn, Message

VARIABLES
  sent,       \* sent[c]: the messages given to send
  received    \* received[c]: those that recv has returned

vars == <<sent, received>>

Init ==
  /\ sent = [c \in Conn |-> <<>>]
  /\ received = [c \in Conn |-> <<>>]

Send(c) ==
  /\ \E m \in Message : sent' = [sent EXCEPT ![c] = Append(@, m)]
  /\ UNCHANGED received

Receive(c) ==
  /\ Len(received[c]) < Len(sent[c])
  /\ received' = [received EXCEPT ![c] = Append(@, sent[c][Len(@) + 1])]
  /\ UNCHANGED sent

Next == \E c \in Conn : Send(c) \/ Receive(c)

Spec == Init /\ [][Next]_vars

=============================================================================
