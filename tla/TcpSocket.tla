----------------------------- MODULE TcpSocket ------------------------------
(***************************************************************************)
(* TcpSocket::send and TcpSocket::recv over byte streams that arrive in    *)
(* pieces: a message goes out as its length, an int in memory order, and   *)
(* then its bytes.  One thread receives from several connections, as the   *)
(* binder does: it asks select which have something to read, and then reads*)
(* a whole message from each.                                              *)
(***************************************************************************)
EXTENDS Integers, Sequences, FiniteSets

CONSTANTS
  Conn,
  MaxSent,        \* how many messages a connection carries
  MaxLength,      \* how long they are
  Capacity,       \* how many bytes a socket holds for its reader
  SplitsLength,   \* whether the bytes of a length may arrive one by one
  Base            \* how many values a byte has

\* How many bytes an int has.
LengthBytes == 2

ASSUME TcpSocketAssumption ==
  /\ Base \in Nat \ {0, 1}
  /\ MaxSent \in 0 .. Base - 1
  /\ MaxLength \in 0 .. Base * Base - 1
  /\ Capacity \in Nat \ (0 .. LengthBytes - 1)
  /\ SplitsLength \in BOOLEAN

VARIABLES
  sent, received,   \* as in MessageChannel
  \* The streams.
  left,       \* left[c]: what of the message being sent has not arrived
  inbox,      \* inbox[c]: what has arrived and was not read
  peer,       \* peer[c]: "up", "gone", or "closed" once the end was seen
  \* The receiver.
  pc,         \* "select", "serve", or inside recv: "length", "body"
  round,      \* the connections of this round still to be served
  current,    \* the connection recv is called on
  length,     \* the local variable length of recv
  response    \* the bytes received so far

streamVars == <<left, inbox, peer>>
recvVars == <<current, length, response>>
vars == <<sent, received, streamVars, pc, round, recvVars>>

\* A message: the k-th one sent has bytes k.
Content(k, n) == [i \in 1 .. n |-> k]
Message == UNION {{Content(k, n) : n \in 0 .. MaxLength} : k \in 1 .. MaxSent}

\* Mutant: one end turns the int to network order.
EncodeBigEndian(n) == <<n \div Base, n % Base>>

Encode(n) == <<n % Base, n \div Base>>
Decode(b) == b[1] + Base * b[2]

Least(a, b) == IF a < b THEN a ELSE b
Take(s, k) == SubSeq(s, 1, k)
Drop(s, k) == SubSeq(s, k + 1, Len(s))

Init ==
  /\ sent = [c \in Conn |-> <<>>]
  /\ received = [c \in Conn |-> <<>>]
  /\ left = [c \in Conn |-> <<>>]
  /\ inbox = [c \in Conn |-> <<>>]
  /\ peer = [c \in Conn |-> "up"]
  /\ pc = "select" /\ round = {}
  /\ current \in Conn /\ length = 0 /\ response = <<>>

-----------------------------------------------------------------------------
(* send, and the network.                                                  *)

receiverFrame == <<received, pc, round, recvVars>>

Send(c) ==
  /\ peer[c] = "up" /\ left[c] = <<>>
  /\ Len(sent[c]) < MaxSent
  /\ \E n \in 0 .. MaxLength :
       LET m == Content(Len(sent[c]) + 1, n)
       IN /\ sent' = [sent EXCEPT ![c] = Append(@, m)]
          /\ left' = [left EXCEPT ![c] = Encode(n) \o m]
  /\ UNCHANGED <<inbox, peer, receiverFrame>>

\* The length is still on its way, as a whole or in part.
LengthLeft(c) ==
  LET body == Len(sent[c][Len(sent[c])])
  IN IF Len(left[c]) > body THEN Len(left[c]) - body ELSE 0

\* Some more bytes arrive.
Arrive(c) ==
  /\ peer[c] = "up" /\ left[c] # <<>>
  /\ \E k \in 1 .. Len(left[c]) :
       /\ SplitsLength \/ k >= LengthLeft(c)
       /\ Len(inbox[c]) + k <= Capacity
       /\ inbox' = [inbox EXCEPT ![c] = @ \o Take(left[c], k)]
       /\ left' = [left EXCEPT ![c] = Drop(@, k)]
  /\ UNCHANGED <<sent, peer, receiverFrame>>

\* The sender dies; with a reset, what has arrived is lost as well.
Die(c) ==
  /\ peer[c] = "up"
  /\ peer' = [peer EXCEPT ![c] = "gone"]
  /\ left' = [left EXCEPT ![c] = <<>>]
  /\ inbox' \in {inbox, [inbox EXCEPT ![c] = <<>>]}
  /\ UNCHANGED <<sent, receiverFrame>>

-----------------------------------------------------------------------------
(* The receiver.                                                           *)

senderFrame == <<sent, left>>
Readable(c) == peer[c] # "closed" /\ (inbox[c] # <<>> \/ peer[c] = "gone")

ConnectionsWithData ==
  /\ pc = "select"
  /\ round' = {c \in Conn : Readable(c)}
  /\ round' # {}
  /\ pc' = "serve"
  /\ UNCHANGED <<senderFrame, received, inbox, peer, recvVars>>

Serve ==
  /\ pc = "serve"
  /\ current' \in round
  /\ round' = round \ {current'}
  /\ pc' = "length"
  /\ UNCHANGED <<senderFrame, received, inbox, peer, length, response>>

Served == IF round = {} THEN "select" ELSE "serve"

\* recv returns m, or goes on for the rest of it.
Continue(m, n) ==
  /\ length' = n /\ response' = m
  /\ IF Len(m) = n
     THEN /\ received' = [received EXCEPT ![current] = Append(@, m)]
          /\ pc' = Served
     ELSE /\ pc' = "body"
          /\ UNCHANGED received

\* One ::recv reads the length.  When fewer bytes are there, the rest of it is
\* what the stack held.
RecvLength ==
  /\ pc = "length"
  /\ inbox[current] # <<>>
  /\ LET k == Least(LengthBytes, Len(inbox[current]))
         bytes == Take(inbox[current], k)
     IN /\ inbox' = [inbox EXCEPT ![current] = Drop(@, k)]
        /\ \E stack \in [1 .. LengthBytes - k -> 0 .. Base - 1] :
             Continue(<<>>, Decode(bytes \o stack))
  /\ UNCHANGED <<senderFrame, peer, round, current>>

\* Mutant: what one ::recv returns is taken for the message.
RecvBodyOnce ==
  /\ pc = "body"
  /\ inbox[current] # <<>>
  /\ LET k == Least(length - Len(response), Len(inbox[current]))
     IN /\ inbox' = [inbox EXCEPT ![current] = Drop(@, k)]
        /\ Continue(response \o Take(inbox[current], k), Len(response) + k)
  /\ UNCHANGED <<senderFrame, peer, round, current>>

RecvBody ==
  /\ pc = "body"
  /\ inbox[current] # <<>>
  /\ LET k == Least(length - Len(response), Len(inbox[current]))
     IN /\ inbox' = [inbox EXCEPT ![current] = Drop(@, k)]
        /\ Continue(response \o Take(inbox[current], k), length)
  /\ UNCHANGED <<senderFrame, peer, round, current>>

\* Mutant: in the loop, only -1 is taken for a failure.
RecvFailsOnLength ==
  /\ inbox[current] = <<>> /\ peer[current] = "gone"
  /\ \/ /\ pc = "length"
        /\ peer' = [peer EXCEPT ![current] = "closed"]
        /\ pc' = Served
     \/ pc = "body" /\ UNCHANGED <<peer, pc>>
  /\ UNCHANGED <<senderFrame, received, inbox, round, recvVars>>

\* ConnectionClosed: what was received of a message is dropped.
RecvFails ==
  /\ pc \in {"length", "body"}
  /\ inbox[current] = <<>> /\ peer[current] = "gone"
  /\ peer' = [peer EXCEPT ![current] = "closed"]
  /\ pc' = Served
  /\ UNCHANGED <<senderFrame, received, inbox, round, recvVars>>

\* Nothing more to come.
Quiet ==
  /\ \A c \in Conn : ~Readable(c) /\ left[c] = <<>>
  /\ \A c \in Conn : peer[c] = "closed" \/ Len(sent[c]) = MaxSent
  /\ pc \notin {"serve"}
  /\ UNCHANGED vars

Receiver == ConnectionsWithData \/ Serve \/ RecvLength \/ RecvBody \/ RecvFails

Next ==
  \/ Receiver
  \/ \E c \in Conn : Send(c) \/ Arrive(c) \/ Die(c)
  \/ Quiet

Spec == Init /\ [][Next]_vars

\* The receiver runs.
ReceiverFairSpec == Spec /\ WF_vars(Receiver)

\* And what is sent arrives, unless the sender dies.
FairSpec == ReceiverFairSpec /\ \A c \in Conn : WF_vars(Arrive(c))

-----------------------------------------------------------------------------
(* Properties.                                                             *)

\* Every variable has its type.
TypeOK ==
  /\ \A c \in Conn :
       /\ sent[c] \in Seq(Message) /\ received[c] \in Seq(Message)
       /\ Len(inbox[c]) <= Capacity
       /\ Len(left[c]) <= LengthBytes + MaxLength
  /\ peer \in [Conn -> {"up", "gone", "closed"}]
  /\ pc \in {"select", "serve", "length", "body"}
  /\ round \subseteq Conn
  /\ current \in Conn
  /\ length \in 0 .. MaxLength
  /\ Len(response) <= length

\* Whatever the pieces and whoever dies when, recv returns the messages that
\* were sent, whole and in order ("every message is preceded by its length on
\* the wire", tcp_socket.h:11).
Channel == INSTANCE MessageChannel

ImplementsMessageChannel == Channel!Spec

\* A message that has arrived is received, if its sender stays and as long as what
\* other senders have begun goes on arriving: recv waits for the rest of a message,
\* so that "Non-blocking" (tcp_server.h:12) holds no further than that.
ArrivedIsReceived ==
  \A c \in Conn, n \in 1 .. MaxSent :
    left[c] = <<>> /\ Len(sent[c]) = n ~> Len(received[c]) >= n \/ peer[c] # "up"

=============================================================================
