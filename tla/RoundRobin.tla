----------------------------- MODULE RoundRobin -----------------------------
(***************************************************************************)
(* What the binder promises to the processes that talk to it, without any  *)
(* of the data structures it keeps: a locate request is answered with the  *)
(* server that has been idle for longer than every other server of the     *)
(* function, and fails only when no server serves the function.            *)
(*                                                                         *)
(* A server is "used" when it registers a function or is named in an       *)
(* answer; idle orders the servers by how long ago that last happened.     *)
(***************************************************************************)
EXTENDS Integers

CONSTANTS
  Server,      \* the servers that can register
  Signature,   \* the function signatures they can serve
  NoAnswer     \* the value of answer before the first request

VARIABLES
  serves,      \* serves[g]: the servers registered for signature g
  idle,        \* <<s, t>> \in idle: s has been idle for longer than t
  answer       \* the last answer given

vars == <<serves, idle, answer>>

Known == UNION {serves[g] : g \in Signature}

Used(s) ==
  idle' = {p \in idle : s \notin {p[1], p[2]}} \cup ((Known \ {s}) \X {s})

-----------------------------------------------------------------------------

Init ==
  /\ serves = [g \in Signature |-> {}]
  /\ idle = {}
  /\ answer = NoAnswer

Register(s, g) ==
  /\ s \notin serves[g]
  /\ serves' = [serves EXCEPT ![g] = @ \cup {s}]
  /\ Used(s)
  /\ answer' = [type |-> "REGISTER_SUCCESS", status |-> 0]

RegisterAgain(s, g) ==
  /\ s \in serves[g]
  /\ answer' = [type |-> "REGISTER_SUCCESS", status |-> 1]
  /\ UNCHANGED <<serves, idle>>

Locate(s, g) ==
  /\ s \in serves[g]
  /\ \A t \in serves[g] \ {s} : <<s, t>> \in idle
  /\ Used(s)
  /\ answer' = [type |-> "LOCATE_SUCCESS", server |-> s]
  /\ UNCHANGED serves

LocateFails(g) ==
  /\ serves[g] = {}
  /\ answer' = [type |-> "LOCATE_FAILURE"]
  /\ UNCHANGED <<serves, idle>>

\* Any outcome of stopping the servers may be reported.
Terminate ==
  /\ answer' \in {[type |-> "TERMINATE_SUCCESS"]} \cup
                 [type : {"TERMINATE_FAILURE"}, status : -128 .. 127]
  /\ UNCHANGED <<serves, idle>>

Leave(s) ==
  /\ serves' = [g \in Signature |-> serves[g] \ {s}]
  /\ idle' = {p \in idle : s \notin {p[1], p[2]}}
  /\ UNCHANGED answer

Next ==
  \/ \E s \in Server, g \in Signature :
       Register(s, g) \/ RegisterAgain(s, g) \/ Locate(s, g)
  \/ \E g \in Signature : LocateFails(g)
  \/ Terminate
  \/ \E s \in Server : Leave(s)

Spec == Init /\ [][Next]_vars

=============================================================================
