----------------------------- MODULE RemoteCall -----------------------------
(***************************************************************************)
(* What a server promises for each call it is sent, whatever threads serve *)
(* it: the function is run at most once; a result is returned only for a   *)
(* function that has run, and the answer that it could not be run only for *)
(* one that has not and never will.  A call that ends in an error may have *)
(* been run, or still be running.                                          *)
(***************************************************************************)
EXTENDS Integers

CONSTANT Call

VARIABLES
  runs,      \* runs[c]: how often the function of call c has been run
  outcome    \* outcome[c]: what the caller knows of it

vars == <<runs, outcome>>

Init ==
  /\ runs = [c \in Call |-> 0]
  /\ outcome = [c \in Call |-> "none"]

Run(c) ==
  /\ runs[c] = 0
  /\ outcome[c] # "refused"
  /\ runs' = [runs EXCEPT ![c] = 1]
  /\ UNCHANGED outcome

Return(c) ==
  /\ outcome[c] = "none"
  /\ \/ runs[c] = 1 /\ outcome' = [outcome EXCEPT ![c] = "returned"]
     \/ runs[c] = 0 /\ outcome' = [outcome EXCEPT ![c] = "refused"]
  /\ UNCHANGED runs

\* The calls of a process that dies fail together.
Fail(calls) ==
  /\ \A c \in calls : outcome[c] = "none"
  /\ outcome' = [c \in Call |-> IF c \in calls THEN "error" ELSE outcome[c]]
  /\ UNCHANGED runs

Next ==
  \/ \E c \in Call : Run(c) \/ Return(c)
  \/ \E calls \in SUBSET Call : Fail(calls)

Spec == Init /\ [][Next]_vars

=============================================================================
