------------------------------ MODULE MCBinder ------------------------------
(* Binder for TLC: servers, and addresses, are interchangeable.            *)
EXTENDS Binder, TLC

Symmetry == Permutations(ServerSocket) \cup Permutations(Addr)

=============================================================================
