----------------------------- MODULE MCRelayHub -----------------------------
(* Small instances of RelayHub for TLC. *)
EXTENDS RelayHub, TLC

(* Requests and tunnels are interchangeable in the invariants. *)
Symmetry == Permutations(Requests) \cup Permutations(Tunnels) \cup Permutations(Nodes)
=============================================================================
