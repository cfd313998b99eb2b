------------------------------ MODULE MCRealtime ------------------------------
(* Few requests and replicas, alike, for TLC. *)
EXTENDS Realtime, TLC

Symmetry == Permutations(Requests) \cup Permutations(Replicas)
=============================================================================
