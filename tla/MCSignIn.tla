------------------------------- MODULE MCSignIn -------------------------------
(* Small windows of sign-in attempts, for TLC. *)
EXTENDS SignIn, TLC

Sent == [kind : {"totp"}, n : {1, 2}] \cup {[kind |-> "recovery", n |-> 1]}

Symmetry == Permutations(Attempts) \cup Permutations(Replicas) \cup Permutations(Addresses)
=============================================================================
