------------------------ MODULE MCOrderTransactions ------------------------
(* A restaurant at work, for TLC: the served orders sit at one table with   *)
(* the orders already paid there, and another table is free.                *)
EXTENDS OrderTransactions, TLC

CONSTANT t1

SeatAtFirst == [o \in Served \cup Settled |-> t1]

(* Requests and shifts are told apart by nothing but their identity.       *)
Symmetry == Permutations(Attempts) \cup Permutations(Sessions)
=============================================================================
