---------------------------- MODULE MCOrderBook ----------------------------
(***************************************************************************)
(* Small restaurants for TLC.  Identifiers are interchangeable, so each    *)
(* set of them is a symmetry set.                                          *)
(***************************************************************************)
EXTENDS OrderBook, TLC

Symmetry == Permutations(Orders) \cup Permutations(Items)
              \cup Permutations(Payments) \cup Permutations(Sessions)
              \cup Permutations(Tables)

=============================================================================
