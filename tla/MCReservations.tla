--------------------------- MODULE MCReservations ---------------------------
(* Small diaries, for TLC: at a table, a stay of two hours and one that     *)
(* begins as it ends; and a stay without a table.                           *)
EXTENDS Reservations, TLC

CONSTANT t1

Stay(t, from, len) == [table |-> t, from |-> from, len |-> len]
Stays == {Stay(t1, 1, 2), Stay(t1, 3, 1), Stay(None, 1, 1)}

Symmetry == Permutations(Requests) \cup Permutations(Bookings)
=============================================================================
