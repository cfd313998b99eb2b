---------------------------- MODULE MCInvoicing ----------------------------
(* Small restaurants that invoice, for TLC.                                *)
EXTENDS Invoicing, TLC

Symmetry == Permutations(Requests)
=============================================================================
