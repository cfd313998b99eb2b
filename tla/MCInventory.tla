---------------------------- MODULE MCInventory ----------------------------
(* Small storerooms, for TLC, on days of three sorts: goods come and are    *)
(* sold, waste is reported and decided, the shelves are counted.            *)
EXTENDS Inventory, TLC

CONSTANTS i1, i2

Days == {{i1, i2, "order", "buy"} \cup SupplyKinds,
         {i1, "consume", "buy", "reprice", "waste", "adjust"} \cup WasteKinds,
         {i1, "consume", "recount"} \cup CountKinds}

Symmetry == Permutations(Requests) \cup Permutations(Counts)
=============================================================================
