---------------------------- MODULE InventoryProofs ----------------------------
(***************************************************************************)
(* What the documents of a storeroom do to its stock, for any number of    *)
(* them and of requests: the row of a document, taken FOR UPDATE, is what  *)
(* keeps it from moving the stock twice, and the stock kept with each      *)
(* count is what makes its differences right.                              *)
(***************************************************************************)
EXTENDS Inventory, SumProofs

-----------------------------------------------------------------------------
(* Rows and requests. *)

Docs == Supplies \cup Wastes \cup Counts

Causes == {"purchase", "consumption", "waste", "adjustment", "recount", "count"}
Movements == [n : Nat, kind : Causes, ing : Ingredients, qty : Int,
              cause : Docs \cup {None}]
Unnumbered == [kind : Causes, ing : Ingredients, qty : Int,
               cause : Docs \cup {None}]

Orders == [status : {"none", "draft", "sent", "received", "cancelled"},
           lines : SUBSET Ingredients, got : SUBSET Ingredients]
Losses == [status : {"none", "pending", "approved", "rejected"},
           ing : Ingredients \cup {None}]
Loads == [counted : Nat \cup {None}, expected : Int, at : Nat]
Sheets == [status : {"none", "draft", "closed", "cancelled"},
           lines : SUBSET Ingredients, loaded : [Ingredients -> Loads],
           closed : Nat]

Steps == {"none", "look", "weigh", "save", "line", "commit", "row", "glance",
          "insert"}
Averages == [old : Int, new : Int, price : Nat]
Costings == UNION {[D -> Averages] : D \in SUBSET Ingredients}
Askings ==
  [kind : Kinds \cup {"none"}, step : Steps, doc : Docs \cup {None},
   ing : Ingredients \cup {None}, qty : Nat, price : Nat,
   left : SUBSET Ingredients, held : SUBSET (Docs \cup Ingredients \cup {OneDraft}),
   readCost : Int, stock : Int, at : Nat, posts : SUBSET Unnumbered,
   newCost : Costings]

Typed ==
  /\ ledger \in SUBSET Movements /\ IsFiniteSet(ledger)
  /\ cost \in [Ingredients -> Int]
  /\ costs \in [Ingredients -> SUBSET Nat]
  /\ supply \in [Supplies -> Orders]
  /\ waste \in [Wastes -> Losses]
  /\ \A w \in Wastes : waste[w].status # "none" => waste[w].ing \in Ingredients
  /\ count \in [Counts -> Sheets]
  /\ req \in [Requests -> Askings]

\* Where a request may be, and what it is about.
Shaped(r) ==
  LET me == req[r]
  IN  /\ me.kind = "none" => me = Idle
      /\ me.kind = "buy" => /\ me.step \in {"look", "weigh", "save", "commit"}
                            /\ me.doc = None /\ me.left = {}
      /\ me.kind = "recount" => me.step \in {"weigh", "commit"}
      /\ me.kind = "receive" =>
           me.step \in {"row", "line", "look", "weigh", "save", "commit"}
      /\ me.kind \in {"edit", "send", "withdraw"} => me.step \in {"row", "commit"}
      /\ me.kind \in SupplyKinds => me.doc \in Supplies
      /\ me.kind \in SupplyKinds /\ me.step = "row" =>
           me.posts = {} /\ me.ing = None
      /\ me.kind \in WasteKinds =>
           me.doc \in Wastes /\ me.step \in {"row", "commit"}
      /\ me.kind = "open" => me.step \in {"glance", "insert", "commit"}
      /\ me.kind = "load" => me.step \in {"row", "weigh", "commit"}
      /\ me.kind \in {"clear", "close", "cancel"} => me.step \in {"row", "commit"}
      /\ me.kind \in CountKinds => me.doc \in Counts
      /\ me.kind \in {"none", "buy", "recount"} \cup SupplyKinds \cup WasteKinds
                       \cup CountKinds
      /\ me.step \in {"look", "weigh", "save"} => me.ing \in Ingredients
      /\ me.kind \in {"recount", "load", "clear"} => me.ing \in Ingredients

\* The rows it has taken so far.
HasRow(r) ==
  LET me == req[r]
  IN  /\ me.kind \in SupplyKinds \cup WasteKinds \cup (CountKinds \ {"open"})
           => me.step = "row" \/ me.doc \in me.held
      /\ me.kind = "open" /\ me.step = "commit" => OneDraft \in me.held

Exclusive ==
  \A r, q \in Requests : r # q => req[r].held \cap req[q].held = {}

\* What it has read of its document is still so.
KnowsDoc(r) ==
  LET me == req[r]
  IN  /\ me.kind \in SupplyKinds /\ me.step # "row"
           => supply[me.doc].status \in Receivable
      /\ me.kind \in WasteKinds /\ me.step # "row"
           => waste[me.doc].status = "pending"
      /\ me.kind \in CountKinds \ {"open"} => count[me.doc].status # "none"
      /\ me.kind \in CountKinds \ {"open"} /\ me.step # "row"
           => count[me.doc].status = "draft"
      /\ me.kind = "open" => /\ count[me.doc].status = "none"
                             /\ \A q \in Requests \ {r} : req[q].doc # me.doc
      /\ me.kind = "open" /\ me.step = "commit" => Drafts = {}

\* Purchases on their way: one movement for each line done, none for those left.
Posting(r) ==
  LET me == req[r]
  IN  /\ IsFiniteSet(me.posts) /\ me.ing \notin me.left
      /\ \A m \in me.posts : /\ m = Movement("purchase", m.ing, me.qty, me.doc)
                             /\ m.ing \notin me.left /\ m.ing # me.ing

Orderly ==
  /\ Typed /\ Exclusive
  /\ \A r \in Requests : Shaped(r) /\ HasRow(r) /\ KnowsDoc(r) /\ Posting(r)

-----------------------------------------------------------------------------
(* Requests that go on, and requests that end. *)

LEMMA Becomes ==
  ASSUME Typed, NEW r \in Requests, NEW n \in Askings,
         req' = [req EXCEPT ![r] = n]
  PROVE  /\ req' \in [Requests -> Askings] /\ req'[r] = n
         /\ \A q \in Requests \ {r} : req'[q] = req[q]
BY DEF Typed

\* A request that did nothing to the documents leaves the others as they were.
LEMMA OthersStay ==
  ASSUME NEW r \in Requests, NEW q \in Requests, q # r, req'[q] = req[q],
         \A p \in Requests \ {r} : req'[p] = req[p],
         req[q].kind = "open" => req'[r].doc # req[q].doc,
         UNCHANGED <<supply, waste, count>>,
         Shaped(q), HasRow(q), KnowsDoc(q), Posting(q)
  PROVE  Shaped(q)' /\ HasRow(q)' /\ KnowsDoc(q)' /\ Posting(q)'
<1>1. Shaped(q)' /\ HasRow(q)' /\ Posting(q)'
  BY DEF Shaped, HasRow, Posting
<1>2. KnowsDoc(q)'
  BY DEF KnowsDoc, Drafts
<1>3. QED
  BY <1>1, <1>2

\* Whoever takes a row takes one that nobody has.
LEMMA ExclusiveStays ==
  ASSUME Exclusive, NEW r \in Requests,
         \A q \in Requests \ {r} : req'[q] = req[q],
         \/ req'[r].held = {}
         \/ Granted(r) /\ req'[r].held = req[r].held \cup Wanted(r)
         \/ req'[r].held = req[r].held
  PROVE  Exclusive'
<1>1. ASSUME NEW p \in Requests, NEW q \in Requests, p # q
      PROVE  req'[p].held \cap req'[q].held = {}
  <2>1. CASE p # r /\ q # r
    BY <1>1, <2>1 DEF Exclusive
  <2>2. CASE p = r
    BY <1>1, <2>2 DEF Exclusive, Granted, Waits
  <2>3. CASE q = r
    BY <1>1, <2>3 DEF Exclusive, Granted, Waits
  <2>4. QED
    BY <2>1, <2>2, <2>3
<1>2. QED
  BY <1>1 DEF Exclusive

LEMMA IdleIs ==
  /\ Idle \in Askings /\ Idle.kind = "none" /\ Idle.doc = None /\ Idle.held = {}
  /\ Idle.posts = {} /\ Idle.left = {} /\ Idle.ing = None /\ Idle.step = "none"
<1>1. <<>> \in Costings
  <2>1. <<>> \in [{} -> Averages]
    OBVIOUS
  <2>2. QED
    BY <2>1 DEF Costings
<1>2. QED
  BY <1>1 DEF Idle, Askings, Steps

LEMMA IdleIsOrderly ==
  ASSUME NEW r \in Requests, req[r] = Idle
  PROVE  Shaped(r) /\ HasRow(r) /\ KnowsDoc(r) /\ Posting(r)
<1>1. IsFiniteSet({})
  BY FS_EmptySet
<1>2. QED
  BY <1>1, IdleIs, InventoryAssumption
     DEF Shaped, HasRow, KnowsDoc, Posting, SupplyKinds, WasteKinds, CountKinds

\* A request that goes on, or waits for nothing, with the documents as they are.
Went(r) ==
  /\ req' = [req EXCEPT ![r] = req'[r]] /\ req'[r] \in Askings /\ UNCHANGED db
  /\ \/ Granted(r) /\ req'[r].held = req[r].held \cup Wanted(r)
     \/ req'[r].held = req[r].held
  /\ req'[r].doc = req[r].doc

LEMMA GoingOn ==
  ASSUME Orderly, NEW r \in Requests, Went(r),
         Shaped(r)', HasRow(r)', KnowsDoc(r)', Posting(r)'
  PROVE  Orderly'
<1>1. /\ req' \in [Requests -> Askings]
      /\ \A q \in Requests \ {r} : req'[q] = req[q]
  BY Becomes DEF Orderly, Went
<1>2. Typed'
  BY <1>1 DEF Orderly, Typed, Went, db
<1>3. Exclusive'
  BY <1>1, ExclusiveStays DEF Orderly, Went
<1>4. ASSUME NEW q \in Requests, q # r
      PROVE  Shaped(q)' /\ HasRow(q)' /\ KnowsDoc(q)' /\ Posting(q)'
  <2>1. Shaped(q) /\ HasRow(q) /\ KnowsDoc(q) /\ Posting(q) /\ KnowsDoc(r)
    BY DEF Orderly
  <2>2. req[q].kind = "open" => req'[r].doc # req[q].doc
    BY <1>1, <1>4, <2>1 DEF KnowsDoc, Went
  <2>3. UNCHANGED <<supply, waste, count>>
    BY DEF Went, db
  <2>4. QED
    BY <1>1, <1>4, <2>1, <2>2, <2>3, OthersStay
<1>5. QED
  BY <1>2, <1>3, <1>4 DEF Orderly

\* A request ends without a word.
LEMMA Ending ==
  ASSUME Orderly, NEW r \in Requests, Done(r), UNCHANGED db
  PROVE  Orderly'
<1>1. /\ req' \in [Requests -> Askings] /\ req'[r] = Idle
      /\ \A q \in Requests \ {r} : req'[q] = req[q]
  BY Becomes, IdleIs DEF Orderly, Done
<1>2. Typed'
  BY <1>1 DEF Orderly, Typed, db
<1>3. Exclusive'
  BY <1>1, IdleIs, ExclusiveStays DEF Orderly
<1>4. ASSUME NEW q \in Requests, q # r
      PROVE  Shaped(q)' /\ HasRow(q)' /\ KnowsDoc(q)' /\ Posting(q)'
  <2>1. Shaped(q) /\ HasRow(q) /\ KnowsDoc(q) /\ Posting(q)
    BY DEF Orderly
  <2>2. req[q].kind = "open" => req'[r].doc # req[q].doc
    BY <1>1, <2>1, IdleIs, InventoryAssumption DEF Shaped, CountKinds
  <2>3. UNCHANGED <<supply, waste, count>>
    BY DEF db
  <2>4. QED
    BY <1>1, <1>4, <2>1, <2>2, <2>3, OthersStay
<1>5. Shaped(r)' /\ HasRow(r)' /\ KnowsDoc(r)' /\ Posting(r)'
  <2>1. IsFiniteSet({})
    BY FS_EmptySet
  <2>2. QED
    BY <1>1, <2>1, IdleIs, InventoryAssumption
       DEF Shaped, HasRow, KnowsDoc, Posting, SupplyKinds, WasteKinds, CountKinds
<1>6. QED
  BY <1>2, <1>3, <1>4, <1>5 DEF Orderly

LEMMA RefuseKeepsOrder ==
  ASSUME Orderly, NEW r \in Requests, Refuse(r)
  PROVE  Orderly'
BY Ending DEF Refuse

-----------------------------------------------------------------------------
(* The ledger. *)

LEMMA GreatestNumber ==
  ASSUME NEW L \in SUBSET Movements, IsFiniteSet(L)
  PROVE  /\ Max({0} \cup {m.n : m \in L}) \in {0} \cup {m.n : m \in L}
         /\ Max({0} \cup {m.n : m \in L}) \in Nat
         /\ \A k \in L : k.n <= Max({0} \cup {m.n : m \in L})
<1> DEFINE B == {0} \cup {m.n : m \in L}
<1>1. IsFiniteSet({m.n : m \in L})
  <2> DEFINE f == [m \in L |-> m.n]
  <2>1. IsFiniteSet({f[m] : m \in L})
    <3> HIDE DEF f
    <3> QED
      BY ImageIsFinite
  <2>2. {f[m] : m \in L} = {m.n : m \in L}
    OBVIOUS
  <2>3. QED
    BY <2>1, <2>2
<1>2. IsFiniteSet(B) /\ B \in SUBSET Nat /\ B # {}
  <2>1. IsFiniteSet({m.n : m \in L} \cup {0})
    BY <1>1, FS_AddElement
  <2>2. B = {m.n : m \in L} \cup {0}
    OBVIOUS
  <2>3. \A m \in L : m.n \in Nat
    BY DEF Movements
  <2>4. QED
    BY <2>1, <2>2, <2>3
<1>3. \E n \in B : \A m \in B : m <= n
  <2> HIDE DEF B
  <2> QED
    BY <1>2, GreatestExists
<1>4. \E n \in B : \A m \in B : n >= m
  BY <1>2, <1>3
<1>5. Max(B) \in B /\ \A m \in B : Max(B) >= m
  BY <1>4 DEF Max
<1>6. QED
  BY <1>2, <1>5

LEMMA LastCommitIs ==
  ASSUME Typed
  PROVE  /\ LastCommit \in Nat /\ \A m \in ledger : m.n <= LastCommit
         /\ LastCommit = 0 \/ \E m \in ledger : m.n = LastCommit
BY GreatestNumber DEF Typed, LastCommit

\* What posting adds, with the number of its commit.
LEMMA PostAdds ==
  ASSUME Typed, NEW ms \in SUBSET Unnumbered, IsFiniteSet(ms), Post(ms)
  PROVE  /\ ledger' \in SUBSET Movements /\ IsFiniteSet(ledger')
         /\ ledger' = ledger \cup {Number(m) : m \in ms}
         /\ \A m \in ms : /\ Number(m) \in Movements
                          /\ Number(m).n = LastCommit + 1
                          /\ Number(m).kind = m.kind /\ Number(m).ing = m.ing
                          /\ Number(m).qty = m.qty /\ Number(m).cause = m.cause
<1>1. LastCommit + 1 \in Nat
  BY LastCommitIs
<1>2. \A m \in ms : /\ Number(m) \in Movements
                    /\ Number(m).n = LastCommit + 1
                    /\ Number(m).kind = m.kind /\ Number(m).ing = m.ing
                    /\ Number(m).qty = m.qty /\ Number(m).cause = m.cause
  <2> DEFINE last == LastCommit
  <2>1. last + 1 \in Nat
    BY <1>1
  <2> HIDE DEF last
  <2>2. \A m \in Unnumbered :
          /\ [n |-> last + 1, kind |-> m.kind, ing |-> m.ing, qty |-> m.qty,
              cause |-> m.cause] \in Movements
    BY <2>1 DEF Unnumbered, Movements
  <2>3. QED
    BY <2>2 DEF Number, last
<1>3. IsFiniteSet({Number(m) : m \in ms})
  <2> DEFINE f == [m \in ms |-> Number(m)]
  <2>1. IsFiniteSet({f[m] : m \in ms})
    <3> HIDE DEF f
    <3> QED
      BY ImageIsFinite
  <2>2. {f[m] : m \in ms} = {Number(m) : m \in ms}
    OBVIOUS
  <2>3. QED
    BY <2>1, <2>2
<1>4. ledger' = ledger \cup {Number(m) : m \in ms}
  BY DEF Post
<1>5. IsFiniteSet(ledger')
  BY <1>3, <1>4, FS_Union DEF Typed
<1>6. QED
  BY <1>2, <1>4, <1>5 DEF Typed

\* One movement alone.
LEMMA MovementIs ==
  ASSUME NEW kind \in Causes, NEW i \in Ingredients, NEW qty \in Int,
         NEW cause \in Docs \cup {None}
  PROVE  /\ Movement(kind, i, qty, cause) \in Unnumbered
         /\ {Movement(kind, i, qty, cause)} \in SUBSET Unnumbered
         /\ IsFiniteSet({Movement(kind, i, qty, cause)})
         /\ Movement(kind, i, qty, cause).kind = kind
         /\ Movement(kind, i, qty, cause).ing = i
         /\ Movement(kind, i, qty, cause).qty = qty
         /\ Movement(kind, i, qty, cause).cause = cause
<1>1. \A x : IsFiniteSet({x})
  BY FS_Singleton
<1>2. IsFiniteSet({Movement(kind, i, qty, cause)})
  BY <1>1
<1>3. QED
  BY <1>2 DEF Movement, Unnumbered

-----------------------------------------------------------------------------
(* Commits. *)

\* A transaction that ends, whatever it has written, if it spares what the
\* others know of their documents.
LEMMA Committing ==
  ASSUME Orderly, NEW r \in Requests, Done(r),
         ledger' \in SUBSET Movements /\ IsFiniteSet(ledger'),
         cost' \in [Ingredients -> Int], costs' \in [Ingredients -> SUBSET Nat],
         supply' \in [Supplies -> Orders], waste' \in [Wastes -> Losses],
         \A w \in Wastes : waste'[w].status # "none" => waste'[w].ing \in Ingredients,
         count' \in [Counts -> Sheets],
         \A q \in Requests \ {r} : req'[q] = req[q] => KnowsDoc(q)'
  PROVE  Orderly'
<1>1. /\ req' \in [Requests -> Askings] /\ req'[r] = Idle
      /\ \A q \in Requests \ {r} : req'[q] = req[q]
  BY Becomes, IdleIs DEF Orderly, Done
<1>2. Typed'
  BY <1>1 DEF Typed
<1>3. Exclusive'
  BY <1>1, IdleIs, ExclusiveStays DEF Orderly
<1>4. ASSUME NEW q \in Requests, q # r
      PROVE  Shaped(q)' /\ HasRow(q)' /\ KnowsDoc(q)' /\ Posting(q)'
  <2>1. Shaped(q) /\ HasRow(q) /\ Posting(q) /\ req'[q] = req[q]
    BY <1>1, <1>4 DEF Orderly
  <2>2. Shaped(q)' /\ HasRow(q)' /\ Posting(q)'
    BY <2>1 DEF Shaped, HasRow, Posting
  <2>3. KnowsDoc(q)'
    BY <1>4, <2>1
  <2>4. QED
    BY <2>2, <2>3
<1>5. Shaped(r)' /\ HasRow(r)' /\ KnowsDoc(r)' /\ Posting(r)'
  <2>1. IsFiniteSet({})
    BY FS_EmptySet
  <2>2. QED
    BY <1>1, <2>1, IdleIs, InventoryAssumption
       DEF Shaped, HasRow, KnowsDoc, Posting, SupplyKinds, WasteKinds, CountKinds
<1>6. QED
  BY <1>2, <1>3, <1>4, <1>5 DEF Orderly

\* Whoever has its document is the only one to have it.
LEMMA OneHasIt ==
  ASSUME Orderly, NEW r \in Requests, NEW q \in Requests, r # q,
         req[r].doc \in req[r].held, req[q].doc \in req[q].held
  PROVE  req[r].doc # req[q].doc
BY DEF Orderly, Exclusive

LEMMA SparesSupplies ==
  ASSUME Orderly, NEW r \in Requests, NEW q \in Requests \ {r},
         Done(r), req'[q] = req[q],
         req[r].kind \in SupplyKinds \/ UNCHANGED supply,
         req[r].step # "row",
         \A s \in Supplies \ {req[r].doc} : supply'[s] = supply[s],
         UNCHANGED <<waste, count>>
  PROVE  KnowsDoc(q)'
<1>1. /\ Shaped(r) /\ HasRow(r)
      /\ Shaped(q) /\ HasRow(q) /\ KnowsDoc(q)
  BY DEF Orderly
<1>2. /\ req'[r] = Idle /\ \A p \in Requests \ {r} : req'[p] = req[p]
  BY Becomes, IdleIs DEF Orderly, Done
<1>3. req[q].kind \in SupplyKinds /\ req[q].step # "row"
        => supply'[req[q].doc].status \in Receivable
  <2>1. SUFFICES ASSUME req[q].kind \in SupplyKinds, req[q].step # "row"
                 PROVE  supply'[req[q].doc].status \in Receivable
    OBVIOUS
  <2>2. supply[req[q].doc].status \in Receivable /\ req[q].doc \in req[q].held
    BY <1>1, <2>1 DEF KnowsDoc, HasRow
  <2>3. CASE UNCHANGED supply
    BY <2>2, <2>3
  <2>4. CASE req[r].kind \in SupplyKinds
    <3>1. req[r].doc \in req[r].held
      BY <1>1, <2>4 DEF HasRow
    <3>2. req[q].doc # req[r].doc /\ req[q].doc \in Supplies
      BY <1>1, <2>1, <2>2, <3>1, OneHasIt DEF Shaped
    <3>3. QED
      BY <2>2, <3>2
  <2>5. QED
    BY <2>3, <2>4
<1>4. req[q].kind = "open" =>
        \A p \in Requests \ {q} : req'[p].doc # req[q].doc
  <2>1. req[q].kind = "open" => req[q].doc # None
    BY <1>1, InventoryAssumption DEF Shaped, CountKinds
  <2>2. QED
    BY <1>1, <1>2, <2>1, IdleIs DEF KnowsDoc
<1>5. QED
  BY <1>1, <1>3, <1>4 DEF KnowsDoc, Drafts

LEMMA SparesWastes ==
  ASSUME Orderly, NEW r \in Requests, NEW q \in Requests \ {r},
         Done(r), req'[q] = req[q], req[r].kind \in WasteKinds,
         req[r].step # "row",
         \A w \in Wastes \ {req[r].doc} : waste'[w] = waste[w],
         UNCHANGED <<supply, count>>
  PROVE  KnowsDoc(q)'
<1>1. /\ Shaped(r) /\ HasRow(r)
      /\ Shaped(q) /\ HasRow(q) /\ KnowsDoc(q)
  BY DEF Orderly
<1>2. /\ req'[r] = Idle /\ \A p \in Requests \ {r} : req'[p] = req[p]
  BY Becomes, IdleIs DEF Orderly, Done
<1>3. req[q].kind \in WasteKinds /\ req[q].step # "row"
        => waste'[req[q].doc].status = "pending"
  <2>1. SUFFICES ASSUME req[q].kind \in WasteKinds, req[q].step # "row"
                 PROVE  waste'[req[q].doc].status = "pending"
    OBVIOUS
  <2>2. waste[req[q].doc].status = "pending" /\ req[q].doc \in req[q].held
    BY <1>1, <2>1 DEF KnowsDoc, HasRow
  <2>3. req[r].doc \in req[r].held
    BY <1>1 DEF HasRow
  <2>4. req[q].doc # req[r].doc /\ req[q].doc \in Wastes
    BY <1>1, <2>1, <2>2, <2>3, OneHasIt DEF Shaped
  <2>5. QED
    BY <2>2, <2>4
<1>4. req[q].kind = "open" =>
        \A p \in Requests \ {q} : req'[p].doc # req[q].doc
  <2>1. req[q].kind = "open" => req[q].doc # None
    BY <1>1, InventoryAssumption DEF Shaped, CountKinds
  <2>2. QED
    BY <1>1, <1>2, <2>1, IdleIs DEF KnowsDoc
<1>5. QED
  BY <1>1, <1>3, <1>4 DEF KnowsDoc, Drafts

\* A count in course is still one, or is over; or is opened, while no other is.
LEMMA SparesCounts ==
  ASSUME Orderly, NEW r \in Requests, NEW q \in Requests \ {r},
         Done(r), req'[q] = req[q], req[r].kind \in CountKinds,
         req[r].step # "row", req[r].kind = "open" => req[r].step = "commit",
         \A c \in Counts \ {req[r].doc} : count'[c] = count[c],
         count'[req[r].doc].status # "none",
         UNCHANGED <<supply, waste>>
  PROVE  KnowsDoc(q)'
<1>1. /\ Shaped(r) /\ HasRow(r) /\ KnowsDoc(r)
      /\ Shaped(q) /\ HasRow(q) /\ KnowsDoc(q)
  BY DEF Orderly
<1>2. /\ req'[r] = Idle /\ \A p \in Requests \ {r} : req'[p] = req[p]
  BY Becomes, IdleIs DEF Orderly, Done
<1>3. ASSUME req[q].kind \in CountKinds \ {"open"}
      PROVE  /\ count'[req[q].doc].status # "none"
             /\ req[q].step # "row" => count'[req[q].doc].status = "draft"
  <2>1. req[q].doc \in Counts /\ count[req[q].doc].status # "none"
    BY <1>1, <1>3 DEF Shaped, KnowsDoc
  <2>2. count'[req[q].doc].status # "none"
    BY <2>1
  <2>3. ASSUME req[q].step # "row"
        PROVE  req[q].doc # req[r].doc /\ count[req[q].doc].status = "draft"
    <3>1. req[q].doc \in req[q].held /\ count[req[q].doc].status = "draft"
      BY <1>1, <1>3, <2>3 DEF HasRow, KnowsDoc
    <3>2. CASE req[r].kind = "open"
      BY <1>1, <3>1, <3>2 DEF KnowsDoc
    <3>3. CASE req[r].kind # "open"
      <4>1. req[r].doc \in req[r].held
        BY <1>1, <3>3 DEF HasRow
      <4>2. QED
        BY <3>1, <4>1, OneHasIt
    <3>4. QED
      BY <3>2, <3>3
  <2>4. QED
    BY <2>1, <2>2, <2>3
<1>4. ASSUME req[q].kind = "open"
      PROVE  /\ count'[req[q].doc].status = "none"
             /\ \A p \in Requests \ {q} : req'[p].doc # req[q].doc
             /\ req[q].step = "commit" => Drafts' = {}
  <2>1. req[q].doc \in Counts /\ req[q].doc # None
    BY <1>1, <1>4, InventoryAssumption DEF Shaped, CountKinds
  <2>2. req[q].doc # req[r].doc /\ count[req[q].doc].status = "none"
    BY <1>1, <1>4 DEF KnowsDoc
  <2>3. ASSUME req[q].step = "commit"
        PROVE  Drafts' = {}
    <3>1. Drafts = {} /\ OneDraft \in req[q].held
      BY <1>1, <1>4, <2>3 DEF KnowsDoc, HasRow
    <3>2. req[r].kind # "open"
      <4>1. ~(OneDraft \in req[r].held)
        BY <3>1 DEF Orderly, Exclusive
      <4>2. QED
        BY <1>1, <4>1 DEF HasRow
    <3>3. count[req[r].doc].status = "draft" /\ req[r].doc \in Counts
      BY <1>1, <3>2 DEF KnowsDoc, Shaped
    <3>4. QED
      BY <3>1, <3>3 DEF Drafts
  <2>4. QED
    BY <1>1, <1>2, <1>4, <2>1, <2>2, <2>3, IdleIs DEF KnowsDoc
<1>5. QED
  BY <1>1, <1>3, <1>4 DEF KnowsDoc

-----------------------------------------------------------------------------
(* Every step keeps requests in order: requests that arrive. *)

\* An idle request asks for something that nobody is opening.
Asked(r) ==
  /\ req' = [req EXCEPT ![r] = req'[r]] /\ req'[r] \in Askings /\ UNCHANGED db
  /\ req[r] = Idle /\ req'[r].held = {} /\ req'[r].posts = {}
  /\ req'[r].left = {} /\ req'[r].newCost = <<>>

LEMMA Asking ==
  ASSUME Orderly, NEW r \in Requests, Asked(r),
         \A q \in Requests \ {r} :
           req[q].kind = "open" => req[q].doc # req'[r].doc,
         Shaped(r)', HasRow(r)', KnowsDoc(r)'
  PROVE  Orderly'
<1>1. /\ req' \in [Requests -> Askings]
      /\ \A q \in Requests \ {r} : req'[q] = req[q]
  BY Becomes DEF Orderly, Asked
<1>2. Typed'
  BY <1>1 DEF Orderly, Typed, Asked, db
<1>3. Exclusive'
  BY <1>1, ExclusiveStays DEF Orderly, Asked
<1>4. ASSUME NEW q \in Requests, q # r
      PROVE  Shaped(q)' /\ HasRow(q)' /\ KnowsDoc(q)' /\ Posting(q)'
  <2>1. Shaped(q) /\ HasRow(q) /\ KnowsDoc(q) /\ Posting(q)
    BY DEF Orderly
  <2>2. req[q].kind = "open" => req'[r].doc # req[q].doc
    BY <1>1, <1>4
  <2>3. UNCHANGED <<supply, waste, count>>
    BY DEF Asked, db
  <2>4. QED
    BY <1>1, <1>4, <2>1, <2>2, <2>3, OthersStay
<1>5. Posting(r)'
  BY FS_EmptySet DEF Posting, Asked
<1>6. QED
  BY <1>2, <1>3, <1>4, <1>5 DEF Orderly

\* What a request asks for, field by field.
LEMMA AskIs ==
  ASSUME Orderly, NEW r \in Requests, NEW kind \in Kinds, NEW step \in Steps,
         NEW doc \in Docs \cup {None}, NEW i \in Ingredients \cup {None},
         NEW q \in Nat, NEW p \in Nat, Ask(r, kind, step, doc, i, q, p)
  PROVE  /\ Asked(r)
         /\ req'[r].kind = kind /\ req'[r].step = step /\ req'[r].doc = doc
         /\ req'[r].ing = i /\ req'[r].qty = q
         /\ \A u \in Requests \ {r} : req'[u] = req[u]
<1> PICK n : n = [Idle EXCEPT !.kind = kind, !.step = step, !.doc = doc,
                              !.ing = i, !.qty = q, !.price = p]
  OBVIOUS
<1>1. n \in Askings
  BY IdleIs DEF Askings
<1>2. /\ n.kind = kind /\ n.step = step /\ n.doc = doc /\ n.ing = i
      /\ n.qty = q /\ n.held = {} /\ n.posts = {} /\ n.left = {}
      /\ n.newCost = <<>>
  BY DEF Idle
<1>3. req[r] = Idle /\ req' = [req EXCEPT ![r] = n] /\ UNCHANGED db
  BY DEF Ask
<1>4. req'[r] = n /\ \A u \in Requests \ {r} : req'[u] = req[u]
  BY <1>1, <1>3, Becomes DEF Orderly
<1>5. QED
  BY <1>1, <1>2, <1>3, <1>4 DEF Asked

LEMMA AskStockKeepsOrder ==
  ASSUME Orderly, NEW r \in Requests, AskStock(r)
  PROVE  Orderly'
<1>1. PICK i \in Ingredients :
        \/ \E q \in Quantities, p \in Prices : Ask(r, "buy", "look", None, i, q, p)
        \/ \E k \in Quantities : Ask(r, "recount", "weigh", None, i, k, 0)
  BY DEF AskStock, Touched
<1>2. /\ Quantities \subseteq Nat /\ Prices \subseteq Nat
      /\ "buy" \in Kinds /\ "look" \in Steps
      /\ "recount" \in Kinds /\ "weigh" \in Steps
      /\ None \in Docs \cup {None} /\ i \in Ingredients \cup {None}
  BY InventoryAssumption DEF Kinds, Steps
<1>3. /\ Asked(r) /\ req'[r].doc = None /\ req'[r].ing = i
      /\ \/ req'[r].kind = "buy" /\ req'[r].step = "look"
         \/ req'[r].kind = "recount" /\ req'[r].step = "weigh"
  <2>1. ASSUME NEW q \in Quantities, NEW p \in Prices,
               Ask(r, "buy", "look", None, i, q, p)
        PROVE  /\ Asked(r) /\ req'[r].doc = None /\ req'[r].ing = i
               /\ req'[r].kind = "buy" /\ req'[r].step = "look"
    <3>1. q \in Nat /\ p \in Nat
      BY <1>2
    <3>2. QED
      BY <1>2, <2>1, <3>1, AskIs
  <2>2. ASSUME NEW k \in Quantities, Ask(r, "recount", "weigh", None, i, k, 0)
        PROVE  /\ Asked(r) /\ req'[r].doc = None /\ req'[r].ing = i
               /\ req'[r].kind = "recount" /\ req'[r].step = "weigh"
    <3>1. k \in Nat /\ 0 \in Nat
      BY <1>2
    <3>2. QED
      BY <1>2, <2>2, <3>1, AskIs
  <2>3. QED
    BY <1>1, <2>1, <2>2
<1>4. \A q \in Requests \ {r} :
        req[q].kind = "open" => req[q].doc # req'[r].doc
  BY <1>3, InventoryAssumption DEF Orderly, Shaped, CountKinds
<1>5. Shaped(r)' /\ HasRow(r)' /\ KnowsDoc(r)'
  BY <1>3 DEF Asked, Shaped, HasRow, KnowsDoc, SupplyKinds, WasteKinds, CountKinds
<1>6. QED
  BY <1>3, <1>4, <1>5, Asking

LEMMA AskSupplyKeepsOrder ==
  ASSUME Orderly, NEW r \in Requests, AskSupply(r)
  PROVE  Orderly'
<1>1. PICK s \in Supplies, kind \in SupplyKinds :
        Ask(r, kind, "row", s, None, 0, 0)
  BY DEF AskSupply
<1>2. /\ kind \in Kinds /\ "row" \in Steps /\ s \in Docs \cup {None}
      /\ None \in Ingredients \cup {None} /\ 0 \in Nat
  BY DEF Kinds, Steps, Docs
<1>3. /\ Asked(r) /\ req'[r].doc = s /\ req'[r].ing = None
      /\ req'[r].kind = kind /\ req'[r].step = "row"
  BY <1>1, <1>2, AskIs
<1>4. \A q \in Requests \ {r} :
        req[q].kind = "open" => req[q].doc # req'[r].doc
  BY <1>3, InventoryAssumption DEF Orderly, Shaped, CountKinds
<1>5. Shaped(r)' /\ HasRow(r)' /\ KnowsDoc(r)'
  BY <1>3 DEF Asked, Shaped, HasRow, KnowsDoc, SupplyKinds, WasteKinds, CountKinds
<1>6. QED
  BY <1>3, <1>4, <1>5, Asking

LEMMA AskWasteKeepsOrder ==
  ASSUME Orderly, NEW r \in Requests, AskWaste(r)
  PROVE  Orderly'
<1>1. PICK w \in Wastes, kind \in WasteKinds :
        Ask(r, kind, "row", w, None, 0, 0)
  BY DEF AskWaste
<1>2. /\ kind \in Kinds /\ "row" \in Steps /\ w \in Docs \cup {None}
      /\ None \in Ingredients \cup {None} /\ 0 \in Nat
  BY DEF Kinds, Steps, Docs
<1>3. /\ Asked(r) /\ req'[r].doc = w
      /\ req'[r].kind = kind /\ req'[r].step = "row"
  BY <1>1, <1>2, AskIs
<1>4. \A q \in Requests \ {r} :
        req[q].kind = "open" => req[q].doc # req'[r].doc
  BY <1>3, InventoryAssumption DEF Orderly, Shaped, CountKinds
<1>5. Shaped(r)' /\ HasRow(r)' /\ KnowsDoc(r)'
  BY <1>3 DEF Asked, Shaped, HasRow, KnowsDoc, SupplyKinds, WasteKinds, CountKinds
<1>6. QED
  BY <1>3, <1>4, <1>5, Asking

LEMMA AskCountKeepsOrder ==
  ASSUME Orderly, NEW r \in Requests, AskCount(r)
  PROVE  Orderly'
<1>1. PICK c \in Counts :
        \/ /\ count[c].status = "none"
           /\ \A q \in Requests : req[q].doc # c
           /\ Ask(r, "open", "glance", c, None, 0, 0)
        \/ /\ count[c].status # "none"
           /\ \/ \E kind \in {"close", "cancel"} : Ask(r, kind, "row", c, None, 0, 0)
              \/ \E i \in count[c].lines :
                   \/ Ask(r, "clear", "row", c, i, 0, 0)
                   \/ \E k \in Quantities : Ask(r, "load", "row", c, i, k, 0)
  BY DEF AskCount
<1>2. /\ Quantities \subseteq Nat /\ 0 \in Nat /\ c \in Docs \cup {None}
      /\ count[c].lines \subseteq Ingredients
      /\ {"open", "close", "cancel", "clear", "load"} \subseteq Kinds
      /\ "row" \in Steps /\ "glance" \in Steps
      /\ None \in Ingredients \cup {None}
      /\ Ingredients \subseteq Ingredients \cup {None}
  BY InventoryAssumption DEF Docs, Orderly, Typed, Sheets, Kinds, CountKinds, Steps
<1> DEFINE Opens == /\ req'[r].kind = "open" /\ req'[r].step = "glance"
                    /\ count[c].status = "none" /\ \A q \in Requests : req[q].doc # c
           Works == /\ req'[r].kind \in {"close", "cancel", "clear", "load"}
                    /\ req'[r].step = "row" /\ count[c].status # "none"
                    /\ req'[r].kind \in {"clear", "load"}
                         => req'[r].ing \in Ingredients
           Goal == /\ Asked(r) /\ req'[r].doc = c /\ (Opens \/ Works)
                   /\ \A u \in Requests \ {r} : req'[u] = req[u]
<1>3. Goal
  <2>1. ASSUME count[c].status = "none", \A q \in Requests : req[q].doc # c,
               Ask(r, "open", "glance", c, None, 0, 0)
        PROVE  Goal
    <3>1. "open" \in Kinds
      BY <1>2
    <3>2. /\ Asked(r) /\ req'[r].doc = c
          /\ req'[r].kind = "open" /\ req'[r].step = "glance"
          /\ \A u \in Requests \ {r} : req'[u] = req[u]
      BY <1>2, <2>1, <3>1, AskIs
    <3>3. QED
      BY <2>1, <3>2
  <2>2. ASSUME count[c].status # "none", NEW kind \in {"close", "cancel"},
               Ask(r, kind, "row", c, None, 0, 0)
        PROVE  Goal
    <3>1. kind \in Kinds
      BY <1>2
    <3>2. /\ Asked(r) /\ req'[r].doc = c
          /\ req'[r].kind = kind /\ req'[r].step = "row"
          /\ \A u \in Requests \ {r} : req'[u] = req[u]
      BY <1>2, <2>2, <3>1, AskIs
    <3>3. QED
      BY <2>2, <3>2
  <2>3. ASSUME count[c].status # "none", NEW i \in count[c].lines,
               NEW kind \in {"clear", "load"}, NEW k \in Nat,
               Ask(r, kind, "row", c, i, k, 0)
        PROVE  Goal
    <3>1. kind \in Kinds /\ i \in Ingredients /\ i \in Ingredients \cup {None}
      BY <1>2
    <3>2. /\ Asked(r) /\ req'[r].doc = c /\ req'[r].ing = i
          /\ req'[r].kind = kind /\ req'[r].step = "row"
          /\ \A u \in Requests \ {r} : req'[u] = req[u]
      BY <1>2, <2>3, <3>1, AskIs
    <3>3. QED
      BY <2>3, <3>1, <3>2
  <2>4. QED
    <3> HIDE DEF Goal
    <3>1. \A k \in Quantities : k \in Nat
      BY <1>2
    <3>2. QED
      BY <1>1, <1>2, <2>1, <2>2, <2>3, <3>1
<1>4. \A q \in Requests \ {r} :
        req[q].kind = "open" => req[q].doc # req'[r].doc
  BY <1>3 DEF Orderly, KnowsDoc
<1>5. UNCHANGED <<count, supply, waste>>
  BY <1>3 DEF Asked, db
<1>6. Shaped(r)' /\ HasRow(r)' /\ KnowsDoc(r)'
  BY <1>3, <1>5 DEF Asked, Shaped, HasRow, KnowsDoc, SupplyKinds, WasteKinds,
                    CountKinds
<1>7. Asked(r)
  BY <1>3
<1>8. QED
  BY <1>4, <1>6, <1>7, Asking

-----------------------------------------------------------------------------
(* ... requests that go on. *)

LEMMA WantedAreRows ==
  ASSUME NEW r \in Requests, Shaped(r)
  PROVE  Wanted(r) \subseteq Docs \cup Ingredients \cup {OneDraft}
<1>1. req[r].step = "row" => req[r].doc \in Docs
  BY DEF Shaped, Docs, SupplyKinds, WasteKinds, CountKinds, Idle
<1>2. req[r].step = "save" => req[r].ing \in Ingredients
  BY DEF Shaped
<1>3. QED
  BY <1>1, <1>2 DEF Wanted, Rows

\* A statement made: the fields of the request are those of n, its rows more.
LEMMA ProceedIs ==
  ASSUME Orderly, NEW r \in Requests, NEW n \in Askings,
         n.held = req[r].held, n.doc = req[r].doc, Proceed(r, n)
  PROVE  /\ Went(r) /\ Granted(r)
         /\ req'[r].held = req[r].held \cup Wanted(r)
         /\ req'[r].kind = n.kind /\ req'[r].step = n.step
         /\ req'[r].doc = n.doc /\ req'[r].ing = n.ing /\ req'[r].qty = n.qty
         /\ req'[r].price = n.price /\ req'[r].left = n.left
         /\ req'[r].readCost = n.readCost /\ req'[r].stock = n.stock
         /\ req'[r].at = n.at /\ req'[r].posts = n.posts
         /\ req'[r].newCost = n.newCost
         /\ \A q \in Requests \ {r} : req'[q] = req[q]
<1> PICK m : m = [n EXCEPT !.held = @ \cup Wanted(r)]
  OBVIOUS
<1>1. m \in Askings /\ m.held = req[r].held \cup Wanted(r)
  <2>1. Wanted(r) \subseteq Docs \cup Ingredients \cup {OneDraft}
    BY WantedAreRows DEF Orderly
  <2>2. QED
    BY <2>1 DEF Askings
<1>2. /\ m.kind = n.kind /\ m.step = n.step /\ m.doc = n.doc /\ m.ing = n.ing
      /\ m.qty = n.qty /\ m.price = n.price /\ m.left = n.left
      /\ m.readCost = n.readCost /\ m.stock = n.stock /\ m.at = n.at
      /\ m.posts = n.posts /\ m.newCost = n.newCost
  BY DEF Askings
<1>3. Granted(r) /\ req' = [req EXCEPT ![r] = m] /\ UNCHANGED db
  BY DEF Proceed
<1>4. req'[r] = m /\ \A q \in Requests \ {r} : req'[q] = req[q]
  BY <1>1, <1>3, Becomes DEF Orderly
<1>5. QED
  BY <1>1, <1>2, <1>3, <1>4 DEF Went

LEMMA LookKeepsOrder ==
  ASSUME Orderly, NEW r \in Requests, Look(r)
  PROVE  Orderly'
<1>1. /\ req[r].kind \in {"buy", "receive"} /\ req[r].step = "look"
      /\ req[r] \in Askings /\ req[r].ing \in Ingredients
      /\ Shaped(r) /\ HasRow(r) /\ KnowsDoc(r) /\ Posting(r)
  BY DEF Look, At, Orderly, Typed, Shaped
<1> PICK n : n = [req[r] EXCEPT !.step = "weigh", !.readCost = cost[req[r].ing]]
  OBVIOUS
<1>2. /\ n \in Askings
      /\ n.held = req[r].held /\ n.doc = req[r].doc
      /\ n.kind = req[r].kind /\ n.step = "weigh" /\ n.ing = req[r].ing
      /\ n.qty = req[r].qty /\ n.left = req[r].left /\ n.posts = req[r].posts
  BY <1>1 DEF Askings, Steps, Orderly, Typed
<1>3. Proceed(r, n)
  BY DEF Look
<1>4. /\ Went(r)
      /\ req'[r].held = req[r].held \cup Wanted(r) /\ req'[r].kind = req[r].kind
      /\ req'[r].step = "weigh" /\ req'[r].ing = req[r].ing
      /\ req'[r].doc = req[r].doc /\ req'[r].qty = req[r].qty
      /\ req'[r].left = req[r].left /\ req'[r].posts = req[r].posts
  BY <1>2, <1>3, ProceedIs
<1>5. Shaped(r)' /\ HasRow(r)' /\ KnowsDoc(r)' /\ Posting(r)'
  BY <1>1, <1>4 DEF Went, db, Shaped, HasRow, KnowsDoc, Posting, SupplyKinds,
                    WasteKinds, CountKinds
<1>6. QED
  BY <1>4, <1>5, GoingOn

-----------------------------------------------------------------------------
(* What movements add up to. *)

LEMMA TotalIs ==
  ASSUME NEW S, IsFiniteSet(S), \A m \in S : m.qty \in Int
  PROVE  /\ Total(S) \in Int
         /\ \A f : (\A m \in S : f[m] = m.qty) => Total(S) = SumOn(f, S)
<1> DEFINE g == [m \in S |-> m.qty]
<1>1. Total(S) = SumOn(g, S)
  <2>1. \A h : SumOf(h) = SumOn(h, DOMAIN h)
    BY FoldIsSum DEF SumOf
  <2>2. QED
    BY <2>1 DEF Total
<1>2. \A m \in S : g[m] = m.qty /\ g[m] \in Int
  OBVIOUS
<1> HIDE DEF g
<1>3. SumOn(g, S) \in Int
  BY <1>2, SumIsInt
<1>4. ASSUME NEW f, \A m \in S : f[m] = m.qty
      PROVE  SumOn(f, S) = SumOn(g, S)
  BY <1>2, <1>4, SumsAgree
<1>5. QED
  BY <1>1, <1>3, <1>4

LEMMA TotalOfParts ==
  ASSUME NEW S, IsFiniteSet(S), NEW T, IsFiniteSet(T), S \cap T = {},
         \A m \in S \cup T : m.qty \in Int
  PROVE  Total(S \cup T) = Total(S) + Total(T)
<1> PICK f : f = [m \in S \cup T |-> m.qty]
  OBVIOUS
<1>1. \A m \in S \cup T : f[m] = m.qty /\ f[m] \in Int
  OBVIOUS
<1>2. IsFiniteSet(S \cup T)
  BY FS_Union
<1>3. /\ Total(S \cup T) = SumOn(f, S \cup T)
      /\ Total(S) = SumOn(f, S) /\ Total(T) = SumOn(f, T)
  BY <1>1, <1>2, TotalIs
<1>4. QED
  BY <1>1, <1>3, SumOfParts

LEMMA TotalOfFew ==
  /\ Total({}) = 0
  /\ \A m : m.qty \in Int => Total({m}) = m.qty
<1>1. IsFiniteSet({}) /\ \A m : IsFiniteSet({m})
  BY FS_EmptySet, FS_Singleton
<1>2. Total({}) = 0
  <2> PICK f : f = [m \in {} |-> 0]
    OBVIOUS
  <2>1. Total({}) = SumOn(f, {})
    BY <1>1, TotalIs
  <2>2. QED
    BY <2>1, SumOfNothing
<1>3. ASSUME NEW m, m.qty \in Int
      PROVE  Total({m}) = m.qty
  <2> PICK f : f = [x \in {m} |-> m.qty]
    OBVIOUS
  <2>1. f[m] = m.qty /\ \A x \in {m} : f[x] = x.qty
    OBVIOUS
  <2>2. Total({m}) = SumOn(f, {m})
    BY <1>1, <1>3, <2>1, TotalIs
  <2>3. SumOn(f, {m}) = f[m] + SumOn(f, {m} \ {m})
    BY <1>1, <1>3, <2>1, SumTakesOut
  <2>4. SumOn(f, {m} \ {m}) = 0
    <3>1. {m} \ {m} = {}
      OBVIOUS
    <3>2. QED
      BY <3>1, SumOfNothing
  <2>5. QED
    BY <1>3, <2>1, <2>2, <2>3, <2>4
<1>4. QED
  BY <1>2, <1>3

LEMMA StockIsInt ==
  ASSUME Typed, NEW i
  PROVE  Stock(i) \in Int
<1>1. IsFiniteSet(MovementsOf(i)) /\ \A m \in MovementsOf(i) : m.qty \in Int
  BY FS_Subset DEF Typed, MovementsOf, Movements
<1>2. QED
  BY <1>1, TotalIs DEF Stock

LEMMA WeighKeepsOrder ==
  ASSUME Orderly, NEW r \in Requests, Weigh(r)
  PROVE  Orderly'
<1>1. /\ req[r].step = "weigh" /\ req[r] \in Askings /\ req[r].ing \in Ingredients
      /\ Shaped(r) /\ HasRow(r) /\ KnowsDoc(r) /\ Posting(r)
  BY DEF Weigh, Orderly, Typed, Shaped
<1>2. Stock(req[r].ing) \in Int /\ LastCommit \in Nat
  BY StockIsInt, LastCommitIs DEF Orderly
<1>3. PICK n \in Askings :
        /\ Proceed(r, n)
        /\ n.held = req[r].held /\ n.doc = req[r].doc
        /\ n.kind = req[r].kind /\ n.ing = req[r].ing
        /\ n.step \in {"save", "commit"}
        /\ n.step = "save" <=> req[r].kind \in {"buy", "receive"}
        /\ n.qty = req[r].qty /\ n.left = req[r].left /\ n.posts = req[r].posts
  <2> PICK n : n = [req[r] EXCEPT
         !.step = IF req[r].kind \in {"buy", "receive"} THEN "save" ELSE "commit",
         !.stock = Stock(req[r].ing),
         !.at = IF req[r].kind = "load" THEN LastCommit ELSE 0]
    OBVIOUS
  <2>1. /\ n \in Askings
        /\ n.held = req[r].held /\ n.doc = req[r].doc
        /\ n.kind = req[r].kind /\ n.ing = req[r].ing
        /\ n.step \in {"save", "commit"}
        /\ n.step = "save" <=> req[r].kind \in {"buy", "receive"}
        /\ n.qty = req[r].qty /\ n.left = req[r].left /\ n.posts = req[r].posts
    BY <1>1, <1>2 DEF Askings, Steps
  <2>2. Proceed(r, n)
    BY DEF Weigh
  <2>3. QED
    BY <2>1, <2>2
<1>4. /\ Went(r) /\ req'[r].kind = n.kind /\ req'[r].step = n.step
      /\ req'[r].held = req[r].held \cup Wanted(r)
      /\ req'[r].ing = n.ing /\ req'[r].doc = n.doc /\ req'[r].qty = n.qty
      /\ req'[r].left = n.left /\ req'[r].posts = n.posts
  BY <1>3, ProceedIs
<1>5. req[r].kind \in {"buy", "receive", "recount", "load"}
  BY <1>1 DEF Shaped, SupplyKinds, WasteKinds, CountKinds, Idle
<1>6. Shaped(r)'
  <2>1. CASE req[r].kind \in {"buy", "receive"}
    BY <1>1, <1>3, <1>4, <2>1 DEF Shaped, SupplyKinds, WasteKinds, CountKinds
  <2>2. CASE req[r].kind \in {"recount", "load"}
    BY <1>1, <1>3, <1>4, <2>2 DEF Shaped, SupplyKinds, WasteKinds, CountKinds
  <2>3. QED
    BY <1>5, <2>1, <2>2
<1>7. HasRow(r)'
  <2>1. req'[r].kind = req[r].kind /\ req'[r].doc = req[r].doc
    BY <1>3, <1>4
  <2>2. req[r].held \subseteq req'[r].held
    BY <1>4
  <2>3. QED
    BY <1>1, <1>5, <2>1, <2>2 DEF HasRow
<1>8. KnowsDoc(r)'
  <2>1. UNCHANGED <<supply, waste, count>> /\ req[r].kind # "open"
    BY <1>1, <1>4 DEF Went, db, Shaped
  <2>2. QED
    BY <1>1, <1>3, <1>4, <2>1 DEF KnowsDoc
<1>9. Posting(r)'
  BY <1>1, <1>3, <1>4 DEF Posting
<1>10. QED
  BY <1>4, <1>6, <1>7, <1>8, <1>9, GoingOn

\* The average of whole numbers is one.
LEMMA AverageIsInt ==
  ASSUME NEW before \in Int, NEW was \in Int, NEW q \in Nat, NEW p \in Nat
  PROVE  Average(before, was, q, p) \in Int
<1>1. CASE before <= 0
  BY <1>1 DEF Average
<1>2. CASE ~(before <= 0)
  <2>1. before + q \in Nat /\ before + q > 0
    BY <1>2
  <2>2. before * was + q * p \in Int
    OBVIOUS
  <2>3. \A a \in Int, d \in Nat : d > 0 => a \div d \in Int
    OBVIOUS
  <2>4. QED
    BY <1>2, <2>1, <2>2, <2>3 DEF Average
<1>3. QED
  BY <1>1, <1>2

\* A line done: its movement and its average are ready to be written.
Saved(r) ==
  LET me == req[r]
      i == me.ing
      average == Average(me.stock, me.readCost, me.qty, me.price)
  IN  /\ req'[r].kind = me.kind /\ req'[r].doc = me.doc /\ req'[r].qty = me.qty
      /\ req'[r].left = me.left /\ req'[r].ing = None
      /\ req'[r].step = IF me.left = {} THEN "commit" ELSE "line"
      /\ req'[r].posts = me.posts \cup {Movement("purchase", i, me.qty, me.doc)}
      /\ req'[r].newCost = [j \in (DOMAIN me.newCost) \cup {i} |->
                              IF j # i THEN me.newCost[j]
                              ELSE [old |-> me.readCost, new |-> average,
                                    price |-> me.price]]

LEMMA SaveIs ==
  ASSUME Orderly, NEW r \in Requests, Save(r)
  PROVE  /\ Went(r) /\ Saved(r)
         /\ req[r].kind \in {"buy", "receive"} /\ req[r].step = "save"
         /\ \A q \in Requests \ {r} : req'[q] = req[q]
<1>1. /\ req[r].step = "save" /\ req[r] \in Askings /\ req[r].ing \in Ingredients
      /\ req[r].kind \in {"buy", "receive"}
  BY DEF Save, Orderly, Typed, Shaped, SupplyKinds, WasteKinds, CountKinds, Idle
<1>2. PICK average \in Int :
        average = Average(req[r].stock, req[r].readCost, req[r].qty, req[r].price)
  BY <1>1, AverageIsInt DEF Askings
<1>3. PICK cs \in Costings :
        cs = [j \in (DOMAIN req[r].newCost) \cup {req[r].ing} |->
                IF j # req[r].ing THEN req[r].newCost[j]
                ELSE [old |-> req[r].readCost, new |-> average,
                      price |-> req[r].price]]
  <2>1. PICK D \in SUBSET Ingredients : req[r].newCost \in [D -> Averages]
    BY <1>1 DEF Askings, Costings
  <2>2. [old |-> req[r].readCost, new |-> average, price |-> req[r].price]
          \in Averages
    BY <1>1, <1>2 DEF Askings, Averages
  <2> DEFINE cs == [j \in (DOMAIN req[r].newCost) \cup {req[r].ing} |->
                IF j # req[r].ing THEN req[r].newCost[j]
                ELSE [old |-> req[r].readCost, new |-> average,
                      price |-> req[r].price]]
  <2>3. cs \in [D \cup {req[r].ing} -> Averages]
    BY <2>1, <2>2
  <2>4. D \cup {req[r].ing} \in SUBSET Ingredients
    BY <1>1, <2>1
  <2>5. cs \in Costings
    BY <2>3, <2>4 DEF Costings
  <2>6. QED
    BY <2>5
<1>4. PICK ps \in SUBSET Unnumbered :
        ps = req[r].posts \cup
               {Movement("purchase", req[r].ing, req[r].qty, req[r].doc)}
  <2>1. /\ req[r].qty \in Int /\ req[r].doc \in Docs \cup {None}
        /\ "purchase" \in Causes
    BY <1>1 DEF Askings, Causes
  <2>2. Movement("purchase", req[r].ing, req[r].qty, req[r].doc) \in Unnumbered
    BY <1>1, <2>1 DEF Movement, Unnumbered
  <2>3. req[r].posts \in SUBSET Unnumbered
    BY <1>1 DEF Askings
  <2>4. QED
    BY <2>2, <2>3
<1>5. PICK next \in Steps : next = IF req[r].left = {} THEN "commit" ELSE "line"
  BY DEF Steps
<1>6. PICK n \in Askings :
        /\ Proceed(r, n) \/ (req' = [req EXCEPT ![r] = n] /\ UNCHANGED db)
        /\ n.held = req[r].held /\ n.doc = req[r].doc /\ n.kind = req[r].kind
        /\ n.qty = req[r].qty /\ n.left = req[r].left /\ n.posts = ps
        /\ n.newCost = cs /\ n.ing = None /\ n.step = next
  <2> PICK n : n = [req[r] EXCEPT !.posts = ps, !.newCost = cs, !.ing = None,
                                  !.price = 0, !.readCost = 0, !.stock = 0,
                                  !.step = next]
    OBVIOUS
  <2>1. n \in Askings
    <3>1. /\ cs \in Costings /\ ps \in SUBSET Unnumbered /\ next \in Steps
          /\ None \in Ingredients \cup {None} /\ 0 \in Nat /\ 0 \in Int
      BY <1>3, <1>4, <1>5
    <3>2. QED
      BY <1>1, <3>1 DEF Askings
  <2>2. /\ n.held = req[r].held /\ n.doc = req[r].doc /\ n.kind = req[r].kind
        /\ n.qty = req[r].qty /\ n.left = req[r].left /\ n.posts = ps
        /\ n.newCost = cs /\ n.ing = None /\ n.step = next
    BY <1>1 DEF Askings
  <2>3. Proceed(r, n) \/ (req' = [req EXCEPT ![r] = n] /\ UNCHANGED db)
    BY <1>2, <1>3, <1>4, <1>5 DEF Save
  <2>4. QED
    BY <2>1, <2>2, <2>3
<1>7. /\ Went(r)
      /\ req'[r].kind = req[r].kind /\ req'[r].doc = req[r].doc
      /\ req'[r].qty = req[r].qty /\ req'[r].left = req[r].left
      /\ req'[r].posts = ps /\ req'[r].newCost = cs
      /\ req'[r].ing = None /\ req'[r].step = next
      /\ \A q \in Requests \ {r} : req'[q] = req[q]
  <2>1. CASE Proceed(r, n)
    BY <1>6, <2>1, ProceedIs
  <2>2. CASE req' = [req EXCEPT ![r] = n] /\ UNCHANGED db
    <3>1. req'[r] = n /\ \A q \in Requests \ {r} : req'[q] = req[q]
      BY <2>2, Becomes DEF Orderly
    <3>2. QED
      BY <1>6, <2>2, <3>1 DEF Went
  <2>3. QED
    BY <1>6, <2>1, <2>2
<1>8. QED
  BY <1>1, <1>2, <1>3, <1>4, <1>5, <1>7 DEF Saved

LEMMA SaveKeepsOrder ==
  ASSUME Orderly, NEW r \in Requests, Save(r)
  PROVE  Orderly'
<1>1. /\ Went(r) /\ Saved(r)
      /\ req[r].kind \in {"buy", "receive"} /\ req[r].step = "save"
  BY SaveIs
<1>2. /\ Shaped(r) /\ HasRow(r) /\ KnowsDoc(r) /\ Posting(r)
      /\ req[r] \in Askings /\ req[r].ing \in Ingredients
  BY <1>1 DEF Orderly, Typed, Shaped
<1>3. req[r].held \subseteq req'[r].held
  BY <1>1 DEF Went
<1>4. Shaped(r)'
  BY <1>1, <1>2 DEF Shaped, Saved, SupplyKinds, WasteKinds, CountKinds
<1>5. HasRow(r)' /\ KnowsDoc(r)'
  BY <1>1, <1>2, <1>3 DEF HasRow, KnowsDoc, Saved, Went, db, SupplyKinds,
                          WasteKinds, CountKinds
<1>6. Posting(r)'
  <2>1. IsFiniteSet(req'[r].posts)
    BY <1>1, <1>2, FS_AddElement DEF Saved, Posting
  <2>2. None \notin Ingredients /\ req[r].left \subseteq Ingredients
    BY <1>2, InventoryAssumption DEF Askings
  <2>3. ASSUME NEW m \in req'[r].posts
        PROVE  /\ m = Movement("purchase", m.ing, req[r].qty, req[r].doc)
               /\ m.ing \notin req[r].left /\ m.ing \in Ingredients
    <3>1. CASE m \in req[r].posts
      BY <1>2, <3>1 DEF Posting, Askings, Unnumbered
    <3>2. CASE m = Movement("purchase", req[r].ing, req[r].qty, req[r].doc)
      BY <1>2, <3>2 DEF Posting, Movement
    <3>3. QED
      BY <1>1, <3>1, <3>2 DEF Saved
  <2>4. QED
    BY <1>1, <2>1, <2>2, <2>3 DEF Posting, Saved
<1>7. QED
  BY <1>1, <1>4, <1>5, <1>6, GoingOn

LEMMA NextLineKeepsOrder ==
  ASSUME Orderly, NEW r \in Requests, NextLine(r)
  PROVE  Orderly'
<1>1. /\ req[r].step = "line" /\ req[r] \in Askings
      /\ Shaped(r) /\ HasRow(r) /\ KnowsDoc(r) /\ Posting(r)
  BY DEF NextLine, Orderly, Typed
<1>2. req[r].kind = "receive"
  BY <1>1 DEF Shaped, SupplyKinds, WasteKinds, CountKinds, Idle
<1>3. PICK i \in req[r].left, p \in Prices :
        Proceed(r, [req[r] EXCEPT !.left = @ \ {i}, !.step = "look", !.ing = i,
                                  !.price = p])
  BY DEF NextLine
<1>4. i \in Ingredients /\ p \in Nat /\ req[r].left \in SUBSET Ingredients
  BY <1>1, InventoryAssumption DEF Askings
<1>0. PICK n : n = [req[r] EXCEPT !.left = @ \ {i}, !.step = "look", !.ing = i,
                                  !.price = p]
  OBVIOUS
<1>5. /\ n \in Askings
      /\ n.held = req[r].held /\ n.doc = req[r].doc /\ n.kind = req[r].kind
      /\ n.step = "look" /\ n.ing = i /\ n.qty = req[r].qty
      /\ n.left = req[r].left \ {i} /\ n.posts = req[r].posts
  BY <1>0, <1>1, <1>4 DEF Askings, Steps
<1>6. Proceed(r, n)
  BY <1>0, <1>3
<1>7. /\ Went(r)
      /\ req'[r].held = req[r].held \cup Wanted(r) /\ req'[r].kind = req[r].kind
      /\ req'[r].step = "look" /\ req'[r].ing = i
      /\ req'[r].doc = req[r].doc /\ req'[r].qty = req[r].qty
      /\ req'[r].left = req[r].left \ {i} /\ req'[r].posts = req[r].posts
  BY <1>5, <1>6, ProceedIs
<1>8. Shaped(r)' /\ HasRow(r)' /\ KnowsDoc(r)' /\ Posting(r)'
  BY <1>1, <1>2, <1>4, <1>7 DEF Went, db, Shaped, HasRow, KnowsDoc, Posting,
                                SupplyKinds, WasteKinds, CountKinds
<1>9. QED
  BY <1>7, <1>8, GoingOn

LEMMA TakeSupplyKeepsOrder ==
  ASSUME Orderly, NEW r \in Requests, TakeSupply(r)
  PROVE  Orderly'
<1>1. /\ req[r].kind \in SupplyKinds /\ req[r].step = "row"
      /\ req[r] \in Askings /\ Shaped(r) /\ HasRow(r) /\ KnowsDoc(r) /\ Posting(r)
  BY DEF TakeSupply, At, Orderly, Typed
<1>2. /\ req[r].doc \in Supplies /\ supply[req[r].doc].lines \subseteq Ingredients
      /\ Quantities \subseteq Nat /\ Wanted(r) = {req[r].doc}
  BY <1>1, InventoryAssumption
     DEF Shaped, Orderly, Typed, Orders, Wanted, Rows
<1>3. CASE Refuse(r)
  BY <1>3, RefuseKeepsOrder
<1>4. ASSUME NEW n \in Askings, Proceed(r, n), n.held = req[r].held,
             n.doc = req[r].doc, n.kind = req[r].kind,
             n.posts = req[r].posts, n.ing = req[r].ing,
             supply[req[r].doc].status \in Receivable,
             \/ n.step = "commit" /\ n.left = req[r].left /\ n.qty = req[r].qty
             \/ /\ n.kind = "receive" /\ n.step \in {"line", "commit"}
                /\ req[r].posts = {} /\ req[r].ing = None
      PROVE  Orderly'
  <2>1. /\ Went(r) /\ req'[r].kind = n.kind /\ req'[r].step = n.step
        /\ req'[r].held = req[r].held \cup Wanted(r)
        /\ req'[r].ing = n.ing /\ req'[r].doc = n.doc /\ req'[r].qty = n.qty
        /\ req'[r].left = n.left /\ req'[r].posts = n.posts
    BY <1>4, ProceedIs
  <2>2. Shaped(r)'
    BY <1>1, <1>2, <1>4, <2>1 DEF Shaped, SupplyKinds, WasteKinds, CountKinds
  <2>3. HasRow(r)'
    <3>1. req'[r].doc \in req'[r].held /\ req'[r].kind # "open"
      BY <1>1, <1>2, <1>4, <2>1 DEF SupplyKinds
    <3>2. QED
      BY <3>1 DEF HasRow
  <2>4. KnowsDoc(r)'
    <3>1. UNCHANGED <<supply, waste, count>> /\ req'[r].kind \in SupplyKinds
      BY <1>1, <1>4, <2>1 DEF Went, db
    <3>2. QED
      BY <1>4, <2>1, <3>1 DEF KnowsDoc, SupplyKinds, WasteKinds, CountKinds
  <2>5. Posting(r)'
    <3>1. n.left \subseteq Ingredients /\ None \notin Ingredients
      BY InventoryAssumption DEF Askings
    <3>2. QED
      BY <1>1, <1>4, <2>1, <3>1 DEF Posting
  <2>6. QED
    BY <2>1, <2>2, <2>3, <2>4, <2>5, GoingOn
<1>5. ASSUME supply[req[r].doc].status \in Receivable, req[r].kind # "receive",
             Proceed(r, [req[r] EXCEPT !.step = "commit"])
      PROVE  Orderly'
  <2> PICK n : n = [req[r] EXCEPT !.step = "commit"]
    OBVIOUS
  <2>1. /\ n \in Askings /\ n.held = req[r].held /\ n.doc = req[r].doc
        /\ n.kind = req[r].kind /\ n.posts = req[r].posts /\ n.ing = req[r].ing
        /\ n.step = "commit" /\ n.left = req[r].left /\ n.qty = req[r].qty
    BY <1>1 DEF Askings, Steps
  <2>2. Proceed(r, n)
    BY <1>5
  <2>3. QED
    BY <1>4, <1>5, <2>1, <2>2
<1>6. ASSUME supply[req[r].doc].status \in Receivable, req[r].kind = "receive",
             NEW came \in SUBSET supply[req[r].doc].lines, NEW q \in Quantities,
             Proceed(r, [req[r] EXCEPT !.left = came, !.qty = q,
                           !.step = IF came = {} THEN "commit" ELSE "line"])
      PROVE  Orderly'
  <2> PICK n : n = [req[r] EXCEPT !.left = came, !.qty = q,
                      !.step = IF came = {} THEN "commit" ELSE "line"]
    OBVIOUS
  <2>1. /\ n \in Askings /\ n.held = req[r].held /\ n.doc = req[r].doc
        /\ n.kind = req[r].kind /\ n.posts = req[r].posts /\ n.ing = req[r].ing
        /\ n.step \in {"line", "commit"}
    BY <1>1, <1>2 DEF Askings, Steps
  <2>2. Proceed(r, n)
    BY <1>6
  <2>3. req[r].posts = {} /\ req[r].ing = None
    BY <1>1, <1>6 DEF Shaped
  <2>4. QED
    BY <1>4, <1>6, <2>1, <2>2, <2>3
<1>7. QED
  BY <1>1, <1>3, <1>5, <1>6 DEF TakeSupply, Receivable, SupplyKinds

\* The next statement of a request that read nothing new.
LEMMA StepsOn ==
  ASSUME Orderly, NEW r \in Requests, NEW next \in Steps,
         Proceed(r, [req[r] EXCEPT !.step = next])
  PROVE  /\ Went(r) /\ req'[r].kind = req[r].kind /\ req'[r].step = next
         /\ req'[r].held = req[r].held \cup Wanted(r)
         /\ req'[r].ing = req[r].ing /\ req'[r].doc = req[r].doc
         /\ req'[r].qty = req[r].qty /\ req'[r].left = req[r].left
         /\ req'[r].posts = req[r].posts /\ req'[r].newCost = req[r].newCost
         /\ UNCHANGED <<ledger, cost, costs, supply, waste, count>>
<1>1. req[r] \in Askings
  BY DEF Orderly, Typed
<1> PICK n : n = [req[r] EXCEPT !.step = next]
  OBVIOUS
<1>2. /\ n \in Askings /\ n.held = req[r].held /\ n.doc = req[r].doc
      /\ n.kind = req[r].kind /\ n.posts = req[r].posts /\ n.ing = req[r].ing
      /\ n.step = next /\ n.left = req[r].left /\ n.qty = req[r].qty
      /\ n.newCost = req[r].newCost
  BY <1>1 DEF Askings
<1>3. Proceed(r, n)
  OBVIOUS
<1>4. /\ Went(r) /\ req'[r].kind = n.kind /\ req'[r].step = n.step
      /\ req'[r].held = req[r].held \cup Wanted(r)
      /\ req'[r].ing = n.ing /\ req'[r].doc = n.doc /\ req'[r].qty = n.qty
      /\ req'[r].left = n.left /\ req'[r].posts = n.posts
      /\ req'[r].newCost = n.newCost
  BY <1>2, <1>3, ProceedIs
<1>5. QED
  BY <1>2, <1>4 DEF Went, db

LEMMA TakeWasteKeepsOrder ==
  ASSUME Orderly, NEW r \in Requests, TakeWaste(r)
  PROVE  Orderly'
<1>1. /\ req[r].kind \in WasteKinds /\ req[r].step = "row"
      /\ Shaped(r) /\ HasRow(r) /\ KnowsDoc(r) /\ Posting(r)
      /\ "commit" \in Steps
  BY DEF TakeWaste, At, Orderly, Steps
<1>2. CASE Refuse(r)
  BY <1>2, RefuseKeepsOrder
<1>3. ASSUME waste[req[r].doc].status = "pending",
             Proceed(r, [req[r] EXCEPT !.step = "commit"])
      PROVE  Orderly'
  <2>1. /\ Went(r) /\ req'[r].kind = req[r].kind /\ req'[r].step = "commit"
        /\ req'[r].held = req[r].held \cup Wanted(r)
        /\ req'[r].ing = req[r].ing /\ req'[r].doc = req[r].doc
        /\ req'[r].qty = req[r].qty /\ req'[r].left = req[r].left
        /\ req'[r].posts = req[r].posts
        /\ UNCHANGED <<supply, waste, count>>
    BY <1>1, <1>3, StepsOn
  <2>2. Wanted(r) = {req[r].doc}
    BY <1>1 DEF Wanted, Rows
  <2>3. Shaped(r)' /\ Posting(r)'
    BY <1>1, <2>1 DEF Shaped, Posting, SupplyKinds, WasteKinds, CountKinds
  <2>4. HasRow(r)'
    BY <1>1, <2>1, <2>2 DEF HasRow, WasteKinds
  <2>5. KnowsDoc(r)'
    BY <1>1, <1>3, <2>1 DEF KnowsDoc, SupplyKinds, WasteKinds, CountKinds
  <2>6. QED
    BY <2>1, <2>3, <2>4, <2>5, GoingOn
<1>4. QED
  BY <1>2, <1>3 DEF TakeWaste

\* A statement of an opening.
LEMMA OpeningGoesOn ==
  ASSUME Orderly, NEW r \in Requests, req[r].kind = "open",
         NEW next \in {"insert", "commit"},
         Proceed(r, [req[r] EXCEPT !.step = next]),
         next = "commit" => req[r].step = "insert" /\ Drafts = {}
  PROVE  Orderly'
<1>1. /\ Shaped(r) /\ HasRow(r) /\ KnowsDoc(r) /\ Posting(r) /\ next \in Steps
  BY DEF Orderly, Steps
<1>2. /\ Went(r) /\ req'[r].kind = "open" /\ req'[r].step = next
      /\ req'[r].held = req[r].held \cup Wanted(r)
      /\ req'[r].ing = req[r].ing /\ req'[r].doc = req[r].doc
      /\ req'[r].qty = req[r].qty /\ req'[r].left = req[r].left
      /\ req'[r].posts = req[r].posts
      /\ UNCHANGED <<supply, waste, count>>
  BY <1>1, StepsOn
<1>3. Shaped(r)' /\ Posting(r)'
  BY <1>1, <1>2 DEF Shaped, Posting, SupplyKinds, WasteKinds, CountKinds
<1>4. HasRow(r)'
  <2>1. next = "commit" => OneDraft \in Wanted(r)
    BY DEF Wanted
  <2>2. QED
    BY <1>2, <2>1 DEF HasRow, SupplyKinds, WasteKinds
<1>5. KnowsDoc(r)'
  <2>1. \A q \in Requests \ {r} : req'[q] = req[q]
    BY <1>2, Becomes DEF Orderly, Went
  <2>2. QED
    BY <1>1, <1>2, <2>1 DEF KnowsDoc, Drafts, SupplyKinds, WasteKinds
<1>6. QED
  BY <1>2, <1>3, <1>4, <1>5, GoingOn

LEMMA GlanceKeepsOrder ==
  ASSUME Orderly, NEW r \in Requests, Glance(r)
  PROVE  Orderly'
<1>1. req[r].kind = "open"
  BY DEF Glance, At
<1>2. CASE Refuse(r)
  BY <1>2, RefuseKeepsOrder
<1>3. CASE Proceed(r, [req[r] EXCEPT !.step = "insert"])
  BY <1>1, <1>3, OpeningGoesOn
<1>4. QED
  BY <1>2, <1>3 DEF Glance

LEMMA InsertKeepsOrder ==
  ASSUME Orderly, NEW r \in Requests, Insert(r)
  PROVE  Orderly'
<1>1. req[r].kind = "open" /\ req[r].step = "insert"
  BY DEF Insert, At
<1>2. CASE Refuse(r)
  BY <1>2, RefuseKeepsOrder
<1>3. CASE Drafts = {} /\ Proceed(r, [req[r] EXCEPT !.step = "commit"])
  BY <1>1, <1>3, OpeningGoesOn
<1>4. QED
  BY <1>2, <1>3 DEF Insert, IndexClash

LEMMA TakeCountKeepsOrder ==
  ASSUME Orderly, NEW r \in Requests, TakeCount(r)
  PROVE  Orderly'
<1>1. /\ req[r].kind \in CountKinds /\ req[r].step = "row"
      /\ Shaped(r) /\ HasRow(r) /\ KnowsDoc(r) /\ Posting(r)
  BY DEF TakeCount, At, Orderly
<1>2. req[r].kind # "open"
  BY <1>1 DEF Shaped
<1>3. CASE Refuse(r)
  BY <1>3, RefuseKeepsOrder
<1>4. ASSUME count[req[r].doc].status = "draft", NEW next \in {"weigh", "commit"},
             next = "weigh" <=> req[r].kind = "load",
             Proceed(r, [req[r] EXCEPT !.step = next])
      PROVE  Orderly'
  <2>1. /\ Went(r) /\ req'[r].kind = req[r].kind /\ req'[r].step = next
        /\ req'[r].held = req[r].held \cup Wanted(r)
        /\ req'[r].ing = req[r].ing /\ req'[r].doc = req[r].doc
        /\ req'[r].qty = req[r].qty /\ req'[r].left = req[r].left
        /\ req'[r].posts = req[r].posts
        /\ UNCHANGED <<supply, waste, count>>
    <3>1. next \in Steps
      BY <1>4 DEF Steps
    <3>2. QED
      BY <1>4, <3>1, StepsOn
  <2>2. Wanted(r) = {req[r].doc}
    BY <1>1 DEF Wanted, Rows
  <2>3. Shaped(r)'
    BY <1>1, <1>2, <1>4, <2>1 DEF Shaped, SupplyKinds, WasteKinds, CountKinds
  <2>4. Posting(r)'
    BY <1>1, <2>1 DEF Posting
  <2>5. HasRow(r)'
    BY <1>2, <2>1, <2>2 DEF HasRow
  <2>6. KnowsDoc(r)'
    BY <1>1, <1>2, <1>4, <2>1 DEF KnowsDoc, SupplyKinds, WasteKinds, CountKinds
  <2>7. QED
    BY <2>1, <2>3, <2>4, <2>5, <2>6, GoingOn
<1>5. QED
  <2>1. CASE req[r].kind = "load"
    BY <1>3, <1>4, <2>1 DEF TakeCount
  <2>2. CASE req[r].kind # "load"
    BY <1>3, <1>4, <2>2 DEF TakeCount
  <2>3. QED
    BY <2>1, <2>2

-----------------------------------------------------------------------------
(* ... commits. *)

LEMMA CommitPurchaseKeepsOrder ==
  ASSUME Orderly, NEW r \in Requests, CommitPurchase(r)
  PROVE  Orderly'
<1>1. /\ req[r].kind \in {"buy", "receive"} /\ req[r].step = "commit"
      /\ req[r] \in Askings /\ Shaped(r) /\ Posting(r) /\ Typed
      /\ Post(req[r].posts) /\ Done(r) /\ UNCHANGED <<waste, count>>
  BY DEF CommitPurchase, At, Orderly, Typed
<1>2. ledger' \in SUBSET Movements /\ IsFiniteSet(ledger')
  <2>1. req[r].posts \in SUBSET Unnumbered /\ IsFiniteSet(req[r].posts)
    BY <1>1 DEF Askings, Posting
  <2>2. QED
    BY <1>1, <2>1, PostAdds
<1>3. PICK D \in SUBSET Ingredients : req[r].newCost \in [D -> Averages]
  BY <1>1 DEF Askings, Costings
<1>4. cost' \in [Ingredients -> Int]
  <2>1. ASSUME NEW i \in D
        PROVE  req[r].newCost[i].new \in Int
    BY <1>3, <2>1 DEF Averages
  <2>2. DOMAIN req[r].newCost = D
    BY <1>3
  <2>3. QED
    BY <1>1, <2>1, <2>2 DEF CommitPurchase, Typed
<1>5. costs' \in [Ingredients -> SUBSET Nat]
  <2>1. ASSUME NEW i \in D
        PROVE  req[r].newCost[i].price \in Nat
    BY <1>3, <2>1 DEF Averages
  <2>2. DOMAIN req[r].newCost = D
    BY <1>3
  <2>3. QED
    BY <1>1, <2>1, <2>2 DEF CommitPurchase, Typed
<1>6. /\ supply' \in [Supplies -> Orders]
      /\ req[r].kind \in SupplyKinds \/ UNCHANGED supply
      /\ \A s \in Supplies \ {req[r].doc} : supply'[s] = supply[s]
  <2>1. CASE req[r].kind = "buy"
    BY <1>1, <2>1 DEF CommitPurchase, Typed
  <2>2. CASE req[r].kind = "receive"
    <3>1. {m.ing : m \in req[r].posts} \subseteq Ingredients
      BY <1>1 DEF Askings, Unnumbered
    <3>2. req[r].doc \in Supplies
      BY <1>1, <2>2 DEF Shaped, SupplyKinds
    <3> PICK came \in SUBSET Ingredients : came = {m.ing : m \in req[r].posts}
      BY <3>1
    <3>3. supply' = [supply EXCEPT ![req[r].doc].status = "received",
                                   ![req[r].doc].got = came]
      BY <2>2 DEF CommitPurchase
    <3>4. QED
      BY <1>1, <2>2, <3>2, <3>3 DEF Typed, Orders, SupplyKinds
  <2>3. QED
    BY <1>1, <2>1, <2>2
<1>7. \A q \in Requests \ {r} : req'[q] = req[q] => KnowsDoc(q)'
  BY <1>1, <1>6, SparesSupplies
<1>8. QED
  BY <1>1, <1>2, <1>4, <1>5, <1>6, <1>7, Committing DEF Typed

LEMMA CommitSupplyKeepsOrder ==
  ASSUME Orderly, NEW r \in Requests, CommitSupply(r)
  PROVE  Orderly'
<1>1. /\ req[r].kind \in {"edit", "send", "withdraw"} /\ req[r].step = "commit"
      /\ req[r].kind \in SupplyKinds
      /\ Shaped(r) /\ Typed /\ Done(r)
      /\ UNCHANGED <<ledger, cost, costs, waste, count>>
  BY DEF CommitSupply, At, Orderly, SupplyKinds
<1>2. req[r].doc \in Supplies
  BY <1>1 DEF Shaped
<1>3. /\ supply' \in [Supplies -> Orders]
      /\ \A s \in Supplies \ {req[r].doc} : supply'[s] = supply[s]
  <2>1. ASSUME NEW lines \in (SUBSET Touched) \ {{}},
               supply' = [supply EXCEPT ![req[r].doc].lines = lines]
        PROVE  <1>3
    BY <1>1, <1>2, <2>1 DEF Typed, Orders, Touched
  <2>2. ASSUME NEW status \in {"sent", "cancelled"},
               supply' = [supply EXCEPT ![req[r].doc].status = status]
        PROVE  <1>3
    BY <1>1, <1>2, <2>2 DEF Typed, Orders
  <2>3. QED
    BY <2>1, <2>2 DEF CommitSupply
<1>4. \A q \in Requests \ {r} : req'[q] = req[q] => KnowsDoc(q)'
  BY <1>1, <1>3, SparesSupplies
<1>5. QED
  BY <1>1, <1>3, <1>4, Committing DEF Typed

LEMMA CommitApproveKeepsOrder ==
  ASSUME Orderly, NEW r \in Requests, CommitApprove(r)
  PROVE  Orderly'
<1>1. /\ req[r].kind = "approve" /\ req[r].step = "commit"
      /\ req[r].kind \in WasteKinds
      /\ Shaped(r) /\ KnowsDoc(r) /\ Typed /\ Done(r)
      /\ UNCHANGED <<cost, costs, supply, count>>
  BY DEF CommitApprove, At, Orderly, WasteKinds
<1>2. /\ req[r].doc \in Wastes /\ waste[req[r].doc].status = "pending"
      /\ waste[req[r].doc].ing \in Ingredients
  BY <1>1 DEF Shaped, KnowsDoc, Typed
<1>3. ledger' \in SUBSET Movements /\ IsFiniteSet(ledger')
  <2>1. req[r].doc \in Docs \cup {None} /\ "waste" \in Causes /\ -1 \in Int
    BY <1>2 DEF Docs, Causes
  <2>2. PICK ms : ms = {Movement("waste", waste[req[r].doc].ing, -1, req[r].doc)}
    OBVIOUS
  <2>3. ms \in SUBSET Unnumbered /\ IsFiniteSet(ms)
    <3>1. Movement("waste", waste[req[r].doc].ing, -1, req[r].doc) \in Unnumbered
      BY <1>2, <2>1 DEF Movement, Unnumbered
    <3>2. QED
      BY <2>2, <3>1, FS_Singleton
  <2>4. Post(ms)
    BY <2>2 DEF CommitApprove
  <2>5. QED
    BY <1>1, <2>3, <2>4, PostAdds
<1>4. /\ waste' \in [Wastes -> Losses]
      /\ \A w \in Wastes \ {req[r].doc} : waste'[w] = waste[w]
      /\ \A w \in Wastes : waste'[w].ing = waste[w].ing
      /\ waste'[req[r].doc].status = "approved"
  BY <1>1, <1>2 DEF CommitApprove, Typed, Losses
<1>5. \A w \in Wastes : waste'[w].status # "none" => waste'[w].ing \in Ingredients
  BY <1>1, <1>2, <1>4 DEF Typed
<1>6. \A q \in Requests \ {r} : req'[q] = req[q] => KnowsDoc(q)'
  BY <1>1, <1>4, SparesWastes
<1>7. QED
  BY <1>1, <1>3, <1>4, <1>5, <1>6, Committing DEF Typed

LEMMA CommitRejectKeepsOrder ==
  ASSUME Orderly, NEW r \in Requests, CommitReject(r)
  PROVE  Orderly'
<1>1. /\ req[r].kind = "reject" /\ req[r].step = "commit"
      /\ req[r].kind \in WasteKinds
      /\ Shaped(r) /\ KnowsDoc(r) /\ Typed /\ Done(r)
      /\ UNCHANGED <<ledger, cost, costs, supply, count>>
  BY DEF CommitReject, At, Orderly, WasteKinds
<1>2. /\ req[r].doc \in Wastes /\ waste[req[r].doc].status = "pending"
      /\ waste[req[r].doc].ing \in Ingredients
  BY <1>1 DEF Shaped, KnowsDoc, Typed
<1>3. /\ waste' \in [Wastes -> Losses]
      /\ \A w \in Wastes \ {req[r].doc} : waste'[w] = waste[w]
      /\ \A w \in Wastes : waste'[w].ing = waste[w].ing
  BY <1>1, <1>2 DEF CommitReject, Typed, Losses
<1>4. \A w \in Wastes : waste'[w].status # "none" => waste'[w].ing \in Ingredients
  BY <1>1, <1>2, <1>3 DEF Typed
<1>5. \A q \in Requests \ {r} : req'[q] = req[q] => KnowsDoc(q)'
  BY <1>1, <1>3, SparesWastes
<1>6. QED
  BY <1>1, <1>3, <1>4, <1>5, Committing DEF Typed

LEMMA CommitRecountKeepsOrder ==
  ASSUME Orderly, NEW r \in Requests, CommitRecount(r)
  PROVE  Orderly'
<1>1. /\ req[r].kind = "recount" /\ req[r].step = "commit"
      /\ req[r] \in Askings /\ req[r].ing \in Ingredients /\ Typed /\ Done(r)
      /\ UNCHANGED <<cost, costs, supply, waste, count>>
  BY DEF CommitRecount, At, Orderly, Typed, Shaped
<1>2. ledger' \in SUBSET Movements /\ IsFiniteSet(ledger')
  <2> PICK delta : delta = req[r].qty - req[r].stock
    OBVIOUS
  <2>1. delta \in Int /\ None \in Docs \cup {None} /\ "recount" \in Causes
    BY <1>1 DEF Askings, Causes
  <2>2. PICK ms : ms = {Movement("recount", req[r].ing, delta, None)}
    OBVIOUS
  <2>3. ms \in SUBSET Unnumbered /\ IsFiniteSet(ms)
    <3>1. Movement("recount", req[r].ing, delta, None) \in Unnumbered
      BY <1>1, <2>1 DEF Movement, Unnumbered
    <3>2. QED
      BY <2>2, <3>1, FS_Singleton
  <2>4. Post(ms) \/ UNCHANGED ledger
    BY <2>2 DEF CommitRecount
  <2>5. QED
    BY <1>1, <2>3, <2>4, PostAdds DEF Typed
<1>3. \A q \in Requests \ {r} : req'[q] = req[q] => KnowsDoc(q)'
  BY <1>1, SparesSupplies
<1>4. QED
  BY <1>1, <1>2, <1>3, Committing DEF Typed

LEMMA CommitOpenKeepsOrder ==
  ASSUME Orderly, NEW r \in Requests, CommitOpen(r)
  PROVE  Orderly'
<1>1. /\ req[r].kind = "open" /\ req[r].step = "commit"
      /\ req[r].kind \in CountKinds
      /\ Shaped(r) /\ Typed /\ Done(r)
      /\ UNCHANGED <<ledger, cost, costs, supply, waste>>
  BY DEF CommitOpen, At, Orderly, CountKinds
<1>2. req[r].doc \in Counts
  BY <1>1 DEF Shaped
<1>3. PICK lines \in (SUBSET Touched) \ {{}} :
        count' = [count EXCEPT ![req[r].doc].status = "draft",
                               ![req[r].doc].lines = lines]
  BY DEF CommitOpen
<1>4. /\ count' \in [Counts -> Sheets]
      /\ \A c \in Counts \ {req[r].doc} : count'[c] = count[c]
      /\ count'[req[r].doc].status # "none"
  <2>0. PICK sheet : sheet = [count[req[r].doc] EXCEPT !.status = "draft",
                                                       !.lines = lines]
    OBVIOUS
  <2>1. sheet \in Sheets /\ sheet.status = "draft"
    <3>1. count[req[r].doc] \in Sheets /\ lines \in SUBSET Ingredients
      BY <1>1, <1>2 DEF Typed, Touched
    <3>2. QED
      BY <2>0, <3>1 DEF Sheets
  <2>2. count' = [count EXCEPT ![req[r].doc] = sheet]
    BY <1>1, <1>2, <1>3, <2>0 DEF Typed
  <2>3. QED
    BY <1>1, <1>2, <2>1, <2>2 DEF Typed
<1>5. \A q \in Requests \ {r} : req'[q] = req[q] => KnowsDoc(q)'
  BY <1>1, <1>4, SparesCounts
<1>6. QED
  BY <1>1, <1>4, <1>5, Committing DEF Typed

\* A row of a count that is written: the quantity with the stock it goes with.
LEMMA LoadIs ==
  ASSUME Orderly, NEW r \in Requests, CommitLoad(r)
  PROVE  \E load \in Loads :
           /\ load = IF req[r].kind = "clear" THEN NotLoaded
                     ELSE [counted |-> req[r].qty, expected |-> req[r].stock,
                           at |-> req[r].at]
           /\ count' = [count EXCEPT ![req[r].doc].loaded[req[r].ing] = load]
<1>1. req[r] \in Askings
  BY DEF Orderly, Typed
<1> PICK load : load = IF req[r].kind = "clear" THEN NotLoaded
                       ELSE [counted |-> req[r].qty, expected |-> req[r].stock,
                             at |-> req[r].at]
  OBVIOUS
<1>2. load \in Loads
  BY <1>1 DEF Askings, Loads, NotLoaded
<1>3. count' = [count EXCEPT ![req[r].doc].loaded[req[r].ing] = load]
  BY DEF CommitLoad
<1>4. QED
  BY <1>2, <1>3

LEMMA CommitLoadKeepsOrder ==
  ASSUME Orderly, NEW r \in Requests, CommitLoad(r)
  PROVE  Orderly'
<1>1. /\ req[r].kind \in {"load", "clear"} /\ req[r].step = "commit"
      /\ req[r].kind \in CountKinds \ {"open"}
      /\ Shaped(r) /\ KnowsDoc(r) /\ Typed /\ Done(r)
      /\ UNCHANGED <<ledger, cost, costs, supply, waste>>
  BY DEF CommitLoad, At, Orderly, CountKinds
<1>2. /\ req[r].doc \in Counts /\ req[r].ing \in Ingredients
      /\ count[req[r].doc].status = "draft"
  BY <1>1 DEF Shaped, KnowsDoc
<1>3. PICK load \in Loads :
        count' = [count EXCEPT ![req[r].doc].loaded[req[r].ing] = load]
  BY LoadIs
<1>4. /\ count' \in [Counts -> Sheets]
      /\ \A c \in Counts \ {req[r].doc} : count'[c] = count[c]
      /\ count'[req[r].doc].status # "none"
  <2> PICK sheet : sheet = [count[req[r].doc] EXCEPT !.loaded[req[r].ing] = load]
    OBVIOUS
  <2>1. sheet \in Sheets /\ sheet.status = "draft"
    BY <1>1, <1>2 DEF Typed, Sheets
  <2>2. count' = [count EXCEPT ![req[r].doc] = sheet]
    BY <1>1, <1>2, <1>3 DEF Typed
  <2>3. QED
    BY <1>1, <1>2, <2>1, <2>2 DEF Typed
<1>5. \A q \in Requests \ {r} : req'[q] = req[q] => KnowsDoc(q)'
  BY <1>1, <1>4, SparesCounts
<1>6. QED
  BY <1>1, <1>4, <1>5, Committing DEF Typed

LEMMA CommitCancelKeepsOrder ==
  ASSUME Orderly, NEW r \in Requests, CommitCancel(r)
  PROVE  Orderly'
<1>1. /\ req[r].kind = "cancel" /\ req[r].step = "commit"
      /\ req[r].kind \in CountKinds \ {"open"}
      /\ Shaped(r) /\ Typed /\ Done(r)
      /\ UNCHANGED <<ledger, cost, costs, supply, waste>>
  BY DEF CommitCancel, At, Orderly, CountKinds
<1>2. req[r].doc \in Counts
  BY <1>1 DEF Shaped
<1>3. /\ count' \in [Counts -> Sheets]
      /\ \A c \in Counts \ {req[r].doc} : count'[c] = count[c]
      /\ count'[req[r].doc].status # "none"
  BY <1>1, <1>2 DEF CommitCancel, Typed, Sheets
<1>4. \A q \in Requests \ {r} : req'[q] = req[q] => KnowsDoc(q)'
  BY <1>1, <1>3, SparesCounts
<1>5. QED
  BY <1>1, <1>3, <1>4, Committing DEF Typed

\* The lines of a count that were counted, and what each was off by.
LEMMA DifferenceIsInt ==
  ASSUME Typed, NEW c \in Counts
  PROVE  /\ Counted(c) \subseteq Ingredients /\ IsFiniteSet(Counted(c))
         /\ \A i \in Counted(c) : /\ count[c].loaded[i] \in Loads
                                  /\ count[c].loaded[i].counted \in Nat
                                  /\ Difference(c, i) \in Int
<1>1. Counted(c) \subseteq Ingredients
  BY DEF Typed, Sheets, Counted
<1>2. IsFiniteSet(Counted(c))
  BY <1>1, FS_Subset, InventoryAssumption
<1>3. ASSUME NEW i \in Counted(c)
      PROVE  /\ count[c].loaded[i] \in Loads
             /\ count[c].loaded[i].counted \in Nat /\ Difference(c, i) \in Int
  <2>1. count[c].loaded[i] \in Loads /\ count[c].loaded[i].counted # None
    BY <1>1 DEF Typed, Sheets, Counted
  <2>2. count[c].loaded[i].counted \in Nat /\ count[c].loaded[i].expected \in Int
    BY <2>1 DEF Loads
  <2>3. QED
    BY <2>1, <2>2 DEF Difference
<1>4. QED
  BY <1>1, <1>2, <1>3

\* What closing a count posts.
Corrections(c) ==
  {Movement("count", i, Difference(c, i), c) :
     i \in {j \in Counted(c) : Difference(c, j) # 0}}

LEMMA CorrectionsAre ==
  ASSUME Typed, NEW c \in Counts
  PROVE  Corrections(c) \in SUBSET Unnumbered /\ IsFiniteSet(Corrections(c))
<1> PICK S : S = {j \in Counted(c) : Difference(c, j) # 0}
  OBVIOUS
<1>1. S \subseteq Counted(c) /\ IsFiniteSet(S)
  BY DifferenceIsInt, FS_Subset
<1>2. ASSUME NEW i \in S
      PROVE  Movement("count", i, Difference(c, i), c) \in Unnumbered
  <2>1. /\ i \in Ingredients /\ Difference(c, i) \in Int
        /\ c \in Docs \cup {None} /\ "count" \in Causes
    BY <1>1, DifferenceIsInt DEF Docs, Causes
  <2>2. QED
    BY <2>1 DEF Movement, Unnumbered
<1>3. Corrections(c) = {Movement("count", i, Difference(c, i), c) : i \in S}
  BY DEF Corrections
<1>4. IsFiniteSet({Movement("count", i, Difference(c, i), c) : i \in S})
  <2> DEFINE f == [i \in S |-> Movement("count", i, Difference(c, i), c)]
  <2>1. IsFiniteSet({f[i] : i \in S})
    <3> HIDE DEF f
    <3> QED
      BY <1>1, ImageIsFinite
  <2>2. {f[i] : i \in S} = {Movement("count", i, Difference(c, i), c) : i \in S}
    OBVIOUS
  <2>3. QED
    BY <2>1, <2>2
<1>5. QED
  BY <1>2, <1>3, <1>4

LEMMA CommitCloseKeepsOrder ==
  ASSUME Orderly, NEW r \in Requests, CommitClose(r)
  PROVE  Orderly'
<1>1. /\ req[r].kind = "close" /\ req[r].step = "commit"
      /\ req[r].kind \in CountKinds \ {"open"}
      /\ Shaped(r) /\ Typed /\ Done(r)
      /\ UNCHANGED <<cost, costs, supply, waste>>
  BY DEF CommitClose, At, Orderly, CountKinds
<1>2. req[r].doc \in Counts
  BY <1>1 DEF Shaped
<1>3. ledger' \in SUBSET Movements /\ IsFiniteSet(ledger')
  <2>1. Post(Corrections(req[r].doc))
    BY DEF CommitClose, Corrections
  <2>2. QED
    BY <1>1, <1>2, <2>1, CorrectionsAre, PostAdds
<1>4. /\ count' \in [Counts -> Sheets]
      /\ \A c \in Counts \ {req[r].doc} : count'[c] = count[c]
      /\ count'[req[r].doc].status # "none"
  <2>1. PICK k \in Nat : k = 1 + Cardinality(Closed)
    <3>1. IsFiniteSet(Closed)
      BY FS_Subset, InventoryAssumption DEF Closed
    <3>2. QED
      BY <3>1, FS_CardinalityType
  <2>2. count' = [count EXCEPT ![req[r].doc].status = "closed",
                               ![req[r].doc].closed = k]
    BY <2>1 DEF CommitClose
  <2>3. QED
    BY <1>1, <1>2, <2>2 DEF Typed, Sheets
<1>5. \A q \in Requests \ {r} : req'[q] = req[q] => KnowsDoc(q)'
  BY <1>1, <1>4, SparesCounts
<1>6. QED
  BY <1>1, <1>3, <1>4, <1>5, Committing DEF Typed

-----------------------------------------------------------------------------
(* ... and what happens without a request that lasts. *)

LEMMA Standing ==
  ASSUME Orderly, UNCHANGED <<req, count>>,
         ledger' \in SUBSET Movements /\ IsFiniteSet(ledger'),
         cost' \in [Ingredients -> Int], costs' \in [Ingredients -> SUBSET Nat],
         supply' \in [Supplies -> Orders], waste' \in [Wastes -> Losses],
         \A s \in Supplies : supply[s].status # "none" => supply'[s] = supply[s],
         \A w \in Wastes : /\ waste[w].status # "none" => waste'[w] = waste[w]
                           /\ waste'[w].status # "none"
                                => waste'[w].ing \in Ingredients
  PROVE  Orderly'
<1>1. Typed' /\ Exclusive'
  BY DEF Orderly, Typed, Exclusive
<1>2. ASSUME NEW q \in Requests
      PROVE  Shaped(q)' /\ HasRow(q)' /\ KnowsDoc(q)' /\ Posting(q)'
  <2>1. Shaped(q) /\ HasRow(q) /\ KnowsDoc(q) /\ Posting(q)
    BY DEF Orderly
  <2>2. Shaped(q)' /\ HasRow(q)' /\ Posting(q)'
    BY <2>1 DEF Shaped, HasRow, Posting
  <2>3. KnowsDoc(q)'
    BY <2>1 DEF KnowsDoc, Shaped, Drafts, Receivable
  <2>4. QED
    BY <2>2, <2>3
<1>3. QED
  BY <1>1, <1>2 DEF Orderly

\* A movement that is posted alone.
LEMMA PostsOne ==
  ASSUME Typed, NEW kind \in Causes, NEW i \in Ingredients, NEW qty \in Int,
         NEW cause \in Docs \cup {None}, Post({Movement(kind, i, qty, cause)})
  PROVE  /\ ledger' \in SUBSET Movements /\ IsFiniteSet(ledger')
         /\ \E m \in Movements :
              /\ ledger' = ledger \cup {m} /\ m.n = LastCommit + 1
              /\ m.kind = kind /\ m.ing = i /\ m.qty = qty /\ m.cause = cause
<1> PICK u : u = Movement(kind, i, qty, cause)
  OBVIOUS
<1>1. /\ u \in Unnumbered
      /\ u.kind = kind /\ u.ing = i /\ u.qty = qty /\ u.cause = cause
  BY DEF Movement, Unnumbered
<1>2. {u} \in SUBSET Unnumbered /\ IsFiniteSet({u}) /\ Post({u})
  BY <1>1, FS_Singleton
<1>3. /\ ledger' \in SUBSET Movements /\ IsFiniteSet(ledger')
      /\ ledger' = ledger \cup {Number(m) : m \in {u}}
      /\ Number(u) \in Movements /\ Number(u).n = LastCommit + 1
      /\ Number(u).kind = kind /\ Number(u).ing = i
      /\ Number(u).qty = qty /\ Number(u).cause = cause
  BY <1>1, <1>2, PostAdds
<1>4. {Number(m) : m \in {u}} = {Number(u)}
  OBVIOUS
<1>5. QED
  BY <1>3, <1>4

LEMMA ConsumeKeepsOrder ==
  ASSUME Orderly, NEW i \in Ingredients, Consume(i)
  PROVE  Orderly'
<1>1. /\ Typed /\ Post({Movement("consumption", i, -1, None)})
      /\ "consumption" \in Causes /\ -1 \in Int /\ None \in Docs \cup {None}
      /\ UNCHANGED <<cost, costs, supply, waste, count, req>>
  BY DEF Consume, Orderly, Causes
<1>2. ledger' \in SUBSET Movements /\ IsFiniteSet(ledger')
  BY <1>1, PostsOne
<1>3. QED
  BY <1>1, <1>2, Standing DEF Typed

LEMMA AdjustKeepsOrder ==
  ASSUME Orderly, NEW i \in Ingredients, Adjust(i)
  PROVE  Orderly'
<1>1. PICK d \in {-1, 1} : Post({Movement("adjustment", i, d, None)})
  BY DEF Adjust
<1>2. /\ Typed /\ "adjustment" \in Causes /\ d \in Int /\ None \in Docs \cup {None}
      /\ UNCHANGED <<cost, costs, supply, waste, count, req>>
  BY <1>1 DEF Adjust, Orderly, Causes
<1>3. ledger' \in SUBSET Movements /\ IsFiniteSet(ledger')
  BY <1>1, <1>2, PostsOne
<1>4. QED
  BY <1>2, <1>3, Standing DEF Typed

LEMMA ReportWasteKeepsOrder ==
  ASSUME Orderly, NEW i \in Ingredients, ReportWaste(i)
  PROVE  Orderly'
<1>1. Typed /\ UNCHANGED <<cost, costs, supply, count, req>>
  BY DEF ReportWaste, Orderly
<1>2. CASE Post({Movement("waste", i, -1, None)}) /\ UNCHANGED waste
  <2>1. "waste" \in Causes /\ -1 \in Int /\ None \in Docs \cup {None}
    BY DEF Causes
  <2>2. ledger' \in SUBSET Movements /\ IsFiniteSet(ledger')
    BY <1>1, <1>2, <2>1, PostsOne
  <2>3. QED
    BY <1>1, <1>2, <2>2, Standing DEF Typed
<1>3. ASSUME NEW w \in Wastes, waste[w].status = "none",
             waste' = [waste EXCEPT ![w] = [status |-> "pending", ing |-> i]],
             UNCHANGED ledger
      PROVE  Orderly'
  <2>1. /\ waste' \in [Wastes -> Losses]
        /\ \A v \in Wastes : /\ waste[v].status # "none" => waste'[v] = waste[v]
                             /\ waste'[v].status # "none"
                                  => waste'[v].ing \in Ingredients
    BY <1>1, <1>3 DEF Typed, Losses
  <2>2. QED
    BY <1>1, <1>3, <2>1, Standing DEF Typed
<1>4. QED
  BY <1>2, <1>3 DEF ReportWaste

LEMMA RepriceKeepsOrder ==
  ASSUME Orderly, NEW i \in Ingredients, NEW p \in Prices, Reprice(i, p)
  PROVE  Orderly'
<1>1. /\ Typed /\ p \in Nat
      /\ UNCHANGED <<ledger, supply, waste, count, req>>
  BY InventoryAssumption DEF Reprice, Orderly
<1>2. cost' \in [Ingredients -> Int] /\ costs' \in [Ingredients -> SUBSET Nat]
  BY <1>1 DEF Reprice, Typed
<1>3. QED
  BY <1>1, <1>2, Standing DEF Typed

LEMMA CreateSupplyKeepsOrder ==
  ASSUME Orderly, NEW s \in Supplies, CreateSupply(s)
  PROVE  Orderly'
<1>1. /\ Typed /\ supply[s].status = "none"
      /\ UNCHANGED <<ledger, cost, costs, waste, count, req>>
  BY DEF CreateSupply, Orderly
<1>2. PICK lines \in (SUBSET Touched) \ {{}} :
        supply' = [supply EXCEPT ![s].status = "draft", ![s].lines = lines]
  BY DEF CreateSupply
<1>3. /\ supply' \in [Supplies -> Orders]
      /\ \A t \in Supplies : supply[t].status # "none" => supply'[t] = supply[t]
  <2> PICK order : order = [supply[s] EXCEPT !.status = "draft", !.lines = lines]
    OBVIOUS
  <2>1. order \in Orders
    BY <1>1 DEF Typed, Orders, Touched
  <2>2. supply' = [supply EXCEPT ![s] = order]
    BY <1>1, <1>2 DEF Typed
  <2>3. QED
    BY <1>1, <2>1, <2>2 DEF Typed
<1>4. QED
  BY <1>1, <1>3, Standing DEF Typed

LEMMA InitIsOrderly ==
  ASSUME Init
  PROVE  Orderly
<1>1. \A r \in Requests : req[r] = Idle
  BY DEF Init
<1>2. Exclusive
  BY <1>1, IdleIs DEF Exclusive
<1>3. Typed
  <2>1. ledger \in SUBSET Movements /\ IsFiniteSet(ledger)
    BY FS_EmptySet DEF Init
  <2>2. /\ cost \in [Ingredients -> Int] /\ costs \in [Ingredients -> SUBSET Nat]
        /\ supply \in [Supplies -> Orders] /\ waste \in [Wastes -> Losses]
        /\ \A w \in Wastes : waste[w].status # "none" => waste[w].ing \in Ingredients
    BY InventoryAssumption DEF Init, Orders, Losses
  <2>3. count \in [Counts -> Sheets]
    <3>1. NotLoaded \in Loads
      BY DEF NotLoaded, Loads
    <3>2. NoCount \in Sheets
      BY <3>1 DEF NoCount, Sheets
    <3>3. QED
      BY <3>2 DEF Init
  <2>4. req \in [Requests -> Askings]
    BY IdleIs DEF Init
  <2>5. QED
    BY <2>1, <2>2, <2>3, <2>4 DEF Typed
<1>4. QED
  BY <1>1, <1>2, <1>3, IdleIsOrderly DEF Orderly

LEMMA StutterKeepsOrder ==
  ASSUME Orderly, UNCHANGED vars
  PROVE  Orderly'
<1>1. UNCHANGED <<ledger, cost, costs, supply, waste, count, req>>
  BY DEF vars
<1>2. QED
  BY <1>1, Standing DEF Orderly, Typed

LEMMA RunKeepsOrder ==
  ASSUME Orderly, NEW r \in Requests, Run(r)
  PROVE  Orderly'
BY LookKeepsOrder, WeighKeepsOrder, SaveKeepsOrder, NextLineKeepsOrder,
   CommitPurchaseKeepsOrder, TakeSupplyKeepsOrder, CommitSupplyKeepsOrder,
   TakeWasteKeepsOrder, CommitApproveKeepsOrder, CommitRejectKeepsOrder,
   CommitRecountKeepsOrder, GlanceKeepsOrder, InsertKeepsOrder,
   CommitOpenKeepsOrder, TakeCountKeepsOrder, CommitLoadKeepsOrder,
   CommitCloseKeepsOrder, CommitCancelKeepsOrder DEF Run

LEMMA NextKeepsOrder ==
  ASSUME Orderly, [Next]_vars
  PROVE  Orderly'
<1>1. ASSUME NEW r \in Requests, Abort(r)
      PROVE  Orderly'
  BY <1>1, Ending DEF Abort
<1>2. ASSUME NEW r \in Requests,
             AskStock(r) \/ AskSupply(r) \/ AskWaste(r) \/ AskCount(r)
      PROVE  Orderly'
  BY <1>2, AskStockKeepsOrder, AskSupplyKeepsOrder, AskWasteKeepsOrder,
     AskCountKeepsOrder
<1>3. ASSUME NEW i \in Ingredients,
             \/ Consume(i) \/ ReportWaste(i) \/ Adjust(i)
             \/ \E p \in Prices : Reprice(i, p)
      PROVE  Orderly'
  BY <1>3, ConsumeKeepsOrder, ReportWasteKeepsOrder, AdjustKeepsOrder,
     RepriceKeepsOrder
<1>4. QED
  BY <1>1, <1>2, <1>3, RunKeepsOrder, CreateSupplyKeepsOrder, StutterKeepsOrder
     DEF Next

\* Requests take turns on the rows of documents, and what each has read of its
\* document stays so until it commits; for purchases, purchase orders, wastes
\* and counts alike, as the FOR UPDATE of the repositories promises.
THEOREM RequestsKnowTheirDocuments == Spec => []Orderly
<1>1. Init => Orderly
  BY InitIsOrderly
<1>2. Orderly /\ [Next]_vars => Orderly'
  BY NextKeepsOrder
<1>3. QED
  BY <1>1, <1>2, PTL DEF Spec

-----------------------------------------------------------------------------
(* Each document moves the stock once. *)

SupplyOnce(s) ==
  /\ supply[s].status # "received" => supply[s].got = {}
  /\ \A m \in ledger : m.cause = s => m.ing \in supply[s].got
  /\ \A i \in supply[s].got : \E m : MovementsBy(s, i) = {m}

WasteOnce(w) ==
  /\ \A m \in ledger :
       m.cause = w => waste[w].status = "approved" /\ m.ing = waste[w].ing
  /\ waste[w].status = "approved" =>
       \E m : MovementsBy(w, waste[w].ing) = {m}

Documented ==
  /\ \A s \in Supplies : SupplyOnce(s)
  /\ \A w \in Wastes : WasteOnce(w)

\* Until it commits a request writes nothing.
Reads(r) ==
  \/ AskStock(r) \/ AskSupply(r) \/ AskWaste(r) \/ AskCount(r) \/ Abort(r)
  \/ Look(r) \/ Weigh(r) \/ Save(r) \/ NextLine(r) \/ TakeSupply(r)
  \/ TakeWaste(r) \/ Glance(r) \/ Insert(r) \/ TakeCount(r)

LEMMA ReadsWriteNothing ==
  ASSUME NEW r \in Requests, Reads(r)
  PROVE  UNCHANGED db
<1>1. \A kind, step, doc, i, q, p : Ask(r, kind, step, doc, i, q, p) => UNCHANGED db
  BY DEF Ask
<1>2. \A n : Proceed(r, n) => UNCHANGED db
  BY DEF Proceed
<1>3. Refuse(r) \/ Abort(r) => UNCHANGED db
  BY DEF Refuse, Abort
<1>4. CASE AskStock(r) \/ AskSupply(r) \/ AskWaste(r) \/ AskCount(r)
  BY <1>1, <1>4 DEF AskStock, AskSupply, AskWaste, AskCount
<1>5. CASE Look(r) \/ Weigh(r) \/ Save(r) \/ NextLine(r)
  BY <1>2, <1>5 DEF Look, Weigh, Save, NextLine
<1>6. CASE TakeSupply(r) \/ TakeWaste(r) \/ Glance(r) \/ Insert(r) \/ TakeCount(r)
  BY <1>2, <1>3, <1>6 DEF TakeSupply, TakeWaste, Glance, Insert, TakeCount
<1>7. QED
  BY <1>3, <1>4, <1>5, <1>6 DEF Reads

LEMMA SupplyStaysOnce ==
  ASSUME NEW s \in Supplies, SupplyOnce(s), NEW new, ledger' = ledger \cup new,
         \A m \in new : m.cause # s,
         \/ supply'[s].status = supply[s].status
         \/ supply[s].status # "received",
         supply'[s].got = supply[s].got
  PROVE  SupplyOnce(s)'
<1>1. \A i : MovementsBy(s, i)' = MovementsBy(s, i)
  BY DEF MovementsBy
<1>2. QED
  BY <1>1 DEF SupplyOnce

LEMMA WasteStaysOnce ==
  ASSUME NEW w \in Wastes, WasteOnce(w), NEW new, ledger' = ledger \cup new,
         \A m \in new : m.cause # w,
         \/ waste'[w] = waste[w]
         \/ waste[w].status # "approved" /\ waste'[w].status # "approved"
  PROVE  WasteOnce(w)'
<1>1. \A i : MovementsBy(w, i)' = MovementsBy(w, i)
  BY DEF MovementsBy
<1>2. QED
  BY <1>1 DEF WasteOnce

\* A commit whose movements belong to no purchase order and to no waste.
LEMMA DocumentsStay ==
  ASSUME Documented, NEW new, ledger' = ledger \cup new,
         \A m \in new : m.cause \in Counts \cup {None}, UNCHANGED <<supply, waste>>
  PROVE  Documented'
<1>1. \A m \in new : m.cause \notin Supplies \cup Wastes
  BY InventoryAssumption
<1>2. ASSUME NEW s \in Supplies
      PROVE  SupplyOnce(s)'
  BY <1>1, SupplyStaysOnce DEF Documented
<1>3. ASSUME NEW w \in Wastes
      PROVE  WasteOnce(w)'
  BY <1>1, WasteStaysOnce DEF Documented
<1>4. QED
  BY <1>2, <1>3 DEF Documented

LEMMA NothingDocumented ==
  ASSUME Documented, UNCHANGED <<ledger, supply, waste>>
  PROVE  Documented'
<1> PICK new : new = {}
  OBVIOUS
<1>1. ledger' = ledger \cup new /\ \A m \in new : m.cause \in Counts \cup {None}
  OBVIOUS
<1>2. QED
  BY <1>1, DocumentsStay

\* What a purchase or a reception posts.
LEMMA PurchaseAdds ==
  ASSUME Orderly, NEW r \in Requests, CommitPurchase(r)
  PROVE  /\ ledger' = ledger \cup {Number(m) : m \in req[r].posts}
         /\ \A m \in req[r].posts :
              /\ m \in Unnumbered
              /\ m = Movement("purchase", m.ing, req[r].qty, req[r].doc)
              /\ m.ing \in Ingredients /\ m.cause = req[r].doc
              /\ Number(m) \in Movements /\ Number(m).n = LastCommit + 1
              /\ Number(m).kind = "purchase" /\ Number(m).ing = m.ing
              /\ Number(m).cause = req[r].doc
<1>1. /\ Typed /\ Posting(r) /\ Post(req[r].posts)
      /\ req[r].posts \in SUBSET Unnumbered /\ IsFiniteSet(req[r].posts)
  BY DEF Orderly, Typed, CommitPurchase, Posting, Askings
<1>2. \A m \in req[r].posts :
        /\ m = Movement("purchase", m.ing, req[r].qty, req[r].doc)
        /\ m.kind = "purchase" /\ m.cause = req[r].doc /\ m.ing \in Ingredients
  BY <1>1 DEF Posting, Movement, Unnumbered
<1>3. QED
  BY <1>1, <1>2, PostAdds

LEMMA ReceivedOnce ==
  ASSUME Orderly, Documented, NEW r \in Requests, CommitPurchase(r),
         req[r].kind = "receive"
  PROVE  Documented'
<1> PICK s : s = req[r].doc
  OBVIOUS
<1>1. /\ Typed /\ Shaped(r) /\ KnowsDoc(r) /\ req[r].step = "commit"
  BY DEF Orderly, CommitPurchase, At
<1>2. /\ s \in Supplies /\ supply[s].status \in Receivable
  BY <1>1 DEF Shaped, KnowsDoc, SupplyKinds
<1>3. UNCHANGED waste
  BY DEF CommitPurchase
<1>4. PICK new : new = {Number(m) : m \in req[r].posts}
  OBVIOUS
<1>5. /\ ledger' = ledger \cup new
      /\ \A m \in new : m.cause = s /\ m.ing \in {p.ing : p \in req[r].posts}
      /\ \A p \in req[r].posts : Number(p).ing = p.ing
      /\ \A p \in req[r].posts : p = Movement("purchase", p.ing, req[r].qty, s)
  BY <1>4, PurchaseAdds
<1> PICK came : came = {m.ing : m \in req[r].posts}
  OBVIOUS
<1>6. /\ supply'[s].status = "received" /\ supply'[s].got = came
      /\ \A t \in Supplies \ {s} : supply'[t] = supply[t]
  <2>1. supply' = [supply EXCEPT ![s].status = "received", ![s].got = came]
    BY DEF CommitPurchase
  <2>2. QED
    BY <1>1, <1>2, <2>1 DEF Typed, Orders
<1>7. \A m \in ledger : m.cause # s
  BY <1>2 DEF Documented, SupplyOnce, Receivable
<1>8. SupplyOnce(s)'
  <2>1. ASSUME NEW i \in came
        PROVE  \E m : MovementsBy(s, i)' = {m}
    <3>1. PICK p \in req[r].posts : p.ing = i
      BY <2>1
    <3>2. MovementsBy(s, i)' = {Number(p)}
      <4>1. ASSUME NEW m \in MovementsBy(s, i)'
            PROVE  m = Number(p)
        <5>1. m \in new /\ m.ing = i
          BY <1>5, <1>7 DEF MovementsBy
        <5>2. PICK u \in req[r].posts : m = Number(u)
          BY <1>4, <5>1
        <5>3. u.ing = i
          BY <1>5, <5>1, <5>2
        <5>4. u = p
          BY <1>5, <3>1, <5>3
        <5>5. QED
          BY <5>2, <5>4
      <4>2. Number(p) \in MovementsBy(s, i)'
        BY <1>4, <1>5, <3>1 DEF MovementsBy
      <4>3. QED
        BY <4>1, <4>2
    <3>3. QED
      BY <3>2
  <2>2. \A m \in ledger' : m.cause = s => m.ing \in came
    BY <1>5, <1>7
  <2>3. QED
    BY <1>6, <2>1, <2>2 DEF SupplyOnce
<1>9. ASSUME NEW t \in Supplies \ {s}
      PROVE  SupplyOnce(t)'
  BY <1>5, <1>6, SupplyStaysOnce DEF Documented
<1>10. ASSUME NEW w \in Wastes
       PROVE  WasteOnce(w)'
  <2>1. w # s
    BY <1>2, InventoryAssumption
  <2>2. QED
    BY <1>3, <1>5, <2>1, WasteStaysOnce DEF Documented
<1>11. QED
  BY <1>8, <1>9, <1>10 DEF Documented

LEMMA PurchaseDocumented ==
  ASSUME Orderly, Documented, NEW r \in Requests, CommitPurchase(r)
  PROVE  Documented'
<1>1. req[r].kind \in {"buy", "receive"}
  BY DEF CommitPurchase, At
<1>2. CASE req[r].kind = "buy"
  <2>1. req[r].doc = None
    BY <1>2 DEF Orderly, Shaped
  <2> PICK new : new = {Number(m) : m \in req[r].posts}
    OBVIOUS
  <2>2. ledger' = ledger \cup new /\ \A m \in new : m.cause \in Counts \cup {None}
    BY <2>1, PurchaseAdds
  <2>3. UNCHANGED <<supply, waste>>
    BY <1>2 DEF CommitPurchase
  <2>4. QED
    BY <2>2, <2>3, DocumentsStay
<1>3. QED
  BY <1>1, <1>2, ReceivedOnce

LEMMA SupplyDocumented ==
  ASSUME Orderly, Documented, NEW r \in Requests, CommitSupply(r)
  PROVE  Documented'
<1> PICK s : s = req[r].doc
  OBVIOUS
<1>1. /\ Typed /\ s \in Supplies /\ supply[s].status \in Receivable
      /\ UNCHANGED <<ledger, waste>>
  BY DEF Orderly, CommitSupply, At, Shaped, KnowsDoc, SupplyKinds
<1>2. /\ supply'[s].got = supply[s].got
      /\ \A t \in Supplies \ {s} : supply'[t] = supply[t]
  <2>1. ASSUME NEW lines, supply' = [supply EXCEPT ![s].lines = lines]
        PROVE  <1>2
    BY <1>1, <2>1 DEF Typed, Orders
  <2>2. ASSUME NEW status, supply' = [supply EXCEPT ![s].status = status]
        PROVE  <1>2
    BY <1>1, <2>2 DEF Typed, Orders
  <2>3. QED
    BY <2>1, <2>2 DEF CommitSupply
<1> PICK new : new = {}
  OBVIOUS
<1>3. ASSUME NEW t \in Supplies
      PROVE  SupplyOnce(t)'
  <2>1. ledger' = ledger \cup new /\ \A m \in new : m.cause # t
    BY <1>1
  <2>2. /\ supply'[t].status = supply[t].status \/ supply[t].status # "received"
        /\ supply'[t].got = supply[t].got
    BY <1>1, <1>2 DEF Receivable
  <2>3. QED
    BY <2>1, <2>2, SupplyStaysOnce DEF Documented
<1>4. ASSUME NEW w \in Wastes
      PROVE  WasteOnce(w)'
  <2>1. ledger' = ledger \cup new /\ \A m \in new : m.cause # w
    BY <1>1
  <2>2. QED
    BY <1>1, <2>1, WasteStaysOnce DEF Documented
<1>5. QED
  BY <1>3, <1>4 DEF Documented

\* A waste that is decided, or reported.
LEMMA ApproveDocumented ==
  ASSUME Orderly, Documented, NEW r \in Requests, CommitApprove(r)
  PROVE  Documented'
<1> PICK w : w = req[r].doc
  OBVIOUS
<1>1. /\ Typed /\ w \in Wastes /\ waste[w].status = "pending"
      /\ waste[w].ing \in Ingredients /\ UNCHANGED supply
  BY DEF Orderly, Typed, CommitApprove, At, Shaped, KnowsDoc, WasteKinds
<1>2. PICK m \in Movements : /\ ledger' = ledger \cup {m}
                             /\ m.ing = waste[w].ing /\ m.cause = w
  <2>1. "waste" \in Causes /\ -1 \in Int /\ w \in Docs \cup {None}
    BY <1>1 DEF Causes, Docs
  <2>2. Post({Movement("waste", waste[w].ing, -1, w)})
    BY DEF CommitApprove
  <2>3. QED
    BY <1>1, <2>1, <2>2, PostsOne
<1> PICK new : new = {m}
  OBVIOUS
<1>3. /\ waste'[w].status = "approved" /\ waste'[w].ing = waste[w].ing
      /\ \A v \in Wastes \ {w} : waste'[v] = waste[v]
  BY <1>1 DEF CommitApprove, Typed, Losses
<1>4. WasteOnce(w)'
  <2>1. \A u \in ledger : u.cause # w
    BY <1>1 DEF Documented, WasteOnce
  <2>2. MovementsBy(w, waste[w].ing)' = {m}
    BY <1>2, <1>3, <2>1 DEF MovementsBy
  <2>3. QED
    BY <1>2, <1>3, <2>1, <2>2 DEF WasteOnce, MovementsBy
<1>5. ASSUME NEW v \in Wastes \ {w}
      PROVE  WasteOnce(v)'
  <2>1. ledger' = ledger \cup new /\ \A u \in new : u.cause # v
    BY <1>2
  <2>2. QED
    BY <1>3, <2>1, WasteStaysOnce DEF Documented
<1>6. ASSUME NEW s \in Supplies
      PROVE  SupplyOnce(s)'
  <2>1. ledger' = ledger \cup new /\ \A u \in new : u.cause # s
    BY <1>1, <1>2, InventoryAssumption
  <2>2. QED
    BY <1>1, <2>1, SupplyStaysOnce DEF Documented
<1>7. QED
  BY <1>4, <1>5, <1>6 DEF Documented

LEMMA WastesDocumented ==
  ASSUME Documented, UNCHANGED <<ledger, supply>>,
         \A w \in Wastes :
           \/ waste'[w] = waste[w]
           \/ waste[w].status # "approved" /\ waste'[w].status # "approved"
  PROVE  Documented'
<1> PICK new : new = {}
  OBVIOUS
<1>1. ASSUME NEW w \in Wastes
      PROVE  WasteOnce(w)'
  <2>1. ledger' = ledger \cup new /\ \A m \in new : m.cause # w
    OBVIOUS
  <2>2. QED
    BY <2>1, WasteStaysOnce DEF Documented
<1>2. ASSUME NEW s \in Supplies
      PROVE  SupplyOnce(s)'
  <2>1. ledger' = ledger \cup new /\ \A m \in new : m.cause # s
    OBVIOUS
  <2>2. QED
    BY <2>1, SupplyStaysOnce DEF Documented
<1>3. QED
  BY <1>1, <1>2 DEF Documented

LEMMA RejectDocumented ==
  ASSUME Orderly, Documented, NEW r \in Requests, CommitReject(r)
  PROVE  Documented'
<1>1. /\ Typed /\ req[r].doc \in Wastes /\ waste[req[r].doc].status = "pending"
      /\ UNCHANGED <<ledger, supply>>
  BY DEF Orderly, CommitReject, At, Shaped, KnowsDoc, WasteKinds
<1>2. \A w \in Wastes :
        \/ waste'[w] = waste[w]
        \/ waste[w].status # "approved" /\ waste'[w].status # "approved"
  BY <1>1 DEF CommitReject, Typed, Losses
<1>3. QED
  BY <1>1, <1>2, WastesDocumented

\* Movements of no document, one at a time.
LEMMA AloneDocumented ==
  ASSUME Typed, Documented, NEW kind \in Causes, NEW i \in Ingredients,
         NEW qty \in Int, Post({Movement(kind, i, qty, None)}),
         UNCHANGED <<supply, waste>>
  PROVE  Documented'
<1>1. None \in Docs \cup {None}
  OBVIOUS
<1>2. PICK m \in Movements : ledger' = ledger \cup {m} /\ m.cause = None
  BY <1>1, PostsOne
<1> PICK new : new = {m}
  OBVIOUS
<1>3. /\ ledger' = ledger \cup new
      /\ \A u \in new : u.cause \in Counts \cup {None}
  BY <1>2
<1>4. QED
  BY <1>3, DocumentsStay

LEMMA ReportDocumented ==
  ASSUME Typed, Documented, NEW i \in Ingredients, ReportWaste(i)
  PROVE  Documented'
<1>1. CASE Post({Movement("waste", i, -1, None)}) /\ UNCHANGED waste
  <2>1. "waste" \in Causes /\ -1 \in Int /\ UNCHANGED supply
    BY DEF Causes, ReportWaste
  <2>2. QED
    BY <1>1, <2>1, AloneDocumented
<1>2. ASSUME NEW w \in Wastes, waste[w].status = "none",
             waste' = [waste EXCEPT ![w] = [status |-> "pending", ing |-> i]],
             UNCHANGED ledger
      PROVE  Documented'
  <2>1. /\ UNCHANGED <<ledger, supply>>
        /\ \A v \in Wastes :
             \/ waste'[v] = waste[v]
             \/ waste[v].status # "approved" /\ waste'[v].status # "approved"
    BY <1>2 DEF ReportWaste, Typed
  <2>2. QED
    BY <2>1, WastesDocumented
<1>3. QED
  BY <1>1, <1>2 DEF ReportWaste

LEMMA CloseDocumented ==
  ASSUME Orderly, Documented, NEW r \in Requests, CommitClose(r)
  PROVE  Documented'
<1> PICK c : c = req[r].doc
  OBVIOUS
<1>1. /\ Typed /\ c \in Counts /\ UNCHANGED <<supply, waste>>
      /\ Post(Corrections(c))
  BY DEF Orderly, CommitClose, At, Shaped, CountKinds, Corrections
<1>2. PICK new : new = {Number(m) : m \in Corrections(c)}
  OBVIOUS
<1>3. /\ ledger' = ledger \cup new
      /\ \A m \in Corrections(c) : Number(m).cause = m.cause
  BY <1>1, <1>2, CorrectionsAre, PostAdds
<1>4. \A m \in Corrections(c) : m.cause = c
  BY DEF Corrections, Movement
<1>5. \A m \in new : m.cause \in Counts \cup {None}
  BY <1>1, <1>2, <1>3, <1>4
<1>6. QED
  BY <1>1, <1>3, <1>5, DocumentsStay

LEMMA CreateDocumented ==
  ASSUME Typed, Documented, NEW s \in Supplies, CreateSupply(s)
  PROVE  Documented'
<1>1. /\ supply[s].status = "none" /\ UNCHANGED <<ledger, waste>>
      /\ supply'[s].got = supply[s].got
      /\ \A t \in Supplies \ {s} : supply'[t] = supply[t]
  BY DEF CreateSupply, Typed, Orders
<1> PICK new : new = {}
  OBVIOUS
<1>2. ASSUME NEW t \in Supplies
      PROVE  SupplyOnce(t)'
  <2>1. ledger' = ledger \cup new /\ \A m \in new : m.cause # t
    BY <1>1
  <2>2. supply'[t].status = supply[t].status \/ supply[t].status # "received"
    BY <1>1
  <2>3. supply'[t].got = supply[t].got
    BY <1>1
  <2>4. QED
    BY <2>1, <2>2, <2>3, SupplyStaysOnce DEF Documented
<1>3. ASSUME NEW w \in Wastes
      PROVE  WasteOnce(w)'
  <2>1. ledger' = ledger \cup new /\ \A m \in new : m.cause # w
    BY <1>1
  <2>2. QED
    BY <1>1, <2>1, WasteStaysOnce DEF Documented
<1>4. QED
  BY <1>2, <1>3 DEF Documented

LEMMA NextDocumented ==
  ASSUME Orderly, Documented, [Next]_vars
  PROVE  Documented'
<1>1. Typed
  BY DEF Orderly
<1>2. ASSUME NEW r \in Requests, Reads(r)
      PROVE  Documented'
  <2>1. UNCHANGED <<ledger, supply, waste>>
    BY <1>2, ReadsWriteNothing DEF db
  <2>2. QED
    BY <2>1, NothingDocumented
<1>3. ASSUME NEW r \in Requests, CommitRecount(r)
      PROVE  Documented'
  <2>1. /\ req[r].ing \in Ingredients /\ req[r] \in Askings
        /\ UNCHANGED <<supply, waste>>
    BY <1>3 DEF CommitRecount, At, Orderly, Typed, Shaped
  <2> PICK delta : delta = req[r].qty - req[r].stock
    OBVIOUS
  <2>2. delta \in Int /\ "recount" \in Causes
    BY <2>1 DEF Askings, Causes
  <2>3. UNCHANGED ledger \/ Post({Movement("recount", req[r].ing, delta, None)})
    BY <1>3 DEF CommitRecount
  <2>4. QED
    BY <1>1, <2>1, <2>2, <2>3, AloneDocumented, NothingDocumented
<1>4. ASSUME NEW r \in Requests, CommitOpen(r) \/ CommitLoad(r) \/ CommitCancel(r)
      PROVE  Documented'
  BY <1>4, NothingDocumented DEF CommitOpen, CommitLoad, CommitCancel
<1>5. ASSUME NEW i \in Ingredients, Consume(i)
      PROVE  Documented'
  <2>1. /\ "consumption" \in Causes /\ -1 \in Int /\ UNCHANGED <<supply, waste>>
        /\ Post({Movement("consumption", i, -1, None)})
    BY <1>5 DEF Causes, Consume
  <2>2. QED
    BY <1>1, <2>1, AloneDocumented
<1>6. ASSUME NEW i \in Ingredients, Adjust(i)
      PROVE  Documented'
  <2>1. "adjustment" \in Causes /\ UNCHANGED <<supply, waste>>
    BY <1>6 DEF Causes, Adjust
  <2>2. PICK d \in {-1, 1} : Post({Movement("adjustment", i, d, None)})
    BY <1>6 DEF Adjust
  <2>3. QED
    BY <1>1, <2>1, <2>2, AloneDocumented
<1>7. ASSUME NEW i \in Ingredients, NEW p \in Prices, Reprice(i, p)
      PROVE  Documented'
  BY <1>7, NothingDocumented DEF Reprice
<1>8. ASSUME UNCHANGED vars
      PROVE  Documented'
  BY <1>8, NothingDocumented DEF vars
<1>9. ASSUME NEW r \in Requests, Run(r)
      PROVE  Documented'
  BY <1>2, <1>3, <1>4, <1>9, PurchaseDocumented, SupplyDocumented,
     ApproveDocumented, RejectDocumented, CloseDocumented DEF Run, Reads
<1>10. QED
  BY <1>1, <1>2, <1>5, <1>6, <1>7, <1>8, <1>9, ReportDocumented, CreateDocumented
     DEF Next, Reads

LEMMA InitIsDocumented ==
  ASSUME Init
  PROVE  Documented
BY DEF Init, Documented, SupplyOnce, WasteOnce

LEMMA DocumentedOnce ==
  ASSUME Orderly, Documented
  PROVE  EachDocumentOnce
<1>1. \A S : S = {} => Cardinality(S) = 0
  BY FS_EmptySet
<1>2. \A m : Cardinality({m}) = 1
  BY FS_Singleton
<1>3. ASSUME NEW i \in Ingredients, NEW s \in Supplies
      PROVE  /\ i \in supply[s].got => supply[s].status = "received"
             /\ Cardinality(MovementsBy(s, i))
                  = (IF i \in supply[s].got THEN 1 ELSE 0)
  <2>1. SupplyOnce(s)
    BY DEF Documented
  <2>2. CASE i \in supply[s].got
    BY <1>2, <2>1, <2>2 DEF SupplyOnce
  <2>3. CASE i \notin supply[s].got
    <3>1. MovementsBy(s, i) = {}
      BY <2>1, <2>3 DEF SupplyOnce, MovementsBy
    <3>2. QED
      BY <1>1, <2>3, <3>1
  <2>4. QED
    BY <2>2, <2>3
<1>4. ASSUME NEW i \in Ingredients, NEW w \in Wastes
      PROVE  Cardinality(MovementsBy(w, i))
               = (IF waste[w].status = "approved" /\ waste[w].ing = i THEN 1 ELSE 0)
  <2>1. WasteOnce(w)
    BY DEF Documented
  <2>2. CASE waste[w].status = "approved" /\ waste[w].ing = i
    BY <1>2, <2>1, <2>2 DEF WasteOnce
  <2>3. CASE ~(waste[w].status = "approved" /\ waste[w].ing = i)
    <3>1. MovementsBy(w, i) = {}
      BY <2>1, <2>3 DEF WasteOnce, MovementsBy
    <3>2. QED
      BY <1>1, <2>3, <3>1
  <2>4. QED
    BY <2>2, <2>3
<1>5. QED
  BY <1>3, <1>4 DEF EachDocumentOnce

\* However many requests receive, cancel, approve or reject the same document
\* at once, a received order brings each line that arrived once, an approved
\* waste leaves one movement, and any other document leaves none.
THEOREM DocumentsMoveStockOnce == Spec => []EachDocumentOnce
<1>1. Init => Documented
  BY InitIsDocumented
<1>2. Orderly /\ Documented /\ [Next]_vars => Documented'
  BY NextDocumented
<1>3. Orderly /\ Documented => EachDocumentOnce
  BY DocumentedOnce
<1>4. QED
  BY <1>1, <1>2, <1>3, RequestsKnowTheirDocuments, PTL DEF Spec

-----------------------------------------------------------------------------
(* Costs stay among the costs that were given. *)

Ranges(S, c) == \E low, high \in S : low <= c /\ c <= high

\* What a purchase has read and worked out lies within them too.
Weighing(r) ==
  LET me == req[r]
  IN  /\ me.kind = "buy" => me.qty > 0
      /\ me.kind = "receive" /\ me.step # "row" => me.qty > 0
      /\ me.kind \in {"buy", "receive"} /\ me.step \in {"weigh", "save"}
           => Ranges(costs[me.ing], me.readCost)
      /\ \A i \in DOMAIN me.newCost :
           Ranges(costs[i] \cup {me.newCost[i].price}, me.newCost[i].new)

Costed ==
  /\ \A i \in Ingredients : Ranges(costs[i], cost[i])
  /\ \A r \in Requests : Weighing(r)

LEMMA RangesGrow ==
  ASSUME NEW S \in SUBSET Nat, NEW T \in SUBSET Nat, S \subseteq T, NEW c,
         Ranges(S, c)
  PROVE  Ranges(T, c)
BY DEF Ranges

\* The average of a cost and a price lies between them, or is the price.
LEMMA AverageIsBetween ==
  ASSUME NEW S \in SUBSET Nat, NEW before \in Int, NEW was \in Int,
         NEW q \in Nat, q > 0, NEW p \in Nat, Ranges(S, was)
  PROVE  Ranges(S \cup {p}, Average(before, was, q, p))
<1>1. PICK low \in S, high \in S : low <= was /\ was <= high
  BY DEF Ranges
<1>2. PICK lo \in S \cup {p}, hi \in S \cup {p} :
        lo <= was /\ was <= hi /\ lo <= p /\ p <= hi
  <2>1. PICK lo \in S \cup {p} : lo <= was /\ lo <= p
    <3>1. CASE low <= p
      BY <1>1, <3>1
    <3>2. CASE ~(low <= p)
      BY <1>1, <3>2
    <3>3. QED
      BY <3>1, <3>2
  <2>2. PICK hi \in S \cup {p} : was <= hi /\ p <= hi
    <3>1. CASE p <= high
      BY <1>1, <3>1
    <3>2. CASE ~(p <= high)
      BY <1>1, <3>2
    <3>3. QED
      BY <3>1, <3>2
  <2>3. QED
    BY <2>1, <2>2
<1>3. CASE before <= 0
  <2>1. Average(before, was, q, p) = p
    BY <1>3 DEF Average
  <2>2. QED
    BY <2>1 DEF Ranges
<1>4. CASE ~(before <= 0)
  <2>1. lo \in Int /\ hi \in Int /\ before \in Nat
    BY <1>2, <1>4
  <2>2. PICK d \in Nat : d = before + q /\ d > 0
    BY <1>4, <2>1
  <2>3. PICK n \in Int : n = before * was + q * p
    OBVIOUS
  <2>4. \A a \in Nat, x, y \in Int : x <= y => a * x <= a * y
    OBVIOUS
  <2>5. before * lo <= before * was /\ q * lo <= q * p
    BY <1>2, <2>1, <2>4
  <2>6. before * was <= before * hi /\ q * p <= q * hi
    BY <1>2, <2>1, <2>4
  <2>7. before * lo + q * lo = d * lo /\ before * hi + q * hi = d * hi
    BY <2>1, <2>2
  <2>8. d * lo <= n /\ n <= d * hi
    BY <2>1, <2>3, <2>5, <2>6, <2>7
  <2>9. lo <= n \div d /\ n \div d <= hi
    <3>1. \A e \in Nat, a, b, m \in Int :
            e > 0 /\ e * a <= m /\ m <= e * b => a <= m \div e /\ m \div e <= b
      OBVIOUS
    <3>2. QED
      BY <2>1, <2>2, <2>3, <2>8, <3>1
  <2>10. Average(before, was, q, p) = n \div d
    BY <1>4, <2>2, <2>3 DEF Average
  <2>11. QED
    BY <1>2, <2>9, <2>10 DEF Ranges
<1>5. QED
  BY <1>3, <1>4

\* Costs are only added.
LEMMA WeighingStays ==
  ASSUME Orderly, Orderly', NEW q \in Requests, req'[q] = req[q], Weighing(q),
         \A i \in Ingredients : costs[i] \subseteq costs'[i]
  PROVE  Weighing(q)'
<1>1. /\ req[q] \in Askings /\ costs \in [Ingredients -> SUBSET Nat]
      /\ costs' \in [Ingredients -> SUBSET Nat]
      /\ req[q].step \in {"weigh", "save"} => req[q].ing \in Ingredients
  BY DEF Orderly, Typed, Shaped
<1>2. PICK D \in SUBSET Ingredients : req[q].newCost \in [D -> Averages]
  BY <1>1 DEF Askings, Costings
<1>3. req[q].kind \in {"buy", "receive"} /\ req[q].step \in {"weigh", "save"}
        => Ranges(costs'[req[q].ing], req[q].readCost)
  BY <1>1, RangesGrow DEF Weighing
<1>4. ASSUME NEW i \in DOMAIN req[q].newCost
      PROVE  Ranges(costs'[i] \cup {req[q].newCost[i].price}, req[q].newCost[i].new)
  <2>1. i \in Ingredients /\ i \in D
    BY <1>2
  <2>2. req[q].newCost[i] \in Averages
    BY <1>2, <2>1
  <2>3. req[q].newCost[i].price \in Nat
    BY <2>2 DEF Averages
  <2> PICK S, T : /\ S = costs[i] \cup {req[q].newCost[i].price}
                  /\ T = costs'[i] \cup {req[q].newCost[i].price}
    OBVIOUS
  <2>4. S \in SUBSET Nat /\ T \in SUBSET Nat /\ S \subseteq T
    BY <1>1, <2>1, <2>3
  <2>5. Ranges(S, req[q].newCost[i].new)
    BY DEF Weighing
  <2>6. QED
    BY <2>4, <2>5, RangesGrow
<1>5. QED
  BY <1>3, <1>4 DEF Weighing

LEMMA IdleWeighsNothing ==
  ASSUME NEW r \in Requests, req[r] = Idle
  PROVE  Weighing(r)
BY DEF Idle, Weighing

\* One request goes on, and costs stay as they are.
LEMMA CostsStay ==
  ASSUME Orderly, Orderly', Costed, NEW r \in Requests, UNCHANGED <<cost, costs>>,
         \A q \in Requests \ {r} : req'[q] = req[q], Weighing(r)'
  PROVE  Costed'
<1>1. ASSUME NEW q \in Requests, q # r
      PROVE  Weighing(q)'
  BY <1>1, WeighingStays DEF Costed
<1>2. QED
  BY <1>1 DEF Costed

\* A request ends, with the costs as they are.
LEMMA DoneCosted ==
  ASSUME Orderly, Orderly', Costed, NEW r \in Requests, UNCHANGED <<cost, costs>>,
         Done(r)
  PROVE  Costed'
<1>1. /\ req'[r] = Idle /\ \A q \in Requests \ {r} : req'[q] = req[q]
  BY Becomes, IdleIs DEF Orderly, Done
<1>2. Weighing(r)'
  BY <1>1 DEF Idle, Weighing
<1>3. QED
  BY <1>1, <1>2, CostsStay

LEMMA RefuseCosted ==
  ASSUME Orderly, Orderly', Costed, NEW r \in Requests, Refuse(r)
  PROVE  Costed'
BY DoneCosted DEF Refuse, db

LEMMA AskCosted ==
  ASSUME Orderly, Orderly', Costed, NEW r \in Requests,
         NEW kind \in Kinds, NEW step \in Steps,
         NEW doc \in Docs \cup {None}, NEW i \in Ingredients \cup {None},
         NEW q \in Nat, NEW p \in Nat, Ask(r, kind, step, doc, i, q, p),
         kind = "buy" => q > 0 /\ step = "look", kind = "receive" => step = "row"
  PROVE  Costed'
<1>1. /\ Asked(r) /\ req'[r].kind = kind /\ req'[r].step = step
      /\ req'[r].qty = q /\ \A u \in Requests \ {r} : req'[u] = req[u]
  BY AskIs
<1>2. Weighing(r)'
  BY <1>1 DEF Asked, Weighing
<1>3. QED
  BY <1>1, <1>2, CostsStay DEF Asked, db

LEMMA AsksCosted ==
  ASSUME Orderly, Orderly', Costed, NEW r \in Requests,
         AskStock(r) \/ AskSupply(r) \/ AskWaste(r) \/ AskCount(r)
  PROVE  Costed'
<1>1. /\ Quantities \subseteq Nat \ {0} /\ Prices \subseteq Nat /\ 0 \in Nat
      /\ SupplyKinds \cup WasteKinds \cup CountKinds \cup {"buy", "recount"}
           \subseteq Kinds
      /\ {"look", "weigh", "row", "glance"} \subseteq Steps
      /\ Supplies \cup Wastes \cup Counts \cup {None} \subseteq Docs \cup {None}
      /\ \A c \in Counts : count[c].lines \subseteq Ingredients
  BY InventoryAssumption
     DEF Kinds, Steps, Docs, Orderly, Typed, Sheets
<1>2. CASE AskStock(r)
  <2>1. PICK i \in Ingredients :
          \/ \E q \in Quantities, p \in Prices :
               Ask(r, "buy", "look", None, i, q, p)
          \/ \E k \in Quantities : Ask(r, "recount", "weigh", None, i, k, 0)
    BY <1>2 DEF AskStock, Touched
  <2>2. ASSUME NEW q \in Quantities, NEW p \in Prices,
               Ask(r, "buy", "look", None, i, q, p)
        PROVE  Costed'
    <3>1. /\ q \in Nat /\ q > 0 /\ p \in Nat /\ "buy" \in Kinds /\ "look" \in Steps
          /\ None \in Docs \cup {None} /\ i \in Ingredients \cup {None}
      BY <1>1
    <3>2. QED
      BY <2>2, <3>1, AskCosted
  <2>3. ASSUME NEW k \in Quantities, Ask(r, "recount", "weigh", None, i, k, 0)
        PROVE  Costed'
    <3>1. /\ k \in Nat /\ 0 \in Nat /\ "recount" \in Kinds /\ "weigh" \in Steps
          /\ None \in Docs \cup {None} /\ i \in Ingredients \cup {None}
      BY <1>1
    <3>2. QED
      BY <2>3, <3>1, AskCosted
  <2>4. QED
    BY <2>1, <2>2, <2>3
<1>3. ASSUME NEW kind \in Kinds, NEW doc \in Docs, NEW i \in Ingredients \cup {None},
             NEW k \in Nat, kind # "buy", Ask(r, kind, "row", doc, i, k, 0)
      PROVE  Costed'
  <2>1. doc \in Docs \cup {None} /\ "row" \in Steps /\ 0 \in Nat
    BY <1>1
  <2>2. QED
    BY <1>3, <2>1, AskCosted
<1>4. CASE AskSupply(r)
  <2>1. PICK s \in Supplies, kind \in SupplyKinds : Ask(r, kind, "row", s, None, 0, 0)
    BY <1>4 DEF AskSupply
  <2>2. kind \in Kinds /\ kind # "buy" /\ s \in Docs
    BY <1>1 DEF SupplyKinds, Docs
  <2>3. QED
    BY <1>1, <1>3, <2>1, <2>2
<1>5. CASE AskWaste(r)
  <2>1. PICK w \in Wastes, kind \in WasteKinds : Ask(r, kind, "row", w, None, 0, 0)
    BY <1>5 DEF AskWaste
  <2>2. kind \in Kinds /\ kind # "buy" /\ w \in Docs
    BY <1>1 DEF WasteKinds, Docs
  <2>3. QED
    BY <1>1, <1>3, <2>1, <2>2
<1>6. CASE AskCount(r)
  <2>1. PICK c \in Counts :
          \/ Ask(r, "open", "glance", c, None, 0, 0)
          \/ \E kind \in {"close", "cancel"} : Ask(r, kind, "row", c, None, 0, 0)
          \/ \E i \in count[c].lines :
               \/ Ask(r, "clear", "row", c, i, 0, 0)
               \/ \E k \in Quantities : Ask(r, "load", "row", c, i, k, 0)
    BY <1>6 DEF AskCount
  <2>2. c \in Docs /\ c \in Docs \cup {None} /\ None \in Ingredients \cup {None}
    BY DEF Docs
  <2>3. CASE Ask(r, "open", "glance", c, None, 0, 0)
    <3>1. "open" \in Kinds /\ "glance" \in Steps
      BY <1>1 DEF CountKinds
    <3>2. QED
      BY <1>1, <2>2, <2>3, <3>1, AskCosted
  <2>4. ASSUME NEW kind \in {"close", "cancel"}, Ask(r, kind, "row", c, None, 0, 0)
        PROVE  Costed'
    <3>1. kind \in Kinds /\ kind # "buy"
      BY <1>1 DEF CountKinds
    <3>2. QED
      BY <1>1, <1>3, <2>2, <2>4, <3>1
  <2>5. ASSUME NEW i \in count[c].lines, NEW kind \in {"clear", "load"},
               NEW k \in Nat, Ask(r, kind, "row", c, i, k, 0)
        PROVE  Costed'
    <3>1. kind \in Kinds /\ kind # "buy" /\ i \in Ingredients \cup {None}
      BY <1>1 DEF CountKinds
    <3>2. QED
      BY <1>3, <2>2, <2>5, <3>1
  <2>6. \A k \in Quantities : k \in Nat
    BY <1>1
  <2>7. QED
    BY <1>1, <2>1, <2>3, <2>4, <2>5, <2>6
<1>7. QED
  BY <1>2, <1>4, <1>5, <1>6

LEMMA LookCosted ==
  ASSUME Orderly, Orderly', Costed, NEW r \in Requests, Look(r)
  PROVE  Costed'
<1>1. /\ req[r].kind \in {"buy", "receive"} /\ req[r].step = "look"
      /\ req[r] \in Askings /\ req[r].ing \in Ingredients /\ Weighing(r)
  BY DEF Look, At, Orderly, Typed, Shaped, Costed
<1> PICK n : n = [req[r] EXCEPT !.step = "weigh", !.readCost = cost[req[r].ing]]
  OBVIOUS
<1>2. /\ n \in Askings /\ n.held = req[r].held /\ n.doc = req[r].doc
      /\ n.kind = req[r].kind /\ n.step = "weigh" /\ n.ing = req[r].ing
      /\ n.qty = req[r].qty /\ n.newCost = req[r].newCost
      /\ n.readCost = cost[req[r].ing]
  BY <1>1 DEF Askings, Steps, Orderly, Typed
<1>3. Proceed(r, n)
  BY DEF Look
<1>4. /\ Went(r) /\ req'[r].kind = n.kind /\ req'[r].step = n.step
      /\ req'[r].ing = n.ing /\ req'[r].qty = n.qty
      /\ req'[r].readCost = n.readCost /\ req'[r].newCost = n.newCost
      /\ \A q \in Requests \ {r} : req'[q] = req[q]
  BY <1>2, <1>3, ProceedIs
<1>5. UNCHANGED <<cost, costs>>
  BY <1>4 DEF Went, db
<1>6. Weighing(r)'
  BY <1>1, <1>2, <1>4, <1>5 DEF Weighing, Costed
<1>7. QED
  BY <1>4, <1>5, <1>6, CostsStay

LEMMA WeighCosted ==
  ASSUME Orderly, Orderly', Costed, NEW r \in Requests, Weigh(r)
  PROVE  Costed'
<1>1. /\ req[r].step = "weigh" /\ req[r] \in Askings /\ Weighing(r) /\ Typed
      /\ Stock(req[r].ing) \in Int /\ LastCommit \in Nat
  BY StockIsInt, LastCommitIs DEF Weigh, Orderly, Typed, Costed
<1> PICK n : n = [req[r] EXCEPT
       !.step = IF req[r].kind \in {"buy", "receive"} THEN "save" ELSE "commit",
       !.stock = Stock(req[r].ing),
       !.at = IF req[r].kind = "load" THEN LastCommit ELSE 0]
  OBVIOUS
<1>2. /\ n \in Askings /\ n.held = req[r].held /\ n.doc = req[r].doc
      /\ n.kind = req[r].kind /\ n.step # "row" /\ n.ing = req[r].ing
      /\ n.qty = req[r].qty /\ n.newCost = req[r].newCost
      /\ n.readCost = req[r].readCost
  BY <1>1 DEF Askings, Steps
<1>3. Proceed(r, n)
  BY DEF Weigh
<1>4. /\ Went(r) /\ req'[r].kind = n.kind /\ req'[r].step = n.step
      /\ req'[r].ing = n.ing /\ req'[r].qty = n.qty
      /\ req'[r].readCost = n.readCost /\ req'[r].newCost = n.newCost
      /\ \A q \in Requests \ {r} : req'[q] = req[q]
  BY <1>2, <1>3, ProceedIs
<1>5. UNCHANGED <<cost, costs>>
  BY <1>4 DEF Went, db
<1>6. Weighing(r)'
  BY <1>1, <1>2, <1>4, <1>5 DEF Weighing
<1>7. QED
  BY <1>4, <1>5, <1>6, CostsStay

LEMMA SaveCosted ==
  ASSUME Orderly, Orderly', Costed, NEW r \in Requests, Save(r)
  PROVE  Costed'
<1>1. /\ Went(r) /\ Saved(r) /\ \A q \in Requests \ {r} : req'[q] = req[q]
      /\ req[r].kind \in {"buy", "receive"} /\ req[r].step = "save"
      /\ req[r] \in Askings /\ req[r].ing \in Ingredients /\ Weighing(r)
      /\ costs \in [Ingredients -> SUBSET Nat]
  BY SaveIs DEF Orderly, Typed, Shaped, Costed
<1>2. UNCHANGED <<cost, costs>>
  BY <1>1 DEF Went, db
<1> PICK average :
      average = Average(req[r].stock, req[r].readCost, req[r].qty, req[r].price)
  OBVIOUS
<1>3. Ranges(costs[req[r].ing] \cup {req[r].price}, average)
  <2>1. /\ req[r].qty \in Nat /\ req[r].qty > 0 /\ req[r].price \in Nat
        /\ req[r].stock \in Int /\ req[r].readCost \in Int
        /\ costs[req[r].ing] \in SUBSET Nat
        /\ Ranges(costs[req[r].ing], req[r].readCost)
    BY <1>1 DEF Askings, Weighing
  <2>2. QED
    BY <2>1, AverageIsBetween
<1>4. req'[r].newCost = [j \in (DOMAIN req[r].newCost) \cup {req[r].ing} |->
                           IF j # req[r].ing THEN req[r].newCost[j]
                           ELSE [old |-> req[r].readCost, new |-> average,
                                 price |-> req[r].price]]
  BY <1>1 DEF Saved
<1>5. ASSUME NEW i \in DOMAIN req'[r].newCost
      PROVE  Ranges(costs[i] \cup {req'[r].newCost[i].price},
                    req'[r].newCost[i].new)
  <2>1. CASE i = req[r].ing
    BY <1>3, <1>4, <2>1
  <2>2. CASE i # req[r].ing
    <3>1. i \in DOMAIN req[r].newCost /\ req'[r].newCost[i] = req[r].newCost[i]
      BY <1>4, <1>5, <2>2
    <3>2. QED
      BY <1>1, <3>1 DEF Weighing
  <2>3. QED
    BY <2>1, <2>2
<1>6. Weighing(r)'
  <2>1. /\ req'[r].kind = req[r].kind /\ req'[r].qty = req[r].qty
        /\ req'[r].step \in {"commit", "line"}
    BY <1>1 DEF Saved
  <2>2. QED
    BY <1>1, <1>2, <1>5, <2>1 DEF Weighing
<1>7. QED
  BY <1>1, <1>2, <1>6, CostsStay

LEMMA NextLineCosted ==
  ASSUME Orderly, Orderly', Costed, NEW r \in Requests, NextLine(r)
  PROVE  Costed'
<1>1. /\ req[r].step = "line" /\ req[r] \in Askings /\ Weighing(r)
  BY DEF NextLine, Orderly, Typed, Costed
<1>2. PICK i \in req[r].left, p \in Prices :
        Proceed(r, [req[r] EXCEPT !.left = @ \ {i}, !.step = "look", !.ing = i,
                                  !.price = p])
  BY DEF NextLine
<1>3. i \in Ingredients /\ p \in Nat /\ req[r].left \in SUBSET Ingredients
  BY <1>1, InventoryAssumption DEF Askings
<1> PICK n : n = [req[r] EXCEPT !.left = @ \ {i}, !.step = "look", !.ing = i,
                                !.price = p]
  OBVIOUS
<1>4. /\ n \in Askings /\ n.held = req[r].held /\ n.doc = req[r].doc
      /\ n.kind = req[r].kind /\ n.step = "look" /\ n.qty = req[r].qty
      /\ n.newCost = req[r].newCost
  BY <1>1, <1>3 DEF Askings, Steps
<1>5. Proceed(r, n)
  BY <1>2
<1>6. /\ Went(r) /\ req'[r].kind = n.kind /\ req'[r].step = n.step
      /\ req'[r].qty = n.qty /\ req'[r].newCost = n.newCost
      /\ \A q \in Requests \ {r} : req'[q] = req[q]
  BY <1>4, <1>5, ProceedIs
<1>7. UNCHANGED <<cost, costs>>
  BY <1>6 DEF Went, db
<1>8. Weighing(r)'
  BY <1>1, <1>4, <1>6, <1>7 DEF Weighing
<1>9. QED
  BY <1>6, <1>7, <1>8, CostsStay

LEMMA TakeSupplyCosted ==
  ASSUME Orderly, Orderly', Costed, NEW r \in Requests, TakeSupply(r)
  PROVE  Costed'
<1>1. /\ req[r].kind \in SupplyKinds /\ req[r].step = "row"
      /\ req[r] \in Askings /\ Weighing(r) /\ req[r].doc \in Supplies
      /\ supply[req[r].doc].lines \subseteq Ingredients
      /\ Quantities \subseteq Nat \ {0}
  BY InventoryAssumption
     DEF TakeSupply, At, Orderly, Typed, Costed, Shaped, Orders
<1>2. CASE Refuse(r)
  BY <1>2, RefuseCosted
<1>3. ASSUME NEW n \in Askings, Proceed(r, n), n.held = req[r].held,
             n.doc = req[r].doc, n.kind = req[r].kind,
             n.newCost = req[r].newCost, n.step \in {"line", "commit"},
             n.kind = "receive" => n.qty > 0
      PROVE  Costed'
  <2>1. /\ Went(r) /\ req'[r].kind = n.kind /\ req'[r].step = n.step
        /\ req'[r].qty = n.qty /\ req'[r].newCost = n.newCost
        /\ \A q \in Requests \ {r} : req'[q] = req[q]
    BY <1>3, ProceedIs
  <2>2. UNCHANGED <<cost, costs>>
    BY <2>1 DEF Went, db
  <2>3. Weighing(r)'
    BY <1>1, <1>3, <2>1, <2>2 DEF Weighing, SupplyKinds
  <2>4. QED
    BY <2>1, <2>2, <2>3, CostsStay
<1>4. ASSUME req[r].kind # "receive",
             Proceed(r, [req[r] EXCEPT !.step = "commit"])
      PROVE  Costed'
  <2> PICK n : n = [req[r] EXCEPT !.step = "commit"]
    OBVIOUS
  <2>1. /\ n \in Askings /\ n.held = req[r].held /\ n.doc = req[r].doc
        /\ n.kind = req[r].kind /\ n.newCost = req[r].newCost
        /\ n.step = "commit" /\ Proceed(r, n)
    BY <1>1, <1>4 DEF Askings, Steps
  <2>2. QED
    BY <1>3, <1>4, <2>1
<1>5. ASSUME NEW came \in SUBSET supply[req[r].doc].lines, NEW q \in Quantities,
             Proceed(r, [req[r] EXCEPT !.left = came, !.qty = q,
                           !.step = IF came = {} THEN "commit" ELSE "line"])
      PROVE  Costed'
  <2> PICK n : n = [req[r] EXCEPT !.left = came, !.qty = q,
                      !.step = IF came = {} THEN "commit" ELSE "line"]
    OBVIOUS
  <2>1. /\ n \in Askings /\ n.held = req[r].held /\ n.doc = req[r].doc
        /\ n.kind = req[r].kind /\ n.newCost = req[r].newCost
        /\ n.step \in {"line", "commit"} /\ n.qty = q
    BY <1>1 DEF Askings, Steps
  <2>2. Proceed(r, n) /\ q > 0
    BY <1>1, <1>5
  <2>3. QED
    BY <1>3, <2>1, <2>2
<1>6. QED
  BY <1>1, <1>2, <1>4, <1>5 DEF TakeSupply

\* A statement of a request that buys nothing.
LEMMA StepCosted ==
  ASSUME Orderly, Orderly', Costed, NEW r \in Requests, NEW next \in Steps,
         req[r].kind \notin {"buy", "receive"},
         Proceed(r, [req[r] EXCEPT !.step = next])
  PROVE  Costed'
<1>1. /\ req'[r].kind = req[r].kind /\ req'[r].newCost = req[r].newCost
      /\ Went(r) /\ UNCHANGED <<cost, costs>>
  BY StepsOn
<1>2. \A q \in Requests \ {r} : req'[q] = req[q]
  BY <1>1, Becomes DEF Orderly, Went
<1>3. Weighing(r)'
  BY <1>1 DEF Weighing, Costed
<1>4. QED
  BY <1>1, <1>2, <1>3, CostsStay

LEMMA TakesCosted ==
  ASSUME Orderly, Orderly', Costed, NEW r \in Requests,
         TakeWaste(r) \/ Glance(r) \/ Insert(r) \/ TakeCount(r)
  PROVE  Costed'
<1>1. /\ req[r].kind \in WasteKinds \cup CountKinds
      /\ req[r].kind \notin {"buy", "receive"}
  BY DEF TakeWaste, Glance, Insert, TakeCount, At, WasteKinds, CountKinds
<1>2. "insert" \in Steps /\ "commit" \in Steps /\ "weigh" \in Steps
  BY DEF Steps
<1>3. CASE Refuse(r)
  BY <1>3, RefuseCosted
<1>4. ASSUME NEW next \in {"insert", "commit", "weigh"},
             Proceed(r, [req[r] EXCEPT !.step = next])
      PROVE  Costed'
  BY <1>1, <1>2, <1>4, StepCosted
<1>5. CASE TakeWaste(r) \/ Glance(r) \/ Insert(r)
  BY <1>3, <1>4, <1>5 DEF TakeWaste, Glance, Insert
<1>6. CASE TakeCount(r)
  <2>1. CASE req[r].kind = "load"
    BY <1>3, <1>4, <1>6, <2>1 DEF TakeCount
  <2>2. CASE req[r].kind # "load"
    BY <1>3, <1>4, <1>6, <2>2 DEF TakeCount
  <2>3. QED
    BY <2>1, <2>2
<1>7. QED
  BY <1>5, <1>6

LEMMA PurchaseCosted ==
  ASSUME Orderly, Orderly', Costed, NEW r \in Requests, CommitPurchase(r)
  PROVE  Costed'
<1>1. /\ Done(r) /\ req[r] \in Askings /\ Weighing(r)
      /\ cost \in [Ingredients -> Int]
      /\ costs \in [Ingredients -> SUBSET Nat]
      /\ costs' \in [Ingredients -> SUBSET Nat]
  BY DEF CommitPurchase, Orderly, Typed, Costed
<1>2. /\ req'[r] = Idle /\ \A q \in Requests \ {r} : req'[q] = req[q]
  BY <1>1, Becomes, IdleIs DEF Orderly, Done
<1>3. ASSUME NEW i \in Ingredients
      PROVE  costs'[i] = costs[i] \cup (IF i \in DOMAIN req[r].newCost
                                          THEN {req[r].newCost[i].price} ELSE {})
  BY DEF CommitPurchase
<1>4. ASSUME NEW i \in Ingredients
      PROVE  Ranges(costs'[i], cost'[i])
  <2>1. CASE i \in DOMAIN req[r].newCost /\ cost'[i] = req[r].newCost[i].new
    BY <1>1, <1>3, <2>1 DEF Weighing
  <2>2. CASE cost'[i] = cost[i]
    <3>1. costs[i] \in SUBSET Nat /\ costs'[i] \in SUBSET Nat
      BY <1>1
    <3>2. costs[i] \subseteq costs'[i] /\ Ranges(costs[i], cost[i])
      BY <1>3 DEF Costed
    <3>3. QED
      BY <2>2, <3>1, <3>2, RangesGrow
  <2>3. QED
    BY <2>1, <2>2 DEF CommitPurchase
<1>5. ASSUME NEW q \in Requests
      PROVE  Weighing(q)'
  <2>1. CASE q = r
    BY <1>2, <2>1 DEF Idle, Weighing
  <2>2. CASE q # r
    <3>1. \A i \in Ingredients : costs[i] \subseteq costs'[i]
      BY <1>3
    <3>2. QED
      BY <1>2, <2>2, <3>1, WeighingStays DEF Costed
  <2>3. QED
    BY <2>1, <2>2
<1>6. QED
  BY <1>4, <1>5 DEF Costed

LEMMA RepriceCosted ==
  ASSUME Orderly, Orderly', Costed, NEW i \in Ingredients, NEW p \in Prices,
         Reprice(i, p)
  PROVE  Costed'
<1>1. /\ p \in Nat /\ UNCHANGED req
      /\ cost \in [Ingredients -> Int]
      /\ costs \in [Ingredients -> SUBSET Nat]
      /\ costs' \in [Ingredients -> SUBSET Nat]
  BY InventoryAssumption DEF Reprice, Orderly, Typed
<1>2. /\ cost'[i] = p /\ costs'[i] = costs[i] \cup {p}
      /\ \A j \in Ingredients \ {i} : cost'[j] = cost[j] /\ costs'[j] = costs[j]
  BY <1>1 DEF Reprice
<1>3. Ranges(costs'[i], cost'[i])
  BY <1>1, <1>2 DEF Ranges
<1>4. ASSUME NEW q \in Requests
      PROVE  Weighing(q)'
  <2>1. \A j \in Ingredients : costs[j] \subseteq costs'[j]
    BY <1>2
  <2>2. QED
    BY <1>1, <2>1, WeighingStays DEF Costed
<1>5. QED
  BY <1>2, <1>3, <1>4 DEF Costed

LEMMA NextCosted ==
  ASSUME Orderly, Costed, [Next]_vars
  PROVE  Costed'
<1>1. Orderly'
  BY NextKeepsOrder
<1>2. ASSUME UNCHANGED <<cost, costs, req>>
      PROVE  Costed'
  BY <1>2 DEF Costed, Weighing, Ranges
<1>3. ASSUME NEW r \in Requests, Run(r)
      PROVE  Costed'
  <2>1. CASE \/ CommitSupply(r) \/ CommitApprove(r) \/ CommitReject(r)
             \/ CommitRecount(r) \/ CommitOpen(r) \/ CommitLoad(r)
             \/ CommitClose(r) \/ CommitCancel(r)
    <3>1. Done(r) /\ UNCHANGED <<cost, costs>>
      BY <2>1 DEF CommitSupply, CommitApprove, CommitReject, CommitRecount,
                  CommitOpen, CommitLoad, CommitClose, CommitCancel
    <3>2. QED
      BY <1>1, <3>1, DoneCosted
  <2>2. QED
    BY <1>1, <1>3, <2>1, LookCosted, WeighCosted, SaveCosted, NextLineCosted,
       PurchaseCosted, TakeSupplyCosted, TakesCosted DEF Run
<1>4. ASSUME NEW r \in Requests, Abort(r)
      PROVE  Costed'
  BY <1>1, <1>4, DoneCosted DEF Abort, db
<1>5. ASSUME NEW i \in Ingredients, Consume(i) \/ ReportWaste(i) \/ Adjust(i)
      PROVE  Costed'
  BY <1>2, <1>5 DEF Consume, ReportWaste, Adjust
<1>6. ASSUME NEW s \in Supplies, CreateSupply(s)
      PROVE  Costed'
  BY <1>2, <1>6 DEF CreateSupply
<1>7. ASSUME UNCHANGED vars
      PROVE  Costed'
  BY <1>2, <1>7 DEF vars
<1>8. QED
  BY <1>1, <1>3, <1>4, <1>5, <1>6, <1>7, AsksCosted, RepriceCosted DEF Next

LEMMA InitIsCosted ==
  ASSUME Init
  PROVE  Costed
<1>1. \A i \in Ingredients : cost[i] = FirstCost /\ costs[i] = {FirstCost}
  BY DEF Init
<1>2. FirstCost \in Nat
  BY InventoryAssumption
<1>3. \A r \in Requests : Weighing(r)
  BY IdleWeighsNothing DEF Init
<1>4. QED
  BY <1>1, <1>2, <1>3 DEF Costed, Ranges

\* However purchases of an ingredient overlap, and with its stock below zero
\* too, its cost lies between two costs it was given.
THEOREM CostsStayInRange == Spec => []CostIsAnAverage
<1>1. Init => Costed
  BY InitIsCosted
<1>2. Orderly /\ Costed /\ [Next]_vars => Costed'
  BY NextCosted
<1>3. Costed => CostIsAnAverage
  BY DEF Costed, Ranges, CostIsAnAverage
<1>4. QED
  BY <1>1, <1>2, <1>3, RequestsKnowTheirDocuments, PTL DEF Spec

-----------------------------------------------------------------------------
(* What was counted holds. *)

\* Of the movements of an ingredient, those a stock read at n had in it, and
\* the corrections that came after.
Upto(i, n) == {m \in ledger : m.ing = i /\ m.n <= n}
CorrectedAfter(i, n) ==
  {m \in ledger : m.ing = i /\ m.n > n /\ m.kind = "count"}

\* A quantity goes with the stock of its moment.
Matches(i, expected, at) == at <= LastCommit /\ expected = Total(Upto(i, at))

SheetHolds(c) ==
  LET sheet == count[c]
  IN  /\ sheet.status = "closed" => sheet.closed <= Cardinality(Closed)
      /\ \A i \in Ingredients : sheet.loaded[i].counted # None =>
           /\ sheet.status # "none"
           /\ Matches(i, sheet.loaded[i].expected, sheet.loaded[i].at)
           /\ sheet.status = "draft"
                => CorrectedAfter(i, sheet.loaded[i].at) = {}
      /\ \A i \in Ingredients : RulesFor(c, i) =>
           Total(CorrectedAfter(i, sheet.loaded[i].at)) = Difference(c, i)

LoadReady(r) ==
  LET me == req[r]
  IN  me.kind = "load" /\ me.step = "commit" =>
        /\ Matches(me.ing, me.stock, me.at)
        /\ CorrectedAfter(me.ing, me.at) = {}

Sheeted ==
  /\ \A c, d \in Drafts : c = d
  /\ \A c \in Counts : SheetHolds(c)
  /\ \A r \in Requests : LoadReady(r)

\* What a commit adds comes after all there was.
Added(new) ==
  /\ ledger' = ledger \cup new
  /\ \A m \in new : m \in Movements /\ m.n = LastCommit + 1

LEMMA AddedLater ==
  ASSUME Typed, Typed', NEW new, Added(new)
  PROVE  /\ LastCommit <= LastCommit' /\ LastCommit \in Nat /\ LastCommit' \in Nat
         /\ \A i \in Ingredients, n \in Nat : n <= LastCommit =>
              /\ Upto(i, n)' = Upto(i, n)
              /\ CorrectedAfter(i, n)' = CorrectedAfter(i, n)
                   \cup {m \in new : m.ing = i /\ m.kind = "count"}
<1>1. LastCommit \in Nat /\ \A m \in ledger : m.n <= LastCommit /\ m.n \in Nat
  BY LastCommitIs DEF Typed, Movements
<1>2. LastCommit' \in Nat /\ \A m \in ledger' : m.n <= LastCommit'
  <2>1. ASSUME NEW L, L \in SUBSET Movements, IsFiniteSet(L)
        PROVE  /\ Max({0} \cup {m.n : m \in L}) \in Nat
               /\ \A k \in L : k.n <= Max({0} \cup {m.n : m \in L})
    BY <2>1, GreatestNumber
  <2>2. QED
    BY <2>1 DEF Typed, LastCommit
<1>3. LastCommit <= LastCommit'
  BY <1>1, <1>2, LastCommitIs DEF Added
<1>4. \A m \in new : m.n = LastCommit + 1 /\ m.n \in Nat
  BY DEF Added, Movements
<1>5. ASSUME NEW i \in Ingredients, NEW n \in Nat, n <= LastCommit
      PROVE  /\ Upto(i, n)' = Upto(i, n)
             /\ CorrectedAfter(i, n)' = CorrectedAfter(i, n)
                  \cup {m \in new : m.ing = i /\ m.kind = "count"}
  <2>1. \A m \in new : ~(m.n <= n) /\ m.n > n
    BY <1>1, <1>4, <1>5
  <2>2. Upto(i, n)' = Upto(i, n)
    BY <2>1 DEF Upto, Added
  <2>3. CorrectedAfter(i, n)' = CorrectedAfter(i, n)
          \cup {m \in new : m.ing = i /\ m.kind = "count"}
    BY <2>1 DEF CorrectedAfter, Added
  <2>4. QED
    BY <2>2, <2>3
<1>6. QED
  BY <1>1, <1>2, <1>3, <1>5

\* The corrections of a count that another commit leaves out stay as they were.
LEMMA MatchStays ==
  ASSUME Typed, Typed', NEW new, Added(new), NEW i \in Ingredients,
         NEW expected, NEW at \in Nat, Matches(i, expected, at)
  PROVE  Matches(i, expected, at)'
<1>1. /\ at <= LastCommit /\ LastCommit <= LastCommit'
      /\ LastCommit \in Nat /\ LastCommit' \in Nat
  BY AddedLater DEF Matches
<1>2. Upto(i, at)' = Upto(i, at)
  BY <1>1, AddedLater
<1>3. QED
  BY <1>1, <1>2 DEF Matches

LEMMA LoadsAre ==
  ASSUME Typed, NEW c \in Counts, NEW i \in Ingredients
  PROVE  /\ count[c].loaded[i] \in Loads /\ count[c].loaded[i].at \in Nat
         /\ i \in Counted(c) => count[c].loaded[i].counted # None
BY DEF Typed, Sheets, Loads, Counted

\* A count that is not the one a commit is about.
LEMMA SheetStays ==
  ASSUME Typed, Typed', NEW new, Added(new), NEW c \in Counts, SheetHolds(c),
         count'[c] = count[c],
         \A i \in Ingredients : RulesFor(c, i)' =>
           RulesFor(c, i) /\ \A m \in new : m.ing = i => m.kind # "count",
         count[c].status = "draft" => \A m \in new : m.kind # "count",
         count[c].status = "closed" => Cardinality(Closed) <= Cardinality(Closed'),
         Cardinality(Closed) \in Nat, Cardinality(Closed') \in Nat
  PROVE  SheetHolds(c)'
<1>1. \A i \in Ingredients, n \in Nat : n <= LastCommit =>
        /\ Upto(i, n)' = Upto(i, n)
        /\ CorrectedAfter(i, n)' = CorrectedAfter(i, n)
             \cup {m \in new : m.ing = i /\ m.kind = "count"}
  BY AddedLater
<1>2. \A i \in Ingredients : Difference(c, i)' = Difference(c, i)
  BY DEF Difference
<1>3. count[c].status = "closed" => count[c].closed <= Cardinality(Closed')
  <2>1. count[c].closed \in Nat
    BY DEF Typed, Sheets
  <2>2. QED
    BY <2>1 DEF SheetHolds
<1>4. ASSUME NEW i \in Ingredients, count[c].loaded[i].counted # None
      PROVE  /\ Matches(i, count[c].loaded[i].expected, count[c].loaded[i].at)'
             /\ count[c].status = "draft"
                  => CorrectedAfter(i, count[c].loaded[i].at)' = {}
  <2> PICK at \in Nat : at = count[c].loaded[i].at
    BY LoadsAre
  <2> PICK expected : expected = count[c].loaded[i].expected
    OBVIOUS
  <2>1. Matches(i, expected, at) /\ at <= LastCommit
    BY <1>4 DEF SheetHolds, Matches
  <2>2. Matches(i, expected, at)'
    BY <2>1, MatchStays
  <2>3. count[c].status = "draft" => CorrectedAfter(i, at)' = {}
    BY <1>1, <1>4, <2>1 DEF SheetHolds
  <2>4. QED
    BY <2>2, <2>3
<1>5. ASSUME NEW i \in Ingredients, RulesFor(c, i)'
      PROVE  Total(CorrectedAfter(i, count[c].loaded[i].at))' = Difference(c, i)'
  <2>1. RulesFor(c, i) /\ \A m \in new : m.ing = i => m.kind # "count"
    BY <1>5
  <2>2. count[c].loaded[i].counted # None /\ count[c].loaded[i].at \in Nat
    BY <2>1, LoadsAre DEF RulesFor
  <2>3. count[c].loaded[i].at <= LastCommit
    BY <2>2 DEF SheetHolds, Matches
  <2>4. CorrectedAfter(i, count[c].loaded[i].at)'
          = CorrectedAfter(i, count[c].loaded[i].at)
    <3> PICK at \in Nat : at = count[c].loaded[i].at
      BY <2>2
    <3>1. {m \in new : m.ing = i /\ m.kind = "count"} = {}
      BY <2>1
    <3>2. at <= LastCommit
      BY <2>3
    <3>3. CorrectedAfter(i, at)' = CorrectedAfter(i, at)
            \cup {m \in new : m.ing = i /\ m.kind = "count"}
      BY <1>1, <3>2
    <3>4. CorrectedAfter(i, at)' = CorrectedAfter(i, at)
      BY <3>1, <3>3
    <3>5. QED
      BY <3>4
  <2>5. QED
    BY <1>2, <2>1, <2>4 DEF SheetHolds
<1>6. QED
  BY <1>3, <1>4, <1>5 DEF SheetHolds

LEMMA ClosedAre ==
  /\ IsFiniteSet(Closed) /\ Cardinality(Closed) \in Nat
  /\ IsFiniteSet(Closed') /\ Cardinality(Closed') \in Nat
<1>1. IsFiniteSet(Closed) /\ IsFiniteSet(Closed')
  BY FS_Subset, InventoryAssumption DEF Closed
<1>2. QED
  BY <1>1, FS_CardinalityType

\* Requests that do not load anything now.
Onlookers ==
  \A q \in Requests :
    req'[q] = req[q] \/ ~(req'[q].kind = "load" /\ req'[q].step = "commit")

LEMMA ReadyStays ==
  ASSUME Orderly, Orderly', NEW new, Added(new), \A m \in new : m.kind # "count",
         NEW q \in Requests, req'[q] = req[q], LoadReady(q)
  PROVE  LoadReady(q)'
<1>1. SUFFICES ASSUME req[q].kind = "load", req[q].step = "commit"
               PROVE  /\ Matches(req[q].ing, req[q].stock, req[q].at)'
                      /\ CorrectedAfter(req[q].ing, req[q].at)' = {}
  BY DEF LoadReady
<1> PICK i \in Ingredients, at \in Nat : i = req[q].ing /\ at = req[q].at
  BY <1>1 DEF Orderly, Typed, Askings, Shaped
<1> PICK stock : stock = req[q].stock
  OBVIOUS
<1>2. Matches(i, stock, at) /\ at <= LastCommit /\ CorrectedAfter(i, at) = {}
  BY <1>1 DEF LoadReady, Matches
<1>3. Matches(i, stock, at)'
  BY <1>2, MatchStays DEF Orderly
<1>4. CorrectedAfter(i, at)' = {}
  BY <1>2, AddedLater DEF Orderly
<1>5. QED
  BY <1>3, <1>4

\* Movements that are no corrections, and no count touched.
LEMMA SheetsStay ==
  ASSUME Orderly, Orderly', Sheeted, NEW new, Added(new),
         \A m \in new : m.kind # "count", UNCHANGED count, Onlookers
  PROVE  Sheeted'
<1>1. ASSUME NEW c \in Counts
      PROVE  SheetHolds(c)'
  <2>1. Closed' = Closed /\ \A i \in Ingredients : RulesFor(c, i)' <=> RulesFor(c, i)
    BY DEF Closed, RulesFor, Counted
  <2>2. SheetHolds(c) /\ Typed /\ Typed'
    BY DEF Sheeted, Orderly
  <2>3. Cardinality(Closed) \in Nat /\ Cardinality(Closed') \in Nat
    BY ClosedAre
  <2>4. Cardinality(Closed) <= Cardinality(Closed')
    BY <2>1, <2>3
  <2>5. QED
    BY <2>1, <2>2, <2>3, <2>4, SheetStays
<1>2. ASSUME NEW q \in Requests
      PROVE  LoadReady(q)'
  BY ReadyStays DEF Onlookers, Sheeted, LoadReady
<1>3. \A c, d \in Drafts' : c = d
  BY DEF Sheeted, Drafts
<1>4. QED
  BY <1>1, <1>2, <1>3 DEF Sheeted

\* Whoever changes a count, without closing it and without closed counts.
LEMMA SheetChanges ==
  ASSUME Orderly, Orderly', Sheeted, NEW r \in Requests, Done(r),
         UNCHANGED ledger, NEW c \in Counts,
         \A d \in Counts \ {c} : count'[d] = count[d],
         count[c].status # "closed", count'[c].status # "closed",
         \A d \in Drafts' : d = c \/ d \in Drafts,
         c \in Drafts' => \A d \in Drafts : d = c,
         \A i \in Ingredients : count'[c].loaded[i].counted # None =>
           /\ count'[c].status # "none"
           /\ Matches(i, count'[c].loaded[i].expected, count'[c].loaded[i].at)
           /\ count'[c].status = "draft"
                => CorrectedAfter(i, count'[c].loaded[i].at) = {}
  PROVE  Sheeted'
<1>1. Closed' = Closed
  BY DEF Closed
<1> PICK new : new = {}
  OBVIOUS
<1>2. Added(new) /\ \A m \in new : m.kind # "count"
  BY DEF Added
<1>3. ASSUME NEW d \in Counts \ {c}
      PROVE  SheetHolds(d)'
  <2>1. \A i \in Ingredients : RulesFor(d, i)' => RulesFor(d, i)
    BY <1>1 DEF RulesFor, Counted, Closed
  <2>2. SheetHolds(d) /\ Typed /\ Typed'
    BY DEF Sheeted, Orderly
  <2>3. Cardinality(Closed) \in Nat /\ Cardinality(Closed') \in Nat
    BY ClosedAre
  <2>4. Cardinality(Closed) <= Cardinality(Closed')
    BY <1>1, <2>3
  <2>5. QED
    BY <1>2, <2>1, <2>2, <2>3, <2>4, SheetStays
<1>4. SheetHolds(c)'
  <2>1. \A i \in Ingredients : ~RulesFor(c, i)'
    BY DEF RulesFor, Closed
  <2>2. /\ LastCommit' = LastCommit
        /\ \A i, n : /\ Upto(i, n)' = Upto(i, n)
                     /\ CorrectedAfter(i, n)' = CorrectedAfter(i, n)
    BY DEF LastCommit, Upto, CorrectedAfter
  <2>3. \A i, e, n : Matches(i, e, n)' <=> Matches(i, e, n)
    BY <2>2 DEF Matches
  <2>4. ASSUME NEW i \in Ingredients, count'[c].loaded[i].counted # None
        PROVE  /\ count'[c].status # "none"
               /\ Matches(i, count[c].loaded[i].expected, count[c].loaded[i].at)'
               /\ count'[c].status = "draft"
                    => CorrectedAfter(i, count[c].loaded[i].at)' = {}
    <3> PICK e, n : /\ e = count'[c].loaded[i].expected
                    /\ n = count'[c].loaded[i].at
      OBVIOUS
    <3>1. /\ count'[c].status # "none" /\ Matches(i, e, n)
          /\ count'[c].status = "draft" => CorrectedAfter(i, n) = {}
      BY <2>4
    <3>2. /\ Matches(i, e, n)'
          /\ CorrectedAfter(i, n)' = CorrectedAfter(i, n)
      BY <2>2, <2>3, <3>1
    <3>3. QED
      BY <3>1, <3>2
  <2>5. QED
    BY <2>1, <2>4 DEF SheetHolds
<1>5. ASSUME NEW q \in Requests
      PROVE  LoadReady(q)'
  <2>1. /\ req'[r] = Idle /\ \A p \in Requests \ {r} : req'[p] = req[p]
    BY Becomes, IdleIs DEF Orderly, Done
  <2>2. CASE q = r
    BY <2>1, <2>2, IdleIs DEF LoadReady
  <2>3. CASE q # r
    BY <1>2, <2>1, <2>3, ReadyStays DEF Sheeted
  <2>4. QED
    BY <2>2, <2>3
<1>6. \A d, e \in Drafts' : d = e
  BY DEF Sheeted
<1>7. QED
  BY <1>3, <1>4, <1>5, <1>6 DEF Sheeted

LEMMA OpenSheeted ==
  ASSUME Orderly, Orderly', Sheeted, NEW r \in Requests, CommitOpen(r)
  PROVE  Sheeted'
<1> PICK c : c = req[r].doc
  OBVIOUS
<1>1. /\ c \in Counts /\ count[c].status = "none" /\ Drafts = {} /\ Done(r)
      /\ UNCHANGED ledger /\ count \in [Counts -> Sheets]
  BY DEF CommitOpen, At, Orderly, Typed, Shaped, KnowsDoc, CountKinds
<1>2. PICK lines \in (SUBSET Touched) \ {{}} :
        count' = [count EXCEPT ![c].status = "draft", ![c].lines = lines]
  BY DEF CommitOpen
<1>3. /\ count'[c].status = "draft" /\ count'[c].loaded = count[c].loaded
      /\ \A d \in Counts \ {c} : count'[d] = count[d]
  BY <1>1, <1>2 DEF Sheets
<1>4. \A i \in Ingredients : count'[c].loaded[i].counted = None
  BY <1>1, <1>3 DEF Sheeted, SheetHolds
<1>5. \A d \in Drafts' : d = c
  BY <1>1, <1>3 DEF Drafts
<1>6. QED
  BY <1>1, <1>3, <1>4, <1>5, SheetChanges

LEMMA CancelSheeted ==
  ASSUME Orderly, Orderly', Sheeted, NEW r \in Requests, CommitCancel(r)
  PROVE  Sheeted'
<1> PICK c : c = req[r].doc
  OBVIOUS
<1>1. /\ c \in Counts /\ count[c].status = "draft" /\ Done(r)
      /\ UNCHANGED ledger /\ count \in [Counts -> Sheets]
  BY DEF CommitCancel, At, Orderly, Typed, Shaped, KnowsDoc, CountKinds
<1>2. /\ count'[c].status = "cancelled" /\ count'[c].loaded = count[c].loaded
      /\ \A d \in Counts \ {c} : count'[d] = count[d]
  BY <1>1 DEF CommitCancel, Sheets
<1>3. \A i \in Ingredients : count'[c].loaded[i].counted # None =>
        Matches(i, count'[c].loaded[i].expected, count'[c].loaded[i].at)
  BY <1>1, <1>2 DEF Sheeted, SheetHolds
<1>4. \A d \in Drafts' : d \in Drafts /\ d # c
  BY <1>2 DEF Drafts
<1>5. QED
  BY <1>1, <1>2, <1>3, <1>4, SheetChanges

LEMMA LoadSheeted ==
  ASSUME Orderly, Orderly', Sheeted, NEW r \in Requests, CommitLoad(r)
  PROVE  Sheeted'
<1> PICK c, i : c = req[r].doc /\ i = req[r].ing
  OBVIOUS
<1>1. /\ c \in Counts /\ i \in Ingredients /\ count[c].status = "draft" /\ Done(r)
      /\ UNCHANGED ledger /\ count \in [Counts -> Sheets]
      /\ req[r].kind \in {"load", "clear"} /\ req[r].step = "commit"
  BY DEF CommitLoad, At, Orderly, Typed, Shaped, KnowsDoc, CountKinds
<1>2. PICK load \in Loads :
        /\ load = IF req[r].kind = "clear" THEN NotLoaded
                  ELSE [counted |-> req[r].qty, expected |-> req[r].stock,
                        at |-> req[r].at]
        /\ count' = [count EXCEPT ![c].loaded[i] = load]
  BY LoadIs
<1>3. /\ count'[c].status = "draft" /\ count'[c].loaded[i] = load
      /\ \A j \in Ingredients \ {i} : count'[c].loaded[j] = count[c].loaded[j]
      /\ \A d \in Counts \ {c} : count'[d] = count[d]
  BY <1>1, <1>2 DEF Sheets
<1>4. load.counted # None =>
        Matches(i, load.expected, load.at) /\ CorrectedAfter(i, load.at) = {}
  <2>1. CASE req[r].kind = "clear"
    BY <1>2, <2>1 DEF NotLoaded
  <2>2. CASE req[r].kind = "load"
    BY <1>1, <1>2, <2>2 DEF Sheeted, LoadReady
  <2>3. QED
    BY <1>1, <2>1, <2>2
<1>5. ASSUME NEW j \in Ingredients, count'[c].loaded[j].counted # None
      PROVE  /\ Matches(j, count'[c].loaded[j].expected, count'[c].loaded[j].at)
             /\ CorrectedAfter(j, count'[c].loaded[j].at) = {}
  <2>1. CASE j = i
    BY <1>3, <1>4, <1>5, <2>1
  <2>2. CASE j # i
    BY <1>1, <1>3, <1>5, <2>2 DEF Sheeted, SheetHolds
  <2>3. QED
    BY <2>1, <2>2
<1>6. /\ \A d \in Drafts' : d = c \/ d \in Drafts
      /\ \A d \in Drafts : d = c
  BY <1>1, <1>3 DEF Drafts, Sheeted
<1>7. QED
  BY <1>1, <1>3, <1>5, <1>6, SheetChanges

\* The stock a request weighs is the stock of now.
LEMMA WeighSheeted ==
  ASSUME Orderly, Orderly', Sheeted, NEW r \in Requests, Weigh(r)
  PROVE  Sheeted'
<1>1. /\ req[r].step = "weigh" /\ req[r] \in Askings /\ req[r].ing \in Ingredients
      /\ Typed /\ Stock(req[r].ing) \in Int /\ LastCommit \in Nat
      /\ \A m \in ledger : m.n <= LastCommit /\ m.n \in Nat
  BY StockIsInt, LastCommitIs DEF Weigh, Orderly, Typed, Shaped, Movements
<1> PICK n : n = [req[r] EXCEPT
       !.step = IF req[r].kind \in {"buy", "receive"} THEN "save" ELSE "commit",
       !.stock = Stock(req[r].ing),
       !.at = IF req[r].kind = "load" THEN LastCommit ELSE 0]
  OBVIOUS
<1>2. /\ n \in Askings /\ n.held = req[r].held /\ n.doc = req[r].doc
      /\ n.kind = req[r].kind /\ n.ing = req[r].ing
      /\ n.stock = Stock(req[r].ing)
      /\ n.kind = "load" => n.at = LastCommit
  BY <1>1 DEF Askings, Steps
<1>3. Proceed(r, n)
  BY DEF Weigh
<1>4. /\ Went(r) /\ req'[r].kind = n.kind /\ req'[r].ing = n.ing
      /\ req'[r].stock = n.stock /\ req'[r].at = n.at
      /\ \A q \in Requests \ {r} : req'[q] = req[q]
  BY <1>2, <1>3, ProceedIs
<1>5. UNCHANGED <<ledger, count>>
  BY <1>4 DEF Went, db
<1>6. /\ LastCommit' = LastCommit
      /\ \A i, k : /\ Upto(i, k)' = Upto(i, k)
                   /\ CorrectedAfter(i, k)' = CorrectedAfter(i, k)
  BY <1>5 DEF LastCommit, Upto, CorrectedAfter
<1>7. LoadReady(r)'
  <2>1. SUFFICES ASSUME n.kind = "load"
                 PROVE  /\ Matches(n.ing, n.stock, n.at)'
                        /\ CorrectedAfter(n.ing, n.at)' = {}
    BY <1>4 DEF LoadReady
  <2>2. n.at = LastCommit /\ n.stock = Stock(n.ing)
    BY <1>2, <2>1
  <2>3. Upto(n.ing, LastCommit) = MovementsOf(n.ing)
    BY <1>1 DEF Upto, MovementsOf
  <2>4. CorrectedAfter(n.ing, LastCommit) = {}
    BY <1>1 DEF CorrectedAfter
  <2>5. Matches(n.ing, n.stock, n.at)
    BY <1>1, <2>2, <2>3 DEF Matches, Stock
  <2>6. QED
    BY <1>6, <2>2, <2>4, <2>5 DEF Matches
<1>8. ASSUME NEW q \in Requests
      PROVE  LoadReady(q)'
  <2>1. CASE q = r
    BY <1>7, <2>1
  <2>2. CASE q # r
    BY <1>4, <1>6, <2>2 DEF Sheeted, LoadReady, Matches
  <2>3. QED
    BY <2>1, <2>2
<1>9. ASSUME NEW c \in Counts
      PROVE  SheetHolds(c)'
  <2>1. /\ Closed' = Closed
        /\ \A i : RulesFor(c, i)' <=> RulesFor(c, i)
        /\ \A i : Difference(c, i)' = Difference(c, i)
    BY <1>5 DEF Closed, RulesFor, Counted, Difference
  <2>2. \A i, e, k : Matches(i, e, k)' <=> Matches(i, e, k)
    BY <1>6 DEF Matches
  <2>3. SheetHolds(c)
    BY DEF Sheeted
  <2>4. QED
    BY <1>5, <1>6, <2>1, <2>2, <2>3 DEF SheetHolds
<1>10. \A c, d \in Drafts' : c = d
  BY <1>5 DEF Sheeted, Drafts
<1>11. QED
  BY <1>8, <1>9, <1>10 DEF Sheeted

\* What closing a count adds: its corrections, one for each difference.
LEMMA CloseAdds ==
  ASSUME Typed, NEW c \in Counts, Post(Corrections(c))
  PROVE  \E new :
           /\ Added(new)
           /\ \A m \in new : m.kind = "count" /\ m.ing \in Counted(c)
           /\ \A i \in Counted(c) :
                /\ Difference(c, i) = 0 => \A m \in new : m.ing # i
                /\ Difference(c, i) # 0 =>
                     \E m \in new : /\ m.qty = Difference(c, i)
                                    /\ {u \in new : u.ing = i} = {m}
<1> PICK new : new = {Number(m) : m \in Corrections(c)}
  OBVIOUS
<1>1. /\ ledger' = ledger \cup new
      /\ \A m \in Corrections(c) :
           /\ Number(m) \in Movements /\ Number(m).n = LastCommit + 1
           /\ Number(m).kind = m.kind /\ Number(m).ing = m.ing
           /\ Number(m).qty = m.qty
  BY CorrectionsAre, PostAdds
<1>2. \A m \in Corrections(c) :
        /\ m.kind = "count" /\ m.ing \in Counted(c) /\ Difference(c, m.ing) # 0
        /\ m = Movement("count", m.ing, Difference(c, m.ing), c)
        /\ m.qty = Difference(c, m.ing)
  BY DEF Corrections, Movement
<1>3. Added(new)
  BY <1>1 DEF Added
<1>4. \A m \in new : m.kind = "count" /\ m.ing \in Counted(c)
  BY <1>1, <1>2
<1>5. ASSUME NEW i \in Counted(c), Difference(c, i) = 0
      PROVE  \A m \in new : m.ing # i
  BY <1>1, <1>2, <1>5
<1>6. ASSUME NEW i \in Counted(c), Difference(c, i) # 0
      PROVE  \E m \in new : /\ m.qty = Difference(c, i)
                            /\ {u \in new : u.ing = i} = {m}
  <2> PICK p : p = Movement("count", i, Difference(c, i), c)
    OBVIOUS
  <2>1. p \in Corrections(c) /\ p.ing = i
    BY <1>6 DEF Corrections, Movement
  <2>2. Number(p) \in new /\ Number(p).qty = Difference(c, i) /\ Number(p).ing = i
    BY <1>1, <1>2, <2>1
  <2>3. ASSUME NEW u \in new, u.ing = i
        PROVE  u = Number(p)
    <3>1. PICK m \in Corrections(c) : u = Number(m)
      OBVIOUS
    <3>2. m.ing = i
      BY <1>1, <2>3, <3>1
    <3>3. m = p
      BY <1>2, <3>2
    <3>4. QED
      BY <3>1, <3>3
  <2>4. {u \in new : u.ing = i} = {Number(p)}
    BY <2>2, <2>3
  <2>5. QED
    BY <2>2, <2>4
<1>7. QED
  BY <1>3, <1>4, <1>5, <1>6

LEMMA CloseSheeted ==
  ASSUME Orderly, Orderly', Sheeted, NEW r \in Requests, CommitClose(r)
  PROVE  Sheeted'
<1> PICK c : c = req[r].doc
  OBVIOUS
<1>1. /\ c \in Counts /\ count[c].status = "draft" /\ Done(r) /\ Typed /\ Typed'
      /\ req[r].kind = "close" /\ req[r].step = "commit" /\ c \in req[r].held
      /\ count \in [Counts -> Sheets] /\ Post(Corrections(c)) /\ SheetHolds(c)
  BY DEF CommitClose, At, Orderly, Typed, Shaped, HasRow, KnowsDoc, CountKinds,
         Corrections, Sheeted
<1> PICK k : k = 1 + Cardinality(Closed)
  OBVIOUS
<1>2. /\ count'[c].status = "closed" /\ count'[c].closed = k
      /\ count'[c].lines = count[c].lines /\ count'[c].loaded = count[c].loaded
      /\ \A d \in Counts \ {c} : count'[d] = count[d]
  <2>1. count' = [count EXCEPT ![c].status = "closed", ![c].closed = k]
    BY DEF CommitClose
  <2>2. QED
    BY <1>1, <2>1 DEF Sheets
<1>3. PICK new :
        /\ Added(new)
        /\ \A m \in new : m.kind = "count" /\ m.ing \in Counted(c)
        /\ \A i \in Counted(c) :
             /\ Difference(c, i) = 0 => \A m \in new : m.ing # i
             /\ Difference(c, i) # 0 =>
                  \E m \in new : /\ m.qty = Difference(c, i)
                                 /\ {u \in new : u.ing = i} = {m}
  BY <1>1, CloseAdds
<1>4. /\ Closed' = Closed \cup {c} /\ c \notin Closed
      /\ Cardinality(Closed) \in Nat /\ Cardinality(Closed') \in Nat
      /\ Cardinality(Closed') = k /\ Cardinality(Closed) < k
  <2>1. Closed' = Closed \cup {c} /\ c \notin Closed
    BY <1>1, <1>2 DEF Closed
  <2>2. /\ IsFiniteSet(Closed) /\ Cardinality(Closed) \in Nat
    BY ClosedAre
  <2>3. Cardinality(Closed \cup {c}) = Cardinality(Closed) + 1
    BY <2>1, <2>2, FS_AddElement
  <2>4. QED
    BY <2>1, <2>2, <2>3
<1>5. \A d \in Counts : Counted(d)' = Counted(d)
  BY <1>2 DEF Counted
<1>6. \A d \in Drafts : d = c
  BY <1>1 DEF Sheeted, Drafts
<1>7. ASSUME NEW d \in Counts \ {c}
      PROVE  SheetHolds(d)'
  <2>1. ASSUME NEW i \in Ingredients, RulesFor(d, i)'
        PROVE  RulesFor(d, i) /\ \A m \in new : m.ing = i => m.kind # "count"
    <3>1. /\ d \in Closed /\ i \in Counted(d)
          /\ \A e \in Closed : i \in Counted(e) => count[e].closed <= count[d].closed
          /\ i \in Counted(c) => k <= count[d].closed
      <4>1. /\ d \in Closed' /\ i \in Counted(d)'
            /\ \A e \in Closed' : i \in Counted(e)' =>
                 count'[e].closed <= count'[d].closed
        BY <2>1 DEF RulesFor
      <4>2. \A e \in Closed : e \in Counts \ {c}
        BY <1>4 DEF Closed
      <4>3. QED
        BY <1>1, <1>2, <1>4, <1>5, <4>1, <4>2
    <3>2. count[d].closed <= Cardinality(Closed) /\ count[d].closed \in Nat
      BY <3>1, <1>1 DEF Sheeted, SheetHolds, Closed, Sheets
    <3>3. i \notin Counted(c)
      BY <1>4, <3>1, <3>2
    <3>4. QED
      BY <1>3, <3>1, <3>3 DEF RulesFor
  <2>2. SheetHolds(d) /\ count'[d] = count[d] /\ count[d].status # "draft"
    BY <1>2, <1>6 DEF Sheeted, Drafts
  <2>3. Cardinality(Closed) <= Cardinality(Closed')
    BY <1>4
  <2>4. QED
    BY <1>1, <1>3, <1>4, <2>1, <2>2, <2>3, SheetStays
<1>8. SheetHolds(c)'
  <2>1. \A i \in Ingredients : Difference(c, i)' = Difference(c, i)
    BY <1>2 DEF Difference
  <2>2. count'[c].closed <= Cardinality(Closed')
    BY <1>2, <1>4
  <2>3. ASSUME NEW i \in Ingredients, count[c].loaded[i].counted # None,
               NEW at \in Nat, at = count[c].loaded[i].at,
               NEW expected, expected = count[c].loaded[i].expected
        PROVE  /\ Matches(i, expected, at)'
               /\ CorrectedAfter(i, at)' = {m \in new : m.ing = i}
    <3>1. /\ Matches(i, expected, at) /\ at <= LastCommit
          /\ CorrectedAfter(i, at) = {}
      BY <1>1, <2>3 DEF SheetHolds, Matches
    <3>2. Matches(i, expected, at)'
      BY <1>1, <1>3, <3>1, MatchStays
    <3>3. CorrectedAfter(i, at)' = CorrectedAfter(i, at)
            \cup {m \in new : m.ing = i /\ m.kind = "count"}
      BY <1>1, <1>3, <3>1, AddedLater
    <3>4. {m \in new : m.ing = i /\ m.kind = "count"} = {m \in new : m.ing = i}
      BY <1>3
    <3>5. QED
      BY <3>1, <3>2, <3>3, <3>4
  <2>4. ASSUME NEW i \in Ingredients, count[c].loaded[i].counted # None
        PROVE  /\ Matches(i, count[c].loaded[i].expected, count[c].loaded[i].at)'
               /\ CorrectedAfter(i, count[c].loaded[i].at)'
                    = {m \in new : m.ing = i}
    <3> PICK at \in Nat : at = count[c].loaded[i].at
      BY <1>1, LoadsAre
    <3> PICK expected : expected = count[c].loaded[i].expected
      OBVIOUS
    <3>1. /\ Matches(i, expected, at)'
          /\ CorrectedAfter(i, at)' = {m \in new : m.ing = i}
      BY <2>3, <2>4
    <3>2. count'[c].loaded[i] = count[c].loaded[i]
      BY <1>2
    <3>3. QED
      BY <3>1, <3>2
  <2>5. ASSUME NEW i \in Ingredients, i \in Counted(c)
        PROVE  Total({m \in new : m.ing = i}) = Difference(c, i)
    <3>1. CASE Difference(c, i) = 0
      <4>1. {m \in new : m.ing = i} = {}
        BY <1>3, <2>5, <3>1
      <4>2. QED
        BY <3>1, <4>1, TotalOfFew
    <3>2. CASE Difference(c, i) # 0
      <4>1. PICK m \in new : m.qty = Difference(c, i) /\ {u \in new : u.ing = i} = {m}
        BY <1>3, <2>5, <3>2
      <4>2. m.qty \in Int
        BY <1>1, <2>5, <4>1, DifferenceIsInt
      <4>3. QED
        BY <4>1, <4>2, TotalOfFew
    <3>3. QED
      BY <3>1, <3>2
  <2>6. ASSUME NEW i \in Ingredients, RulesFor(c, i)'
        PROVE  Total(CorrectedAfter(i, count[c].loaded[i].at))' = Difference(c, i)'
    <3>1. i \in Counted(c)
      BY <1>1, <1>5, <2>6 DEF RulesFor
    <3>2. count[c].loaded[i].counted # None
      BY <1>1, <3>1, LoadsAre
    <3>3. CorrectedAfter(i, count[c].loaded[i].at)' = {m \in new : m.ing = i}
      BY <2>4, <3>2
    <3>4. QED
      BY <2>1, <2>5, <3>1, <3>3
  <2>7. QED
    BY <1>2, <2>2, <2>4, <2>6 DEF SheetHolds
<1>9. ASSUME NEW q \in Requests
      PROVE  LoadReady(q)'
  <2>1. /\ req'[r] = Idle /\ \A p \in Requests \ {r} : req'[p] = req[p]
    BY <1>1, Becomes, IdleIs DEF Orderly, Done
  <2>2. CASE q = r
    BY <2>1, <2>2, IdleIs DEF LoadReady
  <2>3. ASSUME q # r, req[q].kind = "load", req[q].step = "commit"
        PROVE  FALSE
    <3>1. /\ req[q].doc \in Counts /\ count[req[q].doc].status = "draft"
          /\ req[q].doc \in req[q].held
      BY <2>3 DEF Orderly, Shaped, HasRow, KnowsDoc, CountKinds
    <3>2. req[q].doc = c
      BY <1>6, <3>1 DEF Drafts
    <3>3. QED
      BY <1>1, <2>3, <3>1, <3>2, OneHasIt
  <2>4. QED
    BY <2>1, <2>2, <2>3 DEF LoadReady
<1>10. \A d, e \in Drafts' : d = e
  BY <1>2, <1>6 DEF Drafts
<1>11. QED
  BY <1>7, <1>8, <1>9, <1>10 DEF Sheeted

LEMMA DoneOnlooks ==
  ASSUME Orderly, NEW r \in Requests, Done(r)
  PROVE  Onlookers
<1>1. /\ req'[r] = Idle /\ \A p \in Requests \ {r} : req'[p] = req[p]
  BY Becomes, IdleIs DEF Orderly, Done
<1>2. QED
  BY <1>1, IdleIs DEF Onlookers

LEMMA NothingSheeted ==
  ASSUME Orderly, Orderly', Sheeted, UNCHANGED <<ledger, count>>, Onlookers
  PROVE  Sheeted'
<1> PICK new : new = {}
  OBVIOUS
<1>1. Added(new) /\ \A m \in new : m.kind # "count"
  BY DEF Added
<1>2. QED
  BY <1>1, SheetsStay

\* A movement alone that corrects no count.
LEMMA AloneSheeted ==
  ASSUME Orderly, Orderly', Sheeted, NEW kind \in Causes, kind # "count",
         NEW i \in Ingredients, NEW qty \in Int, NEW cause \in Docs \cup {None},
         Post({Movement(kind, i, qty, cause)}), UNCHANGED count, Onlookers
  PROVE  Sheeted'
<1>1. PICK m \in Movements :
        ledger' = ledger \cup {m} /\ m.n = LastCommit + 1 /\ m.kind = kind
  BY PostsOne DEF Orderly
<1> PICK new : new = {m}
  OBVIOUS
<1>2. Added(new) /\ \A u \in new : u.kind # "count"
  BY <1>1 DEF Added
<1>3. QED
  BY <1>2, SheetsStay

LEMMA AsksOnlook ==
  ASSUME Orderly, NEW r \in Requests,
         AskStock(r) \/ AskSupply(r) \/ AskWaste(r) \/ AskCount(r)
  PROVE  Onlookers
<1>1. ASSUME NEW kind, NEW step, NEW doc, NEW i, NEW q, NEW p,
             Ask(r, kind, step, doc, i, q, p), step # "commit"
      PROVE  Onlookers
  <2>1. PICK n : /\ n = [Idle EXCEPT !.kind = kind, !.step = step, !.doc = doc,
                                     !.ing = i, !.qty = q, !.price = p]
                 /\ req' = [req EXCEPT ![r] = n]
    BY <1>1 DEF Ask
  <2>2. n.step = step
    BY <2>1 DEF Idle
  <2>3. QED
    BY <1>1, <2>1, <2>2 DEF Onlookers, Orderly, Typed
<1>2. QED
  BY <1>1 DEF AskStock, AskSupply, AskWaste, AskCount

LEMMA GoesOnOnlooking ==
  ASSUME Orderly, NEW r \in Requests, NEW n \in Askings, Proceed(r, n),
         n.held = req[r].held, n.doc = req[r].doc,
         n.kind # "load" \/ n.step # "commit"
  PROVE  Onlookers
<1>1. /\ req'[r].kind = n.kind /\ req'[r].step = n.step
      /\ \A q \in Requests \ {r} : req'[q] = req[q]
  BY ProceedIs
<1>2. QED
  BY <1>1 DEF Onlookers

LEMMA StepOnlooks ==
  ASSUME Orderly, NEW r \in Requests, NEW next \in Steps,
         req[r].kind # "load" \/ next # "commit",
         Proceed(r, [req[r] EXCEPT !.step = next])
  PROVE  Onlookers
<1>1. req'[r].kind = req[r].kind /\ req'[r].step = next /\ Went(r)
  BY StepsOn
<1>2. \A q \in Requests \ {r} : req'[q] = req[q]
  BY <1>1, Becomes DEF Orderly, Went
<1>3. QED
  BY <1>1, <1>2 DEF Onlookers

LEMMA PurchasesOnlook ==
  ASSUME Orderly, NEW r \in Requests, Look(r) \/ Save(r) \/ NextLine(r)
  PROVE  Onlookers
<1>1. req[r] \in Askings /\ req[r].step # "commit" /\ Shaped(r)
  BY DEF Orderly, Typed, Look, At, Save, NextLine
<1>2. CASE Look(r)
  <2> PICK n : n = [req[r] EXCEPT !.step = "weigh", !.readCost = cost[req[r].ing]]
    OBVIOUS
  <2>1. /\ n \in Askings /\ n.held = req[r].held /\ n.doc = req[r].doc
        /\ n.step = "weigh"
    <3>1. cost[req[r].ing] \in Int
      BY <1>1, <1>2 DEF Look, At, Shaped, Orderly, Typed
    <3>2. QED
      BY <1>1, <3>1 DEF Askings, Steps
  <2>2. Proceed(r, n)
    BY <1>2 DEF Look
  <2>3. QED
    BY <2>1, <2>2, GoesOnOnlooking
<1>3. CASE Save(r)
  <2>1. /\ req'[r].kind = req[r].kind /\ req[r].kind \in {"buy", "receive"}
        /\ \A q \in Requests \ {r} : req'[q] = req[q]
    BY <1>3, SaveIs DEF Saved
  <2>2. QED
    BY <2>1 DEF Onlookers
<1>4. CASE NextLine(r)
  <2>1. PICK i \in req[r].left, p \in Prices :
          Proceed(r, [req[r] EXCEPT !.left = @ \ {i}, !.step = "look", !.ing = i,
                                    !.price = p])
    BY <1>4 DEF NextLine
  <2>2. i \in Ingredients /\ p \in Nat /\ req[r].left \in SUBSET Ingredients
    BY <1>1, InventoryAssumption DEF Askings
  <2> PICK n : n = [req[r] EXCEPT !.left = @ \ {i}, !.step = "look", !.ing = i,
                                  !.price = p]
    OBVIOUS
  <2>3. /\ n \in Askings /\ n.held = req[r].held /\ n.doc = req[r].doc
        /\ n.step = "look"
    BY <1>1, <2>2 DEF Askings, Steps
  <2>4. Proceed(r, n)
    BY <2>1
  <2>5. QED
    BY <2>3, <2>4, GoesOnOnlooking
<1>5. QED
  BY <1>2, <1>3, <1>4

LEMMA TakesOnlook ==
  ASSUME Orderly, NEW r \in Requests,
         TakeSupply(r) \/ TakeWaste(r) \/ Glance(r) \/ Insert(r) \/ TakeCount(r)
  PROVE  Onlookers
<1>1. "insert" \in Steps /\ "commit" \in Steps /\ "weigh" \in Steps
  BY DEF Steps
<1>2. CASE Refuse(r)
  BY <1>2, DoneOnlooks DEF Refuse
<1>3. ASSUME NEW next \in {"insert", "commit", "weigh"},
             req[r].kind # "load" \/ next # "commit",
             Proceed(r, [req[r] EXCEPT !.step = next])
      PROVE  Onlookers
  BY <1>1, <1>3, StepOnlooks
<1>4. CASE TakeWaste(r) \/ Glance(r) \/ Insert(r)
  <2>1. req[r].kind # "load"
    BY <1>4 DEF TakeWaste, Glance, Insert, At, WasteKinds
  <2>2. QED
    BY <1>2, <1>3, <1>4, <2>1 DEF TakeWaste, Glance, Insert
<1>5. CASE TakeCount(r)
  <2>1. CASE req[r].kind = "load"
    BY <1>2, <1>3, <1>5, <2>1 DEF TakeCount
  <2>2. CASE req[r].kind # "load"
    BY <1>2, <1>3, <1>5, <2>2 DEF TakeCount
  <2>3. QED
    BY <2>1, <2>2
<1>6. CASE TakeSupply(r)
  <2>1. /\ req[r].kind # "load" /\ req[r] \in Askings /\ req[r].doc \in Supplies
        /\ supply[req[r].doc].lines \subseteq Ingredients /\ Quantities \subseteq Nat
    BY <1>6, InventoryAssumption
       DEF TakeSupply, At, SupplyKinds, Orderly, Typed, Shaped, Orders
  <2>2. ASSUME NEW came \in SUBSET supply[req[r].doc].lines, NEW q \in Quantities,
               Proceed(r, [req[r] EXCEPT !.left = came, !.qty = q,
                             !.step = IF came = {} THEN "commit" ELSE "line"])
        PROVE  Onlookers
    <3> PICK n : n = [req[r] EXCEPT !.left = came, !.qty = q,
                        !.step = IF came = {} THEN "commit" ELSE "line"]
      OBVIOUS
    <3>1. /\ n \in Askings /\ n.held = req[r].held /\ n.doc = req[r].doc
          /\ n.kind = req[r].kind
      BY <2>1 DEF Askings, Steps
    <3>2. Proceed(r, n)
      BY <2>2
    <3>3. QED
      BY <2>1, <3>1, <3>2, GoesOnOnlooking
  <2>3. QED
    BY <1>2, <1>3, <1>6, <2>1, <2>2 DEF TakeSupply
<1>7. QED
  BY <1>4, <1>5, <1>6

LEMMA NextSheeted ==
  ASSUME Orderly, Sheeted, [Next]_vars
  PROVE  Sheeted'
<1>1. Orderly' /\ Typed
  BY NextKeepsOrder DEF Orderly
<1>2. ASSUME NEW r \in Requests, Reads(r), ~Weigh(r)
      PROVE  Sheeted'
  <2>1. Onlookers
    BY <1>2, AsksOnlook, PurchasesOnlook, TakesOnlook, DoneOnlooks DEF Reads, Abort
  <2>2. UNCHANGED <<ledger, count>>
    BY <1>2, ReadsWriteNothing DEF db
  <2>3. QED
    BY <1>1, <2>1, <2>2, NothingSheeted
<1>3. ASSUME NEW r \in Requests, CommitPurchase(r)
      PROVE  Sheeted'
  <2> PICK new : new = {Number(m) : m \in req[r].posts}
    OBVIOUS
  <2>1. Added(new) /\ \A m \in new : m.kind # "count"
    BY <1>3, PurchaseAdds DEF Added
  <2>2. Onlookers /\ UNCHANGED count
    BY <1>3, DoneOnlooks DEF CommitPurchase
  <2>3. QED
    BY <1>1, <2>1, <2>2, SheetsStay
<1>4. ASSUME NEW r \in Requests, CommitSupply(r) \/ CommitReject(r)
      PROVE  Sheeted'
  <2>1. Onlookers /\ UNCHANGED <<ledger, count>>
    BY <1>4, DoneOnlooks DEF CommitSupply, CommitReject
  <2>2. QED
    BY <1>1, <2>1, NothingSheeted
<1>5. ASSUME NEW r \in Requests, CommitApprove(r)
      PROVE  Sheeted'
  <2> PICK w : w = req[r].doc
    OBVIOUS
  <2>1. /\ w \in Docs \cup {None} /\ waste[w].ing \in Ingredients
        /\ "waste" \in Causes /\ -1 \in Int /\ UNCHANGED count
    BY <1>5 DEF CommitApprove, At, Orderly, Typed, Shaped, KnowsDoc, WasteKinds,
                Docs, Causes
  <2>2. Post({Movement("waste", waste[w].ing, -1, w)}) /\ Onlookers
    BY <1>5, DoneOnlooks DEF CommitApprove
  <2>3. QED
    BY <1>1, <2>1, <2>2, AloneSheeted
<1>6. ASSUME NEW r \in Requests, CommitRecount(r)
      PROVE  Sheeted'
  <2>1. /\ req[r].ing \in Ingredients /\ req[r] \in Askings
        /\ UNCHANGED count /\ Onlookers
    BY <1>6, DoneOnlooks DEF CommitRecount, At, Orderly, Typed, Shaped
  <2> PICK delta : delta = req[r].qty - req[r].stock
    OBVIOUS
  <2>2. delta \in Int /\ "recount" \in Causes /\ None \in Docs \cup {None}
    BY <2>1 DEF Askings, Causes
  <2>3. UNCHANGED ledger \/ Post({Movement("recount", req[r].ing, delta, None)})
    BY <1>6 DEF CommitRecount
  <2>4. QED
    BY <1>1, <2>1, <2>2, <2>3, AloneSheeted, NothingSheeted
<1>7. ASSUME UNCHANGED req
      PROVE  Onlookers
  BY <1>7 DEF Onlookers
<1>8. ASSUME NEW i \in Ingredients, Consume(i)
      PROVE  Sheeted'
  <2>1. /\ "consumption" \in Causes /\ -1 \in Int /\ UNCHANGED <<count, req>>
        /\ Post({Movement("consumption", i, -1, None)}) /\ None \in Docs \cup {None}
    BY <1>8 DEF Causes, Consume
  <2>2. QED
    BY <1>1, <1>7, <2>1, AloneSheeted
<1>9. ASSUME NEW i \in Ingredients, Adjust(i)
      PROVE  Sheeted'
  <2>1. "adjustment" \in Causes /\ UNCHANGED <<count, req>> /\ None \in Docs \cup {None}
    BY <1>9 DEF Causes, Adjust
  <2>2. PICK d \in {-1, 1} : Post({Movement("adjustment", i, d, None)})
    BY <1>9 DEF Adjust
  <2>3. d \in Int
    OBVIOUS
  <2>4. QED
    BY <1>1, <1>7, <2>1, <2>2, <2>3, AloneSheeted
<1>10. ASSUME NEW i \in Ingredients, ReportWaste(i)
       PROVE  Sheeted'
  <2>1. /\ "waste" \in Causes /\ -1 \in Int /\ UNCHANGED <<count, req>>
        /\ None \in Docs \cup {None}
        /\ Post({Movement("waste", i, -1, None)}) \/ UNCHANGED ledger
    BY <1>10 DEF Causes, ReportWaste
  <2>2. QED
    BY <1>1, <1>7, <2>1, AloneSheeted, NothingSheeted
<1>11. ASSUME NEW i \in Ingredients, NEW p \in Prices, Reprice(i, p)
       PROVE  Sheeted'
  BY <1>1, <1>7, <1>11, NothingSheeted DEF Reprice
<1>12. ASSUME NEW s \in Supplies, CreateSupply(s)
       PROVE  Sheeted'
  BY <1>1, <1>7, <1>12, NothingSheeted DEF CreateSupply
<1>13. ASSUME UNCHANGED vars
       PROVE  Sheeted'
  BY <1>1, <1>7, <1>13, NothingSheeted DEF vars
<1>14. ASSUME NEW r \in Requests, Run(r)
       PROVE  Sheeted'
  BY <1>1, <1>2, <1>3, <1>4, <1>5, <1>6, <1>14, WeighSheeted, OpenSheeted,
     LoadSheeted, CancelSheeted, CloseSheeted DEF Run, Reads
<1>15. ASSUME NEW r \in Requests,
              AskStock(r) \/ AskSupply(r) \/ AskWaste(r) \/ AskCount(r) \/ Abort(r)
       PROVE  Sheeted'
  BY <1>1, <1>2, <1>15, WeighSheeted DEF Reads
<1>16. QED
  BY <1>8, <1>9, <1>10, <1>11, <1>12, <1>13, <1>14, <1>15 DEF Next

LEMMA InitIsSheeted ==
  ASSUME Init
  PROVE  Sheeted
<1>1. \A c \in Counts : /\ count[c].status = "none"
                        /\ \A i \in Ingredients : count[c].loaded[i].counted = None
  BY DEF Init, NoCount, NotLoaded
<1>2. \A r \in Requests : req[r].kind = "none"
  BY IdleIs DEF Init
<1>3. Drafts = {} /\ Closed = {}
  BY <1>1 DEF Drafts, Closed
<1>4. QED
  BY <1>1, <1>2, <1>3 DEF Sheeted, SheetHolds, LoadReady, RulesFor

\* What there was when the count was loaded, what closing it corrected, and
\* what came and went besides make the stock.
LEMMA SheetedCounts ==
  ASSUME Orderly, Sheeted
  PROVE  CountedHolds
<1>1. SUFFICES ASSUME NEW c \in Counts, NEW i \in Ingredients, RulesFor(c, i)
               PROVE  Stock(i) = count[c].loaded[i].counted
                        + Total({m \in Since(c, i) : m.kind # "count"})
  BY DEF CountedHolds
<1> PICK load \in Loads : load = count[c].loaded[i]
  BY LoadsAre DEF Orderly
<1> PICK before, corrected, others :
      /\ before = Upto(i, load.at) /\ corrected = CorrectedAfter(i, load.at)
      /\ others = {m \in Since(c, i) : m.kind # "count"}
  OBVIOUS
<1>2. load.counted \in Nat /\ load.expected \in Int /\ load.at \in Nat
  <2>1. load.counted # None
    BY <1>1, LoadsAre DEF RulesFor, Orderly
  <2>2. QED
    BY <2>1 DEF Loads
<1>3. \A m \in ledger : m.n \in Nat /\ m.qty \in Int
  BY DEF Orderly, Typed, Movements
<1>4. /\ before \subseteq ledger /\ corrected \subseteq ledger
      /\ others \subseteq ledger
      /\ before \cap corrected = {} /\ (before \cup corrected) \cap others = {}
      /\ MovementsOf(i) = (before \cup corrected) \cup others
  BY <1>2, <1>3 DEF Upto, CorrectedAfter, Since, MovementsOf
<1>5. /\ IsFiniteSet(before) /\ IsFiniteSet(corrected) /\ IsFiniteSet(others)
      /\ IsFiniteSet(before \cup corrected)
  BY <1>4, FS_Subset, FS_Union DEF Orderly, Typed
<1>6. Total(before \cup corrected) = Total(before) + Total(corrected)
  <2>1. \A m \in before \cup corrected : m.qty \in Int
    BY <1>3, <1>4
  <2>2. QED
    BY <1>4, <1>5, <2>1, TotalOfParts
<1>7. Stock(i) = Total(before \cup corrected) + Total(others)
  <2>1. \A m \in (before \cup corrected) \cup others : m.qty \in Int
    BY <1>3, <1>4
  <2>2. Total((before \cup corrected) \cup others)
          = Total(before \cup corrected) + Total(others)
    BY <1>4, <1>5, <2>1, TotalOfParts
  <2>3. QED
    BY <1>4, <2>2 DEF Stock
<1>8. Total(before) = load.expected
  BY <1>1, <1>2, LoadsAre DEF Sheeted, SheetHolds, Matches, RulesFor, Orderly
<1>9. Total(corrected) = load.counted - load.expected
  BY <1>1 DEF Sheeted, SheetHolds, Difference
<1>10. Total(others) \in Int
  <2>1. \A m \in others : m.qty \in Int
    BY <1>3, <1>4
  <2>2. QED
    BY <1>5, <2>1, TotalIs
<1>11. Stock(i) = load.counted + Total(others)
  BY <1>2, <1>6, <1>7, <1>8, <1>9, <1>10
<1>12. QED
  BY <1>11

\* Whatever is sold, bought, wasted or corrected while a count is open, and
\* however many counts follow each other, closing one leaves the stock at what
\* was counted plus what has come and gone since.
THEOREM ClosedCountsHold == Spec => []CountedHolds
<1>1. Init => Sheeted
  BY InitIsSheeted
<1>2. Orderly /\ Sheeted /\ [Next]_vars => Sheeted'
  BY NextSheeted
<1>3. Orderly /\ Sheeted => CountedHolds
  BY SheetedCounts
<1>4. QED
  BY <1>1, <1>2, <1>3, RequestsKnowTheirDocuments, PTL DEF Spec
=============================================================================
