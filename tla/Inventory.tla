------------------------------- MODULE Inventory -------------------------------
(***************************************************************************)
(* The stock of a restaurant: a ledger of movements that only grows, and   *)
(* what makes it grow: purchases, purchase orders, waste and its approval, *)
(* consumption, adjustments and physical counts.  Requests run as          *)
(* transactions at READ COMMITTED, statement by statement: what is         *)
(* documents (orders, wastes, counts) is taken FOR UPDATE, while stock and *)
(* cost are read without taking anything.                                  *)
(***************************************************************************)
EXTENDS Integers, FiniteSets, FiniteSetsExt, Functions

CONSTANTS
  Ingredients,
  Supplies,      \* purchase orders
  Wastes,        \* wastes that wait for approval
  Counts,        \* physical counts
  Requests,      \* transactions at a time; each may serve many requests
  Quantities,    \* bought, or counted, at a time
  Prices,        \* costs per unit that purchases bring and managers set
  Threshold,     \* the value above which a waste needs approval
  FirstCost,     \* the cost the ingredients are created with
  Agendas,       \* bounds on a day: what may happen, and to which ingredients
  MaxMovements,  \* the bound on the ledger
  None

SupplyKinds == {"receive", "edit", "send", "withdraw"}
WasteKinds == {"approve", "reject"}
CountKinds == {"open", "load", "clear", "close", "cancel"}
Kinds == {"buy", "recount", "reprice", "consume", "waste", "adjust", "order"}
           \cup SupplyKinds \cup WasteKinds \cup CountKinds

ASSUME InventoryAssumption ==
  /\ Agendas \subseteq SUBSET (Kinds \cup Ingredients)
  /\ Quantities \subseteq Nat \ {0}
  /\ Prices \subseteq Nat /\ FirstCost \in Nat /\ Threshold \in Nat
  /\ MaxMovements \in Nat /\ IsFiniteSet(Ingredients) /\ IsFiniteSet(Counts)
  /\ Supplies \cap Wastes = {} /\ Supplies \cap Counts = {}
  /\ Wastes \cap Counts = {}
  /\ None \notin Ingredients \cup Supplies \cup Wastes \cup Counts \cup Int

VARIABLES
  ledger,  \* committed movements, those of one commit with one number
  cost,    \* of a unit of each ingredient
  costs,   \* every cost the ingredient ever had from a manager or a purchase
  supply, waste, count,
  req,     \* what each request asks for, how far it is, what it has read
  agenda   \* what may happen on this day, and to what; never changes

db == <<ledger, cost, costs, supply, waste, count, agenda>>
vars == <<ledger, cost, costs, supply, waste, count, agenda, req>>

Idle == [kind |-> "none", step |-> "none", doc |-> None, ing |-> None,
         qty |-> 0, price |-> 0, left |-> {}, held |-> {}, readCost |-> 0,
         stock |-> 0, at |-> 0, posts |-> {}, newCost |-> <<>>]

NotLoaded == [counted |-> None, expected |-> 0, at |-> 0]
NoCount == [status |-> "none", lines |-> {},
            loaded |-> [i \in Ingredients |-> NotLoaded], closed |-> 0]

Init ==
  /\ ledger = {}
  /\ cost = [i \in Ingredients |-> FirstCost]
  /\ costs = [i \in Ingredients |-> {FirstCost}]
  /\ supply = [s \in Supplies |-> [status |-> "none", lines |-> {}, got |-> {}]]
  /\ waste = [w \in Wastes |-> [status |-> "none", ing |-> None]]
  /\ count = [c \in Counts |-> NoCount]
  /\ req = [r \in Requests |-> Idle]
  /\ agenda \in Agendas

-----------------------------------------------------------------------------
(* The ledger. *)

\* A movement before it has its number.
Movement(kind, i, qty, cause) ==
  [kind |-> kind, ing |-> i, qty |-> qty, cause |-> cause]

SumOf(f) == FoldFunction(LAMBDA x, y : x + y, 0, f)
Total(ms) == SumOf([m \in ms |-> m.qty])
MovementsOf(i) == {m \in ledger : m.ing = i}
Stock(i) == Total(MovementsOf(i))

LastCommit == Max({0} \cup {m.n : m \in ledger})
Number(m) == [n |-> LastCommit + 1, kind |-> m.kind, ing |-> m.ing,
              qty |-> m.qty, cause |-> m.cause]
Post(ms) ==
  /\ Cardinality(ledger) + Cardinality(ms) <= MaxMovements
  /\ ledger' = ledger \cup {Number(m) : m \in ms}

-----------------------------------------------------------------------------
(* Rows taken, and waiting for them. *)

\* A row goes by the identifier of its document or ingredient, the entry of a
\* unique index by the name of the index.
OneDraft == "uq_stock_counts_one_draft"

RowsBug(r) == {}
\* The document a request decides on, FOR UPDATE.
Rows(r) == {req[r].doc}

\* The rows the next statement of a request takes.
Wanted(r) ==
  CASE req[r].step = "row" -> Rows(r)
    [] req[r].step = "insert" -> {OneDraft}
    [] req[r].step = "save" -> {req[r].ing}
    [] OTHER -> {}

Waits(r, q) == r # q /\ Wanted(r) \cap req[q].held # {}
Granted(r) == \A q \in Requests : ~Waits(r, q)
Free(row) == \A q \in Requests : row \notin req[q].held

\* A statement is done: its rows stay taken, and the request goes on as n.
Proceed(r, n) ==
  /\ Granted(r)
  /\ req' = [req EXCEPT ![r] = [n EXCEPT !.held = @ \cup Wanted(r)]]
  /\ UNCHANGED db

Done(r) == req' = [req EXCEPT ![r] = Idle]
\* An error of the domain: what the request did is rolled back.
Refuse(r) == Granted(r) /\ Done(r) /\ UNCHANGED db

At(r, kinds, step) == req[r].kind \in kinds /\ req[r].step = step

-----------------------------------------------------------------------------
(* Requests. *)

Ask(r, kind, step, doc, i, q, p) ==
  /\ req[r] = Idle /\ kind \in agenda
  /\ req' = [req EXCEPT ![r] =
       [Idle EXCEPT !.kind = kind, !.step = step, !.doc = doc, !.ing = i,
                    !.qty = q, !.price = p]]
  /\ UNCHANGED db

Touched == Ingredients \cap agenda
On(kind, i) == {kind, i} \subseteq agenda

AskStock(r) ==
  \E i \in Touched :
    \/ \E q \in Quantities, p \in Prices : Ask(r, "buy", "look", None, i, q, p)
    \/ \E k \in Quantities : Ask(r, "recount", "weigh", None, i, k, 0)

AskSupply(r) ==
  \E s \in Supplies, kind \in SupplyKinds :
    /\ supply[s].status # "none"
    /\ Ask(r, kind, "row", s, None, 0, 0)

AskWaste(r) ==
  \E w \in Wastes, kind \in WasteKinds :
    waste[w].status # "none" /\ Ask(r, kind, "row", w, None, 0, 0)

AskCount(r) ==
  \E c \in Counts :
    \/ /\ count[c].status = "none"
       /\ \A q \in Requests : req[q].doc # c
       /\ Ask(r, "open", "glance", c, None, 0, 0)
    \/ /\ count[c].status # "none"
       /\ \/ \E kind \in {"close", "cancel"} : Ask(r, kind, "row", c, None, 0, 0)
          \/ \E i \in count[c].lines :
               \/ Ask(r, "clear", "row", c, i, 0, 0)
               \/ \E k \in Quantities : Ask(r, "load", "row", c, i, k, 0)

-----------------------------------------------------------------------------
(* Purchases: the cost is read, then the stock, then the row is written.   *)

AverageBug(before, was, q, p) ==
  IF before + q <= 0 THEN p ELSE (before * was + q * p) \div (before + q)
\* absorb_purchase: nothing to weigh with when there was no stock.
Average(before, was, q, p) ==
  IF before <= 0 THEN p ELSE (before * was + q * p) \div (before + q)

Look(r) ==
  /\ At(r, {"buy", "receive"}, "look")
  /\ Proceed(r, [req[r] EXCEPT !.step = "weigh", !.readCost = cost[req[r].ing]])

Weigh(r) ==
  /\ req[r].step = "weigh"
  /\ Proceed(r, [req[r] EXCEPT
       !.step = IF req[r].kind \in {"buy", "receive"} THEN "save" ELSE "commit",
       !.stock = Stock(req[r].ing),
       !.at = IF req[r].kind = "load" THEN LastCommit ELSE 0])

\* The UPDATE of the ingredient takes its row; an unchanged cost writes
\* nothing.  A reception goes on with its next line.
Save(r) ==
  LET me == req[r]
      i == me.ing
      average == Average(me.stock, me.readCost, me.qty, me.price)
      posted == [me EXCEPT
        !.posts = @ \cup {Movement("purchase", i, me.qty, me.doc)},
        !.newCost = [j \in (DOMAIN @) \cup {i} |->
                       IF j # i THEN @[j]
                       ELSE [old |-> me.readCost, new |-> average,
                             price |-> me.price]],
        !.ing = None, !.price = 0, !.readCost = 0, !.stock = 0,
        !.step = IF me.left = {} THEN "commit" ELSE "line"]
  IN  /\ me.step = "save"
      /\ IF average # me.readCost
           THEN Proceed(r, posted)
           ELSE req' = [req EXCEPT ![r] = posted] /\ UNCHANGED db

\* The next line that arrived, with its quantity and its price.
NextLine(r) ==
  /\ req[r].step = "line"
  /\ \E i \in req[r].left, p \in Prices :
       Proceed(r, [req[r] EXCEPT !.left = @ \ {i}, !.step = "look", !.ing = i,
                                 !.price = p])

CommitPurchase(r) ==
  LET me == req[r]
      changed == {i \in DOMAIN me.newCost : me.newCost[i].new # me.newCost[i].old}
  IN  /\ At(r, {"buy", "receive"}, "commit")
      /\ Post(me.posts)
      /\ cost' = [i \in Ingredients |->
           IF i \in changed THEN me.newCost[i].new ELSE cost[i]]
      /\ costs' = [i \in Ingredients |-> costs[i] \cup
           (IF i \in DOMAIN me.newCost THEN {me.newCost[i].price} ELSE {})]
      /\ supply' = IF me.kind = "buy" THEN supply
                   ELSE [supply EXCEPT ![me.doc].status = "received",
                                       ![me.doc].got = {m.ing : m \in me.posts}]
      /\ Done(r) /\ UNCHANGED <<agenda, waste, count>>

\* A manager sets the cost of an ingredient.
Reprice(i, p) ==
  /\ On("reprice", i) /\ Free(i) /\ p # cost[i]
  /\ cost' = [cost EXCEPT ![i] = p]
  /\ costs' = [costs EXCEPT ![i] = @ \cup {p}]
  /\ UNCHANGED <<agenda, ledger, supply, waste, count, req>>

-----------------------------------------------------------------------------
(* Purchase orders. *)

CreateSupply(s) ==
  /\ "order" \in agenda /\ supply[s].status = "none"
  /\ \E lines \in (SUBSET Touched) \ {{}} :
       supply' = [supply EXCEPT ![s].status = "draft", ![s].lines = lines]
  /\ UNCHANGED <<agenda, ledger, cost, costs, waste, count, req>>

Receivable == {"draft", "sent"}

\* The order is taken and read.  What arrived is any part of its lines: a
\* line that is not named did not.
TakeSupply(r) ==
  LET me == req[r]
      status == supply[me.doc].status
      ok == IF me.kind \in {"receive", "withdraw"} THEN status \in Receivable
                                                   ELSE status = "draft"
  IN  /\ At(r, SupplyKinds, "row")
      /\ \/ ~ok /\ Refuse(r)
         \/ /\ ok /\ me.kind # "receive"
            /\ Proceed(r, [me EXCEPT !.step = "commit"])
         \/ /\ ok /\ me.kind = "receive"
            /\ \E came \in SUBSET supply[me.doc].lines, q \in Quantities :
                 Proceed(r, [me EXCEPT !.left = came, !.qty = q,
                   !.step = IF came = {} THEN "commit" ELSE "line"])

CommitSupply(r) ==
  LET s == req[r].doc
  IN  /\ At(r, {"edit", "send", "withdraw"}, "commit")
      /\ \/ /\ req[r].kind = "edit"
            /\ \E lines \in (SUBSET Touched) \ {{}} :
                 supply' = [supply EXCEPT ![s].lines = lines]
         \/ /\ req[r].kind = "send"
            /\ supply' = [supply EXCEPT ![s].status = "sent"]
         \/ /\ req[r].kind = "withdraw"
            /\ supply' = [supply EXCEPT ![s].status = "cancelled"]
      /\ Done(r) /\ UNCHANGED <<agenda, ledger, cost, costs, waste, count>>

-----------------------------------------------------------------------------
(* Waste. *)

Consume(i) ==
  /\ On("consume", i)
  /\ Post({Movement("consumption", i, -1, None)})
  /\ UNCHANGED <<agenda, cost, costs, supply, waste, count, req>>

\* One unit is lost: above the threshold it waits for approval.
ReportWaste(i) ==
  /\ On("waste", i)
  /\ \/ /\ cost[i] <= Threshold
        /\ Post({Movement("waste", i, -1, None)})
        /\ UNCHANGED waste
     \/ /\ cost[i] > Threshold
        /\ \E w \in Wastes :
             /\ waste[w].status = "none"
             /\ waste' = [waste EXCEPT ![w] = [status |-> "pending", ing |-> i]]
        /\ UNCHANGED ledger
  /\ UNCHANGED <<agenda, cost, costs, supply, count, req>>

TakeWaste(r) ==
  /\ At(r, WasteKinds, "row")
  /\ IF waste[req[r].doc].status = "pending"
       THEN Proceed(r, [req[r] EXCEPT !.step = "commit"])
       ELSE Refuse(r)

CommitApprove(r) ==
  LET w == req[r].doc
  IN  /\ At(r, {"approve"}, "commit")
      /\ Post({Movement("waste", waste[w].ing, -1, w)})
      /\ waste' = [waste EXCEPT ![w].status = "approved"]
      /\ Done(r) /\ UNCHANGED <<agenda, cost, costs, supply, count>>

CommitReject(r) ==
  /\ At(r, {"reject"}, "commit")
  /\ waste' = [waste EXCEPT ![req[r].doc].status = "rejected"]
  /\ Done(r) /\ UNCHANGED <<agenda, ledger, cost, costs, supply, count>>

-----------------------------------------------------------------------------
(* Adjustments. *)

\* By a difference.
Adjust(i) ==
  /\ On("adjust", i)
  /\ \E d \in {-1, 1} : Post({Movement("adjustment", i, d, None)})
  /\ UNCHANGED <<agenda, cost, costs, supply, waste, count, req>>

\* To what was counted: the difference comes from the stock read before, and a
\* difference of zero is refused.
CommitRecount(r) ==
  LET delta == req[r].qty - req[r].stock
  IN  /\ At(r, {"recount"}, "commit")
      /\ IF delta = 0 THEN UNCHANGED ledger
         ELSE Post({Movement("recount", req[r].ing, delta, None)})
      /\ Done(r) /\ UNCHANGED <<agenda, cost, costs, supply, waste, count>>

-----------------------------------------------------------------------------
(* Physical counts. *)

Drafts == {c \in Counts : count[c].status = "draft"}

\* Opening asks first whether one is open, and the partial unique index asks
\* again when it inserts.
Glance(r) ==
  /\ At(r, {"open"}, "glance")
  /\ IF Drafts = {} THEN Proceed(r, [req[r] EXCEPT !.step = "insert"])
                    ELSE Refuse(r)

IndexClash == Drafts # {}

Insert(r) ==
  /\ At(r, {"open"}, "insert")
  /\ IF IndexClash THEN Refuse(r)
     ELSE Proceed(r, [req[r] EXCEPT !.step = "commit"])

CommitOpen(r) ==
  /\ At(r, {"open"}, "commit")
  /\ \E lines \in (SUBSET Touched) \ {{}} :
       count' = [count EXCEPT ![req[r].doc].status = "draft",
                              ![req[r].doc].lines = lines]
  /\ Done(r) /\ UNCHANGED <<agenda, ledger, cost, costs, supply, waste>>

Closed == {c \in Counts : count[c].status = "closed"}
Counted(c) == {i \in count[c].lines : count[c].loaded[i].counted # None}

TakeCount(r) ==
  LET me == req[r]
      ok == /\ count[me.doc].status = "draft"
            /\ me.kind = "close" => Counted(me.doc) # {}
  IN  /\ At(r, CountKinds, "row")
      /\ IF ok
           THEN Proceed(r, [me EXCEPT
                  !.step = IF me.kind = "load" THEN "weigh" ELSE "commit"])
           ELSE Refuse(r)

\* What was counted is kept with the stock of that moment.
CommitLoad(r) ==
  LET me == req[r]
  IN  /\ At(r, {"load", "clear"}, "commit")
      /\ count' = [count EXCEPT ![me.doc].loaded[me.ing] =
           IF me.kind = "clear" THEN NotLoaded
           ELSE [counted |-> me.qty, expected |-> me.stock, at |-> me.at]]
      /\ Done(r) /\ UNCHANGED <<agenda, ledger, cost, costs, supply, waste>>

DifferenceBug(c, i) == count[c].loaded[i].counted - Stock(i)
\* The difference is with the stock when it was loaded, not when it is closed.
Difference(c, i) == count[c].loaded[i].counted - count[c].loaded[i].expected

CommitClose(r) ==
  LET c == req[r].doc
  IN  /\ At(r, {"close"}, "commit")
      /\ Post({Movement("count", i, Difference(c, i), c) :
                 i \in {j \in Counted(c) : Difference(c, j) # 0}})
      /\ count' = [count EXCEPT ![c].status = "closed",
                                ![c].closed = 1 + Cardinality(Closed)]
      /\ Done(r) /\ UNCHANGED <<agenda, cost, costs, supply, waste>>

CommitCancel(r) ==
  /\ At(r, {"cancel"}, "commit")
  /\ count' = [count EXCEPT ![req[r].doc].status = "cancelled"]
  /\ Done(r) /\ UNCHANGED <<agenda, ledger, cost, costs, supply, waste>>

-----------------------------------------------------------------------------
\* Until it commits a transaction may be undone: an inactive ingredient, the
\* deadline, a restart, PostgreSQL breaking a deadlock.
Abort(r) == req[r] # Idle /\ Done(r) /\ UNCHANGED db

Run(r) ==
  \/ Look(r) \/ Weigh(r) \/ Save(r) \/ NextLine(r) \/ CommitPurchase(r)
  \/ TakeSupply(r) \/ CommitSupply(r)
  \/ TakeWaste(r) \/ CommitApprove(r) \/ CommitReject(r) \/ CommitRecount(r)
  \/ Glance(r) \/ Insert(r) \/ CommitOpen(r) \/ TakeCount(r) \/ CommitLoad(r)
  \/ CommitClose(r) \/ CommitCancel(r)

Next ==
  \/ \E r \in Requests :
       AskStock(r) \/ AskSupply(r) \/ AskWaste(r) \/ AskCount(r) \/ Run(r) \/ Abort(r)
  \/ \E i \in Ingredients :
       \/ Consume(i) \/ ReportWaste(i) \/ Adjust(i)
       \/ \E p \in Prices : Reprice(i, p)
  \/ \E s \in Supplies : CreateSupply(s)

Spec == Init /\ [][Next]_vars

-----------------------------------------------------------------------------
(* Properties. *)

\* Each document moves the stock once and only if it was decided so: an order
\* received brings each line that arrived, one cancelled or still waiting
\* brings nothing, and an approved waste leaves one movement, whoever else was
\* receiving, cancelling, approving or rejecting at the time.
MovementsBy(d, i) == {m \in ledger : m.cause = d /\ m.ing = i}
EachDocumentOnce ==
  \A i \in Ingredients :
    /\ \A s \in Supplies :
         /\ i \in supply[s].got => supply[s].status = "received"
         /\ Cardinality(MovementsBy(s, i)) = (IF i \in supply[s].got THEN 1 ELSE 0)
    /\ \A w \in Wastes :
         Cardinality(MovementsBy(w, i))
           = (IF waste[w].status = "approved" /\ waste[w].ing = i THEN 1 ELSE 0)

\* What was counted holds once the count is closed: the stock is what was on
\* the shelf plus all that came and went since it was counted, sales and
\* purchases during the count included.  Of two counts of an ingredient the
\* last one closed rules, without correcting again what the other did.  Only a
\* correction to a counted stock made meanwhile can spoil it.
RulesFor(c, i) ==
  /\ c \in Closed /\ i \in Counted(c)
  /\ \A d \in Closed : i \in Counted(d) => count[d].closed <= count[c].closed
Since(c, i) == {m \in MovementsOf(i) : m.n > count[c].loaded[i].at}
CountedHolds ==
  \A c \in Counts, i \in Ingredients :
    /\ RulesFor(c, i)
    /\ \A m \in Since(c, i) : m.kind # "recount"
    => Stock(i) = count[c].loaded[i].counted
                    + Total({m \in Since(c, i) : m.kind # "count"})

\* Purchases read stock and cost without taking them, so two at once lose one
\* of the averages; the cost of an ingredient still never leaves the range of
\* the costs it was given, with the stock below zero too.
CostIsAnAverage ==
  \A i \in Ingredients :
    \E low, high \in costs[i] : low <= cost[i] /\ cost[i] <= high

=============================================================================
