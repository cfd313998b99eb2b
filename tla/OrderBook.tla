----------------------------- MODULE OrderBook -----------------------------
(***************************************************************************)
(* The orders of one restaurant: dishes, kitchen rounds, bill, payments,   *)
(* dining tables, the cash register and the ingredients a served order     *)
(* uses up.                                                                *)
(*                                                                         *)
(* Every use case is one atomic action.  In the program each one is a      *)
(* database transaction that takes the order row (and, where money moves,  *)
(* the row of the open cash session) with SELECT ... FOR UPDATE before it  *)
(* looks at it, so two changes of the same order run one after the other.  *)
(* What is NOT protected by a row lock of its own is the table (occupied   *)
(* is deduced from the active orders) and the invoice; their interleavings *)
(* are the subject of OrderTransactions.                                   *)
(*                                                                         *)
(* Left out: texts (names, notes, reasons), instants, the order's contact  *)
(* data, and UpdateOrderDetails, which only writes those.  Takeaway and    *)
(* delivery differ only in that data, so both are "takeaway" here.         *)
(***************************************************************************)
EXTENDS Integers, FiniteSets, Functions

CONSTANTS
  Orders, Items, Payments, Sessions,  \* identifiers of database rows
  Tables,                             \* dining tables of the restaurant
  Staff,                              \* who takes and charges orders
  Managers,                           \* those of them with orders.read_all
  Dishes,                             \* dishes that can be ordered today
  Recipes,                            \* the dishes that have a recipe
  Prices, Quantities,                 \* unit prices in cents, portions
  Percents,                           \* discounts, in percent
  WaiterLimit,                        \* the most a waiter may discount
  Methods,                            \* payment methods; "cash" is the drawer's
  Tips, Floats,                       \* tips and opening cash, in cents
  MaxMoney,                           \* the most a NUMERIC(10, 2) column holds
  MaxRound,                           \* bound: kitchen rounds of an order
  None

ASSUME OrderBookAssumption ==
  /\ Managers \subseteq Staff /\ Recipes \subseteq Dishes
  /\ None \notin Orders \cup Items \cup Payments \cup Sessions
                   \cup Tables \cup Staff \cup Dishes
  /\ MaxMoney \in Nat /\ MaxRound \in Nat
  /\ Prices \subseteq 0..MaxMoney /\ Quantities \subseteq 1..99
  /\ Percents \subseteq 0..100 /\ 0 \in Percents
  /\ Tips \subseteq 0..MaxMoney /\ Floats \subseteq 0..MaxMoney

VARIABLES
  orders,    \* orders: status, type, table, waiter, kitchen round, discount
  items,     \* order_items: the order they are in, frozen price, flags
  payments,  \* order_payments: amount, tip, method, cash session, voided
  sessions,  \* cash_sessions: none yet, open or closed with its arqueo
  tables,    \* dining_tables.is_active
  consumed,  \* portions of each item deducted from the stock ledger
  invoiced   \* orders with a live (not voided) invoice

vars == <<orders, items, payments, sessions, tables, consumed, invoiced>>

-----------------------------------------------------------------------------
Statuses == {"open", "in_kitchen", "ready", "served", "paid", "cancelled"}
Active == {"open", "in_kitchen", "ready", "served"}
Progress == [open |-> 0, in_kitchen |-> 1, ready |-> 2, served |-> 3]
Types == {"dine_in", "takeaway"}
Money == -MaxMoney .. MaxMoney

OrderRow == [status : Statuses \cup {"none"}, type : Types,
             table : Tables \cup {None}, waiter : Staff \cup {None},
             round : 0..MaxRound, discount : Percents,
             mergedInto : Orders \cup {None}]
ItemRow == [order : Orders \cup {None}, dish : Dishes \cup {None},
            price : Prices \cup {0}, qty : Quantities \cup {0},
            courtesy : BOOLEAN, round : 0..MaxRound, voided : BOOLEAN,
            payment : Payments \cup {None}]
PaymentRow == [order : Orders \cup {None}, session : Sessions \cup {None},
               method : Methods \cup {None}, amount : Money, tip : Money, voided : BOOLEAN]
SessionRow == [state : {"none", "open", "closed"}, opening : Money,
               expected : Money]

NoOrder == [status |-> "none", type |-> "takeaway", table |-> None,
            waiter |-> None, round |-> 0, discount |-> 0, mergedInto |-> None]
NoItem == [order |-> None, dish |-> None, price |-> 0, qty |-> 0,
           courtesy |-> FALSE, round |-> 0, voided |-> FALSE, payment |-> None]
NoPayment == [order |-> None, session |-> None, method |-> None, amount |-> 0,
              tip |-> 0, voided |-> FALSE]
NoSession == [state |-> "none", opening |-> 0, expected |-> 0]

Init ==
  /\ orders = [o \in Orders |-> NoOrder]
  /\ items = [i \in Items |-> NoItem]
  /\ payments = [p \in Payments |-> NoPayment]
  /\ sessions = [s \in Sessions |-> NoSession]
  /\ tables = [t \in Tables |-> TRUE]
  /\ consumed = [i \in Items |-> 0]
  /\ invoiced = {}

-----------------------------------------------------------------------------
(* The bill.  A definition named ...Bug is what a careless change would make
   of the definition that follows it; no action uses it. *)

SumOf(f) == FoldFunction(LAMBDA x, y : x + y, 0, f)

ItemsOf(o) == {i \in Items : items[i].order = o}
LiveItems(o) == {i \in ItemsOf(o) : ~items[i].voided}
PaymentsOf(o) == {p \in Payments : payments[p].order = o /\ ~payments[p].voided}

\* What a line is charged before the order's discount.
Due(i) == IF items[i].courtesy \/ items[i].voided
            THEN 0 ELSE items[i].price * items[i].qty

\* ROUND_HALF_UP to the cent, of a non-negative amount.
PercentOf(amount, percent) == (amount * percent + 50) \div 100

Total(o) == LET due == SumOf([i \in ItemsOf(o) |-> Due(i)])
            IN  due - PercentOf(due, orders[o].discount)
Paid(o) == SumOf([p \in PaymentsOf(o) |-> payments[p].amount])
Balance(o) == Total(o) - Paid(o)

\* The items a set of people pays for: its share, or all that is left when
\* nothing that costs money stays unpaid, so that no rounding cent is lost.
AmountForItems(o, S) ==
  LET due == SumOf([i \in S |-> Due(i)])
      pending == {i \in ItemsOf(o) : items[i].payment = None /\ i \notin S
                                       /\ Due(i) > 0}
  IN  IF pending = {} THEN Balance(o)
      ELSE due - PercentOf(due, orders[o].discount)

IsActive(o) == orders[o].status \in Active
Unpaid(o) == PaymentsOf(o) = {}
AdjustableBug(o) == IsActive(o)
Adjustable(o) == IsActive(o) /\ Unpaid(o)
Sees(a, o) == a \in Managers \/ orders[o].waiter = a \/ IsActive(o)
Owns(a, o) == a \in Managers \/ orders[o].waiter = a
ActiveAt(t) == {o \in Orders : orders[o].table = t /\ IsActive(o)}

-----------------------------------------------------------------------------
(* Taking the order: the waiter's use cases, and the kitchen's. *)

Lines == [dish : Dishes, price : Prices, qty : Quantities]
FreeItems == {i \in Items : items[i].order = None}
Batches ==
  UNION {[S -> Lines] : S \in {T \in SUBSET FreeItems : IsFiniteSet(T)}}

\* The batch becomes lines of order o, with today's price frozen in them.
Placed(batch, o, round) ==
  [i \in Items |->
     IF i \in DOMAIN batch
       THEN [order |-> o, dish |-> batch[i].dish, price |-> batch[i].price,
             qty |-> batch[i].qty, courtesy |-> FALSE, round |-> round,
             voided |-> FALSE, payment |-> None]
       ELSE items[i]]

\* A new order needs its table free; a takeaway one has none.
CanSeat(type, t) ==
  IF type = "dine_in"
    THEN t \in Tables /\ tables[t] /\ ActiveAt(t) = {}
    ELSE t = None

OpenOrder(w, o, type, t, batch) ==
  /\ orders[o].status = "none"
  /\ CanSeat(type, t)
  /\ orders' = [orders EXCEPT ![o] =
       [NoOrder EXCEPT !.status = "open", !.type = type, !.table = t,
                       !.waiter = w]]
  /\ items' = Placed(batch, o, 0)
  /\ UNCHANGED <<payments, sessions, tables, consumed, invoiced>>

RoundOfNewBug(o) == IF orders[o].status = "in_kitchen"
                      THEN orders[o].round + 1 ELSE 0
\* Dishes added to an order the kitchen already has are one more round.
RoundOfNew(o) == IF orders[o].status = "open" THEN 0 ELSE orders[o].round + 1

AddItems(o, batch) ==
  /\ IsActive(o) /\ DOMAIN batch # {}
  /\ RoundOfNew(o) <= MaxRound
  /\ items' = Placed(batch, o, RoundOfNew(o))
  /\ orders' = [orders EXCEPT
       ![o].status = IF @ \in {"ready", "served"} THEN "in_kitchen" ELSE @,
       ![o].round = IF orders[o].status = "open" THEN @ ELSE @ + 1]
  /\ UNCHANGED <<payments, sessions, tables, consumed, invoiced>>

ItemsEditable(o) == orders[o].status = "open"

ChangeItem(o, i, qty) ==
  /\ ItemsEditable(o) /\ items[i].order = o
  /\ items' = [items EXCEPT ![i].qty = qty]
  /\ UNCHANGED <<orders, payments, sessions, tables, consumed, invoiced>>

\* Deleting the row of a line the stock ledger refers to is refused by the
\* foreign key (ON DELETE RESTRICT), and the transaction rolls back.
RemoveItem(o, i) ==
  /\ ItemsEditable(o) /\ items[i].order = o
  /\ consumed[i] = 0
  /\ items' = [items EXCEPT ![i] = NoItem]
  /\ UNCHANGED <<orders, payments, sessions, tables, consumed, invoiced>>

SendToKitchen(o) ==
  /\ orders[o].status = "open" /\ ItemsOf(o) # {}
  /\ orders[o].round < MaxRound
  /\ orders' = [orders EXCEPT ![o].status = "in_kitchen", ![o].round = @ + 1]
  /\ items' = [i \in Items |->
       IF i \in ItemsOf(o) /\ items[i].round = 0
         THEN [items[i] EXCEPT !.round = orders[o].round + 1] ELSE items[i]]
  /\ UNCHANGED <<payments, sessions, tables, consumed, invoiced>>

MarkReady(o) ==
  /\ orders[o].status = "in_kitchen"
  /\ orders' = [orders EXCEPT ![o].status = "ready"]
  /\ UNCHANGED <<items, payments, sessions, tables, consumed, invoiced>>

PendingConsumptionBug(o) == {i \in LiveItems(o) : items[i].dish \in Recipes}
\* What serving deducts: live lines with a recipe not in the ledger yet.
PendingConsumption(o) ==
  {i \in LiveItems(o) : items[i].dish \in Recipes /\ consumed[i] = 0}

MarkServed(o) ==
  /\ orders[o].status = "ready"
  /\ orders' = [orders EXCEPT ![o].status = "served"]
  /\ consumed' = [i \in Items |->
       IF i \in PendingConsumption(o) THEN consumed[i] + items[i].qty
                                      ELSE consumed[i]]
  /\ UNCHANGED <<items, payments, sessions, tables, invoiced>>

VoidableItemBug(o, i) ==
  IsActive(o) /\ orders[o].status # "open" /\ i \in LiveItems(o)
VoidableItem(o, i) ==
  /\ IsActive(o) /\ orders[o].status # "open"
  /\ Unpaid(o) /\ i \in LiveItems(o)

VoidItem(o, i) ==
  /\ VoidableItem(o, i)
  /\ items' = [items EXCEPT ![i].voided = TRUE]
  /\ UNCHANGED <<orders, payments, sessions, tables, consumed, invoiced>>

CancellableBug(o) == IsActive(o)
Cancellable(o) == IsActive(o) /\ Unpaid(o)

CancelOrder(o) ==
  /\ Cancellable(o)
  /\ orders' = [orders EXCEPT ![o].status = "cancelled"]
  /\ UNCHANGED <<items, payments, sessions, tables, consumed, invoiced>>

-----------------------------------------------------------------------------
(* Adjusting the bill before the first payment. *)

ApplyDiscount(a, o, percent) ==
  /\ Sees(a, o) /\ Owns(a, o) /\ Adjustable(o)
  /\ a \notin Managers => percent <= WaiterLimit
  /\ orders' = [orders EXCEPT ![o].discount = percent]
  /\ UNCHANGED <<items, payments, sessions, tables, consumed, invoiced>>

SetCourtesy(o, i, granted) ==
  /\ Adjustable(o) /\ i \in LiveItems(o)
  /\ items' = [items EXCEPT ![i].courtesy = granted]
  /\ UNCHANGED <<orders, payments, sessions, tables, consumed, invoiced>>

-----------------------------------------------------------------------------
(* Moving diners: an order changes table, two orders become one bill. *)

FreeForBug(t, o) == tables[t]
FreeFor(t, o) == tables[t] /\ ActiveAt(t) \ {o} = {}

MoveOrder(o, t) ==
  /\ IsActive(o) /\ orders[o].type = "dine_in"
  /\ FreeFor(t, o)
  /\ t # orders[o].table
  /\ orders' = [orders EXCEPT ![o].table = t]
  /\ UNCHANGED <<items, payments, sessions, tables, consumed, invoiced>>

Mergeable(a, o) ==
  /\ Sees(a, o) /\ Owns(a, o)
  /\ Adjustable(o) /\ orders[o].type = "dine_in"

MergedStatusBug(o, source) == orders[o].status
\* The order that stays takes the less advanced status of the two.
MergedStatus(o, source) ==
  IF Progress[orders[source].status] < Progress[orders[o].status]
    THEN orders[source].status ELSE orders[o].status

MergeOrders(a, o, source) ==
  /\ o # source /\ Mergeable(a, o) /\ Mergeable(a, source)
  /\ items' = [i \in Items |-> IF items[i].order = source
                                 THEN [items[i] EXCEPT !.order = o]
                                 ELSE items[i]]
  /\ orders' = [orders EXCEPT
       ![o].status = MergedStatus(o, source),
       ![o].round = IF orders[source].round > @ THEN orders[source].round
                                                ELSE @,
       ![source].status = "cancelled",
       ![source].mergedInto = o]
  /\ UNCHANGED <<payments, sessions, tables, consumed, invoiced>>

\* Retiring or restoring a table does not look at the orders on it.
UpdateTable(t) ==
  /\ tables' = [tables EXCEPT ![t] = ~@]
  /\ UNCHANGED <<orders, items, payments, sessions, consumed, invoiced>>

-----------------------------------------------------------------------------
(* Charging.  The payment falls into the open cash session. *)

IsOpen(s) == sessions[s].state = "open"

\* NUMERIC(10, 2): a larger amount is refused by the column.
FitsBug(amount) == TRUE
Fits(amount) == amount \in Money

\* A payment p of the amount, made by whoever pays for the items in S.
Pay(a, o, p, s, amount, S, method, tip) ==
  /\ Sees(a, o) /\ Owns(a, o)
  /\ IsOpen(s)
  /\ orders[o].status = "served"
  /\ payments[p] = NoPayment
  /\ Fits(amount)
  /\ payments' = [payments EXCEPT ![p] =
       [order |-> o, session |-> s, method |-> method, amount |-> amount,
        tip |-> tip, voided |-> FALSE]]
  /\ items' = [i \in Items |-> IF i \in S THEN [items[i] EXCEPT !.payment = p]
                                          ELSE items[i]]
  /\ orders' = [orders EXCEPT
       ![o].status = IF amount = Balance(o) THEN "paid" ELSE @]
  /\ UNCHANGED <<sessions, tables, consumed, invoiced>>

ChargeBalance(a, o, p, s, method, tip) ==
  Pay(a, o, p, s, Balance(o), {}, method, tip)

\* A free part.  The caller sends the balance it saw, and it must still hold.
ChargePart(a, o, p, s, amount, method, tip) ==
  /\ amount <= Balance(o)
  /\ Pay(a, o, p, s, amount, {}, method, tip)

CanPayForBug(o, S) ==
  /\ S # {} /\ S \subseteq LiveItems(o)
  /\ AmountForItems(o, S) <= Balance(o)
CanPayFor(o, S) ==
  /\ S # {} /\ S \subseteq LiveItems(o)
  /\ \A i \in S : items[i].payment = None
  /\ AmountForItems(o, S) <= Balance(o)

ChargeItems(a, o, p, s, S, method, tip) ==
  /\ CanPayFor(o, S)
  /\ Pay(a, o, p, s, AmountForItems(o, S), S, method, tip)

VoidableAnywhereBug(o, p) ==
  /\ orders[o].status \in {"served", "paid"}
  /\ p \in PaymentsOf(o) /\ o \notin invoiced
VoidableAnyShiftBug(o, p) ==
  /\ orders[o].status \in {"served", "paid"}
  /\ p \in PaymentsOf(o) /\ o \notin invoiced
  /\ \E s \in Sessions : IsOpen(s)
\* A payment is voided only in the cash session it fell into, still open, and
\* never under a live invoice.
VoidablePayment(o, p) ==
  /\ orders[o].status \in {"served", "paid"}
  /\ p \in PaymentsOf(o)
  /\ o \notin invoiced
  /\ \E s \in Sessions : IsOpen(s) /\ payments[p].session = s

ReleasedBug(p) == items
\* The items a voided payment paid for can be paid for again.
Released(p) ==
  [i \in Items |-> IF items[i].payment = p
                     THEN [items[i] EXCEPT !.payment = None] ELSE items[i]]

StatusAfterVoidBug(o, p) == IF PaymentsOf(o) = {p} THEN "served"
                                                   ELSE orders[o].status
StatusAfterVoid(o, p) == "served"

VoidPayment(o, p) ==
  /\ VoidablePayment(o, p)
  /\ payments' = [payments EXCEPT ![p].voided = TRUE]
  /\ items' = Released(p)
  /\ orders' = [orders EXCEPT ![o].status = StatusAfterVoid(o, p)]
  /\ UNCHANGED <<sessions, tables, consumed, invoiced>>

-----------------------------------------------------------------------------
(* The cash register. *)

\* The cash a session took in: amounts and tips of its live cash payments.
CashTaken(s) ==
  SumOf([p \in {q \in Payments : /\ payments[q].session = s
                                 /\ payments[q].method = "cash" /\ ~payments[q].voided}
           |-> payments[p].amount + payments[p].tip])

RegisterFree == \A s \in Sessions : ~IsOpen(s)

OpenCash(s, opening) ==
  /\ RegisterFree /\ sessions[s].state = "none"
  /\ sessions' = [sessions EXCEPT ![s] =
       [state |-> "open", opening |-> opening, expected |-> 0]]
  /\ UNCHANGED <<orders, items, payments, tables, consumed, invoiced>>

\* Closing signs what the drawer should hold.
CloseCash(s) ==
  /\ IsOpen(s)
  /\ Fits(sessions[s].opening + CashTaken(s))
  /\ sessions' = [sessions EXCEPT
       ![s].state = "closed",
       ![s].expected = sessions[s].opening + CashTaken(s)]
  /\ UNCHANGED <<orders, items, payments, tables, consumed, invoiced>>

-----------------------------------------------------------------------------
(* Billing, as far as the orders see it, one request at a time. *)

IssueInvoice(o) ==
  /\ orders[o].status = "paid" /\ o \notin invoiced
  /\ invoiced' = invoiced \cup {o}
  /\ UNCHANGED <<orders, items, payments, sessions, tables, consumed>>

VoidInvoice(o) ==
  /\ o \in invoiced
  /\ invoiced' = invoiced \ {o}
  /\ UNCHANGED <<orders, items, payments, sessions, tables, consumed>>

-----------------------------------------------------------------------------
ItemStep(o) ==
  \/ \E batch \in Batches : AddItems(o, batch)
  \/ \E i \in Items : \/ RemoveItem(o, i)
                      \/ VoidItem(o, i)
                      \/ \E qty \in Quantities : ChangeItem(o, i, qty)
                      \/ \E granted \in BOOLEAN : SetCourtesy(o, i, granted)

KitchenStep(o) ==
  SendToKitchen(o) \/ MarkReady(o) \/ MarkServed(o) \/ CancelOrder(o)

TableStep ==
  \/ \E w \in Staff, o \in Orders, type \in Types, t \in Tables \cup {None},
        batch \in Batches : OpenOrder(w, o, type, t, batch)
  \/ \E o \in Orders, t \in Tables : MoveOrder(o, t)
  \/ \E a \in Staff, o, source \in Orders : MergeOrders(a, o, source)
  \/ \E t \in Tables : UpdateTable(t)

PayStep(o) ==
  \/ \E a \in Staff, percent \in Percents : ApplyDiscount(a, o, percent)
  \/ \E a \in Staff, p \in Payments, s \in Sessions, method \in Methods,
        tip \in Tips :
       \/ ChargeBalance(a, o, p, s, method, tip)
       \/ \E amount \in 1..MaxMoney : ChargePart(a, o, p, s, amount, method, tip)
       \/ \E S \in SUBSET ItemsOf(o) : ChargeItems(a, o, p, s, S, method, tip)
  \/ \E p \in Payments : VoidPayment(o, p)

CashStep == \E s \in Sessions : \/ CloseCash(s)
                                \/ \E opening \in Floats : OpenCash(s, opening)

InvoiceStep(o) == IssueInvoice(o) \/ VoidInvoice(o)

Next ==
  \/ TableStep
  \/ CashStep
  \/ \E o \in Orders : ItemStep(o) \/ KitchenStep(o) \/ PayStep(o)
                         \/ InvoiceStep(o)

Spec == Init /\ [][Next]_vars

-----------------------------------------------------------------------------
(* Properties. *)

\* Every row holds values its columns take: amounts fit NUMERIC(10, 2),
\* rounds the bound, references name rows of the restaurant or nothing.
TypeOK ==
  /\ orders \in [Orders -> OrderRow]
  /\ items \in [Items -> ItemRow]
  /\ payments \in [Payments -> PaymentRow]
  /\ sessions \in [Sessions -> SessionRow]
  /\ tables \in [Tables -> BOOLEAN]
  /\ consumed \in [Items -> Nat]
  /\ invoiced \subseteq Orders

\* Whatever was discounted, invited, voided, split, added later or merged,
\* nobody is charged more than the bill (Order.balance is never negative).
NeverOvercharged ==
  \A o \in Orders : 0 <= Paid(o) /\ Paid(o) <= Total(o)

\* A paid order owes nothing, to the cent, and stays so: no later change of
\* dishes, rounding or voided payment leaves a paid order with a balance.
PaidIsSettled ==
  \A o \in Orders : orders[o].status = "paid" => Balance(o) = 0

\* An order that holds money is past the kitchen's door: it is never open
\* (its dishes could be removed), cancelled, or merged into another.
MoneyHasItsOrder ==
  \A p \in Payments : payments[p].order # None /\ ~payments[p].voided =>
    /\ orders[payments[p].order].status
         \in {"in_kitchen", "ready", "served", "paid"}
    /\ orders[payments[p].order].mergedInto = None

\* A dish marked as paid by someone is live, and that payment is a live
\* payment of the order the dish is in, after every merge and every void.
SplitIsSound ==
  \A i \in Items : items[i].payment # None =>
    /\ items[i].payment \in PaymentsOf(items[i].order)
    /\ ~items[i].voided

\* Nobody pays for a dish someone else already paid for.
NoDishPaidTwice ==
  [][\A i \in Items : items[i].payment # None =>
       items'[i].payment \in {None, items[i].payment}]_vars

\* While an order holds money its total never falls below what it was: only
\* more dishes can change it (Order._ensure_adjustable, void_item).
PaidBillOnlyGrows ==
  [][\A o \in Orders : ~Unpaid(o) /\ ~Unpaid(o)' => Total(o)' >= Total(o)]_vars

\* What a closing signed is what the session holds for ever after: no payment
\* falls into a closed session and none is voided out of it (CloseCash takes
\* the session row that ChargeOrder and VoidPayment also take).
SignedArqueoHolds ==
  \A s \in Sessions : sessions[s].state = "closed" =>
    sessions[s].expected = sessions[s].opening + CashTaken(s)

\* One open cash register per restaurant (uq_cash_sessions_one_open).
OneOpenRegister ==
  \A r, s \in Sessions : IsOpen(r) /\ IsOpen(s) => r = s

\* A dish the diners were served has its ingredients deducted, through every
\* merge of tables and every return to the kitchen.
ServedIsConsumed ==
  \A i \in Items :
    /\ items[i].order # None /\ ~items[i].voided
    /\ items[i].dish \in Recipes
    /\ orders[items[i].order].status \in {"served", "paid"}
    => consumed[i] > 0

\* Serving an order again never deducts a dish it already deducted.
NeverConsumedTwice ==
  [][\A i \in Items : consumed'[i] # consumed[i] => consumed[i] = 0]_vars

\* Every dish of an order the kitchen has belongs to a round the kitchen was
\* told about, whichever way it arrived there.
KitchenKnowsEveryDish ==
  \A i \in Items :
    /\ items[i].order # None
    /\ orders[items[i].order].status \in {"in_kitchen", "ready", "served"}
    => items[i].round \in 1..orders[items[i].order].round

\* The orders opened, moved and merged never seat two active orders at one
\* table; only voiding a payment of an order already paid can.
TableSharedOnlyByReopening ==
  \A o, r \in Orders :
    o # r /\ IsActive(o) /\ IsActive(r) /\ orders[o].table = orders[r].table
      /\ orders[o].table # None
    => \E p \in Payments : payments[p].voided /\ payments[p].order \in {o, r}

\* The register implements the abstract cash desk: the drawer of a session is
\* its opening cash plus what it took in.
Desk == INSTANCE CashDesk WITH
  drawer <- [s \in Sessions |-> IF sessions[s].state = "none" THEN 0
                                ELSE sessions[s].opening + CashTaken(s)],
  phase <- [s \in Sessions |-> sessions[s].state],
  signed <- [s \in Sessions |-> IF sessions[s].state = "closed"
                                THEN sessions[s].expected ELSE None]

ImplementsCashDesk == Desk!Spec

\* README: "Una mesa tiene a lo sumo un pedido activo".
OneActiveOrderPerTable ==
  \A t \in Tables : \A o, r \in ActiveAt(t) : o = r

\* orders.py: "Un plato que ya salio a cocina no se quita: se anula con su
\* motivo y deja de cobrarse, pero queda en el pedido para la historia."
SentDishStays ==
  [][\A i \in Items : items[i].round > 0 => items'[i].order # None]_vars

=============================================================================
