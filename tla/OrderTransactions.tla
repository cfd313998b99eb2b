-------------------------- MODULE OrderTransactions --------------------------
(***************************************************************************)
(* The transactions behind the use cases of OrderBook, statement by        *)
(* statement, as PostgreSQL runs them at READ COMMITTED: which rows each   *)
(* request takes and in which order, what it reads without taking it, and  *)
(* what a request cut, repeated or refused half way leaves behind.         *)
(*                                                                         *)
(* A row is taken "update" (SELECT ... FOR UPDATE) or "share" (the KEY     *)
(* SHARE lock an INSERT takes on every row its foreign keys name), and     *)
(* kept until the transaction ends.  Writes are seen by others when it     *)
(* commits.  An order is its bill: adding dishes makes it grow, paid in    *)
(* part or not, and the kitchen serves all there is in one step.           *)
(***************************************************************************)
EXTENDS Integers, FiniteSets, Sequences, Functions

CONSTANTS
  Attempts,         \* requests that reach the server, retries included
  Orders,           \* order rows
  Tables, Sessions,
  Served, Settled,  \* orders the day begins with: on a table, already paid
  Seat,             \* the table each of those is or was at
  Price, Dish,      \* what a new order comes to, and the dishes added to one
  None

ASSUME TransactionsAssumption ==
  /\ IsFiniteSet(Orders) /\ Orders \subseteq Nat \ {0} /\ Price \in Nat \ {0}
  /\ Dish \in Nat
  /\ Served \subseteq Orders /\ Settled \subseteq Orders \ Served
  /\ Seat \in [Served \cup Settled -> Tables]
  /\ \A o, r \in Served : Seat[o] = Seat[r] => o = r
  /\ Attempts \cap Settled = {}
  /\ None \notin Attempts \cup Orders \cup Tables \cup Sessions

VARIABLES
  orders,    \* what is committed: orders, payments, cash sessions and the
  payments,  \* orders with a live invoice
  sessions,
  invoices,
  req,       \* what each attempt asks for
  todo,      \* the statements its transaction has left
  held,      \* the rows it has taken, and how
  note       \* what it read and still remembers

db == <<orders, payments, sessions, invoices>>
vars == <<orders, payments, sessions, invoices, req, todo, held, note>>

Kinds == {"open", "add", "move", "merge", "charge", "void", "opencash", "close",
          "issue"}
Active == {"open", "served"}
Bills == Attempts \cup Settled  \* a payment is named by who made it

NoRequest == [kind |-> "none", order |-> None, other |-> None, table |-> None,
              part |-> FALSE, seen |-> 0, key |-> None]
NoNote == [cash |-> None, number |-> 0, balance |-> 0, taken |-> 0,
           payment |-> None]
NoOrder == [status |-> "none", table |-> None, number |-> 0, bill |-> 0,
            key |-> None]
\* "bill" is not a column: the bill the payment was made of, for history.
NoPayment == [order |-> None, session |-> None, amount |-> 0, live |-> FALSE,
              bill |-> 0]

Init ==
  /\ orders = [o \in Orders |->
       IF o \in Served \cup Settled
         THEN [status |-> IF o \in Served THEN "served" ELSE "paid",
               table |-> Seat[o], number |-> o, bill |-> Price, key |-> None]
         ELSE NoOrder]
  /\ \E s \in Sessions :
       /\ sessions = [r \in Sessions |->
            [state |-> IF r = s THEN "open" ELSE "none", signed |-> 0]]
       /\ payments = [b \in Bills |->
            IF b \in Settled
              THEN [order |-> b, session |-> s, amount |-> Price, live |-> TRUE,
                    bill |-> Price]
              ELSE NoPayment]
  /\ invoices = {}
  /\ req = [a \in Attempts |-> NoRequest]
  /\ todo = [a \in Attempts |-> <<>>]
  /\ held = [a \in Attempts |-> {}]
  /\ note = [a \in Attempts |-> NoNote]

-----------------------------------------------------------------------------
SumOf(f) == FoldFunction(LAMBDA x, y : x + y, 0, f)

PaymentsOf(o) == {b \in Bills : payments[b].live /\ payments[b].order = o}
Balance(o) ==
  orders[o].bill - SumOf([b \in PaymentsOf(o) |-> payments[b].amount])
InSession(s) == {b \in Bills : payments[b].live /\ payments[b].session = s}
Taken(s) == SumOf([b \in InSession(s) |-> payments[b].amount])
IsActive(o) == orders[o].status \in Active
ActiveAt(t) == {o \in Orders : orders[o].table = t /\ IsActive(o)}
OpenSessions == {s \in Sessions : sessions[s].state = "open"}
LastNumber ==
  CHOOSE n \in {0} \cup {orders[o].number : o \in Orders} :
    \A o \in Orders : orders[o].number <= n

-----------------------------------------------------------------------------
(* Requests.  A fresh one has a key of its own; the same request may arrive *)
(* again: a double tap, the queue of a phone back on the network.           *)

Request(kind) == [NoRequest EXCEPT !.kind = kind]

\* A definition named ...Bug is what a careless change would make of the one
\* that follows it; no action uses it.
MovePathBug == <<"order", "seat", "write", "commit">>
MovePath == <<"turn", "order", "seat", "write", "commit">>

\* The statements of each use case, in the order it makes them.
Path == [open |-> <<"turn", "seat", "write", "commit">>,
         add |-> <<"order", "write", "commit">>,
         move |-> MovePath,
         merge |-> <<"order", "other", "write", "commit">>,
         charge |-> <<"order", "cash", "write", "commit">>,
         void |-> <<"order", "invoiced", "cash", "write", "commit">>,
         opencash |-> <<"vacant", "write", "commit">>,
         close |-> <<"cash", "count", "write", "commit">>,
         issue |-> <<"paid", "settings", "write", "sunat", "commit">>]

InFlight(kind) == {a \in Attempts : req[a].kind = kind /\ todo[a] # <<>>}

\* The bound on rows: no more openings in flight than rows left for them.
RoomFor(r) ==
  /\ r.kind = "open" =>
       Cardinality(InFlight("open"))
         < Cardinality({o \in Orders : orders[o].status = "none"})
  /\ r.kind = "opencash" =>
       Cardinality(InFlight("opencash"))
         < Cardinality({s \in Sessions : sessions[s].state = "none"})

Meaningful(r) ==
  /\ RoomFor(r)
  /\ r.order # None => orders[r.order].status # "none"
  /\ r.kind = "merge" => r.order # r.other /\ orders[r.other].status # "none"

Begin(a, r) ==
  /\ req[a] = NoRequest /\ Meaningful(r)
  /\ req' = [req EXCEPT ![a] = r]
  /\ todo' = [todo EXCEPT ![a] = Path[r.kind]]
  /\ UNCHANGED <<db, held, note>>

Asking(a, kind) == [Request(kind) EXCEPT !.key = a]
About(a, kind, o) == [Asking(a, kind) EXCEPT !.order = o]

Arrive(a) ==
  \/ \E t \in Tables : Begin(a, [Asking(a, "open") EXCEPT !.table = t])
  \/ \E o \in Orders :
       \/ \E t \in Tables : Begin(a, [About(a, "move", o) EXCEPT !.table = t])
       \/ \E r \in Orders : Begin(a, [About(a, "merge", o) EXCEPT !.other = r])
       \/ \E kind \in {"add", "charge", "void", "issue"} :
            Begin(a, About(a, kind, o))
       \/ Begin(a, [About(a, "charge", o) EXCEPT !.part = TRUE,
                                                !.seen = Balance(o)])
  \/ \E kind \in {"opencash", "close"} : Begin(a, Asking(a, kind))

\* Only opening and charging carry what tells a repetition by; any other
\* request repeated is like a fresh one.
Repeat(a, b) == req[b].kind \in {"open", "charge"} /\ Begin(a, req[b])

-----------------------------------------------------------------------------
(* Rows and locks. *)

Restaurant == <<"restaurant", 0>>
Settings == <<"billing_settings", 0>>
OrderRow(o) == <<"orders", o>>
CashRow(s) == <<"cash_sessions", s>>

Doing(a, step) == todo[a] # <<>> /\ Head(todo[a]) = step
Is(a, kind) == req[a].kind = kind

TurnModeBug == "share"
TurnMode == "update"
CashModeBug == "share"
CashMode == "update"
OrderModeBug == "share"
OrderMode == "update"

\* A merge takes its two orders by identifier.
FirstBug(r) == r.order
First(r) == IF r.kind = "merge" /\ r.other < r.order THEN r.other ELSE r.order
Second(r) == IF First(r) = r.order THEN r.other ELSE r.order

\* The rows the next statement of an attempt takes.
Wanted(a) ==
  CASE Doing(a, "turn") -> {<<Restaurant, TurnMode>>}
    [] Doing(a, "order") -> {<<OrderRow(First(req[a])), OrderMode>>}
    [] Doing(a, "other") -> {<<OrderRow(Second(req[a])), OrderMode>>}
    [] Doing(a, "cash") \/ Doing(a, "vacant") ->
         {<<CashRow(s), CashMode>> : s \in OpenSessions}
    [] Doing(a, "settings") -> {<<Settings, "update">>}
    [] Doing(a, "write") ->
         {<<Restaurant, "share">>}
           \cup (IF Is(a, "issue") THEN {<<OrderRow(req[a].order), "share">>}
                                   ELSE {})
    [] OTHER -> {}

Conflict(w, h) == w[1] = h[1] /\ (w[2] = "update" \/ h[2] = "update")
Waits(a, b) == a # b /\ \E w \in Wanted(a), h \in held[b] : Conflict(w, h)
Granted(a) == \A b \in Attempts : ~Waits(a, b)

\* The statement is done, and leaves the attempt knowing n.
Proceed(a, n) ==
  /\ Granted(a)
  /\ held' = [held EXCEPT ![a] = @ \cup Wanted(a)]
  /\ todo' = [todo EXCEPT ![a] = Tail(@)]
  /\ note' = [note EXCEPT ![a] = n]
  /\ UNCHANGED <<db, req>>

EndBug(a) ==
  /\ todo' = [todo EXCEPT ![a] = <<>>]
  /\ note' = [note EXCEPT ![a] = NoNote]
  /\ UNCHANGED <<req, held>>
\* The transaction is over and its rows are free.
End(a) ==
  /\ todo' = [todo EXCEPT ![a] = <<>>]
  /\ held' = [held EXCEPT ![a] = {}]
  /\ note' = [note EXCEPT ![a] = NoNote]
  /\ UNCHANGED req

\* An error of the domain rolls back what there is.
Refuse(a) == Granted(a) /\ End(a) /\ UNCHANGED db

-----------------------------------------------------------------------------
(* The statements. *)

TakeTurn(a) == Doing(a, "turn") /\ Proceed(a, note[a])

\* The order is taken, and read as it is now.
ChargeableBug(r) == orders[r.order].status = "served"
Chargeable(r) ==
  /\ orders[r.order].status = "served"
  /\ r.part => r.seen = Balance(r.order)

TakeOrder(a) ==
  LET r == req[a]
      o == r.order
      voidable == {b \in PaymentsOf(o) : orders[o].status \in {"served", "paid"}}
  IN  /\ Doing(a, "order")
      /\ \/ /\ Is(a, "charge") /\ Chargeable(r)
            /\ Proceed(a, [note[a] EXCEPT !.balance = Balance(o)])
         \/ /\ Is(a, "void")
            /\ \E b \in voidable : Proceed(a, [note[a] EXCEPT !.payment = b])
         \/ /\ Is(a, "move") /\ IsActive(o) /\ orders[o].table # r.table
            /\ Proceed(a, note[a])
         \/ /\ Is(a, "add") /\ IsActive(o) /\ Proceed(a, note[a])
         \/ /\ Is(a, "merge") /\ Proceed(a, note[a])
         \/ /\ \/ Is(a, "charge") /\ ~Chargeable(r)
               \/ Is(a, "void") /\ voidable = {}
               \/ Is(a, "add") /\ ~IsActive(o)
               \/ Is(a, "move") /\ ~(IsActive(o) /\ orders[o].table # r.table)
            /\ Refuse(a)

Mergeable(o) == IsActive(o) /\ PaymentsOf(o) = {}

TakeOther(a) ==
  /\ Doing(a, "other")
  /\ IF Mergeable(req[a].order) /\ Mergeable(req[a].other)
       THEN Proceed(a, note[a])
       ELSE Refuse(a)

\* In its turn: has this request opened its order already, is the table free,
\* which number comes next.
OpenedBug(r) == FALSE
Opened(r) == r.kind = "open" /\ \E o \in Orders : orders[o].key = r.key

FindSeat(a) ==
  /\ Doing(a, "seat")
  /\ IF Opened(req[a]) \/ ActiveAt(req[a].table) \ {req[a].order} # {}
       THEN Refuse(a)
       ELSE Proceed(a, [note[a] EXCEPT !.number = LastNumber + 1])

\* A payment is voided only in the session it fell into.
SameShiftBug(a, s) == TRUE
SameShift(a, s) == Is(a, "void") => payments[note[a].payment].session = s

\* The open session is taken; without one there is no charging.
TakeCash(a) ==
  /\ Doing(a, "cash")
  /\ \/ \E s \in OpenSessions :
          IF SameShift(a, s) THEN Proceed(a, [note[a] EXCEPT !.cash = s])
                             ELSE Refuse(a)
     \/ OpenSessions = {} /\ Refuse(a)

FindNoCash(a) ==
  /\ Doing(a, "vacant")
  /\ IF OpenSessions = {} THEN Proceed(a, note[a]) ELSE Refuse(a)

CountCash(a) ==
  /\ Doing(a, "count")
  /\ Proceed(a, [note[a] EXCEPT !.taken = Taken(note[a].cash)])

\* Voiding a payment asks whether its order has a live invoice.
AskInvoice(a) ==
  /\ Doing(a, "invoiced")
  /\ IF req[a].order \in invoices THEN Refuse(a) ELSE Proceed(a, note[a])

\* Issuing an invoice reads its order without taking it.
ReadPaid(a) ==
  /\ Doing(a, "paid")
  /\ IF orders[req[a].order].status = "paid" /\ req[a].order \notin invoices
       THEN Proceed(a, note[a]) ELSE Refuse(a)

TakeSettings(a) == Doing(a, "settings") /\ Proceed(a, note[a])

\* What a unique index would not let in.
Clashes(a) ==
  \/ Is(a, "open") /\ \E o \in Orders : \/ orders[o].number = note[a].number
                                        \/ orders[o].key = req[a].key
  \/ Is(a, "opencash") /\ OpenSessions # {}
  \/ Is(a, "issue") /\ req[a].order \in invoices

\* An INSERT with the key of an uncommitted one waits for that transaction.
SameKeyPending(a) ==
  \E b \in Attempts \ {a} :
    /\ Is(a, req[b].kind) /\ Doing(b, "commit")
    /\ \/ Is(a, "opencash")
       \/ Is(a, "open") /\ (note[a].number = note[b].number
                             \/ req[a].key = req[b].key)

Write(a) ==
  /\ Doing(a, "write") /\ ~SameKeyPending(a)
  /\ IF Clashes(a) THEN Refuse(a) ELSE Proceed(a, note[a])

\* The provider answers in its own time, with the rows of the invoice taken.
Sunat(a) == Doing(a, "sunat") /\ Proceed(a, note[a])

-----------------------------------------------------------------------------
(* Commits. *)

Commits(a, kind) == Doing(a, "commit") /\ Is(a, kind) /\ End(a)

CommitOpen(a) ==
  /\ Commits(a, "open")
  /\ \E o \in {r \in Orders : orders[r].status = "none"} :
       orders' = [orders EXCEPT ![o] =
         [status |-> "open", table |-> req[a].table, number |-> note[a].number,
          bill |-> Price, key |-> req[a].key]]
  /\ UNCHANGED <<payments, sessions, invoices>>

\* Dishes for an order in course: one already served goes back to the kitchen.
CommitAdd(a) ==
  /\ Commits(a, "add")
  /\ orders' = [orders EXCEPT ![req[a].order].bill = @ + Dish,
                              ![req[a].order].status = "open"]
  /\ UNCHANGED <<payments, sessions, invoices>>

CommitMove(a) ==
  /\ Commits(a, "move")
  /\ orders' = [orders EXCEPT ![req[a].order].table = req[a].table]
  /\ UNCHANGED <<payments, sessions, invoices>>

CommitMerge(a) ==
  LET o == req[a].order
      source == req[a].other
  IN  /\ Commits(a, "merge")
      /\ orders' = [orders EXCEPT
           ![o].bill = @ + orders[source].bill,
           ![o].status = IF "open" \in {orders[source].status, @} THEN "open"
                                                                  ELSE @,
           ![source].status = "cancelled", ![source].bill = 0]
      /\ UNCHANGED <<payments, sessions, invoices>>

CommitCharge(a) ==
  LET amount == IF req[a].part THEN 1 ELSE note[a].balance
  IN  /\ Commits(a, "charge")
      /\ payments' = [payments EXCEPT ![a] =
           [order |-> req[a].order, session |-> note[a].cash,
            amount |-> amount, live |-> TRUE, bill |-> orders[req[a].order].bill]]
      /\ orders' = [orders EXCEPT ![req[a].order].status =
           IF amount = note[a].balance THEN "paid" ELSE @]
      /\ UNCHANGED <<sessions, invoices>>

CommitVoid(a) ==
  /\ Commits(a, "void")
  /\ payments' = [payments EXCEPT ![note[a].payment].live = FALSE]
  /\ orders' = [orders EXCEPT ![req[a].order].status = "served"]
  /\ UNCHANGED <<sessions, invoices>>

CommitOpenCash(a) ==
  /\ Commits(a, "opencash")
  /\ \E s \in {r \in Sessions : sessions[r].state = "none"} :
       sessions' = [sessions EXCEPT ![s].state = "open"]
  /\ UNCHANGED <<orders, payments, invoices>>

CommitClose(a) ==
  /\ Commits(a, "close")
  /\ sessions' = [sessions EXCEPT ![note[a].cash] =
       [state |-> "closed", signed |-> note[a].taken]]
  /\ UNCHANGED <<orders, payments, invoices>>

CommitIssue(a) ==
  /\ Commits(a, "issue")
  /\ invoices' = invoices \cup {req[a].order}
  /\ UNCHANGED <<orders, payments, sessions>>

\* Until it commits, a transaction may be undone: the deadline of the request,
\* a restart, the connection, PostgreSQL breaking a deadlock.
Abort(a) == todo[a] # <<>> /\ End(a) /\ UNCHANGED db

\* The kitchen serves an order nobody has taken.
Serve(o) ==
  /\ orders[o].status = "open"
  /\ \A a \in Attempts : \A h \in held[a] : h[1] # OrderRow(o)
  /\ orders' = [orders EXCEPT ![o].status = "served"]
  /\ UNCHANGED <<payments, sessions, invoices, req, todo, held, note>>

-----------------------------------------------------------------------------
Run(a) ==
  \/ TakeTurn(a) \/ TakeOrder(a) \/ TakeOther(a) \/ FindSeat(a)
  \/ TakeCash(a) \/ FindNoCash(a) \/ CountCash(a) \/ AskInvoice(a)
  \/ ReadPaid(a) \/ TakeSettings(a) \/ Write(a) \/ Sunat(a)
  \/ CommitOpen(a) \/ CommitAdd(a) \/ CommitMove(a) \/ CommitMerge(a)
  \/ CommitCharge(a) \/ CommitVoid(a) \/ CommitOpenCash(a) \/ CommitClose(a)
  \/ CommitIssue(a)

\* A set of attempts each of which waits for another of the set.
Deadlocked(S) == S # {} /\ \A a \in S : \E b \in S : Waits(a, b)

\* PostgreSQL looks for them and undoes one (deadlock_timeout).
BreakDeadlock(a) ==
  /\ \E S \in SUBSET Attempts : a \in S /\ Deadlocked(S)
  /\ Abort(a)

Next ==
  \/ \E a \in Attempts : Arrive(a) \/ Run(a) \/ Abort(a)
  \/ \E a, b \in Attempts : Repeat(a, b)
  \/ \E o \in Orders : Serve(o)

Spec == Init /\ [][Next]_vars

\* The server runs every request, and the database breaks every deadlock.
Fairness ==
  \A a \in Attempts : WF_vars(Run(a)) /\ WF_vars(BreakDeadlock(a))

FairSpec == Spec /\ Fairness

-----------------------------------------------------------------------------
(* Properties. *)

\* Rows hold values of their columns, transactions end with nothing taken and
\* a finished or unborn one remembers nothing.
TypeOK ==
  /\ orders \in [Orders -> [status : Active \cup {"none", "paid", "cancelled"},
                            table : Tables \cup {None}, number : Nat, bill : Nat,
                            key : Attempts \cup {None}]]
  /\ payments \in [Bills -> [order : Orders \cup {None}, amount : Int,
                             session : Sessions \cup {None}, live : BOOLEAN,
                             bill : Nat]]
  /\ sessions \in [Sessions -> [state : {"none", "open", "closed"}, signed : Int]]
  /\ invoices \subseteq Orders
  /\ \A a \in Attempts : todo[a] = <<>> => held[a] = {} /\ note[a] = NoNote

\* A closing signs every payment its session holds, now and later: a charge
\* and a closing in any interleaving take turns on the session row.
ArqueoCountsEveryPayment ==
  \A s \in Sessions : sessions[s].state = "closed" =>
    sessions[s].signed = Taken(s)

\* Two charges of one order at once, or a charge and dishes added, whatever each
\* of them read: never is more charged than the bill, and only a whole bill
\* makes an order paid.
ChargesTakeTurns ==
  \A o \in Orders : /\ Balance(o) >= 0
                    /\ orders[o].status = "paid" => Balance(o) = 0

\* A request repeated (double tap, lost answer) is charged once, because a part
\* of a bill carries the balance it was seen with, unless that balance came
\* back in between: a payment of the order was voided, or dishes were added for
\* all that the first had paid.
TwicePaid(a, b) == /\ a # b /\ payments[a].live /\ payments[b].live
                   /\ req[a].key = req[b].key
GrewBetween(a, b) == payments[a].bill + payments[a].amount <= payments[b].bill
DoubleTapPaysOnce ==
  \A a, b \in Attempts : TwicePaid(a, b) =>
    \/ \E c \in Bills : payments[c].order = payments[a].order /\ ~payments[c].live
    \/ GrewBetween(a, b) \/ GrewBetween(b, a)

\* The turn is enough to number orders: when an order is inserted its number
\* is still free, so the unique index never has to refuse one.
NumberStillFree ==
  \A a \in Attempts : Doing(a, "write") /\ Is(a, "open") =>
    \A o \in Orders : orders[o].number # note[a].number

\* A repeated request to open an order (client_request_id) finds the order it
\* opened, in any interleaving: it never gets to inserting a second one.
RetryFindsItsOrder ==
  \A a \in Attempts : Doing(a, "write") /\ Is(a, "open") =>
    \A o \in Orders : orders[o].key # req[a].key

\* Opening and moving orders take turns on the restaurant: two of them never
\* seat two active orders at one table.  (Voiding a payment can, see
\* OrderBook.)
TurnSeatsOne ==
  [][\A o, r \in Orders, a \in Attempts :
       /\ o # r /\ (CommitOpen(a) \/ CommitMove(a))
       /\ IsActive(o)' /\ IsActive(r)' /\ orders'[o].table = orders'[r].table
       => \E b \in Bills : payments[b].order \in {o, r} /\ ~payments[b].live]_vars

\* Merges lock by identifier, charges the order before the session: with no
\* move among them, requests never wait for each other for ever.
OnlyMovesDeadlock ==
  \A S \in SUBSET Attempts :
    Deadlocked(S) => \E a \in S : Is(a, "move")

\* Every committed step is a step of the abstract cash desk.
Desk == INSTANCE CashDesk WITH
  drawer <- [s \in Sessions |-> Taken(s)],
  phase <- [s \in Sessions |-> sessions[s].state],
  signed <- [s \in Sessions |-> IF sessions[s].state = "closed"
                                THEN sessions[s].signed ELSE None]

MovesLikeCashDesk == [][Desk!Next]_(Desk!vars)

\* Every request is answered: no deadlock lasts, no row stays taken.
EveryRequestEnds ==
  \A a \in Attempts : todo[a] # <<>> ~> todo[a] = <<>>

\* void_payment.py: "Con el comprobante emitido, primero se anula el
\* comprobante (nota de credito)": an invoiced order is not reopened.
InvoicedStaysPaid == \A o \in invoices : orders[o].status = "paid"

\* orders.py: expected_balance is the one seen, "si otro pago entro en el medio
\* (o un doble toque), no coincide y no se cobra dos veces".
NeverPaidTwice == \A a, b \in Attempts : ~TwicePaid(a, b)

\* sqlalchemy_repositories.py (billing): "No se usa la del restaurante [...]
\* emitir una boleta frenaria la toma de pedidos."
OrdersDoNotWaitForSunat ==
  \A a, b \in Attempts : Is(a, "open") /\ Doing(b, "sunat") => ~Waits(a, b)

=============================================================================
