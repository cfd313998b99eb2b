# Verification of the RestHub backend

RestHub is the backend of a restaurant: orders, kitchen, cash register,
electronic invoices, stock, reservations, customers, staff accounts and a
platform panel. It is a FastAPI application over PostgreSQL, in modules with
domain, use cases and adapters, joined by `wiring/`. This directory holds the
TLA+ modules written from its source, the TLC configurations that check them
and the theorems TLAPS proves about them. Paths below are relative to
`src/src/resthub/` unless they begin with `src/`.

## 1. Inventory

How the program runs matters to every part: **one request is one database
transaction** (`core/database.py:get_session`): it commits when the handler
ends, rolls back on any exception, and there is nothing but row locks and
unique indexes between two requests at READ COMMITTED. Several processes may
serve one database. A request may be cut at its deadline
(`core/request_deadline.py`) anywhere before its commit, and clients retry.

| Component | State | Operations | What is hard | What makes it correct |
|---|---|---|---|---|
| Orders (`modules/orders`) | orders, order_items, order_payments, dining_tables | open, add/change/remove dishes, send, ready, serve, void dish, cancel, discount, courtesy, move, merge, charge (whole, part, by dishes), void payment | two requests on one order; a table is "occupied" only by deduction; retries; rounding of split bills | never overcharged, paid means settled, dishes paid once, one active order per table, kitchen told of every dish |
| Cash register (`modules/orders/.../cash.py`) | cash_sessions | open, close with arqueo | closing while charging; voiding after closing | one open session; what was signed holds |
| Consumption (`wiring/kitchen_consumption.py`, `inventory/.../consume_served_order.py`) | stock_movements | deduct on serving | serving again after adding dishes or merging | each dish deducted once |
| Billing (`modules/billing`) | invoices, credit_notes, billing_settings | issue, resend, void, resend note, archive, mail | an outside provider (SUNAT) inside a transaction; timeouts; numbering; a job lost at restart | one live invoice per order, no number twice, the state agrees with SUNAT |
| Inventory (`modules/inventory`) | ingredients, ledger, stock counts, waste approvals, purchase orders, recipes | purchase, waste, adjust, count, approve, receive | reads of the ledger without locks, average cost | a document moves the stock once, what was counted holds, the cost is an average |
| Reservations (`modules/reservations`) | reservations | save, change status | overlap under concurrent edits | no two live reservations overlap on a table |
| Accounts (`modules/accounts`, `core/account_sessions`, `two_factor`, `login_*`) | users, roles, sessions, attempts, codes | sign in, rotate, lock, unlock, revoke, second factor, preview | several replicas counting; rotation under traffic; codes used twice | a revoked session stays revoked, limits hold, codes are used once |
| Platform (`modules/platform`) | admins, sandbox, alerts | provision, reset sandbox, observe | one active sandbox | as named |
| Realtime (`core/realtime_broker.py`) | subscribers and their queues | publish, deliver | events before commit, slow subscribers | only committed changes are announced |
| Telemetry (`core/telemetry.py`) | queue, counters | record, write, retry, purge, drain | bounded queue, shutdown | every row is written once or counted as dropped |
| Background jobs, deadline (`core/background.py`, `core/request_deadline.py`) | tasks | spawn, drain, cut | restart, cancellation | a request cut leaves nothing behind |
| Customers and retention (`modules/customers`, `wiring/data_retention.py`) | customers | save, anonymise, purge | orders in course | data in use is not erased |
| Menu, restaurants, insights, lookup, limits | rows, reports, caches | edits and reads | little | unit tests suffice |

Who calls whom: a waiter's use case of `orders` reads the menu (prices are
frozen in the order), records activity, publishes an event to be sent after
the commit, and on serving calls `inventory` in the same transaction. Voiding a
payment asks `billing` whether the order has a live invoice; issuing an invoice
reads the paid order. Both go through ports that `wiring/` implements.

The list `hazards` of PROJECT.json gives each hazard at its line with the
properties that watch it; a note says what a property leaves open, or why there
is none.

## 2. Modules

| Module | Models |
|---|---|
| `OrderBook` | every use case of orders and of the register, one atomic action each |
| `CashDesk` | abstract: what a cash register promises |
| `OrderTransactions` | nine of those use cases statement by statement, with their row locks |
| `OrderBookProofs` | types, the cash register and its refinement, what the kitchen and the ledger know of a dish, what an order comes to and who has paid it, where live payments are, which orders may sit at one table |
| `OrderTransactionsProofs` | why the row locks are enough: charges, arqueos, numbers, tables, retries, and who may deadlock |
| `Invoicing` | billing: issuing, resending, voiding, credit notes and archive, and SUNAT |
| `InvoiceLife` | abstract: what billing promises of an invoice |
| `InvoicingProofs` | types, agreement with SUNAT, waiting, numbers without gaps, the archive and the refinement of `InvoiceLife` |
| `Inventory` | the ledger of stock and all that makes it grow, statement by statement |
| `InventoryProofs` | documents move the stock once, the cost stays an average, what was counted holds |
| `SumProofs` | what a sum over a finite set is worth, for the modules whose proofs add up money or stock |
| `Reservations` | taking, editing and closing reservations, statement by statement, next to the opening of orders |
| `TableDiary` | abstract: what the reservations of a restaurant promise |
| `ReservationsProofs` | the refinement of `TableDiary`, no overlap, and who may deadlock |
| `SignIn` | the sign-in of an account over several replicas: attempts, second factor, sessions |
| `SignInProofs` | the limits, the codes and the cap of sessions, for every instance |
| `Realtime` | from a request that changes something to the screens that show it |
| `RealtimeProofs` | what is announced, to whom, and what a deadline promises |
| `MCOrderBook`, `MCOrderTransactions`, `MCInvoicing`, `MCInventory`, `MCReservations`, `MCSignIn`, `MCRealtime` | instances for TLC |

### OrderBook

State: the tables `orders`, `items`, `payments`, `sessions`, `tables` as
functions from row identifiers to records (status `"none"` or order `None` is
a row not inserted yet), `consumed` (portions of a line in the ledger) and
`invoiced` (orders with a live invoice). One action per use case, with the
whole of it: `MarkServed` also deducts, `VoidPayment` also releases the dishes
that payment paid for and reopens the order, `MergeOrders` moves the dishes,
closes the other order and takes the less advanced status. The bill (`Due`,
`PercentOf`, `Total`, `Balance`, `AmountForItems`) is the arithmetic of
`domain/orders.py` in cents, ROUND_HALF_UP included.

An atomic action is justified by the locks: each use case that changes an order
reads it with `FOR UPDATE` and, where money moves, the open session too. That
this is enough is checked apart, in `OrderTransactions`; where it is not
(issuing an invoice) that module says so.

Abstracted: texts, instants, contact data; delivery is takeaway with an
address; a dish has a recipe or not, for good (`Recipes`); deducting is counted
in portions of a line and not per ingredient; an order takes finitely many
dishes at a time; the balance a charge says it saw
is left to `OrderTransactions`. `UpdateOrderDetails` writes only what is
abstracted and has no action.

### CashDesk

Three variables (what each drawer should hold, its phase, what its closing
signed) and three actions: `Open` when no other is open, `Move` money in the
open drawer only, `Close` signing what it holds. `OrderBook` implements its
whole specification; `OrderTransactions` begins with a shift that is already
open, so there every step is checked to be a step of it.

### OrderTransactions

Each attempt (a request that reached the server) has the statements it has left
(`todo`), the rows it has taken (`held`, for update or shared) and what it
remembers of what it read (`note`). `Path` lists the statements of each use
case in the order of the code. A statement runs only when no other attempt
holds what it wants (`Granted`). Inserting shares the rows its foreign keys
name: that is how charging an order touches the restaurant's row. An INSERT
with the key of another, uncommitted one waits for it; a committed one refuses
it (`Clashes`). Writes become visible at commit. `Repeat` is the same request
once more: a double tap or a retry, at any time. `Abort` undoes a transaction
anywhere before its commit: the deadline, a restart, a lost connection.

An order is its bill. `CommitAdd` (`Order.add_items`) makes it grow by `Dish`,
whether or not something has been paid on it, and sends a served order back to
the kitchen; until it is served again nothing is charged. The balance may so come
back to an amount a diner has already seen. `bill` in a payment is no column: it
remembers the bill the payment was made of, for `DoubleTapPaysOnce`. Discounts,
courtesies and voided dishes are left out: they take the same row for update,
and with a payment on the order they are refused (`_ensure_adjustable`,
`void_item`; in `OrderBook`, `PaidBillOnlyGrows`).

Abstracted: the dishes of a bill; the kitchen serves in one step; one business
day, one restaurant. Locks, waiting and breaking deadlocks are
PostgreSQL's and marked external in the map.

### InvoiceLife

Two variables: the point each invoice is at (none, open, accepted, voided) and
the order it bills. `Issue` only for an order without a current invoice,
`Accept` an open one, `Void` for good. `Invoicing` implements its whole
specification (`LivesLikeAnInvoice`).

### Invoicing

`invoices` and `notes` are the committed rows (status `"none"` or number 0: not
there; `"reserved"`: an id of the sequence taken by an INSERT not committed,
which stays a gap if it is undone). `jobs` holds the transaction of each
request: what it does, where it is (`"turn"`: wants the `billing_settings` row
to number with, `"insert"`, `"calling"` the provider, `"answered"`,
`"uploading"`), the invoice it has taken and the number it was given. `wire` is
what was sent to SUNAT and not yet processed, `sunat` what it registered,
`tasks` the archive tasks in memory. `lost` is history: documents whose answer
nobody was there to save.

| Code | Actions |
|---|---|
| `IssueInvoice.__call__` | `ReadOrder` (order and last invoice, nothing taken), `TakeTurn`, `InsertInvoice`, `SaveNewInvoice` |
| `ResendInvoice`, `_send` | `ResendInvoice`, `SaveResent` |
| `VoidInvoice` | `VoidLocally`, or `VoidInvoice`, `InsertNote`, `SaveNote` |
| `ResendCreditNote` | `ResendCreditNote`, `SaveNote` |
| `RequestArchive`, `ArchiveInvoiceDocuments` | `RequestArchive`, `StartArchive`, `FinishArchive`, `ForgetTask` (a restart) |
| `LycetGateway._send`, `interpret` | `SunatAccepts`, `SunatRejects`, `GiveUp` (no answer in time, or a transient error) |
| deadline, restart, lost connection, failed commit | `Abort`, anywhere |

What was sent stays on the wire after `GiveUp` and `Abort`: SUNAT may register
it much later, or never. SUNAT refuses a number it already has, and anything
else it likes to. `Send` also covers the document that does not go out
(certificate expired, data missing, no provider): simulated. A request that
waits to take an invoice is one that has not begun, since it holds nothing yet;
the requests that wait while they hold something (`InsertInvoice` for the
invoice it replaces, `InsertNote` for the turn) are states of their own.

Abstracted: one restaurant, one series of invoices and one of notes, kinds and
contents of a document, the order is paid throughout (that it may not stay paid
is the run `invoice_skew`), fiscal data and sending by mail.

### Inventory

`ledger` is the set of committed movements, those of one commit under one
number; `cost` what a unit of each ingredient costs; `supply`, `waste` and
`count` the committed purchase orders, wastes with approval and physical
counts. `req` holds the transaction of each request: what it asks for, its next
statement (`step`), the document it is about, what it has read (`readCost`,
`stock`) and what it will post. `costs` is history: every cost a manager or a
purchase gave an ingredient. What takes a document takes it `FOR UPDATE`
(`Rows`); stock and cost are read without taking anything, and only the UPDATE
of a changed cost takes the ingredient (`Save`).

| Code | Actions |
|---|---|
| `RegisterPurchase` | `AskStock`, `Look` (the cost), `Weigh` (the stock), `Save` (the average), `CommitPurchase` |
| `ReceivePurchaseOrder` | `AskSupply`, `TakeSupply`, and for each line that arrived `NextLine`, `Look`, `Weigh`, `Save`; `CommitPurchase` |
| `CreatePurchaseOrder`, editing, sending, cancelling | `CreateSupply`; `AskSupply`, `TakeSupply`, `CommitSupply` |
| `ReportWaste`, `ApproveWaste`, `RejectWaste` | `ReportWaste`; `AskWaste`, `TakeWaste`, `CommitApprove` or `CommitReject` |
| `RegisterAdjustment` | `Adjust` (by a difference); `AskStock`, `Weigh`, `CommitRecount` (to a counted stock) |
| `OpenStockCount` | `AskCount`, `Glance`, `Insert` (the partial unique index of drafts), `CommitOpen` |
| `RecordCountLines`, `CloseStockCount`, `CancelStockCount` | `AskCount`, `TakeCount`, for a loaded line `Weigh`, then `CommitLoad`, `CommitClose` or `CommitCancel` |
| `ConsumeServedOrder`, `UpdateIngredient` | `Consume`, `Reprice` |
| an ingredient that is inactive, deadline, restart, deadlock broken | `Abort`, anywhere before the commit |

What posts in one statement and reads nothing it depends on (`Consume`,
`Adjust`, `ReportWaste`, `Reprice`, `CreateSupply`) is one action. A day's
`agenda` bounds what may happen on it, and to which ingredients; an instance
chooses the agendas (`Agendas`).

Abstracted: quantities and costs are whole numbers and the average is rounded
down (the code rounds to the column's decimals); waste and consumption are of
one unit; a reception brings the same quantity of each line; names, units,
suppliers and recipes. An order is asked to be received in any order of its
lines, more than the code, which follows the order they arrive in.

### Reservations and TableDiary

`booking` holds the committed reservations (a status and an entry: table,
beginning, length), `req` each request's next statement and the rows it has
taken. Rows are taken for update (`SELECT ... FOR UPDATE`) or shared (the
foreign keys of an INSERT). `NextStep` is the order of the statements:
`SaveReservation` takes its own reservation if it edits (`own`), then the table
(`table`), then the table's reservations near it (`others`), and writes;
`ChangeReservationStatus` takes its own and writes; the opening of an order takes
the restaurant (`turn`) and by its foreign keys the table.

| Code | Actions |
|---|---|
| `SaveReservation` | `AskSave`, `TakeOwn`, `TakeRow`, `FindOthers`, `CommitSave` |
| `ChangeReservationStatus` | `AskStatus`, `TakeOwn`, `TakeRow`, `CommitStatus` |
| `OpenOrder` (its rows only) | `AskOrder`, `TakeRow`, `CommitOrder` |
| an hour that is past, a table of another restaurant, deadline, restart | `Abort` |

`TableDiary` has one variable, the reservations, and two actions: `Write` one
where no other in force meets it, `Close` one that is booked. `Reservations`
implements its whole specification, its variable being the committed rows.
Abstracted: the clock (a request may be refused at any time), one restaurant,
who and how many come.

### SignIn

One account. `memory` is what each replica's `LoginThrottle` counts and `rows`
what `login_attempts` counts, both by address and for the email; `credential`
the second factor with its last step and unused recovery codes; `sessions` the
open sessions; `lock` and `row` who holds the advisory lock of the email and the
row of the credential; `attempt` where each request is. An attempt counts itself
in a transaction of its own (`Arrive`, `Count`, `Note`) and does the rest in the
request's, which may roll back at any step (`Abort`).

| Code | Actions |
|---|---|
| `LoginGuard.acquire`, `LoginThrottle.acquire`, `SqlLoginAttemptStore.acquire` | `Arrive`, `Count`, `Note` |
| `AuthenticateUser`, `login` | `Accept`, `Reject` |
| `check_second_factor`, `SqlTwoFactorStore.verify`, `_spend` | `ReadCode`, `SpendCode` |
| `LoginGuard.succeeded` | `ForgetIt` (memory, at once), `Clear` (database, with the commit) |
| `SqlSessionRegistry.open`, `_cap`; the commit | `OpenSession`, `CommitSignIn` |
| `logout`, and a session that lapses | `End` |
| a process that restarts | `Restart` |

Abstracted: all happens within one window of the limit (fifteen minutes), so no
attempt grows too old to count; passwords are right or wrong by choice; codes of
the application are the steps they belong to; which of the open sessions was
used last is left open. A code that fits when its row is read still does when
it is spent, because the row is taken: the branch of `_spend` that finds it
changed is in the model (`SpendCode`) as it is in the code, and is never taken.
Rotation, refresh, the idle lock, reauthentication and previews are not
modelled; `rotate` reads the session it renames without taking it, and what
`SessionsWithinCap` says is said of sign-ins.

### Realtime

`stored` is the set of requests whose work is committed, `request` where each
one is and what the deadline knows of it (`committing`, `cut`, `answer`),
`listening` the replicas whose LISTEN connection is up, `sending` and `wire` the
notices on their way, `screen` each browser: the replica it is connected to, its
queue, whether it is about to read again (`told`) and what it shows. A notice
carries only its subject and so is named by its request. `missed` is history:
the notices that will not reach a screen.

| Code | Actions |
|---|---|
| `RequestDeadlineMiddleware`, `_note_commit` | `Begin`, `CommitAside`, `Deadline`, `Unwind` |
| `get_session` | `Commit`, `Store` (the database's part), `Fail`, `LoseCommit`, `Undo` (a repository that rolls back and goes on) |
| `SessionEventPublisher.publish` | `Write` (registers), `Discard` (after rollback), `Release` (after commit) |
| `PostgresBroker` | `Notify`, `NotifyFails`, `Deliver`, `StopListening`, `Restart` |
| `LocalBroker`, `stream_events` | `Hear`, `Subscribe`, `Ready`, `Take`, `Disconnect` |
| the browser (external) | `Fetch` |

`LocalBroker.deliver` drops a notice for a queue that is full, and
`PostgresBroker` does not listen again once its connection is lost, until its
process restarts: both are in the model, and what they lose is in `missed`.
Abstracted: who may hear of a notice (topics, permissions), the keep-alive
messages, several restaurants.

## 3. Runs

| Run | Shows | Bounds, and why they are enough |
|---|---|---|
| `tables` | moves, merges, rounds, serving again, cancelling, reopening | 2 orders, 2 dishes, 2 tables, 1 payment, 2 rounds: a merge needs two orders, a mixed order two dishes, a conflict of tables two orders; reopening one payment |
| `bill` | the arithmetic of a split bill under every change of it | 1 order, 2 dishes of 1 cent in 1 or 3 portions, discount of 0 or 40 % (which rounds up or down on those amounts), 3 payments, totals to 4 cents, a waiter who may not discount and a manager who may |
| `cash` | the register and the abstract desk | 2 sessions one after the other, 2 payments in cash or not, with tips: a payment voided or charged across a change of shift |
| `transactions` | interleavings of any three requests, repeated ones among them | 3 attempts over one served and one paid order of one table and two orders to come, bills of 2 that grow by 1, so that a part paid and a dish added make up for each other; a race has two sides and the third attempt is the retry, the closing or the deadlock's third party |
| `transactions_live` | every request ends | 2 attempts, without symmetry, which liveness does not admit |
| `inventory` | the ledger under any two requests of a day, with sales, waste and new prices between their statements | 2 requests, 2 ingredients, 1 purchase order, 1 waste, 2 counts, 4 movements, purchases of 2 units at a cost of 2 on a first cost of 1. A day is of purchases and receptions (both ingredients, since receptions cross on them), of waste and its approval, or of counts (2, as the last one closed rules): documents of two sorts share no row but the ledger, and each day has the movements that may spoil it. 1 263 159 states |
| `reservations` | any three requests over two reservations and one table | 3 requests, 2 reservations, 1 table, a stay of two hours, one that begins as it ends, and one without a table; `MaxLength` 2. An overlap has two sides, and the third request is the one that closes or the order that opens. About a million states |
| `accounts` | sign-in attempts through two replicas that restart, with and without second factor | 4 attempts, 2 replicas, 3 addresses, 1 attempt per address, 2 per email, 2 sessions, two codes of the application and one of recovery: every limit is passed by one attempt more. 219 392 states |
| `realtime` | a change from its request to a screen, with everything that may break between | 2 requests, 2 replicas, 1 screen, a queue of 1: the second notice finds the queue full. Screens do not affect each other. 89 582 states |
| `invoices` | billing between requests, restarts and a SUNAT that answers late or never | 2 requests, 1 order, 2 invoice rows: the second row is the replacement of the first. With 2 rows of one order never more than two requests are active at a time (each invoice is taken by one, and the issuing one needs a free row), so a third adds nothing. Two orders, or three rows, pass five million states |

Symmetry covers only identifiers that nothing orders: in `OrderTransactions`
orders are numbers, since merges take them by identifier, and are not permuted.
`CHECK_DEADLOCK FALSE` because a restaurant whose bounded rows are used up
stops.

Bounds of the models: `MaxRound` kitchen rounds of an order, `MaxMoney` (the
largest amount of a NUMERIC(10, 2) column, small here so that it is reached),
the rows of each table, in `OrderTransactions` no more openings in flight
than rows for them (`RoomFor`), in `Invoicing` `MaxInvoices` rows ever
inserted, with no more issues in flight than rows left (`ReadOrder`), in
`Inventory` `MaxMovements` in the ledger and the agenda of the day, and in
`SignIn` the attempts of a window, each made once.

**Fairness** (`FairSpec`): weak fairness of each attempt's own steps, because
the server runs every request it accepted and PostgreSQL wakes those that wait
when the row is freed, and of breaking a deadlock, because PostgreSQL looks for
them after `deadlock_timeout`. Neither retries nor arrivals are fair.

### Where the documents and the program disagree

Two runs expect TLC to find a counterexample, and PROJECT.json quotes the lines
they are about:

| Run | The document | The program |
|---|---|---|
| `invoice_skew` | an invoiced order is not reopened (`src/README.md:1046`, `use_cases/void_payment.py:4`) | the invoice reads the paid order without taking it |
| `voided_valid` | a rejected or unsent invoice "nunca valió ante SUNAT, así que se anula solo en RestHub" (`billing/use_cases/voiding.py:8`) | the status is that of the last send; an earlier one that timed out may still be registered |

Four more are stated in the modules and have no run of their own. TLC finds each
violated when it takes the place of the properties of `OrderBookTables.cfg`
(the first two) or of `TransactionsSkew.cfg` (the last two; `NeverPaidTwice` with
three attempts: a part charged, a dish of that price added and served, and the
copy of the charge arriving last).

| Definition | The document | The program | What is checked beside it |
|---|---|---|---|
| `OneActiveOrderPerTable` (`OrderBook`) | "Una mesa tiene a lo sumo un pedido activo" (`src/README.md:197`) | voiding a payment reopens an order whose table may be taken | `TableSharedOnlyByReopening` |
| `SentDishStays` (`OrderBook`) | "Un plato que ya salió a cocina no se quita" (`modules/orders/domain/orders.py:13`) | merging an open order makes the whole order open and its sent dishes removable | `KitchenKnowsEveryDish` |
| `OrdersDoNotWaitForSunat` (`OrderTransactions`) | issuing must not hold up the taking of orders (`billing/.../sqlalchemy_repositories.py:391`) | the INSERT shares the restaurant's row until the provider answers | `EveryRequestEnds` |
| `NeverPaidTwice` (`OrderTransactions`) | with `expected_balance` "no se cobra dos veces" (`modules/orders/domain/orders.py:516`) | equal balances are not the same balance: it comes back when a payment is voided, or when dishes are added for what was paid | `DoubleTapPaysOnce` |

The properties that hold are stated so as to say what remains true beside
these; `AgreesWithSunat` sets apart the `lost` documents,
`CountedHolds` the adjustments "to counted stock" made during a count, and
`ScreensAreTold` the notices `missed`. `OnlyMovesDeadlock` says how far the
waiting for a turn of `src/README.md:207` goes: a move takes the restaurant and
then the order, a charge the order and then, by its foreign key, the
restaurant, and PostgreSQL undoes one of the two.
`OnlyEditsAndOrdersWaitInCircle` says the same of reservations.

## 4. Proofs

The theorems hold for every value of the constants that satisfies
`OrderBookAssumption` (sets of rows of any size, finite or not, prices, tips and
percents in their ranges, no reference equal to `None`),
`TransactionsAssumption` (finitely many rows of orders, identified by numbers,
any number of attempts, dishes of any price, the orders there already at distinct
tables, `None` apart),
`InvoicingAssumption` (a number of rows, `None` apart), `InventoryAssumption`
(finitely many ingredients and counts, a document is of one kind, quantities
above zero, prices not below it, `None` apart),
`ReservationsAssumption` (no stay is longer than `MaxLength`, `None` apart),
`SignInAssumption` (finitely many attempts, limits above zero) or
`RealtimeAssumption` (a queue with some room, `None` apart). Nothing else is
assumed. Of `OrderBook`:

| Theorem | Property | Argument |
|---|---|---|
| `TypeCorrect` | `TypeOK` | inductive as it stands; one lemma per use case, over lemmas on writing one column of a row |
| `RegisterIsSound` | `OneOpenRegister`, `SignedArqueoHolds` | `RegisterInv` |
| `CashDeskImplemented` | `ImplementsCashDesk` | `DeskInit`, and `DeskStep` from `RegisterInv` |
| `MoneyIsHoused` | `MoneyHasItsOrder` | `MoneyInv` |
| `DishesStayPaid` | `SplitIsSound` | `MoneyInv` |
| `DishesArePaidOnce` | `NoDishPaidTwice` | every step, from `MoneyInv` |
| `NobodyPaysTooMuch`, `PaidOrdersAreSettled` | `NeverOvercharged`, `PaidIsSettled` | `BillInv` |
| `TotalsNeverFall` | `PaidBillOnlyGrows` | every step keeps the dishes of a paid bill (`DishesAreKept`), and more dishes come to more (`TotalsGrow`) |
| `TablesAreTaken` | `TableSharedOnlyByReopening` | `TablesInv` |
| `KitchenIsSound` | `KitchenKnowsEveryDish` | `KitchenInv` |
| `ServedIsDeducted` | `ServedIsConsumed` | `KitchenInv` |
| `DeductedOnce` | `NeverConsumedTwice` | every step: only serving writes the ledger |

Of `OrderTransactions`, each from `IInv`, for any number of requests at once:

| Theorem | Property | Argument |
|---|---|---|
| `TransactionsKnowWhatTheyRead` | `Spec => []IInv` | one lemma per statement and per commit; what a statement reads it learns, and what commits spares what the others know |
| `RowsAreTyped` | `TypeOK` | part of `IInv` |
| `ArqueoIsComplete` | `ArqueoCountsEveryPayment` | `Counted`, kept because a closing holds the session its payments would go to |
| `NobodyIsOvercharged` | `ChargesTakeTurns` | `Owing`: the balance of an active order is positive, of a paid one zero |
| `DoubleTapsPayOnce` | `DoubleTapPaysOnce` | `Tapped`: unless a payment of it was voided, after a charge the order owes less than the diner had seen, is paid, or has since grown by all that was paid |
| `TheTurnNumbersOrders`, `RetriesFindTheirOrder` | `NumberStillFree`, `RetryFindsItsOrder` | `KnowsSeat`: who has the turn knows that nobody has its number, nor its key |
| `TablesTakeTurns` | `TurnSeatsOne` | `Seated`, and `KnowsSeat` at the commit |
| `MergesDoNotDeadlock` | `OnlyMovesDeadlock` | in a set of requests that wait for each other and has no move, who waits for what (`WaitsFor`) leaves only merges, each waiting for one whose orders are higher; orders are finitely many, so one is highest (`NobodyWaitsForEver`) |
| `TransactionsMoveLikeCashDesk` | `MovesLikeCashDesk` | every commit is one step of `CashDesk` or none |

Of `Inventory`:

| Theorem | Property | Argument |
|---|---|---|
| `RequestsKnowTheirDocuments` | `Spec => []Orderly` | one lemma per action, over what a request does to itself (`GoingOn`, `Ending`, `Committing`) and what its document spares the others (`SparesSupplies`, `SparesWastes`, `SparesCounts`) |
| `DocumentsMoveStockOnce` | `EachDocumentOnce` | `Documented` |
| `CostsStayInRange` | `CostIsAnAverage` | `Costed`: a weighted average lies between its two costs (`AverageIsBetween`), the stock it weighs with being above zero |
| `ClosedCountsHold` | `CountedHolds` | `Sheeted`, by splitting the ledger at the moment of each reading |

Of `Invoicing`, from the invariant `IInv` and, on top of it, `OrderInv`:

| Theorem | Property | Argument |
|---|---|---|
| `TypeCorrect`, `StateAgrees` | `TypeOK`, `AgreesWithSunat` | conjuncts of `IInv` |
| `NoCircle` | `NobodyWaitsInCircle` | what is replaced is voided, what is being voided is not |
| `OneValid` | `OneValidPerOrder` | `OrderInv`, kept by every step that keeps `IInv` |
| `NumbersHaveNoGaps` | `NumbersRunOn` | `NumbersInv`, kept by every step that keeps `IInv` |
| `ArchiveKept` | `ArchiveIsKept` | every step, from `NextEvolves` |
| `Implements` | `LivesLikeAnInvoice` | every step writes one row or none (`NextEvolves`) and is one step of `InvoiceLife` or none (`KeepsLife`, `NewLife`, `ReservedLife`) |

Of `Reservations`, `SignIn` and `Realtime`, each from the `IInv` of its proof
module:

| Theorem | Property | Argument |
|---|---|---|
| `RequestsKnowWhatTheyTook` | `Spec => []IInv` | what a step may change (`WhatStepsDo`), what a request learns from its own (`ArrivingKnows`, `StatementKnows`), and that the commits of others spare what it knows (`CommitSaveSpares`, `CommitStatusSpares`) |
| `RequestsWriteADiary` | `ImplementsDiary` | every step is one step of `TableDiary` or none: what is committed was `Clear` when its rows were taken and still is |
| `DiariesDoNotOverlap` | `Diary!NoOverlap` | a step of the diary keeps it: two stays cross both ways or not at all |
| `CreatingAndClosingNeverDeadlock` | `OnlyEditsAndOrdersWaitInCircle` | creations and closings take their rows in one order: tables, then reservations |
| `SignInIsCounted` | `Spec => []IInv` | the steps that count nothing (`QuietStep`), and the three that do: `NoteCounts`, `SignInUncounts`, `SpentStaysSpent` |
| `AttemptsStayWithinLimits` | `LimitHolds` | `Counted`: the database counts at least the attempts the limit is about |
| `CodesSignInOnce` | `CodeSignsInOnce` | `CodeHeld`: the row is held from reading a code to spending it |
| `SessionsStayWithinCap` | `SessionsWithinCap` | `Capped`: what a sign-in will close leaves room for the session it opens |
| `NoticesAreKept` | `Spec => []IInv` | steps of a request that send nothing (`RequestStep`), of a screen (`ScreenStep`), and of a notice (`NoticesMove`, `HearTells`) |
| `NoScreenIsForgotten` | `ScreensAreTold` | `Truthful` and `ToldOf` |
| `DeadlinesTellTheTruth` | `DeadlineTellsTheTruth` | `Honest` |

Where the invariant of a theorem is stronger than the property, this is why:

- `RegisterInv` = `TypeOK /\ OneOpenRegister /\ SignedArqueoHolds`. Every step
  either moves money (`WhoMovesMoney`: a charge or a voided payment) or opens
  or closes a session, or touches neither. Money moves in the open session
  (`MoneyMovesInTheOpenSession`), hence in no closed one, and what a session
  took in depends on its own payments only (`CashTakenFrame`), so a closed
  session's arqueo still adds up. The amount itself is never computed: the
  proof only needs that equal payments have equal sums. `OneOpenRegister` is
  what makes `Open` of the abstract desk possible.
- `MoneyInv` adds to the two properties that a merged order is cancelled
  (otherwise a served order might be somebody's leftovers and be charged) and
  that the order of a paid dish exists. `MoneyFrame` covers every use case that
  writes no payment; charging and voiding have a lemma each.
- `BillInv` adds to `MoneyInv` that no payment is negative and, of every order
  (`BillSound`), that its dishes and payments are finitely many, that what was
  paid is at most the total, and all of it once the status is paid. A step
  leaves the dishes of an order as they are (`Frozen`), only adds to them
  (`Grows`) or is on an order without payments (`DishesKept`); a discount leaves
  something between nothing and all, and more of more, rounding included
  (`Net`, `DiscountsLeaveMoreOfMore`); every charge is between zero and the
  balance (`ChargesAreWithinBalance`), whichever of the three ways it was
  split; and a payment more or less adds or takes its amount (`OneMorePayment`).
- `TablesInv` needs that a voided payment is never used again or moved
  (`VoidedStays`) and that only opening, moving and reopening take a table
  (`WhoTakesTables`).
- `KitchenInv` adds that a dish's round is never later than its order's, that
  no dish hangs on an order that does not exist (an order opened finds no
  dishes in it) and that quantities are positive (so deducting leaves a trace),
  and extends the rounds to paid orders, because voiding a payment brings them
  back among the served.

- `IInv` says what a request knows of the rows while SUNAT answers. `Exclusive`:
  one request has the turn and one has each invoice. `Knows`: the invoice a
  resend has taken is still neither accepted nor voided and has the number that
  was sent, the order being invoiced has no current invoice, the invoice being
  voided has no note, an answer to save is what SUNAT said. `Bounded` is there
  because a next number exists only if some number is as high as all others
  (`HighestExists`, the one place with well-founded induction).
  `OnlyAcceptedArchived` makes a resend harmless to the archive, and
  `OrphansAreLost` says that a message nobody waits on cannot make SUNAT know
  more than the table without being set apart. Steps fall in four kinds with a
  lemma each: a request goes on (`QuietStep`), it sends (`SendStep`), it writes
  a row it alone has taken (`SaveStep`), it stops waiting (`ReleaseStep`);
  SUNAT's own are `AnswerStep`.
- `OrderInv` says how an order's invoices follow each other: one of them is
  current (`OneCurrent`: whoever inserts found `Current(o) = {}` and has the
  turn, so it still is), one accepted is voided only by an accepted note
  (`CancelledByNote`), ids are taken in order (`IdsRunOn`), and what is replaced
  is committed, voided and earlier (`ReplacesEarlier`). Only inserting adds to
  it (`InsertedStep`).
- `NumbersInv` adds to `NumbersRunOn` that a request which has numbered its
  invoice and not yet saved it (`Numbered`) has the number that comes after all
  the committed rows. It stays so because such a request has the turn and only
  who has the turn adds a row: another comes to a number only when the turn is
  free (`InsertStep`, `NumberedStep`), and a row, once committed, keeps its number
  (`RowsStep`). While the numbers are 1 to n the next is n + 1 (`NextRunsOn`).

- `IInv` of `OrderTransactionsProofs` says of each attempt (`Personal`) where it
  is in its use case (`Staged`: what it has left is a tail of its path), that
  what it holds is exactly what the statements it made take (`Holding`), and
  what it has read and is still so: the seat and number of an opening or a move
  (`KnowsSeat`), the status and balance of what it charges, voids or merges
  (`KnowsBill`), the session it charges to and what a closing counted in it
  (`KnowsCash`). Because `Exclusive` holds of the rows held and `Holding` tells
  which they are, a commit of another attempt cannot be about the same row. Of
  the committed rows: `Paying` (live payments are finitely many, positive and of
  orders served, paid or back in the kitchen), `Owing`, `Counted`, `Seated` (two
  active orders at one table: a payment of one of them was voided) and
  `OneOpens`. Adding dishes is the one commit that raises a balance that others
  may have seen: `Tapped` therefore counts what the bill grew by since each
  payment.
- `Orderly` of `InventoryProofs` says of each request which statement of which
  kind it is at (`Shaped`), that it holds the row of its document (`HasRow`),
  that the document is still in the state it found (`KnowsDoc`) and that what it
  will post is about that document (`Posting`); `Exclusive` as above.
  `Documented` ties the ledger to each document's state (`SupplyOnce`,
  `WasteOnce`). `Costed` keeps the cost of an ingredient, and the averages that
  are about to be written, in the range of the costs it was given; the reads
  behind an average may be stale, so `Weighing` speaks of what was read and not
  of the ledger.
- `Sheeted`: a line loaded in a draft says how the sum of the ledger stood at its
  moment (`Matches`, over the movements `Upto` then), and no correction of that
  ingredient was posted after it while the draft is open, because only closing a
  count posts corrections and there is one draft at a time. Closing posts exactly
  the difference of each counted line. Closed counts are ordered by when they
  closed, so the last one rules (`RulesFor`). Movements that come in are numbered
  after all there are (`AddedLater`), so a sum up to an earlier moment does not
  change (`MatchStays`).

- `IInv` of `ReservationsProofs`: the rows held exclude each other
  (`Exclusive`), new reservations are distinct (`DistinctNew`), and each request
  `Knows` five things: which statement of which kind it is at (`Shaped`), that
  what it edits or closes is taken and booked (`OwnTaken`), that it has its
  table (`TableTaken`), that nothing in force meets its wish once it has looked
  (`Clear`), and what it may hold so far (`HeldInOrder`). `Clear` survives the
  others' commits because whoever writes on that table holds its row: that is
  why the code takes the table, and not only the reservations it finds there.
- `IInv` of `SignInProofs`: `Locked` says that what was allowed when the lock of
  the email was taken still is when the attempt is noted. `Counted` counts the
  attempts that have not signed in: a success takes out one, its own, though
  the code takes out the last of its pair. `Capped` holds through the commit
  because the lock that `Clear` takes is kept until then, so nobody opens a
  session between a sign-in's look at the open ones and its commit.
- `IInv` of `RealtimeProofs`: `Honest` says that only what has begun to commit
  is stored and that it is never cut, and that a request's notice is with it as
  long as its work is. `Truthful` says that a notice that is out is of something
  committed, `ToldOf` where the notice of each change a screen lacks is.
  Nothing about `missed` needs to be assumed: it only grows until the screen
  reads.

Sums over sets (`SumProofs`): the sums of the modules are folds of the community
modules, which are defined by recursion. Induction theorems of the library take
an operator, which the prover cannot instantiate; `SubsetInduction` is stated
instead over a set of sets, of which it is proved that a finite set belongs to
it if the empty one does and each does once one of its elements is taken out.
`FoldIsSum` leads from the fold to that, and the rest follows:
what a sum of nothing is, what one more term adds (`SumPutsIn`, `SumTakesOut`),
that disjoint parts add up (`SumOfParts`) and when sums agree or grow.

TLC checks the same properties on the instances of the runs `tables`, `bill`,
`cash`, `transactions`, `invoices`, `inventory`, `reservations`, `accounts` and
`realtime`; the strengthenings were found by what those proofs asked for.

**Only model-checked.** Liveness (`EveryRequestEnds`) and anything with
`ENABLED` (`OnlyMovesDeadlock` is stated without it) are out of the prover's
reach and stay with TLC, and so do the two runs that expect a counterexample.
Every invariant and every action property of the other runs has its theorem.

## 5. Plan

Done: the modules of section 2 and the proofs of section 4. Left, in this order:

1. **Sessions**: rotation, refresh, the idle lock and reauthentication meeting
   sign-outs and each other; the window of the limit moving on.
2. **Billing, the rest**: fiscal data and certificate edited by two managers
   (`invoicing.py` says that what is saved is what is registered), sending by
   mail, the paid order that does not stay paid.
3. **Proofs**: that a statement of `OrderTransactions` done atomically is a step
   of `OrderBook`, use case by use case: so far that is argued from the locks
   and proved for the cash only (`TransactionsMoveLikeCashDesk`).
4. **Telemetry and background jobs**: the bounded queue with its retry, purge and
   drain; draining at shutdown.
5. **Retention and platform**: orders in course kept when personal data is
   erased; one active sandbox.

## 6. Not modelled, and why

- Sessions after the sign-in (rotation, refresh, idle lock), roles, staff and
  previews; telemetry; the drain at shutdown; retention of personal data: in the
  plan.
- Recipes, suppliers, units and the data of an ingredient: edits of single rows.
- Reports and AI classification, the lookup of documents, rate and body
  limits, the menu and observability: they read or edit rows without a
  protocol between them; unit tests reach what can go wrong.
- Provisioning, migrations, seeds, scripts and deployment: run by hand, once.
- PostgreSQL and the invoicing provider are external: row locks, unique
  indexes, deadlock detection and isolation are modelled from how the code
  uses them.
- Contact data of an order (`UpdateOrderDetails`), names, notes, reasons,
  instants and the layout of reports and invoices: no property tells them apart.
