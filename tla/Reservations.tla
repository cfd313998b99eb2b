----------------------------- MODULE Reservations -----------------------------
(***************************************************************************)
(* Taking, editing and closing reservations, statement by statement, next  *)
(* to the opening of orders, which takes the same restaurant and table     *)
(* rows the other way round.                                               *)
(*                                                                         *)
(* A row is taken "update" (SELECT ... FOR UPDATE) or "share" (the KEY     *)
(* SHARE lock of an INSERT on the rows its foreign keys name) and kept     *)
(* until the transaction ends.  The rows of one statement are taken        *)
(* together.  The clock, which only refuses what is past, is left out: a   *)
(* request may be refused at any time.                                     *)
(***************************************************************************)
EXTENDS Integers, FiniteSets

CONSTANTS
  Bookings, Tables,
  Entries,    \* stays: a table or None, when it begins and how long it is
  MaxLength,  \* the longest a table is kept (MAX_DURATION)
  Requests,   \* transactions at a time; each may serve many requests
  None

ASSUME ReservationsAssumption ==
  /\ MaxLength \in Nat
  /\ Entries \subseteq [table : Tables \cup {None}, from : Int, len : 1..MaxLength]
  /\ None \notin Tables \cup Bookings

VARIABLES
  booking,  \* what is committed
  req       \* what each request asks for, how far it is, and what it has taken

vars == <<booking, req>>

Diary == INSTANCE TableDiary

Kinds == {"create", "edit", "close", "order"}

Idle == [kind |-> "none", step |-> "none", doc |-> None, wish |-> None,
         to |-> "none", held |-> {}]

Init ==
  /\ booking = [b \in Bookings |-> Diary!Blank]
  /\ req = [r \in Requests |-> Idle]

-----------------------------------------------------------------------------
(* The statements of each request, in the order it makes them. *)

\* Only a reservation with a table looks at the others.
Saving(e) == IF e.table = None THEN "write" ELSE "table"

First(kind, e) ==
  CASE kind = "create" -> Saving(e)
    [] kind = "order" -> "turn"
    [] OTHER -> "own"

NextStepBug(q) ==
  CASE q.step = "own" -> Saving(q.wish)
    [] q.step = "table" -> "others"
    [] q.step = "write" -> "commit"
    [] OTHER -> "write"
NextStep(q) ==
  CASE q.step = "own" /\ q.kind = "edit" -> Saving(q.wish)
    [] q.step = "table" -> "others"
    [] q.step = "write" -> "commit"
    [] OTHER -> "write"

-----------------------------------------------------------------------------
(* Rows and locks. *)

Restaurant == <<"restaurants", None>>
TableRow(t) == <<"dining_tables", t>>
BookingRow(b) == <<"reservations", b>>
All == {Restaurant} \cup {TableRow(t) : t \in Tables}
         \cup {BookingRow(b) : b \in Bookings}
Locks == All \X {"update", "share"}

TableModeBug == "share"
\* The table is taken, and not its reservations alone: a FOR UPDATE on these
\* takes nothing while there is none.
TableMode == "update"

\* The reservations of the table that may still meet a stay: twice the longest
\* stay before it begins, and until it ends.
Near(e, b) ==
  /\ booking[b].status # "none"
  /\ booking[b].entry.table = e.table
  /\ booking[b].entry.from >= e.from - 2 * MaxLength
  /\ booking[b].entry.from < e.from + e.len
Others(e) == {b \in Bookings : Near(e, b)}

\* The rows the next statement of a request takes.
Wanted(r) ==
  LET me == req[r]
  IN  CASE me.step = "turn" -> {<<Restaurant, "update">>}
        [] me.step = "own" -> {<<BookingRow(me.doc), "update">>}
        [] me.step = "table" -> {<<TableRow(me.wish.table), TableMode>>}
        [] me.step = "others" ->
             {<<BookingRow(b), "update">> : b \in Others(me.wish)}
        [] me.step = "write" ->
             {<<Restaurant, "share">>}
               \cup (IF me.kind # "order" THEN {}
                     ELSE {<<TableRow(me.doc), "share">>})
        [] OTHER -> {}

Conflict(w, h) == w[1] = h[1] /\ (w[2] = "update" \/ h[2] = "update")
Waits(r, q) ==
  r # q /\ \E w \in Wanted(r), h \in req[q].held : Conflict(w, h)
Granted(r) == \A q \in Requests : ~Waits(r, q)

\* The statement is done: its rows stay taken.
Proceed(r) ==
  /\ Granted(r)
  /\ req' = [req EXCEPT ![r].step = NextStep(req[r]),
                        ![r].held = @ \cup Wanted(r)]
  /\ UNCHANGED booking

Done(r) == req' = [req EXCEPT ![r] = Idle]
\* An error of the domain: what the request did is rolled back.
Refuse(r) == Granted(r) /\ Done(r) /\ UNCHANGED booking

-----------------------------------------------------------------------------
(* Requests. *)

Ask(r, kind, b, e, status) ==
  /\ req[r] = Idle
  /\ req' = [req EXCEPT ![r] = [kind |-> kind, step |-> First(kind, e),
                                doc |-> b, wish |-> e, to |-> status,
                                held |-> {}]]
  /\ UNCHANGED booking

Fresh(b) ==
  /\ booking[b].status = "none"
  /\ \A q \in Requests : ~(req[q].kind = "create" /\ req[q].doc = b)

AskSave(r) ==
  \E b \in Bookings, e \in Entries :
    \/ Fresh(b) /\ Ask(r, "create", b, e, "booked")
    \/ booking[b].status # "none" /\ Ask(r, "edit", b, e, "booked")

AskStatus(r) ==
  \E b \in Bookings, status \in Diary!Closings :
    /\ booking[b].status # "none"
    /\ Ask(r, "close", b, booking[b].entry, status)

\* An order is opened at a table.
AskOrder(r) == \E t \in Tables : Ask(r, "order", t, None, "none")

-----------------------------------------------------------------------------
(* The statements. *)

\* Only a reservation still booked is edited or closed.
TakeOwn(r) ==
  /\ req[r].step = "own"
  /\ IF booking[req[r].doc].status = "booked" THEN Proceed(r) ELSE Refuse(r)

TakeRow(r) == req[r].step \in {"table", "turn", "write"} /\ Proceed(r)

\* The others are taken and read as they are now.
Crossed(e, b) ==
  \E c \in Others(e) \ {b} :
    /\ booking[c].status \in Diary!Holding
    /\ Diary!Cross(booking[c].entry, e)

FindOthers(r) ==
  /\ req[r].step = "others"
  /\ IF Crossed(req[r].wish, req[r].doc) THEN Refuse(r) ELSE Proceed(r)

Commits(r, kinds) ==
  req[r].step = "commit" /\ req[r].kind \in kinds /\ Done(r)

CommitSave(r) ==
  /\ Commits(r, {"create", "edit"})
  /\ booking' = [booking EXCEPT ![req[r].doc] =
                   [status |-> "booked", entry |-> req[r].wish]]

CommitStatus(r) ==
  /\ Commits(r, {"close"})
  /\ booking' = [booking EXCEPT ![req[r].doc].status = req[r].to]

CommitOrder(r) == Commits(r, {"order"}) /\ UNCHANGED booking

\* Until it commits a transaction may be undone: an hour already past, a table
\* of somebody else, the deadline, a restart, PostgreSQL breaking a deadlock.
Abort(r) == req[r] # Idle /\ Done(r) /\ UNCHANGED booking

Next ==
  \E r \in Requests :
    \/ AskSave(r) \/ AskStatus(r) \/ AskOrder(r)
    \/ TakeOwn(r) \/ TakeRow(r) \/ FindOthers(r)
    \/ CommitSave(r) \/ CommitStatus(r) \/ CommitOrder(r)
    \/ Abort(r)

Spec == Init /\ [][Next]_vars

-----------------------------------------------------------------------------
(* Properties. *)

\* The transactions write a diary: whatever else is being saved, edited or
\* closed at the time, a reservation is written only where no other in force
\* meets it, and one that was closed (llegaron, cancelada, no vino) is neither
\* edited nor closed again.
ImplementsDiary == Diary!Spec

\* Creating takes a table and then its reservations, closing takes one
\* reservation: these never wait for each other for ever.  An edit, which
\* takes its reservation first and then the table, may, and so may the opening
\* of an order, which takes the restaurant first; the rest need one of them.
Deadlocked(S) == S # {} /\ \A r \in S : \E q \in S : Waits(r, q)
OnlyEditsAndOrdersWaitInCircle ==
  \A S \in SUBSET Requests :
    Deadlocked(S) => \E r \in S : req[r].kind \in {"edit", "order"}

=============================================================================
