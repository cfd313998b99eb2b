-------------------------- MODULE ReservationsProofs --------------------------
(***************************************************************************)
(* What holds of reservations for any diary, any number of requests and    *)
(* any stays.  The invariant says what a request past each of its          *)
(* statements holds, and what that keeps true until it commits.            *)
(***************************************************************************)
EXTENDS Reservations, TLAPS

Saves == {"create", "edit"}
Request ==
  [kind : Kinds \cup {"none"},
   step : {"none", "turn", "own", "table", "others", "write", "commit"},
   doc : Bookings \cup Tables \cup {None}, wish : Entries \cup {None},
   to : Diary!Closings \cup {"none", "booked"}, held : SUBSET Locks]

\* Rows hold values of their columns, and requests what they ask for.
TypeOK ==
  /\ booking \in [Bookings -> [status : {"none", "booked"} \cup Diary!Closings,
                               entry : Entries \cup {None}]]
  /\ \A b \in Bookings : booking[b].status # "none" => booking[b].entry \in Entries
  /\ req \in [Requests -> Request]

\* Which statements each request makes, and about what.
Shaped(r) ==
  LET me == req[r]
  IN  /\ me.kind = "none" => me.step = "none" /\ me.held = {}
      /\ me.kind = "create" => me.step \in {"table", "others", "write", "commit"}
      /\ me.kind = "edit" =>
           me.step \in {"own", "table", "others", "write", "commit"}
      /\ me.kind = "close" => me.step \in {"own", "write", "commit"}
      /\ me.kind = "order" => me.step \in {"turn", "write", "commit"}
      /\ me.kind \in Saves => me.doc \in Bookings /\ me.wish \in Entries
      /\ me.kind \in Saves /\ me.step \in {"table", "others"} =>
           me.wish.table \in Tables
      /\ me.kind = "close" => me.doc \in Bookings /\ me.to \in Diary!Closings
      /\ me.kind = "order" => me.doc \in Tables

\* A new reservation is not there yet; past its first statement the one being
\* edited or closed is taken, and booked.
OwnTaken(r) ==
  LET me == req[r]
  IN  /\ me.kind = "create" => booking[me.doc].status = "none"
      /\ me.kind \in {"edit", "close"} /\ me.step # "own" =>
           /\ <<BookingRow(me.doc), "update">> \in me.held
           /\ booking[me.doc].status = "booked"

TableTaken(r) ==
  LET me == req[r]
  IN  me.kind \in Saves /\ me.step \in {"others", "write", "commit"}
        /\ me.wish.table # None
      => <<TableRow(me.wish.table), "update">> \in me.held

Clear(r) ==
  LET me == req[r]
  IN  me.kind \in Saves /\ me.step \in {"write", "commit"} =>
        Diary!Against(me.wish, me.doc) = {}

\* What each kind of request holds, and since when.
HeldInOrder(r) ==
  LET me == req[r]
  IN  \A h \in me.held :
        /\ h = <<Restaurant, "update">> => me.kind = "order"
        /\ me.kind \in {"create", "close"} =>
             /\ \A b \in Bookings : h[1] = BookingRow(b) =>
                  me.step \in {"write", "commit"}
             /\ \A t \in Tables : h[1] = TableRow(t) =>
                  me.step \in {"others", "write", "commit"}

Exclusive ==
  \A r, q \in Requests : r # q =>
    \A h \in req[r].held, g \in req[q].held : ~Conflict(h, g)
DistinctNew ==
  \A r, q \in Requests :
    r # q /\ req[r].kind = "create" /\ req[q].kind = "create" =>
      req[r].doc # req[q].doc

Knows(r) == /\ Shaped(r) /\ OwnTaken(r) /\ TableTaken(r) /\ Clear(r)
            /\ HeldInOrder(r)
IInv == TypeOK /\ Exclusive /\ DistinctNew /\ \A r \in Requests : Knows(r)

-----------------------------------------------------------------------------
(* The facts of a step.                                                    *)

USE DEF Kinds, Saves

Advance(r) ==
  [req[r] EXCEPT !.step = NextStep(req[r]), !.held = @ \cup Wanted(r)]
Only(r, next) ==
  /\ req'[r] = next
  /\ \A q \in Requests : q # r => req'[q] = req[q]

LEMMA ProceedIs ==
  ASSUME TypeOK, NEW r \in Requests, Proceed(r)
  PROVE  Only(r, Advance(r)) /\ booking' = booking
  BY DEF TypeOK, Request, Proceed, Only, Advance

LEMMA DoneIs ==
  ASSUME TypeOK, NEW r \in Requests, Done(r)
  PROVE  Only(r, Idle)
  BY DEF TypeOK, Done, Only

LEMMA WantedAreRows ==
  ASSUME ReservationsAssumption, TypeOK, NEW r \in Requests, Shaped(r)
  PROVE  Wanted(r) \subseteq Locks
<1>1. req[r] \in Request
  BY DEF TypeOK
<1>2. \A b \in Bookings : BookingRow(b) \in All
  BY DEF All
<1>3. \A t \in Tables : TableRow(t) \in All
  BY DEF All
<1>4. Restaurant \in All
  BY DEF All
<1>5. CASE req[r].step = "own"
  BY <1>1, <1>2, <1>5 DEF Wanted, Locks, Shaped, Request
<1>6. CASE req[r].step = "table"
  BY <1>1, <1>3, <1>6 DEF Wanted, Locks, Shaped, Request, TableMode
<1>7. CASE req[r].step = "others"
  BY <1>2, <1>7 DEF Wanted, Locks, Others
<1>8. CASE req[r].step = "turn"
  BY <1>4, <1>8 DEF Wanted, Locks
<1>9. CASE req[r].step = "write"
  BY <1>1, <1>3, <1>4, <1>9 DEF Wanted, Locks, Shaped, Request
<1>10. QED
  BY <1>5, <1>6, <1>7, <1>8, <1>9 DEF Wanted

\* What a request is made of when it arrives.
Arriving(r) ==
  \/ \E b \in Bookings, e \in Entries :
       \/ Fresh(b) /\ Ask(r, "create", b, e, "booked")
       \/ booking[b].status # "none" /\ Ask(r, "edit", b, e, "booked")
  \/ \E b \in Bookings, e \in Entries, status \in Diary!Closings :
       Ask(r, "close", b, e, status)
  \/ \E t \in Tables : Ask(r, "order", t, None, "none")

Statement(r) == req[r].step \notin {"none", "commit"} /\ Proceed(r)

\* A step is an arrival, a statement, a commit or an end without effect.
LEMMA WhatStepsDo ==
  ASSUME TypeOK, Next
  PROVE  \E r \in Requests :
           \/ Arriving(r)
           \/ /\ Statement(r)
              /\ req[r].step = "own" => booking[req[r].doc].status = "booked"
              /\ req[r].step = "others" => ~Crossed(req[r].wish, req[r].doc)
           \/ CommitSave(r) \/ CommitStatus(r)
           \/ Done(r) /\ booking' = booking
<1>1. ASSUME NEW r \in Requests, AskStatus(r) PROVE Arriving(r)
  BY <1>1 DEF AskStatus, Arriving, TypeOK
<1>2. ASSUME NEW r \in Requests, AskSave(r) \/ AskOrder(r) PROVE Arriving(r)
  BY <1>2 DEF AskSave, AskOrder, Arriving
<1>3. QED
  BY <1>1, <1>2 DEF Next, TakeOwn, TakeRow, FindOthers, Refuse, CommitOrder,
       Commits, Abort, Statement

-----------------------------------------------------------------------------
(* The invariant. *)

LEMMA Initially == ASSUME ReservationsAssumption, Init PROVE IInv
<1>1. TypeOK
  BY DEF Init, TypeOK, Request, Idle, Diary!Blank
<1>2. \A r \in Requests : req[r] = Idle
  BY DEF Init
<1>3. QED
  BY <1>1, <1>2 DEF IInv, Exclusive, DistinctNew, Knows, Shaped, OwnTaken,
       TableTaken, Clear, HeldInOrder, Idle

LEMMA Typed ==
  ASSUME ReservationsAssumption, IInv, Next
  PROVE  TypeOK'
<1>1. TypeOK /\ \A r \in Requests : Shaped(r) /\ req[r] \in Request
  BY DEF IInv, Knows, TypeOK
<1>2. ASSUME NEW r \in Requests, Arriving(r) PROVE TypeOK'
  <2>1. \A kind \in Kinds, e \in Entries \cup {None} :
          First(kind, e) \in {"turn", "own", "table", "write"}
    BY DEF First, Saving
  <2>2. booking' = booking
    BY <1>2 DEF Arriving, Ask
  <2>3. req' \in [Requests -> Request]
    <3>1. ASSUME NEW kind \in Kinds, NEW b \in Bookings \cup Tables,
                 NEW e \in Entries \cup {None},
                 NEW to \in Diary!Closings \cup {"none", "booked"},
                 Ask(r, kind, b, e, to)
          PROVE  req' \in [Requests -> Request]
      <4>1. [kind |-> kind, step |-> First(kind, e), doc |-> b, wish |-> e,
             to |-> to, held |-> {}] \in Request
        BY <2>1 DEF Request
      <4>2. QED
        BY <1>1, <3>1, <4>1 DEF Ask, TypeOK
    <3>2. QED
      BY <1>2, <3>1 DEF Arriving
  <2>4. QED
    BY <1>1, <2>2, <2>3 DEF TypeOK
<1>3. ASSUME NEW r \in Requests, Statement(r) PROVE TypeOK'
  <2>1. Wanted(r) \subseteq Locks
    BY <1>1, WantedAreRows
  <2>2. NextStep(req[r]) \in {"table", "others", "write", "commit"}
    BY DEF NextStep, Saving
  <2>3. Advance(r) \in Request
    BY <1>1, <2>1, <2>2 DEF Request, Advance
  <2>4. QED
    BY <1>1, <1>3, <2>3 DEF TypeOK, Statement, Proceed, Advance
<1>4. ASSUME NEW r \in Requests, Done(r) PROVE req' \in [Requests -> Request]
  BY <1>1, <1>4 DEF TypeOK, Done, Idle, Request
<1>5. ASSUME NEW r \in Requests, CommitSave(r) PROVE TypeOK'
  <2>1. Done(r) /\ req[r].doc \in Bookings /\ req[r].wish \in Entries
    BY <1>1, <1>5 DEF CommitSave, Commits, Shaped
  <2>2. QED
    BY <1>1, <1>4, <1>5, <2>1 DEF TypeOK, CommitSave
<1>6. ASSUME NEW r \in Requests, CommitStatus(r) PROVE TypeOK'
  <2>1. /\ Done(r) /\ req[r].doc \in Bookings /\ req[r].to \in Diary!Closings
        /\ booking[req[r].doc].status = "booked"
    BY <1>6 DEF IInv, Knows, Shaped, OwnTaken, CommitStatus, Commits
  <2>2. QED
    BY <1>1, <1>4, <1>6, <2>1 DEF TypeOK, CommitStatus
<1>7. QED
  BY <1>1, <1>2, <1>3, <1>4, <1>5, <1>6, WhatStepsDo DEF TypeOK

LEMMA StaysExclusive ==
  ASSUME IInv, Next
  PROVE  Exclusive'
<1>1. TypeOK /\ Exclusive
  BY DEF IInv
<1>2. ASSUME NEW r \in Requests, NEW next, Only(r, next), next.held = {}
      PROVE  Exclusive'
  BY <1>1, <1>2 DEF Exclusive, Only
<1>3. ASSUME NEW r \in Requests, Arriving(r) PROVE Exclusive'
  <2>1. PICK next : Only(r, next) /\ next.held = {}
    BY <1>1, <1>3 DEF Arriving, Ask, Only, TypeOK
  <2>2. QED
    BY <1>2, <2>1
<1>4. ASSUME NEW r \in Requests, Statement(r) PROVE Exclusive'
  <2>1. Only(r, Advance(r)) /\ Granted(r)
    BY <1>1, <1>4, ProceedIs DEF Statement, Proceed
  <2>2. req'[r].held = req[r].held \cup Wanted(r)
    BY <1>1, <2>1 DEF Only, Advance, TypeOK, Request
  <2>3. \A q \in Requests : q # r =>
          /\ req'[q].held = req[q].held
          /\ \A w \in Wanted(r), h \in req[q].held :
               ~Conflict(w, h) /\ ~Conflict(h, w)
    BY <2>1 DEF Only, Granted, Waits, Conflict
  <2>4. QED
    BY <1>1, <2>2, <2>3 DEF Exclusive
<1>5. ASSUME NEW r \in Requests, Done(r) PROVE Exclusive'
  BY <1>1, <1>2, <1>5, DoneIs DEF Idle
<1>6. QED
  BY <1>1, <1>3, <1>4, <1>5, WhatStepsDo DEF CommitSave, CommitStatus, Commits

LEMMA StayDistinct ==
  ASSUME IInv, Next
  PROVE  DistinctNew'
<1>1. TypeOK /\ DistinctNew
  BY DEF IInv
<1>2. ASSUME NEW r \in Requests, Arriving(r) PROVE DistinctNew'
  <2>1. PICK next : /\ Only(r, next)
                    /\ next.kind = "create" => Fresh(next.doc)
    BY <1>1, <1>2 DEF Arriving, Ask, Only, TypeOK
  <2>2. QED
    BY <1>1, <2>1 DEF DistinctNew, Only, Fresh
<1>3. ASSUME NEW r \in Requests, Statement(r) PROVE DistinctNew'
  <2>1. Only(r, Advance(r))
    BY <1>1, <1>3, ProceedIs DEF Statement
  <2>2. req'[r].kind = req[r].kind /\ req'[r].doc = req[r].doc
    BY <1>1, <2>1 DEF Only, Advance, TypeOK, Request
  <2>3. QED
    BY <1>1, <2>1, <2>2 DEF DistinctNew, Only
<1>4. ASSUME NEW r \in Requests, Done(r) PROVE DistinctNew'
  BY <1>1, <1>4, DoneIs DEF DistinctNew, Only, Idle
<1>5. QED
  BY <1>1, <1>2, <1>3, <1>4, WhatStepsDo DEF CommitSave, CommitStatus, Commits

\* A request that is not the one moving keeps what it knows while the diary
\* does not change.
LEMMA KnowledgeKept ==
  ASSUME NEW r \in Requests, Knows(r), req'[r] = req[r], booking' = booking
  PROVE  Knows(r)'
  BY DEF Knows, Shaped, OwnTaken, TableTaken, Clear, HeldInOrder, Diary!Against

LEMMA NothingKnown ==
  ASSUME NEW r \in Requests, req'[r] = Idle
  PROVE  Knows(r)'
  BY DEF Knows, Shaped, OwnTaken, TableTaken, Clear, HeldInOrder, Idle

LEMMA ArrivingKnows ==
  ASSUME IInv, NEW r \in Requests, Arriving(r)
  PROVE  Knows(r)'
<1>1. TypeOK
  BY DEF IInv
<1>2. booking' = booking
  BY DEF Arriving, Ask
<1>3. ASSUME NEW b \in Bookings, NEW e \in Entries, Fresh(b),
             Ask(r, "create", b, e, "booked")
      PROVE  Knows(r)'
  <2>1. req'[r] = [kind |-> "create", step |-> Saving(e), doc |-> b, wish |-> e,
                   to |-> "booked", held |-> {}]
    BY <1>1, <1>3 DEF Ask, TypeOK, First
  <2>2. Saving(e) = "write" => Diary!Against(e, b) = {}
    BY DEF Saving, Diary!Against, Diary!Cross
  <2>3. Saving(e) \in {"write", "table"}
    BY DEF Saving
  <2>4. Saving(e) = "table" => e.table \in Tables
    BY ReservationsAssumption DEF Saving
  <2>5. Clear(r)'
    BY <1>2, <2>1, <2>2, <2>3 DEF Clear, Diary!Against
  <2>6. TableTaken(r)'
    BY <1>2, <2>1, <2>3 DEF TableTaken, Saving
  <2>7. QED
    BY <1>2, <1>3, <2>1, <2>3, <2>4, <2>5, <2>6
    DEF Knows, Shaped, OwnTaken, HeldInOrder, Fresh
<1>4. ASSUME NEW b \in Bookings, NEW e \in Entries,
             Ask(r, "edit", b, e, "booked")
      PROVE  Knows(r)'
  <2>1. req'[r] = [kind |-> "edit", step |-> "own", doc |-> b, wish |-> e,
                   to |-> "booked", held |-> {}]
    BY <1>1, <1>4 DEF Ask, TypeOK, First
  <2>2. QED
    BY <2>1 DEF Knows, Shaped, OwnTaken, TableTaken, Clear, HeldInOrder
<1>5. ASSUME NEW b \in Bookings, NEW e \in Entries, NEW to \in Diary!Closings,
             Ask(r, "close", b, e, to)
      PROVE  Knows(r)'
  <2>1. req'[r] = [kind |-> "close", step |-> "own", doc |-> b, wish |-> e,
                   to |-> to, held |-> {}]
    BY <1>1, <1>5 DEF Ask, TypeOK, First
  <2>2. QED
    BY <2>1 DEF Knows, Shaped, OwnTaken, TableTaken, Clear, HeldInOrder
<1>6. ASSUME NEW t \in Tables, Ask(r, "order", t, None, "none")
      PROVE  Knows(r)'
  <2>1. req'[r] = [kind |-> "order", step |-> "turn", doc |-> t, wish |-> None,
                   to |-> "none", held |-> {}]
    BY <1>1, <1>6 DEF Ask, TypeOK, First
  <2>2. QED
    BY <2>1 DEF Knows, Shaped, OwnTaken, TableTaken, Clear, HeldInOrder
<1>7. QED
  BY <1>3, <1>4, <1>5, <1>6 DEF Arriving

\* The stays a crossing is looked for among are enough to find it.
LEMMA CrossingsAreNear ==
  ASSUME ReservationsAssumption, TypeOK, NEW e \in Entries, NEW b \in Bookings,
         ~Crossed(e, b)
  PROVE  Diary!Against(e, b) = {}
<1>1. SUFFICES ASSUME NEW c \in Diary!Against(e, b) PROVE FALSE
  OBVIOUS
<1>2. /\ c \in Bookings \ {b} /\ booking[c].status \in Diary!Holding
      /\ Diary!Cross(booking[c].entry, e)
  BY <1>1 DEF Diary!Against
<1>3. booking[c].status # "none" /\ booking[c].entry \in Entries
  BY <1>2 DEF TypeOK, Diary!Holding
<1>4. /\ booking[c].entry.from \in Int /\ e.from \in Int /\ MaxLength \in Nat
      /\ booking[c].entry.len \in 1..MaxLength /\ e.len \in 1..MaxLength
  BY <1>3, ReservationsAssumption
<1>5. Near(e, c)
  BY <1>2, <1>3, <1>4 DEF Near, Diary!Cross
<1>6. QED
  BY <1>2, <1>5 DEF Crossed, Others

LEMMA StatementKnows ==
  ASSUME ReservationsAssumption, IInv, NEW r \in Requests, Statement(r),
         req[r].step = "own" => booking[req[r].doc].status = "booked",
         req[r].step = "others" => ~Crossed(req[r].wish, req[r].doc)
  PROVE  Knows(r)'
<1>1. TypeOK /\ Knows(r) /\ req[r] \in Request
  BY DEF IInv, TypeOK
<1>2. req'[r] = Advance(r) /\ booking' = booking
  BY <1>1, ProceedIs DEF Statement, Only
<1>3. /\ req'[r].kind = req[r].kind /\ req'[r].doc = req[r].doc
      /\ req'[r].wish = req[r].wish /\ req'[r].to = req[r].to
      /\ req'[r].step = NextStep(req[r])
      /\ req'[r].held = req[r].held \cup Wanted(r)
  BY <1>1, <1>2 DEF Advance, Request
<1>4. req[r].kind # "none" /\ req[r].step \notin {"none", "commit"}
  BY <1>1 DEF Statement, Knows, Shaped
<1>5. CASE req[r].step = "own"
  <2>1. Wanted(r) = {<<BookingRow(req[r].doc), "update">>}
    BY <1>5 DEF Wanted
  <2>2. req[r].kind \in {"edit", "close"}
    BY <1>1, <1>4, <1>5 DEF Knows, Shaped, Request
  <2>3. NextStep(req[r]) = IF req[r].kind = "edit" THEN Saving(req[r].wish)
                                                   ELSE "write"
    BY <1>5 DEF NextStep
  <2>4. Shaped(r)'
    <3>1. req[r].kind = "edit" => req[r].wish.table \in Tables \cup {None}
      BY <1>1, ReservationsAssumption DEF Knows, Shaped
    <3>2. QED
      BY <1>1, <1>3, <1>4, <2>2, <2>3, <3>1 DEF Knows, Shaped, Saving
  <2>5. OwnTaken(r)'
    BY <1>2, <1>3, <1>5, <2>1, <2>2 DEF OwnTaken
  <2>6. TableTaken(r)'
    BY <1>3, <2>2, <2>3 DEF TableTaken, Saving
  <2>7. Clear(r)'
    <3>1. req[r].kind = "edit" /\ Saving(req[r].wish) = "write" =>
            Diary!Against(req[r].wish, req[r].doc) = {}
      BY DEF Saving, Diary!Against, Diary!Cross
    <3>2. QED
      BY <1>2, <1>3, <2>2, <2>3, <3>1 DEF Clear, Saving, Diary!Against
  <2>8. HeldInOrder(r)'
    BY <1>1, <1>3, <2>1, <2>2, <2>3
    DEF HeldInOrder, Knows, BookingRow, TableRow, Restaurant
  <2>9. QED
    BY <2>4, <2>5, <2>6, <2>7, <2>8 DEF Knows
<1>6. CASE req[r].step = "table"
  <2>1. /\ Wanted(r) = {<<TableRow(req[r].wish.table), "update">>}
        /\ NextStep(req[r]) = "others"
        /\ req[r].kind \in Saves
    BY <1>1, <1>4, <1>6 DEF Wanted, TableMode, NextStep, Knows, Shaped, Request
  <2>2. Shaped(r)' /\ OwnTaken(r)' /\ TableTaken(r)' /\ Clear(r)'
    BY <1>1, <1>2, <1>3, <1>6, <2>1
    DEF Knows, Shaped, OwnTaken, TableTaken, Clear
  <2>3. HeldInOrder(r)'
    BY <1>1, <1>3, <1>6, <2>1
    DEF HeldInOrder, Knows, BookingRow, TableRow, Restaurant
  <2>4. QED
    BY <2>2, <2>3 DEF Knows
<1>7. CASE req[r].step = "others"
  <2>1. /\ NextStep(req[r]) = "write" /\ req[r].kind \in Saves
        /\ Wanted(r) = {<<BookingRow(b), "update">> : b \in Others(req[r].wish)}
    BY <1>1, <1>4, <1>7 DEF Wanted, NextStep, Knows, Shaped, Request
  <2>2. Diary!Against(req[r].wish, req[r].doc) = {}
    BY <1>1, <1>7, <2>1, CrossingsAreNear DEF Knows, Shaped
  <2>3. Shaped(r)' /\ OwnTaken(r)' /\ TableTaken(r)'
    BY <1>1, <1>2, <1>3, <1>7, <2>1 DEF Knows, Shaped, OwnTaken, TableTaken
  <2>4. Clear(r)'
    BY <1>2, <1>3, <2>2 DEF Clear, Diary!Against
  <2>5. HeldInOrder(r)'
    BY <1>1, <1>3, <1>7, <2>1
    DEF HeldInOrder, Knows, BookingRow, TableRow, Restaurant
  <2>6. QED
    BY <2>3, <2>4, <2>5 DEF Knows
<1>8. CASE req[r].step = "turn"
  <2>1. /\ NextStep(req[r]) = "write" /\ req[r].kind = "order"
        /\ Wanted(r) = {<<Restaurant, "update">>}
    BY <1>1, <1>4, <1>8 DEF Wanted, NextStep, Knows, Shaped, Request
  <2>2. QED
    BY <1>1, <1>2, <1>3, <2>1
    DEF Knows, Shaped, OwnTaken, TableTaken, Clear, HeldInOrder
<1>9. CASE req[r].step = "write"
  <2>1. /\ NextStep(req[r]) = "commit"
        /\ \A w \in Wanted(r) : \/ w = <<Restaurant, "share">>
                                \/ req[r].kind = "order" /\ w[2] = "share"
    BY <1>9 DEF Wanted, NextStep
  <2>2. Shaped(r)' /\ OwnTaken(r)' /\ TableTaken(r)'
    BY <1>1, <1>2, <1>3, <1>9, <2>1 DEF Knows, Shaped, OwnTaken, TableTaken
  <2>3. Clear(r)'
    BY <1>1, <1>2, <1>3, <1>9, <2>1 DEF Knows, Clear, Diary!Against
  <2>4. HeldInOrder(r)'
    BY <1>1, <1>3, <2>1
    DEF HeldInOrder, Knows, BookingRow, TableRow, Restaurant
  <2>5. QED
    BY <2>2, <2>3, <2>4 DEF Knows
<1>10. QED
  BY <1>1, <1>4, <1>5, <1>6, <1>7, <1>8, <1>9 DEF Request

\* The commit of one request leaves true what the others know: what they rely
\* on they have taken.
LEMMA CommitSaveSpares ==
  ASSUME ReservationsAssumption, IInv, NEW r \in Requests, NEW q \in Requests,
         r # q, CommitSave(r)
  PROVE  Knows(q)'
<1>1. /\ TypeOK /\ Exclusive /\ DistinctNew /\ Knows(q) /\ Knows(r)
      /\ req[r] \in Request /\ req[q] \in Request
  BY DEF IInv, TypeOK
<1>2. /\ req[r].step = "commit" /\ req[r].kind \in Saves
      /\ req'[q] = req[q]
      /\ booking' = [booking EXCEPT ![req[r].doc] =
                       [status |-> "booked", entry |-> req[r].wish]]
      /\ req[r].doc \in Bookings /\ req[r].wish \in Entries
  BY <1>1, DoneIs DEF CommitSave, Commits, Only, Knows, Shaped
<1>3. \A b \in Bookings :
        booking'[b] = IF b = req[r].doc
                      THEN [status |-> "booked", entry |-> req[r].wish]
                      ELSE booking[b]
  BY <1>1, <1>2 DEF TypeOK
<1>4. OwnTaken(q)'
  <2>1. req[q].kind = "create" => req[q].doc # req[r].doc
    BY <1>1, <1>2 DEF DistinctNew, Knows, OwnTaken
  <2>2. QED
    BY <1>1, <1>2, <1>3, <2>1 DEF Knows, OwnTaken, Shaped
<1>5. Clear(q)'
  <2>1. SUFFICES ASSUME req[q].kind \in Saves,
                        req[q].step \in {"write", "commit"}
                 PROVE  Diary!Against(req[q].wish, req[q].doc)' = {}
    BY <1>2 DEF Clear, Diary!Against
  <2>2. Diary!Against(req[q].wish, req[q].doc) = {}
    BY <1>1, <2>1 DEF Knows, Clear
  <2>3. ~Diary!Cross(req[r].wish, req[q].wish)
    <3>1. ASSUME Diary!Cross(req[r].wish, req[q].wish) PROVE FALSE
      <4>1. /\ req[r].wish.table = req[q].wish.table
            /\ req[r].wish.table # None
        BY <3>1 DEF Diary!Cross
      <4>2. /\ <<TableRow(req[r].wish.table), "update">> \in req[r].held
            /\ <<TableRow(req[r].wish.table), "update">> \in req[q].held
        BY <1>1, <1>2, <2>1, <4>1 DEF Knows, TableTaken
      <4>3. QED
        BY <1>1, <4>2 DEF Exclusive, Conflict
    <3>2. QED
      BY <3>1
  <2>4. QED
    BY <1>2, <1>3, <2>2, <2>3 DEF Diary!Against
<1>6. Shaped(q)' /\ TableTaken(q)' /\ HeldInOrder(q)'
  BY <1>1, <1>2 DEF Knows, Shaped, TableTaken, HeldInOrder
<1>7. QED
  BY <1>4, <1>5, <1>6 DEF Knows

LEMMA CommitStatusSpares ==
  ASSUME ReservationsAssumption, IInv, NEW r \in Requests, NEW q \in Requests,
         r # q, CommitStatus(r)
  PROVE  Knows(q)'
<1>1. /\ TypeOK /\ Exclusive /\ Knows(q) /\ Knows(r)
      /\ req[r] \in Request /\ req[q] \in Request
  BY DEF IInv, TypeOK
<1>2. /\ req[r].step = "commit" /\ req[r].kind = "close"
      /\ req'[q] = req[q]
      /\ booking' = [booking EXCEPT ![req[r].doc].status = req[r].to]
      /\ req[r].doc \in Bookings
      /\ booking[req[r].doc].status = "booked"
      /\ <<BookingRow(req[r].doc), "update">> \in req[r].held
  BY <1>1, DoneIs DEF CommitStatus, Commits, Only, Knows, Shaped, OwnTaken
<1>3. /\ \A b \in Bookings \ {req[r].doc} : booking'[b] = booking[b]
      /\ booking'[req[r].doc].entry = booking[req[r].doc].entry
  BY <1>1, <1>2 DEF TypeOK
<1>4. OwnTaken(q)'
  <2>1. /\ req[q].kind = "create" => req[q].doc # req[r].doc
        /\ req[q].kind \in {"edit", "close"} /\ req[q].step # "own" =>
             req[q].doc # req[r].doc
    BY <1>1, <1>2 DEF Knows, OwnTaken, Exclusive, Conflict
  <2>2. QED
    BY <1>1, <1>2, <1>3, <2>1 DEF Knows, OwnTaken, Shaped
<1>5. Clear(q)'
  <2>1. \A e \in Entries, b \in Bookings :
          Diary!Against(e, b) = {} => Diary!Against(e, b)' = {}
    BY <1>2, <1>3 DEF Diary!Against, Diary!Holding
  <2>2. QED
    BY <1>1, <1>2, <2>1 DEF Knows, Clear, Shaped
<1>6. Shaped(q)' /\ TableTaken(q)' /\ HeldInOrder(q)'
  BY <1>1, <1>2 DEF Knows, Shaped, TableTaken, HeldInOrder
<1>7. QED
  BY <1>4, <1>5, <1>6 DEF Knows

LEMMA Inductive ==
  ASSUME ReservationsAssumption, IInv, [Next]_vars
  PROVE  IInv'
<1>1. CASE UNCHANGED vars
  <2>1. booking' = booking /\ req' = req
    BY <1>1 DEF vars
  <2>2. TypeOK' /\ Exclusive' /\ DistinctNew'
    BY <2>1 DEF IInv, TypeOK, Exclusive, DistinctNew
  <2>3. \A r \in Requests : Knows(r)'
    BY <2>1, KnowledgeKept DEF IInv
  <2>4. QED
    BY <2>2, <2>3 DEF IInv
<1>2. CASE Next
  <2>1. TypeOK' /\ Exclusive' /\ DistinctNew'
    BY <1>2, Typed, StaysExclusive, StayDistinct
  <2>2. ASSUME NEW q \in Requests PROVE Knows(q)'
    <3>1. TypeOK /\ Knows(q)
      BY DEF IInv
    <3>2. ASSUME NEW r \in Requests, Arriving(r) PROVE Knows(q)'
      <4>1. CASE q = r
        BY <3>2, <4>1, ArrivingKnows
      <4>2. CASE q # r
        <5>1. req'[q] = req[q] /\ booking' = booking
          BY <3>1, <3>2, <4>2 DEF Arriving, Ask, TypeOK
        <5>2. QED
          BY <3>1, <5>1, KnowledgeKept
      <4>3. QED
        BY <4>1, <4>2
    <3>3. ASSUME NEW r \in Requests, Statement(r),
                 req[r].step = "own" => booking[req[r].doc].status = "booked",
                 req[r].step = "others" => ~Crossed(req[r].wish, req[r].doc)
          PROVE  Knows(q)'
      <4>1. CASE q = r
        BY <3>3, <4>1, StatementKnows
      <4>2. CASE q # r
        <5>1. req'[q] = req[q] /\ booking' = booking
          BY <3>1, <3>3, <4>2, ProceedIs DEF Statement, Only
        <5>2. QED
          BY <3>1, <5>1, KnowledgeKept
      <4>3. QED
        BY <4>1, <4>2
    <3>4. ASSUME NEW r \in Requests, CommitSave(r) PROVE Knows(q)'
      <4>1. CASE q = r
        BY <3>1, <3>4, <4>1, DoneIs, NothingKnown DEF CommitSave, Commits, Only
      <4>2. QED
        BY <3>4, <4>1, CommitSaveSpares
    <3>5. ASSUME NEW r \in Requests, CommitStatus(r) PROVE Knows(q)'
      <4>1. CASE q = r
        BY <3>1, <3>5, <4>1, DoneIs, NothingKnown DEF CommitStatus, Commits, Only
      <4>2. QED
        BY <3>5, <4>1, CommitStatusSpares
    <3>6. ASSUME NEW r \in Requests, Done(r), booking' = booking PROVE Knows(q)'
      BY <3>1, <3>6, DoneIs, NothingKnown, KnowledgeKept DEF Only
    <3>7. QED
      BY <1>2, <3>1, <3>2, <3>3, <3>4, <3>5, <3>6, WhatStepsDo
  <2>3. QED
    BY <2>1, <2>2 DEF IInv
<1>3. QED
  BY <1>1, <1>2

\* What a request past each of its statements knows stays true until it
\* commits.
THEOREM RequestsKnowWhatTheyTook == Spec => []IInv
<1>1. Init => IInv
  BY Initially, ReservationsAssumption
<1>2. IInv /\ [Next]_vars => IInv'
  BY Inductive, ReservationsAssumption
<1>3. QED
  BY <1>1, <1>2, PTL DEF Spec

-----------------------------------------------------------------------------
(* The properties. *)

LEMMA StepsWriteTheDiary ==
  ASSUME ReservationsAssumption, IInv, [Next]_vars
  PROVE  [Diary!Next]_booking
<1>1. CASE UNCHANGED vars
  BY <1>1 DEF vars
<1>2. ASSUME NEW r \in Requests, CommitSave(r) PROVE Diary!Next
  <2>1. /\ req[r].doc \in Bookings /\ req[r].wish \in Entries
        /\ Diary!Against(req[r].wish, req[r].doc) = {}
        /\ booking[req[r].doc].status \in {"none", "booked"}
    BY <1>2 DEF IInv, Knows, Shaped, OwnTaken, Clear, CommitSave, Commits
  <2>2. Diary!Write(req[r].doc, req[r].wish)
    BY <1>2, <2>1 DEF CommitSave, Diary!Write
  <2>3. QED
    BY <2>1, <2>2 DEF Diary!Next
<1>3. ASSUME NEW r \in Requests, CommitStatus(r) PROVE Diary!Next
  <2>1. /\ req[r].doc \in Bookings /\ req[r].to \in Diary!Closings
        /\ booking[req[r].doc].status = "booked"
    BY <1>3 DEF IInv, Knows, Shaped, OwnTaken, CommitStatus, Commits
  <2>2. Diary!Close(req[r].doc, req[r].to)
    BY <1>3, <2>1 DEF CommitStatus, Diary!Close
  <2>3. QED
    BY <2>1, <2>2 DEF Diary!Next
<1>4. ASSUME NEW r \in Requests, Arriving(r) PROVE UNCHANGED booking
  BY <1>4 DEF Arriving, Ask
<1>5. QED
  BY <1>1, <1>2, <1>3, <1>4, WhatStepsDo
  DEF IInv, Statement, Proceed

\* Any number of requests, cut at any point, write a diary of reservations.
THEOREM RequestsWriteADiary == Spec => ImplementsDiary
<1>1. Init => Diary!Init
  BY DEF Init, Diary!Init
<1>2. IInv /\ [Next]_vars => [Diary!Next]_booking
  BY StepsWriteTheDiary, ReservationsAssumption
<1>3. QED
  BY <1>1, <1>2, RequestsKnowWhatTheyTook, PTL DEF Spec, ImplementsDiary, Diary!Spec

\* And in a diary no two reservations in force ever meet at one table.
THEOREM DiariesDoNotOverlap == Spec => []Diary!NoOverlap
<1> DEFINE DiaryInv == Diary!NoOverlap
<1>1. Init => DiaryInv
  BY DEF Init, Diary!NoOverlap, Diary!Blank, Diary!Holding
<1>2. DiaryInv /\ [Diary!Next]_booking /\ TypeOK => DiaryInv'
  <2>1. SUFFICES ASSUME DiaryInv, [Diary!Next]_booking, TypeOK PROVE DiaryInv'
    OBVIOUS
  <2>2. \A e, f : Diary!Cross(e, f) => Diary!Cross(f, e)
    BY DEF Diary!Cross
  <2>3. ASSUME NEW b \in Bookings, NEW e \in Entries, Diary!Write(b, e)
        PROVE  DiaryInv'
    <3>1. \A c \in Bookings : booking'[c] =
            IF c = b THEN [status |-> "booked", entry |-> e] ELSE booking[c]
      BY <2>1, <2>3 DEF Diary!Write, TypeOK
    <3>2. \A c \in Bookings \ {b} :
            booking[c].status \in Diary!Holding => ~Diary!Cross(booking[c].entry, e)
      BY <2>3 DEF Diary!Write, Diary!Against
    <3>3. \A c, d \in Bookings :
            c # d /\ booking[c].status \in Diary!Holding
                  /\ booking[d].status \in Diary!Holding
              => ~Diary!Cross(booking[c].entry, booking[d].entry)
      BY <2>1 DEF Diary!NoOverlap, Diary!Against
    <3>4. QED
      BY <2>2, <3>1, <3>2, <3>3 DEF Diary!NoOverlap, Diary!Against
  <2>4. ASSUME NEW b \in Bookings, NEW status \in Diary!Closings,
               Diary!Close(b, status)
        PROVE  DiaryInv'
    <3>1. /\ booking[b].status = "booked" /\ booking'[b].entry = booking[b].entry
          /\ \A c \in Bookings \ {b} : booking'[c] = booking[c]
      BY <2>1, <2>4 DEF Diary!Close, TypeOK
    <3>2. QED
      BY <2>1, <3>1 DEF Diary!NoOverlap, Diary!Against, Diary!Holding
  <2>5. CASE UNCHANGED booking
    BY <2>1, <2>5 DEF Diary!NoOverlap, Diary!Against
  <2>6. QED
    BY <2>1, <2>3, <2>4, <2>5 DEF Diary!Next
<1>3. IInv => TypeOK
  BY DEF IInv
<1>4. QED
  BY <1>1, <1>2, <1>3, RequestsKnowWhatTheyTook, RequestsWriteADiary, PTL
  DEF Spec, ImplementsDiary, Diary!Spec

\* Requests that only create and close reservations never wait in a circle:
\* nobody waits for the restaurant without an order, so nobody waits at the
\* reservations, and so nobody waits at a table.
LEMMA NoCircle ==
  ASSUME ReservationsAssumption, IInv
  PROVE  OnlyEditsAndOrdersWaitInCircle
<1>1. SUFFICES ASSUME NEW S \in SUBSET Requests, Deadlocked(S),
                      \A r \in S : req[r].kind \notin {"edit", "order"}
               PROVE  FALSE
  BY DEF OnlyEditsAndOrdersWaitInCircle
<1>2. /\ S # {} /\ \A r \in S : \E q \in S : Waits(r, q)
      /\ \A r \in S : r \in Requests /\ Knows(r) /\ req[r] \in Request
  BY <1>1 DEF Deadlocked, IInv, TypeOK
<1>3. ASSUME NEW r \in S PROVE req[r].step \notin {"none", "write", "commit"}
  <2>1. ASSUME req[r].step = "write" PROVE FALSE
    <3>1. PICK q \in S : \E h \in req[q].held : Conflict(<<Restaurant, "share">>, h)
      BY <1>1, <1>2, <2>1 DEF Waits, Wanted
    <3>2. PICK h \in req[q].held : Conflict(<<Restaurant, "share">>, h)
      BY <3>1
    <3>3. h \in All \X {"update", "share"}
      BY <1>2, <3>2 DEF Request, Locks
    <3>4. h = <<Restaurant, "update">>
      BY <3>2, <3>3 DEF Conflict
    <3>5. QED
      BY <1>1, <1>2, <3>2, <3>4 DEF Knows, HeldInOrder
  <2>2. QED
    BY <1>2, <2>1 DEF Waits, Wanted
<1>4. ASSUME NEW r \in S, NEW b \in Bookings, NEW h \in req[r].held,
             h[1] = BookingRow(b)
      PROVE  FALSE
  BY <1>1, <1>2, <1>3, <1>4 DEF Knows, HeldInOrder, Request, Shaped
<1>5. ASSUME NEW r \in S PROVE req[r].step = "table"
  <2>1. CASE req[r].step = "own"
    <3>1. req[r].doc \in Bookings
      BY <1>1, <1>2, <2>1 DEF Knows, Shaped, Request
    <3>2. \E q \in S : \E h \in req[q].held : h[1] = BookingRow(req[r].doc)
      BY <1>2, <2>1 DEF Waits, Wanted, Conflict
    <3>3. QED
      BY <1>4, <3>1, <3>2
  <2>2. CASE req[r].step = "others"
    <3>1. \E q \in S : \E h \in req[q].held : \E b \in Bookings :
            h[1] = BookingRow(b)
      BY <1>2, <2>2 DEF Waits, Wanted, Conflict, Others
    <3>2. QED
      BY <1>4, <3>1
  <2>3. QED
    BY <1>1, <1>2, <1>3, <2>1, <2>2 DEF Knows, Shaped, Request
<1>6. PICK r \in S, q \in S : Waits(r, q)
  BY <1>2
<1>7. req[r].step = "table" /\ req[q].step = "table"
  BY <1>5
<1>8. req[r].wish.table \in Tables
  BY <1>1, <1>2, <1>7 DEF Knows, Shaped, Request
<1>9. PICK h \in req[q].held : h[1] = TableRow(req[r].wish.table)
  BY <1>6, <1>7 DEF Waits, Wanted, Conflict
<1>10. QED
  BY <1>1, <1>2, <1>7, <1>8, <1>9 DEF Knows, HeldInOrder, Request, Shaped

\* Without an edit or an opening of an order among them, no set of requests
\* waits in a circle.
THEOREM CreatingAndClosingNeverDeadlock ==
  Spec => []OnlyEditsAndOrdersWaitInCircle
<1>1. IInv => OnlyEditsAndOrdersWaitInCircle
  BY NoCircle, ReservationsAssumption
<1>2. QED
  BY <1>1, RequestsKnowWhatTheyTook, PTL
=============================================================================
