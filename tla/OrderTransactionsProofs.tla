----------------------- MODULE OrderTransactionsProofs -----------------------
(***************************************************************************)
(* Why the row locks of the transactions are enough, for any number of     *)
(* requests, tables and sessions: what each request knows at each of its   *)
(* statements stays true until it commits, because nobody else may write   *)
(* the rows it rests on.                                                   *)
(***************************************************************************)
EXTENDS OrderTransactions, SumProofs

-----------------------------------------------------------------------------
(* Where an attempt is. *)

\* The statement it makes next.
At(a) == IF todo[a] = <<>> THEN "done" ELSE Head(todo[a])

\* What may be left of each use case.
Tails ==
  [open |-> {<<"turn", "seat", "write", "commit">>,
             <<"seat", "write", "commit">>, <<"write", "commit">>, <<"commit">>},
   add |-> {<<"order", "write", "commit">>, <<"write", "commit">>,
            <<"commit">>},
   move |-> {<<"turn", "order", "seat", "write", "commit">>,
             <<"order", "seat", "write", "commit">>,
             <<"seat", "write", "commit">>, <<"write", "commit">>, <<"commit">>},
   merge |-> {<<"order", "other", "write", "commit">>,
              <<"other", "write", "commit">>, <<"write", "commit">>,
              <<"commit">>},
   charge |-> {<<"order", "cash", "write", "commit">>,
               <<"cash", "write", "commit">>, <<"write", "commit">>,
               <<"commit">>},
   void |-> {<<"order", "invoiced", "cash", "write", "commit">>,
             <<"invoiced", "cash", "write", "commit">>,
             <<"cash", "write", "commit">>, <<"write", "commit">>, <<"commit">>},
   opencash |-> {<<"vacant", "write", "commit">>, <<"write", "commit">>,
                 <<"commit">>},
   close |-> {<<"cash", "count", "write", "commit">>,
              <<"count", "write", "commit">>, <<"write", "commit">>,
              <<"commit">>},
   issue |-> {<<"paid", "settings", "write", "sunat", "commit">>,
              <<"settings", "write", "sunat", "commit">>,
              <<"write", "sunat", "commit">>, <<"sunat", "commit">>,
              <<"commit">>}]

\* The statement that follows each.
Then ==
  [open |-> [turn |-> "seat", seat |-> "write", write |-> "commit",
             commit |-> "done"],
   add |-> [order |-> "write", write |-> "commit", commit |-> "done"],
   move |-> [turn |-> "order", order |-> "seat", seat |-> "write",
             write |-> "commit", commit |-> "done"],
   merge |-> [order |-> "other", other |-> "write", write |-> "commit",
              commit |-> "done"],
   charge |-> [order |-> "cash", cash |-> "write", write |-> "commit",
               commit |-> "done"],
   void |-> [order |-> "invoiced", invoiced |-> "cash", cash |-> "write",
             write |-> "commit", commit |-> "done"],
   opencash |-> [vacant |-> "write", write |-> "commit", commit |-> "done"],
   close |-> [cash |-> "count", count |-> "write", write |-> "commit",
              commit |-> "done"],
   issue |-> [paid |-> "settings", settings |-> "write", write |-> "sunat",
              sunat |-> "commit", commit |-> "done"]]

\* The use cases that make each statement.
Makes(kind, step) ==
  /\ step = "turn" => kind \in {"open", "move"}
  /\ step = "order" => kind \in {"add", "move", "merge", "charge", "void"}
  /\ step = "other" => kind = "merge"
  /\ step = "seat" => kind \in {"open", "move"}
  /\ step = "cash" => kind \in {"charge", "void", "close"}
  /\ step = "vacant" => kind = "opencash"
  /\ step = "count" => kind = "close"
  /\ step = "invoiced" => kind = "void"
  /\ step \in {"paid", "settings", "sunat"} => kind = "issue"

-----------------------------------------------------------------------------
(* The inductive invariant. *)

Asks == [kind : Kinds \cup {"none"}, order : Orders \cup {None},
         other : Orders \cup {None}, table : Tables \cup {None},
         part : BOOLEAN, seen : Int, key : Attempts \cup {None}]

\* A request names the rows it needs.
Sensible(r) ==
  /\ r.kind = "none" => r = NoRequest
  /\ r.kind # "none" => r.key \in Attempts
  /\ r.kind = "open" => r.order = None
  /\ r.kind \in {"open", "move"} => r.table \in Tables
  /\ r.kind \in {"add", "move", "merge", "charge", "void", "issue"}
       => r.order \in Orders
  /\ r.kind = "merge" => r.other \in Orders /\ r.other # r.order

\* Its key is the attempt that asked for it first.
Asked(a) ==
  /\ Sensible(req[a])
  /\ req[a].key # None => req[req[a].key] = req[a]

Notes == [cash : Sessions \cup {None}, number : Nat, balance : Int,
          taken : Int, payment : Bills \cup {None}]

\* An attempt has done the first statements of its use case, or is over.
Staged(a) ==
  /\ todo[a] # <<>> => req[a].kind \in Kinds /\ todo[a] \in Tails[req[a].kind]
  /\ todo[a] = <<>> => note[a] = NoNote

\* What it has taken, statement by statement.
InTurn(a) == /\ req[a].kind \in {"open", "move"}
             /\ At(a) \in {"order", "seat", "write", "commit"}
InOrder(a) ==
  \/ /\ req[a].kind \in {"add", "move", "charge", "void"}
     /\ At(a) \in {"seat", "invoiced", "cash", "write", "commit"}
  \/ req[a].kind = "merge" /\ At(a) \in {"other", "write", "commit"}
InOther(a) == req[a].kind = "merge" /\ At(a) \in {"write", "commit"}
InCash(a) == /\ req[a].kind \in {"charge", "void", "close"}
             /\ At(a) \in {"count", "write", "commit"}
InSettings(a) == req[a].kind = "issue" /\ At(a) \in {"write", "sunat", "commit"}
Wrote(a) == At(a) \in {"sunat", "commit"}

Rows(a) ==
  (IF InTurn(a) THEN {<<Restaurant, "update">>} ELSE {})
    \cup (IF InOrder(a) THEN {<<OrderRow(First(req[a])), "update">>} ELSE {})
    \cup (IF InOther(a) THEN {<<OrderRow(Second(req[a])), "update">>} ELSE {})
    \cup (IF InCash(a) THEN {<<CashRow(note[a].cash), "update">>} ELSE {})
    \cup (IF InSettings(a) THEN {<<Settings, "update">>} ELSE {})
    \cup (IF Wrote(a) THEN {<<Restaurant, "share">>} ELSE {})
    \cup (IF Wrote(a) /\ Is(a, "issue")
            THEN {<<OrderRow(req[a].order), "share">>} ELSE {})

Holding(a) == held[a] = Rows(a)

Exclusive ==
  \A a, b \in Attempts :
    a # b => \A g \in held[a], h \in held[b] : ~Conflict(g, h)

\* A payment of the order was voided.
Reopened(o) == \E b \in Bills : payments[b].order = o /\ ~payments[b].live

\* What it has read is still so.
KnowsSeat(a) ==
  /\ req[a].kind \in {"open", "move"} /\ At(a) \in {"write", "commit"}
     => \A r \in ActiveAt(req[a].table) \ {req[a].order} : Reopened(r)
  /\ req[a].kind = "open" /\ At(a) \in {"write", "commit"}
     => \A o \in Orders : /\ orders[o].number < note[a].number
                          /\ orders[o].key # req[a].key
  /\ req[a].kind \in {"add", "move"} /\ At(a) \in {"seat", "write", "commit"}
     => IsActive(req[a].order)

KnowsBill(a) ==
  /\ req[a].kind = "merge" /\ At(a) \in {"write", "commit"}
     => Mergeable(req[a].order) /\ Mergeable(req[a].other)
  /\ req[a].kind = "charge" /\ At(a) \in {"cash", "write", "commit"}
     => /\ orders[req[a].order].status = "served"
        /\ note[a].balance = Balance(req[a].order)
        /\ req[a].part => req[a].seen = Balance(req[a].order)
  /\ req[a].kind = "void" /\ At(a) \in {"invoiced", "cash", "write", "commit"}
     => note[a].payment \in PaymentsOf(req[a].order)

KnowsCash(a) ==
  /\ InCash(a) => note[a].cash \in OpenSessions
  /\ req[a].kind = "void" /\ At(a) \in {"write", "commit"}
     => payments[note[a].payment].session = note[a].cash
  /\ req[a].kind = "close" /\ At(a) \in {"write", "commit"}
     => note[a].taken = Taken(note[a].cash)

Opening(a) == req[a].kind = "opencash" /\ At(a) = "commit"
OneOpens ==
  /\ \A a \in Attempts : Opening(a) => OpenSessions = {}
  /\ \A a, b \in Attempts : Opening(a) /\ Opening(b) => a = b
  /\ \A s, r \in OpenSessions : s = r

\* An attempt has a payment once it has charged, and not before.
Charged(a) ==
  \/ payments[a] = NoPayment
  \/ /\ req[a].kind = "charge" /\ todo[a] = <<>>
     /\ payments[a].order = req[a].order

Rowed ==
  /\ orders \in [Orders -> [status : Active \cup {"none", "paid", "cancelled"},
                            table : Tables \cup {None}, number : Nat, bill : Nat,
                            key : Attempts \cup {None}]]
  /\ payments \in [Bills -> [order : Orders \cup {None}, amount : Int,
                             session : Sessions \cup {None}, live : BOOLEAN,
                             bill : Nat]]
  /\ sessions \in [Sessions -> [state : {"none", "open", "closed"}, signed : Int]]
  /\ invoices \subseteq Orders
  /\ req \in [Attempts -> Asks]
  /\ note \in [Attempts -> Notes]
  /\ DOMAIN todo = Attempts /\ DOMAIN held = Attempts

Live == {b \in Bills : payments[b].live}

\* Live payments are worth something and are in orders neither merged nor yet
\* to be opened.
Paying ==
  /\ IsFiniteSet(Live)
  /\ \A b \in Live : /\ payments[b].amount >= 1
                     /\ payments[b].order \in Orders
                     /\ payments[b].session \in Sessions
                     /\ orders[payments[b].order].status
                          \in {"open", "served", "paid"}

Owing ==
  \A o \in Orders : /\ IsActive(o) => Balance(o) >= 1
                    /\ orders[o].status = "paid" => Balance(o) = 0

Counted ==
  \A s \in Sessions : sessions[s].state = "closed" =>
    sessions[s].signed = Taken(s)

\* A part charged left the order owing that much less than the diner had seen,
\* and only what was added to the bill since made it owe more.
Tapped(a) ==
  payments[a].live /\ ~Reopened(req[a].order) =>
    IF req[a].part
      THEN Balance(req[a].order) + payments[a].amount + payments[a].bill
             <= req[a].seen + orders[req[a].order].bill
      ELSE orders[req[a].order].status = "paid"

Seated ==
  \A o, r \in Orders :
    o # r /\ IsActive(o) /\ IsActive(r) /\ orders[o].table = orders[r].table
    => Reopened(o) \/ Reopened(r)

Personal(a) ==
  /\ Asked(a) /\ Staged(a) /\ Holding(a)
  /\ KnowsSeat(a) /\ KnowsBill(a) /\ KnowsCash(a)
  /\ Charged(a) /\ Tapped(a)

IInv ==
  /\ Rowed /\ Paying /\ Owing /\ Counted /\ Seated /\ Exclusive /\ OneOpens
  /\ DoubleTapPaysOnce
  /\ \A a \in Attempts : Personal(a)

-----------------------------------------------------------------------------
(* Statements. *)

LEMMA ShortTails ==
  ASSUME NEW v, NEW w, NEW x, NEW y, NEW z
  PROVE  /\ <<z>> # <<>> /\ Head(<<z>>) = z /\ Tail(<<z>>) = <<>>
         /\ <<y, z>> # <<>> /\ Head(<<y, z>>) = y /\ Tail(<<y, z>>) = <<z>>
         /\ <<x, y, z>> # <<>> /\ Head(<<x, y, z>>) = x
         /\ Tail(<<x, y, z>>) = <<y, z>>
         /\ <<w, x, y, z>> # <<>> /\ Head(<<w, x, y, z>>) = w
         /\ Tail(<<w, x, y, z>>) = <<x, y, z>>
         /\ <<v, w, x, y, z>> # <<>> /\ Head(<<v, w, x, y, z>>) = v
         /\ Tail(<<v, w, x, y, z>>) = <<w, x, y, z>>
  OBVIOUS

LEMMA TailsFollow ==
  ASSUME NEW k \in Kinds, NEW q \in Tails[k]
  PROVE  /\ q # <<>>
         /\ Head(q) # "done"
         /\ Head(q) = "commit" => Tail(q) = <<>>
         /\ Head(q) # "commit" =>
              /\ Tail(q) # <<>> /\ Tail(q) \in Tails[k]
              /\ Head(Tail(q)) = Then[k][Head(q)]
         /\ Makes(k, Head(q))
<1>1. CASE k = "open"
  <2>1. CASE q = <<"turn", "seat", "write", "commit">>
    BY <1>1, <2>1, ShortTails DEF Tails, Then, Makes
  <2>2. CASE q = <<"seat", "write", "commit">>
    BY <1>1, <2>2, ShortTails DEF Tails, Then, Makes
  <2>3. CASE q = <<"write", "commit">>
    BY <1>1, <2>3, ShortTails DEF Tails, Then, Makes
  <2>4. CASE q = <<"commit">>
    BY <1>1, <2>4, ShortTails DEF Tails, Then, Makes
  <2>5. QED
    BY <1>1, <2>1, <2>2, <2>3, <2>4 DEF Tails
<1>2. CASE k = "move"
  <2>1. CASE q = <<"turn", "order", "seat", "write", "commit">>
    BY <1>2, <2>1, ShortTails DEF Tails, Then, Makes
  <2>2. CASE q = <<"order", "seat", "write", "commit">>
    BY <1>2, <2>2, ShortTails DEF Tails, Then, Makes
  <2>3. CASE q = <<"seat", "write", "commit">>
    BY <1>2, <2>3, ShortTails DEF Tails, Then, Makes
  <2>4. CASE q = <<"write", "commit">>
    BY <1>2, <2>4, ShortTails DEF Tails, Then, Makes
  <2>5. CASE q = <<"commit">>
    BY <1>2, <2>5, ShortTails DEF Tails, Then, Makes
  <2>6. QED
    BY <1>2, <2>1, <2>2, <2>3, <2>4, <2>5 DEF Tails
<1>3. CASE k = "merge"
  <2>1. CASE q = <<"order", "other", "write", "commit">>
    BY <1>3, <2>1, ShortTails DEF Tails, Then, Makes
  <2>2. CASE q = <<"other", "write", "commit">>
    BY <1>3, <2>2, ShortTails DEF Tails, Then, Makes
  <2>3. CASE q = <<"write", "commit">>
    BY <1>3, <2>3, ShortTails DEF Tails, Then, Makes
  <2>4. CASE q = <<"commit">>
    BY <1>3, <2>4, ShortTails DEF Tails, Then, Makes
  <2>5. QED
    BY <1>3, <2>1, <2>2, <2>3, <2>4 DEF Tails
<1>4. CASE k = "charge"
  <2>1. CASE q = <<"order", "cash", "write", "commit">>
    BY <1>4, <2>1, ShortTails DEF Tails, Then, Makes
  <2>2. CASE q = <<"cash", "write", "commit">>
    BY <1>4, <2>2, ShortTails DEF Tails, Then, Makes
  <2>3. CASE q = <<"write", "commit">>
    BY <1>4, <2>3, ShortTails DEF Tails, Then, Makes
  <2>4. CASE q = <<"commit">>
    BY <1>4, <2>4, ShortTails DEF Tails, Then, Makes
  <2>5. QED
    BY <1>4, <2>1, <2>2, <2>3, <2>4 DEF Tails
<1>5. CASE k = "void"
  <2>1. CASE q = <<"order", "invoiced", "cash", "write", "commit">>
    BY <1>5, <2>1, ShortTails DEF Tails, Then, Makes
  <2>2. CASE q = <<"invoiced", "cash", "write", "commit">>
    BY <1>5, <2>2, ShortTails DEF Tails, Then, Makes
  <2>3. CASE q = <<"cash", "write", "commit">>
    BY <1>5, <2>3, ShortTails DEF Tails, Then, Makes
  <2>4. CASE q = <<"write", "commit">>
    BY <1>5, <2>4, ShortTails DEF Tails, Then, Makes
  <2>5. CASE q = <<"commit">>
    BY <1>5, <2>5, ShortTails DEF Tails, Then, Makes
  <2>6. QED
    BY <1>5, <2>1, <2>2, <2>3, <2>4, <2>5 DEF Tails
<1>6. CASE k = "opencash"
  <2>1. CASE q = <<"vacant", "write", "commit">>
    BY <1>6, <2>1, ShortTails DEF Tails, Then, Makes
  <2>2. CASE q = <<"write", "commit">>
    BY <1>6, <2>2, ShortTails DEF Tails, Then, Makes
  <2>3. CASE q = <<"commit">>
    BY <1>6, <2>3, ShortTails DEF Tails, Then, Makes
  <2>4. QED
    BY <1>6, <2>1, <2>2, <2>3 DEF Tails
<1>7. CASE k = "close"
  <2>1. CASE q = <<"cash", "count", "write", "commit">>
    BY <1>7, <2>1, ShortTails DEF Tails, Then, Makes
  <2>2. CASE q = <<"count", "write", "commit">>
    BY <1>7, <2>2, ShortTails DEF Tails, Then, Makes
  <2>3. CASE q = <<"write", "commit">>
    BY <1>7, <2>3, ShortTails DEF Tails, Then, Makes
  <2>4. CASE q = <<"commit">>
    BY <1>7, <2>4, ShortTails DEF Tails, Then, Makes
  <2>5. QED
    BY <1>7, <2>1, <2>2, <2>3, <2>4 DEF Tails
<1>8. CASE k = "issue"
  <2>1. CASE q = <<"paid", "settings", "write", "sunat", "commit">>
    BY <1>8, <2>1, ShortTails DEF Tails, Then, Makes
  <2>2. CASE q = <<"settings", "write", "sunat", "commit">>
    BY <1>8, <2>2, ShortTails DEF Tails, Then, Makes
  <2>3. CASE q = <<"write", "sunat", "commit">>
    BY <1>8, <2>3, ShortTails DEF Tails, Then, Makes
  <2>4. CASE q = <<"sunat", "commit">>
    BY <1>8, <2>4, ShortTails DEF Tails, Then, Makes
  <2>5. CASE q = <<"commit">>
    BY <1>8, <2>5, ShortTails DEF Tails, Then, Makes
  <2>6. QED
    BY <1>8, <2>1, <2>2, <2>3, <2>4, <2>5 DEF Tails
<1>9. CASE k = "add"
  <2>1. CASE q = <<"order", "write", "commit">>
    BY <1>9, <2>1, ShortTails DEF Tails, Then, Makes
  <2>2. CASE q = <<"write", "commit">>
    BY <1>9, <2>2, ShortTails DEF Tails, Then, Makes
  <2>3. CASE q = <<"commit">>
    BY <1>9, <2>3, ShortTails DEF Tails, Then, Makes
  <2>4. QED
    BY <1>9, <2>1, <2>2, <2>3 DEF Tails
<1>10. QED
  BY <1>1, <1>2, <1>3, <1>4, <1>5, <1>6, <1>7, <1>8, <1>9 DEF Kinds

LEMMA DoingIsAt ==
  ASSUME NEW a \in Attempts, Staged(a), NEW step, step # "done"
  PROVE  Doing(a, step) <=> At(a) = step
<1>1. todo[a] # <<>> => Head(todo[a]) # "done"
  BY TailsFollow DEF Staged
<1>2. QED
  BY <1>1 DEF Doing, At

\* A statement is made: its attempt goes on to the next.
LEMMA Proceeding ==
  ASSUME Rowed, NEW a \in Attempts, Staged(a), todo[a] # <<>>,
         At(a) # "commit", NEW n \in Notes, Proceed(a, n)
  PROVE  /\ req[a].kind \in Kinds
         /\ At(a)' = Then[req[a].kind][At(a)]
         /\ Staged(a)' /\ todo'[a] # <<>>
         /\ held'[a] = held[a] \cup Wanted(a) /\ note'[a] = n
         /\ note' \in [Attempts -> Notes]
         /\ DOMAIN todo' = Attempts /\ DOMAIN held' = Attempts
         /\ \A b \in Attempts \ {a} : /\ todo'[b] = todo[b]
                                      /\ held'[b] = held[b]
                                      /\ note'[b] = note[b]
<1>1. todo'[a] = Tail(todo[a]) /\ req' = req /\ At(a) = Head(todo[a])
  BY DEF Proceed, Rowed, At
<1>2. req[a].kind \in Kinds /\ todo[a] \in Tails[req[a].kind]
  BY DEF Staged
<1>3. /\ Tail(todo[a]) # <<>> /\ Tail(todo[a]) \in Tails[req[a].kind]
      /\ Head(Tail(todo[a])) = Then[req[a].kind][At(a)]
  BY <1>1, <1>2, TailsFollow
<1>4. At(a)' = Then[req[a].kind][At(a)]
  BY <1>1, <1>3 DEF At
<1>5. Staged(a)'
  BY <1>1, <1>2, <1>3 DEF Staged
<1>6. QED
  BY <1>1, <1>2, <1>3, <1>4, <1>5 DEF Proceed, Rowed

LEMMA Ending ==
  ASSUME Rowed, NEW a \in Attempts, End(a)
  PROVE  /\ At(a)' = "done" /\ todo'[a] = <<>> /\ held'[a] = {}
         /\ note'[a] = NoNote /\ note' \in [Attempts -> Notes]
         /\ DOMAIN todo' = Attempts /\ DOMAIN held' = Attempts
         /\ req' = req
         /\ \A b \in Attempts \ {a} : /\ todo'[b] = todo[b]
                                      /\ held'[b] = held[b]
                                      /\ note'[b] = note[b]
<1>1. NoNote \in Notes
  BY DEF NoNote, Notes
<1>2. QED
  BY <1>1 DEF End, Rowed, At

\* Whoever is done holds nothing.
LEMMA NothingTaken ==
  ASSUME NEW a \in Attempts, At(a) = "done"
  PROVE  Rows(a) = {}
BY DEF Rows, InTurn, InOrder, InOther, InCash, InSettings, Wrote

LEMMA RowsAre ==
  ASSUME NEW a \in Attempts, NEW l
  PROVE  l \in Rows(a) <=>
           \/ l = <<Restaurant, "update">> /\ InTurn(a)
           \/ l = <<OrderRow(First(req[a])), "update">> /\ InOrder(a)
           \/ l = <<OrderRow(Second(req[a])), "update">> /\ InOther(a)
           \/ l = <<CashRow(note[a].cash), "update">> /\ InCash(a)
           \/ l = <<Settings, "update">> /\ InSettings(a)
           \/ l = <<Restaurant, "share">> /\ Wrote(a)
           \/ /\ l = <<OrderRow(req[a].order), "share">>
              /\ Wrote(a) /\ Is(a, "issue")
BY DEF Rows

\* What two attempts have taken.
LEMMA Apart ==
  ASSUME Exclusive, NEW a \in Attempts, NEW b \in Attempts, a # b,
         Holding(a), Holding(b)
  PROVE  /\ ~(InTurn(a) /\ InTurn(b))
         /\ InOrder(a) /\ InOrder(b) => First(req[a]) # First(req[b])
         /\ InOrder(a) /\ InOther(b) => First(req[a]) # Second(req[b])
         /\ InOther(a) /\ InOther(b) => Second(req[a]) # Second(req[b])
         /\ InCash(a) /\ InCash(b) => note[a].cash # note[b].cash
<1>1. \A g \in held[a], h \in held[b] : ~(g[1] = h[1] /\ g[2] = "update")
  BY DEF Exclusive, Conflict
<1> DEFINE has(c) ==
             /\ InTurn(c) => <<Restaurant, "update">> \in held[c]
             /\ InOrder(c) => <<OrderRow(First(req[c])), "update">> \in held[c]
             /\ InOther(c) => <<OrderRow(Second(req[c])), "update">> \in held[c]
             /\ InCash(c) => <<CashRow(note[c].cash), "update">> \in held[c]
<1>2. \A c \in {a, b} : has(c)
  BY RowsAre DEF Holding
<1>3. QED
  BY <1>1, <1>2

\* A granted statement takes nothing that others have.
LEMMA StaysExclusive ==
  ASSUME Exclusive, NEW a \in Attempts,
         \/ Granted(a) /\ held'[a] = held[a] \cup Wanted(a)
         \/ held'[a] = {},
         \A b \in Attempts \ {a} : held'[b] = held[b]
  PROVE  Exclusive'
<1>1. ASSUME NEW b \in Attempts, b # a, NEW g \in held'[a], NEW h \in held[b]
      PROVE  ~Conflict(g, h)
  BY <1>1 DEF Exclusive, Granted, Waits
<1>2. \A g, h : Conflict(g, h) <=> Conflict(h, g)
  BY DEF Conflict
<1>3. QED
  BY <1>1, <1>2 DEF Exclusive

-----------------------------------------------------------------------------
(* Statements leave the database as it was. *)

LEMMA SameDatabase ==
  ASSUME UNCHANGED db
  PROVE  /\ \A o : /\ Balance(o)' = Balance(o) /\ IsActive(o)' = IsActive(o)
                   /\ PaymentsOf(o)' = PaymentsOf(o)
                   /\ Reopened(o)' = Reopened(o) /\ Mergeable(o)' = Mergeable(o)
         /\ \A t : ActiveAt(t)' = ActiveAt(t)
         /\ \A s : Taken(s)' = Taken(s)
         /\ OpenSessions' = OpenSessions /\ Live' = Live
         /\ orders' = orders /\ payments' = payments /\ sessions' = sessions
         /\ invoices' = invoices
BY DEF db, Balance, PaymentsOf, IsActive, Reopened, Mergeable, ActiveAt,
       Taken, InSession, OpenSessions, Live

\* What an attempt knows depends on itself and the database.
LEMMA KnowsStays ==
  ASSUME UNCHANGED db, NEW b \in Attempts, Personal(b), Asked(b)',
         req'[b] = req[b], todo'[b] = todo[b], held'[b] = held[b],
         note'[b] = note[b]
  PROVE  Personal(b)' /\ At(b)' = At(b)
<1>1. At(b)' = At(b)
  BY DEF At
<1>2. Staged(b)'
  BY <1>1 DEF Personal, Staged
<1>3. Holding(b)'
  BY <1>1 DEF Personal, Holding, Rows, InTurn, InOrder, InOther, InCash,
              InSettings, Wrote, Is
<1>4. KnowsSeat(b)' /\ KnowsBill(b)'
  BY <1>1, SameDatabase DEF Personal, KnowsSeat, KnowsBill
<1>5. KnowsCash(b)'
  BY <1>1, SameDatabase DEF Personal, KnowsCash, InCash
<1>6. Charged(b)' /\ Tapped(b)'
  BY <1>1, SameDatabase DEF Personal, Charged, Tapped
<1>7. QED
  BY <1>1, <1>2, <1>3, <1>4, <1>5, <1>6 DEF Personal

LEMMA Statement ==
  ASSUME IInv, NEW a \in Attempts, UNCHANGED <<db, req>>, todo[a] # <<>>,
         DOMAIN todo' = Attempts, DOMAIN held' = Attempts,
         note' \in [Attempts -> Notes], Exclusive',
         \A b \in Attempts \ {a} : /\ todo'[b] = todo[b] /\ held'[b] = held[b]
                                 /\ note'[b] = note[b],
         Staged(a)', Holding(a)', KnowsSeat(a)', KnowsBill(a)', KnowsCash(a)',
         Opening(a)' => /\ OpenSessions = {}
                        /\ \A b \in Attempts \ {a} : ~Opening(b)
  PROVE  IInv'
<1>1. \A b \in Attempts \ {a} : Personal(b)' /\ At(b)' = At(b)
  <2>1. \A b \in Attempts : Personal(b) /\ Asked(b)'
    BY DEF IInv, Personal, Asked
  <2>2. QED
    BY <2>1, KnowsStays
<1>2. Personal(a)'
  <2>1. Asked(a)'
    BY DEF IInv, Personal, Asked
  <2>2. Charged(a)'
    BY DEF IInv, Personal, Charged, db
  <2>3. Tapped(a)'
    BY SameDatabase DEF IInv, Personal, Tapped
  <2>4. QED
    BY <2>1, <2>2, <2>3 DEF Personal
<1>3. Rowed' /\ Paying'
  BY SameDatabase DEF IInv, Rowed, Paying
<1>4. Owing' /\ Counted' /\ Seated'
  BY SameDatabase DEF IInv, Owing, Counted, Seated
<1>5. OneOpens'
  BY <1>1, SameDatabase DEF IInv, OneOpens, Opening
<1>6. DoubleTapPaysOnce'
  BY SameDatabase DEF IInv, DoubleTapPaysOnce, TwicePaid, GrewBetween
<1>7. QED
  BY <1>1, <1>2, <1>3, <1>4, <1>5, <1>6 DEF IInv

\* A transaction that ends without a commit.
LEMMA EndKeepsInv ==
  ASSUME IInv, NEW a \in Attempts, todo[a] # <<>>, End(a), UNCHANGED db
  PROVE  IInv'
<1>1. Rowed
  BY DEF IInv
<1>2. /\ At(a)' = "done" /\ todo'[a] = <<>> /\ held'[a] = {}
      /\ note'[a] = NoNote /\ note' \in [Attempts -> Notes]
      /\ DOMAIN todo' = Attempts /\ DOMAIN held' = Attempts /\ req' = req
      /\ \A b \in Attempts \ {a} : /\ todo'[b] = todo[b] /\ held'[b] = held[b]
                                 /\ note'[b] = note[b]
  BY <1>1, Ending
<1>3. Exclusive'
  BY <1>2, StaysExclusive DEF IInv
<1>4. Staged(a)' /\ Holding(a)' /\ ~Opening(a)'
  BY <1>2 DEF Staged, Holding, Rows, InTurn, InOrder, InOther, InCash,
              InSettings, Wrote, Opening
<1>5. KnowsSeat(a)' /\ KnowsBill(a)' /\ KnowsCash(a)'
  BY <1>2 DEF KnowsSeat, KnowsBill, KnowsCash, InCash
<1>6. QED
  BY <1>2, <1>3, <1>4, <1>5, Statement

\* A statement that goes through.
LEMMA ProceedKeepsInv ==
  ASSUME IInv, NEW a \in Attempts, NEW step, step \notin {"done", "commit"},
         Doing(a, step), NEW n \in Notes, Proceed(a, n),
         Rows(a)' = Rows(a) \cup Wanted(a),
         KnowsSeat(a)', KnowsBill(a)', KnowsCash(a)',
         Opening(a)' => /\ OpenSessions = {}
                        /\ \A b \in Attempts \ {a} : ~Opening(b)
  PROVE  IInv'
<1>1. /\ Rowed /\ Staged(a) /\ Holding(a) /\ Exclusive
      /\ todo[a] # <<>> /\ At(a) # "commit"
  BY DoingIsAt DEF IInv, Personal, Doing
<1>2. UNCHANGED <<db, req>> /\ Granted(a)
  BY DEF Proceed
<1>3. /\ Staged(a)' /\ held'[a] = held[a] \cup Wanted(a)
      /\ note' \in [Attempts -> Notes]
      /\ DOMAIN todo' = Attempts /\ DOMAIN held' = Attempts
      /\ \A b \in Attempts \ {a} : /\ todo'[b] = todo[b] /\ held'[b] = held[b]
                                 /\ note'[b] = note[b]
  BY <1>1, Proceeding
<1>4. Exclusive'
  BY <1>1, <1>2, <1>3, StaysExclusive
<1>5. Holding(a)'
  BY <1>1, <1>3 DEF Holding
<1>6. QED
  BY <1>1, <1>2, <1>3, <1>4, <1>5, Statement

\* Where a statement leaves an attempt.
LEMMA Onwards ==
  ASSUME IInv, NEW a \in Attempts, NEW step, step \notin {"done", "commit"},
         Doing(a, step), NEW n \in Notes, Proceed(a, n)
  PROVE  /\ req[a].kind \in Kinds /\ req[a].kind # "none"
         /\ At(a) = step /\ At(a)' = Then[req[a].kind][step]
         /\ note'[a] = n /\ req' = req /\ UNCHANGED db
         /\ Makes(req[a].kind, step)
         /\ note[a] \in Notes /\ Asked(a) /\ req[a] \in Asks
<1>1. /\ Rowed /\ Staged(a) /\ Asked(a)
      /\ todo[a] # <<>> /\ At(a) # "commit" /\ At(a) = step
  BY DoingIsAt DEF IInv, Personal, Doing
<1>2. Makes(req[a].kind, step)
  BY <1>1, TailsFollow DEF Staged, Doing
<1>3. QED
  BY <1>1, <1>2, Proceeding DEF Proceed, Staged, Doing, Kinds, Rowed

\* The rows each statement takes.
LEMMA WantedIs ==
  ASSUME NEW a \in Attempts, NEW step, Doing(a, step)
  PROVE  /\ step = "turn" => Wanted(a) = {<<Restaurant, "update">>}
         /\ step = "order"
              => Wanted(a) = {<<OrderRow(First(req[a])), "update">>}
         /\ step = "other"
              => Wanted(a) = {<<OrderRow(Second(req[a])), "update">>}
         /\ step \in {"cash", "vacant"}
              => Wanted(a) = {<<CashRow(s), "update">> : s \in OpenSessions}
         /\ step = "settings" => Wanted(a) = {<<Settings, "update">>}
         /\ step = "write" =>
              Wanted(a) = {<<Restaurant, "share">>}
                \cup (IF Is(a, "issue")
                        THEN {<<OrderRow(req[a].order), "share">>} ELSE {})
         /\ step \in {"seat", "count", "invoiced", "paid", "sunat", "commit"}
              => Wanted(a) = {}
BY DEF Wanted, Doing, TurnMode, OrderMode, CashMode

LEMMA TakeTurnKeepsInv ==
  ASSUME IInv, NEW a \in Attempts, TakeTurn(a)
  PROVE  IInv'
<1>1. Doing(a, "turn") /\ Proceed(a, note[a]) /\ note[a] \in Notes
  BY DEF TakeTurn, IInv, Rowed
<1>2. /\ req[a].kind \in Kinds /\ At(a) = "turn"
      /\ At(a)' = Then[req[a].kind]["turn"]
      /\ note'[a] = note[a] /\ req' = req /\ Makes(req[a].kind, "turn")
  BY <1>1, Onwards
<1>3. \/ req[a].kind = "open" /\ At(a)' = "seat"
      \/ req[a].kind = "move" /\ At(a)' = "order"
  BY <1>2 DEF Makes, Then
<1>4. Wanted(a) = {<<Restaurant, "update">>}
  BY <1>1, WantedIs
<1>5. Rows(a)' = Rows(a) \cup Wanted(a)
  BY <1>2, <1>3, <1>4 DEF Rows, InTurn, InOrder, InOther, InCash, InSettings,
                          Wrote, Is
<1>6. KnowsSeat(a)' /\ KnowsBill(a)' /\ KnowsCash(a)' /\ ~Opening(a)'
  BY <1>2, <1>3 DEF KnowsSeat, KnowsBill, KnowsCash, InCash, Opening
<1>7. QED
  BY <1>1, <1>5, <1>6, ProceedKeepsInv

-----------------------------------------------------------------------------
(* Money. *)

Amounts == [b \in Bills |-> payments[b].amount]

LEMMA SumsAre ==
  ASSUME Rowed, Paying, NEW S \in SUBSET Live
  PROVE  /\ IsFiniteSet(S)
         /\ SumOf([b \in S |-> payments[b].amount]) = SumOn(Amounts, S)
         /\ SumOn(Amounts, S) \in Int
<1> DEFINE f == [b \in S |-> payments[b].amount]
<1>1. SumOf(f) = SumOn(f, S)
  <2>1. \A g : SumOf(g) = SumOn(g, DOMAIN g)
    BY FoldIsSum DEF SumOf
  <2>2. QED
    BY <2>1
<1>2. IsFiniteSet(S)
  BY FS_Subset DEF Paying
<1>3. \A b \in S : f[b] = Amounts[b] /\ Amounts[b] \in Int
  BY DEF Amounts, Live, Rowed
<1>4. SumOn(f, S) = SumOn(Amounts, S)
  <2> HIDE DEF f
  <2> QED
    BY <1>2, <1>3, SumsAgree
<1>5. SumOn(Amounts, S) \in Int
  BY <1>2, <1>3, SumIsInt
<1>6. QED
  BY <1>1, <1>2, <1>4, <1>5

LEMMA BalanceIs ==
  ASSUME Rowed, Paying, NEW o \in Orders
  PROVE  /\ IsFiniteSet(PaymentsOf(o)) /\ PaymentsOf(o) \subseteq Live
         /\ Balance(o) = orders[o].bill - SumOn(Amounts, PaymentsOf(o))
         /\ Balance(o) \in Int
<1>1. PaymentsOf(o) \in SUBSET Live
  BY DEF PaymentsOf, Live
<1>2. orders[o].bill \in Int
  BY DEF Rowed
<1>3. QED
  BY <1>1, <1>2, SumsAre DEF Balance

LEMMA TakenIs ==
  ASSUME Rowed, Paying, NEW s \in Sessions
  PROVE  /\ IsFiniteSet(InSession(s)) /\ InSession(s) \subseteq Live
         /\ Taken(s) = SumOn(Amounts, InSession(s))
         /\ Taken(s) \in Int
<1>1. InSession(s) \in SUBSET Live
  BY DEF InSession, Live
<1>2. QED
  BY <1>1, SumsAre DEF Taken

-----------------------------------------------------------------------------
(* Each statement keeps the invariant. *)

LEMMA RefuseKeepsInv ==
  ASSUME IInv, NEW a \in Attempts, NEW step, Doing(a, step), Refuse(a)
  PROVE  IInv'
BY EndKeepsInv DEF Refuse, Doing

LEMMA TakeOrderKeepsInv ==
  ASSUME IInv, NEW a \in Attempts, TakeOrder(a)
  PROVE  IInv'
<1>1. Doing(a, "order") /\ note[a] \in Notes /\ Rowed /\ Paying
  BY DEF TakeOrder, IInv, Rowed
<1>2. Wanted(a) = {<<OrderRow(First(req[a])), "update">>}
  BY <1>1, WantedIs
<1>3. ASSUME NEW n \in Notes, Proceed(a, n)
      PROVE  /\ At(a) = "order" /\ At(a)' = Then[req[a].kind]["order"]
             /\ note'[a] = n /\ req' = req /\ UNCHANGED db
             /\ req[a].kind \in Kinds /\ Makes(req[a].kind, "order")
             /\ req[a].order \in Orders
             /\ Rows(a)' = Rows(a) \cup Wanted(a) /\ ~Opening(a)'
  <2>1. /\ At(a) = "order" /\ At(a)' = Then[req[a].kind]["order"]
        /\ note'[a] = n /\ req' = req /\ Makes(req[a].kind, "order")
        /\ UNCHANGED db /\ req[a].kind \in Kinds /\ Asked(a)
    BY <1>1, <1>3, Onwards
  <2>2. \/ req[a].kind = "move" /\ At(a)' = "seat"
        \/ req[a].kind = "merge" /\ At(a)' = "other"
        \/ req[a].kind = "charge" /\ At(a)' = "cash"
        \/ req[a].kind = "void" /\ At(a)' = "invoiced"
        \/ req[a].kind = "add" /\ At(a)' = "write"
    BY <2>1 DEF Makes, Then
  <2>3. req[a].order \in Orders
    BY <2>1, <2>2 DEF Asked, Sensible
  <2>4. Rows(a)' = Rows(a) \cup Wanted(a)
    BY <1>2, <2>1, <2>2 DEF Rows, InTurn, InOrder, InOther, InCash, InSettings,
                            Wrote, Is
  <2>5. QED
    BY <2>1, <2>2, <2>3, <2>4 DEF Opening
<1>4. CASE Is(a, "charge") /\ Chargeable(req[a])
             /\ Proceed(a, [note[a] EXCEPT !.balance = Balance(req[a].order)])
  <2> DEFINE n == [note[a] EXCEPT !.balance = Balance(req[a].order)]
  <2>1. req[a].order \in Orders
    BY <1>1, <1>4 DEF IInv, Personal, Asked, Sensible, Is
  <2>2. n \in Notes /\ n.balance = Balance(req[a].order)
    BY <1>1, <2>1, BalanceIs DEF Notes
  <2>3. /\ At(a)' = "cash" /\ note'[a] = n /\ req' = req /\ UNCHANGED db
        /\ Rows(a)' = Rows(a) \cup Wanted(a) /\ ~Opening(a)'
    BY <1>3, <1>4, <2>2 DEF Then, Is
  <2>4. KnowsSeat(a)' /\ KnowsCash(a)'
    BY <1>4, <2>3 DEF KnowsSeat, KnowsCash, InCash, Is
  <2>5. KnowsBill(a)'
    <3> HIDE DEF n
    <3> QED
      BY <1>4, <2>2, <2>3, SameDatabase DEF KnowsBill, Is, Chargeable
  <2>6. QED
    BY <1>1, <1>4, <2>2, <2>3, <2>4, <2>5, ProceedKeepsInv
<1>5. ASSUME Is(a, "void"), NEW b \in PaymentsOf(req[a].order),
             Proceed(a, [note[a] EXCEPT !.payment = b])
      PROVE  IInv'
  <2> DEFINE n == [note[a] EXCEPT !.payment = b]
  <2>1. n \in Notes /\ n.payment = b
    BY <1>1 DEF Notes, PaymentsOf
  <2>2. /\ At(a)' = "invoiced" /\ note'[a] = n /\ req' = req /\ UNCHANGED db
        /\ Rows(a)' = Rows(a) \cup Wanted(a) /\ ~Opening(a)'
    BY <1>3, <1>5, <2>1 DEF Then, Is
  <2>3. KnowsSeat(a)' /\ KnowsCash(a)'
    BY <1>5, <2>2 DEF KnowsSeat, KnowsCash, InCash, Is
  <2>4. KnowsBill(a)'
    <3> HIDE DEF n
    <3> QED
      BY <1>5, <2>1, <2>2, SameDatabase DEF KnowsBill, Is
  <2>5. QED
    BY <1>1, <1>5, <2>1, <2>2, <2>3, <2>4, ProceedKeepsInv
<1>6. CASE Is(a, "move") /\ IsActive(req[a].order) /\ Proceed(a, note[a])
  <2>1. /\ At(a)' = "seat" /\ note'[a] = note[a] /\ req' = req /\ UNCHANGED db
        /\ Rows(a)' = Rows(a) \cup Wanted(a) /\ ~Opening(a)'
    BY <1>1, <1>3, <1>6 DEF Then, Is
  <2>2. KnowsBill(a)' /\ KnowsCash(a)'
    BY <1>6, <2>1 DEF KnowsBill, KnowsCash, InCash, Is
  <2>3. KnowsSeat(a)'
    BY <1>6, <2>1, SameDatabase DEF KnowsSeat, Is
  <2>4. QED
    BY <1>1, <1>6, <2>1, <2>2, <2>3, ProceedKeepsInv
<1>7. CASE Is(a, "merge") /\ Proceed(a, note[a])
  <2>1. /\ At(a)' = "other" /\ note'[a] = note[a] /\ req' = req /\ UNCHANGED db
        /\ Rows(a)' = Rows(a) \cup Wanted(a) /\ ~Opening(a)'
    BY <1>1, <1>3, <1>7 DEF Then, Is
  <2>2. KnowsSeat(a)' /\ KnowsBill(a)' /\ KnowsCash(a)'
    BY <1>7, <2>1 DEF KnowsSeat, KnowsBill, KnowsCash, InCash, Is
  <2>3. QED
    BY <1>1, <1>7, <2>1, <2>2, ProceedKeepsInv
<1>8. CASE Is(a, "add") /\ IsActive(req[a].order) /\ Proceed(a, note[a])
  <2>1. /\ At(a)' = "write" /\ note'[a] = note[a] /\ req' = req /\ UNCHANGED db
        /\ Rows(a)' = Rows(a) \cup Wanted(a) /\ ~Opening(a)'
    BY <1>1, <1>3, <1>8 DEF Then, Is
  <2>2. KnowsBill(a)' /\ KnowsCash(a)'
    BY <1>8, <2>1 DEF KnowsBill, KnowsCash, InCash, Is
  <2>3. KnowsSeat(a)'
    BY <1>8, <2>1, SameDatabase DEF KnowsSeat, Is
  <2>4. QED
    BY <1>1, <1>8, <2>1, <2>2, <2>3, ProceedKeepsInv
<1>9. QED
  BY <1>1, <1>4, <1>5, <1>6, <1>7, <1>8, RefuseKeepsInv DEF TakeOrder

LEMMA TakeOtherKeepsInv ==
  ASSUME IInv, NEW a \in Attempts, TakeOther(a)
  PROVE  IInv'
<1>1. Doing(a, "other") /\ note[a] \in Notes
  BY DEF TakeOther, IInv, Rowed
<1>2. CASE /\ Mergeable(req[a].order) /\ Mergeable(req[a].other)
           /\ Proceed(a, note[a])
  <2>1. /\ At(a) = "other" /\ req[a].kind = "merge" /\ At(a)' = "write"
        /\ note'[a] = note[a] /\ req' = req /\ UNCHANGED db
    BY <1>1, <1>2, Onwards DEF Makes, Then
  <2>2. Wanted(a) = {<<OrderRow(Second(req[a])), "update">>}
    BY <1>1, WantedIs
  <2>3. Rows(a)' = Rows(a) \cup Wanted(a)
    BY <2>1, <2>2 DEF Rows, InTurn, InOrder, InOther, InCash, InSettings,
                      Wrote, Is
  <2>4. KnowsSeat(a)' /\ KnowsCash(a)' /\ ~Opening(a)'
    BY <2>1 DEF KnowsSeat, KnowsCash, InCash, Opening
  <2>5. KnowsBill(a)'
    BY <1>2, <2>1, SameDatabase DEF KnowsBill
  <2>6. QED
    BY <1>1, <1>2, <2>3, <2>4, <2>5, ProceedKeepsInv
<1>3. QED
  BY <1>1, <1>2, RefuseKeepsInv DEF TakeOther

\* Finitely many orders have a last number.
LEMMA LastNumberIs ==
  ASSUME Rowed
  PROVE  LastNumber \in Nat /\ \A o \in Orders : orders[o].number <= LastNumber
<1> DEFINE numbers == {0} \cup {orders[o].number : o \in Orders}
           over == {n \in Nat : \A o \in Orders : orders[o].number <= n}
           Good == {T \in SUBSET Orders :
                      \E n \in Nat : \A o \in T : orders[o].number <= n}
<1>1. \A o \in Orders : orders[o].number \in Nat
  BY DEF Rowed
<1>2. ASSUME NEW T \in SUBSET Orders, \A x \in T : T \ {x} \in Good
      PROVE  T \in Good
  <2>1. CASE T = {}
    BY <2>1
  <2>2. CASE T # {}
    <3>1. PICK x \in T : TRUE
      BY <2>2
    <3>2. PICK n \in Nat : \A o \in T \ {x} : orders[o].number <= n
      BY <1>2
    <3> DEFINE m == IF orders[x].number <= n THEN n ELSE orders[x].number
    <3>3. m \in Nat /\ n <= m /\ orders[x].number <= m
      BY <1>1
    <3>4. \A o \in T : orders[o].number <= m
      <4> HIDE DEF m
      <4> QED
        BY <1>1, <3>2, <3>3
    <3>5. QED
      <4> HIDE DEF m
      <4> QED
        BY <3>3, <3>4
  <2>3. QED
    BY <2>1, <2>2
<1>3. over # {}
  <2>1. \A T \in SUBSET Orders : T \in Good
    <3> HIDE DEF Good
    <3> QED
      BY <1>2, SubsetInduction, TransactionsAssumption
  <2>2. QED
    BY <2>1
<1>4. PICK n \in over : \A m \in over : n <= m
  <2>1. over \in SUBSET Nat
    OBVIOUS
  <2>2. QED
    <3> HIDE DEF over
    <3> QED
      BY <1>3, <2>1, LeastExists
<1>5. n \in numbers
  <2>1. CASE n = 0
    BY <2>1
  <2>2. CASE n # 0
    <3>1. n - 1 \in Nat /\ ~(n <= n - 1)
      BY <2>2
    <3>2. n - 1 \notin over
      BY <1>4, <3>1
    <3>3. PICK o \in Orders : ~(orders[o].number <= n - 1)
      BY <3>1, <3>2
    <3>4. orders[o].number = n
      BY <1>1, <1>4, <3>3
    <3>5. QED
      BY <3>4
  <2>3. QED
    BY <2>1, <2>2
<1>6. /\ LastNumber \in numbers
      /\ \A o \in Orders : orders[o].number <= LastNumber
  <2>1. LastNumber = CHOOSE m \in numbers : \A o \in Orders : orders[o].number <= m
    BY DEF LastNumber
  <2> HIDE DEF numbers
  <2>2. QED
    BY <1>4, <1>5, <2>1
<1>7. QED
  BY <1>1, <1>6

LEMMA FindSeatKeepsInv ==
  ASSUME IInv, NEW a \in Attempts, FindSeat(a)
  PROVE  IInv'
<1>1. Doing(a, "seat") /\ note[a] \in Notes /\ Rowed
  BY DEF FindSeat, IInv, Rowed
<1> DEFINE n == [note[a] EXCEPT !.number = LastNumber + 1]
<1>2. /\ n \in Notes /\ n.number = LastNumber + 1 /\ LastNumber \in Nat
      /\ \A o \in Orders : orders[o].number < n.number
  <2>1. LastNumber \in Nat /\ \A o \in Orders : orders[o].number <= LastNumber
    BY <1>1, LastNumberIs
  <2>2. \A o \in Orders : orders[o].number \in Nat
    BY <1>1 DEF Rowed
  <2>3. n \in Notes /\ n.number = LastNumber + 1
    BY <1>1, <2>1 DEF Notes
  <2>4. QED
    BY <2>1, <2>2, <2>3
<1> HIDE DEF n
<1>3. CASE /\ ~Opened(req[a]) /\ ActiveAt(req[a].table) \ {req[a].order} = {}
           /\ Proceed(a, n)
  <2>1. /\ At(a) = "seat" /\ At(a)' = Then[req[a].kind]["seat"]
        /\ req[a].kind \in {"open", "move"}
        /\ note'[a] = n /\ req' = req /\ UNCHANGED db
    BY <1>1, <1>2, <1>3, Onwards DEF Makes
  <2>2. At(a)' = "write"
    BY <2>1 DEF Then
  <2>3. Wanted(a) = {}
    BY <1>1, WantedIs
  <2>4. Rows(a)' = Rows(a) \cup Wanted(a)
    BY <2>1, <2>2, <2>3 DEF Rows, InTurn, InOrder, InOther, InCash, InSettings,
                            Wrote, Is
  <2>5. KnowsBill(a)' /\ KnowsCash(a)' /\ ~Opening(a)'
    BY <2>1 DEF KnowsBill, KnowsCash, InCash, Opening
  <2>6. req[a].kind = "move" => IsActive(req[a].order)
    BY <2>1 DEF IInv, Personal, KnowsSeat
  <2>7. KnowsSeat(a)'
    <3>1. ActiveAt(req[a].table)' = ActiveAt(req[a].table)
      BY <2>1, SameDatabase
    <3>2. req[a].kind = "open" =>
            \A o \in Orders : orders[o].key # req[a].key
      BY <1>3 DEF Opened
    <3>3. orders' = orders
      BY <2>1 DEF db
    <3>4. req[a].kind = "move" => IsActive(req[a].order)'
      BY <2>1, <2>6, SameDatabase
    <3>5. QED
      BY <1>2, <1>3, <2>1, <3>1, <3>2, <3>3, <3>4 DEF KnowsSeat
  <2>8. QED
    BY <1>1, <1>2, <1>3, <2>4, <2>5, <2>7, ProceedKeepsInv
<1>4. QED
  BY <1>1, <1>3, RefuseKeepsInv DEF FindSeat, n

LEMMA TakeCashKeepsInv ==
  ASSUME IInv, NEW a \in Attempts, TakeCash(a)
  PROVE  IInv'
<1>1. Doing(a, "cash") /\ note[a] \in Notes
  BY DEF TakeCash, IInv, Rowed
<1>2. ASSUME NEW s \in OpenSessions, SameShift(a, s),
             Proceed(a, [note[a] EXCEPT !.cash = s])
      PROVE  IInv'
  <2> DEFINE n == [note[a] EXCEPT !.cash = s]
  <2>1. n \in Notes /\ n.cash = s /\ n.payment = note[a].payment
    BY <1>1 DEF Notes, OpenSessions
  <2> HIDE DEF n
  <2>2. /\ At(a) = "cash" /\ At(a)' = Then[req[a].kind]["cash"]
        /\ req[a].kind \in {"charge", "void", "close"}
        /\ note'[a] = n /\ req' = req /\ UNCHANGED db
    BY <1>1, <1>2, <2>1, Onwards DEF Makes, n
  <2>3. \/ req[a].kind \in {"charge", "void"} /\ At(a)' = "write"
        \/ req[a].kind = "close" /\ At(a)' = "count"
    BY <2>2 DEF Then
  <2>4. Wanted(a) = {<<CashRow(s), "update">>}
    <3>1. OpenSessions = {s}
      BY <1>2 DEF IInv, OneOpens
    <3>2. Wanted(a) = {<<CashRow(r), "update">> : r \in OpenSessions}
      BY <1>1, WantedIs
    <3>3. QED
      BY <3>1, <3>2
  <2>5. Rows(a)' = Rows(a) \cup Wanted(a)
    BY <2>1, <2>2, <2>3, <2>4 DEF Rows, InTurn, InOrder, InOther, InCash,
                                  InSettings, Wrote, Is
  <2>6. KnowsSeat(a)' /\ ~Opening(a)'
    BY <2>2 DEF KnowsSeat, Opening
  <2>7. KnowsBill(a)'
    <3>1. KnowsBill(a)
      BY DEF IInv, Personal
    <3>2. n.balance = note[a].balance
      BY <1>1 DEF Notes, n
    <3>3. QED
      BY <2>1, <2>2, <2>3, <3>1, <3>2, SameDatabase DEF KnowsBill
  <2>8. KnowsCash(a)'
    BY <1>2, <2>1, <2>2, <2>3, SameDatabase DEF KnowsCash, InCash, SameShift, Is
  <2>9. QED
    BY <1>1, <1>2, <2>1, <2>5, <2>6, <2>7, <2>8, ProceedKeepsInv DEF n
<1>3. QED
  BY <1>1, <1>2, RefuseKeepsInv DEF TakeCash

LEMMA FindNoCashKeepsInv ==
  ASSUME IInv, NEW a \in Attempts, FindNoCash(a)
  PROVE  IInv'
<1>1. Doing(a, "vacant") /\ note[a] \in Notes
  BY DEF FindNoCash, IInv, Rowed
<1>2. CASE OpenSessions = {} /\ Proceed(a, note[a])
  <2>1. /\ At(a) = "vacant" /\ At(a)' = "write" /\ req[a].kind = "opencash"
        /\ note'[a] = note[a] /\ req' = req /\ UNCHANGED db
    BY <1>1, <1>2, Onwards DEF Makes, Then
  <2>2. Wanted(a) = {}
    BY <1>1, <1>2, WantedIs
  <2>3. Rows(a)' = Rows(a) \cup Wanted(a)
    BY <2>1, <2>2 DEF Rows, InTurn, InOrder, InOther, InCash, InSettings,
                      Wrote, Is
  <2>4. KnowsSeat(a)' /\ KnowsBill(a)' /\ KnowsCash(a)' /\ ~Opening(a)'
    BY <2>1 DEF KnowsSeat, KnowsBill, KnowsCash, InCash, Opening
  <2>5. QED
    BY <1>1, <1>2, <2>3, <2>4, ProceedKeepsInv
<1>3. QED
  BY <1>1, <1>2, RefuseKeepsInv DEF FindNoCash

LEMMA CountCashKeepsInv ==
  ASSUME IInv, NEW a \in Attempts, CountCash(a)
  PROVE  IInv'
<1>1. Doing(a, "count") /\ note[a] \in Notes /\ Rowed /\ Paying
  BY DEF CountCash, IInv, Rowed
<1> DEFINE n == [note[a] EXCEPT !.taken = Taken(note[a].cash)]
<1>2. At(a) = "count" /\ req[a].kind = "close" /\ note[a].cash \in OpenSessions
  <2>1. Staged(a) /\ KnowsCash(a) /\ At(a) = "count" /\ todo[a] # <<>>
    BY <1>1, DoingIsAt DEF IInv, Personal, Doing
  <2>2. req[a].kind = "close"
    BY <1>1, <2>1, TailsFollow DEF Staged, Makes, Doing
  <2>3. QED
    BY <2>1, <2>2 DEF KnowsCash, InCash
<1>3. n \in Notes /\ n.taken = Taken(note[a].cash) /\ n.cash = note[a].cash
  <2>1. Taken(note[a].cash) \in Int
    BY <1>1, <1>2, TakenIs DEF OpenSessions
  <2>2. QED
    BY <1>1, <2>1 DEF Notes
<1> HIDE DEF n
<1>4. /\ At(a)' = "write" /\ note'[a] = n /\ req' = req /\ UNCHANGED db
      /\ Proceed(a, n)
  BY <1>1, <1>2, <1>3, Onwards DEF Then, CountCash, n
<1>5. Rows(a)' = Rows(a) \cup Wanted(a)
  <2>1. Wanted(a) = {}
    BY <1>1, WantedIs
  <2>2. QED
    BY <1>2, <1>3, <1>4, <2>1 DEF Rows, InTurn, InOrder, InOther, InCash,
                                  InSettings, Wrote, Is
<1>6. KnowsSeat(a)' /\ KnowsBill(a)' /\ ~Opening(a)'
  BY <1>2, <1>4 DEF KnowsSeat, KnowsBill, Opening
<1>7. KnowsCash(a)'
  BY <1>2, <1>3, <1>4, SameDatabase DEF KnowsCash, InCash
<1>8. QED
  BY <1>1, <1>3, <1>4, <1>5, <1>6, <1>7, ProceedKeepsInv

\* Statements that take no part in what is known.
LEMMA LookKeepsInv ==
  ASSUME IInv, NEW a \in Attempts, AskInvoice(a) \/ ReadPaid(a)
  PROVE  IInv'
<1>1. note[a] \in Notes
  BY DEF IInv, Rowed
<1>2. ASSUME NEW step \in {"invoiced", "paid"}, Doing(a, step),
             Proceed(a, note[a])
      PROVE  IInv'
  <2>1. /\ At(a) = step /\ At(a)' = Then[req[a].kind][step]
        /\ Makes(req[a].kind, step) /\ note'[a] = note[a] /\ req' = req
        /\ UNCHANGED db
    BY <1>1, <1>2, Onwards
  <2>2. \/ req[a].kind = "void" /\ At(a) = "invoiced" /\ At(a)' = "cash"
        \/ req[a].kind = "issue" /\ At(a) = "paid" /\ At(a)' = "settings"
    BY <2>1 DEF Makes, Then
  <2>3. Wanted(a) = {}
    BY <1>2, WantedIs
  <2>4. Rows(a)' = Rows(a) \cup Wanted(a)
    BY <2>1, <2>2, <2>3 DEF Rows, InTurn, InOrder, InOther, InCash, InSettings,
                            Wrote, Is
  <2>5. KnowsSeat(a)' /\ KnowsCash(a)' /\ ~Opening(a)'
    BY <2>1, <2>2 DEF KnowsSeat, KnowsCash, InCash, Opening
  <2>6. KnowsBill(a)'
    <3>1. KnowsBill(a)
      BY DEF IInv, Personal
    <3>2. QED
      BY <2>1, <2>2, <3>1, SameDatabase DEF KnowsBill
  <2>7. QED
    BY <1>1, <1>2, <2>4, <2>5, <2>6, ProceedKeepsInv
<1>3. QED
  BY <1>2, RefuseKeepsInv DEF AskInvoice, ReadPaid

LEMMA IssuingKeepsInv ==
  ASSUME IInv, NEW a \in Attempts, TakeSettings(a) \/ Sunat(a)
  PROVE  IInv'
<1>1. note[a] \in Notes
  BY DEF IInv, Rowed
<1>2. PICK step \in {"settings", "sunat"} : Doing(a, step) /\ Proceed(a, note[a])
  BY DEF TakeSettings, Sunat
<1>3. /\ At(a) = step /\ At(a)' = Then[req[a].kind][step]
      /\ Makes(req[a].kind, step) /\ note'[a] = note[a] /\ req' = req
  BY <1>1, <1>2, Onwards
<1>4. \/ /\ step = "settings" /\ At(a)' = "write"
         /\ Wanted(a) = {<<Settings, "update">>}
      \/ step = "sunat" /\ At(a)' = "commit" /\ Wanted(a) = {}
  BY <1>2, <1>3, WantedIs DEF Makes, Then
<1>5. req[a].kind = "issue"
  BY <1>3 DEF Makes
<1>6. Rows(a)' = Rows(a) \cup Wanted(a)
  BY <1>3, <1>4, <1>5 DEF Rows, InTurn, InOrder, InOther, InCash, InSettings,
                          Wrote, Is
<1>7. KnowsSeat(a)' /\ KnowsBill(a)' /\ KnowsCash(a)' /\ ~Opening(a)'
  BY <1>3, <1>5 DEF KnowsSeat, KnowsBill, KnowsCash, InCash, Opening
<1>8. QED
  BY <1>1, <1>2, <1>6, <1>7, ProceedKeepsInv

LEMMA WriteKeepsInv ==
  ASSUME IInv, NEW a \in Attempts, Write(a)
  PROVE  IInv'
<1>1. Doing(a, "write") /\ note[a] \in Notes
  BY DEF Write, IInv, Rowed
<1>2. CASE ~Clashes(a) /\ Proceed(a, note[a])
  <2>1. /\ At(a) = "write" /\ At(a)' = Then[req[a].kind]["write"]
        /\ req[a].kind \in Kinds /\ note'[a] = note[a] /\ req' = req
        /\ UNCHANGED db
    BY <1>1, <1>2, Onwards
  <2>2. At(a)' = IF req[a].kind = "issue" THEN "sunat" ELSE "commit"
    BY <2>1 DEF Then, Kinds
  <2>3. Wanted(a) = {<<Restaurant, "share">>}
                      \cup (IF Is(a, "issue")
                              THEN {<<OrderRow(req[a].order), "share">>} ELSE {})
    BY <1>1, WantedIs
  <2>4. Rows(a)' = Rows(a) \cup Wanted(a)
    BY <2>1, <2>2, <2>3 DEF Rows, InTurn, InOrder, InOther, InCash, InSettings,
                            Wrote, Is
  <2>5. KnowsSeat(a) /\ KnowsBill(a) /\ KnowsCash(a)
    BY DEF IInv, Personal
  <2>6. KnowsSeat(a)'
    <3>1. \A t : ActiveAt(t)' = ActiveAt(t)
      BY <2>1, SameDatabase
    <3>2. \A o : Reopened(o)' = Reopened(o) /\ IsActive(o)' = IsActive(o)
      BY <2>1, SameDatabase
    <3>3. QED
      BY <2>1, <2>2, <2>5, <3>1, <3>2 DEF KnowsSeat, db
  <2>7. KnowsBill(a)'
    BY <2>1, <2>2, <2>5, SameDatabase DEF KnowsBill
  <2>8. KnowsCash(a)'
    BY <2>1, <2>2, <2>5, SameDatabase DEF KnowsCash, InCash
  <2>9. ASSUME Opening(a)'
        PROVE  OpenSessions = {} /\ \A b \in Attempts \ {a} : ~Opening(b)
    <3>1. Is(a, "opencash")
      BY <2>1, <2>9 DEF Opening, Is
    <3>2. OpenSessions = {}
      BY <1>2, <3>1 DEF Clashes
    <3>3. \A b \in Attempts : Opening(b) => Doing(b, "commit")
      BY DoingIsAt DEF Opening, IInv, Personal
    <3>4. QED
      BY <3>1, <3>2, <3>3 DEF Write, SameKeyPending, Opening, Is
  <2>10. QED
    BY <1>1, <1>2, <2>4, <2>6, <2>7, <2>8, <2>9, ProceedKeepsInv
<1>3. QED
  BY <1>1, <1>2, RefuseKeepsInv DEF Write

-----------------------------------------------------------------------------
(* Requests arrive, and arrive again. *)

LEMMA BeginKeepsInv ==
  ASSUME IInv, NEW a \in Attempts, NEW r \in Asks, r.kind \in Kinds, Sensible(r),
         Begin(a, r), r.key = a \/ req[r.key] = r
  PROVE  IInv'
<1>1. /\ req[a] = NoRequest /\ req' = [req EXCEPT ![a] = r]
      /\ todo' = [todo EXCEPT ![a] = Path[r.kind]]
      /\ UNCHANGED <<db, held, note>>
  BY DEF Begin
<1>2. Rowed /\ Personal(a) /\ NoRequest.kind = "none" /\ NoRequest.key = None
  BY DEF IInv, NoRequest
<1>3. todo[a] = <<>> /\ note[a] = NoNote /\ At(a) = "done" /\ held[a] = {}
  BY <1>1, <1>2, NothingTaken DEF Personal, Staged, Kinds, At, Holding
<1>4. /\ req'[a] = r /\ todo'[a] = Path[r.kind] /\ note'[a] = NoNote
      /\ held' = held /\ note' = note /\ DOMAIN todo' = Attempts
      /\ \A b \in Attempts \ {a} : req'[b] = req[b] /\ todo'[b] = todo[b]
  BY <1>1, <1>2, <1>3 DEF Rowed
<1>5. /\ todo'[a] \in Tails[r.kind]
      /\ r.kind \in {"open", "move"} => At(a)' = "turn"
      /\ r.kind \in {"add", "merge", "charge", "void"} => At(a)' = "order"
      /\ r.kind = "opencash" => At(a)' = "vacant"
      /\ r.kind = "close" => At(a)' = "cash"
      /\ r.kind = "issue" => At(a)' = "paid"
  <2>1. /\ Path[r.kind] \in Tails[r.kind] /\ Path[r.kind] # <<>>
        /\ r.kind \in {"open", "move"} => Head(Path[r.kind]) = "turn"
        /\ r.kind \in {"add", "merge", "charge", "void"}
             => Head(Path[r.kind]) = "order"
        /\ r.kind = "opencash" => Head(Path[r.kind]) = "vacant"
        /\ r.kind = "close" => Head(Path[r.kind]) = "cash"
        /\ r.kind = "issue" => Head(Path[r.kind]) = "paid"
    BY DEF Path, Tails, Kinds, MovePath
  <2>2. QED
    BY <1>4, <2>1 DEF At
<1>6. \A b \in Attempts : Asked(b)'
  <2>1. ASSUME NEW b \in Attempts, b # a
        PROVE  Asked(b)'
    <3>1. Asked(b)
      BY DEF IInv, Personal
    <3>2. req[b].key # a
      BY <1>1, <1>2, <3>1, TransactionsAssumption DEF Asked
    <3>3. req[b].key # None => req[b].key \in Attempts
      BY <3>1, <1>2 DEF Asked, Sensible
    <3>4. QED
      BY <1>4, <2>1, <3>1, <3>2, <3>3 DEF Asked
  <2>2. Asked(a)'
    <3>1. r.key \in Attempts
      BY DEF Sensible, Kinds
    <3>2. r.key # a => req'[r.key] = r
      BY <1>4, <3>1
    <3>3. QED
      BY <1>4, <3>2 DEF Asked
  <2>3. QED
    BY <2>1, <2>2
<1>7. \A b \in Attempts \ {a} : Personal(b)' /\ At(b)' = At(b)
  BY <1>1, <1>4, <1>6, KnowsStays DEF IInv
<1>8. Personal(a)'
  <2>1. Staged(a)'
    BY <1>4, <1>5, TailsFollow DEF Staged
  <2>2. Holding(a)'
    BY <1>3, <1>4, <1>5 DEF Holding, Rows, InTurn, InOrder, InOther, InCash,
                            InSettings, Wrote, Kinds
  <2>3. KnowsSeat(a)' /\ KnowsBill(a)' /\ KnowsCash(a)'
    BY <1>4, <1>5 DEF KnowsSeat, KnowsBill, KnowsCash, InCash, Kinds
  <2>4. payments[a] = NoPayment /\ payments' = payments
    BY <1>1, <1>2 DEF Personal, Charged, db
  <2>5. Charged(a)' /\ Tapped(a)'
    BY <2>4 DEF Charged, Tapped, NoPayment
  <2>6. QED
    BY <1>6, <2>1, <2>2, <2>3, <2>5 DEF Personal
<1>9. Rowed' /\ Paying' /\ Exclusive'
  BY <1>1, <1>4, SameDatabase DEF IInv, Rowed, Paying, Exclusive
<1>10. Owing' /\ Counted' /\ Seated'
  BY <1>1, SameDatabase DEF IInv, Owing, Counted, Seated
<1>11. OneOpens'
  <2>1. ~Opening(a)'
    BY <1>4, <1>5 DEF Opening
  <2>2. \A b \in Attempts \ {a} : Opening(b)' = Opening(b)
    BY <1>4, <1>7 DEF Opening
  <2>3. QED
    BY <1>1, <2>1, <2>2, SameDatabase DEF IInv, OneOpens
<1>12. DoubleTapPaysOnce'
  <2>1. ~payments[a].live /\ payments' = payments
    BY <1>1, <1>2 DEF Personal, Charged, db, NoPayment
  <2>2. QED
    BY <1>4, <2>1 DEF IInv, DoubleTapPaysOnce, TwicePaid, GrewBetween
<1>13. QED
  BY <1>7, <1>8, <1>9, <1>10, <1>11, <1>12 DEF IInv

LEMMA ArriveKeepsInv ==
  ASSUME IInv, NEW a \in Attempts, Arrive(a)
  PROVE  IInv'
<1>1. ASSUME NEW k \in Kinds
      PROVE  /\ Asking(a, k) \in Asks /\ Asking(a, k).kind = k
             /\ Asking(a, k).order = None /\ Asking(a, k).key = a
  <2>1. NoRequest \in Asks /\ NoRequest.order = None
    BY DEF NoRequest, Asks
  <2>2. Request(k) \in Asks /\ Request(k).kind = k /\ Request(k).order = None
    BY <1>1, <2>1 DEF Request, Asks
  <2>3. QED
    BY <1>1, <2>2 DEF Asking, Asks
<1>2. ASSUME NEW k \in Kinds, NEW o \in Orders
      PROVE  /\ About(a, k, o) \in Asks /\ About(a, k, o).kind = k
             /\ About(a, k, o).order = o /\ About(a, k, o).key = a
  BY <1>1 DEF About, Asks
<1>3. /\ \A kind : kind \in Kinds => kind # "none"
      /\ {"open", "add", "move", "merge", "charge", "void", "issue", "opencash",
          "close"} = Kinds
  BY DEF Kinds
<1>4. ASSUME NEW t \in Tables,
             Begin(a, [Asking(a, "open") EXCEPT !.table = t])
      PROVE  IInv'
  <2> DEFINE r == [Asking(a, "open") EXCEPT !.table = t]
  <2>1. r \in Asks /\ r.kind = "open" /\ r.key = a /\ r.table = t /\ r.order = None
    BY <1>1, <1>3 DEF Asks
  <2> HIDE DEF r
  <2>2. Sensible(r)
    BY <1>3, <2>1 DEF Sensible
  <2>3. Begin(a, r)
    BY <1>4 DEF r
  <2>4. QED
    BY <1>3, <2>1, <2>2, <2>3, BeginKeepsInv
<1>5. ASSUME NEW o \in Orders, NEW t \in Tables,
             Begin(a, [About(a, "move", o) EXCEPT !.table = t])
      PROVE  IInv'
  <2> DEFINE r == [About(a, "move", o) EXCEPT !.table = t]
  <2>1. r \in Asks /\ r.kind = "move" /\ r.key = a /\ r.table = t /\ r.order = o
    BY <1>2, <1>3 DEF Asks
  <2> HIDE DEF r
  <2>2. Sensible(r)
    BY <1>3, <2>1 DEF Sensible
  <2>3. Begin(a, r)
    BY <1>5 DEF r
  <2>4. QED
    BY <1>3, <2>1, <2>2, <2>3, BeginKeepsInv
<1>6. ASSUME NEW o \in Orders, NEW q \in Orders,
             Begin(a, [About(a, "merge", o) EXCEPT !.other = q])
      PROVE  IInv'
  <2> DEFINE r == [About(a, "merge", o) EXCEPT !.other = q]
  <2>1. r \in Asks /\ r.kind = "merge" /\ r.key = a /\ r.other = q /\ r.order = o
    BY <1>2, <1>3 DEF Asks
  <2> HIDE DEF r
  <2>2. Begin(a, r)
    BY <1>6 DEF r
  <2>3. Sensible(r)
    BY <1>3, <2>1, <2>2 DEF Sensible, Begin, Meaningful
  <2>4. QED
    BY <1>3, <2>1, <2>2, <2>3, BeginKeepsInv
<1>7. ASSUME NEW kind \in {"add", "charge", "void", "issue"}, NEW o \in Orders,
             Begin(a, About(a, kind, o))
      PROVE  IInv'
  <2>1. Sensible(About(a, kind, o))
    BY <1>2, <1>3 DEF Sensible
  <2>2. QED
    BY <1>2, <1>3, <1>7, <2>1, BeginKeepsInv
<1>8. ASSUME NEW o \in Orders,
             Begin(a, [About(a, "charge", o) EXCEPT !.part = TRUE,
                                                    !.seen = Balance(o)])
      PROVE  IInv'
  <2> DEFINE r == [About(a, "charge", o) EXCEPT !.part = TRUE, !.seen = Balance(o)]
  <2>1. About(a, "charge", o) \in Asks /\ Balance(o) \in Int
    BY <1>2, <1>3, BalanceIs DEF IInv
  <2>2. r \in Asks
    BY <2>1 DEF Asks
  <2>3. r.kind = "charge" /\ r.key = a /\ r.order = o
    BY <1>2, <1>3, <2>1 DEF Asks
  <2> HIDE DEF r
  <2>4. Sensible(r)
    BY <1>3, <2>2, <2>3 DEF Sensible
  <2>5. Begin(a, r)
    BY <1>8 DEF r
  <2>6. QED
    BY <1>3, <2>2, <2>3, <2>4, <2>5, BeginKeepsInv
<1>9. ASSUME NEW kind \in {"opencash", "close"}, Begin(a, Asking(a, kind))
      PROVE  IInv'
  <2>1. Sensible(Asking(a, kind))
    BY <1>1, <1>3 DEF Sensible
  <2>2. QED
    BY <1>1, <1>3, <1>9, <2>1, BeginKeepsInv
<1>10. QED
  BY <1>4, <1>5, <1>6, <1>7, <1>8, <1>9 DEF Arrive

LEMMA RepeatKeepsInv ==
  ASSUME IInv, NEW a \in Attempts, NEW b \in Attempts, Repeat(a, b)
  PROVE  IInv'
<1>1. req[b] \in Asks /\ Asked(b) /\ req[b].kind \in Kinds /\ Begin(a, req[b])
  BY DEF IInv, Rowed, Personal, Repeat, Kinds
<1>2. Sensible(req[b]) /\ req[b].key \in Attempts
  BY <1>1 DEF Asked, Sensible, Kinds
<1>3. req[req[b].key] = req[b]
  BY <1>1, <1>2, TransactionsAssumption DEF Asked
<1>4. QED
  BY <1>1, <1>2, <1>3, BeginKeepsInv

-----------------------------------------------------------------------------
(* Commits. *)

\* What a commit does to the attempts, whatever it does to the database.
LEMMA Committing ==
  ASSUME IInv, NEW a \in Attempts, NEW kind \in Kinds, Commits(a, kind)
  PROVE  /\ req[a].kind = kind /\ At(a) = "commit" /\ req[a] \in Asks
         /\ note[a] \in Notes /\ Personal(a) /\ todo[a] # <<>>
         /\ req' = req /\ todo'[a] = <<>> /\ note'[a] = NoNote
         /\ At(a)' = "done"
         /\ \A b \in Attempts \ {a} : /\ todo'[b] = todo[b] /\ held'[b] = held[b]
                                    /\ note'[b] = note[b] /\ At(b)' = At(b)
<1>1. /\ Rowed /\ Personal(a) /\ Doing(a, "commit") /\ Is(a, kind) /\ End(a)
      /\ note[a] \in Notes /\ req[a] \in Asks
  BY DEF IInv, Rowed, Commits
<1>2. At(a) = "commit" /\ req[a].kind = kind /\ todo[a] # <<>>
  BY <1>1, DoingIsAt DEF Personal, Is, Doing
<1>3. /\ At(a)' = "done" /\ todo'[a] = <<>> /\ req' = req /\ note'[a] = NoNote
      /\ \A b \in Attempts \ {a} : /\ todo'[b] = todo[b] /\ held'[b] = held[b]
                                 /\ note'[b] = note[b]
  BY <1>1, Ending
<1>4. \A b \in Attempts \ {a} : At(b)' = At(b)
  BY <1>3 DEF At
<1>5. QED
  BY <1>1, <1>2, <1>3, <1>4

\* What is left to see of each commit.
LEMMA Committed ==
  ASSUME IInv, NEW a \in Attempts, NEW kind \in Kinds, Commits(a, kind),
         orders' \in [Orders -> [status : Active \cup {"none", "paid", "cancelled"},
                                 table : Tables \cup {None}, number : Nat,
                                 bill : Nat, key : Attempts \cup {None}]],
         payments' \in [Bills -> [order : Orders \cup {None}, amount : Int,
                                  session : Sessions \cup {None},
                                  live : BOOLEAN, bill : Nat]],
         sessions' \in [Sessions -> [state : {"none", "open", "closed"},
                                     signed : Int]],
         invoices' \subseteq Orders,
         Paying', Owing', Counted', Seated', OneOpens', DoubleTapPaysOnce',
         \A b \in Attempts \ {a} : KnowsSeat(b)' /\ KnowsBill(b)' /\ KnowsCash(b)',
         \A b \in Attempts : Charged(b)' /\ Tapped(b)'
  PROVE  IInv'
<1>1. Rowed /\ End(a) /\ Exclusive
  BY DEF IInv, Commits
<1>2. /\ At(a)' = "done" /\ todo'[a] = <<>> /\ held'[a] = {}
      /\ note'[a] = NoNote /\ note' \in [Attempts -> Notes]
      /\ DOMAIN todo' = Attempts /\ DOMAIN held' = Attempts /\ req' = req
      /\ \A b \in Attempts \ {a} : /\ todo'[b] = todo[b] /\ held'[b] = held[b]
                                 /\ note'[b] = note[b]
  BY <1>1, Ending
<1>3. \A b \in Attempts \ {a} : At(b)' = At(b)
  BY <1>2 DEF At
<1>4. Rowed' /\ Exclusive'
  <2>1. Exclusive'
    BY <1>1, <1>2, StaysExclusive
  <2>2. Rowed'
    BY <1>1, <1>2 DEF Rowed
  <2>3. QED
    BY <2>1, <2>2
<1>5. \A b \in Attempts : Asked(b)'
  BY <1>2 DEF IInv, Personal, Asked
<1>6. ASSUME NEW b \in Attempts \ {a}
      PROVE  Staged(b)' /\ Holding(b)'
  <2>1. Staged(b) /\ Holding(b)
    BY DEF IInv, Personal
  <2>2. Staged(b)'
    BY <1>2, <2>1 DEF Staged
  <2>3. Holding(b)'
    BY <1>2, <1>3, <2>1 DEF Holding, Rows, InTurn, InOrder, InOther, InCash,
                            InSettings, Wrote, Is
  <2>4. QED
    BY <2>2, <2>3
<1>7. Staged(a)' /\ Holding(a)'
  BY <1>2 DEF Staged, Holding, Rows, InTurn, InOrder, InOther, InCash,
              InSettings, Wrote
<1>8. KnowsSeat(a)' /\ KnowsBill(a)' /\ KnowsCash(a)'
  BY <1>2 DEF KnowsSeat, KnowsBill, KnowsCash, InCash
<1>9. \A b \in Attempts : Personal(b)'
  BY <1>5, <1>6, <1>7, <1>8 DEF Personal
<1>10. QED
  BY <1>4, <1>9 DEF IInv

\* Two attempts past the same row.
LEMMA OthersApart ==
  ASSUME IInv, NEW a \in Attempts, NEW b \in Attempts \ {a}
  PROVE  /\ InTurn(a) => ~InTurn(b)
         /\ InCash(a) => ~InCash(b)
         /\ InOrder(a) /\ InOrder(b) => First(req[a]) # First(req[b])
         /\ InOrder(a) /\ InOther(b) => First(req[a]) # Second(req[b])
         /\ InOther(a) /\ InOrder(b) => Second(req[a]) # First(req[b])
         /\ InOther(a) /\ InOther(b) => Second(req[a]) # Second(req[b])
<1>1. Exclusive /\ Holding(a) /\ Holding(b) /\ KnowsCash(a) /\ KnowsCash(b)
  BY DEF IInv, Personal
<1>2. InCash(a) /\ InCash(b) => note[a].cash = note[b].cash
  BY <1>1 DEF IInv, OneOpens, KnowsCash
<1>3. QED
  BY <1>1, <1>2, Apart

\* The orders an attempt has taken.
LEMMA OrdersTaken ==
  ASSUME NEW a \in Attempts
  PROVE  /\ req[a].kind \in {"add", "move", "charge", "void"}
              => First(req[a]) = req[a].order
         /\ {First(req[a]), Second(req[a])} = {req[a].order, req[a].other}
              \/ req[a].kind # "merge"
BY DEF First, Second

LEMMA MoneyStays ==
  ASSUME UNCHANGED payments
  PROVE  /\ \A o : PaymentsOf(o)' = PaymentsOf(o) /\ Reopened(o)' = Reopened(o)
         /\ \A s : InSession(s)' = InSession(s) /\ Taken(s)' = Taken(s)
         /\ Live' = Live
         /\ \A o : orders'[o].bill = orders[o].bill => Balance(o)' = Balance(o)
BY DEF PaymentsOf, Reopened, InSession, Taken, Live, Balance

\* Adding dishes looks for no table.
LEMMA AddsDoNotSit ==
  ASSUME NEW b \in Attempts, Staged(b), req[b].kind = "add"
  PROVE  At(b) # "seat"
<1>1. CASE todo[b] = <<>>
  BY <1>1 DEF At
<1>2. CASE todo[b] # <<>>
  <2>1. Makes("add", Head(todo[b])) /\ At(b) = Head(todo[b])
    BY <1>2, TailsFollow DEF Staged, At, Kinds
  <2>2. QED
    BY <2>1 DEF Makes
<1>3. QED
  BY <1>1, <1>2

\* A live payment of an attempt is of the order it asked to charge.
LEMMA PaidOrder ==
  ASSUME IInv, NEW b \in Attempts, payments[b].live
  PROVE  /\ b \in Live /\ payments[b].order = req[b].order
         /\ req[b].order \in Orders /\ b \in PaymentsOf(req[b].order)
         /\ orders[req[b].order].status \in {"open", "served", "paid"}
<1>1. b \in Live /\ payments[b] # NoPayment
  BY DEF Live, Bills, NoPayment
<1>2. payments[b].order = req[b].order
  BY <1>1 DEF IInv, Personal, Charged
<1>3. QED
  BY <1>1, <1>2 DEF IInv, Paying, PaymentsOf, Live

LEMMA CommitOpenKeepsInv ==
  ASSUME IInv, NEW a \in Attempts, CommitOpen(a)
  PROVE  IInv'
<1>1. Commits(a, "open") /\ "open" \in Kinds /\ Rowed /\ Paying
  BY DEF CommitOpen, Kinds, IInv
<1>2. /\ req[a].kind = "open" /\ At(a) = "commit" /\ req[a] \in Asks
      /\ note[a] \in Notes /\ Personal(a) /\ req' = req
      /\ \A b \in Attempts \ {a} : note'[b] = note[b] /\ At(b)' = At(b)
  BY <1>1, Committing
<1> DEFINE row == [status |-> "open", table |-> req[a].table,
                   number |-> note[a].number, bill |-> Price, key |-> req[a].key]
<1>3. PICK o \in Orders : /\ orders[o].status = "none"
                          /\ orders' = [orders EXCEPT ![o] = row]
  BY DEF CommitOpen
<1>4. UNCHANGED <<payments, sessions, invoices>>
  BY DEF CommitOpen
<1>5. /\ \A r \in Orders \ {o} : orders'[r] = orders[r]
      /\ orders'[o].status = "open" /\ orders'[o].table = req[a].table
      /\ orders'[o].bill = Price
      /\ orders' \in [Orders -> [status : Active \cup {"none", "paid", "cancelled"},
                                 table : Tables \cup {None}, number : Nat,
                                 bill : Nat, key : Attempts \cup {None}]]
  <2>1. row \in [status : Active \cup {"none", "paid", "cancelled"},
                 table : Tables \cup {None}, number : Nat, bill : Nat,
                 key : Attempts \cup {None}]
    BY <1>2, TransactionsAssumption DEF Asks, Notes, Active
  <2>2. row.status = "open" /\ row.table = req[a].table /\ row.bill = Price
    OBVIOUS
  <2>3. QED
    <3> HIDE DEF row
    <3> QED
      BY <1>1, <1>3, <2>1, <2>2 DEF Rowed
<1>6. \A r \in Orders \ {o} : /\ Balance(r)' = Balance(r)
                            /\ IsActive(r)' = IsActive(r)
                            /\ Mergeable(r)' = Mergeable(r)
  BY <1>4, <1>5, MoneyStays DEF IsActive, Mergeable
<1>7. \A b \in Attempts : payments[b].live => req[b].order \in Orders \ {o}
  BY <1>3, PaidOrder
<1>8. PaymentsOf(o) = {}
  BY <1>1, <1>3 DEF PaymentsOf, Paying, Live
<1>9. Paying'
  BY <1>1, <1>3, <1>4, <1>5, MoneyStays DEF Paying, Live
<1>10. Owing'
  <2>1. Balance(o)' = Price
    <3>1. PaymentsOf(o)' = {}
      BY <1>4, <1>8, MoneyStays
    <3>2. Balance(o)' = orders'[o].bill - SumOf([b \in {} |-> payments[b].amount])
      BY <1>4, <3>1 DEF Balance
    <3>3. SumOf([b \in {} |-> payments[b].amount]) = 0
      BY <1>1, SumsAre, SumOfNothing
    <3>4. QED
      BY <1>5, <3>2, <3>3, TransactionsAssumption
  <2>2. QED
    BY <1>5, <1>6, <2>1, TransactionsAssumption DEF IInv, Owing, IsActive
<1>11. Counted' /\ OneOpens'
  <2>1. \A b \in Attempts : Opening(b)' => Opening(b)
    BY <1>2, <1>1, Committing DEF Opening
  <2>2. OpenSessions' = OpenSessions
    BY <1>4 DEF OpenSessions
  <2>3. QED
    BY <1>4, <2>1, <2>2, MoneyStays DEF IInv, Counted, OneOpens
<1>12. Seated'
  <2>1. \A r \in Orders : IsActive(r) /\ orders[r].table = req[a].table
                            => Reopened(r)
    BY <1>2, TransactionsAssumption DEF Personal, KnowsSeat, ActiveAt, Asked,
                                        Sensible
  <2>2. QED
    BY <1>4, <1>5, <1>6, <2>1, MoneyStays DEF IInv, Seated
<1>13. ASSUME NEW b \in Attempts \ {a}
       PROVE  KnowsSeat(b)' /\ KnowsBill(b)' /\ KnowsCash(b)'
  <2>1. Personal(b) /\ req'[b] = req[b] /\ note'[b] = note[b] /\ At(b)' = At(b)
    BY <1>2 DEF IInv
  <2>2. KnowsSeat(b)'
    <3>1. CASE req[b].kind = "add" /\ At(b) \in {"write", "commit"}
      <4>1. IsActive(req[b].order) /\ req[b].order \in Orders
        BY <2>1, <3>1 DEF Personal, KnowsSeat, Asked, Sensible
      <4>2. req[b].order # o
        BY <1>3, <4>1 DEF IsActive, Active
      <4>3. QED
        BY <1>6, <2>1, <3>1, <4>1, <4>2 DEF KnowsSeat
    <3>2. CASE ~(req[b].kind = "add" /\ At(b) \in {"write", "commit"})
      <4>1. req[b].kind = "add" => At(b) # "seat"
        BY <2>1, AddsDoNotSit DEF Personal
      <4>2. QED
        BY <1>2, <2>1, <3>2, <4>1, OthersApart DEF InTurn, KnowsSeat
    <3>3. QED
      BY <3>1, <3>2
  <2>3. KnowsBill(b)'
    <3>1. Asked(b) /\ KnowsBill(b)
      BY <2>1 DEF Personal
    <3>2. CASE req[b].kind = "merge" /\ At(b) \in {"write", "commit"}
      <4>1. /\ Mergeable(req[b].order) /\ Mergeable(req[b].other)
            /\ req[b].order \in Orders /\ req[b].other \in Orders
        BY <3>1, <3>2 DEF KnowsBill, Asked, Sensible
      <4>2. o # req[b].order /\ o # req[b].other
        BY <1>3, <4>1 DEF Mergeable, IsActive, Active
      <4>3. QED
        BY <1>6, <2>1, <3>2, <4>1, <4>2 DEF KnowsBill
    <3>3. CASE req[b].kind = "charge" /\ At(b) \in {"cash", "write", "commit"}
      <4>1. req[b].order \in Orders \ {o}
        BY <1>3, <3>1, <3>3 DEF KnowsBill, Asked, Sensible
      <4>2. QED
        BY <1>5, <1>6, <2>1, <3>1, <3>3, <4>1 DEF KnowsBill
    <3>4. CASE req[b].kind = "void"
      BY <1>4, <2>1, <3>1, <3>4, MoneyStays DEF KnowsBill
    <3>5. QED
      BY <2>1, <3>2, <3>3, <3>4 DEF KnowsBill
  <2>4. KnowsCash(b)'
    BY <1>4, <2>1, MoneyStays DEF Personal, KnowsCash, InCash, OpenSessions
  <2>5. QED
    BY <2>2, <2>3, <2>4
<1>14. ASSUME NEW b \in Attempts
       PROVE  Charged(b)' /\ Tapped(b)'
  <2>1. Personal(b) /\ req'[b] = req[b] /\ (todo[b] = <<>> => todo'[b] = <<>>)
    BY <1>1, <1>2, Committing DEF IInv
  <2>2. Charged(b)'
    BY <1>4, <2>1 DEF Personal, Charged
  <2>3. Tapped(b)'
    BY <1>4, <1>5, <1>6, <1>7, <2>1, MoneyStays DEF Personal, Tapped
  <2>4. QED
    BY <2>2, <2>3
<1>15. DoubleTapPaysOnce'
  BY <1>2, <1>4 DEF IInv, DoubleTapPaysOnce, TwicePaid, GrewBetween
<1>16. /\ payments' \in [Bills -> [order : Orders \cup {None}, amount : Int,
                                   session : Sessions \cup {None},
                                   live : BOOLEAN, bill : Nat]]
       /\ sessions' \in [Sessions -> [state : {"none", "open", "closed"},
                                      signed : Int]]
       /\ invoices' \subseteq Orders
  BY <1>1, <1>4 DEF Rowed
<1>17. QED
  BY <1>1, <1>5, <1>9, <1>10, <1>11, <1>12, <1>13, <1>14, <1>15, <1>16, Committed

\* One payment more.
LEMMA PaymentAdds ==
  ASSUME Rowed, Paying, NEW S \in SUBSET Live, NEW q, NEW b \in Bills \ S,
         q[b].amount \in Int, \A c \in S : q[c].amount = payments[c].amount
  PROVE  SumOf([c \in S \cup {b} |-> q[c].amount])
           = q[b].amount + SumOf([c \in S |-> payments[c].amount])
<1> DEFINE f == [c \in S \cup {b} |-> q[c].amount]
           g == [c \in S |-> payments[c].amount]
<1>1. /\ IsFiniteSet(S) /\ DOMAIN f = S \cup {b} /\ DOMAIN g = S
      /\ \A c \in S : f[c] = g[c] /\ g[c] \in Int
      /\ f[b] = q[b].amount /\ b \notin S
  BY SumsAre DEF Live, Rowed
<1>2. SumOf(f) = SumOn(f, S \cup {b}) /\ SumOf(g) = SumOn(g, S)
  <2>1. \A h : SumOf(h) = SumOn(h, DOMAIN h)
    BY FoldIsSum DEF SumOf
  <2>2. QED
    BY <1>1, <2>1
<1> HIDE DEF f, g
<1>3. \A c \in S \cup {b} : f[c] \in Int
  BY <1>1
<1>4. SumOn(f, S \cup {b}) = f[b] + SumOn(f, S)
  BY <1>1, <1>3, SumPutsIn
<1>5. SumOn(f, S) = SumOn(g, S)
  BY <1>1, SumsAgree
<1>6. SumOf(f) = q[b].amount + SumOf(g)
  BY <1>1, <1>2, <1>4, <1>5
<1>7. QED
  BY <1>6 DEF f, g

LEMMA CommitMoveKeepsInv ==
  ASSUME IInv, NEW a \in Attempts, CommitMove(a)
  PROVE  IInv'
<1> DEFINE x == req[a].order
<1>1. Commits(a, "move") /\ "move" \in Kinds /\ Rowed /\ Paying
  BY DEF CommitMove, Kinds, IInv
<1>2. /\ req[a].kind = "move" /\ At(a) = "commit" /\ req[a] \in Asks
      /\ Personal(a) /\ req' = req /\ x \in Orders /\ req[a].table \in Tables
      /\ \A b \in Attempts \ {a} : note'[b] = note[b] /\ At(b)' = At(b)
  BY <1>1, Committing DEF Personal, Asked, Sensible
<1>3. /\ orders' = [orders EXCEPT ![x].table = req[a].table]
      /\ UNCHANGED <<payments, sessions, invoices>>
  BY DEF CommitMove
<1>4. /\ \A r \in Orders \ {x} : orders'[r] = orders[r]
      /\ orders'[x].table = req[a].table
      /\ \A r \in Orders : /\ orders'[r].status = orders[r].status
                           /\ orders'[r].bill = orders[r].bill
                           /\ orders'[r].number = orders[r].number
                           /\ orders'[r].key = orders[r].key
      /\ orders' \in [Orders -> [status : Active \cup {"none", "paid", "cancelled"},
                                 table : Tables \cup {None}, number : Nat,
                                 bill : Nat, key : Attempts \cup {None}]]
  BY <1>1, <1>2, <1>3 DEF Rowed
<1> HIDE DEF x
<1>5. \A r \in Orders : /\ Balance(r)' = Balance(r)
                        /\ IsActive(r)' = IsActive(r)
                        /\ Mergeable(r)' = Mergeable(r)
  BY <1>3, <1>4, MoneyStays DEF IsActive, Mergeable
<1>6. Paying'
  BY <1>1, <1>3, <1>4, MoneyStays DEF Paying, Live
<1>7. Owing'
  BY <1>4, <1>5 DEF IInv, Owing
<1>8. Counted' /\ OneOpens'
  <2>1. \A b \in Attempts : Opening(b)' => Opening(b)
    BY <1>2, <1>1, Committing DEF Opening
  <2>2. OpenSessions' = OpenSessions
    BY <1>3 DEF OpenSessions
  <2>3. QED
    BY <1>3, <2>1, <2>2, MoneyStays DEF IInv, Counted, OneOpens
<1>9. Seated'
  <2>1. \A r \in Orders \ {x} : IsActive(r) /\ orders[r].table = req[a].table
                                  => Reopened(r)
    BY <1>2 DEF Personal, KnowsSeat, ActiveAt, x
  <2>2. QED
    BY <1>3, <1>4, <1>5, <2>1, MoneyStays DEF IInv, Seated
<1>10. ASSUME NEW b \in Attempts \ {a}
       PROVE  KnowsSeat(b)' /\ KnowsBill(b)' /\ KnowsCash(b)'
  <2>1. Personal(b) /\ req'[b] = req[b] /\ note'[b] = note[b] /\ At(b)' = At(b)
    BY <1>2 DEF IInv
  <2>2. KnowsSeat(b)'
    <3>1. CASE req[b].kind = "add"
      <4>1. req[b].order \in Orders
        BY <2>1, <3>1 DEF Personal, Asked, Sensible
      <4>2. QED
        BY <1>5, <2>1, <3>1, <4>1 DEF Personal, KnowsSeat
    <3>2. CASE req[b].kind # "add"
      BY <1>2, <2>1, <3>2, OthersApart DEF InTurn, KnowsSeat
    <3>3. QED
      BY <3>1, <3>2
  <2>3. KnowsBill(b)'
    <3>1. Asked(b) /\ KnowsBill(b)
      BY <2>1 DEF Personal
    <3>2. CASE req[b].kind = "merge"
      BY <1>5, <2>1, <3>1, <3>2 DEF KnowsBill, Asked, Sensible
    <3>3. CASE req[b].kind = "charge"
      BY <1>4, <1>5, <2>1, <3>1, <3>3 DEF KnowsBill, Asked, Sensible
    <3>4. CASE req[b].kind = "void"
      BY <1>3, <2>1, <3>1, <3>4, MoneyStays DEF KnowsBill
    <3>5. QED
      BY <2>1, <3>2, <3>3, <3>4 DEF KnowsBill
  <2>4. KnowsCash(b)'
    BY <1>3, <2>1, MoneyStays DEF Personal, KnowsCash, InCash, OpenSessions
  <2>5. QED
    BY <2>2, <2>3, <2>4
<1>11. ASSUME NEW b \in Attempts
       PROVE  Charged(b)' /\ Tapped(b)'
  <2>1. Personal(b) /\ req'[b] = req[b] /\ (todo[b] = <<>> => todo'[b] = <<>>)
    BY <1>1, <1>2, Committing DEF IInv
  <2>2. Charged(b)'
    BY <1>3, <2>1 DEF Personal, Charged
  <2>3. Tapped(b)'
    BY <1>3, <1>4, <1>5, <2>1, MoneyStays, PaidOrder DEF Personal, Tapped
  <2>4. QED
    BY <2>2, <2>3
<1>12. DoubleTapPaysOnce'
  BY <1>2, <1>3 DEF IInv, DoubleTapPaysOnce, TwicePaid, GrewBetween
<1>13. /\ payments' \in [Bills -> [order : Orders \cup {None}, amount : Int,
                                   session : Sessions \cup {None},
                                   live : BOOLEAN, bill : Nat]]
       /\ sessions' \in [Sessions -> [state : {"none", "open", "closed"},
                                      signed : Int]]
       /\ invoices' \subseteq Orders
  BY <1>1, <1>3 DEF Rowed
<1>14. QED
  BY <1>1, <1>4, <1>6, <1>7, <1>8, <1>9, <1>10, <1>11, <1>12, <1>13, Committed

LEMMA CommitAddKeepsInv ==
  ASSUME IInv, NEW a \in Attempts, CommitAdd(a)
  PROVE  IInv'
<1>1. Commits(a, "add") /\ "add" \in Kinds /\ Rowed /\ Paying
  BY DEF CommitAdd, Kinds, IInv
<1>2. /\ req[a].kind = "add" /\ At(a) = "commit" /\ Personal(a) /\ req' = req
      /\ req[a].order \in Orders /\ InOrder(a)
      /\ \A b \in Attempts \ {a} : note'[b] = note[b] /\ At(b)' = At(b)
  <2>1. /\ req[a].kind = "add" /\ At(a) = "commit" /\ Personal(a) /\ req' = req
        /\ \A b \in Attempts \ {a} : note'[b] = note[b] /\ At(b)' = At(b)
    BY <1>1, Committing
  <2>2. QED
    BY <2>1 DEF InOrder, Personal, Asked, Sensible
<1> PICK x \in Orders : x = req[a].order
  BY <1>2
<1>3. IsActive(x) /\ Dish \in Nat
  BY <1>2, TransactionsAssumption DEF Personal, KnowsSeat
<1>4. /\ orders' = [orders EXCEPT ![x].bill = @ + Dish, ![x].status = "open"]
      /\ UNCHANGED <<payments, sessions, invoices>>
  BY DEF CommitAdd
<1>5. /\ \A r \in Orders \ {x} : orders'[r] = orders[r]
      /\ orders'[x].status = "open" /\ orders'[x].bill = orders[x].bill + Dish
      /\ \A r \in Orders : /\ orders'[r].table = orders[r].table
                           /\ orders'[r].number = orders[r].number
                           /\ orders'[r].key = orders[r].key
      /\ orders' \in [Orders -> [status : Active \cup {"none", "paid", "cancelled"},
                                 table : Tables \cup {None}, number : Nat,
                                 bill : Nat, key : Attempts \cup {None}]]
  <2> DEFINE xs == [orders[x] EXCEPT !.bill = orders[x].bill + Dish,
                                     !.status = "open"]
             Row == [status : Active \cup {"none", "paid", "cancelled"},
                     table : Tables \cup {None}, number : Nat, bill : Nat,
                     key : Attempts \cup {None}]
  <2>1. orders \in [Orders -> Row]
    BY <1>1 DEF Rowed
  <2>2. orders' = [orders EXCEPT ![x] = xs]
    BY <1>4, <2>1
  <2>3. /\ xs \in Row /\ xs.status = "open" /\ xs.bill = orders[x].bill + Dish
        /\ xs.table = orders[x].table /\ xs.number = orders[x].number
        /\ xs.key = orders[x].key
    <3>1. orders[x] \in Row /\ orders[x].bill + Dish \in Nat
      BY <1>3, <2>1
    <3>2. \A n \in Nat :
            LET r == [orders[x] EXCEPT !.bill = n, !.status = "open"]
            IN  /\ r \in Row /\ r.status = "open" /\ r.bill = n
                /\ r.table = orders[x].table /\ r.number = orders[x].number
                /\ r.key = orders[x].key
      BY <3>1 DEF Active
    <3>3. QED
      BY <3>1, <3>2
  <2>4. /\ orders' \in [Orders -> Row] /\ orders'[x] = xs
        /\ \A r \in Orders \ {x} : orders'[r] = orders[r]
    <3> HIDE DEF xs, Row
    <3> QED
      BY <2>1, <2>2, <2>3
  <2>5. QED
    <3> HIDE DEF xs
    <3> QED
      BY <2>3, <2>4
<1>6. \A r \in Orders : /\ IsActive(r)' = IsActive(r)
                        /\ Mergeable(r)' = Mergeable(r)
                        /\ r # x => orders'[r].status = orders[r].status
  <2>1. ASSUME NEW r \in Orders
        PROVE  IsActive(r)' = IsActive(r)
    <3>1. CASE r = x
      BY <1>3, <1>5, <3>1 DEF IsActive, Active
    <3>2. CASE r # x
      <4>1. orders'[r] = orders[r]
        BY <1>5, <3>2
      <4>2. QED
        BY <4>1 DEF IsActive, Active
    <3>3. QED
      BY <3>1, <3>2
  <2>2. \A r \in Orders : PaymentsOf(r)' = PaymentsOf(r)
    BY <1>4, MoneyStays
  <2>3. QED
    BY <1>5, <2>1, <2>2 DEF Mergeable
<1>7. \A r \in Orders \ {x} : Balance(r)' = Balance(r)
  BY <1>4, <1>5, MoneyStays
<1>8. Balance(x)' = Balance(x) + Dish /\ Balance(x) \in Int
  <2>1. /\ Balance(x)' = orders'[x].bill
             - SumOf([b \in PaymentsOf(x) |-> payments[b].amount])
        /\ Balance(x) = orders[x].bill
             - SumOf([b \in PaymentsOf(x) |-> payments[b].amount])
    BY <1>4, MoneyStays DEF Balance
  <2>2. PaymentsOf(x) \in SUBSET Live
    BY DEF PaymentsOf, Live
  <2>3. SumOf([b \in PaymentsOf(x) |-> payments[b].amount]) \in Int
    BY <1>1, <2>2, SumsAre
  <2>4. orders[x].bill \in Int
    BY <1>1 DEF Rowed
  <2>5. QED
    BY <1>3, <1>5, <2>1, <2>3, <2>4
<1>9. Paying'
  BY <1>1, <1>4, <1>5, <1>6, MoneyStays DEF Paying, Live
<1>10. Owing'
  <2>1. ASSUME NEW r \in Orders
        PROVE  /\ IsActive(r)' => Balance(r)' >= 1
               /\ orders'[r].status = "paid" => Balance(r)' = 0
    <3>1. CASE r = x
      <4>1. Balance(x) >= 1
        BY <1>3 DEF IInv, Owing
      <4>2. Balance(x)' >= 1
        BY <1>3, <1>8, <4>1
      <4>3. QED
        BY <1>5, <3>1, <4>2
    <3>2. CASE r # x
      BY <1>6, <1>7, <3>2 DEF IInv, Owing
    <3>3. QED
      BY <3>1, <3>2
  <2>2. QED
    BY <2>1 DEF Owing
<1>11. Counted' /\ OneOpens'
  <2>1. \A b \in Attempts : Opening(b)' => Opening(b)
    BY <1>2, <1>1, Committing DEF Opening
  <2>2. OpenSessions' = OpenSessions
    BY <1>4 DEF OpenSessions
  <2>3. QED
    BY <1>4, <2>1, <2>2, MoneyStays DEF IInv, Counted, OneOpens
<1>12. Seated'
  <2>1. \A o : Reopened(o)' = Reopened(o)
    BY <1>4, MoneyStays
  <2>2. \A r \in Orders : /\ orders'[r].table = orders[r].table
                          /\ IsActive(r)' = IsActive(r)
    BY <1>5, <1>6
  <2>3. QED
    BY <2>1, <2>2 DEF IInv, Seated
<1>13. ASSUME NEW b \in Attempts \ {a}
       PROVE  KnowsSeat(b)' /\ KnowsBill(b)' /\ KnowsCash(b)'
  <2>1. /\ req'[b] = req[b] /\ note'[b] = note[b] /\ At(b)' = At(b)
        /\ Asked(b) /\ KnowsBill(b) /\ KnowsSeat(b) /\ KnowsCash(b)
    BY <1>2 DEF IInv, Personal
  <2>2. InOrder(b) => First(req[b]) # x
    BY <1>2, OthersApart, OrdersTaken
  <2>3. KnowsSeat(b)'
    <3>1. \A t : ActiveAt(t)' = ActiveAt(t)
      BY <1>5, <1>6 DEF ActiveAt
    <3>2. \A r : Reopened(r)' = Reopened(r)
      BY <1>4, MoneyStays
    <3>3. req[b].kind \in {"add", "move"} => req[b].order \in Orders
      BY <2>1 DEF Asked, Sensible
    <3>4. QED
      BY <1>5, <1>6, <2>1, <3>1, <3>2, <3>3 DEF KnowsSeat
  <2>4. KnowsBill(b)'
    <3>1. CASE req[b].kind = "merge"
      BY <1>6, <2>1, <3>1 DEF KnowsBill, Asked, Sensible
    <3>2. CASE req[b].kind = "charge" /\ At(b) \in {"cash", "write", "commit"}
      <4>1. req[b].order \in Orders \ {x}
        BY <2>1, <2>2, <3>2, OrdersTaken DEF InOrder, Asked, Sensible
      <4>2. QED
        BY <1>5, <1>7, <2>1, <3>2, <4>1 DEF KnowsBill
    <3>3. CASE req[b].kind = "void"
      BY <1>4, <2>1, <3>3, MoneyStays DEF KnowsBill
    <3>4. QED
      BY <2>1, <3>1, <3>2, <3>3 DEF KnowsBill
  <2>5. KnowsCash(b)'
    BY <1>4, <2>1, MoneyStays DEF KnowsCash, InCash, OpenSessions
  <2>6. QED
    BY <2>3, <2>4, <2>5
<1>14. ASSUME NEW b \in Attempts
       PROVE  Charged(b)' /\ Tapped(b)'
  <2>1. Personal(b) /\ req'[b] = req[b] /\ (todo[b] = <<>> => todo'[b] = <<>>)
    BY <1>1, <1>2, Committing DEF IInv
  <2>2. Charged(b)'
    BY <1>4, <2>1 DEF Personal, Charged
  <2>3. Tapped(b)'
    <3>1. CASE ~payments[b].live
      BY <1>4, <3>1 DEF Tapped
    <3>2. CASE payments[b].live /\ req[b].order # x
      <4>1. PICK y \in Orders \ {x} : y = req[b].order
        BY <3>2, PaidOrder
      <4>2. /\ orders'[y] = orders[y] /\ Balance(y)' = Balance(y)
            /\ payments' = payments /\ Reopened(y)' = Reopened(y)
        BY <1>4, <1>5, <1>7, MoneyStays
      <4>3. QED
        BY <2>1, <4>1, <4>2 DEF Personal, Tapped
    <3>3. CASE payments[b].live /\ req[b].order = x
      <4>1. ~Reopened(x) =>
              /\ req[b].part
              /\ Balance(x) + payments[b].amount + payments[b].bill
                   <= req[b].seen + orders[x].bill
        BY <1>3, <2>1, <3>3 DEF Personal, Tapped, IsActive, Active
      <4>2. /\ req[b] \in Asks /\ payments[b].amount \in Int
            /\ payments[b].bill \in Int /\ orders[x].bill \in Int
        BY <1>1 DEF Rowed, Bills
      <4>3. req[b].seen \in Int
        BY <4>2 DEF Asks
      <4>4. ~Reopened(x) =>
              Balance(x)' + payments[b].amount + payments[b].bill
                <= req[b].seen + orders'[x].bill
        BY <1>3, <1>5, <1>8, <4>1, <4>2, <4>3
      <4>5. payments' = payments /\ Reopened(x)' = Reopened(x)
        BY <1>4, MoneyStays
      <4>6. QED
        BY <2>1, <3>3, <4>1, <4>4, <4>5 DEF Tapped
    <3>4. QED
      BY <3>1, <3>2, <3>3
  <2>4. QED
    BY <2>2, <2>3
<1>15. DoubleTapPaysOnce'
  BY <1>2, <1>4 DEF IInv, DoubleTapPaysOnce, TwicePaid, GrewBetween
<1>16. /\ payments' \in [Bills -> [order : Orders \cup {None}, amount : Int,
                                   session : Sessions \cup {None},
                                   live : BOOLEAN, bill : Nat]]
       /\ sessions' \in [Sessions -> [state : {"none", "open", "closed"},
                                      signed : Int]]
       /\ invoices' \subseteq Orders
  BY <1>1, <1>4 DEF Rowed
<1>17. QED
  BY <1>1, <1>5, <1>9, <1>10, <1>11, <1>12, <1>13, <1>14, <1>15, <1>16, Committed

LEMMA CommitMergeKeepsInv ==
  ASSUME IInv, NEW a \in Attempts, CommitMerge(a)
  PROVE  IInv'
<1>1. Commits(a, "merge") /\ "merge" \in Kinds /\ Rowed /\ Paying
  BY DEF CommitMerge, Kinds, IInv
<1>2. /\ req[a].kind = "merge" /\ At(a) = "commit" /\ req[a] \in Asks
      /\ Personal(a) /\ req' = req
      /\ req[a].order \in Orders /\ req[a].other \in Orders
      /\ req[a].order # req[a].other
      /\ \A b \in Attempts \ {a} : note'[b] = note[b] /\ At(b)' = At(b)
  BY <1>1, Committing DEF Personal, Asked, Sensible
<1> PICK x \in Orders, y \in Orders :
      x = req[a].order /\ y = req[a].other /\ x # y
  BY <1>2
<1>3. Mergeable(x) /\ Mergeable(y)
  BY <1>2 DEF Personal, KnowsBill
<1> PICK left \in Active :
      left = IF "open" \in {orders[y].status, orders[x].status} THEN "open"
                                                           ELSE orders[x].status
  BY <1>3 DEF Mergeable, IsActive, Active
<1>4. /\ orders' = [orders EXCEPT
           ![x].bill = @ + orders[y].bill,
           ![x].status = IF "open" \in {orders[y].status, @} THEN "open" ELSE @,
           ![y].status = "cancelled", ![y].bill = 0]
      /\ UNCHANGED <<payments, sessions, invoices>>
  BY DEF CommitMerge
<1>5. /\ \A r \in Orders \ {x, y} : orders'[r] = orders[r]
      /\ orders'[x].status = left /\ orders'[y].status = "cancelled"
      /\ orders'[x].bill = orders[x].bill + orders[y].bill
      /\ \A r \in Orders : /\ orders'[r].table = orders[r].table
                           /\ orders'[r].number = orders[r].number
                           /\ orders'[r].key = orders[r].key
      /\ orders' \in [Orders -> [status : Active \cup {"none", "paid", "cancelled"},
                                 table : Tables \cup {None}, number : Nat,
                                 bill : Nat, key : Attempts \cup {None}]]
  <2> DEFINE xs == [orders[x] EXCEPT !.bill = orders[x].bill + orders[y].bill,
                                     !.status = left]
             ys == [orders[y] EXCEPT !.status = "cancelled", !.bill = 0]
             Row == [status : Active \cup {"none", "paid", "cancelled"},
                     table : Tables \cup {None}, number : Nat, bill : Nat,
                     key : Attempts \cup {None}]
  <2>1. orders \in [Orders -> Row]
    BY <1>1 DEF Rowed
  <2>2. orders' = [orders EXCEPT ![x] = xs, ![y] = ys]
    BY <1>4, <2>1
  <2>3. /\ xs \in Row /\ xs.status = left
        /\ xs.bill = orders[x].bill + orders[y].bill
        /\ xs.table = orders[x].table /\ xs.number = orders[x].number
        /\ xs.key = orders[x].key
    <3>1. orders[x] \in Row /\ orders[x].bill + orders[y].bill \in Nat
      BY <2>1
    <3>2. /\ \A n \in Nat : [orders[x] EXCEPT !.bill = n, !.status = left] \in Row
          /\ \A n \in Nat :
               LET r == [orders[x] EXCEPT !.bill = n, !.status = left]
               IN  /\ r.status = left /\ r.bill = n
                   /\ r.table = orders[x].table /\ r.number = orders[x].number
                   /\ r.key = orders[x].key
      BY <3>1
    <3>3. QED
      BY <3>1, <3>2
  <2>4. /\ ys \in Row /\ ys.status = "cancelled"
        /\ ys.table = orders[y].table /\ ys.number = orders[y].number
        /\ ys.key = orders[y].key
    BY <2>1
  <2>5. /\ orders' \in [Orders -> Row] /\ orders'[x] = xs /\ orders'[y] = ys
        /\ \A r \in Orders \ {x, y} : orders'[r] = orders[r]
    <3> HIDE DEF xs, ys, Row
    <3> QED
      BY <2>1, <2>2, <2>3, <2>4
  <2>6. QED
    <3> HIDE DEF xs, ys
    <3> QED
      BY <2>3, <2>4, <2>5
<1>6. \A r \in Orders : IsActive(r)' => IsActive(r)
  BY <1>3, <1>5 DEF IsActive, Mergeable, Active
<1>7. ASSUME NEW r \in Orders \ {x, y}
      PROVE  /\ Balance(r)' = Balance(r) /\ IsActive(r)' = IsActive(r)
             /\ Mergeable(r)' = Mergeable(r)
  <2>1. orders'[r] = orders[r]
    BY <1>5
  <2>2. Balance(r)' = Balance(r) /\ PaymentsOf(r)' = PaymentsOf(r)
    BY <1>4, <2>1, MoneyStays
  <2>3. IsActive(r)' = IsActive(r)
    BY <2>1 DEF IsActive, Active
  <2>4. QED
    BY <2>2, <2>3 DEF Mergeable
<1>8. ASSUME NEW b \in Live
      PROVE  payments[b].order \notin {x, y}
  BY <1>3 DEF Mergeable, PaymentsOf, Live
<1>9. Paying'
  BY <1>1, <1>4, <1>5, <1>8, MoneyStays DEF Paying, Live
<1>10. Owing'
  <2>1. Balance(x)' = Balance(x) + Balance(y)
    <3>1. PaymentsOf(x)' = {} /\ PaymentsOf(x) = {} /\ PaymentsOf(y) = {}
      BY <1>3, <1>4, MoneyStays DEF Mergeable
    <3>2. SumOf([b \in {} |-> payments[b].amount]) = 0
      BY <1>1, SumsAre, SumOfNothing
    <3>3. /\ Balance(x)' = orders'[x].bill - SumOf([b \in {} |-> payments[b].amount])
          /\ Balance(x) = orders[x].bill - SumOf([b \in {} |-> payments[b].amount])
          /\ Balance(y) = orders[y].bill - SumOf([b \in {} |-> payments[b].amount])
      BY <1>4, <3>1 DEF Balance
    <3>4. orders[x].bill \in Nat /\ orders[y].bill \in Nat
      BY <1>1, <1>2 DEF Rowed
    <3>5. QED
      BY <1>5, <3>2, <3>3, <3>4
  <2>2. Balance(x) \in Int /\ Balance(y) \in Int
    BY <1>1, <1>2, BalanceIs
  <2>3. Balance(x) >= 1 /\ Balance(y) >= 1
    BY <1>2, <1>3 DEF IInv, Owing, Mergeable
  <2>4. Balance(x)' >= 1
    BY <2>1, <2>2, <2>3
  <2>5. ASSUME NEW r \in Orders
        PROVE  /\ IsActive(r)' => Balance(r)' >= 1
               /\ orders'[r].status = "paid" => Balance(r)' = 0
    <3>1. CASE r = x
      BY <1>5, <2>4, <3>1 DEF Active
    <3>2. CASE r = y
      BY <1>5, <3>2 DEF IsActive, Active
    <3>3. CASE r \notin {x, y}
      BY <1>5, <1>7, <3>3 DEF IInv, Owing
    <3>4. QED
      BY <3>1, <3>2, <3>3
  <2>6. QED
    BY <2>5 DEF Owing
<1>11. Counted' /\ OneOpens'
  <2>1. \A b \in Attempts : Opening(b)' => Opening(b)
    BY <1>2, <1>1, Committing DEF Opening
  <2>2. OpenSessions' = OpenSessions
    BY <1>4 DEF OpenSessions
  <2>3. QED
    BY <1>4, <2>1, <2>2, MoneyStays DEF IInv, Counted, OneOpens
<1>12. Seated'
  <2>1. ASSUME NEW o \in Orders, NEW r \in Orders, o # r, IsActive(o)',
               IsActive(r)', orders'[o].table = orders'[r].table
        PROVE  (Reopened(o) \/ Reopened(r))'
    <3>1. IsActive(o) /\ IsActive(r) /\ orders[o].table = orders[r].table
      BY <1>5, <1>6, <2>1
    <3>2. Reopened(o) \/ Reopened(r)
      BY <2>1, <3>1 DEF IInv, Seated
    <3>3. QED
      BY <1>4, <3>2, MoneyStays
  <2>2. QED
    BY <2>1 DEF Seated
<1>13. ASSUME NEW b \in Attempts \ {a}
       PROVE  KnowsSeat(b)' /\ KnowsBill(b)' /\ KnowsCash(b)'
  <2>1. Personal(b) /\ req'[b] = req[b] /\ note'[b] = note[b] /\ At(b)' = At(b)
    BY <1>2 DEF IInv
  <2>2. InOrder(b) => First(req[b]) \notin {x, y}
    BY <1>2, OthersApart, OrdersTaken DEF InOrder, InOther
  <2>3. InOther(b) => Second(req[b]) \notin {x, y}
    BY <1>2, OthersApart, OrdersTaken DEF InOrder, InOther
  <2>4. Asked(b) /\ KnowsBill(b) /\ KnowsSeat(b) /\ KnowsCash(b)
    BY <2>1 DEF Personal
  <2>5. KnowsSeat(b)'
    <3>1. \A t : ActiveAt(t)' \subseteq ActiveAt(t)
      BY <1>5, <1>6 DEF ActiveAt
    <3>2. \A r : Reopened(r)' = Reopened(r)
      BY <1>4, MoneyStays
    <3>3. req[b].kind \in {"add", "move"} /\ At(b) \in {"seat", "write", "commit"}
            => req[b].order \in Orders \ {x, y}
      BY <2>2, <2>4, OrdersTaken DEF InOrder, Asked, Sensible
    <3>4. QED
      BY <1>5, <1>7, <2>1, <2>4, <3>1, <3>2, <3>3 DEF KnowsSeat
  <2>6. KnowsBill(b)'
    <3>1. CASE req[b].kind = "merge" /\ At(b) \in {"write", "commit"}
      <4>1. req[b].order \in Orders \ {x, y} /\ req[b].other \in Orders \ {x, y}
        BY <2>2, <2>3, <2>4, <3>1, OrdersTaken DEF InOrder, InOther, Asked,
                                                   Sensible
      <4>2. QED
        BY <1>7, <2>1, <2>4, <3>1, <4>1 DEF KnowsBill
    <3>2. CASE req[b].kind = "charge" /\ At(b) \in {"cash", "write", "commit"}
      <4>1. req[b].order \in Orders \ {x, y}
        BY <2>2, <2>4, <3>2, OrdersTaken DEF InOrder, Asked, Sensible
      <4>2. QED
        BY <1>5, <1>7, <2>1, <2>4, <3>2, <4>1 DEF KnowsBill
    <3>3. CASE req[b].kind = "void"
      BY <1>4, <2>1, <2>4, <3>3, MoneyStays DEF KnowsBill
    <3>4. QED
      BY <2>1, <3>1, <3>2, <3>3 DEF KnowsBill
  <2>7. KnowsCash(b)'
    BY <1>4, <2>1, <2>4, MoneyStays DEF KnowsCash, InCash, OpenSessions
  <2>8. QED
    BY <2>5, <2>6, <2>7
<1>14. ASSUME NEW b \in Attempts
       PROVE  Charged(b)' /\ Tapped(b)'
  <2>1. Personal(b) /\ req'[b] = req[b] /\ (todo[b] = <<>> => todo'[b] = <<>>)
    BY <1>1, <1>2, Committing DEF IInv
  <2>2. Charged(b)'
    BY <1>4, <2>1 DEF Personal, Charged
  <2>3. payments[b].live => req[b].order \in Orders \ {x, y}
    BY <1>8, PaidOrder
  <2>4. payments[b].live =>
          /\ Balance(req[b].order)' = Balance(req[b].order)
          /\ orders'[req[b].order] = orders[req[b].order]
    BY <1>5, <1>7, <2>1, <2>3
  <2>5. Tapped(b)'
    BY <1>4, <2>1, <2>4, MoneyStays DEF Personal, Tapped
  <2>6. QED
    BY <2>2, <2>5
<1>15. DoubleTapPaysOnce'
  BY <1>2, <1>4 DEF IInv, DoubleTapPaysOnce, TwicePaid, GrewBetween
<1>16. /\ payments' \in [Bills -> [order : Orders \cup {None}, amount : Int,
                                   session : Sessions \cup {None},
                                   live : BOOLEAN, bill : Nat]]
       /\ sessions' \in [Sessions -> [state : {"none", "open", "closed"},
                                      signed : Int]]
       /\ invoices' \subseteq Orders
  BY <1>1, <1>4 DEF Rowed
<1>17. QED
  BY <1>1, <1>5, <1>9, <1>10, <1>11, <1>12, <1>13, <1>14, <1>15, <1>16, Committed

\* Two requests with one key are the same request.
LEMMA SameKey ==
  ASSUME IInv, NEW a \in Attempts, NEW b \in Attempts, req[a].key = req[b].key,
         req[a].kind # "none" \/ req[b].kind # "none"
  PROVE  req[a] = req[b]
<1>1. Asked(a) /\ Asked(b)
  BY DEF IInv, Personal
<1>2. req[a].key # None
  BY <1>1, TransactionsAssumption DEF Asked, Sensible
<1>3. QED
  BY <1>1, <1>2 DEF Asked

\* ... and the money is in or out of the open session, and of no other.
LEMMA CommitChargeKeepsInv ==
  ASSUME IInv, NEW a \in Attempts, CommitCharge(a)
  PROVE  /\ IInv'
         /\ \E s \in OpenSessions : \A r \in Sessions \ {s} : Taken(r)' = Taken(r)
<1>1. Commits(a, "charge") /\ "charge" \in Kinds /\ Rowed /\ Paying
  BY DEF CommitCharge, Kinds, IInv
<1>2. /\ req[a].kind = "charge" /\ At(a) = "commit" /\ req[a] \in Asks
      /\ note[a] \in Notes /\ Personal(a) /\ req' = req /\ todo[a] # <<>>
      /\ todo'[a] = <<>> /\ req[a].order \in Orders
      /\ InOrder(a) /\ InCash(a) /\ note[a].cash \in OpenSessions
      /\ \A b \in Attempts \ {a} : note'[b] = note[b] /\ At(b)' = At(b)
  <2>1. /\ req[a].kind = "charge" /\ At(a) = "commit" /\ req[a] \in Asks
        /\ note[a] \in Notes /\ Personal(a) /\ req' = req /\ todo[a] # <<>>
        /\ todo'[a] = <<>>
        /\ \A b \in Attempts \ {a} : note'[b] = note[b] /\ At(b)' = At(b)
    BY <1>1, Committing
  <2>2. InOrder(a) /\ InCash(a)
    BY <2>1 DEF InOrder, InCash
  <2>3. QED
    BY <2>1, <2>2 DEF Personal, KnowsCash, Asked, Sensible
<1> PICK x \in Orders, s \in OpenSessions, m \in Int :
      /\ x = req[a].order /\ s = note[a].cash
      /\ m = IF req[a].part THEN 1 ELSE note[a].balance
  BY <1>2 DEF Notes
<1>3. /\ payments' = [payments EXCEPT ![a] =
           [order |-> x, session |-> s, amount |-> m, live |-> TRUE,
            bill |-> orders[x].bill]]
      /\ orders' = [orders EXCEPT ![x].status =
           IF m = note[a].balance THEN "paid" ELSE @]
      /\ UNCHANGED <<sessions, invoices>>
  BY DEF CommitCharge
<1>4. /\ orders[x].status = "served" /\ note[a].balance = Balance(x)
      /\ req[a].part => req[a].seen = Balance(x)
      /\ Balance(x) \in Int /\ Balance(x) >= 1
  <2>1. /\ orders[x].status = "served" /\ note[a].balance = Balance(x)
        /\ req[a].part => req[a].seen = Balance(x)
    BY <1>2 DEF Personal, KnowsBill
  <2>2. Balance(x) \in Int
    BY <1>1, BalanceIs
  <2>3. QED
    BY <2>1, <2>2 DEF IInv, Owing, IsActive, Active
<1>5. m \in Int /\ m >= 1 /\ m <= Balance(x) /\ (~req[a].part => m = Balance(x))
  BY <1>4
<1>6. /\ a \in Bills /\ payments[a] = NoPayment /\ a \notin Live
      /\ s \in Sessions /\ sessions[s].state = "open"
  BY <1>2 DEF Bills, Personal, Charged, Live, NoPayment, OpenSessions
<1>7. /\ \A b \in Bills \ {a} : payments'[b] = payments[b]
      /\ payments'[a].order = x /\ payments'[a].session = s
      /\ payments'[a].amount = m /\ payments'[a].live
      /\ payments'[a].bill = orders[x].bill
      /\ payments' \in [Bills -> [order : Orders \cup {None}, amount : Int,
                                  session : Sessions \cup {None}, live : BOOLEAN,
                                  bill : Nat]]
  BY <1>1, <1>3, <1>5, <1>6 DEF Rowed
<1>8. /\ \A r \in Orders \ {x} : orders'[r] = orders[r]
      /\ orders'[x].status = IF m = Balance(x) THEN "paid" ELSE "served"
      /\ \A r \in Orders : /\ orders'[r].table = orders[r].table
                           /\ orders'[r].bill = orders[r].bill
                           /\ orders'[r].number = orders[r].number
                           /\ orders'[r].key = orders[r].key
      /\ orders' \in [Orders -> [status : Active \cup {"none", "paid", "cancelled"},
                                 table : Tables \cup {None}, number : Nat,
                                 bill : Nat, key : Attempts \cup {None}]]
  <2>1. orders' = [orders EXCEPT ![x].status =
                     IF m = Balance(x) THEN "paid" ELSE "served"]
    BY <1>3, <1>4
  <2>2. \A w \in {"paid", "served"} :
          w \in Active \cup {"none", "paid", "cancelled"}
    BY DEF Active
  <2>3. orders \in [Orders -> [status : Active \cup {"none", "paid", "cancelled"},
                              table : Tables \cup {None}, number : Nat,
                              bill : Nat, key : Attempts \cup {None}]]
    BY <1>1 DEF Rowed
  <2>4. QED
    BY <2>1, <2>2, <2>3
<1>9. /\ Live' = Live \cup {a}
      /\ \A r \in Orders \ {x} : PaymentsOf(r)' = PaymentsOf(r)
      /\ PaymentsOf(x)' = PaymentsOf(x) \cup {a}
      /\ \A r \in Sessions \ {s} : InSession(r)' = InSession(r)
  BY <1>6, <1>7 DEF Live, PaymentsOf, InSession
<1>10. /\ \A r \in Orders : Reopened(r)' <=> Reopened(r)
       /\ \A b \in Live : payments'[b] = payments[b]
  <2>1. \A r \in Orders : payments[a].order # r
    BY <1>6, TransactionsAssumption DEF NoPayment
  <2>2. QED
    BY <1>6, <1>7, <2>1 DEF Reopened, Live
<1>11. ASSUME NEW S \in SUBSET Live
       PROVE  SumOf([b \in S |-> payments'[b].amount])
                = SumOf([b \in S |-> payments[b].amount])
  BY <1>10
<1>12. \A r \in Orders \ {x} : Balance(r)' = Balance(r)
  <2>1. ASSUME NEW r \in Orders \ {x}
        PROVE  Balance(r)' = Balance(r)
    <3>1. PaymentsOf(r) \in SUBSET Live
      BY DEF PaymentsOf, Live
    <3>2. SumOf([b \in PaymentsOf(r) |-> payments'[b].amount])
            = SumOf([b \in PaymentsOf(r) |-> payments[b].amount])
      BY <1>11, <3>1
    <3>3. QED
      BY <1>8, <1>9, <3>2 DEF Balance
  <2>2. QED
    BY <2>1
<1>13. \A r \in Sessions \ {s} : Taken(r)' = Taken(r)
  <2>1. ASSUME NEW r \in Sessions \ {s}
        PROVE  Taken(r)' = Taken(r)
    <3>1. InSession(r) \in SUBSET Live
      BY DEF InSession, Live
    <3>2. SumOf([b \in InSession(r) |-> payments'[b].amount])
            = SumOf([b \in InSession(r) |-> payments[b].amount])
      BY <1>11, <3>1
    <3>3. QED
      BY <1>9, <3>2 DEF Taken
  <2>2. QED
    BY <2>1
<1>14. Balance(x)' = Balance(x) - m
  <2>1. PaymentsOf(x) \in SUBSET Live /\ a \in Bills \ PaymentsOf(x)
    BY <1>6 DEF PaymentsOf, Live
  <2>2. SumOf([b \in PaymentsOf(x) \cup {a} |-> payments'[b].amount])
          = payments'[a].amount + SumOf([b \in PaymentsOf(x) |-> payments[b].amount])
    <3>1. \A q : /\ q[a].amount \in Int
                 /\ \A c \in PaymentsOf(x) : q[c].amount = payments[c].amount
                 => SumOf([b \in PaymentsOf(x) \cup {a} |-> q[b].amount])
                      = q[a].amount
                          + SumOf([b \in PaymentsOf(x) |-> payments[b].amount])
      BY <1>1, <2>1, PaymentAdds
    <3>2. \A c \in PaymentsOf(x) : payments'[c].amount = payments[c].amount
      BY <1>10, <2>1
    <3>3. QED
      BY <1>5, <1>7, <3>1, <3>2
  <2>3. SumOf([b \in PaymentsOf(x) |-> payments[b].amount]) \in Int
    BY <1>1, <2>1, SumsAre
  <2>4. orders[x].bill \in Int
    BY <1>1 DEF Rowed
  <2>5. /\ Balance(x)' = orders'[x].bill
             - SumOf([b \in PaymentsOf(x) \cup {a} |-> payments'[b].amount])
        /\ Balance(x) = orders[x].bill
             - SumOf([b \in PaymentsOf(x) |-> payments[b].amount])
    BY <1>9 DEF Balance
  <2>6. orders'[x].bill = orders[x].bill /\ payments'[a].amount = m
    BY <1>7, <1>8
  <2>7. QED
    BY <2>2, <2>3, <2>4, <2>5, <2>6
<1>15. \A r \in Orders : /\ IsActive(r)' => IsActive(r)
                         /\ r # x => IsActive(r)' = IsActive(r)
                         /\ r # x => Mergeable(r)' = Mergeable(r)
  <2>1. ASSUME NEW r \in Orders
        PROVE  /\ IsActive(r)' => IsActive(r)
               /\ r # x => IsActive(r)' = IsActive(r)
    BY <1>4, <1>8 DEF IsActive, Active
  <2>2. QED
    BY <1>9, <2>1 DEF Mergeable
<1>16. Paying'
  <2>1. IsFiniteSet(Live')
    BY <1>1, <1>9, FS_AddElement DEF Paying
  <2>2. ASSUME NEW b \in Live'
        PROVE  /\ payments'[b].amount >= 1 /\ payments'[b].order \in Orders
               /\ payments'[b].session \in Sessions
               /\ orders'[payments'[b].order].status \in {"open", "served", "paid"}
    <3>1. CASE b = a
      BY <1>5, <1>6, <1>7, <1>8, <3>1
    <3>2. CASE b \in Live
      <4>1. payments'[b] = payments[b]
        BY <1>10, <3>2
      <4>2. QED
        BY <1>1, <1>8, <3>2, <4>1 DEF Paying
    <3>3. QED
      BY <1>9, <3>1, <3>2
  <2>3. QED
    BY <2>1, <2>2 DEF Paying
<1>17. Owing'
  <2>1. ASSUME NEW r \in Orders
        PROVE  /\ IsActive(r)' => Balance(r)' >= 1
               /\ orders'[r].status = "paid" => Balance(r)' = 0
    <3>1. CASE r = x
      <4>1. m # Balance(x) => Balance(x) - m >= 1
        BY <1>4, <1>5
      <4>2. m = Balance(x) => Balance(x) - m = 0
        BY <1>4
      <4>3. QED
        BY <1>8, <1>14, <3>1, <4>1, <4>2 DEF IsActive, Active
    <3>2. CASE r # x
      BY <1>8, <1>12, <1>15, <3>2 DEF IInv, Owing
    <3>3. QED
      BY <3>1, <3>2
  <2>2. QED
    BY <2>1 DEF Owing
<1>18. OpenSessions' = OpenSessions /\ sessions' = sessions
  BY <1>3 DEF OpenSessions
<1>19. Counted' /\ OneOpens'
  <2>1. \A b \in Attempts : Opening(b)' => Opening(b)
    BY <1>2, <1>1, Committing DEF Opening
  <2>2. Counted'
    BY <1>6, <1>13, <1>18 DEF IInv, Counted
  <2>3. QED
    BY <1>18, <2>1, <2>2 DEF IInv, OneOpens
<1>20. Seated'
  <2>1. ASSUME NEW o \in Orders, NEW r \in Orders, o # r, IsActive(o)',
               IsActive(r)', orders'[o].table = orders'[r].table
        PROVE  (Reopened(o) \/ Reopened(r))'
    <3>1. IsActive(o) /\ IsActive(r) /\ orders[o].table = orders[r].table
      BY <1>8, <1>15, <2>1
    <3>2. Reopened(o) \/ Reopened(r)
      BY <2>1, <3>1 DEF IInv, Seated
    <3>3. QED
      BY <1>10, <3>2
  <2>2. QED
    BY <2>1 DEF Seated
<1>21. ASSUME NEW b \in Attempts \ {a}
       PROVE  KnowsSeat(b)' /\ KnowsBill(b)' /\ KnowsCash(b)'
  <2>1. /\ req'[b] = req[b] /\ note'[b] = note[b] /\ At(b)' = At(b)
        /\ Asked(b) /\ KnowsBill(b) /\ KnowsSeat(b) /\ KnowsCash(b)
    BY <1>2 DEF IInv, Personal
  <2>2. /\ ~InCash(b)
        /\ InOrder(b) => First(req[b]) # x
        /\ InOther(b) => Second(req[b]) # x
    BY <1>2, OthersApart, OrdersTaken
  <2>3. KnowsSeat(b)'
    <3>1. \A t : ActiveAt(t)' \subseteq ActiveAt(t) /\ ActiveAt(t) \subseteq Orders
      BY <1>8, <1>15 DEF ActiveAt
    <3>2. req[b].kind \in {"add", "move"} /\ At(b) \in {"seat", "write", "commit"}
            => req[b].order \in Orders \ {x}
      BY <2>1, <2>2, OrdersTaken DEF InOrder, Asked, Sensible
    <3>3. QED
      BY <1>8, <1>10, <1>15, <2>1, <3>1, <3>2 DEF KnowsSeat
  <2>4. KnowsBill(b)'
    <3>1. CASE req[b].kind = "merge" /\ At(b) \in {"write", "commit"}
      <4>1. req[b].order \in Orders \ {x} /\ req[b].other \in Orders \ {x}
        BY <2>1, <2>2, <3>1, OrdersTaken DEF InOrder, InOther, Asked, Sensible
      <4>2. QED
        BY <1>15, <2>1, <3>1, <4>1 DEF KnowsBill
    <3>2. CASE req[b].kind = "charge" /\ At(b) \in {"cash", "write", "commit"}
      <4>1. req[b].order \in Orders \ {x}
        BY <2>1, <2>2, <3>2, OrdersTaken DEF InOrder, Asked, Sensible
      <4>2. QED
        BY <1>8, <1>12, <2>1, <3>2, <4>1 DEF KnowsBill
    <3>3. CASE req[b].kind = "void"
      <4>1. \A o \in Orders : PaymentsOf(o) \subseteq PaymentsOf(o)'
        BY <1>9
      <4>2. req[b].order \in Orders
        BY <2>1, <3>3 DEF Asked, Sensible
      <4>3. QED
        BY <2>1, <3>3, <4>1, <4>2 DEF KnowsBill
    <3>4. QED
      BY <2>1, <3>1, <3>2, <3>3 DEF KnowsBill
  <2>5. KnowsCash(b)'
    BY <2>1, <2>2 DEF KnowsCash, InCash
  <2>6. QED
    BY <2>3, <2>4, <2>5
<1>22. ASSUME NEW b \in Attempts
       PROVE  Charged(b)' /\ Tapped(b)'
  <2>1. Charged(b)'
    <3>1. CASE b = a
      BY <1>2, <1>7, <3>1 DEF Charged
    <3>2. CASE b # a
      <4>1. Charged(b) /\ req'[b] = req[b] /\ todo'[b] = todo[b]
        BY <1>1, <1>2, <3>2, Committing DEF IInv, Personal
      <4>2. payments'[b] = payments[b]
        BY <1>7, <3>2 DEF Bills
      <4>3. QED
        BY <4>1, <4>2 DEF Charged
    <3>3. QED
      BY <3>1, <3>2
  <2>2. Tapped(b)'
    <3>1. CASE b = a
      <4>1. ~req[a].part => orders'[x].status = "paid"
        BY <1>4, <1>5, <1>8
      <4>2. orders[x].bill \in Int
        BY <1>1 DEF Rowed
      <4>3. req[a].part =>
              Balance(x)' + m + orders[x].bill <= req[a].seen + orders[x].bill
        BY <1>4, <1>5, <1>14, <4>2
      <4>4. QED
        BY <1>2, <1>7, <1>8, <3>1, <4>1, <4>3 DEF Tapped
    <3>2. CASE b # a /\ payments[b].live
      <4>1. req[b].order \in Orders /\ Tapped(b)
        BY <3>2, PaidOrder DEF IInv, Personal
      <4>2. CASE req[b].order = x
        <5>1. ~Reopened(x) =>
                /\ req[b].part
                /\ Balance(x) + payments[b].amount + payments[b].bill
                     <= req[b].seen + orders[x].bill
          BY <1>4, <3>2, <4>1, <4>2 DEF Tapped
        <5>2. req[b] \in Asks /\ payments[b].amount \in Int
              /\ payments[b].bill \in Int /\ orders[x].bill \in Int
          BY <1>1 DEF Rowed, Bills
        <5>3. req[b].seen \in Int
          BY <5>2 DEF Asks
        <5>4. ~Reopened(x) =>
                Balance(x)' + payments[b].amount + payments[b].bill
                  <= req[b].seen + orders[x].bill
          BY <1>4, <1>5, <1>14, <5>1, <5>2, <5>3
        <5>5. payments'[b] = payments[b]
          BY <1>7, <3>2 DEF Bills
        <5>6. QED
          BY <1>2, <1>8, <1>10, <4>2, <5>1, <5>4, <5>5 DEF Tapped
      <4>3. CASE req[b].order # x
        <5>1. payments'[b] = payments[b]
          BY <1>7, <3>2 DEF Bills
        <5>2. QED
          BY <1>2, <1>8, <1>10, <1>12, <3>2, <4>1, <4>3, <5>1 DEF Tapped
      <4>4. QED
        BY <4>2, <4>3
    <3>3. CASE b # a /\ ~payments[b].live
      BY <1>7, <3>3 DEF Tapped, Bills
    <3>4. QED
      BY <3>1, <3>2, <3>3
  <2>3. QED
    BY <2>1, <2>2
<1>23. DoubleTapPaysOnce'
  <2>1. ASSUME NEW b \in Attempts \ {a}, payments[b].live,
               req[a].key = req[b].key
        PROVE  /\ payments[b].order = x
               /\ Reopened(x) \/ payments[b].bill + payments[b].amount
                                   <= orders[x].bill
    <3>1. req[b] = req[a]
      BY <1>2, <2>1, SameKey
    <3>2. Tapped(b) /\ payments[b].order = x
      BY <2>1, <3>1, PaidOrder DEF IInv, Personal
    <3>3. ~Reopened(x) =>
            /\ req[a].part
            /\ Balance(x) + payments[b].amount + payments[b].bill
                 <= req[a].seen + orders[x].bill
      BY <1>4, <2>1, <3>1, <3>2 DEF Tapped
    <3>4. /\ payments[b].amount \in Int /\ payments[b].bill \in Int
          /\ orders[x].bill \in Int
      BY <1>1 DEF Rowed, Bills
    <3>5. QED
      BY <1>4, <3>2, <3>3, <3>4
  <2>2. ASSUME NEW c \in Attempts, NEW d \in Attempts, TwicePaid(c, d)'
        PROVE  \/ \E o \in Orders : payments'[c].order = o /\ Reopened(o)'
               \/ GrewBetween(c, d)' \/ GrewBetween(d, c)'
    <3>1. CASE c = a
      <4>1. /\ d # a /\ payments[d].live /\ req[a].key = req[d].key
            /\ payments'[d] = payments[d]
        BY <1>2, <1>7, <2>2, <3>1 DEF TwicePaid, Bills
      <4>2. \/ Reopened(x)
            \/ payments[d].bill + payments[d].amount <= orders[x].bill
        BY <2>1, <4>1
      <4>3. CASE Reopened(x)
        BY <1>7, <1>10, <3>1, <4>3
      <4>4. CASE payments[d].bill + payments[d].amount <= orders[x].bill
        BY <1>7, <3>1, <4>1, <4>4 DEF GrewBetween
      <4>5. QED
        BY <4>2, <4>3, <4>4
    <3>2. CASE d = a /\ c # a
      <4>1. /\ c # a /\ payments[c].live /\ req[a].key = req[c].key
            /\ payments'[c] = payments[c]
        BY <1>2, <1>7, <2>2, <3>2 DEF TwicePaid, Bills
      <4>2. /\ payments'[c].order = x
            /\ \/ Reopened(x)
               \/ payments[c].bill + payments[c].amount <= orders[x].bill
        BY <2>1, <4>1
      <4>3. CASE Reopened(x)
        BY <1>10, <4>2, <4>3
      <4>4. CASE payments[c].bill + payments[c].amount <= orders[x].bill
        BY <1>7, <3>2, <4>1, <4>4 DEF GrewBetween
      <4>5. QED
        BY <4>2, <4>3, <4>4
    <3>3. CASE c # a /\ d # a
      <4>1. /\ TwicePaid(c, d) /\ payments'[c] = payments[c]
            /\ payments'[d] = payments[d] /\ payments[c].live
        BY <1>2, <1>7, <2>2, <3>3 DEF TwicePaid, Bills
      <4>2. \/ Reopened(payments[c].order)
            \/ GrewBetween(c, d) \/ GrewBetween(d, c)
        BY <4>1 DEF IInv, DoubleTapPaysOnce, Reopened
      <4>3. payments[c].order \in Orders
        BY <4>1, PaidOrder
      <4>4. QED
        BY <1>10, <4>1, <4>2, <4>3 DEF GrewBetween
    <3>4. QED
      BY <3>1, <3>2, <3>3
  <2>3. QED
    BY <2>2 DEF DoubleTapPaysOnce, Reopened
<1>24. /\ sessions' \in [Sessions -> [state : {"none", "open", "closed"},
                                      signed : Int]]
       /\ invoices' \subseteq Orders
  BY <1>1, <1>3 DEF Rowed
<1>25. IInv'
  BY <1>1, <1>7, <1>8, <1>16, <1>17, <1>19, <1>20, <1>21, <1>22, <1>23, <1>24,
     Committed
<1>26. QED
  BY <1>13, <1>25

\* ... and the money is in or out of the open session, and of no other.
LEMMA CommitVoidKeepsInv ==
  ASSUME IInv, NEW a \in Attempts, CommitVoid(a)
  PROVE  /\ IInv'
         /\ \E s \in OpenSessions : \A r \in Sessions \ {s} : Taken(r)' = Taken(r)
<1>1. Commits(a, "void") /\ "void" \in Kinds /\ Rowed /\ Paying
  BY DEF CommitVoid, Kinds, IInv
<1>2. /\ req[a].kind = "void" /\ At(a) = "commit" /\ Personal(a) /\ req' = req
      /\ req[a].order \in Orders /\ note[a].payment \in PaymentsOf(req[a].order)
      /\ InOrder(a) /\ InCash(a) /\ note[a].cash \in OpenSessions
      /\ payments[note[a].payment].session = note[a].cash
      /\ \A b \in Attempts \ {a} : note'[b] = note[b] /\ At(b)' = At(b)
  <2>1. /\ req[a].kind = "void" /\ At(a) = "commit" /\ Personal(a) /\ req' = req
        /\ \A b \in Attempts \ {a} : note'[b] = note[b] /\ At(b)' = At(b)
    BY <1>1, Committing
  <2>2. InOrder(a) /\ InCash(a)
    BY <2>1 DEF InOrder, InCash
  <2>3. QED
    BY <2>1, <2>2 DEF Personal, KnowsBill, KnowsCash, Asked, Sensible
<1> PICK x \in Orders, s \in OpenSessions, p \in Bills :
      /\ x = req[a].order /\ s = note[a].cash /\ p = note[a].payment
      /\ p \in PaymentsOf(x) /\ payments[p].session = s
  BY <1>2 DEF PaymentsOf
<1>3. /\ payments' = [payments EXCEPT ![p].live = FALSE]
      /\ orders' = [orders EXCEPT ![x].status = "served"]
      /\ UNCHANGED <<sessions, invoices>>
  BY DEF CommitVoid
<1>4. /\ p \in Bills /\ p \in Live /\ payments[p].order = x
      /\ s \in Sessions /\ sessions[s].state = "open"
      /\ orders[x].status \in {"open", "served", "paid"}
      /\ payments[p].amount \in Int /\ payments[p].amount >= 1
  BY <1>1 DEF PaymentsOf, Live, OpenSessions, Paying, Rowed
<1>5. /\ \A b \in Bills \ {p} : payments'[b] = payments[b]
      /\ ~payments'[p].live
      /\ \A b \in Bills : /\ payments'[b].order = payments[b].order
                          /\ payments'[b].amount = payments[b].amount
                          /\ payments'[b].bill = payments[b].bill
                          /\ payments'[b].session = payments[b].session
                          /\ payments'[b].live => payments[b].live
      /\ payments' \in [Bills -> [order : Orders \cup {None}, amount : Int,
                                  session : Sessions \cup {None}, live : BOOLEAN,
                                  bill : Nat]]
  <2> DEFINE Row == [order : Orders \cup {None}, amount : Int,
                     session : Sessions \cup {None}, live : BOOLEAN, bill : Nat]
             q == [payments[p] EXCEPT !.live = FALSE]
  <2>1. payments \in [Bills -> Row] /\ payments' = [payments EXCEPT ![p] = q]
    BY <1>1, <1>3 DEF Rowed
  <2>2. /\ q \in Row /\ ~q.live /\ q.order = payments[p].order
        /\ q.amount = payments[p].amount /\ q.session = payments[p].session
        /\ q.bill = payments[p].bill
    BY <1>4, <2>1
  <2>3. /\ payments' \in [Bills -> Row] /\ payments'[p] = q
        /\ \A b \in Bills \ {p} : payments'[b] = payments[b]
    <3> HIDE DEF q, Row
    <3> QED
      BY <1>4, <2>1, <2>2
  <2>4. \A b \in Bills : /\ payments'[b].order = payments[b].order
                         /\ payments'[b].amount = payments[b].amount
                         /\ payments'[b].bill = payments[b].bill
                         /\ payments'[b].session = payments[b].session
                         /\ payments'[b].live => payments[b].live
    <3> HIDE DEF q, Row
    <3> QED
      BY <2>2, <2>3
  <2>5. QED
    <3> HIDE DEF q
    <3> QED
      BY <2>2, <2>3, <2>4
<1>6. /\ \A r \in Orders \ {x} : orders'[r] = orders[r]
      /\ orders'[x].status = "served"
      /\ \A r \in Orders : /\ orders'[r].table = orders[r].table
                           /\ orders'[r].bill = orders[r].bill
                           /\ orders'[r].number = orders[r].number
                           /\ orders'[r].key = orders[r].key
      /\ orders' \in [Orders -> [status : Active \cup {"none", "paid", "cancelled"},
                                 table : Tables \cup {None}, number : Nat,
                                 bill : Nat, key : Attempts \cup {None}]]
  BY <1>1, <1>3 DEF Rowed, Active
<1>7. /\ Live' = Live \ {p}
      /\ \A r \in Orders \ {x} : PaymentsOf(r)' = PaymentsOf(r)
      /\ PaymentsOf(x)' = PaymentsOf(x) \ {p}
      /\ \A r \in Sessions \ {s} : InSession(r)' = InSession(r)
  BY <1>4, <1>5 DEF Live, PaymentsOf, InSession
<1>8. Reopened(x)' /\ \A r \in Orders : Reopened(r) => Reopened(r)'
  BY <1>4, <1>5 DEF Reopened
<1>9. ASSUME NEW S \in SUBSET Live
      PROVE  SumOf([b \in S |-> payments'[b].amount])
               = SumOf([b \in S |-> payments[b].amount])
  BY <1>5 DEF Live
<1>10. \A r \in Orders \ {x} : Balance(r)' = Balance(r)
  <2>1. ASSUME NEW r \in Orders \ {x}
        PROVE  Balance(r)' = Balance(r)
    <3>1. PaymentsOf(r) \in SUBSET Live
      BY DEF PaymentsOf, Live
    <3>2. SumOf([b \in PaymentsOf(r) |-> payments'[b].amount])
            = SumOf([b \in PaymentsOf(r) |-> payments[b].amount])
      BY <1>9, <3>1
    <3>3. QED
      BY <1>6, <1>7, <3>2 DEF Balance
  <2>2. QED
    BY <2>1
<1>11. \A r \in Sessions \ {s} : Taken(r)' = Taken(r)
  <2>1. ASSUME NEW r \in Sessions \ {s}
        PROVE  Taken(r)' = Taken(r)
    <3>1. InSession(r) \in SUBSET Live
      BY DEF InSession, Live
    <3>2. SumOf([b \in InSession(r) |-> payments'[b].amount])
            = SumOf([b \in InSession(r) |-> payments[b].amount])
      BY <1>9, <3>1
    <3>3. QED
      BY <1>7, <3>2 DEF Taken
  <2>2. QED
    BY <2>1
<1>12. Balance(x)' >= 1
  <2> DEFINE S == PaymentsOf(x) \ {p}
  <2>1. S \in SUBSET Live /\ p \in Bills \ S /\ S \cup {p} = PaymentsOf(x)
    BY <1>4 DEF PaymentsOf, Live
  <2>2. SumOf([b \in S \cup {p} |-> payments[b].amount])
          = payments[p].amount + SumOf([b \in S |-> payments[b].amount])
    <3> HIDE DEF S
    <3> QED
      BY <1>1, <1>4, <2>1, PaymentAdds
  <2>3. /\ SumOf([b \in S |-> payments[b].amount]) \in Int
        /\ SumOf([b \in S |-> payments'[b].amount])
             = SumOf([b \in S |-> payments[b].amount])
    <3> HIDE DEF S
    <3> QED
      BY <1>1, <1>9, <2>1, SumsAre
  <2>4. /\ Balance(x)' = orders'[x].bill
             - SumOf([b \in S |-> payments'[b].amount])
        /\ Balance(x) = orders[x].bill
             - SumOf([b \in S \cup {p} |-> payments[b].amount])
    BY <1>7, <2>1 DEF Balance
  <2>5. Balance(x) >= 0 /\ Balance(x) \in Int /\ orders[x].bill \in Int
    <3>1. Balance(x) \in Int /\ orders[x].bill \in Int
      BY <1>1, BalanceIs DEF Rowed
    <3>2. Balance(x) >= 1 \/ Balance(x) = 0
      BY <1>4 DEF IInv, Owing, IsActive, Active
    <3>3. QED
      BY <3>1, <3>2
  <2>6. QED
    <3> HIDE DEF S
    <3> QED
      BY <1>4, <1>6, <2>2, <2>3, <2>4, <2>5
<1>13. \A r \in Orders \ {x} : /\ IsActive(r)' = IsActive(r)
                             /\ Mergeable(r)' = Mergeable(r)
  <2>1. ASSUME NEW r \in Orders \ {x}
        PROVE  IsActive(r)' = IsActive(r)
    <3>1. orders'[r] = orders[r]
      BY <1>6
    <3>2. QED
      BY <3>1 DEF IsActive, Active
  <2>2. QED
    BY <1>7, <2>1 DEF Mergeable
<1>14. Paying'
  <2>1. IsFiniteSet(Live')
    BY <1>1, <1>7, FS_RemoveElement DEF Paying
  <2>2. ASSUME NEW b \in Live'
        PROVE  /\ payments'[b].amount >= 1 /\ payments'[b].order \in Orders
               /\ payments'[b].session \in Sessions
               /\ orders'[payments'[b].order].status \in {"open", "served", "paid"}
    <3>1. b \in Live /\ payments'[b] = payments[b]
      BY <1>5, <1>7, <2>2 DEF Live
    <3>2. QED
      BY <1>1, <1>6, <3>1 DEF Paying
  <2>3. QED
    BY <2>1, <2>2 DEF Paying
<1>15. Owing'
  <2>1. ASSUME NEW r \in Orders
        PROVE  /\ IsActive(r)' => Balance(r)' >= 1
               /\ orders'[r].status = "paid" => Balance(r)' = 0
    <3>1. CASE r = x
      BY <1>6, <1>12, <3>1
    <3>2. CASE r # x
      BY <1>6, <1>10, <1>13, <3>2 DEF IInv, Owing
    <3>3. QED
      BY <3>1, <3>2
  <2>2. QED
    BY <2>1 DEF Owing
<1>16. OpenSessions' = OpenSessions /\ sessions' = sessions
  BY <1>3 DEF OpenSessions
<1>17. Counted' /\ OneOpens'
  <2>1. \A b \in Attempts : Opening(b)' => Opening(b)
    BY <1>2, <1>1, Committing DEF Opening
  <2>2. Counted'
    BY <1>4, <1>11, <1>16 DEF IInv, Counted
  <2>3. QED
    BY <1>16, <2>1, <2>2 DEF IInv, OneOpens
<1>18. Seated'
  <2>1. ASSUME NEW o \in Orders, NEW r \in Orders, o # r, IsActive(o)',
               IsActive(r)', orders'[o].table = orders'[r].table
        PROVE  (Reopened(o) \/ Reopened(r))'
    <3>1. CASE x \in {o, r}
      BY <1>8, <3>1
    <3>2. CASE x \notin {o, r}
      BY <1>6, <1>8, <1>13, <2>1, <3>2 DEF IInv, Seated
    <3>3. QED
      BY <3>1, <3>2
  <2>2. QED
    BY <2>1 DEF Seated
<1>19. ASSUME NEW b \in Attempts \ {a}
       PROVE  KnowsSeat(b)' /\ KnowsBill(b)' /\ KnowsCash(b)'
  <2>1. /\ req'[b] = req[b] /\ note'[b] = note[b] /\ At(b)' = At(b)
        /\ Asked(b) /\ KnowsBill(b) /\ KnowsSeat(b) /\ KnowsCash(b)
    BY <1>2 DEF IInv, Personal
  <2>2. /\ ~InCash(b)
        /\ InOrder(b) => First(req[b]) # x
        /\ InOther(b) => Second(req[b]) # x
    BY <1>2, OthersApart, OrdersTaken
  <2>3. KnowsSeat(b)'
    <3>1. \A t : /\ ActiveAt(t)' \subseteq ActiveAt(t) \cup {x}
                 /\ ActiveAt(t) \subseteq Orders
      BY <1>6, <1>13 DEF ActiveAt
    <3>2. req[b].kind \in {"add", "move"} /\ At(b) \in {"seat", "write", "commit"}
            => req[b].order \in Orders \ {x}
      BY <2>1, <2>2, OrdersTaken DEF InOrder, Asked, Sensible
    <3>3. QED
      BY <1>6, <1>8, <1>13, <2>1, <3>1, <3>2 DEF KnowsSeat
  <2>4. KnowsBill(b)'
    <3>1. CASE req[b].kind = "merge" /\ At(b) \in {"write", "commit"}
      <4>1. req[b].order \in Orders \ {x} /\ req[b].other \in Orders \ {x}
        BY <2>1, <2>2, <3>1, OrdersTaken DEF InOrder, InOther, Asked, Sensible
      <4>2. QED
        BY <1>13, <2>1, <3>1, <4>1 DEF KnowsBill
    <3>2. CASE req[b].kind = "charge" /\ At(b) \in {"cash", "write", "commit"}
      <4>1. req[b].order \in Orders \ {x}
        BY <2>1, <2>2, <3>2, OrdersTaken DEF InOrder, Asked, Sensible
      <4>2. QED
        BY <1>6, <1>10, <2>1, <3>2, <4>1 DEF KnowsBill
    <3>3. CASE /\ req[b].kind = "void"
               /\ At(b) \in {"invoiced", "cash", "write", "commit"}
      <4>1. req[b].order \in Orders \ {x}
        BY <2>1, <2>2, <3>3, OrdersTaken DEF InOrder, Asked, Sensible
      <4>2. QED
        BY <1>7, <2>1, <3>3, <4>1 DEF KnowsBill
    <3>4. QED
      BY <2>1, <3>1, <3>2, <3>3 DEF KnowsBill
  <2>5. KnowsCash(b)'
    BY <2>1, <2>2 DEF KnowsCash, InCash
  <2>6. QED
    BY <2>3, <2>4, <2>5
<1>20. ASSUME NEW b \in Attempts
       PROVE  Charged(b)' /\ Tapped(b)'
  <2>1. /\ Personal(b) /\ req' = req /\ (todo[b] = <<>> => todo'[b] = <<>>)
        /\ b \in Bills
    BY <1>1, <1>2, Committing DEF IInv, Bills
  <2>2. Charged(b)'
    <3>1. CASE b = p
      BY <1>4, <1>5, <2>1, <3>1 DEF Personal, Charged, Live, NoPayment
    <3>2. CASE b # p
      BY <1>5, <2>1, <3>2 DEF Personal, Charged
    <3>3. QED
      BY <3>1, <3>2
  <2>3. Tapped(b)'
    <3>1. CASE payments'[b].live /\ req[b].order # x
      <4>1. payments[b].live /\ req[b].order \in Orders /\ Tapped(b)
        BY <1>5, <2>1, <3>1, PaidOrder DEF Personal
      <4>2. QED
        BY <1>5, <1>6, <1>8, <1>10, <2>1, <3>1, <4>1 DEF Tapped
    <3>2. CASE req[b].order = x
      BY <1>8, <2>1, <3>2 DEF Tapped
    <3>3. CASE ~payments'[b].live
      BY <3>3 DEF Tapped
    <3>4. QED
      BY <3>1, <3>2, <3>3
  <2>4. QED
    BY <2>2, <2>3
<1>21. DoubleTapPaysOnce'
  <2>1. ASSUME NEW c \in Attempts, NEW d \in Attempts, TwicePaid(c, d)'
        PROVE  \/ \E e \in Bills : /\ payments'[e].order = payments'[c].order
                                   /\ ~payments'[e].live
               \/ GrewBetween(c, d)' \/ GrewBetween(d, c)'
    <3>1. TwicePaid(c, d) /\ c \in Bills /\ d \in Bills
      BY <1>2, <1>5, <2>1 DEF TwicePaid, Bills
    <3>2. CASE \E e \in Bills : /\ payments[e].order = payments[c].order
                                /\ ~payments[e].live
      BY <1>5, <3>1, <3>2
    <3>3. CASE GrewBetween(c, d) \/ GrewBetween(d, c)
      BY <1>5, <3>1, <3>3 DEF GrewBetween
    <3>4. QED
      BY <3>1, <3>2, <3>3 DEF IInv, DoubleTapPaysOnce
  <2>2. QED
    BY <2>1 DEF DoubleTapPaysOnce
<1>22. /\ sessions' \in [Sessions -> [state : {"none", "open", "closed"},
                                      signed : Int]]
       /\ invoices' \subseteq Orders
  BY <1>1, <1>3 DEF Rowed
<1>23. IInv'
  BY <1>1, <1>5, <1>6, <1>14, <1>15, <1>17, <1>18, <1>19, <1>20, <1>21, <1>22,
     Committed
<1>24. QED
  BY <1>11, <1>23

\* What a commit that leaves orders and payments alone cannot disturb.
LEMMA LedgerStays ==
  ASSUME IInv, NEW a \in Attempts, NEW kind \in Kinds, Commits(a, kind),
         UNCHANGED <<orders, payments>>
  PROVE  /\ Paying' /\ Owing' /\ Seated' /\ DoubleTapPaysOnce'
         /\ \A b \in Attempts \ {a} : KnowsSeat(b)' /\ KnowsBill(b)'
         /\ \A b \in Attempts : Charged(b)' /\ Tapped(b)'
         /\ \A s : Taken(s)' = Taken(s)
<1>1. /\ req' = req /\ todo'[a] = <<>>
      /\ \A b \in Attempts \ {a} : /\ note'[b] = note[b] /\ At(b)' = At(b)
                                 /\ todo'[b] = todo[b]
  BY Committing
<1>2. /\ \A o : /\ Balance(o)' = Balance(o) /\ IsActive(o)' = IsActive(o)
                /\ PaymentsOf(o)' = PaymentsOf(o)
                /\ Reopened(o)' = Reopened(o) /\ Mergeable(o)' = Mergeable(o)
      /\ \A t : ActiveAt(t)' = ActiveAt(t)
      /\ \A s : Taken(s)' = Taken(s)
      /\ Live' = Live /\ orders' = orders /\ payments' = payments
  BY DEF Balance, PaymentsOf, IsActive, Reopened, Mergeable, ActiveAt, Taken,
         InSession, Live
<1>3. Paying' /\ Owing' /\ Seated'
  BY <1>2 DEF IInv, Paying, Owing, Seated
<1>4. DoubleTapPaysOnce'
  BY <1>1, <1>2 DEF IInv, DoubleTapPaysOnce, TwicePaid, GrewBetween
<1>5. ASSUME NEW b \in Attempts \ {a}
      PROVE  KnowsSeat(b)' /\ KnowsBill(b)'
  <2>1. KnowsSeat(b) /\ KnowsBill(b)
    BY DEF IInv, Personal
  <2>2. KnowsSeat(b)'
    BY <1>1, <1>2, <2>1 DEF KnowsSeat
  <2>3. KnowsBill(b)'
    BY <1>1, <1>2, <2>1 DEF KnowsBill
  <2>4. QED
    BY <2>2, <2>3
<1>6. ASSUME NEW b \in Attempts
      PROVE  Charged(b)' /\ Tapped(b)'
  <2>1. Charged(b) /\ Tapped(b)
    BY DEF IInv, Personal
  <2>2. Charged(b)'
    BY <1>1, <1>2, <2>1 DEF Charged
  <2>3. Tapped(b)'
    BY <1>1, <1>2, <2>1 DEF Tapped
  <2>4. QED
    BY <2>2, <2>3
<1>7. QED
  BY <1>2, <1>3, <1>4, <1>5, <1>6

LEMMA CommitOpenCashKeepsInv ==
  ASSUME IInv, NEW a \in Attempts, CommitOpenCash(a)
  PROVE  IInv'
<1>1. /\ Commits(a, "opencash") /\ "opencash" \in Kinds /\ Rowed
      /\ UNCHANGED <<orders, payments, invoices>>
  BY DEF CommitOpenCash, Kinds, IInv
<1>2. PICK s \in Sessions : /\ sessions[s].state = "none"
                            /\ sessions' = [sessions EXCEPT ![s].state = "open"]
  BY DEF CommitOpenCash
<1>3. /\ \A r \in Sessions \ {s} : sessions'[r] = sessions[r]
      /\ sessions'[s].state = "open"
      /\ sessions' \in [Sessions -> [state : {"none", "open", "closed"},
                                     signed : Int]]
  BY <1>1, <1>2 DEF Rowed
<1>4. /\ Opening(a) /\ req' = req /\ At(a)' = "done"
      /\ \A b \in Attempts \ {a} : At(b)' = At(b)
  BY <1>1, Committing DEF Opening
<1>5. OpenSessions = {} /\ \A b \in Attempts \ {a} : ~Opening(b)
  BY <1>4 DEF IInv, OneOpens
<1>6. OneOpens'
  <2>1. \A b \in Attempts : ~Opening(b)'
    BY <1>4, <1>5 DEF Opening
  <2>2. \A r \in Sessions : sessions'[r].state = "open" => r = s
    BY <1>3, <1>5 DEF OpenSessions
  <2>3. QED
    BY <2>1, <2>2 DEF OneOpens, OpenSessions
<1>7. Counted'
  <2>1. \A r : Taken(r)' = Taken(r)
    BY <1>1, LedgerStays
  <2>2. QED
    BY <1>3, <2>1 DEF IInv, Counted
<1>8. \A b \in Attempts \ {a} : KnowsCash(b)'
  BY <1>4, <1>5 DEF IInv, Personal, KnowsCash, InCash
<1>9. /\ orders' \in [Orders -> [status : Active \cup {"none", "paid", "cancelled"},
                                 table : Tables \cup {None}, number : Nat,
                                 bill : Nat, key : Attempts \cup {None}]]
      /\ payments' \in [Bills -> [order : Orders \cup {None}, amount : Int,
                                  session : Sessions \cup {None},
                                  live : BOOLEAN, bill : Nat]]
      /\ invoices' \subseteq Orders
  BY <1>1 DEF Rowed
<1>10. QED
  BY <1>1, <1>3, <1>6, <1>7, <1>8, <1>9, LedgerStays, Committed

LEMMA CommitCloseKeepsInv ==
  ASSUME IInv, NEW a \in Attempts, CommitClose(a)
  PROVE  IInv'
<1>1. /\ Commits(a, "close") /\ "close" \in Kinds /\ Rowed /\ Paying
      /\ UNCHANGED <<orders, payments, invoices>>
  BY DEF CommitClose, Kinds, IInv
<1>2. /\ req[a].kind = "close" /\ At(a) = "commit" /\ Personal(a) /\ req' = req
      /\ At(a)' = "done"
      /\ \A b \in Attempts \ {a} : note'[b] = note[b] /\ At(b)' = At(b)
  BY <1>1, Committing
<1>3. /\ InCash(a) /\ note[a].cash \in OpenSessions
      /\ note[a].taken = Taken(note[a].cash)
  BY <1>2 DEF Personal, KnowsCash, InCash
<1> PICK s \in OpenSessions : s = note[a].cash
  BY <1>3
<1>4. s \in Sessions /\ sessions[s].state = "open" /\ Taken(s) \in Int
  BY <1>1, TakenIs DEF OpenSessions
<1>5. sessions' = [sessions EXCEPT ![s] = [state |-> "closed", signed |-> Taken(s)]]
  BY <1>3 DEF CommitClose
<1>6. /\ \A r \in Sessions \ {s} : sessions'[r] = sessions[r]
      /\ sessions'[s].state = "closed" /\ sessions'[s].signed = Taken(s)
      /\ sessions' \in [Sessions -> [state : {"none", "open", "closed"},
                                     signed : Int]]
  BY <1>1, <1>4, <1>5 DEF Rowed
<1>7. OneOpens'
  <2>1. \A b \in Attempts : ~Opening(b)'
    BY <1>2 DEF Opening, IInv, OneOpens
  <2>2. OpenSessions' \subseteq OpenSessions
    BY <1>6 DEF OpenSessions
  <2>3. QED
    BY <2>1, <2>2 DEF IInv, OneOpens
<1>8. Counted'
  <2>1. \A r : Taken(r)' = Taken(r)
    BY <1>1, LedgerStays
  <2>2. QED
    BY <1>6, <2>1 DEF IInv, Counted
<1>9. ASSUME NEW b \in Attempts \ {a}
      PROVE  KnowsCash(b)'
  <2>1. ~InCash(b)
    BY <1>3, OthersApart
  <2>2. QED
    BY <1>2, <2>1 DEF KnowsCash, InCash
<1>10. /\ orders' \in [Orders -> [status : Active \cup {"none", "paid", "cancelled"},
                                 table : Tables \cup {None}, number : Nat,
                                 bill : Nat, key : Attempts \cup {None}]]
       /\ payments' \in [Bills -> [order : Orders \cup {None}, amount : Int,
                                  session : Sessions \cup {None},
                                  live : BOOLEAN, bill : Nat]]
       /\ invoices' \subseteq Orders
  BY <1>1 DEF Rowed
<1>11. QED
  BY <1>1, <1>6, <1>7, <1>8, <1>9, <1>10, LedgerStays, Committed

LEMMA CommitIssueKeepsInv ==
  ASSUME IInv, NEW a \in Attempts, CommitIssue(a)
  PROVE  IInv'
<1>1. /\ Commits(a, "issue") /\ "issue" \in Kinds /\ Rowed
      /\ UNCHANGED <<orders, payments, sessions>>
      /\ invoices' = invoices \cup {req[a].order}
  BY DEF CommitIssue, Kinds, IInv
<1>2. /\ req[a].kind = "issue" /\ Personal(a) /\ req' = req /\ At(a)' = "done"
      /\ \A b \in Attempts \ {a} : note'[b] = note[b] /\ At(b)' = At(b)
  BY <1>1, Committing
<1>3. invoices' \subseteq Orders
  BY <1>1, <1>2 DEF Rowed, Personal, Asked, Sensible
<1>4. OpenSessions' = OpenSessions
  BY <1>1 DEF OpenSessions
<1>5. OneOpens'
  <2>1. \A b \in Attempts : Opening(b)' => Opening(b)
    BY <1>2 DEF Opening
  <2>2. QED
    BY <1>4, <2>1 DEF IInv, OneOpens
<1>6. \A s : Taken(s)' = Taken(s)
  BY <1>1, LedgerStays
<1>7. Counted'
  BY <1>1, <1>6 DEF IInv, Counted
<1>8. ASSUME NEW b \in Attempts \ {a}
      PROVE  KnowsCash(b)'
  BY <1>1, <1>2, <1>4, <1>6 DEF IInv, Personal, KnowsCash, InCash
<1>9. /\ orders' \in [Orders -> [status : Active \cup {"none", "paid", "cancelled"},
                                 table : Tables \cup {None}, number : Nat,
                                 bill : Nat, key : Attempts \cup {None}]]
      /\ payments' \in [Bills -> [order : Orders \cup {None}, amount : Int,
                                  session : Sessions \cup {None},
                                  live : BOOLEAN, bill : Nat]]
      /\ sessions' \in [Sessions -> [state : {"none", "open", "closed"},
                                     signed : Int]]
  BY <1>1 DEF Rowed
<1>10. QED
  BY <1>1, <1>3, <1>5, <1>7, <1>8, <1>9, LedgerStays, Committed

LEMMA ServeKeepsInv ==
  ASSUME IInv, NEW x \in Orders, Serve(x)
  PROVE  IInv'
<1>1. /\ orders[x].status = "open"
      /\ orders' = [orders EXCEPT ![x].status = "served"]
      /\ UNCHANGED <<payments, sessions, invoices, req, todo, held, note>>
      /\ Rowed /\ Paying
  BY DEF Serve, IInv
<1>2. /\ \A r \in Orders \ {x} : orders'[r] = orders[r]
      /\ orders'[x].status = "served"
      /\ \A r \in Orders : /\ orders'[r].table = orders[r].table
                           /\ orders'[r].bill = orders[r].bill
                           /\ orders'[r].number = orders[r].number
                           /\ orders'[r].key = orders[r].key
      /\ orders' \in [Orders -> [status : Active \cup {"none", "paid", "cancelled"},
                                 table : Tables \cup {None}, number : Nat,
                                 bill : Nat, key : Attempts \cup {None}]]
  BY <1>1 DEF Rowed, Active
<1>3. \A r \in Orders : /\ Balance(r)' = Balance(r) /\ IsActive(r)' = IsActive(r)
                        /\ Mergeable(r)' = Mergeable(r)
  <2>1. ASSUME NEW r \in Orders
        PROVE  IsActive(r)' = IsActive(r)
    <3>1. CASE r = x
      BY <1>1, <1>2, <3>1 DEF IsActive, Active
    <3>2. CASE r # x
      <4>1. orders'[r] = orders[r]
        BY <1>2, <3>2
      <4>2. QED
        BY <4>1 DEF IsActive, Active
    <3>3. QED
      BY <3>1, <3>2
  <2>2. \A r \in Orders : Balance(r)' = Balance(r) /\ PaymentsOf(r)' = PaymentsOf(r)
    BY <1>1, <1>2, MoneyStays
  <2>3. QED
    BY <2>1, <2>2 DEF Mergeable
<1>4. \A r \in Orders : r # x => orders'[r].status = orders[r].status
  BY <1>2
<1>5. /\ \A t : ActiveAt(t)' = ActiveAt(t)
      /\ \A r : Reopened(r)' = Reopened(r) /\ PaymentsOf(r)' = PaymentsOf(r)
      /\ \A s : Taken(s)' = Taken(s)
      /\ Live' = Live /\ OpenSessions' = OpenSessions
  <2>1. \A t : ActiveAt(t)' = ActiveAt(t)
    BY <1>2, <1>3 DEF ActiveAt
  <2>2. QED
    BY <1>1, <2>1, MoneyStays DEF OpenSessions
<1>6. Rowed'
  BY <1>1, <1>2 DEF Rowed
<1>7. Paying'
  BY <1>1, <1>2, <1>4, <1>5 DEF Paying, Live
<1>8. Owing'
  <2>1. ASSUME NEW r \in Orders
        PROVE  /\ IsActive(r)' => Balance(r)' >= 1
               /\ orders'[r].status = "paid" => Balance(r)' = 0
    BY <1>2, <1>3, <1>4 DEF IInv, Owing
  <2>2. QED
    BY <2>1 DEF Owing
<1>9. Counted' /\ Seated' /\ Exclusive'
  <2>1. Counted'
    BY <1>1, <1>5 DEF IInv, Counted
  <2>2. Seated'
    BY <1>2, <1>3, <1>5 DEF IInv, Seated
  <2>3. QED
    BY <1>1, <2>1, <2>2 DEF IInv, Exclusive
<1>10. \A b \in Attempts : At(b)' = At(b)
  BY <1>1 DEF At
<1>11. OneOpens'
  BY <1>1, <1>5, <1>10 DEF IInv, OneOpens, Opening
<1>12. DoubleTapPaysOnce'
  BY <1>1 DEF IInv, DoubleTapPaysOnce, TwicePaid, GrewBetween
<1>13. ASSUME NEW b \in Attempts
       PROVE  Personal(b)'
  <2>1. Personal(b) /\ Asked(b)
    BY DEF IInv, Personal
  <2>2. Asked(b)' /\ Staged(b)'
    BY <1>1, <1>10, <2>1 DEF Personal, Asked, Staged
  <2>3. Holding(b)'
    BY <1>1, <1>10, <2>1 DEF Personal, Holding, Rows, InTurn, InOrder, InOther,
                             InCash, InSettings, Wrote, Is
  <2>4. KnowsSeat(b)'
    <3>1. \A o \in Orders : /\ orders'[o].number = orders[o].number
                            /\ orders'[o].key = orders[o].key
      BY <1>2
    <3>2. req[b].kind \in {"add", "move"} => req[b].order \in Orders
      BY <2>1 DEF Asked, Sensible
    <3>3. QED
      BY <1>1, <1>3, <1>5, <1>10, <2>1, <3>1, <3>2 DEF Personal, KnowsSeat
  <2>5. KnowsBill(b)'
    <3>1. KnowsBill(b)
      BY <2>1 DEF Personal
    <3>2. CASE req[b].kind = "merge"
      BY <1>1, <1>3, <1>10, <2>1, <3>1, <3>2 DEF KnowsBill, Asked, Sensible
    <3>3. CASE req[b].kind = "charge" /\ At(b) \in {"cash", "write", "commit"}
      <4>1. req[b].order \in Orders /\ req[b].order # x
        BY <1>1, <2>1, <3>1, <3>3 DEF KnowsBill, Asked, Sensible
      <4>2. QED
        BY <1>1, <1>3, <1>4, <1>10, <3>1, <3>3, <4>1 DEF KnowsBill
    <3>4. CASE req[b].kind = "void"
      BY <1>1, <1>5, <1>10, <3>1, <3>4 DEF KnowsBill
    <3>5. QED
      BY <1>1, <1>10, <3>2, <3>3, <3>4 DEF KnowsBill
  <2>6. KnowsCash(b)'
    BY <1>1, <1>5, <1>10, <2>1 DEF Personal, KnowsCash, InCash
  <2>7. Charged(b)'
    BY <1>1, <2>1 DEF Personal, Charged
  <2>8. Tapped(b)'
    <3>1. payments[b].live => req[b].order \in Orders
      BY PaidOrder
    <3>2. orders[req[b].order].status = "paid" => req[b].order # x
      BY <1>1
    <3>3. QED
      BY <1>1, <1>2, <1>3, <1>4, <1>5, <2>1, <3>1, <3>2 DEF Personal, Tapped
  <2>9. QED
    BY <2>2, <2>3, <2>4, <2>5, <2>6, <2>7, <2>8 DEF Personal
<1>14. QED
  BY <1>6, <1>7, <1>8, <1>9, <1>11, <1>12, <1>13 DEF IInv

-----------------------------------------------------------------------------
(* The invariant holds. *)

LEMMA InitInv ==
  ASSUME Init
  PROVE  IInv
<1> PICK s \in Sessions :
      /\ sessions = [r \in Sessions |->
           [state |-> IF r = s THEN "open" ELSE "none", signed |-> 0]]
      /\ payments = [b \in Bills |->
           IF b \in Settled
             THEN [order |-> b, session |-> s, amount |-> Price, live |-> TRUE,
                   bill |-> Price]
             ELSE NoPayment]
  BY DEF Init
<1>1. /\ orders = [o \in Orders |->
           IF o \in Served \cup Settled
             THEN [status |-> IF o \in Served THEN "served" ELSE "paid",
                   table |-> Seat[o], number |-> o, bill |-> Price, key |-> None]
             ELSE NoOrder]
      /\ invoices = {} /\ req = [a \in Attempts |-> NoRequest]
      /\ todo = [a \in Attempts |-> <<>>] /\ held = [a \in Attempts |-> {}]
      /\ note = [a \in Attempts |-> NoNote]
  BY DEF Init
<1>2. /\ \A o \in Served : o \in Orders /\ orders[o].status = "served"
                             /\ orders[o].table = Seat[o] /\ orders[o].bill = Price
      /\ \A o \in Settled : o \in Orders /\ orders[o].status = "paid"
                              /\ orders[o].bill = Price
      /\ \A o \in Orders \ (Served \cup Settled) : orders[o] = NoOrder
  BY <1>1, TransactionsAssumption
<1>3. /\ \A b \in Settled : /\ b \in Bills /\ payments[b].order = b
                            /\ payments[b].session = s /\ payments[b].live
                            /\ payments[b].amount = Price
      /\ \A b \in Bills \ Settled : payments[b] = NoPayment
  BY DEF Bills
<1>4. /\ \A o \in Orders : IsActive(o) => o \in Served
      /\ \A o \in Orders : orders[o].status = "paid" => o \in Settled
  BY <1>2, TransactionsAssumption DEF IsActive, Active, NoOrder
<1>5. Rowed
  <2>1. orders \in [Orders -> [status : Active \cup {"none", "paid", "cancelled"},
                               table : Tables \cup {None}, number : Nat,
                               bill : Nat, key : Attempts \cup {None}]]
    <3>1. NoOrder \in [status : Active \cup {"none", "paid", "cancelled"},
                       table : Tables \cup {None}, number : Nat,
                       bill : Nat, key : Attempts \cup {None}]
      BY DEF NoOrder
    <3>2. QED
      BY <1>1, <3>1, TransactionsAssumption DEF Active
  <2>2. payments \in [Bills -> [order : Orders \cup {None}, amount : Int,
                                session : Sessions \cup {None}, live : BOOLEAN,
                                bill : Nat]]
    <3> DEFINE Row == [order : Orders \cup {None}, amount : Int,
                       session : Sessions \cup {None}, live : BOOLEAN,
                       bill : Nat]
               paid(b) == [order |-> b, session |-> s, amount |-> Price,
                           live |-> TRUE, bill |-> Price]
    <3>1. NoPayment \in Row
      BY DEF NoPayment
    <3>2. \A b \in Settled : paid(b) \in Row
      BY TransactionsAssumption
    <3>3. payments = [b \in Bills |-> IF b \in Settled THEN paid(b) ELSE NoPayment]
      OBVIOUS
    <3>4. QED
      <4> HIDE DEF Row, paid
      <4> QED
        BY <3>1, <3>2, <3>3 DEF Row
  <2>3. /\ sessions \in [Sessions -> [state : {"none", "open", "closed"},
                                      signed : Int]]
        /\ invoices \subseteq Orders
    BY <1>1
  <2>4. NoRequest \in Asks /\ NoNote \in Notes
    BY DEF NoRequest, NoNote, Asks, Notes
  <2>5. QED
    BY <1>1, <2>1, <2>2, <2>3, <2>4 DEF Rowed
<1>6. Live = Settled
  BY <1>3 DEF Live, NoPayment, Bills
<1>7. Paying
  <2>1. IsFiniteSet(Settled)
    BY TransactionsAssumption, FS_Subset
  <2>2. QED
    BY <1>2, <1>3, <1>6, <2>1, TransactionsAssumption DEF Paying
<1>8. Owing
  <2>1. \A o : PaymentsOf(o) = {b \in Settled : b = o}
    <3>1. \A o : PaymentsOf(o) = {b \in Live : payments[b].order = o}
      BY DEF PaymentsOf, Live
    <3>2. QED
      BY <1>3, <1>6, <3>1
  <2>2. ASSUME NEW o \in Served
        PROVE  Balance(o) = Price
    <3>1. PaymentsOf(o) = {}
      BY <2>1, TransactionsAssumption
    <3>2. SumOf([b \in {} |-> payments[b].amount]) = 0
      BY <1>5, <1>7, SumsAre, SumOfNothing
    <3>3. QED
      BY <1>2, <3>1, <3>2, TransactionsAssumption DEF Balance
  <2>3. ASSUME NEW o \in Settled
        PROVE  Balance(o) = 0
    <3>1. PaymentsOf(o) = {} \cup {o}
      BY <2>1
    <3>2. SumOf([b \in {} |-> payments[b].amount]) = 0
      BY <1>5, <1>7, SumsAre, SumOfNothing
    <3>3. SumOf([b \in {} \cup {o} |-> payments[b].amount])
            = payments[o].amount + SumOf([b \in {} |-> payments[b].amount])
      <4>1. o \in Bills \ {} /\ payments[o].amount \in Int
        BY <1>3, TransactionsAssumption
      <4>2. QED
        BY <1>5, <1>7, <4>1, PaymentAdds
    <3>4. QED
      BY <1>2, <1>3, <3>1, <3>2, <3>3, TransactionsAssumption DEF Balance
  <2>4. QED
    BY <1>4, <2>2, <2>3, TransactionsAssumption DEF Owing
<1>9. Counted /\ Exclusive
  BY <1>1 DEF Counted, Exclusive
<1>10. Seated
  BY <1>2, <1>4, TransactionsAssumption DEF Seated
<1>11. \A a \in Attempts : /\ req[a] = NoRequest /\ note[a] = NoNote
                           /\ held[a] = {} /\ todo[a] = <<>> /\ At(a) = "done"
                           /\ payments[a] = NoPayment /\ ~payments[a].live
                           /\ req[a].kind = "none" /\ req[a].key = None
  <2>1. \A a \in Attempts : payments[a] = NoPayment
    BY <1>3, TransactionsAssumption DEF Bills
  <2>2. ~NoPayment.live /\ NoRequest.kind = "none" /\ NoRequest.key = None
    BY DEF NoPayment, NoRequest
  <2>3. QED
    BY <1>1, <2>1, <2>2 DEF At
<1>12. OneOpens
  BY <1>11 DEF OneOpens, Opening, OpenSessions
<1>13. DoubleTapPaysOnce
  BY <1>11 DEF DoubleTapPaysOnce, TwicePaid, GrewBetween
<1>14. ASSUME NEW a \in Attempts
       PROVE  Personal(a)
  <2>1. Asked(a)
    BY <1>11 DEF Asked, Sensible
  <2>2. Staged(a) /\ Holding(a)
    BY <1>11, NothingTaken DEF Staged, Holding
  <2>3. KnowsSeat(a) /\ KnowsBill(a) /\ KnowsCash(a)
    BY <1>11 DEF KnowsSeat, KnowsBill, KnowsCash, InCash
  <2>4. Charged(a) /\ Tapped(a)
    BY <1>11 DEF Charged, Tapped
  <2>5. QED
    BY <2>1, <2>2, <2>3, <2>4 DEF Personal
<1>15. QED
  BY <1>5, <1>7, <1>8, <1>9, <1>10, <1>12, <1>13, <1>14 DEF IInv

LEMMA RunKeepsInv ==
  ASSUME IInv, NEW a \in Attempts, Run(a)
  PROVE  IInv'
<1>1. CASE \/ TakeTurn(a) \/ TakeOrder(a) \/ TakeOther(a) \/ FindSeat(a)
           \/ TakeCash(a) \/ FindNoCash(a) \/ CountCash(a)
  BY <1>1, TakeTurnKeepsInv, TakeOrderKeepsInv, TakeOtherKeepsInv,
     FindSeatKeepsInv, TakeCashKeepsInv, FindNoCashKeepsInv, CountCashKeepsInv
<1>2. CASE \/ AskInvoice(a) \/ ReadPaid(a) \/ TakeSettings(a) \/ Write(a)
           \/ Sunat(a)
  BY <1>2, LookKeepsInv, IssuingKeepsInv, WriteKeepsInv
<1>3. CASE \/ CommitOpen(a) \/ CommitAdd(a) \/ CommitMove(a)
           \/ CommitMerge(a) \/ CommitCharge(a) \/ CommitVoid(a)
  BY <1>3, CommitOpenKeepsInv, CommitAddKeepsInv, CommitMoveKeepsInv,
     CommitMergeKeepsInv, CommitChargeKeepsInv, CommitVoidKeepsInv
<1>4. CASE CommitOpenCash(a) \/ CommitClose(a) \/ CommitIssue(a)
  BY <1>4, CommitOpenCashKeepsInv, CommitCloseKeepsInv, CommitIssueKeepsInv
<1>5. QED
  BY <1>1, <1>2, <1>3, <1>4 DEF Run

LEMMA NextInv ==
  ASSUME IInv, [Next]_vars
  PROVE  IInv'
<1>1. CASE Next
  <2>1. ASSUME NEW a \in Attempts, Arrive(a) \/ Run(a) \/ Abort(a)
        PROVE  IInv'
    BY <2>1, ArriveKeepsInv, RunKeepsInv, EndKeepsInv DEF Abort
  <2>2. ASSUME NEW a \in Attempts, NEW b \in Attempts, Repeat(a, b)
        PROVE  IInv'
    BY <2>2, RepeatKeepsInv
  <2>3. ASSUME NEW o \in Orders, Serve(o)
        PROVE  IInv'
    BY <2>3, ServeKeepsInv
  <2>4. QED
    BY <1>1, <2>1, <2>2, <2>3 DEF Next
<1>2. CASE UNCHANGED vars
  <2>1. UNCHANGED db /\ req' = req /\ todo' = todo /\ held' = held /\ note' = note
    BY <1>2 DEF vars, db
  <2>2. \A b \in Attempts : Personal(b)' /\ At(b)' = At(b)
    <3>1. \A b \in Attempts : Personal(b) /\ Asked(b)'
      BY <2>1 DEF IInv, Personal, Asked
    <3>2. QED
      BY <2>1, <3>1, KnowsStays
  <2>3. Rowed' /\ Exclusive'
    BY <2>1, SameDatabase DEF IInv, Rowed, Exclusive
  <2>4. Paying' /\ Owing' /\ Counted' /\ Seated'
    BY <2>1, SameDatabase DEF IInv, Paying, Owing, Counted, Seated
  <2>5. OneOpens' /\ DoubleTapPaysOnce'
    BY <2>1, <2>2, SameDatabase DEF IInv, OneOpens, Opening, DoubleTapPaysOnce,
                                    TwicePaid, GrewBetween
  <2>6. QED
    BY <2>2, <2>3, <2>4, <2>5 DEF IInv
<1>3. QED
  BY <1>1, <1>2

-----------------------------------------------------------------------------
(* Who waits for whom. *)

\* The row an attempt waits for, and what the attempt that has it has done.
LEMMA WaitsFor ==
  ASSUME IInv, NEW a \in Attempts, NEW b \in Attempts, Waits(a, b)
  PROVE  /\ At(a) \in {"turn", "order", "other", "cash", "vacant", "settings",
                       "write"}
         /\ At(a) = "turn" => InTurn(b) \/ Wrote(b)
         /\ At(a) = "write" =>
              InTurn(b) \/ (Is(a, "issue") /\ (InOrder(b) \/ InOther(b)))
         /\ At(a) \in {"cash", "vacant"} => InCash(b)
         /\ At(a) = "settings" => InSettings(b)
         /\ At(a) = "order" => InOrder(b) \/ InOther(b) \/ Wrote(b)
         /\ At(a) = "other" =>
              \/ InOrder(b) /\ First(req[b]) = Second(req[a])
              \/ InOther(b) \/ Wrote(b)
<1>1. Staged(a) /\ Holding(b)
  BY DEF IInv, Personal
<1>2. PICK w \in Wanted(a), h \in held[b] :
        w[1] = h[1] /\ (w[2] = "update" \/ h[2] = "update")
  BY DEF Waits, Conflict
<1>3. \/ h = <<Restaurant, "update">> /\ InTurn(b)
      \/ h = <<OrderRow(First(req[b])), "update">> /\ InOrder(b)
      \/ h = <<OrderRow(Second(req[b])), "update">> /\ InOther(b)
      \/ h = <<CashRow(note[b].cash), "update">> /\ InCash(b)
      \/ h = <<Settings, "update">> /\ InSettings(b)
      \/ h = <<Restaurant, "share">> /\ Wrote(b)
      \/ h = <<OrderRow(req[b].order), "share">> /\ Wrote(b) /\ Is(b, "issue")
  BY <1>1, <1>2, RowsAre DEF Holding
<1>4. At(a) \in {"turn", "order", "other", "cash", "vacant", "settings", "write"}
  <2>1. SUFFICES ASSUME At(a) \notin {"turn", "order", "other", "cash", "vacant",
                                      "settings", "write"}
                 PROVE  Wanted(a) = {}
    BY <1>2
  <2>2. \A step \in {"turn", "order", "other", "cash", "vacant", "settings",
                     "write"} : ~Doing(a, step)
    BY <2>1 DEF Doing, At
  <2>3. QED
    BY <2>2 DEF Wanted
<1>5. Doing(a, At(a))
  BY <1>1, <1>4, DoingIsAt
<1>6. /\ At(a) = "turn" => w = <<Restaurant, "update">>
      /\ At(a) = "order" => w = <<OrderRow(First(req[a])), "update">>
      /\ At(a) = "other" => w = <<OrderRow(Second(req[a])), "update">>
      /\ At(a) \in {"cash", "vacant"} =>
           \E s \in OpenSessions : w = <<CashRow(s), "update">>
      /\ At(a) = "settings" => w = <<Settings, "update">>
      /\ At(a) = "write" =>
           \/ w = <<Restaurant, "share">>
           \/ Is(a, "issue") /\ w = <<OrderRow(req[a].order), "share">>
  BY <1>2, <1>5, WantedIs
<1>7. CASE At(a) \in {"turn", "settings"}
  BY <1>2, <1>3, <1>6, <1>7 DEF Restaurant, Settings, OrderRow, CashRow
<1>8. CASE At(a) \in {"order", "other"}
  BY <1>2, <1>3, <1>6, <1>8 DEF Restaurant, Settings, OrderRow, CashRow
<1>9. CASE At(a) \in {"cash", "vacant"}
  BY <1>2, <1>3, <1>6, <1>9 DEF Restaurant, Settings, OrderRow, CashRow
<1>10. ASSUME At(a) = "write"
       PROVE  InTurn(b) \/ (Is(a, "issue") /\ (InOrder(b) \/ InOther(b)))
  <2>1. CASE w = <<Restaurant, "share">>
    <3>1. h = <<Restaurant, "update">> /\ InTurn(b)
      BY <1>2, <1>3, <2>1 DEF Restaurant, Settings, OrderRow, CashRow
    <3>2. QED
      BY <3>1
  <2>2. CASE Is(a, "issue") /\ w = <<OrderRow(req[a].order), "share">>
    <3>1. InOrder(b) \/ InOther(b)
      BY <1>2, <1>3, <2>2 DEF Restaurant, Settings, OrderRow, CashRow
    <3>2. QED
      BY <2>2, <3>1
  <2>3. QED
    BY <1>6, <1>10, <2>1, <2>2
<1>11. QED
  BY <1>4, <1>7, <1>8, <1>9, <1>10

\* Among requests none of which is a move, the chain of who waits for whom
\* soon comes to merges waiting for their second order.
LEMMA MovesApart ==
  ASSUME IInv, NEW S \in SUBSET Attempts, Deadlocked(S),
         \A a \in S : ~Is(a, "move")
  PROVE  \A a \in S : \E b \in S : /\ Is(b, "merge") /\ At(b) = "other"
                                   /\ At(a) = "other" =>
                                        First(req[b]) = Second(req[a])
<1>1. \A a \in S : \E b \in S : Waits(a, b)
  BY DEF Deadlocked
<1>2. ASSUME NEW a \in S
      PROVE  /\ At(a) \in {"turn", "order", "other", "cash", "vacant",
                           "settings", "write"}
             /\ \E b \in S : Waits(a, b)
  BY <1>1, WaitsFor
<1>3. ASSUME NEW a \in S, InTurn(a)
      PROVE  FALSE
  <2>1. At(a) = "write" /\ Is(a, "open")
    <3>1. Staged(a) /\ todo[a] # <<>> /\ At(a) = Head(todo[a])
      BY <1>2 DEF IInv, Personal, At
    <3>2. Makes(req[a].kind, At(a))
      BY <3>1, TailsFollow DEF Staged
    <3>3. QED
      BY <1>2, <1>3, <3>2 DEF InTurn, Is, Makes
  <2>2. PICK b \in S : Waits(a, b)
    BY <1>1
  <2>3. InTurn(b)
    BY <2>1, <2>2, WaitsFor DEF Is
  <2>4. a # b
    BY <2>2 DEF Waits
  <2>5. QED
    BY <1>3, <2>3, <2>4, OthersApart
<1>4. ASSUME NEW a \in S, At(a) = "write", ~Is(a, "issue")
      PROVE  FALSE
  BY <1>1, <1>3, <1>4, WaitsFor
<1>5. ASSUME NEW a \in S
      PROVE  /\ ~InCash(a) /\ ~Wrote(a) /\ ~InOther(a)
             /\ At(a) \notin {"turn", "cash", "vacant"}
  <2>1. ~InCash(a) /\ ~Wrote(a) /\ ~InOther(a)
    BY <1>2, <1>4 DEF InCash, Wrote, InOther, Is
  <2>2. \A b \in S : ~InCash(b) /\ ~Wrote(b)
    BY <1>2, <1>4 DEF InCash, Wrote, Is
  <2>3. QED
    BY <1>1, <1>3, <2>1, <2>2, WaitsFor
<1>6. ASSUME NEW a \in S, InOrder(a)
      PROVE  Is(a, "merge") /\ At(a) = "other"
  BY <1>2, <1>4, <1>5, <1>6 DEF InOrder, Is
<1>7. ASSUME NEW a \in S, At(a) \in {"order", "other", "write"}
      PROVE  \E b \in S : /\ Is(b, "merge") /\ At(b) = "other"
                          /\ At(a) = "other" => First(req[b]) = Second(req[a])
  <2>1. PICK b \in S : Waits(a, b)
    BY <1>1
  <2>2. /\ ~InOther(b) /\ ~Wrote(b) /\ ~InTurn(b)
        /\ InOrder(b) => Is(b, "merge") /\ At(b) = "other"
    BY <1>3, <1>5, <1>6
  <2>3. QED
    BY <1>7, <2>1, <2>2, WaitsFor
<1>8. ASSUME NEW a \in S, At(a) = "settings"
      PROVE  \E b \in S : Is(b, "merge") /\ At(b) = "other"
  <2>1. PICK b \in S : Waits(a, b)
    BY <1>1
  <2>2. InSettings(b) /\ ~Wrote(b)
    BY <1>5, <1>8, <2>1, WaitsFor
  <2>3. At(b) = "write"
    BY <2>2 DEF InSettings, Wrote
  <2>4. QED
    BY <1>7, <2>3
<1>9. QED
  BY <1>2, <1>5, <1>7, <1>8

\* Merges wait upwards, and there is no highest.
LEMMA NobodyWaitsForEver ==
  ASSUME IInv
  PROVE  OnlyMovesDeadlock
<1>1. SUFFICES ASSUME NEW S \in SUBSET Attempts, Deadlocked(S),
                      \A a \in S : ~Is(a, "move")
               PROVE  FALSE
  BY DEF OnlyMovesDeadlock
<1> DEFINE merging == {a \in S : Is(a, "merge") /\ At(a) = "other"}
           firsts == {First(req[a]) : a \in merging}
<1>2. \A a \in S : \E b \in S : /\ Is(b, "merge") /\ At(b) = "other"
                                /\ At(a) = "other" =>
                                     First(req[b]) = Second(req[a])
  BY <1>1, MovesApart
<1>3. \A a \in merging : /\ First(req[a]) \in Orders /\ Second(req[a]) \in Orders
                         /\ First(req[a]) < Second(req[a])
  <2>1. ASSUME NEW a \in merging
        PROVE  /\ req[a].order \in Orders /\ req[a].other \in Orders
               /\ req[a].order # req[a].other /\ req[a].kind = "merge"
    BY DEF IInv, Personal, Asked, Sensible, Is
  <2>2. \A o \in Orders : o \in Nat
    BY TransactionsAssumption
  <2>3. QED
    BY <2>1, <2>2 DEF First, Second
<1>4. merging # {}
  BY <1>1, <1>2 DEF Deadlocked
<1>5. firsts \in SUBSET Nat /\ IsFiniteSet(firsts) /\ firsts # {}
  <2>1. firsts \in SUBSET Orders /\ firsts # {}
    BY <1>3, <1>4
  <2>2. QED
    <3> HIDE DEF firsts
    <3> QED
      BY <2>1, TransactionsAssumption, FS_Subset
<1>6. PICK n \in firsts : \A m \in firsts : m <= n
  <2> HIDE DEF firsts
  <2> QED
    BY <1>5, GreatestExists
<1>7. PICK a \in merging : n = First(req[a])
  BY <1>6
<1>8. PICK b \in merging : First(req[b]) = Second(req[a])
  BY <1>2, <1>7
<1>9. Second(req[a]) <= n /\ n < Second(req[a])
  BY <1>3, <1>6, <1>7, <1>8
<1>10. QED
  <2>1. n \in Nat /\ Second(req[a]) \in Nat
    BY <1>3, <1>7, TransactionsAssumption
  <2>2. QED
    BY <1>9, <2>1

-----------------------------------------------------------------------------
(* What the invariant says to those outside. *)

\* The invariant holds everything the runs check.
LEMMA InvMeans ==
  ASSUME IInv
  PROVE  /\ TypeOK /\ ArqueoCountsEveryPayment /\ ChargesTakeTurns
         /\ DoubleTapPaysOnce /\ NumberStillFree /\ RetryFindsItsOrder
         /\ OnlyMovesDeadlock
<1>1. TypeOK
  <2>1. ASSUME NEW a \in Attempts, todo[a] = <<>>
        PROVE  held[a] = {} /\ note[a] = NoNote
    <3>1. At(a) = "done" /\ Holding(a) /\ Staged(a)
      BY <2>1 DEF At, IInv, Personal
    <3>2. QED
      BY <2>1, <3>1, NothingTaken DEF Holding, Staged
  <2>2. QED
    BY <2>1 DEF TypeOK, IInv, Rowed
<1>2. ArqueoCountsEveryPayment
  BY DEF ArqueoCountsEveryPayment, IInv, Counted
<1>3. ChargesTakeTurns
  <2>1. ASSUME NEW o \in Orders
        PROVE  Balance(o) >= 0
    <3>1. Rowed /\ Paying /\ Balance(o) \in Int /\ orders[o].bill \in Nat
      BY BalanceIs DEF IInv, Rowed
    <3>2. CASE IsActive(o) \/ orders[o].status = "paid"
      BY <3>1, <3>2 DEF IInv, Owing
    <3>3. CASE ~(IsActive(o) \/ orders[o].status = "paid")
      <4>1. PaymentsOf(o) = {}
        BY <3>1, <3>3 DEF PaymentsOf, Paying, Live, IsActive, Active
      <4>2. SumOf([b \in {} |-> payments[b].amount]) = 0
        BY <3>1, SumsAre, SumOfNothing
      <4>3. Balance(o) = orders[o].bill - SumOf([b \in {} |-> payments[b].amount])
        BY <4>1 DEF Balance
      <4>4. QED
        BY <3>1, <4>2, <4>3
    <3>4. QED
      BY <3>2, <3>3
  <2>2. QED
    BY <2>1 DEF ChargesTakeTurns, IInv, Owing
<1>4. ASSUME NEW a \in Attempts, Doing(a, "write"), Is(a, "open"),
             NEW o \in Orders
      PROVE  orders[o].number # note[a].number /\ orders[o].key # req[a].key
  <2>1. Rowed /\ Personal(a) /\ At(a) = "write"
    BY <1>4, DoingIsAt DEF IInv, Personal
  <2>2. orders[o].number < note[a].number /\ orders[o].key # req[a].key
    BY <1>4, <2>1 DEF Personal, KnowsSeat, Is
  <2>3. orders[o].number \in Nat /\ note[a].number \in Nat
    BY <2>1 DEF Rowed, Notes
  <2>4. QED
    BY <2>2, <2>3
<1>5. NumberStillFree /\ RetryFindsItsOrder
  BY <1>4 DEF NumberStillFree, RetryFindsItsOrder
<1>6. QED
  BY <1>1, <1>2, <1>3, <1>5, NobodyWaitsForEver DEF IInv

\* However the requests interleave, repeat and abort, what each of them has
\* read is still so at each of its later statements: the rows it took
\* (SELECT ... FOR UPDATE, FOR SHARE behind the foreign keys of its writes)
\* keep from changing all that it decides on.
THEOREM TransactionsKnowWhatTheyRead == Spec => []IInv
<1>1. Init => IInv
  BY InitInv
<1>2. IInv /\ [Next]_vars => IInv'
  BY NextInv
<1>3. QED
  BY <1>1, <1>2, PTL DEF Spec

\* Rows hold values of their columns, and a request that ended, with its
\* answer or aborted, holds no row and remembers nothing.
THEOREM RowsAreTyped == Spec => []TypeOK
<1>1. IInv => TypeOK
  BY InvMeans
<1>2. QED
  BY <1>1, TransactionsKnowWhatTheyRead, PTL

\* Closing the register signs every payment of its session: a charge that took
\* the session row first is counted, and one that comes later finds it closed.
THEOREM ArqueoIsComplete == Spec => []ArqueoCountsEveryPayment
<1>1. IInv => ArqueoCountsEveryPayment
  BY InvMeans
<1>2. QED
  BY <1>1, TransactionsKnowWhatTheyRead, PTL

\* Charges of one order at once take turns on its row: together they never
\* charge more than the bill, and an order that is paid owes nothing.
THEOREM NobodyIsOvercharged == Spec => []ChargesTakeTurns
<1>1. IInv => ChargesTakeTurns
  BY InvMeans
<1>2. QED
  BY <1>1, TransactionsKnowWhatTheyRead, PTL

\* A charge repeated by a double tap or a lost answer is paid once, unless
\* between the two a payment of the order was voided or its bill grew by all
\* that the first had paid: expected_balance and the status of the order refuse
\* the second.
THEOREM DoubleTapsPayOnce == Spec => []DoubleTapPaysOnce
<1>1. IInv => DoubleTapPaysOnce
  BY InvMeans
<1>2. QED
  BY <1>1, TransactionsKnowWhatTheyRead, PTL

\* The turn on the restaurant row is enough to number orders: when an order is
\* inserted nobody has its number, so the unique index never has to refuse it.
THEOREM TheTurnNumbersOrders == Spec => []NumberStillFree
<1>1. IInv => NumberStillFree
  BY InvMeans
<1>2. QED
  BY <1>1, TransactionsKnowWhatTheyRead, PTL

\* A repeated request to open an order, in any interleaving with the first one,
\* finds the order with its client_request_id and never inserts another.
THEOREM RetriesFindTheirOrder == Spec => []RetryFindsItsOrder
<1>1. IInv => RetryFindsItsOrder
  BY InvMeans
<1>2. QED
  BY <1>1, TransactionsKnowWhatTheyRead, PTL

\* Requests that wait for each other for ever have a move among them: merges
\* take orders by identifier, charges, voids and closings take the session
\* last, and only a move takes an order after the turn.
THEOREM MergesDoNotDeadlock == Spec => []OnlyMovesDeadlock
<1>1. IInv => OnlyMovesDeadlock
  BY InvMeans
<1>2. QED
  BY <1>1, TransactionsKnowWhatTheyRead, PTL

\* Opening and moving orders take turns on the restaurant, so neither ever
\* leaves two active orders at one table unless a voided payment brought one
\* of them back.
THEOREM TablesTakeTurns == Spec => TurnSeatsOne
<1> DEFINE Seats ==
      \A o, r \in Orders, a \in Attempts :
        /\ o # r /\ (CommitOpen(a) \/ CommitMove(a))
        /\ IsActive(o)' /\ IsActive(r)' /\ orders'[o].table = orders'[r].table
        => \E b \in Bills : payments[b].order \in {o, r} /\ ~payments[b].live
<1>1. IInv /\ IInv' /\ [Next]_vars => [Seats]_vars
  <2>1. SUFFICES ASSUME IInv', NEW o \in Orders, NEW r \in Orders,
                        NEW a \in Attempts, o # r,
                        CommitOpen(a) \/ CommitMove(a), IsActive(o)',
                        IsActive(r)', orders'[o].table = orders'[r].table
                 PROVE  \E b \in Bills : payments[b].order \in {o, r}
                                           /\ ~payments[b].live
    OBVIOUS
  <2>2. Reopened(o)' \/ Reopened(r)'
    BY <2>1 DEF IInv, Seated
  <2>3. payments' = payments
    BY <2>1 DEF CommitOpen, CommitMove
  <2>4. QED
    BY <2>2, <2>3 DEF Reopened
<1> HIDE DEF Seats
<1>2. Spec => [][Seats]_vars
  BY <1>1, TransactionsKnowWhatTheyRead, PTL DEF Spec
<1>3. QED
  BY <1>2 DEF TurnSeatsOne, Seats

-----------------------------------------------------------------------------
(* The cash desk. *)

LEMMA DeskStays ==
  ASSUME UNCHANGED <<payments, sessions>>
  PROVE  UNCHANGED Desk!vars
<1>1. \A s : Taken(s)' = Taken(s)
  BY MoneyStays
<1>2. QED
  BY <1>1 DEF Desk!vars

\* Money that moves in one open session.
LEMMA DeskMoves ==
  ASSUME UNCHANGED sessions, NEW s \in OpenSessions,
         \A r \in Sessions \ {s} : Taken(r)' = Taken(r)
  PROVE  Desk!Next
<1>1. s \in Sessions /\ sessions[s].state = "open"
  BY DEF OpenSessions
<1>2. [r \in Sessions |-> Taken(r)']
        = [[r \in Sessions |-> Taken(r)] EXCEPT ![s] = Taken(s)']
  OBVIOUS
<1>3. Desk!Move(s)
  BY <1>1, <1>2 DEF Desk!Move, Desk!OnlyDrawer
<1>4. QED
  BY <1>1, <1>3 DEF Desk!Next

\* A session opens while no other is open.
LEMMA DeskOpens ==
  ASSUME IInv, NEW a \in Attempts, CommitOpenCash(a)
  PROVE  Desk!Next
<1>1. PICK s \in Sessions : /\ sessions[s].state = "none"
                            /\ sessions' = [sessions EXCEPT ![s].state = "open"]
  BY DEF CommitOpenCash
<1>2. Opening(a)
  BY Committing DEF CommitOpenCash, Opening, Kinds
<1>3. \A r \in Sessions : sessions[r].state # "open"
  BY <1>2 DEF IInv, OneOpens, OpenSessions
<1>4. \A r \in Sessions : Taken(r)' = Taken(r)
  BY MoneyStays DEF CommitOpenCash
<1>5. sessions \in [Sessions -> [state : {"none", "open", "closed"}, signed : Int]]
  BY DEF IInv, Rowed
<1>6. /\ \A r \in Sessions \ {s} : sessions'[r] = sessions[r]
      /\ sessions'[s].state = "open"
  BY <1>1, <1>5
<1>7. [r \in Sessions |-> sessions'[r].state]
        = [[r \in Sessions |-> sessions[r].state] EXCEPT ![s] = "open"]
  BY <1>6
<1>8. [r \in Sessions |-> Taken(r)'] = [r \in Sessions |-> Taken(r)]
  BY <1>4
<1>9. [r \in Sessions |-> Taken(r)]
        = [[r \in Sessions |-> Taken(r)] EXCEPT ![s] = Taken(s)]
  OBVIOUS
<1>10. [r \in Sessions |-> IF sessions'[r].state = "closed"
                           THEN sessions'[r].signed ELSE None]
         = [r \in Sessions |-> IF sessions[r].state = "closed"
                               THEN sessions[r].signed ELSE None]
  <2>1. ASSUME NEW r \in Sessions
        PROVE  (IF sessions'[r].state = "closed" THEN sessions'[r].signed ELSE None)
                 = (IF sessions[r].state = "closed" THEN sessions[r].signed ELSE None)
    BY <1>1, <1>6
  <2>2. QED
    BY <2>1
<1>11. Desk!OnlyDrawer(s)
  BY <1>4, <1>8, <1>9 DEF Desk!OnlyDrawer
<1>12. Desk!Open(s)
  BY <1>1, <1>3, <1>7, <1>10, <1>11 DEF Desk!Open
<1>13. QED
  BY <1>12 DEF Desk!Next

\* A closing signs what its session took.
LEMMA DeskCloses ==
  ASSUME IInv, NEW a \in Attempts, CommitClose(a)
  PROVE  Desk!Next
<1>1. req[a].kind = "close" /\ At(a) = "commit" /\ KnowsCash(a)
  BY Committing DEF CommitClose, Personal, Kinds
<1>2. note[a].cash \in OpenSessions /\ note[a].taken = Taken(note[a].cash)
  BY <1>1 DEF KnowsCash, InCash
<1> PICK s \in Sessions : s = note[a].cash /\ sessions[s].state = "open"
  BY <1>2 DEF OpenSessions
<1>3. sessions' = [sessions EXCEPT ![s] = [state |-> "closed", signed |-> Taken(s)]]
  BY <1>2 DEF CommitClose
<1>4. \A r \in Sessions : Taken(r)' = Taken(r)
  BY MoneyStays DEF CommitClose
<1>5. sessions \in [Sessions -> [state : {"none", "open", "closed"}, signed : Int]]
  BY DEF IInv, Rowed
<1>6. /\ \A r \in Sessions \ {s} : sessions'[r] = sessions[r]
      /\ sessions'[s].state = "closed" /\ sessions'[s].signed = Taken(s)
  BY <1>3, <1>5
<1>7. Desk!Close(s)
  BY <1>4, <1>6 DEF Desk!Close
<1>8. QED
  BY <1>7 DEF Desk!Next

\* The transactions implement the cash desk step by step: one drawer opens at
\* a time, money moves in the open one only, and closing signs its contents.
THEOREM TransactionsMoveLikeCashDesk == Spec => MovesLikeCashDesk
<1>1. IInv /\ [Next]_vars => [Desk!Next]_(Desk!vars)
  <2>1. SUFFICES ASSUME IInv, [Next]_vars
                 PROVE  Desk!Next \/ UNCHANGED Desk!vars
    OBVIOUS
  <2>2. CASE UNCHANGED <<payments, sessions>>
    BY <2>2, DeskStays
  <2>3. ASSUME NEW a \in Attempts, CommitCharge(a) \/ CommitVoid(a)
        PROVE  Desk!Next
    <3>1. \E s \in OpenSessions : \A r \in Sessions \ {s} : Taken(r)' = Taken(r)
      BY <2>1, <2>3, CommitChargeKeepsInv, CommitVoidKeepsInv
    <3>2. UNCHANGED sessions
      BY <2>3 DEF CommitCharge, CommitVoid
    <3>3. QED
      BY <3>1, <3>2, DeskMoves
  <2>4. ASSUME NEW a \in Attempts, CommitOpenCash(a) \/ CommitClose(a)
        PROVE  Desk!Next
    BY <2>1, <2>4, DeskOpens, DeskCloses
  <2>5. ASSUME NEW a \in Attempts, Run(a)
        PROVE  Desk!Next \/ UNCHANGED <<payments, sessions>>
    <3>1. CASE \/ CommitCharge(a) \/ CommitVoid(a)
               \/ CommitOpenCash(a) \/ CommitClose(a)
      BY <2>3, <2>4, <3>1
    <3>2. CASE \/ CommitOpen(a) \/ CommitAdd(a) \/ CommitMove(a)
               \/ CommitMerge(a) \/ CommitIssue(a)
      BY <3>2 DEF CommitOpen, CommitAdd, CommitMove, CommitMerge, CommitIssue
    <3>3. CASE \/ TakeTurn(a) \/ TakeOrder(a) \/ TakeOther(a) \/ FindSeat(a)
               \/ TakeCash(a) \/ FindNoCash(a) \/ CountCash(a) \/ AskInvoice(a)
               \/ ReadPaid(a) \/ TakeSettings(a) \/ Write(a) \/ Sunat(a)
      <4>1. UNCHANGED db
        BY <3>3 DEF TakeTurn, TakeOrder, TakeOther, FindSeat, TakeCash,
                    FindNoCash, CountCash, AskInvoice, ReadPaid, TakeSettings,
                    Write, Sunat, Proceed, Refuse
      <4>2. QED
        BY <4>1 DEF db
    <3>4. QED
      BY <2>5, <3>1, <3>2, <3>3 DEF Run
  <2>6. ASSUME Next
        PROVE  Desk!Next \/ UNCHANGED <<payments, sessions>>
    <3>1. ASSUME NEW a \in Attempts, NEW r, Begin(a, r)
          PROVE  UNCHANGED <<payments, sessions>>
      BY <3>1 DEF Begin, db
    <3>2. ASSUME NEW a \in Attempts, Arrive(a)
          PROVE  UNCHANGED <<payments, sessions>>
      BY <3>1, <3>2 DEF Arrive
    <3>3. ASSUME NEW a \in Attempts, NEW b \in Attempts, Repeat(a, b)
          PROVE  UNCHANGED <<payments, sessions>>
      BY <3>1, <3>3 DEF Repeat
    <3>4. ASSUME NEW a \in Attempts, Abort(a)
          PROVE  UNCHANGED <<payments, sessions>>
      BY <3>4 DEF Abort, db
    <3>5. ASSUME NEW o \in Orders, Serve(o)
          PROVE  UNCHANGED <<payments, sessions>>
      BY <3>5 DEF Serve
    <3>6. QED
      BY <2>5, <2>6, <3>2, <3>3, <3>4, <3>5 DEF Next
  <2>7. QED
    BY <2>1, <2>2, <2>6 DEF vars
<1>2. QED
  BY <1>1, TransactionsKnowWhatTheyRead, PTL DEF Spec, MovesLikeCashDesk

=============================================================================
