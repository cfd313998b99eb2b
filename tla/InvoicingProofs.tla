--------------------------- MODULE InvoicingProofs ---------------------------
(***************************************************************************)
(* What holds of invoices for any number of requests, orders and invoices. *)
(* The invariant says what a request knows of the rows it has taken: that  *)
(* is what makes its last write safe when SUNAT answers much later.        *)
(***************************************************************************)
EXTENDS Invoicing, TLAPS, WellFoundedInduction, FiniteSetTheorems

\* Some number is as high as any in use: there is a next one.
Bounded == \E n \in Nat : \A i \in Ids :
             invoices[i].number <= n /\ notes[i].number <= n

Exclusive ==
  \A q, r \in Requests : q # r =>
    /\ ~(HasTurn(q) /\ HasTurn(r))
    /\ \A i \in Ids : ~(Locks(q, i) /\ Locks(r, i))

IssueKnows(q) ==
  jobs[q].op = "issue" =>
    /\ jobs[q].at \in {"turn", "insert", "calling", "answered"}
    /\ jobs[q].order \in Orders
    /\ jobs[q].replaces # 0 => /\ Committed(jobs[q].replaces)
                               /\ invoices[jobs[q].replaces].voided
    /\ Inserted(q) => /\ jobs[q].id \in Ids
                      /\ invoices[jobs[q].id].status = "reserved"
                      /\ Current(jobs[q].order) = {}

ResendKnows(q) ==
  jobs[q].op = "resend" =>
    /\ jobs[q].at \in {"calling", "answered"}
    /\ jobs[q].id \in Ids /\ Committed(jobs[q].id) /\ Resendable(jobs[q].id)
    /\ jobs[q].number = invoices[jobs[q].id].number

VoidKnows(q) ==
  jobs[q].op = "void" =>
    /\ jobs[q].at \in {"turn", "calling", "answered"}
    /\ jobs[q].id \in Ids /\ Committed(jobs[q].id)
    /\ ~invoices[jobs[q].id].voided
    /\ jobs[q].at # "turn" => ~HasNote(jobs[q].id)

RenoteKnows(q) ==
  jobs[q].op = "renote" =>
    /\ jobs[q].at \in {"calling", "answered"}
    /\ jobs[q].id \in Ids /\ Committed(jobs[q].id)
    /\ HasNote(jobs[q].id) /\ notes[jobs[q].id].status # "accepted"
    /\ jobs[q].number = notes[jobs[q].id].number

ArchiveKnows(q) ==
  jobs[q].op = "archive" =>
    /\ jobs[q].at = "uploading"
    /\ jobs[q].id \in Ids /\ Committed(jobs[q].id)
    /\ invoices[jobs[q].id].archive = "pending"

Knows(q) ==
  /\ jobs[q].op = "none" <=> jobs[q].at = "idle"
  /\ IssueKnows(q) /\ ResendKnows(q) /\ VoidKnows(q) /\ RenoteKnows(q)
  /\ ArchiveKnows(q)
  /\ jobs[q].at = "answered" =>
       /\ jobs[q].answer \in Answers
       /\ jobs[q].answer = "accepted" => Document(jobs[q]) \in sunat

\* Only an accepted invoice has an archive, and an orphan's answer is lost.
OnlyAcceptedArchived ==
  \A i \in Ids : invoices[i].archive # "disabled" => invoices[i].status = "accepted"
OrphansAreLost == \A m \in wire : m.to = None => m.doc \in lost

Locked == Exclusive /\ \A q \in Requests : Knows(q)
IInv == /\ TypeOK /\ Bounded /\ Locked
        /\ OnlyAcceptedArchived /\ OrphansAreLost /\ AgreesWithSunat

-----------------------------------------------------------------------------
(* The highest of a bounded set of numbers, and so the next number. *)

LEMMA HighestExists ==
  ASSUME NEW S \in SUBSET Nat, S # {}, NEW n \in Nat, \A x \in S : x <= n
  PROVE  Latest(S) \in S /\ \A y \in S : y <= Latest(S)
<1> DEFINE T == {n - x : x \in S}
<1>0. \A x \in S : x \in Nat /\ n - x \in Nat
  <2>1. \A x \in S : x \in Nat
    OBVIOUS
  <2>2. QED
    BY <2>1
<1>1. T \subseteq Nat /\ T # {}
  BY <1>0
<1>2. \E t \in T : \A u \in T : ~(<<u, t>> \in OpToRel(<, Nat))
  BY <1>1, NatLessThanWellFounded, WFMin
<1>3. PICK t \in T : \A u \in T : ~(u < t)
  BY <1>1, <1>2 DEF OpToRel
<1>4. PICK x \in S : t = n - x
  BY <1>3
<1>5. \A y \in S : y <= x
  <2>1. TAKE y \in S
  <2>2. ~(n - y < n - x)
    BY <1>3, <1>4
  <2>3. QED
    BY <1>0, <2>2
<1>6. QED
  BY <1>5 DEF Latest

LEMMA NextNumbersAreNumbers ==
  ASSUME TypeOK, Bounded
  PROVE  NextNumber \in Nat /\ NextNoteNumber \in Nat
<1>1. PICK n \in Nat : \A i \in Ids :
                          invoices[i].number <= n /\ notes[i].number <= n
  BY DEF Bounded
<1>2. \A i \in Ids : invoices[i].number \in Nat /\ notes[i].number \in Nat
  BY DEF TypeOK, InvoiceRow, NoteRow
<1>3. ASSUME NEW used \in SUBSET Nat, \A m \in used : m <= n
      PROVE  NumberAfter(used) \in Nat
  <2> DEFINE U == {0} \cup used
  <2>1. U \in SUBSET Nat /\ U # {} /\ \A m \in U : m <= n
    BY <1>3
  <2>2. Latest(U) \in Nat
    <3> HIDE DEF U
    <3>1. Latest(U) \in U
      BY <2>1, HighestExists
    <3>2. QED
      BY <2>1, <3>1
  <2>3. QED
    BY <2>2 DEF NumberAfter
<1>4. QED
  BY <1>1, <1>2, <1>3 DEF NextNumber, NextNoteNumber

\* The invoice an order already has is one of its rows.
LEMMA ExistingIsOne ==
  ASSUME NEW o \in Orders, Existing(o) # 0
  PROVE  /\ Existing(o) \in Ids /\ Committed(Existing(o))
         /\ Current(o) = {} => invoices[Existing(o)].voided
<1> DEFINE rows == IF Current(o) # {} THEN Current(o) ELSE OfOrder(o)
<1>1. rows # {} /\ rows \subseteq OfOrder(o)
  BY DEF Existing, Current
<1>2. OfOrder(o) \subseteq Nat /\ \A x \in OfOrder(o) : x <= MaxInvoices
  BY InvoicingAssumption DEF OfOrder, Ids
<1>3. Latest(rows) \in rows
  <2> HIDE DEF rows
  <2> QED
    BY <1>1, <1>2, InvoicingAssumption, HighestExists
<1>4. QED
  BY <1>1, <1>3 DEF Existing, OfOrder, Current

-----------------------------------------------------------------------------
(* What most steps do: one request goes on, the rows stay. *)

\* Exclusive, when only request q takes something.
TakesAlone(q) ==
  \A r \in Requests : r # q =>
    /\ ~(HasTurn(q)' /\ HasTurn(r))
    /\ \A i \in Ids : ~(Locks(q, i)' /\ Locks(r, i))

LEMMA ExclusiveStep ==
  ASSUME Exclusive, NEW q \in Requests, TakesAlone(q),
         \A r \in Requests : r # q => jobs'[r] = jobs[r]
  PROVE  Exclusive'
BY DEF Exclusive, TakesAlone, HasTurn, Inserted, Locks, Job

\* Reserving an id is nothing to anybody else.
LEMMA Reserving ==
  ASSUME TypeOK, NEW i \in NewIds,
         invoices' = [invoices EXCEPT ![i].status = "reserved"]
  PROVE  /\ i \in Ids /\ invoices'[i].status = "reserved"
         /\ \A k \in Ids : /\ Committed(k) => invoices'[k] = invoices[k]
                           /\ invoices'[k].status \in Answers => Committed(k)
                           /\ invoices[k].status = "reserved" =>
                                invoices'[k].status = "reserved"
<1>1. i \in Ids /\ invoices[i].status = "none" /\ invoices[i] \in InvoiceRow
  BY DEF NewIds, TypeOK
<1>2. /\ invoices'[i].status = "reserved"
      /\ \A k \in Ids : k # i => invoices'[k] = invoices[k]
  BY <1>1 DEF TypeOK, InvoiceRow
<1>3. QED
  BY <1>1, <1>2 DEF Committed, Answers

\* Sending changes nothing of a request but where it is.
LEMMA Sending ==
  ASSUME TypeOK, NEW q \in Requests, NEW job \in JobRow, Send(q, job)
  PROVE  /\ jobs'[q].op = job.op /\ jobs'[q].id = job.id
         /\ jobs'[q].order = job.order /\ jobs'[q].replaces = job.replaces
         /\ jobs'[q].number = job.number
         /\ jobs'[q].at \in {"calling", "answered"}
         /\ jobs'[q].at = "answered" => jobs'[q].answer = "simulated"
<1>1. CASE jobs' = [jobs EXCEPT ![q] = [job EXCEPT !.at = "calling"]]
  <2>1. jobs'[q] = [job EXCEPT !.at = "calling"]
    BY <1>1 DEF TypeOK
  <2>2. QED
    BY <2>1 DEF JobRow
<1>2. CASE jobs' = [jobs EXCEPT ![q] = [job EXCEPT !.at = "answered",
                                                   !.answer = "simulated"]]
  <2>1. jobs'[q] = [job EXCEPT !.at = "answered", !.answer = "simulated"]
    BY <1>2 DEF TypeOK
  <2>2. QED
    BY <2>1 DEF JobRow
<1>3. QED
  BY <1>1, <1>2 DEF Send

\* Rows that are the same, or only reserved, tell a request the same.
LEMMA KnowsStep ==
  ASSUME IInv, NEW r \in Requests, jobs'[r] = jobs[r],
         UNCHANGED notes, sunat \subseteq sunat',
         \/ UNCHANGED invoices
         \/ \E i \in NewIds :
              invoices' = [invoices EXCEPT ![i].status = "reserved"]
  PROVE  Knows(r)'
<1>1. Knows(r)
  BY DEF IInv, Locked
<1>2. CASE UNCHANGED invoices
  BY <1>1, <1>2
  DEF Knows, IssueKnows, ResendKnows, VoidKnows, RenoteKnows, ArchiveKnows,
      Inserted, Committed, Current, OfOrder, Resendable, HasNote, Document
<1>3. ASSUME NEW i \in NewIds,
             invoices' = [invoices EXCEPT ![i].status = "reserved"]
      PROVE  Knows(r)'
  <2>1. \A j \in Ids : /\ Committed(j) => invoices'[j] = invoices[j]
                       /\ invoices'[j].status \in Answers => Committed(j)
                       /\ invoices[j].status = "reserved" =>
                            invoices'[j].status = "reserved"
    <3>1. TypeOK
      BY DEF IInv
    <3>2. QED
      BY <1>3, <3>1, Reserving
  <2>4. IssueKnows(r)'
    <3>1. jobs[r].replaces # 0 => jobs[r].replaces \in Ids
      BY DEF IInv, TypeOK, JobRow
    <3>2. IssueKnows(r)
      BY <1>1 DEF Knows
    <3>3. Current(jobs[r].order) = {} => Current(jobs[r].order)' = {}
      BY <2>1 DEF Current, OfOrder, Committed
    <3>4. QED
      BY <2>1, <3>1, <3>2, <3>3 DEF IssueKnows, Inserted, Committed
  <2>5. ResendKnows(r)' /\ VoidKnows(r)' /\ RenoteKnows(r)' /\ ArchiveKnows(r)'
    BY <1>1, <2>1 DEF Knows, ResendKnows, VoidKnows, RenoteKnows, ArchiveKnows,
                      Resendable, HasNote, Committed
  <2>6. QED
    BY <1>1, <2>4, <2>5 DEF Knows, Document
<1>4. QED
  BY <1>2, <1>3

\* A request that does not wait for SUNAT, before or after.
LEMMA QuietStep ==
  ASSUME IInv, NEW q \in Requests, NEW j \in JobRow,
         jobs[q].at \notin {"calling", "answered"},
         j.at \notin {"calling", "answered"},
         jobs' = [jobs EXCEPT ![q] = j],
         UNCHANGED <<invoices, notes, wire, sunat, lost>>,
         tasks' \subseteq Ids, Knows(q)', TakesAlone(q)
  PROVE  IInv'
<1>1. /\ jobs'[q] = j
      /\ \A r \in Requests : r # q => jobs'[r] = jobs[r]
  BY DEF IInv, TypeOK
<1>2. TypeOK'
  BY <1>1 DEF IInv, TypeOK
<1>3. Locked'
  <2>1. \A r \in Requests : Knows(r)'
    <3>1. TAKE r \in Requests
    <3>2. CASE r = q
      BY <3>2
    <3>3. CASE r # q
      BY <1>1, <3>3, KnowsStep
    <3>4. QED
      BY <3>2, <3>3
  <2>2. Exclusive'
    BY <1>1, ExclusiveStep DEF IInv, Locked
  <2>3. QED
    BY <2>1, <2>2 DEF Locked
<1>4. AgreesWithSunat'
  <2>1. \A d \in sunat : InHand(d) => InHand(d)'
    BY <1>1 DEF InHand
  <2>2. QED
    BY <2>1 DEF IInv, AgreesWithSunat, SaidAccepted, InvoiceDoc, NoteDoc
<1>5. Bounded' /\ OnlyAcceptedArchived' /\ OrphansAreLost'
  BY DEF IInv, Bounded, OnlyAcceptedArchived, OrphansAreLost
<1>6. QED
  BY <1>2, <1>3, <1>4, <1>5 DEF IInv

\* A request that hands SUNAT a document, or finds that it cannot.
LEMMA SendStep ==
  ASSUME IInv, NEW q \in Requests, NEW job \in JobRow,
         jobs[q].at \notin {"calling", "answered"},
         Document(job) \in Documents, Send(q, job),
         \/ UNCHANGED invoices
         \/ \E i \in NewIds :
              invoices' = [invoices EXCEPT ![i].status = "reserved"],
         UNCHANGED <<notes, tasks, sunat, lost>>,
         Knows(q)', TakesAlone(q)
  PROVE  IInv'
<1>1. /\ jobs' \in [Requests -> JobRow]
      /\ \A r \in Requests : r # q => jobs'[r] = jobs[r]
  <2>1. /\ [job EXCEPT !.at = "calling"] \in JobRow
        /\ [job EXCEPT !.at = "answered", !.answer = "simulated"] \in JobRow
    BY DEF JobRow, Answers
  <2>2. \E j \in JobRow : jobs' = [jobs EXCEPT ![q] = j]
    BY <2>1 DEF Send
  <2>3. QED
    BY <2>2 DEF IInv, TypeOK
<1> DEFINE sent == [doc |-> Document(job), to |-> q]
<1>2. \/ /\ jobs'[q].at = "calling" /\ Document(jobs'[q]) = Document(job)
         /\ wire' = wire \cup {sent}
      \/ UNCHANGED wire
  <2>1. CASE /\ jobs' = [jobs EXCEPT ![q] = [job EXCEPT !.at = "calling"]]
             /\ wire' = wire \cup {sent}
    <3>1. jobs'[q] = [job EXCEPT !.at = "calling"]
      BY <2>1 DEF IInv, TypeOK
    <3>2. QED
      BY <2>1, <3>1 DEF JobRow, Document
  <2>2. QED
    BY <2>1 DEF Send
<1>3. \A m \in wire : m.to # None => m.to \in Requests /\ m.to # q
  BY DEF IInv, TypeOK
<1>4. TypeOK'
  <2>1. invoices' \in [Ids -> InvoiceRow]
    BY DEF IInv, TypeOK, InvoiceRow, NewIds
  <2>2. /\ wire' \subseteq [doc : Documents, to : Requests \cup {None}]
        /\ \A m \in wire' : m.to # None =>
             jobs'[m.to].at = "calling" /\ m.doc = Document(jobs'[m.to])
    <3>1. \A m \in wire : m.to # None =>
            jobs'[m.to].at = "calling" /\ m.doc = Document(jobs'[m.to])
      BY <1>1, <1>3 DEF IInv, TypeOK
    <3>2. CASE UNCHANGED wire
      BY <3>1, <3>2 DEF IInv, TypeOK
    <3>3. CASE /\ jobs'[q].at = "calling" /\ Document(jobs'[q]) = Document(job)
               /\ wire' = wire \cup {sent}
      <4>1. /\ sent \in [doc : Documents, to : Requests \cup {None}]
            /\ sent.to = q /\ sent.doc = Document(job)
        OBVIOUS
      <4>2. QED
        BY <3>1, <3>3, <4>1 DEF IInv, TypeOK
    <3>4. QED
      BY <1>2, <3>2, <3>3
  <2>3. QED
    BY <1>1, <2>1, <2>2 DEF IInv, TypeOK
<1>5. Locked'
  <2>1. \A r \in Requests : Knows(r)'
    <3>1. TAKE r \in Requests
    <3>2. CASE r = q
      BY <3>2
    <3>3. CASE r # q
      BY <1>1, <3>3, KnowsStep
    <3>4. QED
      BY <3>2, <3>3
  <2>2. Exclusive'
    BY <1>1, ExclusiveStep DEF IInv, Locked
  <2>3. QED
    BY <2>1, <2>2 DEF Locked
<1>6. \A i \in Ids : /\ invoices'[i].status = "accepted" <=>
                         invoices[i].status = "accepted"
                     /\ invoices'[i].number = invoices[i].number
                     /\ invoices'[i].archive = invoices[i].archive
  BY DEF IInv, TypeOK, InvoiceRow, NewIds
<1>7. AgreesWithSunat'
  <2>1. \A d \in sunat : InHand(d) => InHand(d)'
    BY <1>1 DEF InHand
  <2>2. \A d \in sunat : d.id \in Ids
    BY DEF IInv, TypeOK, Documents
  <2>3. QED
    BY <1>6, <2>1, <2>2
    DEF IInv, AgreesWithSunat, SaidAccepted, InvoiceDoc, NoteDoc
<1>8. Bounded'
  BY <1>6 DEF IInv, Bounded
<1>9. OnlyAcceptedArchived'
  BY <1>6 DEF IInv, OnlyAcceptedArchived
<1>10. OrphansAreLost'
  <2>1. q # None
    BY InvoicingAssumption
  <2>2. QED
    BY <1>2, <2>1 DEF IInv, OrphansAreLost
<1>11. QED
  BY <1>4, <1>5, <1>7, <1>8, <1>9, <1>10 DEF IInv

-----------------------------------------------------------------------------
(* Issuing. *)

LEMMA EmptyJob == NoJob \in JobRow
BY DEF NoJob, JobRow

LEMMA ReadOrderStep ==
  ASSUME IInv, NEW q \in Requests, NEW o \in Orders, ReadOrder(q, o)
  PROVE  IInv'
<1> DEFINE j == [NoJob EXCEPT !.op = "issue", !.at = "turn", !.order = o,
                              !.replaces = Existing(o)]
<1>1. Existing(o) # 0 => /\ Existing(o) \in Ids /\ Committed(Existing(o))
                         /\ invoices[Existing(o)].voided
  BY ExistingIsOne DEF ReadOrder
<1>2. j \in JobRow
  BY <1>1, EmptyJob DEF JobRow
<1>3. jobs' = [jobs EXCEPT ![q] = j] /\ jobs'[q] = j
  BY DEF ReadOrder, IInv, TypeOK
<1>4. jobs[q].at = "idle" /\ j.op = "issue" /\ j.at = "turn" /\ j.order = o
      /\ j.replaces = Existing(o)
  BY DEF ReadOrder, Idle, NoJob
<1>5. Knows(q)'
  BY <1>1, <1>3, <1>4
  DEF ReadOrder, Knows, IssueKnows, ResendKnows, VoidKnows, RenoteKnows,
      ArchiveKnows, Inserted, Committed
<1>6. TakesAlone(q)
  BY <1>3, <1>4 DEF TakesAlone, HasTurn, Inserted, Job, Locks
<1>7. QED
  <2> HIDE DEF j
  <2> QED
    BY <1>2, <1>3, <1>4, <1>5, <1>6, QuietStep DEF ReadOrder, IInv, TypeOK

LEMMA TakeTurnStep ==
  ASSUME IInv, NEW q \in Requests, TakeTurn(q)
  PROVE  IInv'
<1> DEFINE j == [jobs[q] EXCEPT !.at = "insert", !.number = NextNumber]
<1>1. j \in JobRow
  <2>1. NextNumber \in Nat /\ jobs[q] \in JobRow
    BY NextNumbersAreNumbers DEF IInv, TypeOK
  <2>2. QED
    BY <2>1 DEF JobRow
<1>2. jobs' = [jobs EXCEPT ![q] = j] /\ jobs'[q] = j
  BY DEF TakeTurn, IInv, TypeOK
<1>3. /\ jobs[q].op = "issue" /\ jobs[q].at = "turn"
      /\ j.op = "issue" /\ j.at = "insert"
      /\ j.order = jobs[q].order /\ j.replaces = jobs[q].replaces
  BY DEF TakeTurn, Job, IInv, TypeOK, JobRow
<1>4. Knows(q)'
  <2>1. Knows(q)
    BY DEF IInv, Locked
  <2>2. QED
    BY <1>2, <1>3, <2>1
    DEF TakeTurn, Knows, IssueKnows, ResendKnows, VoidKnows, RenoteKnows,
        ArchiveKnows, Inserted, Committed
<1>5. TakesAlone(q)
  BY <1>2, <1>3 DEF TakeTurn, TurnFree, TakesAlone, Locks
<1>6. QED
  <2> HIDE DEF j
  <2> QED
    BY <1>1, <1>2, <1>3, <1>4, <1>5, QuietStep DEF TakeTurn, IInv, TypeOK

LEMMA InsertInvoiceStep ==
  ASSUME IInv, NEW q \in Requests, InsertInvoice(q)
  PROVE  IInv'
<1>1. jobs[q].op = "issue" /\ jobs[q].at = "insert" /\ Knows(q)
  BY DEF InsertInvoice, Job, IInv, Locked
<1>2. CASE Clashes(jobs[q]) /\ Done(q) /\ UNCHANGED <<invoices, wire>>
  <2>1. jobs' = [jobs EXCEPT ![q] = NoJob] /\ jobs'[q] = NoJob
    BY <1>2 DEF Done, IInv, TypeOK
  <2>2. Knows(q)' /\ TakesAlone(q)
    BY <2>1
    DEF NoJob, Knows, IssueKnows, ResendKnows, VoidKnows, RenoteKnows,
        ArchiveKnows, TakesAlone, HasTurn, Inserted, Job, Locks
  <2>3. NoJob.at = "idle"
    BY DEF NoJob
  <2>4. QED
    BY <1>1, <1>2, <2>1, <2>2, <2>3, EmptyJob, QuietStep
    DEF InsertInvoice, IInv, TypeOK
<1>3. ASSUME ~Clashes(jobs[q]), NEW i \in NewIds,
             invoices' = [invoices EXCEPT ![i].status = "reserved"],
             Send(q, [jobs[q] EXCEPT !.id = i])
      PROVE  IInv'
  <2> DEFINE job == [jobs[q] EXCEPT !.id = i]
  <2>1. /\ job \in JobRow /\ Document(job) \in Documents
        /\ job.op = "issue" /\ job.id = i /\ job.order = jobs[q].order
        /\ job.replaces = jobs[q].replaces
    BY <1>1 DEF IInv, TypeOK, JobRow, NewIds, Document, Documents
  <2>2. /\ jobs'[q].op = "issue" /\ jobs'[q].id = i
        /\ jobs'[q].order = jobs[q].order
        /\ jobs'[q].replaces = jobs[q].replaces
        /\ jobs'[q].at \in {"calling", "answered"}
        /\ jobs'[q].at = "answered" => jobs'[q].answer = "simulated"
    <3> HIDE DEF job
    <3> QED
      BY <1>3, <2>1, Sending DEF IInv, job
  <2>3. /\ invoices'[i].status = "reserved"
        /\ \A k \in Ids : /\ Committed(k) => invoices'[k] = invoices[k]
                          /\ invoices'[k].status \in Answers => Committed(k)
    BY <1>3, Reserving DEF IInv
  <2>4. /\ jobs[q].order \in Orders
        /\ \A k \in Ids : Committed(k) /\ invoices[k].order = jobs[q].order =>
                          invoices[k].voided
    BY <1>1, <1>3 DEF Knows, IssueKnows, Clashes
  <2>5. Knows(q)'
    <3>1. i \in Ids /\ (jobs[q].replaces # 0 => jobs[q].replaces \in Ids)
      BY DEF NewIds, IInv, TypeOK, JobRow
    <3>2. Current(jobs[q].order)' = {}
      <4>1. \A k \in Ids : /\ invoices'[k].status \in Answers
                           /\ invoices'[k].order = jobs'[q].order
                           => invoices'[k].voided
        BY <2>2, <2>3, <2>4
      <4>2. QED
        BY <4>1 DEF Current, OfOrder, Committed
    <3>3. IssueKnows(q)'
      BY <1>1, <2>2, <2>3, <2>4, <3>1, <3>2 DEF Knows, IssueKnows, Committed
    <3>4. QED
      BY <2>2, <3>3 DEF Knows, ResendKnows, VoidKnows, RenoteKnows,
                        ArchiveKnows, Answers
  <2>6. TakesAlone(q)
    <3>1. HasTurn(q)
      BY <1>1 DEF HasTurn, Job
    <3>2. QED
      BY <2>2, <3>1 DEF IInv, Locked, Exclusive, TakesAlone, Locks
  <2>7. QED
    <3> HIDE DEF job
    <3> QED
      BY <1>1, <1>3, <2>1, <2>5, <2>6, SendStep DEF InsertInvoice, job
<1>4. QED
  BY <1>2, <1>3 DEF InsertInvoice

-----------------------------------------------------------------------------
(* Writing an invoice, and its note, that nobody else has taken. *)

\* Request q, which becomes j, writes the invoice i and its note.
Writes(q, j, i, row, note) ==
  /\ jobs' = [jobs EXCEPT ![q] = j]
  /\ invoices' = [invoices EXCEPT ![i] = row]
  /\ notes' = [notes EXCEPT ![i] = note]
  /\ tasks' \subseteq Ids /\ UNCHANGED <<wire, sunat, lost>>

\* Nobody else depends on what changes in it.
Alone(q, i, row) ==
  /\ \A r \in Requests : r # q => ~Locks(r, i)
  /\ \/ /\ Committed(i) /\ row.order = invoices[i].order
        /\ invoices[i].voided => row.voided
     \/ ~Committed(i) /\ \A r \in Requests : r # q => ~Inserted(r)

\* What it writes is what SUNAT said.
Truly(q, i, row, note) ==
  /\ row.status \in Answers
  /\ row.archive # "disabled" => row.status = "accepted"
  /\ invoices[i].status = "accepted" => row.status = "accepted"
  /\ notes[i].status = "accepted" => note.status = "accepted"
  /\ row.status = "accepted" =>
       [kind |-> "invoice", id |-> i, number |-> row.number] \in sunat
  /\ note.status = "accepted" =>
       [kind |-> "note", id |-> i, number |-> note.number] \in sunat
  /\ jobs[q].at = "answered" /\ jobs[q].answer = "accepted" =>
       /\ Document(jobs[q]).id = i
       /\ Document(jobs[q]).kind = "invoice" => row.status = "accepted"
       /\ Document(jobs[q]).kind # "invoice" => note.status = "accepted"

LEMMA SaveStep ==
  ASSUME IInv, NEW q \in Requests, NEW j \in JobRow, NEW i \in Ids,
         NEW row \in InvoiceRow, NEW note \in NoteRow,
         jobs[q].at # "calling", j.op = "none", j.at = "idle",
         Writes(q, j, i, row, note), Alone(q, i, row), Truly(q, i, row, note)
  PROVE  IInv'
<1> USE DEF Writes, Alone, Truly
<1> USE DEF IInv
<1>1. /\ jobs'[q] = j /\ \A r \in Requests : r # q => jobs'[r] = jobs[r]
      /\ invoices'[i] = row /\ notes'[i] = note
      /\ \A k \in Ids : k # i => invoices'[k] = invoices[k] /\ notes'[k] = notes[k]
  BY DEF TypeOK
<1>2. TypeOK'
  <2>1. \A m \in wire : m.to # None => m.to # q
    BY DEF TypeOK
  <2>2. QED
    BY <1>1, <2>1 DEF TypeOK
<1>3. Bounded'
  <2>1. PICK n \in Nat : \A k \in Ids :
                           invoices[k].number <= n /\ notes[k].number <= n
    BY DEF Bounded
  <2>2. row.number \in Nat /\ note.number \in Nat
    BY DEF InvoiceRow, NoteRow
  <2>3. \A k \in Ids : invoices[k].number \in Nat /\ notes[k].number \in Nat
    BY DEF TypeOK, InvoiceRow, NoteRow
  <2>4. \A k \in Ids : /\ invoices'[k].number <= n + row.number + note.number
                       /\ notes'[k].number <= n + row.number + note.number
    <3>1. TAKE k \in Ids
    <3>2. CASE k = i
      BY <1>1, <2>2, <3>2
    <3>3. CASE k # i
      BY <1>1, <2>1, <2>2, <2>3, <3>3
    <3>4. QED
      BY <3>2, <3>3
  <2>5. n + row.number + note.number \in Nat
    BY <2>2
  <2>6. QED
    BY <2>4, <2>5 DEF Bounded
<1>4. Exclusive'
  <2>1. TakesAlone(q)
    BY <1>1 DEF TakesAlone, HasTurn, Inserted, Job, Locks
  <2>2. QED
    BY <1>1, <2>1, ExclusiveStep DEF Locked
<1>5. ASSUME NEW r \in Requests PROVE Knows(r)'
  <2>1. CASE r = q
    BY <1>1, <2>1
    DEF Knows, IssueKnows, ResendKnows, VoidKnows, RenoteKnows, ArchiveKnows,
        Inserted
  <2>2. CASE r # q
    <3>1. jobs'[r] = jobs[r] /\ Knows(r) /\ ~Locks(r, i)
      BY <1>1, <2>2 DEF Locked
    <3>2. IssueKnows(r)'
      <4>1. ASSUME jobs[r].op = "issue", jobs[r].replaces # 0
            PROVE  /\ Committed(jobs[r].replaces)'
                   /\ invoices'[jobs[r].replaces].voided
        <5>1. jobs[r].replaces \in Ids
          BY <4>1 DEF TypeOK, JobRow
        <5>2. QED
          BY <1>1, <3>1, <4>1, <5>1 DEF Knows, IssueKnows, Committed
      <4>2. ASSUME jobs[r].op = "issue", Inserted(r)
            PROVE  /\ jobs[r].id \in Ids
                   /\ invoices'[jobs[r].id].status = "reserved"
                   /\ Current(jobs[r].order)' = {}
        <5>1. Committed(i) /\ row.order = invoices[i].order
              /\ (invoices[i].voided => row.voided)
          BY <2>2, <4>2
        <5>2. jobs[r].id \in Ids /\ invoices[jobs[r].id].status = "reserved"
          BY <3>1, <4>2 DEF Knows, IssueKnows
        <5>3. jobs[r].id # i
          BY <5>1, <5>2 DEF Committed, Answers
        <5>4. \A k \in Ids : Committed(k) /\ invoices[k].order = jobs[r].order
                              => invoices[k].voided
          BY <3>1, <4>2 DEF Knows, IssueKnows, Current, OfOrder
        <5>5. \A k \in Ids : /\ invoices'[k].status \in Answers
                             /\ invoices'[k].order = jobs'[r].order
                             => invoices'[k].voided
          BY <1>1, <3>1, <5>1, <5>4 DEF Committed
        <5>6. QED
          BY <1>1, <5>2, <5>3, <5>5 DEF Current, OfOrder, Committed
      <4>3. QED
        BY <3>1, <4>1, <4>2 DEF Knows, IssueKnows, Inserted, Committed
    <3>3. ResendKnows(r)' /\ VoidKnows(r)' /\ RenoteKnows(r)' /\ ArchiveKnows(r)'
      BY <1>1, <3>1 DEF Knows, ResendKnows, VoidKnows, RenoteKnows,
                        ArchiveKnows, Locks, Committed, Resendable, HasNote
    <3>4. QED
      BY <3>1, <3>2, <3>3 DEF Knows, Document
  <2>3. QED
    BY <2>1, <2>2
<1>6. OnlyAcceptedArchived' /\ OrphansAreLost'
  BY <1>1 DEF OnlyAcceptedArchived, OrphansAreLost
<1>7. AgreesWithSunat'
  <2>1. ASSUME NEW k \in Ids
        PROVE  /\ invoices'[k].status = "accepted" => InvoiceDoc(k)' \in sunat
               /\ notes'[k].status = "accepted" => NoteDoc(k)' \in sunat
    BY <1>1 DEF AgreesWithSunat, InvoiceDoc, NoteDoc
  <2>2. ASSUME NEW d \in sunat \ lost
        PROVE  SaidAccepted(d)' \/ InHand(d)'
    <3>1. d.id \in Ids
      BY DEF TypeOK, Documents
    <3>2. CASE SaidAccepted(d)
      BY <1>1, <3>1, <3>2 DEF SaidAccepted
    <3>3. ASSUME NEW r \in Requests, jobs[r].at = "answered",
                 jobs[r].answer = "accepted", Document(jobs[r]) = d
          PROVE  SaidAccepted(d)' \/ InHand(d)'
      <4>1. CASE r = q
        BY <1>1, <3>3, <4>1 DEF SaidAccepted
      <4>2. CASE r # q
        BY <1>1, <3>3, <4>2 DEF InHand
      <4>3. QED
        BY <4>1, <4>2
    <3>4. QED
      BY <3>2, <3>3 DEF AgreesWithSunat, InHand
  <2>3. QED
    BY <2>1, <2>2 DEF AgreesWithSunat
<1>8. QED
  BY <1>2, <1>3, <1>4, <1>5, <1>6, <1>7 DEF Locked

\* What an idle request is, and what holding nothing means.
LEMMA IdleJob ==
  ASSUME IInv, NEW q \in Requests
  PROVE  /\ jobs[q] \in JobRow /\ Knows(q)
         /\ Idle(q) <=> jobs[q].op = "none"
         /\ NoJob \in JobRow /\ NoJob.op = "none" /\ NoJob.at = "idle"
BY EmptyJob DEF IInv, TypeOK, Locked, Knows, Idle, NoJob

\* The number and the rows in a document are those of the job.
LEMMA Documented ==
  ASSUME IInv, NEW q \in Requests, jobs[q].at \in {"calling", "answered"}
  PROVE  /\ jobs[q].op \in {"issue", "resend", "void", "renote"}
         /\ jobs[q].id \in Ids /\ jobs[q].number \in Nat
         /\ Document(jobs[q]).id = jobs[q].id
         /\ Document(jobs[q]).kind = "invoice" <=>
              jobs[q].op \in {"issue", "resend"}
         /\ Document(jobs[q]) \in Documents
<1>1. jobs[q] \in JobRow /\ Knows(q)
  BY IdleJob
<1>2. jobs[q].op \in {"issue", "resend", "void", "renote"}
  BY <1>1 DEF JobRow, Knows, ArchiveKnows
<1>3. jobs[q].id \in Ids
  BY <1>1, <1>2 DEF Knows, IssueKnows, ResendKnows, VoidKnows, RenoteKnows,
                    Inserted
<1>4. QED
  BY <1>1, <1>2, <1>3 DEF JobRow, Document, Documents

\* Who has taken an invoice is alone with it.
LEMMA LockedAlone ==
  ASSUME IInv, NEW q \in Requests, NEW i \in Ids, Locks(q, i)
  PROVE  \A r \in Requests : r # q => ~Locks(r, i)
BY DEF IInv, Locked, Exclusive

LEMMA SaveNewInvoiceStep ==
  ASSUME IInv, NEW q \in Requests, NEW archiving \in BOOLEAN,
         SaveNewInvoice(q, archiving)
  PROVE  IInv'
<1> DEFINE i == jobs[q].id
           row == [order |-> jobs[q].order, number |-> jobs[q].number,
                   status |-> jobs[q].answer, voided |-> FALSE,
                   archive |-> IF Archived(q, archiving) THEN "pending"
                                                         ELSE "disabled",
                   replaces |-> jobs[q].replaces]
<1>1. /\ jobs[q].op = "issue" /\ jobs[q].at = "answered" /\ Inserted(q)
      /\ Knows(q) /\ jobs[q] \in JobRow
  BY IdleJob DEF SaveNewInvoice, Job, Inserted
<1>2. /\ i \in Ids /\ jobs[q].order \in Orders /\ jobs[q].answer \in Answers
      /\ invoices[i].status = "reserved"
      /\ jobs[q].answer = "accepted" => Document(jobs[q]) \in sunat
  BY <1>1 DEF Knows, IssueKnows
<1>3. row \in InvoiceRow
  BY <1>1, <1>2 DEF JobRow, InvoiceRow, Answers
<1>4. \A r \in Requests : r # q => ~Inserted(r) /\ ~Locks(r, i)
  <2>1. \A r \in Requests : r # q => ~Inserted(r)
    BY <1>1 DEF IInv, Locked, Exclusive, HasTurn
  <2>2. ASSUME NEW r \in Requests, Locks(r, i) PROVE FALSE
    BY <1>2, <2>2, IdleJob
    DEF Locks, Knows, ResendKnows, VoidKnows, RenoteKnows, ArchiveKnows,
        Committed, Answers
  <2>3. QED
    BY <2>1, <2>2
<1>5. Document(jobs[q]) = [kind |-> "invoice", id |-> i, number |-> jobs[q].number]
  BY <1>1 DEF Document
<1>6. tasks' \subseteq Ids
  BY <1>2 DEF SaveNewInvoice, Queue, IInv, TypeOK
<1>7. /\ notes[i] \in NoteRow /\ notes' = [notes EXCEPT ![i] = notes[i]]
      /\ notes[i].status = "accepted" =>
           [kind |-> "note", id |-> i, number |-> notes[i].number] \in sunat
  BY <1>2 DEF SaveNewInvoice, IInv, TypeOK, AgreesWithSunat, NoteDoc
<1>8. jobs' = [jobs EXCEPT ![q] = NoJob] /\ invoices' = [invoices EXCEPT ![i] = row]
  BY DEF SaveNewInvoice, Done
<1>9. /\ row.status = jobs[q].answer /\ row.number = jobs[q].number
      /\ row.archive # "disabled" => row.status = "accepted"
      /\ Document(jobs[q]).id = i /\ Document(jobs[q]).kind = "invoice"
  BY <1>5 DEF Archived
<1>10. ~Committed(i)
  BY <1>2 DEF Committed, Answers
<1>11. Writes(q, NoJob, i, row, notes[i])
  BY <1>6, <1>7, <1>8 DEF Writes, SaveNewInvoice
<1> HIDE DEF row
<1>12. Alone(q, i, row)
  BY <1>4, <1>10 DEF Alone
<1>13. Truly(q, i, row, notes[i])
  BY <1>2, <1>5, <1>7, <1>9 DEF Truly, Answers
<1>14. QED
  BY <1>1, <1>2, <1>3, <1>7, <1>11, <1>12, <1>13, IdleJob, SaveStep

LEMMA SaveResentStep ==
  ASSUME IInv, NEW q \in Requests, NEW archiving \in BOOLEAN,
         SaveResent(q, archiving)
  PROVE  IInv'
<1> DEFINE i == jobs[q].id
           row == [invoices[i] EXCEPT
                     !.status = jobs[q].answer,
                     !.archive = IF Archived(q, archiving) THEN "pending" ELSE @]
<1>1. /\ jobs[q].op = "resend" /\ jobs[q].at = "answered"
      /\ Knows(q) /\ jobs[q] \in JobRow
  BY IdleJob DEF SaveResent, Job
<1>2. /\ i \in Ids /\ Committed(i) /\ Resendable(i) /\ jobs[q].answer \in Answers
      /\ jobs[q].number = invoices[i].number /\ Locks(q, i)
      /\ jobs[q].answer = "accepted" => Document(jobs[q]) \in sunat
      /\ invoices[i] \in InvoiceRow
  BY <1>1 DEF Knows, ResendKnows, Locks, IInv, TypeOK
<1>3. row \in InvoiceRow
  BY <1>2 DEF InvoiceRow, Answers
<1>4. \A r \in Requests : r # q => ~Locks(r, i)
  BY <1>2, LockedAlone
<1>5. Document(jobs[q]) = [kind |-> "invoice", id |-> i, number |-> jobs[q].number]
  BY <1>1 DEF Document
<1>6. tasks' \subseteq Ids
  BY <1>2 DEF SaveResent, Queue, IInv, TypeOK
<1>7. /\ notes[i] \in NoteRow /\ notes' = [notes EXCEPT ![i] = notes[i]]
      /\ notes[i].status = "accepted" =>
           [kind |-> "note", id |-> i, number |-> notes[i].number] \in sunat
  BY <1>2 DEF SaveResent, IInv, TypeOK, AgreesWithSunat, NoteDoc
<1>8. jobs' = [jobs EXCEPT ![q] = NoJob] /\ invoices' = [invoices EXCEPT ![i] = row]
  BY DEF SaveResent, Done
<1>9. /\ row.status = jobs[q].answer /\ row.number = jobs[q].number
      /\ row.order = invoices[i].order /\ row.voided = invoices[i].voided
      /\ row.archive # "disabled" => row.status = "accepted"
      /\ invoices[i].status # "accepted"
      /\ Document(jobs[q]).id = i /\ Document(jobs[q]).kind = "invoice"
  <2>1. invoices[i].archive = "disabled"
    BY <1>2 DEF Resendable, IInv, OnlyAcceptedArchived
  <2>2. QED
    BY <1>2, <1>5, <2>1 DEF Archived, InvoiceRow, Resendable
<1>10. Writes(q, NoJob, i, row, notes[i])
  BY <1>6, <1>7, <1>8 DEF Writes, SaveResent
<1> HIDE DEF row
<1>11. Alone(q, i, row)
  BY <1>2, <1>4, <1>9 DEF Alone
<1>12. Truly(q, i, row, notes[i])
  BY <1>2, <1>5, <1>7, <1>9 DEF Truly
<1>13. QED
  BY <1>1, <1>2, <1>3, <1>7, <1>10, <1>11, <1>12, IdleJob, SaveStep

-----------------------------------------------------------------------------
(* The other steps that write a row. *)

\* The credit note that is there stays true when the invoice is written.
LEMMA SameNote ==
  ASSUME IInv, NEW i \in Ids
  PROVE  /\ notes[i] \in NoteRow /\ notes = [notes EXCEPT ![i] = notes[i]]
         /\ notes[i].status = "accepted" =>
              [kind |-> "note", id |-> i, number |-> notes[i].number] \in sunat
         /\ invoices[i] \in InvoiceRow
         /\ invoices[i].status = "accepted" =>
              [kind |-> "invoice", id |-> i, number |-> invoices[i].number] \in sunat
BY DEF IInv, TypeOK, AgreesWithSunat, NoteDoc, InvoiceDoc

LEMMA VoidLocallyStep ==
  ASSUME IInv, NEW q \in Requests, NEW i \in Ids, VoidLocally(q, i)
  PROVE  IInv'
<1> DEFINE row == [invoices[i] EXCEPT !.voided = TRUE]
<1>1. /\ jobs[q] \in JobRow /\ jobs[q].op = "none" /\ jobs[q].at = "idle"
      /\ Committed(i) /\ \A r \in Requests : ~Locks(r, i)
  BY IdleJob DEF VoidLocally, Idle, Free
<1>2. /\ row \in InvoiceRow /\ row.voided /\ row.order = invoices[i].order
      /\ row.status = invoices[i].status /\ row.archive = invoices[i].archive
      /\ row.number = invoices[i].number
  BY SameNote DEF InvoiceRow
<1>3. Writes(q, jobs[q], i, row, notes[i])
  BY SameNote DEF Writes, VoidLocally, IInv, TypeOK
<1> HIDE DEF row
<1>4. Alone(q, i, row)
  BY <1>1, <1>2 DEF Alone
<1>5. Truly(q, i, row, notes[i])
  BY <1>1, <1>2, SameNote DEF Truly, Committed, IInv, OnlyAcceptedArchived
<1>6. QED
  BY <1>1, <1>2, <1>3, <1>4, <1>5, SameNote, SaveStep

LEMMA RequestArchiveStep ==
  ASSUME IInv, NEW q \in Requests, NEW i \in Ids, RequestArchive(q, i)
  PROVE  IInv'
<1> DEFINE row == [invoices[i] EXCEPT !.archive = "pending"]
<1>1. /\ jobs[q] \in JobRow /\ jobs[q].op = "none" /\ jobs[q].at = "idle"
      /\ Committed(i) /\ \A r \in Requests : ~Locks(r, i)
      /\ invoices[i].status = "accepted"
  BY IdleJob DEF RequestArchive, Idle, Free
<1>2. /\ row \in InvoiceRow /\ row.voided = invoices[i].voided
      /\ row.order = invoices[i].order /\ row.status = invoices[i].status
      /\ row.number = invoices[i].number
  BY SameNote DEF InvoiceRow
<1>3. Writes(q, jobs[q], i, row, notes[i])
  BY SameNote DEF Writes, RequestArchive, IInv, TypeOK
<1> HIDE DEF row
<1>4. Alone(q, i, row)
  BY <1>1, <1>2 DEF Alone
<1>5. Truly(q, i, row, notes[i])
  BY <1>1, <1>2, SameNote DEF Truly, Committed
<1>6. QED
  BY <1>1, <1>2, <1>3, <1>4, <1>5, SameNote, SaveStep

LEMMA FinishArchiveStep ==
  ASSUME IInv, NEW q \in Requests, NEW result \in {"done", "failed"},
         FinishArchive(q, result)
  PROVE  IInv'
<1> DEFINE i == jobs[q].id
           row == [invoices[i] EXCEPT !.archive = result]
<1>1. /\ jobs[q].op = "archive" /\ jobs[q].at = "uploading"
      /\ i \in Ids /\ Committed(i) /\ Locks(q, i)
      /\ invoices[i].archive = "pending" /\ invoices[i].status = "accepted"
  BY IdleJob
  DEF FinishArchive, Job, Knows, ArchiveKnows, Locks, IInv, OnlyAcceptedArchived
<1>2. /\ row \in InvoiceRow /\ row.voided = invoices[i].voided
      /\ row.order = invoices[i].order /\ row.status = invoices[i].status
      /\ row.number = invoices[i].number
  BY <1>1, SameNote DEF InvoiceRow
<1>3. Writes(q, NoJob, i, row, notes[i])
  BY <1>1, SameNote DEF Writes, FinishArchive, Done, IInv, TypeOK
<1>4. \A r \in Requests : r # q => ~Locks(r, i)
  BY <1>1, LockedAlone
<1> HIDE DEF row
<1>5. Alone(q, i, row)
  BY <1>1, <1>2, <1>4 DEF Alone
<1>6. Truly(q, i, row, notes[i])
  BY <1>1, <1>2, SameNote DEF Truly, Committed
<1>7. QED
  BY <1>1, <1>2, <1>3, <1>5, <1>6, SameNote, IdleJob, SaveStep

LEMMA SaveNoteStep ==
  ASSUME IInv, NEW q \in Requests, SaveNote(q)
  PROVE  IInv'
<1> DEFINE i == jobs[q].id
           row == [invoices[i] EXCEPT !.voided = @ \/ Settles(jobs[q].answer)]
           note == [number |-> jobs[q].number, status |-> jobs[q].answer]
<1>1. /\ jobs[q].op \in {"void", "renote"} /\ jobs[q].at = "answered"
      /\ jobs[q] \in JobRow /\ Knows(q)
  BY IdleJob DEF SaveNote, Job
<1>2. /\ i \in Ids /\ Committed(i) /\ Locks(q, i) /\ jobs[q].answer \in Answers
      /\ jobs[q].answer = "accepted" => Document(jobs[q]) \in sunat
      /\ notes[i].status # "accepted"
  BY <1>1 DEF Knows, VoidKnows, RenoteKnows, Locks, HasNote
<1>3. /\ row \in InvoiceRow /\ row.order = invoices[i].order
      /\ row.status = invoices[i].status /\ row.archive = invoices[i].archive
      /\ row.number = invoices[i].number
      /\ invoices[i].voided => row.voided
  BY <1>2, SameNote DEF InvoiceRow, Settles
<1>4. /\ note \in NoteRow /\ note.number = jobs[q].number
      /\ note.status = jobs[q].answer
  BY <1>1, <1>2 DEF JobRow, NoteRow
<1>5. Writes(q, NoJob, i, row, note)
  BY DEF Writes, SaveNote, Done, IInv, TypeOK
<1>6. Document(jobs[q]) = [kind |-> "note", id |-> i, number |-> jobs[q].number]
  BY <1>1 DEF Document
<1>7. \A r \in Requests : r # q => ~Locks(r, i)
  BY <1>2, LockedAlone
<1>8. invoices[i].archive # "disabled" => invoices[i].status = "accepted"
  BY <1>2 DEF IInv, OnlyAcceptedArchived
<1> HIDE DEF row, note
<1>9. Alone(q, i, row)
  BY <1>2, <1>3, <1>7 DEF Alone
<1>10. /\ row.status \in Answers
       /\ row.archive # "disabled" => row.status = "accepted"
       /\ row.status = "accepted" =>
            [kind |-> "invoice", id |-> i, number |-> row.number] \in sunat
  BY <1>2, <1>3, <1>8, SameNote DEF Committed
<1>11. note.status = "accepted" =>
         [kind |-> "note", id |-> i, number |-> note.number] \in sunat
  BY <1>2, <1>4, <1>6
<1>12. Truly(q, i, row, note)
  BY <1>2, <1>3, <1>4, <1>6, <1>10, <1>11 DEF Truly
<1>13. QED
  BY <1>1, <1>2, <1>3, <1>4, <1>5, <1>9, <1>12, IdleJob, SaveStep

-----------------------------------------------------------------------------
(* Taking an invoice, and sending what it has. *)

LEMMA VoidInvoiceStep ==
  ASSUME IInv, NEW q \in Requests, NEW i \in Ids, VoidInvoice(q, i)
  PROVE  IInv'
<1> DEFINE j == [NoJob EXCEPT !.op = "void", !.at = "turn", !.id = i]
<1>1. /\ j \in JobRow /\ j.op = "void" /\ j.at = "turn" /\ j.id = i
  BY EmptyJob DEF NoJob, JobRow
<1>2. /\ jobs[q].at = "idle" /\ Committed(i) /\ ~invoices[i].voided
      /\ \A r \in Requests : ~Locks(r, i)
  BY DEF VoidInvoice, Idle, Free, Voidable
<1>3. jobs' = [jobs EXCEPT ![q] = j] /\ jobs'[q] = j
  BY DEF VoidInvoice, IInv, TypeOK
<1> HIDE DEF j
<1>4. Knows(q)'
  BY <1>1, <1>2, <1>3
  DEF VoidInvoice, Knows, IssueKnows, ResendKnows, VoidKnows, RenoteKnows,
      ArchiveKnows, Committed
<1>5. TakesAlone(q)
  BY <1>1, <1>2, <1>3 DEF TakesAlone, HasTurn, Inserted, Job, Locks
<1>6. tasks' \subseteq Ids
  BY DEF VoidInvoice, IInv, TypeOK
<1>7. QED
  BY <1>1, <1>2, <1>3, <1>4, <1>5, <1>6, QuietStep DEF VoidInvoice

LEMMA StartArchiveStep ==
  ASSUME IInv, NEW q \in Requests, NEW i \in Ids, StartArchive(q, i)
  PROVE  IInv'
<1> DEFINE j == IF invoices[i].archive # "pending" THEN jobs[q]
                ELSE [NoJob EXCEPT !.op = "archive", !.at = "uploading", !.id = i]
<1>1. /\ jobs[q] \in JobRow /\ jobs[q].op = "none" /\ jobs[q].at = "idle"
      /\ Committed(i) /\ \A r \in Requests : ~Locks(r, i)
  BY IdleJob DEF StartArchive, Idle, Free
<1>2. /\ j \in JobRow /\ j.at \in {"idle", "uploading"}
      /\ \/ j.op = "none" /\ j.at = "idle"
         \/ /\ j.op = "archive" /\ j.at = "uploading" /\ j.id = i
            /\ invoices[i].archive = "pending"
  BY <1>1, EmptyJob DEF NoJob, JobRow
<1>3. jobs' = [jobs EXCEPT ![q] = j] /\ jobs'[q] = j
  BY DEF StartArchive, IInv, TypeOK
<1> HIDE DEF j
<1>4. Knows(q)'
  BY <1>1, <1>2, <1>3
  DEF StartArchive, Knows, IssueKnows, ResendKnows, VoidKnows, RenoteKnows,
      ArchiveKnows, Committed
<1>5. TakesAlone(q)
  BY <1>1, <1>2, <1>3 DEF TakesAlone, HasTurn, Inserted, Job, Locks
<1>6. tasks' \subseteq Ids
  BY DEF StartArchive, IInv, TypeOK
<1>7. QED
  BY <1>1, <1>2, <1>3, <1>4, <1>5, <1>6, QuietStep DEF StartArchive

LEMMA InsertNoteStep ==
  ASSUME IInv, NEW q \in Requests, InsertNote(q)
  PROVE  IInv'
<1> DEFINE i == jobs[q].id
           job == [jobs[q] EXCEPT !.number = NextNoteNumber]
<1>1. /\ jobs[q].op = "void" /\ jobs[q].at = "turn" /\ jobs[q] \in JobRow
      /\ i \in Ids /\ Committed(i) /\ ~invoices[i].voided /\ Locks(q, i)
  BY IdleJob DEF InsertNote, Job, Knows, VoidKnows, Locks
<1>2. CASE HasNote(i)
  <2>1. jobs' = [jobs EXCEPT ![q] = NoJob] /\ jobs'[q] = NoJob
    BY <1>2 DEF InsertNote, Done, IInv, TypeOK
  <2>2. Knows(q)' /\ TakesAlone(q)
    BY <2>1
    DEF NoJob, Knows, IssueKnows, ResendKnows, VoidKnows, RenoteKnows,
        ArchiveKnows, TakesAlone, HasTurn, Inserted, Job, Locks
  <2>3. tasks' \subseteq Ids /\ UNCHANGED <<invoices, notes, wire, sunat, lost>>
    BY <1>2 DEF InsertNote, IInv, TypeOK
  <2>4. QED
    BY <1>1, <2>1, <2>2, <2>3, IdleJob, QuietStep
<1>3. CASE ~HasNote(i)
  <2>1. NextNoteNumber \in Nat
    BY NextNumbersAreNumbers DEF IInv
  <2>2. /\ job \in JobRow /\ Document(job) \in Documents
        /\ job.op = "void" /\ job.id = i
    BY <1>1, <2>1 DEF JobRow, Document, Documents
  <2> HIDE DEF job
  <2>3. Send(q, job) /\ UNCHANGED <<invoices, notes, tasks, sunat, lost>>
    BY <1>3 DEF InsertNote, job
  <2>4. /\ jobs'[q].op = "void" /\ jobs'[q].id = i
        /\ jobs'[q].at \in {"calling", "answered"}
        /\ jobs'[q].at = "answered" => jobs'[q].answer = "simulated"
    BY <2>2, <2>3, Sending DEF IInv
  <2>5. Knows(q)'
    BY <1>1, <1>3, <2>3, <2>4
    DEF Knows, IssueKnows, ResendKnows, VoidKnows, RenoteKnows, ArchiveKnows,
        Committed, HasNote, Answers
  <2>6. TakesAlone(q)
    BY <1>1, <2>4, LockedAlone DEF InsertNote, TurnFree, TakesAlone, Locks
  <2>7. QED
    BY <1>1, <2>2, <2>3, <2>5, <2>6, SendStep
<1>4. QED
  BY <1>2, <1>3

LEMMA ResendInvoiceStep ==
  ASSUME IInv, NEW q \in Requests, NEW i \in Ids, ResendInvoice(q, i)
  PROVE  IInv'
<1> DEFINE job == [NoJob EXCEPT !.op = "resend", !.id = i,
                                !.number = invoices[i].number]
<1>1. /\ jobs[q].at = "idle" /\ Committed(i) /\ Resendable(i)
      /\ \A r \in Requests : ~Locks(r, i)
  BY DEF ResendInvoice, Idle, Free
<1>2. /\ job \in JobRow /\ Document(job) \in Documents
      /\ job.op = "resend" /\ job.id = i /\ job.number = invoices[i].number
  BY SameNote DEF InvoiceRow, NoJob, JobRow, Document, Documents
<1> HIDE DEF job
<1>3. Send(q, job) /\ UNCHANGED <<invoices, notes, tasks, sunat, lost>>
  BY DEF ResendInvoice, job
<1>4. /\ jobs'[q].op = "resend" /\ jobs'[q].id = i
      /\ jobs'[q].number = invoices[i].number
      /\ jobs'[q].at \in {"calling", "answered"}
      /\ jobs'[q].at = "answered" => jobs'[q].answer = "simulated"
  BY <1>2, <1>3, Sending DEF IInv
<1>5. Knows(q)'
  BY <1>1, <1>3, <1>4
  DEF Knows, IssueKnows, ResendKnows, VoidKnows, RenoteKnows, ArchiveKnows,
      Committed, Resendable, Answers
<1>6. TakesAlone(q)
  BY <1>1, <1>4 DEF TakesAlone, HasTurn, Inserted, Job, Locks
<1>7. QED
  BY <1>1, <1>2, <1>3, <1>5, <1>6, SendStep

LEMMA ResendCreditNoteStep ==
  ASSUME IInv, NEW q \in Requests, NEW i \in Ids, ResendCreditNote(q, i)
  PROVE  IInv'
<1> DEFINE job == [NoJob EXCEPT !.op = "renote", !.id = i,
                                !.number = notes[i].number]
<1>1. /\ jobs[q].at = "idle" /\ Committed(i) /\ HasNote(i)
      /\ notes[i].status # "accepted" /\ \A r \in Requests : ~Locks(r, i)
  BY DEF ResendCreditNote, Idle, Free
<1>2. /\ job \in JobRow /\ Document(job) \in Documents
      /\ job.op = "renote" /\ job.id = i /\ job.number = notes[i].number
  BY SameNote DEF NoteRow, NoJob, JobRow, Document, Documents
<1> HIDE DEF job
<1>3. Send(q, job) /\ UNCHANGED <<invoices, notes, tasks, sunat, lost>>
  BY DEF ResendCreditNote, job
<1>4. /\ jobs'[q].op = "renote" /\ jobs'[q].id = i
      /\ jobs'[q].number = notes[i].number
      /\ jobs'[q].at \in {"calling", "answered"}
      /\ jobs'[q].at = "answered" => jobs'[q].answer = "simulated"
  BY <1>2, <1>3, Sending DEF IInv
<1>5. Knows(q)'
  BY <1>1, <1>3, <1>4
  DEF Knows, IssueKnows, ResendKnows, VoidKnows, RenoteKnows, ArchiveKnows,
      Committed, HasNote, Answers
<1>6. TakesAlone(q)
  BY <1>1, <1>4 DEF TakesAlone, HasTurn, Inserted, Job, Locks
<1>7. QED
  BY <1>1, <1>2, <1>3, <1>5, <1>6, SendStep

-----------------------------------------------------------------------------
(* Answers, and requests that stop waiting for one. *)

LEMMA AnsweredJob ==
  ASSUME IInv, NEW q \in Requests, jobs[q].at = "calling",
         NEW answer \in Answers,
         jobs' = [jobs EXCEPT ![q].at = "answered", ![q].answer = answer],
         UNCHANGED <<invoices, notes>>, sunat \subseteq sunat',
         answer = "accepted" => Document(jobs[q]) \in sunat'
  PROVE  /\ jobs' \in [Requests -> JobRow]
         /\ \A r \in Requests : r # q => jobs'[r] = jobs[r]
         /\ jobs'[q].at = "answered" /\ jobs'[q].answer = answer
         /\ Document(jobs'[q]) = Document(jobs[q])
         /\ Knows(q)' /\ TakesAlone(q)
<1> DEFINE j == [jobs[q] EXCEPT !.at = "answered", !.answer = answer]
<1>1. /\ j \in JobRow /\ j.at = "answered" /\ j.answer = answer
      /\ j.op = jobs[q].op /\ j.id = jobs[q].id /\ j.order = jobs[q].order
      /\ j.replaces = jobs[q].replaces /\ j.number = jobs[q].number
      /\ Document(j) = Document(jobs[q])
  BY IdleJob DEF JobRow, Document, Answers
<1>2. jobs' = [jobs EXCEPT ![q] = j] /\ jobs'[q] = j
  BY DEF IInv, TypeOK
<1> HIDE DEF j
<1>3. /\ jobs' \in [Requests -> JobRow]
      /\ \A r \in Requests : r # q => jobs'[r] = jobs[r]
  BY <1>1, <1>2 DEF IInv, TypeOK
<1>4. Knows(q)
  BY IdleJob
<1>5. IssueKnows(q)'
  <2>1. Inserted(q)' <=> Inserted(q)
    BY <1>1, <1>2 DEF Inserted
  <2>2. Current(jobs[q].order)' = Current(jobs[q].order)
    BY <1>1, <1>2 DEF Current, OfOrder, Committed
  <2>3. jobs'[q].order = jobs[q].order
    BY <1>1, <1>2
  <2>4. QED
    BY <1>1, <1>2, <1>4, <2>1, <2>2, <2>3 DEF Knows, IssueKnows, Committed
<1>6. ResendKnows(q)' /\ VoidKnows(q)' /\ RenoteKnows(q)' /\ ArchiveKnows(q)'
  BY <1>1, <1>2, <1>4
  DEF Knows, ResendKnows, VoidKnows, RenoteKnows, ArchiveKnows, Committed,
      Resendable, HasNote
<1>7. Knows(q)'
  BY <1>1, <1>2, <1>4, <1>5, <1>6 DEF Knows
<1>8. TakesAlone(q)
  <2>1. HasTurn(q)' => HasTurn(q)
    BY <1>1, <1>2 DEF HasTurn, Inserted, Job
  <2>2. \A i \in Ids : Locks(q, i)' => Locks(q, i)
    BY <1>1, <1>2 DEF Locks
  <2>3. QED
    BY <2>1, <2>2 DEF IInv, Locked, Exclusive, TakesAlone
<1>9. QED
  BY <1>1, <1>2, <1>3, <1>7, <1>8

LEMMA LockedStep ==
  ASSUME IInv, NEW q \in Requests,
         \A r \in Requests : r # q => jobs'[r] = jobs[r],
         UNCHANGED <<invoices, notes>>, sunat \subseteq sunat',
         Knows(q)', TakesAlone(q)
  PROVE  Locked'
<1>1. \A r \in Requests : Knows(r)'
  <2>1. TAKE r \in Requests
  <2>2. CASE r = q
    BY <2>2
  <2>3. CASE r # q
    BY <2>3, KnowsStep
  <2>4. QED
    BY <2>2, <2>3
<1>2. Exclusive'
  BY ExclusiveStep DEF IInv, Locked
<1>3. QED
  BY <1>1, <1>2 DEF Locked

\* A request that stops waiting: what it sent is an orphan, its answer lost.
LEMMA ReleaseStep ==
  ASSUME IInv, NEW q \in Requests, jobs' \in [Requests -> JobRow],
         \A r \in Requests : r # q => jobs'[r] = jobs[r],
         wire' = Orphaned(q),
         lost' = IF jobs[q].at \in {"calling", "answered"}
                   THEN lost \cup {Document(jobs[q])} ELSE lost,
         UNCHANGED <<invoices, notes, tasks, sunat>>,
         Knows(q)', TakesAlone(q)
  PROVE  IInv'
<1>1. /\ lost' \subseteq Documents /\ lost \subseteq lost'
      /\ jobs[q].at \in {"calling", "answered"} => Document(jobs[q]) \in lost'
  BY Documented DEF IInv, TypeOK
<1>2. \A m \in wire : /\ m \in [doc : Documents, to : Requests \cup {None}]
                      /\ m.to # None => jobs[m.to].at = "calling"
                                        /\ m.doc = Document(jobs[m.to])
  BY DEF IInv, TypeOK
<1>3. ASSUME NEW m \in wire'
      PROVE  /\ m \in [doc : Documents, to : Requests \cup {None}]
             /\ \/ m \in wire /\ m.to # q
                \/ m.to = None /\ m.doc \in lost'
  <2>1. CASE m \in wire /\ m.to # q
    BY <1>2, <2>1
  <2>2. ASSUME NEW n \in wire, n.to = q, m = [n EXCEPT !.to = None]
        PROVE  /\ m \in [doc : Documents, to : Requests \cup {None}]
               /\ m.to = None /\ m.doc \in lost'
    <3>1. q # None
      BY InvoicingAssumption
    <3>2. n \in [doc : Documents, to : Requests \cup {None}]
          /\ n.doc \in lost'
      BY <1>1, <1>2, <2>2, <3>1
    <3>3. QED
      BY <2>2, <3>2
  <2>3. QED
    BY <2>1, <2>2 DEF Orphaned
<1>4. TypeOK'
  <2>1. \A m \in wire' : m.to # None =>
          jobs'[m.to].at = "calling" /\ m.doc = Document(jobs'[m.to])
    BY <1>2, <1>3
  <2>2. wire' \subseteq [doc : Documents, to : Requests \cup {None}]
    BY <1>3
  <2>3. QED
    BY <1>1, <2>1, <2>2 DEF IInv, TypeOK
<1>5. Locked'
  BY LockedStep
<1>6. OrphansAreLost'
  BY <1>1, <1>3 DEF IInv, OrphansAreLost
<1>7. AgreesWithSunat'
  <2>1. \A d \in sunat \ lost' : InHand(d) => InHand(d)'
    BY <1>1 DEF InHand
  <2>2. QED
    BY <1>1, <2>1 DEF IInv, AgreesWithSunat, SaidAccepted, InvoiceDoc, NoteDoc
<1>8. Bounded' /\ OnlyAcceptedArchived'
  BY DEF IInv, Bounded, OnlyAcceptedArchived
<1>9. QED
  BY <1>4, <1>5, <1>6, <1>7, <1>8 DEF IInv

LEMMA GiveUpStep ==
  ASSUME IInv, NEW q \in Requests, GiveUp(q)
  PROVE  IInv'
<1>1. /\ jobs' \in [Requests -> JobRow]
      /\ \A r \in Requests : r # q => jobs'[r] = jobs[r]
      /\ Knows(q)' /\ TakesAlone(q)
  <2>1. "pending" \in Answers
    BY DEF Answers
  <2>2. QED
    BY <2>1, AnsweredJob DEF GiveUp
<1>2. QED
  BY <1>1, ReleaseStep DEF GiveUp

LEMMA AbortStep ==
  ASSUME IInv, NEW q \in Requests, Abort(q)
  PROVE  IInv'
<1>1. /\ jobs' \in [Requests -> JobRow] /\ jobs'[q] = NoJob
      /\ \A r \in Requests : r # q => jobs'[r] = jobs[r]
  BY IdleJob DEF Abort, Done, IInv, TypeOK
<1>2. Knows(q)' /\ TakesAlone(q)
  BY <1>1
  DEF NoJob, Knows, IssueKnows, ResendKnows, VoidKnows, RenoteKnows,
      ArchiveKnows, TakesAlone, HasTurn, Inserted, Job, Locks
<1>3. QED
  BY <1>1, <1>2, ReleaseStep DEF Abort

\* SUNAT has done with a message: it is registered, or it is not.
LEMMA AnswerStep ==
  ASSUME IInv, NEW m \in wire, NEW answer \in {"accepted", "rejected"},
         Answered(m, answer),
         sunat' = IF answer = "accepted" THEN sunat \cup {m.doc} ELSE sunat,
         UNCHANGED <<invoices, notes, tasks, lost>>
  PROVE  IInv'
<1>1. /\ m \in [doc : Documents, to : Requests \cup {None}]
      /\ m.to # None => /\ m.to \in Requests /\ jobs[m.to].at = "calling"
                        /\ m.doc = Document(jobs[m.to])
      /\ m.to = None => m.doc \in lost
  BY DEF IInv, TypeOK, OrphansAreLost
<1>2. sunat \subseteq sunat' /\ sunat' \subseteq Documents
  BY <1>1 DEF IInv, TypeOK
<1>3. \A n \in wire : /\ n \in [doc : Documents, to : Requests \cup {None}]
                      /\ n.to # None => jobs[n.to].at = "calling"
                                        /\ n.doc = Document(jobs[n.to])
  BY DEF IInv, TypeOK
<1>4. Bounded' /\ OnlyAcceptedArchived' /\ OrphansAreLost'
  BY DEF IInv, Bounded, OnlyAcceptedArchived, OrphansAreLost, Answered
<1>5. \A i \in Ids : /\ invoices'[i].status = "accepted" => InvoiceDoc(i)' \in sunat'
                     /\ notes'[i].status = "accepted" => NoteDoc(i)' \in sunat'
  BY <1>2 DEF IInv, AgreesWithSunat, InvoiceDoc, NoteDoc
<1>6. CASE m.to = None
  <2>1. UNCHANGED jobs /\ wire' = wire \ {m}
    BY <1>6 DEF Answered
  <2>2. TypeOK'
    BY <1>2, <1>3, <2>1 DEF IInv, TypeOK
  <2>3. Locked'
    <3>1. \A r \in Requests : Knows(r)'
      BY <1>2, <2>1, KnowsStep
    <3>2. Exclusive'
      BY <2>1 DEF IInv, Locked, Exclusive, HasTurn, Inserted, Job, Locks
    <3>3. QED
      BY <3>1, <3>2 DEF Locked
  <2>4. AgreesWithSunat'
    <3>1. \A d \in sunat' \ lost : SaidAccepted(d) \/ InHand(d)
      BY <1>1, <1>6 DEF IInv, AgreesWithSunat
    <3>2. \A d \in sunat' \ lost : /\ SaidAccepted(d) => SaidAccepted(d)'
                                   /\ InHand(d) => InHand(d)'
      BY <2>1 DEF SaidAccepted, InHand
    <3>3. QED
      BY <1>5, <3>1, <3>2 DEF AgreesWithSunat
  <2>5. QED
    BY <1>4, <2>2, <2>3, <2>4 DEF IInv
<1>7. ASSUME NEW q \in Requests, q = m.to
      PROVE  IInv'
  <2>1. /\ jobs[q].at = "calling" /\ m.doc = Document(jobs[q])
        /\ jobs' = [jobs EXCEPT ![q].at = "answered", ![q].answer = answer]
        /\ wire' = wire \ {m}
    BY <1>1, <1>7, InvoicingAssumption DEF Answered
  <2>2. /\ jobs' \in [Requests -> JobRow]
        /\ \A r \in Requests : r # q => jobs'[r] = jobs[r]
        /\ jobs'[q].at = "answered" /\ jobs'[q].answer = answer
        /\ Document(jobs'[q]) = m.doc
        /\ Knows(q)' /\ TakesAlone(q)
    <3>1. answer \in Answers /\ (answer = "accepted" => m.doc \in sunat')
      BY DEF Answers
    <3>2. QED
      BY <1>2, <2>1, <3>1, AnsweredJob
  <2>3. TypeOK'
    <3>1. \A n \in wire' : n.to # None => n.to # q
      <4>1. ASSUME NEW n \in wire', n.to = q PROVE FALSE
        <5>1. n.doc = m.doc /\ n.to = m.to
          BY <1>3, <1>7, <2>1, <4>1, InvoicingAssumption
        <5>2. n \in [doc : Documents, to : Requests \cup {None}] /\ n # m
          BY <1>3, <2>1
        <5>3. QED
          BY <1>1, <5>1, <5>2
      <4>2. QED
        BY <4>1
    <3>2. \A n \in wire' : n.to # None =>
            jobs'[n.to].at = "calling" /\ n.doc = Document(jobs'[n.to])
      BY <1>3, <2>1, <2>2, <3>1
    <3>3. QED
      BY <1>2, <2>1, <2>2, <3>2 DEF IInv, TypeOK
  <2>4. Locked'
    BY <1>2, <2>2, LockedStep
  <2>5. AgreesWithSunat'
    <3>1. ASSUME NEW d \in sunat' \ lost
          PROVE  SaidAccepted(d)' \/ InHand(d)'
      <4>1. CASE d \in sunat
        <5>1. InHand(d) => InHand(d)'
          BY <2>1, <2>2 DEF InHand
        <5>2. SaidAccepted(d) => SaidAccepted(d)'
          BY DEF SaidAccepted
        <5>3. QED
          BY <4>1, <5>1, <5>2 DEF IInv, AgreesWithSunat
      <4>2. CASE d \notin sunat
        <5>1. d = m.doc /\ answer = "accepted"
          BY <4>2
        <5>2. QED
          BY <2>2, <5>1 DEF InHand
      <4>3. QED
        BY <4>1, <4>2
    <3>2. QED
      BY <1>5, <3>1 DEF AgreesWithSunat
  <2>6. QED
    BY <1>4, <2>3, <2>4, <2>5 DEF IInv
<1>8. QED
  BY <1>1, <1>6, <1>7

-----------------------------------------------------------------------------
(* The theorems. *)

LEMMA InitIInv == Init => IInv
<1> SUFFICES ASSUME Init PROVE IInv
  OBVIOUS
<1>1. NoInvoice \in InvoiceRow /\ NoNote \in NoteRow
  BY DEF NoInvoice, NoNote, InvoiceRow, NoteRow
<1>2. TypeOK
  BY <1>1, EmptyJob DEF Init, TypeOK
<1>3. Bounded
  <2>1. \A i \in Ids : invoices[i].number <= 0 /\ notes[i].number <= 0
    BY DEF Init, NoInvoice, NoNote
  <2>2. QED
    BY <2>1 DEF Bounded
<1>4. Locked
  BY DEF Init, NoJob, Locked, Exclusive, HasTurn, Inserted, Job, Locks, Knows,
         IssueKnows, ResendKnows, VoidKnows, RenoteKnows, ArchiveKnows
<1>5. OnlyAcceptedArchived /\ OrphansAreLost /\ AgreesWithSunat
  BY DEF Init, NoInvoice, NoNote, OnlyAcceptedArchived, OrphansAreLost,
         AgreesWithSunat
<1>6. QED
  BY <1>2, <1>3, <1>4, <1>5 DEF IInv

LEMMA Stuttering ==
  ASSUME IInv, UNCHANGED <<invoices, notes, jobs, wire, sunat, lost>>,
         tasks' \subseteq Ids
  PROVE  IInv'
<1>1. TypeOK' /\ Bounded' /\ OnlyAcceptedArchived' /\ OrphansAreLost'
  BY DEF IInv, TypeOK, Bounded, OnlyAcceptedArchived, OrphansAreLost
<1>2. \A r \in Requests : Knows(r)'
  BY KnowsStep
<1>3. Exclusive'
  BY DEF IInv, Locked, Exclusive, HasTurn, Inserted, Job, Locks
<1>4. AgreesWithSunat'
  BY DEF IInv, AgreesWithSunat, SaidAccepted, InHand, InvoiceDoc, NoteDoc
<1>5. QED
  BY <1>1, <1>2, <1>3, <1>4 DEF IInv, Locked

LEMMA NextIInv == IInv /\ [Next]_vars => IInv'
<1> SUFFICES ASSUME IInv, [Next]_vars PROVE IInv'
  OBVIOUS
<1>1. ASSUME NEW q \in Requests, Issue(q) PROVE IInv'
  BY <1>1, ReadOrderStep, TakeTurnStep, InsertInvoiceStep, SaveNewInvoiceStep
  DEF Issue
<1>2. ASSUME NEW q \in Requests, Change(q) PROVE IInv'
  BY <1>2, ResendInvoiceStep, VoidLocallyStep, VoidInvoiceStep,
     ResendCreditNoteStep, InsertNoteStep, SaveNoteStep, SaveResentStep
  DEF Change
<1>3. ASSUME NEW q \in Requests, Archive(q) PROVE IInv'
  BY <1>3, RequestArchiveStep, StartArchiveStep, FinishArchiveStep DEF Archive
<1>4. ASSUME NEW q \in Requests, GiveUp(q) \/ Abort(q) PROVE IInv'
  BY <1>4, GiveUpStep, AbortStep
<1>5. ASSUME NEW m \in wire, SunatAccepts(m) PROVE IInv'
  <2>1. sunat' = IF "accepted" = "accepted" THEN sunat \cup {m.doc} ELSE sunat
    BY <1>5 DEF SunatAccepts
  <2>2. QED
    BY <1>5, <2>1, AnswerStep DEF SunatAccepts
<1>6. ASSUME NEW m \in wire, SunatRejects(m) PROVE IInv'
  <2>1. sunat' = IF "rejected" = "accepted" THEN sunat \cup {m.doc} ELSE sunat
    BY <1>6 DEF SunatRejects
  <2>2. QED
    BY <1>6, <2>1, AnswerStep DEF SunatRejects
<1>7. ASSUME NEW i \in Ids, ForgetTask(i) PROVE IInv'
  <2>1. tasks' \subseteq Ids
    BY <1>7 DEF ForgetTask, IInv, TypeOK
  <2>2. QED
    BY <1>7, <2>1, Stuttering DEF ForgetTask
<1>8. CASE UNCHANGED vars
  <2>1. tasks' \subseteq Ids
    BY <1>8 DEF vars, IInv, TypeOK
  <2>2. QED
    BY <1>8, <2>1, Stuttering DEF vars
<1>9. QED
  BY <1>1, <1>2, <1>3, <1>4, <1>5, <1>6, <1>7, <1>8 DEF Next

\* For any number of requests, orders and invoices, however late SUNAT answers
\* and whatever request is undone meanwhile, the invariant holds.
THEOREM Inductive == Spec => []IInv
BY InitIInv, NextIInv, PTL DEF Spec

\* Rows keep the values of their columns, and a message that a request waits on
\* is always the one it sent (use_cases/invoicing.py, use_cases/voiding.py).
THEOREM TypeCorrect == Spec => []TypeOK
<1>1. IInv => TypeOK
  BY DEF IInv
<1>2. QED
  BY <1>1, Inductive, PTL

\* What the table calls accepted SUNAT has registered, and what SUNAT has
\* registered the table calls accepted, is about to, or lost the answer of: no
\* late or repeated send (ResendInvoice, ResendCreditNote) breaks the agreement.
THEOREM StateAgrees == Spec => []AgreesWithSunat
<1>1. IInv => AgreesWithSunat
  BY DEF IInv
<1>2. QED
  BY <1>1, Inductive, PTL

\* Who inserts a replacement holds the turn and waits for the invoice it
\* replaces; that invoice is voided, so no voiding that holds it waits for the
\* turn (IssueInvoice and VoidInvoice lock in opposite orders).
THEOREM NoCircle == Spec => []NobodyWaitsInCircle
<1>1. IInv => NobodyWaitsInCircle
  <2> SUFFICES ASSUME IInv, NEW q \in Requests, NEW r \in Requests,
                      Job(q, "issue", "insert"), Job(r, "void", "turn")
               PROVE  jobs[q].replaces # jobs[r].id
    BY DEF NobodyWaitsInCircle
  <2>1. Knows(q) /\ Knows(r)
    BY IdleJob
  <2>2. jobs[r].id \in Ids /\ ~invoices[jobs[r].id].voided
    BY <2>1 DEF Job, Knows, VoidKnows
  <2>3. jobs[q].replaces # 0 => invoices[jobs[q].replaces].voided
    BY <2>1 DEF Job, Knows, IssueKnows
  <2>4. 0 \notin Ids
    BY InvoicingAssumption DEF Ids
  <2>5. QED
    BY <2>2, <2>3, <2>4
<1>2. QED
  BY <1>1, Inductive, PTL

-----------------------------------------------------------------------------
(* What a step may do to the invoices, and what it may never do. *)

\* A row that is there keeps its order, and what it has reached.
Keeps(i, row) ==
  /\ Committed(i) /\ row.status \in Answers /\ row.order = invoices[i].order
  /\ row.number = invoices[i].number /\ row.replaces = invoices[i].replaces
  /\ invoices[i].voided => row.voided
  /\ invoices[i].status = "accepted" => row.status = "accepted"
  /\ invoices[i].archive = "done" => row.archive = "done"

\* A new row is the current invoice of an order that had none.
IsNew(i, row) ==
  /\ ~Committed(i) /\ invoices[i].archive = "disabled"
  /\ row.status \in Answers /\ ~row.voided
  /\ row.order \in Orders /\ Current(row.order) = {}
  /\ \E q \in Requests : /\ Inserted(q) /\ jobs[q].id = i
                         /\ jobs[q].number = row.number
                         /\ jobs[q].replaces = row.replaces
                         /\ jobs'[q] = NoJob

Evolves ==
  \/ UNCHANGED invoices
  \/ \E i \in NewIds : /\ \A j \in NewIds : i <= j
                       /\ invoices' = [invoices EXCEPT ![i].status = "reserved"]
  \/ \E i \in Ids, row \in InvoiceRow :
       /\ invoices' = [invoices EXCEPT ![i] = row]
       /\ Keeps(i, row) \/ IsNew(i, row)

LEMMA SaveNewEvolves ==
  ASSUME IInv, NEW q \in Requests, NEW archiving \in BOOLEAN,
         SaveNewInvoice(q, archiving)
  PROVE  Evolves
<1> DEFINE i == jobs[q].id
           row == [order |-> jobs[q].order, number |-> jobs[q].number,
                   status |-> jobs[q].answer, voided |-> FALSE,
                   archive |-> IF Archived(q, archiving) THEN "pending"
                                                         ELSE "disabled",
                   replaces |-> jobs[q].replaces]
<1>1. /\ jobs[q].op = "issue" /\ jobs[q].at = "answered" /\ Inserted(q)
      /\ Knows(q) /\ jobs[q] \in JobRow
  BY IdleJob DEF SaveNewInvoice, Job, Inserted
<1>2. /\ i \in Ids /\ jobs[q].order \in Orders /\ jobs[q].answer \in Answers
      /\ invoices[i].status = "reserved" /\ Current(jobs[q].order) = {}
  BY <1>1 DEF Knows, IssueKnows
<1>3. row \in InvoiceRow
  BY <1>1, <1>2 DEF JobRow, InvoiceRow, Answers
<1>4. /\ row.status = jobs[q].answer /\ row.order = jobs[q].order
      /\ row.voided = FALSE /\ row.replaces = jobs[q].replaces
      /\ row.number = jobs[q].number
  OBVIOUS
<1>5. invoices' = [invoices EXCEPT ![i] = row]
  BY DEF SaveNewInvoice
<1>6. ~Committed(i) /\ invoices[i].archive = "disabled"
  BY <1>2, SameNote DEF Committed, Answers, IInv, OnlyAcceptedArchived
<1> HIDE DEF row
<1>7. jobs'[q] = NoJob
  BY DEF SaveNewInvoice, Done, IInv, TypeOK
<1>8. IsNew(i, row)
  BY <1>1, <1>2, <1>4, <1>6, <1>7 DEF IsNew
<1>9. QED
  BY <1>2, <1>3, <1>5, <1>8 DEF Evolves

\* A write that changes some columns of a row that is there.
LEMMA WriteEvolves ==
  ASSUME IInv, NEW i \in Ids, NEW row, Committed(i),
         invoices' = [invoices EXCEPT ![i] = row],
         \E status \in Answers, voided \in BOOLEAN,
            archive \in {"disabled", "pending", "done", "failed"} :
           /\ row = [invoices[i] EXCEPT !.status = status, !.voided = voided,
                                        !.archive = archive]
           /\ invoices[i].voided => voided
           /\ invoices[i].status = "accepted" => status = "accepted"
           /\ invoices[i].archive = "done" => archive = "done"
  PROVE  Evolves
<1>1. invoices[i] \in InvoiceRow
  BY SameNote
<1>2. row \in InvoiceRow /\ Keeps(i, row)
  BY <1>1 DEF InvoiceRow, Keeps, Answers
<1>3. QED
  BY <1>2 DEF Evolves

LEMMA SaveResentEvolves ==
  ASSUME IInv, NEW q \in Requests, NEW archiving \in BOOLEAN,
         SaveResent(q, archiving)
  PROVE  Evolves
<1> DEFINE i == jobs[q].id
           archive == IF Archived(q, archiving) THEN "pending"
                                                ELSE invoices[i].archive
           row == [invoices[i] EXCEPT !.status = jobs[q].answer,
                     !.voided = invoices[i].voided, !.archive = archive]
<1>1. /\ i \in Ids /\ Committed(i) /\ invoices[i].status # "accepted"
      /\ jobs[q].answer \in Answers
  BY IdleJob DEF SaveResent, Job, Knows, ResendKnows, Resendable
<1>2. invoices[i] \in InvoiceRow /\ invoices[i].archive = "disabled"
  BY <1>1, SameNote DEF IInv, OnlyAcceptedArchived
<1>3. archive \in {"disabled", "pending"} /\ invoices[i].voided \in BOOLEAN
  BY <1>2 DEF InvoiceRow
<1>4. invoices' = [invoices EXCEPT ![i] = row]
  BY <1>1, <1>2 DEF SaveResent, InvoiceRow, IInv, TypeOK
<1> HIDE DEF archive
<1>5. \E status \in Answers, voided \in BOOLEAN,
         kept \in {"disabled", "pending", "done", "failed"} :
        /\ row = [invoices[i] EXCEPT !.status = status, !.voided = voided,
                                     !.archive = kept]
        /\ invoices[i].voided => voided
        /\ invoices[i].status = "accepted" => status = "accepted"
        /\ invoices[i].archive = "done" => kept = "done"
  BY <1>1, <1>2, <1>3
<1> HIDE DEF row
<1>6. QED
  BY <1>1, <1>4, <1>5, WriteEvolves

LEMMA VoidEvolves ==
  ASSUME IInv, NEW i \in Ids, NEW voids \in BOOLEAN, Committed(i),
         invoices' = [invoices EXCEPT ![i].voided = voids],
         invoices[i].voided => voids
  PROVE  Evolves
<1> DEFINE row == [invoices[i] EXCEPT !.status = invoices[i].status,
                     !.voided = voids, !.archive = invoices[i].archive]
<1>1. invoices[i] \in InvoiceRow /\ invoices[i].status \in Answers
  BY SameNote DEF Committed
<1>2. invoices' = [invoices EXCEPT ![i] = row]
  BY <1>1 DEF InvoiceRow, IInv, TypeOK
<1>3. invoices[i].archive \in {"disabled", "pending", "done", "failed"}
  BY <1>1 DEF InvoiceRow
<1>4. QED
  BY <1>1, <1>2, <1>3, WriteEvolves

LEMMA ArchiveEvolves ==
  ASSUME IInv, NEW i \in Ids, NEW archive \in {"pending", "done", "failed"},
         Committed(i), invoices' = [invoices EXCEPT ![i].archive = archive],
         invoices[i].archive # "done"
  PROVE  Evolves
<1> DEFINE row == [invoices[i] EXCEPT !.status = invoices[i].status,
                     !.voided = invoices[i].voided, !.archive = archive]
<1>1. invoices[i] \in InvoiceRow /\ invoices[i].status \in Answers
  BY SameNote DEF Committed
<1>2. invoices' = [invoices EXCEPT ![i] = row]
  BY <1>1 DEF InvoiceRow, IInv, TypeOK
<1>3. invoices[i].voided \in BOOLEAN
  BY <1>1 DEF InvoiceRow
<1>4. QED
  BY <1>1, <1>2, <1>3, WriteEvolves

LEMMA NextEvolves ==
  ASSUME IInv, [Next]_vars
  PROVE  Evolves
<1>1. ASSUME NEW q \in Requests, Issue(q) PROVE Evolves
  BY <1>1, SaveNewEvolves DEF Issue, ReadOrder, TakeTurn, InsertInvoice, Evolves
<1>2. ASSUME NEW q \in Requests, Change(q) PROVE Evolves
  <2>1. ASSUME NEW i \in Ids, VoidLocally(q, i) PROVE Evolves
    BY <2>1, VoidEvolves DEF VoidLocally, Free
  <2>2. ASSUME SaveNote(q) PROVE Evolves
    <3> DEFINE i == jobs[q].id
               voids == invoices[i].voided \/ Settles(jobs[q].answer)
    <3>1. i \in Ids /\ Committed(i)
      BY <2>2, IdleJob DEF SaveNote, Job, Knows, VoidKnows, RenoteKnows
    <3>2. invoices[i].voided \in BOOLEAN /\ voids \in BOOLEAN
      BY <3>1, SameNote DEF InvoiceRow, Settles
    <3>3. invoices' = [invoices EXCEPT ![i].voided = voids]
      BY <2>2 DEF SaveNote
    <3>4. invoices[i].voided => voids
      OBVIOUS
    <3> HIDE DEF voids
    <3>5. QED
      BY <3>1, <3>2, <3>3, <3>4, VoidEvolves
  <2>3. QED
    BY <1>2, <2>1, <2>2, SaveResentEvolves
    DEF Change, ResendInvoice, VoidInvoice, ResendCreditNote, InsertNote, Evolves
<1>3. ASSUME NEW q \in Requests, Archive(q) PROVE Evolves
  <2>1. ASSUME NEW i \in Ids, RequestArchive(q, i) PROVE Evolves
    BY <2>1, ArchiveEvolves DEF RequestArchive, Free
  <2>2. ASSUME NEW result \in {"done", "failed"}, FinishArchive(q, result)
        PROVE  Evolves
    <3> DEFINE i == jobs[q].id
    <3>1. i \in Ids /\ Committed(i) /\ invoices[i].archive = "pending"
      BY <2>2, IdleJob DEF FinishArchive, Job, Knows, ArchiveKnows
    <3>2. invoices' = [invoices EXCEPT ![i].archive = result]
      BY <2>2 DEF FinishArchive
    <3>3. QED
      BY <3>1, <3>2, ArchiveEvolves
  <2>3. QED
    BY <1>3, <2>1, <2>2 DEF Archive, StartArchive, Evolves
<1>4. QED
  BY <1>1, <1>2, <1>3
  DEF Next, GiveUp, Abort, SunatAccepts, SunatRejects, ForgetTask, vars, Evolves

\* Archived is archived: a late failure of the task, another task for the same
\* invoice or a resend never takes it back (use_cases/archiving.py).
THEOREM ArchiveKept == Spec => ArchiveIsKept
<1>1. IInv /\ [Next]_vars =>
        [\A i \in Ids : invoices[i].archive = "done" =>
                          invoices'[i].archive = "done"]_vars
  <2> SUFFICES ASSUME IInv, [Next]_vars, NEW k \in Ids,
                      invoices[k].archive = "done"
               PROVE  invoices'[k].archive = "done"
    OBVIOUS
  <2>1. Evolves
    BY NextEvolves
  <2>2. CASE UNCHANGED invoices
    BY <2>2
  <2>3. ASSUME NEW i \in NewIds,
               invoices' = [invoices EXCEPT ![i].status = "reserved"]
        PROVE  invoices'[k].archive = "done"
    <3>1. Committed(k)
      BY DEF IInv, OnlyAcceptedArchived, Committed, Answers
    <3>2. QED
      BY <2>3, <3>1, Reserving DEF IInv
  <2>4. ASSUME NEW i \in Ids, NEW row \in InvoiceRow,
               invoices' = [invoices EXCEPT ![i] = row],
               Keeps(i, row) \/ IsNew(i, row)
        PROVE  invoices'[k].archive = "done"
    BY <2>4 DEF Keeps, IsNew, IInv, TypeOK
  <2>5. QED
    BY <2>1, <2>2, <2>3, <2>4 DEF Evolves
<1>2. QED
  BY <1>1, Inductive, PTL DEF Spec, ArchiveIsKept

-----------------------------------------------------------------------------
(* Billing implements InvoiceLife. *)

LEMMA LifeCases ==
  ASSUME NEW k \in Ids
  PROVE  /\ LifeOf(k) = "none" <=> ~Committed(k)
         /\ LifeOf(k) = "voided" <=> Committed(k) /\ invoices[k].voided
         /\ LifeOf(k) \in {"open", "accepted"} <=>
              Committed(k) /\ ~invoices[k].voided
         /\ LifeOf(k) = "accepted" =>
              Committed(k) /\ invoices[k].status = "accepted"
         /\ LifeOf(k) \in {"none", "open", "accepted", "voided"}
<1>1. CASE ~Committed(k)
  BY <1>1 DEF LifeOf
<1>2. CASE Committed(k) /\ invoices[k].voided
  BY <1>2 DEF LifeOf
<1>3. CASE Committed(k) /\ ~invoices[k].voided
  BY <1>3 DEF LifeOf
<1>4. QED
  BY <1>1, <1>2, <1>3

\* The same row is at the same point of its life.
LEMMA SameLife ==
  ASSUME NEW k \in Ids, invoices'[k] = invoices[k]
  PROVE  LifeOf(k)' = LifeOf(k)
BY DEF LifeOf, Committed

LEMMA KeepsLife ==
  ASSUME IInv, NEW i \in Ids, NEW row \in InvoiceRow,
         invoices' = [invoices EXCEPT ![i] = row], Keeps(i, row)
  PROVE  Life!Next \/ UNCHANGED Life!vars
<1> DEFINE state == [k \in Ids |-> LifeOf(k)]
           order == [k \in Ids |-> invoices[k].order]
<1>1. /\ invoices'[i] = row
      /\ \A k \in Ids : k # i => invoices'[k] = invoices[k]
  BY DEF IInv, TypeOK
<1>2. order' = order
  <2>1. \A k \in Ids : invoices'[k].order = invoices[k].order
    BY <1>1 DEF Keeps
  <2>2. QED
    BY <2>1
<1>3. state' = [state EXCEPT ![i] = LifeOf(i)']
  <2>1. ASSUME NEW k \in Ids PROVE state'[k] = IF k = i THEN LifeOf(i)' ELSE state[k]
    BY <1>1, SameLife
  <2>2. state' = [k \in Ids |-> state'[k]]
    OBVIOUS
  <2>3. QED
    BY <2>1, <2>2
<1>4. /\ LifeOf(i) \in {"open", "accepted", "voided"}
      /\ LifeOf(i)' \in {"open", "accepted", "voided"}
      /\ LifeOf(i) = "voided" => LifeOf(i)' = "voided"
      /\ LifeOf(i) = "accepted" => LifeOf(i)' \in {"accepted", "voided"}
  BY <1>1 DEF Keeps, LifeOf, Committed
<1>5. state[i] = LifeOf(i)
  OBVIOUS
<1>6. CASE LifeOf(i)' = LifeOf(i)
  <2>1. state' = state
    BY <1>3, <1>6
  <2>2. QED
    BY <1>2, <2>1 DEF Life!vars
<1>7. CASE LifeOf(i)' # LifeOf(i) /\ LifeOf(i)' = "voided"
  <2>1. Life!Void(i)
    BY <1>2, <1>3, <1>4, <1>5, <1>7 DEF Life!Void
  <2>2. QED
    BY <2>1 DEF Life!Next
<1>8. CASE LifeOf(i)' # LifeOf(i) /\ LifeOf(i)' # "voided"
  <2>1. Life!Accept(i)
    BY <1>2, <1>3, <1>4, <1>5, <1>8 DEF Life!Accept
  <2>2. QED
    BY <2>1 DEF Life!Next
<1>9. QED
  BY <1>6, <1>7, <1>8

LEMMA NewLife ==
  ASSUME IInv, NEW i \in Ids, NEW row \in InvoiceRow,
         invoices' = [invoices EXCEPT ![i] = row], IsNew(i, row)
  PROVE  Life!Next
<1> DEFINE state == [k \in Ids |-> LifeOf(k)]
           order == [k \in Ids |-> invoices[k].order]
<1>1. /\ invoices'[i] = row
      /\ \A k \in Ids : k # i => invoices'[k] = invoices[k]
  BY DEF IInv, TypeOK
<1>2. order' = [order EXCEPT ![i] = row.order]
  <2>1. \A k \in Ids : order'[k] = IF k = i THEN row.order ELSE order[k]
    BY <1>1
  <2>2. order' = [k \in Ids |-> order'[k]]
    OBVIOUS
  <2>3. QED
    BY <2>1, <2>2
<1>3. state' = [state EXCEPT ![i] = LifeOf(i)']
  <2>1. ASSUME NEW k \in Ids PROVE state'[k] = IF k = i THEN LifeOf(i)' ELSE state[k]
    BY <1>1, SameLife
  <2>2. state' = [k \in Ids |-> state'[k]]
    OBVIOUS
  <2>3. QED
    BY <2>1, <2>2
<1>4. state[i] = "none" /\ LifeOf(i)' \in {"open", "accepted"}
  BY <1>1 DEF IsNew, LifeOf, Committed
<1>5. Life!Current(row.order) = {}
  <2>1. ASSUME NEW k \in Ids, order[k] = row.order,
               state[k] \in {"open", "accepted"}
        PROVE  FALSE
    <3>1. Committed(k) /\ ~invoices[k].voided /\ invoices[k].order = row.order
      BY <2>1, LifeCases
    <3>2. QED
      BY <3>1 DEF IsNew, Current, OfOrder
  <2>2. QED
    BY <2>1 DEF Life!Current
<1>6. Life!Issue(i, row.order)
  BY <1>2, <1>3, <1>4, <1>5 DEF Life!Issue
<1>7. QED
  BY <1>6 DEF Life!Next, IsNew

LEMMA ReservedLife ==
  ASSUME IInv, NEW i \in NewIds,
         invoices' = [invoices EXCEPT ![i].status = "reserved"]
  PROVE  UNCHANGED Life!vars
<1>1. /\ i \in Ids /\ invoices[i].status = "none"
      /\ invoices'[i].status = "reserved"
      /\ \A k \in Ids : k # i => invoices'[k] = invoices[k]
      /\ \A k \in Ids : invoices'[k].order = invoices[k].order
  BY DEF NewIds, IInv, TypeOK, InvoiceRow
<1>2. ASSUME NEW k \in Ids PROVE LifeOf(k)' = LifeOf(k)
  <2>1. CASE k = i
    BY <1>1, <2>1 DEF LifeOf, Committed, Answers
  <2>2. CASE k # i
    BY <1>1, <2>2, SameLife
  <2>3. QED
    BY <2>1, <2>2
<1>3. QED
  BY <1>1, <1>2 DEF Life!vars

\* Whatever SUNAT does and whoever else is at it, an invoice is issued for an
\* order that has no current one, is accepted once and for all, and a voided
\* one never comes back (Invoice.record_result, Invoice.void).
THEOREM Implements == Spec => LivesLikeAnInvoice
<1>1. Init => Life!Init
  <2> SUFFICES ASSUME Init PROVE Life!Init
    OBVIOUS
  <2>1. \A k \in Ids : LifeOf(k) = "none" /\ invoices[k].order = None
    BY DEF Init, NoInvoice, LifeOf, Committed, Answers
  <2>2. QED
    BY <2>1 DEF Life!Init
<1>2. IInv /\ [Next]_vars => [Life!Next]_(Life!vars)
  <2> SUFFICES ASSUME IInv, [Next]_vars
               PROVE  Life!Next \/ UNCHANGED Life!vars
    OBVIOUS
  <2>1. CASE UNCHANGED invoices
    <3>1. ASSUME NEW k \in Ids PROVE LifeOf(k)' = LifeOf(k)
      BY <2>1, SameLife
    <3>2. QED
      BY <2>1, <3>1 DEF Life!vars
  <2>2. QED
    BY <2>1, NextEvolves, ReservedLife, KeepsLife, NewLife DEF Evolves
<1>3. QED
  BY <1>1, <1>2, Inductive, PTL DEF Spec, LivesLikeAnInvoice, Life!Spec

-----------------------------------------------------------------------------
(* One valid invoice per order. *)

OneCurrent ==
  \A i, j \in Ids :
    /\ i # j /\ Committed(i) /\ Committed(j)
    /\ invoices[i].order = invoices[j].order
    => invoices[i].voided \/ invoices[j].voided

\* An accepted invoice is voided by its note and by nothing else.
CancelledByNote ==
  \A i \in Ids : invoices[i].status = "accepted" /\ invoices[i].voided =>
                   notes[i].status = "accepted"

\* Ids are taken in order: the sequence of the table.
IdsRunOn ==
  \A i, j \in Ids : invoices[i].status = "none" /\ i < j =>
                      invoices[j].status = "none"

IsReplaced(r, i) == r \in Ids /\ r < i /\ Committed(r) /\ invoices[r].voided

ReplacesEarlier ==
  /\ \A i \in Ids : invoices[i].replaces # 0 => IsReplaced(invoices[i].replaces, i)
  /\ \A q \in Requests : Inserted(q) /\ jobs[q].replaces # 0 =>
                           IsReplaced(jobs[q].replaces, jobs[q].id)

OrderInv == OneCurrent /\ CancelledByNote /\ IdsRunOn /\ ReplacesEarlier

LEMMA OneCurrentStep ==
  ASSUME IInv, OneCurrent, Evolves
  PROVE  OneCurrent'
<1>1. CASE UNCHANGED invoices
  BY <1>1 DEF OneCurrent, Committed
<1>2. ASSUME NEW i \in NewIds,
             invoices' = [invoices EXCEPT ![i].status = "reserved"]
      PROVE  OneCurrent'
  <2>1. \A k \in Ids : /\ Committed(k) => invoices'[k] = invoices[k]
                       /\ invoices'[k].status \in Answers => Committed(k)
    BY <1>2, Reserving DEF IInv
  <2>2. QED
    BY <2>1 DEF OneCurrent, Committed
<1>3. ASSUME NEW i \in Ids, NEW row \in InvoiceRow,
             invoices' = [invoices EXCEPT ![i] = row]
      PROVE  /\ Keeps(i, row) => OneCurrent'
             /\ IsNew(i, row) => OneCurrent'
  <2>1. /\ invoices'[i] = row
        /\ \A k \in Ids : k # i => invoices'[k] = invoices[k]
    BY <1>3 DEF IInv, TypeOK
  <2>2. CASE Keeps(i, row)
    BY <2>1, <2>2 DEF Keeps, OneCurrent, Committed
  <2>3. CASE IsNew(i, row)
    <3>1. \A k \in Ids : Committed(k) /\ invoices[k].order = row.order =>
                          invoices[k].voided
      BY <2>3 DEF IsNew, Current, OfOrder
    <3>2. QED
      BY <2>1, <2>3, <3>1 DEF IsNew, OneCurrent, Committed
  <2>4. QED
    BY <2>2, <2>3
<1>4. QED
  BY <1>1, <1>2, <1>3 DEF Evolves

LEMMA IdsRunOnStep ==
  ASSUME IInv, IdsRunOn, Evolves
  PROVE  IdsRunOn'
<1>0. Ids \subseteq Int
  BY InvoicingAssumption DEF Ids
<1>1. CASE UNCHANGED invoices
  BY <1>1 DEF IdsRunOn
<1>2. ASSUME NEW i \in NewIds, \A j \in NewIds : i <= j,
             invoices' = [invoices EXCEPT ![i].status = "reserved"]
      PROVE  IdsRunOn'
  <2>1. /\ i \in Ids /\ invoices'[i].status = "reserved"
        /\ \A k \in Ids : k # i => invoices'[k] = invoices[k]
    BY <1>2 DEF NewIds, IInv, TypeOK, InvoiceRow
  <2>2. SUFFICES ASSUME NEW a \in Ids, NEW b \in Ids,
                        invoices'[a].status = "none", a < b
                 PROVE  invoices'[b].status = "none"
    BY DEF IdsRunOn
  <2>3. a # i /\ invoices[a].status = "none" /\ a \in NewIds
    BY <2>1, <2>2 DEF NewIds
  <2>4. i < b
    BY <1>0, <1>2, <2>1, <2>2, <2>3
  <2>5. QED
    BY <1>0, <2>1, <2>2, <2>3, <2>4 DEF IdsRunOn
<1>3. ASSUME NEW i \in Ids, NEW row \in InvoiceRow,
             invoices' = [invoices EXCEPT ![i] = row],
             Keeps(i, row) \/ IsNew(i, row)
      PROVE  IdsRunOn'
  <2>1. /\ invoices'[i] = row
        /\ \A k \in Ids : k # i => invoices'[k] = invoices[k]
    BY <1>3 DEF IInv, TypeOK
  <2>2. invoices[i].status # "none" /\ row.status # "none"
    <3>1. CASE Keeps(i, row)
      BY <3>1 DEF Keeps, Committed, Answers
    <3>2. CASE IsNew(i, row)
      BY <3>2 DEF IsNew, IInv, Locked, Knows, IssueKnows, Inserted, Answers
    <3>3. QED
      BY <1>3, <3>1, <3>2
  <2>3. \A k \in Ids : invoices'[k].status = "none" <=> invoices[k].status = "none"
    BY <2>1, <2>2
  <2>4. QED
    BY <2>3 DEF IdsRunOn
<1>4. QED
  BY <1>1, <1>2, <1>3 DEF Evolves

\* What is committed stays so, and what is voided stays voided.
LEMMA ReplacedStays ==
  ASSUME IInv, Evolves, NEW r \in Ids, Committed(r)
  PROVE  /\ invoices'[r].status \in Answers
         /\ invoices[r].voided => invoices'[r].voided
         /\ invoices'[r].replaces = invoices[r].replaces
<1>1. CASE UNCHANGED invoices
  BY <1>1 DEF Committed
<1>2. ASSUME NEW i \in NewIds,
             invoices' = [invoices EXCEPT ![i].status = "reserved"]
      PROVE  invoices'[r] = invoices[r]
  BY <1>2, Reserving DEF IInv
<1>3. ASSUME NEW i \in Ids, NEW row \in InvoiceRow,
             invoices' = [invoices EXCEPT ![i] = row],
             Keeps(i, row) \/ IsNew(i, row)
      PROVE  /\ invoices'[r].status \in Answers
             /\ invoices[r].voided => invoices'[r].voided
             /\ invoices'[r].replaces = invoices[r].replaces
  BY <1>3 DEF Keeps, IsNew, Committed, IInv, TypeOK
<1>4. QED
  BY <1>1, <1>2, <1>3 DEF Evolves, Committed

LEMMA RowsReplace ==
  ASSUME IInv, ReplacesEarlier, Evolves, NEW k \in Ids,
         invoices'[k].replaces # 0
  PROVE  IsReplaced(invoices'[k].replaces, k)
<1>1. CASE invoices'[k].replaces = invoices[k].replaces
  BY <1>1 DEF ReplacesEarlier
<1>2. CASE invoices'[k].replaces # invoices[k].replaces
  <2>1. ~Committed(k)
    BY <1>2, ReplacedStays
  <2>2. PICK i \in Ids, row \in InvoiceRow :
           /\ invoices' = [invoices EXCEPT ![i] = row]
           /\ Keeps(i, row) \/ IsNew(i, row)
    <3>1. ~UNCHANGED invoices
      BY <1>2
    <3>2. ASSUME NEW i \in NewIds,
                 invoices' = [invoices EXCEPT ![i].status = "reserved"]
          PROVE  FALSE
      BY <1>2, <3>2 DEF NewIds, IInv, TypeOK, InvoiceRow
    <3>3. QED
      BY <3>1, <3>2 DEF Evolves
  <2>3. k = i /\ invoices'[k] = row
    BY <1>2, <2>2 DEF IInv, TypeOK
  <2>4. IsNew(i, row)
    BY <2>1, <2>2, <2>3 DEF Keeps
  <2>5. QED
    BY <2>3, <2>4 DEF IsNew, ReplacesEarlier
<1>3. QED
  BY <1>1, <1>2

\* Where an issuing request with an inserted row comes from.
SameJob(q) == /\ Inserted(q) /\ jobs'[q].number = jobs[q].number
              /\ jobs'[q].id = jobs[q].id /\ jobs'[q].replaces = jobs[q].replaces
JustInserted(q) ==
  /\ Job(q, "issue", "insert") /\ jobs'[q].number = jobs[q].number
  /\ jobs'[q].replaces = jobs[q].replaces
  /\ jobs'[q].id \in NewIds /\ \A j \in NewIds : jobs'[q].id <= j

LEMMA InsertedStep ==
  ASSUME IInv, [Next]_vars, NEW q \in Requests,
         jobs'[q].op = "issue", jobs'[q].at \in {"calling", "answered"}
  PROVE  SameJob(q) \/ JustInserted(q)
<1>1. ASSUME jobs'[q] = jobs[q] PROVE SameJob(q)
  BY <1>1 DEF SameJob, Inserted
<1>2. ASSUME NEW r \in Requests, NEW j, jobs' = [jobs EXCEPT ![r] = j],
             ~(j.op = "issue" /\ j.at \in {"calling", "answered"})
      PROVE  SameJob(q)
  <2>1. r = q => jobs'[q] = j
    BY <1>2 DEF IInv, TypeOK
  <2>2. r # q => jobs'[q] = jobs[q]
    BY <1>2 DEF IInv, TypeOK
  <2>3. r # q
    BY <1>2, <2>1
  <2>4. QED
    BY <1>1, <2>2, <2>3
<1>3. ASSUME NEW r \in Requests, NEW job \in JobRow, Send(r, job)
      PROVE  r # q \/ job.op # "issue" => SameJob(q)
  <2>1. jobs'[r].op = job.op
    BY <1>3, Sending DEF IInv
  <2>2. r # q => jobs'[q] = jobs[q]
    BY <1>3 DEF Send, IInv, TypeOK
  <2>3. QED
    BY <1>1, <2>1, <2>2 DEF SameJob, Inserted
<1>4. ASSUME NEW r \in Requests, Issue(r) PROVE SameJob(q) \/ JustInserted(q)
  <2>1. ASSUME NEW o \in Orders, ReadOrder(r, o) PROVE SameJob(q)
    <3> DEFINE j == [NoJob EXCEPT !.op = "issue", !.at = "turn", !.order = o,
                                  !.replaces = Existing(o)]
    <3>1. j.at = "turn" /\ jobs' = [jobs EXCEPT ![r] = j]
      BY <2>1 DEF ReadOrder, NoJob
    <3> HIDE DEF j
    <3>2. QED
      BY <1>2, <3>1
  <2>2. ASSUME TakeTurn(r) PROVE SameJob(q)
    <3> DEFINE j == [jobs[r] EXCEPT !.at = "insert", !.number = NextNumber]
    <3>1. jobs' = [jobs EXCEPT ![r] = j]
      BY <2>2 DEF TakeTurn, IInv, TypeOK
    <3>2. j.at = "insert"
      BY IdleJob DEF JobRow
    <3> HIDE DEF j
    <3>3. QED
      BY <1>2, <3>1, <3>2
  <2>3. ASSUME InsertInvoice(r) PROVE SameJob(q) \/ JustInserted(q)
    <3>1. CASE Done(r)
      BY <1>2, <3>1 DEF Done, NoJob
    <3>2. ASSUME NEW i \in NewIds, \A j \in NewIds : i <= j,
                 Send(r, [jobs[r] EXCEPT !.id = i])
          PROVE  SameJob(q) \/ JustInserted(q)
      <4> DEFINE job == [jobs[r] EXCEPT !.id = i]
      <4>1. job \in JobRow /\ job.op = jobs[r].op /\ job.id = i
            /\ job.replaces = jobs[r].replaces /\ job.number = jobs[r].number
        BY <3>2 DEF IInv, TypeOK, JobRow, NewIds
      <4> HIDE DEF job
      <4>2. Send(r, job)
        BY <3>2 DEF job
      <4>3. /\ jobs'[r].id = i /\ jobs'[r].replaces = jobs[r].replaces
            /\ jobs'[r].number = jobs[r].number
        BY <4>1, <4>2, Sending DEF IInv
      <4>4. CASE r = q
        BY <2>3, <3>2, <4>3, <4>4 DEF JustInserted, InsertInvoice, Job
      <4>5. CASE r # q
        BY <1>3, <4>1, <4>2, <4>5
      <4>6. QED
        BY <4>4, <4>5
    <3>3. QED
      BY <2>3, <3>1, <3>2 DEF InsertInvoice
  <2>4. ASSUME NEW archiving \in BOOLEAN, SaveNewInvoice(r, archiving)
        PROVE  SameJob(q)
    BY <1>2, <2>4 DEF SaveNewInvoice, Done, NoJob
  <2>5. QED
    BY <1>4, <2>1, <2>2, <2>3, <2>4 DEF Issue
<1>5. ASSUME NEW r \in Requests, Change(r) PROVE SameJob(q)
  <2>1. ASSUME NEW i \in Ids, ResendInvoice(r, i) PROVE SameJob(q)
    <3> DEFINE job == [NoJob EXCEPT !.op = "resend", !.id = i,
                                    !.number = invoices[i].number]
    <3>1. job \in JobRow /\ job.op = "resend"
      BY SameNote DEF InvoiceRow, NoJob, JobRow
    <3> HIDE DEF job
    <3>2. Send(r, job)
      BY <2>1 DEF ResendInvoice, job
    <3>3. QED
      BY <1>3, <3>1, <3>2
  <2>2. ASSUME NEW i \in Ids, ResendCreditNote(r, i) PROVE SameJob(q)
    <3> DEFINE job == [NoJob EXCEPT !.op = "renote", !.id = i,
                                    !.number = notes[i].number]
    <3>1. job \in JobRow /\ job.op = "renote"
      BY SameNote DEF NoteRow, NoJob, JobRow
    <3> HIDE DEF job
    <3>2. Send(r, job)
      BY <2>2 DEF ResendCreditNote, job
    <3>3. QED
      BY <1>3, <3>1, <3>2
  <2>3. ASSUME NEW i \in Ids, VoidInvoice(r, i) PROVE SameJob(q)
    <3> DEFINE j == [NoJob EXCEPT !.op = "void", !.at = "turn", !.id = i]
    <3>1. j.at = "turn" /\ jobs' = [jobs EXCEPT ![r] = j]
      BY <2>3 DEF VoidInvoice, NoJob
    <3> HIDE DEF j
    <3>2. QED
      BY <1>2, <3>1
  <2>4. ASSUME InsertNote(r) PROVE SameJob(q)
    <3>1. CASE Done(r)
      BY <1>2, <3>1 DEF Done, NoJob
    <3>2. CASE Send(r, [jobs[r] EXCEPT !.number = NextNoteNumber])
      <4> DEFINE job == [jobs[r] EXCEPT !.number = NextNoteNumber]
      <4>1. NextNoteNumber \in Nat
        BY NextNumbersAreNumbers DEF IInv
      <4>2. job \in JobRow /\ job.op = "void"
        BY <2>4, <4>1 DEF InsertNote, Job, IInv, TypeOK, JobRow
      <4> HIDE DEF job
      <4>3. Send(r, job)
        BY <3>2 DEF job
      <4>4. QED
        BY <1>3, <4>2, <4>3
    <3>3. QED
      BY <2>4, <3>1, <3>2 DEF InsertNote
  <2>5. ASSUME SaveNote(r) PROVE SameJob(q)
    BY <1>2, <2>5 DEF SaveNote, Done, NoJob
  <2>6. ASSUME NEW archiving \in BOOLEAN, SaveResent(r, archiving)
        PROVE  SameJob(q)
    BY <1>2, <2>6 DEF SaveResent, Done, NoJob
  <2>7. ASSUME NEW i \in Ids, VoidLocally(r, i) PROVE SameJob(q)
    BY <1>1, <2>7 DEF VoidLocally, SameJob, Inserted
  <2>8. QED
    BY <1>5, <2>1, <2>2, <2>3, <2>4, <2>5, <2>6, <2>7 DEF Change
<1>6. ASSUME NEW r \in Requests, Archive(r) PROVE SameJob(q)
  <2>1. ASSUME NEW i \in Ids, StartArchive(r, i) PROVE SameJob(q)
    <3> DEFINE j == [NoJob EXCEPT !.op = "archive", !.at = "uploading", !.id = i]
    <3>1. j.at = "uploading"
          /\ (UNCHANGED jobs \/ jobs' = [jobs EXCEPT ![r] = j])
      BY <2>1 DEF StartArchive, NoJob
    <3> HIDE DEF j
    <3>2. QED
      BY <1>1, <1>2, <3>1 DEF SameJob, Inserted
  <2>2. ASSUME NEW i \in Ids, RequestArchive(r, i) PROVE SameJob(q)
    BY <2>2 DEF RequestArchive, SameJob, Inserted
  <2>3. ASSUME NEW result \in {"done", "failed"}, FinishArchive(r, result)
        PROVE  SameJob(q)
    BY <1>2, <2>3 DEF FinishArchive, Done, NoJob
  <2>4. QED
    BY <1>6, <2>1, <2>2, <2>3 DEF Archive
<1>7. ASSUME NEW r \in Requests, jobs[r].at = "calling", NEW answer,
             jobs' = [jobs EXCEPT ![r].at = "answered", ![r].answer = answer]
      PROVE  SameJob(q)
  <2>1. jobs[r] \in JobRow
    BY IdleJob
  <2>2. CASE r = q
    BY <1>7, <2>1, <2>2 DEF SameJob, Inserted, IInv, TypeOK, JobRow
  <2>3. CASE r # q
    BY <1>7, <2>3 DEF SameJob, Inserted, IInv, TypeOK
  <2>4. QED
    BY <2>2, <2>3
<1>8. ASSUME NEW r \in Requests, GiveUp(r) \/ Abort(r) PROVE SameJob(q)
  BY <1>2, <1>7, <1>8 DEF GiveUp, Abort, Done, NoJob
<1>9. ASSUME NEW m \in wire, SunatAccepts(m) \/ SunatRejects(m)
      PROVE  SameJob(q)
  <2>1. m.to # None => m.to \in Requests /\ jobs[m.to].at = "calling"
    BY DEF IInv, TypeOK
  <2>2. CASE m.to = None
    BY <1>9, <2>2 DEF SunatAccepts, SunatRejects, Answered, SameJob, Inserted
  <2>3. CASE m.to # None
    BY <1>7, <1>9, <2>1, <2>3 DEF SunatAccepts, SunatRejects, Answered
  <2>4. QED
    BY <2>2, <2>3
<1>10. CASE UNCHANGED jobs
  BY <1>10 DEF SameJob, Inserted
<1>11. QED
  BY <1>4, <1>5, <1>6, <1>8, <1>9, <1>10 DEF Next, ForgetTask, vars

\* A write that leaves voided, or status and note, as they were.
LEMMA CancelledFrame ==
  ASSUME IInv, CancelledByNote, UNCHANGED notes,
         \A k \in Ids : invoices'[k].status = "accepted" /\ invoices'[k].voided =>
                          invoices[k].status = "accepted" /\ invoices[k].voided
  PROVE  CancelledByNote'
BY DEF CancelledByNote

LEMMA CancelledByNoteStep ==
  ASSUME IInv, CancelledByNote, [Next]_vars
  PROVE  CancelledByNote'
<1>1. ASSUME UNCHANGED <<invoices, notes>> PROVE CancelledByNote'
  BY <1>1, CancelledFrame
<1>2. \A k \in Ids : invoices[k] \in InvoiceRow
  BY SameNote
<1>3. ASSUME NEW q \in Requests, Issue(q) PROVE CancelledByNote'
  <2>1. ASSUME InsertInvoice(q) PROVE CancelledByNote'
    <3>1. ASSUME NEW i \in NewIds,
                 invoices' = [invoices EXCEPT ![i].status = "reserved"]
          PROVE  CancelledByNote'
      <4>1. \A k \in Ids : k # i => invoices'[k] = invoices[k]
        BY <3>1 DEF IInv, TypeOK
      <4>2. invoices'[i].status = "reserved"
        BY <3>1, Reserving DEF IInv
      <4>3. UNCHANGED notes
        BY <2>1 DEF InsertInvoice
      <4>4. QED
        BY <4>1, <4>2, <4>3, CancelledFrame
    <3>2. QED
      BY <1>1, <2>1, <3>1 DEF InsertInvoice
  <2>2. ASSUME NEW archiving \in BOOLEAN, SaveNewInvoice(q, archiving)
        PROVE  CancelledByNote'
    <3>1. jobs[q].id \in Ids
      BY <2>2, Documented DEF SaveNewInvoice, Job
    <3>2. /\ ~invoices'[jobs[q].id].voided /\ UNCHANGED notes
          /\ \A k \in Ids : k # jobs[q].id => invoices'[k] = invoices[k]
      BY <2>2, <3>1 DEF SaveNewInvoice, IInv, TypeOK
    <3>3. QED
      BY <3>2, CancelledFrame
  <2>3. QED
    BY <1>1, <1>3, <2>1, <2>2 DEF Issue, ReadOrder, TakeTurn
<1>4. ASSUME NEW q \in Requests, Change(q) PROVE CancelledByNote'
  <2>1. ASSUME NEW i \in Ids, VoidLocally(q, i) PROVE CancelledByNote'
    <3>1. /\ invoices'[i].status # "accepted" /\ UNCHANGED notes
          /\ \A k \in Ids : k # i => invoices'[k] = invoices[k]
      BY <1>2, <2>1 DEF VoidLocally, IInv, TypeOK, InvoiceRow
    <3>2. QED
      BY <3>1, CancelledFrame
  <2>2. ASSUME SaveNote(q) PROVE CancelledByNote'
    <3> DEFINE i == jobs[q].id
               voids == invoices[i].voided \/ Settles(jobs[q].answer)
    <3>1. i \in Ids /\ notes[i].status # "accepted"
      BY <2>2, IdleJob
      DEF SaveNote, Job, Knows, VoidKnows, RenoteKnows, HasNote
    <3>2. invoices' = [invoices EXCEPT ![i].voided = voids]
      BY <2>2 DEF SaveNote
    <3>3. notes'[i].status = jobs[q].answer
      BY <2>2, <3>1 DEF SaveNote, IInv, TypeOK
    <3>4. \A k \in Ids : k # i => invoices'[k] = invoices[k] /\ notes'[k] = notes[k]
      BY <2>2, <3>1 DEF SaveNote, IInv, TypeOK
    <3>5. voids => invoices[i].voided \/ notes'[i].status = "accepted"
      BY <3>3 DEF Settles
    <3> HIDE DEF voids
    <3>6. /\ invoices'[i].status = invoices[i].status
          /\ invoices'[i].voided = voids
      BY <1>2, <3>1, <3>2 DEF IInv, TypeOK, InvoiceRow
    <3>7. invoices[i].status = "accepted" => ~invoices[i].voided
      BY <3>1 DEF CancelledByNote
    <3>8. invoices'[i].status = "accepted" /\ invoices'[i].voided =>
            notes'[i].status = "accepted"
      BY <3>5, <3>6, <3>7
    <3>9. QED
      BY <3>4, <3>8 DEF CancelledByNote
  <2>3. ASSUME NEW archiving \in BOOLEAN, SaveResent(q, archiving)
        PROVE  CancelledByNote'
    <3> DEFINE i == jobs[q].id
    <3>1. i \in Ids /\ ~invoices[i].voided
      BY <2>3, IdleJob DEF SaveResent, Job, Knows, ResendKnows, Resendable
    <3>2. /\ invoices'[i].voided = invoices[i].voided /\ UNCHANGED notes
          /\ \A k \in Ids : k # i => invoices'[k] = invoices[k]
      BY <1>2, <2>3, <3>1 DEF SaveResent, IInv, TypeOK, InvoiceRow
    <3>3. QED
      BY <3>1, <3>2, CancelledFrame
  <2>4. QED
    BY <1>1, <1>4, <2>1, <2>2, <2>3
    DEF Change, ResendInvoice, VoidInvoice, ResendCreditNote, InsertNote
<1>5. ASSUME NEW q \in Requests, Archive(q) PROVE CancelledByNote'
  <2>1. ASSUME NEW i \in Ids, NEW archive, UNCHANGED notes,
               invoices' = [invoices EXCEPT ![i].archive = archive]
        PROVE  CancelledByNote'
    <3>1. /\ invoices'[i].status = invoices[i].status
          /\ invoices'[i].voided = invoices[i].voided
          /\ \A k \in Ids : k # i => invoices'[k] = invoices[k]
      BY <1>2, <2>1 DEF IInv, TypeOK, InvoiceRow
    <3>2. QED
      BY <2>1, <3>1, CancelledFrame
  <2>2. ASSUME NEW result \in {"done", "failed"}, FinishArchive(q, result)
        PROVE  CancelledByNote'
    <3>1. jobs[q].id \in Ids
      BY <2>2, IdleJob DEF FinishArchive, Job, Knows, ArchiveKnows
    <3>2. QED
      BY <2>1, <2>2, <3>1 DEF FinishArchive
  <2>3. QED
    BY <1>1, <1>5, <2>1, <2>2 DEF Archive, RequestArchive, StartArchive
<1>6. QED
  BY <1>1, <1>3, <1>4, <1>5
  DEF Next, GiveUp, Abort, SunatAccepts, SunatRejects, ForgetTask, vars

LEMMA ReplacesEarlierStep ==
  ASSUME IInv, IdsRunOn, ReplacesEarlier, [Next]_vars
  PROVE  ReplacesEarlier'
<1>0. Evolves /\ Ids \subseteq Int
  BY NextEvolves, InvoicingAssumption DEF Ids
<1>1. ASSUME NEW r, NEW k, IsReplaced(r, k)
      PROVE  /\ r \in Ids /\ r < k
             /\ invoices'[r].status \in Answers /\ invoices'[r].voided
  BY <1>0, <1>1, ReplacedStays DEF IsReplaced
<1>2. ASSUME NEW k \in Ids, invoices'[k].replaces # 0
      PROVE  IsReplaced(invoices'[k].replaces, k)
  BY <1>0, <1>2, RowsReplace
<1>3. ASSUME NEW q \in Requests, jobs'[q].op = "issue",
             jobs'[q].at \in {"calling", "answered"}, jobs'[q].replaces # 0
      PROVE  IsReplaced(jobs'[q].replaces, jobs'[q].id)
  <2>1. CASE SameJob(q)
    BY <1>3, <2>1 DEF SameJob, ReplacesEarlier
  <2>2. CASE JustInserted(q)
    <3> DEFINE r == jobs[q].replaces
    <3>1. r \in Ids /\ Committed(r) /\ invoices[r].voided
      BY <1>3, <2>2, IdleJob DEF JustInserted, Job, JobRow, Knows, IssueKnows
    <3>2. jobs'[q].id \in Ids /\ invoices[jobs'[q].id].status = "none"
      BY <2>2 DEF JustInserted, NewIds
    <3>3. r # jobs'[q].id /\ ~(jobs'[q].id < r)
      BY <3>1, <3>2 DEF IdsRunOn, Committed, Answers
    <3>4. r < jobs'[q].id
      BY <1>0, <3>1, <3>2, <3>3
    <3>5. QED
      BY <2>2, <3>1, <3>4 DEF JustInserted, IsReplaced
  <2>3. QED
    BY <1>3, <2>1, <2>2, InsertedStep
<1>4. QED
  BY <1>1, <1>2, <1>3 DEF ReplacesEarlier, IsReplaced, Inserted, Committed

LEMMA OrderInvariant == Spec => []OrderInv
<1>1. Init => OrderInv
  BY DEF Init, NoInvoice, NoJob, OrderInv, OneCurrent, CancelledByNote, IdsRunOn,
         ReplacesEarlier, Committed, Answers, Inserted
<1>2. IInv /\ OrderInv /\ [Next]_vars => OrderInv'
  BY NextEvolves, OneCurrentStep, CancelledByNoteStep, IdsRunOnStep,
     ReplacesEarlierStep
  DEF OrderInv
<1>3. QED
  BY <1>1, <1>2, Inductive, PTL DEF Spec

\* An order never has two accepted invoices that SUNAT takes for valid: one of
\* them has a note SUNAT accepted; and an invoice that replaces another comes
\* after it and finds it voided (uq_invoices_order_current, _NoteSender.send).
THEOREM OneValid == Spec => []OneValidPerOrder
<1>1. IInv /\ OrderInv => OneValidPerOrder
  <2> SUFFICES ASSUME IInv, OrderInv PROVE OneValidPerOrder
    OBVIOUS
  <2>1. ASSUME NEW i \in Ids, NEW j \in Ids, i # j,
               invoices[i].order = invoices[j].order,
               invoices[i].status = "accepted", invoices[j].status = "accepted"
        PROVE  NoteDoc(i) \in sunat \/ NoteDoc(j) \in sunat
    <3>1. invoices[i].voided \/ invoices[j].voided
      BY <2>1 DEF OrderInv, OneCurrent, Committed, Answers
    <3>2. notes[i].status = "accepted" \/ notes[j].status = "accepted"
      BY <2>1, <3>1 DEF OrderInv, CancelledByNote
    <3>3. QED
      BY <3>2 DEF IInv, AgreesWithSunat
  <2>2. ASSUME NEW i \in Ids, invoices[i].replaces # 0
        PROVE  /\ invoices[i].replaces < i
               /\ invoices[invoices[i].replaces].voided
    BY <2>2 DEF OrderInv, ReplacesEarlier, IsReplaced
  <2>3. QED
    BY <2>1, <2>2 DEF OneValidPerOrder
<1>2. QED
  BY <1>1, Inductive, OrderInvariant, PTL

-----------------------------------------------------------------------------
(* The numbers of the invoices run on. *)

Rows == {i \in Ids : Committed(i)}

\* A request that has numbered its invoice, and not saved it.
Numbered(q) == Job(q, "issue", "insert") \/ Inserted(q)

NumbersInv ==
  /\ NumbersRunOn
  /\ \A q \in Requests : Numbered(q) => jobs[q].number = Cardinality(Rows) + 1

LEMMA RowsAreFinite ==
  ASSUME NEW S \in SUBSET Ids
  PROVE  IsFiniteSet(S) /\ Cardinality(S) \in Nat
<1>1. IsFiniteSet(Ids)
  BY FS_Interval, InvoicingAssumption DEF Ids
<1>2. IsFiniteSet(S)
  BY <1>1, FS_Subset
<1>3. QED
  BY <1>2, FS_CardinalityType

\* While the numbers run on, the next one is one more than there are invoices.
LEMMA NextRunsOn ==
  ASSUME NumbersRunOn
  PROVE  NextNumber = Cardinality(Rows) + 1
<1> DEFINE n == Cardinality(Rows)
           used == {invoices[i].number : i \in Rows}
           S == {0} \cup used
<1>1. n \in Nat
  BY RowsAreFinite DEF Rows
<1>2. used = 1..n
  BY DEF NumbersRunOn, Rows
<1>3. NextNumber = Latest(S) + 1
  BY DEF NextNumber, NumberAfter, Rows
<1> HIDE DEF n, used
<1>4. S = 0..n
  BY <1>1, <1>2
<1>5. Latest(S) \in S /\ \A y \in S : y <= Latest(S)
  <2> HIDE DEF S
  <2>1. S \in SUBSET Nat /\ S # {} /\ \A x \in S : x <= n
    BY <1>1, <1>4
  <2>2. QED
    BY <1>1, <2>1, HighestExists
<1> HIDE DEF S
<1>6. Latest(S) = n
  <2>1. n \in S /\ \A x \in S : x \in Nat /\ x <= n
    BY <1>1, <1>4
  <2>2. Latest(S) <= n /\ n <= Latest(S) /\ Latest(S) \in Nat
    BY <1>5, <2>1
  <2>3. \A a, b \in Nat : a <= b /\ b <= a => a = b
    OBVIOUS
  <2> HIDE DEF n
  <2>4. QED
    BY <1>1, <2>2, <2>3
<1>7. QED
  BY <1>3, <1>6 DEF n

\* A request comes to insert its invoice only from its turn.
LEMMA InsertStep ==
  ASSUME IInv, [Next]_vars, NEW q \in Requests,
         jobs'[q].op = "issue", jobs'[q].at = "insert"
  PROVE  jobs'[q] = jobs[q] \/ TakeTurn(q)
<1>1. ASSUME NEW r \in Requests, NEW j, jobs' = [jobs EXCEPT ![r] = j],
             j.at # "insert"
      PROVE  jobs'[q] = jobs[q]
  BY <1>1 DEF IInv, TypeOK
<1>2. ASSUME NEW r \in Requests, NEW job, Send(r, job), job \in JobRow
      PROVE  jobs'[q] = jobs[q]
  <2>1. jobs'[r].at # "insert"
    BY <1>2, Sending DEF IInv
  <2>2. r # q => jobs'[q] = jobs[q]
    BY <1>2 DEF Send, IInv, TypeOK
  <2>3. QED
    BY <2>1, <2>2
<1>3. NoJob.at # "insert"
  BY DEF NoJob
<1>4. ASSUME NEW r \in Requests, Done(r) PROVE jobs'[q] = jobs[q]
  BY <1>1, <1>3, <1>4 DEF Done
<1>5. ASSUME NEW r \in Requests, Issue(r)
      PROVE  jobs'[q] = jobs[q] \/ TakeTurn(q)
  <2>1. ASSUME NEW o \in Orders, ReadOrder(r, o) PROVE jobs'[q] = jobs[q]
    <3> DEFINE j == [NoJob EXCEPT !.op = "issue", !.at = "turn", !.order = o,
                                  !.replaces = Existing(o)]
    <3>1. j.at = "turn" /\ jobs' = [jobs EXCEPT ![r] = j]
      BY <2>1 DEF ReadOrder, NoJob
    <3> HIDE DEF j
    <3>2. QED
      BY <1>1, <3>1
  <2>2. ASSUME TakeTurn(r) PROVE jobs'[q] = jobs[q] \/ TakeTurn(q)
    <3>1. r # q => jobs'[q] = jobs[q]
      BY <2>2 DEF TakeTurn, IInv, TypeOK
    <3>2. QED
      BY <2>2, <3>1
  <2>3. ASSUME InsertInvoice(r) PROVE jobs'[q] = jobs[q]
    <3>1. \A i \in NewIds : [jobs[r] EXCEPT !.id = i] \in JobRow
      BY DEF IInv, TypeOK, JobRow, NewIds
    <3>2. QED
      BY <1>2, <1>4, <2>3, <3>1 DEF InsertInvoice
  <2>4. ASSUME NEW archiving \in BOOLEAN, SaveNewInvoice(r, archiving)
        PROVE  jobs'[q] = jobs[q]
    BY <1>4, <2>4 DEF SaveNewInvoice
  <2>5. QED
    BY <1>5, <2>1, <2>2, <2>3, <2>4 DEF Issue
<1>6. ASSUME NEW r \in Requests, Change(r) PROVE jobs'[q] = jobs[q]
  <2>1. ASSUME NEW i \in Ids, ResendInvoice(r, i) PROVE jobs'[q] = jobs[q]
    <3>1. [NoJob EXCEPT !.op = "resend", !.id = i,
                        !.number = invoices[i].number] \in JobRow
      BY SameNote DEF InvoiceRow, NoJob, JobRow
    <3>2. QED
      BY <1>2, <2>1, <3>1 DEF ResendInvoice
  <2>2. ASSUME NEW i \in Ids, ResendCreditNote(r, i) PROVE jobs'[q] = jobs[q]
    <3>1. [NoJob EXCEPT !.op = "renote", !.id = i,
                        !.number = notes[i].number] \in JobRow
      BY SameNote DEF NoteRow, NoJob, JobRow
    <3>2. QED
      BY <1>2, <2>2, <3>1 DEF ResendCreditNote
  <2>3. ASSUME NEW i \in Ids, VoidInvoice(r, i) PROVE jobs'[q] = jobs[q]
    <3> DEFINE j == [NoJob EXCEPT !.op = "void", !.at = "turn", !.id = i]
    <3>1. j.at = "turn" /\ jobs' = [jobs EXCEPT ![r] = j]
      BY <2>3 DEF VoidInvoice, NoJob
    <3> HIDE DEF j
    <3>2. QED
      BY <1>1, <3>1
  <2>4. ASSUME InsertNote(r) PROVE jobs'[q] = jobs[q]
    <3>1. [jobs[r] EXCEPT !.number = NextNoteNumber] \in JobRow
      BY NextNumbersAreNumbers DEF IInv, TypeOK, JobRow
    <3>2. QED
      BY <1>2, <1>4, <2>4, <3>1 DEF InsertNote
  <2>5. ASSUME SaveNote(r) PROVE jobs'[q] = jobs[q]
    BY <1>4, <2>5 DEF SaveNote
  <2>6. ASSUME NEW archiving \in BOOLEAN, SaveResent(r, archiving)
        PROVE  jobs'[q] = jobs[q]
    BY <1>4, <2>6 DEF SaveResent
  <2>7. ASSUME NEW i \in Ids, VoidLocally(r, i) PROVE jobs'[q] = jobs[q]
    BY <2>7 DEF VoidLocally
  <2>8. QED
    BY <1>6, <2>1, <2>2, <2>3, <2>4, <2>5, <2>6, <2>7 DEF Change
<1>7. ASSUME NEW r \in Requests, Archive(r) PROVE jobs'[q] = jobs[q]
  <2>1. ASSUME NEW i \in Ids, StartArchive(r, i) PROVE jobs'[q] = jobs[q]
    <3> DEFINE j == [NoJob EXCEPT !.op = "archive", !.at = "uploading", !.id = i]
    <3>1. j.at = "uploading"
          /\ (UNCHANGED jobs \/ jobs' = [jobs EXCEPT ![r] = j])
      BY <2>1 DEF StartArchive, NoJob
    <3> HIDE DEF j
    <3>2. QED
      BY <1>1, <3>1
  <2>2. QED
    BY <1>4, <1>7, <2>1 DEF Archive, RequestArchive, FinishArchive
<1>8. ASSUME NEW r \in Requests, NEW answer,
             jobs' = [jobs EXCEPT ![r].at = "answered", ![r].answer = answer]
      PROVE  jobs'[q] = jobs[q]
  BY <1>8 DEF IInv, TypeOK, JobRow
<1>9. ASSUME NEW m \in wire, SunatAccepts(m) \/ SunatRejects(m)
      PROVE  jobs'[q] = jobs[q]
  <2>1. m.to # None => m.to \in Requests
    BY DEF IInv, TypeOK
  <2>2. QED
    BY <1>8, <1>9, <2>1 DEF SunatAccepts, SunatRejects, Answered
<1>10. ASSUME NEW r \in Requests, GiveUp(r) \/ Abort(r)
       PROVE  jobs'[q] = jobs[q]
  BY <1>4, <1>8, <1>10 DEF GiveUp, Abort
<1>11. QED
  BY <1>5, <1>6, <1>7, <1>9, <1>10 DEF Next, ForgetTask, vars

\* Who has a number keeps it, or has just taken the next one in its turn.
LEMMA NumberedStep ==
  ASSUME IInv, [Next]_vars, NEW q \in Requests, Numbered(q)'
  PROVE  \/ Numbered(q) /\ jobs'[q].number = jobs[q].number
         \/ TurnFree /\ UNCHANGED invoices /\ jobs'[q].number = NextNumber
<1>1. CASE jobs'[q].op = "issue" /\ jobs'[q].at = "insert"
  <2>1. CASE TakeTurn(q)
    BY <2>1 DEF TakeTurn, IInv, TypeOK, JobRow
  <2>2. CASE jobs'[q] = jobs[q]
    BY <1>1, <2>2 DEF Numbered, Job
  <2>3. QED
    BY <1>1, <2>1, <2>2, InsertStep
<1>2. CASE jobs'[q].op = "issue" /\ jobs'[q].at \in {"calling", "answered"}
  BY <1>2, InsertedStep DEF SameJob, JustInserted, Numbered
<1>3. QED
  BY <1>1, <1>2 DEF Numbered, Job, Inserted

\* The committed rows and their numbers stay, or one joins with the next number.
LEMMA RowsStep ==
  ASSUME IInv, Evolves
  PROVE  /\ \A k \in Rows : invoices'[k].number = invoices[k].number
         /\ \/ Rows' = Rows
            \/ \E i \in Ids, q \in Requests :
                 /\ i \notin Rows /\ Rows' = Rows \cup {i}
                 /\ Inserted(q) /\ jobs'[q] = NoJob
                 /\ invoices'[i].number = jobs[q].number
<1>1. CASE UNCHANGED invoices
  BY <1>1 DEF Rows, Committed
<1>2. ASSUME NEW i \in NewIds,
             invoices' = [invoices EXCEPT ![i].status = "reserved"]
      PROVE  /\ \A k \in Rows : invoices'[k].number = invoices[k].number
             /\ Rows' = Rows
  <2>1. \A k \in Ids : /\ Committed(k) => invoices'[k] = invoices[k]
                       /\ invoices'[k].status \in Answers => Committed(k)
    BY <1>2, Reserving DEF IInv
  <2>2. QED
    BY <2>1 DEF Rows, Committed
<1>3. ASSUME NEW i \in Ids, NEW row \in InvoiceRow,
             invoices' = [invoices EXCEPT ![i] = row],
             Keeps(i, row) \/ IsNew(i, row)
      PROVE  /\ \A k \in Rows : invoices'[k].number = invoices[k].number
             /\ \/ Rows' = Rows
                \/ \E q \in Requests :
                     /\ i \notin Rows /\ Rows' = Rows \cup {i}
                     /\ Inserted(q) /\ jobs'[q] = NoJob
                     /\ invoices'[i].number = jobs[q].number
  <2>1. /\ invoices'[i] = row
        /\ \A k \in Ids : k # i => invoices'[k] = invoices[k]
    BY <1>3 DEF IInv, TypeOK
  <2>2. CASE Keeps(i, row)
    BY <2>1, <2>2 DEF Keeps, Rows, Committed
  <2>3. CASE IsNew(i, row)
    <3>1. i \notin Rows /\ Rows' = Rows \cup {i}
      BY <2>1, <2>3 DEF IsNew, Rows, Committed
    <3>2. \A k \in Rows : invoices'[k].number = invoices[k].number
      BY <2>1, <3>1 DEF Rows
    <3>3. QED
      BY <2>1, <2>3, <3>1, <3>2 DEF IsNew
  <2>4. QED
    BY <1>3, <2>2, <2>3
<1>4. QED
  BY <1>1, <1>2, <1>3 DEF Evolves

LEMMA NumbersStep ==
  ASSUME IInv, NumbersInv, [Next]_vars
  PROVE  NumbersInv'
<1> DEFINE n == Cardinality(Rows)
<1>1. Rows \subseteq Ids /\ n \in Nat /\ IsFiniteSet(Rows)
  BY RowsAreFinite DEF Rows
<1>2. \A k \in Rows : invoices'[k].number = invoices[k].number
  BY NextEvolves, RowsStep
<1>3. {invoices[k].number : k \in Rows} = 1..n
  BY DEF NumbersInv, NumbersRunOn, Rows
<1>4. \A q \in Requests : Numbered(q) => HasTurn(q) /\ jobs[q].number = n + 1
  BY DEF NumbersInv, Numbered, HasTurn
<1>5. CASE Rows' = Rows
  <2>1. {invoices'[k].number : k \in Rows} = {invoices[k].number : k \in Rows}
    BY <1>2
  <2>2. NumbersRunOn'
    BY <1>3, <1>5, <2>1 DEF NumbersRunOn, Rows
  <2>3. ASSUME NEW q \in Requests, Numbered(q)'
        PROVE  jobs'[q].number = n + 1
    <3>1. NextNumber = n + 1
      BY NextRunsOn DEF NumbersInv
    <3>2. QED
      BY <1>4, <2>3, <3>1, NumberedStep
  <2>4. QED
    BY <1>5, <2>2, <2>3 DEF NumbersInv
<1>6. ASSUME NEW i \in Ids, NEW q \in Requests,
             i \notin Rows, Rows' = Rows \cup {i},
             Inserted(q), jobs'[q] = NoJob,
             invoices'[i].number = jobs[q].number
      PROVE  NumbersInv'
  <2>1. invoices'[i].number = n + 1 /\ HasTurn(q)
    BY <1>4, <1>6 DEF Numbered
  <2>2. Cardinality(Rows') = n + 1
    BY <1>1, <1>6, FS_AddElement
  <2>3. {invoices'[k].number : k \in Rows'} = 1..(n + 1)
    <3>1. {invoices'[k].number : k \in Rows'}
            = {invoices[k].number : k \in Rows} \cup {n + 1}
      BY <1>2, <1>6, <2>1
    <3>2. 1..(n + 1) = (1..n) \cup {n + 1}
      BY <1>1
    <3>3. QED
      BY <1>3, <3>1, <3>2
  <2>4. NumbersRunOn'
    BY <2>2, <2>3 DEF NumbersRunOn, Rows
  <2>5. \A r \in Requests : ~Numbered(r)'
    <3>1. SUFFICES ASSUME NEW r \in Requests, Numbered(r)' PROVE FALSE
      OBVIOUS
    <3>2. r # q
      BY <1>6, <3>1 DEF Numbered, Job, Inserted, NoJob
    <3>3. ~HasTurn(r) /\ ~TurnFree
      BY <2>1, <3>2 DEF IInv, Locked, Exclusive, TurnFree
    <3>4. QED
      BY <1>4, <3>1, <3>3, NumberedStep
  <2>6. QED
    BY <2>4, <2>5 DEF NumbersInv
<1>7. QED
  <2>1. Evolves
    BY NextEvolves
  <2>2. \/ Rows' = Rows
        \/ \E i \in Ids, q \in Requests :
             /\ i \notin Rows /\ Rows' = Rows \cup {i}
             /\ Inserted(q) /\ jobs'[q] = NoJob
             /\ invoices'[i].number = jobs[q].number
    BY <2>1, RowsStep
  <2>3. QED
    BY <1>5, <1>6, <2>2

\* The numbers of the invoices of a series are 1, 2, 3... whatever requests
\* were undone in between: a number is taken in the turn, and given back with
\* it (next_number, FOR UPDATE of the billing_settings row).
THEOREM NumbersHaveNoGaps == Spec => []NumbersRunOn
<1>1. Init => NumbersInv
  <2> SUFFICES ASSUME Init PROVE NumbersInv
    OBVIOUS
  <2>1. Rows = {}
    BY DEF Init, NoInvoice, Rows, Committed, Answers
  <2>2. Cardinality({}) = 0
    BY FS_EmptySet
  <2>3. {invoices[k].number : k \in Rows} = 1..0
    BY <2>1
  <2>4. NumbersRunOn
    BY <2>1, <2>2, <2>3 DEF NumbersRunOn, Rows
  <2>5. \A q \in Requests : ~Numbered(q)
    BY DEF Init, NoJob, Numbered, Job, Inserted
  <2>6. QED
    BY <2>4, <2>5 DEF NumbersInv
<1>2. IInv /\ NumbersInv /\ [Next]_vars => NumbersInv'
  BY NumbersStep
<1>3. NumbersInv => NumbersRunOn
  BY DEF NumbersInv
<1>4. QED
  BY <1>1, <1>2, <1>3, Inductive, PTL DEF Spec

=============================================================================
