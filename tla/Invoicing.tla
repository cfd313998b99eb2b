------------------------------ MODULE Invoicing ------------------------------
(***************************************************************************)
(* Invoices, credit notes and their archive as the billing module keeps    *)
(* them, and SUNAT, the tax office they are sent to.  A request is one     *)
(* transaction: it takes the row of the invoice (FOR UPDATE), or the       *)
(* restaurant's billing_settings row as a turn to number, and keeps them   *)
(* while SUNAT answers.  A message can outlive the request that sent it.   *)
(*                                                                         *)
(* One series of invoices and one of notes; every order is paid.  SUNAT    *)
(* refuses a number it has already registered, and anything else it does   *)
(* not like.                                                               *)
(***************************************************************************)
EXTENDS Integers, FiniteSets

CONSTANTS
  Requests,     \* slots for requests and archive tasks in course
  Orders,       \* paid orders
  MaxInvoices,  \* bound: invoice rows ever inserted
  None

ASSUME InvoicingAssumption ==
  /\ MaxInvoices \in Nat
  /\ None \notin Requests \cup Orders

VARIABLES
  invoices,  \* committed rows; "reserved" is an id of an uncommitted one
  notes,     \* the committed credit note of each invoice
  jobs,      \* the transaction of each request
  tasks,     \* archive tasks launched and not begun: only in memory
  wire,      \* messages sent to SUNAT and not processed
  sunat,     \* documents SUNAT has registered
  lost       \* documents whose answer nobody was there to save (history)

vars == <<invoices, notes, jobs, tasks, wire, sunat, lost>>

Ids == 1..MaxInvoices
Answers == {"pending", "accepted", "rejected", "simulated"}
Documents == [kind : {"invoice", "note"}, id : Ids, number : Nat]

NoInvoice == [order |-> None, number |-> 0, status |-> "none",
              voided |-> FALSE, archive |-> "disabled", replaces |-> 0]
NoNote == [number |-> 0, status |-> "none"]
NoJob == [op |-> "none", at |-> "idle", id |-> 0, order |-> None,
          replaces |-> 0, number |-> 0, answer |-> "none"]

Init ==
  /\ invoices = [i \in Ids |-> NoInvoice]
  /\ notes = [i \in Ids |-> NoNote]
  /\ jobs = [q \in Requests |-> NoJob]
  /\ tasks = {} /\ wire = {} /\ sunat = {} /\ lost = {}

-----------------------------------------------------------------------------
(* Rows, and who has taken them. *)

Committed(i) == invoices[i].status \in Answers
HasNote(i) == notes[i].status # "none"
OfOrder(o) == {i \in Ids : Committed(i) /\ invoices[i].order = o}
Current(o) == {i \in OfOrder(o) : ~invoices[i].voided}
Latest(S) == CHOOSE i \in S : \A j \in S : j <= i

\* The current invoice of an order or, all voided, the last; 0 if none.
Existing(o) ==
  IF OfOrder(o) = {} THEN 0
  ELSE Latest(IF Current(o) # {} THEN Current(o) ELSE OfOrder(o))

Idle(q) == jobs[q].at = "idle"
Job(q, op, at) == jobs[q].op = op /\ jobs[q].at = at
Inserted(q) == jobs[q].op = "issue" /\ jobs[q].at \in {"calling", "answered"}

\* FOR UPDATE on invoice i: everything about an existing invoice but reading.
Locks(q, i) == jobs[q].op \in {"resend", "void", "renote", "archive"}
               /\ jobs[q].id = i
\* KEY SHARE on invoice i: a new row names it as the one it replaces.
Shares(q, i) == Inserted(q) /\ jobs[q].replaces = i
FreeBug(i) == Committed(i)
Free(i) == Committed(i) /\ \A q \in Requests : ~Locks(q, i) /\ ~Shares(q, i)

\* The billing_settings row, taken until the provider has answered.
HasTurn(q) == \/ Inserted(q) \/ Job(q, "issue", "insert")
              \/ jobs[q].op = "void" /\ jobs[q].at \in {"calling", "answered"}
TurnFree == \A q \in Requests : ~HasTurn(q)

NumberAfter(used) == Latest({0} \cup used) + 1
NextNumberBug == Cardinality({i \in Ids : invoices[i].status # "none"}) + 1
NextNumber == NumberAfter({invoices[i].number : i \in {j \in Ids : Committed(j)}})
NextNoteNumber == NumberAfter({notes[i].number : i \in {j \in Ids : HasNote(j)}})

-----------------------------------------------------------------------------
(* SUNAT, and the message a request waits on. *)

Document(job) ==
  [kind |-> IF job.op \in {"issue", "resend"} THEN "invoice" ELSE "note",
   id |-> job.id, number |-> job.number]
InvoiceDoc(i) == [kind |-> "invoice", id |-> i, number |-> invoices[i].number]
NoteDoc(i) == [kind |-> "note", id |-> i, number |-> notes[i].number]

SendBug(q, job) ==
  /\ jobs' = [jobs EXCEPT ![q] = [job EXCEPT !.at = "calling"]]
  /\ wire' = wire \cup {[doc |-> Document(jobs[q]), to |-> q]}
\* The document goes out, or stays: the certificate expired, data missing.
Send(q, job) ==
  \/ /\ jobs' = [jobs EXCEPT ![q] = [job EXCEPT !.at = "calling"]]
     /\ wire' = wire \cup {[doc |-> Document(job), to |-> q]}
  \/ /\ jobs' = [jobs EXCEPT ![q] = [job EXCEPT !.at = "answered",
                                                !.answer = "simulated"]]
     /\ UNCHANGED wire

\* SUNAT has done with m; the answer reaches who still waits for it.
Answered(m, answer) ==
  /\ wire' = wire \ {m}
  /\ jobs' = IF m.to = None THEN jobs
             ELSE [jobs EXCEPT ![m.to].at = "answered", ![m.to].answer = answer]

Duplicate(d) == \E e \in sunat : e.kind = d.kind /\ e.number = d.number

SunatAccepts(m) ==
  /\ ~Duplicate(m.doc)
  /\ sunat' = sunat \cup {m.doc}
  /\ Answered(m, "accepted")
  /\ UNCHANGED <<invoices, notes, tasks, lost>>

SunatRejects(m) ==
  /\ Answered(m, "rejected")
  /\ UNCHANGED <<invoices, notes, tasks, sunat, lost>>

\* Whatever q sent is on its own: it may still arrive.
Orphaned(q) ==
  {m \in wire : m.to # q} \cup {[m EXCEPT !.to = None] : m \in {n \in wire : n.to = q}}

\* No answer in time, or one that SUNAT or Lycet could not give.
GiveUp(q) ==
  /\ jobs[q].at = "calling"
  /\ wire' = Orphaned(q)
  /\ lost' = lost \cup {Document(jobs[q])}
  /\ jobs' = [jobs EXCEPT ![q].at = "answered", ![q].answer = "pending"]
  /\ UNCHANGED <<invoices, notes, tasks, sunat>>

Done(q) == jobs' = [jobs EXCEPT ![q] = NoJob]

\* The process restarts, the deadline passes, the connection or commit fails.
Abort(q) ==
  /\ ~Idle(q) /\ Done(q)
  /\ wire' = Orphaned(q)
  /\ lost' = IF jobs[q].at \in {"calling", "answered"}
               THEN lost \cup {Document(jobs[q])} ELSE lost
  /\ UNCHANGED <<invoices, notes, tasks, sunat>>

-----------------------------------------------------------------------------
(* Issuing. *)

Issuing == {q \in Requests : jobs[q].op = "issue" /\ ~Inserted(q)}
NewIds == {i \in Ids : invoices[i].status = "none"}

\* The order and its invoice are read, and nothing is taken yet.
ReadOrder(q, o) ==
  /\ Idle(q) /\ Cardinality(Issuing) < Cardinality(NewIds)
  /\ Current(o) = {}
  /\ jobs' = [jobs EXCEPT ![q] = [NoJob EXCEPT !.op = "issue", !.at = "turn",
                                    !.order = o, !.replaces = Existing(o)]]
  /\ UNCHANGED <<invoices, notes, tasks, wire, sunat, lost>>

TakeTurn(q) ==
  /\ Job(q, "issue", "turn") /\ TurnFree
  /\ jobs' = [jobs EXCEPT ![q].at = "insert", ![q].number = NextNumber]
  /\ UNCHANGED <<invoices, notes, tasks, wire, sunat, lost>>

\* uq_invoices_series_number and uq_invoices_order_current.
Clashes(job) ==
  \E i \in Ids : Committed(i) /\ \/ invoices[i].number = job.number
                                 \/ invoices[i].order = job.order
                                    /\ ~invoices[i].voided

InsertInvoice(q) ==
  /\ Job(q, "issue", "insert")
  /\ \A r \in Requests : ~(jobs[q].replaces # 0 /\ Locks(r, jobs[q].replaces))
  /\ \/ /\ Clashes(jobs[q]) /\ Done(q)
        /\ UNCHANGED <<invoices, wire>>
     \/ /\ ~Clashes(jobs[q])
        /\ \E i \in NewIds :
             /\ \A j \in NewIds : i <= j
             /\ invoices' = [invoices EXCEPT ![i].status = "reserved"]
             /\ Send(q, [jobs[q] EXCEPT !.id = i])
  /\ UNCHANGED <<notes, tasks, sunat, lost>>

\* An accepted invoice is queued for the archive in the same commit.
Archived(q, archiving) == archiving /\ jobs[q].answer = "accepted"
Queue(q, archiving) ==
  tasks' = IF Archived(q, archiving) THEN tasks \cup {jobs[q].id} ELSE tasks

SaveNewInvoice(q, archiving) ==
  /\ Job(q, "issue", "answered") /\ Done(q) /\ Queue(q, archiving)
  /\ invoices' = [invoices EXCEPT ![jobs[q].id] =
       [order |-> jobs[q].order, number |-> jobs[q].number,
        status |-> jobs[q].answer, voided |-> FALSE,
        archive |-> IF Archived(q, archiving) THEN "pending" ELSE "disabled",
        replaces |-> jobs[q].replaces]]
  /\ UNCHANGED <<notes, wire, sunat, lost>>

-----------------------------------------------------------------------------
(* Sending again. *)

ResendableBug(i) == ~invoices[i].voided
Resendable(i) == invoices[i].status # "accepted" /\ ~invoices[i].voided

ResendInvoice(q, i) ==
  /\ Idle(q) /\ Free(i) /\ Resendable(i)
  /\ Send(q, [NoJob EXCEPT !.op = "resend", !.id = i,
                           !.number = invoices[i].number])
  /\ UNCHANGED <<invoices, notes, tasks, sunat, lost>>

SaveResent(q, archiving) ==
  /\ Job(q, "resend", "answered") /\ Done(q) /\ Queue(q, archiving)
  /\ invoices' = [invoices EXCEPT
       ![jobs[q].id].status = jobs[q].answer,
       ![jobs[q].id].archive = IF Archived(q, archiving) THEN "pending" ELSE @]
  /\ UNCHANGED <<notes, wire, sunat, lost>>

-----------------------------------------------------------------------------
(* Voiding. *)

VoidableBug(i) == /\ invoices[i].status # "pending"
                  /\ HasNote(i) => notes[i].status = "accepted"
Voidable(i) ==
  /\ ~invoices[i].voided /\ invoices[i].status # "pending"
  /\ HasNote(i) => notes[i].status = "accepted"

\* One that SUNAT did not accept is voided here and now.
VoidLocally(q, i) ==
  /\ Idle(q) /\ Free(i) /\ Voidable(i) /\ invoices[i].status # "accepted"
  /\ invoices' = [invoices EXCEPT ![i].voided = TRUE]
  /\ UNCHANGED <<notes, jobs, tasks, wire, sunat, lost>>

\* An accepted one takes a credit note: with the invoice taken, its turn.
VoidInvoice(q, i) ==
  /\ Idle(q) /\ Free(i) /\ Voidable(i) /\ invoices[i].status = "accepted"
  /\ jobs' = [jobs EXCEPT ![q] = [NoJob EXCEPT !.op = "void", !.at = "turn",
                                               !.id = i]]
  /\ UNCHANGED <<invoices, notes, tasks, wire, sunat, lost>>

InsertNote(q) ==
  /\ Job(q, "void", "turn") /\ TurnFree
  /\ IF HasNote(jobs[q].id)
       THEN Done(q) /\ UNCHANGED wire
       ELSE Send(q, [jobs[q] EXCEPT !.number = NextNoteNumber])
  /\ UNCHANGED <<invoices, notes, tasks, sunat, lost>>

ResendCreditNote(q, i) ==
  /\ Idle(q) /\ Free(i) /\ HasNote(i) /\ notes[i].status # "accepted"
  /\ Send(q, [NoJob EXCEPT !.op = "renote", !.id = i,
                           !.number = notes[i].number])
  /\ UNCHANGED <<invoices, notes, tasks, sunat, lost>>

\* The note is saved, and the invoice voided if SUNAT accepted it.
SettlesBug(answer) == answer \in {"accepted", "pending"}
Settles(answer) == answer = "accepted"

SaveNote(q) ==
  /\ Job(q, "void", "answered") \/ Job(q, "renote", "answered")
  /\ Done(q)
  /\ notes' = [notes EXCEPT ![jobs[q].id] =
                 [number |-> jobs[q].number, status |-> jobs[q].answer]]
  /\ invoices' = [invoices EXCEPT ![jobs[q].id].voided =
                    @ \/ Settles(jobs[q].answer)]
  /\ UNCHANGED <<tasks, wire, sunat, lost>>

-----------------------------------------------------------------------------
(* The archive: a task in memory for each accepted invoice. *)

RequestArchive(q, i) ==
  /\ Idle(q) /\ Free(i)
  /\ invoices[i].status = "accepted" /\ invoices[i].archive # "done"
  /\ invoices' = [invoices EXCEPT ![i].archive = "pending"]
  /\ tasks' = tasks \cup {i}
  /\ UNCHANGED <<notes, jobs, wire, sunat, lost>>

\* A task finds its invoice pending and uploads it, or has nothing to do.
StartArchive(q, i) ==
  /\ Idle(q) /\ i \in tasks /\ Free(i)
  /\ tasks' = tasks \ {i}
  /\ jobs' = IF invoices[i].archive # "pending" THEN jobs
             ELSE [jobs EXCEPT ![q] = [NoJob EXCEPT !.op = "archive",
                                        !.at = "uploading", !.id = i]]
  /\ UNCHANGED <<invoices, notes, wire, sunat, lost>>

FinishArchive(q, result) ==
  /\ Job(q, "archive", "uploading") /\ Done(q)
  /\ invoices' = [invoices EXCEPT ![jobs[q].id].archive = result]
  /\ UNCHANGED <<notes, tasks, wire, sunat, lost>>

\* A restart forgets it, and nothing launches it again.
ForgetTask(i) ==
  /\ i \in tasks /\ tasks' = tasks \ {i}
  /\ UNCHANGED <<invoices, notes, jobs, wire, sunat, lost>>

-----------------------------------------------------------------------------
Issue(q) ==
  \/ \E o \in Orders : ReadOrder(q, o)
  \/ TakeTurn(q)
  \/ InsertInvoice(q)
  \/ \E archiving \in BOOLEAN : SaveNewInvoice(q, archiving)

Change(q) ==
  \/ \E i \in Ids : \/ ResendInvoice(q, i) \/ VoidLocally(q, i)
                    \/ VoidInvoice(q, i) \/ ResendCreditNote(q, i)
  \/ InsertNote(q)
  \/ SaveNote(q)
  \/ \E archiving \in BOOLEAN : SaveResent(q, archiving)

Archive(q) ==
  \/ \E i \in Ids : RequestArchive(q, i) \/ StartArchive(q, i)
  \/ \E result \in {"done", "failed"} : FinishArchive(q, result)

Next ==
  \/ \E q \in Requests : Issue(q) \/ Change(q) \/ Archive(q) \/ GiveUp(q) \/ Abort(q)
  \/ \E m \in wire : SunatAccepts(m) \/ SunatRejects(m)
  \/ \E i \in Ids : ForgetTask(i)

Spec == Init /\ [][Next]_vars

-----------------------------------------------------------------------------
(* Properties. *)

InvoiceRow == [order : Orders \cup {None}, number : Nat,
               status : Answers \cup {"none", "reserved"}, voided : BOOLEAN,
               archive : {"disabled", "pending", "done", "failed"},
               replaces : Ids \cup {0}]
NoteRow == [number : Nat, status : Answers \cup {"none"}]
JobRow == [op : {"none", "issue", "resend", "void", "renote", "archive"},
           at : {"idle", "turn", "insert", "calling", "answered", "uploading"},
           id : Ids \cup {0}, order : Orders \cup {None},
           replaces : Ids \cup {0}, number : Nat, answer : Answers \cup {"none"}]

\* Rows hold values of their columns and every message to a request is the one
\* that request is waiting on.
TypeOK ==
  /\ invoices \in [Ids -> InvoiceRow] /\ notes \in [Ids -> NoteRow]
  /\ jobs \in [Requests -> JobRow] /\ tasks \subseteq Ids
  /\ wire \subseteq [doc : Documents, to : Requests \cup {None}]
  /\ sunat \subseteq Documents /\ lost \subseteq Documents
  /\ \A m \in wire : m.to # None =>
       jobs[m.to].at = "calling" /\ m.doc = Document(jobs[m.to])

\* The table and SUNAT tell the same story: what the table says is accepted,
\* SUNAT has; what SUNAT has, the table says accepted, unless a request is
\* about to save it or its answer was lost (a refused copy of a resend never
\* overwrites an acceptance).
SaidAccepted(d) ==
  IF d.kind = "invoice" THEN invoices[d.id].status = "accepted"
                        ELSE notes[d.id].status = "accepted"
InHand(d) ==
  \E q \in Requests : /\ jobs[q].at = "answered" /\ jobs[q].answer = "accepted"
                      /\ Document(jobs[q]) = d
AgreesWithSunat ==
  /\ \A i \in Ids : /\ invoices[i].status = "accepted" => InvoiceDoc(i) \in sunat
                    /\ notes[i].status = "accepted" => NoteDoc(i) \in sunat
  /\ \A d \in sunat \ lost : SaidAccepted(d) \/ InHand(d)

\* Two accepted invoices of one order are never both valid: SUNAT has the note
\* that cancels one of them.  What an invoice replaces is voided, and earlier.
OneValidPerOrder ==
  /\ \A i, j \in Ids :
       /\ i # j /\ invoices[i].order = invoices[j].order
       /\ invoices[i].status = "accepted" /\ invoices[j].status = "accepted"
       => NoteDoc(i) \in sunat \/ NoteDoc(j) \in sunat
  /\ \A i \in Ids : LET r == invoices[i].replaces
                    IN  r # 0 => r < i /\ invoices[r].voided

\* The numbers of the committed invoices are 1, 2, 3... without a gap or a
\* repetition, whatever requests were undone in between.
NumbersRunOn ==
  LET rows == {i \in Ids : Committed(i)}
  IN  {invoices[i].number : i \in rows} = 1..Cardinality(rows)

\* The turn and the rows of invoices are taken in both orders, and yet nobody
\* waits in a circle: who inserts a replacement never waits for an invoice
\* whose voiding waits for the turn.
NobodyWaitsInCircle ==
  \A q, r \in Requests :
    Job(q, "issue", "insert") /\ Job(r, "void", "turn") =>
      jobs[q].replaces # jobs[r].id

\* What is archived stays archived: neither a task that fails late nor a
\* resend undoes it.
ArchiveIsKept ==
  [][\A i \in Ids : invoices[i].archive = "done" =>
                      invoices'[i].archive = "done"]_vars

\* Billing implements the promise of InvoiceLife.
LifeOf(i) == CASE ~Committed(i) -> "none"
               [] Committed(i) /\ invoices[i].voided -> "voided"
               [] OTHER -> IF invoices[i].status = "accepted" THEN "accepted"
                                                              ELSE "open"
Life == INSTANCE InvoiceLife WITH
  state <- [i \in Ids |-> LifeOf(i)],
  order <- [i \in Ids |-> invoices[i].order]

LivesLikeAnInvoice == Life!Spec

\* voiding.py: "Rechazado o sin enviar: nunca valio ante SUNAT, asi que se
\* anula solo en RestHub".
VoidedNeverValid ==
  \A i \in Ids : invoices[i].voided /\ invoices[i].status # "accepted" =>
    InvoiceDoc(i) \notin sunat

=============================================================================
