-------------------------------- MODULE SignIn --------------------------------
(***************************************************************************)
(* Sign-in to one account, over several replicas: the attempts counted in  *)
(* each replica's memory and, under a lock per email, in the database; the *)
(* password; the second factor; the session that is opened and those it    *)
(* closes.                                                                 *)
(*                                                                         *)
(* An attempt is one POST /auth/login.  It counts itself in a transaction  *)
(* of its own, and does the rest in the request's, which may roll back     *)
(* (an error, the deadline) at any of its steps.  A replica may restart.   *)
(* All of it happens within one window of the limit, fifteen minutes: no   *)
(* attempt grows too old to count.                                         *)
(***************************************************************************)
EXTENDS Integers, FiniteSets

CONSTANTS
  Attempts,      \* the requests of one window
  Replicas, Addresses,
  PairLimit,     \* max_failures: those of an email and an address
  EmailLimit,    \* max_failures_per_email
  MaxSessions,   \* max_sessions_per_account
  Codes,         \* codes a client may send: of the application or of recovery
  None

ASSUME SignInAssumption ==
  /\ IsFiniteSet(Attempts)
  /\ PairLimit \in Nat \ {0} /\ EmailLimit \in Nat \ {0}
  /\ MaxSessions \in Nat \ {0}
  /\ Codes \subseteq [kind : {"totp", "recovery"}, n : Nat]
  /\ None \notin Attempts \cup Codes

VARIABLES
  memory,      \* what each replica counts, by address and for the email
  rows,        \* what login_attempts counts, the same way
  credential,  \* the account's second factor, with its unused recovery codes
  sessions,    \* its open sessions, each by the sign-in that opened it
  lock,        \* who holds the lock of the email
  row,         \* who holds the row of the credential
  attempt

vars == <<memory, rows, credential, sessions, lock, row, attempt>>

Fresh == [by |-> [a \in Addresses |-> 0], email |-> 0]

New == [stage |-> "new", at |-> None, from |-> None, code |-> None,
        seen |-> None, closes |-> {}]

Recovery == {c.n : c \in {d \in Codes : d.kind = "recovery"}}

Init ==
  /\ memory = [r \in Replicas |-> Fresh]
  /\ rows = Fresh
  /\ credential \in [on : BOOLEAN, step : {0}, unused : {Recovery}]
  /\ sessions = {}
  /\ lock = None /\ row = None
  /\ attempt = [p \in Attempts |-> New]

-----------------------------------------------------------------------------
(* The count of attempts. *)

Allowed(m, a) == m.by[a] < PairLimit /\ m.email < EmailLimit

Least(m, n) == IF m < n THEN m ELSE n
Less(n) == IF n = 0 THEN 0 ELSE n - 1

Reserve(m, a) == [m EXCEPT !.by[a] = @ + 1, !.email = @ + 1]
Release(m, a) == [m EXCEPT !.by[a] = Less(@), !.email = Less(@)]

\* A sign-in takes out one attempt of its pair, the last and whoever made it;
\* the others of the pair go on counting, for the email alone.
Forget(m, a) == [m EXCEPT !.by[a] = 0, !.email = Less(@)]

LockIsFreeBug(p) == TRUE
LockIsFree(p) == lock \in {None, p}

To(p, stage) == attempt' = [attempt EXCEPT ![p].stage = stage]

\* How an attempt ended, and what is left of it.
Ended(q, stage) == [New EXCEPT !.stage = stage, !.from = q.from, !.code = q.code]
Finish(p, stage) == attempt' = [attempt EXCEPT ![p] = Ended(@, stage)]

\* The end of a transaction gives back what it held.
LetGo(p) ==
  /\ lock' = IF lock = p THEN None ELSE lock
  /\ row' = IF row = p THEN None ELSE row

\* The memory of the replica counts before anything is waited for.
Arrive(p, r, a) ==
  LET m == memory[r]
      ok == Allowed(m, a) IN
  /\ attempt[p].stage = "new"
  /\ memory' = IF ok THEN [memory EXCEPT ![r] = Reserve(m, a)] ELSE memory
  /\ IF ok THEN attempt' = [attempt EXCEPT ![p].stage = "counting",
                              ![p].at = r, ![p].from = a]
     ELSE Finish(p, "refused")
  /\ UNCHANGED <<rows, credential, sessions, lock, row>>

\* The database counts; an attempt it refuses gives its place in memory back.
Count(p) ==
  LET q == attempt[p] IN
  /\ q.stage = "counting"
  /\ LockIsFree(p)
  /\ IF Allowed(rows, q.from)
     THEN lock' = p /\ To(p, "noting") /\ UNCHANGED memory
     ELSE /\ memory' = [memory EXCEPT ![q.at] = Release(@, q.from)]
          /\ Finish(p, "refused")
          /\ UNCHANGED lock
  /\ UNCHANGED <<rows, credential, sessions, row>>

Note(p) ==
  /\ attempt[p].stage = "noting"
  /\ rows' = Reserve(rows, attempt[p].from)
  /\ To(p, "checking")
  /\ LetGo(p)
  /\ UNCHANGED <<memory, credential, sessions>>

-----------------------------------------------------------------------------
(* The password and the second factor. *)

Fits(k, c) ==
  IF c.kind = "totp" THEN c.n > k.step ELSE c.n \in k.unused

SpentBug(k, c) ==
  IF c.kind = "totp" THEN [k EXCEPT !.step = c.n] ELSE k
Spent(k, c) ==
  IF c.kind = "totp" THEN [k EXCEPT !.step = c.n]
  ELSE [k EXCEPT !.unused = @ \ {c.n}]

\* The row is changed only if it is still as it was read.
StillAsSeen(p) ==
  LET q == attempt[p] IN
  IF q.code.kind = "totp" THEN credential.step < q.code.n
  ELSE credential.unused = q.seen.unused

\* A wrong password, an account that is off or a code that is missing: 401.
Reject(p) ==
  /\ attempt[p].stage = "checking"
  /\ Finish(p, "wrong")
  /\ UNCHANGED <<memory, rows, credential, sessions, lock, row>>

Accept(p) ==
  /\ attempt[p].stage = "checking"
  /\ ~credential.on
  /\ To(p, "forgetting")
  /\ UNCHANGED <<memory, rows, credential, sessions, lock, row>>

\* With the second factor: the row is read FOR UPDATE.
ReadCode(p, c) ==
  /\ attempt[p].stage = "checking"
  /\ credential.on
  /\ row = None
  /\ IF Fits(credential, c)
     THEN /\ row' = p
          /\ attempt' = [attempt EXCEPT ![p].stage = "spending",
                           ![p].code = c, ![p].seen = credential]
     ELSE Finish(p, "wrong") /\ UNCHANGED row
  /\ UNCHANGED <<memory, rows, credential, sessions, lock>>

SpendCode(p) ==
  /\ attempt[p].stage = "spending"
  /\ IF StillAsSeen(p) THEN To(p, "forgetting") /\ UNCHANGED row
     ELSE Finish(p, "wrong") /\ row' = None
  /\ UNCHANGED <<memory, rows, credential, sessions, lock>>

-----------------------------------------------------------------------------
(* What a right attempt does, until it commits. *)

\* The memory forgets at once; the database, when the request commits.
ForgetIt(p) ==
  LET q == attempt[p] IN
  /\ q.stage = "forgetting"
  /\ memory' = [memory EXCEPT ![q.at] = Forget(@, q.from)]
  /\ To(p, "clearing")
  /\ UNCHANGED <<rows, credential, sessions, lock, row>>

Clear(p) ==
  /\ attempt[p].stage = "clearing"
  /\ LockIsFree(p)
  /\ lock' = p
  /\ To(p, "opening")
  /\ UNCHANGED <<memory, rows, credential, sessions, row>>

KeptBug(open) ==
  {k \in SUBSET open : Cardinality(k) = Least(MaxSessions, Cardinality(open))}
\* Of the open sessions, as many as the cap leaves room for once this one is
\* open; which ones, the last used, is left open.
Kept(open) ==
  {k \in SUBSET open : Cardinality(k) = Least(MaxSessions - 1, Cardinality(open))}

\* Closes the session of the browser's cookie, and opens one.
OpenSession(p, cookie) ==
  /\ attempt[p].stage = "opening"
  /\ \E kept \in Kept(sessions \ {cookie}) :
       attempt' = [attempt EXCEPT ![p].stage = "commit", ![p].closes = sessions \ kept]
  /\ UNCHANGED <<memory, rows, credential, sessions, lock, row>>

CommitSignIn(p) ==
  LET q == attempt[p] IN
  /\ q.stage = "commit"
  /\ rows' = Forget(rows, q.from)
  /\ credential' = IF credential.on THEN Spent(credential, q.code) ELSE credential
  /\ sessions' = (sessions \ q.closes) \cup {p}
  /\ Finish(p, "in")
  /\ LetGo(p)
  /\ UNCHANGED memory

-----------------------------------------------------------------------------
(* Meanwhile. *)

UnderWay ==
  {p \in Attempts : attempt[p].stage \notin {"new", "in", "refused", "wrong", "failed"}}

\* An error or the deadline: the transaction the attempt is in rolls back.
\* What the memory counted stays counted.
Abort(p) ==
  /\ p \in UnderWay
  /\ Finish(p, "failed")
  /\ LetGo(p)
  /\ UNCHANGED <<memory, rows, credential, sessions>>

\* A replica restarts: its memory is lost, and its requests with it.
Restart(r) ==
  LET dead == {p \in UnderWay : attempt[p].at = r} IN
  /\ memory[r] # Fresh
  /\ memory' = [memory EXCEPT ![r] = Fresh]
  /\ attempt' = [p \in Attempts |->
                   IF p \in dead THEN Ended(attempt[p], "failed") ELSE attempt[p]]
  /\ lock' = IF lock \in dead THEN None ELSE lock
  /\ row' = IF row \in dead THEN None ELSE row
  /\ UNCHANGED <<rows, credential, sessions>>

\* A session is closed or lapses.
End(s) ==
  /\ sessions' = sessions \ {s}
  /\ UNCHANGED <<memory, rows, credential, lock, row, attempt>>

Next ==
  \/ \E p \in Attempts, r \in Replicas, a \in Addresses : Arrive(p, r, a)
  \/ \E p \in Attempts : \/ Count(p) \/ Note(p) \/ Reject(p) \/ Accept(p)
                         \/ SpendCode(p) \/ ForgetIt(p) \/ Clear(p)
                         \/ CommitSignIn(p) \/ Abort(p)
  \/ \E p \in Attempts, c \in Codes : ReadCode(p, c)
  \/ \E p \in Attempts : \E cookie \in sessions \cup {None} : OpenSession(p, cookie)
  \/ \E r \in Replicas : Restart(r)
  \/ \E s \in sessions : End(s)

Spec == Init /\ [][Next]_vars

-----------------------------------------------------------------------------
\* The attempts the limit is about: those let through to the password that
\* have not ended in a sign-in.
Unspent ==
  {p \in Attempts : attempt[p].stage \in
     {"checking", "spending", "forgetting", "clearing", "opening", "commit", "wrong"}}

UnspentFrom(a) == {p \in Unspent : attempt[p].from = a}

SignedIn == {p \in Attempts : attempt[p].stage = "in"}

\* However the attempts are spread over replicas that count together, restart
\* or roll back, no more passwords are tried than the limit allows: for the
\* email, and for an address that nobody signed in from.
LimitHolds ==
  /\ Cardinality(Unspent) <= EmailLimit
  /\ \A a \in Addresses :
       (\A p \in SignedIn : attempt[p].from # a)
         => Cardinality(UnspentFrom(a)) <= PairLimit

\* No code signs in twice, be it sent by two requests at once; one that was
\* read by a request that rolled back may still be used.
CodeSignsInOnce ==
  \A p, q \in SignedIn :
    p # q /\ attempt[p].code # None => attempt[p].code # attempt[q].code

\* Sign-ins of an account that overlap do not pass the cap of open sessions:
\* the lock on the email's attempts, kept until the commit, orders them.  The
\* change of name of an open session (rotate) takes no part in it.
SessionsWithinCap == Cardinality(sessions) <= MaxSessions
=============================================================================
