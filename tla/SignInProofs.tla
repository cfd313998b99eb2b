----------------------------- MODULE SignInProofs -----------------------------
(***************************************************************************)
(* What holds of sign-in for any number of attempts, replicas and          *)
(* addresses, any limits and any codes: the limit of attempts, that a code  *)
(* signs in once, and the cap of open sessions.                            *)
(***************************************************************************)
EXTENDS SignIn, TLAPS, FiniteSetTheorems

Stages == {"new", "counting", "noting", "checking", "spending", "forgetting",
           "clearing", "opening", "commit", "in", "refused", "wrong", "failed"}
Right == {"spending", "forgetting", "clearing", "opening", "commit"}

Credentials == [on : BOOLEAN, step : Nat, unused : SUBSET Nat]
Counts == [by : [Addresses -> Nat], email : Nat]

\* The database counts, an attempt knows its address, and its code if any.
TypeOK ==
  /\ rows \in Counts
  /\ credential \in Credentials
  /\ sessions \in SUBSET Attempts
  /\ attempt \in [Attempts ->
       [stage : Stages, at : Replicas \cup {None}, from : Addresses \cup {None},
        code : Codes \cup {None}, seen : Credentials \cup {None},
        closes : SUBSET Attempts]]

\* An attempt past its first step comes from an address.
Placed ==
  \A p \in Attempts :
    attempt[p].stage \notin {"new", "refused", "failed"} => attempt[p].from \in Addresses

\* Whoever is about to note an attempt, or has begun to take one out, holds the
\* lock of the email; and what was allowed when the lock was taken still is.
Locked ==
  \A p \in Attempts :
    /\ attempt[p].stage \in {"noting", "opening", "commit"} => lock = p
    /\ attempt[p].stage = "noting" => Allowed(rows, attempt[p].from)

\* The database counts at least the attempts the limit is about, never past it.
Counted ==
  /\ Cardinality(Unspent) <= rows.email
  /\ rows.email <= EmailLimit
  /\ \A a \in Addresses :
       /\ rows.by[a] <= PairLimit
       /\ (\A p \in SignedIn : attempt[p].from # a)
            => Cardinality(UnspentFrom(a)) <= rows.by[a]

\* From reading its code to its commit, a request holds the row and the code is
\* good; no code that signed in is good again.
CodeHeld ==
  \A p \in Attempts :
    /\ attempt[p].stage = "new" => attempt[p].code = None
    /\ ~credential.on => attempt[p].code = None /\ attempt[p].stage # "spending"
    /\ credential.on /\ attempt[p].stage \in Right =>
         row = p /\ attempt[p].code \in Codes /\ Fits(credential, attempt[p].code)
    /\ attempt[p].stage = "in" /\ attempt[p].code # None =>
         ~Fits(credential, attempt[p].code)

\* What a request is about to close leaves room for the session it opens.
Capped ==
  /\ SessionsWithinCap
  /\ \A p \in Attempts : attempt[p].stage = "commit" =>
       Cardinality(sessions \ attempt[p].closes) <= MaxSessions - 1

IInv == /\ TypeOK /\ Placed /\ Locked /\ Counted
        /\ CodeHeld /\ CodeSignsInOnce /\ Capped

-----------------------------------------------------------------------------
(* Sets of attempts, as one enters or leaves. *)

\* The attempts counted are finitely many, and those of an address among them.
LEMMA CountedAreFinite ==
  ASSUME NEW S \in SUBSET Attempts
  PROVE  IsFiniteSet(S) /\ Cardinality(S) \in Nat
BY SignInAssumption, FS_Subset, FS_CardinalityType

LEMMA NoneEnters ==
  ASSUME NEW S \in SUBSET Attempts, NEW T \in SUBSET S
  PROVE  Cardinality(T) <= Cardinality(S)
BY CountedAreFinite, FS_Subset

LEMMA OneEnters ==
  ASSUME NEW S \in SUBSET Attempts, NEW p \in Attempts, NEW T \in SUBSET (S \cup {p})
  PROVE  Cardinality(T) <= Cardinality(S) + 1
<1>1. IsFiniteSet(S) /\ Cardinality(S) \in Nat BY CountedAreFinite
<1>2. IsFiniteSet(S \cup {p}) /\ Cardinality(S \cup {p}) <= Cardinality(S) + 1
  BY <1>1, FS_AddElement
<1>3. Cardinality(T) \in Nat /\ Cardinality(S \cup {p}) \in Nat
  BY <1>2, CountedAreFinite
<1>4. Cardinality(T) <= Cardinality(S \cup {p}) BY <1>2, FS_Subset
<1> QED BY <1>1, <1>2, <1>3, <1>4

LEMMA OneLeaves ==
  ASSUME NEW S \in SUBSET Attempts, NEW p \in S, NEW T \in SUBSET (S \ {p})
  PROVE  Cardinality(T) + 1 <= Cardinality(S)
<1>1. IsFiniteSet(S) /\ Cardinality(S) \in Nat BY CountedAreFinite
<1>2. IsFiniteSet(S \ {p}) /\ Cardinality(S \ {p}) = Cardinality(S) - 1
  BY <1>1, FS_RemoveElement
<1>3. Cardinality(T) \in Nat BY CountedAreFinite
<1>4. Cardinality(T) <= Cardinality(S \ {p}) BY <1>2, FS_Subset
<1> QED BY <1>1, <1>2, <1>3, <1>4

\* A step that counts nothing, lets no attempt through and undoes no sign-in
\* leaves the counts as they were.
LEMMA CountStays ==
  ASSUME TypeOK, Counted, rows' = rows,
         \A x \in Unspent' : x \in Unspent /\ attempt'[x].from = attempt[x].from,
         \A x \in SignedIn : x \in SignedIn' /\ attempt'[x].from = attempt[x].from
  PROVE  Counted'
<1>1. /\ Unspent' \in SUBSET Unspent /\ Unspent \in SUBSET Attempts
      /\ Cardinality(Unspent) \in Nat /\ Cardinality(Unspent') \in Nat
  BY CountedAreFinite DEF Unspent
<1>2. Cardinality(Unspent') <= Cardinality(Unspent) BY <1>1, NoneEnters
<1>3. ASSUME NEW a \in Addresses,
             \A p \in SignedIn' : attempt'[p].from # a
      PROVE  Cardinality(UnspentFrom(a)') <= rows.by[a]
  <2>1. /\ UnspentFrom(a)' \in SUBSET UnspentFrom(a) /\ UnspentFrom(a) \in SUBSET Attempts
        /\ Cardinality(UnspentFrom(a)) \in Nat /\ Cardinality(UnspentFrom(a)') \in Nat
    BY <1>1, CountedAreFinite DEF UnspentFrom
  <2>2. Cardinality(UnspentFrom(a)') <= Cardinality(UnspentFrom(a))
    BY <2>1, NoneEnters
  <2>3. Cardinality(UnspentFrom(a)) <= rows.by[a] BY <1>3 DEF Counted
  <2> QED BY <2>1, <2>2, <2>3 DEF TypeOK, Counts
<1> QED BY <1>1, <1>2, <1>3 DEF Counted, TypeOK, Counts

\* An attempt that is noted was allowed, and counts for its address and email.
LEMMA NoteCounts ==
  ASSUME IInv, NEW p \in Attempts, Note(p),
         NEW a \in Addresses, a = attempt[p].from
  PROVE  Counted'
<1> USE DEF IInv
<1>1. /\ attempt[p].stage = "noting" /\ Allowed(rows, a)
      /\ rows' = Reserve(rows, a)
      /\ attempt' = [attempt EXCEPT ![p].stage = "checking"]
  BY DEF Note, To, Placed, Locked
<1>2. /\ rows'.email = rows.email + 1 /\ rows'.by[a] = rows.by[a] + 1
      /\ \A b \in Addresses : b # a => rows'.by[b] = rows.by[b]
  BY <1>1 DEF Reserve, TypeOK, Counts
<1>3. \A x \in Attempts : /\ attempt'[x].from = attempt[x].from
                          /\ x # p => attempt'[x].stage = attempt[x].stage
                          /\ attempt'[p].stage = "checking"
  BY <1>1 DEF TypeOK
<1>4. /\ Unspent \in SUBSET Attempts /\ Unspent' \in SUBSET (Unspent \cup {p})
      /\ Unspent' \in SUBSET Attempts
  BY <1>3 DEF Unspent
<1>5. /\ Cardinality(Unspent) \in Nat /\ Cardinality(Unspent') \in Nat
      /\ Cardinality(Unspent') <= Cardinality(Unspent) + 1
  BY <1>4, CountedAreFinite, OneEnters
<1>6. SignedIn' = SignedIn BY <1>1, <1>3 DEF SignedIn
<1>7. ASSUME NEW b \in Addresses, \A q \in SignedIn' : attempt'[q].from # b
      PROVE  Cardinality(UnspentFrom(b)') <= rows'.by[b]
  <2>1. /\ UnspentFrom(b) \in SUBSET Attempts /\ UnspentFrom(b)' \in SUBSET Attempts
        /\ Cardinality(UnspentFrom(b)) \in Nat /\ Cardinality(UnspentFrom(b)') \in Nat
    BY <1>4, CountedAreFinite DEF UnspentFrom
  <2>2. Cardinality(UnspentFrom(b)) <= rows.by[b]
    BY <1>3, <1>6, <1>7 DEF Counted, SignedIn
  <2>3. CASE b = a
    <3>1. UnspentFrom(b)' \in SUBSET (UnspentFrom(b) \cup {p})
      BY <1>3, <1>4 DEF UnspentFrom
    <3>2. Cardinality(UnspentFrom(b)') <= Cardinality(UnspentFrom(b)) + 1
      BY <2>1, <3>1, OneEnters
    <3> QED BY <1>2, <2>1, <2>2, <2>3, <3>2 DEF TypeOK, Counts
  <2>4. CASE b # a
    <3>1. UnspentFrom(b)' \in SUBSET UnspentFrom(b)
      BY <1>3, <1>4, <2>4 DEF UnspentFrom
    <3>2. Cardinality(UnspentFrom(b)') <= Cardinality(UnspentFrom(b))
      BY <2>1, <3>1, NoneEnters
    <3> QED BY <1>2, <2>1, <2>2, <2>4, <3>2 DEF TypeOK, Counts
  <2> QED BY <2>3, <2>4
<1>8. /\ Cardinality(Unspent') <= rows'.email /\ rows'.email <= EmailLimit
      /\ \A b \in Addresses : rows'.by[b] <= PairLimit
  BY <1>1, <1>2, <1>5, SignInAssumption DEF Counted, Allowed, TypeOK, Counts
<1> QED BY <1>7, <1>8 DEF Counted

\* A sign-in takes itself out of the count, and nobody else.
LEMMA SignInUncounts ==
  ASSUME IInv, NEW p \in Attempts, CommitSignIn(p),
         NEW a \in Addresses, a = attempt[p].from
  PROVE  Counted'
<1> USE DEF IInv
<1>1. /\ attempt[p].stage = "commit"
      /\ rows' = Forget(rows, a)
      /\ attempt' = [attempt EXCEPT ![p] = Ended(@, "in")]
  BY DEF CommitSignIn, Finish, Placed
<1>2. /\ rows.email # 0 => rows'.email = rows.email - 1
      /\ rows'.email <= rows.email /\ rows'.by[a] = 0
      /\ \A b \in Addresses : b # a => rows'.by[b] = rows.by[b]
  BY <1>1 DEF Forget, Less, TypeOK, Counts
<1>3. /\ attempt'[p].stage = "in"
      /\ \A x \in Attempts : /\ attempt'[x].from = attempt[x].from
                             /\ x # p => attempt'[x] = attempt[x]
  BY <1>1 DEF TypeOK, Ended, New
<1>4. /\ Unspent \in SUBSET Attempts /\ p \in Unspent /\ Unspent' \in SUBSET (Unspent \ {p})
      /\ Unspent' \in SUBSET Attempts
  BY <1>1, <1>3 DEF Unspent
<1>5. /\ Cardinality(Unspent) \in Nat /\ Cardinality(Unspent') \in Nat
      /\ Cardinality(Unspent') + 1 <= Cardinality(Unspent)
  BY <1>4, CountedAreFinite, OneLeaves
<1>6. p \in SignedIn' /\ SignedIn \subseteq SignedIn' BY <1>1, <1>3 DEF SignedIn
<1>7. ASSUME NEW b \in Addresses, \A q \in SignedIn' : attempt'[q].from # b
      PROVE  Cardinality(UnspentFrom(b)') <= rows'.by[b]
  <2>1. b # a BY <1>3, <1>6, <1>7
  <2>2. /\ UnspentFrom(b) \in SUBSET Attempts
        /\ UnspentFrom(b)' \in SUBSET UnspentFrom(b)
    BY <1>3, <1>4 DEF UnspentFrom
  <2>3. Cardinality(UnspentFrom(b)') <= Cardinality(UnspentFrom(b))
    BY <2>2, NoneEnters
  <2>4. Cardinality(UnspentFrom(b)) <= rows.by[b]
    BY <1>3, <1>6, <1>7 DEF Counted, SignedIn
  <2>5. Cardinality(UnspentFrom(b)) \in Nat /\ Cardinality(UnspentFrom(b)') \in Nat
    BY <2>2, CountedAreFinite
  <2> QED BY <1>2, <2>1, <2>3, <2>4, <2>5 DEF TypeOK, Counts
<1>8. rows.email \in Nat /\ rows'.email \in Int BY <1>1 DEF TypeOK, Counts, Forget, Less
<1>9. Cardinality(Unspent') <= rows'.email /\ rows'.email <= EmailLimit
  BY <1>2, <1>5, <1>8, SignInAssumption DEF Counted
<1>10. \A b \in Addresses : rows'.by[b] <= PairLimit
  BY <1>1, <1>2, SignInAssumption DEF Counted, TypeOK, Counts
<1> QED BY <1>7, <1>9, <1>10 DEF Counted

-----------------------------------------------------------------------------
(* The codes. *)

\* A code that is spent is not good again, nor does any other become good.
LEMMA SpentStaysSpent ==
  ASSUME NEW k \in Credentials, NEW c \in Codes, Fits(k, c)
  PROVE  /\ Spent(k, c) \in Credentials /\ Spent(k, c).on = k.on
         /\ ~Fits(Spent(k, c), c)
         /\ \A d \in Codes : ~Fits(k, d) => ~Fits(Spent(k, c), d)
<1>1. c.n \in Nat /\ \A d \in Codes : d.n \in Nat BY SignInAssumption
<1>2. CASE c.kind = "totp"
  <2>1. Spent(k, c) = [k EXCEPT !.step = c.n] BY <1>2 DEF Spent
  <2> QED BY <1>1, <1>2, <2>1 DEF Fits, Credentials
<1>3. CASE c.kind # "totp"
  <2>1. Spent(k, c) = [k EXCEPT !.unused = @ \ {c.n}] BY <1>3 DEF Spent
  <2> QED BY <1>1, <1>3, <2>1 DEF Fits, Credentials
<1> QED BY <1>2, <1>3

-----------------------------------------------------------------------------
(* The invariant, kept by every step. *)

LEMMA InitIsCounted ==
  ASSUME Init PROVE IInv
<1>1. TypeOK
  <2>1. Recovery \in SUBSET Nat BY SignInAssumption DEF Recovery
  <2>2. New.stage = "new" /\ New \in
          [stage : Stages, at : Replicas \cup {None}, from : Addresses \cup {None},
           code : Codes \cup {None}, seen : Credentials \cup {None},
           closes : SUBSET Attempts]
    BY DEF New, Stages
  <2>3. rows \in Counts BY DEF Init, Counts, Fresh
  <2>4. credential \in Credentials
    <3>1. PICK k \in [on : BOOLEAN, step : {0}, unused : {Recovery}] : credential = k
      BY DEF Init
    <3>2. k.on \in BOOLEAN /\ k.step = 0 /\ k.unused \in SUBSET Nat BY <2>1, <3>1
    <3>3. k = [on |-> k.on, step |-> k.step, unused |-> k.unused] BY <3>1
    <3> QED BY <3>1, <3>2, <3>3 DEF Credentials
  <2> QED BY <2>2, <2>3, <2>4 DEF Init, TypeOK
<1>2. Unspent = {} /\ SignedIn = {} /\ \A a \in Addresses : UnspentFrom(a) = {}
  BY DEF Init, Unspent, UnspentFrom, SignedIn, New
<1>3. /\ Cardinality(Unspent) = 0
      /\ \A a \in Addresses : Cardinality(UnspentFrom(a)) = 0
  BY <1>2, FS_EmptySet
<1>4. Counted BY <1>3, SignInAssumption DEF Counted, Init, Fresh
<1>5. Placed /\ Locked /\ CodeHeld BY DEF Init, New, Placed, Locked, CodeHeld, Right
<1>6. CodeSignsInOnce BY <1>2 DEF CodeSignsInOnce
<1>7. Capped BY FS_EmptySet, SignInAssumption DEF Capped, SessionsWithinCap, Init, New
<1> QED BY <1>1, <1>4, <1>5, <1>6, <1>7 DEF IInv

\* An attempt that goes on, or ends, without counting anything, and takes no
\* lock it is not given.
LEMMA QuietStep ==
  ASSUME IInv, NEW p \in Attempts, UNCHANGED <<rows, credential, sessions>>,
         NEW q \in [stage : Stages, at : Replicas \cup {None},
                    from : Addresses \cup {None}, code : Codes \cup {None},
                    seen : Credentials \cup {None},
                    closes : SUBSET Attempts],
         attempt' = [attempt EXCEPT ![p] = q],
         q.stage # "in", attempt[p].stage # "in",
         p \in Unspent' => p \in Unspent /\ q.from = attempt[p].from,
         q.stage \notin {"new", "refused", "failed"} => q.from \in Addresses,
         q.stage \in {"noting", "opening", "commit"} => lock' = p,
         q.stage = "noting" => Allowed(rows, q.from),
         \A x \in Attempts \ {p} : lock = x => lock' = x,
         q.stage = "new" => q.code = None,
         ~credential.on => q.code = None /\ q.stage # "spending",
         credential.on /\ q.stage \in Right =>
           row' = p /\ q.code \in Codes /\ Fits(credential, q.code),
         \A x \in Attempts \ {p} : row = x => row' = x,
         q.stage = "commit" => Cardinality(sessions \ q.closes) <= MaxSessions - 1
  PROVE  IInv'
<1> USE DEF IInv
<1>1. attempt'[p] = q /\ \A x \in Attempts \ {p} : attempt'[x] = attempt[x]
  BY DEF TypeOK
<1>2. TypeOK' BY DEF TypeOK
<1>3. Placed' BY <1>1 DEF Placed
<1>4. Locked' BY <1>1 DEF Locked, Allowed
<1>5. \A x \in Unspent' : x \in Unspent /\ attempt'[x].from = attempt[x].from
  BY <1>1 DEF Unspent
<1>6. SignedIn' = SignedIn /\ \A x \in SignedIn : attempt'[x] = attempt[x]
  BY <1>1 DEF SignedIn
<1>7. Counted' BY <1>5, <1>6, CountStays
<1>8. CodeHeld' BY <1>1 DEF CodeHeld
<1>9. CodeSignsInOnce' BY <1>6 DEF CodeSignsInOnce
<1>10. Capped' BY <1>1 DEF Capped, SessionsWithinCap
<1> QED BY <1>2, <1>3, <1>4, <1>7, <1>8, <1>9, <1>10

\* Every step keeps the invariant.
LEMMA StepKeepsCount ==
  ASSUME IInv, [Next]_vars PROVE IInv'
<1> USE DEF IInv
<1> DEFINE Known == [stage : Stages, at : Replicas \cup {None},
                     from : Addresses \cup {None}, code : Codes \cup {None},
                     seen : Credentials \cup {None},
                     closes : SUBSET Attempts]
<1>0. \A p \in Attempts : attempt[p] \in Known BY DEF TypeOK
<1> HIDE DEF Known
<1>1. ASSUME NEW p \in Attempts, NEW r \in Replicas, NEW a \in Addresses, Arrive(p, r, a)
      PROVE  IInv'
  <2>1. /\ attempt[p].stage = "new" /\ attempt[p].code = None /\ attempt[p] \in Known
        /\ UNCHANGED <<rows, credential, sessions, lock, row>>
    BY <1>0, <1>1 DEF Arrive, CodeHeld
  <2>2. CASE Allowed(memory[r], a)
    <3> DEFINE q == [attempt[p] EXCEPT !.stage = "counting", !.at = r, !.from = a]
    <3>1. attempt' = [attempt EXCEPT ![p] = q] BY <1>1, <2>2 DEF Arrive
    <3>2. q \in Known /\ q.stage = "counting" /\ q.from = a /\ q.code = None
      BY <2>1 DEF Known, Stages
    <3> HIDE DEF q
    <3>3. p \notin Unspent' BY <3>1, <3>2 DEF Unspent, TypeOK
    <3> QED BY <2>1, <3>1, <3>2, <3>3, QuietStep DEF Known, Right
  <2>3. CASE ~Allowed(memory[r], a)
    <3> DEFINE q == Ended(attempt[p], "refused")
    <3>1. attempt' = [attempt EXCEPT ![p] = q]
      BY <1>1, <2>3 DEF Arrive, Finish
    <3>2. q \in Known /\ q.stage = "refused" /\ q.code = None
      BY <2>1 DEF Known, Stages, Ended, New
    <3> HIDE DEF q
    <3>3. p \notin Unspent' BY <3>1, <3>2 DEF Unspent, TypeOK
    <3> QED BY <2>1, <3>1, <3>2, <3>3, QuietStep DEF Known, Right
  <2> QED BY <2>2, <2>3
<1>2. ASSUME NEW p \in Attempts, Count(p) PROVE IInv'
  <2>1. /\ attempt[p].stage = "counting" /\ attempt[p] \in Known
        /\ attempt[p].from \in Addresses
        /\ lock \in {None, p} /\ UNCHANGED <<rows, credential, sessions, row>>
    BY <1>0, <1>2 DEF Count, LockIsFree, Placed
  <2>2. CASE Allowed(rows, attempt[p].from)
    <3> DEFINE q == [attempt[p] EXCEPT !.stage = "noting"]
    <3>1. lock' = p /\ attempt' = [attempt EXCEPT ![p] = q]
      BY <1>2, <2>2 DEF Count, To
    <3>2. /\ q \in Known /\ q.stage = "noting" /\ q.from = attempt[p].from
          /\ q.code = attempt[p].code
      BY <2>1 DEF Known, Stages
    <3> HIDE DEF q
    <3>3. p \notin Unspent' BY <3>1, <3>2 DEF Unspent, TypeOK
    <3>4. /\ \A x \in Attempts \ {p} : (lock = x => lock' = x) /\ (row = x => row' = x)
          /\ attempt[p].stage # "in" /\ q.stage \notin Right
      BY <2>1, <3>2, SignInAssumption DEF Right
    <3>5. ~credential.on => q.code = None BY <3>2 DEF CodeHeld
    <3> QED BY <2>1, <2>2, <3>1, <3>2, <3>3, <3>4, <3>5, QuietStep DEF Known
  <2>3. CASE ~Allowed(rows, attempt[p].from)
    <3> DEFINE q == Ended(attempt[p], "refused")
    <3>1. lock' = lock /\ attempt' = [attempt EXCEPT ![p] = q]
      BY <1>2, <2>3 DEF Count, Finish
    <3>2. q \in Known /\ q.stage = "refused" /\ q.code = attempt[p].code
      BY <2>1 DEF Known, Stages, Ended, New
    <3> HIDE DEF q
    <3>3. p \notin Unspent' BY <3>1, <3>2 DEF Unspent, TypeOK
    <3> QED BY <2>1, <3>1, <3>2, <3>3, QuietStep DEF Known, Right, CodeHeld
  <2> QED BY <2>2, <2>3
<1>3. ASSUME NEW p \in Attempts, Note(p) PROVE IInv'
  <2>1. /\ attempt[p].stage = "noting" /\ attempt[p].from \in Addresses /\ lock = p
        /\ attempt' = [attempt EXCEPT ![p].stage = "checking"]
        /\ rows' = Reserve(rows, attempt[p].from)
        /\ credential' = credential /\ sessions' = sessions
        /\ row' = IF row = p THEN None ELSE row
    BY <1>3 DEF Note, Placed, Locked, To, LetGo
  <2>2. /\ attempt'[p].stage = "checking" /\ attempt'[p].from = attempt[p].from
        /\ attempt'[p].code = attempt[p].code
        /\ \A x \in Attempts \ {p} : attempt'[x] = attempt[x] /\ lock # x
    BY <2>1 DEF TypeOK
  <2>3. rows' \in Counts
    <3>1. rows' = [by |-> [rows.by EXCEPT ![attempt[p].from] = @ + 1],
                   email |-> rows.email + 1]
      BY <2>1 DEF Reserve, TypeOK, Counts
    <3> QED BY <2>1, <3>1 DEF TypeOK, Counts
  <2>4. TypeOK' BY <2>1, <2>3 DEF TypeOK, Stages
  <2>5. Placed' BY <2>1, <2>2 DEF Placed
  <2>6. Locked' BY <2>2 DEF Locked
  <2>7. Counted' BY <1>3, <2>1, NoteCounts
  <2>8. CodeHeld' BY <2>1, <2>2 DEF CodeHeld, Right
  <2>9. CodeSignsInOnce' BY <2>1, <2>2 DEF CodeSignsInOnce, SignedIn
  <2>10. Capped'
    <3>1. sessions' = sessions BY <1>3 DEF Note
    <3> QED BY <2>2, <3>1 DEF Capped, SessionsWithinCap
  <2> QED BY <2>4, <2>5, <2>6, <2>7, <2>8, <2>9, <2>10
<1>4. ASSUME NEW p \in Attempts, Reject(p) PROVE IInv'
  <2> DEFINE q == Ended(attempt[p], "wrong")
  <2>1. /\ attempt[p].stage = "checking" /\ attempt[p] \in Known
        /\ attempt[p].from \in Addresses /\ p \in Unspent
        /\ attempt' = [attempt EXCEPT ![p] = q]
        /\ UNCHANGED <<rows, credential, sessions, lock, row>>
    BY <1>0, <1>4 DEF Reject, Finish, Placed, Unspent
  <2>2. q \in Known /\ q.stage = "wrong" /\ q.code = attempt[p].code /\ q.from = attempt[p].from
    BY <2>1 DEF Known, Stages, Ended, New
  <2> HIDE DEF q
  <2> QED BY <2>1, <2>2, QuietStep DEF Known, Right, CodeHeld
<1>5. ASSUME NEW p \in Attempts, Accept(p) PROVE IInv'
  <2> DEFINE q == [attempt[p] EXCEPT !.stage = "forgetting"]
  <2>1. /\ attempt[p].stage = "checking" /\ attempt[p] \in Known /\ ~credential.on
        /\ attempt[p].from \in Addresses /\ p \in Unspent
        /\ attempt' = [attempt EXCEPT ![p] = q]
        /\ UNCHANGED <<rows, credential, sessions, lock, row>>
    BY <1>0, <1>5 DEF Accept, To, Placed, Unspent
  <2>2. q \in Known /\ q.stage = "forgetting" /\ q.code = attempt[p].code /\ q.from = attempt[p].from
    BY <2>1 DEF Known, Stages
  <2> HIDE DEF q
  <2> QED BY <2>1, <2>2, QuietStep DEF Known, CodeHeld
<1>6. ASSUME NEW p \in Attempts, NEW c \in Codes, ReadCode(p, c) PROVE IInv'
  <2>1. /\ attempt[p].stage = "checking" /\ attempt[p] \in Known /\ credential.on
        /\ attempt[p].from \in Addresses /\ p \in Unspent /\ row = None
        /\ UNCHANGED <<rows, credential, sessions, lock>>
        /\ credential \in Credentials
    BY <1>0, <1>6 DEF ReadCode, Placed, Unspent, TypeOK
  <2>2. \A x \in Attempts : row # x BY <2>1, SignInAssumption
  <2>3. CASE Fits(credential, c)
    <3> DEFINE q == [attempt[p] EXCEPT !.stage = "spending", !.code = c, !.seen = credential]
    <3>1. row' = p /\ attempt' = [attempt EXCEPT ![p] = q] BY <1>6, <2>3 DEF ReadCode
    <3>2. q \in Known /\ q.stage = "spending" /\ q.code = c /\ q.from = attempt[p].from
      BY <2>1 DEF Known, Stages
    <3> HIDE DEF q
    <3> QED BY <2>1, <2>2, <2>3, <3>1, <3>2, QuietStep DEF Known
  <2>4. CASE ~Fits(credential, c)
    <3> DEFINE q == Ended(attempt[p], "wrong")
    <3>1. row' = row /\ attempt' = [attempt EXCEPT ![p] = q]
      BY <1>6, <2>4 DEF ReadCode, Finish
    <3>2. q \in Known /\ q.stage = "wrong" /\ q.code = attempt[p].code
          /\ q.from = attempt[p].from
      BY <2>1 DEF Known, Stages, Ended, New
    <3> HIDE DEF q
    <3> QED BY <2>1, <3>1, <3>2, QuietStep DEF Known, Right
  <2> QED BY <2>3, <2>4
<1>7. ASSUME NEW p \in Attempts, SpendCode(p) PROVE IInv'
  <2>1. /\ attempt[p].stage = "spending" /\ attempt[p] \in Known /\ credential.on
        /\ attempt[p].from \in Addresses /\ p \in Unspent /\ row = p
        /\ attempt[p].code \in Codes /\ Fits(credential, attempt[p].code)
        /\ UNCHANGED <<rows, credential, sessions, lock>>
    BY <1>0, <1>7 DEF SpendCode, Placed, Unspent, CodeHeld, Right
  <2>2. CASE StillAsSeen(p)
    <3> DEFINE q == [attempt[p] EXCEPT !.stage = "forgetting"]
    <3>1. row' = row /\ attempt' = [attempt EXCEPT ![p] = q]
      BY <1>7, <2>2 DEF SpendCode, To
    <3>2. q \in Known /\ q.stage = "forgetting" /\ q.code = attempt[p].code
          /\ q.from = attempt[p].from
      BY <2>1 DEF Known, Stages
    <3> HIDE DEF q
    <3> QED BY <2>1, <3>1, <3>2, QuietStep DEF Known
  <2>3. CASE ~StillAsSeen(p)
    <3> DEFINE q == Ended(attempt[p], "wrong")
    <3>1. attempt' = [attempt EXCEPT ![p] = q] BY <1>7, <2>3 DEF SpendCode, Finish
    <3>2. q \in Known /\ q.stage = "wrong" /\ q.code = attempt[p].code
          /\ q.from = attempt[p].from
      BY <2>1 DEF Known, Stages, Ended, New
    <3> HIDE DEF q
    <3> QED BY <2>1, <3>1, <3>2, QuietStep DEF Known, Right
  <2> QED BY <2>2, <2>3
<1>8. ASSUME NEW p \in Attempts, ForgetIt(p) PROVE IInv'
  <2> DEFINE q == [attempt[p] EXCEPT !.stage = "clearing"]
  <2>1. /\ attempt[p].stage = "forgetting" /\ attempt[p] \in Known
        /\ attempt[p].from \in Addresses /\ p \in Unspent
        /\ attempt' = [attempt EXCEPT ![p] = q]
        /\ UNCHANGED <<rows, credential, sessions, lock, row>>
    BY <1>0, <1>8 DEF ForgetIt, To, Placed, Unspent
  <2>2. q \in Known /\ q.stage = "clearing" /\ q.code = attempt[p].code /\ q.from = attempt[p].from
    BY <2>1 DEF Known, Stages
  <2> HIDE DEF q
  <2> QED BY <2>1, <2>2, QuietStep DEF Known, CodeHeld, Right
<1>9. ASSUME NEW p \in Attempts, Clear(p) PROVE IInv'
  <2> DEFINE q == [attempt[p] EXCEPT !.stage = "opening"]
  <2>1. /\ attempt[p].stage = "clearing" /\ attempt[p] \in Known
        /\ attempt[p].from \in Addresses /\ p \in Unspent
        /\ attempt' = [attempt EXCEPT ![p] = q]
        /\ lock \in {None, p} /\ lock' = p
        /\ UNCHANGED <<rows, credential, sessions, row>>
    BY <1>0, <1>9 DEF Clear, LockIsFree, To, Placed, Unspent
  <2>2. q \in Known /\ q.stage = "opening" /\ q.code = attempt[p].code /\ q.from = attempt[p].from
    BY <2>1 DEF Known, Stages
  <2>3. \A x \in Attempts \ {p} : lock # x BY <2>1, SignInAssumption
  <2> HIDE DEF q
  <2> QED BY <2>1, <2>2, <2>3, QuietStep DEF Known, CodeHeld, Right
<1>10. ASSUME NEW p \in Attempts, NEW cookie \in sessions \cup {None},
              OpenSession(p, cookie)
       PROVE  IInv'
  <2>1. /\ attempt[p].stage = "opening" /\ attempt[p] \in Known /\ lock = p
        /\ attempt[p].from \in Addresses /\ p \in Unspent
        /\ UNCHANGED <<rows, credential, sessions, lock, row>>
    BY <1>0, <1>10 DEF OpenSession, Locked, Placed, Unspent
  <2>2. PICK kept \in Kept(sessions \ {cookie}) :
          attempt' = [attempt EXCEPT ![p].stage = "commit", ![p].closes = sessions \ kept]
    BY <1>10 DEF OpenSession
  <2> DEFINE q == [attempt[p] EXCEPT !.stage = "commit", !.closes = sessions \ kept]
  <2>3. Cardinality(sessions \ (sessions \ kept)) <= MaxSessions - 1
    <3>1. kept \subseteq sessions /\ kept \in SUBSET Attempts
      BY <2>2 DEF Kept, TypeOK
    <3>2. sessions \ (sessions \ kept) = kept BY <3>1
    <3>3. sessions \ {cookie} \in SUBSET Attempts BY DEF TypeOK
    <3>4. Cardinality(kept) = Least(MaxSessions - 1, Cardinality(sessions \ {cookie}))
      BY <2>2 DEF Kept
    <3>5. Cardinality(sessions \ {cookie}) \in Nat BY <3>3, CountedAreFinite
    <3>6. Cardinality(kept) <= MaxSessions - 1
      BY <3>4, <3>5, SignInAssumption DEF Least
    <3> QED BY <3>2, <3>6
  <2>4. attempt' = [attempt EXCEPT ![p] = q] BY <2>2
  <2>5. /\ q \in Known /\ q.stage = "commit" /\ q.code = attempt[p].code
        /\ q.from = attempt[p].from /\ q.closes = sessions \ kept
    BY <2>1 DEF Known, Stages, TypeOK
  <2> HIDE DEF q
  <2> QED BY <2>1, <2>3, <2>4, <2>5, QuietStep DEF Known, CodeHeld, Right
<1>11. ASSUME NEW p \in Attempts, CommitSignIn(p) PROVE IInv'
  <2>1. /\ attempt[p].stage = "commit" /\ attempt[p] \in Known
        /\ attempt[p].from \in Addresses /\ lock = p
        /\ attempt' = [attempt EXCEPT ![p] = Ended(@, "in")]
        /\ sessions' = (sessions \ attempt[p].closes) \cup {p}
        /\ rows' = Forget(rows, attempt[p].from)
    BY <1>0, <1>11 DEF CommitSignIn, Placed, Locked, Finish
  <2>2. /\ attempt'[p].stage = "in" /\ attempt'[p].code = attempt[p].code
        /\ attempt'[p].from = attempt[p].from
        /\ \A x \in Attempts \ {p} :
             /\ attempt'[x] = attempt[x] /\ lock # x
             /\ attempt[x].stage \notin {"noting", "opening", "commit"}
    BY <2>1 DEF Ended, New, TypeOK, Locked
  <2>3. rows' \in Counts
    <3>1. rows' = [by |-> [rows.by EXCEPT ![attempt[p].from] = 0],
                   email |-> IF rows.email = 0 THEN 0 ELSE rows.email - 1]
      BY <2>1 DEF Forget, Less, TypeOK, Counts
    <3>2. (IF rows.email = 0 THEN 0 ELSE rows.email - 1) \in Nat BY DEF TypeOK, Counts
    <3>3. [rows.by EXCEPT ![attempt[p].from] = 0] \in [Addresses -> Nat]
      BY DEF TypeOK, Counts
    <3> QED BY <3>1, <3>2, <3>3 DEF Counts
  <2>4. /\ credential' \in Credentials /\ credential'.on = credential.on
        /\ \A x \in Attempts : attempt[x].stage = "in" /\ attempt[x].code # None =>
             ~Fits(credential', attempt[x].code)
        /\ credential.on =>
             /\ attempt[p].code \in Codes /\ Fits(credential, attempt[p].code)
             /\ ~Fits(credential', attempt[p].code) /\ row = p
             /\ \A x \in Attempts \ {p} : attempt[x].stage \notin Right
        /\ ~credential.on => attempt[p].code = None /\ credential' = credential
    <3>1. \A x \in Attempts : attempt[x].code \in Codes \cup {None} /\ credential \in Credentials
      BY DEF TypeOK
    <3>2. CASE credential.on
      <4>1. /\ credential' = Spent(credential, attempt[p].code) /\ row = p
            /\ attempt[p].code \in Codes /\ Fits(credential, attempt[p].code)
            /\ \A x \in Attempts \ {p} : attempt[x].stage \notin Right
        BY <1>11, <2>1, <3>2 DEF CommitSignIn, CodeHeld, Right
      <4> QED BY <3>1, <3>2, <4>1, SpentStaysSpent DEF CodeHeld
    <3>3. CASE ~credential.on
      <4>1. credential' = credential BY <1>11, <3>3 DEF CommitSignIn
      <4> QED BY <3>1, <3>3, <4>1 DEF CodeHeld
    <3> QED BY <3>2, <3>3
  <2>5. TypeOK'
    <3>1. Ended(attempt[p], "in") \in Known BY <2>1 DEF Known, Ended, New, Stages
    <3> QED BY <2>1, <2>3, <2>4, <3>1 DEF TypeOK, Known
  <2>6. Placed' BY <2>1, <2>2 DEF Placed
  <2>7. Locked' BY <2>2 DEF Locked
  <2>8. Counted' BY <1>11, <2>1, SignInUncounts
  <2>9. CodeHeld' BY <2>2, <2>4 DEF CodeHeld, Right
  <2>10. CodeSignsInOnce'
    <3>1. \A x \in SignedIn' : x # p => x \in SignedIn /\ attempt'[x].code = attempt[x].code
      BY <2>2 DEF SignedIn
    <3>2. \A x \in SignedIn : attempt[p].code # None => attempt[x].code # attempt[p].code
      BY <2>4 DEF SignedIn, CodeHeld
    <3> QED BY <2>2, <3>1, <3>2 DEF CodeSignsInOnce
  <2>11. Capped'
    <3>1. /\ sessions \ attempt[p].closes \in SUBSET Attempts
          /\ Cardinality(sessions \ attempt[p].closes) <= MaxSessions - 1
          /\ sessions' \in SUBSET Attempts
      BY <2>1, <2>5 DEF Capped, TypeOK
    <3>2. /\ Cardinality(sessions \ attempt[p].closes) \in Nat
          /\ Cardinality(sessions') \in Nat
      BY <3>1, CountedAreFinite
    <3>3. Cardinality(sessions') <= Cardinality(sessions \ attempt[p].closes) + 1
      BY <2>1, <3>1, OneEnters
    <3>4. Cardinality(sessions') <= MaxSessions BY <3>1, <3>2, <3>3, SignInAssumption
    <3> QED BY <2>2, <3>4 DEF Capped, SessionsWithinCap
  <2> QED BY <2>5, <2>6, <2>7, <2>8, <2>9, <2>10, <2>11
<1>12. ASSUME NEW p \in Attempts, Abort(p) PROVE IInv'
  <2> DEFINE q == Ended(attempt[p], "failed")
  <2>1. /\ attempt[p].stage \notin {"new", "in"} /\ attempt[p] \in Known
        /\ attempt' = [attempt EXCEPT ![p] = q]
        /\ lock' = IF lock = p THEN None ELSE lock
        /\ row' = IF row = p THEN None ELSE row
        /\ UNCHANGED <<rows, credential, sessions>>
    BY <1>0, <1>12 DEF Abort, UnderWay, Finish, LetGo
  <2>2. q \in Known /\ q.stage = "failed" /\ q.code = attempt[p].code
    BY <2>1 DEF Known, Stages, Ended, New
  <2>3. /\ \A x \in Attempts \ {p} : lock = x => lock' = x
        /\ \A x \in Attempts \ {p} : row = x => row' = x
    BY <2>1
  <2> HIDE DEF q
  <2>4. p \notin Unspent' BY <2>1, <2>2 DEF Unspent, TypeOK
  <2> QED BY <2>1, <2>2, <2>3, <2>4, QuietStep DEF Known, CodeHeld, Right
<1>13. ASSUME NEW r \in Replicas, Restart(r) PROVE IInv'
  <2> DEFINE dead == {p \in UnderWay : attempt[p].at = r}
  <2>1. /\ attempt' = [p \in Attempts |->
                         IF p \in dead THEN Ended(attempt[p], "failed") ELSE attempt[p]]
        /\ lock' = IF lock \in dead THEN None ELSE lock
        /\ row' = IF row \in dead THEN None ELSE row
        /\ UNCHANGED <<rows, credential, sessions>>
    BY <1>13 DEF Restart
  <2>2. \A p \in Attempts : Ended(attempt[p], "failed") \in Known
    BY <1>0 DEF Known, Ended, New, Stages
  <2>3. \A p \in Attempts :
          /\ p \in dead => /\ attempt[p].stage # "in"
                           /\ attempt'[p].stage = "failed" /\ attempt'[p].code = attempt[p].code
          /\ p \notin dead => /\ attempt'[p] = attempt[p]
                              /\ lock = p => lock' = p
                              /\ row = p => row' = p
    BY <2>1 DEF Ended, New, UnderWay
  <2> HIDE DEF dead
  <2>4. TypeOK' BY <1>0, <2>1, <2>2 DEF TypeOK, Known
  <2>5. Placed' BY <2>3 DEF Placed
  <2>6. Locked' BY <2>1, <2>3 DEF Locked, Allowed
  <2>7. Counted'
    <3>1. \A x \in Unspent' : x \in Unspent /\ attempt'[x].from = attempt[x].from
      BY <2>3 DEF Unspent
    <3>2. \A x \in SignedIn : x \in SignedIn' /\ attempt'[x].from = attempt[x].from
      BY <2>3 DEF SignedIn
    <3> QED BY <2>1, <3>1, <3>2, CountStays
  <2>8. CodeHeld' BY <2>1, <2>3 DEF CodeHeld, Right
  <2>9. CodeSignsInOnce' BY <2>3 DEF CodeSignsInOnce, SignedIn
  <2>10. Capped' BY <2>1, <2>3 DEF Capped, SessionsWithinCap
  <2> QED BY <2>4, <2>5, <2>6, <2>7, <2>8, <2>9, <2>10
<1>14. ASSUME NEW s \in sessions, End(s) PROVE IInv'
  <2>1. sessions' = sessions \ {s} /\ UNCHANGED <<rows, credential, lock, row, attempt>>
    BY <1>14 DEF End
  <2>2. ASSUME NEW C \in SUBSET Attempts
        PROVE  Cardinality(sessions' \ C) <= Cardinality(sessions \ C)
    BY <2>1, NoneEnters DEF TypeOK
  <2>3. ASSUME NEW C \in SUBSET Attempts
        PROVE  /\ Cardinality(sessions \ C) \in Nat /\ Cardinality(sessions' \ C) \in Nat
    BY <2>1, CountedAreFinite DEF TypeOK
  <2>4. Capped'
    <3>1. /\ Cardinality(sessions') <= Cardinality(sessions)
          /\ Cardinality(sessions') \in Nat /\ Cardinality(sessions) \in Nat
      BY <2>1, NoneEnters, CountedAreFinite DEF TypeOK
    <3>2. SessionsWithinCap'
      BY <3>1, SignInAssumption DEF Capped, SessionsWithinCap
    <3>3. ASSUME NEW p \in Attempts, attempt[p].stage = "commit"
          PROVE  Cardinality(sessions' \ attempt[p].closes) <= MaxSessions - 1
      <4>1. attempt[p].closes \in SUBSET Attempts BY DEF TypeOK
      <4>2. Cardinality(sessions \ attempt[p].closes) <= MaxSessions - 1
        BY <3>3 DEF Capped
      <4>3. /\ Cardinality(sessions' \ attempt[p].closes) \in Nat
            /\ Cardinality(sessions \ attempt[p].closes) \in Nat
            /\ Cardinality(sessions' \ attempt[p].closes)
                 <= Cardinality(sessions \ attempt[p].closes)
        BY <2>2, <2>3, <4>1
      <4> QED BY <4>2, <4>3, SignInAssumption
    <3> QED BY <2>1, <3>2, <3>3 DEF Capped
  <2> QED BY <2>1, <2>4 DEF TypeOK, Placed, Locked, Counted, CodeHeld, CodeSignsInOnce,
                            Unspent, UnspentFrom, SignedIn, Allowed, Right
<1>15. ASSUME UNCHANGED vars PROVE IInv'
  BY <1>15 DEF vars, TypeOK, Placed, Locked, Counted, CodeHeld, CodeSignsInOnce, Capped,
               SessionsWithinCap, Unspent, UnspentFrom, SignedIn, Allowed, Right
<1> QED
  BY <1>1, <1>2, <1>3, <1>4, <1>5, <1>6, <1>7, <1>8, <1>9, <1>10, <1>11, <1>12,
     <1>13, <1>14, <1>15 DEF Next

-----------------------------------------------------------------------------
(* The theorems. *)

\* At every moment of every execution of POST /auth/login the counts, the lock
\* of the email and the row of the credential are as the invariant says.
THEOREM SignInIsCounted == Spec => []IInv
BY InitIsCounted, StepKeepsCount, PTL DEF Spec

\* login_attempts: however many replicas and requests, the passwords tried in a
\* window stay within the limits of the pair and of the email.
THEOREM AttemptsStayWithinLimits == Spec => []LimitHolds
<1>1. ASSUME IInv PROVE LimitHolds
  <2>1. Unspent \in SUBSET Attempts /\ \A a \in Addresses : UnspentFrom(a) \in SUBSET Attempts
    BY DEF Unspent, UnspentFrom
  <2>2. /\ Cardinality(Unspent) \in Nat
        /\ \A a \in Addresses : Cardinality(UnspentFrom(a)) \in Nat
    BY <2>1, CountedAreFinite
  <2> QED BY <1>1, <2>2, SignInAssumption DEF IInv, Counted, TypeOK, Counts, LimitHolds
<1> QED BY <1>1, SignInIsCounted, PTL

\* two_factor.verify: a code of the application or of recovery signs in once.
THEOREM CodesSignInOnce == Spec => []CodeSignsInOnce
<1>1. IInv => CodeSignsInOnce BY DEF IInv
<1> QED BY <1>1, SignInIsCounted, PTL

\* account_sessions: sign-ins that overlap leave no more than max_sessions open.
THEOREM SessionsStayWithinCap == Spec => []SessionsWithinCap
<1>1. IInv => SessionsWithinCap BY DEF IInv, Capped
<1> QED BY <1>1, SignInIsCounted, PTL
=============================================================================
