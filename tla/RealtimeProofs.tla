---------------------------- MODULE RealtimeProofs ----------------------------
(***************************************************************************)
(* What holds from a request to the screens for any number of requests,    *)
(* replicas and screens, and any size of their queues.                     *)
(***************************************************************************)
EXTENDS Realtime, TLAPS

Request ==
  [stage : {"new", "working", "commit", "stored", "answer", "done"},
   at : Replicas \cup {None}, committing : BOOLEAN, wrote : BOOLEAN,
   pending : BOOLEAN, cut : BOOLEAN, answer : {"none", "done", "error", "timeout"}]

Screen ==
  [at : Replicas \cup {None}, ready : BOOLEAN, told : BOOLEAN,
   queue : SUBSET Requests, shows : SUBSET Requests]

TypeOK ==
  /\ stored \in SUBSET Requests
  /\ request \in [Requests -> Request]
  /\ listening \in SUBSET Replicas
  /\ sending \in [Replicas -> SUBSET Requests]
  /\ wire \in [Replicas -> SUBSET Requests]
  /\ screen \in [Screens -> Screen]
  /\ missed \in [Screens -> SUBSET Requests]

\* Only what has begun to commit is stored, and it is never cut; the notice of a
\* request is with it while its work is, and no longer.
Honest(r) ==
  LET q == request[r] IN
  /\ q.stage = "new" => ~q.wrote /\ ~q.pending
  /\ q.stage \in {"new", "working", "commit"} => r \notin stored
  /\ q.stage \in {"working", "commit", "stored"} => q.pending = q.wrote
  /\ q.stage \in {"stored", "answer"} => (q.wrote => r \in stored)
  /\ q.stage \in {"commit", "stored", "answer"} => q.committing
  /\ r \in stored => q.committing
  /\ q.answer = "timeout" => q.cut
  /\ q.cut => ~q.committing
  /\ q.answer = "done" => q.stage = "done" /\ (q.wrote => r \in stored)

\* A notice that is out is of a change that is committed.
Truthful ==
  /\ \A p \in Replicas : sending[p] \subseteq stored /\ wire[p] \subseteq stored
  /\ \A s \in Screens : screen[s].queue \subseteq stored

\* Who is behind will be told.
ToldOf(s, r) ==
  screen[s].at # None /\ r \in stored /\ r \notin screen[s].shows =>
    OnItsWay(r, s) \/ r \in missed[s]

IInv ==
  /\ TypeOK
  /\ \A r \in Requests : Honest(r)
  /\ Truthful
  /\ \A s \in Screens, r \in Requests : ToldOf(s, r)

-----------------------------------------------------------------------------
\* A step of one request that stores nothing and lets no notice go.
LEMMA RequestStep ==
  ASSUME IInv, OnlyRequests, NEW r \in Requests, NEW q \in Request, Becomes(r, q),
         Honest(r)', request[r].stage # "stored"
  PROVE  IInv'
<1> USE DEF IInv
<1>1. /\ UNCHANGED <<stored, listening, sending, wire, screen, missed>>
      /\ request' = [request EXCEPT ![r] = q]
      /\ \A x \in Requests \ {r} : request'[x] = request[x]
  BY DEF OnlyRequests, Becomes, TypeOK
<1>2. TypeOK' BY <1>1 DEF TypeOK
<1>3. \A x \in Requests : Honest(x)' BY <1>1 DEF Honest
<1>4. Truthful' BY <1>1 DEF Truthful
<1>5. ASSUME NEW s \in Screens, NEW x \in Requests PROVE ToldOf(s, x)'
  <2>1. ToldOf(s, x) OBVIOUS
  <2>2. OnItsWay(x, s) => OnItsWay(x, s)' BY <1>1 DEF OnItsWay
  <2> QED BY <1>1, <2>1, <2>2 DEF ToldOf
<1> QED BY <1>2, <1>3, <1>4, <1>5

\* A step of one screen that keeps what it was told, or its turn to read.
LEMMA ScreenStep ==
  ASSUME IInv, OnlyScreens, NEW s \in Screens, NEW v \in Screen, Shows(s, v),
         v.queue \subseteq stored,
         v.at # None => v.told \/ ~v.ready \/
           (v.at = screen[s].at /\ v.shows = screen[s].shows /\ v.queue = screen[s].queue
              /\ ~screen[s].told /\ screen[s].ready)
  PROVE  IInv'
<1> USE DEF IInv
<1>1. /\ UNCHANGED <<stored, request, listening, sending, wire, missed>>
      /\ screen' = [screen EXCEPT ![s] = v]
      /\ screen'[s] = v /\ \A x \in Screens \ {s} : screen'[x] = screen[x]
  BY DEF OnlyScreens, Shows, TypeOK
<1>2. TypeOK' BY <1>1 DEF TypeOK
<1>3. \A x \in Requests : Honest(x)' BY <1>1 DEF Honest
<1>4. Truthful' BY <1>1 DEF Truthful
<1>5. ASSUME NEW x \in Screens, NEW r \in Requests PROVE ToldOf(x, r)'
  <2>1. ToldOf(x, r) OBVIOUS
  <2>2. CASE x # s BY <1>1, <2>1, <2>2 DEF ToldOf, OnItsWay
  <2>3. CASE x = s BY <1>1, <2>1, <2>3 DEF ToldOf, OnItsWay
  <2> QED BY <2>2, <2>3
<1> QED BY <1>2, <1>3, <1>4, <1>5

\* A change that becomes known: each screen hears of it or misses it.
LEMMA HearTells ==
  ASSUME TypeOK, NEW r \in stored, NEW heard, NEW deaf, Hear(r, heard, deaf)
  PROVE  /\ screen' \in [Screens -> Screen] /\ missed' \in [Screens -> SUBSET Requests]
         /\ \A s \in Screens :
              /\ screen'[s].at = screen[s].at /\ screen'[s].shows = screen[s].shows
              /\ screen'[s].told = screen[s].told /\ screen'[s].ready = screen[s].ready
              /\ screen[s].queue \subseteq screen'[s].queue
              /\ screen'[s].queue \subseteq screen[s].queue \cup {r}
              /\ missed[s] \subseteq missed'[s]
              /\ s \in heard \cup deaf => r \in screen'[s].queue \/ r \in missed'[s]
<1>1. r \in Requests BY DEF TypeOK
<1>2. ASSUME NEW s \in Screens
      PROVE  [screen[s] EXCEPT !.queue = @ \cup {r}] \in Screen
  BY <1>1 DEF TypeOK, Screen
<1>3. screen' \in [Screens -> Screen] /\ missed' \in [Screens -> SUBSET Requests]
  BY <1>1, <1>2 DEF Hear, TypeOK
<1>4. ASSUME NEW s \in Screens
      PROVE  /\ screen'[s] = screen[s] \/ screen'[s] = [screen[s] EXCEPT !.queue = @ \cup {r}]
             /\ missed'[s] = missed[s] \/ missed'[s] = missed[s] \cup {r}
             /\ s \in heard \cup deaf =>
                  \/ screen'[s] = [screen[s] EXCEPT !.queue = @ \cup {r}]
                  \/ missed'[s] = missed[s] \cup {r}
  BY DEF Hear
<1>5. \A s \in Screens : screen[s] \in Screen BY DEF TypeOK
<1> QED BY <1>3, <1>4, <1>5 DEF Screen

\* What a request is depends on nobody else.
LEMMA OthersStayHonest ==
  ASSUME IInv, stored' = stored, NEW r \in Requests, Honest(r)',
         \A x \in Requests \ {r} : request'[x] = request[x]
  PROVE  \A x \in Requests : Honest(x)'
<1>1. ASSUME NEW x \in Requests \ {r} PROVE Honest(x)'
  <2>1. Honest(x) /\ request'[x] = request[x] BY DEF IInv
  <2> QED BY <2>1 DEF Honest
<1> QED BY <1>1

\* Notices change hands: what was on its way to a screen still is, or is missed.
LEMMA NoticesMove ==
  ASSUME IInv, TypeOK', stored' = stored, \A r \in Requests : Honest(r)', Truthful',
         \A s \in Screens :
           /\ screen'[s].at = screen[s].at /\ screen'[s].shows = screen[s].shows
           /\ missed[s] \subseteq missed'[s],
         \A s \in Screens, x \in Requests :
           screen[s].at # None /\ OnItsWay(x, s) => OnItsWay(x, s)' \/ x \in missed'[s]
  PROVE  IInv'
<1>1. ASSUME NEW s \in Screens, NEW x \in Requests PROVE ToldOf(s, x)'
  <2>1. ToldOf(s, x) BY DEF IInv
  <2> QED BY <2>1 DEF ToldOf
<1> QED BY <1>1 DEF IInv

-----------------------------------------------------------------------------
(* The invariant, kept by every step. *)

LEMMA InitTellsTheTruth ==
  ASSUME Init PROVE IInv
<1>1. New \in Request /\ Off \in Screen BY DEF New, Request, Off, Screen
<1>2. TypeOK BY <1>1 DEF Init, TypeOK
<1>3. \A r \in Requests : Honest(r) BY DEF Init, New, Honest
<1>4. Truthful BY DEF Init, Off, Truthful
<1>5. \A s \in Screens, r \in Requests : ToldOf(s, r) BY DEF Init, ToldOf
<1> QED BY <1>2, <1>3, <1>4, <1>5 DEF IInv

LEMMA StepKeepsNotices ==
  ASSUME IInv, [Next]_vars PROVE IInv'
<1> USE DEF IInv
<1>0. /\ \A r \in Requests : request[r] \in Request
      /\ \A s \in Screens : screen[s] \in Screen
  BY DEF TypeOK
<1>1. ASSUME NEW r \in Requests, NEW p \in Replicas, Begin(r, p) PROVE IInv'
  <2> DEFINE q == [New EXCEPT !.stage = "working", !.at = p]
  <2>1. Becomes(r, q) /\ OnlyRequests BY <1>1 DEF Begin
  <2>2. q \in Request /\ request[r].stage # "stored"
    BY <1>0, <1>1 DEF Begin, New, Request, Honest
  <2>3. request'[r] = q /\ stored' = stored
    BY <2>1 DEF Becomes, OnlyRequests, TypeOK
  <2>4. Honest(r)' BY <1>0, <1>1, <2>3 DEF Begin, New, Honest, Request
  <2> HIDE DEF q
  <2> QED BY <2>1, <2>2, <2>4, RequestStep
<1>2. ASSUME NEW r \in Requests, Write(r) PROVE IInv'
  <2> DEFINE q == [request[r] EXCEPT !.wrote = TRUE, !.pending = TRUE]
  <2>1. Becomes(r, q) /\ OnlyRequests BY <1>2 DEF Write
  <2>2. q \in Request /\ request[r].stage # "stored"
    BY <1>0, <1>2 DEF Write, Working, Request, Honest
  <2>3. request'[r] = q /\ stored' = stored
    BY <2>1 DEF Becomes, OnlyRequests, TypeOK
  <2>4. Honest(r)'
    <3>1. /\ q.stage = "working" /\ q.wrote = TRUE /\ q.pending = TRUE /\ q.cut = FALSE
          /\ q.answer = request[r].answer
      BY <1>0, <1>2 DEF Write, Working, Request
    <3>2. r \notin stored /\ request[r].answer # "timeout" /\ request[r].answer # "done"
      BY <1>0, <1>2 DEF Write, Working, Honest, Request
    <3> QED BY <2>3, <3>1, <3>2 DEF Honest
  <2> HIDE DEF q
  <2> QED BY <2>1, <2>2, <2>4, RequestStep
<1>3. ASSUME NEW r \in Requests, Undo(r) PROVE IInv'
  <2> DEFINE q == Discard(request[r])
  <2>1. Becomes(r, q) /\ OnlyRequests BY <1>3 DEF Undo
  <2>2. q \in Request /\ request[r].stage # "stored"
    BY <1>0, <1>3 DEF Undo, Working, Discard, Request, Honest
  <2>3. request'[r] = q /\ stored' = stored
    BY <2>1 DEF Becomes, OnlyRequests, TypeOK
  <2>4. Honest(r)' BY <1>0, <1>3, <2>3 DEF Undo, Working, Discard, Honest, Request
  <2> HIDE DEF q
  <2> QED BY <2>1, <2>2, <2>4, RequestStep
<1>4. ASSUME NEW r \in Requests, CommitAside(r) PROVE IInv'
  <2> DEFINE q == [request[r] EXCEPT !.committing = TRUE]
  <2>1. Becomes(r, q) /\ OnlyRequests BY <1>4 DEF CommitAside
  <2>2. q \in Request /\ request[r].stage # "stored"
    BY <1>0, <1>4 DEF CommitAside, Working, Request, Honest
  <2>3. request'[r] = q /\ stored' = stored
    BY <2>1 DEF Becomes, OnlyRequests, TypeOK
  <2>4. Honest(r)' BY <1>0, <1>4, <2>3 DEF CommitAside, Working, Honest, Request
  <2> HIDE DEF q
  <2> QED BY <2>1, <2>2, <2>4, RequestStep
<1>5. ASSUME NEW r \in Requests, Commit(r) PROVE IInv'
  <2> DEFINE q == [request[r] EXCEPT !.stage = "commit", !.committing = TRUE]
  <2>1. Becomes(r, q) /\ OnlyRequests BY <1>5 DEF Commit
  <2>2. q \in Request /\ request[r].stage # "stored"
    BY <1>0, <1>5 DEF Commit, Working, Request, Honest
  <2>3. request'[r] = q /\ stored' = stored
    BY <2>1 DEF Becomes, OnlyRequests, TypeOK
  <2>4. Honest(r)' BY <1>0, <1>5, <2>3 DEF Commit, Working, Honest, Request
  <2> HIDE DEF q
  <2> QED BY <2>1, <2>2, <2>4, RequestStep
<1>6. ASSUME NEW r \in Requests, Fail(r) PROVE IInv'
  <2> DEFINE q == [Discard(request[r]) EXCEPT !.stage = "done", !.answer = "error"]
  <2>1. Becomes(r, q) /\ OnlyRequests BY <1>6 DEF Fail
  <2>2. q \in Request /\ request[r].stage # "stored"
    BY <1>0, <1>6 DEF Fail, Discard, Request, Honest
  <2>3. request'[r] = q /\ stored' = stored
    BY <2>1 DEF Becomes, OnlyRequests, TypeOK
  <2>4. Honest(r)' BY <1>0, <1>6, <2>3 DEF Fail, Discard, Honest, Request
  <2> HIDE DEF q
  <2> QED BY <2>1, <2>2, <2>4, RequestStep
<1>7. ASSUME NEW r \in Requests, Deadline(r) PROVE IInv'
  <2> DEFINE q == [request[r] EXCEPT !.cut = TRUE, !.answer = "timeout"]
  <2>1. Becomes(r, q) /\ OnlyRequests BY <1>7 DEF Deadline
  <2>2. q \in Request /\ request[r].stage # "stored"
    BY <1>0, <1>7 DEF Deadline, MayCut, Request, Honest
  <2>3. request'[r] = q /\ stored' = stored
    BY <2>1 DEF Becomes, OnlyRequests, TypeOK
  <2>4. Honest(r)' BY <1>0, <1>7, <2>3 DEF Deadline, MayCut, Honest, Request
  <2> HIDE DEF q
  <2> QED BY <2>1, <2>2, <2>4, RequestStep
<1>8. ASSUME NEW r \in Requests, Unwind(r) PROVE IInv'
  <2> DEFINE q == [Discard(request[r]) EXCEPT !.stage = "done"]
  <2>1. Becomes(r, q) /\ OnlyRequests BY <1>8 DEF Unwind
  <2>2. q \in Request /\ request[r].stage # "stored"
    BY <1>0, <1>8 DEF Unwind, Discard, Request, Honest
  <2>3. request'[r] = q /\ stored' = stored
    BY <2>1 DEF Becomes, OnlyRequests, TypeOK
  <2>4. Honest(r)' BY <1>0, <1>8, <2>3 DEF Unwind, Discard, Honest, Request
  <2> HIDE DEF q
  <2> QED BY <2>1, <2>2, <2>4, RequestStep
<1>9. ASSUME NEW r \in Requests, Answer(r) PROVE IInv'
  <2> DEFINE q == [request[r] EXCEPT !.stage = "done", !.answer = "done"]
  <2>1. Becomes(r, q) /\ OnlyRequests BY <1>9 DEF Answer
  <2>2. q \in Request /\ request[r].stage # "stored"
    BY <1>0, <1>9 DEF Answer, Request, Honest
  <2>3. request'[r] = q /\ stored' = stored
    BY <2>1 DEF Becomes, OnlyRequests, TypeOK
  <2>4. Honest(r)' BY <1>0, <1>9, <2>3 DEF Answer, Honest, Request
  <2> HIDE DEF q
  <2> QED BY <2>1, <2>2, <2>4, RequestStep
<1>10. ASSUME NEW r \in Requests, Store(r) PROVE IInv'
  <2> DEFINE q == [request[r] EXCEPT !.stage = "stored"]
  <2>1. /\ request[r].stage = "commit" /\ request' = [request EXCEPT ![r] = q]
        /\ stored' = IF request[r].wrote THEN stored \cup {r} ELSE stored
        /\ UNCHANGED <<listening, sending, wire, screen, missed>>
    BY <1>10 DEF Store, Becomes
  <2>2. q \in Request BY <1>0 DEF Request
  <2>3. /\ request'[r] = q /\ q.stage = "stored" /\ q.pending = request[r].pending
        /\ \A x \in Requests \ {r} : request'[x] = request[x] /\ (x \in stored' <=> x \in stored)
        /\ stored \subseteq stored'
    BY <2>1 DEF TypeOK
  <2>4. TypeOK' BY <2>1, <2>2 DEF TypeOK
  <2>5. Honest(r)' BY <1>0, <2>1, <2>3 DEF Honest, Request
  <2>6. ASSUME NEW x \in Requests PROVE Honest(x)'
    <3>1. CASE x # r
      <4>1. Honest(x) /\ request'[x] = request[x] /\ (x \in stored' <=> x \in stored)
        BY <2>3, <3>1
      <4> QED BY <4>1 DEF Honest
    <3> QED BY <2>5, <3>1
  <2>7. Truthful' BY <2>1, <2>3 DEF Truthful
  <2>8. ASSUME NEW s \in Screens, NEW x \in Requests PROVE ToldOf(s, x)'
    <3>1. ToldOf(s, x) OBVIOUS
    <3>2. CASE x = r
      <4>1. r \in stored' /\ r \notin stored => q.pending BY <2>1, <2>3 DEF Honest
      <4>2. r \notin stored BY <2>1 DEF Honest
      <4> QED BY <2>1, <2>3, <3>2, <4>1, <4>2 DEF ToldOf, OnItsWay
    <3>3. CASE x # r BY <2>1, <2>3, <3>1, <3>3 DEF ToldOf, OnItsWay
    <3> QED BY <3>2, <3>3
  <2> QED BY <2>4, <2>6, <2>7, <2>8
<1>11. ASSUME NEW r \in Requests, Release(r) PROVE IInv'
  <2> DEFINE q == [request[r] EXCEPT !.stage = "answer", !.pending = FALSE]
  <2>1. /\ request[r].stage = "stored" /\ request' = [request EXCEPT ![r] = q]
        /\ UNCHANGED <<stored, listening, wire>>
    BY <1>11 DEF Release, Becomes
  <2>2. /\ q \in Request /\ request'[r] = q
        /\ q.stage = "answer" /\ q.wrote = request[r].wrote /\ q.cut = request[r].cut
        /\ q.committing = request[r].committing /\ q.answer = request[r].answer
        /\ request' \in [Requests -> Request]
        /\ \A x \in Requests \ {r} : request'[x] = request[x]
    BY <1>0, <2>1 DEF Request, TypeOK
  <2>3. Honest(r)'
    <3>1. Honest(r) OBVIOUS
    <3> QED BY <2>1, <2>2, <3>1 DEF Honest
  <2>4. \A x \in Requests : Honest(x)'
    BY <2>1, <2>2, <2>3, OthersStayHonest
  <2>5. CASE ~request[r].pending
    <3>1. UNCHANGED <<sending, screen, missed>> BY <1>11, <2>5 DEF Release
    <3>2. TypeOK' /\ Truthful' BY <2>1, <2>2, <3>1 DEF TypeOK, Truthful
    <3>3. \A s \in Screens, x \in Requests : OnItsWay(x, s) => OnItsWay(x, s)'
      BY <2>1, <2>2, <2>5, <3>1 DEF OnItsWay
    <3> QED BY <2>1, <2>4, <3>1, <3>2, <3>3, NoticesMove DEF TypeOK
  <2>6. CASE request[r].pending
    <3>1. r \in stored BY <2>1, <2>6 DEF Honest
    <3>2. CASE request[r].at \in listening
      <4>1. /\ sending' = [sending EXCEPT ![request[r].at] = @ \cup {r}]
            /\ UNCHANGED <<screen, missed>> /\ request[r].at \in Replicas
        BY <1>11, <2>6, <3>2 DEF Release, TypeOK
      <4>2. /\ r \in sending'[request[r].at]
            /\ \A p \in Replicas : sending[p] \subseteq sending'[p]
                                   /\ sending'[p] \subseteq sending[p] \cup {r}
        BY <4>1 DEF TypeOK
      <4>3. TypeOK' BY <2>1, <2>2, <4>1 DEF TypeOK
      <4>4. Truthful' BY <2>1, <3>1, <4>1, <4>2 DEF Truthful
      <4>5. ASSUME NEW s \in Screens, NEW x \in Requests, OnItsWay(x, s)
            PROVE  OnItsWay(x, s)'
        <5>1. CASE x = r BY <4>1, <4>2, <5>1 DEF OnItsWay
        <5>2. CASE x # r BY <2>1, <2>2, <4>1, <4>2, <4>5, <5>2 DEF OnItsWay
        <5> QED BY <5>1, <5>2
      <4> QED BY <2>1, <2>4, <4>1, <4>3, <4>4, <4>5, NoticesMove DEF TypeOK
    <3>3. CASE request[r].at \notin listening
      <4> DEFINE heard == At({request[r].at})
                 deaf == Connected \ At({request[r].at})
      <4>1. Hear(r, heard, deaf) /\ sending' = sending
        BY <1>11, <2>6, <3>3 DEF Release, HearAt
      <4>2. \A s \in Screens : screen[s].at # None => s \in heard \cup deaf
        BY <1>0 DEF At, Connected, Screen
      <4> HIDE DEF heard, deaf
      <4>3. TypeOK' BY <2>1, <2>2, <3>1, <4>1, HearTells DEF TypeOK
      <4>4. Truthful' BY <2>1, <3>1, <4>1, HearTells DEF Truthful
      <4>5. ASSUME NEW s \in Screens, NEW x \in Requests, screen[s].at # None, OnItsWay(x, s)
            PROVE  OnItsWay(x, s)' \/ x \in missed'[s]
        <5>1. CASE x = r BY <3>1, <4>1, <4>2, <4>5, <5>1, HearTells DEF OnItsWay
        <5>2. CASE x # r
          BY <2>1, <2>2, <3>1, <4>1, <4>5, <5>2, HearTells DEF OnItsWay
        <5> QED BY <5>1, <5>2
      <4> QED BY <2>1, <2>4, <3>1, <4>1, <4>3, <4>4, <4>5, HearTells, NoticesMove
    <3> QED BY <3>2, <3>3
  <2> QED BY <2>5, <2>6
<1>12. ASSUME NEW r \in Requests, LoseCommit(r) PROVE IInv'
  <2> DEFINE q == [Discard(request[r]) EXCEPT !.stage = "done", !.answer = "error"]
  <2>1. /\ request[r].stage = "stored" /\ request' = [request EXCEPT ![r] = q]
        /\ UNCHANGED <<stored, listening, sending, wire, screen>>
        /\ Lose({r})
    BY <1>12 DEF LoseCommit, Becomes
  <2>2. /\ q \in Request /\ request'[r] = q
        /\ q.stage = "done" /\ ~q.wrote /\ q.cut = request[r].cut
        /\ q.committing = request[r].committing /\ q.answer = "error"
        /\ request' \in [Requests -> Request]
        /\ \A x \in Requests \ {r} : request'[x] = request[x]
    BY <1>0, <2>1 DEF Request, TypeOK, Discard
  <2>3. Honest(r)'
    <3>1. Honest(r) OBVIOUS
    <3> QED BY <2>1, <2>2, <3>1 DEF Honest
  <2>4. \A x \in Requests : Honest(x)' BY <2>1, <2>2, <2>3, OthersStayHonest
  <2>5. /\ missed' \in [Screens -> SUBSET Requests]
        /\ \A s \in Screens : missed[s] \subseteq missed'[s]
        /\ \A s \in Screens : screen[s].at # None => r \in missed'[s]
    BY <1>0, <2>1 DEF Lose, TypeOK, Connected, At, Screen
  <2>6. TypeOK' /\ Truthful' BY <2>1, <2>2, <2>5 DEF TypeOK, Truthful
  <2>7. ASSUME NEW s \in Screens, NEW x \in Requests, screen[s].at # None, OnItsWay(x, s)
        PROVE  OnItsWay(x, s)' \/ x \in missed'[s]
    <3>1. CASE x = r BY <2>5, <2>7, <3>1
    <3>2. CASE x # r BY <2>1, <2>2, <2>7, <3>2 DEF OnItsWay
    <3> QED BY <3>1, <3>2
  <2> QED BY <2>1, <2>4, <2>5, <2>6, <2>7, NoticesMove
<1>13. ASSUME NEW p \in Replicas, NEW r \in Requests, Notify(p, r) PROVE IInv'
  <2> DEFINE deaf == Connected \ At(listening)
  <2>1. /\ r \in sending[p] /\ p \in listening
        /\ sending' = [sending EXCEPT ![p] = @ \ {r}]
        /\ wire' = [q \in Replicas |-> IF q \in listening THEN wire[q] \cup {r} ELSE wire[q]]
        /\ Hear(r, {}, deaf)
        /\ UNCHANGED <<stored, request, listening>>
    BY <1>13 DEF Notify
  <2>2. r \in stored BY <2>1 DEF Truthful
  <2>3. \A s \in Screens : screen[s].at # None /\ s \notin deaf => screen[s].at \in listening
    BY <1>0 DEF At, Connected, Screen
  <2> HIDE DEF deaf
  <2>4. TypeOK' BY <2>1, <2>2, HearTells DEF TypeOK
  <2>5. Truthful' BY <2>1, <2>2, HearTells DEF Truthful, TypeOK
  <2>6. \A x \in Requests : Honest(x)' BY <2>1 DEF Honest
  <2>7. ASSUME NEW s \in Screens, NEW x \in Requests, screen[s].at # None, OnItsWay(x, s)
        PROVE  OnItsWay(x, s)' \/ x \in missed'[s]
    <3>1. screen[s].at \in Replicas /\ screen'[s].at = screen[s].at
      BY <1>0, <2>1, <2>2, <2>7, HearTells DEF Screen
    <3>2. CASE x = r
      <4>1. CASE s \in deaf BY <2>1, <2>2, <3>2, <4>1, HearTells DEF OnItsWay
      <4>2. CASE s \notin deaf
        <5>1. r \in wire'[screen[s].at] BY <2>1, <2>3, <2>7, <3>1, <4>2
        <5> QED BY <3>1, <3>2, <5>1 DEF OnItsWay
      <4> QED BY <4>1, <4>2
    <3>3. CASE x # r
      <4>1. wire[screen[s].at] \subseteq wire'[screen[s].at] BY <2>1, <3>1
      <4>2. \A q \in Replicas : x \in sending[q] => x \in sending'[q]
        BY <2>1, <3>3 DEF TypeOK
      <4> QED BY <2>1, <2>2, <2>7, <3>1, <4>1, <4>2, HearTells DEF OnItsWay
    <3> QED BY <3>2, <3>3
  <2> QED BY <2>1, <2>2, <2>4, <2>5, <2>6, <2>7, HearTells, NoticesMove
<1>14. ASSUME NEW p \in Replicas, NEW r \in Requests, NotifyFails(p, r) PROVE IInv'
  <2>1. /\ r \in sending[p] /\ sending' = [sending EXCEPT ![p] = @ \ {r}]
        /\ UNCHANGED <<stored, request, listening, wire>>
    BY <1>14 DEF NotifyFails
  <2>2. r \in stored BY <2>1 DEF Truthful
  <2>3. \A x \in Requests : Honest(x)' BY <2>1 DEF Honest
  <2>4. /\ \A x \in Requests, q \in Replicas : x # r /\ x \in sending[q] => x \in sending'[q]
        /\ \A q \in Replicas : sending'[q] \subseteq sending[q]
        /\ sending' \in [Replicas -> SUBSET Requests]
    BY <2>1 DEF TypeOK
  <2>5. CASE HearAt(r, p)
    <3> DEFINE heard == At({p})
               deaf == Connected \ At({p})
    <3>1. Hear(r, heard, deaf) BY <2>5 DEF HearAt
    <3>2. \A s \in Screens : screen[s].at # None => s \in heard \cup deaf
      BY <1>0 DEF At, Connected, Screen
    <3> HIDE DEF heard, deaf
    <3>3. TypeOK' BY <2>1, <2>2, <2>4, <3>1, HearTells DEF TypeOK
    <3>4. Truthful' BY <2>1, <2>2, <2>4, <3>1, HearTells DEF Truthful
    <3>5. ASSUME NEW s \in Screens, NEW x \in Requests, screen[s].at # None, OnItsWay(x, s)
          PROVE  OnItsWay(x, s)' \/ x \in missed'[s]
      <4>1. CASE x = r BY <2>2, <3>1, <3>2, <3>5, <4>1, HearTells DEF OnItsWay
      <4>2. CASE x # r
        BY <2>1, <2>2, <2>4, <3>1, <3>5, <4>2, HearTells DEF OnItsWay
      <4> QED BY <4>1, <4>2
    <3> QED BY <2>1, <2>2, <2>3, <3>1, <3>3, <3>4, <3>5, HearTells, NoticesMove
  <2>6. CASE Lose({r}) /\ UNCHANGED screen
    <3>1. /\ missed' \in [Screens -> SUBSET Requests]
          /\ \A s \in Screens : missed[s] \subseteq missed'[s]
          /\ \A s \in Screens : screen[s].at # None => r \in missed'[s]
      BY <1>0, <2>6 DEF Lose, TypeOK, Connected, At, Screen
    <3>2. TypeOK' /\ Truthful' BY <2>1, <2>4, <2>6, <3>1 DEF TypeOK, Truthful
    <3>3. ASSUME NEW s \in Screens, NEW x \in Requests, screen[s].at # None, OnItsWay(x, s)
          PROVE  OnItsWay(x, s)' \/ x \in missed'[s]
      <4>1. CASE x = r BY <3>1, <3>3, <4>1
      <4>2. CASE x # r BY <2>1, <2>4, <2>6, <3>3, <4>2 DEF OnItsWay
      <4> QED BY <4>1, <4>2
    <3> QED BY <2>1, <2>3, <2>6, <3>1, <3>2, <3>3, NoticesMove
  <2> QED BY <1>14, <2>5, <2>6 DEF NotifyFails
<1>15. ASSUME NEW p \in Replicas, NEW r \in Requests, Deliver(p, r) PROVE IInv'
  <2> DEFINE heard == At({p})
  <2>1. /\ r \in wire[p] /\ wire' = [wire EXCEPT ![p] = @ \ {r}]
        /\ Hear(r, heard, {})
        /\ UNCHANGED <<stored, request, listening, sending>>
    BY <1>15 DEF Deliver
  <2>2. r \in stored BY <2>1 DEF Truthful
  <2>3. \A s \in Screens : screen[s].at = p => s \in heard BY DEF At
  <2> HIDE DEF heard
  <2>4. /\ \A q \in Replicas : q # p => wire'[q] = wire[q]
        /\ \A x \in Requests, q \in Replicas : x # r /\ x \in wire[q] => x \in wire'[q]
        /\ \A q \in Replicas : wire'[q] \subseteq wire[q]
        /\ wire' \in [Replicas -> SUBSET Requests]
    BY <2>1 DEF TypeOK
  <2>5. TypeOK' BY <2>1, <2>2, <2>4, HearTells DEF TypeOK
  <2>6. Truthful' BY <2>1, <2>2, <2>4, HearTells DEF Truthful
  <2>7. \A x \in Requests : Honest(x)' BY <2>1 DEF Honest
  <2>8. ASSUME NEW s \in Screens, NEW x \in Requests, screen[s].at # None, OnItsWay(x, s)
        PROVE  OnItsWay(x, s)' \/ x \in missed'[s]
    <3>1. screen[s].at \in Replicas /\ screen'[s].at = screen[s].at
      BY <1>0, <2>1, <2>2, <2>8, HearTells DEF Screen
    <3>2. CASE x = r /\ screen[s].at = p
      BY <2>1, <2>2, <2>3, <3>2, HearTells DEF OnItsWay
    <3>3. CASE x # r \/ screen[s].at # p
      <4>1. x \in wire[screen[s].at] => x \in wire'[screen[s].at] BY <2>4, <3>1, <3>3
      <4> QED BY <2>1, <2>2, <2>8, <3>1, <4>1, HearTells DEF OnItsWay
    <3> QED BY <3>2, <3>3
  <2> QED BY <2>1, <2>2, <2>5, <2>6, <2>7, <2>8, HearTells, NoticesMove
<1>16. ASSUME NEW p \in Replicas, StopListening(p) PROVE IInv'
  <2>1. /\ listening' = listening \ {p} /\ wire' = [wire EXCEPT ![p] = {}]
        /\ missed' = [s \in Screens |->
                        IF s \in At({p}) THEN missed[s] \cup wire[p] ELSE missed[s]]
        /\ UNCHANGED <<stored, request, sending, screen>>
    BY <1>16 DEF StopListening
  <2>2. TypeOK' BY <2>1 DEF TypeOK
  <2>3. Truthful' BY <2>1 DEF Truthful, TypeOK
  <2>4. \A x \in Requests : Honest(x)' BY <2>1 DEF Honest
  <2>5. ASSUME NEW s \in Screens, NEW x \in Requests, screen[s].at # None, OnItsWay(x, s)
        PROVE  OnItsWay(x, s)' \/ x \in missed'[s]
    <3>1. screen[s].at \in Replicas BY <1>0, <2>5 DEF Screen
    <3>2. x \in wire[screen[s].at] => x \in wire'[screen[s].at] \/ x \in missed'[s]
      BY <2>1, <3>1 DEF At, TypeOK
    <3> QED BY <2>1, <2>5, <3>2 DEF OnItsWay
  <2> QED BY <2>1, <2>2, <2>3, <2>4, <2>5, NoticesMove
<1>17. ASSUME NEW p \in Replicas, Restart(p) PROVE IInv'
  <2> DEFINE dead == {r \in Requests : request[r].at = p /\ request[r].stage # "done"}
             fate(r) == [Discard(request[r]) EXCEPT !.stage = "done"]
             off(s) == [Off EXCEPT !.shows = screen[s].shows]
  <2>1. PICK kept \in SUBSET {r \in dead : request[r].stage = "commit" /\ request[r].wrote} :
          /\ stored' = stored \cup kept
          /\ request' = [r \in Requests |-> IF r \in dead THEN fate(r) ELSE request[r]]
          /\ \E up \in BOOLEAN :
               listening' = IF up THEN listening \cup {p} ELSE listening \ {p}
          /\ sending' = [sending EXCEPT ![p] = {}]
          /\ wire' = [wire EXCEPT ![p] = {}]
          /\ screen' = [s \in Screens |-> IF s \in At({p}) THEN off(s) ELSE screen[s]]
          /\ Lose(kept \cup sending[p] \cup {r \in dead : request[r].stage = "stored"})
    BY <1>17 DEF Restart
  <2>2. ASSUME NEW r \in Requests
        PROVE  /\ fate(r) \in Request /\ fate(r).stage = "done" /\ ~fate(r).wrote
               /\ ~fate(r).pending /\ fate(r).cut = request[r].cut
               /\ fate(r).answer = request[r].answer
               /\ fate(r).committing = request[r].committing
    BY <1>0 DEF Request, Discard
  <2>3. ASSUME NEW s \in Screens
        PROVE  /\ off(s) \in Screen /\ off(s).at = None /\ off(s).queue = {}
               /\ s \in At({p}) <=> screen[s].at = p
    BY <1>0 DEF Screen, Off, At
  <2>4. \A r \in kept : r \in dead /\ request[r].stage = "commit" /\ request[r].wrote
    OBVIOUS
  <2>5. \A r \in dead : r \in Requests /\ request[r].at = p /\ request[r].stage # "done"
    OBVIOUS
  <2> HIDE DEF dead, fate, off
  <2>6. \A r \in Requests : request'[r] = IF r \in dead THEN fate(r) ELSE request[r]
    BY <2>1
  <2>7. \A s \in Screens : screen'[s] = IF screen[s].at = p THEN off(s) ELSE screen[s]
    BY <2>1, <2>3
  <2>8. /\ missed' \in [Screens -> SUBSET Requests]
        /\ \A s \in Screens : missed[s] \subseteq missed'[s]
        /\ \A s \in Screens : screen[s].at # None =>
             kept \cup sending[p] \cup {r \in dead : request[r].stage = "stored"}
               \subseteq missed'[s]
    <3>1. \A s \in Screens : screen[s].at # None => s \in Connected
      BY <1>0 DEF Connected, At, Screen
    <3> QED BY <2>1, <2>4, <2>5, <3>1 DEF Lose, TypeOK
  <2>9. TypeOK'
    <3>1. stored' \in SUBSET Requests BY <2>1, <2>4, <2>5 DEF TypeOK
    <3>2. request' \in [Requests -> Request] BY <1>0, <2>1, <2>2
    <3>3. screen' \in [Screens -> Screen] BY <1>0, <2>1, <2>3
    <3>4. listening' \in SUBSET Replicas BY <2>1 DEF TypeOK
    <3> QED BY <2>1, <2>8, <3>1, <3>2, <3>3, <3>4 DEF TypeOK
  <2>10. ASSUME NEW r \in Requests PROVE Honest(r)'
    <3>1. Honest(r) OBVIOUS
    <3>2. CASE r \in dead
      <4>1. request[r].answer # "done" BY <2>5, <3>1, <3>2 DEF Honest
      <4>2. r \in stored' => request[r].committing BY <2>1, <2>4, <3>1 DEF Honest
      <4> QED BY <2>2, <2>6, <3>1, <3>2, <4>1, <4>2 DEF Honest
    <3>3. CASE r \notin dead
      <4>1. request'[r] = request[r] /\ (r \in stored' <=> r \in stored)
        BY <2>1, <2>4, <2>6, <3>3
      <4> QED BY <3>1, <4>1 DEF Honest
    <3> QED BY <3>2, <3>3
  <2>11. Truthful'
    <3>1. \A q \in Replicas : sending'[q] \subseteq sending[q] /\ wire'[q] \subseteq wire[q]
      BY <2>1 DEF TypeOK
    <3> QED BY <2>1, <2>3, <2>7, <3>1 DEF Truthful
  <2>12. ASSUME NEW s \in Screens, NEW r \in Requests PROVE ToldOf(s, r)'
    <3>1. ToldOf(s, r) OBVIOUS
    <3>2. CASE screen[s].at = p
      <4>1. screen'[s].at = None BY <2>3, <2>7, <3>2
      <4> QED BY <4>1 DEF ToldOf
    <3>3. CASE screen[s].at # p
      <4>1. screen'[s] = screen[s] BY <2>7, <3>3
      <4>2. CASE r \in kept BY <2>8, <4>1, <4>2 DEF ToldOf
      <4>3. CASE r \notin kept
        <5>1. r \in stored' <=> r \in stored BY <2>1, <4>3
        <5>2. SUFFICES ASSUME screen[s].at # None, OnItsWay(r, s)
                       PROVE  OnItsWay(r, s)' \/ r \in missed'[s]
          BY <2>8, <3>1, <4>1, <5>1 DEF ToldOf
        <5>3. screen[s].at \in Replicas BY <1>0, <5>2 DEF Screen
        <5>4. wire'[screen[s].at] = wire[screen[s].at] BY <2>1, <3>3, <5>3 DEF TypeOK
        <5>5. CASE request[r].stage = "stored" /\ request[r].pending
          <6>1. CASE r \in dead BY <2>8, <5>2, <5>5, <6>1
          <6>2. CASE r \notin dead BY <2>6, <5>5, <6>2 DEF OnItsWay
          <6> QED BY <6>1, <6>2
        <5>6. CASE \E q \in Replicas : r \in sending[q]
          <6>1. PICK q \in Replicas : r \in sending[q] BY <5>6
          <6>2. CASE q = p BY <2>8, <5>2, <6>1, <6>2
          <6>3. CASE q # p
            <7>1. r \in sending'[q] BY <2>1, <6>1, <6>3 DEF TypeOK
            <7> QED BY <7>1 DEF OnItsWay
          <6> QED BY <6>2, <6>3
        <5>7. CASE r \in wire[screen[s].at] \/ r \in screen[s].queue
                     \/ screen[s].told \/ ~screen[s].ready
          BY <4>1, <5>4, <5>7 DEF OnItsWay
        <5> QED BY <5>2, <5>5, <5>6, <5>7 DEF OnItsWay
      <4> QED BY <4>2, <4>3
    <3> QED BY <3>2, <3>3
  <2> QED BY <2>9, <2>10, <2>11, <2>12
<1>18. ASSUME NEW s \in Screens, NEW p \in Replicas, Subscribe(s, p) PROVE IInv'
  <2> DEFINE v == [Off EXCEPT !.at = p, !.shows = screen[s].shows]
  <2>1. Shows(s, v) /\ OnlyScreens BY <1>18 DEF Subscribe
  <2>2. v \in Screen /\ v.queue = {} /\ ~v.ready BY <1>0 DEF Off, Screen
  <2> HIDE DEF v
  <2> QED BY <2>1, <2>2, ScreenStep
<1>19. ASSUME NEW s \in Screens, Ready(s) PROVE IInv'
  <2> DEFINE v == [screen[s] EXCEPT !.ready = TRUE, !.told = TRUE]
  <2>1. Shows(s, v) /\ OnlyScreens BY <1>19 DEF Ready
  <2>2. v \in Screen /\ v.queue = screen[s].queue /\ v.told BY <1>0 DEF Screen
  <2>3. v.queue \subseteq stored BY <2>2 DEF Truthful
  <2> HIDE DEF v
  <2> QED BY <2>1, <2>2, <2>3, ScreenStep
<1>20. ASSUME NEW s \in Screens, NEW r \in Requests, Take(s, r) PROVE IInv'
  <2> DEFINE v == [screen[s] EXCEPT !.queue = @ \ {r}, !.told = TRUE]
  <2>1. Shows(s, v) /\ OnlyScreens BY <1>20 DEF Take
  <2>2. v \in Screen /\ v.queue \subseteq screen[s].queue /\ v.told BY <1>0 DEF Screen
  <2>3. v.queue \subseteq stored BY <2>2 DEF Truthful
  <2> HIDE DEF v
  <2> QED BY <2>1, <2>2, <2>3, ScreenStep
<1>21. ASSUME NEW s \in Screens, Fetch(s) PROVE IInv'
  <2> DEFINE v == [screen[s] EXCEPT !.told = FALSE, !.shows = stored]
  <2>1. /\ screen' = [screen EXCEPT ![s] = v] /\ missed' = [missed EXCEPT ![s] = {}]
        /\ UNCHANGED <<stored, request, listening, sending, wire>>
    BY <1>21 DEF Fetch, Shows
  <2>2. v \in Screen /\ v.queue = screen[s].queue /\ v.shows = stored
    BY <1>0 DEF Screen, TypeOK
  <2> HIDE DEF v
  <2>3. /\ screen'[s] = v
        /\ \A x \in Screens \ {s} : screen'[x] = screen[x] /\ missed'[x] = missed[x]
    BY <2>1 DEF TypeOK
  <2>4. TypeOK' BY <2>1, <2>2 DEF TypeOK
  <2>5. \A x \in Requests : Honest(x)' BY <2>1 DEF Honest
  <2>6. Truthful' BY <2>1, <2>2, <2>3 DEF Truthful
  <2>7. ASSUME NEW x \in Screens, NEW r \in Requests PROVE ToldOf(x, r)'
    <3>1. ToldOf(x, r) OBVIOUS
    <3>2. CASE x = s BY <2>1, <2>2, <2>3, <3>2 DEF ToldOf
    <3>3. CASE x # s BY <2>1, <2>3, <3>1, <3>3 DEF ToldOf, OnItsWay
    <3> QED BY <3>2, <3>3
  <2> QED BY <2>4, <2>5, <2>6, <2>7
<1>22. ASSUME NEW s \in Screens, Disconnect(s) PROVE IInv'
  <2> DEFINE v == [Off EXCEPT !.shows = screen[s].shows]
  <2>1. Shows(s, v) /\ OnlyScreens BY <1>22 DEF Disconnect
  <2>2. v \in Screen /\ v.queue = {} /\ ~v.ready BY <1>0 DEF Off, Screen
  <2> HIDE DEF v
  <2> QED BY <2>1, <2>2, ScreenStep
<1>23. CASE UNCHANGED vars
  BY <1>23 DEF vars, TypeOK, Honest, Truthful, ToldOf, OnItsWay, Request, Screen
<1>24. ASSUME NEW r \in Requests,
              \/ Write(r) \/ Undo(r) \/ CommitAside(r) \/ Commit(r) \/ Fail(r)
              \/ Deadline(r) \/ Unwind(r) \/ Store(r) \/ Release(r) \/ Answer(r)
              \/ LoseCommit(r)
       PROVE  IInv'
  BY <1>2, <1>3, <1>4, <1>5, <1>6, <1>7, <1>8, <1>9, <1>10, <1>11, <1>12, <1>24
<1> QED
  BY <1>1, <1>13, <1>14, <1>15, <1>16, <1>17, <1>18, <1>19, <1>20, <1>21, <1>22, <1>23,
     <1>24
  DEF Next

-----------------------------------------------------------------------------
\* In every reachable state each notice of a committed change is accounted for,
\* and a request that is cut has stored nothing.
THEOREM NoticesAreKept == Spec => []IInv
<1>1. Init => IInv BY InitTellsTheTruth
<1>2. IInv /\ [Next]_vars => IInv' BY StepKeepsNotices
<1> QED BY <1>1, <1>2, PTL DEF Spec

\* No screen reads before the change it is told of is committed (notices wait
\* for after_commit), and a connected screen that is behind is told, but for a
\* notice lost to a restart, a connection or the screen's own full queue.
THEOREM NoScreenIsForgotten == Spec => []ScreensAreTold
<1>1. IInv => ScreensAreTold
  <2>1. SUFFICES ASSUME IInv PROVE ScreensAreTold OBVIOUS
  <2>2. \A s \in Screens, r \in stored : r \in Requests /\ ToldOf(s, r)
    BY <2>1 DEF IInv, TypeOK
  <2> QED BY <2>1, <2>2 DEF IInv, Truthful, ToldOf, ScreensAreTold
<1> QED BY <1>1, NoticesAreKept, PTL

\* A 503 of the deadline is never sent of a request whose work is committed,
\* then or later, and what is answered as done is stored.
THEOREM DeadlinesTellTheTruth == Spec => []DeadlineTellsTheTruth
<1>1. IInv => DeadlineTellsTheTruth BY DEF IInv, Honest, DeadlineTellsTheTruth
<1> QED BY <1>1, NoticesAreKept, PTL
=============================================================================
