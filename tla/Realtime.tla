------------------------------- MODULE Realtime -------------------------------
(***************************************************************************)
(* From a request that changes something to the screens that show it: the  *)
(* deadline of the request, the notices it publishes and that its commit   *)
(* lets go, LISTEN / NOTIFY between replicas, the queue of each open       *)
(* screen, and the browser, which reads again what it is told has changed. *)
(*                                                                         *)
(* A notice carries nothing but its subject, so it is named by the request *)
(* it tells of, and what a screen shows is the set of requests it has      *)
(* read.  Replicas restart, lose the connection they listen on, and fail   *)
(* to notify; screens lose theirs.                                         *)
(***************************************************************************)
EXTENDS Integers, FiniteSets

CONSTANTS
  Requests, Replicas, Screens,
  QueueSize,  \* notices a screen may have waiting (_QUEUE_SIZE)
  None

ASSUME RealtimeAssumption == QueueSize \in Nat \ {0} /\ None \notin Replicas

VARIABLES
  stored,     \* the requests whose work is committed
  request,
  listening,  \* replicas whose connection to the channel is up
  sending,    \* by replica, the notices its tasks are about to NOTIFY
  wire,       \* by replica, the notifications it has yet to read
  screen,
  missed      \* history: by screen, notices that will not reach it, and why below

vars == <<stored, request, listening, sending, wire, screen, missed>>

New == [stage |-> "new", at |-> None, committing |-> FALSE, wrote |-> FALSE,
        pending |-> FALSE, cut |-> FALSE, answer |-> "none"]

Off == [at |-> None, ready |-> FALSE, told |-> FALSE, queue |-> {}, shows |-> {}]

Init ==
  /\ stored = {}
  /\ request = [r \in Requests |-> New]
  /\ listening \in SUBSET Replicas
  /\ sending = [p \in Replicas |-> {}]
  /\ wire = [p \in Replicas |-> {}]
  /\ screen = [s \in Screens |-> Off]
  /\ missed = [s \in Screens |-> {}]

-----------------------------------------------------------------------------
(* A request, up to its commit. *)

Becomes(r, q) == request' = [request EXCEPT ![r] = q]
OnlyRequests == UNCHANGED <<stored, listening, sending, wire, screen, missed>>

\* A rollback drops what was written and the notices of it.
DiscardBug(q) == [q EXCEPT !.wrote = FALSE]
Discard(q) == [q EXCEPT !.wrote = FALSE, !.pending = FALSE]

Working(r) == request[r].stage = "working" /\ ~request[r].cut

Begin(r, p) ==
  /\ request[r].stage = "new"
  /\ Becomes(r, [New EXCEPT !.stage = "working", !.at = p])
  /\ OnlyRequests

\* It writes, and publishes a notice of it.
Write(r) ==
  /\ Working(r)
  /\ Becomes(r, [request[r] EXCEPT !.wrote = TRUE, !.pending = TRUE])
  /\ OnlyRequests

\* A repository that rolls back and goes on, as with a request that was a copy.
Undo(r) ==
  /\ Working(r)
  /\ Becomes(r, Discard(request[r]))
  /\ OnlyRequests

\* Any commit of the request's tasks marks it, one of another session too.
CommitAside(r) ==
  /\ Working(r)
  /\ Becomes(r, [request[r] EXCEPT !.committing = TRUE])
  /\ OnlyRequests

Commit(r) ==
  /\ Working(r)
  /\ Becomes(r, [request[r] EXCEPT !.stage = "commit", !.committing = TRUE])
  /\ OnlyRequests

\* An error, or a commit that fails: rollback, and the client is told.
Fail(r) ==
  /\ request[r].stage \in {"working", "commit"} /\ ~request[r].cut
  /\ Becomes(r, [Discard(request[r]) EXCEPT !.stage = "done", !.answer = "error"])
  /\ OnlyRequests

MayCutBug(q) == TRUE
\* Once it commits, or its answer has begun, it is waited for.
MayCut(q) == ~q.committing

\* The deadline passes: 503, and the task is cancelled.
Deadline(r) ==
  /\ request[r].stage \in {"working", "commit", "stored"}
  /\ request[r].answer = "none"
  /\ MayCut(request[r])
  /\ Becomes(r, [request[r] EXCEPT !.cut = TRUE, !.answer = "timeout"])
  /\ OnlyRequests

\* The cancelled task takes its last step: its transaction rolls back.
Unwind(r) ==
  /\ request[r].cut /\ request[r].stage \in {"working", "commit"}
  /\ Becomes(r, [Discard(request[r]) EXCEPT !.stage = "done"])
  /\ OnlyRequests

\* The database commits, whether or not somebody still waits for it.
Store(r) ==
  /\ request[r].stage = "commit"
  /\ stored' = IF request[r].wrote THEN stored \cup {r} ELSE stored
  /\ Becomes(r, [request[r] EXCEPT !.stage = "stored"])
  /\ UNCHANGED <<listening, sending, wire, screen, missed>>

-----------------------------------------------------------------------------
(* Its notices. *)

At(P) == {s \in Screens : screen[s].at \in P}
Connected == At(Replicas)
Full(s) == Cardinality(screen[s].queue) >= QueueSize

\* A notice is put in the queues of some screens, but for the full ones; some
\* never hear of it.
Hear(r, heard, deaf) ==
  /\ screen' = [s \in Screens |->
       IF s \in heard /\ ~Full(s) THEN [screen[s] EXCEPT !.queue = @ \cup {r}]
       ELSE screen[s]]
  /\ missed' = [s \in Screens |->
       IF s \in deaf \/ (s \in heard /\ Full(s)) THEN missed[s] \cup {r} ELSE missed[s]]

\* Told to the screens of its own replica alone.
HearAt(r, p) == Hear(r, At({p}), Connected \ At({p}))

Lose(R) == missed' = [s \in Screens |-> IF s \in Connected THEN missed[s] \cup R ELSE missed[s]]

\* after_commit: the notice goes to a task that notifies the others, or to the
\* screens of this replica if it does not listen.
Release(r) ==
  LET q == request[r] IN
  /\ q.stage = "stored" /\ ~q.cut
  /\ Becomes(r, [q EXCEPT !.stage = "answer", !.pending = FALSE])
  /\ IF ~q.pending THEN UNCHANGED <<sending, screen, missed>>
     ELSE IF q.at \in listening
     THEN /\ sending' = [sending EXCEPT ![q.at] = @ \cup {r}]
          /\ UNCHANGED <<screen, missed>>
     ELSE HearAt(r, q.at) /\ UNCHANGED sending
  /\ UNCHANGED <<stored, listening, wire>>

Answer(r) ==
  /\ request[r].stage = "answer"
  /\ Becomes(r, [request[r] EXCEPT !.stage = "done", !.answer = "done"])
  /\ OnlyRequests

\* The connection breaks as the commit's result travels back: an error for the
\* client, and no notice.
LoseCommit(r) ==
  /\ request[r].stage = "stored" /\ ~request[r].cut
  /\ Becomes(r, [Discard(request[r]) EXCEPT !.stage = "done", !.answer = "error"])
  /\ Lose({r})
  /\ UNCHANGED <<stored, listening, sending, wire, screen>>

\* The replicas that listen will read it, those that do not never will.
Notify(p, r) ==
  /\ r \in sending[p] /\ p \in listening
  /\ sending' = [sending EXCEPT ![p] = @ \ {r}]
  /\ wire' = [q \in Replicas |-> IF q \in listening THEN wire[q] \cup {r} ELSE wire[q]]
  /\ Hear(r, {}, Connected \ At(listening))
  /\ UNCHANGED <<stored, request, listening>>

\* It cannot be notified: the screens of this replica are told; or the error is
\* of a kind nobody handles, and nobody is.
NotifyFails(p, r) ==
  /\ r \in sending[p]
  /\ sending' = [sending EXCEPT ![p] = @ \ {r}]
  /\ HearAt(r, p) \/ (Lose({r}) /\ UNCHANGED screen)
  /\ UNCHANGED <<stored, request, listening, wire>>

Deliver(p, r) ==
  /\ r \in wire[p]
  /\ wire' = [wire EXCEPT ![p] = @ \ {r}]
  /\ Hear(r, At({p}), {})
  /\ UNCHANGED <<stored, request, listening, sending>>

\* The connection a replica listens on is lost, for good.
StopListening(p) ==
  /\ p \in listening
  /\ listening' = listening \ {p}
  /\ wire' = [wire EXCEPT ![p] = {}]
  /\ missed' = [s \in Screens |->
                  IF s \in At({p}) THEN missed[s] \cup wire[p] ELSE missed[s]]
  /\ UNCHANGED <<stored, request, sending, screen>>

\* A replica restarts, and may listen or not.  Its screens lose their
\* connection, its requests die, but for commits the database has received.
Restart(p) ==
  LET dead == {r \in Requests : request[r].at = p /\ request[r].stage # "done"} IN
  \E kept \in SUBSET {r \in dead : request[r].stage = "commit" /\ request[r].wrote} :
    /\ stored' = stored \cup kept
    /\ request' = [r \in Requests |->
         IF r \in dead THEN [Discard(request[r]) EXCEPT !.stage = "done"]
         ELSE request[r]]
    /\ \E up \in BOOLEAN :
         listening' = IF up THEN listening \cup {p} ELSE listening \ {p}
    /\ sending' = [sending EXCEPT ![p] = {}]
    /\ wire' = [wire EXCEPT ![p] = {}]
    /\ screen' = [s \in Screens |->
         IF s \in At({p}) THEN [Off EXCEPT !.shows = screen[s].shows] ELSE screen[s]]
    /\ Lose(kept \cup sending[p] \cup {r \in dead : request[r].stage = "stored"})

-----------------------------------------------------------------------------
(* A screen. *)

Shows(s, v) == screen' = [screen EXCEPT ![s] = v]
OnlyScreens == UNCHANGED <<stored, request, listening, sending, wire, missed>>

\* The queue is there before the first message says so.
Subscribe(s, p) ==
  /\ screen[s].at = None
  /\ Shows(s, [Off EXCEPT !.at = p, !.shows = screen[s].shows])
  /\ OnlyScreens

Ready(s) ==
  /\ screen[s].at # None /\ ~screen[s].ready
  /\ Shows(s, [screen[s] EXCEPT !.ready = TRUE, !.told = TRUE])
  /\ OnlyScreens

Take(s, r) ==
  /\ screen[s].ready
  /\ r \in screen[s].queue
  /\ Shows(s, [screen[s] EXCEPT !.queue = @ \ {r}, !.told = TRUE])
  /\ OnlyScreens

\* The browser reads what is committed; what it had missed, it now knows.
Fetch(s) ==
  /\ screen[s].told
  /\ Shows(s, [screen[s] EXCEPT !.told = FALSE, !.shows = stored])
  /\ missed' = [missed EXCEPT ![s] = {}]
  /\ UNCHANGED <<stored, request, listening, sending, wire>>

Disconnect(s) ==
  /\ screen[s].at # None
  /\ Shows(s, [Off EXCEPT !.shows = screen[s].shows])
  /\ OnlyScreens

Next ==
  \/ \E r \in Requests, p \in Replicas : Begin(r, p)
  \/ \E r \in Requests :
       \/ Write(r) \/ Undo(r) \/ CommitAside(r) \/ Commit(r) \/ Fail(r)
       \/ Deadline(r) \/ Unwind(r) \/ Store(r) \/ Release(r) \/ Answer(r)
       \/ LoseCommit(r)
  \/ \E p \in Replicas, r \in Requests :
       Notify(p, r) \/ NotifyFails(p, r) \/ Deliver(p, r)
  \/ \E p \in Replicas : StopListening(p) \/ Restart(p)
  \/ \E s \in Screens, p \in Replicas : Subscribe(s, p)
  \/ \E s \in Screens, r \in Requests : Take(s, r)
  \/ \E s \in Screens : Ready(s) \/ Fetch(s) \/ Disconnect(s)

Spec == Init /\ [][Next]_vars

-----------------------------------------------------------------------------
\* The notice of a change that is committed but not yet shown on a screen: it
\* is still with its request, with a task of its replica, on the wire, or in
\* the screen's queue; or the screen is about to read everything.
OnItsWay(r, s) ==
  \/ request[r].stage = "stored" /\ request[r].pending
  \/ \E p \in Replicas : r \in sending[p]
  \/ r \in wire[screen[s].at]
  \/ r \in screen[s].queue
  \/ screen[s].told \/ ~screen[s].ready

\* A notice that is out tells of a change that is committed, so reading it
\* finds it; and a connected screen that is behind will be told, unless the
\* notice was lost to a restart, to a connection, or to its own full queue.
ScreensAreTold ==
  /\ \A p \in Replicas : sending[p] \cup wire[p] \subseteq stored
  /\ \A s \in Screens :
       /\ screen[s].queue \subseteq stored
       /\ screen[s].at # None =>
            \A r \in stored \ screen[s].shows : OnItsWay(r, s) \/ r \in missed[s]

\* A client told that its request did not finish may send it again: nothing of
\* it is committed, then or later; and what is answered as done is.
DeadlineTellsTheTruth ==
  \A r \in Requests :
    /\ request[r].answer = "timeout" => r \notin stored
    /\ request[r].answer = "done" /\ request[r].wrote => r \in stored
=============================================================================
