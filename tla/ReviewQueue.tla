------------------------------ MODULE ReviewQueue ------------------------------
(***************************************************************************)
(* The durable queue of contract reviews (legal/review_store.py), the API  *)
(* requests that feed it (api/routers/contract_review.py), the process's   *)
(* pool of review threads (legal/review_engine.py) and the part of a       *)
(* review attempt that touches the queue (legal/review_v2.py,              *)
(* legal/review_chat.py).                                                  *)
(*                                                                         *)
(* Every function of review_store runs in one BEGIN IMMEDIATE transaction, *)
(* so it is one action here; what happens between two transactions of one  *)
(* request or attempt is where other actors interleave.                    *)
(*                                                                         *)
(* Time is kept as durations: left is lease_until - now, in ticks, and     *)
(* stops at -1 (every comparison in the code is against 0); age is         *)
(* now - updated_at of a queued row and stops one past the code's limit.   *)
(***************************************************************************)
EXTENDS Integers, Sequences, FiniteSets

CONSTANTS
  Review,      \* reviews that may be asked for, one per fingerprint (UNIQUE in legal_reviews)
  User, Owner, \* Owner[r] is created_by of review r
  Token,       \* worker tokens (uuid4): one not in use is always fresh
  NoToken,     \* the empty worker_token
  NoReview,    \* what an idle token works on
  Batch,       \* review groups whose result is saved in the payload
  LeaseTime,   \* the 600 s of a lease, in ticks
  StaleTime,   \* the 600 s after which a queued row may be queued again, in ticks
  QueueLimit, OwnLimit,  \* 8 live reviews, 2 of one user
  PoolSize,    \* max_workers of POOL
  Budget,      \* checkpoints one attempt takes before it must end (its model call budget)
  MaxWaiting,  \* bound: submissions waiting for a pool thread
  MaxCrashes   \* bound: restarts of the process

ASSUME ConstantsAssumption ==
  /\ Owner \in [Review -> User]
  /\ NoToken \notin Token
  /\ NoReview \notin Review
  /\ LeaseTime \in Nat \ {0} /\ StaleTime \in Nat
  /\ QueueLimit \in Nat /\ OwnLimit \in Nat /\ PoolSize \in Nat /\ Budget \in Nat
  /\ MaxWaiting \in Nat /\ MaxCrashes \in Nat

VARIABLES
  rows,        \* table legal_reviews
  submitting,  \* per review, requests that committed the queued row and have not called submit yet
  pool,        \* work queue of the thread pool (memory: a restart loses it)
  attempt,     \* per token, the run_review that claimed it (memory)
  crashes

vars == <<rows, submitting, pool, attempt, crashes>>

-------------------------------------------------------------------------------
(* Types *)

Status == {"absent", "queued", "running", "partial", "completed", "failed", "cancelled"}

\* errors: the groups that the last finished attempt recorded as not done (batch_errors).
Row == [status: Status, age: 0..StaleTime + 1, left: -1..LeaseTime,
        token: Token \cup {NoToken}, work: SUBSET Batch, errors: SUBSET Batch,
        decided: BOOLEAN, retryable: BOOLEAN]

\* claimed: has its token; loaded: has its copy of the payload; starting: the first guard passed
\* and the first checkpoint is next; working: between two guards; guarded: the guard passed and
\* the checkpoint is next; failing: in the except clause; marking: about to write 'failed'.
Phase == {"idle", "claimed", "loaded", "starting", "working", "guarded", "failing", "marking"}

Attempt == [pc: Phase, rid: Review \cup {NoReview}, work: SUBSET Batch, errors: SUBSET Batch,
            decided: BOOLEAN, calls: 0..Budget]

TypeOK ==
  /\ rows \in [Review -> Row]
  /\ submitting \in [Review -> Nat]
  /\ pool \in Seq(Review)
  /\ attempt \in [Token -> Attempt]
  /\ crashes \in Nat

NoRow == [status |-> "absent", age |-> 0, left |-> -1, token |-> NoToken, work |-> {},
          errors |-> {}, decided |-> FALSE, retryable |-> FALSE]

Idle == [pc |-> "idle", rid |-> NoReview, work |-> {}, errors |-> {}, decided |-> FALSE, calls |-> 0]

Init ==
  /\ rows = [r \in Review |-> NoRow]
  /\ submitting = [r \in Review |-> 0]
  /\ pool = <<>>
  /\ attempt = [t \in Token |-> Idle]
  /\ crashes = 0

-------------------------------------------------------------------------------
(* Queue limits and requests *)

\* What the limits count: queued, or running under an unexpired lease.
Live(row) == row.status = "queued" \/ (row.status = "running" /\ row.left > 0)

OtherLive(r) == {x \in Review \ {r} : Live(rows[x])}

Admits(r) ==
  /\ Cardinality(OtherLive(r)) < QueueLimit
  /\ Cardinality({x \in OtherLive(r) : Owner[x] = Owner[r]}) < OwnLimit

\* Bound of the model: submissions in flight.
RoomToSubmit(r) == submitting[r] + Len(pool) < MaxWaiting

\* start_review + create_review.  A known fingerprint returns the old row: nothing changes.
CreateReview(r) ==
  /\ rows[r].status = "absent"
  /\ Admits(r)
  /\ RoomToSubmit(r)
  /\ rows' = [rows EXCEPT ![r].status = "queued"]
  /\ submitting' = [submitting EXCEPT ![r] = @ + 1]
  /\ UNCHANGED <<pool, attempt, crashes>>

\* Mutants: a resume does not ask for decisions; a queued review counts as under way for good.
MayResumeDecided(row) ==
  /\ row.status \in {"queued", "running", "failed", "partial"}
  /\ row.status = "partial" => row.retryable
  /\ row.status = "running" => row.left <= 0
  /\ row.status = "queued" => row.age >= StaleTime

MayResumeStarted(row) ==
  /\ ~row.decided
  /\ row.status \in {"running", "failed", "partial"}
  /\ row.status = "partial" => row.retryable
  /\ row.status = "running" => row.left <= 0

\* Why queue_resume answers 409, or not.
MayResume(row) ==
  /\ ~row.decided
  /\ row.status \in {"queued", "running", "failed", "partial"}
  /\ row.status = "partial" => row.retryable
  /\ row.status = "running" => row.left <= 0
  /\ row.status = "queued" => row.age >= StaleTime

QueueResume(r) ==
  /\ MayResume(rows[r])
  /\ Admits(r)
  /\ RoomToSubmit(r)
  /\ rows' = [rows EXCEPT ![r] = [@ EXCEPT !.status = "queued", !.token = NoToken,
                                           !.left = -1, !.age = 0]]
  /\ submitting' = [submitting EXCEPT ![r] = @ + 1]
  /\ UNCHANGED <<pool, attempt, crashes>>

\* engine.submit, called by the request thread after its transaction committed.
Submit(r) ==
  /\ submitting[r] > 0
  /\ submitting' = [submitting EXCEPT ![r] = @ - 1]
  /\ pool' = Append(pool, r)
  /\ UNCHANGED <<rows, attempt, crashes>>

\* Mutant: the worker keeps its token.
CancelKeepingToken(r) ==
  /\ rows[r].status \in {"queued", "running"}
  /\ rows' = [rows EXCEPT ![r] = [@ EXCEPT !.status = "cancelled", !.left = -1, !.age = 0,
                                           !.retryable = FALSE]]
  /\ UNCHANGED <<submitting, pool, attempt, crashes>>

CancelReview(r) ==
  /\ rows[r].status \in {"queued", "running"}
  /\ rows' = [rows EXCEPT ![r] = [@ EXCEPT !.status = "cancelled", !.token = NoToken,
                                           !.left = -1, !.age = 0, !.retryable = FALSE]]
  /\ UNCHANGED <<submitting, pool, attempt, crashes>>

\* decide (or approve): any choice a person saves makes has_user_decisions true.
Decide(r) ==
  /\ rows[r].status \in {"completed", "partial"}
  /\ rows' = [rows EXCEPT ![r].decided = TRUE]
  /\ UNCHANGED <<submitting, pool, attempt, crashes>>

-------------------------------------------------------------------------------
(* The pool and the attempts *)

Busy == {t \in Token : attempt[t].pc # "idle"}

FreshToken(t) == attempt[t].pc = "idle" /\ \A r \in Review : rows[r].token # t

\* Mutants: a pool entry starts whatever is not running; a queued row past its time is skipped.
ClaimableUnlessLive(row) == row.status # "running" \/ row.left < 0

ClaimableInTime(row) ==
  \/ row.status = "queued" /\ row.age <= StaleTime
  \/ row.status = "failed"
  \/ row.status = "running" /\ row.left < 0

Claimable(row) ==
  \/ row.status \in {"queued", "failed"}
  \/ row.status = "running" /\ row.left < 0

\* A pool thread takes the oldest entry and claims the review under a new token ...
ClaimJob(t) ==
  /\ pool # <<>> /\ Cardinality(Busy) < PoolSize
  /\ FreshToken(t)
  /\ LET r == Head(pool) IN
       /\ Claimable(rows[r])
       /\ rows' = [rows EXCEPT ![r] = [@ EXCEPT !.status = "running", !.token = t,
                                                !.left = LeaseTime, !.age = 0]]
       /\ attempt' = [attempt EXCEPT ![t] = [Idle EXCEPT !.pc = "claimed", !.rid = r]]
  /\ pool' = Tail(pool)
  /\ UNCHANGED <<submitting, crashes>>

\* ... or finds nothing to claim and returns.
SkipJob ==
  /\ pool # <<>> /\ Cardinality(Busy) < PoolSize
  /\ ~Claimable(rows[Head(pool)])
  /\ pool' = Tail(pool)
  /\ UNCHANGED <<rows, submitting, attempt, crashes>>

Goto(t, phase) == attempt' = [attempt EXCEPT ![t].pc = phase]
Return(t) == attempt' = [attempt EXCEPT ![t] = Idle]

\* The row still belongs to attempt t and runs.
Holds(t) == LET row == rows[attempt[t].rid] IN row.token = t /\ row.status = "running"

\* job = store.review(rid): the attempt's own copy of the payload.
LoadPayload(t) ==
  /\ attempt[t].pc = "claimed"
  /\ LET row == rows[attempt[t].rid] IN
       attempt' = [attempt EXCEPT ![t] = [@ EXCEPT !.pc = "loaded", !.work = row.work,
                                                   !.errors = row.errors,
                                                   !.decided = row.decided]]
  /\ UNCHANGED <<rows, submitting, pool, crashes>>

\* guard(): another owner or status ends the attempt without a write (ReviewStopped).  The first
\* guard is followed by the refusal of a payload with a person's decisions; otherwise the next
\* checkpoint may follow.
Guard(t) ==
  /\ attempt[t].pc \in {"loaded", "working"}
  /\ \/ ~Holds(t) /\ Return(t)
     \/ /\ Holds(t) /\ attempt[t].pc = "loaded"
        /\ Goto(t, IF attempt[t].decided THEN "failing" ELSE "starting")
     \/ Holds(t) /\ attempt[t].pc = "working" /\ Goto(t, "guarded")
  /\ UNCHANGED <<rows, submitting, pool, crashes>>

\* Any exception of the attempt: access revoked, contract changed, model failure.  The groups engine
\* fails at its end, with all errors on record, when no group could be done.
Fail(t) ==
  /\ attempt[t].pc \in {"loaded", "starting", "working", "guarded"}
  /\ \/ Goto(t, "failing")
     \/ /\ attempt[t].pc = "guarded" /\ attempt[t].work = {}
        /\ attempt' = [attempt EXCEPT ![t] = [@ EXCEPT !.pc = "failing", !.errors = Batch]]
  /\ UNCHANGED <<rows, submitting, pool, crashes>>

\* store.checkpoint: the UPDATE matches on id and token alone and writes the attempt's whole copy.
Checkpoint(t, work, errors, status, retryable) ==
  rows' = [rows EXCEPT ![attempt[t].rid] =
             [status |-> status, age |-> 0, left |-> IF status = "running" THEN LeaseTime ELSE -1,
              token |-> @.token, work |-> work, errors |-> errors, decided |-> attempt[t].decided,
              retryable |-> retryable]]

\* Mutant: the UPDATE matches on the id alone.
CanAlwaysCheckpoint(t) == attempt[t].rid \in Review

CanCheckpoint(t) == rows[attempt[t].rid].token = t

\* A checkpoint of a running review; one that matches no row raises.
PublishWork(t, work, calls) ==
  /\ attempt' = [attempt EXCEPT ![t] = [@ EXCEPT !.work = work, !.calls = calls,
                                        !.pc = IF CanCheckpoint(t) THEN "working" ELSE "failing"]]
  /\ IF CanCheckpoint(t) THEN Checkpoint(t, work, attempt[t].errors, "running", FALSE)
                         ELSE UNCHANGED rows

\* The first checkpoint: what was saved is used again, but not what has an error on record.
Start(t) ==
  /\ attempt[t].pc = "starting"
  /\ PublishWork(t, attempt[t].work \ attempt[t].errors, attempt[t].calls)
  /\ UNCHANGED <<submitting, pool, crashes>>

\* A running checkpoint: a stage, a model call counted, or the result b of one more group.
Publish(t) ==
  /\ attempt[t].pc = "guarded"
  /\ attempt[t].calls < Budget
  /\ \E new \in {{}} \cup {{b} : b \in Batch} :
       PublishWork(t, attempt[t].work \cup new, attempt[t].calls + 1)
  /\ UNCHANGED <<submitting, pool, crashes>>

\* How an attempt may end: clean only with every group; otherwise partial, retryable when a step
\* failed or a legal search found nothing.
Outcome(work) ==
  {o \in [status: {"completed", "partial"}, retryable: BOOLEAN] :
     IF work = Batch THEN o.retryable => o.status = "partial"
                     ELSE o.retryable /\ o.status = "partial"}

\* The groups engine records what is missing; the chat engine has no groups to redo.
Finish(t) ==
  /\ attempt[t].pc = "guarded"
  /\ IF CanCheckpoint(t)
       THEN /\ \E o \in Outcome(attempt[t].work), errors \in {{}, Batch \ attempt[t].work} :
                 Checkpoint(t, attempt[t].work, errors, o.status, o.retryable)
            /\ Return(t)
       ELSE Goto(t, "failing") /\ UNCHANGED rows
  /\ UNCHANGED <<submitting, pool, crashes>>

\* The except clause: re-read the row, and only its owner goes on to record the failure.
Inspect(t) ==
  /\ attempt[t].pc = "failing"
  /\ IF Holds(t) THEN Goto(t, "marking") ELSE Return(t)
  /\ UNCHANGED <<rows, submitting, pool, crashes>>

\* The failure is recorded with the work as it was saved; the chat engine forgets an answer that it
\* could not read.
MarkFailed(t) ==
  /\ attempt[t].pc = "marking"
  /\ IF CanCheckpoint(t)
       THEN \E unreadable \in {{}} \cup {{b} : b \in Batch} :
              Checkpoint(t, attempt[t].work \ unreadable, attempt[t].errors, "failed", TRUE)
       ELSE UNCHANGED rows
  /\ Return(t)
  /\ UNCHANGED <<submitting, pool, crashes>>

\* Mutant: a heartbeat adds to the lease.
RenewAdding(t) ==
  /\ attempt[t].pc # "idle"
  /\ Holds(t)
  /\ rows' = [rows EXCEPT ![attempt[t].rid].left = @ + LeaseTime]
  /\ UNCHANGED <<submitting, pool, attempt, crashes>>

\* heartbeat() of a chat review, until the attempt ends.
Renew(t) ==
  /\ attempt[t].pc # "idle"
  /\ Holds(t)
  /\ rows' = [rows EXCEPT ![attempt[t].rid].left = LeaseTime]
  /\ UNCHANGED <<submitting, pool, attempt, crashes>>

-------------------------------------------------------------------------------
(* Environment *)

Older(row) ==
  [row EXCEPT !.left = IF row.left >= 0 THEN row.left - 1 ELSE row.left,
              !.age  = IF row.status = "queued" /\ row.age <= StaleTime THEN row.age + 1 ELSE row.age]

Tick ==
  /\ rows' = [r \in Review |-> Older(rows[r])]
  /\ UNCHANGED <<submitting, pool, attempt, crashes>>

\* The process restarts: the table survives, requests, pool and attempts do not.
Crash ==
  /\ crashes < MaxCrashes
  /\ submitting' = [r \in Review |-> 0]
  /\ pool' = <<>>
  /\ attempt' = [t \in Token |-> Idle]
  /\ crashes' = crashes + 1
  /\ UNCHANGED rows

Request(r) == CreateReview(r) \/ QueueResume(r) \/ Submit(r) \/ CancelReview(r) \/ Decide(r)

\* The thread of an attempt; it never waits for another actor.
Work(t) == \/ LoadPayload(t) \/ Guard(t) \/ Fail(t) \/ Start(t) \/ Publish(t)
           \/ Finish(t) \/ Inspect(t) \/ MarkFailed(t)

Next ==
  \/ \E r \in Review : Request(r)
  \/ \E t \in Token : ClaimJob(t) \/ Work(t) \/ Renew(t)
  \/ SkipJob
  \/ Tick
  \/ Crash

Spec == Init /\ [][Next]_vars

\* Threads run and time passes: a committed request goes on to submit, an idle pool thread takes
\* the next entry, an attempt goes on (every model call has a timeout).  Users owe nothing.
Fairness ==
  /\ WF_vars(Tick)
  /\ \A r \in Review : WF_vars(Submit(r))
  /\ WF_vars(SkipJob \/ \E t \in Token : ClaimJob(t))
  /\ \A t \in Token : WF_vars(Work(t))

FairSpec == Spec /\ Fairness

-------------------------------------------------------------------------------
(* Safety *)

\* A checkpoint replaces the whole payload, yet no attempt, however late, takes back what another
\* attempt of the review saved ("a failure resumes from saved batches"): what is dropped was on
\* record as an error, or is the one answer whose failure is being recorded.
NoLostProgress ==
  [][\A r \in Review :
       LET lost == rows[r].work \ rows'[r].work IN
         \/ lost \subseteq rows[r].errors
         \/ rows'[r].status = "failed" /\ \E b \in Batch : lost = {b}]_vars

\* "The review is paused; the steps done are saved": a review that runs again keeps what it saved.
SavedStepsKept ==
  [][\A r \in Review : rows'[r].status = "running" => rows[r].work \subseteq rows'[r].work]_vars

\* "A user's choice must be preserved": once a person decided on a finding no worker, retry or
\* cancellation touches the review (resume and checkpoint would rebuild its decisions).
DecisionsAreKept ==
  [][\A r \in Review : rows[r].decided => rows'[r] = rows[r]]_vars

\* "Invalidate the lease before returning; late responses cannot publish": a cancelled review is
\* never written again, by a worker, a heartbeat, or a leftover entry of the pool.
CancelledIsFinal ==
  [][\A r \in Review : rows[r].status = "cancelled" => rows'[r] = rows[r]]_vars

\* The attempts that can still write to a review are one, and its copy of the payload is what was
\* saved: what makes a checkpoint safe.
IsWriter(t) == attempt[t].pc # "idle" /\ CanCheckpoint(t)

WriterIsCurrent ==
  \A t \in Token : IsWriter(t) =>
    /\ Holds(t)
    /\ ~rows[attempt[t].rid].decided
    /\ attempt[t].pc # "claimed" => rows[attempt[t].rid].work = attempt[t].work /\ ~attempt[t].decided
    /\ attempt[t].pc \notin {"claimed", "failing", "marking"} =>
         rows[attempt[t].rid].errors = attempt[t].errors

\* The docstring of queue_resume, "Apply normal queue limits to retries": whenever a failed review
\* becomes live again the limits hold.
RetriesWithinLimits ==
  [][\A r \in Review :
       rows[r].status = "failed" /\ Live(rows'[r]) =>
         Cardinality({x \in Review : Live(rows'[x])}) <= QueueLimit]_vars

-------------------------------------------------------------------------------
(* Liveness *)

\* A review in the queue or running never stays there for good, even if the process restarts at the
\* worst moment: it ends, or the store would accept to resume it.
NeverStuck ==
  \A r \in Review :
    rows[r].status \in {"queued", "running"} ~>
      rows[r].status \notin {"queued", "running"} \/ MayResume(rows[r])

\* Unless the process restarts, every queued review gets a thread (or is cancelled) although attempts
\* fail, stall past their lease and are resumed meanwhile.
QueuedIsServed ==
  \A r \in Review : rows[r].status = "queued" ~> rows[r].status # "queued" \/ crashes > 0

-------------------------------------------------------------------------------
(* Refinement *)

Lifecycle == INSTANCE ReviewLifecycle WITH
  review <- [r \in Review |-> [status |-> rows[r].status, work |-> rows[r].work,
                               decided |-> rows[r].decided]]

\* The queue with its leases, threads and restarts implements the lifecycle users are promised.
ImplementsLifecycle == Lifecycle!Spec
===============================================================================
