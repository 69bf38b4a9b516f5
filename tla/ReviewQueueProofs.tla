--------------------------- MODULE ReviewQueueProofs ---------------------------
(***************************************************************************)
(* Theorems about ReviewQueue for every set of reviews, users, tokens and  *)
(* batches and every lease, limit and pool size: its types, who can write  *)
(* to a review, what no step may undo, and that it implements              *)
(* ReviewLifecycle.                                                        *)
(*                                                                         *)
(* WriterIsCurrent alone is not inductive.  What carries it: a token is in *)
(* one row at most (TokenInOneRow), decisions and cancellations put a row  *)
(* out of every token's reach (DecidedIsQuiet, CancelledIsFenced), and a   *)
(* lease belongs to a running review (OnlyRunningLeased).                  *)
(***************************************************************************)
EXTENDS ReviewQueue, TLAPS

-------------------------------------------------------------------------------
(* Type correctness *)

LEMMA InitTypeOK == Init => TypeOK
  BY ConstantsAssumption DEF Init, TypeOK, NoRow, Idle, Row, Attempt, Status, Phase

\* A checkpoint leaves a well-typed table.
LEMMA CheckpointType ==
  ASSUME TypeOK, NEW t \in Token, attempt[t].pc # "idle", attempt[t].rid \in Review,
         NEW w \in SUBSET Batch, NEW e \in SUBSET Batch, NEW s \in Status, NEW b \in BOOLEAN,
         Checkpoint(t, w, e, s, b)
  PROVE  rows' \in [Review -> Row]
  BY ConstantsAssumption DEF TypeOK, Checkpoint, Row, Attempt

\* An attempt that is under way works on a review.
HasReview == \A t \in Token : attempt[t].pc # "idle" => attempt[t].rid \in Review

TypeInv == TypeOK /\ HasReview

LEMMA InitTypeInv == Init => TypeInv
  BY InitTypeOK DEF TypeInv, HasReview, Init, Idle

\* The updates of one row, and of one attempt, that the actions make.
LEMMA RowUpdates ==
  ASSUME NEW row \in Row, NEW s \in Status, NEW k \in Token \cup {NoToken},
         NEW n \in -1..LeaseTime, NEW b \in BOOLEAN
  PROVE  /\ [row EXCEPT !.status = s] \in Row
         /\ [row EXCEPT !.decided = TRUE] \in Row
         /\ [row EXCEPT !.left = n] \in Row
         /\ [row EXCEPT !.status = s, !.token = k, !.left = n, !.age = 0] \in Row
         /\ [row EXCEPT !.status = s, !.token = k, !.left = n, !.age = 0, !.retryable = b] \in Row
<1>1. 0 \in 0..StaleTime + 1
  BY ConstantsAssumption
<1>2. [row EXCEPT !.status = s] \in Row
  BY DEF Row
<1>3. [row EXCEPT !.decided = TRUE] \in Row
  BY DEF Row
<1>4. [row EXCEPT !.left = n] \in Row
  BY DEF Row
<1>5. [row EXCEPT !.status = s, !.token = k, !.left = n, !.age = 0] \in Row
  BY <1>1 DEF Row
<1>6. [row EXCEPT !.status = s, !.token = k, !.left = n, !.age = 0, !.retryable = b] \in Row
  BY <1>1 DEF Row
<1>7. QED
  BY <1>2, <1>3, <1>4, <1>5, <1>6

\* What the passing of time does to a row.
LEMMA OlderRow ==
  ASSUME NEW row \in Row
  PROVE  /\ Older(row) \in Row
         /\ Older(row).status = row.status /\ Older(row).token = row.token
         /\ Older(row).work = row.work /\ Older(row).errors = row.errors /\ Older(row).decided = row.decided
         /\ row.left = -1 => Older(row).left = -1
         /\ row.left = -1 /\ row.status # "queued" => Older(row) = row
<1> DEFINE left == IF row.left >= 0 THEN row.left - 1 ELSE row.left
           age  == IF row.status = "queued" /\ row.age <= StaleTime THEN row.age + 1 ELSE row.age
<1>1. left \in -1..LeaseTime /\ age \in 0..StaleTime + 1
  BY ConstantsAssumption DEF Row
<1>2. row.left = -1 => left = -1
  OBVIOUS
<1>3. row.left = -1 /\ row.status # "queued" => left = row.left /\ age = row.age
  OBVIOUS
<1>4. Older(row) = [row EXCEPT !.left = left, !.age = age]
  BY DEF Older
<1> HIDE DEF left, age
<1>5. [row EXCEPT !.left = left, !.age = age] \in Row
  BY <1>1 DEF Row
<1>6. /\ Older(row).status = row.status /\ Older(row).token = row.token
      /\ Older(row).work = row.work /\ Older(row).errors = row.errors /\ Older(row).decided = row.decided
      /\ Older(row).left = left
  BY <1>4 DEF Row
<1>7. left = row.left /\ age = row.age => Older(row) = row
  BY <1>4 DEF Row
<1>8. QED
  BY <1>2, <1>3, <1>4, <1>5, <1>6, <1>7

\* The updates of one attempt that the actions make.
LEMMA AttemptUpdates ==
  ASSUME NEW a \in Attempt, NEW p \in Phase, NEW w \in SUBSET Batch, NEW e \in SUBSET Batch,
         NEW d \in BOOLEAN, NEW n \in 0..Budget
  PROVE  /\ [a EXCEPT !.pc = p] \in Attempt
         /\ [a EXCEPT !.pc = p, !.work = w, !.errors = e, !.decided = d] \in Attempt
         /\ [a EXCEPT !.work = w, !.calls = n, !.pc = p] \in Attempt
  BY DEF Attempt

\* A checkpoint of a running review keeps the types.
LEMMA PublishType ==
  ASSUME TypeInv, NEW t \in Token, attempt[t].pc # "idle", NEW w \in SUBSET Batch,
         NEW n \in 0..Budget, PublishWork(t, w, n)
  PROVE  /\ rows' \in [Review -> Row]
         /\ attempt' \in [Token -> Attempt]
         /\ HasReview'
<1> DEFINE phase == IF CanCheckpoint(t) THEN "working" ELSE "failing"
           next  == [attempt[t] EXCEPT !.work = w, !.calls = n, !.pc = phase]
<1>1. attempt[t] \in Attempt /\ attempt[t].rid \in Review /\ attempt[t].errors \in SUBSET Batch
  BY DEF TypeInv, TypeOK, HasReview, Attempt
<1>2. phase \in Phase /\ phase # "idle"
  BY DEF Phase
<1>3. attempt' = [attempt EXCEPT ![t] = next]
  BY DEF PublishWork
<1> HIDE DEF phase
<1>4. next \in Attempt /\ next.rid = attempt[t].rid
  BY <1>1, <1>2, AttemptUpdates DEF Attempt
<1> HIDE DEF next
<1>5. attempt' \in [Token -> Attempt] /\ HasReview'
  BY <1>1, <1>3, <1>4 DEF TypeInv, TypeOK, HasReview
<1>6. rows' \in [Review -> Row]
  BY <1>1, CheckpointType DEF PublishWork, TypeInv, TypeOK, Status
<1>7. QED
  BY <1>5, <1>6

\* An attempt that has ended, and one that has just claimed a review.
LEMMA IdleAttempts ==
  /\ Idle \in Attempt
  /\ \A r \in Review : [Idle EXCEPT !.pc = "claimed", !.rid = r] \in Attempt
<1>1. 0 \in 0..Budget
  BY ConstantsAssumption
<1>2. Idle \in Attempt
  BY <1>1 DEF Attempt, Idle, Phase
<1>3. ASSUME NEW r \in Review PROVE [Idle EXCEPT !.pc = "claimed", !.rid = r] \in Attempt
  BY <1>1 DEF Attempt, Idle, Phase
<1>4. QED
  BY <1>2, <1>3

LEMMA NextTypeInv == TypeInv /\ [Next]_vars => TypeInv'
<1> SUFFICES ASSUME TypeInv, [Next]_vars PROVE TypeInv'
  OBVIOUS
<1> USE DEF TypeInv, HasReview, TypeOK
<1> DEFINE Lasts == -1..LeaseTime
<1>a. /\ Status = {"absent", "queued", "running", "partial", "completed", "failed", "cancelled"}
      /\ -1 \in Lasts /\ LeaseTime \in Lasts
  BY ConstantsAssumption DEF Status
<1>b. ASSUME NEW t \in Token PROVE attempt[t] \in Attempt
  OBVIOUS
<1>1. ASSUME NEW r \in Review, CreateReview(r) PROVE TypeInv'
  <2>1. [rows[r] EXCEPT !.status = "queued"] \in Row
    BY <1>a, RowUpdates
  <2>2. QED
    BY <1>1, <2>1 DEF CreateReview
<1>2. ASSUME NEW r \in Review, QueueResume(r) PROVE TypeInv'
  <2>1. [rows[r] EXCEPT !.status = "queued", !.token = NoToken, !.left = -1, !.age = 0] \in Row
    BY <1>a, RowUpdates
  <2>2. QED
    BY <1>2, <2>1 DEF QueueResume
<1>3. ASSUME NEW r \in Review, Submit(r) PROVE TypeInv'
  BY <1>3 DEF Submit
<1>4. ASSUME NEW r \in Review, CancelReview(r) PROVE TypeInv'
  <2>1. [rows[r] EXCEPT !.status = "cancelled", !.token = NoToken, !.left = -1, !.age = 0,
                        !.retryable = FALSE] \in Row
    BY <1>a, RowUpdates
  <2>2. QED
    BY <1>4, <2>1 DEF CancelReview
<1>5. ASSUME NEW r \in Review, Decide(r) PROVE TypeInv'
  <2>1. [rows[r] EXCEPT !.decided = TRUE] \in Row
    BY <1>a, RowUpdates
  <2>2. QED
    BY <1>5, <2>1 DEF Decide
<1>6. ASSUME NEW t \in Token, ClaimJob(t) PROVE TypeInv'
  <2>1. Head(pool) \in Review /\ Tail(pool) \in Seq(Review)
    BY <1>6 DEF ClaimJob
  <2>2. [rows[Head(pool)] EXCEPT !.status = "running", !.token = t, !.left = LeaseTime,
                                 !.age = 0] \in Row
    BY <1>a, <2>1, RowUpdates
  <2>3. [Idle EXCEPT !.pc = "claimed", !.rid = Head(pool)] \in Attempt
    BY <2>1, IdleAttempts
  <2>4. TypeOK'
    BY <1>6, <2>1, <2>2, <2>3 DEF ClaimJob
  <2>5. HasReview'
    BY <1>6, <2>1 DEF ClaimJob, Idle
  <2>6. QED
    BY <2>4, <2>5
<1>7. ASSUME NEW t \in Token, LoadPayload(t) PROVE TypeInv'
  <2>1. attempt[t].rid \in Review /\ rows[attempt[t].rid] \in Row
    BY <1>7 DEF LoadPayload
  <2>2. \A w, e \in SUBSET Batch, d \in BOOLEAN :
          [attempt[t] EXCEPT !.pc = "loaded", !.work = w, !.errors = e, !.decided = d] \in Attempt
    <3>1. 0 \in 0..Budget
      BY ConstantsAssumption
    <3>2. QED
      BY <1>b, <3>1, AttemptUpdates DEF Phase
  <2>3. /\ rows[attempt[t].rid].work \in SUBSET Batch /\ rows[attempt[t].rid].errors \in SUBSET Batch
        /\ rows[attempt[t].rid].decided \in BOOLEAN
    BY <2>1 DEF Row
  <2>4. attempt' \in [Token -> Attempt]
    BY <1>7, <2>2, <2>3 DEF LoadPayload
  <2>5. QED
    BY <1>7, <2>1, <2>4 DEF LoadPayload
<1>c. ASSUME NEW t \in Token, attempt[t].pc # "idle",
             \/ Return(t)
             \/ \E p \in Phase : Goto(t, p)
      PROVE  attempt' \in [Token -> Attempt] /\ HasReview'
  <2>1. ASSUME Return(t) PROVE attempt' \in [Token -> Attempt] /\ HasReview'
    BY <2>1, IdleAttempts DEF Return, Idle
  <2>2. ASSUME NEW p \in Phase, Goto(t, p) PROVE attempt' \in [Token -> Attempt] /\ HasReview'
    <3>1. [attempt[t] EXCEPT !.pc = p] \in Attempt
      BY <1>b DEF Attempt
    <3>2. attempt' \in [Token -> Attempt]
      BY <2>2, <3>1 DEF Goto
    <3>3. attempt[t].rid = attempt'[t].rid
      BY <2>2 DEF Goto, Attempt
    <3>4. QED
      BY <1>c, <2>2, <3>2, <3>3 DEF Goto
  <2>3. QED
    BY <1>c, <2>1, <2>2
<1>8. ASSUME NEW t \in Token, Guard(t) PROVE TypeInv'
  BY <1>8, <1>c DEF Guard, Phase
<1>9. ASSUME NEW t \in Token, Fail(t) PROVE TypeInv'
  <2>1. CASE Goto(t, "failing")
    BY <1>9, <1>c, <2>1 DEF Fail, Phase
  <2>2. CASE attempt' = [attempt EXCEPT ![t] = [@ EXCEPT !.pc = "failing", !.errors = Batch]]
    <3>1. [attempt[t] EXCEPT !.pc = "failing", !.errors = Batch] \in Attempt
      BY <1>b DEF Attempt, Phase
    <3>2. attempt' \in [Token -> Attempt]
      BY <2>2, <3>1
    <3>3. attempt'[t].rid = attempt[t].rid /\ attempt[t].pc # "idle"
      BY <1>9, <2>2 DEF Fail, Attempt
    <3>4. HasReview'
      BY <2>2, <3>3
    <3>5. QED
      BY <1>9, <3>2, <3>4 DEF Fail
  <2>3. QED
    BY <1>9, <2>1, <2>2 DEF Fail
<1>10. ASSUME NEW t \in Token, Publish(t) PROVE TypeInv'
  <2>1. PICK new \in {{}} \cup {{b} : b \in Batch} :
          PublishWork(t, attempt[t].work \cup new, attempt[t].calls + 1)
    BY <1>10 DEF Publish
  <2>2. attempt[t].work \cup new \in SUBSET Batch
    BY DEF Attempt
  <2>3. attempt[t].calls + 1 \in 0..Budget
    BY <1>10, <1>b, ConstantsAssumption DEF Publish, Attempt
  <2>4. QED
    BY <1>10, <2>1, <2>2, <2>3, PublishType DEF Publish
<1>d. ASSUME NEW t \in Token, Start(t) PROVE TypeInv'
  <2>1. attempt[t].work \ attempt[t].errors \in SUBSET Batch /\ attempt[t].calls \in 0..Budget
    BY <1>b DEF Attempt
  <2>2. QED
    BY <1>d, <2>1, PublishType DEF Start
<1>11. ASSUME NEW t \in Token, Finish(t) PROVE TypeInv'
  <2>1. attempt' \in [Token -> Attempt] /\ HasReview'
    BY <1>11, <1>c DEF Finish, Phase
  <2>2. attempt[t].work \in SUBSET Batch
    BY DEF Attempt
  <2>3. \A o \in Outcome(attempt[t].work) : o.status \in Status /\ o.retryable \in BOOLEAN
    <3>1. Outcome(attempt[t].work) \subseteq [status: {"completed", "partial"}, retryable: BOOLEAN]
      BY DEF Outcome
    <3>2. QED
      BY <1>a, <3>1
  <2>4. rows' \in [Review -> Row]
    <3>1. CASE CanCheckpoint(t)
      <4>1. PICK o \in Outcome(attempt[t].work), e \in {{}, Batch \ attempt[t].work} :
              Checkpoint(t, attempt[t].work, e, o.status, o.retryable)
        BY <1>11, <3>1 DEF Finish
      <4>2. attempt[t].pc # "idle" /\ attempt[t].rid \in Review
        BY <1>11 DEF Finish, HasReview
      <4>3. PICK w \in SUBSET Batch, s \in Status, b \in BOOLEAN : Checkpoint(t, w, e, s, b)
        BY <2>2, <2>3, <4>1
      <4>a. e \in SUBSET Batch
        BY <4>1
      <4>4. QED
        BY <4>2, <4>3, <4>a, ConstantsAssumption DEF Checkpoint, Row, Attempt
    <3>2. CASE ~CanCheckpoint(t)
      BY <1>11, <3>2 DEF Finish
    <3>3. QED
      BY <3>1, <3>2
  <2>5. QED
    BY <1>11, <2>1, <2>4 DEF Finish
<1>12. ASSUME NEW t \in Token, Inspect(t) PROVE TypeInv'
  BY <1>12, <1>c DEF Inspect, Phase
<1>13. ASSUME NEW t \in Token, MarkFailed(t) PROVE TypeInv'
  <2>1. attempt' \in [Token -> Attempt] /\ HasReview'
    BY <1>13, <1>c DEF MarkFailed
  <2>2. rows' \in [Review -> Row]
    <3>1. CASE CanCheckpoint(t)
      <4>1. PICK lost : Checkpoint(t, attempt[t].work \ lost, attempt[t].errors, "failed", TRUE)
        BY <1>13, <3>1 DEF MarkFailed
      <4>2. attempt[t].pc # "idle" /\ attempt[t].rid \in Review
        BY <1>13 DEF MarkFailed, HasReview
      <4>3. attempt[t].work \in SUBSET Batch /\ attempt[t].errors \in SUBSET Batch
        BY <1>b DEF Attempt
      <4>4. PICK w \in SUBSET Batch, e \in SUBSET Batch : Checkpoint(t, w, e, "failed", TRUE)
        BY <4>1, <4>3
      <4>5. QED
        BY <4>2, <4>4, CheckpointType DEF Status
    <3>2. CASE ~CanCheckpoint(t)
      BY <1>13, <3>2 DEF MarkFailed
    <3>3. QED
      BY <3>1, <3>2
  <2>3. QED
    BY <1>13, <2>1, <2>2 DEF MarkFailed
<1>14. ASSUME NEW t \in Token, Renew(t) PROVE TypeInv'
  <2>1. [rows[attempt[t].rid] EXCEPT !.left = LeaseTime] \in Row
    BY <1>14, <1>a, RowUpdates DEF Renew
  <2>2. QED
    BY <1>14, <2>1 DEF Renew
<1>15. ASSUME SkipJob PROVE TypeInv'
  BY <1>15 DEF SkipJob
<1>16. ASSUME Tick PROVE TypeInv'
  BY <1>16, OlderRow DEF Tick
<1>17. ASSUME Crash PROVE TypeInv'
  <2>1. attempt' \in [Token -> Attempt]
    BY <1>17, IdleAttempts DEF Crash
  <2>2. HasReview' /\ pool' \in Seq(Review) /\ submitting' \in [Review -> Nat] /\ crashes' \in Nat
    BY <1>17 DEF Crash, Idle
  <2>3. QED
    BY <1>17, <2>1, <2>2 DEF Crash
<1>18. ASSUME UNCHANGED vars PROVE TypeInv'
  BY <1>18 DEF vars
<1>19. QED
  BY <1>1, <1>2, <1>3, <1>4, <1>5, <1>6, <1>7, <1>8, <1>9, <1>10, <1>11, <1>12, <1>13, <1>14,
     <1>15, <1>16, <1>17, <1>18, <1>d DEF Next, Request, Work

\* The table, the pool and the attempts keep their types in every reachable state.
THEOREM TypeCorrect == Spec => []TypeOK
<1>1. Spec => []TypeInv
  BY InitTypeInv, NextTypeInv, PTL DEF Spec
<1>2. QED
  BY <1>1, PTL DEF TypeInv

-------------------------------------------------------------------------------
(* The inductive invariant *)

\* A token in use is only in the row of the review its attempt works on.
TokenInOneRow ==
  \A t \in Token, r \in Review :
    attempt[t].pc # "idle" /\ rows[r].token = t => attempt[t].rid = r

\* Decided reviews have ended, cancelled ones are fenced off, and only running ones have a lease.
DecidedIsQuiet    == \A r \in Review : rows[r].decided => rows[r].status \in {"partial", "completed"}
CancelledIsFenced == \A r \in Review : rows[r].status = "cancelled" => rows[r].token = NoToken
OnlyRunningLeased == \A r \in Review : rows[r].status # "running" => rows[r].left = -1

Fencing == TokenInOneRow /\ WriterIsCurrent
Quiet   == DecidedIsQuiet /\ CancelledIsFenced /\ OnlyRunningLeased

IInv == TypeInv /\ Fencing /\ Quiet

LEMMA InitIInv == Init => IInv
<1> SUFFICES ASSUME Init PROVE IInv
  OBVIOUS
<1>1. TypeInv
  BY InitTypeInv
<1>2. (\A t \in Token : attempt[t].pc = "idle") /\ (\A r \in Review : rows[r] = NoRow)
  BY DEF Init, Idle
<1>3. QED
  BY <1>1, <1>2 DEF IInv, Fencing, Quiet, TokenInOneRow, WriterIsCurrent, IsWriter, DecidedIsQuiet,
     CancelledIsFenced, OnlyRunningLeased, NoRow

\* Steps that leave the table alone and move attempts within their reviews.
LEMMA AttemptStep ==
  ASSUME IInv, UNCHANGED rows,
         \A t \in Token :
           attempt'[t].pc # "idle" =>
             /\ attempt[t].pc # "idle"
             /\ attempt[t].pc = "claimed" => attempt'[t] = attempt[t]
             /\ attempt'[t].pc # "claimed" \/ attempt[t].pc = "claimed"
             /\ attempt'[t].rid = attempt[t].rid
             /\ attempt'[t].work = attempt[t].work
             /\ \/ attempt'[t].pc \in {"failing", "marking"}
                \/ /\ attempt[t].pc \notin {"failing", "marking"}
                   /\ attempt'[t].errors = attempt[t].errors
             /\ attempt'[t].decided = attempt[t].decided
  PROVE  Fencing' /\ Quiet'
<1>1. TokenInOneRow'
  BY DEF IInv, Fencing, Quiet, TokenInOneRow
<1>2. WriterIsCurrent'
  BY DEF IInv, Fencing, Quiet, WriterIsCurrent, IsWriter, Holds, CanCheckpoint
<1>3. QED
  BY <1>1, <1>2 DEF IInv, Fencing, Quiet, DecidedIsQuiet, CancelledIsFenced, OnlyRunningLeased

\* Steps of requests and of time, which leave the attempts alone: a row they change keeps its
\* token and its saved work as long as a token could write to it.
LEMMA RowStep ==
  ASSUME IInv, UNCHANGED attempt,
         \A r \in Review :
           /\ rows'[r].token \in {rows[r].token, NoToken}
           /\ rows[r].token \in Token /\ rows'[r].token # NoToken /\ rows[r].status = "running" =>
                /\ rows'[r].status = rows[r].status
                /\ rows'[r].work = rows[r].work
                /\ rows'[r].errors = rows[r].errors
                /\ rows'[r].decided = rows[r].decided
  PROVE  Fencing'
<1>1. TokenInOneRow'
  BY ConstantsAssumption DEF IInv, Fencing, Quiet, TokenInOneRow
<1>2. WriterIsCurrent'
  <2> SUFFICES ASSUME NEW t \in Token, IsWriter(t)'
               PROVE  /\ IsWriter(t)
                      /\ rows'[attempt[t].rid].status = rows[attempt[t].rid].status
                      /\ rows'[attempt[t].rid].work = rows[attempt[t].rid].work
                      /\ rows'[attempt[t].rid].errors = rows[attempt[t].rid].errors
                      /\ rows'[attempt[t].rid].decided = rows[attempt[t].rid].decided
    BY DEF IInv, Fencing, Quiet, WriterIsCurrent, IsWriter, Holds, CanCheckpoint
  <2>1. attempt[t].pc # "idle" /\ attempt[t].rid \in Review
    BY DEF IsWriter, IInv, TypeInv, HasReview
  <2>2. IsWriter(t)
    BY <2>1, ConstantsAssumption DEF IsWriter, CanCheckpoint
  <2>3. rows[attempt[t].rid].status = "running"
    BY <2>2 DEF IInv, Fencing, Quiet, WriterIsCurrent, Holds
  <2>4. QED
    BY <2>1, <2>2, <2>3, ConstantsAssumption DEF IsWriter, CanCheckpoint
<1>3. QED
  BY <1>1, <1>2 DEF Fencing

\* Steps of attempt t that write the row of its review as a checkpoint does.
LEMMA CheckpointStep ==
  ASSUME IInv, NEW t \in Token, IsWriter(t), attempt[t].pc # "claimed",
         NEW w \in SUBSET Batch, NEW e \in SUBSET Batch, NEW s \in Status, NEW b \in BOOLEAN,
         Checkpoint(t, w, e, s, b),
         s \notin {"cancelled"},
         \/ attempt'[t].pc = "idle"
         \/ /\ s = "running"
            /\ attempt'[t].rid = attempt[t].rid
            /\ attempt'[t].work = w
            /\ attempt'[t].errors = e
            /\ attempt'[t].decided = attempt[t].decided,
         \A u \in Token \ {t} : attempt'[u] = attempt[u]
  PROVE  Fencing' /\ Quiet'
<1> DEFINE r == attempt[t].rid
<1>1. r \in Review /\ rows[r].token = t /\ rows \in [Review -> Row] /\ ~attempt[t].decided
  BY DEF IsWriter, CanCheckpoint, IInv, Fencing, WriterIsCurrent, TypeInv, HasReview, TypeOK
<1>2. /\ rows'[r].token = t /\ rows'[r].status = s /\ rows'[r].work = w
      /\ rows'[r].errors = e /\ rows'[r].decided = FALSE
      /\ s # "running" => rows'[r].left = -1
      /\ \A x \in Review \ {r} : rows'[x] = rows[x]
  BY <1>1 DEF Checkpoint
<1> HIDE DEF r
<1>3. TokenInOneRow'
  BY <1>1, <1>2 DEF IInv, Fencing, Quiet, TokenInOneRow, IsWriter, r
<1>4. WriterIsCurrent'
  <2> SUFFICES ASSUME NEW u \in Token, IsWriter(u)'
               PROVE  /\ Holds(u)'
                      /\ ~rows'[attempt'[u].rid].decided
                      /\ attempt'[u].pc # "claimed" =>
                           /\ rows'[attempt'[u].rid].work = attempt'[u].work
                           /\ ~attempt'[u].decided
                      /\ attempt'[u].pc \notin {"claimed", "failing", "marking"} =>
                           rows'[attempt'[u].rid].errors = attempt'[u].errors
    BY DEF WriterIsCurrent
  <2>1. CASE u = t
    BY <1>1, <1>2, <2>1 DEF IsWriter, CanCheckpoint, Holds, r
  <2>2. CASE u # t
    <3>1. attempt'[u] = attempt[u] /\ attempt[u].rid \in Review
      BY <2>2 DEF IsWriter, IInv, TypeInv, HasReview
    <3>2. attempt[u].rid # r
      BY <1>2, <2>2, <3>1 DEF IsWriter, CanCheckpoint
    <3>3. rows'[attempt[u].rid] = rows[attempt[u].rid] /\ IsWriter(u)
      BY <1>2, <3>1, <3>2 DEF IsWriter, CanCheckpoint
    <3>4. QED
      BY <3>1, <3>3 DEF IInv, Fencing, Quiet, WriterIsCurrent, Holds
  <2>3. QED
    BY <2>1, <2>2
<1>5. Quiet'
  BY <1>1, <1>2 DEF IInv, Fencing, Quiet, DecidedIsQuiet, CancelledIsFenced, OnlyRunningLeased
<1>6. QED
  BY <1>3, <1>4, <1>5 DEF Fencing

\* A checkpoint of a running review, whether it matches a row or not.
LEMMA PublishStep ==
  ASSUME IInv, NEW t \in Token, attempt[t].pc \notin {"idle", "claimed"},
         NEW w \in SUBSET Batch, NEW n, PublishWork(t, w, n)
  PROVE  Fencing' /\ Quiet'
<1>1. attempt[t] \in Attempt /\ attempt \in [Token -> Attempt]
  BY DEF IInv, TypeInv, TypeOK
<1>2. /\ attempt'[t].rid = attempt[t].rid /\ attempt'[t].decided = attempt[t].decided
      /\ attempt'[t].work = w /\ attempt'[t].errors = attempt[t].errors
      /\ attempt'[t].pc = IF CanCheckpoint(t) THEN "working" ELSE "failing"
      /\ \A u \in Token \ {t} : attempt'[u] = attempt[u]
  BY <1>1 DEF PublishWork, Attempt
<1>3. CASE CanCheckpoint(t)
  <2>1. Checkpoint(t, w, attempt[t].errors, "running", FALSE) /\ attempt[t].errors \in SUBSET Batch
    BY <1>1, <1>3 DEF PublishWork, Attempt
  <2>2. IsWriter(t)
    BY <1>3 DEF IsWriter
  <2>3. "running" \in Status /\ "running" \notin {"cancelled"}
    BY DEF Status
  <2>4. QED
    BY <1>2, <2>1, <2>2, <2>3, CheckpointStep
<1>4. CASE ~CanCheckpoint(t)
  <2>1. rows' = rows
    BY <1>4 DEF PublishWork
  <2>2. ~IsWriter(t)'
    BY <1>2, <1>4, <2>1 DEF IsWriter, CanCheckpoint
  <2>3. TokenInOneRow'
    BY <1>2, <2>1 DEF IInv, Fencing, TokenInOneRow
  <2>4. WriterIsCurrent'
    BY <1>2, <2>1, <2>2 DEF IInv, Fencing, WriterIsCurrent, IsWriter, Holds, CanCheckpoint
  <2>5. QED
    BY <2>1, <2>3, <2>4 DEF IInv, Fencing, Quiet, DecidedIsQuiet, CancelledIsFenced, OnlyRunningLeased
<1>5. QED
  BY <1>3, <1>4

LEMMA NextIInv == IInv /\ [Next]_vars => IInv'
<1> SUFFICES ASSUME IInv, [Next]_vars PROVE Fencing' /\ Quiet'
  BY NextTypeInv DEF IInv
<1> USE DEF TypeOK
<1>a. TypeInv /\ TypeOK /\ rows \in [Review -> Row] /\ attempt \in [Token -> Attempt]
  BY DEF IInv, TypeInv
<1>1. ASSUME NEW r \in Review, CreateReview(r) PROVE Fencing' /\ Quiet'
  <2>1. Fencing'
    BY <1>1, <1>a, RowStep DEF CreateReview, Row
  <2>2. Quiet'
    BY <1>1, <1>a DEF CreateReview, Row, IInv, Quiet, DecidedIsQuiet, CancelledIsFenced, OnlyRunningLeased
  <2>3. QED
    BY <2>1, <2>2
<1>2. ASSUME NEW r \in Review, QueueResume(r) PROVE Fencing' /\ Quiet'
  <2>1. Fencing'
    BY <1>2, <1>a, RowStep DEF QueueResume, Row
  <2>2. Quiet'
    BY <1>2, <1>a DEF QueueResume, MayResume, Row, IInv, Quiet, DecidedIsQuiet, CancelledIsFenced,
       OnlyRunningLeased
  <2>3. QED
    BY <2>1, <2>2
<1>3. ASSUME NEW r \in Review, Submit(r) PROVE Fencing' /\ Quiet'
  BY <1>3, AttemptStep DEF Submit
<1>4. ASSUME NEW r \in Review, CancelReview(r) PROVE Fencing' /\ Quiet'
  <2>1. Fencing'
    BY <1>4, <1>a, RowStep DEF CancelReview, Row
  <2>2. Quiet'
    BY <1>4, <1>a DEF CancelReview, Row, IInv, Quiet, DecidedIsQuiet, CancelledIsFenced,
       OnlyRunningLeased
  <2>3. QED
    BY <2>1, <2>2
<1>5. ASSUME NEW r \in Review, Decide(r) PROVE Fencing' /\ Quiet'
  <2>1. Fencing'
    BY <1>5, <1>a, RowStep DEF Decide, Row
  <2>2. Quiet'
    BY <1>5, <1>a DEF Decide, Row, IInv, Quiet, DecidedIsQuiet, CancelledIsFenced, OnlyRunningLeased
  <2>3. QED
    BY <2>1, <2>2
<1>6. ASSUME NEW t \in Token, ClaimJob(t) PROVE Fencing' /\ Quiet'
  <2> DEFINE r == Head(pool)
  <2>1. r \in Review
    BY <1>6, <1>a DEF ClaimJob
  <2>2. /\ Claimable(rows[r]) /\ attempt[t].pc = "idle" /\ \A x \in Review : rows[x].token # t
        /\ rows' = [rows EXCEPT ![r] = [rows[r] EXCEPT !.status = "running", !.token = t,
                                                       !.left = LeaseTime, !.age = 0]]
        /\ attempt' = [attempt EXCEPT ![t] = [Idle EXCEPT !.pc = "claimed", !.rid = r]]
    BY <1>6 DEF ClaimJob, FreshToken
  <2> HIDE DEF r
  <2>3. /\ rows'[r].token = t /\ rows'[r].status = "running" /\ rows'[r].decided = rows[r].decided
        /\ \A x \in Review \ {r} : rows'[x] = rows[x]
    BY <1>a, <2>1, <2>2 DEF Row
  <2>4. /\ attempt'[t].pc = "claimed" /\ attempt'[t].rid = r
        /\ \A u \in Token \ {t} : attempt'[u] = attempt[u]
    BY <1>a, <2>2 DEF Idle
  <2>5. ~rows[r].decided
    BY <2>1, <2>2 DEF Claimable, IInv, Quiet, DecidedIsQuiet
  <2>6. TokenInOneRow'
    BY <2>1, <2>2, <2>3, <2>4 DEF IInv, Fencing, TokenInOneRow
  <2>7. WriterIsCurrent'
    <3> SUFFICES ASSUME NEW u \in Token, IsWriter(u)'
                 PROVE  /\ Holds(u)'
                        /\ ~rows'[attempt'[u].rid].decided
                        /\ attempt'[u].pc # "claimed" =>
                             /\ rows'[attempt'[u].rid].work = attempt'[u].work
                             /\ ~attempt'[u].decided
                        /\ attempt'[u].pc \notin {"claimed", "failing", "marking"} =>
                             rows'[attempt'[u].rid].errors = attempt'[u].errors
      BY DEF WriterIsCurrent
    <3>1. CASE u = t
      BY <2>3, <2>4, <2>5, <3>1 DEF Holds
    <3>2. CASE u # t
      <4>1. attempt'[u] = attempt[u] /\ attempt[u].rid \in Review
        BY <2>4, <3>2 DEF IsWriter, IInv, TypeInv, HasReview
      <4>2. attempt[u].rid # r
        BY <2>3, <3>2, <4>1 DEF IsWriter, CanCheckpoint
      <4>3. rows'[attempt[u].rid] = rows[attempt[u].rid] /\ IsWriter(u)
        BY <2>3, <4>1, <4>2 DEF IsWriter, CanCheckpoint
      <4>4. QED
        BY <4>1, <4>3 DEF IInv, Fencing, WriterIsCurrent, Holds
    <3>3. QED
      BY <3>1, <3>2
  <2>8. Quiet'
    BY <2>1, <2>3, <2>5 DEF IInv, Quiet, DecidedIsQuiet, CancelledIsFenced, OnlyRunningLeased
  <2>9. QED
    BY <2>6, <2>7, <2>8 DEF Fencing
<1>7. ASSUME NEW t \in Token, LoadPayload(t) PROVE Fencing' /\ Quiet'
  <2>1. /\ attempt'[t].rid = attempt[t].rid /\ attempt'[t].pc # "idle" /\ attempt[t].pc # "idle"
        /\ attempt'[t].work = rows[attempt[t].rid].work
        /\ attempt'[t].errors = rows[attempt[t].rid].errors
        /\ attempt'[t].decided = rows[attempt[t].rid].decided
        /\ \A u \in Token \ {t} : attempt'[u] = attempt[u]
        /\ rows' = rows
    BY <1>7, <1>a DEF LoadPayload, Attempt
  <2>2. TokenInOneRow'
    BY <2>1 DEF IInv, Fencing, TokenInOneRow
  <2>3. WriterIsCurrent'
    BY <2>1 DEF IInv, Fencing, WriterIsCurrent, IsWriter, Holds, CanCheckpoint
  <2>4. QED
    BY <2>1, <2>2, <2>3 DEF IInv, Fencing, Quiet, DecidedIsQuiet, CancelledIsFenced, OnlyRunningLeased
<1>b. ASSUME NEW t \in Token, UNCHANGED rows, attempt[t].pc \notin {"idle", "claimed"},
             \/ Return(t)
             \/ \E p \in {"failing", "marking"} : Goto(t, p)
             \/ /\ attempt[t].pc \notin {"failing", "marking"}
                /\ \E p \in Phase \ {"idle", "claimed"} : Goto(t, p)
      PROVE  Fencing' /\ Quiet'
  BY <1>a, <1>b, AttemptStep DEF Return, Goto, Idle, Attempt
<1>8. ASSUME NEW t \in Token, Guard(t) PROVE Fencing' /\ Quiet'
  BY <1>8, <1>b DEF Guard, Phase
<1>9. ASSUME NEW t \in Token, Fail(t) PROVE Fencing' /\ Quiet'
  <2>1. CASE Goto(t, "failing")
    BY <1>9, <1>b, <2>1 DEF Fail
  <2>2. CASE attempt' = [attempt EXCEPT ![t] = [@ EXCEPT !.pc = "failing", !.errors = Batch]]
    <3>1. attempt[t].pc \notin {"idle", "claimed"} /\ UNCHANGED rows
      BY <1>9 DEF Fail
    <3>2. /\ attempt'[t].pc = "failing" /\ attempt'[t].rid = attempt[t].rid
          /\ attempt'[t].work = attempt[t].work /\ attempt'[t].decided = attempt[t].decided
          /\ \A u \in Token \ {t} : attempt'[u] = attempt[u]
      BY <1>a, <2>2 DEF Attempt
    <3>3. QED
      BY <3>1, <3>2, AttemptStep
  <2>3. QED
    BY <1>9, <2>1, <2>2 DEF Fail
<1>10. ASSUME NEW t \in Token, Publish(t) PROVE Fencing' /\ Quiet'
  <2>1. PICK new \in {{}} \cup {{b} : b \in Batch} :
          PublishWork(t, attempt[t].work \cup new, attempt[t].calls + 1)
    BY <1>10 DEF Publish
  <2>2. attempt[t].work \cup new \in SUBSET Batch
    BY <1>a DEF Attempt
  <2>3. QED
    BY <1>10, <2>1, <2>2, PublishStep DEF Publish
<1>c. ASSUME NEW t \in Token, Start(t) PROVE Fencing' /\ Quiet'
  <2>1. attempt[t].work \ attempt[t].errors \in SUBSET Batch
    BY <1>a DEF Attempt
  <2>2. QED
    BY <1>c, <2>1, PublishStep DEF Start
<1>11. ASSUME NEW t \in Token, Finish(t) PROVE Fencing' /\ Quiet'
  <2>1. attempt[t].pc = "guarded" /\ attempt[t].work \in SUBSET Batch
    BY <1>11, <1>a DEF Finish, Attempt
  <2>2. CASE CanCheckpoint(t)
    <3>1. PICK o \in Outcome(attempt[t].work), e \in {{}, Batch \ attempt[t].work} :
            Checkpoint(t, attempt[t].work, e, o.status, o.retryable)
      BY <1>11, <2>2 DEF Finish
    <3>2. Outcome(attempt[t].work) \subseteq [status: {"completed", "partial"}, retryable: BOOLEAN]
      BY DEF Outcome
    <3>3. o.status \in Status \ {"cancelled"} /\ o.retryable \in BOOLEAN
      BY <3>2 DEF Status
    <3>4. attempt'[t].pc = "idle" /\ \A u \in Token \ {t} : attempt'[u] = attempt[u]
      BY <1>11, <1>a, <2>2 DEF Finish, Return, Idle
    <3>5. e \in SUBSET Batch
      BY <3>1
    <3>6. QED
      BY <2>1, <2>2, <3>1, <3>3, <3>4, <3>5, CheckpointStep DEF IsWriter
  <2>3. CASE ~CanCheckpoint(t)
    BY <1>11, <1>b, <2>1, <2>3 DEF Finish, Phase
  <2>4. QED
    BY <2>2, <2>3
<1>12. ASSUME NEW t \in Token, Inspect(t) PROVE Fencing' /\ Quiet'
  BY <1>12, <1>b DEF Inspect, Phase
<1>13. ASSUME NEW t \in Token, MarkFailed(t) PROVE Fencing' /\ Quiet'
  <2>1. /\ attempt[t].pc = "marking" /\ attempt[t].errors \in SUBSET Batch
        /\ \A lost : attempt[t].work \ lost \in SUBSET Batch
    BY <1>13, <1>a DEF MarkFailed, Attempt
  <2>2. CASE CanCheckpoint(t)
    <3>1. attempt'[t].pc = "idle" /\ \A u \in Token \ {t} : attempt'[u] = attempt[u]
      BY <1>13, <1>a DEF MarkFailed, Return, Idle
    <3>2. PICK lost : Checkpoint(t, attempt[t].work \ lost, attempt[t].errors, "failed", TRUE)
      BY <1>13, <2>2 DEF MarkFailed
    <3>3. QED
      BY <2>1, <2>2, <3>1, <3>2, CheckpointStep DEF IsWriter, Status
  <2>3. CASE ~CanCheckpoint(t)
    BY <1>13, <1>b, <2>1, <2>3 DEF MarkFailed
  <2>4. QED
    BY <2>2, <2>3
<1>14. ASSUME NEW t \in Token, Renew(t) PROVE Fencing' /\ Quiet'
  <2>1. attempt[t].rid \in Review /\ rows[attempt[t].rid].status = "running"
    BY <1>14, <1>a DEF Renew, Holds, TypeInv, HasReview
  <2>2. Fencing'
    BY <1>14, <1>a, <2>1, RowStep DEF Renew, Row
  <2>3. Quiet'
    BY <1>14, <1>a, <2>1 DEF Renew, Row, IInv, Quiet, DecidedIsQuiet, CancelledIsFenced,
       OnlyRunningLeased
  <2>4. QED
    BY <2>2, <2>3
<1>15. ASSUME SkipJob PROVE Fencing' /\ Quiet'
  BY <1>15, AttemptStep DEF SkipJob
<1>16. ASSUME Tick PROVE Fencing' /\ Quiet'
  <2>1. \A r \in Review :
          /\ rows'[r].status = rows[r].status /\ rows'[r].token = rows[r].token
          /\ rows'[r].work = rows[r].work /\ rows'[r].decided = rows[r].decided
          /\ rows'[r].errors = rows[r].errors
          /\ rows[r].left = -1 => rows'[r].left = -1
    BY <1>16, <1>a, OlderRow DEF Tick
  <2>2. Fencing'
    BY <1>16, <2>1, RowStep DEF Tick
  <2>3. Quiet'
    BY <2>1 DEF IInv, Quiet, DecidedIsQuiet, CancelledIsFenced, OnlyRunningLeased
  <2>4. QED
    BY <2>2, <2>3
<1>17. ASSUME Crash PROVE Fencing' /\ Quiet'
  <2>1. rows' = rows /\ \A t \in Token : attempt'[t].pc = "idle"
    BY <1>17 DEF Crash, Idle
  <2>2. QED
    BY <2>1, AttemptStep
<1>18. ASSUME UNCHANGED vars PROVE Fencing' /\ Quiet'
  BY <1>18, AttemptStep DEF vars
<1>19. QED
  BY <1>1, <1>2, <1>3, <1>4, <1>5, <1>6, <1>7, <1>8, <1>9, <1>10, <1>11, <1>12, <1>13, <1>14,
     <1>15, <1>16, <1>17, <1>18, <1>c DEF Next, Request, Work

LEMMA Invariance == Spec => []IInv
  BY InitIInv, NextIInv, PTL DEF Spec

\* At most one attempt can write to a review, and its copy of the payload holds everything saved.
THEOREM WriterCurrent == Spec => []WriterIsCurrent
  BY Invariance, PTL DEF IInv, Fencing

-------------------------------------------------------------------------------
(* What no step may do to a row *)

\* The promises of a step about one review.
Keeps(r) ==
  /\ LET lost == rows[r].work \ rows'[r].work IN
       \/ lost \subseteq rows[r].errors
       \/ rows'[r].status = "failed" /\ \E b \in Batch : lost = {b}
  /\ rows[r].decided => rows'[r] = rows[r]
  /\ rows[r].status = "cancelled" => rows'[r] = rows[r]

\* A checkpoint that its token lets through writes to a running, undecided row.
LEMMA CheckpointKeeps ==
  ASSUME IInv, NEW t \in Token, attempt[t].pc \notin {"idle", "claimed"}, CanCheckpoint(t),
         NEW w, NEW e, NEW s, NEW b, Checkpoint(t, w, e, s, b),
         \/ attempt[t].work \subseteq w
         \/ /\ attempt[t].pc \notin {"failing", "marking"}
            /\ attempt[t].work \ attempt[t].errors \subseteq w
         \/ s = "failed" /\ \E x \in Batch : attempt[t].work \ {x} \subseteq w
  PROVE  \A r \in Review : Keeps(r)
<1>1. attempt[t].rid \in Review /\ IsWriter(t) /\ rows \in [Review -> Row]
  BY DEF IInv, TypeInv, TypeOK, HasReview, IsWriter
<1>2. /\ rows[attempt[t].rid].status = "running" /\ ~rows[attempt[t].rid].decided
      /\ rows[attempt[t].rid].work = attempt[t].work
      /\ attempt[t].pc \notin {"failing", "marking"} =>
           rows[attempt[t].rid].errors = attempt[t].errors
  BY <1>1 DEF IInv, Fencing, WriterIsCurrent, Holds
<1>3. /\ rows'[attempt[t].rid].work = w /\ rows'[attempt[t].rid].status = s
      /\ \A x \in Review \ {attempt[t].rid} : rows'[x] = rows[x]
  BY <1>1 DEF Checkpoint
<1>a. CASE attempt[t].work \subseteq w
  BY <1>2, <1>3, <1>a DEF Keeps
<1>4. CASE /\ attempt[t].pc \notin {"failing", "marking"}
           /\ attempt[t].work \ attempt[t].errors \subseteq w
  BY <1>2, <1>3, <1>4 DEF Keeps
<1>5. ASSUME s = "failed", NEW x \in Batch, attempt[t].work \ {x} \subseteq w
      PROVE  \A r \in Review : Keeps(r)
  <2> DEFINE lost == rows[attempt[t].rid].work \ w
  <2>1. lost = {x} \/ lost = {}
    BY <1>2, <1>5
  <2> QED BY <1>2, <1>3, <1>5, <2>1 DEF Keeps
<1>6. QED
  BY <1>a, <1>4, <1>5

\* A checkpoint of a running review that keeps all but what has an error on record.
LEMMA PublishKeeps ==
  ASSUME IInv, NEW t \in Token, attempt[t].pc \notin {"idle", "claimed", "failing", "marking"},
         NEW w, attempt[t].work \ attempt[t].errors \subseteq w, NEW n, PublishWork(t, w, n)
  PROVE  \A r \in Review : Keeps(r)
<1>1. CASE CanCheckpoint(t)
  BY <1>1, CheckpointKeeps DEF PublishWork
<1>2. CASE ~CanCheckpoint(t)
  BY <1>2 DEF PublishWork, Keeps
<1>3. QED
  BY <1>1, <1>2

LEMMA StepKeeps == IInv /\ [Next]_vars => \A r \in Review : Keeps(r)
<1> SUFFICES ASSUME IInv, [Next]_vars, NEW r \in Review PROVE Keeps(r)
  OBVIOUS
<1>a. rows \in [Review -> Row] /\ rows[r] \in Row
  BY DEF IInv, TypeInv, TypeOK
<1>b. /\ rows[r].decided => rows[r].status \in {"partial", "completed"}
      /\ rows[r].status # "running" => rows[r].left = -1
  BY DEF IInv, Quiet, DecidedIsQuiet, OnlyRunningLeased
<1>1. ASSUME NEW x \in Review, CreateReview(x) PROVE Keeps(r)
  BY <1>1, <1>a, <1>b DEF CreateReview, Keeps, Row
<1>2. ASSUME NEW x \in Review, QueueResume(x) PROVE Keeps(r)
  BY <1>2, <1>a DEF QueueResume, MayResume, Keeps, Row
<1>3. ASSUME NEW x \in Review, CancelReview(x) PROVE Keeps(r)
  BY <1>3, <1>a, <1>b DEF CancelReview, Keeps, Row
<1>4. ASSUME NEW x \in Review, Decide(x) PROVE Keeps(r)
  <2>1. rows[x].decided => rows'[x] = rows[x]
    BY <1>4, <1>a DEF Decide, Row
  <2>2. QED
    BY <1>4, <1>a, <2>1 DEF Decide, Keeps, Row
<1>5. ASSUME NEW t \in Token, ClaimJob(t) PROVE Keeps(r)
  BY <1>5, <1>a, <1>b DEF ClaimJob, Claimable, Keeps, Row
<1>6. ASSUME NEW t \in Token, Publish(t) \/ Start(t) PROVE Keeps(r)
  <2>1. \E w, n : PublishWork(t, w, n) /\ attempt[t].work \ attempt[t].errors \subseteq w
    <3>1. CASE Publish(t)
      <4>1. PICK new : PublishWork(t, attempt[t].work \cup new, attempt[t].calls + 1)
        BY <3>1 DEF Publish
      <4>2. attempt[t].work \ attempt[t].errors \subseteq attempt[t].work \cup new
        OBVIOUS
      <4>3. QED
        BY <4>1, <4>2
    <3>2. CASE Start(t)
      BY <3>2 DEF Start
    <3>3. QED
      BY <1>6, <3>1, <3>2
  <2>2. attempt[t].pc \notin {"idle", "claimed", "failing", "marking"}
    BY <1>6 DEF Publish, Start
  <2>3. QED
    BY <2>1, <2>2, PublishKeeps
<1>7. ASSUME NEW t \in Token, Finish(t) PROVE Keeps(r)
  <2>1. CASE CanCheckpoint(t)
    <3>1. PICK o, e : Checkpoint(t, attempt[t].work, e, o.status, o.retryable)
      BY <1>7, <2>1 DEF Finish
    <3>2. QED
      BY <1>7, <2>1, <3>1, CheckpointKeeps DEF Finish
  <2>2. CASE ~CanCheckpoint(t)
    BY <1>7, <2>2 DEF Finish, Keeps
  <2>3. QED
    BY <2>1, <2>2
<1>8. ASSUME NEW t \in Token, MarkFailed(t) PROVE Keeps(r)
  <2>1. CASE CanCheckpoint(t)
    <3>1. PICK lost \in {{}} \cup {{b} : b \in Batch} :
            Checkpoint(t, attempt[t].work \ lost, attempt[t].errors, "failed", TRUE)
      BY <1>8, <2>1 DEF MarkFailed
    <3>2. \/ attempt[t].work \subseteq attempt[t].work \ lost
          \/ \E x \in Batch : attempt[t].work \ {x} \subseteq attempt[t].work \ lost
      BY <3>1
    <3>3. QED
      BY <1>8, <2>1, <3>1, <3>2, CheckpointKeeps DEF MarkFailed
  <2>2. CASE ~CanCheckpoint(t)
    BY <1>8, <2>2 DEF MarkFailed, Keeps
  <2>3. QED
    BY <2>1, <2>2
<1>9. ASSUME NEW t \in Token, Renew(t) PROVE Keeps(r)
  BY <1>9, <1>a, <1>b DEF Renew, Holds, Keeps, Row
<1>10. ASSUME Tick PROVE Keeps(r)
  <2>1. rows[r].status # "queued" /\ rows[r].left = -1 => rows'[r] = rows[r]
    BY <1>10, <1>a, OlderRow DEF Tick
  <2>2. rows'[r].work = rows[r].work
    BY <1>10, <1>a, OlderRow DEF Tick
  <2>3. QED
    BY <1>b, <2>1, <2>2 DEF Keeps
<1>11. ASSUME UNCHANGED rows PROVE Keeps(r)
  BY <1>11 DEF Keeps
<1>12. ASSUME NEW t \in Token, LoadPayload(t) \/ Guard(t) \/ Fail(t) \/ Inspect(t)
       PROVE  UNCHANGED rows
  BY <1>12 DEF LoadPayload, Guard, Fail, Inspect
<1>13. ASSUME \/ \E x \in Review : Submit(x)
              \/ SkipJob \/ Crash \/ UNCHANGED vars
       PROVE  UNCHANGED rows
  BY <1>13 DEF Submit, SkipJob, Crash, vars
<1>14. QED
  BY <1>1, <1>2, <1>3, <1>4, <1>5, <1>6, <1>7, <1>8, <1>9, <1>10, <1>11, <1>12, <1>13
  DEF Next, Request, Work

\* No attempt, however late, takes back what another saved: only what has an error on record is
\* dropped, or the one answer whose failure is being recorded.
THEOREM ProgressKept == Spec => NoLostProgress
<1>1. IInv /\ [Next]_vars =>
        [\A r \in Review :
           LET lost == rows[r].work \ rows'[r].work IN
             \/ lost \subseteq rows[r].errors
             \/ rows'[r].status = "failed" /\ \E b \in Batch : lost = {b}]_vars
  BY StepKeeps DEF Keeps
<1>2. QED
  BY <1>1, Invariance, PTL DEF Spec, NoLostProgress

\* From the first decision of a person no worker, retry or cancellation touches the review.
THEOREM DecisionsKept == Spec => DecisionsAreKept
<1>1. IInv /\ [Next]_vars => [\A r \in Review : rows[r].decided => rows'[r] = rows[r]]_vars
  BY StepKeeps DEF Keeps
<1>2. QED
  BY <1>1, Invariance, PTL DEF Spec, DecisionsAreKept

\* A cancelled review is never written again.
THEOREM CancelledKept == Spec => CancelledIsFinal
<1>1. IInv /\ [Next]_vars =>
        [\A r \in Review : rows[r].status = "cancelled" => rows'[r] = rows[r]]_vars
  BY StepKeeps DEF Keeps
<1>2. QED
  BY <1>1, Invariance, PTL DEF Spec, CancelledIsFinal

-------------------------------------------------------------------------------
(* The queue implements the lifecycle *)

SameView(r) ==
  rows'[r].status = rows[r].status /\ rows'[r].work = rows[r].work /\ rows'[r].decided = rows[r].decided

\* The new view when a step changes one undecided review.
LEMMA MoveOf ==
  ASSUME IInv, IInv', NEW r \in Review,
         \A x \in Review \ {r} : SameView(x)
  PROVE  /\ rows'[r].work \subseteq Batch
         /\ ~rows'[r].decided =>
              [x \in Review |-> [status |-> rows[x].status, work |-> rows[x].work,
                                 decided |-> rows[x].decided]]'
            = [[x \in Review |-> [status |-> rows[x].status, work |-> rows[x].work,
                                  decided |-> rows[x].decided]]
                 EXCEPT ![r] = [status |-> rows'[r].status, work |-> rows'[r].work, decided |-> FALSE]]
  BY DEF IInv, TypeInv, TypeOK, Row, SameView

LEMMA SameViewStutters ==
  ASSUME \A x \in Review : SameView(x)
  PROVE  UNCHANGED [r \in Review |-> [status |-> rows[r].status, work |-> rows[r].work,
                                      decided |-> rows[r].decided]]
  BY DEF SameView

\* Every write of a row, seen from the lifecycle.
LEMMA RequestMoves ==
  ASSUME IInv, IInv', NEW r \in Review, CreateReview(r) \/ QueueResume(r) \/ CancelReview(r)
  PROVE  Lifecycle!Next
<1>a. rows \in [Review -> Row] /\ (rows[r].decided => rows[r].status \in {"partial", "completed"})
  BY DEF IInv, TypeInv, TypeOK, Quiet, DecidedIsQuiet
<1>1. ASSUME CreateReview(r) PROVE Lifecycle!Open(r)
  <2>1. /\ rows[r].status = "absent" /\ ~rows[r].decided /\ rows'[r].status = "queued"
        /\ rows'[r].work = rows[r].work /\ ~rows'[r].decided
        /\ \A x \in Review \ {r} : SameView(x)
    BY <1>1, <1>a DEF CreateReview, SameView, Row
  <2>2. Lifecycle!Moves(r, {"absent"}, "queued", rows[r].work)
    BY <2>1, MoveOf DEF Lifecycle!Moves
  <2>3. QED
    BY <2>2 DEF Lifecycle!Open, Lifecycle!Moves
<1>2. ASSUME QueueResume(r) PROVE Lifecycle!Resume(r)
  <2>1. /\ rows[r].status \in {"queued", "running", "failed", "partial"} /\ ~rows[r].decided
        /\ rows'[r].status = "queued"
        /\ rows'[r].work = rows[r].work /\ ~rows'[r].decided
        /\ \A x \in Review \ {r} : SameView(x)
    BY <1>2, <1>a DEF QueueResume, MayResume, SameView, Row
  <2>2. Lifecycle!Moves(r, {"queued", "running", "failed", "partial"}, "queued", rows[r].work)
    BY <2>1, MoveOf DEF Lifecycle!Moves
  <2>3. QED
    BY <2>2 DEF Lifecycle!Resume, Lifecycle!Moves
<1>3. ASSUME CancelReview(r) PROVE Lifecycle!Cancel(r)
  <2>1. /\ rows[r].status \in {"queued", "running"} /\ ~rows[r].decided
        /\ rows'[r].status = "cancelled"
        /\ rows'[r].work = rows[r].work /\ ~rows'[r].decided
        /\ \A x \in Review \ {r} : SameView(x)
    BY <1>3, <1>a DEF CancelReview, SameView, Row
  <2>2. Lifecycle!Moves(r, {"queued", "running"}, "cancelled", rows[r].work)
    BY <2>1, MoveOf DEF Lifecycle!Moves
  <2>3. QED
    BY <2>2 DEF Lifecycle!Cancel, Lifecycle!Moves
<1>4. QED
  BY <1>1, <1>2, <1>3 DEF Lifecycle!Next

LEMMA DecideMoves ==
  ASSUME IInv, NEW r \in Review, Decide(r)
  PROVE  Lifecycle!Decide(r)
<1>1. rows \in [Review -> Row]
  BY DEF IInv, TypeInv, TypeOK
<1>2. /\ rows[r].status \in {"partial", "completed"}
      /\ rows'[r].status = rows[r].status /\ rows'[r].work = rows[r].work /\ rows'[r].decided = TRUE
      /\ \A x \in Review \ {r} : SameView(x)
  BY <1>1 DEF Decide, SameView, Row
<1>3. QED
  BY <1>2 DEF Lifecycle!Decide, SameView

LEMMA ClaimMoves ==
  ASSUME IInv, IInv', NEW t \in Token, ClaimJob(t)
  PROVE  \E r \in Review : Lifecycle!Begin(r)
<1> DEFINE r == Head(pool)
<1>1. r \in Review /\ rows \in [Review -> Row]
  BY DEF ClaimJob, IInv, TypeInv, TypeOK
<1>2. /\ rows[r].status \in {"queued", "failed", "running"} /\ rows'[r].status = "running"
      /\ rows'[r].work = rows[r].work /\ rows'[r].decided = rows[r].decided
      /\ \A x \in Review \ {r} : SameView(x)
  BY <1>1 DEF ClaimJob, Claimable, SameView, Row
<1> HIDE DEF r
<1>3. ~rows[r].decided
  BY <1>1, <1>2 DEF IInv, Quiet, DecidedIsQuiet
<1>4. Lifecycle!Moves(r, {"queued", "failed", "running"}, "running", rows[r].work)
  BY <1>1, <1>2, <1>3, MoveOf DEF Lifecycle!Moves
<1>5. QED
  BY <1>1, <1>4 DEF Lifecycle!Begin, Lifecycle!Moves

LEMMA CheckpointMoves ==
  ASSUME IInv, IInv', NEW t \in Token, attempt[t].pc \notin {"idle", "claimed"}, CanCheckpoint(t),
         NEW w, NEW e, NEW s, NEW b, Checkpoint(t, w, e, s, b)
  PROVE  \E r \in Review : /\ rows[r].work = attempt[t].work
                           /\ rows[r].work \in SUBSET Batch /\ w \in SUBSET Batch
                           /\ Lifecycle!Moves(r, {"running"}, s, w)
<1> DEFINE r == attempt[t].rid
<1>1. r \in Review /\ IsWriter(t) /\ rows \in [Review -> Row]
  BY DEF IInv, TypeInv, TypeOK, HasReview, IsWriter
<1>2. /\ rows[r].status = "running" /\ ~rows[r].decided /\ ~attempt[t].decided
      /\ rows[r].work = attempt[t].work
  BY <1>1 DEF IInv, Fencing, WriterIsCurrent, Holds
<1>3. /\ rows'[r].status = s /\ rows'[r].work = w /\ ~rows'[r].decided
      /\ \A x \in Review \ {r} : SameView(x)
  BY <1>1, <1>2 DEF Checkpoint, SameView
<1> HIDE DEF r
<1>4. Lifecycle!Moves(r, {"running"}, s, w)
  BY <1>1, <1>2, <1>3, MoveOf DEF r, Lifecycle!Moves
<1>5. w \in SUBSET Batch /\ rows[r].work \in SUBSET Batch
  BY <1>1, <1>4 DEF Lifecycle!Moves, Row
<1>6. QED
  BY <1>1, <1>2, <1>4, <1>5

\* A running checkpoint saves more, or starts parts again.
LEMMA PublishMoves ==
  ASSUME IInv, IInv', NEW t \in Token, attempt[t].pc \notin {"idle", "claimed"},
         NEW w, w \subseteq attempt[t].work \/ attempt[t].work \subseteq w, NEW n, PublishWork(t, w, n)
  PROVE  Lifecycle!Next \/ UNCHANGED rows
<1>1. CASE CanCheckpoint(t)
  <2>1. Checkpoint(t, w, attempt[t].errors, "running", FALSE)
    BY <1>1 DEF PublishWork
  <2>2. PICK r \in Review : /\ rows[r].work = attempt[t].work
                            /\ rows[r].work \in SUBSET Batch /\ w \in SUBSET Batch
                            /\ Lifecycle!Moves(r, {"running"}, "running", w)
    BY <1>1, <2>1, CheckpointMoves
  <2>3. CASE rows[r].work \subseteq w
    <3>1. w = rows[r].work \cup w
      BY <2>3
    <3>2. Lifecycle!Save(r)
      BY <2>2, <3>1 DEF Lifecycle!Save, Lifecycle!Moves
    <3>3. QED
      BY <2>2, <3>2 DEF Lifecycle!Next
  <2>4. CASE w \subseteq rows[r].work
    <3>1. w = rows[r].work \ (rows[r].work \ w)
      BY <2>4
    <3>2. Lifecycle!Redo(r)
      BY <2>2, <3>1 DEF Lifecycle!Redo, Lifecycle!Moves
    <3>3. QED
      BY <2>2, <3>2 DEF Lifecycle!Next
  <2>5. QED
    BY <2>2, <2>3, <2>4
<1>2. CASE ~CanCheckpoint(t)
  BY <1>2 DEF PublishWork
<1>3. QED
  BY <1>1, <1>2

\* Seen from the lifecycle every step is one of its own or a stutter.
LEMMA Simulation ==
  ASSUME IInv, IInv', [Next]_vars
  PROVE  Lifecycle!Next \/ \A x \in Review : SameView(x)
<1>1. ASSUME NEW r \in Review, CreateReview(r) \/ QueueResume(r) \/ CancelReview(r)
      PROVE  Lifecycle!Next
  BY <1>1, RequestMoves
<1>2. ASSUME NEW r \in Review, Decide(r) PROVE Lifecycle!Next
  BY <1>2, DecideMoves DEF Lifecycle!Next
<1>3. ASSUME NEW t \in Token, ClaimJob(t) PROVE Lifecycle!Next
  BY <1>3, ClaimMoves DEF Lifecycle!Next
<1>5. ASSUME UNCHANGED rows PROVE \A x \in Review : SameView(x)
  BY <1>5 DEF SameView
<1>6. ASSUME NEW t \in Token, Publish(t) \/ Start(t)
      PROVE  Lifecycle!Next \/ UNCHANGED rows
  <2>1. \E w, n : /\ PublishWork(t, w, n)
                  /\ w \subseteq attempt[t].work \/ attempt[t].work \subseteq w
    <3>1. CASE Publish(t)
      <4>1. PICK new : PublishWork(t, attempt[t].work \cup new, attempt[t].calls + 1)
        BY <3>1 DEF Publish
      <4>2. attempt[t].work \subseteq attempt[t].work \cup new
        OBVIOUS
      <4>3. QED
        BY <4>1, <4>2
    <3>2. CASE Start(t)
      <4>1. PublishWork(t, attempt[t].work \ attempt[t].errors, attempt[t].calls)
        BY <3>2 DEF Start
      <4>2. attempt[t].work \ attempt[t].errors \subseteq attempt[t].work
        OBVIOUS
      <4>3. QED
        BY <4>1, <4>2
    <3>3. QED
      BY <1>6, <3>1, <3>2
  <2>2. attempt[t].pc \notin {"idle", "claimed"}
    BY <1>6 DEF Publish, Start
  <2>3. QED
    BY <2>1, <2>2, PublishMoves
<1>7. ASSUME NEW t \in Token, Finish(t) PROVE Lifecycle!Next \/ UNCHANGED rows
  <2>1. attempt[t].pc = "guarded"
    BY <1>7 DEF Finish
  <2>2. CASE CanCheckpoint(t)
    <3>1. PICK o \in Outcome(attempt[t].work), e \in {{}, Batch \ attempt[t].work} :
            Checkpoint(t, attempt[t].work, e, o.status, o.retryable)
      BY <1>7, <2>2 DEF Finish
    <3>2. Outcome(attempt[t].work) \subseteq [status: {"completed", "partial"}, retryable: BOOLEAN]
      BY DEF Outcome
    <3>3. o.status \in {"partial", "completed"}
      BY <3>1, <3>2
    <3>a. PICK w, s, b : /\ w = attempt[t].work /\ s \in {"partial", "completed"}
                         /\ Checkpoint(t, w, e, s, b)
      BY <3>1, <3>3
    <3>b. attempt[t].pc \notin {"idle", "claimed"}
      BY <2>1
    <3>4. PICK r \in Review : /\ rows[r].work = attempt[t].work
                              /\ rows[r].work \in SUBSET Batch /\ w \in SUBSET Batch
                              /\ Lifecycle!Moves(r, {"running"}, s, w)
      BY <2>2, <3>a, <3>b, CheckpointMoves
    <3>5. Lifecycle!End(r)
      BY <3>a, <3>4 DEF Lifecycle!End, Lifecycle!Moves
    <3>6. QED
      BY <3>4, <3>5 DEF Lifecycle!Next
  <2>3. CASE ~CanCheckpoint(t)
    BY <1>7, <2>3 DEF Finish
  <2>4. QED
    BY <2>2, <2>3
<1>8. ASSUME NEW t \in Token, MarkFailed(t) PROVE Lifecycle!Next \/ UNCHANGED rows
  <2>1. CASE CanCheckpoint(t)
    <3>1. PICK lost \in {{}} \cup {{b} : b \in Batch} :
            Checkpoint(t, attempt[t].work \ lost, attempt[t].errors, "failed", TRUE)
      BY <1>8, <2>1 DEF MarkFailed
    <3>a. PICK w, e : w = attempt[t].work \ lost /\ Checkpoint(t, w, e, "failed", TRUE)
      BY <3>1
    <3>b. lost \in SUBSET Batch /\ attempt[t].pc \notin {"idle", "claimed"}
      BY <1>8, <3>1 DEF MarkFailed
    <3>2. PICK r \in Review :
            /\ rows[r].work = attempt[t].work
            /\ rows[r].work \in SUBSET Batch /\ w \in SUBSET Batch
            /\ Lifecycle!Moves(r, {"running"}, "failed", w)
      BY <2>1, <3>a, <3>b, CheckpointMoves
    <3>3. Lifecycle!Fail(r)
      BY <3>a, <3>b, <3>2 DEF Lifecycle!Fail, Lifecycle!Moves
    <3>4. QED
      BY <3>2, <3>3 DEF Lifecycle!Next
  <2>2. CASE ~CanCheckpoint(t)
    BY <1>8, <2>2 DEF MarkFailed
  <2>3. QED
    BY <2>1, <2>2
<1>a. rows \in [Review -> Row]
  BY DEF IInv, TypeInv, TypeOK
<1>9. ASSUME NEW t \in Token, Renew(t) PROVE \A x \in Review : SameView(x)
  BY <1>9, <1>a DEF Renew, SameView, Row
<1>10. ASSUME Tick PROVE \A x \in Review : SameView(x)
  BY <1>10, <1>a, OlderRow DEF Tick, SameView
<1>11. ASSUME NEW t \in Token, LoadPayload(t) \/ Guard(t) \/ Fail(t) \/ Inspect(t)
       PROVE  UNCHANGED rows
  BY <1>11 DEF LoadPayload, Guard, Fail, Inspect
<1>12. ASSUME \/ \E r \in Review : Submit(r)
              \/ SkipJob \/ Crash \/ UNCHANGED vars
       PROVE  UNCHANGED rows
  BY <1>12 DEF Submit, SkipJob, Crash, vars
<1>13. QED
  BY <1>1, <1>2, <1>3, <1>5, <1>6, <1>7, <1>8, <1>9, <1>10, <1>11, <1>12 DEF Next, Request, Work

\* The queue, its leases, its threads and restarts implement the lifecycle users are promised.
THEOREM QueueImplementsLifecycle == Spec => ImplementsLifecycle
<1>1. Init => Lifecycle!Init
  BY DEF Init, NoRow, Lifecycle!Init
<1>2. IInv /\ IInv' /\ [Next]_vars =>
        [Lifecycle!Next]_([r \in Review |-> [status |-> rows[r].status, work |-> rows[r].work,
                                             decided |-> rows[r].decided]])
  BY Simulation, SameViewStutters
<1>3. QED
  BY <1>1, <1>2, Invariance, PTL DEF Spec, ImplementsLifecycle, Lifecycle!Spec
===============================================================================
