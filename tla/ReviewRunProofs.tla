----------------------------- MODULE ReviewRunProofs ----------------------------
(***************************************************************************)
(* Theorems about ReviewRun: one attempt of the standard or deep engine,   *)
(* for any groups, threads, slots, budget and retries.                     *)
(*                                                                         *)
(* What carries the properties:                                            *)
(*   SlotsInv   every model slot is free, held by one job or by others;    *)
(*   Synced     the row holds the groups and the calls the threads share;  *)
(*   Queue      the pool holds each submitted job once;                    *)
(*   Verifying  a group is verified once, after its review and the         *)
(*              planning call were taken;                                  *)
(*   Phases     what the main thread knows of the jobs where it is;        *)
(*   Stale      a thread is only told that the review is not its attempt's *)
(*              when that is so, and the planning call outlives the main   *)
(*              thread only then;                                          *)
(*   Recorded   a failed job is among the failures, and the stop flag has  *)
(*              a reason that is or will be one of them.                   *)
(***************************************************************************)
EXTENDS ReviewRun, FiniteSetTheorems, SequenceTheorems, TLAPS

\* A job that is not under way: nobody runs it and its result is not waited for.
Over == {"none", "taken", "failed", "cancelled"}
Held == {j \in Job : pc[j] \in Holding}

SlotsInv == slots.free + slots.others + Cardinality(Held) = Slots

\* The row holds what the threads share.
Synced == p.batches = row.saved.batches /\ p.calls = row.saved.calls

Queue ==
  /\ \A i \in 1..Len(pool) : pc[pool[i]] = "queued"
  /\ \A i, k \in 1..Len(pool) : pool[i] = pool[k] => i = k

Verifying == \A t \in Task : pc[Verify(t)] # "none" => ResearchTaken /\ pc[Review(t)] = "taken"

Phases ==
  /\ row.status # "running" => main.at = "done"
  /\ main.at \in {"intake", "reuse"} => pool = <<>> /\ \A j \in Job : pc[j] = "none"
  /\ main.at \in {"loop", "await", "research"} => pc[Cross] = "none"
  /\ main.at = "await" => main.task \in Task /\ pc[Review(main.task)] = "ok"
  /\ main.at \in {"research", "cross", "final"} =>
       \A j \in Groups : pc[j] \in {"none", "taken", "failed"}
  /\ main.at \in {"cross", "final"} => ResearchTaken
  /\ main.at = "final" => pc[Cross] \in {"none", "taken", "failed"}

Stale ==
  /\ \A j \in Job : pc[j] = "stopped" => ~row.mine \/ main.at = "done"
  /\ pc[Research] \notin Over =>
       \/ main.at \in {"loop", "await", "research"}
       \/ main.at = "done" /\ ~row.mine

Recorded ==
  main.at \notin {"failing", "done"} =>
    /\ \A j \in Job : pc[j] = "failed" => j \in failures.of
    /\ stopped => failures.of # {} \/ \E j \in Job : pc[j] = "pause"

Course == Synced /\ Queue /\ Verifying /\ Phases /\ Stale /\ Recorded /\ CompletedMeansAll
IInv == TypeOK /\ SlotsInv /\ Course

-------------------------------------------------------------------------------
(* Jobs *)

\* The planning call, the cross check, and for each group a review and a verification.
LEMMA JobFacts ==
  /\ Research \in Job /\ Cross \in Job /\ Groups \subseteq Job
  /\ Research # Cross /\ Research \notin Groups /\ Cross \notin Groups
  /\ \A t \in Task : Review(t) \in Groups /\ Verify(t) \in Groups
  /\ \A t \in Task : Review(t)[1] = "review" /\ Verify(t)[1] = "verify"
  /\ \A t, u \in Task : Review(t) # Verify(u)
  /\ \A t, u \in Task : Review(t) = Review(u) \/ Verify(t) = Verify(u) => t = u
  /\ \A j \in Groups : \E t \in Task : j = Review(t) \/ j = Verify(t)
  /\ \A j \in Job : j \in Groups \/ j = Research \/ j = Cross
<1> USE DEF Research, Cross, Groups, Job, Review, Verify
<1>1. \A j \in Groups : \E t \in Task : j = Review(t) \/ j = Verify(t)
  <2> SUFFICES ASSUME NEW j \in Groups PROVE \E t \in Task : j = Review(t) \/ j = Verify(t)
    OBVIOUS
  <2>1. j = <<j[1], j[2]>> /\ j[1] \in {"review", "verify"} /\ j[2] \in Task
    OBVIOUS
  <2> QED BY <2>1
<1> QED BY <1>1, RunAssumption

LEMMA PairFinite == ASSUME NEW a, NEW b PROVE IsFiniteSet({a, b})
<1>1. IsFiniteSet({} \cup {a})
  BY FS_EmptySet, FS_AddElement
<1>2. IsFiniteSet(({} \cup {a}) \cup {b})
  BY <1>1, FS_AddElement
<1>3. {a, b} = ({} \cup {a}) \cup {b}
  OBVIOUS
<1> QED BY <1>2, <1>3

LEMMA JobFinite == IsFiniteSet(Job)
<1>1. IsFiniteSet({"review", "verify"}) /\ IsFiniteSet({Research, Cross})
  BY PairFinite
<1>2. IsFiniteSet(Groups)
  BY <1>1, FS_Product, RunAssumption DEF Groups
<1> QED BY <1>1, <1>2, FS_Union DEF Job

-------------------------------------------------------------------------------
(* Slots *)

\* One job more inside a slot, or one less.
LEMMA HeldStep ==
  ASSUME NEW A \in SUBSET Job, NEW j \in Job
  PROVE  /\ Cardinality(A) \in Nat
         /\ j \notin A => Cardinality(A \cup {j}) = Cardinality(A) + 1
         /\ j \in A => Cardinality(A \ {j}) = Cardinality(A) - 1 /\ Cardinality(A) > 0
<1>1. IsFiniteSet(A)
  BY JobFinite, FS_Subset
<1>2. IsFiniteSet(A \ {j}) /\ Cardinality(A \ {j}) \in Nat
  BY JobFinite, FS_Subset, FS_CardinalityType
<1>3. j \notin A => Cardinality(A \cup {j}) = Cardinality(A) + 1
  BY <1>1, FS_AddElement
<1>4. j \in A => Cardinality(A) = Cardinality(A \ {j}) + 1
  <2>1. j \in A => A = (A \ {j}) \cup {j}
    OBVIOUS
  <2> QED BY <1>2, <2>1, FS_AddElement
<1> QED BY <1>1, <1>2, <1>3, <1>4, FS_CardinalityType

\* A step of one job, seen from the slots.
LEMMA AtHeld ==
  ASSUME TypeOK, NEW j \in Job, NEW w, At(j, w)
  PROVE  /\ pc[j] \notin Holding /\ w \notin Holding => Held' = Held
         /\ pc[j] \in Holding /\ w \in Holding => Held' = Held
         /\ pc[j] \notin Holding /\ w \in Holding => Held' = Held \cup {j} /\ j \notin Held
         /\ pc[j] \in Holding /\ w \notin Holding => Held' = Held \ {j} /\ j \in Held
<1>1. /\ pc'[j] = w /\ \A k \in Job : k # j => pc'[k] = pc[k]
      /\ Held' = {k \in Job : pc'[k] \in Holding}
  BY DEF TypeOK, At, Held
<1> QED BY <1>1 DEF Held

LEMMA SameHeld ==
  ASSUME \A j \in Job : pc'[j] \in Holding <=> pc[j] \in Holding
  PROVE  Held' = Held
<1>1. Held' = {j \in Job : pc'[j] \in Holding}
  BY DEF Held
<1> QED BY <1>1 DEF Held

\* Where the jobs are after the thread pool was shut down.
LEMMA Shut ==
  ASSUME TypeOK, NEW taken, Shutdown(taken), \A j \in taken : pc[j] # "queued"
  PROVE  /\ pool' = <<>>
         /\ \A j \in Job : /\ j \in taken => pc'[j] = Taken(j)
                           /\ j \notin taken /\ pc[j] = "queued" => pc'[j] = "cancelled"
                           /\ j \notin taken /\ pc[j] # "queued" => pc'[j] = pc[j]
<1>1. pool' = <<>>
  BY DEF Shutdown
<1> SUFFICES ASSUME NEW j \in Job
             PROVE  /\ j \in taken => pc'[j] = Taken(j)
                    /\ j \notin taken /\ pc[j] = "queued" => pc'[j] = "cancelled"
                    /\ j \notin taken /\ pc[j] # "queued" => pc'[j] = pc[j]
  BY <1>1
<1>2. pc'[j] = CASE j \in taken -> Taken(j) [] pc[j] = "queued" -> "cancelled" [] OTHER -> pc[j]
  BY DEF Shutdown
<1>3. CASE j \in taken
  BY <1>2, <1>3
<1>4. CASE j \notin taken /\ pc[j] = "queued"
  BY <1>2, <1>4
<1>5. CASE j \notin taken /\ pc[j] # "queued"
  BY <1>2, <1>5
<1> QED BY <1>3, <1>4, <1>5

LEMMA LeaveHeld ==
  ASSUME TypeOK, NEW why, NEW taken, Leave(why, taken),
         \A j \in taken : pc[j] \in Result
  PROVE  Held' = Held
<1> SUFFICES ASSUME NEW j \in Job PROVE pc'[j] \in Holding <=> pc[j] \in Holding
  BY SameHeld
<1> QED BY Shut DEF Leave, Taken, Holding, Result, Failed

\* The main thread takes results and submits jobs: it holds no slot itself.
LEMMA MainHeld == IInv /\ Main => UNCHANGED slots /\ Held' = Held
<1> SUFFICES ASSUME IInv, Main PROVE UNCHANGED slots /\ Held' = Held
  OBVIOUS
<1> USE JobFacts DEF Holding
<1>1. TypeOK /\ Verifying /\ Phases
  BY DEF IInv, Course
<1>2. pc \in [Job -> Running \cup Result \cup {"none", "queued", "cancelled", "taken", "failed"}]
  BY <1>1 DEF TypeOK
<1>3. CASE Intake
  <2>1. CASE UNCHANGED pc
    BY <1>3, <2>1 DEF Intake, Held
  <2>2. CASE Leave(Guard, {})
    BY <1>1, <1>3, <2>2, LeaveHeld DEF Intake
  <2> QED BY <1>3, <2>1, <2>2 DEF Intake
<1>4. CASE SubmitGroups
  <2>1. CASE Leave("hard", {})
    BY <1>1, <1>4, <2>1, LeaveHeld DEF SubmitGroups
  <2>2. ASSUME NEW kept \in SUBSET p.batches,
               pc' = [j \in Job |-> IF j = Research \/ j \in {Review(t) : t \in Task \ kept}
                                    THEN "queued" ELSE pc[j]]
        PROVE  Held' = Held
    BY <1>1, <1>4, <2>2, SameHeld DEF SubmitGroups, Phases
  <2> QED BY <1>4, <2>1, <2>2 DEF SubmitGroups
<1>5. ASSUME NEW j \in Groups, TakeFailed(j) PROVE UNCHANGED slots /\ Held' = Held
  <2>1. pc[j] \in Result /\ pc[j] \notin Holding
    BY <1>5 DEF TakeFailed, Result, Failed
  <2>2. CASE Leave("stopped", {j})
    BY <1>1, <1>5, <2>1, <2>2, LeaveHeld DEF TakeFailed
  <2>3. CASE At(j, "failed")
    BY <1>1, <1>5, <2>1, <2>3, AtHeld DEF TakeFailed
  <2> QED BY <1>5, <2>2, <2>3 DEF TakeFailed
<1>6. ASSUME NEW t \in Task, TakeReview(t) PROVE UNCHANGED slots /\ Held' = Held
  BY <1>6 DEF TakeReview, Held
<1>7. ASSUME NEW t \in Task, SaveGroup(t) PROVE UNCHANGED slots /\ Held' = Held
  <2>1. pc[Verify(t)] \in Result /\ pc[Verify(t)] \notin Holding
    BY <1>7 DEF SaveGroup, Result
  <2>2. CASE Leave(Guard, {Verify(t)})
    BY <1>1, <1>7, <2>1, <2>2, LeaveHeld DEF SaveGroup
  <2>3. CASE At(Verify(t), "taken")
    BY <1>1, <1>7, <2>1, <2>3, AtHeld DEF SaveGroup
  <2> QED BY <1>7, <2>2, <2>3 DEF SaveGroup
<1>8. CASE SubmitVerify
  <2>1. CASE pc[Research] = "stopped" /\ Leave("stopped", {Research})
    BY <1>1, <1>8, <2>1, LeaveHeld DEF SubmitVerify, Result, Failed
  <2> DEFINE t == main.task
  <2>2. t \in Task /\ pc[Review(t)] = "ok" /\ pc[Verify(t)] \notin Holding
    BY <1>1, <1>8 DEF SubmitVerify, Phases, Verifying
  <2>3. CASE TakeResearch /\ pc' = [pc EXCEPT ![Research] = Taken(Research),
                                             ![Review(t)] = "taken", ![Verify(t)] = "queued"]
    <3>1. pc[Research] \notin Holding
      BY <2>3 DEF TakeResearch, Result, Failed
    <3>2. \A j \in Job : pc'[j] = pc[j] \/ (pc[j] \notin Holding /\ pc'[j] \notin Holding)
      BY <1>2, <2>2, <2>3, <3>1 DEF Taken
    <3> QED BY <1>8, <3>2, SameHeld DEF SubmitVerify
  <2>4. CASE Submit(Verify(t), Review(t))
    <3>1. \A j \in Job : pc'[j] = pc[j] \/ (pc[j] \notin Holding /\ pc'[j] \notin Holding)
      BY <1>2, <2>2, <2>4 DEF Submit
    <3> QED BY <1>8, <3>1, SameHeld DEF SubmitVerify
  <2> QED BY <1>8, <2>1, <2>3, <2>4 DEF SubmitVerify
<1>9. CASE EndLoop
  BY <1>9 DEF EndLoop, Held
<1>10. CASE AttachEvidence
  <2>1. CASE Leave("stopped", {Research}) /\ pc[Research] = "stopped"
    BY <1>1, <1>10, <2>1, LeaveHeld DEF AttachEvidence, Result, Failed
  <2>2. CASE TakeResearch /\ At(Research, Taken(Research))
    BY <1>1, <1>10, <2>2, AtHeld DEF AttachEvidence, TakeResearch, Taken, Result, Failed
  <2>3. CASE Leave("hard", {})
    BY <1>1, <1>10, <2>3, LeaveHeld DEF AttachEvidence
  <2>4. CASE At(Cross, "slot") \/ At(Cross, "error")
    BY <1>1, <1>10, <2>4, AtHeld DEF AttachEvidence, Phases
  <2>5. CASE UNCHANGED pc
    BY <1>10, <2>5 DEF AttachEvidence, Held
  <2> QED BY <1>10, <2>1, <2>2, <2>3, <2>4, <2>5 DEF AttachEvidence
<1>11. CASE TakeCross
  <2>1. pc[Cross] \in Result /\ pc[Cross] \notin Holding
    BY <1>11 DEF TakeCross, Result, Failed
  <2>2. CASE Leave("stopped", {Cross})
    BY <1>1, <1>11, <2>1, <2>2, LeaveHeld DEF TakeCross
  <2>3. CASE At(Cross, "taken") \/ At(Cross, "failed")
    BY <1>1, <1>11, <2>1, <2>3, AtHeld DEF TakeCross
  <2> QED BY <1>11, <2>2, <2>3 DEF TakeCross
<1>12. CASE Finish
  <2>1. CASE UNCHANGED pc
    BY <1>12, <2>1 DEF Finish, Held
  <2>2. CASE Leave(Guard, {}) \/ Leave("hard", {})
    BY <1>1, <1>12, <2>2, LeaveHeld DEF Finish
  <2> QED BY <1>12, <2>1, <2>2 DEF Finish
<1>13. CASE MarkFailed
  BY <1>13 DEF MarkFailed, Held
<1> QED BY <1>3, <1>4, <1>5, <1>6, <1>7, <1>8, <1>9, <1>10, <1>11, <1>12, <1>13 DEF Main

\* A slot is taken by the job that then holds it, and freed by the job that held it.
LEMMA SlotsStep ==
  IInv /\ [Next]_vars =>
    SlotsInv' /\ slots' \in [free: 0..Slots, others: 0..Slots, left: 0..OtherCalls]
<1> SUFFICES ASSUME IInv, [Next]_vars
             PROVE  SlotsInv' /\ slots' \in [free: 0..Slots, others: 0..Slots, left: 0..OtherCalls]
  OBVIOUS
<1> USE JobFacts DEF Holding
<1>1. TypeOK /\ SlotsInv /\ Phases
  BY DEF IInv, Course
<1>2. /\ slots \in [free: 0..Slots, others: 0..Slots, left: 0..OtherCalls]
      /\ Slots \in Nat \ {0} /\ OtherCalls \in Nat
      /\ slots.free + slots.others + Cardinality(Held) = Slots
      /\ Held \in SUBSET Job /\ Cardinality(Held) \in Nat
  BY <1>1, HeldStep, RunAssumption DEF TypeOK, SlotsInv, Held
<1>3. SlotsInv' <=> slots'.free + slots'.others + Cardinality(Held') = Slots
  BY DEF SlotsInv
<1>4. CASE UNCHANGED slots /\ Held' = Held
  BY <1>2, <1>3, <1>4
<1>5. ASSUME NEW j \in Job, TakeSlot, slots.free > 0, Held' = Held \cup {j}, j \notin Held
      PROVE  SlotsInv' /\ slots' \in [free: 0..Slots, others: 0..Slots, left: 0..OtherCalls]
  <2>1. Cardinality(Held') = Cardinality(Held) + 1
    BY <1>2, <1>5, HeldStep
  <2> QED BY <1>2, <1>3, <1>5, <2>1 DEF TakeSlot
<1>6. ASSUME NEW j \in Job, FreeSlot, Held' = Held \ {j}, j \in Held
      PROVE  SlotsInv' /\ slots' \in [free: 0..Slots, others: 0..Slots, left: 0..OtherCalls]
  <2>1. Cardinality(Held') = Cardinality(Held) - 1 /\ Cardinality(Held) > 0
    BY <1>2, <1>6, HeldStep
  <2> QED BY <1>2, <1>3, <1>6, <2>1 DEF FreeSlot
<1>7. CASE Main
  BY <1>4, <1>7, MainHeld
<1>8. CASE StartJob
  <2>1. Head(pool) \in Job /\ pc[Head(pool)] = "queued"
    <3>1. pool \in Seq(Job) /\ pool # <<>>
      BY <1>1, <1>8 DEF StartJob, TypeOK
    <3>2. Head(pool) = pool[1] /\ 1 \in 1..Len(pool) /\ pool[1] \in Job
      BY <3>1
    <3> QED BY <3>2 DEF IInv, Course, Queue
  <2> QED BY <1>1, <1>4, <1>8, <2>1, AtHeld DEF StartJob
<1>9. ASSUME NEW j \in Job, Step(j)
      PROVE  SlotsInv' /\ slots' \in [free: 0..Slots, others: 0..Slots, left: 0..OtherCalls]
  <2>1. CASE AcquireSlot(j)
    BY <1>1, <1>5, <2>1, AtHeld DEF AcquireSlot
  <2>2. CASE GiveUp(j) \/ WakeUp(j)
    BY <1>1, <1>4, <2>2, AtHeld DEF GiveUp, WakeUp, Waiting
  <2>3. CASE BeginCall(j)
    <3>1. CASE Refused(j) /\ FreeSlot
      BY <1>1, <1>6, <2>3, <3>1, AtHeld DEF BeginCall, Refused, Guard
    <3>2. CASE At(j, "calling") /\ UNCHANGED slots
      BY <1>1, <1>4, <2>3, <3>2, AtHeld DEF BeginCall
    <3> QED BY <2>3, <3>1, <3>2 DEF BeginCall
  <2>4. CASE EndCall(j)
    <3>1. CASE At(j, "answered") /\ UNCHANGED slots
      BY <1>1, <1>4, <2>4, <3>1, AtHeld DEF EndCall
    <3>2. ASSUME NEW w \in {"slot", "pausing", "hard", "error", "pause"}, At(j, w), FreeSlot
          PROVE  SlotsInv' /\ slots' \in [free: 0..Slots, others: 0..Slots, left: 0..OtherCalls]
      BY <1>1, <1>6, <2>4, <3>2, AtHeld DEF EndCall
    <3> QED BY <2>4, <3>1, <3>2 DEF EndCall, Retry
  <2>5. CASE Answer(j)
    BY <1>1, <1>6, <2>5, AtHeld DEF Answer, Guard
  <2> QED BY <1>9, <2>1, <2>2, <2>3, <2>4, <2>5 DEF Step
<1>10. CASE PublishPlan \/ Retrieve
  BY <1>1, <1>4, <1>10, AtHeld DEF PublishPlan, Retrieve, Guard
<1>11. CASE LoseReview \/ Forbid \/ UNCHANGED vars
  BY <1>4, <1>11 DEF LoseReview, Forbid, vars, Held
<1>12. CASE OtherTakes \/ OtherReturns
  <2>1. Held' = Held
    BY <1>12 DEF OtherTakes, OtherReturns, Held
  <2>2. CASE OtherTakes
    <3>1. /\ slots'.free = slots.free - 1 /\ slots'.others = slots.others + 1
          /\ slots' \in [free: 0..Slots, others: 0..Slots, left: 0..OtherCalls]
      BY <1>2, <2>2 DEF OtherTakes
    <3> QED BY <1>2, <1>3, <2>1, <3>1
  <2>3. CASE OtherReturns
    <3>1. slots' = [free |-> slots.free + 1, others |-> slots.others - 1, left |-> slots.left]
      BY <1>2, <2>3 DEF OtherReturns
    <3>2. slots.others - 1 \in 0..Slots /\ slots.free + 1 \in 0..Slots
      BY <1>2, <2>3 DEF OtherReturns
    <3> QED BY <1>2, <1>3, <2>1, <3>1, <3>2
  <2> QED BY <1>12, <2>2, <2>3
<1> QED BY <1>7, <1>8, <1>9, <1>10, <1>11, <1>12 DEF Next, Idle

-------------------------------------------------------------------------------
(* Types *)

Place == Running \cup Result \cup {"none", "queued", "cancelled", "taken", "failed"}

\* A step writes the row with what the threads then share, takes the review away, or neither.
LEMMA RowMoves ==
  ASSUME TypeOK, [Next]_vars
  PROVE  /\ p' \in Payload
         /\ \/ UNCHANGED row /\ p'.batches = p.batches /\ p'.calls = p.calls
            \/ UNCHANGED p /\ row' = [row EXCEPT !.mine = FALSE]
            \/ row.mine /\ \E status \in {"running", "failed", "partial", "completed"} :
                 row' = [row EXCEPT !.saved = p', !.status = status]
<1> DEFINE Goal == /\ p' \in Payload
                   /\ \/ UNCHANGED row /\ p'.batches = p.batches /\ p'.calls = p.calls
                      \/ UNCHANGED p /\ row' = [row EXCEPT !.mine = FALSE]
                      \/ row.mine /\ \E status \in {"running", "failed", "partial", "completed"} :
                           row' = [row EXCEPT !.saved = p', !.status = status]
<1> USE DEF Publish, Checkpoint
<1>0. p \in Payload
  BY DEF TypeOK
<1>1. CASE UNCHANGED <<row, p>>
  BY <1>0, <1>1
<1>2. CASE Intake \/ AttachEvidence \/ Finish \/ MarkFailed
  BY <1>0, <1>2 DEF Intake, AttachEvidence, Finish, MarkFailed
<1>3. CASE SubmitGroups
  <2>1. CASE UNCHANGED <<row, p>>
    BY <1>1, <2>1
  <2>2. ASSUME NEW kept \in SUBSET p.batches, p' = [p EXCEPT !.batches = kept], Publish(p')
        PROVE  Goal
    BY <1>0, <2>2 DEF Payload
  <2> QED BY <1>3, <2>1, <2>2 DEF SubmitGroups
<1>4. ASSUME NEW t \in Task, SaveGroup(t) PROVE Goal
  BY <1>0, <1>4 DEF SaveGroup, Payload
<1>5. ASSUME NEW j \in Job, BeginCall(j) PROVE Goal
  BY <1>0, <1>5, RunAssumption DEF BeginCall, Payload
<1>6. CASE PublishPlan
  BY <1>0, <1>6 DEF PublishPlan, Payload
<1>7. CASE LoseReview
  BY <1>0, <1>7 DEF LoseReview
<1>8. CASE Main
  BY <1>1, <1>2, <1>3, <1>4, <1>8
     DEF Main, TakeFailed, TakeReview, SubmitVerify, EndLoop, TakeCross
<1>9. ASSUME NEW j \in Job, Step(j) PROVE Goal
  BY <1>1, <1>5, <1>9 DEF Step, AcquireSlot, GiveUp, WakeUp, EndCall, Answer
<1> QED BY <1>1, <1>6, <1>7, <1>8, <1>9
        DEF Next, StartJob, Retrieve, Forbid, OtherTakes, OtherReturns, Idle, vars

LEMMA RowType ==
  ASSUME TypeOK, [Next]_vars
  PROVE  /\ p' \in Payload
         /\ row' \in [mine: BOOLEAN, saved: Payload,
                      status: {"running", "failed", "partial", "completed"}]
  BY RowMoves DEF TypeOK

LEMMA AtType ==
  ASSUME TypeOK, NEW j \in Job, NEW w \in Place, At(j, w)
  PROVE  pc' \in [Job -> Place]
  BY DEF TypeOK, At, Place

LEMMA GuardType == Guard \in {"stopped", "hard", "passes"} /\ (Guard = "stopped" => ~Owned)
  BY DEF Guard

LEMMA LeaveType ==
  ASSUME TypeOK, NEW why, NEW taken, Leave(why, taken), \A j \in taken : pc[j] \in Result
  PROVE  /\ pc' \in [Job -> Place] /\ pool' \in Seq(Job)
         /\ main' \in [at: {"done", "failing"}, task: {NoTask}]
         /\ stopped' = TRUE /\ UNCHANGED failures
<1>1. ASSUME NEW j \in Job PROVE pc'[j] \in Place
  <2>1. pc[j] \in Place /\ Taken(j) \in Place
    BY DEF TypeOK, Taken, Place
  <2>2. \A k \in taken : pc[k] # "queued"
    BY DEF Result, Failed
  <2>3. pc'[j] \in {Taken(j), "cancelled", pc[j]}
    BY <2>2, Shut DEF Leave
  <2> QED BY <2>1, <2>3 DEF Place
<1>2. pc' = [j \in Job |-> pc'[j]]
  BY DEF Leave, Shutdown
<1>3. pool' \in Seq(Job)
  BY DEF Leave, Shutdown
<1> QED BY <1>1, <1>2, <1>3 DEF Leave, Goto

\* What the main thread's actions leave in its variables, the pool and the jobs.
LEMMA MainType ==
  ASSUME IInv, Main
  PROVE  /\ main' \in [at: {"intake", "reuse", "loop", "await", "research", "cross", "final",
                            "failing", "done"}, task: Task \cup {NoTask}]
         /\ pc' \in [Job -> Place] /\ pool' \in Seq(Job)
         /\ stopped' \in BOOLEAN /\ failures' \in [of: SUBSET Job, fatal: BOOLEAN]
<1> DEFINE MainOK == main' \in [at: {"intake", "reuse", "loop", "await", "research", "cross",
                                     "final", "failing", "done"}, task: Task \cup {NoTask}]
           PcOK == pc' \in [Job -> Place]
           PoolOK == pool' \in Seq(Job)
           FlagsOK == stopped' \in BOOLEAN /\ failures' \in [of: SUBSET Job, fatal: BOOLEAN]
<1> SUFFICES MainOK /\ PcOK /\ PoolOK /\ FlagsOK
  OBVIOUS
<1> USE JobFacts
<1>1. /\ TypeOK /\ Verifying /\ Phases /\ pc \in [Job -> Place]
      /\ pool \in Seq(Job) /\ stopped \in BOOLEAN
      /\ main \in [at: {"intake", "reuse", "loop", "await", "research", "cross", "final",
                        "failing", "done"}, task: Task \cup {NoTask}]
      /\ failures \in [of: SUBSET Job, fatal: BOOLEAN]
  BY DEF IInv, Course, TypeOK, Place
<1>2. /\ UNCHANGED main => MainOK
      /\ \A where \in {"loop", "research", "cross", "final", "failing", "done", "reuse"} :
           Goto(where) => MainOK
      /\ UNCHANGED pc => PcOK
      /\ \A j \in Job, w \in Place : At(j, w) => PcOK
      /\ UNCHANGED pool => PoolOK
      /\ UNCHANGED <<stopped, failures>> => FlagsOK
      /\ \A j \in Job, how \in Place : Fail(j, how) => FlagsOK
  <2>1. UNCHANGED main => MainOK
    BY <1>1
  <2>2. ASSUME NEW where \in {"loop", "research", "cross", "final", "failing", "done", "reuse"},
               Goto(where)
        PROVE  MainOK
    BY <2>2 DEF Goto
  <2>3. UNCHANGED pc => PcOK
    BY <1>1
  <2>4. \A j \in Job, w \in Place : At(j, w) => PcOK
    BY <1>1, AtType
  <2>5. UNCHANGED <<stopped, failures>> => FlagsOK
    BY <1>1
  <2>6. ASSUME NEW j \in Job, NEW how \in Place, Fail(j, how) PROVE FlagsOK
    BY <1>1, <2>6 DEF Fail
  <2> QED BY <1>1, <2>1, <2>2, <2>3, <2>4, <2>5, <2>6
<1>3. \A why, taken : Leave(why, taken) /\ (\A j \in taken : pc[j] \in Result)
        => MainOK /\ PcOK /\ PoolOK /\ FlagsOK
  BY <1>1, LeaveType
<1>4. {"taken", "failed", "slot", "error", "queued"} \subseteq Place
      /\ \A j \in Job : Taken(j) \in Place
  BY DEF Place, Running, Waiting, Result, Failed, Taken
<1>5. CASE Intake
  BY <1>2, <1>3, <1>5 DEF Intake
<1>6. CASE SubmitGroups
  <2>1. CASE Leave("hard", {})
    BY <1>3, <2>1
  <2>2. CASE row.mine
    <3>1. PICK kept \in SUBSET p.batches :
            /\ \E order \in [1..Cardinality(Task \ kept) -> Task \ kept] :
                 pool' = <<Research>> \o [i \in DOMAIN order |-> Review(order[i])]
            /\ pc' = [j \in Job |-> IF j = Research \/ j \in {Review(t) : t \in Task \ kept}
                                    THEN "queued" ELSE pc[j]]
            /\ Goto("loop") /\ UNCHANGED <<stopped, failures>>
      BY <1>6, <2>2 DEF SubmitGroups
    <3>2. PICK order \in [1..Cardinality(Task \ kept) -> Task \ kept] :
            pool' = <<Research>> \o [i \in DOMAIN order |-> Review(order[i])]
      BY <3>1
    <3>3. Cardinality(Task \ kept) \in Nat
      BY FS_Subset, FS_CardinalityType, RunAssumption
    <3>4. [i \in DOMAIN order |-> Review(order[i])] \in Seq(Job)
      <4>1. [i \in DOMAIN order |-> Review(order[i])] \in [1..Cardinality(Task \ kept) -> Job]
        OBVIOUS
      <4>2. \A n \in Nat : \A f \in [1..n -> Job] : f \in Seq(Job)
        OBVIOUS
      <4> QED BY <3>3, <4>1, <4>2
    <3>5. PoolOK
      BY <3>2, <3>4, <<Research>> \in Seq(Job)
    <3>6. PcOK
      BY <1>1, <1>4, <3>1
    <3> QED BY <1>2, <3>1, <3>5, <3>6
  <2> QED BY <1>6, <2>1, <2>2 DEF SubmitGroups
<1>7. ASSUME NEW j \in Groups, TakeFailed(j) PROVE MainOK /\ PcOK /\ PoolOK /\ FlagsOK
  <2>1. pc[j] \in Result /\ pc[j] \in Place
    BY <1>7 DEF TakeFailed, Result, Failed, Place
  <2> QED BY <1>2, <1>3, <1>4, <1>7, <2>1 DEF TakeFailed, Place, Result, Failed
<1>8. ASSUME NEW t \in Task, TakeReview(t) PROVE MainOK /\ PcOK /\ PoolOK /\ FlagsOK
  BY <1>1, <1>2, <1>8 DEF TakeReview
<1>9. ASSUME NEW t \in Task, SaveGroup(t) PROVE MainOK /\ PcOK /\ PoolOK /\ FlagsOK
  BY <1>2, <1>3, <1>4, <1>9 DEF SaveGroup, Result
<1>10. TakeResearch => FlagsOK /\ pc[Research] \in Result
  BY <1>2 DEF TakeResearch, Result, Place
<1>11. CASE SubmitVerify
  <2> DEFINE t == main.task
  <2>1. t \in Task
    BY <1>1, <1>11 DEF SubmitVerify, Phases
  <2>2. CASE pc[Research] = "stopped" /\ Leave("stopped", {Research})
    BY <1>3, <2>2 DEF Result, Failed
  <2>3. CASE pool' = Append(pool, Verify(t)) /\ Goto("loop")
    <3>1. PoolOK
      BY <1>1, <2>1, <2>3
    <3>2. CASE TakeResearch /\ pc' = [pc EXCEPT ![Research] = Taken(Research),
                                      ![Review(t)] = "taken", ![Verify(t)] = "queued"]
      BY <1>1, <1>2, <1>4, <1>10, <2>1, <2>3, <3>1, <3>2
    <3>3. CASE UNCHANGED <<stopped, failures>> /\ Submit(Verify(t), Review(t))
      BY <1>1, <1>2, <1>4, <2>1, <2>3, <3>1, <3>3 DEF Submit
    <3> QED BY <1>11, <2>3, <3>2, <3>3 DEF SubmitVerify, Leave, Shutdown
  <2> QED BY <1>11, <2>2, <2>3 DEF SubmitVerify, Submit
<1>12. CASE EndLoop
  BY <1>2, <1>12 DEF EndLoop
<1>13. CASE AttachEvidence
  <2>1. CASE pc[Research] = "stopped" /\ Leave("stopped", {Research})
    BY <1>3, <2>1 DEF Result, Failed
  <2>2. CASE TakeResearch /\ At(Research, Taken(Research)) /\ UNCHANGED <<row, main, pool>>
    BY <1>2, <1>4, <1>10, <2>2
  <2>3. CASE Leave("hard", {})
    BY <1>3, <2>3
  <2>4. CASE UNCHANGED <<pool, stopped, failures>>
    BY <1>2, <1>4, <1>13, <2>1, <2>2, <2>3, <2>4 DEF AttachEvidence
  <2> QED BY <1>13, <2>1, <2>2, <2>3, <2>4 DEF AttachEvidence
<1>14. CASE TakeCross
  <2>1. pc[Cross] \in Result /\ pc[Cross] \in Place
    BY <1>14 DEF TakeCross, Place
  <2> QED BY <1>2, <1>3, <1>4, <1>14, <2>1 DEF TakeCross
<1>15. CASE Finish
  BY <1>2, <1>3, <1>15 DEF Finish
<1>16. CASE MarkFailed
  BY <1>2, <1>16 DEF MarkFailed
<1> QED BY <1>5, <1>6, <1>7, <1>8, <1>9, <1>11, <1>12, <1>13, <1>14, <1>15, <1>16 DEF Main

LEMMA TypeStep == IInv /\ [Next]_vars => TypeOK'
<1> SUFFICES ASSUME IInv, [Next]_vars PROVE TypeOK'
  OBVIOUS
<1> USE JobFacts
<1>1. TypeOK
  BY DEF IInv
<1>2. /\ p' \in Payload
      /\ row' \in [mine: BOOLEAN, saved: Payload,
                   status: {"running", "failed", "partial", "completed"}]
      /\ slots' \in [free: 0..Slots, others: 0..Slots, left: 0..OtherCalls]
  BY <1>1, RowType, SlotsStep
<1>3. allowed' \in BOOLEAN
  BY <1>1 DEF TypeOK, Next, vars, Main, Intake, SubmitGroups, TakeFailed, TakeReview, SaveGroup,
              SubmitVerify, EndLoop, AttachEvidence, TakeCross, Finish, MarkFailed, StartJob, Step,
              AcquireSlot, GiveUp, WakeUp, BeginCall, EndCall, Answer, PublishPlan, Retrieve,
              LoseReview, Forbid, OtherTakes, OtherReturns, Idle
<1> DEFINE TriesOK == tries' \in [Job -> [briefer: BOOLEAN, limited: 0..RateRetries,
                                          transient: 0..TransientRetries]]
           RestOK == /\ main' \in [at: {"intake", "reuse", "loop", "await", "research", "cross",
                                        "final", "failing", "done"}, task: Task \cup {NoTask}]
                     /\ pc' \in [Job -> Place] /\ pool' \in Seq(Job)
                     /\ stopped' \in BOOLEAN /\ failures' \in [of: SUBSET Job, fatal: BOOLEAN]
<1>4. UNCHANGED tries => TriesOK
  BY <1>1 DEF TypeOK
<1>5. /\ UNCHANGED <<main, pool, failures>> /\ pc' \in [Job -> Place] /\ stopped' \in BOOLEAN => RestOK
      /\ UNCHANGED <<main, pool, failures, pc, stopped>> => RestOK
  BY <1>1 DEF TypeOK, Place
<1>6. {"slot", "pausing", "holding", "calling", "answered", "publish", "retrieve"} \cup Result
        \subseteq Place
  BY DEF Place, Running, Waiting, Holding
<1>7. \A j \in Job, w \in Place : At(j, w) => pc' \in [Job -> Place]
  BY <1>1, AtType
<1>8. stopped \in BOOLEAN /\ Guard \in {"stopped", "hard", "passes"}
  BY <1>1, GuardType DEF TypeOK
<1>9. {"stopped", "hard", "pause", "error", "ok"} = Result
  BY DEF Result, Failed
<1> SUFFICES TriesOK /\ RestOK
  BY <1>2, <1>3 DEF TypeOK, Place
<1>10. CASE Main
  <2>1. UNCHANGED tries
    BY <1>10 DEF Main, Intake, SubmitGroups, TakeFailed, TakeReview, SaveGroup, SubmitVerify,
                 EndLoop, AttachEvidence, TakeCross, Finish, MarkFailed
  <2> QED BY <1>4, <1>10, <2>1, MainType
<1>11. CASE StartJob
  <2>1. pool \in Seq(Job) /\ pool # <<>>
    BY <1>1, <1>11 DEF StartJob, TypeOK
  <2>2. Head(pool) \in Job /\ Tail(pool) \in Seq(Job)
    BY <2>1
  <2> QED BY <1>1, <1>4, <1>6, <1>7, <1>9, <1>11, <2>2 DEF StartJob, TypeOK
<1>12. ASSUME NEW j \in Job, Step(j) PROVE TriesOK /\ RestOK
  <2>1. CASE AcquireSlot(j) \/ GiveUp(j) \/ WakeUp(j)
    BY <1>4, <1>5, <1>6, <1>7, <1>8, <1>9, <2>1 DEF AcquireSlot, GiveUp, WakeUp
  <2>2. CASE BeginCall(j)
    <3>1. CASE Refused(j)
      BY <1>4, <1>5, <1>6, <1>7, <1>8, <1>9, <2>2, <3>1 DEF BeginCall, Refused
    <3>2. CASE At(j, "calling") /\ UNCHANGED stopped
      BY <1>4, <1>5, <1>6, <1>7, <1>8, <2>2, <3>2 DEF BeginCall
    <3> QED BY <2>2, <3>1, <3>2 DEF BeginCall
  <2>3. CASE EndCall(j)
    <3>1. RestOK
      BY <1>5, <1>6, <1>7, <1>8, <1>9, <2>3 DEF EndCall, Retry
    <3>2. TriesOK
      <4>1. CASE UNCHANGED tries
        BY <1>4, <4>1
      <4>2. /\ tries \in [Job -> [briefer: BOOLEAN, limited: 0..RateRetries,
                                  transient: 0..TransientRetries]]
            /\ RateRetries \in Nat /\ TransientRetries \in Nat
        BY <1>1, RunAssumption DEF TypeOK
      <4>3. CASE tries' = [tries EXCEPT ![j].briefer = TRUE]
        <5> DEFINE r == [tries[j] EXCEPT !.briefer = TRUE]
        <5>0. tries[j] \in [briefer: BOOLEAN, limited: 0..RateRetries, transient: 0..TransientRetries]
          BY <4>2
        <5>1. r \in [briefer: BOOLEAN, limited: 0..RateRetries, transient: 0..TransientRetries]
          BY <5>0
        <5>2. tries' = [tries EXCEPT ![j] = r]
          BY <4>3, Zenon
        <5> HIDE DEF r
        <5> QED BY <4>2, <5>1, <5>2
      <4>4. CASE tries[j].limited < RateRetries /\ tries' = [tries EXCEPT ![j].limited = @ + 1]
        <5>1. tries[j].limited + 1 \in 0..RateRetries
          BY <4>2, <4>4
        <5> QED BY <4>2, <4>4, <5>1
      <4>5. CASE tries[j].transient < TransientRetries
                 /\ tries' = [tries EXCEPT ![j].transient = @ + 1]
        <5>1. tries[j].transient + 1 \in 0..TransientRetries
          BY <4>2, <4>5
        <5> QED BY <4>2, <4>5, <5>1
      <4> QED BY <2>3, <4>1, <4>3, <4>4, <4>5 DEF EndCall, Retry
    <3> QED BY <3>1, <3>2
  <2>4. CASE Answer(j)
    <3>1. Fresh \in [briefer: BOOLEAN, limited: 0..RateRetries, transient: 0..TransientRetries]
      BY RunAssumption DEF Fresh
    <3>2. TriesOK
      BY <1>1, <2>4, <3>1 DEF Answer, TypeOK
    <3> QED BY <1>5, <1>6, <1>7, <1>8, <1>9, <2>4, <3>2 DEF Answer
  <2> QED BY <1>12, <2>1, <2>2, <2>3, <2>4 DEF Step
<1>13. CASE PublishPlan \/ Retrieve
  BY <1>4, <1>5, <1>6, <1>7, <1>8, <1>9, <1>13 DEF PublishPlan, Retrieve
<1>14. CASE LoseReview \/ Forbid \/ OtherTakes \/ OtherReturns \/ UNCHANGED vars
  BY <1>4, <1>5, <1>14 DEF LoseReview, Forbid, OtherTakes, OtherReturns, vars
<1> QED BY <1>10, <1>11, <1>12, <1>13, <1>14 DEF Next, Idle

-------------------------------------------------------------------------------
(* What the threads' steps leave of what the main thread knows *)

Tidy == Queue /\ Verifying /\ Phases /\ Stale /\ Recorded /\ CompletedMeansAll

\* The row keeps what the threads share, whoever writes it.
LEMMA SyncedStep == TypeOK /\ Synced /\ [Next]_vars => Synced'
<1> SUFFICES ASSUME TypeOK, Synced, [Next]_vars PROVE Synced'
  OBVIOUS
<1>1. row \in [mine: BOOLEAN, saved: Payload,
               status: {"running", "failed", "partial", "completed"}]
  BY DEF TypeOK
<1> QED BY <1>1, RowMoves DEF Synced

\* A job is taken by a thread or moves on: what the main thread knows does not depend on it.
LEMMA ThreadStep ==
  ASSUME IInv, NEW j \in Job, NEW w \in Running \cup Result, At(j, w),
         \/ pc[j] \in Running /\ UNCHANGED pool
         \/ pool # <<>> /\ j = Head(pool) /\ pool' = Tail(pool),
         UNCHANGED <<main, failures>>,
         UNCHANGED row \/ (row'.mine = row.mine /\ row'.status = "running"),
         w = "stopped" => ~row.mine \/ main.at = "done",
         stopped' => stopped \/ w = "pause"
  PROVE  Tidy'
<1> USE JobFacts
<1>1. /\ pool \in Seq(Job) /\ Queue /\ Verifying /\ Phases /\ Stale /\ Recorded
      /\ CompletedMeansAll
  BY DEF IInv, TypeOK, Course
<1>2. pc'[j] = w /\ \A k \in Job : k # j => pc'[k] = pc[k]
  BY DEF At, IInv, TypeOK
<1>3. pool # <<>> => /\ Head(pool) = pool[1] /\ 1 \in 1..Len(pool)
                     /\ Len(Tail(pool)) = Len(pool) - 1
                     /\ \A i \in 1..Len(Tail(pool)) :
                          Tail(pool)[i] = pool[i + 1] /\ i + 1 \in 1..Len(pool) /\ i + 1 # 1
  BY <1>1, HeadTailProperties
<1>4. pc[j] \in Running \cup {"queued"}
  BY <1>1, <1>3 DEF Queue
<1>5. w \notin {"none", "taken", "failed", "cancelled", "queued"}
      /\ pc[j] \notin Over /\ pc[j] \notin Result
  BY <1>4 DEF Running, Waiting, Holding, Result, Failed, Over
<1>6. Queue'
  <2>1. CASE pc[j] \in Running /\ UNCHANGED pool
    <3>1. \A i \in 1..Len(pool) : pool[i] \in Job /\ pool[i] # j
      BY <1>1, <2>1 DEF Queue, Running, Waiting, Holding
    <3> QED BY <1>1, <1>2, <2>1, <3>1 DEF Queue
  <2>2. CASE pool # <<>> /\ j = Head(pool) /\ pool' = Tail(pool)
    <3>1. \A i \in 1..Len(Tail(pool)) :
            Tail(pool)[i] \in Job /\ Tail(pool)[i] # j /\ pc[Tail(pool)[i]] = "queued"
      BY <1>1, <1>3, <2>2 DEF Queue
    <3>2. \A i, k \in 1..Len(Tail(pool)) : Tail(pool)[i] = Tail(pool)[k] => i = k
      <4> SUFFICES ASSUME NEW i \in 1..Len(Tail(pool)), NEW k \in 1..Len(Tail(pool)),
                          Tail(pool)[i] = Tail(pool)[k]
                   PROVE  i = k
        OBVIOUS
      <4>1. i + 1 = k + 1
        BY <1>1, <1>3, <2>2 DEF Queue
      <4> QED BY <4>1
    <3> QED BY <1>2, <2>2, <3>1, <3>2 DEF Queue
  <2> QED BY <2>1, <2>2
<1>7. Verifying'
  BY <1>1, <1>2, <1>5 DEF Verifying, ResearchTaken, Over
<1>8. Phases'
  <2>1. row'.status # "running" => main'.at = "done"
    BY <1>1 DEF Phases
  <2>2. main.at \notin {"intake", "reuse"}
    BY <1>1, <1>5 DEF Phases, Over
  <2>3. main'.at \in {"loop", "await", "research"} => pc'[Cross] = "none"
    BY <1>1, <1>2, <1>5 DEF Phases, Over
  <2>4. main'.at = "await" => main'.task \in Task /\ pc'[Review(main'.task)] = "ok"
    BY <1>1, <1>2, <1>5 DEF Phases, Result
  <2>5. main'.at \in {"research", "cross", "final"} =>
          \A k \in Groups : pc'[k] \in {"none", "taken", "failed"}
    BY <1>1, <1>2, <1>5 DEF Phases, Over
  <2>6. main'.at \in {"cross", "final"} => ResearchTaken'
    BY <1>1, <1>2, <1>5 DEF Phases, ResearchTaken, Over
  <2>7. main'.at = "final" => pc'[Cross] \in {"none", "taken", "failed"}
    BY <1>1, <1>2, <1>5 DEF Phases, Over
  <2> QED BY <2>1, <2>2, <2>3, <2>4, <2>5, <2>6, <2>7 DEF Phases
<1>9. Stale'
  <2>1. ASSUME NEW k \in Job, pc'[k] = "stopped" PROVE ~row'.mine \/ main'.at = "done"
    BY <1>1, <1>2, <2>1 DEF Stale
  <2>2. pc'[Research] \notin Over => pc[Research] \notin Over
    BY <1>2, <1>5
  <2> QED BY <1>1, <2>1, <2>2 DEF Stale
<1>10. Recorded'
  <2> SUFFICES ASSUME main.at \notin {"failing", "done"}
               PROVE  /\ \A k \in Job : pc'[k] = "failed" => k \in failures.of
                      /\ stopped' => failures.of # {} \/ \E k \in Job : pc'[k] = "pause"
    BY DEF Recorded
  <2>1. \A k \in Job : pc'[k] = "failed" => k \in failures.of
    BY <1>1, <1>2, <1>5 DEF Recorded
  <2>2. ASSUME stopped, failures.of = {} PROVE \E k \in Job : pc'[k] = "pause"
    <3>1. PICK k \in Job : pc[k] = "pause"
      BY <1>1, <2>2 DEF Recorded
    <3> QED BY <1>2, <1>5, <3>1 DEF Result, Failed
  <2>3. ASSUME w = "pause" PROVE \E k \in Job : pc'[k] = "pause"
    BY <1>2, <2>3
  <2> QED BY <2>1, <2>2, <2>3
<1>11. CompletedMeansAll'
  <2>1. row.status # "completed"
    BY <1>1, <1>5 DEF CompletedMeansAll, Over
  <2> QED BY <2>1 DEF CompletedMeansAll
<1> QED BY <1>6, <1>7, <1>8, <1>9, <1>10, <1>11 DEF Tidy

\* Every step of a thread of the pool, and those of the cross check.
LEMMA ThreadsStep ==
  IInv /\ (StartJob \/ (\E j \in Job : Step(j)) \/ PublishPlan \/ Retrieve) => Tidy'
<1> SUFFICES ASSUME IInv, StartJob \/ (\E j \in Job : Step(j)) \/ PublishPlan \/ Retrieve
             PROVE  Tidy'
  OBVIOUS
<1> USE JobFacts DEF Publish, Checkpoint
<1>1. /\ pool \in Seq(Job) /\ row.mine \in BOOLEAN /\ stopped \in BOOLEAN
      /\ row \in [mine: BOOLEAN, saved: Payload,
                  status: {"running", "failed", "partial", "completed"}]
      /\ Phases /\ Stale
  BY DEF IInv, TypeOK, Course
<1>2. {"slot", "holding", "calling", "answered", "pausing", "publish", "retrieve"} = Running
      /\ {"stopped", "hard", "pause", "error", "ok"} = Result
  BY DEF Running, Waiting, Holding, Result, Failed
<1>3. ASSUME NEW j \in Job, Guard = "stopped", pc[j] \in Running PROVE ~row.mine \/ main.at = "done"
  <2>1. ~row.mine \/ row.status # "running"
    BY <1>3 DEF Guard, Owned
  <2> QED BY <1>1, <2>1 DEF Phases
<1>4. CASE StartJob
  <2>1. Head(pool) \in Job
    BY <1>1, <1>4, HeadTailProperties DEF StartJob
  <2>2. PICK w \in {"slot", "error", "retrieve", "ok"} : At(Head(pool), w)
    BY <1>4 DEF StartJob
  <2>3. w \in Running \cup Result /\ w # "stopped"
    BY <1>2
  <2> QED BY <1>4, <2>1, <2>2, <2>3, ThreadStep DEF StartJob
<1>5. ASSUME NEW j \in Job, Step(j) PROVE Tidy'
  <2>1. CASE AcquireSlot(j)
    BY <1>2, <2>1, ThreadStep DEF AcquireSlot
  <2>2. CASE GiveUp(j)
    BY <1>2, <2>2, ThreadStep DEF GiveUp, Waiting
  <2>3. CASE WakeUp(j)
    BY <1>2, <2>3, ThreadStep DEF WakeUp
  <2>4. CASE BeginCall(j)
    <3>1. pc[j] \in Running /\ UNCHANGED <<pool, main, failures>>
      BY <1>2, <2>4 DEF BeginCall
    <3>2. CASE Refused(j)
      <4>1. PICK w \in {"stopped", "hard", "pause"} :
              /\ At(j, w) /\ (stopped' => stopped \/ w = "pause")
              /\ w = "stopped" => Guard = "stopped"
        BY <3>2 DEF Refused, Guard
      <4>2. UNCHANGED row
        BY <2>4, <3>2 DEF BeginCall, Refused
      <4> QED BY <1>2, <1>3, <3>1, <4>1, <4>2, ThreadStep
    <3>3. CASE Publish(p') /\ At(j, "calling") /\ UNCHANGED stopped
      <4>1. row'.mine = row.mine /\ row'.status = "running"
        BY <1>1, <3>3
      <4> QED BY <1>2, <3>1, <3>3, <4>1, ThreadStep
    <3> QED BY <2>4, <3>2, <3>3 DEF BeginCall
  <2>5. CASE EndCall(j)
    <3>1. PICK w \in {"answered", "slot", "pausing", "hard", "error", "pause"} : At(j, w)
      BY <2>5 DEF EndCall, Retry
    <3>2. w \in Running \cup Result /\ w # "stopped" /\ pc[j] \in Running
      BY <1>2, <2>5 DEF EndCall
    <3> QED BY <2>5, <3>1, <3>2, ThreadStep DEF EndCall
  <2>6. CASE Answer(j)
    <3>1. PICK w \in {"stopped", "hard", "error", "publish", "ok"} :
            At(j, w) /\ (w = "stopped" => Guard = "stopped")
      BY <2>6 DEF Answer, Guard
    <3>2. w \in Running \cup Result /\ pc[j] \in Running
      BY <1>2, <2>6 DEF Answer
    <3> QED BY <1>3, <2>6, <3>1, <3>2, ThreadStep DEF Answer
  <2> QED BY <1>5, <2>1, <2>2, <2>3, <2>4, <2>5, <2>6 DEF Step
<1>6. CASE PublishPlan
  <2>1. pc[Research] \in Running /\ UNCHANGED <<pool, main, failures, stopped>>
    BY <1>2, <1>6 DEF PublishPlan
  <2>2. CASE row.mine
    <3>1. row'.mine = row.mine /\ row'.status = "running" /\ At(Research, "retrieve")
      BY <1>1, <1>6, <2>2 DEF PublishPlan
    <3> QED BY <1>2, <2>1, <3>1, ThreadStep
  <2>3. CASE ~row.mine
    BY <1>2, <1>6, <2>1, <2>3, ThreadStep DEF PublishPlan
  <2> QED BY <2>2, <2>3
<1>7. CASE Retrieve
  <2>1. PICK w \in {"ok", "stopped", "hard"} :
          At(Research, w) /\ (w = "stopped" => Guard = "stopped")
    BY <1>7 DEF Retrieve, Guard
  <2>2. w \in Running \cup Result /\ pc[Research] \in Running
    BY <1>2, <1>7 DEF Retrieve
  <2> QED BY <1>3, <1>7, <2>1, <2>2, ThreadStep DEF Retrieve
<1> QED BY <1>4, <1>5, <1>6, <1>7

LEMMA LeaveStep ==
  ASSUME IInv, NEW why, NEW taken, Leave(why, taken), UNCHANGED row,
         \A j \in taken : pc[j] \in Result,
         main.at \notin {"failing", "done"},
         pc[Research] \in Over \/ Research \in taken \/ (why = "stopped" /\ ~row.mine)
  PROVE  Tidy'
<1> USE JobFacts
<1>1. TypeOK /\ Queue /\ Verifying /\ Phases /\ Stale
  BY DEF IInv, Course
<1>2. \A j \in taken : pc[j] \notin Over \cup {"queued"}
  BY DEF Result, Failed, Over
<1>3. /\ pool' = <<>>
      /\ main'.at = IF why = "stopped" THEN "done" ELSE "failing"
      /\ \A j \in Job : /\ j \in taken => pc'[j] = Taken(j)
                        /\ j \notin taken /\ pc[j] = "queued" => pc'[j] = "cancelled"
                        /\ j \notin taken /\ pc[j] # "queued" => pc'[j] = pc[j]
  <2>1. Shutdown(taken) /\ Goto(IF why = "stopped" THEN "done" ELSE "failing")
    BY DEF Leave
  <2>2. \A j \in taken : pc[j] # "queued"
    BY <1>2
  <2>3. main'.at = IF why = "stopped" THEN "done" ELSE "failing"
    BY <2>1 DEF Goto
  <2> QED BY <1>1, <2>1, <2>2, <2>3, Shut
<1>4. \A j \in Job : Taken(j) \in {"taken", "failed"}
  BY DEF Taken
<1>5. row'.status = "running"
  BY <1>1 DEF Phases
<1>6. Queue'
  BY <1>3 DEF Queue
<1>7. Verifying'
  <2>1. \A j \in Job : pc'[j] # "none" => pc[j] # "none"
    BY <1>2, <1>3 DEF Over
  <2>2. \A j \in Job : pc[j] \in {"taken", "failed"} => pc'[j] = pc[j]
    BY <1>2, <1>3 DEF Over
  <2> QED BY <1>1, <2>1, <2>2 DEF Verifying, ResearchTaken
<1>8. Phases'
  BY <1>3, <1>5 DEF Phases
<1>9. Stale'
  <2>1. \A j \in Job : pc'[j] = "stopped" => pc[j] = "stopped"
    BY <1>3, <1>4
  <2>2. pc'[Research] \notin Over => main'.at = "done" /\ ~row.mine
    BY <1>3, <1>4 DEF Over
  <2> QED BY <1>1, <2>1, <2>2 DEF Stale
<1>10. Recorded' /\ CompletedMeansAll'
  BY <1>3, <1>5 DEF Recorded, CompletedMeansAll
<1> QED BY <1>6, <1>7, <1>8, <1>9, <1>10 DEF Tidy

-------------------------------------------------------------------------------
(* The main thread *)

\* One job's result is taken, or the cross check begins: the row keeps running.
LEMMA TakeStep ==
  ASSUME IInv, NEW j \in Job, NEW w \in {"taken", "failed", "slot", "error"}, At(j, w),
         pc[j] \in Result \/ (j = Cross /\ pc[Cross] = "none"),
         w \in {"slot", "error"} => j = Cross,
         \A t \in Task : j # Review(t),
         UNCHANGED pool, row'.mine = row.mine, row'.status = "running"
  PROVE  /\ Queue' /\ Verifying' /\ CompletedMeansAll'
         /\ \A k \in Job : pc'[k] = "stopped" => pc[k] = "stopped"
         /\ pc'[Research] \notin Over => pc[Research] \notin Over
<1> USE JobFacts
<1>1. pool \in Seq(Job) /\ Queue /\ Verifying
  BY DEF IInv, TypeOK, Course
<1>2. pc'[j] = w /\ \A k \in Job : k # j => pc'[k] = pc[k]
  BY DEF At, IInv, TypeOK
<1>3. pc[j] # "queued" /\ pc[j] \notin {"taken", "failed", "cancelled"}
  BY DEF Result, Failed
<1>4. Queue'
  <2>1. \A i \in 1..Len(pool) : pool[i] \in Job /\ pool[i] # j
    BY <1>1, <1>3 DEF Queue
  <2> QED BY <1>1, <1>2, <2>1 DEF Queue
<1>5. Verifying'
  <2> SUFFICES ASSUME NEW t \in Task, pc'[Verify(t)] # "none"
               PROVE  ResearchTaken' /\ pc'[Review(t)] = "taken"
    BY DEF Verifying
  <2>1. pc[Verify(t)] # "none"
    BY <1>2 DEF Result, Failed
  <2>2. pc[Research] \in {"taken", "failed"} /\ pc[Review(t)] = "taken"
    BY <1>1, <2>1 DEF Verifying, ResearchTaken
  <2> QED BY <1>2, <1>3, <2>2 DEF ResearchTaken
<1> QED BY <1>2, <1>4, <1>5 DEF CompletedMeansAll, Over

LEMMA IntakeStep == IInv /\ Intake => Tidy'
<1> SUFFICES ASSUME IInv, Intake PROVE Tidy'
  OBVIOUS
<1>1. TypeOK /\ Queue /\ Verifying /\ Phases /\ Stale /\ Recorded
  BY DEF IInv, Course
<1>2. CASE Leave(Guard, {})
  <2>1. pc[Research] \in Over
    BY <1>1, JobFacts DEF Intake, Phases, Over
  <2> QED BY <1>2, <2>1, LeaveStep DEF Intake, Publish, Checkpoint, Leave, Goto
<1>3. CASE Goto("reuse") /\ Publish(p) /\ UNCHANGED <<pc, pool, stopped, failures>>
  <2>1. main'.at = "reuse" /\ main.at = "intake" /\ row'.mine = row.mine /\ row'.status = "running"
    BY <1>1, <1>3 DEF Intake, Goto, Publish, Checkpoint, TypeOK
  <2>2. Queue' /\ Verifying' /\ CompletedMeansAll'
    BY <1>1, <1>3, <2>1 DEF Queue, Verifying, ResearchTaken, CompletedMeansAll
  <2>3. Phases'
    BY <1>1, <1>3, <2>1 DEF Phases
  <2>4. Stale' /\ Recorded'
    BY <1>1, <1>3, <2>1, JobFacts DEF Stale, Recorded, Phases, Over
  <2> QED BY <2>2, <2>3, <2>4 DEF Tidy
<1> QED BY <1>2, <1>3 DEF Intake

LEMMA Prepended ==
  ASSUME NEW S, NEW a \in S, NEW q \in Seq(S)
  PROVE  /\ Len(<<a>> \o q) = Len(q) + 1 /\ (<<a>> \o q)[1] = a
         /\ \A i \in 2..Len(q) + 1 : i - 1 \in 1..Len(q) /\ (<<a>> \o q)[i] = q[i - 1]
<1>1. <<a>> \in Seq(S) /\ Len(<<a>>) = 1 /\ <<a>>[1] = a /\ Len(q) \in Nat
  OBVIOUS
<1> DEFINE b == <<a>>
<1>2. b \in Seq(S) /\ Len(b) = 1 /\ b[1] = a /\ Len(q) \in Nat
  BY <1>1
<1> HIDE DEF b
<1>3. /\ Len(b \o q) = Len(b) + Len(q)
      /\ \A i \in 1..Len(b) + Len(q) : (b \o q)[i] = IF i <= Len(b) THEN b[i] ELSE q[i - Len(b)]
  BY <1>2, ConcatProperties
<1>4. /\ Len(b \o q) = Len(q) + 1 /\ (b \o q)[1] = a
      /\ \A i \in 2..Len(q) + 1 : i - 1 \in 1..Len(q) /\ (b \o q)[i] = q[i - 1]
  BY <1>2, <1>3
<1> QED BY <1>4 DEF b

\* An order that names every group, and no more often than there are groups, names each once.
LEMMA OrderInjective ==
  ASSUME NEW todo, IsFiniteSet(todo), NEW order \in [1..Cardinality(todo) -> todo],
         \A t \in todo : \E i \in DOMAIN order : order[i] = t
  PROVE  /\ Cardinality(todo) \in Nat
         /\ \A i, k \in 1..Cardinality(todo) : order[i] = order[k] => i = k
<1> DEFINE n == Cardinality(todo)
<1>1. n \in Nat
  BY FS_CardinalityType
<1>2. order \in Surjection(1..n, todo)
  BY DEF Surjection
<1>3. IsFiniteSet(1..n) /\ Cardinality(1..n) = n
  BY <1>1, FS_Interval
<1>4. order \in Injection(1..n, todo)
  BY <1>2, <1>3, FS_SurjSameCardinalityImpliesInj
<1> QED BY <1>1, <1>4 DEF Injection, IsInjective

\* What is submitted first: the planning call, then each group to review once.
LEMMA SubmittedOnce ==
  ASSUME NEW n \in Nat, NEW q \in [1..n -> Groups], \A i, k \in 1..n : q[i] = q[k] => i = k
  PROVE  LET s == <<Research>> \o q
         IN /\ \A i \in 1..Len(s) : s[i] = Research \/ \E k \in 1..n : s[i] = q[k]
            /\ \A i, k \in 1..Len(s) : s[i] = s[k] => i = k
<1> USE JobFacts
<1> DEFINE s == <<Research>> \o q
<1>1. q \in Seq(Job) /\ Len(q) = n
  <2>1. \A f : f \in [1..n -> Job] => f \in Seq(Job) /\ Len(f) = n
    OBVIOUS
  <2> QED BY <2>1
<1>3. /\ Len(s) = n + 1 /\ s[1] = Research
      /\ \A i \in 2..n + 1 : i - 1 \in 1..n /\ s[i] = q[i - 1]
  BY <1>1, Prepended
<1> HIDE DEF s
<1>4. \A i \in 2..n + 1 : q[i - 1] \in Groups /\ s[i] = q[i - 1]
  BY <1>3
<1>5. ASSUME NEW i \in 1..Len(s) PROVE s[i] = Research \/ \E k \in 1..n : s[i] = q[k]
  <2>1. i = 1 \/ i \in 2..n + 1
    BY <1>3
  <2> QED BY <1>3, <2>1
<1>6. ASSUME NEW i \in 1..Len(s), NEW k \in 1..Len(s), s[i] = s[k] PROVE i = k
  <2>1. i \in 1..n + 1 /\ k \in 1..n + 1
    BY <1>3
  <2>3. i = 1 <=> k = 1
    BY <1>3, <1>4, <1>6, <2>1
  <2>4. CASE i # 1 /\ k # 1
    <3>1. i \in 2..n + 1 /\ k \in 2..n + 1
      BY <2>1, <2>4
    <3>2. q[i - 1] = q[k - 1]
      BY <1>4, <1>6, <3>1
    <3>3. i - 1 = k - 1
      BY <1>3, <3>1, <3>2
    <3> QED BY <3>1, <3>3
  <2> QED BY <2>3, <2>4
<1> QED BY <1>5, <1>6 DEF s

LEMMA SubmitGroupsStep == IInv /\ SubmitGroups => Tidy'
<1> SUFFICES ASSUME IInv, SubmitGroups PROVE Tidy'
  OBVIOUS
<1> USE JobFacts
<1>1. TypeOK /\ Queue /\ Verifying /\ Phases /\ Stale /\ Recorded
  BY DEF IInv, Course
<1>2. main.at = "reuse" /\ pool = <<>> /\ \A j \in Job : pc[j] = "none"
  BY <1>1 DEF SubmitGroups, Phases
<1>3. CASE ~row.mine
  BY <1>2, <1>3, LeaveStep DEF SubmitGroups, Over
<1>4. CASE row.mine
  <2>1. PICK kept \in SUBSET p.batches :
          /\ p' = [p EXCEPT !.batches = kept]
          /\ Publish(p')
          /\ \E order \in [1..Cardinality(Task \ kept) -> Task \ kept] :
               /\ \A t \in Task \ kept : \E i \in DOMAIN order : order[i] = t
               /\ pool' = <<Research>> \o [i \in DOMAIN order |-> Review(order[i])]
          /\ pc' = [j \in Job |-> IF j = Research \/ j \in {Review(t) : t \in Task \ kept}
                                  THEN "queued" ELSE pc[j]]
          /\ Goto("loop") /\ UNCHANGED <<stopped, failures>>
    BY <1>4 DEF SubmitGroups
  <2> DEFINE new == {Review(t) : t \in Task \ kept}
  <2>2. /\ pc'[Research] = "queued" /\ pc'[Cross] = "none"
        /\ \A t \in Task : pc'[Verify(t)] = "none"
        /\ \A j \in Job : pc'[j] \in {"none", "queued"}
        /\ \A j \in new : j \in Job /\ pc'[j] = "queued"
    BY <1>2, <2>1
  <2>3. main'.at = "loop" /\ row'.mine = row.mine /\ row'.status = "running"
    BY <1>1, <2>1 DEF Goto, Publish, Checkpoint, TypeOK
  <2>4. Queue'
    <3>1. PICK order \in [1..Cardinality(Task \ kept) -> Task \ kept] :
            /\ \A t \in Task \ kept : \E i \in DOMAIN order : order[i] = t
            /\ pool' = <<Research>> \o [i \in DOMAIN order |-> Review(order[i])]
      BY <2>1
    <3>2. /\ \A i \in 1..Len(pool') : pool'[i] = Research \/ pool'[i] \in new
          /\ \A i, k \in 1..Len(pool') : pool'[i] = pool'[k] => i = k
      <4>1. IsFiniteSet(Task \ kept)
        BY FS_Subset, RunAssumption
      <4>2. /\ Cardinality(Task \ kept) \in Nat
            /\ \A i, k \in 1..Cardinality(Task \ kept) : order[i] = order[k] => i = k
        BY <3>1, <4>1, OrderInjective
      <4> DEFINE n == Cardinality(Task \ kept)
                 q == [i \in DOMAIN order |-> Review(order[i])]
      <4>3. /\ n \in Nat /\ q \in [1..n -> Groups] /\ \A i \in 1..n : q[i] \in new
            /\ \A i, k \in 1..n : q[i] = q[k] => i = k
            /\ pool' = <<Research>> \o q
        BY <3>1, <4>2
      <4> HIDE DEF new, n, q
      <4>4. /\ \A i \in 1..Len(pool') : pool'[i] = Research \/ \E k \in 1..n : pool'[i] = q[k]
            /\ \A i, k \in 1..Len(pool') : pool'[i] = pool'[k] => i = k
        BY <4>3, SubmittedOnce
      <4> QED BY <4>3, <4>4
    <3> QED BY <2>2, <3>2 DEF Queue
  <2>5. Verifying' /\ CompletedMeansAll'
    BY <2>2, <2>3 DEF Verifying, CompletedMeansAll
  <2>6. Phases' /\ Stale'
    BY <2>2, <2>3 DEF Phases, Stale
  <2>7. Recorded'
    BY <1>1, <1>2, <2>1, <2>2 DEF Recorded
  <2> QED BY <2>4, <2>5, <2>6, <2>7 DEF Tidy
<1> QED BY <1>3, <1>4

LEMMA TakeFailedStep == ASSUME IInv, NEW j \in Groups, TakeFailed(j) PROVE Tidy'
<1> USE JobFacts
<1>1. /\ TypeOK /\ Queue /\ Verifying /\ Phases /\ Stale /\ Recorded
      /\ pc[j] \in Result /\ main.at = "loop" /\ UNCHANGED row /\ row.status = "running"
      /\ pool \in Seq(Job)
  BY DEF IInv, TypeOK, Course, TakeFailed, Result, Phases
<1>2. CASE pc[j] = "stopped" /\ Leave("stopped", {j})
  <2>1. ~row.mine
    BY <1>1, <1>2 DEF Stale
  <2> QED BY <1>1, <1>2, <2>1, LeaveStep
<1>3. CASE (\E how \in Place : Fail(j, how)) /\ At(j, "failed") /\ UNCHANGED <<main, pool>>
  <2>1. /\ pc'[j] = "failed" /\ \A k \in Job : k # j => pc'[k] = pc[k]
        /\ failures'.of = failures.of \cup {j} /\ pc[j] # "queued"
    <3>1. pc'[j] = "failed" /\ \A k \in Job : k # j => pc'[k] = pc[k]
      BY <1>1, <1>3 DEF At, TypeOK
    <3>2. failures'.of = failures.of \cup {j}
      BY <1>3 DEF Fail
    <3>3. pc[j] # "queued"
      BY <1>1 DEF Result, Failed
    <3> QED BY <3>1, <3>2, <3>3
  <2>2. Queue'
    <3>1. \A i \in 1..Len(pool) : pool[i] \in Job /\ pool[i] # j
      BY <1>1, <2>1 DEF Queue
    <3> QED BY <1>1, <1>3, <2>1, <3>1 DEF Queue
  <2>3. Verifying'
    <3> SUFFICES ASSUME NEW t \in Task, pc'[Verify(t)] # "none"
                 PROVE  ResearchTaken' /\ pc'[Review(t)] = "taken"
      BY DEF Verifying
    <3>1. pc[Verify(t)] # "none"
      BY <1>1, <2>1 DEF Result, Failed
    <3>2. ResearchTaken /\ pc[Review(t)] = "taken"
      BY <1>1, <3>1 DEF Verifying
    <3> QED BY <1>1, <2>1, <3>2 DEF ResearchTaken, Result, Failed
  <2>4. Phases' /\ CompletedMeansAll'
    BY <1>1, <1>3, <2>1 DEF Phases, CompletedMeansAll
  <2>5. Stale'
    BY <1>1, <1>3, <2>1 DEF Stale
  <2>6. Recorded'
    BY <1>1, <1>3, <2>1 DEF Recorded
  <2> QED BY <2>2, <2>3, <2>4, <2>5, <2>6 DEF Tidy
<1>4. pc[j] \in Place /\ "pause" \in Place
  BY <1>1 DEF TypeOK, Place, Result, Failed
<1> QED BY <1>2, <1>3, <1>4 DEF TakeFailed

LEMMA TakeReviewStep == ASSUME IInv, NEW t \in Task, TakeReview(t) PROVE Tidy'
<1>1. Queue /\ Verifying /\ Phases /\ Stale /\ Recorded /\ CompletedMeansAll
  BY DEF IInv, Course
<1>2. /\ UNCHANGED <<row, p, pc, pool, stopped, failures>> /\ main.at = "loop"
      /\ main'.at = "await" /\ main'.task = t /\ pc[Review(t)] = "ok"
  BY DEF TakeReview
<1>3. Queue' /\ Verifying' /\ CompletedMeansAll'
  BY <1>1, <1>2 DEF Queue, Verifying, ResearchTaken, CompletedMeansAll
<1> QED BY <1>1, <1>2, <1>3 DEF Tidy, Phases, Stale, Recorded

LEMMA SaveGroupStep == ASSUME IInv, NEW t \in Task, SaveGroup(t) PROVE Tidy'
<1> USE JobFacts
<1>1. /\ TypeOK /\ Queue /\ Verifying /\ Phases /\ Stale /\ Recorded
      /\ pc[Verify(t)] = "ok" /\ main.at = "loop" /\ row.status = "running"
  BY DEF IInv, Course, SaveGroup, Phases
<1>2. pc[Verify(t)] \in Result
  BY <1>1 DEF Result
<1>3. CASE Leave(Guard, {Verify(t)}) /\ UNCHANGED row
  <2>1. pc[Research] \in Over
    BY <1>1 DEF Verifying, ResearchTaken, Over
  <2> QED BY <1>1, <1>2, <1>3, <2>1, LeaveStep
<1>4. CASE Publish(p') /\ At(Verify(t), "taken") /\ UNCHANGED <<main, pool, stopped, failures>>
  <2>1. row'.mine = row.mine /\ row'.status = "running"
    BY <1>1, <1>4 DEF Publish, Checkpoint, TypeOK
  <2>2. /\ Queue' /\ Verifying' /\ CompletedMeansAll'
        /\ \A k \in Job : pc'[k] = "stopped" => pc[k] = "stopped"
        /\ pc'[Research] \notin Over => pc[Research] \notin Over
    BY <1>2, <1>4, <2>1, TakeStep
  <2>3. pc'[Verify(t)] = "taken" /\ \A k \in Job : k # Verify(t) => pc'[k] = pc[k]
    BY <1>1, <1>4 DEF At, TypeOK
  <2>4. Phases' /\ Stale'
    BY <1>1, <1>4, <2>1, <2>2, <2>3 DEF Phases, Stale
  <2>5. Recorded'
    BY <1>1, <1>4, <2>3 DEF Recorded
  <2> QED BY <2>2, <2>4, <2>5 DEF Tidy
<1> QED BY <1>3, <1>4 DEF SaveGroup

LEMMA EndLoopStep == IInv /\ EndLoop => Tidy'
<1> SUFFICES ASSUME IInv, EndLoop PROVE Tidy'
  OBVIOUS
<1>1. Queue /\ Verifying /\ Phases /\ Stale /\ Recorded /\ CompletedMeansAll
  BY DEF IInv, Course
<1>2. /\ UNCHANGED <<row, p, pc, pool, stopped, failures>> /\ main.at = "loop"
      /\ main'.at = "research" /\ \A j \in Groups : pc[j] \in {"none", "taken", "failed"}
  BY DEF EndLoop, Goto
<1>3. Queue' /\ Verifying' /\ CompletedMeansAll'
  BY <1>1, <1>2 DEF Queue, Verifying, ResearchTaken, CompletedMeansAll
<1> QED BY <1>1, <1>2, <1>3 DEF Tidy, Phases, Stale, Recorded

\* What taking the planning call's result records.
LEMMA TakeResearchFacts ==
  ASSUME TypeOK, Recorded, main.at \notin {"failing", "done"}, TakeResearch
  PROVE  /\ pc[Research] \in Result \ {"stopped"} /\ pc[Research] \notin Over \cup {"queued"}
         /\ failures.of \subseteq failures'.of
         /\ Taken(Research) = "failed" => Research \in failures'.of
         /\ Taken(Research) \in {"taken", "failed"}
         /\ stopped' => failures'.of # {} \/ \E k \in Job : pc[k] = "pause" /\ k # Research
<1> USE JobFacts
<1>1. pc[Research] \in Result \ {"stopped"} /\ pc[Research] \notin Over \cup {"queued"}
  BY DEF TakeResearch, Result, Failed, Over
<1>2. CASE pc[Research] = "ok"
  <2>1. UNCHANGED <<stopped, failures>>
    BY <1>2 DEF TakeResearch
  <2> QED BY <1>1, <1>2, <2>1 DEF Taken, Recorded
<1>3. CASE pc[Research] # "ok"
  <2>1. failures'.of = failures.of \cup {Research}
    BY <1>3 DEF TakeResearch, Fail, TypeOK
  <2> QED BY <1>1, <2>1 DEF Taken
<1> QED BY <1>2, <1>3

LEMMA SubmitVerifyStep == IInv /\ SubmitVerify => Tidy'
<1> SUFFICES ASSUME IInv, SubmitVerify PROVE Tidy'
  OBVIOUS
<1> USE JobFacts
<1> DEFINE t == main.task
<1>1. /\ TypeOK /\ Queue /\ Verifying /\ Phases /\ Stale /\ Recorded /\ pool \in Seq(Job)
      /\ main.at = "await" /\ UNCHANGED row /\ row.status = "running"
      /\ t \in Task /\ pc[Review(t)] = "ok" /\ pc[Cross] = "none"
  BY DEF IInv, Course, TypeOK, SubmitVerify, Phases
<1>2. pc[Verify(t)] = "none"
  BY <1>1 DEF Verifying
<1>3. CASE pc[Research] = "stopped" /\ Leave("stopped", {Research})
  BY <1>1, <1>3, LeaveStep DEF Result, Failed
<1>4. CASE /\ pc' = [pc EXCEPT ![Research] = pc'[Research], ![Review(t)] = "taken",
                               ![Verify(t)] = "queued"]
           /\ pc'[Research] \in {"taken", "failed"} /\ pc[Research] # "queued"
           /\ pc'[Research] = "failed" => Research \in failures'.of
           /\ failures.of \subseteq failures'.of
           /\ stopped' => failures'.of # {} \/ \E k \in Job : pc[k] = "pause" /\ k # Research
           /\ Goto("loop") /\ pool' = Append(pool, Verify(t))
  <2>1. /\ pc'[Verify(t)] = "queued" /\ pc'[Review(t)] = "taken"
        /\ \A k \in Job : k \notin {Research, Review(t), Verify(t)} => pc'[k] = pc[k]
    BY <1>1, <1>4 DEF TypeOK
  <2>2. main'.at = "loop"
    BY <1>4 DEF Goto
  <2>3. Queue'
    <3>1. /\ Len(pool') = Len(pool) + 1 /\ pool'[Len(pool) + 1] = Verify(t)
          /\ \A i \in 1..Len(pool) : pool'[i] = pool[i] /\ pool[i] \in Job
      BY <1>1, <1>4, AppendProperties
    <3>2. \A i \in 1..Len(pool) : pool[i] \notin {Research, Review(t), Verify(t)}
      BY <1>1, <1>2, <1>4 DEF Queue
    <3>3. \A i \in 1..Len(pool') : i \in 1..Len(pool) \/ i = Len(pool) + 1
      BY <1>1, <3>1
    <3>4. \A i \in 1..Len(pool') : pc'[pool'[i]] = "queued"
      BY <1>1, <2>1, <3>1, <3>2, <3>3 DEF Queue
    <3>5. \A i, k \in 1..Len(pool') : pool'[i] = pool'[k] => i = k
      BY <1>1, <3>1, <3>2, <3>3 DEF Queue
    <3> QED BY <3>4, <3>5 DEF Queue
  <2>4. Verifying'
    <3> SUFFICES ASSUME NEW u \in Task, pc'[Verify(u)] # "none" PROVE pc'[Review(u)] = "taken"
      BY <1>4 DEF Verifying, ResearchTaken
    <3>1. CASE u = t
      BY <2>1, <3>1
    <3>2. CASE u # t
      <4>1. pc'[Verify(u)] = pc[Verify(u)] /\ pc'[Review(u)] = pc[Review(u)]
        BY <1>1, <2>1, <3>2
      <4> QED BY <1>1, <4>1 DEF Verifying
    <3> QED BY <3>1, <3>2
  <2>5. Phases' /\ CompletedMeansAll'
    BY <1>1, <2>1, <2>2 DEF Phases, CompletedMeansAll
  <2>6. Stale'
    BY <1>1, <1>4, <2>1, <2>2 DEF Stale
  <2>7. Recorded'
    <3>1. \A k \in Job : pc'[k] = "failed" => k \in failures'.of
      BY <1>1, <1>4, <2>1 DEF Recorded
    <3>2. \A k \in Job : pc[k] = "pause" /\ k # Research => pc'[k] = "pause"
      BY <1>1, <1>2, <2>1
    <3> QED BY <1>4, <3>1, <3>2 DEF Recorded
  <2> QED BY <2>3, <2>4, <2>5, <2>6, <2>7 DEF Tidy
<1>5. CASE /\ TakeResearch /\ Goto("loop")
           /\ pc' = [pc EXCEPT ![Research] = Taken(Research), ![Review(t)] = "taken",
                               ![Verify(t)] = "queued"]
           /\ pool' = Append(pool, Verify(t))
  <2>1. pc'[Research] = Taken(Research)
    BY <1>1, <1>5 DEF TypeOK
  <2>2. pc' = [pc EXCEPT ![Research] = pc'[Research], ![Review(t)] = "taken", ![Verify(t)] = "queued"]
    BY <1>5, <2>1
  <2> QED BY <1>1, <1>4, <1>5, <2>1, <2>2, TakeResearchFacts
<1>6. CASE /\ ResearchTaken /\ Submit(Verify(t), Review(t)) /\ Goto("loop")
           /\ UNCHANGED <<stopped, failures>>
  <2>1. pc'[Research] = pc[Research] /\ pool' = Append(pool, Verify(t))
    BY <1>1, <1>6 DEF Submit, TypeOK
  <2>2. pc' = [pc EXCEPT ![Research] = pc'[Research], ![Review(t)] = "taken", ![Verify(t)] = "queued"]
    BY <1>1, <1>6, <2>1 DEF Submit, TypeOK
  <2>3. pc[Research] \in {"taken", "failed"}
    BY <1>6 DEF ResearchTaken
  <2>4. pc[Research] = "failed" => Research \in failures.of
    BY <1>1 DEF Recorded
  <2>5. stopped => failures.of # {} \/ \E k \in Job : pc[k] = "pause" /\ k # Research
    BY <1>1, <2>3 DEF Recorded
  <2> QED BY <1>4, <1>6, <2>1, <2>2, <2>3, <2>4, <2>5
<1> QED BY <1>3, <1>5, <1>6 DEF SubmitVerify

LEMMA AttachEvidenceStep == IInv /\ AttachEvidence => Tidy'
<1> SUFFICES ASSUME IInv, AttachEvidence PROVE Tidy'
  OBVIOUS
<1> USE JobFacts
<1>1. /\ TypeOK /\ Queue /\ Verifying /\ Phases /\ Stale /\ Recorded
      /\ main.at = "research" /\ row.status = "running" /\ pc[Cross] = "none"
  BY DEF IInv, Course, AttachEvidence, Phases
<1>2. CASE pc[Research] = "stopped" /\ Leave("stopped", {Research}) /\ UNCHANGED row
  BY <1>1, <1>2, LeaveStep DEF Result, Failed
<1>3. CASE ResearchTaken /\ Leave("hard", {}) /\ UNCHANGED row
  BY <1>1, <1>3, LeaveStep DEF ResearchTaken, Over
<1>4. CASE TakeResearch /\ At(Research, Taken(Research)) /\ UNCHANGED <<row, main, pool>>
  <2>1. /\ pc[Research] \in Result \ {"stopped"} /\ Taken(Research) \in {"taken", "failed"}
        /\ failures.of \subseteq failures'.of
        /\ Taken(Research) = "failed" => Research \in failures'.of
        /\ stopped' => failures'.of # {} \/ \E k \in Job : pc[k] = "pause" /\ k # Research
    BY <1>1, <1>4, TakeResearchFacts
  <2>2. pc'[Research] = Taken(Research) /\ \A k \in Job : k # Research => pc'[k] = pc[k]
    BY <1>1, <1>4 DEF At, TypeOK
  <2>3. /\ Queue' /\ Verifying' /\ CompletedMeansAll'
        /\ \A k \in Job : pc'[k] = "stopped" => pc[k] = "stopped"
    BY <1>1, <1>4, <2>1, TakeStep
  <2>4. Phases' /\ Stale'
    BY <1>1, <1>4, <2>1, <2>2, <2>3 DEF Phases, Stale, Over
  <2>5. Recorded'
    BY <1>1, <1>4, <2>1, <2>2 DEF Recorded
  <2> QED BY <2>3, <2>4, <2>5 DEF Tidy
<1>5. CASE ResearchTaken /\ Publish(p) /\ UNCHANGED <<pool, stopped, failures>>
  <2>1. row'.mine = row.mine /\ row'.status = "running"
    BY <1>1, <1>5 DEF Publish, Checkpoint, TypeOK
  <2>2. CASE ~stopped /\ Goto("cross") /\ (At(Cross, "slot") \/ At(Cross, "error"))
    <3>1. PICK w \in {"slot", "error"} : At(Cross, w)
      BY <2>2
    <3>2. pc'[Cross] = w /\ (\A k \in Job : k # Cross => pc'[k] = pc[k]) /\ main'.at = "cross"
      BY <1>1, <2>2, <3>1 DEF At, TypeOK, Goto
    <3>3. /\ Queue' /\ Verifying' /\ CompletedMeansAll'
          /\ \A k \in Job : pc'[k] = "stopped" => pc[k] = "stopped"
      BY <1>1, <1>5, <2>1, <3>1, TakeStep
    <3>4. Phases' /\ Stale'
      BY <1>1, <1>5, <2>1, <3>2, <3>3 DEF Phases, Stale, ResearchTaken, Over
    <3>5. Recorded'
      BY <1>1, <1>5, <2>2, <3>1, <3>2 DEF Recorded
    <3> QED BY <3>3, <3>4, <3>5 DEF Tidy
  <2>3. CASE Goto("final") /\ UNCHANGED pc
    <3>1. main'.at = "final"
      BY <2>3 DEF Goto
    <3>2. Queue' /\ Verifying' /\ CompletedMeansAll'
      BY <1>1, <1>5, <2>1, <2>3 DEF Queue, Verifying, ResearchTaken, CompletedMeansAll
    <3>3. Phases' /\ Stale' /\ Recorded'
      BY <1>1, <1>5, <2>1, <2>3, <3>1 DEF Phases, Stale, Recorded, ResearchTaken, Over
    <3> QED BY <3>2, <3>3 DEF Tidy
  <2> QED BY <1>2, <1>3, <1>4, <1>5, <2>2, <2>3 DEF AttachEvidence
<1> QED BY <1>2, <1>3, <1>4, <1>5 DEF AttachEvidence

LEMMA TakeCrossStep == IInv /\ TakeCross => Tidy'
<1> SUFFICES ASSUME IInv, TakeCross PROVE Tidy'
  OBVIOUS
<1> USE JobFacts
<1>1. /\ TypeOK /\ Queue /\ Verifying /\ Phases /\ Stale /\ Recorded
      /\ main.at = "cross" /\ UNCHANGED row /\ row.status = "running" /\ pc[Cross] \in Result
      /\ ResearchTaken /\ \A j \in Groups : pc[j] \in {"none", "taken", "failed"}
  BY DEF IInv, Course, TakeCross, Phases
<1>2. CASE Leave("stopped", {Cross})
  BY <1>1, <1>2, LeaveStep DEF ResearchTaken, Over
<1>3. CASE \E w \in {"taken", "failed"} :
             /\ At(Cross, w) /\ Goto("final") /\ UNCHANGED pool
             /\ \/ w = "taken" /\ pc[Cross] = "ok" /\ UNCHANGED <<stopped, failures>>
                \/ w = "failed" /\ failures'.of = failures.of \cup {Cross}
  <2>1. PICK w \in {"taken", "failed"} :
          /\ At(Cross, w) /\ Goto("final") /\ UNCHANGED pool
          /\ \/ w = "taken" /\ pc[Cross] = "ok" /\ UNCHANGED <<stopped, failures>>
             \/ w = "failed" /\ failures'.of = failures.of \cup {Cross}
    BY <1>3
  <2>2. pc'[Cross] = w /\ (\A k \in Job : k # Cross => pc'[k] = pc[k]) /\ main'.at = "final"
    BY <1>1, <2>1 DEF At, TypeOK, Goto
  <2>3. /\ Queue' /\ Verifying' /\ CompletedMeansAll'
        /\ \A k \in Job : pc'[k] = "stopped" => pc[k] = "stopped"
    BY <1>1, <2>1, TakeStep
  <2>4. Phases' /\ Stale'
    BY <1>1, <2>2, <2>3 DEF Phases, Stale, ResearchTaken, Over
  <2>5. Recorded'
    BY <1>1, <2>1, <2>2 DEF Recorded
  <2> QED BY <2>3, <2>4, <2>5 DEF Tidy
<1>4. CASE pc[Cross] = "ok" /\ At(Cross, "taken") /\ Goto("final")
           /\ UNCHANGED <<pool, stopped, failures>>
  BY <1>3, <1>4
<1>5. CASE Fail(Cross, pc[Cross]) /\ At(Cross, "failed") /\ Goto("final") /\ UNCHANGED pool
  <2>1. failures'.of = failures.of \cup {Cross}
    BY <1>5 DEF Fail
  <2> QED BY <1>3, <1>5, <2>1
<1> QED BY <1>2, <1>4, <1>5 DEF TakeCross

\* Here all the threads' results come together: a completed review has no failure to show.
LEMMA FinishStep == IInv /\ Finish => Tidy'
<1> SUFFICES ASSUME IInv, Finish PROVE Tidy'
  OBVIOUS
<1> USE JobFacts
<1>1. /\ TypeOK /\ Synced /\ Queue /\ Verifying /\ Phases /\ Stale /\ Recorded
      /\ main.at = "final" /\ UNCHANGED p
      /\ ResearchTaken /\ pc[Cross] \in {"none", "taken", "failed"}
      /\ \A j \in Groups : pc[j] \in {"none", "taken", "failed"}
  BY DEF IInv, Course, Finish, Phases
<1>2. \A j \in Job : pc[j] \in {"none", "taken", "failed"}
  BY <1>1 DEF ResearchTaken
<1>3. CASE (\E why : Leave(why, {})) /\ UNCHANGED row
  BY <1>1, <1>3, LeaveStep DEF ResearchTaken, Over
<1>4. CASE /\ \E status \in {"partial", "completed"} :
                /\ status = "completed" =>
                     failures.of = {} /\ ~failures.fatal /\ p.batches = Task
                /\ Checkpoint(p, status)
           /\ Goto("done") /\ UNCHANGED <<pc, pool, stopped, failures>>
  <2>1. PICK status \in {"partial", "completed"} :
          /\ status = "completed" => failures.of = {} /\ p.batches = Task
          /\ Checkpoint(p, status)
    BY <1>4
  <2>2. row'.mine = row.mine /\ row'.status = status /\ row'.saved = p /\ main'.at = "done"
    BY <1>1, <1>4, <2>1 DEF Checkpoint, TypeOK, Goto
  <2>3. CompletedMeansAll'
    <3> SUFFICES ASSUME status = "completed"
                 PROVE  p.batches = Task /\ ~stopped /\ \A j \in Job : pc[j] \in {"none", "taken"}
      BY <1>4, <2>1, <2>2 DEF CompletedMeansAll
    <3>1. \A j \in Job : pc[j] # "failed" /\ pc[j] # "pause"
      BY <1>1, <1>2, <2>1 DEF Recorded
    <3> QED BY <1>1, <1>2, <2>1, <3>1 DEF Recorded
  <2>4. Queue' /\ Verifying'
    BY <1>1, <1>4 DEF Queue, Verifying, ResearchTaken
  <2>5. Phases' /\ Stale' /\ Recorded'
    BY <1>1, <1>4, <2>2 DEF Phases, Stale, Recorded, ResearchTaken, Over
  <2> QED BY <2>3, <2>4, <2>5 DEF Tidy
<1> QED BY <1>3, <1>4 DEF Finish

LEMMA MarkFailedStep == IInv /\ MarkFailed => Tidy'
<1> SUFFICES ASSUME IInv, MarkFailed PROVE Tidy'
  OBVIOUS
<1>1. /\ TypeOK /\ Queue /\ Verifying /\ Phases /\ Stale /\ main.at = "failing"
      /\ UNCHANGED <<pc, pool, stopped, failures>> /\ main'.at = "done"
  BY DEF IInv, Course, MarkFailed, Goto
<1>2. row'.mine = row.mine /\ row'.status \in {"running", "failed"}
  BY <1>1 DEF MarkFailed, Checkpoint, TypeOK, Phases
<1>3. Queue' /\ Verifying' /\ CompletedMeansAll'
  BY <1>1, <1>2 DEF Queue, Verifying, ResearchTaken, CompletedMeansAll
<1> QED BY <1>1, <1>2, <1>3 DEF Tidy, Phases, Stale, Recorded

LEMMA OthersStep ==
  IInv /\ (LoseReview \/ Forbid \/ OtherTakes \/ OtherReturns \/ UNCHANGED vars) => Tidy'
<1> SUFFICES ASSUME IInv, LoseReview \/ Forbid \/ OtherTakes \/ OtherReturns \/ UNCHANGED vars
             PROVE  Tidy'
  OBVIOUS
<1>1. /\ TypeOK /\ Queue /\ Verifying /\ Phases /\ Stale /\ Recorded /\ CompletedMeansAll
      /\ UNCHANGED <<p, main, pc, pool, stopped, failures>>
  BY DEF IInv, Course, LoseReview, Forbid, OtherTakes, OtherReturns, vars
<1>2. UNCHANGED row \/ (~row'.mine /\ row'.status = row.status /\ row'.saved = row.saved)
  BY <1>1 DEF LoseReview, Forbid, OtherTakes, OtherReturns, vars, TypeOK
<1>3. row'.mine => row.mine
  BY <1>2
<1>4. row'.status = row.status /\ row'.saved = row.saved
  BY <1>2
<1>5. Queue' /\ Verifying' /\ CompletedMeansAll'
  BY <1>1, <1>4 DEF Queue, Verifying, ResearchTaken, CompletedMeansAll
<1>6. Phases' /\ Stale' /\ Recorded'
  BY <1>1, <1>3, <1>4 DEF Phases, Stale, Recorded, ResearchTaken
<1> QED BY <1>5, <1>6 DEF Tidy

-------------------------------------------------------------------------------
(* Theorems *)

LEMMA InvariantInit == Init => IInv
<1> SUFFICES ASSUME Init PROVE IInv
  OBVIOUS
<1> USE JobFacts
<1>1. PICK saved \in SUBSET Task, planned \in BOOLEAN :
        /\ p = [batches |-> saved, calls |-> 0, planned |-> planned]
        /\ row = [mine |-> TRUE, saved |-> p, status |-> "running"]
  BY DEF Init
<1>2. /\ main = [at |-> "intake", task |-> NoTask] /\ pc = [j \in Job |-> "none"]
      /\ tries = [j \in Job |-> Fresh] /\ pool = <<>> /\ allowed = TRUE /\ stopped = FALSE
      /\ slots = [free |-> Slots, others |-> 0, left |-> OtherCalls]
      /\ failures = [of |-> {}, fatal |-> FALSE]
  BY DEF Init
<1>3. p \in Payload
  BY <1>1, RunAssumption DEF Payload
<1>4. TypeOK
  <2>1. /\ row \in [mine: BOOLEAN, saved: Payload,
                    status: {"running", "failed", "partial", "completed"}]
        /\ failures \in [of: SUBSET Job, fatal: BOOLEAN]
    BY <1>1, <1>2, <1>3
  <2>2. tries \in [Job -> [briefer: BOOLEAN, limited: 0..RateRetries,
                           transient: 0..TransientRetries]]
    BY <1>2, RunAssumption DEF Fresh
  <2>3. slots \in [free: 0..Slots, others: 0..Slots, left: 0..OtherCalls]
    BY <1>2, RunAssumption
  <2>4. pool \in Seq(Job)
    BY <1>2
  <2> QED BY <1>2, <1>3, <2>1, <2>2, <2>3, <2>4 DEF TypeOK
<1>5. SlotsInv
  <2>1. Held = {}
    BY <1>2 DEF Held, Holding
  <2>2. slots.free = Slots /\ slots.others = 0 /\ Cardinality({}) = 0
    BY <1>2, FS_EmptySet
  <2> QED BY <2>1, <2>2, RunAssumption DEF SlotsInv
<1>6. Synced
  BY <1>1 DEF Synced
<1>7. main.at = "intake" /\ row.status = "running" /\ \A j \in Job : pc[j] = "none"
  BY <1>1, <1>2
<1>8. Queue /\ Verifying /\ Phases /\ Stale /\ Recorded /\ CompletedMeansAll
  BY <1>2, <1>7 DEF Queue, Verifying, Phases, Stale, Recorded, CompletedMeansAll, Over
<1> QED BY <1>4, <1>5, <1>6, <1>8 DEF IInv, Course

LEMMA InvariantStep == IInv /\ [Next]_vars => IInv'
<1> SUFFICES ASSUME IInv, [Next]_vars PROVE IInv'
  OBVIOUS
<1>1. TypeOK' /\ SlotsInv' /\ Synced'
  BY TypeStep, SlotsStep, SyncedStep DEF IInv, Course
<1> SUFFICES Tidy'
  BY <1>1 DEF IInv, Course, Tidy
<1>2. CASE Main
  BY <1>2, IntakeStep, SubmitGroupsStep, TakeFailedStep, TakeReviewStep, SaveGroupStep,
     SubmitVerifyStep, EndLoopStep, AttachEvidenceStep, TakeCrossStep, FinishStep, MarkFailedStep
     DEF Main
<1>3. CASE StartJob \/ (\E j \in Job : Step(j)) \/ PublishPlan \/ Retrieve
  BY <1>3, ThreadsStep
<1>4. CASE LoseReview \/ Forbid \/ OtherTakes \/ OtherReturns \/ UNCHANGED vars
  BY <1>4, OthersStep
<1> QED BY <1>2, <1>3, <1>4 DEF Next, Idle

THEOREM Invariance == Spec => []IInv
<1>1. Init => IInv
  BY InvariantInit
<1>2. IInv /\ [Next]_vars => IInv'
  BY InvariantStep
<1> QED BY <1>1, <1>2, PTL DEF Spec

\* Every variable keeps its type; among the rest, no more model slots are handed out than there
\* are, however the threads and the other reviews take them and give them back.
THEOREM TypeCorrect == Spec => []TypeOK
<1>1. IInv => TypeOK
  BY DEF IInv
<1> QED BY <1>1, Invariance, PTL

\* A completed review was reviewed, verified and saved in every group and lost no thread's
\* failure (run_review, finish).
THEOREM CompletedIsAll == Spec => []CompletedMeansAll
<1>1. IInv => CompletedMeansAll
  BY DEF IInv, Course
<1> QED BY <1>1, Invariance, PTL

\* The row changes only as ReviewQueue assumes of an attempt, and never once the review is not
\* this attempt's any more (checkpoint, guarded, run_review).
THEOREM OnlyCheckpoints == Spec => WritesAreCheckpoints
<1> DEFINE Write == LET old == row.saved.batches   new == row'.saved.batches
                    IN /\ new # old =>
                            /\ row'.status = "running"
                            /\ IF main.at = "reuse" THEN new \subseteq old
                               ELSE old \subseteq new /\ Cardinality(new \ old) = 1
                       /\ row'.saved.calls \in row.saved.calls..Budget
                       /\ ~Owned => row' = row
<1>1. IInv /\ [Next]_vars => Write
  <2> SUFFICES ASSUME IInv, [Next]_vars PROVE Write
    OBVIOUS
  <2> USE JobFacts DEF Publish, Checkpoint
  <2>1. /\ row \in [mine: BOOLEAN, saved: Payload,
                    status: {"running", "failed", "partial", "completed"}]
        /\ p \in Payload /\ p.batches = row.saved.batches /\ p.calls = row.saved.calls
        /\ Phases /\ Stale /\ p.calls \in 0..Budget /\ row.saved.calls \in 0..Budget /\ Budget \in Nat
    BY RunAssumption DEF IInv, TypeOK, Course, Synced, Payload
  \* A write of the attempt while it runs, with the groups as they are.
  <2>2. ASSUME NEW status, row' = [row EXCEPT !.saved = p', !.status = status], Owned,
               p'.batches = p.batches, p'.calls \in p.calls..Budget
        PROVE  Write
    BY <2>1, <2>2
  <2>3. CASE UNCHANGED row
    BY <2>1, <2>3
  <2>4. CASE LoseReview
    BY <2>1, <2>4 DEF LoseReview
  <2>5. Owned <=> row.mine /\ row.status = "running"
    BY DEF Owned
  <2>0. \A status : row' = [row EXCEPT !.saved = p', !.status = status] =>
                      row'.saved = p' /\ row'.status = status
    BY <2>1
  <2> HIDE DEF Write
  <2>6. CASE Intake \/ AttachEvidence \/ Finish \/ MarkFailed
    <3>1. UNCHANGED p
      BY <2>6 DEF Intake, AttachEvidence, Finish, MarkFailed
    <3>2. main.at # "done"
      BY <2>6 DEF Intake, AttachEvidence, Finish, MarkFailed
    <3>3. row.status = "running"
      BY <2>1, <3>2 DEF Phases
    <3>4. UNCHANGED row \/ (row.mine /\ \E status : row' = [row EXCEPT !.saved = p', !.status = status])
      BY <2>6, <3>1 DEF Intake, AttachEvidence, Finish, MarkFailed
    <3>5. p'.batches = p.batches /\ p'.calls \in p.calls..Budget
      BY <2>1, <3>1
    <3> QED BY <2>2, <2>3, <2>5, <3>3, <3>4, <3>5
  <2>7. CASE SubmitGroups
    <3>1. CASE row.mine
      <4>1. PICK kept \in SUBSET p.batches :
              p' = [p EXCEPT !.batches = kept] /\ row' = [row EXCEPT !.saved = p', !.status = "running"]
        BY <2>7, <3>1 DEF SubmitGroups
      <4>2. main.at = "reuse" /\ row.status = "running"
        BY <2>1, <2>7 DEF SubmitGroups, Phases
      <4>3. p'.batches = kept /\ p'.calls = p.calls
        BY <2>1, <4>1 DEF Payload
      <4>4. row'.saved = p' /\ row'.status = "running"
        BY <2>0, <4>1
      <4>5. /\ row'.saved.batches \subseteq row.saved.batches
            /\ row'.saved.calls \in row.saved.calls..Budget /\ Owned
        BY <2>1, <2>5, <3>1, <4>2, <4>3, <4>4
      <4> QED BY <4>2, <4>4, <4>5 DEF Write
    <3> QED BY <2>3, <2>7, <3>1 DEF SubmitGroups
  <2>8. ASSUME NEW t \in Task, SaveGroup(t) PROVE Write
    <3>1. CASE Guard = "passes"
      <4>1. p' = [p EXCEPT !.batches = @ \cup {t}] /\ row' = [row EXCEPT !.saved = p', !.status = "running"]
            /\ main.at = "loop"
        BY <2>8, <3>1 DEF SaveGroup
      <4>2. Owned
        BY <3>1 DEF Guard
      <4>3. p'.batches = p.batches \cup {t} /\ p'.calls = p.calls
        BY <2>1, <4>1 DEF Payload
      <4>0. row'.saved = p' /\ row'.status = "running"
        BY <2>0, <4>1
      <4>4. CASE t \in p.batches
        <5>1. p'.batches = p.batches /\ p'.calls \in p.calls..Budget
          BY <2>1, <4>3, <4>4
        <5> QED BY <2>2, <4>1, <4>2, <5>1
      <4>5. CASE t \notin p.batches
        <5>1. p'.batches \ p.batches = {t} /\ p.batches \subseteq p'.batches
          BY <4>3, <4>5
        <5>2. Cardinality({t}) = 1
          BY FS_Singleton
        <5>3. /\ row.saved.batches \subseteq row'.saved.batches
              /\ row'.saved.batches \ row.saved.batches = {t}
              /\ row'.saved.calls \in row.saved.calls..Budget
          BY <2>1, <4>0, <4>3, <5>1
        <5> QED BY <4>0, <4>1, <4>2, <5>2, <5>3 DEF Write
      <4> QED BY <4>4, <4>5
    <3> QED BY <2>3, <2>8, <3>1 DEF SaveGroup
  <2>9. ASSUME NEW j \in Job, BeginCall(j) PROVE Write
    <3>1. CASE Publish(p') /\ Guard = "passes" /\ p' = [p EXCEPT !.calls = @ + 1] /\ p.calls < Budget
      <4>1. p'.batches = p.batches /\ p'.calls = p.calls + 1 /\ p.calls < Budget
        BY <2>1, <3>1 DEF Payload
      <4>2. p'.batches = p.batches /\ p'.calls \in p.calls..Budget
        BY <2>1, <4>1
      <4>3. Owned
        BY <3>1 DEF Guard
      <4> QED BY <2>2, <3>1, <4>2, <4>3
    <3> QED BY <2>3, <2>9, <3>1 DEF BeginCall
  <2>10. CASE PublishPlan
    <3>1. CASE row.mine
      \* Without a guard: but the planning call outlives the main thread only when the review is lost.
      <4>1. row.status = "running"
        BY <2>1, <2>10, <3>1 DEF PublishPlan, Stale, Phases, Over
      <4>2. p'.batches = p.batches /\ p'.calls = p.calls
        BY <2>1, <2>10 DEF PublishPlan, Payload
      <4>3. p'.batches = p.batches /\ p'.calls \in p.calls..Budget
        BY <2>1, <4>2
      <4>4. row' = [row EXCEPT !.saved = p', !.status = "running"]
        BY <2>10, <3>1 DEF PublishPlan
      <4> QED BY <2>2, <2>5, <3>1, <4>1, <4>3, <4>4
    <3> QED BY <2>3, <2>10, <3>1 DEF PublishPlan
  <2>11. CASE Main
    BY <2>3, <2>6, <2>7, <2>8, <2>11
       DEF Main, TakeFailed, TakeReview, SubmitVerify, EndLoop, TakeCross
  <2>12. ASSUME NEW j \in Job, Step(j) PROVE Write
    BY <2>3, <2>9, <2>12 DEF Step, AcquireSlot, GiveUp, WakeUp, EndCall, Answer
  <2> QED BY <2>3, <2>4, <2>10, <2>11, <2>12
          DEF Next, StartJob, Retrieve, Forbid, OtherTakes, OtherReturns, Idle, vars
<1>2. IInv /\ [Next]_vars => [Write]_vars
  BY <1>1
<1> QED BY <1>2, Invariance, PTL DEF Spec, WritesAreCheckpoints

===============================================================================
