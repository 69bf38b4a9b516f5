------------------------------ MODULE ReviewRun -------------------------------
(***************************************************************************)
(* One attempt of the standard or deep engine (legal/review_v2.run_review) *)
(* from the inside: the main thread, a thread pool that runs the planning  *)
(* call with its retrieval beside the review groups and their              *)
(* verification, one payload under a lock, a stop flag, a call budget, and *)
(* model slots shared with every other review of the process.              *)
(*                                                                         *)
(* ReviewQueue sees such an attempt as a sequence of checkpoints by one    *)
(* writer; here is why the threads behave like one.                        *)
(***************************************************************************)
EXTENDS Integers, FiniteSets, Sequences

CONSTANTS
  Task,             \* the review groups of the plan, the whole-contract pass among them
  NoTask,           \* what the planning call and the cross check are about
  Workers,          \* threads of the attempt's pool
  Slots,            \* MODEL_SLOTS
  Budget,           \* calls of one attempt
  RateRetries,      \* RATE_LIMIT_RETRIES
  TransientRetries, \* TRANSIENT_RETRIES
  OtherCalls        \* bound: calls of other reviews

ASSUME RunAssumption ==
  /\ IsFiniteSet(Task) /\ NoTask \notin Task
  /\ Workers \in Nat \ {0} /\ Slots \in Nat \ {0}
  /\ {Budget, RateRetries, TransientRetries, OtherCalls} \subseteq Nat

Research == <<"research", NoTask>>
Cross == <<"cross", NoTask>>     \* called by the main thread itself
Review(t) == <<"review", t>>
Verify(t) == <<"verify", t>>
Groups == {"review", "verify"} \X Task
Job == {Research, Cross} \cup Groups

VARIABLES
  row,      \* the review's row: still this attempt's?, status, saved payload
  allowed,  \* the contract, the user's access and the consent are as they were
  p,        \* the payload the threads share
  main,     \* where the main thread is, and the group it is at
  pc,       \* where each job is
  tries,    \* what a job has used up of its retries
  pool,     \* submitted jobs no thread has taken, oldest first
  slots,    \* free model slots, those other reviews hold, calls those still make
  stopped,  \* the stop flag
  failures  \* failed steps of this attempt, and whether one was fatal

vars == <<row, allowed, p, main, pc, tries, pool, slots, stopped, failures>>

Waiting == {"slot", "pausing"}                 \* outside a slot
Holding == {"holding", "calling", "answered"}  \* inside one
Running == Waiting \cup Holding \cup {"publish", "retrieve"}
Failed == {"stopped", "hard", "pause", "error"}
Result == Failed \cup {"ok"}
Payload == [batches: SUBSET Task, calls: 0..Budget, planned: BOOLEAN]
Fresh == [briefer |-> FALSE, limited |-> 0, transient |-> 0]

TypeOK ==
  /\ row \in [mine: BOOLEAN, saved: Payload,
              status: {"running", "failed", "partial", "completed"}]
  /\ allowed \in BOOLEAN /\ stopped \in BOOLEAN
  /\ p \in Payload
  /\ main \in [at: {"intake", "reuse", "loop", "await", "research", "cross", "final",
                    "failing", "done"}, task: Task \cup {NoTask}]
  /\ pc \in [Job -> Running \cup Result \cup {"none", "queued", "cancelled", "taken", "failed"}]
  /\ tries \in [Job -> [briefer: BOOLEAN, limited: 0..RateRetries,
                        transient: 0..TransientRetries]]
  /\ pool \in Seq(Job)
  /\ slots \in [free: 0..Slots, others: 0..Slots, left: 0..OtherCalls]
  /\ failures \in [of: SUBSET Job, fatal: BOOLEAN]

\* The review claimed, with groups an earlier attempt may have saved.
Init ==
  \E saved \in SUBSET Task, planned \in BOOLEAN :
    /\ p = [batches |-> saved, calls |-> 0, planned |-> planned]
    /\ row = [mine |-> TRUE, saved |-> p, status |-> "running"]
    /\ allowed = TRUE /\ stopped = FALSE
    /\ main = [at |-> "intake", task |-> NoTask]
    /\ pc = [j \in Job |-> "none"] /\ tries = [j \in Job |-> Fresh]
    /\ pool = <<>>
    /\ slots = [free |-> Slots, others |-> 0, left |-> OtherCalls]
    /\ failures = [of |-> {}, fatal |-> FALSE]

-------------------------------------------------------------------------------
(* The row: every thread reads and writes it under the attempt's lock *)

Owned == row.mine /\ row.status = "running"

\* guard() raises ReviewStopped, or an error that ends the attempt.
Guard == CASE ~Owned -> "stopped" [] ~allowed -> "hard" [] OTHER -> "passes"

\* store.checkpoint matches on id and token; it raises for a row somebody else took over.
Checkpoint(payload, status) ==
  /\ row.mine
  /\ row' = [row EXCEPT !.saved = payload, !.status = status]

\* A checkpoint that names no status sets the row running.
Publish(payload) == Checkpoint(payload, "running")

-------------------------------------------------------------------------------
(* Jobs *)

At(j, where) == pc' = [pc EXCEPT ![j] = where]
TakeSlot == slots' = [slots EXCEPT !.free = @ - 1]
FreeSlot == slots' = [slots EXCEPT !.free = @ + 1]

InPool == Cardinality({j \in Job \ {Cross} : pc[j] \in Running})

\* A pool thread takes the oldest job.  A request over the input limit fails at once; a plan
\* made by an earlier attempt is used again and a deployment without search needs none.
StartJob ==
  /\ pool # <<>> /\ InPool < Workers
  /\ LET j == Head(pool)
     IN \/ At(j, "slot") \/ At(j, "error")
        \/ j = Research /\ (At(j, "retrieve") \/ At(j, "ok"))
  /\ pool' = Tail(pool)
  /\ UNCHANGED <<row, allowed, p, main, tries, slots, stopped, failures>>

AcquireSlot(j) ==
  /\ pc[j] = "slot" /\ slots.free > 0
  /\ TakeSlot /\ At(j, "holding")
  /\ UNCHANGED <<row, allowed, p, main, tries, pool, stopped, failures>>

\* The stop flag is looked at after half a second without a slot, and while backing off.
GiveUp(j) ==
  /\ pc[j] \in Waiting /\ stopped
  /\ At(j, "pause")
  /\ UNCHANGED <<row, allowed, p, main, tries, pool, slots, stopped, failures>>

WakeUp(j) ==
  /\ pc[j] = "pausing" /\ At(j, "slot")
  /\ UNCHANGED <<row, allowed, p, main, tries, pool, slots, stopped, failures>>

\* Mutant: an exhausted budget is waited out like a rate limit.
RefusedWaiting(j) ==
  \/ Guard # "passes" /\ At(j, Guard) /\ UNCHANGED stopped
  \/ Guard = "passes" /\ stopped /\ At(j, "pause") /\ UNCHANGED stopped
  \/ Guard = "passes" /\ p.calls >= Budget /\ At(j, "pausing") /\ UNCHANGED stopped

\* The lock: guard, stop flag, budget, count and checkpoint, then the call outside of it.
\* A row lost between guard and checkpoint makes the latter raise, which is fatal.
Refused(j) ==
  \/ Guard # "passes" /\ At(j, Guard) /\ UNCHANGED stopped
  \/ ~row.mine /\ At(j, "hard") /\ UNCHANGED stopped
  \/ Guard = "passes" /\ stopped /\ At(j, "pause") /\ UNCHANGED stopped
  \/ Guard = "passes" /\ p.calls >= Budget /\ At(j, "pause") /\ stopped' = TRUE

BeginCall(j) ==
  /\ pc[j] = "holding"
  /\ \/ Refused(j) /\ FreeSlot /\ UNCHANGED <<row, p>>
     \/ /\ Guard = "passes" /\ ~stopped /\ p.calls < Budget
        /\ p' = [p EXCEPT !.calls = @ + 1]
        /\ Publish(p') /\ At(j, "calling")
        /\ UNCHANGED <<slots, stopped>>
  /\ UNCHANGED <<allowed, main, tries, pool, failures>>

\* A truncated answer is asked for again at once, the others after a pause without the slot.
Retry(j) ==
  \/ ~tries[j].briefer /\ tries' = [tries EXCEPT ![j].briefer = TRUE] /\ At(j, "slot")
  \/ /\ tries[j].limited < RateRetries
     /\ tries' = [tries EXCEPT ![j].limited = @ + 1] /\ At(j, "pausing")
  \/ /\ tries[j].transient < TransientRetries
     /\ tries' = [tries EXCEPT ![j].transient = @ + 1] /\ At(j, "pausing")

EndCall(j) ==
  /\ pc[j] = "calling"
  /\ \/ At(j, "answered") /\ UNCHANGED <<tries, slots>>
     \/ Retry(j) /\ FreeSlot
     \/ \E e \in {"hard", "error"} : At(j, e) /\ FreeSlot /\ UNCHANGED tries
     \/ tries[j].limited = RateRetries /\ At(j, "pause") /\ FreeSlot /\ UNCHANGED tries
  /\ UNCHANGED <<row, allowed, p, main, pool, stopped, failures>>

\* guarded() before the answer is used; an answer that does not validate is an error.
Answer(j) ==
  /\ pc[j] = "answered" /\ FreeSlot
  /\ IF Guard # "passes" THEN At(j, Guard)
     ELSE At(j, "error") \/ At(j, IF j = Research THEN "publish" ELSE "ok")
  /\ tries' = [tries EXCEPT ![j] = Fresh]
  /\ UNCHANGED <<row, allowed, p, main, pool, stopped, failures>>

\* The research plan is published without another guard.
PublishPlan ==
  /\ pc[Research] = "publish"
  /\ p' = [p EXCEPT !.planned = TRUE]
  /\ IF row.mine THEN Publish(p') /\ At(Research, "retrieve")
     ELSE At(Research, "hard") /\ UNCHANGED row
  /\ UNCHANGED <<allowed, main, tries, pool, slots, stopped, failures>>

\* run_retrieval returns by its deadline; its threads pass the guard before they search.
Retrieve ==
  /\ pc[Research] = "retrieve"
  /\ At(Research, "ok") \/ (~stopped /\ Guard # "passes" /\ At(Research, Guard))
  /\ UNCHANGED <<row, allowed, p, main, tries, pool, slots, stopped, failures>>

-------------------------------------------------------------------------------
(* The main thread *)

Goto(where) == main' = [at |-> where, task |-> NoTask]

\* What became of a result: used, or recorded as a failure.
Taken(j) == IF pc[j] = "ok" THEN "taken" ELSE "failed"

\* fail_task
Fail(j, how) ==
  /\ failures' = [of |-> failures.of \cup {j}, fatal |-> failures.fatal \/ how = "hard"]
  /\ stopped' = (stopped \/ how \in {"hard", "pause"})

\* The thread pool is shut down without waiting: jobs no thread has taken are cancelled.
Shutdown(taken) ==
  /\ pc' = [j \in Job |-> CASE j \in taken -> Taken(j)
                            [] pc[j] = "queued" -> "cancelled" [] OTHER -> pc[j]]
  /\ pool' = <<>>

\* ReviewStopped leaves everything as it is; any other exception marks the review failed.
Leave(why, taken) ==
  /\ Shutdown(taken)
  /\ Goto(IF why = "stopped" THEN "done" ELSE "failing")
  /\ stopped' = TRUE /\ UNCHANGED failures

Intake ==
  /\ main.at = "intake"
  /\ IF Guard = "passes"
     THEN Goto("reuse") /\ Publish(p) /\ UNCHANGED <<pc, pool, stopped, failures>>
     ELSE Leave(Guard, {}) /\ UNCHANGED row
  /\ UNCHANGED <<allowed, p, tries, slots>>

\* Groups an earlier attempt saved are kept unless their input changed or they failed; the
\* others are reviewed, the planning call is submitted first.
SubmitGroups ==
  /\ main.at = "reuse"
  /\ IF ~row.mine THEN Leave("hard", {}) /\ UNCHANGED <<row, p>>
     ELSE \E kept \in SUBSET p.batches :
       /\ p' = [p EXCEPT !.batches = kept]
       /\ Publish(p')
       /\ \E order \in [1..Cardinality(Task \ kept) -> Task \ kept] :
            /\ \A t \in Task \ kept : \E i \in DOMAIN order : order[i] = t
            /\ pool' = <<Research>> \o [i \in DOMAIN order |-> Review(order[i])]
       /\ pc' = [j \in Job |-> IF j = Research \/ j \in {Review(t) : t \in Task \ kept}
                               THEN "queued" ELSE pc[j]]
       /\ Goto("loop") /\ UNCHANGED <<stopped, failures>>
  /\ UNCHANGED <<allowed, tries, slots>>

Submit(j, taken) ==
  /\ pc' = [pc EXCEPT ![j] = "queued", ![taken] = "taken"]
  /\ pool' = Append(pool, j)

\* A finished group that failed, or whose review arrives after the stop.
TakeFailed(j) ==
  /\ main.at = "loop" /\ pc[j] \in Failed \cup {"ok"}
  /\ \/ pc[j] = "stopped" /\ Leave("stopped", {j})
     \/ /\ pc[j] \in Failed \ {"stopped"}
        /\ Fail(j, pc[j]) /\ At(j, "failed") /\ UNCHANGED <<main, pool>>
     \/ /\ pc[j] = "ok" /\ j[1] = "review" /\ stopped
        /\ Fail(j, "pause") /\ At(j, "failed") /\ UNCHANGED <<main, pool>>
  /\ UNCHANGED <<row, allowed, p, tries, slots>>

\* A reviewed group is verified with what the research found: the main thread waits for it.
TakeReview(t) ==
  /\ main.at = "loop" /\ pc[Review(t)] = "ok" /\ ~stopped
  /\ main' = [at |-> "await", task |-> t]
  /\ UNCHANGED <<row, allowed, p, pc, tries, pool, slots, stopped, failures>>

\* Mutant: the planning call's failure is not recorded.
TakeResearchQuietly ==
  /\ pc[Research] \in Result \ {"stopped"}
  /\ UNCHANGED <<stopped, failures>>

\* research_pool(): its failure is recorded once.
TakeResearch ==
  /\ pc[Research] \in Result \ {"stopped"}
  /\ IF pc[Research] = "ok" THEN UNCHANGED <<stopped, failures>>
     ELSE Fail(Research, pc[Research])

ResearchTaken == pc[Research] \in {"taken", "failed"}

SubmitVerify ==
  /\ main.at = "await"
  /\ LET t == main.task
     IN \/ /\ pc[Research] = "stopped" /\ Leave("stopped", {Research})
        \/ /\ TakeResearch /\ Goto("loop")
           /\ pc' = [pc EXCEPT ![Research] = Taken(Research), ![Review(t)] = "taken",
                               ![Verify(t)] = "queued"]
           /\ pool' = Append(pool, Verify(t))
        \/ /\ ResearchTaken /\ Submit(Verify(t), Review(t)) /\ Goto("loop")
           /\ UNCHANGED <<stopped, failures>>
  /\ UNCHANGED <<row, allowed, p, tries, slots>>

\* Mutant: a group saved by an earlier attempt is put in once more.
SaveGroupAgain(t) ==
  /\ main.at = "loop" /\ pc[Verify(t)] = "ok"
  /\ p' = [p EXCEPT !.batches = @ \cup {t}] /\ row' = [row EXCEPT !.saved = p']
  /\ At(Verify(t), "taken")
  /\ UNCHANGED <<allowed, main, tries, pool, slots, stopped, failures>>

SaveGroup(t) ==
  /\ main.at = "loop" /\ pc[Verify(t)] = "ok"
  /\ IF Guard = "passes"
     THEN /\ p' = [p EXCEPT !.batches = @ \cup {t}]
          /\ Publish(p') /\ At(Verify(t), "taken")
          /\ UNCHANGED <<main, pool, stopped, failures>>
     ELSE Leave(Guard, {Verify(t)}) /\ UNCHANGED <<row, p>>
  /\ UNCHANGED <<allowed, tries, slots>>

EndLoop ==
  /\ main.at = "loop" /\ \A j \in Groups : pc[j] \in {"none", "taken", "failed"}
  /\ Goto("research")
  /\ UNCHANGED <<row, allowed, p, pc, tries, pool, slots, stopped, failures>>

\* Evidence is attached and published without a guard; two or more changes are cross-checked
\* unless an earlier attempt did it for these.
AttachEvidence ==
  /\ main.at = "research"
  /\ \/ pc[Research] = "stopped" /\ Leave("stopped", {Research}) /\ UNCHANGED row
     \/ TakeResearch /\ At(Research, Taken(Research)) /\ UNCHANGED <<row, main, pool>>
     \/ ResearchTaken /\ ~row.mine /\ Leave("hard", {}) /\ UNCHANGED row
     \/ /\ ResearchTaken /\ Publish(p)
        /\ \/ /\ p.batches # {} /\ ~stopped
              /\ Goto("cross") /\ (At(Cross, "slot") \/ At(Cross, "error"))
           \/ Goto("final") /\ UNCHANGED pc
        /\ UNCHANGED <<pool, stopped, failures>>
  /\ UNCHANGED <<allowed, p, tries, slots>>

TakeCross ==
  /\ main.at = "cross" /\ pc[Cross] \in Result
  /\ CASE pc[Cross] = "stopped" -> Leave("stopped", {Cross})
       [] pc[Cross] = "ok" -> /\ At(Cross, "taken") /\ Goto("final")
                              /\ UNCHANGED <<pool, stopped, failures>>
       [] OTHER -> Fail(Cross, pc[Cross]) /\ At(Cross, "failed") /\ Goto("final")
                   /\ UNCHANGED pool
  /\ UNCHANGED <<row, allowed, p, tries, slots>>

\* What is missing or uncertain in the findings themselves is not modelled: without an error
\* the end may still be partial.
Finish ==
  /\ main.at = "final"
  /\ CASE Guard # "passes" -> Leave(Guard, {}) /\ UNCHANGED row
       [] Guard = "passes" /\ failures.fatal /\ p.batches = {} ->
            Leave("hard", {}) /\ UNCHANGED row
       [] OTHER ->
            /\ \E status \in {"partial", "completed"} :
                 /\ status = "completed" =>
                      failures.of = {} /\ ~failures.fatal /\ p.batches = Task
                 /\ Checkpoint(p, status)
            /\ Goto("done") /\ UNCHANGED <<pc, pool, stopped, failures>>
  /\ UNCHANGED <<allowed, p, tries, slots>>

MarkFailed ==
  /\ main.at = "failing" /\ Goto("done")
  /\ IF Owned THEN Checkpoint(p, "failed") ELSE UNCHANGED row
  /\ UNCHANGED <<allowed, p, pc, tries, pool, slots, stopped, failures>>

-------------------------------------------------------------------------------
(* The others *)

\* A cancel, or another attempt after the lease.
LoseReview ==
  /\ Owned /\ row' = [row EXCEPT !.mine = FALSE]
  /\ UNCHANGED <<allowed, p, main, pc, tries, pool, slots, stopped, failures>>

Forbid ==
  /\ allowed /\ allowed' = FALSE
  /\ UNCHANGED <<row, p, main, pc, tries, pool, slots, stopped, failures>>

OtherTakes ==
  /\ slots.free > 0 /\ slots.left > 0
  /\ slots' = [free |-> slots.free - 1, others |-> slots.others + 1, left |-> slots.left - 1]
  /\ UNCHANGED <<row, allowed, p, main, pc, tries, pool, stopped, failures>>

OtherReturns ==
  /\ slots.others > 0
  /\ slots' = [slots EXCEPT !.free = @ + 1, !.others = @ - 1]
  /\ UNCHANGED <<row, allowed, p, main, pc, tries, pool, stopped, failures>>

Step(j) ==
  AcquireSlot(j) \/ GiveUp(j) \/ WakeUp(j) \/ BeginCall(j) \/ EndCall(j) \/ Answer(j)

Main ==
  \/ Intake \/ SubmitGroups \/ (\E j \in Groups : TakeFailed(j))
  \/ (\E t \in Task : TakeReview(t) \/ SaveGroup(t))
  \/ SubmitVerify \/ EndLoop \/ AttachEvidence \/ TakeCross \/ Finish \/ MarkFailed

Idle == main.at = "done" /\ (\A j \in Job : pc[j] \notin Running) /\ UNCHANGED vars

Next ==
  \/ Main \/ StartJob \/ (\E j \in Job : Step(j)) \/ PublishPlan \/ Retrieve
  \/ LoseReview \/ Forbid \/ OtherTakes \/ OtherReturns \/ Idle

Spec == Init /\ [][Next]_vars

\* Every thread runs, and a call returns or times out; other reviews may keep their slots.
FairSpec ==
  /\ Spec
  /\ WF_vars(Main) /\ WF_vars(StartJob) /\ WF_vars(PublishPlan) /\ WF_vars(Retrieve)
  /\ \A j \in Job : WF_vars(Step(j))

-------------------------------------------------------------------------------
(* Properties *)

\* What ReviewQueue assumes of an attempt: the row is written while it runs, by the addition
\* of at most one group or, before the first, by leaving groups out; the end saves no new one.
\* Its threads together count no more calls than its budget.
\* A thread that outlives its attempt changes nothing, although the publication of the plan and
\* of the evidence carry no guard of their own.
WritesAreCheckpoints ==
  [][LET old == row.saved.batches   new == row'.saved.batches
     IN /\ new # old =>
             /\ row'.status = "running"
             /\ IF main.at = "reuse" THEN new \subseteq old
                ELSE old \subseteq new /\ Cardinality(new \ old) = 1
        /\ row'.saved.calls \in row.saved.calls..Budget
        /\ ~Owned => row' = row]_vars

\* A review that is completed was reviewed, verified and saved in every group, and no thread's
\* failure was lost on the way to the end, whatever the order in which the threads finished.
CompletedMeansAll ==
  row.status = "completed" =>
    /\ row.saved.batches = Task /\ ~stopped
    /\ \A j \in Job : pc[j] \in {"none", "taken"}

\* If the other reviews give their slots back, an attempt ends and its threads with it, however its calls end.
AttemptEnds ==
  WF_vars(OtherReturns) => <>(main.at = "done" /\ \A j \in Job : pc[j] \notin Running)

===============================================================================
