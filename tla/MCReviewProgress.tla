--------------------------- MODULE MCReviewProgress ---------------------------
(* Two instances of ReviewQueue whose progress is checked in one run: a busy   *)
(* queue (the constants of the cfg) and a restart while two threads of the    *)
(* pool work on one review.                                                   *)
EXTENDS MCReviewQueue

CONSTANT r1

VARIABLE setting

Restarting == INSTANCE ReviewQueue WITH PoolSize <- 2, MaxCrashes <- 1

ProgressInit == Init /\ setting \in {"busy", "restarting"}

ProgressNext ==
  /\ UNCHANGED setting
  /\ \/ setting = "busy" /\ Next
     \/ /\ setting = "restarting" /\ Restarting!Next
        /\ \A r \in Review \ {r1} : rows'[r] = rows[r]

TakeJob ==
  IF setting = "busy" THEN SkipJob \/ \E t \in Token : ClaimJob(t)
  ELSE Restarting!SkipJob \/ \E t \in Token : Restarting!ClaimJob(t)

\* Fairness of ReviewQueue, for whichever instance runs.
ProgressSpec ==
  /\ ProgressInit /\ [][ProgressNext]_<<vars, setting>>
  /\ WF_vars(Tick) /\ WF_vars(TakeJob)
  /\ \A r \in Review : WF_vars(Submit(r))
  /\ \A t \in Token : WF_vars(Work(t))
===============================================================================
