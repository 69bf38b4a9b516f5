---------------------------- MODULE ReviewLifecycle ----------------------------
(***************************************************************************)
(* What a contract review promises its users, whatever leases, worker      *)
(* threads and restarts do underneath: the abstract specification that     *)
(* ReviewQueue implements.                                                 *)
(*                                                                         *)
(* A review is opened once.  It may be started and restarted; what it has  *)
(* saved changes only while it runs, and grows but for parts that are done *)
(* again; a cancelled or completed review never runs again; and from the   *)
(* first decision a person takes on its findings it is frozen but for      *)
(* further decisions.                                                      *)
(***************************************************************************)
CONSTANTS Review,   \* identities (fingerprints) of reviews
          Batch     \* the parts of a review that are saved one by one

VARIABLE review     \* per review: its public status, what it saved, whether a person decided

Status == {"absent", "queued", "running", "partial", "completed", "failed", "cancelled"}

TypeOK == review \in [Review -> [status: Status, work: SUBSET Batch, decided: BOOLEAN]]

Init == review = [r \in Review |-> [status |-> "absent", work |-> {}, decided |-> FALSE]]

\* The new status of r, saved work w and no decision yet: every step of the program's own.
Moves(r, from, to, w) ==
  /\ review[r].status \in from
  /\ ~review[r].decided
  /\ w \subseteq Batch
  /\ review' = [review EXCEPT ![r] = [status |-> to, work |-> w, decided |-> FALSE]]

Open(r)   == Moves(r, {"absent"}, "queued", review[r].work)
Begin(r)  == Moves(r, {"queued", "failed", "running"}, "running", review[r].work)
Save(r)   == \E b \in SUBSET Batch : Moves(r, {"running"}, "running", review[r].work \cup b)
Redo(r)   == \E b \in SUBSET Batch : Moves(r, {"running"}, "running", review[r].work \ b)
End(r)    == \E s \in {"partial", "completed"} : Moves(r, {"running"}, s, review[r].work)
Fail(r)   == \E b \in SUBSET Batch : Moves(r, {"running"}, "failed", review[r].work \ b)
Cancel(r) == Moves(r, {"queued", "running"}, "cancelled", review[r].work)
Resume(r) == Moves(r, {"queued", "running", "failed", "partial"}, "queued", review[r].work)

\* A person decides on a finding of a review that ended with findings.
Decide(r) ==
  /\ review[r].status \in {"partial", "completed"}
  /\ review' = [review EXCEPT ![r].decided = TRUE]

Next == \E r \in Review : \/ Open(r) \/ Begin(r) \/ Save(r) \/ Redo(r) \/ End(r) \/ Fail(r)
                          \/ Cancel(r) \/ Resume(r) \/ Decide(r)

Spec == Init /\ [][Next]_review
===============================================================================
