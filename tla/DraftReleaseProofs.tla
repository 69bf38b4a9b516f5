--------------------------- MODULE DraftReleaseProofs ---------------------------
(***************************************************************************)
(* Theorems about DraftRelease, for any findings, paragraphs, users,       *)
(* requests and bounds.                                                    *)
(*                                                                         *)
(* The properties are not inductive by themselves.  What carries them:     *)
(*   Selectables  the selected changes are one per paragraph;              *)
(*   Rebuilding   a running attempt starts from nothing, and while one is  *)
(*                queued there is nothing of a person's to lose;           *)
(*   Releases     the check and the approval shown are about the draft;    *)
(*   Calls        a request that has not reached the model has made no     *)
(*                call;                                                    *)
(*   Pages        without a retry a page shows, of each finding, the       *)
(*                decision there is or one of a lower version.             *)
(***************************************************************************)
EXTENDS DraftRelease, TLAPS

-------------------------------------------------------------------------------
(* Types *)

LEMMA UndecidedType == Undecided \in Decision
  BY ConstantsAssumption DEF Undecided, Decision

LEMMA PreparedType ==
  ASSUME NEW findings \in SUBSET Finding
  PROVE  Prepared(findings) \in [Finding -> Decision]
<1> SUFFICES ASSUME NEW f \in Finding
             PROVE  (IF Preselected(findings, f)
                     THEN [choice |-> "draft", text |-> Suggestion[f], by |-> Model, version |-> 1]
                     ELSE Undecided) \in Decision
  BY DEF Prepared
<1>1. [choice |-> "draft", text |-> Suggestion[f], by |-> Model, version |-> 1] \in Decision
  BY ConstantsAssumption DEF Decision, Choice, Selecting
<1> QED BY <1>1, UndecidedType

LEMMA ChosenType ==
  ASSUME review.decisions \in [Finding -> Decision],
         NEW u \in User, NEW f \in Finding, NEW choice \in Choice, NEW text \in Text \cup {NoText},
         \A g \in Finding : review.decisions[g].version < MaxVersion
  PROVE  Chosen(u, f, choice, text) \in [Finding -> Decision]
<1> SUFFICES ASSUME NEW g \in Finding PROVE Chosen(u, f, choice, text)[g] \in Decision
  BY DEF Chosen
<1>1. review.decisions[g] \in Decision /\ review.decisions[f] \in Decision
  OBVIOUS
<1>2. /\ review.decisions[g].version + 1 \in 0..MaxVersion
      /\ review.decisions[f].version + 1 \in 0..MaxVersion
  BY <1>1, ConstantsAssumption DEF Decision
<1>3. [choice |-> choice, text |-> text, by |-> u, version |-> review.decisions[f].version + 1]
        \in Decision
  BY <1>2 DEF Decision
<1>4. [choice |-> "pending", text |-> NoText, by |-> u, version |-> review.decisions[g].version + 1]
        \in Decision
  BY <1>2 DEF Decision, Choice
<1> QED BY <1>1, <1>3, <1>4 DEF Chosen

LEMMA AcceptedType ==
  ASSUME review.decisions \in [Finding -> Decision], NEW u \in User,
         \A g \in Finding : review.decisions[g].version < MaxVersion
  PROVE  Accepted(u) \in [Finding -> Decision]
<1> SUFFICES ASSUME NEW g \in Finding PROVE Accepted(u)[g] \in Decision
  BY DEF Accepted
<1> DEFINE d == review.decisions[g]
<1>1. d \in Decision
  OBVIOUS
<1>2. d.version + 1 \in 0..MaxVersion
  BY <1>1, ConstantsAssumption DEF Decision
<1>3. [d EXCEPT !.choice = "accepted", !.by = u, !.version = @ + 1] \in Decision
  BY <1>1, <1>2 DEF Decision, Choice, Selecting
<1> QED BY <1>1, <1>3 DEF Accepted

\* The draft of the moment is a draft.
LEMMA CurrentType == TypeOK => Current \in Draft
  BY DEF TypeOK, Current, Draft, Review

LEMMA InitType == Init => TypeOK
<1> SUFFICES ASSUME Init PROVE TypeOK
  OBVIOUS
<1>1. review \in Review
  <2>1. [f \in Finding |-> Undecided] \in [Finding -> Decision]
    BY UndecidedType
  <2> QED BY <2>1, ConstantsAssumption DEF Init, Review, Status
<1>2. checks \in [Request -> Check]
  BY ConstantsAssumption DEF Init, NoCheck, Check
<1> QED BY <1>1, <1>2 DEF Init, TypeOK

\* What a step does to the review, if anything.
LEMMA ReviewMoves ==
  [Next]_vars =>
    \/ UNCHANGED review
    \/ Attempt
    \/ \E u \in User, f \in Finding, choice \in Choice, text \in Text \cup {NoText} :
         Decide(u, f, choice, text)
    \/ \E u \in User : Approve(u)
    \/ \E q \in Request : PublishCheck(q)
<1> SUFFICES ASSUME [Next]_vars, ~Attempt, UNCHANGED review \/ TRUE
             PROVE  \/ UNCHANGED review
                    \/ \E u \in User, f \in Finding, choice \in Choice, text \in Text \cup {NoText} :
                         Decide(u, f, choice, text)
                    \/ \E u \in User : Approve(u)
                    \/ \E q \in Request : PublishCheck(q)
  OBVIOUS
<1>1. CASE UNCHANGED vars
  BY <1>1 DEF vars
<1>2. CASE \E u \in User : Acts(u)
  BY <1>2 DEF Acts, Fetch, Deliver, RefuseExport, BeginExport
<1>3. CASE \E q \in Request : Checks(q)
  BY <1>3 DEF Checks, BeginCheck, CallModel, FailCheck
<1>4. CASE Tick \/ Crash
  BY <1>4 DEF Tick, Crash
<1> QED BY <1>1, <1>2, <1>3, <1>4 DEF Next

\* The review keeps its type.
LEMMA ReviewType == TypeOK /\ [Next]_vars => review' \in Review
<1> SUFFICES ASSUME TypeOK, [Next]_vars PROVE review' \in Review
  OBVIOUS
<1>1. review \in Review /\ Current \in Draft
  BY CurrentType DEF TypeOK
<1>2. CASE EndAttempt
  <2>1. PICK findings \in SUBSET Finding, retry \in BOOLEAN, d \in [Finding -> Decision] :
          review' = [review EXCEPT !.status = "ended", !.retryable = retry,
                                   !.findings = findings, !.decisions = d]
    BY <1>2, PreparedType, UndecidedType DEF EndAttempt
  <2> QED BY <1>1, <2>1 DEF Review, Status
<1>3. CASE FailAttempt
  BY <1>1, <1>3 DEF FailAttempt, Review, Status
<1>4. CASE QueueResume
  <2>1. review.attempts + 1 \in 0..MaxAttempts
    BY <1>1, <1>4, ConstantsAssumption DEF QueueResume, Review
  <2>2. review' = [review EXCEPT !.status = "queued", !.attempts = review.attempts + 1]
    BY <1>4 DEF QueueResume
  <2> QED BY <1>1, <2>1, <2>2 DEF Review, Status
<1>5. CASE StartAttempt
  BY <1>1, <1>5, UndecidedType DEF StartAttempt, Review, Status
<1>6. ASSUME NEW u \in User, NEW f \in Finding, NEW choice \in Choice, NEW text \in Text \cup {NoText},
             Decide(u, f, choice, text)
      PROVE  review' \in Review
  <2>1. Chosen(u, f, choice, text) \in [Finding -> Decision]
    BY <1>1, <1>6, ChosenType DEF Decide, Review
  <2> QED BY <1>1, <1>6, <2>1 DEF Decide, Review
<1>7. ASSUME NEW u \in User, Approve(u) PROVE review' \in Review
  <2>1. Accepted(u) \in [Finding -> Decision]
    BY <1>1, <1>7, AcceptedType DEF Approve, Review
  <2>2. [findings |-> review.findings, decisions |-> Accepted(u)] \in Draft
    BY <1>1, <2>1 DEF Review, Draft
  <2> QED BY <1>1, <1>7, <2>1, <2>2 DEF Approve, Review
<1>8. ASSUME NEW q \in Request, PublishCheck(q) PROVE review' \in Review
  <2>1. checks[q].draft \in Draft
    BY <1>1, <1>8 DEF PublishCheck, Unchanged
  <2> QED BY <1>1, <1>8, <2>1 DEF PublishCheck, Review
<1> QED BY <1>1, <1>2, <1>3, <1>4, <1>5, <1>6, <1>7, <1>8, ReviewMoves DEF Attempt

\* What a step does to the checks, if anything.
LEMMA CheckMoves ==
  [Next]_vars =>
    \/ UNCHANGED checks
    \/ \E q \in Request : Checks(q)
    \/ Tick
    \/ Crash
<1> SUFFICES ASSUME [Next]_vars PROVE UNCHANGED checks \/ (\E q \in Request : Checks(q)) \/ Tick \/ Crash
  OBVIOUS
<1>1. CASE UNCHANGED vars
  BY <1>1 DEF vars
<1>2. CASE Attempt
  BY <1>2 DEF Attempt, EndAttempt, FailAttempt, QueueResume, StartAttempt
<1>3. CASE \E u \in User : Acts(u)
  BY <1>3 DEF Acts, Fetch, Decide, Approve, Deliver, RefuseExport, BeginExport
<1> QED BY <1>1, <1>2, <1>3 DEF Next

\* The checks keep their types.
LEMMA ChecksType == TypeOK /\ [Next]_vars => checks' \in [Request -> Check]
<1> SUFFICES ASSUME TypeOK, [Next]_vars PROVE checks' \in [Request -> Check]
  OBVIOUS
<1>1. checks \in [Request -> Check] /\ Current \in Draft
  BY CurrentType DEF TypeOK
<1>2. ASSUME NEW q \in Request, BeginCheck(q) PROVE checks' \in [Request -> Check]
  <2>1. checks[q].calls \in Nat
    BY <1>1 DEF Check
  <2>2. [status |-> "running", left |-> LeaseTime, pc |-> "prepared", draft |-> Current,
         calls |-> checks[q].calls] \in Check
    BY <1>1, <2>1, ConstantsAssumption DEF Check
  <2> QED BY <1>1, <1>2, <2>2 DEF BeginCheck
<1>3. ASSUME NEW q \in Request, CallModel(q) PROVE checks' \in [Request -> Check]
  <2>1. checks[q] \in Check /\ checks[q].calls + 1 \in Nat
    BY <1>1 DEF Check
  <2>2. [checks[q] EXCEPT !.pc = "calling", !.calls = checks[q].calls + 1] \in Check
    BY <2>1 DEF Check
  <2> QED BY <1>1, <1>3, <2>2 DEF CallModel
<1>4. ASSUME NEW q \in Request, NEW s \in {"completed", "failed"},
             checks' = [checks EXCEPT ![q] = [checks[q] EXCEPT !.status = s, !.left = -1, !.pc = "idle"]]
      PROVE  checks' \in [Request -> Check]
  <2>1. checks[q] \in Check /\ -1 \in -1..LeaseTime
    BY <1>1, ConstantsAssumption
  <2>2. [checks[q] EXCEPT !.status = s, !.left = -1, !.pc = "idle"] \in Check
    BY <2>1 DEF Check
  <2> QED BY <1>1, <1>4, <2>2
<1>5. CASE \E q \in Request : PublishCheck(q) \/ FailCheck(q)
  BY <1>4, <1>5 DEF PublishCheck, FailCheck
<1>6. CASE Tick
  <2>1. ASSUME NEW q \in Request
        PROVE  [checks[q] EXCEPT !.left = IF Running(q) /\ @ >= 0 THEN @ - 1 ELSE @] \in Check
    BY <1>1, ConstantsAssumption DEF Check
  <2> QED BY <1>6, <2>1 DEF Tick
<1>7. CASE Crash
  <2>1. ASSUME NEW q \in Request PROVE [checks[q] EXCEPT !.pc = "idle"] \in Check
    BY <1>1 DEF Check
  <2> QED BY <1>7, <2>1 DEF Crash
<1> QED BY <1>1, <1>2, <1>3, <1>5, <1>6, <1>7, CheckMoves DEF Checks

\* Every step keeps the types.
LEMMA TypeStep == TypeOK /\ [Next]_vars => TypeOK'
<1> SUFFICES ASSUME TypeOK, [Next]_vars PROVE TypeOK'
  OBVIOUS
<1>1. seen \in [User -> Draft \cup {None}] /\ exports \in [User -> File \cup {None}]
  BY DEF TypeOK
<1>2. Current \in Draft
  BY CurrentType
<1>3. seen' \in [User -> Draft \cup {None}]
  BY <1>1, <1>2 DEF Next, vars, Attempt, EndAttempt, FailAttempt, QueueResume, StartAttempt, Acts, Fetch,
     Decide, Approve, BeginExport, Deliver, RefuseExport, Checks, BeginCheck, CallModel, PublishCheck,
     FailCheck, Tick, Crash
<1>4. exports' \in [User -> File \cup {None}]
  <2>1. CASE \E u \in User, confirmed \in BOOLEAN : \E fp \in {seen[u], None} :
               BeginExport(u, confirmed, fp)
    <3>1. PICK u \in User, confirmed \in BOOLEAN :
            exports' = [exports EXCEPT ![u] = [draft |-> Current, confirmed |-> confirmed, sent |-> FALSE]]
      BY <2>1 DEF BeginExport
    <3>2. [draft |-> Current, confirmed |-> confirmed, sent |-> FALSE] \in File
      BY <1>2 DEF File
    <3> QED BY <1>1, <3>1, <3>2
  <2>2. CASE \E u \in User : Deliver(u)
    <3>1. PICK u \in User : Deliver(u)
      BY <2>2
    <3>2. exports[u] \in File
      BY <1>1, <3>1 DEF Deliver, Building
    <3>3. exports' = [exports EXCEPT ![u] = [exports[u] EXCEPT !.sent = TRUE]]
      BY <3>1 DEF Deliver
    <3>4. [exports[u] EXCEPT !.sent = TRUE] \in File
      BY <3>2 DEF File
    <3> QED BY <1>1, <3>3, <3>4
  <2>3. CASE (\E u \in User : RefuseExport(u)) \/ Crash
    BY <1>1, <2>3 DEF RefuseExport, Crash
  <2>4. CASE UNCHANGED exports
    BY <1>1, <2>4
  <2> QED BY <2>1, <2>2, <2>3, <2>4 DEF Next, vars, Attempt, EndAttempt, FailAttempt, QueueResume,
          StartAttempt, Acts, Fetch, Decide, Approve, Checks, BeginCheck, CallModel, PublishCheck,
          FailCheck, Tick
<1> QED BY <1>3, <1>4, ReviewType, ChecksType DEF TypeOK

\* The review, the checks, the pages and the exports keep their types.
THEOREM TypeCorrect == Spec => []TypeOK
<1>1. TypeOK /\ [Next]_vars => TypeOK'
  BY TypeStep
<1> QED BY <1>1, InitType, PTL DEF Spec

-------------------------------------------------------------------------------
(* One change per paragraph *)

Selectables ==
  /\ OneChangePerBlock
  /\ \A f \in Selected(Current) : BlockOf[f] # NoBlock

\* prepare_draft selects the first finding of a paragraph, and no other.
LEMMA PreparedOnce ==
  ASSUME NEW findings \in SUBSET Finding, NEW f \in Finding, NEW g \in Finding,
         Prepared(findings)[f].choice \in Selecting, Prepared(findings)[g].choice \in Selecting
  PROVE  /\ BlockOf[f] # NoBlock
         /\ BlockOf[f] = BlockOf[g] => f = g
<1>1. Preselected(findings, f) /\ Preselected(findings, g)
  BY DEF Prepared, Undecided, Selecting
<1>2. BlockOf[f] # NoBlock
  BY <1>1 DEF Preselected
<1>3. ASSUME BlockOf[f] = BlockOf[g] PROVE f = g
  <2>1. f \in Replacing(findings, BlockOf[g]) /\ g \in Replacing(findings, BlockOf[f])
    BY <1>1, <1>3 DEF Preselected
  <2>2. Rank[f] <= Rank[g] /\ Rank[g] <= Rank[f]
    BY <1>1, <2>1 DEF Preselected
  <2> QED BY <2>2, ConstantsAssumption
<1> QED BY <1>2, <1>3

\* A choice adds nothing beside another selected change of its paragraph.
LEMMA ChosenOnce ==
  ASSUME TypeOK, Selectables,
         NEW u \in User, NEW f \in Finding, NEW choice \in Choice, NEW text \in Text \cup {NoText},
         choice \in Selecting => Selectable(f),
         NEW g \in Finding, NEW h \in Finding,
         Chosen(u, f, choice, text)[g].choice \in Selecting,
         Chosen(u, f, choice, text)[h].choice \in Selecting
  PROVE  /\ BlockOf[g] # NoBlock
         /\ BlockOf[g] = BlockOf[h] => g = h
<1> DEFINE d == review.decisions
           new == Chosen(u, f, choice, text)
<1>1. ASSUME NEW k \in Finding, k # f, new[k].choice \in Selecting
      PROVE  /\ k \in Selected(Current)
             /\ ~(choice # "pending" /\ k \in SameBlock(f) /\ ByModel(d[k]))
  BY <1>1 DEF Chosen, Selecting, Selected, Current
<1>2. ASSUME new[f].choice \in Selecting
      PROVE  choice \in Selecting /\ choice # "pending" /\ Selectable(f)
  BY <1>2 DEF Chosen, Selecting
<1>3. ASSUME NEW k \in Finding, k # f, new[k].choice \in Selecting, new[f].choice \in Selecting
      PROVE  BlockOf[k] # BlockOf[f]
  <2> SUFFICES ASSUME BlockOf[k] = BlockOf[f] PROVE FALSE
    OBVIOUS
  <2>1. k \in SameBlock(f)
    BY <1>1, <1>2, <1>3 DEF SameBlock, Selectable
  <2>2. ByModel(d[k])
    BY <1>2, <1>3, <2>1 DEF Selectable
  <2> QED BY <1>1, <1>2, <1>3, <2>1, <2>2
<1>4. BlockOf[g] # NoBlock
  BY <1>1, <1>2 DEF Selectables, Selectable
<1>5. ASSUME BlockOf[g] = BlockOf[h] PROVE g = h
  <2>1. CASE g # f /\ h # f
    BY <1>1, <1>5, <2>1 DEF Selectables, OneChangePerBlock, Consistent
  <2>2. CASE g = f \/ h = f
    BY <1>3, <1>5, <2>2
  <2> QED BY <2>1, <2>2
<1> QED BY <1>4, <1>5

\* Approving selects what was selected, with the same text.
LEMMA AcceptedSame ==
  ASSUME TypeOK, NEW u \in User, NEW f \in Finding
  PROVE  /\ Accepted(u)[f].choice \in Selecting <=> review.decisions[f].choice \in Selecting
         /\ Accepted(u)[f].text = review.decisions[f].text
<1>1. review.decisions[f] \in Decision
  BY DEF TypeOK, Review
<1> QED BY <1>1 DEF Accepted, Decision, Selecting

LEMMA SelectablesStep == TypeOK /\ Selectables /\ [Next]_vars => Selectables'
<1> SUFFICES ASSUME TypeOK, Selectables, [Next]_vars PROVE Selectables'
  OBVIOUS
<1> DEFINE new == review'.decisions
<1>1. SUFFICES ASSUME NEW g \in Finding, NEW h \in Finding,
                      new[g].choice \in Selecting, new[h].choice \in Selecting
               PROVE  BlockOf[g] # NoBlock /\ (BlockOf[g] = BlockOf[h] => g = h)
  BY DEF Selectables, OneChangePerBlock, Consistent, Selected, Current
<1>2. review \in Review
  BY DEF TypeOK
<1>3. CASE review'.decisions = review.decisions
  BY <1>1, <1>3 DEF Selectables, OneChangePerBlock, Consistent, Selected, Current
<1>4. CASE new = [f \in Finding |-> Undecided]
  BY <1>1, <1>4 DEF Undecided, Selecting
<1>5. CASE EndAttempt
  <2>1. PICK findings \in SUBSET Finding :
          new = Prepared(findings) \/ new = [f \in Finding |-> Undecided]
    BY <1>2, <1>5 DEF EndAttempt, Review
  <2> QED BY <1>1, <1>4, <2>1, PreparedOnce
<1>6. ASSUME NEW u \in User, NEW f \in Finding, NEW choice \in Choice, NEW text \in Text \cup {NoText},
             Decide(u, f, choice, text)
      PROVE  BlockOf[g] # NoBlock /\ (BlockOf[g] = BlockOf[h] => g = h)
  <2>1. new = Chosen(u, f, choice, text)
    BY <1>2, <1>6 DEF Decide, Review
  <2>2. choice \in Selecting => Selectable(f)
    BY <1>6 DEF Decide
  <2> QED BY <1>1, <2>1, <2>2, ChosenOnce
<1>7. ASSUME NEW u \in User, Approve(u)
      PROVE  BlockOf[g] # NoBlock /\ (BlockOf[g] = BlockOf[h] => g = h)
  <2>1. new = Accepted(u)
    BY <1>2, <1>7 DEF Approve, Review
  <2>2. g \in Selected(Current) /\ h \in Selected(Current)
    BY <1>1, <2>1, AcceptedSame DEF Selected, Current
  <2> QED BY <2>2 DEF Selectables, OneChangePerBlock, Consistent
<1>8. CASE StartAttempt
  BY <1>2, <1>4, <1>8 DEF StartAttempt, Review
<1>9. CASE FailAttempt \/ QueueResume \/ \E q \in Request : PublishCheck(q)
  BY <1>2, <1>3, <1>9 DEF FailAttempt, QueueResume, PublishCheck, Review
<1> QED BY <1>3, <1>5, <1>6, <1>7, <1>8, <1>9, ReviewMoves DEF Attempt

\* However decisions, displaced drafts, rebuilds and approvals interleave, at most one change is
\* selected for a paragraph.
THEOREM OneChange == Spec => []OneChangePerBlock
<1>1. Init => Selectables
  BY DEF Init, Selectables, OneChangePerBlock, Consistent, Selected, Current, Undecided, Selecting
<1>2. TypeOK /\ Selectables /\ [Next]_vars => Selectables'
  BY SelectablesStep
<1>3. Selectables => OneChangePerBlock
  BY DEF Selectables
<1> QED BY <1>1, <1>2, <1>3, TypeCorrect, PTL DEF Spec

-------------------------------------------------------------------------------
(* Rebuilding a draft *)

Rebuilding ==
  /\ review.status = "running" =>
       /\ \A f \in Finding : review.decisions[f] = Undecided
       /\ review.check = None /\ review.approval = None
  /\ review.status = "queued" => \A f \in Finding : review.decisions[f].by = Model
  /\ \A f \in Finding : review.decisions[f].choice = "none" => review.decisions[f].by = Model

LEMMA RebuildingStep == TypeOK /\ Rebuilding /\ [Next]_vars => Rebuilding'
<1> SUFFICES ASSUME TypeOK, Rebuilding, [Next]_vars PROVE Rebuilding'
  OBVIOUS
<1>1. review \in Review
  BY DEF TypeOK
<1>2. CASE UNCHANGED review
  BY <1>2 DEF Rebuilding
<1>3. CASE EndAttempt
  <2>1. PICK findings \in SUBSET Finding :
          review'.decisions = Prepared(findings) \/ review'.decisions = [f \in Finding |-> Undecided]
    BY <1>1, <1>3 DEF EndAttempt, Review
  <2>2. review'.status = "ended"
    BY <1>1, <1>3 DEF EndAttempt, Review
  <2>3. \A f \in Finding : review'.decisions[f].by = Model
    BY <2>1 DEF Prepared, Undecided
  <2> QED BY <2>2, <2>3 DEF Rebuilding
<1>4. CASE FailAttempt
  BY <1>1, <1>4 DEF FailAttempt, Rebuilding, Review
<1>5. CASE QueueResume
  <2>1. review'.status = "queued" /\ review'.decisions = review.decisions
    BY <1>1, <1>5 DEF QueueResume, Review
  <2>2. \A f \in Finding : review.decisions[f].by = Model
    BY <1>5 DEF QueueResume, MayResume, HasUserDecisions, ByModel, Rebuilding
  <2> QED BY <2>1, <2>2 DEF Rebuilding
<1>6. CASE StartAttempt
  <2>1. /\ review'.decisions = [f \in Finding |-> Undecided]
        /\ review'.check = None /\ review'.approval = None /\ review'.status = "running"
    BY <1>1, <1>6 DEF StartAttempt, Review
  <2> QED BY <2>1 DEF Rebuilding, Undecided
<1>7. ASSUME NEW u \in User, NEW f \in Finding, NEW choice \in Choice, NEW text \in Text \cup {NoText},
             Decide(u, f, choice, text)
      PROVE  Rebuilding'
  <2>1. review'.status = "ended" /\ review'.decisions = Chosen(u, f, choice, text)
    BY <1>1, <1>7 DEF Decide, Review
  <2>2. \A g \in Finding : Chosen(u, f, choice, text)[g].choice = "none" =>
                            Chosen(u, f, choice, text)[g].by = Model
    BY DEF Chosen, Rebuilding, Choice, Selecting
  <2> QED BY <2>1, <2>2 DEF Rebuilding
<1>8. ASSUME NEW u \in User, Approve(u) PROVE Rebuilding'
  <2>1. review'.status = "ended" /\ review'.decisions = Accepted(u)
    BY <1>1, <1>8 DEF Approve, Releasable, Review
  <2>2. ASSUME NEW g \in Finding, Accepted(u)[g].choice = "none" PROVE Accepted(u)[g].by = Model
    <3>1. review.decisions[g] \in Decision
      BY <1>1 DEF Review
    <3> QED BY <2>2, <3>1 DEF Accepted, Rebuilding, Decision
  <2> QED BY <2>1, <2>2 DEF Rebuilding
<1>9. ASSUME NEW q \in Request, PublishCheck(q) PROVE Rebuilding'
  <2>1. review'.status = "ended" /\ review'.decisions = review.decisions
    BY <1>1, <1>9 DEF PublishCheck, Unchanged, Releasable, Review
  <2> QED BY <2>1 DEF Rebuilding
<1> QED BY <1>2, <1>3, <1>4, <1>5, <1>6, <1>7, <1>8, <1>9, ReviewMoves DEF Attempt

LEMMA RebuildingInvariant == Spec => []Rebuilding
<1>1. Init => Rebuilding
  BY DEF Init, Rebuilding, Undecided
<1>2. TypeOK /\ Rebuilding /\ [Next]_vars => Rebuilding'
  BY RebuildingStep
<1> QED BY <1>1, <1>2, TypeCorrect, PTL DEF Spec

\* One step keeps what a person chose for f.
Keeps(f) ==
  review.decisions[f].by # Model =>
    /\ review'.decisions[f].by # Model
    /\ review'.decisions[f].version >= review.decisions[f].version

\* No retry, check or approval takes a person's choice away: where the program rebuilds drafts,
\* there is none.
THEOREM ChoicesKept == Spec => HumanChoicesKept
<1>1. ASSUME TypeOK, Rebuilding, [Next]_vars, NEW f \in Finding PROVE Keeps(f)
  <2> SUFFICES ASSUME review.decisions[f].by # Model
               PROVE  /\ review'.decisions[f].by # Model
                      /\ review'.decisions[f].version >= review.decisions[f].version
    BY DEF Keeps
  <2>1. review \in Review /\ review.decisions[f] \in Decision
    BY <1>1 DEF TypeOK, Review
  <2>2. review.decisions[f].version \in Nat
    BY <2>1 DEF Decision
  <2>3. review.status # "running" /\ review.status # "queued"
    BY <1>1 DEF Rebuilding, Undecided
  <2>4. CASE review'.decisions = review.decisions
    BY <2>2, <2>4
  <2>5. CASE Attempt
    BY <2>1, <2>3, <2>4, <2>5 DEF Attempt, EndAttempt, FailAttempt, QueueResume, StartAttempt, Review
  <2>6. ASSUME NEW u \in User, NEW g \in Finding, NEW choice \in Choice, NEW text \in Text \cup {NoText},
               Decide(u, g, choice, text)
        PROVE  /\ review'.decisions[f].by # Model
               /\ review'.decisions[f].version >= review.decisions[f].version
    <3>1. review'.decisions = Chosen(u, g, choice, text)
      BY <2>1, <2>6 DEF Decide, Review
    <3> QED BY <2>2, <3>1, ConstantsAssumption DEF Chosen
  <2>7. ASSUME NEW u \in User, Approve(u)
        PROVE  /\ review'.decisions[f].by # Model
               /\ review'.decisions[f].version >= review.decisions[f].version
    <3>1. review'.decisions = Accepted(u)
      BY <2>1, <2>7 DEF Approve, Review
    <3>2. Accepted(u)[f].by = u \/ Accepted(u)[f].by = review.decisions[f].by
      BY <2>1 DEF Accepted, Decision
    <3>3. \/ Accepted(u)[f].version = review.decisions[f].version
          \/ Accepted(u)[f].version = review.decisions[f].version + 1
      BY <2>1 DEF Accepted, Decision
    <3>4. review'.decisions[f].by # Model
      BY <3>1, <3>2, ConstantsAssumption
    <3>5. review'.decisions[f].version >= review.decisions[f].version
      BY <2>2, <3>1, <3>3
    <3> QED BY <3>4, <3>5
  <2>8. CASE \E q \in Request : PublishCheck(q)
    BY <2>1, <2>4, <2>8 DEF PublishCheck, Review
  <2> QED BY <1>1, <2>4, <2>5, <2>6, <2>7, <2>8, ReviewMoves
<1>2. TypeOK /\ Rebuilding /\ [Next]_vars => 
        [\A f \in Finding :
           review.decisions[f].by # Model =>
             /\ review'.decisions[f].by # Model
             /\ review'.decisions[f].version >= review.decisions[f].version]_vars
  BY <1>1 DEF Keeps
<1> QED BY <1>2, TypeCorrect, RebuildingInvariant, PTL DEF Spec, HumanChoicesKept

-------------------------------------------------------------------------------
(* What is shown and sent is about the draft *)

Releases == CheckIsOfThisText /\ ApprovalIsCurrent

\* Approving does not change the revised contract.
LEMMA AcceptedText ==
  ASSUME TypeOK, NEW u \in User
  PROVE  Revised([findings |-> review.findings, decisions |-> Accepted(u)]) = Revised(Current)
<1> DEFINE d == [findings |-> review.findings, decisions |-> Accepted(u)]
<1>1. Selected(d) = Selected(Current)
  BY AcceptedSame DEF Selected, Current
<1>3. ASSUME NEW b \in Block PROVE Revised(d)[b] = Revised(Current)[b]
  <2> DEFINE on == {f \in Selected(Current) : BlockOf[f] = b}
  <2>1. CASE on = {}
    BY <1>1, <2>1 DEF Revised
  <2>2. CASE on # {}
    <3>1. (CHOOSE f \in on : TRUE) \in Finding
      BY <2>2 DEF Selected
    <3>2. d.decisions[CHOOSE f \in on : TRUE].text = Current.decisions[CHOOSE f \in on : TRUE].text
      BY <3>1, AcceptedSame DEF Current
    <3> QED BY <1>1, <2>2, <3>2 DEF Revised
  <2> QED BY <2>1, <2>2
<1> QED BY <1>3 DEF Revised

LEMMA ReleasesStep == TypeOK /\ Rebuilding /\ Releases /\ [Next]_vars => Releases'
<1> SUFFICES ASSUME TypeOK, Rebuilding, Releases, [Next]_vars PROVE Releases'
  OBVIOUS
<1>1. review \in Review
  BY DEF TypeOK
<1>2. CASE UNCHANGED review
  <2>1. Revised(review.check)' = Revised(review.check) /\ Revised(Current)' = Revised(Current)
    BY <1>2 DEF Current, Revised, Selected
  <2>2. Current' = Current
    BY <1>2 DEF Current
  <2> QED BY <1>2, <2>1, <2>2 DEF Releases, CheckIsOfThisText, ApprovalIsCurrent
<1>3. CASE review'.check = None /\ review'.approval = None
  BY <1>3 DEF Releases, CheckIsOfThisText, ApprovalIsCurrent
<1>4. CASE EndAttempt
  BY <1>1, <1>3, <1>4 DEF EndAttempt, Rebuilding, Review
<1>5. CASE FailAttempt \/ QueueResume \/ StartAttempt
  <2>1. review'.status # "ended"
    BY <1>1, <1>5 DEF FailAttempt, QueueResume, StartAttempt, Review
  <2> QED BY <2>1 DEF Releases, CheckIsOfThisText, ApprovalIsCurrent
<1>6. CASE \E u \in User, f \in Finding, choice \in Choice, text \in Text \cup {NoText} :
             Decide(u, f, choice, text)
  BY <1>1, <1>3, <1>6 DEF Decide, Review
<1>7. ASSUME NEW u \in User, Approve(u) PROVE Releases'
  <2>1. /\ review'.status = review.status /\ review.status = "ended"
        /\ review'.check = review.check
        /\ review'.approval = [findings |-> review.findings, decisions |-> Accepted(u)]
        /\ Current' = [findings |-> review.findings, decisions |-> Accepted(u)]
    BY <1>1, <1>7 DEF Approve, Releasable, Review, Current
  <2>2. Revised(Current)' = Revised(Current)
    BY <2>1, AcceptedText DEF Revised, Selected
  <2>3. Revised(review.check)' = Revised(review.check)
    BY <2>1 DEF Revised, Selected
  <2>4. CheckIsOfThisText'
    BY <2>1, <2>2, <2>3 DEF Releases, CheckIsOfThisText
  <2>5. ApprovalIsCurrent'
    BY <2>1 DEF ApprovalIsCurrent
  <2> QED BY <2>4, <2>5 DEF Releases
<1>8. ASSUME NEW q \in Request, PublishCheck(q) PROVE Releases'
  <2>1. /\ review'.check = Current /\ review'.approval = None
        /\ Current' = Current
    BY <1>1, <1>8 DEF PublishCheck, Unchanged, Review, Current
  <2> QED BY <2>1 DEF Releases, CheckIsOfThisText, ApprovalIsCurrent, Revised, Selected
<1> QED BY <1>2, <1>4, <1>5, <1>6, <1>7, <1>8, ReviewMoves DEF Attempt

LEMMA ReleasesInvariant == Spec => []Releases
<1>1. Init => Releases
  BY DEF Init, Releases, CheckIsOfThisText, ApprovalIsCurrent
<1>2. TypeOK /\ Rebuilding /\ Releases /\ [Next]_vars => Releases'
  BY ReleasesStep
<1> QED BY <1>1, <1>2, TypeCorrect, RebuildingInvariant, PTL DEF Spec

\* The advice shown with a finished review is about the text selected now, however late it came.
THEOREM CheckCurrent == Spec => []CheckIsOfThisText
<1>1. Releases => CheckIsOfThisText
  BY DEF Releases
<1> QED BY <1>1, ReleasesInvariant, PTL

\* An approval on record covers every decision as it is now.
THEOREM ApprovalCurrent == Spec => []ApprovalIsCurrent
<1>1. Releases => ApprovalIsCurrent
  BY DEF Releases
<1> QED BY <1>1, ReleasesInvariant, PTL

\* Whoever decided while a file was built, it leaves the server only if it is the draft of that
\* moment and, with findings pending, one its user confirmed.
THEOREM ExportCurrent == Spec => ExportIsCurrent
<1>1. ASSUME TypeOK, [Next]_vars, NEW u \in User,
             Building(u), exports'[u] # None, exports'[u].sent
      PROVE  exports[u].draft = Current /\ (Pending(Current) # {} => exports[u].confirmed)
  <2>1. exports[u] \in File /\ ~exports[u].sent /\ DOMAIN exports = User
    BY <1>1 DEF TypeOK, Building
  <2>2. exports'[u] # exports[u]
    BY <1>1, <2>1
  <2>3. Deliver(u)
    <3>1. CASE UNCHANGED exports
      BY <2>2, <3>1
    <3>2. CASE \E v \in User, confirmed \in BOOLEAN : \E fp \in {seen[v], None} :
                 BeginExport(v, confirmed, fp)
      <4>1. PICK v \in User, confirmed \in BOOLEAN : \E fp \in {seen[v], None} :
              BeginExport(v, confirmed, fp)
        BY <3>2
      <4>2. v # u
        BY <1>1, <4>1 DEF BeginExport
      <4> QED BY <2>1, <2>2, <4>1, <4>2 DEF BeginExport
    <3>3. CASE (\E v \in User : RefuseExport(v)) \/ Crash
      BY <1>1, <2>1, <2>2, <3>3 DEF RefuseExport, Crash
    <3>4. CASE \E v \in User : Deliver(v)
      BY <2>1, <2>2, <3>4 DEF Deliver
    <3> QED BY <1>1, <3>1, <3>2, <3>3, <3>4 DEF Next, vars, Attempt, EndAttempt, FailAttempt,
            QueueResume, StartAttempt, Acts, Fetch, Decide, Approve, Checks, BeginCheck, CallModel,
            PublishCheck, FailCheck, Tick
  <2>4. exports[u].draft # None
    BY <2>1, NoneAssumption DEF File
  <2> QED BY <2>3, <2>4 DEF Deliver, Exportable
<1>2. TypeOK /\ [Next]_vars =>
        [\A u \in User : Building(u) /\ exports'[u] # None /\ exports'[u].sent =>
           /\ exports[u].draft = Current
           /\ Pending(Current) # {} => exports[u].confirmed]_vars
  BY <1>1
<1> QED BY <1>2, TypeCorrect, PTL DEF Spec, ExportIsCurrent

-------------------------------------------------------------------------------
(* One call per request *)

Calls ==
  \A q \in Request :
    /\ checks[q].calls <= 1
    /\ checks[q].status = "none" => checks[q].pc = "idle"
    /\ checks[q].status = "none" \/ checks[q].pc = "prepared" => checks[q].calls = 0

LEMMA CallsStep == TypeOK /\ Calls /\ [Next]_vars => Calls'
<1> SUFFICES ASSUME TypeOK, Calls, [Next]_vars, NEW q \in Request
             PROVE  /\ checks'[q].calls <= 1
                    /\ checks'[q].status = "none" => checks'[q].pc = "idle"
                    /\ checks'[q].status = "none" \/ checks'[q].pc = "prepared" => checks'[q].calls = 0
  BY DEF Calls
<1>1. checks \in [Request -> Check] /\ checks[q] \in Check
  BY DEF TypeOK
<1>2. CASE checks'[q] = checks[q]
  BY <1>2 DEF Calls
<1>3. ASSUME NEW p \in Request, Checks(p), p # q PROVE checks'[q] = checks[q]
  BY <1>1, <1>3 DEF Checks, BeginCheck, CallModel, PublishCheck, FailCheck
<1>4. CASE BeginCheck(q)
  BY <1>1, <1>4 DEF BeginCheck, Calls
<1>5. CASE CallModel(q)
  <2>1. checks'[q] = [checks[q] EXCEPT !.pc = "calling", !.calls = checks[q].calls + 1]
    BY <1>1, <1>5 DEF CallModel
  <2>2. checks[q].calls = 0 /\ checks[q].status # "none"
    BY <1>5 DEF CallModel, Calls
  <2>3. checks'[q].calls = 1 /\ checks'[q].pc = "calling" /\ checks'[q].status = checks[q].status
    BY <1>1, <2>1, <2>2 DEF Check
  <2> QED BY <2>2, <2>3
<1>6. CASE PublishCheck(q) \/ FailCheck(q)
  <2>1. PICK s \in {"completed", "failed"} :
          checks'[q] = [checks[q] EXCEPT !.status = s, !.left = -1, !.pc = "idle"]
    BY <1>1, <1>6 DEF PublishCheck, FailCheck
  <2> QED BY <1>1, <2>1 DEF Check, Calls
<1>7. CASE Tick
  <2>1. /\ checks'[q].calls = checks[q].calls /\ checks'[q].status = checks[q].status
        /\ checks'[q].pc = checks[q].pc
    BY <1>1, <1>7 DEF Tick, Check
  <2> QED BY <2>1 DEF Calls
<1>8. CASE Crash
  <2>1. /\ checks'[q].calls = checks[q].calls /\ checks'[q].status = checks[q].status
        /\ checks'[q].pc = "idle"
    BY <1>1, <1>8 DEF Crash, Check
  <2> QED BY <2>1 DEF Calls
<1> QED BY <1>2, <1>3, <1>4, <1>5, <1>6, <1>7, <1>8, CheckMoves DEF Checks

\* However often a request is sent and wherever it fails, it costs one model call at most.
THEOREM OneCall == Spec => []OneCallPerRequest
<1>1. Init => Calls
  BY DEF Init, NoCheck, Calls
<1>2. TypeOK /\ Calls /\ [Next]_vars => Calls'
  BY CallsStep
<1>3. Calls => OneCallPerRequest
  BY DEF Calls, OneCallPerRequest
<1> QED BY <1>1, <1>2, <1>3, TypeCorrect, PTL DEF Spec

-------------------------------------------------------------------------------
(* Decisions without a retry *)

\* What page u shows of f is as old as its version, or the decision itself.
Shows(u, f) ==
  seen[u] # None =>
    /\ seen[u].decisions[f].version <= review.decisions[f].version
    /\ seen[u].decisions[f].version = review.decisions[f].version =>
         seen[u].decisions[f] = review.decisions[f]

Pages ==
  /\ review.attempts >= 1
  /\ review.status # "ended" => \A u \in User : seen[u] = None
  /\ \A u \in User, f \in Finding : Shows(u, f)

\* A decision that stays, or gets a higher version, keeps what pages show of it true.
LEMMA ShowsKept ==
  ASSUME TypeOK, NEW u \in User, NEW f \in Finding, Shows(u, f), seen'[u] = seen[u],
         review'.decisions[f].version \in Nat,
         \/ review'.decisions[f] = review.decisions[f]
         \/ review'.decisions[f].version > review.decisions[f].version
  PROVE  Shows(u, f)'
<1> SUFFICES ASSUME seen[u] # None
             PROVE  /\ seen[u].decisions[f].version <= review'.decisions[f].version
                    /\ seen[u].decisions[f].version = review'.decisions[f].version =>
                         seen[u].decisions[f] = review'.decisions[f]
  BY DEF Shows
<1>1. seen[u].decisions[f] \in Decision /\ review.decisions[f] \in Decision
  BY DEF TypeOK, Draft, Review
<1>2. seen[u].decisions[f].version \in Nat /\ review.decisions[f].version \in Nat
  BY <1>1 DEF Decision
<1> QED BY <1>2 DEF Shows

\* Every decision or approval gives what it changes a higher version.
LEMMA VersionsGrow ==
  ASSUME TypeOK, NEW f \in Finding, NEW u \in User,
         \/ Approve(u)
         \/ \E g \in Finding, choice \in Choice, text \in Text \cup {NoText} : Decide(u, g, choice, text)
  PROVE  \/ review'.decisions[f] = review.decisions[f]
         \/ review'.decisions[f].version > review.decisions[f].version
<1>1. review \in Review /\ review.decisions[f] \in Decision
  BY DEF TypeOK, Review
<1>2. review.decisions[f].version \in Nat
  BY <1>1 DEF Decision
<1>3. CASE Approve(u)
  <2>1. review'.decisions[f] = Accepted(u)[f]
    BY <1>1, <1>3 DEF Approve, Review
  <2>2. \/ Accepted(u)[f] = review.decisions[f]
        \/ Accepted(u)[f].version = review.decisions[f].version + 1
    BY <1>1 DEF Accepted, Decision
  <2> QED BY <1>2, <2>1, <2>2
<1>4. ASSUME NEW g \in Finding, NEW choice \in Choice, NEW text \in Text \cup {NoText},
             Decide(u, g, choice, text)
      PROVE  \/ review'.decisions[f] = review.decisions[f]
             \/ review'.decisions[f].version > review.decisions[f].version
  <2>1. review'.decisions = Chosen(u, g, choice, text)
    BY <1>1, <1>4 DEF Decide, Review
  <2>2. \/ Chosen(u, g, choice, text)[f] = review.decisions[f]
        \/ Chosen(u, g, choice, text)[f].version = review.decisions[f].version + 1
    BY DEF Chosen
  <2> QED BY <1>2, <2>1, <2>2
<1> QED BY <1>3, <1>4

LEMMA PagesStep ==
  ASSUME MaxAttempts = 1, TypeOK, TypeOK', Pages, [Next]_vars
  PROVE  Pages'
<1>1. review \in Review /\ review' \in Review
  BY DEF TypeOK
<1>2. ~QueueResume
  BY <1>1 DEF QueueResume, Pages, Review
<1>3. UNCHANGED seen \/ \E u \in User : Fetch(u)
  BY DEF Next, vars, Attempt, EndAttempt, FailAttempt, QueueResume, StartAttempt, Acts, Decide, Approve,
     BeginExport, Deliver, RefuseExport, Checks, BeginCheck, CallModel, PublishCheck, FailCheck, Tick, Crash
<1>4. ASSUME NEW f \in Finding PROVE review'.decisions[f].version \in Nat
  BY <1>1, <1>4 DEF Review, Decision
<1>5. CASE UNCHANGED review /\ UNCHANGED seen
  BY <1>5 DEF Pages, Shows
<1>6. ASSUME NEW u \in User, Fetch(u) PROVE Pages'
  <2>1. UNCHANGED review /\ review.status = "ended"
    BY <1>6 DEF Fetch
  <2>2. ASSUME NEW v \in User, NEW f \in Finding PROVE Shows(v, f)'
    <3>1. CASE v = u
      <4>1. seen'[v].decisions = review.decisions
        BY <1>6, <3>1 DEF Fetch, Current, TypeOK
      <4> QED BY <1>4, <2>1, <4>1 DEF Shows
    <3>2. CASE v # u
      <4>1. seen'[v] = seen[v]
        BY <1>6, <3>2 DEF Fetch, TypeOK
      <4> QED BY <2>1, <4>1 DEF Shows, Pages
    <3> QED BY <3>1, <3>2
  <2> QED BY <2>1, <2>2 DEF Pages
<1>7. CASE EndAttempt \/ FailAttempt \/ StartAttempt
  <2>1. /\ \A u \in User : seen'[u] = None
        /\ review'.attempts = review.attempts
    BY <1>1, <1>7 DEF EndAttempt, FailAttempt, StartAttempt, Pages, Review
  <2> QED BY <2>1 DEF Pages, Shows
<1>8. CASE review'.status = "ended" /\ review'.attempts = review.attempts /\ UNCHANGED seen
           /\ \A f \in Finding : \/ review'.decisions[f] = review.decisions[f]
                                 \/ review'.decisions[f].version > review.decisions[f].version
  <2>1. \A u \in User, f \in Finding : Shows(u, f)'
    BY <1>4, <1>8, ShowsKept DEF Pages
  <2> QED BY <1>8, <2>1 DEF Pages
<1>9. CASE \E u \in User, f \in Finding, choice \in Choice, text \in Text \cup {NoText} :
              Decide(u, f, choice, text)
  <2>1. review'.status = "ended" /\ review'.attempts = review.attempts /\ UNCHANGED seen
    BY <1>1, <1>9 DEF Decide, Review
  <2> QED BY <1>8, <1>9, <2>1, VersionsGrow
<1>10. CASE \E u \in User : Approve(u)
  <2>1. review'.status = "ended" /\ review'.attempts = review.attempts /\ UNCHANGED seen
    BY <1>1, <1>10 DEF Approve, Releasable, Review
  <2> QED BY <1>8, <1>10, <2>1, VersionsGrow
<1>11. CASE \E q \in Request : PublishCheck(q)
  <2>1. /\ review'.status = "ended" /\ review'.attempts = review.attempts /\ UNCHANGED seen
        /\ review'.decisions = review.decisions
    BY <1>1, <1>11 DEF PublishCheck, Unchanged, Releasable, Review
  <2> QED BY <1>8, <2>1
<1> QED BY <1>2, <1>3, <1>5, <1>6, <1>7, <1>9, <1>10, <1>11, ReviewMoves DEF Attempt

\* Without a retry a person's decision is replaced only by somebody who saw it: versions do protect
\* choices, and it takes a rebuilt draft to defeat them.
THEOREM NoOverwriteWithoutRetry ==
  ASSUME MaxAttempts = 1
  PROVE  Spec => NoUnseenOverwrite
<1>1. Init => Pages
  BY DEF Init, Pages, Shows
<1>2. TypeOK /\ TypeOK' /\ Pages /\ [Next]_vars => Pages'
  BY PagesStep
<1>3. ASSUME TypeOK, Rebuilding, Pages, [Next]_vars, NEW f \in Finding,
             review.decisions[f].by # Model, review'.decisions[f] # review.decisions[f]
      PROVE  seen[review'.decisions[f].by].decisions[f] = review.decisions[f]
  <2>1. review \in Review /\ review.status # "running" /\ review.status # "queued"
    BY <1>3 DEF TypeOK, Rebuilding, Undecided
  <2>2. ~Attempt
    BY <1>3, <2>1 DEF Attempt, EndAttempt, FailAttempt, QueueResume, StartAttempt, Review
  <2>3. ASSUME NEW u \in User, NEW g \in Finding, NEW choice \in Choice, NEW text \in Text \cup {NoText},
               Decide(u, g, choice, text)
        PROVE  seen[review'.decisions[f].by].decisions[f] = review.decisions[f]
    <3>1. review'.decisions = Chosen(u, g, choice, text)
      BY <2>1, <2>3 DEF Decide, Review
    <3>2. f = g /\ review'.decisions[f].by = u
      BY <1>3, <3>1 DEF Chosen, ByModel
    <3> QED BY <2>3, <3>2, <1>3 DEF Decide, UpToDate, Pages, Shows
  <2>4. ASSUME NEW u \in User, Approve(u)
        PROVE  seen[review'.decisions[f].by].decisions[f] = review.decisions[f]
    <3>1. review.decisions[f] \in Decision /\ review'.decisions[f] = Accepted(u)[f]
      BY <2>1, <2>4 DEF Approve, Review
    <3>2. review'.decisions[f].by = u
      BY <1>3, <3>1 DEF Accepted, Decision
    <3> QED BY <2>4, <3>2 DEF Approve, Current
  <2>5. CASE \E q \in Request : PublishCheck(q)
    BY <1>3, <2>1, <2>5 DEF PublishCheck, Review
  <2> QED BY <1>3, <2>2, <2>3, <2>4, <2>5, ReviewMoves
<1>4. TypeOK /\ Rebuilding /\ Pages /\ [Next]_vars =>
        [\A f \in Finding :
           LET old == review.decisions[f]
               new == review'.decisions[f]
           IN old.by # Model /\ new # old => seen[new.by].decisions[f] = old]_vars
  BY <1>3
<1> QED BY <1>1, <1>2, <1>4, TypeCorrect, RebuildingInvariant, PTL DEF Spec, NoUnseenOverwrite
================================================================================
