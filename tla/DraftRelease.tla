----------------------------- MODULE DraftRelease -----------------------------
(***************************************************************************)
(* From findings to a delivered revision: the decisions people take on the *)
(* findings of one review (review_store.decide), the drafts the model      *)
(* prepares and a retry rebuilds (review_v2.prepare_draft), the optional   *)
(* model check of the selected changes, the approval and the export        *)
(* (legal/draft_release.py, api/routers/contract_review.py).               *)
(*                                                                         *)
(* A check runs in three transactions around a model call and an export    *)
(* builds its file between two; other users act in between.  A user acts   *)
(* on the draft last fetched, which may be stale.                          *)
(*                                                                         *)
(* A fingerprint is a digest of the findings and decisions; it is modelled *)
(* by these themselves (no collisions).  The contract of a review never    *)
(* changes once its redaction is confirmed (confirm_redaction).            *)
(***************************************************************************)
EXTENDS Integers, FiniteSets

CONSTANTS
  Finding, Block, NoBlock,
  BlockOf,      \* the paragraph a finding is about; NoBlock: a clause the contract lacks
  Text, NoText, \* replacement paragraphs that pass validate_replacement
  Suggestion,   \* what a finding suggests, fixed as its id is a hash of it; NoText: nothing usable
  Rank,         \* the order of findings (severity, paragraph, id)
  User, Model,  \* who decides
  Request,      \* identifiers of draft checks
  Requester,    \* the user who sends the request
  None,         \* nothing yet
  LeaseTime,    \* the 240 s a check may take, in ticks
  Exporter,     \* bound: users who export
  MaxVersion,   \* bound: decisions on one finding
  MaxAttempts   \* bound: attempts of the review

ASSUME ConstantsAssumption ==
  /\ NoBlock \notin Block /\ BlockOf \in [Finding -> Block \cup {NoBlock}]
  /\ Suggestion \in [Finding -> Text \cup {NoText}]
  /\ Rank \in [Finding -> Nat] /\ \A f, g \in Finding : Rank[f] = Rank[g] => f = g
  /\ NoText \notin Text /\ Model \notin User
  /\ Requester \in [Request -> User] /\ Exporter \subseteq User
  /\ LeaseTime \in Nat /\ MaxVersion \in Nat \ {0} /\ MaxAttempts \in Nat \ {0}

VARIABLES
  review,    \* the row and payload of the review
  checks,    \* per request, its row of legal_draft_checks and the call that serves it
  seen,      \* per user, the draft last fetched
  exports    \* per user, the file being built, or sent last

vars == <<review, checks, seen, exports>>

-------------------------------------------------------------------------------
(* Drafts *)

Selecting == {"accepted", "draft"}
Choice == Selecting \cup {"rejected", "pending"}

\* version 0: no decision on this finding.
Decision == [choice: Choice \cup {"none"}, text: Text \cup {NoText}, by: User \cup {Model},
             version: 0..MaxVersion]

Undecided == [choice |-> "none", text |-> NoText, by |-> Model, version |-> 0]

Draft == [findings: SUBSET Finding, decisions: [Finding -> Decision]]

ASSUME NoneAssumption == None \notin Draft

Current == [findings |-> review.findings, decisions |-> review.decisions]

Selected(d) == {f \in Finding : d.decisions[f].choice \in Selecting}

\* snapshot refuses a draft with two changes of one paragraph.
Consistent(d) ==
  \A f, g \in Selected(d) : BlockOf[f] = BlockOf[g] => f = g

\* The revised contract, per paragraph; None is the original text.
Revised(d) ==
  [b \in Block |->
     LET on == {f \in Selected(d) : BlockOf[f] = b}
     IN IF on = {} THEN None ELSE d.decisions[CHOOSE f \in on : TRUE].text]

\* Findings that await a person's choice.
Pending(d) ==
  {f \in d.findings : d.decisions[f].choice \notin {"accepted", "rejected"}}

\* What snapshot needs of the row.
Releasable == review.status = "ended" /\ Consistent(Current)

-------------------------------------------------------------------------------

Status == {"queued", "running", "ended", "failed"}

Review == [status: Status, retryable: BOOLEAN, attempts: 0..MaxAttempts,
           findings: SUBSET Finding, decisions: [Finding -> Decision],
           check: Draft \cup {None}, approval: Draft \cup {None}]

\* prepared: the row is inserted; calling: counted and sent to the model.
Check == [status: {"none", "running", "completed", "failed"}, left: -1..LeaseTime,
          pc: {"idle", "prepared", "calling"}, draft: Draft \cup {None}, calls: Nat]

File == [draft: Draft, confirmed: BOOLEAN, sent: BOOLEAN]

TypeOK ==
  /\ review \in Review
  /\ checks \in [Request -> Check]
  /\ seen \in [User -> Draft \cup {None}]
  /\ exports \in [User -> File \cup {None}]

NoCheck == [status |-> "none", left |-> -1, pc |-> "idle", draft |-> None, calls |-> 0]

Init ==
  /\ review = [status |-> "running", retryable |-> FALSE, attempts |-> 1,
               findings |-> {}, decisions |-> [f \in Finding |-> Undecided],
               check |-> None, approval |-> None]
  /\ checks = [q \in Request |-> NoCheck]
  /\ seen = [u \in User |-> None]
  /\ exports = [u \in User |-> None]

-------------------------------------------------------------------------------
(* Attempts of the review *)

ByModel(d) == d.by = Model /\ d.choice = "draft"

HasUserDecisions ==
  \E f \in Finding : review.decisions[f].choice # "none" /\ ~ByModel(review.decisions[f])

\* prepare_draft: where all replacements of a paragraph agree, its first finding is selected.
Replacing(findings, b) == {f \in findings : BlockOf[f] = b /\ Suggestion[f] # NoText}

Preselected(findings, f) ==
  LET on == Replacing(findings, BlockOf[f]) IN
  /\ BlockOf[f] # NoBlock /\ f \in on
  /\ \A g \in on : Suggestion[g] = Suggestion[f] /\ Rank[f] <= Rank[g]

Prepared(findings) ==
  [f \in Finding |->
     IF Preselected(findings, f)
     THEN [choice |-> "draft", text |-> Suggestion[f], by |-> Model, version |-> 1]
     ELSE Undecided]

\* A chat attempt ends with the model's draft selected, a v2 attempt with nothing selected.
EndAttempt ==
  /\ review.status = "running"
  /\ \E findings \in SUBSET Finding, retry \in BOOLEAN :
       \E d \in {Prepared(findings), [f \in Finding |-> Undecided]} :
         review' = [review EXCEPT !.status = "ended", !.retryable = retry,
                                  !.findings = findings, !.decisions = d]
  /\ UNCHANGED <<checks, seen, exports>>

FailAttempt ==
  /\ review.status = "running"
  /\ review' = [review EXCEPT !.status = "failed", !.retryable = TRUE]
  /\ UNCHANGED <<checks, seen, exports>>

\* Mutant: a retry does not ask for decisions.
MayResumeDecided == review.status = "failed" \/ (review.status = "ended" /\ review.retryable)

MayResume ==
  /\ ~HasUserDecisions
  /\ review.status = "failed" \/ (review.status = "ended" /\ review.retryable)

QueueResume ==
  /\ MayResume
  /\ review.attempts < MaxAttempts
  /\ review' = [review EXCEPT !.status = "queued", !.attempts = @ + 1]
  /\ UNCHANGED <<checks, seen, exports>>

\* The new attempt drops what it will rebuild.
StartAttempt ==
  /\ review.status = "queued"
  /\ review' = [review EXCEPT !.status = "running", !.check = None, !.approval = None,
                              !.decisions = [f \in Finding |-> Undecided]]
  /\ UNCHANGED <<checks, seen, exports>>

-------------------------------------------------------------------------------
(* Decisions *)

\* GET of the review: the page of u shows this draft from now on.
Fetch(u) ==
  /\ review.status = "ended"
  /\ seen' = [seen EXCEPT ![u] = Current]
  /\ UNCHANGED <<review, checks, exports>>

\* Other selected changes of the paragraph of f.
SameBlock(f) ==
  {g \in Selected(Current) \ {f} : BlockOf[f] # NoBlock /\ BlockOf[g] = BlockOf[f]}

\* Mutant: a person's selection is added to another person's.
SelectableBeside(f) == BlockOf[f] # NoBlock

\* A person's selection replaces model drafts only.
Selectable(f) ==
  /\ BlockOf[f] # NoBlock
  /\ \A g \in SameBlock(f) : ByModel(review.decisions[g])

UpToDate(u, f) == review.decisions[f].version = seen[u].decisions[f].version

\* The decisions after u chose for f: displaced model drafts become pending, with a new version.
Chosen(u, f, choice, text) ==
  [g \in Finding |->
     IF g = f
       THEN [choice |-> choice, text |-> text, by |-> u, version |-> review.decisions[f].version + 1]
     ELSE IF choice # "pending" /\ g \in SameBlock(f) /\ ByModel(review.decisions[g])
       THEN [choice |-> "pending", text |-> NoText, by |-> u,
             version |-> review.decisions[g].version + 1]
     ELSE review.decisions[g]]

\* store.decide with the version on u's page.
Decide(u, f, choice, text) ==
  /\ seen[u] # None /\ f \in seen[u].findings
  /\ review.status = "ended"
  /\ f \in review.findings
  /\ UpToDate(u, f)
  /\ choice \in Selecting => Selectable(f)
  /\ (text = NoText) = (choice \notin Selecting)
  /\ \A g \in Finding : review.decisions[g].version < MaxVersion
  /\ review' = [review EXCEPT !.decisions = Chosen(u, f, choice, text),
                              !.check = None, !.approval = None]
  /\ UNCHANGED <<checks, seen, exports>>

\* approve with the fingerprint on u's page: drafts become u's accepted changes.
Accepted(u) ==
  [f \in Finding |->
     LET d == review.decisions[f] IN
     IF d.choice = "draft" THEN [d EXCEPT !.choice = "accepted", !.by = u, !.version = @ + 1] ELSE d]

\* Mutant: the approval records the fingerprint from before the drafts are accepted.
ApproveBefore(u) ==
  /\ Releasable
  /\ seen[u] = Current
  /\ \A g \in Finding : review.decisions[g].version < MaxVersion
  /\ review' = [review EXCEPT !.decisions = Accepted(u), !.approval = Current]
  /\ UNCHANGED <<checks, seen, exports>>

Approve(u) ==
  /\ Releasable
  /\ seen[u] = Current
  /\ \A g \in Finding : review.decisions[g].version < MaxVersion
  /\ review' = [review EXCEPT !.decisions = Accepted(u),
                              !.approval = [findings |-> review.findings, decisions |-> Accepted(u)]]
  /\ UNCHANGED <<checks, seen, exports>>

-------------------------------------------------------------------------------
(* The model check of a draft *)

Running(q) == checks[q].status = "running"

\* Mutant: a failed request is simply sent again.
BeginCheckAgain(q) ==
  /\ Releasable
  /\ Selected(Current) # {}
  /\ checks[q].status \in {"none", "failed"}
  /\ ~\E p \in Request : Running(p) /\ checks[p].left > 0
  /\ checks' = [checks EXCEPT ![q] = [status |-> "running", left |-> LeaseTime, pc |-> "prepared",
                                      draft |-> Current, calls |-> checks[q].calls]]
  /\ UNCHANGED <<review, seen, exports>>

\* Mutant: sending a running request again extends its lease.
BeginCheckRenewing(q) ==
  /\ Releasable
  /\ Selected(Current) # {}
  /\ checks[q].status \in {"none", "running"}
  /\ ~\E p \in Request \ {q} : Running(p) /\ checks[p].left > 0
  /\ checks' = [checks EXCEPT ![q] = [status |-> "running", left |-> LeaseTime, pc |-> "prepared",
                                      draft |-> Current, calls |-> checks[q].calls]]
  /\ UNCHANGED <<review, seen, exports>>

\* The first transaction.  A known request is answered from its row, whatever its state.
BeginCheck(q) ==
  /\ Releasable
  /\ Selected(Current) # {}
  /\ checks[q].status = "none"
  /\ ~\E p \in Request : Running(p) /\ checks[p].left > 0
  /\ checks' = [checks EXCEPT ![q] = [status |-> "running", left |-> LeaseTime, pc |-> "prepared",
                                      draft |-> Current, calls |-> checks[q].calls]]
  /\ UNCHANGED <<review, seen, exports>>

\* Mutant: nobody looks at the draft again.
UnchangedStatus(q) == Releasable /\ checks[q].draft # None

Unchanged(q) == Releasable /\ Current = checks[q].draft

\* The second counts the call that follows, unless the draft changed meanwhile.
CallModel(q) ==
  /\ checks[q].pc = "prepared"
  /\ Unchanged(q)
  /\ checks' = [checks EXCEPT ![q] = [checks[q] EXCEPT !.pc = "calling", !.calls = checks[q].calls + 1]]
  /\ UNCHANGED <<review, seen, exports>>

\* The third publishes an answer that is in time and about the draft as it is now.
PublishCheck(q) ==
  /\ checks[q].pc = "calling"
  /\ Unchanged(q)
  /\ Running(q) /\ checks[q].left >= 0
  /\ review' = [review EXCEPT !.check = checks[q].draft, !.approval = None]
  /\ checks' = [checks EXCEPT ![q] = [checks[q] EXCEPT !.status = "completed", !.left = -1, !.pc = "idle"]]
  /\ UNCHANGED <<seen, exports>>

\* Any refusal or error on the way.
FailCheck(q) ==
  /\ checks[q].pc # "idle"
  /\ checks' = [checks EXCEPT ![q] = [checks[q] EXCEPT !.status = "failed", !.left = -1, !.pc = "idle"]]
  /\ UNCHANGED <<review, seen, exports>>

-------------------------------------------------------------------------------
(* Export *)

\* assert_exportable with the fingerprint fp the client sent, or None.
Exportable(confirmed, fp) ==
  /\ Releasable
  /\ fp # None => fp = Current
  /\ Pending(Current) # {} => confirmed /\ fp = Current

Building(u) == exports[u] # None /\ ~exports[u].sent

BeginExport(u, confirmed, fp) ==
  /\ u \in Exporter /\ ~Building(u)
  /\ Exportable(confirmed, fp)
  /\ exports' = [exports EXCEPT ![u] = [draft |-> Current, confirmed |-> confirmed, sent |-> FALSE]]
  /\ UNCHANGED <<review, checks, seen>>

\* Mutant: the file is sent as it was built.
DeliverUnchecked(u) ==
  /\ Building(u)
  /\ exports' = [exports EXCEPT ![u].sent = TRUE]
  /\ UNCHANGED <<review, checks, seen>>

\* The file is built: send it if it still is the current draft ...
Deliver(u) ==
  /\ Building(u)
  /\ Exportable(exports[u].confirmed, exports[u].draft)
  /\ exports' = [exports EXCEPT ![u].sent = TRUE]
  /\ UNCHANGED <<review, checks, seen>>

\* ... or answer 409.
RefuseExport(u) ==
  /\ Building(u)
  /\ ~Exportable(exports[u].confirmed, exports[u].draft)
  /\ exports' = [exports EXCEPT ![u] = None]
  /\ UNCHANGED <<review, checks, seen>>

-------------------------------------------------------------------------------

Tick ==
  /\ checks' = [q \in Request |->
       [checks[q] EXCEPT !.left = IF Running(q) /\ @ >= 0 THEN @ - 1 ELSE @]]
  /\ UNCHANGED <<review, seen, exports>>

\* The process restarts: calls and exports are lost, rows are not.
Crash ==
  /\ checks' = [q \in Request |-> [checks[q] EXCEPT !.pc = "idle"]]
  /\ exports' = [u \in User |-> None]
  /\ UNCHANGED <<review, seen>>

Attempt == EndAttempt \/ FailAttempt \/ QueueResume \/ StartAttempt

Acts(u) ==
  \/ Fetch(u) \/ Approve(u) \/ Deliver(u) \/ RefuseExport(u)
  \/ \E f \in Finding, choice \in Choice, text \in Text \cup {NoText} : Decide(u, f, choice, text)
  \/ \E confirmed \in BOOLEAN, fp \in {seen[u], None} : BeginExport(u, confirmed, fp)

Checks(q) == BeginCheck(q) \/ CallModel(q) \/ PublishCheck(q) \/ FailCheck(q)

Next ==
  \/ Attempt
  \/ \E u \in User : Acts(u)
  \/ \E q \in Request : Checks(q)
  \/ Tick
  \/ Crash

Spec == Init /\ [][Next]_vars

\* Time passes.  A call may hang for good and users owe nothing.
FairSpec == Spec /\ WF_vars(Tick)

-------------------------------------------------------------------------------
(* Properties *)

\* However decisions, displaced drafts, rebuilds and approvals interleave, at most one change is
\* selected for a paragraph: otherwise neither check nor export would ever accept the draft again.
OneChangePerBlock == Consistent(Current)

\* The advice shown with a finished review is about the text selected now, although the answer
\* came after a model call during which anybody may have decided.
CheckIsOfThisText ==
  review.status = "ended" /\ review.check # None => Revised(review.check) = Revised(Current)

\* An approval on record covers every decision as it is now, not an earlier combination.
ApprovalIsCurrent == review.status = "ended" /\ review.approval # None => review.approval = Current

\* "A user's choice must be preserved": a retry rebuilds drafts of the model and nothing else.
HumanChoicesKept ==
  [][\A f \in Finding :
       review.decisions[f].by # Model =>
         /\ review'.decisions[f].by # Model
         /\ review'.decisions[f].version >= review.decisions[f].version]_vars

\* A file leaves the server only if it is the draft of that moment, whoever decided while it was
\* built; with findings pending, one its user confirmed.
ExportIsCurrent ==
  [][\A u \in User : Building(u) /\ exports'[u] # None /\ exports'[u].sent =>
       /\ exports[u].draft = Current
       /\ Pending(Current) # {} => exports[u].confirmed]_vars

\* However often a request is sent and wherever it fails, it costs one model call at most.
OneCallPerRequest == \A q \in Request : checks[q].calls <= 1

\* A person's decision is replaced only by somebody who saw it ("already handled by somebody
\* else, please refresh").
NoUnseenOverwrite ==
  [][\A f \in Finding :
       LET old == review.decisions[f]
           new == review'.decisions[f]
       IN old.by # Model /\ new # old => seen[new.by].decisions[f] = old]_vars

\* A check that hangs, or that a restart lost, does not keep the others out for good.
CheckSlotFrees == \A q \in Request : Running(q) /\ checks[q].left > 0 ~> ~(Running(q) /\ checks[q].left > 0)
===============================================================================
