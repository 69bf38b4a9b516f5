-------------------------------- MODULE ChatRun -------------------------------
(***************************************************************************)
(* The chat-style engine of the two speed tiers (legal/review_chat.py):    *)
(* one conversation per review, one thread per attempt, and several        *)
(* attempts that continue what an earlier one saved.  "ultra_fast" asks    *)
(* for the review once; "fast" asks for a draft, searches the law for it   *)
(* and lets the model re-read and finalise.  An answer may be truncated    *)
(* and continued, unreadable and sent back to be fixed; a request may be   *)
(* refused, limited or dropped.  The process may restart at any moment.    *)
(***************************************************************************)
EXTENDS Integers, FiniteSets

CONSTANTS
  MaxRequests,      \* MAX_REQUESTS of one attempt
  MaxContinuations, \* MAX_CONTINUATIONS of one answer
  MaxFixes,         \* MAX_FIXES of one result
  RateRetries,      \* v2.RATE_LIMIT_RETRIES
  TransientRetries, \* TRANSIENT_RETRIES
  MaxAttempts       \* bound: attempts at the review

ChatAssumption ==
  /\ {MaxRequests, MaxContinuations, MaxFixes, RateRetries, TransientRetries, MaxAttempts}
    \subseteq Nat
  /\ MaxFixes # 0

VARIABLES
  tier,     \* "ultra_fast" or "fast"
  row,      \* status and saved conversation of the review
  allowed,  \* contract, access and consent are as they were
  p,        \* the attempt's conversation: its copy of what is saved
  at,       \* where the attempt is
  call,     \* what it asks the model, and how far the answer is
  used,     \* attempts so far, requests and output budget of this one
  errors,   \* steps of this attempt that failed without ending it
  ended     \* why the last attempt failed

vars == <<tier, row, allowed, p, at, call, used, errors, ended>>

\* An answer as split_answer reads it.
Text == {"none", "good", "bad"}

\* state in the payload; merged says for which result the texts were merged.
Chat == [draft: Text, final: Text, result: {"none", "final"}, merged: {"none", "draft", "final"},
         research: {"pending", "failed", "skipped", "done"}, gap: BOOLEAN]

NewChat == [draft |-> "none", final |-> "none", result |-> "none", merged |-> "none",
            research |-> IF tier = "fast" THEN "pending" ELSE "skipped", gap |-> FALSE]

Question == {"draft", "fixDraft", "final", "fixFinal", "merge"}
NoCall == [of |-> "none", pc |-> "none", boosted |-> FALSE, parts |-> 0, fixes |-> 0,
           limited |-> 0, transient |-> 0]

TypeOK ==
  /\ tier \in {"ultra_fast", "fast"} /\ allowed \in BOOLEAN
  /\ row \in [status: {"queued", "running", "lost", "failed", "partial", "completed"}, saved: Chat]
  /\ p \in Chat
  /\ at \in {"idle", "open", "draft", "research", "final", "result", "end"}
  /\ call \in [of: Question \cup {"none"}, pc: {"none", "slot", "ready", "calling"},
               boosted: BOOLEAN, parts: 0..MaxContinuations, fixes: 0..MaxFixes,
               limited: 0..RateRetries, transient: 0..TransientRetries]
  /\ used \in [attempts: 0..MaxAttempts, requests: 0..MaxRequests, tokens: {"long", "default"}]
  /\ errors \in SUBSET {"research", "final"}
  /\ ended \in {"none", "hard", "error"}

Init ==
  /\ tier \in {"ultra_fast", "fast"}
  /\ row = [status |-> "queued", saved |-> NewChat]
  /\ allowed = TRUE /\ p = NewChat /\ at = "idle" /\ call = NoCall
  /\ used = [attempts |-> 0, requests |-> 0, tokens |-> "long"]
  /\ errors = {} /\ ended = "none"

-------------------------------------------------------------------------------
(* The row *)

Owned == row.status = "running"
Guard == CASE ~Owned -> "stopped" [] ~allowed -> "hard" [] OTHER -> "passes"

\* A failure marks the review and keeps the conversation; ReviewStopped leaves no trace, nor
\* does a failure once the row is no longer this attempt's.
Stop(why) ==
  /\ at' = "idle" /\ call' = NoCall
  /\ IF why # "stopped" /\ Owned
     THEN row' = [status |-> "failed", saved |-> p'] /\ ended' = why
     ELSE UNCHANGED <<row, ended>>
  /\ UNCHANGED <<tier, allowed, used, errors>>

\* save(): no guard but the token.
SaveAs(status, where) ==
  IF ~Owned THEN Stop("error")
  ELSE /\ row' = [status |-> status, saved |-> p']
       /\ at' = where /\ call' = NoCall
       /\ UNCHANGED <<tier, allowed, used, ended>>

Save(where) == SaveAs("running", where)

Without(where) ==
  /\ at' = where /\ call' = NoCall /\ UNCHANGED <<tier, row, allowed, used, ended>>

\* answer(): what the model is about to write is published under the guard.
Ask(question, fixes) ==
  IF Guard # "passes" THEN Stop(Guard)
  ELSE /\ row' = [row EXCEPT !.saved = p']
       /\ call' = [NoCall EXCEPT !.of = question, !.pc = "slot", !.fixes = fixes]
       /\ UNCHANGED <<tier, allowed, at, used, errors, ended>>

-------------------------------------------------------------------------------
(* An attempt *)

Claim ==
  /\ row.status = "queued" /\ at = "idle" /\ used.attempts < MaxAttempts
  /\ row' = [row EXCEPT !.status = "running"] /\ p' = row.saved /\ at' = "open"
  /\ used' = [attempts |-> used.attempts + 1, requests |-> 0, tokens |-> "long"]
  /\ errors' = {} /\ ended' = "none" /\ UNCHANGED <<tier, allowed, call>>

\* The saved conversation goes on if its opening (tier, contract, rules, skills) is the same.
Open ==
  /\ at = "open"
  /\ IF Guard # "passes" THEN p' = p /\ Stop(Guard)
     ELSE /\ p' \in {p, NewChat} /\ UNCHANGED errors
          /\ Save(IF tier = "fast" THEN "draft" ELSE "final")

Resting(where) == at = where /\ call = NoCall

\* Mutant: an unreadable draft is written again.
DraftStepAgain ==
  /\ Resting("draft") /\ UNCHANGED p
  /\ IF p.draft = "good" THEN Without("research") /\ UNCHANGED errors ELSE Ask("draft", 0)

\* A draft an earlier attempt left unreadable is offered for fixing again.
DraftStep ==
  /\ Resting("draft") /\ UNCHANGED p
  /\ CASE p.draft = "none" -> Ask("draft", 0)
       [] p.draft = "bad"  -> Ask("fixDraft", 1)
       [] p.draft = "good" -> Without("research") /\ UNCHANGED errors

\* Planning and retrieval, skipped where no search is configured; issues without an official text are a gap, and an error that is not
\* final leaves the research failed.
Search ==
  /\ at = "research"
  /\ \/ /\ \E gap \in BOOLEAN : p' = [p EXCEPT !.research = "done", !.gap = gap]
        /\ UNCHANGED errors /\ Save("final")
     \/ /\ p' = [p EXCEPT !.research = "skipped"] /\ UNCHANGED errors /\ Save("final")
     \/ /\ p' = [p EXCEPT !.research = "failed"]
        /\ errors' = (IF Owned THEN errors \cup {"research"} ELSE errors)
        /\ Save("final")
     \/ Guard # "passes" /\ p' = p /\ Stop(Guard)

FinalStep ==
  /\ Resting("final")
  /\ CASE p.result = "final" -> p' = p /\ UNCHANGED errors /\ Save("result")
       [] p.result = "none" /\ p.final = "none" -> p' = p /\ Ask("final", 0)
       [] p.result = "none" /\ p.final = "bad"  -> p' = p /\ Ask("fixFinal", 1)
       [] p.result = "none" /\ p.final = "good" ->
            p' = [p EXCEPT !.result = "final"] /\ UNCHANGED errors /\ Save("result")

Chosen == IF "final" \in errors THEN "draft" ELSE "final"

\* Merged texts belong to the result they were asked for; those of a draft are not kept.
Merged == [p EXCEPT !.merged = IF Chosen = "final" THEN "final" ELSE @]

\* Paragraphs given several texts, if there are any, are merged by one more question.
MergeStep ==
  /\ Resting("result")
  /\ \/ p.merged # Chosen /\ p' = p /\ Ask("merge", 0)
     \/ /\ p' = (IF p.merged = Chosen THEN p ELSE Merged)
        /\ UNCHANGED errors /\ Save("end")

End ==
  /\ at = "end" /\ UNCHANGED <<p, errors>>
  /\ SaveAs(IF errors # {} \/ p.gap THEN "partial" ELSE "completed", "idle")

-------------------------------------------------------------------------------
(* One request *)

To(pc) == call' = [call EXCEPT !.pc = pc]
Quiet == UNCHANGED <<tier, row, allowed, p, at, errors, ended>>

\* Every twentieth half second without a slot the guard is asked.
AwaitSlot ==
  /\ call.pc = "slot"
  /\ \/ To("ready") /\ UNCHANGED used /\ Quiet
     \/ Guard # "passes" /\ p' = p /\ Stop(Guard)

\* Mutant: a re-read that fails fails the review.
RaiseAlways(why) == p' = p /\ Stop(why)

\* What an error of the gateway means for the attempt: a final answer falls back on a readable
\* draft, a merge is done without; the rest, and a hard stop anywhere, fail the attempt.
Raise(why) ==
  CASE why = "hard" -> p' = p /\ Stop("hard")
    [] call.of \in {"final", "fixFinal"} /\ tier = "fast" /\ p.draft = "good" /\ why # "hard" ->
         /\ p' = p /\ errors' = (IF Owned THEN errors \cup {"final"} ELSE errors)
         /\ Save("result")
    [] call.of = "merge" /\ why # "hard" -> p' = Merged /\ UNCHANGED errors /\ Without("end")
    [] OTHER -> p' = p /\ Stop("error")

Send ==
  /\ call.pc = "ready"
  /\ CASE Guard # "passes" -> p' = p /\ Stop(Guard)
       [] Guard = "passes" /\ used.requests = MaxRequests -> Raise("error")
       [] OTHER -> /\ used' = [used EXCEPT !.requests = @ + 1]
                   /\ To("calling") /\ Quiet

\* While the answer streams it is published, and the guard, access not always, asked first.
Stream == call.pc = "calling" /\ ~Owned /\ p' = p /\ Stop("stopped")

\* Backing off the request keeps its slot.
Retry ==
  \/ /\ used.tokens = "long" /\ used' = [used EXCEPT !.tokens = "default"]
     /\ To("slot") /\ Quiet
  \/ /\ call.limited < RateRetries /\ UNCHANGED used /\ Quiet
     /\ call' = [call EXCEPT !.limited = @ + 1, !.pc = "slot"]
  \/ /\ call.transient < TransientRetries /\ UNCHANGED used /\ Quiet
     /\ call' = [call EXCEPT !.transient = @ + 1, !.pc = "slot"]

Again == [call EXCEPT !.pc = "slot", !.limited = 0, !.transient = 0]

\* An answer cut off at the output limit goes on in a further turn; one that is all reasoning is
\* tried once more with room.
Truncated ==
  \/ IF call.parts = MaxContinuations THEN Raise("error")
     ELSE call' = [Again EXCEPT !.parts = @ + 1] /\ UNCHANGED used /\ Quiet
  \/ IF call.boosted THEN Raise("error")
     ELSE /\ call' = [Again EXCEPT !.boosted = TRUE]
          /\ used' = [used EXCEPT !.tokens = "long"] /\ Quiet

\* The result of a re-read is saved with its answer, all others as soon as they are written.
Keep(text) ==
  CASE call.of = "draft" ->
         p' = [p EXCEPT !.draft = text] /\ UNCHANGED errors /\ Save("draft")
    [] call.of = "final" /\ tier = "ultra_fast" ->
         p' = [p EXCEPT !.final = text] /\ UNCHANGED errors /\ Save("final")
    [] call.of = "merge" -> p' = Merged /\ UNCHANGED errors /\ Without("end")
    [] call.of = "fixDraft" /\ text = "good" ->
         p' = [p EXCEPT !.draft = text] /\ UNCHANGED errors /\ Without("research")
    [] (call.of = "fixFinal" \/ (call.of = "final" /\ tier = "fast")) /\ text = "good" ->
         /\ p' = [p EXCEPT !.final = text, !.result = "final"]
         /\ UNCHANGED errors /\ Save("result")

\* After MaxFixes an unreadable draft is left to the re-read; an unreadable "ultra_fast" answer
\* is dropped, so that a retry writes a new one.
Unreadable ==
  CASE call.fixes < MaxFixes ->
         p' = p /\ Ask(IF call.of = "fixDraft" THEN "fixDraft" ELSE "fixFinal", call.fixes + 1)
    [] call.fixes = MaxFixes /\ call.of = "fixDraft" ->
         p' = p /\ UNCHANGED errors /\ Without("research")
    [] call.fixes = MaxFixes /\ call.of # "fixDraft" /\ tier = "ultra_fast" ->
         p' = [p EXCEPT !.final = "none"] /\ Stop("error")
    [] OTHER -> Raise("error")

Reply ==
  /\ call.pc = "calling"
  /\ \/ Retry
     \/ \E why \in {"hard", "error"} : Raise(why)
     \/ Guard # "passes" /\ p' = p /\ Stop(Guard)
     \/ /\ Guard = "passes"
        /\ \/ Truncated
           \/ Keep("good")
           \/ IF call.of \in {"fixDraft", "fixFinal"} \/ (call.of = "final" /\ tier = "fast")
              THEN Unreadable ELSE Keep("bad")

-------------------------------------------------------------------------------
(* The others *)

\* A retry, of a review that failed or is partial, or after a restart or a lapsed lease.
Resume ==
  /\ row.status \in {"failed", "partial", "lost"} /\ used.attempts < MaxAttempts
  /\ at = "idle"
  /\ row' = [row EXCEPT !.status = "queued"]
  /\ UNCHANGED <<tier, allowed, p, at, call, used, errors, ended>>

LoseReview ==
  /\ Owned /\ row' = [row EXCEPT !.status = "lost"]
  /\ UNCHANGED <<tier, allowed, p, at, call, used, errors, ended>>

Restart ==
  /\ at # "idle" /\ row' = [row EXCEPT !.status = IF Owned THEN "lost" ELSE @]
  /\ at' = "idle" /\ call' = NoCall
  /\ UNCHANGED <<tier, allowed, p, used, errors, ended>>

\* Access, the contract's version or the consent changes, or is restored.
Permit ==
  /\ allowed' = ~allowed
  /\ UNCHANGED <<tier, row, p, at, call, used, errors, ended>>

Attempt ==
  \/ Open \/ DraftStep \/ Search \/ FinalStep \/ MergeStep \/ End
  \/ AwaitSlot \/ Send \/ Stream \/ Reply

Next == Claim \/ Attempt \/ Resume \/ LoseReview \/ Restart \/ Permit

Spec == Init /\ [][Next]_vars

\* The attempt's thread runs; a slot comes free and a call returns or times out.
FairSpec == Spec /\ WF_vars(Attempt)

-------------------------------------------------------------------------------
(* Properties *)

\* What the row holds is never asked for again: whatever stops an attempt, and wherever, the
\* next one of the same conversation goes on behind the last answer that was saved.
NoAnswerTwice ==
  [][call.of = "none" =>
       /\ call'.of = "draft" => row.saved.draft = "none"
       /\ call'.of \in {"final", "fixFinal"} => row.saved.result = "none"
       /\ call'.of = "merge" => row.saved.merged # "final"]_vars

\* "The first review is a complete review too": with a readable draft saved, no failure of the
\* re-read or of the merge fails the review, unless access ended or the gateway refused for good.
DraftDelivered ==
  row.status = "failed" /\ tier = "fast" /\ row.saved.draft = "good" => ended = "hard"

\* Continuing, fixing and retrying end, in whatever mixture the model makes necessary.
AttemptEnds == (at # "idle") ~> (at = "idle")

===============================================================================
