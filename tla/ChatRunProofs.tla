----------------------------- MODULE ChatRunProofs ----------------------------
(***************************************************************************)
(* What is proved of the chat engine, ChatRun, as MCEngines instantiates   *)
(* it, for every limit on requests, continuations, fixes and retries.      *)
(*                                                                         *)
(* DraftDelivered and NoAnswerTwice speak of the saved row and of the      *)
(* question on its way.  What relates them is the attempt's own copy of    *)
(* the conversation: a question is only asked while its answer is missing  *)
(* there (Asking), the row never holds an answer the copy lacks (Behind),  *)
(* and a result is there unless the re-read has failed (Settled).          *)
(***************************************************************************)
EXTENDS MCEngines, TLAPS

\* Requests and budgets, as TypeOK types them.
CallType ==
  [of: Chat!Question \cup {"none"}, pc: {"none", "slot", "ready", "calling"},
   boosted: BOOLEAN, parts: 0..MaxContinuations, fixes: 0..MaxFixes,
   limited: 0..ChatRetries, transient: 0..ChatRetries]
UsedType == [attempts: 0..MaxAttempts, requests: 0..MaxRequests, tokens: {"long", "default"}]

\* A question is on its way at the step that asks it, and its answer is not there yet.
Asking ==
  /\ call.of = "none" <=> call.pc = "none"
  /\ call.of \in {"draft", "fixDraft"} => at = "draft" /\ chat.draft # "good"
  /\ call.of \in {"final", "fixFinal"} => at = "final" /\ chat.result = "none"
  /\ call.of = "merge" => at = "result"
  /\ at = "idle" => call.of = "none"

\* The re-read has its result once the attempt is behind it, unless it failed, and texts are
\* merged for good only where that result is.
Settled ==
  /\ chat.merged = "final" => chat.result = "final"
  /\ chatRow.saved.merged = "final" => chatRow.saved.result = "final"
  /\ "final" \in errors => chat.result = "none" /\ at \in {"idle", "result", "end"}
  /\ at \in {"result", "end"} /\ "final" \notin errors => chat.result = "final"

\* What the row of a running attempt holds, the attempt holds too.
Behind ==
  Chat!Owned /\ at # "idle" =>
    /\ chat.draft = "none" => chatRow.saved.draft = "none"
    /\ chat.result = "none" => chatRow.saved.result = "none"
    /\ chatRow.saved.merged = "final" => chat.merged = "final"

\* The inductive invariant.
ChatInv == Chat!TypeOK /\ Asking /\ Settled /\ Behind /\ DraftDelivered

-------------------------------------------------------------------------------
(* The guard and the constants *)

\* The constants are natural numbers, and a fix can be asked for.
LEMMA Numbers ==
  /\ MaxRequests \in Nat /\ MaxContinuations \in Nat /\ MaxFixes \in Nat /\ ChatRetries \in Nat
  /\ MaxAttempts \in Nat /\ MaxFixes # 0
BY ChatConstants DEF Chat!ChatAssumption

\* The guard passes exactly while the row is the attempt's and access is as it was.
LEMMA Guards ==
  /\ Chat!Guard \in {"stopped", "hard", "passes"}
  /\ Chat!Guard = "passes" <=> Chat!Owned /\ chatAllowed
<1>1. CASE ~Chat!Owned /\ chatAllowed
  BY <1>1 DEF Chat!Guard
<1>2. CASE Chat!Owned
  BY <1>2 DEF Chat!Guard
<1>3. CASE ~Chat!Owned /\ ~chatAllowed
  BY <1>3 DEF Chat!Guard
<1> QED
  BY <1>1, <1>2, <1>3

\* A conversation stays one whatever single answer it is given.
LEMMA Answers ==
  ASSUME NEW c \in Chat!Chat
  PROVE  /\ \A text \in Chat!Text :
              /\ [c EXCEPT !.draft = text] \in Chat!Chat
              /\ [c EXCEPT !.final = text] \in Chat!Chat
              /\ [c EXCEPT !.final = text, !.result = "final"] \in Chat!Chat
         /\ [c EXCEPT !.result = "final"] \in Chat!Chat
         /\ [c EXCEPT !.merged = "final"] \in Chat!Chat
         /\ [c EXCEPT !.merged = @] \in Chat!Chat
         /\ \A how \in {"skipped", "failed"} : [c EXCEPT !.research = how] \in Chat!Chat
         /\ \A gap \in BOOLEAN : [c EXCEPT !.research = "done", !.gap = gap] \in Chat!Chat
         /\ Chat!NewChat \in Chat!Chat
BY DEF Chat!Chat, Chat!NewChat, Chat!Text

\* A request stays one with any counter within its limit.
LEMMA Counters ==
  ASSUME NEW c \in CallType, NEW place \in {"none", "slot", "ready", "calling"}
  PROVE  /\ [c EXCEPT !.pc = place] \in CallType
         /\ \A n \in 0..ChatRetries : /\ [c EXCEPT !.limited = n, !.pc = place] \in CallType
                                     /\ [c EXCEPT !.transient = n, !.pc = place] \in CallType
         /\ \A n \in 0..MaxContinuations : [c EXCEPT !.parts = n] \in CallType
         /\ [c EXCEPT !.boosted = TRUE] \in CallType
BY DEF CallType

-------------------------------------------------------------------------------
(* The four ways a step ends *)

\* A stopped attempt leaves a good draft in a failed row only if it stopped for good.
LEMMA StopKeeps ==
  ASSUME ChatInv, NEW why \in {"stopped", "hard", "error"}, Chat!Stop(why), chat' \in Chat!Chat,
         chat'.merged = "final" => chat'.result = "final",
         "final" \in errors => chat'.result = "none",
         why = "error" /\ Chat!Owned /\ tier = "fast" => chat'.draft # "good"
  PROVE  ChatInv'
<1>1. Chat!TypeOK'
  BY Numbers DEF ChatInv, Chat!TypeOK, Chat!Stop, Chat!NoCall, Chat!Question
<1>2. Asking' /\ Behind'
  BY DEF Asking, Behind, Chat!Stop, Chat!NoCall
<1>3. Settled' /\ DraftDelivered'
  BY DEF ChatInv, Settled, DraftDelivered, Chat!DraftDelivered, Chat!Stop, Chat!TypeOK
<1> QED
  BY <1>1, <1>2, <1>3 DEF ChatInv

\* A save, or the failure it turns into when the row is not the attempt's any more.
LEMMA SaveKeeps ==
  ASSUME ChatInv, at # "idle",
         NEW status \in {"running", "partial", "completed"},
         NEW where \in {"idle", "draft", "final", "result", "end"},
         Chat!SaveAs(status, where), chat' \in Chat!Chat,
         errors' \in SUBSET {"research", "final"}, ~Chat!Owned => errors' = errors,
         chat'.merged = "final" => chat'.result = "final",
         "final" \in errors' => chat'.result = "none" /\ where \in {"idle", "result", "end"},
         where \in {"result", "end"} /\ "final" \notin errors' => chat'.result = "final"
  PROVE  ChatInv'
<1>1. CASE ~Chat!Owned
  <2>1. Chat!Stop("error")
    BY <1>1 DEF Chat!SaveAs
  <2> QED
    BY <1>1, <2>1, StopKeeps DEF ChatInv, Settled
<1>2. CASE Chat!Owned
  <2>1. /\ chatRow' = [status |-> status, saved |-> chat'] /\ at' = where /\ call' = Chat!NoCall
        /\ UNCHANGED <<tier, chatAllowed, used, ended>>
    BY <1>2 DEF Chat!SaveAs
  <2>2. Chat!TypeOK'
    BY <2>1, Numbers DEF ChatInv, Chat!TypeOK, Chat!NoCall, Chat!Question
  <2>3. Asking' /\ Behind' /\ Settled' /\ DraftDelivered'
    BY <2>1 DEF Asking, Behind, Settled, DraftDelivered, Chat!DraftDelivered, Chat!NoCall
  <2> QED
    BY <2>2, <2>3 DEF ChatInv
<1> QED
  BY <1>1, <1>2

\* The attempt goes on without saving; what it holds only grows.
LEMMA WithoutKeeps ==
  ASSUME ChatInv, at # "idle", NEW where \in {"research", "end"},
         Chat!Without(where), chat' \in Chat!Chat, errors' = errors,
         chat'.merged = "final" => chat'.result = "final",
         chat'.result = chat.result, chat'.draft = "none" => chat.draft = "none",
         chat.merged = "final" => chat'.merged = "final",
         where = "end" => at = "result", where = "research" => "final" \notin errors
  PROVE  ChatInv'
<1>1. Chat!TypeOK'
  BY Numbers DEF ChatInv, Chat!TypeOK, Chat!Without, Chat!NoCall, Chat!Question
<1>2. Asking' /\ Settled'
  BY DEF ChatInv, Asking, Settled, Chat!Without, Chat!NoCall
<1>3. Behind' /\ DraftDelivered'
  BY DEF ChatInv, Behind, Chat!Owned, DraftDelivered, Chat!DraftDelivered, Chat!Without
<1> QED
  BY <1>1, <1>2, <1>3 DEF ChatInv

\* A question is asked under the guard and published with the conversation.
LEMMA AskKeeps ==
  ASSUME ChatInv, at # "idle", NEW question \in Chat!Question, NEW fixes \in 0..MaxFixes,
         Chat!Ask(question, fixes), chat' = chat,
         question \in {"draft", "fixDraft"} => at = "draft" /\ chat.draft # "good",
         question \in {"final", "fixFinal"} => at = "final" /\ chat.result = "none",
         question = "merge" => at = "result"
  PROVE  ChatInv'
<1>1. CASE Chat!Guard # "passes"
  <2>1. Chat!Stop(Chat!Guard)
    BY <1>1 DEF Chat!Ask
  <2> QED
    BY <1>1, <2>1, Guards, StopKeeps DEF ChatInv, Settled, Chat!TypeOK
<1>2. CASE Chat!Guard = "passes"
  <2>1. /\ chatRow' = [chatRow EXCEPT !.saved = chat']
        /\ call' = [Chat!NoCall EXCEPT !.of = question, !.pc = "slot", !.fixes = fixes]
        /\ UNCHANGED <<tier, chatAllowed, at, used, errors, ended>>
    BY <1>2 DEF Chat!Ask
  <2>2. call' = [of |-> question, pc |-> "slot", boosted |-> FALSE, parts |-> 0, fixes |-> fixes,
                 limited |-> 0, transient |-> 0]
    BY <2>1 DEF Chat!NoCall
  <2>3. chatRow' \in [status: {"queued", "running", "lost", "failed", "partial", "completed"},
                      saved: Chat!Chat] /\ chatRow'.status = "running" /\ chatRow'.saved = chat
    BY <1>2, <2>1, Guards DEF ChatInv, Chat!TypeOK, Chat!Owned
  <2>4. Chat!TypeOK'
    <3>1. call' \in CallType
      BY <2>2, Numbers DEF CallType
    <3> QED
      BY <2>1, <2>3, <3>1 DEF ChatInv, Chat!TypeOK, CallType
  <2>5. Asking' /\ Settled'
    BY <2>1, <2>2, <2>3 DEF ChatInv, Asking, Settled, Chat!Question
  <2>6. Behind' /\ DraftDelivered'
    BY <2>1, <2>3 DEF Behind, DraftDelivered, Chat!DraftDelivered
  <2> QED
    BY <2>4, <2>5, <2>6 DEF ChatInv
<1> QED
  BY <1>1, <1>2

\* What only moves the request along, and counts it.
LEMMA QuietKeeps ==
  ASSUME ChatInv, Chat!Quiet, call.of # "none", call'.of = call.of, call'.pc # "none",
         call' \in CallType, used' \in UsedType
  PROVE  ChatInv'
<1>1. Chat!TypeOK'
  BY DEF ChatInv, Chat!TypeOK, Chat!Quiet, CallType, UsedType
<1>2. Asking' /\ Settled'
  BY DEF ChatInv, Asking, Settled, Chat!Quiet
<1>3. Behind' /\ DraftDelivered'
  BY DEF ChatInv, Behind, Chat!Owned, DraftDelivered, Chat!DraftDelivered, Chat!Quiet
<1> QED
  BY <1>1, <1>2, <1>3 DEF ChatInv

-------------------------------------------------------------------------------
(* What an answer, or the lack of one, leads to *)

\* While a question is on its way the attempt is at the step that asked it.
LEMMA Underway ==
  ASSUME ChatInv, call.of # "none"
  PROVE  /\ at \in {"draft", "final", "result"}
         /\ call.of \in Chat!Question
         /\ chat \in Chat!Chat
         /\ at # "result" => "final" \notin errors
BY DEF ChatInv, Chat!TypeOK, Asking, Settled, Chat!Question

\* Texts are merged for good with the result only.
LEMMA Merging ==
  ASSUME ChatInv, at = "result"
  PROVE  /\ Chat!Merged \in Chat!Chat
         /\ Chat!Merged.result = chat.result /\ Chat!Merged.draft = chat.draft
         /\ chat.merged = "final" => Chat!Merged.merged = "final"
         /\ Chat!Merged.merged = "final" => chat.result = "final"
<1>1. chat \in Chat!Chat
  BY DEF ChatInv, Chat!TypeOK
<1>2. CASE "final" \in errors
  <2>1. Chat!Merged = [chat EXCEPT !.merged = @]
    BY <1>2 DEF Chat!Merged, Chat!Chosen
  <2>2. Chat!Merged \in Chat!Chat
    BY <1>1, <2>1, Answers
  <2>3. /\ Chat!Merged.result = chat.result /\ Chat!Merged.draft = chat.draft
        /\ Chat!Merged.merged = chat.merged
    BY <1>1, <2>1 DEF Chat!Chat
  <2> QED
    BY <2>2, <2>3 DEF ChatInv, Settled
<1>3. CASE "final" \notin errors
  <2>1. Chat!Merged = [chat EXCEPT !.merged = "final"]
    BY <1>3 DEF Chat!Merged, Chat!Chosen
  <2>2. Chat!Merged \in Chat!Chat
    BY <1>1, <2>1, Answers
  <2>3. /\ Chat!Merged.result = chat.result /\ Chat!Merged.draft = chat.draft
        /\ Chat!Merged.merged = "final"
    BY <1>1, <2>1 DEF Chat!Chat
  <2> QED
    BY <1>3, <2>2, <2>3 DEF ChatInv, Settled
<1> QED
  BY <1>2, <1>3

\* Merged texts are kept without a save of their own.
LEMMA MergedKeeps ==
  ASSUME ChatInv, at = "result", chat' = Chat!Merged, errors' = errors, Chat!Without("end")
  PROVE  ChatInv'
BY Merging, WithoutKeeps

\* A failed re-read falls back on a readable draft; what fails the review had none to deliver.
LEMMA RaiseKeeps ==
  ASSUME ChatInv, call.of # "none", NEW why \in {"hard", "error"}, Chat!Raise(why)
  PROVE  ChatInv'
<1>1. CASE why = "hard"
  <2>1. chat' = chat /\ Chat!Stop("hard")
    BY <1>1 DEF Chat!Raise
  <2> QED
    BY <2>1, StopKeeps, Underway DEF ChatInv, Settled
<1>2. CASE why = "error" /\ call.of \in {"final", "fixFinal"} /\ tier = "fast" /\ chat.draft = "good"
  <2>1. /\ chat' = chat /\ errors' = (IF Chat!Owned THEN errors \cup {"final"} ELSE errors)
        /\ Chat!SaveAs("running", "result")
    BY <1>2 DEF Chat!Raise, Chat!Save
  <2>2. at = "final" /\ chat.result = "none" /\ chat.merged # "final"
    BY <1>2 DEF ChatInv, Asking, Settled
  <2>3. errors' \in SUBSET {"research", "final"} /\ (~Chat!Owned => errors' = errors)
    BY <2>1 DEF ChatInv, Chat!TypeOK
  <2>4. "final" \notin errors /\ chat \in Chat!Chat
    BY <1>2, <2>2, Underway
  <2>5. CASE Chat!Owned
    BY <2>1, <2>2, <2>3, <2>4, <2>5, SaveKeeps
  <2>6. CASE ~Chat!Owned
    <3>1. Chat!Stop("error")
      BY <2>1, <2>6 DEF Chat!SaveAs
    <3> QED
      BY <3>1, <2>1, <2>2, <2>4, <2>6, StopKeeps
  <2> QED
    BY <2>5, <2>6
<1>3. CASE why = "error" /\ call.of = "merge"
  <2>1. chat' = Chat!Merged /\ UNCHANGED errors /\ Chat!Without("end")
    BY <1>3 DEF Chat!Raise
  <2> QED
    BY <1>3, <2>1, MergedKeeps DEF ChatInv, Asking
<1>4. CASE why = "error" /\ call.of # "merge"
           /\ ~(call.of \in {"final", "fixFinal"} /\ tier = "fast" /\ chat.draft = "good")
  <2>1. chat' = chat /\ Chat!Stop("error")
    BY <1>4 DEF Chat!Raise
  <2>2. tier = "fast" => chat.draft # "good"
    BY <1>4, Underway DEF ChatInv, Asking, Chat!Question
  <2> QED
    BY <2>1, <2>2, StopKeeps, Underway DEF ChatInv, Settled
<1> QED
  BY <1>1, <1>2, <1>3, <1>4

\* A written answer becomes what it answers, and is saved or kept.
LEMMA KeepKeeps ==
  ASSUME ChatInv, call.of # "none", NEW text \in {"good", "bad"}, Chat!Keep(text),
         text = "bad" => ~(call.of \in {"fixDraft", "fixFinal"}
                           \/ (call.of = "final" /\ tier = "fast"))
  PROVE  ChatInv'
<1>1. /\ text \in Chat!Text /\ tier \in {"ultra_fast", "fast"} /\ chat \in Chat!Chat
      /\ errors \in SUBSET {"research", "final"} /\ call.of \in Chat!Question
  BY Underway DEF Chat!Text, ChatInv, Chat!TypeOK
<1>2. /\ call.of \in {"draft", "fixDraft"} => at = "draft"
      /\ call.of \in {"final", "fixFinal"} => at = "final" /\ chat.result = "none"
      /\ call.of = "merge" => at = "result"
      /\ at # "result" => "final" \notin errors
      /\ chat.merged = "final" => chat.result = "final"
  BY Underway DEF ChatInv, Asking, Settled
<1>3. CASE call.of = "draft"
  <2>1. /\ chat' = [chat EXCEPT !.draft = text] /\ UNCHANGED errors
        /\ Chat!SaveAs("running", "draft")
    BY <1>3 DEF Chat!Keep, Chat!Save
  <2>2. chat' \in Chat!Chat
    BY <1>1, <2>1, Answers
  <2>3. chat'.merged = chat.merged /\ chat'.result = chat.result
    BY <1>1, <2>1 DEF Chat!Chat
  <2> QED
    BY <1>1, <1>2, <1>3, <2>1, <2>2, <2>3, SaveKeeps
<1>4. CASE call.of = "final" /\ tier = "ultra_fast"
  <2>1. /\ chat' = [chat EXCEPT !.final = text] /\ UNCHANGED errors
        /\ Chat!SaveAs("running", "final")
    BY <1>4 DEF Chat!Keep, Chat!Save
  <2>2. chat' \in Chat!Chat
    BY <1>1, <2>1, Answers
  <2>3. chat'.merged = chat.merged /\ chat'.result = chat.result
    BY <1>1, <2>1 DEF Chat!Chat
  <2> QED
    BY <1>1, <1>2, <1>4, <2>1, <2>2, <2>3, SaveKeeps
<1>5. CASE call.of = "merge"
  <2>1. chat' = Chat!Merged /\ UNCHANGED errors /\ Chat!Without("end")
    BY <1>5 DEF Chat!Keep
  <2> QED
    BY <1>2, <1>5, <2>1, MergedKeeps
<1>6. CASE call.of = "fixDraft"
  <2>1. chat' = [chat EXCEPT !.draft = text] /\ UNCHANGED errors /\ Chat!Without("research")
    BY <1>6 DEF Chat!Keep
  <2>2. chat' \in Chat!Chat
    BY <1>1, <2>1, Answers
  <2>3. chat'.merged = chat.merged /\ chat'.result = chat.result /\ chat'.draft = text
    BY <1>1, <2>1 DEF Chat!Chat
  <2> QED
    BY <1>1, <1>2, <1>6, <2>1, <2>2, <2>3, WithoutKeeps
<1>7. CASE call.of = "fixFinal" \/ (call.of = "final" /\ tier = "fast")
  <2>1. text = "good"
    BY <1>7
  <2>2. /\ chat' = [chat EXCEPT !.final = text, !.result = "final"] /\ UNCHANGED errors
        /\ Chat!SaveAs("running", "result")
    BY <1>7, <2>1 DEF Chat!Keep, Chat!Save
  <2>3. chat' \in Chat!Chat
    BY <1>1, <2>2, Answers
  <2>4. chat'.result = "final"
    BY <1>1, <2>2 DEF Chat!Chat
  <2> QED
    BY <1>1, <1>2, <1>7, <2>2, <2>3, <2>4, SaveKeeps
<1> QED
  BY <1>1, <1>3, <1>4, <1>5, <1>6, <1>7 DEF Chat!Question

\* An unreadable answer is sent back to be fixed, left to the re-read, or dropped.
LEMMA UnreadableKeeps ==
  ASSUME ChatInv, Chat!Unreadable,
         call.of \in {"fixDraft", "fixFinal"} \/ (call.of = "final" /\ tier = "fast")
  PROVE  ChatInv'
<1>1. /\ call.fixes \in 0..MaxFixes /\ chat \in Chat!Chat /\ errors \in SUBSET {"research", "final"}
      /\ tier \in {"ultra_fast", "fast"} /\ MaxFixes \in Nat
  BY Numbers DEF ChatInv, Chat!TypeOK
<1>2. /\ call.of \in {"draft", "fixDraft"} => at = "draft" /\ chat.draft # "good"
      /\ call.of \in {"final", "fixFinal"} => at = "final" /\ chat.result = "none"
      /\ at # "result" => "final" \notin errors
      /\ chat.merged = "final" => chat.result = "final"
  BY Underway DEF ChatInv, Asking, Settled
<1>3. CASE call.fixes < MaxFixes
  <2>1. chat' = chat
        /\ Chat!Ask(IF call.of = "fixDraft" THEN "fixDraft" ELSE "fixFinal", call.fixes + 1)
    BY <1>1, <1>3 DEF Chat!Unreadable
  <2>2. call.fixes + 1 \in 0..MaxFixes
    BY <1>1, <1>3
  <2>3. CASE call.of = "fixDraft"
    <3>1. Chat!Ask("fixDraft", call.fixes + 1)
      BY <2>1, <2>3
    <3> QED
      BY <1>2, <2>1, <2>2, <2>3, <3>1, AskKeeps DEF Chat!Question
  <2>4. CASE call.of # "fixDraft"
    <3>1. Chat!Ask("fixFinal", call.fixes + 1)
      BY <2>1, <2>4
    <3>2. at = "final" /\ chat.result = "none"
      BY <1>2, <2>4
    <3> QED
      BY <2>1, <2>2, <3>1, <3>2, AskKeeps DEF Chat!Question
  <2> QED
    BY <2>3, <2>4
<1>4. CASE call.fixes = MaxFixes /\ call.of = "fixDraft"
  <2>1. chat' = chat /\ UNCHANGED errors /\ Chat!Without("research")
    BY <1>1, <1>4 DEF Chat!Unreadable
  <2> QED
    BY <1>1, <1>2, <1>4, <2>1, WithoutKeeps
<1>5. CASE call.fixes = MaxFixes /\ call.of # "fixDraft" /\ tier = "ultra_fast"
  <2>1. chat' = [chat EXCEPT !.final = "none"] /\ Chat!Stop("error")
    BY <1>1, <1>5 DEF Chat!Unreadable
  <2>2. chat' \in Chat!Chat
    BY <1>1, <2>1, Answers DEF Chat!Text
  <2>3. chat'.merged = chat.merged /\ chat'.result = chat.result
    BY <1>1, <2>1 DEF Chat!Chat
  <2> QED
    BY <1>2, <1>5, <2>1, <2>2, <2>3, StopKeeps
<1>6. CASE call.fixes = MaxFixes /\ call.of # "fixDraft" /\ tier # "ultra_fast"
  <2>1. Chat!Raise("error")
    BY <1>1, <1>6 DEF Chat!Unreadable
  <2> QED
    BY <2>1, RaiseKeeps
<1> QED
  BY <1>1, <1>3, <1>4, <1>5, <1>6

\* A request that is tried again, or goes on behind a cut-off answer, asks the same question.
LEMMA RetryKeeps ==
  ASSUME ChatInv, call.of # "none", Chat!Retry
  PROVE  ChatInv'
<1>1. call \in CallType /\ used \in UsedType
  BY DEF ChatInv, Chat!TypeOK, CallType, UsedType
<1>2. call.limited \in 0..ChatRetries /\ call.transient \in 0..ChatRetries
  BY <1>1 DEF CallType
<1>3. CASE used' = [used EXCEPT !.tokens = "default"] /\ Chat!To("slot") /\ Chat!Quiet
  <2>1. used' \in UsedType
    BY <1>1, <1>3 DEF UsedType
  <2>2. call' = [call EXCEPT !.pc = "slot"]
    BY <1>3 DEF Chat!To
  <2>3. call'.of = call.of /\ call'.pc = "slot"
    BY <1>1, <2>2 DEF CallType
  <2> QED
    BY <1>1, <1>3, <2>1, <2>2, <2>3, Counters, QuietKeeps
<1>4. CASE /\ call.limited < ChatRetries /\ UNCHANGED used /\ Chat!Quiet
           /\ call' = [call EXCEPT !.limited = @ + 1, !.pc = "slot"]
  <2>1. PICK n \in 0..ChatRetries : n = call.limited + 1
    BY <1>2, <1>4, Numbers
  <2>2. call' = [call EXCEPT !.limited = n, !.pc = "slot"]
    BY <1>4, <2>1
  <2>3. call' \in CallType
    BY <1>1, <2>2, Counters
  <2>4. call'.of = call.of /\ call'.pc = "slot"
    BY <1>1, <2>2 DEF CallType
  <2> QED
    BY <1>1, <1>4, <2>3, <2>4, QuietKeeps
<1>5. CASE /\ call.transient < ChatRetries /\ UNCHANGED used /\ Chat!Quiet
           /\ call' = [call EXCEPT !.transient = @ + 1, !.pc = "slot"]
  <2>1. PICK n \in 0..ChatRetries : n = call.transient + 1
    BY <1>2, <1>5, Numbers
  <2>2. call' = [call EXCEPT !.transient = n, !.pc = "slot"]
    BY <1>5, <2>1
  <2>3. call' \in CallType
    BY <1>1, <2>2, Counters
  <2>4. call'.of = call.of /\ call'.pc = "slot"
    BY <1>1, <2>2 DEF CallType
  <2> QED
    BY <1>1, <1>5, <2>3, <2>4, QuietKeeps
<1> QED
  BY <1>3, <1>4, <1>5 DEF Chat!Retry

LEMMA TruncatedKeeps ==
  ASSUME ChatInv, call.of # "none", Chat!Truncated
  PROVE  ChatInv'
<1>1. call \in CallType /\ used \in UsedType
  BY DEF ChatInv, Chat!TypeOK, CallType, UsedType
<1>2. /\ Chat!Again \in CallType /\ Chat!Again.of = call.of /\ Chat!Again.pc = "slot"
      /\ Chat!Again.parts = call.parts /\ call.parts \in 0..MaxContinuations
  <2>1. 0 \in 0..ChatRetries
    BY Numbers
  <2> QED
    BY <1>1, <2>1 DEF Chat!Again, CallType
<1>3. CASE Chat!Raise("error")
  BY <1>3, RaiseKeeps
<1>4. CASE /\ call.parts # MaxContinuations /\ UNCHANGED used /\ Chat!Quiet
           /\ call' = [Chat!Again EXCEPT !.parts = @ + 1]
  <2>1. PICK n \in 0..MaxContinuations : n = call.parts + 1
    BY <1>2, <1>4, Numbers
  <2>2. call' = [Chat!Again EXCEPT !.parts = n]
    BY <1>2, <1>4, <2>1
  <2>3. call' \in CallType
    BY <1>2, <2>2, Counters
  <2>4. call'.of = call.of /\ call'.pc = "slot"
    BY <1>2, <2>2 DEF CallType
  <2> QED
    BY <1>1, <1>4, <2>3, <2>4, QuietKeeps
<1>5. CASE /\ call' = [Chat!Again EXCEPT !.boosted = TRUE] /\ Chat!Quiet
           /\ used' = [used EXCEPT !.tokens = "long"]
  <2>1. call' \in CallType
    BY <1>2, <1>5, Counters
  <2>2. call'.of = call.of /\ call'.pc = "slot"
    BY <1>2, <1>5 DEF CallType
  <2>3. used' \in UsedType
    BY <1>1, <1>5 DEF UsedType
  <2> QED
    BY <1>5, <2>1, <2>2, <2>3, QuietKeeps
<1> QED
  BY <1>3, <1>4, <1>5 DEF Chat!Truncated

-------------------------------------------------------------------------------
(* The invariant *)

\* The engine starts with nothing saved and nothing asked.
LEMMA ChatStarts == Chat!Init => ChatInv
<1> SUFFICES ASSUME Chat!Init PROVE ChatInv
  OBVIOUS
<1> USE DEF Chat!Init
<1>1. Chat!NewChat \in Chat!Chat /\ Chat!NewChat.merged = "none"
  BY DEF Chat!NewChat, Chat!Chat, Chat!Text
<1>2. Chat!NoCall \in CallType
  BY Numbers DEF Chat!NoCall, CallType
<1>3. Chat!TypeOK
  BY <1>1, <1>2, Numbers DEF Chat!TypeOK, CallType
<1>4. Asking /\ Settled
  BY <1>1 DEF Asking, Settled, Chat!NoCall
<1>5. Behind /\ DraftDelivered
  BY DEF Behind, DraftDelivered, Chat!DraftDelivered, Chat!Owned
<1> QED
  BY <1>3, <1>4, <1>5 DEF ChatInv

\* An attempt takes the saved conversation as its own.
LEMMA ClaimKeeps == ChatInv /\ Chat!Claim => ChatInv'
<1> SUFFICES ASSUME ChatInv, Chat!Claim PROVE ChatInv'
  OBVIOUS
<1>1. /\ chatRow.status = "queued" /\ at = "idle" /\ used.attempts < MaxAttempts
      /\ chatRow' = [chatRow EXCEPT !.status = "running"] /\ chat' = chatRow.saved /\ at' = "open"
      /\ used' = [attempts |-> used.attempts + 1, requests |-> 0, tokens |-> "long"]
      /\ errors' = {} /\ ended' = "none" /\ UNCHANGED <<tier, chatAllowed, call>>
  BY DEF Chat!Claim
<1>2. /\ chatRow.saved \in Chat!Chat
      /\ chatRow' \in [status: {"queued", "running", "lost", "failed", "partial", "completed"},
                       saved: Chat!Chat]
      /\ chatRow'.saved = chatRow.saved /\ chatRow'.status = "running"
  BY <1>1 DEF ChatInv, Chat!TypeOK
<1>3. used' \in [attempts: 0..MaxAttempts, requests: 0..MaxRequests, tokens: {"long", "default"}]
  BY <1>1, Numbers DEF ChatInv, Chat!TypeOK
<1>4. Chat!TypeOK'
  BY <1>1, <1>2, <1>3 DEF ChatInv, Chat!TypeOK
<1>5. Asking' /\ Settled'
  BY <1>1, <1>2 DEF ChatInv, Asking, Settled
<1>6. Behind' /\ DraftDelivered'
  BY <1>1, <1>2 DEF Behind, DraftDelivered, Chat!DraftDelivered
<1> QED
  BY <1>4, <1>5, <1>6 DEF ChatInv

LEMMA OpenKeeps == ChatInv /\ Chat!Open => ChatInv'
<1> SUFFICES ASSUME ChatInv, Chat!Open PROVE ChatInv'
  OBVIOUS
<1>1. /\ at = "open" /\ chat \in Chat!Chat /\ errors \in SUBSET {"research", "final"}
      /\ "final" \notin errors /\ (chat.merged = "final" => chat.result = "final")
  BY DEF Chat!Open, ChatInv, Chat!TypeOK, Settled
<1>2. CASE Chat!Guard # "passes"
  BY <1>1, <1>2, Guards, StopKeeps DEF Chat!Open
<1>3. CASE Chat!Guard = "passes"
  <2>1. PICK where \in {"draft", "final"} : Chat!SaveAs("running", where)
    BY <1>3 DEF Chat!Open, Chat!Save
  <2>2. chat' \in {chat, Chat!NewChat} /\ errors' = errors
    BY <1>3 DEF Chat!Open
  <2>3. Chat!NewChat \in Chat!Chat /\ Chat!NewChat.merged = "none"
    BY DEF Chat!NewChat, Chat!Chat, Chat!Text
  <2>4. chat' \in Chat!Chat /\ (chat'.merged = "final" => chat'.result = "final")
    BY <1>1, <2>2, <2>3
  <2> QED
    BY <1>1, <2>1, <2>2, <2>4, SaveKeeps
<1> QED
  BY <1>2, <1>3

LEMMA DraftKeeps == ChatInv /\ Chat!DraftStep => ChatInv'
<1> SUFFICES ASSUME ChatInv, Chat!DraftStep PROVE ChatInv'
  OBVIOUS
<1>1. /\ at = "draft" /\ chat \in Chat!Chat /\ chat' = chat
      /\ "final" \notin errors /\ (chat.merged = "final" => chat.result = "final")
      /\ chat.draft \in {"none", "good", "bad"}
  BY DEF Chat!DraftStep, Chat!Resting, ChatInv, Chat!TypeOK, Settled, Chat!Chat, Chat!Text
<1>2. CASE chat.draft = "none"
  <2>1. Chat!Ask("draft", 0) /\ 0 \in 0..MaxFixes
    BY <1>2, Numbers DEF Chat!DraftStep
  <2> QED
    BY <1>1, <1>2, <2>1, AskKeeps DEF Chat!Question
<1>3. CASE chat.draft = "bad"
  <2>1. Chat!Ask("fixDraft", 1) /\ 1 \in 0..MaxFixes
    BY <1>3, Numbers DEF Chat!DraftStep
  <2> QED
    BY <1>1, <1>3, <2>1, AskKeeps DEF Chat!Question
<1>4. CASE chat.draft = "good"
  <2>1. Chat!Without("research") /\ errors' = errors
    BY <1>4 DEF Chat!DraftStep
  <2> QED
    BY <1>1, <2>1, WithoutKeeps
<1> QED
  BY <1>1, <1>2, <1>3, <1>4

LEMMA SearchKeeps == ChatInv /\ Chat!Search => ChatInv'
<1> SUFFICES ASSUME ChatInv, Chat!Search PROVE ChatInv'
  OBVIOUS
<1>1. /\ at = "research" /\ chat \in Chat!Chat /\ errors \in SUBSET {"research", "final"}
      /\ "final" \notin errors /\ (chat.merged = "final" => chat.result = "final")
  BY DEF Chat!Search, ChatInv, Chat!TypeOK, Settled
<1>2. ASSUME chat' \in Chat!Chat, chat'.merged = chat.merged, chat'.result = chat.result,
             errors' = errors \/ (Chat!Owned /\ errors' = errors \cup {"research"}),
             Chat!SaveAs("running", "final")
      PROVE  ChatInv'
  BY <1>1, <1>2, SaveKeeps
<1>3. ASSUME NEW gap \in BOOLEAN, chat' = [chat EXCEPT !.research = "done", !.gap = gap],
             UNCHANGED errors, Chat!Save("final")
      PROVE  ChatInv'
  <2>1. chat' \in Chat!Chat
    BY <1>1, <1>3, Answers
  <2>2. chat'.merged = chat.merged /\ chat'.result = chat.result
    BY <1>1, <1>3 DEF Chat!Chat
  <2> QED
    BY <1>2, <1>3, <2>1, <2>2 DEF Chat!Save
<1>4. ASSUME NEW how \in {"skipped", "failed"}, chat' = [chat EXCEPT !.research = how],
             errors' = errors \/ (Chat!Owned /\ errors' = errors \cup {"research"}),
             Chat!Save("final")
      PROVE  ChatInv'
  <2>1. chat' \in Chat!Chat
    BY <1>1, <1>4, Answers
  <2>2. chat'.merged = chat.merged /\ chat'.result = chat.result
    BY <1>1, <1>4 DEF Chat!Chat
  <2> QED
    BY <1>2, <1>4, <2>1, <2>2 DEF Chat!Save
<1>5. CASE Chat!Guard # "passes" /\ chat' = chat /\ Chat!Stop(Chat!Guard)
  BY <1>1, <1>5, Guards, StopKeeps
<1> QED
  BY <1>3, <1>4, <1>5 DEF Chat!Search

LEMMA FinalKeeps == ChatInv /\ Chat!FinalStep => ChatInv'
<1> SUFFICES ASSUME ChatInv, Chat!FinalStep PROVE ChatInv'
  OBVIOUS
<1>1. /\ at = "final" /\ chat \in Chat!Chat /\ errors \in SUBSET {"research", "final"}
      /\ "final" \notin errors /\ (chat.merged = "final" => chat.result = "final")
      /\ chat.final \in {"none", "good", "bad"} /\ chat.result \in {"none", "final"}
  BY DEF Chat!FinalStep, Chat!Resting, ChatInv, Chat!TypeOK, Settled, Chat!Chat, Chat!Text
<1>2. CASE chat.result = "final"
  <2>1. chat' = chat /\ errors' = errors /\ Chat!SaveAs("running", "result")
    BY <1>2 DEF Chat!FinalStep, Chat!Save
  <2> QED
    BY <1>1, <1>2, <2>1, SaveKeeps
<1>3. CASE chat.result = "none" /\ chat.final = "none"
  <2>1. chat' = chat /\ Chat!Ask("final", 0) /\ 0 \in 0..MaxFixes
    BY <1>3, Numbers DEF Chat!FinalStep
  <2> QED
    BY <1>1, <1>3, <2>1, AskKeeps DEF Chat!Question
<1>4. CASE chat.result = "none" /\ chat.final = "bad"
  <2>1. chat' = chat /\ Chat!Ask("fixFinal", 1) /\ 1 \in 0..MaxFixes
    BY <1>4, Numbers DEF Chat!FinalStep
  <2> QED
    BY <1>1, <1>4, <2>1, AskKeeps DEF Chat!Question
<1>5. CASE chat.result = "none" /\ chat.final = "good"
  <2>1. chat' = [chat EXCEPT !.result = "final"] /\ errors' = errors
        /\ Chat!SaveAs("running", "result")
    BY <1>5 DEF Chat!FinalStep, Chat!Save
  <2>2. chat' \in Chat!Chat
    BY <1>1, <2>1, Answers
  <2>3. chat'.result = "final"
    BY <1>1, <2>1 DEF Chat!Chat
  <2> QED
    BY <1>1, <2>1, <2>2, <2>3, SaveKeeps
<1> QED
  BY <1>1, <1>2, <1>3, <1>4, <1>5

LEMMA MergeKeeps == ChatInv /\ Chat!MergeStep => ChatInv'
<1> SUFFICES ASSUME ChatInv, Chat!MergeStep PROVE ChatInv'
  OBVIOUS
<1>1. /\ at = "result" /\ chat \in Chat!Chat /\ errors \in SUBSET {"research", "final"}
      /\ "final" \in errors => chat.result = "none"
      /\ "final" \notin errors => chat.result = "final"
      /\ chat.merged = "final" => chat.result = "final"
  BY DEF Chat!MergeStep, Chat!Resting, ChatInv, Chat!TypeOK, Settled
<1>2. CASE chat' = chat /\ Chat!Ask("merge", 0)
  <2>1. 0 \in 0..MaxFixes
    BY Numbers
  <2> QED
    BY <1>1, <1>2, <2>1, AskKeeps DEF Chat!Question
<1>3. CASE chat' \in {chat, Chat!Merged} /\ errors' = errors /\ Chat!Save("end")
  <2>1. /\ chat' \in Chat!Chat /\ chat'.result = chat.result
        /\ chat'.merged = "final" => chat.result = "final"
    BY <1>1, <1>3, Merging
  <2> QED
    BY <1>1, <1>3, <2>1, SaveKeeps DEF Chat!Save
<1> QED
  BY <1>2, <1>3 DEF Chat!MergeStep

LEMMA EndKeeps == ChatInv /\ Chat!End => ChatInv'
<1> SUFFICES ASSUME ChatInv, Chat!End PROVE ChatInv'
  OBVIOUS
<1>1. /\ at = "end" /\ chat' = chat /\ errors' = errors
      /\ \E status \in {"partial", "completed"} : Chat!SaveAs(status, "idle")
  BY DEF Chat!End
<1>2. /\ chat \in Chat!Chat /\ errors \in SUBSET {"research", "final"}
      /\ "final" \in errors => chat.result = "none"
      /\ chat.merged = "final" => chat.result = "final"
  BY DEF ChatInv, Chat!TypeOK, Settled
<1> QED
  BY <1>1, <1>2, SaveKeeps

\* The steps of a request that do not answer it.
LEMMA RequestKeeps == ChatInv /\ (Chat!AwaitSlot \/ Chat!Send \/ Chat!Stream) => ChatInv'
<1> SUFFICES ASSUME ChatInv, Chat!AwaitSlot \/ Chat!Send \/ Chat!Stream PROVE ChatInv'
  OBVIOUS
<1>1. /\ call.of # "none" /\ call \in CallType /\ used \in UsedType /\ chat \in Chat!Chat
      /\ "final" \in errors => chat.result = "none"
      /\ chat.merged = "final" => chat.result = "final"
  BY DEF Chat!AwaitSlot, Chat!Send, Chat!Stream, ChatInv, Asking, Settled, Chat!TypeOK, CallType,
         UsedType
<1>2. ASSUME NEW why \in {"stopped", "hard"}, chat' = chat, Chat!Stop(why) PROVE ChatInv'
  BY <1>1, <1>2, StopKeeps
<1>3. ASSUME NEW place \in {"ready", "calling"}, Chat!To(place), Chat!Quiet, used' \in UsedType
      PROVE  ChatInv'
  <2>1. call' = [call EXCEPT !.pc = place]
    BY <1>3 DEF Chat!To
  <2>2. call'.of = call.of /\ call'.pc = place
    BY <1>1, <2>1 DEF CallType
  <2> QED
    BY <1>1, <1>3, <2>1, <2>2, Counters, QuietKeeps
<1>4. CASE Chat!AwaitSlot
  BY <1>1, <1>2, <1>3, <1>4, Guards DEF Chat!AwaitSlot
<1>5. CASE Chat!Send
  <2>1. CASE Chat!Guard # "passes"
    BY <1>2, <1>5, <2>1, Guards DEF Chat!Send
  <2>2. CASE Chat!Guard = "passes" /\ used.requests = MaxRequests
    BY <1>1, <1>5, <2>2, RaiseKeeps DEF Chat!Send
  <2>3. CASE Chat!Guard = "passes" /\ used.requests # MaxRequests
    <3>1. used' = [used EXCEPT !.requests = @ + 1] /\ Chat!To("calling") /\ Chat!Quiet
      BY <1>5, <2>3 DEF Chat!Send
    <3>2. used' \in UsedType
      BY <1>1, <2>3, <3>1, Numbers DEF UsedType
    <3> QED
      BY <1>3, <3>1, <3>2
  <2> QED
    BY <2>1, <2>2, <2>3
<1>6. CASE Chat!Stream
  BY <1>2, <1>6 DEF Chat!Stream
<1> QED
  BY <1>4, <1>5, <1>6

LEMMA ReplyKeeps == ChatInv /\ Chat!Reply => ChatInv'
<1> SUFFICES ASSUME ChatInv, Chat!Reply PROVE ChatInv'
  OBVIOUS
<1>1. /\ call.of # "none" /\ chat \in Chat!Chat
      /\ "final" \in errors => chat.result = "none"
      /\ chat.merged = "final" => chat.result = "final"
  BY DEF Chat!Reply, ChatInv, Asking, Settled, Chat!TypeOK
<1>2. CASE Chat!Retry
  BY <1>1, <1>2, RetryKeeps
<1>3. ASSUME NEW why \in {"hard", "error"}, Chat!Raise(why) PROVE ChatInv'
  BY <1>1, <1>3, RaiseKeeps
<1>4. CASE Chat!Guard # "passes" /\ chat' = chat /\ Chat!Stop(Chat!Guard)
  BY <1>1, <1>4, Guards, StopKeeps
<1>5. CASE Chat!Truncated
  BY <1>1, <1>5, TruncatedKeeps
<1>6. CASE Chat!Keep("good")
  BY <1>1, <1>6, KeepKeeps
<1>7. CASE /\ Chat!Unreadable
           /\ call.of \in {"fixDraft", "fixFinal"} \/ (call.of = "final" /\ tier = "fast")
  BY <1>7, UnreadableKeeps
<1>8. CASE /\ Chat!Keep("bad")
           /\ ~(call.of \in {"fixDraft", "fixFinal"} \/ (call.of = "final" /\ tier = "fast"))
  BY <1>1, <1>8, KeepKeeps
<1> QED
  BY <1>2, <1>3, <1>4, <1>5, <1>6, <1>7, <1>8 DEF Chat!Reply

\* A retry, a lapsed lease, a restart and a change of access leave the conversation as it is.
LEMMA OthersKeep ==
  ChatInv /\ (Chat!Resume \/ Chat!LoseReview \/ Chat!Restart \/ Chat!Permit) => ChatInv'
<1> SUFFICES ASSUME ChatInv, Chat!Resume \/ Chat!LoseReview \/ Chat!Restart \/ Chat!Permit
    PROVE ChatInv'
  OBVIOUS
<1>1. /\ chat' = chat /\ UNCHANGED <<tier, used, errors, ended>>
      /\ (at' = at /\ call' = call) \/ (at' = "idle" /\ call' = Chat!NoCall)
      /\ chatAllowed' \in BOOLEAN
  BY DEF Chat!Resume, Chat!LoseReview, Chat!Restart, Chat!Permit, ChatInv, Chat!TypeOK
<1>2. \/ chatRow' = chatRow
      \/ /\ chatRow' = [chatRow EXCEPT !.status = "queued"] /\ at = "idle" /\ at' = "idle"
      \/ /\ chatRow' = [chatRow EXCEPT !.status = "lost"]
  BY DEF Chat!Resume, Chat!LoseReview, Chat!Restart, Chat!Permit, ChatInv, Chat!TypeOK
<1>3. /\ chatRow' \in [status: {"queued", "running", "lost", "failed", "partial", "completed"},
                       saved: Chat!Chat]
      /\ chatRow'.saved = chatRow.saved
      /\ chatRow'.status \in {"queued", "lost", chatRow.status}
  BY <1>2 DEF ChatInv, Chat!TypeOK
<1>4. Chat!NoCall \in CallType /\ Chat!NoCall.of = "none" /\ Chat!NoCall.pc = "none"
  BY Numbers DEF Chat!NoCall, CallType
<1>5. Chat!TypeOK'
  BY <1>1, <1>3, <1>4 DEF ChatInv, Chat!TypeOK, CallType
<1>6. Asking' /\ Settled'
  BY <1>1, <1>3, <1>4 DEF ChatInv, Asking, Settled
<1>7. Behind' /\ DraftDelivered'
  BY <1>1, <1>3 DEF ChatInv, Behind, Chat!Owned, DraftDelivered, Chat!DraftDelivered
<1> QED
  BY <1>5, <1>6, <1>7 DEF ChatInv

\* Every step of the engine keeps the invariant.
LEMMA ChatSteps == ChatInv /\ [Chat!Next]_(Chat!vars) => ChatInv'
<1> SUFFICES ASSUME ChatInv, [Chat!Next]_(Chat!vars) PROVE ChatInv'
  OBVIOUS
<1>1. CASE Chat!Next
  BY <1>1, ClaimKeeps, OpenKeeps, DraftKeeps, SearchKeeps, FinalKeeps, MergeKeeps, EndKeeps,
     RequestKeeps, ReplyKeeps, OthersKeep DEF Chat!Next, Chat!Attempt
<1>2. CASE UNCHANGED Chat!vars
  BY <1>2 DEF Chat!vars, ChatInv, Chat!TypeOK, Asking, Settled, Behind, Chat!Owned,
              DraftDelivered, Chat!DraftDelivered
<1> QED
  BY <1>1, <1>2

LEMMA ChatInvariant == Chat!Spec => []ChatInv
BY ChatStarts, ChatSteps, PTL DEF Chat!Spec

-------------------------------------------------------------------------------
(* Theorems *)

\* Row, conversation, attempt and request keep their types, for all limits: no counter of
\* review_chat.py passes its maximum.
THEOREM ChatTypeCorrect == Chat!Spec => []Chat!TypeOK
<1>1. ChatInv => Chat!TypeOK
  BY DEF ChatInv
<1> QED
  BY <1>1, ChatInvariant, PTL

\* Whatever fails in whatever order, a "fast" review whose readable draft is saved is failed
\* only by lost access or a refusal for good, never by its re-read or its merge.
THEOREM DraftIsDelivered == Chat!Spec => []DraftDelivered
<1>1. ChatInv => DraftDelivered
  BY DEF ChatInv
<1> QED
  BY <1>1, ChatInvariant, PTL

\* Only four steps ask something while nothing is asked.
LEMMA Asks ==
  ASSUME ChatInv, [Chat!Next]_(Chat!vars), call.of = "none", call'.of # "none"
  PROVE  /\ Chat!Owned /\ at # "idle"
         /\ call'.of = "draft" => chat.draft = "none"
         /\ call'.of \in {"final", "fixFinal"} => chat.result = "none"
         /\ call'.of = "merge" => chat.merged # Chat!Chosen /\ at = "result"
<1> DEFINE Goal == /\ Chat!Owned /\ at # "idle"
                   /\ call'.of = "draft" => chat.draft = "none"
                   /\ call'.of \in {"final", "fixFinal"} => chat.result = "none"
                   /\ call'.of = "merge" => chat.merged # Chat!Chosen /\ at = "result"
<1> SUFFICES Goal
  OBVIOUS
<1> USE DEF Chat!NoCall
<1>1. call.pc = "none" /\ call'.of # call.of
  BY DEF ChatInv, Asking
<1>2. ASSUME NEW why, Chat!Stop(why) PROVE Goal
  BY <1>1, <1>2 DEF Chat!Stop
<1>3. ASSUME NEW status, NEW where, Chat!SaveAs(status, where) PROVE Goal
  <2>1. call'.of = "none"
    BY <1>3 DEF Chat!SaveAs, Chat!Stop
  <2> QED
    BY <2>1
<1>4. ASSUME NEW where, Chat!Without(where) PROVE Goal
  BY <1>4 DEF Chat!Without
<1>5. ASSUME NEW question, NEW fixes, Chat!Ask(question, fixes)
      PROVE  Chat!Owned /\ call'.of = question
  <2>1. Chat!Guard = "passes"
    BY <1>5 DEF Chat!Ask, Chat!Stop
  <2> QED
    BY <1>5, <2>1, Guards DEF Chat!Ask
<1>6. CASE Chat!DraftStep
  <2>1. at = "draft" /\ chat.draft \in {"none", "good", "bad"}
    BY <1>6 DEF Chat!DraftStep, Chat!Resting, ChatInv, Chat!TypeOK, Chat!Chat, Chat!Text
  <2>2. CASE chat.draft = "none"
    BY <1>5, <1>6, <2>1, <2>2 DEF Chat!DraftStep
  <2>3. CASE chat.draft = "bad"
    BY <1>5, <1>6, <2>1, <2>3 DEF Chat!DraftStep
  <2>4. CASE chat.draft = "good"
    BY <1>4, <1>6, <2>4 DEF Chat!DraftStep
  <2> QED
    BY <2>1, <2>2, <2>3, <2>4
<1>7. CASE Chat!FinalStep
  <2>1. /\ at = "final" /\ chat.final \in {"none", "good", "bad"}
        /\ chat.result \in {"none", "final"}
    BY <1>7 DEF Chat!FinalStep, Chat!Resting, ChatInv, Chat!TypeOK, Chat!Chat, Chat!Text
  <2>2. CASE chat.result = "final" \/ chat.final = "good"
    BY <1>3, <1>7, <2>1, <2>2 DEF Chat!FinalStep, Chat!Save
  <2>3. CASE chat.result = "none" /\ chat.final = "none"
    BY <1>5, <1>7, <2>1, <2>3 DEF Chat!FinalStep
  <2>4. CASE chat.result = "none" /\ chat.final = "bad"
    BY <1>5, <1>7, <2>1, <2>4 DEF Chat!FinalStep
  <2> QED
    BY <2>1, <2>2, <2>3, <2>4
<1>8. CASE Chat!MergeStep
  <2>1. CASE chat.merged # Chat!Chosen /\ Chat!Ask("merge", 0)
    BY <1>5, <1>8, <2>1 DEF Chat!MergeStep, Chat!Resting
  <2>2. CASE Chat!Save("end")
    BY <1>3, <2>2 DEF Chat!Save
  <2> QED
    BY <1>8, <2>1, <2>2 DEF Chat!MergeStep
<1>9. CASE Chat!Open \/ Chat!Search \/ Chat!End
  BY <1>2, <1>3, <1>9 DEF Chat!Open, Chat!Search, Chat!End, Chat!Save
<1>10. CASE Chat!AwaitSlot \/ Chat!Send \/ Chat!Stream \/ Chat!Reply
  BY <1>1, <1>10 DEF Chat!AwaitSlot, Chat!Send, Chat!Stream, Chat!Reply
<1>11. CASE Chat!Claim \/ Chat!Resume \/ Chat!LoseReview \/ Chat!Restart \/ Chat!Permit
            \/ UNCHANGED Chat!vars
  BY <1>1, <1>11 DEF Chat!Claim, Chat!Resume, Chat!LoseReview, Chat!Restart, Chat!Permit,
                     Chat!vars
<1> QED
  BY <1>6, <1>7, <1>8, <1>9, <1>10, <1>11 DEF Chat!Next, Chat!Attempt

\* However attempts fail, restart and continue each other, what the row holds of a conversation
\* is never asked of the model again.
THEOREM NothingAskedTwice == Chat!Spec => NoAnswerTwice
<1>1. ChatInv /\ [Chat!Next]_(Chat!vars)
        => [call.of = "none" =>
              /\ call'.of = "draft" => chatRow.saved.draft = "none"
              /\ call'.of \in {"final", "fixFinal"} => chatRow.saved.result = "none"
              /\ call'.of = "merge" => chatRow.saved.merged # "final"]_(Chat!vars)
  <2> SUFFICES ASSUME ChatInv, [Chat!Next]_(Chat!vars), call.of = "none", call'.of # "none"
      PROVE /\ call'.of = "draft" => chatRow.saved.draft = "none"
            /\ call'.of \in {"final", "fixFinal"} => chatRow.saved.result = "none"
            /\ call'.of = "merge" => chatRow.saved.merged # "final"
    OBVIOUS
  <2>1. CASE call'.of = "merge"
    <3>1. chatRow.saved.merged = "final" => "final" \notin errors
      BY <2>1, Asks DEF ChatInv, Behind, Settled
    <3>2. "final" \notin errors => Chat!Chosen = "final"
      BY DEF Chat!Chosen
    <3> QED
      BY <2>1, <3>1, <3>2, Asks DEF ChatInv, Behind
  <2>2. CASE call'.of # "merge"
    BY <2>2, Asks DEF ChatInv, Behind
  <2> QED
    BY <2>1, <2>2
<1> QED
  BY <1>1, ChatInvariant, PTL DEF Chat!Spec, NoAnswerTwice, Chat!NoAnswerTwice

===============================================================================
