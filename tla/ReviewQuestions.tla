----------------------------- MODULE ReviewQuestions ----------------------------
(* Follow-up questions of one user. A question holds its user's only place while  *)
(* its lease runs; the model is called outside the transactions, so that access,  *)
(* the lease and the process may end meanwhile. Rows outlive the process.         *)
EXTENDS Naturals, FiniteSets

CONSTANTS
  Review, Request,            \* reviews of the user, ids that the client gives its requests
  Text,                       \* what is asked, masked
  Asker,                      \* requests that run at once
  Lease, Window,              \* how long a question holds the place; the span of the rate
  RecentLimit, TotalLimit,    \* questions in a span, questions of a review
  Horizon,                    \* bound of the runs: time
  NoRow

Row == [text : Text, status : {"running", "completed", "failed"}, created : Nat, lease : Nat,
        answer : {"none", "unsupported", "unchecked", "answered"}]

QuestionsAssumption ==
  /\ {Lease, Window, RecentLimit, TotalLimit, Horizon} \subseteq Nat \ {0}
  /\ NoRow \notin Row

VARIABLES
  rows,            \* legal_questions, by review and request id
  asker,           \* the requests that run
  called, replied, \* questions of a row that went to the model; answers that went to the client
  askable,         \* reviews that are complete and whose model the user still consents to
  allowed,         \* whether the user is a member of the matter and has the plan
  now

questionVars == <<rows, asker, called, replied, askable, allowed, now>>

Key == Review \X Request
Free == [at |-> "free", key |-> NoRow, text |-> NoRow, answer |-> "none"]

Init ==
  /\ rows = [k \in Key |-> NoRow] /\ asker = [h \in Asker |-> Free]
  /\ called = [k \in Key |-> 0] /\ replied = [k \in Key |-> {}]
  /\ askable = Review /\ allowed = TRUE /\ now = 0

Asked == {k \in Key : rows[k] # NoRow}
Live(row) == row.status = "running" /\ row.lease > now
Running == {k \in Asked : Live(rows[k])}
Recent == {k \in Asked : rows[k].created + Window > now}
OfReview(v) == {k \in Asked : k[1] = v}

Goto(h, stage) == asker' = [asker EXCEPT ![h].at = stage]
End(h) == asker' = [asker EXCEPT ![h] = Free]
Environment == <<askable, allowed, now>>

-------------------------------------------------------------------------------
(* Asking *)

Ask(h) ==
  /\ asker[h].at = "free" /\ allowed
  /\ \E k \in Key, text \in Text :
       /\ k[1] \in askable
       /\ asker' = [asker EXCEPT ![h] = [Free EXCEPT !.at = "insert", !.key = k, !.text = text]]
  /\ UNCHANGED <<rows, called, replied, Environment>>

Inserts(h, k) ==
  /\ rows' = [rows EXCEPT ![k] = [text |-> asker[h].text, status |-> "running", created |-> now,
                                  lease |-> now + Lease, answer |-> "none"]]
  /\ Goto(h, "authorize") /\ UNCHANGED replied

\* Mutant: a question that failed, or whose lease ran out, may be asked again by its request id.
RepeatedUnlessOver(k) == rows[k] # NoRow /\ (rows[k].status = "completed" \/ Live(rows[k]))

Repeated(k) == rows[k] # NoRow

\* One transaction: a request that was made before gets its answer, or is refused.
Insert(h) ==
  /\ asker[h].at = "insert"
  /\ LET k == asker[h].key IN
     IF Repeated(k)
     THEN /\ replied' = IF rows[k].text = asker[h].text /\ rows[k].status = "completed"
                        THEN [replied EXCEPT ![k] = @ \cup {rows[k].answer}] ELSE replied
          /\ End(h) /\ UNCHANGED rows
     ELSE IF Running # {} \/ Cardinality(Recent) >= RecentLimit \/ Cardinality(OfReview(k[1])) >= TotalLimit
     THEN End(h) /\ UNCHANGED <<rows, replied>>
     ELSE Inserts(h, k)
  /\ UNCHANGED <<called, Environment>>

\* The gates before the material leaves: access, again, and its size.
Authorize(h) ==
  /\ asker[h].at = "authorize"
  /\ \/ allowed /\ Goto(h, "call")
     \/ Goto(h, "fail")
  /\ UNCHANGED <<rows, called, replied, Environment>>

\* What the model gave: quotes found in the contract, sources of the review it cites, articles of
\* laws that it names; whether it speaks of the law, and of articles found nowhere.
Raw == [empty : BOOLEAN, quotes : BOOLEAN, sources : SUBSET {"law", "web"}, laws : BOOLEAN,
        claims : BOOLEAN, article : BOOLEAN]

\* A claim about the law needs the law; without any support the answer is replaced.
Validated(raw) ==
  LET claim == raw.claims \/ raw.article \/ raw.laws
      cited == IF claim THEN raw.sources \ {"web"} ELSE raw.sources
  IN CASE \/ raw.empty \/ ~(raw.quotes \/ cited # {} \/ raw.laws)
          \/ claim /\ cited = {} /\ ~raw.laws -> "unsupported"
       [] OTHER -> IF raw.article THEN "unchecked" ELSE "answered"

Answers == {Validated(raw) : raw \in Raw}

Call(h) ==
  /\ asker[h].at = "call"
  /\ called' = [called EXCEPT ![asker[h].key] = @ + 1]
  /\ \/ \E answer \in Answers : asker' = [asker EXCEPT ![h].at = "recheck", ![h].answer = answer]
     \/ Goto(h, "fail")
  /\ UNCHANGED <<rows, replied, Environment>>

\* An answer that comes after access has ended is thrown away.
Recheck(h) ==
  /\ asker[h].at = "recheck"
  /\ Goto(h, IF allowed THEN "publish" ELSE "fail")
  /\ UNCHANGED <<rows, called, replied, Environment>>

\* By id alone: the lease may have run out, and the user may have asked something else.
Publish(h) ==
  /\ asker[h].at = "publish"
  /\ LET k == asker[h].key IN
       /\ rows' = [rows EXCEPT ![k].status = "completed", ![k].lease = 0, ![k].answer = asker[h].answer]
       /\ replied' = [replied EXCEPT ![k] = @ \cup {asker[h].answer}]
  /\ End(h)
  /\ UNCHANGED <<called, Environment>>

Fail(h) ==
  /\ asker[h].at = "fail"
  /\ rows' = [rows EXCEPT ![asker[h].key].status = "failed", ![asker[h].key].lease = 0]
  /\ End(h)
  /\ UNCHANGED <<called, replied, Environment>>

-------------------------------------------------------------------------------
(* Around them *)

\* The process stops; its questions stay as they are until their leases run out.
Restart ==
  /\ \E h \in Asker : asker[h].at # "free"
  /\ asker' = [h \in Asker |-> Free]
  /\ UNCHANGED <<rows, called, replied, Environment>>

Access == allowed' = ~allowed /\ UNCHANGED <<rows, asker, called, replied, askable, now>>

Reopen(v) ==
  /\ askable' = IF v \in askable THEN askable \ {v} ELSE askable \cup {v}
  /\ UNCHANGED <<rows, asker, called, replied, allowed, now>>

Tick == now < Horizon /\ now' = now + 1 /\ UNCHANGED <<rows, asker, called, replied, askable, allowed>>

Next ==
  \/ \E h \in Asker :
       \/ Ask(h) \/ Insert(h) \/ Authorize(h) \/ Call(h) \/ Recheck(h) \/ Publish(h) \/ Fail(h)
  \/ \E v \in Review : Reopen(v)
  \/ Restart \/ Access \/ Tick

Spec == Init /\ [][Next]_questionVars

-------------------------------------------------------------------------------

TypeOK ==
  /\ \A k \in Asked : rows[k].status \in {"running", "completed", "failed"} /\ rows[k].lease <= Horizon + Lease
  /\ \A h \in Asker : asker[h].key \in Key \cup {NoRow}

\* What the user is shown of a question; a lease that ran out is a failure.
Shown(row) == IF row.status = "running" /\ row.lease < now THEN "failed" ELSE row.status

\* However often a request is sent, by whomever at once, and whatever fails or comes late: its
\* question goes to the model at most once, and who gets an answer gets the one that is kept.
AnsweredOnce ==
  \A k \in Key :
    /\ called[k] <= 1
    /\ replied[k] # {} => rows[k].status = "completed" /\ replied[k] = {rows[k].answer}

\* Not so: an answer that comes after its lease turns a question shown as failed, which the user
\* was told to ask anew, into an answered one (review_questions.py:58, :115, :147).
FailedStaysFailed ==
  [][\A k \in Asked : Shown(rows[k]) = "failed" => Shown(rows[k])' = "failed"]_questionVars
===============================================================================
