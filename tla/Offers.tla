--------------------------------- MODULE Offers -------------------------------
(* Offers that admins mail to candidates. A row says whether its mail is under *)
(* way, the mail server works in a thread meanwhile, and each statement on the *)
(* row is a step of its own: admins and the candidate act between them.        *)
EXTENDS Naturals, FiniteSets

CONSTANTS
  Offer,          \* ids of rows
  Handler,        \* requests that run at once
  Blank,          \* what a letter may leave to fill in: a placeholder's key
  KnownBlank,     \* the placeholders the page can fill
  Cooldown,       \* seconds before an offer is sent again, and between two alike, scaled
  SendingTimeout, \* seconds until a send counts as cut off, scaled
  Horizon,        \* bound of the runs: time
  NoRow           \* a request without an offer yet

OffersAssumption ==
  /\ KnownBlank \subseteq Blank /\ NoRow \notin Offer
  /\ {Cooldown, SendingTimeout, Horizon} \subseteq Nat \ {0}

VARIABLES
  rows,    \* recruitment_offers
  handler, \* the requests
  mailed,  \* offers whose mail the server took, or the log where mail is disabled
  now

offerVars == <<rows, handler, mailed, now>>

Manual == {"sent", "accepted", "declined", "withdrawn"}
Answer == {"accepted", "declined"}
Status == Manual \cup {"sending", "failed"}
Null == 0 \* no time: the clock starts at 1

Unused == [status |-> "none", created |-> Null, sent |-> Null, updated |-> Null,
           replied |-> FALSE, viewed |-> FALSE]
Free == [at |-> "free", op |-> "none", offer |-> NoRow, status |-> "none"]

Init ==
  /\ rows = [o \in Offer |-> Unused] /\ handler = [h \in Handler |-> Free]
  /\ mailed = {} /\ now = 1

Exists(o) == rows[o].status \in Status
Reached(o) == rows[o].sent # Null
Older(time, age) == now - time > age \* time < now - age
Save(o, row) == rows' = [rows EXCEPT ![o] = [row EXCEPT !.updated = now]]

At(h, place) == handler[h].at = place
Goto(h, place) == handler' = [handler EXCEPT ![h].at = place]
End(h) == handler' = [handler EXCEPT ![h] = Free]

-------------------------------------------------------------------------------
(* Sending *)

\* A draft: every field it must have is there and in form, the placeholders its letter and its
\* subject use, those with a value.
Draft == [complete : BOOLEAN, uses : SUBSET Blank, given : SUBSET KnownBlank]

Missing(draft) == (draft.uses \cap KnownBlank) \ draft.given
Unrecognised(draft) == draft.uses \ KnownBlank
Sendable(draft) == draft.complete /\ Missing(draft) = {} /\ Unrecognised(draft) = {}

\* The candidate and the position are the same in every draft of this model.
RecentDuplicate == \E o \in Offer : /\ Exists(o) /\ rows[o].status # "failed"
                                    /\ ~Older(rows[o].created, Cooldown)

\* POST /admin/recruitment/offers, up to the look for a double submit.
Submit(h) ==
  /\ At(h, "free") /\ ~RecentDuplicate
  /\ \E draft \in Draft : Sendable(draft)
  /\ handler' = [handler EXCEPT ![h] = [Free EXCEPT !.at = "insert", !.op = "send"]]
  /\ UNCHANGED <<rows, mailed, now>>

InsertOffer(h) ==
  /\ At(h, "insert")
  /\ \E o \in Offer :
       /\ rows[o] = Unused
       /\ Save(o, [Unused EXCEPT !.status = "sending", !.created = now])
       /\ handler' = [handler EXCEPT ![h].at = "mail", ![h].offer = o]
  /\ UNCHANGED <<mailed, now>>

\* SMTP in its thread: taken, or failed. A reply that times out says failed of a mail that was taken,
\* and an error of another kind ends the request with the row as it is. In mode 'log' the letter is
\* written to the log and counts as delivered: the first of these outcomes, and the only one.
Mail(h) ==
  /\ At(h, "mail")
  /\ \E took \in BOOLEAN, outcome \in {"delivered", "failed", "raised"} :
       /\ outcome = "delivered" => took
       /\ mailed' = IF took THEN mailed \cup {handler[h].offer} ELSE mailed
       /\ IF outcome = "raised" THEN End(h) ELSE Goto(h, outcome)
  /\ UNCHANGED <<rows, now>>

\* Updates of a row that was deleted meanwhile touch nothing.
SaveIfThere(o, row) == IF Exists(o) THEN Save(o, row) ELSE UNCHANGED rows

\* Mutant: a finished delivery marks the offer as sent whatever became of it.
RecordDeliveryAlways(h) ==
  LET o == handler[h].offer IN
  /\ At(h, "delivered")
  /\ SaveIfThere(o, [rows[o] EXCEPT !.status = "sent", !.sent = now])
  /\ End(h) /\ UNCHANGED <<mailed, now>>

RecordDelivery(h) ==
  LET o == handler[h].offer IN
  /\ At(h, "delivered")
  /\ SaveIfThere(o, [rows[o] EXCEPT !.status = IF @ = "sending" THEN "sent" ELSE @, !.sent = now])
  /\ End(h) /\ UNCHANGED <<mailed, now>>

\* What a send that is not known to have finished leaves: an offer that reached the candidate
\* once goes back to sent.
Undelivered(row) == [row EXCEPT !.status = IF row.sent = Null THEN "failed" ELSE "sent"]

RecordFailure(h) ==
  LET o == handler[h].offer IN
  /\ At(h, "failed")
  /\ SaveIfThere(o, IF rows[o].status = "sending" THEN Undelivered(rows[o]) ELSE rows[o])
  /\ End(h) /\ UNCHANGED <<mailed, now>>

-------------------------------------------------------------------------------
(* The admin's list, resends, changes of status and deletions *)

\* Each begins with expire_stale_sends.
Expire(h) ==
  /\ At(h, "free")
  /\ rows' = [o \in Offer |->
       IF rows[o].status = "sending" /\ Older(rows[o].updated, SendingTimeout)
       THEN [Undelivered(rows[o]) EXCEPT !.updated = now] ELSE rows[o]]
  /\ \/ handler' = handler \* the list is read and returned
     \/ \E o \in Offer, op \in {"resend", "delete"} \cup Manual :
          /\ Exists(o)
          /\ handler' = [handler EXCEPT ![h] =
               [at |-> "read", op |-> IF op \in Manual THEN "set" ELSE op, offer |-> o,
                status |-> IF op \in Manual THEN op ELSE "none"]]
  /\ UNCHANGED <<mailed, now>>

\* What a request asks of the row it reads.
Allowed(h) ==
  LET row == rows[handler[h].offer] IN
  /\ Exists(handler[h].offer) /\ row.status # "sending"
  /\ handler[h].op = "resend" =>
       \/ row.status = "failed"
       \/ row.status = "sent" /\ (row.sent # Null => now - row.sent >= Cooldown)
  /\ handler[h].op = "set" => row.sent # Null \/ handler[h].status = "withdrawn"

ReadRow(h) ==
  /\ At(h, "read")
  /\ IF Allowed(h) THEN Goto(h, handler[h].op) ELSE End(h)
  /\ UNCHANGED <<rows, mailed, now>>

ClaimForResend(h) ==
  LET o == handler[h].offer  row == rows[o] IN
  /\ At(h, "resend")
  /\ IF \/ row.status = "failed"
        \/ row.status = "sent" /\ (row.sent = Null \/ Older(row.sent, Cooldown))
     THEN Save(o, [row EXCEPT !.status = "sending"]) /\ Goto(h, "mail")
     ELSE End(h) /\ UNCHANGED rows
  /\ UNCHANGED <<mailed, now>>

UpdateStatus(h) ==
  LET o == handler[h].offer  status == handler[h].status IN
  /\ At(h, "set")
  /\ IF Exists(o) /\ rows[o].status # "sending"
     THEN Save(o, [rows[o] EXCEPT !.status = status, !.replied = @ /\ status # "sent"])
     ELSE UNCHANGED rows
  /\ End(h) /\ UNCHANGED <<mailed, now>>

DeleteOffer(h) ==
  LET o == handler[h].offer IN
  /\ At(h, "delete")
  /\ rows' = IF rows[o].status = "sending" THEN rows
             ELSE [rows EXCEPT ![o] = [Unused EXCEPT !.status = "deleted"]]
  /\ End(h) /\ UNCHANGED <<mailed, now>>

-------------------------------------------------------------------------------
(* The candidate's page *)

\* The link works once the offer was sent.
Open(h) ==
  /\ At(h, "free")
  /\ \E o \in Offer, reply \in {"none"} \cup Answer :
       /\ Exists(o) /\ Reached(o)
       /\ handler' = [handler EXCEPT ![h] =
            [at |-> IF reply = "none" THEN "view" ELSE "reply", op |-> "page", offer |-> o, status |-> reply]]
  /\ UNCHANGED <<rows, mailed, now>>

RecordView(h) ==
  LET o == handler[h].offer IN
  /\ At(h, "view")
  /\ rows' = IF Exists(o) THEN [rows EXCEPT ![o].viewed = TRUE] ELSE rows
  /\ End(h) /\ UNCHANGED <<mailed, now>>

RecordResponse(h) ==
  LET o == handler[h].offer IN
  /\ At(h, "reply")
  /\ IF rows[o].status \in {"sent", "sending"} /\ Reached(o)
     THEN Save(o, [rows[o] EXCEPT !.status = handler[h].status, !.replied = TRUE])
     ELSE UNCHANGED rows
  /\ End(h) /\ UNCHANGED <<mailed, now>>

-------------------------------------------------------------------------------
Restart == handler' = [h \in Handler |-> Free] /\ UNCHANGED <<rows, mailed, now>>
Tick == now < Horizon /\ now' = now + 1 /\ UNCHANGED <<rows, handler, mailed>>

AdminStep(h) ==
  \/ Submit(h) \/ InsertOffer(h) \/ Expire(h) \/ ReadRow(h) \/ ClaimForResend(h)
  \/ UpdateStatus(h) \/ DeleteOffer(h) \/ Mail(h) \/ RecordDelivery(h) \/ RecordFailure(h)
PageStep(h) == Open(h) \/ RecordView(h) \/ RecordResponse(h)

Next == (\E h \in Handler : AdminStep(h) \/ PageStep(h)) \/ Restart \/ Tick

Spec == Init /\ [][Next]_offerVars

-------------------------------------------------------------------------------
(* Properties *)

TypeOK ==
  /\ \A o \in Offer : /\ rows[o].status \in Status \cup {"none", "deleted"}
                      /\ {rows[o].created, rows[o].sent, rows[o].updated} \subseteq 0..now
                      /\ {rows[o].replied, rows[o].viewed} \subseteq BOOLEAN
  /\ \A h \in Handler : handler[h].offer \in Offer \cup {NoRow}
  /\ mailed \subseteq Offer /\ now \in 1..Horizon

\* "A reply the candidate sent meanwhile is kept": an offer that was answered or withdrawn changes
\* by an admin's hand alone, however late a delivery, a failure or an expiry of it is recorded.
DecisionStands ==
  \A o \in Offer : rows[o].status \in Answer \cup {"withdrawn"} /\ rows'[o].status # rows[o].status =>
                     \E h \in Handler : UpdateStatus(h) \/ DeleteOffer(h)

\* An offer is shown as sent or answered only if the mail server took its mail, or the log in its
\* place: not after a failed, interrupted or cut-off first send.
SentWasMailed == \A o \in Offer : rows[o].status \in {"sent"} \cup Answer => o \in mailed

\* "False if another request is sending it": no two requests mail an offer at once. Violated by the
\* code (README, known divergences): the candidate replies during a resend, the status no longer
\* says sending, and an admin who reopens the offer can resend it.
OneDelivery ==
  \A h1, h2 \in Handler : At(h1, "mail") /\ At(h2, "mail") /\ h1 # h2 => handler[h1].offer # handler[h2].offer

\* "e.g. from a double submit": a candidate does not get two offers for a position in a minute.
\* Violated by the code (README, known divergences): both requests look before either inserts.
NoDoubleSubmit ==
  \A o1, o2 \in Offer : o1 # o2 /\ Exists(o1) /\ Exists(o2) /\ "failed" \notin {rows[o1].status, rows[o2].status}
                          => rows[o1].created # rows[o2].created
===============================================================================
