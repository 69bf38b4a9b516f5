------------------------------ MODULE Notifications -----------------------------
(* Questions the product could not answer, told to its admins by mail. One thread *)
(* of the server writes them to a table; digests are processes of their own, run  *)
(* by a timer or by hand, that read the table, send a mail and write back.        *)
EXTENDS Naturals, Sequences, FiniteSets

CONSTANTS
  Query,       \* fingerprints: a question, lower-cased and trimmed, with its filters
  Digest,      \* runs of the script
  DedupWindow, \* how long a question counts as asked again
  LookBack,    \* of a digest
  ListLimit,   \* rows that a digest lists
  Mail,        \* whether an SMTP server and recipients are configured
  Asks, Horizon \* bounds of the runs

NotificationsAssumption ==
  {DedupWindow, LookBack, ListLimit, Asks, Horizon} \subseteq Nat \ {0} /\ Mail \in BOOLEAN

VARIABLES
  rows,   \* unanswered_notifications, by id
  queue,  \* questions that wait for the thread
  writer, \* the thread: the question it writes, with the clock it read for it
  digest,
  told,   \* ids that a delivered mail listed
  asked, now

notifyVars == <<rows, queue, writer, digest, told, asked, now>>

Idle == [at |-> "idle", print |-> "none", clock |-> 0]
Rest == [at |-> "idle", ids |-> {}]

Init ==
  /\ rows = <<>> /\ queue = <<>> /\ writer = Idle
  /\ digest = [g \in Digest |-> Rest] /\ told = {} /\ asked = 0 /\ now = 1

Id == 1..Len(rows)
Pending == {i \in Id : rows[i].status = "pending"}
SeenSince(time) == {i \in Id : rows[i].seen + DedupWindow >= time}

-------------------------------------------------------------------------------
(* Writing *)

\* The pipeline answers without waiting. An executor that is shut down takes nothing.
Notify(p) ==
  /\ asked < Asks /\ asked' = asked + 1
  /\ queue' = Append(queue, p) \/ UNCHANGED queue
  /\ UNCHANGED <<rows, writer, digest, told, now>>

\* The clock is read before the table is locked.
Take ==
  /\ writer.at = "idle" /\ queue # <<>>
  /\ writer' = [at |-> "record", print |-> Head(queue), clock |-> now]
  /\ queue' = Tail(queue)
  /\ UNCHANGED <<rows, digest, told, asked, now>>

\* Among the pending rows of the question within the window, the last seen.
Again(p, clock) == {i \in Pending \cap SeenSince(clock) : rows[i].print = p}
Latest(ids) == CHOOSE i \in ids : \A j \in ids : rows[j].seen < rows[i].seen \/ (rows[j].seen = rows[i].seen /\ j <= i)

Record ==
  /\ writer.at = "record" /\ writer' = Idle
  /\ LET again == Again(writer.print, writer.clock) IN
     rows' = IF again # {}
             THEN [rows EXCEPT ![Latest(again)].count = @ + 1, ![Latest(again)].seen = writer.clock]
             ELSE Append(rows, [print |-> writer.print, count |-> 1, seen |-> writer.clock,
                                status |-> "pending"])
  /\ UNCHANGED <<queue, digest, told, asked, now>>

\* The table is locked for too long, or broken: the question is dropped.
RecordFails ==
  /\ writer.at = "record" /\ writer' = Idle
  /\ UNCHANGED <<rows, queue, digest, told, asked, now>>

Restart ==
  /\ writer # Idle \/ queue # <<>>
  /\ writer' = Idle /\ queue' = <<>>
  /\ UNCHANGED <<rows, digest, told, asked, now>>

-------------------------------------------------------------------------------
(* A digest *)

Listable == {i \in Pending : rows[i].seen + LookBack >= now}

\* The rows seen last come first.
Listed(ids) ==
  \A i \in ids, j \in Listable \ ids : rows[j].seen < rows[i].seen \/ (rows[j].seen = rows[i].seen /\ j < i)

Least(m, n) == IF m < n THEN m ELSE n

List(g) ==
  /\ digest[g].at = "idle"
  /\ \E ids \in SUBSET Listable :
       /\ Cardinality(ids) = Least(ListLimit, Cardinality(Listable)) /\ Listed(ids)
       /\ digest' = [digest EXCEPT ![g] = IF ids = {} THEN Rest ELSE [at |-> "send", ids |-> ids]]
  /\ UNCHANGED <<rows, queue, writer, told, asked, now>>

\* Without a server or recipients the digest goes to stdout, as a dry run does. The server may
\* refuse the mail, and the connection may break when the mail is through already.
Send(g) ==
  /\ digest[g].at = "send"
  /\ \/ Mail /\ told' = told \cup digest[g].ids /\ digest' = [digest EXCEPT ![g].at = "mark"]
     \/ Mail /\ told' = told \cup digest[g].ids /\ digest' = [digest EXCEPT ![g] = Rest]
     \/ digest' = [digest EXCEPT ![g] = Rest] /\ UNCHANGED told
  /\ UNCHANGED <<rows, queue, writer, asked, now>>

Sent(ids) == [i \in Id |-> IF i \in ids THEN [rows[i] EXCEPT !.status = "sent"] ELSE rows[i]]

\* Mutant: marks what is pending in its window by now.
MarkWindowSent(g) ==
  /\ digest[g].at = "mark" /\ digest' = [digest EXCEPT ![g] = Rest]
  /\ rows' = Sent(Listable)
  /\ UNCHANGED <<queue, writer, told, asked, now>>

\* Of the rows as they are now, whatever was added to them since they were listed.
MarkSent(g) ==
  /\ digest[g].at = "mark" /\ digest' = [digest EXCEPT ![g] = Rest]
  /\ rows' = Sent(digest[g].ids)
  /\ UNCHANGED <<queue, writer, told, asked, now>>

Tick == now < Horizon /\ now' = now + 1 /\ UNCHANGED <<rows, queue, writer, digest, told, asked>>

Next ==
  \/ \E p \in Query : Notify(p)
  \/ Take \/ Record \/ RecordFails \/ Restart \/ Tick
  \/ \E g \in Digest : List(g) \/ Send(g) \/ MarkSent(g)

Spec == Init /\ [][Next]_notifyVars

-------------------------------------------------------------------------------

TypeOK ==
  /\ \A i \in Id : rows[i].print \in Query /\ rows[i].count \in 1..Asks /\ rows[i].seen <= now
  /\ \A g \in Digest : digest[g].ids \subseteq Id

\* A question leaves the list of the unanswered only when a mail that was delivered told of it,
\* whoever asks, and however many digests are at work while it is written; and while it
\* is on the list, asking it again within the window adds to its row, never a second one. How often
\* it was asked is not always told: what comes between the listing and the mark is added to a row
\* that is then marked (store.py:190). And a question whose digests failed for the whole of their
\* window stays on the list, where no digest looks for it (notifications_digest.py:26).
OnlyToldLeave ==
  /\ \A i \in Id : rows[i].status = "sent" => i \in told
  /\ \A i, j \in Pending \cap SeenSince(now) : rows[i].print = rows[j].print => i = j
===============================================================================
