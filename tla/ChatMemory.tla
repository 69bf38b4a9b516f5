------------------------------- MODULE ChatMemory ------------------------------
(* Chat sessions in Redis: a list of messages, a summary of those rolled out of *)
(* it, the session's record and the user's index of sessions. A request is a    *)
(* row of commands, each of which may fail; no other request runs among them,   *)
(* for the handlers call Redis without giving up the event loop. The keys of a  *)
(* session live for a time that each use renews, key by key.                    *)
EXTENDS Naturals, Sequences, SequencesExt, FiniteSets

CONSTANTS
  Session, Message,
  Wordless,     \* messages whose text is empty
  MaxMessages,  \* messages kept in the list
  HistoryLimit, \* of which a history has the last
  SummaryRoom,  \* lines that fit into the summary's 2400 characters, whichever they are
  NoSession, NoMessage,
  RedisFaults   \* bound of the runs: commands that fail

ChatMemoryAssumption ==
  /\ {MaxMessages, HistoryLimit, SummaryRoom} \subseteq Nat \ {0} /\ RedisFaults \in Nat
  /\ NoSession \notin Session /\ NoMessage \notin Message /\ Wordless \subseteq Message

VARIABLES
  record,   \* the sessions that have one
  messages, summary, \* of each session: sequences
  index,    \* the user's sorted set
  timed,    \* for each kind of key, the sessions whose key has a time to live
  made,     \* ids given to a session
  request,  \* the one under way
  said,     \* what was pushed to each session since a key of it was last lost, in order
  broken    \* commands that failed

chatVars == <<record, messages, summary, index, timed, made, request, said, broken>>

Kind == {"record", "messages", "summary"}

NoRequest == [at |-> "end", session |-> NoSession, message |-> NoMessage,
              over |-> 0, rolled |-> <<>>, lines |-> <<>>]

Init ==
  /\ record = {} /\ index = {} /\ made = {} /\ timed = [k \in Kind |-> {}]
  /\ messages = [s \in Session |-> <<>>] /\ summary = messages /\ said = messages
  /\ request = NoRequest /\ broken = 0

Keys == <<record, messages, summary, index, timed, made, said>>
Goto(at) == request' = [request EXCEPT !.at = at]
Done == request' = NoRequest

\* A command's write and where the request goes on; one that fails, before Redis has the command
\* or after it, is the end of the request.
Command(write, next) ==
  \/ write /\ next /\ UNCHANGED broken
  \/ broken < RedisFaults /\ broken' = broken + 1 /\ Done /\ (write \/ UNCHANGED Keys)

\* SET writes a key without a time to live, whatever it had before.
Untimed(k, s) == timed' = [timed EXCEPT ![k] = @ \ {s}]

-------------------------------------------------------------------------------
(* Requests *)

\* A new id, and a record under it.
Create ==
  /\ request = NoRequest
  /\ \E s \in Session \ made :
       Command(/\ record' = record \cup {s} /\ made' = made \cup {s}
               /\ UNCHANGED <<messages, summary, index, timed, said>>,
               request' = [NoRequest EXCEPT !.at = "index", !.session = s])

\* The other requests on a session need its record, and Redis to answer.
Use(at, s, m) ==
  /\ request = NoRequest /\ s \in record
  /\ request' = [NoRequest EXCEPT !.at = at, !.session = s, !.message = m]
  /\ UNCHANGED <<Keys, broken>>

StartAppend(s, m) ==
  /\ \A t \in Session : m \notin ToSet(said[t] \o summary[t]) \* the runs tell messages apart
  /\ Use("push", s, m)
StartUpdate(s) == Use("save", s, NoMessage)
StartDelete(s) == Use("delete", s, NoMessage)

\* A session or its history is read: its keys live on.
StartRead(s) == Use("record", s, NoMessage)

Push ==
  /\ request.at = "push"
  /\ LET s == request.session IN
     Command(/\ messages' = [messages EXCEPT ![s] = Append(@, request.message)]
             /\ said' = [said EXCEPT ![s] = Append(@, request.message)]
             /\ UNCHANGED <<record, summary, index, timed, made>>,
             Goto("measure"))

\* The list is measured; what is over its length is read, to be rolled into the summary.
Measure ==
  /\ request.at = "measure"
  /\ LET held == messages[request.session]
         over == Len(held) - MaxMessages IN
     Command(UNCHANGED Keys,
             IF Len(held) > MaxMessages
             THEN request' = [request EXCEPT !.at = "line", !.over = over, !.rolled = SubSeq(held, 1, over),
                                            !.lines = <<>>]
             ELSE Goto("save"))

\* Each message becomes a line, if it has words; without a line the summary is left alone.
Line ==
  /\ request.at = "line"
  /\ IF request.rolled = <<>> THEN Goto(IF request.lines = <<>> THEN "trim" ELSE "roll")
     ELSE LET m == Head(request.rolled) IN
          request' = [request EXCEPT !.rolled = Tail(@),
                                     !.lines = IF m \in Wordless THEN @ ELSE Append(@, m)]
  /\ UNCHANGED <<Keys, broken>>

\* The summary with the lines at its end, cut to its last 2400 characters: what goes is the oldest.
Rolled ==
  LET s == request.session
      all == summary[s] \o request.lines IN
  /\ \E cut \in 0..Len(all) :
       /\ cut = 0 \/ Len(all) - cut >= SummaryRoom
       /\ summary' = [summary EXCEPT ![s] = SubSeq(all, cut + 1, Len(all))]
  /\ Untimed("summary", s)
  /\ UNCHANGED <<record, messages, index, made, said>>

Trimmed ==
  /\ messages' = [messages EXCEPT ![request.session] = SubSeq(@, request.over + 1, Len(@))]
  /\ UNCHANGED <<record, summary, index, timed, made, said>>

\* Mutant: the list is trimmed first and the summary written after.
RollAfterTrim ==
  \/ request.at = "roll" /\ Command(Trimmed, Goto("summarise"))
  \/ request.at = "summarise" /\ Command(Rolled, Goto("save"))

Roll == request.at = "roll" /\ Command(Rolled, Goto("trim"))

Trim == request.at = "trim" /\ Command(Trimmed, Goto("save"))

\* The record is written again, and the session's place in the index.
SaveRecord ==
  /\ request.at = "save"
  /\ Command(/\ record' = record \cup {request.session} /\ Untimed("record", request.session)
             /\ UNCHANGED <<messages, summary, index, made, said>>,
             Goto("index"))

Index ==
  /\ request.at = "index"
  /\ Command(index' = index \cup {request.session} /\ UNCHANGED <<record, messages, summary, timed, made, said>>,
             Goto("record"))

\* The keys' time to live starts again, in a command for each; a key that is not there has none.
Exists(k, s) ==
  \/ k = "record" /\ s \in record
  \/ k = "messages" /\ messages[s] # <<>>
  \/ k = "summary" /\ summary[s] # <<>>

Touch(k, next) ==
  /\ request.at = k
  /\ LET s == request.session IN
     Command(/\ timed' = [timed EXCEPT ![k] = IF Exists(k, s) THEN @ \cup {s} ELSE @]
             /\ UNCHANGED <<record, messages, summary, index, made, said>>,
             next)

\* One command removes the three keys, another the index's entry.
Delete ==
  /\ request.at = "delete"
  /\ LET s == request.session IN
     Command(/\ record' = record \ {s} /\ timed' = [k \in Kind |-> timed[k] \ {s}]
             /\ messages' = [messages EXCEPT ![s] = <<>>] /\ summary' = [summary EXCEPT ![s] = <<>>]
             /\ said' = [said EXCEPT ![s] = <<>>]
             /\ UNCHANGED <<index, made>>,
             Goto("unindex"))

Unindex ==
  /\ request.at = "unindex"
  /\ Command(index' = index \ {request.session} /\ UNCHANGED <<record, messages, summary, timed, made, said>>, Done)

\* A listing takes out of the index what has no record any more.
ListSessions ==
  /\ request = NoRequest
  /\ \E s \in index \ record :
       Command(index' = index \ {s} /\ UNCHANGED <<record, messages, summary, timed, made, said>>, Done)

-------------------------------------------------------------------------------
(* Keys that were not renewed in time: each has a deadline of its own, at any moment of a request *)

ExpireRecord(s) ==
  /\ s \in timed["record"] /\ Untimed("record", s)
  /\ record' = record \ {s}
  /\ UNCHANGED <<messages, summary, index, made, request, said, broken>>

ExpireMessages(s) ==
  /\ s \in timed["messages"] /\ Untimed("messages", s)
  /\ messages' = [messages EXCEPT ![s] = <<>>] /\ said' = [said EXCEPT ![s] = <<>>]
  /\ UNCHANGED <<record, summary, index, made, request, broken>>

ExpireSummary(s) ==
  /\ s \in timed["summary"] /\ Untimed("summary", s)
  /\ summary' = [summary EXCEPT ![s] = <<>>] /\ said' = [said EXCEPT ![s] = messages[s]]
  /\ UNCHANGED <<record, messages, index, made, request, broken>>

\* The index's time to live is not followed.
ExpireIndex ==
  /\ index # {} /\ index' = {}
  /\ UNCHANGED <<record, messages, summary, timed, made, request, said, broken>>

Next ==
  \/ Create
  \/ \E s \in Session : \/ \E m \in Message : StartAppend(s, m)
                        \/ StartUpdate(s) \/ StartDelete(s) \/ StartRead(s)
                        \/ ExpireRecord(s) \/ ExpireMessages(s) \/ ExpireSummary(s)
  \/ Push \/ Measure \/ Line \/ Roll \/ Trim \/ SaveRecord \/ Index
  \/ Touch("record", Goto("messages")) \/ Touch("messages", Goto("summary")) \/ Touch("summary", Done)
  \/ Delete \/ Unindex \/ ListSessions \/ ExpireIndex

Spec == Init /\ [][Next]_chatVars

-------------------------------------------------------------------------------

LastOf(seq, n) == SubSeq(seq, IF Len(seq) > n THEN Len(seq) - n + 1 ELSE 1, Len(seq))

\* What get_recent_history gives the model: the summary, then the last of the messages.
History(s) == summary[s] \o LastOf(messages[s], HistoryLimit)

TypeOK ==
  /\ index \subseteq made /\ record \subseteq made /\ made \subseteq Session
  /\ \A s \in Session : ToSet(History(s)) \subseteq Message
  /\ broken \in 0..RedisFaults

\* A summary that holds a line of what was said holds every later one of the n first messages, after
\* it, and it holds the last of them; wordless messages have no line.
Recalls(lines, sayings, n) ==
  \A j \in 1..n : sayings[j] \notin Wordless =>
    /\ (\A i \in j + 1..n : sayings[i] \in Wordless) => sayings[j] \in ToSet(lines)
    /\ \A i \in 1..j - 1 : sayings[i] \in ToSet(lines) \ Wordless =>
         \E k \in 1..Len(lines) : lines[k] = sayings[j] /\ \A l \in k..Len(lines) : lines[l] # sayings[i]

\* What a session still remembers is the newest of what was said in it, without a gap and in order,
\* whichever command failed: the list is the end of it, the summary holds what went before up to
\* what its size cut off, and a history ends with the last messages.
NewestRemembered ==
  \A s \in Session :
    LET out == Len(said[s]) - Len(messages[s])
        recent == LastOf(said[s], IF HistoryLimit < MaxMessages THEN HistoryLimit ELSE MaxMessages) IN
    /\ messages[s] = SubSeq(said[s], out + 1, Len(said[s]))
    /\ \E n \in out..Len(said[s]) : Recalls(summary[s], said[s], n)
    /\ LastOf(History(s), Len(recent)) = recent
===============================================================================
