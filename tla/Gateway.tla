-------------------------------- MODULE Gateway --------------------------------
(* A model call of the legal reviews, from the choice of the model to what the      *)
(* review reads of the reply: legal/ydata.py and, for Claude, anthropic_gateway.py. *)
(* The two keep catalogues of their own, so a behaviour shows the calls of one      *)
(* provider, for one model that the provider drops from its list at some time. A    *)
(* reply is a number of pieces of text; keys are configured and do not change.      *)
EXTENDS Naturals

CONSTANTS
  Caller,     \* the threads that call the model
  Room,       \* pieces that fit the output limit of a request
  Ttl,        \* how long a catalogue is used (TTL_SECONDS)
  FetchTime,  \* how long the discovery of the models may take
  Horizon     \* bound: time

GatewayAssumption == Room \in Nat \ {0} /\ Ttl \in Nat \ {0} /\ {FetchTime, Horizon} \subseteq Nat

VARIABLES
  setting,  \* the provider, whether replies are streamed, and when the model leaves the list
  catalog,  \* the cached list: whether the model is on it, and when it runs out
  call,     \* a caller's call: where it is, and what came of it
  now

vars == <<setting, catalog, call, now>>

NoCall == [at |-> "idle", asks |-> "json", since |-> 0, listed |-> FALSE, stream |-> FALSE,
           size |-> 0, text |-> 0, end |-> "none", writes |-> 0, got |-> "nothing"]

Init ==
  /\ setting \in [provider : {"ydata", "anthropic"}, streams : BOOLEAN, retires : 0..Horizon]
  /\ catalog = [listed |-> FALSE, until |-> 0]
  /\ call = [c \in Caller |-> NoCall]
  /\ now = 0

Put(c, k) == call' = [call EXCEPT ![c] = k]
Over(k, got) == [k EXCEPT !.at = "done", !.since = 0, !.listed = FALSE, !.stream = FALSE, !.end = "none", !.got = got]
Failed(k, code) == [NoCall EXCEPT !.at = "done", !.writes = k.writes, !.got = code]
Ydata == setting.provider = "ydata"

\* What an answer other than success becomes; the upstream's reasons to refuse the request
\* itself, 4xx, are one.
Statuses == {"access", "limit", "refused", "server"}

StatusError(status) ==
  CASE status = "access" -> "unauthorized"
    [] status = "limit" -> "rate_limited"
    [] status = "refused" /\ ~Ydata -> "invalid_request"
    [] OTHER -> "request_failed"

-------------------------------------------------------------------------------
(* The model is chosen from the provider's catalogue *)

Choose(c, k, listed) ==
  Put(c, IF listed THEN [k EXCEPT !.at = "open", !.stream = setting.streams] ELSE Failed(k, "not_allowed"))

\* Mutant: a catalogue that is used lasts longer.
AskRenewing(c) ==
  /\ call[c].at \in {"idle", "done"}
  /\ \E asks \in {"json", "chat"} :
       LET k == [NoCall EXCEPT !.asks = asks]
       IN IF catalog.until > now
          THEN Choose(c, k, catalog.listed) /\ catalog' = [catalog EXCEPT !.until = now + Ttl]
          ELSE Put(c, [k EXCEPT !.at = "fetch", !.since = now]) /\ UNCHANGED catalog
  /\ UNCHANGED <<setting, now>>

\* A review step asks for a JSON object, the chat engine for the next turn of its conversation.
Ask(c) ==
  /\ call[c].at \in {"idle", "done"}
  /\ \E asks \in {"json", "chat"} :
       LET k == [NoCall EXCEPT !.asks = asks]
       IN IF catalog.until > now THEN Choose(c, k, catalog.listed)
          ELSE Put(c, [k EXCEPT !.at = "fetch", !.since = now])
  /\ UNCHANGED <<setting, catalog, now>>

FetchErrors ==
  {StatusError(status) : status \in Statuses} \cup {"unavailable", "response_too_large", "catalog_invalid"}

\* What a discovery may find: YData's asks for each key, and the models of a key whose page is
\* invalid or whose request fails are missing from the list, which is used nevertheless.
Listings ==
  {listed \in BOOLEAN : (listed => now < setting.retires) /\ (~listed => Ydata \/ now >= setting.retires)}

\* An empty list is not used, and of a single page not one that is invalid.
Fetch(c) ==
  /\ call[c].at = "fetch"
  /\ \/ \E listed \in Listings : Put(c, [call[c] EXCEPT !.at = "store", !.listed = listed])
     \/ \E code \in FetchErrors : Put(c, Failed(call[c], code))
  /\ UNCHANGED <<setting, catalog, now>>

\* The discovery runs without the lock: the list that is stored last is not always the latest.
Store(c) ==
  /\ call[c].at = "store"
  /\ catalog' = [listed |-> call[c].listed, until |-> now + Ttl]
  /\ Choose(c, [call[c] EXCEPT !.since = 0, !.listed = FALSE], call[c].listed)
  /\ UNCHANGED <<setting, now>>

-------------------------------------------------------------------------------
(* The exchange *)

\* What a JSON step reads of a reply that ended, the whole object or nothing, and a chat turn, of
\* which one that reached its limit goes on in the next.
ReadObject(end) ==
  CASE end = "stop" -> {"whole", "invalid_json"}
    [] end = "length" -> {"truncated"}
    [] OTHER -> {IF Ydata THEN "invalid_json" ELSE "incomplete"}

ReadTurn(end) ==
  CASE end = "stop" -> {"whole"}
    [] end = "length" -> {"part"}
    [] OTHER -> {"incomplete"}

\* A turn of YData's that gives no reason has stopped.
Read(k, end) ==
  IF k.asks = "json" THEN ReadObject(end)
  ELSE ReadTurn(IF end = "none" /\ Ydata THEN "stop" ELSE end)

Return(c, k, end) == \E got \in Read(k, end) : Put(c, Over(k, got))

CutCodes(why) ==
  CASE why = "error" -> IF Ydata THEN {"request_failed"} ELSE {StatusError(status) : status \in Statuses}
    [] why = "large" -> {"response_too_large"}
    [] why # "error" /\ why # "large" /\ (Ydata \/ why = "dropped") -> {"unavailable"}
    [] OTHER -> {"incomplete"}

\* What a reply that broke off becomes: a chat turn keeps what was written, and goes on from there.
Cut(c, why) ==
  LET k == call[c]
      kept == k.asks = "chat" /\ k.text > 0 /\ (why \in {"dropped", "ended"} \/ (why = "malformed" /\ Ydata))
  IN IF kept THEN Return(c, k, "length")
     ELSE \E code \in CutCodes(why) : Put(c, Failed(k, code))

\* YData may answer an ordinary request where it refused a streamed one.
Send(c) ==
  LET k == call[c] IN
  /\ k.at = "open"
  /\ \/ \E size \in 1..Room + 1, stream \in {k.stream, FALSE} :
          Put(c, [k EXCEPT !.at = "reading", !.stream = stream, !.size = size, !.writes = @ + 1])
     \/ \E status \in Statuses :
          Put(c, IF Ydata /\ k.stream /\ status = "refused" THEN [k EXCEPT !.stream = FALSE]
                 ELSE Failed(k, StatusError(status)))
     \/ Put(c, Failed(k, "unavailable"))
  /\ UNCHANGED <<setting, catalog, now>>

Fits(k) == k.size <= Room

\* The reasons a model gives for stopping: the end, the limit, or something else.
Ends(k) ==
  (IF k.text = k.size THEN {"stop"} ELSE {}) \cup (IF k.text = Room /\ ~Fits(k) THEN {"length"} ELSE {})
    \cup {"other"}

Receive(c) ==
  LET k == call[c] IN
  /\ k.at = "reading" /\ k.stream /\ k.end = "none"
  /\ \/ k.text < k.size /\ k.text < Room /\ Put(c, [k EXCEPT !.text = @ + 1])
     \/ \E end \in Ends(k) : Put(c, [k EXCEPT !.end = end])
  /\ UNCHANGED <<setting, catalog, now>>

\* Mutant: a stream that ends without a reason ended its answer.
CloseAsStop(c) ==
  LET k == call[c] IN
  /\ k.at = "reading" /\ k.stream
  /\ \E marked \in BOOLEAN :
       /\ marked => k.end # "none" \/ (Ydata /\ k.text = k.size)
       /\ IF marked \/ Ydata
          THEN Return(c, k, IF k.end = "none" THEN "stop" ELSE k.end)
          ELSE Cut(c, "ended")
  /\ UNCHANGED <<setting, catalog, now>>

\* The end of a stream. Anthropic marks it, after its reason; YData's mark is not needed after a
\* reason, nor the reason, for an answer that is whole, before the mark.
Close(c) ==
  LET k == call[c] IN
  /\ k.at = "reading" /\ k.stream
  /\ \E marked \in BOOLEAN :
       /\ marked => k.end # "none" \/ (Ydata /\ k.text = k.size)
       /\ IF marked \/ (Ydata /\ k.end # "none")
          THEN Return(c, k, IF k.end = "none" THEN "stop" ELSE k.end)
          ELSE Cut(c, "ended")
  /\ UNCHANGED <<setting, catalog, now>>

\* An ordinary reply is there at once; YData's may be without a reason, if it is whole.
Ordinary(c) ==
  LET k == [call[c] EXCEPT !.text = IF Fits(call[c]) THEN call[c].size ELSE Room]
  IN /\ call[c].at = "reading" /\ ~call[c].stream
     /\ \E end \in Ends(k) \cup (IF Ydata /\ Fits(k) THEN {"none"} ELSE {}) : Return(c, k, end)
     /\ UNCHANGED <<setting, catalog, now>>

\* The connection drops or the time for the reply is up; what comes is no event, an error, too much.
Break(c) ==
  /\ call[c].at = "reading"
  /\ \E why \in {"dropped", "malformed", "error", "large"} :
       (why = "error" => call[c].stream) /\ Cut(c, why)
  /\ UNCHANGED <<setting, catalog, now>>

-------------------------------------------------------------------------------

Discovering(c) == call[c].at \in {"fetch", "store"}

Tick ==
  /\ now < Horizon
  /\ \A c \in Caller : Discovering(c) => now < call[c].since + FetchTime
  /\ now' = now + 1 /\ UNCHANGED <<setting, catalog, call>>

Next ==
  \/ \E c \in Caller :
       Ask(c) \/ Fetch(c) \/ Store(c) \/ Send(c) \/ Receive(c) \/ Close(c) \/ Ordinary(c) \/ Break(c)
  \/ Tick

Spec == Init /\ [][Next]_vars

-------------------------------------------------------------------------------
(* Properties *)

\* A reply that a review reads as finished is all that the model wrote, whichever way the reply
\* ended; a part is kept only of a chat turn; and no call makes the model write twice, although
\* it may be sent twice. A chat turn that was whole may still be read as a part: its time was up
\* between the reason and the end of the stream (anthropic_gateway.py:308, ydata.py:547).
FinishedIsWhole ==
  \A c \in Caller :
    /\ call[c].got = "whole" => call[c].text = call[c].size
    /\ call[c].got = "part" => call[c].asks = "chat" /\ call[c].text > 0
    /\ call[c].writes <= 1

\* A model is called only if its provider listed it a moment ago: the time a catalogue is used
\* and that of a discovery, in whichever order discoveries end.
ListedStep ==
  \A c \in Caller :
    call[c].at # "open" /\ call'[c].at = "open" => now < setting.retires + Ttl + FetchTime

ListedLately == [][ListedStep]_vars
===============================================================================
