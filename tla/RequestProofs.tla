----------------------------- MODULE RequestProofs ----------------------------
(***************************************************************************)
(* What is proved of the requests that the services serve, as Services     *)
(* composes their modules, for every value of the constants: model calls   *)
(* (ModelInv), questions on a review (QuestionInv), recruitment offers     *)
(* (OfferInv), digests of unanswered questions (NoticeInv) and chat        *)
(* sessions (ChatInv).                                                     *)
(***************************************************************************)
EXTENDS Services, SequenceTheorems, WellFoundedInduction, TLAPS

-------------------------------------------------------------------------------
(* A model call: Gateway *)

\* The codes a call may end in, and what is read of a reply.
Codes ==
  {"unauthorized", "rate_limited", "invalid_request", "request_failed", "unavailable",
   "response_too_large", "catalog_invalid", "not_allowed", "incomplete"}

CallType ==
  [at: {"idle", "fetch", "store", "open", "reading", "done"}, asks: {"json", "chat"}, since: Nat,
   listed: BOOLEAN, stream: BOOLEAN, size: Nat, text: Nat,
   end: {"none", "stop", "length", "other"}, writes: {0, 1},
   got: Codes \cup {"nothing", "whole", "part", "invalid_json", "truncated"}]

\* Nothing is written before a reply is read, and never twice; a reply's reason to stop fits what
\* there is of it, and so does what is read of it in the end.
Told(k) ==
  /\ k.at \in {"idle", "fetch", "store", "open"} =>
       k.text = 0 /\ k.writes = 0 /\ k.got = "nothing" /\ k.end = "none"
  /\ k.at = "reading" =>
       /\ k.got = "nothing" /\ k.size \in 1..Room + 1 /\ k.text <= k.size /\ k.text <= Room
       /\ k.end = "stop" => k.text = k.size
       /\ k.end = "length" => k.text = Room
  /\ k.got = "whole" => k.text = k.size
  /\ k.got = "part" => k.asks = "chat" /\ k.text > 0

\* A discovery is young, and what it or the catalogue lists was listed when it began.
Young(k) ==
  k.at \in {"fetch", "store"} =>
    /\ k.since <= x4 /\ x4 <= k.since + FetchTime
    /\ k.at = "store" /\ k.listed => k.since < x1.retires

Catalogued == x2.listed => x2.until < x1.retires + Ttl + FetchTime

ModelInv ==
  /\ x1 \in [provider: {"ydata", "anthropic"}, streams: BOOLEAN, retires: Nat]
  /\ x2 \in [listed: BOOLEAN, until: Nat] /\ x4 \in Nat
  /\ x3 \in [ModelCaller -> CallType]
  /\ \A c \in ModelCaller : Told(x3[c]) /\ Young(x3[c])
  /\ Catalogued

LEMMA ModelNumbers ==
  Room \in Nat /\ Room # 0 /\ Ttl \in Nat /\ Ttl # 0 /\ FetchTime \in Nat /\ ModelHorizon \in Nat
BY ModelConstants DEF Model!GatewayAssumption

\* Every error has a code, whatever the status or the way a reply broke off.
LEMMA ErrorCodes ==
  /\ \A status \in Model!Statuses : Model!StatusError(status) \in Codes
  /\ \A why \in {"dropped", "ended", "malformed", "error", "large"} : Model!CutCodes(why) \subseteq Codes
  /\ Model!FetchErrors \subseteq Codes
<1>1. ASSUME NEW status \in Model!Statuses PROVE Model!StatusError(status) \in Codes
  <2>1. CASE status = "access"
    BY <2>1 DEF Model!StatusError, Codes
  <2>2. CASE status = "limit"
    BY <2>2 DEF Model!StatusError, Codes
  <2>3. CASE status = "refused"
    BY <2>3 DEF Model!StatusError, Codes
  <2>4. CASE status = "server"
    BY <2>4 DEF Model!StatusError, Codes
  <2> QED
    BY <2>1, <2>2, <2>3, <2>4 DEF Model!Statuses
<1>2. ASSUME NEW why \in {"dropped", "ended", "malformed", "error", "large"}
      PROVE  Model!CutCodes(why) \subseteq Codes
  <2>1. CASE why = "error"
    BY <1>1, <2>1 DEF Model!CutCodes, Codes
  <2>2. CASE why = "large"
    BY <2>2 DEF Model!CutCodes, Codes
  <2>3. CASE why \in {"dropped", "ended", "malformed"}
    BY <2>3 DEF Model!CutCodes, Codes
  <2> QED
    BY <2>1, <2>2, <2>3
<1>3. Model!FetchErrors \subseteq Codes
  BY <1>1 DEF Model!FetchErrors, Codes
<1> QED
  BY <1>1, <1>2, <1>3

\* A call that fails has told nothing.
LEMMA Failing ==
  ASSUME NEW k \in CallType, NEW code \in Codes
  PROVE  Model!Failed(k, code) \in CallType /\ Told(Model!Failed(k, code))
                                            /\ Young(Model!Failed(k, code))
<1>1. k.writes \in {0, 1}
  BY DEF CallType
<1>2. Model!NoCall \in CallType /\ Model!NoCall.text = 0 /\ Model!NoCall.size = 0
  BY DEF Model!NoCall, CallType
<1>3. Model!Failed(k, code) \in CallType
  BY <1>1, <1>2 DEF Model!Failed, CallType
<1>4. /\ Model!Failed(k, code).at = "done" /\ Model!Failed(k, code).got = code
      /\ Model!Failed(k, code).text = 0 /\ Model!Failed(k, code).size = 0
  BY <1>2 DEF Model!Failed, CallType
<1>5. code # "part"
  BY DEF Codes
<1> QED
  BY <1>3, <1>4, <1>5 DEF Told, Young

\* What is read of a reply that ended is what its reason allows.
LEMMA Reading ==
  ASSUME NEW k \in CallType, k.at = "reading", k.got = "nothing", k.text <= k.size,
         NEW end \in {"none", "stop", "length", "other"}, NEW got \in Model!Read(k, end),
         end = "stop" \/ (end = "none" /\ Model!Ydata) => k.text = k.size,
         end = "length" => k.text > 0
  PROVE  Model!Over(k, got) \in CallType /\ Told(Model!Over(k, got)) /\ Young(Model!Over(k, got))
<1> DEFINE o == Model!Over(k, got)
<1>1. got \in Codes \cup {"whole", "part", "invalid_json", "truncated"}
  BY DEF Model!Read, Model!ReadObject, Model!ReadTurn, Codes
<1>2. got = "whole" => k.text = k.size
  BY DEF Model!Read, Model!ReadObject, Model!ReadTurn
<1>3. got = "part" => k.asks = "chat" /\ k.text > 0
  BY DEF Model!Read, Model!ReadObject, Model!ReadTurn, CallType
<1>4. o \in CallType
  BY <1>1 DEF Model!Over, CallType
<1>5. o.at = "done" /\ o.text = k.text /\ o.size = k.size /\ o.asks = k.asks /\ o.got = got
  BY DEF Model!Over, CallType
<1> QED
  BY <1>2, <1>3, <1>4, <1>5 DEF Told, Young

\* A step of one call leaves the others as they are.
LEMMA Putting ==
  ASSUME ModelInv, NEW c \in ModelCaller, NEW k \in CallType, Told(k), Young(k), Model!Put(c, k),
         UNCHANGED <<x1, x4>>, x2' \in [listed: BOOLEAN, until: Nat], Catalogued'
  PROVE  ModelInv'
<1>1. x3' = [x3 EXCEPT ![c] = k]
  BY DEF Model!Put
<1>2. x3' \in [ModelCaller -> CallType]
  BY <1>1 DEF ModelInv
<1>3. ASSUME NEW d \in ModelCaller PROVE (Told(x3[d]) /\ Young(x3[d]))'
  <2>1. x3'[d] = k \/ x3'[d] = x3[d]
    BY <1>1 DEF ModelInv
  <2> QED
    BY <2>1 DEF ModelInv, Told, Young
<1> QED
  BY <1>2, <1>3 DEF ModelInv

LEMMA Choosing ==
  ASSUME ModelInv, NEW c \in ModelCaller, NEW k \in CallType, Told(k), k.at \in {"idle", "store"},
         NEW listed \in BOOLEAN, Model!Choose(c, k, listed),
         UNCHANGED <<x1, x4>>, x2' \in [listed: BOOLEAN, until: Nat], Catalogued'
  PROVE  ModelInv'
<1>1. CASE listed
  <2> DEFINE o == [k EXCEPT !.at = "open", !.stream = x1.streams]
  <2>1. Model!Put(c, o)
    BY <1>1 DEF Model!Choose
  <2>2. x1.streams \in BOOLEAN
    BY DEF ModelInv
  <2>3. o \in CallType
    BY <2>2 DEF CallType
  <2>4. /\ o.at = "open" /\ o.text = k.text /\ o.writes = k.writes /\ o.got = k.got /\ o.end = k.end
        /\ o.size = k.size /\ o.asks = k.asks
    BY <2>2 DEF CallType
  <2> HIDE DEF o
  <2> QED
    BY <2>1, <2>3, <2>4, Putting DEF Told, Young
<1>2. CASE ~listed
  <2>1. Model!Put(c, Model!Failed(k, "not_allowed")) /\ "not_allowed" \in Codes
    BY <1>2 DEF Model!Choose, Codes
  <2> QED
    BY <2>1, Failing, Putting
<1> QED
  BY <1>1, <1>2

\* A reply that is over, for whatever reason it names.
LEMMA Returning ==
  ASSUME ModelInv, NEW c \in ModelCaller, NEW k \in CallType, k.at = "reading", k.got = "nothing",
         k.text <= k.size, NEW end \in {"none", "stop", "length", "other"},
         end = "stop" \/ (end = "none" /\ Model!Ydata) => k.text = k.size,
         end = "length" => k.text > 0,
         Model!Return(c, k, end), UNCHANGED <<x1, x2, x4>>
  PROVE  ModelInv'
<1>1. PICK got \in Model!Read(k, end) : Model!Put(c, Model!Over(k, got))
  BY DEF Model!Return
<1>2. Catalogued' /\ x2' \in [listed: BOOLEAN, until: Nat]
  BY DEF ModelInv, Catalogued
<1> QED
  BY <1>1, <1>2, Reading, Putting

LEMMA Cutting ==
  ASSUME ModelInv, NEW c \in ModelCaller, x3[c].at = "reading",
         NEW why \in {"dropped", "ended", "malformed", "error", "large"}, Model!Cut(c, why),
         UNCHANGED <<x1, x2, x4>>
  PROVE  ModelInv'
<1>1. /\ x3[c] \in CallType /\ x3[c].got = "nothing" /\ x3[c].text <= x3[c].size
      /\ x3[c].text \in Nat
  BY DEF ModelInv, Told, CallType
<1>2. CASE x3[c].text > 0 /\ Model!Return(c, x3[c], "length")
  BY <1>1, <1>2, Returning
<1>3. CASE \E code \in Model!CutCodes(why) : Model!Put(c, Model!Failed(x3[c], code))
  <2>1. PICK code \in Codes : Model!Put(c, Model!Failed(x3[c], code))
    BY <1>3, ErrorCodes
  <2>2. Catalogued' /\ x2' \in [listed: BOOLEAN, until: Nat]
    BY DEF ModelInv, Catalogued
  <2> QED
    BY <1>1, <2>1, <2>2, Failing, Putting
<1> QED
  BY <1>2, <1>3 DEF Model!Cut

\* An answer is asked for with a catalogue that has not run out, or with one that is fetched.
LEMMA Asking ==
  ASSUME ModelInv, NEW c \in ModelCaller, Model!Ask(c)
  PROVE  ModelInv'
<1>1. UNCHANGED <<x1, x2, x4>> /\ Catalogued' /\ x2' \in [listed: BOOLEAN, until: Nat]
  BY DEF Model!Ask, ModelInv, Catalogued
<1>2. PICK asks \in {"json", "chat"} :
        IF x2.until > x4 THEN Model!Choose(c, [Model!NoCall EXCEPT !.asks = asks], x2.listed)
        ELSE Model!Put(c, [[Model!NoCall EXCEPT !.asks = asks] EXCEPT !.at = "fetch", !.since = x4])
  BY DEF Model!Ask
<1> DEFINE k == [Model!NoCall EXCEPT !.asks = asks]
           f == [k EXCEPT !.at = "fetch", !.since = x4]
<1>3. Model!NoCall \in CallType
  BY DEF Model!NoCall, CallType
<1>4. k \in CallType
  BY <1>3 DEF CallType
<1>5. /\ k.at = "idle" /\ k.text = 0 /\ k.writes = 0 /\ k.got = "nothing" /\ k.end = "none"
      /\ k.size = 0
  BY DEF Model!NoCall
<1>6. IF x2.until > x4 THEN Model!Choose(c, k, x2.listed) ELSE Model!Put(c, f)
  BY <1>2
<1> HIDE DEF k
<1>7. Told(k) /\ x2.listed \in BOOLEAN /\ x4 \in Nat
  BY <1>5 DEF Told, ModelInv
<1>8. f \in CallType
  BY <1>4, <1>7 DEF CallType
<1>9. /\ f.at = "fetch" /\ f.text = 0 /\ f.writes = 0 /\ f.got = "nothing" /\ f.end = "none"
      /\ f.size = 0 /\ f.since = x4
  BY <1>4, <1>5 DEF CallType
<1> HIDE DEF f
<1>10. Told(f) /\ Young(f)
  BY <1>7, <1>9, ModelNumbers DEF Told, Young
<1> QED
  BY <1>1, <1>4, <1>5, <1>6, <1>7, <1>8, <1>10, Choosing, Putting

LEMMA Fetching ==
  ASSUME ModelInv, NEW c \in ModelCaller, Model!Fetch(c)
  PROVE  ModelInv'
<1>1. /\ UNCHANGED <<x1, x2, x4>> /\ Catalogued' /\ x2' \in [listed: BOOLEAN, until: Nat]
      /\ x3[c] \in CallType /\ x3[c].at = "fetch" /\ Told(x3[c]) /\ Young(x3[c])
      /\ x4 \in Nat /\ x1.retires \in Nat
  BY DEF Model!Fetch, ModelInv, Catalogued
<1> DEFINE Listing(listed) == [x3[c] EXCEPT !.at = "store", !.listed = listed]
<1>2. CASE \E listed \in Model!Listings : Model!Put(c, Listing(listed))
  <2>1. PICK listed \in BOOLEAN : Model!Put(c, Listing(listed)) /\ (listed => x4 < x1.retires)
    BY <1>2 DEF Model!Listings
  <2> DEFINE k == Listing(listed)
  <2>2. k \in CallType
    BY <1>1 DEF CallType
  <2>3. /\ k.at = "store" /\ k.text = x3[c].text /\ k.writes = x3[c].writes /\ k.got = x3[c].got
        /\ k.end = x3[c].end /\ k.size = x3[c].size /\ k.asks = x3[c].asks
        /\ k.since = x3[c].since
    BY <1>1 DEF CallType
  <2>4. k.listed = listed
    BY <1>1, Zenon DEF CallType
  <2>5. Model!Put(c, k)
    BY <1>2, <2>1, Zenon
  <2>6. x3[c].since \in Nat
    BY <1>1 DEF CallType
  <2> HIDE DEF k
  <2>7. Told(k)
    BY <1>1, <2>3 DEF Told
  <2>8. k.listed => x4 < x1.retires
    BY <2>1, <2>4, Zenon
  <2>9. Young(k)
    BY <1>1, <2>3, <2>6, <2>8, ModelNumbers DEF Young
  <2> QED
    BY <1>1, <2>2, <2>7, <2>9, <2>5, Putting
<1>3. CASE \E code \in Model!FetchErrors : Model!Put(c, Model!Failed(x3[c], code))
  BY <1>1, <1>3, ErrorCodes, Failing, Putting
<1> QED
  BY <1>2, <1>3 DEF Model!Fetch

\* What is stored was listed less than a discovery ago.
LEMMA Storing ==
  ASSUME ModelInv, NEW c \in ModelCaller, Model!Store(c)
  PROVE  ModelInv'
<1>1. /\ UNCHANGED <<x1, x4>> /\ x2' = [listed |-> x3[c].listed, until |-> x4 + Ttl]
      /\ x3[c] \in CallType /\ x3[c].at = "store" /\ Told(x3[c]) /\ Young(x3[c])
      /\ x4 \in Nat /\ x1.retires \in Nat
  BY DEF Model!Store, ModelInv
<1>2. x3[c].since \in Nat /\ x3[c].listed \in BOOLEAN
  BY <1>1 DEF CallType
<1>3. x4 + Ttl \in Nat
  BY <1>1, ModelNumbers
<1>4. x2' \in [listed: BOOLEAN, until: Nat] /\ x2'.listed = x3[c].listed /\ x2'.until = x4 + Ttl
  BY <1>1, <1>2, <1>3
<1>5. Catalogued'
  BY <1>1, <1>2, <1>4, ModelNumbers DEF Catalogued, Young
<1> DEFINE k == [x3[c] EXCEPT !.since = 0, !.listed = FALSE]
<1>6. k \in CallType
  BY <1>1 DEF CallType
<1>7. /\ k.at = "store" /\ k.text = x3[c].text /\ k.writes = x3[c].writes /\ k.got = x3[c].got
      /\ k.end = x3[c].end /\ k.size = x3[c].size /\ k.asks = x3[c].asks
  BY <1>1 DEF CallType
<1>8. Model!Choose(c, k, x3[c].listed)
  BY DEF Model!Store
<1> HIDE DEF k
<1>9. Told(k)
  BY <1>1, <1>7 DEF Told
<1> QED
  BY <1>1, <1>2, <1>4, <1>5, <1>6, <1>7, <1>8, <1>9, Choosing

LEMMA Sending ==
  ASSUME ModelInv, NEW c \in ModelCaller, Model!Send(c)
  PROVE  ModelInv'
<1>1. /\ UNCHANGED <<x1, x2, x4>> /\ Catalogued' /\ x2' \in [listed: BOOLEAN, until: Nat]
      /\ x3[c] \in CallType /\ x3[c].at = "open" /\ Told(x3[c])
  BY DEF Model!Send, ModelInv, Catalogued
<1>2. ASSUME NEW size \in 1..Room + 1, NEW stream \in {x3[c].stream, FALSE},
             Model!Put(c, [x3[c] EXCEPT !.at = "reading", !.stream = stream, !.size = size,
                                        !.writes = @ + 1])
      PROVE  ModelInv'
  <2> DEFINE k == [x3[c] EXCEPT !.at = "reading", !.stream = stream, !.size = size, !.writes = 1]
  <2>1. x3[c].writes = 0 /\ x3[c].text = 0 /\ x3[c].got = "nothing" /\ x3[c].end = "none"
    BY <1>1 DEF Told
  <2>2. Model!Put(c, k)
    BY <1>1, <1>2, <2>1 DEF CallType
  <2>3. stream \in BOOLEAN
    BY <1>1 DEF CallType
  <2>4. size \in Nat /\ size >= 1
    BY ModelNumbers
  <2>5. k \in CallType
    BY <1>1, <2>3, <2>4 DEF CallType
  <2>6. /\ k.at = "reading" /\ k.text = 0 /\ k.got = "nothing" /\ k.end = "none" /\ k.size = size
    BY <1>1, <2>1 DEF CallType
  <2> HIDE DEF k
  <2>7. Told(k) /\ Young(k)
    BY <2>4, <2>6, ModelNumbers DEF Told, Young
  <2> QED
    BY <1>1, <2>2, <2>5, <2>7, Putting
<1>3. ASSUME NEW code \in Codes, Model!Put(c, Model!Failed(x3[c], code)) PROVE ModelInv'
  BY <1>1, <1>3, Failing, Putting
<1>4. CASE Model!Put(c, [x3[c] EXCEPT !.stream = FALSE])
  <2> DEFINE k == [x3[c] EXCEPT !.stream = FALSE]
  <2>1. k \in CallType
    BY <1>1 DEF CallType
  <2>2. /\ k.at = "open" /\ k.text = x3[c].text /\ k.writes = x3[c].writes /\ k.got = x3[c].got
        /\ k.end = x3[c].end /\ k.size = x3[c].size /\ k.asks = x3[c].asks
    BY <1>1 DEF CallType
  <2> HIDE DEF k
  <2>3. Told(k) /\ Young(k)
    BY <1>1, <2>2 DEF Told, Young
  <2> QED
    BY <1>1, <1>4, <2>1, <2>3, Putting DEF k
<1>5. "unavailable" \in Codes
  BY DEF Codes
<1> QED
  <2>1. CASE \E size \in 1..Room + 1, stream \in {x3[c].stream, FALSE} :
               Model!Put(c, [x3[c] EXCEPT !.at = "reading", !.stream = stream, !.size = size,
                                          !.writes = @ + 1])
    BY <1>2, <2>1
  <2>2. CASE \E status \in Model!Statuses :
               \/ Model!Put(c, [x3[c] EXCEPT !.stream = FALSE])
               \/ Model!Put(c, Model!Failed(x3[c], Model!StatusError(status)))
    BY <1>3, <1>4, <2>2, ErrorCodes
  <2>3. CASE Model!Put(c, Model!Failed(x3[c], "unavailable"))
    BY <1>3, <1>5, <2>3
  <2> QED
    BY <2>1, <2>2, <2>3 DEF Model!Send

LEMMA Receiving ==
  ASSUME ModelInv, NEW c \in ModelCaller, Model!Receive(c)
  PROVE  ModelInv'
<1>1. /\ UNCHANGED <<x1, x2, x4>> /\ Catalogued' /\ x2' \in [listed: BOOLEAN, until: Nat]
      /\ x3[c] \in CallType /\ x3[c].at = "reading" /\ x3[c].end = "none" /\ Told(x3[c])
  BY DEF Model!Receive, ModelInv, Catalogued
<1>2. /\ x3[c].text \in Nat /\ x3[c].size \in 1..Room + 1 /\ x3[c].got = "nothing"
      /\ x3[c].text <= x3[c].size /\ x3[c].text <= Room
  BY <1>1 DEF Told, CallType
<1>3. CASE /\ x3[c].text < x3[c].size /\ x3[c].text < Room
           /\ Model!Put(c, [x3[c] EXCEPT !.text = @ + 1])
  <2> DEFINE k == [x3[c] EXCEPT !.text = x3[c].text + 1]
  <2>1. Model!Put(c, k)
    BY <1>1, <1>3 DEF CallType
  <2>2. x3[c].text + 1 \in Nat
    BY <1>2
  <2>3. k \in CallType
    BY <1>1, <2>2 DEF CallType
  <2>4. /\ k.at = "reading" /\ k.text = x3[c].text + 1 /\ k.size = x3[c].size /\ k.got = "nothing"
        /\ k.end = "none"
    BY <1>1, <1>2 DEF CallType
  <2> HIDE DEF k
  <2>5. Told(k) /\ Young(k)
    BY <1>2, <1>3, <2>4, ModelNumbers DEF Told, Young
  <2> QED
    BY <1>1, <2>1, <2>3, <2>5, Putting
<1>4. ASSUME NEW end \in Model!Ends(x3[c]), Model!Put(c, [x3[c] EXCEPT !.end = end])
      PROVE  ModelInv'
  <2> DEFINE k == [x3[c] EXCEPT !.end = end]
  <2>1. /\ end \in {"stop", "length", "other"}
        /\ end = "stop" => x3[c].text = x3[c].size
        /\ end = "length" => x3[c].text = Room
    BY DEF Model!Ends
  <2>2. k \in CallType
    BY <1>1, <2>1 DEF CallType
  <2>3. /\ k.at = "reading" /\ k.text = x3[c].text /\ k.size = x3[c].size /\ k.got = "nothing"
        /\ k.end = end
    BY <1>1, <1>2 DEF CallType
  <2> HIDE DEF k
  <2>4. Told(k) /\ Young(k)
    BY <1>2, <2>1, <2>3 DEF Told, Young
  <2> QED
    BY <1>1, <1>4, <2>2, <2>4, Putting DEF k
<1> QED
  BY <1>3, <1>4 DEF Model!Receive

LEMMA Closing ==
  ASSUME ModelInv, NEW c \in ModelCaller, Model!Close(c)
  PROVE  ModelInv'
<1>1. /\ UNCHANGED <<x1, x2, x4>> /\ x3[c] \in CallType /\ x3[c].at = "reading" /\ Told(x3[c])
  BY DEF Model!Close, ModelInv
<1>2. /\ x3[c].text \in Nat /\ x3[c].size \in 1..Room + 1 /\ x3[c].got = "nothing"
      /\ x3[c].text <= x3[c].size /\ x3[c].end \in {"none", "stop", "length", "other"}
      /\ x3[c].end = "stop" => x3[c].text = x3[c].size
      /\ x3[c].end = "length" => x3[c].text = Room
  BY <1>1 DEF Told, CallType
<1>3. PICK marked \in BOOLEAN :
        /\ marked => x3[c].end # "none" \/ (Model!Ydata /\ x3[c].text = x3[c].size)
        /\ IF marked \/ (Model!Ydata /\ x3[c].end # "none")
           THEN Model!Return(c, x3[c], IF x3[c].end = "none" THEN "stop" ELSE x3[c].end)
           ELSE Model!Cut(c, "ended")
  BY DEF Model!Close
<1>4. CASE marked \/ (Model!Ydata /\ x3[c].end # "none")
  <2>1. CASE x3[c].end = "none"
    <3>1. Model!Return(c, x3[c], "stop") /\ x3[c].text = x3[c].size
      BY <1>3, <1>4, <2>1
    <3> QED
      BY <1>1, <1>2, <3>1, Returning
  <2>2. CASE x3[c].end # "none"
    <3>1. Model!Return(c, x3[c], x3[c].end)
      BY <1>3, <1>4, <2>2
    <3>2. x3[c].end = "length" => x3[c].text > 0
      BY <1>2, ModelNumbers
    <3> QED
      BY <1>1, <1>2, <2>2, <3>1, <3>2, Returning
  <2> QED
    BY <2>1, <2>2
<1>5. CASE ~(marked \/ (Model!Ydata /\ x3[c].end # "none"))
  BY <1>1, <1>3, <1>5, Cutting
<1> QED
  BY <1>4, <1>5

LEMMA Answering ==
  ASSUME ModelInv, NEW c \in ModelCaller, Model!Ordinary(c)
  PROVE  ModelInv'
<1>1. /\ UNCHANGED <<x1, x2, x4>> /\ x3[c] \in CallType /\ x3[c].at = "reading" /\ Told(x3[c])
  BY DEF Model!Ordinary, ModelInv
<1>2. x3[c].size \in 1..Room + 1 /\ x3[c].got = "nothing"
  BY <1>1 DEF Told
<1> DEFINE text == IF Model!Fits(x3[c]) THEN x3[c].size ELSE Room
           k == [x3[c] EXCEPT !.text = text]
<1>3. PICK end \in Model!Ends(k) \cup (IF Model!Ydata /\ Model!Fits(k) THEN {"none"} ELSE {}) :
        Model!Return(c, k, end)
  BY DEF Model!Ordinary
<1>4. text \in Nat
  BY <1>2, ModelNumbers
<1>5. /\ k.text = text /\ k.size = x3[c].size /\ k.at = "reading" /\ k.got = "nothing"
  BY <1>1, <1>2 DEF CallType
<1>6. k \in CallType
  BY <1>1, <1>4 DEF CallType
<1> HIDE DEF k
<1>7. /\ k.text <= k.size /\ (Model!Fits(k) => k.text = k.size)
  BY <1>2, <1>5, ModelNumbers DEF Model!Fits
<1>8. /\ end \in {"none", "stop", "length", "other"}
      /\ end = "stop" => k.text = k.size
      /\ end = "length" => k.text = Room
      /\ end = "none" => k.text = k.size
  BY <1>3, <1>7 DEF Model!Ends
<1>9. end = "length" => k.text > 0
  BY <1>8, ModelNumbers
<1> QED
  BY <1>1, <1>3, <1>5, <1>6, <1>7, <1>8, <1>9, Returning

\* While a discovery runs, time goes on only to its limit.
LEMMA Ticking ==
  ASSUME ModelInv, Model!Tick
  PROVE  ModelInv'
<1>1. x4' = x4 + 1 /\ UNCHANGED <<x1, x2, x3>>
  BY DEF Model!Tick
<1>2. ASSUME NEW c \in ModelCaller PROVE (Told(x3[c]) /\ Young(x3[c]))'
  <2>1. Told(x3[c]) /\ Young(x3[c]) /\ x3[c].since \in Nat /\ x4 \in Nat
    BY DEF ModelInv, CallType
  <2>2. x3[c].at \in {"fetch", "store"} => x4 < x3[c].since + FetchTime
    BY DEF Model!Tick, Model!Discovering
  <2> QED
    BY <1>1, <2>1, <2>2, ModelNumbers DEF Told, Young
<1> QED
  BY <1>1, <1>2 DEF ModelInv, Catalogued

LEMMA ModelSteps == ModelInv /\ [Model!Next]_(Model!vars) => ModelInv'
<1> SUFFICES ASSUME ModelInv, [Model!Next]_(Model!vars) PROVE ModelInv'
  OBVIOUS
<1>1. ASSUME NEW c \in ModelCaller, Model!Break(c) PROVE ModelInv'
  BY <1>1, Cutting DEF Model!Break
<1>2. CASE UNCHANGED Model!vars
  BY <1>2 DEF Model!vars, ModelInv, Told, Young, Catalogued
<1> QED
  BY <1>1, <1>2, Asking, Fetching, Storing, Sending, Receiving, Closing, Answering, Ticking
  DEF Model!Next

LEMMA ModelStarts == Model!Init => ModelInv
<1> SUFFICES ASSUME Model!Init PROVE ModelInv
  OBVIOUS
<1>1. /\ x1 \in [provider: {"ydata", "anthropic"}, streams: BOOLEAN, retires: Nat]
      /\ x2 \in [listed: BOOLEAN, until: Nat] /\ x2.listed = FALSE /\ x4 = 0
      /\ x3 = [c \in ModelCaller |-> Model!NoCall]
  BY ModelNumbers DEF Model!Init
<1>2. Model!NoCall \in CallType /\ Told(Model!NoCall) /\ Young(Model!NoCall)
  BY DEF Model!NoCall, CallType, Told, Young
<1> QED
  BY <1>1, <1>2 DEF ModelInv, Catalogued

\* In the composition nothing but its own steps moves a call.
LEMMA ModelInvariant == ServicesSpec => [](part = "model" => ModelInv)
<1>1. ServicesInit => (part = "model" => ModelInv)
  BY ModelStarts DEF ServicesInit
<1>2. (part = "model" => ModelInv) /\ [ServicesNext]_vars => (part = "model" => ModelInv)'
  <2> SUFFICES ASSUME part' = "model", part = "model" => ModelInv, [ServicesNext]_vars
      PROVE  ModelInv'
    OBVIOUS
  <2>1. part = "model" /\ [Model!Next]_(Model!vars)
    BY DEF ServicesNext, vars, Model!vars
  <2> QED
    BY <2>1, ModelSteps
<1> QED
  BY <1>1, <1>2, PTL DEF ServicesSpec

\* Whatever a reply ends in, what a review reads as whole is all that was written, a part is kept
\* only of a chat turn, and no call makes the model write twice.
THEOREM RepliesAreWhole == ServicesSpec => []FinishedIsWhole
<1>1. (part = "model" => ModelInv) => FinishedIsWhole
  <2> SUFFICES ASSUME ModelInv, NEW c \in ModelCaller
      PROVE  /\ x3[c].got = "whole" => x3[c].text = x3[c].size
             /\ x3[c].got = "part" => x3[c].asks = "chat" /\ x3[c].text > 0
             /\ x3[c].writes <= 1
    BY DEF FinishedIsWhole, Model!FinishedIsWhole
  <2>1. Told(x3[c]) /\ x3[c].writes \in {0, 1}
    BY DEF ModelInv, CallType
  <2> QED
    BY <2>1 DEF Told
<1> QED
  BY <1>1, ModelInvariant, PTL

\* A call is opened by Ask, from the catalogue, or by Store, from its own discovery.
LEMMA Listing ==
  ASSUME ModelInv, Model!Next, NEW c \in ModelCaller, x3[c].at # "open", x3'[c].at = "open"
  PROVE  x4 < x1.retires + Ttl + FetchTime
<1> USE ModelNumbers
<1>1. x3 \in [ModelCaller -> CallType] /\ x4 \in Nat /\ x1.retires \in Nat /\ x2.until \in Nat
  BY DEF ModelInv
<1>2. ASSUME NEW d \in ModelCaller, NEW k \in CallType, k.at # "open", Model!Put(d, k) PROVE FALSE
  BY <1>1, <1>2 DEF Model!Put
<1>3. ASSUME NEW d \in ModelCaller, NEW k \in CallType, NEW listed \in BOOLEAN, Model!Choose(d, k, listed)
      PROVE  d = c /\ listed
  <2>1. CASE ~listed
    BY <1>1, <1>3, <2>1 DEF Model!Choose, Model!Put, Model!Failed, Model!NoCall
  <2>2. CASE listed
    BY <1>1, <1>3, <2>2 DEF Model!Choose, Model!Put
  <2> QED
    BY <2>1, <2>2
<1>4. ASSUME NEW d \in ModelCaller, Model!Ask(d) PROVE x4 < x1.retires + Ttl + FetchTime
  <2>1. PICK asks \in {"json", "chat"} :
          IF x2.until > x4 THEN Model!Choose(d, [Model!NoCall EXCEPT !.asks = asks], x2.listed)
          ELSE Model!Put(d, [[Model!NoCall EXCEPT !.asks = asks] EXCEPT !.at = "fetch",
                                                                       !.since = x4])
    BY <1>4 DEF Model!Ask
  <2>2. [Model!NoCall EXCEPT !.asks = asks] \in CallType
    BY DEF Model!NoCall, CallType
  <2>3. x2.until > x4
    BY <1>1, <2>1 DEF Model!Put, Model!NoCall
  <2>4. x2.listed
    <3>1. Model!Choose(d, [Model!NoCall EXCEPT !.asks = asks], x2.listed) /\ x2.listed \in BOOLEAN
      BY <2>1, <2>3 DEF ModelInv
    <3> QED
      BY <1>3, <2>2, <3>1
  <2> QED
    BY <1>1, <2>3, <2>4 DEF ModelInv, Catalogued
<1>5. ASSUME NEW d \in ModelCaller, Model!Store(d) PROVE x4 < x1.retires + Ttl + FetchTime
  <2>1. /\ Model!Choose(d, [x3[d] EXCEPT !.since = 0, !.listed = FALSE], x3[d].listed)
        /\ x3[d].at = "store"
    BY <1>5 DEF Model!Store
  <2>2. /\ [x3[d] EXCEPT !.since = 0, !.listed = FALSE] \in CallType
        /\ x3[d].listed \in BOOLEAN
        /\ x3[d].since \in Nat
    <3>1. x3[d] \in CallType
      BY <1>1
    <3> QED
      BY <3>1 DEF CallType
  <2>3. x3[d].listed
    <3>1. [x3[d] EXCEPT !.since = 0, !.listed = FALSE].at # "open"
      BY <1>1, <2>1 DEF CallType
    <3> QED
      BY <1>3, <2>1, <2>2, <3>1
  <2>4. x4 <= x3[d].since + FetchTime /\ x3[d].since < x1.retires
    BY <2>1, <2>3 DEF ModelInv, Young
  <2> QED
    BY <1>1, <2>2, <2>4
<1>6. ASSUME NEW d \in ModelCaller, Model!Send(d) PROVE FALSE
  BY <1>1, <1>6 DEF Model!Send, Model!Put, Model!Failed, Model!NoCall
<1>7. ASSUME NEW d \in ModelCaller, Model!Fetch(d) \/ Model!Receive(d) PROVE FALSE
  <2>1. x3[d] \in CallType /\ x3[d].at \in {"fetch", "reading"} /\ x3[d].at # "open"
    BY <1>1, <1>7 DEF Model!Fetch, Model!Receive
  <2>2. ASSUME NEW k, k.at # "open", x3' = [x3 EXCEPT ![d] = k] PROVE FALSE
    BY <1>1, <2>2
  <2>3. \A code : Model!Failed(x3[d], code).at # "open"
    BY DEF Model!Failed, Model!NoCall
  <2>4. /\ \A listed : [x3[d] EXCEPT !.at = "store", !.listed = listed].at # "open"
        /\ \A text : [x3[d] EXCEPT !.text = text].at # "open"
        /\ \A end : [x3[d] EXCEPT !.end = end].at # "open"
    BY <2>1 DEF CallType
  <2>5. CASE Model!Fetch(d)
    BY <2>2, <2>3, <2>4, <2>5 DEF Model!Fetch, Model!Put
  <2>6. CASE Model!Receive(d)
    BY <2>1, <2>2, <2>4, <2>6 DEF Model!Receive, Model!Put
  <2> QED
    BY <1>7, <2>5, <2>6
<1>8. ASSUME NEW d \in ModelCaller, NEW k \in CallType, NEW end, Model!Return(d, k, end) PROVE FALSE
  BY <1>1, <1>8 DEF Model!Return, Model!Over, Model!Put, CallType
<1>9. ASSUME NEW d \in ModelCaller, NEW why, Model!Cut(d, why) PROVE FALSE
  BY <1>1, <1>8, <1>9 DEF Model!Cut, Model!Put, Model!Failed, Model!NoCall
<1>10. ASSUME NEW d \in ModelCaller, Model!Close(d) \/ Model!Break(d) PROVE FALSE
  BY <1>1, <1>8, <1>9, <1>10 DEF Model!Close, Model!Break
<1>11. ASSUME NEW d \in ModelCaller, Model!Ordinary(d) PROVE FALSE
  <2> DEFINE text == IF Model!Fits(x3[d]) THEN x3[d].size ELSE Room
             k == [x3[d] EXCEPT !.text = text]
  <2>1. text \in Nat
    BY <1>1 DEF CallType
  <2>2. k \in CallType
    BY <1>1, <2>1 DEF CallType
  <2>3. \E end : Model!Return(d, k, end)
    BY <1>11 DEF Model!Ordinary
  <2> QED
    BY <1>8, <2>2, <2>3
<1>12. CASE Model!Tick
  BY <1>12 DEF Model!Tick
<1> QED
  BY <1>4, <1>5, <1>6, <1>7, <1>10, <1>11, <1>12 DEF Model!Next

\* No model is called that its provider dropped more than a catalogue's life and a discovery ago.
THEOREM ModelsAreListed == ServicesSpec => ListedLately
<1>1. (part = "model" => ModelInv) /\ [ServicesNext]_vars
        => [part = "model" => Model!ListedStep]_vars
  <2> SUFFICES ASSUME ModelInv, part = "model", ServicesNext, NEW c \in ModelCaller,
                      x3[c].at # "open", x3'[c].at = "open"
      PROVE  x4 < x1.retires + Ttl + FetchTime
    BY DEF Model!ListedStep
  <2>1. Model!Next
    BY DEF ServicesNext
  <2> QED
    BY <2>1, Listing
<1> QED
  BY <1>1, ModelInvariant, PTL DEF ServicesSpec, ListedLately

-------------------------------------------------------------------------------
(* A question on a review: ReviewQuestions *)

AskerType ==
  [at: {"free", "insert", "authorize", "call", "recheck", "publish", "fail"},
   key: Questions!Key \cup {NoRow}, text: Text \cup {NoRow},
   answer: {"none", "unsupported", "unchecked", "answered"}]

\* A request holds its row from the insertion to the end.
Holds(h, k) == x2[h].at \in {"authorize", "call", "recheck", "publish", "fail"} /\ x2[h].key = k

QuestionTypes ==
  /\ x1 \in [Questions!Key -> Questions!Row \cup {NoRow}]
  /\ x2 \in [Asker -> AskerType]
  /\ x3 \in [Questions!Key -> Nat] /\ x7 \in Nat
  /\ \A h \in Asker : x2[h].at # "free" => x2[h].key \in Questions!Key
  /\ \A h \in Asker : x2[h].at = "insert" => x2[h].text \in Text

\* A row is held by one request at most, and only while it runs; before the call the model has not
\* seen its question.
Held ==
  /\ \A h \in Asker, k \in Questions!Key :
       Holds(h, k) => /\ x1[k] # NoRow /\ x1[k].status = "running"
                      /\ x2[h].at \in {"authorize", "call"} => x3[k] = 0
  /\ \A h, g \in Asker, k \in Questions!Key : Holds(h, k) /\ Holds(g, k) => h = g

\* A key without a row was neither asked nor answered.
Unasked == \A k \in Questions!Key : x1[k] = NoRow => x3[k] = 0 /\ x4[k] = {}

Said == {"none", "unsupported", "unchecked", "answered"}

QuestionInv ==
  /\ QuestionTypes /\ Held /\ Unasked /\ x4 \in [Questions!Key -> SUBSET Said]
  /\ Questions!AnsweredOnce

LEMMA QuestionNumbers ==
  Lease \in Nat /\ Window \in Nat /\ QuestionHorizon \in Nat /\ NoRow \notin Questions!Row
BY QuestionsConstants DEF Questions!QuestionsAssumption

\* What the model gives is one of three kinds of answer.
LEMMA AnswerKinds == Questions!Answers \subseteq Said
BY DEF Questions!Answers, Questions!Validated, Said

LEMMA QuestionsStart == Questions!Init => QuestionInv
<1> SUFFICES ASSUME Questions!Init PROVE QuestionInv
  OBVIOUS
<1>1. /\ x1 = [k \in Questions!Key |-> NoRow] /\ x2 = [h \in Asker |-> Questions!Free]
      /\ x3 = [k \in Questions!Key |-> 0] /\ x4 = [k \in Questions!Key |-> {}] /\ x7 = 0
  BY DEF Questions!Init
<1>2. Questions!Free \in AskerType /\ Questions!Free.at = "free"
  BY DEF Questions!Free, AskerType
<1>3. QuestionTypes
  BY <1>1, <1>2 DEF QuestionTypes
<1>4. Held /\ Unasked
  BY <1>1, <1>2 DEF Held, Holds, Unasked
<1> QED
  BY <1>1, <1>3, <1>4 DEF QuestionInv, Questions!AnsweredOnce

\* Steps that move one request, and leave rows, calls and answers alone.
LEMMA MovingOn ==
  ASSUME QuestionInv, NEW h \in Asker, NEW a \in AskerType, x2' = [x2 EXCEPT ![h] = a],
         UNCHANGED <<x1, x3, x4>>, x7' \in Nat,
         a.at # "free" => a.key \in Questions!Key,
         a.at = "insert" => a.text \in Text,
         a.at \in {"authorize", "call", "recheck", "publish", "fail"}
           => Holds(h, a.key) /\ (a.at \in {"authorize", "call"} => x3[a.key] = 0)
  PROVE  QuestionInv'
<1>1. x2 \in [Asker -> AskerType] /\ x2' \in [Asker -> AskerType] /\ x2'[h] = a
      /\ \A g \in Asker : g # h => x2'[g] = x2[g]
  BY DEF QuestionInv, QuestionTypes
<1>2. ASSUME NEW g \in Asker, NEW k \in Questions!Key, Holds(g, k)' PROVE Holds(g, k)
  BY <1>1, <1>2 DEF Holds
<1>3. QuestionTypes'
  BY <1>1 DEF QuestionInv, QuestionTypes
<1>4. Held'
  <2>1. ASSUME NEW g \in Asker, NEW k \in Questions!Key, Holds(g, k)'
        PROVE  x1[k] # NoRow /\ x1[k].status = "running"
               /\ (x2'[g].at \in {"authorize", "call"} => x3[k] = 0)
    <3>1. x1[k] # NoRow /\ x1[k].status = "running"
      BY <1>2, <2>1 DEF QuestionInv, Held
    <3>2. CASE g = h
      BY <1>1, <2>1, <3>1, <3>2 DEF Holds
    <3>3. CASE g # h
      BY <1>1, <1>2, <2>1, <3>1, <3>3 DEF QuestionInv, Held
    <3> QED
      BY <3>2, <3>3
  <2>2. ASSUME NEW g \in Asker, NEW f \in Asker, NEW k \in Questions!Key, Holds(g, k)', Holds(f, k)'
        PROVE  g = f
    BY <1>2, <2>2 DEF QuestionInv, Held
  <2> QED
    BY <2>1, <2>2 DEF Held
<1> QED
  BY <1>3, <1>4 DEF QuestionInv, Unasked, Questions!AnsweredOnce

LEMMA AskKeeps ==
  ASSUME QuestionInv, NEW h \in Asker, Questions!Ask(h)
  PROVE  QuestionInv'
<1>1. PICK k \in Questions!Key, text \in Text :
        x2' = [x2 EXCEPT ![h] = [Questions!Free EXCEPT !.at = "insert", !.key = k, !.text = text]]
  BY DEF Questions!Ask
<1> DEFINE a == [Questions!Free EXCEPT !.at = "insert", !.key = k, !.text = text]
<1>2. a \in AskerType /\ a.at = "insert" /\ a.key = k /\ a.text = text
  BY DEF Questions!Free, AskerType
<1>3. UNCHANGED <<x1, x3, x4, x7>>
  BY DEF Questions!Ask, Questions!Environment
<1> HIDE DEF a
<1> QED
  BY <1>1, <1>2, <1>3, MovingOn DEF QuestionInv, QuestionTypes, a

\* A request that ends without a row of its own.
LEMMA EndKeeps ==
  ASSUME QuestionInv, NEW h \in Asker, Questions!End(h), UNCHANGED <<x1, x3, x4, x7>>
  PROVE  QuestionInv'
<1>1. Questions!Free \in AskerType /\ Questions!Free.at = "free"
  BY DEF Questions!Free, AskerType
<1> QED
  BY <1>1, MovingOn DEF Questions!End, QuestionInv, QuestionTypes

\* A request that stays with its row and is told to do the next step.
LEMMA GotoKeeps ==
  ASSUME QuestionInv, NEW h \in Asker, NEW stage \in {"call", "recheck", "publish", "fail"},
         Questions!Goto(h, stage), UNCHANGED <<x1, x3, x4, x7>>,
         x2[h].at \in {"authorize", "call", "recheck", "publish", "fail"},
         stage = "call" => x2[h].at = "authorize"
  PROVE  QuestionInv'
<1> DEFINE a == [x2[h] EXCEPT !.at = stage]
<1>1. x2[h] \in AskerType /\ x2[h].key \in Questions!Key /\ Holds(h, x2[h].key)
  BY DEF QuestionInv, QuestionTypes, Holds
<1>2. x2' = [x2 EXCEPT ![h] = a]
  BY DEF Questions!Goto, QuestionInv, QuestionTypes
<1>3. a \in AskerType /\ a.at = stage /\ a.key = x2[h].key
  BY <1>1 DEF AskerType
<1>4. x2[h].at = "authorize" => x3[x2[h].key] = 0
  BY <1>1 DEF QuestionInv, Held
<1> HIDE DEF a
<1> QED
  BY <1>1, <1>2, <1>3, <1>4, MovingOn DEF QuestionInv, QuestionTypes

\* The row of a request and the request itself change together; the other rows and requests do
\* not, nor does anyone else hold that row.
LEMMA RowKeeps ==
  ASSUME QuestionInv, NEW h \in Asker, NEW k \in Questions!Key, NEW a \in AskerType,
         NEW row \in Questions!Row,
         x2' = [x2 EXCEPT ![h] = a], x1' = [x1 EXCEPT ![k] = row], x3' = x3, x7' = x7,
         \A g \in Asker : Holds(g, k) => g = h,
         x2[h].at # "free" /\ x2[h].key = k,
         a.at \in {"free", "authorize"}, a.at = "authorize" => a.key = k /\ row.status = "running",
         a.at = "authorize" => x3[k] = 0,
         x4' \in [Questions!Key -> SUBSET Said],
         \A q \in Questions!Key : q # k => x4'[q] = x4[q],
         x4'[k] # {} => row.status = "completed" /\ x4'[k] = {row.answer}
  PROVE  QuestionInv'
<1>1. /\ x2 \in [Asker -> AskerType] /\ x2' \in [Asker -> AskerType] /\ x2'[h] = a
      /\ \A g \in Asker : g # h => x2'[g] = x2[g]
      /\ x1' \in [Questions!Key -> Questions!Row \cup {NoRow}] /\ x1'[k] = row /\ row # NoRow
      /\ \A q \in Questions!Key : q # k => x1'[q] = x1[q]
  BY QuestionNumbers DEF QuestionInv, QuestionTypes
<1>2. ASSUME NEW g \in Asker, NEW q \in Questions!Key, Holds(g, q)'
      PROVE  \/ g = h /\ q = k /\ a.at = "authorize"
             \/ g # h /\ q # k /\ Holds(g, q) /\ x2'[g] = x2[g]
  <2>1. CASE g = h
    BY <1>1, <1>2, <2>1 DEF Holds
  <2>2. CASE g # h
    BY <1>1, <1>2, <2>2 DEF Holds
  <2> QED
    BY <2>1, <2>2
<1>3. QuestionTypes'
  BY <1>1 DEF QuestionInv, QuestionTypes
<1>4. Held'
  <2>1. ASSUME NEW g \in Asker, NEW q \in Questions!Key, Holds(g, q)'
        PROVE  x1'[q] # NoRow /\ x1'[q].status = "running"
               /\ (x2'[g].at \in {"authorize", "call"} => x3[q] = 0)
    <3>1. CASE g = h /\ q = k /\ a.at = "authorize"
      BY <1>1, <3>1
    <3>2. CASE g # h /\ q # k /\ Holds(g, q) /\ x2'[g] = x2[g]
      BY <1>1, <3>2 DEF QuestionInv, Held
    <3> QED
      BY <1>2, <2>1, <3>1, <3>2
  <2>2. ASSUME NEW g \in Asker, NEW f \in Asker, NEW q \in Questions!Key, Holds(g, q)', Holds(f, q)'
        PROVE  g = f
    <3>1. CASE q = k
      BY <1>2, <2>2, <3>1
    <3>2. CASE q # k
      BY <1>2, <2>2, <3>2 DEF QuestionInv, Held
    <3> QED
      BY <3>1, <3>2
  <2> QED
    BY <2>1, <2>2 DEF Held
<1>5. Unasked'
  BY <1>1 DEF QuestionInv, Unasked
<1>6. ASSUME NEW q \in Questions!Key
      PROVE  x3'[q] <= 1 /\ (x4'[q] # {} => x1'[q].status = "completed" /\ x4'[q] = {x1'[q].answer})
  BY <1>1 DEF QuestionInv, Questions!AnsweredOnce
<1> QED
  BY <1>3, <1>4, <1>5, <1>6 DEF QuestionInv, Questions!AnsweredOnce

\* A request made before gets the answer that is kept; a new one gets a row that nobody holds.
LEMMA InsertKeeps ==
  ASSUME QuestionInv, NEW h \in Asker, Questions!Insert(h)
  PROVE  QuestionInv'
<1> DEFINE k == x2[h].key
<1>1. /\ x2[h] \in AskerType /\ x2[h].at = "insert" /\ k \in Questions!Key /\ x2[h].text \in Text
      /\ UNCHANGED <<x3, x5, x6, x7>> /\ x7 \in Nat
      /\ x1 \in [Questions!Key -> Questions!Row \cup {NoRow}]
      /\ x4 \in [Questions!Key -> SUBSET Said]
  BY DEF Questions!Insert, Questions!Environment, QuestionInv, QuestionTypes
<1>2. CASE Questions!Repeated(k)
  <2>1. /\ x4' = IF x1[k].text = x2[h].text /\ x1[k].status = "completed"
                 THEN [x4 EXCEPT ![k] = @ \cup {x1[k].answer}] ELSE x4
        /\ Questions!End(h) /\ UNCHANGED x1
    BY <1>2 DEF Questions!Insert
  <2>2. CASE x4' = x4
    BY <1>1, <2>1, <2>2, EndKeeps
  <2>3. CASE x4' = [x4 EXCEPT ![k] = @ \cup {x1[k].answer}] /\ x1[k].status = "completed"
    <3>1. x1[k] \in Questions!Row
      BY <1>1, <1>2 DEF Questions!Repeated
    <3>2. x1[k].answer \in Said
      BY <3>1 DEF Questions!Row, Said
    <3>3. x4' \in [Questions!Key -> SUBSET Said] /\ x4'[k] = x4[k] \cup {x1[k].answer}
          /\ \A q \in Questions!Key : q # k => x4'[q] = x4[q]
      BY <1>1, <2>3, <3>2
    <3>4. x4[k] \subseteq {x1[k].answer}
      BY <1>1 DEF QuestionInv, Questions!AnsweredOnce
    <3>5. \A g \in Asker : ~Holds(g, k)
      BY <1>1, <2>3 DEF QuestionInv, Held
    <3>6. Questions!Free \in AskerType /\ Questions!Free.at = "free"
      BY DEF Questions!Free, AskerType
    <3>7. x1' = [x1 EXCEPT ![k] = x1[k]] /\ x2' = [x2 EXCEPT ![h] = Questions!Free]
      BY <1>1, <2>1 DEF Questions!End
    <3>8. x4'[k] = {x1[k].answer}
      BY <3>3, <3>4
    <3> QED
      BY <1>1, <2>3, <3>1, <3>3, <3>5, <3>6, <3>7, <3>8, RowKeeps
  <2> QED
    BY <2>1, <2>2, <2>3
<1>3. CASE ~Questions!Repeated(k) /\ Questions!End(h) /\ UNCHANGED <<x1, x4>>
  BY <1>1, <1>3, EndKeeps
<1>4. CASE ~Questions!Repeated(k) /\ Questions!Inserts(h, k)
  <2> DEFINE row == [text |-> x2[h].text, status |-> "running", created |-> x7,
                     lease |-> x7 + Lease, answer |-> "none"]
             a == [x2[h] EXCEPT !.at = "authorize"]
  <2>1. x1' = [x1 EXCEPT ![k] = row] /\ x4' = x4
    BY <1>4 DEF Questions!Inserts
  <2>2. x2' = [x2 EXCEPT ![h] = a]
    BY <1>4 DEF Questions!Inserts, Questions!Goto, QuestionInv, QuestionTypes
  <2>3. x7 + Lease \in Nat
    BY <1>1, QuestionNumbers
  <2>4. row \in Questions!Row /\ row.status = "running"
    BY <1>1, <2>3 DEF Questions!Row
  <2>5. a \in AskerType /\ a.at = "authorize" /\ a.key = k
    BY <1>1 DEF AskerType
  <2>6. x3[k] = 0 /\ x4[k] = {} /\ x1[k] = NoRow
    BY <1>1, <1>4 DEF QuestionInv, Unasked, Questions!Repeated
  <2>7. \A g \in Asker : ~Holds(g, k)
    BY <1>1, <2>6 DEF QuestionInv, Held
  <2> HIDE DEF a, row
  <2> QED
    BY <1>1, <2>1, <2>2, <2>4, <2>5, <2>6, <2>7, RowKeeps
<1> QED
  BY <1>2, <1>3, <1>4 DEF Questions!Insert

LEMMA AuthorizeKeeps ==
  ASSUME QuestionInv, NEW h \in Asker, Questions!Authorize(h) \/ Questions!Recheck(h)
  PROVE  QuestionInv'
BY GotoKeeps DEF Questions!Authorize, Questions!Recheck, Questions!Environment

\* The call is the first one for its row, and ends in an answer or in a failure.
LEMMA CallKeeps ==
  ASSUME QuestionInv, NEW h \in Asker, Questions!Call(h)
  PROVE  QuestionInv'
<1> DEFINE k == x2[h].key
<1>1. /\ x2[h] \in AskerType /\ x2[h].at = "call" /\ k \in Questions!Key /\ Holds(h, k)
      /\ UNCHANGED <<x1, x4, x7>> /\ x3' = [x3 EXCEPT ![k] = @ + 1]
      /\ x2 \in [Asker -> AskerType] /\ x3 \in [Questions!Key -> Nat]
  BY DEF Questions!Call, Questions!Environment, QuestionInv, QuestionTypes, Holds
<1>2. x3[k] = 0 /\ x1[k] # NoRow
  BY <1>1 DEF QuestionInv, Held
<1>3. /\ x3' \in [Questions!Key -> Nat] /\ x3'[k] = 1
      /\ \A q \in Questions!Key : q # k => x3'[q] = x3[q]
  BY <1>1, <1>2
<1>4. PICK a \in AskerType :
        x2' = [x2 EXCEPT ![h] = a] /\ a.at \in {"recheck", "fail"} /\ a.key = k
  <2>1. ASSUME NEW answer \in Said PROVE
          LET a == [x2[h] EXCEPT !.at = "recheck", !.answer = answer]
          IN  a \in AskerType /\ a.at = "recheck" /\ a.key = k
    BY <1>1, <2>1 DEF AskerType, Said
  <2>2. CASE \E answer \in Questions!Answers :
               x2' = [x2 EXCEPT ![h].at = "recheck", ![h].answer = answer]
    <3>1. PICK answer \in Said : x2' = [x2 EXCEPT ![h].at = "recheck", ![h].answer = answer]
      BY <2>2, AnswerKinds
    <3> DEFINE a == [x2[h] EXCEPT !.at = "recheck", !.answer = answer]
    <3>2. a \in AskerType /\ a.at = "recheck" /\ a.key = k
      BY <2>1
    <3>3. x2' = [x2 EXCEPT ![h] = a]
      BY <1>1, <3>1
    <3> QED
      BY <3>2, <3>3
  <2>3. CASE Questions!Goto(h, "fail")
    <3> DEFINE a == [x2[h] EXCEPT !.at = "fail"]
    <3>1. a \in AskerType /\ a.at = "fail" /\ a.key = k
      BY <1>1 DEF AskerType
    <3>2. x2' = [x2 EXCEPT ![h] = a]
      BY <1>1, <2>3 DEF Questions!Goto
    <3> QED
      BY <3>1, <3>2
  <2> QED
    BY <2>2, <2>3 DEF Questions!Call
<1>5. x2' \in [Asker -> AskerType] /\ x2'[h] = a /\ \A g \in Asker : g # h => x2'[g] = x2[g]
  BY <1>1, <1>4
<1>6. ASSUME NEW g \in Asker, NEW q \in Questions!Key, Holds(g, q)'
      PROVE  Holds(g, q) /\ (x2'[g].at \in {"authorize", "call"} => g # h /\ x2'[g] = x2[g])
  BY <1>1, <1>4, <1>5, <1>6 DEF Holds
<1>7. QuestionTypes'
  BY <1>1, <1>3, <1>4, <1>5 DEF QuestionInv, QuestionTypes
<1>8. Held'
  <2>1. ASSUME NEW g \in Asker, NEW q \in Questions!Key, Holds(g, q)'
        PROVE  x1[q] # NoRow /\ x1[q].status = "running"
               /\ (x2'[g].at \in {"authorize", "call"} => x3'[q] = 0)
    <3>1. Holds(g, q) /\ x1[q] # NoRow /\ x1[q].status = "running"
      BY <1>6, <2>1 DEF QuestionInv, Held
    <3>2. CASE x2'[g].at \in {"authorize", "call"}
      <4>1. g # h /\ x2'[g] = x2[g]
        BY <1>6, <2>1, <3>2
      <4>2. q # k
        BY <1>1, <3>1, <4>1 DEF QuestionInv, Held
      <4> QED
        BY <1>3, <3>1, <3>2, <4>1, <4>2 DEF QuestionInv, Held
    <3> QED
      BY <3>1, <3>2
  <2>2. ASSUME NEW g \in Asker, NEW f \in Asker, NEW q \in Questions!Key, Holds(g, q)', Holds(f, q)'
        PROVE  g = f
    BY <1>6, <2>2 DEF QuestionInv, Held
  <2> QED
    BY <1>1, <2>1, <2>2 DEF Held
<1>9. Unasked'
  BY <1>1, <1>2, <1>3 DEF QuestionInv, Unasked
<1>10. Questions!AnsweredOnce'
  BY <1>1, <1>3 DEF QuestionInv, Questions!AnsweredOnce
<1> QED
  BY <1>1, <1>7, <1>8, <1>9, <1>10 DEF QuestionInv

\* A row that is held runs, so that it has no answer yet and nobody else writes to it.
LEMMA HeldRows ==
  ASSUME QuestionInv, NEW h \in Asker, x2[h].at \in {"publish", "fail"}
  PROVE  /\ x2[h] \in AskerType /\ x2[h].key \in Questions!Key /\ x1[x2[h].key] \in Questions!Row
         /\ x4[x2[h].key] = {} /\ \A g \in Asker : Holds(g, x2[h].key) => g = h
<1>1. x2[h] \in AskerType /\ x2[h].key \in Questions!Key /\ Holds(h, x2[h].key)
  BY DEF QuestionInv, QuestionTypes, Holds
<1>2. x1[x2[h].key] # NoRow /\ x1[x2[h].key].status = "running"
      /\ \A g \in Asker : Holds(g, x2[h].key) => g = h
  BY <1>1 DEF QuestionInv, Held
<1>3. x1[x2[h].key] \in Questions!Row /\ x4[x2[h].key] = {}
  BY <1>1, <1>2 DEF QuestionInv, QuestionTypes, Questions!AnsweredOnce
<1> QED
  BY <1>1, <1>2, <1>3

LEMMA PublishKeeps ==
  ASSUME QuestionInv, NEW h \in Asker, Questions!Publish(h)
  PROVE  QuestionInv'
<1> DEFINE k == x2[h].key
           row == [x1[k] EXCEPT !.status = "completed", !.lease = 0, !.answer = x2[h].answer]
<1>1. /\ x2[h] \in AskerType /\ k \in Questions!Key /\ x1[k] \in Questions!Row
      /\ x4[k] = {} /\ (\A g \in Asker : Holds(g, k) => g = h) /\ x2[h].at = "publish"
      /\ UNCHANGED <<x3, x7>> /\ x1 \in [Questions!Key -> Questions!Row \cup {NoRow}]
      /\ x4 \in [Questions!Key -> SUBSET Said]
  BY HeldRows DEF Questions!Publish, Questions!Environment, QuestionInv, QuestionTypes
<1>2. x2[h].answer \in Said
  BY <1>1 DEF AskerType, Said
<1>3. row \in Questions!Row /\ row.status = "completed" /\ row.answer = x2[h].answer
  BY <1>1, <1>2 DEF Questions!Row, Said
<1>4. x1' = [x1 EXCEPT ![k] = row] /\ x4' = [x4 EXCEPT ![k] = @ \cup {x2[h].answer}]
  BY <1>1 DEF Questions!Publish
<1>5. /\ x4' \in [Questions!Key -> SUBSET Said] /\ x4'[k] = {x2[h].answer}
      /\ \A q \in Questions!Key : q # k => x4'[q] = x4[q]
  BY <1>1, <1>2, <1>4
<1>6. Questions!Free \in AskerType /\ Questions!Free.at = "free"
      /\ x2' = [x2 EXCEPT ![h] = Questions!Free]
  BY DEF Questions!Free, AskerType, Questions!Publish, Questions!End
<1> HIDE DEF row
<1> QED
  BY <1>1, <1>3, <1>4, <1>5, <1>6, RowKeeps

LEMMA FailKeeps ==
  ASSUME QuestionInv, NEW h \in Asker, Questions!Fail(h)
  PROVE  QuestionInv'
<1> DEFINE k == x2[h].key
           row == [x1[k] EXCEPT !.status = "failed", !.lease = 0]
<1>1. /\ x2[h] \in AskerType /\ k \in Questions!Key /\ x1[k] \in Questions!Row
      /\ x4[k] = {} /\ (\A g \in Asker : Holds(g, k) => g = h) /\ x2[h].at = "fail"
      /\ UNCHANGED <<x3, x4, x7>> /\ x1 \in [Questions!Key -> Questions!Row \cup {NoRow}]
      /\ x4 \in [Questions!Key -> SUBSET Said]
  BY HeldRows DEF Questions!Fail, Questions!Environment, QuestionInv, QuestionTypes
<1>2. row \in Questions!Row
  BY <1>1 DEF Questions!Row
<1>3. x1' = [x1 EXCEPT ![k] = row]
  BY <1>1 DEF Questions!Fail
<1>4. Questions!Free \in AskerType /\ Questions!Free.at = "free"
      /\ x2' = [x2 EXCEPT ![h] = Questions!Free]
  BY DEF Questions!Free, AskerType, Questions!Fail, Questions!End
<1> HIDE DEF row
<1> QED
  BY <1>1, <1>2, <1>3, <1>4, RowKeeps

\* The process stops: no row is held any more.
LEMMA RestartKeeps ==
  ASSUME QuestionInv, Questions!Restart
  PROVE  QuestionInv'
<1>1. x2' = [h \in Asker |-> Questions!Free] /\ UNCHANGED <<x1, x3, x4, x7>>
  BY DEF Questions!Restart, Questions!Environment
<1>2. Questions!Free \in AskerType /\ Questions!Free.at = "free"
  BY DEF Questions!Free, AskerType
<1>3. x2' \in [Asker -> AskerType] /\ \A h \in Asker : x2'[h].at = "free"
  BY <1>1, <1>2
<1>4. QuestionTypes'
  BY <1>1, <1>3 DEF QuestionInv, QuestionTypes
<1>5. Held'
  BY <1>3 DEF Held, Holds
<1> QED
  BY <1>1, <1>4, <1>5 DEF QuestionInv, Unasked, Questions!AnsweredOnce

LEMMA QuestionSteps ==
  ASSUME QuestionInv, [Questions!Next]_(Questions!questionVars)
  PROVE  QuestionInv'
<1>1. ASSUME NEW h \in Asker,
             \/ Questions!Ask(h) \/ Questions!Insert(h) \/ Questions!Authorize(h)
             \/ Questions!Call(h) \/ Questions!Recheck(h) \/ Questions!Publish(h)
             \/ Questions!Fail(h)
      PROVE  QuestionInv'
  BY <1>1, AskKeeps, InsertKeeps, AuthorizeKeeps, CallKeeps, PublishKeeps, FailKeeps
<1>2. ASSUME UNCHANGED <<x1, x2, x3, x4>>, x7' \in Nat PROVE QuestionInv'
  BY <1>2 DEF QuestionInv, QuestionTypes, Held, Holds, Unasked, Questions!AnsweredOnce
<1>3. x7 \in Nat
  BY DEF QuestionInv, QuestionTypes
<1>4. CASE \E v \in Review : Questions!Reopen(v)
  BY <1>2, <1>3, <1>4 DEF Questions!Reopen
<1>5. CASE Questions!Access
  BY <1>2, <1>3, <1>5 DEF Questions!Access
<1>6. CASE Questions!Tick
  BY <1>2, <1>3, <1>6 DEF Questions!Tick
<1>7. CASE UNCHANGED Questions!questionVars
  BY <1>2, <1>3, <1>7 DEF Questions!questionVars
<1> QED
  BY <1>1, <1>4, <1>5, <1>6, <1>7, RestartKeeps DEF Questions!Next

LEMMA QuestionInvariant == ServicesSpec => [](part = "questions" => QuestionInv)
<1>1. ServicesInit => (part = "questions" => QuestionInv)
  BY QuestionsStart DEF ServicesInit
<1>2. (part = "questions" => QuestionInv) /\ [ServicesNext]_vars
        => (part = "questions" => QuestionInv)'
  <2> SUFFICES ASSUME part' = "questions", part = "questions" => QuestionInv, [ServicesNext]_vars
      PROVE  QuestionInv'
    OBVIOUS
  <2>1. part = "questions" /\ [Questions!Next]_(Questions!questionVars)
    BY DEF ServicesNext, vars, From5, From7, Questions!questionVars
  <2> QED
    BY <2>1, QuestionSteps
<1> QED
  BY <1>1, <1>2, PTL DEF ServicesSpec

\* However often a request is sent, and whatever fails, stops or comes late: its question goes to
\* the model once at most, and every answer the client gets is the one that its row keeps.
THEOREM QuestionsAreAskedOnce == ServicesSpec => []AnsweredOnce
<1>1. (part = "questions" => QuestionInv) => AnsweredOnce
  BY DEF AnsweredOnce, QuestionInv
<1> QED
  BY <1>1, QuestionInvariant, PTL

-------------------------------------------------------------------------------
(* An offer: Offers *)

OfferRow ==
  [status: Offers!Status \cup {"none", "deleted"}, created: Nat, sent: Nat, updated: Nat,
   replied: BOOLEAN, viewed: BOOLEAN]

OfferRequest ==
  [at: {"free", "insert", "mail", "delivered", "failed", "read", "resend", "set", "delete", "view",
        "reply"},
   op: {"none", "send", "resend", "delete", "set", "page"}, offer: Offer \cup {NoRow},
   status: Offers!Manual \cup {"none"}]

\* What a request may find in its offer: a delivery it records was made, and so was one for every
\* status but withdrawn that it sets.
Fit(a) ==
  /\ a.at \notin {"free", "insert"} => a.offer \in Offer
  /\ a.at = "read" => a.op \in {"resend", "delete", "set"}
  /\ a.at = "read" /\ a.op = "set" => a.status \in Offers!Manual
  /\ a.at = "set" => a.status \in Offers!Manual /\ (a.status = "withdrawn" \/ a.offer \in x3)
  /\ a.at = "reply" => a.status \in Offers!Answer
  /\ a.at = "delivered" => a.offer \in x3

Delivered(row) == row.sent # 0 \/ row.status \in {"sent"} \cup Offers!Answer

OfferInv ==
  /\ x1 \in [Offer -> OfferRow] /\ x2 \in [Handler -> OfferRequest]
  /\ x3 \subseteq Offer /\ x4 \in Nat \ {0}
  /\ \A h \in Handler : Fit(x2[h])
  /\ \A o \in Offer : Delivered(x1[o]) => o \in x3

Decided(row) == row.status \in Offers!Answer \cup {"withdrawn"}

LEMMA OffersStart == Offers!Init => OfferInv
<1> SUFFICES ASSUME Offers!Init PROVE OfferInv
  OBVIOUS
<1>1. Offers!Unused \in OfferRow /\ ~Delivered(Offers!Unused)
  BY DEF Offers!Unused, Offers!Null, OfferRow, Delivered, Offers!Answer
<1>2. Offers!Free \in OfferRequest /\ Fit(Offers!Free)
  BY DEF Offers!Free, OfferRequest, Fit
<1> QED
  BY <1>1, <1>2 DEF Offers!Init, OfferInv

\* A step of one request that forgets no mail and leaves every row backed by its mail.
LEMMA Acting ==
  ASSUME OfferInv, NEW h \in Handler, NEW a \in OfferRequest, x2' = [x2 EXCEPT ![h] = a],
         x3 \subseteq x3', x3' \subseteq Offer, x4' = x4, Fit(a) \/ (Fit(a))',
         x1' \in [Offer -> OfferRow],
         \A o \in Offer : x1'[o] = x1[o] \/ (Delivered(x1'[o]) => o \in x3')
  PROVE  OfferInv'
<1>1. x2' \in [Handler -> OfferRequest]
  BY DEF OfferInv
<1>2. ASSUME NEW g \in Handler PROVE (Fit(x2[g]))'
  <2>1. CASE g = h
    BY <2>1 DEF OfferInv, Fit
  <2>2. CASE g # h
    BY <2>2 DEF OfferInv, Fit
  <2> QED
    BY <2>1, <2>2
<1>3. \A o \in Offer : (Delivered(x1[o]) => o \in x3)'
  BY DEF OfferInv
<1> QED
  BY <1>1, <1>2, <1>3 DEF OfferInv

\* Requests that are over, and those that go on with the offer they have.
LEMMA Freed ==
  ASSUME NEW h \in Handler, Offers!End(h)
  PROVE  /\ Offers!Free \in OfferRequest /\ Fit(Offers!Free)
         /\ x2' = [x2 EXCEPT ![h] = Offers!Free]
BY DEF Offers!Free, OfferRequest, Fit, Offers!End

LEMMA Proceeding ==
  ASSUME OfferInv, NEW h \in Handler, x2[h].at \notin {"free", "insert"},
         NEW place \in {"mail", "delivered", "failed", "resend", "set", "delete"},
         Offers!Goto(h, place)
  PROVE  \E a \in OfferRequest :
           /\ x2' = [x2 EXCEPT ![h] = a] /\ a.at = place
           /\ a.op = x2[h].op /\ a.offer = x2[h].offer /\ a.status = x2[h].status
           /\ a.offer \in Offer
<1> DEFINE a == [x2[h] EXCEPT !.at = place]
<1>1. x2[h] \in OfferRequest /\ x2[h].offer \in Offer
  BY DEF OfferInv, Fit
<1>2. x2' = [x2 EXCEPT ![h] = a]
  BY DEF Offers!Goto, OfferInv
<1>3. a \in OfferRequest
  BY <1>1 DEF OfferRequest
<1>4. a.at = place /\ a.op = x2[h].op /\ a.offer = x2[h].offer /\ a.status = x2[h].status
  BY <1>1 DEF OfferRequest
<1> HIDE DEF a
<1> QED
  BY <1>1, <1>2, <1>3, <1>4

\* A row that is written keeps what the writer gives it, with a new time.
LEMMA Saving ==
  ASSUME OfferInv, NEW o \in Offer, NEW row \in OfferRow, Offers!Save(o, row)
  PROVE  /\ x1' \in [Offer -> OfferRow]
         /\ x1'[o].status = row.status /\ x1'[o].sent = row.sent
         /\ \A p \in Offer : p # o => x1'[p] = x1[p]
<1> DEFINE r == [row EXCEPT !.updated = x4]
<1>1. x1' = [x1 EXCEPT ![o] = r] /\ x4 \in Nat
  BY DEF Offers!Save, OfferInv
<1>2. r \in OfferRow
  BY <1>1 DEF OfferRow
<1>3. r.status = row.status /\ r.sent = row.sent
  BY DEF OfferRow
<1> HIDE DEF r
<1> QED
  BY <1>1, <1>2, <1>3 DEF OfferInv

\* What a send that did not finish leaves of its row.
LEMMA Undelivering ==
  ASSUME NEW row \in OfferRow
  PROVE  /\ Offers!Undelivered(row) \in OfferRow
         /\ Delivered(Offers!Undelivered(row)) => row.sent # 0
         /\ Offers!Undelivered(row).sent = row.sent
<1> DEFINE status == IF row.sent = Offers!Null THEN "failed" ELSE "sent"
           r == [row EXCEPT !.status = status]
<1>1. status \in Offers!Status
  BY DEF Offers!Status, Offers!Manual
<1>2. r \in OfferRow
  BY <1>1 DEF OfferRow
<1>3. r.status = status /\ r.sent = row.sent
  BY DEF OfferRow
<1>4. r = Offers!Undelivered(row)
  BY DEF Offers!Undelivered
<1>5. status = "sent" => row.sent # 0
  BY DEF Offers!Null
<1>6. status \in {"failed", "sent"}
  OBVIOUS
<1> HIDE DEF r, status
<1> QED
  BY <1>2, <1>3, <1>4, <1>5, <1>6 DEF Delivered, Offers!Answer

LEMMA OfferNumbers == NoRow \notin Offer /\ Cooldown \in Nat /\ SendingTimeout \in Nat
BY OffersConstants DEF Offers!OffersAssumption

LEMMA SubmitActs ==
  ASSUME OfferInv, NEW h \in Handler, Offers!Submit(h) \/ Offers!InsertOffer(h)
  PROVE  OfferInv' /\ \A o \in Offer : Decided(x1[o]) => x1'[o].status = x1[o].status
<1>1. CASE Offers!Submit(h)
  <2> DEFINE a == [Offers!Free EXCEPT !.at = "insert", !.op = "send"]
  <2>1. a \in OfferRequest /\ a.at = "insert"
    BY DEF Offers!Free, OfferRequest
  <2>2. x2' = [x2 EXCEPT ![h] = a] /\ UNCHANGED <<x1, x3, x4>>
    BY <1>1 DEF Offers!Submit
  <2>3. Fit(a)
    BY <2>1 DEF Fit
  <2> HIDE DEF a
  <2> QED
    BY <2>1, <2>2, <2>3, Acting DEF OfferInv
<1>2. CASE Offers!InsertOffer(h)
  <2>1. PICK o \in Offer :
          /\ x1[o] = Offers!Unused
          /\ Offers!Save(o, [Offers!Unused EXCEPT !.status = "sending", !.created = x4])
          /\ x2' = [x2 EXCEPT ![h].at = "mail", ![h].offer = o]
    BY <1>2 DEF Offers!InsertOffer
  <2> DEFINE a == [x2[h] EXCEPT !.at = "mail", !.offer = o]
             row == [Offers!Unused EXCEPT !.status = "sending", !.created = x4]
  <2>2. x2[h] \in OfferRequest /\ UNCHANGED <<x3, x4>> /\ x4 \in Nat
    BY <1>2 DEF Offers!InsertOffer, OfferInv
  <2>3. a \in OfferRequest /\ a.at = "mail" /\ a.offer = o
    BY <2>2 DEF OfferRequest
  <2>4. Fit(a)
    BY <2>3 DEF Fit
  <2>5. x2' = [x2 EXCEPT ![h] = a]
    BY <2>1 DEF OfferInv
  <2>6. "sending" \in Offers!Status \cup {"none", "deleted"}
    BY DEF Offers!Status
  <2>7. row \in OfferRow
    BY <2>2, <2>6 DEF Offers!Unused, Offers!Null, OfferRow
  <2>8. row.status = "sending" /\ row.sent = 0
    BY DEF Offers!Unused, Offers!Null
  <2>9. Offers!Save(o, row)
    BY <2>1
  <2>10. ~Decided(x1[o])
    BY <2>1 DEF Offers!Unused, Decided, Offers!Answer
  <2> HIDE DEF a, row
  <2>11. /\ x1' \in [Offer -> OfferRow] /\ ~Delivered(x1'[o])
         /\ \A p \in Offer : p # o => x1'[p] = x1[p]
    BY <2>7, <2>8, <2>9, Saving DEF Delivered, Offers!Answer
  <2>12. \A p \in Offer : x1'[p] = x1[p] \/ (Delivered(x1'[p]) => p \in x3')
    BY <2>11
  <2>13. x3 \subseteq x3' /\ x3' \subseteq Offer /\ x4' = x4
    BY <2>2 DEF OfferInv
  <2>14. OfferInv'
    BY <2>3, <2>4, <2>5, <2>11, <2>12, <2>13, Acting
  <2> QED
    BY <2>10, <2>11, <2>14
<1> QED
  BY <1>1, <1>2

LEMMA MailActs ==
  ASSUME OfferInv, NEW h \in Handler, Offers!Mail(h)
  PROVE  OfferInv' /\ UNCHANGED x1
<1>1. PICK took \in BOOLEAN, outcome \in {"delivered", "failed", "raised"} :
        /\ outcome = "delivered" => took
        /\ x3' = IF took THEN x3 \cup {x2[h].offer} ELSE x3
        /\ IF outcome = "raised" THEN Offers!End(h) ELSE Offers!Goto(h, outcome)
  BY DEF Offers!Mail
<1>2. x2[h] \in OfferRequest /\ x2[h].at = "mail" /\ x2[h].offer \in Offer /\ UNCHANGED <<x1, x4>>
  BY DEF Offers!Mail, Offers!At, OfferInv, Fit
<1>3. x3 \subseteq x3' /\ x3' \subseteq Offer /\ (outcome = "delivered" => x2[h].offer \in x3')
  BY <1>1, <1>2 DEF OfferInv
<1>4. CASE outcome = "raised"
  BY <1>1, <1>2, <1>3, <1>4, Freed, Acting DEF OfferInv
<1>5. CASE outcome \in {"delivered", "failed"}
  <2>1. PICK a \in OfferRequest :
          /\ x2' = [x2 EXCEPT ![h] = a] /\ a.at = outcome /\ a.offer = x2[h].offer
    BY <1>1, <1>2, <1>5, Proceeding
  <2>2. (Fit(a))'
    BY <1>2, <1>3, <1>5, <2>1 DEF Fit
  <2> QED
    BY <1>2, <1>3, <2>1, <2>2, Acting DEF OfferInv
<1> QED
  BY <1>2, <1>4, <1>5

\* What is recorded of a delivery or a failure is nothing if the offer is gone, and else a row
\* whose status changed only if it was sending.
LEMMA Recording ==
  ASSUME OfferInv, NEW h \in Handler, NEW o \in Offer, NEW row \in OfferRow,
         Offers!SaveIfThere(o, row), Offers!End(h), UNCHANGED <<x3, x4>>,
         Delivered(row) => o \in x3,
         Decided(x1[o]) => row.status = x1[o].status
  PROVE  OfferInv' /\ \A p \in Offer : Decided(x1[p]) => x1'[p].status = x1[p].status
<1>1. x3 \subseteq x3' /\ x3' \subseteq Offer /\ x4' = x4 /\ x1 \in [Offer -> OfferRow]
  BY DEF OfferInv
<1>2. CASE x1' = x1
  BY <1>1, <1>2, Freed, Acting
<1>3. CASE Offers!Save(o, row)
  <2>1. /\ x1' \in [Offer -> OfferRow] /\ x1'[o].status = row.status /\ x1'[o].sent = row.sent
        /\ \A p \in Offer : p # o => x1'[p] = x1[p]
    BY <1>3, Saving
  <2>2. Delivered(x1'[o]) => o \in x3'
    BY <1>1, <2>1 DEF Delivered
  <2>3. OfferInv'
    BY <1>1, <2>1, <2>2, Freed, Acting
  <2> QED
    BY <2>1, <2>3
<1> QED
  BY <1>2, <1>3 DEF Offers!SaveIfThere

LEMMA RecordActs ==
  ASSUME OfferInv, NEW h \in Handler, Offers!RecordDelivery(h) \/ Offers!RecordFailure(h)
  PROVE  OfferInv' /\ \A p \in Offer : Decided(x1[p]) => x1'[p].status = x1[p].status
<1> DEFINE o == x2[h].offer
<1>1. /\ o \in Offer /\ x1[o] \in OfferRow /\ Offers!End(h) /\ UNCHANGED <<x3, x4>> /\ x4 \in Nat
      /\ Delivered(x1[o]) => o \in x3
  BY DEF Offers!RecordDelivery, Offers!RecordFailure, Offers!At, OfferInv, Fit
<1>2. CASE Offers!RecordDelivery(h)
  <2> DEFINE status == IF x1[o].status = "sending" THEN "sent" ELSE x1[o].status
             row == [x1[o] EXCEPT !.status = status, !.sent = x4]
  <2>1. o \in x3
    BY <1>2 DEF Offers!RecordDelivery, Offers!At, OfferInv, Fit
  <2>2. status \in Offers!Status \cup {"none", "deleted"}
    BY <1>1 DEF OfferRow, Offers!Status, Offers!Manual
  <2>3. Decided(x1[o]) => status = x1[o].status
    BY DEF Decided, Offers!Answer
  <2> HIDE DEF status
  <2>4. row \in OfferRow
    BY <1>1, <2>2 DEF OfferRow
  <2>5. row.status = status
    BY <1>1 DEF OfferRow
  <2>6. Offers!SaveIfThere(o, row)
    BY <1>1, <1>2 DEF Offers!RecordDelivery, OfferRow, status
  <2> HIDE DEF row
  <2> QED
    BY <1>1, <2>1, <2>3, <2>4, <2>5, <2>6, Recording
<1>3. CASE Offers!RecordFailure(h)
  <2>1. CASE x1[o].status = "sending"
    <3>1. Offers!SaveIfThere(o, Offers!Undelivered(x1[o]))
      BY <1>3, <2>1 DEF Offers!RecordFailure
    <3>2. /\ Offers!Undelivered(x1[o]) \in OfferRow
          /\ Delivered(Offers!Undelivered(x1[o])) => o \in x3
      BY <1>1, Undelivering DEF Delivered
    <3>3. ~Decided(x1[o])
      BY <2>1 DEF Decided, Offers!Answer
    <3> QED
      BY <1>1, <3>1, <3>2, <3>3, Recording
  <2>2. CASE x1[o].status # "sending"
    <3>1. Offers!SaveIfThere(o, x1[o])
      BY <1>3, <2>2 DEF Offers!RecordFailure
    <3> QED
      BY <1>1, <3>1, Recording
  <2> QED
    BY <2>1, <2>2
<1> QED
  BY <1>2, <1>3

\* What the admin's page does first: sends that were cut off are taken for failed.
LEMMA ExpireActs ==
  ASSUME OfferInv, NEW h \in Handler, Offers!Expire(h)
  PROVE  OfferInv' /\ \A p \in Offer : Decided(x1[p]) => x1'[p].status = x1[p].status
<1>1. x3' = x3 /\ x4' = x4 /\ x4 \in Nat /\ x1 \in [Offer -> OfferRow]
  BY DEF Offers!Expire, OfferInv
<1>2. x3 \subseteq x3' /\ x3' \subseteq Offer
  BY <1>1 DEF OfferInv
<1> DEFINE Cut(o) == x1[o].status = "sending" /\ Offers!Older(x1[o].updated, SendingTimeout)
           r(o) == [Offers!Undelivered(x1[o]) EXCEPT !.updated = x4]
<1>3. x1' = [o \in Offer |-> IF Cut(o) THEN r(o) ELSE x1[o]]
  BY DEF Offers!Expire
<1>4. ASSUME NEW o \in Offer
      PROVE  r(o) \in OfferRow /\ (Delivered(r(o)) => o \in x3)
  <2>1. Offers!Undelivered(x1[o]) \in OfferRow
    BY <1>1, Undelivering
  <2>2. r(o) \in OfferRow
    BY <1>1, <2>1 DEF OfferRow
  <2>3. r(o).status = Offers!Undelivered(x1[o]).status /\ r(o).sent = Offers!Undelivered(x1[o]).sent
    BY <2>1 DEF OfferRow
  <2>4. Delivered(r(o)) => x1[o].sent # 0
    BY <1>1, <2>3, Undelivering DEF Delivered
  <2> QED
    BY <2>2, <2>4 DEF OfferInv, Delivered
<1> HIDE DEF r
<1>5. ASSUME NEW o \in Offer
      PROVE  /\ x1'[o] \in OfferRow /\ (x1'[o] = x1[o] \/ (Delivered(x1'[o]) => o \in x3'))
             /\ Decided(x1[o]) => x1'[o] = x1[o]
  <2>1. CASE x1[o].status = "sending" /\ x1'[o] = r(o)
    <3>1. x1'[o] \in OfferRow /\ (Delivered(x1'[o]) => o \in x3')
      BY <1>1, <1>4, <2>1
    <3>2. ~Decided(x1[o])
      BY <2>1 DEF Decided, Offers!Answer
    <3> QED
      BY <3>1, <3>2
  <2>2. CASE x1'[o] = x1[o]
    BY <1>1, <2>2
  <2> QED
    BY <1>3, <2>1, <2>2
<1>6. x1' \in [Offer -> OfferRow]
  BY <1>3, <1>5
<1>7. PICK a \in OfferRequest : x2' = [x2 EXCEPT ![h] = a] /\ Fit(a)
  <2>1. CASE x2' = x2
    BY <2>1 DEF OfferInv
  <2>2. CASE \E o \in Offer, op \in {"resend", "delete"} \cup Offers!Manual :
               x2' = [x2 EXCEPT ![h] =
                 [at |-> "read", op |-> IF op \in Offers!Manual THEN "set" ELSE op, offer |-> o,
                  status |-> IF op \in Offers!Manual THEN op ELSE "none"]]
    <3>1. PICK o \in Offer, op \in {"resend", "delete"} \cup Offers!Manual :
               x2' = [x2 EXCEPT ![h] =
                 [at |-> "read", op |-> IF op \in Offers!Manual THEN "set" ELSE op, offer |-> o,
                  status |-> IF op \in Offers!Manual THEN op ELSE "none"]]
      BY <2>2
    <3>2. CASE op \in Offers!Manual
      <4> DEFINE a == [at |-> "read", op |-> "set", offer |-> o, status |-> op]
      <4>1. a \in OfferRequest /\ Fit(a)
        BY <3>2 DEF OfferRequest, Fit
      <4> QED
        BY <3>1, <3>2, <4>1
    <3>3. CASE op \notin Offers!Manual
      <4> DEFINE a == [at |-> "read", op |-> op, offer |-> o, status |-> "none"]
      <4>1. op \in {"resend", "delete"}
        BY <3>3
      <4>2. a \in OfferRequest
        BY <4>1 DEF OfferRequest
      <4>3. Fit(a)
        BY <4>1 DEF Fit
      <4> QED
        BY <3>1, <3>3, <4>2, <4>3
    <3> QED
      BY <3>2, <3>3
  <2> QED
    BY <2>1, <2>2 DEF Offers!Expire
<1>8. OfferInv'
  BY <1>1, <1>2, <1>5, <1>6, <1>7, Acting
<1> QED
  BY <1>5, <1>8

\* A request that may set a status other than withdrawn read an offer that was mailed.
LEMMA ReadRowActs ==
  ASSUME OfferInv, NEW h \in Handler, Offers!ReadRow(h)
  PROVE  OfferInv' /\ UNCHANGED x1
<1>1. /\ x2[h] \in OfferRequest /\ x2[h].at = "read" /\ Fit(x2[h]) /\ UNCHANGED <<x1, x3, x4>>
      /\ x3 \subseteq Offer /\ x1 \in [Offer -> OfferRow]
  BY DEF Offers!ReadRow, Offers!At, OfferInv
<1>2. CASE ~Offers!Allowed(h)
  BY <1>1, <1>2, Freed, Acting DEF Offers!ReadRow
<1>3. CASE Offers!Allowed(h)
  <2>1. PICK a \in OfferRequest :
          /\ x2' = [x2 EXCEPT ![h] = a] /\ a.at = x2[h].op /\ a.op = x2[h].op
          /\ a.offer = x2[h].offer /\ a.status = x2[h].status
    BY <1>1, <1>3, Proceeding DEF Offers!ReadRow, Fit
  <2>2. x2[h].op = "set" => x1[x2[h].offer].sent # 0 \/ x2[h].status = "withdrawn"
    BY <1>3 DEF Offers!Allowed, Offers!Null
  <2>3. x2[h].op = "set" => x2[h].offer \in x3 \/ x2[h].status = "withdrawn"
    BY <1>1, <2>2 DEF OfferInv, Fit, Delivered
  <2>4. Fit(a)
    BY <1>1, <2>1, <2>3 DEF Fit
  <2> QED
    BY <1>1, <2>1, <2>4, Acting
<1> QED
  BY <1>1, <1>2, <1>3

LEMMA ClaimActs ==
  ASSUME OfferInv, NEW h \in Handler, Offers!ClaimForResend(h)
  PROVE  OfferInv' /\ \A p \in Offer : Decided(x1[p]) => x1'[p].status = x1[p].status
<1> DEFINE o == x2[h].offer
           row == [x1[o] EXCEPT !.status = "sending"]
<1>1. /\ x2[h] \in OfferRequest /\ x2[h].at = "resend" /\ o \in Offer /\ UNCHANGED <<x3, x4>>
      /\ x3 \subseteq Offer /\ x1 \in [Offer -> OfferRow]
  BY DEF Offers!ClaimForResend, Offers!At, OfferInv, Fit
<1>2. CASE Offers!End(h) /\ x1' = x1
  BY <1>1, <1>2, Freed, Acting
<1>3. CASE x1[o].status \in {"failed", "sent"} /\ Offers!Save(o, row) /\ Offers!Goto(h, "mail")
  <2>1. row \in OfferRow /\ row.status = "sending" /\ row.sent = x1[o].sent
    BY <1>1 DEF OfferRow, Offers!Status
  <2> HIDE DEF row
  <2>2. PICK a \in OfferRequest : x2' = [x2 EXCEPT ![h] = a] /\ a.at = "mail" /\ a.offer = o
    BY <1>1, <1>3, Proceeding
  <2>3. /\ x1' \in [Offer -> OfferRow] /\ x1'[o].status = "sending" /\ x1'[o].sent = x1[o].sent
        /\ \A p \in Offer : p # o => x1'[p] = x1[p]
    BY <1>1, <1>3, <2>1, Saving
  <2>4. Fit(a)
    BY <1>1, <2>2 DEF Fit
  <2>5. Delivered(x1'[o]) => o \in x3'
    BY <1>1, <2>3 DEF OfferInv, Delivered, Offers!Answer
  <2>6. OfferInv'
    BY <1>1, <2>2, <2>3, <2>4, <2>5, Acting
  <2>7. ~Decided(x1[o])
    BY <1>3 DEF Decided, Offers!Answer
  <2> QED
    BY <2>3, <2>6, <2>7
<1> QED
  BY <1>2, <1>3 DEF Offers!ClaimForResend

LEMMA AdminActs ==
  ASSUME OfferInv, NEW h \in Handler, Offers!UpdateStatus(h) \/ Offers!DeleteOffer(h)
  PROVE  OfferInv'
<1> DEFINE o == x2[h].offer
<1>1. /\ x2[h] \in OfferRequest /\ o \in Offer /\ Offers!End(h) /\ UNCHANGED <<x3, x4>>
      /\ x3 \subseteq Offer /\ x1 \in [Offer -> OfferRow] /\ Fit(x2[h])
  BY DEF Offers!UpdateStatus, Offers!DeleteOffer, Offers!At, OfferInv, Fit
<1>2. CASE x1' = x1
  BY <1>1, <1>2, Freed, Acting
<1>3. CASE Offers!UpdateStatus(h) /\ x1' # x1
  <2> DEFINE status == x2[h].status
  <2>1. PICK replied \in BOOLEAN : replied = (x1[o].replied /\ status # "sent")
    <3>1. x1[o].replied \in BOOLEAN
      BY <1>1 DEF OfferRow
    <3> QED
      BY <3>1, Zenon
  <2> DEFINE row == [x1[o] EXCEPT !.status = status, !.replied = replied]
  <2>2. status \in Offers!Manual /\ (status = "withdrawn" \/ o \in x3)
    BY <1>1, <1>3 DEF Offers!UpdateStatus, Offers!At, Fit
  <2>3. row \in OfferRow
    BY <1>1, <2>2 DEF OfferRow, Offers!Status
  <2>4. row.status = status /\ row.sent = x1[o].sent
    BY <1>1 DEF OfferRow
  <2>5. Offers!Save(o, [x1[o] EXCEPT !.status = status, !.replied = @ /\ status # "sent"])
    BY <1>3 DEF Offers!UpdateStatus
  <2>6. [x1[o] EXCEPT !.status = status].replied = x1[o].replied
    BY <1>1 DEF OfferRow
  <2>7. Offers!Save(o, row)
    BY <2>1, <2>5, <2>6, Zenon
  <2> HIDE DEF row
  <2>8. /\ x1' \in [Offer -> OfferRow] /\ x1'[o].status = status /\ x1'[o].sent = x1[o].sent
        /\ \A p \in Offer : p # o => x1'[p] = x1[p]
    BY <1>1, <2>3, <2>4, <2>7, Saving
  <2>9. Delivered(x1'[o]) => o \in x3'
    BY <1>1, <2>2, <2>8 DEF OfferInv, Delivered, Offers!Answer
  <2> QED
    BY <1>1, <2>8, <2>9, Freed, Acting
<1>4. CASE Offers!DeleteOffer(h) /\ x1' # x1
  <2> DEFINE row == [Offers!Unused EXCEPT !.status = "deleted"]
  <2>1. row \in OfferRow /\ ~Delivered(row)
    BY DEF Offers!Unused, Offers!Null, OfferRow, Delivered, Offers!Answer
  <2>2. x1' = [x1 EXCEPT ![o] = row]
    BY <1>4 DEF Offers!DeleteOffer
  <2> HIDE DEF row
  <2> QED
    BY <1>1, <2>1, <2>2, Freed, Acting
<1> QED
  BY <1>2, <1>3, <1>4

LEMMA PageActs ==
  ASSUME OfferInv, NEW h \in Handler,
         Offers!Open(h) \/ Offers!RecordView(h) \/ Offers!RecordResponse(h)
  PROVE  OfferInv' /\ \A p \in Offer : Decided(x1[p]) => x1'[p].status = x1[p].status
<1> DEFINE o == x2[h].offer
<1>1. /\ x2[h] \in OfferRequest /\ Fit(x2[h]) /\ UNCHANGED <<x3, x4>> /\ x3 \subseteq Offer
      /\ x1 \in [Offer -> OfferRow] /\ x4 \in Nat
  BY DEF Offers!Open, Offers!RecordView, Offers!RecordResponse, OfferInv
<1>2. CASE Offers!Open(h)
  <2>1. PICK p \in Offer, reply \in {"none"} \cup Offers!Answer :
          x2' = [x2 EXCEPT ![h] = [at |-> IF reply = "none" THEN "view" ELSE "reply",
                                   op |-> "page", offer |-> p, status |-> reply]]
    BY <1>2 DEF Offers!Open
  <2> DEFINE a == [at |-> IF reply = "none" THEN "view" ELSE "reply",
                   op |-> "page", offer |-> p, status |-> reply]
  <2>2. a \in OfferRequest
    BY DEF OfferRequest, Offers!Answer, Offers!Manual
  <2>3. Fit(a)
    BY DEF Fit
  <2>4. x2' = [x2 EXCEPT ![h] = a] /\ x1' = x1
    BY <1>2, <2>1 DEF Offers!Open
  <2> HIDE DEF a
  <2> QED
    BY <1>1, <2>2, <2>3, <2>4, Acting
<1>3. CASE Offers!RecordView(h)
  <2> DEFINE row == [x1[o] EXCEPT !.viewed = TRUE]
  <2>1. o \in Offer /\ Offers!End(h) /\ (x1' = x1 \/ x1' = [x1 EXCEPT ![o] = row])
    BY <1>1, <1>3 DEF Offers!RecordView, Offers!At, Fit
  <2>2. row \in OfferRow
    <3>1. x1[o] \in OfferRow
      BY <1>1, <2>1
    <3> QED
      BY <3>1 DEF OfferRow
  <2>3. row.status = x1[o].status /\ row.sent = x1[o].sent
    BY <1>1, <2>1 DEF OfferRow
  <2> HIDE DEF row
  <2>4. /\ x1' \in [Offer -> OfferRow]
        /\ \A p \in Offer : x1'[p] = x1[p] \/ (p = o /\ x1'[p] = row)
    BY <1>1, <2>1, <2>2
  <2>5. \A p \in Offer : x1'[p] = x1[p] \/ (Delivered(x1'[p]) => p \in x3')
    BY <1>1, <2>1, <2>3, <2>4 DEF OfferInv, Delivered
  <2>6. OfferInv'
    BY <1>1, <2>1, <2>4, <2>5, Freed, Acting
  <2> QED
    BY <2>3, <2>4, <2>6
<1>4. CASE Offers!RecordResponse(h)
  <2> DEFINE row == [x1[o] EXCEPT !.status = x2[h].status, !.replied = TRUE]
  <2>1. /\ o \in Offer /\ Offers!End(h) /\ x2[h].status \in Offers!Answer
        /\ \/ x1' = x1
           \/ x1[o].status \in {"sent", "sending"} /\ x1[o].sent # 0 /\ Offers!Save(o, row)
    BY <1>1, <1>4 DEF Offers!RecordResponse, Offers!At, Fit, Offers!Reached, Offers!Null
  <2>2. row \in OfferRow
    BY <1>1, <2>1 DEF OfferRow, Offers!Answer, Offers!Status, Offers!Manual
  <2>3. row.status = x2[h].status /\ row.sent = x1[o].sent
    BY <1>1, <2>1 DEF OfferRow
  <2> HIDE DEF row
  <2>4. CASE x1' = x1
    BY <1>1, <2>1, <2>4, Freed, Acting
  <2>5. CASE x1[o].status \in {"sent", "sending"} /\ x1[o].sent # 0 /\ Offers!Save(o, row)
    <3>1. /\ x1' \in [Offer -> OfferRow] /\ x1'[o].sent = x1[o].sent
          /\ \A p \in Offer : p # o => x1'[p] = x1[p]
      BY <2>1, <2>2, <2>3, <2>5, Saving
    <3>2. o \in x3'
      BY <1>1, <2>1, <2>5 DEF OfferInv, Delivered
    <3>3. OfferInv'
      BY <1>1, <2>1, <3>1, <3>2, Freed, Acting
    <3>4. ~Decided(x1[o])
      BY <2>5 DEF Decided, Offers!Answer
    <3> QED
      BY <3>1, <3>3, <3>4
  <2> QED
    BY <2>1, <2>4, <2>5
<1> QED
  BY <1>2, <1>3, <1>4

\* Every step keeps the invariant, and what is decided stands unless an admin's request changes it.
LEMMA OfferSteps ==
  ASSUME OfferInv, [Offers!Next]_(Offers!offerVars)
  PROVE  OfferInv' /\ Offers!DecisionStands
<1> DEFINE ByAdmin == \E h \in Handler : Offers!UpdateStatus(h) \/ Offers!DeleteOffer(h)
           Standing == \A p \in Offer : Decided(x1[p]) => x1'[p].status = x1[p].status
<1>1. SUFFICES OfferInv' /\ (Standing \/ ByAdmin)
  BY DEF Offers!DecisionStands, Decided
<1>2. ASSUME NEW h \in Handler, Offers!AdminStep(h) PROVE OfferInv' /\ (Standing \/ ByAdmin)
  BY <1>2, SubmitActs, ExpireActs, ReadRowActs, ClaimActs, AdminActs, MailActs, RecordActs
  DEF Offers!AdminStep
<1>3. ASSUME NEW h \in Handler, Offers!PageStep(h) PROVE OfferInv' /\ Standing
  BY <1>3, PageActs DEF Offers!PageStep
<1>4. CASE Offers!Restart
  <2>1. Offers!Free \in OfferRequest /\ \A h \in Handler : (Fit(Offers!Free))'
    BY DEF Offers!Free, OfferRequest, Fit
  <2>2. x2' = [h \in Handler |-> Offers!Free] /\ UNCHANGED <<x1, x3, x4>>
    BY <1>4 DEF Offers!Restart
  <2>3. x2' \in [Handler -> OfferRequest] /\ \A h \in Handler : x2'[h] = Offers!Free
    BY <2>1, <2>2
  <2>4. \A h \in Handler : (Fit(x2[h]))'
    BY <2>3 DEF Fit, Offers!Free
  <2> QED
    BY <2>2, <2>3, <2>4 DEF OfferInv
<1>5. CASE UNCHANGED <<x1, x2, x3>> /\ x4' \in Nat \ {0}
  BY <1>5 DEF OfferInv, Fit
<1>6. CASE Offers!Tick \/ UNCHANGED Offers!offerVars
  <2>1. x4 \in Nat \ {0}
    BY DEF OfferInv
  <2> QED
    BY <1>5, <1>6, <2>1 DEF Offers!Tick, Offers!offerVars
<1> QED
  BY <1>2, <1>3, <1>4, <1>6 DEF Offers!Next

LEMMA OfferInvariant == ServicesSpec => [](part = "offers" => OfferInv)
<1>1. ServicesInit => (part = "offers" => OfferInv)
  BY OffersStart DEF ServicesInit
<1>2. (part = "offers" => OfferInv) /\ [ServicesNext]_vars => (part = "offers" => OfferInv)'
  <2> SUFFICES ASSUME part' = "offers", part = "offers" => OfferInv, [ServicesNext]_vars
      PROVE  OfferInv'
    OBVIOUS
  <2>1. part = "offers" /\ [Offers!Next]_(Offers!offerVars)
    BY DEF ServicesNext, vars, Offers!offerVars
  <2> QED
    BY <2>1, OfferSteps
<1> QED
  BY <1>1, <1>2, PTL DEF ServicesSpec

\* A candidate's answer and a withdrawal are changed by an admin's request alone, and an offer is
\* shown as sent or answered only if its mail was taken, whatever fails, is cut off or is recorded
\* late.
THEOREM DecisionsStand == ServicesSpec => DecisionStands
<1>1. OfferInv => Offers!SentWasMailed
  BY DEF OfferInv, Delivered, Offers!SentWasMailed
<1>2. (part = "offers" => OfferInv) /\ [ServicesNext]_vars
        => [part = "offers" => Offers!DecisionStands /\ (Offers!SentWasMailed)']_vars
  <2> SUFFICES ASSUME OfferInv, part = "offers", ServicesNext
      PROVE  Offers!DecisionStands /\ (Offers!SentWasMailed)'
    OBVIOUS
  <2>1. Offers!Next
    BY DEF ServicesNext
  <2>2. OfferInv' /\ Offers!DecisionStands
    BY <2>1, OfferSteps
  <2>3. (Offers!SentWasMailed)'
    BY <2>2 DEF OfferInv, Delivered, Offers!SentWasMailed
  <2> QED
    BY <2>2, <2>3
<1> QED
  BY <1>2, OfferInvariant, PTL DEF ServicesSpec, DecisionStands

-------------------------------------------------------------------------------
(* The questions that wait for a digest: Notifications *)

\* A set of numbers has a least one, and a greatest one if it is bounded.
LEMMA LeastNumber ==
  ASSUME NEW T, T \subseteq Nat, T # {}
  PROVE  \E m \in T : \A n \in T : m <= n
<1> DEFINE R == OpToRel(<, Nat)
<1>1. IsWellFoundedOn(R, Nat)
  BY NatLessThanWellFounded
<1>2. \A m, n \in Nat : <<m, n>> \in R <=> m < n
  BY DEF OpToRel
<1> HIDE DEF R
<1>3. PICK m \in T : \A n \in T : ~ (<<n, m>> \in R)
  BY <1>1, WFMin
<1>4. ASSUME NEW n \in T PROVE m <= n
  <2>1. m \in Nat /\ n \in Nat /\ ~ (n < m)
    BY <1>2, <1>3
  <2> QED
    BY <2>1
<1> QED
  BY <1>4

LEMMA GreatestNumber ==
  ASSUME NEW T, T \subseteq Nat, T # {}, NEW bound \in Nat, \A n \in T : n <= bound
  PROVE  \E m \in T : \A n \in T : n <= m
<1> DEFINE U == {bound - n : n \in T}
<1>1. \A n \in T : n \in Nat /\ n <= bound /\ bound - n \in Nat
  OBVIOUS
<1>2. U \subseteq Nat /\ U # {}
  BY <1>1
<1>3. PICK u \in U : \A v \in U : u <= v
  BY <1>2, LeastNumber
<1>4. PICK m \in T : u = bound - m
  OBVIOUS
<1>5. ASSUME NEW n \in T PROVE n <= m
  <2>1. bound - m <= bound - n
    BY <1>3, <1>4
  <2> QED
    BY <1>1, <2>1
<1> QED
  BY <1>5

NoticeRow == [print: Query, count: Nat, seen: Nat, status: {"pending", "sent"}]
WriterType == [at: {"idle", "record"}, print: Query \cup {"none"}, clock: Nat]
DigestType == [at: {"idle", "send", "mark"}, ids: SUBSET Nat]

SentWasTold == \A i \in 1..Len(x1) : x1[i].status = "sent" => i \in x5

\* A row that waits, and that its question would be added to.
Open(i) == x1[i].status = "pending" /\ x1[i].seen + DedupWindow >= x7

OneEach ==
  \A i, j \in 1..Len(x1) : Open(i) /\ Open(j) /\ x1[i].print = x1[j].print => i = j

\* Clocks that were read are past, and a digest marks what its mail told.
NoticeInv ==
  /\ x1 \in Seq(NoticeRow) /\ x2 \in Seq(Query) /\ x3 \in WriterType
  /\ x4 \in [Digest -> DigestType] /\ x7 \in Nat
  /\ x3.at = "record" => x3.print \in Query /\ x3.clock <= x7
  /\ \A i \in 1..Len(x1) : x1[i].seen <= x7
  /\ \A g \in Digest : x4[g].at = "mark" => x4[g].ids \subseteq x5
  /\ SentWasTold /\ OneEach

LEMMA NoticeNumbers == DedupWindow \in Nat
BY NoticeConstants DEF Notify!NotificationsAssumption

LEMMA NoticeRows ==
  ASSUME NoticeInv
  PROVE  /\ Len(x1) \in Nat
         /\ \A i \in 1..Len(x1) : x1[i] \in NoticeRow /\ x1[i].seen \in Nat /\ x1[i].seen <= x7
<1>1. Len(x1) \in Nat /\ \A i \in 1..Len(x1) : x1[i] \in NoticeRow
  BY LenProperties, ElementOfSeq DEF NoticeInv
<1> QED
  BY <1>1 DEF NoticeInv, NoticeRow

\* Of some rows, one was seen last; of those seen at the same time, the one added last counts.
LEMMA LatestIsLast ==
  ASSUME NoticeInv, NEW ids, ids \subseteq 1..Len(x1), ids # {}
  PROVE  /\ Notify!Latest(ids) \in ids
         /\ \A j \in ids : x1[j].seen <= x1[Notify!Latest(ids)].seen
<1>1. /\ x7 \in Nat /\ Len(x1) \in Nat
      /\ \A i \in ids : i \in Nat /\ i <= Len(x1) /\ x1[i].seen \in Nat /\ x1[i].seen <= x7
  BY NoticeRows DEF NoticeInv
<1> DEFINE T == {x1[i].seen : i \in ids}
<1>2. PICK m \in T : \A n \in T : n <= m
  <2>1. T \subseteq Nat /\ T # {} /\ \A n \in T : n <= x7
    BY <1>1
  <2> HIDE DEF T
  <2> QED
    BY <1>1, <2>1, GreatestNumber
<1> DEFINE J == {i \in ids : x1[i].seen = m}
<1>3. PICK l \in J : \A j \in J : j <= l
  <2>1. J \subseteq Nat /\ J # {} /\ \A j \in J : j <= Len(x1)
    BY <1>1
  <2> HIDE DEF J
  <2> QED
    BY <1>1, <2>1, GreatestNumber
<1> DEFINE Last(i) == \A j \in ids : \/ x1[j].seen < x1[i].seen
                                     \/ x1[j].seen = x1[i].seen /\ j <= i
<1>4. l \in ids /\ Last(l)
  <2>1. l \in ids /\ x1[l].seen = m
    OBVIOUS
  <2>2. ASSUME NEW j \in ids PROVE x1[j].seen < m \/ (x1[j].seen = m /\ j <= l)
    <3>1. x1[j].seen <= m
      BY <1>2
    <3>2. CASE x1[j].seen = m
      BY <1>3, <3>2
    <3>3. CASE x1[j].seen # m
      BY <1>1, <2>1, <3>1, <3>3
    <3> QED
      BY <3>2, <3>3
  <2> QED
    BY <2>1, <2>2
<1>5. Notify!Latest(ids) = CHOOSE i \in ids : Last(i)
  BY DEF Notify!Latest
<1> HIDE DEF Last
<1>6. PICK p \in ids : p = Notify!Latest(ids) /\ Last(p)
  BY <1>4, <1>5
<1>7. ASSUME NEW j \in ids PROVE x1[j].seen <= x1[p].seen
  <2>1. x1[j].seen \in Nat /\ x1[p].seen \in Nat
    BY <1>1
  <2>2. x1[j].seen < x1[p].seen \/ x1[j].seen = x1[p].seen
    BY <1>6 DEF Last
  <2> QED
    BY <2>1, <2>2
<1> QED
  BY <1>6, <1>7

LEMMA NoticesStart == Notify!Init => NoticeInv
<1> SUFFICES ASSUME Notify!Init PROVE NoticeInv
  OBVIOUS
<1>1. /\ x1 = <<>> /\ x2 = <<>> /\ x3 = Notify!Idle /\ x4 = [g \in Digest |-> Notify!Rest]
      /\ x7 = 1
  BY DEF Notify!Init
<1>2. x1 \in Seq(NoticeRow) /\ x2 \in Seq(Query) /\ Len(x1) = 0
  BY <1>1
<1>3. Notify!Idle \in WriterType /\ Notify!Idle.at = "idle"
  BY DEF Notify!Idle, WriterType
<1>4. Notify!Rest \in DigestType /\ Notify!Rest.at = "idle"
  BY DEF Notify!Rest, DigestType
<1>5. SentWasTold /\ OneEach
  BY <1>2 DEF SentWasTold, OneEach
<1> QED
  BY <1>1, <1>2, <1>3, <1>4, <1>5 DEF NoticeInv

\* Steps that leave the rows as they are: time may pass, more may be told.
LEMMA RowsStay ==
  ASSUME NoticeInv, x1' = x1, x2' \in Seq(Query), x3' \in WriterType,
         x3'.at = "record" => x3'.print \in Query /\ x3'.clock <= x7',
         x4' \in [Digest -> DigestType],
         \A g \in Digest : x4'[g].at = "mark" => x4'[g].ids \subseteq x5',
         x5 \subseteq x5', x7' \in Nat, x7 <= x7'
  PROVE  NoticeInv'
<1>1. x7 \in Nat /\ \A i \in 1..Len(x1) : x1[i].seen \in Nat /\ x1[i].seen <= x7
  BY NoticeRows DEF NoticeInv
<1>2. \A i \in 1..Len(x1) : x1[i].seen <= x7'
  BY <1>1
<1>3. ASSUME NEW i \in 1..Len(x1), (Open(i))' PROVE Open(i)
  BY <1>1, <1>3, NoticeNumbers DEF Open
<1>4. OneEach'
  BY <1>3 DEF NoticeInv, OneEach
<1>5. SentWasTold'
  BY DEF NoticeInv, SentWasTold
<1> QED
  BY <1>2, <1>4, <1>5 DEF NoticeInv

\* A question is written to the row that waits for it, if there is one in its window: whichever
\* rows of it are still open, that row is the one seen last.
LEMMA RecordAgain ==
  ASSUME NoticeInv, x3.at = "record", x3' = Notify!Idle, UNCHANGED <<x2, x4, x5, x7>>,
         NEW l \in 1..Len(x1), x1[l].status = "pending", x1[l].print = x3.print,
         \A j \in 1..Len(x1) :
           x1[j].status = "pending" /\ x1[j].print = x3.print /\ x1[j].seen + DedupWindow >= x3.clock
             => x1[j].seen <= x1[l].seen,
         x1' = [x1 EXCEPT ![l].count = @ + 1, ![l].seen = x3.clock]
  PROVE  NoticeInv'
<1> DEFINE row == [x1[l] EXCEPT !.count = @ + 1, !.seen = x3.clock]
<1>1. /\ x7 \in Nat /\ x1 \in Seq(NoticeRow) /\ Len(x1) \in Nat /\ DOMAIN x1 = 1..Len(x1)
      /\ \A i \in 1..Len(x1) : x1[i] \in NoticeRow /\ x1[i].seen \in Nat /\ x1[i].seen <= x7
      /\ x3 \in WriterType /\ x3.clock <= x7
  BY NoticeRows, LenProperties DEF NoticeInv
<1>2. x3.clock \in Nat
  BY <1>1 DEF WriterType
<1>3. PICK n \in Nat : n = x1[l].count + 1
  BY <1>1 DEF NoticeRow
<1>4. row \in NoticeRow
  BY <1>1, <1>2, <1>3 DEF NoticeRow
<1>5. row.seen = x3.clock /\ row.print = x1[l].print /\ row.status = "pending"
  BY <1>1 DEF NoticeRow
<1>6. x1' = [x1 EXCEPT ![l] = row]
  BY <1>1 DEF NoticeRow
<1> HIDE DEF row
<1>7. /\ x1' \in Seq(NoticeRow) /\ Len(x1') = Len(x1) /\ x1'[l] = row
      /\ \A j \in 1..Len(x1) : j # l => x1'[j] = x1[j]
  <2> DEFINE s == [x1 EXCEPT ![l] = row]
  <2>1. /\ s \in Seq(NoticeRow) /\ Len(s) = Len(x1)
        /\ \A j \in 1..Len(x1) : s[j] = IF j = l THEN row ELSE x1[j]
    BY <1>1, <1>4, ExceptSeq
  <2>2. x1' = s
    BY <1>6
  <2> HIDE DEF s
  <2> QED
    BY <2>1, <2>2
<1>8. ASSUME NEW j \in 1..Len(x1), j # l, (Open(j))', x1'[j].print = row.print,
             row.seen + DedupWindow >= x7
      PROVE  FALSE
  <2>1. x1[j].status = "pending" /\ x1[j].seen + DedupWindow >= x7 /\ x1[j].print = x1[l].print
    BY <1>5, <1>7, <1>8 DEF Open
  <2>2. x1[j].seen + DedupWindow >= x3.clock
    BY <1>1, <1>2, <2>1, NoticeNumbers
  <2>3. x1[j].seen <= x1[l].seen
    BY <2>1, <2>2
  <2>4. x1[l].seen + DedupWindow >= x7
    BY <1>1, <2>1, <2>3, NoticeNumbers
  <2> QED
    BY <1>8, <2>1, <2>4 DEF NoticeInv, OneEach, Open
<1>9. OneEach'
  <2>1. ASSUME NEW i \in 1..Len(x1), NEW j \in 1..Len(x1), (Open(i))', (Open(j))',
               x1'[i].print = x1'[j].print
        PROVE  i = j
    <3>1. CASE i = l /\ j # l
      BY <1>7, <1>8, <2>1, <3>1 DEF Open
    <3>2. CASE i # l /\ j = l
      BY <1>7, <1>8, <2>1, <3>2 DEF Open
    <3>3. CASE i # l /\ j # l
      <4>1. Open(i) /\ Open(j)
        BY <1>7, <2>1, <3>3 DEF Open
      <4> QED
        BY <1>7, <2>1, <3>3, <4>1 DEF NoticeInv, OneEach
    <3> QED
      BY <3>1, <3>2, <3>3
  <2> QED
    BY <1>7, <2>1 DEF OneEach
<1>10. SentWasTold'
  BY <1>5, <1>7 DEF NoticeInv, SentWasTold
<1>11. \A i \in 1..Len(x1') : x1'[i].seen <= x7'
  BY <1>1, <1>5, <1>7
<1>12. Notify!Idle \in WriterType /\ Notify!Idle.at = "idle"
  BY DEF Notify!Idle, WriterType
<1> QED
  BY <1>7, <1>9, <1>10, <1>11, <1>12 DEF NoticeInv

\* A question without an open row gets one.
LEMMA RecordAnew ==
  ASSUME NoticeInv, x3.at = "record", x3' = Notify!Idle, UNCHANGED <<x2, x4, x5, x7>>,
         \A j \in 1..Len(x1) :
           ~(x1[j].status = "pending" /\ x1[j].print = x3.print
             /\ x1[j].seen + DedupWindow >= x3.clock),
         x1' = Append(x1, [print |-> x3.print, count |-> 1, seen |-> x3.clock, status |-> "pending"])
  PROVE  NoticeInv'
<1> DEFINE row == [print |-> x3.print, count |-> 1, seen |-> x3.clock, status |-> "pending"]
           l == Len(x1) + 1
<1>1. /\ x7 \in Nat /\ x1 \in Seq(NoticeRow) /\ Len(x1) \in Nat
      /\ \A i \in 1..Len(x1) : x1[i] \in NoticeRow /\ x1[i].seen \in Nat /\ x1[i].seen <= x7
      /\ x3 \in WriterType /\ x3.print \in Query /\ x3.clock <= x7
  BY NoticeRows DEF NoticeInv
<1>2. x3.clock \in Nat
  BY <1>1 DEF WriterType
<1>3. row \in NoticeRow
  BY <1>1, <1>2 DEF NoticeRow
<1>4. row.seen = x3.clock /\ row.print = x3.print /\ row.status = "pending"
  OBVIOUS
<1>5. x1' = Append(x1, row)
  OBVIOUS
<1> HIDE DEF row
<1>6. /\ x1' \in Seq(NoticeRow) /\ Len(x1') = l /\ x1'[l] = row
      /\ \A j \in 1..Len(x1) : x1'[j] = x1[j]
      /\ \A j \in 1..Len(x1') : j = l \/ j \in 1..Len(x1)
  BY <1>1, <1>3, <1>5, AppendProperties
<1>7. ASSUME NEW j \in 1..Len(x1), (Open(j))', x1'[j].print = x3.print
      PROVE  FALSE
  <2>1. x1[j].status = "pending" /\ x1[j].seen + DedupWindow >= x7 /\ x1[j].print = x3.print
    BY <1>6, <1>7 DEF Open
  <2>2. x1[j].seen + DedupWindow >= x3.clock
    BY <1>1, <1>2, <2>1, NoticeNumbers
  <2> QED
    BY <2>1, <2>2
<1>8. OneEach'
  <2>1. ASSUME NEW i \in 1..Len(x1'), NEW j \in 1..Len(x1'), (Open(i))', (Open(j))',
               x1'[i].print = x1'[j].print
        PROVE  i = j
    <3>1. CASE i = l /\ j # l
      BY <1>4, <1>6, <1>7, <2>1, <3>1
    <3>2. CASE i # l /\ j = l
      BY <1>4, <1>6, <1>7, <2>1, <3>2
    <3>3. CASE i # l /\ j # l
      <4>1. i \in 1..Len(x1) /\ j \in 1..Len(x1)
        BY <1>6, <2>1, <3>3
      <4>2. Open(i) /\ Open(j)
        BY <1>6, <2>1, <4>1 DEF Open
      <4> QED
        BY <1>6, <2>1, <4>1, <4>2 DEF NoticeInv, OneEach
    <3> QED
      BY <3>1, <3>2, <3>3
  <2> QED
    BY <2>1 DEF OneEach
<1>9. SentWasTold'
  BY <1>4, <1>6 DEF NoticeInv, SentWasTold
<1>10. \A i \in 1..Len(x1') : x1'[i].seen <= x7'
  BY <1>1, <1>4, <1>6
<1>11. Notify!Idle \in WriterType /\ Notify!Idle.at = "idle"
  BY DEF Notify!Idle, WriterType
<1> QED
  BY <1>6, <1>8, <1>9, <1>10, <1>11 DEF NoticeInv

LEMMA RecordKeeps ==
  ASSUME NoticeInv, Notify!Record
  PROVE  NoticeInv'
<1> DEFINE again == Notify!Again(x3.print, x3.clock)
<1>1. \A j : j \in again <=> /\ j \in 1..Len(x1) /\ x1[j].status = "pending"
                             /\ x1[j].print = x3.print /\ x1[j].seen + DedupWindow >= x3.clock
  BY DEF Notify!Again, Notify!Pending, Notify!SeenSince, Notify!Id
<1>2. x3.at = "record" /\ x3' = Notify!Idle /\ UNCHANGED <<x2, x4, x5, x7>>
  BY DEF Notify!Record
<1>3. CASE again # {}
  <2>1. Notify!Latest(again) \in again
        /\ \A j \in again : x1[j].seen <= x1[Notify!Latest(again)].seen
    <3>1. again \subseteq 1..Len(x1)
      BY <1>1
    <3> HIDE DEF again
    <3> QED
      BY <1>3, <3>1, LatestIsLast
  <2>2. x1' = [x1 EXCEPT ![Notify!Latest(again)].count = @ + 1,
                         ![Notify!Latest(again)].seen = x3.clock]
    BY <1>3 DEF Notify!Record
  <2>3. PICK l \in again : l = Notify!Latest(again)
    BY <2>1
  <2> HIDE DEF again
  <2>4. x1' = [x1 EXCEPT ![l].count = @ + 1, ![l].seen = x3.clock]
    BY <2>2, <2>3
  <2>5. l \in 1..Len(x1) /\ x1[l].status = "pending" /\ x1[l].print = x3.print
    BY <1>1, <2>3
  <2>6. \A j \in 1..Len(x1) :
          x1[j].status = "pending" /\ x1[j].print = x3.print
          /\ x1[j].seen + DedupWindow >= x3.clock => x1[j].seen <= x1[l].seen
    BY <1>1, <2>1, <2>3
  <2> QED
    BY <1>2, <2>4, <2>5, <2>6, RecordAgain
<1>4. CASE again = {}
  <2>1. x1' = Append(x1, [print |-> x3.print, count |-> 1, seen |-> x3.clock,
                          status |-> "pending"])
    BY <1>4 DEF Notify!Record
  <2>2. \A j \in 1..Len(x1) :
           ~(x1[j].status = "pending" /\ x1[j].print = x3.print
             /\ x1[j].seen + DedupWindow >= x3.clock)
    BY <1>1, <1>4
  <2> HIDE DEF again
  <2> QED
    BY <1>2, <2>1, <2>2, RecordAnew
<1> QED
  BY <1>3, <1>4

\* What a digest marks, its mail told.
LEMMA MarkKeeps ==
  ASSUME NoticeInv, NEW g \in Digest, Notify!MarkSent(g)
  PROVE  NoticeInv'
<1> DEFINE ids == x4[g].ids
           new(i) == IF i \in ids THEN [x1[i] EXCEPT !.status = "sent"] ELSE x1[i]
<1>1. /\ Len(x1) \in Nat /\ UNCHANGED <<x2, x3, x5, x7>> /\ x4' = [x4 EXCEPT ![g] = Notify!Rest]
      /\ ids \subseteq x5 /\ x7 \in Nat
      /\ \A i \in 1..Len(x1) : x1[i] \in NoticeRow /\ x1[i].seen <= x7
  BY NoticeRows DEF NoticeInv, Notify!MarkSent
<1>2. x1' = [i \in 1..Len(x1) |-> new(i)]
  BY DEF Notify!MarkSent, Notify!Sent, Notify!Id
<1>3. ASSUME NEW i \in 1..Len(x1)
      PROVE  /\ new(i) \in NoticeRow /\ new(i).seen = x1[i].seen /\ new(i).print = x1[i].print
             /\ new(i).status = "pending" => x1[i].status = "pending"
             /\ new(i).status = "sent" => x1[i].status = "sent" \/ i \in ids
  <2>1. x1[i] \in NoticeRow
    BY <1>1
  <2>2. CASE i \in ids
    BY <2>1, <2>2 DEF NoticeRow
  <2>3. CASE i \notin ids
    BY <2>1, <2>3 DEF NoticeRow
  <2> QED
    BY <2>2, <2>3
<1> HIDE DEF new
<1>4. x1' \in [1..Len(x1) -> NoticeRow] /\ \A i \in 1..Len(x1) : x1'[i] = new(i)
  BY <1>2, <1>3
<1>5. x1' \in Seq(NoticeRow) /\ Len(x1') = Len(x1)
  BY <1>1, <1>4
<1>6. SentWasTold'
  BY <1>1, <1>3, <1>4, <1>5 DEF NoticeInv, SentWasTold
<1>7. OneEach'
  <2>1. ASSUME NEW i \in 1..Len(x1), (Open(i))' PROVE Open(i)
    BY <1>1, <1>3, <1>4, <2>1 DEF Open
  <2>2. ASSUME NEW i \in 1..Len(x1), NEW j \in 1..Len(x1), (Open(i))', (Open(j))',
               x1'[i].print = x1'[j].print
        PROVE  i = j
    BY <1>3, <1>4, <2>1, <2>2 DEF NoticeInv, OneEach
  <2> QED
    BY <1>5, <2>2 DEF OneEach
<1>8. \A i \in 1..Len(x1') : x1'[i].seen <= x7'
  BY <1>1, <1>3, <1>4, <1>5
<1>9. Notify!Rest \in DigestType /\ Notify!Rest.at = "idle"
  BY DEF Notify!Rest, DigestType
<1>10. x4' \in [Digest -> DigestType]
       /\ \A f \in Digest : x4'[f].at = "mark" => x4'[f].ids \subseteq x5'
  BY <1>1, <1>9 DEF NoticeInv
<1> QED
  BY <1>1, <1>5, <1>6, <1>7, <1>8, <1>10 DEF NoticeInv

\* The thread and its queue.
LEMMA QueueKeeps ==
  ASSUME NoticeInv,
         \/ \E p \in Query : Notify!Notify(p)
         \/ Notify!Take \/ Notify!RecordFails \/ Notify!Restart
  PROVE  NoticeInv'
<1>1. /\ UNCHANGED <<x1, x4, x5, x7>> /\ x7 \in Nat /\ x2 \in Seq(Query) /\ x3 \in WriterType
      /\ x4 \in [Digest -> DigestType] /\ \A g \in Digest : x4[g].at = "mark" => x4[g].ids \subseteq x5
      /\ x3.at = "record" => x3.print \in Query /\ x3.clock <= x7
  BY DEF Notify!Notify, Notify!Take, Notify!RecordFails, Notify!Restart, NoticeInv
<1>2. Notify!Idle \in WriterType /\ Notify!Idle.at = "idle" /\ <<>> \in Seq(Query)
  BY DEF Notify!Idle, WriterType
<1>3. CASE \E p \in Query : Notify!Notify(p)
  <2>1. x3' = x3 /\ x2' \in Seq(Query)
    BY <1>1, <1>3 DEF Notify!Notify
  <2> QED
    BY <1>1, <2>1, RowsStay
<1>4. CASE Notify!Take
  <2> DEFINE w == [at |-> "record", print |-> Head(x2), clock |-> x7]
  <2>1. x3' = w /\ x2' = Tail(x2) /\ x2 # <<>>
    BY <1>4 DEF Notify!Take
  <2>2. Head(x2) \in Query /\ Tail(x2) \in Seq(Query)
    BY <1>1, <2>1, HeadTailProperties
  <2>3. w \in WriterType /\ w.print \in Query /\ w.clock <= x7
    BY <1>1, <2>2 DEF WriterType
  <2> HIDE DEF w
  <2> QED
    BY <1>1, <2>1, <2>2, <2>3, RowsStay
<1>5. CASE Notify!RecordFails \/ Notify!Restart
  <2>1. x3' = Notify!Idle /\ x2' \in Seq(Query)
    BY <1>1, <1>2, <1>5 DEF Notify!RecordFails, Notify!Restart
  <2> QED
    BY <1>1, <1>2, <2>1, RowsStay
<1> QED
  BY <1>3, <1>4, <1>5

\* A digest is over, or goes on with what it listed once its mail told of it.
LEMMA DigestKeeps ==
  ASSUME NoticeInv, NEW g \in Digest, Notify!List(g) \/ Notify!Send(g)
  PROVE  NoticeInv'
<1>1. /\ UNCHANGED <<x1, x2, x3, x7>> /\ x7 \in Nat /\ x2 \in Seq(Query) /\ x3 \in WriterType
      /\ x4 \in [Digest -> DigestType] /\ \A f \in Digest : x4[f].at = "mark" => x4[f].ids \subseteq x5
      /\ x3.at = "record" => x3.print \in Query /\ x3.clock <= x7
  BY DEF Notify!List, Notify!Send, NoticeInv
<1>2. Notify!Rest \in DigestType /\ Notify!Rest.at = "idle"
  BY DEF Notify!Rest, DigestType
<1>3. PICK d \in DigestType : /\ x4' = [x4 EXCEPT ![g] = d] /\ x5 \subseteq x5'
                              /\ d.at = "mark" => d.ids \subseteq x5'
  <2>1. CASE Notify!List(g)
    <3>1. PICK ids \in SUBSET Notify!Listable :
            x4' = [x4 EXCEPT ![g] = IF ids = {} THEN Notify!Rest ELSE [at |-> "send", ids |-> ids]]
      BY <2>1 DEF Notify!List
    <3>2. Notify!Listable \subseteq Nat
      <4>1. 1..Len(x1) \subseteq Nat
        BY NoticeRows
      <4> QED
        BY <4>1 DEF Notify!Listable, Notify!Pending, Notify!Id
    <3>3. [at |-> "send", ids |-> ids] \in DigestType
      BY <3>2 DEF DigestType
    <3>4. x5' = x5
      BY <2>1 DEF Notify!List
    <3>5. CASE ids = {}
      BY <1>2, <3>1, <3>4, <3>5
    <3>6. CASE ids # {}
      BY <3>1, <3>3, <3>4, <3>6
    <3> QED
      BY <3>5, <3>6
  <2>2. CASE Notify!Send(g)
    <3>1. CASE x4' = [x4 EXCEPT ![g] = Notify!Rest] /\ x5 \subseteq x5'
      BY <1>2, <3>1
    <3>2. CASE x4' = [x4 EXCEPT ![g].at = "mark"] /\ x5' = x5 \cup x4[g].ids
      <4> DEFINE d == [x4[g] EXCEPT !.at = "mark"]
      <4>1. x4[g] \in DigestType
        BY <1>1
      <4>2. d \in DigestType /\ d.ids = x4[g].ids
        BY <4>1 DEF DigestType
      <4>3. x4' = [x4 EXCEPT ![g] = d]
        BY <1>1, <3>2
      <4> HIDE DEF d
      <4> QED
        BY <3>2, <4>2, <4>3
    <3> QED
      BY <2>2, <3>1, <3>2 DEF Notify!Send
  <2> QED
    BY <2>1, <2>2
<1>4. x4' \in [Digest -> DigestType]
      /\ \A f \in Digest : x4'[f].at = "mark" => x4'[f].ids \subseteq x5'
  <2>1. x4' \in [Digest -> DigestType]
    BY <1>1, <1>3
  <2>2. ASSUME NEW f \in Digest, x4'[f].at = "mark" PROVE x4'[f].ids \subseteq x5'
    <3>1. CASE f = g
      BY <1>1, <1>3, <2>2, <3>1
    <3>2. CASE f # g
      BY <1>1, <1>3, <2>2, <3>2
    <3> QED
      BY <3>1, <3>2
  <2> QED
    BY <2>1, <2>2
<1> QED
  BY <1>1, <1>3, <1>4, RowsStay

LEMMA NoticeSteps ==
  ASSUME NoticeInv, [Notify!Next]_(Notify!notifyVars)
  PROVE  NoticeInv'
<1>1. CASE Notify!Tick \/ UNCHANGED Notify!notifyVars
  <2>1. UNCHANGED <<x1, x2, x3, x4, x5>> /\ x7' \in Nat /\ x7 <= x7'
    BY <1>1 DEF Notify!Tick, Notify!notifyVars, NoticeInv
  <2>2. x3.at = "record" => x3.print \in Query /\ x3.clock <= x7'
    <3>1. x3.clock \in Nat
      BY DEF NoticeInv, WriterType
    <3> QED
      BY <2>1, <3>1 DEF NoticeInv
  <2>3. /\ x2 \in Seq(Query) /\ x3 \in WriterType /\ x4 \in [Digest -> DigestType]
        /\ \A g \in Digest : x4[g].at = "mark" => x4[g].ids \subseteq x5
    BY DEF NoticeInv
  <2> QED
    BY <2>1, <2>2, <2>3, RowsStay
<1> QED
  BY <1>1, QueueKeeps, RecordKeeps, DigestKeeps, MarkKeeps DEF Notify!Next

LEMMA NoticeInvariant == ServicesSpec => [](part = "notify" => NoticeInv)
<1>1. ServicesInit => (part = "notify" => NoticeInv)
  BY NoticesStart DEF ServicesInit
<1>2. (part = "notify" => NoticeInv) /\ [ServicesNext]_vars => (part = "notify" => NoticeInv)'
  <2> SUFFICES ASSUME part' = "notify", part = "notify" => NoticeInv, [ServicesNext]_vars
      PROVE  NoticeInv'
    OBVIOUS
  <2>1. part = "notify" /\ [Notify!Next]_(Notify!notifyVars)
    BY DEF ServicesNext, vars, From5, From7, Notify!notifyVars
  <2> QED
    BY <2>1, NoticeSteps
<1> QED
  BY <1>1, <1>2, PTL DEF ServicesSpec

\* A question leaves the list of the unanswered only if a delivered mail told of it, and has one
\* row that it can still be added to, however many digests run and whenever the process stops.
THEOREM OnlyToldLeaves == ServicesSpec => []OnlyToldLeave
<1>1. NoticeInv => Notify!OnlyToldLeave
  BY DEF NoticeInv, SentWasTold, OneEach, Open, Notify!OnlyToldLeave, Notify!Pending,
         Notify!SeenSince, Notify!Id
<1>2. (part = "notify" => NoticeInv) => OnlyToldLeave
  BY <1>1 DEF OnlyToldLeave
<1> QED
  BY <1>2, NoticeInvariant, PTL

-------------------------------------------------------------------------------
(* Chat sessions: ChatMemory *)

In(e, L) == \E p \in 1..Len(L) : L[p] = e

\* M is the end of D, after its first k.
Ends(M, D, k) == k \in 0..Len(D) /\ Len(M) = Len(D) - k /\ \A p \in 1..Len(M) : M[p] = D[k + p]

Distinct(D) == \A i, j \in 1..Len(D) : D[i] = D[j] => i = j

\* Of the first n of D, S has the newest that has words, and with one also each later one behind it.
Kept(S, D, n) ==
  \A j \in 1..n : D[j] \notin Wordless =>
    /\ (\A i \in j + 1..n : D[i] \in Wordless) => In(D[j], S)
    /\ \A i \in 1..j - 1 : D[i] \notin Wordless /\ In(D[i], S) =>
         \E p \in 1..Len(S) : S[p] = D[j] /\ \A l \in p..Len(S) : S[l] # D[i]

\* L is the lines of the first p of M.
Lined(L, M, p) ==
  /\ \A h \in 1..Len(L) : \E i \in 1..p : L[h] = M[i] /\ M[i] \notin Wordless
  /\ \A j \in 1..p : M[j] \notin Wordless =>
       \E h \in 1..Len(L) : L[h] = M[j] /\ \A l \in h..Len(L), i \in 1..j - 1 : L[l] # M[i]

\* What request q is about to move to the summary is the list's beginning; when it is about to be
\* trimmed away, the summary has it, and is not about to expire unless there is no word in it.
Shortens(q, M, D, k, n, timed) ==
  /\ q.at \in {"line", "roll"} => D = <<>> \/
       /\ Len(M) = q.over + MaxMessages /\ q.over > 0 /\ Len(q.rolled) <= q.over
       /\ \A i \in 1..Len(q.rolled) : q.rolled[i] = M[(q.over - Len(q.rolled)) + i]
       /\ Lined(q.lines, M, q.over - Len(q.rolled))
       /\ q.at = "roll" => Len(q.rolled) = 0 /\ Len(q.lines) > 0
  /\ q.at = "trim" => D = <<>> \/
       /\ Len(M) = q.over + MaxMessages /\ q.over > 0 /\ n = k + q.over
       /\ timed => \A i \in 1..q.over : M[i] \in Wordless

\* The list has what was said last, the summary the newest of what was said before and of the
\* beginning of the list that is over its length.
Remembers(M, S, D, q, timed) ==
  /\ M \in Seq(ChatMessage) /\ S \in Seq(ChatMessage) /\ D \in Seq(ChatMessage) /\ Distinct(D)
  /\ \E k, n \in 0..Len(D) :
       /\ k <= n /\ (n = k \/ n + MaxMessages <= k + Len(M))
       /\ Ends(M, D, k) /\ (k > 0 => Len(M) >= MaxMessages)
       /\ Kept(S, D, n) /\ Shortens(q, M, D, k, n, timed)

RequestOn(s) == IF x6.session = s THEN x6 ELSE Chat!NoRequest

SessionOK(s) == Remembers(x2[s], x3[s], x7[s], RequestOn(s), s \in x9["summary"])

\* A request is about a session, and one that pushes a message has a new one.
RequestOK ==
  /\ DOMAIN x6 = {"at", "session", "message", "over", "rolled", "lines"}
  /\ x6.over \in Nat /\ x6.rolled \in Seq(ChatMessage) /\ x6.lines \in Seq(ChatMessage)
  /\ x6.at # "end" => x6.session \in Session
  /\ x6.at = "push" => x6.message \in ChatMessage /\ \A s \in Session : ~In(x6.message, x7[s])

ChatInv ==
  /\ DOMAIN x2 = Session /\ DOMAIN x3 = Session /\ DOMAIN x7 = Session /\ DOMAIN x9 = Chat!Kind
  /\ RequestOK /\ \A s \in Session : SessionOK(s)

-------------------------------------------------------------------------------
(* Sequences of messages *)

LEMMA ToSetIsIn ==
  ASSUME NEW L \in Seq(ChatMessage), NEW e
  PROVE  e \in Chat!ToSet(L) <=> In(e, L)
<1>1. DOMAIN L = 1..Len(L)
  OBVIOUS
<1> QED BY <1>1 DEF Chat!ToSet, In

LEMMA Tails ==
  ASSUME NEW M \in Seq(ChatMessage), NEW c \in 0..Len(M)
  PROVE  /\ SubSeq(M, c + 1, Len(M)) \in Seq(ChatMessage)
         /\ Len(SubSeq(M, c + 1, Len(M))) = Len(M) - c
         /\ \A p \in 1..Len(M) - c : SubSeq(M, c + 1, Len(M))[p] = M[c + p]
<1> DEFINE M2 == SubSeq(M, c + 1, Len(M))
<1>1. Len(M) \in Nat /\ c \in Nat /\ c <= Len(M) /\ \A i \in (c + 1)..Len(M) : M[i] \in ChatMessage
  OBVIOUS
<1>2. /\ M2 \in Seq(ChatMessage)
      /\ Len(M2) = IF c + 1 <= Len(M) THEN Len(M) - (c + 1) + 1 ELSE 0
      /\ \A i \in 1..(Len(M) - (c + 1) + 1) : M2[i] = M[(c + 1) + i - 1]
  BY <1>1, SubSeqProperties
<1> HIDE DEF M2
<1>3. Len(M2) = Len(M) - c
  BY <1>1, <1>2
<1>4. ASSUME NEW p \in 1..Len(M) - c PROVE M2[p] = M[c + p]
  <2>1. p \in 1..(Len(M) - (c + 1) + 1) /\ (c + 1) + p - 1 = c + p
    BY <1>1
  <2> QED BY <1>2, <2>1
<1> QED BY <1>2, <1>3, <1>4 DEF M2

LEMMA Joined ==
  ASSUME NEW S \in Seq(ChatMessage), NEW L \in Seq(ChatMessage)
  PROVE  /\ S \o L \in Seq(ChatMessage) /\ Len(S \o L) = Len(S) + Len(L)
         /\ \A p \in 1..Len(S) : (S \o L)[p] = S[p]
         /\ \A p \in 1..Len(L) : (S \o L)[Len(S) + p] = L[p]
         /\ \A p \in 1..Len(S \o L) : p > Len(S) => p - Len(S) \in 1..Len(L) /\ (S \o L)[p] = L[p - Len(S)]
         /\ \A e : In(e, S \o L) <=> In(e, S) \/ In(e, L)
<1> DEFINE H == S \o L
<1>1. /\ H \in Seq(ChatMessage) /\ Len(H) = Len(S) + Len(L)
      /\ \A p \in 1..Len(S) : H[p] = S[p]
      /\ \A p \in 1..Len(L) : H[Len(S) + p] = L[p]
  BY ConcatProperties
<1> HIDE DEF H
<1>2. Len(S) \in Nat /\ Len(L) \in Nat
  OBVIOUS
<1>3. ASSUME NEW p \in 1..Len(H), p > Len(S)
      PROVE  p - Len(S) \in 1..Len(L) /\ H[p] = L[p - Len(S)]
  <2>1. p - Len(S) \in 1..Len(L) /\ Len(S) + (p - Len(S)) = p
    BY <1>1, <1>2, <1>3
  <2> QED BY <1>1, <2>1
<1>4. ASSUME NEW e, In(e, H) PROVE In(e, S) \/ In(e, L)
  <2>1. PICK p \in 1..Len(H) : H[p] = e
    BY <1>4 DEF In
  <2>2. CASE p > Len(S)
    BY <1>3, <2>1, <2>2 DEF In
  <2>3. CASE p <= Len(S)
    <3>1. p \in 1..Len(S)
      BY <1>1, <1>2, <2>3
    <3> QED BY <1>1, <2>1, <3>1 DEF In
  <2> QED BY <1>1, <1>2, <2>2, <2>3
<1>5. ASSUME NEW e, In(e, S) \/ In(e, L) PROVE In(e, H)
  <2>1. CASE In(e, S)
    <3>1. PICK p \in 1..Len(S) : S[p] = e
      BY <2>1 DEF In
    <3>2. p \in 1..Len(H)
      BY <1>1, <1>2
    <3> QED BY <1>1, <3>1, <3>2 DEF In
  <2>2. CASE In(e, L)
    <3>1. PICK p \in 1..Len(L) : L[p] = e
      BY <2>2 DEF In
    <3>2. Len(S) + p \in 1..Len(H)
      BY <1>1, <1>2
    <3> QED BY <1>1, <3>1, <3>2 DEF In
  <2> QED BY <1>5, <2>1, <2>2
<1> QED BY <1>1, <1>3, <1>4, <1>5 DEF H

-------------------------------------------------------------------------------
(* What a summary keeps *)

\* The lines of what follows in D are put at the end of S.
LEMMA KeptMore ==
  ASSUME NEW S \in Seq(ChatMessage), NEW L \in Seq(ChatMessage), NEW M \in Seq(ChatMessage),
         NEW D \in Seq(ChatMessage), NEW k \in Nat, NEW n \in Nat, NEW p \in Nat,
         Kept(S, D, n), Ends(M, D, k), Distinct(D), Lined(L, M, p),
         p <= Len(M), k <= n, n <= k + p
  PROVE  Kept(S \o L, D, k + p)
<1> DEFINE H == S \o L
<1>1. /\ Len(H) = Len(S) + Len(L) /\ \A h \in 1..Len(S) : H[h] = S[h]
      /\ \A h \in 1..Len(L) : H[Len(S) + h] = L[h]
      /\ \A h \in 1..Len(H) : h > Len(S) => h - Len(S) \in 1..Len(L) /\ H[h] = L[h - Len(S)]
      /\ \A e : In(e, H) <=> In(e, S) \/ In(e, L)
  BY Joined
<1> HIDE DEF H
<1>2. /\ Len(S) \in Nat /\ Len(L) \in Nat /\ Len(M) \in Nat /\ Len(D) \in Nat
      /\ k + Len(M) = Len(D) /\ k + p <= Len(D)
  <2>1. Len(S) \in Nat /\ Len(L) \in Nat /\ Len(M) \in Nat /\ Len(D) \in Nat
    OBVIOUS
  <2> QED BY <2>1 DEF Ends
<1>3. ASSUME NEW i \in 1..p PROVE k + i \in 1..Len(D) /\ M[i] = D[k + i]
  BY <1>2 DEF Ends
<1>4. ASSUME NEW h \in 1..Len(L) PROVE \E i \in 1..p : L[h] = D[k + i]
  BY <1>3 DEF Lined
\* A line is none of what was said before.
<1>5. ASSUME NEW i \in 1..k, NEW h \in 1..Len(L) PROVE L[h] # D[i]
  <2>1. PICK j \in 1..p : L[h] = D[k + j]
    BY <1>4
  <2>2. k + j \in 1..Len(D) /\ i \in 1..Len(D) /\ k + j # i
    BY <1>2, <1>3
  <2> QED BY <2>1, <2>2 DEF Distinct
<1>6. ASSUME NEW j \in 1..k + p, D[j] \notin Wordless, \A i \in j + 1..k + p : D[i] \in Wordless
      PROVE  In(D[j], H)
  <2>1. CASE j > k
    <3>1. j - k \in 1..p /\ k + (j - k) = j
      BY <1>2, <2>1
    <3>2. PICK h \in 1..Len(L) : L[h] = M[j - k]
      <4>1. M[j - k] \notin Wordless
        BY <1>3, <1>6, <3>1
      <4> QED BY <3>1, <4>1 DEF Lined
    <3>3. M[j - k] = D[j]
      BY <1>3, <3>1
    <3>4. In(D[j], L)
      BY <3>2, <3>3 DEF In
    <3> QED BY <1>1, <3>4
  <2>2. CASE j <= k
    <3>1. j \in 1..n /\ \A i \in j + 1..n : i \in j + 1..k + p
      BY <1>2, <2>2
    <3>2. In(D[j], S)
      BY <1>6, <3>1 DEF Kept
    <3> QED BY <1>1, <3>2
  <2> QED BY <1>2, <2>1, <2>2
<1>7. ASSUME NEW j \in 1..k + p, D[j] \notin Wordless, NEW i \in 1..j - 1, D[i] \notin Wordless, In(D[i], H)
      PROVE  \E h \in 1..Len(H) : H[h] = D[j] /\ \A l \in h..Len(H) : H[l] # D[i]
  <2>1. CASE j > k
    <3>1. j - k \in 1..p /\ k + (j - k) = j
      BY <1>2, <2>1
    <3>2. PICK h \in 1..Len(L) : L[h] = M[j - k] /\ \A l \in h..Len(L), g \in 1..(j - k) - 1 : L[l] # M[g]
      BY <1>3, <1>7, <3>1 DEF Lined
    <3>3. ASSUME NEW l \in h..Len(L) PROVE L[l] # D[i]
      <4>1. l \in 1..Len(L)
        BY <1>2
      <4>2. CASE i <= k
        <5>1. i \in 1..k
          BY <1>2, <4>2
        <5> QED BY <1>5, <4>1, <5>1
      <4>3. CASE i > k
        <5>1. i - k \in 1..(j - k) - 1 /\ i - k \in 1..p /\ k + (i - k) = i
          BY <1>2, <3>1, <4>3
        <5>2. L[l] # M[i - k]
          BY <3>2, <5>1
        <5> QED BY <1>3, <5>1, <5>2
      <4> QED BY <1>2, <4>2, <4>3
    <3>4. Len(S) + h \in 1..Len(H) /\ H[Len(S) + h] = D[j]
      <4>1. L[h] = D[j]
        BY <1>3, <3>1, <3>2
      <4> QED BY <1>1, <1>2, <4>1
    <3>5. ASSUME NEW l \in Len(S) + h..Len(H) PROVE H[l] # D[i]
      <4>1. l \in 1..Len(H) /\ l > Len(S) /\ l - Len(S) \in h..Len(L)
        BY <1>1, <1>2
      <4> QED BY <1>1, <3>3, <4>1
    <3> QED BY <3>4, <3>5
  <2>2. CASE j <= k
    <3>1. j \in 1..n /\ i \in 1..k
      BY <1>2, <2>2
    <3>2. In(D[i], S)
      BY <1>1, <1>5, <1>7, <3>1 DEF In
    <3>3. PICK h \in 1..Len(S) : S[h] = D[j] /\ \A l \in h..Len(S) : S[l] # D[i]
      BY <1>7, <3>1, <3>2 DEF Kept
    <3>4. h \in 1..Len(H) /\ H[h] = D[j]
      BY <1>1, <1>2, <3>3
    <3>5. ASSUME NEW l \in h..Len(H) PROVE H[l] # D[i]
      <4>1. CASE l > Len(S)
        <5>1. l \in 1..Len(H)
          BY <1>1, <1>2
        <5> QED BY <1>1, <1>5, <3>1, <4>1, <5>1
      <4>2. CASE l <= Len(S)
        <5>1. l \in h..Len(S) /\ l \in 1..Len(S)
          BY <1>1, <1>2, <4>2
        <5> QED BY <1>1, <3>3, <5>1
      <4> QED BY <1>1, <1>2, <4>1, <4>2
    <3> QED BY <3>4, <3>5
  <2> QED BY <1>2, <2>1, <2>2
<1> QED BY <1>6, <1>7 DEF Kept, H

\* The oldest lines are cut off, and the last is not.
LEMMA KeptCut ==
  ASSUME NEW S \in Seq(ChatMessage), NEW D, NEW n \in Nat, Kept(S, D, n), NEW c \in 0..Len(S), c < Len(S),
         NEW z \in 1..n, S[Len(S)] = D[z], D[z] \notin Wordless
  PROVE  Kept(SubSeq(S, c + 1, Len(S)), D, n)
<1> DEFINE H == SubSeq(S, c + 1, Len(S))
<1>1. Len(S) \in Nat /\ Len(H) = Len(S) - c /\ \A p \in 1..Len(S) - c : H[p] = S[c + p]
  BY Tails
<1> HIDE DEF H
<1>2. ASSUME NEW j \in 1..n, D[j] \notin Wordless, \A i \in j + 1..n : D[i] \in Wordless
      PROVE  In(D[j], H)
  <2>1. ~(z < j)
    <3> SUFFICES ASSUME z < j PROVE FALSE
      OBVIOUS
    <3>1. z \in 1..j - 1 /\ In(D[z], S)
      BY <1>1 DEF In
    <3>2. PICK p \in 1..Len(S) : S[p] = D[j] /\ \A l \in p..Len(S) : S[l] # D[z]
      BY <1>2, <3>1 DEF Kept
    <3> QED BY <1>1, <3>2
  <2>2. z = j
    <3>1. ~(j < z)
      <4> SUFFICES ASSUME j < z PROVE FALSE
        OBVIOUS
      <4>1. z \in j + 1..n
        OBVIOUS
      <4> QED BY <1>2, <4>1
    <3> QED BY <2>1, <3>1
  <2>3. Len(S) - c \in 1..Len(H) /\ H[Len(S) - c] = S[Len(S)]
    <3>1. Len(S) - c \in 1..Len(S) - c /\ c + (Len(S) - c) = Len(S)
      BY <1>1
    <3> QED BY <1>1, <3>1
  <2> QED BY <2>2, <2>3 DEF In
<1>3. ASSUME NEW j \in 1..n, D[j] \notin Wordless, NEW i \in 1..j - 1, D[i] \notin Wordless, In(D[i], H)
      PROVE  \E p \in 1..Len(H) : H[p] = D[j] /\ \A l \in p..Len(H) : H[l] # D[i]
  <2>1. PICK h \in 1..Len(H) : H[h] = D[i]
    BY <1>3 DEF In
  <2>2. c + h \in 1..Len(S) /\ S[c + h] = D[i]
    BY <1>1, <2>1
  <2>3. PICK p \in 1..Len(S) : S[p] = D[j] /\ \A l \in p..Len(S) : S[l] # D[i]
    BY <1>3, <2>2 DEF Kept, In
  <2>4. p > c + h
    BY <1>1, <2>2, <2>3
  <2>5. p - c \in 1..Len(H) /\ p - c \in 1..Len(S) - c /\ c + (p - c) = p
    BY <1>1, <2>4
  <2>6. ASSUME NEW l \in p - c..Len(H) PROVE H[l] # D[i]
    <3>1. l \in 1..Len(S) - c /\ c + l \in p..Len(S)
      BY <1>1, <2>5
    <3> QED BY <1>1, <2>3, <3>1
  <2>7. H[p - c] = D[j]
    BY <1>1, <2>3, <2>5
  <2> QED BY <2>5, <2>6, <2>7
<1> QED BY <1>2, <1>3 DEF Kept, H

\* What has no words needs no line.
LEMMA KeptWordless ==
  ASSUME NEW S, NEW D, NEW n \in Nat, NEW r \in Nat, Kept(S, D, n), n <= r,
         \A i \in n + 1..r : D[i] \in Wordless
  PROVE  Kept(S, D, r)
<1>1. ASSUME NEW j \in 1..r, D[j] \notin Wordless PROVE j \in 1..n
  BY <1>1
<1>2. \A j \in 1..n : (\A i \in j + 1..r : D[i] \in Wordless) => \A i \in j + 1..n : D[i] \in Wordless
  OBVIOUS
<1> QED BY <1>1, <1>2 DEF Kept

LEMMA KeptIsRecalled ==
  ASSUME NEW S \in Seq(ChatMessage), NEW D, NEW n \in Nat, Kept(S, D, n)
  PROVE  Chat!Recalls(S, D, n)
<1>1. \A e : e \in Chat!ToSet(S) <=> In(e, S)
  BY ToSetIsIn
<1> QED BY <1>1 DEF Kept, Chat!Recalls

-------------------------------------------------------------------------------
(* What a session remembers *)

Shortening == {"line", "roll", "trim"}

LEMMA ChatNumbers ==
  /\ MaxMessages \in Nat /\ MaxMessages > 0 /\ HistoryLimit \in Nat /\ HistoryLimit > 0
  /\ SummaryRoom \in Nat /\ SummaryRoom > 0
BY ChatConstants DEF Chat!ChatMemoryAssumption

\* The request goes on elsewhere.
LEMMA RemembersStill ==
  ASSUME NEW M, NEW S, NEW D, NEW q, NEW q2, NEW timed, NEW timed2, Remembers(M, S, D, q, timed),
         q2.at \notin Shortening
  PROVE  Remembers(M, S, D, q2, timed2)
<1>1. PICK k, n \in 0..Len(D) :
        /\ k <= n /\ (n = k \/ n + MaxMessages <= k + Len(M))
        /\ Ends(M, D, k) /\ (k > 0 => Len(M) >= MaxMessages)
        /\ Kept(S, D, n) /\ Shortens(q, M, D, k, n, timed)
  BY DEF Remembers
<1>2. Shortens(q2, M, D, k, n, timed2)
  BY <1>1 DEF Shortens, Shortening
<1> QED BY <1>1, <1>2 DEF Remembers

\* The time of the summary's key is taken off, or stays.
LEMMA RemembersLonger ==
  ASSUME NEW M, NEW S, NEW D, NEW q, NEW timed, NEW timed2, Remembers(M, S, D, q, timed),
         timed2 => timed
  PROVE  Remembers(M, S, D, q, timed2)
<1>1. PICK k, n \in 0..Len(D) :
        /\ k <= n /\ (n = k \/ n + MaxMessages <= k + Len(M))
        /\ Ends(M, D, k) /\ (k > 0 => Len(M) >= MaxMessages)
        /\ Kept(S, D, n) /\ Shortens(q, M, D, k, n, timed)
  BY DEF Remembers
<1>2. Shortens(q, M, D, k, n, timed2)
  BY <1>1 DEF Shortens
<1> QED BY <1>1, <1>2 DEF Remembers

\* The list is lost: of what was said since, nothing is in it.
LEMMA ListLost ==
  ASSUME NEW S \in Seq(ChatMessage), NEW q, NEW timed
  PROVE  Remembers(<<>>, S, <<>>, q, timed)
<1>1. /\ <<>> \in Seq(ChatMessage) /\ Len(<<>>) = 0 /\ 0 \in 0..0
      /\ Distinct(<<>>) /\ Ends(<<>>, <<>>, 0) /\ Kept(S, <<>>, 0)
  BY DEF Distinct, Ends, Kept
<1>2. Shortens(q, <<>>, <<>>, 0, 0, timed)
  BY DEF Shortens
<1> QED BY <1>1, <1>2 DEF Remembers

\* The summary is lost: what was said since is the list.
LEMMA SummaryLost ==
  ASSUME NEW M, NEW S, NEW D, NEW q, NEW timed, NEW timed2, Remembers(M, S, D, q, timed), timed,
         q.over \in Nat
  PROVE  Remembers(M, <<>>, M, q, timed2)
<1>1. PICK k, n \in 0..Len(D) :
        /\ Ends(M, D, k) /\ Shortens(q, M, D, k, n, timed)
  BY DEF Remembers
<1>2. M \in Seq(ChatMessage) /\ D \in Seq(ChatMessage) /\ Distinct(D)
  BY DEF Remembers
<1>3. Len(M) \in Nat /\ Len(D) \in Nat /\ <<>> \in Seq(ChatMessage)
  BY <1>2
<1>4. Distinct(M) /\ Ends(M, M, 0)
  <2>1. ASSUME NEW i \in 1..Len(M), NEW j \in 1..Len(M), M[i] = M[j] PROVE i = j
    <3>1. k + i \in 1..Len(D) /\ k + j \in 1..Len(D) /\ D[k + i] = D[k + j]
      BY <1>1, <1>3, <2>1 DEF Ends
    <3> QED BY <1>2, <1>3, <3>1 DEF Distinct
  <2> QED BY <1>3, <2>1 DEF Distinct, Ends
<1>5. D = <<>> => M = <<>>
  BY <1>1, <1>2 DEF Ends
<1>6. CASE M # <<>> /\ q.at = "trim"
  <2>1. Len(M) = q.over + MaxMessages /\ q.over > 0 /\ \A i \in 1..q.over : M[i] \in Wordless
    BY <1>1, <1>5, <1>6 DEF Shortens
  <2>2. q.over \in 0..Len(M) /\ 0 \in 0..Len(M)
    BY <1>3, <2>1, ChatNumbers
  <2>3. Kept(<<>>, M, q.over)
    BY <2>1 DEF Kept
  <2>4. Shortens(q, M, M, 0, q.over, timed2)
    BY <1>6, <2>1 DEF Shortens
  <2> QED BY <1>2, <1>3, <1>4, <2>1, <2>2, <2>3, <2>4 DEF Remembers
<1>7. CASE M = <<>> \/ q.at # "trim"
  <2>1. Kept(<<>>, M, 0) /\ 0 \in 0..Len(M)
    BY <1>3 DEF Kept
  <2>2. Shortens(q, M, M, 0, 0, timed2)
    BY <1>1, <1>5, <1>7 DEF Shortens
  <2> QED BY <1>2, <1>3, <1>4, <2>1, <2>2 DEF Remembers
<1> QED BY <1>6, <1>7

LEMMA Appended ==
  ASSUME NEW M \in Seq(ChatMessage), NEW e \in ChatMessage
  PROVE  /\ Append(M, e) \in Seq(ChatMessage) /\ Len(Append(M, e)) = Len(M) + 1 /\ Len(M) \in Nat
         /\ \A p \in 1..Len(M) : Append(M, e)[p] = M[p]
         /\ Append(M, e)[Len(M) + 1] = e
         /\ \A p \in 1..Len(Append(M, e)) : p \in 1..Len(M) \/ p = Len(M) + 1
<1>1. /\ Append(M, e) \in Seq(ChatMessage) /\ Len(Append(M, e)) = Len(M) + 1
      /\ \A p \in 1..Len(M) : Append(M, e)[p] = M[p]
      /\ Append(M, e)[Len(M) + 1] = e
  BY AppendProperties
<1>2. Len(M) \in Nat
  OBVIOUS
<1> QED BY <1>1, <1>2

\* A message is said: it is at the end of the list.
LEMMA Saying ==
  ASSUME NEW M, NEW S, NEW D, NEW q, NEW q2, NEW timed, NEW timed2, Remembers(M, S, D, q, timed),
         NEW e \in ChatMessage, ~In(e, D), q2.at \notin Shortening
  PROVE  Remembers(Append(M, e), S, Append(D, e), q2, timed2)
<1>1. PICK k, n \in 0..Len(D) :
        /\ k <= n /\ (n = k \/ n + MaxMessages <= k + Len(M))
        /\ Ends(M, D, k) /\ (k > 0 => Len(M) >= MaxMessages) /\ Kept(S, D, n)
  BY DEF Remembers
<1>2. M \in Seq(ChatMessage) /\ S \in Seq(ChatMessage) /\ D \in Seq(ChatMessage) /\ Distinct(D)
  BY DEF Remembers
<1> DEFINE M2 == Append(M, e)
           D2 == Append(D, e)
<1>3. /\ M2 \in Seq(ChatMessage) /\ Len(M2) = Len(M) + 1 /\ Len(M) \in Nat
      /\ \A p \in 1..Len(M) : M2[p] = M[p]
      /\ M2[Len(M) + 1] = e
      /\ \A p \in 1..Len(M2) : p \in 1..Len(M) \/ p = Len(M) + 1
  BY <1>2, Appended
<1>4. /\ D2 \in Seq(ChatMessage) /\ Len(D2) = Len(D) + 1 /\ Len(D) \in Nat
      /\ \A p \in 1..Len(D) : D2[p] = D[p]
      /\ D2[Len(D) + 1] = e
      /\ \A p \in 1..Len(D2) : p \in 1..Len(D) \/ p = Len(D) + 1
  BY <1>2, Appended
<1> HIDE DEF M2, D2
<1>5. Distinct(D2)
  <2>1. \A p \in 1..Len(D) : D[p] # e
    BY DEF In
  <2> QED BY <1>2, <1>4, <2>1 DEF Distinct
<1>6. Len(M) = Len(D) - k /\ k \in Nat /\ n \in Nat
  BY <1>1, <1>4 DEF Ends
<1>7. ASSUME NEW p \in 1..Len(M2) PROVE M2[p] = D2[k + p]
  <2>1. CASE p \in 1..Len(M)
    <3>1. k + p \in 1..Len(D) /\ M[p] = D[k + p]
      BY <1>1, <1>4, <1>6, <2>1 DEF Ends
    <3> QED BY <1>3, <1>4, <2>1, <3>1
  <2>2. CASE p = Len(M) + 1
    <3>1. k + p = Len(D) + 1
      BY <1>3, <1>4, <1>6, <2>2
    <3> QED BY <1>3, <1>4, <2>2, <3>1
  <2> QED BY <1>3, <2>1, <2>2
<1>8. Ends(M2, D2, k)
  BY <1>3, <1>4, <1>6, <1>7 DEF Ends
<1>9. Kept(S, D2, n)
  <2>1. \A i \in 1..n : D2[i] = D[i]
    BY <1>1, <1>4
  <2>2. \A j \in 1..n : \A i \in 1..j - 1 : i \in 1..n
    BY <1>6
  <2>3. \A j \in 1..n : \A i \in j + 1..n : i \in 1..n
    BY <1>6
  <2> QED BY <1>1, <2>1, <2>2, <2>3 DEF Kept
<1>10. /\ k \in 0..Len(D2) /\ n \in 0..Len(D2)
       /\ n = k \/ n + MaxMessages <= k + Len(M2)
       /\ k > 0 => Len(M2) >= MaxMessages
  BY <1>1, <1>3, <1>4, <1>6, ChatNumbers
<1>11. Shortens(q2, M2, D2, k, n, timed2)
  BY DEF Shortens, Shortening
<1>12. Remembers(M2, S, D2, q2, timed2)
  BY <1>1, <1>2, <1>3, <1>4, <1>5, <1>8, <1>9, <1>10, <1>11 DEF Remembers
<1> QED BY <1>12 DEF M2, D2

\* The list is found too long, and its beginning is read.
LEMMA Measuring ==
  ASSUME NEW M, NEW S, NEW D, NEW q, NEW q2, NEW timed, Remembers(M, S, D, q, timed),
         Len(M) > MaxMessages, q2.at = "line", q2.over = Len(M) - MaxMessages,
         q2.rolled = SubSeq(M, 1, q2.over), q2.lines = <<>>
  PROVE  Remembers(M, S, D, q2, timed) /\ q2.over \in Nat /\ q2.rolled \in Seq(ChatMessage)
<1>1. PICK k, n \in 0..Len(D) :
        /\ k <= n /\ (n = k \/ n + MaxMessages <= k + Len(M))
        /\ Ends(M, D, k) /\ (k > 0 => Len(M) >= MaxMessages) /\ Kept(S, D, n)
  BY DEF Remembers
<1>2. M \in Seq(ChatMessage) /\ S \in Seq(ChatMessage) /\ D \in Seq(ChatMessage) /\ Distinct(D)
  BY DEF Remembers
<1> DEFINE o == q2.over
           R == q2.rolled
<1>3. /\ o \in Nat /\ o > 0 /\ o <= Len(M) /\ Len(M) = o + MaxMessages
  <2>1. Len(M) \in Nat /\ o = Len(M) - MaxMessages
    BY <1>2
  <2> HIDE DEF o
  <2> QED BY <2>1, ChatNumbers
<1>4. R \in Seq(ChatMessage) /\ Len(R) = o /\ \A i \in 1..o : R[i] = M[i]
  <2>0. R = SubSeq(M, 1, o)
    OBVIOUS
  <2> HIDE DEF o, R
  <2>1. 1 \in Int /\ o \in Int /\ \A i \in 1..o : M[i] \in ChatMessage
    BY <1>2, <1>3
  <2>2. /\ SubSeq(M, 1, o) \in Seq(ChatMessage) /\ Len(SubSeq(M, 1, o)) = IF 1 <= o THEN o - 1 + 1 ELSE 0
        /\ \A i \in 1..(o - 1 + 1) : SubSeq(M, 1, o)[i] = M[1 + i - 1]
    BY <2>1, SubSeqProperties
  <2>3. o - 1 + 1 = o /\ 1 <= o /\ \A i \in 1..o : 1 + i - 1 = i
    BY <1>3
  <2>4. Len(SubSeq(M, 1, o)) = o /\ \A i \in 1..o : SubSeq(M, 1, o)[i] = M[i]
    BY <2>2, <2>3
  <2> QED BY <2>0, <2>2, <2>4
<1> HIDE DEF o, R
<1>5. Lined(<<>>, M, 0)
  BY DEF Lined
<1>6. o - Len(R) = 0 /\ \A i \in 1..Len(R) : (o - Len(R)) + i = i
  BY <1>3, <1>4
<1>7. /\ Len(R) <= o /\ \A i \in 1..Len(R) : R[i] = M[(o - Len(R)) + i]
  BY <1>3, <1>4, <1>6
<1>8. Lined(q2.lines, M, o - Len(R))
  BY <1>5, <1>6
<1>9. Shortens(q2, M, D, k, n, timed)
  BY <1>3, <1>7, <1>8 DEF Shortens, o, R
<1>10. Remembers(M, S, D, q2, timed)
  BY <1>1, <1>2, <1>9 DEF Remembers
<1> QED BY <1>3, <1>4, <1>10 DEF o, R

\* A message of it becomes a line, or is left out.
LEMMA LinedMore ==
  ASSUME NEW L \in Seq(ChatMessage), NEW M \in Seq(ChatMessage), Distinct(M), NEW p \in Nat, p < Len(M),
         Lined(L, M, p), NEW L2, L2 = IF M[p + 1] \in Wordless THEN L ELSE Append(L, M[p + 1])
  PROVE  Lined(L2, M, p + 1) /\ L2 \in Seq(ChatMessage)
<1>1. Len(M) \in Nat /\ Len(L) \in Nat /\ p + 1 \in 1..Len(M) /\ M[p + 1] \in ChatMessage
  OBVIOUS
<1>2. CASE M[p + 1] \in Wordless
  <2>1. \A j \in 1..p + 1 : M[j] \notin Wordless => j \in 1..p
    BY <1>1, <1>2
  <2>2. \A i \in 1..p : i \in 1..p + 1
    BY <1>1
  <2> QED BY <1>2, <2>1, <2>2 DEF Lined
<1>3. CASE M[p + 1] \notin Wordless
  <2> DEFINE A == Append(L, M[p + 1])
  <2>1. /\ A \in Seq(ChatMessage) /\ Len(A) = Len(L) + 1 /\ \A h \in 1..Len(L) : A[h] = L[h]
        /\ A[Len(L) + 1] = M[p + 1] /\ \A h \in 1..Len(A) : h \in 1..Len(L) \/ h = Len(L) + 1
    BY <1>1, Appended
  <2> HIDE DEF A
  <2>2. ASSUME NEW h \in 1..Len(A) PROVE \E i \in 1..p + 1 : A[h] = M[i] /\ M[i] \notin Wordless
    <3>1. CASE h \in 1..Len(L)
      <4>1. PICK i \in 1..p : L[h] = M[i] /\ M[i] \notin Wordless
        BY <3>1 DEF Lined
      <4> QED BY <1>1, <2>1, <3>1, <4>1
    <3>2. CASE h = Len(L) + 1
      BY <1>1, <1>3, <2>1, <3>2
    <3> QED BY <2>1, <3>1, <3>2
  <2>3. ASSUME NEW j \in 1..p + 1, M[j] \notin Wordless
        PROVE  \E h \in 1..Len(A) : A[h] = M[j] /\ \A l \in h..Len(A), i \in 1..j - 1 : A[l] # M[i]
    <3>1. ASSUME NEW i \in 1..j - 1 PROVE M[p + 1] # M[i]
      <4>1. i \in 1..Len(M) /\ p + 1 # i
        BY <1>1
      <4> QED BY <1>1, <4>1 DEF Distinct
    <3>2. CASE j = p + 1
      <4>1. Len(L) + 1 \in 1..Len(A) /\ \A l \in Len(L) + 1..Len(A) : l = Len(L) + 1
        BY <1>1, <2>1
      <4> QED BY <2>1, <3>1, <3>2, <4>1
    <3>3. CASE j # p + 1
      <4>1. j \in 1..p
        BY <1>1, <3>3
      <4>2. PICK h \in 1..Len(L) : L[h] = M[j] /\ \A l \in h..Len(L), i \in 1..j - 1 : L[l] # M[i]
        BY <2>3, <4>1 DEF Lined
      <4>3. h \in 1..Len(A) /\ A[h] = M[j]
        BY <1>1, <2>1, <4>2
      <4>4. ASSUME NEW l \in h..Len(A), NEW i \in 1..j - 1 PROVE A[l] # M[i]
        <5>1. l \in 1..Len(A)
          BY <1>1, <2>1
        <5>2. CASE l \in 1..Len(L)
          <6>1. l \in h..Len(L)
            BY <5>2
          <6> QED BY <2>1, <4>2, <5>2, <6>1
        <5>3. CASE l = Len(L) + 1
          BY <2>1, <3>1, <5>3
        <5> QED BY <2>1, <5>1, <5>2, <5>3
      <4> QED BY <4>3, <4>4
    <3> QED BY <3>2, <3>3
  <2>4. Lined(A, M, p + 1)
    BY <2>2, <2>3 DEF Lined
  <2> QED BY <1>3, <2>1, <2>4 DEF A
<1> QED BY <1>2, <1>3

LEMMA DistinctEnd ==
  ASSUME NEW M \in Seq(ChatMessage), NEW D \in Seq(ChatMessage), NEW k, Ends(M, D, k), Distinct(D)
  PROVE  Distinct(M)
<1>1. Len(M) \in Nat /\ Len(D) \in Nat
  OBVIOUS
<1>2. ASSUME NEW i \in 1..Len(M), NEW j \in 1..Len(M), M[i] = M[j] PROVE i = j
  <2>1. k \in Nat /\ k + i \in 1..Len(D) /\ k + j \in 1..Len(D) /\ D[k + i] = D[k + j]
    BY <1>1, <1>2 DEF Ends
  <2>2. k + i = k + j
    BY <2>1 DEF Distinct
  <2> QED BY <1>1, <2>1, <2>2
<1> QED BY <1>2 DEF Distinct

LEMMA LineTaken ==
  ASSUME NEW M, NEW S, NEW D, NEW q, NEW q2, NEW timed, Remembers(M, S, D, q, timed),
         q.at = "line", q.over \in Nat, q.rolled \in Seq(ChatMessage), q.lines \in Seq(ChatMessage),
         q.rolled # <<>>, q2.at = "line", q2.over = q.over, q2.rolled = Tail(q.rolled),
         q2.lines = IF Head(q.rolled) \in Wordless THEN q.lines ELSE Append(q.lines, Head(q.rolled))
  PROVE  /\ Remembers(M, S, D, q2, timed)
         /\ q2.rolled \in Seq(ChatMessage) /\ q2.lines \in Seq(ChatMessage)
<1>1. PICK k, n \in 0..Len(D) :
        /\ k <= n /\ (n = k \/ n + MaxMessages <= k + Len(M))
        /\ Ends(M, D, k) /\ (k > 0 => Len(M) >= MaxMessages)
        /\ Kept(S, D, n) /\ Shortens(q, M, D, k, n, timed)
  BY DEF Remembers
<1>2. M \in Seq(ChatMessage) /\ S \in Seq(ChatMessage) /\ D \in Seq(ChatMessage) /\ Distinct(D)
  BY DEF Remembers
<1>3. Distinct(M)
  BY <1>1, <1>2, DistinctEnd
<1> DEFINE o == q.over
           R == q.rolled
           R2 == q2.rolled
<1>4. /\ Len(R) \in Nat /\ Len(R) > 0 /\ R2 \in Seq(ChatMessage) /\ Len(R2) = Len(R) - 1
      /\ \A i \in 1..Len(R2) : R2[i] = R[i + 1]
      /\ Head(R) = R[1] /\ Head(R) \in ChatMessage
  <2>1. R \in Seq(ChatMessage) /\ R # <<>>
    OBVIOUS
  <2>2. R2 = Tail(R)
    OBVIOUS
  <2> HIDE DEF R, R2
  <2>3. Len(R) \in Nat /\ Len(R) > 0
    BY <2>1
  <2>4. Tail(R) \in Seq(ChatMessage) /\ Len(Tail(R)) = Len(R) - 1
    BY <2>1
  <2>5. \A i \in 1..Len(R) - 1 : Tail(R)[i] = R[i + 1]
    BY <2>1
  <2>6. Head(R) = R[1] /\ R[1] \in ChatMessage
    BY <2>1, <2>3
  <2> QED BY <2>2, <2>3, <2>4, <2>5, <2>6
<1>5. q2.lines \in Seq(ChatMessage)
  BY <1>4
<1>6. CASE D = <<>>
  BY <1>1, <1>2, <1>4, <1>5, <1>6 DEF Shortens, Remembers
<1>7. CASE D # <<>>
  <2>1. /\ Len(M) = o + MaxMessages /\ o > 0 /\ Len(R) <= o
        /\ \A i \in 1..Len(R) : R[i] = M[(o - Len(R)) + i]
        /\ Lined(q.lines, M, o - Len(R))
    BY <1>1, <1>7 DEF Shortens
  <2> DEFINE p == o - Len(R)
  <2>2. p \in Nat /\ p < Len(M) /\ o - Len(R2) = p + 1 /\ Len(R2) <= o
    <3>1. o \in Nat
      OBVIOUS
    <3> HIDE DEF o, R, R2
    <3> QED BY <1>4, <2>1, <3>1, ChatNumbers
  <2>3. Head(R) = M[p + 1]
    <3>1. 1 \in 1..Len(R)
      BY <1>4
    <3> QED BY <1>4, <2>1, <3>1
  <2>4. ASSUME NEW i \in 1..Len(R2) PROVE R2[i] = M[(o - Len(R2)) + i]
    <3>1. i + 1 \in 1..Len(R) /\ p + (i + 1) = (p + 1) + i
      <4> HIDE DEF p, R, R2
      <4> QED BY <1>4, <2>2
    <3>2. R[i + 1] = M[p + (i + 1)]
      BY <2>1, <3>1
    <3> QED BY <1>4, <2>2, <3>1, <3>2
  <2>5. q2.lines = IF M[p + 1] \in Wordless THEN q.lines ELSE Append(q.lines, M[p + 1])
    BY <2>3
  <2>6. Lined(q.lines, M, p)
    BY <2>1
  <2> HIDE DEF p
  <2>7. Lined(q2.lines, M, p + 1)
    BY <1>2, <1>3, <2>2, <2>5, <2>6, LinedMore
  <2>8. Lined(q2.lines, M, o - Len(R2))
    BY <2>2, <2>7
  <2>9. Shortens(q2, M, D, k, n, timed)
    BY <2>1, <2>2, <2>4, <2>8 DEF Shortens
  <2>10. Remembers(M, S, D, q2, timed)
    BY <1>1, <1>2, <2>9 DEF Remembers
  <2> QED BY <1>4, <1>5, <2>10
<1> QED BY <1>6, <1>7

\* All of it is read: with lines the summary is written, without one the list is trimmed.
LEMMA LinesRead ==
  ASSUME NEW M, NEW S, NEW D, NEW q, NEW q2, NEW timed, Remembers(M, S, D, q, timed),
         q.at = "line", q.over \in Nat, q.lines \in Seq(ChatMessage), q.rolled = <<>>,
         q2.over = q.over, q2.lines = q.lines, q2.rolled = q.rolled,
         q2.at = IF q.lines = <<>> THEN "trim" ELSE "roll"
  PROVE  Remembers(M, S, D, q2, timed)
<1>1. PICK k, n \in 0..Len(D) :
        /\ k <= n /\ (n = k \/ n + MaxMessages <= k + Len(M))
        /\ Ends(M, D, k) /\ (k > 0 => Len(M) >= MaxMessages)
        /\ Kept(S, D, n) /\ Shortens(q, M, D, k, n, timed)
  BY DEF Remembers
<1>2. M \in Seq(ChatMessage) /\ S \in Seq(ChatMessage) /\ D \in Seq(ChatMessage) /\ Distinct(D)
  BY DEF Remembers
<1>3. Len(M) \in Nat /\ Len(D) \in Nat /\ k \in Nat /\ n \in Nat /\ Len(M) = Len(D) - k
  BY <1>1, <1>2 DEF Ends
<1>4. CASE D = <<>>
  <2>1. Shortens(q2, M, D, k, n, timed)
    BY <1>4 DEF Shortens
  <2> QED BY <1>1, <1>2, <2>1 DEF Remembers
<1> DEFINE o == q.over
<1>5. CASE D # <<>>
  <2>1. /\ Len(M) = o + MaxMessages /\ o > 0 /\ Len(q.rolled) <= o
        /\ Lined(q.lines, M, o - Len(q.rolled)) /\ o - Len(q.rolled) = o
    BY <1>1, <1>5 DEF Shortens
  <2>2. CASE q.lines # <<>>
    <3>1. Len(q.lines) > 0 /\ Len(q.rolled) = 0
      BY <2>2
    <3>2. Shortens(q2, M, D, k, n, timed)
      BY <2>1, <2>2, <3>1 DEF Shortens
    <3> QED BY <1>1, <1>2, <3>2 DEF Remembers
  <2>3. CASE q.lines = <<>>
    <3>1. o \in Nat /\ o <= Len(M) /\ \A i \in 1..o : M[i] \in Wordless
      <4>1. o \in Nat /\ Lined(<<>>, M, o)
        BY <2>1, <2>3
      <4> HIDE DEF o
      <4>2. o <= Len(M)
        BY <1>3, <2>1, <4>1, ChatNumbers
      <4> QED BY <4>1, <4>2 DEF Lined
    <3> HIDE DEF o
    <3>2. k + o \in 0..Len(D) /\ n <= k + o /\ (k + o) + MaxMessages <= k + Len(M) /\ k <= k + o
      BY <1>1, <1>3, <2>1, <3>1, ChatNumbers
    <3>3. ASSUME NEW i \in n + 1..k + o PROVE D[i] \in Wordless
      <4>1. i - k \in 1..o /\ i - k \in 1..Len(M) /\ k + (i - k) = i
        BY <1>1, <1>3, <3>1, <3>2
      <4>2. M[i - k] = D[k + (i - k)]
        BY <1>1, <4>1 DEF Ends
      <4> QED BY <3>1, <4>1, <4>2
    <3>4. Kept(S, D, k + o)
      BY <1>1, <1>3, <3>1, <3>2, <3>3, KeptWordless
    <3>5. Shortens(q2, M, D, k, k + o, timed)
      <4>1. q2.at = "trim" /\ q2.over = o
        BY <2>3 DEF o
      <4> QED BY <2>1, <3>1, <4>1 DEF Shortens
    <3> DEFINE m == k + o
    <3>6. /\ m \in 0..Len(D) /\ k <= m /\ m + MaxMessages <= k + Len(M) /\ Kept(S, D, m)
          /\ Shortens(q2, M, D, k, m, timed)
      BY <3>2, <3>4, <3>5
    <3> HIDE DEF m
    <3> QED BY <1>1, <1>2, <3>6 DEF Remembers
  <2> QED BY <2>2, <2>3
<1> QED BY <1>4, <1>5

\* The summary is written: it is not about to expire, and its last line is not cut off.
LEMMA Rolling ==
  ASSUME NEW M, NEW S, NEW D, NEW q, NEW q2, NEW timed, NEW timed2, Remembers(M, S, D, q, timed),
         q.at = "roll", q.over \in Nat, q.lines \in Seq(ChatMessage), ~timed2,
         q2.at \notin Shortening \/ (q2.at = "trim" /\ q2.over = q.over),
         NEW c \in 0..Len(S \o q.lines), c = 0 \/ Len(S \o q.lines) - c >= SummaryRoom
  PROVE  Remembers(M, SubSeq(S \o q.lines, c + 1, Len(S \o q.lines)), D, q2, timed2)
<1>1. PICK k, n \in 0..Len(D) :
        /\ k <= n /\ (n = k \/ n + MaxMessages <= k + Len(M))
        /\ Ends(M, D, k) /\ (k > 0 => Len(M) >= MaxMessages)
        /\ Kept(S, D, n) /\ Shortens(q, M, D, k, n, timed)
  BY DEF Remembers
<1>2. M \in Seq(ChatMessage) /\ S \in Seq(ChatMessage) /\ D \in Seq(ChatMessage) /\ Distinct(D)
  BY DEF Remembers
<1>3. Len(M) \in Nat /\ Len(D) \in Nat /\ k \in Nat /\ n \in Nat /\ Len(M) = Len(D) - k
  BY <1>1, <1>2 DEF Ends
<1> DEFINE L == q.lines
           A == S \o L
           S2 == SubSeq(A, c + 1, Len(A))
           o == q.over
<1>4. /\ A \in Seq(ChatMessage) /\ Len(A) = Len(S) + Len(L) /\ Len(S) \in Nat /\ Len(L) \in Nat
      /\ \A p \in 1..Len(A) : p > Len(S) => A[p] = L[p - Len(S)]
  BY <1>2, Joined
<1>5. S2 \in Seq(ChatMessage) /\ c \in 0..Len(A) /\ (c = 0 \/ Len(A) - c >= SummaryRoom)
  BY <1>4, Tails
<1> HIDE DEF S2, A
<1>6. CASE D = <<>>
  <2>1. Shortens(q2, M, D, k, n, timed2)
    BY <1>6 DEF Shortens
  <2>2. Kept(S2, D, n)
    BY <1>1, <1>3, <1>6 DEF Kept
  <2>3. Remembers(M, S2, D, q2, timed2)
    BY <1>1, <1>2, <1>5, <2>1, <2>2 DEF Remembers
  <2> QED BY <2>3 DEF S2, A
<1>7. CASE D # <<>>
  <2>1. /\ Len(M) = o + MaxMessages /\ o > 0 /\ o \in Nat /\ Len(L) > 0
        /\ Len(q.rolled) = 0 /\ Lined(L, M, o - Len(q.rolled))
    BY <1>1, <1>7 DEF Shortens
  <2>2. Lined(L, M, o)
    BY <2>1
  <2>3. q2.at \in Shortening => q2.at = "trim" /\ q2.over = o
    BY DEF Shortening
  <2>4. Len(A) > 0 /\ c < Len(A)
    <3>1. Len(A) > 0
      BY <1>4, <2>1
    <3> QED BY <1>4, <1>5, <3>1, ChatNumbers
  <2> HIDE DEF o
  <2>5. /\ o <= Len(M) /\ n <= k + o /\ k + o \in 0..Len(D) /\ k <= k + o
        /\ (k + o) + MaxMessages <= k + Len(M)
    BY <1>1, <1>3, <2>1, ChatNumbers
  <2>6. Kept(A, D, k + o)
    BY <1>1, <1>2, <1>3, <2>1, <2>2, <2>5, KeptMore DEF A
  <2>7. PICK z \in 1..k + o : A[Len(A)] = D[z] /\ D[z] \notin Wordless
    <3>1. PICK i \in 1..o : L[Len(L)] = M[i] /\ M[i] \notin Wordless
      <4> HIDE DEF L
      <4>1. Len(L) \in 1..Len(L)
        BY <1>4, <2>1
      <4> QED BY <2>2, <4>1 DEF Lined
    <3>2. k + i \in 1..k + o /\ i \in 1..Len(M)
      BY <1>3, <2>1, <2>5
    <3>5. M[i] = D[k + i]
      BY <1>1, <3>2 DEF Ends
    <3>3. Len(A) \in 1..Len(A) /\ Len(A) > Len(S) /\ Len(A) - Len(S) = Len(L)
      BY <1>4, <2>1, <2>4
    <3>4. A[Len(A)] = L[Len(L)]
      BY <1>4, <3>3
    <3> QED BY <3>1, <3>2, <3>4, <3>5
  <2> DEFINE m == k + o
  <2>8. /\ m \in Nat /\ m \in 0..Len(D) /\ k <= m /\ m + MaxMessages <= k + Len(M) /\ Kept(A, D, m)
        /\ z \in 1..m
    BY <1>3, <2>1, <2>5, <2>6
  <2>9. Shortens(q2, M, D, k, m, timed2)
    BY <2>1, <2>3 DEF Shortens, Shortening
  <2> HIDE DEF m
  <2>11. Kept(S2, D, m)
    BY <1>4, <1>5, <2>4, <2>7, <2>8, KeptCut DEF S2
  <2>12. Remembers(M, S2, D, q2, timed2)
    BY <1>1, <1>2, <1>5, <2>8, <2>9, <2>11 DEF Remembers
  <2> QED BY <2>12 DEF S2, A
<1> QED BY <1>6, <1>7

\* The list's beginning goes.
LEMMA Trimming ==
  ASSUME NEW M, NEW S, NEW D, NEW q, NEW q2, NEW timed, NEW timed2, Remembers(M, S, D, q, timed),
         q.at = "trim", q.over \in Nat, q2.at \notin Shortening
  PROVE  Remembers(SubSeq(M, q.over + 1, Len(M)), S, D, q2, timed2)
<1>1. PICK k, n \in 0..Len(D) :
        /\ k <= n /\ (n = k \/ n + MaxMessages <= k + Len(M))
        /\ Ends(M, D, k) /\ (k > 0 => Len(M) >= MaxMessages)
        /\ Kept(S, D, n) /\ Shortens(q, M, D, k, n, timed)
  BY DEF Remembers
<1>2. M \in Seq(ChatMessage) /\ S \in Seq(ChatMessage) /\ D \in Seq(ChatMessage) /\ Distinct(D)
  BY DEF Remembers
<1>3. Len(M) \in Nat /\ Len(D) \in Nat /\ k \in Nat /\ n \in Nat /\ Len(M) = Len(D) - k
  BY <1>1, <1>2 DEF Ends
<1> DEFINE o == q.over
           M2 == SubSeq(M, o + 1, Len(M))
<1>4. CASE D = <<>>
  <2>1. M = <<>>
    BY <1>2, <1>3, <1>4
  <2>2. M2 = <<>>
    <3>1. o \in Nat /\ M2 = SubSeq(<<>>, o + 1, 0)
      BY <2>1
    <3>2. SubSeq(<<>>, o + 1, 0) \in Seq(ChatMessage) /\ Len(SubSeq(<<>>, o + 1, 0)) = 0
      <4>1. <<>> \in Seq(ChatMessage) /\ o + 1 \in Int /\ 0 \in Int /\ \A i \in o + 1..0 : <<>>[i] \in ChatMessage
        BY <3>1
      <4> QED BY <3>1, <4>1, SubSeqProperties
    <3> QED BY <3>1, <3>2
  <2> QED BY <1>2, <1>4, <2>2, ListLost
<1>5. CASE D # <<>>
  <2>1. Len(M) = o + MaxMessages /\ o > 0 /\ o \in Nat /\ n = k + o
    BY <1>1, <1>5 DEF Shortens
  <2>2. o \in 0..Len(M)
    <3> HIDE DEF o
    <3> QED BY <1>3, <2>1, ChatNumbers
  <2>3. M2 \in Seq(ChatMessage) /\ Len(M2) = Len(M) - o /\ \A p \in 1..Len(M) - o : M2[p] = M[o + p]
    BY <1>2, <2>2, Tails
  <2> HIDE DEF M2, o
  <2>4. ASSUME NEW p \in 1..Len(M2) PROVE M2[p] = D[n + p]
    <3>1. p \in 1..Len(M) - o /\ o + p \in 1..Len(M) /\ k + (o + p) = n + p
      BY <1>3, <2>1, <2>3
    <3>2. M[o + p] = D[k + (o + p)]
      BY <1>1, <3>1 DEF Ends
    <3> QED BY <2>3, <3>1, <3>2
  <2>5. Ends(M2, D, n) /\ Len(M2) = MaxMessages
    <3>1. Len(M2) = Len(D) - n /\ Len(M2) = MaxMessages
      <4>1. Len(M2) = Len(M) - o
        BY <2>3
      <4> HIDE DEF M2, o
      <4> QED BY <1>3, <2>1, <4>1, ChatNumbers
    <3> QED BY <2>4, <3>1 DEF Ends
  <2>6. Shortens(q2, M2, D, n, n, timed2)
    BY DEF Shortens, Shortening
  <2>7. n <= n /\ Len(M2) >= MaxMessages
    BY <1>3, <2>5, ChatNumbers
  <2>8. Remembers(M2, S, D, q2, timed2)
    BY <1>1, <1>2, <2>3, <2>5, <2>6, <2>7 DEF Remembers
  <2> QED BY <2>8 DEF M2, o
<1> QED BY <1>4, <1>5

-------------------------------------------------------------------------------
(* Steps of a chat request *)

LEMMA RequestGoes ==
  ASSUME RequestOK, NEW a, a # "push", x6.at # "end", x6' = [x6 EXCEPT !.at = a]
  PROVE  /\ RequestOK' /\ x6'.at = a /\ x6'.session = x6.session /\ x6'.over = x6.over
         /\ x6'.rolled = x6.rolled /\ x6'.lines = x6.lines
BY DEF RequestOK

LEMMA RequestEnds ==
  ASSUME x6' = Chat!NoRequest
  PROVE  RequestOK' /\ x6'.at = "end"
<1>1. <<>> \in Seq(ChatMessage) /\ 0 \in Nat
  OBVIOUS
<1> QED BY <1>1 DEF RequestOK, Chat!NoRequest

\* Nothing happens to a session that the request is not about to shorten.
LEMMA SessionStays ==
  ASSUME NEW s \in Session, SessionOK(s), x2'[s] = x2[s], x3'[s] = x3[s], x7'[s] = x7[s],
         \/ x6'.at \notin Shortening \/ x6'.session # s
         \/ x6' = x6 /\ (s \in x9'["summary"] => s \in x9["summary"])
  PROVE  SessionOK(s)'
<1>1. CASE x6'.at \notin Shortening \/ x6'.session # s
  <2>1. (RequestOn(s))'.at \notin Shortening
    BY <1>1 DEF RequestOn, Chat!NoRequest, Shortening
  <2> QED BY <2>1, RemembersStill DEF SessionOK
<1>2. CASE x6' = x6 /\ (s \in x9'["summary"] => s \in x9["summary"])
  <2>1. (RequestOn(s))' = RequestOn(s)
    BY <1>2 DEF RequestOn, Chat!NoRequest
  <2>2. Remembers(x2[s], x3[s], x7[s], RequestOn(s), s \in x9'["summary"])
    BY <1>2, RemembersLonger DEF SessionOK
  <2> QED BY <2>1, <2>2 DEF SessionOK
<1> QED BY <1>1, <1>2

\* One session changes.
LEMMA OfSession ==
  ASSUME ChatInv, DOMAIN x2' = Session, DOMAIN x3' = Session, DOMAIN x7' = Session, DOMAIN x9' = Chat!Kind,
         NEW s \in Session, \A v \in Session : v # s => x2'[v] = x2[v] /\ x3'[v] = x3[v] /\ x7'[v] = x7[v],
         \/ x6'.at \notin Shortening \/ x6'.session = s
         \/ x6' = x6 /\ x9'["summary"] \subseteq x9["summary"],
         RequestOK', SessionOK(s)'
  PROVE  ChatInv'
<1>1. ASSUME NEW v \in Session, v # s PROVE SessionOK(v)'
  <2>1. SessionOK(v) /\ x2'[v] = x2[v] /\ x3'[v] = x3[v] /\ x7'[v] = x7[v]
    BY <1>1 DEF ChatInv
  <2> QED BY <1>1, <2>1, SessionStays
<1>2. (\A v \in Session : SessionOK(v))'
  BY <1>1
<1>3. (DOMAIN x9 = Chat!Kind)'
  BY DEF Chat!Kind
<1> QED BY <1>2, <1>3 DEF ChatInv

\* The keys of the list and the summary stay.
LEMMA KeysStay ==
  ASSUME ChatInv, UNCHANGED <<x2, x3, x7>>, DOMAIN x9' = Chat!Kind, RequestOK',
         x6'.at \notin Shortening \/ (x6' = x6 /\ x9'["summary"] \subseteq x9["summary"])
  PROVE  ChatInv'
<1>1. ASSUME NEW s \in Session PROVE SessionOK(s)'
  <2>1. SessionOK(s)
    BY DEF ChatInv
  <2> QED BY <2>1, SessionStays
<1>2. (\A s \in Session : SessionOK(s))'
  BY <1>1
<1>3. (DOMAIN x9 = Chat!Kind)'
  BY DEF Chat!Kind
<1> QED BY <1>2, <1>3 DEF ChatInv

LEMMA KindsStay ==
  ASSUME DOMAIN x9 = Chat!Kind, NEW k, NEW S, x9' = [x9 EXCEPT ![k] = S]
  PROVE  DOMAIN x9' = Chat!Kind
BY DEF Chat!Kind

LEMMA ChatStarts == Chat!Init => ChatInv
<1> SUFFICES ASSUME Chat!Init PROVE ChatInv
  OBVIOUS
<1>1. /\ x2 = [s \in Session |-> <<>>] /\ x3 = x2 /\ x7 = x2 /\ x6 = Chat!NoRequest
      /\ DOMAIN x9 = Chat!Kind
  BY DEF Chat!Init
<1>2. RequestOK
  <2>1. <<>> \in Seq(ChatMessage) /\ 0 \in Nat
    OBVIOUS
  <2> QED BY <1>1, <2>1 DEF RequestOK, Chat!NoRequest
<1>3. ASSUME NEW s \in Session PROVE SessionOK(s)
  <2>1. x2[s] = <<>> /\ x3[s] = <<>> /\ x7[s] = <<>> /\ <<>> \in Seq(ChatMessage)
    BY <1>1
  <2> QED BY <2>1, ListLost DEF SessionOK
<1> QED BY <1>1, <1>2, <1>3 DEF ChatInv

LEMMA BeginningKeeps ==
  ASSUME ChatInv,
         \/ Chat!Create
         \/ \E s \in Session : \/ \E m \in ChatMessage : Chat!StartAppend(s, m)
                               \/ Chat!StartUpdate(s) \/ Chat!StartDelete(s) \/ Chat!StartRead(s)
  PROVE  ChatInv'
<1>1. UNCHANGED <<x2, x3, x7, x9>> /\ RequestOK
  BY DEF ChatInv, Chat!Create, Chat!Command, Chat!Done, Chat!Keys, Chat!StartAppend, Chat!StartUpdate,
         Chat!StartDelete, Chat!StartRead, Chat!Use
<1>2. RequestOK' /\ x6'.at \notin Shortening
  <2>0. <<>> \in Seq(ChatMessage) /\ 0 \in Nat
    OBVIOUS
  <2>1. CASE Chat!Create
    <3>1. PICK s \in Session :
            \/ x6' = Chat!NoRequest
            \/ x6' = [Chat!NoRequest EXCEPT !.at = "index", !.session = s]
      BY <2>1 DEF Chat!Create, Chat!Command, Chat!Done
    <3>2. CASE x6' = Chat!NoRequest
      BY <3>2, RequestEnds DEF Shortening
    <3>3. CASE x6' = [Chat!NoRequest EXCEPT !.at = "index", !.session = s]
      BY <2>0, <3>3 DEF RequestOK, Chat!NoRequest, Shortening
    <3> QED BY <3>1, <3>2, <3>3
  <2>2. ASSUME NEW s \in Session, NEW m \in ChatMessage, Chat!StartAppend(s, m)
        PROVE  RequestOK' /\ x6'.at \notin Shortening
    <3>1. /\ x6' = [Chat!NoRequest EXCEPT !.at = "push", !.session = s, !.message = m]
          /\ \A v \in Session : m \notin Chat!ToSet(x7[v] \o x3[v])
      BY <2>2 DEF Chat!StartAppend, Chat!Use
    <3>2. ASSUME NEW v \in Session PROVE ~In(m, x7'[v])
      <4>1. x7[v] \in Seq(ChatMessage) /\ x3[v] \in Seq(ChatMessage)
        BY DEF ChatInv, SessionOK, Remembers
      <4>2. x7[v] \o x3[v] \in Seq(ChatMessage) /\ (In(m, x7[v] \o x3[v]) <=> In(m, x7[v]) \/ In(m, x3[v]))
        BY <4>1, Joined
      <4>3. ~In(m, x7[v] \o x3[v])
        BY <3>1, <4>2, ToSetIsIn
      <4> QED BY <1>1, <4>2, <4>3
    <3>3. /\ DOMAIN x6' = {"at", "session", "message", "over", "rolled", "lines"} /\ x6'.at = "push"
          /\ x6'.session = s /\ x6'.message = m /\ x6'.over = 0 /\ x6'.rolled = <<>> /\ x6'.lines = <<>>
      BY <3>1 DEF Chat!NoRequest
    <3> QED BY <2>0, <3>2, <3>3 DEF RequestOK, Shortening
  <2>3. ASSUME NEW s \in Session, Chat!StartUpdate(s) \/ Chat!StartDelete(s) \/ Chat!StartRead(s)
        PROVE  RequestOK' /\ x6'.at \notin Shortening
    <3>1. PICK at \in {"save", "delete", "record"} :
            x6' = [Chat!NoRequest EXCEPT !.at = at, !.session = s, !.message = NoMessage]
      BY <2>3 DEF Chat!StartUpdate, Chat!StartDelete, Chat!StartRead, Chat!Use
    <3>2. /\ DOMAIN x6' = {"at", "session", "message", "over", "rolled", "lines"} /\ x6'.at = at
          /\ x6'.session = s /\ x6'.over = 0 /\ x6'.rolled = <<>> /\ x6'.lines = <<>>
      BY <3>1 DEF Chat!NoRequest
    <3> QED BY <2>0, <3>2 DEF RequestOK, Shortening
  <2> QED BY <2>1, <2>2, <2>3
<1>3. DOMAIN x9' = Chat!Kind
  BY <1>1 DEF ChatInv
<1> QED BY <1>1, <1>2, <1>3, KeysStay

\* The request as its session sees it.
LEMMA OnSession ==
  ASSUME NEW s
  PROVE  /\ x6.session = s => RequestOn(s) = x6
         /\ x6'.session = s => (RequestOn(s))' = x6'
         /\ x6'.at \notin Shortening => (RequestOn(s))'.at \notin Shortening
BY DEF RequestOn, Chat!NoRequest, Shortening

LEMMA RequestGoesTo ==
  ASSUME RequestOK, x6.at # "end", NEW a, a \notin Shortening, a # "push",
         x6' = [x6 EXCEPT !.at = a] \/ x6' = Chat!NoRequest
  PROVE  RequestOK' /\ x6'.at \notin Shortening
<1>1. CASE x6' = [x6 EXCEPT !.at = a]
  BY <1>1, RequestGoes
<1>2. CASE x6' = Chat!NoRequest
  BY <1>2, RequestEnds DEF Shortening
<1> QED BY <1>1, <1>2

LEMMA PushKeeps ==
  ASSUME ChatInv, Chat!Push
  PROVE  ChatInv'
<1> DEFINE e == x6.message
<1>0. PICK s \in Session : s = x6.session
  BY DEF ChatInv, RequestOK, Chat!Push
<1>1. /\ x6.at = "push" /\ e \in ChatMessage /\ RequestOK /\ SessionOK(s) /\ ~In(e, x7[s])
      /\ DOMAIN x2 = Session /\ DOMAIN x3 = Session /\ DOMAIN x7 = Session /\ DOMAIN x9 = Chat!Kind
  BY <1>0 DEF ChatInv, RequestOK, Chat!Push
<1>2. /\ \/ /\ x2' = [x2 EXCEPT ![s] = Append(@, e)] /\ x7' = [x7 EXCEPT ![s] = Append(@, e)] /\ x3' = x3
         \/ UNCHANGED <<x2, x3, x7>>
      /\ x6' = [x6 EXCEPT !.at = "measure"] \/ x6' = Chat!NoRequest
      /\ x9' = x9
  BY <1>0 DEF Chat!Push, Chat!Command, Chat!Goto, Chat!Done, Chat!Keys
<1>3. RequestOK' /\ x6'.at \notin Shortening
  <2>1. RequestOK /\ x6.at # "end" /\ (x6' = [x6 EXCEPT !.at = "measure"] \/ x6' = Chat!NoRequest)
    BY <1>1, <1>2
  <2> QED BY <2>1, RequestGoesTo DEF Shortening
<1>4. DOMAIN x9' = Chat!Kind
  BY <1>1, <1>2
<1>5. CASE UNCHANGED <<x2, x3, x7>>
  BY <1>3, <1>4, <1>5, KeysStay
<1>6. CASE x2' = [x2 EXCEPT ![s] = Append(@, e)] /\ x7' = [x7 EXCEPT ![s] = Append(@, e)] /\ x3' = x3
  <2>1. /\ x2'[s] = Append(x2[s], e) /\ x7'[s] = Append(x7[s], e) /\ x3'[s] = x3[s]
        /\ DOMAIN x2' = Session /\ DOMAIN x3' = Session /\ DOMAIN x7' = Session
        /\ \A v \in Session : v # s => x2'[v] = x2[v] /\ x3'[v] = x3[v] /\ x7'[v] = x7[v]
    BY <1>1, <1>6
  <2>2. (RequestOn(s))'.at \notin Shortening
    BY <1>3, OnSession
  <2>3. Remembers(Append(x2[s], e), x3[s], Append(x7[s], e), (RequestOn(s))', s \in x9'["summary"])
    BY <1>1, <2>2, Saying DEF SessionOK
  <2>4. SessionOK(s)'
    BY <2>1, <2>3 DEF SessionOK
  <2> QED BY <1>3, <1>4, <2>1, <2>4, OfSession
<1> QED BY <1>2, <1>5, <1>6

LEMMA MeasureKeeps ==
  ASSUME ChatInv, Chat!Measure
  PROVE  ChatInv'
<1>0. PICK s \in Session : s = x6.session
  BY DEF ChatInv, RequestOK, Chat!Measure
<1> DEFINE M == x2[s]
           o == Len(M) - MaxMessages
           r == [x6 EXCEPT !.at = "line", !.over = o, !.rolled = SubSeq(M, 1, o), !.lines = <<>>]
<1>1. /\ x6.at = "measure" /\ RequestOK /\ SessionOK(s)
      /\ DOMAIN x2 = Session /\ DOMAIN x3 = Session /\ DOMAIN x7 = Session /\ DOMAIN x9 = Chat!Kind
  BY <1>0 DEF ChatInv, RequestOK, Chat!Measure
<1>2. /\ UNCHANGED <<x2, x3, x7, x9>>
      /\ \/ x6' = Chat!NoRequest
         \/ x6' = [x6 EXCEPT !.at = "save"]
         \/ Len(M) > MaxMessages /\ x6' = r
  BY <1>0 DEF Chat!Measure, Chat!Command, Chat!Done, Chat!Goto, Chat!Keys
<1>3. CASE x6' = Chat!NoRequest \/ x6' = [x6 EXCEPT !.at = "save"]
  <2>1. RequestOK' /\ x6'.at \notin Shortening
    BY <1>1, <1>3, RequestGoesTo DEF Shortening
  <2> QED BY <1>1, <1>2, <2>1, KeysStay
<1>4. CASE Len(M) > MaxMessages /\ x6' = r
  <2>1. /\ DOMAIN x6' = DOMAIN x6 /\ x6'.at = "line" /\ x6'.session = s /\ x6'.over = Len(M) - MaxMessages
        /\ x6'.rolled = SubSeq(M, 1, x6'.over) /\ x6'.lines = <<>>
    BY <1>0, <1>1, <1>4 DEF RequestOK
  <2>6. Remembers(M, x3[s], x7[s], RequestOn(s), s \in x9["summary"])
    BY <1>1 DEF SessionOK
  <2>2. /\ Remembers(M, x3[s], x7[s], x6', s \in x9["summary"])
        /\ x6'.over \in Nat /\ x6'.rolled \in Seq(ChatMessage)
    <3> HIDE DEF r, o, M
    <3> QED BY <1>4, <2>1, <2>6, Measuring
  <2>3. RequestOK'
    BY <1>1, <2>1, <2>2 DEF RequestOK
  <2>4. (RequestOn(s))' = x6'
    BY <2>1, OnSession
  <2>5. SessionOK(s)'
    BY <1>2, <2>2, <2>4 DEF SessionOK
  <2> QED BY <1>1, <1>2, <2>1, <2>3, <2>5, OfSession
<1> QED BY <1>2, <1>3, <1>4

LEMMA LineKeeps ==
  ASSUME ChatInv, Chat!Line
  PROVE  ChatInv'
<1>0. PICK s \in Session : s = x6.session
  BY DEF ChatInv, RequestOK, Chat!Line
<1>1. /\ x6.at = "line" /\ RequestOK /\ UNCHANGED <<x2, x3, x7, x9>>
      /\ DOMAIN x2 = Session /\ DOMAIN x3 = Session /\ DOMAIN x7 = Session /\ DOMAIN x9 = Chat!Kind
      /\ x6.over \in Nat /\ x6.rolled \in Seq(ChatMessage) /\ x6.lines \in Seq(ChatMessage)
  BY DEF ChatInv, RequestOK, Chat!Line, Chat!Keys
<1>2. Remembers(x2[s], x3[s], x7[s], x6, s \in x9["summary"])
  <2>1. SessionOK(s) /\ RequestOn(s) = x6
    BY <1>0, OnSession DEF ChatInv
  <2> QED BY <2>1 DEF SessionOK
<1>3. /\ x6'.session = s /\ RequestOK'
      /\ Remembers(x2[s], x3[s], x7[s], x6', s \in x9["summary"])
  <2>1. CASE x6.rolled = <<>>
    <3> DEFINE a == IF x6.lines = <<>> THEN "trim" ELSE "roll"
    <3>1. x6' = [x6 EXCEPT !.at = a] /\ a # "push"
      BY <2>1 DEF Chat!Line, Chat!Goto
    <3> HIDE DEF a
    <3>2. /\ RequestOK' /\ x6'.session = s /\ x6'.at = a
          /\ x6'.over = x6.over /\ x6'.rolled = x6.rolled /\ x6'.lines = x6.lines
      BY <1>0, <1>1, <3>1, RequestGoes
    <3>3. Remembers(x2[s], x3[s], x7[s], x6', s \in x9["summary"])
      BY <1>1, <1>2, <2>1, <3>2, LinesRead DEF a
    <3> QED BY <3>2, <3>3
  <2>2. CASE x6.rolled # <<>>
    <3>1. /\ DOMAIN x6' = DOMAIN x6 /\ x6'.at = "line" /\ x6'.session = s /\ x6'.over = x6.over
          /\ x6'.rolled = Tail(x6.rolled)
          /\ x6'.lines = IF Head(x6.rolled) \in Wordless THEN x6.lines ELSE Append(x6.lines, Head(x6.rolled))
      BY <1>0, <1>1, <2>2 DEF Chat!Line, RequestOK
    <3>2. /\ Remembers(x2[s], x3[s], x7[s], x6', s \in x9["summary"])
          /\ x6'.rolled \in Seq(ChatMessage) /\ x6'.lines \in Seq(ChatMessage)
      BY <1>1, <1>2, <2>2, <3>1, LineTaken
    <3>3. RequestOK'
      BY <1>1, <3>1, <3>2 DEF RequestOK
    <3> QED BY <3>1, <3>2, <3>3
  <2> QED BY <2>1, <2>2
<1>4. SessionOK(s)'
  <2>1. (RequestOn(s))' = x6'
    BY <1>3, OnSession
  <2> QED BY <1>1, <1>3, <2>1 DEF SessionOK
<1> QED BY <1>1, <1>3, <1>4, OfSession

LEMMA RollKeeps ==
  ASSUME ChatInv, Chat!Roll
  PROVE  ChatInv'
<1>0. PICK s \in Session : s = x6.session
  BY DEF ChatInv, RequestOK, Chat!Roll
<1> DEFINE A == x3[s] \o x6.lines
           x(c) == SubSeq(A, c + 1, Len(A))
<1>1. /\ x6.at = "roll" /\ RequestOK /\ x6.over \in Nat /\ x6.lines \in Seq(ChatMessage)
      /\ DOMAIN x2 = Session /\ DOMAIN x3 = Session /\ DOMAIN x7 = Session /\ DOMAIN x9 = Chat!Kind
  BY DEF ChatInv, RequestOK, Chat!Roll
<1>2. /\ \/ /\ \E c \in 0..Len(A) : /\ c = 0 \/ Len(A) - c >= SummaryRoom
                                    /\ x3' = [x3 EXCEPT ![s] = x(c)]
            /\ UNCHANGED <<x2, x7>> /\ x9' = [x9 EXCEPT !["summary"] = @ \ {s}]
         \/ UNCHANGED <<x2, x3, x7, x9>> /\ x6' = Chat!NoRequest
      /\ x6' = [x6 EXCEPT !.at = "trim"] \/ x6' = Chat!NoRequest
  BY <1>0 DEF Chat!Roll, Chat!Rolled, Chat!Untimed, Chat!Command, Chat!Goto, Chat!Done, Chat!Keys
<1>3. /\ RequestOK' /\ x6'.at \in {"trim", "end"}
      /\ x6'.at = "trim" => x6'.session = s /\ x6'.over = x6.over
  BY <1>0, <1>1, <1>2, RequestGoes, RequestEnds
<1>4. CASE UNCHANGED <<x2, x3, x7, x9>> /\ x6' = Chat!NoRequest
  <2>1. x6'.at \notin Shortening
    BY <1>4, RequestEnds DEF Shortening
  <2> QED BY <1>1, <1>3, <1>4, <2>1, KeysStay
<1>5. ASSUME NEW c \in 0..Len(A), c = 0 \/ Len(A) - c >= SummaryRoom, x3' = [x3 EXCEPT ![s] = x(c)],
             UNCHANGED <<x2, x7>>, x9' = [x9 EXCEPT !["summary"] = @ \ {s}]
      PROVE  ChatInv'
  <2>1. Remembers(x2[s], x3[s], x7[s], x6, s \in x9["summary"])
    <3>1. SessionOK(s) /\ RequestOn(s) = x6
      BY <1>0, OnSession DEF ChatInv
    <3> QED BY <3>1 DEF SessionOK
  <2>2. s \notin x9'["summary"] /\ DOMAIN x9' = Chat!Kind
    BY <1>1, <1>5 DEF Chat!Kind
  <2>3. LET q == (RequestOn(s))'
        IN q.at \notin Shortening \/ (q.at = "trim" /\ q.over = x6.over)
    BY <1>3 DEF RequestOn, Chat!NoRequest, Shortening
  <2> DEFINE S2 == x(c)
  <2>4. Remembers(x2[s], S2, x7[s], (RequestOn(s))', s \in x9'["summary"])
    BY <1>1, <1>5, <2>1, <2>2, <2>3, Rolling
  <2> HIDE DEF S2
  <2>5. /\ x3'[s] = S2 /\ x2'[s] = x2[s] /\ x7'[s] = x7[s]
        /\ DOMAIN x2' = Session /\ DOMAIN x3' = Session /\ DOMAIN x7' = Session
        /\ \A v \in Session : v # s => x2'[v] = x2[v] /\ x3'[v] = x3[v] /\ x7'[v] = x7[v]
    BY <1>1, <1>5 DEF S2
  <2>6. SessionOK(s)'
    BY <2>4, <2>5 DEF SessionOK
  <2>7. x6'.at \notin Shortening \/ x6'.session = s
    BY <1>3 DEF Shortening
  <2> QED BY <1>3, <2>2, <2>5, <2>6, <2>7, OfSession
<1> QED BY <1>2, <1>4, <1>5

LEMMA TrimKeeps ==
  ASSUME ChatInv, Chat!Trim
  PROVE  ChatInv'
<1>0. PICK s \in Session : s = x6.session
  BY DEF ChatInv, RequestOK, Chat!Trim
<1>1. /\ x6.at = "trim" /\ RequestOK /\ x6.over \in Nat
      /\ DOMAIN x2 = Session /\ DOMAIN x3 = Session /\ DOMAIN x7 = Session /\ DOMAIN x9 = Chat!Kind
  BY DEF ChatInv, RequestOK, Chat!Trim
<1>2. /\ \/ x2' = [x2 EXCEPT ![s] = SubSeq(@, x6.over + 1, Len(@))] /\ UNCHANGED <<x3, x7>>
         \/ UNCHANGED <<x2, x3, x7>>
      /\ x6' = [x6 EXCEPT !.at = "save"] \/ x6' = Chat!NoRequest
      /\ x9' = x9
  BY <1>0 DEF Chat!Trim, Chat!Trimmed, Chat!Command, Chat!Goto, Chat!Done, Chat!Keys
<1>3. RequestOK' /\ x6'.at \notin Shortening /\ DOMAIN x9' = Chat!Kind
  <2>1. RequestOK /\ x6.at # "end" /\ (x6' = [x6 EXCEPT !.at = "save"] \/ x6' = Chat!NoRequest)
    BY <1>1, <1>2
  <2>2. RequestOK' /\ x6'.at \notin Shortening
    BY <2>1, RequestGoesTo DEF Shortening
  <2> QED BY <1>1, <1>2, <2>2
<1>4. CASE UNCHANGED <<x2, x3, x7>>
  BY <1>3, <1>4, KeysStay
<1>5. CASE x2' = [x2 EXCEPT ![s] = SubSeq(@, x6.over + 1, Len(@))] /\ UNCHANGED <<x3, x7>>
  <2>1. Remembers(x2[s], x3[s], x7[s], x6, s \in x9["summary"])
    <3>1. SessionOK(s) /\ RequestOn(s) = x6
      BY <1>0, OnSession DEF ChatInv
    <3> QED BY <3>1 DEF SessionOK
  <2>2. (RequestOn(s))'.at \notin Shortening
    BY <1>3, OnSession
  <2> DEFINE M == SubSeq(x2[s], x6.over + 1, Len(x2[s]))
  <2>3. Remembers(M, x3[s], x7[s], (RequestOn(s))', s \in x9'["summary"])
    BY <1>1, <2>1, <2>2, Trimming
  <2> HIDE DEF M
  <2>4. /\ x2'[s] = M /\ x3'[s] = x3[s] /\ x7'[s] = x7[s]
        /\ DOMAIN x2' = Session /\ DOMAIN x3' = Session /\ DOMAIN x7' = Session
        /\ \A v \in Session : v # s => x2'[v] = x2[v] /\ x3'[v] = x3[v] /\ x7'[v] = x7[v]
    BY <1>1, <1>5 DEF M
  <2>5. SessionOK(s)'
    BY <2>3, <2>4 DEF SessionOK
  <2> QED BY <1>3, <2>4, <2>5, OfSession
<1> QED BY <1>2, <1>4, <1>5

\* The record, the index and the times to live are written.
LEMMA IndexingKeeps ==
  ASSUME ChatInv,
         \/ Chat!SaveRecord \/ Chat!Index \/ Chat!Unindex \/ Chat!ListSessions
         \/ Chat!Touch("record", Chat!Goto("messages")) \/ Chat!Touch("messages", Chat!Goto("summary"))
         \/ Chat!Touch("summary", Chat!Done)
  PROVE  ChatInv'
<1>0. RequestOK /\ DOMAIN x9 = Chat!Kind
  BY DEF ChatInv
<1>1. /\ UNCHANGED <<x2, x3, x7>>
      /\ \/ x6' = Chat!NoRequest
         \/ x6.at # "end" /\ \E a \in {"index", "record", "messages", "summary"} : x6' = [x6 EXCEPT !.at = a]
      /\ x9' = x9 \/ \E k \in Chat!Kind : \E S : x9' = [x9 EXCEPT ![k] = S]
  <2>1. CASE Chat!SaveRecord
    BY <2>1 DEF Chat!SaveRecord, Chat!Command, Chat!Goto, Chat!Done, Chat!Keys, Chat!Untimed, Chat!Kind
  <2>2. CASE Chat!Index
    BY <2>2 DEF Chat!Index, Chat!Command, Chat!Goto, Chat!Done, Chat!Keys
  <2>3. CASE Chat!Unindex
    BY <2>3 DEF Chat!Unindex, Chat!Command, Chat!Done, Chat!Keys
  <2>4. CASE Chat!ListSessions
    BY <2>4 DEF Chat!ListSessions, Chat!Command, Chat!Done, Chat!Keys
  <2>5. CASE Chat!Touch("record", Chat!Goto("messages"))
    BY <2>5 DEF Chat!Touch, Chat!Command, Chat!Goto, Chat!Done, Chat!Keys, Chat!Kind
  <2>6. CASE Chat!Touch("messages", Chat!Goto("summary"))
    BY <2>6 DEF Chat!Touch, Chat!Command, Chat!Goto, Chat!Done, Chat!Keys, Chat!Kind
  <2>7. CASE Chat!Touch("summary", Chat!Done)
    BY <2>7 DEF Chat!Touch, Chat!Command, Chat!Done, Chat!Keys, Chat!Kind
  <2> QED BY <2>1, <2>2, <2>3, <2>4, <2>5, <2>6, <2>7
<1>2. RequestOK' /\ x6'.at \notin Shortening
  <2>1. CASE x6' = Chat!NoRequest
    BY <2>1, RequestEnds DEF Shortening
  <2>2. ASSUME x6.at # "end", NEW a \in {"index", "record", "messages", "summary"}, x6' = [x6 EXCEPT !.at = a]
        PROVE  RequestOK' /\ x6'.at \notin Shortening
    <3>1. a \notin Shortening /\ a # "push"
      BY DEF Shortening
    <3> QED BY <1>0, <2>2, <3>1, RequestGoesTo
  <2> QED BY <1>1, <2>1, <2>2
<1>3. DOMAIN x9' = Chat!Kind
  BY <1>0, <1>1, KindsStay
<1> QED BY <1>1, <1>2, <1>3, KeysStay

LEMMA DeleteKeeps ==
  ASSUME ChatInv, Chat!Delete
  PROVE  ChatInv'
<1>0. PICK s \in Session : s = x6.session
  BY DEF ChatInv, RequestOK, Chat!Delete
<1>1. /\ x6.at # "end" /\ RequestOK /\ DOMAIN x9 = Chat!Kind
      /\ DOMAIN x2 = Session /\ DOMAIN x3 = Session /\ DOMAIN x7 = Session
  BY DEF ChatInv, RequestOK, Chat!Delete
<1>2. /\ \/ /\ x2' = [x2 EXCEPT ![s] = <<>>] /\ x3' = [x3 EXCEPT ![s] = <<>>] /\ x7' = [x7 EXCEPT ![s] = <<>>]
            /\ x9' = [k \in Chat!Kind |-> x9[k] \ {s}]
         \/ UNCHANGED <<x2, x3, x7, x9>>
      /\ x6' = [x6 EXCEPT !.at = "unindex"] \/ x6' = Chat!NoRequest
  BY <1>0 DEF Chat!Delete, Chat!Command, Chat!Goto, Chat!Done, Chat!Keys
<1>3. RequestOK' /\ x6'.at \notin Shortening
  <2>1. RequestOK /\ x6.at # "end" /\ (x6' = [x6 EXCEPT !.at = "unindex"] \/ x6' = Chat!NoRequest)
    BY <1>1, <1>2
  <2> QED BY <2>1, RequestGoesTo DEF Shortening
<1>4. DOMAIN x9' = Chat!Kind
  BY <1>1, <1>2
<1>5. CASE UNCHANGED <<x2, x3, x7>>
  BY <1>3, <1>4, <1>5, KeysStay
<1>6. CASE x2' = [x2 EXCEPT ![s] = <<>>] /\ x3' = [x3 EXCEPT ![s] = <<>>] /\ x7' = [x7 EXCEPT ![s] = <<>>]
  <2>1. /\ x2'[s] = <<>> /\ x3'[s] = <<>> /\ x7'[s] = <<>> /\ <<>> \in Seq(ChatMessage)
        /\ DOMAIN x2' = Session /\ DOMAIN x3' = Session /\ DOMAIN x7' = Session
        /\ \A v \in Session : v # s => x2'[v] = x2[v] /\ x3'[v] = x3[v] /\ x7'[v] = x7[v]
    BY <1>1, <1>6
  <2>2. SessionOK(s)'
    BY <2>1, ListLost DEF SessionOK
  <2> QED BY <1>3, <1>4, <2>1, <2>2, OfSession
<1> QED BY <1>2, <1>5, <1>6

\* A key expires in the middle of a request, or between two.
LEMMA ExpiryKeeps ==
  ASSUME ChatInv, Chat!ExpireIndex \/ \E s \in Session : Chat!ExpireRecord(s)
  PROVE  ChatInv'
<1>1. /\ UNCHANGED <<x2, x3, x6, x7>>
      /\ x9' = x9 \/ \E s \in Session : x9' = [x9 EXCEPT !["record"] = @ \ {s}]
  BY DEF Chat!ExpireIndex, Chat!ExpireRecord, Chat!Untimed
<1>2. DOMAIN x9' = Chat!Kind /\ x9'["summary"] \subseteq x9["summary"]
  BY <1>1 DEF ChatInv, Chat!Kind
<1>3. RequestOK'
  BY <1>1 DEF ChatInv, RequestOK
<1> QED BY <1>1, <1>2, <1>3, KeysStay

LEMMA ListExpiryKeeps ==
  ASSUME ChatInv, NEW s \in Session, Chat!ExpireMessages(s)
  PROVE  ChatInv'
<1>1. /\ DOMAIN x2 = Session /\ DOMAIN x3 = Session /\ DOMAIN x7 = Session /\ DOMAIN x9 = Chat!Kind
      /\ RequestOK /\ SessionOK(s)
  BY DEF ChatInv
<1>2. /\ x2' = [x2 EXCEPT ![s] = <<>>] /\ x7' = [x7 EXCEPT ![s] = <<>>] /\ x3' = x3 /\ x6' = x6
      /\ x9' = [x9 EXCEPT !["messages"] = @ \ {s}]
  BY DEF Chat!ExpireMessages, Chat!Untimed
<1>3. /\ x2'[s] = <<>> /\ x7'[s] = <<>> /\ x3'[s] = x3[s]
      /\ DOMAIN x2' = Session /\ DOMAIN x3' = Session /\ DOMAIN x7' = Session
      /\ \A v \in Session : v # s => x2'[v] = x2[v] /\ x3'[v] = x3[v] /\ x7'[v] = x7[v]
  BY <1>1, <1>2
<1>4. DOMAIN x9' = Chat!Kind /\ x9'["summary"] \subseteq x9["summary"]
  BY <1>1, <1>2 DEF Chat!Kind
<1>5. RequestOK'
  <2>1. ASSUME NEW e, NEW v \in Session, ~In(e, x7[v]) PROVE ~In(e, x7'[v])
    <3>1. CASE v = s
      <4>1. Len(x7'[v]) = 0
        BY <1>3, <3>1
      <4> QED BY <4>1 DEF In
    <3>2. CASE v # s
      BY <1>3, <2>1, <3>2
    <3> QED BY <3>1, <3>2
  <2> QED BY <1>1, <1>2, <2>1 DEF RequestOK
<1>6. SessionOK(s)'
  <2>1. x3[s] \in Seq(ChatMessage)
    BY <1>1 DEF SessionOK, Remembers
  <2> QED BY <1>3, <2>1, ListLost DEF SessionOK
<1> QED BY <1>1, <1>2, <1>3, <1>4, <1>5, <1>6, OfSession

LEMMA SummaryExpiryKeeps ==
  ASSUME ChatInv, NEW s \in Session, Chat!ExpireSummary(s)
  PROVE  ChatInv'
<1>1. /\ DOMAIN x2 = Session /\ DOMAIN x3 = Session /\ DOMAIN x7 = Session /\ DOMAIN x9 = Chat!Kind
      /\ RequestOK /\ SessionOK(s) /\ s \in x9["summary"]
  BY DEF ChatInv, Chat!ExpireSummary
<1>2. /\ x3' = [x3 EXCEPT ![s] = <<>>] /\ x7' = [x7 EXCEPT ![s] = x2[s]] /\ x2' = x2 /\ x6' = x6
      /\ x9' = [x9 EXCEPT !["summary"] = @ \ {s}]
  BY DEF Chat!ExpireSummary, Chat!Untimed
<1>3. /\ x2'[s] = x2[s] /\ x7'[s] = x2[s] /\ x3'[s] = <<>>
      /\ DOMAIN x2' = Session /\ DOMAIN x3' = Session /\ DOMAIN x7' = Session
      /\ \A v \in Session : v # s => x2'[v] = x2[v] /\ x3'[v] = x3[v] /\ x7'[v] = x7[v]
  BY <1>1, <1>2
<1>4. DOMAIN x9' = Chat!Kind /\ x9'["summary"] \subseteq x9["summary"]
  BY <1>1, <1>2 DEF Chat!Kind
<1>5. RequestOK'
  <2>1. ASSUME NEW e, NEW v \in Session, ~In(e, x7[v]) PROVE ~In(e, x7'[v])
    <3>1. CASE v = s
      <4> DEFINE M == x2[s]
                 D == x7[s]
      <4>1. PICK k : Ends(M, D, k)
        BY <1>1 DEF SessionOK, Remembers
      <4>2. M \in Seq(ChatMessage) /\ D \in Seq(ChatMessage)
        BY <1>1 DEF SessionOK, Remembers
      <4>3. ~In(e, D) /\ x7'[v] = M
        BY <1>3, <2>1, <3>1
      <4> HIDE DEF M, D
      <4>4. \A p \in 1..Len(M) : k + p \in 1..Len(D) /\ M[p] = D[k + p]
        <5>1. Len(M) \in Nat /\ Len(D) \in Nat
          BY <4>2
        <5> QED BY <4>1, <5>1 DEF Ends
      <4> QED BY <4>3, <4>4 DEF In
    <3>2. CASE v # s
      BY <1>3, <2>1, <3>2
    <3> QED BY <3>1, <3>2
  <2> QED BY <1>1, <1>2, <2>1 DEF RequestOK
<1>6. SessionOK(s)'
  <2>1. (RequestOn(s))' = RequestOn(s)
    BY <1>2 DEF RequestOn, Chat!NoRequest
  <2>2. RequestOn(s).over \in Nat
    BY <1>1 DEF RequestOn, RequestOK, Chat!NoRequest
  <2>3. Remembers(x2[s], x3[s], x7[s], RequestOn(s), s \in x9["summary"])
    BY <1>1 DEF SessionOK
  <2>4. Remembers(x2[s], <<>>, x2[s], RequestOn(s), s \in x9'["summary"])
    BY <1>1, <2>2, <2>3, SummaryLost
  <2> QED BY <1>3, <2>1, <2>4 DEF SessionOK
<1> QED BY <1>1, <1>2, <1>3, <1>4, <1>5, <1>6, OfSession

LEMMA ChatSteps ==
  ASSUME ChatInv, [Chat!Next]_(Chat!chatVars)
  PROVE  ChatInv'
<1>1. CASE UNCHANGED Chat!chatVars
  BY <1>1 DEF Chat!chatVars, ChatInv, RequestOK, SessionOK, RequestOn
<1>2. CASE \E s \in Session : Chat!ExpireMessages(s) \/ Chat!ExpireSummary(s)
  BY <1>2, ListExpiryKeeps, SummaryExpiryKeeps
<1> QED
  BY <1>1, <1>2, BeginningKeeps, PushKeeps, MeasureKeeps, LineKeeps, RollKeeps, TrimKeeps, IndexingKeeps,
     DeleteKeeps, ExpiryKeeps
     DEF Chat!Next

LEMMA ChatInvariant == ServicesSpec => [](part = "chat" => ChatInv)
<1>1. ServicesInit => (part = "chat" => ChatInv)
  BY ChatStarts DEF ServicesInit
<1>2. (part = "chat" => ChatInv) /\ [ServicesNext]_vars => (part = "chat" => ChatInv)'
  <2> SUFFICES ASSUME part' = "chat", part = "chat" => ChatInv, [ServicesNext]_vars
      PROVE  ChatInv'
    OBVIOUS
  <2>1. part = "chat" /\ [Chat!Next]_(Chat!chatVars)
    BY DEF ServicesNext, vars, From5, From7, From8, From9, Chat!chatVars
  <2> QED
    BY <2>1, ChatSteps
<1> QED
  BY <1>1, <1>2, PTL DEF ServicesSpec

\* A and B end with the same r messages.
EndsAlike(A, B, r) ==
  /\ A \in Seq(ChatMessage) /\ B \in Seq(ChatMessage) /\ r \in Nat /\ r <= Len(A) /\ r <= Len(B)
  /\ \A p \in 1..r : A[(Len(A) - r) + p] = B[(Len(B) - r) + p]

LEMMA LastOnes ==
  ASSUME NEW Q \in Seq(ChatMessage), NEW n \in Nat
  PROVE  LET L == Chat!LastOf(Q, n)
         IN  /\ L \in Seq(ChatMessage) /\ Len(L) = (IF Len(Q) > n THEN n ELSE Len(Q))
             /\ \A p \in 1..Len(L) : L[p] = Q[(Len(Q) - Len(L)) + p]
<1> DEFINE c == IF Len(Q) > n THEN Len(Q) - n ELSE 0
           L == Chat!LastOf(Q, n)
<1>1. Len(Q) \in Nat
  OBVIOUS
<1>2. c \in 0..Len(Q) /\ Len(Q) - c = (IF Len(Q) > n THEN n ELSE Len(Q))
  BY <1>1
<1>3. L = SubSeq(Q, c + 1, Len(Q))
  BY <1>1 DEF Chat!LastOf
<1> HIDE DEF c
<1>4. L \in Seq(ChatMessage) /\ Len(L) = Len(Q) - c /\ \A p \in 1..Len(Q) - c : L[p] = Q[c + p]
  BY <1>2, <1>3, Tails
<1> HIDE DEF L
<1>5. Len(Q) - Len(L) = c
  BY <1>1, <1>2, <1>4
<1> QED BY <1>2, <1>4, <1>5 DEF L

LEMMA SameLast ==
  ASSUME NEW A, NEW B, NEW r, EndsAlike(A, B, r)
  PROVE  Chat!LastOf(A, r) = Chat!LastOf(B, r)
<1> DEFINE X == Chat!LastOf(A, r)
           Y == Chat!LastOf(B, r)
<1>1. A \in Seq(ChatMessage) /\ B \in Seq(ChatMessage) /\ r \in Nat /\ r <= Len(A) /\ r <= Len(B)
  BY DEF EndsAlike
<1>2. Len(A) \in Nat /\ Len(B) \in Nat
  BY <1>1
<1>3. X \in Seq(ChatMessage) /\ Len(X) = r /\ \A p \in 1..r : X[p] = A[(Len(A) - r) + p]
  <2>1. /\ X \in Seq(ChatMessage) /\ Len(X) = (IF Len(A) > r THEN r ELSE Len(A))
        /\ \A p \in 1..Len(X) : X[p] = A[(Len(A) - Len(X)) + p]
    BY <1>1, LastOnes
  <2> HIDE DEF X
  <2>2. Len(X) = r
    BY <1>1, <1>2, <2>1
  <2> QED BY <2>1, <2>2
<1>4. Y \in Seq(ChatMessage) /\ Len(Y) = r /\ \A p \in 1..r : Y[p] = B[(Len(B) - r) + p]
  <2>1. /\ Y \in Seq(ChatMessage) /\ Len(Y) = (IF Len(B) > r THEN r ELSE Len(B))
        /\ \A p \in 1..Len(Y) : Y[p] = B[(Len(B) - Len(Y)) + p]
    BY <1>1, LastOnes
  <2> HIDE DEF Y
  <2>2. Len(Y) = r
    BY <1>1, <1>2, <2>1
  <2> QED BY <2>1, <2>2
<1> HIDE DEF X, Y
<1>5. \A p \in 1..r : X[p] = Y[p]
  BY <1>3, <1>4 DEF EndsAlike
<1>6. X = Y
  BY <1>3, <1>4, <1>5, SeqEqual
<1> QED BY <1>6 DEF X, Y

LEMMA AlikeThrough ==
  ASSUME NEW A, NEW B, NEW C, NEW r, EndsAlike(A, B, r), EndsAlike(B, C, r)
  PROVE  EndsAlike(A, C, r)
BY DEF EndsAlike

\* What a session still remembers is the newest of what was said in it.
LEMMA NewestOfSession ==
  ASSUME ChatInv, NEW s \in Session
  PROVE  LET out == Len(x7[s]) - Len(x2[s])
             recent == Chat!LastOf(x7[s], IF HistoryLimit < MaxMessages THEN HistoryLimit ELSE MaxMessages)
         IN  /\ x2[s] = SubSeq(x7[s], out + 1, Len(x7[s]))
             /\ \E n \in out..Len(x7[s]) : Chat!Recalls(x3[s], x7[s], n)
             /\ Chat!LastOf(Chat!History(s), Len(recent)) = recent
<1> DEFINE M == x2[s]
           S == x3[s]
           D == x7[s]
           w == IF HistoryLimit < MaxMessages THEN HistoryLimit ELSE MaxMessages
           T == Chat!LastOf(M, HistoryLimit)
           R == Chat!LastOf(D, w)
           H == S \o T
<1>0. Remembers(M, S, D, RequestOn(s), s \in x9["summary"]) /\ Chat!History(s) = H
  BY DEF ChatInv, SessionOK, Chat!History
<1> HIDE DEF M, S, D
<1>1. M \in Seq(ChatMessage) /\ S \in Seq(ChatMessage) /\ D \in Seq(ChatMessage)
  BY <1>0 DEF Remembers
<1>2. PICK k, n \in 0..Len(D) :
        k <= n /\ Ends(M, D, k) /\ (k > 0 => Len(M) >= MaxMessages) /\ Kept(S, D, n)
  BY <1>0 DEF Remembers
<1>3. /\ Len(M) \in Nat /\ Len(D) \in Nat /\ Len(S) \in Nat /\ k \in Nat /\ n \in Nat
      /\ Len(M) = Len(D) - k /\ Len(D) - Len(M) = k
  BY <1>1, <1>2 DEF Ends
<1>4. M = SubSeq(D, (Len(D) - Len(M)) + 1, Len(D))
  <2> DEFINE E == SubSeq(D, k + 1, Len(D))
  <2>1. E \in Seq(ChatMessage) /\ Len(E) = Len(D) - k /\ \A p \in 1..Len(D) - k : E[p] = D[k + p]
    BY <1>1, <1>3, Tails
  <2>4. E = SubSeq(D, (Len(D) - Len(M)) + 1, Len(D))
    BY <1>3
  <2> HIDE DEF E
  <2>2. Len(M) = Len(E) /\ \A p \in 1..Len(M) : M[p] = E[p]
    BY <1>2, <1>3, <2>1 DEF Ends
  <2>3. M = E
    BY <1>1, <2>1, <2>2, SeqEqual
  <2> QED BY <2>3, <2>4
<1>5. \E m \in (Len(D) - Len(M))..Len(D) : Chat!Recalls(S, D, m)
  <2>1. Chat!Recalls(S, D, n) /\ n \in (Len(D) - Len(M))..Len(D)
    BY <1>1, <1>2, <1>3, KeptIsRecalled
  <2> QED BY <2>1
<1>6. w \in Nat /\ w <= HistoryLimit /\ w <= MaxMessages
  BY ChatNumbers
<1> HIDE DEF w
<1>7. /\ T \in Seq(ChatMessage) /\ Len(T) = (IF Len(M) > HistoryLimit THEN HistoryLimit ELSE Len(M))
      /\ \A p \in 1..Len(T) : T[p] = M[(Len(M) - Len(T)) + p]
  BY <1>1, ChatNumbers, LastOnes
<1>8. R \in Seq(ChatMessage) /\ Len(R) = (IF Len(D) > w THEN w ELSE Len(D))
  BY <1>1, <1>6, LastOnes
<1>9. H \in Seq(ChatMessage) /\ Len(H) = Len(S) + Len(T) /\ \A p \in 1..Len(T) : H[Len(S) + p] = T[p]
  BY <1>1, <1>7, Joined
<1> HIDE DEF T, H
<1> DEFINE r == Len(R)
<1>10. r \in Nat /\ r <= Len(M) /\ r <= Len(D) /\ r <= Len(T) /\ r <= Len(H) /\ Len(T) \in Nat /\ Len(H) \in Nat
       /\ R = Chat!LastOf(D, r)
  <2>1. Len(R) = (IF Len(D) > w THEN w ELSE Len(D)) /\ Len(R) \in Nat
    BY <1>8
  <2>2. R = Chat!LastOf(D, Len(R))
    <3>1. Len(R) = w \/ (Len(R) = Len(D) /\ ~(Len(D) > w))
      BY <2>1
    <3>2. CASE Len(R) = w
      <4>1. R = Chat!LastOf(D, w)
        OBVIOUS
      <4> HIDE DEF R
      <4> QED BY <3>2, <4>1
    <3>3. CASE Len(R) = Len(D) /\ ~(Len(D) > w)
      <4>1. R = SubSeq(D, 1, Len(D))
        BY <3>3 DEF Chat!LastOf
      <4> HIDE DEF R
      <4>2. Chat!LastOf(D, Len(R)) = SubSeq(D, 1, Len(D))
        BY <1>3, <3>3 DEF Chat!LastOf
      <4> QED BY <4>1, <4>2
    <3> QED BY <3>1, <3>2, <3>3
  <2> HIDE DEF R
  <2>3. Len(T) \in Nat /\ Len(H) \in Nat
    BY <1>7, <1>9
  <2>4. Len(R) <= Len(D) /\ Len(R) <= w
    BY <1>3, <1>6, <2>1
  <2>5. Len(R) <= Len(M)
    BY <1>2, <1>3, <1>6, <2>1, <2>4, ChatNumbers
  <2>6. Len(R) <= Len(T)
    BY <1>3, <1>6, <1>7, <2>1, <2>4, <2>5, ChatNumbers
  <2>7. Len(R) <= Len(H)
    BY <1>3, <1>9, <2>1, <2>3, <2>6
  <2> QED BY <2>1, <2>2, <2>3, <2>4, <2>5, <2>6, <2>7
<1> HIDE DEF R, r
<1>11. EndsAlike(H, T, r)
  <2>1. ASSUME NEW p \in 1..r PROVE H[(Len(H) - r) + p] = T[(Len(T) - r) + p]
    <3>1. (Len(T) - r) + p \in 1..Len(T) /\ Len(S) + ((Len(T) - r) + p) = (Len(H) - r) + p
      BY <1>3, <1>9, <1>10
    <3>2. H[Len(S) + ((Len(T) - r) + p)] = T[(Len(T) - r) + p]
      BY <1>9, <3>1
    <3> QED BY <3>1, <3>2
  <2> QED BY <1>7, <1>9, <1>10, <2>1 DEF EndsAlike
<1>12. EndsAlike(T, M, r)
  <2>1. ASSUME NEW p \in 1..r PROVE T[(Len(T) - r) + p] = M[(Len(M) - r) + p]
    <3>1. (Len(T) - r) + p \in 1..Len(T) /\ (Len(M) - Len(T)) + ((Len(T) - r) + p) = (Len(M) - r) + p
      BY <1>3, <1>10
    <3>2. T[(Len(T) - r) + p] = M[(Len(M) - Len(T)) + ((Len(T) - r) + p)]
      BY <1>7, <3>1
    <3> QED BY <3>1, <3>2
  <2> QED BY <1>1, <1>7, <1>10, <2>1 DEF EndsAlike
<1>13. EndsAlike(M, D, r)
  <2>1. ASSUME NEW p \in 1..r PROVE M[(Len(M) - r) + p] = D[(Len(D) - r) + p]
    <3>1. (Len(M) - r) + p \in 1..Len(M) /\ k + ((Len(M) - r) + p) = (Len(D) - r) + p
      BY <1>3, <1>10
    <3>2. M[(Len(M) - r) + p] = D[k + ((Len(M) - r) + p)]
      BY <1>2, <3>1 DEF Ends
    <3> QED BY <3>1, <3>2
  <2> QED BY <1>1, <1>10, <2>1 DEF EndsAlike
<1>14. Chat!LastOf(H, r) = Chat!LastOf(D, r)
  BY <1>11, <1>12, <1>13, AlikeThrough, SameLast
<1>15. Chat!LastOf(Chat!History(s), Len(R)) = R
  BY <1>0, <1>10, <1>14 DEF r
<1> QED BY <1>4, <1>5, <1>15 DEF M, S, D, R, w

\* What a session remembers is the newest of what was said in it, whichever command of a request fails
\* and whenever its keys expire: the list is its end, the summary holds what went before without a gap
\* up to what was cut off, and a history ends with the last messages said.
THEOREM NewestIsRemembered == ServicesSpec => []NewestRemembered
<1>1. (part = "chat" => ChatInv) => NewestRemembered
  BY NewestOfSession DEF NewestRemembered, Chat!NewestRemembered
<1> QED
  BY <1>1, ChatInvariant, PTL
===============================================================================
