----------------------------- MODULE DocumentParser -----------------------------
(* Scanned pages and pictures of uploaded contracts, read by the private parser   *)
(* service: uploads that share a service, each with a time and a call budget; an  *)
(* HTTP server that admits one body; a model process behind a pipe that is        *)
(* replaced when it does not answer. A caller that gave up leaves its conversion. *)
EXTENDS Naturals, Sequences, FiniteSets

CONSTANTS
  Upload,
  Scans(_),     \* pages of an upload without text of their own
  Pictures(_),  \* pictures of an upload that are worth reading
  Word,         \* uploads that are Word files
  MaxPages,     \* MAX_OCR_PAGES: pages of a call, and calls of an upload
  NoJob,
  ParserFaults  \* bound of the runs: deaths of the model process

Items(u) == Scans(u) \cup Pictures(u)

\* A job is the pages of one upload that one call sends.
Job == [by : Upload, pages : UNION {SUBSET Items(u) : u \in Upload}]

ParserAssumption ==
  /\ MaxPages \in Nat \ {0} /\ ParserFaults \in Nat /\ NoJob \notin Job
  /\ \A u \in Upload : IsFiniteSet(Scans(u)) /\ Scans(u) \cap Pictures(u) = {}
  /\ \A u \in Word : Scans(u) = {}

VARIABLES
  upload,    \* each upload's parsing: what is read and noted, the call under way
  handler,   \* the server's side of an upload's call
  admission, \* the upload whose body the server holds
  child,     \* the model process
  inbox, outbox, \* the two directions of its pipe
  ready,     \* the server has seen it ready
  deaths

parserVars == <<upload, handler, admission, child, inbox, outbox, ready, deaths>>

\* Every picture of a Word file is noted as unread when the file is parsed.
Fresh(u) == [at |-> "next", left |-> Items(u), call |-> {}, calls |-> 0, late |-> FALSE,
             text |-> [p \in Items(u) |-> NoJob],
             noted |-> IF u \in Word THEN Pictures(u) ELSE {}]

NoHandler == [at |-> "none", answer |-> "none", job |-> NoJob, read |-> {}]

Init ==
  /\ upload = [u \in Upload |-> Fresh(u)]
  /\ handler = [u \in Upload |-> NoHandler]
  /\ admission = NoJob
  /\ child = [at |-> "idle", job |-> NoJob]
  /\ inbox = <<>> /\ outbox = <<>> /\ ready = TRUE /\ deaths = 0

Refusal(code) == [at |-> "answered", answer |-> code, job |-> NoJob, read |-> {}]

-------------------------------------------------------------------------------
(* An upload: the scanned pages in one call, then each picture in its own *)

\* Scans beyond the first MaxPages are left to the end; which are the first is left open.
Selected(u) == {S \in SUBSET Scans(u) :
                  \/ S = Scans(u) /\ Cardinality(S) <= MaxPages
                  \/ Cardinality(S) = MaxPages}

CallsOf(u) ==
  IF Scans(u) # {} /\ upload[u].left = Items(u) THEN Selected(u)
  ELSE {{p} : p \in upload[u].left \cap Pictures(u)}

\* The budget of the upload is asked before every call.
Reserved(u) == ~upload[u].late /\ upload[u].calls < MaxPages

Ask(u) ==
  /\ upload[u].at = "next" /\ Reserved(u)
  /\ \E S \in CallsOf(u) :
       /\ upload' = [upload EXCEPT ![u].at = "waiting", ![u].call = S, ![u].left = @ \ S, ![u].calls = @ + 1]
       /\ handler' = [handler EXCEPT ![u] = [NoHandler EXCEPT !.at = "arrived", !.job = [by |-> u, pages |-> S]]]
  /\ UNCHANGED <<admission, child, inbox, outbox, ready, deaths>>

\* No call: the budget is used up, or the page or picture cannot be rendered. It is noted.
Pass(u) ==
  /\ upload[u].at = "next"
  /\ \E S \in CallsOf(u) :
       upload' = [upload EXCEPT ![u].left = @ \ S, ![u].noted = @ \cup S]
  /\ UNCHANGED <<handler, admission, child, inbox, outbox, ready, deaths>>

\* The pages whose text came; whatever came or not, each page of the call is noted.
Note(u, job, read) ==
  upload' = [upload EXCEPT
    ![u].at = "next",
    ![u].text = [p \in Items(u) |-> IF p \in read THEN job ELSE upload[u].text[p]],
    ![u].noted = @ \cup upload[u].call,
    ![u].call = {}]

\* An answer numbers its pages from one: they are taken for the pages of the call.
Renumbered(call, read) == IF read \subseteq call THEN read ELSE call

\* An answer with more pages than were sent is not trusted.
Received(u) ==
  /\ upload[u].at = "waiting" /\ handler[u].at = "answered"
  /\ LET h == handler[u]
         valid == h.answer = "result" /\ Cardinality(h.read) <= Cardinality(upload[u].call)
     IN Note(u, h.job, IF valid THEN Renumbered(upload[u].call, h.read) ELSE {})
  /\ handler' = [handler EXCEPT ![u] = NoHandler]
  /\ UNCHANGED <<admission, child, inbox, outbox, ready, deaths>>

\* The whole of the upload's time is used; the server may be at work for it still.
Late(u) ==
  /\ upload[u].at \in {"next", "waiting"} /\ ~upload[u].late
  /\ upload' = [upload EXCEPT ![u].late = TRUE]
  /\ UNCHANGED <<handler, admission, child, inbox, outbox, ready, deaths>>

\* The connection is not made, or breaks before the server reads the request.
Unconnected(u) ==
  /\ upload[u].at = "waiting" /\ handler[u].at = "arrived"
  /\ Note(u, NoJob, {}) /\ handler' = [handler EXCEPT ![u] = NoHandler]
  /\ UNCHANGED <<admission, child, inbox, outbox, ready, deaths>>

GiveUp(u) ==
  /\ upload[u].at = "waiting" /\ upload[u].late
  /\ Note(u, NoJob, {})
  /\ UNCHANGED <<handler, admission, child, inbox, outbox, ready, deaths>>

\* Scans that were never sent are noted, and the file is stored.
Parsed(u) ==
  /\ upload[u].at = "next" /\ CallsOf(u) = {}
  /\ upload' = [upload EXCEPT ![u].at = "end", ![u].left = {}, ![u].noted = @ \cup upload[u].left]
  /\ UNCHANGED <<handler, admission, child, inbox, outbox, ready, deaths>>

Read(u) == {p \in Items(u) : upload[u].text[p] # NoJob}

\* Of a file without text of its own.
ParsingStatus(u) ==
  IF Read(u) = {} THEN "needs_ocr" ELSE IF upload[u].noted # {} THEN "partial" ELSE "ready"

-------------------------------------------------------------------------------
(* The server. Its event loop and the thread of a conversion both ask for readiness *)

\* The first message of a process says whether its models were loaded.
SeenReady == ready \/ (outbox # <<>> /\ Head(outbox).answer = "ready")

LooksReady ==
  /\ child.at # "dead" /\ SeenReady
  /\ ready' = TRUE
  /\ outbox' = IF ready THEN outbox ELSE Tail(outbox)

LooksUnready ==
  /\ child.at = "dead" \/ ~SeenReady
  /\ UNCHANGED <<ready, outbox>>

Health ==
  /\ LooksReady \/ LooksUnready
  /\ UNCHANGED <<upload, handler, admission, child, inbox, deaths>>

Admit(u) ==
  /\ handler[u].at = "arrived"
  /\ \/ /\ LooksReady
        /\ IF admission # NoJob
           THEN handler' = [handler EXCEPT ![u] = Refusal("busy")] /\ UNCHANGED admission
           ELSE /\ admission' = handler[u].job
                /\ handler' = [handler EXCEPT ![u].at = "reading"]
     \/ /\ LooksUnready
        /\ handler' = [handler EXCEPT ![u] = Refusal("unavailable")] /\ UNCHANGED admission
  /\ UNCHANGED <<upload, child, inbox, deaths>>

\* The body does not come in time, or its caller left.
BodyLost(u) ==
  /\ handler[u].at = "reading"
  /\ handler' = [handler EXCEPT ![u] = Refusal("upload_timeout")]
  /\ admission' = NoJob
  /\ UNCHANGED <<upload, child, inbox, outbox, ready, deaths>>

\* The conversion's lock is free: whoever is admitted is alone.
Send(u) ==
  /\ handler[u].at = "reading"
  /\ IF child.at # "dead" /\ ready
     THEN /\ inbox' = Append(inbox, admission)
          /\ handler' = [handler EXCEPT ![u].at = "converting"]
          /\ UNCHANGED admission
     ELSE /\ handler' = [handler EXCEPT ![u] = Refusal("unavailable")]
          /\ admission' = NoJob /\ UNCHANGED inbox
  /\ UNCHANGED <<upload, child, outbox, ready, deaths>>

Converted(u) ==
  /\ handler[u].at = "converting" /\ outbox # <<>>
  /\ LET m == Head(outbox) IN
     handler' = [handler EXCEPT ![u] = [at |-> "answered", answer |-> m.answer, job |-> m.job, read |-> m.read]]
  /\ outbox' = Tail(outbox) /\ admission' = NoJob
  /\ UNCHANGED <<upload, child, inbox, ready, deaths>>

\* A new process with a new pipe; what the old one was doing dies with it.
Restart ==
  /\ child' = [at |-> "loading", job |-> NoJob]
  /\ inbox' = <<>> /\ outbox' = <<>> /\ ready' = FALSE

\* Mutant: a conversion that is too slow is left to finish.
UnansweredKept(u) ==
  /\ handler[u].at = "converting" /\ outbox = <<>>
  /\ handler' = [handler EXCEPT ![u] = Refusal(IF child.at = "dead" THEN "unavailable" ELSE "timeout")]
  /\ IF child.at = "dead" THEN Restart ELSE UNCHANGED <<child, inbox, outbox, ready>>
  /\ admission' = NoJob
  /\ UNCHANGED <<upload, deaths>>

\* No answer in time, or the end of the pipe.
Unanswered(u) ==
  /\ handler[u].at = "converting" /\ outbox = <<>>
  /\ handler' = [handler EXCEPT ![u] = Refusal(IF child.at = "dead" THEN "unavailable" ELSE "timeout")]
  /\ Restart /\ admission' = NoJob
  /\ UNCHANGED <<upload, deaths>>

-------------------------------------------------------------------------------
(* The model process *)

Message(answer, job, read) == [answer |-> answer, job |-> job, read |-> read]

Load ==
  /\ child.at = "loading"
  /\ \/ child' = [child EXCEPT !.at = "idle"] /\ outbox' = Append(outbox, Message("ready", NoJob, {}))
     \/ child' = [child EXCEPT !.at = "dead"] /\ outbox' = Append(outbox, Message("unready", NoJob, {}))
  /\ UNCHANGED <<upload, handler, admission, inbox, ready, deaths>>

TakeJob ==
  /\ child.at = "idle" /\ inbox # <<>>
  /\ child' = [at |-> "busy", job |-> Head(inbox)] /\ inbox' = Tail(inbox)
  /\ UNCHANGED <<upload, handler, admission, outbox, ready, deaths>>

\* Some of the pages have text, or the conversion fails.
Convert ==
  /\ child.at = "busy"
  /\ \/ \E read \in SUBSET child.job.pages : outbox' = Append(outbox, Message("result", child.job, read))
     \/ outbox' = Append(outbox, Message("error", NoJob, {}))
  /\ child' = [at |-> "idle", job |-> NoJob]
  /\ UNCHANGED <<upload, handler, admission, inbox, ready, deaths>>

Die ==
  /\ child.at # "dead" /\ deaths < ParserFaults
  /\ child' = [at |-> "dead", job |-> NoJob] /\ deaths' = deaths + 1
  /\ UNCHANGED <<upload, handler, admission, inbox, outbox, ready>>

-------------------------------------------------------------------------------

Next ==
  \/ \E u \in Upload :
       \/ Ask(u) \/ Pass(u) \/ Received(u) \/ Late(u) \/ Unconnected(u) \/ GiveUp(u) \/ Parsed(u)
       \/ Admit(u) \/ BodyLost(u) \/ Send(u) \/ Converted(u) \/ Unanswered(u)
  \/ Health \/ Load \/ TakeJob \/ Convert \/ Die

Spec == Init /\ [][Next]_parserVars

-------------------------------------------------------------------------------

TypeOK ==
  /\ \A u \in Upload : /\ upload[u].calls <= MaxPages /\ upload[u].left \subseteq Items(u)
                       /\ handler[u].at \in {"none", "arrived", "reading", "converting", "answered"}
  /\ admission \in Job \cup {NoJob}
  /\ child.at \in {"loading", "idle", "busy", "dead"} /\ child.job \in Job \cup {NoJob}

\* The text of a page is of that page: an answer that comes after its conversion was given up
\* (document_parser/worker.py:304) never becomes the answer of the next contract. A page without
\* text is noted when the file is stored, and a file with such pages is not "ready".
PagesReadOrNoted ==
  \A u \in Upload :
    /\ \A p \in Read(u) : upload[u].text[p].by = u /\ p \in upload[u].text[p].pages
    /\ upload[u].at = "end" => /\ Items(u) \subseteq Read(u) \cup upload[u].noted
                               /\ Items(u) # {} => ParsingStatus(u) # "ready"

\* Not so: a process that dies between conversions is replaced. Nothing replaces it: readiness is
\* asked first, and only a conversion that was begun starts a new process.
Replaced == (child.at = "dead") ~> (child.at # "dead")
===============================================================================
