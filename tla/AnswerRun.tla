-------------------------------- MODULE AnswerRun ------------------------------
(* One question to /rag/ask or /rag/ask/stream: three threads share two queues.*)
(* The agent gathers evidence in bounded rounds and emits trace steps; the     *)
(* producer chooses a path, streams tokens of the first model that answers and *)
(* falls back to the next one; the response forwards events until the mark.    *)
EXTENDS Naturals, Sequences, SequencesExt, FiniteSets

CONSTANTS
  Target,     \* the entities a routing hint may name
  Named,      \* those with a name in ASCII letters, by which text is matched
  Documented, \* those whose document is known
  MaxRounds,  \* the agent's budget of rounds
  MaxTokens,  \* bound of the runs: the tokens of one model's answer
  AnswerFaults, \* bound of the runs: calls outside any try block that raise
  NoTarget

AnswerAssumption ==
  /\ Named \subseteq Target /\ Documented \subseteq Target /\ NoTarget \notin Target
  /\ {MaxRounds, MaxTokens, AnswerFaults} \subseteq Nat

VARIABLES
  request,    \* what is asked, and how: fixed
  at,         \* where the producer is
  context,    \* the sources and graph text it prepared
  parts,      \* the answer streamed so far
  run,        \* the agent
  steps,      \* trace_events: its steps not yet forwarded
  events,     \* event_queue
  got,        \* what the client received
  remembered, \* the answers handed to the long-term memory
  raised      \* calls that raised

answerVars == <<request, at, context, parts, run, steps, events, got, remembered, raised>>

Tool == {"search", "graph", "summarize"}
Intent == {"evidence", "hybrid", "general", "chitchat"}

Request ==
  {r \in [stream: BOOLEAN, miss: BOOLEAN, agent: BOOLEAN, resolved: BOOLEAN, deep: BOOLEAN,
          extractive: BOOLEAN, intent: Intent, targets: SUBSET Target] :
     /\ r.miss => ~r.agent /\ ~r.resolved
     /\ r.agent => ~r.deep /\ ~r.extractive /\ ~r.resolved /\ r.intent = "evidence" \* only change its synthesis
     /\ r.targets # {} => r.agent}

Idle == [at |-> "idle", calls |-> <<>>, rounds |-> 0, found |-> {}, missing |-> {},
         partial |-> FALSE, late |-> FALSE, answer |-> "none"]

AnswerInit ==
  /\ request \in Request
  /\ at = IF request.stream THEN "start" ELSE "answer"
  /\ context = [sources |-> FALSE, graph |-> FALSE] /\ parts = <<>> /\ run = Idle
  /\ steps = <<>> /\ events = <<>> /\ got = <<>> /\ remembered = <<>> /\ raised = 0

Meta == [type |-> "meta"]
Step == [type |-> "step"]
Token(text) == [type |-> "token", text |-> text]
Error == [type |-> "error"]
Mark == [type |-> "mark"] \* None, the end of the queue
Done(kind, answer, complete) == [type |-> "done", kind |-> kind, answer |-> answer, complete |-> complete]

Put(new) == events' = events \o new

-------------------------------------------------------------------------------
(* The agent *)

\* A step is emitted only to a stream.
Emit == steps' = IF request.stream /\ at # "wait" THEN Append(steps, Step) ELSE steps

Call(tool, target) == [tool |-> tool, target |-> target]
CallsFor(tool, T) ==
  LET order == SetToSeq(IF T = {} THEN {NoTarget} ELSE T) IN
  [i \in 1..Len(order) |-> Call(tool, order[i])]

\* One search for each target, one graph query for each with a document, or one of each.
BuildPlan ==
  CallsFor("search", request.targets) \o CallsFor("graph", request.targets \cap Documented)
    \o <<Call("summarize", NoTarget)>>

RunPlan ==
  /\ run.at = "plan"
  /\ run' = [run EXCEPT !.at = "round", !.calls = BuildPlan]
  /\ Emit

Stop(r) == [r EXCEPT !.at = "synthesize", !.partial = TRUE]

\* Rounds and time are checked before every round.
StartRound ==
  /\ run.at = "round"
  /\ run' = IF run.rounds >= MaxRounds \/ run.late THEN Stop(run)
            ELSE [run EXCEPT !.at = "calls", !.rounds = @ + 1]
  /\ UNCHANGED steps

\* What text of any source can cover: a name found in it, or the document it is of.
Coverable == request.targets \cap (Named \cup Documented)

Covered(call) ==
  IF call.tool = "summarize" THEN {run.found} ELSE {run.found \cup hits : hits \in SUBSET Coverable}

\* Mutant: the deadline ends the round without marking the answer partial.
CallToolUnlessLate ==
  /\ run.at = "calls" /\ run.calls # <<>>
  /\ IF run.late THEN run' = [run EXCEPT !.at = "synthesize"] /\ UNCHANGED steps
     ELSE /\ \E found \in Covered(Head(run.calls)) :
               run' = [run EXCEPT !.found = found, !.calls = Tail(@)]
          /\ Emit

\* A tool call, its steps and what it adds; one that fails adds nothing. The deadline is
\* checked before each, and leaves the rest of the round undone.
CallTool ==
  /\ run.at = "calls" /\ run.calls # <<>>
  /\ IF run.late THEN run' = Stop(run) /\ UNCHANGED steps
     ELSE /\ \E found \in Covered(Head(run.calls)) :
               run' = [run EXCEPT !.found = found, !.calls = Tail(@)]
          /\ Emit

\* The missing targets, and the searches that go after those with a name.
Missing == request.targets \ run.found
Replan == IF Missing \cap Named = {} THEN <<>>
          ELSE CallsFor("search", Missing \cap Named) \o <<Call("summarize", NoTarget)>>

\* The report after a round; replanning emits a second step in the same breath.
Reflect ==
  /\ run.at = "calls" /\ run.calls = <<>>
  /\ LET r == [run EXCEPT !.missing = Missing] IN
     run' = CASE Missing = {} -> [r EXCEPT !.at = "synthesize"]
              [] Missing # {} /\ (run.rounds >= MaxRounds \/ run.late \/ Replan = <<>>) -> Stop(r)
              [] OTHER -> [r EXCEPT !.at = "round", !.calls = Replan]
  /\ Emit

Synthesize ==
  /\ run.at = "synthesize"
  /\ \E text \in {"agent", "insufficient"} :
       run' = [run EXCEPT !.at = "dead", !.answer = text, !.partial = @ \/ run.missing # {}]
  /\ Emit

\* The clock runs beside it.
Deadline ==
  /\ run.at \notin {"idle", "dead"} /\ ~run.late
  /\ run' = [run EXCEPT !.late = TRUE] /\ UNCHANGED steps

\* Anything else that raises ends the thread without a result.
RunRaises ==
  /\ run.at \notin {"idle", "dead"} /\ raised < AnswerFaults
  /\ run' = [run EXCEPT !.at = "dead"] /\ raised' = raised + 1 /\ UNCHANGED steps

Works == RunPlan \/ StartRound \/ CallTool \/ Reflect \/ Synthesize
AgentWorks == Works /\ UNCHANGED <<request, at, context, parts, events, got, remembered, raised>>
AgentDisturbed ==
  /\ (Deadline /\ UNCHANGED raised) \/ RunRaises
  /\ UNCHANGED <<request, at, context, parts, events, got, remembered>>

-------------------------------------------------------------------------------
(* The producer *)

\* An answer is remembered when its done event is made, before it is sent.
Finish(kind, answer, complete) ==
  /\ remembered' = Append(remembered, answer)
  /\ at' = "end"
  /\ Put(<<Done(kind, answer, complete)>>)

Start ==
  /\ at = "start" /\ at' = "route" /\ Put(<<Meta>>)
  /\ UNCHANGED <<context, parts, run, remembered>>

\* The agent's path is chosen by the hint or by the router; a missed scope skips both.
PreRoute ==
  /\ at = "route"
  /\ IF request.agent
     THEN at' = "alive" /\ run' = [Idle EXCEPT !.at = "plan"] /\ Put(<<Meta>>)
     ELSE at' = "prepare" /\ UNCHANGED <<run, events>>
  /\ UNCHANGED <<context, parts, remembered>>

\* stream_agent_run: while thread.is_alive() or not trace_events.empty().
AgentAlive ==
  /\ at = "alive" /\ at' = IF run.at = "dead" THEN "empty" ELSE "get"
  /\ UNCHANGED <<context, parts, run, steps, events, remembered>>

\* With reflexion of its own the payload is partial for a missing target, else for every one.
AgentDone ==
  LET complete == run.answer # "none" /\ ~run.partial
      answer == IF run.answer = "none" THEN "insufficient" ELSE run.answer IN
  /\ remembered' = Append(remembered, <<answer>>) /\ at' = "end"
  /\ Put((IF at = "wait" THEN <<>> ELSE <<Token(answer)>>) \o <<Done("agent", <<answer>>, complete)>>)

\* Mutant: the loop goes on while the thread is alive.
AgentEmptyUnread ==
  /\ at = "empty" /\ AgentDone
  /\ UNCHANGED <<context, parts, run, steps>>

AgentEmpty ==
  /\ at = "empty"
  /\ IF steps = <<>> THEN AgentDone ELSE at' = "get" /\ UNCHANGED <<events, remembered>>
  /\ UNCHANGED <<context, parts, run, steps>>

\* get with a timeout of 50 ms.
AgentGet ==
  /\ at = "get" /\ at' = "alive"
  /\ IF steps = <<>> THEN UNCHANGED <<steps, events>>
     ELSE steps' = Tail(steps) /\ Put(<<Head(steps)>>)
  /\ UNCHANGED <<context, parts, run, remembered>>

\* The intent, after an entity-resolved scope has turned general questions into evidence ones.
Mode == IF request.resolved /\ request.intent = "general" THEN "evidence" ELSE request.intent
Retrieves == Mode \in {"evidence", "hybrid"} /\ ~request.miss
Grounded(c) == c.sources \/ c.graph
Path(c) ==
  CASE request.miss -> "no context"
    [] ~request.miss /\ Mode = "chitchat" -> "chat"
    [] Retrieves /\ ~Grounded(c) /\ Mode = "evidence" -> "no context"
    [] OTHER -> IF request.extractive THEN "extract" ELSE IF request.deep THEN "deep" ELSE "flash"

Contexts == [sources: IF Retrieves THEN BOOLEAN ELSE {FALSE}, graph: IF Retrieves THEN BOOLEAN ELSE {FALSE}]

Prepare ==
  /\ at = "prepare"
  /\ context' \in Contexts /\ at' = Path(context')
  /\ Put(<<Meta>>) /\ UNCHANGED <<parts, run, remembered>>

NoContext ==
  /\ at = "no context"
  /\ remembered' = Append(remembered, <<"insufficient">>) /\ at' = "end"
  /\ Put(<<Token("insufficient"), Done("stream", <<"insufficient">>, TRUE)>>)
  /\ UNCHANGED <<context, parts, run>>

\* A chunk of the stream being read; a model may say in its own words that it cannot tell.
Chunk ==
  /\ at \in {"chat", "deep", "flash"} /\ Len(parts) < MaxTokens
  /\ \E text \in {at} \cup (IF parts = <<>> /\ at # "chat" THEN {"insufficient"} ELSE {}) :
       parts' = Append(parts, text) /\ Put(<<Token(text)>>)
  /\ UNCHANGED <<at, context, run, remembered>>

\* An empty stream of small talk is replaced by a reply asked for at once.
ChatEnds ==
  /\ at = "chat" /\ Finish("stream", IF parts = <<>> THEN <<"chat">> ELSE parts, TRUE)
  /\ UNCHANGED <<context, parts, run>>

\* A stream that ends, or breaks off with a notice.
Notice ==
  \/ UNCHANGED <<parts, events>>
  \/ parts' = Append(parts, "notice") /\ Put(<<Token("notice")>>)

\* Deep is not configured, says nothing, ends, or breaks off.
DeepEnds ==
  /\ at = "deep"
  /\ IF parts = <<>> THEN at' = "flash" /\ Put(<<Meta>>) /\ UNCHANGED parts
     ELSE at' = "finish" /\ Notice
  /\ UNCHANGED <<context, run, remembered>>

FlashEnds ==
  /\ at = "flash"
  /\ IF parts = <<>> THEN at' = "extract" /\ UNCHANGED <<parts, events>>
     ELSE at' = "finish" /\ Notice
  /\ UNCHANGED <<context, run, remembered>>

\* The answer of last resort: general words, or sentences of the sources, if any fit.
LastResort(c) ==
  IF Mode \in {"general", "hybrid"} /\ ~c.sources /\ ~request.extractive THEN {"general"}
  ELSE {"insufficient"} \cup IF c.sources THEN {"extract"} ELSE {}

Extract ==
  /\ at = "extract" /\ at' = "finish"
  /\ \E text \in LastResort(context) : parts' = <<text>> /\ Put(<<Token(text)>>)
  /\ UNCHANGED <<context, run, remembered>>

\* A hybrid question is not left with the bare sentence that the reports do not tell.
HybridFallback(answer) == IF Mode = "hybrid" /\ answer = <<"insufficient">> THEN <<"hybrid">> ELSE answer

EndAnswer ==
  /\ at = "finish" /\ Finish("stream", HybridFallback(parts), TRUE)
  /\ UNCHANGED <<context, parts, run>>

\* answer_question: the same choices without a stream, for /rag/ask and after a broken stream.
Answers(c) ==
  CASE Path(c) = "no context" -> {<<"insufficient">>}
    [] Path(c) = "chat" -> {<<"chat">>}
    [] OTHER -> {HybridFallback(<<text>>) : text \in LastResort(c) \cup
                   CASE Path(c) = "deep" -> {"deep", "flash", "insufficient"}
                     [] Path(c) = "flash" -> {"flash", "insufficient"}
                     [] OTHER -> {}}

Answer ==
  /\ at = "answer"
  /\ IF request.agent
     THEN at' = "wait" /\ run' = [Idle EXCEPT !.at = "plan"] /\ UNCHANGED <<events, remembered>>
     ELSE /\ \E c \in Contexts : \E answer \in Answers(c) : Finish("answer", answer, TRUE)
          /\ UNCHANGED run
  /\ UNCHANGED <<context, parts>>

\* run() in the producer's own thread; what it raises, the producer raises.
AnswerByAgent ==
  /\ at = "wait" /\ run.at = "dead" /\ run.answer # "none" /\ AgentDone
  /\ UNCHANGED <<context, parts, run>>

\* A broken pipe, a reset or a timeout is answered anew, and if it strikes again with a notice;
\* other errors with an error event. /rag/ask answers every error at once.
Fails ==
  /\ UNCHANGED <<context, parts, run, remembered>>
  /\ \/ at = "wait" /\ run.at = "dead" /\ run.answer = "none" /\ UNCHANGED raised
     \/ at \in {"route", "prepare", "answer"} /\ raised < AnswerFaults /\ raised' = raised + 1
  /\ \/ at' = "end" /\ Put(<<Error>>)
     \/ request.stream /\ at \notin {"answer", "wait"} /\ at' = "answer" /\ UNCHANGED events
     \/ request.stream /\ at \in {"answer", "wait"} /\ at' = "end" /\ Put(<<Done("recovery", <<"notice">>, FALSE)>>)

EndMark ==
  /\ at = "end" /\ at' = "over" /\ Put(<<Mark>>)
  /\ UNCHANGED <<context, parts, run, remembered>>

Streams == NoContext \/ Chunk \/ ChatEnds \/ DeepEnds \/ FlashEnds \/ Extract \/ EndAnswer
Answering == Start \/ PreRoute \/ Prepare \/ Streams \/ Answer \/ AnswerByAgent \/ EndMark
Producer ==
  /\ \/ Answering /\ UNCHANGED <<steps, raised>>
     \/ (AgentAlive \/ AgentEmpty \/ AgentGet) /\ UNCHANGED raised
     \/ Fails /\ UNCHANGED steps
  /\ UNCHANGED <<request, got>>

-------------------------------------------------------------------------------
(* The response *)

Closed == got # <<>> /\ got[Len(got)].type = "mark"

Deliver ==
  /\ events # <<>> /\ events' = Tail(events) /\ got' = Append(got, Head(events))
  /\ UNCHANGED <<request, at, context, parts, run, steps, remembered, raised>>

AnswerNext == AgentWorks \/ AgentDisturbed \/ Producer \/ Deliver

AnswerSpec == AnswerInit /\ [][AnswerNext]_answerVars

-------------------------------------------------------------------------------
(* Properties *)

Terminal(e) == e.type \in {"done", "error"}
Final == got[Len(got) - 1]

\* The tokens of a stream are the parts of an answer, in their order.
TokensAre(s, answer) ==
  LET tokens == {i \in 1..Len(s) : s[i].type = "token"} IN
  /\ Cardinality(tokens) = Len(answer)
  /\ \A i \in tokens : s[i].text = answer[Cardinality(tokens \cap 1..i)]

AnswerTypeOK ==
  /\ request \in Request /\ context \in [sources: BOOLEAN, graph: BOOLEAN]
  /\ run.found \subseteq request.targets /\ run.missing \subseteq request.targets
  /\ run.rounds \in 0..MaxRounds /\ raised \in 0..AnswerFaults
  /\ Len(parts) \in 0..(MaxTokens + 1)

\* A response ends with one done or error event and nothing after it; the agent's done comes
\* after every step it emitted.
StreamEndsOnce ==
  /\ \A i \in 1..Len(got) : Terminal(got[i]) => \A j \in (i + 1)..Len(got) : got[j].type = "mark"
  /\ Closed => Len(got) > 1 /\ Terminal(Final) /\ (Final.type = "done" /\ Final.kind = "agent" => steps = <<>>)

\* "A partial stream is never replaced by another answer" (deep_answering.py): the tokens a
\* client saw are the answer it gets at the end, unless a hybrid question got the longer
\* sentence; and that answer alone is remembered.
AnswerIsOne ==
  Closed /\ Final.type = "done" =>
    /\ Final.kind # "recovery" => remembered = <<Final.answer>>
    /\ TokensAre(got, <<>>) \/ TokensAre(got, Final.answer) \/ Final.answer = <<"hybrid">>

\* An agent's answer that is not marked partial rests on a plan carried out to the last call
\* and on evidence for every target.
CompleteMeansCovered ==
  Closed /\ Final.type = "done" /\ Final.kind = "agent" /\ Final.complete =>
    run.calls = <<>> /\ request.targets \subseteq run.found
===============================================================================
