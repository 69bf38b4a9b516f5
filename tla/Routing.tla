-------------------------------- MODULE Routing --------------------------------
(* The routers that ask a model how to treat a question: one kind of call, with   *)
(* a cache of decisions and of failures and a circuit breaker, both in memory and *)
(* in Redis when it answers. Requests run on threads; the breaker's counter is    *)
(* read and written in two steps. Times are what is left of them.                 *)
EXTENDS Naturals

CONSTANTS
  Router, \* the namespaces: document resolver, request router, answer intent, path, retrieval
  Keeper, \* routers that keep what they decided in a list of their own, failed or not
  Question, Caller,
  Threshold,                     \* failures that open a circuit
  BreakTime, CacheTime, FailTime, \* how long it is open, a decision and a failure are cached
  ModelFaults, RedisFaults        \* bounds of the runs

RoutingAssumption ==
  /\ Keeper \subseteq Router
  /\ {Threshold, BreakTime, CacheTime, FailTime} \subseteq Nat \ {0}
  /\ {ModelFaults, RedisFaults} \subseteq Nat

VARIABLES
  cache,   \* [memory, redis] of each router and question
  circuit, \* [memory, redis] of each router
  kept,    \* the routers' own lists
  request,
  faults, broken

routingVars == <<cache, circuit, kept, request, faults, broken>>

Store == {"memory", "redis"}
NoEntry == [value |-> "none", left |-> 0]
NoCircuit == [failures |-> 0, open |-> 0, left |-> 0]
NoRequest(q) == [at |-> "idle", router |-> CHOOSE r \in Router : TRUE, question |-> q,
                 seen |-> NoCircuit, result |-> "none"]
AnyQuestion == CHOOSE q \in Question : TRUE

Init ==
  /\ cache = [s \in Store |-> [r \in Router |-> [q \in Question |-> NoEntry]]]
  /\ circuit = [s \in Store |-> [r \in Router |-> NoCircuit]]
  /\ kept = [r \in Router |-> [q \in Question |-> "none"]]
  /\ request = [n \in Caller |-> NoRequest(AnyQuestion)]
  /\ faults = 0 /\ broken = 0

-------------------------------------------------------------------------------
(* The two stores. Redis may fail to answer any command; that is passed over *)

Redis(answers) ==
  \/ answers /\ UNCHANGED broken
  \/ ~answers /\ broken < RedisFaults /\ broken' = broken + 1

\* Redis first, memory when it has nothing to say.
Looked(r, q, answers) ==
  IF answers /\ cache["redis"][r][q].value # "none" THEN cache["redis"][r][q] ELSE cache["memory"][r][q]

Circuit(r, answers) ==
  IF answers /\ circuit["redis"][r] # NoCircuit THEN circuit["redis"][r] ELSE circuit["memory"][r]

Put(r, q, entry, answers) ==
  cache' = [cache EXCEPT !["memory"][r][q] = entry,
                         !["redis"][r][q] = IF answers THEN entry ELSE @]

PutCircuit(r, state, answers) ==
  circuit' = [circuit EXCEPT !["memory"][r] = state, !["redis"][r] = IF answers THEN state ELSE @]

\* Mutant: open while the failures are too many.
IsOpenByCount(state) == state.failures >= Threshold

IsOpen(state) == state.open > 0

-------------------------------------------------------------------------------
(* A request *)

Goes(n, stage) == request' = [request EXCEPT ![n].at = stage]
Decides(n, result) == request' = [request EXCEPT ![n].at = "keep", ![n].result = result]

Ask(n) ==
  /\ request[n].at = "idle"
  /\ \E r \in Router, q \in Question :
       request' = [request EXCEPT ![n] = IF kept[r][q] = "none"
         THEN [NoRequest(q) EXCEPT !.at = "lookup", !.router = r]
         ELSE [NoRequest(q) EXCEPT !.at = "end", !.router = r, !.result = kept[r][q]]]
  /\ UNCHANGED <<cache, circuit, kept, faults, broken>>

\* A cached failure is an answer too: the rules decide.
Lookup(n) ==
  /\ request[n].at = "lookup"
  /\ \E answers \in BOOLEAN :
       /\ Redis(answers)
       /\ LET found == Looked(request[n].router, request[n].question, answers) IN
          CASE found.value = "none" -> Goes(n, "circuit")
            [] found.value = "model" -> Decides(n, "model")
            [] found.value = "failed" -> Decides(n, "rules")
  /\ UNCHANGED <<cache, circuit, kept, faults>>

AskCircuit(n) ==
  /\ request[n].at = "circuit"
  /\ \E answers \in BOOLEAN :
       /\ Redis(answers)
       /\ IF IsOpen(Circuit(request[n].router, answers)) THEN Decides(n, "rules") ELSE Goes(n, "call")
  /\ UNCHANGED <<cache, circuit, kept, faults>>

\* One call, without a retry. The path router records nothing of an answer that is no path.
Call(n) ==
  /\ request[n].at = "call"
  /\ \/ Goes(n, "store") /\ UNCHANGED faults
     \/ faults < ModelFaults /\ faults' = faults + 1 /\ (Goes(n, "failed") \/ Decides(n, "rules"))
  /\ UNCHANGED <<cache, circuit, kept, broken>>

StoreDecision(n) ==
  /\ request[n].at = "store"
  /\ \E answers \in BOOLEAN :
       /\ Redis(answers)
       /\ Put(request[n].router, request[n].question, [value |-> "model", left |-> CacheTime], answers)
  /\ Goes(n, "succeeded")
  /\ UNCHANGED <<circuit, kept, faults>>

RecordSuccess(n) ==
  /\ request[n].at = "succeeded"
  /\ \E answers \in BOOLEAN : Redis(answers) /\ PutCircuit(request[n].router, NoCircuit, answers)
  /\ Decides(n, "model")
  /\ UNCHANGED <<cache, kept, faults>>

CacheFailure(n) ==
  /\ request[n].at = "failed"
  /\ \E answers \in BOOLEAN :
       /\ Redis(answers)
       /\ Put(request[n].router, request[n].question, [value |-> "failed", left |-> FailTime], answers)
  /\ Goes(n, "count")
  /\ UNCHANGED <<circuit, kept, faults>>

\* The counter is read, and written one higher; another request may do the same in between.
Count(n) ==
  /\ request[n].at = "count"
  /\ \E answers \in BOOLEAN :
       /\ Redis(answers)
       /\ request' = [request EXCEPT ![n].at = "write", ![n].seen = Circuit(request[n].router, answers)]
  /\ UNCHANGED <<cache, circuit, kept, faults>>

RecordFailure(n) ==
  /\ request[n].at = "write"
  /\ LET failures == request[n].seen.failures + 1
         open == IF failures >= Threshold THEN BreakTime ELSE request[n].seen.open
         left == IF BreakTime > FailTime THEN BreakTime ELSE FailTime
     IN \E answers \in BOOLEAN :
          /\ Redis(answers)
          /\ PutCircuit(request[n].router, [failures |-> failures, open |-> open, left |-> left], answers)
  /\ request' = [request EXCEPT ![n].at = "keep", ![n].result = "rules", ![n].seen = NoCircuit]
  /\ UNCHANGED <<cache, kept, faults>>

\* The retrieval router's list takes decisions of the model only; the answer intent's whatever
\* was decided, and for good.
Keep(n) ==
  /\ request[n].at = "keep"
  /\ LET r == request[n].router
         q == request[n].question
     IN kept' = IF r \in Keeper \/ request[n].result = "model"
                THEN [kept EXCEPT ![r][q] = request[n].result] ELSE kept
  /\ Goes(n, "end")
  /\ UNCHANGED <<cache, circuit, faults, broken>>

Return(n) ==
  /\ request[n].at = "end" /\ request' = [request EXCEPT ![n] = NoRequest(AnyQuestion)]
  /\ UNCHANGED <<cache, circuit, kept, faults, broken>>

\* The list is full: the oldest goes.
Evict(r, q) ==
  /\ kept[r][q] # "none" /\ kept' = [kept EXCEPT ![r][q] = "none"]
  /\ UNCHANGED <<cache, circuit, request, faults, broken>>

\* Time passes. What Redis keeps of a circuit expires; memory forgets only when it closes.
Aged(entry) == IF entry.left <= 1 THEN NoEntry ELSE [entry EXCEPT !.left = @ - 1]
Sooner(state) == IF state.open = 0 THEN state ELSE [state EXCEPT !.open = @ - 1]
Expired(state) == IF state.left <= 1 THEN NoCircuit ELSE [Sooner(state) EXCEPT !.left = @ - 1]

Tick ==
  /\ cache' = [s \in Store |-> [r \in Router |-> [q \in Question |-> Aged(cache[s][r][q])]]]
  /\ circuit' = [memory |-> [r \in Router |-> Sooner(circuit["memory"][r])],
                 redis |-> [r \in Router |-> Expired(circuit["redis"][r])]]
  /\ request' = [n \in Caller |-> [request[n] EXCEPT !.seen = Sooner(@)]]
  /\ UNCHANGED <<kept, faults, broken>>

Step(n) ==
  \/ Lookup(n) \/ AskCircuit(n) \/ Call(n) \/ StoreDecision(n) \/ RecordSuccess(n)
  \/ CacheFailure(n) \/ Count(n) \/ RecordFailure(n) \/ Keep(n) \/ Return(n)

Next ==
  \/ \E n \in Caller : Ask(n) \/ Step(n)
  \/ \E r \in Router, q \in Question : Evict(r, q)
  \/ Tick

Spec ==
  /\ Init /\ [][Next]_routingVars
  /\ WF_routingVars(Tick) /\ \A n \in Caller : WF_routingVars(Step(n))

-------------------------------------------------------------------------------

TypeOK ==
  /\ \A r \in Router, s \in Store : circuit[s][r].failures <= ModelFaults /\ circuit[s][r].open <= BreakTime
  /\ \A n \in Caller : request[n].result \in {"none", "model", "rules"}

\* When the model stops failing, routing comes back: after some time no question is decided by
\* the rules, whatever was cached, counted or lost in Redis during the failures, and in whichever
\* order concurrent requests recorded theirs. Not so for the answer intent, which keeps
\* what the rules said of a question until its list is full (answer_intent.py:113).
RoutingRecovers ==
  \A n \in Caller : <>[](request[n].router \notin Keeper => request[n].result # "rules")
===============================================================================
