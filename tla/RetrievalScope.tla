----------------------------- MODULE RetrievalScope ---------------------------
(* Which documents a question may draw on. A request names documents, one it   *)
(* prefers, a matter; resolvers of entity names add documents of their own.    *)
(* What comes out is a filter, and an empty list in it stands for everything.  *)
EXTENDS Naturals, FiniteSets

CONSTANTS
  Doc,
  Own, Global, \* the caller's documents, and those for everyone: the rest are others'
  NoDoc

ScopeAssumption == {Own, Global} \subseteq SUBSET Doc /\ NoDoc \notin Doc

VARIABLES
  ask,    \* the request and the world it meets: fixed
  scope,  \* filters
  phase,
  source  \* a document the answer draws on, and the layer of the retrieval that found it

scopeVars == <<ask, scope, phase, source>>

Caller == {"nobody", "user", "admin"}

\* A matter may be named, and the caller be a member or not.
\* Others' documents may be legacy uploads without an owner, or shared in another matter.
Ask == LET Others == Doc \ (Own \cup Global) IN
  [caller : Caller, matter : {"none", "member", "stranger"}, filed : SUBSET Doc,
   unowned : SUBSET Others, shared : SUBSET Others, ready : SUBSET Doc,
   ids : SUBSET Doc, preferred : Doc \cup {NoDoc}]

NoSource == [doc |-> NoDoc, layer |-> "none"]
NoScope == [ids |-> {}, preferred |-> NoDoc, owner |-> FALSE, miss |-> FALSE, targets |-> {}]

Init ==
  /\ ask \in {a \in Ask : (a.caller = "nobody" => a.matter # "member" /\ a.shared = {})
                          /\ (a.matter = "none" => a.filed = {})}
  /\ scope = NoScope /\ phase = "resolve" /\ source = NoSource

-------------------------------------------------------------------------------
(* What the caller may retrieve *)

InMatter == ask.matter # "none"
SignedIn == ask.caller # "nobody"
IsAdmin == ask.caller = "admin"

OwnerRulesAllowRetrieval(d) ==
  \/ IsAdmin
  \/ d \in Global
  \/ SignedIn /\ d \in ask.unowned \cup Own

SharedThroughMatter(d) == SignedIn /\ d \in ask.shared \cup (IF ask.matter = "member" THEN ask.filed ELSE {})

CanRetrieve(d) == OwnerRulesAllowRetrieval(d) \/ SharedThroughMatter(d)

WithinMatter(D) == IF InMatter THEN D \cap ask.filed ELSE D

\* The entries a request is resolved against. A document still in preparation is not one.
Allowed == WithinMatter({d \in ask.ready : CanRetrieve(d)})

-------------------------------------------------------------------------------
(* Resolving names *)

\* How well a document matches the names in a question.
Strength == {"none", "text", "title"}

\* Matches of the title first, then what a model picks of the candidates, then any match.
ScopeForTerms(match, pick) ==
  LET titled == {d \in Allowed : match[d] = "title"}
      positive == {d \in Allowed : match[d] # "none"} IN
  IF titled # {} THEN titled ELSE IF pick # {} THEN pick ELSE positive

\* A routing hint's targets: the local matches, with the model's when these are too few.
HintTargets(match, routed, compares) ==
  LET localHits == {d \in Allowed : match[d] = "title"} IN
  localHits \cup (IF localHits = {} \/ (compares /\ Cardinality(localHits) < 2) THEN routed ELSE {})

\* What the resolvers can come to, if the question names anything or not: the model chooses among
\* the candidates it was given.
Resolutions(terms) ==
  IF terms
  THEN {<<ScopeForTerms(match, pick), HintTargets(match, routed, compares)>> :
          match \in [Allowed -> Strength], pick \in SUBSET Allowed,
          routed \in SUBSET Allowed, compares \in BOOLEAN}
  ELSE {<<{}, routed>> : routed \in SUBSET Allowed}

\* A broad selection narrows to the documents the names in the question resolve to.
Narrow(ids, preferred, scoped) ==
  LET requested == ids \cup ({preferred} \ {NoDoc})
      replaces == scoped # {} /\ \/ requested \cap scoped = {}
                                 \/ Cardinality(requested) > 1 /\ scoped \subseteq requested /\ scoped # requested IN
  IF requested # {} /\ replaces
    THEN [ids |-> scoped, preferred |-> IF preferred \in scoped THEN preferred ELSE NoDoc]
    ELSE [ids |-> ids, preferred |-> preferred]

Explicit == ask.ids # {} \/ ask.preferred # NoDoc

-------------------------------------------------------------------------------
(* The scope of a request, one branch for each kind of caller *)

Refused == [refused |-> TRUE]
Found(ids, preferred, miss, hint) ==
  [refused |-> FALSE, ids |-> ids, preferred |-> preferred, miss |-> miss, targets |-> hint]

\* The documents asked for, of which a matter keeps its own.
Requested ==
  IF InMatter THEN [ids |-> ask.ids \cap ask.filed,
                    preferred |-> IF ask.preferred \in ask.filed THEN ask.preferred ELSE NoDoc]
  ELSE [ids |-> ask.ids, preferred |-> ask.preferred]

OnlyIf(condition, result) == IF condition THEN result ELSE Refused

\* Nothing was named: what the names resolve to, else the matter, else the global documents
\* (a miss without any), else everything the owner filter allows.
OfUserUnnamed(terms, scoped, hint) ==
  LET resolved == IF hint # {} THEN hint ELSE scoped
      globals == Allowed \cap Global IN
  CASE resolved # {} -> Found(resolved, NoDoc, FALSE, hint)
    [] resolved = {} /\ InMatter -> OnlyIf(Allowed # {}, Found(Allowed, NoDoc, FALSE, hint))
    [] resolved = {} /\ ~InMatter /\ terms -> Found(globals, NoDoc, globals = {}, hint)
    [] OTHER -> OnlyIf(Allowed # {}, Found({}, NoDoc, FALSE, hint))

OfUser(terms, scoped, hint) ==
  LET kept == Narrow(Requested.ids, Requested.preferred, scoped)
      ids == IF kept.ids = {} THEN {kept.preferred} \ {NoDoc} ELSE kept.ids IN
  IF ids = {} THEN OfUserUnnamed(terms, scoped, hint)
  ELSE OnlyIf(kept.preferred \in Allowed \cup {NoDoc} /\ ids \cap Allowed # {},
              Found(ids \cap Allowed, kept.preferred, FALSE, hint))

OfAdmin(terms, scoped, hint) ==
  LET named == Requested.ids # {} \/ Requested.preferred # NoDoc
      kept == Narrow(Requested.ids \cap Allowed, Requested.preferred, scoped)
      resolved == IF hint # {} THEN hint ELSE scoped
      ids == IF named THEN kept.ids ELSE resolved
      miss == ~named /\ resolved = {} /\ terms /\ ~InMatter IN
  IF InMatter /\ ids = {} /\ ~miss
    THEN OnlyIf(Allowed # {}, Found(Allowed, kept.preferred, FALSE, hint))
    ELSE Found(ids, kept.preferred, miss, hint)

OfNobody(terms, scoped, hint) ==
  LET resolved == IF hint # {} THEN hint ELSE scoped IN
  CASE ask.preferred # NoDoc ->
         OnlyIf(ask.preferred \in Allowed, Found({ask.preferred}, ask.preferred, FALSE, hint))
    [] ask.preferred = NoDoc /\ ask.ids # {} ->
         OnlyIf(ask.ids \cap Allowed # {}, Found(ask.ids \cap Allowed, NoDoc, FALSE, hint))
    [] OTHER ->
         IF resolved # {} THEN Found(resolved, NoDoc, FALSE, hint)
         ELSE IF terms THEN Found({}, NoDoc, TRUE, hint)
         ELSE OnlyIf(Allowed # {}, Found(Allowed, NoDoc, FALSE, hint))

ForCaller(terms, resolution) ==
  LET scoped == resolution[1]  hint == resolution[2] IN
  IF IsAdmin THEN OfAdmin(terms, scoped, hint)
  ELSE IF SignedIn THEN OfUser(terms, scoped, hint) ELSE OfNobody(terms, scoped, hint)

\* The last word of a matter: its own documents, and never none.
InsideMatter(found) ==
  LET ids == found.ids \cap ask.filed IN
  OnlyIf(ids # {} \/ found.miss,
    [found EXCEPT !.ids = ids, !.preferred = IF @ \in ask.filed THEN @ ELSE NoDoc])

\* Mutant: the owner filter is set only where no documents were resolved.
FiltersOfUnnamed(found) ==
  [ids |-> found.ids, preferred |-> found.preferred, miss |-> found.miss,
   owner |-> SignedIn /\ ~IsAdmin /\ found.ids = {},
   targets |-> IF found.ids # {} THEN found.ids ELSE found.targets]

\* The owner filter stays on every search of a user, whatever was resolved.
Filters(found) ==
  [ids |-> found.ids, preferred |-> found.preferred, miss |-> found.miss, owner |-> SignedIn /\ ~IsAdmin,
   targets |-> IF found.ids # {} THEN found.ids ELSE found.targets]

\* A stranger to the matter, or one who asks for documents of which it has none, is refused first.
Resolve ==
  /\ phase = "resolve"
  /\ IF \/ ask.matter = "stranger"
        \/ InMatter /\ Explicit /\ Requested.ids = {} /\ Requested.preferred = NoDoc
     THEN phase' = "refused" /\ UNCHANGED scope
     ELSE \E terms \in BOOLEAN : \E resolution \in Resolutions(terms) :
            LET found == ForCaller(terms, resolution)
                kept == IF InMatter /\ ~found.refused THEN InsideMatter(found) ELSE found IN
            IF kept.refused THEN phase' = "refused" /\ UNCHANGED scope
            ELSE scope' = Filters(kept) /\ phase' = "search"
  /\ UNCHANGED <<ask, source>>

-------------------------------------------------------------------------------
(* Searching *)

\* _apply_local_filters, and the same clauses in the filter sent to the index. The index may still
\* hold any document.
Passes(d, ids) == (ids = {} \/ d \in ids) /\ (scope.owner => d \in Own \cup Global)

Source(ids, layer) == \E d \in Doc : Passes(d, ids) /\ source' = [doc |-> d, layer |-> layer]

\* Vectors and BM25 with the filter as it is; a preferred document mixed with the rest; the chunk
\* files of the listed documents when both find nothing.
Retrieve ==
  \/ Source(scope.ids, "primary")
  \/ scope.ids = {} /\ scope.preferred # NoDoc /\ Source({scope.preferred}, "primary")

\* The agent's search for an entity replaces the list by its target, if it has one.
AgentSearch == Source(scope.ids, "primary") \/ \E t \in scope.targets : Source({t}, "primary")

\* The layers of priors and of regulations drop the list and the preference and keep the owner
\* filter. What is academic or regulatory is its uploader's word: any document may be.
Widened == \E layer \in {"priors", "regulatory"} : Source({}, layer)

\* A miss searches nothing. Deep questions and the agent's deep searches are layered, and any other
\* that the router's model takes for one.
Search ==
  /\ phase = "search" /\ ~scope.miss
  /\ Retrieve \/ AgentSearch \/ Widened
  /\ phase' = "answered" /\ UNCHANGED <<ask, scope>>

Next == Resolve \/ Search
Spec == Init /\ [][Next]_scopeVars

-------------------------------------------------------------------------------
(* Properties *)

\* "The scope becomes the matter's documents": whatever is named, preferred or resolved, what the
\* primary search finds is a document the caller may retrieve, and of the matter if one is named.
\* "The priors/regulatory layers widen the document scope but must keep owner_user_id": of a user's
\* sources, those of these layers too, none is another's.
ScopeConfined == phase = "answered" =>
  /\ source.layer = "primary" => CanRetrieve(source.doc) /\ (InMatter => source.doc \in ask.filed)
  /\ ask.caller = "user" => source.doc \in Own \cup Global

\* "Membership (any role) grants every document linked to the matter": a member finds each ready
\* document of the list a question resolved to. Violated by the code (README, known divergences):
\* the owner filter also holds inside a matter and drops what other members own.
ScopeServes == phase = "search" => \A d \in scope.ids : Passes(d, scope.ids)
===============================================================================
