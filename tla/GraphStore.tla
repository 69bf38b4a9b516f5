------------------------------- MODULE GraphStore ------------------------------
(* The knowledge graph in Neo4j: documents with their chunks, entities that     *)
(* documents share, mentions and relations stamped with the document they come  *)
(* from. A synchronisation, a deletion and a question are each a row of          *)
(* transactions, with those of others in between.                               *)
EXTENDS Naturals, FiniteSets

CONSTANTS
  Doc, Entity, Chunk,
  Extraction,  \* what a document's text may say: chunks, and in them mentions and relations
  Syncer, Eraser, Reader, \* those who synchronise, delete and ask
  NoDoc,
  GraphFaults  \* bound of the runs: transactions that fail

GraphStoreAssumption ==
  /\ Extraction \subseteq [chunks : SUBSET Chunk, mentions : SUBSET (Chunk \X Entity),
                           relations : SUBSET (Chunk \X Entity \X Entity \X BOOLEAN)]
  /\ GraphFaults \in Nat /\ NoDoc \notin Doc

VARIABLES
  graph,  \* the database
  sync,   \* each synchronisation
  erase,  \* each deletion
  ask,    \* each question
  erased, \* documents whose deletion was confirmed, and that were not synchronised since
  lost    \* transactions that failed

graphVars == <<graph, sync, erase, ask, erased, lost>>

Empty == [docs |-> {}, chunks |-> {}, hasChunk |-> {}, entities |-> {}, hasEntity |-> {},
          mentions |-> {}, relations |-> {}, causal |-> {}]

NoSync == [at |-> "idle", doc |-> NoDoc, text |-> [chunks |-> {}, mentions |-> {}, relations |-> {}],
           retried |-> FALSE]
NoErase == [at |-> "idle", doc |-> NoDoc, retried |-> FALSE]
NoAsk == [at |-> "idle", filter |-> {}, matched |-> {}, nodes |-> {}, edges |-> {}, gone |-> {}]

Init ==
  /\ graph = Empty /\ erased = {} /\ lost = 0
  /\ sync = [y \in Syncer |-> NoSync]
  /\ erase = [e \in Eraser |-> NoErase]
  /\ ask = [r \in Reader |-> NoAsk]

-------------------------------------------------------------------------------
(* What the transactions write *)

\* One entity of a name, whichever document has it.
EntitiesOf(text) == {m[2] : m \in text.mentions}

\* Everything stamped with the document, and the chunks it has; nothing if it has no node.
Clear(g, d) ==
  LET gone == {c \in g.chunks : c[1] = d /\ c \in g.hasChunk}
      Not(S) == {x \in S : x.doc # d}
  IN IF d \notin g.docs THEN g
     ELSE [g EXCEPT !.relations = Not(@), !.causal = Not(@),
                    !.mentions = {x \in Not(@) : <<x.doc, x.chunk>> \notin gone},
                    !.chunks = @ \ gone, !.hasChunk = @ \ gone,
                    !.hasEntity = {h \in @ : h[1] # d}]

UpsertDocument(g, d) == [g EXCEPT !.docs = @ \cup {d}]

\* Chunks and entities hang from the document: none are written if it has no node.
UpsertChunks(g, d, text) ==
  IF d \notin g.docs THEN g
  ELSE [g EXCEPT !.chunks = @ \cup ({d} \X text.chunks), !.hasChunk = @ \cup ({d} \X text.chunks)]

UpsertEntities(g, d, text) ==
  IF d \notin g.docs THEN g
  ELSE [g EXCEPT !.entities = @ \cup EntitiesOf(text), !.hasEntity = @ \cup ({d} \X EntitiesOf(text))]

\* A mention needs its entity and its chunk.
UpsertMentions(g, d, text) ==
  [g EXCEPT !.mentions = @ \cup
     {[doc |-> d, chunk |-> m[1], entity |-> m[2]] :
        m \in {n \in text.mentions : n[2] \in g.entities /\ <<d, n[1]>> \in g.chunks}}]

\* A relation needs its two ends, not the document: any document may have written them.
RelationRows(g, d, rows) ==
  {[doc |-> d, chunk |-> r[1], from |-> r[2], to |-> r[3]] :
     r \in {q \in rows : q[2] \in g.entities /\ q[3] \in g.entities}}

UpsertRelations(g, d, text) ==
  [g EXCEPT !.relations = @ \cup RelationRows(g, d, text.relations),
            !.causal = @ \cup RelationRows(g, d, {r \in text.relations : r[4]})]

\* A transaction of a process, and what follows. A failure may come after the database committed;
\* on a dead connection the driver is made anew and the whole operation run once more.
Transaction(new, next, again, failed) ==
  \/ graph' = new /\ next /\ UNCHANGED lost
  \/ /\ lost < GraphFaults /\ lost' = lost + 1
     /\ graph' \in {graph, new}
     /\ again \/ failed

-------------------------------------------------------------------------------
(* Synchronisation and deletion *)

StartSync(y) ==
  /\ sync[y].at = "idle"
  /\ \E d \in Doc, x \in Extraction :
       sync' = [sync EXCEPT ![y] = [NoSync EXCEPT !.at = "document", !.doc = d, !.text = x]]
  /\ UNCHANGED <<graph, erase, ask, erased, lost>>

SyncWrites(g, at, d, text) ==
  CASE at = "document" -> UpsertDocument(g, d)
    [] at = "clear" -> Clear(g, d)
    [] at = "chunks" -> UpsertChunks(g, d, text)
    [] at = "entities" -> UpsertEntities(g, d, text)
    [] at = "mentions" -> UpsertMentions(g, d, text)
    [] at = "relations" -> UpsertRelations(g, d, text)

AfterSync == [document |-> "clear", clear |-> "chunks", chunks |-> "entities", entities |-> "mentions",
              mentions |-> "relations", relations |-> "end"]

SyncStep(y) ==
  /\ sync[y].at \in DOMAIN AfterSync
  /\ LET s == sync[y] IN
     Transaction(SyncWrites(graph, s.at, s.doc, s.text),
                 sync' = [sync EXCEPT ![y].at = AfterSync[s.at]],
                 ~s.retried /\ sync' = [sync EXCEPT ![y].at = "document", ![y].retried = TRUE],
                 sync' = [sync EXCEPT ![y].at = "end"])
  /\ LET back == IF sync[y].at = "document" THEN {sync[y].doc} ELSE {} IN
     /\ erased' = erased \ back
     /\ ask' = [r \in Reader |-> [ask[r] EXCEPT !.gone = @ \ back]]
  /\ UNCHANGED erase

StartErase(e) ==
  /\ erase[e].at = "idle"
  /\ \E d \in Doc : erase' = [erase EXCEPT ![e] = [NoErase EXCEPT !.at = "clear", !.doc = d]]
  /\ UNCHANGED <<graph, sync, ask, erased, lost>>

\* The scope is cleared in one transaction and the node deleted in another, with what hangs from
\* it; the deletion is confirmed if there was a node.
Detach(g, d) == [g EXCEPT !.docs = @ \ {d}, !.hasChunk = {c \in @ : c[1] # d},
                          !.hasEntity = {h \in @ : h[1] # d}]

EraseStep(e) ==
  /\ erase[e].at \in {"clear", "detach"}
  /\ LET r == erase[e]
         again == ~r.retried /\ erase' = [erase EXCEPT ![e].at = "clear", ![e].retried = TRUE] /\ UNCHANGED erased
         failed == erase' = [erase EXCEPT ![e].at = "end"] /\ UNCHANGED erased
     IN IF r.at = "clear"
        THEN Transaction(Clear(graph, r.doc),
                         erase' = [erase EXCEPT ![e].at = "detach"] /\ UNCHANGED erased, again, failed)
        ELSE Transaction(Detach(graph, r.doc),
                         /\ erase' = [erase EXCEPT ![e].at = "end"]
                         /\ erased' = IF r.doc \in graph.docs THEN erased \cup {r.doc} ELSE erased,
                         again, failed)
  /\ UNCHANGED <<sync, ask>>

-------------------------------------------------------------------------------
(* A question: entities that match, the entities near them, the relations between *)

\* The documents a filter leaves, of those with a node.
Filtered(g, F) == g.docs \cap F

NameMatches(g, F) == {h[2] : h \in {i \in g.hasEntity : i[1] \in Filtered(g, F)}}

\* By what a relation says, or a chunk that mentions the entity.
ContentMatches(g, F) ==
  LET rels == {r \in g.relations : r.doc \in Filtered(g, F)} IN
  {r.from : r \in rels} \cup {r.to : r \in rels}
    \cup {m.entity : m \in {n \in g.mentions : n.doc \in Filtered(g, F) /\ <<n.doc, n.chunk>> \in g.hasChunk}}

\* Paths of two hops, over the relations of every document.
Near(g, S) == S \cup {r.to : r \in {q \in g.relations : q.from \in S}}
                \cup {r.from : r \in {q \in g.relations : q.to \in S}}

NodesNear(g, F, S) == Near(g, Near(g, S)) \cap NameMatches(g, F)

\* Mutant: the relations of the filter's documents, whether the document still has a node or not.
EdgesNearStamped(g, F, S) ==
  {r \in g.relations : {r.from, r.to} \cap Near(g, S) # {} /\ r.doc \in F}

EdgesNear(g, F, S) ==
  {r \in g.relations : {r.from, r.to} \cap Near(g, S) # {} /\ r.doc \in Filtered(g, F)}

StartAsk(r) ==
  /\ ask[r].at = "idle"
  /\ \E F \in SUBSET Doc \ {{}} :
       ask' = [ask EXCEPT ![r] = [NoAsk EXCEPT !.at = "names", !.filter = F, !.gone = erased]]
  /\ UNCHANGED <<graph, sync, erase, erased, lost>>

MatchNames(r) ==
  /\ ask[r].at = "names"
  /\ \E hits \in SUBSET NameMatches(graph, ask[r].filter) :
       ask' = [ask EXCEPT ![r].at = "contents", ![r].matched = hits]
  /\ UNCHANGED <<graph, sync, erase, erased, lost>>

\* A content lookup that fails adds none; without a match there is no graph context.
MatchContents(r) ==
  /\ ask[r].at = "contents"
  /\ \E hits \in SUBSET ContentMatches(graph, ask[r].filter) :
       LET matched == ask[r].matched \cup hits IN
       ask' = [ask EXCEPT ![r].at = IF matched = {} THEN "end" ELSE "nodes", ![r].matched = matched]
  /\ UNCHANGED <<graph, sync, erase, erased, lost>>

ReadNodes(r) ==
  /\ ask[r].at = "nodes"
  /\ ask' = [ask EXCEPT ![r].at = "edges", ![r].nodes = NodesNear(graph, ask[r].filter, ask[r].matched)]
  /\ UNCHANGED <<graph, sync, erase, erased, lost>>

\* The triples put to the model; the limits cut the list.
ReadEdges(r) ==
  /\ ask[r].at = "edges"
  /\ ask' = [ask EXCEPT ![r].at = "end", ![r].edges = EdgesNear(graph, ask[r].filter, ask[r].matched)]
  /\ UNCHANGED <<graph, sync, erase, erased, lost>>

\* A lookup by name or a read that fails leaves the answer without the graph.
AskFails(r) ==
  /\ ask[r].at \in {"names", "nodes", "edges"}
  /\ ask' = [ask EXCEPT ![r].at = "end"]
  /\ UNCHANGED <<graph, sync, erase, erased, lost>>

Next ==
  \/ \E y \in Syncer : StartSync(y) \/ SyncStep(y)
  \/ \E e \in Eraser : StartErase(e) \/ EraseStep(e)
  \/ \E r \in Reader : \/ StartAsk(r) \/ MatchNames(r) \/ MatchContents(r)
                       \/ ReadNodes(r) \/ ReadEdges(r) \/ AskFails(r)

Spec == Init /\ [][Next]_graphVars

-------------------------------------------------------------------------------

Relation == [doc : Doc, chunk : Chunk, from : Entity, to : Entity]

TypeOK ==
  /\ graph.docs \subseteq Doc /\ graph.entities \subseteq Entity
  /\ graph.causal \subseteq graph.relations /\ graph.relations \subseteq Relation
  /\ graph.hasChunk \subseteq graph.chunks /\ erased \subseteq Doc

\* A question asked of some documents is answered from relations of those documents only, and
\* from none of a document whose deletion was confirmed before it was asked: a synchronisation
\* overtaken by the deletion leaves relations behind, which the filter on the node hides.
TriplesOfScope == \A r \in Reader : \A x \in ask[r].edges : x.doc \in ask[r].filter \ ask[r].gone

\* Not so: a document without a node has no relations. They stay until it is synchronised again,
\* for a deletion clears only what a node leads to; questions without a filter still find them.
NoOrphans == \A x \in graph.relations : x.doc \in graph.docs
===============================================================================
