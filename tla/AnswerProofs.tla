------------------------------ MODULE AnswerProofs -----------------------------
(***************************************************************************)
(* What is proved of the material of an answer and of the stream that      *)
(* carries it, as Services composes their modules, for every value of the  *)
(* constants: the graph's triples (GraphInv), the documents a question may *)
(* draw on (ScopeInv), the user's memories (RememberInv), the stream       *)
(* (StreamInv, TextInv) and the text of uploaded pages (ParserInv).        *)
(***************************************************************************)
EXTENDS Services, SequenceTheorems, FiniteSetTheorems, TLAPS

-------------------------------------------------------------------------------
(* The knowledge graph: GraphStore *)

Stamped == [doc: GraphDoc, chunk: GraphChunk, entity: Entity]

GraphType ==
  [docs: SUBSET GraphDoc, chunks: SUBSET (GraphDoc \X GraphChunk), hasChunk: SUBSET (GraphDoc \X GraphChunk),
   entities: SUBSET Entity, hasEntity: SUBSET (GraphDoc \X Entity), mentions: SUBSET Stamped,
   relations: SUBSET Graph!Relation, causal: SUBSET Graph!Relation]

ExtractionType ==
  [chunks: SUBSET GraphChunk, mentions: SUBSET (GraphChunk \X Entity),
   relations: SUBSET (GraphChunk \X Entity \X Entity \X BOOLEAN)]

SyncType ==
  [at: {"idle", "document", "clear", "chunks", "entities", "mentions", "relations", "end"},
   doc: GraphDoc \cup {NoDoc}, text: ExtractionType, retried: BOOLEAN]

EraseType ==
  [at: {"idle", "clear", "detach", "end"}, doc: GraphDoc \cup {NoDoc}, retried: BOOLEAN]

QuestionType ==
  [at: {"idle", "names", "contents", "nodes", "edges", "end"}, filter: SUBSET GraphDoc,
   matched: SUBSET Entity, nodes: SUBSET Entity, edges: SUBSET Graph!Relation, gone: SUBSET GraphDoc]

\* A document that is gone has no node, until it is synchronised again; then it is no longer gone
\* for anybody. What a question found of it stays found.
GraphInv ==
  /\ x1 \in GraphType /\ x2 \in [Syncer -> SyncType] /\ x3 \in [Eraser -> EraseType]
  /\ x4 \in [Reader -> QuestionType]
  /\ \A y \in Syncer : x2[y].at # "idle" => x2[y].doc \in GraphDoc
  /\ \A e \in Eraser : x3[e].at # "idle" => x3[e].doc \in GraphDoc
  /\ x5 \subseteq GraphDoc /\ x5 \cap x1.docs = {}
  /\ \A r \in Reader : x4[r].gone \cap x1.docs = {}
  /\ Graph!TriplesOfScope

LEMMA ExtractionTypes == Extraction \subseteq ExtractionType /\ NoDoc \notin GraphDoc
BY GraphConstants DEF Graph!GraphStoreAssumption, ExtractionType

\* What the transactions do to the nodes of documents.
LEMMA ClearWrites ==
  ASSUME NEW g \in GraphType, NEW d \in GraphDoc
  PROVE  Graph!Clear(g, d) \in GraphType /\ Graph!Clear(g, d).docs = g.docs
<1> DEFINE gone == {c \in g.chunks : c[1] = d /\ c \in g.hasChunk}
           Not(S) == {x \in S : x.doc # d}
           n == [g EXCEPT !.relations = Not(@), !.causal = Not(@),
                          !.mentions = {x \in Not(@) : <<x.doc, x.chunk>> \notin gone},
                          !.chunks = @ \ gone, !.hasChunk = @ \ gone,
                          !.hasEntity = {h \in @ : h[1] # d}]
<1>1. n \in GraphType
  BY DEF GraphType
<1>2. n.docs = g.docs
  BY DEF GraphType
<1>3. Graph!Clear(g, d) = IF d \notin g.docs THEN g ELSE n
  BY DEF Graph!Clear
<1> HIDE DEF n
<1> QED
  BY <1>1, <1>2, <1>3

LEMMA UpsertWrites ==
  ASSUME NEW g \in GraphType, NEW d \in GraphDoc, NEW text \in ExtractionType
  PROVE  /\ Graph!UpsertDocument(g, d) \in GraphType
         /\ Graph!UpsertDocument(g, d).docs = g.docs \cup {d}
         /\ Graph!UpsertChunks(g, d, text) \in GraphType
         /\ Graph!UpsertChunks(g, d, text).docs = g.docs
         /\ Graph!UpsertEntities(g, d, text) \in GraphType
         /\ Graph!UpsertEntities(g, d, text).docs = g.docs
         /\ Graph!UpsertMentions(g, d, text) \in GraphType
         /\ Graph!UpsertMentions(g, d, text).docs = g.docs
         /\ Graph!UpsertRelations(g, d, text) \in GraphType
         /\ Graph!UpsertRelations(g, d, text).docs = g.docs
<1>1. /\ Graph!UpsertDocument(g, d) \in GraphType
      /\ Graph!UpsertDocument(g, d).docs = g.docs \cup {d}
  BY DEF Graph!UpsertDocument, GraphType
<1>2. /\ Graph!UpsertChunks(g, d, text) \in GraphType
      /\ Graph!UpsertChunks(g, d, text).docs = g.docs
  <2> DEFINE new == {d} \X text.chunks
  <2>1. new \subseteq GraphDoc \X GraphChunk
    BY DEF ExtractionType
  <2> HIDE DEF new
  <2>2. Graph!UpsertChunks(g, d, text) =
          IF d \notin g.docs THEN g ELSE [g EXCEPT !.chunks = @ \cup new, !.hasChunk = @ \cup new]
    BY DEF Graph!UpsertChunks, new
  <2>3. [g EXCEPT !.chunks = @ \cup new, !.hasChunk = @ \cup new] \in GraphType
    BY <2>1 DEF GraphType
  <2>4. [g EXCEPT !.chunks = @ \cup new, !.hasChunk = @ \cup new].docs = g.docs
    BY DEF GraphType
  <2> QED
    BY <2>2, <2>3, <2>4
<1>3. /\ Graph!UpsertEntities(g, d, text) \in GraphType
      /\ Graph!UpsertEntities(g, d, text).docs = g.docs
  <2> DEFINE ents == Graph!EntitiesOf(text)
             new == {d} \X ents
  <2>1. ents \subseteq Entity
    BY DEF ExtractionType, Graph!EntitiesOf
  <2> HIDE DEF ents
  <2>2. new \subseteq GraphDoc \X Entity
    BY <2>1
  <2> HIDE DEF new
  <2>3. Graph!UpsertEntities(g, d, text) =
          IF d \notin g.docs THEN g ELSE [g EXCEPT !.entities = @ \cup ents, !.hasEntity = @ \cup new]
    BY DEF Graph!UpsertEntities, ents, new
  <2>4. [g EXCEPT !.entities = @ \cup ents, !.hasEntity = @ \cup new] \in GraphType
    BY <2>1, <2>2 DEF GraphType
  <2>5. [g EXCEPT !.entities = @ \cup ents, !.hasEntity = @ \cup new].docs = g.docs
    BY DEF GraphType
  <2> QED
    BY <2>3, <2>4, <2>5
<1>4. /\ Graph!UpsertMentions(g, d, text) \in GraphType
      /\ Graph!UpsertMentions(g, d, text).docs = g.docs
  <2> DEFINE new == {[doc |-> d, chunk |-> m[1], entity |-> m[2]] :
                       m \in {n \in text.mentions : n[2] \in g.entities /\ <<d, n[1]>> \in g.chunks}}
  <2>1. new \subseteq Stamped
    <3>1. ASSUME NEW m \in GraphChunk \X Entity
          PROVE  [doc |-> d, chunk |-> m[1], entity |-> m[2]] \in Stamped
      BY DEF Stamped
    <3>2. text.mentions \subseteq GraphChunk \X Entity
      BY DEF ExtractionType
    <3> QED
      BY <3>1, <3>2
  <2>2. Graph!UpsertMentions(g, d, text) = [g EXCEPT !.mentions = @ \cup new]
    BY DEF Graph!UpsertMentions
  <2> HIDE DEF new
  <2>3. [g EXCEPT !.mentions = @ \cup new] \in GraphType
    BY <2>1 DEF GraphType
  <2>4. [g EXCEPT !.mentions = @ \cup new].docs = g.docs
    BY DEF GraphType
  <2> QED
    BY <2>2, <2>3, <2>4
<1>5. /\ Graph!UpsertRelations(g, d, text) \in GraphType
      /\ Graph!UpsertRelations(g, d, text).docs = g.docs
  <2>1. ASSUME NEW rows, rows \subseteq text.relations
        PROVE  Graph!RelationRows(g, d, rows) \subseteq Graph!Relation
    BY <2>1 DEF Graph!RelationRows, Graph!Relation, ExtractionType
  <2> DEFINE all == Graph!RelationRows(g, d, text.relations)
             some == Graph!RelationRows(g, d, {r \in text.relations : r[4]})
  <2>2. all \subseteq Graph!Relation /\ some \subseteq Graph!Relation
    BY <2>1
  <2>3. Graph!UpsertRelations(g, d, text) =
          [g EXCEPT !.relations = @ \cup all, !.causal = @ \cup some]
    BY DEF Graph!UpsertRelations
  <2> HIDE DEF all, some
  <2>4. [g EXCEPT !.relations = @ \cup all, !.causal = @ \cup some] \in GraphType
    BY <2>2 DEF GraphType
  <2>5. [g EXCEPT !.relations = @ \cup all, !.causal = @ \cup some].docs = g.docs
    BY DEF GraphType
  <2> QED
    BY <2>3, <2>4, <2>5
<1> QED
  BY <1>1, <1>2, <1>3, <1>4, <1>5

LEMMA DetachWrites ==
  ASSUME NEW g \in GraphType, NEW d \in GraphDoc
  PROVE  Graph!Detach(g, d) \in GraphType /\ Graph!Detach(g, d).docs = g.docs \ {d}
BY DEF Graph!Detach, GraphType

LEMMA GraphStarts == Graph!Init => GraphInv
<1> SUFFICES ASSUME Graph!Init PROVE GraphInv
  OBVIOUS
<1>1. /\ x1 = Graph!Empty /\ x2 = [y \in Syncer |-> Graph!NoSync]
      /\ x3 = [e \in Eraser |-> Graph!NoErase] /\ x4 = [r \in Reader |-> Graph!NoAsk] /\ x5 = {}
  BY DEF Graph!Init
<1>2. Graph!Empty \in GraphType
  BY DEF Graph!Empty, GraphType
<1>3. Graph!NoSync \in SyncType /\ Graph!NoSync.at = "idle"
  BY DEF Graph!NoSync, SyncType, ExtractionType
<1>4. Graph!NoErase \in EraseType /\ Graph!NoErase.at = "idle"
  BY DEF Graph!NoErase, EraseType
<1>5. Graph!NoAsk \in QuestionType /\ Graph!NoAsk.gone = {} /\ Graph!NoAsk.edges = {}
  BY DEF Graph!NoAsk, QuestionType
<1> QED
  BY <1>1, <1>2, <1>3, <1>4, <1>5 DEF GraphInv, Graph!TriplesOfScope

\* Steps of those who write: the nodes that come are no longer gone, those that are gone go.
LEMMA Writing ==
  ASSUME GraphInv, x1' \in GraphType, x2' \in [Syncer -> SyncType], x3' \in [Eraser -> EraseType],
         \A y \in Syncer : x2'[y].at # "idle" => x2'[y].doc \in GraphDoc,
         \A e \in Eraser : x3'[e].at # "idle" => x3'[e].doc \in GraphDoc,
         NEW back, x1'.docs \subseteq x1.docs \cup back,
         x4' = [r \in Reader |-> [x4[r] EXCEPT !.gone = @ \ back]],
         x5' \subseteq GraphDoc, x5' \cap x1'.docs = {}
  PROVE  GraphInv'
<1>1. ASSUME NEW r \in Reader
      PROVE  /\ x4'[r] \in QuestionType /\ x4'[r].gone = x4[r].gone \ back
             /\ x4'[r].edges = x4[r].edges /\ x4'[r].filter = x4[r].filter
  <2>1. x4[r] \in QuestionType
    BY DEF GraphInv
  <2> DEFINE q == [x4[r] EXCEPT !.gone = @ \ back]
  <2>2. x4'[r] = q
    OBVIOUS
  <2>3. q \in QuestionType
    BY <2>1 DEF QuestionType
  <2>4. q.gone = x4[r].gone \ back /\ q.edges = x4[r].edges /\ q.filter = x4[r].filter
    BY <2>1 DEF QuestionType
  <2> HIDE DEF q
  <2> QED
    BY <2>2, <2>3, <2>4
<1>2. x4' \in [Reader -> QuestionType]
  BY <1>1
<1>3. \A r \in Reader : x4'[r].gone \cap x1'.docs = {}
  BY <1>1 DEF GraphInv
<1>4. Graph!TriplesOfScope'
  BY <1>1 DEF GraphInv, Graph!TriplesOfScope
<1> QED
  BY <1>2, <1>3, <1>4 DEF GraphInv

LEMMA StartSyncKeeps ==
  ASSUME GraphInv, NEW y \in Syncer, Graph!StartSync(y)
  PROVE  GraphInv'
<1>1. PICK d \in GraphDoc, text \in Extraction :
        x2' = [x2 EXCEPT ![y] = [Graph!NoSync EXCEPT !.at = "document", !.doc = d, !.text = text]]
  BY DEF Graph!StartSync
<1> DEFINE s == [Graph!NoSync EXCEPT !.at = "document", !.doc = d, !.text = text]
<1>2. s \in SyncType /\ s.doc = d
  BY ExtractionTypes DEF Graph!NoSync, SyncType
<1>3. UNCHANGED <<x1, x3, x4, x5>>
  BY DEF Graph!StartSync
<1> HIDE DEF s
<1> QED
  BY <1>1, <1>2, <1>3 DEF GraphInv, Graph!TriplesOfScope, s

\* Each transaction of a synchronisation leaves the nodes as they are, but the first.
LEMMA SyncWriting ==
  ASSUME NEW g \in GraphType, NEW d \in GraphDoc, NEW text \in ExtractionType,
         NEW at \in {"document", "clear", "chunks", "entities", "mentions", "relations"}
  PROVE  /\ Graph!SyncWrites(g, at, d, text) \in GraphType
         /\ Graph!SyncWrites(g, at, d, text).docs
              \subseteq g.docs \cup (IF at = "document" THEN {d} ELSE {})
<1>1. CASE at = "document"
  BY <1>1, UpsertWrites DEF Graph!SyncWrites
<1>2. CASE at = "clear"
  BY <1>2, ClearWrites DEF Graph!SyncWrites
<1>3. CASE at = "chunks"
  BY <1>3, UpsertWrites DEF Graph!SyncWrites
<1>4. CASE at = "entities"
  BY <1>4, UpsertWrites DEF Graph!SyncWrites
<1>5. CASE at = "mentions"
  BY <1>5, UpsertWrites DEF Graph!SyncWrites
<1>6. CASE at = "relations"
  BY <1>6, UpsertWrites DEF Graph!SyncWrites
<1> QED
  BY <1>1, <1>2, <1>3, <1>4, <1>5, <1>6

LEMMA SyncStepKeeps ==
  ASSUME GraphInv, NEW y \in Syncer, Graph!SyncStep(y)
  PROVE  GraphInv'
<1> DEFINE s == x2[y]
           back == IF s.at = "document" THEN {s.doc} ELSE {}
           new == Graph!SyncWrites(x1, s.at, s.doc, s.text)
<1>1. /\ s \in SyncType /\ s.doc \in GraphDoc /\ s.text \in ExtractionType
      /\ s.at \in {"document", "clear", "chunks", "entities", "mentions", "relations"}
      /\ x1 \in GraphType
  <2>1. DOMAIN Graph!AfterSync = {"document", "clear", "chunks", "entities", "mentions", "relations"}
    BY DEF Graph!AfterSync
  <2>2. s.at \in {"document", "clear", "chunks", "entities", "mentions", "relations"}
    BY <2>1 DEF Graph!SyncStep
  <2>3. s \in SyncType
    BY DEF GraphInv
  <2> QED
    BY <2>2, <2>3 DEF GraphInv, SyncType
<1>2. new \in GraphType /\ new.docs \subseteq x1.docs \cup back
  BY <1>1, SyncWriting
<1>3. Graph!AfterSync[s.at] \in {"clear", "chunks", "entities", "mentions", "relations", "end"}
  BY <1>1 DEF Graph!AfterSync
<1>4. /\ UNCHANGED x3 /\ x5' = x5 \ back
      /\ x4' = [r \in Reader |-> [x4[r] EXCEPT !.gone = @ \ back]]
  BY DEF Graph!SyncStep
<1>5. x1' \in {x1, new} /\ \E a \in SyncType : x2' = [x2 EXCEPT ![y] = a] /\ a.doc = s.doc
  <2>1. ASSUME NEW at \in {"clear", "chunks", "entities", "mentions", "relations", "end"}
        PROVE  [s EXCEPT !.at = at] \in SyncType /\ [s EXCEPT !.at = at].doc = s.doc
    BY <1>1, <2>1 DEF SyncType
  <2>2. /\ [s EXCEPT !.at = "document", !.retried = TRUE] \in SyncType
        /\ [s EXCEPT !.at = "document", !.retried = TRUE].doc = s.doc
    <3>1. s \in SyncType
      BY <1>1
    <3> QED
      BY <3>1 DEF SyncType
  <2>3. \/ x1' = new /\ x2' = [x2 EXCEPT ![y] = [s EXCEPT !.at = Graph!AfterSync[s.at]]]
        \/ /\ x1' \in {x1, new}
           /\ \/ x2' = [x2 EXCEPT ![y] = [s EXCEPT !.at = "document", !.retried = TRUE]]
              \/ x2' = [x2 EXCEPT ![y] = [s EXCEPT !.at = "end"]]
    BY DEF Graph!SyncStep, Graph!Transaction, GraphInv
  <2> HIDE DEF new
  <2> QED
    BY <1>3, <2>1, <2>2, <2>3
<1> HIDE DEF new
<1>6. x1' \in GraphType /\ x1'.docs \subseteq x1.docs \cup back
  BY <1>1, <1>2, <1>5
<1>7. x2' \in [Syncer -> SyncType] /\ \A z \in Syncer : x2'[z].at # "idle" => x2'[z].doc \in GraphDoc
  BY <1>1, <1>5 DEF GraphInv
<1>8. x5' \subseteq GraphDoc /\ x5' \cap x1'.docs = {}
  BY <1>4, <1>6 DEF GraphInv
<1>9. /\ x3' \in [Eraser -> EraseType]
      /\ \A e \in Eraser : x3'[e].at # "idle" => x3'[e].doc \in GraphDoc
  BY <1>4 DEF GraphInv
<1> HIDE DEF back
<1> QED
  BY <1>4, <1>6, <1>7, <1>8, <1>9, Writing

LEMMA StartEraseKeeps ==
  ASSUME GraphInv, NEW e \in Eraser, Graph!StartErase(e)
  PROVE  GraphInv'
<1>1. PICK d \in GraphDoc :
        x3' = [x3 EXCEPT ![e] = [Graph!NoErase EXCEPT !.at = "clear", !.doc = d]]
  BY DEF Graph!StartErase
<1> DEFINE s == [Graph!NoErase EXCEPT !.at = "clear", !.doc = d]
<1>2. s \in EraseType /\ s.doc = d
  BY DEF Graph!NoErase, EraseType
<1>3. UNCHANGED <<x1, x2, x4, x5>>
  BY DEF Graph!StartErase
<1> HIDE DEF s
<1> QED
  BY <1>1, <1>2, <1>3 DEF GraphInv, Graph!TriplesOfScope, s

\* The deletion is confirmed when the node is gone.
LEMMA EraseStepKeeps ==
  ASSUME GraphInv, NEW e \in Eraser, Graph!EraseStep(e)
  PROVE  GraphInv'
<1> DEFINE s == x3[e]
<1>1. /\ s \in EraseType /\ s.doc \in GraphDoc /\ x1 \in GraphType /\ s.at \in {"clear", "detach"}
      /\ UNCHANGED <<x2, x4>>
  BY DEF Graph!EraseStep, GraphInv
<1>2. /\ Graph!Clear(x1, s.doc) \in GraphType /\ Graph!Clear(x1, s.doc).docs = x1.docs
      /\ Graph!Detach(x1, s.doc) \in GraphType /\ Graph!Detach(x1, s.doc).docs = x1.docs \ {s.doc}
  BY <1>1, ClearWrites, DetachWrites
<1>3. ASSUME NEW at \in {"clear", "detach", "end"}
      PROVE  [s EXCEPT !.at = at] \in EraseType /\ [s EXCEPT !.at = at].doc = s.doc
  BY <1>1, <1>3 DEF EraseType
<1>4. /\ [s EXCEPT !.at = "clear", !.retried = TRUE] \in EraseType
      /\ [s EXCEPT !.at = "clear", !.retried = TRUE].doc = s.doc
  <2>1. s \in EraseType
    BY <1>1
  <2> QED
    BY <2>1 DEF EraseType
<1>5. \/ x3' = [x3 EXCEPT ![e] = [s EXCEPT !.at = "clear", !.retried = TRUE]]
      \/ \E at \in {"clear", "detach", "end"} : x3' = [x3 EXCEPT ![e] = [s EXCEPT !.at = at]]
  BY <1>1 DEF Graph!EraseStep, Graph!Transaction, GraphInv
<1>6. PICK a \in EraseType : x3' = [x3 EXCEPT ![e] = a] /\ a.doc = s.doc
  <2>1. CASE x3' = [x3 EXCEPT ![e] = [s EXCEPT !.at = "clear", !.retried = TRUE]]
    BY <1>4, <2>1
  <2>2. CASE \E at \in {"clear", "detach", "end"} : x3' = [x3 EXCEPT ![e] = [s EXCEPT !.at = at]]
    BY <1>3, <2>2
  <2> QED
    BY <1>5, <2>1, <2>2
<1>7. \/ x1' \in {x1, Graph!Clear(x1, s.doc), Graph!Detach(x1, s.doc)} /\ x5' = x5
      \/ x1' = Graph!Detach(x1, s.doc) /\ x5' \subseteq x5 \cup {s.doc}
  BY <1>1 DEF Graph!EraseStep, Graph!Transaction
<1>8. x1' \in GraphType /\ x1'.docs \subseteq x1.docs
  BY <1>1, <1>2, <1>7
<1>9. x5' \subseteq GraphDoc /\ x5' \cap x1'.docs = {}
  <2>1. x5 \subseteq GraphDoc /\ x5 \cap x1.docs = {}
    BY DEF GraphInv
  <2>2. CASE x5' = x5
    BY <1>8, <2>1, <2>2
  <2>3. CASE x1' = Graph!Detach(x1, s.doc) /\ x5' \subseteq x5 \cup {s.doc}
    BY <1>1, <1>2, <2>1, <2>3
  <2> QED
    BY <1>7, <2>2, <2>3
<1>10. x3' \in [Eraser -> EraseType] /\ \A f \in Eraser : x3'[f].at # "idle" => x3'[f].doc \in GraphDoc
  BY <1>1, <1>6 DEF GraphInv
<1> QED
  BY <1>1, <1>8, <1>9, <1>10 DEF GraphInv, Graph!TriplesOfScope

\* Steps of one question.
LEMMA Questioning ==
  ASSUME GraphInv, NEW r \in Reader, NEW q \in QuestionType, x4' = [x4 EXCEPT ![r] = q],
         UNCHANGED <<x1, x2, x3, x5>>, q.gone \cap x1.docs = {},
         \A x \in q.edges : x.doc \in q.filter \ q.gone
  PROVE  GraphInv'
<1>1. /\ x4' \in [Reader -> QuestionType] /\ x4'[r] = q
      /\ \A p \in Reader : p # r => x4'[p] = x4[p]
  BY DEF GraphInv
<1>2. \A p \in Reader : x4'[p].gone \cap x1.docs = {}
  BY <1>1 DEF GraphInv
<1>3. Graph!TriplesOfScope'
  BY <1>1 DEF GraphInv, Graph!TriplesOfScope
<1> QED
  BY <1>1, <1>2, <1>3 DEF GraphInv

\* What can match, and what is near, are entities.
LEMMA EntitiesFound ==
  ASSUME NEW g \in GraphType, NEW F \in SUBSET GraphDoc, NEW S \in SUBSET Entity
  PROVE  /\ Graph!NameMatches(g, F) \subseteq Entity /\ Graph!ContentMatches(g, F) \subseteq Entity
         /\ Graph!NodesNear(g, F, S) \subseteq Entity
         /\ Graph!EdgesNear(g, F, S) \subseteq Graph!Relation
         /\ \A x \in Graph!EdgesNear(g, F, S) : x.doc \in F \cap g.docs
<1>1. /\ g.hasEntity \subseteq GraphDoc \X Entity /\ g.relations \subseteq Graph!Relation
      /\ g.mentions \subseteq Stamped
  BY DEF GraphType
<1>2. Graph!NameMatches(g, F) \subseteq Entity
  BY <1>1 DEF Graph!NameMatches
<1>3. Graph!ContentMatches(g, F) \subseteq Entity
  <2>1. \A x \in g.relations : x.from \in Entity /\ x.to \in Entity
    BY <1>1 DEF Graph!Relation
  <2>2. \A m \in g.mentions : m.entity \in Entity
    BY <1>1 DEF Stamped
  <2> QED
    BY <2>1, <2>2 DEF Graph!ContentMatches
<1>4. Graph!NodesNear(g, F, S) \subseteq Entity
  BY <1>2 DEF Graph!NodesNear
<1>5. Graph!EdgesNear(g, F, S) \subseteq g.relations
      /\ \A x \in Graph!EdgesNear(g, F, S) : x.doc \in F \cap g.docs
  BY DEF Graph!EdgesNear, Graph!Filtered
<1> QED
  BY <1>1, <1>2, <1>3, <1>4, <1>5

LEMMA QuestionKeeps ==
  ASSUME GraphInv, NEW r \in Reader,
         \/ Graph!StartAsk(r) \/ Graph!MatchNames(r) \/ Graph!MatchContents(r)
         \/ Graph!ReadNodes(r) \/ Graph!ReadEdges(r) \/ Graph!AskFails(r)
  PROVE  GraphInv'
<1>1. /\ x4[r] \in QuestionType /\ UNCHANGED <<x1, x2, x3, x5>> /\ x1 \in GraphType
      /\ x4[r].gone \cap x1.docs = {} /\ x5 \cap x1.docs = {} /\ x5 \subseteq GraphDoc
      /\ \A x \in x4[r].edges : x.doc \in x4[r].filter \ x4[r].gone
  BY DEF Graph!StartAsk, Graph!MatchNames, Graph!MatchContents, Graph!ReadNodes, Graph!ReadEdges,
         Graph!AskFails, GraphInv, Graph!TriplesOfScope
<1>2. x4[r].filter \subseteq GraphDoc /\ x4[r].matched \subseteq Entity
  BY <1>1 DEF QuestionType
<1>3. CASE Graph!StartAsk(r)
  <2>1. PICK F \in SUBSET GraphDoc :
          x4' = [x4 EXCEPT ![r] = [Graph!NoAsk EXCEPT !.at = "names", !.filter = F, !.gone = x5]]
    BY <1>3 DEF Graph!StartAsk
  <2> DEFINE q == [Graph!NoAsk EXCEPT !.at = "names", !.filter = F, !.gone = x5]
  <2>2. q \in QuestionType /\ q.gone = x5 /\ q.edges = {}
    BY <1>1 DEF Graph!NoAsk, QuestionType
  <2> HIDE DEF q
  <2> QED
    BY <1>1, <2>1, <2>2, Questioning DEF q
<1>4. ASSUME NEW at \in {"names", "contents", "nodes", "edges", "end"}, NEW matched \in SUBSET Entity,
             NEW nodes \in SUBSET Entity,
             x4' = [x4 EXCEPT ![r] = [x4[r] EXCEPT !.at = at, !.matched = matched, !.nodes = nodes]]
      PROVE  GraphInv'
  <2> DEFINE q == [x4[r] EXCEPT !.at = at, !.matched = matched, !.nodes = nodes]
  <2>1. q \in QuestionType
    BY <1>1 DEF QuestionType
  <2>2. q.gone = x4[r].gone /\ q.edges = x4[r].edges /\ q.filter = x4[r].filter
    BY <1>1 DEF QuestionType
  <2>3. x4' = [x4 EXCEPT ![r] = q]
    BY <1>4
  <2> HIDE DEF q
  <2> QED
    BY <1>1, <2>1, <2>2, <2>3, Questioning
<1>5. x4[r].nodes \subseteq Entity
  BY <1>1 DEF QuestionType
<1>6. CASE Graph!MatchNames(r)
  <2>1. PICK hits \in SUBSET Entity : x4' = [x4 EXCEPT ![r].at = "contents", ![r].matched = hits]
    BY <1>1, <1>2, <1>6, EntitiesFound DEF Graph!MatchNames
  <2>2. x4' = [x4 EXCEPT ![r] = [x4[r] EXCEPT !.at = "contents", !.matched = hits, !.nodes = x4[r].nodes]]
    BY <1>1, <2>1 DEF QuestionType, GraphInv
  <2> QED
    BY <1>4, <1>5, <2>2
<1>7. CASE Graph!MatchContents(r)
  <2>1. PICK matched \in SUBSET Entity, at \in {"nodes", "end"} :
          x4' = [x4 EXCEPT ![r].at = at, ![r].matched = matched]
    BY <1>1, <1>2, <1>7, EntitiesFound DEF Graph!MatchContents
  <2>2. x4' = [x4 EXCEPT ![r] = [x4[r] EXCEPT !.at = at, !.matched = matched, !.nodes = x4[r].nodes]]
    BY <1>1, <2>1 DEF QuestionType, GraphInv
  <2> QED
    BY <1>4, <1>5, <2>2
<1>8. CASE Graph!ReadNodes(r)
  <2>1. PICK nodes \in SUBSET Entity : x4' = [x4 EXCEPT ![r].at = "edges", ![r].nodes = nodes]
    BY <1>1, <1>2, <1>8, EntitiesFound DEF Graph!ReadNodes
  <2>2. x4' = [x4 EXCEPT ![r] = [x4[r] EXCEPT !.at = "edges", !.matched = x4[r].matched, !.nodes = nodes]]
    BY <1>1, <2>1 DEF QuestionType, GraphInv
  <2> QED
    BY <1>2, <1>4, <2>2
<1>9. CASE Graph!ReadEdges(r)
  <2> DEFINE found == Graph!EdgesNear(x1, x4[r].filter, x4[r].matched)
             q == [x4[r] EXCEPT !.at = "end", !.edges = found]
  <2>1. found \subseteq Graph!Relation /\ \A x \in found : x.doc \in x4[r].filter \cap x1.docs
    BY <1>1, <1>2, EntitiesFound
  <2>2. x4' = [x4 EXCEPT ![r] = q]
    BY <1>9 DEF Graph!ReadEdges, GraphInv
  <2> HIDE DEF found
  <2>3. q \in QuestionType
    BY <1>1, <2>1 DEF QuestionType
  <2>4. q.gone = x4[r].gone /\ q.edges = found /\ q.filter = x4[r].filter
    BY <1>1 DEF QuestionType
  <2> HIDE DEF q
  <2>5. \A x \in q.edges : x.doc \in q.filter \ q.gone
    BY <1>1, <2>1, <2>4
  <2> QED
    BY <1>1, <2>2, <2>3, <2>4, <2>5, Questioning
<1>10. CASE Graph!AskFails(r)
  <2>1. x4' = [x4 EXCEPT ![r] = [x4[r] EXCEPT !.at = "end", !.matched = x4[r].matched, !.nodes = x4[r].nodes]]
    BY <1>1, <1>10 DEF Graph!AskFails, QuestionType, GraphInv
  <2> QED
    BY <1>2, <1>4, <1>5, <2>1
<1> QED
  BY <1>3, <1>6, <1>7, <1>8, <1>9, <1>10

LEMMA GraphSteps ==
  ASSUME GraphInv, [Graph!Next]_(Graph!graphVars)
  PROVE  GraphInv'
<1>1. CASE UNCHANGED Graph!graphVars
  BY <1>1 DEF Graph!graphVars, GraphInv, Graph!TriplesOfScope
<1> QED
  BY <1>1, StartSyncKeeps, SyncStepKeeps, StartEraseKeeps, EraseStepKeeps, QuestionKeeps
  DEF Graph!Next

LEMMA GraphInvariant == ServicesSpec => [](part = "graph" => GraphInv)
<1>1. ServicesInit => (part = "graph" => GraphInv)
  BY GraphStarts DEF ServicesInit
<1>2. (part = "graph" => GraphInv) /\ [ServicesNext]_vars => (part = "graph" => GraphInv)'
  <2> SUFFICES ASSUME part' = "graph", part = "graph" => GraphInv, [ServicesNext]_vars
      PROVE  GraphInv'
    OBVIOUS
  <2>1. part = "graph" /\ [Graph!Next]_(Graph!graphVars)
    BY DEF ServicesNext, vars, From5, Graph!graphVars
  <2> QED
    BY <2>1, GraphSteps
<1> QED
  BY <1>1, <1>2, PTL DEF ServicesSpec

\* The graph answers a question from relations of the documents it was asked about, and from none
\* of a document whose deletion was confirmed before, whatever transactions are retried, lost or
\* in between.
THEOREM GraphAnswersScope == ServicesSpec => []TriplesOfScope
<1>1. (part = "graph" => GraphInv) => TriplesOfScope
  BY DEF TriplesOfScope, GraphInv
<1> QED
  BY <1>1, GraphInvariant, PTL

-------------------------------------------------------------------------------
(* What a question may draw on: RetrievalScope *)

\* A scope that searches: its lists name documents the caller may retrieve, of the matter if there is
\* one, and an empty list is a signed-in caller's outside a matter, behind the owner filter unless
\* the caller is an admin.
Sayable == Scope!WithinMatter({d \in Doc : Scope!CanRetrieve(d)})

Bounded(s) ==
  ~s.miss =>
    /\ Scope!SignedIn /\ ~Scope!IsAdmin => s.owner
    /\ s.ids \subseteq Sayable /\ s.targets \subseteq Sayable
    /\ s.ids = {} => Scope!SignedIn /\ ~Scope!InMatter

ScopeInv ==
  /\ x1 \in Scope!Ask
  /\ x3 = "search" => Bounded(x2)
  /\ Scope!ScopeConfined

\* What a resolution comes to may be searched; without a document in it, it is a miss, or
\* everything for a signed-in caller.
Resolved(found) ==
  \/ found = Scope!Refused
  \/ \E ids, hint \in SUBSET Scope!Allowed, miss \in BOOLEAN :
       /\ \E preferred : found = Scope!Found(ids, preferred, miss, hint)
       /\ ids = {} /\ ~miss => Scope!SignedIn

LEMMA AllowedIsSayable == ASSUME x1 \in Scope!Ask PROVE Scope!Allowed \subseteq Sayable
BY DEF Scope!Allowed, Sayable, Scope!WithinMatter, Scope!Ask

\* Whatever a model picks is one of the candidates it was given.
LEMMA ResolutionsAllowed ==
  ASSUME NEW terms \in BOOLEAN, NEW resolution \in Scope!Resolutions(terms)
  PROVE  resolution[1] \in SUBSET Scope!Allowed /\ resolution[2] \in SUBSET Scope!Allowed
<1>1. ASSUME NEW match, NEW pick \in SUBSET Scope!Allowed
      PROVE  Scope!ScopeForTerms(match, pick) \subseteq Scope!Allowed
  BY DEF Scope!ScopeForTerms
<1>2. ASSUME NEW match, NEW routed \in SUBSET Scope!Allowed, NEW compares
      PROVE  Scope!HintTargets(match, routed, compares) \subseteq Scope!Allowed
  BY DEF Scope!HintTargets
<1>3. CASE terms
  <2>1. PICK match \in [Scope!Allowed -> Scope!Strength], pick \in SUBSET Scope!Allowed,
             routed \in SUBSET Scope!Allowed, compares \in BOOLEAN :
          resolution = <<Scope!ScopeForTerms(match, pick), Scope!HintTargets(match, routed, compares)>>
    BY <1>3 DEF Scope!Resolutions
  <2> QED
    BY <1>1, <1>2, <2>1
<1>4. CASE ~terms
  BY <1>4 DEF Scope!Resolutions
<1> QED
  BY <1>3, <1>4

LEMMA Narrowing ==
  ASSUME NEW ids, NEW preferred, NEW scoped
  PROVE  Scope!Narrow(ids, preferred, scoped).ids \subseteq ids \cup scoped
BY DEF Scope!Narrow

LEMMA FoundOrRefused ==
  ASSUME NEW condition, NEW found, condition => Resolved(found)
  PROVE  Resolved(Scope!OnlyIf(condition, found))
BY DEF Scope!OnlyIf, Resolved

LEMMA Finding ==
  ASSUME NEW ids \in SUBSET Scope!Allowed, NEW hint \in SUBSET Scope!Allowed, NEW preferred,
         NEW miss \in BOOLEAN, ids = {} /\ ~miss => Scope!SignedIn
  PROVE  Resolved(Scope!Found(ids, preferred, miss, hint))
BY DEF Resolved

LEMMA OfUserResolves ==
  ASSUME Scope!SignedIn, NEW terms, NEW scoped \in SUBSET Scope!Allowed,
         NEW hint \in SUBSET Scope!Allowed
  PROVE  Resolved(Scope!OfUser(terms, scoped, hint))
<1> DEFINE kept == Scope!Narrow(Scope!Requested.ids, Scope!Requested.preferred, scoped)
           ids == IF kept.ids = {} THEN {kept.preferred} \ {NoDoc} ELSE kept.ids
           resolved == IF hint # {} THEN hint ELSE scoped
           globals == Scope!Allowed \cap Global
<1>1. PICK none \in BOOLEAN : none = (globals = {})
  OBVIOUS
<1>2. Resolved(Scope!OfUserUnnamed(terms, scoped, hint))
  <2>1. /\ Resolved(Scope!Found(resolved, NoDoc, FALSE, hint))
        /\ Resolved(Scope!Found(Scope!Allowed, NoDoc, FALSE, hint))
        /\ Resolved(Scope!Found({}, NoDoc, FALSE, hint))
    BY Finding
  <2>2. Resolved(Scope!Found(globals, NoDoc, globals = {}, hint))
    <3>1. Resolved(Scope!Found(globals, NoDoc, none, hint))
      BY <1>1, Finding
    <3> QED
      BY <1>1, <3>1, Zenon
  <2>3. /\ Resolved(Scope!OnlyIf(Scope!Allowed # {}, Scope!Found(Scope!Allowed, NoDoc, FALSE, hint)))
        /\ Resolved(Scope!OnlyIf(Scope!Allowed # {}, Scope!Found({}, NoDoc, FALSE, hint)))
    BY <2>1, FoundOrRefused
  <2>4. CASE resolved # {}
    BY <2>1, <2>4 DEF Scope!OfUserUnnamed
  <2>5. CASE resolved = {} /\ Scope!InMatter
    BY <2>3, <2>5 DEF Scope!OfUserUnnamed
  <2>6. CASE resolved = {} /\ ~Scope!InMatter /\ terms
    <3>1. Scope!OfUserUnnamed(terms, scoped, hint) = Scope!Found(globals, NoDoc, globals = {}, hint)
      BY <2>6 DEF Scope!OfUserUnnamed
    <3> QED
      BY <2>2, <3>1, Zenon
  <2>7. CASE resolved = {} /\ ~Scope!InMatter /\ ~terms
    BY <2>3, <2>7 DEF Scope!OfUserUnnamed
  <2> QED
    BY <2>4, <2>5, <2>6, <2>7
<1>3. Resolved(Scope!Found(ids \cap Scope!Allowed, kept.preferred, FALSE, hint))
  BY Finding
<1>4. Resolved(Scope!OnlyIf(kept.preferred \in Scope!Allowed \cup {NoDoc} /\ ids \cap Scope!Allowed # {},
                            Scope!Found(ids \cap Scope!Allowed, kept.preferred, FALSE, hint)))
  BY <1>3, FoundOrRefused
<1> QED
  BY <1>2, <1>4 DEF Scope!OfUser

LEMMA OfAdminResolves ==
  ASSUME Scope!SignedIn, NEW terms \in BOOLEAN, NEW scoped \in SUBSET Scope!Allowed,
         NEW hint \in SUBSET Scope!Allowed
  PROVE  Resolved(Scope!OfAdmin(terms, scoped, hint))
<1> DEFINE named == Scope!Requested.ids # {} \/ Scope!Requested.preferred # NoDoc
           kept == Scope!Narrow(Scope!Requested.ids \cap Scope!Allowed, Scope!Requested.preferred, scoped)
           resolved == IF hint # {} THEN hint ELSE scoped
           ids == IF named THEN kept.ids ELSE resolved
           miss == ~named /\ resolved = {} /\ terms /\ ~Scope!InMatter
<1>1. PICK m \in BOOLEAN : m = miss
  BY Zenon
<1>2. ids \in SUBSET Scope!Allowed
  BY Narrowing
<1>3. Resolved(Scope!Found(ids, kept.preferred, m, hint))
  BY <1>2, Finding
<1>4. Resolved(Scope!Found(Scope!Allowed, kept.preferred, FALSE, hint))
  BY Finding
<1>5. Resolved(Scope!OnlyIf(Scope!Allowed # {}, Scope!Found(Scope!Allowed, kept.preferred, FALSE, hint)))
  BY <1>4, FoundOrRefused
<1>6. Scope!OfAdmin(terms, scoped, hint) =
        IF Scope!InMatter /\ ids = {} /\ ~miss
        THEN Scope!OnlyIf(Scope!Allowed # {}, Scope!Found(Scope!Allowed, kept.preferred, FALSE, hint))
        ELSE Scope!Found(ids, kept.preferred, miss, hint)
  BY DEF Scope!OfAdmin
<1>7. Resolved(Scope!Found(ids, kept.preferred, miss, hint))
  BY <1>1, <1>3, Zenon
<1> QED
  BY <1>5, <1>6, <1>7, Zenon

LEMMA OfNobodyResolves ==
  ASSUME NEW terms, NEW scoped \in SUBSET Scope!Allowed, NEW hint \in SUBSET Scope!Allowed
  PROVE  Resolved(Scope!OfNobody(terms, scoped, hint))
<1> DEFINE resolved == IF hint # {} THEN hint ELSE scoped
           only == {x1.preferred}
           listed == x1.ids \cap Scope!Allowed
<1>1. Resolved(Scope!OnlyIf(x1.preferred \in Scope!Allowed, Scope!Found(only, x1.preferred, FALSE, hint)))
  BY Finding, FoundOrRefused
<1>2. Resolved(Scope!OnlyIf(listed # {}, Scope!Found(listed, NoDoc, FALSE, hint)))
  BY Finding, FoundOrRefused
<1>3. resolved # {} => Resolved(Scope!Found(resolved, NoDoc, FALSE, hint))
  BY Finding
<1>4. Resolved(Scope!Found({}, NoDoc, TRUE, hint))
  BY Finding
<1>5. Resolved(Scope!OnlyIf(Scope!Allowed # {}, Scope!Found(Scope!Allowed, NoDoc, FALSE, hint)))
  BY Finding, FoundOrRefused
<1>6. CASE x1.preferred # NoDoc
  BY <1>1, <1>6 DEF Scope!OfNobody
<1>7. CASE x1.preferred = NoDoc /\ x1.ids # {}
  BY <1>2, <1>7 DEF Scope!OfNobody
<1>8. CASE x1.preferred = NoDoc /\ x1.ids = {}
  BY <1>3, <1>4, <1>5, <1>8 DEF Scope!OfNobody
<1> QED
  BY <1>6, <1>7, <1>8

\* Whoever asks, a resolution comes to documents that the caller may retrieve.
LEMMA CallerResolves ==
  ASSUME x1 \in Scope!Ask, NEW terms \in BOOLEAN, NEW resolution \in Scope!Resolutions(terms)
  PROVE  Resolved(Scope!ForCaller(terms, resolution))
<1>1. resolution[1] \in SUBSET Scope!Allowed /\ resolution[2] \in SUBSET Scope!Allowed
  BY ResolutionsAllowed
<1>2. CASE Scope!IsAdmin
  <2>1. Scope!SignedIn
    BY <1>2 DEF Scope!IsAdmin, Scope!SignedIn
  <2> QED
    BY <1>1, <1>2, <2>1, OfAdminResolves DEF Scope!ForCaller
<1>3. CASE ~Scope!IsAdmin /\ Scope!SignedIn
  BY <1>1, <1>3, OfUserResolves DEF Scope!ForCaller
<1>4. CASE ~Scope!IsAdmin /\ ~Scope!SignedIn
  BY <1>1, <1>4, OfNobodyResolves DEF Scope!ForCaller
<1> QED
  BY <1>2, <1>3, <1>4

\* The filters of a search, made from what was resolved and kept within the matter.
LEMMA FiltersBound ==
  ASSUME x1 \in Scope!Ask, NEW found, found.ids \in SUBSET Scope!Allowed,
         found.targets \in SUBSET Scope!Allowed,
         found.ids = {} /\ ~found.miss => Scope!SignedIn /\ ~Scope!InMatter
  PROVE  Bounded(Scope!Filters(found))
<1> DEFINE f == Scope!Filters(found)
<1>1. f.ids = found.ids /\ f.targets = IF found.ids # {} THEN found.ids ELSE found.targets
  BY DEF Scope!Filters
<1>2. f.miss = found.miss
  BY Zenon DEF Scope!Filters
<1>3. f.owner = (Scope!SignedIn /\ ~Scope!IsAdmin)
  BY Zenon DEF Scope!Filters
<1>4. Scope!Allowed \subseteq Sayable
  BY AllowedIsSayable
<1> HIDE DEF f
<1>5. f.ids \subseteq Sayable /\ f.targets \subseteq Sayable
  BY <1>1, <1>4
<1>6. Scope!SignedIn /\ ~Scope!IsAdmin => f.owner
  BY <1>3, Zenon
<1>7. ~f.miss => (f.ids = {} => Scope!SignedIn /\ ~Scope!InMatter)
  BY <1>1, <1>2, Zenon
<1>8. ASSUME ~f.miss
      PROVE  /\ Scope!SignedIn /\ ~Scope!IsAdmin => f.owner
             /\ f.ids \subseteq Sayable /\ f.targets \subseteq Sayable
             /\ f.ids = {} => Scope!SignedIn /\ ~Scope!InMatter
  BY <1>5, <1>6, <1>7, <1>8
<1>9. Bounded(f)
  BY <1>8, Zenon DEF Bounded
<1> QED
  BY <1>9 DEF f

LEMMA ResolveBounds ==
  ASSUME x1 \in Scope!Ask, Scope!Resolve
  PROVE  x3' = "refused" \/ (x3' = "search" /\ Bounded(x2'))
<1>1. CASE x3' = "refused"
  BY <1>1
<1>2. ASSUME NEW terms \in BOOLEAN, NEW resolution \in Scope!Resolutions(terms),
             LET found == Scope!ForCaller(terms, resolution)
                 kept == IF Scope!InMatter /\ ~found.refused THEN Scope!InsideMatter(found) ELSE found
             IN  IF kept.refused THEN x3' = "refused" /\ UNCHANGED x2
                 ELSE x2' = Scope!Filters(kept) /\ x3' = "search",
             x3' # "refused"
      PROVE  x3' = "search" /\ Bounded(x2')
  <2> DEFINE found == Scope!ForCaller(terms, resolution)
             kept == IF Scope!InMatter /\ ~found.refused THEN Scope!InsideMatter(found) ELSE found
  <2>1. ~kept.refused /\ x2' = Scope!Filters(kept) /\ x3' = "search"
    BY <1>2
  <2>2. Resolved(found)
    BY CallerResolves
  <2> HIDE DEF found
  <2>3. Scope!Refused.refused
    BY DEF Scope!Refused
  <2>4. found # Scope!Refused
    BY <2>1, <2>3
  <2>5. PICK ids \in SUBSET Scope!Allowed, hint \in SUBSET Scope!Allowed, miss \in BOOLEAN :
          /\ \E preferred : found = Scope!Found(ids, preferred, miss, hint)
          /\ ids = {} /\ ~miss => Scope!SignedIn
    BY <2>2, <2>4 DEF Resolved
  <2>6. PICK preferred : found = Scope!Found(ids, preferred, miss, hint)
    BY <2>5
  <2>7. /\ ~found.refused /\ found.ids = ids /\ found.targets = hint
        /\ {"ids", "preferred", "miss", "targets"} \subseteq DOMAIN found
    BY <2>6 DEF Scope!Found
  <2>8. found.miss = miss
    BY <2>6, Zenon DEF Scope!Found
  <2>9. CASE ~Scope!InMatter
    <3>1. kept = found
      BY <2>9
    <3>2. ids = {} /\ ~found.miss => Scope!SignedIn
      BY <2>5, <2>8, Zenon
    <3> QED
      BY <2>1, <2>7, <2>9, <3>1, <3>2, FiltersBound
  <2>10. CASE Scope!InMatter
    <3> DEFINE inside == ids \cap x1.filed
               k == [found EXCEPT !.ids = inside, !.preferred = IF @ \in x1.filed THEN @ ELSE NoDoc]
    <3>1. kept = Scope!InsideMatter(found) /\ kept # Scope!Refused
      BY <2>1, <2>3, <2>7, <2>10
    <3>2. Scope!InsideMatter(found) = Scope!OnlyIf(inside # {} \/ found.miss, k)
      BY <2>7 DEF Scope!InsideMatter
    <3>3. k.ids = inside /\ k.targets = hint /\ k.miss = found.miss
      BY <2>7
    <3>4. inside \in SUBSET Scope!Allowed
      OBVIOUS
    <3> HIDE DEF k, inside, kept
    <3>5. kept = k /\ (inside # {} \/ found.miss)
      BY <3>1, <3>2, Zenon DEF Scope!OnlyIf
    <3>6. ~(k.ids = {} /\ ~k.miss)
      BY <3>3, <3>5, Zenon
    <3>7. Bounded(Scope!Filters(k))
      BY <3>3, <3>4, <3>6, FiltersBound
    <3> QED
      BY <2>1, <3>5, <3>7
  <2> QED
    BY <2>9, <2>10
<1> QED
  BY <1>1, <1>2 DEF Scope!Resolve

\* A search within its filters finds what may be retrieved; a widened one keeps to the owner's
\* documents and those for everyone.
LEMMA SearchConfined ==
  ASSUME x1 \in Scope!Ask, Bounded(x2), Scope!Search
  PROVE  Scope!ScopeConfined'
<1>1. ~x2.miss /\ UNCHANGED x1
  BY DEF Scope!Search
<1>2. /\ Scope!SignedIn /\ ~Scope!IsAdmin => x2.owner
      /\ x2.ids \subseteq Sayable /\ x2.targets \subseteq Sayable
      /\ x2.ids = {} => Scope!SignedIn /\ ~Scope!InMatter
  BY <1>1 DEF Bounded
<1>3. ASSUME NEW d \in Doc, Scope!Passes(d, x2.ids) PROVE d \in Sayable
  <2>1. CASE x2.ids # {}
    BY <1>2, <1>3, <2>1 DEF Scope!Passes
  <2>2. CASE x2.ids = {}
    <3>1. Scope!IsAdmin \/ d \in Own \cup Global
      BY <1>2, <1>3, <2>2 DEF Scope!Passes
    <3> QED
      BY <1>2, <2>2, <3>1
      DEF Sayable, Scope!WithinMatter, Scope!CanRetrieve, Scope!OwnerRulesAllowRetrieval
  <2> QED
    BY <2>1, <2>2
<1>4. ASSUME NEW d \in Doc, NEW p, x2.ids = {}, Scope!Passes(d, {p}) PROVE d \in Sayable
  BY <1>3, <1>4 DEF Scope!Passes
<1>5. ASSUME NEW d \in Doc, NEW t \in x2.targets, Scope!Passes(d, {t}) PROVE d \in Sayable
  BY <1>2, <1>5 DEF Scope!Passes
<1>6. PICK d \in Doc, layer \in {"primary", "priors", "regulatory"} :
        /\ x4' = [doc |-> d, layer |-> layer]
        /\ (\E D : Scope!Passes(d, D)) /\ (layer = "primary" => d \in Sayable)
  BY <1>3, <1>4, <1>5
  DEF Scope!Search, Scope!Retrieve, Scope!AgentSearch, Scope!Widened, Scope!Source
<1>7. layer = "primary" => Scope!CanRetrieve(d) /\ (Scope!InMatter => d \in x1.filed)
  BY <1>6 DEF Sayable, Scope!WithinMatter
<1>8. x1.caller = "user" => d \in Own \cup Global
  BY <1>2, <1>6 DEF Scope!Passes, Scope!SignedIn, Scope!IsAdmin
<1>9. x4'.doc = d /\ x4'.layer = layer
  BY <1>6
<1> QED
  BY <1>1, <1>7, <1>8, <1>9
  DEF Scope!ScopeConfined, Scope!CanRetrieve, Scope!OwnerRulesAllowRetrieval,
      Scope!SharedThroughMatter, Scope!InMatter, Scope!SignedIn, Scope!IsAdmin

LEMMA ScopeSteps ==
  ASSUME ScopeInv, [Scope!Next]_(Scope!scopeVars)
  PROVE  ScopeInv'
<1>1. CASE UNCHANGED Scope!scopeVars
  BY <1>1 DEF Scope!scopeVars, ScopeInv, Bounded, Sayable, Scope!ScopeConfined, Scope!CanRetrieve,
     Scope!OwnerRulesAllowRetrieval, Scope!SharedThroughMatter, Scope!InMatter, Scope!SignedIn,
     Scope!IsAdmin, Scope!WithinMatter, Scope!Ask
<1>2. CASE Scope!Resolve
  <2>1. x1' = x1 /\ x1 \in Scope!Ask
    BY <1>2 DEF Scope!Resolve, ScopeInv
  <2>2. x3' = "refused" \/ (x3' = "search" /\ Bounded(x2'))
    BY <1>2, <2>1, ResolveBounds
  <2>3. x3' = "search" => Bounded(x2)'
    BY <2>1, <2>2 DEF Bounded, Sayable, Scope!CanRetrieve, Scope!OwnerRulesAllowRetrieval,
       Scope!SharedThroughMatter, Scope!InMatter, Scope!SignedIn, Scope!IsAdmin, Scope!WithinMatter
  <2> QED
    BY <2>1, <2>2, <2>3 DEF ScopeInv, Scope!ScopeConfined, Scope!Ask
<1>3. CASE Scope!Search
  <2>1. x1' = x1 /\ x3 = "search" /\ x3' = "answered"
    BY <1>3 DEF Scope!Search
  <2> QED
    BY <1>3, <2>1, SearchConfined DEF ScopeInv, Scope!Ask
<1> QED
  BY <1>1, <1>2, <1>3 DEF Scope!Next

\* What the primary search finds is a document its caller may retrieve, and of the matter that was
\* named, whatever was named, preferred or resolved; and no source of a user is another's, of the
\* layers that widen the scope neither.
THEOREM AnswersAreConfined == ServicesSpec => []ScopeConfined
<1>1. ServicesInit => (part = "scope" => ScopeInv)
  BY DEF ServicesInit, Scope!Init, ScopeInv, Scope!ScopeConfined
<1>2. (part = "scope" => ScopeInv) /\ [ServicesNext]_vars => (part = "scope" => ScopeInv)'
  <2> SUFFICES ASSUME part' = "scope", part = "scope" => ScopeInv, [ServicesNext]_vars
      PROVE  ScopeInv'
    OBVIOUS
  <2>1. part = "scope" /\ [Scope!Next]_(Scope!scopeVars)
    BY DEF ServicesNext, vars, Scope!scopeVars
  <2> QED
    BY <2>1, ScopeSteps
<1>3. (part = "scope" => ScopeInv) => ScopeConfined
  BY DEF ScopeInv, ScopeConfined
<1> QED
  BY <1>1, <1>2, <1>3, PTL DEF ServicesSpec

-------------------------------------------------------------------------------
(* What is remembered of a user: UserMemory *)

Actors == Learner \cup MemoryAsker
ActorFields == {"at", "op", "seen", "memo", "todo", "picked", "used", "gone"}

\* A request knows of deleted memories that they are, and uses none of them. A row has its fields
\* whatever is written to it, and is never taken back once it is marked.
RememberInv ==
  /\ DOMAIN x2 = Memo /\ \A m \in Memo : DOMAIN x2[m] = {"fact", "deleted"}
  /\ DOMAIN x5 = Actors /\ \A p \in Actors : DOMAIN x5[p] = ActorFields
  /\ \A p \in Actors : x5[p].gone \subseteq Remember!Deleted /\ x5[p].used \cap x5[p].gone = {}

\* An actor moves; of what it uses, nothing is gone.
LEMMA ActorMoves ==
  ASSUME RememberInv, NEW p \in Actors, NEW a, Remember!Move(p, a), DOMAIN a = ActorFields,
         a.gone \subseteq Remember!Deleted', a.used \cap a.gone = {},
         DOMAIN x2' = Memo, \A m \in Memo : DOMAIN x2'[m] = {"fact", "deleted"},
         Remember!Deleted \subseteq Remember!Deleted'
  PROVE  RememberInv'
<1>1. DOMAIN x5' = Actors /\ \A q \in Actors : x5'[q] = IF q = p THEN a ELSE x5[q]
  BY DEF Remember!Move, RememberInv
<1>2. ASSUME NEW q \in Actors
      PROVE  /\ DOMAIN x5'[q] = ActorFields
             /\ x5'[q].gone \subseteq Remember!Deleted' /\ x5'[q].used \cap x5'[q].gone = {}
  BY <1>1 DEF RememberInv
<1> QED
  BY <1>1, <1>2 DEF RememberInv

\* An actor moves beside the rows, with what it uses and what was gone as before.
LEMMA ActorGoes ==
  ASSUME RememberInv, NEW p \in Actors, NEW a, Remember!Move(p, a), DOMAIN a = ActorFields,
         a.gone = x5[p].gone, a.used = x5[p].used,
         DOMAIN x2' = Memo, \A m \in Memo : DOMAIN x2'[m] = {"fact", "deleted"},
         Remember!Deleted \subseteq Remember!Deleted'
  PROVE  RememberInv'
<1>1. a.gone \subseteq Remember!Deleted' /\ a.used \cap a.gone = {}
  BY DEF RememberInv
<1> QED
  BY <1>1, ActorMoves

LEMMA RowsStayMarked ==
  ASSUME RememberInv, UNCHANGED x2
  PROVE  /\ DOMAIN x2' = Memo /\ \A m \in Memo : DOMAIN x2'[m] = {"fact", "deleted"}
         /\ Remember!Deleted \subseteq Remember!Deleted'
BY DEF RememberInv, Remember!Deleted

\* Writing the content of a row marks and unmarks nothing.
LEMMA ContentWrites ==
  ASSUME RememberInv, NEW m, NEW fact, x2' = [x2 EXCEPT ![m].fact = fact]
  PROVE  /\ DOMAIN x2' = Memo /\ \A n \in Memo : DOMAIN x2'[n] = {"fact", "deleted"}
         /\ Remember!Deleted \subseteq Remember!Deleted'
<1>1. DOMAIN x2' = Memo /\ \A n \in Memo : x2'[n] = IF n = m THEN [x2[n] EXCEPT !.fact = fact] ELSE x2[n]
  BY DEF RememberInv
<1>2. \A n \in Memo : DOMAIN x2[n] = {"fact", "deleted"}
  BY DEF RememberInv
<1>3. \A n \in Memo : DOMAIN x2'[n] = {"fact", "deleted"} /\ x2'[n].deleted = x2[n].deleted
  BY <1>1, <1>2
<1> QED
  BY <1>1, <1>3, Zenon DEF Remember!Deleted

LEMMA MarkWrites ==
  ASSUME RememberInv, NEW m, x2' = [x2 EXCEPT ![m].deleted = TRUE]
  PROVE  /\ DOMAIN x2' = Memo /\ \A n \in Memo : DOMAIN x2'[n] = {"fact", "deleted"}
         /\ Remember!Deleted \subseteq Remember!Deleted'
<1>1. DOMAIN x2' = Memo /\ \A n \in Memo : x2'[n] = IF n = m THEN [x2[n] EXCEPT !.deleted = TRUE] ELSE x2[n]
  BY DEF RememberInv
<1>2. \A n \in Memo : DOMAIN x2[n] = {"fact", "deleted"}
  BY DEF RememberInv
<1>3. \A n \in Memo : DOMAIN x2'[n] = {"fact", "deleted"}
  BY <1>1, <1>2
<1>4. ASSUME NEW n \in Memo, x2[n].deleted
      PROVE  x2'[n].deleted
  <2>1. CASE n = m
    BY <1>1, <1>2, <2>1
  <2>2. CASE n # m
    BY <1>1, <1>4, <2>2, Zenon
  <2> QED
    BY <2>1, <2>2
<1> QED
  BY <1>1, <1>3, <1>4, Zenon DEF Remember!Deleted

\* Where an actor stands and what it holds besides decides nothing of what it uses.
LEMMA ActorKeeps ==
  ASSUME RememberInv, NEW p \in Actors
  PROVE  /\ DOMAIN x5[p] = ActorFields
         /\ \A at : Remember!Go(p, at) =>
              \E a : /\ Remember!Move(p, a) /\ DOMAIN a = ActorFields
                     /\ a.gone = x5[p].gone /\ a.used = x5[p].used
<1>1. DOMAIN x5[p] = ActorFields
  BY DEF RememberInv
<1>2. ASSUME NEW at
      PROVE  LET a == [x5[p] EXCEPT !.at = at] IN
             DOMAIN a = ActorFields /\ a.gone = x5[p].gone /\ a.used = x5[p].used
  BY <1>1 DEF ActorFields
<1> QED
  BY <1>1, <1>2 DEF Remember!Go

LEMMA GoingKeeps ==
  ASSUME RememberInv, NEW p \in Actors, NEW at, Remember!Go(p, at),
         DOMAIN x2' = Memo, \A m \in Memo : DOMAIN x2'[m] = {"fact", "deleted"},
         Remember!Deleted \subseteq Remember!Deleted'
  PROVE  RememberInv'
BY ActorKeeps, ActorGoes

\* A request begins with what is deleted by then, and uses nothing yet.
LEMMA BeginSafe ==
  ASSUME RememberInv, NEW p \in Actors, Remember!Begin(p)
  PROVE  RememberInv'
<1>1. UNCHANGED x2
  BY DEF Remember!Begin
<1>2. DOMAIN Remember!Fresh = ActorFields /\ Remember!Fresh.used = {} /\ Remember!Fresh.gone = {}
  BY DEF Remember!Fresh, ActorFields
<1>3. ASSUME NEW a, Remember!Move(p, a), DOMAIN a = ActorFields, a.used = {},
             a.gone \subseteq Remember!Deleted
      PROVE  RememberInv'
  BY <1>1, <1>3, RowsStayMarked, ActorMoves
<1>4. CASE Remember!Move(p, [Remember!Fresh EXCEPT !.op = "learn", !.at = "settings"])
  BY <1>2, <1>3, <1>4 DEF ActorFields
<1>5. ASSUME NEW op,
             Remember!Move(p, [Remember!Fresh EXCEPT !.op = op, !.at = "settings", !.gone = Remember!Deleted])
      PROVE  RememberInv'
  BY <1>2, <1>3, <1>5 DEF ActorFields
<1>6. ASSUME NEW m, Remember!Move(p, [Remember!Fresh EXCEPT !.op = "forget", !.at = "update", !.memo = m])
      PROVE  RememberInv'
  BY <1>2, <1>3, <1>6 DEF ActorFields
<1>7. ASSUME NEW m, NEW f,
             Remember!Move(p, [Remember!Fresh EXCEPT !.op = "change", !.at = "select", !.memo = m, !.todo = <<f>>])
      PROVE  RememberInv'
  BY <1>2, <1>3, <1>7 DEF ActorFields
<1> QED
  BY <1>4, <1>5, <1>6, <1>7 DEF Remember!Begin

LEMMA SettingsSafe ==
  ASSUME RememberInv, NEW p \in Actors,
         Remember!GetSettings(p) \/ Remember!InsertSettings(p) \/ Remember!SwitchSettings(p)
  PROVE  RememberInv'
<1>1. UNCHANGED x2
  BY DEF Remember!GetSettings, Remember!InsertSettings, Remember!SwitchSettings
<1>2. ASSUME NEW s, Remember!Saw(p, s)
      PROVE  RememberInv'
  <2> DEFINE a == [x5[p] EXCEPT !.seen = s, !.at = Remember!Allowed(p, s)]
  <2>1. DOMAIN a = ActorFields /\ a.gone = x5[p].gone /\ a.used = x5[p].used
    BY ActorKeeps DEF ActorFields
  <2>2. Remember!Move(p, a)
    BY <1>2 DEF Remember!Saw
  <2> HIDE DEF a
  <2> QED
    BY <1>1, <2>1, <2>2, RowsStayMarked, ActorGoes
<1>3. ASSUME NEW at, Remember!Go(p, at)
      PROVE  RememberInv'
  BY <1>1, <1>3, RowsStayMarked, GoingKeeps
<1> QED
  BY <1>2, <1>3 DEF Remember!GetSettings, Remember!InsertSettings, Remember!SwitchSettings

LEMMA VectorsSafe ==
  ASSUME RememberInv, NEW p \in Actors, Remember!VectorStep(p) \/ Remember!ListMemo(p)
  PROVE  RememberInv'
<1>1. UNCHANGED x2
  BY DEF Remember!VectorStep, Remember!ReadVectors, Remember!WriteVectors, Remember!ReplaceFile,
     Remember!UnlinkTemp, Remember!ListMemo
<1>2. ASSUME NEW at, Remember!Go(p, at)
      PROVE  RememberInv'
  BY <1>1, <1>2, RowsStayMarked, GoingKeeps
<1>3. CASE Remember!Move(p, [x5[p] EXCEPT !.at = "write", !.picked = Remember!NewVectors(p)])
  <2> DEFINE a == [x5[p] EXCEPT !.at = "write", !.picked = Remember!NewVectors(p)]
  <2>1. DOMAIN a = ActorFields /\ a.gone = x5[p].gone /\ a.used = x5[p].used
    BY ActorKeeps DEF ActorFields
  <2> HIDE DEF a
  <2>2. Remember!Move(p, a)
    BY <1>3 DEF a
  <2> QED
    BY <1>1, <2>1, <2>2, RowsStayMarked, ActorGoes
<1> QED
  BY <1>2, <1>3 DEF Remember!VectorStep, Remember!ReadVectors, Remember!WriteVectors,
     Remember!ReplaceFile, Remember!UnlinkTemp, Remember!ListMemo

\* Learning writes rows, and takes no mark from one.
LEMMA LearningSafe ==
  ASSUME RememberInv, NEW p \in Actors,
         Remember!Extract(p) \/ Remember!FindSame(p) \/ Remember!Store(p)
  PROVE  RememberInv'
<1>1. CASE Remember!Extract(p)
  <2>1. PICK order : Remember!Move(p, [x5[p] EXCEPT !.at = "next", !.todo = order])
    BY <1>1 DEF Remember!Extract
  <2> DEFINE a == [x5[p] EXCEPT !.at = "next", !.todo = order]
  <2>2. DOMAIN a = ActorFields /\ a.gone = x5[p].gone /\ a.used = x5[p].used
    BY ActorKeeps DEF ActorFields
  <2>3. Remember!Move(p, a) /\ UNCHANGED x2
    BY <1>1, <2>1 DEF Remember!Extract
  <2> HIDE DEF a
  <2> QED
    BY <2>2, <2>3, RowsStayMarked, ActorGoes
<1>2. CASE Remember!FindSame(p)
  <2>1. UNCHANGED x2
    BY <1>2 DEF Remember!FindSame
  <2>2. CASE Remember!Go(p, "end")
    BY <2>1, <2>2, RowsStayMarked, GoingKeeps
  <2>3. ASSUME NEW m, Remember!Move(p, [x5[p] EXCEPT !.at = "store", !.memo = m])
        PROVE  RememberInv'
    <3> DEFINE a == [x5[p] EXCEPT !.at = "store", !.memo = m]
    <3>1. DOMAIN a = ActorFields /\ a.gone = x5[p].gone /\ a.used = x5[p].used
      BY ActorKeeps DEF ActorFields
    <3>2. Remember!Move(p, a)
      BY <2>3
    <3> HIDE DEF a
    <3> QED
      BY <2>1, <3>1, <3>2, RowsStayMarked, ActorGoes
  <2> QED
    BY <1>2, <2>2, <2>3 DEF Remember!FindSame
<1>3. CASE Remember!Store(p)
  <2>1. PICK m :
          /\ x2' = IF x5[p].memo # NoMemo THEN x2 ELSE [x2 EXCEPT ![m].fact = Head(x5[p].todo)]
          /\ Remember!Move(p, [x5[p] EXCEPT !.at = "list", !.memo = m, !.todo = Tail(@)])
    BY <1>3 DEF Remember!Store
  <2> DEFINE a == [x5[p] EXCEPT !.at = "list", !.memo = m, !.todo = Tail(@)]
  <2>2. DOMAIN a = ActorFields /\ a.gone = x5[p].gone /\ a.used = x5[p].used
    BY ActorKeeps DEF ActorFields
  <2>3. Remember!Move(p, a)
    BY <2>1
  <2>4. \/ UNCHANGED x2
        \/ x2' = [x2 EXCEPT ![m].fact = Head(x5[p].todo)]
    BY <2>1
  <2> HIDE DEF a
  <2>5. /\ DOMAIN x2' = Memo /\ \A n \in Memo : DOMAIN x2'[n] = {"fact", "deleted"}
        /\ Remember!Deleted \subseteq Remember!Deleted'
    BY <2>4, RowsStayMarked, ContentWrites
  <2> QED
    BY <2>2, <2>3, <2>5, ActorGoes
<1> QED
  BY <1>1, <1>2, <1>3

\* Neither does a change of a row, were it deleted meanwhile; a deletion marks.
LEMMA ChangingSafe ==
  ASSUME RememberInv, NEW p \in Actors,
         Remember!SelectMemo(p) \/ Remember!ChangeMemo(p) \/ Remember!ForgetMemo(p)
  PROVE  RememberInv'
<1>1. CASE Remember!SelectMemo(p)
  BY <1>1, RowsStayMarked, GoingKeeps DEF Remember!SelectMemo
<1>2. CASE Remember!ChangeMemo(p)
  BY <1>2, ContentWrites, GoingKeeps DEF Remember!ChangeMemo
<1>3. CASE Remember!ForgetMemo(p)
  BY <1>3, RowsStayMarked, MarkWrites, GoingKeeps DEF Remember!ForgetMemo
<1> QED
  BY <1>1, <1>2, <1>3

\* What a question uses are active rows: none that was deleted before it was asked.
LEMMA UsingSafe ==
  ASSUME RememberInv, NEW p \in Actors,
         Remember!QueryVectors(p) \/ Remember!SelectHits(p) \/ Remember!ScoreList(p)
  PROVE  RememberInv'
<1>1. UNCHANGED x2
  BY DEF Remember!QueryVectors, Remember!SelectHits, Remember!ScoreList
<1>2. ASSUME NEW at, NEW hits, Remember!Move(p, [x5[p] EXCEPT !.at = at, !.picked = hits])
      PROVE  RememberInv'
  <2> DEFINE a == [x5[p] EXCEPT !.at = at, !.picked = hits]
  <2>1. DOMAIN a = ActorFields /\ a.gone = x5[p].gone /\ a.used = x5[p].used
    BY ActorKeeps DEF ActorFields
  <2>2. Remember!Move(p, a)
    BY <1>2
  <2> HIDE DEF a
  <2> QED
    BY <1>1, <2>1, <2>2, RowsStayMarked, ActorGoes
<1>3. ASSUME NEW at, NEW selected, selected \subseteq Remember!Active,
             Remember!Move(p, [x5[p] EXCEPT !.used = selected, !.at = at])
      PROVE  RememberInv'
  <2> DEFINE a == [x5[p] EXCEPT !.used = selected, !.at = at]
  <2>1. DOMAIN a = ActorFields /\ a.gone = x5[p].gone /\ a.used = selected
    BY ActorKeeps DEF ActorFields
  <2>2. Remember!Move(p, a)
    BY <1>3
  <2>3. x5[p].gone \subseteq Remember!Deleted
    BY DEF RememberInv
  <2>4. Remember!Active \cap Remember!Deleted = {}
    BY Zenon DEF Remember!Active, Remember!Deleted
  <2>5. selected \cap x5[p].gone = {}
    BY <1>3, <2>3, <2>4
  <2> HIDE DEF a
  <2> QED
    BY <1>1, <2>1, <2>2, <2>3, <2>5, RowsStayMarked, ActorMoves
<1>4. CASE Remember!QueryVectors(p)
  BY <1>2, <1>4 DEF Remember!QueryVectors
<1>5. CASE Remember!SelectHits(p)
  <2>1. x5[p].picked \cap Remember!Active \subseteq Remember!Active
    OBVIOUS
  <2> QED
    BY <1>3, <1>5, <2>1 DEF Remember!SelectHits
<1>6. CASE Remember!ScoreList(p)
  BY <1>3, <1>6 DEF Remember!ScoreList, Remember!Scored
<1> QED
  BY <1>4, <1>5, <1>6

LEMMA RememberSteps ==
  ASSUME RememberInv, [Remember!Next]_(Remember!memoryVars)
  PROVE  RememberInv'
<1>1. CASE UNCHANGED Remember!memoryVars
  BY <1>1 DEF Remember!memoryVars, RememberInv, Remember!Deleted
<1>2. ASSUME NEW p \in Actors, Remember!ActorStep(p)
      PROVE  RememberInv'
  BY <1>2, BeginSafe, SettingsSafe, VectorsSafe, LearningSafe, ChangingSafe, UsingSafe
     DEF Remember!ActorStep
<1> QED
  BY <1>1, <1>2 DEF Remember!Next, Actors

\* A memory that the user deleted is in no answer to a question asked afterwards, though its vector
\* may still be in the file or come back to it: whatever threads learn, change or forget meanwhile.
THEOREM ForgottenStaysUnused == ServicesSpec => []ForgottenUnused
<1>1. ServicesInit => (part = "memory" => RememberInv)
  <2> SUFFICES ASSUME Remember!Init PROVE RememberInv
    BY DEF ServicesInit
  <2>1. \A p \in Actors : x5[p] = Remember!Fresh
    BY DEF Remember!Init, Actors
  <2>2. \A m \in Memo : x2[m] = Remember!NoRecord
    BY DEF Remember!Init
  <2> QED
    BY <2>1, <2>2 DEF Remember!Init, Remember!Fresh, Remember!NoRecord, RememberInv, Actors, ActorFields
<1>2. (part = "memory" => RememberInv) /\ [ServicesNext]_vars => (part = "memory" => RememberInv)'
  <2> SUFFICES ASSUME part' = "memory", part = "memory" => RememberInv, [ServicesNext]_vars
      PROVE  RememberInv'
    OBVIOUS
  <2>1. part = "memory" /\ [Remember!Next]_(Remember!memoryVars)
    BY DEF ServicesNext, vars, From5, From7, From8, From9, Remember!memoryVars
  <2> QED
    BY <2>1, RememberSteps
<1>3. (part = "memory" => RememberInv) => ForgottenUnused
  BY DEF RememberInv, ForgottenUnused, Remember!ForgottenUnused, Actors
<1> QED
  BY <1>1, <1>2, <1>3, PTL DEF ServicesSpec

-------------------------------------------------------------------------------
(* The stream of an answer: AnswerRun *)

Said == {"chat", "deep", "flash", "notice", "extract", "general", "hybrid", "insufficient", "agent"}
Kind == {"stream", "answer", "agent", "recovery"}

Event ==
  [type : {"meta", "step", "error", "mark"}]
    \cup [type : {"token"}, text : Said]
    \cup [type : {"done"}, kind : Kind, answer : Seq(Said), complete : BOOLEAN]

\* All that was sent: what the client has, and what is on the way to it.
Sent == x8 \o x7

Plain(e) == ~Answer!Terminal(e) /\ e.type # "mark"

\* An event that says the agent's answer is complete, and what that means.
SaysComplete(e) == e.type = "done" /\ e.kind = "agent" /\ e.complete
Whole == x5.calls = <<>> /\ x1.targets \subseteq x5.found

\* Nothing but plain events is sent before the end, one terminal event at it, and then the mark.
SentInv ==
  /\ x8 \in Seq(Event) /\ x7 \in Seq(Event)
  /\ x2 \notin {"end", "over"} => \A i \in 1..Len(Sent) : Plain(Sent[i])
  /\ x2 = "end" => /\ Len(Sent) > 0 /\ Answer!Terminal(Sent[Len(Sent)])
                   /\ \A i \in 1..(Len(Sent) - 1) : Plain(Sent[i])
  /\ x2 = "over" => /\ Len(Sent) > 1 /\ Sent[Len(Sent)].type = "mark"
                    /\ Answer!Terminal(Sent[Len(Sent) - 1])
                    /\ \A i \in 1..(Len(Sent) - 2) : Plain(Sent[i])
  /\ \A i \in 1..Len(Sent) : SaysComplete(Sent[i]) => Whole

RunFields == {"at", "calls", "rounds", "found", "missing", "partial", "late", "answer"}

\* The agent's thread runs only while the producer waits for it, and what it answers without calling
\* it partial is whole.
RunInv ==
  /\ DOMAIN x5 = RunFields /\ x5.answer \in {"none", "agent", "insufficient"}
  /\ x5.answer # "none" => x5.at = "dead"
  /\ x5.at = "synthesize" /\ x5.missing = {} /\ ~x5.partial => Whole
  /\ x5.answer # "none" /\ ~x5.partial => Whole
  /\ x5.at \in {"idle", "dead"} \/ x2 \in {"alive", "get", "wait"}

StreamInv ==
  /\ SentInv /\ RunInv
  /\ x4 \in Seq(Said)
  /\ x6 \in Seq({Answer!Step}) /\ (x6 # <<>> => x2 \in {"alive", "get", "empty"})

LEMMA EventTypes ==
  /\ Answer!Meta \in Event /\ Answer!Step \in Event /\ Answer!Error \in Event /\ Answer!Mark \in Event
  /\ \A text \in Said : Answer!Token(text) \in Event
  /\ \A kind \in Kind, answer \in Seq(Said), complete \in BOOLEAN :
       Answer!Done(kind, answer, complete) \in Event
<1>1. \A kind \in Kind, answer \in Seq(Said), complete \in BOOLEAN :
       Answer!Done(kind, answer, complete) \in [type : {"done"}, kind : Kind, answer : Seq(Said), complete : BOOLEAN]
  BY DEF Answer!Done
<1> QED
  BY <1>1 DEF Event, Answer!Meta, Answer!Step, Answer!Error, Answer!Mark, Answer!Token

LEMMA EventKinds ==
  /\ Plain(Answer!Meta) /\ Plain(Answer!Step) /\ \A text : Plain(Answer!Token(text))
  /\ Answer!Terminal(Answer!Error) /\ Answer!Mark.type = "mark"
  /\ \A kind, answer, complete : Answer!Terminal(Answer!Done(kind, answer, complete))
BY DEF Plain, Answer!Terminal, Answer!Meta, Answer!Step, Answer!Token, Answer!Error, Answer!Mark, Answer!Done

LEMMA SayingComplete ==
  /\ \A e : SaysComplete(e) => ~Plain(e)
  /\ ~SaysComplete(Answer!Error) /\ ~SaysComplete(Answer!Mark)
  /\ \A kind, answer, complete :
       SaysComplete(Answer!Done(kind, answer, complete)) => kind = "agent" /\ complete
<1>1. ASSUME NEW kind, NEW answer, NEW complete, SaysComplete(Answer!Done(kind, answer, complete))
      PROVE  kind = "agent" /\ complete
  <2>1. Answer!Done(kind, answer, complete).kind = kind
    BY DEF Answer!Done
  <2>2. Answer!Done(kind, answer, complete).complete = complete
    BY Zenon DEF Answer!Done
  <2> QED
    BY <1>1, <2>1, <2>2, Zenon DEF SaysComplete
<1>2. \A e : SaysComplete(e) => ~Plain(e)
  BY DEF SaysComplete, Plain, Answer!Terminal
<1>3. ~SaysComplete(Answer!Error) /\ ~SaysComplete(Answer!Mark)
  BY DEF SaysComplete, Answer!Error, Answer!Mark
<1> QED
  BY <1>1, <1>2, <1>3

\* What is put into the queue comes after all that was sent; a delivery changes nothing of it.
LEMMA Putting ==
  ASSUME x8 \in Seq(Event), x7 \in Seq(Event), NEW new \in Seq(Event), Answer!Put(new), UNCHANGED x8
  PROVE  /\ x8' \in Seq(Event) /\ x7' \in Seq(Event)
         /\ Len(Sent) \in Nat /\ Len(Sent') = Len(Sent) + Len(new)
         /\ \A i \in 1..Len(Sent) : Sent'[i] = Sent[i]
         /\ \A i \in 1..Len(new) : Sent'[Len(Sent) + i] = new[i]
<1>1. x7' = x7 \o new /\ x7' \in Seq(Event) /\ x8' = x8
  BY DEF Answer!Put
<1>2. Sent \in Seq(Event) /\ Sent' = Sent \o new
  BY <1>1, ConcatAssociative DEF Sent
<1> QED
  BY <1>1, <1>2

LEMMA Delivering ==
  ASSUME x8 \in Seq(Event), x7 \in Seq(Event), Answer!Deliver
  PROVE  x8' \in Seq(Event) /\ x7' \in Seq(Event) /\ Sent' = Sent
<1>1. x7 # <<>> /\ x7' = Tail(x7) /\ x8' = Append(x8, Head(x7))
  BY DEF Answer!Deliver
<1>2. x7 = <<Head(x7)>> \o Tail(x7) /\ Head(x7) \in Event /\ Tail(x7) \in Seq(Event)
  BY <1>1
<1>3. Append(x8, Head(x7)) = x8 \o <<Head(x7)>>
  BY <1>2
<1>4. <<Head(x7)>> \in Seq(Event)
  BY <1>2
<1>5. (x8 \o <<Head(x7)>>) \o Tail(x7) = x8 \o (<<Head(x7)>> \o Tail(x7))
  BY <1>2, <1>4, ConcatAssociative
<1> QED
  BY <1>1, <1>2, <1>3, <1>5 DEF Sent

\* What sending does to the invariant, by what is sent.
LEMMA SendingPlain ==
  ASSUME SentInv, x2 \notin {"end", "over"}, x2' \notin {"end", "over"}, UNCHANGED x8,
         NEW new \in Seq(Event), Answer!Put(new), \A i \in 1..Len(new) : Plain(new[i])
  PROVE  SentInv'
<1>1. /\ x8' \in Seq(Event) /\ x7' \in Seq(Event)
      /\ Len(Sent) \in Nat /\ Len(Sent') = Len(Sent) + Len(new)
      /\ \A i \in 1..Len(Sent) : Sent'[i] = Sent[i]
      /\ \A i \in 1..Len(new) : Sent'[Len(Sent) + i] = new[i]
  BY Putting DEF SentInv
<1>2. Len(new) \in Nat
  OBVIOUS
<1>3. ASSUME NEW i \in 1..Len(Sent')
      PROVE  Plain(Sent'[i])
  <2>1. CASE i \in 1..Len(Sent)
    BY <1>1, <2>1 DEF SentInv
  <2>2. CASE i - Len(Sent) \in 1..Len(new)
    <3>1. i = Len(Sent) + (i - Len(Sent))
      BY <1>1, <1>3
    <3> QED
      BY <1>1, <2>2, <3>1
  <2> QED
    BY <1>1, <1>2, <1>3, <2>1, <2>2
<1>4. \A i \in 1..Len(Sent') : ~SaysComplete(Sent'[i])
  BY <1>3, SayingComplete
<1> QED
  BY <1>1, <1>3, <1>4 DEF SentInv, Plain, Answer!Terminal, SaysComplete

LEMMA SendingNothing ==
  ASSUME SentInv, x2 \notin {"end", "over"}, x2' \notin {"end", "over"}, UNCHANGED <<x7, x8>>
  PROVE  SentInv'
<1>1. <<>> \in Seq(Event) /\ x7 \o <<>> = x7
  BY DEF SentInv
<1>2. Answer!Put(<<>>)
  BY <1>1 DEF Answer!Put
<1>3. \A i \in 1..Len(<<>>) : Plain(<<>>[i])
  OBVIOUS
<1>4. UNCHANGED x8
  OBVIOUS
<1> QED
  BY <1>1, <1>2, <1>3, <1>4, SendingPlain

LEMMA SendingEnd ==
  ASSUME SentInv, x2 \notin {"end", "over"}, x2' = "end", UNCHANGED x8,
         NEW before \in Seq(Event), \A i \in 1..Len(before) : Plain(before[i]),
         NEW e \in Event, Answer!Terminal(e), SaysComplete(e) => Whole',
         Answer!Put(before \o <<e>>)
  PROVE  SentInv'
<1> DEFINE new == before \o <<e>>
<1>1. /\ new \in Seq(Event) /\ Len(new) = Len(before) + 1 /\ new[Len(new)] = e /\ Len(before) \in Nat
      /\ \A i \in 1..Len(before) : Plain(new[i])
  OBVIOUS
<1>2. Answer!Put(new)
  OBVIOUS
<1> HIDE DEF new
<1>3. /\ x8' \in Seq(Event) /\ x7' \in Seq(Event)
      /\ Len(Sent) \in Nat /\ Len(Sent') = Len(Sent) + Len(new)
      /\ \A i \in 1..Len(Sent) : Sent'[i] = Sent[i]
      /\ \A i \in 1..Len(new) : Sent'[Len(Sent) + i] = new[i]
  BY <1>1, <1>2, Putting DEF SentInv
<1>4. ASSUME NEW i \in 1..(Len(Sent') - 1)
      PROVE  Plain(Sent'[i])
  <2>1. CASE i \in 1..Len(Sent)
    BY <1>3, <2>1 DEF SentInv
  <2>2. CASE i - Len(Sent) \in 1..Len(before)
    <3>1. i = Len(Sent) + (i - Len(Sent)) /\ i - Len(Sent) \in 1..Len(new)
      BY <1>1, <1>3, <1>4, <2>2
    <3> QED
      BY <1>1, <1>3, <2>2, <3>1
  <2> QED
    BY <1>1, <1>3, <1>4, <2>1, <2>2
<1>5. Len(Sent') > 0 /\ Sent'[Len(Sent')] = e
  BY <1>1, <1>3
<1>6. ASSUME NEW i \in 1..Len(Sent'), SaysComplete(Sent'[i])
      PROVE  Whole'
  <2>1. ~Plain(Sent'[i])
    BY <1>6, SayingComplete
  <2>2. i \notin 1..(Len(Sent') - 1)
    BY <1>4, <2>1
  <2>3. Len(Sent') \in Nat
    BY <1>1, <1>3
  <2>4. i = Len(Sent')
    BY <1>6, <2>2, <2>3
  <2> QED
    BY <1>5, <1>6, <2>4, Zenon
<1> QED
  BY <1>3, <1>4, <1>5, <1>6 DEF SentInv, Plain, Answer!Terminal, SaysComplete

LEMMA SendingMark ==
  ASSUME SentInv, x2 = "end", x2' = "over", UNCHANGED <<x1, x5, x8>>, Answer!Put(<<Answer!Mark>>)
  PROVE  SentInv'
<1> DEFINE new == <<Answer!Mark>>
<1>1. new \in Seq(Event) /\ Len(new) = 1 /\ new[1] = Answer!Mark
  BY EventTypes
<1>2. Answer!Put(new)
  OBVIOUS
<1> HIDE DEF new
<1>3. /\ x8' \in Seq(Event) /\ x7' \in Seq(Event)
      /\ Len(Sent) \in Nat /\ Len(Sent') = Len(Sent) + 1
      /\ \A i \in 1..Len(Sent) : Sent'[i] = Sent[i]
      /\ Sent'[Len(Sent) + 1] = Answer!Mark
  <2>1. /\ x8' \in Seq(Event) /\ x7' \in Seq(Event)
        /\ Len(Sent) \in Nat /\ Len(Sent') = Len(Sent) + Len(new)
        /\ \A i \in 1..Len(Sent) : Sent'[i] = Sent[i]
        /\ \A i \in 1..Len(new) : Sent'[Len(Sent) + i] = new[i]
    BY <1>1, <1>2, Putting DEF SentInv
  <2> QED
    BY <1>1, <2>1
<1>4. /\ Len(Sent) > 0 /\ Answer!Terminal(Sent[Len(Sent)])
      /\ \A i \in 1..(Len(Sent) - 1) : Plain(Sent[i])
  BY DEF SentInv
<1>5. ASSUME NEW i \in 1..Len(Sent'), SaysComplete(Sent'[i])
      PROVE  Whole'
  BY <1>3, <1>5, SayingComplete DEF SentInv, Whole, SaysComplete
<1>6. Sent'[Len(Sent')].type = "mark"
  BY <1>3, EventKinds
<1>7. Len(Sent') - 1 = Len(Sent) /\ Len(Sent') - 2 = Len(Sent) - 1
  BY <1>3
<1>8. Answer!Terminal(Sent'[Len(Sent') - 1]) /\ \A i \in 1..(Len(Sent') - 2) : Plain(Sent'[i])
  BY <1>3, <1>4, <1>7
<1> QED
  BY <1>3, <1>4, <1>5, <1>6, <1>8 DEF SentInv, Plain, Answer!Terminal, SaysComplete

-------------------------------------------------------------------------------

LEMMA RunKeeps ==
  ASSUME RunInv, UNCHANGED <<x1, x5>>, x5.at \in {"idle", "dead"} \/ x2' \in {"alive", "get", "wait"}
  PROVE  RunInv'
BY DEF RunInv, Whole

LEMMA RunStarts ==
  ASSUME x5' = [Answer!Idle EXCEPT !.at = "plan"], x2' \in {"alive", "get", "wait"}
  PROVE  RunInv'
<1>1. DOMAIN x5' = RunFields /\ x5'.at = "plan" /\ x5'.answer = "none"
  BY DEF Answer!Idle, RunFields
<1>2. x5'.at # "dead" /\ x5'.at # "synthesize"
  BY <1>1
<1>3. x5'.answer \in {"none", "agent", "insufficient"}
  BY <1>1
<1> QED
  BY <1>1, <1>2, <1>3, Zenon DEF RunInv

\* The agent's thread sends nothing itself: its steps wait in a queue of their own.
LEMMA AgentAside ==
  ASSUME StreamInv, x5.at \notin {"idle", "dead"}, UNCHANGED <<x1, x2, x4, x7, x8>>, RunInv',
         Answer!Emit \/ UNCHANGED x6
  PROVE  StreamInv'
<1>1. x2 \in {"alive", "get", "wait"}
  BY DEF StreamInv, RunInv
<1>2. SentInv'
  BY <1>1, SendingNothing DEF StreamInv
<1>3. x6' \in Seq({Answer!Step}) /\ (x6' # <<>> => x2 \in {"alive", "get", "empty"})
  <2>1. CASE UNCHANGED x6
    BY <2>1 DEF StreamInv
  <2>2. CASE x6' = Append(x6, Answer!Step) /\ x2 # "wait"
    BY <1>1, <2>2 DEF StreamInv
  <2> QED
    BY <2>1, <2>2 DEF Answer!Emit
<1> QED
  BY <1>2, <1>3 DEF StreamInv

\* A step of the agent that does not end it: what it would answer then is partial, or whole.
LEMMA Working ==
  ASSUME RunInv, x5.at \notin {"idle", "dead"}, UNCHANGED <<x1, x2>>,
         DOMAIN x5' = RunFields, x5'.answer = x5.answer, x5'.at # "idle",
         x5'.at = "synthesize" /\ x5'.missing = {} => x5'.partial \/ Whole'
  PROVE  RunInv'
<1>1. x2 \in {"alive", "get", "wait"} /\ x5.answer = "none"
  BY DEF RunInv
<1>2. x5'.answer = "none" /\ x2' \in {"alive", "get", "wait"}
  BY <1>1
<1> QED
  BY <1>2 DEF RunInv

\* Out of rounds or of time, the agent answers with what it has, and calls it partial.
LEMMA Stopping ==
  ASSUME RunInv, x5.at \notin {"idle", "dead"}, UNCHANGED <<x1, x2>>,
         NEW r, DOMAIN r = RunFields, r.answer = x5.answer, x5' = Answer!Stop(r)
  PROVE  RunInv'
<1>1. DOMAIN x5' = RunFields /\ x5'.answer = x5.answer /\ x5'.at = "synthesize"
  BY DEF Answer!Stop, RunFields
<1>2. x5'.partial
  BY DEF Answer!Stop, RunFields
<1> QED
  BY <1>1, <1>2, Working

LEMMA ToolCalled ==
  ASSUME RunInv, Answer!CallTool, UNCHANGED <<x1, x2>>
  PROVE  RunInv'
<1>1. x5.at = "calls" /\ DOMAIN x5 = RunFields
  BY DEF RunInv, Answer!CallTool
<1>2. CASE x5' = Answer!Stop(x5)
  BY <1>1, <1>2, Stopping
<1>3. ASSUME NEW found, x5' = [x5 EXCEPT !.found = found, !.calls = Tail(@)]
      PROVE  RunInv'
  <2>1. DOMAIN x5' = RunFields /\ x5'.answer = x5.answer /\ x5'.at = "calls"
    BY <1>1, <1>3 DEF RunFields
  <2> QED
    BY <1>1, <2>1, Working
<1> QED
  BY <1>2, <1>3 DEF Answer!CallTool

\* After a round: every target is covered and no call is left, or another round begins, or the
\* answer is partial.
LEMMA Reflected ==
  ASSUME RunInv, Answer!Reflect, UNCHANGED <<x1, x2>>
  PROVE  RunInv'
<1> DEFINE r == [x5 EXCEPT !.missing = Answer!Missing]
<1>1. x5.at = "calls" /\ x5.calls = <<>> /\ DOMAIN x5 = RunFields
  BY DEF RunInv, Answer!Reflect
<1>2. /\ DOMAIN r = RunFields /\ r.answer = x5.answer /\ r.missing = Answer!Missing
      /\ r.calls = <<>> /\ r.found = x5.found
  BY <1>1 DEF RunFields
<1>3. \/ Answer!Missing = {} /\ x5' = [r EXCEPT !.at = "synthesize"]
      \/ x5' = Answer!Stop(r)
      \/ x5' = [r EXCEPT !.at = "round", !.calls = Answer!Replan]
  BY DEF Answer!Reflect
<1> HIDE DEF r
<1>4. CASE Answer!Missing = {} /\ x5' = [r EXCEPT !.at = "synthesize"]
  <2>1. /\ DOMAIN x5' = RunFields /\ x5'.answer = x5.answer /\ x5'.at = "synthesize"
        /\ x5'.calls = <<>> /\ x5'.found = x5.found
    BY <1>2, <1>4 DEF RunFields
  <2>2. x1.targets \subseteq x5.found
    BY <1>4 DEF Answer!Missing
  <2>3. Whole'
    BY <2>1, <2>2 DEF Whole
  <2> QED
    BY <1>1, <2>1, <2>3, Working
<1>5. CASE x5' = Answer!Stop(r)
  BY <1>1, <1>2, <1>5, Stopping
<1>6. CASE x5' = [r EXCEPT !.at = "round", !.calls = Answer!Replan]
  <2>1. DOMAIN x5' = RunFields /\ x5'.answer = x5.answer /\ x5'.at = "round"
    BY <1>2, <1>6 DEF RunFields
  <2> QED
    BY <1>1, <2>1, Working
<1> QED
  BY <1>3, <1>4, <1>5, <1>6

LEMMA Synthesized ==
  ASSUME RunInv, Answer!Synthesize, UNCHANGED <<x1, x2>>
  PROVE  RunInv'
<1>1. x5.at = "synthesize" /\ DOMAIN x5 = RunFields
  BY DEF RunInv, Answer!Synthesize
<1>2. PICK partial \in BOOLEAN : partial = (x5.partial \/ x5.missing # {})
  BY Zenon
<1>3. PICK text \in {"agent", "insufficient"} :
        x5' = [x5 EXCEPT !.at = "dead", !.answer = text, !.partial = x5.partial \/ x5.missing # {}]
  BY <1>1 DEF Answer!Synthesize, RunFields
<1>4. x5' = [x5 EXCEPT !.at = "dead", !.answer = text, !.partial = partial]
  BY <1>2, <1>3, Zenon
<1>5. /\ DOMAIN x5' = RunFields /\ x5'.at = "dead" /\ x5'.answer = text
      /\ x5'.calls = x5.calls /\ x5'.found = x5.found
  BY <1>1, <1>4 DEF RunFields
<1>6. x5'.partial = partial
  BY <1>1, <1>4 DEF RunFields
<1>7. ~x5'.partial => ~x5.partial /\ x5.missing = {}
  BY <1>2, <1>6, Zenon
<1>8. ~x5'.partial => Whole
  BY <1>1, <1>7, Zenon DEF RunInv
<1>9. Whole => Whole'
  BY <1>5 DEF Whole
<1>10. x5'.answer \in {"none", "agent", "insufficient"}
  BY <1>5
<1>11. x5'.at # "synthesize"
  BY <1>5
<1> QED
  BY <1>5, <1>8, <1>9, <1>10, <1>11, Zenon DEF RunInv

LEMMA AgentRuns ==
  ASSUME RunInv, UNCHANGED <<x1, x2>>,
         \/ Answer!RunPlan \/ Answer!StartRound \/ Answer!CallTool \/ Answer!Reflect
         \/ Answer!Synthesize \/ Answer!Deadline \/ Answer!RunRaises
  PROVE  RunInv' /\ x5.at \notin {"idle", "dead"} /\ (Answer!Emit \/ UNCHANGED x6)
<1>1. CASE Answer!RunPlan
  <2>1. /\ x5.at = "plan" /\ DOMAIN x5' = RunFields /\ x5'.answer = x5.answer /\ x5'.at = "round"
    BY <1>1 DEF Answer!RunPlan, RunInv, RunFields
  <2> QED
    BY <1>1, <2>1, Working DEF Answer!RunPlan
<1>2. CASE Answer!StartRound
  <2>1. x5.at = "round" /\ DOMAIN x5 = RunFields /\ UNCHANGED x6
    BY <1>2 DEF Answer!StartRound, RunInv
  <2>2. CASE x5' = Answer!Stop(x5)
    BY <2>1, <2>2, Stopping
  <2>3. CASE x5' = [x5 EXCEPT !.at = "calls", !.rounds = @ + 1]
    <3>1. DOMAIN x5' = RunFields /\ x5'.answer = x5.answer /\ x5'.at = "calls"
      BY <2>1, <2>3 DEF RunFields
    <3> QED
      BY <2>1, <3>1, Working
  <2> QED
    BY <1>2, <2>2, <2>3 DEF Answer!StartRound
<1>3. CASE Answer!CallTool
  BY <1>3, ToolCalled DEF Answer!CallTool
<1>4. CASE Answer!Reflect
  BY <1>4, Reflected DEF Answer!Reflect
<1>5. CASE Answer!Synthesize
  BY <1>5, Synthesized DEF Answer!Synthesize
<1>6. CASE Answer!Deadline
  <2>1. x5.at \notin {"idle", "dead"} /\ x5' = [x5 EXCEPT !.late = TRUE] /\ UNCHANGED x6 /\ DOMAIN x5 = RunFields
    BY <1>6 DEF Answer!Deadline, RunInv
  <2>2. /\ DOMAIN x5' = RunFields /\ x5'.answer = x5.answer /\ x5'.at = x5.at
        /\ x5'.missing = x5.missing /\ x5'.calls = x5.calls /\ x5'.found = x5.found
    BY <2>1 DEF RunFields
  <2>3. x5'.partial = x5.partial
    BY <2>1 DEF RunFields
  <2>4. Whole => Whole'
    BY <2>2 DEF Whole
  <2>5. x5'.at = "synthesize" /\ x5'.missing = {} => x5'.partial \/ Whole'
    BY <2>2, <2>3, <2>4, Zenon DEF RunInv
  <2> QED
    BY <2>1, <2>2, <2>5, Working
<1>7. CASE Answer!RunRaises
  <2>1. x5.at \notin {"idle", "dead"} /\ x5' = [x5 EXCEPT !.at = "dead"] /\ UNCHANGED x6 /\ DOMAIN x5 = RunFields
    BY <1>7 DEF Answer!RunRaises, RunInv
  <2>2. DOMAIN x5' = RunFields /\ x5'.answer = x5.answer /\ x5'.at = "dead"
    BY <2>1 DEF RunFields
  <2> QED
    BY <2>1, <2>2, Working
<1> QED
  BY <1>1, <1>2, <1>3, <1>4, <1>5, <1>6, <1>7

LEMMA AgentSafe ==
  ASSUME StreamInv, Answer!AgentWorks \/ Answer!AgentDisturbed
  PROVE  StreamInv'
<1>1. UNCHANGED <<x1, x2, x4, x7, x8>>
  BY DEF Answer!AgentWorks, Answer!AgentDisturbed
<1>2. \/ Answer!RunPlan \/ Answer!StartRound \/ Answer!CallTool \/ Answer!Reflect
      \/ Answer!Synthesize \/ Answer!Deadline \/ Answer!RunRaises
  BY DEF Answer!AgentWorks, Answer!AgentDisturbed, Answer!Works
<1>3. RunInv
  BY DEF StreamInv
<1> QED
  BY <1>1, <1>2, <1>3, AgentRuns, AgentAside


-------------------------------------------------------------------------------

\* Outside the agent's path the agent is at rest and no step waits.
LEMMA AtRest ==
  ASSUME StreamInv, x2 \notin {"alive", "get", "empty", "wait"}
  PROVE  x5.at \in {"idle", "dead"} /\ x6 = <<>>
BY DEF StreamInv, RunInv

\* The producer says something, or nothing, and goes on.
LEMMA SayingMore ==
  ASSUME StreamInv, x2 \notin {"alive", "get", "empty", "wait", "end", "over"},
         x2' \notin {"end", "over"}, UNCHANGED <<x1, x5, x6, x8>>, x4' \in Seq(Said),
         NEW new \in Seq(Event), \A i \in 1..Len(new) : Plain(new[i]), Answer!Put(new)
  PROVE  StreamInv'
<1>1. SentInv' /\ RunInv'
  BY AtRest, SendingPlain, RunKeeps DEF StreamInv
<1> QED
  BY <1>1, AtRest DEF StreamInv

LEMMA SayingOne ==
  ASSUME StreamInv, x2 \notin {"alive", "get", "empty", "wait", "end", "over"},
         x2' \notin {"end", "over"}, UNCHANGED <<x1, x5, x6, x8>>, x4' \in Seq(Said),
         NEW e \in Event, Plain(e), Answer!Put(<<e>>)
  PROVE  StreamInv'
<1>1. <<e>> \in Seq(Event) /\ \A i \in 1..Len(<<e>>) : Plain(<<e>>[i])
  OBVIOUS
<1> QED
  BY <1>1, SayingMore

LEMMA SayingNothing ==
  ASSUME StreamInv, x2 \notin {"alive", "get", "empty", "wait", "end", "over"},
         x2' \notin {"end", "over"}, UNCHANGED <<x1, x5, x6, x7, x8>>, x4' \in Seq(Said)
  PROVE  StreamInv'
<1>1. SentInv' /\ RunInv'
  BY AtRest, SendingNothing, RunKeeps DEF StreamInv
<1> QED
  BY <1>1, AtRest DEF StreamInv

\* The producer ends, with the agent at rest and no step waiting.
LEMMA Ending ==
  ASSUME StreamInv, x2 \notin {"end", "over"}, x2' = "end", UNCHANGED <<x1, x5, x6, x8>>,
         x4' \in Seq(Said), x5.at \in {"idle", "dead"}, x6 = <<>>,
         NEW before \in Seq(Event), \A i \in 1..Len(before) : Plain(before[i]),
         NEW e \in Event, Answer!Terminal(e), SaysComplete(e) => Whole,
         Answer!Put(before \o <<e>>)
  PROVE  StreamInv'
<1>1. SaysComplete(e) => Whole'
  BY DEF Whole
<1>2. SentInv' /\ RunInv'
  BY <1>1, SendingEnd, RunKeeps DEF StreamInv
<1> QED
  BY <1>2 DEF StreamInv

LEMMA EndingAtOnce ==
  ASSUME StreamInv, x2 \notin {"end", "over"}, x2' = "end", UNCHANGED <<x1, x5, x6, x8>>,
         x4' \in Seq(Said), x5.at \in {"idle", "dead"}, x6 = <<>>,
         NEW e \in Event, Answer!Terminal(e), SaysComplete(e) => Whole, Answer!Put(<<e>>)
  PROVE  StreamInv'
<1>1. /\ <<>> \in Seq(Event) /\ \A i \in 1..Len(<<>>) : Plain(<<>>[i])
      /\ <<>> \o <<e>> = <<e>>
  OBVIOUS
<1> QED
  BY <1>1, Ending

LEMMA PairIsTwo ==
  ASSUME NEW first \in Event, NEW e \in Event
  PROVE  <<first>> \o <<e>> = <<first, e>>
<1> DEFINE s == <<first>> \o <<e>>
           t == <<first, e>>
<1>1. s \in Seq(Event) /\ Len(s) = 2 /\ s[1] = first /\ s[2] = e
  OBVIOUS
<1>2. t \in Seq(Event) /\ Len(t) = 2 /\ t[1] = first /\ t[2] = e
  OBVIOUS
<1> HIDE DEF s, t
<1>3. \A i \in 1..Len(s) : s[i] = t[i]
  BY <1>1, <1>2
<1>4. s = t
  BY <1>1, <1>2, <1>3, SeqEqual
<1> QED
  BY <1>4 DEF s, t

LEMMA EndingAfterOne ==
  ASSUME StreamInv, x2 \notin {"end", "over"}, x2' = "end", UNCHANGED <<x1, x5, x6, x8>>,
         x4' \in Seq(Said), x5.at \in {"idle", "dead"}, x6 = <<>>,
         NEW first \in Event, Plain(first),
         NEW e \in Event, Answer!Terminal(e), SaysComplete(e) => Whole, Answer!Put(<<first, e>>)
  PROVE  StreamInv'
<1>1. <<first>> \in Seq(Event) /\ \A i \in 1..Len(<<first>>) : Plain(<<first>>[i])
  OBVIOUS
<1>2. <<first>> \o <<e>> = <<first, e>>
  BY PairIsTwo
<1> QED
  BY <1>1, <1>2, Ending

\* What is not said by the agent says nothing of completeness.
LEMMA DoneEvents ==
  ASSUME NEW kind \in Kind, NEW answer \in Seq(Said), NEW complete \in BOOLEAN,
         kind = "agent" /\ complete => Whole
  PROVE  LET e == Answer!Done(kind, answer, complete) IN
         e \in Event /\ Answer!Terminal(e) /\ (SaysComplete(e) => Whole)
BY EventTypes, EventKinds, SayingComplete, Zenon

LEMMA Finishing ==
  ASSUME StreamInv, x2 \notin {"alive", "get", "empty", "wait", "end", "over"},
         UNCHANGED <<x1, x5, x6, x8>>, x4' \in Seq(Said),
         NEW kind \in Kind \ {"agent"}, NEW answer \in Seq(Said), Answer!Finish(kind, answer, TRUE)
  PROVE  StreamInv'
<1> DEFINE e == Answer!Done(kind, answer, TRUE)
<1>1. e \in Event /\ Answer!Terminal(e) /\ (SaysComplete(e) => Whole)
  BY DoneEvents
<1>2. x2' = "end" /\ Answer!Put(<<e>>)
  BY DEF Answer!Finish
<1> HIDE DEF e
<1> QED
  BY <1>1, <1>2, AtRest, EndingAtOnce

LEMMA Words ==
  /\ <<"insufficient">> \in Seq(Said) /\ <<"chat">> \in Seq(Said) /\ <<"notice">> \in Seq(Said)
  /\ <<"hybrid">> \in Seq(Said)
  /\ \A text \in Said : <<text>> \in Seq(Said) /\ \A s \in Seq(Said) : Append(s, text) \in Seq(Said)
BY DEF Said


LEMMA StreamingSafe ==
  ASSUME StreamInv, UNCHANGED <<x1, x6, x8>>,
         \/ Answer!Start \/ Answer!Prepare \/ Answer!NoContext \/ Answer!Chunk \/ Answer!ChatEnds
         \/ Answer!DeepEnds \/ Answer!FlashEnds \/ Answer!Extract \/ Answer!EndAnswer
  PROVE  StreamInv'
<1>1. x4 \in Seq(Said)
  BY DEF StreamInv
<1>2. CASE Answer!Start
  BY <1>1, <1>2, SayingOne, EventTypes, EventKinds DEF Answer!Start
<1>3. CASE Answer!Prepare
  <2>1. x2' \in {"no context", "chat", "extract", "deep", "flash"}
    BY <1>3 DEF Answer!Prepare, Answer!Path
  <2> QED
    BY <1>1, <1>3, <2>1, SayingOne, EventTypes, EventKinds DEF Answer!Prepare
<1>4. CASE Answer!NoContext
  <2> DEFINE e == Answer!Done("stream", <<"insufficient">>, TRUE)
             first == Answer!Token("insufficient")
  <2>1. e \in Event /\ Answer!Terminal(e) /\ (SaysComplete(e) => Whole)
    BY DoneEvents, Words DEF Kind
  <2>2. first \in Event /\ Plain(first)
    BY EventTypes, EventKinds DEF Said
  <2>3. Answer!Put(<<first, e>>) /\ x2 = "no context" /\ x2' = "end" /\ UNCHANGED <<x4, x5>>
    BY <1>4 DEF Answer!NoContext
  <2> HIDE DEF e, first
  <2> QED
    BY <1>1, <2>1, <2>2, <2>3, AtRest, EndingAfterOne
<1>5. CASE Answer!Chunk
  <2>1. PICK text \in {x2} \cup {"insufficient"} : x4' = Append(x4, text) /\ Answer!Put(<<Answer!Token(text)>>)
    BY <1>5 DEF Answer!Chunk
  <2>2. x2 \in {"chat", "deep", "flash"} /\ x2' = x2 /\ x5' = x5
    BY <1>5 DEF Answer!Chunk
  <2>3. text \in Said
    BY <2>1, <2>2 DEF Said
  <2>4. Answer!Token(text) \in Event /\ Plain(Answer!Token(text)) /\ x4' \in Seq(Said)
    BY <1>1, <2>1, <2>3, EventTypes, EventKinds, Words
  <2> QED
    BY <2>1, <2>2, <2>4, SayingOne
<1>6. CASE Answer!ChatEnds
  <2> DEFINE answer == IF x4 = <<>> THEN <<"chat">> ELSE x4
  <2>1. answer \in Seq(Said)
    BY <1>1, Words
  <2>2. Answer!Finish("stream", answer, TRUE) /\ x2 = "chat" /\ UNCHANGED <<x4, x5>>
    BY <1>6 DEF Answer!ChatEnds
  <2> HIDE DEF answer
  <2> QED
    BY <1>1, <2>1, <2>2, Finishing DEF Kind
<1>7. CASE Answer!DeepEnds \/ Answer!FlashEnds
  <2>1. x2 \in {"deep", "flash"} /\ x2' \in {"flash", "extract", "finish"} /\ UNCHANGED x5
    BY <1>7 DEF Answer!DeepEnds, Answer!FlashEnds
  <2>2. CASE UNCHANGED <<x4, x7>>
    BY <1>1, <2>1, <2>2, SayingNothing
  <2>3. CASE Answer!Put(<<Answer!Meta>>) /\ UNCHANGED x4
    BY <1>1, <2>1, <2>3, SayingOne, EventTypes, EventKinds
  <2>4. CASE x4' = Append(x4, "notice") /\ Answer!Put(<<Answer!Token("notice")>>)
    <3>1. Answer!Token("notice") \in Event /\ Plain(Answer!Token("notice")) /\ x4' \in Seq(Said)
      BY <1>1, <2>4, EventTypes, EventKinds, Words DEF Said
    <3> QED
      BY <2>1, <2>4, <3>1, SayingOne
  <2> QED
    BY <1>7, <2>2, <2>3, <2>4 DEF Answer!DeepEnds, Answer!FlashEnds, Answer!Notice
<1>8. CASE Answer!Extract
  <2>1. PICK text \in Answer!LastResort(x3) : x4' = <<text>> /\ Answer!Put(<<Answer!Token(text)>>)
    BY <1>8 DEF Answer!Extract
  <2>2. text \in Said
    BY DEF Answer!LastResort, Said
  <2>3. Answer!Token(text) \in Event /\ Plain(Answer!Token(text)) /\ x4' \in Seq(Said)
    BY <2>1, <2>2, EventTypes, EventKinds, Words
  <2>4. x2 = "extract" /\ x2' = "finish" /\ UNCHANGED x5
    BY <1>8 DEF Answer!Extract
  <2> QED
    BY <2>1, <2>3, <2>4, SayingOne
<1>9. CASE Answer!EndAnswer
  <2>1. Answer!HybridFallback(x4) \in Seq(Said)
    BY <1>1, Words DEF Answer!HybridFallback
  <2>2. Answer!Finish("stream", Answer!HybridFallback(x4), TRUE) /\ x2 = "finish" /\ UNCHANGED <<x4, x5>>
    BY <1>9 DEF Answer!EndAnswer
  <2> QED
    BY <1>1, <2>1, <2>2, Finishing DEF Kind
<1> QED
  BY <1>2, <1>3, <1>4, <1>5, <1>6, <1>7, <1>8, <1>9

\* The agent's thread begins when the producer turns to it.
LEMMA StartingSafe ==
  ASSUME StreamInv, UNCHANGED <<x1, x6, x8>>, Answer!PreRoute \/ Answer!Answer
  PROVE  StreamInv'
<1>1. x4 \in Seq(Said) /\ x4' = x4
  BY DEF StreamInv, Answer!PreRoute, Answer!Answer
<1>2. x2 \in {"route", "answer"}
  BY DEF Answer!PreRoute, Answer!Answer
<1>3. x6 = <<>>
  BY <1>2, AtRest
<1>4. CASE x2' = "alive" /\ x5' = [Answer!Idle EXCEPT !.at = "plan"] /\ Answer!Put(<<Answer!Meta>>)
  <2>1. <<Answer!Meta>> \in Seq(Event) /\ \A i \in 1..Len(<<Answer!Meta>>) : Plain(<<Answer!Meta>>[i])
    BY EventTypes, EventKinds
  <2>2. SentInv'
    BY <1>2, <1>4, <2>1, SendingPlain DEF StreamInv
  <2>3. RunInv'
    BY <1>4, RunStarts
  <2> QED
    BY <1>1, <1>3, <2>2, <2>3 DEF StreamInv
<1>5. CASE x2' = "wait" /\ x5' = [Answer!Idle EXCEPT !.at = "plan"] /\ UNCHANGED x7
  <2>1. SentInv'
    BY <1>2, <1>5, SendingNothing DEF StreamInv
  <2>2. RunInv'
    BY <1>5, RunStarts
  <2> QED
    BY <1>1, <1>3, <2>1, <2>2 DEF StreamInv
<1>6. CASE x2' = "prepare" /\ UNCHANGED <<x5, x7>>
  BY <1>1, <1>2, <1>6, SayingNothing
<1>7. ASSUME NEW c, NEW answer \in Answer!Answers(c), Answer!Finish("answer", answer, TRUE), UNCHANGED x5
      PROVE  StreamInv'
  <2>1. Answer!LastResort(c) \subseteq Said
    BY DEF Answer!LastResort, Said
  <2>2. \A text \in Said : Answer!HybridFallback(<<text>>) \in Seq(Said)
    BY Words DEF Answer!HybridFallback
  <2>3. answer \in Seq(Said)
    BY <1>7, <2>1, <2>2, Words DEF Answer!Answers, Said
  <2> QED
    BY <1>1, <1>2, <1>7, <2>3, Finishing DEF Kind
<1>8. CASE Answer!PreRoute
  BY <1>4, <1>6, <1>8 DEF Answer!PreRoute
<1>9. CASE Answer!Answer
  BY <1>5, <1>7, <1>9 DEF Answer!Answer
<1> QED
  BY <1>8, <1>9

\* The producer is done with the agent when its thread has ended and no step waits.
LEMMA AgentDoneSafe ==
  ASSUME StreamInv, x2 \in {"empty", "wait"}, x5.at \in {"idle", "dead"}, x6 = <<>>, Answer!AgentDone,
         UNCHANGED <<x1, x4, x5, x6, x8>>
  PROVE  StreamInv'
<1> DEFINE answer == IF x5.answer = "none" THEN "insufficient" ELSE x5.answer
<1>1. PICK complete \in BOOLEAN : complete = (x5.answer # "none" /\ ~x5.partial)
  BY Zenon
<1> DEFINE e == Answer!Done("agent", <<answer>>, complete)
           token == Answer!Token(answer)
           before == IF x2 = "wait" THEN <<>> ELSE <<token>>
<1>2. x2' = "end" /\ Answer!Put(before \o <<Answer!Done("agent", <<answer>>, x5.answer # "none" /\ ~x5.partial)>>)
  BY DEF Answer!AgentDone
<1>3. Answer!Put(before \o <<e>>)
  BY <1>1, <1>2, Zenon
<1>4. answer \in Said
  BY DEF StreamInv, RunInv, Said
<1>5. complete => Whole
  BY <1>1, Zenon DEF StreamInv, RunInv
<1>6. e \in Event /\ Answer!Terminal(e) /\ (SaysComplete(e) => Whole)
  BY <1>4, <1>5, DoneEvents, Words DEF Kind
<1>7. token \in Event /\ Plain(token)
  BY <1>4, EventTypes, EventKinds
<1> HIDE DEF e, token
<1>8. before \in Seq(Event) /\ \A i \in 1..Len(before) : Plain(before[i])
  BY <1>7
<1>9. x4' \in Seq(Said) /\ x2 \notin {"end", "over"}
  BY DEF StreamInv
<1> HIDE DEF before
<1> QED
  BY <1>2, <1>3, <1>6, <1>8, <1>9, Ending

LEMMA WaitingSafe ==
  ASSUME StreamInv, UNCHANGED <<x1, x8>>,
         \/ (Answer!AgentAlive \/ Answer!AgentEmpty \/ Answer!AgentGet)
         \/ Answer!AnswerByAgent /\ UNCHANGED x6
  PROVE  StreamInv'
<1>1. x4 \in Seq(Said) /\ x4' = x4 /\ x5' = x5
  BY DEF StreamInv, Answer!AgentAlive, Answer!AgentEmpty, Answer!AgentGet, Answer!AnswerByAgent
<1>2. CASE Answer!AgentAlive
  <2>1. x2 = "alive" /\ UNCHANGED <<x6, x7>> /\ x2' \in {"empty", "get"}
        /\ (x2' = "empty" => x5.at = "dead")
    BY <1>2 DEF Answer!AgentAlive
  <2>2. SentInv' /\ RunInv'
    BY <1>1, <2>1, SendingNothing, RunKeeps DEF StreamInv
  <2> QED
    BY <1>1, <2>1, <2>2 DEF StreamInv
<1>3. CASE Answer!AgentEmpty /\ x6 # <<>>
  <2>1. x2 = "empty" /\ x2' = "get" /\ UNCHANGED <<x6, x7>>
    BY <1>3 DEF Answer!AgentEmpty
  <2>2. SentInv' /\ RunInv'
    BY <1>1, <2>1, SendingNothing, RunKeeps DEF StreamInv
  <2> QED
    BY <1>1, <2>1, <2>2 DEF StreamInv
<1>4. CASE Answer!AgentEmpty /\ x6 = <<>>
  <2>1. x2 = "empty" /\ Answer!AgentDone /\ UNCHANGED x6
    BY <1>4 DEF Answer!AgentEmpty
  <2>2. x5.at = "dead" \/ x5.at = "idle"
    BY <2>1 DEF StreamInv, RunInv
  <2> QED
    BY <1>1, <1>4, <2>1, <2>2, AgentDoneSafe
<1>5. CASE Answer!AgentGet
  <2>1. x2 = "get" /\ x2' = "alive"
    BY <1>5 DEF Answer!AgentGet
  <2>2. RunInv'
    BY <1>1, <2>1, RunKeeps DEF StreamInv
  <2>3. CASE UNCHANGED <<x6, x7>>
    <3>1. SentInv'
      BY <2>1, <2>3, SendingNothing DEF StreamInv
    <3> QED
      BY <1>1, <2>1, <2>2, <2>3, <3>1 DEF StreamInv
  <2>4. CASE x6 # <<>> /\ x6' = Tail(x6) /\ Answer!Put(<<Head(x6)>>)
    <3>1. Head(x6) = Answer!Step /\ x6' \in Seq({Answer!Step})
      BY <2>4 DEF StreamInv
    <3>2. <<Answer!Step>> \in Seq(Event) /\ \A i \in 1..Len(<<Answer!Step>>) : Plain(<<Answer!Step>>[i])
      BY EventTypes, EventKinds
    <3>3. SentInv'
      BY <2>1, <2>4, <3>1, <3>2, SendingPlain DEF StreamInv
    <3> QED
      BY <1>1, <2>1, <2>2, <3>1, <3>3 DEF StreamInv
  <2> QED
    BY <1>5, <2>3, <2>4 DEF Answer!AgentGet
<1>6. CASE Answer!AnswerByAgent /\ UNCHANGED x6
  <2>1. x2 = "wait" /\ x5.at = "dead" /\ Answer!AgentDone
    BY <1>6 DEF Answer!AnswerByAgent
  <2>2. x6 = <<>>
    BY <2>1 DEF StreamInv
  <2> QED
    BY <1>1, <1>6, <2>1, <2>2, AgentDoneSafe
<1> QED
  BY <1>2, <1>3, <1>4, <1>5, <1>6

LEMMA FailingSafe ==
  ASSUME StreamInv, UNCHANGED <<x1, x6, x8>>, Answer!Fails
  PROVE  StreamInv'
<1>1. x4 \in Seq(Said) /\ x4' = x4 /\ x5' = x5
  BY DEF StreamInv, Answer!Fails
<1>2. x2 \in {"wait", "route", "prepare", "answer"} /\ (x2 = "wait" => x5.at = "dead")
  BY DEF Answer!Fails
<1>3. x5.at \in {"idle", "dead"} /\ x6 = <<>>
  BY <1>2 DEF StreamInv, RunInv
<1>4. CASE x2' = "end" /\ Answer!Put(<<Answer!Error>>)
  <2>1. /\ Answer!Error \in Event /\ Answer!Terminal(Answer!Error)
        /\ (SaysComplete(Answer!Error) => Whole)
    BY EventTypes, EventKinds, SayingComplete
  <2> QED
    BY <1>1, <1>2, <1>3, <1>4, <2>1, EndingAtOnce
<1>5. CASE x2 \in {"route", "prepare"} /\ x2' = "answer" /\ UNCHANGED x7
  BY <1>1, <1>5, SayingNothing
<1>6. CASE x2' = "end" /\ Answer!Put(<<Answer!Done("recovery", <<"notice">>, FALSE)>>)
  <2> DEFINE e == Answer!Done("recovery", <<"notice">>, FALSE)
  <2>1. e \in Event /\ Answer!Terminal(e) /\ (SaysComplete(e) => Whole)
    BY DoneEvents, Words DEF Kind
  <2> HIDE DEF e
  <2>2. Answer!Put(<<e>>)
    BY <1>6 DEF e
  <2> QED
    BY <1>1, <1>2, <1>3, <1>6, <2>1, <2>2, EndingAtOnce
<1> QED
  BY <1>2, <1>4, <1>5, <1>6 DEF Answer!Fails

LEMMA MarkSafe ==
  ASSUME StreamInv, UNCHANGED <<x1, x6, x8>>, Answer!EndMark
  PROVE  StreamInv'
<1>1. x2 = "end" /\ x2' = "over" /\ Answer!Put(<<Answer!Mark>>) /\ UNCHANGED <<x4, x5>>
  BY DEF Answer!EndMark
<1>2. SentInv' /\ RunInv'
  <2>1. x5.at \in {"idle", "dead"}
    BY <1>1 DEF StreamInv, RunInv
  <2> QED
    BY <1>1, <2>1, SendingMark, RunKeeps DEF StreamInv
<1> QED
  BY <1>1, <1>2 DEF StreamInv

LEMMA DeliverSafe ==
  ASSUME StreamInv, Answer!Deliver
  PROVE  StreamInv'
<1>1. UNCHANGED <<x1, x2, x4, x5, x6>>
  BY DEF Answer!Deliver
<1>2. x8' \in Seq(Event) /\ x7' \in Seq(Event) /\ Sent' = Sent
  BY Delivering DEF StreamInv, SentInv
<1>3. SentInv'
  BY <1>1, <1>2 DEF StreamInv, SentInv, Plain, Answer!Terminal, SaysComplete, Whole
<1>4. RunInv'
  BY <1>1 DEF StreamInv, RunInv, Whole
<1> QED
  BY <1>1, <1>3, <1>4 DEF StreamInv

LEMMA StreamSteps ==
  ASSUME StreamInv, [Answer!AnswerNext]_(Answer!answerVars)
  PROVE  StreamInv'
<1>1. CASE UNCHANGED Answer!answerVars
  <2>1. UNCHANGED <<x1, x2, x4, x5, x6, x7, x8>>
    BY <1>1 DEF Answer!answerVars
  <2>2. Sent' = Sent /\ (Whole' <=> Whole)
    BY <2>1 DEF Sent, Whole
  <2> QED
    BY <2>1, <2>2 DEF StreamInv, SentInv, RunInv, Plain, Answer!Terminal, SaysComplete
<1>2. CASE Answer!Producer
  <2>1. UNCHANGED <<x1, x8>>
    BY <1>2 DEF Answer!Producer
  <2> QED
    BY <1>2, <2>1, StreamingSafe, StartingSafe, WaitingSafe, FailingSafe, MarkSafe
       DEF Answer!Producer, Answer!Answering, Answer!Streams
<1> QED
  BY <1>1, <1>2, AgentSafe, DeliverSafe DEF Answer!AnswerNext


-------------------------------------------------------------------------------
(* The answer and its tokens *)

LEMMA SentOne ==
  ASSUME x8 \in Seq(Event), x7 \in Seq(Event), NEW e \in Event, Answer!Put(<<e>>), UNCHANGED x8
  PROVE  Sent \in Seq(Event) /\ Sent' = Append(Sent, e)
<1>1. x7' = x7 \o <<e>> /\ <<e>> \in Seq(Event) /\ x8' = x8
  BY DEF Answer!Put
<1>2. Sent \in Seq(Event) /\ Sent' = Sent \o <<e>>
  BY <1>1, ConcatAssociative DEF Sent
<1> QED
  BY <1>2, AppendIsConcat

LEMMA SentTwo ==
  ASSUME x8 \in Seq(Event), x7 \in Seq(Event), NEW first \in Event, NEW e \in Event,
         Answer!Put(<<first, e>>), UNCHANGED x8
  PROVE  Sent \in Seq(Event) /\ Sent' = Append(Append(Sent, first), e)
<1>1. x7' = x7 \o (<<first>> \o <<e>>) /\ x8' = x8
  <2>1. <<first>> \o <<e>> = <<first, e>>
    BY PairIsTwo
  <2> QED
    BY <2>1, Zenon DEF Answer!Put
<1>2. <<e>> \in Seq(Event) /\ <<first>> \in Seq(Event)
  OBVIOUS
<1>3. <<first>> \o <<e>> \in Seq(Event) /\ x7 \o <<first>> \in Seq(Event)
  BY <1>2
<1>4. Sent \in Seq(Event) /\ Sent' = Sent \o (<<first>> \o <<e>>)
  BY <1>1, <1>3, ConcatAssociative DEF Sent
<1>5. Sent' = (Sent \o <<first>>) \o <<e>>
  BY <1>2, <1>4, ConcatAssociative
<1>6. Sent \o <<first>> = Append(Sent, first) /\ Append(Sent, first) \in Seq(Event)
  BY <1>4, AppendIsConcat
<1> QED
  BY <1>4, <1>5, <1>6, AppendIsConcat

\* The instance counts as the library's theorems do.
LEMMA Counting == \A S : Answer!Cardinality(S) = Cardinality(S)
BY DEF Answer!Cardinality, Cardinality

Tokens(s) == {i \in 1..Len(s) : s[i].type = "token"}

LEMMA TokensAppend ==
  ASSUME NEW s \in Seq(Event), NEW e \in Event
  PROVE  /\ IsFiniteSet(Tokens(s)) /\ Len(s) + 1 \notin Tokens(s) /\ Len(s) \in Nat
         /\ \A i \in Tokens(s) : Append(s, e)[i] = s[i] /\ i \in 1..Len(s)
         /\ Append(s, e)[Len(s) + 1] = e
         /\ Tokens(Append(s, e)) = IF e.type = "token" THEN Tokens(s) \cup {Len(s) + 1} ELSE Tokens(s)
<1>1. Len(s) \in Nat
  OBVIOUS
<1>2. IsFiniteSet(1..Len(s))
  BY <1>1, FS_Interval
<1>3. IsFiniteSet(Tokens(s))
  BY <1>2, FS_Subset DEF Tokens
<1>4. /\ Len(Append(s, e)) = Len(s) + 1 /\ Append(s, e)[Len(s) + 1] = e
      /\ \A i \in 1..Len(s) : Append(s, e)[i] = s[i]
  OBVIOUS
<1>5. Tokens(Append(s, e)) = IF e.type = "token" THEN Tokens(s) \cup {Len(s) + 1} ELSE Tokens(s)
  BY <1>1, <1>4 DEF Tokens
<1> QED
  BY <1>1, <1>3, <1>4, <1>5 DEF Tokens

LEMMA OtherAppended ==
  ASSUME NEW s \in Seq(Event), NEW answer, Answer!TokensAre(s, answer), NEW e \in Event, e.type # "token"
  PROVE  Answer!TokensAre(Append(s, e), answer)
<1>1. Cardinality(Tokens(s)) = Len(answer) /\ \A i \in Tokens(s) : s[i].text = answer[Cardinality(Tokens(s) \cap 1..i)]
  BY Counting, Zenon DEF Answer!TokensAre, Tokens
<1>2. Tokens(Append(s, e)) = Tokens(s) /\ \A i \in Tokens(s) : Append(s, e)[i] = s[i]
  BY TokensAppend
<1>3. /\ Cardinality(Tokens(Append(s, e))) = Len(answer)
      /\ \A i \in Tokens(Append(s, e)) :
           Append(s, e)[i].text = answer[Cardinality(Tokens(Append(s, e)) \cap 1..i)]
  BY <1>1, <1>2
<1> QED
  BY <1>3, Counting, Zenon DEF Answer!TokensAre, Tokens

LEMMA TokenAppended ==
  ASSUME NEW s \in Seq(Event), NEW answer \in Seq(Said), Answer!TokensAre(s, answer), NEW text \in Said
  PROVE  Answer!TokensAre(Append(s, Answer!Token(text)), Append(answer, text))
<1> DEFINE e == Answer!Token(text)
           T == Tokens(s)
           n == Len(s) + 1
           U == Tokens(Append(s, e))
<1>1. Cardinality(T) = Len(answer) /\ \A i \in T : s[i].text = answer[Cardinality(T \cap 1..i)]
  BY Counting, Zenon DEF Answer!TokensAre, Tokens
<1>2. e \in Event /\ e.type = "token" /\ e.text = text
  BY EventTypes DEF Answer!Token
<1> HIDE DEF e
<1>3. /\ IsFiniteSet(T) /\ n \notin T /\ Len(s) \in Nat /\ U = T \cup {n}
      /\ \A i \in T : Append(s, e)[i] = s[i] /\ i \in 1..Len(s)
      /\ Append(s, e)[n] = e
  BY <1>2, TokensAppend
<1>4. Len(answer) \in Nat /\ Len(Append(answer, text)) = Len(answer) + 1
      /\ Append(answer, text)[Len(answer) + 1] = text
      /\ \A k \in 1..Len(answer) : Append(answer, text)[k] = answer[k]
  OBVIOUS
<1> HIDE DEF T, U, n
<1>5. Cardinality(U) = Len(answer) + 1 /\ IsFiniteSet(U)
  BY <1>1, <1>3, FS_AddElement
<1>6. ASSUME NEW i \in T
      PROVE  Append(s, e)[i].text = Append(answer, text)[Cardinality(U \cap 1..i)]
  <2>1. U \cap 1..i = T \cap 1..i
    BY <1>3, <1>6 DEF n
  <2>2. Cardinality(T \cap 1..i) \in 1..Len(answer)
    <3>1. IsFiniteSet(T \cap 1..i) /\ Cardinality(T \cap 1..i) <= Cardinality(T)
      BY <1>3, FS_Subset
    <3>2. i \in T \cap 1..i
      BY <1>3, <1>6
    <3>3. Cardinality(T \cap 1..i) \in Nat /\ Cardinality(T \cap 1..i) # 0
      BY <3>1, <3>2, FS_CardinalityType, FS_EmptySet
    <3> QED
      BY <1>1, <1>4, <3>1, <3>3
  <2> QED
    BY <1>1, <1>3, <1>4, <1>6, <2>1, <2>2
<1>7. Append(s, e)[n].text = Append(answer, text)[Cardinality(U \cap 1..n)]
  <2>1. U \cap 1..n = U
    BY <1>3 DEF n
  <2> QED
    BY <1>2, <1>3, <1>4, <1>5, <2>1
<1>8. /\ Cardinality(U) = Len(Append(answer, text))
      /\ \A i \in U : Append(s, e)[i].text = Append(answer, text)[Cardinality(U \cap 1..i)]
  BY <1>3, <1>4, <1>5, <1>6, <1>7
<1> QED
  BY <1>8, Counting, Zenon DEF Answer!TokensAre, Tokens, U, e


\* What an event at the end says: its answer is what was remembered, and the client saw its tokens,
\* or none, or the sentence that a hybrid question got instead is longer.
OneAnswer(e) ==
  e.type = "done" =>
    /\ e.kind # "recovery" => x9 = <<e.answer>>
    /\ Answer!TokensAre(Sent, <<>>) \/ Answer!TokensAre(Sent, e.answer) \/ e.answer = <<"hybrid">>

\* Until the end the tokens are the parts so far; only a stream that is being read has any.
TextInv ==
  /\ x2 \notin {"end", "over"} =>
       /\ x9 = <<>> /\ Answer!TokensAre(Sent, x4)
       /\ x2 \notin {"chat", "deep", "flash", "finish"} => x4 = <<>>
  /\ x2 = "end" => OneAnswer(Sent[Len(Sent)])
  /\ x2 = "over" => OneAnswer(Sent[Len(Sent) - 1])

LEMMA TextStays ==
  ASSUME TextInv, UNCHANGED <<x2, x4, x9>>, Sent' = Sent
  PROVE  TextInv'
BY DEF TextInv, OneAnswer, Answer!TokensAre

LEMMA TextWaits ==
  ASSUME TextInv, x2 \notin {"end", "over"}, x2' \notin {"end", "over"}, UNCHANGED <<x4, x7, x8, x9>>,
         x4 = <<>> \/ x2' \in {"chat", "deep", "flash", "finish"}
  PROVE  TextInv'
<1>1. Sent' = Sent
  BY DEF Sent
<1>2. Answer!TokensAre(Sent, x4)' <=> Answer!TokensAre(Sent, x4)
  BY <1>1, Zenon DEF Answer!TokensAre
<1> QED
  BY <1>2 DEF TextInv

LEMMA TextBeside ==
  ASSUME TextInv, SentInv, x2 \notin {"end", "over"}, x2' \notin {"end", "over"},
         UNCHANGED <<x4, x8, x9>>, x4 = <<>> \/ x2' \in {"chat", "deep", "flash", "finish"},
         NEW e \in {Answer!Meta, Answer!Step}, Answer!Put(<<e>>)
  PROVE  TextInv'
<1>1. e \in Event /\ e.type # "token"
  BY EventTypes DEF Answer!Meta, Answer!Step
<1>2. Sent \in Seq(Event) /\ Sent' = Append(Sent, e)
  BY <1>1, SentOne DEF SentInv
<1>3. Answer!TokensAre(Append(Sent, e), x4)
  BY <1>1, <1>2, OtherAppended DEF TextInv
<1>4. Answer!TokensAre(Sent', x4')
  BY <1>2, <1>3, Zenon
<1>5. Answer!TokensAre(Sent, x4)'
  BY <1>4, Zenon DEF Answer!TokensAre
<1> QED
  BY <1>5 DEF TextInv

LEMMA TextGrows ==
  ASSUME TextInv, SentInv, x4 \in Seq(Said), x2 \notin {"end", "over"},
         x2' \in {"chat", "deep", "flash", "finish"}, UNCHANGED <<x8, x9>>,
         NEW text \in Said, x4' = Append(x4, text), Answer!Put(<<Answer!Token(text)>>)
  PROVE  TextInv'
<1>1. Answer!Token(text) \in Event
  BY EventTypes
<1>2. Sent \in Seq(Event) /\ Sent' = Append(Sent, Answer!Token(text))
  BY <1>1, SentOne DEF SentInv
<1>3. Answer!TokensAre(Append(Sent, Answer!Token(text)), Append(x4, text))
  BY <1>2, TokenAppended DEF TextInv
<1>4. Answer!TokensAre(Sent', x4')
  BY <1>2, <1>3, Zenon
<1>5. Answer!TokensAre(Sent, x4)'
  BY <1>4, Zenon DEF Answer!TokensAre
<1> QED
  BY <1>5 DEF TextInv

LEMMA TextEnds ==
  ASSUME TextInv, SentInv, x2 \notin {"end", "over"}, x2' = "end", UNCHANGED x8,
         NEW e \in Event, Answer!Terminal(e), Answer!Put(<<e>>),
         e.type = "done" =>
           /\ e.kind # "recovery" => x9' = <<e.answer>>
           /\ x4 = <<>> \/ e.answer = x4 \/ e.answer = <<"hybrid">>
  PROVE  TextInv'
<1>1. e.type # "token"
  BY DEF Answer!Terminal
<1>2. Sent \in Seq(Event) /\ Sent' = Append(Sent, e)
  BY SentOne DEF SentInv
<1>3. Answer!TokensAre(Append(Sent, e), x4)
  BY <1>1, <1>2, OtherAppended DEF TextInv
<1>4. Answer!TokensAre(Sent', x4)
  BY <1>2, <1>3, Zenon
<1>5. Sent'[Len(Sent')] = e
  BY <1>2
<1>6. ASSUME e.type = "done"
      PROVE  Answer!TokensAre(Sent', <<>>) \/ Answer!TokensAre(Sent', e.answer) \/ e.answer = <<"hybrid">>
  BY <1>4, <1>6
<1>7. OneAnswer(e)'
  BY <1>6, Zenon DEF OneAnswer, Answer!TokensAre
<1>8. OneAnswer(Sent[Len(Sent)])'
  BY <1>5, <1>7, Zenon DEF OneAnswer, Answer!TokensAre
<1> QED
  BY <1>8 DEF TextInv

\* The one token of an answer that is there at once.
LEMMA TextAtOnce ==
  ASSUME TextInv, SentInv, x4 = <<>>, x2 \notin {"end", "over"}, x2' = "end", UNCHANGED x8,
         NEW text \in Said, NEW e \in Event, Answer!Terminal(e), e.answer = <<text>>, x9' = <<<<text>>>>,
         Answer!Put(<<Answer!Token(text), e>>)
  PROVE  TextInv'
<1>1. e.type # "token" /\ Answer!Token(text) \in Event
  BY EventTypes DEF Answer!Terminal
<1>2. Sent \in Seq(Event) /\ Sent' = Append(Append(Sent, Answer!Token(text)), e)
  BY <1>1, SentTwo DEF SentInv
<1>3. Answer!TokensAre(Sent, <<>>) /\ <<>> \in Seq(Said)
  BY DEF TextInv
<1>4. Answer!TokensAre(Append(Sent, Answer!Token(text)), Append(<<>>, text))
  BY <1>2, <1>3, TokenAppended
<1>5. Append(<<>>, text) = <<text>>
  OBVIOUS
<1>6. Append(Sent, Answer!Token(text)) \in Seq(Event)
  BY <1>1, <1>2
<1>7. Answer!TokensAre(Append(Append(Sent, Answer!Token(text)), e), e.answer)
  BY <1>1, <1>4, <1>5, <1>6, OtherAppended
<1>8. Answer!TokensAre(Sent', e.answer)
  BY <1>2, <1>7, Zenon
<1>9. Sent'[Len(Sent')] = e
  BY <1>2, <1>6
<1>10. x9' = <<e.answer>>
  BY Zenon
<1>11. OneAnswer(e)'
  BY <1>8, <1>10, Zenon DEF OneAnswer, Answer!TokensAre
<1>12. OneAnswer(Sent[Len(Sent)])'
  BY <1>9, <1>11, Zenon DEF OneAnswer, Answer!TokensAre
<1> QED
  BY <1>12 DEF TextInv

LEMMA TextMarked ==
  ASSUME TextInv, SentInv, x2 = "end", x2' = "over", UNCHANGED <<x8, x9>>, Answer!Put(<<Answer!Mark>>)
  PROVE  TextInv'
<1> DEFINE e == Sent[Len(Sent)]
<1>1. Answer!Mark \in Event /\ Answer!Mark.type # "token"
  BY EventTypes DEF Answer!Mark
<1>2. Sent \in Seq(Event) /\ Sent' = Append(Sent, Answer!Mark)
  BY <1>1, SentOne DEF SentInv
<1>3. Sent'[Len(Sent') - 1] = e
  BY <1>2 DEF SentInv
<1>4. OneAnswer(e)
  BY DEF TextInv
<1> HIDE DEF e
<1>5. ASSUME NEW answer, Answer!TokensAre(Sent, answer)
      PROVE  Answer!TokensAre(Sent', answer)
  BY <1>1, <1>2, <1>5, OtherAppended
<1>6. ASSUME e.type = "done"
      PROVE  /\ e.kind # "recovery" => x9' = <<e.answer>>
             /\ Answer!TokensAre(Sent', <<>>) \/ Answer!TokensAre(Sent', e.answer) \/ e.answer = <<"hybrid">>
  BY <1>4, <1>5, <1>6 DEF OneAnswer
<1>7. OneAnswer(Sent[Len(Sent) - 1])'
  BY <1>3, <1>6, Zenon DEF OneAnswer, Answer!TokensAre
<1> QED
  BY <1>7 DEF TextInv


\* What a done event says, and that its like is no event of another kind.
LEMMA DoneSays ==
  ASSUME NEW kind \in Kind, NEW answer \in Seq(Said), NEW complete \in BOOLEAN
  PROVE  LET e == Answer!Done(kind, answer, complete) IN
         /\ e \in Event /\ Answer!Terminal(e)
         /\ e.type = "done" /\ e.kind = kind /\ e.answer = answer
<1> DEFINE e == Answer!Done(kind, answer, complete)
<1>1. e.type = "done" /\ e.kind = kind /\ e.answer = answer
  BY DEF Answer!Done
<1>2. e \in Event /\ Answer!Terminal(e)
  BY EventTypes, EventKinds, Zenon
<1> QED
  BY <1>1, <1>2, Zenon

\* A producer that finishes remembers what it says at the end.
LEMMA TextFinishes ==
  ASSUME TextInv, StreamInv, x2 \notin {"end", "over"}, UNCHANGED x8,
         NEW kind \in Kind, NEW answer \in Seq(Said), Answer!Finish(kind, answer, TRUE),
         x4 = <<>> \/ answer = x4 \/ answer = <<"hybrid">>
  PROVE  TextInv'
<1> DEFINE e == Answer!Done(kind, answer, TRUE)
<1>1. e \in Event /\ Answer!Terminal(e) /\ e.type = "done" /\ e.answer = answer
  BY DoneSays
<1>2. x2' = "end" /\ Answer!Put(<<e>>) /\ x9' = Append(x9, answer)
  BY DEF Answer!Finish
<1>3. x9' = <<answer>>
  BY <1>2 DEF TextInv
<1> HIDE DEF e
<1>4. SentInv /\ x9' = <<e.answer>> /\ (x4 = <<>> \/ e.answer = x4 \/ e.answer = <<"hybrid">>)
  BY <1>1, <1>3, Zenon DEF StreamInv
<1> QED
  BY <1>1, <1>2, <1>4, TextEnds

LEMMA StreamingText ==
  ASSUME TextInv, StreamInv, UNCHANGED x8,
         \/ Answer!Start \/ Answer!Prepare \/ Answer!NoContext \/ Answer!Chunk \/ Answer!ChatEnds
         \/ Answer!DeepEnds \/ Answer!FlashEnds \/ Answer!Extract \/ Answer!EndAnswer
  PROVE  TextInv'
<1>1. x4 \in Seq(Said) /\ SentInv
  BY DEF StreamInv
<1>2. CASE Answer!Start \/ Answer!Prepare
  <2>1. x2 \in {"start", "prepare"} /\ x2' \in {"route", "no context", "chat", "extract", "deep", "flash"}
    BY <1>2 DEF Answer!Start, Answer!Prepare, Answer!Path
  <2>2. Answer!Put(<<Answer!Meta>>) /\ UNCHANGED <<x4, x9>>
    BY <1>2 DEF Answer!Start, Answer!Prepare
  <2>3. x4 = <<>>
    BY <2>1 DEF TextInv
  <2> QED
    BY <1>1, <2>1, <2>2, <2>3, TextBeside
<1>3. CASE Answer!NoContext
  <2> DEFINE answer == <<"insufficient">>
             e == Answer!Done("stream", answer, TRUE)
  <2>1. x2 = "no context" /\ x2' = "end" /\ x9' = Append(x9, answer)
        /\ Answer!Put(<<Answer!Token("insufficient"), e>>)
    BY <1>3 DEF Answer!NoContext
  <2>2. answer \in Seq(Said) /\ "stream" \in Kind
    BY Words DEF Kind
  <2> HIDE DEF answer
  <2>3. x4 = <<>> /\ x9' = <<answer>>
    <3>1. x4 = <<>> /\ x9 = <<>>
      BY <2>1 DEF TextInv
    <3>2. Append(<<>>, answer) = <<answer>>
      BY <2>2
    <3> QED
      BY <2>1, <3>1, <3>2
  <2>4. e \in Event /\ Answer!Terminal(e) /\ e.answer = answer
    BY <2>2, DoneSays
  <2> HIDE DEF e
  <2> USE DEF answer
  <2> QED
    BY <1>1, <2>1, <2>3, <2>4, TextAtOnce DEF Said
<1>4. CASE Answer!Chunk
  <2>1. PICK text \in {x2} \cup {"insufficient"} : x4' = Append(x4, text) /\ Answer!Put(<<Answer!Token(text)>>)
    BY <1>4 DEF Answer!Chunk
  <2>2. x2 \in {"chat", "deep", "flash"} /\ x2' = x2 /\ x9' = x9
    BY <1>4 DEF Answer!Chunk
  <2>3. text \in Said
    BY <2>1, <2>2 DEF Said
  <2> QED
    BY <1>1, <2>1, <2>2, <2>3, TextGrows
<1>5. CASE Answer!ChatEnds
  <2> DEFINE answer == IF x4 = <<>> THEN <<"chat">> ELSE x4
  <2>1. answer \in Seq(Said) /\ (x4 = <<>> \/ answer = x4)
    BY <1>1, Words
  <2>2. Answer!Finish("stream", answer, TRUE) /\ x2 = "chat"
    BY <1>5 DEF Answer!ChatEnds
  <2> HIDE DEF answer
  <2> QED
    BY <2>1, <2>2, TextFinishes DEF Kind
<1>6. CASE Answer!DeepEnds \/ Answer!FlashEnds
  <2>1. x2 \in {"deep", "flash"} /\ x9' = x9
    BY <1>6 DEF Answer!DeepEnds, Answer!FlashEnds
  <2>2. CASE x4 = <<>>
    <3>1. /\ x2' \in {"flash", "extract"} /\ x4' = x4
          /\ Answer!Put(<<Answer!Meta>>) \/ x7' = x7
      BY <1>6, <2>1, <2>2 DEF Answer!DeepEnds, Answer!FlashEnds
    <3>2. CASE Answer!Put(<<Answer!Meta>>)
      BY <1>1, <2>1, <2>2, <3>1, <3>2, TextBeside
    <3>3. CASE x7' = x7
      BY <2>1, <2>2, <3>1, <3>3, TextWaits
    <3> QED
      BY <3>1, <3>2, <3>3
  <2>3. CASE x4 # <<>>
    <3>1. x2' = "finish" /\ Answer!Notice
      BY <1>6, <2>1, <2>3 DEF Answer!DeepEnds, Answer!FlashEnds
    <3>2. CASE UNCHANGED <<x4, x7>>
      BY <2>1, <3>1, <3>2, TextWaits
    <3>3. CASE x4' = Append(x4, "notice") /\ Answer!Put(<<Answer!Token("notice")>>)
      BY <1>1, <2>1, <3>1, <3>3, TextGrows DEF Said
    <3> QED
      BY <3>1, <3>2, <3>3 DEF Answer!Notice
  <2> QED
    BY <2>2, <2>3
<1>7. CASE Answer!Extract
  <2>1. PICK text \in Answer!LastResort(x3) : x4' = <<text>> /\ Answer!Put(<<Answer!Token(text)>>)
    BY <1>7 DEF Answer!Extract
  <2>2. text \in Said
    BY DEF Answer!LastResort, Said
  <2>3. x2 = "extract" /\ x2' = "finish" /\ x9' = x9
    BY <1>7 DEF Answer!Extract
  <2>4. x4 = <<>>
    BY <2>3 DEF TextInv
  <2>5. x4' = Append(x4, text)
    BY <2>1, <2>4
  <2> QED
    BY <1>1, <2>1, <2>2, <2>3, <2>5, TextGrows
<1>8. CASE Answer!EndAnswer
  <2>1. Answer!HybridFallback(x4) \in Seq(Said) /\ (Answer!HybridFallback(x4) \in {x4, <<"hybrid">>})
    BY <1>1, Words DEF Answer!HybridFallback
  <2>2. Answer!Finish("stream", Answer!HybridFallback(x4), TRUE) /\ x2 = "finish"
    BY <1>8 DEF Answer!EndAnswer
  <2> QED
    BY <2>1, <2>2, TextFinishes DEF Kind
<1> QED
  BY <1>2, <1>3, <1>4, <1>5, <1>6, <1>7, <1>8

LEMMA AnswerText ==
  ASSUME TextInv, StreamInv, UNCHANGED x8, Answer!Answer
  PROVE  TextInv'
<1>1. x2 = "answer" /\ x4' = x4
  BY DEF Answer!Answer
<1>2. x4 = <<>>
  BY <1>1 DEF TextInv
<1>3. CASE x2' = "wait" /\ UNCHANGED <<x7, x9>>
  BY <1>1, <1>2, <1>3, TextWaits
<1>4. ASSUME NEW c, NEW answer \in Answer!Answers(c), Answer!Finish("answer", answer, TRUE)
      PROVE  TextInv'
  <2>1. Answer!LastResort(c) \subseteq Said
    BY DEF Answer!LastResort, Said
  <2>2. \A text \in Said : Answer!HybridFallback(<<text>>) \in Seq(Said)
    BY Words DEF Answer!HybridFallback
  <2>3. answer \in Seq(Said)
    BY <1>4, <2>1, <2>2, Words DEF Answer!Answers, Said
  <2> QED
    BY <1>1, <1>2, <1>4, <2>3, TextFinishes DEF Kind
<1> QED
  BY <1>3, <1>4 DEF Answer!Answer

LEMMA AgentDoneText ==
  ASSUME TextInv, StreamInv, x2 \in {"empty", "wait"}, Answer!AgentDone, UNCHANGED x8
  PROVE  TextInv'
<1> DEFINE answer == IF x5.answer = "none" THEN "insufficient" ELSE x5.answer
<1>1. PICK complete \in BOOLEAN : complete = (x5.answer # "none" /\ ~x5.partial)
  BY Zenon
<1> DEFINE e == Answer!Done("agent", <<answer>>, complete)
           before == IF x2 = "wait" THEN <<>> ELSE <<Answer!Token(answer)>>
<1>2. /\ x9' = Append(x9, <<answer>>) /\ x2' = "end"
      /\ Answer!Put(before \o <<Answer!Done("agent", <<answer>>, x5.answer # "none" /\ ~x5.partial)>>)
  BY DEF Answer!AgentDone
<1>3. Answer!Put(before \o <<e>>)
  BY <1>1, <1>2, Zenon
<1>4. answer \in Said
  BY DEF StreamInv, RunInv, Said
<1> HIDE DEF answer
<1>5. e \in Event /\ Answer!Terminal(e) /\ e.type = "done" /\ e.answer = <<answer>>
  <2> DEFINE told == <<answer>>
  <2>1. told \in Seq(Said) /\ "agent" \in Kind
    BY <1>4, Words DEF Kind
  <2> HIDE DEF told
  <2>2. /\ Answer!Done("agent", told, complete) \in Event
        /\ Answer!Terminal(Answer!Done("agent", told, complete))
        /\ Answer!Done("agent", told, complete).type = "done"
        /\ Answer!Done("agent", told, complete).answer = told
    BY <2>1, DoneSays
  <2> QED
    BY <2>2, Zenon DEF told
<1>6. x4 = <<>> /\ x9 = <<>> /\ SentInv
  BY DEF TextInv, StreamInv
<1>7. x9' = <<<<answer>>>>
  BY <1>2, <1>6
<1>8. Answer!Token(answer) \in Event
  BY <1>4, EventTypes
<1> HIDE DEF e
<1>9. CASE x2 = "wait"
  <2>1. <<>> \o <<e>> = <<e>>
    BY <1>5
  <2>2. Answer!Put(<<e>>)
    BY <1>3, <1>9, <2>1
  <2>3. x9' = <<e.answer>>
    BY <1>5, <1>7, Zenon
  <2> QED
    BY <1>2, <1>5, <1>6, <1>9, <2>2, <2>3, TextEnds
<1>10. CASE x2 = "empty"
  <2>1. <<Answer!Token(answer)>> \o <<e>> = <<Answer!Token(answer), e>>
    BY <1>5, <1>8, PairIsTwo
  <2>2. Answer!Put(<<Answer!Token(answer), e>>)
    BY <1>3, <1>10, <2>1
  <2> QED
    BY <1>2, <1>4, <1>5, <1>6, <1>7, <1>10, <2>2, TextAtOnce
<1> QED
  BY <1>9, <1>10

LEMMA WaitingText ==
  ASSUME TextInv, StreamInv, UNCHANGED x8,
         Answer!PreRoute \/ Answer!AgentAlive \/ Answer!AgentEmpty \/ Answer!AgentGet \/ Answer!AnswerByAgent
  PROVE  TextInv'
<1>1. SentInv
  BY DEF StreamInv
<1>2. ASSUME x2 \in {"route", "alive", "empty", "get"}, x2' \in {"alive", "prepare", "get", "empty"},
             UNCHANGED <<x4, x7, x9>>
      PROVE  TextInv'
  <2>1. x4 = <<>>
    BY <1>2 DEF TextInv
  <2> QED
    BY <1>2, <2>1, TextWaits
<1>3. ASSUME x2 \in {"route", "get"}, x2' = "alive", UNCHANGED <<x4, x9>>,
             NEW e \in {Answer!Meta, Answer!Step}, Answer!Put(<<e>>)
      PROVE  TextInv'
  <2>1. x4 = <<>>
    BY <1>3 DEF TextInv
  <2> QED
    BY <1>1, <1>3, <2>1, TextBeside
<1>4. CASE Answer!PreRoute
  BY <1>2, <1>3, <1>4 DEF Answer!PreRoute
<1>5. CASE Answer!AgentAlive
  BY <1>2, <1>5 DEF Answer!AgentAlive
<1>6. CASE Answer!AgentEmpty
  BY <1>2, <1>6, AgentDoneText DEF Answer!AgentEmpty
<1>7. CASE Answer!AgentGet
  <2>1. x6 # <<>> => Head(x6) = Answer!Step
    BY DEF StreamInv
  <2> QED
    BY <1>2, <1>3, <1>7, <2>1 DEF Answer!AgentGet
<1>8. CASE Answer!AnswerByAgent
  BY <1>8, AgentDoneText DEF Answer!AnswerByAgent
<1> QED
  BY <1>4, <1>5, <1>6, <1>7, <1>8

LEMMA FailingText ==
  ASSUME TextInv, StreamInv, UNCHANGED x8, Answer!Fails
  PROVE  TextInv'
<1>1. x2 \in {"wait", "route", "prepare", "answer"} /\ UNCHANGED <<x4, x9>> /\ SentInv
  BY DEF StreamInv, Answer!Fails
<1>2. x4 = <<>>
  BY <1>1 DEF TextInv
<1>3. CASE x2' = "end" /\ Answer!Put(<<Answer!Error>>)
  <2>1. Answer!Error \in Event /\ Answer!Terminal(Answer!Error) /\ Answer!Error.type # "done"
    BY EventTypes, EventKinds DEF Answer!Error
  <2> QED
    BY <1>1, <1>3, <2>1, TextEnds
<1>4. CASE x2' = "answer" /\ UNCHANGED x7
  BY <1>1, <1>2, <1>4, TextWaits
<1>5. CASE x2' = "end" /\ Answer!Put(<<Answer!Done("recovery", <<"notice">>, FALSE)>>)
  <2> DEFINE e == Answer!Done("recovery", <<"notice">>, FALSE)
  <2>1. e \in Event /\ Answer!Terminal(e) /\ e.kind = "recovery"
    <3>1. <<"notice">> \in Seq(Said) /\ "recovery" \in Kind
      BY Words DEF Kind
    <3> QED
      BY <3>1, DoneSays
  <2>2. x2' = "end" /\ Answer!Put(<<e>>)
    BY <1>5
  <2> HIDE DEF e
  <2> QED
    BY <1>1, <1>2, <2>1, <2>2, TextEnds
<1> QED
  BY <1>3, <1>4, <1>5 DEF Answer!Fails

LEMMA TextSteps ==
  ASSUME TextInv, StreamInv, [Answer!AnswerNext]_(Answer!answerVars)
  PROVE  TextInv'
<1>1. CASE UNCHANGED Answer!answerVars
  BY <1>1, TextStays DEF Answer!answerVars, Sent
<1>2. CASE Answer!AgentWorks \/ Answer!AgentDisturbed
  BY <1>2, TextStays DEF Answer!AgentWorks, Answer!AgentDisturbed, Sent
<1>3. CASE Answer!Deliver
  <2>1. Sent' = Sent
    BY <1>3, Delivering DEF StreamInv, SentInv
  <2> QED
    BY <1>3, <2>1, TextStays DEF Answer!Deliver
<1>4. CASE Answer!Producer
  <2>1. UNCHANGED x8
    BY <1>4 DEF Answer!Producer
  <2>2. CASE Answer!EndMark
    BY <2>1, <2>2, TextMarked DEF Answer!EndMark, StreamInv
  <2> QED
    BY <1>4, <2>1, <2>2, StreamingText, AnswerText, WaitingText, FailingText
       DEF Answer!Producer, Answer!Answering, Answer!Streams
<1> QED
  BY <1>1, <1>2, <1>3, <1>4 DEF Answer!AnswerNext

-------------------------------------------------------------------------------

LEMMA StreamInvariant == ServicesSpec => [](part = "answer" => StreamInv /\ TextInv)
<1>1. ServicesInit => (part = "answer" => StreamInv /\ TextInv)
  <2> SUFFICES ASSUME Answer!AnswerInit PROVE StreamInv /\ TextInv
    BY DEF ServicesInit
  <2>1. /\ x2 \in {"start", "answer"} /\ x4 = <<>> /\ x5 = Answer!Idle
        /\ x6 = <<>> /\ x7 = <<>> /\ x8 = <<>> /\ x9 = <<>>
    BY DEF Answer!AnswerInit
  <2>2. x7 \in Seq(Event) /\ x8 \in Seq(Event) /\ Len(Sent) = 0
    BY <2>1 DEF Sent
  <2>3. SentInv
    BY <2>1, <2>2 DEF SentInv
  <2>4. RunInv
    <3>1. DOMAIN x5 = RunFields /\ x5.at = "idle" /\ x5.answer = "none"
      BY <2>1 DEF Answer!Idle, RunFields
    <3>2. x5.at # "synthesize" /\ x5.answer \in {"none", "agent", "insufficient"}
      BY <3>1
    <3> QED
      BY <3>1, <3>2, Zenon DEF RunInv
  <2>5. Answer!TokensAre(Sent, x4)
    <3>1. Tokens(Sent) = {}
      BY <2>2 DEF Tokens
    <3>2. Cardinality(Tokens(Sent)) = 0 /\ Len(x4) = 0
      BY <2>1, <3>1, FS_EmptySet
    <3>3. /\ Cardinality(Tokens(Sent)) = Len(x4)
          /\ \A i \in Tokens(Sent) : Sent[i].text = x4[Cardinality(Tokens(Sent) \cap 1..i)]
      BY <3>1, <3>2
    <3> QED
      BY <3>3, Counting, Zenon DEF Answer!TokensAre, Tokens
  <2> QED
    BY <2>1, <2>3, <2>4, <2>5 DEF StreamInv, TextInv
<1>2. /\ part = "answer" => StreamInv /\ TextInv
      /\ [ServicesNext]_vars
      => (part = "answer" => StreamInv /\ TextInv)'
  <2> SUFFICES ASSUME part' = "answer", part = "answer" => StreamInv /\ TextInv, [ServicesNext]_vars
      PROVE  StreamInv' /\ TextInv'
    OBVIOUS
  <2>1. part = "answer" /\ [Answer!AnswerNext]_(Answer!answerVars)
    BY DEF ServicesNext, vars, From5, From7, From8, From9, Answer!answerVars
  <2> QED
    BY <2>1, StreamSteps, TextSteps
<1> QED
  BY <1>1, <1>2, PTL DEF ServicesSpec

\* A client that has the mark has all that was sent.
LEMMA ClosedIsAll ==
  ASSUME StreamInv, Answer!Closed
  PROVE  x2 = "over" /\ Sent = x8 /\ Len(x8) > 1
<1>1. /\ x8 \in Seq(Event) /\ x7 \in Seq(Event) /\ Sent \in Seq(Event) /\ Len(x8) \in Nat
      /\ Len(Sent) = Len(x8) + Len(x7) /\ Len(x7) \in Nat
  BY DEF StreamInv, SentInv, Sent
<1>2. Len(x8) > 0 /\ x8[Len(x8)].type = "mark"
  BY <1>1 DEF Answer!Closed
<1>3. Sent[Len(x8)] = x8[Len(x8)] /\ Len(x8) \in 1..Len(Sent)
  BY <1>1, <1>2 DEF Sent
<1>4. ~Plain(Sent[Len(x8)]) /\ ~Answer!Terminal(Sent[Len(x8)])
  BY <1>2, <1>3 DEF Plain, Answer!Terminal
<1>5. x2 = "over"
  <2>1. x2 \notin {"end", "over"} => Plain(Sent[Len(x8)])
    BY <1>3 DEF StreamInv, SentInv
  <2>2. CASE x2 = "end"
    <3>1. Answer!Terminal(Sent[Len(Sent)]) /\ \A i \in 1..(Len(Sent) - 1) : Plain(Sent[i])
      BY <2>2 DEF StreamInv, SentInv
    <3>2. Len(x8) # Len(Sent)
      BY <1>4, <3>1
    <3>3. Len(x8) \in 1..(Len(Sent) - 1)
      BY <1>1, <1>3, <3>2
    <3> QED
      BY <1>4, <3>1, <3>3
  <2> QED
    BY <1>4, <2>1, <2>2
<1>6. Len(x8) = Len(Sent) /\ Len(Sent) > 1
  <2>1. /\ Len(Sent) > 1 /\ Answer!Terminal(Sent[Len(Sent) - 1])
        /\ \A i \in 1..(Len(Sent) - 2) : Plain(Sent[i])
    BY <1>5 DEF StreamInv, SentInv
  <2>2. Len(x8) # Len(Sent) - 1 /\ Len(x8) \notin 1..(Len(Sent) - 2)
    BY <1>4, <2>1
  <2> QED
    BY <1>1, <1>3, <2>1, <2>2
<1>7. x7 = <<>>
  BY <1>1, <1>6
<1> QED
  BY <1>1, <1>5, <1>6, <1>7 DEF Sent

\* A response ends with one done or error event, and no step of the agent is left behind it; the
\* answer that a client gets at its end is the one whose tokens it saw, and the one remembered.
THEOREM OneEndOneAnswer == ServicesSpec => []StreamEndsOnce
<1>1. ASSUME StreamInv
      PROVE  Answer!StreamEndsOnce
  <2>1. /\ x8 \in Seq(Event) /\ x7 \in Seq(Event) /\ Len(x8) \in Nat /\ Len(Sent) \in Nat
        /\ Len(Sent) >= Len(x8) /\ \A i \in 1..Len(x8) : Sent[i] = x8[i] /\ i \in 1..Len(Sent)
    BY <1>1 DEF StreamInv, SentInv, Sent
  <2>2. ASSUME NEW i \in 1..Len(x8), Answer!Terminal(x8[i]), NEW j \in (i + 1)..Len(x8)
        PROVE  x8[j].type = "mark"
    <3>1. j \in 1..Len(x8) /\ j > i
      BY <2>1, <2>2
    <3>2. ~Plain(Sent[i])
      BY <2>1, <2>2 DEF Plain
    <3>3. x2 = "over" /\ i = Len(Sent) - 1
      BY <1>1, <2>1, <2>2, <3>1, <3>2 DEF StreamInv, SentInv
    <3>4. j = Len(Sent)
      BY <2>1, <3>1, <3>3
    <3> QED
      BY <1>1, <2>1, <3>1, <3>3, <3>4 DEF StreamInv, SentInv
  <2>3. Answer!Closed => Len(x8) > 1 /\ Answer!Terminal(Answer!Final) /\ x6 = <<>>
    BY <1>1, ClosedIsAll DEF StreamInv, SentInv, Answer!Final
  <2> QED
    BY <2>2, <2>3 DEF Answer!StreamEndsOnce
<1>2. ASSUME StreamInv, TextInv
      PROVE  Answer!AnswerIsOne
  <2> SUFFICES ASSUME Answer!Closed, Answer!Final.type = "done"
      PROVE  /\ Answer!Final.kind # "recovery" => x9 = <<Answer!Final.answer>>
             /\ \/ Answer!TokensAre(x8, <<>>) \/ Answer!TokensAre(x8, Answer!Final.answer)
                \/ Answer!Final.answer = <<"hybrid">>
    BY Zenon DEF Answer!AnswerIsOne
  <2>1. x2 = "over" /\ Sent = x8
    BY <1>2, ClosedIsAll
  <2>2. OneAnswer(Answer!Final)
    BY <1>2, <2>1 DEF TextInv, Answer!Final
  <2> QED
    BY <2>1, <2>2 DEF OneAnswer
<1>3. (part = "answer" => StreamInv /\ TextInv) => StreamEndsOnce
  BY <1>1, <1>2 DEF StreamEndsOnce
<1> QED
  BY <1>3, StreamInvariant, PTL

\* An answer of the agent that is not called partial rests on a plan carried out to its last call
\* and on evidence for every target.
THEOREM CompleteIsCovered == ServicesSpec => []CompleteMeansCovered
<1>1. ASSUME StreamInv
      PROVE  Answer!CompleteMeansCovered
  <2> SUFFICES ASSUME Answer!Closed, SaysComplete(Answer!Final)
      PROVE  Whole
    BY Zenon DEF Answer!CompleteMeansCovered, SaysComplete, Whole
  <2>1. Sent = x8 /\ Len(x8) > 1 /\ Len(Sent) \in Nat
    BY <1>1, ClosedIsAll DEF StreamInv, SentInv
  <2>2. Answer!Final = Sent[Len(Sent) - 1] /\ Len(Sent) - 1 \in 1..Len(Sent)
    BY <2>1 DEF Answer!Final
  <2> QED
    BY <1>1, <2>2 DEF StreamInv, SentInv
<1>2. (part = "answer" => StreamInv /\ TextInv) => CompleteMeansCovered
  BY <1>1 DEF CompleteMeansCovered
<1> QED
  BY <1>2, StreamInvariant, PTL

-------------------------------------------------------------------------------
(* Pages of uploads: DocumentParser *)

\* Of an upload, what is not noted yet is left or in the call under way, and what is read is of the page.
ParsingOK(u, p) ==
  /\ DOMAIN p = {"at", "left", "call", "calls", "late", "text", "noted"}
  /\ p.at \in {"next", "waiting", "end"}
  /\ p.at # "waiting" => p.call = {}
  /\ p.at = "end" => p.left = {}
  /\ Parser!Items(u) \subseteq p.noted \cup p.left \cup p.call
  /\ \A i \in Parser!Items(u) : p.text[i] # NoJob => i \in p.noted /\ p.text[i].by = u /\ i \in p.text[i].pages

\* The server's side of a call is about the pages of the call; one that goes on after its caller gave
\* up is the last of its upload.
HandlingOK(u, p, h) ==
  /\ DOMAIN h = {"at", "answer", "job", "read"}
  /\ h.at \in {"none", "arrived", "reading", "converting", "answered"}
  /\ p.at # "waiting" /\ h.at # "none" => p.late
  /\ h.at \in {"arrived", "reading", "converting"} => h.job \in Parser!Job
  /\ h.at \in {"arrived", "reading", "converting"} \/ (h.at = "answered" /\ h.answer = "result") =>
       h.job.by = u /\ (p.at = "waiting" => h.job.pages = p.call)

Converting(u) == x2[u].at = "converting"
Admitted(u) == x2[u].at \in {"reading", "converting"}

\* One call is admitted at a time ...
Admission ==
  \A u \in Upload : Admitted(u) => x3 = x2[u].job /\ \A v \in Upload : Admitted(v) => u = v

\* ... and the pipe holds one message at most: its job or its result.
Pipe ==
  /\ \A u \in Upload : Converting(u) => x7
  /\ DOMAIN x4 = {"at", "job"} /\ x4.at \in {"loading", "idle", "busy", "dead"}
  /\ x5 # <<>> => \E u \in Upload : /\ Converting(u) /\ x5 = <<x2[u].job>> /\ x6 = <<>>
                                    /\ x4.at \in {"idle", "dead"}
  /\ x4.at = "busy" => /\ x5 = <<>> /\ x6 = <<>>
                       /\ \E u \in Upload : Converting(u) /\ x4.job = x2[u].job
  /\ x4.at = "loading" => x5 = <<>> /\ x6 = <<>> /\ ~x7
  /\ x6 # <<>> => /\ x6 = <<Head(x6)>>
                  /\ \/ Head(x6).answer \in {"ready", "unready"} /\ ~x7
                     \/ /\ Head(x6).answer \in {"result", "error"}
                        /\ \E u \in Upload : /\ Converting(u)
                                             /\ Head(x6).answer = "result" => Head(x6).job = x2[u].job

ParserInv ==
  /\ DOMAIN x1 = Upload /\ DOMAIN x2 = Upload
  /\ \A u \in Upload : ParsingOK(u, x1[u]) /\ HandlingOK(u, x1[u], x2[u])
  /\ Admission /\ Pipe

LEMMA ParserStarts == Parser!Init => ParserInv
<1> SUFFICES ASSUME Parser!Init PROVE ParserInv
  OBVIOUS
<1>1. /\ x1 = [u \in Upload |-> Parser!Fresh(u)] /\ x2 = [u \in Upload |-> Parser!NoHandler]
      /\ x4 = [at |-> "idle", job |-> NoJob] /\ x5 = <<>> /\ x6 = <<>>
  BY DEF Parser!Init
<1>2. ASSUME NEW u \in Upload PROVE ParsingOK(u, x1[u])
  <2>1. x1[u] = Parser!Fresh(u)
    BY <1>1
  <2> QED BY <2>1 DEF ParsingOK, Parser!Fresh
<1>3. ASSUME NEW u \in Upload PROVE x2[u].at = "none" /\ HandlingOK(u, x1[u], x2[u])
  BY <1>1 DEF HandlingOK, Parser!NoHandler
<1>4. Admission /\ Pipe
  BY <1>1, <1>3 DEF Admission, Pipe, Admitted, Converting
<1> QED BY <1>1, <1>2, <1>3, <1>4 DEF ParserInv

\* One upload and its handler change.
LEMMA OfUpload ==
  ASSUME ParserInv, NEW u \in Upload, DOMAIN x1' = Upload, DOMAIN x2' = Upload,
         \A v \in Upload : v # u => x1'[v] = x1[v] /\ x2'[v] = x2[v],
         ParsingOK(u, x1'[u]), HandlingOK(u, x1'[u], x2'[u]), Admission', Pipe'
  PROVE  ParserInv'
<1>1. ASSUME NEW v \in Upload PROVE ParsingOK(v, x1'[v]) /\ HandlingOK(v, x1'[v], x2'[v])
  BY DEF ParserInv
<1>2. (\A v \in Upload : ParsingOK(v, x1[v]) /\ HandlingOK(v, x1[v], x2[v]))'
  BY <1>1 DEF ParsingOK, HandlingOK
<1> QED BY <1>2 DEF ParserInv

\* The pipe does not notice what happens to calls that it has not got.
LEMMA PipeStays ==
  ASSUME Pipe, UNCHANGED <<x4, x5, x6, x7>>,
         \A u \in Upload : Converting(u) <=> x2'[u].at = "converting",
         \A u \in Upload : Converting(u) => x2'[u].job = x2[u].job
  PROVE  Pipe'
BY DEF Pipe, Converting

\* Sequences of one element.
LEMMA SequencesOfOne ==
  ASSUME NEW m
  PROVE  Tail(<<m>>) = <<>> /\ Head(<<m>>) = m /\ Append(<<>>, m) = <<m>> /\ <<m>> # <<>>
<1>1. <<m>> \in Seq({m}) /\ <<m>> # <<>> /\ Len(<<m>>) = 1 /\ Head(<<m>>) = m
  OBVIOUS
<1>2. Tail(<<m>>) \in Seq({m}) /\ Len(Tail(<<m>>)) = 0
  BY <1>1, HeadTailProperties
<1>3. Tail(<<m>>) = <<>>
  BY <1>2, EmptySeq
<1>4. Append(<<>>, m) = <<m>>
  OBVIOUS
<1> QED BY <1>1, <1>3, <1>4

LEMMA LookingKeeps ==
  ASSUME Pipe, Parser!LooksReady \/ Parser!LooksUnready, UNCHANGED <<x4, x5>>,
         \A u \in Upload : Converting(u) <=> x2'[u].at = "converting",
         \A u \in Upload : Converting(u) => x2'[u].job = x2[u].job
  PROVE  Pipe'
<1>1. CASE x6' = x6 /\ x7' = x7
  BY <1>1, PipeStays
<1>2. CASE Parser!LooksReady /\ ~x7
  <2>1. /\ x7' = TRUE /\ x6' = Tail(x6) /\ x6 # <<>> /\ x6 = <<Head(x6)>> /\ x4.at # "loading"
        /\ x4.at # "busy"
    BY <1>2 DEF Parser!LooksReady, Parser!SeenReady, Pipe
  <2>2. x6' = <<>>
    BY <2>1, SequencesOfOne
  <2>3. x5 = <<>>
    BY <1>2 DEF Pipe
  <2> QED BY <2>1, <2>2, <2>3 DEF Pipe, Converting
<1>3. CASE Parser!LooksReady /\ x7
  BY <1>3 DEF Parser!LooksReady, Pipe, Converting
<1> QED BY <1>1, <1>2, <1>3 DEF Parser!LooksUnready

-------------------------------------------------------------------------------
(* Steps of uploads *)

LEMMA AskingKeeps ==
  ASSUME ParserInv, NEW u \in Upload, Parser!Ask(u)
  PROVE  ParserInv'
<1>1. PICK S \in Parser!CallsOf(u) :
        /\ x1' = [x1 EXCEPT ![u].at = "waiting", ![u].call = S, ![u].left = @ \ S, ![u].calls = @ + 1]
        /\ x2' = [x2 EXCEPT ![u] = [Parser!NoHandler EXCEPT !.at = "arrived", !.job = [by |-> u, pages |-> S]]]
  BY DEF Parser!Ask
<1>2. S \subseteq Parser!Items(u)
  BY <1>1 DEF Parser!CallsOf, Parser!Selected, Parser!Items
<1>3. /\ x1[u].at = "next" /\ ~x1[u].late /\ UNCHANGED <<x3, x4, x5, x6, x7>>
  BY DEF Parser!Ask, Parser!Reserved
<1>4. /\ DOMAIN x1 = Upload /\ DOMAIN x2 = Upload /\ ParsingOK(u, x1[u]) /\ HandlingOK(u, x1[u], x2[u])
      /\ Admission /\ Pipe
  BY DEF ParserInv
<1>5. /\ DOMAIN x1' = Upload /\ DOMAIN x2' = Upload
      /\ \A v \in Upload : v # u => x1'[v] = x1[v] /\ x2'[v] = x2[v]
  BY <1>1, <1>4
<1>6. ParsingOK(u, x1'[u]) /\ x1'[u].at = "waiting" /\ x1'[u].call = S
  BY <1>1, <1>2, <1>3, <1>4 DEF ParsingOK
<1>7. x2'[u].at = "arrived" /\ HandlingOK(u, x1'[u], x2'[u])
  <2> DEFINE job == [by |-> u, pages |-> S]
  <2>1. job \in Parser!Job
    BY <1>2 DEF Parser!Job
  <2>2. job.by = u /\ job.pages = S
    OBVIOUS
  <2> HIDE DEF job
  <2>3. x2'[u] = [Parser!NoHandler EXCEPT !.at = "arrived", !.job = job]
    BY <1>1, <1>4 DEF job
  <2> QED BY <1>6, <2>1, <2>2, <2>3 DEF HandlingOK, Parser!NoHandler
<1>8. x2[u].at = "none"
  BY <1>3, <1>4 DEF HandlingOK
<1>9. Admission' /\ Pipe'
  <2>1. Pipe'
    BY <1>3, <1>4, <1>5, <1>7, <1>8, PipeStays DEF Converting
  <2>2. Admission'
    BY <1>3, <1>4, <1>5, <1>7, <1>8 DEF Admission, Admitted
  <2> QED BY <2>1, <2>2
<1> QED BY <1>5, <1>6, <1>7, <1>9, OfUpload

\* What is taken out of what is left is noted.
LEMMA PassingKeeps ==
  ASSUME ParserInv, NEW u \in Upload, Parser!Pass(u) \/ Parser!Late(u) \/ Parser!Parsed(u)
  PROVE  ParserInv'
<1>1. /\ DOMAIN x1 = Upload /\ DOMAIN x2 = Upload /\ ParsingOK(u, x1[u]) /\ HandlingOK(u, x1[u], x2[u])
      /\ Admission /\ Pipe /\ UNCHANGED <<x2, x3, x4, x5, x6, x7>>
  BY DEF ParserInv, Parser!Pass, Parser!Late, Parser!Parsed
<1>2. /\ DOMAIN x1' = Upload /\ \A v \in Upload : v # u => x1'[v] = x1[v]
      /\ ParsingOK(u, x1'[u]) /\ HandlingOK(u, x1'[u], x2[u])
  <2>1. CASE Parser!Pass(u)
    <3>1. PICK S : x1' = [x1 EXCEPT ![u].left = @ \ S, ![u].noted = @ \cup S]
      BY <2>1 DEF Parser!Pass
    <3> QED BY <1>1, <3>1 DEF ParsingOK, HandlingOK
  <2>2. CASE Parser!Late(u)
    <3>1. x1' = [x1 EXCEPT ![u].late = TRUE]
      BY <2>2 DEF Parser!Late
    <3> QED BY <1>1, <3>1 DEF ParsingOK, HandlingOK
  <2>3. CASE Parser!Parsed(u)
    <3>1. /\ x1' = [x1 EXCEPT ![u].at = "end", ![u].left = {}, ![u].noted = @ \cup x1[u].left]
          /\ x1[u].at = "next"
      BY <2>3 DEF Parser!Parsed
    <3> QED BY <1>1, <3>1 DEF ParsingOK, HandlingOK
  <2> QED BY <2>1, <2>2, <2>3
<1>3. Admission' /\ Pipe'
  BY <1>1 DEF Admission, Pipe, Admitted, Converting
<1> QED BY <1>1, <1>2, <1>3, OfUpload

\* The end of a call, with the pages that came.
LEMMA Noting ==
  ASSUME ParserInv, NEW u \in Upload, NEW job, NEW read \in SUBSET x1[u].call,
         Parser!Note(u, job, read), x1[u].at = "waiting",
         read # {} => job.by = u /\ job.pages = x1[u].call
  PROVE  /\ DOMAIN x1' = Upload /\ \A v \in Upload : v # u => x1'[v] = x1[v]
         /\ ParsingOK(u, x1'[u]) /\ x1'[u].at = "next" /\ x1'[u].late = x1[u].late
<1>1. DOMAIN x1 = Upload /\ ParsingOK(u, x1[u])
  BY DEF ParserInv
<1> DEFINE text == [i \in Parser!Items(u) |-> IF i \in read THEN job ELSE x1[u].text[i]]
<1>2. \A i \in Parser!Items(u) : text[i] = IF i \in read THEN job ELSE x1[u].text[i]
  OBVIOUS
<1>3. x1' = [x1 EXCEPT ![u].at = "next", ![u].text = text, ![u].noted = @ \cup x1[u].call, ![u].call = {}]
  BY DEF Parser!Note
<1> HIDE DEF text
<1>4. /\ DOMAIN x1' = Upload /\ \A v \in Upload : v # u => x1'[v] = x1[v]
      /\ DOMAIN x1'[u] = DOMAIN x1[u] /\ x1'[u].at = "next" /\ x1'[u].late = x1[u].late
      /\ x1'[u].text = text /\ x1'[u].noted = x1[u].noted \cup x1[u].call /\ x1'[u].call = {}
      /\ x1'[u].left = x1[u].left
  BY <1>1, <1>3 DEF ParsingOK
<1>5. \A i \in Parser!Items(u) :
        text[i] # NoJob => i \in x1'[u].noted /\ text[i].by = u /\ i \in text[i].pages
  BY <1>1, <1>2, <1>4 DEF ParsingOK
<1> QED BY <1>1, <1>4, <1>5 DEF ParsingOK

LEMMA ReceivingKeeps ==
  ASSUME ParserInv, NEW u \in Upload, Parser!Received(u) \/ Parser!Unconnected(u)
  PROVE  ParserInv'
<1>1. /\ DOMAIN x1 = Upload /\ DOMAIN x2 = Upload /\ HandlingOK(u, x1[u], x2[u]) /\ Admission /\ Pipe
      /\ x1[u].at = "waiting" /\ x2[u].at \in {"answered", "arrived"}
      /\ x2' = [x2 EXCEPT ![u] = Parser!NoHandler] /\ UNCHANGED <<x3, x4, x5, x6, x7>>
  BY DEF ParserInv, Parser!Received, Parser!Unconnected
<1>2. PICK job, read : /\ Parser!Note(u, job, read) /\ read \subseteq x1[u].call
                       /\ read # {} => job.by = u /\ job.pages = x1[u].call
  <2>1. CASE Parser!Unconnected(u)
    BY <2>1 DEF Parser!Unconnected
  <2>2. CASE Parser!Received(u)
    <3> DEFINE h == x2[u]
               valid == h.answer = "result" /\ Parser!Cardinality(h.read) <= Parser!Cardinality(x1[u].call)
               read == IF valid THEN Parser!Renumbered(x1[u].call, h.read) ELSE {}
    <3>1. Parser!Note(u, h.job, read) /\ h.at = "answered"
      BY <2>2 DEF Parser!Received
    <3>2. read \subseteq x1[u].call
      BY DEF Parser!Renumbered
    <3>3. read # {} => h.answer = "result"
      OBVIOUS
    <3>4. h.answer = "result" => h.job.by = u /\ h.job.pages = x1[u].call
      BY <1>1, <3>1 DEF HandlingOK
    <3> QED BY <3>1, <3>2, <3>3, <3>4
  <2> QED BY <2>1, <2>2
<1>3. /\ DOMAIN x1' = Upload /\ \A v \in Upload : v # u => x1'[v] = x1[v]
      /\ ParsingOK(u, x1'[u])
  BY <1>1, <1>2, Noting
<1>4. /\ DOMAIN x2' = Upload /\ \A v \in Upload : v # u => x2'[v] = x2[v]
      /\ x2'[u].at = "none" /\ HandlingOK(u, x1'[u], x2'[u])
  BY <1>1 DEF HandlingOK, Parser!NoHandler
<1>5. Pipe'
  BY <1>1, <1>4, PipeStays DEF Converting
<1>6. Admission'
  BY <1>1, <1>4 DEF Admission, Admitted
<1> QED BY <1>3, <1>4, <1>5, <1>6, OfUpload

\* Who gives up has used up the time of the upload.
LEMMA GivingUpKeeps ==
  ASSUME ParserInv, NEW u \in Upload, Parser!GiveUp(u)
  PROVE  ParserInv'
<1>1. /\ DOMAIN x2 = Upload /\ HandlingOK(u, x1[u], x2[u]) /\ Admission /\ Pipe
      /\ x1[u].at = "waiting" /\ x1[u].late /\ Parser!Note(u, NoJob, {})
      /\ UNCHANGED <<x2, x3, x4, x5, x6, x7>>
  BY DEF ParserInv, Parser!GiveUp
<1>2. /\ DOMAIN x1' = Upload /\ \A v \in Upload : v # u => x1'[v] = x1[v]
      /\ ParsingOK(u, x1'[u]) /\ x1'[u].at = "next" /\ x1'[u].late = x1[u].late
  BY <1>1, Noting
<1>3. HandlingOK(u, x1'[u], x2'[u])
  BY <1>1, <1>2 DEF HandlingOK
<1>4. Admission' /\ Pipe'
  BY <1>1 DEF Admission, Pipe, Admitted, Converting
<1> QED BY <1>1, <1>2, <1>3, <1>4, OfUpload

-------------------------------------------------------------------------------
(* Steps of the server *)

\* A handler that answers otherwise than with a result promises nothing.
LEMMA RefusingKeeps ==
  ASSUME ParserInv, NEW u \in Upload, x2[u].at # "none",
         NEW code \in {"busy", "unavailable", "upload_timeout", "timeout"},
         x2' = [x2 EXCEPT ![u] = Parser!Refusal(code)], x1' = x1, Pipe', x3' = x3 \/ Admitted(u)
  PROVE  ParserInv'
<1>1. /\ DOMAIN x1 = Upload /\ DOMAIN x2 = Upload /\ ParsingOK(u, x1[u]) /\ HandlingOK(u, x1[u], x2[u])
      /\ Admission
  BY DEF ParserInv
<1>2. /\ DOMAIN x2' = Upload /\ \A v \in Upload : v # u => x2'[v] = x2[v]
      /\ x2'[u] = Parser!Refusal(code)
  BY <1>1
<1>3. x2'[u].at = "answered" /\ HandlingOK(u, x1'[u], x2'[u])
  BY <1>1, <1>2 DEF HandlingOK, Parser!Refusal
<1>4. Admission'
  BY <1>1, <1>2, <1>3 DEF Admission, Admitted
<1> QED BY <1>1, <1>2, <1>3, <1>4, OfUpload

\* A handler goes on to its next stage.
LEMMA AdvancingKeeps ==
  ASSUME ParserInv, NEW u \in Upload, x2[u].at \in {"arrived", "reading"},
         NEW s \in {"reading", "converting"},
         x2' = [x2 EXCEPT ![u].at = s], x1' = x1, Pipe', x3' = x2[u].job,
         \A v \in Upload : Admitted(v) => v = u
  PROVE  ParserInv'
<1>1. /\ DOMAIN x1 = Upload /\ DOMAIN x2 = Upload /\ ParsingOK(u, x1[u]) /\ HandlingOK(u, x1[u], x2[u])
      /\ Admission
  BY DEF ParserInv
<1>2. /\ DOMAIN x2' = Upload /\ \A v \in Upload : v # u => x2'[v] = x2[v]
      /\ x2'[u] = [x2[u] EXCEPT !.at = s]
  BY <1>1
<1>3. x2'[u].at = s /\ x2'[u].job = x2[u].job /\ HandlingOK(u, x1'[u], x2'[u])
  BY <1>1, <1>2 DEF HandlingOK
<1>4. Admission'
  BY <1>1, <1>2, <1>3 DEF Admission, Admitted
<1> QED BY <1>1, <1>2, <1>3, <1>4, OfUpload

LEMMA AdmittingKeeps ==
  ASSUME ParserInv, NEW u \in Upload, Parser!Admit(u)
  PROVE  ParserInv'
<1>1. /\ DOMAIN x2 = Upload /\ HandlingOK(u, x1[u], x2[u]) /\ Admission /\ Pipe
      /\ x2[u].at = "arrived" /\ UNCHANGED <<x1, x4, x5>>
      /\ Parser!LooksReady \/ Parser!LooksUnready
      /\ \A v \in Upload : HandlingOK(v, x1[v], x2[v])
  BY DEF ParserInv, Parser!Admit
<1>2. \/ \E code \in {"busy", "unavailable"} : x2' = [x2 EXCEPT ![u] = Parser!Refusal(code)] /\ x3' = x3
      \/ x2' = [x2 EXCEPT ![u].at = "reading"] /\ x3' = x2[u].job /\ x3 = NoJob
  BY DEF Parser!Admit
<1>3. ASSUME NEW code \in {"busy", "unavailable"}, x2' = [x2 EXCEPT ![u] = Parser!Refusal(code)], x3' = x3
      PROVE  ParserInv'
  <2>1. /\ x2'[u].at = "answered" /\ \A v \in Upload : v # u => x2'[v] = x2[v]
    BY <1>1, <1>3 DEF Parser!Refusal
  <2>2. Pipe'
    BY <1>1, <2>1, LookingKeeps DEF Converting
  <2> QED BY <1>1, <1>3, <2>2, RefusingKeeps
<1>4. ASSUME x2' = [x2 EXCEPT ![u].at = "reading"], x3' = x2[u].job, x3 = NoJob
      PROVE  ParserInv'
  <2>1. /\ x2'[u].at = "reading" /\ \A v \in Upload : v # u => x2'[v] = x2[v]
    BY <1>1, <1>4 DEF HandlingOK
  <2>2. Pipe'
    BY <1>1, <2>1, LookingKeeps DEF Converting
  <2>3. \A v \in Upload : ~Admitted(v)
    <3>1. NoJob \notin Parser!Job
      BY ParserConstants DEF Parser!ParserAssumption
    <3> QED BY <1>1, <1>4, <3>1 DEF Admission, Admitted, HandlingOK
  <2> QED BY <1>1, <1>4, <2>2, <2>3, AdvancingKeeps
<1> QED BY <1>2, <1>3, <1>4

LEMMA BodyLostKeeps ==
  ASSUME ParserInv, NEW u \in Upload, Parser!BodyLost(u)
  PROVE  ParserInv'
<1>1. /\ DOMAIN x2 = Upload /\ Pipe /\ x2[u].at = "reading" /\ UNCHANGED <<x1, x4, x5, x6, x7>>
      /\ x2' = [x2 EXCEPT ![u] = Parser!Refusal("upload_timeout")]
  BY DEF ParserInv, Parser!BodyLost
<1>2. /\ x2'[u].at = "answered" /\ \A v \in Upload : v # u => x2'[v] = x2[v]
  BY <1>1 DEF Parser!Refusal
<1>3. Pipe'
  BY <1>1, <1>2, PipeStays DEF Converting
<1> QED BY <1>1, <1>3, RefusingKeeps DEF Admitted

LEMMA SendingKeeps ==
  ASSUME ParserInv, NEW u \in Upload, Parser!Send(u)
  PROVE  ParserInv'
<1>1. /\ DOMAIN x2 = Upload /\ DOMAIN x2[u] = {"at", "answer", "job", "read"} /\ Admission /\ Pipe
      /\ x2[u].at = "reading" /\ UNCHANGED <<x1, x4, x6, x7>>
  BY DEF ParserInv, Parser!Send, HandlingOK
<1>2. \A v \in Upload : Admitted(v) => v = u
  BY <1>1 DEF Admission, Admitted
<1>3. \A v \in Upload : ~Converting(v)
  BY <1>1, <1>2 DEF Converting, Admitted
<1>4. x5 = <<>> /\ x4.at # "busy"
  BY <1>1, <1>3 DEF Pipe
<1>5. CASE x4.at # "dead" /\ x7
  <2>1. x5' = Append(x5, x3) /\ x2' = [x2 EXCEPT ![u].at = "converting"] /\ x3' = x3
    BY <1>5 DEF Parser!Send
  <2>2. x3 = x2[u].job
    BY <1>1 DEF Admission, Admitted
  <2>3. x5' = <<x2[u].job>>
    BY <1>4, <2>1, <2>2, SequencesOfOne
  <2>4. x2'[u].at = "converting" /\ x2'[u].job = x2[u].job /\ \A v \in Upload : v # u => x2'[v] = x2[v]
    BY <1>1, <2>1
  <2>5. x6 = <<>> /\ x4.at = "idle"
    BY <1>1, <1>3, <1>4, <1>5 DEF Pipe
  <2>6. Pipe'
    BY <1>1, <1>3, <1>5, <2>3, <2>4, <2>5 DEF Pipe, Converting
  <2> QED BY <1>1, <1>2, <2>1, <2>2, <2>6, AdvancingKeeps
<1>6. CASE ~(x4.at # "dead" /\ x7)
  <2>1. x5' = x5 /\ x2' = [x2 EXCEPT ![u] = Parser!Refusal("unavailable")]
    BY <1>6 DEF Parser!Send
  <2>2. /\ x2'[u].at = "answered" /\ \A v \in Upload : v # u => x2'[v] = x2[v]
    BY <1>1, <2>1 DEF Parser!Refusal
  <2>3. Pipe'
    BY <1>1, <2>1, <2>2, PipeStays DEF Converting
  <2> QED BY <1>1, <2>1, <2>3, RefusingKeeps DEF Admitted
<1> QED BY <1>5, <1>6

\* The message that comes is of the one who is converting.
LEMMA ConvertedKeeps ==
  ASSUME ParserInv, NEW u \in Upload, Parser!Converted(u)
  PROVE  ParserInv'
<1> DEFINE m == Head(x6)
<1>1. /\ DOMAIN x1 = Upload /\ DOMAIN x2 = Upload /\ ParsingOK(u, x1[u]) /\ HandlingOK(u, x1[u], x2[u])
      /\ Admission /\ Pipe
      /\ Converting(u) /\ x6 # <<>> /\ x6' = Tail(x6) /\ UNCHANGED <<x1, x4, x5, x7>>
      /\ x2' = [x2 EXCEPT ![u] = [at |-> "answered", answer |-> m.answer, job |-> m.job, read |-> m.read]]
  BY DEF ParserInv, Parser!Converted, Converting
<1>2. x6 = <<m>> /\ x7 /\ x5 = <<>> /\ x4.at \notin {"busy", "loading"}
  BY <1>1 DEF Pipe
<1>3. m.answer = "result" => m.job = x2[u].job
  <2>1. PICK v \in Upload : Converting(v) /\ (m.answer = "result" => m.job = x2[v].job)
    BY <1>1, <1>2 DEF Pipe
  <2>2. v = u
    BY <1>1, <2>1 DEF Admission, Admitted, Converting
  <2> QED BY <2>1, <2>2
<1>4. x6' = <<>>
  BY <1>1, <1>2, SequencesOfOne
<1> HIDE DEF m
<1>5. /\ DOMAIN x2' = Upload /\ \A v \in Upload : v # u => x2'[v] = x2[v]
      /\ x2'[u] = [at |-> "answered", answer |-> m.answer, job |-> m.job, read |-> m.read]
  BY <1>1
<1>6. x2'[u].at = "answered" /\ HandlingOK(u, x1'[u], x2'[u])
  BY <1>1, <1>3, <1>5 DEF HandlingOK, Converting
<1>7. \A v \in Upload : ~(Admitted(v))'
  BY <1>1, <1>5, <1>6 DEF Admission, Admitted, Converting
<1>8. Admission' /\ Pipe'
  BY <1>1, <1>2, <1>4, <1>7 DEF Admission, Pipe, Admitted, Converting
<1> QED BY <1>1, <1>5, <1>6, <1>8, OfUpload

LEMMA UnansweredKeeps ==
  ASSUME ParserInv, NEW u \in Upload, Parser!Unanswered(u)
  PROVE  ParserInv'
<1>1. /\ DOMAIN x2 = Upload /\ Admission /\ x2[u].at = "converting" /\ x1' = x1
      /\ x4' = [at |-> "loading", job |-> NoJob] /\ x5' = <<>> /\ x6' = <<>> /\ x7' = FALSE
  BY DEF ParserInv, Parser!Unanswered, Parser!Restart
<1>2. PICK code \in {"unavailable", "timeout"} : x2' = [x2 EXCEPT ![u] = Parser!Refusal(code)]
  BY DEF Parser!Unanswered
<1>3. /\ x2'[u].at = "answered" /\ \A v \in Upload : v # u => x2'[v] = x2[v]
  BY <1>1, <1>2 DEF Parser!Refusal
<1>4. \A v \in Upload : ~(Converting(v))'
  BY <1>1, <1>3 DEF Admission, Admitted, Converting
<1>5. Pipe'
  BY <1>1, <1>4 DEF Pipe, Converting
<1> QED BY <1>1, <1>2, <1>5, RefusingKeeps DEF Admitted

-------------------------------------------------------------------------------
(* Steps of the model process *)

LEMMA ChildKeeps ==
  ASSUME ParserInv, Parser!Load \/ Parser!TakeJob \/ Parser!Convert \/ Parser!Die \/ Parser!Health
  PROVE  ParserInv'
<1>1. Pipe /\ UNCHANGED <<x1, x2, x3>>
  BY DEF ParserInv, Parser!Load, Parser!TakeJob, Parser!Convert, Parser!Die, Parser!Health
<1>2. Pipe'
  <2>1. CASE Parser!Load
    <3>1. PICK s \in {"idle", "dead"}, answer \in {"ready", "unready"} :
            /\ x4' = [x4 EXCEPT !.at = s] /\ x6' = Append(x6, Parser!Message(answer, NoJob, {}))
      BY <2>1 DEF Parser!Load
    <3> DEFINE m == Parser!Message(answer, NoJob, {})
    <3>2. m.answer = answer
      BY DEF Parser!Message
    <3>3. x5 = <<>> /\ x6 = <<>> /\ ~x7 /\ UNCHANGED <<x5, x7>>
      BY <1>1, <2>1 DEF Parser!Load, Pipe
    <3> HIDE DEF m
    <3>4. x6' = <<m>> /\ Head(x6') = m
      BY <3>1, <3>3, SequencesOfOne DEF m
    <3>5. DOMAIN x4' = {"at", "job"} /\ x4'.at = s
      BY <1>1, <3>1 DEF Pipe
    <3> QED BY <1>1, <3>2, <3>3, <3>4, <3>5 DEF Pipe, Converting
  <2>2. CASE Parser!TakeJob
    <3>1. /\ x5 # <<>> /\ x4' = [at |-> "busy", job |-> Head(x5)] /\ x5' = Tail(x5) /\ UNCHANGED <<x6, x7>>
      BY <2>2 DEF Parser!TakeJob
    <3>2. PICK u \in Upload : Converting(u) /\ x5 = <<x2[u].job>> /\ x6 = <<>>
      BY <1>1, <3>1 DEF Pipe
    <3>3. x5' = <<>> /\ x4'.job = x2[u].job /\ x4'.at = "busy" /\ DOMAIN x4' = {"at", "job"}
      BY <3>1, <3>2, SequencesOfOne
    <3> QED BY <1>1, <3>1, <3>2, <3>3 DEF Pipe, Converting
  <2>3. CASE Parser!Convert
    <3>0. PICK answer \in {"result", "error"} : \E job, read :
            /\ x6' = Append(x6, Parser!Message(answer, job, read)) /\ (answer = "result" => job = x4.job)
      BY <2>3 DEF Parser!Convert
    <3>1. PICK job, read :
            /\ x6' = Append(x6, Parser!Message(answer, job, read)) /\ (answer = "result" => job = x4.job)
      BY <3>0
    <3> DEFINE m == Parser!Message(answer, job, read)
    <3>2. m.answer = answer /\ m.job = job
      BY DEF Parser!Message
    <3>3. /\ x5 = <<>> /\ x6 = <<>> /\ x4.at = "busy" /\ UNCHANGED <<x5, x7>>
          /\ x4' = [at |-> "idle", job |-> NoJob]
      BY <1>1, <2>3 DEF Parser!Convert, Pipe
    <3>4. PICK u \in Upload : Converting(u) /\ x4.job = x2[u].job
      BY <1>1, <3>3 DEF Pipe
    <3> HIDE DEF m
    <3>5. x6' = <<m>> /\ Head(x6') = m /\ <<m>> # <<>>
      BY <3>1, <3>3, SequencesOfOne DEF m
    <3>6. x4'.at = "idle" /\ DOMAIN x4' = {"at", "job"}
      BY <3>3
    <3>7. m.answer = "result" => m.job = x2[u].job
      BY <3>1, <3>2, <3>4
    <3> QED BY <1>1, <3>1, <3>2, <3>3, <3>4, <3>5, <3>6, <3>7 DEF Pipe, Converting
  <2>4. CASE Parser!Die
    <3>1. x4' = [at |-> "dead", job |-> NoJob] /\ UNCHANGED <<x5, x6, x7>>
      BY <2>4 DEF Parser!Die
    <3>2. x4'.at = "dead" /\ DOMAIN x4' = {"at", "job"}
      BY <3>1
    <3> QED BY <1>1, <3>1, <3>2 DEF Pipe, Converting
  <2>5. CASE Parser!Health
    BY <1>1, <2>5, LookingKeeps DEF Parser!Health, Converting
  <2> QED BY <2>1, <2>2, <2>3, <2>4, <2>5
<1> QED BY <1>1, <1>2 DEF ParserInv, Admission, Admitted

LEMMA ParserSteps ==
  ASSUME ParserInv, [Parser!Next]_(Parser!parserVars)
  PROVE  ParserInv'
<1>1. CASE UNCHANGED Parser!parserVars
  BY <1>1 DEF Parser!parserVars, ParserInv, Admission, Pipe, Admitted, Converting
<1> QED
  BY <1>1, AskingKeeps, PassingKeeps, ReceivingKeeps, GivingUpKeeps, AdmittingKeeps, BodyLostKeeps,
     SendingKeeps, ConvertedKeeps, UnansweredKeeps, ChildKeeps DEF Parser!Next

LEMMA ParserInvariant == ServicesSpec => [](part = "parser" => ParserInv)
<1>1. ServicesInit => (part = "parser" => ParserInv)
  BY ParserStarts DEF ServicesInit
<1>2. (part = "parser" => ParserInv) /\ [ServicesNext]_vars => (part = "parser" => ParserInv)'
  <2> SUFFICES ASSUME part' = "parser", part = "parser" => ParserInv, [ServicesNext]_vars
      PROVE  ParserInv'
    OBVIOUS
  <2>1. part = "parser" /\ [Parser!Next]_(Parser!parserVars)
    BY DEF ServicesNext, vars, From5, From7, From8, From9, Parser!parserVars
  <2> QED
    BY <2>1, ParserSteps
<1> QED
  BY <1>1, <1>2, PTL DEF ServicesSpec

\* The text of a page is that page's, and a page without text is noted when the file is stored: an
\* answer that comes when its caller gave up, or from a process that was replaced, is nobody else's.
THEOREM PagesAreReadOrNoted == ServicesSpec => []PagesReadOrNoted
<1>1. ASSUME ParserInv, NEW u \in Upload
      PROVE  /\ \A p \in Parser!Read(u) : x1[u].text[p].by = u /\ p \in x1[u].text[p].pages
             /\ x1[u].at = "end" =>
                  /\ Parser!Items(u) \subseteq Parser!Read(u) \cup x1[u].noted
                  /\ Parser!Items(u) # {} => Parser!ParsingStatus(u) # "ready"
  <2>1. ParsingOK(u, x1[u])
    BY <1>1 DEF ParserInv
  <2>2. Parser!Read(u) \subseteq x1[u].noted
    BY <2>1 DEF ParsingOK, Parser!Read
  <2>3. x1[u].at = "end" => Parser!Items(u) \subseteq x1[u].noted
    BY <2>1 DEF ParsingOK
  <2>4. Parser!ParsingStatus(u) = "ready" => Parser!Read(u) # {} /\ x1[u].noted = {}
    BY DEF Parser!ParsingStatus
  <2> QED BY <2>1, <2>2, <2>3, <2>4 DEF ParsingOK, Parser!Read
<1>2. (part = "parser" => ParserInv) => PagesReadOrNoted
  BY <1>1 DEF PagesReadOrNoted, Parser!PagesReadOrNoted
<1> QED
  BY <1>2, ParserInvariant, PTL
===============================================================================
