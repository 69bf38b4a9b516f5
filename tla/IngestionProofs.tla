---------------------------- MODULE IngestionProofs ---------------------------
(***************************************************************************)
(* Theorems about Ingestion, for any number of uploads, contents and       *)
(* workers, whatever bounds the queue.                                     *)
(*                                                                         *)
(* Both properties are about a run without faults.  They rest on who may   *)
(* name a document: while a job makes its own, nobody else can have found  *)
(* it, so neither a deletion nor another job touches its files (Fresh);    *)
(* and a document that was once taken out of the registry never returns,   *)
(* so that a row without paths means there is nothing left (Bare).         *)
(***************************************************************************)
EXTENDS MCWorkspace, TLAPS

JobId == 1..Jobs
Making == {"named", "chunked", "embedded", "written", "built"}
OpenState == {"none", "queued", "running"} \cup Making
OverState == {"gone", "completed", "known", "bare", "done", "failed"}
Stage == {"none", "files", "marker", "repair", "entry", "cleanup"}

\* What the variables look like.
Shape ==
  /\ at \in [JobId -> OpenState \cup OverState]
  /\ content \in [JobId -> Content \cup {None}] /\ doc \in [JobId -> 0..Jobs]
  /\ \A i \in JobId : /\ at[i] # "none" => content[i] \in Content
                      /\ at[i] \in Making => doc[i] \in JobId
  /\ DOMAIN audit = JobId
  /\ \A i \in JobId : DOMAIN audit[i] = {"status", "doc", "paths"} /\ audit[i].doc \in 0..Jobs
  /\ registry \subseteq JobId \X Content
  /\ chunks \in [JobId -> Content \cup {None}] /\ vectors \in [JobId -> Content \cup {None}]
  /\ DOMAIN del = {"at", "loop", "doc", "job", "paths", "next", "warned"}
  /\ del.at \in Stage /\ del.doc \in 0..Jobs /\ del.job \in 0..Jobs
  /\ ingestFaults \in Nat

Registered(d) == \E c \in Content : <<d, c>> \in registry
Open(d) == at[d] \in OpenState

\* An entry that is not being deleted has the files of its content.
Ready == \A e \in registry : e[1] = del.doc \/ (chunks[e[1]] = e[2] /\ vectors[e[1]] = e[2])

\* A job makes the document named after it, and its files stay as it wrote them.
OwnFiles == \A i \in JobId :
  /\ at[i] \in Making => doc[i] = i
  /\ at[i] \in Making \ {"named"} => chunks[i] = content[i]
  /\ at[i] \in Making \ {"named", "chunked"} => vectors[i] = content[i]

\* Until then nobody knows that document.
Fresh == \A d \in JobId : Open(d) =>
  /\ ~Registered(d) /\ del.doc # d
  /\ \A i \in JobId : audit[i].doc # d /\ (at[i] \in {"completed", "known", "bare"} => doc[i] # d)

\* What is recorded without its paths is not in the registry.
Bare == \A i \in JobId :
  /\ at[i] = "bare" => ~Registered(doc[i])
  /\ audit[i].doc # 0 /\ ~audit[i].paths => ~Registered(audit[i].doc)

\* An owner's deletion knows the paths, and has removed the files after its first step.
Removing ==
  /\ del.at = "none" => del.doc = 0
  /\ del.at = "cleanup" => ~Registered(del.doc)
  /\ del.loop => del.doc \in JobId
  /\ del.loop /\ del.at = "files" => del.paths
  /\ del.loop /\ del.at # "files" => chunks[del.doc] = None /\ vectors[del.doc] = None

Sound == Ready /\ OwnFiles /\ Fresh /\ Bare /\ Removing

IngestInv == Shape /\ (ingestFaults = 0 => Sound)

-------------------------------------------------------------------------------
(* Steps keep the shape *)

LEMMA NamesAgree ==
  /\ Ingest!JobId = JobId /\ Ingest!DocId = JobId
  /\ \A d : Ingest!Registered(d) <=> Registered(d)
BY DEF Ingest!JobId, Ingest!DocId, JobId, Ingest!Registered, Registered

LEMMA InitInv == ASSUME Ingest!Init PROVE IngestInv
<1>1. Shape
  <2>1. /\ at \in [JobId -> OpenState \cup OverState] /\ \A i \in JobId : at[i] = "none"
        /\ content \in [JobId -> Content \cup {None}] /\ doc \in [JobId -> 0..Jobs]
        /\ registry \subseteq JobId \X Content
        /\ chunks \in [JobId -> Content \cup {None}] /\ vectors \in [JobId -> Content \cup {None}]
        /\ ingestFaults \in Nat
    BY NamesAgree, WorkspaceConstants DEF Ingest!Init, OpenState, Ingest!IngestionAssumption
  <2>2. DOMAIN audit = JobId /\ \A i \in JobId : audit[i] = Ingest!NoRow
    BY NamesAgree DEF Ingest!Init
  <2>3. DOMAIN Ingest!NoRow = {"status", "doc", "paths"} /\ Ingest!NoRow.doc \in 0..Jobs
    BY WorkspaceConstants DEF Ingest!NoRow, Ingest!IngestionAssumption
  <2>4. /\ DOMAIN del = {"at", "loop", "doc", "job", "paths", "next", "warned"}
        /\ del.at \in Stage /\ del.doc \in 0..Jobs /\ del.job \in 0..Jobs
    BY WorkspaceConstants DEF Ingest!Init, Ingest!NoDeletion, Stage, Ingest!IngestionAssumption
  <2> QED BY <2>1, <2>2, <2>3, <2>4 DEF Shape, Making
<1>2. registry = {} /\ \A i \in JobId : at[i] = "none" /\ doc[i] = 0 /\ audit[i].doc = 0
  BY NamesAgree DEF Ingest!Init, Ingest!NoRow
<1>3. del.at = "none" /\ del.doc = 0 /\ ~del.loop
  BY DEF Ingest!Init, Ingest!NoDeletion
<1>4. Ready /\ OwnFiles /\ Bare /\ Fresh
  BY <1>2, <1>3 DEF Ready, OwnFiles, Bare, Fresh, Making, Registered, Open, JobId
<1>5. Removing
  BY <1>2, <1>3 DEF Removing, Registered
<1> QED BY <1>1, <1>4, <1>5 DEF IngestInv, Sound

\* The lookups only take entries away.
LEMMA LookupsRemove ==
  ASSUME NEW c, Ingest!LookupMisses(c) \/ \E d \in JobId : Ingest!LookupFinds(c, d)
  PROVE  registry' \subseteq registry
BY DEF Ingest!LookupMisses, Ingest!LookupFinds

\* A job moves, and at most its document and its row with it.
LEMMA JobMoves ==
  ASSUME Shape, NEW i \in JobId, NEW s \in OpenState \cup OverState, Ingest!Move(i, s)
  PROVE  /\ at' \in [JobId -> OpenState \cup OverState]
         /\ at'[i] = s /\ \A j \in JobId : j # i => at'[j] = at[j]
BY DEF Shape, Ingest!Move

LEMMA RowChanges ==
  ASSUME Shape, NEW i \in JobId, NEW s, Ingest!Row(i, s)
  PROVE  /\ DOMAIN audit' = JobId
         /\ \A j \in JobId : /\ DOMAIN audit'[j] = {"status", "doc", "paths"}
                             /\ audit'[j].doc = audit[j].doc /\ audit'[j].paths = audit[j].paths
BY DEF Shape, Ingest!Row

LEMMA RowWritten ==
  ASSUME Shape, NEW i \in JobId, NEW s, NEW d \in 0..Jobs, NEW p,
         audit' = [audit EXCEPT ![i] = [status |-> s, doc |-> d, paths |-> p]]
  PROVE  /\ DOMAIN audit' = JobId
         /\ \A j \in JobId : DOMAIN audit'[j] = {"status", "doc", "paths"}
         /\ audit'[i].doc = d /\ (audit'[i].paths = p)
         /\ \A j \in JobId : j # i => audit'[j] = audit[j]
BY DEF Shape

LEMMA DeletionMoves ==
  ASSUME Shape, NEW s \in Stage, Ingest!To(s)
  PROVE  /\ DOMAIN del' = {"at", "loop", "doc", "job", "paths", "next", "warned"}
         /\ del'.at = s /\ del'.doc = del.doc /\ del'.job = del.job
         /\ del'.loop = del.loop /\ del'.paths = del.paths
BY DEF Shape, Ingest!To

-------------------------------------------------------------------------------
(* Steps of jobs *)

LEMMA StartInv ==
  ASSUME IngestInv, NEW i \in JobId, NEW c \in Content, Ingest!StartIngestionJob(i, c)
  PROVE  IngestInv'
<1>1. Shape /\ registry' \subseteq registry /\ at[i] = "none"
      /\ UNCHANGED <<chunks, vectors, del, ingestFaults>>
  <2>1. \A j \in JobId : j < i <=> at[j] # "none"
    BY NamesAgree DEF Ingest!StartIngestionJob
  <2>2. ~(i < i)
    BY DEF JobId
  <2>3. Ingest!LookupMisses(c) \/ \E d \in JobId : Ingest!LookupFinds(c, d)
    BY NamesAgree DEF Ingest!StartIngestionJob
  <2> QED BY <2>1, <2>2, <2>3, LookupsRemove DEF IngestInv, Ingest!StartIngestionJob
<1>2. PICK s \in {"queued", "done"} : Ingest!Move(i, s)
  BY DEF Ingest!StartIngestionJob
<1>3. at' \in [JobId -> OpenState \cup OverState] /\ at'[i] = s /\ \A j \in JobId : j # i => at'[j] = at[j]
  BY <1>1, <1>2, JobMoves DEF OpenState, OverState
<1>4. /\ content' \in [JobId -> Content \cup {None}] /\ content'[i] = c
      /\ \A j \in JobId : j # i => content'[j] = content[j]
  BY <1>1 DEF Ingest!StartIngestionJob, Shape
<1>5. \/ s = "queued" /\ Ingest!Row(i, "queued") /\ doc' = doc
      \/ s = "done" /\ \E d \in JobId :
           /\ Ingest!LookupFinds(c, d) /\ doc' = [doc EXCEPT ![i] = d]
           /\ audit' = [audit EXCEPT ![i] = [status |-> "completed", doc |-> d, paths |-> TRUE]]
  <2>1. at'[i] = "queued" \/ at'[i] = "done"
    BY <1>2, <1>3
  <2>2. \/ Ingest!Move(i, "queued") /\ Ingest!Row(i, "queued") /\ UNCHANGED doc
        \/ Ingest!Move(i, "done") /\ \E d \in JobId :
             /\ Ingest!LookupFinds(c, d) /\ doc' = [doc EXCEPT ![i] = d]
             /\ audit' = [audit EXCEPT ![i] = [status |-> "completed", doc |-> d, paths |-> TRUE]]
    BY NamesAgree DEF Ingest!StartIngestionJob
  <2>3. Ingest!Move(i, "queued") => s = "queued"
    BY <1>1, <1>3 DEF Ingest!Move, Shape
  <2>4. Ingest!Move(i, "done") => s = "done"
    BY <1>1, <1>3 DEF Ingest!Move, Shape
  <2> QED BY <2>2, <2>3, <2>4
<1>6. /\ doc' \in [JobId -> 0..Jobs] /\ \A j \in JobId : j # i => doc'[j] = doc[j]
      /\ DOMAIN audit' = JobId
      /\ \A j \in JobId : DOMAIN audit'[j] = {"status", "doc", "paths"} /\ audit'[j].doc \in 0..Jobs
      /\ \A j \in JobId : j # i => audit'[j].doc = audit[j].doc /\ audit'[j].paths = audit[j].paths
      /\ \/ audit'[i].doc = audit[i].doc /\ audit'[i].paths = audit[i].paths
         \/ audit'[i].paths /\ Registered(audit'[i].doc)
  <2>1. CASE s = "queued"
    BY <1>1, <1>5, <2>1, RowChanges DEF Shape
  <2>2. CASE s = "done"
    <3>1. PICK d \in JobId :
           /\ Ingest!LookupFinds(c, d) /\ doc' = [doc EXCEPT ![i] = d]
           /\ audit' = [audit EXCEPT ![i] = [status |-> "completed", doc |-> d, paths |-> TRUE]]
      BY <1>5, <2>2
    <3>2. d \in 0..Jobs /\ Registered(d)
      BY <3>1 DEF JobId, Ingest!LookupFinds, Registered
    <3> QED BY <1>1, <3>1, <3>2, RowWritten DEF Shape
  <2> QED BY <2>1, <2>2
<1>7. Shape'
  BY <1>1, <1>3, <1>4, <1>6 DEF Shape, Making
<1>8. ASSUME ingestFaults' = 0 PROVE Sound'
  <2>1. Sound
    BY <1>1, <1>8 DEF IngestInv
  <2>2. Ready'
    BY <1>1, <2>1 DEF Sound, Ready
  <2>3. OwnFiles'
    BY <1>1, <1>2, <1>3, <1>4, <1>6, <2>1 DEF Sound, OwnFiles, Making
  <2>4. \A d \in JobId : Open(d)' => Open(d)
    BY <1>1, <1>3 DEF Open, OpenState
  <2>5. \A d : Registered(d)' => Registered(d)
    BY <1>1 DEF Registered
  <2>6. Fresh'
    BY <1>1, <1>2, <1>3, <1>6, <2>1, <2>4, <2>5 DEF Sound, Fresh
  <2>7. Bare'
    BY <1>1, <1>2, <1>3, <1>6, <2>1, <2>5 DEF Sound, Bare
  <2>8. Removing'
    BY <1>1, <2>1, <2>5 DEF Sound, Removing
  <2> QED BY <2>2, <2>3, <2>6, <2>7, <2>8 DEF Sound
<1> QED BY <1>7, <1>8 DEF IngestInv

LEMMA JobShape ==
  ASSUME Shape, NEW i \in JobId, NEW s \in OpenState \cup OverState, Ingest!Move(i, s), at[i] # "none",
         content' = content, doc' \in [JobId -> 0..Jobs],
         \A j \in JobId : j # i => doc'[j] = doc[j], s \in Making => doc'[i] \in JobId,
         audit' = audit \/ \E t : Ingest!Row(i, t), registry' \subseteq JobId \X Content,
         chunks' \in [JobId -> Content \cup {None}], vectors' \in [JobId -> Content \cup {None}],
         del' = del, ingestFaults' \in Nat
  PROVE  Shape'
<1>1. at' \in [JobId -> OpenState \cup OverState] /\ at'[i] = s /\ \A j \in JobId : j # i => at'[j] = at[j]
  BY JobMoves
<1>2. /\ DOMAIN audit' = JobId
      /\ \A j \in JobId : DOMAIN audit'[j] = {"status", "doc", "paths"} /\ audit'[j].doc \in 0..Jobs
  BY RowChanges DEF Shape
<1>3. \A j \in JobId : /\ at'[j] # "none" => content'[j] \in Content
                       /\ at'[j] \in Making => doc'[j] \in JobId
  BY <1>1 DEF Shape
<1> QED BY <1>1, <1>2, <1>3 DEF Shape

\* A step of a job that registers nothing: a document it now has was in the registry, or it had it.
LEMMA JobKeeps ==
  ASSUME Shape, Sound, NEW i \in JobId, NEW s \in OpenState \cup OverState, Ingest!Move(i, s),
         s \in OpenState => Open(i),
         audit' = audit \/ \E t : Ingest!Row(i, t), registry' \subseteq registry, del' = del,
         \A j \in JobId : j # i => doc'[j] = doc[j],
         s \in {"completed", "known", "bare"} =>
           Registered(doc'[i]) \/ (at[i] \in {"completed", "known", "bare"} /\ doc'[i] = doc[i]),
         s = "bare" => ~Registered(doc'[i])
  PROVE  /\ at'[i] = s /\ \A j \in JobId : j # i => at'[j] = at[j]
         /\ Fresh' /\ Bare' /\ \A d : Registered(d)' => Registered(d)
<1>1. at'[i] = s /\ \A j \in JobId : j # i => at'[j] = at[j]
  BY JobMoves
<1>2. \A j \in JobId : audit'[j].doc = audit[j].doc /\ (audit'[j].paths = audit[j].paths)
  BY RowChanges
<1>3. \A d : Registered(d)' => Registered(d)
  BY DEF Registered
<1>4. ASSUME NEW d \in JobId, Open(d)' PROVE Open(d)
  BY <1>1, <1>4 DEF Open
<1>5. Fresh'
  <2>1. ASSUME NEW d \in JobId, Open(d)'
        PROVE  /\ ~Registered(d)' /\ del'.doc # d
               /\ \A j \in JobId : audit'[j].doc # d
                                   /\ (at'[j] \in {"completed", "known", "bare"} => doc'[j] # d)
    <3>1. /\ ~Registered(d) /\ del.doc # d
          /\ \A j \in JobId : audit[j].doc # d /\ (at[j] \in {"completed", "known", "bare"} => doc[j] # d)
      BY <1>4, <2>1 DEF Sound, Fresh
    <3> QED BY <1>1, <1>2, <1>3, <3>1
  <2> QED BY <2>1 DEF Fresh
<1>6. Bare'
  BY <1>1, <1>2, <1>3 DEF Sound, Bare
<1> QED BY <1>1, <1>3, <1>5, <1>6

LEMMA PickUpInv ==
  ASSUME IngestInv, NEW i \in JobId, Ingest!PickUp(i)
  PROVE  IngestInv'
<1>1. Shape /\ at[i] = "queued" /\ Ingest!Move(i, "running") /\ Ingest!Row(i, "running")
      /\ UNCHANGED <<content, doc, registry, chunks, vectors, del, ingestFaults>>
  BY DEF IngestInv, Ingest!PickUp
<1>2. Shape'
  BY <1>1, JobShape DEF Shape, OpenState, Making
<1>3. ASSUME ingestFaults' = 0 PROVE Sound'
  <2>1. Sound
    BY <1>1, <1>3 DEF IngestInv
  <2>2. /\ at'[i] = "running" /\ \A j \in JobId : j # i => at'[j] = at[j]
        /\ Fresh' /\ Bare' /\ \A d : Registered(d)' => Registered(d)
    BY <1>1, <2>1, JobKeeps DEF OpenState, Open
  <2>3. OwnFiles'
    BY <1>1, <2>1, <2>2 DEF Sound, OwnFiles, Making
  <2>4. Ready' /\ Removing'
    BY <1>1, <2>1, <2>2 DEF Sound, Ready, Removing
  <2> QED BY <2>2, <2>3, <2>4 DEF Sound
<1> QED BY <1>2, <1>3 DEF IngestInv

LEMMA LookupTextInv ==
  ASSUME IngestInv, NEW i \in JobId, Ingest!LookupText(i)
  PROVE  IngestInv'
<1>1. Shape /\ at[i] = "running" /\ UNCHANGED <<content, chunks, vectors, del>>
  BY DEF IngestInv, Ingest!LookupText
<1>2. /\ doc' \in [JobId -> 0..Jobs] /\ \A j \in JobId : j # i => doc'[j] = doc[j]
      /\ registry' \subseteq registry
      /\ ingestFaults' \in Nat /\ (ingestFaults' = 0 => ingestFaults = 0)
      /\ \/ /\ Ingest!Move(i, "named") /\ (ingestFaults' = 0 => doc'[i] = i) /\ audit' = audit
            /\ doc'[i] \in JobId
         \/ Ingest!Move(i, "completed") /\ Registered(doc'[i]) /\ Ingest!Row(i, "completed")
  <2>1. CASE /\ Ingest!LookupMisses(content[i]) /\ Ingest!Name(i) /\ Ingest!Move(i, "named")
             /\ UNCHANGED audit
    <3>1. PICK j \in JobId : /\ doc' = [doc EXCEPT ![i] = j]
                         /\ \/ j = i /\ UNCHANGED ingestFaults
                            \/ ingestFaults' = ingestFaults + 1
      BY <2>1, NamesAgree DEF Ingest!Name
    <3>2. j \in 0..Jobs
      BY DEF JobId
    <3> QED BY <1>1, <2>1, <3>1, <3>2, LookupsRemove DEF Shape
  <2>2. CASE \E d \in JobId : /\ Ingest!LookupFinds(content[i], d) /\ doc' = [doc EXCEPT ![i] = d]
                              /\ Ingest!Move(i, "completed") /\ Ingest!Row(i, "completed")
                              /\ UNCHANGED ingestFaults
    <3>1. PICK d \in JobId : /\ Ingest!LookupFinds(content[i], d) /\ doc' = [doc EXCEPT ![i] = d]
      BY <2>2
    <3>2. d \in 0..Jobs /\ Registered(d)
      <4>1. content[i] \in Content
        BY <1>1 DEF Shape
      <4>2. <<d, content[i]>> \in registry
        BY <3>1 DEF Ingest!LookupFinds
      <4> QED BY <4>1, <4>2 DEF JobId, Registered
    <3>3. registry' \subseteq registry
      BY <3>1, LookupsRemove
    <3> QED BY <1>1, <2>2, <3>1, <3>2, <3>3 DEF Shape
  <2> QED BY <2>1, <2>2, NamesAgree DEF Ingest!LookupText
<1>3. PICK s \in {"named", "completed"} :
        /\ Ingest!Move(i, s) /\ (audit' = audit \/ Ingest!Row(i, "completed"))
        /\ s = "named" => (ingestFaults' = 0 => doc'[i] = i) /\ doc'[i] \in JobId
        /\ s = "completed" => Registered(doc'[i])
  BY <1>2
<1>4. Shape'
  BY <1>1, <1>2, <1>3, JobShape DEF Shape, OpenState, OverState, Making
<1>5. ASSUME ingestFaults' = 0 PROVE Sound'
  <2>1. Sound
    BY <1>1, <1>2, <1>5 DEF IngestInv
  <2>2. /\ at'[i] = s /\ \A j \in JobId : j # i => at'[j] = at[j]
        /\ Fresh' /\ Bare' /\ \A d : Registered(d)' => Registered(d)
    BY <1>1, <1>2, <1>3, <2>1, JobKeeps DEF OpenState, OverState, Open, Making
  <2>3. OwnFiles'
    BY <1>1, <1>2, <1>3, <1>5, <2>1, <2>2 DEF Sound, OwnFiles, Making
  <2>4. Ready' /\ Removing'
    BY <1>1, <1>2, <2>1, <2>2 DEF Sound, Ready, Removing
  <2> QED BY <2>2, <2>3, <2>4 DEF Sound
<1> QED BY <1>4, <1>5 DEF IngestInv

\* A document's files are written by the job that makes it, and are nobody else's.
LEMMA OwnDocument ==
  ASSUME Shape, Sound, NEW i \in JobId, at[i] \in Making
  PROVE  /\ doc[i] = i /\ ~Registered(i) /\ del.doc # i
         /\ \A j \in JobId : audit[j].doc # i /\ (at[j] \in {"completed", "known", "bare"} => doc[j] # i)
         /\ \A e \in registry : e[1] # i
<1>1. doc[i] = i /\ Open(i)
  BY DEF Sound, OwnFiles, Open, OpenState
<1>2. ~Registered(i)
  BY <1>1 DEF Sound, Fresh
<1>3. ASSUME NEW e \in registry PROVE e[1] # i
  <2>1. PICK d \in JobId, c \in Content : e = <<d, c>>
    BY DEF Shape
  <2> QED BY <1>2, <2>1 DEF Registered
<1> QED BY <1>1, <1>2, <1>3 DEF Sound, Fresh

LEMMA WriteInv ==
  ASSUME IngestInv, NEW i \in JobId, Ingest!WriteChunks(i) \/ Ingest!BuildVectorStore(i)
  PROVE  IngestInv'
<1>1. Shape /\ UNCHANGED <<content, doc, audit, registry, del, ingestFaults>>
  BY DEF IngestInv, Ingest!WriteChunks, Ingest!BuildVectorStore
<1>2. PICK s \in {"chunked", "embedded"} :
        /\ Ingest!Move(i, s)
        /\ s = "chunked" => /\ at[i] = "named" /\ chunks' = [chunks EXCEPT ![doc[i]] = content[i]]
                            /\ vectors' = vectors
        /\ s = "embedded" => /\ at[i] = "chunked" /\ vectors' = [vectors EXCEPT ![doc[i]] = content[i]]
                             /\ chunks' = chunks
  BY DEF Ingest!WriteChunks, Ingest!BuildVectorStore
<1>3. at[i] \in {"named", "chunked"} /\ content[i] \in Content
  BY <1>1, <1>2 DEF Shape
<1>4. /\ chunks' \in [JobId -> Content \cup {None}] /\ vectors' \in [JobId -> Content \cup {None}]
  BY <1>1, <1>2, <1>3 DEF Shape
<1>5. Shape'
  BY <1>1, <1>2, <1>3, <1>4, JobShape DEF Shape, OpenState, Making
<1>6. ASSUME ingestFaults' = 0 PROVE Sound'
  <2>1. Sound
    BY <1>1, <1>6 DEF IngestInv
  <2>2. /\ at'[i] = s /\ \A j \in JobId : j # i => at'[j] = at[j]
        /\ Fresh' /\ Bare' /\ \A d : Registered(d)' => Registered(d)
    BY <1>1, <1>2, <1>3, <2>1, JobKeeps DEF OpenState, Open, Making
  <2>3. doc[i] = i /\ ~Registered(i) /\ del.doc # i /\ \A e \in registry : e[1] # i
    BY <1>1, <1>3, <2>1, OwnDocument DEF Making
  <2>4. /\ \A j \in JobId : j # i => chunks'[j] = chunks[j] /\ vectors'[j] = vectors[j]
        /\ s = "chunked" => chunks'[i] = content[i]
        /\ s = "embedded" => chunks'[i] = chunks[i] /\ vectors'[i] = content[i]
    BY <1>1, <1>2, <2>3 DEF Shape
  <2>5. OwnFiles'
    <3>1. ASSUME NEW j \in JobId, j # i
          PROVE  /\ at'[j] \in Making => doc'[j] = j
                 /\ at'[j] \in Making \ {"named"} => chunks'[j] = content'[j]
                 /\ at'[j] \in Making \ {"named", "chunked"} => vectors'[j] = content'[j]
      BY <1>1, <2>1, <2>2, <2>4, <3>1 DEF Sound, OwnFiles
    <3>2. /\ doc'[i] = i /\ chunks'[i] = content'[i]
          /\ s = "embedded" => vectors'[i] = content'[i]
      <4>1. s = "embedded" => chunks[i] = content[i]
        BY <1>2, <2>1 DEF Sound, OwnFiles, Making
      <4> QED BY <1>1, <1>2, <2>3, <2>4, <4>1
    <3> QED BY <1>2, <2>2, <3>1, <3>2 DEF OwnFiles, Making
  <2>6. Ready'
    <3>1. ASSUME NEW e \in registry, e[1] # del.doc PROVE chunks'[e[1]] = e[2] /\ vectors'[e[1]] = e[2]
      <4>1. e[1] \in JobId /\ e[2] \in Content
        BY <1>1 DEF Shape
      <4>2. e[1] # i
        BY <2>3, <4>1
      <4> QED BY <2>1, <2>4, <3>1, <4>1, <4>2 DEF Sound, Ready
    <3> QED BY <1>1, <3>1 DEF Ready
  <2>7. Removing'
    BY <1>1, <2>1, <2>2, <2>3, <2>4 DEF Sound, Removing
  <2> QED BY <2>2, <2>5, <2>6, <2>7 DEF Sound
<1> QED BY <1>5, <1>6 DEF IngestInv

\* The marker is of no other part of the state.
LEMMA ManifestInv ==
  ASSUME IngestInv, NEW i \in JobId, Ingest!WriteManifest(i) \/ Ingest!ReplaceManifest(i)
  PROVE  IngestInv'
<1>1. Shape /\ UNCHANGED <<content, doc, audit, registry, chunks, vectors, del, ingestFaults>>
  BY DEF IngestInv, Ingest!WriteManifest, Ingest!ReplaceManifest
<1>2. PICK s \in {"written", "built"} : Ingest!Move(i, s) /\ at[i] \in {"embedded", "written"}
  BY DEF Ingest!WriteManifest, Ingest!ReplaceManifest
<1>3. Shape'
  BY <1>1, <1>2, JobShape DEF Shape, OpenState, Making
<1>4. ASSUME ingestFaults' = 0 PROVE Sound'
  <2>1. Sound
    BY <1>1, <1>4 DEF IngestInv
  <2>2. /\ at'[i] = s /\ \A j \in JobId : j # i => at'[j] = at[j]
        /\ Fresh' /\ Bare' /\ \A d : Registered(d)' => Registered(d)
    BY <1>1, <1>2, <2>1, JobKeeps DEF OpenState, Open, Making
  <2>3. OwnFiles'
    BY <1>1, <1>2, <2>1, <2>2 DEF Sound, OwnFiles, Making
  <2>4. Ready' /\ Removing'
    BY <1>1, <2>1, <2>2 DEF Sound, Ready, Removing
  <2> QED BY <2>2, <2>3, <2>4 DEF Sound
<1> QED BY <1>3, <1>4 DEF IngestInv

LEMMA FailJobInv ==
  ASSUME IngestInv, NEW i \in JobId, Ingest!FailJob(i)
  PROVE  IngestInv'
<1>1. /\ Shape /\ UNCHANGED <<content, doc, registry, chunks, vectors, del>>
      /\ Ingest!Move(i, "failed") /\ Ingest!Row(i, "failed")
  BY DEF IngestInv, Ingest!FailJob
<1>2. ingestFaults' \in Nat /\ (ingestFaults' = 0 => ingestFaults = 0) /\ at[i] # "none"
  BY <1>1 DEF Ingest!FailJob, Shape, Ingest!Running
<1>3. Shape'
  BY <1>1, <1>2, JobShape DEF Shape, OverState, Making
<1>4. ASSUME ingestFaults' = 0 PROVE Sound'
  <2>1. Sound
    BY <1>2, <1>4 DEF IngestInv
  <2>2. /\ at'[i] = "failed" /\ \A j \in JobId : j # i => at'[j] = at[j]
        /\ Fresh' /\ Bare' /\ \A d : Registered(d)' => Registered(d)
    BY <1>1, <2>1, JobKeeps DEF OpenState, OverState, Making
  <2>3. OwnFiles'
    BY <1>1, <2>1, <2>2 DEF Sound, OwnFiles, Making
  <2>4. Ready' /\ Removing'
    BY <1>1, <2>1, <2>2 DEF Sound, Ready, Removing
  <2> QED BY <2>2, <2>3, <2>4 DEF Sound
<1> QED BY <1>3, <1>4 DEF IngestInv



LEMMA RegisterInv ==
  ASSUME IngestInv, NEW i \in JobId, Ingest!Register(i)
  PROVE  IngestInv'
<1>1. /\ Shape /\ UNCHANGED <<content, doc, chunks, vectors, del, ingestFaults>> /\ at[i] = "built"
      /\ Ingest!Move(i, "completed") /\ Ingest!Row(i, "completed")
      /\ registry' = {e \in registry : e[1] # doc[i]} \cup {<<doc[i], content[i]>>}
  BY DEF IngestInv, Ingest!Register
<1>2. /\ at' \in [JobId -> OpenState \cup OverState]
      /\ at'[i] = "completed" /\ \A j \in JobId : j # i => at'[j] = at[j]
  BY <1>1, JobMoves DEF OverState
<1>3. \A j \in JobId : audit'[j].doc = audit[j].doc /\ (audit'[j].paths = audit[j].paths)
  BY <1>1, RowChanges
<1>4. content[i] \in Content /\ doc[i] \in JobId /\ registry \subseteq JobId \X Content
  BY <1>1 DEF Shape, Making
<1>5. registry' \subseteq JobId \X Content
  BY <1>1, <1>4
<1>6. Shape'
  BY <1>1, <1>5, JobShape DEF Shape, OverState, Making
<1>7. ASSUME ingestFaults' = 0 PROVE Sound'
  <2>1. Sound
    BY <1>1, <1>7 DEF IngestInv
  <2>2. /\ doc[i] = i /\ ~Registered(i) /\ del.doc # i /\ \A e \in registry : e[1] # i
        /\ \A j \in JobId : audit[j].doc # i /\ (at[j] \in {"completed", "known", "bare"} => doc[j] # i)
    BY <1>1, <2>1, OwnDocument DEF Making
  <2>3. \A d \in 0..Jobs : d # i => (Registered(d)' => Registered(d))
    BY <1>1, <2>2 DEF Registered
  <2>4. chunks[i] = content[i] /\ vectors[i] = content[i]
    BY <1>1, <2>1 DEF Sound, OwnFiles, Making
  <2>5. Ready'
    <3>1. ASSUME NEW e \in registry', e[1] # del.doc PROVE chunks[e[1]] = e[2] /\ vectors[e[1]] = e[2]
      <4>1. CASE e \in registry
        BY <2>1, <3>1, <4>1 DEF Sound, Ready
      <4>2. CASE e = <<i, content[i]>>
        BY <2>4, <4>2
      <4> QED BY <1>1, <2>2, <4>1, <4>2
    <3> QED BY <1>1, <3>1 DEF Ready
  <2>6. OwnFiles'
    BY <1>1, <1>2, <2>1 DEF Sound, OwnFiles, Making
  <2>7. Fresh'
    <3>1. ASSUME NEW d \in JobId, Open(d)'
          PROVE  /\ ~Registered(d)' /\ del'.doc # d
                 /\ \A j \in JobId : audit'[j].doc # d
                                     /\ (at'[j] \in {"completed", "known", "bare"} => doc'[j] # d)
      <4>1. d # i /\ Open(d) /\ d \in 0..Jobs
        BY <1>2, <3>1 DEF Open, OpenState, Making, JobId
      <4>2. /\ ~Registered(d) /\ del.doc # d
            /\ \A j \in JobId : audit[j].doc # d /\ (at[j] \in {"completed", "known", "bare"} => doc[j] # d)
        BY <2>1, <4>1 DEF Sound, Fresh
      <4> QED BY <1>1, <1>2, <1>3, <2>2, <2>3, <4>1, <4>2
    <3> QED BY <3>1 DEF Fresh
  <2>8. Bare'
    <3>1. \A j \in JobId : audit[j].doc \in 0..Jobs /\ doc[j] \in 0..Jobs
      BY <1>1 DEF Shape
    <3>2. ASSUME NEW j \in JobId
          PROVE  (/\ at[j] = "bare" => ~Registered(doc[j])
                  /\ audit[j].doc # 0 /\ ~audit[j].paths => ~Registered(audit[j].doc))'
      <4>1. at'[j] = "bare" => at[j] = "bare" /\ doc[j] # i /\ ~Registered(doc[j])
        BY <1>2, <2>1, <2>2 DEF Sound, Bare
      <4>2. audit'[j].doc # 0 /\ ~audit'[j].paths => ~Registered(audit[j].doc) /\ audit[j].doc # i
        BY <1>3, <2>1, <2>2 DEF Sound, Bare
      <4> QED BY <1>1, <1>3, <2>3, <3>1, <4>1, <4>2 DEF Registered
    <3> QED BY <3>2 DEF Bare
  <2>9. Removing'
    <3>1. del.doc \in 0..Jobs
      BY <1>1 DEF Shape
    <3> QED BY <1>1, <2>1, <2>2, <2>3, <3>1 DEF Sound, Removing
  <2> QED BY <2>5, <2>6, <2>7, <2>8, <2>9 DEF Sound
<1> QED BY <1>6, <1>7 DEF IngestInv

LEMMA ReadPathsInv ==
  ASSUME IngestInv, NEW i \in JobId, Ingest!ReadPaths(i)
  PROVE  IngestInv'
<1>1. Shape /\ UNCHANGED <<content, doc, audit, registry, chunks, vectors, del, ingestFaults>>
      /\ at[i] = "completed"
  BY DEF IngestInv, Ingest!ReadPaths
<1>2. PICK s \in {"known", "bare"} : Ingest!Move(i, s) /\ (s = "bare" => ~Registered(doc[i]))
  BY NamesAgree DEF Ingest!ReadPaths
<1>3. Shape'
  BY <1>1, <1>2, JobShape DEF Shape, OverState, Making
<1>4. ASSUME ingestFaults' = 0 PROVE Sound'
  <2>1. Sound
    BY <1>1, <1>4 DEF IngestInv
  <2>2. /\ at'[i] = s /\ \A j \in JobId : j # i => at'[j] = at[j]
        /\ Fresh' /\ Bare' /\ \A d : Registered(d)' => Registered(d)
    BY <1>1, <1>2, <2>1, JobKeeps DEF OverState, OpenState, Making
  <2>3. OwnFiles'
    BY <1>1, <1>2, <2>1, <2>2 DEF Sound, OwnFiles, Making
  <2>4. Ready' /\ Removing'
    BY <1>1, <2>1, <2>2 DEF Sound, Ready, Removing
  <2> QED BY <2>2, <2>3, <2>4 DEF Sound
<1> QED BY <1>3, <1>4 DEF IngestInv

LEMMA RecordInv ==
  ASSUME IngestInv, NEW i \in JobId, Ingest!RecordCompleted(i)
  PROVE  IngestInv'
<1>1. Shape /\ UNCHANGED <<content, doc, registry, chunks, vectors, del, ingestFaults>>
      /\ at[i] \in {"known", "bare"} /\ Ingest!Move(i, "done") /\ doc[i] \in 0..Jobs
  BY DEF IngestInv, Ingest!RecordCompleted, Shape
<1>2. PICK p \in BOOLEAN : p = (at[i] = "known")
  BY Zenon
<1>3. audit' = [audit EXCEPT ![i] = [status |-> "completed", doc |-> doc[i], paths |-> p]]
  BY <1>2, Zenon DEF Ingest!RecordCompleted
<1>4. /\ DOMAIN audit' = JobId
      /\ \A j \in JobId : DOMAIN audit'[j] = {"status", "doc", "paths"}
      /\ audit'[i].doc = doc[i] /\ (audit'[i].paths = p)
      /\ \A j \in JobId : j # i => audit'[j] = audit[j]
  BY <1>1, <1>3, RowWritten
<1>5. /\ at' \in [JobId -> OpenState \cup OverState]
      /\ at'[i] = "done" /\ \A j \in JobId : j # i => at'[j] = at[j]
  BY <1>1, JobMoves DEF OverState
<1>6. Shape'
  BY <1>1, <1>4, <1>5 DEF Shape, Making
<1>7. ASSUME ingestFaults' = 0 PROVE Sound'
  <2>1. Sound
    BY <1>1, <1>7 DEF IngestInv
  <2>2. Ready' /\ Removing' /\ \A d : Registered(d)' <=> Registered(d)
    BY <1>1, <2>1 DEF Sound, Ready, Removing, Registered
  <2>3. OwnFiles'
    BY <1>1, <1>5, <2>1 DEF Sound, OwnFiles, Making
  <2>4. Fresh'
    <3>1. ASSUME NEW d \in JobId, Open(d)'
          PROVE  /\ ~Registered(d)' /\ del'.doc # d
                 /\ \A j \in JobId : audit'[j].doc # d
                                     /\ (at'[j] \in {"completed", "known", "bare"} => doc'[j] # d)
      <4>1. Open(d)
        BY <1>5, <3>1 DEF Open, OpenState, Making
      <4>2. /\ ~Registered(d) /\ del.doc # d
            /\ \A j \in JobId : audit[j].doc # d /\ (at[j] \in {"completed", "known", "bare"} => doc[j] # d)
        BY <2>1, <4>1 DEF Sound, Fresh
      <4> QED BY <1>1, <1>4, <1>5, <2>2, <4>2
    <3> QED BY <3>1 DEF Fresh
  <2>5. Bare'
    <3>1. ~p => ~Registered(doc[i])
      BY <1>1, <1>2, <2>1 DEF Sound, Bare
    <3>2. ASSUME NEW j \in JobId
          PROVE  (/\ at[j] = "bare" => ~Registered(doc[j])
                  /\ audit[j].doc # 0 /\ ~audit[j].paths => ~Registered(audit[j].doc))'
      <4>1. /\ at[j] = "bare" => ~Registered(doc[j])
            /\ audit[j].doc # 0 /\ ~audit[j].paths => ~Registered(audit[j].doc)
        BY <2>1 DEF Sound, Bare
      <4>2. CASE j = i
        BY <1>1, <1>4, <1>5, <3>1, <4>2 DEF Registered
      <4>3. CASE j # i
        BY <1>1, <1>4, <1>5, <4>1, <4>3 DEF Registered
      <4> QED BY <4>2, <4>3
    <3> QED BY <3>2 DEF Bare
  <2> QED BY <2>2, <2>3, <2>4, <2>5 DEF Sound
<1> QED BY <1>6, <1>7 DEF IngestInv

-------------------------------------------------------------------------------
(* Steps of deletions, and restarts *)

LEMMA DeletionShape ==
  ASSUME Shape, UNCHANGED <<at, content, doc>>,
         audit' = audit \/ \E j \in JobId : \E t : Ingest!Row(j, t), registry' \subseteq registry,
         chunks' \in [JobId -> Content \cup {None}], vectors' \in [JobId -> Content \cup {None}],
         DOMAIN del' = {"at", "loop", "doc", "job", "paths", "next", "warned"},
         del'.at \in Stage, del'.doc \in 0..Jobs, del'.job \in 0..Jobs, ingestFaults' \in Nat
  PROVE  Shape'
<1>1. /\ DOMAIN audit' = JobId
      /\ \A j \in JobId : DOMAIN audit'[j] = {"status", "doc", "paths"} /\ audit'[j].doc \in 0..Jobs
  BY RowChanges DEF Shape
<1> QED BY <1>1 DEF Shape

\* Nobody is deleting a document that is being made.
LEMMA DeletionKeeps ==
  ASSUME Shape, Sound, UNCHANGED <<at, content, doc>>,
         audit' = audit \/ \E j \in JobId : \E t : Ingest!Row(j, t), registry' \subseteq registry,
         \A d \in JobId : Open(d) => del'.doc # d
                                     /\ chunks'[d] = chunks[d] /\ vectors'[d] = vectors[d]
  PROVE  OwnFiles' /\ Fresh' /\ Bare' /\ \A d : Registered(d)' => Registered(d)
<1>1. \A j \in JobId : audit'[j].doc = audit[j].doc /\ (audit'[j].paths = audit[j].paths)
  BY RowChanges
<1>2. \A d : Registered(d)' => Registered(d)
  BY DEF Registered
<1>3. OwnFiles'
  BY DEF Sound, OwnFiles, Open, OpenState
<1>4. Fresh'
  <2>1. ASSUME NEW d \in JobId, Open(d)'
        PROVE  /\ ~Registered(d)' /\ del'.doc # d
               /\ \A j \in JobId : audit'[j].doc # d
                                   /\ (at'[j] \in {"completed", "known", "bare"} => doc'[j] # d)
    <3>1. Open(d)
      BY <2>1 DEF Open
    <3> QED BY <1>1, <1>2, <3>1 DEF Sound, Fresh
  <2> QED BY <2>1 DEF Fresh
<1>5. Bare'
  <2>1. ASSUME NEW j \in JobId
        PROVE  (/\ at[j] = "bare" => ~Registered(doc[j])
                /\ audit[j].doc # 0 /\ ~audit[j].paths => ~Registered(audit[j].doc))'
    BY <1>1 DEF Sound, Bare, Registered
  <2> QED BY <2>1 DEF Bare
<1> QED BY <1>2, <1>3, <1>4, <1>5

\* What is found through the registry or a row is no document in the making.
LEMMA DeleteDocumentInv ==
  ASSUME IngestInv, NEW d \in JobId, Ingest!DeleteDocument(d)
  PROVE  IngestInv'
<1>1. /\ Shape /\ del.at = "none"
      /\ UNCHANGED <<at, content, doc, registry, chunks, vectors, ingestFaults>>
  BY DEF IngestInv, Ingest!DeleteDocument
<1>2. PICK i \in 0..Jobs :
        /\ Ingest!Latest(d, i)
        /\ del' = [Ingest!NoDeletion EXCEPT !.at = "files", !.loop = TRUE, !.doc = d, !.job = i,
                                            !.paths = i = 0 \/ audit[i].paths]
        /\ IF i = 0 THEN UNCHANGED audit ELSE Ingest!Row(i, "deleted")
  BY DEF Ingest!DeleteDocument
<1>3. PICK p \in BOOLEAN : p = (i = 0 \/ audit[i].paths)
  BY Zenon
<1>4. del' = [Ingest!NoDeletion EXCEPT !.at = "files", !.loop = TRUE, !.doc = d, !.job = i, !.paths = p]
  BY <1>2, <1>3, Zenon
<1>5. /\ DOMAIN del' = {"at", "loop", "doc", "job", "paths", "next", "warned"}
      /\ del'.at = "files" /\ del'.doc = d /\ del'.job = i /\ (del'.paths = p)
  BY <1>4 DEF Ingest!NoDeletion
<1>6. audit' = audit \/ \E j \in JobId : \E t : Ingest!Row(j, t)
  <2>1. i # 0 => i \in JobId
    BY DEF JobId
  <2> QED BY <1>2, <2>1
<1>7. Shape'
  <2>1. d \in 0..Jobs
    BY DEF JobId
  <2> QED BY <1>1, <1>5, <1>6, <2>1, DeletionShape DEF Shape, Stage
<1>8. ASSUME ingestFaults' = 0 PROVE Sound'
  <2>1. Sound
    BY <1>1, <1>8 DEF IngestInv
  <2>2. PICK k \in 0..Jobs : /\ Ingest!Latest(d, k)
                             /\ Registered(d) \/ (k # 0 /\ audit[k].paths)
    BY NamesAgree DEF Ingest!DeleteDocument, Ingest!Found
  <2>3. k = i
    BY <1>2, <2>2 DEF Ingest!Latest, Ingest!JobId
  <2>4. i # 0 => i \in JobId /\ audit[i].doc = d
    BY <1>2 DEF Ingest!Latest, JobId
  <2>5. ~Open(d)
    BY <2>1, <2>2, <2>3, <2>4 DEF Sound, Fresh
  <2>6. p
    <3>1. d # 0
      BY DEF JobId
    <3> QED BY <1>3, <2>1, <2>2, <2>3, <2>4, <3>1 DEF Sound, Bare
  <2>7. OwnFiles' /\ Fresh' /\ Bare'
    BY <1>1, <1>5, <1>6, <2>1, <2>5, DeletionKeeps
  <2>8. Ready'
    BY <1>1, <2>1 DEF Sound, Ready, Removing, Shape, JobId
  <2>9. Removing'
    BY <1>5, <2>6 DEF Removing
  <2> QED BY <2>7, <2>8, <2>9 DEF Sound
<1> QED BY <1>7, <1>8 DEF IngestInv

LEMMA AdminDeleteInv ==
  ASSUME IngestInv, NEW i \in JobId, Ingest!AdminDeleteUpload(i)
  PROVE  IngestInv'
<1>1. /\ Shape /\ del.at = "none" /\ Ingest!Row(i, "deleted")
      /\ UNCHANGED <<at, content, doc, registry, chunks, vectors, ingestFaults>>
      /\ del' = [Ingest!NoDeletion EXCEPT !.at = "files", !.doc = audit[i].doc, !.job = i,
                                          !.paths = audit[i].paths]
  BY DEF IngestInv, Ingest!AdminDeleteUpload
<1>2. /\ DOMAIN del' = {"at", "loop", "doc", "job", "paths", "next", "warned"}
      /\ del'.at = "files" /\ del'.doc = audit[i].doc /\ del'.job = i /\ ~del'.loop
  BY <1>1 DEF Ingest!NoDeletion
<1>3. Shape'
  <2>1. i \in 0..Jobs /\ audit[i].doc \in 0..Jobs
    BY <1>1 DEF JobId, Shape
  <2> QED BY <1>1, <1>2, <2>1, DeletionShape DEF Shape, Stage
<1>4. ASSUME ingestFaults' = 0 PROVE Sound'
  <2>1. Sound
    BY <1>1, <1>4 DEF IngestInv
  <2>2. \A d \in JobId : Open(d) => del'.doc # d
    BY <1>2, <2>1 DEF Sound, Fresh
  <2>3. OwnFiles' /\ Fresh' /\ Bare'
    BY <1>1, <2>1, <2>2, DeletionKeeps
  <2>4. Ready'
    BY <1>1, <2>1 DEF Sound, Ready, Removing, Shape, JobId
  <2>5. Removing'
    BY <1>2 DEF Removing
  <2> QED BY <2>3, <2>4, <2>5 DEF Sound
<1> QED BY <1>3, <1>4 DEF IngestInv

LEMMA RemoveFilesInv ==
  ASSUME IngestInv, Ingest!RemoveFiles
  PROVE  IngestInv'
<1>1. /\ Shape /\ del.at = "files" /\ UNCHANGED <<at, content, doc, audit, registry>>
      /\ \/ /\ del.doc # 0 /\ del.paths /\ UNCHANGED ingestFaults
            /\ chunks' = [chunks EXCEPT ![del.doc] = None] /\ vectors' = [vectors EXCEPT ![del.doc] = None]
            /\ \E s \in {"marker", "entry"} : Ingest!To(s)
         \/ /\ (del.doc = 0 \/ ~del.paths) /\ UNCHANGED <<chunks, vectors, ingestFaults>>
            /\ Ingest!To("entry")
         \/ /\ ingestFaults' = ingestFaults + 1 /\ UNCHANGED <<chunks, vectors>>
            /\ del' = [del EXCEPT !.at = "entry", !.warned = TRUE]
  BY DEF IngestInv, Ingest!RemoveFiles, Ingest!files
<1>2. /\ DOMAIN del' = {"at", "loop", "doc", "job", "paths", "next", "warned"}
      /\ del'.at \in {"marker", "entry"} /\ del'.doc = del.doc /\ del'.job = del.job
      /\ (del'.loop = del.loop) /\ (del'.paths = del.paths)
  <2>1. ASSUME NEW s \in {"marker", "entry"}, Ingest!To(s) PROVE <1>2
    BY <1>1, <2>1, DeletionMoves DEF Stage
  <2>2. ASSUME del' = [del EXCEPT !.at = "entry", !.warned = TRUE] PROVE <1>2
    BY <1>1, <2>2 DEF Shape
  <2> QED BY <1>1, <2>1, <2>2
<1>3. /\ chunks' \in [JobId -> Content \cup {None}] /\ vectors' \in [JobId -> Content \cup {None}]
      /\ \A d \in JobId : d # del.doc => chunks'[d] = chunks[d] /\ vectors'[d] = vectors[d]
      /\ ingestFaults' \in Nat /\ (ingestFaults' = 0 => ingestFaults = 0)
  BY <1>1 DEF Shape
<1>4. Shape'
  BY <1>1, <1>2, <1>3, DeletionShape DEF Shape, Stage
<1>5. ASSUME ingestFaults' = 0 PROVE Sound'
  <2>1. Sound
    BY <1>3, <1>5 DEF IngestInv
  <2>2. \A d \in JobId : Open(d) => d # del.doc
    BY <2>1 DEF Sound, Fresh
  <2>3. OwnFiles' /\ Fresh' /\ Bare'
    BY <1>1, <1>2, <1>3, <2>1, <2>2, DeletionKeeps
  <2>4. Ready'
    BY <1>1, <1>2, <1>3, <2>1 DEF Sound, Ready, Shape
  <2>5. del.loop => chunks'[del.doc] = None /\ vectors'[del.doc] = None
    <3>1. del.loop => del.doc \in JobId /\ del.paths
      BY <1>1, <2>1 DEF Sound, Removing
    <3>2. ingestFaults' # ingestFaults + 1
      BY <1>1, <1>5 DEF Shape
    <3>3. ASSUME del.loop
          PROVE  chunks' = [chunks EXCEPT ![del.doc] = None] /\ vectors' = [vectors EXCEPT ![del.doc] = None]
      <4>1. del.doc # 0 /\ del.paths
        BY <3>1, <3>3 DEF JobId
      <4> QED BY <1>1, <3>2, <4>1
    <3> QED BY <1>1, <3>1, <3>3 DEF Shape
  <2>6. Removing'
    BY <1>2, <2>1, <2>5 DEF Sound, Removing
  <2> QED BY <2>3, <2>4, <2>6 DEF Sound
<1> QED BY <1>4, <1>5 DEF IngestInv

\* The marker, the entry and the end of the row follow.
LEMMA RemainingInv ==
  ASSUME IngestInv, Ingest!ReadMarker \/ Ingest!RepairMarker \/ Ingest!RemoveEntry
  PROVE  IngestInv'
<1>1. /\ Shape /\ UNCHANGED <<at, content, doc, audit, chunks, vectors, ingestFaults>>
      /\ del.at \in {"marker", "repair", "entry"} /\ registry' \subseteq registry
  BY DEF IngestInv, Ingest!ReadMarker, Ingest!RepairMarker, Ingest!RemoveEntry
<1>2. \/ \E s \in {"entry", "cleanup"} : Ingest!To(s)
      \/ \E d : del' = [del EXCEPT !.at = "repair", !.next = d]
  BY DEF Ingest!ReadMarker, Ingest!RepairMarker, Ingest!RemoveEntry
<1>3. /\ DOMAIN del' = {"at", "loop", "doc", "job", "paths", "next", "warned"}
      /\ del'.at \in {"repair", "entry", "cleanup"} /\ del'.doc = del.doc /\ del'.job = del.job
      /\ (del'.loop = del.loop) /\ (del'.paths = del.paths)
  <2>1. ASSUME NEW s \in {"entry", "cleanup"}, Ingest!To(s) PROVE <1>3
    BY <1>1, <2>1, DeletionMoves DEF Stage
  <2>2. ASSUME NEW d, del' = [del EXCEPT !.at = "repair", !.next = d] PROVE <1>3
    BY <1>1, <2>2 DEF Shape
  <2> QED BY <1>2, <2>1, <2>2
<1>4. del'.at = "cleanup" => ~Registered(del.doc)'
  <2>1. Ingest!ReadMarker \/ Ingest!RepairMarker => del'.at # "cleanup"
    <3>1. ASSUME Ingest!To("entry") PROVE del'.at = "entry"
      BY <1>1, <3>1, DeletionMoves DEF Stage
    <3>2. ASSUME NEW d, del' = [del EXCEPT !.at = "repair", !.next = d] PROVE del'.at = "repair"
      BY <1>1, <3>2 DEF Shape
    <3> QED BY <3>1, <3>2 DEF Ingest!ReadMarker, Ingest!RepairMarker
  <2>2. ASSUME Ingest!RemoveEntry PROVE ~Registered(del.doc)'
    <3>1. registry' = {e \in registry : e[1] # del.doc}
      BY <2>2 DEF Ingest!RemoveEntry
    <3> QED BY <1>3, <3>1 DEF Registered
  <2> QED BY <2>1, <2>2
<1>5. Shape'
  BY <1>1, <1>3, DeletionShape DEF Shape, Stage
<1>6. ASSUME ingestFaults' = 0 PROVE Sound'
  <2>1. Sound
    BY <1>1, <1>6 DEF IngestInv
  <2>2. OwnFiles' /\ Fresh' /\ Bare'
    BY <1>1, <1>3, <2>1, DeletionKeeps DEF Sound, Fresh
  <2>3. Ready'
    BY <1>1, <1>3, <2>1 DEF Sound, Ready
  <2>4. Removing'
    BY <1>1, <1>3, <1>4, <2>1 DEF Sound, Removing
  <2> QED BY <2>2, <2>3, <2>4 DEF Sound
<1> QED BY <1>5, <1>6 DEF IngestInv

LEMMA CleanupInv ==
  ASSUME IngestInv, Ingest!RecordCleanup
  PROVE  IngestInv'
<1>1. /\ Shape /\ UNCHANGED <<at, content, doc, registry, chunks, vectors, ingestFaults>>
      /\ del.at = "cleanup" /\ del' = Ingest!NoDeletion
      /\ del.job \in 0..Jobs
      /\ IF del.job = 0 THEN UNCHANGED audit
         ELSE \E t : Ingest!Row(del.job, t)
  BY DEF IngestInv, Ingest!RecordCleanup, Shape
<1>2. /\ DOMAIN del' = {"at", "loop", "doc", "job", "paths", "next", "warned"}
      /\ del'.at = "none" /\ del'.doc = 0 /\ del'.job = 0 /\ ~del'.loop
  BY <1>1 DEF Ingest!NoDeletion
<1>3. audit' = audit \/ \E j \in JobId : \E t : Ingest!Row(j, t)
  <2>1. del.job # 0 => del.job \in JobId
    BY <1>1 DEF JobId
  <2> QED BY <1>1, <2>1
<1>4. Shape'
  <2>1. 0 \in 0..Jobs
    BY WorkspaceConstants DEF Ingest!IngestionAssumption
  <2> QED BY <1>1, <1>2, <1>3, <2>1, DeletionShape DEF Shape, Stage
<1>5. ASSUME ingestFaults' = 0 PROVE Sound'
  <2>1. Sound
    BY <1>1, <1>5 DEF IngestInv
  <2>2. OwnFiles' /\ Fresh' /\ Bare'
    BY <1>1, <1>2, <1>3, <2>1, DeletionKeeps DEF JobId
  <2>3. Ready'
    <3>1. ASSUME NEW e \in registry PROVE e[1] # del.doc
      <4>1. ~Registered(del.doc)
        BY <1>1, <2>1 DEF Sound, Removing
      <4>2. PICK d \in JobId, c \in Content : e = <<d, c>>
        BY <1>1 DEF Shape
      <4> QED BY <4>1, <4>2 DEF Registered
    <3> QED BY <1>1, <2>1, <3>1 DEF Sound, Ready
  <2>4. Removing'
    BY <1>2 DEF Removing
  <2> QED BY <2>2, <2>3, <2>4 DEF Sound
<1> QED BY <1>4, <1>5 DEF IngestInv

LEMMA RestartInv ==
  ASSUME IngestInv, Ingest!Restart
  PROVE  IngestInv'
<1>1. /\ Shape /\ UNCHANGED <<content, doc, audit, registry, chunks, vectors>>
      /\ at' = [i \in JobId |-> IF at[i] = "none" THEN "none" ELSE "gone"]
      /\ del' = Ingest!NoDeletion /\ ingestFaults' = ingestFaults + 1
  BY NamesAgree DEF IngestInv, Ingest!Restart
<1>2. /\ DOMAIN del' = {"at", "loop", "doc", "job", "paths", "next", "warned"}
      /\ del'.at = "none" /\ del'.doc = 0 /\ del'.job = 0
  BY <1>1 DEF Ingest!NoDeletion
<1>3. /\ at' \in [JobId -> OpenState \cup OverState]
      /\ \A i \in JobId : at'[i] \notin Making /\ (at'[i] # "none" => at[i] # "none")
  BY <1>1 DEF OpenState, OverState, Making
<1>4. 0 \in 0..Jobs
  BY WorkspaceConstants DEF Ingest!IngestionAssumption
<1>5. Shape'
  BY <1>1, <1>2, <1>3, <1>4 DEF Shape, Stage
<1> QED BY <1>1, <1>5 DEF IngestInv, Shape

-------------------------------------------------------------------------------
(* Theorems *)

LEMMA IngestStep ==
  ASSUME IngestInv, [WorkspaceNext]_<<part, vars, ingestVars, routeVars>>
  PROVE  IngestInv'
<1>1. CASE Ingest!Next
  <2>1. ASSUME NEW i \in JobId, Ingest!JobStep(i) PROVE IngestInv'
    BY <2>1, PickUpInv, LookupTextInv, WriteInv, ManifestInv, RegisterInv, ReadPathsInv, RecordInv,
       FailJobInv DEF Ingest!JobStep
  <2>2. ASSUME Ingest!DeletionStep PROVE IngestInv'
    BY <2>2, RemoveFilesInv, RemainingInv, CleanupInv DEF Ingest!DeletionStep
  <2> QED BY <1>1, <2>1, <2>2, NamesAgree, StartInv, AdminDeleteInv, DeleteDocumentInv, RestartInv
          DEF Ingest!Next
<1>2. CASE UNCHANGED ingestVars
  BY <1>2 DEF ingestVars, IngestInv, Shape, Sound, Ready, OwnFiles, Fresh, Bare, Removing, Registered, Open
<1> QED BY <1>1, <1>2 DEF WorkspaceNext, Rest

LEMMA Invariance == WorkspaceSpec => []IngestInv
<1>1. WorkspaceInit => IngestInv
  BY InitInv DEF WorkspaceInit
<1> QED BY <1>1, IngestStep, PTL DEF WorkspaceSpec

\* Without faults, an entry of the registry has the files of its content, unless it is being deleted:
\* what document_registry.lookup and get_entry offer can be read, for any number of concurrent uploads.
THEOREM RegisteredDocumentsAreReady == WorkspaceSpec => []RegisteredIsReady
<1>1. IngestInv => RegisteredIsReady
  BY DEF IngestInv, Sound, Ready, RegisteredIsReady, Ingest!RegisteredIsReady
<1> QED BY <1>1, Invariance, PTL

\* Without faults, when its owner's deletion comes to its end nothing of a document is left, whatever
\* jobs did meanwhile: delete_document passes on the paths of everything it can find.
THEOREM DeletionsAreComplete == WorkspaceSpec => DeletedIsGone
<1>1. IngestInv => [del.at = "cleanup" /\ del.loop /\ ingestFaults = 0 =>
                      /\ ~Ingest!Registered(del.doc)
                      /\ chunks[del.doc] = None /\ vectors[del.doc] = None]_ingestVars
  BY NamesAgree DEF IngestInv, Sound, Removing
<1> QED BY <1>1, Invariance, PTL DEF DeletedIsGone, Ingest!DeletedIsGone, Ingest!vars, ingestVars

===============================================================================
