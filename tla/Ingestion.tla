------------------------------- MODULE Ingestion ------------------------------
(***************************************************************************)
(* Uploads: the job queue, the document registry, the artefact files, the  *)
(* marker of the active vector store, and the upload audit                 *)
(* (ingestion_jobs.py, pipeline_runtime.py, document_registry.py,          *)
(* rag/vector_store.py, admin_audit.py).                                   *)
(*                                                                         *)
(* Routes run on the event loop, one at a time; jobs run on worker         *)
(* threads and a deletion asked for by an administrator on a thread of its *)
(* own. What the threads share are files, the registry and the audit rows. *)
(***************************************************************************)
EXTENDS Integers, FiniteSets

CONSTANTS
  Jobs,      \* uploads 1..Jobs, in the order they arrive
  Content,   \* what is uploaded; equal contents of one owner are duplicates
  None,
  MaxQueued, \* INGESTION_MAX_QUEUED_JOBS
  Workers,   \* INGESTION_JOB_MAX_WORKERS
  Faults     \* bound: failed steps, restarts, equal names

IngestionAssumption ==
  /\ {Jobs, MaxQueued, Workers} \subseteq Nat \ {0} /\ Faults \in Nat
  /\ None \notin Content

JobId == 1..Jobs
DocId == JobId \* a document is named by the job that makes it

VARIABLES
  at,        \* where a job is
  content,   \* of a job
  doc,       \* the document of a job, 0 for none
  audit,     \* upload_audit, a row per job: status, document, whether its paths are known
  registry,  \* documents with their contents
  chunks,    \* chunk files by document: whose content, None if missing
  vectors,   \* vector store directories by document
  tmp,       \* the temporary file of the marker: a document, 0 if missing
  marker,    \* the active vector store, 0 if there is no marker file
  del,       \* the deletion under way
  faults

jobVars == <<at, content, doc>>
files == <<chunks, vectors>>
vars == <<at, content, doc, audit, registry, chunks, vectors, tmp, marker, del, faults>>

\* In memory a job is queued, running or finished; a restart loses all of them.
Running == {"running", "named", "chunked", "embedded", "written", "built"}
Ended == {"completed", "known", "bare", "done", "failed"}
NoDeletion == [at |-> "none", loop |-> FALSE, doc |-> 0, job |-> 0, paths |-> FALSE, next |-> 0, warned |-> FALSE]
NoRow == [status |-> "none", doc |-> 0, paths |-> FALSE]

TypeOK ==
  /\ at \in [JobId -> {"none", "queued", "gone"} \cup Running \cup Ended]
  /\ content \in [JobId -> Content \cup {None}] /\ doc \in [JobId -> 0..Jobs]
  /\ audit \in [JobId -> [status: {"none", "queued", "running", "completed", "failed", "deleted", "warned"},
                        doc: 0..Jobs, paths: BOOLEAN]]
  /\ registry \subseteq DocId \X Content
  /\ chunks \in [DocId -> Content \cup {None}] /\ vectors \in [DocId -> Content \cup {None}]
  /\ tmp \in 0..Jobs /\ marker \in 0..Jobs /\ faults \in 0..Faults
  /\ del \in [at: {"none", "files", "marker", "repair", "entry", "cleanup"}, loop: BOOLEAN, doc: 0..Jobs,
              job: 0..Jobs, paths: BOOLEAN, next: 0..Jobs, warned: BOOLEAN]

Init ==
  /\ at = [i \in JobId |-> "none"] /\ content = [i \in JobId |-> None] /\ doc = [i \in JobId |-> 0]
  /\ audit = [i \in JobId |-> NoRow] /\ registry = {}
  /\ chunks = [d \in DocId |-> None] /\ vectors = [d \in DocId |-> None]
  /\ tmp = 0 /\ marker = 0 /\ del = NoDeletion /\ faults = 0

Fault == faults < Faults /\ faults' = faults + 1

-------------------------------------------------------------------------------
(* The registry *)

ValidPaths(d) == chunks[d] # None /\ vectors[d] # None
Registered(d) == \E c \in Content : <<d, c>> \in registry

\* Entries whose files are missing are removed by the lookup that meets them.
Missing(c) == {e \in registry : e[2] = c /\ ~ValidPaths(e[1])}
LookupMisses(c) ==
  /\ \A e \in registry : e[2] = c => ~ValidPaths(e[1])
  /\ registry' = registry \ Missing(c)
LookupFinds(c, d) ==
  /\ <<d, c>> \in registry /\ ValidPaths(d)
  /\ \E met \in SUBSET Missing(c) : registry' = registry \ met

-------------------------------------------------------------------------------
(* Starting a job, on the event loop *)

QueueOpen == Cardinality({i \in JobId : at[i] \in {"queued"} \cup Running}) < MaxQueued

Move(i, s) == at' = [at EXCEPT ![i] = s]
Row(i, s) == audit' = [audit EXCEPT ![i].status = s]

\* No other route is half-way. A duplicate completes at once; anything else is handed to the workers.
StartIngestionJob(i, c) ==
  /\ ~del.loop /\ \A j \in JobId : j < i <=> at[j] # "none"
  /\ QueueOpen
  /\ content' = [content EXCEPT ![i] = c]
  /\ \/ LookupMisses(c) /\ Move(i, "queued") /\ Row(i, "queued") /\ UNCHANGED doc
     \/ \E d \in DocId :
          /\ LookupFinds(c, d) /\ Move(i, "done") /\ doc' = [doc EXCEPT ![i] = d]
          /\ audit' = [audit EXCEPT ![i] = [status |-> "completed", doc |-> d, paths |-> TRUE]]
  /\ UNCHANGED <<chunks, vectors, tmp, marker, del, faults>>

-------------------------------------------------------------------------------
(* A job on its worker thread: ingest_uploaded_document *)

PickUp(i) ==
  /\ at[i] = "queued" /\ \A j \in JobId : at[j] = "queued" => i <= j
  /\ Cardinality({j \in JobId : at[j] \in Running}) < Workers
  /\ Move(i, "running") /\ Row(i, "running")
  /\ UNCHANGED <<content, doc, registry, chunks, vectors, tmp, marker, del, faults>>

\* The document is named by title and second: two jobs may come to the same name.
Name(i) ==
  \/ doc' = [doc EXCEPT ![i] = i] /\ UNCHANGED faults
  \/ \E j \in JobId : j # i /\ at[j] \in Running /\ doc[j] = j
       /\ faults < Faults /\ faults' = faults + 1 /\ doc' = [doc EXCEPT ![i] = j]

LookupText(i) ==
  /\ at[i] = "running"
  /\ \/ LookupMisses(content[i]) /\ Name(i) /\ Move(i, "named") /\ UNCHANGED audit
     \/ \E d \in DocId : LookupFinds(content[i], d) /\ doc' = [doc EXCEPT ![i] = d]
          /\ Move(i, "completed") /\ Row(i, "completed") /\ UNCHANGED faults
  /\ UNCHANGED <<content, chunks, vectors, tmp, marker, del>>

\* Mutant: the document is registered as soon as its chunks are written.
WriteChunksRegistered(i) ==
  /\ at[i] = "named" /\ Move(i, "chunked")
  /\ chunks' = [chunks EXCEPT ![doc[i]] = content[i]]
  /\ registry' = registry \cup {<<doc[i], content[i]>>}
  /\ UNCHANGED <<content, doc, audit, vectors, tmp, marker, del, faults>>

WriteChunks(i) ==
  /\ at[i] = "named" /\ Move(i, "chunked")
  /\ chunks' = [chunks EXCEPT ![doc[i]] = content[i]]
  /\ UNCHANGED <<content, doc, audit, registry, vectors, tmp, marker, del, faults>>

BuildVectorStore(i) ==
  /\ at[i] = "chunked" /\ Move(i, "embedded")
  /\ vectors' = [vectors EXCEPT ![doc[i]] = content[i]]
  /\ UNCHANGED <<content, doc, audit, registry, chunks, tmp, marker, del, faults>>

\* The threads of a process write the marker through one temporary file.
WriteManifest(i) ==
  /\ at[i] = "embedded" /\ Move(i, "written") /\ tmp' = doc[i]
  /\ UNCHANGED <<content, doc, audit, registry, chunks, vectors, marker, del, faults>>

ReplaceManifest(i) ==
  /\ at[i] = "written" /\ tmp # 0
  /\ Move(i, "built") /\ marker' = tmp /\ tmp' = 0
  /\ UNCHANGED <<content, doc, audit, registry, chunks, vectors, del, faults>>

\* Memory and the audit say completed first ...
Register(i) ==
  /\ at[i] = "built"
  /\ registry' = {e \in registry : e[1] # doc[i]} \cup {<<doc[i], content[i]>>}
  /\ Move(i, "completed") /\ Row(i, "completed")
  /\ UNCHANGED <<content, doc, chunks, vectors, tmp, marker, del, faults>>

\* ... then the row gets its document, with the paths the registry knows.
ReadPaths(i) ==
  /\ at[i] = "completed" /\ Move(i, IF Registered(doc[i]) THEN "known" ELSE "bare")
  /\ UNCHANGED <<content, doc, audit, registry, chunks, vectors, tmp, marker, del, faults>>

RecordCompleted(i) ==
  /\ at[i] \in {"known", "bare"} /\ Move(i, "done")
  /\ audit' = [audit EXCEPT ![i] = [status |-> "completed", doc |-> doc[i], paths |-> at[i] = "known"]]
  /\ UNCHANGED <<content, doc, registry, chunks, vectors, tmp, marker, del, faults>>

\* Mutant: the lost temporary file is waited for.
FailJobOnFault(i) ==
  /\ at[i] \in Running /\ faults < Faults /\ faults' = faults + 1
  /\ Move(i, "failed") /\ Row(i, "failed")
  /\ UNCHANGED <<content, doc, registry, chunks, vectors, tmp, marker, del>>

\* A step fails; replacing the marker also does so when another thread took the temporary file.
FailJob(i) ==
  /\ at[i] \in Running
  /\ \/ at[i] = "written" /\ tmp = 0 /\ UNCHANGED faults
     \/ faults < Faults /\ faults' = faults + 1
  /\ Move(i, "failed") /\ Row(i, "failed")
  /\ UNCHANGED <<content, doc, registry, chunks, vectors, tmp, marker, del>>

-------------------------------------------------------------------------------
(* Deletion, of a document by its owner (on the event loop) or of an upload by an administrator *)

Deleted(i) == audit[i].status \in {"deleted", "warned"}

\* The newest row of a document is i, which is 0 if it has none.
Latest(d, i) ==
  /\ i # 0 => audit[i].doc = d
  /\ \A j \in JobId : audit[j].doc = d => j <= i

\* A document is found in the registry, or else through its newest row, unless that is deleted.
Found(d) == \E i \in 0..Jobs :
  /\ Latest(d, i)
  /\ i # 0 => ~Deleted(i)
  /\ Registered(d) \/ (i # 0 /\ audit[i].paths)

\* Mutant: the paths come from the row, also of a document not yet recorded.
DeleteDocumentByRow(d) ==
  /\ del.at = "none" /\ Found(d)
  /\ \E i \in 0..Jobs : /\ Latest(d, i)
       /\ del' = [NoDeletion EXCEPT !.at = "files", !.loop = TRUE, !.doc = d, !.job = i,
                                    !.paths = i # 0 /\ audit[i].paths]
       /\ IF i = 0 THEN UNCHANGED audit ELSE Row(i, "deleted")
  /\ UNCHANGED <<at, content, doc, registry, chunks, vectors, tmp, marker, faults>>

DeleteDocument(d) ==
  /\ del.at = "none" /\ Found(d)
  /\ \E i \in 0..Jobs : /\ Latest(d, i)
       /\ del' = [NoDeletion EXCEPT !.at = "files", !.loop = TRUE, !.doc = d, !.job = i,
                                    !.paths = i = 0 \/ audit[i].paths]
       /\ IF i = 0 THEN UNCHANGED audit ELSE Row(i, "deleted")
  /\ UNCHANGED <<at, content, doc, registry, chunks, vectors, tmp, marker, faults>>

AdminDeleteUpload(i) ==
  /\ del.at = "none" /\ audit[i].status \notin {"none", "queued", "running"}
  /\ Row(i, "deleted")
  /\ del' = [NoDeletion EXCEPT !.at = "files", !.doc = audit[i].doc, !.job = i, !.paths = audit[i].paths]
  /\ UNCHANGED <<at, content, doc, registry, chunks, vectors, tmp, marker, faults>>

To(s) == del' = [del EXCEPT !.at = s]

\* Files that cannot be removed are a warning.
RemoveFiles ==
  /\ del.at = "files"
  /\ \/ /\ del.doc # 0 /\ del.paths
        /\ chunks' = [chunks EXCEPT ![del.doc] = None] /\ vectors' = [vectors EXCEPT ![del.doc] = None]
        /\ To(IF vectors[del.doc] # None THEN "marker" ELSE "entry") /\ UNCHANGED faults
     \/ (del.doc = 0 \/ ~del.paths) /\ To("entry") /\ UNCHANGED <<chunks, vectors, faults>>
     \/ /\ faults < Faults /\ faults' = faults + 1
        /\ del' = [del EXCEPT !.at = "entry", !.warned = TRUE] /\ UNCHANGED files
  /\ UNCHANGED <<at, content, doc, audit, registry, tmp, marker>>

\* The marker moves from the deleted store to another one, or is removed if there is none.
ReadMarker ==
  /\ del.at = "marker"
  /\ IF marker # del.doc THEN To("entry")
     ELSE LET stores == {d \in DocId : vectors[d] # None}
          IN \E d \in IF stores = {} THEN {0} ELSE stores :
               del' = [del EXCEPT !.at = "repair", !.next = d]
  /\ UNCHANGED <<at, content, doc, audit, registry, chunks, vectors, tmp, marker, faults>>

\* Mutant: the marker is emptied.
RepairMarkerNone ==
  /\ del.at = "repair" /\ To("entry") /\ marker' = None
  /\ UNCHANGED <<at, content, doc, audit, registry, chunks, vectors, tmp, faults>>

RepairMarker ==
  /\ del.at = "repair" /\ To("entry") /\ marker' = del.next
  /\ UNCHANGED <<at, content, doc, audit, registry, chunks, vectors, tmp, faults>>

RemoveEntry ==
  /\ del.at = "entry" /\ To("cleanup")
  /\ registry' = {e \in registry : e[1] # del.doc}
  /\ UNCHANGED <<at, content, doc, audit, chunks, vectors, tmp, marker, faults>>

RecordCleanup ==
  /\ del.at = "cleanup" /\ del' = NoDeletion
  /\ IF del.job = 0 THEN UNCHANGED audit ELSE Row(del.job, IF del.warned THEN "warned" ELSE "deleted")
  /\ UNCHANGED <<at, content, doc, registry, chunks, vectors, tmp, marker, faults>>

\* Files, registry and rows survive a restart; jobs and deletions do not.
Restart ==
  /\ faults < Faults /\ faults' = faults + 1
  /\ at' = [i \in JobId |-> IF at[i] = "none" THEN "none" ELSE "gone"]
  /\ del' = NoDeletion
  /\ UNCHANGED <<content, doc, audit, registry, chunks, vectors, tmp, marker>>

-------------------------------------------------------------------------------

JobStep(i) ==
  \/ PickUp(i) \/ LookupText(i) \/ WriteChunks(i) \/ BuildVectorStore(i) \/ WriteManifest(i)
  \/ ReplaceManifest(i) \/ Register(i) \/ ReadPaths(i) \/ RecordCompleted(i) \/ FailJob(i)

DeletionStep == RemoveFiles \/ ReadMarker \/ RepairMarker \/ RemoveEntry \/ RecordCleanup

Next ==
  \/ \E i \in JobId, c \in Content : StartIngestionJob(i, c)
  \/ \E i \in JobId : JobStep(i) \/ AdminDeleteUpload(i)
  \/ \E d \in DocId : DeleteDocument(d)
  \/ DeletionStep \/ Restart

Spec == Init /\ [][Next]_vars

\* Threads go on running; nothing makes anyone upload or delete.
FairSpec == Spec /\ \A i \in JobId : WF_vars(JobStep(i))

-------------------------------------------------------------------------------
(* Properties *)

\* Without faults, what the registry offers is complete: an entry has the files of its content,
\* whatever other jobs and deletions do meanwhile, unless it is itself being deleted.
RegisteredIsReady ==
  faults = 0 => \A e \in registry : e[1] = del.doc \/ (chunks[e[1]] = e[2] /\ vectors[e[1]] = e[2])

\* Without faults, a deletion by its owner removes all there is of a document, also while jobs
\* look the document up, register others or have not recorded it yet.
DeletedIsGone ==
  [][del.at = "cleanup" /\ del.loop /\ faults = 0 =>
       ~Registered(del.doc) /\ chunks[del.doc] = None /\ vectors[del.doc] = None]_vars

\* A job that was accepted ends, even if threads take the marker's temporary file from each other.
JobEnds == \A i \in JobId : (at[i] = "queued") ~> (at[i] \in {"done", "failed", "gone"})

\* "Prevents duplicated document registry entries": no content is registered twice.
NoDuplicates == \A d, e \in DocId, c \in Content : <<d, c>> \in registry /\ <<e, c>> \in registry => d = e

\* "None if unknown or deleted": a document is found only while its files are there or on the way out.
FoundIsThere == \A d \in DocId : Found(d) /\ del.doc # d => ValidPaths(d)

\* "Running or queued uploads cannot be deleted until processing finishes".
DeletedWhenFinished == \A i \in JobId : Deleted(i) => at[i] \in {"done", "failed", "gone"}

\* The marker is kept consistent: with no job at work and no deletion, it names a store if there is one.
MarkerConsistent ==
  (del.at = "none" /\ \A i \in JobId : at[i] \notin Running) =>
    IF \E d \in DocId : vectors[d] # None THEN marker # 0 /\ vectors[marker] # None ELSE marker = 0

===============================================================================
