------------------------------ MODULE MCWorkspace -----------------------------
(* Matters, document ingestion and the routers of questions in one run. What   *)
(* the first two share (a job's end, a document's deletion) each of them models *)
(* for itself, so one part runs at a time: two users and their matters, one     *)
(* user with two uploads, the job queue with its files, or a router.            *)
EXTENDS MCMatters

CONSTANTS n1, n2, j1, j2, Jobs, Content, MaxQueued, Workers

VARIABLES
  part,
  at, content, doc, audit, registry, chunks, vectors, tmp, marker, del, ingestFaults,
  cache, circuit, kept, asked, modelFaults, broken

ingestVars == <<at, content, doc, audit, registry, chunks, vectors, tmp, marker, del, ingestFaults>>

Filing == INSTANCE Matters WITH User <- {u1}, Matter <- {m1, m2},
  Org <- [m \in {m1, m2} |-> u1], Default <- {m1}

Ingest == INSTANCE Ingestion WITH faults <- ingestFaults

\* Two failures open the circuit; the times are one unit each.
Route == INSTANCE Routing WITH
  request <- asked, faults <- modelFaults,
  Router <- {"retrieval"}, Keeper <- {}, Question <- {"q"}, Caller <- {n1, n2},
  Threshold <- 2, BreakTime <- 1, CacheTime <- 1, FailTime <- 1, ModelFaults <- 2, RedisFaults <- 1

routeVars == <<cache, circuit, kept, asked, modelFaults, broken>>

ASSUME WorkspaceConstants == Ingest!IngestionAssumption /\ Route!RoutingAssumption

WorkspaceInit ==
  /\ Ingest!Init /\ Route!Init
  /\ \/ part = "matters" /\ Init
     \/ part = "filing" /\ Filing!Init
     \/ part \in {"ingest", "route"} /\ Init /\ docs = [d \in Doc |-> "absent"]

\* Uploads that are over are a state to rest in.
Rest == UNCHANGED <<vars, ingestVars>>

\* The two uploads are alike: the second one follows the first.
InOrder == jobs'[j2] # NoJob => jobs'[j1] # NoJob

WorkspaceNext ==
  /\ UNCHANGED part
  /\ \/ part = "matters" /\ Next /\ UNCHANGED <<jobs, ingestVars, routeVars>> \* nobody uploads
     \/ part = "filing" /\ Filing!Next /\ InOrder /\ UNCHANGED <<ingestVars, routeVars>>
     \/ part = "ingest" /\ (Ingest!Next \/ Rest) /\ UNCHANGED <<vars, routeVars>>
     \/ part = "route" /\ Route!Next /\ UNCHANGED <<vars, ingestVars>>

\* Fairness of Matters, Ingestion and Routing, for whichever runs.
WorkspaceSpec ==
  /\ WorkspaceInit /\ [][WorkspaceNext]_<<part, vars, ingestVars, routeVars>>
  /\ \A j \in Job : WF_vars(part = "filing" /\ Filing!UploadStep(j))
  /\ \A d \in Doc : WF_vars(part = "filing" /\ Filing!EndDelete(d))
  /\ \A i \in 1..Jobs : WF_ingestVars(part = "ingest" /\ Ingest!JobStep(i))
  /\ WF_routeVars(part = "route" /\ Route!Tick)
  /\ \A n \in {n1, n2} : WF_routeVars(part = "route" /\ Route!Step(n))

-------------------------------------------------------------------------------
(* Properties of the modules, as this run checks them *)

\* Those of Matters, LeadsKept, AuditComplete, FiledOnce and UploadIsFiled, apply as they are.

\* Those of Ingestion: entries are complete, a deletion removes everything, jobs end.
RegisteredIsReady == Ingest!RegisteredIsReady
DeletedIsGone == Ingest!DeletedIsGone
JobEnds == Ingest!JobEnds

\* That of Routing: when the model stops failing, the rules stop deciding.
RoutingRecovers == part = "route" => Route!RoutingRecovers
===============================================================================
