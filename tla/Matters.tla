-------------------------------- MODULE Matters -------------------------------
(***************************************************************************)
(* Matters: who belongs to them, which documents they hold, and the audit  *)
(* log (services/matters.py, audit.py, document_access.py and the routes   *)
(* of api/routers/documents.py that file uploads and delete documents).    *)
(*                                                                         *)
(* Each write is one sqlite transaction (BEGIN IMMEDIATE), but attaching   *)
(* checks the documents before its transaction, an upload is filed when    *)
(* its finished job is first read, and a deletion marks the upload, cleans *)
(* up and drops the links one after the other. The routes of documents run *)
(* on the event loop, one at a time; those of matters in a thread pool.    *)
(***************************************************************************)
EXTENDS Integers, FiniteSets

CONSTANTS
  User, Matter, Doc, Job,
  Org,       \* per matter, the user whose organization it belongs to
  Default,   \* the personal default matters, one per user
  Owner,     \* per document, who uploaded it
  None,
  Faults     \* bound: database errors

ASSUME MattersAssumption ==
  /\ IsFiniteSet(User)
  /\ Org \in [Matter -> User] /\ Default \subseteq Matter
  /\ \A u \in User : \E m \in Default : \A n \in Default : Org[n] = u <=> n = m
  /\ Owner \in [Doc -> User] /\ Faults \in Nat
  /\ None \notin Matter \cup Doc

VARIABLES
  status,   \* of a matter
  role,     \* per matter and user
  docs,     \* of a document: not there yet, there, being deleted, deleted
  links,    \* which document is in which matter
  log,      \* per matter and document, the last audited event
  attach,   \* per user, the attachment checked but not yet committed
  jobs,     \* asynchronous uploads
  pending,  \* jobs whose document is to be filed (in memory)
  filing,   \* jobs some reader of the finished job is filing
  filed,    \* history: how often an upload was filed
  faults

vars == <<status, role, docs, links, log, attach, jobs, pending, filing, filed, faults>>

Role == {"none", "viewer", "member", "lead"}
Rank == [r \in Role |-> CASE r = "none" -> 0 [] r = "viewer" -> 1 [] r = "member" -> 2 [] r = "lead" -> 3]
NoJob == [state |-> "none", sync |-> FALSE, by |-> None, matter |-> None, doc |-> None]

TypeOK ==
  /\ status \in [Matter -> {"none", "active", "archived"}]
  /\ role \in [Matter -> [User -> Role]]
  /\ docs \in [Doc -> {"absent", "ready", "deleting", "deleted"}]
  /\ links \subseteq Matter \X Doc
  /\ log \in [Matter \X Doc -> {"none", "attached", "uploaded", "detached", "deleted"}]
  /\ attach \in [User -> (Matter \X Doc) \cup {<<>>}]
  /\ jobs \in [Job -> [state: {"none", "running", "completed", "failed", "gone"}, sync: BOOLEAN,
                       by: User \cup {None}, matter: Matter \cup {None}, doc: Doc \cup {None}]]
  /\ pending \subseteq Job /\ filing \subseteq Job
  /\ filed \in [Job -> 0..2]
  /\ faults \in 0..Faults

Init ==
  /\ status = [m \in Matter |-> "none"]
  /\ role = [m \in Matter |-> [u \in User |-> "none"]]
  /\ docs \in [Doc -> {"absent", "ready"}]
  /\ links = {} /\ log = [x \in Matter \X Doc |-> "none"]
  /\ attach = [u \in User |-> <<>>]
  /\ jobs = [j \in Job |-> NoJob]
  /\ pending = {} /\ filing = {} /\ filed = [j \in Job |-> 0] /\ faults = 0

-------------------------------------------------------------------------------
(* Access *)

\* An organization's owner manages its matters without being a member.
CanManage(m, u) == status[m] # "none" /\ (role[m][u] = "lead" \/ Org[m] = u)
HasRole(m, u, least) == status[m] # "none" /\ Rank[role[m][u]] >= Rank[least]
Active(m) == status[m] = "active"
Leads(m) == {u \in User : role[m][u] = "lead"}

\* Owner rules; membership opens a document through its links.
OwnerRulesAllow(u, d) == Owner[d] = u
Found(d) == docs[d] = "ready"

\* No document route is half-way: none of them waits for anything between these steps.
LoopFree == filing = {} /\ \A d \in Doc : docs[d] # "deleting"

-------------------------------------------------------------------------------
(* Matters and members *)

\* The default matter is created with the personal organization, on first use.
Provision(m) ==
  /\ status' = [status EXCEPT ![m] = "active"]
  /\ role' = [role EXCEPT ![m][Org[m]] = "lead"]

CreateMatter(m) ==
  /\ status[m] = "none"
  /\ Provision(m)
  /\ UNCHANGED <<docs, links, log, attach, jobs, pending, filing, filed, faults>>

UpdateMatter(m, u, s) ==
  /\ CanManage(m, u) /\ s # status[m]
  /\ ~(s = "archived" /\ m \in Default)
  /\ status' = [status EXCEPT ![m] = s]
  /\ UNCHANGED <<role, docs, links, log, attach, jobs, pending, filing, filed, faults>>

\* Mutant: the lead count is asked for removals only.
SetRoleOfLead(m, t, r) == r = "none" => role[m][t] # "lead" \/ Cardinality(Leads(m)) > 1

\* A matter's last lead stays one.
MaySetRole(m, t, r) == role[m][t] = "lead" => Cardinality(Leads(m)) > 1

AddMember(m, u, t, r) ==
  /\ CanManage(m, u) /\ role[m][t] # r
  /\ MaySetRole(m, t, r)
  /\ role' = [role EXCEPT ![m][t] = r]
  /\ UNCHANGED <<status, docs, links, log, attach, jobs, pending, filing, filed, faults>>

RemoveMember(m, u, t) ==
  /\ CanManage(m, u) \/ (u = t /\ status[m] # "none")
  /\ role[m][t] # "none" /\ MaySetRole(m, t, "none")
  /\ role' = [role EXCEPT ![m][t] = "none"]
  /\ UNCHANGED <<status, docs, links, log, attach, jobs, pending, filing, filed, faults>>

-------------------------------------------------------------------------------
(* Documents of a matter; every change is audited in its transaction *)

Audited(pairs, event) ==
  log' = [x \in Matter \X Doc |-> IF x \in pairs THEN event ELSE log[x]]

Link(m, d, event) == links' = links \cup {<<m, d>>} /\ Audited({<<m, d>>}, event)

\* The documents are looked up before the transaction.
CheckAttach(m, u, d) ==
  /\ attach[u] = <<>>
  /\ HasRole(m, u, "member") /\ Active(m)
  /\ Found(d) /\ OwnerRulesAllow(u, d)
  /\ attach' = [attach EXCEPT ![u] = <<m, d>>]
  /\ UNCHANGED <<status, role, docs, links, log, jobs, pending, filing, filed, faults>>

CommitAttach(u) ==
  /\ attach[u] # <<>> /\ attach' = [attach EXCEPT ![u] = <<>>]
  /\ LET m == attach[u][1]   d == attach[u][2]
     IN IF HasRole(m, u, "member") /\ Active(m) /\ <<m, d>> \notin links
        THEN Link(m, d, "attached")
        ELSE UNCHANGED <<links, log>>
  /\ UNCHANGED <<status, role, docs, jobs, pending, filing, filed, faults>>

Detach(m, u, d) ==
  /\ HasRole(m, u, "member") /\ Active(m) /\ <<m, d>> \in links
  /\ links' = links \ {<<m, d>>} /\ Audited({<<m, d>>}, "detached")
  /\ UNCHANGED <<status, role, docs, attach, jobs, pending, filing, filed, faults>>

\* DELETE /documents/{id}: the upload is marked and the files go first.
BeginDelete(d, u) ==
  /\ LoopFree /\ Found(d) /\ OwnerRulesAllow(u, d)
  /\ docs' = [docs EXCEPT ![d] = "deleting"]
  /\ UNCHANGED <<status, role, links, log, attach, jobs, pending, filing, filed, faults>>

\* Mutant: the deletions of links go unaudited.
DropLinksSilently(d) ==
  links' = {x \in links : x[2] # d} /\ UNCHANGED log

DropLinks(d) ==
  LET on == {x \in links : x[2] = d}
  IN links' = links \ on /\ Audited(on, "deleted")

\* Links are dropped last; an error there is swallowed.
EndDelete(d) ==
  /\ docs[d] = "deleting" /\ docs' = [docs EXCEPT ![d] = "deleted"]
  /\ \/ DropLinks(d) /\ UNCHANGED faults
     \/ faults < Faults /\ faults' = faults + 1 /\ UNCHANGED <<links, log>>
  /\ UNCHANGED <<status, role, attach, jobs, pending, filing, filed>>

\* Every user gets a workspace; owned documents without a matter go into their owner's default.
DefaultOf(u) == CHOOSE m \in Default : Org[m] = u

Migrate ==
  /\ status' = [m \in Matter |-> IF m \in Default /\ status[m] = "none" THEN "active" ELSE status[m]]
  /\ role' = [m \in Matter |-> IF m \in Default /\ status[m] = "none"
                               THEN [role[m] EXCEPT ![Org[m]] = "lead"] ELSE role[m]]
  /\ LET unfiled == {d \in Doc : docs[d] \in {"ready", "deleting"} /\ \A m \in Matter : <<m, d>> \notin links}
         new == {<<DefaultOf(Owner[d]), d>> : d \in unfiled}
     IN links' = links \cup new /\ Audited(new, "attached")
  /\ UNCHANGED <<docs, attach, jobs, pending, filing, filed, faults>>

-------------------------------------------------------------------------------
(* Uploads into a matter *)

\* Without a matter the upload goes to the default one, created if need be.
UploadTarget(m, u) ==
  \/ HasRole(m, u, "member") /\ Active(m) /\ UNCHANGED <<status, role>>
  \/ m = DefaultOf(u) /\ status[m] = "none" /\ Provision(m)

\* Entries that nobody read for a day are dropped when another one is made.
RememberPending(j) ==
  \/ pending' = pending \cup {j} /\ UNCHANGED faults
  \/ \E stale \in SUBSET pending \ {{}} :
       /\ faults < Faults /\ faults' = faults + 1
       /\ pending' = (pending \ stale) \cup {j}

\* A synchronous upload is answered when its document is filed; for another one an entry
\* remembers the matter.
StartUpload(j, u, m, sync) ==
  /\ LoopFree /\ jobs[j] = NoJob
  /\ UploadTarget(m, u)
  /\ jobs' = [jobs EXCEPT ![j] = [state |-> "running", sync |-> sync, by |-> u, matter |-> m, doc |-> None]]
  /\ IF sync THEN UNCHANGED <<pending, faults>> ELSE RememberPending(j)
  /\ UNCHANGED <<docs, links, log, attach, filing, filed>>

\* A new document, or one of the uploader's with the same content (document_registry.lookup).
FinishJob(j) ==
  /\ jobs[j].state = "running" /\ (jobs[j].sync => LoopFree)
  /\ \/ \E d \in Doc :
          /\ docs[d] \in {"absent", "ready"} /\ Owner[d] = jobs[j].by
          /\ docs' = [docs EXCEPT ![d] = "ready"]
          /\ jobs' = [jobs EXCEPT ![j].state = "completed", ![j].doc = d]
          /\ filing' = IF jobs[j].sync THEN filing \cup {j} ELSE filing
     \/ jobs' = [jobs EXCEPT ![j].state = "failed"] /\ UNCHANGED <<docs, filing>>
  /\ UNCHANGED <<status, role, links, log, attach, pending, filed, faults>>

\* Mutant: a reader leaves the entry where it is until it is filed.
ReadJobShared(j) ==
  /\ LoopFree /\ jobs[j].state = "completed" /\ j \in pending
  /\ filing' = filing \cup {j}
  /\ UNCHANGED <<status, role, docs, links, log, attach, jobs, pending, filed, faults>>

\* GET /documents/jobs/{id}: the first reader of a finished job takes the entry ...
ReadJob(j) ==
  /\ LoopFree /\ jobs[j].state \in {"completed", "failed"} /\ j \in pending
  /\ pending' = pending \ {j}
  /\ filing' = IF jobs[j].state = "completed" THEN filing \cup {j} ELSE filing
  /\ UNCHANGED <<status, role, docs, links, log, attach, jobs, filed, faults>>

\* Mutant: an upload into a matter archived meanwhile is dropped.
FileUploadIfActive(j) ==
  /\ j \in filing /\ filing' = filing \ {j}
  /\ IF Active(jobs[j].matter)
     THEN Link(jobs[j].matter, jobs[j].doc, "uploaded") /\ filed' = [filed EXCEPT ![j] = @ + 1]
     ELSE UNCHANGED <<links, log, filed>>
  /\ UNCHANGED <<status, role, docs, attach, jobs, pending, faults>>

\* ... and files the document, or puts the entry back. A synchronous upload has none to put back.
FileUpload(j) ==
  /\ j \in filing /\ filing' = filing \ {j}
  /\ \/ /\ Link(jobs[j].matter, jobs[j].doc, "uploaded")
        /\ filed' = [filed EXCEPT ![j] = @ + 1] /\ UNCHANGED <<pending, faults>>
     \/ /\ faults < Faults /\ faults' = faults + 1
        /\ pending' = IF jobs[j].sync THEN pending ELSE pending \cup {j}
        /\ UNCHANGED <<links, log, filed>>
  /\ UNCHANGED <<status, role, docs, attach, jobs>>

\* Jobs and pending uploads are kept in memory.
Restart ==
  /\ faults < Faults /\ faults' = faults + 1
  /\ attach' = [u \in User |-> <<>>]
  /\ jobs' = [j \in Job |-> IF jobs[j] = NoJob THEN NoJob ELSE [jobs[j] EXCEPT !.state = "gone"]]
  /\ pending' = {} /\ filing' = {}
  /\ UNCHANGED <<status, role, docs, links, log, filed>>

UploadStep(j) == FinishJob(j) \/ ReadJob(j) \/ FileUpload(j)

Next ==
  \/ \E m \in Matter : CreateMatter(m)
  \/ \E m \in Matter, u \in User, s \in {"active", "archived"} : UpdateMatter(m, u, s)
  \/ \E m \in Matter, u, t \in User :
       RemoveMember(m, u, t) \/ \E r \in Role \ {"none"} : AddMember(m, u, t, r)
  \/ \E m \in Matter, u \in User, d \in Doc : CheckAttach(m, u, d) \/ Detach(m, u, d)
  \/ \E u \in User : CommitAttach(u)
  \/ \E d \in Doc : EndDelete(d) \/ \E u \in User : BeginDelete(d, u)
  \/ Migrate
  \/ \E j \in Job, u \in User, m \in Matter, sync \in BOOLEAN : StartUpload(j, u, m, sync)
  \/ \E j \in Job : UploadStep(j)
  \/ Restart

Spec == Init /\ [][Next]_vars

\* The upload page polls until the job has finished; a request that began ends.
FairSpec ==
  Spec /\ \A d \in Doc : WF_vars(EndDelete(d))
       /\ \A j \in Job : WF_vars(UploadStep(j))

-------------------------------------------------------------------------------
(* Properties *)

\* The properties speak of the matters, documents and uploads the variables have, so that they
\* mean the same wherever this module's variables are taken.

\* In whatever order roles change and people leave, a matter that exists has a lead.
LeadsKept ==
  \A m \in DOMAIN status : status[m] # "none" => \E u \in DOMAIN role[m] : role[m][u] = "lead"

\* The audit log is complete: what it says last of a document in a matter is what holds, also
\* after deletions that failed half-way and uploads filed late.
AuditComplete ==
  /\ links \subseteq DOMAIN log
  /\ \A x \in DOMAIN log : x \in links <=> log[x] \in {"attached", "uploaded"}

\* However often a finished job is read, and whatever fails meanwhile, its upload is filed once.
FiledOnce == \A j \in Job : filed[j] <= 1 /\ (filed[j] = 1 => j \notin pending \cup filing)

\* A completed upload is filed in its matter, whatever happens to the matter meanwhile, unless
\* the database fails or the process restarts.
UploadIsFiled ==
  \A j \in Job : (jobs[j].state = "completed") ~> (filed[j] = 1 \/ faults > 0)

\* "An archived matter is read-only for documents (no upload, attach or detach)": the links of an
\* archived matter change by deletions and the migration alone.
ArchivedReadOnly ==
  [][\A m \in Matter : status[m] = "archived" =>
       \A d \in Doc : <<m, d>> \in links' => <<m, d>> \in links]_vars

\* "After a document is deleted: drop every matter link": a deleted document is in no matter.
DeletedIsUnlinked == \A x \in links : docs[x[2]] # "deleted"

===============================================================================
