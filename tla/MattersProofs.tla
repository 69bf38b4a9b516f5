----------------------------- MODULE MattersProofs ----------------------------
(***************************************************************************)
(* Theorems about Matters, for any users, matters, documents, uploads and  *)
(* number of faults.                                                       *)
(*                                                                         *)
(* LeadsKept is inductive with the types, since the last lead of a matter  *)
(* is one of finitely many.  AuditComplete needs to know that what is      *)
(* filed is a document in a matter, and FiledOnce where an upload can be   *)
(* in memory: Uploads says both.                                           *)
(***************************************************************************)
EXTENDS Matters, FiniteSetTheorems, TLAPS

JobType == [state: {"none", "running", "completed", "failed", "gone"}, sync: BOOLEAN,
            by: User \cup {None}, matter: Matter \cup {None}, doc: Doc \cup {None}]

\* What is known of an upload from the state it is in and from where it is remembered.
Uploads ==
  \A j \in Job :
    /\ jobs[j].state \in {"running", "completed"} => jobs[j].by \in User /\ jobs[j].matter \in Matter
    /\ jobs[j].state = "completed" => jobs[j].doc \in Doc
    /\ j \in filing => jobs[j].state = "completed" /\ j \notin pending
    /\ j \in pending => jobs[j].state # "none" /\ ~jobs[j].sync
    /\ jobs[j].state \in {"none", "running"} \/ j \in pending \cup filing => filed[j] = 0

IInv == TypeOK /\ LeadsKept /\ AuditComplete /\ FiledOnce /\ Uploads

-------------------------------------------------------------------------------
(* Parts of the state *)

\* Everybody has one default matter, of an organization of their own.
LEMMA DefaultFacts ==
  /\ \A u \in User : DefaultOf(u) \in Default /\ Org[DefaultOf(u)] = u
  /\ Default \subseteq Matter /\ \A m \in Matter : Org[m] \in User
<1>1. ASSUME NEW u \in User PROVE DefaultOf(u) \in Default /\ Org[DefaultOf(u)] = u
  <2>1. \E m \in Default : Org[m] = u
    BY MattersAssumption
  <2> QED BY <2>1 DEF DefaultOf
<1> QED BY <1>1, MattersAssumption

\* Setting a role that is not a lead's, or one of several leads, leaves a lead.
LEMMA RoleSet ==
  ASSUME TypeOK, LeadsKept, NEW m \in Matter, NEW t \in User, NEW r \in Role,
         MaySetRole(m, t, r), role' = [role EXCEPT ![m][t] = r], UNCHANGED status
  PROVE  role' \in [Matter -> [User -> Role]] /\ LeadsKept'
<1>1. role \in [Matter -> [User -> Role]] /\ DOMAIN status = Matter
  BY DEF TypeOK
<1>2. role'[m] = [role[m] EXCEPT ![t] = r] /\ \A k \in Matter : k # m => role'[k] = role[k]
  BY <1>1
<1>3. role' \in [Matter -> [User -> Role]]
  BY <1>1
<1>4. ASSUME status[m] # "none" PROVE \E u \in User : role'[m][u] = "lead"
  <2>1. CASE role[m][t] # "lead"
    <3>1. PICK u \in User : role[m][u] = "lead"
      BY <1>1, <1>4 DEF LeadsKept
    <3> QED BY <1>1, <1>2, <2>1, <3>1
  <2>2. CASE role[m][t] = "lead"
    <3>1. Cardinality(Leads(m)) > 1
      BY <2>2 DEF MaySetRole
    <3>2. IsFiniteSet(Leads(m))
      BY MattersAssumption, FS_Subset DEF Leads
    <3>3. Leads(m) # {t}
      BY <3>1, FS_Singleton
    <3>4. PICK u \in Leads(m) : u # t
      BY <2>2, <3>3 DEF Leads
    <3> QED BY <1>1, <1>2, <3>4 DEF Leads
  <2> QED BY <2>1, <2>2
<1>5. LeadsKept'
  BY <1>1, <1>2, <1>3, <1>4 DEF LeadsKept
<1> QED BY <1>3, <1>5

\* A matter comes with its organization's owner as its lead.
LEMMA Provisioned ==
  ASSUME TypeOK, LeadsKept, NEW m \in Matter, Provision(m)
  PROVE  /\ status' \in [Matter -> {"none", "active", "archived"}]
         /\ role' \in [Matter -> [User -> Role]] /\ LeadsKept'
<1>1. role \in [Matter -> [User -> Role]] /\ status \in [Matter -> {"none", "active", "archived"}]
      /\ Org[m] \in User
  BY DefaultFacts DEF TypeOK
<1>2. /\ role'[m] = [role[m] EXCEPT ![Org[m]] = "lead"]
      /\ \A k \in Matter : k # m => role'[k] = role[k] /\ status'[k] = status[k]
      /\ role' \in [Matter -> [User -> Role]]
      /\ status' \in [Matter -> {"none", "active", "archived"}]
  BY <1>1 DEF Provision, Role
<1>3. role'[m][Org[m]] = "lead"
  BY <1>1, <1>2
<1> QED BY <1>1, <1>2, <1>3 DEF LeadsKept

\* The links and the log of the pairs that an event is about change together.
LEMMA LinksMove ==
  ASSUME TypeOK, AuditComplete, NEW pairs \in SUBSET (Matter \X Doc),
         NEW event \in {"attached", "uploaded", "detached", "deleted"},
         Audited(pairs, event),
         links' = IF event \in {"attached", "uploaded"} THEN links \cup pairs ELSE links \ pairs
  PROVE  /\ links' \subseteq Matter \X Doc
         /\ log' \in [Matter \X Doc -> {"none", "attached", "uploaded", "detached", "deleted"}]
         /\ AuditComplete'
<1>1. /\ links \subseteq Matter \X Doc
      /\ log \in [Matter \X Doc -> {"none", "attached", "uploaded", "detached", "deleted"}]
  BY DEF TypeOK
<1>2. /\ links' \subseteq Matter \X Doc
      /\ log' \in [Matter \X Doc -> {"none", "attached", "uploaded", "detached", "deleted"}]
      /\ \A x \in Matter \X Doc : log'[x] = IF x \in pairs THEN event ELSE log[x]
  BY <1>1 DEF Audited
<1>3. \A x \in Matter \X Doc : x \in links' <=> log'[x] \in {"attached", "uploaded"}
  BY <1>1, <1>2 DEF AuditComplete
<1> QED BY <1>1, <1>2, <1>3 DEF AuditComplete

-------------------------------------------------------------------------------
(* Steps *)

LEMMA MembersStep ==
  ASSUME TypeOK, LeadsKept, [Next]_vars
  PROVE  /\ status' \in [Matter -> {"none", "active", "archived"}]
         /\ role' \in [Matter -> [User -> Role]] /\ LeadsKept'
<1> DEFINE Goal == /\ status' \in [Matter -> {"none", "active", "archived"}]
                   /\ role' \in [Matter -> [User -> Role]] /\ LeadsKept'
<1>1. role \in [Matter -> [User -> Role]] /\ status \in [Matter -> {"none", "active", "archived"}]
  BY DEF TypeOK
<1>2. CASE UNCHANGED <<status, role>>
  BY <1>1, <1>2 DEF LeadsKept
<1>3. ASSUME NEW m \in Matter, CreateMatter(m) PROVE Goal
  BY <1>3, Provisioned DEF CreateMatter
<1>4. ASSUME NEW m \in Matter, NEW u \in User, NEW s \in {"active", "archived"}, UpdateMatter(m, u, s)
      PROVE  Goal
  <2>1. status[m] # "none" /\ status' = [status EXCEPT ![m] = s] /\ UNCHANGED role
    BY <1>4 DEF UpdateMatter, CanManage
  <2> QED BY <1>1, <2>1 DEF LeadsKept
<1>5. ASSUME NEW m \in Matter, NEW u \in User, NEW t \in User, RemoveMember(m, u, t) PROVE Goal
  BY <1>1, <1>5, RoleSet DEF RemoveMember, Role
<1>6. ASSUME NEW m \in Matter, NEW u \in User, NEW t \in User, NEW r \in Role, AddMember(m, u, t, r)
      PROVE  Goal
  BY <1>1, <1>6, RoleSet DEF AddMember
<1>7. CASE Migrate
  <2> DEFINE new(m) == m \in Default /\ status[m] = "none"
  <2>1. /\ \A m \in Matter : status'[m] = IF new(m) THEN "active" ELSE status[m]
        /\ \A m \in Matter : role'[m] = IF new(m) THEN [role[m] EXCEPT ![Org[m]] = "lead"] ELSE role[m]
        /\ DOMAIN status' = Matter
    BY <1>7 DEF Migrate
  <2>2. /\ status' \in [Matter -> {"none", "active", "archived"}]
        /\ role' \in [Matter -> [User -> Role]]
    BY <1>1, <1>7, DefaultFacts DEF Migrate, Role
  <2>3. ASSUME NEW m \in Matter, status'[m] # "none" PROVE \E u \in User : role'[m][u] = "lead"
    <3>1. CASE new(m)
      BY <1>1, <2>1, <3>1, DefaultFacts
    <3>2. CASE ~new(m)
      BY <1>1, <2>1, <2>3, <3>2 DEF LeadsKept
    <3> QED BY <3>1, <3>2
  <2> QED BY <2>2, <2>3 DEF LeadsKept
<1>8. ASSUME NEW j \in Job, NEW u \in User, NEW m \in Matter, NEW sync \in BOOLEAN,
             StartUpload(j, u, m, sync)
      PROVE  Goal
  BY <1>2, <1>8, Provisioned DEF StartUpload, UploadTarget
<1> QED BY <1>2, <1>3, <1>4, <1>5, <1>6, <1>7, <1>8
        DEF Next, vars, CheckAttach, CommitAttach, Detach, BeginDelete, EndDelete,
            UploadStep, FinishJob, ReadJob, FileUpload, Restart

LEMMA LinksStep ==
  ASSUME TypeOK, AuditComplete, Uploads, [Next]_vars
  PROVE  /\ links' \subseteq Matter \X Doc
         /\ log' \in [Matter \X Doc -> {"none", "attached", "uploaded", "detached", "deleted"}]
         /\ AuditComplete'
<1> DEFINE Goal == /\ links' \subseteq Matter \X Doc
                   /\ log' \in [Matter \X Doc -> {"none", "attached", "uploaded", "detached", "deleted"}]
                   /\ AuditComplete'
<1>1. /\ links \subseteq Matter \X Doc
      /\ log \in [Matter \X Doc -> {"none", "attached", "uploaded", "detached", "deleted"}]
      /\ attach \in [User -> (Matter \X Doc) \cup {<<>>}] /\ Owner \in [Doc -> User]
  BY MattersAssumption DEF TypeOK
<1>2. CASE UNCHANGED <<links, log>>
  BY <1>1, <1>2 DEF AuditComplete
<1>3. ASSUME NEW m \in Matter, NEW d \in Doc, NEW event \in {"attached", "uploaded"}, Link(m, d, event)
      PROVE  Goal
  <2>1. {<<m, d>>} \in SUBSET (Matter \X Doc)
    OBVIOUS
  <2>2. links' = links \cup {<<m, d>>} /\ Audited({<<m, d>>}, event)
    BY <1>3 DEF Link
  <2> QED BY <2>1, <2>2, LinksMove
<1>4. ASSUME NEW u \in User, CommitAttach(u) PROVE Goal
  <2>1. attach[u] \in Matter \X Doc
    BY <1>1, <1>4 DEF CommitAttach
  <2>2. attach[u][1] \in Matter /\ attach[u][2] \in Doc
    BY <2>1
  <2> QED BY <1>2, <1>3, <1>4, <2>2 DEF CommitAttach
<1>5. ASSUME NEW m \in Matter, NEW u \in User, NEW d \in Doc, Detach(m, u, d) PROVE Goal
  BY <1>1, <1>5, LinksMove DEF Detach
<1>6. ASSUME NEW d \in Doc, EndDelete(d) PROVE Goal
  <2>1. CASE DropLinks(d)
    BY <1>1, <2>1, LinksMove DEF DropLinks
  <2> QED BY <1>2, <1>6, <2>1 DEF EndDelete
<1>7. CASE Migrate
  <2> DEFINE unfiled == {d \in Doc : docs[d] \in {"ready", "deleting"}
                                     /\ \A m \in Matter : <<m, d>> \notin links}
             new == {<<DefaultOf(Owner[d]), d>> : d \in unfiled}
  <2>1. new \subseteq Matter \X Doc
    BY <1>1, DefaultFacts
  <2>2. links' = links \cup new /\ Audited(new, "attached")
    BY <1>7 DEF Migrate
  <2> HIDE DEF new
  <2> QED BY <2>1, <2>2, LinksMove
<1>8. ASSUME NEW j \in Job, FileUpload(j) PROVE Goal
  BY <1>2, <1>3, <1>8 DEF FileUpload, Uploads
<1> QED BY <1>2, <1>4, <1>5, <1>6, <1>7, <1>8
        DEF Next, vars, CreateMatter, UpdateMatter, AddMember, RemoveMember, CheckAttach, BeginDelete,
            StartUpload, UploadStep, FinishJob, ReadJob, Restart

\* A new upload is remembered, and entries may be dropped for it.
LEMMA Remembered ==
  ASSUME NEW j \in Job, RememberPending(j), pending \subseteq Job
  PROVE  j \in pending' /\ pending' \subseteq pending \cup {j}
  BY DEF RememberPending

LEMMA UploadsStep ==
  ASSUME TypeOK, FiledOnce, Uploads, [Next]_vars
  PROVE  /\ jobs' \in [Job -> JobType] /\ pending' \subseteq Job /\ filing' \subseteq Job
         /\ filed' \in [Job -> 0..2]
         /\ FiledOnce' /\ Uploads'
<1> DEFINE Goal == /\ jobs' \in [Job -> JobType] /\ pending' \subseteq Job /\ filing' \subseteq Job
                   /\ filed' \in [Job -> 0..2]
                   /\ FiledOnce' /\ Uploads'
<1>1. /\ jobs \in [Job -> JobType] /\ pending \subseteq Job /\ filing \subseteq Job
      /\ filed \in [Job -> 0..2] /\ NoJob \in JobType
      /\ Owner \in [Doc -> User]
  BY MattersAssumption DEF TypeOK, JobType, NoJob
<1>2. CASE UNCHANGED <<jobs, pending, filing, filed>>
  BY <1>1, <1>2 DEF FiledOnce, Uploads
<1>3. ASSUME NEW j \in Job, NEW u \in User, NEW m \in Matter, NEW sync \in BOOLEAN,
             StartUpload(j, u, m, sync)
      PROVE  Goal
  <2> DEFINE job == [state |-> "running", sync |-> sync, by |-> u, matter |-> m, doc |-> None]
  <2>1. /\ job \in JobType /\ job.state = "running" /\ job.sync = sync
        /\ job.by = u /\ job.matter = m
    BY DEF JobType
  <2>2. jobs[j].state = "none" /\ filed[j] = 0 /\ j \notin pending /\ j \notin filing
    <3>1. jobs[j].state = "none"
      BY <1>3 DEF StartUpload, NoJob
    <3> QED BY <3>1 DEF Uploads
  <2>3. jobs' = [jobs EXCEPT ![j] = job] /\ UNCHANGED <<filing, filed>>
    BY <1>3 DEF StartUpload
  <2>4. pending' \subseteq pending \cup {j} /\ (j \in pending' => ~sync)
    BY <1>1, <1>3, <2>2, Remembered DEF StartUpload
  <2> HIDE DEF job
  <2>5. /\ jobs' \in [Job -> JobType] /\ jobs'[j] = job /\ \A k \in Job : k # j => jobs'[k] = jobs[k]
    BY <1>1, <2>1, <2>3
  <2>6. FiledOnce'
    BY <1>1, <2>2, <2>3, <2>4 DEF FiledOnce
  <2>7. Uploads'
    BY <1>1, <2>1, <2>2, <2>3, <2>4, <2>5 DEF Uploads
  <2> QED BY <1>1, <2>3, <2>4, <2>5, <2>6, <2>7
<1>4. ASSUME NEW j \in Job, FinishJob(j) PROVE Goal
  <2>1. /\ jobs[j].state = "running" /\ filed[j] = 0 /\ j \notin filing
        /\ jobs[j].by \in User /\ jobs[j].matter \in Matter
        /\ UNCHANGED <<pending, filed>>
    BY <1>4 DEF FinishJob, Uploads
  <2>2. ASSUME NEW d \in Doc, jobs' = [jobs EXCEPT ![j].state = "completed", ![j].doc = d],
               filing' = IF jobs[j].sync THEN filing \cup {j} ELSE filing
        PROVE  Goal
    <3>1. /\ jobs' \in [Job -> JobType] /\ \A k \in Job : k # j => jobs'[k] = jobs[k]
          /\ jobs'[j].state = "completed" /\ jobs'[j].doc = d /\ jobs'[j].sync = jobs[j].sync
          /\ jobs'[j].by = jobs[j].by /\ jobs'[j].matter = jobs[j].matter
      BY <1>1, <2>2 DEF JobType
    <3>2. FiledOnce'
      BY <1>1, <2>1, <2>2 DEF FiledOnce
    <3>3. Uploads'
      BY <1>1, <2>1, <2>2, <3>1 DEF Uploads
    <3> QED BY <1>1, <2>1, <2>2, <3>1, <3>2, <3>3
  <2>3. CASE jobs' = [jobs EXCEPT ![j].state = "failed"] /\ UNCHANGED filing
    <3>1. /\ jobs' \in [Job -> JobType] /\ \A k \in Job : k # j => jobs'[k] = jobs[k]
          /\ jobs'[j].state = "failed" /\ jobs'[j].sync = jobs[j].sync
      BY <1>1, <2>3 DEF JobType
    <3>2. FiledOnce' /\ Uploads'
      BY <1>1, <2>1, <2>3, <3>1 DEF FiledOnce, Uploads
    <3> QED BY <1>1, <2>1, <2>3, <3>1, <3>2
  <2> QED BY <1>4, <2>2, <2>3 DEF FinishJob
<1>5. ASSUME NEW j \in Job, ReadJob(j) PROVE Goal
  <2>1. /\ j \in pending /\ pending' = pending \ {j} /\ UNCHANGED <<jobs, filed>>
        /\ filing' = IF jobs[j].state = "completed" THEN filing \cup {j} ELSE filing
    BY <1>5 DEF ReadJob
  <2> QED BY <1>1, <2>1 DEF FiledOnce, Uploads
<1>6. ASSUME NEW j \in Job, FileUpload(j) PROVE Goal
  <2>1. /\ j \in filing /\ j \notin pending /\ filing' = filing \ {j} /\ UNCHANGED jobs
        /\ jobs[j].state = "completed" /\ filed[j] = 0
    BY <1>6 DEF FileUpload, Uploads
  <2>2. CASE filed' = [filed EXCEPT ![j] = @ + 1] /\ UNCHANGED pending
    BY <1>1, <2>1, <2>2 DEF FiledOnce, Uploads
  <2>3. CASE UNCHANGED filed /\ pending' = IF jobs[j].sync THEN pending ELSE pending \cup {j}
    BY <1>1, <2>1, <2>3 DEF FiledOnce, Uploads
  <2> QED BY <1>6, <2>2, <2>3 DEF FileUpload
<1>7. CASE Restart
  <2>1. /\ pending' = {} /\ filing' = {} /\ UNCHANGED filed
        /\ jobs' = [j \in Job |-> IF jobs[j] = NoJob THEN NoJob ELSE [jobs[j] EXCEPT !.state = "gone"]]
    BY <1>7 DEF Restart
  <2>2. jobs' \in [Job -> JobType]
    BY <1>1, <2>1 DEF JobType
  <2>3. \A j \in Job : jobs'[j].state \in {"none", "gone"} /\ (jobs'[j].state = "none" => jobs[j].state = "none")
    BY <1>1, <2>1 DEF JobType, NoJob
  <2>4. FiledOnce' /\ Uploads'
    BY <1>1, <2>1, <2>3 DEF FiledOnce, Uploads
  <2> QED BY <1>1, <2>1, <2>2, <2>4
<1> QED BY <1>2, <1>3, <1>4, <1>5, <1>6, <1>7
        DEF Next, vars, CreateMatter, UpdateMatter, AddMember, RemoveMember, CheckAttach, CommitAttach,
            Detach, BeginDelete, EndDelete, Migrate, UploadStep

\* The rest of the types.
LEMMA RestStep ==
  ASSUME TypeOK, Uploads, [Next]_vars
  PROVE  /\ docs' \in [Doc -> {"absent", "ready", "deleting", "deleted"}]
         /\ attach' \in [User -> (Matter \X Doc) \cup {<<>>}]
         /\ faults' \in 0..Faults
<1>1. Faults \in Nat
  BY MattersAssumption
<1>2. docs' \in [Doc -> {"absent", "ready", "deleting", "deleted"}]
  <2>1. \/ UNCHANGED docs
        \/ \E d \in Doc, s \in {"ready", "deleting", "deleted"} : docs' = [docs EXCEPT ![d] = s]
    BY DEF Next, vars, CreateMatter, UpdateMatter, AddMember, RemoveMember, CheckAttach,
           CommitAttach, Detach, BeginDelete, EndDelete, Migrate, StartUpload, UploadStep, FinishJob,
           ReadJob, FileUpload, Restart
  <2> QED BY <2>1 DEF TypeOK
<1>3. attach' \in [User -> (Matter \X Doc) \cup {<<>>}]
  <2>1. \/ UNCHANGED attach
        \/ \E u \in User, a \in (Matter \X Doc) \cup {<<>>} : attach' = [attach EXCEPT ![u] = a]
        \/ attach' = [u \in User |-> <<>>]
    BY DEF Next, vars, CreateMatter, UpdateMatter, AddMember, RemoveMember, CheckAttach,
           CommitAttach, Detach, BeginDelete, EndDelete, Migrate, StartUpload, UploadStep, FinishJob,
           ReadJob, FileUpload, Restart
  <2> QED BY <2>1 DEF TypeOK
<1>4. UNCHANGED faults \/ (faults < Faults /\ faults' = faults + 1)
  BY DEF Next, vars, CreateMatter, UpdateMatter, AddMember, RemoveMember, CheckAttach,
         CommitAttach, Detach, BeginDelete, EndDelete, Migrate, StartUpload, RememberPending,
         UploadStep, FinishJob, ReadJob, FileUpload, Restart
<1>5. faults' \in 0..Faults
  BY <1>1, <1>4 DEF TypeOK
<1> QED BY <1>2, <1>3, <1>5

-------------------------------------------------------------------------------
(* Theorems *)

LEMMA InvariantInit == Init => IInv
<1> SUFFICES ASSUME Init PROVE IInv
  OBVIOUS
<1>1. TypeOK
  <2>1. NoJob \in JobType
    BY DEF NoJob, JobType
  <2>2. jobs \in [Job -> JobType]
    BY <2>1 DEF Init
  <2>3. /\ status \in [Matter -> {"none", "active", "archived"}]
        /\ role \in [Matter -> [User -> Role]]
        /\ docs \in [Doc -> {"absent", "ready", "deleting", "deleted"}]
        /\ log \in [Matter \X Doc -> {"none", "attached", "uploaded", "detached", "deleted"}]
    BY DEF Init, Role
  <2>4. attach \in [User -> (Matter \X Doc) \cup {<<>>}] /\ links \subseteq Matter \X Doc
    BY DEF Init
  <2>5. filed \in [Job -> 0..2] /\ faults \in 0..Faults /\ pending \subseteq Job /\ filing \subseteq Job
    BY MattersAssumption DEF Init
  <2> QED BY <2>2, <2>3, <2>4, <2>5 DEF TypeOK, JobType
<1>2. LeadsKept /\ AuditComplete
  BY DEF Init, LeadsKept, AuditComplete
<1>3. \A j \in Job : jobs[j].state = "none" /\ filed[j] = 0
  BY DEF Init, NoJob
<1>4. FiledOnce /\ Uploads
  BY <1>3 DEF Init, FiledOnce, Uploads
<1> QED BY <1>1, <1>2, <1>4 DEF IInv

LEMMA InvariantStep == IInv /\ [Next]_vars => IInv'
<1> SUFFICES ASSUME IInv, [Next]_vars PROVE IInv'
  OBVIOUS
<1>1. TypeOK /\ LeadsKept /\ AuditComplete /\ FiledOnce /\ Uploads
  BY DEF IInv
<1>2. TypeOK'
  BY <1>1, MembersStep, LinksStep, UploadsStep, RestStep DEF TypeOK, JobType
<1> QED BY <1>1, <1>2, MembersStep, LinksStep, UploadsStep DEF IInv

THEOREM Invariance == Spec => []IInv
<1> QED BY InvariantInit, InvariantStep, PTL DEF Spec

\* Every variable keeps its type.
THEOREM TypeCorrect == Spec => []TypeOK
<1>1. IInv => TypeOK
  BY DEF IInv
<1> QED BY <1>1, Invariance, PTL

\* A matter that exists has a lead, in whatever order roles change and people leave
\* (add_member, remove_member).
THEOREM MattersAreLed == Spec => []LeadsKept
<1>1. IInv => LeadsKept
  BY DEF IInv
<1> QED BY <1>1, Invariance, PTL

\* What the audit log says last of a document in a matter is what holds (attach_documents,
\* detach_document, drop_document_links, the migration, filed uploads).
THEOREM AuditIsComplete == Spec => []AuditComplete
<1>1. IInv => AuditComplete
  BY DEF IInv
<1> QED BY <1>1, Invariance, PTL

\* However often a finished job is read and whatever fails meanwhile, its upload is filed once.
THEOREM UploadsFiledOnce == Spec => []FiledOnce
<1>1. IInv => FiledOnce
  BY DEF IInv
<1> QED BY <1>1, Invariance, PTL

===============================================================================
