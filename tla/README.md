# A verification project for CausalGraph

CausalGraph is a document and contract workspace: users upload documents into
matters, ask questions about them through a retrieval pipeline, and have
contracts reviewed by language models whose findings people decide on, revise
and export. The parts that are hard to get right are not the prompts but what
happens around calls that take minutes: leases, retries, restarts, decisions
made while a worker is still running, answers that arrive late. This project
models these parts in TLA+, model-checks them with TLC, and proves the most
important facts with TLAPS.

Paths below are relative to `src/`.

## Inventory

### Legal review (the core)

| Part | State | Operations | Talks to |
|---|---|---|---|
| Review store (`legal/review_store.py`) | tables `legal_reviews` (status, lease, worker token, encrypted payload), `legal_contracts`, `legal_policies` | `create_review`, `claim`, `checkpoint`, `renew`, `decide`, `cancel_review`, `queue_resume`, contract and policy versions; each one `BEGIN IMMEDIATE` transaction | routers, engines, draft release |
| Pool (`legal/review_engine.py`) | a `ThreadPoolExecutor` of two threads, in memory | `submit`, dispatch to an engine | store |
| v2 engine (`legal/review_v2.py`) | per attempt: token, copy of the payload, call counter, stop flag, group threads; per process: model slots | claim, guard, publish a group, retry and back-off, finish, failure | store, model gateways, research |
| Chat engine (`legal/review_chat.py`) | per attempt: token, copy of the payload, request counter, heartbeat thread | claim, guard, save, stream, resume from saved batches, result, failure | store, gateways, the v2 slots |
| Draft release (`legal/draft_release.py`) | table `legal_draft_checks`; check and approval in the review's payload | `check` (three transactions around a model call), `approve`, `assert_exportable` | store, gateway |
| Router (`api/routers/contract_review.py`) | none | start, resume, cancel, decide, check, approve, export (two transactions around building the file), questions | all of the above |
| Questions (`legal/review_questions.py`) | table `legal_questions` | `ask` (two transactions around a model call), `history` | store, gateway |
| Research, quality, plan | none shared | sequential text processing | v2 engine |

What makes it correct: a review's saved work is never lost to a late worker;
a person's decision is never undone by the program; a cancelled review stays
cancelled; queue limits hold when a review is admitted; nothing waits for ever;
check results, approvals and exported files are about the draft as it is now.

What is hard: every engine runs for minutes outside any transaction; leases
expire under live workers; the process may restart between any two
transactions; several people look at pages fetched earlier; retries rebuild
what others are about to use.

### Around it

| Part | State | Hard behaviour | What makes it correct |
|---|---|---|---|
| Model gateways (`legal/ydata.py`, `anthropic_gateway.py`) | cached catalogues of models | a streamed reply ends in a dozen ways; discoveries overtake each other; a request is sent again without streaming | what is read as finished is whole; no second answer is paid for; only listed models are called |
| Matters (`services/matters.py`, `audit.py`) | organisations, matters, members, document links, audit events, pending uploads (memory) | checks made before the transaction that acts on them; a job linked when it is first read; a deletion in steps | a lead in every matter; the audit log tells the links; each upload filed, once |
| Ingestion (`ingestion_jobs.py`, `document_registry.py`, `pipeline_runtime.py`, `rag/vector_store.py`, `admin_audit.py`) | jobs (memory), registry file, index files, marker, audit rows | queue bound and insertion in two critical sections; look-up and registration minutes apart; deletion in four steps; one temporary file for all threads | no entry without files; deleted is gone; jobs end |
| Answering (`rag/rag_pipeline.py`, `agent_runner.py`, `deep_answering.py`) | per request: threads and queues | producers, deadlines, fall-backs between models after tokens were sent | one end, one answer, remembered as it was seen |
| Scope of a question (`services/rag_context.py`, `rag/retriever.py`) | per request | lists narrowed in turn, where an empty one means everything; layers of a deep answer that drop the list | the primary search stays with what the caller may read, inside the matter; the wider layers, with a user's own and everybody's |
| Graph (`graph/neo4j_store.py`) | nodes and relations shared by documents | several transactions per synchronisation and deletion | answers from the documents asked about |
| Memory (`chat_memory_service.py`, `user_memory_service.py`) | Redis lists per session; rows and a vector file per user | a dozen commands per append, keys that expire one by one; a learning thread beside changes and deletions | what a session remembers is the newest of what was said, without a gap; what was forgotten is not used |
| Routers (`rag/deepseek_resilience.py`, `answer_intent.py`, ...) | circuit and caches in Redis and memory | read-modify-write without a lock; Redis that comes and goes | once the service is back, it is used |
| Parser service (`services/document_parser/`, `legal/document_ocr.py`) | a child process behind a pipe | callers give up while the child works; it dies | a page has its own text or a note that it has none |
| Recruitment offers (`recruitment_offers.py`) | a table of offers | mail takes seconds outside any transaction; candidate and admins act meanwhile | a candidate's decision stands; what shows as sent was |
| Notifications (`notifications/`) | table of unanswered questions | digests in processes of their own, against recording | only what was told leaves the list |
| Daily points (`services/rate_limit.py`), contract and policy versions, accounts, frontend | rows | see Not modelled | |

`PROJECT.json` lists every part with its status, and under `hazards` the places in the
code where one of these behaviours bites, with the properties that watch them.

## Modules

| Module | What it is |
|---|---|
| `ReviewLifecycle` | abstract: what a review promises its users, without leases, threads or restarts |
| `ReviewQueue` | the store's queue, the requests that feed it, the pool, and an attempt's dealings with the store |
| `ReviewQueueProofs` | theorems about `ReviewQueue`, among them that it implements `ReviewLifecycle` |
| `ReviewRun` | one attempt of the v2 engine from the inside: threads, slots, budget, retries, stop flag |
| `ReviewRunProofs` | theorems about `ReviewRun` |
| `ChatRun` | the attempts of the chat engine: turns, continuations, fixes, fallbacks, resumption |
| `ChatRunProofs` | theorems about `ChatRun` |
| `DraftRelease` | one review from findings to export: decisions, drafts and their rebuilding, the model check, approval, export |
| `DraftReleaseProofs` | theorems about `DraftRelease` |
| `ReviewQuestions` | a user's follow-up questions: reservation, model call, late answers |
| `Gateway` | a model call: catalogue, request, how a reply ends |
| `Matters` | members, archiving, links, the audit log, uploads into matters, deletions |
| `MattersProofs` | theorems about `Matters` |
| `Ingestion` | jobs, registry, artefacts, marker, audit rows, both deletions |
| `IngestionProofs` | theorems about `Ingestion`, as `MCWorkspace` composes it |
| `Routing` | the routers' caches and circuit breaker |
| `AnswerRun` | the stream of one answer: agent, producer, response |
| `RetrievalScope` | which documents a question may draw on |
| `GraphStore` | synchronisations, deletions and questions of the graph |
| `UserMemory`, `ChatMemory` | what is remembered of a user, and of a session |
| `DocumentParser` | scanned pages and pictures, from upload to text |
| `Offers` | recruitment offers and their mail |
| `Notifications` | unanswered questions and digests |
| `MCReviewQueue`, `MCReviewProgress`, `MCDraftRelease`, `MCMatters` | instances for TLC |
| `MCEngines` | `ReviewRun` in two settings and `ChatRun` |
| `MCWorkspace` | `Matters` in two settings, `Ingestion` and `Routing` |
| `Services` | the ten other modules composed: `AnswerRun`, `Offers`, `RetrievalScope`, `UserMemory`, `ChatMemory`, `GraphStore`, `DocumentParser`, `ReviewQuestions`, `Notifications`, `Gateway` |
| `RequestProofs` | theorems about `Gateway`, `ReviewQuestions`, `Offers`, `Notifications` and `ChatMemory` |
| `AnswerProofs` | theorems about `GraphStore`, `RetrievalScope`, `UserMemory`, `AnswerRun` and `DocumentParser` |
| `MCServices` | the instance of `Services` |

`MCEngines`, `MCWorkspace` and `Services` run *one part at a time*: the first
variable says which, and the others rest. What their parts share in the code is small
and is in each of them: the end of a job and the deletion of a document in `Matters`
and in `Ingestion`, the model slots and the row in the two engines. The reachable
states are the union of those of the parts, and so is what the run shows.

The review is seen from five sides. `ReviewQueue` has many reviews, and of each review's
decisions only whether a person made one (`decided`); an attempt is a sequence of
checkpoints by one writer. `ReviewRun` and `ChatRun` are the inside of such an attempt:
`WritesAreCheckpoints` of `ReviewRun` is what `ReviewQueue` takes for granted. `Gateway`
is the inside of one of their model calls, whose result they take as a choice.
`DraftRelease` has one review with all its decisions, and of its attempts only how they
begin and end. It meets `ReviewQueue` in `QueueResume` (the same condition in both), in
`Decide` and in the end of an attempt.

### ReviewQueue and the code

| TLA+ | Code |
|---|---|
| `rows[r]` | a row of `legal_reviews`. `left` is `lease_until - now`, `age` is `now - updated_at` (only of a queued row, where it is read), `work` the batches or groups saved in the payload, `errors` the groups its `batch_errors` lists, `decided` is `has_user_decisions(payload)`, `retryable` the payload's flag. A review that was never asked for is `absent`; its identity is the fingerprint. |
| `submitting[r]` | requests between the commit of `create_review` or `queue_resume` and `engine.submit` |
| `pool` | the executor's work queue; a review may be in it twice |
| `attempt[t]` | the `run_review` call that claimed with token `t`: where it is, its copy of the payload, its calls. `claimed`, `loaded`, `starting` lead to its first checkpoint, `working` and `guarded` alternate, `failing` and `marking` are the except clause |
| `CreateReview`, `QueueResume`, `CancelReview`, `Decide` | one store function each, with their HTTP 409/429 answers as guards |
| `Submit` | `engine.submit`, a step of its own because a restart may come before it |
| `ClaimJob`, `SkipJob` | a pool thread takes an entry: `claim` succeeds or the job returns |
| `LoadPayload`, `Guard`, `Start`, `Publish`, `Finish`, `Fail`, `Inspect`, `MarkFailed` | the transactions of an attempt, in order. `Start` is its first checkpoint, which drops what it will do again. `Start`, `Publish`, `Finish` and `MarkFailed` are `store.checkpoint`, which matches on id and token alone; the guard before it ran in an earlier transaction |
| `Renew` | the chat engine's heartbeat |
| `Tick`, `Crash` | the clock; a restart, after which only `rows` is left |

Both engines are one kind of attempt here: they claim, guard, checkpoint and
fail in the same pattern (the v2 engine through `guard`/`publish`, the chat
engine through `guard`/`save`). The model lets every attempt renew, which only
the chat engine does; `Publish` may save nothing new, which is what both do
when they count a model call. A `Finish` is clean only with every group saved;
otherwise the review is `partial` and can be retried.

An attempt does not reuse everything an earlier one saved. The v2 engine does
again the groups listed in `batch_errors`, a list that is written when an attempt
ends (`Finish`), or when it fails because no group could be done (second disjunct
of `Fail`), and not when it fails otherwise. The chat engine has no such list,
but forgets one answer when it turns out unreadable (`MarkFailed`). The model
allows both of both, so it has every behaviour of either. A finding that comes
from an answer is not separated from the group that it belongs to. Left out is
what needs new code or prompts: saved work whose input hash changed is dropped
by both engines, so `NoLostProgress` is about attempts of one version of the
program.

### DraftRelease and the code

| TLA+ | Code |
|---|---|
| `review.findings`, `.decisions` | the payload's findings and decisions, a decision with its version; `Undecided` is a missing entry |
| `review.check`, `.approval` | `draft_check` and `draft_approval`, by the draft whose fingerprint they carry |
| `checks[q]` | the row of `legal_draft_checks` for request `q`, and the call that serves it |
| `seen[u]` | the draft on the page of user `u`: what `decide` and `approve` get as version and fingerprint. It may be as old as it likes |
| `exports[u]` | the file being built for `u`, or sent |
| `Prepared`, `StartAttempt`, `EndAttempt` | a retry drops all decisions and `prepare_draft` selects the model's suggestions again, each with version 1 |
| `Decide` | `store.decide`: version, one selection per paragraph, displacement of model drafts, removal of check and approval |
| `BeginCheck`, `CallModel`, `PublishCheck`, `FailCheck` | the three transactions of `check` and its except clause |
| `BeginExport`, `Deliver`, `RefuseExport` | the two transactions of the export |

A fingerprint is a SHA-256 of contract, findings and decisions; the model keeps
the findings and decisions themselves. A finding's id is a hash of its content,
so what it suggests is a constant. A contract does not change after its
redaction is confirmed, so it is not part of the state. The limit of four
checks a minute is left out.

### The engines and the gateway

| TLA+ | Code |
|---|---|
| `ReviewRun` `main`, `Step(j)` | `run_review`: the main thread's loop over futures, and a job's thread in `call` (slot, guard, count, model, retries, save) |
| `ReviewRun` `slots`, `stopped`, `failures` | the process's model semaphore, of which other reviews take some; the stop flag; the errors the end looks at |
| `ChatRun` `p`, `call`, `used` | the saved payload (draft, research, final answer, result), the turn under way, requests and attempts |
| `ChatRun` `Reply`, `Truncated`, `Unreadable`, `Raise` | what `_turn` makes of an answer, a truncation, an unreadable answer and an error, tier by tier |
| `Gateway` `Ask`, `Fetch`, `Store`, `Choose` | `_provider_catalog` and `select_model`: the cache, the discovery outside the lock |
| `Gateway` `Send`, `Receive`, `Close`, `Ordinary`, `Break`, `Read` | the request with its fallback, the events of either provider, the end of a stream, a reply at once, every way to break off, and what `chat` and `chat_json` make of it |

A discovery with several keys lists what the keys that answer list; only when none does is it
an error (`Listings`, `Fetch`). The gateway's reply is a number of pieces; the upstream is assumed to give a reason when
it stops for another one than the end. A behaviour of `Gateway` shows the calls of one
provider, because the two have caches of their own.

### Around the reviews

| TLA+ | Code |
|---|---|
| `Matters` actions | one transaction each; `Look`-ups before it, the filing of a finished job and the steps of a deletion are actions of their own. Routes of documents run on the event loop, those of matters in threads |
| `Ingestion` `JobStep`, deletions | a worker thread's steps between the files, the registry and the audit rows; an administrator's deletion runs on a thread, a user's on the event loop |
| `Routing` `Lookup` .. `Return` | the router's call: cache, circuit, model, counter read and written; `circuit` is in memory and in Redis; times are what is left of them |
| `AnswerRun` | the agent's rounds (`run`), the producer (`parts`), the response (`got`) and the two queues between them; `raised` counts calls outside any `try` |
| `RetrievalScope` | `ask`, then the phases of `_resolve_rag_request_context` and `search`, on sets of documents. A source carries the layer that found it: `Retrieve` and `AgentSearch` are the primary search, with the list of documents; `Widened` the layers of priors and of regulations of `retrieve_layered_context`, which drop the list and the preference and keep the owner filter. What belongs to these layers by its domain is said by who uploads it, so any document may |
| `GraphStore` | one transaction a step |
| `ChatMemory` | one Redis command a step; chat requests do not interleave, because the handlers hold the event loop. `Measure`, `Line`, `Roll`, `Trim` are the overflow of `append_message`: what is over the list's length, its lines (a message without words has none), the summary with the lines cut to its end, the list cut. `timed` says which keys have a time to live: `Touch` is one `EXPIRE` of one key, a `SET` clears it (`Untimed`), and each such key may expire at any moment. `History` is the summary and the last `HistoryLimit` messages |
| `UserMemory` | rows, the vector file and its one temporary file; the learning thread interleaves with requests |
| `DocumentParser` | the upload's budgets, the server's admission of one body, the pipe (`inbox`, `outbox`) and the process behind it. Of more scans than a call takes, the code sends the first pages; the model leaves open which |
| `Offers`, `ReviewQuestions`, `Notifications` | each statement or transaction a step; the mail or model call between two of them. With `MAIL_ENABLED=false` (mode `log`) a letter is logged and recorded as delivered: the outcome `delivered` of `Mail`, and the only one then |

## Runs

| Run | Question | Instance |
|---|---|---|
| `queue_safety` | Does any late attempt lose work, touch decided or cancelled reviews? Does the queue implement `ReviewLifecycle`? | 1 review, 2 batches, 3 tokens, 2 threads, 1 restart, a lease of 1 tick |
| `queue_progress` | Does every queued review get a thread, and whatever is queued or running end or become resumable? | 2 reviews and 1 thread; or 1 review, 2 threads and a restart at any time; no batches |
| `queue_retry` | (finding) Do retries respect the limits? | 2 reviews of one user, limits of 1 |
| `queue_redone` | (finding) Does a review that runs again keep what it saved? | 1 review, 1 batch, no restart |
| `draft_release` | One change per paragraph, approvals and files current, human choices kept | 2 findings for one paragraph, 2 users, 1 exports, 1 retry |
| `draft_check` | Is the check shown about the selected text; one model call per request; do checks free their slot? | 2 requests, 1 finding, 2 texts, 1 retry, a lease of 2 ticks, restarts |
| `draft_stale` | (finding) Is a decision only replaced by somebody who saw it, over a retry? | 2 users, 1 retry |
| `engines` | Is a completed review complete; are the threads one writer; do attempts end; is a readable draft delivered and no answer paid for twice? | 1 group and 1 slot that another review uses once, a retry of each kind; 2 groups and 2 slots; 2 chat attempts with a restart, a continuation, 2 fixes, a retry of each kind |
| `workspace` | Is there always a lead; does the audit log tell the links; is each upload filed, once; are entries complete and deletions total; do jobs end; do routers recover? | 2 users with 2 matters; 1 user with 2 uploads; 2 uploads of one content on 2 threads; 2 callers of a router; a fault each, for the router 2 and one of Redis |
| `services` | One question for each of ten parts, below | below |
| `matters_archived` | (finding) Is an archived matter read-only? | 1 user, 2 matters, 1 upload |
| `ingestion_found` | (finding) Is a document found only while it is there? | 2 uploads of one content |

| Part of `services` | Shows | Instance |
|---|---|---|
| `AnswerRun` | `StreamEndsOnce` (with `AnswerIsOne`), `CompleteMeansCovered` | 2 entities of different kinds, 2 rounds, 2 tokens, 2 calls that raise |
| `RetrievalScope` | `ScopeConfined` | 3 documents: the caller's, everyone's, another's; every request and matter over them, every layer of the search |
| `Offers` | `DecisionStands` (with `SentWasMailed`) | 1 offer, 2 requests, a placeholder the page knows and one it does not, 3 units of time |
| `UserMemory` | `ForgottenUnused` | 2 rows of one fact, 1 learning thread, 2 requests, a vector operation that fails |
| `ChatMemory` | `NewestRemembered` | 1 session: a list of 2 messages, a history of the last, a summary with room for 1 line; 4 messages, one without words; 2 commands that fail |
| `GraphStore` | `TriplesOfScope` | 2 documents that say the same of 2 entities, 2 synchronisations, a deletion, a question, a transaction that fails |
| `DocumentParser` | `PagesReadOrNoted` | a scan of 2 pages, a Word file with 2 pictures, a process that dies |
| `ReviewQuestions` | `AnsweredOnce` | 2 requests for 2 questions, a lease and a rate of 1 unit |
| `Notifications` | `OnlyToldLeave` | 2 questions asked 3 times, 2 digests |
| `Gateway` | `FinishedIsWhole`, `ListedLately` | 2 callers, replies of 1 or 2 pieces where 1 fits, either provider, streamed or not, a model that leaves the list |

Why these bounds are enough. A review is fenced by its token, so the hazards of
one review need an attempt that is late, the one that replaced it, and one
more for the retry after that: three tokens. A token is fresh again once no row
and no attempt has it. Reviews interact only through the
limits and the pool, so several reviews appear in the runs about these, and one
in the others. Two batches tell "none", "some" and "all" apart; the runs about
limits and progress have none, because no guard of a claim, a request or a
heartbeat reads what is saved. Every comparison
of a time is against 0 or a limit, so one tick before, at and past it are the
three cases (`left` in `-1..LeaseTime`, `age` in `0..StaleTime + 1`). `Budget`
is what the code bounds too (its call budget); `MaxWaiting`, `MaxCrashes`,
`MaxVersion`, `MaxAttempts` and `Exporter` are bounds of the model and named so
where they are declared. Around the reviews, the races are between one who acts and one
who acted before on the same row, document, session or relation: two requests, and for
each fault kind the code answers as many as let it go wrong and be tried again. Every
module names its bounds (`Horizon`, `...Faults`, `Asks`).

Symmetry is used only where no constant tells the values apart and the run has no
liveness property: tokens and groups in the runs of the queue's safety, users in
`draft_stale`, and in `services` the requests and the documents of the graph.

Deadlock is checked wherever the run's bounds do not stop the system by
themselves; where a cfg switches it off, a finished request or upload with nobody left
to act is an end state.

### Liveness and fairness

`FairSpec` of `ReviewQueue` assumes that time passes, that a request which
committed goes on to `submit`, that an idle pool thread takes the next entry,
and that an attempt goes on: every model call has a timeout, and an attempt
waits for nobody else. Users and restarts owe nothing. It does not assume that
an attempt succeeds, nor that a heartbeat is prompt. `FairSpec` of
`DraftRelease` assumes only that time passes: a model call may hang for good.
`ReviewRun` and `ChatRun` assume that the main thread and each thread of an attempt that
can go on does (a model call has a timeout; a slot that others hold is given back). In
the workspace, worker threads and the steps of an upload and of a deletion that has
begun go on, and at a router time passes and requests that were asked go on. Nothing is
assumed of users, and in `services` nothing of anybody: its properties are of safety.

### Findings

* **`queue_retry`.** `queue_resume` says it applies "normal queue limits to
  retries". A review that waited in the pool for ten minutes may be resumed and
  is then in the pool twice. If the first attempt fails, the second entry's
  `claim`, which takes `failed` rows, runs it again at once: a retry that
  nobody asked for and no limit was applied to.
* **`queue_redone`.** The stage of a paused review says that completed steps are
  saved. A group that failed is on the error list; the retry does it again and
  saves it, but if the retry fails or is restarted before its end, the list is
  still the old one, and the next attempt removes the saved group and pays for it
  once more (`legal/review_v2.py:449`). `NoLostProgress` is what holds instead:
  no attempt loses what *another* saved without an error on record.
* **`draft_stale`.** Versions of decisions protect a person's choice against a
  page fetched earlier. A retry drops the decisions and starts versions again,
  so a page from before the retry can match a version given after it: A's click
  replaces B's decision, which A never saw, where the code means to answer
  "already handled by somebody else".

* **`matters_archived`.** "An archived matter is read-only for documents (no upload,
  attach or detach)" (`services/matters.py:14`). An upload is linked when its finished job
  is first read (`services/matters.py:912`), without another look at the matter, which may
  have been archived since.
* **`ingestion_found`.** A document is found by its registry entry, "else the upload-audit
  fallback; None if unknown or deleted" (`services/document_access.py:317`). The upload's
  completion is recorded in two steps (`admin_audit.py:122`); a deletion between them is
  overwritten, and the deleted document is found again.

### Known divergences without a run

Each of these was found while modelling. Where a property is named, the module states
it and TLC refutes it; where the comment at the property says "not so", it is described
there. They are left out of the runs, most of them being about small damage.

| Where | What does not hold |
|---|---|
| `Matters` `DeletedIsUnlinked` | `attach_documents` looks a document up before its transaction; a deletion in between leaves the new link (`services/matters.py:784`) |
| `Ingestion` `NoDuplicates` | two uploads of one content that overlap are both registered (`pipeline_runtime.py:82`) |
| `Ingestion` `DeletedWhenFinished` | a document is registered, and its owner may delete it, before its job has recorded its end |
| `Ingestion` `MarkerConsistent` | a store built while a deletion chooses the next active one is forgotten (`pipeline_runtime.py:271`) |
| `Offers` `OneDelivery` | the candidate replies during a resend, the row no longer shows it, and an admin may send again |
| `Offers` `NoDoubleSubmit` | two requests for one position look before either inserts |
| `RetrievalScope` `ScopeServes` | the owner filter also holds inside a matter: members do not find each other's documents |
| `RetrievalScope` `Widened` | an answer inside a matter may draw on documents outside it, found by the layers of priors and regulations, where the request says "the scope becomes the matter's documents" (`services/rag_context.py:135`); the plan of the documentation lets these layers drop the list (`docs/legal-agent/wp/phase0-backend.md:37`). `ScopeConfined` is what holds: the matter confines the primary search |
| `RetrievalScope` `Widened` | that these layers keep `owner_user_id` (`rag/retriever.py:183`) is so of signed-in users; a request without an account has no such filter, and its wider layers search every document. `ScopeConfined` says nothing of it |
| `UserMemory` | the vector of a forgotten memory may stay in the file or come back, and vectors may be lost when two write the temporary file; rows decide what is used |
| `GraphStore` | a synchronisation overtaken by the deletion leaves relations that unfiltered questions find |
| `DocumentParser` | a process that dies between two conversions is not replaced: readiness is asked first |
| `Routing` | the answer intent keeps what the rules said of a question until its list is full (`rag/answer_intent.py:113`) |
| `ReviewQuestions` `FailedStaysFailed` | an answer after its lease turns a question shown as failed into an answered one |
| `Notifications` | a count added between listing and mark is never told; a question whose digests fail for its whole window is never listed again; the daily cap of mails is not enforced |
| `Gateway` | a chat turn whose time is up between its reason and the end of its stream is whole and read as a part: it is continued once more |

## Proofs

Every safety property that a run checks is proved for every value of the constants. TLC finds
no violation of any of the inductive invariants below on the instances of the runs.
Theorems about `Ingestion` and the ten services are about the specification of their
composition, every part in it: an invariant of one part is `part = "..." => Inv`. Those about
`ChatRun` are about its own specification, as `MCEngines` instantiates it.
The assumptions are those the modules declare about their constants (`...Assumption`): types,
that limits are natural numbers, that null values are no values, and what is named below.

### The review queue

`ReviewQueueProofs` proves, for any number of reviews, users, tokens, threads,
batches and restarts, and any lengths of leases:

| Theorem | Says |
|---|---|
| `TypeCorrect` | the type invariant |
| `WriterCurrent` | at most one attempt can write to a review; its copy is what was saved; nobody has decided |
| `ProgressKept` | no saved work is lost but what has an error on record, or the one unreadable answer of a failure |
| `DecisionsKept` | the program never touches a review somebody decided on |
| `CancelledKept` | the program never touches a cancelled review |
| `QueueImplementsLifecycle` | the queue implements `ReviewLifecycle` |

The assumptions are those of `ConstantsAssumption`: types, and that `NoToken`
and `NoReview` are not tokens or reviews. That `uuid4` is fresh is in the
model: a claim takes a token that no row and no attempt has.

The argument. A checkpoint matches on id and token alone and overwrites the
whole payload, so everything rests on *who can have a matching token, and what
its copy contains*. The properties are not inductive: that a checkpoint loses
nothing needs that the attempt's copy is the row's work, which needs that
no other attempt wrote since it loaded, which needs that the token is in one row
only and that the row of a live token runs. The inductive invariant
`IInv == TypeInv /\ Fencing /\ Quiet` says just this:

* `TokenInOneRow`: a token is in at most one row, the row its attempt works on;
* `WriterIsCurrent`: an attempt whose token is in its row is the one that may
  write; the row runs and is not decided, and the attempt's copy is what it has;
* `DecidedIsQuiet`, `CancelledIsFenced`, `OnlyRunningLeased`: a decided review
  is in a state nothing but a decision leaves, a cancelled one has no token,
  and only a running one has a lease.

`WriterIsCurrent` is what a careful reader would doubt, because a terminal
checkpoint leaves the token in the row: it holds because an attempt takes no
checkpoint after its last. Each action's step is a lemma, and the three action
properties and the refinement follow from `IInv` and the step.

### Decisions and the release of a draft

`DraftReleaseProofs` proves, for any findings, paragraphs, texts, users,
requests, retries and restarts:

| Theorem | Says |
|---|---|
| `TypeCorrect` | the type invariant |
| `OneChange` | at most one change is selected for a paragraph |
| `ChoicesKept` | no retry, check or approval takes a person's choice away |
| `CheckCurrent` | the check shown with a finished review is about the text selected now |
| `ApprovalCurrent` | the approval on record covers every decision as it is now |
| `ExportCurrent` | a file is sent only if it is the draft of that moment |
| `OneCall` | a request costs one model call at most |
| `NoOverwriteWithoutRetry` | with one attempt, a decision is only replaced by somebody who saw it |

The assumptions are `ConstantsAssumption` and `NoneAssumption`: types, that the
order of findings is total (`rank` sorts by severity, paragraph and id), and
that "nothing yet" is not a draft.

The argument. A paragraph has one change because a draft is built by taking the
first finding of each paragraph (the order is total, so there is one first),
because a decision is refused beside a person's selection and displaces a model
draft, and because selections are only made on paragraphs of the contract
(`Selectables`). A person's choice survives because the only steps that rebuild
drafts are those of an attempt, an attempt is only queued where no person has
decided, and a running one starts from nothing (`Rebuilding`). A check or
approval that is shown carries the draft it is about, and every step that changes
the draft's selected text removes them (`Releases`). `NoOverwriteWithoutRetry` is
the other half of the finding `draft_stale`: versions only grow within an
attempt, so equal versions mean the same decision (`Pages`), and it takes a
rebuilt draft, whose versions start again, to defeat them.

### The engines

`ReviewRunProofs` proves, for any groups, slots, budget and retries, and `ChatRunProofs`
for any limits of the chat engine:

| Theorem | Says |
|---|---|
| `TypeCorrect`, `ChatTypeCorrect` | the type invariants; no counter passes its maximum, no more slots are out than there are |
| `CompletedIsAll` | a completed review has every group saved, and no thread failed or is under way |
| `OnlyCheckpoints` | the row changes as `ReviewQueue` assumes of an attempt: one group at a time, no more calls counted than the budget, nothing after the review is another's |
| `DraftIsDelivered` | with a readable draft saved, a fast review fails only by lost access or a refusal for good |
| `NothingAskedTwice` | what the row holds of a conversation is not asked of the model again |

In the v2 engine the threads share a copy of the payload, and each property is about the row.
`Synced` ties them; `Phases`, `Verifying` and `Queue` say what the main thread may conclude
from where it is (after its loop no job of a group is under way); `Recorded` says that a
failure no thread has reported yet is in the failures or on its way there, without which a
review could be completed between a thread's failure and its report. `SlotsInv` counts the
slots: it is the type invariant that needs the others, not the other way round.

In the chat engine the hard part is that the attempt's copy and the row differ while a write
is under way or has failed. `Behind` orders them: the row of a running attempt never holds an
answer its attempt lacks. With it, "only asked where the copy has no answer" (`Asking`) is
enough for `NothingAskedTwice`, over any number of attempts, since each starts from the row.

### Matters and ingestion

`MattersProofs` and `IngestionProofs` prove, for any users, matters, documents, uploads,
contents and worker threads:

| Theorem | Says |
|---|---|
| `TypeCorrect` | the type invariant of `Matters` |
| `MattersAreLed` | a matter has a lead, in whatever order roles change and people leave |
| `AuditIsComplete` | the last event of the audit log about a document in a matter tells whether it is linked |
| `UploadsFiledOnce` | however often a finished job is read, and whatever fails, its upload is filed once |
| `RegisteredDocumentsAreReady` | without faults, an entry of the registry has the files of its content unless it is being deleted |
| `DeletionsAreComplete` | without faults, an owner's deletion that ends leaves neither entry nor files |

Users are finitely many (`MattersAssumption`), which `MattersAreLed` needs: "more than one
lead" is a cardinality. The two theorems about `Ingestion` hold only while nothing failed, and
say so: with a fault between two of a deletion's steps the code leaves files behind, and
reports it. They rest on who may name a document. While a job makes its own, nobody has
found it (`Fresh`), so its files are as it wrote them (`OwnFiles`); and a row without paths
belongs to a document that is out of the registry for good (`Bare`), so a deletion that found
no paths has none to remove. For these proofs `Latest` (the row a look-up takes) is a relation
and no longer a maximum picked by `CHOOSE`.

### The services

`RequestProofs` and `AnswerProofs` prove of `Services`, for every value of its constants:

| Theorem | Says | Inductive invariant |
|---|---|---|
| `RepliesAreWhole`, `ModelsAreListed` | what is read as finished is whole; no model is called that left the list longer ago than a catalogue's life and a discovery | `ModelInv`: what has arrived of a reply is all of it, or as much as fits, according to how it ends (`Told`); how old a discovery and a catalogue may be (`Young`, `Catalogued`) |
| `QuestionsAreAskedOnce` | one model call for a question, one answer | `QuestionInv`: at most one request holds a row, and before its call nobody else has called (`Held`); what has no row was never asked |
| `DecisionsStand` | a candidate's decision stands; what shows as sent was mailed | `OfferInv`: a request's copy of the row fits the step it is at |
| `OnlyToldLeaves` | only what a mail told leaves the unanswered; one open row a question | `NoticeInv`: a digest that marks rows has told them; a clock that was read is past; a question has one row that a new asking is added to |
| `NewestIsRemembered` | the list is the end of what was said; the summary is the newest of what was before it, without a gap | `ChatInv`: where the summary stands in what was said (`Remembers`), that it has no older line after a newer one (`Kept`, `Shortens`), and that what a request is about to move is the list's beginning |
| `GraphAnswersScope` | triples of the documents asked about, none of a deleted one | `GraphInv`: a deleted document has no node, and a question knows which were gone when it began |
| `AnswersAreConfined` | the primary search finds what the caller may read, inside the matter; a user's sources, in every layer, are the user's own or everybody's | `ScopeInv`: an empty list of documents reaches the search only where everything is allowed |
| `ForgottenStaysUnused` | a deleted memory is in no later answer | `RememberInv`: a row once marked stays so, whatever is written to it |
| `OneEndOneAnswer` | one end; the answer is what was seen and what is remembered | `StreamInv`, `TextInv`: of the events sent *and under way*, all but the last are plain and their tokens are the answer so far |
| `CompleteIsCovered` | an answer not called partial covers its targets | `StreamInv` (`RunInv`) |
| `PagesAreReadOrNoted` | a page has its own text, or a note | `ParserInv`: one admitted call, and in the pipe nothing but its job or its result |

Three of them are worth a second look.

`ChatInv` is why `append_message` writes the summary before it trims the list. What was said
since a key of the session was last lost is `said`; the list is its end from some `k` on, and
the summary is about its first `n`, with `k <= n`, so that nothing falls between them: messages
may be in both, and a roll that is repeated after a failure adds to the summary what it has.
The summary is cut to its end, so it need not have the first `n`; it has no line without all
later ones, after it (`Kept`), and the last of them if anything has words. Trimming needs that the
summary has what goes, which is known only between the two commands (`Shortens`), and that the
summary does not expire between them: it cannot, for the `SET` that wrote it cleared its time to
live. The number of messages, the lengths of list, history and summary, and the failures are
arbitrary. Messages of one text are still two messages here: the model gives each an identity,
so that the property can say which of them is remembered.

What a session does *not* promise, and the documentation agrees
(`docs/legal-agent/00-alignment.md:80`): lines older than the summary's 2400 characters are gone
for good, of a line longer than that the summary has an end only, and a key that expires takes
its part with it (`said` begins again). A history gives the summary and the last eight messages
of a list of twenty: those between are in neither, though still stored, and the page shows them.

`ParserInv` is about a pipe whose reader may have given up. A call that nobody waits for goes
on, and its result comes when the next call may already have been made; it is not taken for
the next one's, because the next is only admitted when the handler of the first is through
(`Admission`), and because a reader that gives up replaces the process and the pipe with it
(`Pipe`: what is in it belongs to the one call that converts). The property says nothing
about two processes of the service: there is one.

`AnswerRun` composes three threads by two queues. `Sent` is what the client has followed by
what is on its way, and the invariants speak of it alone: a step of the producer appends to
it, a delivery leaves it as it is. The agent's thread is only heard while the producer waits
for it, which is what rules a step behind the end out.

### What is only model-checked

Liveness (`NeverStuck`, `QueuedIsServed`, `CheckSlotFrees`, `AttemptsEnd`, `UploadIsFiled`,
`JobEnds`, `RoutingRecovers`), with the fairness it needs, since the prover has no rules for
it beyond propositional temporal logic; the five findings, which are counterexamples; and the
type invariants of the modules whose theorems are about a composition, where the inductive
invariants carry the types their proofs use and no more. `Routing` has no safety property of
its own and no theorem.

## Not modelled, and the plan

Left, in this order:

1. Further theorems: that an attempt of `ReviewRun` is an attempt of `ReviewQueue`, as a
   refinement instead of the property `WritesAreCheckpoints`; the same of `ChatRun`; the circuit
   of `Routing` (what a closed circuit implies of its counter).
2. Contract and policy versions: one confirmation of a redaction, optimistic versions, a
   review's snapshot of policies.
3. The daily points (`services/rate_limit.py`), read and written in two steps, so that
   concurrent requests are charged once.

Not planned, and why:

* Prompts, the reading of findings, research heuristics, ranking, quality gates, redaction,
  file formats, layout of mails and pages: sequential computation on texts, without state
  that others share. Where they decide what happens next, the model leaves both outcomes.
* The resolver of general questions: a further source of text inside a step that is modelled.
* Accounts and sessions: one statement per request, whose rules are constraints of the
  tables.
* The configured inventory of models, and keys: they change with a restart only.
* Administrators in `Matters`, who pass every owner rule; `mark_resolved` of the
  notifications, which nothing in the product calls; two deletions at a time, the remote
  vector stores. Of the Redis keys of a chat, the time to live of the index alone is not
  followed: it may be lost at any time (`ExpireIndex`). Keys that a failed command leaves without
  a time to live stay until they are used again, which no property is about.
* Frontend: presentation. A user who acts on an old page is in `DraftRelease`.
