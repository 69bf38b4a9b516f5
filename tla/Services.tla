-------------------------------- MODULE Services --------------------------------
(* The services around the reviews in one specification. They share nothing that  *)
(* they model, so one of them runs at a time, on the same variables x1 .. x10:     *)
(* `part` says which one, and the variables it does not need are off. Constants    *)
(* of the modules keep their names; those of which there are several have the      *)
(* service's name before theirs.                                                   *)
EXTENDS Naturals, FiniteSets, Sequences

CONSTANTS
  Target, Named, Documented, MaxRounds, MaxTokens, AnswerFaults, NoTarget,
  Offer, Handler, Blank, KnownBlank, Cooldown, SendingTimeout, OfferHorizon, NoRow,
  Doc, Own, Global, NoDoc,
  Memo, Fact, Learner, MemoryAsker, NoMemo, NoSettings, NoFile, MemoryFaults,
  Session, ChatMessage, Wordless, MaxMessages, HistoryLimit, SummaryRoom, NoSession, NoMessage, RedisFaults,
  GraphDoc, Entity, GraphChunk, Extraction, Syncer, Eraser, Reader, GraphFaults,
  Upload, Scans(_), Pictures(_), Word, MaxPages, NoJob, ParserFaults,
  Review, QuestionRequest, Text, Asker, Lease, Window, RecentLimit, TotalLimit, QuestionHorizon,
  Query, Digest, DedupWindow, LookBack, ListLimit, NoticeMail, Asks, NoticeHorizon,
  ModelCaller, Room, Ttl, FetchTime, ModelHorizon

VARIABLES part, x1, x2, x3, x4, x5, x6, x7, x8, x9, x10

From9 == <<x9, x10>>
From8 == <<x8, From9>>
From7 == <<x7, From8>>
From5 == <<x5, x6, From7>>
vars == <<part, x1, x2, x3, x4, From5>>

Off10 == x10 = "off"
Off9 == x9 = "off" /\ Off10
Off8 == x8 = "off" /\ Off9
Off7 == x7 = "off" /\ Off8
Off5 == x5 = "off" /\ x6 = "off" /\ Off7

Answer == INSTANCE AnswerRun WITH
  request <- x1, at <- x2, context <- x3, parts <- x4, run <- x5, steps <- x6, events <- x7,
  got <- x8, remembered <- x9, raised <- x10

Offers == INSTANCE Offers WITH
  rows <- x1, handler <- x2, mailed <- x3, now <- x4, Horizon <- OfferHorizon

Scope == INSTANCE RetrievalScope WITH
  ask <- x1, scope <- x2, phase <- x3, source <- x4

Remember == INSTANCE UserMemory WITH
  settings <- x1, memos <- x2, file <- x3, temp <- x4, actor <- x5, failed <- x6,
  Asker <- MemoryAsker

Chat == INSTANCE ChatMemory WITH
  record <- x1, messages <- x2, summary <- x3, index <- x4, made <- x5, request <- x6, said <- x7,
  broken <- x8, timed <- x9, Message <- ChatMessage

Graph == INSTANCE GraphStore WITH
  graph <- x1, sync <- x2, erase <- x3, ask <- x4, erased <- x5, lost <- x6, Doc <- GraphDoc, Chunk <- GraphChunk

Parser == INSTANCE DocumentParser WITH
  upload <- x1, handler <- x2, admission <- x3, child <- x4, inbox <- x5, outbox <- x6, ready <- x7,
  deaths <- x8

Questions == INSTANCE ReviewQuestions WITH
  rows <- x1, asker <- x2, called <- x3, replied <- x4, askable <- x5, allowed <- x6, now <- x7,
  Horizon <- QuestionHorizon, Request <- QuestionRequest

Notify == INSTANCE Notifications WITH
  rows <- x1, queue <- x2, writer <- x3, digest <- x4, told <- x5, asked <- x6, now <- x7,
  Horizon <- NoticeHorizon, Mail <- NoticeMail

Model == INSTANCE Gateway WITH
  setting <- x1, catalog <- x2, call <- x3, now <- x4, Horizon <- ModelHorizon, Caller <- ModelCaller

ASSUME AnswerConstants == Answer!AnswerAssumption
ASSUME OffersConstants == Offers!OffersAssumption
ASSUME ScopeConstants == Scope!ScopeAssumption
ASSUME MemoryConstants == Remember!UserMemoryAssumption
ASSUME ChatConstants == Chat!ChatMemoryAssumption
ASSUME GraphConstants == Graph!GraphStoreAssumption
ASSUME ParserConstants == Parser!ParserAssumption
ASSUME QuestionsConstants == Questions!QuestionsAssumption
ASSUME NoticeConstants == Notify!NotificationsAssumption
ASSUME ModelConstants == Model!GatewayAssumption

-------------------------------------------------------------------------------

ServicesInit ==
  \/ part = "answer" /\ Answer!AnswerInit
  \/ part = "offers" /\ Offers!Init /\ Off5
  \/ part = "scope" /\ Scope!Init /\ Off5
  \/ part = "memory" /\ Remember!Init /\ Off7
  \/ part = "chat" /\ Chat!Init /\ Off10
  \/ part = "graph" /\ Graph!Init /\ Off7
  \/ part = "parser" /\ Parser!Init /\ Off9
  \/ part = "questions" /\ Questions!Init /\ Off8
  \/ part = "notify" /\ Notify!Init /\ Off8
  \/ part = "model" /\ Model!Init /\ Off5

ServicesNext ==
  /\ UNCHANGED part
  /\ \/ part = "answer" /\ Answer!AnswerNext
     \/ part = "offers" /\ Offers!Next /\ UNCHANGED From5
     \/ part = "scope" /\ Scope!Next /\ UNCHANGED From5
     \/ part = "memory" /\ Remember!Next /\ UNCHANGED From7
     \/ part = "chat" /\ Chat!Next /\ UNCHANGED x10
     \/ part = "graph" /\ Graph!Next /\ UNCHANGED From7
     \/ part = "parser" /\ Parser!Next /\ UNCHANGED From9
     \/ part = "questions" /\ Questions!Next /\ UNCHANGED From8
     \/ part = "notify" /\ Notify!Next /\ UNCHANGED From8
     \/ part = "model" /\ Model!Next /\ UNCHANGED From5

ServicesSpec == ServicesInit /\ [][ServicesNext]_vars

-------------------------------------------------------------------------------
(* Properties of the modules, as this run checks them *)

\* A response has one end, and at its end the answer the client saw; a complete answer of the
\* agent covers every target it was given.
StreamEndsOnce == part = "answer" => Answer!StreamEndsOnce /\ Answer!AnswerIsOne
CompleteMeansCovered == part = "answer" => Answer!CompleteMeansCovered

\* What a candidate decided stands until an admin changes it; an offer that shows as sent was.
DecisionStands == [][part = "offers" => Offers!DecisionStands /\ Offers!SentWasMailed']_vars

\* The search a question asked for stays within what its caller may retrieve and within the matter
\* named; in every layer, what a signed-in caller is shown is their own or everybody's.
ScopeConfined == part = "scope" => Scope!ScopeConfined

\* A memory that was deleted is used in no later answer; what a session
\* remembers is the newest of what was said in it.
ForgottenUnused == part = "memory" => Remember!ForgottenUnused
NewestRemembered == part = "chat" => Chat!NewestRemembered

\* The graph answers from the documents it was asked about, and from none that is deleted.
TriplesOfScope == part = "graph" => Graph!TriplesOfScope

\* The text of a page is that page's, and a page without text is noted.
PagesReadOrNoted == part = "parser" => Parser!PagesReadOrNoted

\* A question goes to the model once, and has one answer.
AnsweredOnce == part = "questions" => Questions!AnsweredOnce

\* A question leaves the list of the unanswered when a mail told of it, and is there once.
OnlyToldLeave == part = "notify" => Notify!OnlyToldLeave

\* A reply that is read as finished is whole; a model that is called was listed a moment ago.
FinishedIsWhole == part = "model" => Model!FinishedIsWhole
ListedLately == [][part = "model" => Model!ListedStep]_vars
===============================================================================
