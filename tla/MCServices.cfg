\* Ten small instances, one at a time; a finished request is a state to rest in.
SPECIFICATION SmallSpec
CONSTANTS
  t1 = t1
  t2 = t2
  o1 = o1
  d1 = d1
  d2 = d2
  d3 = d3
  g1 = g1
  g2 = g2
  a = a
  b = b
  u1 = u1
  u2 = u2
  p1 = p1
  p2 = p2
  h1 = h1
  h2 = h2
  NoTarget = NoTarget
  NoRow = NoRow
  NoDoc = NoDoc
  NoMemo = NoMemo
  NoSettings = NoSettings
  NoFile = NoFile
  NoSession = NoSession
  NoMessage = NoMessage
  NoJob = NoJob
\* Two entities, one with an English name and the other with a document; two calls may raise.
  Target = {t1, t2}
  Named = {t2}
  Documented = {t1}
  MaxRounds = 2
  MaxTokens = 2
  AnswerFaults = 2
\* An offer and two requests, a placeholder that the page knows and one that it does not.
  Offer = {o1}
  Handler = {h1, h2}
  Blank = {"a", "b"}
  KnownBlank = {"a"}
  Cooldown = 1
  SendingTimeout = 2
  OfferHorizon = 3
\* A document of the caller, one for everyone, one of somebody else.
  Doc = {d1, d2, d3}
  Own = {d1}
  Global = {d2}
\* Two rows of one fact, a learning thread and two requests; a vector operation fails.
  Memo = {1, 2}
  Fact = {"fact"}
  Learner = {"learner"}
  MemoryAsker = {h1, h2}
  MemoryFaults = 1
\* A session that keeps two messages in the list and gives the last of them, and a summary in which
\* one line is sure to fit; a message has no words, two commands fail.
  Session = {"s"}
  ChatMessage = {1, 2, 3, 4}
  Wordless = {2}
  MaxMessages = 2
  HistoryLimit = 1
  SummaryRoom = 1
  RedisFaults = 2
\* Two documents that say the same of two entities; a transaction fails.
  GraphDoc = {g1, g2}
  Entity = {a, b}
  GraphChunk = {"1"}
  Extraction <- SameText
  Syncer = {h1, h2}
  Eraser = {"eraser"}
  Reader = {"reader"}
  GraphFaults = 1
\* A scan of two pages, in two calls if need be, and a Word file with two pictures; a process dies.
  Upload = {u1, u2}
  Scans <- ScansOf
  Pictures <- PicturesOf
  Word = {u2}
  MaxPages = 2
  ParserFaults = 1
\* Two requests for two questions of a review; one may be asked in a unit of time.
  Review = {"review"}
  QuestionRequest = {1, 2}
  Text = {"a", "b"}
  Asker = {h1, h2}
  Lease = 1
  Window = 1
  RecentLimit = 1
  TotalLimit = 2
  QuestionHorizon = 2
\* Two questions, asked three times in all, and two digests.
  Query = {"p", "q"}
  Digest = {h1, h2}
  DedupWindow = 1
  LookBack = 2
  ListLimit = 2
  NoticeMail = TRUE
  Asks = 3
  NoticeHorizon = 3
\* A thread of a review and one of another, which call the same model.
  ModelCaller = {h1, h2}
  Room = 1
  Ttl = 2
  FetchTime = 1
  ModelHorizon = 4
INVARIANTS StreamEndsOnce CompleteMeansCovered ScopeConfined ForgottenUnused NewestRemembered TriplesOfScope PagesReadOrNoted AnsweredOnce OnlyToldLeave FinishedIsWhole
PROPERTIES DecisionStands ListedLately
SYMMETRY Symmetry
CHECK_DEADLOCK FALSE
