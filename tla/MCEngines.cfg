\* One group and one slot that another review uses once, a retry of each kind; two groups and two
\* slots; two attempts of the chat engine with a continuation, two fixes, a retry of each kind.
SPECIFICATION EnginesSpec
CONSTANTS
  Task = {g1, g2}
  g1 = g1
  NoTask = NoTask
  Workers = 2
  Slots = 1
  Budget = 3
  RateRetries = 1
  TransientRetries = 1
  OtherCalls = 1
  MaxRequests = 7
  MaxContinuations = 1
  MaxFixes = 2
  ChatRetries = 1
  MaxAttempts = 2
INVARIANTS CompletedMeansAll DraftDelivered
PROPERTIES WritesAreCheckpoints AttemptsEnd NoAnswerTwice
