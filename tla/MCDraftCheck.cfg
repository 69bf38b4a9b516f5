\* Two checks race a user's decisions, a retry and restarts.
SPECIFICATION FairSpec
CONSTANTS
  f1 = f1
  f2 = f2
  b1 = b1
  a = a
  b = b
  u1 = u1
  NoBlock = NoBlock
  NoText = NoText
  None = None
  Model = Model
  Finding = {f1}
  Block = {b1}
  BlockOf <- Blocks
  Text = {a, b}
  Suggestion <- SameTexts
  Rank <- Ranks
  User = {u1}
  Request = {q1, q2}
  Requester <- Requesters
  Exporter = {}
  LeaseTime = 2
  MaxVersion = 2
  MaxAttempts = 2
INVARIANTS CheckIsOfThisText OneCallPerRequest
PROPERTIES CheckSlotFrees
