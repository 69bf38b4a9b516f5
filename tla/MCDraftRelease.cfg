\* Two users decide and approve, one exports, over two findings that suggest the same; one retry.
SPECIFICATION Spec
CONSTANTS
  f1 = f1
  f2 = f2
  b1 = b1
  a = a
  b = b
  u1 = u1
  NoBlock = NoBlock
  NoText = NoText
  None = None
  Model = Model
  Finding = {f1, f2}
  Block = {b1}
  BlockOf <- Blocks
  Text = {a}
  Suggestion <- SameTexts
  Rank <- Ranks
  User = {u1, u2}
  Request = {}
  Requester <- Requesters
  Exporter = {u1}
  LeaseTime = 0
  MaxVersion = 2
  MaxAttempts = 2
INVARIANTS OneChangePerBlock ApprovalIsCurrent
PROPERTIES HumanChoicesKept ExportIsCurrent
