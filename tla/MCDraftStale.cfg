\* A retry resets versions: a stale page overwrites a decision it never showed.
SPECIFICATION Spec
CONSTANTS
  f1 = f1
  f2 = f2
  b1 = b1
  a = a
  b = b
  u1 = u1
  NoBlock = NoBlock
  NoText = NoText
  None = None
  Model = Model
  Finding = {f1, f2}
  Block = {b1}
  BlockOf <- Blocks
  Text = {a, b}
  Suggestion <- Texts
  Rank <- Ranks
  User = {u1, u2}
  Request = {}
  Requester <- Requesters
  Exporter = {}
  LeaseTime = 0
  MaxVersion = 2
  MaxAttempts = 2
SYMMETRY Symmetry
PROPERTIES NoUnseenOverwrite
