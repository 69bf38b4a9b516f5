\* One review, two threads, one restart: fencing, progress, decisions, the lifecycle users are promised.
SPECIFICATION Spec
CONSTANTS
  Review = {r1}
  User = {u1}
  Owner <- OneOwner
  Token = {t1, t2, t3}
  Batch = {b1, b2}
  LeaseTime = 1
  StaleTime = 0
  QueueLimit = 1
  OwnLimit = 1
  PoolSize = 2
  Budget = 1
  MaxWaiting = 2
  MaxCrashes = 1
  NoToken = NoToken
  NoReview = NoReview
SYMMETRY SafetySymmetry
INVARIANTS TypeOK WriterIsCurrent
PROPERTIES ImplementsLifecycle NoLostProgress DecisionsAreKept CancelledIsFinal
