\* A group redone after an error is lost when the retry fails before its end.
SPECIFICATION Spec
CONSTANTS
  Review = {r1}
  User = {u1}
  Owner <- OneOwner
  Token = {t1, t2, t3}
  Batch = {b1}
  LeaseTime = 1
  StaleTime = 1
  QueueLimit = 1
  OwnLimit = 1
  PoolSize = 2
  Budget = 2
  MaxWaiting = 2
  MaxCrashes = 0
  NoToken = NoToken
  NoReview = NoReview
SYMMETRY TokenSymmetry
PROPERTIES SavedStepsKept
