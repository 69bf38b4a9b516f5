\* A leftover pool entry retries a failed review past the limit.
SPECIFICATION Spec
CONSTANTS
  Review = {r1, r2}
  User = {u1}
  Owner <- OneOwner
  Token = {t1, t2, t3}
  Batch = {}
  LeaseTime = 1
  StaleTime = 1
  QueueLimit = 1
  OwnLimit = 1
  PoolSize = 1
  Budget = 1
  MaxWaiting = 3
  MaxCrashes = 0
  NoToken = NoToken
  NoReview = NoReview
SYMMETRY TokenSymmetry
PROPERTIES RetriesWithinLimits
