\* Two reviews and one thread without a restart; one review, two threads and a restart.
SPECIFICATION ProgressSpec
CONSTANTS
  r1 = r1
  Review = {r1, r2}
  User = {u1}
  Owner <- OneOwner
  Token = {t1, t2, t3}
  Batch = {}
  LeaseTime = 1
  StaleTime = 1
  QueueLimit = 2
  OwnLimit = 2
  PoolSize = 1
  Budget = 1
  MaxWaiting = 2
  MaxCrashes = 0
  NoToken = NoToken
  NoReview = NoReview
PROPERTIES NeverStuck QueuedIsServed
