\* A session that is never closed, as in production: errors are cached and a
\* failed call of the Updater is retried once.
SPECIFICATION Spec
CONSTANTS
  k1 = k1
  k2 = k2
  g3 = g3
  p2 = p2
  Keys <- MCKeys
  KeyOf <- MCKeyOf
  EmptyKey = noKey
  Err = err
  Nil = Nil
  Gets = {g1, g2, g3}
  Prepares = {p1}
  Peeks = {q1}
  Workers = {w1, w2}
  Values = {v1, v2}
  Retries = 1
  CacheOnError = TRUE
  MayClose = FALSE
INVARIANTS
  TypeOK
  SingleFlight
  UpdaterCalls
  SuccessIsServed
  BroadcastReachesWaiters
  NoOrphanWaiter
PROPERTIES
  ImplementsFetchOnce
