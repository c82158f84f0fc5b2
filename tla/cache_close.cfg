\* A session that does not cache errors and may be closed, or told to finish by a
\* Prepare of the empty key: Gets made after that wait for a server that is gone,
\* so that the system really may stop.
SPECIFICATION Spec
CONSTANTS
  k1 = k1
  k2 = k2
  g3 = g3
  p2 = p2
  Keys <- MCKeys
  KeyOf <- MCKeyOf
  EmptyKey = noKey
  Err = err
  Nil = Nil
  Gets = {g1, g3}
  Prepares = {p1, p2}
  Peeks = {}
  Workers = {w1, w2}
  Values = {v1, v2}
  Retries = 0
  CacheOnError = FALSE
  MayClose = TRUE
INVARIANTS
  WriteChanSafe
PROPERTIES
  CacheIsStable
  CloseCompletes
CHECK_DEADLOCK FALSE
