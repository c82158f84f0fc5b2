\* A session that does not cache errors: a Get that comes after the failed fetch.
SPECIFICATION Spec
CONSTANTS
  k1 = k1
  k2 = k2
  g3 = g3
  p2 = p2
  Keys <- MCKeys
  KeyOf <- MCKeyOf
  EmptyKey = noKey
  Err = err
  Nil = Nil
  Gets = {g1, g2}
  Prepares = {}
  Peeks = {}
  Workers = {w1}
  Values = {v1}
  Retries = 0
  CacheOnError = FALSE
  MayClose = FALSE
PROPERTIES
  EveryGetReturns
CHECK_DEADLOCK FALSE
