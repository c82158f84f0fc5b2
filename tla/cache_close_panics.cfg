\* The calls of TestUpdaterCalledOnceWithPrepare: a Get and a Prepare of one key,
\* then Close.
SPECIFICATION Spec
CONSTANTS
  k1 = k1
  k2 = k2
  g3 = g3
  p2 = p2
  Keys <- MCKeys
  KeyOf <- MCKeyOf
  EmptyKey = noKey
  Err = err
  Nil = Nil
  Gets = {g1}
  Prepares = {p1}
  Peeks = {}
  Workers = {w1}
  Values = {v1}
  Retries = 0
  CacheOnError = FALSE
  MayClose = TRUE
INVARIANTS
  NoPanic
