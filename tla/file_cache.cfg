\* Three runs, answers of two sizes, and a clock that lets a file expire.
SPECIFICATION Spec
CONSTANTS
  Runs = {r1, r2, r3}
  Sizes = {1, 2}
  Expiration = 0
  Retrying = {r1}
  MaxTime = 1
  None = None
  Err = Err
INVARIANTS
  TypeOK
  NothingExpired
  UpdateIsSeen
PROPERTIES
  EveryRunAnswered
CHECK_DEADLOCK FALSE
