\* Fleets of none and of three instances of every kind, pages of two, and a limit of
\* none, one or all of them; two workers.
SPECIFICATION Spec
CONSTANTS
  MaxLimit = 2
  Wrap = 5
  Totals <- MCTotals
  MaxIds = 3
  None = None
  SshWorkers = {w1, w2}
  NoJob = NoJob
  Limits <- MCLimits
INVARIANTS
  TypeOK
  ChannelsClosedLast
  NoneLeftOut
  WithinLimit
PROPERTIES
  ImplementsFanOut
