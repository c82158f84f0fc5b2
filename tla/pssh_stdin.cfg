\* Standard input that cannot be saved to the temporary file.
SPECIFICATION Spec
CONSTANTS
  MaxLimit = 2
  Wrap = 5
  Totals <- MCTotals
  MaxIds = 3
  None = None
  SshWorkers = {w1, w2}
  NoJob = NoJob
  Limits <- MCLimits
INVARIANTS
  StdinReachesJobs
