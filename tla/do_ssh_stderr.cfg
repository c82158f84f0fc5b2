\* Standard error with -e ERRDIR.
SPECIFICATION Spec
INVARIANTS
  StderrSaved
