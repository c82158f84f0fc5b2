\* Every combination of the options that ParseOptions accepts.
SPECIFICATION Spec
INVARIANTS
  TypeOK
  OutputComplete
PROPERTIES
  ReturnReleases
  JobEnds
