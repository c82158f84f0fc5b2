SPECIFICATION Spec
CONSTANTS
  MaxLimit = 3
  Wrap = 5
  Totals <- MCTotals
  MaxIds = 6
  MaxChanges = 2
  None = None
INVARIANTS
  TypeOK
  ListedOnce
  NothingMissed
  GrowthIsHarmless
  NoCacheIsFresh
PROPERTIES
  ListingEnds
