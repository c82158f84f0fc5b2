\* Command lines in two families, see MCRoute.
SPECIFICATION Spec
CONSTANTS
  Invocations <- MCInvocations
  Clusters <- MCClusters
  Longs <- MCLongs
  Numbers <- MCNumbers
  Endpoints <- MCEndpoints
  Blanks = {" "}
  CPUs = 4
  Unlimited = 100
  NoArgument = "no argument"
  Instances <- MCInstances
  NetworksOf <- MCNetworksOf
  ImageOf <- MCImageOf
  Colons = {"i3"}
  Bastion = "hub address"
  Networks = {"n1", "n2"}
  Images = {"m1", "m2"}
  Filters <- MCFilters
  HasInput = TRUE
  Placeholder = {"{}:/tmp"}
  Target = "target"
  Nil = Nil
INVARIANTS
  TypeOK
  FileIsApart
  FitForMain
  LastGivenIsTried
  NeverDirectBlindly
  PublicMeansAny
  FilterAgreesWithRoute
  BastionAsAsked
  EmptyBastionOnlyForced
  NamedAreTaken
  PrintedIsFirstReachable
CHECK_DEADLOCK FALSE
