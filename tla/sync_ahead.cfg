SPECIFICATION DeliverySpec
CONSTANTS
  Route = Route
  Entities <- RouteOnly
  NoEntity = NoEntity
  Files = {2}
  KindOf <- RouteKind
  FilesOf <- RouteFile
  ModelOf <- RouteModel
  Shapes = {a}
  Absent = Absent
  MaxCommits = 2
  Services = {"orders"}
  Links <- RouteLinks
  NamesLike <- OwnNameOnly
  RealLLM = FALSE
  MaxRuns = 2
  ManifestSets <- AnyManifest
  OwnerOf <- RouteOwner
  NameOf <- RoutesName
  IdRank <- RouteRank
  Uses = {}
  Spellings = {}
  Parameters = {"{}"}
  Words = {"v1", "charge"}
  Runtime = Runtime
  MaxExtracts = 1
  ExtractFirst = TRUE
  InOrder = FALSE
  Sessions = {p}
  MaxSyncs = 3
  SyncWhenIngested = FALSE
CHECK_DEADLOCK FALSE
INVARIANT
  NoMissedChange
