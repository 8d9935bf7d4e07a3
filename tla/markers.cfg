SPECIFICATION OperationSpec
CONSTANTS
  Route = Route
  Entities <- RouteOnly
  NoEntity = NoEntity
  Files = {2}
  KindOf <- RouteKind
  FilesOf <- RouteFile
  ModelOf <- RouteModel
  Shapes = {a}
  Absent = Absent
  MaxCommits = 2
  Services = {"orders", "payments"}
  Links <- RouteLinks
  NamesLike <- OwnNameOnly
  RealLLM = FALSE
  MaxRuns = 0
  ManifestSets <- RouteManifest
  OwnerOf <- RouteOwner
  NameOf <- RoutesName
  IdRank <- RouteRank
  Uses = {}
  Spellings = {}
  Parameters = {"{}"}
  Words = {"v1", "charge"}
  Runtime = Runtime
  MaxExtracts = 0
  ExtractFirst = FALSE
  InOrder = FALSE
  Sessions = {p, q}
  MaxSyncs = 5
  SyncWhenIngested = FALSE
  MaxCrashes = 1
CHECK_DEADLOCK FALSE
PROPERTIES
  MarkersSettle
