SPECIFICATION Spec
CONSTANTS
  Route = Route
  Model = Model
  Entities <- RouteOnly
  NoEntity = NoEntity
  Files = {2}
  KindOf <- RouteKind
  FilesOf <- RouteFile
  ModelOf <- RouteModel
  Shapes = {a}
  Absent = Absent
  MaxCommits = 2
  Services = {"orders", "payments"}
  Links <- RouteLinks
  NamesLike <- OwnNameOnly
  RealLLM = TRUE
  MaxRuns = 2
  ManifestSets <- AnyManifest
  OwnerOf <- RouteOwner
  NameOf <- ParameterName
  IdRank <- RouteRank
  Uses <- OwnCall
  Spellings = {}
  Parameters <- AnyParameter
  Words = {"v1", "charge"}
  Runtime = Runtime
  MaxExtracts = 1
  ExtractFirst = FALSE
  InOrder = FALSE
CHECK_DEADLOCK FALSE
INVARIANTS
  CompletedCommitsRecorded
  EventsExact
  BreakingSound
PROPERTIES
  OriginWriteOnce
