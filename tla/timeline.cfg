SPECIFICATION Spec
CONSTANTS
  Route = Route
  Model = Model
  Entities <- Org
  NoEntity = NoEntity
  Files = {1, 2}
  KindOf <- OrgKinds
  FilesOf <- OneFileEach
  ModelOf <- OrgModels
  Shapes = {a, b}
  Absent = Absent
  MaxCommits = 3
  Services = {"orders"}
  Links <- OrgLinks
  NamesLike <- OwnNameOnly
  RealLLM = FALSE
  MaxRuns = 2
  ManifestSets = {{}}
  OwnerOf <- OrgOwner
  NameOf <- OrgName
  IdRank <- OrgRank
  Uses = {}
  Spellings = {}
  Parameters = {"{}"}
  Words = {"v1", "charge"}
  Runtime = Runtime
  MaxExtracts = 0
  ExtractFirst = FALSE
  InOrder = TRUE
SYMMETRY ShapeSymmetry
CHECK_DEADLOCK FALSE
INVARIANTS
  CompletedCommitsRecorded
  EventsExact
  TimelineOldestFirst
  BoundsBookendTimeline
  ReplayGivesHead
