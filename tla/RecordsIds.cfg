\* The display ids of database ids, when a process ends between two requests
\* and the migration of all tables is run by hand.
CONSTANTS
  e1 = e1
  e2 = e2
  e3 = e3
  f = f
  g = g
  t = t
  p1 = p1
  p2 = p2
  o1 = o1
  o2 = o2
  v1 = v1
  l1 = l1
  IdProject = {p1, p2}
  Row = {e1, e2, e3, f, g, t}
  KindOf <- Kinds6
  OwnerOf <- Owners
  AgeOf <- Ages
  HashOf <- Hashes
  LinkedTo <- Links6
  Requester = {w1}
  MaxSequence = 4
  NoRow = NoRow
  Finding = {f}
  Reader = {c1, c2}
  MaxVersions = 3
  NoFinding = NoFinding
  RequestedReplays = 2
  FailCode = 1
  NoCode = NoCode
  Project = {p1, p2, p3}
  DefaultProject <- Seeds
  Directory = {d1}
  Allowed = {d1}
  Temporary = {d1}
  Disk <- Disks
  Client = {c1, c2}
  NoProject = NoProject
  NoDirectory = NoDirectory
  ClosurePlan = {v1}
  ProjectOf <- Owning
  Objective <- Objectives
  Evaluator = {c1}
  BucketOf <- OneBucket
  MaxItems = 2
  MaxWork = 1
  NoObjective = NoObjective
  NoPlan = NoPlan
  Worker = {a, b, c}
  Spare = {d}
  Simulated = {a, b}
  Promoter = {w1, w2}
  Signature = {1, 2}
  MaxOutcomes = 2
  Pass = {w1, w2}
  Made = {0}
  MaxLocks = 1
  NoTable = NoTable
  Job = {j1}
  Retrier = {c1, c2}
  MaxTries = 2
  NoJob = NoJob
  Metered = {p1}
  Call = {1, 2}
  RunOf <- Runs1
  CostOf <- Costs
  DefaultLimit = 10
  Limit = {4}
  Page = 1
  MaxUpdates = 1
  AllRuns = AllRuns
  NoRun = NoRun
  Log = {l1, l2, l3}
  LogKind <- LogKinds
  RunOfLog <- LogRuns
  SchedulerLog = l3
  LogRun = {w1}
  Cleanup = {c1, c2}
  MaxLines = 1
  NoLog = NoLog
  Rostered = {a, b, c}
  Policed = {c}
  Bound <- Bindings
  FirstModel <- FirstModels
  Viewer = {c1}
  MaxActs = 2
  Resolved = Resolved
  NoAgent = NoAgent
  NoModel = NoModel
  RepoPath = {d1}
  Inspector = {c1, c2}
  QuestionPage = 1
  MaxQuestions = 3
  MaxChanges = 1
  NoPath = NoPath
  MaxDecisions = 1
  DraftPlan = {v1}
  Codebase <- Codebases
  Wish = {"", "DEEP", "FULL_SOC"}
  RequiredOf <- Required
  MaxApprovals = 2
SPECIFICATION Spec
PROPERTIES DisplayIdsPersist
CHECK_DEADLOCK FALSE
