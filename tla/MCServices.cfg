SPECIFICATION ServicesSpec
CONSTANTS
  Replicas = {r1, r2}
  Deliveries <- MCDeliveries
  Allowlist = {}
  FreshnessWindow = 1
  RateWindow = 2
  PerMinuteLimit = 1
  FloodLimit = 1
  Overlap = 1
  Suffixes = {x1, x2}
  MaxTime = 2
  MaxFaults = 1
  Models = {"m1", "m2"}
  Providers = {"p1", "p2"}
  Bundles <- MCBundles
  Assignments <- MCAssignments
  RouteCallers = {r1, r2}
  FailureThreshold = 2
  RecoveryProbeLimit = 1
  MaxFailures = 3
  MaxRouteFaults = 1
  Usages <- MCUsages
  Periods <- MCPeriods
  Hour = 2
  Builders = {r1, r2}
  MaxReports = 2
  Cutoffs = {1}
  Cards = {c1, c2}
  CardClients = {r1, r2}
  Grants = {g1}
  Admins = {a1, a2, a3}
  GrantLife = 1
  Keks = {k1, k2, k3}
  Rotators = {r1, r2}
  Credentials = {c1}
  RotationSla = 2
  Day = 2
  WarningDays = 0
  MaxAdminTime = 4
  DataRows <- MCDataRows
  Policies <- MCPolicies
  ErasureEvents <- MCEvents
  Officers = {a1, a2, a3}
  Sweepers = {s1}
  Gates = {g1}
  DpaTenants = {t1}
  DpaVersions = {v1, v2}
  Grace = 1
  MaxDay = 3
  Documents = {d1, d2}
  IngestJobs = {j1, j2}
  Threads = {r1, r2}
  Slots = {s1, s2}
  WrappingKeys = {k1, k2, k3}
  FirstKey = k1
  KeySla = 1
  MaxWrapTime = 3
  Executors = {r1, r2}
  MaxProgress = 2
  GraphNodes = {"plan", "readiness_gate", "coder", "pr_creator"}
  RequiredNodes = {"readiness_gate", "coder", "pr_creator"}
  ApprovalNodes = {}
  WriterNodes = {"coder"}
INVARIANTS
  DedupeInvariant FloodLimitHolds
  BreakerInvariant
  BlockedOnlyWhenPastDue
  ErasureInvariant GateIsSound
  IndexMatchesDocument
  SweptKeysAreUnused
  RequiredNodesDominate
PROPERTIES
  ImplementsInbox RollupsFollowFacts DeletedCardsStayDeleted
  GrantsAreSound DefaultIsKept
  ResumeKeepsProgress
SYMMETRY MCSymmetry
CHECK_DEADLOCK FALSE
