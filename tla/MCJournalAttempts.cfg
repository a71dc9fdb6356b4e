CONSTANTS
  PlanVersions = {1, 2}
  Fences = {1, 2}
  Generations = {1}
  ReclaimCounts = {0, 1, 2}
  Steps = {}
  Tasks = {t1, t2}
  Attempts = {a1}
  Mails = {}
  Continuations = {}
  Plans = {}
  Owners = {o1}
  Routes = {r1, r2}
  Children = {s1}
  MailKeys = {k1, k2}
  Receipts = {}
  Decisions = {}
  MaxDecisions = 0
  RunStatuses = {"created", "completed"}
  TaskStatuses = {"running", "succeeded"}
  AttemptStatuses = {"started", "settled"}
  None = None
SPECIFICATION MCSpec
SYMMETRY TaskSymmetry
PROPERTIES
  StaleAttemptFrozen
  BoundRouteFixed
CHECK_DEADLOCK FALSE
