CONSTANTS
  PlanVersions = {1, 2}
  Fences = {1, 2}
  Generations = {1, 2}
  ReclaimCounts = {0, 1, 2}
  Steps = {1, 2, 3}
  Tasks = {t1}
  Attempts = {}
  Mails = {m1}
  Continuations = {c1}
  Plans = {p1, p2}
  Owners = {o1}
  Routes = {r1, r2}
  Children = {s1}
  MailKeys = {k1, k2}
  Receipts = {d1, d2, d3}
  Decisions = {x1}
  MaxDecisions = 2
  RunStatuses = {"created", "completed"}
  TaskStatuses = {"running", "succeeded"}
  AttemptStatuses = {"started", "settled"}
  None = None
SPECIFICATION MCSpec
INVARIANT FenceNeverDecreases
CHECK_DEADLOCK FALSE
