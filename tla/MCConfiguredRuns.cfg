CONSTANTS
  None = None
  FanoutMax = 8
  LimitMaximums <- MCLimitMaximums
  Strategies <- MCStrategies
  Proposals <- MCProposals
  Authorities <- MCAuthorities
  Deployment <- MCDeployment
  DeltaBounds <- MCDeltaBounds
  Bounds <- MCBounds
  OutputBytes = {0, 2}
  MaxConcurrent = 3
  Weights = {1, 2}
  MaxReservations = 4
  MaxClock = 2
  entry0 = entry0
  renamed = renamed
  moved = moved
  bad = bad
  missing = missing
  Entry = entry0
  Sections = {renamed, bad, missing}
  Rejected = {bad}
  Unloadable = {missing}
  Routed = {renamed}
  ToolOf <- MCToolOf
  ProviderOf <- MCProviderOf
  MaxUpsets = 1
  Config <- MCConfig
  Snapshots <- MCSnapshots
  Invocations <- MCInvocations
  Adapters = {"l1", "l2"}
  Answers <- MCAnswers
  Paths <- MCPaths
  Inodes = {1, 2}
  Sizes = {1, 2}
  MaxBytes = 3
  MaxEdits = 2
SPECIFICATION MCSpec
INVARIANTS
  PlanStaysExecutable
  DeltasStayWithinDeployment
  HistoryStands
  BudgetsHold
  AdmissionHolds
  PublicationIsCurrent
  DelegationOwnsItsChild
  ResourcesAreWhole
  TablesHold
CHECK_DEADLOCK FALSE
