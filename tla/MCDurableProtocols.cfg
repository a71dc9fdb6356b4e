CONSTANTS
  Messages <- MCMessages
  Deliveries = {1, 2}
  Contexts <- MCContexts
  ManifestBounds <- MCManifestBounds
  ReserveFor = 1
  MaxTime = 2
  MaxGeneration = 2
  MaxFence = 2
  None = None
  Activations = {1, 2, 3}
  Tokens = {1}
  Policies <- MCPolicies
  Observations <- MCObservations
  ActivationLimit = 2
  Grants = {"write"}
  Inputs = {i1}
  Bindings = {"plan", "environment"}
  MaxLimit = 1
  Lifetime = 1
  MaxInstant = 1
  MaxOwners = 2
  MaxChanges = 1
  Sources <- MCSources
  PageBounds <- MCPageBounds
  DerivedBytes = 1
  MaxDerived = 2
  MaxNow = 2
SPECIFICATION MCSpec
INVARIANTS
  AcknowledgedAfterDurableIncorporation
  IncorporatedOncePerGeneration
  ResumptionsAreDelimited
  ReportedContinuationsAreDurable
  NoProgressPauses
  ContextIsFaithful
PROPERTIES
  ReservationEnds
CHECK_DEADLOCK FALSE
