CONSTANTS
  None = None
  Parent = Parent
  StagesOf <- MCStages
  Seats = 2
  s1 = s1
  r1 = r1
  r2 = r2
  Sessions = {s1, s2}
  Runs = {r1, r2}
  ActiveCap = 1
  FollowerCap = 2
  ModelWeight = 5
  Begins <- MCBegins
  MaxRevision = 2
  MaxDisturbances = 1
  MaxSelections = 2
  Session = s2
  Run = r1
  Children <- MCChildren
  ParentOf <- MCParentOf
  Remote = {2, 5}
  Calls <- MCCalls
  Scenarios <- MCScenarios
  MaxDisposed = 1
  Bindings <- MCBindings
SPECIFICATION MCSpec
INVARIANTS
  ReceiptReachesFeed
  ClientFollowsHost
  ReceiptTablesHold
PROPERTIES
  SelectedClientCatchesUp
CHECK_DEADLOCK FALSE
