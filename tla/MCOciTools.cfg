SPECIFICATION FairSpec
CONSTANTS
  Ids = {"r", "a", "b", "c"}
  Root = "r"
  Outside = "outside"
  None = "none"
  Worlds <- MCWorlds
  MaxMoves = 2
  Calls <- MCCalls
  Collections <- MCCollections
  Denied = {"a"}
  PageMax = 2
  Policies <- MCPolicies
  PolicyPage = 2
  PartOf <- MCPartOf
CHECK_DEADLOCK FALSE
INVARIANTS
  TypeOK
  StayersFound
  FoundIsTree
  NodesPlaced
  CompleteUnlessSaid
  WithinLimit
  PolicyNotPicked
PROPERTY
  AlwaysReturns
