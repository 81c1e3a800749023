SPECIFICATION FairSpec
CONSTANTS
  Home = home
  Far = far
  Refs = {1}
  MaxLinks = 2
  p1 = p1
  p2 = p2
  n1 = n1
  n2 = n2
  Parents = {p1, p2}
  NodeOf <- PlacementOf
  MaxAttempts = 2
  Spawners <- OneSpawner
  MaxLost = 1
CHECK_DEADLOCK FALSE
INVARIANTS RemoteDownOnce InstancesAccounted DeadChildReported OkMeansExit
PROPERTIES  ShutdownReturns
