SPECIFICATION Spec
CONSTANTS
  c1 = c1
  c2 = c2
  c3 = c3
  o1 = o1
  o2 = o2
  o3 = o3
  Variants <- MCVariants
  Orders <- MCOrders
  InitialStock <- MCStock
  InitialOrders <- MCInitialOrders
  Calls <- MCCalls
  Workloads <- MCWorkloads
  Isolations = {"REPEATABLE READ", "READ COMMITTED"}
INVARIANTS
  NothingOversold
  CommittedHistoryExplainsStock
PROPERTIES
  ImplementsInventory
