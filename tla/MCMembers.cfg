SPECIFICATION Spec
CONSTANTS
  ann = "ann"
  bob = "bob"
  tablet = tablet
  r1 = r1
  r2 = r2
  r3 = r3
  r4 = r4
  Calls <- MCCalls
  MaxFailures = 1
  Users <- MCUsers
  Phones = {"ann", "bob"}
  Owner = "ann"
  Devices <- MCDevices
  Workloads <- MCWorkloads
CHECK_DEADLOCK FALSE
INVARIANTS
  FollowsEndWithBlocks
  CodesWorkOnce
  AccountsAreKept
  PushesAreWanted
