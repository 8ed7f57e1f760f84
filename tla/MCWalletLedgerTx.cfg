SPECIFICATION FairSpec
CONSTANTS
  c1 = c1
  c2 = c2
  c3 = c3
  Users <- MCUsers
  Keys <- MCKeys
  Requests <- MCRequests
  Calls <- MCCalls
  Workloads <- MCWorkloads
  Isolations = {"REPEATABLE READ", "READ COMMITTED"}
INVARIANTS
  AppliedOnce
PROPERTIES
  EveryCallEnds
  ImplementsLedger
