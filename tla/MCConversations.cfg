SPECIFICATION Spec
CONSTANTS
  c1 = c1
  c2 = c2
  c3 = c3
  old = old
  Users <- MCUsers
  ClientIds = {"a", "b", "x", "y"}
  Texts = {"hello", "bye"}
  Calls <- MCCalls
  Old = old
  OldPair <- MCPair
  Histories <- MCHistories
  Workloads <- MCWorkloads
INVARIANTS
  ConversationsAreExact
  SentOnce
  ReadersNeverDeadlock
PROPERTIES
  ImplementsInbox
