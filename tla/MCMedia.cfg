SPECIFICATION FairSpec
CONSTANTS
  c1 = c1
  c2 = c2
  w1 = w1
  w2 = w2
  u1 = u1
  u2 = u2
  Users <- MCUsers
  Assets = {1, 2, 3}
  Videos = {3}
  Keys = {"k", "l"}
  Texts = {"t", "s"}
  Calls <- MCCalls
  Cleaners <- MCCleaners
  Uploaded <- MCUploaded
  Workloads <- MCWorkloads
  Ttl = 1
  RetryDelay = 1
  BatchSize = 2
  MaxTime = 2
  MaxFailures = 1
INVARIANTS
  ShownOnce
  AnswersAreTrue
  CommentsNeverDeadlock
PROPERTIES
  AttachedIsKept
  CleanUpCatchesUp
