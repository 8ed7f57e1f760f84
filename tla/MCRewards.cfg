SPECIFICATION FairRewardsSpec
CONSTANTS
  buyer = buyer
  seller = seller
  Users <- MCUsers
  Keys <- MCKeys
  ReversalKey <- MCReversalKey
  Requests <- MCRequests
  Proofs <- MCProofs
  RewardKey <- MCRewardKey
  ProofCoin = 2
INVARIANTS
  BalancesMatchEntries
  ReversalsCancel
  RewardedIsPaid
PROPERTIES
  ProofsAreDecided
