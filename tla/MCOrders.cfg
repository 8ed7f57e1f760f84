SPECIFICATION FairSpec
CONSTANTS
  ann = ann
  bob = bob
  o1 = o1
  o2 = o2
  pen = pen
  Users <- OneSellerUsers
  Orders <- OneSellerOrders
  Keys <- OrderKeys
  ReversalKey <- NoReversals
  Requests = {}
  BuyerOf <- OneSellerBuyerOf
  Variants <- OneSellerVariants
  SellerOf <- OneSellerSellerOf
  InitialStock <- OneSellerStock
  Baskets <- OneSellerBaskets
  Totals = {0, 2, 3}
  RewardCoin = 5
  ReturnWindow = 1
  ResponseWindow = 1
  BatchLimit = 2
  MaxTime = 4
INVARIANTS
  WalletsFollowOrders
  SettledOnce
  RefundsAndSettlementsAgree
  TracesFollowOrders
PROPERTIES
  SettledIsFinal
  ReleasedOnTime
  ImplementsEscrow
  RefundsAreAnswered
  DeliveredIsSettled
