SPECIFICATION EditSpec
CONSTANTS
  ann = ann
  bob = bob
  o1 = o1
  o2 = o2
  pen = pen
  Users <- MCUsers
  Orders <- MCOrderIds
  Keys <- OrderKeys
  ReversalKey <- MCReversalKey
  Requests = {}
  BuyerOf <- MCBuyerOf
  Variants <- MCVariants
  SellerOf <- MCSellerOf
  InitialStock <- MCStock
  Baskets <- MCBaskets
  Totals = {2}
  RewardCoin = 4
  ReturnWindow = 0
  ResponseWindow = 0
  BatchLimit = 2
  MaxEdits = 1
  MaxTime = 1
INVARIANTS
  HoldingIsPending
