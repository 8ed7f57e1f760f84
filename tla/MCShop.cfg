SPECIFICATION Spec
CONSTANTS
  ann = ann
  home = home
  depot = depot
  first = first
  second = second
  pen = pen
  red = red
  blue = blue
  c1 = c1
  c2 = c2
  Users <- MCUsers
  Addresses <- MCAddresses
  Applications <- MCApplications
  Products <- MCProducts
  Variants <- MCVariants
  AddressOf <- MCAddressOf
  ApplicantOf <- MCApplicantOf
  SellerOf <- MCSellerOf
  ProductOf <- MCProductOf
  Prices = {1, 2}
  Calls <- MCCalls
SYMMETRY Interchangeable
INVARIANTS
  AddressesAreKept
  SellersAreApproved
  PriceRangeIsExact
  SearchesAgree
