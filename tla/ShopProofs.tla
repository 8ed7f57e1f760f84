----------------------------- MODULE ShopProofs -----------------------------
(***************************************************************************)
(* Theorems about Shop, for any users, rows, prices and number of          *)
(* requests at a time.                                                     *)
(***************************************************************************)
EXTENDS Shop, FiniteSetTheorems, WellFoundedInduction, TLAPS

\* What rows and requests look like; that prices are numbers is not needed.
RowsOK ==
  /\ address \in [Addresses -> [state : {"none", "live", "deleted"}, is_default : BOOLEAN]]
  /\ application \in [Applications -> [status : SellerApplicationStatus \cup {"none"}, ship_from : Addresses \cup {None}]]
  /\ profile \in [Users -> [status : SellerProfileStatus \cup {"none"}, ship_from : Addresses \cup {None}]]

\* A request to suspend or to restore a seller names a status.
StatusRequestsOK ==
  /\ DOMAIN call = Calls
  /\ call = [c \in Calls |-> call[c]]
  /\ \A c \in Calls : call[c].pc = "setStatus" => call[c].user \in Users /\ call[c].status \in SellerProfileStatus

SellersInv == RowsOK /\ StatusRequestsOK /\ AddressesAreKept /\ SellersAreApproved

\* Only these steps change an address, an application or a profile.
LEMMA SellersSteps ==
  ASSUME Next
  PROVE  \/ \E a \in Addresses : \/ \E is_default \in BOOLEAN : CreateAddress(a, is_default)
                                 \/ SetDefaultAddress(a) \/ DeleteAddress(a)
         \/ \E s \in Applications : \/ \E a \in Addresses : SubmitApplication(s, a)
                                    \/ ApproveApplication(s) \/ RejectApplication(s)
         \/ \E c \in Calls : SaveStatus(c)
         \/ UNCHANGED sellers
<1>1. ASSUME NEW c \in Calls, Request(c)
      PROVE  UNCHANGED sellers
  BY <1>1 DEF Request, ReadAdmin, CheckNew, CheckUpdate, CheckRemove, Synchronize, sellers
<1>2. ASSUME NEW c \in Calls, Continue(c)
      PROVE  SaveStatus(c) \/ UNCHANGED sellers
  BY <1>2 DEF Continue, InsertProduct, UpdateProduct, ReloadProduct, IndexProduct, RemoveVariants, RemoveProduct, UnindexProduct, sellers
<1>3. ASSUME NEW c \in Calls, Lose(c)
      PROVE  UNCHANGED sellers
  BY <1>3 DEF Lose, sellers
<1>4. QED
  BY <1>1, <1>2, <1>3 DEF Next

LEMMA SellersInvInit ==
  ASSUME Init
  PROVE  SellersInv
<1> USE DEF Init, NoAddress, NoApplication, NoProfile, Idle
<1>1. RowsOK
  BY DEF RowsOK, SellerApplicationStatus, SellerProfileStatus
<1>2. StatusRequestsOK
  BY DEF StatusRequestsOK
<1>3. AddressesAreKept
  BY DEF AddressesAreKept, OneDefault, AppliedIsLive, SellersShip
<1>4. SellersAreApproved
  BY DEF SellersAreApproved, Approved, Stands
<1>5. QED
  BY <1>1, <1>2, <1>3, <1>4 DEF SellersInv

LEMMA StatusRequestsStep ==
  ASSUME StatusRequestsOK, Next
  PROVE  StatusRequestsOK'
<1>1. ASSUME NEW c \in Calls, Request(c)
      PROVE  StatusRequestsOK'
  BY <1>1 DEF Request, ReadAdmin, CheckNew, CheckUpdate, CheckRemove, Synchronize, Goto, StatusRequestsOK
<1>2. ASSUME NEW c \in Calls, Continue(c)
      PROVE  StatusRequestsOK'
  <2>1. ASSUME NEW row, Goto(c, row), row.pc # "setStatus"
        PROVE  StatusRequestsOK'
    BY <2>1 DEF Goto, StatusRequestsOK
  <2>2. ASSUME End(c)
        PROVE  StatusRequestsOK'
    BY <2>1, <2>2 DEF End, Idle
  <2>3. CASE SaveStatus(c) \/ UnindexProduct(c)
    BY <2>2, <2>3 DEF SaveStatus, UnindexProduct
  <2>4. CASE InsertProduct(c)
    BY <2>1, <2>4 DEF InsertProduct
  <2>5. CASE UpdateProduct(c)
    BY <2>1, <2>2, <2>5 DEF UpdateProduct
  <2>6. CASE ReloadProduct(c)
    BY <2>1, <2>2, <2>6 DEF ReloadProduct
  <2>7. CASE IndexProduct(c)
    BY <2>1, <2>2, <2>7 DEF IndexProduct
  <2>8. CASE RemoveVariants(c) \/ RemoveProduct(c)
    BY <2>1, <2>8 DEF RemoveVariants, RemoveProduct
  <2>9. QED
    BY <1>2, <2>3, <2>4, <2>5, <2>6, <2>7, <2>8 DEF Continue
<1>3. ASSUME NEW c \in Calls, Lose(c)
      PROVE  StatusRequestsOK'
  BY <1>3 DEF Lose, End, Goto, Idle, StatusRequestsOK
<1>4. CASE UNCHANGED call
  BY <1>4 DEF StatusRequestsOK
<1>5. QED
  BY <1>1, <1>2, <1>3, <1>4 DEF Next, CreateAddress, SetDefaultAddress, DeleteAddress, SubmitApplication, ApproveApplication, RejectApplication

\* What a saved status leaves: the same profiles, with the same addresses.
LEMMA SavedStatus ==
  ASSUME RowsOK, StatusRequestsOK, NEW c \in Calls, SaveStatus(c)
  PROVE  /\ UNCHANGED <<address, application>>
         /\ profile' \in [Users -> [status : SellerProfileStatus \cup {"none"}, ship_from : Addresses \cup {None}]]
         /\ \A u \in Users : /\ profile'[u] = NoProfile <=> profile[u] = NoProfile
                             /\ profile'[u].ship_from = profile[u].ship_from
<1>1. UNCHANGED <<address, application>>
  BY DEF SaveStatus
<1>2. CASE UNCHANGED profile
  BY <1>1, <1>2 DEF RowsOK
<1>3. CASE profile' # profile
  <2>1. PICK u \in Users, status \in SellerProfileStatus :
          profile[u].status # "none" /\ profile' = [profile EXCEPT ![u].status = status]
    BY <1>3 DEF SaveStatus, StatusRequestsOK
  <2>2. profile[u] \in [status : SellerProfileStatus \cup {"none"}, ship_from : Addresses \cup {None}]
    BY DEF RowsOK
  <2>3. profile'[u] = [status |-> status, ship_from |-> profile[u].ship_from]
    BY <2>1, <2>2 DEF RowsOK
  <2>4. \A w \in Users \ {u} : profile'[w] = profile[w]
    BY <2>1 DEF RowsOK
  <2>5. profile[u] # NoProfile /\ profile'[u] # NoProfile
    BY <2>1, <2>3 DEF NoProfile, SellerProfileStatus
  <2>6. profile' \in [Users -> [status : SellerProfileStatus \cup {"none"}, ship_from : Addresses \cup {None}]]
    BY <2>1, <2>2, <2>3, <2>4 DEF RowsOK
  <2>7. QED
    BY <1>1, <2>3, <2>4, <2>5, <2>6
<1>4. QED
  BY <1>2, <1>3

LEMMA RowsStep ==
  ASSUME RowsOK, StatusRequestsOK, Next
  PROVE  RowsOK'
<1>1. ASSUME NEW a \in Addresses, NEW is_default \in BOOLEAN, CreateAddress(a, is_default)
      PROVE  RowsOK'
  BY <1>1 DEF CreateAddress, Demoted, Live, RowsOK
<1>2. ASSUME NEW a \in Addresses, SetDefaultAddress(a)
      PROVE  RowsOK'
  BY <1>2 DEF SetDefaultAddress, Demoted, Live, RowsOK
<1>3. ASSUME NEW a \in Addresses, DeleteAddress(a)
      PROVE  RowsOK'
  BY <1>3 DEF DeleteAddress, RowsOK
<1>4. ASSUME NEW s \in Applications, NEW a \in Addresses, SubmitApplication(s, a)
      PROVE  RowsOK'
  BY <1>4 DEF SubmitApplication, RowsOK, SellerApplicationStatus
<1>5. ASSUME NEW s \in Applications, ApproveApplication(s)
      PROVE  RowsOK'
  BY <1>5, ShopAssumption DEF ApproveApplication, RowsOK, SellerApplicationStatus, SellerProfileStatus
<1>6. ASSUME NEW s \in Applications, RejectApplication(s)
      PROVE  RowsOK'
  BY <1>6 DEF RejectApplication, RowsOK, SellerApplicationStatus
<1>7. ASSUME NEW c \in Calls, SaveStatus(c)
      PROVE  RowsOK'
  BY <1>7, SavedStatus DEF RowsOK
<1>8. CASE UNCHANGED sellers
  BY <1>8 DEF sellers, RowsOK
<1>9. QED
  BY <1>1, <1>2, <1>3, <1>4, <1>5, <1>6, <1>7, <1>8, SellersSteps

LEMMA AddressesStep ==
  ASSUME SellersInv, Next
  PROVE  AddressesAreKept'
<1> USE DEF SellersInv, AddressesAreKept, MayShipFrom, Live
<1>1. ASSUME NEW a \in Addresses, NEW is_default \in BOOLEAN, CreateAddress(a, is_default)
      PROVE  AddressesAreKept'
  <2>1. \A b \in Addresses \ {a} :
          /\ AddressOf[b] = AddressOf[a] /\ is_default => address'[b].is_default = FALSE
          /\ address'[b].is_default => address[b].is_default
          /\ address'[b].state = address[b].state
    BY <1>1 DEF CreateAddress, Demoted, RowsOK, OneDefault
  <2>2. address'[a] = [state |-> "live", is_default |-> is_default]
    BY <1>1 DEF CreateAddress, Demoted, RowsOK
  <2>3. ~ Live(a)
    BY <1>1 DEF CreateAddress, NoAddress
  <2>4. OneDefault'
    <3>1. ASSUME is_default
          PROVE  OneDefault'
      BY <2>1, <2>2, <3>1 DEF OneDefault
    <3>2. ASSUME ~ is_default
          PROVE  OneDefault'
      BY <2>1, <2>2, <3>2 DEF OneDefault
    <3>3. QED
      BY <3>1, <3>2
  <2>5. AppliedIsLive' /\ SellersShip'
    BY <1>1, <2>1, <2>2 DEF CreateAddress, AppliedIsLive, SellersShip
  <2>6. QED
    BY <2>4, <2>5
<1>2. ASSUME NEW a \in Addresses, SetDefaultAddress(a)
      PROVE  AddressesAreKept'
  <2>1. \A b \in Addresses \ {a} :
          /\ AddressOf[b] = AddressOf[a] => address'[b].is_default = FALSE
          /\ address'[b].is_default => address[b].is_default
    BY <1>2 DEF SetDefaultAddress, Demoted, RowsOK, OneDefault
  <2>2. address'[a].is_default /\ \A b \in Addresses : address'[b].state = address[b].state
    BY <1>2 DEF SetDefaultAddress, Demoted, RowsOK
  <2>3. OneDefault'
    BY <1>2, <2>1, <2>2 DEF SetDefaultAddress, OneDefault
  <2>4. AppliedIsLive' /\ SellersShip'
    BY <1>2, <2>2 DEF SetDefaultAddress, AppliedIsLive, SellersShip
  <2>5. QED
    BY <2>3, <2>4
<1>3. ASSUME NEW a \in Addresses, DeleteAddress(a)
      PROVE  AddressesAreKept'
  BY <1>3 DEF DeleteAddress, RowsOK, OneDefault, AppliedIsLive, SellersShip
<1>4. ASSUME NEW s \in Applications, NEW a \in Addresses, SubmitApplication(s, a)
      PROVE  AddressesAreKept'
  BY <1>4 DEF SubmitApplication, RowsOK, OneDefault, AppliedIsLive, SellersShip
<1>5. ASSUME NEW s \in Applications, ApproveApplication(s)
      PROVE  AddressesAreKept'
  <2>1. ApplicantOf[s] \in Users /\ UNCHANGED address
    BY <1>5, ShopAssumption DEF ApproveApplication
  <2>2. OneDefault' /\ AppliedIsLive'
    BY <1>5, <2>1 DEF ApproveApplication, RowsOK, OneDefault, AppliedIsLive
  <2>3. MayShipFrom(ApplicantOf[s], application[s].ship_from)
    BY <1>5 DEF ApproveApplication, AppliedIsLive
  <2>4. SellersShip'
    BY <1>5, <2>1, <2>3 DEF ApproveApplication, RowsOK, SellersShip
  <2>5. QED
    BY <2>2, <2>4
<1>6. ASSUME NEW s \in Applications, RejectApplication(s)
      PROVE  AddressesAreKept'
  BY <1>6 DEF RejectApplication, RowsOK, OneDefault, AppliedIsLive, SellersShip
<1>7. ASSUME NEW c \in Calls, SaveStatus(c)
      PROVE  AddressesAreKept'
  <2>1. OneDefault' /\ AppliedIsLive'
    BY <1>7, SavedStatus DEF OneDefault, AppliedIsLive
  <2>2. SellersShip'
    BY <1>7, SavedStatus DEF SellersShip, NoProfile
  <2>3. QED
    BY <2>1, <2>2
<1>8. CASE UNCHANGED sellers
  BY <1>8 DEF sellers, OneDefault, AppliedIsLive, SellersShip
<1>9. QED
  BY <1>1, <1>2, <1>3, <1>4, <1>5, <1>6, <1>7, <1>8, SellersSteps

LEMMA SellersStep ==
  ASSUME SellersInv, Next
  PROVE  SellersAreApproved'
<1> USE DEF SellersInv, SellersAreApproved, Approved, Stands
<1>1. ASSUME NEW s \in Applications, NEW a \in Addresses, SubmitApplication(s, a)
      PROVE  SellersAreApproved'
  <2>1. /\ application'[s].status = "pending" /\ application[s].status = "none"
        /\ \A t \in Applications \ {s} : application'[t] = application[t]
        /\ UNCHANGED profile
    BY <1>1 DEF SubmitApplication, NoApplication, RowsOK
  <2>2. \A t \in Applications : ApplicantOf[t] = ApplicantOf[s] => application[t].status \notin {"pending", "approved"}
    BY <1>1, ShopAssumption DEF SubmitApplication, Pending
  <2>3. \A u \in Users : Approved(u)' = Approved(u)
    BY <2>1
  <2>4. QED
    BY <2>1, <2>2, <2>3
<1>2. ASSUME NEW s \in Applications, ApproveApplication(s)
      PROVE  SellersAreApproved'
  <2>1. /\ application'[s].status = "approved" /\ application[s].status = "pending"
        /\ \A t \in Applications \ {s} : application'[t] = application[t]
    BY <1>2 DEF ApproveApplication, RowsOK
  <2>2. profile'[ApplicantOf[s]] # NoProfile /\ \A u \in Users \ {ApplicantOf[s]} : profile'[u] = profile[u]
    BY <1>2, ShopAssumption DEF ApproveApplication, RowsOK, NoProfile
  <2>3. s \in Approved(ApplicantOf[s])' /\ \A u \in Users \ {ApplicantOf[s]} : Approved(u)' = Approved(u)
    BY <2>1
  <2>4. \A u \in Users : profile'[u] # NoProfile <=> Approved(u)' # {}
    <3>1. ASSUME NEW u \in Users, u # ApplicantOf[s]
          PROVE  profile'[u] # NoProfile <=> Approved(u)' # {}
      <4>1. Approved(u)' = Approved(u) /\ profile'[u] = profile[u]
        BY <2>2, <2>3, <3>1
      <4>2. profile[u] # NoProfile <=> Approved(u) # {}
        BY <3>1
      <4>3. QED
        BY <4>1, <4>2
    <3>2. QED
      BY <2>2, <2>3, <3>1
  <2>5. QED
    BY <2>1, <2>4
<1>3. ASSUME NEW s \in Applications, RejectApplication(s)
      PROVE  SellersAreApproved'
  <2>1. /\ application'[s].status = "rejected" /\ application[s].status = "pending"
        /\ \A t \in Applications \ {s} : application'[t] = application[t]
        /\ UNCHANGED profile
    BY <1>3 DEF RejectApplication, RowsOK
  <2>2. \A u \in Users : Approved(u)' = Approved(u)
    BY <2>1
  <2>3. QED
    BY <2>1, <2>2
<1>4. ASSUME NEW c \in Calls, SaveStatus(c)
      PROVE  SellersAreApproved'
  BY <1>4, SavedStatus
<1>5. CASE UNCHANGED <<application, profile>>
  BY <1>5
<1>6. QED
  BY <1>1, <1>2, <1>3, <1>4, <1>5, SellersSteps DEF CreateAddress, SetDefaultAddress, DeleteAddress, sellers

LEMMA SellersInvariant == Spec => []SellersInv
<1>1. Init => SellersInv
  BY SellersInvInit
<1>2. SellersInv /\ [Next]_vars => SellersInv'
  <2> SUFFICES ASSUME SellersInv, [Next]_vars
               PROVE  SellersInv'
    OBVIOUS
  <2>1. CASE Next
    BY <2>1, RowsStep, StatusRequestsStep, AddressesStep, SellersStep DEF SellersInv
  <2>2. CASE UNCHANGED vars
    BY <2>2 DEF vars, sellers, SellersInv, RowsOK, StatusRequestsOK, AddressesAreKept, OneDefault, AppliedIsLive, SellersShip, SellersAreApproved, Approved, Stands, MayShipFrom, Live
  <2>3. QED
    BY <2>1, <2>2
<1>3. QED
  BY <1>1, <1>2, PTL DEF Spec

\* Addresses that somebody else relies on are never deleted, and a user never has
\* two default ones, with any number of users, addresses and requests.
THEOREM KeptAddresses == Spec => []AddressesAreKept
<1>1. SellersInv => AddressesAreKept
  BY DEF SellersInv
<1>2. QED
  BY <1>1, SellersInvariant, PTL

\* No user is ever approved twice, nor a seller without an approval.
THEOREM ApprovedSellers == Spec => []SellersAreApproved
<1>1. SellersInv => SellersAreApproved
  BY DEF SellersInv
<1>2. QED
  BY <1>1, SellersInvariant, PTL

-----------------------------------------------------------------------------
(* Price ranges.                                                           *)

\* A product's row has four columns, a variant's two.
ShapesOK ==
  /\ product = [p \in Products |-> [state |-> product[p].state, ship_from |-> product[p].ship_from,
                                    min |-> product[p].min, max |-> product[p].max]]
  /\ variant = [v \in Variants |-> [state |-> variant[v].state, price |-> variant[v].price]]

\* A product that is not there yet has no variants.
StatesOK ==
  /\ \A p \in Products : product[p].state \in {"none", "live", "removed"}
  /\ \A v \in Variants : /\ variant[v].state \in {"none", "live", "deleted"}
                         /\ product[ProductOf[v]].state = "none" => variant[v].state = "none"

CatalogueOK == ShapesOK /\ StatesOK

ProductRequestsOK ==
  /\ DOMAIN call = Calls
  /\ call = [c \in Calls |-> call[c]]
  /\ \A c \in Calls : call[c].pc \in {"insert", "update", "removeVariants", "removeProduct"} =>
                        call[c].product \in Products

CatalogueInv == CatalogueOK /\ ProductRequestsOK /\ PriceRangeIsExact

\* Only these steps change a product or a variant.
LEMMA CatalogueSteps ==
  ASSUME Next
  PROVE  \/ \E c \in Calls : InsertProduct(c) \/ UpdateProduct(c) \/ RemoveVariants(c) \/ RemoveProduct(c)
         \/ UNCHANGED <<product, variant>>
<1>1. ASSUME NEW c \in Calls, Request(c)
      PROVE  UNCHANGED <<product, variant>>
  BY <1>1 DEF Request, ReadAdmin, CheckNew, CheckUpdate, CheckRemove, Synchronize, catalogue
<1>2. ASSUME NEW c \in Calls, SaveStatus(c) \/ ReloadProduct(c) \/ IndexProduct(c) \/ UnindexProduct(c) \/ Lose(c)
      PROVE  UNCHANGED <<product, variant>>
  BY <1>2 DEF SaveStatus, ReloadProduct, IndexProduct, UnindexProduct, Lose, catalogue
<1>3. QED
  BY <1>1, <1>2 DEF Next, Continue, CreateAddress, SetDefaultAddress, DeleteAddress, SubmitApplication,
     ApproveApplication, RejectApplication, catalogue

LEMMA ProductRequestsStep ==
  ASSUME ProductRequestsOK, Next
  PROVE  ProductRequestsOK'
<1>1. ASSUME NEW c \in Calls, NEW row, Goto(c, row),
             row.pc \in {"insert", "update", "removeVariants", "removeProduct"} => row.product \in Products
      PROVE  ProductRequestsOK'
  BY <1>1 DEF Goto, ProductRequestsOK
<1>2. ASSUME NEW c \in Calls, End(c)
      PROVE  ProductRequestsOK'
  BY <1>1, <1>2 DEF End, Idle
<1>3. ASSUME NEW c \in Calls, Request(c)
      PROVE  ProductRequestsOK'
  <2>1. CASE \E u \in Users, status \in SellerProfileStatus : ReadAdmin(c, u, status)
    BY <1>1, <2>1 DEF ReadAdmin
  <2>2. CASE \E p \in Products, a \in Addresses : CheckNew(c, p, a)
    BY <1>1, <2>2 DEF CheckNew
  <2>3. CASE \E p \in Products, a \in Addresses \cup {None} : CheckUpdate(c, p, a)
    BY <1>1, <2>3 DEF CheckUpdate
  <2>4. CASE \E p \in Products : CheckRemove(c, p)
    BY <1>1, <2>4 DEF CheckRemove
  <2>5. CASE Synchronize(c)
    BY <1>1, <2>5 DEF Synchronize
  <2>6. QED
    BY <1>3, <2>1, <2>2, <2>3, <2>4, <2>5 DEF Request
<1>4. ASSUME NEW c \in Calls, Continue(c) \/ Lose(c)
      PROVE  ProductRequestsOK'
  <2>1. CASE SaveStatus(c) \/ UnindexProduct(c) \/ Lose(c)
    BY <1>2, <2>1 DEF SaveStatus, UnindexProduct, Lose
  <2>2. CASE InsertProduct(c)
    BY <1>1, <2>2 DEF InsertProduct
  <2>3. CASE UpdateProduct(c)
    BY <1>1, <1>2, <2>3 DEF UpdateProduct
  <2>4. CASE ReloadProduct(c)
    BY <1>1, <1>2, <2>4 DEF ReloadProduct
  <2>5. CASE IndexProduct(c)
    BY <1>1, <1>2, <2>5 DEF IndexProduct
  <2>6. CASE RemoveVariants(c)
    BY <1>1, <2>6 DEF RemoveVariants, ProductRequestsOK
  <2>7. CASE RemoveProduct(c)
    BY <1>1, <2>7 DEF RemoveProduct
  <2>8. QED
    BY <1>4, <2>1, <2>2, <2>3, <2>4, <2>5, <2>6, <2>7 DEF Continue
<1>5. CASE UNCHANGED call
  BY <1>5 DEF ProductRequestsOK
<1>6. QED
  BY <1>3, <1>4, <1>5 DEF Next, CreateAddress, SetDefaultAddress, DeleteAddress, SubmitApplication, ApproveApplication, RejectApplication

\* A price range is a matter of the product's own rows.
LEMMA OtherRange ==
  ASSUME NEW q \in Products, product'[q] = product[q], \A v \in VariantsOf(q) : variant'[v] = variant[v], RangeIsExact(q)
  PROVE  RangeIsExact(q)'
<1>1. OnSale(q)' = OnSale(q)
  BY DEF OnSale, VariantsOf
<1>2. {variant[v].price : v \in OnSale(q)}' = {variant[v].price : v \in OnSale(q)}
  BY <1>1 DEF OnSale, VariantsOf
<1>3. QED
  BY <1>2 DEF RangeIsExact, VariantsOf

LEMMA SameRanges ==
  ASSUME PriceRangeIsExact, UNCHANGED <<product, variant>>
  PROVE  PriceRangeIsExact'
<1> SUFFICES ASSUME NEW q \in Products, product'[q].state = "live"
             PROVE  RangeIsExact(q)'
  BY DEF PriceRangeIsExact, LiveProducts
<1>1. RangeIsExact(q)
  BY DEF PriceRangeIsExact, LiveProducts
<1>2. QED
  BY <1>1, OtherRange

LEMMA OtherRanges ==
  ASSUME NEW p \in Products, PriceRangeIsExact,
         \A q \in Products \ {p} : product'[q] = product[q],
         \A v \in Variants \ VariantsOf(p) : variant'[v] = variant[v],
         product'[p].state = "live" => RangeIsExact(p)'
  PROVE  PriceRangeIsExact'
<1> SUFFICES ASSUME NEW q \in Products, product'[q].state = "live"
             PROVE  RangeIsExact(q)'
  BY DEF PriceRangeIsExact, LiveProducts
<1>1. CASE q = p
  BY <1>1
<1>2. CASE q # p
  BY <1>2, OtherRange DEF PriceRangeIsExact, LiveProducts, VariantsOf
<1>3. QED
  BY <1>1, <1>2

\* The rows of the variants vs of p are written.
Written(p, vs) ==
  /\ variant' = [v \in Variants |-> [state |-> variant'[v].state, price |-> variant'[v].price]]
  /\ \A v \in vs : variant'[v].state = "live"
  /\ \A v \in Variants \ vs : variant'[v] = variant[v]
  /\ product' = [q \in Products |-> [state |-> product'[q].state, ship_from |-> product'[q].ship_from,
                                     min |-> product'[q].min, max |-> product'[q].max]]
  /\ product'[p].state = "live"
  /\ \A q \in Products \ {p} : product'[q] = product[q]

LEMMA WrittenCatalogue ==
  ASSUME CatalogueOK, NEW p \in Products, NEW vs \in SUBSET VariantsOf(p), Written(p, vs)
  PROVE  CatalogueOK'
<1>1. \A q \in Products : product'[q].state \in {"none", "live", "removed"}
  BY DEF Written, CatalogueOK, StatesOK
<1>2. ASSUME NEW v \in Variants
      PROVE  /\ variant'[v].state \in {"none", "live", "deleted"}
             /\ product'[ProductOf[v]].state = "none" => variant'[v].state = "none"
  <2>1. CASE v \in vs
    BY <2>1 DEF Written, VariantsOf
  <2>2. CASE v \notin vs
    <3>1. ProductOf[v] \in Products
      BY ShopAssumption
    <3>2. variant'[v] = variant[v] /\ product'[p].state # "none"
      BY <2>2 DEF Written
    <3>3. ProductOf[v] # p => product'[ProductOf[v]] = product[ProductOf[v]]
      BY <3>1 DEF Written
    <3>4. QED
      BY <3>2, <3>3 DEF CatalogueOK, StatesOK
  <2>3. QED
    BY <2>1, <2>2
<1>3. QED
  BY <1>1, <1>2 DEF Written, CatalogueOK, ShapesOK, StatesOK

\* The product gets the range of the variants that are for sale then.
LEMMA WrittenRange ==
  ASSUME PriceRangeIsExact, NEW p \in Products, NEW vs \in SUBSET VariantsOf(p), Written(p, vs), OnSale(p) \cup vs # {},
         PriceRange({variant'[v].price : v \in OnSale(p) \cup vs}) = [min |-> product'[p].min, max |-> product'[p].max]
  PROVE  PriceRangeIsExact'
<1>1. OnSale(p)' = OnSale(p) \cup vs
  <2>1. \A v \in Variants : v \in OnSale(p)' <=> v \in OnSale(p) \cup vs
    BY DEF Written, OnSale, VariantsOf
  <2>2. OnSale(p)' \subseteq Variants /\ OnSale(p) \cup vs \subseteq Variants
    BY DEF OnSale, VariantsOf
  <2>3. QED
    BY <2>1, <2>2
<1>2. RangeIsExact(p)'
  <2>1. {variant[v].price : v \in OnSale(p)}' = {variant'[v].price : v \in OnSale(p) \cup vs}
    BY <1>1
  <2>2. {variant'[v].price : v \in OnSale(p) \cup vs} # {}
    OBVIOUS
  <2>3. QED
    BY <2>1, <2>2 DEF RangeIsExact
<1>3. QED
  BY <1>2, OtherRanges DEF Written

\* The rows that a request's prices and a new offer make.
Offered(p, prices, shipFrom, range) ==
  variant' = Priced(prices) /\ product' = [product EXCEPT ![p] = Offer(shipFrom, range)]

LEMMA OfferWritten ==
  ASSUME NEW p \in Products, NEW vs \in SUBSET VariantsOf(p), NEW prices \in Offers(vs), NEW shipFrom, NEW range,
         CatalogueOK, Offered(p, prices, shipFrom, range)
  PROVE  /\ Written(p, vs)
         /\ product'[p].min = range.min /\ product'[p].max = range.max
<1>1. /\ variant' = [v \in Variants |-> [state |-> variant'[v].state, price |-> variant'[v].price]]
      /\ \A v \in vs : variant'[v].state = "live"
      /\ \A v \in Variants \ vs : variant'[v] = variant[v]
  BY DEF Offered, Priced, Offers, CatalogueOK, ShapesOK, VariantsOf
<1>2. \A q \in Products \ {p} : product'[q] = product[q]
  BY DEF Offered, CatalogueOK, ShapesOK
<1>3. product'[p] = [state |-> "live", ship_from |-> shipFrom, min |-> range.min, max |-> range.max]
  BY DEF Offered, CatalogueOK, ShapesOK, Offer
<1>4. product' = [q \in Products |-> [state |-> product'[q].state, ship_from |-> product'[q].ship_from,
                                      min |-> product'[q].min, max |-> product'[q].max]]
  BY <1>2, <1>3 DEF Offered, CatalogueOK, ShapesOK
<1>5. QED
  BY <1>1, <1>2, <1>3, <1>4 DEF Written

LEMMA RangeOfPrices ==
  ASSUME NEW prices
  PROVE  PriceRange(prices) = [min |-> PriceRange(prices).min, max |-> PriceRange(prices).max]
  BY DEF PriceRange

LEMMA InsertKeepsRanges ==
  ASSUME CatalogueInv, NEW c \in Calls, InsertProduct(c)
  PROVE  CatalogueOK' /\ PriceRangeIsExact'
<1> DEFINE p == call[c].product
<1>1. p \in Products
  BY DEF CatalogueInv, ProductRequestsOK, InsertProduct
<1>2. PICK vs \in (SUBSET VariantsOf(p)) \ {{}} :
        \E prices \in Offers(vs) :
          /\ variant' = Priced(prices)
          /\ product' = [product EXCEPT ![p] = Offer(call[c].ship_from, PriceRange({prices[v] : v \in vs}))]
  BY DEF InsertProduct
<1> PICK prices \in Offers(vs) :
        /\ variant' = Priced(prices)
        /\ product' = [product EXCEPT ![p] = Offer(call[c].ship_from, PriceRange({prices[v] : v \in vs}))]
  BY <1>2
<1> PICK range : range = PriceRange({prices[v] : v \in vs})
  OBVIOUS
<1>3. Written(p, vs) /\ product'[p].min = range.min /\ product'[p].max = range.max
  <2>1. Offered(p, prices, call[c].ship_from, range)
    BY DEF Offered
  <2>2. vs \in SUBSET VariantsOf(p) /\ CatalogueOK
    BY <1>2 DEF CatalogueInv
  <2>3. QED
    BY <1>1, <2>1, <2>2, OfferWritten
<1>4. OnSale(p) = {}
  <2>1. product[p].state = "none"
    BY DEF InsertProduct, NoProduct
  <2>2. QED
    BY <2>1 DEF OnSale, CatalogueInv, CatalogueOK, StatesOK
<1>5. {variant'[v].price : v \in OnSale(p) \cup vs} = {prices[v] : v \in vs}
  <2>1. \A v \in vs : variant'[v].price = prices[v]
    BY <1>2 DEF Priced, Offers, VariantsOf
  <2>2. QED
    BY <1>4, <2>1
<1>6. CatalogueOK'
  BY <1>1, <1>3, WrittenCatalogue DEF CatalogueInv
<1>7. PriceRange({variant'[v].price : v \in OnSale(p) \cup vs}) = [min |-> product'[p].min, max |-> product'[p].max]
  BY <1>3, <1>5, RangeOfPrices
<1>8. PriceRangeIsExact'
  <2>1. OnSale(p) \cup vs # {}
    BY <1>2
  <2>2. QED
    BY <1>1, <1>3, <1>7, <2>1, WrittenRange DEF CatalogueInv
<1>9. QED
  BY <1>6, <1>8

LEMMA UpdateKeepsRanges ==
  ASSUME CatalogueInv, NEW c \in Calls, UpdateProduct(c)
  PROVE  CatalogueOK' /\ PriceRangeIsExact'
<1> DEFINE p == call[c].product
           after(vs) == OnSale(p) \cup vs
           shipFrom == IF call[c].ship_from = None THEN product[p].ship_from ELSE call[c].ship_from
<1>1. p \in Products
  BY DEF CatalogueInv, ProductRequestsOK, UpdateProduct
<1>2. CASE UNCHANGED <<product, variant>>
  BY <1>2, SameRanges DEF CatalogueInv, CatalogueOK, ShapesOK, StatesOK
<1>3. ASSUME NEW vs \in SUBSET VariantsOf(p), NEW prices \in Offers(vs), after(vs) # {}, variant' = Priced(prices),
             product' = [product EXCEPT ![p] = Offer(shipFrom, PriceRange({Priced(prices)[v].price : v \in after(vs)}))]
      PROVE  CatalogueOK' /\ PriceRangeIsExact'
  <2> PICK range : range = PriceRange({Priced(prices)[v].price : v \in after(vs)})
    OBVIOUS
  <2>1. Offered(p, prices, shipFrom, range)
    BY <1>3 DEF Offered
  <2>2. Written(p, vs) /\ product'[p].min = range.min /\ product'[p].max = range.max
    <3>1. vs \in SUBSET VariantsOf(p) /\ prices \in Offers(vs) /\ CatalogueOK
      BY <1>3 DEF CatalogueInv
    <3> HIDE DEF shipFrom, after
    <3>2. QED
      BY <1>1, <2>1, <3>1, OfferWritten
  <2>3. CatalogueOK'
    BY <1>1, <2>2, WrittenCatalogue DEF CatalogueInv
  <2>4. range = PriceRange({variant'[v].price : v \in after(vs)})
    BY <1>3
  <2>5. PriceRange({variant'[v].price : v \in after(vs)}) = [min |-> product'[p].min, max |-> product'[p].max]
    BY <2>2, <2>4, RangeOfPrices
  <2>6. PriceRangeIsExact'
    BY <1>1, <1>3, <2>2, <2>5, WrittenRange DEF CatalogueInv
  <2>7. QED
    BY <2>3, <2>6
<1>4. QED
  BY <1>2, <1>3 DEF UpdateProduct

LEMMA VariantsRemoved ==
  ASSUME CatalogueOK, PriceRangeIsExact, NEW p \in Products, UNCHANGED product,
         variant' = [v \in Variants |-> IF v \in OnSale(p) THEN [state |-> "deleted", price |-> variant[v].price]
                                                          ELSE variant[v]]
  PROVE  CatalogueOK' /\ PriceRangeIsExact'
<1>1. \A v \in OnSale(p) : variant'[v].state = "deleted"
  BY DEF OnSale
<1>2. \A v \in Variants \ OnSale(p) : variant'[v] = variant[v]
  OBVIOUS
<1>3. ShapesOK'
  BY DEF CatalogueOK, ShapesOK
<1>4. StatesOK'
  BY <1>1, <1>2 DEF CatalogueOK, StatesOK, OnSale
<1>5. RangeIsExact(p) => RangeIsExact(p)'
  <2>1. CASE OnSale(p) = {}
    BY <2>1, <1>2, OtherRange DEF VariantsOf
  <2>2. CASE OnSale(p) # {}
    <3>1. \E v \in VariantsOf(p) : variant'[v].state = "deleted"
      BY <1>1, <2>2 DEF OnSale, VariantsOf
    <3>2. OnSale(p)' = {}
      BY <1>1, <1>2 DEF OnSale
    <3>3. {variant[v].price : v \in OnSale(p)}' = {}
      BY <3>2
    <3>4. QED
      BY <3>1, <3>3 DEF RangeIsExact, VariantsOf
  <2>3. QED
    BY <2>1, <2>2
<1>6. product'[p].state = "live" => RangeIsExact(p)'
  BY <1>5 DEF PriceRangeIsExact, LiveProducts
<1>7. \A v \in Variants \ VariantsOf(p) : variant'[v] = variant[v]
  BY <1>2 DEF OnSale, VariantsOf
<1>8. QED
  BY <1>3, <1>4, <1>6, <1>7, OtherRanges DEF CatalogueOK

LEMMA ProductRemoved ==
  ASSUME CatalogueOK, PriceRangeIsExact, NEW p \in Products, UNCHANGED variant,
         product' = [product EXCEPT ![p].state = "removed"]
  PROVE  CatalogueOK' /\ PriceRangeIsExact'
<1>1. product'[p].state = "removed" /\ \A q \in Products \ {p} : product'[q] = product[q]
  BY DEF CatalogueOK, ShapesOK
<1>2. ShapesOK'
  BY DEF CatalogueOK, ShapesOK
<1>3. StatesOK'
  <2>1. \A v \in Variants : ProductOf[v] \in Products
    BY ShopAssumption
  <2>2. QED
    BY <1>1, <2>1 DEF CatalogueOK, StatesOK
<1>4. PriceRangeIsExact'
  BY <1>1, OtherRanges
<1>5. QED
  BY <1>2, <1>3, <1>4 DEF CatalogueOK

LEMMA RemoveKeepsRanges ==
  ASSUME CatalogueInv, NEW c \in Calls, RemoveVariants(c) \/ RemoveProduct(c)
  PROVE  CatalogueOK' /\ PriceRangeIsExact'
<1>1. call[c].product \in Products
  BY DEF CatalogueInv, ProductRequestsOK, RemoveVariants, RemoveProduct
<1>2. CASE RemoveVariants(c)
  BY <1>1, <1>2, VariantsRemoved DEF RemoveVariants, CatalogueInv
<1>3. CASE RemoveProduct(c)
  BY <1>1, <1>3, ProductRemoved DEF RemoveProduct, CatalogueInv
<1>4. QED
  BY <1>2, <1>3

LEMMA CatalogueInvariant == Spec => []CatalogueInv
<1>1. Init => CatalogueInv
  <2> SUFFICES ASSUME Init
               PROVE  CatalogueInv
    OBVIOUS
  <2>1. CatalogueOK /\ ProductRequestsOK
    BY DEF Init, CatalogueOK, ShapesOK, StatesOK, ProductRequestsOK, NoProduct, NoVariant, Idle
  <2>2. PriceRangeIsExact
    BY DEF Init, PriceRangeIsExact, LiveProducts, NoProduct
  <2>3. QED
    BY <2>1, <2>2 DEF CatalogueInv
<1>2. CatalogueInv /\ [Next]_vars => CatalogueInv'
  <2> SUFFICES ASSUME CatalogueInv, [Next]_vars
               PROVE  CatalogueInv'
    OBVIOUS
  <2>1. ProductRequestsOK'
    BY ProductRequestsStep DEF CatalogueInv, vars, ProductRequestsOK
  <2>2. CASE UNCHANGED <<product, variant>>
    <3>1. CatalogueOK'
      BY <2>2 DEF CatalogueInv, CatalogueOK, ShapesOK, StatesOK
    <3>2. PriceRangeIsExact'
      BY <2>2, SameRanges DEF CatalogueInv
    <3>3. QED
      BY <2>1, <3>1, <3>2 DEF CatalogueInv
  <2>3. ASSUME NEW c \in Calls, InsertProduct(c) \/ UpdateProduct(c) \/ RemoveVariants(c) \/ RemoveProduct(c)
        PROVE  CatalogueInv'
    BY <2>1, <2>3, InsertKeepsRanges, UpdateKeepsRanges, RemoveKeepsRanges DEF CatalogueInv
  <2>4. QED
    BY <2>2, <2>3, CatalogueSteps DEF vars, catalogue
<1>3. QED
  BY <1>1, <1>2, PTL DEF Spec

\* However updates, removals and lost requests interleave, the price range of a
\* product for sale is exact, for any catalogue.
THEOREM ExactPriceRanges == Spec => []PriceRangeIsExact
<1>1. CatalogueInv => PriceRangeIsExact
  BY DEF CatalogueInv
<1>2. QED
  BY <1>1, CatalogueInvariant, PTL

-----------------------------------------------------------------------------
(* Numbers: a set of prices has a least and a greatest.                    *)

\* A set of numbers has a least member.
LEMMA LeastNumber ==
  ASSUME NEW S \in SUBSET Nat, S # {}
  PROVE  \E x \in S : \A y \in S : x <= y
<1>1. PICK x \in S : \A y \in S : <<y, x>> \notin OpToRel(<, Nat)
  BY NatLessThanWellFounded, WFMin
<1>2. ASSUME NEW y \in S
      PROVE  x <= y
  <2>1. x \in Nat /\ y \in Nat
    OBVIOUS
  <2>2. ~ (y < x)
    BY <1>1, <2>1 DEF OpToRel
  <2>3. QED
    BY <2>1, <2>2
<1>3. QED
  BY <1>2

\* The first n numbers of every list have a bound.
ListsAreBounded(n) == \A f \in [1..n -> Nat] : \E top \in Nat : \A i \in 1..n : f[i] <= top

\* One more number, and they have another bound.
LEMMA LongerListsAreBounded ==
  ASSUME NEW n \in Nat \ {0}, ListsAreBounded(n - 1)
  PROVE  ListsAreBounded(n)
<1> SUFFICES ASSUME NEW f \in [1..n -> Nat]
             PROVE  \E top \in Nat : \A i \in 1..n : f[i] <= top
  BY DEF ListsAreBounded
<1>1. \A i \in 1..n : f[i] \in Nat
  OBVIOUS
<1>2. [i \in 1..(n - 1) |-> f[i]] \in [1..(n - 1) -> Nat]
  BY <1>1
<1>3. PICK top \in Nat : \A i \in 1..(n - 1) : [j \in 1..(n - 1) |-> f[j]][i] <= top
  BY <1>2 DEF ListsAreBounded
<1>4. \A i \in 1..(n - 1) : f[i] <= top
  BY <1>3
<1>5. PICK last \in Nat : last = f[n]
  BY <1>1
<1>6. ASSUME NEW i \in 1..n
      PROVE  f[i] <= top + last
  <2>1. i = n \/ i \in 1..(n - 1)
    OBVIOUS
  <2>2. f[i] \in Nat /\ (f[i] <= top \/ f[i] = last)
    BY <1>1, <1>4, <1>5, <2>1
  <2>3. QED
    BY <2>2
<1>7. top + last \in Nat
  OBVIOUS
<1>8. QED
  BY <1>6, <1>7

\* A finite set of numbers has a bound: a shortest list without one would have
\* a shorter one.
LEMMA FiniteIsBounded ==
  ASSUME NEW S \in SUBSET Nat, IsFiniteSet(S)
  PROVE  \E top \in Nat : \A x \in S : x <= top
<1>1. ASSUME NEW m \in Nat, ~ ListsAreBounded(m)
      PROVE  FALSE
  <2> DEFINE Unbounded == {n \in Nat : ~ ListsAreBounded(n)}
  <2>1. Unbounded \in SUBSET Nat /\ Unbounded # {}
    BY <1>1
  <2>2. PICK n \in Unbounded : \A k \in Unbounded : n <= k
    BY <2>1, LeastNumber
  <2>3. n \in Nat /\ ~ ListsAreBounded(n)
    OBVIOUS
  <2>4. n # 0
    <3>1. ListsAreBounded(0)
      <4>1. 0 \in Nat /\ 1..0 = {}
        OBVIOUS
      <4>2. QED
        BY <4>1 DEF ListsAreBounded
    <3>2. QED
      BY <2>3, <3>1
  <2>5. n - 1 \in Nat /\ ~ (n <= n - 1)
    BY <2>3, <2>4
  <2>6. ListsAreBounded(n - 1)
    BY <2>2, <2>5
  <2>7. QED
    BY <2>3, <2>4, <2>6, LongerListsAreBounded
<1>2. PICK n \in Nat : ExistsSurjection(1..n, S)
  BY FS_NatSurjection
<1>3. PICK f \in [1..n -> S] : \A x \in S : \E i \in 1..n : f[i] = x
  BY <1>2 DEF ExistsSurjection, Surjection
<1>4. f \in [1..n -> Nat]
  OBVIOUS
<1>5. PICK top \in Nat : \A i \in 1..n : f[i] <= top
  BY <1>1, <1>4 DEF ListsAreBounded
<1>6. QED
  BY <1>3, <1>5

\* A finite set of numbers has a greatest member.
LEMMA GreatestNumber ==
  ASSUME NEW S \in SUBSET Nat, IsFiniteSet(S), S # {}
  PROVE  \E x \in S : \A y \in S : x >= y
<1>1. PICK top \in Nat : \A x \in S : x <= top
  BY FiniteIsBounded
<1> DEFINE Below == {top - x : x \in S}
<1>2. Below \in SUBSET Nat /\ Below # {}
  <2>1. ASSUME NEW x \in S
        PROVE  top - x \in Nat
    <3>1. x \in Nat /\ top \in Nat /\ x <= top
      BY <1>1
    <3>2. QED
      BY <3>1
  <2>2. QED
    BY <2>1
<1>3. PICK b \in Below : \A y \in Below : b <= y
  BY <1>2, LeastNumber
<1>4. PICK x \in S : b = top - x
  OBVIOUS
<1>5. ASSUME NEW y \in S
      PROVE  x >= y
  <2>1. top - y \in Below
    OBVIOUS
  <2>2. top - x <= top - y
    BY <1>3, <1>4, <2>1
  <2>3. x \in Nat /\ y \in Nat
    OBVIOUS
  <2>4. QED
    BY <2>2, <2>3
<1>6. QED
  BY <1>5

\* What Min and Max choose.
LEMMA MinOfNumbers ==
  ASSUME NEW S \in SUBSET Nat, S # {}
  PROVE  Min(S) \in S /\ \A y \in S : Min(S) <= y
BY LeastNumber DEF Min

LEMMA MaxOfNumbers ==
  ASSUME NEW S \in SUBSET Nat, IsFiniteSet(S), S # {}
  PROVE  Max(S) \in S /\ \A y \in S : Max(S) >= y
BY GreatestNumber DEF Max

-----------------------------------------------------------------------------
(* Searches.                                                               *)

PricesOK == \A v \in Variants : variant[v].state = "live" => variant[v].price \in Prices

\* The index is keyed by the product's id.
OneDocument == \A d, e \in index : d.product = e.product => d = e

\* Only two steps change the index, and neither adds a product's second document.
LEMMA IndexStep ==
  ASSUME OneDocument, Next
  PROVE  OneDocument'
<1>1. ASSUME NEW c \in Calls, IndexProduct(c)
      PROVE  OneDocument'
  BY <1>1 DEF IndexProduct, Without, OneDocument
<1>2. ASSUME NEW c \in Calls, UnindexProduct(c)
      PROVE  OneDocument'
  BY <1>2 DEF UnindexProduct, Without, OneDocument
<1>3. CASE UNCHANGED index
  BY <1>3 DEF OneDocument
<1>4. (\E c \in Calls : IndexProduct(c) \/ UnindexProduct(c)) \/ UNCHANGED index
  <2>1. ASSUME NEW c \in Calls, Request(c) \/ Lose(c)
        PROVE  UNCHANGED index
    BY <2>1 DEF Request, ReadAdmin, CheckNew, CheckUpdate, CheckRemove, Synchronize, Lose, catalogue
  <2>2. ASSUME NEW c \in Calls, Continue(c)
        PROVE  IndexProduct(c) \/ UnindexProduct(c) \/ UNCHANGED index
    BY <2>2 DEF Continue, SaveStatus, InsertProduct, UpdateProduct, ReloadProduct, RemoveVariants, RemoveProduct, catalogue
  <2>3. QED
    BY <2>1, <2>2 DEF Next, CreateAddress, SetDefaultAddress, DeleteAddress, SubmitApplication, ApproveApplication, RejectApplication, catalogue
<1>5. QED
  BY <1>1, <1>2, <1>3, <1>4

\* A live variant has a price of those that may be asked.
LEMMA PricesStep ==
  ASSUME CatalogueInv, PricesOK, Next
  PROVE  PricesOK'
<1>1. ASSUME NEW p \in Products, NEW vs \in SUBSET VariantsOf(p), NEW prices \in Offers(vs), variant' = Priced(prices)
      PROVE  PricesOK'
  BY <1>1 DEF Priced, Offers, PricesOK
<1>2. ASSUME NEW c \in Calls, InsertProduct(c)
      PROVE  PricesOK'
  <2>1. call[c].product \in Products
    BY <1>2 DEF CatalogueInv, ProductRequestsOK, InsertProduct
  <2>2. QED
    BY <1>1, <1>2, <2>1 DEF InsertProduct
<1>3. ASSUME NEW c \in Calls, UpdateProduct(c)
      PROVE  PricesOK'
  <2>1. call[c].product \in Products
    BY <1>3 DEF CatalogueInv, ProductRequestsOK, UpdateProduct
  <2>2. CASE UNCHANGED variant
    BY <2>2 DEF PricesOK
  <2>3. QED
    BY <1>1, <1>3, <2>1, <2>2 DEF UpdateProduct
<1>4. ASSUME NEW c \in Calls, RemoveVariants(c)
      PROVE  PricesOK'
  BY <1>4 DEF RemoveVariants, PricesOK
<1>5. CASE UNCHANGED variant
  BY <1>5 DEF PricesOK
<1>6. QED
  BY <1>2, <1>3, <1>4, <1>5, CatalogueSteps DEF RemoveProduct, catalogue

\* What the index says of a product whose document is its current one.
LEMMA FoundByIndex ==
  ASSUME OneDocument, NEW p \in LiveProducts, Current(p) \in index, NEW lo, NEW hi
  PROVE  p \in ByIndex(lo, hi) <=> product[p].max >= lo /\ product[p].min <= hi
<1>1. Current(p).product = p /\ Current(p).min = product[p].min /\ Current(p).max = product[p].max
  BY DEF Current, Document
<1>2. \A d \in index : d.product = p => d = Current(p)
  BY <1>1 DEF OneDocument
<1>3. p \in ByIndex(lo, hi) <=> Current(p).max >= lo /\ Current(p).min <= hi
  BY <1>1, <1>2 DEF ByIndex
<1>4. QED
  BY <1>1, <1>3

\* What the database says of a product whose price range is exact.
LEMMA FoundByVariants ==
  ASSUME PricesOK, PriceRangeIsExact, NEW p \in LiveProducts, OnSale(p) # {}, NEW lo \in Prices, NEW hi \in Prices
  PROVE  p \in ByVariants(lo, hi) <=> product[p].max >= lo /\ product[p].min <= hi
<1> DEFINE asked == {variant[v].price : v \in OnSale(p)}
<1>1. asked \in SUBSET Nat /\ IsFiniteSet(asked) /\ asked # {}
  <2>1. asked \in SUBSET Prices /\ asked # {}
    BY DEF PricesOK, OnSale
  <2>2. QED
    BY <2>1, ShopAssumption, FS_Subset
<1>2. product[p].min = Min(asked) /\ product[p].max = Max(asked)
  <2>1. PriceRange(asked) = [min |-> product[p].min, max |-> product[p].max]
    BY <1>1 DEF PriceRangeIsExact, RangeIsExact
  <2>2. QED
    BY <2>1 DEF PriceRange
<1>3. /\ Min(asked) \in asked /\ \A x \in asked : Min(asked) <= x
      /\ Max(asked) \in asked /\ \A x \in asked : Max(asked) >= x
  BY <1>1, MinOfNumbers, MaxOfNumbers
<1>4. p \in ByVariants(lo, hi) <=> (\E x \in asked : x >= lo) /\ (\E x \in asked : x <= hi)
  BY DEF ByVariants
<1> HIDE DEF asked
<1>5. (\E x \in asked : x >= lo) <=> Max(asked) >= lo
  <2>1. \A x \in asked : x \in Nat /\ Max(asked) \in Nat
    BY <1>1, <1>3
  <2>2. lo \in Nat
    BY ShopAssumption
  <2>3. QED
    BY <1>3, <2>1, <2>2
<1>6. (\E x \in asked : x <= hi) <=> Min(asked) <= hi
  <2>1. \A x \in asked : x \in Nat /\ Min(asked) \in Nat
    BY <1>1, <1>3
  <2>2. hi \in Nat
    BY ShopAssumption
  <2>3. QED
    BY <1>3, <2>1, <2>2
<1>7. QED
  BY <1>2, <1>4, <1>5, <1>6

LEMMA SearchesInvariant == Spec => [](PricesOK /\ OneDocument)
<1>1. Init => PricesOK /\ OneDocument
  BY DEF Init, NoVariant, PricesOK, OneDocument
<1>2. CatalogueInv /\ PricesOK /\ OneDocument /\ [Next]_vars => (PricesOK /\ OneDocument)'
  BY IndexStep, PricesStep DEF vars, catalogue, PricesOK, OneDocument
<1>3. QED
  BY <1>1, <1>2, CatalogueInvariant, PTL DEF Spec

\* However often the index lost a document, was sent an old one or was sent all of
\* them: if the current one of a product reached it, both searches find the product
\* for the same bounds, for any catalogue and any prices.
THEOREM SearchesAnswerAlike == Spec => []SearchesAgree
<1>1. CatalogueInv /\ PricesOK /\ OneDocument => SearchesAgree
  BY FoundByIndex, FoundByVariants DEF CatalogueInv, SearchesAgree
<1>2. QED
  BY <1>1, CatalogueInvariant, SearchesInvariant, PTL

-----------------------------------------------------------------------------
(* Types.                                                                  *)

\* What is known of a request from what it is doing.
LEMMA CallShapes ==
  ASSUME NEW row \in CallState
  PROVE  /\ row.pc = "setStatus" => row.user \in Users /\ row.status \in SellerProfileStatus
         /\ row.pc \in {"insert", "update"} => row.product \in Products /\ row.ship_from \in Addresses \cup {None}
         /\ row.pc \in {"reload", "removeVariants", "removeProduct", "unindex"} => row.product \in Products
         /\ row.pc = "index" => row.documents \in SUBSET Documents
BY DEF CallState, Idle

\* The least and the greatest of some prices are numbers.
LEMMA RangeTypes ==
  ASSUME NEW S \in SUBSET Prices, S # {}
  PROVE  PriceRange(S).min \in Nat /\ PriceRange(S).max \in Nat
<1>1. S \in SUBSET Nat /\ IsFiniteSet(S)
  BY ShopAssumption, FS_Subset
<1>2. Min(S) \in Nat /\ Max(S) \in Nat
  BY <1>1, MinOfNumbers, MaxOfNumbers
<1>3. QED
  BY <1>2 DEF PriceRange

LEMMA DocumentType ==
  ASSUME NEW p \in Products, NEW range, range.min \in Nat, range.max \in Nat
  PROVE  Document(p, range) \in Documents
BY DEF Document, Documents

LEMMA CurrentType ==
  ASSUME TypeOK, NEW p \in Products
  PROVE  Current(p) \in Documents
<1>1. product[p].min \in Nat /\ product[p].max \in Nat
  BY DEF TypeOK
<1>2. QED
  BY <1>1, DocumentType DEF Current

\* A step of c that leaves the rows alone and goes on with a request of the right shape.
LEMMA CallTyping ==
  ASSUME TypeOK, NEW c \in Calls, NEW row \in CallState, Goto(c, row)
  PROVE  call' \in [Calls -> CallState]
BY DEF TypeOK, Goto

ProductRows == [Products -> [state : {"none", "live", "removed"}, ship_from : Addresses \cup {None}, min : Nat, max : Nat]]
VariantRows == [Variants -> [state : {"none", "live", "deleted"}, price : Nat]]

\* The rows that a request's prices and a new offer make have the right shape.
LEMMA OfferTypes ==
  ASSUME TypeOK, NEW p \in Products, NEW vs \in SUBSET VariantsOf(p), NEW prices \in Offers(vs),
         NEW shipFrom \in Addresses \cup {None}, NEW range, range.min \in Nat, range.max \in Nat,
         Offered(p, prices, shipFrom, range)
  PROVE  product' \in ProductRows /\ variant' \in VariantRows
<1>1. \A v \in vs : prices[v] \in Nat
  BY ShopAssumption DEF Offers
<1>2. DOMAIN prices = vs
  BY DEF Offers
<1>3. variant' \in VariantRows
  BY <1>1, <1>2 DEF Offered, Priced, VariantRows, TypeOK
<1>4. product' \in ProductRows
  BY DEF Offered, Offer, ProductRows, TypeOK
<1>5. QED
  BY <1>3, <1>4

\* What the steps of a request do to the catalogue and to itself.
CatalogueTypes == /\ product' \in ProductRows /\ variant' \in VariantRows
                  /\ index' \in SUBSET Documents /\ call' \in [Calls -> CallState]

LEMMA InsertTypes ==
  ASSUME TypeOK, NEW c \in Calls, InsertProduct(c)
  PROVE  CatalogueTypes
<1>1. /\ call[c].product \in Products /\ call[c].ship_from \in Addresses \cup {None}
      /\ index' = index
  BY CallShapes DEF InsertProduct, TypeOK
<1> DEFINE p == call[c].product
<1>2. PICK vs \in (SUBSET VariantsOf(p)) \ {{}} : \E prices \in Offers(vs) :
        /\ Offered(p, prices, call[c].ship_from, PriceRange({prices[v] : v \in vs}))
        /\ Goto(c, [pc |-> "index", documents |-> {Document(p, PriceRange({prices[v] : v \in vs}))}])
  BY DEF InsertProduct, Offered
<1>3. PICK prices \in Offers(vs) :
        /\ Offered(p, prices, call[c].ship_from, PriceRange({prices[v] : v \in vs}))
        /\ Goto(c, [pc |-> "index", documents |-> {Document(p, PriceRange({prices[v] : v \in vs}))}])
  BY <1>2
<1>4. PICK range : range = PriceRange({prices[v] : v \in vs})
  OBVIOUS
<1>5. range.min \in Nat /\ range.max \in Nat
  <2>1. {prices[v] : v \in vs} \in SUBSET Prices /\ {prices[v] : v \in vs} # {}
    BY DEF Offers
  <2>2. QED
    BY <1>4, <2>1, RangeTypes
<1>6. product' \in ProductRows /\ variant' \in VariantRows
  BY <1>1, <1>3, <1>4, <1>5, OfferTypes
<1>7. Document(p, range) \in Documents
  BY <1>1, <1>5, DocumentType
<1>8. [pc |-> "index", documents |-> {Document(p, range)}] \in CallState
  BY <1>7 DEF CallState
<1>9. call' \in [Calls -> CallState]
  BY <1>3, <1>4, <1>8, CallTyping
<1>10. QED
  BY <1>1, <1>6, <1>9 DEF CatalogueTypes, TypeOK

LEMMA EndTypes ==
  ASSUME TypeOK, NEW c \in Calls, End(c)
  PROVE  call' \in [Calls -> CallState]
<1>1. Idle \in CallState
  BY DEF CallState
<1>2. QED
  BY <1>1, CallTyping DEF End

LEMMA UpdateTypes ==
  ASSUME TypeOK, PricesOK, NEW c \in Calls, UpdateProduct(c)
  PROVE  CatalogueTypes
<1> DEFINE p == call[c].product
           shipFrom == IF call[c].ship_from = None THEN product[p].ship_from ELSE call[c].ship_from
<1>1. p \in Products /\ call[c].ship_from \in Addresses \cup {None} /\ index' = index
  BY CallShapes DEF UpdateProduct, TypeOK
<1>2. shipFrom \in Addresses \cup {None}
  BY <1>1 DEF TypeOK
<1>3. CASE End(c) /\ UNCHANGED <<product, variant>>
  BY <1>1, <1>3, EndTypes DEF CatalogueTypes, ProductRows, VariantRows, TypeOK
<1>4. ASSUME NEW vs \in SUBSET VariantsOf(p), OnSale(p) \cup vs # {}, NEW prices \in Offers(vs),
             Offered(p, prices, shipFrom, PriceRange({Priced(prices)[v].price : v \in OnSale(p) \cup vs})),
             Goto(c, [pc |-> "reload", product |-> p])
      PROVE  CatalogueTypes
  <2>1. {Priced(prices)[v].price : v \in OnSale(p) \cup vs} \in SUBSET Prices
    <3>1. ASSUME NEW v \in OnSale(p) \cup vs
          PROVE  Priced(prices)[v].price \in Prices
      <4>1. v \in Variants /\ DOMAIN prices = vs
        BY DEF OnSale, VariantsOf, Offers
      <4>2. CASE v \in vs
        BY <4>1, <4>2 DEF Priced, Offers
      <4>3. CASE v \notin vs
        BY <4>1, <4>3 DEF Priced, OnSale, PricesOK
      <4>4. QED
        BY <4>2, <4>3
    <3>2. QED
      BY <3>1
  <2>2. {Priced(prices)[v].price : v \in OnSale(p) \cup vs} # {}
    BY <1>4
  <2>3. PICK range : range = PriceRange({Priced(prices)[v].price : v \in OnSale(p) \cup vs})
    OBVIOUS
  <2>4. range.min \in Nat /\ range.max \in Nat
    BY <2>1, <2>2, <2>3, RangeTypes
  <2>5. product' \in ProductRows /\ variant' \in VariantRows
    BY <1>1, <1>2, <1>4, <2>3, <2>4, OfferTypes
  <2>6. [pc |-> "reload", product |-> p] \in CallState
    BY <1>1 DEF CallState
  <2>7. call' \in [Calls -> CallState]
    BY <1>4, <2>6, CallTyping
  <2>8. QED
    BY <1>1, <2>5, <2>7 DEF CatalogueTypes, TypeOK
<1>5. QED
  BY <1>3, <1>4 DEF UpdateProduct, Offered

\* The other steps of requests.
LEMMA OtherTypes ==
  ASSUME TypeOK, NEW c \in Calls,
         \/ Request(c) \/ SaveStatus(c) \/ ReloadProduct(c) \/ IndexProduct(c) \/ RemoveVariants(c)
         \/ RemoveProduct(c) \/ UnindexProduct(c) \/ Lose(c)
  PROVE  CatalogueTypes
<1> USE DEF CatalogueTypes
<1>1. call[c] \in CallState
  BY DEF TypeOK
<1>2. product \in ProductRows /\ variant \in VariantRows /\ index \in SUBSET Documents
  BY DEF ProductRows, VariantRows, TypeOK
<1>3. CASE Request(c)
  <2>1. UNCHANGED <<product, variant, index>>
    BY <1>3 DEF Request, ReadAdmin, CheckNew, CheckUpdate, CheckRemove, Synchronize, catalogue
  <2>2. PICK row \in CallState : Goto(c, row)
    <3>1. CASE \E u \in Users, status \in SellerProfileStatus : ReadAdmin(c, u, status)
      <4>1. PICK u \in Users, status \in SellerProfileStatus : ReadAdmin(c, u, status)
        BY <3>1
      <4>2. profile[u].status \in SellerProfileStatus \cup {"none"}
        BY DEF TypeOK
      <4>3. [pc |-> "setStatus", user |-> u, status |-> status, seen |-> profile[u].status] \in CallState
        BY <4>2 DEF CallState
      <4>4. QED
        BY <4>1, <4>3 DEF ReadAdmin
    <3>2. CASE \E p \in Products, a \in Addresses \cup {None} : CheckNew(c, p, a) \/ CheckUpdate(c, p, a)
      <4>1. \A p \in Products, a \in Addresses \cup {None} :
              /\ [pc |-> "insert", product |-> p, ship_from |-> a] \in CallState
              /\ [pc |-> "update", product |-> p, ship_from |-> a] \in CallState
        BY DEF CallState
      <4>2. QED
        BY <3>2, <4>1 DEF CheckNew, CheckUpdate
    <3>3. CASE \E p \in Products : CheckRemove(c, p)
      <4>1. \A p \in Products : [pc |-> "removeVariants", product |-> p] \in CallState
        BY DEF CallState
      <4>2. QED
        BY <3>3, <4>1 DEF CheckRemove
    <3>4. CASE Synchronize(c)
      <4>1. {Current(p) : p \in LiveProducts} \in SUBSET Documents
        BY CurrentType DEF LiveProducts
      <4>2. [pc |-> "index", documents |-> {Current(p) : p \in LiveProducts}] \in CallState
        BY <4>1 DEF CallState
      <4>3. QED
        BY <3>4, <4>2 DEF Synchronize
    <3>5. QED
      BY <1>3, <3>1, <3>2, <3>3, <3>4 DEF Request
  <2>3. QED
    BY <1>2, <2>1, <2>2, CallTyping
<1>4. CASE SaveStatus(c) \/ Lose(c)
  BY <1>2, <1>4, EndTypes DEF SaveStatus, Lose, catalogue
<1>5. CASE ReloadProduct(c)
  <2>1. call[c].product \in Products
    BY <1>1, <1>5, CallShapes DEF ReloadProduct
  <2>2. [pc |-> "index", documents |-> {Current(call[c].product)}] \in CallState
    BY <2>1, CurrentType DEF CallState
  <2>3. call' \in [Calls -> CallState]
    BY <1>5, <2>2, CallTyping, EndTypes DEF ReloadProduct
  <2>4. QED
    BY <1>2, <1>5, <2>3 DEF ReloadProduct, catalogue
<1>6. CASE IndexProduct(c)
  <2>1. call[c].documents \in SUBSET Documents
    BY <1>1, <1>6, CallShapes DEF IndexProduct
  <2>2. PICK d \in call[c].documents :
          /\ index' \in {index, Without(d.product) \cup {d}}
          /\ End(c) \/ Goto(c, [pc |-> "index", documents |-> call[c].documents \ {d}])
    BY <1>6 DEF IndexProduct
  <2>3. index' \in SUBSET Documents
    BY <1>2, <2>1, <2>2 DEF Without
  <2>4. [pc |-> "index", documents |-> call[c].documents \ {d}] \in CallState
    BY <2>1 DEF CallState
  <2>5. call' \in [Calls -> CallState]
    BY <2>2, <2>4, CallTyping, EndTypes
  <2>6. QED
    BY <1>2, <1>6, <2>3, <2>5 DEF IndexProduct
<1>7. CASE RemoveVariants(c)
  <2>1. call[c].product \in Products
    BY <1>1, <1>7, CallShapes DEF RemoveVariants
  <2>2. [pc |-> "removeProduct", product |-> call[c].product] \in CallState
    BY <2>1 DEF CallState
  <2>3. call' \in [Calls -> CallState]
    BY <1>7, <2>2, CallTyping DEF RemoveVariants
  <2>4. variant' \in VariantRows
    BY <1>2, <1>7 DEF RemoveVariants, VariantRows
  <2>5. QED
    BY <1>2, <1>7, <2>3, <2>4 DEF RemoveVariants
<1>8. CASE RemoveProduct(c)
  <2>1. call[c].product \in Products
    BY <1>1, <1>8, CallShapes DEF RemoveProduct
  <2>2. [pc |-> "unindex", product |-> call[c].product] \in CallState
    BY <2>1 DEF CallState
  <2>3. call' \in [Calls -> CallState]
    BY <1>8, <2>2, CallTyping DEF RemoveProduct
  <2>4. product' \in ProductRows
    BY <1>2, <1>8, <2>1 DEF RemoveProduct, ProductRows
  <2>5. QED
    BY <1>2, <1>8, <2>3, <2>4 DEF RemoveProduct
<1>9. CASE UnindexProduct(c)
  BY <1>2, <1>9, EndTypes DEF UnindexProduct, Without
<1>10. QED
  BY <1>3, <1>4, <1>5, <1>6, <1>7, <1>8, <1>9

LEMMA ToldTypes ==
  ASSUME TypeOK, Next
  PROVE  told' \in [Users -> SellerProfileStatus \cup {"none"}]
<1>1. ASSUME NEW s \in Applications, ApproveApplication(s)
      PROVE  told' \in [Users -> SellerProfileStatus \cup {"none"}]
  BY <1>1 DEF ApproveApplication, SellerProfileStatus, TypeOK
<1>2. ASSUME NEW c \in Calls, SaveStatus(c)
      PROVE  told' \in [Users -> SellerProfileStatus \cup {"none"}]
  <2>1. call[c].status \in SellerProfileStatus
    BY <1>2, CallShapes DEF SaveStatus, TypeOK
  <2>2. QED
    BY <1>2, <2>1 DEF SaveStatus, TypeOK
<1>3. ASSUME NEW c \in Calls, Request(c) \/ Continue(c) \/ Lose(c), ~ SaveStatus(c)
      PROVE  UNCHANGED told
  BY <1>3 DEF Request, Continue, Lose, ReadAdmin, CheckNew, CheckUpdate, CheckRemove, Synchronize, InsertProduct,
     UpdateProduct, ReloadProduct, IndexProduct, RemoveVariants, RemoveProduct, UnindexProduct
<1>4. CASE UNCHANGED told
  BY <1>4 DEF TypeOK
<1>5. QED
  BY <1>1, <1>2, <1>3, <1>4 DEF Next, CreateAddress, SetDefaultAddress, DeleteAddress, SubmitApplication, RejectApplication

\* Every row, request and document keeps its type: the price range of a product is
\* two numbers also while its variants come and go, and what is sent to the index
\* is a document of a product (products.service.ts, sellers.service.ts,
\* addresses.service.ts).
THEOREM ShopTyping == Spec => []TypeOK
<1>1. Init => TypeOK
  BY DEF Init, TypeOK, NoAddress, NoApplication, NoProfile, NoProduct, NoVariant, CallState
<1>2. ASSUME TypeOK, SellersInv', PricesOK, Next
      PROVE  TypeOK'
  <2>1. CatalogueTypes
    <3>1. ASSUME NEW c \in Calls, Request(c) \/ Continue(c) \/ Lose(c)
          PROVE  CatalogueTypes
      BY <1>2, <3>1, InsertTypes, UpdateTypes, OtherTypes DEF Continue
    <3>2. CASE UNCHANGED <<catalogue, call>>
      BY <1>2, <3>2 DEF catalogue, CatalogueTypes, ProductRows, VariantRows, TypeOK
    <3>3. QED
      BY <1>2, <3>1, <3>2 DEF Next, CreateAddress, SetDefaultAddress, DeleteAddress, SubmitApplication,
         ApproveApplication, RejectApplication
  <2>2. RowsOK'
    BY <1>2 DEF SellersInv
  <2>3. QED
    BY <1>2, <2>1, <2>2, ToldTypes DEF CatalogueTypes, ProductRows, VariantRows, RowsOK, TypeOK
<1>3. ASSUME TypeOK, UNCHANGED vars
      PROVE  TypeOK'
  BY <1>3 DEF vars, sellers, catalogue, TypeOK
<1>4. QED
  BY <1>1, <1>2, <1>3, SellersInvariant, SearchesInvariant, PTL DEF Spec
=============================================================================
