-------------------------------- MODULE Shop --------------------------------
(***************************************************************************)
(* Addresses, sellers and their catalogue (addresses.service.ts,           *)
(* sellers.service.ts, products.service.ts).                               *)
(*                                                                         *)
(* The operations on addresses and applications run in one transaction     *)
(* that locks the user's row first: each is one action.  The operations on *)
(* products look before they open a transaction, or use several; and the   *)
(* suspension of a seller reads the administrator's row, which fixes its   *)
(* read view, before it locks the seller's.  Those are calls that take     *)
(* several steps, as many at a time as there are Calls.                    *)
(*                                                                         *)
(* A row belongs for ever to the user or product that created it, so the   *)
(* constants say whose it is.  Stock is the subject of StockTx.            *)
(***************************************************************************)
EXTENDS FiniteSetsExt

CONSTANTS Users, Addresses, Applications, Products, Variants,  \* ids of rows
          AddressOf,    \* AddressOf[a], ApplicantOf[s], SellerOf[p]: the row's user
          ApplicantOf,
          SellerOf,
          ProductOf,    \* ProductOf[v]: the product of a variant
          Prices,       \* effective prices of variants
          Calls         \* requests that may run at the same time

ASSUME ShopAssumption ==
  /\ AddressOf \in [Addresses -> Users]
  /\ ApplicantOf \in [Applications -> Users]
  /\ SellerOf \in [Products -> Users]
  /\ ProductOf \in [Variants -> Products]
  /\ Prices \subseteq Nat /\ IsFiniteSet(Prices)   \* a column of so many digits

None == "none"   \* a null reference

VARIABLES address, application, profile, product, variant,  \* rows
          index,      \* documents of the search index
          call,       \* what each request is doing
          told        \* the seller status the last successful request was answered with

sellers == <<address, application, profile>>
catalogue == <<product, variant, index>>
vars == <<sellers, catalogue, call, told>>

SellerApplicationStatus == {"pending", "approved", "rejected"}
SellerProfileStatus == {"active", "suspended"}

NoAddress == [state |-> "none", is_default |-> FALSE]
NoApplication == [status |-> "none", ship_from |-> None]
NoProfile == [status |-> "none", ship_from |-> None]
NoProduct == [state |-> "none", ship_from |-> None, min |-> 0, max |-> 0]
NoVariant == [state |-> "none", price |-> 0]
Idle == [pc |-> "idle"]

Documents == [product : Products, min : Nat, max : Nat]

\* What a request is doing, between two of its steps.
CallState ==
  {Idle}
    \cup [pc : {"setStatus"}, user : Users, status : SellerProfileStatus, seen : SellerProfileStatus \cup {"none"}]
    \cup [pc : {"insert", "update"}, product : Products, ship_from : Addresses \cup {None}]
    \cup [pc : {"reload", "removeVariants", "removeProduct", "unindex"}, product : Products]
    \cup [pc : {"index"}, documents : SUBSET Documents]

TypeOK ==
  /\ address \in [Addresses -> [state : {"none", "live", "deleted"}, is_default : BOOLEAN]]
  /\ application \in [Applications -> [status : SellerApplicationStatus \cup {"none"}, ship_from : Addresses \cup {None}]]
  /\ profile \in [Users -> [status : SellerProfileStatus \cup {"none"}, ship_from : Addresses \cup {None}]]
  /\ product \in [Products -> [state : {"none", "live", "removed"}, ship_from : Addresses \cup {None}, min : Nat, max : Nat]]
  /\ variant \in [Variants -> [state : {"none", "live", "deleted"}, price : Nat]]
  /\ index \subseteq Documents
  /\ call \in [Calls -> CallState]
  /\ told \in [Users -> SellerProfileStatus \cup {"none"}]

Init ==
  /\ address = [a \in Addresses |-> NoAddress]
  /\ application = [s \in Applications |-> NoApplication]
  /\ profile = [u \in Users |-> NoProfile]
  /\ product = [p \in Products |-> NoProduct]
  /\ variant = [v \in Variants |-> NoVariant]
  /\ index = {}
  /\ call = [c \in Calls |-> Idle]
  /\ told = [u \in Users |-> "none"]

-----------------------------------------------------------------------------
(* Addresses.                                                              *)

Live(a) == address[a].state = "live"
LiveProducts == {p \in Products : product[p].state = "live"}
OnSale(p) == {v \in Variants : ProductOf[v] = p /\ variant[v].state = "live"}

\* UPDATE addresses SET is_default = 0 for the user's live addresses.
Demoted(u) == [a \in Addresses |-> IF AddressOf[a] = u /\ Live(a)
                                   THEN [state |-> "live", is_default |-> FALSE] ELSE address[a]]

\* Mutant of CreateAddress: the other addresses stay default.
CreateAddressBeside(a, is_default) ==
  /\ address[a] = NoAddress
  /\ address' = [address EXCEPT ![a] = [state |-> "live", is_default |-> is_default]]
  /\ UNCHANGED <<application, profile, catalogue, call, told>>

CreateAddress(a, is_default) ==
  /\ address[a] = NoAddress
  /\ address' = [IF is_default THEN Demoted(AddressOf[a]) ELSE address
                   EXCEPT ![a] = [state |-> "live", is_default |-> is_default]]
  /\ UNCHANGED <<application, profile, catalogue, call, told>>

SetDefaultAddress(a) ==
  /\ Live(a)
  /\ address' = [Demoted(AddressOf[a]) EXCEPT ![a].is_default = TRUE]
  /\ UNCHANGED <<application, profile, catalogue, call, told>>

\* Mutant of DeleteAddress: pending applications are not looked at.
DeleteAddressApplied(a) ==
  /\ Live(a)
  /\ ~ address[a].is_default
  /\ \A u \in Users : profile[u].ship_from # a
  /\ \A p \in LiveProducts : product[p].ship_from # a
  /\ address' = [address EXCEPT ![a].state = "deleted"]
  /\ UNCHANGED <<application, profile, catalogue, call, told>>

DeleteAddress(a) ==
  /\ Live(a)
  /\ ~ address[a].is_default
  /\ \A s \in Applications : application[s].status = "pending" => application[s].ship_from # a
  /\ \A u \in Users : profile[u].ship_from # a
  /\ \A p \in LiveProducts : product[p].ship_from # a
  /\ address' = [address EXCEPT ![a].state = "deleted"]
  /\ UNCHANGED <<application, profile, catalogue, call, told>>

-----------------------------------------------------------------------------
(* Applications and profiles.                                              *)

Pending(u) == {s \in Applications : ApplicantOf[s] = u /\ application[s].status = "pending"}

\* Mutant of SubmitApplication: another application may be pending.
SubmitApplicationAgain(s, a) ==
  LET u == ApplicantOf[s]
  IN  /\ application[s] = NoApplication
      /\ profile[u] = NoProfile
      /\ AddressOf[a] = u /\ Live(a)
      /\ application' = [application EXCEPT ![s] = [status |-> "pending", ship_from |-> a]]
      /\ UNCHANGED <<address, profile, catalogue, call, told>>

SubmitApplication(s, a) ==
  LET u == ApplicantOf[s]
  IN  /\ application[s] = NoApplication
      /\ profile[u] = NoProfile
      /\ Pending(u) = {}
      /\ AddressOf[a] = u /\ Live(a)
      /\ application' = [application EXCEPT ![s] = [status |-> "pending", ship_from |-> a]]
      /\ UNCHANGED <<address, profile, catalogue, call, told>>

\* The administrator's read comes before the applicant's lock here too, but what
\* the transaction decides on it reads under locks, or cannot have changed.
ApproveApplication(s) ==
  LET u == ApplicantOf[s]
      a == application[s].ship_from
  IN  /\ application[s].status = "pending"
      /\ AddressOf[a] = u /\ Live(a)
      /\ profile[u] = NoProfile
      /\ application' = [application EXCEPT ![s].status = "approved"]
      /\ profile' = [profile EXCEPT ![u] = [status |-> "active", ship_from |-> a]]
      /\ told' = [told EXCEPT ![u] = "active"]
      /\ UNCHANGED <<address, catalogue, call>>

RejectApplication(s) ==
  /\ application[s].status = "pending"
  /\ application' = [application EXCEPT ![s].status = "rejected"]
  /\ UNCHANGED <<address, profile, catalogue, call, told>>

Goto(c, row) == call' = [call EXCEPT ![c] = row]
End(c) == Goto(c, Idle)

\* updateProfileStatus reads the administrator's row: the read view is fixed.
ReadAdmin(c, u, status) ==
  /\ call[c] = Idle
  /\ Goto(c, [pc |-> "setStatus", user |-> u, status |-> status, seen |-> profile[u].status])
  /\ UNCHANGED <<sellers, catalogue, told>>

\* manager.save compares the entity with the row it reads, which is that of the
\* read view (REPEATABLE READ, MySQL's default: the code sets no other level). It
\* leaves the column out of the UPDATE when they agree, and inserts, which fails
\* and rolls back, when the view has no row.
SaveStatus(c) ==
  LET u == call[c].user
      status == call[c].status
      read == call[c].seen
  IN  /\ call[c].pc = "setStatus"
      /\ IF profile[u].status \in {"none", status} \/ read = "none"
         THEN UNCHANGED <<profile, told>>
         ELSE /\ profile' = IF read = status THEN profile ELSE [profile EXCEPT ![u].status = status]
              /\ told' = [told EXCEPT ![u] = status]
      /\ End(c)
      /\ UNCHANGED <<address, application, catalogue>>

-----------------------------------------------------------------------------
(* Products.  Each call begins with checks outside any transaction.        *)

MayOffer(u) == profile[u].status = "active"
MayShipFrom(u, a) == a \in Addresses /\ AddressOf[a] = u /\ Live(a)

CheckNew(c, p, a) ==
  /\ call[c] = Idle
  /\ product[p] = NoProduct
  /\ MayOffer(SellerOf[p]) /\ MayShipFrom(SellerOf[p], a)
  /\ Goto(c, [pc |-> "insert", product |-> p, ship_from |-> a])
  /\ UNCHANGED <<sellers, catalogue, told>>

VariantsOf(p) == {v \in Variants : ProductOf[v] = p}
PriceRange(prices) == [min |-> Min(prices), max |-> Max(prices)]
Document(p, range) == [product |-> p, min |-> range.min, max |-> range.max]
Current(p) == Document(p, product[p])
Offer(shipFrom, range) == [state |-> "live", ship_from |-> shipFrom, min |-> range.min, max |-> range.max]

\* What a request says of the variants vs: each gets a price.
Offers(vs) == [vs -> Prices]

\* The rows these variants get: an UPDATE of their price, or an INSERT.
Priced(prices) ==
  [v \in Variants |-> IF v \in DOMAIN prices THEN [state |-> "live", price |-> prices[v]] ELSE variant[v]]

\* The transaction of createProduct; ids are fresh ones.
InsertProduct(c) ==
  LET p == call[c].product
  IN  /\ call[c].pc = "insert"
      /\ product[p] = NoProduct
      /\ \E vs \in (SUBSET VariantsOf(p)) \ {{}} :
           \E prices \in Offers(vs) :
             LET range == PriceRange({prices[v] : v \in vs})
             IN  /\ variant' = Priced(prices)
                 /\ product' = [product EXCEPT ![p] = Offer(call[c].ship_from, range)]
                 /\ Goto(c, [pc |-> "index", documents |-> {Document(p, range)}])
      /\ UNCHANGED <<sellers, index, told>>

\* a is a new ship_from address, or None.
CheckUpdate(c, p, a) ==
  /\ call[c] = Idle
  /\ p \in LiveProducts
  /\ MayOffer(SellerOf[p])
  /\ a # None => MayShipFrom(SellerOf[p], a)
  /\ Goto(c, [pc |-> "update", product |-> p, ship_from |-> a])
  /\ UNCHANGED <<sellers, catalogue, told>>

\* Mutant of UpdateProduct: the range of the request's own variants is stored.
UpdateProductRange(c) ==
  LET p == call[c].product
  IN  /\ call[c].pc = "update"
      /\ p \in LiveProducts
      /\ \E vs \in (SUBSET VariantsOf(p)) \ {{}} :
           \E prices \in Offers(vs) :
             /\ \A v \in vs : variant[v].state # "deleted"
             /\ variant' = Priced(prices)
             /\ product' = [product EXCEPT ![p] = Offer(@.ship_from, PriceRange({prices[v] : v \in vs}))]
      /\ Goto(c, [pc |-> "reload", product |-> p])
      /\ UNCHANGED <<sellers, index, told>>

\* The transaction of update, under the product's lock: a product or a variant that
\* was deleted since the checks rolls it back, and so does a product without
\* variants; otherwise the price range is computed afresh from the live variants.
UpdateProduct(c) ==
  LET p == call[c].product
      shipFrom == IF call[c].ship_from = None THEN product[p].ship_from ELSE call[c].ship_from
  IN  /\ call[c].pc = "update"
      /\ \E vs \in SUBSET VariantsOf(p) :
           LET after == OnSale(p) \cup vs
           IN  IF p \in LiveProducts /\ after # {} /\ \A v \in vs : variant[v].state # "deleted"
               THEN \E prices \in Offers(vs) :
                      /\ variant' = Priced(prices)
                      /\ product' = [product EXCEPT ![p] =
                                      Offer(shipFrom, PriceRange({Priced(prices)[v].price : v \in after}))]
                      /\ Goto(c, [pc |-> "reload", product |-> p])
               ELSE End(c) /\ UNCHANGED <<product, variant>>
      /\ UNCHANGED <<sellers, index, told>>

\* getProductById, for the answer and the index.
ReloadProduct(c) ==
  LET p == call[c].product
  IN  /\ call[c].pc = "reload"
      /\ IF p \in LiveProducts THEN Goto(c, [pc |-> "index", documents |-> {Current(p)}]) ELSE End(c)
      /\ UNCHANGED <<sellers, catalogue, told>>

\* The script that sends every product to the index.
Synchronize(c) ==
  /\ call[c] = Idle
  /\ LiveProducts # {}
  /\ Goto(c, [pc |-> "index", documents |-> {Current(p) : p \in LiveProducts}])
  /\ UNCHANGED <<sellers, catalogue, told>>

Without(p) == {d \in index : d.product # p}

\* Sent to Elasticsearch without waiting: it may fail, and nothing repeats it.
IndexProduct(c) ==
  /\ call[c].pc = "index"
  /\ \E d \in call[c].documents :
       /\ index' \in {index, Without(d.product) \cup {d}}
       /\ IF call[c].documents = {d} THEN End(c) ELSE Goto(c, [pc |-> "index", documents |-> call[c].documents \ {d}])
  /\ UNCHANGED <<sellers, product, variant, told>>

\* remove: checks, then three steps of its own.
CheckRemove(c, p) ==
  /\ call[c] = Idle
  /\ p \in LiveProducts
  /\ MayOffer(SellerOf[p])
  /\ Goto(c, [pc |-> "removeVariants", product |-> p])
  /\ UNCHANGED <<sellers, catalogue, told>>

RemoveVariants(c) ==
  /\ call[c].pc = "removeVariants"
  /\ variant' = [v \in Variants |-> IF v \in OnSale(call[c].product)
                                    THEN [state |-> "deleted", price |-> variant[v].price] ELSE variant[v]]
  /\ Goto(c, [pc |-> "removeProduct", product |-> call[c].product])
  /\ UNCHANGED <<sellers, product, index, told>>

RemoveProduct(c) ==
  /\ call[c].pc = "removeProduct"
  /\ product' = [product EXCEPT ![call[c].product].state = "removed"]
  /\ Goto(c, [pc |-> "unindex", product |-> call[c].product])
  /\ UNCHANGED <<sellers, variant, index, told>>

UnindexProduct(c) ==
  /\ call[c].pc = "unindex"
  /\ index' \in {index, Without(call[c].product)}
  /\ End(c)
  /\ UNCHANGED <<sellers, product, variant, told>>

\* Searches.  lo and hi are bounds of the price.

\* Mutant of ByIndex: the bounds are compared with the wrong ends of the range.
ByIndexWithin(lo, hi) ==
  {p \in LiveProducts : \E d \in index : d.product = p /\ d.min >= lo /\ d.max <= hi}

\* The ids come from the index, the products from the database.
ByIndex(lo, hi) ==
  {p \in LiveProducts : \E d \in index : d.product = p /\ d.max >= lo /\ d.min <= hi}

\* When the index does not answer, the variants are compared.
ByVariants(lo, hi) ==
  {p \in LiveProducts : /\ \E v \in OnSale(p) : variant[v].price >= lo
                        /\ \E v \in OnSale(p) : variant[v].price <= hi}

\* The process is lost: what a call had committed stays, the removal of the
\* variants of a product for one.
Lose(c) ==
  /\ call[c] # Idle
  /\ End(c)
  /\ UNCHANGED <<sellers, catalogue, told>>

-----------------------------------------------------------------------------
Request(c) ==
  \/ \E u \in Users, status \in SellerProfileStatus : ReadAdmin(c, u, status)
  \/ \E p \in Products, a \in Addresses : CheckNew(c, p, a)
  \/ \E p \in Products, a \in Addresses \cup {None} : CheckUpdate(c, p, a)
  \/ \E p \in Products : CheckRemove(c, p)
  \/ Synchronize(c)

Continue(c) ==
  \/ SaveStatus(c) \/ InsertProduct(c) \/ UpdateProduct(c) \/ ReloadProduct(c) \/ IndexProduct(c)
  \/ RemoveVariants(c) \/ RemoveProduct(c) \/ UnindexProduct(c)

Next ==
  \/ \E a \in Addresses : \/ \E is_default \in BOOLEAN : CreateAddress(a, is_default)
                          \/ SetDefaultAddress(a) \/ DeleteAddress(a)
  \/ \E s \in Applications : \/ \E a \in Addresses : SubmitApplication(s, a)
                             \/ ApproveApplication(s) \/ RejectApplication(s)
  \/ \E c \in Calls : Request(c) \/ Continue(c) \/ Lose(c)

Spec == Init /\ [][Next]_vars

-----------------------------------------------------------------------------
OneDefault ==
  \A a, b \in Addresses :
    address[a].is_default => Live(a) /\ (address[b].is_default /\ AddressOf[a] = AddressOf[b] => a = b)

AppliedIsLive ==
  \A s \in Applications :
    application[s].status = "pending" => MayShipFrom(ApplicantOf[s], application[s].ship_from)

SellersShip == \A u \in Users : profile[u] # NoProfile => MayShipFrom(u, profile[u].ship_from)

\* Whatever a user and the administrators do to them meanwhile: a user has at most
\* one default address, which exists, and the addresses that a pending
\* application, or a seller's orders, ship from exist and are the user's own.
AddressesAreKept == OneDefault /\ AppliedIsLive /\ SellersShip

Approved(u) == {s \in Applications : ApplicantOf[s] = u /\ application[s].status = "approved"}

Stands(s) == application[s].status \in {"pending", "approved"}

\* A user sells exactly if an application of the user was approved, never two, and
\* then has no other that could be approved or rejected still.
SellersAreApproved ==
  /\ \A u \in Users : profile[u] # NoProfile <=> Approved(u) # {}
  /\ \A s, t \in Applications :
       Stands(s) /\ Stands(t) /\ ApplicantOf[s] = ApplicantOf[t] => s = t

RangeIsExact(p) ==
  LET prices == {variant[v].price : v \in OnSale(p)}
  IN  IF prices = {} THEN \E v \in VariantsOf(p) : variant[v].state = "deleted"
      ELSE PriceRange(prices) = [min |-> product[p].min, max |-> product[p].max]

\* min_price and max_price of a live product are the least and the greatest price
\* of its live variants, and it has some unless a removal has deleted them.
PriceRangeIsExact == \A p \in LiveProducts : RangeIsExact(p)

\* A product whose last update reached the index is found by the same searches,
\* whether Elasticsearch or the database answers.
SearchesAgree ==
  \A p \in LiveProducts :
    Current(p) \in index /\ OnSale(p) # {} =>
      \A lo, hi \in Prices : p \in ByIndex(lo, hi) <=> p \in ByVariants(lo, hi)

\* database_schema.dbml:901 says of "suspended" that the seller's right to sell is
\* stopped: a seller who is suspended by what the last successful request was
\* answered may not offer products.
SuspendedMayNotSell == \A u \in Users : told[u] = "suspended" => ~ MayOffer(u)
=============================================================================
