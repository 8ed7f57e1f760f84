------------------------------- MODULE Orders -------------------------------
(***************************************************************************)
(* The life of an order and of the points paid for it                      *)
(* (orders/orders.service.ts) on top of the wallet ledger.                 *)
(*                                                                         *)
(* Every handler that changes an order but one does so in one transaction  *)
(* that holds the row lock of the order and checks its status again under  *)
(* it, so a handler is one action here; a request the handler refuses, or  *)
(* a transaction that fails, takes no step.  The exception, editPurchase,  *)
(* reads and saves the order without a transaction or a lock, and is added *)
(* to these handlers in OrdersEdit.  Rows keep the columns that decide     *)
(* what may happen next: who pays whom, what was taken from stock, the two *)
(* status columns and the deadlines.                                       *)
(*                                                                         *)
(* An order is identified by what makes it unique: its buyer and checkout  *)
(* idempotency key.  A second createOrder for it finds the row and returns *)
(* it, which changes nothing.                                              *)
(***************************************************************************)
EXTENDS WalletLedger, Sequences, Sums

CONSTANTS Orders,          \* checkouts: pairs (buyer_id, checkout_idempotency_key)
          BuyerOf,         \* the buyer of each checkout
          Variants,        \* product variants
          SellerOf,        \* the seller of each variant
          InitialStock,    \* the stock of each variant at the start
          Baskets,         \* quantity of each variant a buyer may ask for
          Totals,          \* prices a basket may have: sellers change prices at any time
          RewardCoin,      \* points credited for an accepted reward proof
          ReturnWindow,    \* 7 days: from delivery to the return deadline
          ResponseWindow,  \* 3 days: from a refund request to its response deadline
          BatchLimit,      \* the greatest limit a worker is called with (100 by default)
          MaxTime          \* bound on the clock

OperationKinds == {"ORDER_PAYMENT", "ORDER_REFUND:CANCEL", "ORDER_REFUND:SELLER_REJECT",
                   "REFUND_SETTLEMENT", "ORDER_POINTS_RELEASE"}
OrderKeys == (OperationKinds \X Orders) \cup ({"REWARD_PROOF"} \X Users)

ASSUME OrderAssumption ==
  /\ OrderKeys \subseteq Keys
  /\ BuyerOf \in [Orders -> Users]
  /\ SellerOf \in [Variants -> Users]
  /\ InitialStock \in [Variants -> Nat]
  /\ Baskets \subseteq [Variants -> Nat]
  /\ Totals \subseteq Nat
  /\ RewardCoin \in Nat
  /\ ReturnWindow \in Nat /\ ResponseWindow \in Nat
  /\ BatchLimit \in Nat /\ MaxTime \in Nat
  /\ IsFiniteSet(Orders)

VARIABLES order,      \* row of each checkout: orders and order_items
          refund,     \* its refunds row
          timeline,   \* its order_timelines rows: pairs <<previous_status, new_status>>
          stock,      \* stock of each variant
          moved,      \* has the order's quantity been deducted, restored (inventory_movements)
          listed,     \* variants not soft-deleted
          active,     \* users whose seller profile is active
          now         \* the time

orderVars == <<order, refund, timeline, stock, moved>>
vars == <<ledgerVars, orderVars, listed, active, now>>

OrderStatus == {"pending_confirmation", "confirmed", "shipping", "delivered", "cancelled"}
SettlementStatus == {"holding", "refund_requested", "released", "refunded"}
RefundStatus == {"requested", "rejected", "completed"}
DecisionSource == {"seller", "system_timeout"}

OrderRows == [seller : Users, items : [Variants -> Nat], total : Nat,
              status : OrderStatus, settlement : SettlementStatus, return_deadline : Nat]
RefundRows == [status : RefundStatus, deadline : Nat, source : DecisionSource \cup {"none"}]

NoOrder == [status |-> "absent"]
NoRefund == [status |-> "absent"]
Placed == {o \in Orders : order[o] # NoOrder}

TypeOK ==
  /\ LedgerTypeOK
  /\ order \in [Orders -> OrderRows \cup {NoOrder}]
  /\ refund \in [Orders -> RefundRows \cup {NoRefund}]
  /\ timeline \in [Orders -> Seq((OrderStatus \cup {"null"}) \X OrderStatus)]
  /\ stock \in [Variants -> Nat]
  /\ moved \in [Orders -> {"none", "deducted", "restored"}]
  /\ listed \subseteq Variants
  /\ active \subseteq Users
  /\ now \in 0..MaxTime

Init ==
  /\ LedgerInit
  /\ order = [o \in Orders |-> NoOrder]
  /\ refund = [o \in Orders |-> NoRefund]
  /\ timeline = [o \in Orders |-> << >>]
  /\ stock = InitialStock
  /\ moved = [o \in Orders |-> "none"]
  /\ listed = Variants
  /\ active = {SellerOf[v] : v \in Variants}
  /\ now = 0

-----------------------------------------------------------------------------
Available(u) == <<u, "available">>
Pending(u) == <<u, "pending">>

\* The entries of the order operations: payment, refund and release.
PaymentEntries(o, row) == Transfer(Available(BuyerOf[o]), Pending(row.seller), row.total)

\* Mutant of RefundEntries: the seller's pending balance is not debited.
RefundUncovered(o, row) == Credit(Available(BuyerOf[o]), row.total)

\* Mutant of RefundEntries: the points go to the seller.
RefundToSeller(o, row) == Transfer(Pending(row.seller), Available(row.seller), row.total)

RefundEntries(o, row) == Transfer(Pending(row.seller), Available(BuyerOf[o]), row.total)
ReleaseEntries(row) == Transfer(Pending(row.seller), Available(row.seller), row.total)

Contains(items) == {v \in Variants : items[v] > 0}

AddTimeline(o, status) ==
  timeline' = [timeline EXCEPT ![o] =
                Append(@, <<IF order[o] = NoOrder THEN "null" ELSE order[o].status, status>>)]

\* Mutant of RestoreOrderStock: one unit per item goes back.
RestoreOneEach(o) ==
  IF moved[o] = "deducted"
  THEN /\ Contains(order[o].items) \subseteq listed
       /\ stock' = [v \in Variants |-> stock[v] + (IF order[o].items[v] > 0 THEN 1 ELSE 0)]
       /\ moved' = [moved EXCEPT ![o] = "restored"]
  ELSE UNCHANGED <<stock, moved>>

\* The quantities taken by the order go back once; a variant that has been
\* soft-deleted since is not found and the transaction fails.
RestoreOrderStock(o) ==
  IF moved[o] = "deducted"
  THEN /\ Contains(order[o].items) \subseteq listed
       /\ stock' = [v \in Variants |-> stock[v] + order[o].items[v]]
       /\ moved' = [moved EXCEPT ![o] = "restored"]
  ELSE UNCHANGED <<stock, moved>>

\* Order, stock and payment are one transaction.
CreateOrder(o, seller, items, total) ==
  LET row == [seller |-> seller, items |-> items, total |-> total,
              status |-> "pending_confirmation", settlement |-> "holding",
              return_deadline |-> 0]
  IN  /\ order[o] = NoOrder
      /\ Contains(items) # {}
      /\ Contains(items) \subseteq listed
      /\ \A v \in Contains(items) : SellerOf[v] = seller /\ items[v] <= stock[v]
      /\ seller # BuyerOf[o]
      /\ seller \in active
      /\ total > 0
      /\ order' = [order EXCEPT ![o] = row]
      /\ AddTimeline(o, "pending_confirmation")
      /\ stock' = [v \in Variants |-> stock[v] - items[v]]
      /\ moved' = [moved EXCEPT ![o] = "deducted"]
      /\ ApplyOperation(<<"ORDER_PAYMENT", o>>, PaymentEntries(o, row))
      /\ UNCHANGED <<refund, listed, active, now>>

\* The buyer's cancellation, and the seller's refusal, refund the buyer.
CancelAndRefund(o, kind) ==
  /\ order' = [order EXCEPT ![o].status = "cancelled", ![o].settlement = "refunded"]
  /\ RestoreOrderStock(o)
  /\ ApplyOperation(<<kind, o>>, RefundEntries(o, order[o]))
  /\ AddTimeline(o, "cancelled")
  /\ UNCHANGED <<refund, listed, active, now>>

\* Mutant of CancelOrder: also after shipping.
CancelOrderLate(o) ==
  /\ order[o].status \in OrderStatus \ {"cancelled"}
  /\ CancelAndRefund(o, "ORDER_REFUND:CANCEL")

CancelOrder(o) ==
  /\ order[o].status \in {"pending_confirmation", "confirmed"}
  /\ CancelAndRefund(o, "ORDER_REFUND:CANCEL")

RejectBuyer(o) ==
  /\ order[o].status = "pending_confirmation"
  /\ order[o].seller \in active
  /\ CancelAndRefund(o, "ORDER_REFUND:SELLER_REJECT")

\* A step of fulfilment moves no points and no stock.
Advance(o, from, row) ==
  /\ order[o].status = from
  /\ order' = [order EXCEPT ![o] = row]
  /\ AddTimeline(o, row.status)
  /\ UNCHANGED <<ledgerVars, refund, stock, moved, listed, active, now>>

AcceptBuyer(o) ==
  /\ order[o].status = "pending_confirmation"
  /\ order[o].seller \in active
  /\ Advance(o, "pending_confirmation", [order[o] EXCEPT !.status = "confirmed"])

SellerMarkAsShipped(o) ==
  /\ order[o].status = "confirmed"
  /\ order[o].seller \in active
  /\ Advance(o, "confirmed", [order[o] EXCEPT !.status = "shipping"])

\* MaxTime bounds the model: deliveries whose windows outlast it are left out.
BuyerConfirmReceived(o) ==
  /\ order[o].status = "shipping"
  /\ now + ReturnWindow + ResponseWindow < MaxTime
  /\ Advance(o, "shipping", [order[o] EXCEPT !.status = "delivered",
                                             !.return_deadline = now + ReturnWindow])

-----------------------------------------------------------------------------
\* Mutant of RefundOrder: before delivery.
RefundOrderEarly(o) ==
  /\ order[o].status \in {"shipping", "delivered"}
  /\ refund[o] = NoRefund
  /\ refund' = [refund EXCEPT ![o] =
                  [status |-> "requested", deadline |-> now + ResponseWindow, source |-> "none"]]
  /\ order' = [order EXCEPT ![o].settlement = "refund_requested"]
  /\ UNCHANGED <<ledgerVars, timeline, stock, moved, listed, active, now>>

\* Mutant of RefundOrder: after the return deadline.
RefundOrderLate(o) ==
  /\ order[o].status = "delivered"
  /\ refund[o] = NoRefund
  /\ refund' = [refund EXCEPT ![o] =
                  [status |-> "requested", deadline |-> now + ResponseWindow, source |-> "none"]]
  /\ order' = [order EXCEPT ![o].settlement = "refund_requested"]
  /\ UNCHANGED <<ledgerVars, timeline, stock, moved, listed, active, now>>

\* One request per order, within the return deadline; asking again, even after
\* a rejection, returns the request made before.
RefundOrder(o) ==
  /\ order[o].status = "delivered"
  /\ now <= order[o].return_deadline
  /\ refund[o] = NoRefund
  /\ refund' = [refund EXCEPT ![o] =
                  [status |-> "requested", deadline |-> now + ResponseWindow, source |-> "none"]]
  /\ order' = [order EXCEPT ![o].settlement = "refund_requested"]
  /\ UNCHANGED <<ledgerVars, timeline, stock, moved, listed, active, now>>

\* One applyOperation per order of S in one transaction.  Within a batch each
\* account is only credited or only debited, so the balances need checking once.
ApplyToOrders(kind, S, entries) ==
  LET fresh == {o \in S : operation[<<kind, o>>] = NoOperation}
  IN  /\ \A o \in S \ fresh : operation[<<kind, o>>].entries = entries[o]
      /\ Post([a \in Accounts |-> SumOver([o \in fresh |-> entries[o][a]], fresh)])
      /\ operation' = [k \in Keys |-> IF k \in {kind} \X fresh
                                     THEN Completed(entries[k[2]]) ELSE operation[k]]

\* The refund is paid and completed; nothing goes back to stock.
CompleteRefundSettlement(S, source) ==
  /\ ApplyToOrders("REFUND_SETTLEMENT", S, [o \in S |-> RefundEntries(o, order[o])])
  /\ refund' = [o \in Orders |-> IF o \in S
                  THEN [refund[o] EXCEPT !.status = "completed", !.source = source] ELSE refund[o]]
  /\ order' = [o \in Orders |-> IF o \in S
                  THEN [order[o] EXCEPT !.settlement = "refunded"] ELSE order[o]]
  /\ UNCHANGED <<timeline, stock, moved, listed, active, now>>

\* A rejected request resumes the holding period.
RejectRefund(o) ==
  /\ refund' = [refund EXCEPT ![o].status = "rejected", ![o].source = "seller"]
  /\ order' = [order EXCEPT ![o].settlement = "holding"]
  /\ UNCHANGED <<ledgerVars, timeline, stock, moved, listed, active, now>>

\* The seller's answer; after the response deadline any answer accepts.  The
\* seller's profile need not be active.
RespondRefund(o, accept) ==
  /\ order[o].status = "delivered"
  /\ order[o].settlement = "refund_requested"
  /\ refund[o].status = "requested"
  /\ \/ now > refund[o].deadline /\ CompleteRefundSettlement({o}, "system_timeout")
     \/ now <= refund[o].deadline /\ accept /\ CompleteRefundSettlement({o}, "seller")
     \/ now <= refund[o].deadline /\ ~accept /\ RejectRefund(o)

\* The rows a worker takes: all that are due, or as many as the limit it is called
\* with.  They are taken by row id, which the model does not carry: any choice is
\* allowed.
Batches(due) == {S \in SUBSET due : S # {} /\ Cardinality(S) <= BatchLimit}

\* Mutant of AcceptExpiredRefunds: the wrong settlement is looked for.
AcceptExpiredHoldings ==
  LET due == {o \in Orders : refund[o].status = "requested" /\ refund[o].deadline < now}
  IN  \E S \in Batches(due) :
        CompleteRefundSettlement({o \in S : order[o].settlement = "holding"}, "system_timeout")

\* Orders that are no longer waiting for an answer are skipped, their refund
\* rows left as they are.
AcceptExpiredRefunds ==
  LET due == {o \in Orders : refund[o].status = "requested" /\ refund[o].deadline < now}
  IN  \E S \in Batches(due) :
        CompleteRefundSettlement({o \in S : order[o].settlement = "refund_requested"},
                                 "system_timeout")

\* Mutant of ReleaseDueSellerPoints: before the return deadline.
ReleaseEarly ==
  LET due == {o \in Orders : order[o].status = "delivered" /\ order[o].settlement = "holding"}
  IN  \E S \in Batches(due) :
        /\ ApplyToOrders("ORDER_POINTS_RELEASE", S, [o \in S |-> ReleaseEntries(order[o])])
        /\ order' = [o \in Orders |-> IF o \in S
                       THEN [order[o] EXCEPT !.settlement = "released"] ELSE order[o]]
        /\ UNCHANGED <<refund, timeline, stock, moved, listed, active, now>>

\* Mutant of ReleaseDueSellerPoints: a rejected request blocks the release.
ReleaseUndisputed ==
  LET due == {o \in Orders : /\ order[o].status = "delivered"
                             /\ order[o].settlement = "holding"
                             /\ refund[o] = NoRefund
                             /\ order[o].return_deadline < now}
  IN  \E S \in Batches(due) :
        /\ ApplyToOrders("ORDER_POINTS_RELEASE", S, [o \in S |-> ReleaseEntries(order[o])])
        /\ order' = [o \in Orders |-> IF o \in S
                       THEN [order[o] EXCEPT !.settlement = "released"] ELSE order[o]]
        /\ UNCHANGED <<refund, timeline, stock, moved, listed, active, now>>

ReleaseDueSellerPoints ==
  LET due == {o \in Orders : /\ order[o].status = "delivered"
                             /\ order[o].settlement = "holding"
                             /\ order[o].return_deadline < now}
  IN  \E S \in Batches(due) :
        /\ ApplyToOrders("ORDER_POINTS_RELEASE", S, [o \in S |-> ReleaseEntries(order[o])])
        /\ order' = [o \in Orders |-> IF o \in S
                       THEN [order[o] EXCEPT !.settlement = "released"] ELSE order[o]]
        /\ UNCHANGED <<refund, timeline, stock, moved, listed, active, now>>

-----------------------------------------------------------------------------
\* Points enter the system with an accepted reward proof, one per user here.
AddRewardProof(u) ==
  /\ ApplyOperation(<<"REWARD_PROOF", u>>, Credit(Available(u), RewardCoin))
  /\ UNCHANGED <<orderVars, listed, active, now>>

\* The seller deletes a product: its variants are soft-deleted.
RemoveProduct(v) ==
  /\ SellerOf[v] \in active
  /\ listed' = listed \ {v}
  /\ UNCHANGED <<ledgerVars, orderVars, active, now>>

\* An administrator suspends or reactivates a seller's profile.
UpdateProfileStatus(u) ==
  /\ active' = IF u \in active THEN active \ {u} ELSE active \cup {u}
  /\ UNCHANGED <<ledgerVars, orderVars, listed, now>>

Tick ==
  /\ now < MaxTime
  /\ now' = now + 1
  /\ UNCHANGED <<ledgerVars, orderVars, listed, active>>

UserRequest ==
  \/ \E o \in Orders, s \in Users, b \in Baskets, t \in Totals : CreateOrder(o, s, b, t)
  \/ \E o \in Orders : CancelOrder(o)
  \/ \E o \in Orders : RejectBuyer(o)
  \/ \E o \in Orders : AcceptBuyer(o)
  \/ \E o \in Orders : SellerMarkAsShipped(o)
  \/ \E o \in Orders : BuyerConfirmReceived(o)
  \/ \E o \in Orders : RefundOrder(o)
  \/ \E o \in Orders, accept \in BOOLEAN : RespondRefund(o, accept)
  \/ \E u \in Users : AddRewardProof(u)
  \/ \E v \in Variants : RemoveProduct(v)
  \/ \E u \in {SellerOf[v] : v \in Variants} : UpdateProfileStatus(u)

Next == UserRequest \/ AcceptExpiredRefunds \/ ReleaseDueSellerPoints \/ Tick

Spec == Init /\ [][Next]_vars

-----------------------------------------------------------------------------
Settled == {"released", "refunded"}
HeldFor(u) == {o \in Placed : order[o].seller = u /\ order[o].settlement \notin Settled}
ReleasedTo(u) == {o \in Placed : order[o].seller = u /\ order[o].settlement = "released"}
PaidBy(u) == {o \in Placed : BuyerOf[o] = u /\ order[o].settlement # "refunded"}

TotalOf(S) == SumOver([o \in S |-> order[o].total], S)

SettlementOf(o) == IF o \in Placed THEN order[o].settlement ELSE "none"
Done(kind, o) == operation[<<kind, o>>] # NoOperation
Rewarded(u) == IF Done("REWARD_PROOF", u) THEN RewardCoin ELSE 0

\* What a seller's pending balance holds is exactly the price of the seller's
\* orders that are neither released nor refunded, so no settlement ever finds
\* too little there (applyOperation's "Insufficient wallet balance").
PendingIsHeld == \A u \in Users : balance[Pending(u)] = TotalOf(HeldFor(u))

\* What a user can spend is what the user was rewarded, less what the user's
\* orders cost unless refunded, plus what orders from the user released.
AvailableIsEarned ==
  \A u \in Users :
    balance[Available(u)] = Rewarded(u) - TotalOf(PaidBy(u)) + TotalOf(ReleasedTo(u))

\* Wallets and orders, which are written by different services, tell one story.
WalletsFollowOrders == PendingIsHeld /\ AvailableIsEarned

\* The four ways to dispose of an order's payment have four idempotency keys,
\* and only the status columns keep them apart: an order has been paid once it
\* exists, at most one of the four is done, and it is the one its columns tell.
SettledOnceFor(o) ==
  LET status == order[o].status
  IN  /\ Done("ORDER_PAYMENT", o) <=> o \in Placed
      /\ ~(Done("ORDER_REFUND:CANCEL", o) /\ Done("ORDER_REFUND:SELLER_REJECT", o))
      /\ Done("ORDER_REFUND:CANCEL", o) \/ Done("ORDER_REFUND:SELLER_REJECT", o)
           <=> status = "cancelled"
      /\ Done("REFUND_SETTLEMENT", o) <=> status = "delivered" /\ SettlementOf(o) = "refunded"
      /\ Done("ORDER_POINTS_RELEASE", o) <=> SettlementOf(o) = "released"

SettledOnce == \A o \in Orders : SettledOnceFor(o)

\* A refund row and the order's settlement agree: points are paused exactly
\* while a request is open, and a completed refund is a refunded order.
RefundFollows(o) ==
  /\ refund[o].status = "requested" <=> SettlementOf(o) = "refund_requested"
  /\ refund[o].status = "completed" <=>
       order[o].status = "delivered" /\ SettlementOf(o) = "refunded"
  /\ refund[o].status = "rejected" => SettlementOf(o) \in {"holding", "released"}

RefundFollowsOrder == \A o \in Orders : RefundFollows(o)

\* Which settlement goes with which status: an order on its way is held, a
\* cancelled one refunded; only a delivered one can be under refund request or
\* released, and released only once its return window is over.
SettlementFollows(o) ==
  LET status == order[o].status
  IN  /\ status \in {"pending_confirmation", "confirmed", "shipping"} => SettlementOf(o) = "holding"
      /\ status = "cancelled" => SettlementOf(o) = "refunded"
      /\ SettlementOf(o) \in {"refund_requested", "released"} => status = "delivered"
      /\ SettlementOf(o) = "released" => now > order[o].return_deadline
      /\ refund[o] # NoRefund => status = "delivered"

SettlementFollowsStatus == \A o \in Orders : SettlementFollows(o)

\* The three places that tell where an order's payment is agree: its status, its
\* settlement, each with the deadlines, and its refund.
RefundsAndSettlementsAgree == RefundFollowsOrder /\ SettlementFollowsStatus

\* Stock is what there was less what orders not cancelled took: every deduction
\* is restored with the cancellation that refunds it, and never twice.
StockFollowsOrders ==
  LET Kept == {o \in Placed : order[o].status # "cancelled"}
  IN  \A v \in Variants :
        stock[v] = InitialStock[v] - SumOver([o \in Kept |-> order[o].items[v]], Kept)

\* The timeline tells the order's history: it starts with its creation, each
\* row continues where the row before it ended, and the last is the status.
TimelineFollowsStatus ==
  \A o \in Orders :
    LET t == timeline[o]
    IN  /\ o \in Placed <=> t # << >>
        /\ \A i \in 1..Len(t) : t[i][1] = IF i = 1 THEN "null" ELSE t[i-1][2]
        /\ o \in Placed => t[Len(t)][2] = order[o].status

\* What an order leaves behind elsewhere, stock taken and timeline rows, agrees
\* with what became of it.
TracesFollowOrders == StockFollowsOrders /\ TimelineFollowsStatus

\* Nothing touches a settled order or its refund again.  refundOrder does not
\* look at the settlement: only the two strict comparisons with the deadline
\* keep a buyer from reopening an order whose points were released.
SettledIsFinal ==
  [][\A o \in Placed :
       order[o].settlement \in Settled => order'[o] = order[o] /\ refund'[o] = refund[o]]_vars

\* A seller gets the points only of a delivered order, after the return window,
\* and never while, or after, the buyer is owed an answer or a refund.
ReleasedOnTime ==
  [][\A o \in Placed :
       order[o].settlement # "released" /\ order'[o].settlement = "released" =>
         /\ order[o].status = "delivered"
         /\ now > order[o].return_deadline
         /\ refund[o].status \in {"absent", "rejected"}]_vars

-----------------------------------------------------------------------------
\* The points of an order as an escrow deposit, held until it is settled.
Purses == [u \in Users |-> balance[Available(u)]]

Deposits ==
  [o \in Orders |->
     IF o \notin Placed THEN [state |-> "none"]
     ELSE [payee  |-> order[o].seller,
           amount |-> order[o].total,
           state  |-> IF order[o].settlement \in Settled THEN order[o].settlement ELSE "held"]]

EscrowView == INSTANCE Escrow WITH purse <- Purses, deposit <- Deposits

\* Orders, refunds and wallets together do what an escrow promises.
ImplementsEscrow == EscrowView!EscrowSpec

-----------------------------------------------------------------------------
\* The quantities of an order as what it took from an inventory.
BasketOf(o) ==
  IF o \notin Placed THEN [state |-> "none"]
  ELSE [items |-> order[o].items, state |-> IF order[o].status = "cancelled" THEN "returned" ELSE "taken"]

InventoryView == INSTANCE Inventory WITH Adjustments <- {}, exact <- TRUE,
                                         basket <- [o \in Orders |-> BasketOf(o)]

\* Orders take what they ask for and give all of it back, once, when cancelled:
\* the inventory that the handlers implement statement by statement (StockTx).
OrdersImplementInventory == InventoryView!InventorySpec

-----------------------------------------------------------------------------
\* Time passes and, as their comments say, a worker calls the two batch jobs.
\* Users may or may not act.
Workers == WF_vars(AcceptExpiredRefunds) /\ WF_vars(ReleaseDueSellerPoints)
FairSpec == Spec /\ WF_vars(Tick) /\ Workers

\* Every refund request is answered, by the seller or by the timeout.
RefundsAreAnswered ==
  \A o \in Orders : refund[o].status = "requested" ~> refund[o].status \in {"rejected", "completed"}

\* The points of every delivered order end up with one of its parties.
DeliveredIsSettled ==
  \A o \in Orders :
    order[o].status = "delivered" ~> (o \in Placed /\ order[o].settlement \in Settled)
=============================================================================
