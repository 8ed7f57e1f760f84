---------------------------- MODULE OrdersProofs ----------------------------
(***************************************************************************)
(* What Orders guarantees for every set of users, orders, variants,        *)
(* prices, windows and batch sizes, and at the end what Rewards, the other *)
(* service that pays through the ledger, guarantees for any proofs.        *)
(*                                                                         *)
(* The invariant that carries the proofs is IInv: types, and three facts   *)
(* per order that relate its ledger operations, its refund row and its two *)
(* status columns.  None of them is inductive without the others.          *)
(* TracesInv relates orders to stock, inventory movements and timelines.   *)
(* The parts after it are about the points of orders, where wallets and    *)
(* orders tell one story and together implement an escrow, and about their *)
(* stock, where the handlers implement an inventory.                       *)
(***************************************************************************)
EXTENDS Orders, Rewards, WalletLedgerProofs

OrderOK(o) == SettledOnceFor(o) /\ RefundFollows(o) /\ SettlementFollows(o)

IInv == TypeOK /\ \A o \in Orders : OrderOK(o)

-----------------------------------------------------------------------------
LEMMA OrderKeyType ==
  ASSUME NEW o \in Orders, NEW kind \in OperationKinds
  PROVE  <<kind, o>> \in Keys
BY OrderAssumption DEF OrderKeys

LEMMA AccountTypes ==
  ASSUME NEW u \in Users
  PROVE  Available(u) \in Accounts /\ Pending(u) \in Accounts
BY DEF Available, Pending, Accounts, Buckets

LEMMA TransferType ==
  ASSUME NEW from \in Accounts, NEW to \in Accounts, NEW m \in Nat
  PROVE  Transfer(from, to, m) \in Entries
<1>1. \A a \in Accounts :
        (CASE a = to -> m [] a = from -> -m [] OTHER -> 0) \in Int
  OBVIOUS
<1> QED
  BY <1>1 DEF Transfer, Entries

\* The entries of every order operation are well-formed.
LEMMA OrderEntriesType ==
  ASSUME NEW o \in Orders, NEW row, row.seller \in Users, row.total \in Nat
  PROVE  /\ PaymentEntries(o, row) \in Entries
         /\ RefundEntries(o, row) \in Entries
         /\ ReleaseEntries(row) \in Entries
<1>1. BuyerOf[o] \in Users
  BY OrderAssumption
<1> QED
  BY <1>1, AccountTypes, TransferType DEF PaymentEntries, RefundEntries, ReleaseEntries

\* applyOperation leaves its key recorded and touches no other key.
LEMMA ApplyStep ==
  ASSUME LedgerTypeOK, NEW k \in Keys, NEW e \in Entries, ApplyOperation(k, e)
  PROVE  /\ LedgerTypeOK'
         /\ operation'[k] # NoOperation
         /\ \A j \in Keys \ {k} : operation'[j] = operation[j]
<1>1. CASE operation[k] = NoOperation
  <2>1. Post(e) /\ operation' = [operation EXCEPT ![k] = Completed(e)]
    BY <1>1 DEF ApplyOperation
  <2> QED
    BY <2>1, NewOperationStep, CompletedIsRecorded
<1>2. CASE operation[k] # NoOperation
  BY <1>2 DEF ApplyOperation, ledgerVars, LedgerTypeOK
<1> QED
  BY <1>1, <1>2

\* So does a batch, for the keys of its orders.
LEMMA BatchStep ==
  ASSUME LedgerTypeOK, NEW kind \in OperationKinds, NEW S \in SUBSET Orders,
         NEW entries \in [S -> Entries], ApplyToOrders(kind, S, entries)
  PROVE  /\ LedgerTypeOK'
         /\ \A o \in S : operation'[<<kind, o>>] # NoOperation
         /\ \A j \in Keys : j \notin {kind} \X S => operation'[j] = operation[j]
<1> DEFINE fresh == {o \in S : operation[<<kind, o>>] = NoOperation}
<1>1. /\ Post([a \in Accounts |-> SumOver([o \in fresh |-> entries[o][a]], fresh)])
      /\ operation' = [k \in Keys |-> IF k \in {kind} \X fresh
                                     THEN Completed(entries[k[2]]) ELSE operation[k]]
  BY DEF ApplyToOrders
<1>2. balance' \in [Accounts -> Nat]
  BY <1>1 DEF Post
<1>3. \A k \in {kind} \X fresh : Completed(entries[k[2]]) \in Operations
  BY DEF Completed, Operations
<1>4. operation' \in [Keys -> Operations]
  BY <1>1, <1>3 DEF LedgerTypeOK
<1>5. ASSUME NEW o \in S
      PROVE  operation'[<<kind, o>>] # NoOperation
  <2>1. <<kind, o>> \in Keys
    BY OrderKeyType
  <2>2. CASE o \in fresh
    BY <1>1, <2>1, <2>2, CompletedIsRecorded
  <2>3. CASE o \notin fresh
    BY <1>1, <2>1, <2>3
  <2> QED
    BY <2>2, <2>3
<1>6. ASSUME NEW j \in Keys, j \notin {kind} \X S
      PROVE  operation'[j] = operation[j]
  BY <1>1, <1>6
<1> QED
  BY <1>2, <1>4, <1>5, <1>6 DEF LedgerTypeOK


-----------------------------------------------------------------------------
\* An order is left as it was, and so is what is recorded about it.
Untouched(p) ==
  /\ order'[p] = order[p]
  /\ refund'[p] = refund[p]
  /\ \A kind \in OperationKinds : operation'[<<kind, p>>] = operation[<<kind, p>>]

\* The passing of time cannot break what is known of an order.
LEMMA UntouchedStaysOK ==
  ASSUME TypeOK, TypeOK', NEW p \in Orders, OrderOK(p), Untouched(p), now <= now'
  PROVE  OrderOK(p)'
<1>1. SettlementOf(p)' = SettlementOf(p) /\ (p \in Placed)' = (p \in Placed)
  BY DEF Untouched, SettlementOf, Placed
<1>2. \A kind \in OperationKinds : Done(kind, p)' = Done(kind, p)
  BY DEF Untouched, Done
<1>3. SettledOnceFor(p)'
  BY <1>1, <1>2 DEF OrderOK, SettledOnceFor, Untouched, OperationKinds
<1>4. RefundFollows(p)'
  BY <1>1 DEF OrderOK, RefundFollows, Untouched
<1>5. SettlementFollows(p)'
  <2>1. SettlementOf(p) = "released" => order[p] \in OrderRows
    BY DEF SettlementOf, Placed, TypeOK
  <2>2. SettlementOf(p) = "released" => now' > order'[p].return_deadline
    BY <2>1 DEF OrderOK, SettlementFollows, TypeOK, OrderRows, Untouched, OrderAssumption
  <2> QED
    BY <1>1, <2>2 DEF OrderOK, SettlementFollows, Untouched
<1> QED
  BY <1>3, <1>4, <1>5 DEF OrderOK

\* A step that works on one order, or on none, keeps the others.
LEMMA StepOnOne ==
  ASSUME IInv, TypeOK', NEW o \in Orders, OrderOK(o)',
         \A p \in Orders \ {o} : Untouched(p), now' = now
  PROVE  IInv'
<1>1. now <= now'
  BY DEF IInv, TypeOK, OrderAssumption
<1>2. \A p \in Orders \ {o} : OrderOK(p)'
  BY <1>1, UntouchedStaysOK DEF IInv
<1> QED
  BY <1>2 DEF IInv

LEMMA StepOnNone ==
  ASSUME IInv, TypeOK', \A p \in Orders : Untouched(p), now <= now'
  PROVE  IInv'
BY UntouchedStaysOK DEF IInv

\* Another order's keys are other keys.
LEMMA OtherKeys ==
  ASSUME NEW o \in Orders, NEW p \in Orders, o # p, NEW k \in OperationKinds,
         \A j \in Keys \ {<<k, o>>} : operation'[j] = operation[j]
  PROVE  \A kind \in OperationKinds : operation'[<<kind, p>>] = operation[<<kind, p>>]
<1>1. \A kind \in OperationKinds : <<kind, p>> \in Keys \ {<<k, o>>}
  BY OrderKeyType
<1> QED
  BY <1>1

\* An order with any status at all is a full row.
LEMMA PlacedRow ==
  ASSUME TypeOK, NEW o \in Orders, order[o].status \in OrderStatus
  PROVE  order[o] \in OrderRows /\ o \in Placed
BY DEF TypeOK, NoOrder, OrderStatus, Placed


-----------------------------------------------------------------------------
\* The timeline stays a sequence of status changes.
LEMMA TimelineType ==
  ASSUME TypeOK, NEW o \in Orders, NEW status \in OrderStatus, AddTimeline(o, status)
  PROVE  timeline' \in [Orders -> Seq((OrderStatus \cup {"null"}) \X OrderStatus)]
<1> DEFINE before == IF order[o] = NoOrder THEN "null" ELSE order[o].status
<1>1. before \in OrderStatus \cup {"null"}
  BY DEF TypeOK, OrderRows
<1>2. <<before, status>> \in (OrderStatus \cup {"null"}) \X OrderStatus
  BY <1>1
<1>3. timeline' = [timeline EXCEPT ![o] = Append(@, <<before, status>>)]
  BY DEF AddTimeline
<1> QED
  BY <1>2, <1>3 DEF TypeOK

LEMMA CreateOrderStep ==
  ASSUME IInv, NEW o \in Orders, NEW s \in Users, NEW b \in Baskets, NEW t \in Totals,
         CreateOrder(o, s, b, t)
  PROVE  IInv'
<1> DEFINE row == [seller |-> s, items |-> b, total |-> t, status |-> "pending_confirmation",
                   settlement |-> "holding", return_deadline |-> 0]
           key == <<"ORDER_PAYMENT", o>>
<1>1. row \in OrderRows
  BY OrderAssumption DEF OrderRows, OrderStatus, SettlementStatus
<1>2. key \in Keys
  BY OrderKeyType DEF OperationKinds
<1>3. PaymentEntries(o, row) \in Entries
  BY <1>1, OrderEntriesType DEF OrderRows
<1>4. ApplyOperation(key, PaymentEntries(o, row))
  BY DEF CreateOrder
<1>5. /\ LedgerTypeOK'
      /\ operation'[key] # NoOperation
      /\ \A j \in Keys \ {key} : operation'[j] = operation[j]
  <2> HIDE DEF row, key
  <2> QED
    BY <1>2, <1>3, <1>4, ApplyStep DEF IInv, TypeOK
<1>6. TypeOK'
  <2>1. stock' \in [Variants -> Nat]
    <3>1. \A v \in Variants : stock[v] \in Nat /\ b[v] \in Nat /\ b[v] <= stock[v]
      BY OrderAssumption DEF CreateOrder, Contains, IInv, TypeOK
    <3> QED
      BY <3>1 DEF CreateOrder
  <2>2. timeline' \in [Orders -> Seq((OrderStatus \cup {"null"}) \X OrderStatus)]
    BY TimelineType DEF CreateOrder, IInv, OrderStatus
  <2>3. order' \in [Orders -> OrderRows \cup {NoOrder}]
    BY <1>1 DEF CreateOrder, IInv, TypeOK
  <2> QED
    BY <1>5, <2>1, <2>2, <2>3 DEF CreateOrder, IInv, TypeOK
<1>7. order[o] = NoOrder /\ order'[o] = row /\ refund'[o] = refund[o] /\ now' = now
  BY DEF CreateOrder, IInv, TypeOK
<1>8. ASSUME NEW p \in Orders \ {o}
      PROVE  Untouched(p)
  <2>1. \A kind \in OperationKinds : operation'[<<kind, p>>] = operation[<<kind, p>>]
    BY <1>5, OtherKeys DEF OperationKinds
  <2> QED
    BY <2>1 DEF CreateOrder, IInv, TypeOK, Untouched
<1>9. OrderOK(o)'
  <2>1. SettlementOf(o) = "none" /\ o \notin Placed
    BY <1>7 DEF SettlementOf, Placed
  <2>2. (o \in Placed)' /\ SettlementOf(o)' = "holding"
    BY <1>7 DEF SettlementOf, Placed, NoOrder
  <2>3. \A kind \in OperationKinds \ {"ORDER_PAYMENT"} : Done(kind, o)' = Done(kind, o)
    BY <1>5, OrderKeyType DEF Done
  <2>4. Done("ORDER_PAYMENT", o)'
    BY <1>5 DEF Done
  <2>5. SettledOnceFor(o)'
    BY <1>7, <2>1, <2>2, <2>3, <2>4 DEF IInv, OrderOK, SettledOnceFor, OperationKinds, NoOrder
  <2>6. RefundFollows(o)' /\ SettlementFollows(o)'
    BY <1>7, <2>1, <2>2 DEF IInv, OrderOK, RefundFollows, SettlementFollows, NoOrder, TypeOK,
                            RefundRows, RefundStatus, NoRefund
  <2> QED
    BY <2>5, <2>6 DEF OrderOK
<1> QED
  BY <1>6, <1>7, <1>8, <1>9, StepOnOne


\* Restoring adds the order's quantities, which are natural numbers.
LEMMA RestoreType ==
  ASSUME TypeOK, NEW o \in Orders, order[o] \in OrderRows, RestoreOrderStock(o)
  PROVE  /\ stock' \in [Variants -> Nat]
         /\ moved' \in [Orders -> {"none", "deducted", "restored"}]
<1>1. \A v \in Variants : stock[v] + order[o].items[v] \in Nat
  BY DEF TypeOK, OrderRows
<1> QED
  BY <1>1 DEF RestoreOrderStock, TypeOK

LEMMA CancelAndRefundStep ==
  ASSUME IInv, NEW o \in Orders, order[o].status \in {"pending_confirmation", "confirmed"},
         NEW kind \in {"ORDER_REFUND:CANCEL", "ORDER_REFUND:SELLER_REJECT"},
         CancelAndRefund(o, kind)
  PROVE  IInv'
<1> DEFINE row == [order[o] EXCEPT !.status = "cancelled", !.settlement = "refunded"]
           key == <<kind, o>>
<1>1. order[o] \in OrderRows /\ o \in Placed
  BY PlacedRow DEF IInv, OrderStatus
<1>2. row \in OrderRows
  BY <1>1 DEF OrderRows, OrderStatus, SettlementStatus
<1>3. key \in Keys
  BY OrderKeyType DEF OperationKinds
<1>4. RefundEntries(o, order[o]) \in Entries
  BY <1>1, OrderEntriesType DEF OrderRows
<1>5. ApplyOperation(key, RefundEntries(o, order[o]))
  BY DEF CancelAndRefund
<1>6. /\ LedgerTypeOK'
      /\ operation'[key] # NoOperation
      /\ \A j \in Keys \ {key} : operation'[j] = operation[j]
  <2> HIDE DEF key
  <2> QED
    BY <1>3, <1>4, <1>5, ApplyStep DEF IInv, TypeOK
<1>7. order' = [order EXCEPT ![o] = row]
  BY DEF CancelAndRefund, IInv, TypeOK
<1>8. TypeOK'
  <2>1. order' \in [Orders -> OrderRows \cup {NoOrder}]
    BY <1>2, <1>7 DEF IInv, TypeOK
  <2>2. timeline' \in [Orders -> Seq((OrderStatus \cup {"null"}) \X OrderStatus)]
    BY TimelineType DEF CancelAndRefund, IInv, OrderStatus
  <2>3. stock' \in [Variants -> Nat] /\ moved' \in [Orders -> {"none", "deducted", "restored"}]
    BY <1>1, RestoreType DEF CancelAndRefund, IInv
  <2> QED
    BY <1>6, <2>1, <2>2, <2>3 DEF CancelAndRefund, IInv, TypeOK
<1>9. order'[o] = row /\ refund'[o] = refund[o] /\ now' = now
  BY <1>7 DEF CancelAndRefund, IInv, TypeOK
<1>10. ASSUME NEW p \in Orders \ {o}
       PROVE  Untouched(p)
  <2>1. \A k \in OperationKinds : operation'[<<k, p>>] = operation[<<k, p>>]
    BY <1>6, OtherKeys DEF OperationKinds
  <2> QED
    BY <1>7, <2>1 DEF CancelAndRefund, IInv, TypeOK, Untouched
<1>11. OrderOK(o)'
  <2>1. SettlementOf(o) = "holding"
    BY <1>1 DEF IInv, OrderOK, SettlementFollows
  <2>2. (o \in Placed)' /\ SettlementOf(o)' = "refunded" /\ order'[o].status = "cancelled"
    BY <1>1, <1>9 DEF SettlementOf, Placed, NoOrder, OrderRows
  <2>3. \A k \in OperationKinds \ {kind} : Done(k, o)' = Done(k, o)
    BY <1>6, OrderKeyType DEF Done
  <2>4. Done(kind, o)'
    BY <1>6 DEF Done
  <2>5. SettledOnceFor(o)'
    BY <1>1, <2>1, <2>2, <2>3, <2>4 DEF IInv, OrderOK, SettledOnceFor, OperationKinds
  <2>6. RefundFollows(o)' /\ SettlementFollows(o)'
    BY <1>9, <2>1, <2>2 DEF IInv, OrderOK, RefundFollows, SettlementFollows, TypeOK,
                            RefundRows, RefundStatus, NoRefund
  <2> QED
    BY <2>5, <2>6 DEF OrderOK
<1> QED
  BY <1>8, <1>9, <1>10, <1>11, StepOnOne

\* Accepting, shipping and delivery change one order row and nothing else that
\* the invariant speaks of.
LEMMA AdvanceStep ==
  ASSUME IInv, NEW o \in Orders,
         NEW from \in {"pending_confirmation", "confirmed", "shipping"},
         NEW row \in OrderRows, Advance(o, from, row),
         row.settlement = order[o].settlement,
         row.status \in {"confirmed", "shipping", "delivered"}
  PROVE  IInv'
<1>1. order[o] \in OrderRows /\ o \in Placed
  BY PlacedRow DEF IInv, OrderStatus, Advance
<1>2. TypeOK'
  <2>1. order' \in [Orders -> OrderRows \cup {NoOrder}]
    BY DEF Advance, IInv, TypeOK
  <2>2. timeline' \in [Orders -> Seq((OrderStatus \cup {"null"}) \X OrderStatus)]
    BY TimelineType DEF Advance, IInv, OrderStatus
  <2> QED
    BY <2>1, <2>2 DEF Advance, IInv, TypeOK, LedgerTypeOK, ledgerVars
<1>3. order'[o] = row /\ refund'[o] = refund[o] /\ now' = now /\ operation' = operation
  BY DEF Advance, IInv, TypeOK, ledgerVars
<1>4. ASSUME NEW p \in Orders \ {o}
      PROVE  Untouched(p)
  BY DEF Advance, IInv, TypeOK, Untouched, ledgerVars
<1>5. OrderOK(o)'
  <2>1. SettlementOf(o) = "holding"
    BY <1>1 DEF IInv, OrderOK, SettlementFollows, Advance
  <2>2. (o \in Placed)' /\ SettlementOf(o)' = "holding"
    BY <1>1, <1>3, <2>1 DEF SettlementOf, Placed, NoOrder, OrderRows, OrderStatus
  <2>3. refund[o].status \notin RefundStatus /\ refund[o] = NoRefund
    BY <1>1, <2>1 DEF IInv, OrderOK, RefundFollows, SettlementFollows, TypeOK, RefundRows,
                      RefundStatus, NoRefund, Advance
  <2>4. SettledOnceFor(o)'
    BY <1>1, <1>3, <2>1, <2>2 DEF IInv, OrderOK, SettledOnceFor, Done, Advance
  <2>5. RefundFollows(o)' /\ SettlementFollows(o)'
    BY <1>3, <2>2, <2>3 DEF RefundFollows, SettlementFollows, NoRefund, RefundStatus
  <2> QED
    BY <2>4, <2>5 DEF OrderOK
<1> QED
  BY <1>2, <1>3, <1>4, <1>5, StepOnOne


\* A request can only meet a held order: a released one is past its deadline,
\* a refunded one has a refund row.
LEMMA RefundOrderStep ==
  ASSUME IInv, NEW o \in Orders, RefundOrder(o)
  PROVE  IInv'
<1> DEFINE row == [order[o] EXCEPT !.settlement = "refund_requested"]
           opened == [status |-> "requested", deadline |-> now + ResponseWindow,
                      source |-> "none"]
<1>1. order[o] \in OrderRows /\ o \in Placed
  BY PlacedRow DEF IInv, OrderStatus, RefundOrder
<1>2. row \in OrderRows
  BY <1>1 DEF OrderRows, SettlementStatus
<1>3. opened \in RefundRows
  BY OrderAssumption DEF RefundRows, RefundStatus, IInv, TypeOK
<1>4. /\ order' = [order EXCEPT ![o] = row]
      /\ refund' = [refund EXCEPT ![o] = opened]
      /\ operation' = operation /\ now' = now
  BY DEF RefundOrder, IInv, TypeOK, ledgerVars
<1>5. TypeOK'
  BY <1>2, <1>3, <1>4 DEF RefundOrder, IInv, TypeOK, LedgerTypeOK, ledgerVars
<1>6. order'[o] = row /\ refund'[o] = opened
  BY <1>4 DEF IInv, TypeOK
<1>7. ASSUME NEW p \in Orders \ {o}
      PROVE  Untouched(p)
  BY <1>4 DEF IInv, TypeOK, Untouched
<1>8. OrderOK(o)'
  <2>1. SettlementOf(o) = "holding"
    <3>1. SettlementOf(o) # "released"
      BY <1>1 DEF IInv, OrderOK, SettlementFollows, RefundOrder, TypeOK, OrderRows,
                  OrderAssumption
    <3>2. SettlementOf(o) # "refunded" /\ SettlementOf(o) # "refund_requested"
      BY <1>1 DEF IInv, OrderOK, RefundFollows, RefundOrder, NoRefund
    <3> QED
      BY <1>1, <3>1, <3>2 DEF SettlementOf, OrderRows, SettlementStatus
  <2>2. (o \in Placed)' /\ SettlementOf(o)' = "refund_requested" /\ order'[o].status = "delivered"
    BY <1>1, <1>6 DEF SettlementOf, Placed, NoOrder, OrderRows, RefundOrder
  <2>3. SettledOnceFor(o)'
    BY <1>1, <1>4, <2>1, <2>2 DEF IInv, OrderOK, SettledOnceFor, Done, RefundOrder
  <2>4. RefundFollows(o)' /\ SettlementFollows(o)'
    BY <1>6, <2>2 DEF RefundFollows, SettlementFollows
  <2> QED
    BY <2>3, <2>4 DEF OrderOK
<1> QED
  BY <1>4, <1>5, <1>7, <1>8, StepOnOne

\* The seller's refusal of a request resumes the holding period.
LEMMA RejectRefundStep ==
  ASSUME IInv, NEW o \in Orders,
         order[o].status = "delivered", order[o].settlement = "refund_requested",
         refund[o].status = "requested", RejectRefund(o)
  PROVE  IInv'
<1> DEFINE row == [order[o] EXCEPT !.settlement = "holding"]
           answer == [refund[o] EXCEPT !.status = "rejected", !.source = "seller"]
<1>1. order[o] \in OrderRows /\ o \in Placed
  BY PlacedRow DEF IInv, OrderStatus
<1>2. row \in OrderRows
  BY <1>1 DEF OrderRows, SettlementStatus
<1>3. refund[o] \in RefundRows
  BY DEF IInv, TypeOK, NoRefund
<1>4. answer \in RefundRows
  BY <1>3 DEF RefundRows, RefundStatus, DecisionSource
<1>5. order' = [order EXCEPT ![o] = row] /\ refund' = [refund EXCEPT ![o] = answer]
  BY DEF RejectRefund, IInv, TypeOK
<1>6. operation' = operation /\ now' = now
  BY DEF RejectRefund, ledgerVars
<1>7. TypeOK'
  BY <1>2, <1>4, <1>5 DEF RejectRefund, IInv, TypeOK, LedgerTypeOK, ledgerVars
<1>8. order'[o] = row /\ refund'[o] = answer
  BY <1>5 DEF IInv, TypeOK
<1>9. ASSUME NEW p \in Orders \ {o}
      PROVE  Untouched(p)
  BY <1>5, <1>6 DEF IInv, TypeOK, Untouched
<1>10. OrderOK(o)'
  <2>1. SettlementOf(o) = "refund_requested"
    BY <1>1 DEF SettlementOf
  <2>2. (o \in Placed)' /\ SettlementOf(o)' = "holding" /\ order'[o].status = "delivered"
    BY <1>1, <1>8 DEF SettlementOf, Placed, NoOrder, OrderRows
  <2>3. SettledOnceFor(o)'
    BY <1>1, <1>6, <2>1, <2>2 DEF IInv, OrderOK, SettledOnceFor, Done
  <2>4. refund'[o].status = "rejected"
    BY <1>3, <1>8 DEF RefundRows
  <2>5. RefundFollows(o)' /\ SettlementFollows(o)'
    BY <2>2, <2>4 DEF RefundFollows, SettlementFollows
  <2> QED
    BY <2>3, <2>5 DEF OrderOK
<1> QED
  BY <1>6, <1>7, <1>9, <1>10, StepOnOne


-----------------------------------------------------------------------------
\* A step that works on a set of orders at once.
LEMMA StepOnSet ==
  ASSUME IInv, TypeOK', NEW S \in SUBSET Orders, \A o \in S : OrderOK(o)',
         \A p \in Orders \ S : Untouched(p), now' = now
  PROVE  IInv'
<1>1. now <= now'
  BY DEF IInv, TypeOK, OrderAssumption
<1>2. \A p \in Orders \ S : OrderOK(p)'
  BY <1>1, UntouchedStaysOK DEF IInv
<1> QED
  BY <1>2 DEF IInv

\* The keys of orders outside a batch are not the batch's keys.
LEMMA BatchKeys ==
  ASSUME NEW S \in SUBSET Orders, NEW k \in OperationKinds,
         \A j \in Keys : j \notin {k} \X S => operation'[j] = operation[j]
  PROVE  /\ \A p \in Orders \ S : \A kind \in OperationKinds :
              operation'[<<kind, p>>] = operation[<<kind, p>>]
         /\ \A o \in S : \A kind \in OperationKinds \ {k} :
              operation'[<<kind, o>>] = operation[<<kind, o>>]
<1>1. \A p \in Orders, kind \in OperationKinds : <<kind, p>> \in Keys
  BY OrderKeyType
<1> QED
  BY <1>1

LEMMA CompleteRefundStep ==
  ASSUME IInv, NEW S \in SUBSET Orders, NEW source \in DecisionSource,
         \A o \in S : SettlementOf(o) = "refund_requested",
         CompleteRefundSettlement(S, source)
  PROVE  IInv'
<1> DEFINE K == "REFUND_SETTLEMENT"
           entries == [o \in S |-> RefundEntries(o, order[o])]
           paid(o) == [order[o] EXCEPT !.settlement = "refunded"]
           answer(o) == [refund[o] EXCEPT !.status = "completed", !.source = source]
<1>1. \A o \in S : order[o] \in OrderRows /\ o \in Placed /\ order[o].status = "delivered"
  BY DEF IInv, TypeOK, SettlementOf, Placed, OrderOK, SettlementFollows
<1>2. \A o \in S : paid(o) \in OrderRows
  BY <1>1 DEF OrderRows, SettlementStatus
<1>3. \A o \in S : refund[o] \in RefundRows
  BY DEF IInv, OrderOK, RefundFollows, TypeOK, NoRefund
<1>4. \A o \in S : answer(o) \in RefundRows
  BY <1>3 DEF RefundRows, RefundStatus
<1>5. entries \in [S -> Entries]
  BY <1>1, OrderEntriesType DEF OrderRows
<1>6. /\ LedgerTypeOK'
      /\ \A o \in S : operation'[<<K, o>>] # NoOperation
      /\ \A j \in Keys : j \notin {K} \X S => operation'[j] = operation[j]
  <2>1. K \in OperationKinds /\ ApplyToOrders(K, S, entries)
    BY DEF OperationKinds, CompleteRefundSettlement
  <2> HIDE DEF entries, K
  <2> QED
    BY <1>5, <2>1, BatchStep DEF IInv, TypeOK
<1>7. /\ order' = [o \in Orders |-> IF o \in S THEN paid(o) ELSE order[o]]
      /\ refund' = [o \in Orders |-> IF o \in S THEN answer(o) ELSE refund[o]]
      /\ UNCHANGED <<timeline, stock, moved, listed, active, now>>
  BY DEF CompleteRefundSettlement
<1>8. TypeOK'
  BY <1>2, <1>4, <1>6, <1>7 DEF IInv, TypeOK
<1>9. /\ \A p \in Orders \ S : \A kind \in OperationKinds :
           operation'[<<kind, p>>] = operation[<<kind, p>>]
      /\ \A o \in S : \A kind \in OperationKinds \ {K} :
           operation'[<<kind, o>>] = operation[<<kind, o>>]
  BY <1>6, BatchKeys DEF OperationKinds
<1>10. ASSUME NEW p \in Orders \ S
       PROVE  Untouched(p)
  BY <1>7, <1>9 DEF Untouched
<1>11. ASSUME NEW o \in S
       PROVE  OrderOK(o)'
  <2>1. order'[o] = paid(o) /\ refund'[o] = answer(o)
    BY <1>7
  <2>2. (o \in Placed)' /\ SettlementOf(o)' = "refunded" /\ order'[o].status = "delivered"
    BY <1>1, <2>1 DEF SettlementOf, Placed, NoOrder, OrderRows
  <2>3. \A kind \in OperationKinds \ {K} : Done(kind, o)' = Done(kind, o)
    BY <1>9 DEF Done
  <2>4. Done(K, o)'
    BY <1>6 DEF Done
  <2>5. SettledOnceFor(o)'
    BY <1>1, <2>2, <2>3, <2>4 DEF IInv, OrderOK, SettledOnceFor, OperationKinds
  <2>6. refund'[o].status = "completed"
    BY <1>3, <2>1 DEF RefundRows
  <2>7. RefundFollows(o)' /\ SettlementFollows(o)'
    BY <2>2, <2>6 DEF RefundFollows, SettlementFollows
  <2> QED
    BY <2>5, <2>7 DEF OrderOK
<1> QED
  BY <1>7, <1>8, <1>10, <1>11, StepOnSet

LEMMA ReleaseStep ==
  ASSUME IInv, ReleaseDueSellerPoints
  PROVE  IInv'
<1> DEFINE K == "ORDER_POINTS_RELEASE"
           due == {o \in Orders : /\ order[o].status = "delivered"
                                  /\ order[o].settlement = "holding"
                                  /\ order[o].return_deadline < now}
           entries(S) == [o \in S |-> ReleaseEntries(order[o])]
           released(o) == [order[o] EXCEPT !.settlement = "released"]
<1>1. PICK S \in Batches(due) :
        /\ ApplyToOrders(K, S, entries(S))
        /\ order' = [o \in Orders |-> IF o \in S THEN released(o) ELSE order[o]]
        /\ UNCHANGED <<refund, timeline, stock, moved, listed, active, now>>
  BY DEF ReleaseDueSellerPoints
<1>2. S \subseteq due
  BY DEF Batches
<1>3. \A o \in S : /\ order[o] \in OrderRows /\ o \in Placed
                   /\ order[o].status = "delivered" /\ SettlementOf(o) = "holding"
                   /\ now > order[o].return_deadline
  BY <1>2, PlacedRow DEF IInv, OrderStatus, SettlementOf, TypeOK, OrderRows, OrderAssumption
<1>4. \A o \in S : released(o) \in OrderRows
  BY <1>3 DEF OrderRows, SettlementStatus
<1>5. entries(S) \in [S -> Entries]
  BY <1>2, <1>3, OrderEntriesType DEF OrderRows
<1>6. /\ LedgerTypeOK'
      /\ \A o \in S : operation'[<<K, o>>] # NoOperation
      /\ \A j \in Keys : j \notin {K} \X S => operation'[j] = operation[j]
  <2>1. K \in OperationKinds /\ S \in SUBSET Orders
    BY <1>2 DEF OperationKinds
  <2> HIDE DEF entries, K
  <2> QED
    BY <1>1, <1>5, <2>1, BatchStep DEF IInv, TypeOK
<1>7. TypeOK'
  BY <1>1, <1>4, <1>6 DEF IInv, TypeOK
<1>8. /\ \A p \in Orders \ S : \A kind \in OperationKinds :
           operation'[<<kind, p>>] = operation[<<kind, p>>]
      /\ \A o \in S : \A kind \in OperationKinds \ {K} :
           operation'[<<kind, o>>] = operation[<<kind, o>>]
  BY <1>2, <1>6, BatchKeys DEF OperationKinds
<1>9. ASSUME NEW p \in Orders \ S
      PROVE  Untouched(p)
  BY <1>1, <1>8 DEF Untouched
<1>10. ASSUME NEW o \in S
       PROVE  OrderOK(o)'
  <2>1. o \in Orders /\ order'[o] = released(o) /\ refund'[o] = refund[o]
    BY <1>1, <1>2
  <2>2. /\ (o \in Placed)' /\ SettlementOf(o)' = "released" /\ order'[o].status = "delivered"
        /\ now' > order'[o].return_deadline
    BY <1>1, <1>3, <2>1 DEF SettlementOf, Placed, NoOrder, OrderRows
  <2>3. \A kind \in OperationKinds \ {K} : Done(kind, o)' = Done(kind, o)
    BY <1>8 DEF Done
  <2>4. Done(K, o)'
    BY <1>6 DEF Done
  <2>5. SettledOnceFor(o)'
    BY <1>3, <2>1, <2>2, <2>3, <2>4 DEF IInv, OrderOK, SettledOnceFor, OperationKinds
  <2>6. RefundFollows(o)' /\ SettlementFollows(o)'
    BY <1>3, <2>1, <2>2 DEF IInv, OrderOK, RefundFollows, SettlementFollows
  <2> QED
    BY <2>5, <2>6 DEF OrderOK
<1> QED
  BY <1>1, <1>2, <1>7, <1>9, <1>10, StepOnSet


-----------------------------------------------------------------------------
\* Rewards, product removal, profile changes and time touch no order.
LEMMA RewardStep ==
  ASSUME IInv, NEW u \in Users, AddRewardProof(u)
  PROVE  IInv'
<1> DEFINE key == <<"REWARD_PROOF", u>>
<1>1. key \in Keys /\ \A kind \in OperationKinds : kind # "REWARD_PROOF"
  BY OrderAssumption DEF OrderKeys, OperationKinds
<1>2. Credit(Available(u), RewardCoin) \in Entries
  BY OrderAssumption DEF Credit, Entries
<1>3. LedgerTypeOK' /\ \A j \in Keys \ {key} : operation'[j] = operation[j]
  <2>1. ApplyOperation(key, Credit(Available(u), RewardCoin))
    BY DEF AddRewardProof
  <2> HIDE DEF key
  <2> QED
    BY <1>1, <1>2, <2>1, ApplyStep DEF IInv, TypeOK
<1>4. TypeOK'
  BY <1>3 DEF AddRewardProof, orderVars, IInv, TypeOK
<1>5. ASSUME NEW p \in Orders
      PROVE  Untouched(p)
  <2>1. \A kind \in OperationKinds : <<kind, p>> \in Keys \ {key}
    BY <1>1, OrderKeyType
  <2> QED
    BY <1>3, <2>1 DEF AddRewardProof, orderVars, Untouched
<1>6. now <= now'
  BY DEF AddRewardProof, IInv, TypeOK, OrderAssumption
<1> QED
  BY <1>4, <1>5, <1>6, StepOnNone

LEMMA EnvironmentStep ==
  ASSUME IInv, UNCHANGED <<ledgerVars, orderVars>>,
         listed' \subseteq Variants, active' \subseteq Users, now' \in 0..MaxTime, now <= now'
  PROVE  IInv'
<1>1. TypeOK'
  BY DEF IInv, TypeOK, LedgerTypeOK, ledgerVars, orderVars
<1>2. \A p \in Orders : Untouched(p)
  BY DEF Untouched, ledgerVars, orderVars
<1> QED
  BY <1>1, <1>2, StepOnNone

LEMMA InitEstablishesIInv == Init => IInv
<1> SUFFICES ASSUME Init PROVE IInv
  OBVIOUS
<1>1. LedgerTypeOK
  BY DEF Init, LedgerInit, LedgerTypeOK, NoOperation, Operations, Entries
<1>2. TypeOK
  BY <1>1, OrderAssumption DEF Init, TypeOK
<1>3. ASSUME NEW o \in Orders
      PROVE  OrderOK(o)
  <2>1. o \notin Placed /\ SettlementOf(o) = "none" /\ order[o] = NoOrder /\ refund[o] = NoRefund
    BY DEF Init, Placed, SettlementOf
  <2>2. \A kind \in OperationKinds : ~Done(kind, o)
    BY OrderKeyType DEF Init, LedgerInit, Done
  <2> QED
    BY <2>1, <2>2 DEF OrderOK, SettledOnceFor, RefundFollows, SettlementFollows, NoOrder,
                      NoRefund, OperationKinds
<1> QED
  BY <1>2, <1>3 DEF IInv

\* The kinds of step a reachable state can take, with what the status columns
\* say of the orders they work on.
LEMMA NextCases ==
  ASSUME IInv, [Next]_vars
  PROVE  \/ \E o \in Orders, s \in Users, b \in Baskets, t \in Totals : CreateOrder(o, s, b, t)
         \/ \E o \in Orders, kind \in {"ORDER_REFUND:CANCEL", "ORDER_REFUND:SELLER_REJECT"} :
              /\ order[o].status \in {"pending_confirmation", "confirmed"}
              /\ CancelAndRefund(o, kind)
         \/ \E o \in Orders, from \in {"pending_confirmation", "confirmed", "shipping"},
               row \in OrderRows :
              /\ row.settlement = order[o].settlement
              /\ row.seller = order[o].seller /\ row.total = order[o].total /\ row.items = order[o].items
              /\ row.status \in {"confirmed", "shipping", "delivered"}
              /\ Advance(o, from, row)
         \/ \E o \in Orders : RefundOrder(o)
         \/ \E o \in Orders : /\ order[o].status = "delivered"
                              /\ order[o].settlement = "refund_requested"
                              /\ refund[o].status = "requested"
                              /\ RejectRefund(o)
         \/ \E S \in SUBSET Orders, source \in DecisionSource :
              /\ \A o \in S : SettlementOf(o) = "refund_requested"
              /\ CompleteRefundSettlement(S, source)
         \/ ReleaseDueSellerPoints
         \/ \E u \in Users : AddRewardProof(u)
         \/ /\ UNCHANGED <<ledgerVars, orderVars>>
            /\ listed' \subseteq Variants /\ active' \subseteq Users
            /\ now' \in 0..MaxTime /\ now <= now'
<1> DEFINE Goal == \/ \E o \in Orders, from \in {"pending_confirmation", "confirmed", "shipping"},
                         row \in OrderRows :
                        /\ row.settlement = order[o].settlement
                        /\ row.seller = order[o].seller /\ row.total = order[o].total /\ row.items = order[o].items
                        /\ row.status \in {"confirmed", "shipping", "delivered"}
                        /\ Advance(o, from, row)
<1>1. ASSUME NEW o \in Orders, AcceptBuyer(o)
      PROVE  Goal
  <2>1. order[o] \in OrderRows
    BY <1>1, PlacedRow DEF AcceptBuyer, IInv, OrderStatus
  <2> DEFINE row == [order[o] EXCEPT !.status = "confirmed"]
  <2>2. /\ row \in OrderRows /\ row.settlement = order[o].settlement /\ row.status = "confirmed"
        /\ row.seller = order[o].seller /\ row.total = order[o].total /\ row.items = order[o].items
    BY <2>1 DEF OrderRows, OrderStatus
  <2>3. Advance(o, "pending_confirmation", row)
    BY <1>1 DEF AcceptBuyer
  <2> HIDE DEF row
  <2> QED
    BY <2>2, <2>3
<1>2. ASSUME NEW o \in Orders, SellerMarkAsShipped(o)
      PROVE  Goal
  <2>1. order[o] \in OrderRows
    BY <1>2, PlacedRow DEF SellerMarkAsShipped, IInv, OrderStatus
  <2> DEFINE row == [order[o] EXCEPT !.status = "shipping"]
  <2>2. /\ row \in OrderRows /\ row.settlement = order[o].settlement /\ row.status = "shipping"
        /\ row.seller = order[o].seller /\ row.total = order[o].total /\ row.items = order[o].items
    BY <2>1 DEF OrderRows, OrderStatus
  <2>3. Advance(o, "confirmed", row)
    BY <1>2 DEF SellerMarkAsShipped
  <2> HIDE DEF row
  <2> QED
    BY <2>2, <2>3
<1>3. ASSUME NEW o \in Orders, BuyerConfirmReceived(o)
      PROVE  Goal
  <2>1. order[o] \in OrderRows
    BY <1>3, PlacedRow DEF BuyerConfirmReceived, Advance, IInv, OrderStatus
  <2> DEFINE row == [order[o] EXCEPT !.status = "delivered",
                                     !.return_deadline = now + ReturnWindow]
  <2>2. /\ row \in OrderRows /\ row.settlement = order[o].settlement /\ row.status = "delivered"
        /\ row.seller = order[o].seller /\ row.total = order[o].total /\ row.items = order[o].items
    <3>1. now + ReturnWindow \in Nat
      BY OrderAssumption DEF IInv, TypeOK
    <3> QED
      BY <2>1, <3>1 DEF OrderRows, OrderStatus
  <2>3. Advance(o, "shipping", row)
    BY <1>3 DEF BuyerConfirmReceived
  <2> HIDE DEF row
  <2> QED
    BY <2>2, <2>3
<1>4. ASSUME NEW o \in Orders, NEW accept \in BOOLEAN, RespondRefund(o, accept)
      PROVE  /\ order[o].status = "delivered" /\ order[o].settlement = "refund_requested"
             /\ refund[o].status = "requested" /\ SettlementOf(o) = "refund_requested"
             /\ \/ RejectRefund(o)
                \/ \E source \in DecisionSource : CompleteRefundSettlement({o}, source)
  <2>1. /\ order[o].status = "delivered" /\ order[o].settlement = "refund_requested"
        /\ refund[o].status = "requested" /\ SettlementOf(o) = "refund_requested"
    BY <1>4, PlacedRow DEF RespondRefund, IInv, OrderStatus, SettlementOf
  <2> QED
    BY <1>4, <2>1 DEF RespondRefund, DecisionSource
<1>5. ASSUME AcceptExpiredRefunds
      PROVE  \E S \in SUBSET Orders :
               /\ \A o \in S : SettlementOf(o) = "refund_requested"
               /\ CompleteRefundSettlement(S, "system_timeout")
  <2> DEFINE due == {o \in Orders : refund[o].status = "requested" /\ refund[o].deadline < now}
             waiting(S) == {o \in S : order[o].settlement = "refund_requested"}
  <2>1. PICK S \in Batches(due) : CompleteRefundSettlement(waiting(S), "system_timeout")
    BY <1>5 DEF AcceptExpiredRefunds
  <2>2. S \subseteq due
    BY DEF Batches
  <2>3. \A o \in S : o \in Orders /\ SettlementOf(o) = "refund_requested"
    BY <2>2 DEF IInv, OrderOK, RefundFollows
  <2> QED
    BY <2>1, <2>3
<1>6. \/ \E v \in Variants : RemoveProduct(v)
      \/ \E u \in {SellerOf[v] : v \in Variants} : UpdateProfileStatus(u)
      \/ Tick
      \/ UNCHANGED vars
      => /\ UNCHANGED <<ledgerVars, orderVars>>
         /\ listed' \subseteq Variants /\ active' \subseteq Users
         /\ now' \in 0..MaxTime /\ now <= now'
  BY OrderAssumption DEF RemoveProduct, UpdateProfileStatus, Tick, vars, IInv, TypeOK
<1> HIDE DEF Goal
<1>7. \/ \E o \in Orders, s \in Users, b \in Baskets, t \in Totals : CreateOrder(o, s, b, t)
      \/ \E o \in Orders, kind \in {"ORDER_REFUND:CANCEL", "ORDER_REFUND:SELLER_REJECT"} :
           /\ order[o].status \in {"pending_confirmation", "confirmed"}
           /\ CancelAndRefund(o, kind)
      \/ Goal
      \/ \E o \in Orders : RefundOrder(o)
      \/ \E o \in Orders, accept \in BOOLEAN : RespondRefund(o, accept)
      \/ AcceptExpiredRefunds
      \/ ReleaseDueSellerPoints
      \/ \E u \in Users : AddRewardProof(u)
      \/ \E v \in Variants : RemoveProduct(v)
      \/ \E u \in {SellerOf[v] : v \in Variants} : UpdateProfileStatus(u)
      \/ Tick
      \/ UNCHANGED vars
  BY <1>1, <1>2, <1>3 DEF Next, UserRequest, CancelOrder, RejectBuyer
<1>8. (\E o \in Orders, accept \in BOOLEAN : RespondRefund(o, accept)) =>
        \/ \E o \in Orders : /\ order[o].status = "delivered"
                             /\ order[o].settlement = "refund_requested"
                             /\ refund[o].status = "requested"
                             /\ RejectRefund(o)
        \/ \E S \in SUBSET Orders, source \in DecisionSource :
             /\ \A o \in S : SettlementOf(o) = "refund_requested"
             /\ CompleteRefundSettlement(S, source)
  <2> SUFFICES ASSUME NEW o \in Orders, NEW accept \in BOOLEAN, RespondRefund(o, accept),
                      ~RejectRefund(o)
               PROVE  \E S \in SUBSET Orders, source \in DecisionSource :
                        /\ \A p \in S : SettlementOf(p) = "refund_requested"
                        /\ CompleteRefundSettlement(S, source)
    BY <1>4
  <2>1. PICK source \in DecisionSource : CompleteRefundSettlement({o}, source)
    BY <1>4
  <2>2. {o} \in SUBSET Orders /\ \A p \in {o} : SettlementOf(p) = "refund_requested"
    BY <1>4
  <2> QED
    BY <2>1, <2>2
<1>9. AcceptExpiredRefunds =>
        \E S \in SUBSET Orders, source \in DecisionSource :
          /\ \A o \in S : SettlementOf(o) = "refund_requested"
          /\ CompleteRefundSettlement(S, source)
  BY <1>5 DEF DecisionSource
<1> QED
  BY <1>6, <1>7, <1>8, <1>9, Zenon DEF Goal

LEMMA NextKeepsIInv == IInv /\ [Next]_vars => IInv'
<1> SUFFICES ASSUME IInv, [Next]_vars PROVE IInv'
  OBVIOUS
<1>1. ASSUME NEW o \in Orders, NEW s \in Users, NEW b \in Baskets, NEW t \in Totals,
             CreateOrder(o, s, b, t)
      PROVE  IInv'
  BY <1>1, CreateOrderStep
<1>2. ASSUME NEW S \in SUBSET Orders, NEW source \in DecisionSource,
             \A o \in S : SettlementOf(o) = "refund_requested",
             CompleteRefundSettlement(S, source)
      PROVE  IInv'
  BY <1>2, CompleteRefundStep
<1> QED
  BY <1>1, <1>2, NextCases, CancelAndRefundStep, AdvanceStep, RefundOrderStep,
     RejectRefundStep, ReleaseStep, RewardStep, EnvironmentStep, Zenon

\* IInv is an invariant of the specification.
LEMMA IInvHolds == Spec => []IInv
BY InitEstablishesIInv, NextKeepsIInv, PTL DEF Spec

-----------------------------------------------------------------------------
\* Every reachable state is well-typed; in particular no balance and no stock
\* ever goes below zero, whatever users, sellers and workers do (the checks of
\* applyOperation and createOrder).
THEOREM OrdersTyping == Spec => []TypeOK
BY IInvHolds, PTL DEF IInv

\* The four idempotency keys under which an order's payment can be disposed of
\* never pay it twice, and match its status columns.
THEOREM OrdersSettleOnce == Spec => []SettledOnce
<1>1. IInv => SettledOnce
  BY DEF IInv, OrderOK, SettledOnce
<1> QED
  BY <1>1, IInvHolds, PTL

\* The status of an order, its settlement with the return deadline, and its
\* refunds row agree.
THEOREM RefundsAndSettlements == Spec => []RefundsAndSettlementsAgree
<1>1. IInv => RefundsAndSettlementsAgree
  BY DEF IInv, OrderOK, RefundsAndSettlementsAgree, RefundFollowsOrder, SettlementFollowsStatus
<1> QED
  BY <1>1, IInvHolds, PTL

-----------------------------------------------------------------------------
\* What one step can do to an order: nothing; something short of a release, if
\* the order is not settled; or a release, if it is due.
StepOf(o) ==
  \/ order'[o] = order[o] /\ refund'[o] = refund[o]
  \/ order[o].settlement \notin Settled /\ order'[o].settlement # "released"
  \/ /\ order[o].settlement = "holding"
     /\ order[o].status = "delivered"
     /\ now > order[o].return_deadline

LEMMA StepCases ==
  ASSUME IInv, [Next]_vars, NEW p \in Placed
  PROVE  StepOf(p)
<1>1. p \in Orders /\ order[p] \in OrderRows /\ SettlementOf(p) = order[p].settlement
  BY DEF Placed, IInv, TypeOK, SettlementOf
<1> USE <1>1 DEF IInv, OrderOK
<1>2. order[p].status \in {"pending_confirmation", "confirmed", "shipping"} =>
        order[p].settlement = "holding"
  BY DEF SettlementFollows
<1>3. ASSUME NEW o \in Orders, NEW s \in Users, NEW b \in Baskets, NEW t \in Totals,
             CreateOrder(o, s, b, t)
      PROVE  StepOf(p)
  BY <1>3 DEF CreateOrder, Placed, StepOf, TypeOK
<1>4. ASSUME NEW o \in Orders, NEW kind,
             order[o].status \in {"pending_confirmation", "confirmed"}, CancelAndRefund(o, kind)
      PROVE  StepOf(p)
  BY <1>2, <1>4 DEF CancelAndRefund, StepOf, TypeOK, Settled, OrderRows
<1>5. ASSUME NEW o \in Orders, NEW from \in {"pending_confirmation", "confirmed", "shipping"},
             NEW row, row.settlement = order[o].settlement, Advance(o, from, row)
      PROVE  StepOf(p)
  BY <1>2, <1>5 DEF Advance, StepOf, TypeOK, Settled
<1>6. ASSUME NEW o \in Orders, RefundOrder(o)
      PROVE  StepOf(p)
  <2>1. CASE o = p
    <3>1. SettlementOf(p) # "released"
      BY <1>6, <2>1 DEF SettlementFollows, RefundOrder, TypeOK, OrderRows, OrderAssumption
    <3>2. SettlementOf(p) # "refunded"
      BY <1>6, <2>1 DEF RefundFollows, RefundOrder, NoRefund
    <3> QED
      BY <1>6, <2>1, <3>1, <3>2 DEF RefundOrder, StepOf, TypeOK, OrderRows, Settled
  <2>2. CASE o # p
    BY <1>6, <2>2 DEF RefundOrder, StepOf, TypeOK
  <2> QED
    BY <2>1, <2>2
<1>7. ASSUME NEW S \in SUBSET Orders, NEW source,
             \A o \in S : SettlementOf(o) = "refund_requested",
             CompleteRefundSettlement(S, source)
      PROVE  StepOf(p)
  BY <1>7 DEF CompleteRefundSettlement, StepOf, Settled, OrderRows
<1>8. ASSUME NEW o \in Orders, order[o].settlement = "refund_requested", RejectRefund(o)
      PROVE  StepOf(p)
  BY <1>8 DEF RejectRefund, StepOf, Settled, OrderRows, TypeOK
<1>9. CASE ReleaseDueSellerPoints
  BY <1>9, OrderAssumption DEF ReleaseDueSellerPoints, Batches, StepOf, TypeOK, OrderRows
<1>10. ASSUME UNCHANGED orderVars
       PROVE  StepOf(p)
  BY <1>10 DEF orderVars, StepOf
<1>11. \A u \in Users : AddRewardProof(u) => UNCHANGED orderVars
  BY DEF AddRewardProof
<1> QED
  BY <1>3, <1>4, <1>5, <1>6, <1>7, <1>8, <1>9, <1>10, <1>11, NextCases

\* Nothing touches a settled order or its refund row again, whatever requests
\* and workers come later.
THEOREM SettledOrdersAreFinal == Spec => SettledIsFinal
<1>1. IInv /\ [Next]_vars =>
        [\A o \in Placed :
           order[o].settlement \in Settled => order'[o] = order[o] /\ refund'[o] = refund[o]]_vars
  BY StepCases DEF StepOf, Settled
<1> QED
  BY <1>1, IInvHolds, PTL DEF Spec, SettledIsFinal

\* The seller is paid only for a delivered order whose return window is over
\* and about which no request is open or granted.
THEOREM ReleasesAreOnTime == Spec => ReleasedOnTime
<1>1. ASSUME IInv, [Next]_vars, NEW o \in Placed,
             order[o].settlement # "released", order'[o].settlement = "released"
      PROVE  /\ order[o].status = "delivered"
             /\ now > order[o].return_deadline
             /\ refund[o].status \in {"absent", "rejected"}
  <2>1. /\ order[o].settlement = "holding"
        /\ order[o].status = "delivered"
        /\ now > order[o].return_deadline
    BY <1>1, StepCases DEF StepOf
  <2>2. refund[o].status \in RefundStatus \cup {"absent"} /\ SettlementOf(o) = "holding"
    BY <1>1, <2>1 DEF IInv, TypeOK, RefundRows, NoRefund, Placed, SettlementOf
  <2> QED
    BY <1>1, <2>1, <2>2 DEF IInv, OrderOK, RefundFollows, RefundStatus, Placed
<1>2. IInv /\ [Next]_vars =>
        [\A o \in Placed :
           order[o].settlement # "released" /\ order'[o].settlement = "released" =>
             /\ order[o].status = "delivered"
             /\ now > order[o].return_deadline
             /\ refund[o].status \in {"absent", "rejected"}]_vars
  BY <1>1
<1> QED
  BY <1>2, IInvHolds, PTL DEF Spec, ReleasedOnTime

-----------------------------------------------------------------------------
\* What order o has taken from the stock of v and not given back.
Taken(o, v) == IF o \in Placed /\ order[o].status # "cancelled" THEN order[o].items[v] ELSE 0

\* Stock and orders agree, with the inventory_movements that say which orders
\* still hold their quantities.
TakenAddsUp ==
  /\ \A o \in Orders : moved[o] = "deducted" <=> o \in Placed /\ order[o].status # "cancelled"
  /\ \A v \in Variants : stock[v] = InitialStock[v] - SumOver([o \in Orders |-> Taken(o, v)], Orders)

TracesInv == TakenAddsUp /\ TimelineFollowsStatus

LEMMA TakenType ==
  ASSUME TypeOK, NEW o \in Orders, NEW v \in Variants
  PROVE  Taken(o, v) \in Nat
<1>1. o \in Placed => order[o].items[v] \in Nat
  BY DEF TypeOK, Placed, OrderRows
<1> QED
  BY <1>1 DEF Taken

\* A row that keeps its status and items has the same traces.
SameTraces(o) ==
  /\ order'[o] = NoOrder <=> order[o] = NoOrder
  /\ order'[o].status = order[o].status
  /\ o \in Placed => order'[o].items = order[o].items

LEMMA SameTaken ==
  ASSUME NEW o \in Orders, SameTraces(o)
  PROVE  /\ \A v \in Variants : Taken(o, v)' = Taken(o, v)
         /\ (o \in Placed)' = (o \in Placed)
BY DEF SameTraces, Taken, Placed

LEMMA TracesOfNone ==
  ASSUME TracesInv, UNCHANGED <<timeline, stock, moved>>, \A o \in Orders : SameTraces(o)
  PROVE  TracesInv'
<1>1. ASSUME NEW v \in Variants
      PROVE  stock'[v] = InitialStock[v] - SumOver([o \in Orders |-> Taken(o, v)'], Orders)
  <2>1. [o \in Orders |-> Taken(o, v)'] = [o \in Orders |-> Taken(o, v)]
    BY SameTaken
  <2> QED
    BY <2>1 DEF TracesInv, TakenAddsUp
<1>2. \A o \in Orders : moved'[o] = "deducted" <=> (o \in Placed)' /\ order'[o].status # "cancelled"
  BY SameTaken DEF TracesInv, TakenAddsUp, SameTraces
<1>3. TimelineFollowsStatus'
  BY SameTaken DEF TracesInv, TimelineFollowsStatus, SameTraces
<1> QED
  BY <1>1, <1>2, <1>3 DEF TracesInv, TakenAddsUp

\* The row that a status change adds continues the history of its order.
LEMMA TimelineOfOne ==
  ASSUME TypeOK, TimelineFollowsStatus, NEW o \in Orders, NEW status \in OrderStatus, AddTimeline(o, status),
         order'[o] # NoOrder, order'[o].status = status, \A p \in Orders \ {o} : order'[p] = order[p]
  PROVE  TimelineFollowsStatus'
<1> DEFINE t == timeline[o]
           before == IF order[o] = NoOrder THEN "null" ELSE order[o].status
           row == <<before, status>>
<1>1. t \in Seq((OrderStatus \cup {"null"}) \X OrderStatus)
  BY DEF TypeOK
<1>2. timeline'[o] = Append(t, row) /\ \A p \in Orders \ {o} : timeline'[p] = timeline[p]
  BY DEF AddTimeline, TypeOK
<1>3. /\ o \in Placed <=> t # << >>
      /\ \A i \in 1..Len(t) : t[i][1] = IF i = 1 THEN "null" ELSE t[i-1][2]
      /\ o \in Placed => t[Len(t)][2] = order[o].status
  BY DEF TimelineFollowsStatus
<1>4. o \in Placed <=> order[o] # NoOrder
  BY DEF Placed
<1> DEFINE u == Append(t, row)
<1>5. /\ Len(t) \in Nat /\ Len(u) = Len(t) + 1 /\ u # << >> /\ (t = << >> <=> Len(t) = 0)
      /\ \A i \in 1..Len(t) : u[i] = t[i]
      /\ u[Len(t) + 1] = row
  <2> HIDE DEF t, row
  <2> QED
    BY <1>1
<1>6. row[1] = before /\ row[2] = status
  OBVIOUS
<1> HIDE DEF t, u, row
<1>7. before = IF Len(t) = 0 THEN "null" ELSE t[Len(t)][2]
  BY <1>3, <1>4, <1>5
<1>8. ASSUME NEW i \in 1..Len(u)
      PROVE  u[i][1] = IF i = 1 THEN "null" ELSE u[i-1][2]
  <2>1. CASE i \in 1..Len(t)
    <3>1. i # 1 => i - 1 \in 1..Len(t)
      BY <1>5, <2>1
    <3> QED
      BY <1>3, <1>5, <2>1, <3>1
  <2>2. CASE i = Len(t) + 1
    <3>1. Len(t) # 0 => Len(t) \in 1..Len(t)
      BY <1>5
    <3> QED
      BY <1>5, <1>6, <1>7, <2>2, <3>1
  <2> QED
    BY <1>5, <2>1, <2>2
<1>9. (o \in Placed)' /\ u[Len(u)][2] = order'[o].status
  BY <1>5, <1>6 DEF Placed
<1>10. \A p \in Orders \ {o} : (p \in Placed)' = (p \in Placed)
  BY DEF Placed
<1>11. timeline'[o] = u
  BY <1>2 DEF u
<1>12. ASSUME NEW p \in Orders
       PROVE  /\ (p \in Placed)' <=> timeline'[p] # << >>
              /\ \A i \in 1..Len(timeline'[p]) :
                   timeline'[p][i][1] = IF i = 1 THEN "null" ELSE timeline'[p][i-1][2]
              /\ (p \in Placed)' => timeline'[p][Len(timeline'[p])][2] = order'[p].status
  <2>1. CASE p = o
    BY <1>5, <1>8, <1>9, <1>11, <2>1
  <2>2. CASE p # o
    BY <1>2, <1>10, <2>2 DEF TimelineFollowsStatus
  <2> QED
    BY <2>1, <2>2
<1> QED
  BY <1>12 DEF TimelineFollowsStatus

\* A step that changes the status of one order, and stock by what that order
\* has taken before and has taken after.
LEMMA TracesOfOne ==
  ASSUME TypeOK, TypeOK', TracesInv, NEW o \in Orders, NEW status \in OrderStatus, AddTimeline(o, status),
         order'[o] # NoOrder, order'[o].status = status,
         \A p \in Orders \ {o} : order'[p] = order[p] /\ moved'[p] = moved[p],
         moved'[o] = "deducted" <=> status # "cancelled",
         \A v \in Variants : stock'[v] = stock[v] + Taken(o, v) - Taken(o, v)'
  PROVE  TracesInv'
<1>1. TimelineFollowsStatus'
  BY TimelineOfOne DEF TracesInv
<1>2. \A p \in Orders \ {o} : (p \in Placed)' = (p \in Placed)
  BY DEF Placed
<1>3. \A p \in Orders : moved'[p] = "deducted" <=> (p \in Placed)' /\ order'[p].status # "cancelled"
  <2>1. (o \in Placed)'
    BY DEF Placed
  <2> QED
    BY <1>2, <2>1 DEF TracesInv, TakenAddsUp
<1>4. ASSUME NEW v \in Variants
      PROVE  stock'[v] = InitialStock[v] - SumOver([p \in Orders |-> Taken(p, v)'], Orders)
  <2> DEFINE f == [p \in Orders |-> Taken(p, v)]
             g == [p \in Orders |-> Taken(p, v)']
  <2>1. \A p \in Orders : f[p] \in Int /\ g[p] \in Int /\ (p # o => g[p] = f[p])
    <3>1. \A p \in Orders : Taken(p, v) \in Nat /\ Taken(p, v)' \in Nat
      <4>1. \A p \in Orders : (p \in Placed)' => order'[p].items[v] \in Nat
        BY DEF TypeOK, Placed, OrderRows
      <4> QED
        BY <4>1, TakenType DEF Taken
    <3>2. \A p \in Orders \ {o} : Taken(p, v)' = Taken(p, v)
      BY <1>2 DEF Taken
    <3> QED
      BY <3>1, <3>2
  <2>2. f[o] = Taken(o, v) /\ g[o] = Taken(o, v)'
    OBVIOUS
  <2>3. stock[v] = InitialStock[v] - SumOver(f, Orders) /\ stock'[v] = stock[v] + f[o] - g[o]
    BY <2>2 DEF TracesInv, TakenAddsUp
  <2> HIDE DEF f, g
  <2>4. SumOver(g, Orders) = SumOver(f, Orders) - f[o] + g[o] /\ SumOver(f, Orders) \in Int
    BY <2>1, SumOfOneChange, SumIsInt, OrderAssumption
  <2>5. InitialStock[v] \in Int /\ f[o] \in Int /\ g[o] \in Int
    BY <2>1, OrderAssumption
  <2>6. stock'[v] = InitialStock[v] - SumOver(g, Orders)
    BY <2>3, <2>4, <2>5
  <2> QED
    BY <2>6 DEF g
<1> QED
  BY <1>1, <1>3, <1>4 DEF TracesInv, TakenAddsUp

LEMMA CreateTraces ==
  ASSUME IInv, TypeOK', TracesInv,
         NEW o \in Orders, NEW s \in Users, NEW b \in Baskets, NEW t \in Totals, CreateOrder(o, s, b, t)
  PROVE  TracesInv'
<1> DEFINE row == [seller |-> s, items |-> b, total |-> t, status |-> "pending_confirmation",
                   settlement |-> "holding", return_deadline |-> 0]
<1>1. /\ order' = [order EXCEPT ![o] = row] /\ moved' = [moved EXCEPT ![o] = "deducted"]
      /\ stock' = [v \in Variants |-> stock[v] - b[v]]
      /\ AddTimeline(o, "pending_confirmation") /\ o \notin Placed
  BY DEF CreateOrder, Placed
<1>2. /\ order'[o] = row /\ moved'[o] = "deducted" /\ row # NoOrder
      /\ \A p \in Orders \ {o} : order'[p] = order[p] /\ moved'[p] = moved[p]
  BY <1>1 DEF IInv, TypeOK, NoOrder
<1>3. ASSUME NEW v \in Variants
      PROVE  stock'[v] = stock[v] + Taken(o, v) - Taken(o, v)'
  <2>1. Taken(o, v) = 0 /\ Taken(o, v)' = b[v]
    BY <1>1, <1>2 DEF Taken, Placed
  <2>2. stock[v] \in Nat /\ b[v] \in Nat
    BY OrderAssumption DEF IInv, TypeOK
  <2> QED
    BY <1>1, <2>1, <2>2
<1>4. "pending_confirmation" \in OrderStatus
  BY DEF OrderStatus
<1> QED
  BY <1>1, <1>2, <1>3, <1>4, TracesOfOne DEF IInv

LEMMA CancelTraces ==
  ASSUME IInv, TypeOK', TracesInv, NEW o \in Orders, order[o].status \in {"pending_confirmation", "confirmed"},
         NEW kind, CancelAndRefund(o, kind)
  PROVE  TracesInv'
<1>1. order[o] \in OrderRows /\ o \in Placed
  BY PlacedRow DEF IInv, OrderStatus
<1>2. moved[o] = "deducted"
  BY <1>1 DEF TracesInv, TakenAddsUp
<1>3. /\ order' = [order EXCEPT ![o] = [@ EXCEPT !.status = "cancelled", !.settlement = "refunded"]]
      /\ stock' = [v \in Variants |-> stock[v] + order[o].items[v]]
      /\ moved' = [moved EXCEPT ![o] = "restored"]
      /\ AddTimeline(o, "cancelled")
  BY <1>2 DEF CancelAndRefund, RestoreOrderStock, IInv, TypeOK
<1>4. /\ order'[o].status = "cancelled" /\ order'[o] # NoOrder /\ moved'[o] = "restored"
      /\ \A p \in Orders \ {o} : order'[p] = order[p] /\ moved'[p] = moved[p]
  BY <1>1, <1>3 DEF OrderRows, NoOrder, IInv, TypeOK
<1>5. ASSUME NEW v \in Variants
      PROVE  stock'[v] = stock[v] + Taken(o, v) - Taken(o, v)'
  <2>1. Taken(o, v) = order[o].items[v] /\ Taken(o, v)' = 0
    BY <1>1, <1>4 DEF Taken
  <2>2. stock[v] \in Nat /\ order[o].items[v] \in Nat
    BY <1>1 DEF IInv, TypeOK, OrderRows
  <2> QED
    BY <1>3, <2>1, <2>2
<1>6. "cancelled" \in OrderStatus
  BY DEF OrderStatus
<1> QED
  BY <1>3, <1>4, <1>5, <1>6, TracesOfOne DEF IInv

LEMMA AdvanceTraces ==
  ASSUME IInv, TypeOK', TracesInv, NEW o \in Orders,
         NEW from \in {"pending_confirmation", "confirmed", "shipping"},
         NEW row \in OrderRows, row.items = order[o].items,
         row.status \in {"confirmed", "shipping", "delivered"}, Advance(o, from, row)
  PROVE  TracesInv'
<1>1. order[o] \in OrderRows /\ o \in Placed
  BY PlacedRow DEF IInv, OrderStatus, Advance
<1>2. /\ order' = [order EXCEPT ![o] = row] /\ AddTimeline(o, row.status) /\ UNCHANGED <<stock, moved>>
      /\ order[o].status # "cancelled"
  BY DEF Advance
<1>3. order'[o] = row /\ row # NoOrder /\ \A p \in Orders \ {o} : order'[p] = order[p] /\ moved'[p] = moved[p]
  BY <1>2 DEF IInv, TypeOK, OrderRows, NoOrder
<1>4. moved'[o] = "deducted" /\ row.status \in OrderStatus \ {"cancelled"}
  BY <1>1, <1>2 DEF TracesInv, TakenAddsUp, OrderStatus
<1>5. ASSUME NEW v \in Variants
      PROVE  stock'[v] = stock[v] + Taken(o, v) - Taken(o, v)'
  <2>1. Taken(o, v) = order[o].items[v] /\ Taken(o, v)' = order[o].items[v]
    BY <1>1, <1>2, <1>3, <1>4 DEF Taken, Placed
  <2>2. stock[v] \in Nat /\ order[o].items[v] \in Nat
    BY <1>1 DEF IInv, TypeOK, OrderRows
  <2> QED
    BY <1>2, <2>1, <2>2
<1> QED
  BY <1>2, <1>3, <1>4, <1>5, TracesOfOne DEF IInv

\* Refunds and releases change the settlement of orders, which leaves no trace
\* in stock or timeline.
LEMMA SettlementTraces ==
  ASSUME IInv, NEW S \in SUBSET Placed, NEW settlement,
         \A o \in Orders : order'[o] = IF o \in S THEN [order[o] EXCEPT !.settlement = settlement] ELSE order[o]
  PROVE  \A o \in Orders : SameTraces(o)
<1>1. ASSUME NEW o \in S
      PROVE  SameTraces(o)
  <2>1. o \in Orders /\ order[o] \in OrderRows /\ order[o] # NoOrder
    BY DEF IInv, TypeOK, Placed
  <2>2. order'[o].status = order[o].status /\ order'[o].items = order[o].items
    BY <2>1 DEF OrderRows
  <2>3. order'[o] # NoOrder
    BY <2>1 DEF OrderRows, NoOrder
  <2> QED
    BY <2>1, <2>2, <2>3 DEF SameTraces
<1>2. \A o \in Orders \ S : SameTraces(o)
  BY DEF SameTraces
<1> QED
  BY <1>1, <1>2

NoTraces == UNCHANGED <<timeline, stock, moved>> /\ \A o \in Orders : SameTraces(o)

\* Only a creation, a cancellation or refusal, and a step of fulfilment leave
\* traces.
LEMMA TraceCases ==
  ASSUME IInv, [Next]_vars
  PROVE  \/ \E o \in Orders, s \in Users, b \in Baskets, t \in Totals : CreateOrder(o, s, b, t)
         \/ \E o \in Orders, kind \in {"ORDER_REFUND:CANCEL", "ORDER_REFUND:SELLER_REJECT"} :
              /\ order[o].status \in {"pending_confirmation", "confirmed"}
              /\ CancelAndRefund(o, kind)
         \/ \E o \in Orders, from \in {"pending_confirmation", "confirmed", "shipping"},
               row \in OrderRows :
              /\ row.items = order[o].items
              /\ row.status \in {"confirmed", "shipping", "delivered"}
              /\ Advance(o, from, row)
         \/ NoTraces
<1>1. ASSUME NEW o \in Orders, RefundOrder(o)
      PROVE  NoTraces
  <2>1. {o} \in SUBSET Placed
    BY <1>1, PlacedRow DEF RefundOrder, IInv, OrderStatus
  <2>2. \A p \in Orders : order'[p] = IF p \in {o} THEN [order[p] EXCEPT !.settlement = "refund_requested"]
                                     ELSE order[p]
    BY <1>1 DEF RefundOrder, IInv, TypeOK
  <2> QED
    BY <1>1, <2>1, <2>2, SettlementTraces DEF RefundOrder, NoTraces
<1>2. ASSUME NEW o \in Orders, order[o].status = "delivered", RejectRefund(o)
      PROVE  NoTraces
  <2>1. {o} \in SUBSET Placed
    BY <1>2, PlacedRow DEF IInv, OrderStatus
  <2>2. \A p \in Orders : order'[p] = IF p \in {o} THEN [order[p] EXCEPT !.settlement = "holding"] ELSE order[p]
    BY <1>2 DEF RejectRefund, IInv, TypeOK
  <2> QED
    BY <1>2, <2>1, <2>2, SettlementTraces DEF RejectRefund, NoTraces
<1>3. ASSUME NEW S \in SUBSET Orders, NEW source,
             \A o \in S : SettlementOf(o) = "refund_requested", CompleteRefundSettlement(S, source)
      PROVE  NoTraces
  <2>1. S \in SUBSET Placed
    BY <1>3 DEF SettlementOf
  <2> QED
    BY <1>3, <2>1, SettlementTraces DEF CompleteRefundSettlement, NoTraces
<1>4. CASE ReleaseDueSellerPoints
  <2> DEFINE due == {o \in Orders : /\ order[o].status = "delivered"
                                    /\ order[o].settlement = "holding"
                                    /\ order[o].return_deadline < now}
  <2>1. PICK S \in Batches(due) :
          /\ order' = [o \in Orders |-> IF o \in S
                         THEN [order[o] EXCEPT !.settlement = "released"] ELSE order[o]]
          /\ UNCHANGED <<refund, timeline, stock, moved, listed, active, now>>
    BY <1>4 DEF ReleaseDueSellerPoints
  <2>2. S \in SUBSET Placed
    BY PlacedRow DEF Batches, IInv, OrderStatus
  <2> QED
    BY <2>1, <2>2, SettlementTraces DEF NoTraces
<1>5. ASSUME UNCHANGED orderVars
      PROVE  NoTraces
  BY <1>5 DEF orderVars, SameTraces, NoTraces
<1>6. \A u \in Users : AddRewardProof(u) => UNCHANGED orderVars
  BY DEF AddRewardProof
<1> QED
  BY <1>1, <1>2, <1>3, <1>4, <1>5, <1>6, NextCases

LEMMA NextKeepsTraces == IInv /\ TracesInv /\ [Next]_vars => TracesInv'
<1> SUFFICES ASSUME IInv, TracesInv, [Next]_vars
             PROVE  TracesInv'
  OBVIOUS
<1>1. TypeOK'
  BY NextKeepsIInv DEF IInv
<1>2. NoTraces => TracesInv'
  BY TracesOfNone DEF NoTraces
<1> QED
  BY <1>1, <1>2, TraceCases, CreateTraces, CancelTraces, AdvanceTraces

LEMMA InitEstablishesTraces == Init => TracesInv
<1> SUFFICES ASSUME Init PROVE TracesInv
  OBVIOUS
<1>1. \A o \in Orders : o \notin Placed /\ timeline[o] = << >> /\ moved[o] = "none"
  BY DEF Init, Placed
<1>2. ASSUME NEW v \in Variants
      PROVE  stock[v] = InitialStock[v] - SumOver([o \in Orders |-> Taken(o, v)], Orders)
  <2> DEFINE f == [o \in Orders |-> Taken(o, v)]
  <2>1. \A o \in Orders : f[o] = 0
    BY <1>1 DEF Taken
  <2>2. SumOver(f, Orders) = 0
    <3> HIDE DEF f
    <3> QED
      BY <2>1, SumOfZeros, OrderAssumption
  <2>3. stock[v] = InitialStock[v] /\ InitialStock[v] \in Int
    BY OrderAssumption DEF Init
  <2> QED
    BY <2>2, <2>3
<1> QED
  BY <1>1, <1>2 DEF TracesInv, TakenAddsUp, TimelineFollowsStatus

LEMMA TracesHold == Spec => [](IInv /\ TracesInv)
  BY InitEstablishesIInv, InitEstablishesTraces, NextKeepsIInv, NextKeepsTraces, PTL DEF Spec

\* Stock is what there was less what the orders that were not cancelled took,
\* and the timeline of every order tells its history up to its status: nothing
\* is deducted or restored twice, and no status change goes unrecorded.
THEOREM OrdersLeaveTraces == Spec => []TracesFollowOrders
<1>1. IInv /\ TracesInv => TracesFollowOrders
  <2> SUFFICES ASSUME TypeOK, TakenAddsUp PROVE StockFollowsOrders
    BY DEF IInv, TracesInv, TracesFollowOrders
  <2> DEFINE Kept == {o \in Placed : order[o].status # "cancelled"}
  <2>1. ASSUME NEW v \in Variants
        PROVE  stock[v] = InitialStock[v] - SumOver([o \in Kept |-> order[o].items[v]], Kept)
    <3> DEFINE f == [o \in Kept |-> order[o].items[v]]
    <3>1. Kept \in SUBSET Orders /\ \A o \in Kept : f[o] \in Int
      BY DEF Placed, TypeOK, OrderRows
    <3>2. [o \in Orders |-> Taken(o, v)] = [o \in Orders |-> IF o \in Kept THEN f[o] ELSE 0]
      BY DEF Taken
    <3>3. SumOver(f, Kept) = SumOver([o \in Orders |-> IF o \in Kept THEN f[o] ELSE 0], Orders)
      <4> HIDE DEF f, Kept
      <4> QED
        BY <3>1, SumOfPart, OrderAssumption
    <3> QED
      BY <3>2, <3>3 DEF TakenAddsUp
  <2> QED
    BY <2>1 DEF StockFollowsOrders
<1> QED
  BY <1>1, TracesHold, PTL

-----------------------------------------------------------------------------
(***************************************************************************)
(* Wallets.  What an order has put on an account is told by its row        *)
(* (Share); every step changes the shares of its orders by the entries it  *)
(* posts for them (SharesStep).                                            *)
(***************************************************************************)

\* What order o has put on account a since it was placed.
Share(o, a) ==
  IF o \notin Placed THEN 0
  ELSE (IF a = Pending(order[o].seller) /\ order[o].settlement \notin Settled
        THEN order[o].total ELSE 0)
     + (IF a = Available(order[o].seller) /\ order[o].settlement = "released"
        THEN order[o].total ELSE 0)
     - (IF a = Available(BuyerOf[o]) /\ order[o].settlement # "refunded"
        THEN order[o].total ELSE 0)

\* What the reward of its owner has put on account a.
RewardOn(a) == IF a[2] = "available" THEN Rewarded(a[1]) ELSE 0

\* A balance is the reward and the shares of all orders.
SharesAddUp ==
  \A a \in Accounts : balance[a] = RewardOn(a) + SumOver([o \in Orders |-> Share(o, a)], Orders)

LEMMA ShareType ==
  ASSUME TypeOK, NEW o \in Orders, NEW a
  PROVE  Share(o, a) \in Int
<1>1. o \in Placed => order[o].total \in Nat
  BY DEF TypeOK, Placed, OrderRows
<1> QED
  BY <1>1 DEF Share

\* A step that posts entries e for the orders of S, and changes the shares of
\* those orders by e and no others, keeps the balances right.
LEMMA SharesStep ==
  ASSUME TypeOK, TypeOK', SharesAddUp, NEW S \in SUBSET Orders, NEW e \in [S -> Entries],
         \A a \in Accounts : balance'[a] = balance[a] + SumOver([o \in S |-> e[o][a]], S),
         \A o \in S, a \in Accounts : Share(o, a)' = Share(o, a) + e[o][a],
         \A p \in Orders \ S, a \in Accounts : Share(p, a)' = Share(p, a),
         \A u \in Users : Done("REWARD_PROOF", u)' = Done("REWARD_PROOF", u)
  PROVE  SharesAddUp'
<1> SUFFICES ASSUME NEW a \in Accounts
             PROVE  balance'[a] = RewardOn(a)' + SumOver([o \in Orders |-> Share(o, a)'], Orders)
  BY DEF SharesAddUp
<1> DEFINE before == [o \in Orders |-> Share(o, a)]
           after == [o \in Orders |-> Share(o, a)']
           posted == [o \in S |-> e[o][a]]
           all == [o \in Orders |-> IF o \in S THEN posted[o] ELSE 0]
<1>1. \A o \in S : posted[o] \in Int
  BY DEF Entries
<1>2. SumOver(posted, S) = SumOver(all, Orders)
  <2> HIDE DEF posted
  <2> QED
    BY <1>1, SumOfPart, OrderAssumption
<1>3. \A o \in Orders : before[o] \in Int /\ all[o] \in Int /\ after[o] = before[o] + all[o]
  <2> SUFFICES ASSUME NEW o \in Orders
               PROVE  before[o] \in Int /\ all[o] \in Int /\ after[o] = before[o] + all[o]
    OBVIOUS
  <2>1. Share(o, a) \in Int
    BY ShareType
  <2>2. CASE o \in S
    BY <1>1, <2>1, <2>2
  <2>3. CASE o \notin S
    BY <2>1, <2>3
  <2> QED
    BY <2>2, <2>3
<1>4. SumOver(after, Orders) = SumOver(before, Orders) + SumOver(all, Orders)
  <2> HIDE DEF before, after, all
  <2> QED
    BY <1>3, SumOfSums, OrderAssumption
<1>5. RewardOn(a)' = RewardOn(a) /\ RewardOn(a) \in Int
  <2>1. a[1] \in Users
    BY DEF Accounts
  <2> QED
    BY <2>1, OrderAssumption DEF RewardOn, Rewarded
<1>6. SumOver(before, Orders) \in Int /\ SumOver(all, Orders) \in Int
  <2> HIDE DEF before, all
  <2> QED
    BY <1>3, SumIsInt, OrderAssumption
<1>7. balance'[a] = balance[a] + SumOver(posted, S) /\ balance[a] = RewardOn(a) + SumOver(before, Orders)
  BY DEF SharesAddUp
<1> HIDE DEF before, after, posted, all
<1>8. balance'[a] = RewardOn(a)' + SumOver(after, Orders)
  BY <1>2, <1>4, <1>5, <1>6, <1>7
<1> QED
  BY <1>8 DEF after

\* The keys of orders are no reward's key.
LEMMA RewardKeysApart ==
  ASSUME NEW S \in SUBSET Orders, NEW kind \in OperationKinds,
         \A j \in Keys : j \notin {kind} \X S => operation'[j] = operation[j]
  PROVE  \A u \in Users : Done("REWARD_PROOF", u)' = Done("REWARD_PROOF", u)
<1>1. ASSUME NEW u \in Users
      PROVE  <<"REWARD_PROOF", u>> \in Keys /\ <<"REWARD_PROOF", u>> \notin {kind} \X S
  BY OrderAssumption DEF OrderKeys, OperationKinds
<1> QED
  BY <1>1 DEF Done

\* A step that posts nothing and leaves what orders share as it is.
LEMMA SameShares ==
  ASSUME TypeOK, TypeOK', SharesAddUp, UNCHANGED ledgerVars,
         \A p \in Orders, a \in Accounts : Share(p, a)' = Share(p, a)
  PROVE  SharesAddUp'
<1>1. \A u \in Users : Done("REWARD_PROOF", u)' = Done("REWARD_PROOF", u)
  BY DEF ledgerVars, Done
<1>2. [a \in Accounts |-> SumOver([o \in Orders |-> Share(o, a)'], Orders)]
        = [a \in Accounts |-> SumOver([o \in Orders |-> Share(o, a)], Orders)]
  <2> SUFFICES ASSUME NEW a \in Accounts
               PROVE  SumOver([o \in Orders |-> Share(o, a)'], Orders)
                        = SumOver([o \in Orders |-> Share(o, a)], Orders)
    OBVIOUS
  <2>1. [o \in Orders |-> Share(o, a)'] = [o \in Orders |-> Share(o, a)]
    OBVIOUS
  <2> QED
    BY <2>1
<1>3. \A a \in Accounts : RewardOn(a)' = RewardOn(a)
  BY <1>1 DEF RewardOn, Rewarded, Accounts
<1> QED
  BY <1>2, <1>3 DEF SharesAddUp, ledgerVars

\* What the entries of an order's operations do to each account.
LEMMA EntriesOfAccount ==
  ASSUME NEW o \in Orders, NEW row \in OrderRows, NEW a \in Accounts
  PROVE  /\ PaymentEntries(o, row)[a] = (IF a = Pending(row.seller) THEN row.total ELSE 0)
                                       - (IF a = Available(BuyerOf[o]) THEN row.total ELSE 0)
         /\ RefundEntries(o, row)[a] = (IF a = Available(BuyerOf[o]) THEN row.total ELSE 0)
                                      - (IF a = Pending(row.seller) THEN row.total ELSE 0)
         /\ ReleaseEntries(row)[a] = (IF a = Available(row.seller) THEN row.total ELSE 0)
                                    - (IF a = Pending(row.seller) THEN row.total ELSE 0)
<1>1. row.total \in Nat
  BY DEF OrderRows
<1>2. \A u, v : Available(u) # Pending(v)
  BY DEF Available, Pending
<1>3. Transfer(Available(BuyerOf[o]), Pending(row.seller), row.total)[a] =
        (IF a = Pending(row.seller) THEN row.total ELSE 0)
        - (IF a = Available(BuyerOf[o]) THEN row.total ELSE 0)
  BY <1>1, <1>2 DEF Transfer
<1>4. Transfer(Pending(row.seller), Available(BuyerOf[o]), row.total)[a] =
        (IF a = Available(BuyerOf[o]) THEN row.total ELSE 0)
        - (IF a = Pending(row.seller) THEN row.total ELSE 0)
  BY <1>1, <1>2 DEF Transfer
<1>5. Transfer(Pending(row.seller), Available(row.seller), row.total)[a] =
        (IF a = Available(row.seller) THEN row.total ELSE 0)
        - (IF a = Pending(row.seller) THEN row.total ELSE 0)
  BY <1>1, <1>2 DEF Transfer
<1> QED
  BY <1>3, <1>4, <1>5 DEF PaymentEntries, RefundEntries, ReleaseEntries

\* What an order shares is told by its row.
LEMMA SameRow ==
  ASSUME NEW o \in Orders, order'[o] = order[o], NEW a
  PROVE  Share(o, a)' = Share(o, a)
BY DEF Share, Placed

\* A step of the ledger on behalf of one order.
LEMMA ShareOfOne ==
  ASSUME TypeOK, TypeOK', SharesAddUp, NEW o \in Orders, NEW kind \in OperationKinds, NEW e \in Entries,
         operation[<<kind, o>>] = NoOperation, ApplyOperation(<<kind, o>>, e),
         \A a \in Accounts : Share(o, a)' = Share(o, a) + e[a],
         \A p \in Orders \ {o} : order'[p] = order[p]
  PROVE  SharesAddUp'
<1> DEFINE d == [p \in {o} |-> e]
<1>1. Post(e) /\ operation' = [operation EXCEPT ![<<kind, o>>] = Completed(e)]
  BY DEF ApplyOperation
<1>2. ASSUME NEW a \in Accounts
      PROVE  balance'[a] = balance[a] + SumOver([p \in {o} |-> d[p][a]], {o})
  <2> DEFINE f == [p \in {o} |-> d[p][a]]
  <2>1. f[o] = e[a] /\ e[a] \in Int
    BY DEF Entries
  <2>2. SumOver(f, {o}) = f[o]
    <3> HIDE DEF f
    <3> QED
      BY <2>1, SumOfOne
  <2> QED
    BY <1>1, <2>1, <2>2 DEF Post
<1>3. \A j \in Keys : j \notin {kind} \X {o} => operation'[j] = operation[j]
  BY <1>1 DEF TypeOK, LedgerTypeOK
<1>4. \A u \in Users : Done("REWARD_PROOF", u)' = Done("REWARD_PROOF", u)
  BY <1>3, RewardKeysApart
<1>5. /\ d \in [{o} -> Entries]
      /\ \A p \in {o}, a \in Accounts : Share(p, a)' = Share(p, a) + d[p][a]
  OBVIOUS
<1>6. \A p \in Orders \ {o}, a \in Accounts : Share(p, a)' = Share(p, a)
  BY SameRow
<1> HIDE DEF d
<1> QED
  BY <1>2, <1>4, <1>5, <1>6, SharesStep

\* The same for a batch, none of whose operations has been recorded before.
LEMMA ShareOfBatch ==
  ASSUME TypeOK, TypeOK', SharesAddUp, NEW S \in SUBSET Orders, NEW kind \in OperationKinds,
         NEW e \in [S -> Entries], ApplyToOrders(kind, S, e),
         \A o \in S : operation[<<kind, o>>] = NoOperation,
         \A o \in S, a \in Accounts : Share(o, a)' = Share(o, a) + e[o][a],
         \A p \in Orders \ S : order'[p] = order[p]
  PROVE  SharesAddUp'
<1>1. S = {o \in S : operation[<<kind, o>>] = NoOperation}
  OBVIOUS
<1>2. Post([a \in Accounts |-> SumOver([o \in S |-> e[o][a]], S)])
  BY <1>1 DEF ApplyToOrders
<1>3. \A a \in Accounts : balance'[a] = balance[a] + SumOver([o \in S |-> e[o][a]], S)
  BY <1>2 DEF Post
<1>4. \A j \in Keys : j \notin {kind} \X S => operation'[j] = operation[j]
  BY BatchStep DEF TypeOK
<1>5. \A u \in Users : Done("REWARD_PROOF", u)' = Done("REWARD_PROOF", u)
  BY <1>4, RewardKeysApart
<1>6. \A p \in Orders \ S, a \in Accounts : Share(p, a)' = Share(p, a)
  BY SameRow
<1> QED
  BY <1>3, <1>5, <1>6, SharesStep

LEMMA CreateShares ==
  ASSUME IInv, TypeOK', SharesAddUp,
         NEW o \in Orders, NEW s \in Users, NEW b \in Baskets, NEW t \in Totals, CreateOrder(o, s, b, t)
  PROVE  SharesAddUp'
<1> DEFINE row == [seller |-> s, items |-> b, total |-> t, status |-> "pending_confirmation",
                   settlement |-> "holding", return_deadline |-> 0]
<1>1. row \in OrderRows
  BY OrderAssumption DEF OrderRows, OrderStatus, SettlementStatus
<1>2. o \notin Placed /\ ~Done("ORDER_PAYMENT", o)
  BY DEF CreateOrder, Placed, IInv, OrderOK, SettledOnceFor
<1>3. order' = [order EXCEPT ![o] = row] /\ ApplyOperation(<<"ORDER_PAYMENT", o>>, PaymentEntries(o, row))
  BY DEF CreateOrder
<1>4. order'[o] = row /\ (o \in Placed)' /\ \A p \in Orders \ {o} : order'[p] = order[p]
  BY <1>3 DEF IInv, TypeOK, Placed, NoOrder
<1>5. ASSUME NEW a \in Accounts
      PROVE  Share(o, a)' = Share(o, a) + PaymentEntries(o, row)[a]
  <2>1. PaymentEntries(o, row)[a] = (IF a = Pending(s) THEN t ELSE 0)
                                    - (IF a = Available(BuyerOf[o]) THEN t ELSE 0)
    BY <1>1, EntriesOfAccount
  <2>2. Share(o, a) = 0
    BY <1>2 DEF Share
  <2>3. Share(o, a)' = (IF a = Pending(s) THEN t ELSE 0) + 0
                       - (IF a = Available(BuyerOf[o]) THEN t ELSE 0)
    BY <1>4 DEF Share, Settled
  <2>4. t \in Nat
    BY OrderAssumption
  <2> QED
    BY <2>1, <2>2, <2>3, <2>4
<1>6. PaymentEntries(o, row) \in Entries
  BY <1>1, OrderEntriesType DEF OrderRows
<1>7. "ORDER_PAYMENT" \in OperationKinds
  BY DEF OperationKinds
<1> HIDE DEF row
<1> QED
  BY <1>2, <1>3, <1>4, <1>5, <1>6, <1>7, ShareOfOne DEF IInv, Done

\* A row that differs in its settlement.
LEMMA SharesOfSettlement ==
  ASSUME TypeOK, NEW o \in Placed, order[o].settlement \notin Settled,
         order'[o] # NoOrder, order'[o].seller = order[o].seller, order'[o].total = order[o].total,
         NEW a \in Accounts
  PROVE  /\ order'[o].settlement = "refunded" => Share(o, a)' = Share(o, a) + RefundEntries(o, order[o])[a]
         /\ order'[o].settlement = "released" => Share(o, a)' = Share(o, a) + ReleaseEntries(order[o])[a]
         /\ order'[o].settlement \notin Settled => Share(o, a)' = Share(o, a)
<1> DEFINE m == order[o].total
           pending == IF a = Pending(order[o].seller) THEN m ELSE 0
           paid == IF a = Available(BuyerOf[o]) THEN m ELSE 0
           earned == IF a = Available(order[o].seller) THEN m ELSE 0
<1>1. o \in Orders /\ order[o] \in OrderRows /\ m \in Nat /\ (o \in Placed)'
  BY DEF TypeOK, Placed, OrderRows
<1>2. pending \in Int /\ paid \in Int /\ earned \in Int
  BY <1>1
<1>3. Share(o, a) = pending + 0 - paid
  BY DEF Share, Settled
<1>4. /\ RefundEntries(o, order[o])[a] = paid - pending
      /\ ReleaseEntries(order[o])[a] = earned - pending
  BY <1>1, EntriesOfAccount
<1>5. order'[o].settlement = "refunded" => Share(o, a)' = 0 + 0 - 0
  BY <1>1 DEF Share, Settled
<1>6. order'[o].settlement = "released" => Share(o, a)' = 0 + earned - paid
  BY <1>1 DEF Share, Settled
<1>7. order'[o].settlement \notin Settled => Share(o, a)' = pending + 0 - paid
  BY <1>1 DEF Share, Settled
<1> HIDE DEF m, pending, paid, earned
<1> QED
  BY <1>2, <1>3, <1>4, <1>5, <1>6, <1>7 DEF Settled

LEMMA CancelShares ==
  ASSUME IInv, TypeOK', SharesAddUp, NEW o \in Orders, order[o].status \in {"pending_confirmation", "confirmed"},
         NEW kind \in {"ORDER_REFUND:CANCEL", "ORDER_REFUND:SELLER_REJECT"}, CancelAndRefund(o, kind)
  PROVE  SharesAddUp'
<1>1. order[o] \in OrderRows /\ o \in Placed
  BY PlacedRow DEF IInv, OrderStatus
<1>2. order[o].settlement = "holding" /\ ~Done(kind, o)
  BY <1>1 DEF IInv, OrderOK, SettledOnceFor, SettlementFollows, SettlementOf
<1>3. /\ order' = [order EXCEPT ![o] = [@ EXCEPT !.status = "cancelled", !.settlement = "refunded"]]
      /\ ApplyOperation(<<kind, o>>, RefundEntries(o, order[o]))
  BY DEF CancelAndRefund, IInv, TypeOK
<1>4. /\ order'[o].seller = order[o].seller /\ order'[o].total = order[o].total
      /\ order'[o].settlement = "refunded" /\ order'[o] # NoOrder
      /\ \A p \in Orders \ {o} : order'[p] = order[p]
  BY <1>1, <1>3 DEF NoOrder, OrderRows, IInv, TypeOK
<1>5. \A a \in Accounts : Share(o, a)' = Share(o, a) + RefundEntries(o, order[o])[a]
  BY <1>1, <1>2, <1>4, SharesOfSettlement DEF IInv, Settled
<1>6. RefundEntries(o, order[o]) \in Entries /\ kind \in OperationKinds
  BY <1>1, OrderEntriesType DEF OrderRows, OperationKinds
<1> QED
  BY <1>2, <1>3, <1>4, <1>5, <1>6, ShareOfOne DEF IInv, Done

\* A batch that settles orders in one way posts what their shares change by.
LEMMA BatchShares ==
  ASSUME IInv, TypeOK', SharesAddUp, NEW S \in SUBSET Placed, NEW kind \in OperationKinds,
         NEW settlement \in Settled, NEW e \in [S -> Entries], ApplyToOrders(kind, S, e),
         \A o \in S : /\ order[o].settlement \notin Settled
                      /\ operation[<<kind, o>>] = NoOperation
                      /\ e[o] = IF settlement = "refunded" THEN RefundEntries(o, order[o])
                                ELSE ReleaseEntries(order[o]),
         order' = [o \in Orders |-> IF o \in S
                     THEN [order[o] EXCEPT !.settlement = settlement] ELSE order[o]]
  PROVE  SharesAddUp'
<1>1. \A o \in S : o \in Orders /\ order[o] \in OrderRows
  BY DEF IInv, TypeOK, Placed
<1>2. ASSUME NEW o \in S
      PROVE  /\ order'[o].seller = order[o].seller /\ order'[o].total = order[o].total
             /\ order'[o].settlement = settlement /\ order'[o] # NoOrder
  <2>1. order'[o] = [order[o] EXCEPT !.settlement = settlement]
    BY <1>1
  <2> QED
    BY <1>1, <2>1 DEF OrderRows, NoOrder
<1>3. ASSUME NEW o \in S, NEW a \in Accounts
      PROVE  Share(o, a)' = Share(o, a) + e[o][a]
  <2>1. TypeOK /\ o \in Placed /\ order[o].settlement \notin Settled
    BY DEF IInv
  <2>2. /\ order'[o] # NoOrder /\ order'[o].seller = order[o].seller /\ order'[o].total = order[o].total
        /\ order'[o].settlement = settlement
    BY <1>2
  <2>3. /\ order'[o].settlement = "refunded" => Share(o, a)' = Share(o, a) + RefundEntries(o, order[o])[a]
        /\ order'[o].settlement = "released" => Share(o, a)' = Share(o, a) + ReleaseEntries(order[o])[a]
    BY <2>1, <2>2, SharesOfSettlement
  <2>4. e[o] = IF settlement = "refunded" THEN RefundEntries(o, order[o]) ELSE ReleaseEntries(order[o])
    OBVIOUS
  <2>5. CASE settlement = "refunded"
    BY <2>2, <2>3, <2>4, <2>5
  <2>6. CASE settlement = "released"
    BY <2>2, <2>3, <2>4, <2>6
  <2> QED
    BY <2>5, <2>6 DEF Settled
<1>4. \A p \in Orders \ S : order'[p] = order[p]
  OBVIOUS
<1>5. S \in SUBSET Orders
  BY DEF Placed
<1> QED
  BY <1>3, <1>4, <1>5, ShareOfBatch DEF IInv

LEMMA CompleteShares ==
  ASSUME IInv, TypeOK', SharesAddUp, NEW S \in SUBSET Orders, NEW source \in DecisionSource,
         \A o \in S : SettlementOf(o) = "refund_requested", CompleteRefundSettlement(S, source)
  PROVE  SharesAddUp'
<1> DEFINE kind == "REFUND_SETTLEMENT"
           e == [o \in S |-> RefundEntries(o, order[o])]
<1>1. \A o \in S : /\ o \in Placed /\ order[o] \in OrderRows
                   /\ order[o].settlement \notin Settled /\ ~Done(kind, o)
  BY DEF IInv, TypeOK, SettlementOf, Placed, OrderOK, SettledOnceFor, Settled
<1>2. e \in [S -> Entries]
  BY <1>1, OrderEntriesType DEF OrderRows
<1>3. /\ kind \in OperationKinds /\ ApplyToOrders(kind, S, e) /\ "refunded" \in Settled
      /\ order' = [o \in Orders |-> IF o \in S THEN [order[o] EXCEPT !.settlement = "refunded"] ELSE order[o]]
      /\ \A o \in S : e[o] = RefundEntries(o, order[o])
  BY DEF OperationKinds, CompleteRefundSettlement, Settled
<1>4. S \in SUBSET Placed /\ \A o \in S : operation[<<kind, o>>] = NoOperation
  BY <1>1 DEF Done
<1>5. \A o \in S : /\ order[o].settlement \notin Settled
                   /\ operation[<<kind, o>>] = NoOperation
                   /\ e[o] = IF "refunded" = "refunded" THEN RefundEntries(o, order[o])
                             ELSE ReleaseEntries(order[o])
  BY <1>1, <1>3, <1>4
<1> HIDE DEF kind, e
<1> QED
  BY <1>2, <1>3, <1>4, <1>5, BatchShares

LEMMA ReleaseShares ==
  ASSUME IInv, TypeOK', SharesAddUp, ReleaseDueSellerPoints
  PROVE  SharesAddUp'
<1> DEFINE kind == "ORDER_POINTS_RELEASE"
           due == {o \in Orders : /\ order[o].status = "delivered"
                                  /\ order[o].settlement = "holding"
                                  /\ order[o].return_deadline < now}
<1>1. PICK S \in Batches(due) :
        /\ ApplyToOrders(kind, S, [o \in S |-> ReleaseEntries(order[o])])
        /\ order' = [o \in Orders |-> IF o \in S
                       THEN [order[o] EXCEPT !.settlement = "released"] ELSE order[o]]
  BY DEF ReleaseDueSellerPoints
<1> DEFINE e == [o \in S |-> ReleaseEntries(order[o])]
<1>2. S \subseteq due
  BY DEF Batches
<1>3. \A o \in S : /\ o \in Orders /\ o \in Placed /\ order[o] \in OrderRows
                   /\ order[o].settlement \notin Settled /\ ~Done(kind, o)
  <2> SUFFICES ASSUME NEW o \in S
               PROVE  /\ o \in Orders /\ o \in Placed /\ order[o] \in OrderRows
                      /\ order[o].settlement \notin Settled /\ ~Done(kind, o)
    OBVIOUS
  <2>1. o \in Orders /\ o \in Placed /\ order[o] \in OrderRows /\ order[o].settlement = "holding"
    BY <1>2, PlacedRow DEF IInv, OrderStatus
  <2> QED
    BY <2>1 DEF IInv, OrderOK, SettledOnceFor, SettlementOf, Settled
<1>4. e \in [S -> Entries]
  BY <1>3, OrderEntriesType DEF OrderRows
<1>5. /\ kind \in OperationKinds /\ "released" \in Settled /\ \A o \in S : e[o] = ReleaseEntries(order[o])
      /\ ApplyToOrders(kind, S, e)
  BY <1>1 DEF OperationKinds, Settled
<1>6. S \in SUBSET Placed /\ \A o \in S : operation[<<kind, o>>] = NoOperation
  BY <1>3 DEF Done
<1>7. \A o \in S : /\ order[o].settlement \notin Settled
                   /\ operation[<<kind, o>>] = NoOperation
                   /\ e[o] = IF "released" = "refunded" THEN RefundEntries(o, order[o])
                             ELSE ReleaseEntries(order[o])
  BY <1>3, <1>5, <1>6
<1> HIDE DEF kind, e, due
<1> QED
  BY <1>1, <1>4, <1>5, <1>6, <1>7, BatchShares

\* A reward adds to its owner's account what RewardOn says.
LEMMA RewardShares ==
  ASSUME IInv, TypeOK', SharesAddUp, NEW u \in Users, AddRewardProof(u)
  PROVE  SharesAddUp'
<1> DEFINE key == <<"REWARD_PROOF", u>>
<1>1. key \in Keys /\ \A v \in Users : <<"REWARD_PROOF", v>> \in Keys
  BY OrderAssumption DEF OrderKeys
<1>2. ApplyOperation(key, Credit(Available(u), RewardCoin)) /\ order' = order
  BY DEF AddRewardProof, orderVars
<1>3. CASE operation[key] # NoOperation
  <2>1. UNCHANGED ledgerVars
    BY <1>2, <1>3 DEF ApplyOperation
  <2> QED
    BY <1>2, <2>1, SameRow, SameShares DEF IInv
<1>4. CASE operation[key] = NoOperation
  <2>1. /\ Post(Credit(Available(u), RewardCoin))
        /\ operation' = [operation EXCEPT ![key] = Completed(Credit(Available(u), RewardCoin))]
    BY <1>2, <1>4 DEF ApplyOperation
  <2>2. ~Done("REWARD_PROOF", u) /\ Done("REWARD_PROOF", u)'
    BY <1>1, <1>4, <2>1, CompletedIsRecorded DEF Done, IInv, TypeOK, LedgerTypeOK
  <2>3. \A v \in Users \ {u} : Done("REWARD_PROOF", v)' = Done("REWARD_PROOF", v)
    BY <1>1, <2>1 DEF Done, IInv, TypeOK, LedgerTypeOK
  <2>4. ASSUME NEW a \in Accounts
        PROVE  balance'[a] = RewardOn(a)' + SumOver([o \in Orders |-> Share(o, a)'], Orders)
    <3> DEFINE f == [o \in Orders |-> Share(o, a)]
    <3>1. [o \in Orders |-> Share(o, a)'] = f
      BY <1>2, SameRow
    <3>2. SumOver(f, Orders) \in Int
      <4>1. \A o \in Orders : f[o] \in Int
        BY ShareType DEF IInv
      <4> HIDE DEF f
      <4> QED
        BY <4>1, SumIsInt, OrderAssumption
    <3>3. a[1] \in Users /\ a[2] \in Buckets /\ a = <<a[1], a[2]>>
      BY DEF Accounts
    <3>4. RewardCoin \in Nat /\ balance[a] = RewardOn(a) + SumOver(f, Orders)
      BY OrderAssumption DEF SharesAddUp
    <3> HIDE DEF f
    <3>5. CASE a = Available(u)
      <4>1. a[1] = u /\ a[2] = "available"
        BY <3>5 DEF Available
      <4>2. RewardOn(a) = 0 /\ RewardOn(a)' = RewardCoin
        BY <2>2, <4>1 DEF RewardOn, Rewarded
      <4>3. balance'[a] = balance[a] + RewardCoin
        BY <2>1, <3>5 DEF Post, Credit
      <4> QED
        BY <3>1, <3>2, <3>4, <4>2, <4>3
    <3>6. CASE a # Available(u)
      <4>1. RewardOn(a)' = RewardOn(a) /\ RewardOn(a) \in Int
        BY <2>3, <3>3, <3>4, <3>6 DEF RewardOn, Rewarded, Available
      <4>2. balance'[a] = balance[a] + 0
        BY <2>1, <3>6 DEF Post, Credit
      <4> QED
        BY <3>1, <3>2, <3>4, <4>1, <4>2
    <3> QED
      BY <3>5, <3>6
  <2> QED
    BY <2>4 DEF SharesAddUp
<1> QED
  BY <1>3, <1>4

\* A step on one order that settles nothing posts nothing.
LEMMA QuietShares ==
  ASSUME IInv, TypeOK', SharesAddUp, UNCHANGED ledgerVars, NEW o \in Placed,
         order'[o] # NoOrder, order'[o].seller = order[o].seller, order'[o].total = order[o].total,
         order[o].settlement \notin Settled, order'[o].settlement \notin Settled,
         \A p \in Orders \ {o} : order'[p] = order[p]
  PROVE  SharesAddUp'
<1>1. \A a \in Accounts : Share(o, a)' = Share(o, a)
  BY SharesOfSettlement DEF IInv
<1>2. \A p \in Orders, a \in Accounts : Share(p, a)' = Share(p, a)
  BY <1>1, SameRow
<1> QED
  BY <1>2, SameShares DEF IInv

LEMMA NextKeepsShares == IInv /\ SharesAddUp /\ [Next]_vars => SharesAddUp'
<1> SUFFICES ASSUME IInv, SharesAddUp, [Next]_vars
             PROVE  SharesAddUp'
  OBVIOUS
<1>0. TypeOK'
  BY NextKeepsIInv DEF IInv
<1>1. ASSUME NEW o \in Orders, NEW from \in {"pending_confirmation", "confirmed", "shipping"},
             NEW row \in OrderRows, row.settlement = order[o].settlement,
             row.seller = order[o].seller, row.total = order[o].total, Advance(o, from, row)
      PROVE  SharesAddUp'
  <2>1. order[o] \in OrderRows /\ o \in Placed /\ row # NoOrder
    BY <1>1, PlacedRow DEF IInv, OrderStatus, Advance, OrderRows, NoOrder
  <2>2. order[o].settlement = "holding"
    BY <1>1, <2>1 DEF IInv, OrderOK, SettlementFollows, SettlementOf, Advance
  <2>3. order'[o] = row /\ \A p \in Orders \ {o} : order'[p] = order[p]
    BY <1>1 DEF Advance, IInv, TypeOK
  <2>4. UNCHANGED ledgerVars
    BY <1>1 DEF Advance
  <2> QED
    BY <1>0, <1>1, <2>1, <2>2, <2>3, <2>4, QuietShares DEF Settled
<1>2. ASSUME NEW o \in Placed, NEW settlement \in {"holding", "refund_requested"},
             order[o].settlement \notin Settled, UNCHANGED ledgerVars,
             order' = [order EXCEPT ![o].settlement = settlement]
      PROVE  SharesAddUp'
  <2>1. order[o] \in OrderRows /\ o \in Orders
    BY <1>2 DEF IInv, TypeOK, Placed
  <2>2. /\ order'[o].seller = order[o].seller /\ order'[o].total = order[o].total
        /\ order'[o].settlement = settlement /\ order'[o] # NoOrder
        /\ \A p \in Orders \ {o} : order'[p] = order[p]
    BY <1>2, <2>1 DEF Placed, NoOrder, OrderRows, IInv, TypeOK
  <2> QED
    BY <1>0, <1>2, <2>2, QuietShares DEF Settled
<1>3. ASSUME NEW o \in Orders, RefundOrder(o)
      PROVE  SharesAddUp'
  <2>1. o \in Placed /\ order[o] \in OrderRows
    BY <1>3, PlacedRow DEF IInv, OrderStatus, RefundOrder
  <2>2. order[o].settlement \notin Settled
    <3>1. SettlementOf(o) # "released"
      BY <1>3, <2>1 DEF IInv, OrderOK, SettlementFollows, RefundOrder, TypeOK, OrderRows,
                        OrderAssumption
    <3>2. SettlementOf(o) # "refunded"
      BY <1>3 DEF IInv, OrderOK, RefundFollows, RefundOrder, NoRefund
    <3> QED
      BY <2>1, <3>1, <3>2 DEF SettlementOf, Settled
  <2> QED
    BY <1>2, <1>3, <2>1, <2>2 DEF RefundOrder
<1>4. ASSUME NEW o \in Orders, order[o].status = "delivered",
             order[o].settlement = "refund_requested", RejectRefund(o)
      PROVE  SharesAddUp'
  <2>1. o \in Placed
    BY <1>4, PlacedRow DEF IInv, OrderStatus
  <2> QED
    BY <1>2, <1>4, <2>1 DEF RejectRefund, Settled
<1>5. ASSUME UNCHANGED <<ledgerVars, orderVars>>
      PROVE  SharesAddUp'
  BY <1>0, <1>5, SameRow, SameShares DEF orderVars, IInv
<1> QED
  BY <1>0, <1>1, <1>3, <1>4, <1>5, NextCases, CreateShares, CancelShares, CompleteShares,
     ReleaseShares, RewardShares

\* The balance of every account is what its owner's orders and reward make it:
\* pending points are exactly the prices of the seller's unsettled orders, and
\* available points the reward, less what was paid and not refunded, plus what
\* was released.  No settlement ever finds too little pending.
THEOREM WalletsTellTheOrders == Spec => []WalletsFollowOrders
<1>1. Init => SharesAddUp
  <2> SUFFICES ASSUME Init, NEW a \in Accounts
               PROVE  balance[a] = RewardOn(a) + SumOver([o \in Orders |-> Share(o, a)], Orders)
    BY DEF SharesAddUp
  <2> DEFINE f == [o \in Orders |-> Share(o, a)]
  <2>1. \A o \in Orders : f[o] = 0
    BY DEF Init, Share, Placed
  <2>2. SumOver(f, Orders) = 0
    <3> HIDE DEF f
    <3> QED
      BY <2>1, SumOfZeros, OrderAssumption
  <2>3. RewardOn(a) = 0
    <3>1. \A u \in Users : ~Done("REWARD_PROOF", u)
      BY OrderAssumption DEF Init, LedgerInit, Done, OrderKeys
    <3>2. a[1] \in Users
      BY DEF Accounts
    <3> QED
      BY <3>1, <3>2 DEF RewardOn, Rewarded
  <2>4. balance[a] = 0
    BY DEF Init, LedgerInit
  <2> QED
    BY <2>2, <2>3, <2>4
<1>2. IInv /\ SharesAddUp => WalletsFollowOrders
  <2> SUFFICES ASSUME TypeOK, SharesAddUp, NEW u \in Users
               PROVE  /\ balance[Pending(u)] = TotalOf(HeldFor(u))
                      /\ balance[Available(u)] = Rewarded(u) - TotalOf(PaidBy(u)) + TotalOf(ReleasedTo(u))
    BY DEF IInv, WalletsFollowOrders, PendingIsHeld, AvailableIsEarned
  <2> DEFINE part(S) == [o \in Orders |-> IF o \in S THEN order[o].total ELSE 0]
  <2>1. ASSUME NEW S \in SUBSET Placed
        PROVE  /\ TotalOf(S) = SumOver(part(S), Orders)
               /\ TotalOf(S) \in Int
               /\ \A o \in Orders : part(S)[o] \in Int
    <3> DEFINE f == [o \in S |-> order[o].total]
    <3>1. S \subseteq Orders /\ \A o \in S : f[o] \in Int
      BY DEF Placed, TypeOK, OrderRows
    <3>2. part(S) = [o \in Orders |-> IF o \in S THEN f[o] ELSE 0]
      OBVIOUS
    <3>3. SumOver(f, S) = SumOver([o \in Orders |-> IF o \in S THEN f[o] ELSE 0], Orders)
      <4> HIDE DEF f
      <4> QED
        BY <3>1, SumOfPart, OrderAssumption
    <3>4. SumOver(f, S) \in Int
      <4>1. IsFiniteSet(S)
        BY <3>1, FS_Subset, OrderAssumption
      <4> HIDE DEF f
      <4> QED
        BY <3>1, <4>1, SumIsInt
    <3>5. \A o \in Orders : part(S)[o] \in Int
      BY <3>1
    <3> QED
      BY <3>2, <3>3, <3>4, <3>5 DEF TotalOf
  <2>2. Pending(u) \in Accounts /\ Available(u) \in Accounts
    BY AccountTypes
  <2>3. RewardOn(Pending(u)) = 0 /\ RewardOn(Available(u)) = Rewarded(u) /\ Rewarded(u) \in Int
    BY OrderAssumption DEF RewardOn, Pending, Available, Rewarded
  <2>4. \A v : Pending(u) # Available(v) /\ (Pending(u) = Pending(v) <=> u = v)
                /\ Available(u) # Pending(v) /\ (Available(u) = Available(v) <=> u = v)
    BY DEF Pending, Available
  <2>5. HeldFor(u) \in SUBSET Placed /\ PaidBy(u) \in SUBSET Placed /\ ReleasedTo(u) \in SUBSET Placed
    BY DEF HeldFor, PaidBy, ReleasedTo
  <2>6. \A o \in Placed : order[o].total \in Int
    BY DEF Placed, TypeOK, OrderRows
  <2>7. [o \in Orders |-> Share(o, Pending(u))] = part(HeldFor(u))
    <3> SUFFICES ASSUME NEW o \in Orders
                 PROVE  Share(o, Pending(u)) = IF o \in HeldFor(u) THEN order[o].total ELSE 0
      OBVIOUS
    <3> QED
      BY <2>4, <2>6 DEF Share, HeldFor
  <2>8. ASSUME NEW o \in Orders
        PROVE  part(ReleasedTo(u))[o] = Share(o, Available(u)) + part(PaidBy(u))[o]
    <3>1. Share(o, Available(u)) = IF o \notin Placed THEN 0
            ELSE 0 + (IF o \in ReleasedTo(u) THEN order[o].total ELSE 0)
                   - (IF o \in PaidBy(u) THEN order[o].total ELSE 0)
      BY <2>4 DEF Share, ReleasedTo, PaidBy
    <3> QED
      BY <2>5, <2>6, <3>1
  <2>9. balance[Pending(u)] = TotalOf(HeldFor(u))
    <3>1. balance[Pending(u)] = RewardOn(Pending(u)) + SumOver(part(HeldFor(u)), Orders)
      BY <2>2, <2>7 DEF SharesAddUp
    <3>2. TotalOf(HeldFor(u)) = SumOver(part(HeldFor(u)), Orders) /\ TotalOf(HeldFor(u)) \in Int
      BY <2>1, <2>5
    <3> HIDE DEF part
    <3> QED
      BY <2>3, <3>1, <3>2
  <2>10. balance[Available(u)] = Rewarded(u) - TotalOf(PaidBy(u)) + TotalOf(ReleasedTo(u))
    <3> DEFINE f == [o \in Orders |-> Share(o, Available(u))]
    <3>1. \A o \in Orders : /\ f[o] \in Int /\ part(PaidBy(u))[o] \in Int
                            /\ part(ReleasedTo(u))[o] = f[o] + part(PaidBy(u))[o]
      BY <2>1, <2>5, <2>8, ShareType
    <3>2. balance[Available(u)] = Rewarded(u) + SumOver(f, Orders)
      BY <2>2, <2>3 DEF SharesAddUp
    <3> HIDE DEF f, part
    <3>3. SumOver(part(ReleasedTo(u)), Orders) = SumOver(f, Orders) + SumOver(part(PaidBy(u)), Orders)
      BY <3>1, SumOfSums, OrderAssumption
    <3>4. SumOver(f, Orders) \in Int
      BY <3>1, SumIsInt, OrderAssumption
    <3> QED
      BY <2>1, <2>3, <2>5, <3>2, <3>3, <3>4
  <2> QED
    BY <2>9, <2>10
<1> QED
  BY <1>1, <1>2, NextKeepsShares, IInvHolds, PTL DEF Spec

-----------------------------------------------------------------------------
(***************************************************************************)
(* The escrow.                                                             *)
(***************************************************************************)

\* The escrow's sums are these sums.
LEMMA SameSum ==
  ASSUME NEW f, NEW S
  PROVE  EscrowView!SumOver(f, S) = SumOver(f, S)
BY Zenon DEF SumOver, MapThenSumSet, MapThenFoldSet, EscrowView!SumOver,
             EscrowView!MapThenSumSet, EscrowView!MapThenFoldSet

-----------------------------------------------------------------------------
\* A step that changes neither purses nor deposits is a stutter of the escrow.
LEMMA EscrowStutter ==
  ASSUME UNCHANGED <<Purses, Deposits>>
  PROVE  [EscrowView!EscrowNext]_(EscrowView!escrowVars)
BY DEF Purses, Deposits, EscrowView!escrowVars

\* What the entries of an order mean for a Purses.
LEMMA EntriesOfPurse ==
  ASSUME NEW o \in Orders, NEW row \in OrderRows, NEW u \in Users
  PROVE  /\ BuyerOf[o] # row.seller =>
              PaymentEntries(o, row)[Available(u)] = IF u = BuyerOf[o] THEN -row.total ELSE 0
         /\ RefundEntries(o, row)[Available(u)] = IF u = BuyerOf[o] THEN row.total ELSE 0
         /\ ReleaseEntries(row)[Available(u)] = IF u = row.seller THEN row.total ELSE 0
<1>1. /\ BuyerOf[o] \in Users /\ row.seller \in Users
      /\ Available(u) \in Accounts
  BY OrderAssumption, AccountTypes DEF OrderRows
<1>2. \A v, w \in Users : Available(v) # Pending(w) /\ (Available(v) = Available(w) <=> v = w)
  BY DEF Available, Pending
<1> QED
  BY <1>1, <1>2 DEF PaymentEntries, RefundEntries, ReleaseEntries, Transfer

LEMMA CreateIsHold ==
  ASSUME IInv, NEW o \in Orders, NEW s \in Users, NEW b \in Baskets, NEW t \in Totals,
         CreateOrder(o, s, b, t)
  PROVE  EscrowView!EscrowNext
<1> DEFINE row == [seller |-> s, items |-> b, total |-> t, status |-> "pending_confirmation",
                   settlement |-> "holding", return_deadline |-> 0]
           key == <<"ORDER_PAYMENT", o>>
           buyer == BuyerOf[o]
<1>1. row \in OrderRows /\ t \in Nat \ {0} /\ buyer \in Users /\ s # buyer
  BY OrderAssumption DEF OrderRows, OrderStatus, SettlementStatus, CreateOrder
<1>2. o \notin Placed /\ ~Done("ORDER_PAYMENT", o)
  BY DEF CreateOrder, Placed, IInv, OrderOK, SettledOnceFor
<1>3. Post(PaymentEntries(o, row))
  BY <1>2 DEF CreateOrder, ApplyOperation, Done
<1>4. \A u \in Users : /\ balance'[Available(u)] \in Nat
                       /\ balance[Available(u)] \in Nat
                       /\ balance'[Available(u)] =
                            balance[Available(u)] + PaymentEntries(o, row)[Available(u)]
  BY <1>3, AccountTypes DEF Post, IInv, TypeOK, LedgerTypeOK
<1>5. \A u \in Users : balance'[Available(u)] =
                         IF u = buyer THEN balance[Available(u)] - t ELSE balance[Available(u)]
  <2> SUFFICES ASSUME NEW u \in Users
               PROVE  balance'[Available(u)] =
                        IF u = buyer THEN balance[Available(u)] - t ELSE balance[Available(u)]
    OBVIOUS
  <2>1. PaymentEntries(o, row)[Available(u)] = IF u = buyer THEN -t ELSE 0
    BY <1>1, EntriesOfPurse
  <2> QED
    BY <1>1, <1>4, <2>1
<1>6. t \in 1..Purses[buyer]
  BY <1>1, <1>4, <1>5 DEF Purses
<1>7. Purses' = [Purses EXCEPT ![buyer] = @ - t]
  BY <1>5 DEF Purses
<1>8. Deposits' = [Deposits EXCEPT ![o] = [payee |-> s, amount |-> t, state |-> "held"]]
  <2>1. order' = [order EXCEPT ![o] = row]
    BY DEF CreateOrder
  <2>2. order'[o] = row /\ row # NoOrder
    BY <2>1 DEF IInv, TypeOK, NoOrder
  <2>3. Deposits'[o] = [payee |-> s, amount |-> t, state |-> "held"]
    BY <2>2 DEF Deposits, Placed, Settled
  <2>4. \A p \in Orders \ {o} : Deposits'[p] = Deposits[p]
    BY <2>1 DEF Deposits, Placed, IInv, TypeOK
  <2> QED
    BY <2>3, <2>4 DEF Deposits
<1>9. Deposits[o] = EscrowView!NoDeposit
  BY <1>2 DEF Deposits, EscrowView!NoDeposit
<1>10. EscrowView!Hold(o, s, t)
  BY <1>1, <1>6, <1>7, <1>8, <1>9 DEF EscrowView!Hold, Purses, Deposits
<1> QED
  BY <1>6, <1>10 DEF EscrowView!EscrowNext, Purses


\* A cancellation disposes of one deposit: its refund key has never been used.
LEMMA CancelIsDispose ==
  ASSUME IInv, NEW o \in Orders, order[o].status \in {"pending_confirmation", "confirmed"},
         NEW kind \in {"ORDER_REFUND:CANCEL", "ORDER_REFUND:SELLER_REJECT"},
         CancelAndRefund(o, kind)
  PROVE  EscrowView!EscrowNext
<1> DEFINE row == order[o]
           buyer == BuyerOf[o]
<1>1. row \in OrderRows /\ o \in Placed /\ buyer \in Users
  BY PlacedRow, OrderAssumption DEF IInv, OrderStatus
<1>2. row.settlement = "holding" /\ ~Done(kind, o)
  BY <1>1 DEF IInv, OrderOK, SettledOnceFor, SettlementFollows, SettlementOf
<1>3. Post(RefundEntries(o, row))
  BY <1>2 DEF CancelAndRefund, ApplyOperation, Done
<1>4. \A u \in Users : Purses'[u] = Purses[u] + (IF u = buyer THEN row.total ELSE 0)
  BY <1>1, <1>3, AccountTypes, EntriesOfPurse DEF Post, Purses
<1>5. Deposits[o].state = "held" /\ Deposits[o].amount = row.total
  BY <1>1, <1>2 DEF Deposits, Settled
<1>6. ASSUME NEW u \in Users
      PROVE  SumOver([p \in {o} |-> IF u = buyer THEN Deposits[p].amount ELSE 0], {o})
               = IF u = buyer THEN row.total ELSE 0
  <2> DEFINE f == [p \in {o} |-> IF u = buyer THEN Deposits[p].amount ELSE 0]
  <2>1. f[o] = (IF u = buyer THEN row.total ELSE 0) /\ f[o] \in Int
    BY <1>1, <1>5 DEF OrderRows
  <2> HIDE DEF f
  <2>2. SumOver(f, {o}) = f[o]
    BY <2>1, SumOfOne
  <2> QED
    BY <2>1, <2>2 DEF f
<1>7. order' = [order EXCEPT ![o] = [@ EXCEPT !.status = "cancelled", !.settlement = "refunded"]]
  BY DEF CancelAndRefund, IInv, TypeOK
<1>8. Deposits' = [p \in Orders |-> IF p \in {o} THEN [Deposits[p] EXCEPT !.state = "refunded"]
                                                ELSE Deposits[p]]
  <2>1. Deposits'[o] = [Deposits[o] EXCEPT !.state = "refunded"]
    <3>1. /\ order'[o].seller = row.seller /\ order'[o].total = row.total
          /\ order'[o].settlement = "refunded" /\ (o \in Placed)'
      BY <1>1, <1>7 DEF Placed, NoOrder, OrderRows, IInv, TypeOK
    <3>2. Deposits[o] = [payee |-> row.seller, amount |-> row.total, state |-> "held"]
      BY <1>1, <1>2 DEF Deposits, Settled
    <3>3. Deposits'[o] = [payee |-> row.seller, amount |-> row.total, state |-> "refunded"]
      BY <3>1 DEF Deposits, Settled
    <3> QED
      BY <3>2, <3>3
  <2>2. \A p \in Orders \ {o} : Deposits'[p] = Deposits[p]
    BY <1>7 DEF Deposits, Placed, IInv, TypeOK
  <2> QED
    BY <2>1, <2>2 DEF Deposits
<1>9. Purses' = [u \in Users |->
        Purses[u] + SumOver([p \in {o} |-> IF u = EscrowView!Receiver(p, "refunded")
                                          THEN Deposits[p].amount ELSE 0], {o})]
  <2>1. \A u \in Users :
          [p \in {o} |-> IF u = EscrowView!Receiver(p, "refunded") THEN Deposits[p].amount ELSE 0]
            = [p \in {o} |-> IF u = buyer THEN Deposits[p].amount ELSE 0]
    BY DEF EscrowView!Receiver
  <2> QED
    BY <1>4, <1>6, <2>1 DEF Purses
<1>10. EscrowView!Dispose({o}, "refunded")
  BY <1>5, <1>8, <1>9, SameSum DEF EscrowView!Dispose
<1> QED
  BY <1>10 DEF EscrowView!EscrowNext

\* A batch disposes of the deposits of its orders, all in the same way.
LEMMA BatchIsDispose ==
  ASSUME IInv, NEW S \in SUBSET Orders, NEW state \in {"released", "refunded"},
         NEW kind \in OperationKinds, NEW entries \in [S -> Entries],
         ApplyToOrders(kind, S, entries),
         \A o \in S : /\ o \in Placed /\ order[o].settlement \notin Settled
                      /\ operation[<<kind, o>>] = NoOperation,
         \A o \in S, u \in Users :
           entries[o][Available(u)] =
             IF u = EscrowView!Receiver(o, state) THEN order[o].total ELSE 0,
         order' = [o \in Orders |-> IF o \in S
                     THEN [order[o] EXCEPT !.settlement = state] ELSE order[o]]
  PROVE  EscrowView!EscrowNext
<1>1. S = {o \in S : operation[<<kind, o>>] = NoOperation}
  OBVIOUS
<1>2. Post([a \in Accounts |-> SumOver([o \in S |-> entries[o][a]], S)])
  BY <1>1 DEF ApplyToOrders
<1>3. \A o \in S : Deposits[o].state = "held" /\ Deposits[o].amount = order[o].total
  BY DEF Deposits
<1>4. \A u \in Users :
        [o \in S |-> entries[o][Available(u)]] =
        [o \in S |-> IF u = EscrowView!Receiver(o, state) THEN Deposits[o].amount ELSE 0]
  BY <1>3
<1>5. \A u \in Users : Purses'[u] = Purses[u] + SumOver([o \in S |-> entries[o][Available(u)]], S)
  BY <1>2, AccountTypes DEF Post, Purses
<1>6. Purses' = [u \in Users |->
        Purses[u] + SumOver([o \in S |-> IF u = EscrowView!Receiver(o, state)
                                        THEN Deposits[o].amount ELSE 0], S)]
  BY <1>4, <1>5 DEF Purses
<1>7. Deposits' = [o \in Orders |-> IF o \in S THEN [Deposits[o] EXCEPT !.state = state]
                                               ELSE Deposits[o]]
  <2>1. ASSUME NEW o \in S
        PROVE  Deposits'[o] = [Deposits[o] EXCEPT !.state = state]
    <3>1. order[o] \in OrderRows
      BY DEF Placed, IInv, TypeOK
    <3>2. /\ order'[o].seller = order[o].seller /\ order'[o].total = order[o].total
          /\ order'[o].settlement = state /\ (o \in Placed)'
      BY <3>1 DEF Placed, NoOrder, OrderRows
    <3>3. Deposits[o] = [payee |-> order[o].seller, amount |-> order[o].total, state |-> "held"]
      BY DEF Deposits
    <3>4. Deposits'[o] = [payee |-> order[o].seller, amount |-> order[o].total, state |-> state]
      BY <3>2 DEF Deposits, Settled
    <3> QED
      BY <3>3, <3>4
  <2>2. \A p \in Orders \ S : Deposits'[p] = Deposits[p]
    BY DEF Deposits, Placed
  <2>3. \A p \in Orders :
          Deposits'[p] = IF p \in S THEN [Deposits[p] EXCEPT !.state = state] ELSE Deposits[p]
    BY <2>1, <2>2
  <2>4. Deposits' = [p \in Orders |-> Deposits'[p]]
    BY DEF Deposits
  <2> QED
    BY <2>3, <2>4
<1>8. EscrowView!Dispose(S, state)
  BY <1>3, <1>6, <1>7, SameSum DEF EscrowView!Dispose
<1> QED
  BY <1>8 DEF EscrowView!EscrowNext


LEMMA CompleteIsDispose ==
  ASSUME IInv, NEW S \in SUBSET Orders, NEW source \in DecisionSource,
         \A o \in S : SettlementOf(o) = "refund_requested",
         CompleteRefundSettlement(S, source)
  PROVE  EscrowView!EscrowNext
<1> DEFINE kind == "REFUND_SETTLEMENT"
           entries == [o \in S |-> RefundEntries(o, order[o])]
<1>1. \A o \in S : /\ o \in Placed /\ order[o] \in OrderRows
                   /\ order[o].settlement = "refund_requested"
  BY DEF IInv, TypeOK, SettlementOf, Placed
<1>2. entries \in [S -> Entries]
  BY <1>1, OrderEntriesType DEF OrderRows
<1>3. \A o \in S : operation[<<kind, o>>] = NoOperation
  BY <1>1 DEF IInv, OrderOK, SettledOnceFor, Done
<1>4. \A o \in S, u \in Users :
        entries[o][Available(u)] =
          IF u = EscrowView!Receiver(o, "refunded") THEN order[o].total ELSE 0
  BY <1>1, EntriesOfPurse DEF EscrowView!Receiver
<1>5. kind \in OperationKinds /\ ApplyToOrders(kind, S, entries)
  BY DEF OperationKinds, CompleteRefundSettlement
<1>6. order' = [o \in Orders |-> IF o \in S THEN [order[o] EXCEPT !.settlement = "refunded"]
                                           ELSE order[o]]
  BY DEF CompleteRefundSettlement
<1>7. \A o \in S : order[o].settlement \notin Settled
  BY <1>1 DEF Settled
<1> HIDE DEF kind, entries
<1> QED
  BY <1>1, <1>2, <1>3, <1>4, <1>5, <1>6, <1>7, BatchIsDispose

LEMMA ReleaseIsDispose ==
  ASSUME IInv, ReleaseDueSellerPoints
  PROVE  EscrowView!EscrowNext
<1> DEFINE kind == "ORDER_POINTS_RELEASE"
           due == {o \in Orders : /\ order[o].status = "delivered"
                                  /\ order[o].settlement = "holding"
                                  /\ order[o].return_deadline < now}
           entries(S) == [o \in S |-> ReleaseEntries(order[o])]
<1>1. PICK S \in Batches(due) :
        /\ ApplyToOrders(kind, S, entries(S))
        /\ order' = [o \in Orders |-> IF o \in S
                       THEN [order[o] EXCEPT !.settlement = "released"] ELSE order[o]]
  BY DEF ReleaseDueSellerPoints
<1>2. S \subseteq due
  BY DEF Batches
<1>3. \A o \in S : /\ o \in Placed /\ order[o] \in OrderRows
                   /\ order[o].settlement = "holding" /\ SettlementOf(o) = "holding"
  BY <1>2, PlacedRow DEF IInv, OrderStatus, SettlementOf
<1>4. entries(S) \in [S -> Entries]
  BY <1>2, <1>3, OrderEntriesType DEF OrderRows
<1>5. \A o \in S : operation[<<kind, o>>] = NoOperation
  BY <1>2, <1>3 DEF IInv, OrderOK, SettledOnceFor, Done
<1>6. \A o \in S, u \in Users :
        entries(S)[o][Available(u)] =
          IF u = EscrowView!Receiver(o, "released") THEN order[o].total ELSE 0
  <2> SUFFICES ASSUME NEW o \in S, NEW u \in Users
               PROVE  ReleaseEntries(order[o])[Available(u)] =
                        IF u = EscrowView!Receiver(o, "released") THEN order[o].total ELSE 0
    OBVIOUS
  <2>1. EscrowView!Receiver(o, "released") = order[o].seller
    BY <1>2, <1>3 DEF EscrowView!Receiver, Deposits
  <2> QED
    BY <1>2, <1>3, <2>1, EntriesOfPurse
<1>7. kind \in OperationKinds /\ S \in SUBSET Orders /\ \A o \in S : order[o].settlement \notin Settled
  BY <1>2 DEF OperationKinds, Settled
<1> HIDE DEF kind, entries, due
<1> QED
  BY <1>1, <1>3, <1>4, <1>5, <1>6, <1>7, BatchIsDispose

\* A reward either fills a purse or was recorded before.
LEMMA RewardIsReward ==
  ASSUME IInv, NEW u \in Users, AddRewardProof(u)
  PROVE  [EscrowView!EscrowNext]_(EscrowView!escrowVars)
<1>1. Deposits' = Deposits
  BY DEF AddRewardProof, orderVars, Deposits, Placed
<1>2. CASE operation[<<"REWARD_PROOF", u>>] = NoOperation
  <2>1. Post(Credit(Available(u), RewardCoin))
    BY <1>2 DEF AddRewardProof, ApplyOperation
  <2>2. \A v \in Users : Purses'[v] = IF v = u THEN Purses[v] + RewardCoin ELSE Purses[v]
    <3>1. \A v \in Users : Available(v) = Available(u) <=> v = u
      BY DEF Available
    <3> QED
      BY <2>1, <3>1, AccountTypes, OrderAssumption DEF Post, Credit, Purses, IInv, TypeOK, LedgerTypeOK
  <2>3. EscrowView!Reward(u)
    BY <1>1, <2>2 DEF EscrowView!Reward, Purses
  <2> QED
    BY <2>3 DEF EscrowView!EscrowNext
<1>3. CASE operation[<<"REWARD_PROOF", u>>] # NoOperation
  BY <1>1, <1>3, EscrowStutter DEF AddRewardProof, ApplyOperation, ledgerVars, Purses
<1> QED
  BY <1>2, <1>3

-----------------------------------------------------------------------------
\* Only placing an order, settling orders and rewards move points; every other
\* step changes neither what users can spend nor what is held.
LEMMA StepIsEscrowStep ==
  ASSUME IInv, [Next]_vars
  PROVE  [EscrowView!EscrowNext]_(EscrowView!escrowVars)
<1>1. ASSUME NEW o \in Orders, NEW from \in {"pending_confirmation", "confirmed", "shipping"},
             NEW row \in OrderRows, row.settlement = order[o].settlement,
             row.seller = order[o].seller, row.total = order[o].total, Advance(o, from, row)
      PROVE  UNCHANGED <<Purses, Deposits>>
  <2>1. order[o] \in OrderRows /\ o \in Placed /\ row # NoOrder
    BY <1>1, PlacedRow DEF IInv, OrderStatus, Advance, OrderRows, NoOrder
  <2>2. Deposits'[o] = Deposits[o]
    BY <1>1, <2>1 DEF Advance, Deposits, Placed, IInv, TypeOK
  <2>3. \A p \in Orders \ {o} : Deposits'[p] = Deposits[p]
    BY <1>1 DEF Advance, Deposits, Placed, IInv, TypeOK
  <2> QED
    BY <1>1, <2>2, <2>3 DEF Advance, ledgerVars, Purses, Deposits
<1>2. ASSUME NEW o \in Orders, NEW settlement \in {"holding", "refund_requested"},
             order[o].settlement \notin Settled, o \in Placed, balance' = balance,
             order' = [order EXCEPT ![o].settlement = settlement]
      PROVE  UNCHANGED <<Purses, Deposits>>
  <2>1. order[o] \in OrderRows
    BY <1>2 DEF IInv, TypeOK, Placed
  <2>2. /\ order'[o].seller = order[o].seller /\ order'[o].total = order[o].total
        /\ order'[o].settlement = settlement /\ (o \in Placed)'
    BY <1>2, <2>1 DEF Placed, NoOrder, OrderRows, IInv, TypeOK
  <2>3. Deposits'[o] = Deposits[o]
    BY <1>2, <2>2 DEF Deposits, Settled
  <2>4. \A p \in Orders \ {o} : Deposits'[p] = Deposits[p]
    BY <1>2 DEF Deposits, Placed, IInv, TypeOK
  <2> QED
    BY <1>2, <2>3, <2>4 DEF Purses, Deposits
<1>3. ASSUME NEW o \in Orders, RefundOrder(o)
      PROVE  UNCHANGED <<Purses, Deposits>>
  <2>1. o \in Placed /\ order[o] \in OrderRows
    BY <1>3, PlacedRow DEF IInv, OrderStatus, RefundOrder
  <2>3. order[o].settlement \notin Settled
    <3>1. SettlementOf(o) # "released"
      BY <1>3, <2>1 DEF IInv, OrderOK, SettlementFollows, RefundOrder, TypeOK, OrderRows,
                        OrderAssumption
    <3>2. SettlementOf(o) # "refunded"
      BY <1>3 DEF IInv, OrderOK, RefundFollows, RefundOrder, NoRefund
    <3> QED
      BY <2>1, <3>1, <3>2 DEF SettlementOf, Settled
  <2> QED
    BY <1>2, <1>3, <2>1, <2>3 DEF RefundOrder, ledgerVars
<1>4. ASSUME NEW o \in Orders, order[o].status = "delivered",
             order[o].settlement = "refund_requested", RejectRefund(o)
      PROVE  UNCHANGED <<Purses, Deposits>>
  <2>1. o \in Placed
    BY <1>4, PlacedRow DEF IInv, OrderStatus
  <2> QED
    BY <1>2, <1>4, <2>1 DEF RejectRefund, ledgerVars, Settled
<1>5. ASSUME UNCHANGED <<ledgerVars, orderVars>>
      PROVE  UNCHANGED <<Purses, Deposits>>
  BY <1>5 DEF ledgerVars, orderVars, Purses, Deposits, Placed
<1> QED
  BY <1>1, <1>3, <1>4, <1>5, NextCases, EscrowStutter, CreateIsHold, CancelIsDispose,
     CompleteIsDispose, ReleaseIsDispose, RewardIsReward

\* Orders, refunds, workers and wallets together keep the escrow's promise: the
\* points of an order leave the buyer's purse once, and go once, in full, to the
\* seller or back to the buyer.
THEOREM OrdersImplementEscrow == Spec => ImplementsEscrow
<1>1. Init => EscrowView!EscrowInit
  <2> SUFFICES ASSUME Init PROVE EscrowView!EscrowInit
    OBVIOUS
  <2>1. Purses \in [Users -> Nat]
    BY AccountTypes DEF Init, LedgerInit, Purses
  <2>2. Deposits = [o \in Orders |-> EscrowView!NoDeposit]
    BY DEF Init, Deposits, Placed, EscrowView!NoDeposit
  <2> QED
    BY <2>1, <2>2 DEF EscrowView!EscrowInit
<1>2. IInv /\ [Next]_vars => [EscrowView!EscrowNext]_(EscrowView!escrowVars)
  BY StepIsEscrowStep
<1> QED
  BY <1>1, <1>2, IInvHolds, PTL DEF Spec, ImplementsEscrow, EscrowView!EscrowSpec

-----------------------------------------------------------------------------
\* Stock and orders as an inventory.
LEMMA SameBasket ==
  ASSUME NEW o \in Orders, SameTraces(o)
  PROVE  BasketOf(o)' = BasketOf(o)
BY SameTaken DEF SameTraces, BasketOf

LEMMA InventoryStutter ==
  ASSUME NoTraces
  PROVE  UNCHANGED InventoryView!inventoryVars
<1>1. [o \in Orders |-> BasketOf(o)'] = [o \in Orders |-> BasketOf(o)]
  BY SameBasket DEF NoTraces
<1> QED
  BY <1>1 DEF NoTraces, InventoryView!inventoryVars

\* A handler that changes the row of one order changes one basket.
LEMMA OneBasket ==
  ASSUME NEW o \in Orders, \A p \in Orders \ {o} : order'[p] = order[p]
  PROVE  [p \in Orders |-> BasketOf(p)'] = [[p \in Orders |-> BasketOf(p)] EXCEPT ![o] = BasketOf(o)']
<1>1. ASSUME NEW p \in Orders \ {o}
      PROVE  BasketOf(p)' = BasketOf(p)
  BY <1>1 DEF BasketOf, Placed
<1> QED
  BY <1>1

\* createOrder takes the quantities it asks for out of what is there.
LEMMA CreateIsTake ==
  ASSUME IInv, NEW o \in Orders, NEW s \in Users, NEW b \in Baskets, NEW t \in Totals,
         CreateOrder(o, s, b, t)
  PROVE  InventoryView!Take(o, b)
<1> DEFINE row == [seller |-> s, items |-> b, total |-> t, status |-> "pending_confirmation",
                   settlement |-> "holding", return_deadline |-> 0]
<1>1. /\ order' = [order EXCEPT ![o] = row] /\ order[o] = NoOrder
      /\ stock' = [v \in Variants |-> stock[v] - b[v]]
      /\ \A v \in Contains(b) : b[v] <= stock[v]
  BY DEF CreateOrder
<1>2. /\ order'[o] = row /\ row # NoOrder
      /\ \A p \in Orders \ {o} : order'[p] = order[p]
  BY <1>1 DEF IInv, TypeOK, NoOrder
<1>3. BasketOf(o) = InventoryView!NoBasket
  BY <1>1 DEF BasketOf, Placed, InventoryView!NoBasket
<1>4. BasketOf(o)' = InventoryView!Taken(b)
  BY <1>2 DEF BasketOf, Placed, InventoryView!Taken
<1>5. ASSUME NEW v \in Variants
      PROVE  b[v] <= stock[v]
  <2>1. b[v] \in Nat /\ stock[v] \in Nat
    BY OrderAssumption DEF IInv, TypeOK
  <2> QED
    BY <1>1, <2>1 DEF Contains
<1>6. [p \in Orders |-> BasketOf(p)'] = [[p \in Orders |-> BasketOf(p)] EXCEPT ![o] = BasketOf(o)']
  BY <1>2, OneBasket
<1> QED
  BY <1>1, <1>3, <1>4, <1>5, <1>6 DEF InventoryView!Take

\* cancelOrder and rejectBuyer give back what the order took, all of it: that its
\* movements say so (moved) is what TracesInv adds.
LEMMA CancelIsGiveBack ==
  ASSUME IInv, TracesInv, NEW o \in Orders, order[o].status \in {"pending_confirmation", "confirmed"},
         NEW kind, CancelAndRefund(o, kind)
  PROVE  InventoryView!GiveBack(o, {})
<1>1. order[o] \in OrderRows /\ o \in Placed
  BY PlacedRow DEF IInv, OrderStatus
<1>2. moved[o] = "deducted"
  BY <1>1 DEF TracesInv, TakenAddsUp
<1>3. /\ order' = [order EXCEPT ![o] = [@ EXCEPT !.status = "cancelled", !.settlement = "refunded"]]
      /\ stock' = [v \in Variants |-> stock[v] + order[o].items[v]]
  BY <1>2 DEF CancelAndRefund, RestoreOrderStock, IInv, TypeOK
<1>4. /\ order'[o].status = "cancelled" /\ order'[o] # NoOrder /\ order'[o].items = order[o].items
      /\ \A p \in Orders \ {o} : order'[p] = order[p]
  BY <1>1, <1>3 DEF OrderRows, NoOrder, IInv, TypeOK
<1>5. /\ BasketOf(o) = [items |-> order[o].items, state |-> "taken"]
      /\ BasketOf(o)' = [items |-> order[o].items, state |-> "returned"]
  BY <1>1, <1>4 DEF BasketOf, Placed
<1>6. BasketOf(o)' = [BasketOf(o) EXCEPT !.state = "returned"]
  BY <1>5
<1>7. [p \in Orders |-> BasketOf(p)'] = [[p \in Orders |-> BasketOf(p)] EXCEPT ![o] = BasketOf(o)']
  BY <1>4, OneBasket
<1>8. [p \in Orders |-> BasketOf(p)'] = [[p \in Orders |-> BasketOf(p)] EXCEPT ![o].state = "returned"]
  <2> DEFINE baskets == [p \in Orders |-> BasketOf(p)]
  <2>1. baskets[o] = BasketOf(o)
    OBVIOUS
  <2>2. [baskets EXCEPT ![o].state = "returned"] = [baskets EXCEPT ![o] = [baskets[o] EXCEPT !.state = "returned"]]
    OBVIOUS
  <2> QED
    BY <1>6, <1>7, <2>1, <2>2
<1>9. /\ [p \in Orders |-> BasketOf(p)][o].state = "taken"
      /\ [p \in Orders |-> BasketOf(p)][o].items = order[o].items
  BY <1>5
<1> QED
  BY <1>3, <1>8, <1>9 DEF InventoryView!GiveBack

LEMMA StepIsInventoryStep ==
  ASSUME IInv, TracesInv, [Next]_vars
  PROVE  [InventoryView!InventoryNext]_(InventoryView!inventoryVars)
<1>1. ASSUME NEW o \in Orders, NEW from \in {"pending_confirmation", "confirmed", "shipping"},
             NEW row \in OrderRows, row.items = order[o].items,
             row.status \in {"confirmed", "shipping", "delivered"}, Advance(o, from, row)
      PROVE  UNCHANGED InventoryView!inventoryVars
  <2>1. order[o] \in OrderRows /\ o \in Placed /\ order[o].status # "cancelled"
    BY <1>1, PlacedRow DEF IInv, OrderStatus, Advance
  <2>2. /\ order' = [order EXCEPT ![o] = row] /\ UNCHANGED stock
    BY <1>1 DEF Advance
  <2>3. order'[o] = row /\ row # NoOrder /\ \A p \in Orders \ {o} : order'[p] = order[p]
    BY <1>1, <2>2 DEF IInv, TypeOK, NoOrder
  <2>4. BasketOf(o)' = BasketOf(o)
    BY <1>1, <2>1, <2>3 DEF BasketOf, Placed
  <2>5. [p \in Orders |-> BasketOf(p)'] = [[p \in Orders |-> BasketOf(p)] EXCEPT ![o] = BasketOf(o)']
    BY <2>3, OneBasket
  <2> QED
    BY <2>2, <2>4, <2>5 DEF InventoryView!inventoryVars
<1>2. ASSUME NEW o \in Orders, InventoryView!GiveBack(o, {})
      PROVE  InventoryView!InventoryNext
  BY <1>2 DEF InventoryView!InventoryNext
<1>3. ASSUME NEW o \in Orders, NEW b \in Baskets, InventoryView!Take(o, b)
      PROVE  InventoryView!InventoryNext
  BY <1>3 DEF InventoryView!InventoryNext
<1> QED
  BY <1>1, <1>2, <1>3, TraceCases, CreateIsTake, CancelIsGiveBack, InventoryStutter

\* For orders the inventory is exact: whatever requests and workers do, an order
\* takes all its quantities when it is created and gives all of them back with
\* the cancellation or refusal that refunds it, and at no other time.
THEOREM OrdersKeepInventory == Spec => OrdersImplementInventory
<1>1. Init => InventoryView!InventoryInit
  <2> SUFFICES ASSUME Init PROVE InventoryView!InventoryInit
    OBVIOUS
  <2>1. \A o \in Orders : BasketOf(o) = InventoryView!NoBasket
    BY DEF Init, Placed, BasketOf, InventoryView!NoBasket
  <2>2. stock \in [Variants -> Nat]
    BY OrderAssumption DEF Init
  <2> QED
    BY <2>1, <2>2 DEF InventoryView!InventoryInit
<1>2. (IInv /\ TracesInv) /\ [Next]_vars => [InventoryView!InventoryNext]_(InventoryView!inventoryVars)
  BY StepIsInventoryStep
<1> QED
  BY <1>1, <1>2, TracesHold, PTL DEF Spec, OrdersImplementInventory, InventoryView!InventorySpec

-----------------------------------------------------------------------------
(* Reward proofs, and their appeals.                                       *)

\* Every step of the rewards service is, for the ledger, one of its own steps or
\* a stutter: the ledger's theorems hold for it.
LEMMA RewardsStepsLedger ==
  ASSUME RewardsTypeOK, \A p \in Proofs : request[p] \in Requesting => proof[p].status = "processing",
         [RewardsNext]_rewardsVars
  PROVE  [LedgerNext]_ledgerVars
<1>1. ASSUME NEW p \in Proofs, DecideProof(p)
      PROVE  [LedgerNext]_ledgerVars
  <2>1. CASE request[p] = "1"
    <3>1. proof[p].user \in Users
      <4>1. proof[p].status = "processing"
        BY <2>1 DEF Requesting, Answers
      <4>2. QED
        BY <4>1 DEF RewardsTypeOK, ProofRows, NoProof
    <3>2. Reward(p) \in Requests
      BY <3>1, RewardsAssumption DEF Reward
    <3>3. RewardKey[p] \in BusinessKeys
      BY RewardsAssumption
    <3>4. ApplyOperation(RewardKey[p], Reward(p))
      BY <1>1, <2>1 DEF DecideProof
    <3>5. QED
      BY <3>2, <3>3, <3>4 DEF LedgerNext
  <2>2. CASE request[p] # "1"
    BY <1>1, <2>2 DEF DecideProof
  <2>3. QED
    BY <2>1, <2>2
<1>2. ASSUME OtherOperation
      PROVE  [LedgerNext]_ledgerVars
  BY <1>2 DEF OtherOperation, LedgerNext
<1>3. CASE UNCHANGED ledgerVars
  BY <1>3
<1>4. QED
  BY <1>1, <1>2, <1>3 DEF RewardsNext, Progress, SaveProof, CreateRewardAppeal, AnalyzeImage, FailProof, LoseRequest,
     rewardsVars

-----------------------------------------------------------------------------
\* A request that is not over holds a proof in processing; with RewardedIsPaid
\* it says that the operation of the proof is not recorded yet.
OpenIsProcessing == \A p \in Proofs : request[p] \in Requesting => proof[p].status = "processing"

RewardsInv ==
  /\ LedgerTypeOK
  /\ RewardsTypeOK
  /\ OpenIsProcessing
  /\ RewardedIsPaid

Paid(p) ==
  /\ proof[p].status = "rewarded" <=> operation[RewardKey[p]] # NoOperation
  /\ operation[RewardKey[p]] # NoOperation => operation[RewardKey[p]].entries = Reward(p)

LEMMA RewardsInvInit == RewardsInit => RewardsInv
<1> SUFFICES ASSUME RewardsInit
             PROVE  RewardsInv
  OBVIOUS
<1>1. LedgerTypeOK
  BY DEF RewardsInit, LedgerInit, LedgerTypeOK, NoOperation, Operations, Entries
<1>2. RewardsTypeOK /\ OpenIsProcessing
  BY DEF RewardsInit, RewardsTypeOK, OpenIsProcessing, RequestStates, Requesting, Answers
<1>3. ASSUME NEW p \in Proofs
      PROVE  RewardKey[p] \in Keys
  BY RewardsAssumption DEF BusinessKeys
<1>4. RewardedIsPaid
  BY <1>3 DEF RewardsInit, LedgerInit, RewardedIsPaid, NoProof
<1>5. QED
  BY <1>1, <1>2, <1>4 DEF RewardsInv

\* The steps of a request change its own proof, and the ledger only under its key.
LEMMA ProofSteps ==
  ASSUME RewardsInv, RewardsNext, UNCHANGED ledgerVars
  PROVE  RewardedIsPaid'
<1>1. \A p \in Proofs : Paid(p)
  BY DEF RewardsInv, RewardedIsPaid, Paid
<1>2. SUFFICES ASSUME NEW p \in Proofs
               PROVE  Paid(p)'
  BY DEF RewardedIsPaid, Paid
<1>3. CASE proof'[p] = proof[p]
  BY <1>1, <1>3 DEF Paid, Reward, ledgerVars
<1>4. CASE proof'[p] # proof[p]
  <2>1. proof[p].status \in {"none", "processing"} /\ proof'[p].status # "rewarded"
    <3>1. ASSUME NEW q \in Proofs, NEW u \in Users, SaveProof(q, u)
          PROVE  proof[p].status \in {"none", "processing"} /\ proof'[p].status # "rewarded"
      <4>1. q = p /\ proof[p] = NoProof
        BY <1>4, <3>1 DEF SaveProof, RewardsInv, RewardsTypeOK, Submitted
      <4>2. QED
        BY <4>1, <3>1 DEF SaveProof, RewardsInv, RewardsTypeOK, NoProof
    <3>2. ASSUME NEW q \in Proofs, FailProof(q)
          PROVE  proof[p].status \in {"none", "processing"} /\ proof'[p].status # "rewarded"
      <4>1. q = p /\ proof[p].status = "processing" /\ proof[p] \in ProofRows
        BY <1>4, <3>2 DEF FailProof, RewardsInv, RewardsTypeOK, OpenIsProcessing, Requesting, Answers, NoProof
      <4>2. QED
        BY <4>1, <3>2 DEF FailProof, RewardsInv, RewardsTypeOK, ProofRows
    <3>3. ASSUME NEW q \in Proofs, DecideProof(q)
          PROVE  proof[p].status \in {"none", "processing"} /\ proof'[p].status # "rewarded"
      <4>1. q = p /\ proof[p].status = "processing" /\ proof[p] \in ProofRows
        BY <1>4, <3>3 DEF DecideProof, RewardsInv, RewardsTypeOK, OpenIsProcessing, Requesting, Answers, NoProof
      <4>2. request[p] = "0"
        <5> SUFFICES ASSUME ApplyOperation(RewardKey[p], Reward(p))
                     PROVE  FALSE
          BY <4>1, <3>3 DEF DecideProof
        <5>1. operation[RewardKey[p]] = NoOperation
          BY <1>1, <4>1 DEF Paid
        <5>2. RewardKey[p] \in Keys
          BY RewardsAssumption DEF BusinessKeys
        <5>3. operation'[RewardKey[p]] # NoOperation
          BY <5>1, <5>2, CompletedIsRecorded DEF ApplyOperation, RewardsInv, LedgerTypeOK
        <5>4. QED
          BY <5>1, <5>3 DEF ledgerVars
      <4>3. QED
        BY <4>1, <4>2, <3>3 DEF DecideProof, RewardsInv, RewardsTypeOK, ProofRows
    <3>4. QED
      BY <1>4, <3>1, <3>2, <3>3
         DEF RewardsNext, Progress, CreateRewardAppeal, AnalyzeImage, LoseRequest, OtherOperation, rewardVars
  <2>2. operation[RewardKey[p]] = NoOperation
    BY <1>1, <2>1 DEF Paid
  <2>3. QED
    BY <2>1, <2>2 DEF Paid, ledgerVars
<1>5. QED
  BY <1>3, <1>4

\* Paying records the one operation under the proof's key.
LEMMA PaymentStep ==
  ASSUME RewardsInv, NEW q \in Proofs, request[q] = "1", DecideProof(q)
  PROVE  /\ RewardedIsPaid'
         /\ proof' = [proof EXCEPT ![q] = [@ EXCEPT !.status = "rewarded", !.coin = "reward"]]
         /\ proof[q] \in ProofRows
<1>1. \A p \in Proofs : Paid(p)
  BY DEF RewardsInv, RewardedIsPaid, Paid
<1>2. proof[q].status = "processing" /\ proof[q] \in ProofRows
  BY DEF RewardsInv, OpenIsProcessing, RewardsTypeOK, Requesting, Answers, NoProof
<1>3. proof' = [proof EXCEPT ![q] = [@ EXCEPT !.status = "rewarded", !.coin = "reward"]]
  BY DEF DecideProof
<1>4. \A p \in Proofs : RewardKey[p] \in Keys
  BY RewardsAssumption DEF BusinessKeys
<1>5. operation[RewardKey[q]] = NoOperation
  BY <1>1, <1>2 DEF Paid
<1>6. ApplyOperation(RewardKey[q], Reward(q))
  BY DEF DecideProof
<1>7. operation' = [operation EXCEPT ![RewardKey[q]] = Completed(Reward(q))]
  BY <1>5, <1>6 DEF ApplyOperation
<1>8. operation \in [Keys -> Operations] /\ proof \in [Proofs -> ProofRows \cup {NoProof}]
  BY DEF RewardsInv, LedgerTypeOK, RewardsTypeOK
<1>9. ASSUME NEW p \in Proofs
      PROVE  Paid(p)'
  <2>1. CASE p = q
    <3>1. proof'[q].status = "rewarded" /\ proof'[q].user = proof[q].user
      BY <1>2, <1>3, <1>8 DEF ProofRows
    <3>2. operation'[RewardKey[q]] = Completed(Reward(q))
      BY <1>4, <1>7, <1>8
    <3>3. Reward(q)' = Reward(q)
      BY <3>1 DEF Reward
    <3>4. QED
      BY <2>1, <3>1, <3>2, <3>3, CompletedIsRecorded DEF Paid
  <2>2. CASE p # q
    <3>1. RewardKey[p] # RewardKey[q]
      BY <2>2, RewardsAssumption
    <3>2. proof'[p] = proof[p] /\ operation'[RewardKey[p]] = operation[RewardKey[p]]
      BY <1>3, <1>4, <1>7, <1>8, <2>2, <3>1
    <3>3. QED
      BY <1>1, <3>2 DEF Paid, Reward
  <2>3. QED
    BY <2>1, <2>2
<1>10. RewardedIsPaid'
  BY <1>9 DEF RewardedIsPaid, Paid
<1>11. QED
  BY <1>2, <1>3, <1>10

\* What others do leaves the operations of proofs alone, but for their status.
LEMMA OtherStep ==
  ASSUME RewardsInv, OtherOperation
  PROVE  RewardedIsPaid'
<1>1. SUFFICES ASSUME NEW p \in Proofs
               PROVE  /\ operation'[RewardKey[p]] # NoOperation <=> operation[RewardKey[p]] # NoOperation
                      /\ operation'[RewardKey[p]].entries = operation[RewardKey[p]].entries
  BY DEF OtherOperation, rewardVars, RewardsInv, RewardedIsPaid, Reward
<1>2. RewardKey[p] \in BusinessKeys /\ RewardKey[p] \in Keys
  BY RewardsAssumption DEF BusinessKeys
<1>3. ASSUME NEW k \in BusinessKeys \ {RewardKey[q] : q \in Proofs}, NEW e \in Requests, ApplyOperation(k, e)
      PROVE  operation'[RewardKey[p]] = operation[RewardKey[p]]
  <2>1. k # RewardKey[p]
    OBVIOUS
  <2>2. operation \in [Keys -> Operations]
    BY DEF RewardsInv, LedgerTypeOK
  <2>3. QED
    BY <1>2, <1>3, <2>1, <2>2 DEF ApplyOperation, ledgerVars
<1>4. ASSUME NEW k \in DOMAIN ReversalKey, ReverseOperation(k)
      PROVE  /\ operation'[RewardKey[p]] # NoOperation <=> operation[RewardKey[p]] # NoOperation
             /\ operation'[RewardKey[p]].entries = operation[RewardKey[p]].entries
  <2>1. RewardKey[p] # ReversalKey[k]
    BY <1>2 DEF BusinessKeys
  <2>2. LedgerTypeOK
    BY DEF RewardsInv
  <2>3. CASE RewardKey[p] # k
    BY <1>2, <1>4, <2>1, <2>2, <2>3, ReversalStep
  <2>4. CASE RewardKey[p] = k
    <3>1. operation'[k] = [operation[k] EXCEPT !.status = "reversed"]
      BY <1>4, <2>2, ReversalStep
    <3>2. operation[k] \in Operations /\ operation[k].status = "completed"
      BY <1>2, <1>4, <2>2, <2>4 DEF LedgerTypeOK, ReverseOperation
    <3>3. operation'[k].status = "reversed" /\ operation'[k].entries = operation[k].entries
      BY <3>1, <3>2 DEF Operations
    <3>4. QED
      BY <2>4, <3>2, <3>3 DEF NoOperation
  <2>5. QED
    BY <2>3, <2>4
<1>5. QED
  BY <1>3, <1>4 DEF OtherOperation

\* The shapes of the rows, and which of them are open.
LEMMA RowsStep ==
  ASSUME RewardsInv, RewardsNext
  PROVE  RewardsTypeOK' /\ OpenIsProcessing'
<1> USE DEF RewardsInv, RewardsTypeOK, OpenIsProcessing, RequestStates, Requesting, Answers, Goto
<1>1. ASSUME NEW q \in Proofs, NEW u \in Users, SaveProof(q, u)
      PROVE  RewardsTypeOK' /\ OpenIsProcessing'
  <2>1. [status |-> "processing", user |-> u, coin |-> "null"] \in ProofRows
    BY DEF ProofRows, RewardProofStatus
  <2>2. QED
    BY <1>1, <2>1 DEF SaveProof
<1>2. ASSUME NEW q \in Proofs, FailProof(q) \/ DecideProof(q)
      PROVE  RewardsTypeOK' /\ OpenIsProcessing'
  <2>1. proof[q] \in ProofRows
    BY <1>2 DEF FailProof, DecideProof, NoProof
  <2>2. PICK row \in ProofRows : proof' = [proof EXCEPT ![q] = row]
    <3>1. CASE FailProof(q)
      <4>1. [proof[q] EXCEPT !.status = "failed"] \in ProofRows
        BY <2>1 DEF ProofRows, RewardProofStatus
      <4>2. QED
        BY <3>1, <4>1 DEF FailProof
    <3>2. CASE DecideProof(q)
      <4>1. /\ [proof[q] EXCEPT !.status = "rejected", !.coin = "zero"] \in ProofRows
            /\ [proof[q] EXCEPT !.status = "rewarded", !.coin = "reward"] \in ProofRows
        BY <2>1 DEF ProofRows, RewardProofStatus
      <4>2. QED
        BY <3>2, <4>1 DEF DecideProof
    <3>3. QED
      BY <1>2, <3>1, <3>2
  <2>3. request' = [request EXCEPT ![q] = "ended"] /\ appeals' = appeals
    BY <1>2 DEF FailProof, DecideProof
  <2>4. QED
    BY <2>2, <2>3
<1>3. ASSUME NEW q \in Proofs, AnalyzeImage(q) \/ LoseRequest(q)
      PROVE  RewardsTypeOK' /\ OpenIsProcessing'
  <2>1. PICK state \in RequestStates : request' = [request EXCEPT ![q] = state]
    BY <1>3 DEF AnalyzeImage, LoseRequest
  <2>2. proof[q].status = "processing" /\ UNCHANGED <<proof, appeals>>
    BY <1>3 DEF AnalyzeImage, LoseRequest
  <2>3. QED
    BY <2>1, <2>2
<1>4. ASSUME NEW q \in Proofs, NEW u \in Users, CreateRewardAppeal(q, u)
      PROVE  RewardsTypeOK' /\ OpenIsProcessing'
  BY <1>4 DEF CreateRewardAppeal
<1>5. CASE OtherOperation
  BY <1>5 DEF OtherOperation, rewardVars
<1>6. QED
  BY <1>1, <1>2, <1>3, <1>4, <1>5 DEF RewardsNext, Progress

LEMMA RewardsInvStep == RewardsInv /\ [RewardsNext]_rewardsVars => RewardsInv'
<1> SUFFICES ASSUME RewardsInv, [RewardsNext]_rewardsVars
             PROVE  RewardsInv'
  OBVIOUS
<1>1. CASE UNCHANGED rewardsVars
  BY <1>1 DEF RewardsInv, rewardsVars, rewardVars, ledgerVars, LedgerTypeOK, RewardsTypeOK, OpenIsProcessing,
     RewardedIsPaid, Reward
<1>2. CASE RewardsNext
  <2>1. LedgerTypeOK'
    <3>1. [LedgerNext]_ledgerVars
      BY RewardsStepsLedger DEF RewardsInv, OpenIsProcessing
    <3>2. QED
      BY <3>1, LedgerTypingStep DEF RewardsInv
  <2>2. RewardsTypeOK' /\ OpenIsProcessing'
    BY <1>2, RowsStep
  <2>3. RewardedIsPaid'
    <3>1. ASSUME NEW q \in Proofs, request[q] = "1", DecideProof(q)
          PROVE  RewardedIsPaid'
      BY <3>1, PaymentStep
    <3>2. CASE OtherOperation
      BY <3>2, OtherStep
    <3>3. CASE UNCHANGED ledgerVars
      BY <1>2, <3>3, ProofSteps
    <3>4. QED
      BY <1>2, <3>1, <3>2, <3>3
         DEF RewardsNext, Progress, SaveProof, CreateRewardAppeal, AnalyzeImage, FailProof, DecideProof, LoseRequest
  <2>4. QED
    BY <2>1, <2>2, <2>3 DEF RewardsInv
<1>3. QED
  BY <1>1, <1>2

-----------------------------------------------------------------------------
\* However proofs, appeals, reversals and other operations interleave, also with
\* lost requests, a proof is rewarded exactly when the ledger has paid for it.
THEOREM RewardsArePaid == RewardsSpec => []RewardedIsPaid
<1>1. RewardsInv => RewardedIsPaid
  BY DEF RewardsInv
<1>2. QED
  BY RewardsInvInit, RewardsInvStep, <1>1, PTL DEF RewardsSpec

\* Proofs and their requests keep their types: a proof has one of the statuses of
\* RewardProofStatus and a request one of the states of addRewardProof.
THEOREM RewardsTyping == RewardsSpec => []RewardsTypeOK
<1>1. RewardsInv => RewardsTypeOK
  BY DEF RewardsInv
<1>2. QED
  BY RewardsInvInit, RewardsInvStep, <1>1, PTL DEF RewardsSpec

\* The rewards service implements the ledger: whatever the ledger's theorems say
\* of LedgerSpec holds for it.
THEOREM RewardsImplementLedger == RewardsSpec => LedgerSpec
<1>1. RewardsInit => LedgerInit
  BY DEF RewardsInit
<1>2. RewardsInv /\ [RewardsNext]_rewardsVars => [LedgerNext]_ledgerVars
  BY RewardsStepsLedger DEF RewardsInv, OpenIsProcessing
<1>3. QED
  BY RewardsInvInit, RewardsInvStep, <1>1, <1>2, PTL DEF RewardsSpec, LedgerSpec
=============================================================================
