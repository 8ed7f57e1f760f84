----------------------------- MODULE MCStockTx -----------------------------
(***************************************************************************)
(* Instances of StockTx for TLC: two variants, 1 and 2; order o1 has been  *)
(* placed and took one of each.                                            *)
(***************************************************************************)
EXTENDS StockTx, TLC

CONSTANTS c1, c2, c3, o1, o2, o3

MCVariants == {1, 2}
MCOrders == {o1, o2, o3}
MCCalls == {c1, c2, c3}
MCStock == 1 :> 2 @@ 2 :> 1

Both == 1 :> 1 @@ 2 :> 1
One == 1 :> 1 @@ 2 :> 0
Two == 1 :> 2 @@ 2 :> 0
MCInitialOrders == o1 :> Both

Checkout(o, items) == [kind |-> "checkout", order |-> o, items |-> items]
Cancel(o) == [kind |-> "cancel", order |-> o]
Reject(o) == [kind |-> "reject", order |-> o]
Adjust(variants, stocks, k) ==
  [kind |-> "adjust", variants |-> variants, stock |-> stocks, key |-> k]

Work(x, y, z) == c1 :> x @@ c2 :> y @@ c3 :> z

\* A cancellation and the seller's refusal of the same order; checkouts that
\* compete for the last units, or are one checkout sent twice; and a seller who
\* restocks while they run, sending the request twice or taking it back.
MCWorkloads ==
  { Work(Cancel(o1), Checkout(o2, One), Checkout(o3, Two)),
    Work(Reject(o1), Checkout(o2, Both), Checkout(o2, Both)),
    Work(Cancel(o1), Reject(o1), Checkout(o2, Both)),
    Work(Cancel(o1), Checkout(o2, Both), Adjust(<<2, 1>>, 1 :> 3 @@ 2 :> 3, "none")),
    Work(Checkout(o2, One), Adjust(<<1>>, 1 :> 2 @@ 2 :> 1, "k"),
                            Adjust(<<1>>, 1 :> 2 @@ 2 :> 1, "k")),
    Work(Cancel(o1), Adjust(<<1>>, 1 :> 3 @@ 2 :> 1, "none"),
                     Adjust(<<1>>, 1 :> 2 @@ 2 :> 1, "none")) }
=============================================================================
