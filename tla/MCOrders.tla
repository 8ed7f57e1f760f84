------------------------------ MODULE MCOrders ------------------------------
(***************************************************************************)
(* Instance of Orders for TLC.                                             *)
(***************************************************************************)
EXTENDS Orders, TLC

CONSTANTS ann, bob, o1, o2, pen

\* ann buys twice from bob, who has two pens: the two orders compete for stock
\* and for ann's points, and share bob's pending balance.
OneSellerUsers == {ann, bob}
OneSellerOrders == {o1, o2}
OneSellerBuyerOf == o1 :> ann @@ o2 :> ann
OneSellerVariants == {pen}
OneSellerSellerOf == pen :> bob
OneSellerStock == pen :> 2
OneSellerBaskets == {pen :> 1, pen :> 2}

NoReversals == << >>
=============================================================================
