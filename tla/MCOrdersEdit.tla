---------------------------- MODULE MCOrdersEdit ----------------------------
(***************************************************************************)
(* Instances of OrdersEdit for TLC: ann orders twice from bob.             *)
(***************************************************************************)
EXTENDS OrdersEdit, TLC

CONSTANTS ann, bob, o1, o2, pen

MCUsers == {ann, bob}
MCOrderIds == {o1, o2}
MCBuyerOf == o1 :> ann @@ o2 :> ann
MCVariants == {pen}
MCSellerOf == pen :> bob
MCStock == pen :> 2
MCBaskets == {pen :> 1}
MCReversalKey == << >>
=============================================================================
