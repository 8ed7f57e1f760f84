------------------------------- MODULE MCShop -------------------------------
(***************************************************************************)
(* Instance of Shop for TLC: a seller with two addresses and two           *)
(* applications, one product of two variants, and two requests at a time.  *)
(* Rows of one kind, and requests, can be interchanged.                    *)
(***************************************************************************)
EXTENDS Shop, TLC

CONSTANTS ann, home, depot, first, second, pen, red, blue, c1, c2

MCUsers == {ann}
MCAddresses == {home, depot}
MCApplications == {first, second}
MCProducts == {pen}
MCVariants == {red, blue}
MCCalls == {c1, c2}
MCAddressOf == [a \in MCAddresses |-> ann]
MCApplicantOf == [s \in MCApplications |-> ann]
MCSellerOf == [p \in MCProducts |-> ann]
MCProductOf == [v \in MCVariants |-> pen]

Interchangeable ==
  Permutations(MCAddresses) \cup Permutations(MCApplications) \cup Permutations(MCVariants) \cup Permutations(MCCalls)
=============================================================================
