------------------------------ MODULE Inventory ------------------------------
(***************************************************************************)
(* What buyers and sellers are promised about the stock of variants: an    *)
(* order takes all its quantities at once, from what is there, and gives   *)
(* them back at most once; apart from that the stock is what the seller    *)
(* says it is.                                                             *)
(*                                                                         *)
(* Units that are given back may get lost unless the inventory is exact,   *)
(* but never more units come back than were taken.                         *)
(***************************************************************************)
EXTENDS Integers

CONSTANTS Variants,     \* variants of products
          Orders,       \* what may take from their stock
          Baskets,      \* quantities an order may ask for
          Adjustments   \* what sellers may ask for: a number for each of some variants

VARIABLES stock,    \* units of each variant
          basket,   \* what each order has taken, and whether it was given back
          exact     \* is the inventory exact

inventoryVars == <<stock, basket, exact>>

NoBasket == [state |-> "none"]
Taken(items) == [items |-> items, state |-> "taken"]

InventoryInit ==
  /\ stock \in [Variants -> Nat]
  /\ basket \in [Orders -> {NoBasket} \cup [items : [Variants -> Nat], state : {"taken"}]]
  /\ exact \in BOOLEAN

Take(o, items) ==
  /\ basket[o] = NoBasket
  /\ \A v \in Variants : items[v] <= stock[v]
  /\ stock' = [v \in Variants |-> stock[v] - items[v]]
  /\ basket' = [basket EXCEPT ![o] = Taken(items)]

\* The variants of Lost do not get their units back.
GiveBack(o, Lost) ==
  /\ basket[o].state = "taken"
  /\ stock' = [v \in Variants |-> IF v \in Lost THEN stock[v] ELSE stock[v] + basket[o].items[v]]
  /\ basket' = [basket EXCEPT ![o].state = "returned"]

Adjust(numbers) ==
  /\ stock' = [v \in Variants |-> IF v \in DOMAIN numbers THEN numbers[v] ELSE stock[v]]
  /\ UNCHANGED basket

InventoryNext ==
  /\ \/ \E o \in Orders, items \in Baskets : Take(o, items)
     \/ \E o \in Orders, Lost \in SUBSET Variants : (exact => Lost = {}) /\ GiveBack(o, Lost)
     \/ \E numbers \in Adjustments : Adjust(numbers)
  /\ UNCHANGED exact

InventorySpec == InventoryInit /\ [][InventoryNext]_inventoryVars
=============================================================================
