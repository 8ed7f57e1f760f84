------------------------------- MODULE Escrow -------------------------------
(***************************************************************************)
(* What buyers and sellers are promised about the points of an order: they *)
(* leave the buyer's purse when the order is placed, are held, and go      *)
(* exactly once, in full, to the seller or back to the buyer.              *)
(***************************************************************************)
EXTENDS Integers, Sums

CONSTANTS Users,       \* holders of a purse
          Orders,      \* one deposit each
          BuyerOf,     \* who makes the deposit
          RewardCoin   \* points a reward adds to a purse

VARIABLES purse,    \* points each user can spend
          deposit   \* for each order: who is to be paid how much, and what became of it

escrowVars == <<purse, deposit>>

NoDeposit == [state |-> "none"]

EscrowInit ==
  /\ purse \in [Users -> Nat]
  /\ deposit = [o \in Orders |-> NoDeposit]

Reward(u) ==
  /\ purse' = [purse EXCEPT ![u] = @ + RewardCoin]
  /\ UNCHANGED deposit

Hold(o, payee, amount) ==
  /\ deposit[o] = NoDeposit
  /\ payee # BuyerOf[o]
  /\ amount \in 1..purse[BuyerOf[o]]
  /\ purse' = [purse EXCEPT ![BuyerOf[o]] = @ - amount]
  /\ deposit' = [deposit EXCEPT ![o] =
                   [payee |-> payee, amount |-> amount, state |-> "held"]]

\* Who gets the deposit of o when it is disposed of in this way.
Receiver(o, state) == IF state = "released" THEN deposit[o].payee ELSE BuyerOf[o]

\* Deposits may be disposed of together, all in the same way.
Dispose(S, state) ==
  /\ \A o \in S : deposit[o].state = "held"
  /\ purse' = [u \in Users |->
       purse[u] + SumOver([o \in S |-> IF u = Receiver(o, state) THEN deposit[o].amount ELSE 0], S)]
  /\ deposit' = [o \in Orders |->
       IF o \in S THEN [deposit[o] EXCEPT !.state = state] ELSE deposit[o]]

EscrowNext ==
  \/ \E u \in Users : Reward(u)
  \/ \E o \in Orders, payee \in Users : \E amount \in 1..purse[BuyerOf[o]] : Hold(o, payee, amount)
  \/ \E S \in SUBSET Orders, state \in {"released", "refunded"} : Dispose(S, state)

EscrowSpec == EscrowInit /\ [][EscrowNext]_escrowVars
=============================================================================
