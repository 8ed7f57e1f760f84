-------------------------- MODULE MCWalletLedgerTx --------------------------
(***************************************************************************)
(* Instances of WalletLedgerTx for TLC: a buyer (1) and a seller (2).      *)
(***************************************************************************)
EXTENDS WalletLedgerTx, TLC

CONSTANTS c1, c2, c3

MCUsers == {1, 2}
MCCalls == {c1, c2, c3}
MCKeys == {"first", "second", "third"}

Move(from, to) ==
  [a \in MCUsers \X {"available", "pending"} |->
     CASE a = to -> 1 [] a = from -> -1 [] OTHER -> 0]
Reward  == Move(<<0, "outside">>, <<1, "available">>)
Payment == Move(<<1, "available">>, <<2, "pending">>)
Refund  == Move(<<2, "pending">>, <<1, "available">>)
Release == Move(<<2, "pending">>, <<2, "available">>)
MCRequests == {Reward, Payment, Refund, Release}

Call(k, e) == [key |-> k, entries |-> e]
Work(x, y, z) == c1 :> x @@ c2 :> y @@ c3 :> z

\* Three operations on the same wallets, one of them of no use before another,
\* or two of them independent; and a reward sent twice, with or without a third
\* request under its key.
MCWorkloads ==
  { Work(Call("first", Reward), Call("second", Payment), Call("third", Refund)),
    Work(Call("first", Reward), Call("second", Payment), Call("third", Release)),
    Work(Call("first", Reward), Call("second", Reward), Call("third", Payment)),
    Work(Call("first", Reward), Call("first", Reward), Call("second", Payment)),
    Work(Call("first", Reward), Call("first", Reward), Call("first", Payment)) }
=============================================================================
