------------------------------ MODULE MCRewards ------------------------------
(***************************************************************************)
(* Instance of Rewards for TLC: two users, two proofs, an order's payment  *)
(* and release, and reversals up to the reversal of a reversal.            *)
(***************************************************************************)
EXTENDS Rewards

CONSTANTS buyer, seller

MCUsers == {buyer, seller}

\* Key <<name, n>>: the n-th reversal in the chain that starts at operation name.
MCChains == {<<"payment", 1>>, <<"release", 0>>, <<"p1", 2>>, <<"p2", 0>>}
MCKeys == UNION {{<<c[1], n>> : n \in 0..c[2]} : c \in MCChains}
MCReversalKey == [k \in {k \in MCKeys : <<k[1], k[2] + 1>> \in MCKeys} |-> <<k[1], k[2] + 1>>]

MCProofs == {"p1", "p2"}
MCRewardKey == [p \in MCProofs |-> <<p, 0>>]

MCRequests ==
  { Credit(<<buyer, "available">>, 2),
    Credit(<<seller, "available">>, 2),
    Transfer(<<buyer, "available">>, <<seller, "pending">>, 1),
    Transfer(<<seller, "pending">>, <<seller, "available">>, 1) }
=============================================================================
