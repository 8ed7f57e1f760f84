------------------------------ MODULE Rewards ------------------------------
(***************************************************************************)
(* Reward proofs and appeals (rewards/rewards.service.ts) on the wallet    *)
(* ledger.  A user submits a picture of an achievement, an external model  *)
(* looks at it, and an accepted proof is paid through the ledger.          *)
(*                                                                         *)
(* The request that submits a proof also decides it: its row is saved      *)
(* before the model is asked and updated after, and nothing but that       *)
(* request knows that the proof is still open.                             *)
(***************************************************************************)
EXTENDS WalletLedger

CONSTANTS Proofs,      \* ids of proofs
          RewardKey,   \* RewardKey[p]: the key REWARD_PROOF:{p}
          ProofCoin    \* what an accepted proof is worth

ASSUME RewardsAssumption ==
  /\ RewardKey \in [Proofs -> BusinessKeys]
  /\ \A p, q \in Proofs : RewardKey[p] = RewardKey[q] => p = q
  /\ ProofCoin \in Nat
  /\ \A u \in Users : Credit(<<u, "available">>, ProofCoin) \in Requests

VARIABLES proof,    \* the reward_proofs rows
          appeals,  \* who appealed about which proof: the reward_appeals rows, all pending
          request   \* where the request that submitted the proof is

rewardVars == <<proof, appeals, request>>
rewardsVars == <<ledgerVars, rewardVars>>

RewardProofStatus == {"processing", "rewarded", "rejected", "failed"}
NoProof == [status |-> "none"]
ProofRows == [status : RewardProofStatus, user : Users, coin : {"null", "zero", "reward"}]

\* What the model may answer: "0", "1", or something else, which includes the
\* text of an error that analyzeImageFromUrl caught.
Answers == {"0", "1", "other"}
Requesting == {"analyze"} \cup Answers
RequestStates == {"none", "ended", "lost"} \cup Requesting

RewardsTypeOK ==
  /\ proof \in [Proofs -> ProofRows \cup {NoProof}]
  /\ appeals \subseteq Proofs \X Users
  /\ request \in [Proofs -> RequestStates]

RewardsInit ==
  /\ LedgerInit
  /\ proof = [p \in Proofs |-> NoProof]
  /\ appeals = {}
  /\ request = [p \in Proofs |-> "none"]

-----------------------------------------------------------------------------
Submitted == {p \in Proofs : proof[p] # NoProof}
Reward(p) == Credit(<<proof[p].user, "available">>, ProofCoin)

Goto(p, state) == request' = [request EXCEPT ![p] = state]

\* A request without a picture is refused before anything is saved.
SaveProof(p, u) ==
  /\ p \notin Submitted
  /\ proof' = [proof EXCEPT ![p] = [status |-> "processing", user |-> u, coin |-> "null"]]
  /\ Goto(p, "analyze")
  /\ UNCHANGED <<ledgerVars, appeals>>

\* The answer of the external model arrives.
AnalyzeImage(p) ==
  /\ request[p] = "analyze"
  /\ \E answer \in Answers : Goto(p, answer)
  /\ UNCHANGED <<ledgerVars, proof, appeals>>

\* Mutant of FailProof: an invalid answer is only reported.
FailProofUnsaved(p) ==
  /\ request[p] = "other"
  /\ Goto(p, "ended")
  /\ UNCHANGED <<ledgerVars, proof, appeals>>

FailProof(p) ==
  /\ request[p] = "other"
  /\ proof' = [proof EXCEPT ![p].status = "failed"]
  /\ Goto(p, "ended")
  /\ UNCHANGED <<ledgerVars, appeals>>

\* Mutant of DecideProof: the reward is paid without asking for the answer.
DecideProofAny(p) ==
  /\ request[p] \in {"0", "1"}
  /\ proof' = [proof EXCEPT ![p].status = IF request[p] = "1" THEN "rewarded" ELSE "rejected"]
  /\ ApplyOperation(RewardKey[p], Reward(p))
  /\ Goto(p, "ended")
  /\ UNCHANGED appeals

\* One transaction decides the proof and, if it is accepted, pays for it.
DecideProof(p) ==
  /\ \/ /\ request[p] = "0"
        /\ proof' = [proof EXCEPT ![p].status = "rejected", ![p].coin = "zero"]
        /\ UNCHANGED ledgerVars
     \/ /\ request[p] = "1"
        /\ proof' = [proof EXCEPT ![p].status = "rewarded", ![p].coin = "reward"]
        /\ ApplyOperation(RewardKey[p], Reward(p))
  /\ Goto(p, "ended")
  /\ UNCHANGED appeals

\* The process is lost, or a statement fails: what the request had not committed
\* is rolled back, and no one takes its proof up again.
LoseRequest(p) ==
  /\ request[p] \in Requesting
  /\ Goto(p, "lost")
  /\ UNCHANGED <<ledgerVars, proof, appeals>>

\* Any user may appeal about any proof, in whatever state, as often as he likes.
CreateRewardAppeal(p, u) ==
  /\ p \in Submitted
  /\ appeals' = appeals \cup {<<p, u>>}
  /\ UNCHANGED <<ledgerVars, proof, request>>

\* What the other services ask of the ledger meanwhile.
OtherOperation ==
  /\ \/ \E k \in BusinessKeys \ {RewardKey[p] : p \in Proofs}, e \in Requests : ApplyOperation(k, e)
     \/ \E k \in DOMAIN ReversalKey : ReverseOperation(k)
  /\ UNCHANGED rewardVars

Progress(p) == AnalyzeImage(p) \/ FailProof(p) \/ DecideProof(p)

RewardsNext ==
  \/ \E p \in Proofs, u \in Users : SaveProof(p, u) \/ CreateRewardAppeal(p, u)
  \/ \E p \in Proofs : Progress(p) \/ LoseRequest(p)
  \/ OtherOperation

RewardsSpec == RewardsInit /\ [][RewardsNext]_rewardsVars

\* A request that is not lost goes on: an HTTP call ends, if with an error.
FairRewardsSpec == RewardsSpec /\ \A p \in Proofs : WF_rewardsVars(Progress(p))

-----------------------------------------------------------------------------
\* The status of a proof, written by the rewards service, and the ledger, where
\* others record and reverse operations, agree: a proof is rewarded exactly when
\* its operation is recorded, and that credits the submitter with the reward.
RewardedIsPaid ==
  \A p \in Proofs :
    LET paid == operation[RewardKey[p]]
    IN  /\ proof[p].status = "rewarded" <=> paid # NoOperation
        /\ paid # NoOperation => paid.entries = Reward(p)

\* No proof stays in processing, whatever the model answers, unless the request
\* that submitted it was lost.
ProofsAreDecided ==
  \A p \in Proofs :
    p \in Submitted ~> proof[p].status # "processing" \/ request[p] = "lost"

=============================================================================
