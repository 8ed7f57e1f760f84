---------------------------- MODULE WalletLedger ----------------------------
(***************************************************************************)
(* The wallet ledger (wallets/wallet-ledger.service.ts) as its callers see *)
(* it: an operation is applied in one transaction or not at all.           *)
(*                                                                         *)
(* A wallet holds two buckets of points, so a balance belongs to an        *)
(* account <<user, bucket>>.  A missing wallets row counts as a zero       *)
(* balance: ensureAndLockWallets inserts it with 0.000 before it is used.  *)
(*                                                                         *)
(* A row of wallet_operations is found by its unique idempotency key.  Its *)
(* wallet_entries rows are the non-zero values of "entries", the signed    *)
(* amount per account that aggregateEntries computes; they also stand for  *)
(* the request that request_hash identifies.  Statuses pending and failed  *)
(* never survive a commit: an operation is completed by the transaction    *)
(* that inserts it, and no code writes failed.                             *)
(***************************************************************************)
EXTENDS Sums

CONSTANTS Users,        \* wallet owners
          Keys,         \* idempotency keys
          ReversalKey,  \* ReversalKey[k]: the key REVERSAL:{id of operation k}
          Requests      \* aggregated entries a caller may ask for

Buckets == {"available", "pending"}
Accounts == Users \X Buckets
Entries == [Accounts -> Int]

ASSUME LedgerAssumption ==
  /\ DOMAIN ReversalKey \subseteq Keys
  /\ ReversalKey \in [DOMAIN ReversalKey -> Keys]
  /\ \A j, k \in DOMAIN ReversalKey : ReversalKey[j] = ReversalKey[k] => j = k
  /\ \A k \in DOMAIN ReversalKey : ReversalKey[k] # k
  /\ Requests \subseteq Entries

\* The keys callers choose themselves: all but those of reversals.
BusinessKeys == Keys \ {ReversalKey[k] : k \in DOMAIN ReversalKey}

VARIABLES balance,    \* points in each account: the wallets table
          operation   \* row of each idempotency key: wallet_operations and its entries

ledgerVars == <<balance, operation>>

NoOperation == [status |-> "absent", entries |-> [a \in Accounts |-> 0]]
Operations == [status : {"absent", "completed", "reversed"}, entries : Entries]

LedgerTypeOK ==
  /\ balance \in [Accounts -> Nat]
  /\ operation \in [Keys -> Operations]

LedgerInit ==
  /\ balance = [a \in Accounts |-> 0]
  /\ operation = [k \in Keys |-> NoOperation]

-----------------------------------------------------------------------------
\* m points leave one account for another.
Transfer(from, to, m) ==
  [a \in Accounts |-> CASE a = to -> m [] a = from -> -m [] OTHER -> 0]

\* m points enter an account from outside the ledger.
Credit(to, m) == [a \in Accounts |-> IF a = to THEN m ELSE 0]

Negated(e) == [a \in Accounts |-> -e[a]]

\* The balances after entries e: after < 0n rolls the transaction back.
Post(e) ==
  LET after == [a \in Accounts |-> balance[a] + e[a]]
  IN  /\ after \in [Accounts -> Nat]
      /\ balance' = after

Completed(e) == [status |-> "completed", entries |-> e]

\* Mutant of ApplyOperation: a completed operation is not recognised as a replay.
ApplyOperationAgain(k, e) ==
  /\ Post(e)
  /\ operation' = [operation EXCEPT ![k] = Completed(e)]

\* A key seen before with the same request is a replay and changes nothing;
\* with another request it is a conflict, and no step is taken.
ApplyOperation(k, e) ==
  \/ /\ operation[k] = NoOperation
     /\ Post(e)
     /\ operation' = [operation EXCEPT ![k] = Completed(e)]
  \/ /\ operation[k] # NoOperation
     /\ operation[k].entries = e
     /\ UNCHANGED ledgerVars

\* Mutant of ReverseOperation: the reversed operation stays completed.
ReverseOperationUnmarked(k) ==
  LET e == Negated(operation[k].entries)
  IN  /\ operation[k].status = "completed"
      /\ \E a \in Accounts : operation[k].entries[a] # 0
      /\ ApplyOperation(ReversalKey[k], e)

\* The reversal posts the opposite entries under its own key; a reversal is an
\* operation like any other and can be reversed in its turn.
ReverseOperation(k) ==
  LET r == ReversalKey[k]
      e == Negated(operation[k].entries)
  IN  /\ operation[k].status = "completed"
      /\ \E a \in Accounts : operation[k].entries[a] # 0
      /\ operation[r] = NoOperation
      /\ Post(e)
      /\ operation' = [operation EXCEPT ![k].status = "reversed", ![r] = Completed(e)]

LedgerNext ==
  \/ \E k \in BusinessKeys, e \in Requests : ApplyOperation(k, e)
  \/ \E k \in DOMAIN ReversalKey : ReverseOperation(k)

LedgerSpec == LedgerInit /\ [][LedgerNext]_ledgerVars

-----------------------------------------------------------------------------
Recorded == {k \in Keys : operation[k] # NoOperation}

\* Every balance is the sum of the ledger entries of its account: no entry is
\* posted twice, and none without its wallet update.
BalancesMatchEntries ==
  \A a \in Accounts :
    balance[a] = SumOver([k \in Recorded |-> operation[k].entries[a]], Recorded)

\* An operation is marked reversed exactly when its reversal is recorded, and
\* the two cancel out (the status update at the end of reverseOperation).
ReversalsCancel ==
  \A k \in DOMAIN ReversalKey :
    LET r == ReversalKey[k]
    IN  /\ operation[k].status = "reversed" <=> operation[r] # NoOperation
        /\ operation[r] # NoOperation => operation[r].entries = Negated(operation[k].entries)

\* The ledger is append-only: a recorded operation keeps its entries for ever,
\* and its status may only go from completed to reversed.
LedgerIsAppendOnly ==
  [][\A k \in Recorded :
       /\ operation'[k].entries = operation[k].entries
       /\ operation'[k].status # operation[k].status =>
            operation[k].status = "completed" /\ operation'[k].status = "reversed"]_ledgerVars

\* Points move only by a newly recorded operation, one at a time, and by
\* exactly its entries: a replay of applyOperation never moves points again.
PointsMoveWithOperation ==
  [][balance' # balance =>
       \E k \in Keys \ Recorded :
         /\ \A j \in Keys \ {k} : operation[j] = NoOperation => operation'[j] = NoOperation
         /\ operation'[k] # NoOperation
         /\ \A a \in Accounts : balance'[a] = balance[a] + operation'[k].entries[a]]_ledgerVars

=============================================================================
