--------------------------- MODULE WalletLedgerTx ---------------------------
(***************************************************************************)
(* applyOperation statement by statement: concurrent calls, each in a      *)
(* transaction of its own, on the row locks and read views of MySQL/InnoDB *)
(* and on the column-by-column save of TypeORM.                            *)
(*                                                                         *)
(* A call inserts its idempotency key, locks the key's row, looks for an   *)
(* earlier completion, inserts and locks the wallets, saves them, and      *)
(* commits.  Database rows are those of WalletLedger; a wallets row also   *)
(* has its version column.                                                 *)
(***************************************************************************)
EXTENDS FiniteSetsExt

CONSTANTS Users,        \* wallet owners, by id
          Keys,         \* idempotency keys
          Requests,     \* aggregated entries a caller may ask for
          Calls,        \* concurrent calls of applyOperation
          Workloads,    \* their possible arguments
          Isolations    \* isolation levels the sessions may have

Buckets == {"available", "pending"}
Accounts == Users \X Buckets
Rows == ({"key"} \X Keys) \cup ({"wallet"} \X Users)

ASSUME TxAssumption ==
  /\ Users \subseteq Nat
  /\ Requests \subseteq [Accounts -> Int]
  /\ Workloads \subseteq [Calls -> [key : Keys, entries : Requests]]
  /\ Isolations \subseteq {"REPEATABLE READ", "READ COMMITTED"}

VARIABLES wallet,      \* committed wallets rows
          operation,   \* committed operation of each key, with its entries
          input,       \* arguments of each call
          isolation,   \* isolation level of all sessions
          pc,          \* next statement of each call, or its outcome
          locks,       \* locks[r]: pairs <<call, mode>> held on row r
          view,        \* wallets in each call's read view
          saved        \* wallets rows each call has written and not committed

INSTANCE Database

vars == <<wallet, operation, input, isolation, pc, locks, view, saved>>

WalletRow == [available : Nat, pending : Nat, version : Nat]
NoOperation == [status |-> "absent", entries |-> [a \in Accounts |-> 0]]
Statements == {"insertKey", "lockKey", "check", "insertWallets", "lockWallets", "save", "commit"}
Outcomes == {"applied", "replayed", "conflict", "insufficient", "deadlock", "crashed"}

TypeOK ==
  /\ wallet \in [Users -> WalletRow]
  /\ operation \in [Keys -> [status : {"completed"}, entries : Requests] \cup {NoOperation}]
  /\ input \in Workloads
  /\ isolation \in Isolations
  /\ pc \in [Calls -> Statements \cup Outcomes]
  /\ LocksTypeOK
  /\ view \in [Calls -> [Users -> WalletRow]]
  /\ saved \in [Calls -> [Users -> WalletRow]]

Init ==
  /\ wallet = [u \in Users |-> [available |-> 0, pending |-> 0, version |-> 0]]
  /\ operation = [k \in Keys |-> NoOperation]
  /\ input \in Workloads
  /\ isolation \in Isolations
  /\ pc = [c \in Calls |-> "insertKey"]
  /\ locks = NoLocks
  /\ view = [c \in Calls |-> wallet]
  /\ saved = [c \in Calls |-> wallet]

-----------------------------------------------------------------------------
Key(c) == input[c].key
Delta(c, u, b) == input[c].entries[<<u, b>>]
Changed(c, u) == {b \in Buckets : Delta(c, u, b) # 0}
UsersOf(c) == {u \in Users : Changed(c, u) # {}}

KeyRow(c) == <<"key", Key(c)>>

\* The wallet, in order of user id, that c has still to lock in this mode.
NextWallet(c, mode) ==
  <<"wallet", Min({u \in UsersOf(c) : ~Holds(c, <<"wallet", u>>, mode)})>>

\* Are all wallets of c locked in this mode?
AllLocked(c, mode) == \A u \in UsersOf(c) : Holds(c, <<"wallet", u>>, mode)

Goto(c, label) == pc' = [pc EXCEPT ![c] = label]

End(c, outcome) ==
  /\ Goto(c, outcome)
  /\ ReleaseLocks(c)

Rollback(c, outcome) ==
  /\ End(c, outcome)
  /\ UNCHANGED <<wallet, operation, view, saved>>

-----------------------------------------------------------------------------
\* INSERT IGNORE INTO wallet_operations: the first caller of a key inserts it;
\* callers that come before it commits wait, later ones find the row.
InsertKey(c) ==
  /\ pc[c] = "insertKey"
  /\ Acquire(c, KeyRow(c), IF operation[Key(c)] = NoOperation THEN "X" ELSE "S")
  /\ Goto(c, "lockKey")
  /\ UNCHANGED <<wallet, operation, view, saved>>

\* SELECT ... WHERE idempotency_key = ... FOR UPDATE
LockKey(c) ==
  /\ pc[c] = "lockKey"
  /\ Acquire(c, KeyRow(c), "X")
  /\ Goto(c, "check")
  /\ UNCHANGED <<wallet, operation, view, saved>>

\* Mutant of Check: an operation that is completed already is applied again.
CheckNothing(c) ==
  /\ pc[c] = "check"
  /\ Goto(c, "insertWallets")
  /\ view' = [view EXCEPT ![c] = wallet]
  /\ UNCHANGED <<wallet, operation, locks, saved>>

\* Mutant of Check: a replay returns without ending the transaction.
CheckUnended(c) ==
  /\ pc[c] = "check"
  /\ IF operation[Key(c)] = NoOperation
     THEN /\ Goto(c, "insertWallets")
          /\ view' = [view EXCEPT ![c] = wallet]
          /\ UNCHANGED <<wallet, operation, locks, saved>>
     ELSE /\ Goto(c, IF operation[Key(c)].entries = input[c].entries
                     THEN "replayed" ELSE "conflict")
          /\ UNCHANGED <<wallet, operation, locks, view, saved>>

\* Another request under the same key is refused.  An earlier completion is
\* returned as it is.  The look for existing entries is the first plain SELECT:
\* it takes the read view.
Check(c) ==
  /\ pc[c] = "check"
  /\ IF operation[Key(c)] = NoOperation
     THEN /\ Goto(c, "insertWallets")
          /\ view' = [view EXCEPT ![c] = wallet]
          /\ UNCHANGED <<wallet, operation, locks, saved>>
     ELSE Rollback(c, IF operation[Key(c)].entries = input[c].entries
                      THEN "replayed" ELSE "conflict")

\* INSERT IGNORE INTO wallets finds the rows there and locks them one by one.
InsertWallets(c) ==
  /\ pc[c] = "insertWallets"
  /\ IF AllLocked(c, "S")
     THEN Goto(c, "lockWallets") /\ UNCHANGED locks
     ELSE Acquire(c, NextWallet(c, "S"), "S") /\ UNCHANGED pc
  /\ UNCHANGED <<wallet, operation, view, saved>>

\* Mutant of LockWallets: the wallets are read without FOR UPDATE.
LockWalletsNot(c) ==
  /\ pc[c] = "lockWallets"
  /\ Goto(c, "save")
  /\ UNCHANGED <<wallet, operation, locks, view, saved>>

\* SELECT ... FROM wallets ... FOR UPDATE
LockWallets(c) ==
  /\ pc[c] = "lockWallets"
  /\ IF AllLocked(c, "X")
     THEN Goto(c, "save") /\ UNCHANGED locks
     ELSE Acquire(c, NextWallet(c, "X"), "X") /\ UNCHANGED pc
  /\ UNCHANGED <<wallet, operation, view, saved>>

\* The entity manager.save receives: one save and one version step per entry.
Entity(c, u) ==
  [available |-> wallet[u].available + Delta(c, u, "available"),
   pending   |-> wallet[u].pending + Delta(c, u, "pending"),
   version   |-> wallet[u].version + Cardinality(Changed(c, u))]

\* The row as saved: with two entries on a wallet the second save reads the row
\* the first one wrote, and writes what that left out.
SavedRow(c, u) ==
  IF Cardinality(Changed(c, u)) = 2
  THEN Entity(c, u)
  ELSE [col \in DOMAIN wallet[u] |->
          Saved(Entity(c, u)[col], Read(view[c][u], wallet[u])[col], wallet[u][col])]

\* after < 0n throws; otherwise every wallet of the operation is saved.
Save(c) ==
  /\ pc[c] = "save"
  /\ IF \E u \in UsersOf(c) : Entity(c, u).available < 0 \/ Entity(c, u).pending < 0
     THEN Rollback(c, "insufficient")
     ELSE /\ saved' = [saved EXCEPT ![c] =
                         [u \in Users |-> IF u \in UsersOf(c) THEN SavedRow(c, u) ELSE @[u]]]
          /\ Goto(c, "commit")
          /\ UNCHANGED <<wallet, operation, locks, view>>

\* The entries and the completed operation are saved, and all of it commits.
Commit(c) ==
  /\ pc[c] = "commit"
  /\ wallet' = [u \in Users |-> IF u \in UsersOf(c) THEN saved[c][u] ELSE wallet[u]]
  /\ operation' = [operation EXCEPT ![Key(c)] =
                     [status |-> "completed", entries |-> input[c].entries]]
  /\ End(c, "applied")
  /\ UNCHANGED <<view, saved>>

-----------------------------------------------------------------------------
\* The row lock the current statement of c is asking for.
Asking(c) ==
  CASE pc[c] = "insertKey" ->
         {<<KeyRow(c), IF operation[Key(c)] = NoOperation THEN "X" ELSE "S">>}
    [] pc[c] = "lockKey" -> {<<KeyRow(c), "X">>}
    [] pc[c] = "insertWallets" /\ ~AllLocked(c, "S") -> {<<NextWallet(c, "S"), "S">>}
    [] pc[c] = "lockWallets" /\ ~AllLocked(c, "X") -> {<<NextWallet(c, "X"), "X">>}
    [] OTHER -> {}

\* InnoDB finds a cycle of waits at once and rolls back one of its transactions.
DeadlockVictim(c) ==
  /\ \E W \in Cycles([d \in Calls |-> Asking(d)]) : c \in W
  /\ Rollback(c, "deadlock")

\* The connection or the server process is lost before the commit.
Crash(c) == pc[c] \in Statements /\ Rollback(c, "crashed")

Step(c) ==
  \/ InsertKey(c)
  \/ LockKey(c)
  \/ Check(c)
  \/ InsertWallets(c)
  \/ LockWallets(c)
  \/ Save(c)
  \/ Commit(c)

Ended == \A c \in Calls : pc[c] \in Outcomes

Next ==
  \/ /\ \E c \in Calls : Step(c) \/ DeadlockVictim(c) \/ Crash(c)
     /\ UNCHANGED <<input, isolation>>
  \/ Ended /\ UNCHANGED vars

Spec == Init /\ [][Next]_vars

\* The database runs every statement that is not blocked and breaks every cycle.
Fairness ==
  \A c \in Calls : /\ WF_vars(Step(c) /\ UNCHANGED <<input, isolation>>)
                   /\ WF_vars(DeadlockVictim(c) /\ UNCHANGED <<input, isolation>>)

FairSpec == Spec /\ Fairness

-----------------------------------------------------------------------------
balance == [a \in Accounts |-> wallet[a[1]][a[2]]]

\* The ledger as its callers see it, if the transactions did not interleave.
Atomic == INSTANCE WalletLedger WITH ReversalKey <- << >>

\* Interleaved calls implement the ledger that applies each of them at once,
\* provided that a plain SELECT reads the latest committed row.
ImplementsLedger ==
  Atomic!LedgerInit /\ [][isolation = "READ COMMITTED" => Atomic!LedgerNext]_<<balance, operation>>

\* "completed: every ledger entry and every balance was updated".
BalancesMatchEntries == Atomic!BalancesMatchEntries

\* Of all the calls with one key at most one moves points, whichever of them
\* wait, deadlock or crash on the way; a replayed call finds its own request
\* completed, and a conflicting one finds another.
AppliedOnce ==
  /\ \A c, d \in Calls : pc[c] = "applied" /\ pc[d] = "applied" /\ Key(c) = Key(d) => c = d
  /\ \A c \in Calls :
       /\ pc[c] \in {"applied", "replayed", "conflict"} => operation[Key(c)].status = "completed"
       /\ pc[c] \in {"applied", "replayed"} => operation[Key(c)].entries = input[c].entries
       /\ pc[c] = "conflict" => operation[Key(c)].entries # input[c].entries

\* Every call ends, with an outcome its caller sees: a wait for a row lock always
\* ends, because each of the ways a call can end gives back its locks, and a
\* deadlock is broken.
EveryCallEnds == \A c \in Calls : <>(pc[c] \in Outcomes)

=============================================================================
