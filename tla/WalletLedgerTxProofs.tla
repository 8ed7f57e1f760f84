------------------------ MODULE WalletLedgerTxProofs ------------------------
(***************************************************************************)
(* Concurrent calls of applyOperation apply each key once, and implement   *)
(* the atomic ledger if a plain SELECT reads the latest committed row, for *)
(* any users, keys, requests and calls.                                    *)
(*                                                                         *)
(* The argument is two-phase locking: a call that has passed its check     *)
(* owns its key's row until it ends, so the key stays free; a call that    *)
(* saves owns its wallets until it ends, so what it has computed from them *)
(* is still right at its commit.                                           *)
(***************************************************************************)
EXTENDS WalletLedgerTx, FiniteSetTheorems, TLAPS

\* An exclusive lock is the only lock on its row.
Exclusive ==
  \A r \in Rows : \A c, d \in Calls :
    Holds(c, r, "X") /\ (Holds(d, r, "X") \/ Holds(d, r, "S")) => c = d

\* A plain SELECT reads the latest committed row.
ReadsLatest == isolation = "READ COMMITTED"

\* The statements of a call that has found its key free.
Working == {"insertWallets", "lockWallets", "save", "commit"}

KeyOwned(c) ==
  /\ pc[c] = "check" => Holds(c, KeyRow(c), "X")
  /\ pc[c] \in Working => Holds(c, KeyRow(c), "X") /\ operation[Key(c)] = NoOperation

WalletsOwned(c) == pc[c] \in {"save", "commit"} => AllLocked(c, "X")

\* What c is about to commit follows from the wallets as they are.
SavedExactly(c) ==
  pc[c] = "commit" /\ isolation = "READ COMMITTED" =>
    \A u \in UsersOf(c) : saved[c][u] = Entity(c, u)

Answered(c) ==
  /\ pc[c] \in {"applied", "replayed", "conflict"} => operation[Key(c)].status = "completed"
  /\ pc[c] \in {"applied", "replayed"} => operation[Key(c)].entries = input[c].entries
  /\ pc[c] = "conflict" => operation[Key(c)].entries # input[c].entries

AloneApplied ==
  \A c, d \in Calls : pc[c] = "applied" /\ pc[d] = "applied" /\ Key(c) = Key(d) => c = d

CallOK(c) == KeyOwned(c) /\ WalletsOwned(c) /\ SavedExactly(c) /\ Answered(c)

IInv == TypeOK /\ Exclusive /\ AloneApplied /\ \A c \in Calls : CallOK(c)

-----------------------------------------------------------------------------
LEMMA LockRows ==
  /\ \A c \in Calls : input \in Workloads => KeyRow(c) \in Rows /\ Key(c) \in Keys
  /\ \A u \in Users : <<"wallet", u>> \in Rows
BY TxAssumption DEF KeyRow, Key, Rows

\* A lock that is granted leaves exclusive locks alone on their rows.
LEMMA Granted ==
  ASSUME TypeOK, Exclusive, NEW c \in Calls, NEW r, NEW mode \in {"S", "X"},
         Acquire(c, r, mode)
  PROVE  /\ LocksTypeOK' /\ Exclusive'
         /\ \A d \in Calls, q \in Rows, m \in {"S", "X"} : Holds(d, q, m) => Holds(d, q, m)'
         /\ r \in Rows => Holds(c, r, mode)'
<1>1. /\ locks \in [Rows -> SUBSET (Calls \X {"S", "X"})]
      /\ locks' = [locks EXCEPT ![r] = @ \cup {<<c, mode>>}]
  BY DEF TypeOK, LocksTypeOK, Acquire
<1>2. LocksTypeOK'
  <2>1. <<c, mode>> \in Calls \X {"S", "X"}
    OBVIOUS
  <2>2. \A q \in Rows : locks[q] \cup {<<c, mode>>} \in SUBSET (Calls \X {"S", "X"})
    BY <1>1, <2>1
  <2> QED
    BY <1>1, <2>2 DEF LocksTypeOK
<1>3. \A d \in Calls, q \in Rows, m \in {"S", "X"} :
        Holds(d, q, m)' <=> Holds(d, q, m) \/ (d = c /\ q = r /\ m = mode)
  BY <1>1 DEF Holds
<1>4. \A d \in Calls \ {c} : /\ ~ Holds(d, r, "X")
                             /\ mode = "X" => ~ Holds(d, r, "S")
  BY DEF Acquire, Blockers
<1>5. Exclusive'
  <2> SUFFICES ASSUME NEW q \in Rows, NEW d \in Calls, NEW e \in Calls,
                      Holds(d, q, "X")', Holds(e, q, "X")' \/ Holds(e, q, "S")'
               PROVE  d = e
    BY DEF Exclusive
  <2>1. CASE q = r
    BY <1>3, <1>4, <2>1 DEF Exclusive
  <2>2. CASE q # r
    BY <1>3, <2>2 DEF Exclusive
  <2> QED
    BY <2>1, <2>2
<1> QED
  BY <1>2, <1>3, <1>5

\* The end of a call takes nobody else's locks.
LEMMA Released ==
  ASSUME TypeOK, Exclusive, NEW c \in Calls, ReleaseLocks(c)
  PROVE  /\ LocksTypeOK' /\ Exclusive'
         /\ \A d \in Calls \ {c}, q \in Rows, m \in {"S", "X"} : Holds(d, q, m) => Holds(d, q, m)'
<1>1. /\ locks \in [Rows -> SUBSET (Calls \X {"S", "X"})]
      /\ locks' = [q \in Rows |-> {h \in locks[q] : h[1] # c}]
  BY DEF TypeOK, LocksTypeOK, ReleaseLocks
<1>2. LocksTypeOK'
  BY <1>1 DEF LocksTypeOK
<1>3. \A d \in Calls, q \in Rows, m \in {"S", "X"} : Holds(d, q, m)' <=> Holds(d, q, m) /\ d # c
  BY <1>1 DEF Holds
<1>4. Exclusive'
  BY <1>3 DEF Exclusive
<1> QED
  BY <1>2, <1>3, <1>4

-----------------------------------------------------------------------------
LEMMA DeltaType ==
  ASSUME TypeOK, NEW c \in Calls, NEW u \in Users, NEW b \in Buckets
  PROVE  Delta(c, u, b) \in Int
<1>1. input[c].entries \in [Accounts -> Int]
  BY TxAssumption DEF TypeOK
<1>2. <<u, b>> \in Accounts
  BY DEF Accounts
<1> QED
  BY <1>1, <1>2 DEF Delta

LEMMA ChangedType ==
  ASSUME NEW c, NEW u
  PROVE  Cardinality(Changed(c, u)) \in Nat
<1>1. IsFiniteSet({"available", "pending"})
  <2>1. IsFiniteSet({"available"})
    BY FS_Singleton
  <2>2. {"available", "pending"} = {"available"} \cup {"pending"}
    OBVIOUS
  <2> QED
    BY <2>1, <2>2, FS_AddElement
<1>2. Changed(c, u) \subseteq {"available", "pending"}
  BY DEF Changed, Buckets
<1> QED
  BY <1>1, <1>2, FS_Subset, FS_CardinalityType

LEMMA EntityType ==
  ASSUME TypeOK, NEW c \in Calls, NEW u \in Users,
         Entity(c, u).available >= 0, Entity(c, u).pending >= 0
  PROVE  Entity(c, u) \in WalletRow
<1>1. wallet[u] \in WalletRow
  BY DEF TypeOK
<1>2. Delta(c, u, "available") \in Int /\ Delta(c, u, "pending") \in Int
  BY DeltaType DEF Buckets
<1>3. Cardinality(Changed(c, u)) \in Nat
  BY ChangedType
<1> QED
  BY <1>1, <1>2, <1>3 DEF Entity, WalletRow

\* A row that is saved is a row; it is what the call has computed if the plain
\* SELECT of save shows the row as it is.
LEMMA SavedRowIs ==
  ASSUME TypeOK, NEW c \in Calls, NEW u \in Users,
         Entity(c, u).available >= 0, Entity(c, u).pending >= 0
  PROVE  /\ SavedRow(c, u) \in WalletRow
         /\ isolation = "READ COMMITTED" => SavedRow(c, u) = Entity(c, u)
<1>1. Entity(c, u) \in WalletRow /\ wallet[u] \in WalletRow /\ view[c][u] \in WalletRow
  BY EntityType DEF TypeOK
<1>2. CASE Cardinality(Changed(c, u)) = 2
  BY <1>1, <1>2 DEF SavedRow
<1>3. CASE Cardinality(Changed(c, u)) # 2
  <2> DEFINE E == Entity(c, u)
             R == Read(view[c][u], wallet[u])
             W == wallet[u]
             Cols == {"available", "pending", "version"}
  <2>1. DOMAIN W = Cols
    BY <1>1 DEF WalletRow
  <2>2. SavedRow(c, u) = [col \in Cols |-> IF E[col] = R[col] THEN W[col] ELSE E[col]]
    BY <1>3, <2>1 DEF SavedRow, Saved
  <2>3. SavedRow(c, u) = [available |-> SavedRow(c, u).available, pending |-> SavedRow(c, u).pending,
                          version |-> SavedRow(c, u).version]
    BY <2>2
  <2>4. /\ SavedRow(c, u).available \in Nat
        /\ SavedRow(c, u).pending \in Nat
        /\ SavedRow(c, u).version \in Nat
    BY <1>1, <2>2 DEF WalletRow
  <2>5. SavedRow(c, u) \in WalletRow
    BY <2>3, <2>4 DEF WalletRow
  <2>6. ASSUME isolation = "READ COMMITTED"
        PROVE  SavedRow(c, u) = E
    <3>1. R = W
      BY <2>6 DEF Read
    <3>2. SavedRow(c, u).available = E.available /\ SavedRow(c, u).pending = E.pending
             /\ SavedRow(c, u).version = E.version
      BY <2>2, <3>1
    <3> QED
      BY <1>1, <2>5, <3>2 DEF WalletRow
  <2> QED
    BY <2>5, <2>6
<1> QED
  BY <1>2, <1>3

-----------------------------------------------------------------------------
\* A step of c that leaves the committed rows alone changes nothing for others.
LEMMA OthersKeep ==
  ASSUME IInv, NEW c \in Calls, NEW label \in Statements \cup Outcomes, Goto(c, label),
         UNCHANGED <<wallet, operation, input, isolation>>,
         \A d \in Calls \ {c} : saved'[d] = saved[d],
         \A d \in Calls \ {c}, q \in Rows, m \in {"S", "X"} : Holds(d, q, m) => Holds(d, q, m)'
  PROVE  /\ \A d \in Calls \ {c} : CallOK(d)'
         /\ pc' \in [Calls -> Statements \cup Outcomes]
         /\ pc'[c] = label
         /\ \A d \in Calls \ {c} : pc'[d] = pc[d]
<1>1. /\ pc' \in [Calls -> Statements \cup Outcomes]
      /\ pc'[c] = label
      /\ \A d \in Calls \ {c} : pc'[d] = pc[d]
  BY DEF IInv, TypeOK, Goto
<1>2. ASSUME NEW d \in Calls \ {c}
      PROVE  CallOK(d)'
  <2>1. CallOK(d) /\ pc'[d] = pc[d] /\ saved'[d] = saved[d]
    BY <1>1 DEF IInv
  <2>2. KeyRow(d) \in Rows /\ \A u \in Users : <<"wallet", u>> \in Rows
    BY LockRows DEF IInv, TypeOK
  <2>3. /\ KeyRow(d)' = KeyRow(d) /\ Key(d)' = Key(d)
        /\ UsersOf(d)' = UsersOf(d)
        /\ \A u \in Users : Entity(d, u)' = Entity(d, u)
    BY DEF KeyRow, Key, UsersOf, Changed, Delta, Entity
  <2>4. KeyOwned(d)'
    BY <2>1, <2>2, <2>3 DEF CallOK, KeyOwned
  <2>5. WalletsOwned(d)'
    BY <2>1, <2>2, <2>3 DEF CallOK, WalletsOwned, AllLocked, UsersOf
  <2>6. SavedExactly(d)'
    BY <2>1, <2>3 DEF CallOK, SavedExactly, UsersOf
  <2>7. Answered(d)'
    BY <2>1, <2>3 DEF CallOK, Answered
  <2> QED
    BY <2>4, <2>5, <2>6, <2>7 DEF CallOK
<1> QED
  BY <1>1, <1>2

\* A call that ends without writing.
LEMMA RollbackKeeps ==
  ASSUME IInv, NEW c \in Calls, NEW outcome \in Outcomes \ {"applied"}, Rollback(c, outcome),
         UNCHANGED <<input, isolation>>,
         outcome \in {"replayed", "conflict"} =>
           /\ operation[Key(c)].status = "completed"
           /\ outcome = "replayed" <=> operation[Key(c)].entries = input[c].entries
  PROVE  IInv'
<1>1. /\ Goto(c, outcome) /\ ReleaseLocks(c)
      /\ UNCHANGED <<wallet, operation, view, saved, input, isolation>>
  BY DEF Rollback, End
<1>2. /\ LocksTypeOK' /\ Exclusive'
      /\ \A d \in Calls \ {c}, q \in Rows, m \in {"S", "X"} : Holds(d, q, m) => Holds(d, q, m)'
  BY <1>1, Released DEF IInv
<1>3. /\ \A d \in Calls \ {c} : CallOK(d)'
      /\ pc' \in [Calls -> Statements \cup Outcomes]
      /\ pc'[c] = outcome
      /\ \A d \in Calls \ {c} : pc'[d] = pc[d]
  BY <1>1, <1>2, OthersKeep
<1>4. TypeOK'
  BY <1>1, <1>2, <1>3 DEF IInv, TypeOK
<1>5. AloneApplied'
  BY <1>1, <1>3 DEF IInv, AloneApplied, Key
<1>6. CallOK(c)'
  <2>1. outcome \notin Working \cup {"check"}
    BY DEF Outcomes, Working
  <2>2. KeyOwned(c)' /\ WalletsOwned(c)' /\ SavedExactly(c)'
    BY <1>3, <2>1 DEF KeyOwned, WalletsOwned, SavedExactly, Working
  <2>3. Answered(c)'
    BY <1>1, <1>3 DEF Answered, Key
  <2> QED
    BY <2>2, <2>3 DEF CallOK
<1> QED
  BY <1>2, <1>3, <1>4, <1>5, <1>6 DEF IInv

\* A statement of c that goes on, and may lock a row; what is left to show is
\* that c itself is where it should be.
LEMMA OnwardKeeps ==
  ASSUME IInv, NEW c \in Calls, NEW label \in Statements, Goto(c, label),
         UNCHANGED locks \/ \E mode \in {"S", "X"} : \E r : Acquire(c, r, mode),
         UNCHANGED <<wallet, operation, input, isolation>>,
         view' \in [Calls -> [Users -> WalletRow]],
         saved' \in [Calls -> [Users -> WalletRow]],
         \A d \in Calls \ {c} : saved'[d] = saved[d],
         CallOK(c)'
  PROVE  IInv'
<1>1. /\ LocksTypeOK' /\ Exclusive'
      /\ \A d \in Calls, q \in Rows, m \in {"S", "X"} : Holds(d, q, m) => Holds(d, q, m)'
  <2>1. CASE UNCHANGED locks
    BY <2>1 DEF IInv, TypeOK, LocksTypeOK, Exclusive, Holds
  <2>2. CASE \E mode \in {"S", "X"} : \E r : Acquire(c, r, mode)
    BY <2>2, Granted DEF IInv
  <2> QED
    BY <2>1, <2>2
<1>2. /\ \A d \in Calls \ {c} : CallOK(d)'
      /\ pc' \in [Calls -> Statements \cup Outcomes]
      /\ pc'[c] = label
      /\ \A d \in Calls \ {c} : pc'[d] = pc[d]
  BY <1>1, OthersKeep
<1>3. TypeOK'
  BY <1>1, <1>2 DEF IInv, TypeOK
<1>4. AloneApplied'
  BY <1>2 DEF IInv, AloneApplied, Key, Statements
<1> QED
  BY <1>1, <1>2, <1>3, <1>4 DEF IInv

-----------------------------------------------------------------------------
\* The lock of the key is exclusive from the second statement on.
LEMMA KeyLockKeeps ==
  ASSUME IInv, NEW c \in Calls, InsertKey(c) \/ LockKey(c), UNCHANGED <<input, isolation>>
  PROVE  IInv'
<1>1. KeyRow(c) \in Rows
  BY LockRows DEF IInv, TypeOK
<1>2. CASE InsertKey(c)
  <2> DEFINE mode == IF operation[Key(c)] = NoOperation THEN "X" ELSE "S"
  <2>1. /\ Goto(c, "lockKey") /\ Acquire(c, KeyRow(c), mode)
        /\ UNCHANGED <<wallet, operation, view, saved>>
        /\ pc'[c] = "lockKey"
    BY <1>2 DEF InsertKey, Goto, IInv, TypeOK
  <2>2. CallOK(c)'
    BY <2>1 DEF CallOK, KeyOwned, WalletsOwned, SavedExactly, Answered, Working
  <2>3. "lockKey" \in Statements /\ \E m \in {"S", "X"} : \E r : Acquire(c, r, m)
    BY <2>1 DEF Statements
  <2>4. /\ view' \in [Calls -> [Users -> WalletRow]]
        /\ saved' \in [Calls -> [Users -> WalletRow]]
        /\ \A d \in Calls \ {c} : saved'[d] = saved[d]
    BY <2>1 DEF IInv, TypeOK
  <2> QED
    BY <2>1, <2>2, <2>3, <2>4, OnwardKeeps
<1>3. CASE LockKey(c)
  <2>1. /\ Goto(c, "check") /\ Acquire(c, KeyRow(c), "X")
        /\ UNCHANGED <<wallet, operation, view, saved>>
        /\ pc'[c] = "check"
    BY <1>3 DEF LockKey, Goto, IInv, TypeOK
  <2>2. Holds(c, KeyRow(c), "X")'
    <3>1. KeyRow(c)' = KeyRow(c)
      BY DEF KeyRow, Key
    <3> QED
      BY <1>1, <2>1, <3>1, Granted DEF IInv
  <2>3. CallOK(c)'
    BY <2>1, <2>2 DEF CallOK, KeyOwned, WalletsOwned, SavedExactly, Answered, Working
  <2>4. "check" \in Statements /\ \E m \in {"S", "X"} : \E r : Acquire(c, r, m)
    BY <2>1 DEF Statements
  <2>5. /\ view' \in [Calls -> [Users -> WalletRow]]
        /\ saved' \in [Calls -> [Users -> WalletRow]]
        /\ \A d \in Calls \ {c} : saved'[d] = saved[d]
    BY <2>1 DEF IInv, TypeOK
  <2> QED
    BY <2>1, <2>3, <2>4, <2>5, OnwardKeeps
<1> QED
  BY <1>2, <1>3

LEMMA CheckKeeps ==
  ASSUME IInv, NEW c \in Calls, Check(c), UNCHANGED <<input, isolation>>
  PROVE  IInv'
<1>1. pc[c] = "check" /\ KeyOwned(c)
  BY DEF IInv, CallOK, Check
<1>2. CASE operation[Key(c)] = NoOperation
  <2>1. /\ Goto(c, "insertWallets") /\ view' = [view EXCEPT ![c] = wallet]
        /\ UNCHANGED <<wallet, operation, locks, saved>>
        /\ pc'[c] = "insertWallets"
    BY <1>2 DEF Check, Goto, IInv, TypeOK
  <2>2. CallOK(c)'
    BY <1>1, <1>2, <2>1
       DEF CallOK, KeyOwned, WalletsOwned, SavedExactly, Answered, KeyRow, Key, Holds
  <2>3. view' \in [Calls -> [Users -> WalletRow]] /\ "insertWallets" \in Statements
    BY <2>1 DEF IInv, TypeOK, Statements
  <2> QED
    BY <2>1, <2>2, <2>3, OnwardKeeps DEF IInv, TypeOK
<1>3. CASE operation[Key(c)] # NoOperation
  <2> DEFINE outcome == IF operation[Key(c)].entries = input[c].entries
                        THEN "replayed" ELSE "conflict"
  <2>1. Rollback(c, outcome)
    BY <1>3 DEF Check
  <2>2. operation[Key(c)].status = "completed"
    BY <1>3, LockRows DEF IInv, TypeOK
  <2>3. outcome \in Outcomes \ {"applied"}
    BY DEF Outcomes
  <2> QED
    BY <2>1, <2>2, <2>3, RollbackKeeps
<1> QED
  BY <1>2, <1>3

\* The wallets are locked while the key is owned.
LEMMA WalletLockKeeps ==
  ASSUME IInv, NEW c \in Calls, InsertWallets(c) \/ LockWallets(c), UNCHANGED <<input, isolation>>
  PROVE  IInv'
<1>1. /\ pc[c] \in {"insertWallets", "lockWallets"}
      /\ UNCHANGED <<wallet, operation, view, saved>>
  BY DEF InsertWallets, LockWallets
<1>2. KeyRow(c) \in Rows /\ Holds(c, KeyRow(c), "X") /\ operation[Key(c)] = NoOperation
  BY <1>1, LockRows DEF IInv, TypeOK, CallOK, KeyOwned, Working
<1>3. KeyRow(c)' = KeyRow(c) /\ Key(c)' = Key(c) /\ UsersOf(c)' = UsersOf(c)
  BY DEF KeyRow, Key, UsersOf, Changed, Delta
<1>4. PICK label \in {"insertWallets", "lockWallets", "save"} :
        /\ Goto(c, label)
        /\ label = "save" => AllLocked(c, "X") /\ UNCHANGED locks
        /\ UNCHANGED locks \/ \E mode \in {"S", "X"} : \E r : Acquire(c, r, mode)
  <2>1. CASE InsertWallets(c) /\ AllLocked(c, "S")
    BY <2>1 DEF InsertWallets
  <2>2. CASE LockWallets(c) /\ AllLocked(c, "X")
    BY <2>2 DEF LockWallets
  <2>3. CASE InsertWallets(c) /\ ~ AllLocked(c, "S")
    <3>1. Goto(c, "insertWallets") /\ Acquire(c, NextWallet(c, "S"), "S")
      BY <2>3 DEF InsertWallets, Goto, IInv, TypeOK
    <3>2. \E mode \in {"S", "X"} : \E r : Acquire(c, r, mode)
      BY <3>1
    <3> QED
      BY <3>1, <3>2
  <2>4. CASE LockWallets(c) /\ ~ AllLocked(c, "X")
    <3>1. Goto(c, "lockWallets") /\ Acquire(c, NextWallet(c, "X"), "X")
      BY <2>4 DEF LockWallets, Goto, IInv, TypeOK
    <3>2. \E mode \in {"S", "X"} : \E r : Acquire(c, r, mode)
      BY <3>1
    <3> QED
      BY <3>1, <3>2
  <2> QED
    BY <2>1, <2>2, <2>3, <2>4
<1>5. pc'[c] = label
  BY <1>4 DEF Goto, IInv, TypeOK
<1>6. Holds(c, KeyRow(c), "X")'
  <2>1. CASE UNCHANGED locks
    BY <1>2, <1>3, <2>1 DEF Holds
  <2>2. CASE \E mode \in {"S", "X"} : \E r : Acquire(c, r, mode)
    BY <1>2, <1>3, <2>2, Granted DEF IInv
  <2> QED
    BY <1>4, <2>1, <2>2
<1>7. CallOK(c)'
  <2>1. KeyOwned(c)'
    BY <1>1, <1>2, <1>3, <1>6 DEF KeyOwned
  <2>2. WalletsOwned(c)'
    BY <1>3, <1>4, <1>5 DEF WalletsOwned, AllLocked, Holds
  <2>3. SavedExactly(c)' /\ Answered(c)'
    BY <1>5 DEF SavedExactly, Answered
  <2> QED
    BY <2>1, <2>2, <2>3 DEF CallOK
<1>8. label \in Statements
  BY DEF Statements
<1> QED
  BY <1>1, <1>4, <1>7, <1>8, OnwardKeeps DEF IInv, TypeOK

LEMMA SaveKeeps ==
  ASSUME IInv, NEW c \in Calls, Save(c), UNCHANGED <<input, isolation>>
  PROVE  IInv'
<1>1. pc[c] = "save" /\ KeyOwned(c) /\ WalletsOwned(c)
  BY DEF IInv, CallOK, Save
<1>2. CASE \E u \in UsersOf(c) : Entity(c, u).available < 0 \/ Entity(c, u).pending < 0
  <2>1. Rollback(c, "insufficient")
    BY <1>2 DEF Save
  <2> QED
    BY <2>1, RollbackKeeps DEF Outcomes
<1>3. CASE ~ \E u \in UsersOf(c) : Entity(c, u).available < 0 \/ Entity(c, u).pending < 0
  <2>1. /\ saved' = [saved EXCEPT ![c] =
                      [u \in Users |-> IF u \in UsersOf(c) THEN SavedRow(c, u) ELSE @[u]]]
        /\ Goto(c, "commit")
        /\ UNCHANGED <<wallet, operation, locks, view>>
        /\ pc'[c] = "commit"
    BY <1>3 DEF Save, Goto, IInv, TypeOK
  <2>2. ASSUME NEW u \in UsersOf(c)
        PROVE  /\ u \in Users
               /\ SavedRow(c, u) \in WalletRow
               /\ isolation = "READ COMMITTED" => SavedRow(c, u) = Entity(c, u)
    <3>1. u \in Users
      BY DEF UsersOf
    <3>2. /\ wallet[u] \in WalletRow
          /\ Delta(c, u, "available") \in Int /\ Delta(c, u, "pending") \in Int
      BY <3>1, DeltaType DEF IInv, TypeOK, Buckets
    <3>3. Entity(c, u).available \in Int /\ Entity(c, u).pending \in Int
      BY <3>2 DEF Entity, WalletRow
    <3>4. Entity(c, u).available >= 0 /\ Entity(c, u).pending >= 0
      BY <1>3, <3>3
    <3> QED
      BY <3>1, <3>4, SavedRowIs DEF IInv
  <2>3. /\ saved' \in [Calls -> [Users -> WalletRow]]
        /\ \A d \in Calls \ {c} : saved'[d] = saved[d]
        /\ \A u \in UsersOf(c) : saved'[c][u] = SavedRow(c, u)
    BY <2>1, <2>2 DEF IInv, TypeOK
  <2>4. CallOK(c)'
    <3>1. /\ KeyRow(c)' = KeyRow(c) /\ Key(c)' = Key(c) /\ UsersOf(c)' = UsersOf(c)
          /\ \A u \in Users : Entity(c, u)' = Entity(c, u)
      BY <2>1 DEF KeyRow, Key, UsersOf, Changed, Delta, Entity
    <3>2. KeyOwned(c)'
      BY <1>1, <2>1, <3>1 DEF KeyOwned, Working, Holds
    <3>3. WalletsOwned(c)'
      BY <1>1, <2>1, <3>1 DEF WalletsOwned, AllLocked, Holds
    <3>4. SavedExactly(c)'
      BY <2>2, <2>3, <3>1 DEF SavedExactly
    <3>5. Answered(c)'
      BY <2>1 DEF Answered
    <3> QED
      BY <3>2, <3>3, <3>4, <3>5 DEF CallOK
  <2> QED
    BY <2>1, <2>3, <2>4, OnwardKeeps DEF IInv, TypeOK, Statements
<1> QED
  BY <1>2, <1>3

-----------------------------------------------------------------------------
\* Whoever else has found its key free has another key, and its wallets are
\* not among those that are written.
LEMMA CommitKeeps ==
  ASSUME IInv, NEW c \in Calls, Commit(c), UNCHANGED <<input, isolation>>
  PROVE  IInv'
<1>1. /\ pc[c] = "commit"
      /\ wallet' = [u \in Users |-> IF u \in UsersOf(c) THEN saved[c][u] ELSE wallet[u]]
      /\ operation' = [operation EXCEPT ![Key(c)] =
                         [status |-> "completed", entries |-> input[c].entries]]
      /\ Goto(c, "applied") /\ ReleaseLocks(c)
      /\ UNCHANGED <<view, saved, input, isolation>>
  BY DEF Commit, End
<1>2. /\ Holds(c, KeyRow(c), "X") /\ operation[Key(c)] = NoOperation
      /\ AllLocked(c, "X")
  BY <1>1 DEF IInv, CallOK, KeyOwned, WalletsOwned, Working
<1>3. /\ LocksTypeOK' /\ Exclusive'
      /\ \A d \in Calls \ {c}, q \in Rows, m \in {"S", "X"} : Holds(d, q, m) => Holds(d, q, m)'
  BY <1>1, Released DEF IInv
<1>4. /\ pc' \in [Calls -> Statements \cup Outcomes]
      /\ pc'[c] = "applied"
      /\ \A d \in Calls \ {c} : pc'[d] = pc[d]
  BY <1>1 DEF IInv, TypeOK, Goto, Outcomes
<1>5. /\ input[c].entries \in Requests
      /\ \A d \in Calls : KeyRow(d) \in Rows /\ Key(d) \in Keys
      /\ \A u \in Users : <<"wallet", u>> \in Rows
  BY TxAssumption, LockRows DEF IInv, TypeOK
<1>6. /\ operation'[Key(c)] = [status |-> "completed", entries |-> input[c].entries]
      /\ \A k \in Keys \ {Key(c)} : operation'[k] = operation[k]
  BY <1>1, <1>5 DEF IInv, TypeOK
<1>7. TypeOK'
  <2>1. wallet' \in [Users -> WalletRow]
    BY <1>1 DEF IInv, TypeOK
  <2>2. operation' \in [Keys -> [status : {"completed"}, entries : Requests] \cup {NoOperation}]
    BY <1>1, <1>5 DEF IInv, TypeOK
  <2> QED
    BY <1>1, <1>3, <1>4, <2>1, <2>2 DEF IInv, TypeOK
<1>8. ASSUME NEW d \in Calls
      PROVE  /\ KeyRow(d)' = KeyRow(d) /\ Key(d)' = Key(d) /\ UsersOf(d)' = UsersOf(d)
             /\ \A u \in Users : wallet'[u] = wallet[u] => Entity(d, u)' = Entity(d, u)
  BY <1>1 DEF KeyRow, Key, UsersOf, Changed, Delta, Entity
<1>9. ASSUME NEW d \in Calls \ {c}
      PROVE  CallOK(d)'
  <2>1. CallOK(d) /\ pc'[d] = pc[d] /\ saved'[d] = saved[d]
    BY <1>1, <1>4 DEF IInv
  <2>2. pc[d] \in Working => Key(d) # Key(c)
    <3> SUFFICES ASSUME pc[d] \in Working, Key(d) = Key(c)
                 PROVE  FALSE
      OBVIOUS
    <3>1. Holds(d, KeyRow(c), "X")
      BY <2>1 DEF CallOK, KeyOwned, KeyRow
    <3> QED
      BY <1>2, <1>5, <3>1 DEF IInv, Exclusive
  <2>3. KeyOwned(d)'
    BY <1>3, <1>5, <1>6, <1>8, <2>1, <2>2 DEF CallOK, KeyOwned, NoOperation, Accounts, Buckets
  <2>4. WalletsOwned(d)'
    BY <1>3, <1>5, <1>8, <2>1 DEF CallOK, WalletsOwned, AllLocked, UsersOf
  <2>5. SavedExactly(d)'
    <3>1. ASSUME pc[d] = "commit", NEW u \in UsersOf(d)
          PROVE  wallet'[u] = wallet[u]
      <4>1. u \in Users /\ Holds(d, <<"wallet", u>>, "X")
        BY <2>1, <3>1 DEF CallOK, WalletsOwned, AllLocked, UsersOf
      <4>2. u \notin UsersOf(c)
        BY <1>2, <1>5, <4>1 DEF IInv, Exclusive, AllLocked
      <4> QED
        BY <1>1, <4>1, <4>2
    <3>2. \A u \in UsersOf(d) : u \in Users
      BY DEF UsersOf
    <3> QED
      BY <1>1, <1>8, <2>1, <3>1, <3>2 DEF CallOK, SavedExactly
  <2>6. Answered(d)'
    <3>1. pc[d] \in {"applied", "replayed", "conflict"} => Key(d) # Key(c)
      BY <1>2, <2>1 DEF CallOK, Answered, NoOperation
    <3> QED
      BY <1>1, <1>5, <1>6, <1>8, <2>1, <3>1 DEF CallOK, Answered
  <2> QED
    BY <2>3, <2>4, <2>5, <2>6 DEF CallOK
<1>10. CallOK(c)'
  BY <1>1, <1>4, <1>6, <1>8
     DEF CallOK, KeyOwned, WalletsOwned, SavedExactly, Answered, Working
<1>11. AloneApplied'
  <2>1. \A d \in Calls : pc[d] = "applied" => Key(d) # Key(c)
    BY <1>2 DEF IInv, CallOK, Answered, NoOperation
  <2> QED
    BY <1>4, <1>8, <2>1 DEF IInv, AloneApplied
<1> QED
  BY <1>3, <1>7, <1>9, <1>10, <1>11 DEF IInv

LEMMA InitIInv == Init => IInv
<1> SUFFICES ASSUME Init
             PROVE  IInv
  OBVIOUS
<1>1. TypeOK
  <2>1. LocksTypeOK
    BY DEF Init, LocksTypeOK, NoLocks
  <2>2. [available |-> 0, pending |-> 0, version |-> 0] \in WalletRow
    BY DEF WalletRow
  <2> QED
    BY <2>1, <2>2 DEF Init, TypeOK, Statements
<1>2. Exclusive
  BY DEF Init, Exclusive, Holds, NoLocks
<1>3. \A c \in Calls : pc[c] = "insertKey"
  BY DEF Init
<1>4. AloneApplied /\ \A c \in Calls : CallOK(c)
  BY <1>3 DEF AloneApplied, CallOK, KeyOwned, WalletsOwned, SavedExactly, Answered, Working
<1> QED
  BY <1>1, <1>2, <1>4 DEF IInv

LEMMA NextKeeps == IInv /\ [Next]_vars => IInv'
<1> SUFFICES ASSUME IInv, [Next]_vars
             PROVE  IInv'
  OBVIOUS
<1>1. ASSUME NEW c \in Calls, Step(c), UNCHANGED <<input, isolation>>
      PROVE  IInv'
  BY <1>1, KeyLockKeeps, CheckKeeps, WalletLockKeeps, SaveKeeps, CommitKeeps DEF Step
<1>2. ASSUME NEW c \in Calls, DeadlockVictim(c) \/ Crash(c), UNCHANGED <<input, isolation>>
      PROVE  IInv'
  <2>1. PICK outcome \in {"deadlock", "crashed"} : Rollback(c, outcome)
    BY <1>2 DEF DeadlockVictim, Crash
  <2> QED
    BY <1>2, <2>1, RollbackKeeps DEF Outcomes
<1>3. CASE UNCHANGED vars
  <2>1. TypeOK' /\ Exclusive' /\ AloneApplied'
    BY <1>3 DEF vars, IInv, TypeOK, LocksTypeOK, Exclusive, Holds, AloneApplied, Key
  <2>2. ASSUME NEW c \in Calls
        PROVE  CallOK(c)'
    <3>1. /\ KeyRow(c)' = KeyRow(c) /\ Key(c)' = Key(c) /\ UsersOf(c)' = UsersOf(c)
          /\ \A u \in Users : Entity(c, u)' = Entity(c, u)
      BY <1>3 DEF vars, KeyRow, Key, UsersOf, Changed, Delta, Entity
    <3>2. AllLocked(c, "X")' = AllLocked(c, "X")
      BY <1>3, <3>1 DEF vars, AllLocked, Holds
    <3>3. \A u \in UsersOf(c) : u \in Users
      BY DEF UsersOf
    <3>4. CallOK(c)
      BY DEF IInv
    <3>5. KeyOwned(c)' /\ WalletsOwned(c)'
      BY <1>3, <3>1, <3>2, <3>4 DEF vars, CallOK, KeyOwned, WalletsOwned, Holds
    <3>6. SavedExactly(c)' /\ Answered(c)'
      BY <1>3, <3>1, <3>3, <3>4 DEF vars, CallOK, SavedExactly, Answered
    <3> QED
      BY <3>5, <3>6 DEF CallOK
  <2> QED
    BY <2>1, <2>2 DEF IInv
<1> QED
  BY <1>1, <1>2, <1>3 DEF Next

\* Of all calls with one idempotency key at most one moves points, and replays
\* and conflicts are told from each other, whatever waits, deadlocks and
\* crashes come between the statements of applyOperation.
THEOREM KeysAreAppliedOnce == Spec => []AppliedOnce
<1>1. IInv => AppliedOnce
  BY DEF IInv, AloneApplied, CallOK, Answered, AppliedOnce
<1> QED
  BY <1>1, InitIInv, NextKeeps, PTL DEF Spec

\* Wallets, operations, locks, read views and what the calls have computed keep
\* their types: no balance is negative, neither a committed one nor one that
\* applyOperation has read or is about to save.
THEOREM TransactionsTyping == Spec => []TypeOK
<1>1. IInv => TypeOK
  BY DEF IInv
<1> QED
  BY <1>1, InitIInv, NextKeeps, PTL DEF Spec

-----------------------------------------------------------------------------
(***************************************************************************)
(* The refinement.  Commit is the step that applies the operation; what    *)
(* it writes is the balances there are plus the operation's entries,       *)
(* because the wallets have been its own since it computed them.           *)
(***************************************************************************)
LEMMA CommitApplies ==
  ASSUME IInv, NEW c \in Calls, Commit(c), ReadsLatest
  PROVE  Atomic!LedgerNext
<1> DEFINE e == input[c].entries
<1>1. /\ pc[c] = "commit"
      /\ wallet' = [u \in Users |-> IF u \in UsersOf(c) THEN saved[c][u] ELSE wallet[u]]
      /\ operation' = [operation EXCEPT ![Key(c)] = [status |-> "completed", entries |-> e]]
  BY DEF Commit
<1>2. operation[Key(c)] = NoOperation /\ SavedExactly(c)
  BY <1>1 DEF IInv, CallOK, KeyOwned, Working
<1>3. e \in Requests /\ Key(c) \in Keys
  BY TxAssumption DEF IInv, TypeOK, Key
<1>4. ASSUME NEW u \in Users, NEW b \in Buckets
      PROVE  /\ wallet'[u][b] = wallet[u][b] + Delta(c, u, b)
             /\ wallet'[u][b] \in Nat
  <2>1. wallet[u] \in WalletRow /\ saved[c][u] \in WalletRow /\ Delta(c, u, b) \in Int
    BY DeltaType DEF IInv, TypeOK
  <2>2. CASE u \in UsersOf(c)
    <3>1. wallet'[u] = saved[c][u] /\ saved[c][u] = Entity(c, u)
      BY <1>1, <1>2, <2>2 DEF SavedExactly, ReadsLatest
    <3>2. CASE b = "available"
      BY <2>1, <3>1, <3>2 DEF Entity, WalletRow
    <3>3. CASE b = "pending"
      BY <2>1, <3>1, <3>3 DEF Entity, WalletRow
    <3> QED
      BY <3>2, <3>3 DEF Buckets
  <2>3. CASE u \notin UsersOf(c)
    <3>1. wallet'[u] = wallet[u]
      BY <1>1, <2>3
    <3>2. Delta(c, u, b) = 0
      BY <2>3 DEF UsersOf, Changed
    <3>3. wallet[u][b] \in Nat
      BY <2>1 DEF WalletRow, Buckets
    <3> QED
      BY <3>1, <3>2, <3>3
  <2> QED
    BY <2>2, <2>3
<1>5. /\ balance' = [a \in Accounts |-> balance[a] + e[a]]
      /\ balance' \in [Accounts -> Nat]
  <2>1. ASSUME NEW a \in Accounts
        PROVE  balance'[a] = balance[a] + e[a] /\ balance'[a] \in Nat
    <3>1. PICK u \in Users, b \in Buckets : a = <<u, b>>
      BY DEF Accounts
    <3>2. /\ balance[a] = wallet[u][b]
          /\ balance'[a] = wallet'[u][b]
          /\ e[a] = Delta(c, u, b)
      BY <3>1 DEF balance, Delta
    <3> QED
      BY <1>4, <3>1, <3>2
  <2> QED
    BY <2>1 DEF balance
<1>6. Atomic!Post(e)
  BY <1>5 DEF Atomic!Post, Atomic!Accounts, Atomic!Buckets, Accounts, Buckets
<1>7. Atomic!ApplyOperation(Key(c), e)
  BY <1>1, <1>2, <1>6 DEF Atomic!ApplyOperation, Atomic!Completed, Atomic!NoOperation,
     Atomic!Accounts, Atomic!Buckets, NoOperation, Accounts, Buckets
<1>8. Key(c) \in Atomic!BusinessKeys
  <2>1. DOMAIN << >> = {}
    OBVIOUS
  <2> QED
    BY <1>3, <2>1 DEF Atomic!BusinessKeys
<1> QED
  BY <1>3, <1>7, <1>8 DEF Atomic!LedgerNext

\* Every statement but the commit is invisible to the ledger.
LEMMA OtherStepsStutter ==
  ASSUME [Next]_vars, ~ \E c \in Calls : Commit(c)
  PROVE  UNCHANGED <<balance, operation>>
<1>1. UNCHANGED <<wallet, operation>>
  BY DEF Next, Step, DeadlockVictim, Crash, Rollback, InsertKey, LockKey, Check, InsertWallets,
         LockWallets, Save, vars
<1> QED
  BY <1>1 DEF balance

\* Interleaved calls of applyOperation implement the ledger that applies each of
\* them at once, provided that a plain SELECT reads the latest committed row.
THEOREM TransactionsImplementLedger == Spec => ImplementsLedger
<1>1. Init => Atomic!LedgerInit
  BY DEF Init, balance, Accounts, Buckets, NoOperation, Atomic!LedgerInit, Atomic!Accounts,
         Atomic!Buckets, Atomic!NoOperation
<1>2. IInv /\ [Next]_vars =>
        [isolation = "READ COMMITTED" => Atomic!LedgerNext]_<<balance, operation>>
  BY CommitApplies, OtherStepsStutter DEF ReadsLatest
<1> QED
  BY <1>1, <1>2, InitIInv, NextKeeps, PTL DEF Spec, ImplementsLedger

-----------------------------------------------------------------------------
\* The ledger that applies each operation at once, and what is proved of it:
\* applyOperation reverses nothing, so that no key is one of a reversal.
Ledger == INSTANCE WalletLedgerProofs WITH ReversalKey <- << >>

\* The isolation level is that of the database: no step changes it.
LEMMA IsolationStays ==
  /\ ReadsLatest /\ [Next]_vars => ReadsLatest'
  /\ ~ ReadsLatest /\ [Next]_vars => ~ ReadsLatest'
BY DEF Next, vars, ReadsLatest

\* If a plain SELECT reads the latest committed row, the committed balances are
\* the sums of the ledger's entries: only a stale snapshot can break this
\* (run MCWalletLedgerTxStale, applyOperation in wallet-ledger.service.ts).
THEOREM CommittedBalances == Spec => [](ReadsLatest => BalancesMatchEntries)
<1>1. Ledger!LedgerSpec => []Ledger!BalancesMatchEntries
  <2>1. DOMAIN << >> = {}
    OBVIOUS
  <2>2. Requests \subseteq [Accounts -> Int]
    BY Zenon, TxAssumption
  <2>3. Requests \subseteq Ledger!Entries
    BY <2>2 DEF Ledger!Entries, Ledger!Accounts, Ledger!Buckets, Accounts, Buckets
  <2> QED
    BY <2>1, <2>3, Ledger!LedgerBalances
<1>2. Atomic!LedgerInit => Ledger!LedgerInit
  BY DEF Atomic!LedgerInit, Ledger!LedgerInit, Atomic!Accounts, Ledger!Accounts, Atomic!Buckets,
         Ledger!Buckets, Atomic!NoOperation, Ledger!NoOperation
<1>3. Atomic!LedgerNext => Ledger!LedgerNext
  BY DEF Atomic!LedgerNext, Ledger!LedgerNext, Atomic!BusinessKeys, Ledger!BusinessKeys,
         Atomic!ApplyOperation, Ledger!ApplyOperation, Atomic!ReverseOperation,
         Ledger!ReverseOperation, Atomic!Post, Ledger!Post, Atomic!Completed,
         Ledger!Completed, Atomic!Negated, Ledger!Negated, Atomic!NoOperation,
         Ledger!NoOperation, Atomic!Accounts, Ledger!Accounts, Atomic!Buckets,
         Ledger!Buckets, Atomic!ledgerVars, Ledger!ledgerVars
<1>4. [isolation = "READ COMMITTED" => Atomic!LedgerNext]_<<balance, operation>> /\ ReadsLatest
        => [Ledger!LedgerNext]_(Ledger!ledgerVars)
  BY <1>3 DEF ReadsLatest, Ledger!ledgerVars
<1>5. Ledger!BalancesMatchEntries => BalancesMatchEntries
  BY DEF BalancesMatchEntries, Atomic!BalancesMatchEntries, Ledger!BalancesMatchEntries, Atomic!Recorded,
         Ledger!Recorded, Atomic!NoOperation, Ledger!NoOperation, Atomic!Accounts,
         Ledger!Accounts, Atomic!Buckets, Ledger!Buckets, Atomic!SumOver,
         Ledger!SumOver, Atomic!MapThenSumSet, Ledger!MapThenSumSet,
         Atomic!MapThenFoldSet, Ledger!MapThenFoldSet
<1> QED
  BY <1>1, <1>2, <1>4, <1>5, IsolationStays, TransactionsImplementLedger, PTL
     DEF Spec, ImplementsLedger, Ledger!LedgerSpec
=============================================================================
