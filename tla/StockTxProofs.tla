---------------------------- MODULE StockTxProofs ----------------------------
(***************************************************************************)
(* Theorems about StockTx, for any variants, orders, stock, requests and   *)
(* isolation level.                                                        *)
(*                                                                         *)
(* The invariant follows a call through its program: what it has locked,   *)
(* what its read view shows of that, and what it is going to commit.  A    *)
(* locked row keeps its stock until its holder commits, so that what the   *)
(* holder has computed from it still fits the history then.  So each commit*)
(* takes a basket or gives it back at once, as the inventory says.         *)
(***************************************************************************)
EXTENDS StockTx, TLAPS

MovementKeys ==
  ({"deduct", "restore"} \X Orders \X Variants)
    \cup ({"adjust"} \X Nat \X Nat)
    \cup ({"client"} \X STRING \X Variants)
MovementRows == [key : MovementKeys, before : Nat, after : Nat]

DatabaseOK ==
  /\ stock \in Quantities
  /\ order = [o \in Orders |-> order[o]]
  /\ \A o \in Orders : order[o] = NoOrder \/ order[o] \in OrderRows
  /\ movements \in [Variants -> Seq(MovementRows)]

Steps(c) == IF Kind(c) = "adjust" THEN 4 ELSE 5

SessionsOK ==
  /\ input \in Workloads
  /\ isolation \in Isolations
  /\ pc \in [Calls -> Nat]
  /\ \A c \in Calls : pc[c] \in 1..Steps(c)
  /\ outcome \in [Calls -> Outcomes \cup {"running"}]
  /\ view \in [Calls -> Quantities]
  /\ written \in [Calls -> Quantities]
  /\ log \in [Calls -> [Variants -> Seq(MovementRows)]]

\* Only one call holds an exclusive lock on a row.
LocksOK ==
  /\ LocksTypeOK
  /\ \A r \in Rows : \A c, d \in Calls : Holds(c, r, "X") /\ Holds(d, r, "X") => c = d

Shapes == DatabaseOK /\ SessionsOK /\ LocksOK

-----------------------------------------------------------------------------
(* Where a call is in its program.                                         *)

Running(c) == outcome[c] = "running"

\* It has locked its variants.
Locked(c) ==
  /\ Running(c)
  /\ \/ Kind(c) = "checkout" /\ pc[c] >= 2
     \/ Kind(c) = "cancel" /\ pc[c] >= 3
     \/ Kind(c) = "reject" /\ pc[c] >= 4
     \/ Kind(c) = "adjust" /\ pc[c] >= 3

\* It has taken its read view after that.
Viewed(c) == Running(c) /\ Kind(c) = "checkout" /\ pc[c] >= 3

\* It has found the order it is to cancel.
Opened(c) == Running(c) /\ Kind(c) \in {"cancel", "reject"} /\ pc[c] >= 2

\* It has saved the stock of its variants.
Stored(c) ==
  /\ Running(c)
  /\ \/ Kind(c) = "checkout" /\ pc[c] >= 4
     \/ Kind(c) = "cancel" /\ pc[c] >= 4
     \/ Kind(c) = "reject" /\ pc[c] >= 5
     \/ Kind(c) = "adjust" /\ pc[c] >= 4

Latest == isolation = "READ COMMITTED"

\* What c is going to commit for v: nothing, or a movement that begins with the
\* stock there is and leaves no less than what is written, and exactly that if a
\* plain SELECT reads the latest row.
Fits(c, v) ==
  \/ log[c][v] = << >> /\ written[c][v] = stock[v]
  \/ \E m \in MovementRows :
       /\ log[c][v] = <<m>> /\ m.before = stock[v]
       /\ written[c][v] <= m.after /\ (Latest => written[c][v] = m.after)

LockedOK(c) ==
  Locked(c) => /\ \A v \in VariantsOf(c) : Holds(c, VariantRow(v), "X")
               /\ Kind(c) = "checkout" => Holds(c, Product, "X")
ViewedOK(c) == Viewed(c) => \A v \in VariantsOf(c) : view[c][v] = stock[v]
OpenedOK(c) == Opened(c) => order[input[c].order] \in OrderRows
StoredOK(c) ==
  Stored(c) => /\ Kind(c) = "checkout" => order[input[c].order] = NoOrder
               /\ \A v \in VariantsOf(c) : Fits(c, v)
               /\ \A v \in Variants \ VariantsOf(c) : log[c][v] = << >>

CallOK(c) == LockedOK(c) /\ ViewedOK(c) /\ OpenedOK(c) /\ StoredOK(c)

-----------------------------------------------------------------------------
Kinds == {"checkout", "cancel", "reject", "adjust"}

LEMMA RequestFacts ==
  ASSUME SessionsOK, NEW c \in Calls
  PROVE  /\ Kind(c) \in Kinds
         /\ Kind(c) \in {"checkout", "cancel", "reject"} => input[c].order \in Orders
         /\ Kind(c) = "checkout" => input[c].items \in Quantities
         /\ Kind(c) = "adjust" => /\ input[c].stock \in Quantities /\ input[c].key \in STRING
                                  /\ input[c].variants \in Seq(Variants)
<1>1. input[c] \in Requests
  BY StockAssumption DEF SessionsOK
<1>2. CASE input[c] \in [kind : {"checkout"}, order : Orders, items : Quantities]
  BY <1>2 DEF Kind, Kinds
<1>3. CASE input[c] \in [kind : {"cancel", "reject"}, order : Orders]
  BY <1>3 DEF Kind, Kinds
<1>4. CASE input[c] \in [kind : {"adjust"}, variants : Seq(Variants), stock : Quantities, key : STRING]
  BY <1>4 DEF Kind, Kinds
<1>5. QED
  BY <1>1, <1>2, <1>3, <1>4 DEF Requests

\* Which statement comes when.
LEMMA Positions ==
  ASSUME SessionsOK, NEW c \in Calls, NEW s, At(c, s)
  PROVE  /\ Running(c)
         /\ s = CASE Kind(c) = "checkout" -> <<"lockVariants", "findSeller", "insertOrder", "lockWallets", "commit">>[pc[c]]
                  [] Kind(c) = "cancel" -> <<"lockOrder", "lockVariants", "restore", "lockWallets", "commit">>[pc[c]]
                  [] Kind(c) = "reject" -> <<"lockOrder", "lockWallets", "lockVariants", "restore", "commit">>[pc[c]]
                  [] Kind(c) = "adjust" -> <<"lockProduct", "lockVariants", "overwrite", "commit">>[pc[c]]
         /\ pc[c] \in 1..5
         /\ Kind(c) = "adjust" => pc[c] \in 1..4
         /\ Kind(c) \in Kinds
<1>1. Kind(c) \in Kinds
  BY RequestFacts
<1>2. QED
  BY <1>1 DEF At, Program, Running, SessionsOK, Steps, Kinds

LEMMA WhereLockVariants ==
  ASSUME SessionsOK, NEW c \in Calls, At(c, "lockVariants")
  PROVE  \/ Kind(c) = "checkout" /\ pc[c] = 1
         \/ Kind(c) \in {"cancel", "adjust"} /\ pc[c] = 2
         \/ Kind(c) = "reject" /\ pc[c] = 3
<1>1. CASE Kind(c) = "checkout"
  BY <1>1, Positions
<1>2. CASE Kind(c) = "cancel"
  BY <1>2, Positions
<1>3. CASE Kind(c) = "reject"
  BY <1>3, Positions
<1>4. CASE Kind(c) = "adjust"
  BY <1>4, Positions
<1>5. QED
  BY <1>1, <1>2, <1>3, <1>4, RequestFacts DEF Kinds

LEMMA WhereLockWallets ==
  ASSUME SessionsOK, NEW c \in Calls, At(c, "lockWallets")
  PROVE  \/ Kind(c) \in {"checkout", "cancel"} /\ pc[c] = 4
         \/ Kind(c) = "reject" /\ pc[c] = 2
<1>1. CASE Kind(c) = "checkout"
  BY <1>1, Positions
<1>2. CASE Kind(c) = "cancel"
  BY <1>2, Positions
<1>3. CASE Kind(c) = "reject"
  BY <1>3, Positions
<1>4. CASE Kind(c) = "adjust"
  BY <1>4, Positions
<1>5. QED
  BY <1>1, <1>2, <1>3, <1>4, RequestFacts DEF Kinds

LEMMA WhereLockProduct ==
  ASSUME SessionsOK, NEW c \in Calls, At(c, "lockProduct")
  PROVE  Kind(c) = "adjust" /\ pc[c] = 1
<1>1. CASE Kind(c) = "checkout"
  BY <1>1, Positions
<1>2. CASE Kind(c) = "cancel"
  BY <1>2, Positions
<1>3. CASE Kind(c) = "reject"
  BY <1>3, Positions
<1>4. CASE Kind(c) = "adjust"
  BY <1>4, Positions
<1>5. QED
  BY <1>1, <1>2, <1>3, <1>4, RequestFacts DEF Kinds

LEMMA WhereFindSeller ==
  ASSUME SessionsOK, NEW c \in Calls, At(c, "findSeller")
  PROVE  Kind(c) = "checkout" /\ pc[c] = 2
<1>1. CASE Kind(c) = "checkout"
  BY <1>1, Positions
<1>2. CASE Kind(c) = "cancel"
  BY <1>2, Positions
<1>3. CASE Kind(c) = "reject"
  BY <1>3, Positions
<1>4. CASE Kind(c) = "adjust"
  BY <1>4, Positions
<1>5. QED
  BY <1>1, <1>2, <1>3, <1>4, RequestFacts DEF Kinds

LEMMA WhereLockOrder ==
  ASSUME SessionsOK, NEW c \in Calls, At(c, "lockOrder")
  PROVE  Kind(c) \in {"cancel", "reject"} /\ pc[c] = 1
<1>1. CASE Kind(c) = "checkout"
  BY <1>1, Positions
<1>2. CASE Kind(c) = "cancel"
  BY <1>2, Positions
<1>3. CASE Kind(c) = "reject"
  BY <1>3, Positions
<1>4. CASE Kind(c) = "adjust"
  BY <1>4, Positions
<1>5. QED
  BY <1>1, <1>2, <1>3, <1>4, RequestFacts DEF Kinds

LEMMA WhereSaves ==
  ASSUME SessionsOK, NEW c \in Calls, NEW st \in {"insertOrder", "restore", "overwrite"}, At(c, st)
  PROVE  \/ st = "insertOrder" /\ Kind(c) = "checkout" /\ pc[c] = 3
         \/ st = "restore" /\ Kind(c) = "cancel" /\ pc[c] = 3
         \/ st = "restore" /\ Kind(c) = "reject" /\ pc[c] = 4
         \/ st = "overwrite" /\ Kind(c) = "adjust" /\ pc[c] = 3
<1>1. CASE Kind(c) = "checkout"
  BY <1>1, Positions
<1>2. CASE Kind(c) = "cancel"
  BY <1>2, Positions
<1>3. CASE Kind(c) = "reject"
  BY <1>3, Positions
<1>4. CASE Kind(c) = "adjust"
  BY <1>4, Positions
<1>5. QED
  BY <1>1, <1>2, <1>3, <1>4, RequestFacts DEF Kinds

LEMMA WhereCommit ==
  ASSUME SessionsOK, NEW c \in Calls, At(c, "commit")
  PROVE  \/ Kind(c) \in {"checkout", "cancel", "reject"} /\ pc[c] = 5
         \/ Kind(c) = "adjust" /\ pc[c] = 4
<1>1. CASE Kind(c) = "checkout"
  BY <1>1, Positions
<1>2. CASE Kind(c) = "cancel"
  BY <1>2, Positions
<1>3. CASE Kind(c) = "reject"
  BY <1>3, Positions
<1>4. CASE Kind(c) = "adjust"
  BY <1>4, Positions
<1>5. QED
  BY <1>1, <1>2, <1>3, <1>4, RequestFacts DEF Kinds

-----------------------------------------------------------------------------
(* Locks.                                                                  *)

LEMMA AcquireLocks ==
  ASSUME LocksOK, NEW c \in Calls, NEW row, NEW mode \in {"S", "X"}, Acquire(c, row, mode)
  PROVE  /\ LocksOK'
         /\ \A d \in Calls, r \in Rows : Holds(d, r, "X") => Holds(d, r, "X")'
<1>1. CASE row \in Rows
  <2>1. locks'[row] = locks[row] \cup {<<c, mode>>} /\ \A r \in Rows \ {row} : locks'[r] = locks[r]
    BY <1>1 DEF Acquire, LocksOK, LocksTypeOK
  <2>2. LocksTypeOK'
    BY <1>1 DEF Acquire, LocksOK, LocksTypeOK
  <2>3. mode = "X" => \A d \in Calls \ {c} : ~ Holds(d, row, "X")
    BY DEF Acquire, Blockers
  <2>4. \A d \in Calls, r \in Rows : Holds(d, r, "X")' <=> Holds(d, r, "X") \/ (d = c /\ r = row /\ mode = "X")
    BY <2>1 DEF Holds
  <2>5. \A d \in Calls : Holds(d, row, "X") => d = c \/ mode # "X"
    BY <2>3
  <2>6. QED
    BY <2>2, <2>4, <2>5 DEF LocksOK
<1>2. CASE row \notin Rows
  <2>1. locks' = locks
    BY <1>2 DEF Acquire, LocksOK, LocksTypeOK
  <2>2. QED
    BY <2>1 DEF LocksOK, LocksTypeOK, Holds
<1>3. QED
  BY <1>1, <1>2

LEMMA ReleasedLocks ==
  ASSUME LocksOK, NEW c \in Calls, ReleaseLocks(c)
  PROVE  /\ LocksOK'
         /\ \A d \in Calls \ {c}, r \in Rows : Holds(d, r, "X") => Holds(d, r, "X")'
<1>1. LocksTypeOK'
  BY DEF ReleaseLocks, LocksOK, LocksTypeOK
<1>2. \A d \in Calls, r \in Rows : Holds(d, r, "X")' <=> Holds(d, r, "X") /\ d # c
  BY DEF ReleaseLocks, Holds
<1>3. QED
  BY <1>1, <1>2 DEF LocksOK

LEMMA RowTypes ==
  /\ Product \in Rows
  /\ \A v \in Variants : VariantRow(v) \in Rows
BY DEF Rows, VariantRow

LEMMA VariantsOfType ==
  ASSUME SessionsOK, NEW c \in Calls
  PROVE  VariantsOf(c) \subseteq Variants
<1>1. Kind(c) = "adjust" => Range(input[c].variants) \subseteq Variants
  BY RequestFacts DEF Range
<1>2. QED
  BY <1>1, RequestFacts DEF VariantsOf, Contains, Kinds

-----------------------------------------------------------------------------
(* What a step of one call leaves of what is known of another.             *)

\* d itself does nothing, keeps its locks, and the database nothing it relies on.
Bystander(d) ==
  /\ outcome'[d] = outcome[d] /\ pc'[d] = pc[d] /\ input'[d] = input[d]
  /\ view'[d] = view[d] /\ written'[d] = written[d] /\ log'[d] = log[d]
  /\ UNCHANGED isolation
  /\ \A r \in Rows : Holds(d, r, "X") => Holds(d, r, "X")'
  /\ Locked(d) => \A v \in VariantsOf(d) : stock'[v] = stock[v]
  /\ Opened(d) => /\ order'[input[d].order] \in OrderRows
                  /\ order'[input[d].order].items = order[input[d].order].items
  /\ Stored(d) /\ Kind(d) = "checkout" => order'[input[d].order] = order[input[d].order]

LEMMA BystanderKeeps ==
  ASSUME SessionsOK, NEW d \in Calls, CallOK(d), Bystander(d)
  PROVE  CallOK(d)'
<1>1. Kind(d)' = Kind(d) /\ Running(d)' = Running(d) /\ Kind(d) \in Kinds
  BY RequestFacts DEF Bystander, Kind, Running
<1>2. Locked(d)' = Locked(d) /\ Viewed(d)' = Viewed(d) /\ Opened(d)' = Opened(d) /\ Stored(d)' = Stored(d)
  BY <1>1 DEF Bystander, Locked, Viewed, Opened, Stored
<1>3. Viewed(d) \/ Stored(d) => Locked(d)
  BY DEF SessionsOK, Locked, Viewed, Stored
<1>4. Locked(d) /\ Kind(d) \in {"cancel", "reject"} => Opened(d)
  BY DEF SessionsOK, Locked, Opened
<1>5. Locked(d) => VariantsOf(d)' = VariantsOf(d)
  <2>1. CASE Kind(d) \in {"checkout", "adjust"}
    BY <1>1, <2>1 DEF VariantsOf, Bystander, Contains
  <2>2. ASSUME Kind(d) \in {"cancel", "reject"}, Locked(d)
        PROVE  VariantsOf(d)' = VariantsOf(d)
    <3>1. /\ order[input[d].order] \in OrderRows /\ order'[input[d].order] \in OrderRows
          /\ order'[input[d].order].items = order[input[d].order].items
      BY <1>4, <2>2 DEF CallOK, OpenedOK, Bystander
    <3>2. order[input[d].order] # NoOrder /\ order'[input[d].order] # NoOrder
      BY <3>1 DEF OrderRows, NoOrder
    <3>3. VariantsOf(d) = Contains(order[input[d].order].items)
      BY <2>2, <3>2 DEF VariantsOf
    <3>4. VariantsOf(d)' = Contains(order'[input[d].order].items)
      BY <1>1, <2>2, <3>2 DEF VariantsOf, Bystander, Contains
    <3>5. QED
      BY <3>1, <3>3, <3>4
  <2>3. QED
    BY <1>1, <2>1, <2>2 DEF Kinds
<1>6. LockedOK(d)'
  <2>1. \A v \in Variants : VariantRow(v)' = VariantRow(v) /\ VariantRow(v) \in Rows
    BY RowTypes DEF VariantRow
  <2>2. Product \in Rows
    BY RowTypes
  <2>3. QED
    BY <1>1, <1>2, <1>5, <2>1, <2>2, VariantsOfType DEF CallOK, LockedOK, Bystander
<1>7. ViewedOK(d)'
  BY <1>2, <1>3, <1>5 DEF CallOK, ViewedOK, Bystander
<1>8. OpenedOK(d)'
  BY <1>2 DEF OpenedOK, Bystander
<1>9. StoredOK(d)'
  <2>1. Locked(d) => \A v \in VariantsOf(d) : Fits(d, v)' = Fits(d, v)
    BY DEF Fits, Bystander, Latest
  <2>2. QED
    BY <1>1, <1>2, <1>3, <1>5, <2>1 DEF CallOK, StoredOK, Bystander
<1>10. QED
  BY <1>6, <1>7, <1>8, <1>9 DEF CallOK

-----------------------------------------------------------------------------
(* Steps that change nothing in the database.                              *)

CallsOK == \A d \in Calls : CallOK(d)

\* Only c does something, and the others keep their locks.
Alone(c) ==
  /\ UNCHANGED <<input, isolation>>
  /\ \A d \in Calls \ {c} :
       /\ outcome'[d] = outcome[d] /\ pc'[d] = pc[d]
       /\ view'[d] = view[d] /\ written'[d] = written[d] /\ log'[d] = log[d]
       /\ \A r \in Rows : Holds(d, r, "X") => Holds(d, r, "X")'

LEMMA OthersKeep ==
  ASSUME SessionsOK, CallsOK, NEW c \in Calls, Alone(c), UNCHANGED database, CallOK(c)'
  PROVE  CallsOK'
<1>1. ASSUME NEW d \in Calls \ {c}
      PROVE  CallOK(d)'
  <2>1. Bystander(d)
    BY DEF Alone, Bystander, CallsOK, CallOK, OpenedOK, database
  <2>2. QED
    BY <2>1, BystanderKeeps DEF CallsOK
<1>2. QED
  BY <1>1 DEF CallsOK

\* c waits for a row, and has it.
LEMMA WaitStep ==
  ASSUME Shapes, CallsOK, NEW c \in Calls, NEW row, NEW mode \in {"S", "X"}, Acquire(c, row, mode),
         UNCHANGED <<database, session, pc, outcome, input, isolation>>
  PROVE  Shapes' /\ CallsOK'
<1>1. LocksOK' /\ \A d \in Calls, r \in Rows : Holds(d, r, "X") => Holds(d, r, "X")'
  BY AcquireLocks DEF Shapes
<1>2. Shapes'
  BY <1>1 DEF Shapes, DatabaseOK, SessionsOK, Steps, Kind, database, session
<1>3. Alone(c) /\ Bystander(c)
  BY <1>1 DEF Alone, Bystander, session, database, CallsOK, CallOK, OpenedOK
<1>4. CallOK(c)'
  BY <1>3, BystanderKeeps DEF Shapes, CallsOK
<1>5. QED
  BY <1>2, <1>3, <1>4, OthersKeep DEF Shapes

\* c goes on to its next statement.
LEMMA GoesOn ==
  ASSUME SessionsOK, NEW c \in Calls, pc[c] < Steps(c), Continue(c), UNCHANGED <<input, isolation>>,
         view' \in [Calls -> Quantities], written' \in [Calls -> Quantities],
         log' \in [Calls -> [Variants -> Seq(MovementRows)]]
  PROVE  /\ SessionsOK'
         /\ pc'[c] = pc[c] + 1 /\ Running(c)' = Running(c) /\ Kind(c)' = Kind(c)
         /\ \A d \in Calls \ {c} : pc'[d] = pc[d] /\ outcome'[d] = outcome[d]
<1>1. pc'[c] = pc[c] + 1 /\ \A d \in Calls \ {c} : pc'[d] = pc[d]
  BY DEF Continue, SessionsOK
<1>2. \A d \in Calls : Kind(d)' = Kind(d) /\ Steps(d)' = Steps(d) /\ outcome'[d] = outcome[d]
  BY DEF Kind, Steps, Continue
<1>3. ASSUME NEW d \in Calls
      PROVE  pc'[d] \in 1..Steps(d)'
  <2>1. pc[d] \in 1..Steps(d) /\ Steps(d) \in Nat /\ Steps(d)' = Steps(d)
    BY <1>2 DEF SessionsOK, Steps
  <2>2. CASE d = c
    BY <1>1, <2>1, <2>2
  <2>3. CASE d # c
    BY <1>1, <2>1, <2>3
  <2>4. QED
    BY <2>2, <2>3
<1>4. pc' \in [Calls -> Nat]
  BY <1>1 DEF Continue, SessionsOK
<1>5. SessionsOK'
  BY <1>2, <1>3, <1>4 DEF SessionsOK, Continue
<1>6. QED
  BY <1>1, <1>2, <1>5 DEF Running, Continue

\* c has nothing to wait for, and goes on.
LEMMA PassStep ==
  ASSUME Shapes, CallsOK, NEW c \in Calls, pc[c] < Steps(c), Continue(c),
         UNCHANGED <<database, session, locks, input, isolation>>, CallOK(c)'
  PROVE  Shapes' /\ CallsOK'
<1>1. SessionsOK' /\ \A d \in Calls \ {c} : pc'[d] = pc[d] /\ outcome'[d] = outcome[d]
  BY GoesOn DEF Shapes, SessionsOK, session
<1>2. Shapes'
  BY <1>1 DEF Shapes, DatabaseOK, LocksOK, LocksTypeOK, Holds, database
<1>3. Alone(c)
  BY <1>1 DEF Alone, session, Holds
<1>4. QED
  BY <1>2, <1>3, OthersKeep DEF Shapes

LEMMA LockVariantsStep ==
  ASSUME Shapes, CallsOK, NEW c \in Calls, LockVariants(c), UNCHANGED <<input, isolation>>
  PROVE  Shapes' /\ CallsOK'
<1>1. CASE VariantsMissing(c)
  <2>1. PICK row : row = NextVariantRow(c)
    OBVIOUS
  <2>2. Acquire(c, row, "X") /\ UNCHANGED <<database, session, pc, outcome>>
    BY <1>1, <2>1 DEF LockVariants, LockNext
  <2>3. QED
    BY <2>2, WaitStep
<1>2. CASE ~ VariantsMissing(c)
  <2>1. Continue(c) /\ UNCHANGED <<database, session, locks>>
    BY <1>2 DEF LockVariants, LockNext
  <2>2. \/ Kind(c) = "checkout" /\ pc[c] = 1
        \/ Kind(c) \in {"cancel", "adjust"} /\ pc[c] = 2
        \/ Kind(c) = "reject" /\ pc[c] = 3
    BY WhereLockVariants DEF Shapes, LockVariants
  <2>3. pc[c] < Steps(c)
    BY <2>2 DEF Steps
  <2>4. pc'[c] = pc[c] + 1 /\ Running(c)' = Running(c) /\ Kind(c)' = Kind(c)
    BY <2>1, <2>3, GoesOn DEF Shapes, SessionsOK, session
  <2>5. ~ Viewed(c)' /\ ~ Stored(c)' /\ (Opened(c)' => Opened(c))
    BY <2>2, <2>4 DEF Viewed, Stored, Opened
  <2>6. VariantsOf(c)' = VariantsOf(c)
    BY <2>1 DEF VariantsOf, Kind, database, Contains
  <2>7. LockedOK(c)'
    BY <1>2, <2>1, <2>4, <2>6, VariantsOfType DEF LockedOK, VariantsMissing, Unlocked, Holds, VariantRow, Shapes
  <2>8. OpenedOK(c)'
    BY <2>1, <2>5 DEF OpenedOK, CallsOK, CallOK, database
  <2>9. CallOK(c)'
    BY <2>5, <2>7, <2>8 DEF CallOK, ViewedOK, StoredOK
  <2>10. QED
    BY <2>1, <2>3, <2>9, PassStep
<1>3. QED
  BY <1>1, <1>2

\* The locks on the product and the wallets are of no account to what c knows.
LEMMA LockOthersStep ==
  ASSUME Shapes, CallsOK, NEW c \in Calls, LockProduct(c) \/ LockWallets(c), UNCHANGED <<input, isolation>>
  PROVE  Shapes' /\ CallsOK'
<1>1. \/ Kind(c) = "adjust" /\ pc[c] = 1
      \/ Kind(c) \in {"checkout", "cancel"} /\ pc[c] = 4
      \/ Kind(c) = "reject" /\ pc[c] = 2
  BY WhereLockProduct, WhereLockWallets DEF Shapes, LockProduct, LockWallets
<1>2. \E row : \E mode \in {"S", "X"} :
        \/ Acquire(c, row, mode) /\ UNCHANGED <<database, session, pc, outcome>>
        \/ Continue(c) /\ UNCHANGED <<database, session, locks>>
  <2>1. CASE LockProduct(c)
    BY <2>1 DEF LockProduct, LockNext
  <2>2. CASE LockWallets(c)
    <3>1. NextWalletMode(c) \in {"S", "X"}
      BY DEF NextWalletMode
    <3>2. QED
      BY <2>2, <3>1 DEF LockWallets, LockNext
  <2>3. QED
    BY <2>1, <2>2
<1> PICK row : \E mode \in {"S", "X"} :
       \/ Acquire(c, row, mode) /\ UNCHANGED <<database, session, pc, outcome>>
       \/ Continue(c) /\ UNCHANGED <<database, session, locks>>
  BY <1>2
<1> PICK mode \in {"S", "X"} :
       \/ Acquire(c, row, mode) /\ UNCHANGED <<database, session, pc, outcome>>
       \/ Continue(c) /\ UNCHANGED <<database, session, locks>>
  OBVIOUS
<1>3. CASE Acquire(c, row, mode) /\ UNCHANGED <<database, session, pc, outcome>>
  BY <1>3, WaitStep
<1>4. CASE Continue(c) /\ UNCHANGED <<database, session, locks>>
  <2>1. pc[c] < Steps(c)
    BY <1>1 DEF Steps
  <2>2. pc'[c] = pc[c] + 1 /\ Running(c)' = Running(c) /\ Kind(c)' = Kind(c)
    BY <1>4, <2>1, GoesOn DEF Shapes, SessionsOK, session
  <2>3. Locked(c)' = Locked(c) /\ Viewed(c)' = Viewed(c) /\ Opened(c)' = Opened(c) /\ Stored(c)' = Stored(c)
    BY <1>1, <2>2 DEF Locked, Viewed, Opened, Stored
  <2>4. VariantsOf(c)' = VariantsOf(c)
    BY <1>4 DEF VariantsOf, Kind, database, Contains
  <2>5. LockedOK(c)' /\ ViewedOK(c)' /\ OpenedOK(c)'
    BY <1>4, <2>2, <2>3, <2>4 DEF CallsOK, CallOK, LockedOK, ViewedOK, OpenedOK, Holds, VariantRow, database, session
  <2>6. \A v \in Variants : Fits(c, v)' = Fits(c, v)
    BY <1>4 DEF Fits, Latest, database, session
  <2>7. StoredOK(c)'
    BY <1>4, <2>2, <2>3, <2>4, <2>6, VariantsOfType DEF CallsOK, CallOK, StoredOK, Shapes, database, session
  <2>8. CallOK(c)'
    BY <2>5, <2>7 DEF CallOK
  <2>9. QED
    BY <1>4, <2>1, <2>8, PassStep
<1>5. QED
  BY <1>3, <1>4

LEMMA FindSellerStep ==
  ASSUME Shapes, CallsOK, NEW c \in Calls, FindSeller(c), UNCHANGED <<input, isolation>>
  PROVE  Shapes' /\ CallsOK'
<1>1. Kind(c) = "checkout" /\ pc[c] = 2 /\ pc[c] < Steps(c) /\ Running(c)
  BY WhereFindSeller DEF Shapes, FindSeller, Steps, At, Running
<1>2. view' = [view EXCEPT ![c] = stock] /\ Continue(c) /\ UNCHANGED <<database, locks, written, log>>
  BY DEF FindSeller
<1>3. view' \in [Calls -> Quantities] /\ view'[c] = stock /\ \A d \in Calls \ {c} : view'[d] = view[d]
  BY <1>2 DEF Shapes, SessionsOK, DatabaseOK
<1>4. /\ SessionsOK' /\ pc'[c] = 3 /\ Running(c)' /\ Kind(c)' = "checkout"
      /\ \A d \in Calls \ {c} : pc'[d] = pc[d] /\ outcome'[d] = outcome[d]
  <2>1. written' \in [Calls -> Quantities] /\ log' \in [Calls -> [Variants -> Seq(MovementRows)]]
    BY <1>2 DEF Shapes, SessionsOK
  <2>2. Continue(c) /\ SessionsOK
    BY <1>2 DEF Shapes
  <2>3. SessionsOK' /\ pc'[c] = pc[c] + 1 /\ Running(c)' = Running(c) /\ Kind(c)' = Kind(c)
    BY <1>1, <1>3, <2>1, <2>2, GoesOn
  <2>4. \A d \in Calls \ {c} : pc'[d] = pc[d] /\ outcome'[d] = outcome[d]
    BY <1>1, <1>3, <2>1, <2>2, GoesOn
  <2>5. QED
    BY <1>1, <2>3, <2>4
<1>5. Shapes'
  BY <1>2, <1>4 DEF Shapes, DatabaseOK, LocksOK, LocksTypeOK, Holds, database
<1>6. Alone(c)
  BY <1>2, <1>3, <1>4 DEF Alone, Holds
<1>7. CallOK(c)'
  <2>1. VariantsOf(c)' = VariantsOf(c) /\ VariantsOf(c) \subseteq Variants
    BY <1>2, VariantsOfType DEF VariantsOf, Kind, database, Contains, Shapes
  <2>2. LockedOK(c)'
    BY <1>1, <1>2, <1>4, <2>1 DEF CallsOK, CallOK, LockedOK, Locked, Holds, VariantRow
  <2>3. ViewedOK(c)'
    BY <1>2, <1>3, <2>1 DEF ViewedOK, database
  <2>4. ~ Opened(c)' /\ ~ Stored(c)'
    BY <1>4 DEF Opened, Stored
  <2>5. QED
    BY <2>2, <2>3, <2>4 DEF CallOK, OpenedOK, StoredOK
<1>8. QED
  BY <1>2, <1>5, <1>6, <1>7, OthersKeep DEF Shapes

\* The call ends, and leaves the database as it is.
LEMMA RollbackStep ==
  ASSUME Shapes, CallsOK, NEW c \in Calls, NEW result \in Outcomes, Rollback(c, result),
         UNCHANGED <<input, isolation>>
  PROVE  Shapes' /\ CallsOK'
<1>1. LocksOK' /\ \A d \in Calls \ {c}, r \in Rows : Holds(d, r, "X") => Holds(d, r, "X")'
  BY ReleasedLocks DEF Rollback, End, Shapes
<1>2. outcome' = [outcome EXCEPT ![c] = result] /\ UNCHANGED <<pc, database, session>>
  BY DEF Rollback, End
<1>3. outcome'[c] = result /\ \A d \in Calls \ {c} : outcome'[d] = outcome[d]
  BY <1>2 DEF Shapes, SessionsOK
<1>4. Shapes'
  BY <1>1, <1>2 DEF Shapes, DatabaseOK, SessionsOK, Steps, Kind, database, session
<1>5. Alone(c)
  BY <1>1, <1>2, <1>3 DEF Alone, session
<1>6. CallOK(c)'
  <2>1. ~ Running(c)'
    BY <1>3 DEF Running, Outcomes
  <2>2. QED
    BY <2>1 DEF CallOK, LockedOK, ViewedOK, OpenedOK, StoredOK, Locked, Viewed, Opened, Stored
<1>7. QED
  BY <1>2, <1>4, <1>5, <1>6, OthersKeep DEF Shapes

LEMMA LockOrderStep ==
  ASSUME Shapes, CallsOK, NEW c \in Calls, LockOrder(c), UNCHANGED <<input, isolation>>
  PROVE  Shapes' /\ CallsOK'
<1> DEFINE o == input[c].order
<1>1. CASE order[o].status # "pending_confirmation"
  BY <1>1, RollbackStep DEF LockOrder, Outcomes
<1>2. CASE order[o].status = "pending_confirmation"
  <2>1. Kind(c) \in {"cancel", "reject"} /\ pc[c] = 1 /\ pc[c] < Steps(c)
    BY WhereLockOrder DEF Shapes, LockOrder, Steps
  <2>2. /\ Acquire(c, <<"order", o>>, "X")
        /\ view' = [view EXCEPT ![c] = stock] /\ Continue(c) /\ UNCHANGED <<database, written, log>>
    BY <1>2 DEF LockOrder
  <2>3. view' \in [Calls -> Quantities] /\ \A d \in Calls \ {c} : view'[d] = view[d]
    BY <2>2 DEF Shapes, SessionsOK, DatabaseOK
  <2>4. /\ SessionsOK' /\ pc'[c] = 2 /\ Kind(c)' = Kind(c)
        /\ \A d \in Calls \ {c} : pc'[d] = pc[d] /\ outcome'[d] = outcome[d]
    <3>1. written' \in [Calls -> Quantities] /\ log' \in [Calls -> [Variants -> Seq(MovementRows)]]
      BY <2>2 DEF Shapes, SessionsOK
    <3>2. Continue(c) /\ SessionsOK
      BY <2>2 DEF Shapes
    <3>3. SessionsOK' /\ pc'[c] = pc[c] + 1 /\ Kind(c)' = Kind(c)
      BY <2>1, <2>3, <3>1, <3>2, GoesOn
    <3>4. \A d \in Calls \ {c} : pc'[d] = pc[d] /\ outcome'[d] = outcome[d]
      BY <2>1, <2>3, <3>1, <3>2, GoesOn
    <3>5. QED
      BY <2>1, <3>3, <3>4
  <2>5. LocksOK' /\ \A d \in Calls, r \in Rows : Holds(d, r, "X") => Holds(d, r, "X")'
    <3>1. PICK row : row = <<"order", o>>
      OBVIOUS
    <3>2. Acquire(c, row, "X")
      BY <2>2, <3>1
    <3>3. QED
      BY <3>2, AcquireLocks DEF Shapes
  <2>6. Shapes'
    BY <2>2, <2>4, <2>5 DEF Shapes, DatabaseOK, database
  <2>7. Alone(c)
    BY <2>2, <2>3, <2>4, <2>5 DEF Alone
  <2>8. CallOK(c)'
    <3>1. o \in Orders
      BY <2>1, RequestFacts DEF Shapes
    <3>2. order[o] \in OrderRows
      BY <1>2, <3>1 DEF Shapes, DatabaseOK, NoOrder
    <3>3. ~ Locked(c)' /\ ~ Viewed(c)' /\ ~ Stored(c)'
      BY <2>1, <2>4 DEF Locked, Viewed, Stored
    <3>4. QED
      BY <2>2, <3>2, <3>3 DEF CallOK, LockedOK, ViewedOK, OpenedOK, StoredOK, database
  <2>9. QED
    BY <2>2, <2>6, <2>7, <2>8, OthersKeep DEF Shapes
<1>3. QED
  BY <1>1, <1>2

-----------------------------------------------------------------------------
(* Saving.                                                                 *)

\* What c writes for v, and the movement it inserts, fit the stock there is.
Fitting(w, l, v) ==
  \/ l[v] = << >> /\ w[v] = stock[v]
  \/ \E m \in MovementRows :
       /\ l[v] = <<m>> /\ m.before = stock[v]
       /\ w[v] <= m.after /\ (Latest => w[v] = m.after)

Storing(c, w, l) ==
  /\ written' = [written EXCEPT ![c] = w] /\ log' = [log EXCEPT ![c] = l]
  /\ Continue(c)
  /\ UNCHANGED <<database, locks, view>>

LEMMA StoringStep ==
  ASSUME Shapes, CallsOK, NEW c \in Calls, NEW st \in {"insertOrder", "restore", "overwrite"}, At(c, st),
         UNCHANGED <<input, isolation>>,
         NEW w \in Quantities, NEW l \in [Variants -> Seq(MovementRows)], Storing(c, w, l),
         Kind(c) = "checkout" => order[input[c].order] = NoOrder,
         \A v \in VariantsOf(c) : Fitting(w, l, v), \A v \in Variants \ VariantsOf(c) : l[v] = << >>
  PROVE  Shapes' /\ CallsOK'
<1>1. \/ Kind(c) = "checkout" /\ pc[c] = 3
      \/ Kind(c) = "cancel" /\ pc[c] = 3
      \/ Kind(c) = "reject" /\ pc[c] = 4
      \/ Kind(c) = "adjust" /\ pc[c] = 3
  BY WhereSaves DEF Shapes
<1>2. pc[c] < Steps(c)
  BY <1>1 DEF Steps
<1>3. /\ written' \in [Calls -> Quantities] /\ written'[c] = w /\ \A d \in Calls \ {c} : written'[d] = written[d]
      /\ log' \in [Calls -> [Variants -> Seq(MovementRows)]] /\ log'[c] = l /\ \A d \in Calls \ {c} : log'[d] = log[d]
  BY DEF Storing, Shapes, SessionsOK
<1>4. Continue(c) /\ SessionsOK /\ view' \in [Calls -> Quantities] /\ UNCHANGED <<database, locks, view>>
  BY DEF Storing, Shapes, SessionsOK
<1>5. SessionsOK' /\ pc'[c] = pc[c] + 1 /\ Running(c)' = Running(c) /\ Kind(c)' = Kind(c)
  BY <1>2, <1>3, <1>4, GoesOn
<1>6. \A d \in Calls \ {c} : pc'[d] = pc[d] /\ outcome'[d] = outcome[d]
  BY <1>2, <1>3, <1>4, GoesOn
<1>7. Shapes'
  BY <1>4, <1>5 DEF Shapes, DatabaseOK, LocksOK, LocksTypeOK, Holds, database
<1>8. Alone(c)
  BY <1>3, <1>4, <1>6 DEF Alone, Holds
<1>9. CallOK(c)'
  <2>1. VariantsOf(c)' = VariantsOf(c) /\ VariantsOf(c) \subseteq Variants
    BY <1>4, VariantsOfType DEF VariantsOf, Kind, database, Contains
  <2>2. Locked(c)' = Locked(c) /\ Viewed(c)' = Viewed(c) /\ Opened(c)' = Opened(c)
    BY <1>1, <1>5 DEF Locked, Viewed, Opened
  <2>3. LockedOK(c)' /\ ViewedOK(c)' /\ OpenedOK(c)'
    BY <1>4, <1>5, <2>1, <2>2 DEF CallsOK, CallOK, LockedOK, ViewedOK, OpenedOK, Holds, VariantRow, database
  <2>4. \A v \in VariantsOf(c) : Fits(c, v)'
    BY <1>3, <1>4 DEF Fits, Fitting, Latest, database
  <2>5. StoredOK(c)'
    BY <1>3, <1>4, <1>5, <2>1, <2>4 DEF StoredOK, database
  <2>6. QED
    BY <2>3, <2>5 DEF CallOK
<1>10. QED
  BY <1>4, <1>7, <1>8, <1>9, OthersKeep DEF Shapes

\* What save leaves in the column: the entity's value or the old one, and the
\* entity's if what save reads first is the old one.
LEMMA SavedColumn ==
  ASSUME NEW entity, NEW seen, NEW old
  PROVE  /\ Saved(entity, Read(seen, old), old) \in {entity, old}
         /\ Latest \/ seen = old => Saved(entity, Read(seen, old), old) = entity
<1>1. Latest \/ seen = old => Read(seen, old) = old
  BY DEF Latest, Read
<1>2. QED
  BY <1>1 DEF Saved

LEMMA SaveStockStep ==
  ASSUME Shapes, CallsOK, NEW c \in Calls, NEW st \in {"insertOrder", "restore"}, At(c, st),
         UNCHANGED <<input, isolation>>,
         NEW S \in SUBSET VariantsOf(c), NEW after, NEW key, SaveStock(c, S, after, key),
         \A v \in S : after[v] \in Nat /\ key[v] \in MovementKeys /\ (stock[v] <= after[v] \/ view[c][v] = stock[v]),
         Kind(c) = "checkout" => order[input[c].order] = NoOrder
  PROVE  Shapes' /\ CallsOK'
<1> DEFINE saved(v) == Saved(after[v], Read(view[c][v], stock[v]), stock[v])
           w == [v \in Variants |-> IF v \in S THEN saved(v) ELSE stock[v]]
           l == [v \in Variants |-> Movement(S, v, key[v], after[v])]
<1>1. \A v \in Variants : stock[v] \in Nat
  BY DEF Shapes, DatabaseOK, Quantities
<1>2. S \subseteq Variants /\ VariantsOf(c) \subseteq Variants
  BY VariantsOfType DEF Shapes
<1>3. \A v \in S : saved(v) \in {after[v], stock[v]} /\ (Latest \/ view[c][v] = stock[v] => saved(v) = after[v])
  BY SavedColumn
<1> HIDE DEF saved
<1>4. w \in Quantities
  BY <1>1, <1>3 DEF Quantities
<1>5. ASSUME NEW v \in S
      PROVE  \E m \in MovementRows :
               /\ l[v] = <<m>> /\ m.before = stock[v]
               /\ w[v] <= m.after /\ (Latest => w[v] = m.after)
  <2>1. PICK m : m = [key |-> key[v], before |-> stock[v], after |-> after[v]]
    OBVIOUS
  <2>2. m \in MovementRows /\ m.before = stock[v] /\ m.after = after[v]
    BY <1>1, <1>2, <2>1 DEF MovementRows
  <2>3. l[v] = <<m>>
    BY <1>2, <2>1 DEF Movement
  <2>4. w[v] = saved(v)
    BY <1>2
  <2>5. saved(v) <= after[v] /\ (Latest => saved(v) = after[v])
    BY <1>1, <1>2, <1>3
  <2>6. QED
    BY <2>2, <2>3, <2>4, <2>5
<1>6. \A v \in Variants \ S : l[v] = << >> /\ w[v] = stock[v]
  BY DEF Movement
<1>7. l \in [Variants -> Seq(MovementRows)]
  <2>1. \A v \in Variants : l[v] \in Seq(MovementRows)
    <3>1. << >> \in Seq(MovementRows) /\ \A m \in MovementRows : <<m>> \in Seq(MovementRows)
      OBVIOUS
    <3>2. QED
      BY <1>5, <1>6, <3>1
  <2>2. QED
    BY <2>1
<1>8. \A v \in VariantsOf(c) : Fitting(w, l, v)
  BY <1>2, <1>5, <1>6 DEF Fitting
<1>9. Storing(c, w, l)
  BY DEF SaveStock, Storing, saved
<1> HIDE DEF w, l
<1>10. QED
  BY <1>2, <1>4, <1>6, <1>7, <1>8, <1>9, StoringStep

LEMMA InsertOrderStep ==
  ASSUME Shapes, CallsOK, NEW c \in Calls, InsertOrder(c), UNCHANGED <<input, isolation>>
  PROVE  Shapes' /\ CallsOK'
<1> DEFINE o == input[c].order
           items == input[c].items
           short == \E v \in Variants : stock[v] < items[v]
           after == [v \in Variants |-> stock[v] - items[v]]
           key == [v \in Variants |-> <<"deduct", o, v>>]
<1>1. At(c, "insertOrder") /\ Kind(c) = "checkout" /\ pc[c] = 3 /\ Running(c)
  BY WhereSaves DEF Shapes, InsertOrder, At, Running
<1>2. CASE short
  <2>1. Rollback(c, "refused")
    BY <1>2 DEF InsertOrder
  <2>2. QED
    BY <2>1, RollbackStep DEF Outcomes
<1>3. CASE ~ short /\ order[o] # NoOrder
  <2>1. Rollback(c, "replayed")
    BY <1>3 DEF InsertOrder
  <2>2. QED
    BY <2>1, RollbackStep DEF Outcomes
<1>4. CASE ~ short /\ order[o] = NoOrder
  <2>1. SaveStock(c, VariantsOf(c), after, key)
    BY <1>4 DEF InsertOrder
  <2>2. items \in Quantities /\ o \in Orders /\ VariantsOf(c) \subseteq Variants
    BY <1>1, RequestFacts, VariantsOfType DEF Shapes
  <2>3. \A v \in Variants : after[v] \in Nat
    BY <1>4, <2>2 DEF Shapes, DatabaseOK, Quantities
  <2>4. \A v \in Variants : key[v] \in MovementKeys
    BY <2>2 DEF MovementKeys
  <2>5. \A v \in VariantsOf(c) : view[c][v] = stock[v]
    BY <1>1 DEF CallsOK, CallOK, ViewedOK, Viewed
  <2> HIDE DEF after, key
  <2>6. QED
    BY <1>1, <1>4, <2>1, <2>2, <2>3, <2>4, <2>5, SaveStockStep
<1>5. QED
  BY <1>2, <1>3, <1>4

LEMMA RestoreStep ==
  ASSUME Shapes, CallsOK, NEW c \in Calls, Restore(c), UNCHANGED <<input, isolation>>
  PROVE  Shapes' /\ CallsOK'
<1> DEFINE o == input[c].order
           S == {v \in VariantsOf(c) : <<"restore", o, v>> \notin Keys(v)}
           after == [v \in Variants |-> stock[v] + order[o].items[v]]
           key == [v \in Variants |-> <<"restore", o, v>>]
<1>1. At(c, "restore") /\ Kind(c) \in {"cancel", "reject"} /\ pc[c] >= 3 /\ Running(c)
  BY WhereSaves DEF Shapes, Restore, At, Running
<1>2. SaveStock(c, S, after, key)
  BY DEF Restore
<1>3. order[o] \in OrderRows /\ o \in Orders /\ VariantsOf(c) \subseteq Variants
  BY <1>1, RequestFacts, VariantsOfType DEF Shapes, SessionsOK, CallsOK, CallOK, OpenedOK, Opened
<1>4. \A v \in Variants : after[v] \in Nat /\ stock[v] <= after[v]
  BY <1>3 DEF Shapes, DatabaseOK, Quantities, OrderRows
<1>5. \A v \in Variants : key[v] \in MovementKeys
  BY <1>3 DEF MovementKeys
<1>6. S \in SUBSET VariantsOf(c)
  OBVIOUS
<1> HIDE DEF after, key, S
<1>7. QED
  BY <1>1, <1>2, <1>3, <1>4, <1>5, <1>6, SaveStockStep

LEMMA OverwriteStep ==
  ASSUME Shapes, CallsOK, NEW c \in Calls, Overwrite(c), UNCHANGED <<input, isolation>>
  PROVE  Shapes' /\ CallsOK'
<1> DEFINE S == {v \in VariantsOf(c) : stock[v] # input[c].stock[v]}
           known == \E v \in S : AdjustmentKey(c, v) \in Keys(v)
           w == input[c].stock
           l == [v \in Variants |-> Movement(S, v, AdjustmentKey(c, v), input[c].stock[v])]
<1>1. At(c, "overwrite") /\ Kind(c) = "adjust"
  BY WhereSaves DEF Shapes, Overwrite
<1>2. w \in Quantities /\ input[c].key \in STRING /\ VariantsOf(c) \subseteq Variants
  BY <1>1, RequestFacts, VariantsOfType DEF Shapes
<1>3. CASE known
  <2>1. Rollback(c, "refused")
    BY <1>3 DEF Overwrite
  <2>2. QED
    BY <2>1, RollbackStep DEF Outcomes
<1>4. CASE ~ known
  <2>1. Storing(c, w, l)
    BY <1>4 DEF Overwrite, Storing
  <2>2. \A v \in Variants : stock[v] \in Nat /\ w[v] \in Nat
    BY <1>2 DEF Shapes, DatabaseOK, Quantities
  <2>3. \A v \in Variants : AdjustmentKey(c, v) \in MovementKeys
    BY <1>2, <2>2 DEF AdjustmentKey, MovementKeys
  <2>4. ASSUME NEW v \in S
        PROVE  \E m \in MovementRows :
                 /\ l[v] = <<m>> /\ m.before = stock[v]
                 /\ w[v] <= m.after /\ (Latest => w[v] = m.after)
    <3>1. PICK m : m = [key |-> AdjustmentKey(c, v), before |-> stock[v], after |-> w[v]]
      OBVIOUS
    <3>2. m \in MovementRows /\ m.before = stock[v] /\ m.after = w[v]
      BY <1>2, <2>2, <2>3, <3>1 DEF MovementRows
    <3>3. l[v] = <<m>>
      BY <1>2, <3>1 DEF Movement
    <3>4. w[v] <= m.after
      BY <1>2, <2>2, <3>2
    <3>5. QED
      BY <3>2, <3>3, <3>4
  <2>5. \A v \in Variants \ S : l[v] = << >>
    BY DEF Movement
  <2>6. \A v \in VariantsOf(c) \ S : w[v] = stock[v]
    OBVIOUS
  <2>7. l \in [Variants -> Seq(MovementRows)]
    <3>1. \A v \in Variants : l[v] \in Seq(MovementRows)
      <4>1. << >> \in Seq(MovementRows) /\ \A m \in MovementRows : <<m>> \in Seq(MovementRows)
        OBVIOUS
      <4>2. QED
        BY <2>4, <2>5, <4>1
    <3>2. QED
      BY <3>1
  <2>8. \A v \in VariantsOf(c) : Fitting(w, l, v)
    BY <1>2, <2>4, <2>5, <2>6 DEF Fitting
  <2>9. \A v \in Variants \ VariantsOf(c) : l[v] = << >>
    BY <2>5
  <2>10. Kind(c) # "checkout"
    BY <1>1
  <2> HIDE DEF w, l
  <2>11. QED
    BY <1>1, <1>2, <2>1, <2>7, <2>8, <2>9, <2>10, StoringStep
<1>5. QED
  BY <1>3, <1>4

-----------------------------------------------------------------------------
(* Committing.                                                             *)

\* Where c is when it commits.
LEMMA Committing ==
  ASSUME Shapes, CallsOK, NEW c \in Calls, Commit(c)
  PROVE  /\ Running(c) /\ Kind(c) \in Kinds
         /\ VariantsOf(c) \subseteq Variants
         /\ \A v \in VariantsOf(c) : Holds(c, VariantRow(v), "X") /\ Fits(c, v)
         /\ \A v \in Variants \ VariantsOf(c) : log[c][v] = << >>
         /\ Kind(c) = "checkout" => /\ Holds(c, Product, "X") /\ order[input[c].order] = NoOrder
                                    /\ input[c].order \in Orders /\ input[c].items \in Quantities
         /\ Kind(c) \in {"cancel", "reject"} => /\ order[input[c].order] \in OrderRows
                                                /\ input[c].order \in Orders
<1>1. Running(c) /\ Kind(c) \in Kinds /\ At(c, "commit")
  BY RequestFacts DEF Shapes, Commit, At, Running
<1>2. Stored(c) /\ Locked(c) /\ (Kind(c) \in {"cancel", "reject"} => Opened(c))
  BY <1>1, WhereCommit DEF Shapes, Stored, Locked, Opened
<1>3. CallOK(c)
  BY DEF CallsOK
<1>4. QED
  BY <1>1, <1>2, <1>3, RequestFacts, VariantsOfType DEF CallOK, LockedOK, OpenedOK, StoredOK, Shapes

\* A commit inserts the order, or changes only the status of one there is.
LEMMA OrdersCommitted ==
  ASSUME Shapes, CallsOK, NEW c \in Calls, Commit(c)
  PROVE  /\ order' = [p \in Orders |-> order'[p]]
         /\ \A p \in Orders : order'[p] = NoOrder \/ order'[p] \in OrderRows
         /\ \A p \in Orders : order[p] \in OrderRows => order'[p] \in OrderRows /\ order'[p].items = order[p].items
         /\ \A p \in Orders : order'[p] # order[p] => Kind(c) # "adjust" /\ p = input[c].order
<1> DEFINE o == input[c].order
<1>1. Kind(c) \in Kinds
  BY Committing
<1>2. CASE Kind(c) = "checkout"
  <2>1. PICK row : row = [status |-> "pending_confirmation", items |-> input[c].items]
    OBVIOUS
  <2>2. order' = [order EXCEPT ![o] = row]
    BY <1>2, <2>1 DEF Commit
  <2>3. row \in OrderRows /\ o \in Orders /\ order[o] = NoOrder
    BY <1>2, <2>1, Committing DEF OrderRows
  <2>4. NoOrder \notin OrderRows
    BY DEF NoOrder, OrderRows
  <2>5. QED
    BY <1>2, <2>2, <2>3, <2>4 DEF Shapes, DatabaseOK
<1>3. CASE Kind(c) \in {"cancel", "reject"}
  <2>1. order' = [order EXCEPT ![o].status = "cancelled"]
    BY <1>3 DEF Commit
  <2>2. order[o] \in OrderRows /\ o \in Orders
    BY <1>3, Committing
  <2>3. PICK row : row = [order[o] EXCEPT !.status = "cancelled"]
    OBVIOUS
  <2>4. row \in OrderRows /\ row.items = order[o].items
    BY <2>2, <2>3 DEF OrderRows
  <2>5. order'[o] = row /\ \A p \in Orders \ {o} : order'[p] = order[p]
    BY <2>1, <2>2, <2>3 DEF Shapes, DatabaseOK
  <2>6. order' = [p \in Orders |-> order'[p]]
    BY <2>1 DEF Shapes, DatabaseOK
  <2>7. QED
    BY <1>3, <2>4, <2>5, <2>6 DEF Shapes, DatabaseOK
<1>4. CASE Kind(c) = "adjust"
  <2>1. order' = order
    BY <1>4 DEF Commit
  <2>2. QED
    BY <2>1 DEF Shapes, DatabaseOK
<1>5. QED
  BY <1>1, <1>2, <1>3, <1>4 DEF Kinds

\* What a commit does to one variant: nothing, or one more movement.
Committed(v) ==
  \/ movements'[v] = movements[v] /\ stock'[v] = stock[v]
  \/ \E m \in MovementRows :
       /\ movements'[v] = Append(movements[v], m) /\ m.before = stock[v]
       /\ stock'[v] <= m.after /\ (Latest => stock'[v] = m.after)

LEMMA StockCommitted ==
  ASSUME Shapes, CallsOK, NEW c \in Calls, Commit(c), NEW v \in Variants
  PROVE  Committed(v) /\ stock'[v] \in Nat
<1>1. /\ movements'[v] = movements[v] \o log[c][v]
      /\ stock'[v] = IF v \in VariantsOf(c) THEN written[c][v] ELSE stock[v]
  BY DEF Commit
<1>2. movements[v] \in Seq(MovementRows) /\ stock[v] \in Nat /\ written[c][v] \in Nat
  BY DEF Shapes, DatabaseOK, SessionsOK, Quantities
<1>3. CASE log[c][v] = << >> /\ (v \in VariantsOf(c) => written[c][v] = stock[v])
  BY <1>1, <1>2, <1>3 DEF Committed
<1>4. ASSUME v \in VariantsOf(c), NEW m \in MovementRows, log[c][v] = <<m>>, m.before = stock[v],
             written[c][v] <= m.after, Latest => written[c][v] = m.after
      PROVE  Committed(v) /\ stock'[v] \in Nat
  <2>1. movements'[v] = Append(movements[v], m)
    BY <1>1, <1>2, <1>4
  <2>2. QED
    BY <1>1, <1>2, <1>4, <2>1 DEF Committed
<1>5. CASE v \in VariantsOf(c)
  BY <1>3, <1>4, <1>5, Committing DEF Fits
<1>6. CASE v \notin VariantsOf(c)
  BY <1>3, <1>6, Committing
<1>7. QED
  BY <1>5, <1>6

LEMMA CommitStep ==
  ASSUME Shapes, CallsOK, NEW c \in Calls, Commit(c), UNCHANGED <<input, isolation>>
  PROVE  Shapes' /\ CallsOK' /\ \A v \in Variants : Committed(v)
<1>1. \A v \in Variants : Committed(v) /\ stock'[v] \in Nat
  BY StockCommitted
<1>2. DatabaseOK'
  <2>1. stock' \in Quantities
    <3>1. stock' = [v \in Variants |-> stock'[v]]
      BY DEF Commit
    <3>2. QED
      BY <1>1, <3>1 DEF Quantities
  <2>2. movements' \in [Variants -> Seq(MovementRows)]
    <3>1. movements' = [v \in Variants |-> movements'[v]]
      BY DEF Commit
    <3>2. ASSUME NEW v \in Variants
          PROVE  movements'[v] \in Seq(MovementRows)
      <4>1. movements[v] \in Seq(MovementRows)
        BY DEF Shapes, DatabaseOK
      <4>2. \A m \in MovementRows, h \in Seq(MovementRows) : Append(h, m) \in Seq(MovementRows)
        OBVIOUS
      <4>3. Committed(v)
        BY <1>1
      <4>4. CASE movements'[v] = movements[v]
        BY <4>1, <4>4
      <4>5. ASSUME NEW m \in MovementRows, movements'[v] = Append(movements[v], m)
            PROVE  movements'[v] \in Seq(MovementRows)
        BY <4>1, <4>2, <4>5
      <4>6. QED
        BY <4>3, <4>4, <4>5 DEF Committed
    <3>3. QED
      BY <3>1, <3>2
  <2>3. QED
    BY <2>1, <2>2, OrdersCommitted DEF DatabaseOK
<1>3. LocksOK' /\ \A d \in Calls \ {c}, r \in Rows : Holds(d, r, "X") => Holds(d, r, "X")'
  BY ReleasedLocks DEF Commit, End, Shapes
<1>4. outcome' = [outcome EXCEPT ![c] = "committed"] /\ UNCHANGED <<pc, session, input, isolation>>
  BY DEF Commit, End
<1>5. outcome'[c] = "committed" /\ \A d \in Calls \ {c} : outcome'[d] = outcome[d]
  BY <1>4 DEF Shapes, SessionsOK
<1>6. SessionsOK'
  BY <1>4 DEF Shapes, SessionsOK, Steps, Kind, session, Outcomes
<1>7. CallOK(c)'
  <2>1. ~ Running(c)'
    BY <1>5 DEF Running
  <2>2. QED
    BY <2>1 DEF CallOK, LockedOK, ViewedOK, OpenedOK, StoredOK, Locked, Viewed, Opened, Stored
<1>8. ASSUME NEW d \in Calls \ {c}
      PROVE  CallOK(d)'
  <2>1. CallOK(d)
    BY DEF CallsOK
  <2>2. Locked(d) => \A v \in VariantsOf(d) : stock'[v] = stock[v]
    <3>1. ASSUME Locked(d), NEW v \in VariantsOf(d)
          PROVE  v \notin VariantsOf(c)
      <4>1. Holds(d, VariantRow(v), "X")
        BY <2>1, <3>1 DEF CallOK, LockedOK
      <4>2. v \in Variants /\ VariantRow(v) \in Rows
        BY VariantsOfType, RowTypes DEF Shapes
      <4>3. v \in VariantsOf(c) => Holds(c, VariantRow(v), "X")
        BY Committing
      <4>4. QED
        BY <4>1, <4>2, <4>3 DEF Shapes, LocksOK
    <3>2. VariantsOf(d) \subseteq Variants
      BY VariantsOfType DEF Shapes
    <3>3. QED
      BY <3>1, <3>2 DEF Commit
  <2>3. Opened(d) => /\ order'[input[d].order] \in OrderRows
                    /\ order'[input[d].order].items = order[input[d].order].items
    <3>1. Opened(d) => input[d].order \in Orders /\ order[input[d].order] \in OrderRows
      BY <2>1, RequestFacts DEF Opened, CallOK, OpenedOK, Shapes
    <3>2. QED
      BY <3>1, OrdersCommitted
  <2>4. Stored(d) /\ Kind(d) = "checkout" => order'[input[d].order] = order[input[d].order]
    <3>1. SUFFICES ASSUME Stored(d), Kind(d) = "checkout", order'[input[d].order] # order[input[d].order]
                   PROVE  FALSE
      OBVIOUS
    <3>2. input[d].order \in Orders /\ order[input[d].order] = NoOrder /\ Locked(d)
      BY <2>1, <3>1, RequestFacts DEF CallOK, StoredOK, Stored, Locked, Shapes, SessionsOK
    <3>3. input[c].order = input[d].order /\ Kind(c) # "adjust"
      BY <3>1, <3>2, OrdersCommitted
    <3>4. NoOrder \notin OrderRows
      BY DEF NoOrder, OrderRows
    <3>5. Kind(c) = "checkout"
      BY <3>2, <3>3, <3>4, Committing DEF Kinds
    <3>6. Holds(c, Product, "X") /\ Holds(d, Product, "X")
      BY <2>1, <3>1, <3>2, <3>5, Committing DEF CallOK, LockedOK
    <3>7. QED
      BY <3>6, RowTypes DEF Shapes, LocksOK
  <2>5. Bystander(d)
    BY <1>3, <1>4, <1>5, <2>2, <2>3, <2>4 DEF Bystander, session
  <2>6. QED
    BY <2>1, <2>5, BystanderKeeps DEF Shapes
<1>9. QED
  BY <1>1, <1>2, <1>3, <1>6, <1>7, <1>8 DEF Shapes, CallsOK

-----------------------------------------------------------------------------
(* The history of a variant: the rows h, from the stock start on.          *)

Rest(h, start, i) == IF i = 0 THEN start ELSE h[i].after

Bounded(h, start, s) ==
  /\ \A i \in DOMAIN h : h[i].before <= Rest(h, start, i - 1)
  /\ 0 <= s /\ s <= Rest(h, start, Len(h))

Chained(h, start, s) ==
  /\ \A i \in DOMAIN h : h[i].before = Rest(h, start, i - 1)
  /\ s = Rest(h, start, Len(h))

History(v) ==
  /\ Bounded(movements[v], InitialStock[v], stock[v])
  /\ Latest => Chained(movements[v], InitialStock[v], stock[v])

\* A movement that begins with the stock there is continues the history.
LEMMA OneMore ==
  ASSUME NEW h \in Seq(MovementRows), NEW m \in MovementRows, NEW start \in Nat, NEW s \in Nat,
         NEW t \in Nat, m.before = s
  PROVE  /\ Bounded(h, start, s) /\ t <= m.after => Bounded(Append(h, m), start, t)
         /\ Chained(h, start, s) /\ t = m.after => Chained(Append(h, m), start, t)
<1> DEFINE g == Append(h, m)
           n == Len(h)
<1>1. n \in Nat /\ DOMAIN h = 1..n
  OBVIOUS
<1>2. Len(g) = n + 1 /\ DOMAIN g = 1..(n + 1) /\ g[n + 1] = m /\ \A i \in 1..n : g[i] = h[i]
  OBVIOUS
<1> HIDE DEF g, n
<1>3. ASSUME NEW i \in 1..(n + 1)
      PROVE  Rest(g, start, i - 1) = Rest(h, start, i - 1)
  <2>1. CASE i - 1 = 0
    BY <2>1 DEF Rest
  <2>2. CASE i - 1 # 0
    <3>1. i - 1 \in 1..n
      BY <1>1, <2>2
    <3>2. g[i - 1] = h[i - 1]
      BY <1>2, <3>1
    <3>3. QED
      BY <2>2, <3>2 DEF Rest
  <2>3. QED
    BY <2>1, <2>2
<1>4. Rest(g, start, Len(g)) = m.after
  <2>1. n + 1 # 0
    BY <1>1
  <2>2. QED
    BY <1>2, <2>1 DEF Rest
<1>5. \A i \in 1..(n + 1) : i \in 1..n \/ i = n + 1
  BY <1>1
<1>6. n + 1 \in 1..(n + 1) /\ (n + 1) - 1 = n /\ \A i \in 1..n : i \in 1..(n + 1)
  BY <1>1
<1>7. Rest(g, start, n) = Rest(h, start, n)
  BY <1>3, <1>6
<1>8. ASSUME Bounded(h, start, s), t <= m.after
      PROVE  Bounded(g, start, t)
  <2>1. s <= Rest(h, start, n)
    BY <1>8 DEF Bounded, n
  <2>2. ASSUME NEW i \in 1..(n + 1)
        PROVE  g[i].before <= Rest(g, start, i - 1)
    <3>1. CASE i \in 1..n
      <4>1. g[i] = h[i] /\ h[i].before <= Rest(h, start, i - 1)
        BY <1>1, <1>2, <1>8, <3>1 DEF Bounded
      <4>2. QED
        BY <1>3, <4>1
    <3>2. CASE i = n + 1
      <4>1. i - 1 = n /\ g[i] = m
        BY <1>2, <1>6, <3>2
      <4>2. QED
        BY <1>7, <2>1, <4>1
    <3>3. QED
      BY <1>5, <3>1, <3>2
  <2>3. 0 <= t /\ t <= Rest(g, start, Len(g))
    BY <1>4, <1>8
  <2>4. QED
    BY <1>2, <2>2, <2>3 DEF Bounded
<1>9. ASSUME Chained(h, start, s), t = m.after
      PROVE  Chained(g, start, t)
  <2>1. s = Rest(h, start, n)
    BY <1>9 DEF Chained, n
  <2>2. ASSUME NEW i \in 1..(n + 1)
        PROVE  g[i].before = Rest(g, start, i - 1)
    <3>1. CASE i \in 1..n
      <4>1. g[i] = h[i] /\ h[i].before = Rest(h, start, i - 1)
        BY <1>1, <1>2, <1>9, <3>1 DEF Chained
      <4>2. QED
        BY <1>3, <4>1
    <3>2. CASE i = n + 1
      <4>1. i - 1 = n /\ g[i] = m
        BY <1>2, <1>6, <3>2
      <4>2. QED
        BY <1>7, <2>1, <4>1
    <3>3. QED
      BY <1>5, <3>1, <3>2
  <2>3. QED
    BY <1>2, <1>4, <1>9, <2>2 DEF Chained
<1>10. QED
  BY <1>8, <1>9 DEF g

LEMMA HistoriesOfVariants ==
  (\A v \in Variants : History(v)) <=> NothingOversold /\ CommittedHistoryExplainsStock
BY DEF NothingOversold, CommittedHistoryExplainsStock, HistoryExplainsStock, History, Bounded, Chained,
       Left, Rest, Latest

StockInv == Shapes /\ CallsOK /\ \A v \in Variants : History(v)

LEMMA CommittedHistory ==
  ASSUME Shapes, NEW v \in Variants, Committed(v), stock'[v] \in Nat, UNCHANGED isolation, History(v)
  PROVE  History(v)'
<1>1. CASE movements'[v] = movements[v] /\ stock'[v] = stock[v]
  BY <1>1 DEF History, Latest
<1>2. ASSUME NEW m \in MovementRows, movements'[v] = Append(movements[v], m), m.before = stock[v],
             stock'[v] <= m.after, Latest => stock'[v] = m.after
      PROVE  History(v)'
  <2>1. movements[v] \in Seq(MovementRows) /\ stock[v] \in Nat /\ InitialStock[v] \in Nat
    BY StockAssumption DEF Shapes, DatabaseOK, Quantities
  <2>2. Bounded(Append(movements[v], m), InitialStock[v], stock'[v])
    BY <1>2, <2>1, OneMore DEF History
  <2>3. Latest => Chained(Append(movements[v], m), InitialStock[v], stock'[v])
    BY <1>2, <2>1, OneMore DEF History
  <2>4. QED
    BY <1>2, <2>2, <2>3 DEF History, Latest
<1>3. QED
  BY <1>1, <1>2 DEF Committed

-----------------------------------------------------------------------------
(* Every step.                                                             *)

LEMMA StepKeeps ==
  ASSUME StockInv, NEW c \in Calls, Step(c) \/ DeadlockVictim(c) \/ Crash(c), UNCHANGED <<input, isolation>>
  PROVE  StockInv'
<1>1. Shapes /\ CallsOK /\ \A v \in Variants : History(v)
  BY DEF StockInv
<1>2. CASE Commit(c)
  <2>1. Shapes' /\ CallsOK' /\ \A v \in Variants : Committed(v)
    BY <1>1, <1>2, CommitStep
  <2>2. \A v \in Variants : stock'[v] \in Nat
    BY <2>1 DEF Shapes, DatabaseOK, Quantities
  <2>3. QED
    BY <1>1, <2>1, <2>2, CommittedHistory DEF StockInv
<1>3. ASSUME Shapes' /\ CallsOK', UNCHANGED <<stock, movements>>
      PROVE  StockInv'
  BY <1>1, <1>3 DEF StockInv, History, Latest
<1>4. CASE LockVariants(c)
  BY <1>1, <1>3, <1>4, LockVariantsStep DEF LockVariants, LockNext, database
<1>5. CASE LockProduct(c) \/ LockWallets(c)
  BY <1>1, <1>3, <1>5, LockOthersStep DEF LockProduct, LockWallets, LockNext, database
<1>6. CASE FindSeller(c)
  BY <1>1, <1>3, <1>6, FindSellerStep DEF FindSeller, database
<1>7. CASE LockOrder(c)
  BY <1>1, <1>3, <1>7, LockOrderStep DEF LockOrder, Rollback, database
<1>8. CASE InsertOrder(c)
  BY <1>1, <1>3, <1>8, InsertOrderStep DEF InsertOrder, Rollback, SaveStock, database
<1>9. CASE Restore(c)
  BY <1>1, <1>3, <1>9, RestoreStep DEF Restore, SaveStock, database
<1>10. CASE Overwrite(c)
  BY <1>1, <1>3, <1>10, OverwriteStep DEF Overwrite, Rollback, database
<1>11. CASE DeadlockVictim(c) \/ Crash(c)
  <2>1. PICK result \in Outcomes : Rollback(c, result)
    BY <1>11 DEF DeadlockVictim, Crash, Outcomes
  <2>2. QED
    BY <1>1, <1>3, <2>1, RollbackStep DEF Rollback, database
<1>12. QED
  BY <1>2, <1>4, <1>5, <1>6, <1>7, <1>8, <1>9, <1>10, <1>11 DEF Step

LEMMA StockInit ==
  ASSUME Init
  PROVE  StockInv
<1>1. << >> \in Seq(MovementRows) /\ Len(<< >>) = 0 /\ DOMAIN << >> = {}
  OBVIOUS
<1>2. DatabaseOK
  <2>1. stock \in Quantities
    BY StockAssumption DEF Init
  <2>2. movements \in [Variants -> Seq(MovementRows)]
    BY <1>1 DEF Init
  <2>3. order = [o \in Orders |-> order[o]]
    BY DEF Init
  <2>4. ASSUME NEW o \in Orders
        PROVE  order[o] = NoOrder \/ order[o] \in OrderRows
    <3>1. CASE o \in DOMAIN InitialOrders
      <4>1. InitialOrders[o] \in Quantities
        BY <3>1, StockAssumption
      <4>2. order[o] = [status |-> "pending_confirmation", items |-> InitialOrders[o]]
        BY <3>1 DEF Init
      <4>3. QED
        BY <4>1, <4>2 DEF OrderRows
    <3>2. CASE o \notin DOMAIN InitialOrders
      BY <3>2 DEF Init
    <3>3. QED
      BY <3>1, <3>2
  <2>5. QED
    BY <2>1, <2>2, <2>3, <2>4 DEF DatabaseOK
<1>3. SessionsOK
  <2>1. input \in Workloads /\ isolation \in Isolations
    BY DEF Init
  <2>2. pc \in [Calls -> Nat] /\ \A c \in Calls : pc[c] \in 1..Steps(c)
    BY DEF Init, Steps
  <2>3. outcome \in [Calls -> Outcomes \cup {"running"}]
    BY DEF Init
  <2>4. view \in [Calls -> Quantities] /\ written \in [Calls -> Quantities]
    BY StockAssumption DEF Init
  <2>5. movements \in [Variants -> Seq(MovementRows)]
    BY <1>2 DEF DatabaseOK
  <2>6. log \in [Calls -> [Variants -> Seq(MovementRows)]]
    BY <2>5 DEF Init
  <2>7. QED
    BY <2>1, <2>2, <2>3, <2>4, <2>6 DEF SessionsOK
<1>4. LocksOK
  BY DEF Init, NoLocks, LocksOK, LocksTypeOK, Holds
<1>5. ASSUME NEW c \in Calls
      PROVE  CallOK(c)
  <2>1. pc[c] = 1
    BY DEF Init
  <2>2. Kind(c) = "checkout" \/ Kind(c) # "checkout"
    OBVIOUS
  <2>3. ~ Locked(c) /\ ~ Viewed(c) /\ ~ Opened(c) /\ ~ Stored(c)
    BY <2>1 DEF Locked, Viewed, Opened, Stored
  <2>4. QED
    BY <2>3 DEF CallOK, LockedOK, ViewedOK, OpenedOK, StoredOK
<1>6. ASSUME NEW v \in Variants
      PROVE  History(v)
  <2>1. movements[v] = << >> /\ stock[v] = InitialStock[v] /\ InitialStock[v] \in Nat
    BY StockAssumption DEF Init, Quantities
  <2>2. QED
    BY <1>1, <2>1 DEF History, Bounded, Chained, Rest
<1>7. QED
  BY <1>2, <1>3, <1>4, <1>5, <1>6 DEF StockInv, Shapes, CallsOK

LEMMA StockInvariant == Spec => []StockInv
<1>1. ASSUME StockInv, [Next]_vars
      PROVE  StockInv'
  <2>1. CASE \E c \in Calls : (Step(c) \/ DeadlockVictim(c) \/ Crash(c)) /\ UNCHANGED <<input, isolation>>
    BY <1>1, <2>1, StepKeeps
  <2>2. CASE UNCHANGED vars
    <3>1. UNCHANGED <<stock, order, movements, input, isolation, pc, outcome, locks, view, written, log>>
      BY <2>2 DEF vars, database, session
    <3>2. Shapes'
      BY <1>1, <3>1 DEF StockInv, Shapes, DatabaseOK, SessionsOK, LocksOK, LocksTypeOK, Holds, Steps, Kind
    <3>3. ASSUME NEW d \in Calls
          PROVE  CallOK(d)'
      <4>1. CallOK(d) /\ SessionsOK
        BY <1>1 DEF StockInv, CallsOK, Shapes
      <4>2. Bystander(d)
        BY <3>1, <4>1 DEF Bystander, session, Holds, CallOK, OpenedOK
      <4>3. QED
        BY <4>1, <4>2, BystanderKeeps
    <3>4. \A v \in Variants : History(v)'
      BY <1>1, <3>1 DEF StockInv, History, Latest
    <3>5. QED
      BY <3>2, <3>3, <3>4 DEF StockInv, CallsOK
  <2>3. QED
    BY <1>1, <2>1, <2>2 DEF Next
<1>2. QED
  BY <1>1, StockInit, PTL DEF Spec

\* Whatever the isolation level, whoever rolls back and in whatever order the
\* locks are granted, no variant is sold or given back beyond what its earlier
\* movements left of it: no stock below zero, and none above what the last
\* movement says (createOrder and restoreOrderStock in orders.service.ts, and the
\* adjustments of products.service.ts).
THEOREM NothingIsOversold == Spec => []NothingOversold
<1>1. StockInv => NothingOversold
  BY HistoriesOfVariants DEF StockInv
<1>2. QED
  BY <1>1, StockInvariant, PTL

\* Stock, orders, movements, read views and row locks keep their shape: quantities
\* are never negative, neither those committed nor those a transaction has read or
\* written (createOrder, restoreOrderStock, ProductsService.update).
THEOREM StockTyping == Spec => []TypeOK
<1>1. ASSUME StockInv
      PROVE  TypeOK
  <2>1. Shapes
    BY <1>1 DEF StockInv
  <2>2. pc \in [Calls -> 1..5]
    <3>1. \A c \in Calls : Steps(c) \in {4, 5}
      BY DEF Steps
    <3>2. \A c \in Calls : pc[c] \in 1..5
      BY <2>1, <3>1 DEF Shapes, SessionsOK
    <3>3. QED
      BY <2>1, <3>2 DEF Shapes, SessionsOK
  <2>3. ASSUME NEW v \in Variants, NEW i \in DOMAIN movements[v]
        PROVE  movements[v][i].before \in Nat /\ movements[v][i].after \in Nat
    <3>1. movements[v] \in Seq(MovementRows)
      BY <2>1 DEF Shapes, DatabaseOK
    <3>2. movements[v][i] \in MovementRows
      BY <3>1
    <3>3. QED
      BY <3>2 DEF MovementRows
  <2>4. QED
    BY <2>1, <2>2, <2>3 DEF TypeOK, Shapes, DatabaseOK, SessionsOK, LocksOK
<1>2. QED
  BY <1>1, StockInvariant, PTL

\* Under READ COMMITTED the movements of each variant form a chain from its first
\* stock to the one it has, as database_schema.dbml says of inventory_movements:
\* checkouts, cancellations, refusals and adjustments all lock the rows they read
\* before they compute what they save.
THEOREM HistoriesExplainStock == Spec => []CommittedHistoryExplainsStock
<1>1. StockInv => CommittedHistoryExplainsStock
  BY HistoriesOfVariants DEF StockInv
<1>2. QED
  BY <1>1, StockInvariant, PTL
-----------------------------------------------------------------------------
(* The inventory: what a call is going to make of it.                      *)

\* c owns the order it is to cancel, which nobody else has cancelled.
OwnOK(c) ==
  Opened(c) => /\ Holds(c, <<"order", input[c].order>>, "X")
               /\ order[input[c].order].status = "pending_confirmation"

\* What a checkout writes is what there is less what it asks for; what a cancellation
\* writes is what there is with what the order took, unless it lost that; what an
\* adjustment writes is what the seller asked for.
CheckoutOK(c) ==
  Kind(c) = "checkout" =>
    \A v \in VariantsOf(c) : input[c].items[v] <= stock[v] /\ written[c][v] = stock[v] - input[c].items[v]
ReturnOK(c) ==
  Kind(c) \in {"cancel", "reject"} =>
    \A v \in VariantsOf(c) :
      /\ written[c][v] \in {stock[v], stock[v] + order[input[c].order].items[v]}
      /\ Latest => written[c][v] = stock[v] + order[input[c].order].items[v]
AdjustOK(c) == Kind(c) = "adjust" => written[c] = input[c].stock

\* Only who cancels an order inserts a movement that gives it back.
LogOK(c) ==
  \A v \in Variants : \A i \in DOMAIN log[c][v] : \A o \in Orders :
    log[c][v][i].key = <<"restore", o, v>> => Kind(c) \in {"cancel", "reject"} /\ o = input[c].order

PlanOK(c) == OwnOK(c) /\ (Stored(c) => CheckoutOK(c) /\ ReturnOK(c) /\ AdjustOK(c) /\ LogOK(c))

\* An order that was given back has been cancelled.
RestoredOK ==
  \A v \in Variants : \A o \in Orders : <<"restore", o, v>> \in Keys(v) => order[o].status = "cancelled"

PlanInv == RestoredOK /\ \A c \in Calls : PlanOK(c)

\* Whatever c does, the others go on where they are.
LEMMA StepsAreAlone ==
  ASSUME Shapes, NEW c \in Calls, Step(c) \/ DeadlockVictim(c) \/ Crash(c), UNCHANGED <<input, isolation>>
  PROVE  Alone(c)
<1> USE DEF Shapes
<1>1. ASSUME NEW row, NEW mode \in {"S", "X"}, Acquire(c, row, mode), UNCHANGED <<pc, outcome>> \/ Continue(c),
             UNCHANGED <<written, log>>, view' = view \/ view' = [view EXCEPT ![c] = stock]
      PROVE  Alone(c)
  <2>1. \A d \in Calls, r \in Rows : Holds(d, r, "X") => Holds(d, r, "X")'
    BY <1>1, AcquireLocks
  <2>2. \A d \in Calls \ {c} : outcome'[d] = outcome[d] /\ pc'[d] = pc[d] /\ view'[d] = view[d]
    BY <1>1 DEF Continue, SessionsOK
  <2>3. QED
    BY <1>1, <2>1, <2>2 DEF Alone
<1>2. ASSUME Continue(c), UNCHANGED locks, \A d \in Calls \ {c} : view'[d] = view[d] /\ written'[d] = written[d] /\ log'[d] = log[d]
      PROVE  Alone(c)
  BY <1>2 DEF Alone, Continue, SessionsOK, Holds
<1>3. ASSUME NEW result, End(c, result), UNCHANGED session
      PROVE  Alone(c)
  <2>1. \A d \in Calls \ {c}, r \in Rows : Holds(d, r, "X") => Holds(d, r, "X")'
    BY <1>3, ReleasedLocks DEF End
  <2>2. \A d \in Calls \ {c} : outcome'[d] = outcome[d]
    BY <1>3 DEF End, SessionsOK
  <2>3. QED
    BY <1>3, <2>1, <2>2 DEF Alone, End, session
<1>4. ASSUME NEW missing, NEW row, NEW mode \in {"S", "X"}, LockNext(c, missing, row, mode)
      PROVE  Alone(c)
  <2>1. CASE missing
    BY <1>1, <1>4, <2>1 DEF LockNext, session
  <2>2. CASE ~ missing
    BY <1>2, <1>4, <2>2 DEF LockNext, session
  <2>3. QED
    BY <2>1, <2>2
<1>5. CASE LockVariants(c)
  <2>1. PICK row, missing : LockNext(c, missing, row, "X")
    BY <1>5 DEF LockVariants
  <2>2. QED
    BY <1>4, <2>1
<1>6. CASE LockWallets(c)
  <2>1. PICK mode \in {"S", "X"} : mode = NextWalletMode(c)
    BY DEF NextWalletMode
  <2>2. LockNext(c, ~Holds(c, Wallets, "X"), Wallets, mode)
    BY <1>6, <2>1 DEF LockWallets
  <2>3. QED
    BY <1>4, <2>2
<1>7. CASE LockProduct(c)
  BY <1>4, <1>7 DEF LockProduct
<1>8. CASE FindSeller(c)
  BY <1>2, <1>8 DEF FindSeller, SessionsOK
<1>9. ASSUME NEW result, Rollback(c, result)
      PROVE  Alone(c)
  BY <1>3, <1>9 DEF Rollback
<1>10. CASE LockOrder(c)
  <2>1. CASE order[input[c].order].status = "pending_confirmation"
    <3>1. PICK row : Acquire(c, row, "X")
      BY <1>10, <2>1 DEF LockOrder
    <3>2. QED
      BY <1>1, <1>10, <2>1, <3>1 DEF LockOrder
  <2>2. CASE order[input[c].order].status # "pending_confirmation"
    BY <1>9, <1>10, <2>2 DEF LockOrder
  <2>3. QED
    BY <2>1, <2>2
<1>11. ASSUME NEW S, NEW after, NEW key, SaveStock(c, S, after, key)
       PROVE  Alone(c)
  <2>1. PICK w, l : written' = [written EXCEPT ![c] = w] /\ log' = [log EXCEPT ![c] = l]
    BY <1>11 DEF SaveStock
  <2>2. QED
    BY <1>2, <1>11, <2>1 DEF SaveStock, SessionsOK
<1>12. CASE InsertOrder(c)
  BY <1>9, <1>11, <1>12 DEF InsertOrder
<1>13. CASE Restore(c)
  BY <1>11, <1>13 DEF Restore
<1>14. CASE Overwrite(c)
  <2>1. CASE \E result : Rollback(c, result)
    BY <1>9, <2>1
  <2>2. CASE ~ \E result : Rollback(c, result)
    <3>1. PICK w, l : /\ written' = [written EXCEPT ![c] = w] /\ log' = [log EXCEPT ![c] = l]
                      /\ Continue(c) /\ UNCHANGED <<locks, view>>
      BY <1>14, <2>2 DEF Overwrite
    <3>2. QED
      BY <1>2, <3>1 DEF SessionsOK
  <2>3. QED
    BY <2>1, <2>2
<1>15. CASE Commit(c)
  BY <1>3, <1>15 DEF Commit
<1>16. CASE DeadlockVictim(c) \/ Crash(c)
  BY <1>9, <1>16 DEF DeadlockVictim, Crash
<1>17. QED
  BY <1>5, <1>6, <1>7, <1>8, <1>10, <1>12, <1>13, <1>14, <1>15, <1>16 DEF Step

\* What others have locked, or written, stays as they know it.
LEMMA OthersStay ==
  ASSUME StockInv, PlanInv, NEW c \in Calls, Step(c) \/ DeadlockVictim(c) \/ Crash(c), UNCHANGED <<input, isolation>>,
         UNCHANGED database \/ Commit(c), NEW d \in Calls \ {c}
  PROVE  /\ Locked(d) => \A v \in VariantsOf(d) : stock'[v] = stock[v]
         /\ Opened(d) => order'[input[d].order] = order[input[d].order]
<1>1. CASE UNCHANGED database
  BY <1>1 DEF database
<1>2. CASE Commit(c)
  <2>1. CallOK(d) /\ PlanOK(d) /\ PlanOK(c) /\ Shapes /\ CallsOK
    BY DEF StockInv, CallsOK, PlanInv
  <2>2. ASSUME Locked(d), NEW v \in VariantsOf(d)
        PROVE  stock'[v] = stock[v]
    <3>1. v \in Variants /\ VariantRow(v) \in Rows
      BY <2>1, VariantsOfType, RowTypes DEF Shapes
    <3>2. Holds(d, VariantRow(v), "X")
      BY <2>1, <2>2 DEF CallOK, LockedOK
    <3>3. v \in VariantsOf(c) => Holds(c, VariantRow(v), "X")
      BY <1>2, <2>1, Committing
    <3>4. v \notin VariantsOf(c)
      BY <2>1, <3>1, <3>2, <3>3 DEF Shapes, LocksOK
    <3>5. QED
      BY <1>2, <3>1, <3>4 DEF Commit
  <2>3. ASSUME Opened(d), order'[input[d].order] # order[input[d].order]
        PROVE  FALSE
    <3>1. /\ input[d].order \in Orders /\ order[input[d].order].status = "pending_confirmation"
          /\ Holds(d, <<"order", input[d].order>>, "X")
      BY <2>1, <2>3, RequestFacts DEF PlanOK, OwnOK, Opened, Shapes
    <3>2. Kind(c) # "adjust" /\ input[d].order = input[c].order
      BY <1>2, <2>1, <2>3, <3>1, OrdersCommitted
    <3>3. Kind(c) # "checkout"
      BY <1>2, <2>1, <3>1, <3>2, Committing DEF NoOrder
    <3>4. Opened(c)
      <4>1. Running(c) /\ Kind(c) \in {"cancel", "reject"}
        BY <1>2, <2>1, <3>2, <3>3, Committing DEF Kinds
      <4>2. pc[c] = 5
        BY <1>2, <2>1, <4>1, WhereCommit DEF Commit, Shapes
      <4>3. QED
        BY <4>1, <4>2 DEF Opened
    <3>5. Holds(c, <<"order", input[c].order>>, "X")
      BY <2>1, <3>4 DEF PlanOK, OwnOK
    <3>6. <<"order", input[d].order>> \in Rows
      BY <3>1 DEF Rows
    <3>7. QED
      BY <2>1, <3>1, <3>2, <3>5, <3>6 DEF Shapes, LocksOK
  <2>4. QED
    BY <2>2, <2>3
<1>3. QED
  BY <1>1, <1>2

LEMMA OtherPlans ==
  ASSUME StockInv, PlanInv, NEW c \in Calls, Step(c) \/ DeadlockVictim(c) \/ Crash(c), UNCHANGED <<input, isolation>>,
         UNCHANGED database \/ Commit(c), NEW d \in Calls \ {c}
  PROVE  PlanOK(d)'
<1>1. CallOK(d) /\ PlanOK(d) /\ Shapes /\ Alone(c)
  BY StepsAreAlone DEF StockInv, CallsOK, PlanInv
<1>2. /\ Locked(d) => \A v \in VariantsOf(d) : stock'[v] = stock[v]
      /\ Opened(d) => order'[input[d].order] = order[input[d].order]
  BY OthersStay
<1>3. Kind(d)' = Kind(d) /\ Kind(d) \in Kinds /\ Latest' = Latest
  BY <1>1, RequestFacts DEF Alone, Kind, Shapes, Latest
<1>4. Opened(d)' = Opened(d) /\ Stored(d)' = Stored(d)
  BY <1>1, <1>3 DEF Alone, Opened, Stored, Running
<1>5. Stored(d) => Locked(d) /\ (Kind(d) \in {"cancel", "reject"} => Opened(d))
  BY <1>1 DEF Shapes, SessionsOK, Stored, Locked, Opened
<1>6. Opened(d) => input[d].order \in Orders /\ <<"order", input[d].order>> \in Rows
  BY <1>1, RequestFacts DEF Opened, Shapes, Rows
<1>7. Stored(d) => VariantsOf(d)' = VariantsOf(d)
  <2>1. input' = input
    BY <1>1 DEF Alone
  <2>2. CASE Kind(d) \in {"checkout", "adjust"}
    BY <1>3, <2>1, <2>2 DEF VariantsOf, Contains
  <2>3. CASE Kind(d) \in {"cancel", "reject"}
    BY <1>2, <1>3, <1>5, <2>1, <2>3 DEF VariantsOf, Contains
  <2>4. QED
    BY <1>3, <2>2, <2>3 DEF Kinds
<1>8. OwnOK(d)'
  <2>1. ASSUME Opened(d)
        PROVE  Holds(d, <<"order", input[d].order>>, "X")'
    <3>1. PICK r \in Rows : r = <<"order", input[d].order>>
      BY <1>6, <2>1
    <3>2. Holds(d, r, "X")
      BY <1>1, <2>1, <3>1 DEF PlanOK, OwnOK
    <3>3. Holds(d, r, "X")' /\ input' = input
      BY <1>1, <3>2 DEF Alone
    <3>4. QED
      BY <3>1, <3>3 DEF Holds
  <2>2. input' = input
    BY <1>1 DEF Alone
  <2>3. QED
    BY <1>1, <1>2, <1>4, <2>1, <2>2 DEF PlanOK, OwnOK
<1>9. ASSUME Stored(d)
      PROVE  (CheckoutOK(d) /\ ReturnOK(d) /\ AdjustOK(d) /\ LogOK(d))'
  <2>1. CheckoutOK(d) /\ ReturnOK(d) /\ AdjustOK(d) /\ LogOK(d)
    BY <1>1, <1>9 DEF PlanOK
  <2>2. /\ input' = input /\ written'[d] = written[d] /\ log'[d] = log[d] /\ VariantsOf(d)' = VariantsOf(d)
        /\ \A v \in VariantsOf(d) : stock'[v] = stock[v]
        /\ Kind(d) \in {"cancel", "reject"} => order'[input[d].order] = order[input[d].order]
    BY <1>1, <1>2, <1>5, <1>7, <1>9 DEF Alone
  <2>3. CheckoutOK(d)'
    BY <1>3, <2>1, <2>2 DEF CheckoutOK
  <2>4. ReturnOK(d)'
    BY <1>3, <2>1, <2>2 DEF ReturnOK
  <2>5. AdjustOK(d)' /\ LogOK(d)'
    BY <1>3, <2>1, <2>2 DEF AdjustOK, LogOK
  <2>6. QED
    BY <2>3, <2>4, <2>5
<1>10. QED
  BY <1>4, <1>8, <1>9 DEF PlanOK

\* c itself, while it changes nothing in the database and saves nothing.
LEMMA OwnPlan ==
  ASSUME StockInv, PlanInv, NEW c \in Calls, UNCHANGED <<input, isolation, database, written, log>>,
         Running(c)' => Opened(c)' = Opened(c) /\ Stored(c)' = Stored(c),
         Opened(c)' => \A r \in Rows : Holds(c, r, "X") => Holds(c, r, "X")'
  PROVE  PlanOK(c)'
<1>1. PlanOK(c) /\ Shapes
  BY DEF PlanInv, StockInv
<1>2. Kind(c)' = Kind(c) /\ Latest' = Latest /\ VariantsOf(c)' = VariantsOf(c)
  BY DEF Kind, Latest, VariantsOf, database, Contains
<1>3. CASE ~ Running(c)'
  BY <1>3 DEF PlanOK, OwnOK, Opened, Stored
<1>4. CASE Running(c)'
  <2>1. ASSUME Opened(c)
        PROVE  Holds(c, <<"order", input[c].order>>, "X")'
    <3>1. input[c].order \in Orders
      BY <1>1, <2>1, RequestFacts DEF Shapes, Opened
    <3>2. PICK r \in Rows : r = <<"order", input[c].order>>
      BY <3>1 DEF Rows
    <3>3. Holds(c, r, "X")'
      BY <1>1, <1>4, <2>1, <3>2 DEF PlanOK, OwnOK
    <3>4. QED
      BY <3>2, <3>3 DEF Holds
  <2>2. OwnOK(c)'
    BY <1>1, <1>4, <2>1 DEF PlanOK, OwnOK, database
  <2>3. Stored(c) => CheckoutOK(c)' /\ ReturnOK(c)' /\ AdjustOK(c)' /\ LogOK(c)'
    BY <1>1, <1>2 DEF PlanOK, CheckoutOK, ReturnOK, AdjustOK, LogOK, database
  <2>4. QED
    BY <1>4, <2>2, <2>3 DEF PlanOK
<1>5. QED
  BY <1>3, <1>4

LEMMA Continued ==
  ASSUME SessionsOK, NEW c \in Calls, Continue(c), UNCHANGED input
  PROVE  pc'[c] = pc[c] + 1 /\ Running(c)' = Running(c) /\ Kind(c)' = Kind(c)
BY DEF Continue, SessionsOK, Running, Kind

\* Where c is before it waits for, or takes, its locks it has saved nothing.
LEMMA LockPlan ==
  ASSUME StockInv, PlanInv, NEW c \in Calls, LockVariants(c) \/ LockProduct(c) \/ LockWallets(c), UNCHANGED <<input, isolation>>
  PROVE  UNCHANGED database /\ PlanOK(c)'
<1>1. Shapes
  BY DEF StockInv
<1>2. /\ UNCHANGED <<database, written, log>>
      /\ \/ UNCHANGED <<pc, outcome>> /\ \E row, mode : Acquire(c, row, mode)
         \/ Continue(c) /\ UNCHANGED locks
  BY DEF LockVariants, LockProduct, LockWallets, LockNext, session
<1>3. CASE UNCHANGED <<pc, outcome>> /\ \E row, mode : Acquire(c, row, mode)
  <2>1. PICK row, mode : Acquire(c, row, mode)
    BY <1>3
  <2>2. \A r \in Rows : Holds(c, r, "X") => Holds(c, r, "X")'
    BY <1>1, <2>1 DEF Acquire, Holds, Shapes, LocksOK, LocksTypeOK
  <2>3. Opened(c)' = Opened(c) /\ Stored(c)' = Stored(c)
    BY <1>3 DEF Opened, Stored, Running, Kind
  <2>4. QED
    BY <1>2, <2>2, <2>3, OwnPlan
<1>4. CASE Continue(c) /\ UNCHANGED locks
  <2>1. pc'[c] = pc[c] + 1 /\ Running(c)' = Running(c) /\ Kind(c)' = Kind(c) /\ pc[c] \in Nat
    BY <1>1, <1>4, Continued DEF Shapes, SessionsOK
  <2>2. \/ Kind(c) = "checkout" /\ pc[c] \in {1, 4}
        \/ Kind(c) = "cancel" /\ pc[c] \in {2, 4}
        \/ Kind(c) = "adjust" /\ pc[c] \in {1, 2}
        \/ Kind(c) = "reject" /\ pc[c] \in {2, 3}
    BY <1>1, WhereLockVariants, WhereLockProduct, WhereLockWallets DEF Shapes, LockVariants, LockProduct, LockWallets
  <2>3. Opened(c)' = Opened(c) /\ Stored(c)' = Stored(c)
    BY <2>1, <2>2 DEF Opened, Stored
  <2>4. QED
    BY <1>2, <1>4, <2>3, OwnPlan DEF Holds
<1>5. QED
  BY <1>2, <1>3, <1>4

LEMMA RollbackPlan ==
  ASSUME StockInv, PlanInv, NEW c \in Calls, NEW result \in Outcomes, Rollback(c, result), UNCHANGED <<input, isolation>>
  PROVE  UNCHANGED database /\ PlanOK(c)'
<1>1. outcome'[c] = result
  BY DEF Rollback, End, StockInv, Shapes, SessionsOK
<1>2. ~ Running(c)'
  BY <1>1 DEF Running, Outcomes
<1>3. QED
  BY <1>2 DEF Rollback, PlanOK, OwnOK, Opened, Stored

LEMMA FindPlan ==
  ASSUME StockInv, PlanInv, NEW c \in Calls, FindSeller(c), UNCHANGED <<input, isolation>>
  PROVE  UNCHANGED database /\ PlanOK(c)'
<1>1. Kind(c) = "checkout" /\ pc[c] = 2
  BY WhereFindSeller DEF FindSeller, StockInv, Shapes
<1>2. pc'[c] = 3 /\ Kind(c)' = "checkout"
  BY <1>1, Continued DEF FindSeller, StockInv, Shapes
<1>3. ~ Opened(c)' /\ ~ Stored(c)'
  BY <1>2 DEF Opened, Stored
<1>4. QED
  BY <1>3 DEF FindSeller, PlanOK, OwnOK

LEMMA LockOrderPlan ==
  ASSUME StockInv, PlanInv, NEW c \in Calls, LockOrder(c), UNCHANGED <<input, isolation>>
  PROVE  UNCHANGED database /\ PlanOK(c)'
<1> DEFINE o == input[c].order
<1>1. Shapes
  BY DEF StockInv
<1>2. CASE order[o].status # "pending_confirmation"
  BY <1>2, RollbackPlan DEF LockOrder, Outcomes
<1>3. CASE order[o].status = "pending_confirmation"
  <2>1. Kind(c) \in {"cancel", "reject"} /\ pc[c] = 1 /\ o \in Orders
    BY <1>1, WhereLockOrder, RequestFacts DEF LockOrder, Shapes
  <2>2. Acquire(c, <<"order", o>>, "X") /\ Continue(c) /\ UNCHANGED <<database, written, log>>
    BY <1>3 DEF LockOrder
  <2>3. pc'[c] = 2 /\ Kind(c)' = Kind(c)
    BY <1>1, <2>1, <2>2, Continued DEF Shapes
  <2>4. PICK r \in Rows : r = <<"order", o>>
    BY <2>1 DEF Rows
  <2>5. Holds(c, r, "X")'
    BY <1>1, <2>2, <2>4 DEF Acquire, Holds, Shapes, LocksOK, LocksTypeOK
  <2>6. OwnOK(c)'
    BY <1>3, <2>2, <2>4, <2>5 DEF OwnOK, database, Holds
  <2>7. ~ Stored(c)'
    BY <2>1, <2>3 DEF Stored
  <2>8. QED
    BY <2>2, <2>6, <2>7 DEF PlanOK
<1>4. QED
  BY <1>2, <1>3

\* Which calls save, and that they have locked, and know, what they save.
LEMMA SavesWhere ==
  ASSUME StockInv, PlanInv, NEW c \in Calls, NEW st \in {"insertOrder", "restore", "overwrite"}, At(c, st)
  PROVE  /\ st = "insertOrder" => /\ Kind(c) = "checkout"
                                  /\ input[c].items \in Quantities
                                  /\ \A v \in VariantsOf(c) : view[c][v] = stock[v]
         /\ st = "restore" => /\ Kind(c) \in {"cancel", "reject"} /\ input[c].order \in Orders
                              /\ order[input[c].order] \in OrderRows
                              /\ order[input[c].order].status = "pending_confirmation"
         /\ st = "overwrite" => Kind(c) = "adjust"
         /\ Kind(c) \in {"checkout", "cancel", "reject"} => Opened(c) = (Kind(c) # "checkout")
         /\ VariantsOf(c) \subseteq Variants
         /\ Running(c)
<1>1. Shapes /\ CallOK(c) /\ PlanOK(c) /\ Running(c)
  BY DEF StockInv, CallsOK, PlanInv, At, Running
<1>2. \/ st = "insertOrder" /\ Kind(c) = "checkout" /\ pc[c] = 3
      \/ st = "restore" /\ Kind(c) \in {"cancel", "reject"} /\ pc[c] \in {3, 4}
      \/ st = "overwrite" /\ Kind(c) = "adjust" /\ pc[c] = 3
  BY <1>1, WhereSaves DEF Shapes
<1>3. VariantsOf(c) \subseteq Variants
  BY <1>1, VariantsOfType DEF Shapes
<1>4. CASE st = "insertOrder"
  BY <1>1, <1>2, <1>3, <1>4, RequestFacts DEF Shapes, CallOK, ViewedOK, Viewed, Opened
<1>5. CASE st = "restore"
  <2>1. Opened(c)
    BY <1>1, <1>2, <1>5 DEF Opened
  <2>2. QED
    BY <1>1, <1>2, <1>3, <1>5, <2>1, RequestFacts DEF Shapes, CallOK, OpenedOK, PlanOK, OwnOK
<1>6. CASE st = "overwrite"
  BY <1>1, <1>2, <1>3, <1>6
<1>7. QED
  BY <1>4, <1>5, <1>6

LEMMA MovementFacts ==
  ASSUME NEW S, NEW v, NEW key, NEW after, NEW i \in DOMAIN Movement(S, v, key, after)
  PROVE  v \in S /\ Movement(S, v, key, after)[i].key = key
<1>1. CASE v \in S
  <2>1. PICK m : m = [key |-> key, before |-> stock[v], after |-> after]
    OBVIOUS
  <2>2. Movement(S, v, key, after) = <<m>>
    BY <1>1, <2>1 DEF Movement
  <2>3. i = 1 /\ <<m>>[1] = m
    BY <2>2
  <2>4. QED
    BY <1>1, <2>1, <2>2, <2>3
<1>2. CASE v \notin S
  <2>1. Movement(S, v, key, after) = << >>
    BY <1>2 DEF Movement
  <2>2. QED
    BY <2>1
<1>3. QED
  BY <1>1, <1>2

LEMMA SaveFacts ==
  ASSUME StockInv, NEW c \in Calls, NEW S, NEW after, NEW key, SaveStock(c, S, after, key)
  PROVE  /\ Continue(c) /\ UNCHANGED <<database, locks, view>>
         /\ \A v \in Variants : log'[c][v] = Movement(S, v, key[v], after[v])
BY DEF SaveStock, StockInv, Shapes, SessionsOK

LEMMA SavedValue ==
  ASSUME StockInv, NEW c \in Calls, NEW S, NEW after, NEW key, SaveStock(c, S, after, key), NEW v \in S, v \in Variants
  PROVE  /\ written'[c][v] = after[v] \/ written'[c][v] = stock[v]
         /\ Latest => written'[c][v] = after[v]
         /\ view[c][v] = stock[v] => written'[c][v] = after[v]
<1> DEFINE saved == Saved(after[v], Read(view[c][v], stock[v]), stock[v])
<1>1. written'[c][v] = saved
  BY DEF SaveStock, StockInv, Shapes, SessionsOK
<1>2. saved \in {after[v], stock[v]} /\ (Latest \/ view[c][v] = stock[v] => saved = after[v])
  BY SavedColumn
<1> HIDE DEF saved
<1>3. QED
  BY <1>1, <1>2

\* What has been saved is what will be committed.
LEMMA SavedPlan ==
  ASSUME StockInv, PlanInv, NEW c \in Calls, NEW st \in {"insertOrder", "restore", "overwrite"}, At(c, st),
         Continue(c), UNCHANGED <<input, isolation, database, locks>>,
         CheckoutOK(c)', ReturnOK(c)', AdjustOK(c)', LogOK(c)'
  PROVE  PlanOK(c)'
<1>1. Shapes /\ PlanOK(c)
  BY DEF StockInv, PlanInv
<1>2. pc[c] >= 2 /\ pc[c] \in Nat
  BY <1>1, WhereSaves DEF Shapes, SessionsOK
<1>3. Opened(c)' = Opened(c)
  BY <1>1, <1>2, Continued DEF Shapes, Opened
<1>4. OwnOK(c)'
  BY <1>1, <1>3 DEF PlanOK, OwnOK, Holds, database
<1>5. QED
  BY <1>4 DEF PlanOK

LEMMA InsertPlan ==
  ASSUME StockInv, PlanInv, NEW c \in Calls, InsertOrder(c), UNCHANGED <<input, isolation>>
  PROVE  UNCHANGED database /\ PlanOK(c)'
<1> DEFINE o == input[c].order
           items == input[c].items
           short == \E v \in Variants : stock[v] < items[v]
           after == [v \in Variants |-> stock[v] - items[v]]
           key == [v \in Variants |-> <<"deduct", o, v>>]
<1>1. CASE short \/ order[o] # NoOrder
  BY <1>1, RollbackPlan DEF InsertOrder, Outcomes
<1>2. CASE ~ short /\ order[o] = NoOrder
  <2>1. /\ At(c, "insertOrder") /\ Kind(c) = "checkout" /\ items \in Quantities /\ VariantsOf(c) \subseteq Variants
        /\ \A v \in VariantsOf(c) : view[c][v] = stock[v]
    BY SavesWhere DEF InsertOrder
  <2>2. SaveStock(c, VariantsOf(c), after, key)
    BY <1>2 DEF InsertOrder
  <2>3. /\ Continue(c) /\ UNCHANGED <<database, locks, view>>
        /\ \A v \in VariantsOf(c) : written'[c][v] = after[v]
        /\ \A v \in Variants : log'[c][v] = Movement(VariantsOf(c), v, key[v], after[v])
    <3> HIDE DEF after, key
    <3>1. QED
      BY <2>1, <2>2, SaveFacts, SavedValue
  <2>4. Kind(c)' = Kind(c) /\ VariantsOf(c)' = VariantsOf(c)
    BY <2>3 DEF Kind, VariantsOf, Contains, database
  <2>5. CheckoutOK(c)'
    <3>1. \A v \in VariantsOf(c) : items[v] <= stock[v] /\ after[v] = stock[v] - items[v]
      BY <1>2, <2>1 DEF StockInv, Shapes, DatabaseOK, Quantities
    <3>2. QED
      BY <2>3, <2>4, <3>1 DEF CheckoutOK, database
  <2>6. LogOK(c)'
    <3>1. ASSUME NEW v \in Variants, NEW i \in DOMAIN log'[c][v]
          PROVE  log'[c][v][i].key[1] = "deduct"
      <4>1. PICK l : l = Movement(VariantsOf(c), v, key[v], after[v])
        OBVIOUS
      <4>2. log'[c][v] = l
        BY <2>3, <4>1
      <4>3. l[i].key = key[v]
        BY <3>1, <4>1, <4>2, MovementFacts
      <4>4. QED
        BY <4>2, <4>3
    <3>2. QED
      BY <3>1 DEF LogOK
  <2>7. ReturnOK(c)' /\ AdjustOK(c)'
    BY <2>1, <2>4 DEF ReturnOK, AdjustOK
  <2>8. QED
    BY <2>1, <2>3, <2>5, <2>6, <2>7, SavedPlan
<1>3. QED
  BY <1>1, <1>2

LEMMA RestorePlan ==
  ASSUME StockInv, PlanInv, NEW c \in Calls, Restore(c), UNCHANGED <<input, isolation>>
  PROVE  UNCHANGED database /\ PlanOK(c)'
<1> DEFINE o == input[c].order
           S == {v \in VariantsOf(c) : <<"restore", o, v>> \notin Keys(v)}
           after == [v \in Variants |-> stock[v] + order[o].items[v]]
           key == [v \in Variants |-> <<"restore", o, v>>]
<1>1. /\ At(c, "restore") /\ Kind(c) \in {"cancel", "reject"} /\ VariantsOf(c) \subseteq Variants
      /\ o \in Orders /\ order[o].status = "pending_confirmation"
  BY SavesWhere DEF Restore
<1>2. S = VariantsOf(c)
  BY <1>1 DEF PlanInv, RestoredOK
<1>3. SaveStock(c, S, after, key)
  BY DEF Restore
<1>4. /\ Continue(c) /\ UNCHANGED <<database, locks, view>>
      /\ \A v \in VariantsOf(c) : /\ written'[c][v] \in {after[v], stock[v]}
                                  /\ Latest => written'[c][v] = after[v]
      /\ \A v \in Variants : log'[c][v] = Movement(S, v, key[v], after[v])
  <2> HIDE DEF S, after, key
  <2>1. QED
    BY <1>1, <1>2, <1>3, SaveFacts, SavedValue
<1>5. Kind(c)' = Kind(c) /\ VariantsOf(c)' = VariantsOf(c) /\ Latest' = Latest
  BY <1>4 DEF Kind, VariantsOf, Contains, database, Latest
<1>6. ReturnOK(c)'
  <2>1. \A v \in VariantsOf(c) : after[v] = stock[v] + order[o].items[v]
    BY <1>1
  <2>2. QED
    BY <1>4, <1>5, <2>1 DEF ReturnOK, database
<1>7. LogOK(c)'
  <2>1. ASSUME NEW v \in Variants, NEW i \in DOMAIN log'[c][v]
        PROVE  log'[c][v][i].key = <<"restore", o, v>>
    <3>1. PICK T, a, k, l : T = S /\ a = after[v] /\ k = key[v] /\ l = Movement(T, v, k, a)
      OBVIOUS
    <3>2. log'[c][v] = l /\ k = <<"restore", o, v>>
      BY <1>4, <3>1
    <3> HIDE DEF S, after, key
    <3>3. i \in DOMAIN Movement(T, v, k, a)
      BY <2>1, <3>1, <3>2
    <3>4. l[i].key = k
      BY <3>1, <3>3, MovementFacts
    <3>5. QED
      BY <3>2, <3>4
  <2>2. \A p, v : <<"restore", p, v>> = <<"restore", o, v>> => p = o
    OBVIOUS
  <2>3. QED
    BY <1>1, <1>5, <2>1, <2>2 DEF LogOK
<1>8. CheckoutOK(c)' /\ AdjustOK(c)'
  BY <1>1, <1>5 DEF CheckoutOK, AdjustOK
<1>9. QED
  BY <1>1, <1>4, <1>6, <1>7, <1>8, SavedPlan

LEMMA OverwritePlan ==
  ASSUME StockInv, PlanInv, NEW c \in Calls, Overwrite(c), UNCHANGED <<input, isolation>>
  PROVE  UNCHANGED database /\ PlanOK(c)'
<1> DEFINE S == {v \in VariantsOf(c) : stock[v] # input[c].stock[v]}
           known == \E v \in S : AdjustmentKey(c, v) \in Keys(v)
<1>1. At(c, "overwrite") /\ Kind(c) = "adjust"
  BY SavesWhere DEF Overwrite
<1>2. CASE known
  BY <1>2, RollbackPlan DEF Overwrite, Outcomes
<1>3. CASE ~ known
  <2>1. /\ written' = [written EXCEPT ![c] = input[c].stock]
        /\ log' = [log EXCEPT ![c] = [v \in Variants |-> Movement(S, v, AdjustmentKey(c, v), input[c].stock[v])]]
        /\ Continue(c) /\ UNCHANGED <<database, locks, view>>
    BY <1>3 DEF Overwrite
  <2>2. /\ written'[c] = input[c].stock
        /\ \A v \in Variants : log'[c][v] = Movement(S, v, AdjustmentKey(c, v), input[c].stock[v])
    BY <2>1 DEF StockInv, Shapes, SessionsOK
  <2>3. Kind(c)' = Kind(c)
    BY DEF Kind
  <2>4. LogOK(c)'
    <3>1. \A v \in Variants : AdjustmentKey(c, v)[1] \in {"adjust", "client"}
      BY DEF AdjustmentKey
    <3>2. ASSUME NEW v \in Variants, NEW i \in DOMAIN log'[c][v]
          PROVE  log'[c][v][i].key[1] \in {"adjust", "client"}
      <4>1. PICK l : l = Movement(S, v, AdjustmentKey(c, v), input[c].stock[v])
        OBVIOUS
      <4>2. log'[c][v] = l
        BY <2>2, <4>1
      <4>3. l[i].key = AdjustmentKey(c, v)
        BY <3>2, <4>1, <4>2, MovementFacts
      <4>4. QED
        BY <3>1, <4>2, <4>3
    <3>3. QED
      BY <3>2 DEF LogOK
  <2>5. CheckoutOK(c)' /\ ReturnOK(c)' /\ AdjustOK(c)'
    BY <1>1, <2>2, <2>3 DEF CheckoutOK, ReturnOK, AdjustOK
  <2>6. QED
    BY <1>1, <2>1, <2>4, <2>5, SavedPlan
<1>4. QED
  BY <1>2, <1>3

\* What a committing call has saved.
LEMMA CommittingPlan ==
  ASSUME StockInv, PlanInv, NEW c \in Calls, Commit(c)
  PROVE  /\ CheckoutOK(c) /\ ReturnOK(c) /\ AdjustOK(c) /\ LogOK(c)
         /\ Kind(c) \in {"cancel", "reject"} => order[input[c].order].status = "pending_confirmation"
<1>1. Shapes /\ PlanOK(c) /\ At(c, "commit") /\ Running(c)
  BY DEF StockInv, PlanInv, Commit, At, Running
<1>2. Stored(c) /\ (Kind(c) \in {"cancel", "reject"} => Opened(c))
  BY <1>1, WhereCommit DEF Shapes, Stored, Opened
<1>3. QED
  BY <1>1, <1>2 DEF PlanOK, OwnOK

\* A row of two sequences of rows put together is a row of one of them.
LEMMA RowOfEither ==
  ASSUME NEW h \in Seq(MovementRows), NEW l \in Seq(MovementRows), NEW j \in DOMAIN (h \o l)
  PROVE  (\E n \in DOMAIN h : (h \o l)[j] = h[n]) \/ (\E n \in DOMAIN l : (h \o l)[j] = l[n])
<1>1. j \in 1..(Len(h) + Len(l)) /\ Len(h) \in Nat /\ Len(l) \in Nat
  OBVIOUS
<1>2. CASE j <= Len(h)
  BY <1>1, <1>2
<1>3. CASE j > Len(h)
  <2>1. j - Len(h) \in DOMAIN l /\ (h \o l)[j] = l[j - Len(h)]
    BY <1>1, <1>3
  <2>2. QED
    BY <2>1
<1>4. QED
  BY <1>1, <1>2, <1>3

LEMMA CommitRestores ==
  ASSUME StockInv, PlanInv, NEW c \in Calls, Commit(c), NEW v \in Variants, NEW o \in Orders, <<"restore", o, v>> \in Keys(v)'
  PROVE  order'[o].status = "cancelled"
<1> DEFINE key == <<"restore", o, v>>
<1>1. Shapes /\ CallsOK /\ LogOK(c) /\ RestoredOK
  BY CommittingPlan DEF StockInv, PlanInv
<1>2. movements[v] \in Seq(MovementRows) /\ log[c][v] \in Seq(MovementRows)
  BY <1>1 DEF Shapes, DatabaseOK, SessionsOK
<1>3. movements'[v] = movements[v] \o log[c][v]
  BY DEF Commit
<1>4. PICK i \in DOMAIN movements'[v] : movements'[v][i].key = key
  BY DEF Keys
<1>5. i \in DOMAIN (movements[v] \o log[c][v])
  BY <1>3, <1>4
<1>6. CASE \E n \in DOMAIN log[c][v] : movements'[v][i] = log[c][v][n]
  <2>1. PICK n \in DOMAIN log[c][v] : log[c][v][n].key = key
    BY <1>4, <1>6
  <2>2. Kind(c) \in {"cancel", "reject"} /\ o = input[c].order
    BY <1>1, <2>1 DEF LogOK
  <2>3. order' = [order EXCEPT ![o].status = "cancelled"]
    BY <2>2 DEF Commit
  <2>4. order[o] \in OrderRows
    BY <1>1, <2>2, Committing
  <2>5. PICK row : row = [order[o] EXCEPT !.status = "cancelled"]
    OBVIOUS
  <2>6. order'[o] = row /\ row.status = "cancelled"
    BY <1>1, <2>3, <2>4, <2>5 DEF Shapes, DatabaseOK, OrderRows
  <2>7. QED
    BY <2>6
<1>7. CASE \E n \in DOMAIN movements[v] : movements'[v][i] = movements[v][n]
  <2>1. key \in Keys(v)
    BY <1>4, <1>7 DEF Keys
  <2>2. order[o].status = "cancelled"
    BY <1>1, <2>1 DEF RestoredOK
  <2>3. CASE order'[o] = order[o]
    BY <2>2, <2>3
  <2>4. CASE order'[o] # order[o]
    <3>1. Kind(c) # "adjust" /\ o = input[c].order /\ Kind(c) \in Kinds
      BY <1>1, <2>4, OrdersCommitted, Committing
    <3>2. Kind(c) = "checkout" => order[o] = NoOrder
      BY <1>1, <3>1, Committing
    <3>3. Kind(c) \in {"cancel", "reject"} => order[o].status = "pending_confirmation"
      BY <3>1, CommittingPlan
    <3>4. QED
      BY <2>2, <3>1, <3>2, <3>3 DEF Kinds, NoOrder
  <2>5. QED
    BY <2>3, <2>4
<1>8. \/ \E n \in DOMAIN movements[v] : movements'[v][i] = movements[v][n]
      \/ \E n \in DOMAIN log[c][v] : movements'[v][i] = log[c][v][n]
  <2>1. \/ \E n \in DOMAIN movements[v] : (movements[v] \o log[c][v])[i] = movements[v][n]
        \/ \E n \in DOMAIN log[c][v] : (movements[v] \o log[c][v])[i] = log[c][v][n]
    BY <1>2, <1>5, RowOfEither
  <2>2. QED
    BY <1>3, <2>1
<1>9. QED
  BY <1>6, <1>7, <1>8

LEMMA PlanStep ==
  ASSUME StockInv, PlanInv, NEW c \in Calls, Step(c) \/ DeadlockVictim(c) \/ Crash(c), UNCHANGED <<input, isolation>>
  PROVE  PlanInv'
<1>1. ASSUME UNCHANGED database, PlanOK(c)'
      PROVE  PlanInv'
  <2>1. RestoredOK'
    BY <1>1 DEF PlanInv, RestoredOK, Keys, database
  <2>2. \A d \in Calls \ {c} : PlanOK(d)'
    BY <1>1, OtherPlans
  <2>3. QED
    BY <1>1, <2>1, <2>2 DEF PlanInv
<1>2. CASE Commit(c)
  <2>1. RestoredOK'
    BY <1>2, CommitRestores DEF RestoredOK
  <2>2. \A d \in Calls \ {c} : PlanOK(d)'
    BY <1>2, OtherPlans
  <2>3. PlanOK(c)'
    <3>1. outcome'[c] = "committed"
      BY <1>2 DEF Commit, End, StockInv, Shapes, SessionsOK
    <3>2. ~ Running(c)'
      BY <3>1 DEF Running
    <3>3. QED
      BY <3>2 DEF PlanOK, OwnOK, Opened, Stored
  <2>4. QED
    BY <2>1, <2>2, <2>3 DEF PlanInv
<1>3. CASE LockVariants(c) \/ LockProduct(c) \/ LockWallets(c)
  BY <1>1, <1>3, LockPlan
<1>4. CASE FindSeller(c)
  BY <1>1, <1>4, FindPlan
<1>5. CASE LockOrder(c)
  BY <1>1, <1>5, LockOrderPlan
<1>6. CASE InsertOrder(c)
  BY <1>1, <1>6, InsertPlan
<1>7. CASE Restore(c)
  BY <1>1, <1>7, RestorePlan
<1>8. CASE Overwrite(c)
  BY <1>1, <1>8, OverwritePlan
<1>9. CASE DeadlockVictim(c) \/ Crash(c)
  <2>1. PICK result \in Outcomes : Rollback(c, result)
    BY <1>9 DEF DeadlockVictim, Crash, Outcomes
  <2>2. QED
    BY <1>1, <2>1, RollbackPlan
<1>10. QED
  BY <1>2, <1>3, <1>4, <1>5, <1>6, <1>7, <1>8, <1>9 DEF Step

LEMMA PlanInit ==
  ASSUME Init
  PROVE  PlanInv
<1>1. ASSUME NEW c \in Calls
      PROVE  PlanOK(c)
  <2>1. pc[c] = 1
    BY DEF Init
  <2>2. QED
    BY <2>1 DEF PlanOK, OwnOK, Opened, Stored
<1>2. RestoredOK
  <2>1. \A v \in Variants : movements[v] = << >>
    BY DEF Init
  <2>2. DOMAIN << >> = {}
    OBVIOUS
  <2>3. QED
    BY <2>1, <2>2 DEF RestoredOK, Keys
<1>3. QED
  BY <1>1, <1>2 DEF PlanInv

LEMMA PlanInvariant == Spec => [](StockInv /\ PlanInv)
<1>1. ASSUME StockInv, PlanInv, [Next]_vars
      PROVE  PlanInv'
  <2>1. CASE \E c \in Calls : (Step(c) \/ DeadlockVictim(c) \/ Crash(c)) /\ UNCHANGED <<input, isolation>>
    BY <1>1, <2>1, PlanStep
  <2>2. CASE UNCHANGED vars
    <3>1. UNCHANGED <<stock, order, movements, input, isolation, pc, outcome, locks, view, written, log>>
      BY <2>2 DEF vars, database, session
    <3>2. RestoredOK'
      BY <1>1, <3>1 DEF PlanInv, RestoredOK, Keys
    <3>3. ASSUME NEW c \in Calls
          PROVE  PlanOK(c)'
      <4>1. Opened(c)' = Opened(c) /\ Stored(c)' = Stored(c)
        BY <3>1 DEF Opened, Stored, Running, Kind
      <4>2. QED
        BY <1>1, <3>1, <4>1, OwnPlan DEF PlanInv, Holds, database
    <3>4. QED
      BY <3>2, <3>3 DEF PlanInv
  <2>3. QED
    BY <1>1, <2>1, <2>2 DEF Next
<1>2. QED
  BY <1>1, PlanInit, StockInvariant, PTL DEF Spec

-----------------------------------------------------------------------------
(* Each commit is one step of the inventory.                               *)

LEMMA BasketFacts ==
  /\ BasketOf(NoOrder) = [state |-> "none"]
  /\ \A row \in OrderRows :
       /\ row # NoOrder
       /\ row.status = "pending_confirmation" => BasketOf(row) = [items |-> row.items, state |-> "taken"]
       /\ row.status = "cancelled" => BasketOf(row) = [items |-> row.items, state |-> "returned"]
<1>1. \A row \in OrderRows : row # NoOrder
  BY DEF OrderRows, NoOrder
<1>2. QED
  BY <1>1 DEF BasketOf

LEMMA OrdersIsDomain ==
  ASSUME Shapes
  PROVE  DOMAIN order = Orders
BY DEF Shapes, DatabaseOK

LEMMA CommitIsTake ==
  ASSUME StockInv, PlanInv, NEW c \in Calls, Commit(c), UNCHANGED <<input, isolation>>, Kind(c) = "checkout"
  PROVE  InventoryView!InventoryNext
<1> DEFINE o == input[c].order
           items == input[c].items
           basket == [p \in Orders |-> BasketOf(order[p])]
<1>1. /\ Shapes /\ CallsOK /\ CheckoutOK(c)
  BY CommittingPlan DEF StockInv
<1>2. o \in Orders /\ items \in Quantities /\ order[o] = NoOrder /\ VariantsOf(c) = Contains(items)
  BY <1>1, Committing DEF VariantsOf
<1>3. \A v \in Variants : stock[v] \in Nat /\ items[v] \in Nat
  BY <1>1, <1>2 DEF Shapes, DatabaseOK, Quantities
<1>4. \A v \in Variants : items[v] <= stock[v] /\ stock'[v] = stock[v] - items[v]
  <2>1. ASSUME NEW v \in Contains(items)
        PROVE  items[v] <= stock[v] /\ stock'[v] = stock[v] - items[v]
    BY <1>1, <1>2, <2>1 DEF CheckoutOK, Commit, Contains
  <2>2. ASSUME NEW v \in Variants, v \notin Contains(items)
        PROVE  items[v] <= stock[v] /\ stock'[v] = stock[v] - items[v]
    <3>1. items[v] = 0
      BY <1>3, <2>2 DEF Contains
    <3>2. stock'[v] = stock[v]
      BY <1>2, <2>2 DEF Commit
    <3>3. QED
      BY <1>3, <3>1, <3>2
  <2>3. QED
    BY <2>1, <2>2
<1>5. items \in AskedBaskets
  <2>1. input \in Workloads
    BY <1>1 DEF Shapes, SessionsOK
  <2>2. input[c] \in Asked
    BY <2>1 DEF Asked
  <2>3. QED
    BY <2>2 DEF AskedBaskets, Kind
<1>6. stock' = [v \in Variants |-> stock[v] - items[v]]
  <2>1. stock' = [v \in Variants |-> stock'[v]]
    BY DEF Commit
  <2>2. QED
    BY <1>4, <2>1
<1>7. basket' = [basket EXCEPT ![o] = [items |-> items, state |-> "taken"]]
  <2>1. PICK row : row = [status |-> "pending_confirmation", items |-> items]
    OBVIOUS
  <2>2. order' = [order EXCEPT ![o] = row]
    BY <2>1 DEF Commit
  <2>3. row \in OrderRows /\ row.status = "pending_confirmation" /\ row.items = items
    BY <1>2, <2>1 DEF OrderRows
  <2>4. order'[o] = row /\ \A p \in Orders \ {o} : order'[p] = order[p]
    BY <1>1, <1>2, <2>2, OrdersIsDomain
  <2>5. BasketOf(row) = [items |-> items, state |-> "taken"]
    BY <2>3, BasketFacts
  <2>6. BasketOf(order'[o]) = [items |-> items, state |-> "taken"]
    BY <2>4, <2>5
  <2>7. basket' = [p \in Orders |-> BasketOf(order'[p])]
    BY DEF BasketOf
  <2>8. \A p \in Orders \ {o} : BasketOf(order'[p]) = BasketOf(order[p])
    BY <2>4
  <2>9. QED
    BY <1>2, <2>6, <2>7, <2>8
<1>8. basket[o] = InventoryView!NoBasket
  BY <1>2, BasketFacts DEF InventoryView!NoBasket
<1>9. InventoryView!Take(o, items)
  BY <1>4, <1>6, <1>7, <1>8 DEF InventoryView!Take, InventoryView!Taken
<1>10. QED
  BY <1>2, <1>5, <1>9 DEF InventoryView!InventoryNext

LEMMA CommitIsGiveBack ==
  ASSUME StockInv, PlanInv, NEW c \in Calls, Commit(c), UNCHANGED <<input, isolation>>, Kind(c) \in {"cancel", "reject"}
  PROVE  InventoryView!InventoryNext
<1> DEFINE o == input[c].order
           items == order[o].items
           basket == [p \in Orders |-> BasketOf(order[p])]
           Lost == {v \in VariantsOf(c) : written[c][v] # stock[v] + items[v]}
<1>1. Shapes /\ CallsOK /\ ReturnOK(c) /\ order[o].status = "pending_confirmation"
  BY CommittingPlan DEF StockInv
<1>2. o \in Orders /\ order[o] \in OrderRows /\ order[o] # NoOrder
  BY <1>1, Committing, BasketFacts
<1>3. VariantsOf(c) = Contains(items)
  BY <1>2 DEF VariantsOf
<1>4. \A v \in Variants : stock[v] \in Nat /\ items[v] \in Nat
  BY <1>1, <1>2 DEF Shapes, DatabaseOK, Quantities, OrderRows
<1>5. Lost \in SUBSET Variants
  BY <1>3 DEF Contains
<1>6. Latest => Lost = {}
  BY <1>1 DEF ReturnOK
<1>7. basket[o] = [items |-> items, state |-> "taken"]
  BY <1>1, <1>2, BasketFacts
<1>8. ASSUME NEW v \in Variants
      PROVE  stock'[v] = IF v \in Lost THEN stock[v] ELSE stock[v] + items[v]
  <2>1. CASE v \in VariantsOf(c)
    <3>1. stock'[v] = written[c][v] /\ written[c][v] \in {stock[v], stock[v] + items[v]}
      BY <1>1, <2>1 DEF Commit, ReturnOK
    <3>2. QED
      BY <2>1, <3>1
  <2>2. CASE v \notin VariantsOf(c)
    <3>1. stock'[v] = stock[v]
      BY <2>2 DEF Commit
    <3>2. items[v] = 0
      BY <1>3, <1>4, <2>2 DEF Contains
    <3>3. QED
      BY <1>4, <2>2, <3>1, <3>2
  <2>3. QED
    BY <2>1, <2>2
<1> HIDE DEF Lost
<1>9. stock' = [v \in Variants |-> IF v \in Lost THEN stock[v] ELSE stock[v] + basket[o].items[v]]
  <2>1. stock' = [v \in Variants |-> stock'[v]]
    BY DEF Commit
  <2>2. basket[o].items = items
    BY <1>7
  <2> HIDE DEF basket, items
  <2>3. QED
    BY <1>8, <2>1, <2>2
<1>10. basket' = [basket EXCEPT ![o].state = "returned"]
  <2>1. PICK row : row = [order[o] EXCEPT !.status = "cancelled"]
    OBVIOUS
  <2>2. row \in OrderRows /\ row.status = "cancelled" /\ row.items = items
    BY <1>2, <2>1 DEF OrderRows
  <2>3. order' = [order EXCEPT ![o].status = "cancelled"]
    BY DEF Commit
  <2>4. order'[o] = row /\ \A p \in Orders \ {o} : order'[p] = order[p]
    BY <1>1, <1>2, <2>1, <2>3, OrdersIsDomain
  <2>5. PICK returned : returned = [items |-> items, state |-> "returned"]
    OBVIOUS
  <2>6. BasketOf(order'[o]) = returned
    BY <2>2, <2>4, <2>5, BasketFacts
  <2>7. \A p \in Orders \ {o} : BasketOf(order'[p]) = BasketOf(order[p])
    BY <2>4
  <2>8. [basket[o] EXCEPT !.state = "returned"] = returned
    BY <1>7, <2>5
  <2>9. basket' = [p \in Orders |-> BasketOf(order'[p])]
    BY DEF BasketOf
  <2>10. QED
    BY <1>2, <2>6, <2>7, <2>8, <2>9
<1>11. InventoryView!GiveBack(o, Lost)
  BY <1>7, <1>9, <1>10 DEF InventoryView!GiveBack
<1>12. QED
  BY <1>2, <1>5, <1>6, <1>11 DEF InventoryView!InventoryNext, Latest

LEMMA CommitIsAdjust ==
  ASSUME StockInv, PlanInv, NEW c \in Calls, Commit(c), UNCHANGED <<input, isolation>>, Kind(c) = "adjust"
  PROVE  InventoryView!InventoryNext
<1> DEFINE r == input[c]
           numbers == [v \in Range(r.variants) |-> r.stock[v]]
<1>1. Shapes /\ CallsOK /\ AdjustOK(c)
  BY CommittingPlan DEF StockInv
<1>2. VariantsOf(c) = Range(r.variants) /\ written[c] = r.stock
  BY <1>1 DEF VariantsOf, AdjustOK
<1>3. stock' = [v \in Variants |-> IF v \in DOMAIN numbers THEN numbers[v] ELSE stock[v]]
  BY <1>2 DEF Commit
<1>4. order' = order
  BY DEF Commit
<1>5. numbers \in AskedAdjustments
  <2>1. input \in Workloads
    BY <1>1 DEF Shapes, SessionsOK
  <2>2. r \in Asked
    BY <2>1 DEF Asked
  <2>3. QED
    BY <2>2 DEF AskedAdjustments, Kind
<1> HIDE DEF numbers
<1>6. InventoryView!Adjust(numbers)
  BY <1>3, <1>4 DEF InventoryView!Adjust, BasketOf
<1>7. QED
  BY <1>5, <1>6 DEF InventoryView!InventoryNext

LEMMA InventoryStutter ==
  ASSUME UNCHANGED <<stock, order, isolation>>
  PROVE  UNCHANGED InventoryView!inventoryVars
BY DEF InventoryView!inventoryVars, BasketOf

LEMMA StepIsInventoryStep ==
  ASSUME StockInv, PlanInv, [Next]_vars
  PROVE  [InventoryView!InventoryNext]_(InventoryView!inventoryVars)
<1>1. ASSUME NEW c \in Calls, Step(c) \/ DeadlockVictim(c) \/ Crash(c), UNCHANGED <<input, isolation>>
      PROVE  [InventoryView!InventoryNext]_(InventoryView!inventoryVars)
  <2>1. CASE Commit(c)
    <3>1. Kind(c) \in Kinds
      BY RequestFacts DEF StockInv, Shapes
    <3>2. QED
      BY <1>1, <2>1, <3>1, CommitIsTake, CommitIsGiveBack, CommitIsAdjust DEF Kinds
  <2>2. CASE ~ Commit(c)
    <3>1. UNCHANGED database
      <4>1. CASE LockVariants(c) \/ LockProduct(c) \/ LockWallets(c) \/ FindSeller(c)
        BY <1>1, <4>1, LockPlan, FindPlan
      <4>2. CASE LockOrder(c) \/ InsertOrder(c) \/ Restore(c) \/ Overwrite(c)
        BY <1>1, <4>2, LockOrderPlan, InsertPlan, RestorePlan, OverwritePlan
      <4>3. CASE DeadlockVictim(c) \/ Crash(c)
        BY <4>3 DEF DeadlockVictim, Crash, Rollback
      <4>4. QED
        BY <1>1, <2>2, <4>1, <4>2, <4>3 DEF Step
    <3>2. QED
      BY <1>1, <3>1, InventoryStutter DEF database
  <2>3. QED
    BY <2>1, <2>2
<1>2. CASE UNCHANGED vars
  BY <1>2, InventoryStutter DEF vars, database
<1>3. QED
  BY <1>1, <1>2 DEF Next

LEMMA InventoryInitially ==
  ASSUME Init
  PROVE  InventoryView!InventoryInit
<1>1. stock \in [Variants -> Nat] /\ isolation = isolation
  BY StockAssumption DEF Init, Quantities
<1>2. ASSUME NEW o \in Orders
      PROVE  \/ BasketOf(order[o]) = InventoryView!NoBasket
             \/ BasketOf(order[o]) \in [items : [Variants -> Nat], state : {"taken"}]
  <2>1. CASE o \in DOMAIN InitialOrders
    <3>1. PICK row : row = [status |-> "pending_confirmation", items |-> InitialOrders[o]]
      OBVIOUS
    <3>2. order[o] = row
      BY <2>1, <3>1 DEF Init
    <3>3. InitialOrders[o] \in Quantities
      BY <2>1, StockAssumption
    <3>4. row \in OrderRows /\ row.status = "pending_confirmation" /\ row.items \in [Variants -> Nat]
      BY <3>1, <3>3 DEF OrderRows, Quantities
    <3>5. BasketOf(row) = [items |-> row.items, state |-> "taken"]
      BY <3>4, BasketFacts
    <3>6. QED
      BY <3>2, <3>4, <3>5
  <2>2. CASE o \notin DOMAIN InitialOrders
    <3>1. order[o] = NoOrder
      BY <2>2 DEF Init
    <3>2. QED
      BY <3>1, BasketFacts DEF InventoryView!NoBasket
  <2>3. QED
    BY <2>1, <2>2
<1>3. QED
  BY <1>1, <1>2 DEF InventoryView!InventoryInit

\* Under either isolation level each transaction takes effect in one step, at its
\* commit, and as a step of the inventory: a checkout takes out of what is there
\* when it commits; a cancellation or refusal (restoreOrderStock) gives back what
\* the order took, once, and under READ COMMITTED all of it; an adjustment leaves
\* the seller's numbers.  So Orders may take a handler for one step.
THEOREM TransactionsImplementInventory == Spec => ImplementsInventory
<1>1. Spec => [][InventoryView!InventoryNext]_(InventoryView!inventoryVars)
  <2>1. (StockInv /\ PlanInv) /\ [Next]_vars => [InventoryView!InventoryNext]_(InventoryView!inventoryVars)
    BY StepIsInventoryStep
  <2>2. QED
    BY <2>1, PlanInvariant, PTL DEF Spec
<1>2. Spec => InventoryView!InventoryInit
  BY InventoryInitially DEF Spec
<1>3. QED
  BY <1>1, <1>2, PTL DEF ImplementsInventory, InventoryView!InventorySpec

=============================================================================
