------------------------------ MODULE StockTx ------------------------------
(***************************************************************************)
(* The stock of variants statement by statement: checkouts, cancellations, *)
(* refusals and sellers' adjustments as concurrent transactions.           *)
(*                                                                         *)
(* Orders treats each of these handlers as one step.  Here each takes its  *)
(* row locks one after the other, in its own order, and saves a variant    *)
(* as TypeORM does: against what its read view shows.  All orders are of   *)
(* one buyer and one seller, whose two wallets are locked together, and of *)
(* variants of one product.                                                *)
(***************************************************************************)
EXTENDS FiniteSetsExt, Functions, Sequences

CONSTANTS Variants,       \* variants of the product, by id
          Orders,         \* checkouts, by buyer and idempotency key
          InitialStock,   \* stock of each variant at the start
          InitialOrders,  \* quantities of the orders placed before the start
          Calls,          \* concurrent requests
          Workloads,      \* what they may ask for
          Isolations      \* isolation levels the sessions may have

Quantities == [Variants -> Nat]
Requests ==
  [kind : {"checkout"}, order : Orders, items : Quantities]
    \cup [kind : {"cancel", "reject"}, order : Orders]
    \cup [kind : {"adjust"}, variants : Seq(Variants), stock : Quantities, key : STRING]

ASSUME StockAssumption ==
  /\ Variants \subseteq Nat
  /\ InitialStock \in Quantities
  /\ DOMAIN InitialOrders \subseteq Orders
  /\ InitialOrders \in [DOMAIN InitialOrders -> Quantities]
  /\ \A w \in Workloads :
       /\ DOMAIN w = Calls
       /\ \A c \in Calls : w[c] \in Requests /\ (w[c].kind = "checkout" => \E v \in Variants : w[c].items[v] > 0)
  /\ Isolations \subseteq {"REPEATABLE READ", "READ COMMITTED"}

Product == <<"product">>
Wallets == <<"wallets">>
Rows == {Product, Wallets} \cup ({"order"} \X Orders) \cup ({"variant"} \X Variants)

VARIABLES stock,      \* committed stock of each variant
          order,      \* committed row of each order: status and quantities
          movements,  \* committed inventory_movements rows of each variant, by id
          input,      \* what each call asks for
          isolation,  \* isolation level of all sessions
          pc,         \* position of each call in its program
          outcome,    \* how it ended
          locks,      \* row locks
          view,       \* stock in each call's read view
          written,    \* stock each call has written and not committed
          log         \* movements each call has inserted and not committed

INSTANCE Database

database == <<stock, order, movements>>
session == <<view, written, log>>
vars == <<database, input, isolation, pc, outcome, locks, session>>

Outcomes == {"committed", "refused", "replayed", "deadlock", "crashed"}
OrderRows == [status : {"pending_confirmation", "cancelled"}, items : Quantities]
NoOrder == [status |-> "absent"]

\* Mutant of Program: the seller's profile is looked up before the variants are locked.
ProgramSellerFirst(kind) ==
  CASE kind = "checkout" -> <<"findSeller", "lockVariants", "insertOrder", "lockWallets", "commit">>
    [] kind = "cancel" -> <<"lockOrder", "lockVariants", "restore", "lockWallets", "commit">>
    [] kind = "reject" -> <<"lockOrder", "lockWallets", "lockVariants", "restore", "commit">>
    [] kind = "adjust" -> <<"lockProduct", "lockVariants", "overwrite", "commit">>

\* The statements of each handler that wait, look or write, in its order.
Program(kind) ==
  CASE kind = "checkout" -> <<"lockVariants", "findSeller", "insertOrder", "lockWallets", "commit">>
    [] kind = "cancel" -> <<"lockOrder", "lockVariants", "restore", "lockWallets", "commit">>
    [] kind = "reject" -> <<"lockOrder", "lockWallets", "lockVariants", "restore", "commit">>
    [] kind = "adjust" -> <<"lockProduct", "lockVariants", "overwrite", "commit">>

TypeOK ==
  /\ stock \in Quantities
  /\ \A o \in Orders : order[o] = NoOrder \/ order[o] \in OrderRows
  /\ \A v \in Variants : \A i \in DOMAIN movements[v] :
       movements[v][i].before \in Nat /\ movements[v][i].after \in Nat
  /\ isolation \in Isolations
  /\ pc \in [Calls -> 1..5]
  /\ outcome \in [Calls -> Outcomes \cup {"running"}]
  /\ LocksTypeOK
  /\ view \in [Calls -> Quantities]
  /\ written \in [Calls -> Quantities]

Init ==
  /\ stock = InitialStock
  /\ order = [o \in Orders |-> IF o \in DOMAIN InitialOrders
                THEN [status |-> "pending_confirmation", items |-> InitialOrders[o]] ELSE NoOrder]
  /\ movements = [v \in Variants |-> << >>]
  /\ input \in Workloads
  /\ isolation \in Isolations
  /\ pc = [c \in Calls |-> 1]
  /\ outcome = [c \in Calls |-> "running"]
  /\ locks = NoLocks
  /\ view = [c \in Calls |-> InitialStock]
  /\ written = [c \in Calls |-> InitialStock]
  /\ log = [c \in Calls |-> movements]

-----------------------------------------------------------------------------
Kind(c) == input[c].kind
At(c, statement) == outcome[c] = "running" /\ Program(Kind(c))[pc[c]] = statement

Contains(items) == {v \in Variants : items[v] > 0}

\* The variants c has to do with.
VariantsOf(c) ==
  CASE Kind(c) = "checkout" -> Contains(input[c].items)
    [] Kind(c) = "adjust" -> Range(input[c].variants)
    [] OTHER -> IF order[input[c].order] = NoOrder THEN {} ELSE Contains(order[input[c].order].items)

Continue(c) == pc' = [pc EXCEPT ![c] = @ + 1] /\ UNCHANGED outcome

End(c, result) ==
  /\ outcome' = [outcome EXCEPT ![c] = result]
  /\ ReleaseLocks(c)
  /\ UNCHANGED pc

Rollback(c, result) == End(c, result) /\ UNCHANGED <<database, session>>

\* The rows of a statement are locked one by one.
LockNext(c, missing, row, mode) ==
  /\ IF missing
     THEN Acquire(c, row, mode) /\ UNCHANGED <<pc, outcome>>
     ELSE Continue(c) /\ UNCHANGED locks
  /\ UNCHANGED <<database, session>>

VariantRow(v) == <<"variant", v>>
Unlocked(c) == {v \in VariantsOf(c) : ~Holds(c, VariantRow(v), "X")}

\* Checkouts, cancellations and refusals lock variants in order of their ids; an
\* adjustment locks them in the order of its request.
NextVariant(c) ==
  IF Kind(c) = "adjust"
  THEN SelectSeq(input[c].variants, LAMBDA v : v \in Unlocked(c))[1]
  ELSE Min(Unlocked(c))

\* A checkout locks with its first variant the product that is joined with it.
NextVariantRow(c) ==
  IF Kind(c) = "checkout" /\ Unlocked(c) # VariantsOf(c) /\ ~Holds(c, Product, "X")
  THEN Product ELSE VariantRow(NextVariant(c))

VariantsMissing(c) == Unlocked(c) # {} \/ (Kind(c) = "checkout" /\ ~Holds(c, Product, "X"))

\* Mutant of LockVariants: the variants are read without FOR UPDATE.
LockVariantsNot(c) ==
  /\ At(c, "lockVariants")
  /\ Continue(c)
  /\ UNCHANGED <<locks, database, session>>

LockVariants(c) ==
  At(c, "lockVariants") /\ LockNext(c, VariantsMissing(c), NextVariantRow(c), "X")

\* applyOperation's INSERT IGNORE and FOR UPDATE of the wallets.
NextWalletMode(c) == IF Holds(c, Wallets, "S") THEN "X" ELSE "S"

LockWallets(c) ==
  At(c, "lockWallets") /\ LockNext(c, ~Holds(c, Wallets, "X"), Wallets, NextWalletMode(c))

LockProduct(c) ==
  At(c, "lockProduct") /\ LockNext(c, ~Holds(c, Product, "X"), Product, "X")
\* The first plain SELECT of a checkout: the seller's profile.
FindSeller(c) ==
  /\ At(c, "findSeller")
  /\ view' = [view EXCEPT ![c] = stock]
  /\ Continue(c)
  /\ UNCHANGED <<database, locks, written, log>>

\* FOR UPDATE on the order, its status checked under the lock, and its save,
\* which is the first plain SELECT of a cancellation or refusal.
LockOrder(c) ==
  /\ At(c, "lockOrder")
  /\ Blockers(c, <<"order", input[c].order>>, "X") = {}
  /\ IF order[input[c].order].status = "pending_confirmation"
     THEN /\ Acquire(c, <<"order", input[c].order>>, "X")
          /\ view' = [view EXCEPT ![c] = stock]
          /\ Continue(c)
          /\ UNCHANGED <<database, written, log>>
     ELSE Rollback(c, "refused")

Keys(v) == {movements[v][i].key : i \in DOMAIN movements[v]}

\* The movement of v, if v is in S.
Movement(S, v, key, after) ==
  IF v \in S THEN <<[key |-> key, before |-> stock[v], after |-> after]>> ELSE << >>

\* c saves stock after[v] of the variants v of S, with a movement row under key[v].
SaveStock(c, S, after, key) ==
  /\ written' = [written EXCEPT ![c] = [v \in Variants |-> IF v \in S
                    THEN Saved(after[v], Read(view[c][v], stock[v]), stock[v]) ELSE stock[v]]]
  /\ log' = [log EXCEPT ![c] = [v \in Variants |-> Movement(S, v, key[v], after[v])]]
  /\ Continue(c)
  /\ UNCHANGED <<database, locks, view>>

\* Mutant of InsertOrder: an order that the same key has made is not noticed.
InsertOrderTwice(c) ==
  LET items == input[c].items
      short == \E v \in Variants : stock[v] < items[v]
  IN  /\ At(c, "insertOrder")
      /\ \/ short /\ Rollback(c, "refused")
         \/ ~short /\ SaveStock(c, VariantsOf(c), [v \in Variants |-> stock[v] - items[v]],
                                [v \in Variants |-> <<"deduct", input[c].order, v>>])

\* Stock is checked, the order inserted, unless its key is taken, and its
\* quantities deducted.
InsertOrder(c) ==
  LET o == input[c].order
      items == input[c].items
      short == \E v \in Variants : stock[v] < items[v]
  IN  /\ At(c, "insertOrder")
      /\ Blockers(c, <<"order", o>>, "X") = {}
      /\ \/ short /\ Rollback(c, "refused")
         \/ ~short /\ order[o] # NoOrder /\ Rollback(c, "replayed")
         \/ ~short /\ order[o] = NoOrder
              /\ SaveStock(c, VariantsOf(c), [v \in Variants |-> stock[v] - items[v]],
                           [v \in Variants |-> <<"deduct", o, v>>])

\* What the order took goes back, unless a movement says it already has.
Restore(c) ==
  LET o == input[c].order
      S == {v \in VariantsOf(c) : <<"restore", o, v>> \notin Keys(v)}
  IN  /\ At(c, "restore")
      /\ SaveStock(c, S, [v \in Variants |-> stock[v] + order[o].items[v]],
                   [v \in Variants |-> <<"restore", o, v>>])

\* The key of an adjustment's movement: the seller's own or one made of the values.
AdjustmentKey(c, v) ==
  IF input[c].key = "none" THEN <<"adjust", stock[v], input[c].stock[v]>>
                           ELSE <<"client", input[c].key, v>>

\* The seller's numbers replace the stock, by UPDATEs of their own; a movement
\* with a key that exists already fails.
Overwrite(c) ==
  LET S == {v \in VariantsOf(c) : stock[v] # input[c].stock[v]}
  IN  /\ At(c, "overwrite")
      /\ IF \E v \in S : AdjustmentKey(c, v) \in Keys(v)
         THEN Rollback(c, "refused")
         ELSE /\ written' = [written EXCEPT ![c] = input[c].stock]
              /\ log' = [log EXCEPT ![c] = [v \in Variants |-> Movement(S, v, AdjustmentKey(c, v),
                                                                      input[c].stock[v])]]
              /\ Continue(c)
              /\ UNCHANGED <<database, locks, view>>

\* What c has written becomes visible, all at once.
Commit(c) ==
  LET o == input[c].order
  IN  /\ At(c, "commit")
      /\ stock' = [v \in Variants |-> IF v \in VariantsOf(c) THEN written[c][v] ELSE stock[v]]
      /\ movements' = [v \in Variants |-> movements[v] \o log[c][v]]
      /\ order' = CASE Kind(c) = "checkout" ->
                         [order EXCEPT ![o] = [status |-> "pending_confirmation",
                                               items |-> input[c].items]]
                   [] Kind(c) \in {"cancel", "reject"} -> [order EXCEPT ![o].status = "cancelled"]
                   [] OTHER -> order
      /\ End(c, "committed")
      /\ UNCHANGED session

Step(c) ==
  \/ LockVariants(c)
  \/ LockWallets(c)
  \/ LockProduct(c)
  \/ FindSeller(c)
  \/ LockOrder(c)
  \/ InsertOrder(c)
  \/ Restore(c)
  \/ Overwrite(c)
  \/ Commit(c)

\* The row locks the current statement of c is asking for.
Asking(c) ==
  CASE At(c, "lockVariants") /\ VariantsMissing(c) -> {<<NextVariantRow(c), "X">>}
    [] At(c, "lockWallets") /\ ~Holds(c, Wallets, "X") -> {<<Wallets, NextWalletMode(c)>>}
    [] At(c, "lockProduct") -> {<<Product, "X">>}
    [] At(c, "lockOrder") \/ At(c, "insertOrder") -> {<<<<"order", input[c].order>>, "X">>}
    [] OTHER -> {}

Waits == Cycles([c \in Calls |-> Asking(c)])

DeadlockVictim(c) == (\E W \in Waits : c \in W) /\ Rollback(c, "deadlock")

Crash(c) == outcome[c] = "running" /\ Rollback(c, "crashed")

Ended == \A c \in Calls : outcome[c] # "running"

Next ==
  \/ /\ \E c \in Calls : Step(c) \/ DeadlockVictim(c) \/ Crash(c)
     /\ UNCHANGED <<input, isolation>>
  \/ Ended /\ UNCHANGED vars

Spec == Init /\ [][Next]_vars

-----------------------------------------------------------------------------
\* The stock that the first i movements of a variant leave.
Left(v, i) == IF i = 0 THEN InitialStock[v] ELSE movements[v][i].after

\* "Every change of product_variants.stock" (inventory_movements in
\* database_schema.dbml): the movements of a variant form a chain, from the
\* stock it had at the start to the stock it has.
HistoryExplainsStock ==
  \A v \in Variants :
    /\ \A i \in DOMAIN movements[v] : movements[v][i].before = Left(v, i - 1)
    /\ stock[v] = Left(v, Len(movements[v]))

\* The same, if a plain SELECT reads the latest committed row.
CommittedHistoryExplainsStock == isolation = "READ COMMITTED" => HistoryExplainsStock

\* Whatever updates are lost, no unit is sold twice: a movement never begins with
\* more than the one before it left, and there is never more, nor less than
\* nothing, than the last one left.
NothingOversold ==
  \A v \in Variants :
    /\ \A i \in DOMAIN movements[v] : movements[v][i].before <= Left(v, i - 1)
    /\ 0 <= stock[v] /\ stock[v] <= Left(v, Len(movements[v]))

-----------------------------------------------------------------------------
\* The same as an inventory: what the orders have taken, and what any call may
\* ask for.
Asked == {w[c] : w \in Workloads, c \in Calls}
AskedBaskets == {r.items : r \in {r \in Asked : r.kind = "checkout"}}
AskedAdjustments ==
  {[v \in Range(r.variants) |-> r.stock[v]] : r \in {r \in Asked : r.kind = "adjust"}}

BasketOf(row) ==
  IF row = NoOrder THEN [state |-> "none"]
  ELSE [items |-> row.items, state |-> IF row.status = "cancelled" THEN "returned" ELSE "taken"]

InventoryView == INSTANCE Inventory WITH Baskets <- AskedBaskets, Adjustments <- AskedAdjustments,
                                         basket <- [o \in Orders |-> BasketOf(order[o])],
                                         exact <- isolation = "READ COMMITTED"

\* Statement by statement, every handler does what it does in one step in Orders:
\* a checkout takes all it asks for or nothing, out of what is there then; a
\* cancelled order gives back what it took, once, and all of it unless the save
\* of restored stock is compared with an old read view; an adjustment leaves
\* exactly the seller's numbers.
ImplementsInventory == InventoryView!InventorySpec

=============================================================================
