------------------------------ MODULE Database ------------------------------
(***************************************************************************)
(* What the transactions of the program rely on: the row locks of          *)
(* MySQL/InnoDB, its read views, and the way TypeORM saves an entity.      *)
(*                                                                         *)
(*   - FOR UPDATE takes an exclusive lock and reads the latest committed   *)
(*     row; INSERT IGNORE takes an exclusive lock on a row it inserts and  *)
(*     a shared lock on a row that exists.  Locks are kept to the end of   *)
(*     the transaction;                                                    *)
(*   - a cycle of waits rolls back one of its transactions;                *)
(*   - a plain SELECT under REPEATABLE READ reads the transaction's read   *)
(*     view, taken at its first plain SELECT; under READ COMMITTED it      *)
(*     reads the latest committed row.  The code leaves the level to the   *)
(*     server, whose default is REPEATABLE READ;                           *)
(*   - manager.save runs a plain SELECT of the row and then updates only   *)
(*     the columns in which the entity differs from what it read.          *)
(***************************************************************************)
EXTENDS FiniteSetsExt

CONSTANTS Calls,   \* concurrent transactions
          Rows     \* rows they lock

VARIABLES locks,      \* locks[r]: pairs <<call, mode>> held on row r
          isolation   \* isolation level of the sessions

Levels == {"REPEATABLE READ", "READ COMMITTED"}
LocksTypeOK == locks \in [Rows -> SUBSET (Calls \X {"S", "X"})]
NoLocks == [r \in Rows |-> {}]

Holds(c, r, mode) == <<c, mode>> \in locks[r]

\* Calls that keep c from a lock on r.
Blockers(c, r, mode) ==
  {d \in Calls \ {c} : Holds(d, r, "X") \/ (mode = "X" /\ Holds(d, r, "S"))}

Acquire(c, r, mode) ==
  /\ Blockers(c, r, mode) = {}
  /\ locks' = [locks EXCEPT ![r] = @ \cup {<<c, mode>>}]

ReleaseLocks(c) == locks' = [r \in Rows |-> {h \in locks[r] : h[1] # c}]

\* asking[c]: the row locks, as pairs <<row, mode>>, that c is asking for.
WaitsFor(asking, c, d) == \E a \in asking[c] : d \in Blockers(c, a[1], a[2])

\* Every call in W waits for another one in W.
Stuck(asking, W) == \A c \in W : \E d \in W : WaitsFor(asking, c, d)

\* The cycles of waits: the minimal non-empty sets of stuck calls.
Cycles(asking) ==
  {W \in (SUBSET Calls) \ {{}} :
     Stuck(asking, W) /\ \A V \in (SUBSET W) \ {{}, W} : ~Stuck(asking, V)}

\* What save's own SELECT reads of a row.
Read(view, current) == IF isolation = "REPEATABLE READ" THEN view ELSE current

\* A column after save.
Saved(entity, read, current) == IF entity = read THEN current ELSE entity
=============================================================================
