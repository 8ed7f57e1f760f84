----------------------------- MODULE OrdersEdit -----------------------------
(***************************************************************************)
(* Orders with editPurchase, the one handler that changes an orders row    *)
(* without a transaction and without a lock: it reads the whole row, and   *)
(* saves the whole entity after an await with a new note.  save writes     *)
(* every column that differs from the row it finds, so the columns the     *)
(* order had when it was read come back.                                   *)
(***************************************************************************)
EXTENDS Orders

CONSTANT MaxEdits   \* bound on the number of calls of editPurchase

VARIABLES editing,   \* the entity each editPurchase holds between its read and its save
          edits      \* calls of editPurchase so far

editVars == <<vars, editing, edits>>

EditInit ==
  /\ Init
  /\ editing = [o \in Orders |-> NoOrder]
  /\ edits = 0

\* findOne and the check that the order may still be edited.
EditRead(o) ==
  /\ edits < MaxEdits
  /\ editing[o] = NoOrder
  /\ order[o].status \in {"pending_confirmation", "confirmed"}
  /\ editing' = [editing EXCEPT ![o] = order[o]]
  /\ edits' = edits + 1
  /\ UNCHANGED vars

\* order.note = body.note; orderRepository.save(order).  The note itself is not
\* modelled.
EditSave(o) ==
  /\ editing[o] # NoOrder
  /\ order' = [order EXCEPT ![o] = editing[o]]
  /\ editing' = [editing EXCEPT ![o] = NoOrder]
  /\ UNCHANGED <<ledgerVars, refund, timeline, stock, moved, listed, active, now, edits>>

EditNext ==
  \/ Next /\ UNCHANGED <<editing, edits>>
  \/ \E o \in Orders : EditRead(o) \/ EditSave(o)

EditSpec == EditInit /\ [][EditNext]_editVars

-----------------------------------------------------------------------------
Disposals == {"ORDER_REFUND:CANCEL", "ORDER_REFUND:SELLER_REJECT",
              "REFUND_SETTLEMENT", "ORDER_POINTS_RELEASE"}
Disposed(o) == {k \in Disposals : Done(k, o)}

\* "holding: the points are in the seller's pending_balance" (settlement_status
\* in database_schema.dbml): an order in holding has not been disposed of.
HoldingIsPending ==
  \A o \in Placed : order[o].settlement = "holding" => Disposed(o) = {}
=============================================================================
