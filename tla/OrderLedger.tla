----------------------------- MODULE OrderLedger -----------------------------
(***************************************************************************)
(* The order ledger of portfolio/orders.py as operators on one order row:  *)
(* the declared lifecycle, the idempotent intent, the checked transition   *)
(* and the accumulated fill.  Each operator stands for one database        *)
(* transaction under the order's row lock, so the modules that use them    *)
(* take one in a single step.  Prices, fees and the event log, which only  *)
(* repeat what the row says, are left out; quantities are whole units.     *)
(***************************************************************************)
EXTENDS Naturals

Unsettled == {"submitted", "acknowledged", "partially_filled"}
Terminal  == {"filled", "rejected", "cancelled"}
Statuses  == {"intent"} \cup Unsettled \cup Terminal

LegalTransitions ==
  [intent           |-> {"submitted", "rejected", "cancelled"},
   submitted        |-> {"acknowledged", "partially_filled", "filled",
                         "rejected", "cancelled"},
   acknowledged     |-> {"partially_filled", "filled", "rejected", "cancelled"},
   partially_filled |-> {"partially_filled", "filled", "cancelled"},
   filled           |-> {},
   rejected         |-> {},
   cancelled        |-> {}]

(* A decision with no row in trade_order yet. *)
NoOrder == [status |-> "absent", quantity |-> 0, filled |-> 0]

OrderRow == [status : Statuses \cup {"absent"}, quantity : Nat, filled : Nat]

(* Mutant: any known row may be moved to any status.                        *)
MutCheckTransition(order, target) == order.status \in Statuses

(* _check_transition: what keeps a terminal order from being resurrected.   *)
CheckTransition(order, target) ==
  /\ order.status \in Statuses
  /\ target \in LegalTransitions[order.status]

(* record_intent: ON CONFLICT DO NOTHING, so a second intent under the same *)
(* key keeps the first row whole -- its quantity included.                  *)
RecordIntent(order, quantity) ==
  IF order.status = "absent"
    THEN [status |-> "intent", quantity |-> quantity, filled |-> 0]
    ELSE order

(* transition, once _check_transition let it through.                       *)
Transition(order, target) == [order EXCEPT !.status = target]

FillTarget(order, units) ==
  IF order.filled + units >= order.quantity THEN "filled" ELSE "partially_filled"

(* record_fill refuses an illegal status first and an overfill after it.    *)
CanRecordFill(order, units) ==
  /\ units > 0
  /\ CheckTransition(order, FillTarget(order, units))
  /\ order.filled + units <= order.quantity

RecordFill(order, units) ==
  [status   |-> FillTarget(order, units),
   quantity |-> order.quantity,
   filled   |-> order.filled + units]
==============================================================================
