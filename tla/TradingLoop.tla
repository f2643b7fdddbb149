----------------------------- MODULE TradingLoop -----------------------------
(***************************************************************************)
(* The directional trading cycle (trading/loop.py run_cycle) over the      *)
(* order ledger, the portfolio and a venue.  Each database call and each   *)
(* venue call of the cycle is one step, because the coroutine awaits it:   *)
(* between two of them another cycle may run, the process may die, or a    *)
(* resting order may fill.  A runner is one process that runs the cycle;   *)
(* nothing in the cycle keeps two of them from overlapping.                *)
(*                                                                         *)
(* Every prediction is on an instrument of its own, so the position of an  *)
(* instrument is indexed by its prediction; sides, prices and fees are     *)
(* left out and quantities are whole units.                                *)
(***************************************************************************)
EXTENDS OrderLedger, FiniteSets

CONSTANTS
  Predictions,   \* the prediction ids, numbered in created_at order
  Runners,       \* the processes that run the cycle
  Sizes,         \* the quantities the bridge may size an intent to
  Ceiling,       \* LoopConfig.max_intents_per_cycle
  None           \* no prediction in hand

ASSUME TradingLoopAssumption ==
  /\ Predictions \subseteq Nat
  /\ None \notin Predictions
  /\ Sizes \subseteq Nat \ {0}
  /\ Ceiling \in Nat \ {0}

VARIABLES
  orders,      \* trade_order, one row per idempotency key portfolio:prediction
  book,        \* units the portfolio's positions carry per prediction
  pending,     \* predictions still pending with an open horizon
  venue,       \* the venue's own books, which this code only sees by asking
  pc,          \* where each runner is in run_cycle
  seen,        \* the book snapshot the runner reconciles with
  rows,        \* pending rows the runner has fetched and not considered yet
  cur,         \* the prediction in the runner's hand
  qty,         \* the quantity of the intent in its hand
  answer,      \* what venue.execute returned or raised
  fills,       \* the fills of this cycle
  submitted    \* the cycle's count against its ceiling

cycle == <<pc, seen, rows, cur, qty, answer, fills, submitted>>
vars  == <<orders, book, pending, venue, cycle>>

Answerable == {"fill", "empty", "resting", "unavailable"}
NoAnswer   == [kind |-> "none", units |-> 0]
Flat       == [p \in Predictions |-> 0]

(* sends counts the calls of venue.execute; size is what the last call     *)
(* asked for, filled what was executed, live whether the rest is working.  *)
VenueOrder == [sends : Nat, size : Nat, filled : Nat, live : BOOLEAN]
NotAtVenue == [sends |-> 0, size |-> 0, filled |-> 0, live |-> FALSE]

PCs == {"idle", "loaded", "verified", "scan", "recorded", "fresh",
        "sending", "answered"}

(* Where the runner has a prediction and an intent in its hand.             *)
HoldsPrediction == {"recorded", "fresh", "sending", "answered"}

TypeOK ==
  /\ orders \in [Predictions -> OrderRow]
  /\ book \in [Predictions -> Nat]
  /\ pending \subseteq Predictions
  /\ venue \in [Predictions -> VenueOrder]
  /\ pc \in [Runners -> PCs]
  /\ seen \in [Runners -> [Predictions -> Nat]]
  /\ rows \in [Runners -> SUBSET Predictions]
  /\ cur \in [Runners -> Predictions \cup {None}]
  /\ qty \in [Runners -> Sizes \cup {0}]
  /\ answer \in [Runners -> [kind : Answerable \cup {"none"}, units : Nat]]
  /\ fills \in [Runners -> SUBSET Predictions]
  /\ submitted \in [Runners -> Nat]
  /\ \A r \in Runners : pc[r] \in HoldsPrediction =>
                          cur[r] \in Predictions /\ qty[r] \in Sizes

Init ==
  /\ orders = [p \in Predictions |-> NoOrder]
  /\ book = Flat
  /\ pending = Predictions
  /\ venue = [p \in Predictions |-> NotAtVenue]
  /\ pc = [r \in Runners |-> "idle"]
  /\ seen = [r \in Runners |-> Flat]
  /\ rows = [r \in Runners |-> {}]
  /\ cur = [r \in Runners |-> None]
  /\ qty = [r \in Runners |-> 0]
  /\ answer = [r \in Runners |-> NoAnswer]
  /\ fills = [r \in Runners |-> {}]
  /\ submitted = [r \in Runners |-> 0]

------------------------------------------------------------------------------
(* The end of a cycle, on every path out of it: the local variables go.    *)
EndCycle(r) ==
  /\ pc' = [pc EXCEPT ![r] = "idle"]
  /\ seen' = [seen EXCEPT ![r] = Flat]
  /\ rows' = [rows EXCEPT ![r] = {}]
  /\ cur' = [cur EXCEPT ![r] = None]
  /\ qty' = [qty EXCEPT ![r] = 0]
  /\ answer' = [answer EXCEPT ![r] = NoAnswer]
  /\ fills' = [fills EXCEPT ![r] = {}]
  /\ submitted' = [submitted EXCEPT ![r] = 0]

(* Mutant: the row is dropped and the runner goes on as if it were in hand. *)
MutNextRow(r) ==
  /\ rows' = [rows EXCEPT ![r] = @ \ {cur[r]}]
  /\ cur' = [cur EXCEPT ![r] = None]
  /\ qty' = [qty EXCEPT ![r] = 0]
  /\ answer' = [answer EXCEPT ![r] = NoAnswer]
  /\ UNCHANGED <<pc, seen, submitted>>

(* The loop's `continue`: the row is done with.                             *)
NextRow(r) ==
  /\ pc' = [pc EXCEPT ![r] = "scan"]
  /\ rows' = [rows EXCEPT ![r] = @ \ {cur[r]}]
  /\ cur' = [cur EXCEPT ![r] = None]
  /\ qty' = [qty EXCEPT ![r] = 0]
  /\ answer' = [answer EXCEPT ![r] = NoAnswer]
  /\ UNCHANGED <<seen, submitted>>

(* state.load: one repeatable-read snapshot.                                *)
LoadBook(r) ==
  /\ pc[r] = "idle"
  /\ pc' = [pc EXCEPT ![r] = "loaded"]
  /\ seen' = [seen EXCEPT ![r] = book]
  /\ UNCHANGED <<orders, book, pending, venue, rows, cur, qty, answer, fills,
                 submitted>>

Agrees(r) == \A p \in Predictions : seen[r][p] = venue[p].filled

(* reconcile: the snapshot against what the venue holds now.  A working    *)
(* order shows in the locked leg of the cash only at venues that report    *)
(* one, so a live order may or may not diverge.                            *)
ReconcilePasses(r) ==
  /\ pc[r] = "loaded"
  /\ Agrees(r)
  /\ pc' = [pc EXCEPT ![r] = "verified"]
  /\ seen' = [seen EXCEPT ![r] = Flat]
  /\ UNCHANGED <<orders, book, pending, venue, rows, cur, qty, answer, fills,
                 submitted>>

ReconcileHalts(r) ==
  /\ pc[r] = "loaded"
  /\ ~Agrees(r) \/ \E p \in Predictions : venue[p].live
  /\ EndCycle(r)
  /\ UNCHANGED <<orders, book, pending, venue>>

IsUnsettled(p) == orders[p].status \in Unsettled

(* require_settled_orders, then the fetch of the pending rows.              *)
UnsettledHalts(r) ==
  /\ pc[r] = "verified"
  /\ \E p \in Predictions : IsUnsettled(p)
  /\ EndCycle(r)
  /\ UNCHANGED <<orders, book, pending, venue>>

(* Mutant: the rows are fetched whatever is unsettled.                      *)
MutRequireSettled(r) ==
  /\ pc[r] = "verified"
  /\ pc' = [pc EXCEPT ![r] = "scan"]
  /\ rows' = [rows EXCEPT ![r] = pending]
  /\ UNCHANGED <<orders, book, pending, venue, seen, cur, qty, answer, fills,
                 submitted>>

RequireSettled(r) ==
  /\ pc[r] = "verified"
  /\ \A p \in Predictions : ~IsUnsettled(p)
  /\ pc' = [pc EXCEPT ![r] = "scan"]
  /\ rows' = [rows EXCEPT ![r] = pending]
  /\ UNCHANGED <<orders, book, pending, venue, seen, cur, qty, answer, fills,
                 submitted>>

CycleEnds(r) ==
  /\ pc[r] = "scan"
  /\ rows[r] = {}
  /\ EndCycle(r)
  /\ UNCHANGED <<orders, book, pending, venue>>

IsNextRow(r, p) == p \in rows[r] /\ \A other \in rows[r] : p <= other

(* The bridge refuses the row, or the ceiling has been reached.             *)
RefuseRow(r) ==
  /\ pc[r] = "scan"
  /\ \E p \in rows[r] :
       /\ IsNextRow(r, p)
       /\ rows' = [rows EXCEPT ![r] = @ \ {p}]
  /\ UNCHANGED <<orders, book, pending, venue, pc, seen, cur, qty, answer,
                 fills, submitted>>

(* The bridge sizes an intent against the book of this cycle; record_intent *)
(* writes it, or finds the row an earlier cycle wrote.                      *)
RecordRow(r) ==
  /\ pc[r] = "scan"
  /\ submitted[r] < Ceiling
  /\ \E p \in rows[r], units \in Sizes :
       /\ IsNextRow(r, p)
       /\ orders' = [orders EXCEPT ![p] = RecordIntent(@, units)]
       /\ cur' = [cur EXCEPT ![r] = p]
       /\ qty' = [qty EXCEPT ![r] = units]
  /\ pc' = [pc EXCEPT ![r] = "recorded"]
  /\ UNCHANGED <<book, pending, venue, seen, rows, answer, fills, submitted>>

(* orders.get: a row past intent belongs to an earlier or a rival cycle.    *)
ReadOrder(r) ==
  /\ pc[r] = "recorded"
  /\ \/ /\ orders[cur[r]].status = "intent"
        /\ pc' = [pc EXCEPT ![r] = "fresh"]
        /\ UNCHANGED <<seen, rows, cur, qty, answer, fills, submitted>>
     \/ /\ orders[cur[r]].status # "intent"
        /\ NextRow(r)
        /\ UNCHANGED fills
  /\ UNCHANGED <<orders, book, pending, venue>>

(* Mutant: the row read before is trusted; its status is not checked again. *)
MutMarkSubmittedUnchecked(r) ==
  /\ pc[r] = "fresh"
  /\ orders' = [orders EXCEPT ![cur[r]] = Transition(@, "submitted")]
  /\ pc' = [pc EXCEPT ![r] = "sending"]
  /\ submitted' = [submitted EXCEPT ![r] = @ + 1]
  /\ UNCHANGED <<book, pending, venue, seen, rows, cur, qty, answer, fills>>

(* Mutant: the submission is not written before the venue is asked.         *)
MutMarkSubmittedUnwritten(r) ==
  /\ pc[r] = "fresh"
  /\ pc' = [pc EXCEPT ![r] = "sending"]
  /\ submitted' = [submitted EXCEPT ![r] = @ + 1]
  /\ UNCHANGED <<orders, book, pending, venue, seen, rows, cur, qty, answer, fills>>

(* transition to submitted; the loser of a race gets IllegalTransition,     *)
(* which nothing catches, so its whole cycle ends.                          *)
MarkSubmitted(r) ==
  /\ pc[r] = "fresh"
  /\ \/ /\ CheckTransition(orders[cur[r]], "submitted")
        /\ orders' = [orders EXCEPT ![cur[r]] = Transition(@, "submitted")]
        /\ pc' = [pc EXCEPT ![r] = "sending"]
        /\ submitted' = [submitted EXCEPT ![r] = @ + 1]
        /\ UNCHANGED <<seen, rows, cur, qty, answer, fills>>
     \/ /\ ~CheckTransition(orders[cur[r]], "submitted")
        /\ EndCycle(r)
        /\ UNCHANGED orders
  /\ UNCHANGED <<book, pending, venue>>

(* venue.execute, by what it does at the venue and what it tells the caller *)
(* (protocol.Venue.execute, Fill).  An answer of a fill may leave the rest  *)
(* working; VenueUnavailable says nothing of whether the order was placed,  *)
(* works or has filled, and a resting order may have filled or died since   *)
(* the adapter last read it (HonestVenue, which Placement implements).      *)
HonestAnswer(told, units, live) ==
  /\ told = "fill" => units > 0
  /\ told = "empty" => units = 0 /\ ~live

VenueExecute(r) ==
  /\ pc[r] = "sending"
  /\ \E told \in Answerable, units \in 0..qty[r], live \in BOOLEAN :
       /\ live => units < qty[r]
       /\ HonestAnswer(told, units, live)
       /\ venue' = [venue EXCEPT ![cur[r]] =
                      [sends |-> @.sends + 1, size |-> qty[r],
                       filled |-> units, live |-> live]]
       /\ answer' = [answer EXCEPT ![r] =
                       [kind |-> told, units |-> IF told = "fill" THEN units ELSE 0]]
  /\ pc' = [pc EXCEPT ![r] = "answered"]
  /\ UNCHANGED <<orders, book, pending, seen, rows, cur, qty, fills, submitted>>

(* Mutant: an uncertain answer is taken for a refusal.                      *)
MutParkUncertain(r) ==
  /\ pc[r] = "answered"
  /\ answer[r].kind \in {"resting", "unavailable"}
  /\ orders' = [orders EXCEPT ![cur[r]] = Transition(@, "rejected")]
  /\ EndCycle(r)
  /\ UNCHANGED <<book, pending, venue>>

(* execute_or_halt: an uncertain answer parks the order acknowledged and    *)
(* raises ExecutionUncertain, so the cycle ends.                            *)
ParkUncertain(r) ==
  /\ pc[r] = "answered"
  /\ answer[r].kind \in {"resting", "unavailable"}
  /\ IF CheckTransition(orders[cur[r]], "acknowledged")
       THEN orders' = [orders EXCEPT ![cur[r]] = Transition(@, "acknowledged")]
       ELSE UNCHANGED orders
  /\ EndCycle(r)
  /\ UNCHANGED <<book, pending, venue>>

(* A terminal empty fill: the venue declined, and the order is rejected.    *)
RejectEmpty(r) ==
  /\ pc[r] = "answered"
  /\ answer[r].kind = "empty"
  /\ \/ /\ CheckTransition(orders[cur[r]], "rejected")
        /\ orders' = [orders EXCEPT ![cur[r]] = Transition(@, "rejected")]
        /\ NextRow(r)
        /\ UNCHANGED fills
     \/ /\ ~CheckTransition(orders[cur[r]], "rejected")
        /\ EndCycle(r)
        /\ UNCHANGED orders
  /\ UNCHANGED <<book, pending, venue>>

(* Mutant: the ledger is written and the positions are not.                 *)
MutCommitFill(r) ==
  /\ pc[r] = "answered"
  /\ answer[r].kind = "fill"
  /\ CanRecordFill(orders[cur[r]], answer[r].units)
  /\ orders' = [orders EXCEPT ![cur[r]] = RecordFill(@, answer[r].units)]
  /\ fills' = [fills EXCEPT ![r] = @ \cup {cur[r]}]
  /\ NextRow(r)
  /\ UNCHANGED <<book, pending, venue>>

(* record_and_apply_fill: ledger and positions in one transaction, or the   *)
(* ledger refuses and the exception ends the cycle with neither written.    *)
CommitFill(r) ==
  /\ pc[r] = "answered"
  /\ answer[r].kind = "fill"
  /\ LET p == cur[r]
         units == answer[r].units
     IN \/ /\ CanRecordFill(orders[p], units)
           /\ orders' = [orders EXCEPT ![p] = RecordFill(@, units)]
           /\ book' = [book EXCEPT ![p] = @ + units]
           /\ fills' = [fills EXCEPT ![r] = @ \cup {p}]
           /\ NextRow(r)
        \/ /\ ~CanRecordFill(orders[p], units)
           /\ EndCycle(r)
           /\ UNCHANGED <<orders, book>>
  /\ UNCHANGED <<pending, venue>>

(* The process dies at any point; what the venue and the ledger hold stays. *)
Crash(r) ==
  /\ pc[r] # "idle"
  /\ EndCycle(r)
  /\ UNCHANGED <<orders, book, pending, venue>>

(* The prediction is resolved or its horizon passes.                        *)
Resolve(p) ==
  /\ p \in pending
  /\ pending' = pending \ {p}
  /\ UNCHANGED <<orders, book, venue, cycle>>

(* The venue works a live order on its own: it fills more, or dies.         *)
WorkedTo(p, units, live) ==
  [sends |-> venue[p].sends, size |-> venue[p].size,
   filled |-> units, live |-> live]

VenueWorks(p) ==
  /\ venue[p].live
  /\ \E units \in venue[p].filled..venue[p].size, live \in BOOLEAN :
       /\ live => units < venue[p].size
       /\ venue' = [venue EXCEPT ![p] = WorkedTo(p, units, live)]
  /\ UNCHANGED <<orders, book, pending, cycle>>

InHand(p) == \E r \in Runners : cur[r] = p

(* The operator settles an order the cycle halted on, once no process works *)
(* it and the venue says it is dead: what the venue executed beyond the     *)
(* ledger is booked, and then the order is closed.                          *)
OperatorBooks(p) ==
  /\ IsUnsettled(p) /\ ~InHand(p) /\ ~venue[p].live
  /\ venue[p].filled > orders[p].filled
  /\ LET missing == venue[p].filled - orders[p].filled
     IN /\ CanRecordFill(orders[p], missing)
        /\ orders' = [orders EXCEPT ![p] = RecordFill(@, missing)]
        /\ book' = [book EXCEPT ![p] = @ + missing]
  /\ UNCHANGED <<pending, venue, cycle>>

OperatorCloses(p) ==
  /\ IsUnsettled(p) /\ ~InHand(p) /\ ~venue[p].live
  /\ venue[p].filled = orders[p].filled
  /\ \E target \in {"rejected", "cancelled"} :
       /\ CheckTransition(orders[p], target)
       /\ orders' = [orders EXCEPT ![p] = Transition(@, target)]
  /\ UNCHANGED <<book, pending, venue, cycle>>

Cycle(r) ==
  \/ LoadBook(r) \/ ReconcilePasses(r) \/ ReconcileHalts(r)
  \/ UnsettledHalts(r) \/ RequireSettled(r) \/ CycleEnds(r)
  \/ RefuseRow(r) \/ RecordRow(r) \/ ReadOrder(r) \/ MarkSubmitted(r)
  \/ VenueExecute(r) \/ ParkUncertain(r) \/ RejectEmpty(r) \/ CommitFill(r)

Next ==
  \/ \E r \in Runners : Cycle(r) \/ Crash(r)
  \/ \E p \in Predictions :
       Resolve(p) \/ VenueWorks(p) \/ OperatorBooks(p) \/ OperatorCloses(p)

Spec == Init /\ [][Next]_vars

------------------------------------------------------------------------------
(* A venue is asked to execute a decision at most once, however many cycles *)
(* overlap, die and start again (orders.record_intent, loop.py status gate). *)
SentAtMostOnce == \A p \in Predictions : venue[p].sends <= 1

(* A cycle that resumes the intent of one that died sends it at the size it *)
(* has sized itself, while the ledger keeps the first row (loop.py run_cycle*)
(* over record_intent): the venue may be asked for more than the row says.  *)
SentBeyondRow(p) == venue[p].size > orders[p].quantity

(* What the ledger counts as filled may then be a part of an order that the *)
(* venue still works on: record_fill compares the fill with the row.        *)
FilledInFull(p) == orders[p].status = "filled" /\ ~SentBeyondRow(p)

(* An order the ledger calls rejected or cancelled, or filled at no less    *)
(* than it was sent at, is finished at the venue, and ledger, positions and *)
(* venue agree on how much of it was executed; one the ledger has not       *)
(* submitted is unknown to the venue (order_safety.py: a rejection must not *)
(* be a lie about a live order).                                            *)
TerminalOrdersAreTruthful ==
  \A p \in Predictions :
    /\ orders[p].status \in {"rejected", "cancelled"} \/ FilledInFull(p) =>
         /\ ~venue[p].live
         /\ orders[p].filled = venue[p].filled
         /\ book[p] = venue[p].filled
    /\ orders[p].status \in {"absent", "intent"} =>
         venue[p] = NotAtVenue /\ book[p] = 0

(* Why a decision is sent once: a runner that is sending, or holds the      *)
(* venue's answer, has the order to itself, submitted and not settled under *)
(* its feet, and an order that was never submitted is unknown to the venue  *)
(* (orders._check_transition under the row lock).                           *)
AtVenue(r) == pc[r] \in {"sending", "answered"}

OneSenderPerOrder ==
  /\ \A r \in Runners : AtVenue(r) =>
       /\ orders[cur[r]].status = "submitted"
       /\ venue[cur[r]].sends = (IF pc[r] = "sending" THEN 0 ELSE 1)
  /\ \A r, other \in Runners :
       AtVenue(r) /\ AtVenue(other) /\ cur[r] = cur[other] => r = other
  /\ \A p \in Predictions :
       orders[p].status \in {"absent", "intent"} => venue[p] = NotAtVenue
  /\ SentAtMostOnce

(* Why a finished order is finished, whatever sizes the cycles ask for:     *)
(* what is booked is what the ledger says was filled, never more than the   *)
(* venue executed; an answer in hand is still true of the venue when it is  *)
(* acted upon; and nothing is executed of a closed order any more, unless   *)
(* it is called filled and was sent beyond its row (record_and_apply_fill). *)
BookedIsExecuted ==
  /\ \A p \in Predictions :
       /\ book[p] = orders[p].filled
       /\ orders[p].filled <= orders[p].quantity
       /\ orders[p].filled <= venue[p].filled
       /\ venue[p].filled <= venue[p].size
       /\ venue[p].live => venue[p].filled < venue[p].size
       /\ venue[p].size \in Sizes \cup {0}
       /\ orders[p].status # "absent" => orders[p].quantity \in Sizes
       /\ orders[p].status \in {"absent", "intent", "submitted", "acknowledged"}
            => orders[p].filled = 0
       /\ orders[p].status = "filled" => orders[p].filled = orders[p].quantity
       /\ orders[p].status \in {"rejected", "cancelled"} \/ FilledInFull(p) =>
            ~venue[p].live /\ orders[p].filled = venue[p].filled
  /\ \A r \in Runners : pc[r] = "answered" =>
       /\ answer[r].kind = "fill" =>
            answer[r].units > 0 /\ answer[r].units <= venue[cur[r]].filled
       /\ answer[r].kind = "empty" =>
            ~venue[cur[r]].live /\ venue[cur[r]].filled = 0

(* A partially filled order is one of which the venue executed less than it *)
(* was sent (record_fill: a shortfall is one the venue reported).  An order *)
(* resumed after a crash is sent at the size of the new cycle's intent but  *)
(* measured against the quantity of the row, so this fails.                 *)
ShortfallIsReal ==
  \A p \in Predictions :
    orders[p].status = "partially_filled" =>
      orders[p].filled < venue[p].size

(* The cycle implements the promise of TradeOnce.                           *)
Phase(order) ==
  IF order.status \in {"absent", "intent"} THEN "undecided"
  ELSE IF order.status \in Terminal THEN "closed" ELSE "committed"

Once == INSTANCE TradeOnce WITH
          Decisions <- Predictions,
          phase     <- [p \in Predictions |-> Phase(orders[p])],
          sends     <- [p \in Predictions |-> venue[p].sends],
          booked    <- book

TradesOnce == Once!Spec
==============================================================================
