------------------------------- MODULE Placement ------------------------------
(***************************************************************************)
(* How the ccxt adapter places one order (venue/ccxt_venue.py execute,     *)
(* _resolve_placement, _reconcile_terse_submit, _fill_from_order) over a   *)
(* network that loses and delays requests and answers, and an exchange     *)
(* whose read paths may lag behind each other.  Each awaited call is a     *)
(* step.  All calls of execute are for one intent, hence one client order  *)
(* id; the next one is made only when the last one said it could not tell. *)
(*                                                                         *)
(* Prices are left out: a market intent is sent as a limit that may cross  *)
(* the book or not.  Quantities are whole units.                           *)
(***************************************************************************)
EXTENDS Naturals, FiniteSets

CONSTANTS
  MaxCalls,     \* bound: calls of execute with this idempotency key
  Quantities,   \* the sizes an intent may have
  Step,         \* the market's amount step
  PriceMoves    \* whether the notional may cross the minimum between calls

PlacementAssumption ==
  /\ MaxCalls \in Nat \ {0}
  /\ Quantities \subseteq Nat \ {0}
  /\ Step \in Nat \ {0}
  /\ PriceMoves \in BOOLEAN

Calls == 1..MaxCalls

VARIABLES
  intent,    \* the quantity, and whether its notional is below the minimum
  dedupes,   \* whether the exchange refuses a client order id it has seen
  ioc,       \* whether the order is sent as immediate-or-cancel
  wire,      \* for each call, what became of its create request
  order,     \* the order at the exchange
  past,      \* every state the order has been in: what a read may return
  created,   \* orders the exchange has opened under the key
  pc,        \* where the call is in execute
  call,      \* the call in progress, or the last one
  first,     \* what a terse submit read back at first
  told       \* what each call has answered

exchange == <<wire, order, past, created>>
settings == <<dedupes, ioc>>
vars     == <<intent, settings, exchange, pc, call, first, told>>

NoOrder  == [live |-> FALSE, filled |-> 0]
NoAnswer == [kind |-> "none", units |-> 0]
Kinds    == {"none", "fill", "empty", "resting", "unavailable"}

Exists == past # {}

(* Where the call knows the id the exchange gave the order.                 *)
KnowsId == {"reading", "trades", "listing", "cancelling", "rereading"}

TypeOK ==
  /\ intent \in [quantity : Quantities, small : BOOLEAN]
  /\ dedupes \in BOOLEAN /\ ioc \in BOOLEAN
  /\ wire \in [Calls -> {"unsent", "flying", "lost", "placed", "refused", "duplicate"}]
  /\ order \in [live : BOOLEAN, filled : Nat]
  /\ past \subseteq [live : BOOLEAN, filled : Nat]
  /\ created \in Nat
  /\ pc \in {"idle", "placing", "resolving"} \cup KnowsId
  /\ call \in 0..MaxCalls
  /\ first \in {"none", "empty", "resting"}
  /\ told \in [Calls -> [kind : Kinds, units : Nat]]
  /\ Exists => order \in past
  /\ pc \in KnowsId => wire[call] = "placed" /\ Exists
  /\ first # "none" <=> pc \in {"cancelling", "rereading"}

Init ==
  /\ intent \in [quantity : Quantities, small : BOOLEAN]
  /\ dedupes \in BOOLEAN /\ ioc \in BOOLEAN
  /\ wire = [c \in Calls |-> "unsent"]
  /\ order = NoOrder /\ past = {} /\ created = 0
  /\ pc = "idle" /\ call = 0 /\ first = "none"
  /\ told = [c \in Calls |-> NoAnswer]

--------------------------------------------------------------------------------
(* _rounded_amount.                                                         *)
Submitted == Step * (intent.quantity \div Step)

(* The call returns, or raises VenueUnavailable.                            *)
Answer(c, kind, units) ==
  /\ told' = [told EXCEPT ![c] = [kind |-> kind, units |-> units]]
  /\ pc' = "idle"
  /\ first' = "none"

Unavailable == Answer(call, "unavailable", 0)

(* _fill_from_order on an order whose state it can read.                    *)
Says(seen) ==
  IF seen.filled > 0 THEN "fill" ELSE IF seen.live THEN "resting" ELSE "empty"

FillFromOrder(seen) == Answer(call, Says(seen), seen.filled)

(* A further call is the caller's decision: after an answer that left the   *)
(* outcome open, at a venue that tells a repeated id.                       *)
MayCall ==
  \/ call = 0
  \/ call \in 1..(MaxCalls - 1) /\ told[call].kind = "unavailable" /\ dedupes

Begin ==
  /\ pc = "idle" /\ MayCall
  /\ call' = call + 1
  /\ IF PriceMoves THEN \E small \in BOOLEAN : intent' = [intent EXCEPT !.small = small]
     ELSE UNCHANGED intent

(* Read-only mode, barriers nobody would honour, a market type, a symbol or *)
(* a contract unit the adapter does not trade, or a size that rounds away.  *)
Refuse ==
  /\ Begin
  /\ Answer(call + 1, "unavailable", 0)
  /\ UNCHANGED <<settings, exchange>>

(* The rounded size is worth less than the market's minimum.                *)
BelowMinimum ==
  /\ Begin /\ Submitted > 0
  /\ intent'.small
  /\ Answer(call + 1, "empty", 0)
  /\ UNCHANGED <<settings, exchange>>

Submit ==
  /\ Begin /\ Submitted > 0
  /\ ~intent'.small
  /\ wire' = [wire EXCEPT ![call + 1] = "flying"]
  /\ pc' = "placing"
  /\ UNCHANGED <<settings, order, past, created, first, told>>

--------------------------------------------------------------------------------
(* The exchange and the network.                                            *)
Becomes(seen) ==
  /\ order' = seen
  /\ past' = past \cup {seen}

Outcomes == [live : BOOLEAN, filled : 0..Submitted]

Possible(seen) == seen.live => seen.filled < Submitted /\ ~ioc

Place(c) ==
  /\ wire[c] = "flying"
  /\ ~(Exists /\ dedupes)
  /\ \E seen \in Outcomes : Possible(seen) /\ Becomes(seen)
  /\ created' = created + 1
  /\ wire' = [wire EXCEPT ![c] = "placed"]
  /\ UNCHANGED <<intent, settings, pc, call, first, told>>

(* The request is lost, refused (funds, size, price), or its id is known.   *)
Reject(c) ==
  /\ wire[c] = "flying"
  /\ \E fate \in {"lost", "refused"} \cup (IF Exists /\ dedupes THEN {"duplicate"} ELSE {}) :
       wire' = [wire EXCEPT ![c] = fate]
  /\ UNCHANGED <<intent, settings, order, past, created, pc, call, first, told>>

(* The exchange fills the order or ends it.                                 *)
Work ==
  /\ order.live
  /\ \E seen \in Outcomes :
       /\ Possible(seen) /\ seen.filled >= order.filled /\ seen # order
       /\ Becomes(seen)
  /\ UNCHANGED <<intent, settings, wire, created, pc, call, first, told>>

--------------------------------------------------------------------------------
(* Mutant: a placement that was not answered is sent once more.             *)
MutSendAgain ==
  /\ pc = "placing"
  /\ wire' = [wire EXCEPT ![call] = "flying"]
  /\ UNCHANGED <<intent, settings, order, past, created, pc, call, first, told>>

(* Mutant: it is looked up like a terse answer, by an id it never gave.     *)
MutLookUp ==
  /\ pc = "placing"
  /\ pc' = "reading"
  /\ UNCHANGED <<intent, settings, exchange, call, first, told>>

(* create_order raises a NetworkError, whatever became of the request, or   *)
(* DuplicateOrderId: what the order is has to be asked.                     *)
NetworkFails ==
  /\ pc = "placing"
  /\ pc' = "resolving"
  /\ UNCHANGED <<intent, settings, exchange, call, first, told>>

(* Any other error of the exchange (_translate).                            *)
IsRefused ==
  /\ pc = "placing" /\ wire[call] = "refused"
  /\ Unavailable
  /\ UNCHANGED <<intent, settings, exchange, call>>

IsDescribed ==
  /\ pc = "placing" /\ wire[call] = "placed"
  /\ \E seen \in past : FillFromOrder(seen)
  /\ UNCHANGED <<intent, settings, exchange, call>>

(* A terse answer: with an id that can be asked about, or without one.      *)
IsTerse ==
  /\ pc = "placing" /\ wire[call] = "placed"
  /\ \/ pc' = "reading" /\ UNCHANGED <<first, told>>
     \/ Unavailable
  /\ UNCHANGED <<intent, settings, exchange, call>>

(* _resolve_placement: one read by client order id.  The order may not have *)
(* arrived, the read may fail or describe it too poorly.                    *)
Resolve ==
  /\ pc = "resolving"
  /\ Unavailable \/ \E seen \in past : FillFromOrder(seen)
  /\ UNCHANGED <<intent, settings, exchange, call>>

--------------------------------------------------------------------------------
(* _reconcile_terse_submit.  What the first readable answer leads to.       *)
ReadBack(seen) ==
  IF seen.filled > 0 THEN FillFromOrder(seen)
  ELSE first' = Says(seen) /\ pc' = "cancelling" /\ UNCHANGED told

(* fetch_order by the exchange's id; an order it cannot describe ends the   *)
(* call, an error leads to the paths that enumerate.                        *)
ReadById ==
  /\ pc = "reading"
  /\ \/ \E seen \in past : ReadBack(seen)
     \/ Unavailable
     \/ pc' = "trades" /\ UNCHANGED <<first, told>>
  /\ UNCHANGED <<intent, settings, exchange, call>>

(* fetch_my_trades: any of them may be listed yet.  _fill_from_trades does  *)
(* not say whether they are all of the order.                               *)
ReadTrades ==
  /\ pc = "trades"
  /\ \/ \E units \in 1..order.filled : Answer(call, "fill", units)
     \/ Unavailable
     \/ pc' = "listing" /\ UNCHANGED <<first, told>>
  /\ UNCHANGED <<intent, settings, exchange, call>>

(* fetch_open_orders.                                                       *)
ReadListing ==
  /\ pc = "listing"
  /\ \/ \E seen \in past : seen.live /\ ReadBack(seen)
     \/ Unavailable
  /\ UNCHANGED <<intent, settings, exchange, call>>

(* cancel_order races the fills; its error says nothing of its effect.      *)
CancelOrder ==
  /\ pc = "cancelling"
  /\ Becomes(order) \/ Becomes([order EXCEPT !.live = FALSE])
  /\ pc' = "rereading"
  /\ UNCHANGED <<intent, settings, wire, created, call, first, told>>

(* Mutant: the cancellation is taken to have decided.                       *)
MutReread ==
  /\ pc = "rereading"
  /\ \/ \E seen \in past : seen.filled > 0 /\ FillFromOrder(seen)
     \/ Answer(call, "empty", 0)
  /\ UNCHANGED <<intent, settings, exchange, call>>

(* The last read: a fill that landed wins, an order that is over is over,   *)
(* and otherwise the first read stands, the cancellation unconfirmed.       *)
Reread ==
  /\ pc = "rereading"
  /\ \/ \E seen \in past :
          IF seen.live /\ seen.filled = 0 THEN Answer(call, first, 0)
          ELSE FillFromOrder(seen)
     \/ Answer(call, first, 0)
     \/ Unavailable
  /\ UNCHANGED <<intent, settings, exchange, call>>

Execute ==
  \/ Refuse \/ BelowMinimum \/ Submit
  \/ NetworkFails \/ IsRefused \/ IsDescribed \/ IsTerse \/ Resolve
  \/ ReadById \/ ReadTrades \/ ReadListing \/ CancelOrder \/ Reread

Next ==
  \/ Execute
  \/ \E c \in Calls : Place(c) \/ Reject(c)
  \/ Work

Spec == Init /\ [][Next]_vars

--------------------------------------------------------------------------------
(* One intent never becomes two orders, also at an exchange that would take *)
(* a client order id twice: placement is never retried ("a blind retry is   *)
(* how one intent becomes two positions").                                  *)
OneOrderPerKey == created <= 1

(* What the adapter answers is true and stays true, however requests are    *)
(* lost or late and reads lag: it implements HonestVenue.                   *)
WasEmpty == \E c \in Calls : told[c].kind = "empty"

Stage ==
  IF Exists THEN IF order.live THEN "working" ELSE "dead"
  ELSE IF WasEmpty THEN "dead" ELSE "unsent"

Kept(answer) ==
  [kind  |-> IF answer.kind \in {"resting", "unavailable"} THEN "unknown" ELSE answer.kind,
   units |-> answer.units]

Honest == INSTANCE HonestVenue WITH
            stage    <- Stage,
            executed <- order.filled,
            told     <- [c \in Calls |-> Kept(told[c])]

AnswersHonestly == Honest!Spec
================================================================================
