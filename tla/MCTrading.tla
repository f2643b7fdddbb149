------------------------------ MODULE MCTrading ------------------------------
(***************************************************************************)
(* The trading path on small instances: the cycles of the runners          *)
(* (TradingLoop), one call of the adapter they place orders through        *)
(* (Placement), and the session a venue keeps (TokenRotation).  The three  *)
(* share no state, so a behaviour is one of a single part: the others stay *)
(* at a fixed initial state.                                               *)
(***************************************************************************)
EXTENDS MCTradingLoop

CONSTANTS MaxCalls, Quantities, Step, PriceMoves              \* of Placement
CONSTANT Resized     \* bound: the decisions that two cycles may size differently;
                     \* the others are always sized to the largest of Sizes
CONSTANTS Processes, Tokens, MaxEvents                        \* of TokenRotation

VARIABLES
  part,         \* the part this behaviour is of
  meanwhile,    \* history, for a property: for each runner, the orders a
                \* rival sent since the runner last found all orders settled
  intent, dedupes, ioc, wire, order, past, created, at, call, first, told,
  stored, enabled, redeemable, lock, phase, config, rotated, live, renewal,
  severed, unlocked, events

Placing  == INSTANCE Placement WITH pc <- at
Rotation == INSTANCE TokenRotation WITH pc <- phase

ASSUME MCTradingAssumption ==
  Placing!PlacementAssumption /\ Rotation!TokenRotationAssumption

Sends(r, p) == pc[r] = "fresh" /\ pc'[r] = "sending" /\ cur[r] = p

SentByRival(r) == {p \in Predictions : \E other \in Runners \ {r} : Sends(other, p)}

Remember ==
  meanwhile' = [r \in Runners |->
                  IF pc'[r] \in {"idle", "loaded", "verified"} THEN {}
                  ELSE meanwhile[r] \cup SentByRival(r)]

SizedWithinBounds ==
  \A r \in Runners :
    cur'[r] \in Predictions \ Resized => \A units \in Sizes : units <= qty'[r]

cycles    == <<vars, meanwhile>>
placement == <<intent, dedupes, ioc, wire, order, past, created, at, call, first, told>>
session   == <<stored, enabled, redeemable, lock, phase, config, rotated, live, renewal,
               severed, unlocked, events>>

MCInit ==
  /\ part \in {"cycle", "placement", "session"}
  /\ Init /\ meanwhile = [r \in Runners |-> {}]
  /\ Placing!Init
  /\ part # "placement" =>
       intent = [quantity |-> 1, small |-> FALSE] /\ ~dedupes /\ ~ioc
  /\ Rotation!Init

(* A call that has answered may be the last; cycles and sessions go on.     *)
PlacementEnds ==
  /\ at = "idle" /\ call > 0
  /\ UNCHANGED placement

MCNext ==
  /\ UNCHANGED part
  /\ \/ /\ part = "cycle"
        /\ Next /\ Remember /\ SizedWithinBounds
        /\ UNCHANGED <<placement, session>>
     \/ /\ part = "placement"
        /\ Placing!Next \/ PlacementEnds
        /\ UNCHANGED <<cycles, session>>
     \/ /\ part = "session"
        /\ Rotation!Next
        /\ UNCHANGED <<cycles, placement>>

MCSpec == MCInit /\ [][MCNext]_<<part, cycles, placement, session>>

(* No cycle sends an order while another one is open, but for the partial   *)
(* fills of that very cycle and what a rival has sent since it looked       *)
(* (require_settled_orders).                                                *)
NoTradingAroundUnsettled ==
  [][\A r \in Runners, p \in Predictions :
       Sends(r, p) =>
         \A other \in Predictions \ ({p} \cup meanwhile[r]) :
           IsUnsettled(other) =>
             orders[other].status = "partially_filled" /\ other \in fills[r]]_vars

(* Every variable of the adapter's call and of the sessions has its type.   *)
PartsTypeOK == Placing!TypeOK /\ Rotation!TypeOK

(* One intent never becomes two orders at the exchange (ccxt_venue.py       *)
(* execute).                                                                *)
OneOrderPerKey == Placing!OneOrderPerKey

(* What the adapter answers is true when it is said and stays true: it      *)
(* implements HonestVenue (ccxt_venue.py execute and its reads).            *)
AnswersHonestly == Placing!AnswersHonestly

(* One process at a time exchanges a stored token (venue/manager.py         *)
(* _rotation_lock).                                                         *)
OneRotationAtATime == Rotation!OneRotationAtATime

(* A consumed token never stays in the settings unless an answer or a save  *)
(* was lost (venue/manager.py refresh_venues).                              *)
StoredTokenIsGood == Rotation!StoredTokenIsGood
==============================================================================
