----------------------------- MODULE CarryCycle ------------------------------
(***************************************************************************)
(* The funding-carry book (trading/carry_loop.py, carry_runner.py and the  *)
(* wind-down of ops/close_book.py) over the order ledger, the positions,   *)
(* the funding ledger and a venue.  A pair is long spot and short perp of  *)
(* the same size; a cycle settles the funding owed since the last recorded *)
(* boundary, closes and opens pairs leg by leg, unwinds a pair whose legs  *)
(* do not match, and records how far funding is settled.                   *)
(*                                                                         *)
(* The advisory lock on the venue leaves one process that trades, so there *)
(* is one; it may die between any two of its awaits.  Meanwhile the venue  *)
(* works what is left of an order and funding settles.  Quantities are     *)
(* whole units; prices, cash and fees are left out, and so is the half per *)
(* cent of dust a pair may differ by, which no whole unit fits into.       *)
(***************************************************************************)
EXTENDS OrderLedger, Integers, FiniteSets

CONSTANTS
  Assets,             \* the universe
  PairSize,           \* notional_per_pair / price, as the cycle computes it
  Lot,                \* for each market, the venue's amount step
  Horizon,            \* bound: the last funding instant
  EnforcesReduceOnly, \* whether the venue heeds reduceOnly on a perpetual
  LeavesRemainders,   \* whether it may keep what an order did not fill working
  Doubts,             \* the ways the venue may answer but for a fill
  None

Markets == {"perp", "spot"}
Modes   == {"cycle", "wind_down"}
Roles   == {"open", "close", "unwind"}
Times   == 1..Horizon
Keys    == Assets \X Markets \X Roles

ASSUME CarryCycleAssumption ==
  /\ PairSize \in Nat \ {0}
  /\ Lot \in [Markets -> Nat \ {0}]
  /\ Horizon \in Nat
  /\ EnforcesReduceOnly \in BOOLEAN /\ LeavesRemainders \in BOOLEAN
  /\ Doubts \subseteq {"empty", "resting", "unavailable"}
  /\ None \notin Assets \cup Int

VARIABLES
  now,        \* funding instants passed
  boundary,   \* opens_at: funding is recorded as settled up to here
  book,       \* the position rows, signed units per asset and market
  venue,      \* what the venue holds
  working,    \* signed units of an order the venue still works
  orders,     \* trade_order rows of the cycle, and the unsettled older ones
  accrued,    \* funding ledger: the short a settlement was applied to
  quiet,      \* settlements that fell to a settled pair while no cycle ran, but
              \* for what a wind-down left out for want of a mark
  pc, mode, asOf,
  legs,       \* the book the cycle loaded
  due,        \* settlements it has yet to apply
  complete,   \* funding_complete
  exits, entries,
  pair,       \* the asset being traded
  role,       \* "open" or "close"
  unwinding,  \* whether its legs are being taken back
  market, ask,
  got,        \* what each leg of the pair filled
  answer

outside == <<now, boundary, accrued, quiet>>
holding == <<book, venue, working, orders>>
plan    == <<mode, asOf, legs, due, complete>>
trade   == <<pair, role, unwinding, market, ask, got, answer>>
local   == <<pc, plan, exits, entries, trade>>
vars    == <<outside, holding, local>>

PCs == {"idle", "begun", "loaded", "owed", "applying", "selecting", "trading",
        "leg", "sending", "answered", "weighed", "closing"}

FlatLegs == [m \in Markets |-> 0]
NoAnswer == [kind |-> "none", units |-> 0, partial |-> FALSE]

TypeOK ==
  /\ now \in 0..Horizon /\ boundary \in 0..Horizon
  /\ book \in [Assets -> [Markets -> Int]]
  /\ venue \in [Assets -> [Markets -> Int]]
  /\ working \in [Keys -> Int]
  /\ orders \in [Keys -> OrderRow]
  /\ accrued \in [Assets \X Times -> Int \cup {None}]
  /\ quiet \subseteq Assets \X Times
  /\ pc \in PCs /\ mode \in Modes /\ asOf \in 0..Horizon
  /\ legs \in [Assets -> [Markets -> Int]]
  /\ due \subseteq Assets \X Times
  /\ complete \in BOOLEAN
  /\ exits \subseteq Assets /\ entries \subseteq Assets
  /\ exits \cap entries = {} /\ pair \notin exits \cup entries
  /\ pair \in Assets \cup {None}
  /\ role \in {"open", "close"} /\ unwinding \in BOOLEAN
  /\ market \in Markets /\ ask \in Nat
  /\ got \in [Markets -> Nat]
  /\ answer \in [kind : Doubts \cup {"fill", "none"}, units : Nat, partial : BOOLEAN]
  /\ pc \in {"leg", "sending", "answered", "weighed"} => pair \in Assets /\ ask > 0

Init ==
  /\ now = 0 /\ boundary = 0
  /\ book = [a \in Assets |-> FlatLegs] /\ venue = book
  /\ working = [k \in Keys |-> 0]
  /\ orders = [k \in Keys |-> NoOrder]
  /\ accrued = [s \in Assets \X Times |-> None]
  /\ quiet = {}
  /\ pc = "idle" /\ mode = "cycle" /\ asOf = 0
  /\ legs = [a \in Assets |-> FlatLegs] /\ due = {} /\ complete = TRUE
  /\ exits = {} /\ entries = {}
  /\ pair = None /\ role = "open" /\ unwinding = FALSE
  /\ market = "perp" /\ ask = 0 /\ got = FlatLegs /\ answer = NoAnswer

------------------------------------------------------------------------------
IsFlat(held) == held = FlatLegs
IsPair(held) == held["spot"] > 0 /\ held["perp"] = -held["spot"]

Matched(held) == IsFlat(held) \/ IsPair(held)
Held(snapshot) == {a \in Assets : IsPair(snapshot[a])}

IsUnsettled(key) == orders[key].status \in Unsettled
AllSettled == \A key \in Keys : ~IsUnsettled(key)

NoTrade ==
  /\ pair' = None /\ role' = "open" /\ unwinding' = FALSE
  /\ market' = "perp" /\ ask' = 0 /\ got' = FlatLegs /\ answer' = NoAnswer

(* Every order of a run is keyed by its own as_of, so its row matters to a  *)
(* later run only while it is unsettled.                                    *)
Kept(rows) ==
  [key \in Keys |-> IF rows[key].status \in Unsettled THEN rows[key] ELSE NoOrder]

(* The end of a run: its local variables go, and an exception or the death  *)
(* of the process ends it with no row in carry_cycle.                       *)
EndRun(rows) ==
  /\ orders' = Kept(rows)
  /\ pc' = "idle" /\ mode' = "cycle" /\ asOf' = 0
  /\ legs' = [a \in Assets |-> FlatLegs] /\ due' = {} /\ complete' = TRUE
  /\ exits' = {} /\ entries' = {}
  /\ NoTrade

(* record_cycle: only a cycle is recorded, and the boundary is the greatest *)
(* funding_settled_through of the log.  A wind-down's result is printed.    *)
Record(settled) ==
  /\ boundary' = IF mode = "cycle" /\ settled /\ asOf > boundary
                   THEN asOf ELSE boundary
  /\ EndRun(orders)
  /\ UNCHANGED <<now, accrued, quiet, book, venue, working>>

Agrees(snapshot) == snapshot = venue

(* run_due_cycle: the boundary is read and the instant fixed.               *)
BeginCycle ==
  /\ pc = "idle"
  /\ pc' = "begun" /\ mode' = "cycle" /\ asOf' = now
  /\ UNCHANGED <<outside, holding, legs, due, complete, exits,
                 entries, trade>>

(* close_book: settled orders and a reconciled book first.  With no order   *)
(* unsettled nothing moves at the venue in between.                         *)
BeginWindDown ==
  /\ pc = "idle"
  /\ AllSettled /\ Agrees(book)
  /\ pc' = "begun" /\ mode' = "wind_down" /\ asOf' = now
  /\ UNCHANGED <<outside, holding, legs, due, complete, exits,
                 entries, trade>>

(* Pair integrity first: a leg that is not half of a pair halts the run.    *)
LoadBook ==
  /\ pc = "begun"
  /\ \/ /\ \A a \in Assets : Matched(book[a])
        /\ legs' = book
        /\ pc' = IF mode = "cycle" THEN "loaded" ELSE "owed"
        /\ UNCHANGED <<outside, holding, mode, asOf, due, complete, exits,
                       entries, trade>>
     \/ /\ \E a \in Assets : ~Matched(book[a])
        /\ Record(FALSE)

(* reconcile.  The positions decide, or the cash, which is not modelled.    *)
ReconcilePasses ==
  /\ pc = "loaded"
  /\ Agrees(legs)
  /\ pc' = "owed"
  /\ UNCHANGED <<outside, holding, plan, exits, entries, trade>>

(* ... and the risk policy, which may refuse the cycle before it.           *)
CycleRefused ==
  /\ pc = "loaded"
  /\ Record(FALSE)

(* Mutant: the window is open above, so a settlement at as_of is nobody's.  *)
MutOwed == {s \in Held(legs) \X Times : boundary < s[2] /\ s[2] < asOf}

Owed == {s \in Held(legs) \X Times : boundary < s[2] /\ s[2] <= asOf}

(* _settlements and their marks.  The cycle values all of them or halts;    *)
(* the wind-down leaves out the ones that have no mark and goes on.         *)
ValueSettlements ==
  /\ pc = "owed"
  /\ \/ /\ due' = Owed
        /\ pc' = "applying"
        /\ UNCHANGED <<outside, holding, mode, asOf, legs, complete, exits,
                       entries, trade>>
     \/ /\ mode = "cycle" /\ Owed # {}
        /\ Record(FALSE)
     \/ /\ mode = "wind_down"
        /\ \E marked \in SUBSET Owed \ {Owed} :
             /\ due' = marked
             /\ quiet' = quiet \ (Owed \ marked)
        /\ complete' = FALSE
        /\ pc' = "applying"
        /\ UNCHANGED <<now, boundary, accrued, holding, mode, asOf, legs,
                       exits, entries, trade>>

(* apply_funding: once per settlement, on the position as it is now.        *)
ApplyFunding ==
  /\ pc = "applying"
  /\ \E s \in due :
       /\ \A other \in due : s[2] <= other[2]
       /\ due' = due \ {s}
       /\ accrued' = [accrued EXCEPT ![s] =
                        IF @ = None THEN -book[s[1]]["perp"] ELSE @]
       /\ complete' = (complete /\ ~(mode = "cycle" /\ accrued[s] = None
                                       /\ book[s[1]]["perp"] = 0))
  /\ UNCHANGED <<now, boundary, quiet, holding, pc, mode,
                 asOf, legs, exits, entries, trade>>

FundingApplied ==
  /\ pc = "applying" /\ due = {}
  /\ IF mode = "cycle" /\ ~complete THEN Record(FALSE)
     ELSE /\ pc' = IF mode = "cycle" THEN "selecting" ELSE "trading"
          /\ exits' \in IF mode = "cycle" THEN {{}} ELSE SUBSET Held(legs)
          /\ UNCHANGED <<outside, holding, plan, entries, trade>>

(* The selector names a basket or abstains; require_settled_orders raises.  *)
(* A name that has no price is passed over, as if it had not been selected. *)
Select ==
  /\ pc = "selecting"
  /\ \/ Record(TRUE)
     \/ /\ ~AllSettled
        /\ EndRun(orders)
        /\ UNCHANGED <<outside, book, venue, working>>
     \/ /\ AllSettled
        /\ exits' \in SUBSET Held(legs)
        /\ entries' \in SUBSET (Assets \ Held(legs))
        /\ pc' = "trading"
        /\ UNCHANGED <<outside, holding, plan, trade>>

------------------------------------------------------------------------------
(* trade_pair: exits before entries.                                        *)
NamesNext == IF exits # {} THEN exits ELSE entries

(* Mutant: the name stays on the list.                                      *)
MutStartPair ==
  /\ pc = "trading"
  /\ \E a \in NamesNext :
       /\ pair' = a
       /\ role' = IF a \in exits THEN "close" ELSE "open"
       /\ ask' = IF a \in exits THEN -legs[a]["perp"] ELSE PairSize
  /\ market' = "perp" /\ unwinding' = FALSE /\ got' = FlatLegs
  /\ pc' = "leg"
  /\ UNCHANGED <<outside, holding, plan, exits, entries, answer>>

StartPair ==
  /\ pc = "trading"
  /\ \E a \in NamesNext :
       /\ exits' = exits \ {a} /\ entries' = entries \ {a}
       /\ pair' = a
       /\ role' = IF a \in exits THEN "close" ELSE "open"
       /\ ask' = IF a \in exits THEN -legs[a]["perp"] ELSE PairSize
  /\ market' = "perp" /\ unwinding' = FALSE /\ got' = FlatLegs
  /\ pc' = "leg"
  /\ UNCHANGED <<outside, holding, plan, answer>>

NamesDone ==
  /\ pc = "trading" /\ NamesNext = {}
  /\ pc' = "closing"
  /\ UNCHANGED <<outside, holding, plan, exits, entries, trade>>

Key == <<pair, market, IF unwinding THEN "unwind" ELSE role>>

(* A short perp and a long spot on the way in; the other way on the way out *)
(* and when a leg is taken back.                                            *)
Direction ==
  IF (market = "spot") = ((role = "open") # unwinding) THEN 1 ELSE -1

ReduceOnly == (role = "close" \/ unwinding) /\ market = "perp"

(* send, up to the venue: record_intent and the transition to submitted.  A *)
(* death between the two leaves a row that nothing heeds.                   *)
Instruct ==
  /\ pc = "leg"
  /\ CheckTransition(RecordIntent(orders[Key], ask), "submitted")
  /\ orders' = [orders EXCEPT ![Key] =
                  Transition(RecordIntent(@, ask), "submitted")]
  /\ pc' = "sending"
  /\ UNCHANGED <<outside, book, venue, working, plan, exits, entries, trade>>

(* The adapter rounds the size down to the amount step before it sends it.  *)
Rounded == Lot[market] * (ask \div Lot[market])

(* What the venue may execute of it: a reduce-only order no more than takes *)
(* the position to zero.                                                    *)
Reducible ==
  LET towardsZero == -Direction * venue[pair][market]
  IN IF towardsZero < 0 THEN 0 ELSE towardsZero

Executable ==
  IF EnforcesReduceOnly /\ ReduceOnly /\ Reducible < Rounded
    THEN Reducible ELSE Rounded

(* venue.execute: what is executed, what stays working, what is said of it  *)
(* (HonestVenue, which Placement implements).  A fill read from the order   *)
(* says whether it is partial; one added up from the trades does not.       *)
Honest(told, units, rest) ==
  /\ told = "fill" => units > 0
  /\ told = "empty" => units = 0 /\ rest = 0
  /\ Rounded = 0 => told = "unavailable"

MaySayPartial(told, units) ==
  IF told = "fill" /\ units < Rounded THEN BOOLEAN ELSE {FALSE}

VenueExecute ==
  /\ pc = "sending"
  /\ \E told \in Doubts \cup {"fill"}, units \in 0..Executable :
     \E rest \in IF LeavesRemainders THEN {0, Executable - units} ELSE {0},
        said \in MaySayPartial(told, units) :
       /\ Honest(told, units, rest)
       /\ told = "fill" /\ Doubts = {} => units = Executable
       /\ venue' = [venue EXCEPT ![pair][market] = @ + Direction * units]
       /\ working' = [working EXCEPT ![Key] = Direction * rest]
       /\ answer' = [kind |-> told,
                     units |-> IF told = "fill" THEN units ELSE 0,
                     partial |-> said]
  /\ pc' = "answered"
  /\ UNCHANGED <<outside, book, orders, plan, exits, entries, pair, role,
                 unwinding, market, ask, got>>

(* Mutant: an unavailable venue is taken for one that declined.             *)
MutParkUncertain ==
  /\ pc = "answered"
  /\ answer.kind \in {"resting", "unavailable"}
  /\ EndRun([orders EXCEPT ![Key] = Transition(@, "rejected")])
  /\ UNCHANGED <<outside, book, venue, working>>

(* execute_or_halt: the order is parked and the exception ends the run.     *)
ParkUncertain ==
  /\ pc = "answered"
  /\ answer.kind \in {"resting", "unavailable"}
  /\ EndRun([orders EXCEPT ![Key] = Transition(@, "acknowledged")])
  /\ UNCHANGED <<outside, book, venue, working>>

Fills(units) == got' = IF unwinding THEN got ELSE [got EXCEPT ![market] = units]

RejectEmpty ==
  /\ pc = "answered"
  /\ answer.kind = "empty"
  /\ orders' = [orders EXCEPT ![Key] = Transition(@, "rejected")]
  /\ Fills(0)
  /\ pc' = "weighed"
  /\ UNCHANGED <<outside, book, venue, working, plan, exits, entries, pair,
                 role, unwinding, market, ask, answer>>

CommitFill ==
  /\ pc = "answered"
  /\ answer.kind = "fill"
  /\ CanRecordFill(orders[Key], answer.units)
  /\ orders' = [orders EXCEPT ![Key] = RecordFill(@, answer.units)]
  /\ book' = [book EXCEPT ![pair][market] = @ + Direction * answer.units]
  /\ Fills(answer.units)
  /\ pc' = "weighed"
  /\ UNCHANGED <<outside, venue, working, plan, exits, entries, pair, role,
                 unwinding, market, ask, answer>>

------------------------------------------------------------------------------
(* What the pair does next, by how the leg came back.                       *)
FilledWhole == answer.units > 0 /\ ~answer.partial

(* The second leg of an entry is sized to what the first one filled.        *)
SpotFollows ==
  /\ pc = "weighed" /\ ~unwinding
  /\ FilledWhole /\ market = "perp"
  /\ market' = "spot"
  /\ ask' = IF role = "open" THEN answer.units ELSE legs[pair]["spot"]
  /\ pc' = "leg"
  /\ UNCHANGED <<outside, holding, plan, exits, entries, pair, role, unwinding,
                 got, answer>>

Neutral ==
  IF role = "open" THEN got["spot"] = got["perp"]
  ELSE got["spot"] = legs[pair]["spot"] /\ got["perp"] = -legs[pair]["perp"]

PairTraded ==
  /\ pc' = "trading"
  /\ NoTrade
  /\ UNCHANGED <<outside, holding, plan, exits, entries>>

PairBalances ==
  /\ pc = "weighed" /\ ~unwinding
  /\ FilledWhole /\ market = "spot" /\ Neutral
  /\ PairTraded

(* unwind: every leg that filled is sent back at the size it filled.        *)
TakeBack(m) ==
  /\ unwinding' = TRUE /\ market' = m /\ ask' = got[m]
  /\ pc' = "leg"
  /\ UNCHANGED <<outside, holding, plan, exits, entries, pair, role, got,
                 answer>>

PairBreaks ==
  /\ pc = "weighed" /\ ~unwinding
  /\ ~FilledWhole \/ (market = "spot" /\ ~Neutral)
  /\ \/ got["perp"] > 0 /\ TakeBack("perp")
     \/ got["perp"] = 0 /\ PairTraded

(* Mutant: an unwind is believed whatever it filled.                        *)
MutLegUnwound ==
  /\ pc = "weighed" /\ unwinding
  /\ \/ market = "perp" /\ got["spot"] > 0 /\ TakeBack("spot")
     \/ (market = "spot" \/ got["spot"] = 0) /\ PairTraded

LegUnwound ==
  /\ pc = "weighed" /\ unwinding
  /\ answer.units = ask
  /\ \/ market = "perp" /\ got["spot"] > 0 /\ TakeBack("spot")
     \/ (market = "spot" \/ got["spot"] = 0) /\ PairTraded

UnwindFails ==
  /\ pc = "weighed" /\ unwinding
  /\ answer.units # ask
  /\ pc' = "closing"
  /\ exits' = {} /\ entries' = {}
  /\ NoTrade
  /\ UNCHANGED <<outside, holding, plan>>

(* The cycle reads the book once more and records its row, halted or not.   *)
EndTrading ==
  /\ pc = "closing"
  /\ Record(complete)

------------------------------------------------------------------------------
Crash ==
  /\ pc # "idle"
  /\ EndRun(orders)
  /\ UNCHANGED <<outside, book, venue, working>>

(* A funding instant passes: the venue settles with whoever is short there. *)
FundingSettles ==
  /\ now < Horizon
  /\ now' = now + 1
  /\ LET still == {a \in Assets :
                     /\ IsPair(book[a]) /\ book[a] = venue[a]
                     /\ \A m \in Markets, r \in Roles : ~IsUnsettled(<<a, m, r>>)}
     IN quiet' = IF pc = "idle" THEN quiet \cup (still \X {now + 1}) ELSE quiet
  /\ UNCHANGED <<boundary, accrued, holding, local>>

(* The venue fills what is left of an order, or gives it up.                *)
VenueWorks(key) ==
  /\ working[key] # 0
  /\ \E all \in BOOLEAN :
       venue' = IF all THEN [venue EXCEPT ![key[1]][key[2]] = @ + working[key]]
                ELSE venue
  /\ working' = [working EXCEPT ![key] = 0]
  /\ UNCHANGED <<outside, book, orders, local>>

(* The operator settles the orders of an asset the venue no longer works:   *)
(* the book is brought to what the venue holds and they are closed.         *)
OperatorSettles(a) ==
  /\ pc = "idle"
  /\ \E m \in Markets, r \in Roles : IsUnsettled(<<a, m, r>>)
  /\ \A m \in Markets, r \in Roles : working[<<a, m, r>>] = 0
  /\ book' = [book EXCEPT ![a] = venue[a]]
  /\ orders' = [key \in Keys |-> IF key[1] = a THEN NoOrder ELSE orders[key]]
  /\ UNCHANGED <<outside, venue, working, local>>

(* ... and trades a leg that is left naked out of both books.               *)
OperatorFlattens(a) ==
  /\ pc = "idle"
  /\ ~Matched(book[a]) /\ book[a] = venue[a]
  /\ \A m \in Markets, r \in Roles : ~IsUnsettled(<<a, m, r>>)
  /\ book' = [book EXCEPT ![a] = FlatLegs]
  /\ venue' = [venue EXCEPT ![a] = FlatLegs]
  /\ UNCHANGED <<outside, working, orders, local>>

Run ==
  \/ BeginCycle \/ BeginWindDown \/ LoadBook \/ ReconcilePasses \/ CycleRefused
  \/ ValueSettlements \/ ApplyFunding \/ FundingApplied \/ Select
  \/ StartPair \/ NamesDone \/ Instruct \/ VenueExecute
  \/ ParkUncertain \/ RejectEmpty \/ CommitFill
  \/ SpotFollows \/ PairBalances \/ PairBreaks \/ LegUnwound \/ UnwindFails
  \/ EndTrading \/ Crash

Next ==
  \/ Run \/ FundingSettles
  \/ \E key \in Keys : VenueWorks(key)
  \/ \E a \in Assets : OperatorSettles(a) \/ OperatorFlattens(a)

Spec == Init /\ [][Next]_vars

------------------------------------------------------------------------------
(* A leg on which the book and the venue differ, or of which the venue      *)
(* still works a part, has an order that is not settled, so that            *)
(* require_settled_orders stops the next trading before it sizes anything   *)
(* against it (order_safety.py; every leg through the ledger).              *)
DivergenceIsParked ==
  /\ \A a \in Assets, m \in Markets :
       book[a][m] # venue[a][m] => \E r \in Roles : IsUnsettled(<<a, m, r>>)
  /\ \A key \in Keys : working[key] # 0 => IsUnsettled(key)

(* No pair is traded on top of a naked leg: whenever the run turns to the   *)
(* next name, all it holds is matched, whatever legs were refused, filled   *)
(* in part and unwound before (trade_pair, unwind, the pair gate).          *)
TradesOnMatchedBook ==
  pc = "trading" => \A a \in Assets : Matched(book[a])

(* Funding that fell to a settled pair between two runs is never passed     *)
(* over: neither a close of the pair nor the recorded boundary gets past it *)
(* before it is in the funding ledger, with the short it was owed to --     *)
(* but for what a wind-down left out (the window (funding_since, as_of],    *)
(* "Funding settles before the rebalance trades").                          *)
Credited(s) == accrued[s] # None /\ accrued[s] > 0

NothingPassedOver ==
  \A s \in quiet :
    /\ s[2] <= boundary => Credited(s)
    /\ pc = "sending" /\ role = "close" /\ s[1] = pair /\ s[2] <= asOf => Credited(s)

(* Both unwind directions work (carry_loop.py, at _CLOSE_ORDER).            *)
UnwindsAreExecutable ==
  pc = "sending" /\ unwinding => Executable = ask

(* An order is left partially filled only by a shortfall that the venue     *)
(* reported (orders.record_fill).                                           *)
ShortfallsAreReported ==
  pc = "weighed" /\ answer.kind = "fill" /\ ~answer.partial
    => orders[Key].status = "filled"
==============================================================================
