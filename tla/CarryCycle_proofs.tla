--------------------------- MODULE CarryCycle_proofs ---------------------------
(***************************************************************************)
(* What holds of the carry book for any universe, pair size, amount steps, *)
(* horizon and venue, partial fills, working remainders, crashes and all:  *)
(* what book and venue differ by is behind an order that blocks the next   *)
(* trading, no pair is traded on top of a naked leg, and no funding that   *)
(* fell to a settled pair is passed over.                                  *)
(***************************************************************************)
EXTENDS CarryCycle, TLAPS

(* Where a run has a pair in hand, and where it trades.                     *)
OnLeg   == {"leg", "sending", "answered", "weighed"}
Trading == {"trading"} \cup OnLeg
Before  == {"idle", "begun", "loaded", "owed", "applying"}

(* What the run means to trade, and the book it loaded.                     *)
PlanOK ==
  /\ pc \notin {"idle", "begun"} => \A a \in Assets : Matched(legs[a])
  /\ pc \in {"loaded", "owed", "applying", "selecting"} => book = legs
  /\ pc \notin Trading => exits = {} /\ entries = {}
  /\ exits \subseteq Held(legs)
  /\ entries \cap Held(legs) = {}
  /\ \A a \in exits \cup entries : book[a] = legs[a]

(* What a leg of the pair in hand has been moved by so far, and which way.  *)
TakenBack(m) ==
  IF ~unwinding THEN 0
  ELSE IF m = market THEN (IF pc = "weighed" THEN answer.units ELSE 0)
  ELSE IF market = "spot" THEN got[m] ELSE 0

LegMoved(m) ==
  book[pair][m] = IF (m = "spot") <=> (role = "open")
                    THEN legs[pair][m] + (got[m] - TakenBack(m))
                    ELSE legs[pair][m] - (got[m] - TakenBack(m))

(* The pair in hand: its legs are where what was filled has put them.       *)
PairOK ==
  /\ pc \notin OnLeg => pair = None
  /\ pc \in Trading => \A a \in Assets \ {pair} : Matched(book[a])
  /\ pc \in OnLeg =>
       /\ role = "close" <=> pair \in Held(legs)
       /\ \A m \in Markets : LegMoved(m)
       /\ unwinding => ask = got[market]
       /\ ~unwinding =>
            /\ got[market] = IF pc = "weighed" THEN answer.units ELSE 0
            /\ market = "perp" => got["spot"] = 0
            /\ market = "spot" => got["perp"] > 0
  /\ pc = "answered" /\ answer.kind # "fill" => answer.units = 0

(* The order in flight, and what of it book and venue do not agree on yet.  *)
Sent == [status |-> "submitted", quantity |-> ask, filled |-> 0]

AnotherParked ==
  \E r \in Roles : <<pair, market, r>> # Key /\ IsUnsettled(<<pair, market, r>>)

SentOK ==
  /\ \A key \in Keys : orders[key].status # "intent"
  /\ pc = "sending" =>
       /\ orders[Key] = Sent /\ working[Key] = 0
       /\ book[pair][market] = venue[pair][market] \/ AnotherParked
  /\ pc = "answered" =>
       /\ orders[Key] = Sent
       /\ answer.kind = "empty" =>
            /\ working[Key] = 0
            /\ book[pair][market] = venue[pair][market] \/ AnotherParked
       /\ answer.kind = "fill" =>
            \/ answer.units < ask
            \/ /\ working[Key] = 0
               /\ \/ venue[pair][market] = book[pair][market] + Direction * answer.units
                  \/ AnotherParked

(* Funding that a settled pair is still owed.                               *)
Outstanding == {s \in quiet : ~Credited(s)}

FundingOK ==
  /\ boundary <= now /\ asOf <= now
  /\ \A s \in quiet : s[2] <= now /\ (pc # "idle" => s[2] <= asOf)
  /\ \A s \in Assets \X Times : accrued[s] # None => accrued[s] > 0
  /\ pc = "applying" =>
       /\ \A s \in due : s[1] \in Held(legs) /\ boundary < s[2]
       /\ Outstanding \subseteq due
  /\ pc \in Before =>
       \A s \in Outstanding :
         /\ boundary < s[2] /\ IsPair(book[s[1]])
         /\ \A m \in Markets, r \in Roles : ~IsUnsettled(<<s[1], m, r>>)
  /\ pc \notin Before => Outstanding = {}

CarryInv ==
  TypeOK /\ PlanOK /\ PairOK /\ SentOK /\ DivergenceIsParked /\ FundingOK

(* The type invariant in two halves: what outlives a run, and the run.      *)
StoreTypes ==
  /\ now \in 0..Horizon /\ boundary \in 0..Horizon
  /\ book \in [Assets -> [Markets -> Int]]
  /\ venue \in [Assets -> [Markets -> Int]]
  /\ working \in [Keys -> Int]
  /\ orders \in [Keys -> OrderRow]
  /\ accrued \in [Assets \X Times -> Int \cup {None}]
  /\ quiet \subseteq Assets \X Times

PlanTypes ==
  /\ pc \in PCs /\ mode \in Modes /\ asOf \in 0..Horizon
  /\ legs \in [Assets -> [Markets -> Int]]
  /\ due \subseteq Assets \X Times
  /\ complete \in BOOLEAN
  /\ exits \subseteq Assets /\ entries \subseteq Assets
  /\ exits \cap entries = {} /\ pair \notin exits \cup entries

TradeTypes ==
  /\ pair \in Assets \cup {None}
  /\ role \in {"open", "close"} /\ unwinding \in BOOLEAN
  /\ market \in Markets /\ ask \in Nat
  /\ got \in [Markets -> Nat]
  /\ answer \in [kind : Doubts \cup {"fill", "none"}, units : Nat, partial : BOOLEAN]
  /\ pc \in OnLeg => pair \in Assets /\ ask > 0

LEMMA TypeParts == TypeOK <=> StoreTypes /\ PlanTypes /\ TradeTypes
BY DEF TypeOK, StoreTypes, PlanTypes, TradeTypes, OnLeg

LEMMA InitCarry == Init => CarryInv
<1> SUFFICES ASSUME Init PROVE CarryInv
  OBVIOUS
<1>1. /\ FlatLegs \in [Markets -> Nat] /\ FlatLegs \in [Markets -> Int]
      /\ NoOrder \in OrderRow
      /\ NoAnswer \in [kind : Doubts \cup {"fill", "none"}, units : Nat,
                       partial : BOOLEAN]
  BY DEF FlatLegs, NoOrder, OrderRow, NoAnswer
<1>2. TypeOK
  <2>1. StoreTypes
    BY <1>1, CarryCycleAssumption DEF Init, StoreTypes
  <2>2. PlanTypes
    BY <1>1, CarryCycleAssumption DEF Init, PlanTypes, PCs, Modes
  <2>3. TradeTypes
    BY <1>1 DEF Init, TradeTypes, OnLeg, Markets
  <2>4. QED
    BY <2>1, <2>2, <2>3, TypeParts
<1>3. PlanOK /\ PairOK
  BY CarryCycleAssumption DEF Init, PlanOK, PairOK, Trading, OnLeg
<1>4. SentOK /\ DivergenceIsParked
  BY DEF Init, SentOK, DivergenceIsParked, NoOrder, Keys
<1>5. FundingOK
  BY DEF Init, FundingOK, Before, Outstanding
<1>6. QED
  BY <1>2, <1>3, <1>4, <1>5 DEF CarryInv

(* Rounding down to the amount step never asks for more.                    *)
LEMMA RoundsDown ==
  ASSUME NEW a \in Nat, NEW l \in Nat \ {0}
  PROVE  l * (a \div l) \in Nat /\ l * (a \div l) <= a
OBVIOUS

LEMMA ExecutableBounds ==
  ASSUME TypeOK, pair \in Assets
  PROVE  /\ Rounded \in Nat /\ Rounded <= ask
         /\ Executable \in Nat /\ Executable <= ask
<1>1. Lot[market] \in Nat \ {0} /\ ask \in Nat
  BY CarryCycleAssumption DEF TypeOK
<1>2. Rounded \in Nat /\ Rounded <= ask
  BY <1>1, RoundsDown DEF Rounded
<1>3. venue[pair][market] \in Int /\ Direction \in {1, -1}
  BY DEF TypeOK, Direction
<1>4. Reducible \in Nat
  BY <1>3 DEF Reducible
<1>5. Executable = Rounded \/ (Executable = Reducible /\ Reducible < Rounded)
  BY Zenon DEF Executable
<1>6. QED
  BY <1>1, <1>2, <1>4, <1>5

(* The end of a run, however it came: what is not settled is kept.          *)
LEMMA RunEnds ==
  ASSUME CarryInv, NEW ended \in [Keys -> OrderRow], EndRun(ended),
         \A key \in Keys : /\ ended[key].status # "intent"
                           /\ ended[key].status \in Unsettled <=> IsUnsettled(key),
         UNCHANGED <<now, accrued, quiet, book, venue, working>>,
         boundary' = boundary \/ (boundary' = asOf /\ pc \notin Before)
  PROVE  CarryInv'
<1>1. /\ FlatLegs \in [Markets -> Nat] /\ FlatLegs \in [Markets -> Int]
      /\ NoOrder \in OrderRow /\ NoOrder.status = "absent"
      /\ NoAnswer \in [kind : Doubts \cup {"fill", "none"}, units : Nat,
                       partial : BOOLEAN]
  BY DEF FlatLegs, NoOrder, OrderRow, NoAnswer
<1>2. /\ orders' \in [Keys -> OrderRow]
      /\ \A key \in Keys : /\ orders'[key].status # "intent"
                           /\ IsUnsettled(key)' <=> IsUnsettled(key)
  BY <1>1 DEF EndRun, Kept, IsUnsettled, Unsettled
<1>3. /\ pc' = "idle" /\ mode' = "cycle" /\ asOf' = 0
      /\ legs' = [a \in Assets |-> FlatLegs] /\ due' = {} /\ complete' = TRUE
      /\ exits' = {} /\ entries' = {}
      /\ pair' = None /\ role' = "open" /\ unwinding' = FALSE
      /\ market' = "perp" /\ ask' = 0 /\ got' = FlatLegs /\ answer' = NoAnswer
  BY DEF EndRun, NoTrade
<1>4. StoreTypes' /\ PlanTypes' /\ TradeTypes'
  <2>1. StoreTypes'
    BY <1>2, TypeParts DEF CarryInv, StoreTypes, PlanTypes
  <2>2. PlanTypes'
    BY <1>1, <1>3, CarryCycleAssumption DEF PlanTypes, PCs, Modes
  <2>3. TradeTypes'
    BY <1>1, <1>3 DEF TradeTypes, OnLeg, Markets
  <2>4. QED
    BY <2>1, <2>2, <2>3
<1>5. PlanOK' /\ PairOK'
  BY <1>3 DEF PlanOK, PairOK, Trading, OnLeg
<1>6. SentOK' /\ DivergenceIsParked'
  BY <1>2, <1>3 DEF CarryInv, SentOK, DivergenceIsParked, Keys
<1>7. FundingOK'
  <2>1. Outstanding' = Outstanding
    BY DEF Outstanding, Credited
  <2>2. ASSUME NEW s \in Outstanding
        PROVE  /\ boundary' < s[2] /\ IsPair(book[s[1]])
               /\ \A m \in Markets, r \in Roles : ~IsUnsettled(<<s[1], m, r>>)
    <3>1. pc \in Before
      BY <2>2 DEF CarryInv, FundingOK
    <3>2. QED
      BY <2>2, <3>1 DEF CarryInv, FundingOK
  <2>3. \A s \in Outstanding, m \in Markets, r \in Roles : <<s[1], m, r>> \in Keys
    BY DEF Outstanding, CarryInv, TypeOK, Keys
  <2>4. boundary' <= now' /\ asOf' <= now'
    BY <1>3 DEF CarryInv, FundingOK, TypeOK
  <2>5. QED
    BY <1>2, <1>3, <2>1, <2>2, <2>3, <2>4 DEF CarryInv, FundingOK, Before
<1>8. TypeOK'
  BY <1>4 DEF TypeOK, StoreTypes, PlanTypes, TradeTypes, OnLeg
<1>9. QED
  BY <1>5, <1>6, <1>7, <1>8 DEF CarryInv

(* Steps that move no book, no order and no funding.                        *)
LEMMA HoldingStays ==
  ASSUME CarryInv, UNCHANGED holding, pc' \notin {"sending", "answered"}
  PROVE  SentOK' /\ DivergenceIsParked'
<1>1. \A key \in Keys : IsUnsettled(key)' = IsUnsettled(key)
  BY DEF holding, IsUnsettled
<1>2. DivergenceIsParked'
  BY <1>1 DEF holding, CarryInv, DivergenceIsParked, Keys
<1>3. SentOK'
  BY DEF holding, CarryInv, SentOK
<1>4. QED
  BY <1>2, <1>3

LEMMA FundingSettled ==
  ASSUME CarryInv, pc \notin Before, pc' \notin Before,
         UNCHANGED outside, UNCHANGED asOf
  PROVE  FundingOK'
<1>1. Outstanding' = Outstanding
  BY DEF Outstanding, Credited, outside
<1>2. pc' \notin {"idle", "applying"} /\ pc # "idle"
  BY DEF Before
<1>3. QED
  BY <1>1, <1>2 DEF CarryInv, FundingOK, outside

LEMMA FundingWaits ==
  ASSUME CarryInv, pc \in Before, pc' \in Before \ {"applying"},
         UNCHANGED outside, UNCHANGED holding,
         asOf' = IF pc = "idle" THEN now ELSE asOf, pc' # "idle"
  PROVE  FundingOK'
<1>1. Outstanding' = Outstanding
  BY DEF Outstanding, Credited, outside
<1>2. \A key \in Keys : IsUnsettled(key)' = IsUnsettled(key)
  BY DEF holding, IsUnsettled
<1>3. \A s \in Outstanding, m \in Markets, r \in Roles : <<s[1], m, r>> \in Keys
  BY DEF Outstanding, CarryInv, TypeOK, Keys
<1>4. now \in 0..Horizon
  BY DEF CarryInv, TypeOK
<1>5. /\ boundary' <= now' /\ asOf' <= now'
      /\ \A s \in quiet : s[2] <= now /\ s[2] <= asOf'
  BY <1>4 DEF CarryInv, FundingOK, outside
<1>6. pc' # "applying" /\ pc' \in Before
  OBVIOUS
<1>7. \A s \in Outstanding' :
        /\ boundary' < s[2] /\ IsPair(book'[s[1]])
        /\ \A m \in Markets, r \in Roles : ~IsUnsettled(<<s[1], m, r>>)'
  BY <1>1, <1>2, <1>3 DEF CarryInv, FundingOK, outside, holding
<1>8. QED
  BY <1>5, <1>6, <1>7 DEF CarryInv, FundingOK, outside

(* The run up to its trading.                                               *)
LEMMA RunBegins ==
  ASSUME CarryInv, BeginCycle \/ BeginWindDown
  PROVE  CarryInv'
<1>1. /\ pc = "idle" /\ pc' = "begun" /\ mode' \in Modes /\ asOf' = now
      /\ UNCHANGED <<outside, holding, legs, due, complete, exits, entries, trade>>
  BY DEF BeginCycle, BeginWindDown, Modes
<1>2. TypeOK'
  <2>1. StoreTypes'
    BY <1>1, TypeParts DEF CarryInv, StoreTypes, outside, holding
  <2>2. PlanTypes'
    BY <1>1, TypeParts DEF CarryInv, StoreTypes, PlanTypes, PCs, trade
  <2>3. TradeTypes'
    BY <1>1, TypeParts DEF CarryInv, TradeTypes, OnLeg, trade
  <2>4. QED
    BY <2>1, <2>2, <2>3 DEF TypeOK, StoreTypes, PlanTypes, TradeTypes, OnLeg
<1>3. PlanOK' /\ PairOK'
  BY <1>1 DEF CarryInv, PlanOK, PairOK, Trading, OnLeg, holding, trade, Held
<1>4. SentOK' /\ DivergenceIsParked'
  BY <1>1, HoldingStays
<1>5. FundingOK'
  BY <1>1, FundingWaits DEF Before
<1>6. QED
  BY <1>2, <1>3, <1>4, <1>5 DEF CarryInv

LEMMA RunRecorded ==
  ASSUME CarryInv, NEW settled \in BOOLEAN, Record(settled),
         settled = TRUE /\ mode = "cycle" => pc \notin Before
  PROVE  CarryInv'
<1>1. /\ boundary' = boundary \/ (boundary' = asOf /\ pc \notin Before)
      /\ EndRun(orders)
      /\ UNCHANGED <<now, accrued, quiet, book, venue, working>>
  BY DEF Record
<1>2. \A key \in Keys : /\ orders[key].status # "intent"
                        /\ orders[key].status \in Unsettled <=> IsUnsettled(key)
  BY DEF CarryInv, SentOK, IsUnsettled
<1>3. orders \in [Keys -> OrderRow]
  BY DEF CarryInv, TypeOK
<1>4. QED
  BY <1>1, <1>2, <1>3, RunEnds

LEMMA BookLoaded ==
  ASSUME CarryInv, LoadBook
  PROVE  CarryInv'
<1>1. CASE Record(FALSE)
  BY <1>1, RunRecorded
<1>2. CASE /\ \A a \in Assets : Matched(book[a])
           /\ legs' = book
           /\ pc' = IF mode = "cycle" THEN "loaded" ELSE "owed"
           /\ UNCHANGED <<outside, holding, mode, asOf, due, complete, exits,
                          entries, trade>>
  <2>1. pc = "begun" /\ pc' \in {"loaded", "owed"}
    BY <1>2 DEF LoadBook
  <2>2. TypeOK'
    <3>1. StoreTypes'
      BY <1>2, TypeParts DEF CarryInv, StoreTypes, outside, holding
    <3>2. PlanTypes'
      BY <1>2, <2>1, TypeParts DEF CarryInv, StoreTypes, PlanTypes, PCs, trade
    <3>3. TradeTypes'
      BY <1>2, <2>1, TypeParts DEF CarryInv, TradeTypes, OnLeg, trade
    <3>4. QED
      BY <3>1, <3>2, <3>3 DEF TypeOK, StoreTypes, PlanTypes, TradeTypes, OnLeg
  <2>3. exits = {} /\ entries = {}
    BY <2>1 DEF CarryInv, PlanOK, Trading, OnLeg
  <2>4. PlanOK' /\ PairOK'
    BY <1>2, <2>1, <2>3 DEF CarryInv, PlanOK, PairOK, Trading, OnLeg, holding, trade
  <2>5. SentOK' /\ DivergenceIsParked'
    BY <1>2, <2>1, HoldingStays
  <2>6. FundingOK'
    BY <1>2, <2>1, FundingWaits DEF Before
  <2>7. QED
    BY <2>2, <2>4, <2>5, <2>6 DEF CarryInv
<1>3. QED
  BY <1>1, <1>2 DEF LoadBook

LEMMA Reconciles ==
  ASSUME CarryInv, ReconcilePasses
  PROVE  CarryInv'
<1>1. /\ pc = "loaded" /\ pc' = "owed"
      /\ UNCHANGED <<outside, holding, plan, exits, entries, trade>>
  BY DEF ReconcilePasses
<1>2. TypeOK'
  <2>1. StoreTypes'
    BY <1>1, TypeParts DEF CarryInv, StoreTypes, outside, holding
  <2>2. PlanTypes'
    BY <1>1, TypeParts DEF CarryInv, PlanTypes, PCs, plan, trade
  <2>3. TradeTypes'
    BY <1>1, TypeParts DEF CarryInv, TradeTypes, OnLeg, trade
  <2>4. QED
    BY <2>1, <2>2, <2>3 DEF TypeOK, StoreTypes, PlanTypes, TradeTypes, OnLeg
<1>3. PlanOK' /\ PairOK'
  BY <1>1 DEF CarryInv, PlanOK, PairOK, Trading, OnLeg, holding, plan, trade, Held
<1>4. SentOK' /\ DivergenceIsParked'
  BY <1>1, HoldingStays
<1>5. FundingOK'
  BY <1>1, FundingWaits DEF Before, plan
<1>6. QED
  BY <1>2, <1>3, <1>4, <1>5 DEF CarryInv

(* What is outstanding when the run values settlements is among those it    *)
(* values: the pair is still in the book it loaded.                         *)
LEMMA OutstandingIsOwed ==
  ASSUME CarryInv, pc = "owed"
  PROVE  Outstanding \subseteq Owed
<1> SUFFICES ASSUME NEW s \in Outstanding PROVE s \in Owed
  OBVIOUS
<1>1. s \in Assets \X Times /\ s \in quiet
  BY DEF Outstanding, CarryInv, TypeOK
<1>2. boundary < s[2] /\ IsPair(legs[s[1]]) /\ s[2] <= asOf
  BY <1>1 DEF CarryInv, FundingOK, PlanOK, Before
<1>3. QED
  BY <1>1, <1>2 DEF Owed, Held

LEMMA SettlementsValued ==
  ASSUME CarryInv, ValueSettlements
  PROVE  CarryInv'
<1>1. CASE mode = "cycle" /\ Record(FALSE)
  BY <1>1, RunRecorded
<1>2. ASSUME pc = "owed", pc' = "applying", due' \subseteq Owed,
             quiet' = quiet \ (Owed \ due'), complete' \in BOOLEAN,
             UNCHANGED <<now, boundary, accrued, holding, mode, asOf, legs,
                         exits, entries, trade>>
      PROVE  CarryInv'
  <2>1. Owed \subseteq Assets \X Times
    BY DEF Owed, Held
  <2>2. TypeOK'
    <3>1. StoreTypes'
      BY <1>2, TypeParts DEF CarryInv, StoreTypes, holding
    <3>2. PlanTypes'
      BY <1>2, <2>1, TypeParts DEF CarryInv, PlanTypes, PCs, trade
    <3>3. TradeTypes'
      BY <1>2, TypeParts DEF CarryInv, TradeTypes, OnLeg, trade
    <3>4. QED
      BY <3>1, <3>2, <3>3 DEF TypeOK, StoreTypes, PlanTypes, TradeTypes, OnLeg
  <2>3. PlanOK' /\ PairOK'
    BY <1>2 DEF CarryInv, PlanOK, PairOK, Trading, OnLeg, holding, trade, Held
  <2>4. SentOK' /\ DivergenceIsParked'
    BY <1>2, HoldingStays
  <2>5. Outstanding' = Outstanding \ (Owed \ due')
    BY <1>2 DEF Outstanding, Credited
  <2>6. Outstanding' \subseteq due' /\ Outstanding' \subseteq Outstanding
    BY <1>2, <2>5, OutstandingIsOwed
  <2>7. \A s \in due' : s[1] \in Held(legs)' /\ boundary' < s[2]
    BY <1>2 DEF Owed, Held
  <2>8. \A key \in Keys : IsUnsettled(key)' = IsUnsettled(key)
    BY <1>2 DEF holding, IsUnsettled
  <2>9. \A s \in Outstanding, m \in Markets, r \in Roles : <<s[1], m, r>> \in Keys
    BY DEF Outstanding, CarryInv, TypeOK, Keys
  <2>10. \A s \in Outstanding' :
           /\ boundary' < s[2] /\ IsPair(book'[s[1]])
           /\ \A m \in Markets, r \in Roles : ~IsUnsettled(<<s[1], m, r>>)'
    BY <1>2, <2>6, <2>8, <2>9 DEF CarryInv, FundingOK, holding, Before
  <2>11. FundingOK'
    BY <1>2, <2>6, <2>7, <2>10 DEF CarryInv, FundingOK, Before
  <2>12. QED
    BY <2>2, <2>3, <2>4, <2>11 DEF CarryInv
<1>3. pc = "owed"
  BY DEF ValueSettlements
<1>4. CASE /\ due' = Owed
           /\ pc' = "applying"
           /\ UNCHANGED <<outside, holding, mode, asOf, legs, complete, exits,
                          entries, trade>>
  <2>1. complete' \in BOOLEAN
    BY <1>4 DEF CarryInv, TypeOK
  <2>2. quiet' = quiet \ (Owed \ due')
    BY <1>4 DEF outside
  <2>3. QED
    BY <1>2, <1>3, <1>4, <2>1, <2>2 DEF outside
<1>5. ASSUME NEW marked \in SUBSET Owed, due' = marked,
             quiet' = quiet \ (Owed \ marked), complete' = FALSE, pc' = "applying",
             UNCHANGED <<now, boundary, accrued, holding, mode, asOf, legs,
                         exits, entries, trade>>
      PROVE  CarryInv'
  BY <1>2, <1>3, <1>5
<1>6. QED
  BY <1>1, <1>4, <1>5 DEF ValueSettlements

LEMMA FundingIsApplied ==
  ASSUME CarryInv, ApplyFunding
  PROVE  CarryInv'
<1>1. PICK s \in due :
        /\ due' = due \ {s}
        /\ accrued' = [accrued EXCEPT ![s] =
                         IF @ = None THEN -book[s[1]]["perp"] ELSE @]
        /\ complete' = (complete /\ ~(mode = "cycle" /\ accrued[s] = None
                                        /\ book[s[1]]["perp"] = 0))
  BY Zenon DEF ApplyFunding
<1>2. /\ pc = "applying"
      /\ UNCHANGED <<now, boundary, quiet, holding, pc, mode,
                     asOf, legs, exits, entries, trade>>
  BY DEF ApplyFunding
<1>3. complete' \in BOOLEAN
  BY <1>1, Zenon
<1>4. s \in Assets \X Times /\ s[1] \in Assets
  BY DEF CarryInv, TypeOK
<1>5. IsPair(legs[s[1]]) /\ book = legs
  BY <1>2 DEF CarryInv, FundingOK, PlanOK, Held
<1>6. book[s[1]]["perp"] \in Int /\ -book[s[1]]["perp"] > 0
  BY <1>4, <1>5 DEF IsPair, CarryInv, TypeOK, Markets
<1>7. /\ accrued' \in [Assets \X Times -> Int \cup {None}]
      /\ \A t \in Assets \X Times : t # s => accrued'[t] = accrued[t]
      /\ accrued'[s] # None /\ accrued'[s] > 0
  BY <1>1, <1>4, <1>6, CarryCycleAssumption DEF CarryInv, TypeOK, FundingOK
<1>8. TypeOK'
  <2>1. StoreTypes'
    BY <1>2, <1>7, TypeParts DEF CarryInv, StoreTypes, holding
  <2>2. PlanTypes'
    BY <1>1, <1>2, <1>3, TypeParts DEF CarryInv, PlanTypes, PCs, trade
  <2>3. TradeTypes'
    BY <1>2, TypeParts DEF CarryInv, TradeTypes, OnLeg, trade
  <2>4. QED
    BY <2>1, <2>2, <2>3 DEF TypeOK, StoreTypes, PlanTypes, TradeTypes, OnLeg
<1>9. PlanOK' /\ PairOK'
  BY <1>2 DEF CarryInv, PlanOK, PairOK, Trading, OnLeg, holding, trade, Held
<1>10. SentOK' /\ DivergenceIsParked'
  BY <1>2, HoldingStays
<1>11. FundingOK'
  <2>1. Outstanding' \subseteq Outstanding \ {s}
    BY <1>2, <1>4, <1>7 DEF Outstanding, Credited, CarryInv, TypeOK
  <2>2. \A key \in Keys : IsUnsettled(key)' = IsUnsettled(key)
    BY <1>2 DEF holding, IsUnsettled
  <2>3. \A t \in Outstanding, m \in Markets, r \in Roles : <<t[1], m, r>> \in Keys
    BY DEF Outstanding, CarryInv, TypeOK, Keys
  <2>4. \A t \in Outstanding' :
          /\ boundary' < t[2] /\ IsPair(book'[t[1]])
          /\ \A m \in Markets, r \in Roles : ~IsUnsettled(<<t[1], m, r>>)'
    BY <1>2, <2>1, <2>2, <2>3 DEF CarryInv, FundingOK, holding, Before
  <2>5. \A t \in due' : t[1] \in Held(legs)' /\ boundary' < t[2]
    BY <1>1, <1>2 DEF CarryInv, FundingOK, Held
  <2>6. Outstanding' \subseteq due'
    BY <1>1, <1>2, <2>1 DEF CarryInv, FundingOK
  <2>7. \A t \in Assets \X Times : accrued'[t] # None => accrued'[t] > 0
    BY <1>4, <1>7 DEF CarryInv, FundingOK
  <2>8. QED
    BY <1>2, <2>4, <2>5, <2>6, <2>7 DEF CarryInv, FundingOK, Before
<1>12. QED
  BY <1>8, <1>9, <1>10, <1>11 DEF CarryInv

(* A run that trades, or is about to, leaves what outlives it to its orders.*)
LEMMA StoreStays ==
  ASSUME CarryInv, UNCHANGED outside, UNCHANGED holding
  PROVE  StoreTypes'
BY TypeParts DEF CarryInv, StoreTypes, outside, holding

LEMMA Typed ==
  ASSUME StoreTypes', PlanTypes', TradeTypes'
  PROVE  TypeOK'
BY DEF TypeOK, StoreTypes, PlanTypes, TradeTypes, OnLeg

LEMMA AllApplied ==
  ASSUME CarryInv, FundingApplied
  PROVE  CarryInv'
<1>1. CASE Record(FALSE)
  BY <1>1, RunRecorded
<1>2. ASSUME pc = "applying", due = {}, pc' \in {"selecting", "trading"},
             exits' \subseteq Held(legs), pc' = "selecting" => exits' = {},
             UNCHANGED <<outside, holding, plan, entries, trade>>
      PROVE  CarryInv'
  <2>1. entries = {} /\ pair = None /\ book = legs /\ Held(legs) \subseteq Assets
    BY <1>2 DEF CarryInv, PlanOK, PairOK, Trading, OnLeg, Held
  <2>2. PlanTypes'
    BY <1>2, <2>1, TypeParts, CarryCycleAssumption
       DEF CarryInv, PlanTypes, PCs, plan, trade
  <2>3. TradeTypes'
    BY <1>2, TypeParts DEF CarryInv, TradeTypes, OnLeg, trade
  <2>4. TypeOK'
    BY <1>2, <2>2, <2>3, StoreStays, Typed
  <2>5. PlanOK'
    BY <1>2, <2>1 DEF CarryInv, PlanOK, Trading, OnLeg, holding, plan, Held
  <2>6. PairOK'
    BY <1>2, <2>1 DEF CarryInv, PlanOK, PairOK, OnLeg, holding, trade
  <2>7. SentOK' /\ DivergenceIsParked'
    BY <1>2, HoldingStays
  <2>8. Outstanding' = {}
    BY <1>2 DEF CarryInv, FundingOK, Outstanding, Credited, outside
  <2>9. FundingOK'
    BY <1>2, <2>8 DEF CarryInv, FundingOK, outside, plan
  <2>10. QED
    BY <2>4, <2>5, <2>6, <2>7, <2>9 DEF CarryInv
<1>3. CASE ~Record(FALSE)
  <2>1. /\ pc = "applying" /\ due = {}
        /\ pc' = IF mode = "cycle" THEN "selecting" ELSE "trading"
        /\ exits' \in IF mode = "cycle" THEN {{}} ELSE SUBSET Held(legs)
        /\ UNCHANGED <<outside, holding, plan, entries, trade>>
    BY <1>3 DEF FundingApplied
  <2>2. /\ pc' \in {"selecting", "trading"} /\ exits' \subseteq Held(legs)
        /\ pc' = "selecting" => exits' = {}
    BY <2>1
  <2>3. QED
    BY <1>2, <2>1, <2>2
<1>4. QED
  BY <1>1, <1>3

LEMMA NamesSelected ==
  ASSUME CarryInv, Select
  PROVE  CarryInv'
<1>1. pc = "selecting" /\ pc \notin Before
  BY DEF Select, Before
<1>2. CASE Record(TRUE)
  BY <1>1, <1>2, RunRecorded
<1>3. CASE EndRun(orders) /\ UNCHANGED <<outside, book, venue, working>>
  <2>1. \A key \in Keys : /\ orders[key].status # "intent"
                          /\ orders[key].status \in Unsettled <=> IsUnsettled(key)
    BY DEF CarryInv, SentOK, IsUnsettled
  <2>2. orders \in [Keys -> OrderRow]
    BY DEF CarryInv, TypeOK
  <2>3. QED
    BY <1>3, <2>1, <2>2, RunEnds DEF outside
<1>4. CASE /\ exits' \in SUBSET Held(legs)
           /\ entries' \in SUBSET (Assets \ Held(legs))
           /\ pc' = "trading"
           /\ UNCHANGED <<outside, holding, plan, trade>>
  <2>1. pair = None /\ book = legs /\ Held(legs) \subseteq Assets
    BY <1>1 DEF CarryInv, PlanOK, PairOK, OnLeg, Held
  <2>2. PlanTypes'
    BY <1>4, <2>1, TypeParts, CarryCycleAssumption
       DEF CarryInv, PlanTypes, PCs, plan, trade
  <2>3. TradeTypes'
    BY <1>4, TypeParts DEF CarryInv, TradeTypes, OnLeg, trade
  <2>4. TypeOK'
    BY <1>4, <2>2, <2>3, StoreStays, Typed
  <2>5. PlanOK'
    BY <1>1, <1>4, <2>1 DEF CarryInv, PlanOK, Trading, OnLeg, holding, plan, Held
  <2>6. PairOK'
    BY <1>1, <1>4, <2>1 DEF CarryInv, PlanOK, PairOK, OnLeg, holding, trade
  <2>7. SentOK' /\ DivergenceIsParked'
    BY <1>4, HoldingStays
  <2>8. FundingOK'
    BY <1>1, <1>4, FundingSettled DEF Before, plan
  <2>9. QED
    BY <2>4, <2>5, <2>6, <2>7, <2>8 DEF CarryInv
<1>5. QED
  BY <1>2, <1>3, <1>4 DEF Select

--------------------------------------------------------------------------------
(* The trading: pair by pair, leg by leg.                                   *)
LEMMA PairStarted ==
  ASSUME CarryInv, StartPair
  PROVE  CarryInv'
<1>1. PICK a \in NamesNext :
        /\ exits' = exits \ {a} /\ entries' = entries \ {a}
        /\ pair' = a
        /\ role' = IF a \in exits THEN "close" ELSE "open"
        /\ ask' = IF a \in exits THEN -legs[a]["perp"] ELSE PairSize
  BY DEF StartPair
<1>2. /\ pc = "trading" /\ pc' = "leg"
      /\ market' = "perp" /\ unwinding' = FALSE /\ got' = FlatLegs
      /\ UNCHANGED <<outside, holding, plan, answer>>
  BY DEF StartPair
<1>3. /\ a \in exits \cup entries /\ a \in Assets
      /\ a \in exits <=> a \in Held(legs)
      /\ book[a] = legs[a]
  BY DEF NamesNext, CarryInv, TypeOK, PlanOK
<1>4. ask' \in Nat /\ ask' > 0
  <2>1. CASE a \in exits
    <3>1. IsPair(legs[a]) /\ legs[a] \in [Markets -> Int]
      BY <1>3, <2>1 DEF Held, CarryInv, TypeOK
    <3>2. legs[a]["perp"] \in Int /\ legs[a]["spot"] \in Int
      BY <3>1 DEF Markets
    <3>3. QED
      BY <1>1, <2>1, <3>1, <3>2 DEF IsPair
  <2>2. CASE a \notin exits
    BY <1>1, <2>2, CarryCycleAssumption
  <2>3. QED
    BY <2>1, <2>2
<1>5. FlatLegs \in [Markets -> Nat] /\ got'["perp"] = 0 /\ got'["spot"] = 0
  BY <1>2 DEF FlatLegs, Markets
<1>6. PlanTypes'
  BY <1>1, <1>2, <1>3, TypeParts DEF CarryInv, PlanTypes, PCs, plan
<1>7. TradeTypes'
  BY <1>1, <1>2, <1>3, <1>4, <1>5, TypeParts DEF CarryInv, TradeTypes, Markets
<1>8. TypeOK'
  BY <1>2, <1>6, <1>7, StoreStays, Typed
<1>9. PlanOK'
  BY <1>1, <1>2 DEF CarryInv, PlanOK, Trading, OnLeg, holding, plan, Held
<1>10. PairOK'
  <2>1. role' = "close" <=> pair' \in Held(legs)'
    BY <1>1, <1>2, <1>3 DEF plan, Held
  <2>2. \A m \in Markets : book'[pair'][m] = legs'[pair'][m] /\ got'[m] = 0
                           /\ legs'[pair'][m] \in Int /\ TakenBack(m)' = 0
    BY <1>1, <1>2, <1>3, <1>5 DEF plan, holding, CarryInv, TypeOK, TakenBack, Markets
  <2>3. \A m \in Markets : LegMoved(m)'
    BY <2>2 DEF LegMoved
  <2>4. \A b \in Assets \ {pair'} : Matched(book'[b])
    BY <1>2, CarryCycleAssumption
       DEF CarryInv, PairOK, Trading, OnLeg, holding
  <2>5. QED
    BY <1>2, <1>5, <2>1, <2>3, <2>4 DEF PairOK, OnLeg
<1>11. SentOK' /\ DivergenceIsParked'
  BY <1>2, HoldingStays
<1>12. FundingOK'
  BY <1>2, FundingSettled DEF Before, plan
<1>13. QED
  BY <1>8, <1>9, <1>10, <1>11, <1>12 DEF CarryInv

(* The run turns to the next name, or to its end, with all it holds where   *)
(* the book says: nothing is in hand any more.                              *)
LEMMA PairLeft ==
  ASSUME CarryInv, pc \in Trading, pc' \in {"trading", "closing"},
         UNCHANGED <<outside, holding, plan>>,
         \/ UNCHANGED <<exits, entries>> /\ pc' = "trading"
         \/ exits' = {} /\ entries' = {} /\ pc' = "closing",
         NoTrade \/ (pair = None /\ UNCHANGED trade),
         pc' = "trading" => \A a \in Assets : Matched(book[a])
  PROVE  CarryInv'
<1>1. /\ NoAnswer \in [kind : Doubts \cup {"fill", "none"}, units : Nat,
                       partial : BOOLEAN]
      /\ FlatLegs \in [Markets -> Nat]
  BY DEF NoAnswer, FlatLegs
<1>2. pair' = None
  BY DEF NoTrade, trade
<1>3. PlanTypes'
  BY <1>2, TypeParts, CarryCycleAssumption DEF CarryInv, PlanTypes, PCs, plan
<1>4. TradeTypes'
  <2>1. CASE NoTrade
    BY <1>1, <2>1 DEF NoTrade, TradeTypes, OnLeg, Markets
  <2>2. CASE UNCHANGED trade
    BY <2>2, TypeParts DEF CarryInv, TradeTypes, OnLeg, trade
  <2>3. QED
    BY <2>1, <2>2
<1>5. TypeOK'
  BY <1>3, <1>4, StoreStays, Typed
<1>6. PlanOK'
  BY DEF CarryInv, PlanOK, Trading, OnLeg, holding, plan, Held
<1>7. PairOK'
  BY <1>2 DEF PairOK, Trading, OnLeg, holding
<1>8. SentOK' /\ DivergenceIsParked'
  BY HoldingStays
<1>9. FundingOK'
  BY FundingSettled DEF Before, Trading, OnLeg, plan
<1>10. QED
  BY <1>5, <1>6, <1>7, <1>8, <1>9 DEF CarryInv

LEMMA AllTraded ==
  ASSUME CarryInv, NamesDone
  PROVE  CarryInv'
<1>1. exits = {} /\ entries = {} /\ pc = "trading" /\ pair = None
  BY DEF NamesDone, NamesNext, CarryInv, PairOK, OnLeg
<1>2. QED
  BY <1>1, PairLeft DEF NamesDone, Trading

LEMMA UnwindHalts ==
  ASSUME CarryInv, UnwindFails
  PROVE  CarryInv'
BY PairLeft DEF UnwindFails, Trading, OnLeg

(* A pair whose legs came back whole and alike is one, or is gone.          *)
LEMMA Balances ==
  ASSUME CarryInv, PairBalances
  PROVE  CarryInv'
<1>1. /\ pc = "weighed" /\ ~unwinding /\ market = "spot" /\ Neutral /\ FilledWhole
      /\ pc' = "trading" /\ NoTrade
      /\ UNCHANGED <<outside, holding, plan, exits, entries>>
  BY DEF PairBalances, PairTraded
<1>2. /\ pair \in Assets /\ role \in {"open", "close"}
      /\ got["spot"] \in Nat /\ got["perp"] \in Nat /\ got["spot"] > 0
      /\ \A m \in Markets : legs[pair][m] \in Int
  BY <1>1 DEF CarryInv, TypeOK, PairOK, OnLeg, FilledWhole, Markets
<1>3. \A m \in Markets : TakenBack(m) = 0
  BY <1>1 DEF TakenBack
<1>4. /\ book[pair]["spot"] = IF role = "open" THEN legs[pair]["spot"] + got["spot"]
                              ELSE legs[pair]["spot"] - got["spot"]
      /\ book[pair]["perp"] = IF role = "open" THEN legs[pair]["perp"] - got["perp"]
                              ELSE legs[pair]["perp"] + got["perp"]
  <2>1. LegMoved("spot") /\ LegMoved("perp")
    BY <1>1 DEF CarryInv, PairOK, OnLeg, Markets
  <2>2. TakenBack("spot") = 0 /\ TakenBack("perp") = 0
    BY <1>3 DEF Markets
  <2>3. got["spot"] - 0 = got["spot"] /\ got["perp"] - 0 = got["perp"]
    BY <1>2
  <2>4. QED
    BY <1>2, <2>1, <2>2, <2>3 DEF LegMoved
<1>5. Matched(book[pair])
  <2>1. CASE role = "open"
    <3>1. legs[pair] = FlatLegs
      BY <1>1, <1>2, <2>1
         DEF CarryInv, PlanOK, PairOK, OnLeg, Matched, IsFlat, IsPair, Held
    <3>2. legs[pair]["spot"] = 0 /\ legs[pair]["perp"] = 0
      BY <3>1 DEF FlatLegs, Markets
    <3>3. QED
      BY <1>1, <1>2, <1>4, <2>1, <3>2 DEF Matched, IsPair, Neutral
  <2>2. CASE role = "close"
    <3>1. book[pair]["spot"] = 0 /\ book[pair]["perp"] = 0
      BY <1>1, <1>2, <1>4, <2>2 DEF Neutral, Markets
    <3>2. book[pair] \in [Markets -> Int]
      BY <1>2 DEF CarryInv, TypeOK
    <3>3. book[pair] = FlatLegs
      BY <3>1, <3>2 DEF FlatLegs, Markets
    <3>4. QED
      BY <3>3 DEF Matched, IsFlat
  <2>3. QED
    BY <1>2, <2>1, <2>2
<1>6. \A a \in Assets : Matched(book[a])
  BY <1>1, <1>5 DEF CarryInv, PairOK, Trading, OnLeg
<1>7. QED
  BY <1>1, <1>6, PairLeft DEF Trading, OnLeg

(* The next leg of the pair in hand.                                        *)
LEMMA NextLeg ==
  ASSUME CarryInv, pc = "weighed", pc' = "leg",
         UNCHANGED <<outside, holding, plan, exits, entries, pair, role, got, answer>>,
         market' \in Markets, unwinding' \in BOOLEAN, ask' \in Nat, ask' > 0,
         \A m \in Markets : LegMoved(m)',
         unwinding' => ask' = got[market'],
         ~unwinding' => market' = "spot" /\ got["spot"] = 0 /\ got["perp"] > 0
  PROVE  CarryInv'
<1>1. PlanTypes'
  BY TypeParts DEF CarryInv, PlanTypes, PCs, plan
<1>2. TradeTypes'
  BY TypeParts DEF CarryInv, TradeTypes, OnLeg
<1>3. TypeOK'
  BY <1>1, <1>2, StoreStays, Typed
<1>4. PlanOK'
  BY DEF CarryInv, PlanOK, Trading, OnLeg, holding, plan, Held
<1>5. PairOK'
  <2>1. role' = "close" <=> pair' \in Held(legs)'
    BY DEF CarryInv, PairOK, OnLeg, plan, Held
  <2>2. \A a \in Assets \ {pair'} : Matched(book'[a])
    BY DEF CarryInv, PairOK, Trading, OnLeg, holding
  <2>3. QED
    BY <2>1, <2>2 DEF PairOK, OnLeg
<1>6. SentOK' /\ DivergenceIsParked'
  BY HoldingStays
<1>7. FundingOK'
  BY FundingSettled DEF Before, plan
<1>8. QED
  BY <1>3, <1>4, <1>5, <1>6, <1>7 DEF CarryInv

(* A pair none of whose fills is left is where the run found it.            *)
LEMMA BackWhereItWas ==
  ASSUME CarryInv, pc \in OnLeg, \A m \in Markets : TakenBack(m) = got[m]
  PROVE  \A a \in Assets : Matched(book[a])
<1>1. /\ pair \in Assets /\ book[pair] \in [Markets -> Int]
      /\ legs[pair] \in [Markets -> Int] /\ got \in [Markets -> Nat]
  BY DEF CarryInv, TypeOK, OnLeg
<1>2. \A m \in Markets : LegMoved(m)
  BY DEF CarryInv, PairOK
<1>3. \A m \in Markets : book[pair][m] = legs[pair][m]
  BY <1>1, <1>2 DEF LegMoved
<1>4. book[pair] = legs[pair]
  BY <1>1, <1>3
<1>5. Matched(book[pair])
  BY <1>1, <1>4 DEF CarryInv, PlanOK, OnLeg
<1>6. QED
  BY <1>5 DEF CarryInv, PairOK, Trading

LEMMA SecondLeg ==
  ASSUME CarryInv, SpotFollows
  PROVE  CarryInv'
<1>1. /\ pc = "weighed" /\ ~unwinding /\ answer.units > 0 /\ market = "perp"
      /\ market' = "spot" /\ pc' = "leg"
      /\ ask' = IF role = "open" THEN answer.units ELSE legs[pair]["spot"]
      /\ UNCHANGED <<outside, holding, plan, exits, entries, pair, role, unwinding,
                     got, answer>>
  BY DEF SpotFollows, FilledWhole
<1>2. /\ pair \in Assets /\ unwinding \in BOOLEAN /\ role \in {"open", "close"}
      /\ answer.units \in Nat /\ legs[pair]["spot"] \in Int
      /\ got["perp"] = answer.units /\ got["spot"] = 0
  BY <1>1 DEF CarryInv, TypeOK, PairOK, OnLeg, Markets
<1>3. ask' \in Nat /\ ask' > 0
  <2>1. role = "close" => legs[pair]["spot"] > 0
    BY <1>1 DEF CarryInv, PairOK, OnLeg, Held, IsPair
  <2>2. QED
    BY <1>1, <1>2, <2>1
<1>4. \A m \in Markets : LegMoved(m)'
  <2>1. \A m \in Markets : LegMoved(m)
    BY <1>1 DEF CarryInv, PairOK, OnLeg
  <2>2. \A m \in Markets : TakenBack(m)' = 0 /\ TakenBack(m) = 0
    BY <1>1 DEF TakenBack
  <2>3. QED
    BY <1>1, <2>1, <2>2 DEF LegMoved, holding, plan
<1>5. market' \in Markets
  BY <1>1 DEF Markets
<1>6. ~unwinding' /\ unwinding' \in BOOLEAN
  BY <1>1, <1>2
<1>7. QED
  BY <1>1, <1>2, <1>3, <1>4, <1>5, <1>6, NextLeg

LEMMA TakesBack ==
  ASSUME CarryInv, pc = "weighed", NEW n \in Markets, TakeBack(n), got[n] > 0,
         \A m \in Markets :
           TakenBack(m) = IF n = "spot" /\ m = "perp" THEN got[m] ELSE 0
  PROVE  CarryInv'
<1>1. /\ unwinding' = TRUE /\ market' = n /\ ask' = got[n] /\ pc' = "leg"
      /\ UNCHANGED <<outside, holding, plan, exits, entries, pair, role, got, answer>>
  BY DEF TakeBack
<1>2. got[n] \in Nat
  BY DEF CarryInv, TypeOK
<1>3. \A m \in Markets : LegMoved(m)'
  <2>1. \A m \in Markets : LegMoved(m)
    BY DEF CarryInv, PairOK, OnLeg
  <2>2. \A m \in Markets : TakenBack(m)' = TakenBack(m)
    BY <1>1 DEF TakenBack, Markets
  <2>3. QED
    BY <1>1, <2>1, <2>2 DEF LegMoved, holding, plan
<1>4. unwinding' \in BOOLEAN /\ unwinding'
  BY <1>1
<1>5. QED
  BY <1>1, <1>2, <1>3, <1>4, NextLeg

LEMMA Breaks ==
  ASSUME CarryInv, PairBreaks
  PROVE  CarryInv'
<1>1. pc = "weighed" /\ ~unwinding
  BY DEF PairBreaks
<1>2. \A m \in Markets : TakenBack(m) = 0
  BY <1>1 DEF TakenBack
<1>3. CASE got["perp"] > 0 /\ TakeBack("perp")
  <2>1. "perp" \in Markets
    BY DEF Markets
  <2>2. QED
    BY <1>1, <1>2, <1>3, <2>1, TakesBack
<1>4. CASE got["perp"] = 0 /\ PairTraded
  <2>1. market = "perp" /\ got["spot"] = 0
    BY <1>1, <1>4 DEF CarryInv, TypeOK, PairOK, OnLeg, Markets
  <2>2. \A m \in Markets : TakenBack(m) = got[m]
    BY <1>2, <1>4, <2>1 DEF Markets
  <2>3. \A a \in Assets : Matched(book[a])
    BY <1>1, <2>2, BackWhereItWas DEF OnLeg
  <2>4. QED
    BY <1>1, <1>4, <2>3, PairLeft DEF PairTraded, Trading, OnLeg
<1>5. QED
  BY <1>3, <1>4 DEF PairBreaks

LEMMA Unwound ==
  ASSUME CarryInv, LegUnwound
  PROVE  CarryInv'
<1>1. pc = "weighed" /\ unwinding /\ answer.units = ask /\ ask = got[market]
  BY DEF LegUnwound, CarryInv, PairOK, OnLeg
<1>2. \A m \in Markets :
        TakenBack(m) = IF m = market THEN got[m]
                       ELSE IF market = "spot" THEN got[m] ELSE 0
  BY <1>1 DEF TakenBack
<1>3. CASE market = "perp" /\ got["spot"] > 0 /\ TakeBack("spot")
  <2>1. "spot" \in Markets
    BY DEF Markets
  <2>2. \A m \in Markets : TakenBack(m) = IF m = "perp" THEN got[m] ELSE 0
    BY <1>2, <1>3 DEF Markets
  <2>3. QED
    BY <1>1, <1>3, <2>1, <2>2, TakesBack
<1>4. CASE (market = "spot" \/ got["spot"] = 0) /\ PairTraded
  <2>1. market \in Markets
    BY DEF CarryInv, TypeOK
  <2>2. \A m \in Markets : TakenBack(m) = got[m]
    BY <1>2, <1>4, <2>1 DEF Markets
  <2>3. \A a \in Assets : Matched(book[a])
    BY <1>1, <2>2, BackWhereItWas DEF OnLeg
  <2>4. QED
    BY <1>1, <1>4, <2>3, PairLeft DEF PairTraded, Trading, OnLeg
<1>5. QED
  BY <1>3, <1>4 DEF LegUnwound

(* The order of the leg in hand.                                            *)
LEMMA KeyOfLeg ==
  ASSUME CarryInv, pc \in OnLeg
  PROVE  /\ pair \in Assets /\ market \in Markets /\ Key \in Keys
         /\ \E r \in Roles : Key = <<pair, market, r>>
BY DEF CarryInv, TypeOK, OnLeg, Key, Keys, Roles

LEMMA OnlyAnIntentIsSubmitted ==
  ASSUME NEW status \in Statuses, "submitted" \in LegalTransitions[status]
  PROVE  status = "intent"
BY DEF Statuses, Unsettled, Terminal, LegalTransitions

LEMMA IsInstructed ==
  ASSUME CarryInv, Instruct
  PROVE  CarryInv'
<1>1. /\ pc = "leg" /\ pc' = "sending"
      /\ CheckTransition(RecordIntent(orders[Key], ask), "submitted")
      /\ orders' = [orders EXCEPT ![Key] =
                      Transition(RecordIntent(@, ask), "submitted")]
      /\ UNCHANGED <<outside, book, venue, working, plan, exits, entries, trade>>
  BY DEF Instruct
<1>2. PICK k \in Keys : k = Key
  BY <1>1, KeyOfLeg DEF OnLeg
<1>3. Key' = k /\ AnotherParked' = \E r \in Roles :
        <<pair, market, r>> # k /\ IsUnsettled(<<pair, market, r>>)'
  BY <1>1, <1>2 DEF Key, AnotherParked, trade
<1>4. orders[k] \in OrderRow /\ orders[k].status # "intent"
  BY DEF CarryInv, TypeOK, SentOK
<1>5. orders[k].status = "absent"
  <2> SUFFICES ASSUME orders[k].status # "absent" PROVE FALSE
    OBVIOUS
  <2>1. RecordIntent(orders[k], ask) = orders[k]
    BY DEF RecordIntent
  <2>2. orders[k].status \in Statuses /\ "submitted" \in LegalTransitions[orders[k].status]
    BY <1>1, <1>2, <2>1 DEF CheckTransition
  <2>3. QED
    BY <1>4, <2>2, OnlyAnIntentIsSubmitted
<1>6. /\ orders' = [orders EXCEPT ![k] = Sent]
      /\ Sent \in OrderRow
  <2>1. Transition(RecordIntent(orders[k], ask), "submitted") = Sent
    BY <1>5 DEF RecordIntent, Transition, Sent
  <2>2. ask \in Nat
    BY DEF CarryInv, TypeOK
  <2>3. QED
    BY <1>1, <1>2, <2>1, <2>2 DEF Sent, OrderRow, Statuses, Unsettled
<1>7. /\ orders' \in [Keys -> OrderRow] /\ orders'[k] = Sent /\ Sent' = Sent
      /\ \A key \in Keys : key # k => orders'[key] = orders[key]
  <2>1. orders \in [Keys -> OrderRow]
    BY DEF CarryInv, TypeOK
  <2>2. Sent' = Sent
    BY <1>1 DEF trade, Sent
  <2>3. QED
    BY <1>6, <2>1, <2>2
<1>8. /\ IsUnsettled(k)' /\ ~IsUnsettled(k) /\ working[k] = 0
      /\ \A key \in Keys : key # k => IsUnsettled(key)' = IsUnsettled(key)
  BY <1>5, <1>7 DEF IsUnsettled, Unsettled, Sent, CarryInv, DivergenceIsParked
<1>9. \A a \in Assets, m \in Markets, r \in Roles : <<a, m, r>> \in Keys
  BY DEF Keys
<1>10. TypeOK'
  <2>1. StoreTypes'
    BY <1>1, <1>7, TypeParts DEF CarryInv, StoreTypes, outside
  <2>2. PlanTypes'
    BY <1>1, TypeParts DEF CarryInv, PlanTypes, PCs, plan, trade
  <2>3. TradeTypes'
    BY <1>1, TypeParts DEF CarryInv, TradeTypes, OnLeg, trade
  <2>4. QED
    BY <2>1, <2>2, <2>3, Typed
<1>11. PlanOK'
  BY <1>1 DEF CarryInv, PlanOK, Trading, OnLeg, plan, Held
<1>12. PairOK'
  <2>1. \A m \in Markets : LegMoved(m)' = LegMoved(m)
    BY <1>1 DEF LegMoved, TakenBack, plan, trade
  <2>2. QED
    BY <1>1, <2>1 DEF CarryInv, PairOK, Trading, OnLeg, plan, trade, Held
<1>13. DivergenceIsParked'
  BY <1>1, <1>8, <1>9 DEF CarryInv, DivergenceIsParked
<1>14. SentOK'
  <2>1. pair \in Assets /\ market \in Markets /\ \E r \in Roles : k = <<pair, market, r>>
    BY <1>1, <1>2, KeyOfLeg DEF OnLeg
  <2>2. book[pair][market] # venue[pair][market] =>
          \E r \in Roles : <<pair, market, r>> # k /\ IsUnsettled(<<pair, market, r>>)'
    <3> SUFFICES ASSUME book[pair][market] # venue[pair][market]
                 PROVE  \E r \in Roles : /\ <<pair, market, r>> # k
                                         /\ IsUnsettled(<<pair, market, r>>)'
      OBVIOUS
    <3>1. PICK r \in Roles : IsUnsettled(<<pair, market, r>>)
      BY <2>1 DEF CarryInv, DivergenceIsParked
    <3>2. <<pair, market, r>> \in Keys /\ <<pair, market, r>> # k
      BY <1>8, <1>9, <2>1, <3>1
    <3>3. IsUnsettled(<<pair, market, r>>)'
      BY <1>1, <1>8, <3>1, <3>2 DEF trade, IsUnsettled
    <3>4. QED
      BY <3>2, <3>3
  <2>3. \A key \in Keys : orders'[key].status # "intent"
    BY <1>7 DEF CarryInv, SentOK, Sent
  <2>4. /\ orders'[Key'] = Sent' /\ working'[Key'] = 0
        /\ book'[pair'][market'] = venue'[pair'][market'] \/ AnotherParked'
    BY <1>1, <1>3, <1>7, <1>8, <2>2 DEF trade
  <2>5. QED
    BY <1>1, <2>3, <2>4 DEF SentOK
<1>15. FundingOK'
  BY <1>1, FundingSettled DEF Before, plan
<1>16. QED
  BY <1>10, <1>11, <1>12, <1>13, <1>14, <1>15 DEF CarryInv

LEMMA IsExecuted ==
  ASSUME CarryInv, VenueExecute
  PROVE  CarryInv'
<1>1. /\ pc = "sending" /\ pc' = "answered"
      /\ UNCHANGED <<outside, book, orders, plan, exits, entries, pair, role,
                     unwinding, market, ask, got>>
  BY DEF VenueExecute
<1>2. PICK told \in Doubts \cup {"fill"}, units \in 0..Executable :
      \E rest \in IF LeavesRemainders THEN {0, Executable - units} ELSE {0},
         said \in MaySayPartial(told, units) :
       /\ Honest(told, units, rest)
       /\ venue' = [venue EXCEPT ![pair][market] = @ + Direction * units]
       /\ working' = [working EXCEPT ![Key] = Direction * rest]
       /\ answer' = [kind |-> told,
                     units |-> IF told = "fill" THEN units ELSE 0,
                     partial |-> said]
  BY DEF VenueExecute
<1>3. PICK rest \in {0, Executable - units}, said \in MaySayPartial(told, units) :
       /\ Honest(told, units, rest)
       /\ venue' = [venue EXCEPT ![pair][market] = @ + Direction * units]
       /\ working' = [working EXCEPT ![Key] = Direction * rest]
       /\ answer' = [kind |-> told,
                     units |-> IF told = "fill" THEN units ELSE 0,
                     partial |-> said]
  BY <1>2
<1>4. PICK k \in Keys : k = Key
  BY <1>1, KeyOfLeg DEF OnLeg
<1>5. pair \in Assets /\ market \in Markets /\ \E r \in Roles : k = <<pair, market, r>>
  BY <1>1, <1>4, KeyOfLeg DEF OnLeg
<1>6. /\ Executable \in Nat /\ Executable <= ask /\ ask \in Nat
      /\ units \in Nat /\ units <= Executable /\ rest \in Nat
  <2>1. Executable \in Nat /\ Executable <= ask /\ ask \in Nat
    BY <1>5, ExecutableBounds DEF CarryInv, TypeOK
  <2>2. QED
    BY <2>1
<1>7. said \in BOOLEAN
  BY DEF MaySayPartial
<1>8. Direction = 1 \/ Direction = -1
  BY DEF Direction
<1>9. PICK d \in {1, -1} : d = Direction
  BY <1>8
<1>10. /\ venue' \in [Assets -> [Markets -> Int]]
       /\ venue'[pair][market] = venue[pair][market] + d * units
       /\ \A a \in Assets, m \in Markets :
            a # pair \/ m # market => venue'[a][m] = venue[a][m]
  <2>1. venue \in [Assets -> [Markets -> Int]] /\ d * units \in Int
    BY <1>6 DEF CarryInv, TypeOK
  <2>2. venue' = [venue EXCEPT ![pair] =
                 [venue[pair] EXCEPT ![market] = venue[pair][market] + d * units]]
    BY <1>3, <1>9
  <2>3. QED
    BY <1>5, <2>1, <2>2
<1>11. /\ working' \in [Keys -> Int] /\ working'[k] = d * rest
       /\ \A key \in Keys : key # k => working'[key] = working[key]
  BY <1>3, <1>4, <1>6, <1>9 DEF CarryInv, TypeOK
<1>12. /\ answer' \in [kind : Doubts \cup {"fill", "none"}, units : Nat,
                       partial : BOOLEAN]
       /\ answer'.kind = told
       /\ answer'.units = IF told = "fill" THEN units ELSE 0
  BY <1>3, <1>6, <1>7
<1>13. TypeOK'
  <2>1. StoreTypes'
    BY <1>1, <1>10, <1>11, TypeParts DEF CarryInv, StoreTypes, outside
  <2>2. PlanTypes'
    BY <1>1, TypeParts DEF CarryInv, PlanTypes, PCs, plan
  <2>3. TradeTypes'
    BY <1>1, <1>12, TypeParts DEF CarryInv, TradeTypes, OnLeg
  <2>4. QED
    BY <2>1, <2>2, <2>3, Typed
<1>14. PlanOK'
  BY <1>1 DEF CarryInv, PlanOK, Trading, OnLeg, plan, Held
<1>15. PairOK'
  <2>1. \A m \in Markets : LegMoved(m)' = LegMoved(m)
    BY <1>1 DEF LegMoved, TakenBack, plan
  <2>2. QED
    BY <1>1, <1>12, <2>1 DEF CarryInv, PairOK, Trading, OnLeg, plan, Held
<1>16. /\ orders[k] = Sent /\ IsUnsettled(k)
       /\ book[pair][market] = venue[pair][market] \/ AnotherParked
  BY <1>1, <1>4 DEF CarryInv, SentOK, Sent, IsUnsettled, Unsettled
<1>17. \A key \in Keys : IsUnsettled(key)' = IsUnsettled(key)
  BY <1>1 DEF IsUnsettled
<1>18. \A a \in Assets, m \in Markets, r \in Roles : <<a, m, r>> \in Keys
  BY DEF Keys
<1>19. DivergenceIsParked'
  <2>1. ASSUME NEW a \in Assets, NEW m \in Markets, book'[a][m] # venue'[a][m]
        PROVE  \E r \in Roles : IsUnsettled(<<a, m, r>>)'
    <3>1. CASE a = pair /\ m = market
      BY <1>5, <1>16, <1>17, <1>18, <3>1
    <3>2. CASE ~(a = pair /\ m = market)
      BY <1>1, <1>10, <1>17, <1>18, <2>1, <3>2 DEF CarryInv, DivergenceIsParked
    <3>3. QED
      BY <3>1, <3>2
  <2>2. \A key \in Keys : working'[key] # 0 => IsUnsettled(key)'
    BY <1>11, <1>16, <1>17 DEF CarryInv, DivergenceIsParked
  <2>3. QED
    BY <2>1, <2>2 DEF DivergenceIsParked
<1>20. SentOK'
  <2>1. /\ Key' = k /\ Sent' = Sent /\ AnotherParked' = AnotherParked
        /\ Direction' = Direction
    BY <1>1, <1>4 DEF Key, Sent, AnotherParked, Direction, IsUnsettled
  <2>2. /\ told = "empty" => units = 0 /\ rest = 0
        /\ told = "fill" /\ ~(units < ask) => units = ask /\ rest = 0
    BY <1>3, <1>6 DEF Honest
  <2>3. told = "empty" =>
          /\ working'[k] = 0
          /\ book'[pair'][market'] = venue'[pair'][market'] \/ AnotherParked'
    <3>1. venue[pair][market] \in Int
      BY <1>5 DEF CarryInv, TypeOK
    <3>2. QED
      BY <1>1, <1>9, <1>10, <1>11, <1>16, <2>1, <2>2, <3>1
  <2>4. told = "fill" =>
          \/ answer'.units < ask'
          \/ /\ working'[k] = 0
             /\ \/ venue'[pair'][market'] = book'[pair'][market'] + d * answer'.units
                \/ AnotherParked'
    BY <1>1, <1>9, <1>10, <1>11, <1>12, <1>16, <2>1, <2>2
  <2>5. QED
    BY <1>1, <1>4, <1>9, <1>12, <1>16, <2>1, <2>3, <2>4 DEF CarryInv, SentOK
<1>21. FundingOK'
  BY <1>1, FundingSettled DEF Before, plan
<1>22. QED
  BY <1>13, <1>14, <1>15, <1>19, <1>20, <1>21 DEF CarryInv

LEMMA IsParked ==
  ASSUME CarryInv, ParkUncertain
  PROVE  CarryInv'
<1>1. /\ pc = "answered"
      /\ EndRun([orders EXCEPT ![Key] = Transition(@, "acknowledged")])
      /\ UNCHANGED <<outside, book, venue, working>>
  BY DEF ParkUncertain
<1>2. PICK k \in Keys : k = Key
  BY <1>1, KeyOfLeg DEF OnLeg
<1> DEFINE ended == [orders EXCEPT ![k] = Transition(@, "acknowledged")]
<1>3. orders \in [Keys -> OrderRow] /\ orders[k] = Sent
  BY <1>1, <1>2 DEF CarryInv, TypeOK, SentOK
<1>4. /\ Transition(orders[k], "acknowledged") \in OrderRow
      /\ Transition(orders[k], "acknowledged").status = "acknowledged"
  BY <1>3 DEF Transition, OrderRow, Statuses, Unsettled
<1>5. /\ ended \in [Keys -> OrderRow] /\ ended[k].status = "acknowledged"
      /\ \A key \in Keys : key # k => ended[key] = orders[key]
  BY <1>3, <1>4
<1>6. \A key \in Keys : /\ ended[key].status # "intent"
                        /\ ended[key].status \in Unsettled <=> IsUnsettled(key)
  BY <1>3, <1>5 DEF CarryInv, SentOK, IsUnsettled, Unsettled, Sent
<1>7. EndRun(ended)
  BY <1>1, <1>2
<1>8. QED
  <2> HIDE DEF ended
  <2> QED
    BY <1>1, <1>5, <1>6, <1>7, RunEnds DEF outside

(* A leg came back: what it filled is where the pair and the book have it.  *)
LEMMA LegWeighed ==
  ASSUME CarryInv, pc = "answered", pc' = "weighed",
         UNCHANGED <<outside, venue, working, plan, exits, entries, pair, role,
                     unwinding, market, ask, answer>>,
         Fills(answer.units),
         book' \in [Assets -> [Markets -> Int]],
         \A a \in Assets \ {pair} : book'[a] = book[a],
         \A m \in Markets :
           book'[pair][m] = IF m = market THEN book[pair][m] + Direction * answer.units
                            ELSE book[pair][m],
         orders' \in [Keys -> OrderRow]
  PROVE  TypeOK' /\ PlanOK' /\ PairOK' /\ FundingOK'
<1>1. /\ pair \in Assets /\ market \in Markets /\ answer.units \in Nat
      /\ got \in [Markets -> Nat] /\ unwinding \in BOOLEAN
      /\ role \in {"open", "close"}
      /\ \A m \in Markets : book[pair][m] \in Int /\ legs[pair][m] \in Int
  BY DEF CarryInv, TypeOK
<1>2. /\ got' \in [Markets -> Nat]
      /\ unwinding => got' = got
      /\ ~unwinding => got'[market] = answer.units /\ got[market] = 0
      /\ \A m \in Markets : m # market => got'[m] = got[m]
  BY <1>1 DEF Fills, CarryInv, PairOK, OnLeg
<1>3. TypeOK'
  <2>1. StoreTypes'
    BY TypeParts DEF CarryInv, StoreTypes, outside
  <2>2. PlanTypes'
    BY TypeParts DEF CarryInv, PlanTypes, PCs, plan
  <2>3. TradeTypes'
    BY <1>2, TypeParts DEF CarryInv, TradeTypes, OnLeg
  <2>4. QED
    BY <2>1, <2>2, <2>3, Typed
<1>4. PlanOK'
  <2>1. \A a \in exits \cup entries : a \in Assets \ {pair}
    BY DEF CarryInv, TypeOK
  <2>2. QED
    BY <2>1 DEF CarryInv, PlanOK, Trading, OnLeg, plan, Held
<1>5. ASSUME NEW m \in Markets
      PROVE  LegMoved(m)'
  <2>1. LegMoved(m)
    BY DEF CarryInv, PairOK, OnLeg
  <2>2. CASE m # market
    <3>1. TakenBack(m)' = TakenBack(m) /\ got'[m] = got[m] /\ book'[pair][m] = book[pair][m]
      BY <1>2, <2>2 DEF TakenBack
    <3>2. QED
      BY <2>1, <3>1 DEF LegMoved, plan
  <2>3. CASE m = market /\ unwinding
    <3>1. TakenBack(m)' = answer.units /\ TakenBack(m) = 0 /\ got'[m] = got[m]
      BY <1>2, <2>3 DEF TakenBack
    <3>2. Direction = IF (m = "spot") <=> (role = "open") THEN -1 ELSE 1
      BY <1>1, <2>3, Zenon DEF Direction
    <3>3. book'[pair][m] = book[pair][m] + Direction * answer.units
      BY <2>3
    <3>4. CASE (m = "spot") <=> (role = "open")
      BY <1>1, <2>1, <3>1, <3>2, <3>3, <3>4 DEF LegMoved, plan
    <3>5. CASE ~((m = "spot") <=> (role = "open"))
      BY <1>1, <2>1, <3>1, <3>2, <3>3, <3>5 DEF LegMoved, plan
    <3>6. QED
      BY <3>4, <3>5
  <2>4. CASE m = market /\ ~unwinding
    <3>1. TakenBack(m)' = 0 /\ TakenBack(m) = 0 /\ got'[m] = answer.units /\ got[m] = 0
      BY <1>2, <2>4 DEF TakenBack
    <3>2. Direction = IF (m = "spot") <=> (role = "open") THEN 1 ELSE -1
      BY <1>1, <2>4, Zenon DEF Direction
    <3>3. book'[pair][m] = book[pair][m] + Direction * answer.units
      BY <2>4
    <3>4. CASE (m = "spot") <=> (role = "open")
      BY <1>1, <2>1, <3>1, <3>2, <3>3, <3>4 DEF LegMoved, plan
    <3>5. CASE ~((m = "spot") <=> (role = "open"))
      BY <1>1, <2>1, <3>1, <3>2, <3>3, <3>5 DEF LegMoved, plan
    <3>6. QED
      BY <3>4, <3>5
  <2>5. QED
    BY <2>2, <2>3, <2>4
<1>6. PairOK'
  <2>1. role' = "close" <=> pair' \in Held(legs)'
    BY DEF CarryInv, PairOK, OnLeg, plan, Held
  <2>2. \A a \in Assets \ {pair'} : Matched(book'[a])
    BY DEF CarryInv, PairOK, Trading, OnLeg
  <2>3. /\ unwinding' => ask' = got'[market']
        /\ ~unwinding' =>
             /\ got'[market'] = answer'.units
             /\ market' = "perp" => got'["spot"] = 0
             /\ market' = "spot" => got'["perp"] > 0
    BY <1>1, <1>2 DEF CarryInv, PairOK, OnLeg, Markets
  <2>4. QED
    BY <1>5, <2>1, <2>2, <2>3 DEF PairOK, Trading, OnLeg
<1>7. FundingOK'
  BY FundingSettled DEF Before, plan
<1>8. QED
  BY <1>3, <1>4, <1>6, <1>7

(* The order of the leg is no longer parked only when book and venue agree  *)
(* on what it did.                                                          *)
LEMMA LegClosed ==
  ASSUME CarryInv, pc = "answered", pc' = "weighed", NEW k \in Keys, k = Key,
         NEW row \in OrderRow, row.status # "intent",
         orders' = [orders EXCEPT ![k] = row],
         UNCHANGED <<venue, working>>,
         \A a \in Assets, m \in Markets :
           a # pair \/ m # market => book'[a][m] = book[a][m],
         row.status \in Unsettled
           \/ /\ working[k] = 0
              /\ book'[pair][market] = venue[pair][market] \/ AnotherParked
  PROVE  /\ orders' \in [Keys -> OrderRow]
         /\ SentOK' /\ DivergenceIsParked'
<1>1. /\ orders' \in [Keys -> OrderRow] /\ orders'[k] = row
      /\ \A key \in Keys : key # k => orders'[key] = orders[key]
  BY DEF CarryInv, TypeOK
<1>2. /\ IsUnsettled(k)' <=> row.status \in Unsettled
      /\ \A key \in Keys : key # k => IsUnsettled(key)' = IsUnsettled(key)
  BY <1>1 DEF IsUnsettled
<1>3. SentOK'
  BY <1>1 DEF CarryInv, SentOK
<1>4. \A a \in Assets, m \in Markets, r \in Roles : <<a, m, r>> \in Keys
  BY DEF Keys
<1>5. pair \in Assets /\ market \in Markets /\ \E r \in Roles : k = <<pair, market, r>>
  BY KeyOfLeg DEF OnLeg
<1>6. ASSUME NEW a \in Assets, NEW m \in Markets, book'[a][m] # venue'[a][m]
      PROVE  \E r \in Roles : IsUnsettled(<<a, m, r>>)'
  <2>1. CASE a = pair /\ m = market
    <3>1. CASE row.status \in Unsettled
      BY <1>2, <1>5, <2>1, <3>1
    <3>2. CASE AnotherParked
      <4>1. PICK r \in Roles : <<pair, market, r>> # k /\ IsUnsettled(<<pair, market, r>>)
        BY <3>2 DEF AnotherParked
      <4>2. <<a, m, r>> # k /\ IsUnsettled(<<a, m, r>>)
        BY <2>1, <4>1
      <4>3. QED
        BY <1>2, <1>4, <4>2
    <3>3. QED
      BY <1>6, <2>1, <3>1, <3>2
  <2>2. CASE ~(a = pair /\ m = market)
    <3>1. PICK r \in Roles : IsUnsettled(<<a, m, r>>)
      BY <1>6, <2>2 DEF CarryInv, DivergenceIsParked
    <3>2. <<a, m, r>> # k
      BY <1>5, <2>2
    <3>3. QED
      BY <1>2, <1>4, <3>1, <3>2
  <2>3. QED
    BY <2>1, <2>2
<1>7. \A key \in Keys : working'[key] # 0 => IsUnsettled(key)'
  BY <1>2 DEF CarryInv, DivergenceIsParked
<1>8. QED
  BY <1>1, <1>3, <1>6, <1>7 DEF DivergenceIsParked

LEMMA IsRejected ==
  ASSUME CarryInv, RejectEmpty
  PROVE  CarryInv'
<1>1. /\ pc = "answered" /\ pc' = "weighed" /\ answer.kind = "empty"
      /\ orders' = [orders EXCEPT ![Key] = Transition(@, "rejected")]
      /\ Fills(0)
      /\ UNCHANGED <<outside, book, venue, working, plan, exits, entries, pair,
                     role, unwinding, market, ask, answer>>
  BY DEF RejectEmpty
<1>2. PICK k \in Keys : k = Key
  BY <1>1, KeyOfLeg DEF OnLeg
<1>3. /\ orders[k] = Sent /\ working[k] = 0 /\ answer.units = 0
      /\ book[pair][market] = venue[pair][market] \/ AnotherParked
  BY <1>1, <1>2 DEF CarryInv, SentOK, PairOK
<1>4. orders[k] \in OrderRow
  BY DEF CarryInv, TypeOK
<1>5. PICK row \in OrderRow : row = Transition(orders[k], "rejected")
  BY <1>4 DEF Transition, OrderRow, Statuses, Terminal
<1>6. row.status = "rejected" /\ orders' = [orders EXCEPT ![k] = row]
  BY <1>1, <1>2, <1>4, <1>5 DEF Transition, OrderRow
<1>7. orders' \in [Keys -> OrderRow] /\ SentOK' /\ DivergenceIsParked'
  BY <1>1, <1>2, <1>3, <1>6, LegClosed
<1>8. /\ Fills(answer.units) /\ book' = book
      /\ book \in [Assets -> [Markets -> Int]]
      /\ Direction * answer.units = 0 /\ pair \in Assets
  <2>1. Direction \in Int
    BY DEF Direction
  <2>2. QED
    BY <1>1, <1>3, <2>1 DEF CarryInv, TypeOK
<1>9. \A m \in Markets : book[pair][m] + 0 = book[pair][m]
  BY <1>8
<1>10. TypeOK' /\ PlanOK' /\ PairOK' /\ FundingOK'
  BY <1>1, <1>7, <1>8, <1>9, LegWeighed
<1>11. QED
  BY <1>7, <1>10 DEF CarryInv

LEMMA IsCommitted ==
  ASSUME CarryInv, CommitFill
  PROVE  CarryInv'
<1>1. /\ pc = "answered" /\ pc' = "weighed" /\ answer.kind = "fill"
      /\ CanRecordFill(orders[Key], answer.units)
      /\ orders' = [orders EXCEPT ![Key] = RecordFill(@, answer.units)]
      /\ book' = [book EXCEPT ![pair][market] = @ + Direction * answer.units]
      /\ Fills(answer.units)
      /\ UNCHANGED <<outside, venue, working, plan, exits, entries, pair, role,
                     unwinding, market, ask, answer>>
  BY DEF CommitFill
<1>2. PICK k \in Keys : k = Key
  BY <1>1, KeyOfLeg DEF OnLeg
<1>3. /\ orders[k] = Sent /\ orders \in [Keys -> OrderRow]
      /\ answer.units \in Nat /\ ask \in Nat /\ pair \in Assets /\ market \in Markets
      /\ book \in [Assets -> [Markets -> Int]]
  BY <1>1, <1>2 DEF CarryInv, TypeOK, SentOK
<1>4. PICK d \in {1, -1} : d = Direction
  BY DEF Direction
<1>5. /\ book' \in [Assets -> [Markets -> Int]]
      /\ \A a \in Assets \ {pair} : book'[a] = book[a]
      /\ \A m \in Markets :
           book'[pair][m] = IF m = market THEN book[pair][m] + d * answer.units
                            ELSE book[pair][m]
  <2>1. book' = [book EXCEPT ![pair] =
                   [book[pair] EXCEPT ![market] = book[pair][market] + d * answer.units]]
    BY <1>1, <1>4
  <2>2. d * answer.units \in Int
    BY <1>3
  <2>3. QED
    BY <1>3, <2>1, <2>2
<1>6. PICK row \in OrderRow : row = RecordFill(orders[k], answer.units)
  <2>1. FillTarget(orders[k], answer.units) \in Statuses
    BY DEF FillTarget, Statuses, Unsettled, Terminal
  <2>2. orders[k].filled + answer.units \in Nat /\ orders[k].quantity \in Nat
    BY <1>3 DEF Sent
  <2>3. RecordFill(orders[k], answer.units) \in OrderRow
    BY <1>3, <2>1, <2>2 DEF RecordFill, OrderRow, Sent
  <2>4. QED
    BY <2>3
<1>7. /\ orders' = [orders EXCEPT ![k] = row]
      /\ row.status = IF answer.units >= ask THEN "filled" ELSE "partially_filled"
      /\ answer.units <= ask
  BY <1>1, <1>2, <1>3, <1>6 DEF RecordFill, FillTarget, Sent, CanRecordFill
<1>8. \A a \in Assets, m \in Markets :
        a # pair \/ m # market => book'[a][m] = book[a][m]
  BY <1>3, <1>5
<1>9. row.status \in Unsettled
        \/ /\ working[k] = 0
           /\ book'[pair][market] = venue[pair][market] \/ AnotherParked
  <2>1. CASE answer.units < ask
    BY <1>3, <1>7, <2>1 DEF Unsettled
  <2>2. CASE ~(answer.units < ask)
    BY <1>1, <1>2, <1>3, <1>4, <1>5, <2>2 DEF CarryInv, SentOK
  <2>3. QED
    BY <2>1, <2>2
<1>10. orders' \in [Keys -> OrderRow] /\ SentOK' /\ DivergenceIsParked'
  BY <1>1, <1>2, <1>7, <1>8, <1>9, LegClosed
<1>11. TypeOK' /\ PlanOK' /\ PairOK' /\ FundingOK'
  BY <1>1, <1>4, <1>5, <1>10, LegWeighed
<1>12. QED
  BY <1>10, <1>11 DEF CarryInv

LEMMA RunStops ==
  ASSUME CarryInv, CycleRefused \/ EndTrading \/ Crash
  PROVE  CarryInv'
<1>1. CASE CycleRefused
  BY <1>1, RunRecorded DEF CycleRefused
<1>2. CASE EndTrading
  <2>1. pc \notin Before /\ complete \in BOOLEAN
    BY <1>2 DEF EndTrading, Before, CarryInv, TypeOK
  <2>2. QED
    BY <1>2, <2>1, RunRecorded DEF EndTrading
<1>3. CASE Crash
  <2>1. \A key \in Keys : /\ orders[key].status # "intent"
                          /\ orders[key].status \in Unsettled <=> IsUnsettled(key)
    BY DEF CarryInv, SentOK, IsUnsettled
  <2>2. orders \in [Keys -> OrderRow]
    BY DEF CarryInv, TypeOK
  <2>3. QED
    BY <1>3, <2>1, <2>2, RunEnds DEF Crash, outside
<1>4. QED
  BY <1>1, <1>2, <1>3

(* The world outside the run.  A funding instant that passes while no run   *)
(* is under way owes the pairs that are settled and stand in the book.      *)
LEMMA FundingFalls ==
  ASSUME CarryInv, FundingSettles
  PROVE  CarryInv'
<1> DEFINE still == {a \in Assets :
                       /\ IsPair(book[a]) /\ book[a] = venue[a]
                       /\ \A m \in Markets, r \in Roles : ~IsUnsettled(<<a, m, r>>)}
<1>1. /\ now < Horizon /\ now' = now + 1
      /\ quiet' = IF pc = "idle" THEN quiet \cup (still \X {now + 1}) ELSE quiet
      /\ UNCHANGED <<boundary, accrued, holding, local>>
  BY DEF FundingSettles
<1>2. /\ now \in 0..Horizon /\ Horizon \in Nat /\ boundary \in Nat /\ asOf \in Nat
      /\ boundary <= now /\ asOf <= now
      /\ now + 1 \in 1..Horizon
  BY <1>1, CarryCycleAssumption DEF CarryInv, TypeOK, FundingOK
<1>3. /\ still \subseteq Assets
      /\ \A s \in still \X {now + 1} :
           /\ s[1] \in Assets /\ s[2] = now + 1 /\ IsPair(book[s[1]])
           /\ \A m \in Markets, r \in Roles : ~IsUnsettled(<<s[1], m, r>>)
  OBVIOUS
<1> HIDE DEF still
<1>4. TypeOK'
  <2>1. now' \in 0..Horizon
    BY <1>1, <1>2
  <2>2. quiet' \subseteq Assets \X Times
    BY <1>1, <1>2, <1>3 DEF CarryInv, TypeOK, Times
  <2>3. StoreTypes'
    BY <1>1, <2>1, <2>2, TypeParts DEF CarryInv, StoreTypes, holding
  <2>4. PlanTypes'
    BY <1>1, TypeParts DEF CarryInv, PlanTypes, PCs, local, plan, trade
  <2>5. TradeTypes'
    BY <1>1, TypeParts DEF CarryInv, TradeTypes, OnLeg, local, trade
  <2>6. QED
    BY <2>3, <2>4, <2>5, Typed
<1>5. PlanOK'
  BY <1>1 DEF CarryInv, PlanOK, Trading, OnLeg, holding, local, plan, Held
<1>6. PairOK'
  <2>1. \A m \in Markets : LegMoved(m)' = LegMoved(m)
    BY <1>1 DEF LegMoved, TakenBack, holding, local, plan, trade
  <2>2. QED
    BY <1>1, <2>1 DEF CarryInv, PairOK, Trading, OnLeg, holding, local, plan, trade, Held
<1>7. \A key : IsUnsettled(key)' = IsUnsettled(key)
  BY <1>1 DEF holding, IsUnsettled
<1>8. DivergenceIsParked'
  BY <1>1, <1>7 DEF CarryInv, DivergenceIsParked, holding
<1>9. SentOK'
  <2>1. /\ Key' = Key /\ Sent' = Sent /\ AnotherParked' = AnotherParked
        /\ Direction' = Direction
    BY <1>1, <1>7 DEF Key, Sent, AnotherParked, Direction, local, trade
  <2>2. QED
    BY <1>1, <2>1 DEF CarryInv, SentOK, holding, local, trade
<1>10. FundingOK'
  <2>1. Outstanding \subseteq Outstanding' /\ (pc # "idle" => Outstanding' = Outstanding)
    BY <1>1 DEF Outstanding, Credited
  <2>2. \A s \in Outstanding' : s \in Outstanding \/ (pc = "idle" /\ s \in still \X {now + 1})
    BY <1>1 DEF Outstanding, Credited
  <2>3. /\ boundary' <= now' /\ asOf' <= now'
        /\ \A s \in quiet' : s[2] <= now' /\ (pc' # "idle" => s[2] <= asOf')
    <3>1. \A s \in quiet : s[2] \in Nat /\ s[2] <= now
      BY DEF CarryInv, TypeOK, FundingOK, Times
    <3>2. \A s \in quiet' : s \in quiet \/ (pc = "idle" /\ s[2] = now + 1)
      BY <1>1, <1>3
    <3>3. \A s \in quiet : pc # "idle" => s[2] <= asOf
      BY DEF CarryInv, FundingOK
    <3>4. pc' = pc /\ asOf' = asOf /\ boundary' = boundary
      BY <1>1 DEF local, plan
    <3>5. QED
      BY <1>1, <1>2, <3>1, <3>2, <3>3, <3>4
  <2>4. pc' = "applying" =>
          /\ \A s \in due' : s[1] \in Held(legs)' /\ boundary' < s[2]
          /\ Outstanding' \subseteq due'
    BY <1>1, <2>1 DEF CarryInv, FundingOK, local, plan, Held
  <2>5. pc' \in Before =>
          \A s \in Outstanding' :
            /\ boundary' < s[2] /\ IsPair(book'[s[1]])
            /\ \A m \in Markets, r \in Roles : ~IsUnsettled(<<s[1], m, r>>)'
    BY <1>1, <1>2, <1>3, <1>7, <2>2 DEF CarryInv, FundingOK, local, holding
  <2>6. pc' \notin Before => Outstanding' = {}
    BY <1>1, <2>1 DEF CarryInv, FundingOK, local, Before
  <2>7. \A s \in (Assets \X Times)' : accrued'[s] # None => accrued'[s] > 0
    BY <1>1 DEF CarryInv, FundingOK, Times
  <2>8. QED
    BY <2>3, <2>4, <2>5, <2>6, <2>7 DEF FundingOK
<1>11. QED
  BY <1>4, <1>5, <1>6, <1>8, <1>9, <1>10 DEF CarryInv

(* The venue works a remainder whose order is not settled, so that what it  *)
(* moves is parked behind that order -- another one than the leg in hand    *)
(* has, unless the leg came back short.                                     *)
LEMMA RemainderWorked ==
  ASSUME CarryInv, NEW key \in Keys, VenueWorks(key)
  PROVE  CarryInv'
<1>1. /\ working[key] # 0
      /\ working' = [working EXCEPT ![key] = 0]
      /\ UNCHANGED <<outside, book, orders, local>>
  BY DEF VenueWorks
<1>2. PICK a \in Assets, m \in Markets, r \in Roles : key = <<a, m, r>>
  BY DEF Keys
<1>3. /\ venue' \in [Assets -> [Markets -> Int]]
      /\ \A b \in Assets, n \in Markets : b # a \/ n # m => venue'[b][n] = venue[b][n]
  <2>1. /\ venue \in [Assets -> [Markets -> Int]] /\ working[key] \in Int
        /\ venue[a][m] \in Int
    BY DEF CarryInv, TypeOK
  <2>2. \/ venue' = venue
        \/ venue' = [venue EXCEPT ![a] =
                       [venue[a] EXCEPT ![m] = venue[a][m] + working[key]]]
    <3>1. key[1] = a /\ key[2] = m
      BY <1>2
    <3>2. QED
      BY <3>1 DEF VenueWorks
  <2>3. CASE venue' = venue
    BY <2>1, <2>3
  <2>4. CASE venue' = [venue EXCEPT ![a] =
                         [venue[a] EXCEPT ![m] = venue[a][m] + working[key]]]
    <3>1. venue[a][m] + working[key] \in Int
      BY <2>1
    <3>2. QED
      BY <2>1, <2>4, <3>1
  <2>5. QED
    BY <2>2, <2>3, <2>4
<1>4. /\ working' \in [Keys -> Int] /\ working'[key] = 0
      /\ \A k \in Keys : k # key => working'[k] = working[k]
  BY <1>1 DEF CarryInv, TypeOK
<1>5. IsUnsettled(key)
  BY <1>1 DEF CarryInv, DivergenceIsParked
<1>6. TypeOK'
  <2>1. StoreTypes'
    BY <1>1, <1>3, <1>4, TypeParts DEF CarryInv, StoreTypes, outside
  <2>2. PlanTypes'
    BY <1>1, TypeParts DEF CarryInv, PlanTypes, PCs, local, plan, trade
  <2>3. TradeTypes'
    BY <1>1, TypeParts DEF CarryInv, TradeTypes, OnLeg, local, trade
  <2>4. QED
    BY <2>1, <2>2, <2>3, Typed
<1>7. PlanOK'
  BY <1>1 DEF CarryInv, PlanOK, Trading, OnLeg, local, plan, Held
<1>8. PairOK'
  <2>1. \A n \in Markets : LegMoved(n)' = LegMoved(n)
    BY <1>1 DEF LegMoved, TakenBack, local, plan, trade
  <2>2. QED
    BY <1>1, <2>1 DEF CarryInv, PairOK, Trading, OnLeg, local, plan, trade, Held
<1>9. \A k : IsUnsettled(k)' = IsUnsettled(k)
  BY <1>1 DEF IsUnsettled
<1>10. DivergenceIsParked'
  <2>1. ASSUME NEW b \in Assets, NEW n \in Markets, book'[b][n] # venue'[b][n]
        PROVE  \E q \in Roles : IsUnsettled(<<b, n, q>>)'
    <3>1. CASE b = a /\ n = m
      BY <1>2, <1>5, <1>9, <3>1
    <3>2. CASE ~(b = a /\ n = m)
      BY <1>1, <1>3, <1>9, <2>1, <3>2 DEF CarryInv, DivergenceIsParked
    <3>3. QED
      BY <3>1, <3>2
  <2>2. \A k \in Keys : working'[k] # 0 => IsUnsettled(k)'
    BY <1>4, <1>9 DEF CarryInv, DivergenceIsParked
  <2>3. QED
    BY <2>1, <2>2 DEF DivergenceIsParked
<1>11. SentOK'
  <2>1. /\ Key' = Key /\ Sent' = Sent /\ AnotherParked' = AnotherParked
        /\ Direction' = Direction /\ pc' = pc /\ answer' = answer /\ ask' = ask
        /\ pair' = pair /\ market' = market /\ orders' = orders /\ book' = book
    BY <1>1, <1>9 DEF Key, Sent, AnotherParked, Direction, local, trade
  <2>2. ASSUME pc \in {"sending", "answered"}, working[Key] = 0
        PROVE  /\ working'[Key] = 0
               /\ venue'[pair][market] = venue[pair][market] \/ AnotherParked
    <3>1. PICK k \in Keys : k = Key
      BY <2>2, KeyOfLeg DEF OnLeg
    <3>2. pair \in Assets /\ market \in Markets
      BY <2>2, KeyOfLeg DEF OnLeg
    <3>3. k # key
      BY <1>1, <2>2, <3>1
    <3>4. CASE a = pair /\ m = market
      BY <1>2, <1>4, <1>5, <2>2, <3>1, <3>3, <3>4 DEF AnotherParked
    <3>5. CASE ~(a = pair /\ m = market)
      BY <1>3, <1>4, <2>2, <3>1, <3>2, <3>3, <3>5
    <3>6. QED
      BY <3>4, <3>5
  <2>3. QED
    BY <2>1, <2>2 DEF CarryInv, SentOK
<1>12. FundingOK'
  <2>1. Outstanding' = Outstanding
    BY <1>1 DEF Outstanding, Credited, outside
  <2>2. QED
    BY <1>1, <1>9, <2>1 DEF CarryInv, FundingOK, outside, local, plan, Held, Before
<1>13. QED
  BY <1>6, <1>7, <1>8, <1>10, <1>11, <1>12 DEF CarryInv

(* Between two runs the operator brings one asset's book into line and      *)
(* closes its orders.  A pair that is still owed funding has neither.       *)
LEMMA OperatorActs ==
  ASSUME CarryInv, NEW a \in Assets, pc = "idle",
         book' \in [Assets -> [Markets -> Int]],
         venue' \in [Assets -> [Markets -> Int]],
         orders' \in [Keys -> OrderRow],
         \A b \in Assets \ {a} : book'[b] = book[b] /\ venue'[b] = venue[b],
         book'[a] = venue'[a],
         \A m \in Markets, r \in Roles :
           /\ working[<<a, m, r>>] = 0
           /\ orders'[<<a, m, r>>].status # "intent",
         \A key \in Keys : key[1] # a => orders'[key] = orders[key],
         \A s \in Outstanding : s[1] # a,
         UNCHANGED <<outside, working, local>>
  PROVE  CarryInv'
<1>1. TypeOK'
  <2>1. StoreTypes'
    BY TypeParts DEF CarryInv, StoreTypes, outside
  <2>2. PlanTypes'
    BY TypeParts DEF CarryInv, PlanTypes, PCs, local, plan, trade
  <2>3. TradeTypes'
    BY TypeParts DEF CarryInv, TradeTypes, OnLeg, local, trade
  <2>4. QED
    BY <2>1, <2>2, <2>3, Typed
<1>2. PlanOK' /\ PairOK'
  BY DEF CarryInv, PlanOK, PairOK, Trading, OnLeg, local, plan, trade, Held
<1>3. \A key \in Keys : key[1] # a => IsUnsettled(key)' = IsUnsettled(key)
  BY DEF IsUnsettled
<1>4. \A b \in Assets, m \in Markets, r \in Roles : <<b, m, r>> \in Keys
  BY DEF Keys
<1>5. \A key \in Keys : \E b \in Assets, m \in Markets, r \in Roles : key = <<b, m, r>>
  BY DEF Keys
<1>6. DivergenceIsParked'
  <2>1. ASSUME NEW b \in Assets, NEW m \in Markets, book'[b][m] # venue'[b][m]
        PROVE  \E r \in Roles : IsUnsettled(<<b, m, r>>)'
    <3>1. b # a
      BY <2>1
    <3>2. PICK r \in Roles : IsUnsettled(<<b, m, r>>)
      BY <2>1, <3>1 DEF CarryInv, DivergenceIsParked
    <3>3. QED
      BY <1>3, <1>4, <3>1, <3>2
  <2>2. ASSUME NEW key \in Keys, working'[key] # 0
        PROVE  IsUnsettled(key)'
    <3>1. key[1] # a
      BY <1>5, <2>2
    <3>2. QED
      BY <1>3, <2>2, <3>1 DEF CarryInv, DivergenceIsParked
  <2>3. QED
    BY <2>1, <2>2 DEF DivergenceIsParked
<1>7. SentOK'
  <2>1. ASSUME NEW key \in Keys
        PROVE  orders'[key].status # "intent"
    BY <1>5 DEF CarryInv, SentOK
  <2>2. pc' = "idle"
    BY DEF local
  <2>3. QED
    BY <2>1, <2>2 DEF SentOK
<1>8. FundingOK'
  <2>1. Outstanding' = Outstanding
    BY DEF Outstanding, Credited, outside
  <2>2. \A s \in Outstanding : s[1] \in Assets \ {a}
    BY DEF Outstanding, CarryInv, TypeOK
  <2>3. \A s \in Outstanding' :
          /\ boundary' < s[2] /\ IsPair(book'[s[1]])
          /\ \A m \in Markets, r \in Roles : ~IsUnsettled(<<s[1], m, r>>)'
    BY <1>3, <1>4, <2>1, <2>2 DEF CarryInv, FundingOK, Before, outside
  <2>4. pc' = "idle" /\ asOf' = asOf
    BY DEF local, plan
  <2>5. QED
    BY <2>3, <2>4 DEF CarryInv, FundingOK, Before, outside
<1>9. QED
  BY <1>1, <1>2, <1>6, <1>7, <1>8 DEF CarryInv

LEMMA OrdersSettled ==
  ASSUME CarryInv, NEW a \in Assets, OperatorSettles(a)
  PROVE  CarryInv'
<1>1. /\ pc = "idle"
      /\ \A m \in Markets, r \in Roles : working[<<a, m, r>>] = 0
      /\ book' = [book EXCEPT ![a] = venue[a]]
      /\ orders' = [key \in Keys |-> IF key[1] = a THEN NoOrder ELSE orders[key]]
      /\ UNCHANGED <<outside, venue, working, local>>
  BY DEF OperatorSettles
<1>2. PICK m \in Markets, r \in Roles : IsUnsettled(<<a, m, r>>)
  BY DEF OperatorSettles
<1>3. \A s \in Outstanding : s[1] # a
  BY <1>1, <1>2 DEF CarryInv, FundingOK, Before
<1>4. NoOrder \in OrderRow /\ NoOrder.status # "intent"
  BY DEF NoOrder, OrderRow
<1>5. /\ book' \in [Assets -> [Markets -> Int]]
      /\ venue' \in [Assets -> [Markets -> Int]]
      /\ \A b \in Assets \ {a} : book'[b] = book[b] /\ venue'[b] = venue[b]
      /\ book'[a] = venue'[a]
  BY <1>1 DEF CarryInv, TypeOK
<1>6. /\ orders' \in [Keys -> OrderRow]
      /\ \A key \in Keys : key[1] # a => orders'[key] = orders[key]
      /\ \A n \in Markets, q \in Roles : orders'[<<a, n, q>>].status # "intent"
  BY <1>1, <1>4 DEF CarryInv, TypeOK, Keys
<1>7. QED
  BY <1>1, <1>3, <1>5, <1>6, OperatorActs

LEMMA LegFlattened ==
  ASSUME CarryInv, NEW a \in Assets, OperatorFlattens(a)
  PROVE  CarryInv'
<1>1. /\ pc = "idle" /\ ~Matched(book[a])
      /\ \A m \in Markets, r \in Roles : ~IsUnsettled(<<a, m, r>>)
      /\ book' = [book EXCEPT ![a] = FlatLegs]
      /\ venue' = [venue EXCEPT ![a] = FlatLegs]
      /\ UNCHANGED <<outside, working, orders, local>>
  BY DEF OperatorFlattens
<1>2. \A s \in Outstanding : s[1] # a
  BY <1>1 DEF CarryInv, FundingOK, Before, Matched
<1>3. FlatLegs \in [Markets -> Int]
  BY DEF FlatLegs
<1>4. /\ book' \in [Assets -> [Markets -> Int]]
      /\ venue' \in [Assets -> [Markets -> Int]]
      /\ \A b \in Assets \ {a} : book'[b] = book[b] /\ venue'[b] = venue[b]
      /\ book'[a] = venue'[a]
  BY <1>1, <1>3 DEF CarryInv, TypeOK
<1>5. \A m \in Markets, r \in Roles :
        /\ <<a, m, r>> \in Keys /\ working[<<a, m, r>>] = 0
        /\ orders'[<<a, m, r>>].status # "intent"
  BY <1>1 DEF CarryInv, DivergenceIsParked, SentOK, Keys
<1>6. orders' \in [Keys -> OrderRow] /\ \A key \in Keys : orders'[key] = orders[key]
  BY <1>1 DEF CarryInv, TypeOK
<1>7. QED
  BY <1>1, <1>2, <1>4, <1>5, <1>6, OperatorActs

LEMMA NothingHappens ==
  ASSUME CarryInv, UNCHANGED vars
  PROVE  CarryInv'
<1>1. UNCHANGED <<outside, holding, local>> /\ UNCHANGED <<plan, trade>>
  BY DEF vars, local
<1>2. TypeOK'
  <2>1. StoreTypes'
    BY <1>1, TypeParts DEF CarryInv, StoreTypes, outside, holding
  <2>2. PlanTypes'
    BY <1>1, TypeParts DEF CarryInv, PlanTypes, PCs, local, plan, trade
  <2>3. TradeTypes'
    BY <1>1, TypeParts DEF CarryInv, TradeTypes, OnLeg, local, trade
  <2>4. QED
    BY <2>1, <2>2, <2>3, Typed
<1>3. PlanOK' = PlanOK
  BY <1>1 DEF PlanOK, Trading, OnLeg, holding, local, plan, Held
<1>4. \A m : LegMoved(m)' = LegMoved(m)
  BY <1>1 DEF LegMoved, TakenBack, holding, local, plan, trade
<1>5. PairOK'
  BY <1>1, <1>4 DEF CarryInv, PairOK, Trading, OnLeg, holding, local, plan, trade, Held
<1>6. \A key : IsUnsettled(key)' = IsUnsettled(key)
  BY <1>1 DEF holding, IsUnsettled
<1>7. DivergenceIsParked'
  BY <1>1, <1>6 DEF CarryInv, DivergenceIsParked, holding
<1>8. SentOK'
  <2>1. /\ Key' = Key /\ Sent' = Sent /\ AnotherParked' = AnotherParked
        /\ Direction' = Direction
    BY <1>1, <1>6 DEF Key, Sent, AnotherParked, Direction, trade
  <2>2. QED
    BY <1>1, <2>1 DEF CarryInv, SentOK, holding, local, trade
<1>9. FundingOK'
  <2>1. Outstanding' = Outstanding
    BY <1>1 DEF Outstanding, Credited, outside
  <2>2. QED
    BY <1>1, <1>6, <2>1 DEF CarryInv, FundingOK, outside, holding, local, plan, Held, Before
<1>10. QED
  BY <1>2, <1>3, <1>5, <1>7, <1>8, <1>9 DEF CarryInv

LEMMA CarryStep == CarryInv /\ [Next]_vars => CarryInv'
<1> SUFFICES ASSUME CarryInv, [Next]_vars PROVE CarryInv'
  OBVIOUS
<1>1. CASE BeginCycle \/ BeginWindDown
  BY <1>1, RunBegins
<1>2. CASE LoadBook \/ ReconcilePasses \/ ValueSettlements
  BY <1>2, BookLoaded, Reconciles, SettlementsValued
<1>3. CASE ApplyFunding \/ FundingApplied \/ Select
  BY <1>3, FundingIsApplied, AllApplied, NamesSelected
<1>4. CASE StartPair \/ NamesDone
  BY <1>4, PairStarted, AllTraded
<1>5. CASE Instruct \/ VenueExecute \/ ParkUncertain \/ RejectEmpty \/ CommitFill
  BY <1>5, IsInstructed, IsExecuted, IsParked, IsRejected, IsCommitted
<1>6. CASE SpotFollows \/ PairBalances \/ PairBreaks \/ LegUnwound \/ UnwindFails
  BY <1>6, SecondLeg, Balances, Breaks, Unwound, UnwindHalts
<1>7. CASE CycleRefused \/ EndTrading \/ Crash
  BY <1>7, RunStops
<1>8. CASE FundingSettles
  BY <1>8, FundingFalls
<1>9. CASE \E key \in Keys : VenueWorks(key)
  BY <1>9, RemainderWorked
<1>10. CASE \E a \in Assets : OperatorSettles(a) \/ OperatorFlattens(a)
  BY <1>10, OrdersSettled, LegFlattened
<1>11. CASE UNCHANGED vars
  BY <1>11, NothingHappens
<1>12. QED
  BY <1>1, <1>2, <1>3, <1>4, <1>5, <1>6, <1>7, <1>8, <1>9, <1>10, <1>11
  DEF Next, Run

LEMMA CarryAlways == Spec => []CarryInv
<1>1. Init => CarryInv
  BY InitCarry
<1>2. CarryInv /\ [Next]_vars => CarryInv'
  BY CarryStep
<1>3. QED
  BY <1>1, <1>2, PTL DEF Spec

(* The carry book never leaves its types: among them, no position, size or  *)
(* fill ever leaves the whole numbers, a pair is never both to be closed    *)
(* and to be opened.                                                        *)
THEOREM CarryTypeCorrect == Spec => []TypeOK
<1>1. CarryInv => TypeOK
  BY DEF CarryInv
<1>2. QED
  BY <1>1, CarryAlways, PTL

(* Whatever the venue says or leaves working, and wherever a run dies, a    *)
(* leg on which book and venue differ has an order that is not settled, so  *)
(* that require_settled_orders stops the next trading (order_safety.py).    *)
THEOREM EveryDivergenceIsParked == Spec => []DivergenceIsParked
<1>1. CarryInv => DivergenceIsParked
  BY DEF CarryInv
<1>2. QED
  BY <1>1, CarryAlways, PTL

(* No name is traded on top of a naked leg, whatever legs before it were    *)
(* refused, filled in part, unwound or half unwound (trade_pair, unwind).   *)
THEOREM PairsTradeOnMatchedBook == Spec => []TradesOnMatchedBook
<1>1. CarryInv => TradesOnMatchedBook
  <2> SUFFICES ASSUME CarryInv, pc = "trading", NEW a \in Assets
               PROVE  Matched(book[a])
    BY DEF TradesOnMatchedBook
  <2>1. pair = None /\ a # None
    BY CarryCycleAssumption DEF CarryInv, PairOK, OnLeg
  <2>2. QED
    BY <2>1 DEF CarryInv, PairOK, Trading
<1>2. QED
  BY <1>1, CarryAlways, PTL

(* Funding that fell to a settled pair between two runs is in the funding   *)
(* ledger, with the short it was owed to, before the recorded boundary or a *)
(* close of the pair gets past it -- however many settlements fell, however *)
(* often runs died, and whatever a cycle could not value (_settlements,     *)
(* apply_funding, record_cycle).                                            *)
THEOREM NoFundingPassedOver == Spec => []NothingPassedOver
<1>1. CarryInv => NothingPassedOver
  <2> SUFFICES ASSUME CarryInv, NEW s \in quiet, ~Credited(s)
               PROVE  /\ ~(s[2] <= boundary)
                      /\ pc # "sending"
    BY DEF NothingPassedOver
  <2>1. s \in Outstanding
    BY DEF Outstanding
  <2>2. pc \in Before
    BY <2>1 DEF CarryInv, FundingOK
  <2>3. boundary < s[2] /\ boundary \in Nat /\ s[2] \in Nat
    BY <2>1, <2>2 DEF CarryInv, FundingOK, TypeOK, Times
  <2>4. QED
    BY <2>2, <2>3 DEF Before
<1>2. QED
  BY <1>1, CarryAlways, PTL
================================================================================
