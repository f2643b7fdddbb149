------------------------- MODULE TradingLoop_proofs --------------------------
(***************************************************************************)
(* What holds of the trading cycle for any number of predictions, runners, *)
(* sizes and any ceiling: it is well typed, and no decision reaches the    *)
(* venue twice.                                                            *)
(***************************************************************************)
EXTENDS TradingLoop, TLAPS

(* The ledger's operators keep a row a row.                                 *)
LEMMA RecordIntentType ==
  ASSUME NEW order \in OrderRow, NEW units \in Nat
  PROVE  /\ RecordIntent(order, units) \in OrderRow
         /\ RecordIntent(order, units).status # "absent"
         /\ order.status # "absent" => RecordIntent(order, units) = order
         /\ order.status = "absent" =>
              RecordIntent(order, units).status = "intent"
BY DEF OrderRow, RecordIntent, Statuses, Unsettled, Terminal

LEMMA TransitionType ==
  ASSUME NEW order \in OrderRow, NEW target,
         CheckTransition(order, target)
  PROVE  /\ Transition(order, target) \in OrderRow
         /\ Transition(order, target).status = target
         /\ order.status # "absent"
         /\ order.status \notin Terminal
         /\ target \in Unsettled \cup Terminal
BY DEF OrderRow, Transition, CheckTransition, LegalTransitions, Statuses,
       Unsettled, Terminal

LEMMA RecordFillType ==
  ASSUME NEW order \in OrderRow, NEW units \in Nat,
         CanRecordFill(order, units)
  PROVE  /\ RecordFill(order, units) \in OrderRow
         /\ RecordFill(order, units).status \in {"partially_filled", "filled"}
         /\ RecordFill(order, units).filled = order.filled + units
         /\ order.status \in Unsettled
<1>1. FillTarget(order, units) \in {"partially_filled", "filled"}
  BY DEF FillTarget
<1>2. order.status \in Unsettled
  BY <1>1 DEF CanRecordFill, CheckTransition, LegalTransitions, Statuses,
              Unsettled, Terminal
<1>3. QED
  BY <1>1, <1>2 DEF OrderRow, RecordFill, Statuses, Unsettled, Terminal

LEMMA VenueOrderType ==
  ASSUME NEW sends \in Nat, NEW size \in Nat, NEW filled \in Nat,
         NEW live \in BOOLEAN
  PROVE  [sends |-> sends, size |-> size, filled |-> filled, live |-> live]
           \in VenueOrder
BY DEF VenueOrder

(* The type invariant in two halves: the stores the runners share, and the *)
(* variables of the cycle each is in.                                       *)
StoreTypeOK ==
  /\ orders \in [Predictions -> OrderRow]
  /\ book \in [Predictions -> Nat]
  /\ pending \subseteq Predictions
  /\ venue \in [Predictions -> VenueOrder]

CycleTypeOK ==
  /\ pc \in [Runners -> PCs]
  /\ seen \in [Runners -> [Predictions -> Nat]]
  /\ rows \in [Runners -> SUBSET Predictions]
  /\ cur \in [Runners -> Predictions \cup {None}]
  /\ qty \in [Runners -> Sizes \cup {0}]
  /\ answer \in [Runners -> [kind : Answerable \cup {"none"}, units : Nat]]
  /\ fills \in [Runners -> SUBSET Predictions]
  /\ submitted \in [Runners -> Nat]
  /\ \A r \in Runners : pc[r] \in HoldsPrediction =>
                          cur[r] \in Predictions /\ qty[r] \in Sizes

LEMMA TypeHalves == TypeOK <=> StoreTypeOK /\ CycleTypeOK
BY DEF TypeOK, StoreTypeOK, CycleTypeOK

LEMMA InitTypeOK == Init => TypeOK
BY TradingLoopAssumption DEF Init, TypeOK, NoOrder, OrderRow, Flat, NotAtVenue,
   VenueOrder, NoAnswer, PCs, HoldsPrediction

(* One transaction on one row keeps the ledger well typed.                  *)
LEMMA OneRowType ==
  ASSUME StoreTypeOK, NEW p \in Predictions, NEW row \in OrderRow,
         orders' = [orders EXCEPT ![p] = row]
  PROVE  orders' \in [Predictions -> OrderRow]
BY DEF StoreTypeOK

LEMMA EndCycleType ==
  ASSUME CycleTypeOK, NEW r \in Runners, EndCycle(r)
  PROVE  CycleTypeOK'
BY DEF CycleTypeOK, EndCycle, PCs, HoldsPrediction, Flat, NoAnswer

LEMMA NextRowType ==
  ASSUME CycleTypeOK, NEW r \in Runners, NextRow(r),
         fills' \in [Runners -> SUBSET Predictions]
  PROVE  CycleTypeOK'
BY DEF CycleTypeOK, NextRow, PCs, HoldsPrediction, NoAnswer

LEMMA StoreTypeStep ==
  ASSUME StoreTypeOK, CycleTypeOK, NEW r \in Runners, Cycle(r)
  PROVE  StoreTypeOK'
<1> USE TradingLoopAssumption DEF StoreTypeOK
<1>1. CASE \/ LoadBook(r) \/ ReconcilePasses(r) \/ ReconcileHalts(r)
           \/ UnsettledHalts(r) \/ CycleEnds(r) \/ RequireSettled(r)
           \/ RefuseRow(r) \/ ReadOrder(r)
  BY <1>1 DEF LoadBook, ReconcilePasses, ReconcileHalts, UnsettledHalts,
              CycleEnds, RequireSettled, RefuseRow, ReadOrder
<1>2. CASE RecordRow(r)
  <2>1. PICK p \in rows[r], units \in Sizes :
          orders' = [orders EXCEPT ![p] = RecordIntent(@, units)]
    BY <1>2 DEF RecordRow
  <2>2. p \in Predictions /\ units \in Nat
    BY DEF CycleTypeOK
  <2>3. RecordIntent(orders[p], units) \in OrderRow
    BY <2>2, RecordIntentType
  <2>4. QED
    BY <1>2, <2>1, <2>2, <2>3 DEF RecordRow
<1>3. ASSUME pc[r] \in HoldsPrediction
      PROVE  cur[r] \in Predictions /\ qty[r] \in Nat
             /\ orders[cur[r]] \in OrderRow
  BY <1>3 DEF CycleTypeOK
<1>4. CASE MarkSubmitted(r)
  <2>1. CheckTransition(orders[cur[r]], "submitted") =>
          Transition(orders[cur[r]], "submitted") \in OrderRow
    BY <1>3, <1>4, TransitionType DEF MarkSubmitted, HoldsPrediction
  <2>2. QED
    BY <1>4, <2>1 DEF MarkSubmitted
<1>5. CASE VenueExecute(r)
  <2>1. cur[r] \in Predictions /\ qty[r] \in Nat
    BY <1>3, <1>5 DEF VenueExecute, HoldsPrediction
  <2>2. venue[cur[r]] \in VenueOrder
    BY <2>1
  <2>3. venue[cur[r]].sends + 1 \in Nat
    BY <2>2 DEF VenueOrder
  <2>4. PICK units \in 0..qty[r], live \in BOOLEAN :
          venue' = [venue EXCEPT ![cur[r]] =
                      [sends |-> venue[cur[r]].sends + 1, size |-> qty[r],
                       filled |-> units, live |-> live]]
    BY <1>5 DEF VenueExecute
  <2>5. [sends |-> venue[cur[r]].sends + 1, size |-> qty[r],
         filled |-> units, live |-> live] \in VenueOrder
    <3>1. units \in Nat
      BY <2>1
    <3>2. QED
      BY <2>1, <2>3, <3>1, VenueOrderType
  <2>6. venue' \in [Predictions -> VenueOrder]
    BY <2>1, <2>4, <2>5
  <2>7. UNCHANGED <<orders, book, pending>>
    BY <1>5 DEF VenueExecute
  <2>8. QED
    BY <2>6, <2>7
<1>6. CASE ParkUncertain(r)
  <2>1. CheckTransition(orders[cur[r]], "acknowledged") =>
          Transition(orders[cur[r]], "acknowledged") \in OrderRow
    BY <1>3, <1>6, TransitionType DEF ParkUncertain, HoldsPrediction
  <2>2. QED
    BY <1>6, <2>1 DEF ParkUncertain
<1>7. CASE RejectEmpty(r)
  <2>1. CheckTransition(orders[cur[r]], "rejected") =>
          Transition(orders[cur[r]], "rejected") \in OrderRow
    BY <1>3, <1>7, TransitionType DEF RejectEmpty, HoldsPrediction
  <2>2. QED
    BY <1>7, <2>1 DEF RejectEmpty
<1>8. CASE CommitFill(r)
  <2>1. answer[r].units \in Nat
    BY DEF CycleTypeOK
  <2>2. CanRecordFill(orders[cur[r]], answer[r].units) =>
          RecordFill(orders[cur[r]], answer[r].units) \in OrderRow
    BY <1>3, <1>8, <2>1, RecordFillType DEF CommitFill, HoldsPrediction
  <2>3. QED
    BY <1>8, <2>1, <2>2 DEF CommitFill
<1>9. QED
  BY <1>1, <1>2, <1>4, <1>5, <1>6, <1>7, <1>8 DEF Cycle

LEMMA CycleTypeStep ==
  ASSUME StoreTypeOK, CycleTypeOK, NEW r \in Runners, Cycle(r)
  PROVE  CycleTypeOK'
<1> USE TradingLoopAssumption
<1>1. CASE ReconcileHalts(r) \/ UnsettledHalts(r) \/ CycleEnds(r) \/ ParkUncertain(r)
  BY <1>1, EndCycleType DEF ReconcileHalts, UnsettledHalts, CycleEnds, ParkUncertain
<1>2. CASE LoadBook(r)
  BY <1>2 DEF LoadBook, CycleTypeOK, StoreTypeOK, PCs, HoldsPrediction
<1>3. CASE ReconcilePasses(r)
  BY <1>3 DEF ReconcilePasses, CycleTypeOK, PCs, HoldsPrediction, Flat
<1>4. CASE RequireSettled(r)
  BY <1>4 DEF RequireSettled, CycleTypeOK, StoreTypeOK, PCs, HoldsPrediction
<1>5. CASE RefuseRow(r)
  <2>1. PICK p \in rows[r] : rows' = [rows EXCEPT ![r] = @ \ {p}]
    BY <1>5 DEF RefuseRow
  <2>2. rows' \in [Runners -> SUBSET Predictions]
    BY <2>1 DEF CycleTypeOK
  <2>3. QED
    BY <1>5, <2>2 DEF RefuseRow, CycleTypeOK, PCs, HoldsPrediction
<1>6. CASE RecordRow(r)
  <2>1. PICK p \in rows[r], units \in Sizes :
          /\ cur' = [cur EXCEPT ![r] = p]
          /\ qty' = [qty EXCEPT ![r] = units]
    BY <1>6 DEF RecordRow
  <2>2. p \in Predictions
    BY DEF CycleTypeOK
  <2>3. QED
    BY <1>6, <2>1, <2>2 DEF RecordRow, CycleTypeOK, PCs, HoldsPrediction
<1>7. CASE ReadOrder(r)
  <2>1. CASE NextRow(r) /\ UNCHANGED fills
    BY <2>1, NextRowType DEF CycleTypeOK
  <2>2. CASE /\ pc' = [pc EXCEPT ![r] = "fresh"]
             /\ UNCHANGED <<seen, rows, cur, qty, answer, fills, submitted>>
    BY <1>7, <2>2 DEF ReadOrder, CycleTypeOK, PCs, HoldsPrediction
  <2>3. QED
    BY <1>7, <2>1, <2>2 DEF ReadOrder
<1>8. CASE MarkSubmitted(r)
  <2>1. CASE EndCycle(r)
    BY <2>1, EndCycleType
  <2>2. CASE /\ pc' = [pc EXCEPT ![r] = "sending"]
             /\ submitted' = [submitted EXCEPT ![r] = @ + 1]
             /\ UNCHANGED <<seen, rows, cur, qty, answer, fills>>
    BY <1>8, <2>2 DEF MarkSubmitted, CycleTypeOK, PCs, HoldsPrediction
  <2>3. QED
    BY <1>8, <2>1, <2>2 DEF MarkSubmitted
<1>9. CASE VenueExecute(r)
  <2>1. qty[r] \in Nat
    BY <1>9 DEF VenueExecute, CycleTypeOK, HoldsPrediction
  <2>2. PICK told \in Answerable, units \in 0..qty[r] :
          answer' = [answer EXCEPT ![r] =
                       [kind |-> told,
                        units |-> IF told = "fill" THEN units ELSE 0]]
    BY <1>9 DEF VenueExecute
  <2>3. (IF told = "fill" THEN units ELSE 0) \in Nat
    BY <2>1
  <2>4. answer' \in [Runners -> [kind : Answerable \cup {"none"}, units : Nat]]
    BY <2>2, <2>3 DEF CycleTypeOK
  <2>5. QED
    BY <1>9, <2>4 DEF VenueExecute, CycleTypeOK, PCs, HoldsPrediction
<1>10. CASE RejectEmpty(r)
  <2>1. CASE EndCycle(r)
    BY <2>1, EndCycleType
  <2>2. CASE NextRow(r) /\ UNCHANGED fills
    BY <2>2, NextRowType DEF CycleTypeOK
  <2>3. QED
    BY <1>10, <2>1, <2>2 DEF RejectEmpty
<1>11. CASE CommitFill(r)
  <2>1. CASE EndCycle(r)
    BY <2>1, EndCycleType
  <2>2. CASE NextRow(r) /\ fills' = [fills EXCEPT ![r] = @ \cup {cur[r]}]
    <3>1. cur[r] \in Predictions
      BY <1>11 DEF CommitFill, CycleTypeOK, HoldsPrediction
    <3>2. fills' \in [Runners -> SUBSET Predictions]
      BY <2>2, <3>1 DEF CycleTypeOK
    <3>3. QED
      BY <2>2, <3>2, NextRowType
  <2>3. QED
    BY <1>11, <2>1, <2>2 DEF CommitFill
<1>12. QED
  BY <1>1, <1>2, <1>3, <1>6, <1>7, <1>8, <1>9, <1>10, <1>11, <1>4, <1>5 DEF Cycle

LEMMA VenueWorksType ==
  ASSUME StoreTypeOK, CycleTypeOK, NEW p \in Predictions, VenueWorks(p)
  PROVE  StoreTypeOK' /\ CycleTypeOK'
<1>1. venue[p] \in VenueOrder
  BY DEF StoreTypeOK
<1>2. PICK units \in venue[p].filled..venue[p].size, live \in BOOLEAN :
        venue' = [venue EXCEPT ![p] = WorkedTo(p, units, live)]
  BY DEF VenueWorks
<1>3. /\ venue[p].sends \in Nat /\ venue[p].size \in Nat
      /\ venue[p].filled \in Nat
  BY <1>1 DEF VenueOrder
<1>4. units \in Nat
  BY <1>3
<1>5. WorkedTo(p, units, live) \in VenueOrder
  BY <1>3, <1>4, VenueOrderType DEF WorkedTo
<1>6. venue' \in [Predictions -> VenueOrder]
  BY <1>2, <1>5 DEF StoreTypeOK
<1>7. QED
  BY <1>6 DEF VenueWorks, StoreTypeOK, CycleTypeOK, cycle

(* What the venue executed beyond the ledger, which the operator books.     *)
Missing(p) == venue[p].filled - orders[p].filled

LEMMA OperatorBooksRow ==
  ASSUME StoreTypeOK, NEW p \in Predictions, OperatorBooks(p)
  PROVE  /\ Missing(p) \in Nat
         /\ CanRecordFill(orders[p], Missing(p))
         /\ RecordFill(orders[p], Missing(p)) \in OrderRow
         /\ orders' = [orders EXCEPT ![p] = RecordFill(orders[p], Missing(p))]
         /\ book' = [book EXCEPT ![p] = @ + Missing(p)]
         /\ UNCHANGED <<pending, venue, cycle>>
<1>1. venue[p] \in VenueOrder /\ orders[p] \in OrderRow
  BY DEF StoreTypeOK
<1>2. venue[p].filled \in Nat /\ orders[p].filled \in Nat
  BY <1>1 DEF VenueOrder, OrderRow
<1>3. Missing(p) \in Nat
  BY <1>2 DEF OperatorBooks, Missing
<1>4. CanRecordFill(orders[p], Missing(p))
  BY DEF OperatorBooks, Missing
<1>5. RecordFill(orders[p], Missing(p)) \in OrderRow
  BY <1>1, <1>3, <1>4, RecordFillType
<1>6. QED
  BY <1>3, <1>4, <1>5 DEF OperatorBooks, Missing

LEMMA OperatorClosesRow ==
  ASSUME StoreTypeOK, NEW p \in Predictions, OperatorCloses(p)
  PROVE  \E target \in {"rejected", "cancelled"} :
           /\ CheckTransition(orders[p], target)
           /\ Transition(orders[p], target) \in OrderRow
           /\ orders' = [orders EXCEPT ![p] = Transition(orders[p], target)]
           /\ UNCHANGED <<book, pending, venue, cycle>>
<1>1. PICK target \in {"rejected", "cancelled"} :
        /\ CheckTransition(orders[p], target)
        /\ orders' = [orders EXCEPT ![p] = Transition(orders[p], target)]
  BY DEF OperatorCloses
<1>2. Transition(orders[p], target) \in OrderRow
  BY <1>1, TransitionType DEF StoreTypeOK
<1>3. QED
  BY <1>1, <1>2 DEF OperatorCloses

LEMMA CycleUnchangedType ==
  ASSUME CycleTypeOK, UNCHANGED cycle
  PROVE  CycleTypeOK'
BY DEF CycleTypeOK, cycle

LEMMA TypeStep == TypeOK /\ [Next]_vars => TypeOK'
<1> SUFFICES ASSUME StoreTypeOK, CycleTypeOK, [Next]_vars
             PROVE  StoreTypeOK' /\ CycleTypeOK'
  BY TypeHalves, TypeHalves' DEF TypeOK, StoreTypeOK, CycleTypeOK
<1>1. ASSUME NEW r \in Runners, Cycle(r)
      PROVE  StoreTypeOK' /\ CycleTypeOK'
  BY <1>1, StoreTypeStep, CycleTypeStep
<1>2. ASSUME NEW r \in Runners, Crash(r)
      PROVE  StoreTypeOK' /\ CycleTypeOK'
  BY <1>2, EndCycleType DEF Crash, StoreTypeOK
<1>3. ASSUME NEW p \in Predictions, Resolve(p)
      PROVE  StoreTypeOK' /\ CycleTypeOK'
  BY <1>3, CycleUnchangedType DEF Resolve, StoreTypeOK
<1>4. ASSUME NEW p \in Predictions, VenueWorks(p)
      PROVE  StoreTypeOK' /\ CycleTypeOK'
  BY <1>4, VenueWorksType
<1>5. ASSUME NEW p \in Predictions, OperatorBooks(p)
      PROVE  StoreTypeOK' /\ CycleTypeOK'
  <2>1. /\ Missing(p) \in Nat
        /\ RecordFill(orders[p], Missing(p)) \in OrderRow
        /\ orders' = [orders EXCEPT ![p] = RecordFill(orders[p], Missing(p))]
        /\ book' = [book EXCEPT ![p] = @ + Missing(p)]
        /\ UNCHANGED <<pending, venue, cycle>>
    BY <1>5, OperatorBooksRow
  <2>2. orders' \in [Predictions -> OrderRow]
    BY <2>1, OneRowType
  <2>3. book \in [Predictions -> Nat]
    BY DEF StoreTypeOK
  <2>4. book[p] + Missing(p) \in Nat
    BY <2>1, <2>3
  <2>5. book' \in [Predictions -> Nat]
    BY <2>1, <2>3, <2>4
  <2>6. StoreTypeOK'
    BY <2>1, <2>2, <2>5 DEF StoreTypeOK
  <2>7. CycleTypeOK'
    BY <2>1, CycleUnchangedType
  <2>8. QED
    BY <2>6, <2>7
<1>6. ASSUME NEW p \in Predictions, OperatorCloses(p)
      PROVE  StoreTypeOK' /\ CycleTypeOK'
  <2>1. PICK target \in {"rejected", "cancelled"} :
          /\ Transition(orders[p], target) \in OrderRow
          /\ orders' = [orders EXCEPT ![p] = Transition(orders[p], target)]
          /\ UNCHANGED <<book, pending, venue, cycle>>
    BY <1>6, OperatorClosesRow
  <2>2. orders' \in [Predictions -> OrderRow]
    BY <2>1, OneRowType
  <2>3. StoreTypeOK'
    BY <2>1, <2>2 DEF StoreTypeOK
  <2>4. QED
    BY <2>1, <2>3, CycleUnchangedType
<1>7. CASE UNCHANGED vars
  BY <1>7 DEF vars, cycle, StoreTypeOK, CycleTypeOK
<1>8. QED
  BY <1>1, <1>2, <1>3, <1>4, <1>5, <1>6, <1>7 DEF Next

(* The cycle is well typed whatever the sizes, the ceiling and the number   *)
(* of predictions and runners (state of run_cycle, rows of trade_order).    *)
THEOREM TypeCorrect == Spec => []TypeOK
BY InitTypeOK, TypeStep, PTL DEF Spec

------------------------------------------------------------------------------
(* One sender per order.  Most steps only let go of an order, or change the *)
(* row of one that no runner has at the venue: none of them can break it.   *)
OnlyLetsGo ==
  /\ venue' = venue
  /\ \A r \in Runners : pc'[r] \in {"sending", "answered"} =>
       /\ pc'[r] = pc[r]
       /\ cur'[r] = cur[r]
       /\ orders'[cur[r]] = orders[cur[r]]
  /\ \A p \in Predictions : orders'[p].status \in {"absent", "intent"} =>
       orders[p].status \in {"absent", "intent"}

LEMMA LettingGo == OneSenderPerOrder /\ OnlyLetsGo => OneSenderPerOrder'
BY DEF OneSenderPerOrder, OnlyLetsGo, AtVenue, SentAtMostOnce

LEMMA InitOneSender == Init => OneSenderPerOrder
BY DEF Init, OneSenderPerOrder, AtVenue, SentAtMostOnce, NotAtVenue, NoOrder

LEMMA EndsLettingGo ==
  ASSUME TypeOK, NEW r \in Runners, EndCycle(r) \/ NextRow(r),
         UNCHANGED venue
  PROVE  \A s \in Runners : pc'[s] \in {"sending", "answered"} =>
           s # r /\ pc'[s] = pc[s] /\ cur'[s] = cur[s]
BY DEF TypeOK, EndCycle, NextRow

(* The runner that holds the venue's answer settles the row and moves on.   *)
LEMMA SettlesOwnOrder ==
  ASSUME TypeOK, OneSenderPerOrder, NEW r \in Runners, pc[r] = "answered",
         EndCycle(r) \/ NextRow(r), UNCHANGED venue,
         NEW row, row.status \notin {"absent", "intent"},
         orders' = [orders EXCEPT ![cur[r]] = row]
  PROVE  OneSenderPerOrder'
<1>1. cur[r] \in Predictions
  BY DEF TypeOK, HoldsPrediction
<1>2. \A s \in Runners : pc'[s] \in {"sending", "answered"} =>
        s # r /\ pc'[s] = pc[s] /\ cur'[s] = cur[s]
  BY EndsLettingGo
<1>3. \A s \in Runners : pc'[s] \in {"sending", "answered"} =>
        cur[s] # cur[r]
  BY <1>2 DEF OneSenderPerOrder, AtVenue
<1>4. OnlyLetsGo
  BY <1>1, <1>2, <1>3 DEF OnlyLetsGo, TypeOK
<1>5. QED
  BY <1>4, LettingGo

LEMMA MarkSubmittedOneSender ==
  ASSUME TypeOK, OneSenderPerOrder, NEW r \in Runners, MarkSubmitted(r)
  PROVE  OneSenderPerOrder'
<1> DEFINE p == cur[r]
<1>1. p \in Predictions /\ orders[p] \in OrderRow
  BY DEF MarkSubmitted, TypeOK, HoldsPrediction
<1>2. CASE ~CheckTransition(orders[p], "submitted")
  <2>1. EndCycle(r) /\ UNCHANGED <<orders, venue>>
    BY <1>2 DEF MarkSubmitted
  <2>2. OnlyLetsGo
    BY <2>1, EndsLettingGo DEF OnlyLetsGo
  <2>3. QED
    BY <2>2, LettingGo
<1>3. CASE CheckTransition(orders[p], "submitted")
  <2>1. /\ orders' = [orders EXCEPT ![p] = Transition(orders[p], "submitted")]
        /\ pc' = [pc EXCEPT ![r] = "sending"]
        /\ UNCHANGED <<cur, venue>>
    BY <1>3 DEF MarkSubmitted
  <2>2. orders[p].status = "intent"
    BY <1>1, <1>3 DEF CheckTransition, LegalTransitions, Statuses, Unsettled,
                      Terminal
  <2>3. orders'[p].status = "submitted"
    BY <1>1, <1>3, <2>1, TransitionType DEF TypeOK
  <2>4. venue[p] = NotAtVenue
    BY <1>1, <2>2 DEF OneSenderPerOrder
  <2>5. \A s \in Runners : AtVenue(s) => cur[s] # p
    BY <2>2 DEF OneSenderPerOrder
  <2>6. \A s \in Runners : AtVenue(s)' => s = r \/ (AtVenue(s) /\ pc'[s] = pc[s])
    BY <2>1 DEF TypeOK, AtVenue
  <2>7. \A q \in Predictions : q # p => orders'[q] = orders[q]
    BY <2>1 DEF TypeOK
  <2>8. \A s \in Runners : AtVenue(s)' =>
          /\ orders'[cur[s]].status = "submitted"
          /\ venue[cur[s]].sends = (IF pc'[s] = "sending" THEN 0 ELSE 1)
    <3>1. SUFFICES ASSUME NEW s \in Runners, AtVenue(s)'
                   PROVE  /\ orders'[cur[s]].status = "submitted"
                          /\ venue[cur[s]].sends =
                               (IF pc'[s] = "sending" THEN 0 ELSE 1)
      OBVIOUS
    <3>2. CASE s = r
      BY <3>2, <2>1, <2>3, <2>4 DEF NotAtVenue, TypeOK
    <3>3. CASE s # r
      <4>1. AtVenue(s) /\ pc'[s] = pc[s]
        BY <2>6, <3>1, <3>3
      <4>2. cur[s] \in Predictions /\ cur[s] # p
        BY <2>5, <4>1 DEF TypeOK, AtVenue, HoldsPrediction
      <4>3. QED
        BY <2>7, <4>1, <4>2 DEF OneSenderPerOrder
    <3>4. QED
      BY <3>2, <3>3
  <2>9. QED
    BY <1>1, <2>1, <2>3, <2>5, <2>6, <2>7, <2>8
       DEF OneSenderPerOrder, SentAtMostOnce, AtVenue
<1>4. QED
  BY <1>2, <1>3

LEMMA VenueExecuteOneSender ==
  ASSUME TypeOK, OneSenderPerOrder, NEW r \in Runners, VenueExecute(r)
  PROVE  OneSenderPerOrder'
<1> DEFINE p == cur[r]
<1>1. p \in Predictions
  BY DEF VenueExecute, TypeOK, HoldsPrediction
<1>2. PICK placed : /\ placed.sends = venue[p].sends + 1
                    /\ venue' = [venue EXCEPT ![p] = placed]
  BY DEF VenueExecute
<1>3. pc' = [pc EXCEPT ![r] = "answered"] /\ UNCHANGED <<orders, cur>>
  BY DEF VenueExecute
<1>4. AtVenue(r) /\ venue[p].sends = 0 /\ orders[p].status = "submitted"
  BY DEF VenueExecute, OneSenderPerOrder, AtVenue
<1>5. venue'[p].sends = 1 /\ \A q \in Predictions : q # p => venue'[q] = venue[q]
  BY <1>1, <1>2, <1>4 DEF TypeOK
<1>6. \A s \in Runners : AtVenue(s)' => AtVenue(s) /\ (s # r => pc'[s] = pc[s])
  BY <1>3, <1>4 DEF TypeOK, AtVenue
<1>7. \A s \in Runners : AtVenue(s) /\ s # r => cur[s] \in Predictions \ {p}
  BY <1>4 DEF OneSenderPerOrder, TypeOK, AtVenue, HoldsPrediction
<1>8. \A s \in Runners : AtVenue(s)' =>
        venue'[cur[s]].sends = (IF pc'[s] = "sending" THEN 0 ELSE 1)
  <2>1. SUFFICES ASSUME NEW s \in Runners, AtVenue(s)'
                 PROVE  venue'[cur[s]].sends =
                          (IF pc'[s] = "sending" THEN 0 ELSE 1)
    OBVIOUS
  <2>2. CASE s = r
    BY <2>2, <1>3, <1>5 DEF TypeOK
  <2>3. CASE s # r
    BY <2>1, <2>3, <1>5, <1>6, <1>7 DEF OneSenderPerOrder
  <2>4. QED
    BY <2>2, <2>3
<1>9. QED
  BY <1>1, <1>3, <1>4, <1>5, <1>6, <1>7, <1>8
     DEF OneSenderPerOrder, SentAtMostOnce, AtVenue

LEMMA CycleOneSender ==
  ASSUME TypeOK, OneSenderPerOrder, NEW r \in Runners, Cycle(r)
  PROVE  OneSenderPerOrder'
<1>1. CASE LoadBook(r) \/ ReconcilePasses(r) \/ RequireSettled(r) \/ RefuseRow(r)
  <2>1. OnlyLetsGo
    BY <1>1 DEF LoadBook, ReconcilePasses, RequireSettled, RefuseRow,
                OnlyLetsGo, TypeOK
  <2>2. QED
    BY <2>1, LettingGo
<1>2. CASE ReconcileHalts(r) \/ UnsettledHalts(r) \/ CycleEnds(r)
  <2>1. EndCycle(r) /\ UNCHANGED <<orders, venue>>
    BY <1>2 DEF ReconcileHalts, UnsettledHalts, CycleEnds
  <2>2. OnlyLetsGo
    BY <2>1, EndsLettingGo DEF OnlyLetsGo
  <2>3. QED
    BY <2>2, LettingGo
<1>3. CASE RecordRow(r)
  <2>1. PICK p \in Predictions, units \in Nat :
          orders' = [orders EXCEPT ![p] = RecordIntent(orders[p], units)]
    BY <1>3, TradingLoopAssumption DEF RecordRow, TypeOK
  <2>2. orders[p] \in OrderRow
    BY DEF TypeOK
  <2>3. /\ orders[p].status # "absent" => orders' = orders
        /\ orders'[p].status \in {"absent", "intent"} =>
             orders[p].status \in {"absent", "intent"}
        /\ \A q \in Predictions : q # p => orders'[q] = orders[q]
    BY <2>1, <2>2, RecordIntentType DEF TypeOK
  <2>4. \A s \in Runners : pc'[s] \in {"sending", "answered"} =>
          pc'[s] = pc[s] /\ cur'[s] = cur[s]
    BY <1>3 DEF RecordRow, TypeOK
  <2>5. \A s \in Runners : AtVenue(s) => orders'[cur[s]] = orders[cur[s]]
    <3>1. SUFFICES ASSUME NEW s \in Runners, AtVenue(s)
                   PROVE  orders'[cur[s]] = orders[cur[s]]
      OBVIOUS
    <3>2. cur[s] \in Predictions /\ orders[cur[s]].status = "submitted"
      BY <3>1 DEF OneSenderPerOrder, TypeOK, AtVenue, HoldsPrediction
    <3>3. CASE cur[s] = p
      BY <2>3, <3>2, <3>3
    <3>4. CASE cur[s] # p
      BY <2>3, <3>2, <3>4
    <3>5. QED
      BY <3>3, <3>4
  <2>6. OnlyLetsGo
    BY <1>3, <2>3, <2>4, <2>5 DEF OnlyLetsGo, AtVenue, RecordRow
  <2>7. QED
    BY <2>6, LettingGo
<1>4. CASE ReadOrder(r)
  <2>1. UNCHANGED <<orders, venue>>
    BY <1>4 DEF ReadOrder
  <2>2. CASE NextRow(r)
    <3>1. OnlyLetsGo
      BY <2>1, <2>2, EndsLettingGo DEF OnlyLetsGo
    <3>2. QED
      BY <3>1, LettingGo
  <2>3. CASE pc' = [pc EXCEPT ![r] = "fresh"] /\ UNCHANGED cur
    <3>1. OnlyLetsGo
      BY <2>1, <2>3 DEF OnlyLetsGo, TypeOK
    <3>2. QED
      BY <3>1, LettingGo
  <2>4. QED
    BY <1>4, <2>2, <2>3 DEF ReadOrder
<1>5. CASE MarkSubmitted(r)
  BY <1>5, MarkSubmittedOneSender
<1>6. CASE VenueExecute(r)
  BY <1>6, VenueExecuteOneSender
<1>7. ASSUME pc[r] = "answered", EndCycle(r) \/ NextRow(r),
             UNCHANGED <<orders, venue>>
      PROVE  OneSenderPerOrder'
  <2>1. OnlyLetsGo
    BY <1>7, EndsLettingGo DEF OnlyLetsGo
  <2>2. QED
    BY <2>1, LettingGo
<1>8. ASSUME NEW target, target \in Unsettled \cup Terminal,
             CheckTransition(orders[cur[r]], target), pc[r] = "answered"
      PROVE  Transition(orders[cur[r]], target).status \notin {"absent", "intent"}
  BY <1>8, TransitionType DEF TypeOK, HoldsPrediction, Unsettled, Terminal
<1>9. CASE ParkUncertain(r)
  <2>1. CASE CheckTransition(orders[cur[r]], "acknowledged")
    BY <1>8, <1>9, <2>1, SettlesOwnOrder DEF ParkUncertain, Unsettled
  <2>2. CASE ~CheckTransition(orders[cur[r]], "acknowledged")
    BY <1>7, <1>9, <2>2 DEF ParkUncertain
  <2>3. QED
    BY <2>1, <2>2
<1>10. CASE RejectEmpty(r)
  <2>1. CASE CheckTransition(orders[cur[r]], "rejected")
    BY <1>8, <1>10, <2>1, SettlesOwnOrder DEF RejectEmpty, Terminal
  <2>2. CASE ~CheckTransition(orders[cur[r]], "rejected")
    BY <1>7, <1>10, <2>2 DEF RejectEmpty
  <2>3. QED
    BY <2>1, <2>2
<1>11. CASE CommitFill(r)
  <2>1. CASE CanRecordFill(orders[cur[r]], answer[r].units)
    <3>1. RecordFill(orders[cur[r]], answer[r].units).status
            \notin {"absent", "intent"}
      BY <1>11, <2>1, RecordFillType DEF CommitFill, TypeOK, HoldsPrediction
    <3>2. QED
      BY <1>11, <2>1, <3>1, SettlesOwnOrder DEF CommitFill
  <2>2. CASE ~CanRecordFill(orders[cur[r]], answer[r].units)
    BY <1>7, <1>11, <2>2 DEF CommitFill
  <2>3. QED
    BY <2>1, <2>2
<1>12. QED
  BY <1>1, <1>2, <1>3, <1>4, <1>5, <1>6, <1>9, <1>10, <1>11 DEF Cycle

(* The operator never touches an order a runner has in its hand.            *)
LEMMA OperatorLetsGo ==
  ASSUME TypeOK, NEW p \in Predictions, ~InHand(p), UNCHANGED <<venue, cycle>>,
         NEW row, row.status \notin {"absent", "intent"},
         orders' = [orders EXCEPT ![p] = row]
  PROVE  OnlyLetsGo
BY DEF OnlyLetsGo, TypeOK, InHand, cycle

LEMMA OneSenderStep ==
  TypeOK /\ OneSenderPerOrder /\ [Next]_vars => OneSenderPerOrder'
<1> SUFFICES ASSUME TypeOK, OneSenderPerOrder, [Next]_vars
             PROVE  OneSenderPerOrder'
  OBVIOUS
<1>1. ASSUME NEW r \in Runners, Cycle(r)
      PROVE  OneSenderPerOrder'
  BY <1>1, CycleOneSender
<1>2. ASSUME NEW r \in Runners, Crash(r)
      PROVE  OneSenderPerOrder'
  <2>1. OnlyLetsGo
    BY <1>2, EndsLettingGo DEF Crash, OnlyLetsGo
  <2>2. QED
    BY <2>1, LettingGo
<1>3. ASSUME NEW p \in Predictions, VenueWorks(p)
      PROVE  OneSenderPerOrder'
  <2>1. UNCHANGED <<orders, pc, cur>>
    BY <1>3 DEF VenueWorks, cycle
  <2>2. \A q \in Predictions : venue'[q].sends = venue[q].sends
    BY <1>3 DEF VenueWorks, WorkedTo, TypeOK, VenueOrder
  <2>3. orders[p].status \notin {"absent", "intent"}
    BY <1>3 DEF VenueWorks, OneSenderPerOrder, NotAtVenue
  <2>4. \A q \in Predictions : q # p => venue'[q] = venue[q]
    BY <1>3 DEF VenueWorks, TypeOK
  <2>5. \A r \in Runners : AtVenue(r) => cur[r] \in Predictions
    BY DEF TypeOK, AtVenue, HoldsPrediction
  <2>6. QED
    BY <2>1, <2>2, <2>3, <2>4, <2>5 DEF OneSenderPerOrder, SentAtMostOnce, AtVenue
<1>4. ASSUME NEW p \in Predictions, OperatorBooks(p)
      PROVE  OneSenderPerOrder'
  <2>1. StoreTypeOK
    BY TypeHalves
  <2>2. RecordFill(orders[p], Missing(p)).status \notin {"absent", "intent"}
    BY <1>4, <2>1, OperatorBooksRow, RecordFillType DEF TypeOK
  <2>3. ~InHand(p)
    BY <1>4 DEF OperatorBooks
  <2>4. OnlyLetsGo
    BY <1>4, <2>1, <2>2, <2>3, OperatorBooksRow, OperatorLetsGo
  <2>5. QED
    BY <2>4, LettingGo
<1>5. ASSUME NEW p \in Predictions, OperatorCloses(p)
      PROVE  OneSenderPerOrder'
  <2>1. StoreTypeOK
    BY TypeHalves
  <2>2. PICK target \in {"rejected", "cancelled"} :
           /\ CheckTransition(orders[p], target)
           /\ orders' = [orders EXCEPT ![p] = Transition(orders[p], target)]
           /\ UNCHANGED <<book, pending, venue, cycle>>
    BY <1>5, <2>1, OperatorClosesRow
  <2>3. Transition(orders[p], target).status \notin {"absent", "intent"}
    BY <2>2, TransitionType DEF TypeOK
  <2>4. ~InHand(p)
    BY <1>5 DEF OperatorCloses
  <2>5. OnlyLetsGo
    BY <2>2, <2>3, <2>4, OperatorLetsGo
  <2>6. QED
    BY <2>5, LettingGo
<1>6. CASE (\E p \in Predictions : Resolve(p)) \/ UNCHANGED vars
  <2>1. OnlyLetsGo
    BY <1>6 DEF Resolve, vars, cycle, OnlyLetsGo
  <2>2. QED
    BY <2>1, LettingGo
<1>7. QED
  BY <1>1, <1>2, <1>3, <1>4, <1>5, <1>6 DEF Next

(* An order has at most one sender, for any number of overlapping, dying    *)
(* and restarting cycles (loop.py status gate, orders._check_transition).   *)
THEOREM OneSender == Spec => []OneSenderPerOrder
<1>1. Spec => [](TypeOK /\ OneSenderPerOrder)
  <2>1. Init => TypeOK /\ OneSenderPerOrder
    BY InitTypeOK, InitOneSender
  <2>2. TypeOK /\ OneSenderPerOrder /\ [Next]_vars
          => (TypeOK /\ OneSenderPerOrder)'
    BY TypeStep, OneSenderStep
  <2>3. QED
    BY <2>1, <2>2, PTL DEF Spec
<1>2. QED
  BY <1>1, PTL

(* No decision reaches the venue twice (orders.py: a re-run of a crashed    *)
(* cycle continues instead of doubling the size).                           *)
THEOREM NeverSentTwice == Spec => []SentAtMostOnce
<1>1. OneSenderPerOrder => SentAtMostOnce
  BY DEF OneSenderPerOrder
<1>2. QED
  BY <1>1, OneSender, PTL

------------------------------------------------------------------------------
(* What is booked is what was executed.  BookedIsExecuted in three parts: a *)
(* row and what the venue holds of it, an answer in a runner's hand, and    *)
(* the orders the ledger has closed.  All three hold whatever sizes the     *)
(* bridge asks for: the third leaves out the orders that were sent beyond   *)
(* their row and are called filled.                                         *)
RowBooked(p) ==
  /\ book[p] = orders[p].filled
  /\ orders[p].filled <= orders[p].quantity
  /\ orders[p].filled <= venue[p].filled
  /\ venue[p].filled <= venue[p].size
  /\ venue[p].live => venue[p].filled < venue[p].size
  /\ venue[p].size \in Sizes \cup {0}
  /\ orders[p].status # "absent" => orders[p].quantity \in Sizes
  /\ orders[p].status \in {"absent", "intent", "submitted", "acknowledged"}
       => orders[p].filled = 0
  /\ orders[p].status = "filled" => orders[p].filled = orders[p].quantity

Told(r) ==
  pc[r] = "answered" =>
    /\ answer[r].kind = "fill" =>
         answer[r].units > 0 /\ answer[r].units <= venue[cur[r]].filled
    /\ answer[r].kind = "empty" =>
         ~venue[cur[r]].live /\ venue[cur[r]].filled = 0

ClosedIsDead(p) ==
  orders[p].status \in {"rejected", "cancelled"} \/ FilledInFull(p) =>
    ~venue[p].live /\ orders[p].filled = venue[p].filled

RowsBooked == \A p \in Predictions : RowBooked(p)
AnswersTold == \A r \in Runners : Told(r)
ClosedAreDead == \A p \in Predictions : ClosedIsDead(p)

LEMMA BookedParts ==
  RowsBooked /\ AnswersTold /\ ClosedAreDead <=> BookedIsExecuted
BY DEF RowsBooked, RowBooked, AnswersTold, Told, ClosedAreDead, ClosedIsDead,
       BookedIsExecuted

LEMMA InitBooked == Init => RowsBooked /\ AnswersTold /\ ClosedAreDead
BY TradingLoopAssumption
   DEF Init, RowsBooked, RowBooked, AnswersTold, Told, ClosedAreDead,
       ClosedIsDead, FilledInFull, NoOrder, NotAtVenue, Flat

(* The numbers a row and its order at the venue are made of.                *)
LEMMA RowNumbers ==
  ASSUME TypeOK, NEW p \in Predictions
  PROVE  /\ orders[p] \in OrderRow
         /\ orders[p].filled \in Nat /\ orders[p].quantity \in Nat
         /\ orders[p].status \in Statuses \cup {"absent"}
         /\ venue[p] \in VenueOrder
         /\ venue[p].filled \in Nat /\ venue[p].size \in Nat
         /\ venue[p].live \in BOOLEAN /\ book[p] \in Nat
BY DEF TypeOK, OrderRow, VenueOrder

(* A step that leaves a row, its position and its order at the venue alone. *)
LEMMA RowLeftAlone ==
  ASSUME NEW p \in Predictions, orders'[p] = orders[p], venue'[p] = venue[p],
         book'[p] = book[p]
  PROVE  /\ RowBooked(p) => RowBooked(p)'
         /\ ClosedIsDead(p) => ClosedIsDead(p)'
BY DEF RowBooked, ClosedIsDead, FilledInFull, SentBeyondRow

(* An answer already in hand stays true while the venue stands still.       *)
LEMMA AnswerLeftAlone ==
  ASSUME NEW r \in Runners,
         pc'[r] = "answered" => /\ pc[r] = "answered"
                                /\ cur'[r] = cur[r] /\ answer'[r] = answer[r]
                                /\ venue'[cur[r]] = venue[cur[r]]
  PROVE  Told(r) => Told(r)'
BY DEF Told

(* A move of the status that books nothing, to a status the row may have.   *)
LEMMA RowMoved ==
  ASSUME TypeOK, NEW p \in Predictions, NEW target,
         CheckTransition(orders[p], target),
         orders' = [orders EXCEPT ![p] = Transition(orders[p], target)],
         UNCHANGED <<book, venue>>,
         RowBooked(p),
         target \in Terminal => ~venue[p].live /\ orders[p].filled = venue[p].filled,
         target \notin {"partially_filled", "filled"}
  PROVE  RowBooked(p)' /\ ClosedIsDead(p)'
<1>1. /\ orders[p] \in OrderRow
      /\ orders[p].status \in Statuses
  BY RowNumbers DEF CheckTransition
<1>2. /\ orders'[p].status = target
      /\ orders'[p].filled = orders[p].filled
      /\ orders'[p].quantity = orders[p].quantity
  BY <1>1 DEF TypeOK, Transition, OrderRow
<1>3. target \in {"acknowledged", "submitted"} => orders[p].filled = 0
  BY <1>1 DEF CheckTransition, LegalTransitions, RowBooked, Statuses,
              Unsettled, Terminal
<1>4. target \in Unsettled \cup Terminal
  BY <1>1, TransitionType
<1>5. orders[p].quantity \in Sizes
  BY <1>1 DEF RowBooked, Statuses, Unsettled, Terminal
<1>6. QED
  BY <1>2, <1>3, <1>4, <1>5
     DEF RowBooked, ClosedIsDead, FilledInFull, Unsettled, Terminal

(* A fill of no more than the venue executed: the ledger and the position   *)
(* move together.  Where the fill completes a row that was not sent beyond  *)
(* its quantity, the venue has executed all it was asked for.               *)
LEMMA RowFilled ==
  ASSUME TypeOK, NEW p \in Predictions, NEW units \in Nat,
         CanRecordFill(orders[p], units),
         orders' = [orders EXCEPT ![p] = RecordFill(orders[p], units)],
         book' = [book EXCEPT ![p] = @ + units],
         venue' = venue,
         RowBooked(p),
         orders[p].filled + units <= venue[p].filled
  PROVE  RowBooked(p)' /\ ClosedIsDead(p)'
<1>1. /\ orders[p] \in OrderRow /\ venue[p] \in VenueOrder
      /\ orders[p].filled \in Nat /\ orders[p].quantity \in Nat
      /\ venue[p].filled \in Nat /\ venue[p].size \in Nat
      /\ venue[p].live \in BOOLEAN /\ book[p] \in Nat
  BY RowNumbers
<1>2. orders[p].status \in Unsettled
  BY <1>1, RecordFillType
<1>3. /\ orders'[p].filled = orders[p].filled + units
      /\ orders'[p].quantity = orders[p].quantity
      /\ orders'[p].status = FillTarget(orders[p], units)
  BY DEF TypeOK, RecordFill
<1>4. book'[p] = book[p] + units
  BY DEF TypeOK
<1>5. orders'[p].status \in {"partially_filled", "filled"}
  BY <1>3 DEF FillTarget
<1>6. orders[p].quantity \in Sizes
  BY <1>2 DEF RowBooked, Unsettled
<1>7. orders[p].filled + units <= orders[p].quantity /\ units > 0
  BY DEF CanRecordFill
<1>8. orders'[p].status = "filled" => orders'[p].filled = orders'[p].quantity
  BY <1>1, <1>3, <1>7 DEF FillTarget
<1>9. RowBooked(p)'
  BY <1>3, <1>4, <1>5, <1>6, <1>7, <1>8 DEF RowBooked
<1>10. ASSUME FilledInFull(p)'
       PROVE  ~venue'[p].live /\ orders'[p].filled = venue'[p].filled
  <2>1. orders'[p].status = "filled" /\ ~(venue[p].size > orders[p].quantity)
    BY <1>3, <1>10 DEF FilledInFull, SentBeyondRow
  <2>2. venue[p].size <= orders[p].filled + units
    BY <1>1, <1>3, <1>8, <2>1
  <2>3. venue[p].filled = orders[p].filled + units /\ ~venue[p].live
    BY <1>1, <2>2 DEF RowBooked
  <2>4. QED
    BY <1>3, <2>3
<1>11. QED
  BY <1>5, <1>9, <1>10 DEF ClosedIsDead

BookedSound == RowsBooked /\ AnswersTold /\ ClosedAreDead

(* A step on one row keeps the others.                                      *)
LEMMA OneRowBooked ==
  ASSUME BookedSound, NEW p \in Predictions,
         \A q \in Predictions \ {p} : /\ orders'[q] = orders[q]
                                      /\ venue'[q] = venue[q]
                                      /\ book'[q] = book[q],
         RowBooked(p)', ClosedIsDead(p)', AnswersTold'
  PROVE  BookedSound'
<1>1. \A q \in Predictions \ {p} : RowBooked(q)' /\ ClosedIsDead(q)'
  BY RowLeftAlone DEF BookedSound, RowsBooked, ClosedAreDead
<1>2. QED
  BY <1>1 DEF BookedSound, RowsBooked, ClosedAreDead

(* A step that writes no store keeps what is booked, if it takes no answer. *)
LEMMA NothingWritten ==
  ASSUME BookedSound, UNCHANGED <<orders, venue, book>>, AnswersTold'
  PROVE  BookedSound'
<1>1. \A q \in Predictions : RowBooked(q)' /\ ClosedIsDead(q)'
  BY RowLeftAlone DEF BookedSound, RowsBooked, ClosedAreDead
<1>2. QED
  BY <1>1 DEF BookedSound, RowsBooked, ClosedAreDead

(* The answers in hand after a step of one runner that gets none: the       *)
(* others keep theirs.                                                      *)
LEMMA AnswersKept ==
  ASSUME BookedSound, venue' = venue,
         \A s \in Runners : pc'[s] = "answered" =>
           pc[s] = "answered" /\ cur'[s] = cur[s] /\ answer'[s] = answer[s]
  PROVE  AnswersTold'
BY AnswerLeftAlone DEF BookedSound, AnswersTold

LEMMA EndsWithoutAnswer ==
  ASSUME TypeOK, NEW r \in Runners, EndCycle(r) \/ NextRow(r)
  PROVE  \A s \in Runners : pc'[s] = "answered" =>
           pc[s] = "answered" /\ cur'[s] = cur[s] /\ answer'[s] = answer[s]
BY DEF TypeOK, EndCycle, NextRow

(* The intent: a new row of the size asked for, or the row as it was.       *)
LEMMA RecordRowBooked ==
  ASSUME TypeOK, OneSenderPerOrder, BookedSound, NEW r \in Runners, RecordRow(r)
  PROVE  BookedSound'
<1>1. PICK p \in Predictions, units \in Sizes :
        orders' = [orders EXCEPT ![p] = RecordIntent(orders[p], units)]
  BY DEF RecordRow, TypeOK
<1>2. UNCHANGED <<book, venue>>
  BY DEF RecordRow
<1>3. AnswersTold'
  BY <1>2, AnswersKept DEF RecordRow, TypeOK
<1>4. orders[p] \in OrderRow
  BY RowNumbers
<1>5. RowBooked(p)' /\ ClosedIsDead(p)'
  <2>1. CASE orders[p].status = "absent"
    <3>1. orders'[p] = [status |-> "intent", quantity |-> units, filled |-> 0]
      BY <1>1, <2>1 DEF TypeOK, RecordIntent
    <3>2. orders[p].filled = 0
      BY <2>1 DEF BookedSound, RowsBooked, RowBooked
    <3>3. units \in Nat
      BY TradingLoopAssumption
    <3>4. QED
      BY <1>2, <3>1, <3>2, <3>3
         DEF BookedSound, RowsBooked, RowBooked, ClosedIsDead, FilledInFull
  <2>2. CASE orders[p].status # "absent"
    <3>1. orders'[p] = orders[p]
      BY <1>1, <2>2 DEF TypeOK, RecordIntent
    <3>2. QED
      BY <1>2, <3>1, RowLeftAlone
         DEF BookedSound, RowsBooked, ClosedAreDead
  <2>3. QED
    BY <2>1, <2>2
<1>6. \A q \in Predictions \ {p} : orders'[q] = orders[q]
  BY <1>1 DEF TypeOK
<1>7. QED
  BY <1>2, <1>3, <1>5, <1>6, OneRowBooked

(* The order goes to the venue: it is submitted, so nothing is booked yet,  *)
(* and the venue answers for what it has executed.                          *)
LEMMA VenueExecuteBooked ==
  ASSUME TypeOK, OneSenderPerOrder, BookedSound, NEW r \in Runners,
         VenueExecute(r)
  PROVE  BookedSound'
<1> PICK p \in Predictions : p = cur[r]
  BY DEF VenueExecute, TypeOK, HoldsPrediction
<1>1. PICK told \in Answerable, units \in 0..qty[r], live \in BOOLEAN :
        /\ live => units < qty[r]
        /\ HonestAnswer(told, units, live)
        /\ venue' = [venue EXCEPT ![cur[r]] =
                       [sends |-> @.sends + 1, size |-> qty[r],
                        filled |-> units, live |-> live]]
        /\ answer' = [answer EXCEPT ![r] =
                        [kind |-> told,
                         units |-> IF told = "fill" THEN units ELSE 0]]
  BY Zenon DEF VenueExecute
<1>2. /\ pc' = [pc EXCEPT ![r] = "answered"]
      /\ UNCHANGED <<orders, book, cur>>
  BY DEF VenueExecute
<1>3. qty[r] \in Sizes /\ qty[r] \in Nat /\ units \in Nat /\ units <= qty[r]
  <2>1. qty[r] \in Sizes
    BY DEF VenueExecute, TypeOK, HoldsPrediction
  <2>2. qty[r] \in Nat
    BY <2>1, TradingLoopAssumption
  <2>3. QED
    BY <2>1, <2>2
<1>4. orders[p].status = "submitted"
  BY DEF VenueExecute, OneSenderPerOrder, AtVenue
<1>5. /\ venue'[p].size = qty[r] /\ venue'[p].filled = units
      /\ venue'[p].live = live
      /\ \A q \in Predictions \ {p} : venue'[q] = venue[q]
  BY <1>1 DEF TypeOK
<1>6. /\ orders[p].filled = 0 /\ orders[p].quantity \in Sizes /\ book[p] = 0
      /\ orders[p].filled <= orders[p].quantity
  BY <1>4 DEF BookedSound, RowsBooked, RowBooked
<1>7. RowBooked(p)'
  BY <1>1, <1>2, <1>3, <1>4, <1>5, <1>6 DEF RowBooked
<1>8. ClosedIsDead(p)'
  BY <1>2, <1>4 DEF ClosedIsDead, FilledInFull
<1>9. AnswersTold'
  <2>1. Told(r)'
    <3>1. cur'[r] = p /\ answer'[r].kind = told
          /\ (told = "fill" => answer'[r].units = units)
      BY <1>1, <1>2 DEF TypeOK
    <3>2. QED
      BY <1>1, <1>3, <1>5, <3>1 DEF Told, HonestAnswer
  <2>2. ASSUME NEW s \in Runners \ {r}
        PROVE  Told(s)'
    <3>1. pc'[s] = pc[s] /\ cur'[s] = cur[s] /\ answer'[s] = answer[s]
      BY <1>1, <1>2 DEF TypeOK
    <3>2. pc[s] = "answered" => cur[s] \in Predictions \ {p}
      BY DEF VenueExecute, OneSenderPerOrder, AtVenue, TypeOK, HoldsPrediction
    <3>3. QED
      BY <1>5, <3>1, <3>2, AnswerLeftAlone DEF BookedSound, AnswersTold
  <2>3. QED
    BY <2>1, <2>2 DEF AnswersTold
<1>10. QED
  BY <1>2, <1>5, <1>7, <1>8, <1>9, OneRowBooked

(* The steps that move the status of the order in hand.                     *)
LEMMA MovesBooked ==
  ASSUME TypeOK, OneSenderPerOrder, BookedSound, NEW r \in Runners,
         MarkSubmitted(r) \/ ParkUncertain(r) \/ RejectEmpty(r)
  PROVE  BookedSound'
<1> PICK p \in Predictions : p = cur[r]
  BY DEF MarkSubmitted, ParkUncertain, RejectEmpty, TypeOK, HoldsPrediction
<1>1. UNCHANGED <<book, venue>>
  BY DEF MarkSubmitted, ParkUncertain, RejectEmpty
<1>2. AnswersTold'
  <2>1. CASE EndCycle(r) \/ NextRow(r)
    BY <1>1, <2>1, EndsWithoutAnswer, AnswersKept
  <2>2. CASE pc' = [pc EXCEPT ![r] = "sending"] /\ UNCHANGED <<cur, answer>>
    BY <1>1, <2>2, AnswersKept DEF TypeOK
  <2>3. QED
    BY <2>1, <2>2 DEF MarkSubmitted, ParkUncertain, RejectEmpty
<1>3. CASE orders' = orders
  BY <1>1, <1>2, <1>3, NothingWritten
<1>4. ASSUME NEW target \in {"submitted", "acknowledged", "rejected"},
             CheckTransition(orders[p], target),
             target = "rejected" =>
               ~venue[p].live /\ orders[p].filled = venue[p].filled,
             orders' = [orders EXCEPT ![p] = Transition(orders[p], target)]
      PROVE  BookedSound'
  <2>1. RowBooked(p)' /\ ClosedIsDead(p)'
    BY <1>1, <1>4, RowMoved DEF BookedSound, RowsBooked, Terminal
  <2>2. \A q \in Predictions \ {p} : orders'[q] = orders[q]
    BY <1>4 DEF TypeOK
  <2>3. QED
    BY <1>1, <1>2, <2>1, <2>2, OneRowBooked
<1>5. CASE MarkSubmitted(r)
  BY <1>3, <1>4, <1>5 DEF MarkSubmitted
<1>6. CASE ParkUncertain(r)
  BY <1>3, <1>4, <1>6 DEF ParkUncertain
<1>7. CASE RejectEmpty(r)
  <2>1. ~venue[p].live /\ venue[p].filled = 0
    BY <1>7 DEF RejectEmpty, BookedSound, AnswersTold, Told
  <2>2. orders[p].filled = 0
    BY <1>7 DEF RejectEmpty, OneSenderPerOrder, AtVenue, BookedSound,
                RowsBooked, RowBooked
  <2>3. QED
    BY <1>3, <1>4, <1>7, <2>1, <2>2 DEF RejectEmpty
<1>8. QED
  BY <1>5, <1>6, <1>7

(* Ledger and positions take what the venue answered, or neither does.      *)
LEMMA CommitFillBooked ==
  ASSUME TypeOK, OneSenderPerOrder, BookedSound, NEW r \in Runners,
         CommitFill(r)
  PROVE  BookedSound'
<1> PICK p \in Predictions : p = cur[r]
  BY DEF CommitFill, TypeOK, HoldsPrediction
<1> PICK units \in Nat : units = answer[r].units
  BY DEF TypeOK
<1>1. venue' = venue /\ (EndCycle(r) \/ NextRow(r))
  BY DEF CommitFill
<1>2. AnswersTold'
  BY <1>1, EndsWithoutAnswer, AnswersKept
<1>3. CASE UNCHANGED <<orders, book>>
  BY <1>1, <1>2, <1>3, NothingWritten
<1>4. CASE /\ CanRecordFill(orders[p], units)
           /\ orders' = [orders EXCEPT ![p] = RecordFill(orders[p], units)]
           /\ book' = [book EXCEPT ![p] = @ + units]
  <2>1. orders[p].filled = 0
    BY DEF CommitFill, OneSenderPerOrder, AtVenue, BookedSound, RowsBooked,
           RowBooked
  <2>2. units <= venue[p].filled
    BY DEF CommitFill, BookedSound, AnswersTold, Told
  <2>3. orders[p].filled + units <= venue[p].filled
    BY <2>1, <2>2
  <2>4. RowBooked(p)' /\ ClosedIsDead(p)'
    BY <1>1, <1>4, <2>3, RowFilled DEF BookedSound, RowsBooked
  <2>5. \A q \in Predictions \ {p} : orders'[q] = orders[q] /\ book'[q] = book[q]
    BY <1>4 DEF TypeOK
  <2>6. QED
    BY <1>1, <1>2, <2>4, <2>5, OneRowBooked
<1>5. QED
  BY <1>3, <1>4 DEF CommitFill

(* A live order fills more at the venue, or dies.                           *)
LEMMA VenueWorksBooked ==
  ASSUME TypeOK, OneSenderPerOrder, BookedSound, NEW p \in Predictions,
         VenueWorks(p)
  PROVE  BookedSound'
<1>1. PICK units \in venue[p].filled..venue[p].size, live \in BOOLEAN :
        /\ live => units < venue[p].size
        /\ venue' = [venue EXCEPT ![p] = WorkedTo(p, units, live)]
  BY DEF VenueWorks
<1>2. /\ venue[p].live /\ UNCHANGED <<orders, book, pc, cur, answer>>
  BY DEF VenueWorks, cycle
<1>3. /\ orders[p].filled \in Nat
      /\ venue[p].filled \in Nat /\ venue[p].size \in Nat
  BY RowNumbers
<1>4. /\ venue'[p].size = venue[p].size /\ venue'[p].filled = units
      /\ venue'[p].live = live
      /\ \A q \in Predictions \ {p} : venue'[q] = venue[q]
  BY <1>1 DEF TypeOK, WorkedTo
<1>5. units \in Nat /\ venue[p].filled <= units /\ units <= venue[p].size
  BY <1>1, <1>3
<1>6. RowBooked(p)'
  BY <1>1, <1>2, <1>3, <1>4, <1>5 DEF BookedSound, RowsBooked, RowBooked
<1>7. ClosedIsDead(p)'
  BY <1>2, <1>4 DEF BookedSound, ClosedAreDead, ClosedIsDead, FilledInFull,
                    SentBeyondRow
<1>8. AnswersTold'
  <2> SUFFICES ASSUME NEW r \in Runners
               PROVE  Told(r)'
    BY DEF AnswersTold
  <2>1. pc[r] = "answered" => cur[r] \in Predictions /\ answer[r].units \in Nat
    BY DEF TypeOK, HoldsPrediction
  <2>2. CASE cur[r] = p
    BY <1>2, <1>3, <1>4, <1>5, <2>1, <2>2 DEF BookedSound, AnswersTold, Told
  <2>3. CASE cur[r] # p
    BY <1>2, <1>4, <2>1, <2>3, AnswerLeftAlone DEF BookedSound, AnswersTold
  <2>4. QED
    BY <2>2, <2>3
<1>9. QED
  BY <1>2, <1>4, <1>6, <1>7, <1>8, OneRowBooked

(* The operator books what the dead order executed beyond the ledger.       *)
LEMMA OperatorBooksBooked ==
  ASSUME TypeOK, OneSenderPerOrder, BookedSound, NEW p \in Predictions,
         OperatorBooks(p)
  PROVE  BookedSound'
<1>1. /\ Missing(p) \in Nat
      /\ CanRecordFill(orders[p], Missing(p))
      /\ orders' = [orders EXCEPT ![p] = RecordFill(orders[p], Missing(p))]
      /\ book' = [book EXCEPT ![p] = @ + Missing(p)]
      /\ UNCHANGED <<venue, cycle>>
  BY OperatorBooksRow, TypeHalves
<1>2. AnswersTold'
  BY <1>1, AnswersKept DEF cycle
<1>3. orders[p].filled + Missing(p) = venue[p].filled
  BY RowNumbers DEF Missing
<1>4. ~venue[p].live /\ orders[p].filled + Missing(p) <= venue[p].filled
  BY <1>3, RowNumbers DEF OperatorBooks
<1>5. RowBooked(p)' /\ ClosedIsDead(p)'
  <2>1. RowBooked(p)
    BY DEF BookedSound, RowsBooked
  <2>2. QED
    BY <1>1, <1>3, <1>4, <2>1, RowFilled
<1>6. \A q \in Predictions \ {p} : orders'[q] = orders[q] /\ book'[q] = book[q]
  BY <1>1 DEF TypeOK
<1>7. QED
  BY <1>1, <1>2, <1>5, <1>6, OneRowBooked

(* The operator closes a dead order of which everything is booked.          *)
LEMMA OperatorClosesBooked ==
  ASSUME TypeOK, OneSenderPerOrder, BookedSound, NEW p \in Predictions,
         OperatorCloses(p)
  PROVE  BookedSound'
<1>1. PICK target \in {"rejected", "cancelled"} :
        /\ CheckTransition(orders[p], target)
        /\ orders' = [orders EXCEPT ![p] = Transition(orders[p], target)]
        /\ UNCHANGED <<book, venue, cycle>>
  BY OperatorClosesRow, TypeHalves
<1>2. AnswersTold'
  BY <1>1, AnswersKept DEF cycle
<1>3. ~venue[p].live /\ orders[p].filled = venue[p].filled
  BY DEF OperatorCloses
<1>4. RowBooked(p)' /\ ClosedIsDead(p)'
  BY <1>1, <1>3, RowMoved DEF BookedSound, RowsBooked
<1>5. \A q \in Predictions \ {p} : orders'[q] = orders[q]
  BY <1>1 DEF TypeOK
<1>6. QED
  BY <1>1, <1>2, <1>4, <1>5, OneRowBooked

(* Every step keeps what is booked true.                                    *)
LEMMA BookedStep ==
  TypeOK /\ OneSenderPerOrder /\ BookedSound /\ [Next]_vars => BookedSound'
<1> SUFFICES ASSUME TypeOK, OneSenderPerOrder, BookedSound, [Next]_vars
             PROVE  BookedSound'
  OBVIOUS
<1>1. ASSUME NEW r \in Runners, Cycle(r)
      PROVE  BookedSound'
  <2>1. CASE \/ LoadBook(r) \/ ReconcilePasses(r) \/ RequireSettled(r)
             \/ RefuseRow(r)
    <3>1. UNCHANGED <<orders, venue, book, cur, answer>>
          /\ \A s \in Runners : pc'[s] = "answered" => pc[s] = "answered"
      BY <2>1 DEF LoadBook, ReconcilePasses, RequireSettled, RefuseRow, TypeOK
    <3>2. QED
      BY <3>1, NothingWritten, AnswersKept
  <2>2. CASE ReconcileHalts(r) \/ UnsettledHalts(r) \/ CycleEnds(r)
    <3>1. UNCHANGED <<orders, venue, book>> /\ EndCycle(r)
      BY <2>2 DEF ReconcileHalts, UnsettledHalts, CycleEnds
    <3>2. QED
      BY <3>1, EndsWithoutAnswer, NothingWritten, AnswersKept
  <2>3. CASE RecordRow(r)
    BY <2>3, RecordRowBooked
  <2>4. CASE ReadOrder(r)
    <3>1. UNCHANGED <<orders, venue, book>>
      BY <2>4 DEF ReadOrder
    <3>2. CASE NextRow(r)
      BY <3>1, <3>2, EndsWithoutAnswer, NothingWritten, AnswersKept
    <3>3. CASE pc' = [pc EXCEPT ![r] = "fresh"] /\ UNCHANGED <<cur, answer>>
      <4>1. \A s \in Runners : pc'[s] = "answered" => pc[s] = "answered"
        BY <3>3 DEF TypeOK
      <4>2. QED
        BY <3>1, <3>3, <4>1, NothingWritten, AnswersKept
    <3>4. QED
      BY <2>4, <3>2, <3>3 DEF ReadOrder
  <2>5. CASE MarkSubmitted(r) \/ ParkUncertain(r) \/ RejectEmpty(r)
    BY <2>5, MovesBooked
  <2>6. CASE VenueExecute(r)
    BY <2>6, VenueExecuteBooked
  <2>7. CASE CommitFill(r)
    BY <2>7, CommitFillBooked
  <2>8. QED
    BY <1>1, <2>1, <2>2, <2>3, <2>4, <2>5, <2>6, <2>7 DEF Cycle
<1>2. ASSUME NEW r \in Runners, Crash(r)
      PROVE  BookedSound'
  BY <1>2, EndsWithoutAnswer, NothingWritten, AnswersKept DEF Crash
<1>3. ASSUME NEW p \in Predictions, VenueWorks(p)
      PROVE  BookedSound'
  BY <1>3, VenueWorksBooked
<1>4. ASSUME NEW p \in Predictions, OperatorBooks(p) \/ OperatorCloses(p)
      PROVE  BookedSound'
  BY <1>4, OperatorBooksBooked, OperatorClosesBooked
<1>5. CASE (\E p \in Predictions : Resolve(p)) \/ UNCHANGED vars
  <2>1. UNCHANGED <<orders, venue, book, pc, cur, answer>>
    BY <1>5 DEF Resolve, vars, cycle
  <2>2. QED
    BY <2>1, NothingWritten, AnswersKept
<1>6. QED
  BY <1>1, <1>2, <1>3, <1>4, <1>5 DEF Next

(* Type, single sender and books together are inductive.                    *)
THEOREM BooksStaySound == Spec => [](TypeOK /\ OneSenderPerOrder /\ BookedSound)
<1>1. Init => TypeOK /\ OneSenderPerOrder /\ BookedSound
  BY InitTypeOK, InitOneSender, InitBooked DEF BookedSound
<1>2. TypeOK /\ OneSenderPerOrder /\ BookedSound /\ [Next]_vars
        => (TypeOK /\ OneSenderPerOrder /\ BookedSound)'
  BY TypeStep, OneSenderStep, BookedStep
<1>3. QED
  BY <1>1, <1>2, PTL DEF Spec

(* Whatever sizes the bridge asks for, what is booked is what was executed, *)
(* and an order closed by a refusal, a cancellation or a fill of all it was *)
(* sent for is finished at the venue (orders.record_fill measures a fill    *)
(* against the quantity of the row, the venue against what it was sent).    *)
THEOREM BooksTruly == Spec => []BookedIsExecuted
<1>1. BookedSound => BookedIsExecuted
  BY BookedParts DEF BookedSound
<1>2. QED
  BY <1>1, BooksStaySound, PTL

(* An order the ledger calls rejected or cancelled, or filled at no less    *)
(* than it was sent at, is finished at the venue, and ledger, positions and *)
(* venue agree on it; one never submitted is unknown to the venue and to    *)
(* the positions (order_safety.py, orders.record_fill).                     *)
THEOREM FinishedOrdersAreTruthful == Spec => []TerminalOrdersAreTruthful
<1>1. OneSenderPerOrder /\ BookedIsExecuted => TerminalOrdersAreTruthful
  BY DEF OneSenderPerOrder, BookedIsExecuted, TerminalOrdersAreTruthful
<1>2. QED
  BY <1>1, BooksTruly, OneSender, PTL

------------------------------------------------------------------------------
(* The cycle implements TradeOnce.  A step moves the phase of one decision  *)
(* at most, and most steps of none.                                         *)
PhaseOf == [p \in Predictions |-> Phase(orders[p])]
SendsOf == [p \in Predictions |-> venue[p].sends]

LEMMA OnceParts ==
  /\ Once!Init <=> /\ PhaseOf = [d \in Predictions |-> "undecided"]
                   /\ SendsOf = [d \in Predictions |-> 0]
                   /\ book = [d \in Predictions |-> 0]
  /\ \A d : Once!Commit(d) <=>
       /\ PhaseOf[d] = "undecided"
       /\ PhaseOf' = [PhaseOf EXCEPT ![d] = "committed"]
       /\ UNCHANGED <<SendsOf, book>>
  /\ \A d : Once!Send(d) <=>
       /\ PhaseOf[d] = "committed"
       /\ SendsOf[d] = 0
       /\ SendsOf' = [SendsOf EXCEPT ![d] = 1]
       /\ UNCHANGED <<PhaseOf, book>>
  /\ \A d : Once!Book(d) <=>
       /\ PhaseOf[d] = "committed"
       /\ book' = [book EXCEPT ![d] = book'[d]]
       /\ book'[d] \in Nat /\ book'[d] > book[d]
       /\ \E last \in {"committed", "closed"} :
            PhaseOf' = [PhaseOf EXCEPT ![d] = last]
       /\ UNCHANGED SendsOf
  /\ \A d : Once!Close(d) <=>
       /\ PhaseOf[d] = "committed"
       /\ PhaseOf' = [PhaseOf EXCEPT ![d] = "closed"]
       /\ UNCHANGED <<SendsOf, book>>
  /\ (UNCHANGED Once!vars) <=> (UNCHANGED <<PhaseOf, SendsOf, book>>)
BY DEF Once!Init, Once!Commit, Once!Send, Once!Book, Once!Close, Once!vars,
       PhaseOf, SendsOf

(* What a step does to the phases when it writes one row.                   *)
LEMMA OnePhase ==
  ASSUME TypeOK, NEW p \in Predictions, NEW row,
         orders' = [orders EXCEPT ![p] = row]
  PROVE  PhaseOf' = [PhaseOf EXCEPT ![p] = Phase(row)]
<1>1. orders'[p] = row /\ \A q \in Predictions \ {p} : orders'[q] = orders[q]
  BY DEF TypeOK
<1>2. \A q \in Predictions : Phase(orders'[q]) =
                             IF q = p THEN Phase(row) ELSE Phase(orders[q])
  BY <1>1
<1>3. PhaseOf' = [q \in Predictions |-> Phase(orders'[q])]
  BY DEF PhaseOf
<1>4. QED
  BY <1>2, <1>3 DEF PhaseOf

LEMMA SamePhase ==
  ASSUME TypeOK, NEW p \in Predictions, NEW row,
         orders' = [orders EXCEPT ![p] = row], Phase(row) = Phase(orders[p]),
         UNCHANGED <<venue, book>>
  PROVE  UNCHANGED Once!vars
<1>1. UNCHANGED PhaseOf
  BY OnePhase DEF PhaseOf
<1>2. UNCHANGED <<SendsOf, book>>
  BY DEF SendsOf
<1>3. QED
  BY <1>1, <1>2, OnceParts

LEMMA StoresAlone ==
  ASSUME UNCHANGED <<orders, book>>, UNCHANGED SendsOf
  PROVE  UNCHANGED Once!vars
BY OnceParts DEF PhaseOf

(* A legal move out of an order that is submitted and not finished closes   *)
(* it or leaves it open.                                                    *)
LEMMA MovesClose ==
  ASSUME TypeOK, NEW p \in Predictions, NEW target \in {"rejected", "cancelled"},
         CheckTransition(orders[p], target), orders[p].status # "intent",
         orders' = [orders EXCEPT ![p] = Transition(orders[p], target)],
         UNCHANGED <<venue, book>>
  PROVE  Once!Close(p)
<1>1. /\ Transition(orders[p], target).status = target
      /\ orders[p].status \notin Terminal
      /\ orders[p].status # "absent"
  BY TransitionType, RowNumbers
<1>2. Phase(Transition(orders[p], target)) = "closed" /\ PhaseOf[p] = "committed"
  BY <1>1 DEF Phase, PhaseOf, Terminal
<1>3. PhaseOf' = [PhaseOf EXCEPT ![p] = "closed"]
  BY <1>2, OnePhase
<1>4. UNCHANGED <<SendsOf, book>>
  BY DEF SendsOf
<1>5. QED
  BY <1>2, <1>3, <1>4, OnceParts

(* A recorded fill moves the position of a committed decision up.           *)
LEMMA FillBooks ==
  ASSUME TypeOK, NEW p \in Predictions, NEW units \in Nat,
         CanRecordFill(orders[p], units),
         orders' = [orders EXCEPT ![p] = RecordFill(orders[p], units)],
         book' = [book EXCEPT ![p] = @ + units],
         venue' = venue
  PROVE  Once!Book(p)
<1>1. /\ orders[p].status \in Unsettled
      /\ RecordFill(orders[p], units).status \in {"partially_filled", "filled"}
  BY RecordFillType, RowNumbers
<1>2. PhaseOf[p] = "committed"
  BY <1>1 DEF Phase, PhaseOf, Terminal, Unsettled
<1>3. Phase(RecordFill(orders[p], units)) \in {"committed", "closed"}
  BY <1>1 DEF Phase
<1>4. \E last \in {"committed", "closed"} :
        PhaseOf' = [PhaseOf EXCEPT ![p] = last]
  BY <1>3, OnePhase
<1>5. book[p] \in Nat /\ units > 0
  BY RowNumbers DEF CanRecordFill
<1>6. /\ book' = [book EXCEPT ![p] = book'[p]]
      /\ book'[p] \in Nat /\ book'[p] > book[p]
  BY <1>5 DEF TypeOK
<1>7. UNCHANGED SendsOf
  BY DEF SendsOf
<1>8. QED
  BY <1>2, <1>4, <1>6, <1>7, OnceParts

LEMMA CycleOnce ==
  ASSUME TypeOK, OneSenderPerOrder, NEW r \in Runners, Cycle(r)
  PROVE  (\E d \in Predictions : Once!Commit(d) \/ Once!Send(d) \/ Once!Book(d)
                                 \/ Once!Close(d))
         \/ UNCHANGED Once!vars
<1>1. CASE \/ LoadBook(r) \/ ReconcilePasses(r) \/ ReconcileHalts(r)
           \/ UnsettledHalts(r) \/ CycleEnds(r) \/ RequireSettled(r)
           \/ RefuseRow(r) \/ ReadOrder(r)
  <2>1. UNCHANGED <<orders, book, venue>>
    BY <1>1 DEF LoadBook, ReconcilePasses, ReconcileHalts, UnsettledHalts,
                CycleEnds, RequireSettled, RefuseRow, ReadOrder
  <2>2. QED
    BY <2>1, StoresAlone DEF SendsOf
<1>2. CASE RecordRow(r)
  <2>1. PICK p \in Predictions, units \in Sizes :
          orders' = [orders EXCEPT ![p] = RecordIntent(orders[p], units)]
    BY <1>2 DEF RecordRow, TypeOK
  <2>2. orders[p] \in OrderRow /\ units \in Nat
    BY RowNumbers, TradingLoopAssumption
  <2>3. Phase(RecordIntent(orders[p], units)) = Phase(orders[p])
    BY <2>2, RecordIntentType DEF Phase
  <2>4. QED
    BY <1>2, <2>1, <2>3, SamePhase DEF RecordRow
<1> USE DEF HoldsPrediction
<1>3. CASE MarkSubmitted(r)
  <2>1. PICK p \in Predictions : p = cur[r]
    BY <1>3 DEF MarkSubmitted, TypeOK
  <2>2. UNCHANGED <<book, venue>>
    BY <1>3 DEF MarkSubmitted
  <2>3. CASE orders' = orders
    BY <2>2, <2>3, StoresAlone DEF SendsOf
  <2>4. CASE /\ CheckTransition(orders[p], "submitted")
             /\ orders' = [orders EXCEPT ![p] = Transition(orders[p], "submitted")]
    <3>1. orders[p].status = "intent"
      BY <2>4, RowNumbers DEF CheckTransition, LegalTransitions, Statuses,
                              Unsettled, Terminal
    <3>2. Transition(orders[p], "submitted").status = "submitted"
      BY <2>4, RowNumbers, TransitionType
    <3>3. /\ PhaseOf[p] = "undecided"
          /\ Phase(Transition(orders[p], "submitted")) = "committed"
      BY <3>1, <3>2 DEF Phase, PhaseOf, Terminal
    <3>4. PhaseOf' = [PhaseOf EXCEPT ![p] = "committed"]
      BY <2>4, <3>3, OnePhase
    <3>5. UNCHANGED <<SendsOf, book>>
      BY <2>2 DEF SendsOf
    <3>6. Once!Commit(p)
      BY <3>3, <3>4, <3>5, OnceParts
    <3>7. QED
      BY <3>6
  <2>5. QED
    BY <1>3, <2>1, <2>3, <2>4 DEF MarkSubmitted
<1>4. CASE VenueExecute(r)
  <2>1. PICK p \in Predictions : p = cur[r]
    BY <1>4 DEF VenueExecute, TypeOK
  <2>2. orders[p].status = "submitted" /\ venue[p].sends = 0
    BY <1>4, <2>1 DEF VenueExecute, OneSenderPerOrder, AtVenue
  <2>3. PICK units \in 0..qty[r], live \in BOOLEAN :
          venue' = [venue EXCEPT ![p] =
                      [sends |-> venue[p].sends + 1, size |-> qty[r],
                       filled |-> units, live |-> live]]
    BY <1>4, <2>1 DEF VenueExecute
  <2>4. /\ venue'[p].sends = 1
        /\ \A q \in Predictions \ {p} : venue'[q] = venue[q]
    BY <2>2, <2>3 DEF TypeOK
  <2>5. SendsOf' = [SendsOf EXCEPT ![p] = 1]
    BY <2>4 DEF SendsOf
  <2>6. PhaseOf[p] = "committed" /\ SendsOf[p] = 0
    BY <2>2 DEF PhaseOf, SendsOf, Phase, Terminal
  <2>7. UNCHANGED <<PhaseOf, book>>
    BY <1>4 DEF VenueExecute, PhaseOf
  <2>8. Once!Send(p)
    BY <2>5, <2>6, <2>7, OnceParts
  <2>9. QED
    BY <2>8
<1>5. CASE ParkUncertain(r)
  <2>1. PICK p \in Predictions : p = cur[r]
    BY <1>5 DEF ParkUncertain, TypeOK
  <2>2. orders[p].status = "submitted"
    BY <1>5, <2>1 DEF ParkUncertain, OneSenderPerOrder, AtVenue
  <2>3. CASE orders' = orders
    BY <1>5, <2>3, StoresAlone DEF ParkUncertain, SendsOf
  <2>4. CASE /\ CheckTransition(orders[p], "acknowledged")
             /\ orders' = [orders EXCEPT ![p] = Transition(orders[p], "acknowledged")]
    <3>1. Transition(orders[p], "acknowledged").status = "acknowledged"
      BY <2>4, RowNumbers, TransitionType
    <3>2. Phase(Transition(orders[p], "acknowledged")) = Phase(orders[p])
      BY <2>2, <3>1 DEF Phase, Terminal
    <3>3. QED
      BY <1>5, <2>4, <3>2, SamePhase DEF ParkUncertain
  <2>5. QED
    BY <1>5, <2>1, <2>3, <2>4 DEF ParkUncertain
<1>6. CASE RejectEmpty(r)
  <2>1. PICK p \in Predictions : p = cur[r]
    BY <1>6 DEF RejectEmpty, TypeOK
  <2>2. orders[p].status = "submitted" /\ UNCHANGED <<book, venue>>
    BY <1>6, <2>1 DEF RejectEmpty, OneSenderPerOrder, AtVenue
  <2>3. CASE orders' = orders
    BY <2>2, <2>3, StoresAlone DEF SendsOf
  <2>4. CASE /\ CheckTransition(orders[p], "rejected")
             /\ orders' = [orders EXCEPT ![p] = Transition(orders[p], "rejected")]
    BY <2>2, <2>4, MovesClose
  <2>5. QED
    BY <1>6, <2>1, <2>3, <2>4 DEF RejectEmpty
<1>7. CASE CommitFill(r)
  <2>1. PICK p \in Predictions, units \in Nat : p = cur[r] /\ units = answer[r].units
    BY <1>7 DEF CommitFill, TypeOK
  <2>2. venue' = venue
    BY <1>7 DEF CommitFill
  <2>3. CASE UNCHANGED <<orders, book>>
    BY <2>2, <2>3, StoresAlone DEF SendsOf
  <2>4. CASE /\ CanRecordFill(orders[p], units)
             /\ orders' = [orders EXCEPT ![p] = RecordFill(orders[p], units)]
             /\ book' = [book EXCEPT ![p] = @ + units]
    BY <2>2, <2>4, FillBooks
  <2>5. QED
    BY <1>7, <2>1, <2>3, <2>4 DEF CommitFill
<1>8. QED
  BY <1>1, <1>2, <1>3, <1>4, <1>5, <1>6, <1>7 DEF Cycle

LEMMA NextOnce ==
  TypeOK /\ OneSenderPerOrder /\ [Next]_vars => [Once!Next]_(Once!vars)
<1> SUFFICES ASSUME TypeOK, OneSenderPerOrder, [Next]_vars
             PROVE  (\E d \in Predictions :
                       Once!Commit(d) \/ Once!Send(d) \/ Once!Book(d)
                       \/ Once!Close(d))
                    \/ UNCHANGED Once!vars
  BY DEF Once!Next
<1>1. ASSUME NEW r \in Runners, Crash(r)
      PROVE  UNCHANGED Once!vars
  BY <1>1, StoresAlone DEF Crash, SendsOf
<1>2. ASSUME NEW p \in Predictions, VenueWorks(p)
      PROVE  UNCHANGED Once!vars
  <2>1. \A q \in Predictions : venue'[q].sends = venue[q].sends
    BY <1>2 DEF VenueWorks, WorkedTo, TypeOK, VenueOrder
  <2>2. UNCHANGED SendsOf
    BY <2>1 DEF SendsOf
  <2>3. QED
    BY <1>2, <2>2, StoresAlone DEF VenueWorks
<1>3. ASSUME NEW p \in Predictions, OperatorBooks(p)
      PROVE  Once!Book(p)
  BY <1>3, OperatorBooksRow, TypeHalves, FillBooks
<1>4. ASSUME NEW p \in Predictions, OperatorCloses(p)
      PROVE  Once!Close(p)
  <2>1. orders[p].status # "intent"
    BY <1>4 DEF OperatorCloses, IsUnsettled, Unsettled
  <2>2. QED
    BY <1>4, <2>1, OperatorClosesRow, TypeHalves, MovesClose
<1>5. CASE (\E p \in Predictions : Resolve(p)) \/ UNCHANGED vars
  BY <1>5, StoresAlone DEF Resolve, vars, SendsOf
<1>6. QED
  BY <1>1, <1>2, <1>3, <1>4, <1>5, CycleOnce DEF Next

(* The cycle keeps the promise of the ledger, for any number of predictions *)
(* and of overlapping, dying and restarting runners: a decision is          *)
(* committed to once, reaches the venue once, moves the positions only      *)
(* while it is open, and once closed is never touched again (orders.py,     *)
(* loop.py run_cycle).                                                      *)
THEOREM CycleTradesOnce == Spec => TradesOnce
<1>1. Init => Once!Init
  BY OnceParts DEF Init, PhaseOf, SendsOf, Phase, NoOrder, NotAtVenue, Flat
<1>2. Spec => [](TypeOK /\ OneSenderPerOrder)
  BY TypeCorrect, OneSender, PTL
<1>3. QED
  BY <1>1, <1>2, NextOnce, PTL DEF Spec, TradesOnce, Once!Spec
================================================================================
