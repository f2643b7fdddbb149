--------------------------- MODULE MCTrading_proofs ---------------------------
(***************************************************************************)
(* What the trading path keeps for any number of predictions, runners and  *)
(* processes: no cycle trades around an open order, and one process at a   *)
(* time exchanges a stored token.                                          *)
(***************************************************************************)
EXTENDS MCTrading, TradingLoop_proofs, FiniteSetTheorems

(* A behaviour of the whole path is one of the cycle, as far as the         *)
(* variables of the cycle go.                                               *)
LEMMA CycleOfThePath == MCSpec => Spec
<1>1. MCInit => Init
  BY DEF MCInit
<1>2. [MCNext]_<<part, cycles, placement, session>> => [Next]_vars
  BY DEF MCNext, cycles
<1>3. QED
  BY <1>1, <1>2, PTL DEF MCSpec, Spec

------------------------------------------------------------------------------
(* Once a runner has found every order settled, the open orders are those a *)
(* rival has sent since, the partial fills of its own cycle and the one it  *)
(* has at the venue (loop.py require_settled_orders).                       *)
Working == {"scan", "recorded", "fresh", "sending", "answered"}

OwnOpen(r, p) ==
  \/ orders[p].status = "partially_filled" /\ p \in fills[r]
  \/ p = cur[r] /\ AtVenue(r)

Accounted(r) ==
  pc[r] \in Working =>
    \A p \in Predictions \ meanwhile[r] : IsUnsettled(p) => OwnOpen(r, p)

AllAccounted ==
  /\ meanwhile \in [Runners -> SUBSET Predictions]
  /\ \A r \in Runners : Accounted(r)

LEMMA RemembersType ==
  ASSUME Remember, meanwhile \in [Runners -> SUBSET Predictions]
  PROVE  /\ meanwhile' \in [Runners -> SUBSET Predictions]
         /\ \A r \in Runners : pc'[r] \in Working =>
              meanwhile'[r] = meanwhile[r] \cup SentByRival(r)
BY DEF Remember, SentByRival, Working

(* A runner that stands still while one order moves.                        *)
LEMMA StandsStill ==
  ASSUME TypeOK, AllAccounted, Remember, NEW r \in Runners, NEW p \in Predictions,
         pc'[r] = pc[r], cur'[r] = cur[r], fills'[r] = fills[r],
         \A q \in Predictions \ {p} : orders'[q] = orders[q],
         IsUnsettled(p)' => \/ p \in SentByRival(r)
                            \/ IsUnsettled(p) /\ (OwnOpen(r, p) => OwnOpen(r, p)')
  PROVE  Accounted(r)'
<1> SUFFICES ASSUME pc[r] \in Working, NEW q \in Predictions,
                    q \notin meanwhile'[r], IsUnsettled(q)'
             PROVE  OwnOpen(r, q)'
  BY DEF Accounted
<1>1. q \notin meanwhile[r] /\ q \notin SentByRival(r)
  BY RemembersType DEF AllAccounted
<1>2. CASE q = p
  BY <1>1, <1>2 DEF AllAccounted, Accounted
<1>3. CASE q # p
  <2>1. orders'[q] = orders[q]
    BY <1>3
  <2>2. OwnOpen(r, q)
    BY <1>1, <2>1 DEF AllAccounted, Accounted, IsUnsettled
  <2>3. QED
    BY <2>1, <2>2 DEF OwnOpen, AtVenue
<1>4. QED
  BY <1>2, <1>3

(* A runner that stands still while no order moves.                         *)
LEMMA NothingMoves ==
  ASSUME TypeOK, AllAccounted, Remember, NEW r \in Runners,
         pc'[r] = pc[r], cur'[r] = cur[r], fills'[r] = fills[r],
         orders' = orders
  PROVE  Accounted(r)'
<1>1. ASSUME pc[r] \in Working, NEW q \in Predictions,
             q \notin meanwhile'[r], IsUnsettled(q)'
      PROVE  OwnOpen(r, q)'
  <2>1. q \notin meanwhile[r]
    BY <1>1, RemembersType DEF AllAccounted
  <2>2. OwnOpen(r, q)
    BY <1>1, <2>1 DEF AllAccounted, Accounted, IsUnsettled
  <2>3. QED
    BY <2>2 DEF OwnOpen, AtVenue
<1>2. QED
  BY <1>1 DEF Accounted

LEMMA EndsUnaccountable ==
  ASSUME TypeOK, NEW r \in Runners, EndCycle(r)
  PROVE  Accounted(r)'
BY DEF TypeOK, EndCycle, Accounted, Working

(* What the runner does itself: it finds everything settled, sends one      *)
(* order, and books or ends what it has sent.                               *)
LEMMA OwnStep ==
  ASSUME TypeOK, AllAccounted, Remember, NEW r \in Runners, Cycle(r)
  PROVE  Accounted(r)'
<1> USE DEF HoldsPrediction
<1>1. CASE ReconcileHalts(r) \/ UnsettledHalts(r) \/ CycleEnds(r) \/ ParkUncertain(r)
  BY <1>1, EndsUnaccountable
     DEF ReconcileHalts, UnsettledHalts, CycleEnds, ParkUncertain
<1>2. CASE LoadBook(r) \/ ReconcilePasses(r)
  BY <1>2 DEF LoadBook, ReconcilePasses, TypeOK, Accounted, Working
<1>3. CASE RequireSettled(r)
  BY <1>3 DEF RequireSettled, Accounted, IsUnsettled
<1>4. CASE RefuseRow(r)
  BY <1>4, NothingMoves DEF RefuseRow
<1> SUFFICES ASSUME pc'[r] \in Working, pc[r] \in Working,
                    NEW q \in Predictions, q \notin meanwhile'[r], IsUnsettled(q)'
             PROVE  OwnOpen(r, q)'
  BY <1>1, <1>2, <1>3, <1>4
     DEF Cycle, Accounted, Working, RecordRow, ReadOrder, MarkSubmitted,
         VenueExecute, RejectEmpty, CommitFill
<1>5. q \notin meanwhile[r]
  BY RemembersType DEF AllAccounted
<1>6. IsUnsettled(q) => OwnOpen(r, q)
  BY <1>5 DEF AllAccounted, Accounted
<1>7. CASE RecordRow(r)
  <2>1. PICK p \in Predictions, units \in Sizes :
          orders' = [orders EXCEPT ![p] = RecordIntent(orders[p], units)]
    BY <1>7 DEF RecordRow, TypeOK
  <2>2. orders'[q] = orders[q]
    <3>1. orders'[q].status \in Unsettled
      BY DEF IsUnsettled
    <3>2. orders[p] \in OrderRow /\ units \in Nat
      BY RowNumbers, TradingLoopAssumption
    <3>3. CASE q = p /\ orders[p].status = "absent"
      BY <2>1, <3>1, <3>2, <3>3, RecordIntentType DEF TypeOK, Unsettled
    <3>4. CASE q = p /\ orders[p].status # "absent"
      BY <2>1, <3>2, <3>4, RecordIntentType DEF TypeOK
    <3>5. QED
      BY <2>1, <3>3, <3>4 DEF TypeOK
  <2>3. OwnOpen(r, q)
    BY <1>6, <2>2 DEF IsUnsettled
  <2>4. QED
    BY <1>7, <2>2, <2>3 DEF RecordRow, OwnOpen, AtVenue
<1>8. CASE ReadOrder(r)
  BY <1>6, <1>8 DEF ReadOrder, NextRow, OwnOpen, AtVenue, IsUnsettled
<1>9. CASE MarkSubmitted(r)
  <2>1. CASE EndCycle(r)
    BY <2>1, EndsUnaccountable DEF Accounted
  <2>2. CASE /\ orders' = [orders EXCEPT ![cur[r]] = Transition(@, "submitted")]
             /\ pc' = [pc EXCEPT ![r] = "sending"]
             /\ UNCHANGED <<cur, fills>>
    BY <1>6, <1>9, <2>2 DEF MarkSubmitted, OwnOpen, AtVenue, IsUnsettled, TypeOK
  <2>3. QED
    BY <1>9, <2>1, <2>2 DEF MarkSubmitted
<1>10. CASE VenueExecute(r)
  BY <1>6, <1>10 DEF VenueExecute, OwnOpen, AtVenue, IsUnsettled, TypeOK
<1>11. CASE RejectEmpty(r)
  <2>1. CASE EndCycle(r)
    BY <2>1, EndsUnaccountable DEF Accounted
  <2>2. PICK p \in Predictions : p = cur[r]
    BY <1>11 DEF RejectEmpty, TypeOK
  <2>3. CASE /\ CheckTransition(orders[p], "rejected")
             /\ orders' = [orders EXCEPT ![p] = Transition(orders[p], "rejected")]
             /\ NextRow(r) /\ UNCHANGED fills
    <3>1. orders'[p].status = "rejected"
      BY <2>3, RowNumbers, TransitionType DEF TypeOK
    <3>2. q # p
      BY <3>1 DEF IsUnsettled, Unsettled
    <3>3. QED
      BY <1>6, <2>2, <2>3, <3>2 DEF NextRow, OwnOpen, AtVenue, IsUnsettled, TypeOK
  <2>4. QED
    BY <1>11, <2>1, <2>2, <2>3 DEF RejectEmpty
<1>12. CASE CommitFill(r)
  <2>1. CASE EndCycle(r)
    BY <2>1, EndsUnaccountable DEF Accounted
  <2>2. PICK p \in Predictions, units \in Nat : p = cur[r] /\ units = answer[r].units
    BY <1>12 DEF CommitFill, TypeOK
  <2>3. CASE /\ CanRecordFill(orders[p], units)
             /\ orders' = [orders EXCEPT ![p] = RecordFill(orders[p], units)]
             /\ fills' = [fills EXCEPT ![r] = @ \cup {p}]
             /\ NextRow(r)
    <3>1. orders'[p].status \in {"partially_filled", "filled"}
      BY <2>3, RowNumbers, RecordFillType DEF TypeOK
    <3>2. CASE q = p
      BY <2>3, <3>1, <3>2 DEF IsUnsettled, Unsettled, OwnOpen, TypeOK
    <3>3. CASE q # p
      BY <1>6, <2>2, <2>3, <3>3 DEF NextRow, OwnOpen, AtVenue, IsUnsettled, TypeOK
    <3>4. QED
      BY <3>2, <3>3
  <2>4. QED
    BY <1>12, <2>1, <2>2, <2>3 DEF CommitFill
<1>13. QED
  BY <1>1, <1>2, <1>3, <1>4, <1>7, <1>8, <1>9, <1>10, <1>11, <1>12
     DEF Cycle, Accounted

(* What another runner does: it may send an order, which is remembered, and *)
(* it never touches one this runner has at the venue.                       *)
LEMMA RivalStep ==
  ASSUME TypeOK, OneSenderPerOrder, AllAccounted, Remember,
         NEW r \in Runners, NEW s \in Runners \ {r}, Cycle(s)
  PROVE  Accounted(r)'
<1> USE DEF HoldsPrediction
<1>1. pc'[r] = pc[r] /\ cur'[r] = cur[r] /\ fills'[r] = fills[r]
  BY DEF Cycle, LoadBook, ReconcilePasses, ReconcileHalts, UnsettledHalts,
         RequireSettled, CycleEnds, RefuseRow, RecordRow, ReadOrder,
         MarkSubmitted, VenueExecute, ParkUncertain, RejectEmpty, CommitFill,
         EndCycle, NextRow, TypeOK
<1>2. CASE orders' = orders
  BY <1>1, <1>2, NothingMoves
<1>3. CASE RecordRow(s)
  <2>1. PICK p \in Predictions, units \in Sizes :
          orders' = [orders EXCEPT ![p] = RecordIntent(orders[p], units)]
    BY <1>3 DEF RecordRow, TypeOK
  <2>2. orders[p] \in OrderRow /\ units \in Nat
    BY RowNumbers, TradingLoopAssumption
  <2>3. orders'[p].status = "intent" \/ orders'[p] = orders[p]
    BY <2>1, <2>2, RecordIntentType DEF TypeOK
  <2>4. IsUnsettled(p)' => orders'[p] = orders[p]
    BY <2>3 DEF IsUnsettled, Unsettled
  <2>5. \A q \in Predictions \ {p} : orders'[q] = orders[q]
    BY <2>1 DEF TypeOK
  <2>6. IsUnsettled(p)' => IsUnsettled(p) /\ (OwnOpen(r, p) => OwnOpen(r, p)')
    BY <1>1, <2>4 DEF IsUnsettled, OwnOpen, AtVenue
  <2>7. QED
    BY <1>1, <2>5, <2>6, StandsStill
<1>4. CASE MarkSubmitted(s)
  <2>1. PICK p \in Predictions : p = cur[s]
    BY <1>4 DEF MarkSubmitted, TypeOK
  <2>2. CASE /\ orders' = [orders EXCEPT ![p] = Transition(orders[p], "submitted")]
             /\ pc' = [pc EXCEPT ![s] = "sending"]
    <3>1. p \in SentByRival(r)
      BY <1>4, <2>1, <2>2 DEF MarkSubmitted, SentByRival, Sends, TypeOK
    <3>2. \A q \in Predictions \ {p} : orders'[q] = orders[q]
      BY <2>2 DEF TypeOK
    <3>3. QED
      BY <1>1, <3>1, <3>2, StandsStill
  <2>3. QED
    BY <1>2, <1>4, <2>1, <2>2 DEF MarkSubmitted
<1>5. CASE ParkUncertain(s) \/ RejectEmpty(s) \/ CommitFill(s)
  <2>1. PICK p \in Predictions : p = cur[s]
    BY <1>5 DEF ParkUncertain, RejectEmpty, CommitFill, TypeOK
  <2>2. AtVenue(s)
    BY <1>5 DEF ParkUncertain, RejectEmpty, CommitFill, AtVenue
  <2>3. orders[p].status = "submitted"
    BY <2>1, <2>2 DEF OneSenderPerOrder
  <2>4. ~OwnOpen(r, p) /\ IsUnsettled(p)
    BY <2>1, <2>2, <2>3 DEF OneSenderPerOrder, OwnOpen, IsUnsettled, Unsettled
  <2>5. \A q \in Predictions \ {p} : orders'[q] = orders[q]
    BY <1>5, <2>1 DEF ParkUncertain, RejectEmpty, CommitFill, TypeOK
  <2>6. QED
    BY <1>1, <2>4, <2>5, StandsStill
<1>6. QED
  BY <1>2, <1>3, <1>4, <1>5
     DEF Cycle, LoadBook, ReconcilePasses, ReconcileHalts, UnsettledHalts,
         RequireSettled, CycleEnds, RefuseRow, ReadOrder, VenueExecute

LEMMA OperatorAccounted ==
  ASSUME TypeOK, AllAccounted, Remember, NEW r \in Runners, NEW p \in Predictions,
         OperatorBooks(p) \/ OperatorCloses(p)
  PROVE  Accounted(r)'
<1>1. pc' = pc /\ cur' = cur /\ fills' = fills
  BY DEF OperatorBooks, OperatorCloses, cycle
<1>2. cur[r] # p /\ IsUnsettled(p)
  BY DEF OperatorBooks, OperatorCloses, InHand
<1>3. PICK row :
        /\ row.status \in {"partially_filled", "filled", "rejected", "cancelled"}
        /\ row.status \in Unsettled => row.status = "partially_filled"
        /\ orders' = [orders EXCEPT ![p] = row]
  <2>1. CASE OperatorBooks(p)
    BY <2>1, OperatorBooksRow, TypeHalves, RecordFillType, RowNumbers DEF Unsettled
  <2>2. CASE OperatorCloses(p)
    BY <2>2, OperatorClosesRow, TypeHalves, TransitionType, RowNumbers DEF Unsettled
  <2>3. QED
    BY <2>1, <2>2
<1>4. orders'[p] = row /\ \A q \in Predictions \ {p} : orders'[q] = orders[q]
  BY <1>3 DEF TypeOK
<1>5. IsUnsettled(p)' => (OwnOpen(r, p) => OwnOpen(r, p)')
  BY <1>1, <1>2, <1>3, <1>4 DEF OwnOpen, IsUnsettled, Unsettled
<1>6. QED
  BY <1>1, <1>2, <1>4, <1>5, StandsStill

LEMMA InitAccounted == MCInit => AllAccounted
BY DEF MCInit, Init, AllAccounted, Accounted, Working

LEMMA AccountedStep ==
  TypeOK /\ OneSenderPerOrder /\ AllAccounted
    /\ [MCNext]_<<part, cycles, placement, session>> => AllAccounted'
<1> SUFFICES ASSUME TypeOK, OneSenderPerOrder, AllAccounted,
                    (Next /\ Remember) \/ UNCHANGED cycles
             PROVE  AllAccounted'
  BY DEF MCNext, cycles
<1>1. CASE UNCHANGED cycles
  BY <1>1 DEF cycles, vars, cycle, AllAccounted, Accounted, OwnOpen, AtVenue,
              IsUnsettled
<1>2. CASE Next /\ Remember
  <2>1. meanwhile' \in [Runners -> SUBSET Predictions]
    BY <1>2, RemembersType DEF AllAccounted
  <2> SUFFICES ASSUME NEW r \in Runners
               PROVE  Accounted(r)'
    BY <2>1 DEF AllAccounted
  <2>2. ASSUME NEW s \in Runners, Cycle(s)
        PROVE  Accounted(r)'
    BY <1>2, <2>2, OwnStep, RivalStep
  <2>3. ASSUME NEW s \in Runners, Crash(s)
        PROVE  Accounted(r)'
    <3>1. CASE s = r
      BY <2>3, <3>1, EndsUnaccountable DEF Crash
    <3>2. CASE s # r
      BY <1>2, <2>3, <3>2, NothingMoves DEF Crash, EndCycle, TypeOK
    <3>3. QED
      BY <3>1, <3>2
  <2>4. ASSUME NEW p \in Predictions, Resolve(p) \/ VenueWorks(p)
        PROVE  Accounted(r)'
    BY <1>2, <2>4, NothingMoves DEF Resolve, VenueWorks, cycle
  <2>5. ASSUME NEW p \in Predictions, OperatorBooks(p) \/ OperatorCloses(p)
        PROVE  Accounted(r)'
    BY <1>2, <2>5, OperatorAccounted
  <2>6. QED
    BY <1>2, <2>2, <2>3, <2>4, <2>5 DEF Next
<1>3. QED
  BY <1>1, <1>2

(* No cycle sends an order while another one is open, but for the partial   *)
(* fills of that very cycle and what a rival has sent since it looked: for  *)
(* any number of overlapping, dying and restarting runners (loop.py         *)
(* require_settled_orders, which looks once per cycle).                     *)
THEOREM NobodyTradesAroundUnsettled == MCSpec => NoTradingAroundUnsettled
<1>1. MCSpec => [](TypeOK /\ OneSenderPerOrder)
  BY CycleOfThePath, TypeCorrect, OneSender, PTL
<1>2. MCSpec => []AllAccounted
  BY <1>1, InitAccounted, AccountedStep, PTL DEF MCSpec
<1>3. AllAccounted =>
        \A r \in Runners, p \in Predictions :
          Sends(r, p) =>
            \A other \in Predictions \ ({p} \cup meanwhile[r]) :
              IsUnsettled(other) =>
                orders[other].status = "partially_filled" /\ other \in fills[r]
  BY DEF AllAccounted, Accounted, Sends, Working, OwnOpen, AtVenue
<1>4. QED
  BY <1>2, <1>3, PTL DEF NoTradingAroundUnsettled

------------------------------------------------------------------------------
(* One rotation at a time: the process in the section has the lock, as long *)
(* as no lock session has died (venue/manager.py _rotation_lock).           *)
HoldsLock ==
  /\ phase \in [Processes -> {"idle", "waiting"} \cup Rotation!InSection]
  /\ lock \in Processes \cup {None}
  /\ ~unlocked => \A p \in Processes : phase[p] \in Rotation!InSection => lock = p

(* A process that leaves the section, and gives up the lock if it has it.   *)
LEMMA LeavesSection ==
  ASSUME HoldsLock, NEW p \in Processes, Rotation!Return(p), unlocked' = unlocked,
         lock' = lock \/ Rotation!Unlock(p)
  PROVE  HoldsLock'
<1>1. phase' = [phase EXCEPT ![p] = "idle"]
  BY DEF Rotation!Return
<1>2. lock' = lock \/ (lock = p /\ lock' = None)
  BY DEF Rotation!Unlock
<1>3. \A q \in Processes : phase'[q] \in Rotation!InSection =>
        q # p /\ phase'[q] = phase[q]
  BY <1>1 DEF HoldsLock, Rotation!InSection
<1>4. QED
  BY <1>1, <1>2, <1>3 DEF HoldsLock

LEMMA HoldsLockStep ==
  HoldsLock /\ [Rotation!Next]_session => HoldsLock'
<1> SUFFICES ASSUME HoldsLock, [Rotation!Next]_session
             PROVE  HoldsLock'
  OBVIOUS
<1> USE MCTradingAssumption DEF Rotation!TokenRotationAssumption
<1>1. ASSUME NEW p \in Processes, Rotation!RefreshVenues(p)
      PROVE  HoldsLock'
  <2>1. CASE Rotation!LoadVenueConfig(p)
    BY <2>1 DEF Rotation!LoadVenueConfig, Rotation!history, HoldsLock,
                Rotation!InSection
  <2>2. CASE Rotation!Busy(p) \/ Rotation!Reconcile(p)
    BY <2>2, LeavesSection DEF Rotation!Busy, Rotation!Reconcile, Rotation!history
  <2>3. CASE Rotation!Connect(p)
    BY <2>3 DEF Rotation!Connect, Rotation!Free, Rotation!history, HoldsLock,
                Rotation!InSection
  <2>4. CASE Rotation!Redeem(p) \/ Rotation!Persist(p)
    BY <2>4 DEF Rotation!Redeem, Rotation!Persist, Rotation!history, HoldsLock,
                Rotation!InSection
  <2>5. CASE \/ Rotation!ConnectFails(p) \/ Rotation!PersistFails(p)
             \/ Rotation!ResolveAccount(p)
    BY <2>5, LeavesSection
       DEF Rotation!ConnectFails, Rotation!PersistFails, Rotation!ResolveAccount,
           Rotation!history
  <2>6. QED
    BY <1>1, <2>1, <2>2, <2>3, <2>4, <2>5 DEF Rotation!RefreshVenues
<1>2. ASSUME NEW p \in Processes, Rotation!Crash(p)
      PROVE  HoldsLock'
  BY <1>2, LeavesSection DEF Rotation!Crash
<1>3. ASSUME NEW p \in Processes, Rotation!LockDies(p)
      PROVE  HoldsLock'
  BY <1>3 DEF Rotation!LockDies, Rotation!refresh, HoldsLock
<1>4. ASSUME UNCHANGED <<phase, lock, unlocked>>
      PROVE  HoldsLock'
  BY <1>4 DEF HoldsLock
<1>5. CASE \/ \E p \in Processes : Rotation!EnsureToken(p) \/ Rotation!Disconnect(p)
           \/ Rotation!StoreCredentials \/ Rotation!ClearCredentials
           \/ \E on \in BOOLEAN : Rotation!SetEnabled(on)
           \/ UNCHANGED session
  BY <1>4, <1>5
     DEF Rotation!EnsureToken, Rotation!Renew, Rotation!RenewLost,
         Rotation!SaveRenewed, Rotation!Disconnect, Rotation!StoreCredentials,
         Rotation!ClearCredentials, Rotation!SetEnabled, Rotation!refresh,
         Rotation!history, session
<1>6. QED
  BY <1>1, <1>2, <1>3, <1>5 DEF Rotation!Next

(* One process at a time exchanges a stored token, for any number of        *)
(* processes, crashes and owner's writes, unless a lock session died under  *)
(* its holder (venue/manager.py refresh_venues, _rotation_lock).            *)
THEOREM OneProcessRotates == MCSpec => []OneRotationAtATime
<1>1. MCInit => HoldsLock
  BY DEF MCInit, Rotation!Init, HoldsLock, Rotation!InSection
<1>2. [MCNext]_<<part, cycles, placement, session>> => [Rotation!Next]_session
  BY DEF MCNext
<1>3. HoldsLock => OneRotationAtATime
  BY DEF HoldsLock, OneRotationAtATime, Rotation!OneRotationAtATime
<1>4. QED
  BY <1>1, <1>2, <1>3, HoldsLockStep, PTL DEF MCSpec

------------------------------------------------------------------------------
(* The chain of tokens.  A token the exchange has just handed out is taken  *)
(* and is nowhere but in the hand of the process it was given to, until     *)
(* that process saves it; so no one can consume it, or save over it one it  *)
(* would be confused with.                                                  *)
Unknown(token) ==
  /\ token # stored
  /\ \A q \in Processes :
       token # config[q].token /\ token # live[q] /\ token # renewal[q].from

RotatedIsFresh(p) ==
  phase[p] = "persisting" =>
    /\ rotated[p] \in redeemable /\ Unknown(rotated[p])
    /\ \A q \in Processes : rotated[p] # renewal[q].to
    /\ \A q \in Processes \ {p} : rotated[p] # rotated[q]

RenewedIsFresh(p) ==
  renewal[p] # Rotation!NoRenewal =>
    /\ renewal[p].to \in redeemable /\ Unknown(renewal[p].to)
    /\ \A q \in Processes : renewal[p].to # rotated[q]
    /\ \A q \in Processes \ {p} : renewal[p].to # renewal[q].to

AllFresh == \A p \in Processes : RotatedIsFresh(p) /\ RenewedIsFresh(p)

(* There is always a token nobody has.                                      *)
TokensLast == \E token \in Tokens : token \notin Rotation!InUse

LEMMA NewTokenIsNew ==
  ASSUME TokensLast
  PROVE  Rotation!NewToken \in Tokens /\ Rotation!NewToken \notin Rotation!InUse
BY DEF TokensLast, Rotation!NewToken

LEMMA InUseHas ==
  ASSUME NEW token, token \notin Rotation!InUse
  PROVE  /\ Unknown(token)
         /\ \A q \in Processes : token # rotated[q] /\ token # renewal[q].to
BY DEF Rotation!InUse, Unknown

LEMMA SessionTypes ==
  ASSUME Rotation!TypeOK, NEW p \in Processes
  PROVE  /\ stored \in Tokens \cup {None} /\ redeemable \subseteq Tokens
         /\ config[p].token \in Tokens \cup {None}
         /\ rotated[p] \in Tokens \cup {None}
         /\ live[p] \in Tokens \cup {None}
         /\ renewal[p] \in [from : Tokens \cup {None}, to : Tokens \cup {None}]
         /\ renewal[p].from \in Tokens \cup {None}
         /\ renewal[p].to \in Tokens \cup {None}
         /\ None \notin redeemable
BY MCTradingAssumption DEF Rotation!TypeOK, Rotation!TokenRotationAssumption

(* A step after which tokens are only forgotten.                            *)
LEMMA FreshKept ==
  ASSUME Rotation!TypeOK, AllFresh,
         \A p \in Processes : phase'[p] = "persisting" =>
           /\ phase[p] = "persisting" /\ rotated'[p] = rotated[p]
           /\ rotated[p] \in redeemable',
         \A p \in Processes : renewal'[p] # Rotation!NoRenewal =>
           renewal'[p] = renewal[p] /\ renewal[p].to \in redeemable',
         \A p \in Processes : /\ rotated'[p] \in {rotated[p], None}
                              /\ renewal'[p] \in {renewal[p], Rotation!NoRenewal},
         \A token : Unknown(token) /\ token # None => Unknown(token)'
  PROVE  AllFresh'
<1>1. ASSUME NEW p \in Processes, phase'[p] = "persisting"
      PROVE  RotatedIsFresh(p)'
  <2>1. /\ rotated'[p] = rotated[p] /\ rotated[p] \in redeemable'
        /\ RotatedIsFresh(p) /\ phase[p] = "persisting"
    BY <1>1 DEF AllFresh
  <2>2. rotated[p] # None
    BY <2>1, SessionTypes DEF RotatedIsFresh
  <2>3. Unknown(rotated[p])'
    BY <2>1, <2>2 DEF RotatedIsFresh
  <2>4. \A q \in Processes : rotated[p] # renewal'[q].to
    BY <2>1, <2>2 DEF RotatedIsFresh, Rotation!NoRenewal
  <2>5. \A q \in Processes \ {p} : rotated[p] # rotated'[q]
    BY <2>1, <2>2 DEF RotatedIsFresh
  <2>6. QED
    BY <2>1, <2>3, <2>4, <2>5 DEF RotatedIsFresh
<1>2. ASSUME NEW p \in Processes, renewal'[p] # Rotation!NoRenewal
      PROVE  RenewedIsFresh(p)'
  <2>1. /\ renewal'[p] = renewal[p] /\ renewal[p].to \in redeemable'
        /\ RenewedIsFresh(p) /\ renewal[p] # Rotation!NoRenewal
    BY <1>2 DEF AllFresh
  <2>2. renewal[p].to # None
    BY <2>1, SessionTypes DEF RenewedIsFresh
  <2>3. Unknown(renewal[p].to)'
    BY <2>1, <2>2 DEF RenewedIsFresh
  <2>4. \A q \in Processes : renewal[p].to # rotated'[q]
    BY <2>1, <2>2 DEF RenewedIsFresh
  <2>5. \A q \in Processes \ {p} : renewal[p].to # renewal'[q].to
    BY <2>1, <2>2 DEF RenewedIsFresh, Rotation!NoRenewal
  <2>6. QED
    BY <2>1, <2>3, <2>4, <2>5 DEF RenewedIsFresh
<1>3. QED
  BY <1>1, <1>2 DEF AllFresh, RotatedIsFresh, RenewedIsFresh

(* Whoever consumes a known token leaves the fresh ones alone.              *)
LEMMA FreshNotConsumed ==
  ASSUME AllFresh, NEW token, ~Unknown(token),
         (redeemable \cap Rotation!InUse) \ {token} \subseteq redeemable'
  PROVE  /\ \A p \in Processes : phase[p] = "persisting" => rotated[p] \in redeemable'
         /\ \A p \in Processes : renewal[p] # Rotation!NoRenewal =>
              renewal[p].to \in redeemable'
<1>1. \A p \in Processes : rotated[p] \in Rotation!InUse
                           /\ renewal[p].to \in Rotation!InUse
  BY DEF Rotation!InUse
<1>2. QED
  BY <1>1 DEF AllFresh, RotatedIsFresh, RenewedIsFresh

(* The type invariant in two halves: the flags, and what holds tokens.      *)
FlagsTyped == enabled \in BOOLEAN /\ severed \in BOOLEAN /\ unlocked \in BOOLEAN

SlotsTyped ==
  /\ stored \in Tokens \cup {None}
  /\ redeemable \subseteq Tokens
  /\ lock \in Processes \cup {None}
  /\ phase \in [Processes -> {"idle", "waiting"} \cup Rotation!InSection]
  /\ config \in [Processes -> [token : Tokens \cup {None}, enabled : BOOLEAN]]
  /\ rotated \in [Processes -> Tokens \cup {None}]
  /\ live \in [Processes -> Tokens \cup {None}]
  /\ renewal \in [Processes -> [from : Tokens \cup {None}, to : Tokens \cup {None}]]
  /\ events \in 0..MaxEvents
  /\ \A p \in Processes :
       phase[p] \in {"persisting", "resolving"} <=> rotated[p] # None

LEMMA SessionHalves == Rotation!TypeOK <=> FlagsTyped /\ SlotsTyped
BY Zenon DEF Rotation!TypeOK, FlagsTyped, SlotsTyped

LEMMA FlagsStep ==
  ASSUME FlagsTyped, [Rotation!Next]_session
  PROVE  FlagsTyped'
<1> USE DEF Rotation!history, Rotation!settings, FlagsTyped
<1>1. CASE \E p \in Processes : Rotation!RefreshVenues(p)
  BY <1>1, Zenon
     DEF Rotation!RefreshVenues, Rotation!LoadVenueConfig, Rotation!Busy,
         Rotation!Reconcile, Rotation!Connect, Rotation!Redeem,
         Rotation!ConnectFails, Rotation!Persist, Rotation!PersistFails,
         Rotation!ResolveAccount, Rotation!Loses
<1>2. CASE \E p \in Processes : \/ Rotation!EnsureToken(p) \/ Rotation!Disconnect(p)
                               \/ Rotation!LockDies(p) \/ Rotation!Crash(p)
  BY <1>2, Zenon
     DEF Rotation!EnsureToken, Rotation!Renew, Rotation!RenewLost,
         Rotation!SaveRenewed, Rotation!Disconnect, Rotation!LockDies,
         Rotation!Crash, Rotation!Loses
<1>3. CASE \/ Rotation!StoreCredentials \/ Rotation!ClearCredentials
           \/ \E on \in BOOLEAN : Rotation!SetEnabled(on)
  BY <1>3, Zenon
     DEF Rotation!StoreCredentials, Rotation!ClearCredentials, Rotation!SetEnabled
<1>4. CASE UNCHANGED session
  BY <1>4, Zenon DEF session
<1>5. QED
  BY <1>1, <1>2, <1>3, <1>4 DEF Rotation!Next

(* The slots keep their types, step by step.                                *)
LEMMA SlotsStep ==
  ASSUME SlotsTyped, FlagsTyped, TokensLast, [Rotation!Next]_session
  PROVE  SlotsTyped'
<1> USE MCTradingAssumption DEF Rotation!TokenRotationAssumption, SlotsTyped,
        Rotation!InSection, Rotation!history, Rotation!refresh, Rotation!settings
<1>1. Rotation!NewToken \in Tokens
  BY NewTokenIsNew
<1>2. ASSUME NEW p \in Processes, Rotation!RefreshVenues(p)
      PROVE  SlotsTyped'
  <2>1. CASE Rotation!LoadVenueConfig(p)
    BY <2>1 DEF Rotation!LoadVenueConfig, FlagsTyped
  <2>2. CASE Rotation!Busy(p)
    BY <2>2 DEF Rotation!Busy, Rotation!Return, Rotation!Unread
  <2>3. CASE Rotation!Reconcile(p)
    <3>1. live' \in [Processes -> Tokens \cup {None}]
      BY <2>3 DEF Rotation!Reconcile
    <3>2. QED
      BY <2>3, <3>1 DEF Rotation!Reconcile, Rotation!Return, Rotation!Unread
  <2>4. CASE Rotation!Connect(p)
    BY <2>4 DEF Rotation!Connect
  <2>5. CASE Rotation!Redeem(p)
    BY <1>1, <2>5 DEF Rotation!Redeem, Rotation!Takes
  <2>6. CASE Rotation!ConnectFails(p)
    BY <2>6 DEF Rotation!ConnectFails, Rotation!Loses, Rotation!Event,
                Rotation!Return, Rotation!Unlock, Rotation!Unread
  <2>7. CASE Rotation!Persist(p)
    BY <2>7 DEF Rotation!Persist
  <2>8. CASE Rotation!PersistFails(p)
    BY <2>8 DEF Rotation!PersistFails, Rotation!Event, Rotation!Return,
                Rotation!Unlock, Rotation!Unread
  <2>9. CASE Rotation!ResolveAccount(p)
    <3>1. live' \in [Processes -> Tokens \cup {None}]
      BY <2>9 DEF Rotation!ResolveAccount
    <3>2. QED
      BY <2>9, <3>1 DEF Rotation!ResolveAccount, Rotation!Return, Rotation!Unlock,
                        Rotation!Unread
  <2>10. QED
    BY <1>2, <2>1, <2>2, <2>3, <2>4, <2>5, <2>6, <2>7, <2>8, <2>9
       DEF Rotation!RefreshVenues
<1>3. ASSUME NEW p \in Processes, Rotation!EnsureToken(p)
      PROVE  SlotsTyped'
  <2>1. CASE Rotation!Renew(p)
    BY <1>1, <2>1 DEF Rotation!Renew, Rotation!Takes
  <2>2. CASE Rotation!RenewLost(p)
    BY <2>2 DEF Rotation!RenewLost, Rotation!Loses, Rotation!Event
  <2>3. CASE Rotation!SaveRenewed(p)
    <3>1. renewal[p].to \in Tokens \cup {None}
      OBVIOUS
    <3>2. live' \in [Processes -> Tokens \cup {None}]
      BY <2>3, <3>1 DEF Rotation!SaveRenewed
    <3>3. renewal' \in [Processes -> [from : Tokens \cup {None}, to : Tokens \cup {None}]]
      BY <2>3 DEF Rotation!SaveRenewed, Rotation!NoRenewal
    <3>4. QED
      BY <2>3, <3>1, <3>2, <3>3 DEF Rotation!SaveRenewed
  <2>4. QED
    BY <1>3, <2>1, <2>2, <2>3 DEF Rotation!EnsureToken
<1>4. ASSUME NEW p \in Processes,
             Rotation!Disconnect(p) \/ Rotation!LockDies(p)
      PROVE  SlotsTyped'
  BY <1>4 DEF Rotation!Disconnect, Rotation!LockDies, Rotation!Event
<1>5. ASSUME NEW p \in Processes, Rotation!Crash(p)
      PROVE  SlotsTyped'
  BY <1>5 DEF Rotation!Crash, Rotation!Event, Rotation!Return, Rotation!Unlock,
              Rotation!Unread, Rotation!NoRenewal
<1>6. CASE \/ Rotation!StoreCredentials \/ Rotation!ClearCredentials
           \/ \E on \in BOOLEAN : Rotation!SetEnabled(on)
  BY <1>1, <1>6 DEF Rotation!StoreCredentials, Rotation!ClearCredentials,
                    Rotation!SetEnabled, Rotation!Event
<1>7. CASE UNCHANGED session
  BY <1>7 DEF session
<1>8. QED
  BY <1>2, <1>3, <1>4, <1>5, <1>6, <1>7 DEF Rotation!Next

LEMMA SessionTypeStep ==
  Rotation!TypeOK /\ TokensLast /\ [Rotation!Next]_session => Rotation!TypeOK'
<1>1. Rotation!TypeOK' <=> FlagsTyped' /\ SlotsTyped'
  BY SessionHalves, PTL
<1>2. QED
  BY <1>1, SessionHalves, FlagsStep, SlotsStep

(* A step that keeps the witness of a good token, or makes a new one.       *)
TokenInHand(p) == phase[p] = "persisting" /\ config[p].token = stored

LEMMA GoodKept ==
  ASSUME StoredTokenIsGood,
         ~severed' => ~severed,
         ~severed' => stored' = stored,
         stored \in redeemable =>
           \/ stored \in redeemable'
           \/ \E p \in Processes : TokenInHand(p)' \/ renewal'[p].from = stored,
         ~severed' => \A p \in Processes : TokenInHand(p) => TokenInHand(p)',
         ~severed' => \A p \in Processes : renewal[p].from = stored =>
                        renewal'[p] = renewal[p] \/ stored = None
  PROVE  StoredTokenIsGood'
<1> SUFFICES ASSUME ~severed'
             PROVE  \/ stored' \in redeemable' \cup {None}
                    \/ \E p \in Processes : TokenInHand(p)'
                    \/ \E p \in Processes : renewal'[p].from = stored'
  BY DEF StoredTokenIsGood, Rotation!StoredTokenIsGood, TokenInHand
<1>1. \/ stored \in redeemable \cup {None}
      \/ \E p \in Processes : TokenInHand(p)
      \/ \E p \in Processes : renewal[p].from = stored
  BY DEF StoredTokenIsGood, Rotation!StoredTokenIsGood, TokenInHand
<1>2. QED
  BY <1>1

(* The exchange hands out a token for the one a process connects with.      *)
LEMMA RedeemChain ==
  ASSUME Rotation!TypeOK, AllFresh, StoredTokenIsGood, TokensLast,
         NEW p \in Processes, Rotation!Redeem(p)
  PROVE  AllFresh' /\ StoredTokenIsGood'
<1> PICK token : token = config[p].token
  OBVIOUS
<1> PICK new : new = Rotation!NewToken
  OBVIOUS
<1>1. /\ redeemable' = ((redeemable \cap Rotation!InUse) \ {token}) \cup {new}
      /\ rotated' = [rotated EXCEPT ![p] = new]
      /\ phase' = [phase EXCEPT ![p] = "persisting"]
      /\ UNCHANGED <<stored, config, live, renewal, severed>>
      /\ phase[p] = "redeeming"
  BY DEF Rotation!Redeem, Rotation!Takes, Rotation!settings, Rotation!history
<1>2. ~Unknown(token)
  BY DEF Unknown
<1>3. /\ \A q \in Processes : phase[q] = "persisting" => rotated[q] \in redeemable'
      /\ \A q \in Processes : renewal[q] # Rotation!NoRenewal =>
           renewal[q].to \in redeemable'
  BY <1>1, <1>2, FreshNotConsumed
<1>4. /\ Unknown(new)
      /\ \A q \in Processes : new # rotated[q] /\ new # renewal[q].to
  BY NewTokenIsNew, InUseHas
<1>5. \A t : Unknown(t)' <=> Unknown(t)
  BY <1>1 DEF Unknown
<1>6. /\ phase'[p] = "persisting" /\ rotated'[p] = new
      /\ \A q \in Processes \ {p} : phase'[q] = phase[q] /\ rotated'[q] = rotated[q]
  BY <1>1 DEF Rotation!TypeOK
<1>7. ASSUME NEW q \in Processes PROVE RotatedIsFresh(q)' /\ RenewedIsFresh(q)'
  <2>1. CASE q = p
    BY <1>1, <1>3, <1>4, <1>5, <1>6, <2>1
       DEF RotatedIsFresh, RenewedIsFresh, AllFresh
  <2>2. CASE q # p
    BY <1>1, <1>3, <1>4, <1>5, <1>6, <2>2
       DEF RotatedIsFresh, RenewedIsFresh, AllFresh
  <2>3. QED
    BY <2>1, <2>2
<1>8. StoredTokenIsGood'
  <2>1. stored \in Rotation!InUse
    BY DEF Rotation!InUse
  <2>2. \A q \in Processes : TokenInHand(q) => TokenInHand(q)'
    BY <1>1, <1>6 DEF TokenInHand
  <2>3. stored = token => TokenInHand(p)'
    BY <1>1, <1>6 DEF TokenInHand
  <2>4. QED
    BY <1>1, <2>1, <2>2, <2>3, GoodKept
<1>9. QED
  BY <1>7, <1>8 DEF AllFresh

(* The same for the one its live connection uses, with no lock taken.       *)
LEMMA RenewChain ==
  ASSUME Rotation!TypeOK, AllFresh, StoredTokenIsGood, TokensLast,
         NEW p \in Processes, Rotation!Renew(p)
  PROVE  AllFresh' /\ StoredTokenIsGood'
<1> PICK token : token = live[p]
  OBVIOUS
<1> PICK new : new = Rotation!NewToken
  OBVIOUS
<1>1. /\ redeemable' = ((redeemable \cap Rotation!InUse) \ {token}) \cup {new}
      /\ renewal' = [renewal EXCEPT ![p] = [from |-> token, to |-> new]]
      /\ UNCHANGED <<stored, config, live, rotated, phase, severed>>
      /\ renewal[p] = Rotation!NoRenewal
  BY DEF Rotation!Renew, Rotation!Takes, Rotation!settings, Rotation!refresh,
         Rotation!history
<1>2. ~Unknown(token)
  BY DEF Unknown
<1>3. /\ \A q \in Processes : phase[q] = "persisting" => rotated[q] \in redeemable'
      /\ \A q \in Processes : renewal[q] # Rotation!NoRenewal =>
           renewal[q].to \in redeemable'
  BY <1>1, <1>2, FreshNotConsumed
<1>4. /\ Unknown(new)
      /\ \A q \in Processes : new # rotated[q] /\ new # renewal[q].to
  BY NewTokenIsNew, InUseHas
<1>5. /\ renewal'[p].from = token /\ renewal'[p].to = new
      /\ \A q \in Processes \ {p} : renewal'[q] = renewal[q]
  BY <1>1 DEF Rotation!TypeOK
<1>6. \A t : Unknown(t) => Unknown(t)'
  BY <1>1, <1>5 DEF Unknown
<1>7. ASSUME NEW q \in Processes PROVE RotatedIsFresh(q)' /\ RenewedIsFresh(q)'
  <2>1. CASE q = p
    BY <1>1, <1>3, <1>4, <1>5, <1>6, <2>1
       DEF RotatedIsFresh, RenewedIsFresh, AllFresh
  <2>2. CASE q # p
    BY <1>1, <1>3, <1>4, <1>5, <1>6, <2>2
       DEF RotatedIsFresh, RenewedIsFresh, AllFresh
  <2>3. QED
    BY <2>1, <2>2
<1>8. StoredTokenIsGood'
  <2>1. stored \in Rotation!InUse
    BY DEF Rotation!InUse
  <2>2. \A q \in Processes : TokenInHand(q) => TokenInHand(q)'
    BY <1>1 DEF TokenInHand
  <2>3. \A q \in Processes : renewal[q].from = stored =>
          renewal'[q] = renewal[q] \/ stored = None
    BY <1>1, <1>5 DEF Rotation!NoRenewal
  <2>4. stored = token => renewal'[p].from = stored
    BY <1>5
  <2>5. QED
    BY <1>1, <2>1, <2>2, <2>3, <2>4, GoodKept
<1>9. QED
  BY <1>7, <1>8 DEF AllFresh

(* The token is saved: it is known from now on, and it is still good.       *)
LEMMA PersistChain ==
  ASSUME Rotation!TypeOK, AllFresh, NEW p \in Processes, Rotation!Persist(p)
  PROVE  AllFresh' /\ StoredTokenIsGood'
<1>1. /\ stored' = rotated[p] /\ phase[p] = "persisting"
      /\ phase' = [phase EXCEPT ![p] = "resolving"]
      /\ UNCHANGED <<redeemable, config, live, rotated, renewal, severed>>
  BY DEF Rotation!Persist, Rotation!history
<1>2. RotatedIsFresh(p) /\ rotated[p] \in redeemable
  BY <1>1 DEF AllFresh, RotatedIsFresh
<1>3. StoredTokenIsGood'
  BY <1>1, <1>2 DEF StoredTokenIsGood, Rotation!StoredTokenIsGood
<1>4. \A t : Unknown(t) /\ t # rotated[p] => Unknown(t)'
  BY <1>1 DEF Unknown
<1>5. \A q \in Processes : phase'[q] = "persisting" => q # p /\ phase[q] = "persisting"
  BY <1>1 DEF Rotation!TypeOK
<1>6. ASSUME NEW q \in Processes PROVE RotatedIsFresh(q)' /\ RenewedIsFresh(q)'
  BY <1>1, <1>2, <1>4, <1>5 DEF RotatedIsFresh, RenewedIsFresh, AllFresh
<1>7. QED
  BY <1>3, <1>6 DEF AllFresh

LEMMA SaveRenewedChain ==
  ASSUME Rotation!TypeOK, AllFresh, NEW p \in Processes, Rotation!SaveRenewed(p)
  PROVE  AllFresh' /\ StoredTokenIsGood'
<1> PICK token : token = renewal[p].to
  OBVIOUS
<1>1. /\ renewal[p] # Rotation!NoRenewal /\ stored' = token
      /\ live' = [live EXCEPT ![p] = IF @ = renewal[p].from THEN token ELSE @]
      /\ renewal' = [renewal EXCEPT ![p] = Rotation!NoRenewal]
      /\ UNCHANGED <<redeemable, phase, config, rotated, severed>>
  BY DEF Rotation!SaveRenewed, Rotation!refresh, Rotation!history
<1>2. RenewedIsFresh(p) /\ token \in redeemable
  BY <1>1 DEF AllFresh, RenewedIsFresh
<1>3. StoredTokenIsGood'
  BY <1>1, <1>2 DEF StoredTokenIsGood, Rotation!StoredTokenIsGood
<1>4. /\ renewal'[p] = Rotation!NoRenewal
      /\ \A q \in Processes \ {p} : renewal'[q] = renewal[q]
      /\ \A q \in Processes : live'[q] \in {live[q], token}
  BY <1>1 DEF Rotation!TypeOK
<1>5. \A t : Unknown(t) /\ t # token /\ t # None => Unknown(t)'
  BY <1>1, <1>4 DEF Unknown, Rotation!NoRenewal
<1>6. None \notin redeemable
  BY SessionTypes
<1>7. ASSUME NEW q \in Processes, phase[q] = "persisting"
      PROVE  RotatedIsFresh(q)'
  <2>1. rotated[q] # token /\ rotated[q] # None /\ RotatedIsFresh(q)
    BY <1>1, <1>2, <1>6, <1>7 DEF AllFresh, RenewedIsFresh, RotatedIsFresh
  <2>2. QED
    BY <1>1, <1>4, <1>5, <1>7, <2>1 DEF RotatedIsFresh, Rotation!NoRenewal
<1>8. ASSUME NEW q \in Processes, renewal'[q] # Rotation!NoRenewal
      PROVE  RenewedIsFresh(q)'
  <2>1. q # p /\ renewal'[q] = renewal[q]
    BY <1>4, <1>8
  <2>2. renewal[q].to # token /\ renewal[q].to # None /\ RenewedIsFresh(q)
    BY <1>1, <1>2, <1>6, <1>8, <2>1 DEF AllFresh, RenewedIsFresh
  <2>3. QED
    BY <1>1, <1>4, <1>5, <1>8, <2>1, <2>2 DEF RenewedIsFresh, Rotation!NoRenewal
<1>9. QED
  BY <1>1, <1>3, <1>7, <1>8 DEF AllFresh, RotatedIsFresh, RenewedIsFresh

(* The owner brings a token of his own.                                     *)
LEMMA StoreCredentialsChain ==
  ASSUME Rotation!TypeOK, AllFresh, TokensLast, Rotation!StoreCredentials
  PROVE  AllFresh' /\ StoredTokenIsGood'
<1> PICK new : new = Rotation!NewToken
  OBVIOUS
<1>1. /\ stored' = new
      /\ redeemable' = (redeemable \cap Rotation!InUse) \cup {new}
      /\ UNCHANGED <<phase, config, live, rotated, renewal, severed>>
  BY DEF Rotation!StoreCredentials, Rotation!refresh
<1>2. /\ Unknown(new)
      /\ \A q \in Processes : new # rotated[q] /\ new # renewal[q].to
  BY NewTokenIsNew, InUseHas
<1>3. \A t : Unknown(t) /\ t # new => Unknown(t)'
  BY <1>1 DEF Unknown
<1>4. /\ \A q \in Processes : phase[q] = "persisting" => rotated[q] \in redeemable'
      /\ \A q \in Processes : renewal[q] # Rotation!NoRenewal =>
           renewal[q].to \in redeemable'
  <2>1. ~Unknown(stored)
    BY DEF Unknown
  <2>2. (redeemable \cap Rotation!InUse) \ {stored} \subseteq redeemable'
    BY <1>1
  <2>3. QED
    BY <2>1, <2>2, FreshNotConsumed
<1>5. ASSUME NEW q \in Processes PROVE RotatedIsFresh(q)' /\ RenewedIsFresh(q)'
  BY <1>1, <1>2, <1>3, <1>4 DEF RotatedIsFresh, RenewedIsFresh, AllFresh
<1>6. StoredTokenIsGood'
  BY <1>1 DEF StoredTokenIsGood, Rotation!StoredTokenIsGood
<1>7. QED
  BY <1>5, <1>6 DEF AllFresh

(* An answer that is lost: the token is gone, and so is the chain.          *)
LEMMA LosesKeepsFresh ==
  ASSUME AllFresh, NEW token, ~Unknown(token), Rotation!Loses(token)
  PROVE  /\ \A q \in Processes : phase[q] = "persisting" => rotated[q] \in redeemable'
         /\ \A q \in Processes : renewal[q] # Rotation!NoRenewal =>
              renewal[q].to \in redeemable'
         /\ severed'
<1>1. redeemable' = (redeemable \cap Rotation!InUse) \ {token} /\ severed'
  BY DEF Rotation!Loses
<1>2. (redeemable \cap Rotation!InUse) \ {token} \subseteq redeemable'
  BY <1>1
<1>3. QED
  BY <1>1, <1>2, FreshNotConsumed

LEMMA FreshIsRedeemable ==
  ASSUME AllFresh, NEW q \in Processes
  PROVE  /\ phase[q] = "persisting" => rotated[q] \in redeemable
         /\ renewal[q] # Rotation!NoRenewal => renewal[q].to \in redeemable
BY DEF AllFresh, RotatedIsFresh, RenewedIsFresh

(* What a process that returns leaves behind.                               *)
LEMMA ReturnForgets ==
  ASSUME Rotation!TypeOK, NEW p \in Processes, Rotation!Return(p)
  PROVE  /\ \A q \in Processes : phase'[q] = "persisting" =>
              q # p /\ phase[q] = "persisting" /\ rotated'[q] = rotated[q]
         /\ \A q \in Processes : rotated'[q] \in {rotated[q], None}
         /\ \A q \in Processes : config'[q].token \in {config[q].token, None}
         /\ \A q \in Processes \ {p} : phase'[q] = phase[q] /\ config'[q] = config[q]
BY DEF Rotation!TypeOK, Rotation!Return, Rotation!Unread, Rotation!InSection

LEMMA RefreshEndsChain ==
  ASSUME Rotation!TypeOK, AllFresh, StoredTokenIsGood, NEW p \in Processes,
         \/ Rotation!Busy(p) \/ Rotation!Reconcile(p) \/ Rotation!ConnectFails(p)
         \/ Rotation!PersistFails(p) \/ Rotation!ResolveAccount(p)
  PROVE  AllFresh' /\ StoredTokenIsGood'
<1>1. Rotation!Return(p) /\ UNCHANGED <<stored, renewal>>
  BY DEF Rotation!Busy, Rotation!Reconcile, Rotation!ConnectFails,
         Rotation!PersistFails, Rotation!ResolveAccount, Rotation!settings
<1>2. /\ \A q \in Processes : phase[q] = "persisting" => rotated[q] \in redeemable'
      /\ \A q \in Processes : renewal[q] # Rotation!NoRenewal =>
           renewal[q].to \in redeemable'
      /\ ~severed' => redeemable' = redeemable
      /\ ~severed' => ~severed
  <2>1. CASE UNCHANGED <<redeemable, severed>>
    BY <2>1, FreshIsRedeemable
  <2>2. CASE Rotation!Loses(config[p].token)
    BY <2>2, LosesKeepsFresh DEF Unknown
  <2>3. CASE UNCHANGED redeemable /\ severed' = TRUE
    BY <2>3, FreshIsRedeemable
  <2>4. QED
    BY <2>1, <2>2, <2>3
       DEF Rotation!Busy, Rotation!Reconcile, Rotation!ConnectFails,
           Rotation!PersistFails, Rotation!ResolveAccount, Rotation!history
<1>3. \A q \in Processes : live'[q] \in {live[q], None} \/ live'[q] = rotated[p]
  BY DEF Rotation!Busy, Rotation!Reconcile, Rotation!ConnectFails,
         Rotation!PersistFails, Rotation!ResolveAccount, Rotation!TypeOK
<1>4. \A t : Unknown(t) /\ t # None /\ t # rotated[p] => Unknown(t)'
  BY <1>1, <1>3, ReturnForgets DEF Unknown
<1>5. ASSUME NEW q \in Processes, phase'[q] = "persisting"
      PROVE  RotatedIsFresh(q)'
  <2>1. /\ q # p /\ phase[q] = "persisting" /\ rotated'[q] = rotated[q]
        /\ RotatedIsFresh(q)
    BY <1>1, <1>5, ReturnForgets DEF AllFresh
  <2>2. rotated[q] # None /\ rotated[q] # rotated[p]
    BY <2>1, SessionTypes DEF RotatedIsFresh
  <2>3. QED
    BY <1>1, <1>2, <1>4, <2>1, <2>2, ReturnForgets DEF RotatedIsFresh
<1>6. ASSUME NEW q \in Processes, renewal[q] # Rotation!NoRenewal
      PROVE  RenewedIsFresh(q)'
  <2>1. RenewedIsFresh(q)
    BY DEF AllFresh
  <2>2. renewal[q].to # None /\ renewal[q].to # rotated[p]
    BY <1>6, <2>1, SessionTypes DEF RenewedIsFresh
  <2>3. QED
    BY <1>1, <1>2, <1>4, <1>6, <2>1, <2>2, ReturnForgets DEF RenewedIsFresh
<1>7. AllFresh'
  BY <1>1, <1>5, <1>6 DEF AllFresh, RotatedIsFresh, RenewedIsFresh
<1>8. phase[p] = "persisting" => severed'
  BY DEF Rotation!Busy, Rotation!Reconcile, Rotation!ConnectFails,
         Rotation!PersistFails, Rotation!ResolveAccount
<1>9. ~severed' => \A q \in Processes : TokenInHand(q) => TokenInHand(q)'
  BY <1>1, <1>8, ReturnForgets DEF TokenInHand
<1>10. StoredTokenIsGood'
  <2>1. SUFFICES ASSUME ~severed' PROVE StoredTokenIsGood'
    BY DEF StoredTokenIsGood, Rotation!StoredTokenIsGood
  <2>2. QED
    BY <1>1, <1>2, <1>9, <2>1, GoodKept
<1>11. QED
  BY <1>7, <1>10

LEMMA CrashChain ==
  ASSUME Rotation!TypeOK, AllFresh, StoredTokenIsGood, NEW p \in Processes,
         Rotation!Crash(p)
  PROVE  AllFresh' /\ StoredTokenIsGood'
<1>1. /\ Rotation!Return(p) /\ UNCHANGED <<stored, redeemable>>
      /\ renewal' = [renewal EXCEPT ![p] = Rotation!NoRenewal]
      /\ live' = [live EXCEPT ![p] = None]
  BY DEF Rotation!Crash, Rotation!settings
<1>2. /\ ~severed' => ~severed
      /\ phase[p] = "persisting" => severed'
      /\ renewal[p] # Rotation!NoRenewal => severed'
  BY Zenon DEF Rotation!Crash
<1>3. /\ \A q \in Processes : renewal'[q] \in {renewal[q], Rotation!NoRenewal}
      /\ \A q \in Processes : live'[q] \in {live[q], None}
      /\ \A q \in Processes \ {p} : renewal'[q] = renewal[q]
  BY <1>1 DEF Rotation!TypeOK
<1>4. \A t : Unknown(t) /\ t # None => Unknown(t)'
  BY <1>1, <1>3, ReturnForgets DEF Unknown, Rotation!NoRenewal
<1>5. AllFresh'
  BY <1>1, <1>3, <1>4, ReturnForgets, FreshIsRedeemable, FreshKept
<1>6. StoredTokenIsGood'
  <2>1. SUFFICES ASSUME ~severed' PROVE StoredTokenIsGood'
    BY DEF StoredTokenIsGood, Rotation!StoredTokenIsGood
  <2>2. \A q \in Processes : TokenInHand(q) => TokenInHand(q)'
    BY <1>1, <1>2, <2>1, ReturnForgets DEF TokenInHand
  <2>3. \A q \in Processes : renewal'[q] = renewal[q]
    BY <1>2, <1>3, <2>1, <1>1 DEF Rotation!TypeOK
  <2>4. QED
    BY <1>1, <1>2, <2>1, <2>2, <2>3, GoodKept
<1>7. QED
  BY <1>5, <1>6

(* The steps that move no token but to forget it.                           *)
LEMMA OtherChain ==
  ASSUME Rotation!TypeOK, AllFresh, StoredTokenIsGood,
         \/ \E p \in Processes :
              \/ Rotation!LoadVenueConfig(p) \/ Rotation!Connect(p)
              \/ Rotation!RenewLost(p) \/ Rotation!Disconnect(p)
              \/ Rotation!LockDies(p)
         \/ Rotation!ClearCredentials
         \/ \E on \in BOOLEAN : Rotation!SetEnabled(on)
         \/ UNCHANGED session
  PROVE  AllFresh' /\ StoredTokenIsGood'
<1> USE DEF Rotation!settings, Rotation!refresh, Rotation!history
<1>1. ASSUME NEW p \in Processes,
             Rotation!LoadVenueConfig(p) \/ Rotation!Connect(p)
      PROVE  AllFresh' /\ StoredTokenIsGood'
  <2>1. UNCHANGED <<stored, redeemable, rotated, live, renewal, severed>>
    BY <1>1 DEF Rotation!LoadVenueConfig, Rotation!Connect
  <2>2. \A q \in Processes :
          /\ phase[q] = "persisting" <=> phase'[q] = "persisting"
          /\ phase[q] = "persisting" => config'[q] = config[q]
          /\ config'[q].token \in {config[q].token, stored}
    BY <1>1 DEF Rotation!LoadVenueConfig, Rotation!Connect, Rotation!TypeOK,
                Rotation!InSection
  <2>3. \A t : Unknown(t) => Unknown(t)'
    BY <2>1, <2>2 DEF Unknown
  <2>4. AllFresh'
    BY <2>1, <2>2, <2>3, FreshIsRedeemable, FreshKept
  <2>5. StoredTokenIsGood'
    BY <2>1, <2>2, GoodKept DEF TokenInHand
  <2>6. QED
    BY <2>4, <2>5
<1>2. ASSUME NEW p \in Processes, Rotation!RenewLost(p)
      PROVE  AllFresh' /\ StoredTokenIsGood'
  <2>1. /\ UNCHANGED <<stored, phase, config, rotated, live, renewal>>
        /\ Rotation!Loses(live[p])
    BY <1>2 DEF Rotation!RenewLost
  <2>2. ~Unknown(live[p])
    BY DEF Unknown
  <2>3. \A t : Unknown(t) => Unknown(t)'
    BY <2>1 DEF Unknown
  <2>4. AllFresh'
    BY <2>1, <2>2, <2>3, LosesKeepsFresh, FreshKept
  <2>5. severed'
    BY <2>1 DEF Rotation!Loses
  <2>6. QED
    BY <2>4, <2>5 DEF StoredTokenIsGood, Rotation!StoredTokenIsGood
<1>3. ASSUME UNCHANGED <<redeemable, phase, config, rotated, renewal, severed>>,
             stored' \in {stored, None},
             \A q \in Processes : live'[q] \in {live[q], None}
      PROVE  AllFresh' /\ StoredTokenIsGood'
  <2>1. \A t : Unknown(t) /\ t # None => Unknown(t)'
    BY <1>3 DEF Unknown
  <2>2. AllFresh'
    BY <1>3, <2>1, FreshIsRedeemable, FreshKept
  <2>3. StoredTokenIsGood'
    BY <1>3 DEF StoredTokenIsGood, Rotation!StoredTokenIsGood
  <2>4. QED
    BY <2>2, <2>3
<1>4. CASE \/ \E p \in Processes : Rotation!Disconnect(p) \/ Rotation!LockDies(p)
           \/ Rotation!ClearCredentials
           \/ \E on \in BOOLEAN : Rotation!SetEnabled(on)
           \/ UNCHANGED session
  <2>1. /\ UNCHANGED <<redeemable, phase, config, rotated, renewal, severed>>
        /\ stored' \in {stored, None}
    BY <1>4, Zenon
       DEF Rotation!Disconnect, Rotation!LockDies, Rotation!ClearCredentials,
           Rotation!SetEnabled, session
  <2>2. \A q \in Processes : live'[q] \in {live[q], None}
    BY <1>4
       DEF Rotation!Disconnect, Rotation!LockDies, Rotation!ClearCredentials,
           Rotation!SetEnabled, session, Rotation!TypeOK
  <2>3. QED
    BY <1>3, <2>1, <2>2
<1>5. QED
  BY <1>1, <1>2, <1>4

ChainSound == Rotation!TypeOK /\ AllFresh /\ StoredTokenIsGood

LEMMA InitChain == MCInit => ChainSound
<1> SUFFICES ASSUME Rotation!Init PROVE ChainSound
  BY DEF MCInit
<1>1. stored \in Tokens /\ redeemable = {stored}
  BY MCTradingAssumption DEF Rotation!Init, Rotation!TokenRotationAssumption
<1>2. Rotation!TypeOK
  <2>1. FlagsTyped
    BY Zenon DEF Rotation!Init, FlagsTyped
  <2>2. SlotsTyped
    BY <1>1, MCTradingAssumption
       DEF Rotation!Init, SlotsTyped, Rotation!TokenRotationAssumption,
           Rotation!Unread, Rotation!NoRenewal
  <2>3. QED
    BY <2>1, <2>2, SessionHalves
<1>3. AllFresh
  BY DEF Rotation!Init, AllFresh, RotatedIsFresh, RenewedIsFresh
<1>4. StoredTokenIsGood
  BY <1>1 DEF StoredTokenIsGood, Rotation!StoredTokenIsGood
<1>5. QED
  BY <1>2, <1>3, <1>4 DEF ChainSound

LEMMA ChainStep ==
  ChainSound /\ TokensLast /\ [Rotation!Next]_session => ChainSound'
<1> SUFFICES ASSUME Rotation!TypeOK, AllFresh, StoredTokenIsGood, TokensLast,
                    [Rotation!Next]_session
             PROVE  AllFresh' /\ StoredTokenIsGood'
  BY SessionTypeStep DEF ChainSound
<1>1. ASSUME NEW p \in Processes, Rotation!RefreshVenues(p)
      PROVE  AllFresh' /\ StoredTokenIsGood'
  BY <1>1, RedeemChain, PersistChain, RefreshEndsChain, OtherChain
     DEF Rotation!RefreshVenues
<1>2. ASSUME NEW p \in Processes, Rotation!EnsureToken(p)
      PROVE  AllFresh' /\ StoredTokenIsGood'
  BY <1>2, RenewChain, SaveRenewedChain, OtherChain DEF Rotation!EnsureToken
<1>3. QED
  BY <1>1, <1>2, StoreCredentialsChain, CrashChain, OtherChain DEF Rotation!Next

(* The stored token never ends up consumed but persisted: unless an answer  *)
(* or a save was lost, the exchange takes the stored token, or the process  *)
(* it answered last is about to store the next one -- with any number of    *)
(* processes, renewals outside the lock, the owner's writes and dead lock   *)
(* sessions (venue/manager.py refresh_venues, questrade_venue.py            *)
(* _ensure_token).                                                          *)
THEOREM TheChainHolds == MCSpec /\ []TokensLast => []StoredTokenIsGood
<1>1. [MCNext]_<<part, cycles, placement, session>> => [Rotation!Next]_session
  BY DEF MCNext
<1>2. ChainSound => StoredTokenIsGood
  BY DEF ChainSound
<1>3. QED
  BY <1>1, <1>2, InitChain, ChainStep, PTL DEF MCSpec

(* The exchange never runs out of tokens: where there is no end to them and *)
(* the processes are finitely many, some token is in nobody's hand.         *)
LEMMA FiniteValues ==
  ASSUME NEW S, IsFiniteSet(S), NEW T, NEW f \in [S -> T]
  PROVE  \E R : IsFiniteSet(R) /\ \A x \in S : f[x] \in R
<1> DEFINE R == {f[x] : x \in S}
<1>1. f \in Surjection(S, R)
  BY DEF Surjection
<1>2. IsFiniteSet(R)
  BY <1>1, FS_Surjection
<1>3. \A x \in S : f[x] \in R
  OBVIOUS
<1>4. QED
  BY <1>2, <1>3

LEMMA TokensDoLast ==
  ASSUME IsFiniteSet(Processes), ~IsFiniteSet(Tokens), Rotation!TypeOK
  PROVE  TokensLast
<1> DEFINE Slot == Tokens \cup {None}
           Read == [p \in Processes |-> config[p].token]
           From == [p \in Processes |-> renewal[p].from]
           To   == [p \in Processes |-> renewal[p].to]
<1>1. /\ Read \in [Processes -> Slot] /\ rotated \in [Processes -> Slot]
      /\ live \in [Processes -> Slot]
      /\ From \in [Processes -> Slot] /\ To \in [Processes -> Slot]
  BY SessionTypes DEF Rotation!TypeOK
<1>2. /\ \A p \in Processes : config[p].token = Read[p]
      /\ \A p \in Processes : renewal[p].from = From[p]
      /\ \A p \in Processes : renewal[p].to = To[p]
  OBVIOUS
<1>3. \A f \in [Processes -> Slot] :
        \E R : IsFiniteSet(R) /\ \A p \in Processes : f[p] \in R
  <2> HIDE DEF Slot, Read, From, To
  <2> QED
    BY FiniteValues
<1> HIDE DEF Slot, Read, From, To
<1>4. PICK A : IsFiniteSet(A) /\ \A p \in Processes : Read[p] \in A
  BY <1>1, <1>3
<1>5. PICK B : IsFiniteSet(B) /\ \A p \in Processes : rotated[p] \in B
  BY <1>1, <1>3
<1>6. PICK C : IsFiniteSet(C) /\ \A p \in Processes : live[p] \in C
  BY <1>1, <1>3
<1>7. PICK D : IsFiniteSet(D) /\ \A p \in Processes : From[p] \in D
  BY <1>1, <1>3
<1>8. PICK E : IsFiniteSet(E) /\ \A p \in Processes : To[p] \in E
  BY <1>1, <1>3
<1> DEFINE Now == ((((A \cup B) \cup C) \cup D) \cup E) \cup {stored}
<1>9. Rotation!InUse \subseteq Now
  BY <1>2, <1>4, <1>5, <1>6, <1>7, <1>8 DEF Rotation!InUse
<1>10. IsFiniteSet(Now)
  <2>1. IsFiniteSet(A \cup B)
    BY <1>4, <1>5, FS_Union
  <2>2. IsFiniteSet((A \cup B) \cup C)
    BY <1>6, <2>1, FS_Union
  <2>3. IsFiniteSet(((A \cup B) \cup C) \cup D)
    BY <1>7, <2>2, FS_Union
  <2>4. IsFiniteSet((((A \cup B) \cup C) \cup D) \cup E)
    BY <1>8, <2>3, FS_Union
  <2>5. QED
    BY <2>4, FS_AddElement
<1>11. ~(Tokens \subseteq Now)
  <2> HIDE DEF Now
  <2> QED
    BY <1>10, FS_Subset
<1>12. QED
  BY <1>9, <1>11 DEF TokensLast

(* So the chain holds without a further word about the tokens.              *)
THEOREM TheChainHoldsForEver ==
  ASSUME IsFiniteSet(Processes), ~IsFiniteSet(Tokens)
  PROVE  MCSpec => []StoredTokenIsGood
<1>1. [MCNext]_<<part, cycles, placement, session>> => [Rotation!Next]_session
  BY DEF MCNext
<1>2. ChainSound => TokensLast
  BY TokensDoLast DEF ChainSound
<1>3. ChainSound => StoredTokenIsGood
  BY DEF ChainSound
<1>4. QED
  BY <1>1, <1>2, <1>3, InitChain, ChainStep, PTL DEF MCSpec

------------------------------------------------------------------------------
(* The adapter's calls.  A call answers once and in its turn, and a second  *)
(* one is made only where a repeated id is told; so the exchange opens one  *)
(* order, and what has been read of it stays true of it (ccxt_venue.py      *)
(* execute, _resolve_placement, _reconcile_terse_submit).                   *)
CallsSound ==
  /\ \A c \in Placing!Calls :
       c > call => wire[c] = "unsent" /\ told[c] = Placing!NoAnswer
  /\ at # "idle" => call \in Placing!Calls /\ told[call] = Placing!NoAnswer
  /\ ~dedupes => call <= 1

IsOver == ~order.live /\ order.filled = 0

OrderSound ==
  /\ ~Placing!Exists => order = Placing!NoOrder /\ created = 0
  /\ Placing!Exists <=> \E c \in Placing!Calls : wire[c] = "placed"
  /\ created <= 1
  /\ \A view \in past : /\ view.filled <= order.filled
                        /\ ~view.live => order = view
  /\ first = "empty" => IsOver

PlacementSound == Placing!TypeOK /\ CallsSound /\ OrderSound

Reads == {"placing", "resolving"} \cup Placing!KnowsId

LEMMA InitPlacement == MCInit => PlacementSound
<1> SUFFICES ASSUME Placing!Init PROVE PlacementSound
  BY DEF MCInit
<1> USE MCTradingAssumption DEF Placing!PlacementAssumption
<1>1. Placing!TypeOK
  BY DEF Placing!Init, Placing!TypeOK, Placing!NoOrder, Placing!NoAnswer,
         Placing!Kinds, Placing!Exists, Placing!KnowsId
<1>2. CallsSound
  BY DEF Placing!Init, CallsSound
<1>3. OrderSound
  BY DEF Placing!Init, OrderSound, Placing!Exists
<1>4. QED
  BY <1>1, <1>2, <1>3 DEF PlacementSound

(* A call answers: nothing at the exchange moves.                           *)
LEMMA CallAnswers ==
  ASSUME PlacementSound, NEW c \in Placing!Calls,
         NEW kind \in Placing!Kinds, NEW units \in Nat,
         Placing!Answer(c, kind, units),
         call' = c, c = call \/ (c = call + 1 /\ (~dedupes => call = 0)),
         intent' \in [quantity : Quantities, small : BOOLEAN],
         UNCHANGED <<Placing!settings, Placing!exchange>>
  PROVE  PlacementSound'
<1> USE MCTradingAssumption DEF Placing!PlacementAssumption, Placing!settings,
        Placing!exchange, Placing!Calls
<1>1. /\ at' = "idle" /\ first' = "none"
      /\ told' = [told EXCEPT ![c] = [kind |-> kind, units |-> units]]
  BY DEF Placing!Answer
<1>2. Placing!TypeOK'
  BY <1>1 DEF PlacementSound, Placing!TypeOK, Placing!Exists, Placing!KnowsId
<1>3. CallsSound'
  BY <1>1 DEF PlacementSound, CallsSound, Placing!TypeOK
<1>4. OrderSound'
  BY <1>1 DEF PlacementSound, OrderSound, Placing!Exists
<1>5. QED
  BY <1>2, <1>3, <1>4 DEF PlacementSound

(* ... or goes on to the next thing it asks.                                *)
LEMMA CallGoesOn ==
  ASSUME PlacementSound, at # "idle", at' \in Reads,
         at' \in Placing!KnowsId => wire[call] = "placed",
         first' \in {"none", "empty", "resting"},
         first' # "none" <=> at' \in {"cancelling", "rereading"},
         first' = "empty" => IsOver,
         UNCHANGED <<intent, Placing!settings, Placing!exchange, call, told>>
  PROVE  PlacementSound'
<1> USE DEF Placing!settings, Placing!exchange
<1>1. Placing!TypeOK'
  BY DEF PlacementSound, CallsSound, OrderSound, Placing!TypeOK, Placing!Exists,
         Placing!KnowsId, Reads
<1>2. CallsSound'
  BY DEF PlacementSound, CallsSound
<1>3. OrderSound'
  BY DEF PlacementSound, OrderSound, Placing!Exists, IsOver
<1>4. QED
  BY <1>1, <1>2, <1>3 DEF PlacementSound

(* What a read may return tells the truth about the order.                  *)
LEMMA ReadsAreTrue ==
  ASSUME PlacementSound, NEW view \in past
  PROVE  /\ Placing!Exists /\ view.filled \in Nat /\ view.live \in BOOLEAN
         /\ view.filled <= order.filled /\ order.filled \in Nat
         /\ Placing!Says(view) \in {"fill", "resting", "empty"}
         /\ Placing!Says(view) = "fill" <=> view.filled > 0
         /\ Placing!Says(view) = "empty" => IsOver
BY DEF PlacementSound, OrderSound, Placing!TypeOK, Placing!Exists, Placing!Says, IsOver

(* The call in progress says what it has read.                              *)
LEMMA CallTells ==
  ASSUME PlacementSound, at # "idle",
         \/ Placing!Unavailable
         \/ \E view \in past : Placing!FillFromOrder(view)
         \/ first # "none" /\ Placing!Answer(call, first, 0)
         \/ \E units \in 1..order.filled : Placing!Answer(call, "fill", units),
         UNCHANGED <<intent, Placing!settings, Placing!exchange, call>>
  PROVE  PlacementSound'
<1>1. PICK kind \in Placing!Kinds, units \in Nat : Placing!Answer(call, kind, units)
  <2>1. CASE Placing!Unavailable
    BY <2>1 DEF Placing!Unavailable, Placing!Kinds
  <2>2. ASSUME NEW view \in past, Placing!FillFromOrder(view)
        PROVE  \E kind \in Placing!Kinds, units \in Nat :
                 Placing!Answer(call, kind, units)
    BY <2>2, ReadsAreTrue DEF Placing!FillFromOrder, Placing!Kinds
  <2>3. CASE first # "none" /\ Placing!Answer(call, first, 0)
    BY <2>3 DEF PlacementSound, Placing!TypeOK, Placing!Kinds
  <2>4. ASSUME NEW units \in 1..order.filled, Placing!Answer(call, "fill", units)
        PROVE  \E kind \in Placing!Kinds, u \in Nat : Placing!Answer(call, kind, u)
    BY <2>4 DEF Placing!Kinds
  <2>5. QED
    BY <2>1, <2>2, <2>3, <2>4
<1>2. /\ call \in Placing!Calls
      /\ intent' \in [quantity : Quantities, small : BOOLEAN]
  BY DEF PlacementSound, CallsSound, Placing!TypeOK
<1>3. QED
  BY <1>1, <1>2, CallAnswers

(* A further call is the caller's, and never at a venue that would take its *)
(* id for a new order's.                                                    *)
LEMMA CallBegins ==
  ASSUME PlacementSound, Placing!Begin
  PROVE  /\ call + 1 \in Placing!Calls /\ call' = call + 1
         /\ ~dedupes => call = 0
         /\ intent' \in [quantity : Quantities, small : BOOLEAN]
         /\ intent'.quantity = intent.quantity
         /\ wire[call + 1] = "unsent"
<1> USE MCTradingAssumption DEF Placing!PlacementAssumption
<1>1. Placing!MayCall /\ call' = call + 1 /\ call \in 0..MaxCalls
  BY DEF Placing!Begin, PlacementSound, Placing!TypeOK
<1>2. intent \in [quantity : Quantities, small : BOOLEAN]
  BY DEF PlacementSound, Placing!TypeOK
<1>3. \/ intent' = intent
      \/ \E small \in BOOLEAN : intent' = [intent EXCEPT !.small = small]
  BY DEF Placing!Begin
<1>4. /\ intent' \in [quantity : Quantities, small : BOOLEAN]
      /\ intent'.quantity = intent.quantity
  BY <1>2, <1>3
<1>5. call + 1 \in Placing!Calls /\ (~dedupes => call = 0)
  BY <1>1 DEF Placing!MayCall, Placing!Calls
<1>6. QED
  BY <1>1, <1>4, <1>5 DEF PlacementSound, CallsSound

LEMMA CallIsDeclined ==
  ASSUME PlacementSound, Placing!Refuse \/ Placing!BelowMinimum
  PROVE  PlacementSound'
<1>1. /\ Placing!Begin
      /\ \/ Placing!Answer(call + 1, "unavailable", 0)
         \/ Placing!Answer(call + 1, "empty", 0)
      /\ UNCHANGED <<Placing!settings, Placing!exchange>>
  BY DEF Placing!Refuse, Placing!BelowMinimum
<1>2. QED
  BY <1>1, CallBegins, CallAnswers DEF Placing!Kinds

LEMMA CallIsSent ==
  ASSUME PlacementSound, Placing!Submit
  PROVE  PlacementSound'
<1>1. /\ Placing!Begin
      /\ wire' = [wire EXCEPT ![call + 1] = "flying"] /\ at' = "placing"
      /\ UNCHANGED <<Placing!settings, order, past, created, first, told>>
  BY DEF Placing!Submit
<1>2. /\ at = "idle" /\ call \in 0..MaxCalls /\ first = "none"
      /\ told[call + 1] = Placing!NoAnswer
  BY <1>1, CallBegins
     DEF Placing!Begin, PlacementSound, Placing!TypeOK, CallsSound, Placing!Calls
<1>3. Placing!TypeOK'
  BY <1>1, <1>2, CallBegins
     DEF PlacementSound, Placing!TypeOK, Placing!Exists, Placing!KnowsId,
         Placing!Calls, Placing!settings
<1>4. CallsSound'
  BY <1>1, <1>2, CallBegins
     DEF PlacementSound, CallsSound, Placing!TypeOK, Placing!Calls, Placing!settings
<1>5. \A c \in Placing!Calls : wire'[c] = "placed" <=> wire[c] = "placed"
  BY <1>1, CallBegins DEF PlacementSound, Placing!TypeOK
<1>6. OrderSound'
  BY <1>1, <1>5 DEF PlacementSound, OrderSound, Placing!Exists, IsOver
<1>7. QED
  BY <1>3, <1>4, <1>6 DEF PlacementSound

(* The exchange takes one request only: a second one finds the id taken, or *)
(* was never sent.                                                          *)
LEMMA PlacesOnce ==
  ASSUME PlacementSound, NEW c \in Placing!Calls, Placing!Place(c)
  PROVE  ~Placing!Exists
<1>1. wire[c] = "flying" /\ ~(Placing!Exists /\ dedupes)
  BY DEF Placing!Place
<1>2. ASSUME Placing!Exists, ~dedupes
      PROVE  FALSE
  <2>1. PICK d \in Placing!Calls : wire[d] = "placed"
    BY <1>2 DEF PlacementSound, OrderSound
  <2>2. call <= 1 /\ call \in Nat
    BY <1>2 DEF PlacementSound, CallsSound, Placing!TypeOK
  <2>3. c <= call /\ d <= call /\ c \in Nat \ {0} /\ d \in Nat \ {0}
    BY <1>1, <2>1, <2>2 DEF PlacementSound, CallsSound, Placing!Calls
  <2>4. c = d
    BY <2>2, <2>3
  <2>5. QED
    BY <1>1, <2>1, <2>4
<1>3. QED
  BY <1>1, <1>2

LEMMA OrderIsPlaced ==
  ASSUME PlacementSound, NEW c \in Placing!Calls, Placing!Place(c)
  PROVE  PlacementSound'
<1> USE MCTradingAssumption DEF Placing!PlacementAssumption
<1>1. /\ wire[c] = "flying" /\ wire' = [wire EXCEPT ![c] = "placed"]
      /\ created' = created + 1
      /\ UNCHANGED <<intent, Placing!settings, at, call, first, told>>
  BY DEF Placing!Place
<1>2. PICK view \in Placing!Outcomes : order' = view /\ past' = past \cup {view}
  BY DEF Placing!Place, Placing!Becomes
<1>3. past = {} /\ created = 0 /\ view \in [live : BOOLEAN, filled : Nat]
      /\ at \notin Placing!KnowsId /\ first = "none"
  <2>1. past = {} /\ created = 0
    BY PlacesOnce DEF PlacementSound, OrderSound, Placing!Exists
  <2>2. at \notin Placing!KnowsId
    BY <2>1 DEF PlacementSound, Placing!TypeOK, Placing!Exists
  <2>3. first = "none"
    BY <2>2 DEF PlacementSound, Placing!TypeOK, Placing!KnowsId
  <2>4. QED
    BY <2>1, <2>2, <2>3 DEF Placing!Outcomes
<1>4. /\ wire' \in [Placing!Calls -> {"unsent", "flying", "lost", "placed",
                                      "refused", "duplicate"}]
      /\ wire'[c] = "placed"
      /\ \A d \in Placing!Calls : d # c => wire'[d] = wire[d]
  BY <1>1 DEF PlacementSound, Placing!TypeOK
<1>5. Placing!TypeOK'
  BY <1>1, <1>2, <1>3, <1>4
     DEF PlacementSound, Placing!TypeOK, Placing!Exists, Placing!settings
<1>6. CallsSound'
  BY <1>1, <1>4 DEF PlacementSound, CallsSound, Placing!settings
<1>7. OrderSound'
  <2>1. past' = {view} /\ order' = view /\ created' = 1 /\ first' = "none"
    BY <1>1, <1>2, <1>3
  <2>2. view.filled <= view.filled
    BY <1>3
  <2>3. QED
    BY <1>4, <2>1, <2>2 DEF OrderSound, Placing!Exists
<1>8. QED
  BY <1>5, <1>6, <1>7 DEF PlacementSound

LEMMA RequestFails ==
  ASSUME PlacementSound, NEW c \in Placing!Calls, Placing!Reject(c)
  PROVE  PlacementSound'
<1>1. /\ wire[c] = "flying"
      /\ UNCHANGED <<intent, Placing!settings, order, past, created, at, call,
                     first, told>>
  BY DEF Placing!Reject
<1>2. PICK fate \in {"lost", "refused", "duplicate"} :
        wire' = [wire EXCEPT ![c] = fate]
  BY DEF Placing!Reject
<1>3. /\ wire' \in [Placing!Calls -> {"unsent", "flying", "lost", "placed",
                                      "refused", "duplicate"}]
      /\ wire'[c] = fate
      /\ \A d \in Placing!Calls : d # c => wire'[d] = wire[d]
  BY <1>2 DEF PlacementSound, Placing!TypeOK
<1>4. Placing!TypeOK'
  BY <1>1, <1>3
     DEF PlacementSound, CallsSound, Placing!TypeOK, Placing!Exists,
         Placing!settings, Placing!KnowsId
<1>5. CallsSound'
  BY <1>1, <1>3 DEF PlacementSound, CallsSound, Placing!settings
<1>6. OrderSound'
  BY <1>1, <1>3 DEF PlacementSound, OrderSound, Placing!Exists, IsOver
<1>7. QED
  BY <1>4, <1>5, <1>6 DEF PlacementSound

(* The order moves on: it fills further or ends.                            *)
LEMMA OrderMoves ==
  ASSUME PlacementSound, Placing!Exists,
         NEW view \in [live : BOOLEAN, filled : Nat],
         order' = view, past' = past \cup {view},
         view.filled >= order.filled, order.live \/ view = order,
         UNCHANGED <<intent, Placing!settings, wire, created, call, told>>,
         first' = first,
         at' = at \/ (at = "cancelling" /\ at' = "rereading")
  PROVE  PlacementSound'
<1> USE DEF Placing!settings
<1>1. order \in [live : BOOLEAN, filled : Nat] /\ past' # {}
  BY DEF PlacementSound, Placing!TypeOK
<1>2. Placing!TypeOK'
  BY <1>1 DEF PlacementSound, Placing!TypeOK, Placing!Exists, Placing!KnowsId
<1>3. CallsSound'
  BY DEF PlacementSound, CallsSound
<1>4. \A old \in past' : /\ old.filled <= order'.filled
                         /\ ~old.live => order' = old
  <2> SUFFICES ASSUME NEW old \in past
               PROVE  /\ old.filled <= order'.filled
                      /\ ~old.live => order' = old
    BY <1>1
  <2>1. old.filled \in Nat /\ order.filled \in Nat /\ view.filled \in Nat
    BY DEF PlacementSound, Placing!TypeOK
  <2>2. old.filled <= order.filled /\ (~old.live => order = old)
    BY DEF PlacementSound, OrderSound
  <2>3. QED
    BY <2>1, <2>2
<1>5. first' = "empty" => IsOver'
  BY DEF PlacementSound, OrderSound, IsOver
<1>6. OrderSound'
  BY <1>1, <1>4, <1>5 DEF PlacementSound, OrderSound, Placing!Exists
<1>7. QED
  BY <1>2, <1>3, <1>6 DEF PlacementSound

LEMMA OrderWorks ==
  ASSUME PlacementSound, Placing!Work \/ Placing!CancelOrder
  PROVE  PlacementSound'
<1> USE MCTradingAssumption DEF Placing!PlacementAssumption
<1>1. order \in [live : BOOLEAN, filled : Nat]
  BY DEF PlacementSound, Placing!TypeOK
<1>2. CASE Placing!Work
  <2>1. PICK view \in Placing!Outcomes :
          /\ view.filled >= order.filled
          /\ order' = view /\ past' = past \cup {view}
    BY <1>2 DEF Placing!Work, Placing!Becomes
  <2>2. Placing!Exists
    BY <1>2 DEF Placing!Work, PlacementSound, OrderSound, Placing!NoOrder
  <2>3. view \in [live : BOOLEAN, filled : Nat]
    BY DEF Placing!Outcomes
  <2>4. QED
    BY <1>2, <2>1, <2>2, <2>3, OrderMoves DEF Placing!Work
<1>3. CASE Placing!CancelOrder
  <2>1. PICK view : /\ view = order \/ view = [order EXCEPT !.live = FALSE]
                    /\ order' = view /\ past' = past \cup {view}
    BY <1>3 DEF Placing!CancelOrder, Placing!Becomes
  <2>2. Placing!Exists
    BY <1>3 DEF Placing!CancelOrder, PlacementSound, Placing!TypeOK, Placing!KnowsId
  <2>3. /\ view \in [live : BOOLEAN, filled : Nat]
        /\ view.filled >= order.filled /\ (order.live \/ view = order)
    <3>1. order.filled \in Nat
      BY <1>1
    <3>2. CASE view = order
      BY <1>1, <3>1, <3>2
    <3>3. CASE view = [order EXCEPT !.live = FALSE]
      <4>1. order = [live |-> order.live, filled |-> order.filled]
        BY <1>1
      <4>2. view = [live |-> FALSE, filled |-> order.filled]
        BY <3>3, <4>1
      <4>3. order.live = TRUE \/ order.live = FALSE
        BY <1>1
      <4>4. order.live \/ view = order
        BY <4>1, <4>2, <4>3
      <4>5. QED
        BY <3>1, <4>2, <4>4
    <3>4. QED
      BY <2>1, <3>2, <3>3
  <2>4. QED
    BY <1>3, <2>1, <2>2, <2>3, OrderMoves DEF Placing!CancelOrder
<1>4. QED
  BY <1>2, <1>3

(* A read that does not answer yet leads to the cancellation.               *)
LEMMA CallReadsBack ==
  ASSUME PlacementSound, at \in Placing!KnowsId, NEW view \in past,
         Placing!ReadBack(view),
         UNCHANGED <<intent, Placing!settings, Placing!exchange, call>>
  PROVE  PlacementSound'
<1>1. at # "idle" /\ wire[call] = "placed"
  BY DEF PlacementSound, Placing!TypeOK, Placing!KnowsId
<1>2. CASE Placing!FillFromOrder(view)
  BY <1>1, <1>2, CallTells
<1>3. CASE /\ ~(view.filled > 0)
           /\ first' = Placing!Says(view) /\ at' = "cancelling" /\ UNCHANGED told
  <2>1. Placing!Says(view) \in {"resting", "empty"}
    BY <1>3, ReadsAreTrue
  <2>2. QED
    BY <1>1, <1>3, <2>1, ReadsAreTrue, CallGoesOn DEF Reads, Placing!KnowsId
<1>4. QED
  BY <1>2, <1>3 DEF Placing!ReadBack

LEMMA CallAsks ==
  ASSUME PlacementSound,
         \/ Placing!NetworkFails \/ Placing!IsRefused \/ Placing!IsDescribed
         \/ Placing!IsTerse \/ Placing!Resolve
         \/ Placing!ReadById \/ Placing!ReadTrades \/ Placing!ReadListing
         \/ Placing!Reread
  PROVE  PlacementSound'
<1>1. at # "idle" /\ UNCHANGED <<intent, Placing!settings, Placing!exchange, call>>
  BY DEF Placing!NetworkFails, Placing!IsRefused, Placing!IsDescribed,
         Placing!IsTerse, Placing!Resolve, Placing!ReadById, Placing!ReadTrades,
         Placing!ReadListing, Placing!Reread
<1>2. /\ at \in Placing!KnowsId => wire[call] = "placed"
      /\ first # "none" <=> at \in {"cancelling", "rereading"}
      /\ first \in {"none", "empty", "resting"}
  BY DEF PlacementSound, Placing!TypeOK
<1>3. CASE \/ Placing!Unavailable
           \/ \E view \in past : Placing!FillFromOrder(view)
           \/ \E units \in 1..order.filled : Placing!Answer(call, "fill", units)
  BY <1>1, <1>3, CallTells
<1>4. CASE \E view \in past : Placing!ReadBack(view) /\ at \in Placing!KnowsId
  BY <1>1, <1>4, CallReadsBack
<1>5. CASE /\ at' \in {"resolving", "reading", "trades", "listing"}
           /\ at' # "resolving" => wire[call] = "placed"
           /\ first = "none" /\ UNCHANGED <<first, told>>
  BY <1>1, <1>5, CallGoesOn DEF Reads, Placing!KnowsId
<1>6. CASE Placing!NetworkFails \/ Placing!IsRefused \/ Placing!IsDescribed
  BY <1>2, <1>3, <1>5, <1>6
     DEF Placing!NetworkFails, Placing!IsRefused, Placing!IsDescribed, Placing!KnowsId
<1>7. CASE Placing!IsTerse \/ Placing!Resolve
  BY <1>2, <1>3, <1>5, <1>7 DEF Placing!IsTerse, Placing!Resolve
<1>8. CASE Placing!ReadById \/ Placing!ReadTrades \/ Placing!ReadListing
  BY <1>2, <1>3, <1>4, <1>5, <1>8
     DEF Placing!ReadById, Placing!ReadTrades, Placing!ReadListing, Placing!KnowsId
<1>9. CASE Placing!Reread
  <2>1. first # "none"
    BY <1>2, <1>9 DEF Placing!Reread
  <2>2. \/ Placing!Unavailable
        \/ \E view \in past : Placing!FillFromOrder(view)
        \/ Placing!Answer(call, first, 0)
    BY <1>9 DEF Placing!Reread
  <2>3. QED
    BY <1>1, <2>1, <2>2, CallTells
<1>10. QED
  BY <1>6, <1>7, <1>8, <1>9

LEMMA PlacementStep ==
  PlacementSound /\ [Placing!Next]_placement => PlacementSound'
<1> SUFFICES ASSUME PlacementSound, [Placing!Next]_placement
             PROVE  PlacementSound'
  OBVIOUS
<1>1. CASE Placing!Execute
  BY <1>1, CallIsDeclined, CallIsSent, CallAsks, OrderWorks DEF Placing!Execute
<1>2. CASE \E c \in Placing!Calls : Placing!Place(c) \/ Placing!Reject(c)
  BY <1>2, OrderIsPlaced, RequestFails
<1>3. CASE Placing!Work
  BY <1>3, OrderWorks
<1>4. CASE UNCHANGED placement
  BY <1>4 DEF placement, PlacementSound, Placing!TypeOK, Placing!Exists, CallsSound,
              OrderSound, IsOver
<1>5. QED
  BY <1>1, <1>2, <1>3, <1>4 DEF Placing!Next

LEMMA PlacementOfThePath ==
  [MCNext]_<<part, cycles, placement, session>> => [Placing!Next]_placement
BY DEF MCNext, PlacementEnds

LEMMA PlacementAlways == MCSpec => []PlacementSound
BY InitPlacement, PlacementStep, PlacementOfThePath, PTL DEF MCSpec

(* One intent is never two orders at the exchange, for any number of calls  *)
(* under its key, however late or lost their requests, and also where the   *)
(* exchange would take one client order id twice -- for there nobody calls  *)
(* twice (ccxt_venue.py execute: placement is never retried).               *)
THEOREM OneIntentIsOneOrder == MCSpec => []OneOrderPerKey
<1>1. PlacementSound => OneOrderPerKey
  BY DEF PlacementSound, OrderSound, OneOrderPerKey, Placing!OneOrderPerKey
<1>2. QED
  BY <1>1, PlacementAlways, PTL

(* What the adapter's calls say is true and stays true: they implement      *)
(* HonestVenue.  An answer that nothing was executed, of an order never     *)
(* sent, holds because the intent is below the minimum and stays there.     *)
SmallSound ==
  /\ intent.small => \A c \in Placing!Calls : wire[c] = "unsent"
  /\ Placing!WasEmpty /\ ~Placing!Exists => intent.small

HonestStep == [Placing!Honest!Next]_(Placing!Honest!vars)

LEMMA CallSays ==
  ASSUME PlacementSound, NEW c \in Placing!Calls,
         NEW kind \in Placing!Kinds, NEW units \in Nat,
         told[c] = Placing!NoAnswer, Placing!Answer(c, kind, units)
  PROVE  /\ Placing!Honest!Say(c, Placing!Kept([kind |-> kind, units |-> units]))
         /\ told'[c] = [kind |-> kind, units |-> units]
         /\ \A d \in Placing!Calls : d # c => told'[d] = told[d]
<1> DEFINE said == [kind |-> kind, units |-> units]
           Heard == [d \in Placing!Calls |-> Placing!Kept(told[d])]
<1>1. told' = [told EXCEPT ![c] = said]
      /\ told \in [Placing!Calls -> [kind : Placing!Kinds, units : Nat]]
  BY DEF Placing!Answer, PlacementSound, Placing!TypeOK
<1>2. /\ told'[c] = said
      /\ \A d \in Placing!Calls : d # c => told'[d] = told[d]
  BY <1>1
<1>3. Heard[c] = Placing!Honest!Nothing
  BY DEF Placing!Kept, Placing!NoAnswer, Placing!Honest!Nothing
<1>4. Heard' = [d \in Placing!Calls |-> Placing!Kept(told'[d])]
  BY DEF Placing!Kept
<1>5. Heard' = [Heard EXCEPT ![c] = Placing!Kept(said)]
  BY <1>2, <1>4
<1>6. Heard'[c] = Placing!Kept(said)
  BY <1>5
<1>7. QED
  BY <1>2, <1>3, <1>5, <1>6 DEF Placing!Honest!Say

LEMMA EmptySaid ==
  ASSUME PlacementSound, NEW c \in Placing!Calls,
         NEW kind \in Placing!Kinds, NEW units \in Nat,
         told[c] = Placing!NoAnswer, Placing!Answer(c, kind, units)
  PROVE  Placing!WasEmpty' <=> Placing!WasEmpty \/ kind = "empty"
<1>1. /\ told'[c].kind = kind /\ told[c].kind = "none"
      /\ \A d \in Placing!Calls : d # c => told'[d] = told[d]
  <2>1. /\ told'[c] = [kind |-> kind, units |-> units]
        /\ \A d \in Placing!Calls : d # c => told'[d] = told[d]
    BY CallSays
  <2>2. QED
    BY <2>1 DEF Placing!NoAnswer
<1>2. Placing!WasEmpty' <=> \E d \in Placing!Calls : told'[d].kind = "empty"
  BY DEF Placing!WasEmpty
<1>3. Placing!WasEmpty <=> \E d \in Placing!Calls : told[d].kind = "empty"
  BY DEF Placing!WasEmpty
<1>4. QED
  BY <1>1, <1>2, <1>3

(* An answer that leaves the outcome open promises nothing.                 *)
LEMMA DoubtIsHonest ==
  ASSUME PlacementSound, NEW c \in Placing!Calls,
         NEW kind \in {"unavailable", "resting"},
         told[c] = Placing!NoAnswer, Placing!Answer(c, kind, 0),
         UNCHANGED Placing!exchange
  PROVE  HonestStep
<1>1. kind \in Placing!Kinds
  BY DEF Placing!Kinds
<1>2. Placing!Honest!Say(c, Placing!Honest!Doubt)
  BY <1>1, CallSays DEF Placing!Kept, Placing!Honest!Doubt
<1>3. (Placing!WasEmpty' <=> Placing!WasEmpty) /\ order' = order /\ past' = past
  BY <1>1, EmptySaid DEF Placing!exchange
<1>4. Placing!Stage' = Placing!Stage /\ order'.filled = order.filled
  BY <1>3 DEF Placing!Stage, Placing!Exists
<1>5. Placing!Honest!TellDoubt(c)
  BY <1>2, <1>4 DEF Placing!Honest!TellDoubt
<1>6. QED
  BY <1>5 DEF HonestStep, Placing!Honest!Next

(* A fill was executed, if perhaps more was.                                *)
LEMMA FillIsHonest ==
  ASSUME PlacementSound, Placing!Exists, NEW c \in Placing!Calls,
         NEW units \in 1..order.filled,
         told[c] = Placing!NoAnswer, Placing!Answer(c, "fill", units),
         UNCHANGED Placing!exchange
  PROVE  HonestStep
<1>1. units \in Nat /\ "fill" \in Placing!Kinds
  BY DEF Placing!Kinds
<1>2. Placing!Honest!Say(c, Placing!Honest!Fill(units))
  <2>1. Placing!Kept([kind |-> "fill", units |-> units]) = Placing!Honest!Fill(units)
    BY DEF Placing!Kept, Placing!Honest!Fill
  <2>2. Placing!Honest!Say(c, Placing!Kept([kind |-> "fill", units |-> units]))
    BY <1>1, CallSays
  <2>3. QED
    BY <2>1, <2>2
<1>3. order' = order /\ past' = past
  BY DEF Placing!exchange
<1>4. Placing!Stage' = Placing!Stage /\ order'.filled = order.filled
  BY <1>3 DEF Placing!Stage, Placing!Exists
<1>5. Placing!Honest!TellFill(c)
  BY <1>2, <1>4 DEF Placing!Honest!TellFill
<1>6. QED
  BY <1>5 DEF HonestStep, Placing!Honest!Next

(* Nothing was executed and nothing will be: the order is over, or there is *)
(* none.                                                                    *)
LEMMA EmptyIsHonest ==
  ASSUME PlacementSound, Placing!Exists => IsOver, NEW c \in Placing!Calls,
         told[c] = Placing!NoAnswer, Placing!Answer(c, "empty", 0),
         UNCHANGED Placing!exchange
  PROVE  HonestStep
<1>1. "empty" \in Placing!Kinds
  BY DEF Placing!Kinds
<1>2. Placing!Honest!Say(c, Placing!Honest!Empty)
  <2>1. Placing!Kept([kind |-> "empty", units |-> 0]) = Placing!Honest!Empty
    BY DEF Placing!Kept, Placing!Honest!Empty
  <2>2. Placing!Honest!Say(c, Placing!Kept([kind |-> "empty", units |-> 0]))
    BY <1>1, CallSays
  <2>3. QED
    BY <2>1, <2>2
<1>3. Placing!WasEmpty' /\ order' = order /\ past' = past
  BY <1>1, EmptySaid DEF Placing!exchange
<1>4. order.filled = 0 /\ order'.filled = order.filled
  BY <1>3 DEF PlacementSound, OrderSound, Placing!NoOrder, IsOver
<1>5. Placing!Stage # "working"
  BY DEF Placing!Stage, IsOver
<1>6. Placing!Stage' = "dead"
  BY <1>3 DEF Placing!Stage, Placing!Exists, IsOver
<1>7. Placing!Honest!TellEmpty(c)
  BY <1>2, <1>4, <1>5, <1>6 DEF Placing!Honest!TellEmpty
<1>8. QED
  BY <1>7 DEF HonestStep, Placing!Honest!Next

(* Steps that say nothing and leave the order alone.                        *)
LEMMA SilentIsHonest ==
  ASSUME UNCHANGED <<order, past, told>>
  PROVE  HonestStep
<1>1. Placing!Stage' = Placing!Stage /\ order'.filled = order.filled
  BY DEF Placing!Stage, Placing!Exists, Placing!WasEmpty
<1>2. [c \in Placing!Calls |-> Placing!Kept(told[c])]' =
        [c \in Placing!Calls |-> Placing!Kept(told[c])]
  BY DEF Placing!Kept
<1>3. UNCHANGED Placing!Honest!vars
  BY <1>1, <1>2 DEF Placing!Honest!vars
<1>4. QED
  BY <1>3 DEF HonestStep

(* What the call in progress tells of what it has read.                     *)
LEMMA TellingIsHonest ==
  ASSUME PlacementSound, at # "idle",
         \/ Placing!Unavailable
         \/ \E view \in past : Placing!FillFromOrder(view)
         \/ first # "none" /\ Placing!Answer(call, first, 0)
         \/ Placing!Exists /\ \E units \in 1..order.filled :
                                Placing!Answer(call, "fill", units),
         UNCHANGED Placing!exchange
  PROVE  HonestStep
<1>1. call \in Placing!Calls /\ told[call] = Placing!NoAnswer
  BY DEF PlacementSound, CallsSound
<1>2. CASE Placing!Unavailable
  BY <1>1, <1>2, DoubtIsHonest DEF Placing!Unavailable
<1>3. ASSUME NEW view \in past, Placing!FillFromOrder(view)
      PROVE  HonestStep
  <2>1. Placing!Answer(call, Placing!Says(view), view.filled)
    BY <1>3 DEF Placing!FillFromOrder
  <2>2. CASE Placing!Says(view) = "fill"
    <3>1. view.filled \in 1..order.filled
      BY <2>2, ReadsAreTrue
    <3>2. QED
      BY <1>1, <2>1, <2>2, <3>1, ReadsAreTrue, FillIsHonest
  <2>3. CASE Placing!Says(view) # "fill"
    <3>1. view.filled = 0 /\ Placing!Says(view) \in {"resting", "empty"}
      BY <2>3, ReadsAreTrue
    <3>2. CASE Placing!Says(view) = "resting"
      BY <1>1, <2>1, <3>1, <3>2, DoubtIsHonest
    <3>3. CASE Placing!Says(view) = "empty"
      BY <1>1, <2>1, <3>1, <3>3, ReadsAreTrue, EmptyIsHonest
    <3>4. QED
      BY <3>1, <3>2, <3>3
  <2>4. QED
    BY <2>2, <2>3
<1>4. CASE first # "none" /\ Placing!Answer(call, first, 0)
  <2>1. first \in {"empty", "resting"} /\ (first = "empty" => IsOver)
    BY <1>4 DEF PlacementSound, Placing!TypeOK, OrderSound
  <2>2. CASE first = "empty"
    BY <1>1, <1>4, <2>1, <2>2, EmptyIsHonest
  <2>3. CASE first = "resting"
    BY <1>1, <1>4, <2>3, DoubtIsHonest
  <2>4. QED
    BY <2>1, <2>2, <2>3
<1>5. CASE Placing!Exists /\ \E units \in 1..order.filled :
                               Placing!Answer(call, "fill", units)
  BY <1>1, <1>5, FillIsHonest
<1>6. QED
  BY <1>2, <1>3, <1>4, <1>5

LEMMA AskingIsHonest ==
  ASSUME PlacementSound,
         \/ Placing!NetworkFails \/ Placing!IsRefused \/ Placing!IsDescribed
         \/ Placing!IsTerse \/ Placing!Resolve
         \/ Placing!ReadById \/ Placing!ReadTrades \/ Placing!ReadListing
         \/ Placing!Reread
  PROVE  HonestStep
<1>1. at # "idle" /\ UNCHANGED <<Placing!exchange, order, past>>
  BY DEF Placing!NetworkFails, Placing!IsRefused, Placing!IsDescribed,
         Placing!IsTerse, Placing!Resolve, Placing!ReadById, Placing!ReadTrades,
         Placing!ReadListing, Placing!Reread, Placing!exchange
<1>2. /\ first # "none" <=> at \in {"cancelling", "rereading"}
      /\ at \in Placing!KnowsId => Placing!Exists
  BY DEF PlacementSound, Placing!TypeOK
<1>3. CASE \/ Placing!Unavailable
           \/ \E view \in past : Placing!FillFromOrder(view)
           \/ first # "none" /\ Placing!Answer(call, first, 0)
           \/ Placing!Exists /\ \E units \in 1..order.filled :
                                  Placing!Answer(call, "fill", units)
  BY <1>1, <1>3, TellingIsHonest
<1>4. CASE UNCHANGED told
  BY <1>1, <1>4, SilentIsHonest
<1>5. CASE Placing!NetworkFails \/ Placing!IsRefused \/ Placing!IsDescribed
  BY <1>3, <1>4, <1>5
     DEF Placing!NetworkFails, Placing!IsRefused, Placing!IsDescribed
<1>6. CASE Placing!IsTerse \/ Placing!Resolve
  BY <1>3, <1>4, <1>6 DEF Placing!IsTerse, Placing!Resolve
<1>7. CASE Placing!ReadById \/ Placing!ReadTrades \/ Placing!ReadListing
  BY <1>2, <1>3, <1>4, <1>7
     DEF Placing!ReadById, Placing!ReadTrades, Placing!ReadListing,
         Placing!ReadBack, Placing!KnowsId
<1>8. CASE Placing!Reread
  BY <1>2, <1>3, <1>8 DEF Placing!Reread
<1>9. QED
  BY <1>5, <1>6, <1>7, <1>8

(* A call that is declined before anything is sent.  Below the minimum it   *)
(* has always been: an order there is not, unless the price has moved.      *)
LEMMA DecliningIsHonest ==
  ASSUME ~PriceMoves, PlacementSound, SmallSound,
         Placing!Refuse \/ Placing!BelowMinimum
  PROVE  HonestStep
<1>1. /\ Placing!Begin /\ UNCHANGED Placing!exchange
      /\ \/ Placing!Answer(call + 1, "unavailable", 0)
         \/ intent.small /\ Placing!Answer(call + 1, "empty", 0)
  BY DEF Placing!Refuse, Placing!BelowMinimum, Placing!Begin
<1>2. call + 1 \in Placing!Calls /\ told[call + 1] = Placing!NoAnswer
  <2>1. call + 1 > call
    BY DEF PlacementSound, Placing!TypeOK
  <2>2. QED
    BY <1>1, <2>1, CallBegins DEF PlacementSound, CallsSound
<1>3. intent.small => ~Placing!Exists
  BY DEF SmallSound, PlacementSound, OrderSound
<1>4. QED
  BY <1>1, <1>2, <1>3, DoubtIsHonest, EmptyIsHonest

(* The exchange takes the order, fills it, ends it.                         *)
LEMMA TradingIsHonest ==
  ASSUME PlacementSound, SmallSound,
         \/ \E c \in Placing!Calls : Placing!Place(c)
         \/ Placing!Work \/ Placing!CancelOrder
  PROVE  HonestStep
<1> USE MCTradingAssumption DEF Placing!PlacementAssumption
<1>1. UNCHANGED told
  BY DEF Placing!Place, Placing!Work, Placing!CancelOrder
<1>2. [c \in Placing!Calls |-> Placing!Kept(told[c])]' =
        [c \in Placing!Calls |-> Placing!Kept(told[c])]
  BY <1>1 DEF Placing!Kept
<1>3. order \in [live : BOOLEAN, filled : Nat]
  BY DEF PlacementSound, Placing!TypeOK
<1>4. ASSUME Placing!Exists',  order' \in [live : BOOLEAN, filled : Nat]
      PROVE  /\ Placing!Stage' = IF order'.live THEN "working" ELSE "dead"
             /\ order'.filled \in Nat
  BY <1>4 DEF Placing!Stage
<1>5. ASSUME NEW c \in Placing!Calls, Placing!Place(c)
      PROVE  Placing!Honest!Place
  <2>1. ~Placing!Exists /\ ~Placing!WasEmpty
    BY <1>5, PlacesOnce DEF SmallSound, Placing!Place
  <2>2. Placing!Stage = "unsent"
    BY <2>1 DEF Placing!Stage
  <2>3. Placing!Exists' /\ order' \in [live : BOOLEAN, filled : Nat]
    BY <1>5 DEF Placing!Place, Placing!Becomes, Placing!Outcomes, Placing!Exists
  <2>4. QED
    BY <1>2, <1>4, <2>2, <2>3 DEF Placing!Honest!Place
<1>6. CASE Placing!Work
  <2>1. order.live /\ Placing!Exists
    BY <1>6 DEF Placing!Work, PlacementSound, OrderSound, Placing!NoOrder
  <2>2. Placing!Stage = "working"
    BY <2>1 DEF Placing!Stage
  <2>3. /\ Placing!Exists' /\ order' \in [live : BOOLEAN, filled : Nat]
        /\ order'.filled >= order.filled
    BY <1>6 DEF Placing!Work, Placing!Becomes, Placing!Outcomes, Placing!Exists
  <2>4. Placing!Honest!Work
    BY <1>2, <1>4, <2>2, <2>3 DEF Placing!Honest!Work
  <2>5. QED
    BY <2>4 DEF HonestStep, Placing!Honest!Next
<1>7. CASE Placing!CancelOrder
  <2>1. /\ order' = order \/ order' = [order EXCEPT !.live = FALSE]
        /\ Placing!Exists'
    BY <1>7 DEF Placing!CancelOrder, Placing!Becomes, Placing!Exists
  <2>2. Placing!Exists
    BY <1>7 DEF Placing!CancelOrder, PlacementSound, Placing!TypeOK, Placing!KnowsId
  <2>3. /\ order' \in [live : BOOLEAN, filled : Nat]
        /\ order'.filled = order.filled
        /\ order'.live => order.live
    BY <1>3, <2>1
  <2>4. Placing!Stage = IF order.live THEN "working" ELSE "dead"
    BY <2>2 DEF Placing!Stage
  <2>5. order'.filled >= order.filled
    BY <1>3, <2>3
  <2>6. CASE order.live
    <3>1. Placing!Honest!Work
      BY <1>2, <1>4, <2>1, <2>3, <2>4, <2>5, <2>6 DEF Placing!Honest!Work
    <3>2. QED
      BY <3>1 DEF HonestStep, Placing!Honest!Next
  <2>7. CASE ~order.live
    <3>1. UNCHANGED Placing!Honest!vars
      BY <1>2, <1>4, <2>1, <2>3, <2>4, <2>7 DEF Placing!Honest!vars
    <3>2. QED
      BY <3>1 DEF HonestStep
  <2>8. QED
    BY <2>6, <2>7
<1>8. QED
  BY <1>5, <1>6, <1>7 DEF HonestStep, Placing!Honest!Next

LEMMA HonestSteps ==
  ~PriceMoves /\ PlacementSound /\ SmallSound /\ [Placing!Next]_placement => HonestStep
<1> SUFFICES ASSUME ~PriceMoves, PlacementSound, SmallSound, [Placing!Next]_placement
             PROVE  HonestStep
  OBVIOUS
<1>1. CASE Placing!Refuse \/ Placing!BelowMinimum
  BY <1>1, DecliningIsHonest
<1>2. CASE \/ Placing!Submit \/ \E c \in Placing!Calls : Placing!Reject(c)
           \/ UNCHANGED placement
  BY <1>2, SilentIsHonest DEF Placing!Submit, Placing!Reject, placement
<1>3. CASE \/ Placing!NetworkFails \/ Placing!IsRefused \/ Placing!IsDescribed
           \/ Placing!IsTerse \/ Placing!Resolve
           \/ Placing!ReadById \/ Placing!ReadTrades \/ Placing!ReadListing
           \/ Placing!Reread
  BY <1>3, AskingIsHonest
<1>4. CASE \/ \E c \in Placing!Calls : Placing!Place(c)
           \/ Placing!Work \/ Placing!CancelOrder
  BY <1>4, TradingIsHonest
<1>5. QED
  BY <1>1, <1>2, <1>3, <1>4 DEF Placing!Next, Placing!Execute

(* While the price stays where it is, an intent below the minimum is never  *)
(* sent, and only it is called empty without an order.                      *)
LEMMA SmallStays ==
  ASSUME PlacementSound, SmallSound, NEW c \in Placing!Calls, told[c] = Placing!NoAnswer,
         NEW kind \in Placing!Kinds, NEW units \in Nat,
         Placing!Answer(c, kind, units),
         kind = "empty" => Placing!Exists \/ intent.small,
         UNCHANGED <<intent, Placing!exchange>>
  PROVE  SmallSound'
BY EmptySaid DEF SmallSound, Placing!Exists, Placing!exchange

LEMMA SmallStep ==
  ~PriceMoves /\ PlacementSound /\ SmallSound /\ [Placing!Next]_placement => SmallSound'
<1> SUFFICES ASSUME ~PriceMoves, PlacementSound, SmallSound, [Placing!Next]_placement
             PROVE  SmallSound'
  OBVIOUS
<1>1. intent' = intent
  BY DEF Placing!Next, Placing!Execute, Placing!Refuse, Placing!BelowMinimum,
         Placing!Submit, Placing!Begin, Placing!Place, Placing!Reject, Placing!Work,
         Placing!NetworkFails, Placing!IsRefused, Placing!IsDescribed,
         Placing!IsTerse, Placing!Resolve, Placing!ReadById, Placing!ReadTrades,
         Placing!ReadListing, Placing!CancelOrder, Placing!Reread, placement
<1>2. ASSUME UNCHANGED <<past, told>>, wire' = wire \/ ~intent.small
      PROVE  SmallSound'
  BY <1>1, <1>2 DEF SmallSound, Placing!WasEmpty, Placing!Exists
<1>3. ASSUME Placing!Exists', UNCHANGED wire
      PROVE  SmallSound'
  BY <1>1, <1>3 DEF SmallSound
<1>4. CASE Placing!Refuse \/ Placing!BelowMinimum
  <2>1. /\ Placing!Begin /\ UNCHANGED Placing!exchange
        /\ \/ Placing!Answer(call + 1, "unavailable", 0)
           \/ intent.small /\ Placing!Answer(call + 1, "empty", 0)
    BY <1>1, <1>4 DEF Placing!Refuse, Placing!BelowMinimum
  <2>2. call + 1 \in Placing!Calls /\ told[call + 1] = Placing!NoAnswer
    <3>1. call + 1 > call
      BY DEF PlacementSound, Placing!TypeOK
    <3>2. QED
      BY <2>1, <3>1, CallBegins DEF PlacementSound, CallsSound
  <2>3. QED
    BY <1>1, <2>1, <2>2, SmallStays DEF Placing!Kinds
<1>5. CASE Placing!Submit
  BY <1>1, <1>2, <1>5 DEF Placing!Submit
<1>6. CASE \E c \in Placing!Calls : Placing!Reject(c)
  BY <1>2, <1>6 DEF Placing!Reject, SmallSound
<1>7. CASE \E c \in Placing!Calls : Placing!Place(c)
  <2>1. ~intent.small
    BY <1>7 DEF Placing!Place, SmallSound
  <2>2. Placing!Exists'
    BY <1>7 DEF Placing!Place, Placing!Becomes, Placing!Exists
  <2>3. QED
    BY <1>1, <2>1, <2>2 DEF SmallSound
<1>8. CASE Placing!Work \/ Placing!CancelOrder
  BY <1>3, <1>8 DEF Placing!Work, Placing!CancelOrder, Placing!Becomes, Placing!Exists
<1>9. ASSUME UNCHANGED Placing!exchange,
             \/ Placing!Exists
             \/ Placing!Unavailable /\ at # "idle"
             \/ UNCHANGED told
      PROVE  SmallSound'
  <2>1. CASE Placing!Exists
    BY <1>3, <1>9, <2>1 DEF Placing!exchange, Placing!Exists
  <2>2. CASE Placing!Unavailable /\ at # "idle"
    <3>1. call \in Placing!Calls /\ told[call] = Placing!NoAnswer
      BY <2>2 DEF PlacementSound, CallsSound
    <3>2. QED
      BY <1>1, <1>9, <2>2, <3>1, SmallStays DEF Placing!Unavailable, Placing!Kinds
  <2>3. CASE UNCHANGED told
    BY <1>2, <1>9, <2>3 DEF Placing!exchange
  <2>4. QED
    BY <1>9, <2>1, <2>2, <2>3
<1>10. CASE \/ Placing!NetworkFails \/ Placing!IsRefused \/ Placing!IsDescribed
            \/ Placing!IsTerse \/ Placing!Resolve
  BY <1>9, <1>10
     DEF Placing!NetworkFails, Placing!IsRefused, Placing!IsDescribed,
         Placing!IsTerse, Placing!Resolve, Placing!Exists
<1>11. CASE \/ Placing!ReadById \/ Placing!ReadTrades \/ Placing!ReadListing
            \/ Placing!Reread
  <2>1. Placing!Exists
    BY <1>11 DEF Placing!ReadById, Placing!ReadTrades, Placing!ReadListing,
                 Placing!Reread, Placing!KnowsId, PlacementSound, Placing!TypeOK
  <2>2. UNCHANGED Placing!exchange
    BY <1>11 DEF Placing!ReadById, Placing!ReadTrades, Placing!ReadListing,
                 Placing!Reread
  <2>3. QED
    BY <1>9, <2>1, <2>2
<1>12. CASE UNCHANGED placement
  BY <1>2, <1>12 DEF placement
<1>13. QED
  BY <1>4, <1>5, <1>6, <1>7, <1>8, <1>10, <1>11, <1>12
  DEF Placing!Next, Placing!Execute

LEMMA InitSmall == MCInit => SmallSound
BY DEF MCInit, Placing!Init, SmallSound, Placing!WasEmpty, Placing!NoAnswer

LEMMA InitHonest == MCInit => Placing!Honest!Init
<1> SUFFICES ASSUME Placing!Init PROVE Placing!Honest!Init
  BY DEF MCInit
<1>1. Placing!Stage = "unsent" /\ order.filled = 0
  BY DEF Placing!Init, Placing!Stage, Placing!Exists, Placing!WasEmpty,
         Placing!NoAnswer, Placing!NoOrder
<1>2. \A c \in Placing!Calls : Placing!Kept(told[c]) = Placing!Honest!Nothing
  BY DEF Placing!Init, Placing!Kept, Placing!NoAnswer, Placing!Honest!Nothing
<1>3. QED
  BY <1>1, <1>2 DEF Placing!Honest!Init

(* What the adapter answers is true when it is said and stays true: a fill  *)
(* was executed, and of an order it called empty nothing is or will be --   *)
(* for any number of calls, lost and late requests, reads that lag behind   *)
(* each other and a cancellation that races the fills.  A price that moves  *)
(* below the minimum between two calls is set aside: the second call would  *)
(* deny an order the first one placed, and nobody makes it (ccxt_venue.py   *)
(* execute, _fill_from_order, _reconcile_terse_submit).                     *)
THEOREM TheAdapterIsHonest == ~PriceMoves => (MCSpec => AnswersHonestly)
<1>1. MCSpec => []PlacementSound
  BY PlacementAlways
<1>2. ASSUME ~PriceMoves
      PROVE  MCSpec => AnswersHonestly
  <2>1. SmallSound /\ PlacementSound
          /\ [MCNext]_<<part, cycles, placement, session>> => SmallSound'
    BY <1>2, SmallStep, PlacementOfThePath
  <2>2. PlacementSound /\ SmallSound /\ [MCNext]_<<part, cycles, placement, session>>
          => [Placing!Honest!Next]_(Placing!Honest!vars)
    BY <1>2, HonestSteps, PlacementOfThePath DEF HonestStep
  <2>3. QED
    BY <1>1, <2>1, <2>2, InitSmall, InitHonest, PTL
    DEF MCSpec, AnswersHonestly, Placing!AnswersHonestly, Placing!Honest!Spec
<1>3. QED
  BY <1>2

(* The adapter's call and the sessions keep their types, as long as there   *)
(* is a token nobody has.  For the call they say that it asks by the        *)
(* exchange's id only of an order the exchange took, and for the sessions   *)
(* that a process holds a rotated token exactly while it saves or connects  *)
(* with it.                                                                 *)
THEOREM PartsTypeCorrect == MCSpec /\ []TokensLast => []PartsTypeOK
<1>1. [MCNext]_<<part, cycles, placement, session>> => [Rotation!Next]_session
  BY DEF MCNext
<1>2. ChainSound => Rotation!TypeOK
  BY DEF ChainSound
<1>3. PlacementSound => Placing!TypeOK
  BY DEF PlacementSound
<1>4. PartsTypeOK <=> Placing!TypeOK /\ Rotation!TypeOK
  BY DEF PartsTypeOK
<1>5. QED
  BY <1>1, <1>2, <1>3, <1>4, InitChain, ChainStep, PlacementAlways, PTL DEF MCSpec
================================================================================
