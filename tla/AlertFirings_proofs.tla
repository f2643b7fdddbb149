--------------------------- MODULE AlertFirings_proofs --------------------------
(***************************************************************************)
(* Proofs about an alert over the notification queue it feeds, for any     *)
(* claims, evaluators, workers and rows: its types, and that no firing is  *)
(* recorded without the one row that tells its owner.                      *)
(***************************************************************************)
EXTENDS AlertFirings, DeliveryQueue_proofs

(* The rows not inserted yet are the same after any step of the queue but   *)
(* an insert.                                                               *)
LEMMA FreshKept ==
  ASSUME QueueTypeOK, QueueStep
  PROVE  Fresh' = Fresh
<1>1. ASSUME NEW w \in Workers, Pass(w) \/ Crash(w), NEW n \in Notes
      PROVE  n \in Fresh' <=> n \in Fresh
  <2>1. CASE BeginPass(w) \/ Purge(w)
    BY <2>1 DEF BeginPass, Purge, Fresh, QueueTypeOK
  <2>2. CASE Claim(w) \/ EndPass(w) \/ Send(w) \/ Crash(w)
    BY <2>2 DEF Claim, EndPass, Send, Crash, row, Fresh
  <2>3. CASE WriteDelivered(w) \/ WriteFailed(w)
    BY <2>3 DEF WriteDelivered, WriteFailed, IsMine, Fresh, QueueTypeOK
  <2>4. QED
    BY <1>1, <2>1, <2>2, <2>3 DEF Pass
<1>2. ASSUME NEW m \in Notes, Clock(m) \/ Ages(m)
      PROVE  Fresh' = Fresh
  BY <1>2 DEF Clock, Lapse, Elapse, Ages, Fresh
<1>3. QED
  <2>1. Fresh \subseteq Notes /\ Fresh' \subseteq Notes
    BY DEF Fresh
  <2>2. QED
    BY <1>1, <1>2, <2>1 DEF QueueStep

(* The owner, the claims that arrive and the evaluations keep the types.    *)
LEMMA AlertKeepsType ==
  ASSUME TypeOK, Next
  PROVE  TypeOK'
<1> USE DEF TypeOK, vars, alert, evaluation
<1>1. CASE \E c \in Claims : ClaimArrives(c)
  BY <1>1 DEF ClaimArrives, queue, row, worker, counts, QueueTypeOK
<1>2. CASE \E on \in BOOLEAN : OwnerSets(on)
  BY <1>2 DEF OwnerSets, queue, row, worker, counts, QueueTypeOK
<1>3. ASSUME NEW e \in Evaluators, Evaluate(e) \/ Abort(e)
      PROVE  TypeOK'
  <2>1. CASE ReadAlert(e)
    BY <2>1 DEF ReadAlert, queue, row, worker, counts, QueueTypeOK
  <2>2. CASE ReadClaims(e)
    <3>1. Crossings(visible) \subseteq Claims
      BY DEF Crossings
    <3>2. QED
      BY <2>2, <3>1
         DEF ReadClaims, Abandon, queue, row, worker, counts, QueueTypeOK
  <2>3. CASE ReadFired(e)
    BY <2>3 DEF ReadFired, Abandon, queue, row, worker, counts, QueueTypeOK
  <2>4. CASE Fire(e)
    <3>1. CASE NewFirings(e) = {}
      BY <2>4, <3>1
         DEF Fire, Abandon, queue, row, worker, counts, QueueTypeOK
    <3>2. CASE NewFirings(e) # {}
      <4>1. PICK n \in Notes : n = Min(Fresh) /\ Insert(n)
        BY <2>4, <3>2 DEF Fire, Insert, Fresh
      <4>2. QueueTypeOK'
        BY <4>1, RowStepKeepsType
      <4>3. NewFirings(e) \subseteq Claims
        BY DEF NewFirings
      <4>4. /\ fired' = fired \cup NewFirings(e)
            /\ demanded' = demanded + 1 \/ demanded' = demanded
            /\ carries' = [carries EXCEPT ![n] = NewFirings(e)]
            /\ UNCHANGED <<visible, oneShot>>
            /\ Abandon(e)
        BY <2>4, <3>2, <4>1 DEF Fire
      <4>5. active' \in BOOLEAN
        BY <2>4, <3>2 DEF Fire
      <4>6. QED
        BY <4>2, <4>3, <4>4, <4>5 DEF Abandon
    <3>3. QED
      BY <3>1, <3>2
  <2>5. CASE Abort(e)
    BY <2>5, DeliveryQueueAssumption
       DEF Abort, Abandon, row, worker, QueueTypeOK
  <2>6. QED
    BY <1>3, <2>1, <2>2, <2>3, <2>4, <2>5 DEF Evaluate
<1>4. CASE QueueStep /\ UNCHANGED <<alert, evaluation>>
  <2>1. QueueTypeOK'
    BY <1>4, QueueTypeStep DEF QueueNext
  <2>2. QED
    BY <1>4, <2>1
<1>5. QED
  BY <1>1, <1>2, <1>3, <1>4 DEF Next

(* The alert, its evaluations and the queue stay well typed.                *)
THEOREM AlertTypeCorrect == Spec => []TypeOK
<1>1. Init => TypeOK
  BY InitQueueType DEF Init, TypeOK
<1>2. TypeOK /\ [Next]_vars => TypeOK'
  <2>1. TypeOK /\ UNCHANGED vars => TypeOK'
    BY DEF TypeOK, vars, alert, evaluation, queue, row, worker, counts,
           QueueTypeOK
  <2>2. QED
    BY <2>1, AlertKeepsType
<1>3. QED
  BY <1>1, <1>2, PTL DEF Spec

--------------------------------------------------------------------------------
(* At the start nothing has fired, and no row carries anything.             *)
LEMMA InitQueuedOnce == Init => EachFiringQueuedOnce
BY DEF Init, QueueInit, EachFiringQueuedOnce, Fresh

(* Recording firings and inserting the row that tells of them: the new ones *)
(* are carried by that row alone, the old ones by the row they had.         *)
LEMMA FireQueuesOnce ==
  ASSUME TypeOK, EachFiringQueuedOnce, NEW e \in Evaluators, Fire(e),
         NewFirings(e) # {}
  PROVE  EachFiringQueuedOnce'
<1>1. PICK m \in Notes : m = Min(Fresh) /\ Insert(m)
  BY DEF Fire, Insert, Fresh
<1>2. /\ fired' = fired \cup NewFirings(e)
      /\ carries' = [carries EXCEPT ![m] = NewFirings(e)]
  BY <1>1 DEF Fire
<1>3. m \in Fresh /\ Fresh' = Fresh \ {m}
  BY <1>1 DEF Insert, Fresh, TypeOK, QueueTypeOK
<1>4. carries[m] = {}
  BY <1>1, <1>3 DEF EachFiringQueuedOnce
<1>5. ASSUME NEW c \in fired'
      PROVE  Cardinality({n \in Notes : c \in carries'[n]}) = 1
  <2>1. CASE c \in NewFirings(e)
    <3>1. c \notin fired
      BY <2>1 DEF NewFirings
    <3>2. \A n \in Notes : c \notin carries[n]
      BY <3>1 DEF EachFiringQueuedOnce
    <3>3. {n \in Notes : c \in carries'[n]} = {m}
      BY <1>2, <2>1, <3>2 DEF TypeOK
    <3>4. QED
      BY <3>3, FS_Singleton
  <2>2. CASE c \notin NewFirings(e)
    <3>1. c \in fired
      BY <1>2, <2>2
    <3>2. {n \in Notes : c \in carries'[n]} = {n \in Notes : c \in carries[n]}
      BY <1>2, <1>4, <2>2 DEF TypeOK
    <3>3. QED
      BY <3>1, <3>2 DEF EachFiringQueuedOnce
  <2>3. QED
    BY <2>1, <2>2
<1>6. ASSUME NEW n \in Notes
      PROVE  carries'[n] \subseteq fired' /\ (carries'[n] # {} <=> n \notin Fresh')
  <2>1. CASE n = m
    BY <1>2, <1>3, <2>1 DEF TypeOK
  <2>2. CASE n # m
    BY <1>2, <1>3, <2>2 DEF TypeOK, EachFiringQueuedOnce
  <2>3. QED
    BY <2>1, <2>2
<1>7. QED
  BY <1>5, <1>6 DEF EachFiringQueuedOnce

(* Every step keeps it: only the transaction of Fire writes firings, and    *)
(* only it inserts a row.                                                   *)
LEMMA QueuedOnceStep ==
  ASSUME TypeOK, EachFiringQueuedOnce, [Next]_vars
  PROVE  EachFiringQueuedOnce'
<1>1. ASSUME fired' = fired, carries' = carries, Fresh' = Fresh
      PROVE  EachFiringQueuedOnce'
  BY <1>1 DEF EachFiringQueuedOnce
<1>2. CASE UNCHANGED queue /\ UNCHANGED <<fired, carries>>
  BY <1>1, <1>2 DEF queue, row, Fresh
<1>3. CASE \E c \in Claims : ClaimArrives(c)
  BY <1>2, <1>3 DEF ClaimArrives
<1>4. CASE \E on \in BOOLEAN : OwnerSets(on)
  BY <1>2, <1>4 DEF OwnerSets
<1>5. ASSUME NEW e \in Evaluators, Evaluate(e) \/ Abort(e)
      PROVE  EachFiringQueuedOnce'
  <2>1. CASE ReadAlert(e) \/ ReadClaims(e) \/ ReadFired(e)
    BY <1>2, <2>1 DEF ReadAlert, ReadClaims, ReadFired, alert
  <2>2. CASE Fire(e)
    <3>1. CASE NewFirings(e) = {}
      BY <1>2, <2>2, <3>1 DEF Fire, alert
    <3>2. QED
      BY <2>2, <3>1, FireQueuesOnce
  <2>3. CASE Abort(e)
    BY <1>1, <2>3 DEF Abort, row, alert, Fresh
  <2>4. QED
    BY <1>5, <2>1, <2>2, <2>3 DEF Evaluate
<1>6. CASE QueueStep /\ UNCHANGED <<alert, evaluation>>
  BY <1>1, <1>6, FreshKept DEF TypeOK, alert
<1>7. CASE UNCHANGED vars
  BY <1>2, <1>7 DEF vars, alert
<1>8. QED
  BY <1>3, <1>4, <1>5, <1>6, <1>7 DEF Next

(* No firing without the row that tells its owner, none told of twice, and  *)
(* no row that tells of nothing: however evaluations, deliveries, crashes   *)
(* and arming interleave.                                                   *)
THEOREM FiringsAreQueuedOnce == Spec => []EachFiringQueuedOnce
<1>1. TypeOK /\ EachFiringQueuedOnce /\ [Next]_vars => EachFiringQueuedOnce'
  BY QueuedOnceStep
<1>2. QED
  BY <1>1, InitQueuedOnce, AlertTypeCorrect, PTL DEF Spec
================================================================================
