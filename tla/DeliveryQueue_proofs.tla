-------------------------- MODULE DeliveryQueue_proofs --------------------------
(***************************************************************************)
(* Proofs about the notification queue, for any number of rows and any     *)
(* finite number of workers: its types, the bound on the workers that have *)
(* one message in the air, the bound on the attempts, and that it          *)
(* implements the at-least-once queue of AtLeastOnce.                      *)
(***************************************************************************)
EXTENDS DeliveryQueue, FiniteSetTheorems, WellFoundedInduction, TLAPS

(* The order of the naturals, as a relation.                                *)
Below == {p \in Nat \X Nat : p[1] < p[2]}

(* Min picks a member of a non-empty set of naturals, and no other member   *)
(* is smaller: the row a claim takes (ORDER BY created_at LIMIT 1) is one   *)
(* of the rows it may take, and the oldest.                                 *)
LEMMA MinIsMember ==
  ASSUME NEW S \in SUBSET Nat, S # {}
  PROVE  /\ Min(S) \in S
         /\ \A y \in S : Min(S) <= y
<1>1. OpToRel(<, Nat) = Below
  BY Zenon DEF OpToRel, Below
<1>2. IsWellFoundedOn(Below, Nat)
  BY <1>1, NatLessThanWellFounded, Zenon
<1>3. PICK x \in S : \A y \in S : ~ (<<y, x>> \in Below)
  BY <1>2, WFMin, Zenon
<1>4. \A y \in S : x <= y
  <2>1. \A y \in S : x \in Nat /\ y \in Nat
    OBVIOUS
  <2>2. ASSUME NEW y \in S, y < x
        PROVE  FALSE
    <3>1. <<y, x>> \in Below
      BY <2>1, <2>2, SMT DEF Below
    <3>2. QED
      BY <3>1, <1>3
  <2>3. QED
    BY <2>1, <2>2
<1>5. QED
  BY <1>4, Zenon DEF Min

--------------------------------------------------------------------------------
(* Type correctness.                                                        *)

(* A claim takes one of the rows that are due for the pass.                 *)
LEMMA ClaimTakesADueRow ==
  ASSUME QueueTypeOK, NEW w \in Workers, Claimable(w) # {}
  PROVE  Min(Claimable(w)) \in Claimable(w)
<1>1. Claimable(w) \in SUBSET Nat
  BY DeliveryQueueAssumption DEF Claimable, QueueTypeOK
<1>2. QED
  BY <1>1, MinIsMember

(* The queue starts well typed.                                             *)
LEMMA InitQueueType == QueueInit => QueueTypeOK
BY DeliveryQueueAssumption
   DEF QueueInit, QueueTypeOK, Statuses, PCs, Holding

(* Every step of a worker keeps the types.                                  *)
LEMMA PassKeepsType ==
  ASSUME QueueTypeOK, NEW w \in Workers, Pass(w) \/ Crash(w)
  PROVE  QueueTypeOK'
<1> USE DeliveryQueueAssumption
    DEF QueueTypeOK, Statuses, PCs, Holding, row, worker, counts
<1>1. CASE BeginPass(w)
  BY <1>1 DEF BeginPass
<1>2. CASE Purge(w)
  BY <1>2 DEF Purge
<1>3. CASE Claim(w)
  <2>1. Min(Claimable(w)) \in Claimable(w)
    BY <1>3, ClaimTakesADueRow DEF Claim
  <2> DEFINE n == Min(Claimable(w))
  <2>2. n \in Notes
    BY <2>1 DEF Claimable
  <2>3. /\ attempts' = [attempts EXCEPT ![n] = @ + 1]
        /\ wait' = [wait EXCEPT ![n] = "lease"]
        /\ due' = [v \in Workers |-> due[v] \ {n}]
        /\ hand' = [hand EXCEPT ![w] = n]
        /\ token' = [token EXCEPT ![w] = attempts[n] + 1]
        /\ left[w] > 0
        /\ left' = [left EXCEPT ![w] = @ - 1]
        /\ pc' = [pc EXCEPT ![w] = "sending"]
        /\ UNCHANGED <<status, purged, age, accepted, crashes, lapses>>
    BY <1>3 DEF Claim
  <2> HIDE DEF n
  <2>4. QED
    BY <2>2, <2>3
<1>4. CASE EndPass(w)
  <2>1. /\ pc' = [pc EXCEPT ![w] = "idle"]
        /\ hand' = [hand EXCEPT ![w] = 0] /\ token' = [token EXCEPT ![w] = 0]
        /\ due' = [due EXCEPT ![w] = {}] /\ left' = [left EXCEPT ![w] = 0]
        /\ UNCHANGED <<row, counts>>
    BY <1>4 DEF EndPass, LetGo
  <2>2. QED
    BY <2>1
<1>5. CASE Send(w)
  BY <1>5 DEF Send
<1>6. CASE WriteDelivered(w)
  BY <1>6 DEF WriteDelivered, LetGo, IsMine
<1>7. CASE WriteFailed(w)
  BY <1>7 DEF WriteFailed, LetGo, IsMine
<1>8. CASE Crash(w)
  BY <1>8 DEF Crash, LetGo
<1>9. QED
  BY <1>1, <1>2, <1>3, <1>4, <1>5, <1>6, <1>7, <1>8 DEF Pass

(* So does the INSERT of a row, and the passing of time.                    *)
LEMMA RowStepKeepsType ==
  ASSUME QueueTypeOK, NEW n \in Notes, Clock(n) \/ Ages(n) \/ Insert(n)
  PROVE  QueueTypeOK'
<1> USE DeliveryQueueAssumption
    DEF QueueTypeOK, Statuses, PCs, Holding, row, worker, counts
<1>1. CASE Lapse(n)
  BY <1>1 DEF Lapse
<1>2. CASE Elapse(n)
  BY <1>2 DEF Elapse
<1>3. CASE Ages(n)
  BY <1>3 DEF Ages
<1>4. CASE Insert(n)
  BY <1>4 DEF Insert
<1>5. QED
  BY <1>1, <1>2, <1>3, <1>4 DEF Clock

(* Every step of the queue keeps the types.                                 *)
LEMMA QueueTypeStep ==
  ASSUME QueueTypeOK, [QueueNext]_queue
  PROVE  QueueTypeOK'
<1>1. CASE UNCHANGED queue
  BY <1>1 DEF QueueTypeOK, queue, row, worker, counts
<1>2. CASE QueueNext
  BY <1>2, PassKeepsType, RowStepKeepsType DEF QueueNext, QueueStep
<1>3. QED
  BY <1>1, <1>2

(* The rows, the workers and the counters of notify.py stay well typed.     *)
THEOREM QueueTypeCorrect == QueueSpec => []QueueTypeOK
<1>1. QueueInit => QueueTypeOK
  BY InitQueueType
<1>2. QueueTypeOK /\ [QueueNext]_queue => QueueTypeOK'
  BY QueueTypeStep
<1>3. QED
  BY <1>1, <1>2, PTL DEF QueueSpec

--------------------------------------------------------------------------------
(* How often a row is claimed, and how many workers send it.  Every claim   *)
(* of a row follows the one before it in one of three ways: its worker      *)
(* wrote the refusal (below the limit), its worker died, or its lease       *)
(* lapsed under it.  The last two are counted.  So while a row can be       *)
(* claimed, both bounds have room for one more.                             *)
Holders(n) == {w \in Workers : pc[w] \in Holding /\ hand[w] = n}

(* The row is pending, and a claim may follow without another lapse or      *)
(* crash: its wait is not a lease, or no worker holds it under the attempt  *)
(* last counted, or some pass has found it due.                             *)
Free(n) ==
  /\ status[n] = "pending"
  /\ \/ wait[n] # "lease"
     \/ ~IsHeld(n)
     \/ \E w \in Workers : n \in due[w]

WithinBounds(n) ==
  /\ Cardinality(Holders(n)) <= 1 + lapses
  /\ attempts[n] <= MaxAttempts + crashes + lapses

RoomForOneMore(n) ==
  Free(n) => /\ Cardinality(Holders(n)) <= lapses
             /\ attempts[n] < MaxAttempts + crashes + lapses

(* A row not inserted yet has no traces.                                    *)
Untouched(n) ==
  n \in Fresh => /\ Holders(n) = {}
                 /\ attempts[n] = 0
                 /\ \A w \in Workers : n \notin due[w]

RowSound(n) == WithinBounds(n) /\ RoomForOneMore(n) /\ Untouched(n)

QueueSound == \A n \in Notes : RowSound(n)

(* The workers that hold a row are finitely many.                           *)
LEMMA HoldersAreFinite ==
  ASSUME NEW n \in Notes
  PROVE  IsFiniteSet(Holders(n)) /\ Cardinality(Holders(n)) \in Nat
BY DeliveryQueueAssumption, FS_Subset, FS_CardinalityType DEF Holders

(* The same in the next state.                                              *)
LEMMA HoldersStayFinite ==
  ASSUME NEW n \in Notes
  PROVE  IsFiniteSet(Holders(n)') /\ Cardinality(Holders(n)') \in Nat
<1>1. Holders(n)' \in SUBSET Workers
  BY DEF Holders
<1>2. QED
  BY <1>1, DeliveryQueueAssumption, FS_Subset, FS_CardinalityType

(* A step that lets no worker take the row, counts no attempt on it and     *)
(* makes it no more claimable keeps what is said of the row.                *)
LEMMA RowKept ==
  ASSUME QueueTypeOK, QueueTypeOK', NEW n \in Notes, RowSound(n),
         Holders(n)' \subseteq Holders(n),
         attempts'[n] = attempts[n],
         lapses' >= lapses, crashes' >= crashes,
         Free(n)' => Free(n),
         n \in Fresh' => n \in Fresh /\ \A w \in Workers : n \notin due'[w]
  PROVE  RowSound(n)'
<1>1. Cardinality(Holders(n)') <= Cardinality(Holders(n))
  BY HoldersAreFinite, FS_Subset
<1>2. /\ lapses \in Nat /\ lapses' \in Nat /\ crashes \in Nat /\ crashes' \in Nat
      /\ attempts[n] \in Nat
      /\ Cardinality(Holders(n)) \in Nat /\ Cardinality(Holders(n)') \in Nat
  BY HoldersAreFinite, HoldersStayFinite, DeliveryQueueAssumption
     DEF QueueTypeOK
<1>3. WithinBounds(n)'
  BY <1>1, <1>2, DeliveryQueueAssumption DEF RowSound, WithinBounds
<1>4. RoomForOneMore(n)'
  BY <1>1, <1>2, DeliveryQueueAssumption DEF RowSound, RoomForOneMore
<1>5. Untouched(n)'
  BY DEF RowSound, Untouched
<1>6. QED
  BY <1>3, <1>4, <1>5 DEF RowSound

(* A worker that lets go of the row makes room for the next claim: one      *)
(* worker fewer holds it.                                                   *)
LEMMA OneHolderFewer ==
  ASSUME NEW n \in Notes, NEW w \in Holders(n),
         Holders(n)' \subseteq Holders(n) \ {w}
  PROVE  Cardinality(Holders(n)') <= Cardinality(Holders(n)) - 1
<1>1. /\ IsFiniteSet(Holders(n) \ {w})
      /\ Cardinality(Holders(n) \ {w}) = Cardinality(Holders(n)) - 1
  BY HoldersAreFinite, FS_RemoveElement
<1>2. Cardinality(Holders(n)') <= Cardinality(Holders(n) \ {w})
  BY <1>1, FS_Subset
<1>3. QED
  BY <1>1, <1>2

(* At the start every row is untouched.                                     *)
LEMMA InitQueueSound == QueueInit => QueueSound
<1> SUFFICES ASSUME QueueInit, NEW n \in Notes
             PROVE  RowSound(n)
  BY DEF QueueSound
<1>1. Holders(n) = {}
  BY DEF QueueInit, Holders, Holding
<1>2. QED
  BY <1>1, FS_EmptySet, DeliveryQueueAssumption
     DEF QueueInit, RowSound, WithinBounds, RoomForOneMore, Untouched, Free

(* Inserting a row.                                                         *)
LEMMA InsertKeepsRows ==
  ASSUME QueueTypeOK, QueueTypeOK', QueueSound, NEW m \in Notes, Insert(m),
         NEW n \in Notes
  PROVE  RowSound(n)'
<1>1. Holders(n)' = Holders(n) /\ attempts'[n] = attempts[n]
      /\ lapses' = lapses /\ crashes' = crashes /\ due' = due
  BY DEF Insert, Holders, worker, counts
<1>2. RowSound(n)
  BY DEF QueueSound
<1>3. CASE n = m
  <2>1. Holders(n) = {} /\ attempts[n] = 0
    BY <1>2, <1>3 DEF RowSound, Untouched, Insert
  <2>2. Cardinality(Holders(n)') = 0
    BY <1>1, <2>1, FS_EmptySet
  <2>3. n \notin Fresh'
    BY <1>3 DEF Insert, Fresh, QueueTypeOK
  <2>4. lapses' \in Nat /\ crashes' \in Nat
    BY DeliveryQueueAssumption DEF QueueTypeOK
  <2>5. QED
    BY <1>1, <2>1, <2>2, <2>3, <2>4, DeliveryQueueAssumption
       DEF RowSound, WithinBounds, RoomForOneMore, Untouched
<1>4. CASE n # m
  <2>1. status'[n] = status[n] /\ wait'[n] = wait[n]
        /\ (n \in Fresh' <=> n \in Fresh)
    BY <1>4 DEF Insert, Fresh, QueueTypeOK
  <2>2. Free(n)' => Free(n)
    BY <1>1, <2>1 DEF Free, IsHeld, Insert, worker
  <2>3. n \in Fresh' => \A w \in Workers : n \notin due'[w]
    BY <1>1, <1>2, <2>1 DEF RowSound, Untouched
  <2>4. QED
    BY <1>1, <1>2, <2>1, <2>2, <2>3, RowKept DEF QueueTypeOK
<1>5. QED
  BY <1>3, <1>4

(* The steps of a worker that neither take a row nor let go of one.         *)
LEMMA QuietStepsKeepRows ==
  ASSUME QueueTypeOK, QueueTypeOK', QueueSound, NEW w \in Workers,
         BeginPass(w) \/ Purge(w) \/ EndPass(w) \/ Send(w),
         NEW n \in Notes
  PROVE  RowSound(n)'
<1>1. RowSound(n)
  BY DEF QueueSound
<1>2. lapses' = lapses /\ crashes' = crashes /\ lapses \in Nat /\ crashes \in Nat
  BY DeliveryQueueAssumption
     DEF BeginPass, Purge, EndPass, Send, counts, QueueTypeOK
<1>3. CASE BeginPass(w)
  <2>1. Holders(n)' = Holders(n) /\ (IsHeld(n)' <=> IsHeld(n))
    BY <1>3 DEF BeginPass, Holders, IsHeld, Holding, QueueTypeOK
  <2>2. Free(n)' => Free(n)
    BY <1>3, <2>1 DEF BeginPass, Free, QueueTypeOK
  <2>3. n \in Fresh' => n \in Fresh /\ \A v \in Workers : n \notin due'[v]
    BY <1>1, <1>3 DEF BeginPass, Fresh, QueueTypeOK, RowSound, Untouched
  <2>4. attempts' = attempts
    BY <1>3 DEF BeginPass
  <2>5. QED
    BY <1>1, <1>2, <2>1, <2>2, <2>3, <2>4, RowKept
<1>4. CASE Purge(w)
  <2>1. Holders(n)' = Holders(n) /\ due' = due
    BY <1>4 DEF Purge, Holders, Holding, QueueTypeOK
  <2>2. CASE status[n] \in {"delivered", "failed"} /\ age[n] = 2
    <3>1. status'[n] = "absent" /\ attempts'[n] = 0 /\ n \in purged'
      BY <1>4, <2>2 DEF Purge
    <3>2. Cardinality(Holders(n)') <= 1 + lapses
      BY <1>1, <2>1 DEF RowSound, WithinBounds
    <3>3. QED
      BY <1>2, <3>1, <3>2, DeliveryQueueAssumption
         DEF RowSound, WithinBounds, RoomForOneMore, Untouched, Free, Fresh
  <2>3. CASE ~(status[n] \in {"delivered", "failed"} /\ age[n] = 2)
    <3>1. /\ status'[n] = status[n] /\ attempts'[n] = attempts[n]
          /\ wait'[n] = wait[n] /\ (n \in purged' <=> n \in purged)
      BY <1>4, <2>3 DEF Purge
    <3>2. IsHeld(n)' <=> IsHeld(n)
      BY <1>4, <3>1 DEF Purge, IsHeld, Holding, QueueTypeOK
    <3>3. Free(n)' => Free(n)
      BY <2>1, <3>1, <3>2 DEF Free
    <3>4. n \in Fresh' => n \in Fresh /\ \A v \in Workers : n \notin due'[v]
      BY <1>1, <2>1, <3>1 DEF Fresh, RowSound, Untouched
    <3>5. QED
      BY <1>1, <1>2, <2>1, <3>1, <3>3, <3>4, RowKept
  <2>4. QED
    BY <2>2, <2>3
<1>5. CASE EndPass(w)
  <2>1. Holders(n)' = Holders(n) /\ (IsHeld(n)' <=> IsHeld(n))
    BY <1>5 DEF EndPass, LetGo, Holders, IsHeld, Holding, QueueTypeOK, row
  <2>2. /\ status' = status /\ wait' = wait /\ attempts' = attempts
        /\ purged' = purged /\ \A v \in Workers : due'[v] \subseteq due[v]
    BY <1>5 DEF EndPass, row, QueueTypeOK
  <2>3. Free(n)' => Free(n)
    BY <2>1, <2>2 DEF Free
  <2>4. n \in Fresh' => n \in Fresh /\ \A v \in Workers : n \notin due'[v]
    BY <1>1, <2>2 DEF Fresh, RowSound, Untouched
  <2>5. QED
    BY <1>1, <1>2, <2>1, <2>2, <2>3, <2>4, RowKept
<1>6. CASE Send(w)
  <2>1. Holders(n)' = Holders(n) /\ (IsHeld(n)' <=> IsHeld(n))
    BY <1>6 DEF Send, Holders, IsHeld, Holding, QueueTypeOK, row
  <2>2. /\ status' = status /\ wait' = wait /\ attempts' = attempts
        /\ purged' = purged /\ due' = due
    BY <1>6 DEF Send, row
  <2>3. Free(n)' => Free(n)
    BY <2>1, <2>2 DEF Free
  <2>4. n \in Fresh' => n \in Fresh /\ \A v \in Workers : n \notin due'[v]
    BY <1>1, <2>2 DEF Fresh, RowSound, Untouched
  <2>5. QED
    BY <1>1, <1>2, <2>1, <2>2, <2>3, <2>4, RowKept
<1>7. QED
  BY <1>3, <1>4, <1>5, <1>6

(* A claim takes the room its row had.                                      *)
LEMMA ClaimKeepsRows ==
  ASSUME QueueTypeOK, QueueTypeOK', QueueSound, NEW w \in Workers, Claim(w),
         NEW n \in Notes
  PROVE  RowSound(n)'
<1> DEFINE m == Min(Claimable(w))
<1>1. m \in Notes /\ m \in due[w] /\ status[m] = "pending"
  BY ClaimTakesADueRow DEF Claim, Claimable, QueueTypeOK
<1>2. /\ pc[w] = "claiming"
      /\ attempts' = [attempts EXCEPT ![m] = @ + 1]
      /\ wait' = [wait EXCEPT ![m] = "lease"]
      /\ due' = [v \in Workers |-> due[v] \ {m}]
      /\ hand' = [hand EXCEPT ![w] = m]
      /\ token' = [token EXCEPT ![w] = attempts[m] + 1]
      /\ pc' = [pc EXCEPT ![w] = "sending"]
      /\ status' = status /\ purged' = purged
      /\ lapses' = lapses /\ crashes' = crashes
  BY DEF Claim, counts
<1> HIDE DEF m
<1>3. RowSound(n)
  BY DEF QueueSound
<1>4. /\ lapses \in Nat /\ crashes \in Nat /\ attempts[n] \in Nat
      /\ n \in Fresh' <=> n \in Fresh
  BY <1>2, DeliveryQueueAssumption DEF QueueTypeOK, Fresh
<1>5. CASE n = m
  <2>1. Free(n)
    BY <1>1, <1>5 DEF Free
  <2>2. Cardinality(Holders(n)) <= lapses
        /\ attempts[n] < MaxAttempts + crashes + lapses
    BY <1>3, <2>1 DEF RowSound, RoomForOneMore
  <2>3. Holders(n)' = Holders(n) \cup {w}
    BY <1>2, <1>5 DEF Holders, Holding, QueueTypeOK
  <2>4. /\ Cardinality(Holders(n)') <= Cardinality(Holders(n)) + 1
        /\ Cardinality(Holders(n)) \in Nat /\ Cardinality(Holders(n)') \in Nat
    <3>1. IsFiniteSet(Holders(n)) /\ Cardinality(Holders(n)) \in Nat
      BY HoldersAreFinite
    <3>2. Cardinality(Holders(n) \cup {w}) =
            IF w \in Holders(n) THEN Cardinality(Holders(n))
            ELSE Cardinality(Holders(n)) + 1
      BY <3>1, FS_AddElement
    <3>3. QED
      BY <2>3, <3>1, <3>2
  <2>5. attempts'[n] = attempts[n] + 1 /\ token'[w] = attempts'[n]
        /\ hand'[w] = n /\ pc'[w] = "sending" /\ wait'[n] = "lease"
    BY <1>1, <1>2, <1>5 DEF QueueTypeOK
  <2>6. ~Free(n)'
    BY <1>2, <1>5, <2>5 DEF Free, IsHeld, Holding
  <2>7. n \notin Fresh'
    BY <1>1, <1>2, <1>5 DEF Fresh
  <2>8. QED
    BY <1>2, <1>4, <2>2, <2>4, <2>5, <2>6, <2>7, DeliveryQueueAssumption
       DEF RowSound, WithinBounds, RoomForOneMore, Untouched
<1>6. CASE n # m
  <2>1. Holders(n)' = Holders(n)
    BY <1>2, <1>6 DEF Holders, Holding, QueueTypeOK
  <2>2. attempts'[n] = attempts[n] /\ wait'[n] = wait[n]
    BY <1>2, <1>6 DEF QueueTypeOK
  <2>3. IsHeld(n)' <=> IsHeld(n)
    BY <1>2, <1>6, <2>2 DEF IsHeld, Holding, QueueTypeOK
  <2>4. Free(n)' => Free(n)
    BY <1>2, <2>2, <2>3 DEF Free
  <2>5. n \in Fresh' => n \in Fresh /\ \A v \in Workers : n \notin due'[v]
    BY <1>2, <1>3, <1>4 DEF RowSound, Untouched
  <2>6. QED
    BY <1>2, <1>3, <1>4, <2>1, <2>2, <2>4, <2>5, RowKept
<1>7. QED
  BY <1>5, <1>6

(* A worker that lets go of a row settles it, or leaves room for one more:  *)
(* it was one of those that held it, and the attempt it made was refused    *)
(* below the limit, or is counted among the crashes.                        *)
LEMMA LettingGoKeepsRow ==
  ASSUME QueueTypeOK, QueueTypeOK', NEW w \in Workers, NEW n \in Notes,
         RowSound(n), n = hand[w], pc[w] \in Holding,
         Holders(n)' \subseteq Holders(n) \ {w},
         attempts'[n] = attempts[n],
         lapses' = lapses, crashes' >= crashes,
         n \in Fresh' => n \in Fresh,
         status'[n] = "pending"
           => attempts[n] < MaxAttempts + crashes' + lapses
  PROVE  RowSound(n)'
<1>1. w \in Holders(n)
  BY DEF Holders
<1>2. Cardinality(Holders(n)') <= Cardinality(Holders(n)) - 1
  BY <1>1, OneHolderFewer
<1>3. /\ lapses \in Nat /\ crashes \in Nat /\ crashes' \in Nat
      /\ attempts[n] \in Nat
      /\ Cardinality(Holders(n)) \in Nat /\ Cardinality(Holders(n)') \in Nat
  BY HoldersAreFinite, HoldersStayFinite, DeliveryQueueAssumption
     DEF QueueTypeOK
<1>4. WithinBounds(n)'
  BY <1>2, <1>3, DeliveryQueueAssumption DEF RowSound, WithinBounds
<1>5. RoomForOneMore(n)'
  BY <1>2, <1>3, DeliveryQueueAssumption
     DEF RowSound, WithinBounds, RoomForOneMore, Free
<1>6. n \notin Fresh'
  BY <1>1 DEF RowSound, Untouched
<1>7. QED
  BY <1>4, <1>5, <1>6 DEF RowSound, Untouched

(* The steps that end an attempt: the outcome is written, or the worker     *)
(* dies.                                                                    *)
LEMMA OutcomesKeepRows ==
  ASSUME QueueTypeOK, QueueTypeOK', QueueSound, NEW w \in Workers,
         WriteDelivered(w) \/ WriteFailed(w) \/ Crash(w),
         NEW n \in Notes
  PROVE  RowSound(n)'
<1>1. RowSound(n)
  BY DEF QueueSound
<1>2. /\ pc'[w] \notin Holding
      /\ \A v \in Workers \ {w} : pc'[v] = pc[v] /\ hand'[v] = hand[v]
                                  /\ token'[v] = token[v]
      /\ attempts' = attempts /\ purged' = purged /\ lapses' = lapses
      /\ crashes' >= crashes
      /\ \A v \in Workers : due'[v] \subseteq due[v]
  BY DeliveryQueueAssumption
     DEF WriteDelivered, WriteFailed, Crash, LetGo, Holding, QueueTypeOK,
         counts, row
<1>3. Holders(n)' = Holders(n) \ {w}
  BY <1>2 DEF Holders
<1>4. /\ lapses \in Nat /\ crashes \in Nat /\ crashes' \in Nat
      /\ attempts[n] \in Nat
  BY DeliveryQueueAssumption DEF QueueTypeOK
<1>5. /\ status'[n] = "pending" => status[n] = "pending"
      /\ n \in Fresh' => n \in Fresh
  BY DEF WriteDelivered, WriteFailed, Crash, Fresh, row, QueueTypeOK
<1>6. n \in Fresh' => n \in Fresh /\ \A v \in Workers : n \notin due'[v]
  BY <1>1, <1>2, <1>5 DEF RowSound, Untouched
<1>7. CASE w \in Holders(n) /\ token[w] = attempts[n]
  <2>1. hand[w] = n /\ pc[w] \in Holding
    BY <1>7 DEF Holders
  <2>2. ASSUME status'[n] = "pending"
        PROVE  attempts[n] < MaxAttempts + crashes' + lapses
    <3>1. CASE WriteDelivered(w)
      BY <1>5, <1>7, <2>1, <2>2, <3>1 DEF WriteDelivered, IsMine, QueueTypeOK
    <3>2. CASE WriteFailed(w)
      <4>1. token[w] < MaxAttempts
        BY <1>5, <1>7, <2>1, <2>2, <3>2, DeliveryQueueAssumption
           DEF WriteFailed, IsMine, QueueTypeOK
      <4>2. QED
        BY <1>4, <1>7, <4>1, DeliveryQueueAssumption
    <3>3. CASE Crash(w)
      <4>1. crashes' = crashes + 1
        BY <3>3 DEF Crash
      <4>2. QED
        BY <1>1, <1>4, <4>1, DeliveryQueueAssumption DEF RowSound, WithinBounds
    <3>4. QED
      BY <3>1, <3>2, <3>3
  <2>3. QED
    BY <1>1, <1>2, <1>3, <1>5, <2>1, <2>2, LettingGoKeepsRow
<1>8. CASE ~(w \in Holders(n) /\ token[w] = attempts[n])
  <2>1. IsHeld(n)' <=> IsHeld(n)
    BY <1>2, <1>8 DEF IsHeld, Holders
  <2>2. wait'[n] = wait[n]
    <3>1. CASE WriteFailed(w) /\ hand[w] = n
      BY <1>8, <3>1 DEF WriteFailed, IsMine, Holders, Holding, QueueTypeOK
    <3>2. CASE ~(WriteFailed(w) /\ hand[w] = n)
      BY <3>2 DEF WriteFailed, WriteDelivered, Crash, row, QueueTypeOK
    <3>3. QED
      BY <3>1, <3>2
  <2>3. Free(n)' => Free(n)
    BY <1>2, <1>5, <2>1, <2>2 DEF Free
  <2>4. QED
    BY <1>1, <1>2, <1>3, <1>4, <1>6, <2>3, RowKept
<1>9. QED
  BY <1>7, <1>8

(* Time: a lease that lapses under its worker is counted and makes room.    *)
LEMMA TimeKeepsRows ==
  ASSUME QueueTypeOK, QueueTypeOK', QueueSound, NEW m \in Notes,
         Clock(m) \/ Ages(m),
         NEW n \in Notes
  PROVE  RowSound(n)'
<1>1. RowSound(n)
  BY DEF QueueSound
<1>2. /\ Holders(n)' = Holders(n) /\ (IsHeld(n)' <=> IsHeld(n))
      /\ attempts' = attempts /\ status' = status /\ purged' = purged
      /\ due' = due /\ crashes' = crashes
      /\ lapses' = lapses \/ lapses' = lapses + 1
  BY DEF Clock, Lapse, Elapse, Ages, Holders, IsHeld, worker, counts
<1>3. /\ lapses \in Nat /\ crashes \in Nat /\ attempts[n] \in Nat
      /\ lapses' \in Nat
      /\ Cardinality(Holders(n)) \in Nat
  BY DeliveryQueueAssumption, HoldersAreFinite DEF QueueTypeOK
<1>4. n \in Fresh' => n \in Fresh /\ \A v \in Workers : n \notin due'[v]
  BY <1>1, <1>2 DEF Fresh, RowSound, Untouched
<1>5. CASE Lapse(m) /\ n = m /\ IsHeld(n)
  <2>1. lapses' = lapses + 1
    BY <1>5 DEF Lapse
  <2>2. Cardinality(Holders(n)) <= lapses'
        /\ attempts[n] < MaxAttempts + crashes + lapses'
    BY <1>1, <1>3, <2>1, DeliveryQueueAssumption DEF RowSound, WithinBounds
  <2>3. QED
    BY <1>1, <1>2, <1>3, <1>4, <2>1, <2>2, DeliveryQueueAssumption
       DEF RowSound, WithinBounds, RoomForOneMore, Untouched
<1>6. CASE ~(Lapse(m) /\ n = m /\ IsHeld(n))
  <2>1. Free(n)' => Free(n)
    <3>1. CASE Lapse(m)
      BY <1>2, <1>6, <3>1 DEF Lapse, Free, QueueTypeOK
    <3>2. CASE Elapse(m)
      BY <1>2, <3>2 DEF Elapse, Free, QueueTypeOK
    <3>3. CASE Ages(m)
      BY <1>2, <3>3 DEF Ages, Free
    <3>4. QED
      BY <3>1, <3>2, <3>3 DEF Clock
  <2>2. QED
    BY <1>1, <1>2, <1>3, <1>4, <2>1, RowKept
<1>7. QED
  BY <1>5, <1>6

(* Every step of the queue keeps the bounds and the room for one more.      *)
LEMMA QueueSoundStep ==
  ASSUME QueueTypeOK, QueueSound, [QueueNext]_queue
  PROVE  QueueSound'
<1>1. QueueTypeOK'
  BY QueueTypeStep
<1>2. CASE UNCHANGED queue
  BY <1>2 DEF queue, row, worker, counts, QueueSound, RowSound, WithinBounds,
              RoomForOneMore, Untouched, Free, IsHeld, Holders, Fresh
<1>3. ASSUME QueueNext, NEW n \in Notes
      PROVE  RowSound(n)'
  <2>1. CASE \E m \in Notes : Insert(m)
    BY <1>1, <2>1, InsertKeepsRows
  <2>2. CASE \E m \in Notes : Clock(m) \/ Ages(m)
    BY <1>1, <2>2, TimeKeepsRows
  <2>3. CASE \E w \in Workers : Pass(w) \/ Crash(w)
    <3>1. PICK w \in Workers : Pass(w) \/ Crash(w)
      BY <2>3
    <3>2. CASE BeginPass(w) \/ Purge(w) \/ EndPass(w) \/ Send(w)
      BY <1>1, <3>2, QuietStepsKeepRows
    <3>3. CASE Claim(w)
      BY <1>1, <3>3, ClaimKeepsRows
    <3>4. CASE WriteDelivered(w) \/ WriteFailed(w) \/ Crash(w)
      BY <1>1, <3>4, OutcomesKeepRows
    <3>5. QED
      BY <3>1, <3>2, <3>3, <3>4 DEF Pass
  <2>4. QED
    BY <1>3, <2>1, <2>2, <2>3 DEF QueueNext, QueueStep
<1>4. QED
  BY <1>2, <1>3 DEF QueueSound

(* Types and bounds together are inductive.                                 *)
THEOREM QueueStaysSound == QueueSpec => [](QueueTypeOK /\ QueueSound)
<1>1. QueueInit => QueueTypeOK /\ QueueSound
  BY InitQueueType, InitQueueSound
<1>2. QueueTypeOK /\ QueueSound /\ [QueueNext]_queue
        => (QueueTypeOK /\ QueueSound)'
  BY QueueTypeStep, QueueSoundStep
<1>3. QED
  BY <1>1, <1>2, PTL DEF QueueSpec

(* Two workers have one message in the air only when a lease lapsed under   *)
(* one that was still sending.                                              *)
THEOREM OneSenderOrALapse == QueueSpec => []OneSenderUnlessLapsed
<1>1. QueueSound => OneSenderUnlessLapsed
  BY DEF QueueSound, RowSound, WithinBounds, Holders, OneSenderUnlessLapsed
<1>2. QED
  BY <1>1, QueueStaysSound, PTL

(* A row is claimed more often than the limit only where a worker died or   *)
(* lost its lease.                                                          *)
THEOREM RetriesAreBounded == QueueSpec => []AttemptsAreBounded
<1>1. QueueSound => AttemptsAreBounded
  BY DEF QueueSound, RowSound, WithinBounds, AttemptsAreBounded
<1>2. QED
  BY <1>1, QueueStaysSound, PTL

--------------------------------------------------------------------------------
(* The queue implements AtLeastOnce.  The mapping of its steps needs two    *)
(* facts more: a worker that saw its message go out has had it taken by the *)
(* channel, and a row that was deleted is not there any more.               *)
SentIsTaken == \A w \in Workers : pc[w] = "sent" => hand[w] \in accepted
PurgedIsGone == \A n \in purged : status[n] = "absent"

RefinementInv == QueueTypeOK /\ QueueSound /\ SentIsTaken /\ PurgedIsGone

(* What Fate says of each row, case by case.                                *)
FatesFollowStatus ==
  \A n \in Notes :
    /\ Fate(n) = "forgotten" <=> n \in purged
    /\ Fate(n) = "unknown"   <=> n \in Fresh
    /\ Fate(n) = "queued"    <=> status[n] = "pending"
    /\ Fate(n) = "delivered" <=> status[n] = "delivered"
    /\ Fate(n) = "abandoned" <=> status[n] = "failed"

LEMMA FateByStatus == QueueTypeOK /\ PurgedIsGone => FatesFollowStatus
<1> SUFFICES ASSUME QueueTypeOK, PurgedIsGone, NEW n \in Notes
             PROVE  /\ Fate(n) = "forgotten" <=> n \in purged
                    /\ Fate(n) = "unknown"   <=> n \in Fresh
                    /\ Fate(n) = "queued"    <=> status[n] = "pending"
                    /\ Fate(n) = "delivered" <=> status[n] = "delivered"
                    /\ Fate(n) = "abandoned" <=> status[n] = "failed"
  BY DEF FatesFollowStatus
<1>1. status[n] \in Statuses
  BY DEF QueueTypeOK
<1>2. CASE n \in purged
  BY <1>2 DEF Fate, PurgedIsGone, Fresh
<1>3. CASE n \notin purged
  BY <1>1, <1>3 DEF Fate, Fresh, Statuses
<1>4. QED
  BY <1>2, <1>3

(* The same in the next state.                                              *)
LEMMA FateByStatusNext == (QueueTypeOK /\ PurgedIsGone)' => FatesFollowStatus'
BY FateByStatus, PTL

(* A row that keeps its status and is not deleted keeps its fate.           *)
LEMMA FateKept ==
  ASSUME QueueTypeOK, PurgedIsGone, NEW n \in Notes,
         status'[n] = status[n], n \in purged' <=> n \in purged
  PROVE  Fate(n)' = Fate(n)
<1>1. status[n] \in Statuses /\ (n \in Fresh' <=> n \in Fresh)
  BY DEF QueueTypeOK, Fresh
<1>2. CASE n \in purged
  <2>1. n \notin Fresh /\ status[n] = "absent"
    BY <1>2 DEF Fresh, PurgedIsGone
  <2>2. Fate(n) = "forgotten" /\ Fate(n)' = "forgotten"
    BY <1>1, <1>2, <2>1 DEF Fate
  <2>3. QED
    BY <2>2
<1>3. CASE n \notin purged
  <2>1. CASE n \in Fresh
    BY <1>1, <1>3, <2>1 DEF Fate, Fresh
  <2>2. CASE n \notin Fresh
    BY <1>1, <1>3, <2>2 DEF Fate, Fresh, Statuses
  <2>3. QED
    BY <2>1, <2>2
<1>4. QED
  BY <1>2, <1>3

(* Both facts hold at the start and are kept.                               *)
LEMMA RefinementInvStep ==
  ASSUME RefinementInv, [QueueNext]_queue
  PROVE  RefinementInv'
<1>1. QueueTypeOK' /\ QueueSound'
  BY QueueTypeStep, QueueSoundStep DEF RefinementInv
<1>2. CASE UNCHANGED queue
  BY <1>1, <1>2 DEF queue, row, worker, counts, RefinementInv, SentIsTaken,
                    PurgedIsGone
<1>3. CASE QueueNext
  <2>1. SentIsTaken'
    <3>1. ASSUME NEW w \in Workers, Pass(w) \/ Crash(w)
          PROVE  SentIsTaken'
      BY <3>1 DEF Pass, BeginPass, Purge, Claim, EndPass, Send, WriteDelivered,
              WriteFailed, Crash, LetGo, SentIsTaken, RefinementInv,
              QueueTypeOK, row, counts
    <3>2. CASE ~\E w \in Workers : Pass(w) \/ Crash(w)
      BY <1>3, <3>2 DEF QueueNext, QueueStep, Clock, Lapse, Elapse, Ages,
                        Insert, SentIsTaken, RefinementInv, worker, counts
    <3>3. QED
      BY <3>1, <3>2
  <2>2. PurgedIsGone'
    <3>1. ASSUME NEW w \in Workers, Pass(w) \/ Crash(w)
          PROVE  PurgedIsGone'
      <4>1. CASE Purge(w)
        BY <4>1 DEF Purge, PurgedIsGone, RefinementInv, QueueTypeOK
      <4>2. CASE ~Purge(w)
        BY <3>1, <4>2
           DEF Pass, BeginPass, Claim, EndPass, Send, WriteDelivered,
               WriteFailed, Crash, LetGo, IsMine, PurgedIsGone, RefinementInv,
               QueueTypeOK, row, counts
      <4>3. QED
        BY <4>1, <4>2
    <3>2. CASE ~\E w \in Workers : Pass(w) \/ Crash(w)
      BY <1>3, <3>2 DEF QueueNext, QueueStep, Clock, Lapse, Elapse, Ages,
                        Insert, Fresh, PurgedIsGone, RefinementInv,
                        QueueTypeOK, worker, counts
    <3>3. QED
      BY <3>1, <3>2
  <2>3. QED
    BY <1>1, <2>1, <2>2 DEF RefinementInv
<1>4. QED
  BY <1>2, <1>3

(* A step that changes neither fates nor the messages taken is a stutter of *)
(* the abstract queue.                                                      *)
LEMMA StuttersWhere ==
  ASSUME accepted' = accepted, \A n \in Notes : Fate(n)' = Fate(n)
  PROVE  UNCHANGED Promise!vars
<1>1. [n \in Notes |-> Fate(n)]' = [n \in Notes |-> Fate(n)]
  OBVIOUS
<1>2. QED
  BY <1>1 DEF Promise!vars

(* An insert queues the row.                                                *)
LEMMA InsertQueues ==
  ASSUME RefinementInv, RefinementInv', NEW n \in Notes, Insert(n)
  PROVE  Promise!Queue(n)
<1>1. FatesFollowStatus /\ FatesFollowStatus'
  BY FateByStatus, FateByStatusNext DEF RefinementInv
<1>2. accepted' = accepted /\ Fate(n) = "unknown" /\ Fate(n)' = "queued"
  BY <1>1 DEF FatesFollowStatus, Insert, RefinementInv, QueueTypeOK, counts
<1>3. \A m \in Notes \ {n} : Fate(m)' = Fate(m)
  BY FateKept DEF Insert, RefinementInv, QueueTypeOK
<1>4. [m \in Notes |-> Fate(m)]' =
        [[m \in Notes |-> Fate(m)] EXCEPT ![n] = "queued"]
  BY <1>2, <1>3
<1>5. QED
  BY <1>2, <1>4 DEF Promise!Queue

(* The rows that lose their window together are given up together; where    *)
(* there are none, nothing happens.                                         *)
LEMMA GivenUpTogether ==
  ASSUME RefinementInv, RefinementInv', accepted' = accepted,
         NEW some \in SUBSET Notes,
         \A n \in some : status[n] = "pending" /\ status'[n] = "failed",
         \A n \in Notes \ some : status'[n] = status[n]
                                 /\ (n \in purged' <=> n \in purged)
  PROVE  Promise!Abandon(some) \/ UNCHANGED Promise!vars
<1>1. FatesFollowStatus /\ FatesFollowStatus'
  BY FateByStatus, FateByStatusNext DEF RefinementInv
<1>2. \A n \in Notes : Fate(n)' = IF n \in some THEN "abandoned" ELSE Fate(n)
  BY <1>1, FateKept DEF RefinementInv, FatesFollowStatus
<1>3. CASE some = {}
  BY <1>2, <1>3, StuttersWhere
<1>4. CASE some # {}
  <2>1. \A n \in some : [m \in Notes |-> Fate(m)][n] = "queued"
    BY <1>1 DEF FatesFollowStatus
  <2>2. [n \in Notes |-> Fate(n)]' =
          [n \in Notes |-> IF n \in some THEN "abandoned"
                           ELSE [m \in Notes |-> Fate(m)][n]]
    BY <1>2
  <2>3. QED
    BY <1>4, <2>1, <2>2 DEF Promise!Abandon
<1>5. QED
  BY <1>3, <1>4

(* The start of a pass gives up the rows past their window.                 *)
LEMMA BeginPassAbandons ==
  ASSUME RefinementInv, RefinementInv', NEW w \in Workers, BeginPass(w)
  PROVE  (\E some \in SUBSET Notes : Promise!Abandon(some))
           \/ UNCHANGED Promise!vars
<1> DEFINE some == {n \in Notes : status[n] = "pending" /\ age[n] > 0}
<1>1. /\ \A n \in some : status[n] = "pending" /\ status'[n] = "failed"
      /\ \A n \in Notes \ some : status'[n] = status[n]
                                 /\ (n \in purged' <=> n \in purged)
      /\ accepted' = accepted
  BY DEF BeginPass, counts
<1>2. some \in SUBSET Notes
  OBVIOUS
<1> HIDE DEF some
<1>3. QED
  BY <1>1, <1>2, GivenUpTogether

(* The DELETE forgets the settled rows past the retention.                  *)
LEMMA PurgeForgets ==
  ASSUME RefinementInv, RefinementInv', NEW w \in Workers, Purge(w)
  PROVE  (\E some \in SUBSET Notes : Promise!Forget(some))
           \/ UNCHANGED Promise!vars
<1> DEFINE old == {n \in Notes : status[n] \in {"delivered", "failed"}
                                 /\ age[n] = 2}
<1>1. /\ \A n \in old : status[n] \in {"delivered", "failed"}
      /\ purged' = purged \cup old
      /\ \A n \in Notes \ old : status'[n] = status[n]
      /\ old \in SUBSET Notes
      /\ accepted' = accepted
  BY DEF Purge, counts
<1> HIDE DEF old
<1>2. FatesFollowStatus /\ FatesFollowStatus'
  BY FateByStatus, FateByStatusNext DEF RefinementInv
<1>3. \A n \in Notes : Fate(n)' = IF n \in old THEN "forgotten" ELSE Fate(n)
  BY <1>1, <1>2, FateKept DEF RefinementInv, FatesFollowStatus
<1>4. CASE old = {}
  BY <1>1, <1>3, <1>4, StuttersWhere
<1>5. CASE old # {}
  <2>1. \A n \in old : [m \in Notes |-> Fate(m)][n] \in {"delivered", "abandoned"}
    BY <1>1, <1>2 DEF FatesFollowStatus
  <2>2. [n \in Notes |-> Fate(n)]' =
          [n \in Notes |-> IF n \in old THEN "forgotten"
                           ELSE [m \in Notes |-> Fate(m)][n]]
    BY <1>3
  <2>3. Promise!Forget(old)
    BY <1>1, <1>5, <2>1, <2>2 DEF Promise!Forget
  <2>4. QED
    BY <1>1, <2>3
<1>6. QED
  BY <1>4, <1>5

(* A send is a message taken, or nothing.                                   *)
LEMMA SendAccepts ==
  ASSUME RefinementInv, RefinementInv', NEW w \in Workers, Send(w)
  PROVE  (\E n \in Notes : Promise!Accept(n)) \/ UNCHANGED Promise!vars
<1>1. \A n \in Notes : Fate(n)' = Fate(n)
  BY FateKept DEF Send, row, RefinementInv
<1>2. hand[w] \in Notes /\ Fate(hand[w]) # "unknown"
  <2>1. hand[w] \in Notes /\ w \in Holders(hand[w])
    BY DEF Send, RefinementInv, QueueTypeOK, Holders, Holding
  <2>2. hand[w] \notin Fresh
    BY <2>1 DEF RefinementInv, QueueSound, RowSound, Untouched
  <2>3. QED
    BY <2>1, <2>2, FateByStatus DEF RefinementInv, FatesFollowStatus
<1>3. [n \in Notes |-> Fate(n)]' = [n \in Notes |-> Fate(n)]
  BY <1>1
<1>4. CASE accepted' = accepted \cup {hand[w]}
  BY <1>2, <1>3, <1>4 DEF Promise!Accept
<1>5. CASE accepted' = accepted
  BY <1>1, <1>5, StuttersWhere
<1>6. QED
  BY <1>4, <1>5 DEF Send

(* Writing the outcome confirms a message that was taken, gives the row up, *)
(* or, where the row is no longer the writer's, changes nothing.            *)
LEMMA OutcomeSettles ==
  ASSUME RefinementInv, RefinementInv', NEW w \in Workers,
         WriteDelivered(w) \/ WriteFailed(w)
  PROVE  \/ \E n \in Notes : Promise!Confirm(n)
         \/ \E some \in SUBSET Notes : Promise!Abandon(some)
         \/ UNCHANGED Promise!vars
<1>1. FatesFollowStatus /\ FatesFollowStatus'
  BY FateByStatus, FateByStatusNext DEF RefinementInv
<1>2. hand[w] \in Notes /\ accepted' = accepted /\ purged' = purged
  BY DEF WriteDelivered, WriteFailed, counts, RefinementInv, QueueTypeOK,
         Holding
<1>3. CASE status' = status
  BY <1>2, <1>3, FateKept, StuttersWhere DEF RefinementInv
<1>4. CASE WriteDelivered(w) /\ IsMine(w)
  <2> PICK n \in Notes : n = hand[w]
    BY <1>2
  <2>1. n \in accepted
    BY <1>4 DEF WriteDelivered, RefinementInv, SentIsTaken
  <2>2. status[n] = "pending" /\ status' = [status EXCEPT ![n] = "delivered"]
    BY <1>4 DEF WriteDelivered, IsMine
  <2>3. Fate(n) = "queued" /\ Fate(n)' = "delivered"
    BY <1>1, <2>1, <2>2 DEF FatesFollowStatus, RefinementInv, QueueTypeOK
  <2>4. \A m \in Notes \ {n} : Fate(m)' = Fate(m)
    BY <1>2, <2>2, FateKept DEF RefinementInv, QueueTypeOK
  <2>5. [m \in Notes |-> Fate(m)]' =
          [[m \in Notes |-> Fate(m)] EXCEPT ![n] = "delivered"]
    BY <2>1, <2>3, <2>4
  <2>6. Promise!Confirm(n)
    BY <1>2, <2>1, <2>3, <2>5 DEF Promise!Confirm
  <2>7. QED
    BY <2>1, <2>6
<1>5. CASE WriteFailed(w) /\ status' # status
  <2> DEFINE n == hand[w]
  <2>1. status[n] = "pending" /\ status' = [status EXCEPT ![n] = "failed"]
    BY <1>5 DEF WriteFailed, IsMine, RefinementInv, QueueTypeOK
  <2>2. {n} \in SUBSET Notes
    BY <1>2
  <2> HIDE DEF n
  <2>3. \A m \in {n} : status[m] = "pending" /\ status'[m] = "failed"
    BY <2>1, <2>2 DEF RefinementInv, QueueTypeOK
  <2>4. \A m \in Notes \ {n} : status'[m] = status[m]
    BY <2>1 DEF RefinementInv, QueueTypeOK
  <2>5. Promise!Abandon({n}) \/ UNCHANGED Promise!vars
    BY <1>2, <2>2, <2>3, <2>4, GivenUpTogether
  <2>6. QED
    BY <2>2, <2>5
<1>6. QED
  <2>1. WriteDelivered(w) /\ ~IsMine(w) => status' = status
    BY <1>2 DEF WriteDelivered, RefinementInv, QueueTypeOK
  <2>2. QED
    BY <1>3, <1>4, <1>5, <2>1

(* Every step of the queue is a step of the abstract queue, or a stutter.   *)
LEMMA QueueStepSimulates ==
  ASSUME RefinementInv, RefinementInv', [QueueNext]_queue
  PROVE  [Promise!Next]_(Promise!vars)
<1>1. ASSUME status' = status, purged' = purged, accepted' = accepted
      PROVE  UNCHANGED Promise!vars
  BY <1>1, FateKept, StuttersWhere DEF RefinementInv
<1>2. CASE UNCHANGED queue
  BY <1>1, <1>2 DEF queue, row, counts
<1>3. ASSUME NEW n \in Notes, Insert(n)
      PROVE  [Promise!Next]_(Promise!vars)
  BY <1>3, InsertQueues DEF Promise!Next
<1>4. ASSUME NEW n \in Notes, Clock(n) \/ Ages(n)
      PROVE  UNCHANGED Promise!vars
  BY <1>1, <1>4 DEF Clock, Lapse, Elapse, Ages, counts
<1>5. ASSUME NEW w \in Workers, Pass(w) \/ Crash(w)
      PROVE  [Promise!Next]_(Promise!vars)
  <2>1. CASE BeginPass(w)
    BY <2>1, BeginPassAbandons DEF Promise!Next
  <2>2. CASE Purge(w)
    BY <2>2, PurgeForgets DEF Promise!Next
  <2>3. CASE Send(w)
    BY <2>3, SendAccepts DEF Promise!Next
  <2>4. CASE WriteDelivered(w) \/ WriteFailed(w)
    BY <2>4, OutcomeSettles DEF Promise!Next
  <2>5. CASE Claim(w) \/ EndPass(w) \/ Crash(w)
    <3>1. status' = status /\ purged' = purged /\ accepted' = accepted
      BY <2>5 DEF Claim, EndPass, Crash, row, counts
    <3>2. QED
      BY <1>1, <3>1
  <2>6. QED
    BY <1>5, <2>1, <2>2, <2>3, <2>4, <2>5 DEF Pass
<1>6. QED
  BY <1>2, <1>3, <1>4, <1>5 DEF QueueNext, QueueStep

(* The notification queue of notify.py is an at-least-once queue: what it   *)
(* reports as delivered its channel has taken, and what is settled stays    *)
(* settled, whatever workers die and whichever leases lapse.                *)
THEOREM QueueDeliversAtLeastOnce == QueueSpec => DeliversAtLeastOnce
<1>1. QueueInit => RefinementInv
  BY InitQueueType, InitQueueSound
     DEF RefinementInv, SentIsTaken, PurgedIsGone, QueueInit
<1>2. RefinementInv /\ [QueueNext]_queue => RefinementInv'
  BY RefinementInvStep
<1>3. QueueInit => Promise!Init
  <2>1. ASSUME QueueInit, NEW n \in Notes
        PROVE  Fate(n) = "unknown"
    BY <2>1 DEF QueueInit, Fate, Fresh
  <2>2. QED
    BY <2>1 DEF Promise!Init, QueueInit
<1>4. RefinementInv /\ RefinementInv' /\ [QueueNext]_queue
        => [Promise!Next]_(Promise!vars)
  BY QueueStepSimulates
<1>5. QED
  BY <1>1, <1>2, <1>3, <1>4, PTL
     DEF QueueSpec, DeliversAtLeastOnce, Promise!Spec
================================================================================
