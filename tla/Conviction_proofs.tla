--------------------------- MODULE Conviction_proofs ---------------------------
(***************************************************************************)
(* What holds of the calls of a key and of the schedulers that make them,  *)
(* for any number of processes, predictions and rival passes: one process  *)
(* works at a time while no lease connection dies, nothing is called or    *)
(* reported twice under it, and an outcome is written once.                *)
(***************************************************************************)
EXTENDS Conviction, FiniteSetTheorems, WellFoundedInduction, TLAPS

(* The order of the naturals, as a relation.                                *)
Below == {p \in Nat \X Nat : p[1] < p[2]}

(* A set of naturals that has something has a least member.                 *)
LEMMA LeastMember ==
  ASSUME NEW S \in SUBSET Nat, S # {}
  PROVE  \E x \in S : \A y \in S : x <= y
<1>1. OpToRel(<, Nat) = Below
  BY Zenon DEF OpToRel, Below
<1>2. IsWellFoundedOn(Below, Nat)
  BY <1>1, NatLessThanWellFounded, Zenon
<1>3. PICK x \in S : \A y \in S : ~ (<<y, x>> \in Below)
  BY <1>2, WFMin, Zenon
<1>4. \A y \in S : ~(y < x)
  <2>1. \A y \in S : x \in Nat /\ y \in Nat
    OBVIOUS
  <2>2. \A y \in S : y < x => <<y, x>> \in Below
    BY <2>1, SMT DEF Below
  <2>3. QED
    BY <1>3, <2>2, Zenon
<1>5. QED
  BY <1>4

(* Max picks a member of a bounded set of naturals that has one: the        *)
(* prediction surface_once takes is one of those not assessed yet (ORDER BY *)
(* created_at DESC LIMIT 1).                                                *)
LEMMA MaxIsMember ==
  ASSUME NEW S \in SUBSET Nat, S # {}, NEW n \in Nat, \A y \in S : y <= n
  PROVE  Max(S) \in S
<1> DEFINE Bounds == {m \in Nat : \A y \in S : y <= m}
<1>1. PICK m \in Bounds : \A other \in Bounds : m <= other
  <2>1. Bounds \in SUBSET Nat /\ n \in Bounds
    OBVIOUS
  <2> HIDE DEF Bounds
  <2>2. QED
    BY <2>1, LeastMember
<1>2. m \in S
  <2> SUFFICES ASSUME m \notin S PROVE FALSE
    OBVIOUS
  <2>1. \A y \in S : y < m
    BY <1>1
  <2>2. m > 0 /\ m - 1 \in Nat
    <3>1. PICK y \in S : y \in Nat
      OBVIOUS
    <3>2. y < m /\ m \in Nat
      BY <1>1, <2>1
    <3>3. QED
      BY <3>1, <3>2
  <2>3. m - 1 \in Bounds
    BY <1>1, <2>1, <2>2
  <2>4. QED
    BY <1>1, <2>2, <2>3
<1>3. \A y \in S : m >= y
  BY <1>1
<1>4. QED
  BY <1>2, <1>3, Zenon DEF Max

--------------------------------------------------------------------------------
(* Only so many predictions are ever written, so a newest one is among      *)
(* them.                                                                    *)
Bounded == \E n \in Nat : \A p \in Written : p <= n

(* While no lease connection died, the process that runs holds the lease,   *)
(* and nobody but its own passes writes what they have read.                *)
Alone ==
  ~lost =>
    /\ \A s \in Schedulers : Running(s) => lease = s
    /\ \A s \in Schedulers : s \in predicting => Pending \cap Live = {}
    /\ \A s \in Schedulers : assessing[s] # None => findings[assessing[s]] = 0
    /\ \A p, q \in Pending \cap Live : p = q
    /\ \A p \in Predictions : findings[p] <= 1

CallsInv == TypeOK /\ Bounded /\ Alone
LEMMA InitCalls == Init => CallsInv
<1> SUFFICES ASSUME Init PROVE CallsInv
  OBVIOUS
<1>1. TypeOK
  BY ConvictionAssumption DEF Init, TypeOK, Running
<1>2. Bounded
  BY DEF Init, Bounded, Written
<1>3. Alone
  BY DEF Init, Alone, Running, Pending
<1>4. QED
  BY <1>1, <1>2, <1>3 DEF CallsInv

(* What the end of its passes leaves to the other processes.                *)
LEMMA PassesEndTyped ==
  ASSUME TypeOK, NEW s \in Schedulers, PassesEnd(s),
         mode' = [mode EXCEPT ![s] = "down"],
         lease' \in Schedulers \cup {None}, UNCHANGED <<lost, ledger, window>>
  PROVE  TypeOK'
<1>1. /\ predicting' = predicting \ {s}
      /\ assessing' = [assessing EXCEPT ![s] = None]
      /\ due' = [r \in Resolvers |-> IF r[1] = s THEN {} ELSE due[r]]
      /\ backfill' = [backfill EXCEPT ![s] = "waiting"]
  BY DEF PassesEnd
<1>2. due' \in [Resolvers -> SUBSET Predictions]
  BY <1>1 DEF TypeOK
<1>3. \A r \in Schedulers : ~Running(r)' =>
        r \notin predicting' /\ assessing'[r] = None /\ backfill'[r] = "waiting"
  BY <1>1 DEF TypeOK, Running
<1>4. /\ mode' \in [Schedulers -> {"down", "starting", "up", "stopping"}]
      /\ assessing' \in [Schedulers -> Predictions \cup {None}]
      /\ predicting' \subseteq Schedulers
      /\ backfill' \in [Schedulers -> {"waiting", "replaying", "resolving", "over"}]
  BY <1>1 DEF TypeOK
<1>5. QED
  BY <1>2, <1>3, <1>4 DEF TypeOK, ledger

(* The life of a process leaves the ledger alone.                           *)
LEMMA LifecycleCalls ==
  ASSUME CallsInv, NEW s \in Schedulers, Lifecycle(s) \/ Interrupt(s)
  PROVE  CallsInv'
<1>1. UNCHANGED <<outcome, findings, window>>
  BY DEF Lifecycle, Interrupt, Acquire, WatchLease, LeaseWatchdog, ShutDown,
         LeaseDies, Stop, Crash, ledger
<1>2. Bounded'
  BY <1>1 DEF CallsInv, Bounded, Written
<1>3. CASE Acquire(s) \/ WatchLease(s) \/ LeaseDies(s) \/ Stop(s)
  <2>1. TypeOK'
    <3> USE DEF CallsInv, TypeOK, Running, lifecycle, ledger, passes
    <3>1. CASE Acquire(s)
      BY <3>1 DEF Acquire
    <3>2. CASE WatchLease(s)
      BY <3>2 DEF WatchLease
    <3>3. CASE LeaseDies(s)
      BY <3>3 DEF LeaseDies
    <3>4. CASE Stop(s)
      BY <3>4 DEF Stop
    <3>5. QED
      BY <1>3, <3>1, <3>2, <3>3, <3>4
  <2>2. Alone'
    BY <1>3, ConvictionAssumption
       DEF Acquire, WatchLease, LeaseDies, Stop, CallsInv, TypeOK, Running, Alone,
           Pending, ledger, passes
  <2>3. QED
    BY <1>2, <2>1, <2>2 DEF CallsInv
<1>4. CASE ShutDown(s) \/ Crash(s)
  <2>1. /\ mode' = [mode EXCEPT ![s] = "down"] /\ PassesEnd(s)
        /\ lease' = IF lease = s THEN None ELSE lease
        /\ UNCHANGED <<lost, ledger, window>>
    BY <1>4 DEF ShutDown, Crash
  <2>2. TypeOK'
    BY <2>1, PassesEndTyped DEF CallsInv, TypeOK
  <2>3. \A r \in Schedulers : Running(r)' => r # s /\ Running(r)
    BY <2>1 DEF Running, CallsInv, TypeOK
  <2>4. \A r \in Schedulers : Running(r)' /\ ~lost' => lease' = r
    BY <2>1, <2>3 DEF CallsInv, Alone
  <2>5. /\ predicting' \subseteq predicting
        /\ \A r \in Schedulers : assessing'[r] \in {assessing[r], None}
    BY <2>1 DEF PassesEnd, CallsInv, TypeOK
  <2>6. Alone'
    BY <1>1, <2>1, <2>4, <2>5 DEF CallsInv, Alone, Pending
  <2>7. QED
    BY <1>2, <2>2, <2>6 DEF CallsInv
<1>5. QED
  BY <1>3, <1>4 DEF Lifecycle, Interrupt, LeaseWatchdog

(* Only one process has passes under way.                                   *)
LEMMA OnlyOne ==
  ASSUME CallsInv, ~lost, NEW s \in Schedulers, Running(s)
  PROVE  /\ lease = s
         /\ \A r \in Schedulers \ {s} : r \notin predicting /\ assessing[r] = None
BY DEF CallsInv, TypeOK, Alone

LEMMA PredictCalls ==
  ASSUME CallsInv, NEW s \in Schedulers, Predict(s)
  PROVE  CallsInv'
<1>1. CASE CheckPending(s)
  <2>1. /\ Running(s) /\ Pending = {} /\ predicting' = predicting \cup {s}
        /\ UNCHANGED <<lifecycle, ledger, window, assessing, due, backfill>>
    BY <1>1 DEF CheckPending, MayBegin, NothingPending
  <2>2. TypeOK'
    BY <2>1 DEF CallsInv, TypeOK, Running, lifecycle, ledger
  <2>3. Bounded'
    BY <2>1 DEF CallsInv, Bounded, Written, ledger
  <2>4. Pending' = Pending
    BY <2>1 DEF Pending, ledger
  <2>5. Alone'
    BY <2>1, <2>4 DEF CallsInv, Alone, Running, lifecycle, ledger
  <2>6. QED
    BY <2>2, <2>3, <2>5 DEF CallsInv
<1>2. CASE Produce(s)
  <2>1. /\ Running(s) /\ s \in predicting /\ predicting' = predicting \ {s}
        /\ UNCHANGED <<lifecycle, findings, assessing, due, backfill>>
    BY <1>2 DEF Produce, Write, ledger
  <2>2. CASE UNCHANGED <<ledger, window>>
    <3>1. TypeOK'
      BY <2>1, <2>2 DEF CallsInv, TypeOK, Running, lifecycle, ledger
    <3>2. Bounded'
      BY <2>2 DEF CallsInv, Bounded, Written, ledger
    <3>3. Pending' = Pending
      BY <2>2 DEF Pending, ledger
    <3>4. Alone'
      BY <2>1, <2>2, <3>3 DEF CallsInv, Alone, Running, lifecycle, ledger
    <3>5. QED
      BY <3>1, <3>2, <3>4 DEF CallsInv
  <2>3. ASSUME NEW p \in Live, \A q \in Written : q < p, Write(p, "open")
        PROVE  CallsInv'
    <3>1. /\ p \in Predictions /\ p \in Nat
          /\ outcome' = [outcome EXCEPT ![p] = "pending"]
          /\ window' = [window EXCEPT ![p] = "open"]
      BY <2>3, ConvictionAssumption DEF Write, Predictions
    <3>2. /\ outcome' \in [Predictions -> {"none", "pending", "hit", "miss"}]
          /\ window' \in [Predictions -> {"open", "empty", "priced"}]
      BY <3>1 DEF CallsInv, TypeOK
    <3>3. TypeOK'
      BY <2>1, <3>2 DEF CallsInv, TypeOK, Running, lifecycle
    <3>4. /\ Written' = Written \cup {p} /\ Pending' = Pending \cup {p}
      BY <3>1 DEF Written, Pending, CallsInv, TypeOK
    <3>5. Bounded'
      BY <2>3, <3>1, <3>4, ConvictionAssumption DEF Bounded, Written, Predictions
    <3>6. ~lost => Pending \cap Live = {} /\ predicting' = {}
      BY <2>1, OnlyOne DEF CallsInv, Alone, TypeOK
    <3>7. Alone'
      BY <2>1, <3>4, <3>6 DEF CallsInv, Alone, Running, lifecycle
    <3>8. QED
      BY <3>3, <3>5, <3>7 DEF CallsInv
  <2>4. QED
    BY <1>2, <2>2, <2>3 DEF Produce
<1>3. QED
  BY <1>1, <1>2 DEF Predict

(* A newest unassessed prediction exists whenever there is one.             *)
LEMMA NewestUnassessed ==
  ASSUME CallsInv, Unassessed # {}
  PROVE  Max(Unassessed) \in Unassessed
<1>1. PICK n \in Nat : \A p \in Written : p <= n
  BY DEF CallsInv, Bounded
<1>2. Unassessed \subseteq Written /\ Unassessed \in SUBSET Nat
  BY ConvictionAssumption DEF Unassessed, Written
<1>3. QED
  BY <1>1, <1>2, MaxIsMember

LEMMA SurfaceCalls ==
  ASSUME CallsInv, NEW s \in Schedulers, Surface(s)
  PROVE  CallsInv'
<1>1. CASE SelectUnassessed(s)
  <2>1. /\ Running(s) /\ Max(Unassessed) \in Unassessed
        /\ assessing' = [assessing EXCEPT ![s] = Max(Unassessed)]
        /\ UNCHANGED <<lifecycle, ledger, window, predicting, due, backfill>>
    BY <1>1, NewestUnassessed DEF SelectUnassessed, MayBegin
  <2>2. PICK p \in Unassessed : assessing' = [assessing EXCEPT ![s] = p]
    BY <2>1
  <2>3. p \in Predictions /\ findings[p] = 0
    BY DEF Unassessed, Written
  <2>4. TypeOK'
    BY <2>1, <2>2, <2>3 DEF CallsInv, TypeOK, Running, lifecycle, ledger
  <2>5. Bounded' /\ Pending' = Pending
    BY <2>1 DEF CallsInv, Bounded, Written, Pending, ledger
  <2>6. \A r \in Schedulers : assessing'[r] \in {assessing[r], p}
    BY <2>2 DEF CallsInv, TypeOK
  <2>7. Alone'
    BY <2>1, <2>3, <2>5, <2>6 DEF CallsInv, Alone, Running, lifecycle, ledger
  <2>8. QED
    BY <2>4, <2>5, <2>7 DEF CallsInv
<1>2. CASE RecordFinding(s)
  <2>1. /\ Running(s) /\ assessing[s] # None
        /\ findings' = [findings EXCEPT ![assessing[s]] = @ + 1]
        /\ assessing' = [assessing EXCEPT ![s] = None]
        /\ UNCHANGED <<lifecycle, outcome, window, predicting, due, backfill>>
    BY <1>2 DEF RecordFinding
  <2>2. PICK p \in Predictions : p = assessing[s]
    BY <2>1 DEF CallsInv, TypeOK
  <2>3. findings' = [findings EXCEPT ![p] = @ + 1]
    BY <2>1, <2>2
  <2>4. TypeOK'
    BY <2>1, <2>3 DEF CallsInv, TypeOK, Running, lifecycle
  <2>5. Bounded' /\ Pending' = Pending
    BY <2>1 DEF CallsInv, Bounded, Written, Pending
  <2>6. ASSUME ~lost
        PROVE  /\ \A r \in Schedulers : assessing'[r] = None
               /\ \A q \in Predictions : findings'[q] <= 1
    <3>1. \A r \in Schedulers : assessing'[r] = None
      BY <2>1, <2>6, OnlyOne DEF CallsInv, TypeOK
    <3>2. findings[p] = 0
      BY <2>1, <2>2, <2>6 DEF CallsInv, Alone
    <3>3. QED
      BY <2>3, <2>6, <3>1, <3>2 DEF CallsInv, Alone, TypeOK
  <2>7. Alone'
    BY <2>1, <2>5, <2>6 DEF CallsInv, Alone, Running, lifecycle
  <2>8. QED
    BY <2>4, <2>5, <2>7 DEF CallsInv
<1>3. QED
  BY <1>1, <1>2 DEF Surface
(* Resolving takes calls out of the pending ones, one at a time.            *)
LEMMA ResolveCalls ==
  ASSUME CallsInv, NEW r \in Resolvers, Resolve(r)
  PROVE  CallsInv'
<1>1. UNCHANGED <<lifecycle, findings, window, predicting, assessing, backfill>>
  BY DEF Resolve, ReadDue, ResolveOne, ledger
<1>2. /\ outcome' \in [Predictions -> {"none", "pending", "hit", "miss"}]
      /\ \A p \in Predictions : outcome'[p] # outcome[p] =>
           outcome[p] = "pending" /\ outcome'[p] \in {"hit", "miss"}
  BY DEF Resolve, ReadDue, ResolveOne, ledger, Lockable, DecideOutcome, CallsInv,
         TypeOK
<1>3. due' \in [Resolvers -> SUBSET Predictions]
  <2>1. CASE ReadDue(r)
    BY <2>1 DEF ReadDue, Due, Pending, CallsInv, TypeOK
  <2>2. CASE ResolveOne(r)
    <3>1. due' = [due EXCEPT ![r] = @ \ {Min(due[r])}]
      BY <2>2 DEF ResolveOne
    <3>2. due[r] \ {Min(due[r])} \in SUBSET Predictions
      BY DEF CallsInv, TypeOK
    <3>3. QED
      BY <3>1, <3>2 DEF CallsInv, TypeOK
  <2>3. QED
    BY <2>1, <2>2 DEF Resolve
<1>4. TypeOK'
  BY <1>1, <1>2, <1>3 DEF CallsInv, TypeOK, Running, lifecycle
<1>5. Pending' \subseteq Pending /\ Written' \subseteq Written
  BY <1>2 DEF Pending, Written
<1>6. Bounded'
  BY <1>5 DEF CallsInv, Bounded
<1>7. Alone'
  BY <1>1, <1>5 DEF CallsInv, Alone, Running, lifecycle
<1>8. QED
  BY <1>4, <1>6, <1>7 DEF CallsInv

LEMMA BackfillCalls ==
  ASSUME CallsInv, NEW s \in Schedulers, Backfill(s)
  PROVE  CallsInv'
<1>1. CASE Replay(s)
  <2>1. PICK p \in Replayed, ends \in {"empty", "priced"} : Write(p, ends)
    BY <1>1 DEF Replay
  <2>2. /\ p \in Predictions /\ p \in Nat /\ p \notin Live
        /\ outcome' = [outcome EXCEPT ![p] = "pending"]
        /\ window' = [window EXCEPT ![p] = ends]
        /\ UNCHANGED <<lifecycle, findings, passes>>
    BY <1>1, <2>1, ConvictionAssumption DEF Replay, Write, Predictions
  <2>3. /\ outcome' \in [Predictions -> {"none", "pending", "hit", "miss"}]
        /\ window' \in [Predictions -> {"open", "empty", "priced"}]
    BY <2>2 DEF CallsInv, TypeOK
  <2>4. TypeOK'
    BY <2>2, <2>3 DEF CallsInv, TypeOK, Running, lifecycle, passes
  <2>5. Written' = Written \cup {p} /\ Pending' = Pending \cup {p}
    BY <2>2 DEF Written, Pending, CallsInv, TypeOK
  <2>6. Bounded'
    <3>1. PICK n \in Nat : \A q \in Written : q <= n
      BY DEF CallsInv, Bounded
    <3>2. \A q \in Written : q \in Nat
      BY ConvictionAssumption DEF Written
    <3>3. \A q \in Written' : q <= n + p
      BY <2>2, <2>5, <3>1, <3>2
    <3>4. QED
      BY <2>2, <3>3 DEF Bounded
  <2>7. Pending' \cap Live = Pending \cap Live
    BY <2>2, <2>5
  <2>8. Alone'
    BY <2>2, <2>7 DEF CallsInv, Alone, Running, lifecycle, passes
  <2>9. QED
    BY <2>4, <2>6, <2>8 DEF CallsInv
<1>2. CASE StartBackfill(s) \/ EndReplay(s) \/ EndBackfill(s)
  <2>1. /\ Running(s)
        /\ \E next \in {"replaying", "resolving", "over"} :
             backfill' = [backfill EXCEPT ![s] = next]
        /\ UNCHANGED <<lifecycle, ledger, window, predicting, assessing, due>>
    BY <1>2 DEF StartBackfill, EndReplay, EndBackfill, MayBackfill, MayBegin, Running
  <2>2. TypeOK'
    BY <2>1 DEF CallsInv, TypeOK, Running, lifecycle, ledger
  <2>3. Bounded' /\ Pending' = Pending
    BY <2>1 DEF CallsInv, Bounded, Written, Pending, ledger
  <2>4. Alone'
    BY <2>1, <2>3 DEF CallsInv, Alone, Running, lifecycle, ledger
  <2>5. QED
    BY <2>2, <2>3, <2>4 DEF CallsInv
<1>3. QED
  BY <1>1, <1>2 DEF Backfill

LEMMA WindowCalls ==
  ASSUME CallsInv, UNCHANGED <<lifecycle, ledger, passes>>,
         window' \in [Predictions -> {"open", "empty", "priced"}]
  PROVE  CallsInv'
<1>1. TypeOK'
  BY DEF CallsInv, TypeOK, Running, lifecycle, ledger, passes
<1>2. Bounded' /\ Pending' = Pending
  BY DEF CallsInv, Bounded, Written, Pending, ledger
<1>3. Alone'
  BY <1>2 DEF CallsInv, Alone, Running, lifecycle, ledger, passes
<1>4. QED
  BY <1>1, <1>2, <1>3 DEF CallsInv

LEMMA CallsStep == CallsInv /\ [Next]_vars => CallsInv'
<1> SUFFICES ASSUME CallsInv, [Next]_vars PROVE CallsInv'
  OBVIOUS
<1>1. ASSUME NEW p \in Predictions, NEW ends \in {"empty", "priced"},
             HorizonPasses(p, ends) \/ PriceArrives(p)
      PROVE  CallsInv'
  <2>1. window' \in [Predictions -> {"open", "empty", "priced"}]
    BY <1>1 DEF HorizonPasses, PriceArrives, CallsInv, TypeOK
  <2>2. UNCHANGED <<lifecycle, ledger, passes>>
    BY <1>1 DEF HorizonPasses, PriceArrives
  <2>3. QED
    BY <2>1, <2>2, WindowCalls
<1>2. CASE UNCHANGED vars
  <2>1. window' \in [Predictions -> {"open", "empty", "priced"}]
    BY <1>2 DEF vars, CallsInv, TypeOK
  <2>2. QED
    BY <1>2, <2>1, WindowCalls DEF vars
<1>3. CASE Next
  BY <1>1, <1>3, LifecycleCalls, PredictCalls, SurfaceCalls, BackfillCalls,
     ResolveCalls DEF Next
<1>4. QED
  BY <1>2, <1>3

LEMMA CallsAlways == Spec => []CallsInv
BY InitCalls, CallsStep, PTL DEF Spec

(* Processes, passes and the ledger keep the shape the code gives them, for *)
(* any number of processes and predictions: in particular a process that is *)
(* down has no pass under way (Scheduler.stop before singleton.release).    *)
THEOREM CallTypeCorrect == Spec => []TypeOK
<1>1. CallsInv => TypeOK
  BY DEF CallsInv
<1>2. QED
  BY <1>1, CallsAlways, PTL

(* Where all members are the same there is at most one.                     *)
LEMMA AtMostOne ==
  ASSUME NEW S, \A x, y \in S : x = y
  PROVE  Cardinality(S) <= 1
<1>1. CASE S = {}
  BY <1>1, FS_EmptySet
<1>2. CASE S # {}
  <2>1. PICK x : S = {x}
    BY <1>2
  <2>2. QED
    BY <2>1, FS_Singleton
<1>3. QED
  BY <1>1, <1>2

(* Two processes work at the same time only after a lease connection died,  *)
(* whatever signals, crashes, slow probes and restarts there were, for any  *)
(* number of processes (acquire_scheduler_singleton, lease_watchdog).       *)
THEOREM OneSchedulerWorks == Spec => []AloneUnlessLeaseLost
<1>1. ASSUME CallsInv PROVE AloneUnlessLeaseLost
  <2>1. ASSUME ~lost PROVE Cardinality({s \in Schedulers : Running(s)}) <= 1
    <3>1. \A r, s \in {t \in Schedulers : Running(t)} : r = s
      BY <1>1, <2>1 DEF CallsInv, Alone
    <3>2. QED
      BY <3>1, AtMostOne
  <2>2. QED
    BY <2>1 DEF AloneUnlessLeaseLost
<1>2. QED
  BY <1>1, CallsAlways, PTL

(* Under one scheduler the read-then-write guards of predict_once and       *)
(* surface_once are enough: one live call is open at a time and no          *)
(* prediction is reported twice, across any crash and restart.              *)
THEOREM NothingIsDoubled == Spec => []NothingDoubled
<1>1. ASSUME CallsInv PROVE NothingDoubled
  <2>1. ASSUME ~lost PROVE Cardinality(Pending \cap Live) <= 1
    <3>1. \A p, q \in Pending \cap Live : p = q
      BY <1>1, <2>1 DEF CallsInv, Alone
    <3>2. QED
      BY <3>1, AtMostOne
  <2>2. QED
    BY <1>1, <2>1 DEF NothingDoubled, CallsInv, Alone
<1>2. QED
  BY <1>1, CallsAlways, PTL

(* An outcome is written once, from a window that is over and shows a price *)
(* -- with or without a lost lease, whichever resolver gets there from      *)
(* however old a list (_resolve_one: FOR UPDATE of the row still pending).  *)
THEOREM OutcomesAreWrittenOnce == Spec => OutcomesAreFinal
<1>1. ASSUME CallsInv, [Next]_vars
      PROVE  \A p \in Predictions : outcome'[p] # outcome[p] =>
               \/ outcome[p] = "none" /\ outcome'[p] = "pending"
               \/ outcome[p] = "pending" /\ window[p] = "priced"
  <2>1. ASSUME NEW q \in Predictions, NEW ends, Write(q, ends)
        PROVE  \A p \in Predictions : outcome'[p] # outcome[p] =>
                 outcome[p] = "none" /\ outcome'[p] = "pending"
    BY <1>1, <2>1 DEF Write, CallsInv, TypeOK
  <2>2. ASSUME NEW r \in Resolvers, ResolveOne(r)
        PROVE  \A p \in Predictions : outcome'[p] # outcome[p] =>
                 outcome[p] = "pending" /\ window[p] = "priced"
    BY <1>1, <2>2 DEF ResolveOne, Lockable, DecideOutcome, CallsInv, TypeOK
  <2>3. \/ UNCHANGED outcome
        \/ \E q \in Predictions, ends \in {"open", "empty", "priced"} : Write(q, ends)
        \/ \E r \in Resolvers : ResolveOne(r)
    <3>1. ASSUME NEW s \in Schedulers,
                 Lifecycle(s) \/ Interrupt(s) \/ Surface(s)
          PROVE  UNCHANGED outcome
      BY <3>1 DEF Lifecycle, Interrupt, Surface, Acquire, WatchLease, LeaseWatchdog,
                  ShutDown, LeaseDies, Stop, Crash, SelectUnassessed, RecordFinding,
                  ledger
    <3>2. ASSUME NEW s \in Schedulers, Predict(s) \/ Backfill(s)
          PROVE  \/ UNCHANGED outcome
                 \/ \E q \in Predictions, ends \in {"open", "empty", "priced"} :
                      Write(q, ends)
      BY <3>2 DEF Predict, Backfill, CheckPending, Produce, StartBackfill, Replay,
                  EndReplay, EndBackfill, ledger, Predictions
    <3>3. ASSUME NEW r \in Resolvers, ReadDue(r) PROVE UNCHANGED outcome
      BY <3>3 DEF ReadDue, ledger
    <3>4. ASSUME NEW p \in Predictions, NEW ends \in {"empty", "priced"},
                 HorizonPasses(p, ends) \/ PriceArrives(p)
          PROVE  UNCHANGED outcome
      BY <3>4 DEF HorizonPasses, PriceArrives, ledger
    <3>5. CASE UNCHANGED vars
      BY <3>5 DEF vars, ledger
    <3>6. QED
      BY <1>1, <3>1, <3>2, <3>3, <3>4, <3>5 DEF Next, Resolve
  <2>4. QED
    BY <2>1, <2>2, <2>3
<1>2. QED
  BY <1>1, CallsAlways, PTL DEF Spec, OutcomesAreFinal
================================================================================
