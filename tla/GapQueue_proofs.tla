--------------------------- MODULE GapQueue_proofs ---------------------------
(***************************************************************************)
(* What holds of the gap queue for any number of facts, workers, sources,  *)
(* attempts and crashes: its rows stay consistent and a live lease keeps   *)
(* everybody but its holder from the row.                                  *)
(***************************************************************************)
EXTENDS GapQueue, TLAPS

(* The part of the type invariant the rows' invariant rests on.             *)
RowsTyped ==
  /\ open \subseteq Gaps /\ expired \subseteq Gaps /\ resting \subseteq Gaps
  /\ found \subseteq Gaps
  /\ attempts \in [Gaps -> Nat]
  /\ lease \in [Gaps -> Workers \cup {None}]
  /\ pc \in [Workers -> PCs]
  /\ hand \in [Workers -> Gaps \cup {None}]
  /\ \A w \in Workers : pc[w] # "idle" => hand[w] \in Gaps

RowsInv == RowsTyped /\ RowsConsistent

LEMMA InitRows == Init => RowsInv
BY GapQueueAssumption DEF Init, RowsInv, RowsTyped, RowsConsistent, PCs

(* Only Claim and the settling of a gap give a worker another gap.          *)
LEMMA StaysInHand ==
  ASSUME RowsTyped, NEW w \in Workers, pc[w] # "idle",
         NEW next \in PCs, pc' = [pc EXCEPT ![w] = next] \/ pc' = pc,
         UNCHANGED <<rows, found, hand>>
  PROVE  RowsTyped'
BY DEF RowsTyped, rows, PCs

LEMMA FactGaps ==
  ASSUME NEW fact \in Facts
  PROVE  Classify(fact) \subseteq Gaps
BY DEF Classify, Gaps

LEMMA SweepRows == RowsInv /\ Sweep => RowsInv'
<1> SUFFICES ASSUME RowsInv, Sweep PROVE RowsInv'
  OBVIOUS
<1>1. CASE BeginSweep
  BY <1>1 DEF BeginSweep, RowsInv, RowsTyped, RowsConsistent, rows, worker
<1>2. ASSUME NEW f \in Facts, ReadFact(f) PROVE RowsInv'
  BY <1>2, FactGaps DEF ReadFact, RowsInv, RowsTyped, RowsConsistent, rows, worker
<1>3. CASE PersistGaps
  <2>1. RowsTyped'
    BY <1>3 DEF PersistGaps, RowsInv, RowsTyped, worker
  <2>2. RowsConsistent'
    BY <1>3, GapQueueAssumption
       DEF PersistGaps, RowsInv, RowsTyped, RowsConsistent
  <2>3. QED
    BY <2>1, <2>2 DEF RowsInv
<1>4. QED
  BY <1>1, <1>2, <1>3 DEF Sweep

LEMMA ClaimRows ==
  ASSUME RowsInv, NEW w \in Workers, Claim(w)
  PROVE  RowsInv'
<1>1. PICK g \in Gaps : /\ Claimable(g)
                        /\ lease' = [lease EXCEPT ![g] = w]
                        /\ expired' = expired \ {g}
                        /\ hand' = [hand EXCEPT ![w] = g]
  BY DEF Claim
<1>2. RowsTyped'
  BY <1>1 DEF Claim, RowsInv, RowsTyped, PCs, sweep
<1>3. RowsConsistent'
  BY <1>1, GapQueueAssumption
     DEF Claim, Claimable, RowsInv, RowsTyped, RowsConsistent
<1>4. QED
  BY <1>2, <1>3 DEF RowsInv

(* The settling of one gap, seen as what it does to the rows.               *)
LEMMA SettleRows ==
  ASSUME RowsInv, NEW w \in Workers, Settle(w)
  PROVE  RowsInv'
<1> DEFINE gap == hand[w]
<1>1. gap \in Gaps
  BY DEF Settle, RowsInv, RowsTyped
<1>2. /\ pc' = [pc EXCEPT ![w] = "idle"]
      /\ hand' = [hand EXCEPT ![w] = None]
      /\ UNCHANGED found
  BY DEF Settle, GoIdle, sweep
<1>3. CASE Fenced(w, gap) /\ ResolveGap(gap)
  <2>1. RowsTyped'
    BY <1>1, <1>2, <1>3 DEF ResolveGap, LetGo, RowsInv, RowsTyped, PCs
  <2>2. RowsConsistent'
    BY <1>1, <1>3, GapQueueAssumption
       DEF ResolveGap, LetGo, Fenced, RowsInv, RowsTyped, RowsConsistent
  <2>3. QED
    BY <2>1, <2>2 DEF RowsInv
<1>4. CASE Fenced(w, gap) /\ CoolDownGap(gap)
  <2>1. RowsTyped'
    BY <1>1, <1>2, <1>4 DEF CoolDownGap, LetGo, RowsInv, RowsTyped, PCs
  <2>2. /\ lease'[gap] = None /\ gap \notin expired' /\ gap \in open
        /\ \A g \in Gaps : g # gap => lease'[g] = lease[g]
    BY <1>1, <1>4 DEF CoolDownGap, LetGo, Fenced, RowsInv, RowsTyped
  <2>3. RowsConsistent'
    BY <1>1, <1>4, <2>2 DEF CoolDownGap, LetGo, RowsInv, RowsTyped, RowsConsistent
  <2>4. QED
    BY <2>1, <2>3 DEF RowsInv
<1>5. CASE Fenced(w, gap) /\ ReleaseGap(gap)
  <2>1. RowsTyped'
    BY <1>1, <1>2, <1>5 DEF ReleaseGap, LetGo, RowsInv, RowsTyped, PCs
  <2>2. RowsConsistent'
    <3>1. CASE attempts[gap] + 1 >= MaxAttempts
      BY <1>1, <1>5, <3>1, GapQueueAssumption
         DEF ReleaseGap, LetGo, Fenced, RowsInv, RowsTyped, RowsConsistent
    <3>2. CASE ~(attempts[gap] + 1 >= MaxAttempts)
      <4>1. /\ lease'[gap] = None /\ gap \notin expired' /\ gap \in open
            /\ \A g \in Gaps : g # gap =>
                 lease'[g] = lease[g] /\ attempts'[g] = attempts[g]
        BY <1>1, <1>5 DEF ReleaseGap, LetGo, Fenced, RowsInv, RowsTyped
      <4>2. attempts'[gap] < MaxAttempts
        BY <1>1, <1>5, <3>2, GapQueueAssumption DEF ReleaseGap, RowsInv, RowsTyped
      <4>3. open' = open /\ resting' = resting \cup {gap}
        BY <1>5, <3>2 DEF ReleaseGap
      <4>4. expired' = expired \ {gap}
        BY <1>5 DEF ReleaseGap, LetGo
      <4>5. QED
        BY <1>1, <4>1, <4>2, <4>3, <4>4 DEF RowsInv, RowsTyped, RowsConsistent
    <3>3. QED
      BY <3>1, <3>2
  <2>3. QED
    BY <2>1, <2>2 DEF RowsInv
<1>6. CASE UNCHANGED rows
  BY <1>2, <1>6 DEF rows, RowsInv, RowsTyped, RowsConsistent, PCs
<1>7. QED
  BY <1>3, <1>4, <1>5, <1>6 DEF Settle

LEMMA RowsStep == RowsInv /\ [Next]_vars => RowsInv'
<1> SUFFICES ASSUME RowsInv, [Next]_vars PROVE RowsInv'
  OBVIOUS
<1>1. CASE Sweep
  BY <1>1, SweepRows
<1>2. ASSUME NEW w \in Workers, Claim(w) PROVE RowsInv'
  BY <1>2, ClaimRows
<1>3. ASSUME NEW w \in Workers,
             \/ SourceDeclines(w) \/ RunsOut(w) \/ SourceEnds(w)
             \/ SourceAnswers(w) \/ WriteClaims(w) \/ WriteDerived(w)
             \/ RecordAttempt(w)
      PROVE RowsInv'
  <2>1. pc[w] # "idle" /\ UNCHANGED <<rows, found, hand>>
    BY <1>3 DEF SourceDeclines, RunsOut, SourceEnds, SourceAnswers, WriteClaims,
                WriteDerived, RecordAttempt, Asking, sweep
  <2>2. \E next \in PCs : pc' = [pc EXCEPT ![w] = next] \/ pc' = pc
    BY <1>3 DEF SourceDeclines, RunsOut, SourceEnds, SourceAnswers, WriteClaims,
                WriteDerived, RecordAttempt, Decide, PCs
  <2>3. RowsTyped'
    BY <2>1, <2>2, StaysInHand DEF RowsInv
  <2>4. RowsConsistent'
    BY <2>1 DEF rows, RowsInv, RowsConsistent
  <2>5. QED
    BY <2>3, <2>4 DEF RowsInv
<1>4. ASSUME NEW w \in Workers, Settle(w) PROVE RowsInv'
  BY <1>4, SettleRows
<1>5. ASSUME NEW w \in Workers, Crash(w) PROVE RowsInv'
  BY <1>5 DEF Crash, GoIdle, RowsInv, RowsTyped, RowsConsistent, rows, sweep, PCs
<1>6. ASSUME NEW g \in Gaps, LeaseExpires(g) PROVE RowsInv'
  BY <1>6 DEF LeaseExpires, RowsInv, RowsTyped, RowsConsistent, worker, sweep
<1>7. ASSUME NEW g \in Gaps, RestEnds(g) PROVE RowsInv'
  BY <1>7 DEF RestEnds, RowsInv, RowsTyped, RowsConsistent, worker, sweep
<1>8. CASE UNCHANGED vars
  BY <1>8 DEF vars, rows, worker, sweep, RowsInv, RowsTyped, RowsConsistent
<1>9. QED
  BY <1>1, <1>2, <1>3, <1>4, <1>5, <1>6, <1>7, <1>8 DEF Next, Work

LEMMA RowsAlways == Spec => []RowsInv
BY InitRows, RowsStep, PTL DEF Spec

(* A gap row never carries a lease and a backoff together, never outlives   *)
(* its attempts and never keeps a lease once closed (_RELEASE, _COOLDOWN,   *)
(* _RESOLVE), for every number of workers and attempts.                     *)
THEOREM RowsStayConsistent == Spec => []RowsConsistent
<1>1. RowsInv => RowsConsistent
  BY DEF RowsInv
<1>2. QED
  BY <1>1, RowsAlways, PTL

LEMMA RowsKeptHolds ==
  ASSUME UNCHANGED <<open, attempts, lease, resting>>
  PROVE  HolderStep
BY DEF HolderStep, RowKept

LEMMA SettleHolds ==
  ASSUME RowsInv, NEW w \in Workers, Settle(w)
  PROVE  HolderStep
<1> DEFINE gap == hand[w]
<1>1. gap \in Gaps /\ pc[w] = "settling" /\ pc'[w] = "idle"
  BY DEF Settle, GoIdle, RowsInv, RowsTyped
<1>2. CASE UNCHANGED rows
  BY <1>2, RowsKeptHolds DEF rows
<1>3. CASE /\ Fenced(w, gap)
           /\ ResolveGap(gap) \/ CoolDownGap(gap) \/ ReleaseGap(gap)
  <2>1. SUFFICES ASSUME NEW g \in Gaps, lease[g] # None, g \notin expired
                 PROVE  SettledBy(lease[g], g) \/ RowKept(g)
    BY DEF HolderStep
  <2>2. CASE g = gap
    BY <1>1, <1>3, <2>2 DEF Fenced, SettledBy
  <2>3. CASE g # gap
    BY <1>1, <1>3, <2>3
       DEF ResolveGap, CoolDownGap, ReleaseGap, LetGo, RowKept, RowsInv, RowsTyped
  <2>4. QED
    BY <2>2, <2>3
<1>4. QED
  BY <1>2, <1>3 DEF Settle

LEMMA NextHolds == RowsInv /\ [Next]_vars => HolderStep
<1> SUFFICES ASSUME RowsInv, [Next]_vars PROVE HolderStep
  OBVIOUS
<1>1. CASE PersistGaps
  <2>1. \A g \in Gaps : lease[g] # None => g \in open
    BY DEF RowsInv, RowsConsistent
  <2>2. QED
    BY <1>1, <2>1 DEF PersistGaps, HolderStep, RowKept
<1>2. ASSUME NEW w \in Workers, Claim(w) PROVE HolderStep
  <2>1. PICK g \in Gaps : /\ lease[g] = None \/ g \in expired
                          /\ lease' = [lease EXCEPT ![g] = w]
    BY <1>2 DEF Claim, Claimable
  <2>2. UNCHANGED <<open, attempts, resting>>
    BY <1>2 DEF Claim
  <2>3. QED
    BY <2>1, <2>2 DEF HolderStep, RowKept, RowsInv, RowsTyped
<1>3. ASSUME NEW w \in Workers, Settle(w) PROVE HolderStep
  BY <1>3, SettleHolds
<1>4. ASSUME NEW g \in Gaps, RestEnds(g) PROVE HolderStep
  BY <1>4 DEF RestEnds, HolderStep, RowKept, RowsInv, RowsConsistent
<1>5. CASE \/ BeginSweep \/ \E f \in Facts : ReadFact(f)
           \/ \E g \in Gaps : LeaseExpires(g)
           \/ UNCHANGED vars
  BY <1>5, RowsKeptHolds DEF BeginSweep, ReadFact, LeaseExpires, vars, rows
<1>6. ASSUME NEW w \in Workers,
             \/ SourceDeclines(w) \/ RunsOut(w) \/ SourceEnds(w)
             \/ SourceAnswers(w) \/ WriteClaims(w) \/ WriteDerived(w)
             \/ RecordAttempt(w) \/ Crash(w)
      PROVE HolderStep
  BY <1>6, RowsKeptHolds
     DEF SourceDeclines, RunsOut, SourceEnds, SourceAnswers, WriteClaims,
         WriteDerived, RecordAttempt, Crash, rows
<1>7. QED
  BY <1>1, <1>2, <1>3, <1>4, <1>5, <1>6 DEF Next, Work, Sweep

(* While a lease is alive its holder alone changes the row, so a worker     *)
(* that outlived its lease cannot settle the gap of its replacement (the    *)
(* fence of the completion statements), for every number of workers.        *)
THEOREM OnlyTheHolderSettles == Spec => HolderOwnsRow
<1>1. RowsInv /\ [Next]_vars => HolderStep
  BY NextHolds
<1>2. QED
  BY <1>1, RowsAlways, PTL DEF Spec, HolderOwnsRow

------------------------------------------------------------------------------
(* The workers: what each has in hand fits the place it is in.              *)
WorkTyped ==
  /\ held \in [Facts -> SUBSET Sources]
  /\ logged \subseteq Gaps
  /\ turn \in [Workers -> Nat \ {0}]
  /\ verdict \in [Workers -> (Verdicts \X Recorded) \cup {None}]
  /\ unread \subseteq Facts
  /\ sweeping \in {"idle", "reading"}
  /\ \A w \in Workers :
       pc[w] \in {"writing", "deriving"} => turn[w] <= Len(Ranked(w))
  /\ \A w \in Workers :
       pc[w] \in {"recording", "settling"} => verdict[w] \in Verdicts \X Recorded

GapInv == RowsInv /\ WorkTyped /\ AttemptsExplain

LEMMA InitGap == Init => GapInv
<1> SUFFICES ASSUME Init PROVE GapInv
  OBVIOUS
<1>1. WorkTyped
  BY DEF Init, WorkTyped
<1>2. AttemptsExplain
  BY DEF Init, AttemptsExplain
<1>3. QED
  BY <1>1, <1>2, InitRows DEF GapInv

(* A worker asks a candidate of the fact it has in hand.                    *)
LEMMA AskedIsSource ==
  ASSUME RowsTyped, WorkTyped, NEW w \in Workers, pc[w] # "idle",
         turn[w] <= Len(Ranked(w))
  PROVE  Asked(w) \in Sources /\ hand[w][1] \in Facts
<1>1. hand[w][1] \in Facts
  BY DEF RowsTyped, Gaps
<1>2. Ranked(w) \in Seq(Sources)
  BY <1>1, GapQueueAssumption DEF Ranked
<1>3. turn[w] \in 1..Len(Ranked(w))
  BY <1>2 DEF WorkTyped
<1>4. QED
  BY <1>1, <1>2, <1>3 DEF Asked

LEMMA SweepGap ==
  ASSUME GapInv, Sweep
  PROVE  WorkTyped' /\ AttemptsExplain'
<1>1. CASE BeginSweep
  <2>1. WorkTyped'
    BY <1>1 DEF BeginSweep, GapInv, WorkTyped, worker, Ranked
  <2>2. AttemptsExplain'
    BY <1>1 DEF BeginSweep, GapInv, AttemptsExplain, Fenced, worker, rows
  <2>3. QED
    BY <2>1, <2>2
<1>2. ASSUME NEW f \in Facts, ReadFact(f) PROVE WorkTyped' /\ AttemptsExplain'
  <2>1. WorkTyped'
    BY <1>2 DEF ReadFact, GapInv, WorkTyped, worker, Ranked
  <2>2. AttemptsExplain'
    BY <1>2 DEF ReadFact, GapInv, AttemptsExplain, Fenced, worker, rows
  <2>3. QED
    BY <2>1, <2>2
<1>3. CASE PersistGaps
  <2>1. WorkTyped'
    BY <1>3 DEF PersistGaps, GapInv, WorkTyped, worker, Ranked
  <2>2. \A g \in open' : attempts'[g] > 0 \/ g \in resting' => g \in logged'
    BY <1>3 DEF PersistGaps, GapInv, AttemptsExplain, RowsInv, RowsTyped,
                RowsConsistent
  <2>3. ASSUME NEW w \in Workers, pc'[w] = "settling", Fenced(w, hand[w])'
        PROVE  hand'[w] \in logged'
    <3>1. pc[w] = "settling" /\ lease[hand[w]] = w /\ hand[w] \notin expired
          /\ hand'[w] = hand[w]
      BY <1>3, <2>3 DEF PersistGaps, worker, Fenced
    <3>2. hand[w] \in Gaps /\ w # None
      BY <3>1, GapQueueAssumption DEF GapInv, RowsInv, RowsTyped
    <3>3. hand[w] \in open
      BY <3>1, <3>2 DEF GapInv, RowsInv, RowsConsistent
    <3>4. hand[w] \in logged
      BY <3>1, <3>3 DEF GapInv, AttemptsExplain, Fenced
    <3>5. QED
      BY <1>3, <3>1, <3>3, <3>4 DEF PersistGaps
  <2>4. \A w \in Workers :
          pc'[w] \in {"recording", "settling"} /\ verdict'[w][2] = "filled"
            => held'[hand'[w][1]] # {}
    BY <1>3 DEF PersistGaps, worker, GapInv, AttemptsExplain
  <2>5. QED
    BY <2>1, <2>2, <2>3, <2>4 DEF AttemptsExplain
<1>4. QED
  BY <1>1, <1>2, <1>3 DEF Sweep

LEMMA ClaimGap ==
  ASSUME GapInv, NEW w \in Workers, Claim(w)
  PROVE  WorkTyped' /\ AttemptsExplain'
<1>1. PICK g \in Gaps : /\ Claimable(g)
                        /\ lease' = [lease EXCEPT ![g] = w]
                        /\ expired' = expired \ {g}
                        /\ hand' = [hand EXCEPT ![w] = g]
  BY DEF Claim
<1>2. /\ pc' = [pc EXCEPT ![w] = "asking"] /\ turn' = [turn EXCEPT ![w] = 1]
      /\ UNCHANGED <<open, attempts, resting, held, logged, verdict, sweep>>
  BY DEF Claim
<1>3. /\ pc \in [Workers -> PCs] /\ hand \in [Workers -> Gaps \cup {None}]
      /\ lease \in [Gaps -> Workers \cup {None}]
      /\ \A v \in Workers : pc[v] # "idle" => hand[v] \in Gaps
  BY DEF GapInv, RowsInv, RowsTyped
<1>4. \A v \in Workers : v # w => hand'[v] = hand[v] /\ pc'[v] = pc[v]
                                  /\ turn'[v] = turn[v]
  BY <1>1, <1>2, <1>3 DEF GapInv, WorkTyped
<1>5. pc'[w] = "asking"
  BY <1>2, <1>3
<1>6. WorkTyped'
  <2>1. turn' \in [Workers -> Nat \ {0}]
    BY <1>2 DEF GapInv, WorkTyped
  <2>2. QED
    BY <1>2, <1>4, <1>5, <2>1 DEF GapInv, WorkTyped, sweep, Ranked
<1>7. \A v \in Workers : pc'[v] = "settling" /\ Fenced(v, hand[v])'
                           => hand'[v] \in logged'
  <2> SUFFICES ASSUME NEW v \in Workers, pc'[v] = "settling",
                      lease'[hand'[v]] = v, hand'[v] \notin expired',
                      hand'[v] \in open'
               PROVE  hand'[v] \in logged'
    BY DEF Fenced
  <2>1. v # w /\ hand'[v] = hand[v] /\ pc[v] = "settling" /\ hand[v] \in Gaps
    BY <1>3, <1>4, <1>5
  <2>2. hand[v] # g
    BY <1>1, <1>3, <2>1
  <2>3. Fenced(v, hand[v])
    BY <1>1, <1>2, <1>3, <2>1, <2>2 DEF Fenced
  <2>4. QED
    BY <1>2, <2>1, <2>3 DEF GapInv, AttemptsExplain
<1>8. AttemptsExplain'
  BY <1>2, <1>4, <1>5, <1>7 DEF GapInv, AttemptsExplain
<1>9. QED
  BY <1>6, <1>8

(* A worker that only moves on leaves rows, log and claims as they were.    *)
LEMMA MovesOn ==
  ASSUME GapInv, NEW w \in Workers, UNCHANGED <<rows, logged, hand>>,
         \A f \in Facts : held[f] \subseteq held'[f],
         \A v \in Workers : v # w => pc'[v] = pc[v] /\ verdict'[v] = verdict[v],
         pc[w] # "idle", pc'[w] # "settling",
         pc'[w] = "recording" /\ verdict'[w][2] = "filled"
           => held'[hand[w][1]] # {}
  PROVE  AttemptsExplain'
<1>1. \A v \in Workers : pc'[v] = "settling" => v # w /\ pc[v] = "settling"
  OBVIOUS
<1>2. \A v \in Workers : Fenced(v, hand[v])' = Fenced(v, hand[v])
  BY DEF Fenced, rows
<1>3. \A v \in Workers : pc[v] # "idle" => hand[v][1] \in Facts
  BY DEF GapInv, RowsInv, RowsTyped, Gaps
<1>4. \A g \in open' : attempts'[g] > 0 \/ g \in resting' => g \in logged'
  BY DEF GapInv, AttemptsExplain, rows
<1>5. \A v \in Workers : pc'[v] = "settling" /\ Fenced(v, hand[v])'
                           => hand'[v] \in logged'
  BY <1>1, <1>2 DEF GapInv, AttemptsExplain
<1>6. ASSUME NEW v \in Workers, pc'[v] \in {"recording", "settling"},
             verdict'[v][2] = "filled"
      PROVE  held'[hand'[v][1]] # {}
  <2>1. CASE v = w
    BY <1>6, <2>1
  <2>2. CASE v # w
    <3>1. held[hand[v][1]] # {} /\ hand[v][1] \in Facts
      BY <1>3, <1>6, <2>2 DEF GapInv, AttemptsExplain
    <3>2. QED
      BY <3>1
  <2>3. QED
    BY <2>1, <2>2
<1>7. QED
  BY <1>4, <1>5, <1>6 DEF AttemptsExplain

(* The same of what the workers have in hand.                               *)
LEMMA DecideTyped ==
  ASSUME GapInv, NEW w \in Workers, NEW decision \in Verdicts \X Recorded,
         Decide(w, decision), held' \in [Facts -> SUBSET Sources],
         UNCHANGED <<logged, hand, sweep>>
  PROVE  /\ WorkTyped' /\ pc'[w] = "recording" /\ verdict'[w] = decision
         /\ \A v \in Workers : v # w => pc'[v] = pc[v] /\ verdict'[v] = verdict[v]
<1>1. /\ pc \in [Workers -> PCs]
      /\ verdict \in [Workers -> (Verdicts \X Recorded) \cup {None}]
      /\ turn \in [Workers -> Nat \ {0}]
  BY DEF GapInv, RowsInv, RowsTyped, WorkTyped
<1>2. /\ pc' = [pc EXCEPT ![w] = "recording"]
      /\ verdict' = [verdict EXCEPT ![w] = decision]
      /\ turn' = [turn EXCEPT ![w] = 1]
  BY DEF Decide
<1>3. \A v \in Workers : v # w => /\ pc'[v] = pc[v] /\ verdict'[v] = verdict[v]
                                  /\ turn'[v] = turn[v]
  BY <1>1, <1>2
<1>4. pc'[w] = "recording" /\ verdict'[w] = decision
  BY <1>1, <1>2
<1>5. /\ turn' \in [Workers -> Nat \ {0}]
      /\ verdict' \in [Workers -> (Verdicts \X Recorded) \cup {None}]
  BY <1>1, <1>2
<1>6. WorkTyped'
  BY <1>3, <1>4, <1>5 DEF GapInv, WorkTyped, Ranked, sweep
<1>7. QED
  BY <1>3, <1>4, <1>6

LEMMA DecideGap ==
  ASSUME GapInv, NEW w \in Workers, RunsOut(w) \/ SourceEnds(w)
  PROVE  WorkTyped' /\ AttemptsExplain'
<1>1. /\ pc[w] = "asking"
      /\ UNCHANGED <<rows, held, logged, hand, sweep>>
      /\ \E how \in Verdicts : Decide(w, <<how, "unfilled">>)
  BY DEF RunsOut, SourceEnds, Asking, Verdicts
<1>2. PICK how \in Verdicts : Decide(w, <<how, "unfilled">>)
  BY <1>1
<1>3. <<how, "unfilled">> \in Verdicts \X Recorded
  BY DEF Recorded
<1>4. held' \in [Facts -> SUBSET Sources]
  BY <1>1 DEF GapInv, WorkTyped
<1>5. /\ WorkTyped' /\ pc'[w] = "recording" /\ verdict'[w] = <<how, "unfilled">>
      /\ \A v \in Workers : v # w => pc'[v] = pc[v] /\ verdict'[v] = verdict[v]
  BY <1>1, <1>2, <1>3, <1>4, DecideTyped
<1>6. verdict'[w][2] # "filled"
  BY <1>5
<1>7. AttemptsExplain'
  BY <1>1, <1>5, <1>6, MovesOn
<1>8. QED
  BY <1>5, <1>7

LEMMA AskGap ==
  ASSUME GapInv, NEW w \in Workers, SourceDeclines(w) \/ SourceAnswers(w)
  PROVE  WorkTyped' /\ AttemptsExplain'
<1>1. /\ pc[w] = "asking" /\ turn[w] <= Len(Ranked(w))
      /\ UNCHANGED <<rows, held, logged, hand, verdict, sweep>>
  BY DEF SourceDeclines, SourceAnswers, Asking
<1>2. /\ pc \in [Workers -> PCs] /\ turn \in [Workers -> Nat \ {0}]
  BY DEF GapInv, RowsInv, RowsTyped, WorkTyped
<1>3. /\ \A v \in Workers : v # w => pc'[v] = pc[v]
      /\ pc'[w] \in {"asking", "writing", "deriving"}
  BY <1>1, <1>2 DEF SourceDeclines, SourceAnswers
<1>4. WorkTyped'
  <2>1. CASE SourceDeclines(w)
    <3>1. pc' = pc /\ turn' = [turn EXCEPT ![w] = @ + 1]
      BY <2>1 DEF SourceDeclines
    <3>2. turn' \in [Workers -> Nat \ {0}]
      BY <1>2, <3>1
    <3>3. \A v \in Workers : v # w => turn'[v] = turn[v]
      BY <1>2, <3>1
    <3>4. QED
      BY <1>1, <3>1, <3>2, <3>3 DEF GapInv, WorkTyped, Ranked, sweep
  <2>2. CASE SourceAnswers(w)
    <3>1. turn' = turn
      BY <2>2 DEF SourceAnswers
    <3>2. QED
      BY <1>1, <1>3, <3>1 DEF GapInv, WorkTyped, Ranked, sweep
  <2>3. QED
    BY <2>1, <2>2
<1>5. AttemptsExplain'
  BY <1>1, <1>3, MovesOn
<1>6. QED
  BY <1>4, <1>5

LEMMA WriteGap ==
  ASSUME GapInv, NEW w \in Workers, WriteClaims(w) \/ WriteDerived(w)
  PROVE  WorkTyped' /\ AttemptsExplain'
<1>1. /\ pc[w] \in {"writing", "deriving"}
      /\ \/ held' = [held EXCEPT ![hand[w][1]] = @ \cup {Asked(w)}]
         \/ held' = held /\ Asked(w) \in held[hand[w][1]]
      /\ UNCHANGED <<rows, logged, hand, sweep>>
      /\ \E decision \in Verdicts \X Recorded : Decide(w, decision)
  BY DEF WriteClaims, WriteDerived, Verdicts, Recorded
<1>2. PICK decision \in Verdicts \X Recorded : Decide(w, decision)
  BY <1>1
<1>3. Asked(w) \in Sources /\ hand[w][1] \in Facts
  BY <1>1, AskedIsSource DEF GapInv, RowsInv, WorkTyped
<1>4. held \in [Facts -> SUBSET Sources]
  BY DEF GapInv, WorkTyped
<1>5. /\ held' \in [Facts -> SUBSET Sources] /\ held'[hand[w][1]] # {}
      /\ \A f \in Facts : held[f] \subseteq held'[f]
  BY <1>1, <1>3, <1>4
<1>6. /\ WorkTyped' /\ pc'[w] = "recording"
      /\ \A v \in Workers : v # w => pc'[v] = pc[v] /\ verdict'[v] = verdict[v]
  BY <1>1, <1>2, <1>5, DecideTyped
<1>7. AttemptsExplain'
  BY <1>1, <1>5, <1>6, MovesOn
<1>8. QED
  BY <1>6, <1>7

LEMMA RecordGap ==
  ASSUME GapInv, NEW w \in Workers, RecordAttempt(w)
  PROVE  WorkTyped' /\ AttemptsExplain'
<1>1. /\ pc[w] = "recording" /\ pc' = [pc EXCEPT ![w] = "settling"]
      /\ logged' = logged \cup {hand[w]}
      /\ UNCHANGED <<rows, held, hand, turn, verdict, sweep>>
  BY DEF RecordAttempt
<1>2. pc \in [Workers -> PCs] /\ hand[w] \in Gaps
  BY <1>1 DEF GapInv, RowsInv, RowsTyped
<1>3. /\ pc'[w] = "settling"
      /\ \A v \in Workers : v # w => pc'[v] = pc[v]
  BY <1>1, <1>2
<1>4. WorkTyped'
  BY <1>1, <1>2, <1>3 DEF GapInv, WorkTyped, Ranked, sweep
<1>5. \A v \in Workers : Fenced(v, hand[v])' = Fenced(v, hand[v])
  BY <1>1 DEF Fenced, rows
<1>6. AttemptsExplain'
  BY <1>1, <1>3, <1>5 DEF GapInv, AttemptsExplain, rows
<1>7. QED
  BY <1>4, <1>6

(* A worker that goes idle says nothing any more.                           *)
LEMMA IdleTyped ==
  ASSUME GapInv, NEW w \in Workers, GoIdle(w), UNCHANGED <<held, logged, sweep>>
  PROVE  /\ WorkTyped' /\ pc'[w] = "idle"
         /\ \A v \in Workers : v # w => /\ pc'[v] = pc[v] /\ hand'[v] = hand[v]
                                        /\ verdict'[v] = verdict[v]
<1>1. /\ pc \in [Workers -> PCs] /\ hand \in [Workers -> Gaps \cup {None}]
      /\ verdict \in [Workers -> (Verdicts \X Recorded) \cup {None}]
      /\ turn \in [Workers -> Nat \ {0}]
  BY DEF GapInv, RowsInv, RowsTyped, WorkTyped
<1>2. /\ pc' = [pc EXCEPT ![w] = "idle"] /\ hand' = [hand EXCEPT ![w] = None]
      /\ turn' = [turn EXCEPT ![w] = 1] /\ verdict' = [verdict EXCEPT ![w] = None]
  BY DEF GoIdle
<1>3. \A v \in Workers : v # w => /\ pc'[v] = pc[v] /\ hand'[v] = hand[v]
                                  /\ verdict'[v] = verdict[v] /\ turn'[v] = turn[v]
  BY <1>1, <1>2
<1>4. /\ pc'[w] = "idle" /\ turn' \in [Workers -> Nat \ {0}]
      /\ verdict' \in [Workers -> (Verdicts \X Recorded) \cup {None}]
  BY <1>1, <1>2
<1>5. WorkTyped'
  BY <1>3, <1>4 DEF GapInv, WorkTyped, Ranked, sweep
<1>6. QED
  BY <1>3, <1>4, <1>5

LEMMA CrashGap ==
  ASSUME GapInv, NEW w \in Workers, Crash(w)
  PROVE  WorkTyped' /\ AttemptsExplain'
<1>1. GoIdle(w) /\ UNCHANGED <<rows, held, logged, sweep>>
  BY DEF Crash
<1>2. /\ WorkTyped' /\ pc'[w] = "idle"
      /\ \A v \in Workers : v # w => /\ pc'[v] = pc[v] /\ hand'[v] = hand[v]
                                     /\ verdict'[v] = verdict[v]
  BY <1>1, IdleTyped
<1>3. AttemptsExplain'
  BY <1>1, <1>2 DEF GapInv, AttemptsExplain, Fenced, rows
<1>4. QED
  BY <1>2, <1>3

LEMMA SettleGap ==
  ASSUME GapInv, NEW w \in Workers, Settle(w)
  PROVE  WorkTyped' /\ AttemptsExplain'
<1> DEFINE gap == hand[w]
<1>1. /\ pc[w] = "settling" /\ GoIdle(w) /\ UNCHANGED <<held, logged, sweep>>
      /\ \/ /\ Fenced(w, gap)
            /\ ResolveGap(gap) \/ CoolDownGap(gap) \/ ReleaseGap(gap)
         \/ UNCHANGED rows
  BY DEF Settle
<1>2. /\ WorkTyped' /\ pc'[w] = "idle"
      /\ \A v \in Workers : v # w => /\ pc'[v] = pc[v] /\ hand'[v] = hand[v]
                                     /\ verdict'[v] = verdict[v]
  BY <1>1, IdleTyped
<1>3. \A v \in Workers :
        pc'[v] \in {"recording", "settling"} /\ verdict'[v][2] = "filled"
          => held'[hand'[v][1]] # {}
  BY <1>1, <1>2 DEF GapInv, AttemptsExplain
<1>4. CASE UNCHANGED rows
  BY <1>1, <1>2, <1>3, <1>4 DEF GapInv, AttemptsExplain, Fenced, rows
<1>5. CASE /\ Fenced(w, gap)
           /\ ResolveGap(gap) \/ CoolDownGap(gap) \/ ReleaseGap(gap)
  <2>1. gap \in Gaps /\ gap \in logged
    BY <1>1, <1>5 DEF GapInv, RowsInv, RowsTyped, AttemptsExplain
  <2>2. /\ lease \in [Gaps -> Workers \cup {None}] /\ attempts \in [Gaps -> Nat]
        /\ open \subseteq Gaps
        /\ \A v \in Workers : pc[v] # "idle" => hand[v] \in Gaps
    BY DEF GapInv, RowsInv, RowsTyped
  <2>3. /\ lease' = [lease EXCEPT ![gap] = None] /\ expired' = expired \ {gap}
        /\ open' \subseteq open /\ resting' \subseteq resting \cup {gap}
    BY <1>5 DEF ResolveGap, CoolDownGap, ReleaseGap, LetGo
  <2>4. \A g \in Gaps : g # gap => attempts'[g] = attempts[g]
    BY <1>5, <2>2 DEF ResolveGap, CoolDownGap, ReleaseGap
  <2>5. \A g \in open' : attempts'[g] > 0 \/ g \in resting' => g \in logged'
    BY <1>1, <2>1, <2>2, <2>3, <2>4 DEF GapInv, AttemptsExplain
  <2>6. ASSUME NEW v \in Workers, pc'[v] = "settling",
               lease'[hand'[v]] = v, hand'[v] \notin expired', hand'[v] \in open'
        PROVE  hand'[v] \in logged'
    <3>1. v # w /\ hand'[v] = hand[v] /\ pc[v] = "settling" /\ hand[v] \in Gaps
      BY <1>2, <2>2, <2>6
    <3>2. hand[v] # gap
      BY <2>2, <2>3, <2>6, <3>1, GapQueueAssumption
    <3>3. Fenced(v, hand[v])
      BY <2>2, <2>3, <2>6, <3>1, <3>2 DEF Fenced
    <3>4. QED
      BY <1>1, <3>1, <3>3 DEF GapInv, AttemptsExplain
  <2>7. QED
    BY <1>2, <1>3, <2>5, <2>6 DEF AttemptsExplain, Fenced
<1>6. QED
  BY <1>1, <1>4, <1>5

LEMMA TimeGap ==
  ASSUME GapInv, NEW g \in Gaps, LeaseExpires(g) \/ RestEnds(g)
  PROVE  WorkTyped' /\ AttemptsExplain'
<1>1. /\ UNCHANGED <<open, attempts, lease, held, logged, worker, sweep>>
      /\ expired \subseteq expired' /\ resting' \subseteq resting
  BY DEF LeaseExpires, RestEnds
<1>2. WorkTyped'
  BY <1>1 DEF GapInv, WorkTyped, worker, sweep, Ranked
<1>3. AttemptsExplain'
  BY <1>1 DEF GapInv, AttemptsExplain, Fenced, worker
<1>4. QED
  BY <1>2, <1>3

LEMMA GapStep == GapInv /\ [Next]_vars => GapInv'
<1> SUFFICES ASSUME GapInv, [Next]_vars PROVE GapInv'
  OBVIOUS
<1>1. RowsInv'
  BY RowsStep DEF GapInv
<1>2. WorkTyped' /\ AttemptsExplain'
  <2>1. CASE UNCHANGED vars
    <3>1. WorkTyped'
      BY <2>1 DEF vars, worker, sweep, GapInv, WorkTyped, Ranked
    <3>2. AttemptsExplain'
      BY <2>1 DEF vars, rows, worker, GapInv, AttemptsExplain, Fenced
    <3>3. QED
      BY <3>1, <3>2
  <2>2. CASE Next
    BY <2>2, SweepGap, ClaimGap, AskGap, DecideGap, WriteGap, RecordGap, SettleGap,
       CrashGap, TimeGap DEF Next, Work
  <2>3. QED
    BY <2>1, <2>2
<1>3. QED
  BY <1>1, <1>2 DEF GapInv

LEMMA GapAlways == Spec => []GapInv
BY InitGap, GapStep, PTL DEF Spec

(* The queue, the workers and the sweep keep the shape the code gives them, *)
(* for every number of facts, sources, workers and attempts.                *)
THEOREM GapTypeCorrect == Spec => []TypeOK
<1>1. GapInv => TypeOK
  BY DEF GapInv, RowsInv, RowsTyped, WorkTyped, TypeOK
<1>2. QED
  BY <1>1, GapAlways, PTL

(* fill_gap always records an attempt and never fabricates: whatever        *)
(* workers die or outlive their lease, no failure is charged and no backoff *)
(* set before an attempt is on record, and none is recorded as filled       *)
(* unless the store holds a claim.                                          *)
THEOREM AttemptsAreExplained == Spec => []AttemptsExplain
<1>1. GapInv => AttemptsExplain
  BY DEF GapInv
<1>2. QED
  BY <1>1, GapAlways, PTL
================================================================================
