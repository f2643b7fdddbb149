------------------------------- MODULE GapQueue ------------------------------
(***************************************************************************)
(* The gap queue: the sweep that compares demand with coverage and opens   *)
(* gaps (coverage/gaps.py), and the workers that lease a gap, ask the      *)
(* sources that can produce its claim in turn, write what they answer and  *)
(* settle the gap (fill/pipeline.py, fill/derived.py).                     *)
(*                                                                         *)
(* A statement of the database is one step; between two of them another    *)
(* worker may run, a lease may run out while a slow source is being asked, *)
(* or the worker may die.  A gap is a demanded fact and what is wrong with *)
(* its coverage; of the five classes the two that depend on the number of  *)
(* sources are kept.  Every fact has demand of the same weight.  A         *)
(* worker's lease token is fresh for every claim, and a worker has one gap *)
(* in hand at a time, so the token is named by its worker.                 *)
(***************************************************************************)
EXTENDS Naturals, Sequences, FiniteSets

CONSTANTS
  Facts,        \* what is demanded: entity, claim type, key and audience
  Workers,      \* the fill workers
  Sources,      \* the capabilities that produce claims
  Candidates,   \* for each fact, the sources that produce it, best first
  Answers,      \* for each source, how it may answer
  MaxAttempts,  \* MAX_ATTEMPTS
  None          \* no worker, no gap

Outcomes == {"declines", "fails", "empty", "data", "abstains", "derives"}

ASSUME GapQueueAssumption ==
  /\ None \notin Workers
  /\ Candidates \in [Facts -> Seq(Sources)]
  /\ Answers \in [Sources -> SUBSET Outcomes]
  /\ MaxAttempts \in Nat \ {0}

VARIABLES
  open,       \* gaps with a row that is not resolved
  attempts,   \* failed attempts charged to the open row, or to the last one
  lease,      \* the worker whose token the row carries
  expired,    \* leased gaps whose lease has run out
  resting,    \* gaps whose next_attempt_at is still to come
  held,       \* for each fact, the sources whose claim the store holds
  logged,     \* gaps with a fill_attempt row since their row was opened
  pc,         \* where each worker is in fill_gap
  hand,       \* the gap in its hand
  turn,       \* which candidate it asks next
  verdict,    \* how it is going to settle the gap
  unread,     \* facts the running sweep has not read yet
  found,      \* gaps it has found so far
  sweeping    \* "idle" or "reading"

rows   == <<open, attempts, lease, expired, resting>>
worker == <<pc, hand, turn, verdict>>
sweep  == <<unread, found, sweeping>>
vars   == <<rows, held, logged, worker, sweep>>

Gaps     == Facts \X {"missing", "unverified"}
Urgency(gap) == IF gap[2] = "missing" THEN 100 ELSE 1
Recorded == {"filled", "unfilled"}
Verdicts == {"resolve", "cooldown", "release"}
PCs      == {"idle", "asking", "writing", "deriving", "recording", "settling"}

TypeOK ==
  /\ open \subseteq Gaps /\ expired \subseteq Gaps /\ resting \subseteq Gaps
  /\ attempts \in [Gaps -> Nat]
  /\ lease \in [Gaps -> Workers \cup {None}]
  /\ held \in [Facts -> SUBSET Sources]
  /\ logged \subseteq Gaps
  /\ pc \in [Workers -> PCs]
  /\ hand \in [Workers -> Gaps \cup {None}]
  /\ turn \in [Workers -> Nat]
  /\ verdict \in [Workers -> (Verdicts \X Recorded) \cup {None}]
  /\ unread \subseteq Facts /\ found \subseteq Gaps
  /\ sweeping \in {"idle", "reading"}
  /\ \A w \in Workers : pc[w] # "idle" => hand[w] \in Gaps

Init ==
  /\ open = {} /\ expired = {} /\ resting = {}
  /\ attempts = [g \in Gaps |-> 0]
  /\ lease = [g \in Gaps |-> None]
  /\ held = [f \in Facts |-> {}]
  /\ logged = {}
  /\ pc = [w \in Workers |-> "idle"]
  /\ hand = [w \in Workers |-> None]
  /\ turn = [w \in Workers |-> 1]
  /\ verdict = [w \in Workers |-> None]
  /\ unread = {} /\ found = {} /\ sweeping = "idle"

------------------------------------------------------------------------------
(* The sweep.  Demand is read first and coverage fact by fact, so what it   *)
(* persists may be out of date by then.                                     *)
BeginSweep ==
  /\ sweeping = "idle"
  /\ sweeping' = "reading"
  /\ unread' = Facts
  /\ found' = {}
  /\ UNCHANGED <<rows, held, logged, worker>>

(* _classify, on the distinct sources of the visible claims.                *)
Classify(fact) ==
  IF held[fact] = {} THEN {<<fact, "missing">>}
  ELSE IF Cardinality(held[fact]) = 1 THEN {<<fact, "unverified">>} ELSE {}

ReadFact(fact) ==
  /\ fact \in unread
  /\ unread' = unread \ {fact}
  /\ found' = found \cup Classify(fact)
  /\ UNCHANGED <<rows, held, logged, worker, sweeping>>

(* persist_gaps: a gap that is open keeps its lease, backoff and attempts;  *)
(* one that is not gets a row of its own that starts from nothing.          *)
PersistGaps ==
  /\ sweeping = "reading" /\ unread = {}
  /\ sweeping' = "idle"
  /\ found' = {}
  /\ open' = open \cup found
  /\ attempts' = [g \in Gaps |-> IF g \in found \ open THEN 0 ELSE attempts[g]]
  /\ logged' = logged \ (found \ open)
  /\ UNCHANGED <<lease, expired, resting, held, worker, unread>>

------------------------------------------------------------------------------
(* Mutant: a lease is never taken over.                                     *)
MutClaimable(gap) ==
  /\ gap \in open
  /\ lease[gap] = None
  /\ gap \notin resting

(* claim_next_gap: the most urgent gap that is open, rested and not leased. *)
Claimable(gap) ==
  /\ gap \in open
  /\ lease[gap] = None \/ gap \in expired
  /\ gap \notin resting

Claim(w) ==
  /\ pc[w] = "idle"
  /\ \E g \in Gaps :
       /\ Claimable(g)
       /\ \A other \in Gaps : Claimable(other) => Urgency(other) <= Urgency(g)
       /\ lease' = [lease EXCEPT ![g] = w]
       /\ expired' = expired \ {g}
       /\ hand' = [hand EXCEPT ![w] = g]
  /\ pc' = [pc EXCEPT ![w] = "asking"]
  /\ turn' = [turn EXCEPT ![w] = 1]
  /\ UNCHANGED <<open, attempts, resting, held, logged, verdict, sweep>>

Ranked(w)  == Candidates[hand[w][1]]
Asking(w)  == pc[w] = "asking" /\ turn[w] <= Len(Ranked(w))
Asked(w)   == Ranked(w)[turn[w]]

(* Mutant: the attempt is settled without being recorded.                   *)
MutDecide(w, decision) ==
  /\ pc' = [pc EXCEPT ![w] = "settling"]
  /\ verdict' = [verdict EXCEPT ![w] = decision]
  /\ turn' = [turn EXCEPT ![w] = 1]

(* What the worker records and then does to the gap.                        *)
Decide(w, decision) ==
  /\ pc' = [pc EXCEPT ![w] = "recording"]
  /\ verdict' = [verdict EXCEPT ![w] = decision]
  /\ turn' = [turn EXCEPT ![w] = 1]

(* Unavailable, ProhibitedSource, MissingCredentialOwner, no key: the next  *)
(* candidate is asked.                                                      *)
SourceDeclines(w) ==
  /\ Asking(w) /\ "declines" \in Answers[Asked(w)]
  /\ turn' = [turn EXCEPT ![w] = @ + 1]
  /\ UNCHANGED <<rows, held, logged, pc, hand, verdict, sweep>>

RunsOut(w) ==
  /\ pc[w] = "asking" /\ turn[w] > Len(Ranked(w))
  /\ Decide(w, <<"release", "unfilled">>)
  /\ UNCHANGED <<rows, held, logged, hand, sweep>>

(* Any other exception ends the attempt, as does a derived capability that  *)
(* lacks inputs; a source without observations closes the gap.              *)
SourceEnds(w) ==
  /\ Asking(w)
  /\ \/ "fails" \in Answers[Asked(w)] /\ Decide(w, <<"release", "unfilled">>)
     \/ "abstains" \in Answers[Asked(w)] /\ Decide(w, <<"release", "unfilled">>)
     \/ "empty" \in Answers[Asked(w)] /\ Decide(w, <<"resolve", "unfilled">>)
  /\ UNCHANGED <<rows, held, logged, hand, sweep>>

SourceAnswers(w) ==
  /\ Asking(w)
  /\ \/ "data" \in Answers[Asked(w)] /\ pc' = [pc EXCEPT ![w] = "writing"]
     \/ "derives" \in Answers[Asked(w)] /\ pc' = [pc EXCEPT ![w] = "deriving"]
  /\ UNCHANGED <<rows, held, logged, hand, turn, verdict, sweep>>

(* write_claims inserts what the store does not hold; it asks for no lease. *)
WriteClaims(w) ==
  /\ pc[w] = "writing"
  /\ LET fact == hand[w][1]
     IN /\ held' = [held EXCEPT ![fact] = @ \cup {Asked(w)}]
        /\ Decide(w, IF Asked(w) \in held[fact]
                       THEN <<"cooldown", "unfilled">>
                       ELSE <<"resolve", "filled">>)
  /\ UNCHANGED <<rows, logged, hand, sweep>>

(* write_derived inserts without asking what the store holds: a claim of    *)
(* the same source and the same dates raises on the unique index, and the   *)
(* attempt ends in an error; one derived from newer inputs is another row.  *)
WriteDerived(w) ==
  /\ pc[w] = "deriving"
  /\ \/ /\ held' = [held EXCEPT ![hand[w][1]] = @ \cup {Asked(w)}]
        /\ Decide(w, <<"resolve", "filled">>)
     \/ /\ Asked(w) \in held[hand[w][1]]
        /\ Decide(w, <<"release", "unfilled">>)
        /\ UNCHANGED held
  /\ UNCHANGED <<rows, logged, hand, sweep>>

RecordAttempt(w) ==
  /\ pc[w] = "recording"
  /\ logged' = logged \cup {hand[w]}
  /\ pc' = [pc EXCEPT ![w] = "settling"]
  /\ UNCHANGED <<rows, held, hand, turn, verdict, sweep>>

(* Mutant: completion statements without the lease token in their WHERE.    *)
MutFenced(w, gap) == gap \in open

(* The fence of _RESOLVE, _COOLDOWN and _RELEASE: own token, lease alive.   *)
Fenced(w, gap) ==
  /\ lease[gap] = w
  /\ gap \notin expired
  /\ gap \in open

LetGo(gap) ==
  /\ lease' = [lease EXCEPT ![gap] = None]
  /\ expired' = expired \ {gap}

ResolveGap(gap) ==
  /\ LetGo(gap)
  /\ open' = open \ {gap}
  /\ UNCHANGED <<attempts, resting>>

CoolDownGap(gap) ==
  /\ LetGo(gap)
  /\ resting' = resting \cup {gap}
  /\ UNCHANGED <<open, attempts>>

(* Mutant: the cap is off by one.                                           *)
MutReleaseGap(gap) ==
  /\ LetGo(gap)
  /\ attempts' = [attempts EXCEPT ![gap] = @ + 1]
  /\ IF attempts[gap] + 1 > MaxAttempts
       THEN open' = open \ {gap} /\ UNCHANGED resting
       ELSE resting' = resting \cup {gap} /\ UNCHANGED open

(* Backoff, or the end of the row after the last attempt.                   *)
ReleaseGap(gap) ==
  /\ LetGo(gap)
  /\ attempts' = [attempts EXCEPT ![gap] = @ + 1]
  /\ IF attempts[gap] + 1 >= MaxAttempts
       THEN open' = open \ {gap} /\ UNCHANGED resting
       ELSE resting' = resting \cup {gap} /\ UNCHANGED open

(* Mutant: the gap is let go and the worker keeps going on it.              *)
MutGoIdle(w) ==
  /\ hand' = [hand EXCEPT ![w] = None]
  /\ turn' = [turn EXCEPT ![w] = 1]
  /\ verdict' = [verdict EXCEPT ![w] = None]
  /\ UNCHANGED pc

GoIdle(w) ==
  /\ pc' = [pc EXCEPT ![w] = "idle"]
  /\ hand' = [hand EXCEPT ![w] = None]
  /\ turn' = [turn EXCEPT ![w] = 1]
  /\ verdict' = [verdict EXCEPT ![w] = None]

(* The settling UPDATE; it touches no row when the fence fails, and nobody  *)
(* looks at how many rows it touched.                                       *)
Settle(w) ==
  /\ pc[w] = "settling"
  /\ LET gap == hand[w]
         how == verdict[w][1]
     IN \/ Fenced(w, gap) /\ how = "resolve"  /\ ResolveGap(gap)
        \/ Fenced(w, gap) /\ how = "cooldown" /\ CoolDownGap(gap)
        \/ Fenced(w, gap) /\ how = "release"  /\ ReleaseGap(gap)
        \/ ~Fenced(w, gap) /\ UNCHANGED rows
  /\ GoIdle(w)
  /\ UNCHANGED <<held, logged, sweep>>

Crash(w) ==
  /\ pc[w] # "idle"
  /\ GoIdle(w)
  /\ UNCHANGED <<rows, held, logged, sweep>>

------------------------------------------------------------------------------
(* Time.                                                                    *)
LeaseExpires(gap) ==
  /\ lease[gap] # None
  /\ gap \notin expired
  /\ expired' = expired \cup {gap}
  /\ UNCHANGED <<open, attempts, lease, resting, held, logged, worker, sweep>>

RestEnds(gap) ==
  /\ gap \in resting
  /\ resting' = resting \ {gap}
  /\ UNCHANGED <<open, attempts, lease, expired, held, logged, worker, sweep>>

Work(w) ==
  \/ Claim(w) \/ SourceDeclines(w) \/ RunsOut(w) \/ SourceEnds(w)
  \/ SourceAnswers(w) \/ WriteClaims(w) \/ WriteDerived(w)
  \/ RecordAttempt(w) \/ Settle(w)

Sweep == BeginSweep \/ (\E f \in Facts : ReadFact(f)) \/ PersistGaps

Next ==
  \/ Sweep
  \/ \E w \in Workers : Work(w) \/ Crash(w)
  \/ \E g \in Gaps : LeaseExpires(g) \/ RestEnds(g)

Spec == Init /\ [][Next]_vars

(* The scheduler runs the sweep and every fill worker forever, and time     *)
(* passes.  A source that is asked again and again answers some time.       *)
(* A worker may die any number of times, but not for ever.                  *)
Fairness ==
  /\ <>[][\A w \in Workers : ~Crash(w)]_vars
  /\ WF_vars(Sweep)
  /\ \A w \in Workers : WF_vars(Work(w)) /\ SF_vars(SourceAnswers(w))
  /\ \A g \in Gaps : WF_vars(LeaseExpires(g)) /\ WF_vars(RestEnds(g))

FairSpec == Spec /\ Fairness

------------------------------------------------------------------------------
(* What a row may look like, whoever wrote it last: an open gap has an      *)
(* attempt left, only open gaps are leased or resting, never both, so a     *)
(* backoff cannot be cut short and a closed gap cannot block its successor  *)
(* (_RELEASE's cap, the completion statements of fill/pipeline.py).         *)
RowsConsistent ==
  /\ \A g \in open : attempts[g] < MaxAttempts
  /\ \A g \in resting : g \in open /\ lease[g] = None
  /\ \A g \in Gaps : lease[g] # None => g \in open
  /\ \A g \in expired : lease[g] # None

(* A worker whose lease ran out never touches the gap its replacement works *)
(* on: while a lease is alive nothing about the row changes but by the      *)
(* settling of the worker that holds it (the fence of the completions).     *)
SettledBy(w, gap) == pc[w] = "settling" /\ hand[w] = gap /\ pc'[w] = "idle"

RowKept(gap) ==
  /\ lease'[gap] = lease[gap]
  /\ attempts'[gap] = attempts[gap]
  /\ gap \in open' <=> gap \in open
  /\ gap \in resting' <=> gap \in resting

HolderStep ==
  \A g \in Gaps : lease[g] # None /\ g \notin expired =>
                    SettledBy(lease[g], g) \/ RowKept(g)

HolderOwnsRow == [][HolderStep]_vars

(* Nothing happens to a gap that its attempts do not explain: no failure is *)
(* charged, no backoff set and no settling tried before an attempt is       *)
(* recorded, and none is recorded as filled unless a claim is held          *)
(* (fill_gap: always records an attempt, never fabricates).                 *)
AttemptsExplain ==
  /\ \A g \in open : attempts[g] > 0 \/ g \in resting => g \in logged
  /\ \A w \in Workers : pc[w] = "settling" /\ Fenced(w, hand[w])
                           => hand[w] \in logged
  /\ \A w \in Workers :
       pc[w] \in {"recording", "settling"} /\ verdict[w][2] = "filled"
         => held[hand[w][1]] # {}

(* Every fact that some source can supply, no better candidate of which     *)
(* ends the attempt before it is asked, is covered in the end, whatever     *)
(* workers die, leases run out and attempts fail.                           *)
Suppliable(fact) ==
  \E i \in 1..Len(Candidates[fact]) :
    /\ Answers[Candidates[fact][i]] \cap {"data", "derives"} # {}
    /\ \A j \in 1..(i - 1) : Answers[Candidates[fact][j]] = {"declines"}

SuppliableGetsCovered ==
  \A f \in Facts : Suppliable(f) => <>(held[f] # {})

(* A gap that no source fills is given up: pipeline.py says so of a gap     *)
(* whose sources stay unreachable (_RELEASE: resolved rather than retried   *)
(* forever) and of one whose source has nothing (recording it stops the gap *)
(* being re-attempted forever).  The sweep opens a new row whose attempts   *)
(* start from nothing, so neither is.                                       *)
WorkedOn(fact) == \E w \in Workers : pc[w] # "idle" /\ hand[w][1] = fact

Hopeless(fact) ==
  \A i \in 1..Len(Candidates[fact]) :
    Answers[Candidates[fact][i]] \subseteq {"declines", "fails", "empty", "abstains"}

HopelessGapIsGivenUp == \A f \in Facts : Hopeless(f) => <>[]~WorkedOn(f)
==============================================================================
