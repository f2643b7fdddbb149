------------------------------ MODULE Conviction -------------------------------
(***************************************************************************)
(* The calls of one (entity, method, audience) key, from the pass that     *)
(* makes them to the finding that reports them and the outcome that scores *)
(* them (conviction/ledger.py, scheduler/worker.py, autonomous/backfill.py)*)
(* and the processes that run those passes: one scheduler, by a session    *)
(* lock in the database (scheduler/singleton.py), that the process may     *)
(* lose without noticing.                                                  *)
(*                                                                         *)
(* Predictions are numbered by created_at: the replayed ones of the        *)
(* backfill lie before the live ones.  A price path decides a prediction   *)
(* one way or the other (which way is data); what matters is whether the   *)
(* window holds any price, and which pass looks when.                      *)
(***************************************************************************)
EXTENDS Naturals, FiniteSets, FiniteSetsExt

CONSTANTS
  Schedulers,   \* processes of omni.scheduler
  Frail,        \* bound: those whose lease connection may die
  Live,         \* calls the predict pass may make
  Replayed,     \* calls the backfill replays
  MaxCalls,     \* bound: how many of them are made in one behaviour
  MaxRivals,    \* bound: passes under way at once while two processes run
  None

Predictions == Live \cup Replayed
Resolvers == Schedulers \X {"loop", "backfill"}

ASSUME ConvictionAssumption ==
  /\ Frail \subseteq Schedulers
  /\ Predictions \subseteq Nat
  /\ Live \cap Replayed = {}
  /\ None \notin Predictions \cup Schedulers
  /\ MaxCalls \in Nat /\ MaxRivals \in Nat

VARIABLES
  mode,       \* where each process is between its start and its exit
  lease,      \* the process whose session holds the singleton lock
  lost,       \* a lease connection died under a running scheduler (history)
  outcome,    \* prediction.outcome; "none" before the row exists
  window,     \* the prediction's window: still open, or past its horizon
              \* with or without a price in it
  findings,   \* how many findings each prediction has
  predicting, \* processes whose predict pass found no pending call
  assessing,  \* the prediction each surface pass is assessing
  due,        \* what each resolver has left of its list of due predictions
  backfill    \* where each process's backfill is

lifecycle == <<mode, lease, lost>>
ledger    == <<outcome, findings>>
passes    == <<predicting, assessing, due, backfill>>
vars      == <<lifecycle, ledger, window, passes>>

Running(s) == mode[s] # "down"

TypeOK ==
  /\ mode \in [Schedulers -> {"down", "starting", "up", "stopping"}]
  /\ lease \in Schedulers \cup {None} /\ lost \in BOOLEAN
  /\ outcome \in [Predictions -> {"none", "pending", "hit", "miss"}]
  /\ window \in [Predictions -> {"open", "empty", "priced"}]
  /\ findings \in [Predictions -> Nat]
  /\ predicting \subseteq Schedulers
  /\ assessing \in [Schedulers -> Predictions \cup {None}]
  /\ due \in [Resolvers -> SUBSET Predictions]
  /\ backfill \in [Schedulers -> {"waiting", "replaying", "resolving", "over"}]
  /\ \A s \in Schedulers : ~Running(s) =>
       s \notin predicting /\ assessing[s] = None /\ backfill[s] = "waiting"

Init ==
  /\ mode = [s \in Schedulers |-> "down"]
  /\ lease = None /\ lost = FALSE
  /\ outcome = [p \in Predictions |-> "none"]
  /\ window = [p \in Predictions |-> "open"]
  /\ findings = [p \in Predictions |-> 0]
  /\ predicting = {}
  /\ assessing = [s \in Schedulers |-> None]
  /\ due = [r \in Resolvers |-> {}]
  /\ backfill = [s \in Schedulers |-> "waiting"]

--------------------------------------------------------------------------------
(* The process.                                                             *)

(* acquire_scheduler_singleton: without the lock the process exits.         *)
Acquire(s) ==
  /\ mode[s] = "down" /\ lease = None
  /\ mode' = [mode EXCEPT ![s] = "starting"]
  /\ lease' = s
  /\ UNCHANGED <<lost, ledger, window, passes>>

(* start() has made its first passes; only now is the lease watched and the *)
(* backfill started.                                                        *)
WatchLease(s) ==
  /\ mode[s] = "starting"
  /\ mode' = [mode EXCEPT ![s] = "up"]
  /\ UNCHANGED <<lease, lost, ledger, window, passes>>

(* The lease connection dies: the lock is free, the passes go on.           *)
LeaseDies(s) ==
  /\ lease = s /\ s \in Frail
  /\ lease' = None
  /\ lost' = TRUE
  /\ UNCHANGED <<mode, ledger, window, passes>>

(* A signal, or a probe of the lease that does not answer in time.          *)
Stop(s) ==
  /\ mode[s] = "up"
  /\ mode' = [mode EXCEPT ![s] = "stopping"]
  /\ UNCHANGED <<lease, lost, ledger, window, passes>>

(* Mutant: the probe goes to the pool, where some connection answers.       *)
MutVerifyFails(s) == FALSE

(* verify() of a connection that is gone.                                   *)
VerifyFails(s) == lease # s

LeaseWatchdog(s) == VerifyFails(s) /\ Stop(s)

(* Mutant: the backfill task is not among those that are cancelled.         *)
MutPassesEnd(s) ==
  /\ predicting' = predicting \ {s}
  /\ assessing' = [assessing EXCEPT ![s] = None]
  /\ due' = [r \in Resolvers |-> IF r[1] = s THEN {} ELSE due[r]]
  /\ UNCHANGED backfill

(* Every pass of the process ends where it stands, and an open transaction  *)
(* rolls back.                                                              *)
PassesEnd(s) ==
  /\ predicting' = predicting \ {s}
  /\ assessing' = [assessing EXCEPT ![s] = None]
  /\ due' = [r \in Resolvers |-> IF r[1] = s THEN {} ELSE due[r]]
  /\ backfill' = [backfill EXCEPT ![s] = "waiting"]

(* Mutant: the lease is given up before the passes are cancelled.           *)
MutShutDown(s) ==
  /\ mode[s] = "stopping"
  /\ IF lease = s
       THEN lease' = None /\ UNCHANGED <<mode, passes>>
       ELSE mode' = [mode EXCEPT ![s] = "down"] /\ PassesEnd(s) /\ UNCHANGED lease
  /\ UNCHANGED <<lost, ledger, window>>

(* scheduler.stop(), then singleton.release(): the passes have ended before *)
(* the lease is free.                                                       *)
ShutDown(s) ==
  /\ mode[s] = "stopping"
  /\ mode' = [mode EXCEPT ![s] = "down"]
  /\ lease' = IF lease = s THEN None ELSE lease
  /\ PassesEnd(s)
  /\ UNCHANGED <<lost, ledger, window>>

(* The process dies, and its sessions with it.                              *)
Crash(s) ==
  /\ mode[s] # "down"
  /\ mode' = [mode EXCEPT ![s] = "down"]
  /\ lease' = IF lease = s THEN None ELSE lease
  /\ PassesEnd(s)
  /\ UNCHANGED <<lost, ledger, window>>

(* A pass may begin.                                                        *)
UnderWay == Cardinality(predicting)
            + Cardinality({s \in Schedulers : assessing[s] # None})
            + Cardinality({s \in Schedulers : due[<<s, "loop">>] # {}})
            + Cardinality({s \in Schedulers : backfill[s] \in {"replaying", "resolving"}})

MayBegin(s) ==
  /\ Running(s)
  /\ (\A r \in Schedulers \ {s} : ~Running(r)) \/ UnderWay < MaxRivals

--------------------------------------------------------------------------------
(* predict_once.                                                            *)
Pending == {p \in Predictions : outcome[p] = "pending"}
Written == {p \in Predictions : outcome[p] # "none"}
Resolved == {p \in Predictions : outcome[p] \in {"hit", "miss"}}

(* Mutant: a call past its horizon does not count.                          *)
MutNothingPending == \A p \in Pending : window[p] # "open"

(* The query reads no provenance: a replayed call stands in the way too.    *)
NothingPending == Pending = {}

CheckPending(s) ==
  /\ MayBegin(s) /\ s \notin predicting
  /\ NothingPending
  /\ predicting' = predicting \cup {s}
  /\ UNCHANGED <<lifecycle, ledger, window, assessing, due, backfill>>

Write(p, ends) ==
  /\ outcome[p] = "none"
  /\ Cardinality(Written) < MaxCalls
  /\ outcome' = [outcome EXCEPT ![p] = "pending"]
  /\ window' = [window EXCEPT ![p] = ends]
  /\ UNCHANGED <<findings>>

(* The producer records its call, or abstains.                              *)
Produce(s) ==
  /\ Running(s) /\ s \in predicting
  /\ predicting' = predicting \ {s}
  /\ (\E p \in Live : (\A q \in Written : q < p) /\ Write(p, "open"))
     \/ UNCHANGED <<ledger, window>>
  /\ UNCHANGED <<lifecycle, assessing, due, backfill>>

--------------------------------------------------------------------------------
(* surface_once.                                                            *)
Unassessed == {p \in Written : findings[p] = 0}

SelectUnassessed(s) ==
  /\ MayBegin(s) /\ assessing[s] = None
  /\ Unassessed # {}
  /\ assessing' = [assessing EXCEPT ![s] = Max(Unassessed)]
  /\ UNCHANGED <<lifecycle, ledger, window, predicting, due, backfill>>

(* The verdict of the gate is recorded either way, surfaced or refused.     *)
RecordFinding(s) ==
  /\ Running(s) /\ assessing[s] # None
  /\ findings' = [findings EXCEPT ![assessing[s]] = @ + 1]
  /\ assessing' = [assessing EXCEPT ![s] = None]
  /\ UNCHANGED <<lifecycle, outcome, window, predicting, due, backfill>>

--------------------------------------------------------------------------------
(* resolve_due_predictions, by the resolve loop and at the end of a         *)
(* backfill: the due predictions are listed first, then each row is locked, *)
(* decided and updated in a transaction of its own.                         *)
MayResolve(r) ==
  /\ Running(r[1])
  /\ r[2] = "backfill" => backfill[r[1]] = "resolving"

(* Mutant: replayed calls are left out, as they are of the live count.      *)
MutDue == {p \in Live \cap Pending : window[p] # "open"}

Due == {p \in Pending : window[p] # "open"}

ReadDue(r) ==
  /\ MayResolve(r) /\ (r[2] = "loop" => MayBegin(r[1])) /\ due[r] = {} /\ Due # {}
  /\ due' = [due EXCEPT ![r] = Due]
  /\ UNCHANGED <<lifecycle, ledger, window, predicting, assessing, backfill>>

(* Mutant: the row is locked by its id alone.                               *)
MutLockable(p) == TRUE

(* WHERE id = $1 AND outcome = 'pending' FOR UPDATE SKIP LOCKED: the lock   *)
(* lasts to the end of the transaction, which is therefore one step.        *)
Lockable(p) == outcome[p] = "pending"

(* A window without a price leaves the call pending.                        *)
DecideOutcome(p) == IF window[p] = "priced" THEN {"hit", "miss"} ELSE {"pending"}

ResolveOne(r) ==
  /\ MayResolve(r) /\ due[r] # {}
  /\ LET p == Min(due[r])
     IN /\ IF Lockable(p)
             THEN \E o \in DecideOutcome(p) : outcome' = [outcome EXCEPT ![p] = o]
             ELSE UNCHANGED outcome
        /\ due' = [due EXCEPT ![r] = @ \ {p}]
  /\ UNCHANGED <<lifecycle, findings, window, predicting, assessing, backfill>>

--------------------------------------------------------------------------------
(* backfill_trend_predictions, once per process.                            *)
MayBackfill(s) == mode[s] \in {"up", "stopping"}

(* An entity whose oldest prediction reaches back to the start of the       *)
(* lookback is skipped, whether or not its replay was finished.             *)
StartBackfill(s) ==
  /\ MayBackfill(s) /\ MayBegin(s) /\ backfill[s] = "waiting"
  /\ backfill' = [backfill EXCEPT ![s] =
       IF \E p \in Replayed \cap Written : p = Min(Replayed)
         THEN "resolving" ELSE "replaying"]
  /\ UNCHANGED <<lifecycle, ledger, window, predicting, assessing, due>>

(* Oldest first; the producer may abstain at a step.  A replayed call's     *)
(* horizon already lies in the past.                                        *)
Replay(s) ==
  /\ MayBackfill(s) /\ backfill[s] = "replaying"
  /\ \E p \in Replayed, ends \in {"empty", "priced"} :
       /\ \A q \in Replayed \cap Written : q < p
       /\ Write(p, ends)
  /\ UNCHANGED <<lifecycle, passes>>

EndReplay(s) ==
  /\ MayBackfill(s) /\ backfill[s] = "replaying"
  /\ backfill' = [backfill EXCEPT ![s] = "resolving"]
  /\ UNCHANGED <<lifecycle, ledger, window, predicting, assessing, due>>

EndBackfill(s) ==
  /\ MayBackfill(s) /\ backfill[s] = "resolving" /\ due[<<s, "backfill">>] = {}
  /\ backfill' = [backfill EXCEPT ![s] = "over"]
  /\ UNCHANGED <<lifecycle, ledger, window, predicting, assessing, due>>

--------------------------------------------------------------------------------
(* The horizon passes over a window with or without a price in it.          *)
HorizonPasses(p, ends) ==
  /\ outcome[p] = "pending" /\ window[p] = "open"
  /\ window' = [window EXCEPT ![p] = ends]
  /\ UNCHANGED <<lifecycle, ledger, passes>>

(* The ingest brings a price for a window that held none.                   *)
PriceArrives(p) ==
  /\ window[p] = "empty"
  /\ window' = [window EXCEPT ![p] = "priced"]
  /\ UNCHANGED <<lifecycle, ledger, passes>>

--------------------------------------------------------------------------------
Interrupt(s) == LeaseDies(s) \/ Stop(s) \/ Crash(s)

Lifecycle(s) ==
  Acquire(s) \/ WatchLease(s) \/ LeaseWatchdog(s) \/ ShutDown(s)

Predict(s) == CheckPending(s) \/ Produce(s)
Surface(s) == SelectUnassessed(s) \/ RecordFinding(s)
Resolve(r) == ReadDue(r) \/ ResolveOne(r)
Backfill(s) == StartBackfill(s) \/ Replay(s) \/ EndReplay(s) \/ EndBackfill(s)

Next ==
  \/ \E s \in Schedulers :
       Lifecycle(s) \/ Interrupt(s) \/ Predict(s) \/ Surface(s) \/ Backfill(s)
  \/ \E r \in Resolvers : Resolve(r)
  \/ \E p \in Predictions, ends \in {"empty", "priced"} : HorizonPasses(p, ends)
  \/ \E p \in Predictions : PriceArrives(p)

Spec == Init /\ [][Next]_vars

(* The supervisor restarts a process that exited, the watchdog probes every *)
(* 30 s, a pass runs again after its interval and finishes, and sooner or   *)
(* later nothing interrupts the processes any more.                         *)
Fairness ==
  /\ \A s \in Schedulers : WF_vars(Lifecycle(s)) /\ WF_vars(Resolve(<<s, "loop">>))
  /\ <>[][\A s \in Schedulers :
             ~(LeaseDies(s) \/ (lease = s /\ Stop(s)) \/ Crash(s))]_vars

FairSpec == Spec /\ Fairness

--------------------------------------------------------------------------------
(* Two processes work at the same time only after a lease connection died:  *)
(* a signal, a crash, a probe that times out or a restart in between never  *)
(* brings a successor up before the passes of the first have ended (A12).   *)
AloneUnlessLeaseLost ==
  ~lost => Cardinality({s \in Schedulers : Running(s)}) <= 1

(* One scheduler has one live call open at a time and makes one finding per *)
(* prediction.  The tables constrain neither; both are a read followed by a *)
(* write, and hold across any crash and restart ("replicas:1 plus the       *)
(* read-then-write guard already hold it", migration 029; surface_once,     *)
(* "never duplicates a finding").                                           *)
NothingDoubled ==
  ~lost => /\ Cardinality(Pending \cap Live) <= 1
           /\ \A p \in Predictions : findings[p] <= 1

(* An outcome is written once, and only from a window that is over and has  *)
(* a price in it, whichever of the resolvers gets there from however old a  *)
(* list (_resolve_one).                                                     *)
OutcomesAreFinal ==
  [][\A p \in Predictions :
       outcome'[p] # outcome[p] =>
         \/ outcome[p] = "none" /\ outcome'[p] = "pending"
         \/ outcome[p] = "pending" /\ window[p] = "priced"]_vars

(* In the end one process holds the lease and runs alone: one that lost it  *)
(* stops by itself (lease_watchdog), whatever it was doing.                 *)
SettlesOnOneScheduler ==
  <>[](\E s \in Schedulers :
         /\ lease = s /\ mode[s] = "up"
         /\ \A r \in Schedulers \ {s} : mode[r] = "down")

(* Every call whose window is over and shows a price is scored in the end,  *)
(* replayed ones too, whichever process died with it on its list.           *)
DueCallsAreScored ==
  []<>(\A p \in Predictions : window[p] = "priced" => p \in Resolved)

================================================================================
