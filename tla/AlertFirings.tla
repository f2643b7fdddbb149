----------------------------- MODULE AlertFirings ------------------------------
(***************************************************************************)
(* One alert (alerts/rules.py evaluate, scheduler/worker.py                *)
(* evaluate_alerts_once) over the notification queue it feeds: claims      *)
(* become visible in any order, the passes that evaluate the alert read    *)
(* what it has, and record what newly crosses together with the row that   *)
(* tells its owner.  Two passes may overlap: a scheduler that lost its     *)
(* lease runs on for a while beside its successor.                         *)
(*                                                                         *)
(* The condition is a level: a claim holds it or not.  Claims are numbered *)
(* by knowledge date.  The owner has one delivery channel.                 *)
(***************************************************************************)
EXTENDS DeliveryQueue

CONSTANTS
  Claims,      \* the claims about the watched fact, by knowledge date
  Publisher,   \* for each claim, its source
  Above,       \* the claims whose value is past the threshold
  Evaluators   \* the scheduler processes that evaluate alerts

ASSUME AlertFiringsAssumption ==
  /\ Claims \subseteq Nat
  /\ Above \subseteq Claims
  /\ DOMAIN Publisher = Claims

VARIABLES
  visible,  \* claims the owner can see
  fired,    \* alert_firing
  active,   \* alert.active
  oneShot,  \* alert.one_shot
  demanded, \* demand rows the alert raised
  carries,  \* for each row of the queue, the firings it tells of
  at,       \* where each evaluation is
  found,    \* the claims that satisfy the condition, then the candidates
  already   \* what the evaluation read of alert_firing

alert  == <<visible, fired, active, oneShot, demanded, carries>>
evaluation == <<at, found, already>>
vars   == <<queue, alert, evaluation>>

TypeOK ==
  /\ QueueTypeOK
  /\ visible \subseteq Claims /\ fired \subseteq Claims
  /\ active \in BOOLEAN /\ oneShot \in BOOLEAN
  /\ demanded \in Nat
  /\ carries \in [Notes -> SUBSET Claims]
  /\ at \in [Evaluators -> {"idle", "armed", "satisfied", "firing"}]
  /\ found \in [Evaluators -> SUBSET Claims]
  /\ already \in [Evaluators -> SUBSET Claims]
  /\ \A e \in Evaluators : at[e] = "firing" => found[e] # {}

Init ==
  /\ QueueInit
  /\ visible = {} /\ fired = {}
  /\ active = TRUE /\ oneShot \in BOOLEAN
  /\ demanded = 0
  /\ carries = [n \in Notes |-> {}]
  /\ at = [e \in Evaluators |-> "idle"]
  /\ found = [e \in Evaluators |-> {}]
  /\ already = [e \in Evaluators |-> {}]

--------------------------------------------------------------------------------
ClaimArrives(c) ==
  /\ c \notin visible
  /\ visible' = visible \cup {c}
  /\ UNCHANGED <<queue, fired, active, oneShot, demanded, carries, evaluation>>

(* PATCH /alerts: the owner disarms the alert or arms it again.             *)
OwnerSets(on) ==
  /\ active # on
  /\ active' = on
  /\ UNCHANGED <<queue, visible, fired, oneShot, demanded, carries, evaluation>>

(* _crossings, source by source: a claim that holds and whose predecessor   *)
(* does not.                                                                *)
Crossings(claims) ==
  {c \in claims \cap Above :
     LET before == {d \in claims : Publisher[d] = Publisher[c] /\ d < c}
     IN before = {} \/ Max(before) \notin Above}

Abandon(e) ==
  /\ at' = [at EXCEPT ![e] = "idle"]
  /\ found' = [found EXCEPT ![e] = {}]
  /\ already' = [already EXCEPT ![e] = {}]

(* The pass fetches the active alerts.                                      *)
ReadAlert(e) ==
  /\ at[e] = "idle" /\ active
  /\ at' = [at EXCEPT ![e] = "armed"]
  /\ UNCHANGED <<queue, alert, found, already>>

(* visible_claims, and the condition over them.                             *)
ReadClaims(e) ==
  /\ at[e] = "armed"
  /\ IF Crossings(visible) = {}
       THEN Abandon(e)
       ELSE /\ found' = [found EXCEPT ![e] = Crossings(visible)]
            /\ at' = [at EXCEPT ![e] = "satisfied"]
            /\ UNCHANGED already
  /\ UNCHANGED <<queue, alert>>

(* Mutant: the transaction is opened for no candidate at all.               *)
MutReadFired(e) ==
  /\ at[e] = "satisfied"
  /\ found' = [found EXCEPT ![e] = @ \ fired]
  /\ already' = [already EXCEPT ![e] = fired]
  /\ at' = [at EXCEPT ![e] = "firing"]
  /\ UNCHANGED <<queue, alert>>

(* Mutant: an alert that has fired is skipped, not the claims it fired on.  *)
MutReadFiredOnce(e) ==
  /\ at[e] = "satisfied"
  /\ IF fired # {}
       THEN Abandon(e)
       ELSE /\ at' = [at EXCEPT ![e] = "firing"]
            /\ UNCHANGED <<found, already>>
  /\ UNCHANGED <<queue, alert>>

(* The claims already recorded are skipped.                                 *)
ReadFired(e) ==
  /\ at[e] = "satisfied"
  /\ IF found[e] \subseteq fired
       THEN Abandon(e)
       ELSE /\ found' = [found EXCEPT ![e] = @ \ fired]
            /\ already' = [already EXCEPT ![e] = fired]
            /\ at' = [at EXCEPT ![e] = "firing"]
  /\ UNCHANGED <<queue, alert>>

(* Mutant: every candidate counts as new, recorded by a rival or not.       *)
MutNewFirings(e) == found[e]

(* INSERT ... ON CONFLICT DO NOTHING RETURNING.                             *)
NewFirings(e) == found[e] \ fired

(* The transaction: the firings, the demand of a first firing, the row of   *)
(* the queue and the disarming of a one-shot alert, all or nothing.         *)
Fire(e) ==
  /\ at[e] = "firing"
  /\ LET new == NewFirings(e)
     IN IF new = {}
          THEN UNCHANGED <<queue, alert>>
          ELSE /\ fired' = fired \cup new
               /\ demanded' = IF already[e] = {} THEN demanded + 1 ELSE demanded
               /\ Insert(Min(Fresh))
               /\ carries' = [carries EXCEPT ![Min(Fresh)] = new]
               /\ active' = IF oneShot THEN FALSE ELSE active
               /\ UNCHANGED <<visible, oneShot>>
  /\ Abandon(e)

(* The evaluation raises or its process dies: nothing was written.          *)
Abort(e) ==
  /\ at[e] # "idle"
  /\ crashes < MaxCrashes
  /\ crashes' = crashes + 1
  /\ Abandon(e)
  /\ UNCHANGED <<row, worker, accepted, lapses, alert>>

Evaluate(e) == ReadAlert(e) \/ ReadClaims(e) \/ ReadFired(e) \/ Fire(e)

Next ==
  \/ \E c \in Claims : ClaimArrives(c)
  \/ \E on \in BOOLEAN : OwnerSets(on)
  \/ \E e \in Evaluators : Evaluate(e) \/ Abort(e)
  \/ QueueStep /\ UNCHANGED <<alert, evaluation>>

Spec == Init /\ [][Next]_vars

(* Every pass runs again after its interval, and each of its steps ends.    *)
FairSpec == Spec /\ QueueFairness /\ \A e \in Evaluators : WF_vars(Evaluate(e))

--------------------------------------------------------------------------------
(* No firing without the row that tells its owner, and none told of twice:  *)
(* the record and the row commit together, and of two evaluations that race *)
(* for a claim only the one that recorded it queues it (audit A09).         *)
EachFiringQueuedOnce ==
  /\ \A c \in fired : Cardinality({n \in Notes : c \in carries[n]}) = 1
  /\ \A n \in Notes : carries[n] \subseteq fired
                      /\ (carries[n] # {} <=> n \notin Fresh)

(* A claim that crosses fires, unless the alert is disarmed or a claim that *)
(* arrives late makes it no crossing after all.                             *)
CrossingFires ==
  \A c \in Claims :
    c \in Crossings(visible) ~> \/ c \in fired
                                \/ ~active
                                \/ c \notin Crossings(visible)

(* What fired is dealt with in the end: the row that tells of it is         *)
(* delivered or given up, however the passes that find and send it fall.    *)
FiringIsSettled ==
  \A c \in Claims :
    c \in fired ~> \E n \in Notes : c \in carries[n] /\ status[n] # "pending"

================================================================================
