----------------------------- MODULE DeliveryQueue -----------------------------
(***************************************************************************)
(* The notification queue (alerts/notify.py): rows of notification_delivery *)
(* worked by process_delivery_queue.  A row is claimed in a transaction of *)
(* its own, which counts the attempt and hides the row for a lease; the    *)
(* message is sent outside any transaction; the outcome is written by a    *)
(* statement fenced on the attempt count.  Between those steps the worker  *)
(* may die, or the lease may lapse and another worker take the row.        *)
(*                                                                         *)
(* The clock is kept as three facts of a row: whether next_attempt_at is   *)
(* still to come and why, and whether the row has passed the delivery      *)
(* window (DELIVERY_TTL) and the retention.  Rows are numbered in the      *)
(* order they were created.  What they say and where they go is left out.  *)
(***************************************************************************)
EXTENDS Naturals, FiniteSets, FiniteSetsExt

CONSTANTS
  Notes,        \* the rows the queue may come to hold: 1..n
  Workers,      \* the processes that work the queue
  MaxAttempts,  \* MAX_DELIVERY_ATTEMPTS
  Batch,        \* DELIVERY_BATCH
  MaxCrashes,   \* bound: how often a worker dies in a pass
  MaxLapses,    \* bound: how often a lease lapses under a worker still sending
  MaxAge        \* bound: 2 where rows outlive window and retention, else less

ASSUME DeliveryQueueAssumption ==
  /\ Notes \subseteq Nat \ {0}
  /\ IsFiniteSet(Workers)
  /\ MaxAttempts \in Nat \ {0}
  /\ Batch \in Nat \ {0}
  /\ MaxCrashes \in Nat /\ MaxLapses \in Nat
  /\ MaxAge \in 0..2

VARIABLES
  status,    \* of the row; "absent" before its INSERT and after its DELETE
  purged,    \* rows that were deleted
  attempts,  \* attempts counted on the row
  wait,      \* why next_attempt_at is still to come: "lease", "backoff", "no"
  age,       \* 0 in the delivery window, 1 past it, 2 past the retention
  pc,        \* where each worker is in process_delivery_queue
  due,       \* the rows due from the moment its pass began
  left,      \* claims left in its batch
  hand,      \* the row it claimed, or 0
  token,     \* the attempt count it holds that row under
  accepted,  \* history: the rows whose message the channel has taken
  crashes,   \* crashes so far
  lapses     \* lapses under a live sender so far

row    == <<status, purged, attempts, wait, age>>
worker == <<pc, due, left, hand, token>>
counts == <<accepted, crashes, lapses>>
queue  == <<row, worker, counts>>

Statuses == {"absent", "pending", "delivered", "failed"}
PCs      == {"idle", "purging", "claiming", "sending", "sent", "refused"}
Holding  == {"sending", "sent", "refused"}

QueueTypeOK ==
  /\ status \in [Notes -> Statuses]
  /\ purged \subseteq Notes
  /\ attempts \in [Notes -> Nat]
  /\ wait \in [Notes -> {"no", "lease", "backoff"}]
  /\ age \in [Notes -> 0..2]
  /\ pc \in [Workers -> PCs]
  /\ due \in [Workers -> SUBSET Notes]
  /\ left \in [Workers -> 0..Batch]
  /\ hand \in [Workers -> Notes \cup {0}]
  /\ token \in [Workers -> Nat]
  /\ accepted \subseteq Notes
  /\ crashes \in 0..MaxCrashes /\ lapses \in 0..MaxLapses
  /\ \A w \in Workers : pc[w] \in Holding => hand[w] \in Notes

QueueInit ==
  /\ status = [n \in Notes |-> "absent"]
  /\ purged = {}
  /\ attempts = [n \in Notes |-> 0]
  /\ wait = [n \in Notes |-> "no"]
  /\ age = [n \in Notes |-> 0]
  /\ pc = [w \in Workers |-> "idle"]
  /\ due = [w \in Workers |-> {}]
  /\ left = [w \in Workers |-> 0]
  /\ hand = [w \in Workers |-> 0]
  /\ token = [w \in Workers |-> 0]
  /\ accepted = {}
  /\ crashes = 0 /\ lapses = 0

--------------------------------------------------------------------------------
(* dispatch: one INSERT, on the connection and in the transaction of the    *)
(* caller.  Rows get the next number.                                       *)
Fresh     == {n \in Notes : status[n] = "absent" /\ n \notin purged}
Insert(n) ==
  /\ n \in Fresh /\ n = Min(Fresh)
  /\ status' = [status EXCEPT ![n] = "pending"]
  /\ UNCHANGED <<purged, attempts, wait, age, worker, counts>>

(* The start of a pass: its moment, and the UPDATE that expires the rows    *)
(* whose window has passed, claimed or not.                                 *)
BeginPass(w) ==
  /\ pc[w] = "idle"
  /\ pc' = [pc EXCEPT ![w] = "purging"]
  /\ due' = [due EXCEPT ![w] = {n \in Notes : status[n] = "pending"
                                              /\ wait[n] = "no" /\ age[n] = 0}]
  /\ left' = [left EXCEPT ![w] = Batch]
  /\ status' = [n \in Notes |->
                  IF status[n] = "pending" /\ age[n] > 0 THEN "failed"
                  ELSE status[n]]
  /\ UNCHANGED <<purged, attempts, wait, age, hand, token, counts>>

(* The DELETE of the settled rows past the retention.                       *)
Purge(w) ==
  /\ pc[w] = "purging"
  /\ pc' = [pc EXCEPT ![w] = "claiming"]
  /\ LET old == {n \in Notes : status[n] \in {"delivered", "failed"}
                               /\ age[n] = 2}
     IN /\ status' = [n \in Notes |-> IF n \in old THEN "absent" ELSE status[n]]
        /\ purged' = purged \cup old
        /\ attempts' = [n \in Notes |-> IF n \in old THEN 0 ELSE attempts[n]]
        /\ wait' = [n \in Notes |-> IF n \in old THEN "no" ELSE wait[n]]
  /\ UNCHANGED <<age, due, left, hand, token, counts>>

(* Mutant: a row whose attempts are used up is not claimed again.           *)
MutClaimable(w) ==
  {n \in due[w] : status[n] = "pending" /\ attempts[n] < MaxAttempts}

Claimable(w) == {n \in due[w] : status[n] = "pending"}

(* Mutant: the claim does not push next_attempt_at past the pass.           *)
MutClaim(w) ==
  /\ pc[w] = "claiming" /\ left[w] > 0 /\ Claimable(w) # {}
  /\ LET n == Min(Claimable(w))
     IN /\ attempts' = [attempts EXCEPT ![n] = @ + 1]
        /\ hand' = [hand EXCEPT ![w] = n]
        /\ token' = [token EXCEPT ![w] = attempts[n] + 1]
  /\ left' = [left EXCEPT ![w] = @ - 1]
  /\ pc' = [pc EXCEPT ![w] = "sending"]
  /\ UNCHANGED <<status, purged, age, wait, due, counts>>

(* _claim_one_due_row: the oldest row that was due from the moment of the   *)
(* pass; the new next_attempt_at lies past every pass under way.            *)
Claim(w) ==
  /\ pc[w] = "claiming" /\ left[w] > 0 /\ Claimable(w) # {}
  /\ LET n == Min(Claimable(w))
     IN /\ attempts' = [attempts EXCEPT ![n] = @ + 1]
        /\ wait' = [wait EXCEPT ![n] = "lease"]
        /\ due' = [v \in Workers |-> due[v] \ {n}]
        /\ hand' = [hand EXCEPT ![w] = n]
        /\ token' = [token EXCEPT ![w] = attempts[n] + 1]
  /\ left' = [left EXCEPT ![w] = @ - 1]
  /\ pc' = [pc EXCEPT ![w] = "sending"]
  /\ UNCHANGED <<status, purged, age, counts>>

(* Mutant: the worker is not moved on.                                      *)
MutLetGo(w, next) ==
  /\ hand' = [hand EXCEPT ![w] = 0]
  /\ token' = [token EXCEPT ![w] = 0]
  /\ UNCHANGED pc

LetGo(w, next) ==
  /\ pc' = [pc EXCEPT ![w] = next]
  /\ hand' = [hand EXCEPT ![w] = 0]
  /\ token' = [token EXCEPT ![w] = 0]

(* No row is due, or the batch is spent: the pass returns.                  *)
EndPass(w) ==
  /\ pc[w] = "claiming"
  /\ left[w] = 0 \/ Claimable(w) = {}
  /\ LetGo(w, "idle")
  /\ due' = [due EXCEPT ![w] = {}]
  /\ left' = [left EXCEPT ![w] = 0]
  /\ UNCHANGED <<row, counts>>

(* _attempt_delivery.  The channel accepts the message, refuses it, or      *)
(* accepts it and its answer is lost: a timeout is an exception too.        *)
Send(w) ==
  /\ pc[w] = "sending"
  /\ \E taken \in BOOLEAN, answer \in {"sent", "refused"} :
       /\ answer = "sent" => taken
       /\ accepted' = IF taken THEN accepted \cup {hand[w]} ELSE accepted
       /\ pc' = [pc EXCEPT ![w] = answer]
  /\ UNCHANGED <<row, due, left, hand, token, crashes, lapses>>

(* Mutant: the outcome is written whoever has settled the row by now.       *)
MutIsMine(w) == status[hand[w]] # "absent"

(* The fence of the three outcome statements.                               *)
IsMine(w) == status[hand[w]] = "pending" /\ attempts[hand[w]] = token[w]

WriteDelivered(w) ==
  /\ pc[w] = "sent"
  /\ status' = [status EXCEPT ![hand[w]] = IF IsMine(w) THEN "delivered" ELSE @]
  /\ LetGo(w, "claiming")
  /\ UNCHANGED <<purged, attempts, wait, age, due, left, counts>>

(* Mutant: the attempt that failed is not compared with the limit.          *)
MutWriteFailed(w) ==
  /\ pc[w] = "refused"
  /\ wait' = [wait EXCEPT ![hand[w]] = IF IsMine(w) THEN "backoff" ELSE @]
  /\ LetGo(w, "claiming")
  /\ UNCHANGED <<status, purged, attempts, age, due, left, counts>>

(* A failed attempt: the last one settles the row, another one puts it off  *)
(* to a time past every pass under way.                                     *)
WriteFailed(w) ==
  /\ pc[w] = "refused"
  /\ IF token[w] >= MaxAttempts
       THEN /\ status' = [status EXCEPT ![hand[w]] =
                            IF IsMine(w) THEN "failed" ELSE @]
            /\ UNCHANGED <<wait, due>>
       ELSE /\ wait' = [wait EXCEPT ![hand[w]] =
                          IF IsMine(w) THEN "backoff" ELSE @]
            /\ due' = [v \in Workers |->
                          IF IsMine(w) THEN due[v] \ {hand[w]} ELSE due[v]]
            /\ UNCHANGED status
  /\ LetGo(w, "claiming")
  /\ UNCHANGED <<purged, attempts, age, left, counts>>

(* The worker dies or is cancelled, at any point of its pass.               *)
Crash(w) ==
  /\ pc[w] # "idle"
  /\ crashes < MaxCrashes
  /\ crashes' = crashes + 1
  /\ LetGo(w, "idle")
  /\ due' = [due EXCEPT ![w] = {}]
  /\ left' = [left EXCEPT ![w] = 0]
  /\ UNCHANGED <<row, accepted, lapses>>

--------------------------------------------------------------------------------
(* Time.  A lease that lapses under a worker that is still sending is       *)
(* counted, and bounded.                                                    *)
IsHeld(n) == \E w \in Workers : pc[w] \in Holding /\ hand[w] = n
                                /\ token[w] = attempts[n]

Lapse(n) ==
  /\ status[n] = "pending" /\ wait[n] = "lease"
  /\ wait' = [wait EXCEPT ![n] = "no"]
  /\ IF IsHeld(n)
       THEN lapses < MaxLapses /\ lapses' = lapses + 1
       ELSE UNCHANGED lapses
  /\ UNCHANGED <<status, purged, attempts, age, worker, accepted, crashes>>

Elapse(n) ==
  /\ status[n] = "pending" /\ wait[n] = "backoff"
  /\ wait' = [wait EXCEPT ![n] = "no"]
  /\ UNCHANGED <<status, purged, attempts, age, worker, counts>>

(* Older rows pass the window first; the days of the retention are past any *)
(* send or lease.                                                           *)
Ages(n) ==
  /\ status[n] # "absent" /\ age[n] < MaxAge
  /\ \A older \in Notes :
       older < n /\ status[older] # "absent" => age[older] > age[n]
  /\ age[n] = 1 /\ status[n] = "pending" => ~IsHeld(n) /\ wait[n] = "no"
  /\ age' = [age EXCEPT ![n] = @ + 1]
  /\ UNCHANGED <<status, purged, attempts, wait, worker, counts>>

Pass(w) ==
  \/ BeginPass(w) \/ Purge(w) \/ Claim(w) \/ EndPass(w)
  \/ Send(w) \/ WriteDelivered(w) \/ WriteFailed(w)

Clock(n) == Lapse(n) \/ Elapse(n)

QueueStep ==
  \/ \E w \in Workers : Pass(w) \/ Crash(w)
  \/ \E n \in Notes : Clock(n) \/ Ages(n)

(* The scheduler runs the pass again after every interval (and is restarted *)
(* after a crash), every send has a timeout, and the clock runs.            *)
QueueFairness ==
  /\ \A w \in Workers : WF_queue(Pass(w))
  /\ \A n \in Notes : WF_queue(Clock(n))

--------------------------------------------------------------------------------
QueueNext == QueueStep \/ \E n \in Notes : Insert(n)

QueueSpec == QueueInit /\ [][QueueNext]_queue /\ QueueFairness

(* Two workers have the same message in the air only when a lease lapsed    *)
(* under one that was still sending: a pass never takes a row another one   *)
(* is working on (process_delivery_queue, "never send the same notification *)
(* twice inside a pass").                                                   *)
OneSenderUnlessLapsed ==
  \A n \in Notes :
    Cardinality({w \in Workers : pc[w] \in Holding /\ hand[w] = n})
      <= 1 + lapses

(* Retries are bounded: a row is claimed more often than the limit only     *)
(* where a claim came to nothing, because its worker died or lost its lease. *)
AttemptsAreBounded ==
  \A n \in Notes : attempts[n] <= MaxAttempts + crashes + lapses

(* The queue, seen from outside, is an at-least-once queue (notify.py       *)
(* process_delivery_queue, "at-least-once delivery, the honest minimum"):   *)
(* no stale writer settles a row again, and every pending row is settled.   *)
Fate(n) ==
  CASE n \in purged -> "forgotten"
    [] n \in Fresh -> "unknown"
    [] status[n] = "pending" -> "queued"
    [] status[n] = "delivered" -> "delivered"
    [] status[n] = "failed" -> "abandoned"

Promise == INSTANCE AtLeastOnce WITH fate <- [n \in Notes |-> Fate(n)]

DeliversAtLeastOnce == Promise!Spec
QueuedIsSettled     == Promise!Settled

================================================================================
