------------------------------ MODULE AtLeastOnce ------------------------------
(***************************************************************************)
(* What a queue of notifications promises: a note that was queued is       *)
(* settled in the end, it counts as delivered only when its channel has    *)
(* accepted it at least once, and a settled note is never settled again.   *)
(* A channel may accept a note more than once, and even after the queue    *)
(* gave it up: that much the sender's clock decides.                       *)
(***************************************************************************)
EXTENDS Naturals

CONSTANT Notes

VARIABLES
  fate,      \* where each note is
  accepted   \* the notes their channel has taken

vars == <<fate, accepted>>

Fates == {"unknown", "queued", "delivered", "abandoned", "forgotten"}

Init ==
  /\ fate = [n \in Notes |-> "unknown"]
  /\ accepted = {}

Queue(n) ==
  /\ fate[n] = "unknown"
  /\ fate' = [fate EXCEPT ![n] = "queued"]
  /\ UNCHANGED accepted

Accept(n) ==
  /\ fate[n] # "unknown"
  /\ accepted' = accepted \cup {n}
  /\ UNCHANGED fate

Confirm(n) ==
  /\ fate[n] = "queued"
  /\ n \in accepted
  /\ fate' = [fate EXCEPT ![n] = "delivered"]
  /\ UNCHANGED accepted

(* Notes whose window has passed are given up together.                     *)
Abandon(some) ==
  /\ some # {}
  /\ \A n \in some : fate[n] = "queued"
  /\ fate' = [n \in Notes |-> IF n \in some THEN "abandoned" ELSE fate[n]]
  /\ UNCHANGED accepted

Forget(some) ==
  /\ some # {}
  /\ \A n \in some : fate[n] \in {"delivered", "abandoned"}
  /\ fate' = [n \in Notes |-> IF n \in some THEN "forgotten" ELSE fate[n]]
  /\ UNCHANGED accepted

Next ==
  \/ \E n \in Notes : Queue(n) \/ Accept(n) \/ Confirm(n)
  \/ \E some \in SUBSET Notes : Abandon(some) \/ Forget(some)

Spec == Init /\ [][Next]_vars

(* Every queued note is settled in the end.                                 *)
Settled == \A n \in Notes : fate[n] = "queued" ~> fate[n] # "queued"

================================================================================
