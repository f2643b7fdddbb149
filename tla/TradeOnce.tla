------------------------------ MODULE TradeOnce ------------------------------
(***************************************************************************)
(* What the order ledger promises to whoever trades through it: a decision *)
(* is committed to at most once, reaches the venue at most once, moves the *)
(* portfolio only between those two moments and its close, and once closed *)
(* is never touched again.                                                 *)
(***************************************************************************)
EXTENDS Naturals

CONSTANT Decisions

VARIABLES
  phase,    \* "undecided", "committed" or "closed"
  sends,    \* how often the venue was asked to execute the decision
  booked    \* units the portfolio holds because of it

vars == <<phase, sends, booked>>

Init ==
  /\ phase  = [d \in Decisions |-> "undecided"]
  /\ sends  = [d \in Decisions |-> 0]
  /\ booked = [d \in Decisions |-> 0]

Commit(d) ==
  /\ phase[d] = "undecided"
  /\ phase' = [phase EXCEPT ![d] = "committed"]
  /\ UNCHANGED <<sends, booked>>

Send(d) ==
  /\ phase[d] = "committed"
  /\ sends[d] = 0
  /\ sends' = [sends EXCEPT ![d] = 1]
  /\ UNCHANGED <<phase, booked>>

(* Booking may be the last word on the decision, or leave it open. *)
Book(d) ==
  /\ phase[d] = "committed"
  /\ booked' = [booked EXCEPT ![d] = booked'[d]]
  /\ booked'[d] \in Nat /\ booked'[d] > booked[d]
  /\ \E last \in {"committed", "closed"} : phase' = [phase EXCEPT ![d] = last]
  /\ UNCHANGED sends

Close(d) ==
  /\ phase[d] = "committed"
  /\ phase' = [phase EXCEPT ![d] = "closed"]
  /\ UNCHANGED <<sends, booked>>

Next == \E d \in Decisions : Commit(d) \/ Send(d) \/ Book(d) \/ Close(d)

Spec == Init /\ [][Next]_vars
==============================================================================
