----------------------------- MODULE HonestVenue ------------------------------
(***************************************************************************)
(* What a venue adapter promises to the loops that trade through it        *)
(* (venue/protocol.py Venue.execute, Fill; trading/order_safety.py): one   *)
(* idempotency key is one order at the venue, and what execute says of it  *)
(* is true when it is said and stays true.  A fill was executed, if        *)
(* perhaps more was; an empty answer means that nothing was and nothing    *)
(* will be, for a rejection is never looked at again.  Any other answer    *)
(* says nothing.                                                           *)
(***************************************************************************)
EXTENDS Naturals

CONSTANT Calls   \* the calls of execute under the key

VARIABLES
  stage,      \* "unsent", "working" or "dead"
  executed,   \* units the venue has executed
  told        \* what each call has answered

vars == <<stage, executed, told>>

Nothing == [kind |-> "none", units |-> 0]
Doubt   == [kind |-> "unknown", units |-> 0]
Empty   == [kind |-> "empty", units |-> 0]
Fill(units) == [kind |-> "fill", units |-> units]

Init ==
  /\ stage = "unsent"
  /\ executed = 0
  /\ told = [c \in Calls |-> Nothing]

Place ==
  /\ stage = "unsent"
  /\ stage' \in {"working", "dead"}
  /\ executed' \in Nat
  /\ UNCHANGED told

Work ==
  /\ stage = "working"
  /\ stage' \in {"working", "dead"}
  /\ executed' \in Nat /\ executed' >= executed
  /\ UNCHANGED told

(* The second conjunct follows from the third and is cheap to refute.       *)
Say(c, answer) ==
  /\ told[c] = Nothing
  /\ told'[c] = answer
  /\ told' = [told EXCEPT ![c] = answer]

TellDoubt(c) == Say(c, Doubt) /\ UNCHANGED <<stage, executed>>

TellFill(c) ==
  /\ \E units \in 1..executed : Say(c, Fill(units))
  /\ UNCHANGED <<stage, executed>>

(* After it an order that was never sent is never sent.                     *)
TellEmpty(c) ==
  /\ Say(c, Empty)
  /\ stage # "working" /\ executed = 0
  /\ stage' = "dead"
  /\ UNCHANGED executed

Next ==
  \/ Place \/ Work
  \/ \E c \in Calls : TellDoubt(c) \/ TellFill(c) \/ TellEmpty(c)

Spec == Init /\ [][Next]_vars
==============================================================================
