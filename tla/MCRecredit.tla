------------------------------ MODULE MCRecredit ------------------------------
(* CarryCycle with the memory that one property needs: which perpetuals the *)
(* venue held short when each funding instant passed.                       *)
EXTENDS MCCarryCycle

VARIABLE shorted   \* settlements of perpetuals that were short

ShortNow == {a \in Assets : venue[a]["perp"] < 0}

HistoryInit == Init /\ shorted = {}

HistoryNext ==
  /\ Next
  /\ shorted' = shorted \cup (IF now' > now THEN ShortNow \X {now'} ELSE {})

HistorySpec == HistoryInit /\ [][HistoryNext]_<<vars, shorted>>

(* Carry is credited only to legs that were held when it settled            *)
(* (carry_loop.py, "Funding settles before the rebalance trades").          *)
CreditsOnlyHeldLegs ==
  \A s \in Assets \X Times : Credited(s) => s \in shorted
==============================================================================
