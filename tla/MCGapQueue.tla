------------------------------ MODULE MCGapQueue -----------------------------
(* GapQueue on small instances: the sources of a fact and how they answer.  *)
EXTENDS GapQueue

CONSTANTS cheap, dear, model

(* An adapter and a derived capability, and every answer the code tells     *)
(* apart; two adapters that are down.                                       *)
CheapThenModel == [f \in Facts |-> <<cheap, model>>]
CheapThenDear  == [f \in Facts |-> <<cheap, dear>>]

AnyAnswer ==
  [s \in Sources |-> IF s = model THEN {"declines", "abstains", "derives"}
                     ELSE {"declines", "fails", "empty", "data"}]

AlwaysDown == [s \in Sources |-> {"declines", "fails"}]
==============================================================================
