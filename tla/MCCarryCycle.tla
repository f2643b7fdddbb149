---------------------------- MODULE MCCarryCycle -----------------------------
(* CarryCycle on small instances: amount steps, and assets that are         *)
(* interchangeable because the order of names within a run is left open.    *)
EXTENDS CarryCycle, TLC

FineLots  == [m \in Markets |-> 1]
CoarsePerp == [m \in Markets |-> IF m = "perp" THEN 2 ELSE 1]

AssetSymmetry == Permutations(Assets)
==============================================================================
