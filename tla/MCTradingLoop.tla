---------------------------- MODULE MCTradingLoop ----------------------------
(* TradingLoop on small instances.  Predictions are numbered because the    *)
(* cycle takes them in order; runners are interchangeable.                  *)
EXTENDS TradingLoop, TLC

RunnerSymmetry == Permutations(Runners)
==============================================================================
