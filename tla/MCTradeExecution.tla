-------------------------- MODULE MCTradeExecution --------------------------
(* Model checking instances of TradeExecution.  Trades are interchangeable:   *)
(* the queue orders them by insertion and never by identity.                 *)
EXTENDS TradeRefinement, TLC

TradeSymmetry == Permutations(Trades)
=============================================================================
