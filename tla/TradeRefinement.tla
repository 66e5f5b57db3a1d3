--------------------------- MODULE TradeRefinement ---------------------------
(***************************************************************************)
(* TradeExecution keeps the promise of TradeLifecycle.  A trade is queued or *)
(* open when the list of TradeQueueManager holds it; afterwards the number   *)
(* of terminal reports tells an ended one from a dropped one.              *)
(***************************************************************************)
EXTENDS TradeExecution

StageOf(t) ==
  CASE st[t] \in {"NEW", "STAMPED"} -> "outside"
    [] st[t] = "REJECTED" -> "refused"
    [] t \in pending -> "queued"
    [] t \in openTx -> "open"
    [] finalReports[t] > 0 -> "ended"
    [] OTHER -> "dropped"

NewsOf(t) ==
  CASE reported[t] = "NEW" -> "nothing"
    [] reported[t] \in Terminal -> "final"
    [] OTHER -> "progress"

Stage == [t \in Trades |-> StageOf(t)]
Told  == [t \in Trades |-> NewsOf(t)]

Promise == INSTANCE TradeLifecycle WITH
  Limit <- MaxTrades, stage <- Stage, turn <- arrival, told <- Told

(* Every step of the queue, of the broker's answers and of the events that reach  *)
(* them is a step of the promise or changes nothing in it: whatever was sent to   *)
(* the broker ends with one report to the result callback, in every interleaving  *)
(* of answers, timeouts, disconnects and the shutdown.                        *)
KeepsPromise == Promise!Spec
=============================================================================
