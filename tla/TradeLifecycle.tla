--------------------------- MODULE TradeLifecycle ---------------------------
(***************************************************************************)
(* What trade execution promises to the client that places trades and to    *)
(* the broker that takes the orders, without a word about how.              *)
(*                                                                         *)
(* A request is refused at once or queued.  Orders go out one at a time, in  *)
(* the order the requests came, and never more than Limit are open.  Whoever *)
(* had an order out hears how it ended, once, and nothing after that.  A     *)
(* request that was still queued may also be dropped without a word.        *)
(***************************************************************************)
EXTENDS Integers, FiniteSets

CONSTANTS
  Trades,  \* identities of the requests
  Limit    \* open trades the account may have

VARIABLES
  stage,   \* where each trade is
  turn,    \* its place in the line
  told     \* what the client heard of it last

promiseVars == <<stage, turn, told>>

Stages == {"outside", "refused", "queued", "open", "ended", "dropped"}
News == {"nothing", "progress", "final"}

In(x) == {t \in Trades : stage[t] = x}

Init ==
  /\ stage = [t \in Trades |-> "outside"]
  /\ turn = [t \in Trades |-> 0]
  /\ told = [t \in Trades |-> "nothing"]

Refuse(t) ==
  /\ stage[t] = "outside"
  /\ stage' = [stage EXCEPT ![t] = "refused"]
  /\ UNCHANGED <<turn, told>>

(* Whoever is queued already goes first.                                      *)
Accept(t) ==
  /\ stage[t] = "outside"
  /\ stage' = [stage EXCEPT ![t] = "queued"]
  /\ \A u \in In("queued") : turn[u] < turn'[t]
  /\ \A u \in In("queued") : turn'[u] = turn[u]
  /\ UNCHANGED told

Left(gone, informed) ==
  [t \in Trades |-> IF t \in informed THEN "ended"
                    ELSE IF t \in gone THEN "dropped" ELSE stage[t]]

(* Some trades end, and the client hears of open ones.  Only those that were     *)
(* never sent may go without a report.                                        *)
Pass(gone, informed, heard) ==
  /\ gone \subseteq In("queued") \cup In("open")
  /\ gone \cap In("open") \subseteq informed /\ informed \subseteq gone
  /\ heard \subseteq In("open") \ gone
  /\ stage' = Left(gone, informed)
  /\ told' = [t \in Trades |-> IF t \in informed THEN "final"
                               ELSE IF t \in heard THEN "progress" ELSE told[t]]
  /\ UNCHANGED turn

(* One order goes out; those before it in the line were dropped.                *)
Send(t, gone) ==
  /\ t \in In("queued") /\ gone \subseteq In("queued") \ {t}
  /\ \A u \in In("queued") : turn[u] < turn[t] => u \in gone
  /\ Cardinality(In("open")) < Limit
  /\ stage' = [Left(gone, {}) EXCEPT ![t] = "open"]
  /\ told' = [told EXCEPT ![t] = "progress"]
  /\ UNCHANGED turn

Next ==
  \/ \E t \in Trades : Refuse(t) \/ Accept(t)
  \/ \E gone, informed, heard \in SUBSET Trades : Pass(gone, informed, heard)
  \/ \E t \in Trades, gone \in SUBSET Trades : Send(t, gone)

Spec == Init /\ [][Next]_promiseVars
=============================================================================
