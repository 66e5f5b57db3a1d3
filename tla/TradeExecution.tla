--------------------------- MODULE TradeExecution ---------------------------
(***************************************************************************)
(* Trade execution of a trading platform: the trade queue of               *)
(* components/BaseTradeExecutionComponent/TradeQueueManager.hpp, the state  *)
(* rules of TradeStateManager.hpp and the broker conversation of           *)
(* platforms/IntradeBarPlatform/TradeManager.hpp.                          *)
(*                                                                         *)
(* One platform loop thread runs, over and over, the event bus, the HTTP    *)
(* callbacks, the four parts of TradeQueueManager::process and the delayed  *)
(* tasks; phase is the part it is about to run.  Client threads call        *)
(* place_trade at any moment.  The broker's snapshot of open trades, the    *)
(* connection flag and the quotes come from components modelled elsewhere   *)
(* and are driven here by the last group of actions.                        *)
(***************************************************************************)
EXTENDS Integers, FiniteSets, Sequences

CONSTANTS
  Trades,          \* identities of the requests clients may place
  MaxTrades,       \* AccountInfoType::MAX_TRADES
  OrderInterval,   \* ORDER_INTERVAL_MS
  QueueTimeout,    \* ORDER_QUEUE_TIMEOUT
  ResponseTimeout, \* RESPONSE_TIMEOUT
  Durations,       \* how long after opening an option may close
  RequireSnapshot, \* m_require_open_trades_snapshot
  MaxSnapshot,     \* bound: trades in a broker snapshot
  CloseTimes,      \* bound: close times a snapshot may carry (<= 0 is unknown)
  CloseBuffer,     \* close_buffer_ms
  MaxStamp,        \* numeric_limits<int64_t>::max()
  MaxTime,         \* bound: the clock stops here
  LastPlace        \* bound: no request is placed after this time

ASSUME TradesFinite == IsFiniteSet(Trades)
ASSUME LimitsNatural ==
  /\ MaxTrades \in Nat
  /\ OrderInterval \in Nat
  /\ QueueTimeout \in Nat
  /\ ResponseTimeout \in Nat
  /\ Durations \subseteq Nat
  /\ MaxSnapshot \in Nat
  /\ MaxStamp \in Nat
  /\ CloseTimes \subseteq {v \in Int : v <= MaxStamp}
  /\ CloseBuffer \in Nat
  /\ MaxTime \in Nat
  /\ LastPlace \in Nat
ASSUME SnapshotFlag == RequireSnapshot \in BOOLEAN

VARIABLES
  now,              \* the clock
  phase,            \* part of the loop iteration about to run, or "stopped"
  pending,          \* m_pending_transactions, as a set ...
  arrival,          \* ... and the order of insertion into the list
  arrivals,         \* insertions so far
  openTx,           \* m_open_transactions
  placeDate,        \* TradeResult::place_date
  st,               \* TradeResult::trade_state, or where place_trade is
  closeDate,        \* TradeResult::close_date once the broker accepted
  token,            \* the transaction's async lifecycle token
  call,             \* the asynchronous broker step under way for the trade
  reported,         \* last trade_state handed to the result callback
  finalReports,     \* how many terminal states were handed to it
  hasSent,          \* m_has_sent_order
  lastOrder,        \* m_last_order_time
  localOpen,        \* m_local_open_trades
  snapOpen,         \* m_snapshot_open_trades
  snapUnknown,      \* m_snapshot_unknown_close_trades
  snapDue,          \* m_snapshot_close_due_times_ms
  ready,            \* m_open_trades_snapshot_ready
  refreshRequested, \* m_snapshot_refresh_requested
  publicOpen,       \* account_info->open_trades
  connected         \* account_info->connect

tradeVars  == <<st, closeDate, token, call>>
queueVars  == <<pending, arrival, arrivals, openTx, placeDate>>
reportVars == <<reported, finalReports>>
orderVars  == <<hasSent, lastOrder>>
snapVars   == <<snapOpen, snapUnknown, snapDue>>
fenceVars  == <<ready, refreshRequested>>
vars == <<now, phase, queueVars, tradeVars, reportVars, orderVars, localOpen,
          snapVars, fenceVars, publicOpen, connected>>

Phases == {"bus", "http", "snapshot", "pending", "closing", "finalizing",
           "tasks", "stopped"}

(* WIN, LOSS, STANDOFF and REFUND are one state here, SETTLED: the queue     *)
(* treats them alike (is_terminal_state).                                   *)
Terminal == {"OPEN_ERROR", "CHECK_ERROR", "SETTLED"}
TradeStates == {"UNKNOWN", "WAITING_OPEN", "OPEN_SUCCESS", "IN_PROGRESS",
                "WAITING_CLOSE"} \cup Terminal
\* NEW, STAMPED and REJECTED are before and instead of the queue's states.
States == TradeStates \cup {"NEW", "STAMPED", "REJECTED"}

(* open and openBalance: request_execute_trade, then request_balance.        *)
(* checkDelay, check, checkBalance: the settlement delay, the polling of     *)
(* trade_check2 and the balance request that follows it.                     *)
Calls == {"none", "open", "openBalance", "checkDelay", "check", "checkBalance"}

-----------------------------------------------------------------------------
Init ==
  /\ now = 0 /\ phase = "bus"
  /\ pending = {} /\ openTx = {}
  /\ arrival = [t \in Trades |-> 0] /\ arrivals = 0
  /\ placeDate = [t \in Trades |-> 0]
  /\ st = [t \in Trades |-> "NEW"]
  /\ closeDate = [t \in Trades |-> 0]
  /\ token = [t \in Trades |-> FALSE]
  /\ call = [t \in Trades |-> "none"]
  /\ reported = [t \in Trades |-> "NEW"]
  /\ finalReports = [t \in Trades |-> 0]
  /\ hasSent = FALSE /\ lastOrder = 0
  /\ localOpen = 0
  /\ snapOpen = 0 /\ snapUnknown = 0 /\ snapDue = <<>>
  /\ ready = ~RequireSnapshot /\ refreshRequested = FALSE
  /\ publicOpen = 0
  /\ connected \in BOOLEAN

(* dispatch_trade_event for every trade of S with the state it has in s.     *)
Dispatch(S, s) ==
  /\ reported' = [t \in Trades |-> IF t \in S THEN s[t] ELSE reported[t]]
  /\ finalReports' = [t \in Trades |->
       finalReports[t] + (IF t \in S /\ s[t] \in Terminal THEN 1 ELSE 0)]

\* trade_state set to x for every trade of S.
Moved(S, x) == [t \in Trades |-> IF t \in S THEN x ELSE st[t]]

\* decrement_open_trades, once for each of k trades.
Decremented(k) == IF k < localOpen THEN localOpen - k ELSE 0

\* The count k decrements leave published: the last OpenTradesEvent's.
PublishedAfter(k) ==
  IF k > 0 /\ localOpen > 0 THEN Decremented(k) + snapOpen ELSE publicOpen

(* request_snapshot_refresh: the flag lets one request out per snapshot.     *)
RequestRefresh == refreshRequested' = TRUE

-----------------------------------------------------------------------------
(* add_trade: the place date is taken first and the insertion, under the     *)
(* pending mutex, comes later; the platform's preprocess may refuse.         *)
Stamp(t) ==
  /\ st[t] = "NEW" /\ now <= LastPlace
  /\ st' = [st EXCEPT ![t] = "STAMPED"]
  /\ placeDate' = [placeDate EXCEPT ![t] = now]
  /\ UNCHANGED <<now, phase, pending, arrival, arrivals, openTx, closeDate, token,
                 call, reportVars, orderVars, localOpen, snapVars, fenceVars,
                 publicOpen, connected>>

Refuse(t) ==
  /\ st[t] = "STAMPED"
  /\ st' = [st EXCEPT ![t] = "REJECTED"]
  /\ UNCHANGED <<now, phase, queueVars, closeDate, token, call, reportVars,
                 orderVars, localOpen, snapVars, fenceVars, publicOpen, connected>>

Enqueue(t) ==
  /\ st[t] = "STAMPED"
  /\ st' = [st EXCEPT ![t] = "UNKNOWN"]
  /\ token' = [token EXCEPT ![t] = TRUE]
  /\ pending' = pending \cup {t}
  /\ arrival' = [arrival EXCEPT ![t] = arrivals]
  /\ arrivals' = arrivals + 1
  /\ UNCHANGED <<now, phase, openTx, placeDate, closeDate, call, reportVars,
                 orderVars, localOpen, snapVars, fenceVars, publicOpen, connected>>

Tick ==
  /\ now < MaxTime
  /\ now' = now + 1
  /\ UNCHANGED <<phase, queueVars, tradeVars, reportVars, orderVars, localOpen,
                 snapVars, fenceVars, publicOpen, connected>>

-----------------------------------------------------------------------------
(* TradeQueueManager::process                                              *)

\* Index of the last due time that has passed: std::upper_bound - begin.
IsUpperBound(k) ==
  /\ \A i \in 1..k : snapDue[i] <= now
  /\ k < Len(snapDue) => snapDue[k + 1] > now

(* process_snapshot_open_trades                                            *)
ProcessSnapshot ==
  /\ phase = "snapshot" /\ phase' = "pending"
  /\ \/ /\ snapOpen <= 0
        /\ UNCHANGED <<snapVars, refreshRequested, publicOpen>>
     \/ /\ snapOpen > 0 /\ snapDue = <<>>
        /\ IF snapUnknown > 0 THEN RequestRefresh ELSE UNCHANGED refreshRequested
        /\ UNCHANGED <<snapVars, publicOpen>>
     \/ /\ snapOpen > 0 /\ snapDue # <<>>
        /\ \E k \in 0..Len(snapDue) :
             /\ IsUpperBound(k)
             /\ \/ /\ k = 0
                   /\ UNCHANGED <<snapVars, refreshRequested, publicOpen>>
                \/ /\ k > 0
                   /\ snapDue' = SubSeq(snapDue, k + 1, Len(snapDue))
                   /\ snapOpen' = IF k >= snapOpen THEN 0 ELSE snapOpen - k
                   /\ snapUnknown' = IF snapUnknown > snapOpen' THEN snapOpen'
                                                                ELSE snapUnknown
                   /\ publicOpen' = localOpen + snapOpen'
                   /\ IF snapOpen' > 0 /\ snapUnknown' > 0 /\ snapDue' = <<>>
                      THEN RequestRefresh ELSE UNCHANGED refreshRequested
  /\ UNCHANGED <<now, queueVars, tradeVars, reportVars, orderVars, localOpen, ready,
                 connected>>

\* The front of the list.
IsFront(t, queue) == t \in queue /\ \A u \in queue : arrival[t] <= arrival[u]

\* Faults: the scan stops at the first fresh request; none while the fence is up.
ExpiredHeadOnly ==
  {t \in pending : IsFront(t, pending) /\ now - placeDate[t] >= QueueTimeout}
ExpiredFenced ==
  {t \in pending : ready /\ now - placeDate[t] >= QueueTimeout}

\* clean_expired_transactions: every request that waited too long, not the head only.
Expired == {t \in pending : now - placeDate[t] >= QueueTimeout}

\* Fault: the limit may be passed by one.
MaySendOverLimit ==
  /\ ~(RequireSnapshot /\ ~ready /\ connected)
  /\ hasSent => now - lastOrder >= OrderInterval
  /\ publicOpen <= MaxTrades

(* pop_next_transaction: the snapshot fence holds back a connected account   *)
(* only, then the order interval and the account's open trade limit.         *)
MaySend ==
  /\ ~(RequireSnapshot /\ ~ready /\ connected)
  /\ hasSent => now - lastOrder >= OrderInterval
  /\ publicOpen < MaxTrades

\* Fault: only requests still queued have their token cleared.
CancelPendingOnly(S) == token' = [t \in Trades |-> token[t] /\ t \notin S \cap pending]

(* handle_canceled_transactions reports nothing; the two branches below      *)
(* include it.                                                             *)
Cancel(S) == token' = [t \in Trades |-> token[t] /\ t \notin S]

(* process_pending_transactions when no request may leave the queue.         *)
PendingWait ==
  /\ phase = "pending" /\ phase' = "closing"
  /\ (pending \ Expired = {}) \/ ~MaySend
  /\ Cancel(Expired)
  /\ st' = Moved(Expired, "OPEN_ERROR")
  /\ pending' = pending \ Expired
  /\ UNCHANGED <<now, arrival, arrivals, openTx, placeDate, closeDate, call,
                 reportVars, orderVars, localOpen, snapVars, fenceVars, publicOpen,
                 connected>>

(* ... when the front request is valid: WAITING_OPEN, the open trade counter, *)
(* the report and the TradeRequestEvent, which sends the order.              *)
PendingSend(t) ==
  /\ phase = "pending" /\ phase' = "closing"
  /\ IsFront(t, pending \ Expired) /\ MaySend
  /\ connected                                   \* validate_request
  /\ st' = [Moved(Expired, "OPEN_ERROR") EXCEPT ![t] = "WAITING_OPEN"]
  /\ hasSent' = TRUE /\ lastOrder' = now
  /\ localOpen' = localOpen + 1
  /\ publicOpen' = localOpen' + snapOpen
  /\ Dispatch({t}, st')
  /\ call' = [call EXCEPT ![t] = "open"]
  /\ pending' = pending \ (Expired \cup {t})
  /\ openTx' = openTx \cup {t}
  /\ Cancel(Expired)
  /\ UNCHANGED <<now, arrival, arrivals, placeDate, closeDate, snapVars, fenceVars,
                 connected>>

(* ... when validate_request refuses the front request: no connection, or     *)
(* symbol, amount, duration, balance and the like.                           *)
PendingInvalid(t) ==
  /\ phase = "pending" /\ phase' = "closing"
  /\ IsFront(t, pending \ Expired) /\ MaySend
  /\ st' = Moved(Expired \cup {t}, "OPEN_ERROR")
  /\ Dispatch({t}, st')
  /\ pending' = pending \ (Expired \cup {t})
  /\ Cancel(Expired)
  /\ UNCHANGED <<now, arrival, arrivals, openTx, placeDate, closeDate, call,
                 orderVars, localOpen, snapVars, fenceVars, publicOpen, connected>>

(* process_closing_transactions, over the whole list: a trade just opened is  *)
(* reported and becomes IN_PROGRESS; one whose answer is overdue fails with    *)
(* LONG_RESPONSE_WAIT (handle_closing_error); one whose close date has come   *)
(* turns WAITING_CLOSE and a TradeStatusEvent starts the result check.        *)
Opened  == {t \in openTx : st[t] = "OPEN_SUCCESS"}

\* Fault: the deadline is applied to trades in any state.
OverdueAnyState == {t \in openTx : now > closeDate[t] + ResponseTimeout}
Overdue == {t \in openTx : /\ st[t] \in {"IN_PROGRESS", "WAITING_CLOSE"}
                           /\ now >= closeDate[t]
                           /\ now > closeDate[t] + ResponseTimeout}

\* Fault: the branch of a trade just opened falls through.
DueFallsThrough ==
  {t \in openTx \ Overdue : st[t] \in {"OPEN_SUCCESS", "IN_PROGRESS"} /\ now >= closeDate[t]}
Due == {t \in openTx \ Overdue : st[t] = "IN_PROGRESS" /\ now >= closeDate[t]}

ProcessClosing ==
  /\ phase = "closing" /\ phase' = "finalizing"
  /\ LET seen == [t \in Trades |-> IF t \in Opened  THEN "OPEN_SUCCESS" ELSE
                                   IF t \in Overdue THEN "CHECK_ERROR"
                                                    ELSE "WAITING_CLOSE"]
     IN /\ st' = [t \in Trades |-> IF t \in Opened THEN "IN_PROGRESS" ELSE
                                   IF t \in Overdue \cup Due THEN seen[t] ELSE st[t]]
        /\ Dispatch(Opened \cup Overdue \cup Due, seen)
  /\ Cancel(Overdue)
  /\ openTx' = openTx \ Overdue
  /\ localOpen' = Decremented(Cardinality(Overdue))
  /\ publicOpen' = PublishedAfter(Cardinality(Overdue))
  /\ call' = [t \in Trades |-> IF t \in Due THEN "checkDelay" ELSE call[t]]
  /\ UNCHANGED <<now, pending, arrival, arrivals, placeDate, closeDate, orderVars,
                 snapVars, fenceVars, connected>>

(* process_finalizing_transactions                                         *)
Ended == {t \in openTx : st[t] \in Terminal}

\* Fault: the reported trade stays on the list.
ProcessFinalizingKeeps ==
  /\ phase = "finalizing" /\ phase' = "tasks"
  /\ Cancel(Ended)
  /\ localOpen' = Decremented(Cardinality(Ended))
  /\ publicOpen' = PublishedAfter(Cardinality(Ended))
  /\ Dispatch(Ended, st)
  /\ UNCHANGED <<now, openTx, pending, arrival, arrivals, placeDate, st, closeDate, call,
                 orderVars, snapVars, fenceVars, connected>>

ProcessFinalizing ==
  /\ phase = "finalizing" /\ phase' = "tasks"
  /\ Cancel(Ended)
  /\ openTx' = openTx \ Ended
  /\ localOpen' = Decremented(Cardinality(Ended))
  /\ publicOpen' = PublishedAfter(Cardinality(Ended))
  /\ Dispatch(Ended, st)
  /\ UNCHANGED <<now, pending, arrival, arrivals, placeDate, st, closeDate, call,
                 orderVars, snapVars, fenceVars, connected>>

(* The event bus, the HTTP polling and the delayed tasks end their turn.      *)
Turn(from, to) ==
  /\ phase = from /\ phase' = to
  /\ UNCHANGED <<now, queueVars, tradeVars, reportVars, orderVars, localOpen,
                 snapVars, fenceVars, publicOpen, connected>>

BusDone   == Turn("bus", "http")
HttpDone  == Turn("http", "snapshot")
TasksDone == Turn("tasks", "bus")

-----------------------------------------------------------------------------
\* Fault: the cleared snapshot is not published.
FinalizeAllSilently ==
  LET k       == Cardinality(openTx)
  IN /\ st' = [t \in Trades |-> IF t \in pending THEN "OPEN_ERROR" ELSE
                                IF t \in openTx  THEN "CHECK_ERROR" ELSE st[t]]
     /\ Dispatch(pending \cup openTx, st')
     /\ Cancel(pending \cup openTx)
     /\ pending' = {} /\ openTx' = {}
     /\ localOpen' = Decremented(k)
     /\ snapOpen' = 0 /\ snapUnknown' = 0 /\ snapDue' = <<>>
     /\ refreshRequested' = FALSE
     /\ publicOpen' = PublishedAfter(k)
     /\ hasSent' = FALSE
     /\ UNCHANGED <<now, arrival, arrivals, placeDate, closeDate, call, lastOrder,
                    connected>>

(* finalize_all_trades                                                     *)
FinalizeAll ==
  LET k       == Cardinality(openTx)
      changed == snapOpen # 0 \/ snapUnknown # 0 \/ snapDue # <<>>
  IN /\ st' = [t \in Trades |-> IF t \in pending THEN "OPEN_ERROR" ELSE
                                IF t \in openTx  THEN "CHECK_ERROR" ELSE st[t]]
     /\ Dispatch(pending \cup openTx, st')
     /\ Cancel(pending \cup openTx)
     /\ pending' = {} /\ openTx' = {}
     /\ localOpen' = Decremented(k)
     /\ snapOpen' = 0 /\ snapUnknown' = 0 /\ snapDue' = <<>>
     /\ refreshRequested' = FALSE
     /\ publicOpen' = IF changed THEN localOpen' ELSE PublishedAfter(k)
     /\ hasSent' = FALSE
     /\ UNCHANGED <<now, arrival, arrivals, placeDate, closeDate, call, lastOrder,
                    connected>>

(* DisconnectRequestEvent, delivered by the bus.                             *)
DisconnectRequest ==
  /\ phase = "bus"
  /\ FinalizeAll
  /\ ready' = (ready /\ ~RequireSnapshot)
  /\ UNCHANGED phase

(* BaseTradingPlatform::shutdown: the loop task has returned, then the        *)
(* execution component finalizes.  Answers still under way are never polled.  *)
Shutdown ==
  /\ phase = "bus" /\ phase' = "stopped"
  /\ FinalizeAll
  /\ UNCHANGED ready

-----------------------------------------------------------------------------
(* platforms/IntradeBarPlatform/TradeManager: answers of the broker.  None of  *)
(* the open answers looks at the lifecycle token; all the check answers do.   *)

\* A failed order; an HTTP 451 also marks the account disconnected.
OpenFailed(t) ==
  /\ phase = "http" /\ call[t] = "open"
  /\ st' = [st EXCEPT ![t] = "OPEN_ERROR"]
  /\ call' = [call EXCEPT ![t] = "none"]
  /\ connected' \in {connected, FALSE}
  /\ UNCHANGED <<now, phase, queueVars, closeDate, token, reportVars, orderVars,
                 localOpen, snapVars, fenceVars, publicOpen>>

\* An accepted order: the close date is known and the balance is asked for.
OpenAccepted(t) ==
  /\ phase = "http" /\ call[t] = "open"
  /\ \E d \in Durations : /\ now + d <= MaxTime
                          /\ closeDate' = [closeDate EXCEPT ![t] = now + d]
  /\ call' = [call EXCEPT ![t] = "openBalance"]
  /\ UNCHANGED <<now, phase, queueVars, st, token, reportVars, orderVars,
                 localOpen, snapVars, fenceVars, publicOpen, connected>>

\* The balance, or no balance; a balance proves the connection.
OpenBalanceReply(t) ==
  /\ phase = "http" /\ call[t] = "openBalance"
  /\ st' = [st EXCEPT ![t] = "OPEN_SUCCESS"]
  /\ call' = [call EXCEPT ![t] = "none"]
  /\ connected' \in {connected, TRUE}
  /\ UNCHANGED <<now, phase, queueVars, closeDate, token, reportVars, orderVars,
                 localOpen, snapVars, fenceVars, publicOpen>>

\* The delayed task of TradeStatusEvent, 1500 ms later.
StartCheck(t) ==
  /\ phase = "tasks" /\ call[t] = "checkDelay"
  /\ call' = [call EXCEPT ![t] = IF token[t] THEN "check" ELSE "none"]
  /\ UNCHANGED <<now, phase, queueVars, st, closeDate, token, reportVars, orderVars,
                 localOpen, snapVars, fenceVars, publicOpen, connected>>

\* request_trade_check gave up, after its retries.
CheckFailed(t) ==
  /\ phase = "http" /\ call[t] = "check"
  /\ call' = [call EXCEPT ![t] = "none"]
  /\ IF token[t]
     THEN st' = [st EXCEPT ![t] = "CHECK_ERROR"] /\ connected' \in {connected, FALSE}
     ELSE UNCHANGED <<st, connected>>
  /\ UNCHANGED <<now, phase, queueVars, closeDate, token, reportVars, orderVars,
                 localOpen, snapVars, fenceVars, publicOpen>>

\* request_trade_check has price and profit.
CheckAnswered(t) ==
  /\ phase = "http" /\ call[t] = "check"
  /\ call' = [call EXCEPT ![t] = IF token[t] THEN "checkBalance" ELSE "none"]
  /\ UNCHANGED <<now, phase, queueVars, st, closeDate, token, reportVars, orderVars,
                 localOpen, snapVars, fenceVars, publicOpen, connected>>

\* process_trade_status, with or without a balance.
CheckBalanceReply(t) ==
  /\ phase = "http" /\ call[t] = "checkBalance"
  /\ call' = [call EXCEPT ![t] = "none"]
  /\ IF token[t]
     THEN st' = [st EXCEPT ![t] = "SETTLED"] /\ connected' \in {connected, TRUE}
     ELSE UNCHANGED <<st, connected>>
  /\ UNCHANGED <<now, phase, queueVars, closeDate, token, reportVars, orderVars,
                 localOpen, snapVars, fenceVars, publicOpen>>

HttpReply(t) == OpenFailed(t) \/ OpenAccepted(t) \/ OpenBalanceReply(t)
                \/ CheckFailed(t) \/ CheckAnswered(t) \/ CheckBalanceReply(t)

-----------------------------------------------------------------------------
(* Events of the other components, handled by the queue.                     *)

(* PriceUpdateEvent, with an initialized quote for the symbols of Q: a trade  *)
(* just opened is reported and becomes IN_PROGRESS, and a quoted trade is     *)
(* reported again with its live state.                                      *)
PriceUpdate(Q) ==
  /\ phase \in {"http", "tasks"}
  /\ LET live == {t \in openTx : st[t] \in {"OPEN_SUCCESS", "IN_PROGRESS"}}
         seen == [t \in Trades |-> IF t \in Q THEN "IN_PROGRESS" ELSE "OPEN_SUCCESS"]
     IN /\ Q \subseteq live /\ Opened \cup Q # {}
        /\ st' = Moved(Opened, "IN_PROGRESS")
        /\ Dispatch(Opened \cup Q, seen)
  /\ UNCHANGED <<now, phase, queueVars, closeDate, token, call, orderVars, localOpen,
                 snapVars, fenceVars, publicOpen, connected>>

\* Fault: the sum is not saturated.
BufferedUnchecked(v) == v + CloseBuffer

\* add_snapshot_close_buffer: saturates at the largest time stamp.
Buffered(v) == IF CloseBuffer <= 0 THEN v ELSE
               IF v > MaxStamp - CloseBuffer THEN MaxStamp ELSE v + CloseBuffer

(* The positive close times, buffered and put in order by std::sort.          *)
KnownTimes(times) == {i \in DOMAIN times : times[i] > 0}
SortedDue(times) ==
  LET known == KnownTimes(times)
  IN {due \in [1..Cardinality(known) -> {Buffered(times[i]) : i \in known}] :
        /\ \A i, j \in DOMAIN due : i < j => due[i] <= due[j]
        /\ \A v \in {Buffered(times[i]) : i \in known} :
             Cardinality({i \in DOMAIN due : due[i] = v}) =
             Cardinality({i \in known : Buffered(times[i]) = v})}

\* At most n due times are kept: the earliest ones.
Trimmed(due, n) == IF Len(due) > n THEN SubSeq(due, 1, n) ELSE due

(* Local activity makes a snapshot unusable; while the fence is up a waiting  *)
(* request is no such activity, or the fence would never open.               *)
SnapshotBlocked == (ready /\ pending # {}) \/ openTx # {} \/ localOpen > 0

(* OpenTradesSnapshotEvent(n, times), delivered by an HTTP callback.          *)
SnapshotSkipped ==
  /\ phase = "http" /\ SnapshotBlocked
  /\ RequestRefresh
  /\ UNCHANGED <<now, phase, queueVars, tradeVars, reportVars, orderVars, localOpen,
                 snapVars, ready, publicOpen, connected>>

\* Fault: a refresh is asked for only when no close time at all is known.
SnapshotAppliedLazily(n, times) ==
  /\ phase = "http" /\ ~SnapshotBlocked
  /\ ready' = TRUE
  /\ snapOpen' = n
  /\ \E due \in SortedDue(times) : snapDue' = Trimmed(due, n)
  /\ snapUnknown' = IF Len(snapDue') > n THEN 0 ELSE n - Len(snapDue')
  /\ publicOpen' = localOpen + n
  /\ refreshRequested' = (snapUnknown' > 0 /\ snapDue' = <<>>)
  /\ UNCHANGED <<now, phase, queueVars, tradeVars, reportVars, orderVars, localOpen,
                 connected>>

SnapshotApplied(n, times) ==
  /\ phase = "http" /\ ~SnapshotBlocked
  /\ ready' = TRUE
  /\ snapOpen' = n
  /\ \E due \in SortedDue(times) : snapDue' = Trimmed(due, n)
  /\ snapUnknown' = IF Len(snapDue') > n THEN 0 ELSE n - Len(snapDue')
  /\ publicOpen' = localOpen + n
  /\ refreshRequested' = (snapUnknown' > 0)
  /\ UNCHANGED <<now, phase, queueVars, tradeVars, reportVars, orderVars, localOpen,
                 connected>>

\* The event lists of close times that the model tries.
TimeLists == UNION {[1..k -> CloseTimes] : k \in 0..MaxSnapshot}

(* OpenTradesSnapshotAvailabilityEvent(false): the only one emitted.          *)
SnapshotUnavailable ==
  /\ phase \in {"bus", "http", "tasks"} /\ RequireSnapshot
  /\ ready' = FALSE
  /\ snapOpen' = 0 /\ snapUnknown' = 0 /\ snapDue' = <<>>
  /\ refreshRequested' = FALSE
  /\ UNCHANGED <<now, phase, queueVars, tradeVars, reportVars, orderVars, localOpen,
                 publicOpen, connected>>

(* The authorization and balance managers set the connection flag.           *)
ConnectionChange ==
  /\ phase \in {"bus", "http", "tasks"}
  /\ connected' = ~connected
  /\ UNCHANGED <<now, phase, queueVars, tradeVars, reportVars, orderVars, localOpen,
                 snapVars, fenceVars, publicOpen>>

-----------------------------------------------------------------------------
Client(t) == Stamp(t) \/ Refuse(t) \/ Enqueue(t)

Loop == \/ BusDone \/ HttpDone \/ TasksDone
        \/ ProcessSnapshot
        \/ PendingWait \/ (\E t \in Trades : PendingSend(t) \/ PendingInvalid(t))
        \/ ProcessClosing \/ ProcessFinalizing

Events == \/ \E Q \in SUBSET openTx : PriceUpdate(Q)
          \/ SnapshotSkipped
          \/ \E n \in 0..MaxSnapshot, times \in TimeLists : SnapshotApplied(n, times)
          \/ SnapshotUnavailable
          \/ ConnectionChange
          \/ DisconnectRequest
          \/ Shutdown

Next == \/ Tick \/ Loop \/ Events
        \/ \E t \in Trades : Client(t) \/ HttpReply(t) \/ StartCheck(t)

Spec == Init /\ [][Next]_vars

(* The loop runs and time passes.  Every request sent is answered or times    *)
(* out and is then polled by a later turn of the loop; a delayed task runs.   *)
Fairness ==
  /\ WF_vars(Tick) /\ WF_vars(Loop)
  /\ \A t \in Trades : SF_vars(HttpReply(t)) /\ SF_vars(StartCheck(t))

FairSpec == Spec /\ Fairness

-----------------------------------------------------------------------------
TypeOK ==
  /\ now \in Nat /\ phase \in Phases
  /\ pending \subseteq Trades /\ openTx \subseteq Trades
  /\ arrival \in [Trades -> Nat] /\ arrivals \in Nat
  /\ placeDate \in [Trades -> Nat]
  /\ st \in [Trades -> States]
  /\ closeDate \in [Trades -> Nat]
  /\ token \in [Trades -> BOOLEAN]
  /\ call \in [Trades -> Calls]
  /\ reported \in [Trades -> TradeStates \cup {"NEW"}]
  /\ finalReports \in [Trades -> Nat]
  /\ hasSent \in BOOLEAN /\ lastOrder \in Nat
  /\ localOpen \in Nat
  /\ snapOpen \in Nat /\ snapUnknown \in Nat /\ snapDue \in Seq(1..MaxStamp)
  /\ ready \in BOOLEAN /\ refreshRequested \in BOOLEAN
  /\ publicOpen \in Nat
  /\ connected \in BOOLEAN

(* The two counters never drift from the lists they stand for: every path     *)
(* that takes a transaction off the open list also decrements, exactly once,  *)
(* and the snapshot's three fields always describe the same set of trades.    *)
CountersAgree ==
  /\ localOpen = Cardinality(openTx)
  /\ snapOpen = snapUnknown + Len(snapDue)

(* While the close time of some broker trade is unknown a new snapshot is on     *)
(* request, so that the trade does not occupy the limit for ever.             *)
UnknownTradesAwaitRefresh == snapUnknown > 0 => refreshRequested

(* The count the account shows, which pop_next_transaction compares with the   *)
(* limit, is the queue's own count whenever orders may be sent: no path leaves *)
(* a change unpublished.                                                     *)
PublicCountExact == ready => publicOpen = localOpen + snapOpen

(* Local orders never push the account past its limit of open trades, broker   *)
(* trades of the snapshot included.                                          *)
LimitRespected == localOpen > 0 => localOpen + snapOpen <= MaxTrades

(* A result check under way with a live token belongs to a trade on the open   *)
(* list that waits for exactly this answer, so no answer can touch a trade     *)
(* already finished or overdue.                                              *)
CheckOwnsItsTrade ==
  \A t \in Trades :
    token[t] /\ call[t] \in {"checkDelay", "check", "checkBalance"} =>
      t \in openTx /\ st[t] = "WAITING_CLOSE"

(* A result that arrived is reported before anything else can end the trade:   *)
(* the order http, pending, closing, finalizing of one loop turn leaves no     *)
(* ended trade on the list when the bus may deliver a disconnect or a          *)
(* shutdown may come, which would overwrite the result.                      *)
EndedTradesAreFlushed ==
  phase \in {"bus", "stopped", "tasks"} => \A t \in openTx : st[t] \notin Terminal

\* In the queue's hands no more.
Finished(t) == /\ st[t] \notin {"NEW", "STAMPED", "REJECTED"}
               /\ t \notin pending \cup openTx

(* The client hears at most one terminal state of a trade, and only when the   *)
(* queue has let go of it.                                                   *)
FinalReportOnce ==
  \A t \in Trades : /\ finalReports[t] <= 1
                    /\ finalReports[t] = 1 => Finished(t)

(* A trade is reported closing-to-closed in order: never a step back, never a  *)
(* broker result for a trade whose close was not announced, nothing after a    *)
(* terminal state.                                                          *)
Rank == [s \in TradeStates \cup {"NEW"} |->
           CASE s \in {"NEW", "UNKNOWN"} -> 0 [] s = "WAITING_OPEN" -> 1
             [] s = "OPEN_SUCCESS" -> 2 [] s = "IN_PROGRESS" -> 3
             [] s = "WAITING_CLOSE" -> 4 [] OTHER -> 5]
ReportsInOrder ==
  [][\A t \in Trades : reported'[t] # reported[t] =>
       /\ Rank[reported[t]] < Rank[reported'[t]]
       /\ reported'[t] = "SETTLED" => reported[t] = "WAITING_CLOSE"]_vars

(* A settled result leaves the open list only through its own report: it is    *)
(* never replaced by a timeout, a disconnect or a shutdown.                   *)
SettledIsReported ==
  [][\A t \in openTx : st[t] = "SETTLED" /\ t \notin openTx' =>
       reported'[t] = "SETTLED"]_vars

(* An order goes out only to a connected account whose open trades the broker  *)
(* has confirmed, for a request still fresh, not sooner than the order         *)
(* interval allows and in the order the requests came.                       *)
SendIsSafe ==
  [][\A t \in openTx' \ openTx :
       /\ connected /\ (RequireSnapshot => ready)
       /\ now - placeDate[t] < QueueTimeout
       /\ hasSent => now - lastOrder >= OrderInterval
       /\ \A u \in pending : arrival[u] < arrival[t] => u \notin pending']_vars

(* Every request that entered the queue leaves it and every opened trade ends, *)
(* whatever the broker answers; only a stopped platform keeps requests queued. *)
EveryTradeFinishes ==
  \A t \in Trades : (t \in pending \cup openTx) ~> (Finished(t) \/ phase = "stopped")

=============================================================================
