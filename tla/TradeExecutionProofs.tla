------------------------ MODULE TradeExecutionProofs ------------------------
(* Safety of TradeExecution for any set of trades, limits, timeouts and       *)
(* bounds.  Typing comes first, then the inductive invariant, built up part by *)
(* part, then the theorems about the properties.                             *)
EXTENDS TradeExecution, FiniteSetTheorems, SequenceTheorems, TLAPS

-----------------------------------------------------------------------------
(* Lemmas about the operators.                                             *)

(* Sets of trades are finite, so that they can be counted.                   *)
LEMMA TradesCounted ==
  ASSUME NEW S \in SUBSET Trades
  PROVE  IsFiniteSet(S) /\ Cardinality(S) \in Nat
BY TradesFinite, FS_Subset, FS_CardinalityType

(* k decrements take k from the counter, and never make it negative.         *)
LEMMA DecrementedType ==
  ASSUME localOpen \in Nat, NEW k \in Nat
  PROVE  /\ Decremented(k) \in Nat
         /\ Decremented(k) <= localOpen
         /\ k <= localOpen => Decremented(k) = localOpen - k
BY DEF Decremented

(* Decrementing once for each trade of S counts the other open trades.       *)
LEMMA DecrementedCounts ==
  ASSUME TypeOK, localOpen = Cardinality(openTx), NEW S \in SUBSET openTx
  PROVE  Decremented(Cardinality(S)) = Cardinality(openTx \ S)
<1>1. openTx \in SUBSET Trades /\ S \in SUBSET Trades
  BY DEF TypeOK
<1>2. IsFiniteSet(openTx) /\ Cardinality(openTx) \in Nat /\ Cardinality(S) \in Nat
  BY <1>1, TradesCounted
<1>3. Cardinality(S) <= Cardinality(openTx)
  BY <1>2, FS_Subset
<1>4. Cardinality(openTx \ S) = Cardinality(openTx) - Cardinality(S)
  <2>1. openTx \cap S = S
    OBVIOUS
  <2>2. QED  BY <2>1, <1>2, FS_Difference
<1>5. QED  BY <1>2, <1>3, <1>4 DEF Decremented

(* A function on an initial segment of the naturals is a sequence.           *)
LEMMA FunctionIsSeq ==
  ASSUME NEW S, NEW m \in Nat, NEW f \in [1..m -> S]
  PROVE  f \in Seq(S)
OBVIOUS

(* The elements of a sequence of due times.                                  *)
LEMMA DueElements ==
  ASSUME NEW due \in Seq(1..MaxStamp)
  PROVE  Len(due) \in Nat /\ \A i \in 1..Len(due) : due[i] \in 1..MaxStamp
<1>1. Len(due) \in Nat
  BY LenProperties
<1>2. ASSUME NEW i \in 1..Len(due)  PROVE due[i] \in 1..MaxStamp
  BY ElementOfSeq
<1>3. QED  BY <1>1, <1>2

(* A buffered close time is a time stamp.                                    *)
LEMMA BufferedType ==
  ASSUME NEW v \in CloseTimes, v > 0
  PROVE  Buffered(v) \in 1..MaxStamp
BY LimitsNatural DEF Buffered

(* The due times of a broker snapshot are time stamps.                       *)
LEMMA SortedDueType ==
  ASSUME NEW k \in Nat, NEW times \in [1..k -> CloseTimes],
         NEW due \in SortedDue(times)
  PROVE  due \in Seq(1..MaxStamp)
<1> DEFINE known == KnownTimes(times)
<1>1. known \in SUBSET (1..k)
  BY DEF KnownTimes
<1>2. IsFiniteSet(known) /\ Cardinality(known) \in Nat
  <2>1. IsFiniteSet(1..k)
    BY FS_Interval
  <2>2. IsFiniteSet(known)
    BY ONLY <1>1, <2>1, FS_Subset
  <2>3. QED  BY ONLY <2>2, FS_CardinalityType
<1>3. ASSUME NEW i \in known  PROVE Buffered(times[i]) \in 1..MaxStamp
  <2>1. times[i] \in CloseTimes /\ times[i] > 0
    BY <1>1, <1>3 DEF KnownTimes
  <2>2. QED  BY <2>1, BufferedType
<1>4. due \in [1..Cardinality(known) -> {Buffered(times[i]) : i \in known}]
  BY DEF SortedDue
<1>5. due \in [1..Cardinality(known) -> 1..MaxStamp]
  BY <1>3, <1>4
<1>6. QED  BY <1>2, <1>5, FunctionIsSeq

(* Trimming leaves at most n due times.                                      *)
LEMMA TrimmedType ==
  ASSUME NEW due \in Seq(1..MaxStamp), NEW n \in Nat
  PROVE  Trimmed(due, n) \in Seq(1..MaxStamp) /\ Len(Trimmed(due, n)) <= n
<1>1. CASE Len(due) > n
  <2>1. \A i \in 1..n : due[i] \in 1..MaxStamp
    BY <1>1, DueElements
  <2>2. /\ SubSeq(due, 1, n) \in Seq(1..MaxStamp)
        /\ Len(SubSeq(due, 1, n)) = IF 1 <= n THEN n - 1 + 1 ELSE 0
    BY <2>1, SubSeqProperties
  <2>3. QED  BY <1>1, <2>2 DEF Trimmed
<1>2. CASE ~(Len(due) > n)
  BY <1>2 DEF Trimmed
<1>3. QED  BY <1>1, <1>2

(* Dropping the first k due times leaves the others.                         *)
LEMMA DroppedType ==
  ASSUME NEW due \in Seq(1..MaxStamp), NEW k \in 0..Len(due)
  PROVE  /\ SubSeq(due, k + 1, Len(due)) \in Seq(1..MaxStamp)
         /\ Len(SubSeq(due, k + 1, Len(due))) = Len(due) - k
<1>1. \A i \in k + 1..Len(due) : due[i] \in 1..MaxStamp
  BY DueElements
<1>2. /\ SubSeq(due, k + 1, Len(due)) \in Seq(1..MaxStamp)
      /\ Len(SubSeq(due, k + 1, Len(due))) =
           IF k + 1 <= Len(due) THEN Len(due) - (k + 1) + 1 ELSE 0
  BY <1>1, SubSeqProperties
<1>3. QED  BY <1>2

-----------------------------------------------------------------------------
(* Typing.                                                                 *)

(* process_snapshot_open_trades keeps the three fields in step and only ever  *)
(* lowers the count.                                                        *)
LEMMA SnapshotFields ==
  ASSUME TypeOK, snapOpen = snapUnknown + Len(snapDue), ProcessSnapshot
  PROVE  /\ snapOpen' \in Nat /\ snapUnknown' \in Nat
         /\ snapDue' \in Seq(1..MaxStamp)
         /\ snapOpen' <= snapOpen
         /\ snapOpen' = snapUnknown' + Len(snapDue')
<1>1. CASE snapVars' = snapVars
  BY <1>1 DEF TypeOK, snapVars
<1>2. CASE snapVars' # snapVars
  <2>1. PICK k \in 0..Len(snapDue) :
          /\ k > 0
          /\ snapDue' = SubSeq(snapDue, k + 1, Len(snapDue))
          /\ snapOpen' = IF k >= snapOpen THEN 0 ELSE snapOpen - k
          /\ snapUnknown' = IF snapUnknown > snapOpen' THEN snapOpen' ELSE snapUnknown
    BY <1>2 DEF ProcessSnapshot
  <2>2. snapDue \in Seq(1..MaxStamp) /\ snapOpen \in Nat /\ snapUnknown \in Nat
    BY DEF TypeOK
  <2>3. snapDue' \in Seq(1..MaxStamp) /\ Len(snapDue') = Len(snapDue) - k
    BY <2>1, <2>2, DroppedType
  <2>4. Len(snapDue) \in Nat
    BY <2>2, DueElements
  <2>5. snapOpen' \in Nat /\ snapOpen' <= snapOpen
    BY <2>1, <2>2, <2>4
  <2>6. snapUnknown' \in Nat /\ snapOpen' = snapUnknown' + (Len(snapDue) - k)
    BY <2>1, <2>2, <2>4
  <2>7. QED  BY <2>3, <2>5, <2>6
<1>3. QED  BY <1>1, <1>2

(* A broker snapshot is taken over with all three fields in step.             *)
LEMMA AppliedFields ==
  ASSUME TypeOK, NEW n \in 0..MaxSnapshot, NEW times \in TimeLists,
         SnapshotApplied(n, times)
  PROVE  /\ snapOpen' = n /\ snapOpen' \in Nat /\ snapUnknown' \in Nat
         /\ snapDue' \in Seq(1..MaxStamp)
         /\ snapOpen' = snapUnknown' + Len(snapDue')
<1>1. PICK k \in 0..MaxSnapshot : times \in [1..k -> CloseTimes]
  BY DEF TimeLists
<1>2. PICK due \in SortedDue(times) : snapDue' = Trimmed(due, n)
  BY DEF SnapshotApplied
<1>3. due \in Seq(1..MaxStamp)
  BY <1>1, SortedDueType, LimitsNatural
<1>4. n \in Nat
  BY LimitsNatural
<1>5. snapDue' \in Seq(1..MaxStamp) /\ Len(snapDue') <= n
  BY <1>2, <1>3, <1>4, TrimmedType
<1>6. Len(snapDue') \in Nat
  BY <1>5, DueElements
<1>7. QED  BY <1>4, <1>5, <1>6 DEF SnapshotApplied

(* A report has the type of the states it may show.                          *)
LEMMA DispatchType ==
  ASSUME TypeOK, NEW S, NEW s, Dispatch(S, s),
         \A t \in S \cap Trades : s[t] \in TradeStates
  PROVE  reported' \in [Trades -> TradeStates \cup {"NEW"}] /\ finalReports' \in [Trades -> Nat]
BY DEF TypeOK, Dispatch

(* Tokens stay flags.                                                       *)
LEMMA CancelType ==
  ASSUME TypeOK, NEW S, Cancel(S)
  PROVE  token' \in [Trades -> BOOLEAN]
BY DEF TypeOK, Cancel

(* Every step keeps the types; the snapshot's fields need the counting fact.  *)
LEMMA TypeStep ==
  ASSUME TypeOK, localOpen = Cardinality(openTx),
         snapOpen = snapUnknown + Len(snapDue), [Next]_vars
  PROVE  TypeOK'
<1> USE DEF queueVars, tradeVars, reportVars, orderVars, snapVars, fenceVars
<1> DEFINE Report == /\ reported' \in [Trades -> TradeStates \cup {"NEW"}]
                     /\ finalReports' \in [Trades -> Nat]
<1>1. CASE UNCHANGED vars
  BY <1>1 DEF TypeOK, vars
<1>2. CASE Tick
  BY <1>2 DEF TypeOK, Tick
<1>3. ASSUME NEW t \in Trades, Client(t)  PROVE TypeOK'
  <2>1. CASE Stamp(t)
    BY <2>1 DEF TypeOK, Stamp, States
  <2>2. CASE Refuse(t)
    BY <2>2 DEF TypeOK, Refuse, States
  <2>3. CASE Enqueue(t)
    BY <2>3 DEF TypeOK, Enqueue, States, TradeStates
  <2>4. QED  BY <1>3, <2>1, <2>2, <2>3 DEF Client
<1>4. CASE BusDone \/ HttpDone \/ TasksDone
  BY <1>4 DEF TypeOK, BusDone, HttpDone, TasksDone, Turn, Phases
<1>5. CASE ProcessSnapshot
  <2>1. /\ snapOpen' \in Nat /\ snapUnknown' \in Nat
        /\ snapDue' \in Seq(1..MaxStamp)
    BY <1>5, SnapshotFields
  <2>2. refreshRequested' \in BOOLEAN
    BY <1>5 DEF TypeOK, ProcessSnapshot, RequestRefresh
  <2>3. publicOpen' \in Nat
    BY <1>5, <2>1 DEF TypeOK, ProcessSnapshot
  <2>4. QED  BY <1>5, <2>1, <2>2, <2>3 DEF TypeOK, ProcessSnapshot, Phases
<1>6. CASE PendingWait
  <2>1. token' \in [Trades -> BOOLEAN]
    BY <1>6, CancelType DEF PendingWait
  <2>2. st' \in [Trades -> States]
    BY <1>6 DEF TypeOK, PendingWait, Moved, States, TradeStates, Terminal
  <2>3. QED  BY <1>6, <2>1, <2>2 DEF TypeOK, PendingWait, Phases
<1>7. ASSUME NEW t \in Trades, PendingSend(t)  PROVE TypeOK'
  <2>1. token' \in [Trades -> BOOLEAN]
    BY <1>7, CancelType DEF PendingSend
  <2>2. st' \in [Trades -> States]
    BY <1>7 DEF TypeOK, PendingSend, Moved, States, TradeStates, Terminal
  <2>3. Dispatch({t}, st') /\ st'[t] \in TradeStates
    BY <1>7 DEF TypeOK, PendingSend, Moved, TradeStates
  <2>4. Report
    BY <2>3, DispatchType
  <2>5. call' \in [Trades -> Calls]
    BY <1>7 DEF TypeOK, PendingSend, Calls
  <2>6. localOpen' \in Nat /\ publicOpen' \in Nat
    <3>1. /\ localOpen' = localOpen + 1
          /\ publicOpen' = localOpen + 1 + snapOpen
      BY <1>7 DEF PendingSend
    <3>2. localOpen \in Nat /\ snapOpen \in Nat
      BY DEF TypeOK
    <3>3. QED  BY <3>1, <3>2
  <2>7. QED  BY <1>7, <2>1, <2>2, <2>4, <2>5, <2>6 DEF TypeOK, PendingSend, Phases
<1>8. ASSUME NEW t \in Trades, PendingInvalid(t)  PROVE TypeOK'
  <2>1. token' \in [Trades -> BOOLEAN]
    BY <1>8, CancelType DEF PendingInvalid
  <2>2. st' \in [Trades -> States]
    BY <1>8 DEF TypeOK, PendingInvalid, Moved, States, TradeStates, Terminal
  <2>3. Dispatch({t}, st') /\ st'[t] \in TradeStates
    BY <1>8 DEF TypeOK, PendingInvalid, Moved, TradeStates, Terminal
  <2>4. Report
    BY <2>3, DispatchType
  <2>5. QED  BY <1>8, <2>1, <2>2, <2>4 DEF TypeOK, PendingInvalid, Phases
<1>9. CASE ProcessClosing
  <2>1. token' \in [Trades -> BOOLEAN]
    BY <1>9, CancelType DEF ProcessClosing
  <2>2. st' \in [Trades -> States]
    BY <1>9 DEF TypeOK, ProcessClosing, States, TradeStates, Terminal
  <2>3. Report
    BY <1>9 DEF TypeOK, ProcessClosing, Dispatch, TradeStates, Terminal
  <2>4. Cardinality(Overdue) \in Nat
    BY TradesCounted DEF TypeOK, Overdue
  <2>5. localOpen' \in Nat /\ publicOpen' \in Nat
    <3>1. Decremented(Cardinality(Overdue)) \in Nat
      BY <2>4, DecrementedType DEF TypeOK
    <3>2. PublishedAfter(Cardinality(Overdue)) \in Nat
      BY <3>1 DEF TypeOK, PublishedAfter
    <3>3. QED  BY <1>9, <3>1, <3>2 DEF ProcessClosing
  <2>6. call' \in [Trades -> Calls]
    BY <1>9 DEF TypeOK, ProcessClosing, Calls
  <2>7. QED  BY <1>9, <2>1, <2>2, <2>3, <2>5, <2>6 DEF TypeOK, ProcessClosing, Phases
<1>10. CASE ProcessFinalizing
  <2>1. token' \in [Trades -> BOOLEAN]
    BY <1>10, CancelType DEF ProcessFinalizing
  <2>2. Report
    BY <1>10, DispatchType DEF ProcessFinalizing, Ended, TradeStates
  <2>3. Cardinality(Ended) \in Nat
    BY TradesCounted DEF TypeOK, Ended
  <2>4. localOpen' \in Nat /\ publicOpen' \in Nat
    <3>1. Decremented(Cardinality(Ended)) \in Nat
      BY <2>3, DecrementedType DEF TypeOK
    <3>2. PublishedAfter(Cardinality(Ended)) \in Nat
      BY <3>1 DEF TypeOK, PublishedAfter
    <3>3. QED  BY <1>10, <3>1, <3>2 DEF ProcessFinalizing
  <2>5. QED  BY <1>10, <2>1, <2>2, <2>4 DEF TypeOK, ProcessFinalizing, Phases
<1>11. CASE DisconnectRequest \/ Shutdown
  <2>1. FinalizeAll
    BY <1>11 DEF DisconnectRequest, Shutdown
  <2>2. token' \in [Trades -> BOOLEAN]
    BY <2>1, CancelType DEF FinalizeAll
  <2>3. st' \in [Trades -> States]
    BY <2>1 DEF TypeOK, FinalizeAll, States, TradeStates, Terminal
  <2>4. Report
    BY <2>1 DEF TypeOK, FinalizeAll, Dispatch, TradeStates, Terminal
  <2>5. Cardinality(openTx) \in Nat
    BY TradesCounted DEF TypeOK
  <2>6. localOpen' \in Nat /\ publicOpen' \in Nat
    BY <2>1, <2>5, DecrementedType DEF TypeOK, FinalizeAll, PublishedAfter
  <2>7. snapDue' \in Seq(1..MaxStamp)
    BY <2>1, EmptySeq DEF FinalizeAll
  <2>8. QED
    BY <1>11, <2>1, <2>2, <2>3, <2>4, <2>6, <2>7
    DEF TypeOK, FinalizeAll, DisconnectRequest, Shutdown, Phases
<1>12. ASSUME NEW t \in Trades, HttpReply(t) \/ StartCheck(t)  PROVE TypeOK'
  <2>1. CASE OpenFailed(t) \/ OpenBalanceReply(t)
    BY <2>1 DEF TypeOK, OpenFailed, OpenBalanceReply, Calls, States, TradeStates, Terminal
  <2>2. CASE OpenAccepted(t)
    BY SMTT(30), <2>2, LimitsNatural DEF TypeOK, OpenAccepted, Calls
  <2>3. CASE CheckFailed(t) \/ CheckBalanceReply(t)
    BY ZenonT(30), <2>3 DEF TypeOK, CheckFailed, CheckBalanceReply, Calls, States, TradeStates, Terminal
  <2>4. CASE CheckAnswered(t) \/ StartCheck(t)
    BY <2>4 DEF TypeOK, CheckAnswered, StartCheck, Calls
  <2>5. QED  BY <1>12, <2>1, <2>2, <2>3, <2>4 DEF HttpReply
<1>13. ASSUME NEW Q \in SUBSET openTx, PriceUpdate(Q)  PROVE TypeOK'
  <2>1. Report
    BY <1>13 DEF TypeOK, PriceUpdate, Dispatch, TradeStates
  <2>2. st' \in [Trades -> States]
    BY <1>13 DEF TypeOK, PriceUpdate, Moved, States, TradeStates
  <2>3. QED  BY <1>13, <2>1, <2>2 DEF TypeOK, PriceUpdate
<1>14. CASE SnapshotSkipped
  BY <1>14 DEF TypeOK, SnapshotSkipped, RequestRefresh
<1>15. ASSUME NEW n \in 0..MaxSnapshot, NEW times \in TimeLists, SnapshotApplied(n, times)
       PROVE  TypeOK'
  <2>1. snapOpen' \in Nat /\ snapUnknown' \in Nat /\ snapDue' \in Seq(1..MaxStamp)
        /\ n \in Nat
    BY <1>15, AppliedFields
  <2>2. QED  BY <1>15, <2>1 DEF TypeOK, SnapshotApplied
<1>16. CASE SnapshotUnavailable
  <2>1. snapDue' \in Seq(1..MaxStamp)
    BY <1>16, EmptySeq DEF SnapshotUnavailable
  <2>2. QED  BY <1>16, <2>1 DEF TypeOK, SnapshotUnavailable
<1>17. CASE ConnectionChange
  BY <1>17 DEF TypeOK, ConnectionChange
<1>18. QED
  BY <1>1, <1>2, <1>3, <1>4, <1>5, <1>6, <1>7, <1>8, <1>9, <1>10, <1>11, <1>12, <1>13,
     <1>14, <1>15, <1>16, <1>17
  DEF Next, Loop, Events

-----------------------------------------------------------------------------
(* The inductive invariant.                                                *)

Early == {"NEW", "STAMPED", "REJECTED"}
Checks == {"checkDelay", "check", "checkBalance"}

(* Where a trade is and what state it has: the queue holds UNKNOWN requests,   *)
(* the open list holds sent ones, and only a sent order has a broker call.     *)
Placement ==
  \A t \in Trades :
    /\ t \in pending => st[t] = "UNKNOWN"
    /\ t \in openTx => st[t] \in TradeStates \ {"UNKNOWN"}
    /\ st[t] \in Early \cup {"UNKNOWN"} => call[t] = "none"

(* Without the snapshot requirement the fence is never up.                   *)
FenceOptional == RequireSnapshot \/ ready

IInv ==
  /\ TypeOK /\ CountersAgree /\ Placement /\ FenceOptional
  /\ UnknownTradesAwaitRefresh /\ PublicCountExact /\ LimitRespected
  /\ CheckOwnsItsTrade /\ EndedTradesAreFlushed /\ FinalReportOnce

(* The initial states satisfy it.                                           *)
LEMMA InitIInv == Init => IInv
<1> SUFFICES ASSUME Init PROVE IInv
  OBVIOUS
<1>1. TypeOK
  BY EmptySeq, SnapshotFlag DEF Init, TypeOK, Phases, States, Calls
<1>2. CountersAgree
  BY FS_EmptySet, EmptySeq DEF Init, CountersAgree
<1>3. Placement /\ FenceOptional
  BY DEF Init, Placement, FenceOptional
<1>4. UnknownTradesAwaitRefresh /\ PublicCountExact /\ LimitRespected
  BY DEF Init, UnknownTradesAwaitRefresh, PublicCountExact, LimitRespected
<1>5. CheckOwnsItsTrade /\ EndedTradesAreFlushed
  BY DEF Init, CheckOwnsItsTrade, EndedTradesAreFlushed
<1>6. FinalReportOnce
  BY DEF Init, FinalReportOnce
<1>7. QED  BY <1>1, <1>2, <1>3, <1>4, <1>5, <1>6 DEF IInv

(* Every step keeps trades where their states say they are.                  *)
LEMMA PlacementStep ==
  ASSUME IInv, [Next]_vars
  PROVE  Placement' /\ FenceOptional'
<1> USE DEF IInv, Placement, FenceOptional, TypeOK, Early, queueVars, tradeVars,
            reportVars, orderVars, snapVars, fenceVars
<1>1. CASE UNCHANGED vars
  BY <1>1 DEF vars
<1>2. CASE Tick \/ BusDone \/ HttpDone \/ TasksDone \/ ProcessSnapshot
  BY <1>2 DEF Tick, BusDone, HttpDone, TasksDone, Turn, ProcessSnapshot
<1>3. ASSUME NEW t \in Trades, Client(t)  PROVE Placement' /\ FenceOptional'
  <2>1. CASE Stamp(t)
    BY <2>1 DEF Stamp, TradeStates, Terminal
  <2>2. CASE Refuse(t)
    BY <2>2 DEF Refuse, TradeStates, Terminal
  <2>3. CASE Enqueue(t)
    BY <2>3 DEF Enqueue, TradeStates, Terminal
  <2>4. QED  BY <1>3, <2>1, <2>2, <2>3 DEF Client
<1>4. CASE PendingWait
  BY <1>4 DEF PendingWait, Moved, Expired
<1>5. ASSUME NEW t \in Trades, PendingSend(t)  PROVE Placement' /\ FenceOptional'
  BY <1>5 DEF PendingSend, Moved, Expired, IsFront, TradeStates
<1>6. ASSUME NEW t \in Trades, PendingInvalid(t)  PROVE Placement' /\ FenceOptional'
  BY <1>6 DEF PendingInvalid, Moved, Expired, IsFront
<1>7. CASE ProcessClosing
  BY <1>7 DEF ProcessClosing, Opened, Overdue, Due, TradeStates
<1>8. CASE ProcessFinalizing
  BY <1>8 DEF ProcessFinalizing
<1>9. CASE DisconnectRequest \/ Shutdown
  BY <1>9 DEF DisconnectRequest, Shutdown, FinalizeAll
<1>10. ASSUME NEW t \in Trades, HttpReply(t) \/ StartCheck(t)
       PROVE  Placement' /\ FenceOptional'
  <2>1. CASE OpenFailed(t) \/ OpenBalanceReply(t) \/ OpenAccepted(t)
    BY <2>1 DEF OpenFailed, OpenBalanceReply, OpenAccepted, TradeStates, Terminal
  <2>2. CASE CheckFailed(t) \/ CheckBalanceReply(t)
    <3>1. st[t] \notin Early \cup {"UNKNOWN"} /\ t \notin pending
      BY <2>2 DEF CheckFailed, CheckBalanceReply
    <3>2. /\ UNCHANGED <<pending, openTx, ready>> /\ call' = [call EXCEPT ![t] = "none"]
          /\ \E s \in {st[t], "CHECK_ERROR", "SETTLED"} : st' = [st EXCEPT ![t] = s]
      BY <2>2 DEF CheckFailed, CheckBalanceReply
    <3>3. QED  BY <3>1, <3>2 DEF TradeStates, Terminal
  <2>3. CASE CheckAnswered(t) \/ StartCheck(t)
    BY <2>3 DEF CheckAnswered, StartCheck
  <2>4. QED  BY <1>10, <2>1, <2>2, <2>3 DEF HttpReply
<1>11. ASSUME NEW Q \in SUBSET openTx, PriceUpdate(Q)  PROVE Placement' /\ FenceOptional'
  BY <1>11 DEF PriceUpdate, Moved, Opened, TradeStates
<1>12. CASE \/ SnapshotSkipped \/ SnapshotUnavailable \/ ConnectionChange
            \/ \E n \in 0..MaxSnapshot, times \in TimeLists : SnapshotApplied(n, times)
  BY <1>12 DEF SnapshotSkipped, SnapshotUnavailable, ConnectionChange, SnapshotApplied
<1>13. QED
  BY <1>1, <1>2, <1>3, <1>4, <1>5, <1>6, <1>7, <1>8, <1>9, <1>10, <1>11, <1>12
  DEF Next, Loop, Events

(* Every step that opens or closes trades keeps the two counters exact, and    *)
(* publishes the new count.                                                  *)
LEMMA CountingStep ==
  ASSUME IInv, TypeOK', [Next]_vars
  PROVE  CountersAgree' /\ PublicCountExact' /\ LimitRespected'
<1> DEFINE Goal == CountersAgree' /\ PublicCountExact' /\ LimitRespected'
<1> USE DEF CountersAgree, PublicCountExact, LimitRespected, queueVars, tradeVars,
            reportVars, orderVars, snapVars, fenceVars
<1>0. /\ localOpen = Cardinality(openTx)
      /\ snapOpen = snapUnknown + Len(snapDue)
      /\ ready => publicOpen = localOpen + snapOpen
      /\ localOpen > 0 => localOpen + snapOpen <= MaxTrades
      /\ localOpen \in Nat /\ snapOpen \in Nat /\ publicOpen \in Nat
  BY DEF IInv, TypeOK
<1>1. CASE UNCHANGED <<openTx, localOpen, snapVars, publicOpen, ready>>
  BY <1>0, <1>1
<1>2. CASE ProcessSnapshot
  <2>1. snapOpen' = snapUnknown' + Len(snapDue') /\ snapOpen' <= snapOpen /\ snapOpen' \in Nat
    BY <1>2, SnapshotFields DEF IInv
  <2>2. UNCHANGED <<openTx, localOpen, ready>>
    BY <1>2 DEF ProcessSnapshot
  <2>3. ready => publicOpen' = localOpen + snapOpen'
    BY <1>0, <1>2 DEF ProcessSnapshot
  <2>4. QED  BY <1>0, <2>1, <2>2, <2>3, LimitsNatural
<1>3. ASSUME NEW t \in Trades, PendingSend(t)  PROVE Goal
  <2>1. t \notin openTx
    BY <1>3 DEF IInv, Placement, PendingSend, IsFront
  <2>2. openTx \in SUBSET Trades
    BY DEF IInv, TypeOK
  <2>3. IsFiniteSet(openTx)
    BY <2>2, TradesCounted
  <2>4. Cardinality(openTx \cup {t}) = Cardinality(openTx) + 1
    BY <2>1, <2>3, FS_AddElement
  <2>5. ready /\ publicOpen < MaxTrades
    BY <1>3 DEF IInv, FenceOptional, TypeOK, PendingSend, MaySend
  <2>6. QED  BY SMTT(30), <1>0, <1>3, <2>4, <2>5, LimitsNatural DEF PendingSend
<1>4. ASSUME NEW S \in SUBSET openTx,
             openTx' = openTx \ S, localOpen' = Decremented(Cardinality(S)),
             publicOpen' = PublishedAfter(Cardinality(S)), UNCHANGED <<snapVars, ready>>
      PROVE  Goal
  <2>1. localOpen' = Cardinality(openTx')
    BY <1>0, <1>4, DecrementedCounts DEF IInv
  <2>2. openTx \in SUBSET Trades /\ S \in SUBSET Trades
    BY DEF IInv, TypeOK
  <2>3. Cardinality(S) \in Nat /\ (Cardinality(S) = 0 => S = {})
    BY <2>2, TradesCounted, FS_EmptySet
  <2>4. localOpen' \in Nat /\ localOpen' <= localOpen
    BY <1>0, <1>4, <2>3, DecrementedType
  <2>5. localOpen = 0 => localOpen' = 0
    BY <1>0, <2>4
  <2>6. Cardinality(S) = 0 => localOpen' = localOpen
    BY <1>0, <1>4, DecrementedType
  <2>7. ready => publicOpen' = localOpen' + snapOpen
    BY <1>0, <1>4, <2>3, <2>4, <2>5, <2>6 DEF PublishedAfter
  <2>8. QED  BY <1>0, <1>4, <2>1, <2>4, <2>7, LimitsNatural
<1>5. CASE ProcessClosing
  BY <1>4, <1>5 DEF ProcessClosing, Overdue
<1>6. CASE ProcessFinalizing
  BY <1>4, <1>6 DEF ProcessFinalizing, Ended
<1>7. CASE DisconnectRequest \/ Shutdown
  <2>1. FinalizeAll /\ (ready' => ready)
    BY <1>7 DEF DisconnectRequest, Shutdown, IInv, TypeOK
  <2>2. /\ openTx' = {} /\ snapOpen' = 0 /\ snapUnknown' = 0 /\ snapDue' = <<>>
        /\ localOpen' = Decremented(Cardinality(openTx))
    BY <2>1 DEF FinalizeAll
  <2>3. openTx \ openTx = {}
    OBVIOUS
  <2>4. localOpen' = 0
    BY <1>0, <2>2, <2>3, DecrementedCounts, FS_EmptySet DEF IInv
  <2>5. ready => publicOpen' = 0
    <3>1. CASE snapOpen # 0 \/ snapUnknown # 0 \/ snapDue # <<>>
      BY <3>1, <2>1, <2>4 DEF FinalizeAll
    <3>2. CASE snapOpen = 0 /\ snapUnknown = 0 /\ snapDue = <<>>
      <4>1. publicOpen' = PublishedAfter(Cardinality(openTx))
        BY <2>1, <3>2 DEF FinalizeAll
      <4>2. PublishedAfter(Cardinality(openTx)) =
              IF Cardinality(openTx) > 0 /\ localOpen > 0 THEN 0 ELSE publicOpen
        BY <2>2, <2>4, <3>2 DEF PublishedAfter
      <4>3. QED  BY <1>0, <3>2, <4>1, <4>2
    <3>3. QED  BY <3>1, <3>2
  <2>6. QED  BY <2>1, <2>2, <2>4, <2>5, FS_EmptySet, EmptySeq
<1>8. ASSUME NEW n \in 0..MaxSnapshot, NEW times \in TimeLists, SnapshotApplied(n, times)
      PROVE  Goal
  <2>1. snapOpen' = n /\ n \in Nat /\ snapOpen' = snapUnknown' + Len(snapDue')
    BY <1>8, AppliedFields DEF IInv
  <2>2. localOpen = 0
    BY <1>0, <1>8 DEF SnapshotApplied, SnapshotBlocked
  <2>3. publicOpen' = localOpen' + snapOpen'
    BY <1>8, <2>1 DEF SnapshotApplied
  <2>4. openTx' = openTx /\ localOpen' = 0
    BY <1>8, <2>2 DEF SnapshotApplied
  <2>5. localOpen' = Cardinality(openTx')
    BY <1>0, <2>2, <2>4
  <2>6. QED  BY <2>1, <2>3, <2>4, <2>5
<1>9. CASE SnapshotUnavailable
  <2>1. /\ snapOpen' = 0 /\ snapUnknown' = 0 /\ Len(snapDue') = 0
        /\ ready' = FALSE /\ openTx' = openTx /\ localOpen' = localOpen
    BY <1>9, EmptySeq DEF SnapshotUnavailable
  <2>2. localOpen' = Cardinality(openTx') /\ snapOpen' = snapUnknown' + Len(snapDue')
    BY <1>0, <2>1
  <2>3. localOpen' > 0 => localOpen' + snapOpen' <= MaxTrades
    BY <1>0, <2>1, LimitsNatural
  <2>4. QED  BY <2>1, <2>2, <2>3
<1>10. QED
  BY <1>1, <1>2, <1>3, <1>5, <1>6, <1>7, <1>8, <1>9
  DEF vars, Next, Loop, Events, Client, HttpReply, Tick, Stamp, Refuse, Enqueue, BusDone,
      HttpDone, TasksDone, Turn, PendingWait, PendingInvalid, OpenFailed, OpenAccepted,
      OpenBalanceReply, StartCheck, CheckFailed, CheckAnswered, CheckBalanceReply,
      PriceUpdate, SnapshotSkipped, ConnectionChange

(* A refresh is on request while a close time is unknown, since only a new     *)
(* snapshot brings unknown times and only a cleared one takes the request back. *)
LEMMA RefreshStep ==
  ASSUME IInv, TypeOK', [Next]_vars
  PROVE  UnknownTradesAwaitRefresh'
<1> USE DEF IInv, UnknownTradesAwaitRefresh, fenceVars, snapVars
<1>1. CASE UNCHANGED <<snapVars, refreshRequested>>
  BY <1>1
<1>2. CASE ProcessSnapshot
  <2>1. snapUnknown' > 0 => snapUnknown > 0
    <3>1. \/ snapUnknown' = snapUnknown
          \/ snapUnknown > snapOpen' /\ snapUnknown' = snapOpen'
      BY <1>2 DEF ProcessSnapshot
    <3>2. snapUnknown \in Nat /\ snapOpen' \in Nat
      BY DEF TypeOK
    <3>3. QED  BY <3>1, <3>2
  <2>2. refreshRequested' \/ refreshRequested' = refreshRequested
    BY <1>2 DEF ProcessSnapshot, RequestRefresh
  <2>3. QED  BY <2>1, <2>2
<1>3. CASE DisconnectRequest \/ Shutdown \/ SnapshotUnavailable
  BY <1>3 DEF DisconnectRequest, Shutdown, SnapshotUnavailable, FinalizeAll
<1>4. CASE \/ SnapshotSkipped
           \/ \E n \in 0..MaxSnapshot, times \in TimeLists : SnapshotApplied(n, times)
  BY <1>4 DEF SnapshotSkipped, SnapshotApplied, RequestRefresh
<1>5. QED
  BY <1>1, <1>2, <1>3, <1>4
  DEF vars, Next, Loop, Events, Client, HttpReply, Tick, Stamp, Refuse, Enqueue, BusDone,
      HttpDone, TasksDone, Turn, PendingWait, PendingSend, PendingInvalid, ProcessClosing,
      ProcessFinalizing, OpenFailed, OpenAccepted, OpenBalanceReply, StartCheck,
      CheckFailed, CheckAnswered, CheckBalanceReply, PriceUpdate, ConnectionChange

(* A live check belongs to an open trade that waits for it: the one action that *)
(* starts a check puts the trade in that state, and whatever takes a trade off  *)
(* the list clears its token in the same step.                               *)
LEMMA CheckStep ==
  ASSUME IInv, [Next]_vars
  PROVE  CheckOwnsItsTrade'
<1> USE DEF IInv, TypeOK, CheckOwnsItsTrade, queueVars, tradeVars, reportVars, orderVars,
            snapVars, fenceVars
<1>1. CASE UNCHANGED <<openTx, st, token, call>>
  BY <1>1
<1>2. ASSUME NEW t \in Trades, Client(t)  PROVE CheckOwnsItsTrade'
  <2>1. st[t] \in {"NEW", "STAMPED"} /\ call[t] = "none"
    BY <1>2 DEF Client, Stamp, Refuse, Enqueue, Placement, Early
  <2>2. /\ openTx' = openTx /\ call' = call
        /\ \A u \in Trades \ {t} : st'[u] = st[u] /\ token'[u] = token[u]
    BY <1>2 DEF Client, Stamp, Refuse, Enqueue
  <2>3. QED  BY <2>1, <2>2
<1>3. CASE PendingWait \/ \E t \in Trades : PendingInvalid(t)
  BY <1>3 DEF PendingWait, PendingInvalid, Moved, Cancel, Expired, IsFront, Placement, Early
<1>4. ASSUME NEW t \in Trades, PendingSend(t)  PROVE CheckOwnsItsTrade'
  BY <1>4 DEF PendingSend, Moved, Cancel, Expired, IsFront, Placement, Early
<1>5. CASE ProcessClosing
  <2> SUFFICES ASSUME NEW t \in Trades, token'[t], call'[t] \in Checks
               PROVE  t \in openTx' /\ st'[t] = "WAITING_CLOSE"
    BY DEF Checks
  <2>1. token[t] /\ t \notin Overdue
    BY <1>5 DEF ProcessClosing, Cancel
  <2>2. CASE t \in Due
    BY <1>5, <2>1, <2>2 DEF ProcessClosing, Due, Opened
  <2>3. CASE t \notin Due
    BY <1>5, <2>1, <2>3 DEF ProcessClosing, Opened, Checks
  <2>4. QED  BY <2>2, <2>3
<1>6. CASE ProcessFinalizing
  BY <1>6 DEF ProcessFinalizing, Cancel, Ended, Terminal
<1>7. CASE DisconnectRequest \/ Shutdown
  BY <1>7 DEF DisconnectRequest, Shutdown, FinalizeAll, Cancel
<1>8. ASSUME NEW t \in Trades, HttpReply(t) \/ StartCheck(t)  PROVE CheckOwnsItsTrade'
  <2>1. CASE OpenFailed(t) \/ OpenBalanceReply(t)
    BY ZenonT(30), <2>1 DEF OpenFailed, OpenBalanceReply
  <2>2. CASE OpenAccepted(t)
    BY <2>2 DEF OpenAccepted
  <2>3. CASE CheckFailed(t) \/ CheckBalanceReply(t)
    BY <2>3 DEF CheckFailed, CheckBalanceReply
  <2>4. CASE CheckAnswered(t) \/ StartCheck(t)
    BY <2>4 DEF CheckAnswered, StartCheck
  <2>5. QED  BY <1>8, <2>1, <2>2, <2>3, <2>4 DEF HttpReply
<1>9. ASSUME NEW Q \in SUBSET openTx, PriceUpdate(Q)  PROVE CheckOwnsItsTrade'
  BY <1>9 DEF PriceUpdate, Moved, Opened
<1>10. QED
  BY <1>1, <1>2, <1>3, <1>4, <1>5, <1>6, <1>7, <1>8, <1>9
  DEF vars, Next, Loop, Events, Tick, BusDone, HttpDone, TasksDone, Turn, ProcessSnapshot,
      SnapshotSkipped, SnapshotApplied, SnapshotUnavailable, ConnectionChange

(* No ended trade is on the list once process_finalizing_transactions ran, until *)
(* the next answers arrive.                                                  *)
LEMMA FlushStep ==
  ASSUME IInv, [Next]_vars
  PROVE  EndedTradesAreFlushed'
<1> USE DEF IInv, TypeOK, EndedTradesAreFlushed, queueVars, tradeVars, reportVars,
            orderVars, snapVars, fenceVars
<1>1. CASE UNCHANGED <<phase, openTx, st>>
  BY <1>1
<1>2. ASSUME NEW t \in Trades, Client(t)  PROVE EndedTradesAreFlushed'
  <2>1. t \notin openTx
    BY <1>2 DEF Client, Stamp, Refuse, Enqueue, Placement, TradeStates, Terminal
  <2>2. /\ openTx' = openTx /\ phase' = phase
        /\ \A u \in Trades \ {t} : st'[u] = st[u]
    BY <1>2 DEF Client, Stamp, Refuse, Enqueue
  <2>3. QED  BY <2>1, <2>2
<1>3. CASE BusDone \/ HttpDone \/ TasksDone
  BY <1>3 DEF BusDone, HttpDone, TasksDone, Turn
<1>4. CASE ProcessFinalizing
  BY <1>4 DEF ProcessFinalizing, Ended
<1>5. CASE \/ ProcessSnapshot \/ PendingWait \/ ProcessClosing
           \/ \E t \in Trades : PendingSend(t) \/ PendingInvalid(t)
  BY <1>5 DEF ProcessSnapshot, PendingWait, ProcessClosing, PendingSend, PendingInvalid
<1>6. CASE DisconnectRequest \/ Shutdown
  BY <1>6 DEF DisconnectRequest, Shutdown, FinalizeAll
<1>7. ASSUME NEW t \in Trades, HttpReply(t) \/ StartCheck(t)  PROVE EndedTradesAreFlushed'
  BY <1>7
  DEF HttpReply, OpenFailed, OpenAccepted, OpenBalanceReply, StartCheck, CheckFailed,
      CheckAnswered, CheckBalanceReply
<1>8. ASSUME NEW Q \in SUBSET openTx, PriceUpdate(Q)  PROVE EndedTradesAreFlushed'
  BY <1>8 DEF PriceUpdate, Moved, Opened, Terminal
<1>9. QED
  BY <1>1, <1>2, <1>3, <1>4, <1>5, <1>6, <1>7, <1>8
  DEF vars, Next, Loop, Events, Tick, SnapshotSkipped, SnapshotApplied,
      SnapshotUnavailable, ConnectionChange

(* A terminal state is reported in the very step that takes the trade out of    *)
(* the queue's hands, and nothing is reported for a trade that is out of them.  *)
LEMMA ReportOnceStep ==
  ASSUME IInv, [Next]_vars
  PROVE  FinalReportOnce'
<1> USE DEF IInv, TypeOK, FinalReportOnce, Finished, queueVars, tradeVars, reportVars,
            orderVars, snapVars, fenceVars
<1>0. \A t \in pending \cup openTx : t \in Trades /\ finalReports[t] = 0
  OBVIOUS
<1>1. CASE UNCHANGED <<pending, openTx, st, finalReports>>
  BY <1>1
<1>2. ASSUME NEW t \in Trades, Client(t)  PROVE FinalReportOnce'
  <2>1. st[t] \in Early /\ finalReports[t] = 0
    BY <1>2 DEF Client, Stamp, Refuse, Enqueue, Early
  <2>2. /\ openTx' = openTx /\ finalReports' = finalReports
        /\ \A u \in Trades \ {t} : st'[u] = st[u] /\ (u \in pending' => u \in pending)
    BY <1>2 DEF Client, Stamp, Refuse, Enqueue
  <2>3. QED  BY <2>1, <2>2
<1>3. CASE PendingWait
  BY <1>3 DEF PendingWait, Moved, Expired
<1>4. ASSUME NEW t \in Trades, PendingSend(t)  PROVE FinalReportOnce'
  <2>1. /\ t \in pending /\ t \in openTx' /\ st'[t] = "WAITING_OPEN"
        /\ Dispatch({t}, st') /\ pending' \subseteq pending /\ openTx' = openTx \cup {t}
        /\ \A u \in Trades : st'[u] \in {st[u], "OPEN_ERROR", "WAITING_OPEN"}
    BY <1>4 DEF PendingSend, IsFront, Moved
  <2>2. finalReports' = finalReports
    BY <2>1 DEF Dispatch, Terminal
  <2>3. QED  BY <1>0, <2>1, <2>2
<1>5. ASSUME NEW t \in Trades, PendingInvalid(t)  PROVE FinalReportOnce'
  <2>1. /\ t \in pending /\ t \notin pending' \cup openTx' /\ st'[t] = "OPEN_ERROR"
        /\ Dispatch({t}, st') /\ pending' \subseteq pending /\ openTx' = openTx
        /\ \A u \in Trades : st'[u] \in {st[u], "OPEN_ERROR"}
    BY <1>5 DEF PendingInvalid, IsFront, Moved, Placement
  <2>2. /\ finalReports'[t] = 1
        /\ \A u \in Trades \ {t} : finalReports'[u] = finalReports[u]
    BY <1>0, <2>1 DEF Dispatch, Terminal
  <2> SUFFICES ASSUME NEW u \in Trades
               PROVE  finalReports'[u] <= 1 /\ (finalReports'[u] = 1 => Finished(u)')
    OBVIOUS
  <2>3. CASE u = t
    BY <2>1, <2>2, <2>3
  <2>4. CASE u # t
    BY <2>1, <2>2, <2>4
  <2>5. QED  BY <2>3, <2>4
<1>6. CASE ProcessClosing
  <2>1. \A t \in Trades : finalReports'[t] = IF t \in Overdue THEN 1 ELSE finalReports[t]
    BY <1>0, <1>6 DEF ProcessClosing, Dispatch, Terminal, Opened, Overdue, Due
  <2>2. /\ pending' = pending /\ openTx' = openTx \ Overdue
        /\ \A t \in Trades : /\ t \notin openTx => st'[t] = st[t]
                             /\ t \in Overdue => t \in openTx /\ t \notin Opened /\ st'[t] = "CHECK_ERROR"
    BY <1>6 DEF ProcessClosing, Opened, Overdue, Due
  <2>3. openTx \cap pending = {}
    BY DEF Placement
  <2> SUFFICES ASSUME NEW u \in Trades
               PROVE  finalReports'[u] <= 1 /\ (finalReports'[u] = 1 => Finished(u)')
    OBVIOUS
  <2>4. CASE u \in Overdue
    <3>1. finalReports'[u] = 1
      BY <2>1, <2>4
    <3>2. u \notin pending' /\ u \notin openTx' /\ st'[u] = "CHECK_ERROR"
      BY <2>2, <2>3, <2>4
    <3>3. QED  BY ONLY <3>1, <3>2 DEF Finished
  <2>5. CASE u \notin Overdue
    <3>1. finalReports'[u] = finalReports[u]
      BY <2>1, <2>5
    <3>2. ASSUME Finished(u)  PROVE Finished(u)'
      <4>1. u \notin pending /\ u \notin openTx
        BY <3>2
      <4>2. u \notin pending' /\ u \notin openTx' /\ st'[u] = st[u]
        BY <2>2, <4>1
      <4>3. QED  BY ONLY <3>2, <4>2 DEF Finished
    <3>3. QED  BY <3>1, <3>2
  <2>6. QED  BY <2>4, <2>5
<1>7. CASE ProcessFinalizing
  <2>1. \A t \in Trades : finalReports'[t] = IF t \in Ended THEN 1 ELSE finalReports[t]
    BY <1>0, <1>7 DEF ProcessFinalizing, Dispatch, Ended
  <2>2. pending' = pending /\ openTx' = openTx \ Ended /\ st' = st
    BY <1>7 DEF ProcessFinalizing
  <2>3. \A t \in Ended : t \notin pending /\ st[t] \notin Early
    BY DEF Ended, Placement, Early, Terminal
  <2>4. QED  BY <1>0, <2>1, <2>2, <2>3 DEF Early
<1>8. CASE DisconnectRequest \/ Shutdown
  <2>1. FinalizeAll
    BY <1>8 DEF DisconnectRequest, Shutdown
  <2>2. /\ pending' = {} /\ openTx' = {}
        /\ \A t \in Trades : IF t \in pending \cup openTx
                             THEN st'[t] \in Terminal /\ finalReports'[t] = 1
                             ELSE st'[t] = st[t] /\ finalReports'[t] = finalReports[t]
    BY <1>0, <2>1 DEF FinalizeAll, Dispatch, Terminal
  <2> SUFFICES ASSUME NEW u \in Trades
               PROVE  finalReports'[u] <= 1 /\ (finalReports'[u] = 1 => Finished(u)')
    OBVIOUS
  <2>3. CASE u \in pending \cup openTx
    <3>1. st'[u] \in Terminal /\ finalReports'[u] = 1
      BY <2>2, <2>3
    <3>2. u \notin pending' \cup openTx'
      BY <2>2
    <3>3. QED  BY <3>1, <3>2 DEF Terminal
  <2>4. CASE u \notin pending \cup openTx
    BY <2>2, <2>4
  <2>5. QED  BY <2>3, <2>4
<1>9. ASSUME NEW t \in Trades, HttpReply(t) \/ StartCheck(t)  PROVE FinalReportOnce'
  <2>1. call[t] # "none" /\ st[t] \notin Early
    BY <1>9
    DEF HttpReply, OpenFailed, OpenAccepted, OpenBalanceReply, StartCheck, CheckFailed,
        CheckAnswered, CheckBalanceReply, Placement
  <2>2. /\ UNCHANGED <<pending, openTx, finalReports>>
        /\ \A u \in Trades \ {t} : st'[u] = st[u]
        /\ st'[t] = st[t] \/ st'[t] \in Terminal \cup {"OPEN_SUCCESS"}
    BY ZenonT(30), <1>9
    DEF HttpReply, OpenFailed, OpenAccepted, OpenBalanceReply, StartCheck, CheckFailed,
        CheckAnswered, CheckBalanceReply, Terminal
  <2>3. QED  BY <2>1, <2>2 DEF Early, Terminal
<1>10. ASSUME NEW Q \in SUBSET openTx, PriceUpdate(Q)  PROVE FinalReportOnce'
  <2>1. finalReports' = finalReports
    BY <1>10 DEF PriceUpdate, Dispatch, Terminal
  <2>2. QED  BY <1>10, <2>1 DEF PriceUpdate, Moved, Opened
<1>11. QED
  BY <1>1, <1>2, <1>3, <1>4, <1>5, <1>6, <1>7, <1>8, <1>9, <1>10
  DEF vars, Next, Loop, Events, Tick, BusDone, HttpDone, TasksDone, Turn, ProcessSnapshot,
      SnapshotSkipped, SnapshotApplied, SnapshotUnavailable, ConnectionChange

-----------------------------------------------------------------------------
(* The theorems.                                                           *)

(* Every step keeps the invariant.                                          *)
LEMMA StepIInv == IInv /\ [Next]_vars => IInv'
<1> SUFFICES ASSUME IInv, [Next]_vars  PROVE IInv'
  OBVIOUS
<1>1. TypeOK'
  BY TypeStep DEF IInv, CountersAgree
<1>2. Placement' /\ FenceOptional'
  BY PlacementStep
<1>3. CountersAgree' /\ PublicCountExact' /\ LimitRespected'
  BY <1>1, CountingStep
<1>4. UnknownTradesAwaitRefresh'
  BY <1>1, RefreshStep
<1>5. CheckOwnsItsTrade' /\ EndedTradesAreFlushed' /\ FinalReportOnce'
  BY CheckStep, FlushStep, ReportOnceStep
<1>6. QED  BY <1>1, <1>2, <1>3, <1>4, <1>5 DEF IInv

(* The invariant holds in every reachable state.                             *)
THEOREM Invariance == Spec => []IInv
BY InitIInv, StepIInv, PTL DEF Spec

(* The variables keep their types: no counter of trades goes negative and no    *)
(* buffered close time passes the largest time stamp.                        *)
THEOREM TypeCorrect == Spec => []TypeOK
<1>1. IInv => TypeOK
  BY DEF IInv
<1>2. QED  BY <1>1, Invariance, PTL

(* The counters of local and broker trades are exact, although four different   *)
(* paths close trades and three change the snapshot.                         *)
THEOREM CountersExact == Spec => []CountersAgree
<1>1. IInv => CountersAgree
  BY DEF IInv
<1>2. QED  BY <1>1, Invariance, PTL

(* While the broker's snapshot is known the public count is the queue's own.   *)
THEOREM PublicCount == Spec => []PublicCountExact
<1>1. IInv => PublicCountExact
  BY DEF IInv
<1>2. QED  BY <1>1, Invariance, PTL

(* Local and broker trades together stay within the account's limit.           *)
THEOREM TradeLimit == Spec => []LimitRespected
<1>1. IInv => LimitRespected
  BY DEF IInv
<1>2. QED  BY <1>1, Invariance, PTL

(* A snapshot with unknown close times is always being replaced.              *)
THEOREM UnknownTradesRefreshed == Spec => []UnknownTradesAwaitRefresh
<1>1. IInv => UnknownTradesAwaitRefresh
  BY DEF IInv
<1>2. QED  BY <1>1, Invariance, PTL

(* No answer of a live result check can reach a trade that is not waiting.     *)
THEOREM LiveChecks == Spec => []CheckOwnsItsTrade
<1>1. IInv => CheckOwnsItsTrade
  BY DEF IInv
<1>2. QED  BY <1>1, Invariance, PTL

(* Neither a disconnect nor a shutdown finds an ended trade to overwrite.      *)
THEOREM FlushedBeforeBus == Spec => []EndedTradesAreFlushed
<1>1. IInv => EndedTradesAreFlushed
  BY DEF IInv
<1>2. QED  BY <1>1, Invariance, PTL

(* No trade is reported as ended twice, or while the queue still holds it.     *)
THEOREM ReportedOnce == Spec => []FinalReportOnce
<1>1. IInv => FinalReportOnce
  BY DEF IInv
<1>2. QED  BY <1>1, Invariance, PTL

(* A settled trade leaves the list only by process_finalizing_transactions,     *)
(* which reports what it is: the deadline looks at unsettled trades only, and    *)
(* finalize_all_trades runs when no settled trade is left.                     *)
THEOREM SettledReported == Spec => SettledIsReported
<1> DEFINE A == \A t \in openTx : st[t] = "SETTLED" /\ t \notin openTx' =>
                                    reported'[t] = "SETTLED"
<1>1. ASSUME IInv, [Next]_vars  PROVE [A]_vars
  <2> SUFFICES ASSUME NEW t \in openTx, st[t] = "SETTLED", t \notin openTx', Next
               PROVE  reported'[t] = "SETTLED"
    BY <1>1
  <2> USE DEF queueVars, tradeVars, reportVars, orderVars, snapVars, fenceVars
  <2>1. t \in Trades /\ st[t] \in Terminal
    BY <1>1 DEF IInv, TypeOK, Terminal
  <2>2. phase # "bus"
    BY <1>1, <2>1 DEF IInv, EndedTradesAreFlushed
  <2>3. ~ProcessClosing
    BY DEF ProcessClosing, Overdue
  <2>4. CASE ProcessFinalizing
    BY <2>1, <2>4 DEF ProcessFinalizing, Dispatch, Ended
  <2>5. ProcessFinalizing
    BY <2>2, <2>3
    DEF Next, Loop, Events, Client, HttpReply, Tick, Stamp, Refuse, Enqueue, BusDone,
        HttpDone, TasksDone, Turn, ProcessSnapshot, PendingWait, PendingSend,
        PendingInvalid, OpenFailed, OpenAccepted, OpenBalanceReply, StartCheck,
        CheckFailed, CheckAnswered, CheckBalanceReply, PriceUpdate, SnapshotSkipped,
        SnapshotApplied, SnapshotUnavailable, ConnectionChange, DisconnectRequest, Shutdown
  <2>6. QED  BY <2>4, <2>5
<1>2. QED  BY <1>1, Invariance, PTL DEF Spec, SettledIsReported

(* An order goes out only when it may: connected, with a confirmed snapshot,    *)
(* fresh, after the order interval and in its turn.                           *)
THEOREM SafeSends == Spec => SendIsSafe
<1> DEFINE A == \A t \in openTx' \ openTx :
                  /\ connected /\ (RequireSnapshot => ready)
                  /\ now - placeDate[t] < QueueTimeout
                  /\ hasSent => now - lastOrder >= OrderInterval
                  /\ \A u \in pending : arrival[u] < arrival[t] => u \notin pending'
<1>1. ASSUME IInv, [Next]_vars  PROVE [A]_vars
  <2> SUFFICES ASSUME NEW t \in openTx' \ openTx, Next
               PROVE  /\ connected /\ (RequireSnapshot => ready)
                      /\ now - placeDate[t] < QueueTimeout
                      /\ hasSent => now - lastOrder >= OrderInterval
                      /\ \A u \in pending : arrival[u] < arrival[t] => u \notin pending'
    BY <1>1
  <2> USE DEF queueVars, tradeVars, reportVars, orderVars, snapVars, fenceVars
  <2>1. PICK r \in Trades : PendingSend(r)
    BY DEF Next, Loop, Events, Client, HttpReply, Tick, Stamp, Refuse, Enqueue, BusDone,
           HttpDone, TasksDone, Turn, ProcessSnapshot, PendingWait, PendingInvalid,
           ProcessClosing, ProcessFinalizing, OpenFailed, OpenAccepted, OpenBalanceReply,
           StartCheck, CheckFailed, CheckAnswered, CheckBalanceReply, PriceUpdate,
           SnapshotSkipped, SnapshotApplied, SnapshotUnavailable, ConnectionChange,
           DisconnectRequest, Shutdown, FinalizeAll
  <2>2. t = r /\ IsFront(t, pending \ Expired) /\ MaySend /\ connected
    BY <2>1 DEF PendingSend
  <2>3. RequireSnapshot => ready
    BY <1>1, <2>2 DEF MaySend, IInv, TypeOK
  <2>4. hasSent => now - lastOrder >= OrderInterval
    BY <2>2 DEF MaySend
  <2>5. t \in Trades /\ t \in pending /\ t \notin Expired
    BY <2>2 DEF IsFront
  <2>6. now - placeDate[t] < QueueTimeout
    BY <1>1, <2>5, LimitsNatural DEF Expired, IInv, TypeOK
  <2>7. ASSUME NEW u \in pending, arrival[u] < arrival[t]  PROVE u \notin pending'
    <3>1. u \in Trades /\ arrival[u] \in Nat /\ arrival[t] \in Nat
      BY <1>1, <2>5 DEF IInv, TypeOK
    <3>2. u \in Expired
      BY <2>2, <2>7, <3>1 DEF IsFront
    <3>3. QED  BY <2>1, <3>2 DEF PendingSend
  <2>8. QED  BY <2>2, <2>3, <2>4, <2>6, <2>7
<1>2. QED  BY <1>1, Invariance, PTL DEF Spec, SendIsSafe

-----------------------------------------------------------------------------
(* The order of the reports needs more: what the client heard last is fixed by  *)
(* the state of the trade, and an answer that will change the state can only    *)
(* be on its way in the state before it.                                      *)

(* The reports that may precede state s of an open trade.                      *)
Heard(s) ==
  CASE s \in {"WAITING_OPEN", "OPEN_SUCCESS", "OPEN_ERROR"} -> {"WAITING_OPEN"}
    [] s = "IN_PROGRESS" -> {"OPEN_SUCCESS", "IN_PROGRESS"}
    [] s \in {"WAITING_CLOSE", "CHECK_ERROR", "SETTLED"} -> {"WAITING_CLOSE"}
    [] OTHER -> {}

ReportsTrack ==
  \A t \in Trades :
    /\ t \in pending \/ st[t] \in Early => reported[t] = "NEW"
    /\ t \in openTx => reported[t] \in Heard(st[t])
    /\ t \in openTx /\ call[t] \in {"open", "openBalance"} => st[t] = "WAITING_OPEN"
    /\ t \in openTx /\ call[t] \in Checks => st[t] = "WAITING_CLOSE"

(* Every step keeps the last report in step with the state.                   *)
LEMMA TrackStep ==
  ASSUME IInv, ReportsTrack, [Next]_vars
  PROVE  ReportsTrack'
<1> USE DEF IInv, TypeOK, ReportsTrack, queueVars, tradeVars, reportVars, orderVars,
            snapVars, fenceVars
<1>1. CASE UNCHANGED <<pending, openTx, st, call, reported>>
  BY <1>1
<1>2. ASSUME NEW t \in Trades, Client(t)  PROVE ReportsTrack'
  <2>1. st[t] \in Early /\ t \notin openTx /\ reported[t] = "NEW"
    BY <1>2 DEF Client, Stamp, Refuse, Enqueue, Early, Placement, TradeStates, Terminal
  <2>2. /\ openTx' = openTx /\ reported' = reported /\ call' = call
        /\ \A u \in Trades \ {t} : st'[u] = st[u] /\ (u \in pending' => u \in pending)
    BY <1>2 DEF Client, Stamp, Refuse, Enqueue
  <2>3. QED  BY <2>1, <2>2
<1>3. CASE PendingWait
  BY <1>3 DEF PendingWait, Moved, Expired, Placement, Early
<1>4. ASSUME NEW t \in Trades, PendingSend(t)  PROVE ReportsTrack'
  <2>1. /\ t \in pending /\ openTx' = openTx \cup {t} /\ pending' \subseteq pending \ {t}
        /\ st'[t] = "WAITING_OPEN" /\ reported'[t] = "WAITING_OPEN" /\ call'[t] = "open"
    BY <1>4 DEF PendingSend, IsFront, Moved, Dispatch
  <2>2. \A u \in Trades \ {t} : /\ call'[u] = call[u] /\ reported'[u] = reported[u]
                                /\ IF u \in Expired THEN st'[u] = "OPEN_ERROR"
                                                    ELSE st'[u] = st[u]
    BY <1>4 DEF PendingSend, Moved, Dispatch
  <2>3. \A u \in Expired : u \notin openTx /\ u \notin pending'
    BY <1>4 DEF Expired, Placement, PendingSend
  <2> SUFFICES ASSUME NEW u \in Trades
               PROVE  /\ u \in pending' \/ st'[u] \in Early => reported'[u] = "NEW"
                      /\ u \in openTx' => reported'[u] \in Heard(st'[u])
                      /\ u \in openTx' /\ call'[u] \in {"open", "openBalance"} =>
                           st'[u] = "WAITING_OPEN"
                      /\ u \in openTx' /\ call'[u] \in Checks => st'[u] = "WAITING_CLOSE"
    BY DEF Heard
  <2>4. CASE u = t
    BY <2>1, <2>4 DEF Heard, Early, Checks
  <2>5. CASE u # t
    BY <2>1, <2>2, <2>3, <2>5 DEF Early
  <2>6. QED  BY <2>4, <2>5
<1>5. ASSUME NEW t \in Trades, PendingInvalid(t)  PROVE ReportsTrack'
  BY <1>5 DEF PendingInvalid, Moved, Expired, IsFront, Placement, Early, Dispatch
<1>6. CASE ProcessClosing
  <2>1. /\ pending' = pending /\ openTx' = openTx \ Overdue
    BY <1>6 DEF ProcessClosing
  <2> SUFFICES ASSUME NEW u \in Trades
               PROVE  /\ u \in pending' \/ st'[u] \in Early => reported'[u] = "NEW"
                      /\ u \in openTx' => reported'[u] \in Heard(st'[u])
                      /\ u \in openTx' /\ call'[u] \in {"open", "openBalance"} =>
                           st'[u] = "WAITING_OPEN"
                      /\ u \in openTx' /\ call'[u] \in Checks => st'[u] = "WAITING_CLOSE"
    BY DEF Heard
  <2>2. CASE u \in Opened
    <3>1. /\ st[u] = "OPEN_SUCCESS" /\ u \notin pending /\ u \in openTx /\ u \notin Due
      BY <2>2 DEF Opened, Placement, Due
    <3>2. st'[u] = "IN_PROGRESS" /\ reported'[u] = "OPEN_SUCCESS" /\ call'[u] = call[u]
      BY <1>6, <2>2, <3>1 DEF ProcessClosing, Dispatch
    <3>3. QED  BY <2>1, <3>1, <3>2 DEF Heard, Early, Checks
  <2>3. CASE u \in Overdue
    <3>1. u \in openTx /\ u \notin pending /\ u \notin Opened
      BY <2>3 DEF Overdue, Placement, Opened
    <3>2. st'[u] = "CHECK_ERROR"
      BY <1>6, <2>3, <3>1 DEF ProcessClosing
    <3>3. QED  BY <2>1, <2>3, <3>1, <3>2 DEF Early
  <2>4. CASE u \in Due
    <3>1. u \in openTx /\ u \notin pending /\ u \notin Opened /\ u \notin Overdue
      BY <2>4 DEF Due, Placement, Opened
    <3>2. st'[u] = "WAITING_CLOSE" /\ reported'[u] = "WAITING_CLOSE" /\ call'[u] = "checkDelay"
      BY <1>6, <2>4, <3>1 DEF ProcessClosing, Dispatch
    <3>3. QED  BY <2>1, <3>1, <3>2 DEF Heard, Early, Checks
  <2>5. CASE u \notin Opened \cup Overdue \cup Due
    <3>1. st'[u] = st[u] /\ reported'[u] = reported[u] /\ call'[u] = call[u]
      BY <1>6, <2>5 DEF ProcessClosing, Dispatch
    <3>2. QED  BY <2>1, <3>1
  <2>6. QED  BY <2>2, <2>3, <2>4, <2>5
<1>7. CASE ProcessFinalizing
  <2>1. /\ pending' = pending /\ openTx' = openTx \ Ended /\ st' = st /\ call' = call
        /\ \A u \in Trades \ Ended : reported'[u] = reported[u]
    BY <1>7 DEF ProcessFinalizing, Dispatch
  <2>2. \A u \in Ended : u \notin pending /\ st[u] \notin Early
    BY DEF Ended, Placement, Terminal, Early
  <2>3. QED  BY <2>1, <2>2
<1>8. CASE DisconnectRequest \/ Shutdown
  <2>1. FinalizeAll
    BY <1>8 DEF DisconnectRequest, Shutdown
  <2>2. /\ pending' = {} /\ openTx' = {}
        /\ \A u \in Trades : IF u \in pending \cup openTx
                             THEN st'[u] \in Terminal
                             ELSE st'[u] = st[u] /\ reported'[u] = reported[u]
    BY <2>1 DEF FinalizeAll, Dispatch, Terminal
  <2>3. QED  BY <2>2 DEF Terminal, Early
<1>9. ASSUME NEW t \in Trades, HttpReply(t) \/ StartCheck(t)  PROVE ReportsTrack'
  <2>1. call[t] # "none" /\ st[t] \notin Early /\ t \notin pending
    BY <1>9
    DEF HttpReply, OpenFailed, OpenAccepted, OpenBalanceReply, StartCheck, CheckFailed,
        CheckAnswered, CheckBalanceReply, Placement
  <2>2. /\ UNCHANGED <<pending, openTx, reported>>
        /\ \A u \in Trades \ {t} : st'[u] = st[u] /\ call'[u] = call[u]
    BY <1>9
    DEF HttpReply, OpenFailed, OpenAccepted, OpenBalanceReply, StartCheck, CheckFailed,
        CheckAnswered, CheckBalanceReply
  <2>3. \/ /\ call[t] \in {"open", "openBalance"}
           /\ \/ st'[t] \in {"OPEN_ERROR", "OPEN_SUCCESS"} /\ call'[t] = "none"
              \/ st'[t] = st[t] /\ call'[t] = "openBalance"
        \/ /\ call[t] \in Checks
           /\ \/ st'[t] \in {"CHECK_ERROR", "SETTLED"} /\ call'[t] = "none"
              \/ st'[t] = st[t] /\ call'[t] \in {"none", "check", "checkBalance"}
    BY <1>9
    DEF HttpReply, OpenFailed, OpenAccepted, OpenBalanceReply, StartCheck, CheckFailed,
        CheckAnswered, CheckBalanceReply, Checks
  <2>4. /\ st'[t] \notin Early
        /\ t \in openTx => reported[t] \in Heard(st'[t])
        /\ t \in openTx /\ call'[t] \in {"open", "openBalance"} => st'[t] = "WAITING_OPEN"
        /\ t \in openTx /\ call'[t] \in Checks => st'[t] = "WAITING_CLOSE"
    BY <2>1, <2>3 DEF Heard, Early, Checks
  <2>5. QED  BY <2>1, <2>2, <2>4 DEF Heard
<1>10. ASSUME NEW Q \in SUBSET openTx, PriceUpdate(Q)  PROVE ReportsTrack'
  <2>1. /\ UNCHANGED <<pending, openTx, call>>
        /\ \A u \in Q : st[u] \in {"OPEN_SUCCESS", "IN_PROGRESS"}
        /\ \A u \in Trades :
             IF u \in Opened \cup Q
             THEN st'[u] = "IN_PROGRESS" /\ reported'[u] \in {"OPEN_SUCCESS", "IN_PROGRESS"}
             ELSE st'[u] = st[u] /\ reported'[u] = reported[u]
    BY <1>10 DEF PriceUpdate, Moved, Dispatch, Opened
  <2>2. \A u \in Opened \cup Q :
          u \notin pending /\ call[u] \notin {"open", "openBalance"} \cup Checks
    BY <2>1 DEF Opened, Placement, Checks
  <2>3. QED  BY <2>1, <2>2 DEF Heard, Early
<1>11. QED
  BY <1>1, <1>2, <1>3, <1>4, <1>5, <1>6, <1>7, <1>8, <1>9, <1>10
  DEF vars, Next, Loop, Events, Tick, BusDone, HttpDone, TasksDone, Turn, ProcessSnapshot,
      SnapshotSkipped, SnapshotApplied, SnapshotUnavailable, ConnectionChange

(* A report never steps back: each is later in the life of the trade than the    *)
(* one the client heard before.                                              *)
LEMMA OrderStep ==
  ASSUME IInv, ReportsTrack, Next, NEW t \in Trades, reported'[t] # reported[t]
  PROVE  /\ Rank[reported[t]] < Rank[reported'[t]]
         /\ reported'[t] = "SETTLED" => reported[t] = "WAITING_CLOSE"
<1> DEFINE Goal == /\ Rank[reported[t]] < Rank[reported'[t]]
                   /\ reported'[t] = "SETTLED" => reported[t] = "WAITING_CLOSE"
<1> USE DEF IInv, TypeOK, queueVars, tradeVars, reportVars, orderVars, snapVars, fenceVars
<1>1. ASSUME reported[t] = "NEW",
             reported'[t] \in {"WAITING_OPEN", "OPEN_ERROR"}
      PROVE  Goal
  BY SMTT(30), <1>1 DEF Rank, TradeStates, Terminal
<1>2. ASSUME reported[t] \in {"WAITING_OPEN", "OPEN_SUCCESS", "IN_PROGRESS", "WAITING_CLOSE"},
             \/ reported'[t] \in {"OPEN_ERROR", "CHECK_ERROR"}
             \/ reported[t] = "WAITING_CLOSE" /\ reported'[t] = "SETTLED"
      PROVE  Goal
  BY <1>2 DEF Rank, TradeStates, Terminal
<1>3. t \in openTx => reported[t] \in {"WAITING_OPEN", "OPEN_SUCCESS", "IN_PROGRESS", "WAITING_CLOSE"}
  BY DEF ReportsTrack, Heard
<1>4. CASE \E r \in Trades : PendingSend(r) \/ PendingInvalid(r)
  <2>1. t \in pending /\ reported'[t] \in {"WAITING_OPEN", "OPEN_ERROR"}
    BY <1>4 DEF PendingSend, PendingInvalid, Dispatch, Moved, IsFront
  <2>2. QED  BY <1>1, <2>1 DEF ReportsTrack
<1>5. CASE ProcessClosing
  <2>1. CASE t \in Opened
    <3>1. reported[t] = "WAITING_OPEN"
      BY <2>1 DEF ReportsTrack, Opened, Heard
    <3>2. reported'[t] = "OPEN_SUCCESS"
      BY <1>5, <2>1 DEF ProcessClosing, Dispatch
    <3>3. QED  BY <3>1, <3>2 DEF Rank, TradeStates, Terminal
  <2>2. CASE t \in Overdue
    <3>1. t \in openTx /\ t \notin Opened
      BY <2>2 DEF Overdue, Opened
    <3>2. reported'[t] = "CHECK_ERROR"
      BY <1>5, <2>2, <3>1 DEF ProcessClosing, Dispatch
    <3>3. QED  BY <1>2, <1>3, <3>1, <3>2
  <2>3. CASE t \in Due
    <3>1. t \notin Opened /\ t \notin Overdue /\ t \in openTx /\ st[t] = "IN_PROGRESS"
      BY <2>3 DEF Due, Opened
    <3>2. reported[t] \in {"OPEN_SUCCESS", "IN_PROGRESS"}
      BY <3>1 DEF ReportsTrack, Heard
    <3>3. reported'[t] = "WAITING_CLOSE"
      BY <1>5, <2>3, <3>1 DEF ProcessClosing, Dispatch
    <3>4. QED  BY <3>2, <3>3 DEF Rank, TradeStates, Terminal
  <2>4. QED  BY <1>5, <2>1, <2>2, <2>3 DEF ProcessClosing, Dispatch
<1>6. CASE ProcessFinalizing
  <2>1. t \in Ended /\ reported'[t] = st[t]
    BY <1>6 DEF ProcessFinalizing, Dispatch
  <2>2. t \in openTx /\ st[t] \in {"OPEN_ERROR", "CHECK_ERROR", "SETTLED"}
    BY <2>1 DEF Ended, Terminal
  <2>3. st[t] = "SETTLED" => reported[t] = "WAITING_CLOSE"
    BY <2>2 DEF ReportsTrack, Heard
  <2>4. QED  BY <1>2, <1>3, <2>1, <2>2, <2>3
<1>7. CASE DisconnectRequest \/ Shutdown
  <2>1. FinalizeAll
    BY <1>7 DEF DisconnectRequest, Shutdown
  <2>2. t \in pending \/ t \in openTx
    BY <2>1 DEF FinalizeAll, Dispatch
  <2>3. CASE t \in pending
    <3>1. reported'[t] = "OPEN_ERROR" /\ reported[t] = "NEW"
      BY <2>1, <2>3 DEF FinalizeAll, Dispatch, ReportsTrack
    <3>2. QED  BY <1>1, <3>1
  <2>4. CASE t \in openTx
    <3>1. reported'[t] \in {"OPEN_ERROR", "CHECK_ERROR"}
      BY <2>1, <2>4 DEF FinalizeAll, Dispatch
    <3>2. QED  BY <1>2, <1>3, <2>4, <3>1
  <2>5. QED  BY <2>2, <2>3, <2>4
<1>8. ASSUME NEW Q \in SUBSET openTx, PriceUpdate(Q)  PROVE Goal
  <2>1. /\ t \in openTx
        /\ \/ st[t] = "OPEN_SUCCESS" /\ reported'[t] \in {"OPEN_SUCCESS", "IN_PROGRESS"}
           \/ st[t] = "IN_PROGRESS" /\ reported'[t] = "IN_PROGRESS"
    BY <1>8 DEF PriceUpdate, Dispatch, Opened
  <2>2. \/ st[t] = "OPEN_SUCCESS" /\ reported[t] = "WAITING_OPEN"
        \/ st[t] = "IN_PROGRESS" /\ reported[t] = "OPEN_SUCCESS"
    BY <2>1 DEF ReportsTrack, Heard
  <2>3. QED  BY <2>1, <2>2 DEF Rank, TradeStates, Terminal
<1>9. QED
  BY <1>4, <1>5, <1>6, <1>7, <1>8
  DEF Next, Loop, Events, Client, HttpReply, Tick, Stamp, Refuse, Enqueue, BusDone,
      HttpDone, TasksDone, Turn, ProcessSnapshot, PendingWait, OpenFailed, OpenAccepted,
      OpenBalanceReply, StartCheck, CheckFailed, CheckAnswered, CheckBalanceReply,
      SnapshotSkipped, SnapshotApplied, SnapshotUnavailable, ConnectionChange

(* The client hears the life of a trade in order, and a broker result only after  *)
(* the announcement that the trade is closing.                                *)
THEOREM OrderedReports == Spec => ReportsInOrder
<1> DEFINE A == \A t \in Trades : reported'[t] # reported[t] =>
                  /\ Rank[reported[t]] < Rank[reported'[t]]
                  /\ reported'[t] = "SETTLED" => reported[t] = "WAITING_CLOSE"
<1>1. Init => ReportsTrack
  BY DEF Init, ReportsTrack, Early
<1>2. IInv /\ ReportsTrack /\ [Next]_vars => ReportsTrack'
  BY TrackStep
<1>3. IInv /\ ReportsTrack /\ [Next]_vars => [A]_vars
  BY OrderStep
<1>4. QED  BY <1>1, <1>2, <1>3, Invariance, PTL DEF Spec, ReportsInOrder
=============================================================================
