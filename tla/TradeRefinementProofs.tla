------------------------ MODULE TradeRefinementProofs ------------------------
(***************************************************************************)
(* TradeExecution implements TradeLifecycle for every number of trades and   *)
(* every value of the limits.  One lemma per shape of step: a step that       *)
(* takes trades off the lists and reports is the promise's Pass, a send is    *)
(* its Send, and the client's steps are Accept, Refuse or nothing.          *)
(***************************************************************************)
EXTENDS TradeRefinement, TradeExecutionProofs

(* Whoever is queued has an earlier ticket than the next request will get.    *)
Arrived == \A t \in pending : arrival[t] < arrivals

RInv == IInv /\ ReportsTrack /\ Arrived

Progress == {"WAITING_OPEN", "OPEN_SUCCESS", "IN_PROGRESS", "WAITING_CLOSE"}

(* Tickets only grow.                                                       *)
LEMMA ArrivedStep ==
  ASSUME TypeOK, Arrived, [Next]_vars
  PROVE  Arrived'
<1> USE DEF TypeOK, Arrived, queueVars
<1>1. CASE UNCHANGED <<pending, arrival, arrivals>>
  BY <1>1
<1>2. ASSUME NEW t \in Trades, Client(t)  PROVE Arrived'
  BY <1>2 DEF Client, Stamp, Refuse, Enqueue
<1>3. CASE UNCHANGED <<arrival, arrivals>> /\ pending' \subseteq pending
  BY <1>3
<1>4. CASE PendingWait \/ \E t \in Trades : PendingSend(t) \/ PendingInvalid(t)
  BY <1>3, <1>4 DEF PendingWait, PendingSend, PendingInvalid
<1>5. CASE DisconnectRequest \/ Shutdown
  BY <1>3, <1>5 DEF DisconnectRequest, Shutdown, FinalizeAll
<1>6. QED
  BY <1>1, <1>2, <1>4, <1>5
  DEF vars, Next, Loop, Events, Tick, HttpReply, OpenFailed, OpenAccepted, OpenBalanceReply,
      StartCheck, CheckFailed, CheckAnswered, CheckBalanceReply, PriceUpdate, BusDone,
      HttpDone, TasksDone, Turn, ProcessSnapshot, ProcessClosing, ProcessFinalizing,
      SnapshotSkipped, SnapshotApplied, SnapshotUnavailable, ConnectionChange

(* Where a trade is decides its state, and no trade the queue still has to deal   *)
(* with was reported as ended.                                              *)
LEMMA Held ==
  ASSUME IInv, NEW t \in Trades
  PROVE  /\ t \in pending => st[t] = "UNKNOWN" /\ t \notin openTx
         /\ t \in openTx => st[t] \notin Early
         /\ t \in pending \/ t \in openTx \/ st[t] \in Early => finalReports[t] = 0
<1>1. /\ t \in pending => st[t] = "UNKNOWN"
      /\ t \in openTx => st[t] \in TradeStates \ {"UNKNOWN"}
  BY DEF IInv, Placement
<1>2. ~Finished(t) => finalReports[t] = 0
  BY DEF IInv, TypeOK, FinalReportOnce
<1>3. t \in pending \/ t \in openTx \/ st[t] \in Early => ~Finished(t)
  BY DEF Finished, Early
<1>4. QED  BY <1>1, <1>2, <1>3 DEF Early, TradeStates, Terminal

(* The promise's queued and open trades are the two lists.                   *)
LEMMA StagesAreLists ==
  ASSUME IInv
  PROVE  Promise!In("queued") = pending /\ Promise!In("open") = openTx
<1>1. ASSUME NEW t \in Trades
      PROVE  (StageOf(t) = "queued" <=> t \in pending) /\ (StageOf(t) = "open" <=> t \in openTx)
  BY Held DEF StageOf, Early
<1>2. pending \subseteq Trades /\ openTx \subseteq Trades
  BY DEF IInv, TypeOK
<1>3. QED  BY <1>1, <1>2 DEF Promise!In, Stage

(* The shape of a step that takes the trades of gone off the lists, with a         *)
(* terminal report for those of informed, and reports progress of those of heard.  *)
Takes(gone, informed, heard) ==
  /\ gone \subseteq pending \cup openTx
  /\ gone \cap openTx \subseteq informed /\ informed \subseteq gone
  /\ heard \subseteq openTx \ gone
  /\ pending' = pending \ gone /\ openTx' = openTx \ gone /\ arrival' = arrival
  /\ \A t \in Trades : st[t] \in Early \/ st'[t] \in Early => st'[t] = st[t]
  /\ \A t \in Trades : finalReports'[t] = IF t \in informed THEN 1 ELSE finalReports[t]
  /\ \A t \in Trades : IF t \in informed THEN reported'[t] \in Terminal
                       ELSE IF t \in heard THEN reported'[t] \in Progress
                       ELSE reported'[t] = reported[t]

(* Such a step is a Pass of the promise.                                     *)
LEMMA PassSimulated ==
  ASSUME IInv, NEW gone, NEW informed, NEW heard, Takes(gone, informed, heard)
  PROVE  Promise!Next
<1> USE DEF IInv, TypeOK, Takes
<1>1. gone \in SUBSET Trades /\ informed \in SUBSET Trades /\ heard \in SUBSET Trades
  OBVIOUS
<1>2. \A t \in Trades : StageOf(t)' = IF t \in informed THEN "ended"
                                      ELSE IF t \in gone THEN "dropped" ELSE StageOf(t)
  BY DEF StageOf, Placement, FinalReportOnce, Finished, Early, TradeStates, Terminal
<1>3. Stage' = Promise!Left(gone, informed)
  BY <1>2 DEF Stage, Promise!Left
<1>4. \A t \in Trades : NewsOf(t)' = IF t \in informed THEN "final"
                                     ELSE IF t \in heard THEN "progress" ELSE NewsOf(t)
  BY DEF NewsOf, Terminal, Progress
<1>5. Told' = [t \in Trades |-> IF t \in informed THEN "final"
                                ELSE IF t \in heard THEN "progress" ELSE Told[t]]
  BY <1>4 DEF Told
<1>6. Promise!Pass(gone, informed, heard)
  BY <1>3, <1>5, StagesAreLists DEF Promise!Pass
<1>7. QED  BY <1>1, <1>6 DEF Promise!Next

(* A step that changes neither list and reports nothing changes nothing.         *)
LEMMA QuietSimulated ==
  ASSUME IInv,
         pending' = pending, openTx' = openTx, arrival' = arrival,
         finalReports' = finalReports, reported' = reported,
         \A t \in Trades : st[t] \in Early \/ st'[t] \in Early => st'[t] = st[t]
  PROVE  Promise!Next
<1>1. Takes({}, {}, {})
  BY DEF Takes
<1>2. QED  BY <1>1, PassSimulated

-----------------------------------------------------------------------------
(* The client's steps.                                                      *)
LEMMA ClientSimulated ==
  ASSUME RInv, NEW t \in Trades, Client(t)
  PROVE  [Promise!Next]_Promise!promiseVars
<1> USE DEF RInv, IInv, TypeOK, queueVars, reportVars
<1>1. st[t] \in {"NEW", "STAMPED"} /\ t \notin pending \cup openTx /\ finalReports[t] = 0
  <2>1. st[t] \in {"NEW", "STAMPED"}
    BY DEF Client, Stamp, Refuse, Enqueue
  <2>2. QED  BY <2>1, Held DEF Early
<1>2. UNCHANGED <<reported, finalReports>> /\ Told' = Told
  BY SMTT(30) DEF Client, Stamp, Refuse, Enqueue, Told, NewsOf
<1>3. CASE Stamp(t)
  <2>1. Stage' = Stage
    BY <1>1, <1>3 DEF Stamp, Stage, StageOf
  <2>2. QED  BY <1>2, <1>3, <2>1 DEF Stamp, Promise!promiseVars
<1>4. CASE Refuse(t)
  <2>1. Stage' = [Stage EXCEPT ![t] = "refused"] /\ Stage[t] = "outside"
    <3>1. \A u \in Trades : StageOf(u)' = IF u = t THEN "refused" ELSE StageOf(u)
      BY <1>1, <1>4 DEF Refuse, StageOf
    <3>2. StageOf(t) = "outside"
      BY <1>1 DEF StageOf
    <3>3. QED  BY <3>1, <3>2 DEF Stage
  <2>2. Promise!Refuse(t)
    BY <1>2, <1>4, <2>1 DEF Refuse, Promise!Refuse
  <2>3. QED  BY <2>2 DEF Promise!Next
<1>5. CASE Enqueue(t)
  <2>1. Stage' = [Stage EXCEPT ![t] = "queued"] /\ Stage[t] = "outside"
    <3>1. \A u \in Trades : StageOf(u)' = IF u = t THEN "queued" ELSE StageOf(u)
      BY SMTT(30), <1>1, <1>5 DEF Enqueue, StageOf
    <3>2. StageOf(t) = "outside"
      BY <1>1 DEF StageOf
    <3>3. QED  BY <3>1, <3>2 DEF Stage
  <2>2. \A u \in pending : arrival[u] < arrival'[t] /\ arrival'[u] = arrival[u]
    BY <1>1, <1>5 DEF Enqueue, Arrived
  <2>3. Promise!Accept(t)
    BY <1>2, <2>1, <2>2, StagesAreLists DEF Promise!Accept
  <2>4. QED  BY <2>3 DEF Promise!Next
<1>6. QED  BY <1>3, <1>4, <1>5 DEF Client

(* The steps of process_pending_transactions.                                *)
LEMMA PendingSimulated ==
  ASSUME RInv, PendingWait \/ \E t \in Trades : PendingSend(t) \/ PendingInvalid(t)
  PROVE  Promise!Next
<1> USE DEF RInv, IInv, TypeOK, queueVars, reportVars
<1>0. /\ Expired \subseteq pending
      /\ \A u \in pending : st[u] = "UNKNOWN" /\ u \notin openTx /\ finalReports[u] = 0
      /\ \A u \in openTx : finalReports[u] = 0
  BY Held DEF Expired
<1>1. CASE PendingWait
  <2>1. /\ pending' = pending \ Expired /\ openTx' = openTx \ Expired /\ arrival' = arrival
        /\ finalReports' = finalReports /\ reported' = reported
        /\ \A u \in Trades : st'[u] = IF u \in Expired THEN "OPEN_ERROR" ELSE st[u]
    BY <1>0, <1>1 DEF PendingWait, Moved
  <2>2. /\ \A u \in Trades : finalReports'[u] = IF u \in {} THEN 1 ELSE finalReports[u]
        /\ \A u \in Trades : IF u \in {} THEN reported'[u] \in Terminal
                             ELSE IF u \in {} THEN reported'[u] \in Progress
                             ELSE reported'[u] = reported[u]
    BY <2>1
  <2>3. \A u \in Trades : st[u] \in Early \/ st'[u] \in Early => st'[u] = st[u]
    BY <1>0, <2>1 DEF Early
  <2>4. Expired \cap openTx \subseteq {} /\ Expired \subseteq pending \cup openTx
    BY <1>0
  <2>5. Takes(Expired, {}, {})
    BY <2>1, <2>2, <2>3, <2>4 DEF Takes
  <2>6. QED  BY <2>5, PassSimulated
<1>2. ASSUME NEW t \in Trades, PendingInvalid(t)  PROVE Promise!Next
  <2> DEFINE gone == Expired \cup {t}
  <2>0. t \in pending /\ t \notin openTx
    BY <1>0, <1>2 DEF PendingInvalid, IsFront
  <2>1. /\ pending' = pending \ gone /\ openTx' = openTx \ gone /\ arrival' = arrival
        /\ \A u \in Trades : st'[u] = IF u \in gone THEN "OPEN_ERROR" ELSE st[u]
    BY <1>0, <1>2, <2>0 DEF PendingInvalid, Moved
  <2>2. /\ \A u \in Trades : finalReports'[u] = IF u \in {t} THEN 1 ELSE finalReports[u]
        /\ \A u \in Trades : IF u \in {t} THEN reported'[u] \in Terminal
                             ELSE IF u \in {} THEN reported'[u] \in Progress
                             ELSE reported'[u] = reported[u]
    <3>1. Dispatch({t}, st') /\ st'[t] = "OPEN_ERROR"
      BY <1>2, <2>1 DEF PendingInvalid
    <3>2. finalReports[t] = 0
      BY <1>0, <2>0
    <3>3. QED  BY <3>1, <3>2 DEF Dispatch, Terminal
  <2>3. \A u \in Trades : st[u] \in Early \/ st'[u] \in Early => st'[u] = st[u]
    BY <1>0, <2>0, <2>1 DEF Early
  <2>4. /\ gone \subseteq pending \cup openTx /\ gone \cap openTx \subseteq {t}
        /\ {t} \subseteq gone
    BY <1>0, <2>0
  <2> HIDE DEF gone
  <2>5. Takes(gone, {t}, {})
    BY <2>1, <2>2, <2>3, <2>4 DEF Takes
  <2>6. QED  BY <2>5, PassSimulated
<1>3. ASSUME NEW t \in Trades, PendingSend(t)  PROVE Promise!Next
  <2>0. /\ t \in pending /\ t \notin Expired /\ t \notin openTx
        /\ \A u \in pending : arrival[u] < arrival[t] => u \in Expired
    BY <1>0, <1>3 DEF PendingSend, IsFront
  <2>1. /\ pending' = pending \ (Expired \cup {t}) /\ openTx' = openTx \cup {t}
        /\ arrival' = arrival
        /\ \A u \in Trades : st'[u] = IF u = t THEN "WAITING_OPEN"
                                      ELSE IF u \in Expired THEN "OPEN_ERROR" ELSE st[u]
    BY <1>3 DEF PendingSend, Moved
  <2>2. /\ \A u \in Trades : finalReports'[u] = finalReports[u]
        /\ \A u \in Trades : reported'[u] = IF u = t THEN "WAITING_OPEN" ELSE reported[u]
    BY <1>3, <2>1 DEF PendingSend, Dispatch, Terminal
  <2>3. \A u \in Trades : StageOf(u)' = IF u = t THEN "open"
                                        ELSE IF u \in Expired THEN "dropped" ELSE StageOf(u)
    BY SMTT(30), <1>0, <2>0, <2>1, <2>2 DEF StageOf
  <2>4. Stage' = [Promise!Left(Expired, {}) EXCEPT ![t] = "open"]
    BY <2>3 DEF Stage, Promise!Left
  <2>5. Told' = [Told EXCEPT ![t] = "progress"]
    BY <2>2 DEF Told, NewsOf, Terminal
  <2>6. Cardinality(openTx) < MaxTrades
    <3>1. ready
      BY <1>3 DEF PendingSend, MaySend, FenceOptional
    <3>2. publicOpen = localOpen + snapOpen /\ publicOpen < MaxTrades
      BY <1>3, <3>1 DEF PendingSend, MaySend, PublicCountExact
    <3>3. localOpen = Cardinality(openTx)
      BY DEF CountersAgree
    <3>4. QED  BY <3>2, <3>3, LimitsNatural
  <2>7. Expired \in SUBSET Trades
    BY <1>0
  <2>8. Promise!Send(t, Expired)
    <3>1. Promise!In("queued") = pending /\ Promise!In("open") = openTx
      BY StagesAreLists
    <3>2. Expired \subseteq pending \ {t}
      BY <1>0, <2>0
    <3> HIDE DEF RInv, IInv, TypeOK
    <3>3. Promise!Cardinality(openTx) = Cardinality(openTx)
      BY DEF Promise!Cardinality, Cardinality
    <3>4. QED  BY <2>0, <2>1, <2>4, <2>5, <2>6, <3>1, <3>2, <3>3 DEF Promise!Send
  <2>9. QED  BY <2>7, <2>8 DEF Promise!Next
<1>4. QED  BY <1>1, <1>2, <1>3

(* The steps that report what the broker answered, and those that end trades.    *)
LEMMA ReportSimulated ==
  ASSUME RInv, \/ ProcessClosing \/ ProcessFinalizing
               \/ DisconnectRequest \/ Shutdown
               \/ \E Q \in SUBSET openTx : PriceUpdate(Q)
  PROVE  Promise!Next
<1> USE DEF RInv, IInv, TypeOK, queueVars, reportVars
<1>0. /\ \A u \in pending : u \notin openTx
      /\ \A u \in pending \cup openTx : st[u] \notin Early /\ finalReports[u] = 0
  BY Held DEF Early
<1>1. CASE ProcessClosing
  <2> DEFINE heard == Opened \cup Due
  <2>0. /\ Overdue \subseteq openTx /\ heard \subseteq openTx \ Overdue
        /\ Opened \cap Due = {} /\ Overdue \cap Opened = {}
    BY DEF Overdue, Due, Opened
  <2>1. /\ pending' = pending \ Overdue /\ openTx' = openTx \ Overdue /\ arrival' = arrival
        /\ \A u \in Trades : st'[u] = IF u \in Opened THEN "IN_PROGRESS"
                                      ELSE IF u \in Overdue THEN "CHECK_ERROR"
                                      ELSE IF u \in Due THEN "WAITING_CLOSE" ELSE st[u]
    BY <1>0, <1>1, <2>0 DEF ProcessClosing
  <2>2. /\ \A u \in Trades : finalReports'[u] = IF u \in Overdue THEN 1 ELSE finalReports[u]
        /\ \A u \in Trades : IF u \in Overdue THEN reported'[u] \in Terminal
                             ELSE IF u \in heard THEN reported'[u] \in Progress
                             ELSE reported'[u] = reported[u]
    BY <1>0, <1>1, <2>0 DEF ProcessClosing, Dispatch, Terminal, Progress
  <2>3. \A u \in Trades : st[u] \in Early \/ st'[u] \in Early => st'[u] = st[u]
    BY <1>0, <2>0, <2>1 DEF Early
  <2>4. /\ Overdue \subseteq pending \cup openTx /\ Overdue \cap openTx \subseteq Overdue
        /\ Overdue \subseteq Overdue
    BY <2>0
  <2> HIDE DEF heard
  <2>5. Takes(Overdue, Overdue, heard)
    BY <2>0, <2>1, <2>2, <2>3, <2>4 DEF Takes
  <2>6. QED  BY <2>5, PassSimulated
<1>2. CASE ProcessFinalizing
  <2>0. Ended \subseteq openTx
    BY DEF Ended
  <2>1. /\ pending' = pending \ Ended /\ openTx' = openTx \ Ended /\ arrival' = arrival
        /\ st' = st
    BY <1>0, <1>2, <2>0 DEF ProcessFinalizing
  <2>2. /\ \A u \in Trades : finalReports'[u] = IF u \in Ended THEN 1 ELSE finalReports[u]
        /\ \A u \in Trades : IF u \in Ended THEN reported'[u] \in Terminal
                             ELSE IF u \in {} THEN reported'[u] \in Progress
                             ELSE reported'[u] = reported[u]
    BY <1>0, <1>2, <2>0 DEF ProcessFinalizing, Dispatch, Ended
  <2>3. \A u \in Trades : st[u] \in Early \/ st'[u] \in Early => st'[u] = st[u]
    BY <2>1
  <2>4. /\ Ended \subseteq pending \cup openTx /\ Ended \cap openTx \subseteq Ended
        /\ Ended \subseteq Ended /\ {} \subseteq openTx \ Ended
    BY <2>0
  <2>5. Takes(Ended, Ended, {})
    BY <2>1, <2>2, <2>3, <2>4 DEF Takes
  <2>6. QED  BY <2>5, PassSimulated
<1>3. CASE DisconnectRequest \/ Shutdown
  <2> DEFINE gone == pending \cup openTx
  <2>0. FinalizeAll
    BY <1>3 DEF DisconnectRequest, Shutdown
  <2>1. /\ pending' = pending \ gone /\ openTx' = openTx \ gone /\ arrival' = arrival
        /\ \A u \in Trades : IF u \in gone THEN st'[u] \in Terminal ELSE st'[u] = st[u]
    BY <2>0 DEF FinalizeAll, Terminal
  <2>2. /\ \A u \in Trades : finalReports'[u] = IF u \in gone THEN 1 ELSE finalReports[u]
        /\ \A u \in Trades : IF u \in gone THEN reported'[u] \in Terminal
                             ELSE IF u \in {} THEN reported'[u] \in Progress
                             ELSE reported'[u] = reported[u]
    BY <1>0, <2>0, <2>1 DEF FinalizeAll, Dispatch
  <2>3. \A u \in Trades : st[u] \in Early \/ st'[u] \in Early => st'[u] = st[u]
    BY <1>0, <2>1 DEF Early, Terminal
  <2>4. /\ gone \subseteq pending \cup openTx /\ gone \cap openTx \subseteq gone
        /\ gone \subseteq gone /\ {} \subseteq openTx \ gone
    OBVIOUS
  <2> HIDE DEF gone
  <2>5. Takes(gone, gone, {})
    BY <2>1, <2>2, <2>3, <2>4 DEF Takes
  <2>6. QED  BY <2>5, PassSimulated
<1>4. ASSUME NEW Q \in SUBSET openTx, PriceUpdate(Q)  PROVE Promise!Next
  <2> DEFINE heard == Opened \cup Q
  <2>0. heard \subseteq openTx \ {}
    BY DEF Opened
  <2>1. /\ pending' = pending \ {} /\ openTx' = openTx \ {} /\ arrival' = arrival
        /\ \A u \in Trades : st'[u] = IF u \in Opened THEN "IN_PROGRESS" ELSE st[u]
    BY <1>4 DEF PriceUpdate, Moved
  <2>2. /\ \A u \in Trades : finalReports'[u] = IF u \in {} THEN 1 ELSE finalReports[u]
        /\ \A u \in Trades : IF u \in {} THEN reported'[u] \in Terminal
                             ELSE IF u \in heard THEN reported'[u] \in Progress
                             ELSE reported'[u] = reported[u]
    BY <1>4 DEF PriceUpdate, Dispatch, Terminal, Progress
  <2>3. \A u \in Trades : st[u] \in Early \/ st'[u] \in Early => st'[u] = st[u]
    BY <1>0, <2>1 DEF Early, Opened
  <2>4. {} \subseteq pending \cup openTx /\ {} \cap openTx \subseteq {}
    OBVIOUS
  <2> HIDE DEF heard
  <2>5. Takes({}, {}, heard)
    BY <2>0, <2>1, <2>2, <2>3, <2>4 DEF Takes
  <2>6. QED  BY <2>5, PassSimulated
<1>5. QED  BY <1>1, <1>2, <1>3, <1>4

(* Answers of the broker, and everything else, change no list and report nothing.  *)
LEMMA AnswerSimulated ==
  ASSUME RInv, \/ \E t \in Trades : HttpReply(t) \/ StartCheck(t)
               \/ UNCHANGED <<pending, openTx, arrival, reported, finalReports, st>>
  PROVE  Promise!Next
<1> USE DEF RInv, IInv, TypeOK, queueVars, reportVars
<1>1. CASE UNCHANGED <<pending, openTx, arrival, reported, finalReports, st>>
  BY <1>1, QuietSimulated
<1>2. ASSUME NEW t \in Trades, HttpReply(t) \/ StartCheck(t)  PROVE Promise!Next
  <2>1. call[t] # "none" /\ st[t] \notin Early
    BY <1>2
    DEF HttpReply, OpenFailed, OpenAccepted, OpenBalanceReply, StartCheck, CheckFailed,
        CheckAnswered, CheckBalanceReply, Placement
  <2>2. /\ pending' = pending /\ openTx' = openTx /\ arrival' = arrival
        /\ finalReports' = finalReports /\ reported' = reported
    BY <1>2
    DEF HttpReply, OpenFailed, OpenAccepted, OpenBalanceReply, StartCheck, CheckFailed,
        CheckAnswered, CheckBalanceReply
  <2>3. \/ st' = st
        \/ \E s \in Terminal \cup {"OPEN_SUCCESS"} : st' = [st EXCEPT ![t] = s]
    BY <1>2
    DEF HttpReply, OpenFailed, OpenAccepted, OpenBalanceReply, StartCheck, CheckFailed,
        CheckAnswered, CheckBalanceReply, Terminal
  <2>4. \A u \in Trades : st[u] \in Early \/ st'[u] \in Early => st'[u] = st[u]
    BY <2>1, <2>3 DEF Early, Terminal
  <2>5. QED  BY <2>2, <2>4, QuietSimulated
<1>3. QED  BY <1>1, <1>2

-----------------------------------------------------------------------------
(* The initial states are initial states of the promise.                      *)
LEMMA InitSimulated == Init => Promise!Init
<1> SUFFICES ASSUME Init PROVE Promise!Init
  OBVIOUS
<1>1. \A t \in Trades : StageOf(t) = "outside" /\ NewsOf(t) = "nothing"
  BY DEF Init, StageOf, NewsOf, Terminal
<1>2. QED  BY <1>1 DEF Init, Promise!Init, Stage, Told

(* Every step is a step of the promise or changes nothing in it.               *)
LEMMA StepSimulated ==
  ASSUME RInv, [Next]_vars
  PROVE  [Promise!Next]_Promise!promiseVars
<1> USE DEF queueVars, tradeVars, reportVars, orderVars, snapVars, fenceVars
<1>1. CASE \E t \in Trades : Client(t)
  BY <1>1, ClientSimulated
<1>2. CASE PendingWait \/ \E t \in Trades : PendingSend(t) \/ PendingInvalid(t)
  BY <1>2, PendingSimulated
<1>3. CASE \/ ProcessClosing \/ ProcessFinalizing \/ DisconnectRequest \/ Shutdown
           \/ \E Q \in SUBSET openTx : PriceUpdate(Q)
  BY <1>3, ReportSimulated
<1>4. CASE \E t \in Trades : HttpReply(t) \/ StartCheck(t)
  BY <1>4, AnswerSimulated
<1>5. CASE \/ UNCHANGED vars \/ Tick \/ BusDone \/ HttpDone \/ TasksDone \/ ProcessSnapshot
           \/ SnapshotSkipped \/ SnapshotUnavailable \/ ConnectionChange
           \/ \E n \in 0..MaxSnapshot, times \in TimeLists : SnapshotApplied(n, times)
  <2>1. UNCHANGED <<pending, openTx, arrival, reported, finalReports, st>>
    BY <1>5
    DEF vars, Tick, BusDone, HttpDone, TasksDone, Turn, ProcessSnapshot, SnapshotSkipped,
        SnapshotUnavailable, ConnectionChange, SnapshotApplied
  <2>2. QED  BY <2>1, AnswerSimulated
<1>6. QED  BY <1>1, <1>2, <1>3, <1>4, <1>5 DEF Next, Loop, Events

(* The queue, its counters and the conversation with the broker implement the     *)
(* promise: orders in turn and within the limit, and one last report for every    *)
(* order that went out.                                                     *)
THEOREM Implements == Spec => KeepsPromise
<1>1. Init => RInv
  BY InitIInv DEF Init, RInv, ReportsTrack, Arrived, Early
<1>2. RInv /\ [Next]_vars => RInv'
  BY StepIInv, TrackStep, ArrivedStep DEF RInv, IInv
<1>3. Init => Promise!Init
  BY InitSimulated
<1>4. RInv /\ [Next]_vars => [Promise!Next]_Promise!promiseVars
  BY StepSimulated
<1>5. QED  BY <1>1, <1>2, <1>3, <1>4, PTL DEF Spec, KeepsPromise, Promise!Spec
=============================================================================
