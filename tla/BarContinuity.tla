---------------------------- MODULE BarContinuity ----------------------------
(***************************************************************************)
(* The continuity of one active bar route of a MarketDataRouter: history   *)
(* before the first live bar, the backfill of timestamp gaps, and the      *)
(* revalidation of what a lost transport left open.                        *)
(*                                                                         *)
(* Everything here runs on the owner: live batches, stream statuses,       *)
(* history answers and process() are tasks of one queue, so each handler   *)
(* is one step, except that the release of the buffer goes batch by batch. *)
(* A time is the number of a timeframe slot; now is the open one.  A batch *)
(* is the set of its bars, which come in ascending order.  Retries are due *)
(* at any process() (the backoff is a matter of the steady clock).         *)
(*                                                                         *)
(* The provider is truthful: a complete answer has every bar of the range. *)
(***************************************************************************)
EXTENDS Naturals, Sequences, FiniteSets

CONSTANTS
    Mode,         \* "prefill" or "recover" (PREFILL_AND_RECOVER)
    PrefillBars,  \* prefill_bars, 0 for none
    MaxBackfill,  \* max_backfill_bars, 0 for no bound
    MaxBatches,   \* max_buffered_batches, 0 for no bound
    MaxItems,     \* max_buffered_items, 0 for no bound
    MaxAttempts,  \* retry.max_attempts
    FirstSlot,    \* bound: the open slot when the route is made
    MaxSlot,      \* bound: the last open slot
    MaxLosses,    \* bound: losses of the transport
    Trading       \* the slots that have a bar

Slots == 1..MaxSlot

ASSUME OptionsAssumption ==
    /\ Mode \in {"prefill", "recover"}
    /\ PrefillBars \in Nat /\ (Mode = "prefill" => PrefillBars > 0)
    /\ MaxBackfill \in Nat /\ MaxBatches \in Nat /\ MaxItems \in Nat
    /\ MaxAttempts \in Nat \ {0}
    /\ FirstSlot \in Nat \ {0} /\ FirstSlot > PrefillBars
    /\ MaxSlot \in Nat /\ FirstSlot <= MaxSlot
    /\ MaxLosses \in Nat
    /\ Trading \subseteq Slots

VARIABLES
    pc,        \* "new" before the route is active, "idle", or "flush"
    route,     \* ContinuityState, and the mode of the entry's options
    requests,  \* history requests the provider has not answered
    flush,     \* what the release of the buffer may trust
    now,       \* the open slot
    start,     \* history: the first slot delivered, 0 for none
    shown,     \* history: the slots delivered
    received,  \* history: the slots of the live bars that came
    proven     \* history: the slots that accepted answers covered

vars == <<pc, route, requests, flush, now, start, shown, received, proven>>
-----------------------------------------------------------------------------
Bar == [time : Slots, final : BOOLEAN]

Times(bars) == {b.time : b \in bars}

Latest(S)   == CHOOSE t \in S : \A u \in S : u <= t
Earliest(S) == CHOOSE t \in S : \A u \in S : t <= u

Kinds == {"prefill", "gap", "reconnect"}

Request == [kind : Kinds, from : Slots, to : Slots,
            attempt : 1..MaxAttempts, generation : 0..MaxLosses]

NoRequest == [kind |-> "none", from |-> 0, to |-> 0, attempt |-> 0, generation |-> 0]

Phases == {"live", "prefilling", "waiting", "recovering", "flushing", "degraded"}

Route == [mode       : {"live_only", "prefill", "recover"},
          phase      : Phases,
          prefill    : BOOLEAN,           \* initial_prefill_pending
          inflight   : BOOLEAN,           \* request_in_flight
          buffer     : Seq(SUBSET Bar),
          items      : Nat,               \* buffered_items
          observed   : 0..MaxSlot,        \* last_observed_time_ms
          verified   : 0..MaxSlot,        \* verified_through_time_ms
          unverified : 0..MaxSlot + 1,    \* unverified_from_time_ms
          boundary   : 0..MaxSlot,        \* initial_prefill_boundary_time_ms
          target     : 0..MaxSlot,        \* reconnect_target_time_ms
          generation : 0..MaxLosses,
          retry      : Request \cup {NoRequest}]

Init ==
    /\ pc = "new"
    /\ route = [mode |-> Mode,
                phase |-> IF PrefillBars > 0 THEN "prefilling" ELSE "live",
                prefill |-> PrefillBars > 0, inflight |-> FALSE,
                buffer |-> <<>>, items |-> 0,
                observed |-> 0, verified |-> 0, unverified |-> 0,
                boundary |-> 0, target |-> 0, generation |-> 0,
                retry |-> NoRequest]
    /\ requests = {}
    /\ flush = [usable |-> FALSE, upto |-> 0]
    /\ now = FirstSlot
    /\ start = 0 /\ shown = {} /\ received = {} /\ proven = {}

Enabled(r)  == r.mode # "live_only"
Recovers(r) == r.mode = "recover"
Buffers(r)  == r.phase \in {"prefilling", "waiting", "recovering", "flushing"}
-----------------------------------------------------------------------------
(* What the route remembers. *)

MarkUnverified(r, from) ==
    IF from # 0 /\ (r.unverified = 0 \/ from < r.unverified)
    THEN [r EXCEPT !.unverified = from] ELSE r

\* Fault: any answer closes what is open.
RecordAnyVerified(r, from, to, more) ==
    [r EXCEPT !.verified = Latest({@, to}), !.unverified = IF more THEN to + 1 ELSE 0]

\* record_verified_range: an answer that does not reach the earliest open slot
\* proves nothing.
RecordVerified(r, from, to, more) ==
    IF r.unverified # 0 /\ (from > r.unverified \/ to < r.unverified) THEN r
    ELSE [r EXCEPT !.verified = Latest({@, to}),
                   !.unverified = IF more THEN to + 1 ELSE 0]

\* record_bar_progress
Progress(r, bars) ==
    LET trusted == {b \in bars : b.final /\ (r.unverified = 0 \/ b.time < r.unverified)}
    IN  [r EXCEPT !.observed = Latest({@} \cup Times(bars)),
                  !.verified = Latest({@} \cup Times(trusted))]

\* Bars are handed to the subscriber.
Deliver(bars) ==
    /\ shown' = shown \cup Times(bars)
    /\ start' = IF start = 0 /\ bars # {} THEN Earliest(Times(bars)) ELSE start
-----------------------------------------------------------------------------
(* Requests.  A handler leaves a route and the requests it makes. *)

Quiet(r) == [route |-> r, asks |-> {}]

Asking(r, kind, from, to) ==
    [route |-> [r EXCEPT !.inflight = TRUE],
     asks  |-> {[kind |-> kind, from |-> from, to |-> to, attempt |-> 1,
                 generation |-> r.generation]}]

\* make_gap_request: at most max_backfill_bars.
Bounded(from, to) ==
    IF MaxBackfill # 0 /\ from + MaxBackfill - 1 < to THEN from + MaxBackfill - 1 ELSE to

LastClosed == now - 1

\* start_continuity: the open slot of the first attempt stays the boundary.
StartPrefill(r) ==
    LET to == IF r.boundary # 0 THEN r.boundary ELSE now
    IN  IF r.phase = "prefilling" /\ r.prefill /\ ~r.inflight
        THEN Asking([r EXCEPT !.boundary = to], "prefill", to - PrefillBars + 1, to)
        ELSE Quiet(r)

Buffered(r) == UNION {Times(r.buffer[i]) : i \in DOMAIN r.buffer}

\* The slot a recovery starts from, 0 when nothing is open.
RecoveryStart(r) ==
    LET seen      == Latest({r.observed} \cup Buffered(r))
        untrusted == r.buffer # <<>> \/ seen > r.verified
    IN  IF r.unverified # 0 THEN r.unverified
        ELSE IF ~untrusted THEN IF seen = 0 THEN 0 ELSE seen + 1
        ELSE IF r.verified # 0 THEN r.verified + 1
        ELSE IF Buffered(r) # {} THEN Earliest(Buffered(r)) ELSE seen

\* start_reconnect_recovery: an open candle cannot be verified yet.
StartReconnect(r) ==
    LET from == RecoveryStart(r)
    IN  IF ~(r.phase = "recovering" /\ Recovers(r) /\ ~r.prefill /\ ~r.inflight)
        THEN Quiet(r)
        ELSE IF from = 0 THEN Quiet([r EXCEPT !.phase = "live", !.target = 0])
        ELSE IF from > LastClosed THEN Quiet(r)
        ELSE Asking([MarkUnverified(r, from) EXCEPT !.target = LastClosed],
                    "reconnect", from, Bounded(from, LastClosed))
-----------------------------------------------------------------------------
(* Live bars. *)

Overflows(r, batch) ==
    \/ MaxBatches # 0 /\ Len(r.buffer) >= MaxBatches
    \/ MaxItems # 0 /\ r.items + Cardinality(batch) > MaxItems

\* buffer_continuity_batch past its limit: everything is released and the
\* continuity of the route ends.
Overflowed(r, batch) ==
    LET all == (UNION {r.buffer[i] : i \in DOMAIN r.buffer}) \cup batch
    IN  [route |-> [Progress(r, all) EXCEPT
                       !.buffer = <<>>, !.items = 0, !.phase = "degraded",
                       !.prefill = FALSE, !.inflight = FALSE, !.target = 0,
                       !.retry = NoRequest, !.mode = "live_only"],
         asks |-> {}, out |-> all]

Held(r, batch) ==
    [r EXCEPT !.buffer = Append(@, batch), !.items = @ + Cardinality(batch)]

\* Fault: the rest of a flushed batch replaces the batches that came later.
HeldAlone(r, batch) == [r EXCEPT !.buffer = <<batch>>, !.items = Cardinality(batch)]

HeldFirst(r, batch) ==
    [r EXCEPT !.buffer = <<batch>> \o @, !.items = @ + Cardinality(batch)]

\* What the bar at t should follow directly.
Before(r, batch, t) == Latest({r.observed} \cup {u \in Times(batch) : u < t})

\* Fault: one missing slot is taken for a late bar.
GapsBeyondOne(r, batch) ==
    IF r.observed = 0 THEN {} ELSE {t \in Times(batch) : t > Before(r, batch, t) + 2}

\* The bars of a batch in front of which slots are missing.
Gaps(r, batch) ==
    IF r.observed = 0 THEN {} ELSE {t \in Times(batch) : t > Before(r, batch, t) + 1}

\* route_bar_to_entry: bars up to a gap are delivered, the rest waits for the
\* backfill.
RouteBars(r, batch, flushing, mayRecover) ==
    IF batch = {} THEN [route |-> r, asks |-> {}, out |-> {}]
    ELSE IF Enabled(r) /\ ~flushing /\ Buffers(r)
    THEN IF Overflows(r, batch) THEN Overflowed(r, batch)
         ELSE [route |-> Held(r, batch), asks |-> {}, out |-> {}]
    ELSE IF mayRecover /\ Recovers(r) /\ ~r.inflight /\ Gaps(r, batch) # {}
    THEN LET gap    == Earliest(Gaps(r, batch))
             from   == Before(r, batch, gap) + 1
             prefix == {b \in batch : b.time < gap}
             rest   == batch \ prefix
             before == Progress(r, prefix)
             held   == IF flushing THEN HeldFirst(before, rest) ELSE Held(before, rest)
             asking == Asking([MarkUnverified(held, from) EXCEPT !.phase = "recovering"],
                              "gap", from, Bounded(from, gap - 1))
         IN  IF Overflows(before, rest)
             THEN [Overflowed(before, rest) EXCEPT !.out = @ \cup prefix]
             ELSE [route |-> asking.route, asks |-> asking.asks, out |-> prefix]
    ELSE [route |-> Progress(r, batch), asks |-> {}, out |-> batch]

\* Bound: a live batch has the open bar, the one before it, or both.
LiveBatches ==
    {{[time |-> t, final |-> t < now] : t \in S} :
        S \in (SUBSET (Trading \cap (now - 1..now))) \ {{}}}

\* route_bars
LiveBars ==
    /\ pc = "idle"
    /\ \E batch \in LiveBatches :
          LET routed == RouteBars(route, batch, FALSE, TRUE)
          IN  /\ route' = routed.route
              /\ requests' = requests \cup routed.asks
              /\ Deliver(routed.out)
              /\ received' = received \cup Times(batch)
    /\ UNCHANGED <<pc, flush, now, proven>>
-----------------------------------------------------------------------------
(* Stream statuses. *)

\* The slots that a lost transport leaves open.
LossMark(r) ==
    IF ~Recovers(r) THEN r
    ELSE IF r.prefill THEN MarkUnverified(r, r.boundary)
    ELSE IF r.verified # 0 THEN MarkUnverified(r, r.verified + 1)
    ELSE MarkUnverified(r, r.observed)

\* Fault: the answer that was awaited still counts as coming.
LostStillAwaiting(r) ==
    IF Enabled(r) /\ (r.prefill \/ Recovers(r))
    THEN [LossMark(r) EXCEPT !.generation = @ + 1, !.retry = NoRequest,
                             !.target = 0, !.phase = "waiting"]
    ELSE r

\* apply_stream_status_to_entry with DISCONNECTED, RECONNECTING, FAILED, STOPPED
Lost(r) ==
    IF Enabled(r) /\ (r.prefill \/ Recovers(r))
    THEN [LossMark(r) EXCEPT !.generation = @ + 1, !.inflight = FALSE,
                             !.retry = NoRequest, !.target = 0, !.phase = "waiting"]
    ELSE r

TransportLost ==
    /\ pc = "idle" /\ route.generation < MaxLosses
    /\ route' = Lost(route)
    /\ UNCHANGED <<pc, requests, flush, now, start, shown, received, proven>>

\* apply_stream_status_to_entry with READY, and what it starts
TransportReady ==
    /\ pc = "idle"
    /\ Enabled(route) /\ route.phase = "waiting" /\ ~route.inflight
    /\ route.prefill \/ Recovers(route)
    /\ LET started == IF route.prefill
                      THEN StartPrefill([route EXCEPT !.phase = "prefilling"])
                      ELSE StartReconnect([route EXCEPT !.phase = "recovering"])
       IN  /\ route' = started.route
           /\ requests' = requests \cup started.asks
    /\ UNCHANGED <<pc, flush, now, start, shown, received, proven>>

\* The route becomes active; the cached status is replayed into it first.
Activate ==
    /\ pc = "new"
    /\ pc' = "idle"
    /\ \E lost \in {FALSE} \cup {MaxLosses > 0} :
          LET started == IF lost THEN Quiet(Lost(route)) ELSE StartPrefill(route)
          IN  /\ route' = started.route
              /\ requests' = started.asks
    /\ UNCHANGED <<flush, now, start, shown, received, proven>>
-----------------------------------------------------------------------------
(* History answers. *)

\* The bars the provider has of a range.  The boundary of a prefill was open
\* when it was asked for.
BarsOf(request, closed) ==
    {[time |-> t, final |-> request.kind # "prefill" \/ t < request.to \/ closed] :
        t \in Trading \cap (request.from..request.to)}

\* An answer: a failure, one of another stream or out of order, some bars, or all
\* of them with the provider's word for it.
Results(request) ==
    LET full == {BarsOf(request, FALSE)}
                \cup (IF request.to < now THEN {BarsOf(request, TRUE)} ELSE {})
    IN  [kind : {"failed", "malformed"}, bars : {{}}]
        \cup [kind : {"complete"}, bars : full]
        \cup [kind : {"partial"}, bars : UNION {SUBSET bars : bars \in full}]

\* The range is asked for again later.
Retrying(r, request) ==
    [r EXCEPT !.retry = [request EXCEPT !.attempt = @ + 1],
              !.phase = IF request.kind = "prefill" THEN "prefilling" ELSE "recovering"]

\* What a final answer says of the range.
Judged(r, request, usable) ==
    LET s == IF request.kind = "prefill" THEN [r EXCEPT !.prefill = FALSE] ELSE r
    IN  IF ~usable
        THEN IF s.unverified = 0 THEN MarkUnverified(s, request.from) ELSE s
        ELSE IF request.kind = "prefill" THEN s
        ELSE RecordVerified(s, request.from, request.to,
                            request.kind = "reconnect" /\ s.target > request.to)

\* The request the route waits for.
StillAwaits(r, request) == r.inflight /\ r.generation = request.generation

\* The next chunk of a bounded recovery.
NextChunk(r, request) ==
    Asking([r EXCEPT !.phase = "recovering"], "reconnect",
           request.to + 1, Bounded(request.to + 1, r.target))

\* complete_continuity with an answer that is final.
Conclude(request, result) ==
    LET usable  == result.kind = "complete"
        valid   == result.kind \in {"partial", "complete"}
        bars    == IF usable \/ (valid /\ request.kind = "prefill") THEN result.bars ELSE {}
        judged  == Judged([route EXCEPT !.inflight = FALSE, !.phase = "flushing"],
                          request, usable)
        again   == /\ request.kind = "prefill" /\ valid
                   /\ Recovers(judged) /\ judged.unverified # 0
        r       == Progress(judged, bars)
        more    == usable /\ request.kind = "reconnect" /\ r.target > request.to
        next    == IF again THEN StartReconnect([r EXCEPT !.phase = "recovering"])
                   ELSE IF more THEN NextChunk(r, request) ELSE Quiet(r)
    IN  /\ route' = next.route
        /\ requests' = (requests \ {request}) \cup next.asks
        /\ Deliver(bars)
        /\ proven' = IF usable /\ request.kind # "prefill"
                     THEN proven \cup (request.from..request.to) ELSE proven
        /\ IF again \/ more THEN UNCHANGED <<pc, flush>>
           ELSE /\ pc' = "flush"
                /\ flush' = [usable |-> usable,
                             upto |-> IF usable /\ request.kind = "reconnect"
                                      THEN request.to ELSE 0]
        /\ UNCHANGED received

\* complete_continuity
CompleteContinuity ==
    /\ pc = "idle"
    /\ \E request \in requests : \E result \in Results(request) :
          \/ /\ ~StillAwaits(route, request)
             /\ requests' = requests \ {request}
             /\ UNCHANGED <<pc, route, flush, start, shown, received, proven>>
          \/ /\ StillAwaits(route, request)
             /\ result.kind = "failed" /\ request.attempt < MaxAttempts
             /\ requests' = requests \ {request}
             /\ route' = Retrying([route EXCEPT !.inflight = FALSE], request)
             /\ UNCHANGED <<pc, flush, start, shown, received, proven>>
          \/ /\ StillAwaits(route, request)
             /\ result.kind = "failed" => request.attempt = MaxAttempts
             /\ Conclude(request, result)
    /\ UNCHANGED now

\* One round of the release of the buffer.
FlushOne ==
    /\ pc = "flush" /\ route.buffer # <<>>
    /\ LET batch  == Head(route.buffer)
           kept   == {b \in batch : b.time > flush.upto}
           popped == [route EXCEPT !.buffer = Tail(@),
                              !.items = IF @ >= Cardinality(batch)
                                        THEN @ - Cardinality(batch) ELSE 0]
           routed == RouteBars(popped, kept, TRUE, flush.usable)
       IN  /\ route' = routed.route
           /\ requests' = requests \cup routed.asks
           /\ Deliver(routed.out)
           /\ pc' = IF routed.asks # {} THEN "idle" ELSE "flush"
    /\ UNCHANGED <<flush, now, received, proven>>

\* Nothing is left: the route is live when no open slot is known.
FlushDone ==
    /\ pc = "flush" /\ route.buffer = <<>>
    /\ pc' = "idle"
    /\ route' = [route EXCEPT !.phase = IF flush.usable /\ route.unverified = 0
                                        THEN "live" ELSE "degraded",
                              !.target = 0]
    /\ UNCHANGED <<requests, flush, now, start, shown, received, proven>>
-----------------------------------------------------------------------------
(* process() and time. *)

\* A retry that is due.
ProcessRetry ==
    /\ pc = "idle" /\ ~route.inflight /\ route.retry # NoRequest
    /\ route' = [route EXCEPT !.inflight = TRUE, !.retry = NoRequest]
    /\ requests' = requests \cup {route.retry}
    /\ UNCHANGED <<pc, flush, now, start, shown, received, proven>>

\* A recovery that waited for its candle to close.
ProcessRecovery ==
    /\ pc = "idle" /\ route.phase = "recovering" /\ ~route.prefill
    /\ ~route.inflight /\ route.retry = NoRequest
    /\ LET started == StartReconnect(route)
       IN  /\ route' = started.route
           /\ requests' = requests \cup started.asks
    /\ UNCHANGED <<pc, flush, now, start, shown, received, proven>>

\* Bound: a slot closes.
SlotCloses ==
    /\ pc # "flush" /\ now < MaxSlot
    /\ now' = now + 1
    /\ UNCHANGED <<pc, route, requests, flush, start, shown, received, proven>>
-----------------------------------------------------------------------------
Owner == FlushOne \/ FlushDone
Process == ProcessRetry \/ ProcessRecovery

Next ==
    \/ Activate \/ LiveBars \/ TransportLost \/ TransportReady
    \/ CompleteContinuity \/ Owner \/ Process \/ SlotCloses

Spec == Init /\ [][Next]_vars

\* The provider answers and the transport comes back; the host calls process().
FairSpec ==
    /\ Spec
    /\ WF_vars(Activate) /\ WF_vars(TransportReady) /\ WF_vars(Owner)
    /\ WF_vars(CompleteContinuity) /\ WF_vars(Process) /\ WF_vars(SlotCloses)
-----------------------------------------------------------------------------
\* The first slot of the prefill, and where the live part begins: at the prefill's
\* boundary, or at the first bar when that came later.
PrefillStart == route.boundary + 1 - PrefillBars
LiveStart == Latest({route.boundary, start})

TypeOK ==
    /\ pc \in {"new", "idle", "flush"}
    /\ route \in Route
    /\ requests \subseteq Request
    /\ flush \in [usable : BOOLEAN, upto : 0..MaxSlot]
    /\ now \in Slots
    /\ start \in 0..MaxSlot
    /\ shown \subseteq Slots /\ received \subseteq Slots /\ proven \subseteq Slots

\* A route that calls itself live has shown every bar of its live part up to the
\* last one it observed.
LiveIsGapFree ==
    route.phase = "live" /\ Recovers(route) =>
        \A s \in Trading : LiveStart <= s /\ s <= route.observed => s \in shown

\* It has also shown every closed bar that its prefill asked for: those before the
\* boundary, which was the open slot.
LiveHasItsPrefill ==
    route.phase = "live" /\ Recovers(route) /\ route.boundary # 0 =>
        \A s \in Trading : PrefillStart <= s /\ s < route.boundary => s \in shown

\* The earliest open slot moves up only past slots that an accepted answer covers.
OpenUntilProven ==
    [][route.unverified # 0 /\ (route'.unverified = 0 \/ route'.unverified > route.unverified)
         => route.unverified \in proven']_vars

\* No bar of the live part is lost on its way through the buffer.  (An older one
\* may be: the release drops every bar up to the end of a confirmed range.)
NoBarLost ==
    pc # "new" => \A s \in received : LiveStart <= s => s \in shown \cup Buffered(route)

\* A range that an accepted answer covered is not asked for again as a gap.
ProvenIsSettled ==
    [][\A q \in requests' \ requests :
          q.kind = "gap" => ~((q.from..q.to) \subseteq proven)]_vars

\* What holds live bars back ends: in a live route, a degraded one, or at the
\* bound, where the candle to be verified never closes.
RecoveryEnds ==
    Buffers(route) ~> \/ route.phase \in {"live", "degraded"}
                      \/ now = MaxSlot /\ RecoveryStart(route) > LastClosed
=============================================================================
