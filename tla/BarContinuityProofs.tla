------------------------- MODULE BarContinuityProofs ------------------------
(***************************************************************************)
(* Proofs about BarContinuity: its type invariant, that the earliest open  *)
(* slot of a route moves up only past slots that an accepted answer        *)
(* covers, that a live route has shown every bar of its live part, and     *)
(* that no bar is lost on its way through the buffer.  They hold for every *)
(* setting of the options and every bound.                                 *)
(***************************************************************************)
EXTENDS BarContinuity, FiniteSetTheorems, SequenceTheorems, TLAPS

-----------------------------------------------------------------------------
(* The inductive invariant. *)

\* A prefill reaches back to a slot that exists, and only a route that asks for
\* one waits for one.
Fit(r) ==
    /\ r \in Route
    /\ r.boundary # 0 => r.boundary >= FirstSlot
    /\ r.prefill => PrefillBars > 0

IInv ==
    /\ TypeOK /\ Fit(route)
    /\ now >= FirstSlot
    /\ pc = "new" => route.generation = 0

\* What a handler may do to the earliest open slot: find an earlier one.
OpenKept(r, s) ==
    r.unverified # 0 => s.unverified # 0 /\ s.unverified <= r.unverified

\* A route after a handler that neither loses the transport nor proves a range.
Follows(r, s) == Fit(s) /\ s.generation = r.generation /\ OpenKept(r, s)
-----------------------------------------------------------------------------
(* Slots and bars. *)

USE OptionsAssumption

\* Every non-empty set of slots has a latest one ...
LEMMA LatestFacts ==
    ASSUME NEW n \in Nat, NEW S \in SUBSET (0..n), S # {}
    PROVE  Latest(S) \in S /\ \A u \in S : u <= Latest(S)
<1>1. \E t \in S : \A u \in S : u <= t
  <2> DEFINE T == {n - t : t \in S}
  <2>0. \A t \in S : n - t \in Nat
    OBVIOUS
  <2>1. T \subseteq Nat /\ T # {}
    BY <2>0
  <2>2. PICK x \in T : \A y \in T : ~ (<<y, x>> \in OpToRel(<, Nat))
    BY <2>1, NatLessThanWellFounded, WFMin
  <2>3. \A y \in T : ~ (y < x)
    BY <2>1, <2>2 DEF OpToRel
  <2>4. PICK t \in S : x = n - t
    OBVIOUS
  <2>5. \A u \in S : n - u \in T
    OBVIOUS
  <2>6. \A u \in S : ~(n - u < n - t)
    BY <2>3, <2>4, <2>5
  <2>7. \A u \in S : u <= t
    BY <2>6
  <2>8. QED BY <2>7
<1>2. QED BY <1>1 DEF Latest

\* ... and an earliest one.
LEMMA EarliestFacts ==
    ASSUME NEW n \in Nat, NEW S \in SUBSET (0..n), S # {}
    PROVE  Earliest(S) \in S /\ \A u \in S : Earliest(S) <= u
<1>1. \E t \in S : \A u \in S : t <= u
  <2>1. S \subseteq Nat
    OBVIOUS
  <2>2. PICK x \in S : \A y \in S : ~ (<<y, x>> \in OpToRel(<, Nat))
    BY <2>1, NatLessThanWellFounded, WFMin
  <2>3. \A y \in S : ~ (y < x)
    BY <2>1, <2>2 DEF OpToRel
  <2>4. QED BY <2>1, <2>3
<1>2. QED BY <1>1 DEF Earliest

\* The bars of a batch have slots, and there are finitely many.
LEMMA BatchFacts ==
    ASSUME NEW bars \in SUBSET Bar
    PROVE  /\ Times(bars) \subseteq Slots
           /\ bars # {} => Times(bars) # {}
           /\ Cardinality(bars) \in Nat
<1>1. Times(bars) \subseteq Slots /\ (bars # {} => Times(bars) # {})
  BY DEF Times, Bar
<1>2. IsFiniteSet(Bar)
  <2>1. IsFiniteSet(Slots) /\ IsFiniteSet(BOOLEAN)
    <3>1. IsFiniteSet(Slots)
      BY FS_Interval DEF Slots
    <3>2. IsFiniteSet({TRUE}) /\ IsFiniteSet({FALSE})
      BY FS_Singleton
    <3>3. IsFiniteSet({TRUE} \cup {FALSE})
      BY <3>2, FS_Union
    <3>4. BOOLEAN = {TRUE} \cup {FALSE}
      OBVIOUS
    <3>5. QED BY <3>1, <3>3, <3>4
  <2>2. IsFiniteSet(Slots \X BOOLEAN)
    BY <2>1, FS_Product
  <2> DEFINE f == [p \in Slots \X BOOLEAN |-> [time |-> p[1], final |-> p[2]]]
  <2>3. f \in Surjection(Slots \X BOOLEAN, Bar)
    <3>1. f \in [Slots \X BOOLEAN -> Bar]
      BY DEF Bar
    <3>2. ASSUME NEW b \in Bar PROVE \E p \in Slots \X BOOLEAN : f[p] = b
      <4>1. <<b.time, b.final>> \in Slots \X BOOLEAN
        BY DEF Bar
      <4>2. f[<<b.time, b.final>>] = b
        BY <4>1 DEF Bar
      <4>3. QED BY <4>1, <4>2
    <3>3. QED BY <3>1, <3>2 DEF Surjection
  <2> HIDE DEF f
  <2>4. QED BY <2>2, <2>3, FS_Surjection
<1>3. QED BY <1>1, <1>2, FS_Subset, FS_CardinalityType

-----------------------------------------------------------------------------
(* What the helpers do to a route. *)

\* The fields of a route have their types.
LEMMA RouteFields ==
    ASSUME NEW r \in Route
    PROVE  /\ r.observed \in 0..MaxSlot /\ r.verified \in 0..MaxSlot
           /\ r.unverified \in 0 .. MaxSlot + 1
           /\ r.boundary \in 0..MaxSlot /\ r.target \in 0..MaxSlot
           /\ r.generation \in 0..MaxLosses /\ r.phase \in Phases
           /\ r.mode \in {"live_only", "prefill", "recover"}
           /\ r.prefill \in BOOLEAN /\ r.inflight \in BOOLEAN
           /\ r.buffer \in Seq(SUBSET Bar) /\ r.items \in Nat
           /\ r.retry \in Request \cup {NoRequest}
BY DEF Route

\* Following is transitive.
LEMMA FollowsTwice ==
    ASSUME NEW r, Fit(r), NEW s, Follows(r, s), NEW t, Follows(s, t)
    PROVE  Follows(r, t)
<1>1. /\ r.unverified \in Nat /\ s.unverified \in Nat /\ t.unverified \in Nat
  BY RouteFields DEF Fit, Follows
<1>2. QED BY <1>1 DEF Follows, OpenKept

\* A route follows itself.
LEMMA FollowsSelf ==
    ASSUME NEW r, Fit(r)
    PROVE  Follows(r, r)
<1>1. r.unverified \in Nat
  BY RouteFields DEF Fit
<1>2. QED BY <1>1 DEF Follows, OpenKept

\* A route that keeps its open slot, its transport and its boundary follows.
LEMMA KeptFollows ==
    ASSUME NEW r, Fit(r), NEW s \in Route,
           s.unverified = r.unverified, s.generation = r.generation,
           s.boundary = r.boundary, s.prefill => r.prefill
    PROVE  Follows(r, s)
<1>1. r.unverified \in Nat
  BY RouteFields DEF Fit
<1>2. QED BY <1>1 DEF Follows, OpenKept, Fit

\* The fields that no open slot depends on may take any value of their type.
LEMMA PhaseFollows ==
    ASSUME NEW r, Fit(r), NEW p \in Phases
    PROVE  /\ Follows(r, [r EXCEPT !.phase = p])
           /\ Follows(r, [r EXCEPT !.phase = p, !.inflight = TRUE])
           /\ Follows(r, [r EXCEPT !.phase = p, !.inflight = FALSE])
           /\ Follows(r, [r EXCEPT !.phase = p, !.target = 0])
           /\ Follows(r, [r EXCEPT !.inflight = TRUE])
           /\ Follows(r, [r EXCEPT !.inflight = FALSE])
           /\ Follows(r, [r EXCEPT !.prefill = FALSE])
           /\ Follows(r, [r EXCEPT !.inflight = TRUE, !.retry = NoRequest])
<1>1. NoRequest \in Request \cup {NoRequest} /\ 0 \in 0..MaxSlot
  OBVIOUS
<1>2. Follows(r, [r EXCEPT !.phase = p])
  <2> DEFINE e == [r EXCEPT !.phase = p]
  <2>1. /\ e.unverified = r.unverified /\ e.generation = r.generation
        /\ e.boundary = r.boundary /\ (e.prefill => r.prefill)
    BY DEF Fit, Route
  <2>2. e \in Route
    BY <1>1 DEF Fit, Route
  <2> HIDE DEF e
  <2>3. Follows(r, e)
    BY <2>1, <2>2, KeptFollows
  <2>4. QED BY <2>3 DEF e
<1>3. Follows(r, [r EXCEPT !.phase = p, !.inflight = TRUE])
  <2> DEFINE e == [r EXCEPT !.phase = p, !.inflight = TRUE]
  <2>1. /\ e.unverified = r.unverified /\ e.generation = r.generation
        /\ e.boundary = r.boundary /\ (e.prefill => r.prefill)
    BY DEF Fit, Route
  <2>2. e \in Route
    BY <1>1 DEF Fit, Route
  <2> HIDE DEF e
  <2>3. Follows(r, e)
    BY <2>1, <2>2, KeptFollows
  <2>4. QED BY <2>3 DEF e
<1>4. Follows(r, [r EXCEPT !.phase = p, !.inflight = FALSE])
  <2> DEFINE e == [r EXCEPT !.phase = p, !.inflight = FALSE]
  <2>1. /\ e.unverified = r.unverified /\ e.generation = r.generation
        /\ e.boundary = r.boundary /\ (e.prefill => r.prefill)
    BY DEF Fit, Route
  <2>2. e \in Route
    BY <1>1 DEF Fit, Route
  <2> HIDE DEF e
  <2>3. Follows(r, e)
    BY <2>1, <2>2, KeptFollows
  <2>4. QED BY <2>3 DEF e
<1>5. Follows(r, [r EXCEPT !.phase = p, !.target = 0])
  <2> DEFINE e == [r EXCEPT !.phase = p, !.target = 0]
  <2>1. /\ e.unverified = r.unverified /\ e.generation = r.generation
        /\ e.boundary = r.boundary /\ (e.prefill => r.prefill)
    BY DEF Fit, Route
  <2>2. e \in Route
    BY <1>1 DEF Fit, Route
  <2> HIDE DEF e
  <2>3. Follows(r, e)
    BY <2>1, <2>2, KeptFollows
  <2>4. QED BY <2>3 DEF e
<1>6. Follows(r, [r EXCEPT !.inflight = TRUE])
  <2> DEFINE e == [r EXCEPT !.inflight = TRUE]
  <2>1. /\ e.unverified = r.unverified /\ e.generation = r.generation
        /\ e.boundary = r.boundary /\ (e.prefill => r.prefill)
    BY DEF Fit, Route
  <2>2. e \in Route
    BY <1>1 DEF Fit, Route
  <2> HIDE DEF e
  <2>3. Follows(r, e)
    BY <2>1, <2>2, KeptFollows
  <2>4. QED BY <2>3 DEF e
<1>7. Follows(r, [r EXCEPT !.inflight = FALSE])
  <2> DEFINE e == [r EXCEPT !.inflight = FALSE]
  <2>1. /\ e.unverified = r.unverified /\ e.generation = r.generation
        /\ e.boundary = r.boundary /\ (e.prefill => r.prefill)
    BY DEF Fit, Route
  <2>2. e \in Route
    BY <1>1 DEF Fit, Route
  <2> HIDE DEF e
  <2>3. Follows(r, e)
    BY <2>1, <2>2, KeptFollows
  <2>4. QED BY <2>3 DEF e
<1>8. Follows(r, [r EXCEPT !.prefill = FALSE])
  <2> DEFINE e == [r EXCEPT !.prefill = FALSE]
  <2>1. /\ e.unverified = r.unverified /\ e.generation = r.generation
        /\ e.boundary = r.boundary /\ (e.prefill => r.prefill)
    BY DEF Fit, Route
  <2>2. e \in Route
    BY <1>1 DEF Fit, Route
  <2> HIDE DEF e
  <2>3. Follows(r, e)
    BY <2>1, <2>2, KeptFollows
  <2>4. QED BY <2>3 DEF e
<1>9. Follows(r, [r EXCEPT !.inflight = TRUE, !.retry = NoRequest])
  <2> DEFINE e == [r EXCEPT !.inflight = TRUE, !.retry = NoRequest]
  <2>1. /\ e.unverified = r.unverified /\ e.generation = r.generation
        /\ e.boundary = r.boundary /\ (e.prefill => r.prefill)
    BY DEF Fit, Route
  <2>2. e \in Route
    BY <1>1 DEF Fit, Route
  <2> HIDE DEF e
  <2>3. Follows(r, e)
    BY <2>1, <2>2, KeptFollows
  <2>4. QED BY <2>3 DEF e
<1>10. QED BY <1>2, <1>3, <1>4, <1>5, <1>6, <1>7, <1>8, <1>9

\* MarkUnverified opens an earlier slot and changes nothing else.
LEMMA MarkFollows ==
    ASSUME NEW r, Fit(r), NEW from \in 0 .. MaxSlot + 1
    PROVE  LET s == MarkUnverified(r, from)
           IN  /\ Follows(r, s) /\ s.phase = r.phase /\ s.buffer = r.buffer
               /\ s.items = r.items /\ s.observed = r.observed /\ s.verified = r.verified
<1>1. r.unverified \in 0 .. MaxSlot + 1
  BY RouteFields DEF Fit
<1> DEFINE e == [r EXCEPT !.unverified = from]
<1>2. /\ e.unverified = from /\ e.generation = r.generation /\ e.phase = r.phase
      /\ e.buffer = r.buffer /\ e.items = r.items /\ e.observed = r.observed
      /\ e.verified = r.verified /\ e.boundary = r.boundary /\ e.prefill = r.prefill
  BY DEF Fit, Route
<1>3. e \in Route
  BY DEF Fit, Route
<1>4. CASE from # 0 /\ (r.unverified = 0 \/ from < r.unverified)
  <2>1. MarkUnverified(r, from) = e
    BY <1>4 DEF MarkUnverified
  <2> HIDE DEF e
  <2>2. QED BY <1>1, <1>2, <1>3, <1>4, <2>1 DEF Follows, OpenKept, Fit
<1>5. CASE ~(from # 0 /\ (r.unverified = 0 \/ from < r.unverified))
  <2>1. MarkUnverified(r, from) = r
    BY <1>5 DEF MarkUnverified
  <2>2. QED BY <2>1, FollowsSelf
<1>6. QED BY <1>4, <1>5

\* Delivered bars move what was observed and verified.
LEMMA ProgressFollows ==
    ASSUME NEW r, Fit(r), NEW bars \in SUBSET Bar
    PROVE  LET s == Progress(r, bars)
           IN  /\ Follows(r, s) /\ s.unverified = r.unverified /\ s.buffer = r.buffer
               /\ s.items = r.items /\ s.mode = r.mode /\ s.inflight = r.inflight
<1> DEFINE trusted == {b \in bars : b.final /\ (r.unverified = 0 \/ b.time < r.unverified)}
           o == Latest({r.observed} \cup Times(bars))
           v == Latest({r.verified} \cup Times(trusted))
<1>1. r.observed \in 0..MaxSlot /\ r.verified \in 0..MaxSlot /\ r.unverified \in Nat
  BY RouteFields DEF Fit
<1>2. /\ {r.observed} \cup Times(bars) \in SUBSET (0..MaxSlot)
      /\ {r.verified} \cup Times(trusted) \in SUBSET (0..MaxSlot)
  <2>1. trusted \in SUBSET Bar
    OBVIOUS
  <2> HIDE DEF trusted
  <2>2. Times(bars) \subseteq 0..MaxSlot /\ Times(trusted) \subseteq 0..MaxSlot
    BY <2>1, BatchFacts DEF Slots
  <2>3. QED BY <1>1, <2>2
<1>3. o \in 0..MaxSlot
  BY <1>2, LatestFacts
<1>4. v \in 0..MaxSlot
  BY <1>2, LatestFacts
<1>5. Progress(r, bars) = [r EXCEPT !.observed = o, !.verified = v]
  BY DEF Progress
<1> HIDE DEF o, v
<1> DEFINE e == [r EXCEPT !.observed = o, !.verified = v]
<1>6. /\ e.unverified = r.unverified /\ e.generation = r.generation
      /\ e.buffer = r.buffer /\ e.items = r.items /\ e.mode = r.mode
      /\ e.inflight = r.inflight /\ e.boundary = r.boundary /\ e.prefill = r.prefill
  BY DEF Fit, Route
<1>7. e \in Route
  BY <1>3, <1>4 DEF Fit, Route
<1> HIDE DEF e
<1>8. QED BY <1>1, <1>5, <1>6, <1>7 DEF Follows, OpenKept, Fit, e

\* The slots of the held batches.
LEMMA BufferedFacts ==
    ASSUME NEW r \in Route
    PROVE  /\ Buffered(r) \subseteq Slots
           /\ UNION {r.buffer[i] : i \in DOMAIN r.buffer} \subseteq Bar
<1>1. r.buffer \in Seq(SUBSET Bar)
  BY RouteFields
<1>2. \A i \in DOMAIN r.buffer : r.buffer[i] \in SUBSET Bar
  BY <1>1
<1>3. \A i \in DOMAIN r.buffer : Times(r.buffer[i]) \subseteq Slots
  BY <1>2, BatchFacts
<1>4. QED BY <1>2, <1>3 DEF Buffered

\* A recovery starts from a slot.
LEMMA RecoveryStartFacts ==
    ASSUME NEW r, Fit(r)
    PROVE  RecoveryStart(r) \in 0 .. MaxSlot + 1
<1> DEFINE seen == Latest({r.observed} \cup Buffered(r))
<1>1. /\ r.observed \in 0..MaxSlot /\ r.verified \in 0..MaxSlot
      /\ r.unverified \in 0 .. MaxSlot + 1
  BY RouteFields DEF Fit
<1>2. Buffered(r) \in SUBSET (0..MaxSlot)
  BY BufferedFacts DEF Fit, Slots
<1>3. seen \in 0..MaxSlot
  BY <1>1, <1>2, LatestFacts
<1>4. Buffered(r) # {} => Earliest(Buffered(r)) \in 0..MaxSlot
  BY <1>2, EarliestFacts
<1> HIDE DEF seen
<1>5. QED BY <1>1, <1>3, <1>4 DEF RecoveryStart, seen

\* A bounded range ends where it may.
LEMMA BoundedFacts ==
    ASSUME NEW from \in Slots, NEW to \in Slots, from <= to
    PROVE  Bounded(from, to) \in Slots /\ from <= Bounded(from, to) /\ Bounded(from, to) <= to
BY DEF Bounded, Slots

\* A request that is sent is one.
LEMMA AskingFacts ==
    ASSUME NEW r, Fit(r), NEW k \in Kinds, NEW from \in Slots, NEW to \in Slots
    PROVE  LET a == Asking(r, k, from, to)
           IN  Follows(r, a.route) /\ a.asks \subseteq Request
<1>1. r.generation \in 0..MaxLosses /\ 1 \in 1..MaxAttempts
  BY RouteFields DEF Fit
<1>2. Asking(r, k, from, to).asks \subseteq Request
  BY <1>1 DEF Asking, Request
<1>3. Follows(r, [r EXCEPT !.inflight = TRUE])
  BY PhaseFollows DEF Phases
<1>4. QED BY <1>2, <1>3 DEF Asking

-----------------------------------------------------------------------------
(* The handlers. *)

\* What a handler leaves: a route that follows, requests and bars.
Lawful(r, h) == Follows(r, h.route) /\ h.asks \subseteq Request

\* A handler that does nothing is lawful.
LEMMA QuietLawful ==
    ASSUME NEW r, NEW s, Follows(r, s)
    PROVE  Lawful(r, Quiet(s))
BY DEF Lawful, Quiet

\* A request after what follows is lawful.
LEMMA AskingLawful ==
    ASSUME NEW r, Fit(r), NEW s, Follows(r, s), NEW k \in Kinds,
           NEW from \in Slots, NEW to \in Slots
    PROVE  Lawful(r, Asking(s, k, from, to))
<1>1. Fit(s)
  BY DEF Follows
<1>2. /\ Follows(s, Asking(s, k, from, to).route)
      /\ Asking(s, k, from, to).asks \subseteq Request
  BY <1>1, AskingFacts
<1>3. QED BY <1>1, <1>2, FollowsTwice DEF Lawful

\* start_continuity asks from a slot that exists.
LEMMA StartPrefillLawful ==
    ASSUME NEW r, Fit(r), now \in Slots, now >= FirstSlot
    PROVE  Lawful(r, StartPrefill(r))
<1> DEFINE to == IF r.boundary # 0 THEN r.boundary ELSE now
           e  == [r EXCEPT !.boundary = to]
<1>1. CASE r.phase = "prefilling" /\ r.prefill /\ ~r.inflight
  <2>1. r.boundary \in 0..MaxSlot /\ r.unverified \in Nat
    BY RouteFields DEF Fit
  <2>2. to \in Slots /\ to >= FirstSlot
    BY <2>1 DEF Fit, Slots
  <2>3. PrefillBars > 0
    BY <1>1 DEF Fit
  <2>4. to - PrefillBars + 1 \in Slots
    BY <2>2, <2>3 DEF Slots
  <2> HIDE DEF to
  <2>5. /\ e.unverified = r.unverified /\ e.generation = r.generation
        /\ e.boundary = to /\ e.prefill = r.prefill
    BY DEF Fit, Route
  <2>6. e \in Route
    <3>1. to \in 0..MaxSlot /\ r \in Route
      BY <2>2 DEF Fit, Slots
    <3>2. QED BY <3>1 DEF Route
  <2> HIDE DEF e
  <2>7. Follows(r, e)
    BY <2>1, <2>2, <2>3, <2>5, <2>6 DEF Follows, OpenKept, Fit
  <2>8. Lawful(r, Asking(e, "prefill", to - PrefillBars + 1, to))
    BY <2>2, <2>4, <2>7, AskingLawful DEF Kinds
  <2>9. StartPrefill(r) = Asking(e, "prefill", to - PrefillBars + 1, to)
    BY <1>1 DEF StartPrefill, e, to
  <2>10. QED BY <2>8, <2>9
<1>2. CASE ~(r.phase = "prefilling" /\ r.prefill /\ ~r.inflight)
  BY <1>2, FollowsSelf, QuietLawful DEF StartPrefill
<1>3. QED BY <1>1, <1>2

\* start_reconnect_recovery asks for closed slots, or waits.
LEMMA StartReconnectLawful ==
    ASSUME NEW r, Fit(r), now \in Slots
    PROVE  Lawful(r, StartReconnect(r))
<1> DEFINE from == RecoveryStart(r)
<1>1. from \in 0 .. MaxSlot + 1
  BY RecoveryStartFacts
<1> HIDE DEF from
<1>2. CASE ~(r.phase = "recovering" /\ Recovers(r) /\ ~r.prefill /\ ~r.inflight)
  BY <1>2, FollowsSelf, QuietLawful DEF StartReconnect
<1>3. CASE /\ r.phase = "recovering" /\ Recovers(r) /\ ~r.prefill /\ ~r.inflight
           /\ from = 0
  <2>1. Follows(r, [r EXCEPT !.phase = "live", !.target = 0])
    BY PhaseFollows DEF Phases
  <2>2. StartReconnect(r) = Quiet([r EXCEPT !.phase = "live", !.target = 0])
    BY <1>3 DEF StartReconnect, from
  <2>3. QED BY <2>1, <2>2, QuietLawful
<1>4. CASE /\ r.phase = "recovering" /\ Recovers(r) /\ ~r.prefill /\ ~r.inflight
           /\ from # 0 /\ from > LastClosed
  <2>1. StartReconnect(r) = Quiet(r)
    BY <1>4 DEF StartReconnect, from
  <2>2. QED BY <2>1, FollowsSelf, QuietLawful
<1>5. CASE /\ r.phase = "recovering" /\ Recovers(r) /\ ~r.prefill /\ ~r.inflight
           /\ from # 0 /\ ~(from > LastClosed)
  <2> DEFINE m == MarkUnverified(r, from)
             e == [m EXCEPT !.target = LastClosed]
  <2>1. LastClosed \in Slots /\ from \in Slots /\ from <= LastClosed
    BY <1>1, <1>5 DEF LastClosed, Slots
  <2>2. Follows(r, m)
    BY <1>1, MarkFollows
  <2> HIDE DEF m
  <2>3. Fit(m)
    BY <2>2 DEF Follows
  <2>4. /\ e.unverified = m.unverified /\ e.generation = m.generation
        /\ e.boundary = m.boundary /\ e.prefill = m.prefill
    BY <2>3 DEF Fit, Route
  <2>5. e \in Route
    <3> DEFINE l == LastClosed
    <3>1. l \in 0..MaxSlot /\ m \in Route
      BY <2>1, <2>3 DEF Fit, Slots
    <3> HIDE DEF l
    <3>2. [m EXCEPT !.target = l] \in Route
      BY <3>1 DEF Route
    <3>3. QED BY <3>2 DEF l
  <2> HIDE DEF e
  <2>6. Follows(m, e)
    BY <2>3, <2>4, <2>5, KeptFollows
  <2>7. Follows(r, e)
    BY <2>2, <2>6, <2>3, FollowsTwice
  <2>8. Bounded(from, LastClosed) \in Slots
    BY <2>1, BoundedFacts
  <2>9. Lawful(r, Asking(e, "reconnect", from, Bounded(from, LastClosed)))
    BY <2>1, <2>7, <2>8, AskingLawful DEF Kinds
  <2>10. StartReconnect(r) = Asking(e, "reconnect", from, Bounded(from, LastClosed))
    <3>1. /\ r.phase = "recovering" /\ Recovers(r) /\ ~r.prefill /\ ~r.inflight
          /\ from # 0 /\ ~(from > LastClosed)
      BY <1>5
    <3>2. QED BY ONLY <3>1 DEF StartReconnect, from, e, m
  <2>11. QED BY <2>9, <2>10
<1>6. QED BY <1>2, <1>3, <1>4, <1>5

\* The batches that wait.
LEMMA HeldFollows ==
    ASSUME NEW r, Fit(r), NEW batch \in SUBSET Bar
    PROVE  Follows(r, Held(r, batch)) /\ Follows(r, HeldFirst(r, batch))
<1>1. Cardinality(batch) \in Nat
  BY BatchFacts
<1>2. r.buffer \in Seq(SUBSET Bar) /\ r.items \in Nat
  BY RouteFields DEF Fit
<1>3. Follows(r, Held(r, batch))
  <2> DEFINE b == Append(r.buffer, batch)
             n == r.items + Cardinality(batch)
             e == [r EXCEPT !.buffer = b, !.items = n]
  <2>1. b \in Seq(SUBSET Bar) /\ n \in Nat
    BY <1>1, <1>2
  <2>2. Held(r, batch) = e
    BY DEF Held
  <2> HIDE DEF b, n
  <2>3. /\ e.unverified = r.unverified /\ e.generation = r.generation
        /\ e.boundary = r.boundary /\ (e.prefill => r.prefill)
    BY DEF Fit, Route
  <2>4. e \in Route
    BY <2>1 DEF Fit, Route
  <2> HIDE DEF e
  <2>5. QED BY <2>2, <2>3, <2>4, KeptFollows
<1>4. Follows(r, HeldFirst(r, batch))
  <2> DEFINE b == <<batch>> \o r.buffer
             n == r.items + Cardinality(batch)
             e == [r EXCEPT !.buffer = b, !.items = n]
  <2>1. b \in Seq(SUBSET Bar) /\ n \in Nat
    BY <1>1, <1>2
  <2>2. HeldFirst(r, batch) = e
    BY DEF HeldFirst
  <2> HIDE DEF b, n
  <2>3. /\ e.unverified = r.unverified /\ e.generation = r.generation
        /\ e.boundary = r.boundary /\ (e.prefill => r.prefill)
    BY DEF Fit, Route
  <2>4. e \in Route
    BY <2>1 DEF Fit, Route
  <2> HIDE DEF e
  <2>5. QED BY <2>2, <2>3, <2>4, KeptFollows
<1>5. QED BY <1>3, <1>4

\* An overflow keeps what is open.
LEMMA OverflowedLawful ==
    ASSUME NEW r, Fit(r), NEW batch \in SUBSET Bar
    PROVE  Lawful(r, Overflowed(r, batch)) /\ Overflowed(r, batch).out \subseteq Bar
<1> DEFINE all == (UNION {r.buffer[i] : i \in DOMAIN r.buffer}) \cup batch
           q   == Progress(r, all)
           e   == [q EXCEPT !.buffer = <<>>, !.items = 0, !.phase = "degraded",
                            !.prefill = FALSE, !.inflight = FALSE, !.target = 0,
                            !.retry = NoRequest, !.mode = "live_only"]
<1>1. all \in SUBSET Bar
  BY BufferedFacts DEF Fit
<1> HIDE DEF all
<1>2. Follows(r, q)
  BY <1>1, ProgressFollows
<1> HIDE DEF q
<1>3. Fit(q)
  BY <1>2 DEF Follows
<1>4. /\ e.unverified = q.unverified /\ e.generation = q.generation
      /\ e.boundary = q.boundary /\ (e.prefill => q.prefill)
  BY <1>3 DEF Fit, Route
<1>5. e \in Route
  <2> DEFINE f == [q EXCEPT !.buffer = <<>>, !.items = 0, !.phase = "degraded"]
             g == [f EXCEPT !.prefill = FALSE, !.inflight = FALSE, !.target = 0]
             h == [g EXCEPT !.retry = NoRequest, !.mode = "live_only"]
  <2>1. <<>> \in Seq(SUBSET Bar) /\ 0 \in Nat /\ 0 \in 0..MaxSlot
    OBVIOUS
  <2>2. q \in Route
    BY <1>3 DEF Fit
  <2>3. f \in Route
    BY <2>1, <2>2 DEF Route, Phases
  <2>4. e = h
    BY <2>2 DEF Route
  <2> HIDE DEF f
  <2>5. g \in Route
    BY <2>1, <2>3 DEF Route
  <2> HIDE DEF g
  <2>6. h \in Route
    BY <2>5 DEF Route
  <2>7. QED BY <2>4, <2>6
<1>6. Overflowed(r, batch) = [route |-> e, asks |-> {}, out |-> all]
  BY DEF Overflowed, q, all
<1> HIDE DEF e
<1>7. Follows(q, e)
  BY <1>3, <1>4, <1>5, KeptFollows
<1>8. Follows(r, e)
  BY <1>2, <1>3, <1>7, FollowsTwice
<1>9. QED BY <1>1, <1>6, <1>8 DEF Lawful

\* The first bar with a gap before it, and the slot that is missing.
LEMMA GapFacts ==
    ASSUME NEW r, Fit(r), NEW batch \in SUBSET Bar, Gaps(r, batch) # {}
    PROVE  LET gap == Earliest(Gaps(r, batch)) IN
           /\ Before(r, batch, gap) + 1 \in Slots /\ gap - 1 \in Slots
           /\ Before(r, batch, gap) + 1 <= gap - 1
<1> DEFINE gap == Earliest(Gaps(r, batch))
           S   == {r.observed} \cup {u \in Times(batch) : u < gap}
<1>1. r.observed \in 0..MaxSlot /\ Times(batch) \subseteq Slots
  BY RouteFields, BatchFacts DEF Fit
<1>2. Gaps(r, batch) \in SUBSET (0..MaxSlot)
  BY <1>1 DEF Gaps, Slots
<1>3. gap \in Gaps(r, batch)
  BY <1>2, EarliestFacts
<1>4. gap \in Slots /\ gap > Before(r, batch, gap) + 1
  BY <1>1, <1>3 DEF Gaps
<1> HIDE DEF gap
<1>5. S \in SUBSET (0..MaxSlot) /\ S # {}
  BY <1>1, <1>4 DEF Slots
<1>6. Latest(S) \in 0..MaxSlot
  BY <1>5, LatestFacts
<1>7. Before(r, batch, gap) = Latest(S)
  BY DEF Before
<1> HIDE DEF S
<1>8. QED BY <1>4, <1>6, <1>7 DEF Slots, gap

\* route_bar_to_entry opens the slot of a gap before it asks for it.
LEMMA RouteBarsLawful ==
    ASSUME NEW r, Fit(r), NEW batch \in SUBSET Bar,
           NEW flushing \in BOOLEAN, NEW mayRecover \in BOOLEAN
    PROVE  LET h == RouteBars(r, batch, flushing, mayRecover)
           IN  Lawful(r, h) /\ h.out \subseteq Bar
<1> DEFINE h == RouteBars(r, batch, flushing, mayRecover)
<1>1. CASE batch = {}
  <2>1. h = [route |-> r, asks |-> {}, out |-> {}]
    BY <1>1 DEF RouteBars
  <2> HIDE DEF h
  <2>2. QED BY <2>1, FollowsSelf DEF Lawful, h
<1>2. CASE batch # {} /\ Enabled(r) /\ ~flushing /\ Buffers(r)
  <2>1. CASE Overflows(r, batch)
    <3>1. h = Overflowed(r, batch)
      BY <1>2, <2>1 DEF RouteBars
    <3>2. QED BY <3>1, OverflowedLawful
  <2>2. CASE ~Overflows(r, batch)
    <3>1. h = [route |-> Held(r, batch), asks |-> {}, out |-> {}]
      BY <1>2, <2>2 DEF RouteBars
    <3> HIDE DEF h
    <3>2. QED BY <3>1, HeldFollows DEF Lawful, h
  <2>3. QED BY <2>1, <2>2
<1>3. CASE /\ batch # {} /\ ~(Enabled(r) /\ ~flushing /\ Buffers(r))
           /\ mayRecover /\ Recovers(r) /\ ~r.inflight /\ Gaps(r, batch) # {}
  <2> DEFINE gap    == Earliest(Gaps(r, batch))
             from   == Before(r, batch, gap) + 1
             prefix == {b \in batch : b.time < gap}
             rest   == batch \ prefix
             before == Progress(r, prefix)
             held   == IF flushing THEN HeldFirst(before, rest) ELSE Held(before, rest)
             m      == MarkUnverified(held, from)
             e      == [m EXCEPT !.phase = "recovering"]
             asking == Asking(e, "gap", from, Bounded(from, gap - 1))
             over   == Overflowed(before, rest)
  <2>1. h = IF Overflows(before, rest)
            THEN [over EXCEPT !.out = @ \cup prefix]
            ELSE [route |-> asking.route, asks |-> asking.asks, out |-> prefix]
    BY <1>3 DEF RouteBars
  <2>2. from \in Slots /\ gap - 1 \in Slots /\ from <= gap - 1
    BY <1>3, GapFacts
  <2> HIDE DEF gap, from
  <2>3. prefix \in SUBSET Bar /\ rest \in SUBSET Bar
    OBVIOUS
  <2> HIDE DEF prefix, rest
  <2>4. Follows(r, before)
    BY <2>3, ProgressFollows
  <2> HIDE DEF before
  <2>5. Fit(before)
    BY <2>4 DEF Follows
  <2>6. Follows(before, held)
    BY <2>3, <2>5, HeldFollows
  <2> HIDE DEF held
  <2>7. Fit(held) /\ from \in 0 .. MaxSlot + 1
    BY <2>2, <2>6 DEF Follows, Slots
  <2>8. Follows(held, m)
    BY <2>7, MarkFollows
  <2> HIDE DEF m
  <2>9. Fit(m)
    BY <2>8 DEF Follows
  <2>10. Follows(m, e)
    BY <2>9, PhaseFollows DEF Phases
  <2> HIDE DEF e
  <2>11. Follows(r, held)
    BY <2>4, <2>5, <2>6, FollowsTwice
  <2>12. Follows(r, m)
    BY <2>7, <2>8, <2>11, FollowsTwice
  <2>13. Follows(r, e)
    BY <2>9, <2>10, <2>12, FollowsTwice
  <2>14. Bounded(from, gap - 1) \in Slots
    BY <2>2, BoundedFacts
  <2>15. Lawful(r, asking)
    BY <2>2, <2>13, <2>14, AskingLawful DEF Kinds
  <2>16. Lawful(before, over) /\ over.out \subseteq Bar
    BY <2>3, <2>5, OverflowedLawful
  <2>17. over = [route |-> over.route, asks |-> over.asks, out |-> over.out]
    BY DEF Overflowed
  <2>18. Lawful(r, over)
    BY <2>4, <2>5, <2>16, FollowsTwice DEF Lawful
  <2> HIDE DEF asking, over, h
  <2>19. CASE Overflows(before, rest)
    <3>1. h.route = over.route /\ h.asks = over.asks /\ h.out = over.out \cup prefix
      BY <2>1, <2>17, <2>19
    <3>2. QED BY <2>3, <2>16, <2>18, <3>1 DEF Lawful, h
  <2>20. CASE ~Overflows(before, rest)
    <3>1. h.route = asking.route /\ h.asks = asking.asks /\ h.out = prefix
      BY <2>1, <2>20
    <3>2. QED BY <2>3, <2>15, <3>1 DEF Lawful, h
  <2>21. QED BY <2>19, <2>20
<1>4. CASE /\ batch # {} /\ ~(Enabled(r) /\ ~flushing /\ Buffers(r))
           /\ ~(mayRecover /\ Recovers(r) /\ ~r.inflight /\ Gaps(r, batch) # {})
  <2>1. h = [route |-> Progress(r, batch), asks |-> {}, out |-> batch]
    BY <1>4 DEF RouteBars
  <2> HIDE DEF h
  <2>2. Follows(r, Progress(r, batch))
    BY ProgressFollows
  <2>3. QED BY <2>1, <2>2 DEF Lawful, h
<1>5. QED BY <1>1, <1>2, <1>3, <1>4
-----------------------------------------------------------------------------
(* Losses and answers. *)

\* A lost transport starts a new generation and keeps what is open.
LEMMA LostFacts ==
    ASSUME NEW r, Fit(r), r.generation < MaxLosses
    PROVE  /\ Fit(Lost(r)) /\ OpenKept(r, Lost(r))
<1>1. /\ r.boundary \in 0..MaxSlot /\ r.verified \in 0..MaxSlot
      /\ r.observed \in 0..MaxSlot /\ r.generation \in 0..MaxLosses
      /\ r.unverified \in Nat
  BY RouteFields DEF Fit
<1> DEFINE m == LossMark(r)
           g == m.generation + 1
           e == [m EXCEPT !.generation = g, !.inflight = FALSE,
                          !.retry = NoRequest, !.target = 0, !.phase = "waiting"]
<1>2. CASE Enabled(r) /\ (r.prefill \/ Recovers(r))
  <2>1. Follows(r, m)
    <3>1. CASE ~Recovers(r)
      BY <3>1, FollowsSelf DEF LossMark
    <3>2. CASE Recovers(r) /\ r.prefill
      <4>1. m = MarkUnverified(r, r.boundary)
        BY <3>2 DEF LossMark
      <4>2. QED BY <1>1, <4>1, MarkFollows
    <3>3. CASE Recovers(r) /\ ~r.prefill /\ r.verified # 0
      <4>1. m = MarkUnverified(r, r.verified + 1)
        BY <3>3 DEF LossMark
      <4>2. r.verified + 1 \in 0 .. MaxSlot + 1
        BY <1>1
      <4>3. QED BY <4>1, <4>2, MarkFollows
    <3>4. CASE Recovers(r) /\ ~r.prefill /\ r.verified = 0
      <4>1. m = MarkUnverified(r, r.observed)
        BY <3>4 DEF LossMark
      <4>2. QED BY <1>1, <4>1, MarkFollows
    <3>5. QED BY <3>1, <3>2, <3>3, <3>4
  <2>2. Lost(r) = e
    BY <1>2 DEF Lost
  <2> HIDE DEF m
  <2>3. Fit(m) /\ m.generation = r.generation /\ OpenKept(r, m)
    BY <2>1 DEF Follows
  <2>4. g \in 0..MaxLosses /\ NoRequest \in Request \cup {NoRequest} /\ 0 \in 0..MaxSlot
    BY <1>1, <2>3
  <2> HIDE DEF g
  <2>5. e.unverified = m.unverified /\ e.boundary = m.boundary /\ e.prefill = m.prefill
    BY <2>3 DEF Fit, Route
  <2>6. e \in Route
    <3> DEFINE f == [m EXCEPT !.generation = g, !.inflight = FALSE, !.retry = NoRequest]
               h == [f EXCEPT !.target = 0, !.phase = "waiting"]
    <3>1. m \in Route
      BY <2>3 DEF Fit
    <3>2. f \in Route
      BY <2>4, <3>1 DEF Route
    <3>3. e = h
      BY <3>1 DEF Route
    <3> HIDE DEF f, e
    <3>4. h \in Route
      BY <2>4, <3>2 DEF Route, Phases
    <3>5. QED BY <3>3, <3>4
  <2> HIDE DEF e
  <2>7. QED BY <2>2, <2>3, <2>5, <2>6 DEF Fit, OpenKept
<1>3. CASE ~(Enabled(r) /\ (r.prefill \/ Recovers(r)))
  BY <1>1, <1>3, FollowsSelf DEF Lost, Follows
<1>4. QED BY <1>2, <1>3

\* A request of the provider's queue.
LEMMA RequestFields ==
    ASSUME NEW q \in Request
    PROVE  /\ q.kind \in Kinds /\ q.from \in Slots /\ q.to \in Slots
           /\ q.attempt \in 1..MaxAttempts /\ q.generation \in 0..MaxLosses
BY DEF Request

\* record_verified_range moves the earliest open slot up only from inside the range.
LEMMA VerifiedFacts ==
    ASSUME NEW r, Fit(r), NEW from \in Slots, NEW to \in Slots, NEW more \in BOOLEAN,
           more => to < MaxSlot
    PROVE  LET s == RecordVerified(r, from, to, more)
           IN  /\ Fit(s) /\ s.generation = r.generation /\ s.target = r.target
               /\ OpenKept(r, s) \/ r.unverified \in from..to
<1> DEFINE s == RecordVerified(r, from, to, more)
           v == Latest({r.verified, to})
           u == IF more THEN to + 1 ELSE 0
           e == [r EXCEPT !.verified = v, !.unverified = u]
<1>1. r.verified \in 0..MaxSlot /\ r.unverified \in 0 .. MaxSlot + 1
  BY RouteFields DEF Fit
<1>2. CASE r.unverified # 0 /\ (from > r.unverified \/ to < r.unverified)
  <2>1. s = r
    BY <1>2 DEF RecordVerified
  <2> HIDE DEF s
  <2>2. QED BY <2>1, FollowsSelf DEF Follows, s
<1>3. CASE ~(r.unverified # 0 /\ (from > r.unverified \/ to < r.unverified))
  <2>1. s = e
    BY <1>3 DEF RecordVerified
  <2> HIDE DEF s
  <2>2. {r.verified, to} \in SUBSET (0..MaxSlot)
    BY <1>1 DEF Slots
  <2>3. v \in 0..MaxSlot
    BY <2>2, LatestFacts
  <2>4. u \in 0 .. MaxSlot + 1
    BY DEF Slots
  <2> HIDE DEF v, u
  <2>5. /\ e.generation = r.generation /\ e.target = r.target
        /\ e.boundary = r.boundary /\ e.prefill = r.prefill
    BY DEF Fit, Route
  <2>6. e \in Route
    BY <2>3, <2>4 DEF Fit, Route
  <2> HIDE DEF e
  <2>7. r.unverified = 0 \/ r.unverified \in from..to
    BY <1>1, <1>3 DEF Slots
  <2>8. QED BY <2>1, <2>5, <2>6, <2>7 DEF Fit, OpenKept, s
<1>4. QED BY <1>2, <1>3

\* A final answer moves the earliest open slot up only if it is complete, no
\* prefill, and covers that slot.
LEMMA JudgedFacts ==
    ASSUME NEW r, Fit(r), NEW q \in Request, NEW usable \in BOOLEAN
    PROVE  LET s == Judged(r, q, usable)
           IN  /\ Fit(s) /\ s.generation = r.generation
               /\ \/ OpenKept(r, s)
                  \/ usable /\ q.kind # "prefill" /\ r.unverified \in q.from..q.to
<1> DEFINE p    == IF q.kind = "prefill" THEN [r EXCEPT !.prefill = FALSE] ELSE r
           s    == Judged(r, q, usable)
           more == q.kind = "reconnect" /\ p.target > q.to
<1>1. q.from \in Slots /\ q.to \in Slots
  BY RequestFields
<1>2. Follows(r, p)
  <2>1. CASE q.kind = "prefill"
    BY <2>1, PhaseFollows DEF Phases
  <2>2. CASE q.kind # "prefill"
    BY <2>2, FollowsSelf
  <2>3. QED BY <2>1, <2>2
<1>3. p.unverified = r.unverified
  BY DEF Fit, Route
<1>4. s = IF ~usable THEN IF p.unverified = 0 THEN MarkUnverified(p, q.from) ELSE p
          ELSE IF q.kind = "prefill" THEN p ELSE RecordVerified(p, q.from, q.to, more)
  BY DEF Judged
<1> HIDE DEF p, s
<1>5. Fit(p) /\ p.generation = r.generation
  BY <1>2 DEF Follows
<1>6. CASE s = p
  BY <1>2, <1>6 DEF Follows, s
<1>7. CASE s = MarkUnverified(p, q.from)
  <2>1. q.from \in 0 .. MaxSlot + 1
    BY <1>1 DEF Slots
  <2>2. Follows(p, MarkUnverified(p, q.from))
    BY <1>5, <2>1, MarkFollows
  <2>3. Follows(r, MarkUnverified(p, q.from))
    BY <1>2, <1>5, <2>2, FollowsTwice
  <2>4. QED BY <1>7, <2>3 DEF Follows, s
<1>8. CASE usable /\ q.kind # "prefill" /\ s = RecordVerified(p, q.from, q.to, more)
  <2>1. p.target \in 0..MaxSlot
    BY <1>5, RouteFields DEF Fit
  <2>2. more \in BOOLEAN /\ (more => q.to < MaxSlot)
    BY <1>1, <2>1 DEF Slots
  <2> HIDE DEF more
  <2>3. /\ Fit(s) /\ s.generation = p.generation
        /\ OpenKept(p, s) \/ p.unverified \in q.from..q.to
    BY <1>1, <1>5, <1>8, <2>2, VerifiedFacts
  <2>4. OpenKept(p, s) => OpenKept(r, s)
    BY <1>3 DEF OpenKept
  <2>5. QED BY <1>3, <1>5, <1>8, <2>3, <2>4 DEF s
<1>9. QED BY <1>4, <1>6, <1>7, <1>8

\* The bars of an answer are bars.
LEMMA ResultFacts ==
    ASSUME NEW q \in Request, NEW result \in Results(q)
    PROVE  /\ result.bars \subseteq Bar
           /\ result.kind \in {"failed", "malformed", "partial", "complete"}
<1>1. \A c \in BOOLEAN : BarsOf(q, c) \subseteq Bar
  <2> SUFFICES ASSUME NEW c \in BOOLEAN, NEW b \in BarsOf(q, c) PROVE b \in Bar
    OBVIOUS
  <2>1. PICK t \in Trading \cap (q.from..q.to) :
          b = [time |-> t, final |-> q.kind # "prefill" \/ t < q.to \/ c]
    BY DEF BarsOf
  <2> DEFINE f == q.kind # "prefill" \/ t < q.to \/ c
  <2>2. f \in BOOLEAN
    OBVIOUS
  <2>3. t \in Slots /\ b = [time |-> t, final |-> f]
    BY <2>1
  <2> HIDE DEF f
  <2>4. QED BY <2>2, <2>3 DEF Bar
<1> DEFINE full == {BarsOf(q, FALSE)}
                   \cup (IF q.to < now THEN {BarsOf(q, TRUE)} ELSE {})
<1>2. \A bars \in full : bars \subseteq Bar
  BY <1>1
<1>3. result \in [kind : {"failed", "malformed"}, bars : {{}}]
                 \cup [kind : {"complete"}, bars : full]
                 \cup [kind : {"partial"}, bars : UNION {SUBSET bars : bars \in full}]
  BY DEF Results
<1> HIDE DEF full
<1>4. CASE result \in [kind : {"failed", "malformed"}, bars : {{}}]
  BY <1>4
<1>5. CASE result \in [kind : {"complete"}, bars : full]
  BY <1>2, <1>5
<1>6. CASE result \in [kind : {"partial"}, bars : UNION {SUBSET bars : bars \in full}]
  <2>1. result.bars \in UNION {SUBSET bars : bars \in full} /\ result.kind = "partial"
    BY <1>6
  <2>2. PICK bars \in full : result.bars \subseteq bars
    BY <2>1
  <2>3. QED BY <1>2, <2>1, <2>2
<1>7. QED BY <1>3, <1>4, <1>5, <1>6

\* Delivered bars keep the history typed.
LEMMA DeliverFacts ==
    ASSUME NEW bars \in SUBSET Bar, Deliver(bars), shown \subseteq Slots, start \in 0..MaxSlot
    PROVE  shown' \subseteq Slots /\ start' \in 0..MaxSlot
<1>1. Times(bars) \subseteq Slots /\ (bars # {} => Times(bars) # {})
  BY BatchFacts
<1>2. bars # {} => Earliest(Times(bars)) \in Times(bars)
  BY <1>1, EarliestFacts DEF Slots
<1>3. shown' = shown \cup Times(bars)
  BY DEF Deliver
<1>4. start' = IF start = 0 /\ bars # {} THEN Earliest(Times(bars)) ELSE start
  BY DEF Deliver
<1>5. shown' \subseteq Slots
  BY <1>1, <1>3
<1>6. Slots \subseteq 0..MaxSlot
  BY DEF Slots
<1>7. QED BY <1>1, <1>2, <1>4, <1>5, <1>6
-----------------------------------------------------------------------------
(* The steps. *)

\* What every step does to the route, its requests and what was shown.
Moves ==
    /\ Fit(route') /\ requests' \subseteq Request
    /\ shown' \subseteq Slots /\ start' \in 0..MaxSlot
    /\ OpenKept(route, route') \/ route.unverified \in proven'

\* A lawful handler moves the route.
LEMMA HandlerMoves ==
    ASSUME IInv, NEW h, Lawful(route, h), route' = h.route, requests' = requests \cup h.asks,
           shown' \subseteq Slots, start' \in 0..MaxSlot
    PROVE  Moves
BY DEF IInv, TypeOK, Lawful, Follows, Moves

\* The route is activated, with or without a loss.
LEMMA ActivateMoves ==
    ASSUME IInv, Activate
    PROVE  Moves
<1>1. /\ Fit(route) /\ route.generation = 0 /\ now \in Slots /\ now >= FirstSlot
      /\ shown' \subseteq Slots /\ start' \in 0..MaxSlot
  BY DEF Activate, IInv, TypeOK
<1>2. PICK lost \in {FALSE} \cup {MaxLosses > 0} :
        LET started == IF lost THEN Quiet(Lost(route)) ELSE StartPrefill(route)
        IN  route' = started.route /\ requests' = started.asks
  BY DEF Activate
<1>3. CASE lost
  <2>1. MaxLosses > 0
    BY <1>2, <1>3
  <2>2. Fit(Lost(route)) /\ OpenKept(route, Lost(route))
    BY <1>1, <2>1, LostFacts
  <2>3. route' = Lost(route) /\ requests' = {}
    BY <1>2, <1>3 DEF Quiet
  <2>4. QED BY <1>1, <2>2, <2>3 DEF Moves
<1>4. CASE ~lost
  <2>1. Lawful(route, StartPrefill(route))
    BY <1>1, StartPrefillLawful
  <2>2. route' = StartPrefill(route).route /\ requests' = StartPrefill(route).asks
    BY <1>2, <1>4
  <2>3. QED BY <1>1, <2>1, <2>2 DEF Lawful, Follows, Moves
<1>5. QED BY <1>3, <1>4

\* A live batch is routed.
LEMMA LiveBarsMoves ==
    ASSUME IInv, LiveBars
    PROVE  Moves /\ received' \subseteq Slots
<1>1. Fit(route) /\ shown \subseteq Slots /\ start \in 0..MaxSlot /\ received \subseteq Slots
  BY DEF IInv, TypeOK
<1>2. PICK batch \in LiveBatches :
        /\ route' = RouteBars(route, batch, FALSE, TRUE).route
        /\ requests' = requests \cup RouteBars(route, batch, FALSE, TRUE).asks
        /\ Deliver(RouteBars(route, batch, FALSE, TRUE).out)
        /\ received' = received \cup Times(batch)
  BY DEF LiveBars
<1>3. batch \in SUBSET Bar
  <2>1. PICK S \in SUBSET (Trading \cap (now - 1..now)) :
          batch = {[time |-> t, final |-> t < now] : t \in S}
    BY DEF LiveBatches
  <2>2. \A t \in S : [time |-> t, final |-> t < now] \in Bar
    <3> SUFFICES ASSUME NEW t \in S PROVE [time |-> t, final |-> t < now] \in Bar
      OBVIOUS
    <3> DEFINE f == t < now
    <3>1. f \in BOOLEAN /\ t \in Slots
      OBVIOUS
    <3> HIDE DEF f
    <3>2. [time |-> t, final |-> f] \in Bar
      BY <3>1 DEF Bar
    <3>3. QED BY <3>2 DEF f
  <2>3. QED BY <2>1, <2>2
<1> DEFINE h == RouteBars(route, batch, FALSE, TRUE)
<1>4. Lawful(route, h) /\ h.out \in SUBSET Bar
  BY <1>1, <1>3, RouteBarsLawful
<1> HIDE DEF h
<1>5. route' = h.route /\ requests' = requests \cup h.asks /\ Deliver(h.out)
  BY <1>2 DEF h
<1>6. shown' \subseteq Slots /\ start' \in 0..MaxSlot
  BY <1>1, <1>4, <1>5, DeliverFacts
<1>7. Moves
  BY <1>4, <1>5, <1>6, HandlerMoves
<1>8. received' \subseteq Slots
  BY <1>1, <1>2, <1>3, BatchFacts
<1>9. QED BY <1>7, <1>8

\* The transport comes back.
LEMMA ReadyMoves ==
    ASSUME IInv, TransportReady
    PROVE  Moves
<1>1. /\ Fit(route) /\ now \in Slots /\ now >= FirstSlot
      /\ shown' \subseteq Slots /\ start' \in 0..MaxSlot
  BY DEF TransportReady, IInv, TypeOK
<1> DEFINE p == [route EXCEPT !.phase = "prefilling"]
           q == [route EXCEPT !.phase = "recovering"]
           h == IF route.prefill THEN StartPrefill(p) ELSE StartReconnect(q)
<1>2. Follows(route, p) /\ Follows(route, q)
  BY <1>1, PhaseFollows DEF Phases
<1>3. route' = h.route /\ requests' = requests \cup h.asks
  BY DEF TransportReady
<1> HIDE DEF p, q
<1>4. Fit(p) /\ Fit(q)
  BY <1>2 DEF Follows
<1>5. Lawful(p, StartPrefill(p)) /\ Lawful(q, StartReconnect(q))
  BY <1>1, <1>4, StartPrefillLawful, StartReconnectLawful
<1>6. Lawful(route, h)
  BY <1>1, <1>2, <1>4, <1>5, FollowsTwice DEF Lawful
<1> HIDE DEF h
<1>7. QED BY <1>1, <1>3, <1>6, HandlerMoves

\* A batch of the buffer is released.
LEMMA FlushOneMoves ==
    ASSUME IInv, FlushOne
    PROVE  Moves
<1>1. /\ Fit(route) /\ shown \subseteq Slots /\ start \in 0..MaxSlot
      /\ flush.usable \in BOOLEAN
  BY DEF IInv, TypeOK
<1> DEFINE batch  == Head(route.buffer)
           kept   == {b \in batch : b.time > flush.upto}
           rest   == Tail(route.buffer)
           n      == IF route.items >= Cardinality(batch)
                     THEN route.items - Cardinality(batch) ELSE 0
           popped == [route EXCEPT !.buffer = rest, !.items = n]
           h      == RouteBars(popped, kept, TRUE, flush.usable)
<1>2. route' = h.route /\ requests' = requests \cup h.asks /\ Deliver(h.out)
  BY DEF FlushOne
<1>3. route.buffer \in Seq(SUBSET Bar) /\ route.buffer # <<>> /\ route.items \in Nat
  BY <1>1, RouteFields DEF Fit, FlushOne
<1>4. batch \in SUBSET Bar /\ rest \in Seq(SUBSET Bar)
  <2> DEFINE S == SUBSET Bar
  <2>1. route.buffer \in Seq(S)
    BY <1>3
  <2> HIDE DEF S
  <2>2. Head(route.buffer) \in S /\ Tail(route.buffer) \in Seq(S)
    BY <1>3, <2>1
  <2>3. QED BY <2>2 DEF S
<1> HIDE DEF batch, rest
<1>5. kept \in SUBSET Bar /\ n \in Nat
  BY <1>3, <1>4, BatchFacts
<1> HIDE DEF kept, n
<1>6. /\ popped.unverified = route.unverified /\ popped.generation = route.generation
      /\ popped.boundary = route.boundary /\ (popped.prefill => route.prefill)
  BY <1>1 DEF Fit, Route
<1>7. popped \in Route
  BY <1>1, <1>4, <1>5 DEF Fit, Route
<1> HIDE DEF popped
<1>8. Follows(route, popped)
  BY <1>1, <1>6, <1>7, KeptFollows
<1>9. Fit(popped)
  BY <1>8 DEF Follows
<1>10. Lawful(popped, h) /\ h.out \in SUBSET Bar
  BY <1>1, <1>5, <1>9, RouteBarsLawful
<1> HIDE DEF h
<1>11. Lawful(route, h)
  BY <1>1, <1>8, <1>9, <1>10, FollowsTwice DEF Lawful
<1>12. shown' \subseteq Slots /\ start' \in 0..MaxSlot
  BY <1>1, <1>2, <1>10, DeliverFacts
<1>13. QED BY <1>2, <1>11, <1>12, HandlerMoves

\* The release ends.
LEMMA FlushDoneMoves ==
    ASSUME IInv, FlushDone
    PROVE  Moves
<1>1. /\ Fit(route) /\ requests' \subseteq Request
      /\ shown' \subseteq Slots /\ start' \in 0..MaxSlot
  BY DEF FlushDone, IInv, TypeOK
<1> DEFINE p == IF flush.usable /\ route.unverified = 0 THEN "live" ELSE "degraded"
<1>2. route' = [route EXCEPT !.phase = p, !.target = 0] /\ p \in Phases
  BY DEF FlushDone, Phases
<1> HIDE DEF p
<1>3. Follows(route, route')
  BY <1>1, <1>2, PhaseFollows
<1>4. QED BY <1>1, <1>3 DEF Moves, Follows

\* process() sends what is due.
LEMMA ProcessMoves ==
    ASSUME IInv, Process
    PROVE  Moves
<1>1. /\ Fit(route) /\ requests \subseteq Request /\ now \in Slots
      /\ shown' \subseteq Slots /\ start' \in 0..MaxSlot
  BY DEF Process, ProcessRetry, ProcessRecovery, IInv, TypeOK
<1>2. CASE ProcessRetry
  <2>1. route.phase \in Phases /\ route.retry \in Request \cup {NoRequest}
    BY <1>1, RouteFields DEF Fit
  <2>2. Follows(route, [route EXCEPT !.inflight = TRUE, !.retry = NoRequest])
    BY <1>1, <2>1, PhaseFollows
  <2>3. /\ route' = [route EXCEPT !.inflight = TRUE, !.retry = NoRequest]
        /\ requests' = requests \cup {route.retry} /\ route.retry # NoRequest
    BY <1>2 DEF ProcessRetry
  <2>4. requests' \subseteq Request
    BY <1>1, <2>1, <2>3
  <2>5. QED BY <1>1, <2>2, <2>3, <2>4 DEF Moves, Follows
<1>3. CASE ProcessRecovery
  <2>1. Lawful(route, StartReconnect(route))
    BY <1>1, StartReconnectLawful
  <2>2. /\ route' = StartReconnect(route).route
        /\ requests' = requests \cup StartReconnect(route).asks
    BY <1>3 DEF ProcessRecovery
  <2>3. QED BY <1>1, <2>1, <2>2, HandlerMoves
<1>4. QED BY <1>2, <1>3 DEF Process

\* A failed request is kept for another attempt.
LEMMA RetryingFollows ==
    ASSUME NEW r, Fit(r), NEW q \in Request, q.attempt < MaxAttempts
    PROVE  Follows(r, Retrying([r EXCEPT !.inflight = FALSE], q))
<1> DEFINE again == [q EXCEPT !.attempt = @ + 1]
           p == IF q.kind = "prefill" THEN "prefilling" ELSE "recovering"
           i == [r EXCEPT !.inflight = FALSE]
           e == [i EXCEPT !.retry = again, !.phase = p]
<1>1. again \in Request /\ p \in Phases
  BY RequestFields DEF Request, Phases
<1>2. Follows(r, i)
  BY PhaseFollows DEF Phases
<1>3. Retrying(i, q) = e
  BY DEF Retrying
<1> HIDE DEF again, p, i
<1>4. Fit(i)
  BY <1>2 DEF Follows
<1>5. /\ e.unverified = i.unverified /\ e.generation = i.generation
      /\ e.boundary = i.boundary /\ (e.prefill => i.prefill)
  BY <1>4 DEF Fit, Route
<1>6. e \in Route
  BY <1>1, <1>4 DEF Fit, Route
<1> HIDE DEF e
<1>7. Follows(i, e)
  BY <1>4, <1>5, <1>6, KeptFollows
<1>8. Follows(r, e)
  BY <1>2, <1>4, <1>7, FollowsTwice
<1>9. QED BY <1>3, <1>8 DEF i

\* The next chunk of a recovery ends at its target.
LEMMA NextChunkLawful ==
    ASSUME NEW r, Fit(r), NEW q \in Request, r.target > q.to
    PROVE  Lawful(r, NextChunk(r, q))
<1> DEFINE e == [r EXCEPT !.phase = "recovering"]
<1>1. r.target \in 0..MaxSlot /\ q.to \in Slots
  BY RouteFields, RequestFields DEF Fit
<1>2. q.to + 1 \in Slots /\ r.target \in Slots /\ q.to + 1 <= r.target
  BY <1>1 DEF Slots
<1>3. Follows(r, e)
  BY PhaseFollows DEF Phases
<1>4. Bounded(q.to + 1, r.target) \in Slots
  BY <1>2, BoundedFacts
<1>5. NextChunk(r, q) = Asking(e, "reconnect", q.to + 1, Bounded(q.to + 1, r.target))
  BY DEF NextChunk
<1> HIDE DEF e
<1>6. QED BY <1>2, <1>3, <1>4, <1>5, AskingLawful DEF Kinds

\* A final answer moves the earliest open slot up only past what it proves.
LEMMA ConcludeMoves ==
    ASSUME IInv, NEW q \in Request, NEW result \in Results(q), Conclude(q, result)
    PROVE  /\ Moves /\ pc' \in {pc, "flush"} /\ proven' \subseteq Slots
           /\ flush' \in [usable : BOOLEAN, upto : 0..MaxSlot]
<1>1. /\ Fit(route) /\ now \in Slots /\ requests \subseteq Request
      /\ shown \subseteq Slots /\ start \in 0..MaxSlot /\ proven \subseteq Slots
      /\ flush \in [usable : BOOLEAN, upto : 0..MaxSlot]
  BY DEF IInv, TypeOK
<1>2. q.from \in Slots /\ q.to \in Slots
  BY RequestFields
<1> DEFINE usable == result.kind = "complete"
           valid  == result.kind \in {"partial", "complete"}
           bars   == IF usable \/ (valid /\ q.kind = "prefill") THEN result.bars ELSE {}
           first  == [route EXCEPT !.inflight = FALSE, !.phase = "flushing"]
           judged == Judged(first, q, usable)
           again  == q.kind = "prefill" /\ valid /\ Recovers(judged) /\ judged.unverified # 0
           r      == Progress(judged, bars)
           s      == [r EXCEPT !.phase = "recovering"]
           more   == usable /\ q.kind = "reconnect" /\ r.target > q.to
           next   == IF again THEN StartReconnect(s)
                     ELSE IF more THEN NextChunk(r, q) ELSE Quiet(r)
           upto   == IF usable /\ q.kind = "reconnect" THEN q.to ELSE 0
<1>3. /\ route' = next.route /\ requests' = (requests \ {q}) \cup next.asks
      /\ Deliver(bars)
      /\ proven' = IF usable /\ q.kind # "prefill" THEN proven \cup (q.from..q.to) ELSE proven
      /\ \/ UNCHANGED <<pc, flush>>
         \/ pc' = "flush" /\ flush' = [usable |-> usable, upto |-> upto]
  BY DEF Conclude
<1>4. first = [route EXCEPT !.phase = "flushing", !.inflight = FALSE]
  BY <1>1 DEF Fit, Route
<1>5. Follows(route, [route EXCEPT !.phase = "flushing", !.inflight = FALSE])
  BY <1>1, PhaseFollows DEF Phases
<1>6. usable \in BOOLEAN /\ upto \in 0..MaxSlot
  BY <1>2 DEF Slots
<1>7. bars \in SUBSET Bar
  BY ResultFacts
<1>8. first.unverified = route.unverified
  BY DEF Fit, Route
<1> HIDE DEF bars, usable, valid, upto, first
<1>9. Follows(route, first)
  BY <1>4, <1>5
<1>10. Fit(first)
  BY <1>9 DEF Follows
<1>11. /\ Fit(judged)
       /\ \/ OpenKept(first, judged)
          \/ usable /\ q.kind # "prefill" /\ first.unverified \in q.from..q.to
  BY <1>6, <1>10, JudgedFacts
<1> HIDE DEF judged
<1>12. Follows(judged, r)
  BY <1>7, <1>11, ProgressFollows
<1> HIDE DEF r
<1>13. Fit(r)
  BY <1>12 DEF Follows
<1>14. Lawful(r, next)
  <2>1. CASE again
    <3>1. Follows(r, s)
      BY <1>13, PhaseFollows DEF Phases
    <3> HIDE DEF s
    <3>2. Fit(s)
      BY <3>1 DEF Follows
    <3>3. Lawful(s, StartReconnect(s))
      BY <1>1, <3>2, StartReconnectLawful
    <3>4. Lawful(r, StartReconnect(s))
      BY <1>13, <3>1, <3>2, <3>3, FollowsTwice DEF Lawful
    <3>5. next = StartReconnect(s)
      BY <2>1
    <3>6. QED BY <3>4, <3>5
  <2>2. CASE ~again /\ more
    <3>1. Lawful(r, NextChunk(r, q))
      BY <1>13, <2>2, NextChunkLawful
    <3>2. next = NextChunk(r, q)
      BY <2>2
    <3>3. QED BY <3>1, <3>2
  <2>3. CASE ~again /\ ~more
    <3>1. Lawful(r, Quiet(r))
      BY <1>13, FollowsSelf, QuietLawful
    <3>2. next = Quiet(r)
      BY <2>3
    <3>3. QED BY <3>1, <3>2
  <2>4. QED BY <2>1, <2>2, <2>3
<1> HIDE DEF next
<1>15. Fit(next.route) /\ OpenKept(r, next.route) /\ next.asks \subseteq Request
  BY <1>14 DEF Lawful, Follows
<1>16. /\ route.unverified \in Nat /\ judged.unverified \in Nat /\ r.unverified \in Nat
       /\ next.route.unverified \in Nat
  BY <1>1, <1>11, <1>13, <1>15, RouteFields DEF Fit
<1>17. OpenKept(route, next.route) \/ route.unverified \in proven'
  <2>1. OpenKept(judged, r)
    BY <1>12 DEF Follows
  <2>2. CASE OpenKept(first, judged)
    BY <1>8, <1>15, <1>16, <2>1, <2>2 DEF OpenKept
  <2>3. CASE usable /\ q.kind # "prefill" /\ first.unverified \in q.from..q.to
    BY <1>3, <1>8, <2>3
  <2>4. QED BY <1>11, <2>2, <2>3
<1>18. shown' \subseteq Slots /\ start' \in 0..MaxSlot
  BY <1>1, <1>3, <1>7, DeliverFacts
<1>19. Moves
  BY <1>1, <1>3, <1>15, <1>17, <1>18 DEF Moves
<1>20. proven' \subseteq Slots
  BY <1>1, <1>2, <1>3 DEF Slots
<1>21. QED BY <1>1, <1>3, <1>6, <1>19, <1>20

\* An answer is dropped, kept for a retry, or final.
LEMMA AnswerMoves ==
    ASSUME IInv, CompleteContinuity
    PROVE  /\ Moves /\ pc' \in {pc, "flush"} /\ proven' \subseteq Slots
           /\ flush' \in [usable : BOOLEAN, upto : 0..MaxSlot]
<1>1. /\ Fit(route) /\ requests \subseteq Request
      /\ shown \subseteq Slots /\ start \in 0..MaxSlot /\ proven \subseteq Slots
      /\ flush \in [usable : BOOLEAN, upto : 0..MaxSlot]
  BY DEF IInv, TypeOK
<1> DEFINE Ends(q, result) ==
             \/ /\ requests' = requests \ {q}
                /\ UNCHANGED <<pc, route, flush, start, shown, received, proven>>
             \/ /\ q.attempt < MaxAttempts
                /\ requests' = requests \ {q}
                /\ route' = Retrying([route EXCEPT !.inflight = FALSE], q)
                /\ UNCHANGED <<pc, flush, start, shown, received, proven>>
             \/ Conclude(q, result)
<1>2. \E q \in requests : \E result \in Results(q) : Ends(q, result)
  BY DEF CompleteContinuity
<1> HIDE DEF Ends
<1>a. PICK q \in requests : \E result \in Results(q) : Ends(q, result)
  BY <1>2
<1>b. PICK result \in Results(q) : Ends(q, result)
  BY <1>a
<1>3. q \in Request
  BY <1>1
<1>4. CASE /\ requests' = requests \ {q}
           /\ UNCHANGED <<pc, route, flush, start, shown, received, proven>>
  <2>1. OpenKept(route, route)
    BY <1>1, FollowsSelf DEF Follows
  <2>2. QED BY <1>1, <1>4, <2>1 DEF Moves
<1>5. CASE /\ q.attempt < MaxAttempts
           /\ requests' = requests \ {q}
           /\ route' = Retrying([route EXCEPT !.inflight = FALSE], q)
           /\ UNCHANGED <<pc, flush, start, shown, received, proven>>
  <2>1. Follows(route, route')
    BY <1>1, <1>3, <1>5, RetryingFollows
  <2>2. QED BY <1>1, <1>5, <2>1 DEF Moves, Follows
<1>6. CASE Conclude(q, result)
  BY <1>3, <1>6, ConcludeMoves
<1>7. QED BY <1>b, <1>4, <1>5, <1>6 DEF Ends

\* Every step moves the route as allowed and keeps the rest typed.
LEMMA NextMoves ==
    ASSUME IInv, Next
    PROVE  IInv' /\ (OpenKept(route, route') \/ route.unverified \in proven')
<1> DEFINE Typed == /\ pc' \in {"idle", "flush"} \/ (pc' = pc /\ route' = route)
                    /\ flush' \in [usable : BOOLEAN, upto : 0..MaxSlot]
                    /\ now' \in Slots /\ now' >= FirstSlot
                    /\ received' \subseteq Slots /\ proven' \subseteq Slots
<1>1. /\ pc \in {"new", "idle", "flush"} /\ Fit(route) /\ requests \subseteq Request
      /\ flush \in [usable : BOOLEAN, upto : 0..MaxSlot] /\ now \in Slots /\ now >= FirstSlot
      /\ received \subseteq Slots /\ proven \subseteq Slots
      /\ shown \subseteq Slots /\ start \in 0..MaxSlot
      /\ pc = "new" => route.generation = 0
  BY DEF IInv, TypeOK
<1>2. ASSUME Moves, Typed
      PROVE  IInv' /\ (OpenKept(route, route') \/ route.unverified \in proven')
  BY <1>1, <1>2 DEF IInv, TypeOK, Moves, Fit
<1>3. CASE Activate
  <2>1. Typed
    BY <1>1, <1>3 DEF Activate
  <2> HIDE DEF Typed
  <2>2. QED BY <1>2, <1>3, <2>1, ActivateMoves
<1>4. CASE LiveBars
  <2>1. Typed
    BY <1>1, <1>4, LiveBarsMoves DEF LiveBars
  <2> HIDE DEF Typed
  <2>2. QED BY <1>2, <1>4, <2>1, LiveBarsMoves
<1>5. CASE TransportLost
  <2>1. Typed
    BY <1>1, <1>5 DEF TransportLost
  <2> HIDE DEF Typed
  <2>2. Fit(Lost(route)) /\ OpenKept(route, Lost(route))
    BY <1>1, <1>5, LostFacts DEF TransportLost
  <2>3. Moves
    BY <1>1, <1>5, <2>2 DEF TransportLost, Moves
  <2>4. QED BY <1>2, <2>1, <2>3
<1>6. CASE TransportReady
  <2>1. Typed
    BY <1>1, <1>6 DEF TransportReady
  <2> HIDE DEF Typed
  <2>2. QED BY <1>2, <1>6, <2>1, ReadyMoves
<1>7. CASE CompleteContinuity
  <2>1. pc = "idle" /\ UNCHANGED <<now, received>>
    BY <1>7 DEF CompleteContinuity, Conclude
  <2>2. Typed
    BY <1>1, <1>7, <2>1, AnswerMoves
  <2> HIDE DEF Typed
  <2>3. QED BY <1>2, <1>7, <2>2, AnswerMoves
<1>8. CASE FlushOne
  <2>1. Typed
    BY <1>1, <1>8 DEF FlushOne
  <2> HIDE DEF Typed
  <2>2. QED BY <1>2, <1>8, <2>1, FlushOneMoves
<1>9. CASE FlushDone
  <2>1. Typed
    BY <1>1, <1>9 DEF FlushDone
  <2> HIDE DEF Typed
  <2>2. QED BY <1>2, <1>9, <2>1, FlushDoneMoves
<1>10. CASE Process
  <2>1. Typed
    BY <1>1, <1>10 DEF Process, ProcessRetry, ProcessRecovery
  <2> HIDE DEF Typed
  <2>2. QED BY <1>2, <1>10, <2>1, ProcessMoves
<1>11. CASE SlotCloses
  <2>1. now' = now + 1 /\ now < MaxSlot
        /\ UNCHANGED <<pc, route, requests, flush, start, shown, received, proven>>
    BY <1>11 DEF SlotCloses
  <2>2. now' \in Slots /\ now' >= FirstSlot
    BY <1>1, <2>1 DEF Slots
  <2>3. Typed
    BY <1>1, <2>1, <2>2
  <2>4. OpenKept(route, route)
    BY <1>1, FollowsSelf DEF Follows
  <2>5. Moves
    BY <1>1, <2>1, <2>4 DEF Moves
  <2>6. QED BY <1>2, <2>3, <2>5
<1>12. QED
  BY <1>3, <1>4, <1>5, <1>6, <1>7, <1>8, <1>9, <1>10, <1>11 DEF Next, Owner
-----------------------------------------------------------------------------
(* The theorems. *)

\* A new route is typed and asks for nothing yet.
LEMMA InitIInv ==
    ASSUME Init
    PROVE  IInv
<1> DEFINE p == IF PrefillBars > 0 THEN "prefilling" ELSE "live"
           b == PrefillBars > 0
           e == [mode |-> Mode, phase |-> p, prefill |-> b, inflight |-> FALSE,
                 buffer |-> <<>>, items |-> 0, observed |-> 0, verified |-> 0,
                 unverified |-> 0, boundary |-> 0, target |-> 0, generation |-> 0,
                 retry |-> NoRequest]
<1>1. route = e
  BY DEF Init
<1>2. p \in Phases /\ b \in BOOLEAN /\ <<>> \in Seq(SUBSET Bar) /\ 0 \in 0..MaxSlot
      /\ 0 \in 0 .. MaxSlot + 1 /\ 0 \in 0..MaxLosses /\ 0 \in Nat
      /\ Mode \in {"live_only", "prefill", "recover"} /\ (b => PrefillBars > 0)
  BY DEF Phases
<1> HIDE DEF p, b
<1>3. e \in Route /\ e.boundary = 0 /\ e.prefill = b /\ e.generation = 0
  BY <1>2 DEF Route
<1> HIDE DEF e
<1>4. Fit(route) /\ route.generation = 0
  BY <1>1, <1>2, <1>3 DEF Fit
<1>5. /\ pc = "new" /\ requests = {} /\ flush = [usable |-> FALSE, upto |-> 0]
      /\ now = FirstSlot /\ start = 0 /\ shown = {} /\ received = {} /\ proven = {}
  BY DEF Init
<1>6. now \in Slots /\ flush \in [usable : BOOLEAN, upto : 0..MaxSlot]
  BY <1>2, <1>5 DEF Slots
<1>7. TypeOK
  BY <1>2, <1>4, <1>5, <1>6 DEF TypeOK, Fit
<1>8. QED BY <1>4, <1>5, <1>7 DEF IInv

\* The strengthening is an invariant of every route.
THEOREM Invariance == Spec => []IInv
<1>1. Init => IInv
  BY InitIInv
<1>2. IInv /\ [Next]_vars => IInv'
  <2>1. CASE Next
    BY <2>1, NextMoves
  <2>2. CASE UNCHANGED vars
    BY <2>2 DEF vars, IInv, TypeOK, Fit
  <2>3. QED BY <2>1, <2>2
<1>3. QED BY <1>1, <1>2, PTL DEF Spec

\* The state of a route has its type: no chunk of a recovery, retry or boundary
\* leaves the slots there are.
THEOREM TypeCorrect == Spec => []TypeOK
<1>1. IInv => TypeOK
  BY DEF IInv
<1>2. QED BY <1>1, Invariance, PTL

\* The earliest open slot of a route moves up only past slots that an accepted
\* answer covers, whatever was lost, late, partial or refused before.
THEOREM OpenSlotsAreProven == Spec => OpenUntilProven
<1> DEFINE Proven == route.unverified # 0
                       /\ (route'.unverified = 0 \/ route'.unverified > route.unverified)
                     => route.unverified \in proven'
<1>1. IInv /\ IInv' /\ [Next]_vars => [Proven]_vars
  <2>1. ASSUME IInv, IInv', Next PROVE Proven
    <3>1. OpenKept(route, route') \/ route.unverified \in proven'
      BY <2>1, NextMoves
    <3>2. route.unverified \in Nat /\ route'.unverified \in Nat
      BY <2>1, RouteFields DEF IInv, Fit
    <3>3. QED BY <3>1, <3>2 DEF OpenKept
  <2>2. QED BY <2>1
<1>2. QED BY <1>1, Invariance, PTL DEF Spec, OpenUntilProven
-----------------------------------------------------------------------------
(* No bar is lost.  What a route shows is complete from the start of its    *)
(* live part up to its watermarks, and what it holds back or waits for lies *)
(* beyond them.                                                             *)

\* Where the live part of a route begins.
From(r, s) == Latest({r.boundary, s})

\* Every bar of a range was shown.
Covered(S, a, b) == \A t \in Trading : a <= t /\ t <= b => t \in S

\* What a route has shown: it is complete up to what was verified, up to what was
\* observed when no slot is open, and up to the earliest open slot.
Kept(r, S, s) ==
    /\ Covered(S, From(r, s), r.verified)
    /\ r.unverified = 0 /\ s # 0 => Covered(S, From(r, s), r.observed)
    /\ r.unverified # 0 => Covered(S, From(r, s), r.unverified - 1)

\* Or it has shown nothing yet, and its earliest open slot is the first held bar.
Fresh(r, s, n) ==
    /\ s = 0 /\ r.verified = 0 /\ ~r.prefill
    /\ r.unverified \in Buffered(r) /\ r.unverified < n
    /\ \A t \in Buffered(r) : r.unverified <= t

\* The last observed slot was shown.
Seen(r, S, s, n) ==
    /\ r.observed <= n
    /\ r.observed # 0 => r.observed \in S
    /\ r.observed = 0 <=> s = 0

\* A batch has the bars of one slot or two neighbours.
Fine(bars, n) ==
    /\ Times(bars) # {} /\ Times(bars) \subseteq Trading
    /\ \A t, u \in Times(bars) : t <= n /\ u <= t + 1

\* What an awaited answer covers.  A prefill ends at the boundary, a recovery starts
\* at the earliest open slot and nothing is missing behind its target, a gap lies
\* behind what was observed.
AskSound(r, S, s, n, q) ==
    /\ q.from <= q.to /\ q.to <= n
    /\ \/ q.kind = "prefill" /\ q.to = r.boundary /\ r.prefill
       \/ /\ q.kind = "reconnect" /\ Recovers(r) /\ ~r.prefill
          /\ r.unverified = q.from /\ q.to <= r.target /\ r.target <= n
          /\ \A t \in Trading : From(r, s) <= t /\ r.target < t /\ t <= r.observed => t \in S
       \/ /\ q.kind = "gap" /\ Recovers(r) /\ ~r.prefill
          /\ r.unverified # 0 /\ r.unverified <= q.from
          /\ s # 0 /\ r.observed < q.from

\* The batches of a buffer.
Elems(buffer) == {buffer[i] : i \in DOMAIN buffer}

Batches(r, n) == \A x \in Elems(r.buffer) : Fine(x, n)

\* Where a route waits for an answer or a retry.
Staged(r, n) ==
    /\ r.boundary <= n
    /\ ~Buffers(r) => ~r.inflight /\ r.retry = NoRequest /\ r.buffer = <<>>
    /\ ~Enabled(r) => ~r.inflight /\ r.retry = NoRequest
    /\ r.retry # NoRequest => /\ ~r.inflight
                              /\ r.retry.generation = r.generation
                              /\ r.phase \in {"prefilling", "recovering"}
    /\ r.prefill => r.phase \in {"prefilling", "waiting"}

\* One answer at most is awaited ...
Sole(r, A) ==
    /\ \A q \in A : q.generation <= r.generation
    /\ Enabled(r) => \A q \in A : q.generation = r.generation =>
          r.inflight /\ \A p \in A : p.generation = r.generation => p = q

\* ... and covers what it should.
Asked(r, A, S, s, n) ==
    /\ \A q \in A : StillAwaits(r, q) => AskSound(r, S, s, n, q)
    /\ r.retry # NoRequest => AskSound(r, S, s, n, r.retry)

\* The watermarks of a route that recovers.
Marks(r, S, s, n) ==
    Recovers(r) =>
        /\ Seen(r, S, s, n)
        /\ Kept(r, S, s) \/ Fresh(r, s, n)
        /\ r.phase = "live" => r.unverified = 0
        /\ ~r.prefill /\ r.unverified = 0 /\ r.phase \in {"waiting", "recovering"}
              => r.observed = 0 /\ r.verified = 0

\* A route with the requests A that has shown S from s on, in slot n.
Steady(r, A, S, s, n) ==
    Batches(r, n) /\ Staged(r, n) /\ Sole(r, A) /\ Asked(r, A, S, s, n) /\ Marks(r, S, s, n)

\* A route whose buffer is released as f says, and what the release drops was shown.
Releases(r, f, S, s) ==
    /\ ~r.inflight /\ r.retry = NoRequest /\ ~r.prefill
    /\ Recovers(r) => /\ r.phase = "flushing"
                      /\ r.unverified = 0 => f.usable
                      /\ f.upto # 0 => Kept(r, S, s)
    /\ \A t \in Buffered(r) : From(r, s) <= t /\ t <= f.upto => t \in S

\* Every bar that came is shown or held.
Whole(r, C, S, s) == \A t \in C : From(r, s) <= t => t \in S \cup Buffered(r)

Sound ==
    /\ Steady(route, requests, shown, start, now)
    /\ pc = "new" => route.retry = NoRequest /\ Enabled(route)
    /\ pc = "flush" => Releases(route, flush, shown, start)
    /\ Whole(route, received, shown, start)

\* What a handler may leave alone.
SameBase(r, t) ==
    /\ t.mode = r.mode /\ t.prefill = r.prefill /\ t.boundary = r.boundary
    /\ t.generation = r.generation /\ t.target = r.target
SameStage(r, t) == t.phase = r.phase /\ t.inflight = r.inflight /\ t.retry = r.retry
SameMarks(r, t) ==
    t.observed = r.observed /\ t.verified = r.verified /\ t.unverified = r.unverified

\* The live part begins at the boundary or at the first bar.
LEMMA FromFacts ==
    ASSUME NEW r \in Route, NEW s \in 0..MaxSlot
    PROVE  /\ From(r, s) \in 0..MaxSlot /\ From(r, s) \in {r.boundary, s}
           /\ r.boundary <= From(r, s) /\ s <= From(r, s)
<1>1. r.boundary \in 0..MaxSlot
  BY RouteFields
<1>2. {r.boundary, s} \in SUBSET (0..MaxSlot) /\ {r.boundary, s} # {}
  BY <1>1
<1>3. QED BY <1>1, <1>2, LatestFacts DEF From

\* The first slot delivered.
Begin(s, bars) == IF s = 0 /\ bars # {} THEN Earliest(Times(bars)) ELSE s

\* The first slot delivered is the earliest of its batch, and stays.
LEMMA BeginFacts ==
    ASSUME NEW s \in 0..MaxSlot, NEW bars \in SUBSET Bar
    PROVE  /\ Begin(s, bars) \in 0..MaxSlot
           /\ s # 0 \/ bars = {} => Begin(s, bars) = s
           /\ s = 0 /\ bars # {} => /\ Begin(s, bars) \in Times(bars) /\ Begin(s, bars) # 0
                                    /\ \A t \in Times(bars) : Begin(s, bars) <= t
<1>1. Times(bars) \subseteq 1..MaxSlot /\ (bars # {} => Times(bars) # {})
  BY BatchFacts DEF Slots
<1>2. Times(bars) \subseteq 0..MaxSlot
  BY <1>1
<1>3. bars # {} => /\ Earliest(Times(bars)) \in Times(bars)
                   /\ \A t \in Times(bars) : Earliest(Times(bars)) <= t
  BY <1>1, <1>2, EarliestFacts
<1>4. QED BY <1>1, <1>3 DEF Begin

\* What a delivery shows.
LEMMA Delivered ==
    ASSUME NEW bars, Deliver(bars)
    PROVE  shown' = shown \cup Times(bars) /\ start' = Begin(start, bars)
BY DEF Deliver, Begin

\* The live part never begins earlier than it did.
LEMMA FromGrows ==
    ASSUME NEW r \in Route, NEW t \in Route, NEW s \in 0..MaxSlot, NEW u \in 0..MaxSlot,
           r.boundary <= t.boundary, s = 0 \/ s = u
    PROVE  From(r, s) <= From(t, u)
<1>1. r.boundary \in Nat /\ t.boundary \in Nat
  BY RouteFields
<1>2. QED BY <1>1, FromFacts

\* A record update keeps what is shown if it keeps the marks.
LEMMA KeptSame ==
    ASSUME NEW r, NEW t, SameMarks(r, t), t.boundary = r.boundary, NEW S, NEW s,
           Kept(r, S, s)
    PROVE  Kept(t, S, s)
BY DEF Kept, From, SameMarks

\* So does the last observed slot.
LEMMA SeenSame ==
    ASSUME NEW r, NEW t, t.observed = r.observed, NEW S, NEW s, NEW n, Seen(r, S, s, n)
    PROVE  Seen(t, S, s, n)
BY DEF Seen

\* More shown, and a later start.
LEMMA CoveredGrows ==
    ASSUME NEW S, NEW T, S \subseteq T, NEW a \in Nat, NEW b \in Nat, a <= b,
           NEW c \in Int, NEW d \in Int, d <= c, Covered(S, a, c)
    PROVE  Covered(T, b, d)
BY DEF Covered, Slots

-----------------------------------------------------------------------------
(* What the handlers do to the fields. *)

\* Delivered bars move the watermarks, and nothing else.
LEMMA ProgressMarks ==
    ASSUME NEW r, Fit(r), NEW bars \in SUBSET Bar
    PROVE  LET t == Progress(r, bars)
           IN  /\ t \in Route /\ SameBase(r, t) /\ SameStage(r, t) /\ t.buffer = r.buffer
               /\ t.unverified = r.unverified
               /\ t.observed \in {r.observed} \cup Times(bars) /\ r.observed <= t.observed
               /\ \A u \in Times(bars) : u <= t.observed
               /\ \/ t.verified = r.verified
                  \/ /\ t.verified \in Times(bars)
                     /\ r.unverified = 0 \/ t.verified < r.unverified
               /\ r.verified <= t.verified
<1> DEFINE trusted == {b \in bars : b.final /\ (r.unverified = 0 \/ b.time < r.unverified)}
           O == {r.observed} \cup Times(bars)
           V == {r.verified} \cup Times(trusted)
           o == Latest(O)
           v == Latest(V)
           t == Progress(r, bars)
<1>1. r.observed \in 0..MaxSlot /\ r.verified \in 0..MaxSlot
  BY RouteFields DEF Fit
<1>2. trusted \in SUBSET Bar
  OBVIOUS
<1>3. \A u \in Times(trusted) : u \in Times(bars) /\ (r.unverified = 0 \/ u < r.unverified)
  BY DEF Times
<1> HIDE DEF trusted
<1>4. O \in SUBSET (0..MaxSlot) /\ V \in SUBSET (0..MaxSlot)
  <2>1. Times(bars) \subseteq 0..MaxSlot /\ Times(trusted) \subseteq 0..MaxSlot
    BY <1>2, BatchFacts DEF Slots
  <2>2. QED BY <1>1, <2>1
<1>5. o \in O /\ \A u \in O : u <= o
  BY <1>4, LatestFacts
<1>6. v \in V /\ \A u \in V : u <= v
  BY <1>4, LatestFacts
<1>7. t = [r EXCEPT !.observed = o, !.verified = v]
  BY DEF Progress, trusted
<1> HIDE DEF o, v
<1> DEFINE e == [r EXCEPT !.observed = o, !.verified = v]
<1>8. /\ e.mode = r.mode /\ e.prefill = r.prefill /\ e.boundary = r.boundary
      /\ e.generation = r.generation /\ e.target = r.target /\ e.buffer = r.buffer
      /\ e.phase = r.phase /\ e.inflight = r.inflight /\ e.retry = r.retry
      /\ e.unverified = r.unverified /\ e.observed = o /\ e.verified = v
  BY DEF Fit, Route
<1>9. t \in Route
  BY ProgressFollows DEF Follows, Fit
<1> HIDE DEF e, t, O, V
<1>10. t = e
  BY <1>7 DEF e
<1>11. /\ r.observed \in O /\ r.verified \in V /\ Times(bars) \subseteq O
       /\ O \subseteq {r.observed} \cup Times(bars)
       /\ V \subseteq {r.verified} \cup Times(trusted)
  BY DEF O, V
<1>12. /\ SameBase(r, t) /\ SameStage(r, t) /\ t.buffer = r.buffer
       /\ t.unverified = r.unverified /\ t.observed = o /\ t.verified = v
  BY <1>8, <1>10 DEF SameBase, SameStage
<1>13. /\ o \in {r.observed} \cup Times(bars) /\ r.observed <= o
       /\ \A u \in Times(bars) : u <= o
       /\ r.verified <= v
  BY <1>5, <1>6, <1>11
<1>14. v = r.verified \/ (v \in Times(bars) /\ (r.unverified = 0 \/ v < r.unverified))
  BY <1>3, <1>6, <1>11
<1>15. QED BY <1>9, <1>12, <1>13, <1>14 DEF t

\* An open slot moves only the earliest open slot.
LEMMA MarkMarks ==
    ASSUME NEW r, Fit(r), NEW from \in 0 .. MaxSlot + 1
    PROVE  LET t == MarkUnverified(r, from)
           IN  /\ t \in Route /\ SameBase(r, t) /\ SameStage(r, t) /\ t.buffer = r.buffer
               /\ t.observed = r.observed /\ t.verified = r.verified
               /\ t.unverified = IF from # 0 /\ (r.unverified = 0 \/ from < r.unverified)
                                 THEN from ELSE r.unverified
<1> DEFINE e == [r EXCEPT !.unverified = from]
           t == MarkUnverified(r, from)
<1>1. /\ e.mode = r.mode /\ e.prefill = r.prefill /\ e.boundary = r.boundary
      /\ e.generation = r.generation /\ e.target = r.target /\ e.buffer = r.buffer
      /\ e.phase = r.phase /\ e.inflight = r.inflight /\ e.retry = r.retry
      /\ e.unverified = from /\ e.observed = r.observed /\ e.verified = r.verified
  BY DEF Fit, Route
<1>2. t \in Route
  BY MarkFollows DEF Follows, Fit
<1>3. t = IF from # 0 /\ (r.unverified = 0 \/ from < r.unverified) THEN e ELSE r
  BY DEF MarkUnverified
<1> HIDE DEF e, t
<1>4. QED BY <1>1, <1>2, <1>3 DEF SameBase, SameStage, t

\* The batches of a longer and of a shorter buffer.
LEMMA ElemsFacts ==
    ASSUME NEW b \in Seq(SUBSET Bar), NEW x \in SUBSET Bar
    PROVE  /\ Elems(Append(b, x)) = Elems(b) \cup {x}
           /\ Elems(<<x>> \o b) = Elems(b) \cup {x}
           /\ b # <<>> => Elems(b) = Elems(Tail(b)) \cup {Head(b)}
           /\ Elems(<<>>) = {}
<1> DEFINE S == SUBSET Bar
<1>1. b \in Seq(S) /\ x \in S
  OBVIOUS
<1> HIDE DEF S
<1>2. Len(b) \in Nat /\ DOMAIN b = 1..Len(b)
  BY <1>1
<1>3. Elems(Append(b, x)) = Elems(b) \cup {x}
  <2> DEFINE c == Append(b, x)
  <2>1. /\ DOMAIN c = 1..Len(b) + 1 /\ c[Len(b) + 1] = x
        /\ \A i \in DOMAIN b : c[i] = b[i]
    BY <1>1, AppendProperties
  <2> HIDE DEF c
  <2>2. Elems(c) = Elems(b) \cup {x}
    BY <1>2, <2>1 DEF Elems
  <2>3. QED BY <2>2 DEF c
<1>4. Elems(<<x>> \o b) = Elems(b) \cup {x}
  <2> DEFINE c == <<x>> \o b
  <2>1. /\ DOMAIN c = 1..Len(b) + 1 /\ c[1] = x
        /\ \A i \in DOMAIN b : c[i + 1] = b[i]
    BY <1>1, <1>2
  <2> HIDE DEF c
  <2>2. \A i \in DOMAIN c : i = 1 \/ (i - 1 \in DOMAIN b /\ c[i] = b[i - 1])
    <3> TAKE i \in DOMAIN c
    <3>1. i = 1 \/ (i - 1 \in DOMAIN b /\ (i - 1) + 1 = i)
      BY <1>2, <2>1
    <3>2. QED BY <2>1, <3>1
  <2>3. \A i \in DOMAIN b : i + 1 \in DOMAIN c
    BY <1>2, <2>1
  <2>4. 1 \in DOMAIN c
    BY <1>2, <2>1
  <2>5. Elems(c) \subseteq Elems(b) \cup {x}
    BY <2>1, <2>2 DEF Elems
  <2>6. Elems(b) \cup {x} \subseteq Elems(c)
    <3>1. \A i \in DOMAIN b : b[i] \in Elems(c)
      BY <2>1, <2>3 DEF Elems
    <3>2. x \in Elems(c)
      BY <2>1, <2>4 DEF Elems
    <3>3. QED BY <3>1, <3>2 DEF Elems
  <2>7. QED BY <2>5, <2>6 DEF c
<1>5. b # <<>> => Elems(b) = Elems(Tail(b)) \cup {Head(b)}
  <2> SUFFICES ASSUME b # <<>> PROVE Elems(b) = Elems(Tail(b)) \cup {Head(b)}
    OBVIOUS
  <2> DEFINE c == Tail(b)
             h == Head(b)
  <2>1. /\ DOMAIN c = 1..Len(b) - 1 /\ h = b[1] /\ 1 \in DOMAIN b
        /\ \A i \in DOMAIN c : c[i] = b[i + 1]
    BY <1>1, <1>2
  <2> HIDE DEF c, h
  <2>2. \A i \in DOMAIN b : i = 1 \/ (i - 1 \in DOMAIN c /\ b[i] = c[i - 1])
    <3> TAKE i \in DOMAIN b
    <3>1. i = 1 \/ (i - 1 \in DOMAIN c /\ (i - 1) + 1 = i)
      BY <1>2, <2>1
    <3>2. QED BY <2>1, <3>1
  <2>3. \A i \in DOMAIN c : i + 1 \in DOMAIN b
    BY <1>2, <2>1
  <2>4. Elems(b) \subseteq Elems(c) \cup {h}
    BY <2>1, <2>2 DEF Elems
  <2>5. Elems(c) \cup {h} \subseteq Elems(b)
    BY <2>1, <2>3 DEF Elems
  <2>6. QED BY <2>4, <2>5 DEF c, h
<1>6. Elems(<<>>) = {}
  BY DEF Elems
<1>7. QED BY <1>3, <1>4, <1>5, <1>6

\* The held slots are those of the batches.
LEMMA BufferedElems ==
    ASSUME NEW r
    PROVE  Buffered(r) = UNION {Times(x) : x \in Elems(r.buffer)}
BY DEF Buffered, Elems

\* A held batch changes only the buffer.
LEMMA HeldMarks ==
    ASSUME NEW r, Fit(r), NEW batch \in SUBSET Bar, NEW first \in BOOLEAN
    PROVE  LET t == IF first THEN HeldFirst(r, batch) ELSE Held(r, batch)
           IN  /\ Fit(t) /\ SameBase(r, t) /\ SameStage(r, t) /\ SameMarks(r, t)
               /\ Elems(t.buffer) = Elems(r.buffer) \cup {batch}
<1> DEFINE t == IF first THEN HeldFirst(r, batch) ELSE Held(r, batch)
           b == IF first THEN <<batch>> \o r.buffer ELSE Append(r.buffer, batch)
           n == r.items + Cardinality(batch)
           e == [r EXCEPT !.buffer = b, !.items = n]
<1>1. t = e
  BY DEF Held, HeldFirst
<1>2. /\ e.mode = r.mode /\ e.prefill = r.prefill /\ e.boundary = r.boundary
      /\ e.generation = r.generation /\ e.target = r.target /\ e.buffer = b
      /\ e.phase = r.phase /\ e.inflight = r.inflight /\ e.retry = r.retry
      /\ e.unverified = r.unverified /\ e.observed = r.observed /\ e.verified = r.verified
  BY DEF Fit, Route
<1>3. Fit(t)
  BY HeldFollows DEF Follows
<1>4. Elems(b) = Elems(r.buffer) \cup {batch}
  <2>1. r.buffer \in Seq(SUBSET Bar)
    BY RouteFields DEF Fit
  <2>2. QED BY <2>1, ElemsFacts
<1> HIDE DEF t, e, b
<1>5. QED BY <1>1, <1>2, <1>3, <1>4 DEF SameBase, SameStage, SameMarks, t

\* An overflow releases everything and ends the continuity of the route.
Released(r, h, batch) ==
    /\ h.route.mode = "live_only" /\ ~h.route.inflight /\ ~h.route.prefill
    /\ h.route.retry = NoRequest /\ h.route.buffer = <<>>
    /\ h.route.generation = r.generation /\ h.route.boundary = r.boundary
    /\ h.asks = {}
    /\ h.out \in SUBSET Bar
    /\ Buffered(r) \cup Times(batch) \subseteq Times(h.out)

\* An overflow releases what it should.
LEMMA OverflowMarks ==
    ASSUME NEW r, Fit(r), NEW batch \in SUBSET Bar
    PROVE  Released(r, Overflowed(r, batch), batch)
<1> DEFINE all == (UNION {r.buffer[i] : i \in DOMAIN r.buffer}) \cup batch
           q   == Progress(r, all)
           e   == [q EXCEPT !.buffer = <<>>, !.items = 0, !.phase = "degraded",
                            !.prefill = FALSE, !.inflight = FALSE, !.target = 0,
                            !.retry = NoRequest, !.mode = "live_only"]
<1>1. all \in SUBSET Bar
  BY BufferedFacts DEF Fit
<1>2. Buffered(r) \cup Times(batch) \subseteq Times(all)
  <2>1. \A i \in DOMAIN r.buffer : r.buffer[i] \subseteq all
    OBVIOUS
  <2>2. batch \subseteq all
    OBVIOUS
  <2> HIDE DEF all
  <2>3. QED BY <2>1, <2>2 DEF Buffered, Times
<1> HIDE DEF all
<1>3. q \in Route /\ SameBase(r, q)
  BY <1>1, ProgressMarks
<1> HIDE DEF q
<1>4. /\ e.mode = "live_only" /\ ~e.inflight /\ ~e.prefill /\ e.retry = NoRequest
      /\ e.buffer = <<>> /\ e.generation = q.generation /\ e.boundary = q.boundary
  BY <1>3 DEF Route
<1>5. Overflowed(r, batch) = [route |-> e, asks |-> {}, out |-> all]
  BY DEF Overflowed, q, all
<1> HIDE DEF e
<1>6. QED BY <1>1, <1>2, <1>3, <1>4, <1>5 DEF Released, SameBase

\* A batch with a gap before it has no bar before the gap.
LEMMA FineGap ==
    ASSUME NEW r, Fit(r), NEW batch \in SUBSET Bar, NEW n \in Nat, Fine(batch, n),
           Gaps(r, batch) # {}
    PROVE  LET gap == Earliest(Gaps(r, batch)) IN
           /\ Before(r, batch, gap) = r.observed /\ r.observed # 0
           /\ {b \in batch : b.time < gap} = {}
           /\ gap \in Slots /\ r.observed + 1 < gap /\ gap <= n
<1> DEFINE gap == Earliest(Gaps(r, batch))
           B   == Before(r, batch, gap)
           S   == {r.observed} \cup {u \in Times(batch) : u < gap}
<1>1. r.observed \in 0..MaxSlot /\ Times(batch) \subseteq Slots
  BY RouteFields, BatchFacts DEF Fit
<1>2. Gaps(r, batch) \in SUBSET (0..MaxSlot)
  BY <1>1 DEF Gaps, Slots
<1>3. gap \in Gaps(r, batch)
  BY <1>2, EarliestFacts
<1>4. gap \in Times(batch) /\ gap > B + 1 /\ r.observed # 0
  BY <1>3 DEF Gaps
<1> HIDE DEF gap
<1>5. S \in SUBSET (0..MaxSlot) /\ S # {}
  BY <1>1, <1>4 DEF Slots
<1>6. Latest(S) \in S /\ \A u \in S : u <= Latest(S)
  BY <1>5, LatestFacts
<1>7. B = Latest(S)
  BY DEF Before
<1> HIDE DEF B
<1>8. \A u \in Times(batch) : ~(u < gap)
  <2> SUFFICES ASSUME NEW u \in Times(batch), u < gap PROVE FALSE
    OBVIOUS
  <2>1. u \in S /\ gap <= u + 1 /\ u \in Nat /\ gap \in Nat
    BY <1>1, <1>4 DEF Fine, Slots
  <2>2. u <= B /\ B \in Nat
    BY <1>5, <1>6, <1>7, <2>1
  <2>3. QED BY <1>4, <2>1, <2>2
<1>9. S = {r.observed}
  BY <1>8
<1>10. B = r.observed
  BY <1>6, <1>7, <1>9
<1>11. {b \in batch : b.time < gap} = {}
  BY <1>8 DEF Times
<1>12. gap \in Slots /\ gap <= n
  BY <1>1, <1>4 DEF Fine
<1>13. QED BY <1>4, <1>10, <1>11, <1>12 DEF gap, B

\* A batch is held back.
Waits(r, h, batch) ==
    /\ SameBase(r, h.route) /\ SameStage(r, h.route) /\ SameMarks(r, h.route)
    /\ Elems(h.route.buffer) = Elems(r.buffer) \cup {batch}
    /\ h.asks = {} /\ h.out = {}

\* The gap in front of it is asked for.
GapAsked(r, h, batch, n) ==
    /\ SameBase(r, h.route)
    /\ h.route.phase = "recovering" /\ h.route.inflight /\ h.route.retry = r.retry
    /\ r.observed # 0 /\ h.route.observed = r.observed /\ h.route.verified = r.verified
    /\ h.route.unverified = IF r.unverified = 0 \/ r.observed + 1 < r.unverified
                            THEN r.observed + 1 ELSE r.unverified
    /\ Elems(h.route.buffer) = Elems(r.buffer) \cup {batch}
    /\ h.out = {}
    /\ \E q \in Request : /\ h.asks = {q} /\ q.kind = "gap" /\ q.from = r.observed + 1
                          /\ q.from <= q.to /\ q.to <= n /\ q.generation = r.generation

\* It is handed to the subscriber.
Shows(r, h, batch) == h.route = Progress(r, batch) /\ h.asks = {} /\ h.out = batch

\* One request is sent.
Sends(asks, k, from, to, g) ==
    \E q \in Request : /\ asks = {q} /\ q.kind = k /\ q.from = from /\ q.to = to
                       /\ q.generation = g

\* A request that is sent changes only whether one is awaited.
LEMMA AskingMarks ==
    ASSUME NEW r \in Route, NEW k \in Kinds, NEW from \in Slots, NEW to \in Slots
    PROVE  LET a == Asking(r, k, from, to)
           IN  /\ SameBase(r, a.route) /\ SameMarks(r, a.route) /\ a.route.buffer = r.buffer
               /\ a.route.phase = r.phase /\ a.route.retry = r.retry /\ a.route.inflight
               /\ Sends(a.asks, k, from, to, r.generation)
<1> DEFINE a == Asking(r, k, from, to)
           e == [r EXCEPT !.inflight = TRUE]
           q == [kind |-> k, from |-> from, to |-> to, attempt |-> 1,
                 generation |-> r.generation]
<1>1. a.route = e /\ a.asks = {q}
  BY DEF Asking
<1>2. /\ e.mode = r.mode /\ e.prefill = r.prefill /\ e.boundary = r.boundary
      /\ e.generation = r.generation /\ e.target = r.target /\ e.buffer = r.buffer
      /\ e.phase = r.phase /\ e.inflight /\ e.retry = r.retry
      /\ e.unverified = r.unverified /\ e.observed = r.observed /\ e.verified = r.verified
  BY DEF Route
<1>3. q \in Request
  <2>1. r.generation \in 0..MaxLosses /\ 1 \in 1..MaxAttempts
    BY RouteFields
  <2>2. QED BY <2>1 DEF Request
<1>4. q.kind = k /\ q.from = from /\ q.to = to /\ q.generation = r.generation
  OBVIOUS
<1> HIDE DEF e, q, a
<1>5. QED BY <1>1, <1>2, <1>3, <1>4 DEF SameBase, SameMarks, Sends, a

\* What route_bar_to_entry does with a batch of one slot or two neighbours.
LEMMA RouteBarsCases ==
    ASSUME NEW r, Fit(r), NEW batch \in SUBSET Bar, NEW n \in Nat, Fine(batch, n),
           NEW flushing \in BOOLEAN, NEW mayRecover \in BOOLEAN
    PROVE  LET h == RouteBars(r, batch, flushing, mayRecover)
           IN  \/ ~flushing /\ Enabled(r) /\ Buffers(r) /\ Waits(r, h, batch)
               \/ Released(r, h, batch)
               \/ /\ ~(Enabled(r) /\ ~flushing /\ Buffers(r))
                  /\ Recovers(r) /\ ~r.inflight /\ GapAsked(r, h, batch, n)
               \/ /\ ~(Enabled(r) /\ ~flushing /\ Buffers(r)) /\ Shows(r, h, batch)
                  /\ mayRecover /\ Recovers(r) /\ ~r.inflight => Gaps(r, batch) = {}
<1> DEFINE h == RouteBars(r, batch, flushing, mayRecover)
<1>0. batch # {}
  BY DEF Fine, Times
<1>1. CASE Enabled(r) /\ ~flushing /\ Buffers(r) /\ Overflows(r, batch)
  <2>1. h = Overflowed(r, batch)
    BY <1>0, <1>1 DEF RouteBars
  <2> HIDE DEF h
  <2>2. Released(r, h, batch)
    BY <2>1, OverflowMarks
  <2>3. QED BY <2>2 DEF h
<1>2. CASE Enabled(r) /\ ~flushing /\ Buffers(r) /\ ~Overflows(r, batch)
  <2>1. h = [route |-> Held(r, batch), asks |-> {}, out |-> {}]
    BY <1>0, <1>2 DEF RouteBars
  <2>2. /\ SameBase(r, Held(r, batch)) /\ SameStage(r, Held(r, batch))
        /\ SameMarks(r, Held(r, batch))
        /\ Elems(Held(r, batch).buffer) = Elems(r.buffer) \cup {batch}
    <3> DEFINE t == IF FALSE THEN HeldFirst(r, batch) ELSE Held(r, batch)
    <3>1. /\ SameBase(r, t) /\ SameStage(r, t) /\ SameMarks(r, t)
          /\ Elems(t.buffer) = Elems(r.buffer) \cup {batch}
      BY HeldMarks
    <3>2. t = Held(r, batch)
      OBVIOUS
    <3> HIDE DEF t
    <3>3. QED BY <3>1, <3>2
  <2> HIDE DEF h
  <2>3. Waits(r, h, batch)
    BY <2>1, <2>2 DEF Waits
  <2>4. QED BY <1>2, <2>3 DEF h
<1>3. CASE /\ ~(Enabled(r) /\ ~flushing /\ Buffers(r))
           /\ mayRecover /\ Recovers(r) /\ ~r.inflight /\ Gaps(r, batch) # {}
  <2> DEFINE gap    == Earliest(Gaps(r, batch))
             from   == Before(r, batch, gap) + 1
             prefix == {b \in batch : b.time < gap}
             rest   == batch \ prefix
             before == Progress(r, prefix)
             held   == IF flushing THEN HeldFirst(before, rest) ELSE Held(before, rest)
             m      == MarkUnverified(held, from)
             e      == [m EXCEPT !.phase = "recovering"]
             to     == Bounded(from, gap - 1)
             asking == Asking(e, "gap", from, to)
             over   == Overflowed(before, rest)
  <2>1. h = IF Overflows(before, rest)
            THEN [over EXCEPT !.out = @ \cup prefix]
            ELSE [route |-> asking.route, asks |-> asking.asks, out |-> prefix]
    BY <1>0, <1>3 DEF RouteBars
  <2>2. /\ from = r.observed + 1 /\ r.observed # 0 /\ prefix = {}
        /\ gap \in Slots /\ r.observed + 1 < gap /\ gap <= n
    BY <1>3, FineGap
  <2>3. rest = batch
    BY <2>2
  <2>4. from \in Slots /\ gap - 1 \in Slots /\ from <= gap - 1
    BY <1>3, GapFacts
  <2> HIDE DEF gap, from, prefix, rest
  <2>5. Fit(before) /\ SameBase(r, before) /\ SameStage(r, before) /\ SameMarks(r, before)
        /\ before.buffer = r.buffer
    <3>1. {} \in SUBSET Bar /\ Times({}) = {}
      BY DEF Times
    <3>2. Follows(r, Progress(r, {}))
      BY <3>1, ProgressFollows
    <3>3. LET t == Progress(r, {}) IN
          /\ SameBase(r, t) /\ SameStage(r, t) /\ t.buffer = r.buffer
          /\ t.unverified = r.unverified /\ t.observed = r.observed /\ t.verified = r.verified
      BY <3>1, ProgressMarks
    <3>4. QED BY <2>2, <3>2, <3>3 DEF Follows, SameMarks
  <2> HIDE DEF before
  <2>6. Fit(held) /\ SameBase(before, held) /\ SameStage(before, held)
        /\ SameMarks(before, held) /\ Elems(held.buffer) = Elems(r.buffer) \cup {batch}
    BY <2>3, <2>5, HeldMarks
  <2> HIDE DEF held
  <2>7. from \in 0 .. MaxSlot + 1 /\ from # 0
    BY <2>4 DEF Slots
  <2>8. /\ m \in Route /\ SameBase(held, m) /\ SameStage(held, m) /\ m.buffer = held.buffer
        /\ m.observed = held.observed /\ m.verified = held.verified
        /\ m.unverified = IF held.unverified = 0 \/ from < held.unverified
                          THEN from ELSE held.unverified
    BY <2>6, <2>7, MarkMarks
  <2> HIDE DEF m
  <2>9. /\ e \in Route /\ SameBase(m, e) /\ SameMarks(m, e) /\ e.buffer = m.buffer
        /\ e.inflight = m.inflight /\ e.retry = m.retry /\ e.phase = "recovering"
    <3>1. e \in Route
      BY <2>8 DEF Route, Phases
    <3>2. QED BY <2>8, <3>1 DEF Route, SameBase, SameMarks
  <2> HIDE DEF e
  <2>10. to \in Slots /\ from <= to /\ to <= gap - 1
    BY <2>4, BoundedFacts
  <2> HIDE DEF to
  <2>11. /\ SameBase(e, asking.route) /\ SameMarks(e, asking.route)
         /\ asking.route.buffer = e.buffer
         /\ asking.route.phase = e.phase /\ asking.route.retry = e.retry
         /\ asking.route.inflight
         /\ Sends(asking.asks, "gap", from, to, e.generation)
    <3>1. e \in Route /\ "gap" \in Kinds /\ from \in Slots /\ to \in Slots
      BY <2>4, <2>9, <2>10 DEF Kinds
    <3>2. QED BY ONLY <3>1, AskingMarks
  <2>12. Released(before, over, batch)
    BY <2>3, <2>5, OverflowMarks
  <2>13. over = [route |-> over.route, asks |-> over.asks, out |-> over.out]
    BY DEF Overflowed
  <2> HIDE DEF asking, over, h
  <2>14. CASE Overflows(before, rest)
    <3>1. h.route = over.route /\ h.asks = over.asks /\ h.out = over.out
      BY <2>1, <2>2, <2>13, <2>14
    <3>2. Buffered(before) = Buffered(r)
      BY <2>5 DEF Buffered
    <3>3. Released(r, h, batch)
      BY <2>5, <2>12, <3>1, <3>2 DEF Released, SameBase
    <3>4. QED BY <3>3 DEF h
  <2>15. CASE ~Overflows(before, rest)
    <3>1. h.route = asking.route /\ h.asks = asking.asks /\ h.out = {}
      BY <2>1, <2>2, <2>15
    <3>2. SameBase(r, h.route)
      BY <2>5, <2>6, <2>8, <2>9, <2>11, <3>1 DEF SameBase
    <3>3. h.route.phase = "recovering" /\ h.route.inflight /\ h.route.retry = r.retry
      BY <2>5, <2>6, <2>8, <2>9, <2>11, <3>1 DEF SameStage
    <3>4. /\ h.route.observed = r.observed /\ h.route.verified = r.verified
          /\ h.route.unverified = m.unverified /\ held.unverified = r.unverified
      BY <2>5, <2>6, <2>8, <2>9, <2>11, <3>1 DEF SameMarks
    <3>5. h.route.buffer = held.buffer
      BY <2>8, <2>9, <2>11, <3>1
    <3>6. \E q \in Request : /\ h.asks = {q} /\ q.kind = "gap" /\ q.from = r.observed + 1
                             /\ q.from <= q.to /\ q.to <= n /\ q.generation = r.generation
      <4>1. PICK q \in Request : /\ asking.asks = {q} /\ q.kind = "gap" /\ q.from = from
                                 /\ q.to = to /\ q.generation = e.generation
        BY <2>11 DEF Sends
      <4>2. to <= n
        BY <2>2, <2>10 DEF Slots
      <4>3. e.generation = r.generation
        BY <2>5, <2>6, <2>8, <2>9 DEF SameBase
      <4>4. QED BY <2>2, <2>10, <3>1, <4>1, <4>2, <4>3
    <3>7. GapAsked(r, h, batch, n)
      BY <2>2, <2>6, <2>8, <3>1, <3>2, <3>3, <3>4, <3>5, <3>6 DEF GapAsked
    <3>8. QED BY <1>3, <3>7 DEF h
  <2>16. QED BY <2>14, <2>15
<1>4. CASE /\ ~(Enabled(r) /\ ~flushing /\ Buffers(r))
           /\ ~(mayRecover /\ Recovers(r) /\ ~r.inflight /\ Gaps(r, batch) # {})
  <2>1. h = [route |-> Progress(r, batch), asks |-> {}, out |-> batch]
    BY <1>0, <1>4 DEF RouteBars
  <2> HIDE DEF h
  <2>2. Shows(r, h, batch)
    BY <2>1 DEF Shows
  <2>3. QED BY <1>4, <2>2 DEF h
<1>5. QED BY <1>1, <1>2, <1>3, <1>4
-----------------------------------------------------------------------------
(* What a delivery does to what is shown. *)

\* No bars, no slots.
LEMMA NoTimes == Times({}) = {}
BY DEF Times

\* The last of the bars delivered is seen.
LEMMA SeenProgress ==
    ASSUME NEW r, Fit(r), NEW S, NEW s \in 0..MaxSlot, NEW n \in Nat, Seen(r, S, s, n),
           NEW bars \in SUBSET Bar, \A x \in Times(bars) : x <= n
    PROVE  Seen(Progress(r, bars), S \cup Times(bars), Begin(s, bars), n)
<1> DEFINE t == Progress(r, bars)
<1>1. /\ t.observed \in {r.observed} \cup Times(bars) /\ r.observed <= t.observed
      /\ \A x \in Times(bars) : x <= t.observed
  BY ProgressMarks
<1>2. r.observed \in Nat /\ Times(bars) \subseteq 1..MaxSlot /\ (bars = {} => Times(bars) = {})
      /\ (bars # {} => Times(bars) # {})
  <2>1. r \in Route
    BY DEF Fit
  <2>2. Times(bars) \subseteq Slots /\ (bars # {} => Times(bars) # {})
    BY BatchFacts
  <2>3. bars = {} => Times(bars) = {}
    BY NoTimes
  <2>4. r.observed \in Nat
    BY <2>1, RouteFields
  <2>5. QED BY <2>2, <2>3, <2>4 DEF Slots
<1>3. t.observed \in Nat
  BY <1>1, <1>2
<1> HIDE DEF t
<1>4. t.observed <= n /\ (t.observed # 0 => t.observed \in S \cup Times(bars))
  BY <1>1, <1>2 DEF Seen
<1>5. t.observed = 0 <=> Begin(s, bars) = 0
  <2>1. CASE bars = {}
    BY <1>1, <1>2, <2>1, BeginFacts DEF Seen
  <2>2. CASE bars # {}
    BY <1>1, <1>2, <1>3, <2>2, BeginFacts
  <2>3. QED BY <2>1, <2>2
<1>6. QED BY <1>4, <1>5 DEF Seen, t

\* Bars without a gap before them continue what is shown.
LEMMA KeptProgress ==
    ASSUME NEW r, Fit(r), NEW S, NEW s \in 0..MaxSlot, NEW n \in Nat,
           Seen(r, S, s, n), Kept(r, S, s),
           NEW bars \in SUBSET Bar, Fine(bars, n),
           r.unverified = 0 => Gaps(r, bars) = {}
    PROVE  Kept(Progress(r, bars), S \cup Times(bars), Begin(s, bars))
<1> DEFINE t == Progress(r, bars)
           T == S \cup Times(bars)
           u == Begin(s, bars)
           F == From(r, s)
           G == From(t, u)
<1>1. /\ t \in Route /\ t.boundary = r.boundary /\ t.unverified = r.unverified
      /\ t.observed \in {r.observed} \cup Times(bars)
      /\ \A x \in Times(bars) : x <= t.observed
      /\ \/ t.verified = r.verified
         \/ /\ t.verified \in Times(bars)
            /\ r.unverified = 0 \/ t.verified < r.unverified
  BY ProgressMarks DEF SameBase
<1>2. /\ r \in Route /\ r.observed \in Nat /\ r.verified \in Nat /\ r.unverified \in Nat
      /\ r.boundary \in Nat
      /\ Times(bars) \subseteq 1..MaxSlot /\ bars # {} /\ S \subseteq T
      /\ Times(bars) \subseteq Trading
  <2>1. r \in Route /\ Times(bars) \subseteq Slots
    BY BatchFacts DEF Fit
  <2>2. bars # {} /\ Times(bars) \subseteq Trading
    BY NoTimes DEF Fine
  <2>3. QED BY <2>1, <2>2, RouteFields DEF Slots
<1>3. u \in 0..MaxSlot /\ (s # 0 => u = s) /\ u # 0
  BY <1>2, BeginFacts
<1>4. F \in Nat /\ G \in Nat /\ F <= G /\ u <= G
  BY <1>1, <1>2, <1>3, FromFacts, FromGrows
<1> HIDE DEF t, u, F, G
<1>5. /\ Covered(S, F, r.verified)
      /\ r.unverified = 0 /\ s # 0 => Covered(S, F, r.observed)
      /\ r.unverified # 0 => Covered(S, F, r.unverified - 1)
  BY DEF Kept, F
<1>6. ASSUME r.unverified = 0 PROVE Covered(T, G, t.observed)
  <2> SUFFICES ASSUME NEW x \in Trading, G <= x, x <= t.observed, x \notin Times(bars)
               PROVE  x \in S
    BY DEF Covered, T
  <2>1. x \in Nat
    BY DEF Slots
  <2>2. CASE s = 0
    <3>1. r.observed = 0 /\ u \in Times(bars)
      BY <1>2, <2>2, BeginFacts DEF Seen, u
    <3>2. t.observed \in Times(bars)
      <4>1. u <= t.observed
        BY <1>1, <3>1
      <4>2. QED BY <1>1, <1>3, <3>1, <4>1
    <3>3. u <= x
      BY <1>3, <1>4, <2>1
    <3>4. t.observed <= u + 1 /\ t.observed \in Nat /\ u \in Nat
      BY <1>2, <3>1, <3>2 DEF Fine
    <3>5. x = u \/ x = t.observed
      BY <2>1, <3>3, <3>4
    <3>6. QED BY <3>1, <3>2, <3>5
  <2>3. CASE s # 0 /\ x <= r.observed
    BY <1>4, <1>5, <1>6, <2>1, <2>3 DEF Covered
  <2>4. CASE s # 0 /\ ~(x <= r.observed)
    <3> DEFINE y == t.observed
               B == {r.observed} \cup {z \in Times(bars) : z < y}
    <3>1. y \in Times(bars) /\ y \in Nat /\ r.observed # 0 /\ r.observed < y
      BY <1>1, <1>2, <2>1, <2>4 DEF Seen
    <3> HIDE DEF y
    <3>2. y \notin Gaps(r, bars)
      BY <1>6
    <3>3. ~(y > Before(r, bars, y) + 1)
      BY <3>1, <3>2 DEF Gaps
    <3>4. B \in SUBSET (0..MaxSlot) /\ B # {}
      BY <1>2, <3>1
    <3>5. Latest(B) \in B
      BY <3>4, LatestFacts
    <3>6. Before(r, bars, y) = Latest(B)
      BY DEF Before
    <3>7. CASE Latest(B) = r.observed
      <4>1. y = r.observed + 1
        BY <1>2, <3>1, <3>3, <3>6, <3>7
      <4>2. x = y
        BY <1>2, <2>1, <2>4, <4>1 DEF y
      <4>3. QED BY <3>1, <4>2
    <3>8. CASE Latest(B) \in Times(bars) /\ Latest(B) < y
      <4> DEFINE z == Latest(B)
      <4>1. z \in Times(bars) /\ z \in Nat /\ z + 1 = y
        BY <1>2, <3>1, <3>3, <3>6, <3>8
      <4>2. x # z /\ x # y
        BY <3>1, <4>1
      <4> HIDE DEF z, B
      <4>3. x < z
        BY <2>1, <4>1, <4>2 DEF y
      <4>4. z \notin Gaps(r, bars) /\ ~(z > Before(r, bars, z) + 1)
        BY <1>6, <3>1, <4>1 DEF Gaps
      <4> DEFINE C == {r.observed} \cup {w \in Times(bars) : w < z}
      <4>5. C \in SUBSET (0..MaxSlot) /\ C # {}
        BY <1>2, <3>1, <4>1
      <4>6. Latest(C) \in C
        BY <4>5, LatestFacts
      <4>7. Before(r, bars, z) = Latest(C)
        BY DEF Before
      <4>8. \A w \in Times(bars) : ~(w < z)
        <5> TAKE w \in Times(bars)
        <5>1. y <= w + 1 /\ w \in Nat
          BY <1>2, <3>1 DEF Fine
        <5>2. QED BY <4>1, <5>1
      <4>9. Latest(C) = r.observed
        BY <4>6, <4>8
      <4>10. ~(z > r.observed + 1)
        BY <4>4, <4>7, <4>9
      <4>11. QED BY <1>2, <2>1, <2>4, <4>1, <4>3, <4>10
    <3>9. QED BY <3>5, <3>7, <3>8
  <2>5. QED BY <2>2, <2>3, <2>4
<1>7. Covered(T, G, t.verified)
  <2>1. CASE t.verified = r.verified
    BY <1>2, <1>4, <1>5, <2>1, CoveredGrows
  <2>2. CASE t.verified \in Times(bars) /\ r.unverified = 0
    <3>1. Covered(T, G, t.observed) /\ t.verified <= t.observed
      BY <1>1, <1>6, <2>2
    <3>2. t.verified \in Int /\ t.observed \in Int
      BY <1>1, <1>2, <2>2
    <3>3. QED BY <1>4, <3>1, <3>2, CoveredGrows
  <2>3. CASE t.verified \in Times(bars) /\ r.unverified # 0 /\ t.verified < r.unverified
    <3>1. t.verified \in Int /\ r.unverified - 1 \in Int /\ t.verified <= r.unverified - 1
      BY <1>2, <2>3
    <3>2. QED BY <1>2, <1>4, <1>5, <2>3, <3>1, CoveredGrows
  <2>4. QED BY <1>1, <2>1, <2>2, <2>3
<1>8. r.unverified # 0 => Covered(T, G, r.unverified - 1)
  <2>1. r.unverified - 1 \in Int
    BY <1>2
  <2>2. QED BY <1>2, <1>4, <1>5, <2>1, CoveredGrows
<1>9. QED BY <1>1, <1>6, <1>7, <1>8 DEF Kept, t, u, G

\* The bars of a prefill lie before the live part, or at its boundary.
LEMMA KeptPrefill ==
    ASSUME NEW r, Fit(r), NEW S, NEW s \in 0..MaxSlot, NEW n \in Nat,
           Seen(r, S, s, n), Kept(r, S, s),
           NEW bars \in SUBSET Bar, \A x \in Times(bars) : x <= r.boundary
    PROVE  Kept(Progress(r, bars), S \cup Times(bars), Begin(s, bars))
<1> DEFINE t == Progress(r, bars)
           T == S \cup Times(bars)
           u == Begin(s, bars)
           F == From(r, s)
           G == From(t, u)
<1>1. /\ t \in Route /\ t.boundary = r.boundary /\ t.unverified = r.unverified
      /\ t.observed \in {r.observed} \cup Times(bars)
      /\ t.verified \in {r.verified} \cup Times(bars)
  BY ProgressMarks DEF SameBase
<1>2. /\ r \in Route /\ r.observed \in Nat /\ r.verified \in Nat /\ r.unverified \in Nat
      /\ r.boundary \in Nat
      /\ Times(bars) \subseteq 1..MaxSlot /\ S \subseteq T
  BY RouteFields, BatchFacts DEF Fit, Slots
<1>3. u \in 0..MaxSlot /\ (s # 0 => u = s)
  BY BeginFacts
<1>4. F \in Nat /\ G \in Nat /\ F <= G /\ r.boundary <= G
  BY <1>1, <1>2, <1>3, FromFacts, FromGrows
<1> HIDE DEF t, u, F, G
<1>5. /\ Covered(S, F, r.verified)
      /\ r.unverified = 0 /\ s # 0 => Covered(S, F, r.observed)
      /\ r.unverified # 0 => Covered(S, F, r.unverified - 1)
  BY DEF Kept, F
<1>6. \A x \in Times(bars) : Covered(T, G, x)
  <2> SUFFICES ASSUME NEW x \in Times(bars), NEW y \in Trading, G <= y, y <= x
               PROVE  y \in T
    BY DEF Covered
  <2>1. x \in Nat /\ y \in Nat /\ x <= r.boundary
    BY <1>2 DEF Slots
  <2>2. y = x
    BY <1>2, <1>4, <2>1
  <2>3. QED BY <2>2
<1>7. Covered(T, G, t.verified)
  <2>1. Covered(T, G, r.verified)
    BY <1>2, <1>4, <1>5, CoveredGrows
  <2>2. QED BY <1>1, <1>6, <2>1
<1>8. r.unverified = 0 /\ u # 0 => Covered(T, G, t.observed)
  <2> SUFFICES ASSUME r.unverified = 0, u # 0, t.observed = r.observed
               PROVE  Covered(T, G, r.observed)
    BY <1>1, <1>6
  <2>1. CASE s # 0
    BY <1>2, <1>4, <1>5, <2>1, CoveredGrows
  <2>2. CASE s = 0
    <3>1. r.observed = 0 /\ u <= G /\ u \in Nat
      BY <1>1, <1>3, <2>2, FromFacts DEF Seen, G
    <3>2. \A y \in Trading : ~(G <= y /\ y <= 0)
      BY <1>4, <3>1 DEF Slots
    <3>3. QED BY <3>1, <3>2 DEF Covered
  <2>3. QED BY <2>1, <2>2
<1>9. r.unverified # 0 => Covered(T, G, r.unverified - 1)
  <2>1. r.unverified - 1 \in Int
    BY <1>2
  <2>2. QED BY <1>2, <1>4, <1>5, <2>1, CoveredGrows
<1>10. QED BY <1>1, <1>7, <1>8, <1>9 DEF Kept, t, u, G

\* The first bars shown of a route that holds them from its open slot on.
LEMMA FreshProgress ==
    ASSUME NEW r, Fit(r), NEW S, NEW s \in 0..MaxSlot, NEW n \in Nat,
           s = 0, r.verified = 0, r.unverified # 0,
           NEW bars \in SUBSET Bar, bars # {}, \A x \in Times(bars) : r.unverified <= x
    PROVE  Kept(Progress(r, bars), S \cup Times(bars), Begin(s, bars))
<1> DEFINE t == Progress(r, bars)
           T == S \cup Times(bars)
           u == Begin(s, bars)
           G == From(t, u)
<1>1. /\ t \in Route /\ t.unverified = r.unverified
      /\ \/ t.verified = r.verified
         \/ /\ t.verified \in Times(bars)
            /\ r.unverified = 0 \/ t.verified < r.unverified
  BY ProgressMarks
<1>2. r.unverified \in Nat /\ Times(bars) \subseteq 1..MaxSlot
  BY RouteFields, BatchFacts DEF Fit, Slots
<1>3. t.verified = 0
  BY <1>1, <1>2
<1>4. u \in Times(bars) /\ u \in 0..MaxSlot
  BY BeginFacts
<1>5. G \in Nat /\ u <= G
  BY <1>1, <1>4, FromFacts
<1> HIDE DEF t, u, G
<1>6. r.unverified <= G /\ r.unverified > 0
  BY <1>2, <1>4, <1>5
<1>7. \A y \in Trading : ~(G <= y /\ y <= 0) /\ ~(G <= y /\ y <= r.unverified - 1)
  BY <1>2, <1>5, <1>6 DEF Slots
<1>8. Covered(T, G, t.verified) /\ Covered(T, G, r.unverified - 1)
  BY <1>3, <1>7 DEF Covered
<1>9. QED BY <1>1, <1>8 DEF Kept, t, u, G
-----------------------------------------------------------------------------
(* What a recovery asks for. *)

\* A route with nothing open and nothing held is live.
Settles(r, h) ==
    /\ h.asks = {} /\ r.unverified = 0 /\ r.buffer = <<>>
    /\ h.route.mode = r.mode /\ h.route.prefill = r.prefill
    /\ h.route.boundary = r.boundary /\ h.route.generation = r.generation
    /\ SameMarks(r, h.route) /\ h.route.buffer = r.buffer
    /\ h.route.phase = "live" /\ ~h.route.inflight /\ h.route.retry = r.retry

\* Another one asks from its earliest open slot.
ReconnectAsked(r, h, S, s, n) ==
    /\ h.route.mode = r.mode /\ h.route.prefill = r.prefill
    /\ h.route.boundary = r.boundary /\ h.route.generation = r.generation
    /\ h.route.observed = r.observed /\ h.route.verified = r.verified
    /\ h.route.unverified # 0 /\ h.route.buffer = r.buffer
    /\ h.route.phase = "recovering" /\ h.route.inflight /\ h.route.retry = r.retry
    /\ Kept(h.route, S, s) \/ Fresh(h.route, s, n)
    /\ \E q \in Request : /\ h.asks = {q} /\ q.generation = r.generation
                          /\ AskSound(h.route, S, s, n, q)

\* Without an open slot a recovery starts from the first held bar.
LEMMA FirstHeld ==
    ASSUME NEW r, Fit(r), r.unverified = 0, r.observed = 0, r.verified = 0,
           NEW n, \A x \in Elems(r.buffer) : Fine(x, n)
    PROVE  /\ Buffered(r) = {} => RecoveryStart(r) = 0 /\ r.buffer = <<>>
           /\ Buffered(r) # {} => /\ RecoveryStart(r) \in Buffered(r)
                                  /\ \A t \in Buffered(r) : RecoveryStart(r) <= t
<1> DEFINE B == {r.observed} \cup Buffered(r)
<1>1. Buffered(r) \in SUBSET (0..MaxSlot) /\ r.buffer \in Seq(SUBSET Bar)
  BY BufferedFacts, RouteFields DEF Fit, Slots
<1>2. CASE Buffered(r) = {}
  <2>1. r.buffer = <<>>
    <3>1. ASSUME r.buffer # <<>> PROVE FALSE
      <4>1. Head(r.buffer) \in Elems(r.buffer)
        BY <1>1, <3>1 DEF Elems
      <4>2. Times(Head(r.buffer)) # {}
        BY <4>1 DEF Fine
      <4>3. QED BY <1>2, <4>1, <4>2, BufferedElems
    <3>2. QED BY <3>1
  <2>2. Latest(B) = 0
    <3>1. B \in SUBSET (0..MaxSlot) /\ B = {0}
      BY <1>2
    <3>2. Latest(B) \in B
      BY <3>1, LatestFacts
    <3>3. QED BY <3>1, <3>2
  <2> HIDE DEF B
  <2>3. RecoveryStart(r) = 0
    BY <2>1, <2>2 DEF RecoveryStart, B
  <2>4. QED BY <1>2, <2>1, <2>3
<1>3. CASE Buffered(r) # {}
  <2>1. /\ Earliest(Buffered(r)) \in Buffered(r)
        /\ \A t \in Buffered(r) : Earliest(Buffered(r)) <= t
    BY <1>1, <1>3, EarliestFacts
  <2>2. r.buffer # <<>>
    <3>1. r.buffer = <<>> => Buffered(r) = {}
      BY DEF Buffered
    <3>2. QED BY <1>3, <3>1
  <2>3. RecoveryStart(r) = Earliest(Buffered(r))
    BY <1>3, <2>2 DEF RecoveryStart
  <2>4. QED BY <1>3, <2>1, <2>3
<1>4. QED BY <1>2, <1>3

\* A recovery waits, settles or asks for what is missing.
LEMMA StartReconnectSound ==
    ASSUME NEW r, Fit(r), now \in Slots, NEW S, NEW s \in 0..MaxSlot,
           Seen(r, S, s, now), Kept(r, S, s) \/ Fresh(r, s, now),
           \A x \in Elems(r.buffer) : Fine(x, now),
           r.phase = "recovering", Recovers(r), ~r.prefill, ~r.inflight,
           r.unverified = 0 => r.observed = 0 /\ r.verified = 0
    PROVE  LET h == StartReconnect(r)
           IN  h = Quiet(r) \/ Settles(r, h) \/ ReconnectAsked(r, h, S, s, now)
<1> DEFINE from == RecoveryStart(r)
           h    == StartReconnect(r)
<1>1. /\ from \in 0 .. MaxSlot + 1 /\ r \in Route /\ r.observed \in Nat /\ r.unverified \in Nat
      /\ Buffered(r) \subseteq Slots
  BY RecoveryStartFacts, RouteFields, BufferedFacts DEF Fit
<1>2. r.unverified # 0 => from = r.unverified
  BY DEF RecoveryStart
<1>3. r.unverified = 0 =>
         /\ Buffered(r) = {} => from = 0 /\ r.buffer = <<>>
         /\ Buffered(r) # {} => /\ from \in Buffered(r)
                                /\ \A t \in Buffered(r) : from <= t
  BY FirstHeld
<1> HIDE DEF from
<1>4. CASE from = 0
  <2> DEFINE e == [r EXCEPT !.phase = "live", !.target = 0]
  <2>1. h = Quiet(e)
    BY <1>4 DEF StartReconnect, from
  <2>2. r.unverified = 0 /\ r.buffer = <<>>
    <3>1. r.unverified = 0
      BY <1>2, <1>4
    <3>2. Buffered(r) = {}
      BY <1>1, <1>3, <1>4, <3>1 DEF Slots
    <3>3. QED BY <1>3, <3>1, <3>2
  <2>3. /\ e.mode = r.mode /\ e.prefill = r.prefill /\ e.boundary = r.boundary
        /\ e.generation = r.generation /\ e.buffer = r.buffer
        /\ e.phase = "live" /\ (e.inflight <=> r.inflight) /\ e.retry = r.retry
        /\ e.unverified = r.unverified /\ e.observed = r.observed /\ e.verified = r.verified
    BY <1>1 DEF Route
  <2> HIDE DEF e, h
  <2>4. h.route = e /\ h.asks = {}
    BY <2>1 DEF Quiet
  <2>5. Settles(r, h)
    BY <2>2, <2>3, <2>4 DEF Settles, SameMarks
  <2>6. QED BY <2>5 DEF h
<1>5. CASE from # 0 /\ from > LastClosed
  BY <1>5 DEF StartReconnect, from
<1>6. CASE from # 0 /\ ~(from > LastClosed)
  <2> DEFINE m == MarkUnverified(r, from)
             e == [m EXCEPT !.target = LastClosed]
             to == Bounded(from, LastClosed)
  <2>1. LastClosed \in Slots /\ from \in Slots /\ from <= LastClosed /\ LastClosed = now - 1
    BY <1>1, <1>6 DEF LastClosed, Slots
  <2>2. h = Asking(e, "reconnect", from, to)
    <3>1. /\ r.phase = "recovering" /\ Recovers(r) /\ ~r.prefill /\ ~r.inflight
          /\ from # 0 /\ ~(from > LastClosed)
      BY <1>6
    <3>2. QED BY ONLY <3>1 DEF StartReconnect, from
  <2>3. /\ m \in Route /\ SameBase(r, m) /\ SameStage(r, m) /\ m.buffer = r.buffer
        /\ m.observed = r.observed /\ m.verified = r.verified /\ m.unverified = from
    <3>1. from \in 0 .. MaxSlot + 1
      BY <1>1
    <3>2. /\ m \in Route /\ SameBase(r, m) /\ SameStage(r, m) /\ m.buffer = r.buffer
          /\ m.observed = r.observed /\ m.verified = r.verified
          /\ m.unverified = IF from # 0 /\ (r.unverified = 0 \/ from < r.unverified)
                            THEN from ELSE r.unverified
      BY <3>1, MarkMarks
    <3>3. QED BY <1>2, <1>6, <3>2
  <2> HIDE DEF m
  <2>4. /\ e \in Route /\ e.mode = m.mode /\ e.prefill = m.prefill /\ e.boundary = m.boundary
        /\ e.generation = m.generation /\ e.target = LastClosed /\ e.buffer = m.buffer
        /\ e.phase = m.phase /\ e.retry = m.retry /\ SameMarks(m, e)
    <3> DEFINE l == LastClosed
    <3>1. l \in 0..MaxSlot
      BY <2>1 DEF Slots
    <3>2. [m EXCEPT !.target = l] \in Route
      <4> HIDE DEF l
      <4>1. QED BY <2>3, <3>1 DEF Route
    <3>3. QED BY <2>3, <3>2 DEF Route, SameMarks
  <2> HIDE DEF e
  <2>5. to \in Slots /\ from <= to /\ to <= LastClosed
    BY <2>1, BoundedFacts
  <2> HIDE DEF to
  <2> DEFINE a == Asking(e, "reconnect", from, to)
  <2>6. /\ SameBase(e, a.route) /\ SameMarks(e, a.route) /\ a.route.buffer = e.buffer
        /\ a.route.phase = e.phase /\ a.route.retry = e.retry /\ a.route.inflight
        /\ Sends(a.asks, "reconnect", from, to, e.generation)
    <3>1. "reconnect" \in Kinds
      BY DEF Kinds
    <3>2. QED BY <2>1, <2>4, <2>5, <3>1, AskingMarks
  <2> HIDE DEF a, h
  <2>7. /\ h.route.mode = r.mode /\ h.route.prefill = r.prefill
        /\ h.route.boundary = r.boundary /\ h.route.generation = r.generation
        /\ h.route.target = LastClosed
    BY <2>2, <2>3, <2>4, <2>6 DEF SameBase, a
  <2>8. /\ h.route.observed = r.observed /\ h.route.verified = r.verified
        /\ h.route.unverified = from
    BY <2>2, <2>3, <2>4, <2>6 DEF SameMarks, a
  <2>9. /\ h.route.buffer = r.buffer /\ h.route.phase = "recovering" /\ h.route.inflight
        /\ h.route.retry = r.retry
    BY <2>2, <2>3, <2>4, <2>6 DEF SameStage, a
  <2>10. PICK q \in Request : /\ h.asks = {q} /\ q.kind = "reconnect" /\ q.from = from
                              /\ q.to = to /\ q.generation = r.generation
    <3>1. e.generation = r.generation
      BY <2>3, <2>4 DEF SameBase
    <3>2. QED BY <2>2, <2>6, <3>1 DEF Sends, a
  <2>11. AskSound(h.route, S, s, now, q)
    <3>1. ASSUME NEW t \in Trading, LastClosed < t, t <= r.observed PROVE t \in S
      <4>1. t = now /\ r.observed = now /\ r.observed # 0
        BY <1>1, <2>1, <3>1 DEF Seen, Slots
      <4>2. QED BY <4>1 DEF Seen
    <3>2. Recovers(h.route) /\ ~h.route.prefill
      BY <2>7 DEF Recovers
    <3>3. q.to <= now /\ LastClosed <= now
      BY <2>1, <2>5, <2>10 DEF Slots
    <3>4. QED BY <2>5, <2>7, <2>8, <2>10, <3>1, <3>2, <3>3 DEF AskSound
  <2>12. Kept(h.route, S, s) \/ Fresh(h.route, s, now)
    <3>1. Buffered(h.route) = Buffered(r)
      BY <2>9 DEF Buffered
    <3>2. CASE r.unverified # 0
      <4>1. SameMarks(r, h.route)
        BY <1>2, <2>8, <3>2 DEF SameMarks
      <4>2. CASE Kept(r, S, s)
        BY <2>7, <4>1, <4>2, KeptSame
      <4>3. CASE Fresh(r, s, now)
        BY <2>7, <3>1, <4>1, <4>3 DEF Fresh, SameMarks
      <4>4. QED BY <4>2, <4>3
    <3>3. CASE r.unverified = 0
      <4>1. Buffered(r) # {} /\ from \in Buffered(r) /\ \A t \in Buffered(r) : from <= t
        BY <1>3, <1>6, <3>3
      <4>2. s = 0 /\ r.verified = 0
        BY <3>3 DEF Seen
      <4>3. from < now
        BY <2>1 DEF Slots
      <4>4. QED BY <2>7, <2>8, <3>1, <4>1, <4>2, <4>3 DEF Fresh
    <3>4. QED BY <3>2, <3>3
  <2>13. ReconnectAsked(r, h, S, s, now)
    BY <1>6, <2>7, <2>8, <2>9, <2>10, <2>11, <2>12 DEF ReconnectAsked
  <2>14. QED BY <2>13 DEF h
<1>7. QED BY <1>4, <1>5, <1>6
-----------------------------------------------------------------------------
(* The steps that keep what is shown. *)

\* What an awaited answer covers depends on few fields.
LEMMA AskKept ==
    ASSUME NEW r, NEW t, SameBase(r, t), SameMarks(r, t),
           NEW S, NEW s, NEW n, NEW q, AskSound(r, S, s, n, q)
    PROVE  AskSound(t, S, s, n, q)
BY DEF AskSound, SameBase, SameMarks, Recovers, From

\* So do the marks.
LEMMA MarksKept ==
    ASSUME NEW r, NEW t, t.boundary = r.boundary, SameMarks(r, t),
           Elems(t.buffer) = Elems(r.buffer),
           NEW S, NEW s, NEW n, Seen(r, S, s, n), Kept(r, S, s) \/ Fresh(r, s, n),
           ~r.prefill => ~t.prefill
    PROVE  Seen(t, S, s, n) /\ (Kept(t, S, s) \/ Fresh(t, s, n))
<1>1. Seen(t, S, s, n)
  BY SeenSame DEF SameMarks
<1>2. Kept(r, S, s) => Kept(t, S, s)
  BY KeptSame
<1>3. Fresh(r, s, n) => Fresh(t, s, n)
  <2>1. Buffered(t) = Buffered(r)
    BY BufferedElems
  <2>2. QED BY <2>1 DEF Fresh, SameMarks
<1>4. QED BY <1>1, <1>2, <1>3

\* No bar gets lost on its way from the buffer to what is shown.
LEMMA WholeKept ==
    ASSUME NEW r \in Route, NEW t \in Route, r.boundary <= t.boundary,
           NEW s \in 0..MaxSlot, NEW u \in 0..MaxSlot, s = 0 \/ s = u,
           NEW S, NEW T, S \subseteq T, NEW C \in SUBSET Slots, Whole(r, C, S, s),
           \A x \in Buffered(r) : From(r, s) <= x => x \in T \cup Buffered(t)
    PROVE  Whole(t, C, T, u)
<1>1. From(r, s) \in Nat /\ From(t, u) \in Nat /\ From(r, s) <= From(t, u)
  BY FromFacts, FromGrows
<1>2. \A x \in C : From(t, u) <= x => From(r, s) <= x
  BY <1>1 DEF Slots
<1>3. QED BY <1>2 DEF Whole

\* A new route has nothing to complete.
LEMMA InitSound ==
    ASSUME Init
    PROVE  Sound
<1>1. IInv
  BY InitIInv
<1>2. /\ pc = "new" /\ requests = {} /\ now = FirstSlot
      /\ start = 0 /\ shown = {} /\ received = {}
  BY DEF Init
<1>3. /\ route.phase = (IF PrefillBars > 0 THEN "prefilling" ELSE "live")
      /\ route.prefill <=> PrefillBars > 0
      /\ ~route.inflight /\ route.buffer = <<>> /\ route.retry = NoRequest
      /\ route.observed = 0 /\ route.verified = 0 /\ route.unverified = 0
      /\ route.boundary = 0 /\ Enabled(route)
  BY DEF Init, Enabled
<1>4. route \in Route
  BY <1>1 DEF IInv, Fit
<1>5. From(route, 0) \in 0..MaxSlot
  BY <1>4, FromFacts
<1>6. Kept(route, {}, 0)
  <2>1. \A t \in Trading : ~(From(route, 0) <= t /\ t <= 0)
    BY <1>5 DEF Slots
  <2>2. QED BY <1>3, <2>1 DEF Kept, Covered
<1>7. Seen(route, {}, 0, FirstSlot)
  BY <1>3 DEF Seen
<1>8. Staged(route, FirstSlot)
  BY <1>3 DEF Staged
<1>9. Batches(route, FirstSlot)
  BY <1>3 DEF Batches, Elems
<1>10. Sole(route, {}) /\ Asked(route, {}, {}, 0, FirstSlot)
  BY <1>3 DEF Sole, Asked
<1>11. Marks(route, {}, 0, FirstSlot)
  BY <1>3, <1>6, <1>7 DEF Marks
<1>12. QED BY <1>2, <1>3, <1>8, <1>9, <1>10, <1>11 DEF Sound, Steady, Whole

\* Time takes nothing back.
LEMMA SlotClosesSound ==
    ASSUME IInv, Sound, SlotCloses
    PROVE  Sound'
<1>1. /\ pc' = pc /\ route' = route /\ requests' = requests /\ start' = start
      /\ shown' = shown /\ received' = received /\ now' = now + 1 /\ pc # "flush"
  BY DEF SlotCloses
<1>2. /\ now \in Nat /\ route \in Route /\ requests \subseteq Request
      /\ \A x \in Elems(route.buffer) : Times(x) \subseteq Slots
  <2>1. now \in Slots /\ route \in Route /\ requests \subseteq Request
    BY DEF IInv, TypeOK
  <2>2. route.buffer \in Seq(SUBSET Bar)
    BY <2>1, RouteFields
  <2>3. \A x \in Elems(route.buffer) : x \in SUBSET Bar
    BY <2>2 DEF Elems
  <2>4. QED BY <2>1, <2>3, BatchFacts DEF Slots
<1>3. /\ Steady(route, requests, shown, start, now)
      /\ pc = "new" => route.retry = NoRequest /\ Enabled(route)
      /\ Whole(route, received, shown, start)
  BY DEF Sound
<1>4. /\ route.boundary \in Nat /\ route.observed \in Nat /\ route.unverified \in Nat
      /\ route.target \in Nat /\ route.retry \in Request \cup {NoRequest}
  BY <1>2, RouteFields
<1>5. Batches(route, now + 1)
  BY <1>2, <1>3 DEF Steady, Batches, Fine, Slots
<1>6. Staged(route, now + 1)
  BY <1>2, <1>3, <1>4 DEF Steady, Staged
<1>7. ASSUME NEW q \in Request, AskSound(route, shown, start, now, q)
      PROVE  AskSound(route, shown, start, now + 1, q)
  <2>1. q.to \in Nat
    BY RequestFields DEF Slots
  <2>2. q.to <= now + 1 /\ (route.target <= now => route.target <= now + 1)
    BY <1>2, <1>4, <1>7, <2>1 DEF AskSound
  <2>3. QED BY <1>7, <2>2 DEF AskSound
<1>8. Asked(route, requests, shown, start, now + 1)
  BY <1>2, <1>3, <1>4, <1>7 DEF Steady, Asked
<1>9. Seen(route, shown, start, now) => Seen(route, shown, start, now + 1)
  BY <1>2, <1>4 DEF Seen
<1>10. Fresh(route, start, now) => Fresh(route, start, now + 1)
  BY <1>2, <1>4 DEF Fresh
<1>11. Marks(route, shown, start, now + 1)
  BY <1>3, <1>9, <1>10 DEF Steady, Marks
<1>12. Steady(route, requests, shown, start, now + 1)
  BY <1>3, <1>5, <1>6, <1>8, <1>11 DEF Steady
<1>13. QED BY <1>1, <1>3, <1>12 DEF Sound

\* Nothing is held at the end of a release.
LEMMA FlushDoneSound ==
    ASSUME IInv, Sound, FlushDone
    PROVE  Sound'
<1> DEFINE p == IF flush.usable /\ route.unverified = 0 THEN "live" ELSE "degraded"
           e == [route EXCEPT !.phase = p, !.target = 0]
<1>1. /\ pc' = "idle" /\ route' = e /\ requests' = requests /\ start' = start
      /\ shown' = shown /\ received' = received /\ now' = now /\ pc = "flush"
      /\ route.buffer = <<>>
  BY DEF FlushDone
<1>2. route \in Route
  BY DEF IInv, TypeOK
<1>3. /\ Steady(route, requests, shown, start, now)
      /\ Releases(route, flush, shown, start)
      /\ Whole(route, received, shown, start)
  BY <1>1 DEF Sound
<1>4. /\ e.mode = route.mode /\ e.prefill = route.prefill /\ e.boundary = route.boundary
      /\ e.generation = route.generation /\ e.buffer = route.buffer
      /\ e.phase = p /\ (e.inflight <=> route.inflight) /\ e.retry = route.retry
      /\ e.unverified = route.unverified /\ e.observed = route.observed
      /\ e.verified = route.verified
  BY <1>2 DEF Route
<1>5. p \in {"live", "degraded"} /\ (p = "live" => route.unverified = 0)
  OBVIOUS
<1> HIDE DEF e, p
<1>6. ~route.inflight /\ route.retry = NoRequest /\ ~route.prefill
  BY <1>3 DEF Releases
<1>7. Batches(e, now)
  BY <1>3, <1>4 DEF Steady, Batches
<1>8. Staged(e, now)
  BY <1>1, <1>3, <1>4, <1>5, <1>6 DEF Steady, Staged
<1>9. Sole(e, requests)
  <2>1. e.generation = route.generation
    BY <1>4
  <2>2. Enabled(e) <=> Enabled(route)
    BY <1>4 DEF Enabled
  <2>3. QED BY <1>3, <1>4, <2>1, <2>2 DEF Steady, Sole
<1>10. Asked(e, requests, shown, start, now)
  BY <1>4, <1>6 DEF Asked, StillAwaits
<1>11. Marks(e, shown, start, now)
  <2>1. SameMarks(route, e) /\ Elems(e.buffer) = Elems(route.buffer)
    BY <1>4 DEF SameMarks
  <2>2. Recovers(e) => Recovers(route)
    BY <1>4 DEF Recovers
  <2>3. Recovers(route) => /\ Seen(route, shown, start, now)
                           /\ Kept(route, shown, start) \/ Fresh(route, start, now)
    BY <1>3 DEF Steady, Marks
  <2>4. Recovers(route) => Seen(e, shown, start, now)
                           /\ (Kept(e, shown, start) \/ Fresh(e, start, now))
    BY <1>4, <2>1, <2>3, MarksKept
  <2>5. QED BY <1>4, <1>5, <2>2, <2>4 DEF Marks
<1>12. Whole(e, received, shown, start)
  BY <1>3, <1>4 DEF Whole, From, Buffered
<1>13. Steady(e, requests, shown, start, now)
  BY <1>7, <1>8, <1>9, <1>10, <1>11 DEF Steady
<1>14. QED BY <1>1, <1>12, <1>13 DEF Sound

\* A retry that is due is awaited again.
LEMMA ProcessRetrySound ==
    ASSUME IInv, Sound, ProcessRetry
    PROVE  Sound'
<1> DEFINE e == [route EXCEPT !.inflight = TRUE, !.retry = NoRequest]
           q == route.retry
<1>1. /\ pc = "idle" /\ pc' = "idle" /\ route' = e /\ requests' = requests \cup {q}
      /\ start' = start /\ shown' = shown /\ received' = received /\ now' = now
      /\ ~route.inflight /\ q # NoRequest
  BY DEF ProcessRetry
<1>2. route \in Route
  BY DEF IInv, TypeOK
<1>3. /\ Steady(route, requests, shown, start, now)
      /\ Whole(route, received, shown, start)
  BY DEF Sound
<1>4. /\ e.mode = route.mode /\ e.prefill = route.prefill /\ e.boundary = route.boundary
      /\ e.generation = route.generation /\ e.buffer = route.buffer /\ e.target = route.target
      /\ e.phase = route.phase /\ e.inflight /\ e.retry = NoRequest
      /\ e.unverified = route.unverified /\ e.observed = route.observed
      /\ e.verified = route.verified
  BY <1>2 DEF Route
<1> HIDE DEF e
<1>5. SameBase(route, e) /\ SameMarks(route, e)
  BY <1>4 DEF SameBase, SameMarks
<1>6. /\ Enabled(route) /\ q.generation = route.generation
      /\ route.phase \in {"prefilling", "recovering"}
      /\ AskSound(route, shown, start, now, q)
  BY <1>1, <1>3 DEF Steady, Staged, Asked
<1> HIDE DEF q
<1>7. Batches(e, now)
  BY <1>3, <1>4 DEF Steady, Batches
<1>8. Staged(e, now)
  BY <1>3, <1>4, <1>6 DEF Steady, Staged, Buffers, Enabled
<1>9. Sole(e, requests \cup {q})
  <2>1. \A p \in requests : p.generation <= route.generation /\ p.generation # route.generation
    BY <1>1, <1>3, <1>6 DEF Steady, Sole
  <2>2. q.generation <= route.generation
    BY <1>2, <1>6, RouteFields
  <2>3. QED BY <1>4, <1>6, <2>1, <2>2 DEF Sole
<1>10. Asked(e, requests \cup {q}, shown, start, now)
  <2>1. \A p \in requests : p.generation # route.generation
    BY <1>1, <1>3, <1>6 DEF Steady, Sole
  <2>2. AskSound(e, shown, start, now, q)
    BY <1>5, <1>6, AskKept
  <2>3. QED BY <1>4, <2>1, <2>2 DEF Asked, StillAwaits
<1>11. Marks(e, shown, start, now)
  <2>1. Recovers(e) => Recovers(route)
    BY <1>4 DEF Recovers
  <2>2. Recovers(route) => Seen(e, shown, start, now)
                           /\ (Kept(e, shown, start) \/ Fresh(e, start, now))
    BY <1>3, <1>4, <1>5, MarksKept DEF Steady, Marks
  <2>3. QED BY <1>3, <1>4, <2>1, <2>2 DEF Steady, Marks
<1>12. Whole(e, received, shown, start)
  BY <1>3, <1>4 DEF Whole, From, Buffered
<1>13. Steady(e, requests \cup {q}, shown, start, now)
  BY <1>7, <1>8, <1>9, <1>10, <1>11 DEF Steady
<1>14. QED BY <1>1, <1>12, <1>13 DEF Sound, q

\* A recovery leaves a steady route.
LEMMA ReconnectSteady ==
    ASSUME NEW r, Fit(r), now \in Slots, NEW A, NEW S, NEW s \in 0..MaxSlot,
           Steady(r, A, S, s, now),
           r.phase = "recovering", ~r.prefill, ~r.inflight, r.retry = NoRequest
    PROVE  LET h == StartReconnect(r)
           IN  /\ Steady(h.route, A \cup h.asks, S, s, now)
               /\ h.route.boundary = r.boundary /\ h.route.buffer = r.buffer
               /\ h.route.retry = NoRequest
<1> DEFINE h == StartReconnect(r)
<1>1. CASE h = Quiet(r)
  BY <1>1 DEF Quiet
<1>2. CASE ~Recovers(r)
  <2>1. h = Quiet(r)
    BY <1>2 DEF StartReconnect
  <2>2. QED BY <1>1, <2>1
<1>3. CASE Recovers(r) /\ h # Quiet(r)
  <2>1. /\ Seen(r, S, s, now) /\ (Kept(r, S, s) \/ Fresh(r, s, now))
        /\ r.unverified = 0 => r.observed = 0 /\ r.verified = 0
    BY <1>3 DEF Steady, Marks
  <2>2. \A x \in Elems(r.buffer) : Fine(x, now)
    BY DEF Steady, Batches
  <2>3. Settles(r, h) \/ ReconnectAsked(r, h, S, s, now)
    BY <1>3, <2>1, <2>2, StartReconnectSound
  <2> HIDE DEF h
  <2>4. r \in Route /\ r.generation \in Nat
    BY RouteFields DEF Fit
  <2>5. Enabled(r)
    BY <1>3 DEF Enabled, Recovers
  <2>6. /\ \A q \in A : q.generation <= r.generation /\ q.generation # r.generation
        /\ r.boundary <= now
    BY <2>5 DEF Steady, Sole, Staged
  <2>7. CASE Settles(r, h)
    <3> DEFINE t == h.route
    <3>1. /\ h.asks = {} /\ r.unverified = 0 /\ r.buffer = <<>>
          /\ t.mode = r.mode /\ t.prefill = r.prefill
          /\ t.boundary = r.boundary /\ t.generation = r.generation
          /\ SameMarks(r, t) /\ t.buffer = r.buffer
          /\ t.phase = "live" /\ ~t.inflight /\ t.retry = r.retry
      BY <2>7 DEF Settles
    <3> HIDE DEF t
    <3>2. Batches(t, now)
      BY <2>2, <3>1 DEF Batches
    <3>3. Staged(t, now)
      BY <2>6, <3>1 DEF Staged
    <3>4. Sole(t, A)
      BY <2>6, <3>1 DEF Sole
    <3>5. Asked(t, A, S, s, now)
      BY <3>1 DEF Asked, StillAwaits
    <3>6. Seen(t, S, s, now) /\ (Kept(t, S, s) \/ Fresh(t, s, now))
      BY <2>1, <3>1, MarksKept
    <3>7. Marks(t, S, s, now)
      BY <3>1, <3>6 DEF Marks, SameMarks
    <3>8. A \cup h.asks = A
      BY <3>1
    <3>9. QED BY <3>1, <3>2, <3>3, <3>4, <3>5, <3>7, <3>8 DEF Steady, t, h
  <2>8. CASE ReconnectAsked(r, h, S, s, now)
    <3> DEFINE t == h.route
    <3>1. /\ t.mode = r.mode /\ t.prefill = r.prefill
          /\ t.boundary = r.boundary /\ t.generation = r.generation
          /\ t.observed = r.observed /\ t.verified = r.verified
          /\ t.unverified # 0 /\ t.buffer = r.buffer
          /\ t.phase = "recovering" /\ t.inflight /\ t.retry = r.retry
          /\ Kept(t, S, s) \/ Fresh(t, s, now)
      BY <2>8 DEF ReconnectAsked
    <3>2. PICK q \in Request : /\ h.asks = {q} /\ q.generation = r.generation
                               /\ AskSound(t, S, s, now, q)
      BY <2>8 DEF ReconnectAsked
    <3> HIDE DEF t
    <3>3. Batches(t, now)
      BY <2>2, <3>1 DEF Batches
    <3>4. Staged(t, now)
      BY <2>5, <2>6, <3>1 DEF Staged, Buffers, Enabled
    <3>5. Sole(t, A \cup {q})
      BY <2>4, <2>6, <3>1, <3>2 DEF Sole
    <3>6. Asked(t, A \cup {q}, S, s, now)
      BY <2>6, <3>1, <3>2 DEF Asked, StillAwaits
    <3>7. Seen(t, S, s, now)
      BY <2>1, <3>1, SeenSame
    <3>8. Marks(t, S, s, now)
      BY <3>1, <3>7 DEF Marks
    <3>9. QED BY <3>1, <3>2, <3>3, <3>4, <3>5, <3>6, <3>8 DEF Steady, t, h
  <2>9. QED BY <2>3, <2>7, <2>8
<1>4. QED BY <1>1, <1>2, <1>3

\* A recovery that waited for its candle.
LEMMA ProcessRecoverySound ==
    ASSUME IInv, Sound, ProcessRecovery
    PROVE  Sound'
<1> DEFINE h == StartReconnect(route)
<1>1. /\ pc = "idle" /\ pc' = "idle" /\ route' = h.route /\ requests' = requests \cup h.asks
      /\ start' = start /\ shown' = shown /\ received' = received /\ now' = now
      /\ route.phase = "recovering" /\ ~route.prefill
      /\ ~route.inflight /\ route.retry = NoRequest
  BY DEF ProcessRecovery
<1>2. Fit(route) /\ now \in Slots /\ start \in 0..MaxSlot
  BY DEF IInv, TypeOK
<1>3. /\ Steady(route, requests, shown, start, now)
      /\ Whole(route, received, shown, start)
  BY DEF Sound
<1>4. /\ Steady(h.route, requests \cup h.asks, shown, start, now)
      /\ h.route.boundary = route.boundary /\ h.route.buffer = route.buffer
  BY <1>1, <1>2, <1>3, ReconnectSteady
<1> HIDE DEF h
<1>5. Whole(h.route, received, shown, start)
  BY <1>3, <1>4 DEF Whole, From, Buffered
<1>6. QED BY <1>1, <1>4, <1>5 DEF Sound

\* A prefill leaves a steady route, whose live part begins at the boundary.
LEMMA PrefillSteady ==
    ASSUME NEW r, Fit(r), now \in Slots, now >= FirstSlot, NEW A, NEW S, NEW s \in 0..MaxSlot,
           Steady(r, A, S, s, now), r.retry = NoRequest, Enabled(r)
    PROVE  LET h == StartPrefill(r)
           IN  /\ Steady(h.route, A \cup h.asks, S, s, now)
               /\ h.route.boundary \in Nat /\ r.boundary <= h.route.boundary
               /\ h.route \in Route
               /\ h.route.buffer = r.buffer /\ h.route.retry = NoRequest
<1> DEFINE h  == StartPrefill(r)
           to == IF r.boundary # 0 THEN r.boundary ELSE now
           e  == [r EXCEPT !.boundary = to]
           a  == Asking(e, "prefill", to - PrefillBars + 1, to)
<1>1. /\ r \in Route /\ r.boundary \in Nat /\ r.generation \in Nat /\ r.verified \in Nat
      /\ r.observed \in Nat /\ r.unverified \in Nat
  BY RouteFields DEF Fit
<1>2. CASE r.phase = "prefilling" /\ r.prefill /\ ~r.inflight
  <2>1. h = a
    BY <1>2 DEF StartPrefill
  <2>2. to \in Slots /\ to >= FirstSlot /\ r.boundary <= to /\ to <= now
    BY <1>1 DEF Fit, Slots, Steady, Staged
  <2>3. PrefillBars > 0
    BY <1>2 DEF Fit
  <2>4. to - PrefillBars + 1 \in Slots /\ to - PrefillBars + 1 <= to
    BY <2>2, <2>3 DEF Slots
  <2> HIDE DEF to
  <2>5. /\ e.mode = r.mode /\ e.prefill = r.prefill /\ e.boundary = to
        /\ e.generation = r.generation /\ e.target = r.target /\ e.buffer = r.buffer
        /\ e.phase = r.phase /\ e.retry = r.retry /\ SameMarks(r, e)
    BY <1>1 DEF Route, SameMarks
  <2>6. e \in Route
    <3>1. to \in 0..MaxSlot
      BY <2>2 DEF Slots
    <3>2. QED BY <1>1, <3>1 DEF Route
  <2> HIDE DEF e
  <2> DEFINE from == to - PrefillBars + 1
  <2>7. /\ SameBase(e, a.route) /\ SameMarks(e, a.route) /\ a.route.buffer = e.buffer
        /\ a.route.phase = e.phase /\ a.route.retry = e.retry /\ a.route.inflight
        /\ Sends(a.asks, "prefill", from, to, e.generation)
    <3>1. "prefill" \in Kinds /\ from \in Slots
      BY <2>4 DEF Kinds
    <3> HIDE DEF from
    <3>2. Asking(e, "prefill", from, to) = a
      BY DEF from
    <3>3. QED BY <2>2, <2>6, <3>1, <3>2, AskingMarks
  <2>8. a.route \in Route
    <3>1. e.inflight \in BOOLEAN
      BY <2>6, RouteFields
    <3>2. [e EXCEPT !.inflight = TRUE] \in Route
      BY <2>6 DEF Route
    <3>3. QED BY <3>2 DEF Asking
  <2> DEFINE t == a.route
  <2>9. /\ t.mode = r.mode /\ t.prefill /\ t.boundary = to /\ t.generation = r.generation
        /\ t.buffer = r.buffer /\ t.phase = "prefilling" /\ t.retry = NoRequest /\ t.inflight
        /\ SameMarks(r, t)
    BY <1>2, <2>5, <2>7 DEF SameBase, SameMarks
  <2>10. PICK q \in Request : /\ a.asks = {q} /\ q.kind = "prefill" /\ q.from = from
                              /\ q.to = to /\ q.generation = e.generation
    BY <2>7 DEF Sends
  <2> HIDE DEF a, from
  <2>11. AskSound(t, S, s, now, q)
    BY <2>2, <2>4, <2>9, <2>10 DEF AskSound, from
  <2> HIDE DEF t
  <2>12. Enabled(t)
    BY <2>9 DEF Enabled
  <2>13. /\ Batches(t, now) /\ Staged(t, now)
    BY <2>2, <2>9, <2>12 DEF Steady, Batches, Staged, Buffers
  <2>14. \A p \in A : p.generation <= r.generation /\ p.generation # r.generation
    BY <1>2 DEF Steady, Sole
  <2>15. Sole(t, A \cup {q})
    BY <1>1, <2>5, <2>9, <2>10, <2>14 DEF Sole
  <2>16. Asked(t, A \cup {q}, S, s, now)
    BY <2>9, <2>11, <2>14 DEF Asked, StillAwaits
  <2>17. Marks(t, S, s, now)
    <3>1. SUFFICES ASSUME Recovers(t) PROVE Seen(t, S, s, now) /\ Kept(t, S, s)
      BY <2>9 DEF Marks
    <3>2. Seen(r, S, s, now) /\ Kept(r, S, s)
      BY <1>2, <2>9, <3>1 DEF Recovers, Steady, Marks, Fresh
    <3>3. Seen(t, S, s, now)
      BY <2>9, <3>2, SeenSame DEF SameMarks
    <3>4. t \in Route
      BY <2>8 DEF t
    <3>5. From(r, s) <= From(t, s) /\ From(r, s) \in Nat /\ From(t, s) \in Nat
      BY <1>1, <2>2, <2>9, <3>4, FromFacts, FromGrows
    <3>6. r.unverified - 1 \in Int
      BY <1>1
    <3>7. Kept(t, S, s)
      BY <1>1, <2>9, <3>2, <3>5, <3>6, CoveredGrows DEF Kept, SameMarks
    <3>8. QED BY <3>3, <3>7
  <2>18. Steady(t, A \cup {q}, S, s, now)
    BY <2>13, <2>15, <2>16, <2>17 DEF Steady
  <2>19. QED BY <2>1, <2>2, <2>8, <2>9, <2>10, <2>18 DEF t, Slots
<1>3. CASE ~(r.phase = "prefilling" /\ r.prefill /\ ~r.inflight)
  <2>1. h = Quiet(r)
    BY <1>3 DEF StartPrefill
  <2>2. h.route = r /\ h.asks = {} /\ A \cup {} = A
    BY <2>1 DEF Quiet
  <2>3. QED BY <1>1, <2>2
<1>4. QED BY <1>2, <1>3

\* What a lost transport leaves.
LEMMA LostMarks ==
    ASSUME NEW r, Fit(r), Enabled(r), r.prefill \/ Recovers(r), r.generation < MaxLosses
    PROVE  LET t == Lost(r)
           IN  /\ t \in Route /\ t.mode = r.mode /\ t.prefill = r.prefill
               /\ t.boundary = r.boundary /\ t.generation = r.generation + 1
               /\ t.buffer = r.buffer /\ t.observed = r.observed /\ t.verified = r.verified
               /\ t.phase = "waiting" /\ ~t.inflight /\ t.retry = NoRequest
               /\ Recovers(r) =>
                     LET m == IF r.prefill THEN r.boundary
                              ELSE IF r.verified # 0 THEN r.verified + 1 ELSE r.observed
                     IN  t.unverified = IF m # 0 /\ (r.unverified = 0 \/ m < r.unverified)
                                        THEN m ELSE r.unverified
<1> DEFINE m == IF r.prefill THEN r.boundary
                ELSE IF r.verified # 0 THEN r.verified + 1 ELSE r.observed
           l == LossMark(r)
           g == r.generation + 1
           t == Lost(r)
           e == [l EXCEPT !.generation = g, !.inflight = FALSE,
                          !.retry = NoRequest, !.target = 0, !.phase = "waiting"]
<1>1. r.observed \in 0..MaxSlot /\ r.verified \in 0..MaxSlot /\ r.boundary \in 0..MaxSlot
      /\ r \in Route /\ r.generation \in 0..MaxLosses
  BY RouteFields DEF Fit
<1>2. m \in 0 .. MaxSlot + 1
  BY <1>1
<1>3. l = IF Recovers(r) THEN MarkUnverified(r, m) ELSE r
  BY DEF LossMark
<1> HIDE DEF m
<1>4. /\ l \in Route /\ SameBase(r, l) /\ l.buffer = r.buffer
      /\ l.observed = r.observed /\ l.verified = r.verified
      /\ Recovers(r) => l.unverified = IF m # 0 /\ (r.unverified = 0 \/ m < r.unverified)
                                       THEN m ELSE r.unverified
  <2>1. CASE Recovers(r)
    BY <1>2, <1>3, <2>1, MarkMarks
  <2>2. CASE ~Recovers(r)
    BY <1>1, <1>3, <2>2 DEF SameBase
  <2>3. QED BY <2>1, <2>2
<1> HIDE DEF l
<1>5. t = e
  BY <1>4 DEF Lost, SameBase, l
<1>6. /\ e.mode = l.mode /\ e.prefill = l.prefill /\ e.boundary = l.boundary
      /\ e.generation = g /\ e.buffer = l.buffer
      /\ e.observed = l.observed /\ e.verified = l.verified /\ e.unverified = l.unverified
      /\ e.phase = "waiting" /\ ~e.inflight /\ e.retry = NoRequest
  BY <1>4 DEF Route
<1>7. t \in Route
  BY LostFacts DEF Fit
<1> HIDE DEF t, e
<1>8. QED BY <1>4, <1>5, <1>6, <1>7 DEF SameBase, t, m

\* A lost transport opens the first slot that may be missing.
LEMMA LostSteady ==
    ASSUME NEW r, Fit(r), r.generation < MaxLosses, NEW n, NEW A \in SUBSET Request,
           NEW S, NEW s \in 0..MaxSlot, Steady(r, A, S, s, n)
    PROVE  LET t == Lost(r)
           IN  Steady(t, A, S, s, n) /\ t.boundary = r.boundary /\ t.buffer = r.buffer
<1> DEFINE t == Lost(r)
<1>1. CASE ~(Enabled(r) /\ (r.prefill \/ Recovers(r)))
  <2>1. t = r
    BY <1>1 DEF Lost
  <2>2. QED BY <2>1
<1>2. CASE Enabled(r) /\ (r.prefill \/ Recovers(r))
  <2> DEFINE m == IF r.prefill THEN r.boundary
                  ELSE IF r.verified # 0 THEN r.verified + 1 ELSE r.observed
  <2>1. /\ t \in Route /\ t.mode = r.mode /\ t.prefill = r.prefill
        /\ t.boundary = r.boundary /\ t.generation = r.generation + 1
        /\ t.buffer = r.buffer /\ t.observed = r.observed /\ t.verified = r.verified
        /\ t.phase = "waiting" /\ ~t.inflight /\ t.retry = NoRequest
        /\ Recovers(r) => t.unverified = IF m # 0 /\ (r.unverified = 0 \/ m < r.unverified)
                                         THEN m ELSE r.unverified
    BY <1>2, LostMarks
  <2> HIDE DEF t
  <2>2. /\ r.observed \in Nat /\ r.verified \in Nat /\ r.boundary \in Nat
        /\ r.unverified \in Nat /\ r.generation \in Nat /\ r \in Route
    BY RouteFields DEF Fit
  <2>3. m \in Nat
    BY <2>2
  <2>4. Batches(t, n)
    BY <2>1 DEF Steady, Batches
  <2>5. Staged(t, n)
    BY <1>2, <2>1 DEF Steady, Staged, Buffers, Enabled
  <2>6. \A q \in A : q.generation <= r.generation
    BY DEF Steady, Sole
  <2>7. \A q \in A : q.generation <= t.generation /\ q.generation # t.generation
    <3>1. \A q \in A : q.generation \in Nat
      BY RequestFields
    <3>2. QED BY <2>1, <2>2, <2>6, <3>1
  <2>8. Sole(t, A)
    BY <2>7 DEF Sole
  <2>9. Asked(t, A, S, s, n)
    BY <2>1 DEF Asked, StillAwaits
  <2>10. Marks(t, S, s, n)
    <3> SUFFICES ASSUME Recovers(t)
                 PROVE  /\ Seen(t, S, s, n)
                        /\ Kept(t, S, s) \/ Fresh(t, s, n)
                        /\ ~t.prefill /\ t.unverified = 0 => t.observed = 0 /\ t.verified = 0
      BY <2>1 DEF Marks
    <3>1. Recovers(r)
      BY <2>1 DEF Recovers
    <3>2. Seen(r, S, s, n) /\ (Kept(r, S, s) \/ Fresh(r, s, n))
      BY <3>1 DEF Steady, Marks
    <3>3. Seen(t, S, s, n)
      BY <2>1, <3>2, SeenSame
    <3>4. ~t.prefill /\ t.unverified = 0 => t.observed = 0 /\ t.verified = 0
      BY <2>1, <2>2, <3>1
    <3>5. CASE Kept(r, S, s)
      <4> DEFINE F == From(r, s)
      <4>1. /\ Covered(S, F, r.verified)
            /\ r.unverified = 0 /\ s # 0 => Covered(S, F, r.observed)
            /\ r.unverified # 0 => Covered(S, F, r.unverified - 1)
        BY <3>5 DEF Kept
      <4>2. F \in Nat /\ r.boundary <= F /\ From(t, s) = F
        BY <2>1, <2>2, FromFacts DEF From
      <4> HIDE DEF F
      <4>3. ASSUME m # 0, r.unverified = 0 PROVE Covered(S, F, m - 1)
        <5>1. CASE r.prefill
          <6>1. \A x \in Trading : ~(F <= x /\ x <= r.boundary - 1)
            BY <2>2, <4>2 DEF Slots
          <6>2. QED BY <5>1, <6>1 DEF Covered
        <5>2. CASE ~r.prefill /\ r.verified # 0
          <6>1. m - 1 = r.verified
            BY <2>2, <5>2
          <6>2. QED BY <4>1, <6>1
        <5>3. CASE ~r.prefill /\ r.verified = 0
          <6>1. m = r.observed /\ s # 0 /\ r.observed - 1 \in Int
            BY <2>2, <3>2, <4>3, <5>3 DEF Seen
          <6>2. Covered(S, F, r.observed)
            BY <4>1, <4>3, <6>1
          <6>3. QED BY <2>2, <4>2, <6>1, <6>2, CoveredGrows
        <5>4. QED BY <5>1, <5>2, <5>3
      <4>4. ASSUME r.unverified # 0, m < r.unverified PROVE Covered(S, F, m - 1)
        <5>1. m - 1 \in Int /\ r.unverified - 1 \in Int /\ m - 1 <= r.unverified - 1
          BY <2>2, <2>3, <4>4
        <5>2. QED BY <4>1, <4>2, <4>4, <5>1, CoveredGrows
      <4> HIDE DEF m
      <4>5. t.unverified # 0 => Covered(S, F, t.unverified - 1)
        BY <2>1, <3>1, <4>1, <4>3, <4>4
      <4>6. t.unverified = 0 => r.unverified = 0
        BY <2>1, <3>1
      <4>7. Kept(t, S, s)
        BY <2>1, <4>1, <4>2, <4>5, <4>6 DEF Kept
      <4>8. QED BY <3>3, <3>4, <4>7
    <3>6. CASE Fresh(r, s, n)
      <4>1. m = 0
        BY <3>2, <3>6 DEF Fresh, Seen
      <4>2. t.unverified = r.unverified
        BY <2>1, <3>1, <4>1
      <4>3. Buffered(t) = Buffered(r)
        BY <2>1 DEF Buffered
      <4>4. Fresh(t, s, n)
        BY <2>1, <3>6, <4>2, <4>3 DEF Fresh
      <4>5. QED BY <3>3, <3>4, <4>4
    <3>7. QED BY <3>2, <3>5, <3>6
  <2>11. QED BY <2>1, <2>4, <2>5, <2>8, <2>9, <2>10 DEF Steady, t
<1>3. QED BY <1>1, <1>2

\* The start of a route: a prefill, or a loss that was known before.
LEMMA ActivateSound ==
    ASSUME IInv, Sound, Activate
    PROVE  Sound'
<1>1. /\ Fit(route) /\ now \in Slots /\ now >= FirstSlot /\ requests \subseteq Request
      /\ shown \subseteq Slots /\ start \in 0..MaxSlot /\ route.generation = 0
  BY DEF IInv, TypeOK, Activate
<1>2. /\ pc = "new" /\ pc' = "idle" /\ start' = start /\ shown' = shown
      /\ received' = received /\ now' = now
  BY DEF Activate
<1>3. /\ Steady(route, requests, shown, start, now)
      /\ route.retry = NoRequest /\ Enabled(route)
      /\ Whole(route, received, shown, start)
  BY <1>2 DEF Sound
<1>4. PICK lost \in {FALSE} \cup {MaxLosses > 0} :
         LET started == IF lost THEN Quiet(Lost(route)) ELSE StartPrefill(route)
         IN  route' = started.route /\ requests' = started.asks
  BY DEF Activate
<1>5. Steady(route, {}, shown, start, now)
  BY <1>3 DEF Steady, Sole, Asked
<1>6. CASE lost
  <2>1. MaxLosses > 0
    BY <1>4, <1>6
  <2>2. route.generation < MaxLosses
    BY <1>1, <2>1
  <2>3. route' = Lost(route) /\ requests' = {}
    BY <1>4, <1>6 DEF Quiet
  <2>4. /\ Steady(Lost(route), {}, shown, start, now)
        /\ Lost(route).boundary = route.boundary /\ Lost(route).buffer = route.buffer
    BY <1>1, <1>5, <2>2, LostSteady
  <2>5. Whole(Lost(route), received, shown, start)
    BY <1>3, <2>4 DEF Whole, From, Buffered
  <2>6. QED BY <1>2, <2>3, <2>4, <2>5 DEF Sound
<1>7. CASE ~lost
  <2> DEFINE h == StartPrefill(route)
  <2>1. route' = h.route /\ requests' = h.asks
    BY <1>4, <1>7
  <2>2. /\ Steady(h.route, {} \cup h.asks, shown, start, now)
        /\ h.route.boundary \in Nat /\ route.boundary <= h.route.boundary
        /\ h.route \in Route /\ h.route.buffer = route.buffer
    BY <1>1, <1>3, <1>5, PrefillSteady
  <2> HIDE DEF h
  <2>3. Whole(h.route, received, shown, start)
    <3>1. Buffered(h.route) = Buffered(route)
      BY <2>2 DEF Buffered
    <3>2. received \in SUBSET Slots /\ route \in Route
      BY DEF IInv, TypeOK
    <3>3. QED BY <1>1, <1>3, <2>2, <3>1, <3>2, WholeKept
  <2>4. {} \cup h.asks = h.asks
    OBVIOUS
  <2>5. QED BY <1>2, <2>1, <2>2, <2>3, <2>4 DEF Sound
<1>8. QED BY <1>6, <1>7

\* The transport is lost.
LEMMA TransportLostSound ==
    ASSUME IInv, Sound, TransportLost
    PROVE  Sound'
<1>1. /\ Fit(route) /\ requests \subseteq Request /\ start \in 0..MaxSlot
  BY DEF IInv, TypeOK
<1>2. /\ pc = "idle" /\ pc' = "idle" /\ start' = start /\ shown' = shown
      /\ received' = received /\ now' = now /\ requests' = requests
      /\ route.generation < MaxLosses /\ route' = Lost(route)
  BY DEF TransportLost
<1>3. /\ Steady(route, requests, shown, start, now)
      /\ Whole(route, received, shown, start)
  BY DEF Sound
<1>4. /\ Steady(Lost(route), requests, shown, start, now)
      /\ Lost(route).boundary = route.boundary /\ Lost(route).buffer = route.buffer
  BY <1>1, <1>2, <1>3, LostSteady
<1>5. Whole(Lost(route), received, shown, start)
  BY <1>3, <1>4 DEF Whole, From, Buffered
<1>6. QED BY <1>2, <1>4, <1>5 DEF Sound

\* The phase of a route that waits for nothing may change.
LEMMA PhaseSteady ==
    ASSUME NEW r, Fit(r), NEW p, NEW n, NEW A, NEW S, NEW s, Steady(r, A, S, s, n),
           ~r.inflight, r.retry = NoRequest, r.phase \in {"waiting", "recovering", "flushing"},
           p \in {"prefilling", "waiting", "recovering"},
           p = "recovering" => ~r.prefill,
           Recovers(r) /\ p # "prefilling" /\ ~r.prefill /\ r.unverified = 0
              => r.observed = 0 /\ r.verified = 0
    PROVE  LET t == [r EXCEPT !.phase = p]
           IN  /\ Fit(t) /\ Steady(t, A, S, s, n) /\ SameBase(r, t) /\ SameMarks(r, t)
               /\ t.buffer = r.buffer /\ t.phase = p /\ ~t.inflight /\ t.retry = NoRequest
<1> DEFINE t == [r EXCEPT !.phase = p]
<1>1. p \in Phases
  BY DEF Phases
<1>2. Fit(t)
  BY <1>1, PhaseFollows DEF Follows
<1>3. /\ t.mode = r.mode /\ t.prefill = r.prefill /\ t.boundary = r.boundary
      /\ t.generation = r.generation /\ t.target = r.target /\ t.buffer = r.buffer
      /\ t.phase = p /\ (t.inflight <=> r.inflight) /\ t.retry = r.retry
      /\ t.unverified = r.unverified /\ t.observed = r.observed /\ t.verified = r.verified
  BY DEF Fit, Route
<1> HIDE DEF t
<1>4. Batches(t, n)
  BY <1>3 DEF Steady, Batches
<1>5. Staged(t, n)
  BY <1>3 DEF Steady, Staged, Buffers, Enabled
<1>6. Sole(t, A)
  <2>1. Enabled(t) <=> Enabled(r)
    BY <1>3 DEF Enabled
  <2>2. QED BY <1>3, <2>1 DEF Steady, Sole
<1>7. Asked(t, A, S, s, n)
  BY <1>3 DEF Asked, StillAwaits
<1>8. SameBase(r, t) /\ SameMarks(r, t)
  BY <1>3 DEF SameBase, SameMarks
<1>9. Marks(t, S, s, n)
  <2>1. Recovers(t) <=> Recovers(r)
    BY <1>3 DEF Recovers
  <2>2. Recovers(r) => Seen(t, S, s, n) /\ (Kept(t, S, s) \/ Fresh(t, s, n))
    BY <1>3, <1>8, MarksKept DEF Steady, Marks
  <2>3. QED BY <1>3, <2>1, <2>2 DEF Marks
<1>10. QED BY <1>2, <1>3, <1>4, <1>5, <1>6, <1>7, <1>8, <1>9 DEF Steady, t

\* The transport is back.
LEMMA TransportReadySound ==
    ASSUME IInv, Sound, TransportReady
    PROVE  Sound'
<1>1. /\ Fit(route) /\ now \in Slots /\ now >= FirstSlot /\ start \in 0..MaxSlot
      /\ received \in SUBSET Slots /\ route \in Route
  BY DEF IInv, TypeOK
<1>2. /\ pc = "idle" /\ pc' = "idle" /\ start' = start /\ shown' = shown
      /\ received' = received /\ now' = now
      /\ Enabled(route) /\ route.phase = "waiting" /\ ~route.inflight
      /\ LET started == IF route.prefill
                        THEN StartPrefill([route EXCEPT !.phase = "prefilling"])
                        ELSE StartReconnect([route EXCEPT !.phase = "recovering"])
         IN  route' = started.route /\ requests' = requests \cup started.asks
  BY DEF TransportReady
<1>3. /\ Steady(route, requests, shown, start, now)
      /\ Whole(route, received, shown, start)
  BY DEF Sound
<1>4. route.retry = NoRequest
  BY <1>2, <1>3 DEF Steady, Staged
<1>5. CASE route.prefill
  <2> DEFINE t == [route EXCEPT !.phase = "prefilling"]
             h == StartPrefill(t)
  <2>1. route' = h.route /\ requests' = requests \cup h.asks
    BY <1>2, <1>5
  <2>2. /\ Fit(t) /\ Steady(t, requests, shown, start, now)
        /\ SameBase(route, t) /\ t.buffer = route.buffer /\ t.retry = NoRequest
    BY <1>1, <1>2, <1>3, <1>4, PhaseSteady
  <2> HIDE DEF t
  <2>3. Enabled(t) /\ t.boundary = route.boundary
    BY <1>2, <2>2 DEF SameBase, Enabled
  <2>4. /\ Steady(h.route, requests \cup h.asks, shown, start, now)
        /\ h.route.boundary \in Nat /\ t.boundary <= h.route.boundary
        /\ h.route \in Route /\ h.route.buffer = t.buffer
    BY <1>1, <2>2, <2>3, PrefillSteady
  <2> HIDE DEF h
  <2>5. Whole(h.route, received, shown, start)
    <3>1. Buffered(h.route) = Buffered(route)
      BY <2>2, <2>4 DEF Buffered
    <3>2. route.boundary <= h.route.boundary
      BY <2>3, <2>4
    <3>3. QED BY <1>1, <1>3, <2>4, <3>1, <3>2, WholeKept
  <2>6. QED BY <1>2, <2>1, <2>4, <2>5 DEF Sound
<1>6. CASE ~route.prefill
  <2> DEFINE t == [route EXCEPT !.phase = "recovering"]
             h == StartReconnect(t)
  <2>1. route' = h.route /\ requests' = requests \cup h.asks
    BY <1>2, <1>6
  <2>2. Recovers(route) /\ route.unverified = 0 => route.observed = 0 /\ route.verified = 0
    BY <1>2, <1>3, <1>6 DEF Steady, Marks
  <2>3. /\ Fit(t) /\ Steady(t, requests, shown, start, now) /\ t.phase = "recovering"
        /\ SameBase(route, t) /\ t.buffer = route.buffer /\ t.retry = NoRequest
        /\ ~t.inflight
    BY <1>1, <1>2, <1>3, <1>4, <1>6, <2>2, PhaseSteady
  <2> HIDE DEF t
  <2>4. ~t.prefill /\ t.boundary = route.boundary
    BY <1>6, <2>3 DEF SameBase
  <2>5. /\ Steady(h.route, requests \cup h.asks, shown, start, now)
        /\ h.route.boundary = t.boundary /\ h.route.buffer = t.buffer
    BY <1>1, <2>3, <2>4, ReconnectSteady
  <2> HIDE DEF h
  <2>6. Whole(h.route, received, shown, start)
    BY <1>3, <2>3, <2>4, <2>5 DEF Whole, From, Buffered
  <2>7. QED BY <1>2, <2>1, <2>5, <2>6 DEF Sound
<1>7. QED BY <1>5, <1>6
-----------------------------------------------------------------------------
(* The steps that bring bars. *)

\* An overflow ends the continuity of a route.
LEMMA ReleasedSteady ==
    ASSUME NEW r, NEW h, NEW batch, Released(r, h, batch), NEW A, Sole(r, A),
           NEW S, NEW s, NEW n, r.boundary <= n
    PROVE  Steady(h.route, A \cup h.asks, S, s, n)
<1> DEFINE t == h.route
<1>1. /\ t.mode = "live_only" /\ ~t.inflight /\ t.retry = NoRequest /\ t.buffer = <<>>
      /\ t.generation = r.generation /\ t.boundary = r.boundary /\ ~t.prefill
      /\ h.asks = {}
  BY DEF Released
<1> HIDE DEF t
<1>2. ~Enabled(t) /\ ~Recovers(t)
  BY <1>1 DEF Enabled, Recovers
<1>3. Batches(t, n)
  BY <1>1 DEF Batches, Elems
<1>4. Staged(t, n)
  BY <1>1 DEF Staged
<1>5. Sole(t, A)
  BY <1>1, <1>2 DEF Sole
<1>6. Asked(t, A, S, s, n) /\ Marks(t, S, s, n)
  BY <1>1, <1>2 DEF Asked, StillAwaits, Marks
<1>7. A \cup h.asks = A
  BY <1>1
<1>8. QED BY <1>3, <1>4, <1>5, <1>6, <1>7 DEF Steady, t

\* What is held is more by the batch.
LEMMA HeldMore ==
    ASSUME NEW r, NEW t, NEW batch, Elems(t.buffer) = Elems(r.buffer) \cup {batch}
    PROVE  Buffered(t) = Buffered(r) \cup Times(batch)
BY BufferedElems

\* A gap opens the first missing slot.
LEMMA GapSteady ==
    ASSUME NEW r, Fit(r), NEW n \in Nat, NEW batch \in SUBSET Bar, Fine(batch, n),
           NEW h, GapAsked(r, h, batch, n), NEW A \in SUBSET Request,
           NEW S, NEW s \in 0..MaxSlot,
           Batches(r, n), Staged(r, n), Sole(r, A), Recovers(r),
           ~r.inflight, r.retry = NoRequest, ~r.prefill,
           Seen(r, S, s, n), Kept(r, S, s)
    PROVE  /\ Steady(h.route, A \cup h.asks, S, s, n) /\ h.route.boundary = r.boundary
<1> DEFINE t == h.route
           F == From(r, s)
<1>1. /\ t.mode = r.mode /\ t.prefill = r.prefill /\ t.boundary = r.boundary
      /\ t.generation = r.generation
      /\ t.phase = "recovering" /\ t.inflight /\ t.retry = NoRequest
      /\ r.observed # 0 /\ t.observed = r.observed /\ t.verified = r.verified
      /\ t.unverified = IF r.unverified = 0 \/ r.observed + 1 < r.unverified
                        THEN r.observed + 1 ELSE r.unverified
      /\ Elems(t.buffer) = Elems(r.buffer) \cup {batch}
  BY DEF GapAsked, SameBase
<1>2. PICK q \in Request : /\ h.asks = {q} /\ q.kind = "gap" /\ q.from = r.observed + 1
                           /\ q.from <= q.to /\ q.to <= n /\ q.generation = r.generation
  BY DEF GapAsked
<1> HIDE DEF t
<1>3. /\ r.observed \in Nat /\ r.unverified \in Nat /\ r.generation \in Nat /\ r \in Route
  BY RouteFields DEF Fit
<1>4. Enabled(t) /\ Recovers(t) /\ Enabled(r)
  BY <1>1 DEF Enabled, Recovers
<1>5. t.unverified # 0 /\ t.unverified <= r.observed + 1 /\ t.unverified \in Nat
  BY <1>1, <1>3
<1>6. s # 0
  BY <1>1 DEF Seen
<1>7. \A p \in A : p.generation <= r.generation /\ p.generation # r.generation
  BY <1>4 DEF Sole
<1>8. Batches(t, n)
  BY <1>1 DEF Batches
<1>9. Staged(t, n)
  BY <1>1, <1>4 DEF Staged, Buffers
<1>10. Sole(t, A \cup {q})
  BY <1>1, <1>2, <1>3, <1>7 DEF Sole
<1>11. AskSound(t, S, s, n, q)
  BY <1>1, <1>2, <1>3, <1>4, <1>5, <1>6 DEF AskSound
<1>12. Asked(t, A \cup {q}, S, s, n)
  BY <1>1, <1>7, <1>11 DEF Asked, StillAwaits
<1>13. Seen(t, S, s, n)
  BY <1>1, SeenSame
<1>14. F \in Nat /\ From(t, s) = F
  BY <1>1, <1>3, FromFacts DEF From
<1>15. Covered(S, F, t.unverified - 1)
  <2>1. CASE r.unverified = 0
    <3>1. t.unverified - 1 = r.observed
      BY <1>1, <1>3, <2>1
    <3>2. QED BY <1>6, <2>1, <3>1 DEF Kept
  <2>2. CASE r.unverified # 0
    <3>1. Covered(S, F, r.unverified - 1)
      BY <2>2 DEF Kept
    <3>2. t.unverified - 1 <= r.unverified - 1 /\ t.unverified - 1 \in Int
          /\ r.unverified - 1 \in Int
      BY <1>1, <1>3, <1>5, <2>2
    <3> HIDE DEF F
    <3>3. QED BY <1>14, <3>1, <3>2, CoveredGrows
  <2>3. QED BY <2>1, <2>2
<1>16. Kept(t, S, s)
  BY <1>1, <1>5, <1>14, <1>15 DEF Kept
<1>17. Marks(t, S, s, n)
  BY <1>1, <1>5, <1>13, <1>16 DEF Marks
<1>18. QED BY <1>1, <1>2, <1>8, <1>9, <1>10, <1>12, <1>17 DEF Steady, t

\* Bars that are shown without a gap.
LEMMA ShowSteady ==
    ASSUME NEW r, Fit(r), NEW n \in Nat, NEW batch \in SUBSET Bar, Fine(batch, n),
           NEW h, Shows(r, h, batch), NEW A,
           NEW S, NEW s \in 0..MaxSlot,
           Batches(r, n), Staged(r, n), Sole(r, A), ~r.inflight, r.retry = NoRequest,
           Recovers(r) =>
              /\ r.phase = "live" => r.unverified = 0
              /\ r.phase \notin {"waiting", "recovering"}
              /\ Seen(r, S, s, n)
              /\ \/ Kept(r, S, s) /\ (r.unverified = 0 => Gaps(r, batch) = {})
                 \/ /\ s = 0 /\ r.verified = 0 /\ r.unverified # 0
                    /\ \A x \in Times(batch) : r.unverified <= x
    PROVE  LET T == S \cup Times(batch)
               u == Begin(s, batch)
           IN  Steady(h.route, A \cup h.asks, T, u, n) /\ (Recovers(r) => Kept(h.route, T, u))
<1> DEFINE t == Progress(r, batch)
           T == S \cup Times(batch)
           u == Begin(s, batch)
<1>1. h.route = t /\ A \cup h.asks = A
  BY DEF Shows
<1>2. /\ t \in Route /\ SameBase(r, t) /\ SameStage(r, t) /\ t.buffer = r.buffer
      /\ t.unverified = r.unverified
  BY ProgressMarks
<1>3. batch # {} /\ \A x \in Times(batch) : x <= n
  BY NoTimes DEF Fine
<1>4. Recovers(r) => Seen(t, T, u, n)
  BY <1>3, SeenProgress
<1>5. Recovers(r) => Kept(t, T, u)
  <2>1. CASE Kept(r, S, s) /\ (r.unverified = 0 => Gaps(r, batch) = {})
    BY <2>1, KeptProgress
  <2>2. CASE /\ s = 0 /\ r.verified = 0 /\ r.unverified # 0
             /\ \A x \in Times(batch) : r.unverified <= x
    BY <1>3, <2>2, FreshProgress
  <2>3. QED BY <2>1, <2>2
<1> HIDE DEF t, T, u
<1>6. Enabled(t) = Enabled(r) /\ Recovers(t) = Recovers(r)
  BY <1>2 DEF SameBase, Enabled, Recovers
<1>7. Batches(t, n)
  BY <1>2 DEF Batches
<1>8. Staged(t, n)
  BY <1>2, <1>6 DEF Staged, SameBase, SameStage, Buffers
<1>9. Sole(t, A)
  BY <1>2, <1>6 DEF Sole, SameBase, SameStage
<1>10. Asked(t, A, T, u, n)
  BY <1>2 DEF Asked, StillAwaits, SameStage
<1>11. Marks(t, T, u, n)
  BY <1>2, <1>4, <1>5, <1>6 DEF Marks, SameStage
<1>12. Steady(t, A, T, u, n)
  BY <1>7, <1>8, <1>9, <1>10, <1>11 DEF Steady
<1>13. QED BY <1>1, <1>5, <1>12 DEF T, u

\* Bars that are held back.
LEMMA WaitSteady ==
    ASSUME NEW r, Fit(r), NEW n \in Nat, NEW batch \in SUBSET Bar, Fine(batch, n),
           \A x \in Times(batch) : n <= x + 1,
           NEW h, Waits(r, h, batch), Buffers(r), NEW A, NEW S, NEW s,
           Steady(r, A, S, s, n)
    PROVE  /\ Steady(h.route, A \cup h.asks, S, s, n) /\ h.route.boundary = r.boundary
<1> DEFINE t == h.route
<1>1. /\ SameBase(r, t) /\ SameStage(r, t) /\ SameMarks(r, t)
      /\ Elems(t.buffer) = Elems(r.buffer) \cup {batch} /\ h.asks = {}
  BY DEF Waits
<1> HIDE DEF t
<1>2. /\ Enabled(t) = Enabled(r) /\ Recovers(t) = Recovers(r) /\ Buffers(t)
      /\ t.boundary = r.boundary
  BY <1>1 DEF SameBase, SameStage, Enabled, Recovers, Buffers
<1>3. Batches(t, n)
  BY <1>1 DEF Steady, Batches
<1>4. Staged(t, n)
  BY <1>1, <1>2 DEF Steady, Staged, SameBase, SameStage
<1>5. Sole(t, A)
  BY <1>1, <1>2 DEF Steady, Sole, SameBase, SameStage
<1>6. Asked(t, A, S, s, n)
  <2>1. \A q : StillAwaits(t, q) => StillAwaits(r, q)
    BY <1>1 DEF StillAwaits, SameBase, SameStage
  <2>2. \A q : AskSound(r, S, s, n, q) => AskSound(t, S, s, n, q)
    BY <1>1, AskKept
  <2>3. t.retry = r.retry
    BY <1>1 DEF SameStage
  <2>4. QED BY <2>1, <2>2, <2>3 DEF Steady, Asked
<1>7. Buffered(t) = Buffered(r) \cup Times(batch)
  BY <1>1, BufferedElems
<1>8. Fresh(r, s, n) => Fresh(t, s, n)
  <2>1. r.unverified \in Nat /\ Times(batch) \subseteq Slots
    BY RouteFields, BatchFacts DEF Fit
  <2>2. r.unverified < n => \A x \in Times(batch) : r.unverified <= x
    BY <2>1 DEF Slots
  <2>3. QED BY <1>1, <1>7, <2>2 DEF Fresh, SameMarks, SameBase
<1>9. Marks(t, S, s, n)
  <2>1. Kept(r, S, s) => Kept(t, S, s)
    BY <1>1, <1>2, KeptSame
  <2>2. Seen(r, S, s, n) => Seen(t, S, s, n)
    BY <1>1, SeenSame DEF SameMarks
  <2>3. QED BY <1>1, <1>2, <1>8, <2>1, <2>2 DEF Steady, Marks, SameBase, SameStage, SameMarks
<1>10. A \cup h.asks = A
  BY <1>1
<1>11. QED BY <1>2, <1>3, <1>4, <1>5, <1>6, <1>9, <1>10 DEF Steady, t

\* A live batch is of the open slot, of the one before it, or of both.
LEMMA LiveBatchFacts ==
    ASSUME now \in Slots, NEW batch \in LiveBatches
    PROVE  batch \in SUBSET Bar /\ Fine(batch, now) /\ \A x \in Times(batch) : now <= x + 1
<1>1. PICK S \in (SUBSET (Trading \cap (now - 1..now))) \ {{}} :
         batch = {[time |-> t, final |-> t < now] : t \in S}
  BY DEF LiveBatches
<1> DEFINE bar(t) == [time |-> t, final |-> t < now]
<1>2. Times(batch) = S
  <2>1. \A t : bar(t).time = t
    OBVIOUS
  <2>2. batch = {bar(t) : t \in S}
    BY <1>1
  <2> HIDE DEF bar
  <2>3. QED BY <2>1, <2>2 DEF Times
<1>3. S \subseteq Slots /\ S # {} /\ S \subseteq Trading
  BY <1>1
<1>4. batch \in SUBSET Bar
  <2>1. \A t \in Slots : (t < now) \in BOOLEAN
    OBVIOUS
  <2>2. \A t \in Slots : bar(t) \in Bar
    BY <2>1 DEF Bar
  <2>3. batch = {bar(t) : t \in S}
    BY <1>1
  <2> HIDE DEF bar
  <2>4. QED BY <1>3, <2>2, <2>3
<1>5. \A t \in S : t \in Nat /\ now - 1 <= t /\ t <= now
  BY <1>1, <1>3 DEF Slots
<1>6. now \in Nat
  BY DEF Slots
<1>7. \A t, u \in S : t <= now /\ u <= t + 1 /\ now <= t + 1
  BY <1>5, <1>6
<1>8. QED BY <1>2, <1>3, <1>4, <1>7 DEF Fine

\* Live bars are held, asked about or shown.
LEMMA LiveBarsSound ==
    ASSUME IInv, Sound, LiveBars
    PROVE  Sound'
<1>1. /\ Fit(route) /\ route \in Route /\ now \in Slots /\ now \in Nat
      /\ requests \in SUBSET Request
      /\ shown \subseteq Slots /\ start \in 0..MaxSlot /\ received \in SUBSET Slots
  BY DEF IInv, TypeOK, Slots
<1>2. /\ Steady(route, requests, shown, start, now)
      /\ Whole(route, received, shown, start)
  BY DEF Sound
<1>3. /\ pc = "idle" /\ pc' = "idle" /\ now' = now
      /\ \E batch \in LiveBatches :
            LET h == RouteBars(route, batch, FALSE, TRUE)
            IN  /\ route' = h.route /\ requests' = requests \cup h.asks
                /\ Deliver(h.out) /\ received' = received \cup Times(batch)
  BY DEF LiveBars
<1>4. PICK batch \in LiveBatches :
         LET h == RouteBars(route, batch, FALSE, TRUE)
         IN  /\ route' = h.route /\ requests' = requests \cup h.asks
             /\ Deliver(h.out) /\ received' = received \cup Times(batch)
  BY <1>3
<1> DEFINE h == RouteBars(route, batch, FALSE, TRUE)
<1>5. /\ route' = h.route /\ requests' = requests \cup h.asks
      /\ Deliver(h.out) /\ received' = received \cup Times(batch)
  BY <1>4
<1>6. batch \in SUBSET Bar /\ Fine(batch, now) /\ \A x \in Times(batch) : now <= x + 1
  BY <1>1, LiveBatchFacts
<1>7. h.route \in Route /\ h.out \in SUBSET Bar
  BY <1>1, <1>6, RouteBarsLawful DEF Lawful, Follows, Fit
<1>8. /\ shown' = shown \cup Times(h.out) /\ start' = Begin(start, h.out)
      /\ start' \in 0..MaxSlot /\ (start = 0 \/ start = start')
  <2> HIDE DEF h
  <2>1. shown' = shown \cup Times(h.out) /\ start' = Begin(start, h.out)
    BY <1>5, Delivered
  <2>2. Begin(start, h.out) \in 0..MaxSlot /\ (start # 0 => Begin(start, h.out) = start)
    BY <1>1, <1>7, BeginFacts
  <2>3. QED BY <2>1, <2>2
<1>9. \/ ~FALSE /\ Enabled(route) /\ Buffers(route) /\ Waits(route, h, batch)
      \/ Released(route, h, batch)
      \/ /\ ~(Enabled(route) /\ ~FALSE /\ Buffers(route))
         /\ Recovers(route) /\ ~route.inflight /\ GapAsked(route, h, batch, now)
      \/ /\ ~(Enabled(route) /\ ~FALSE /\ Buffers(route)) /\ Shows(route, h, batch)
         /\ TRUE /\ Recovers(route) /\ ~route.inflight => Gaps(route, batch) = {}
  BY <1>1, <1>6, RouteBarsCases
<1> HIDE DEF h
<1>10. ASSUME Steady(h.route, requests \cup h.asks, shown', start', now),
              route.boundary <= h.route.boundary,
              Buffered(route) \cup Times(batch) \subseteq shown' \cup Buffered(h.route)
       PROVE  Sound'
  <2>1. Times(batch) \subseteq Slots
    BY <1>6, BatchFacts
  <2>2. Whole(h.route, received, shown', start')
    BY <1>1, <1>2, <1>7, <1>8, <1>10, WholeKept
  <2>3. Whole(h.route, received', shown', start')
    BY <1>5, <1>10, <2>2 DEF Whole
  <2>4. QED BY <1>3, <1>5, <1>10, <2>3 DEF Sound
<1>11. route.boundary \in Nat
  BY <1>1, RouteFields
<1>12. CASE Buffers(route) /\ Waits(route, h, batch)
  <2>1. /\ Steady(h.route, requests \cup h.asks, shown, start, now)
        /\ h.route.boundary = route.boundary
    BY <1>1, <1>2, <1>6, <1>12, WaitSteady
  <2>a. Buffered(h.route) = Buffered(route) \cup Times(batch)
    BY <1>12, HeldMore DEF Waits
  <2>2. shown' = shown /\ start' = start
    <3>1. h.out = {} /\ {} \in SUBSET Bar
      BY <1>12 DEF Waits
    <3>2. QED BY <1>1, <1>8, <3>1, NoTimes, BeginFacts
  <2>3. QED BY <1>10, <1>11, <2>1, <2>2, <2>a
<1>13. CASE Released(route, h, batch)
  <2>1. Sole(route, requests) /\ route.boundary <= now
    BY <1>2 DEF Steady, Staged
  <2>2. Steady(h.route, requests \cup h.asks, shown', start', now)
    BY <1>13, <2>1, ReleasedSteady
  <2>3. h.route.boundary = route.boundary /\ Buffered(route) \cup Times(batch) \subseteq shown'
    BY <1>8, <1>13 DEF Released
  <2>4. QED BY <1>10, <1>11, <2>2, <2>3
<1>14. ASSUME ~(Enabled(route) /\ Buffers(route))
       PROVE  /\ Batches(route, now) /\ Staged(route, now) /\ Sole(route, requests)
              /\ ~route.inflight /\ route.retry = NoRequest
              /\ Recovers(route) =>
                    /\ ~Buffers(route) /\ ~route.prefill /\ Buffered(route) = {}
                    /\ route.phase = "live" => route.unverified = 0
                    /\ Seen(route, shown, start, now) /\ Kept(route, shown, start)
  <2>1. Batches(route, now) /\ Staged(route, now) /\ Sole(route, requests)
        /\ Marks(route, shown, start, now)
    BY <1>2 DEF Steady
  <2>2. ~route.inflight /\ route.retry = NoRequest
    BY <1>14, <2>1 DEF Staged
  <2>3. ASSUME Recovers(route)
        PROVE  ~Buffers(route) /\ ~route.prefill /\ Buffered(route) = {}
    <3>1. ~Buffers(route)
      BY <1>14, <2>3 DEF Recovers, Enabled
    <3>2. ~route.prefill
      BY <2>1, <3>1 DEF Staged, Buffers
    <3>3. route.buffer = <<>>
      BY <2>1, <3>1 DEF Staged
    <3>4. QED BY <3>1, <3>2, <3>3 DEF Buffered
  <2>4. QED BY <2>1, <2>2, <2>3 DEF Marks, Fresh
<1>15. CASE /\ ~(Enabled(route) /\ Buffers(route))
            /\ Recovers(route) /\ GapAsked(route, h, batch, now)
  <2>1. /\ Steady(h.route, requests \cup h.asks, shown, start, now)
        /\ h.route.boundary = route.boundary
    <3>1. /\ Batches(route, now) /\ Staged(route, now) /\ Sole(route, requests)
          /\ ~route.inflight /\ route.retry = NoRequest /\ ~route.prefill
          /\ Seen(route, shown, start, now) /\ Kept(route, shown, start)
      BY <1>14, <1>15
    <3>2. Recovers(route) /\ GapAsked(route, h, batch, now)
      BY <1>15
    <3>3. QED BY <1>1, <1>6, <3>1, <3>2, GapSteady
  <2>a. Buffered(h.route) = Buffered(route) \cup Times(batch)
    BY <1>15, HeldMore DEF GapAsked
  <2>2. shown' = shown /\ start' = start
    <3>1. h.out = {} /\ {} \in SUBSET Bar
      BY <1>15 DEF GapAsked
    <3>2. QED BY <1>1, <1>8, <3>1, NoTimes, BeginFacts
  <2>3. QED BY <1>10, <1>11, <2>1, <2>2, <2>a
<1>16. CASE /\ ~(Enabled(route) /\ Buffers(route)) /\ Shows(route, h, batch)
            /\ Recovers(route) /\ ~route.inflight => Gaps(route, batch) = {}
  <2>1. h.out = batch
    BY <1>16 DEF Shows
  <2>2. Recovers(route) =>
              /\ route.phase = "live" => route.unverified = 0
              /\ route.phase \notin {"waiting", "recovering"}
              /\ Seen(route, shown, start, now)
              /\ Kept(route, shown, start) /\ (route.unverified = 0 => Gaps(route, batch) = {})
    BY <1>14, <1>16 DEF Buffers
  <2>3. Steady(h.route, requests \cup h.asks, shown \cup Times(batch),
               Begin(start, batch), now)
    BY <1>1, <1>6, <1>14, <1>16, <2>2, ShowSteady
  <2>a. SameBase(route, h.route) /\ h.route.buffer = route.buffer
    BY <1>1, <1>6, <1>16, ProgressMarks DEF Shows
  <2>4. Buffered(h.route) = Buffered(route)
    BY <2>a DEF Buffered
  <2>5. QED BY <1>8, <1>10, <1>11, <2>1, <2>3, <2>4, <2>a DEF SameBase
<1>17. QED BY <1>9, <1>12, <1>13, <1>15, <1>16

\* A route without its first batch.
Popped(r) ==
    [r EXCEPT !.buffer = Tail(@),
              !.items = IF @ >= Cardinality(Head(r.buffer))
                        THEN @ - Cardinality(Head(r.buffer)) ELSE 0]

\* What is left of the buffer and of the route without it.
LEMMA PoppedFacts ==
    ASSUME NEW r, Fit(r), r.buffer # <<>>
    PROVE  /\ Head(r.buffer) \in SUBSET Bar
           /\ Fit(Popped(r)) /\ SameBase(r, Popped(r)) /\ SameStage(r, Popped(r))
           /\ SameMarks(r, Popped(r))
           /\ Elems(r.buffer) = Elems(Popped(r).buffer) \cup {Head(r.buffer)}
           /\ Buffered(r) = Buffered(Popped(r)) \cup Times(Head(r.buffer))
<1> DEFINE batch == Head(r.buffer)
           rest  == Tail(r.buffer)
           n     == IF r.items >= Cardinality(batch) THEN r.items - Cardinality(batch) ELSE 0
           p     == [r EXCEPT !.buffer = rest, !.items = n]
<1>1. r.buffer \in Seq(SUBSET Bar) /\ r.items \in Nat
  BY RouteFields DEF Fit
<1>2. batch \in SUBSET Bar /\ rest \in Seq(SUBSET Bar)
  <2> DEFINE S == SUBSET Bar
  <2>1. r.buffer \in Seq(S)
    BY <1>1
  <2> HIDE DEF S
  <2>2. Head(r.buffer) \in S /\ Tail(r.buffer) \in Seq(S)
    BY <2>1
  <2>3. QED BY <2>2 DEF S
<1>3. Elems(r.buffer) = Elems(rest) \cup {batch}
  <2>1. {} \in SUBSET Bar
    OBVIOUS
  <2>2. QED BY <1>1, <2>1, ElemsFacts
<1>4. Popped(r) = p
  BY DEF Popped
<1> HIDE DEF batch, rest
<1>5. n \in Nat
  BY <1>1, <1>2, BatchFacts
<1> HIDE DEF n
<1>6. /\ p.mode = r.mode /\ p.prefill = r.prefill /\ p.boundary = r.boundary
      /\ p.generation = r.generation /\ p.target = r.target /\ p.buffer = rest
      /\ p.phase = r.phase /\ p.inflight = r.inflight /\ p.retry = r.retry
      /\ p.unverified = r.unverified /\ p.observed = r.observed /\ p.verified = r.verified
  BY DEF Fit, Route
<1>7. p \in Route
  BY <1>2, <1>5 DEF Fit, Route
<1> HIDE DEF p
<1>8. Fit(p)
  BY <1>6, <1>7, KeptFollows DEF Follows
<1>9. Elems(r.buffer) = Elems(p.buffer) \cup {batch}
  BY <1>3, <1>6
<1>10. Buffered(r) = Buffered(p) \cup Times(batch)
  BY <1>9, HeldMore
<1>11. QED
  BY <1>2, <1>4, <1>6, <1>8, <1>9, <1>10 DEF SameBase, SameStage, SameMarks, batch

\* One round of the release.
LEMMA FlushOneSound ==
    ASSUME IInv, Sound, FlushOne
    PROVE  Sound'
<1> DEFINE batch == Head(route.buffer)
           kept  == {b \in batch : b.time > flush.upto}
           r     == Popped(route)
           h     == RouteBars(r, kept, TRUE, flush.usable)
<1>1. /\ Fit(route) /\ route \in Route /\ now \in Slots /\ now \in Nat
      /\ requests \in SUBSET Request
      /\ shown \subseteq Slots /\ start \in 0..MaxSlot /\ received \in SUBSET Slots
      /\ flush.usable \in BOOLEAN /\ flush.upto \in 0..MaxSlot
  BY DEF IInv, TypeOK, Slots
<1>2. /\ pc = "flush" /\ route.buffer # <<>> /\ route' = h.route
      /\ requests' = requests \cup h.asks /\ Deliver(h.out)
      /\ pc' = (IF h.asks # {} THEN "idle" ELSE "flush")
      /\ flush' = flush /\ now' = now /\ received' = received
  BY DEF FlushOne, Popped
<1>3. /\ Steady(route, requests, shown, start, now)
      /\ Releases(route, flush, shown, start)
      /\ Whole(route, received, shown, start)
  BY <1>2 DEF Sound
<1>4. /\ batch \in SUBSET Bar /\ Fit(r) /\ SameBase(route, r) /\ SameStage(route, r)
      /\ SameMarks(route, r)
      /\ Elems(route.buffer) = Elems(r.buffer) \cup {batch}
      /\ Buffered(route) = Buffered(r) \cup Times(batch)
  BY <1>1, <1>2, PoppedFacts
<1> HIDE DEF r, batch
<1>5. /\ kept \in SUBSET Bar /\ Times(kept) \subseteq Times(batch)
      /\ \A t \in Times(batch) : t <= flush.upto \/ t \in Times(kept)
      /\ \A t \in Times(kept) : t > flush.upto
  <2>1. \A b \in batch : b.time \in Nat
    BY <1>4 DEF Bar, Slots
  <2>2. QED BY <1>1, <1>4, <2>1 DEF Times
<1> HIDE DEF kept
<1>6. h.route \in Route /\ h.out \in SUBSET Bar
  BY <1>1, <1>4, <1>5, RouteBarsLawful DEF Lawful, Follows, Fit
<1> HIDE DEF h
<1>7. /\ shown' = shown \cup Times(h.out) /\ start' = Begin(start, h.out)
      /\ start' \in 0..MaxSlot /\ (start = 0 \/ start = start')
  <2>1. shown' = shown \cup Times(h.out) /\ start' = Begin(start, h.out)
    BY <1>2, Delivered
  <2>2. Begin(start, h.out) \in 0..MaxSlot /\ (start # 0 => Begin(start, h.out) = start)
    BY <1>1, <1>6, BeginFacts
  <2>3. QED BY <2>1, <2>2
<1>8. /\ Fine(batch, now) /\ Batches(r, now) /\ Staged(r, now) /\ Sole(r, requests)
      /\ r.boundary = route.boundary /\ r.boundary \in Nat /\ Recovers(r) = Recovers(route)
      /\ ~r.inflight /\ r.retry = NoRequest /\ ~r.prefill
  <2>1. Fine(batch, now) /\ Batches(r, now)
    BY <1>3, <1>4 DEF Steady, Batches
  <2>2. Buffers(r)
    BY <1>2, <1>3, <1>4 DEF Steady, Staged, Buffers, SameStage
  <2>3. Enabled(r) = Enabled(route) /\ Recovers(r) = Recovers(route)
    BY <1>4 DEF SameBase, Enabled, Recovers
  <2>4. Staged(r, now)
    BY <1>3, <1>4, <2>2, <2>3 DEF Steady, Staged, SameBase, SameStage
  <2>5. Sole(r, requests)
    BY <1>3, <1>4, <2>3 DEF Steady, Sole, SameBase, SameStage
  <2>6. ~r.inflight /\ r.retry = NoRequest /\ ~r.prefill
    BY <1>3, <1>4 DEF Releases, SameBase, SameStage
  <2>7. r.boundary \in Nat
    BY <1>1, <1>4, RouteFields DEF SameBase
  <2>8. QED BY <1>4, <2>1, <2>3, <2>4, <2>5, <2>6, <2>7 DEF SameBase
<1>9. Recovers(r) =>
         /\ r.phase = "flushing" /\ (r.unverified = 0 => flush.usable)
         /\ Seen(r, shown, start, now)
         /\ \/ Kept(r, shown, start)
            \/ flush.upto = 0 /\ Fresh(route, start, now)
  <2>1. SUFFICES ASSUME Recovers(r)
                 PROVE  /\ r.phase = "flushing" /\ (r.unverified = 0 => flush.usable)
                        /\ Seen(r, shown, start, now)
                        /\ \/ Kept(r, shown, start)
                           \/ flush.upto = 0 /\ Fresh(route, start, now)
    OBVIOUS
  <2>2. /\ route.phase = "flushing" /\ (route.unverified = 0 => flush.usable)
        /\ flush.upto # 0 => Kept(route, shown, start)
        /\ Seen(route, shown, start, now)
        /\ Kept(route, shown, start) \/ Fresh(route, start, now)
    BY <1>3, <1>8, <2>1 DEF Releases, Steady, Marks
  <2>3. Kept(route, shown, start) => Kept(r, shown, start)
    BY <1>4, <1>8, KeptSame
  <2>4. Seen(r, shown, start, now)
    BY <1>4, <2>2, SeenSame DEF SameMarks
  <2>5. QED BY <1>4, <2>2, <2>3, <2>4 DEF SameMarks, SameStage
<1>10. /\ From(route, start) \in Nat /\ From(r, start) = From(route, start)
       /\ \A t \in Buffered(route) :
             From(route, start) <= t => t \in shown \cup Buffered(r) \cup Times(kept)
  <2>1. From(route, start) \in Nat /\ From(r, start) = From(route, start)
    BY <1>1, <1>8, FromFacts DEF From
  <2>2. \A t \in Buffered(route) : From(route, start) <= t /\ t <= flush.upto => t \in shown
    BY <1>3 DEF Releases
  <2>3. QED BY <1>4, <1>5, <2>1, <2>2
<1>11. ASSUME Steady(h.route, requests \cup h.asks, shown', start', now),
              route.boundary <= h.route.boundary,
              Buffered(r) \cup Times(kept) \subseteq shown' \cup Buffered(h.route),
              h.asks = {} => Releases(h.route, flush, shown', start')
       PROVE  Sound'
  <2>1. \A t \in Buffered(route) : From(route, start) <= t => t \in shown' \cup Buffered(h.route)
    BY <1>7, <1>10, <1>11
  <2>2. Whole(h.route, received, shown', start')
    BY <1>1, <1>3, <1>6, <1>7, <1>11, <2>1, WholeKept
  <2>3. pc' = "flush" => h.asks = {}
    BY <1>2
  <2>4. pc' # "new"
    BY <1>2
  <2>5. Steady(route', requests', shown', start', now')
    BY <1>2, <1>11
  <2>6. pc' = "flush" => Releases(route', flush', shown', start')
    BY <1>2, <1>11, <2>3
  <2>7. Whole(route', received', shown', start')
    BY <1>2, <2>2
  <2>8. QED BY <2>4, <2>5, <2>6, <2>7 DEF Sound
\* What is left of the buffer lies beyond the release as before.
<1>12. ASSUME NEW t \in Route, Buffered(t) \subseteq Buffered(r), t.boundary = r.boundary,
              ~t.inflight, t.retry = NoRequest, ~t.prefill,
              Recovers(t) => /\ t.phase = "flushing" /\ (t.unverified = 0 => flush.usable)
                             /\ flush.upto # 0 => Kept(t, shown', start')
       PROVE  Releases(t, flush, shown', start')
  <2>1. From(route, start) <= From(t, start') /\ From(t, start') \in Nat
        /\ From(route, start) \in Nat
    BY <1>1, <1>7, <1>8, <1>12, FromFacts, FromGrows
  <2>2. \A x \in Buffered(t) : x \in Nat /\ x \in Buffered(route)
    <3>1. Buffered(t) \subseteq Slots
      BY <1>12, BufferedFacts
    <3>2. QED BY <1>4, <1>12, <3>1 DEF Slots
  <2>3. \A x \in Buffered(route) : From(route, start) <= x /\ x <= flush.upto => x \in shown
    BY <1>3 DEF Releases
  <2>4. \A x \in Buffered(t) : From(t, start') <= x => From(route, start) <= x
    BY <2>1, <2>2
  <2>5. \A x \in Buffered(t) : From(t, start') <= x /\ x <= flush.upto => x \in shown'
    BY <1>7, <2>2, <2>3, <2>4
  <2>6. QED BY <1>12, <2>5 DEF Releases
<1>13. CASE kept = {}
  <2>1. h.route = r /\ h.asks = {} /\ h.out = {}
    BY <1>13 DEF RouteBars, h
  <2>2. shown' = shown /\ start' = start
    <3>1. {} \in SUBSET Bar
      OBVIOUS
    <3>2. QED BY <1>1, <1>7, <2>1, <3>1, NoTimes, BeginFacts
  <2>3. Recovers(r) => Kept(r, shown, start)
    <3>1. flush.upto # 0
      <4>1. Times(batch) # {} /\ Times(batch) \subseteq Slots
        BY <1>4, <1>8, BatchFacts DEF Fine
      <4>2. Times(kept) = {}
        BY <1>13, NoTimes
      <4>3. PICK t \in Times(batch) : t <= flush.upto
        BY <1>5, <4>1, <4>2
      <4>4. QED BY <4>1, <4>3 DEF Slots
    <3>2. QED BY <1>9, <3>1
  <2>4. Marks(r, shown, start, now)
    BY <1>9, <2>3 DEF Marks
  <2>5. Asked(r, requests, shown, start, now)
    BY <1>8 DEF Asked, StillAwaits
  <2>6. Steady(r, requests, shown, start, now)
    BY <1>8, <2>4, <2>5 DEF Steady
  <2>7. Releases(r, flush, shown, start)
    BY <1>6, <1>8, <1>9, <1>12, <2>1, <2>2, <2>3
  <2>8. requests \cup {} = requests
    OBVIOUS
  <2>9. QED BY <1>8, <1>11, <1>13, <2>1, <2>2, <2>6, <2>7, <2>8, NoTimes
<1>14. CASE kept # {}
  <2>1. Fine(kept, now)
    <3>1. Times(kept) # {}
      BY <1>5, <1>14, BatchFacts
    <3>2. QED BY <1>5, <1>8, <3>1 DEF Fine
  <2>2. \/ ~TRUE /\ Enabled(r) /\ Buffers(r) /\ Waits(r, h, kept)
        \/ Released(r, h, kept)
        \/ /\ ~(Enabled(r) /\ ~TRUE /\ Buffers(r))
           /\ Recovers(r) /\ ~r.inflight /\ GapAsked(r, h, kept, now)
        \/ /\ ~(Enabled(r) /\ ~TRUE /\ Buffers(r)) /\ Shows(r, h, kept)
           /\ flush.usable /\ Recovers(r) /\ ~r.inflight => Gaps(r, kept) = {}
    BY <1>1, <1>4, <1>5, <2>1, RouteBarsCases DEF h
  <2>3. CASE Released(r, h, kept)
    <3>1. r.boundary <= now
      BY <1>8 DEF Staged
    <3>2. Steady(h.route, requests \cup h.asks, shown', start', now)
      BY <1>8, <2>3, <3>1, ReleasedSteady
    <3>3. h.route.boundary = route.boundary /\ Buffered(r) \cup Times(kept) \subseteq shown'
      BY <1>7, <1>8, <2>3 DEF Released
    <3>4. Releases(h.route, flush, shown', start')
      <4>1. /\ ~h.route.inflight /\ h.route.retry = NoRequest /\ ~h.route.prefill
            /\ ~Recovers(h.route) /\ h.route.buffer = <<>> /\ h.route.boundary = r.boundary
        BY <2>3 DEF Released, Recovers
      <4>2. Buffered(h.route) \subseteq Buffered(r)
        BY <4>1 DEF Buffered
      <4>3. QED BY <1>6, <1>12, <4>1, <4>2
    <3>5. QED BY <1>8, <1>11, <3>2, <3>3, <3>4
  <2>4. CASE Recovers(r) /\ GapAsked(r, h, kept, now)
    <3>1. Kept(r, shown, start) /\ Seen(r, shown, start, now)
      <4>1. r.observed # 0
        BY <2>4 DEF GapAsked
      <4>2. start # 0
        BY <1>9, <2>4, <4>1 DEF Seen
      <4>3. QED BY <1>9, <2>4, <4>2 DEF Fresh
    <3>2. /\ Steady(h.route, requests \cup h.asks, shown, start, now)
          /\ h.route.boundary = r.boundary
      <4>1. /\ Fit(r) /\ now \in Nat /\ kept \in SUBSET Bar /\ requests \in SUBSET Request
            /\ start \in 0..MaxSlot
            /\ Batches(r, now) /\ Staged(r, now) /\ Sole(r, requests)
            /\ ~r.inflight /\ r.retry = NoRequest /\ ~r.prefill
        BY <1>1, <1>4, <1>5, <1>8
      <4>2. Fine(kept, now) /\ Recovers(r) /\ GapAsked(r, h, kept, now)
        BY <2>1, <2>4
      <4>3. QED BY <3>1, <4>1, <4>2, GapSteady
    <3>3. Buffered(h.route) = Buffered(r) \cup Times(kept)
      BY <2>4, HeldMore DEF GapAsked
    <3>4. shown' = shown /\ start' = start
      <4>1. h.out = {} /\ {} \in SUBSET Bar
        BY <2>4 DEF GapAsked
      <4>2. QED BY <1>1, <1>7, <4>1, NoTimes, BeginFacts
    <3>5. h.asks # {}
      BY <2>4 DEF GapAsked
    <3>6. QED BY <1>8, <1>11, <3>2, <3>3, <3>4, <3>5
  <2>5. CASE /\ Shows(r, h, kept)
             /\ flush.usable /\ Recovers(r) /\ ~r.inflight => Gaps(r, kept) = {}
    <3>1. h.out = kept /\ h.asks = {} /\ h.route = Progress(r, kept)
      BY <2>5 DEF Shows
    <3>2. ASSUME Recovers(r), flush.upto = 0, Fresh(route, start, now)
          PROVE  /\ start = 0 /\ r.verified = 0 /\ r.unverified # 0
                 /\ \A x \in Times(kept) : r.unverified <= x
      <4>1. route.unverified \in Slots
        BY <1>1, <3>2, BufferedFacts DEF Fresh
      <4>2. \A x \in Times(kept) : x \in Buffered(route)
        BY <1>4, <1>5
      <4>3. QED BY <1>4, <3>2, <4>1, <4>2 DEF Fresh, SameMarks, Slots
    <3>3. Recovers(r) =>
              /\ r.phase = "live" => r.unverified = 0
              /\ r.phase \notin {"waiting", "recovering"}
              /\ Seen(r, shown, start, now)
              /\ \/ Kept(r, shown, start) /\ (r.unverified = 0 => Gaps(r, kept) = {})
                 \/ /\ start = 0 /\ r.verified = 0 /\ r.unverified # 0
                    /\ \A x \in Times(kept) : r.unverified <= x
      BY <1>8, <1>9, <2>5, <3>2
    <3>4. /\ Steady(h.route, requests \cup h.asks, shown \cup Times(kept),
                    Begin(start, kept), now)
          /\ Recovers(r) => Kept(h.route, shown \cup Times(kept), Begin(start, kept))
      BY <1>1, <1>4, <1>5, <1>8, <2>1, <2>5, <3>3, ShowSteady
    <3>5. /\ SameBase(r, h.route) /\ SameStage(r, h.route) /\ h.route.buffer = r.buffer
          /\ h.route.unverified = r.unverified
      BY <1>4, <1>5, <3>1, ProgressMarks
    <3>6. Buffered(h.route) = Buffered(r)
      BY <3>5 DEF Buffered
    <3>7. shown' = shown \cup Times(kept) /\ start' = Begin(start, kept)
      BY <1>7, <3>1
    <3>8. Releases(h.route, flush, shown', start')
      <4>1. Recovers(h.route) => Recovers(r)
        BY <3>5 DEF SameBase, Recovers
      <4>2. Recovers(h.route) =>
               /\ h.route.phase = "flushing" /\ (h.route.unverified = 0 => flush.usable)
               /\ flush.upto # 0 => Kept(h.route, shown', start')
        BY <1>9, <3>4, <3>5, <3>7, <4>1 DEF SameStage
      <4>3. /\ ~h.route.inflight /\ h.route.retry = NoRequest /\ ~h.route.prefill
            /\ h.route.boundary = r.boundary
        BY <1>8, <3>5 DEF SameStage, SameBase
      <4>4. QED BY <1>6, <1>12, <3>6, <4>2, <4>3
    <3>9. QED BY <1>8, <1>11, <3>4, <3>5, <3>6, <3>7, <3>8 DEF SameBase
  <2>6. QED BY <2>2, <2>3, <2>4, <2>5
<1>15. QED BY <1>13, <1>14
-----------------------------------------------------------------------------
(* The answers. *)

\* A complete answer has every bar of its range, another one some of them.
LEMMA ResultTimes ==
    ASSUME NEW q \in Request, NEW result \in Results(q)
    PROVE  /\ Times(result.bars) \subseteq Trading \cap (q.from..q.to)
           /\ result.kind = "complete" => Times(result.bars) = Trading \cap (q.from..q.to)
<1> DEFINE full == {BarsOf(q, FALSE)} \cup (IF q.to < now THEN {BarsOf(q, TRUE)} ELSE {})
           T == Trading \cap (q.from..q.to)
<1>1. \A closed \in BOOLEAN : Times(BarsOf(q, closed)) = T
  <2> TAKE closed \in BOOLEAN
  <2> DEFINE bar(t) == [time |-> t, final |-> q.kind # "prefill" \/ t < q.to \/ closed]
  <2>1. \A t : bar(t).time = t
    OBVIOUS
  <2>2. BarsOf(q, closed) = {bar(t) : t \in T}
    BY DEF BarsOf
  <2> HIDE DEF bar, T
  <2>3. QED BY <2>1, <2>2 DEF Times
<1>2. \A bars \in full : Times(bars) = T
  BY <1>1
<1>3. \/ result.bars = {} /\ result.kind # "complete"
      \/ result.bars \in full
      \/ result.kind # "complete" /\ result.bars \in UNION {SUBSET bars : bars \in full}
  BY DEF Results
<1> HIDE DEF full, T
<1>4. \A bars \in UNION {SUBSET b : b \in full} : Times(bars) \subseteq T
  <2> TAKE bars \in UNION {SUBSET b : b \in full}
  <2>1. PICK b \in full : bars \subseteq b
    OBVIOUS
  <2>2. Times(bars) \subseteq Times(b)
    BY <2>1 DEF Times
  <2>3. QED BY <1>2, <2>1, <2>2
<1>5. QED BY <1>2, <1>3, <1>4, NoTimes DEF T

\* What a final answer makes of a route r that awaited it.
Judgement(r, q, usable) ==
    Judged([r EXCEPT !.inflight = FALSE, !.phase = "flushing"], q, usable)

\* A usable answer closes its range, if that covers the earliest open slot; another
\* one opens it.
Judges(r, q, usable, g) ==
    /\ Fit(g) /\ g.mode = r.mode /\ g.boundary = r.boundary
    /\ g.generation = r.generation /\ g.target = r.target /\ g.buffer = r.buffer
    /\ g.observed = r.observed /\ g.retry = r.retry /\ g.phase = "flushing"
    /\ ~g.inflight /\ ~g.prefill
    /\ ~usable => /\ g.verified = r.verified
                  /\ g.unverified = IF r.unverified = 0 THEN q.from ELSE r.unverified
    /\ usable /\ q.kind = "prefill" =>
          g.verified = r.verified /\ g.unverified = r.unverified
    /\ usable /\ q.kind # "prefill" /\ r.unverified # 0
       /\ (q.from > r.unverified \/ q.to < r.unverified) =>
          g.verified = r.verified /\ g.unverified = r.unverified
    /\ usable /\ q.kind # "prefill"
       /\ ~(r.unverified # 0 /\ (q.from > r.unverified \/ q.to < r.unverified)) =>
          /\ g.verified = Latest({r.verified, q.to})
          /\ g.unverified = IF q.kind = "reconnect" /\ r.target > q.to
                            THEN q.to + 1 ELSE 0

LEMMA JudgedMarks ==
    ASSUME NEW r, Fit(r), NEW q \in Request, NEW usable \in BOOLEAN,
           q.kind # "prefill" => ~r.prefill
    PROVE  Judges(r, q, usable, Judgement(r, q, usable))
<1> DEFINE f == [r EXCEPT !.inflight = FALSE, !.phase = "flushing"]
           s == IF q.kind = "prefill" THEN [f EXCEPT !.prefill = FALSE] ELSE f
           g == Judged(f, q, usable)
<1>1. r \in Route /\ q.from \in Slots /\ q.to \in Slots /\ q.kind \in Kinds
  BY RequestFields DEF Fit
<1>2. Fit(f)
  <2>1. f = [r EXCEPT !.phase = "flushing", !.inflight = FALSE]
    BY <1>1 DEF Route
  <2>2. Follows(r, [r EXCEPT !.phase = "flushing", !.inflight = FALSE])
    BY PhaseFollows DEF Phases
  <2>3. QED BY <2>1, <2>2 DEF Follows
<1>3. /\ f.mode = r.mode /\ f.prefill = r.prefill /\ f.boundary = r.boundary
      /\ f.generation = r.generation /\ f.target = r.target /\ f.buffer = r.buffer
      /\ f.phase = "flushing" /\ ~f.inflight /\ f.retry = r.retry /\ SameMarks(r, f)
  BY <1>1 DEF Route, SameMarks
<1> HIDE DEF f
<1>0. g = Judgement(r, q, usable)
  BY DEF Judgement, f
<1>4. Fit(g)
  BY <1>2, JudgedFacts
<1>5. /\ Fit(s) /\ s.mode = r.mode /\ ~s.prefill /\ s.boundary = r.boundary
      /\ s.generation = r.generation /\ s.target = r.target /\ s.buffer = r.buffer
      /\ s.phase = "flushing" /\ ~s.inflight /\ s.retry = r.retry /\ SameMarks(r, s)
  <2>1. CASE q.kind = "prefill"
    <3> DEFINE e == [f EXCEPT !.prefill = FALSE]
    <3>1. Fit(e)
      BY <1>2, PhaseFollows DEF Follows, Phases
    <3>2. f \in Route
      BY <1>2 DEF Fit
    <3>3. /\ e.mode = f.mode /\ ~e.prefill /\ e.boundary = f.boundary
          /\ e.generation = f.generation /\ e.target = f.target /\ e.buffer = f.buffer
          /\ e.phase = f.phase /\ (e.inflight <=> f.inflight) /\ e.retry = f.retry
          /\ SameMarks(f, e)
      BY <3>2 DEF Route, SameMarks
    <3> HIDE DEF e
    <3>4. s = e
      BY <2>1 DEF e
    <3>5. QED BY <1>3, <3>1, <3>3, <3>4 DEF SameMarks
  <2>2. CASE q.kind # "prefill"
    BY <1>2, <1>3, <2>2
  <2>3. QED BY <2>1, <2>2
<1>6. s \in Route
  BY <1>5 DEF Fit
<1>7. g = IF ~usable
          THEN IF s.unverified = 0 THEN MarkUnverified(s, q.from) ELSE s
          ELSE IF q.kind = "prefill" THEN s
          ELSE RecordVerified(s, q.from, q.to, q.kind = "reconnect" /\ s.target > q.to)
  BY DEF Judged
<1> HIDE DEF s, g
<1>8. CASE ~usable /\ s.unverified = 0
  <2>1. q.from \in 0 .. MaxSlot + 1 /\ q.from # 0
    BY <1>1 DEF Slots
  <2>2. LET t == MarkUnverified(s, q.from)
        IN  /\ t \in Route /\ SameBase(s, t) /\ SameStage(s, t) /\ t.buffer = s.buffer
            /\ t.observed = s.observed /\ t.verified = s.verified
            /\ t.unverified = IF q.from # 0 /\ (s.unverified = 0 \/ q.from < s.unverified)
                              THEN q.from ELSE s.unverified
    BY <1>5, <2>1, MarkMarks
  <2>3. g = MarkUnverified(s, q.from)
    BY <1>7, <1>8
  <2>4. QED BY <1>0, <1>4, <1>5, <1>8, <2>1, <2>2, <2>3
            DEF SameBase, SameStage, SameMarks, Judges
<1>9. CASE (~usable /\ s.unverified # 0) \/ (usable /\ q.kind = "prefill")
  <2>1. g = s
    BY <1>7, <1>9
  <2>2. QED BY <1>0, <1>4, <1>5, <1>9, <2>1 DEF SameMarks, Judges
<1>10. CASE usable /\ q.kind # "prefill"
  <2> DEFINE more == q.kind = "reconnect" /\ s.target > q.to
             v == Latest({s.verified, q.to})
             u == IF more THEN q.to + 1 ELSE 0
             e == [s EXCEPT !.verified = v, !.unverified = u]
  <2>1. g = RecordVerified(s, q.from, q.to, more)
    BY <1>7, <1>10
  <2>2. RecordVerified(s, q.from, q.to, more)
          = IF s.unverified # 0 /\ (q.from > s.unverified \/ q.to < s.unverified) THEN s ELSE e
    BY DEF RecordVerified
  <2>3. /\ e.mode = s.mode /\ e.prefill = s.prefill /\ e.boundary = s.boundary
        /\ e.generation = s.generation /\ e.target = s.target /\ e.buffer = s.buffer
        /\ e.phase = s.phase /\ (e.inflight <=> s.inflight) /\ e.retry = s.retry
        /\ e.observed = s.observed /\ e.verified = v /\ e.unverified = u
    BY <1>6 DEF Route
  <2>4. v = Latest({r.verified, q.to})
        /\ u = IF q.kind = "reconnect" /\ r.target > q.to THEN q.to + 1 ELSE 0
    BY <1>5 DEF SameMarks
  <2> HIDE DEF e, v, u, more
  <2>5. CASE s.unverified # 0 /\ (q.from > s.unverified \/ q.to < s.unverified)
    <3>1. g = s
      BY <2>1, <2>2, <2>5
    <3>2. QED BY <1>0, <1>4, <1>5, <1>10, <2>5, <3>1 DEF SameMarks, Judges
  <2>6. CASE ~(s.unverified # 0 /\ (q.from > s.unverified \/ q.to < s.unverified))
    <3>1. g = e
      BY <2>1, <2>2, <2>6
    <3>2. QED BY <1>0, <1>4, <1>5, <1>10, <2>3, <2>4, <2>6, <3>1 DEF SameMarks, Judges
  <2>7. QED BY <2>5, <2>6
<1>11. QED BY <1>8, <1>9, <1>10

\* The route after the bars of the answer.
Answered(r, q, usable, bars) == Progress(Judgement(r, q, usable), bars)

\* What an answer leaves alone.
LEMMA AnsweredFields ==
    ASSUME NEW r, Fit(r), NEW q \in Request, NEW usable \in BOOLEAN,
           q.kind # "prefill" => ~r.prefill, NEW bars \in SUBSET Bar
    PROVE  LET t == Answered(r, q, usable, bars)
           IN  /\ Fit(t) /\ t.mode = r.mode /\ t.boundary = r.boundary
               /\ t.generation = r.generation /\ t.target = r.target /\ t.buffer = r.buffer
               /\ t.retry = r.retry /\ t.phase = "flushing" /\ ~t.inflight /\ ~t.prefill
               /\ t.unverified = Judgement(r, q, usable).unverified
               /\ t.observed \in {r.observed} \cup Times(bars)
<1> DEFINE g == Judgement(r, q, usable)
           t == Progress(g, bars)
<1>1. /\ Fit(g) /\ g.mode = r.mode /\ g.boundary = r.boundary
      /\ g.generation = r.generation /\ g.target = r.target /\ g.buffer = r.buffer
      /\ g.observed = r.observed /\ g.retry = r.retry /\ g.phase = "flushing"
      /\ ~g.inflight /\ ~g.prefill
  <2>1. Judges(r, q, usable, g)
    BY JudgedMarks
  <2>2. QED BY <2>1 DEF Judges
<1> HIDE DEF g
<1>2. /\ SameBase(g, t) /\ SameStage(g, t) /\ t.buffer = g.buffer
      /\ t.unverified = g.unverified /\ t.observed \in {g.observed} \cup Times(bars)
  BY <1>1, ProgressMarks
<1>3. Fit(t)
  BY <1>1, ProgressFollows DEF Follows
<1> HIDE DEF t
<1>4. QED BY <1>1, <1>2, <1>3 DEF SameBase, SameStage, Answered, t, g

\* The bars of an answer are seen.
LEMMA AnsweredSeen ==
    ASSUME NEW r, Fit(r), NEW q \in Request, NEW usable \in BOOLEAN,
           q.kind # "prefill" => ~r.prefill, NEW bars \in SUBSET Bar,
           NEW S, NEW s \in 0..MaxSlot, NEW n \in Nat, Seen(r, S, s, n),
           Times(bars) \subseteq q.from..q.to, q.to <= n
    PROVE  Seen(Answered(r, q, usable, bars), S \cup Times(bars), Begin(s, bars), n)
<1> DEFINE g == Judgement(r, q, usable)
<1>1. Fit(g) /\ g.observed = r.observed
  <2>1. Judges(r, q, usable, g)
    BY JudgedMarks
  <2>2. QED BY <2>1 DEF Judges
<1> HIDE DEF g
<1>2. Seen(g, S, s, n)
  BY <1>1, SeenSame
<1>3. \A x \in Times(bars) : x <= n
  <2>1. q.to \in Nat /\ q.from \in Nat
    BY RequestFields DEF Slots
  <2>2. QED BY <2>1
<1>4. QED BY <1>1, <1>2, <1>3, SeenProgress DEF Answered, g

\* A prefill shows what lies before the live part.
LEMMA PrefillAnswer ==
    ASSUME NEW r, Fit(r), NEW q \in Request, NEW usable \in BOOLEAN, NEW bars \in SUBSET Bar,
           NEW S, NEW s \in 0..MaxSlot, NEW n \in Nat, Seen(r, S, s, n), Kept(r, S, s),
           q.kind = "prefill", q.from <= q.to, q.to = r.boundary,
           Times(bars) \subseteq q.from..q.to
    PROVE  Kept(Answered(r, q, usable, bars), S \cup Times(bars), Begin(s, bars))
<1> DEFINE g == Judgement(r, q, usable)
<1>1. /\ Fit(g) /\ g.observed = r.observed /\ g.verified = r.verified /\ g.boundary = r.boundary
      /\ g.unverified = IF ~usable /\ r.unverified = 0 THEN q.from ELSE r.unverified
  <2>1. Judges(r, q, usable, g)
    BY JudgedMarks
  <2>2. QED BY <2>1 DEF Judges
<1> HIDE DEF g
<1>2. Seen(g, S, s, n)
  BY <1>1, SeenSame
<1>3. q.from \in Nat /\ q.to \in Nat /\ q.from # 0 /\ r \in Route
  BY RequestFields DEF Slots, Fit
<1>4. Kept(g, S, s)
  <2>1. From(g, s) = From(r, s) /\ From(r, s) \in Nat /\ r.boundary <= From(r, s)
    BY <1>1, <1>3, FromFacts DEF From
  <2>2. Covered(S, From(r, s), q.from - 1)
    <3>1. \A t \in Trading : ~(From(r, s) <= t /\ t <= q.from - 1)
      BY <1>3, <2>1 DEF Slots
    <3>2. QED BY <3>1 DEF Covered
  <2>3. QED BY <1>1, <1>3, <2>1, <2>2 DEF Kept
<1>5. \A x \in Times(bars) : x <= g.boundary
  BY <1>1, <1>3
<1>6. QED BY <1>1, <1>2, <1>4, <1>5, KeptPrefill DEF Answered, g

\* A refused answer shows nothing and closes nothing.
LEMMA RefusedAnswer ==
    ASSUME NEW r, Fit(r), NEW q \in Request, ~r.prefill, r.unverified # 0,
           NEW S, NEW s \in 0..MaxSlot, NEW n, Seen(r, S, s, n),
           Kept(r, S, s) \/ Fresh(r, s, n)
    PROVE  /\ Kept(Answered(r, q, FALSE, {}), S, s) \/ Fresh(Answered(r, q, FALSE, {}), s, n)
           /\ Answered(r, q, FALSE, {}).unverified # 0
<1> DEFINE g == Judgement(r, q, FALSE)
           t == Progress(g, {})
<1>1. /\ Fit(g) /\ g.observed = r.observed /\ g.verified = r.verified /\ g.boundary = r.boundary
      /\ g.unverified = r.unverified /\ g.buffer = r.buffer /\ ~g.prefill
  <2>1. FALSE \in BOOLEAN
    OBVIOUS
  <2>2. Judges(r, q, FALSE, g)
    BY <2>1, JudgedMarks
  <2>3. QED BY <2>2 DEF Judges
<1> HIDE DEF g
<1>2. {} \in SUBSET Bar
  OBVIOUS
<1>3. /\ SameBase(g, t) /\ t.buffer = g.buffer /\ t.unverified = g.unverified
      /\ t.observed \in {g.observed} \cup Times({})
      /\ t.verified = g.verified \/ t.verified \in Times({})
  BY <1>1, <1>2, ProgressMarks
<1> HIDE DEF t
<1>4. SameMarks(r, t) /\ t.boundary = r.boundary /\ t.buffer = r.buffer /\ ~t.prefill
  BY <1>1, <1>3, NoTimes DEF SameMarks, SameBase
<1>5. Kept(t, S, s) \/ Fresh(t, s, n)
  BY <1>4, MarksKept
<1>6. QED BY <1>4, <1>5 DEF Answered, t, g, SameMarks

\* The slots of a complete answer join what was shown before them.
LEMMA AnswerCovers ==
    ASSUME NEW S, NEW q \in Request, NEW bars \in SUBSET Bar,
           Times(bars) = Trading \cap (q.from..q.to), NEW F \in Nat, NEW G \in Nat, F <= G,
           Covered(S, F, q.from - 1)
    PROVE  Covered(S \cup Times(bars), G, q.to)
<1>1. q.from \in Nat /\ q.to \in Nat
  BY RequestFields DEF Slots
<1>2. \A t \in Trading : t \in Nat
  BY DEF Slots
<1>3. QED BY <1>1, <1>2 DEF Covered

\* The answer to a gap closes it when it starts at the earliest open slot.
LEMMA GapAnswer ==
    ASSUME NEW r, Fit(r), NEW q \in Request, NEW bars \in SUBSET Bar,
           NEW S, NEW s \in 0..MaxSlot, NEW n \in Nat, Seen(r, S, s, n), Kept(r, S, s),
           q.kind = "gap", q.from <= q.to, ~r.prefill,
           r.unverified # 0, r.unverified <= q.from, s # 0, r.observed < q.from,
           Times(bars) = Trading \cap (q.from..q.to)
    PROVE  Kept(Answered(r, q, TRUE, bars), S \cup Times(bars), Begin(s, bars))
<1> DEFINE g == Judgement(r, q, TRUE)
           t == Progress(g, bars)
           T == S \cup Times(bars)
           u == Begin(s, bars)
           F == From(r, s)
           G == From(t, u)
<1>0. TRUE \in BOOLEAN
  OBVIOUS
<1>1. /\ Fit(g) /\ g.observed = r.observed /\ g.boundary = r.boundary
      /\ r.unverified < q.from =>
            g.verified = r.verified /\ g.unverified = r.unverified
      /\ r.unverified = q.from =>
            g.verified = Latest({r.verified, q.to}) /\ g.unverified = 0
  <2>1. r.unverified \in Nat /\ q.from \in Nat /\ q.to \in Nat
    BY RequestFields, RouteFields DEF Fit, Slots
  <2>a. r.unverified < q.from => q.from > r.unverified
    BY <2>1
  <2>b. r.unverified = q.from => ~(q.from > r.unverified \/ q.to < r.unverified)
    BY <2>1
  <2>2. /\ Fit(g) /\ g.observed = r.observed /\ g.boundary = r.boundary
        /\ r.unverified # 0 /\ (q.from > r.unverified \/ q.to < r.unverified) =>
              g.verified = r.verified /\ g.unverified = r.unverified
        /\ ~(r.unverified # 0 /\ (q.from > r.unverified \/ q.to < r.unverified)) =>
              g.verified = Latest({r.verified, q.to}) /\ g.unverified = 0
    <3>1. Judges(r, q, TRUE, g)
      BY <1>0, JudgedMarks
    <3>2. QED BY <3>1 DEF Judges
  <2>3. QED BY <2>2, <2>a, <2>b
<1> HIDE DEF g
<1>2. /\ t \in Route /\ t.boundary = g.boundary /\ t.unverified = g.unverified
      /\ t.observed \in {g.observed} \cup Times(bars)
      /\ \/ t.verified = g.verified
         \/ t.verified \in Times(bars) /\ (g.unverified = 0 \/ t.verified < g.unverified)
  BY <1>1, ProgressMarks DEF SameBase
<1>3. /\ r \in Route /\ r.observed \in Nat /\ r.verified \in Nat /\ r.unverified \in Nat
      /\ r.boundary \in Nat /\ q.from \in Nat /\ q.to \in Nat /\ q.to \in 0..MaxSlot
      /\ r.verified \in 0..MaxSlot
  BY RequestFields, RouteFields DEF Fit, Slots
<1>4. u = s /\ S \subseteq T
  BY BeginFacts
<1>5. F \in Nat /\ G \in Nat /\ F <= G
  BY <1>1, <1>2, <1>3, <1>4, FromFacts, FromGrows
<1> HIDE DEF t, u, F, G
<1>6. Covered(S, F, r.verified) /\ Covered(S, F, r.unverified - 1)
  BY DEF Kept, F
<1>7. \A x \in Times(bars) : x \in Nat /\ q.from <= x /\ x <= q.to
  BY <1>3 DEF Slots
<1> HIDE DEF T
<1>8. Covered(T, G, r.verified)
  BY <1>3, <1>4, <1>5, <1>6, CoveredGrows
<1>9. CASE r.unverified < q.from
  <2>1. t.verified = r.verified /\ t.unverified = r.unverified
    BY <1>1, <1>2, <1>3, <1>7, <1>9
  <2>2. r.unverified - 1 \in Int
    BY <1>3
  <2>3. Covered(T, G, r.unverified - 1)
    BY <1>4, <1>5, <1>6, <2>2, CoveredGrows
  <2>4. Kept(t, T, u)
    BY <1>8, <2>1, <2>3 DEF Kept, G
  <2>5. QED BY <2>4 DEF Answered, t, T, u, g
<1>10. CASE r.unverified = q.from
  <2>1. Covered(T, G, q.to)
    BY <1>5, <1>6, <1>10, AnswerCovers DEF T
  <2>2. g.verified \in {r.verified, q.to} /\ t.unverified = 0
    <3>1. {r.verified, q.to} \in SUBSET (0..MaxSlot)
      BY <1>3
    <3>2. QED BY <1>1, <1>2, <1>10, <3>1, LatestFacts
  <2>3. Covered(T, G, t.verified)
    <3>1. CASE t.verified \in {r.verified, q.to}
      BY <1>8, <2>1, <3>1
    <3>2. CASE t.verified \in Times(bars)
      BY <1>3, <1>5, <1>7, <2>1, <3>2, CoveredGrows
    <3>3. QED BY <1>2, <2>2, <3>1, <3>2
  <2>4. Covered(T, G, t.observed)
    <3>1. t.observed \in Nat /\ t.observed <= q.to
      BY <1>1, <1>2, <1>3, <1>7
    <3>2. QED BY <1>3, <1>5, <2>1, <3>1, CoveredGrows
  <2>5. Kept(t, T, u)
    BY <2>2, <2>3, <2>4 DEF Kept, G
  <2>6. QED BY <2>5 DEF Answered, t, T, u, g
<1>11. r.unverified < q.from \/ r.unverified = q.from
  BY <1>3
<1>12. QED BY <1>9, <1>10, <1>11

\* What is shown once a recovery has its answer: everything up to the end of the
\* answered range, and everything behind the target of the recovery.
Restored(r, q, t, T, u) ==
    /\ Kept(t, T, u) /\ Covered(T, From(t, u), q.to)
    /\ r.target > q.to => t.unverified = q.to + 1
    /\ \A x \in Trading : From(t, u) <= x /\ r.target < x /\ x <= t.observed => x \in T

\* A complete answer to a recovery restores its range.
LEMMA ReconnectAnswer ==
    ASSUME NEW r, Fit(r), NEW q \in Request, NEW bars \in SUBSET Bar,
           NEW S, NEW s \in 0..MaxSlot, NEW n \in Nat, Seen(r, S, s, n),
           Kept(r, S, s) \/ Fresh(r, s, n), Buffered(r) \subseteq Trading,
           q.kind = "reconnect", q.from <= q.to, q.to <= r.target, ~r.prefill,
           r.unverified = q.from,
           \A t \in Trading : From(r, s) <= t /\ r.target < t /\ t <= r.observed => t \in S,
           Times(bars) = Trading \cap (q.from..q.to)
    PROVE  Restored(r, q, Answered(r, q, TRUE, bars), S \cup Times(bars), Begin(s, bars))
<1> DEFINE g == Judgement(r, q, TRUE)
           t == Progress(g, bars)
           T == S \cup Times(bars)
           u == Begin(s, bars)
           F == From(r, s)
           G == From(t, u)
<1>0. TRUE \in BOOLEAN /\ q.from \in Nat /\ q.to \in Nat /\ q.from # 0
      /\ ~(q.from > q.from \/ q.to < q.from)
  <2>1. q.from \in Nat /\ q.to \in Nat /\ q.from # 0
    BY RequestFields DEF Slots
  <2>2. QED BY <2>1
<1>1. /\ Fit(g) /\ g.observed = r.observed /\ g.boundary = r.boundary
      /\ g.verified = Latest({r.verified, q.to})
      /\ g.unverified = IF r.target > q.to THEN q.to + 1 ELSE 0
  <2>1. /\ Fit(g) /\ g.observed = r.observed /\ g.boundary = r.boundary
        /\ ~(r.unverified # 0 /\ (q.from > r.unverified \/ q.to < r.unverified)) =>
              /\ g.verified = Latest({r.verified, q.to})
              /\ g.unverified = IF r.target > q.to THEN q.to + 1 ELSE 0
    <3>1. Judges(r, q, TRUE, g)
      BY <1>0, JudgedMarks
    <3>2. QED BY <3>1 DEF Judges
  <2>2. QED BY <1>0, <2>1
<1> HIDE DEF g
<1>2. /\ t \in Route /\ t.boundary = g.boundary /\ t.unverified = g.unverified
      /\ t.observed \in {g.observed} \cup Times(bars)
      /\ t.verified = g.verified \/ t.verified \in Times(bars)
  BY <1>1, ProgressMarks DEF SameBase
<1>3. /\ r \in Route /\ r.observed \in Nat /\ r.verified \in Nat
      /\ r.boundary \in Nat /\ r.target \in Nat /\ q.to \in 0..MaxSlot
      /\ r.verified \in 0..MaxSlot
  BY RequestFields, RouteFields DEF Fit, Slots
<1>4. u \in 0..MaxSlot /\ (s = 0 \/ s = u) /\ S \subseteq T
  BY BeginFacts
<1>5. F \in Nat /\ G \in Nat /\ F <= G /\ u <= G
  BY <1>1, <1>2, <1>3, <1>4, FromFacts, FromGrows
<1>6. \A x \in Times(bars) : x \in Nat /\ q.from <= x /\ x <= q.to
  BY <1>0 DEF Slots
<1>7. Covered(T, G, q.to)
  <2>1. CASE Kept(r, S, s)
    <3>1. Covered(S, F, q.from - 1)
      BY <1>0, <2>1 DEF Kept
    <3> HIDE DEF F, G, t, u
    <3>2. QED BY <1>5, <3>1, AnswerCovers DEF T
  <2>2. CASE Fresh(r, s, n)
    <3>1. s = 0 /\ q.from \in Times(bars)
      BY <1>0, <2>2 DEF Fresh
    <3>2. bars # {}
      BY <3>1, NoTimes
    <3>3. u \in Times(bars)
      BY <3>1, <3>2, BeginFacts
    <3> HIDE DEF u, G, T
    <3>4. q.from <= G
      BY <1>0, <1>5, <1>6, <3>3
    <3>5. \A x \in Trading : G <= x /\ x <= q.to => x \in Times(bars)
      BY <1>0, <1>5, <3>4 DEF Slots
    <3>6. QED BY <3>5 DEF Covered, T
  <2>3. QED BY <2>1, <2>2
<1>8. Covered(T, G, r.verified)
  <2>1. CASE Kept(r, S, s)
    <3>1. Covered(S, F, r.verified)
      BY <2>1 DEF Kept
    <3> HIDE DEF F, G, T
    <3>2. QED BY <1>3, <1>4, <1>5, <3>1, CoveredGrows
  <2>2. CASE Fresh(r, s, n)
    <3>1. r.verified = 0
      BY <2>2 DEF Fresh
    <3> HIDE DEF G
    <3>2. \A x \in Trading : ~(G <= x /\ x <= 0)
      BY <1>5 DEF Slots
    <3>3. QED BY <3>1, <3>2 DEF Covered
  <2>3. QED BY <2>1, <2>2
<1> HIDE DEF F, G, T, u, t
<1>9. g.verified \in {r.verified, q.to}
  <2>1. {r.verified, q.to} \in SUBSET (0..MaxSlot)
    BY <1>3
  <2>2. QED BY <1>1, <2>1, LatestFacts
<1>10. Covered(T, G, t.verified)
  <2>1. CASE t.verified \in {r.verified, q.to}
    BY <1>7, <1>8, <2>1
  <2>2. CASE t.verified \in Times(bars)
    BY <1>0, <1>5, <1>6, <1>7, <2>2, CoveredGrows
  <2>3. QED BY <1>2, <1>9, <2>1, <2>2
<1>11. \A x \in Trading : G <= x /\ r.target < x /\ x <= t.observed => x \in T
  <2> SUFFICES ASSUME NEW x \in Trading, G <= x, r.target < x, x <= t.observed PROVE x \in T
    OBVIOUS
  <2>1. x \in Nat
    BY DEF Slots
  <2>2. CASE t.observed = r.observed
    <3>1. F <= x
      BY <1>5, <2>1
    <3>2. x \in S
      BY <2>2, <3>1 DEF F
    <3>3. QED BY <1>4, <3>2
  <2>3. CASE t.observed \in Times(bars)
    BY <1>0, <1>3, <1>6, <2>1, <2>3
  <2>4. QED BY <1>1, <1>2, <2>2, <2>3
<1>12. t.unverified # 0 => Covered(T, G, t.unverified - 1)
  <2>1. ASSUME t.unverified # 0 PROVE t.unverified - 1 = q.to
    BY <1>0, <1>1, <1>2, <2>1
  <2>2. QED BY <1>7, <2>1
<1>13. t.unverified = 0 => Covered(T, G, t.observed)
  <2> SUFFICES ASSUME t.unverified = 0, NEW x \in Trading, G <= x, x <= t.observed
               PROVE  x \in T
    BY DEF Covered
  <2>1. ~(r.target > q.to)
    BY <1>0, <1>1, <1>2
  <2>2. x \in Nat
    BY DEF Slots
  <2>3. CASE x <= q.to
    BY <1>7, <2>3 DEF Covered
  <2>4. CASE ~(x <= q.to)
    <3>1. r.target < x
      BY <1>0, <1>3, <2>1, <2>2, <2>4
    <3>2. QED BY <1>11, <3>1
  <2>5. QED BY <2>3, <2>4
<1>14. Kept(t, T, u)
  BY <1>10, <1>12, <1>13 DEF Kept, G
<1>15. r.target > q.to => t.unverified = q.to + 1
  BY <1>1, <1>2
<1>16. Restored(r, q, t, T, u)
  BY <1>7, <1>11, <1>14, <1>15 DEF Restored, G
<1>17. QED BY <1>16 DEF Answered, t, T, u, g

\* The next chunk of a recovery starts at the open slot.
LEMMA ChunkSteady ==
    ASSUME NEW r, Fit(r), NEW q \in Request, NEW n \in Nat, NEW A \in SUBSET Request,
           NEW S, NEW s \in 0..MaxSlot,
           Steady(r, A, S, s, n), ~r.inflight, r.retry = NoRequest, r.phase = "flushing",
           ~r.prefill, Recovers(r),
           r.target > q.to, r.unverified = q.to + 1, r.target <= n,
           \A t \in Trading : From(r, s) <= t /\ r.target < t /\ t <= r.observed => t \in S
    PROVE  LET h == NextChunk(r, q)
           IN  /\ Steady(h.route, A \cup h.asks, S, s, n)
               /\ h.route.boundary = r.boundary /\ h.route.buffer = r.buffer
<1> DEFINE e  == [r EXCEPT !.phase = "recovering"]
           from == q.to + 1
           to == Bounded(from, r.target)
           a  == Asking(e, "reconnect", from, to)
           t  == a.route
<1>1. /\ q.to \in Nat /\ r.target \in Nat /\ r.target <= MaxSlot /\ r.generation \in Nat
      /\ r \in Route
  BY RequestFields, RouteFields DEF Fit, Slots
<1>2. from \in Slots /\ r.target \in Slots /\ from <= r.target /\ from # 0
  BY <1>1 DEF Slots
<1>3. to \in Slots /\ from <= to /\ to <= r.target
  BY <1>2, BoundedFacts
<1>4. r.unverified # 0
  BY <1>2
<1>5. /\ Fit(e) /\ Steady(e, A, S, s, n) /\ SameBase(r, e) /\ SameMarks(r, e)
      /\ e.buffer = r.buffer /\ e.phase = "recovering" /\ ~e.inflight /\ e.retry = NoRequest
  BY <1>4, PhaseSteady
<1> HIDE DEF e
<1>6. NextChunk(r, q) = a
  BY DEF NextChunk, e
<1>7. e \in Route /\ "reconnect" \in Kinds
  BY <1>5 DEF Fit, Kinds
<1> HIDE DEF from, to
<1>8. /\ SameBase(e, a.route) /\ SameMarks(e, a.route) /\ a.route.buffer = e.buffer
      /\ a.route.phase = e.phase /\ a.route.retry = e.retry /\ a.route.inflight
      /\ Sends(a.asks, "reconnect", from, to, e.generation)
  BY <1>2, <1>3, <1>7, AskingMarks
<1> HIDE DEF a
<1>9. /\ t.mode = r.mode /\ ~t.prefill /\ t.boundary = r.boundary
      /\ t.generation = r.generation /\ t.target = r.target /\ t.buffer = r.buffer
      /\ t.phase = "recovering" /\ t.inflight /\ t.retry = NoRequest /\ SameMarks(r, t)
  BY <1>5, <1>8 DEF SameBase, SameMarks
<1>10. PICK p \in Request : /\ a.asks = {p} /\ p.kind = "reconnect" /\ p.from = from
                            /\ p.to = to /\ p.generation = r.generation
  BY <1>5, <1>8 DEF Sends, SameBase
<1> HIDE DEF t
<1>11. Enabled(t) /\ Recovers(t) /\ Enabled(r)
  BY <1>9 DEF Recovers, Enabled
<1>12. Batches(t, n) /\ Staged(t, n)
  BY <1>9, <1>11 DEF Steady, Batches, Staged, Buffers
<1>13. \A x \in A : x.generation <= r.generation /\ x.generation # r.generation
  BY <1>11 DEF Steady, Sole
<1>14. Sole(t, A \cup {p})
  BY <1>1, <1>9, <1>10, <1>13 DEF Sole
<1>15. AskSound(t, S, s, n, p)
  <2>1. to <= n
    BY <1>1, <1>3 DEF Slots
  <2>2. t.unverified = from /\ t.observed = r.observed /\ From(t, s) = From(r, s)
    BY <1>9 DEF SameMarks, From, from
  <2>3. QED BY <1>3, <1>9, <1>10, <1>11, <2>1, <2>2 DEF AskSound
<1>16. Asked(t, A \cup {p}, S, s, n)
  BY <1>9, <1>13, <1>15 DEF Asked, StillAwaits
<1>17. Marks(t, S, s, n)
  <2>1. Seen(r, S, s, n) /\ (Kept(r, S, s) \/ Fresh(r, s, n))
    BY <1>9, <1>11 DEF Steady, Marks, Recovers
  <2>2. Elems(t.buffer) = Elems(r.buffer)
    BY <1>9
  <2>3. Seen(t, S, s, n) /\ (Kept(t, S, s) \/ Fresh(t, s, n))
    BY <1>9, <2>1, <2>2, MarksKept
  <2>4. QED BY <1>4, <1>9, <2>3 DEF Marks, SameMarks
<1>18. Steady(t, A \cup {p}, S, s, n)
  BY <1>12, <1>14, <1>16, <1>17 DEF Steady
<1>19. QED BY <1>6, <1>9, <1>10, <1>18 DEF t

\* A refused answer leaves its range open.
LEMMA RefusedOpens ==
    ASSUME NEW r, Fit(r), NEW q \in Request, q.kind # "prefill" => ~r.prefill
    PROVE  Judgement(r, q, FALSE).unverified = IF r.unverified = 0 THEN q.from ELSE r.unverified
<1>1. FALSE \in BOOLEAN
  OBVIOUS
<1>2. Judges(r, q, FALSE, Judgement(r, q, FALSE))
  BY <1>1, JudgedMarks
<1>3. QED BY <1>2 DEF Judges

\* The bars of a final answer: all of the range if it is usable.
Answers(q, usable, bars) ==
    /\ Times(bars) \subseteq Trading \cap (q.from..q.to)
    /\ usable => Times(bars) = Trading \cap (q.from..q.to)
    /\ ~usable /\ q.kind # "prefill" => bars = {}

\* What it leaves of a route r.
Resolves(r, q, usable, t, T, u, n) ==
    /\ Fit(t) /\ t.mode = r.mode /\ t.boundary = r.boundary /\ t.buffer = r.buffer
    /\ t.retry = NoRequest /\ t.phase = "flushing" /\ ~t.inflight /\ ~t.prefill
    /\ t.target = r.target
    /\ Recovers(r) /\ ~usable => t.unverified # 0
    /\ usable /\ q.kind = "reconnect" =>
          Recovers(r) /\ r.target <= n /\ Restored(r, q, t, T, u)

\* A final answer leaves a steady route, before anything more is asked.
LEMMA AnsweredSteady ==
    ASSUME NEW r, Fit(r), NEW n \in Nat, NEW A \in SUBSET Request, NEW q \in A,
           NEW S, NEW s \in 0..MaxSlot, Steady(r, A, S, s, n), StillAwaits(r, q),
           NEW usable \in BOOLEAN, NEW bars \in SUBSET Bar,
           Answers(q, usable, bars)
    PROVE  LET t == Answered(r, q, usable, bars)
               T == S \cup Times(bars)
               u == Begin(s, bars)
           IN  Steady(t, A \ {q}, T, u, n) /\ Resolves(r, q, usable, t, T, u, n)
<1> DEFINE t == Answered(r, q, usable, bars)
           T == S \cup Times(bars)
           u == Begin(s, bars)
<1>0. /\ Times(bars) \subseteq Trading \cap (q.from..q.to)
      /\ usable => Times(bars) = Trading \cap (q.from..q.to)
      /\ ~usable /\ q.kind # "prefill" => bars = {}
  BY DEF Answers
<1>1. /\ Batches(r, n) /\ Staged(r, n) /\ Sole(r, A) /\ Asked(r, A, S, s, n)
      /\ Marks(r, S, s, n)
  BY DEF Steady
<1>2. /\ r.inflight /\ r.generation = q.generation /\ AskSound(r, S, s, n, q)
      /\ q \in Request
  BY <1>1 DEF StillAwaits, Asked
<1>3. Enabled(r) /\ r.retry = NoRequest /\ r.boundary <= n
  BY <1>1, <1>2 DEF Staged
<1>4. /\ q.from <= q.to /\ q.to <= n
      /\ q.kind # "prefill" => ~r.prefill /\ Recovers(r)
      /\ q.kind = "prefill" => q.to = r.boundary /\ r.prefill
  BY <1>2 DEF AskSound
<1>5. /\ Fit(t) /\ t.mode = r.mode /\ t.boundary = r.boundary
      /\ t.generation = r.generation /\ t.target = r.target /\ t.buffer = r.buffer
      /\ t.retry = NoRequest /\ t.phase = "flushing" /\ ~t.inflight /\ ~t.prefill
      /\ t.unverified = Judgement(r, q, usable).unverified
  BY <1>2, <1>3, <1>4, AnsweredFields
<1>6. Recovers(r) => Seen(r, S, s, n) /\ (Kept(r, S, s) \/ Fresh(r, s, n))
  BY <1>1 DEF Marks
<1>7. Buffered(r) \subseteq Trading
  <2>1. \A x \in Elems(r.buffer) : Times(x) \subseteq Trading
    BY <1>1 DEF Batches, Fine
  <2>2. QED BY <2>1, BufferedElems
<1>8. Recovers(r) => Seen(t, T, u, n)
  <2>1. Times(bars) \subseteq q.from..q.to
    BY <1>0
  <2>2. QED BY <1>2, <1>4, <1>6, <2>1, AnsweredSeen
<1> HIDE DEF t, T, u
<1>9. ASSUME q.kind = "prefill", Recovers(r) PROVE Kept(t, T, u)
  <2>1. Kept(r, S, s) /\ Seen(r, S, s, n)
    BY <1>4, <1>6, <1>9 DEF Fresh
  <2>2. Times(bars) \subseteq q.from..q.to
    BY <1>0
  <2>3. QED BY <1>2, <1>4, <1>9, <2>1, <2>2, PrefillAnswer DEF t, T, u
<1>10. ASSUME ~usable PROVE t.unverified # 0
  <2>1. q.from # 0
    BY <1>2, RequestFields DEF Slots
  <2>2. Judgement(r, q, usable).unverified = IF r.unverified = 0 THEN q.from ELSE r.unverified
    <3>1. usable = FALSE
      BY <1>10
    <3>2. q.kind # "prefill" => ~r.prefill
      BY <1>4
    <3>3. Judgement(r, q, FALSE).unverified = IF r.unverified = 0 THEN q.from ELSE r.unverified
      BY <1>2, <3>2, RefusedOpens
    <3>4. QED BY <3>1, <3>3
  <2>3. QED BY <1>5, <2>1, <2>2
<1>11. ASSUME q.kind # "prefill", ~usable PROVE Kept(t, T, u) \/ Fresh(t, u, n)
  <2>1. bars = {} /\ usable = FALSE
    BY <1>0, <1>11
  <2>2. T = S /\ u = s
    BY <2>1, NoTimes, BeginFacts DEF T, u
  <2>3. r.unverified # 0 /\ ~r.prefill /\ Recovers(r)
    BY <1>2, <1>4, <1>11, RequestFields DEF AskSound, Slots
  <2>4. Kept(Answered(r, q, FALSE, {}), S, s) \/ Fresh(Answered(r, q, FALSE, {}), s, n)
    BY <1>2, <1>6, <2>3, RefusedAnswer
  <2>5. t = Answered(r, q, FALSE, {})
    BY <2>1 DEF t
  <2>6. QED BY <2>2, <2>4, <2>5
<1>12. ASSUME q.kind = "gap", usable PROVE Kept(t, T, u)
  <2>1. /\ ~r.prefill /\ r.unverified # 0 /\ r.unverified <= q.from
        /\ s # 0 /\ r.observed < q.from
    BY <1>2, <1>12 DEF AskSound
  <2>2. Seen(r, S, s, n) /\ Kept(r, S, s)
    BY <1>4, <1>6, <1>12, <2>1 DEF Fresh
  <2>3. usable = TRUE
    BY <1>12
  <2>4. Times(bars) = Trading \cap (q.from..q.to)
    BY <1>0, <1>12
  <2>5. Kept(Answered(r, q, TRUE, bars), S \cup Times(bars), Begin(s, bars))
    BY <1>2, <1>4, <1>12, <2>1, <2>2, <2>4, GapAnswer
  <2>6. QED BY <2>3, <2>5 DEF t, T, u
<1>13. ASSUME q.kind = "reconnect", usable
       PROVE  Recovers(r) /\ r.target <= n /\ Restored(r, q, t, T, u)
  <2>1. /\ Recovers(r) /\ ~r.prefill /\ r.unverified = q.from
        /\ q.to <= r.target /\ r.target <= n
        /\ \A x \in Trading : From(r, s) <= x /\ r.target < x /\ x <= r.observed => x \in S
    BY <1>2, <1>13 DEF AskSound
  <2>2. Seen(r, S, s, n) /\ (Kept(r, S, s) \/ Fresh(r, s, n))
    BY <1>6, <2>1
  <2>3. usable = TRUE
    BY <1>13
  <2>4. Times(bars) = Trading \cap (q.from..q.to)
    BY <1>0, <1>13
  <2>5. Restored(r, q, Answered(r, q, TRUE, bars), S \cup Times(bars), Begin(s, bars))
    BY <1>2, <1>4, <1>7, <1>13, <2>1, <2>2, <2>4, ReconnectAnswer
  <2>6. Restored(r, q, t, T, u)
    BY <2>3, <2>5 DEF t, T, u
  <2>7. QED BY <2>1, <2>6
<1>14. ASSUME Recovers(r) PROVE Kept(t, T, u) \/ Fresh(t, u, n)
  <2>1. q.kind \in {"prefill", "gap", "reconnect"}
    BY <1>2, RequestFields DEF Kinds
  <2>2. CASE q.kind = "prefill"
    BY <1>9, <1>14, <2>2
  <2>3. CASE q.kind # "prefill" /\ ~usable
    BY <1>11, <2>3
  <2>4. CASE q.kind = "gap" /\ usable
    BY <1>12, <2>4
  <2>5. CASE q.kind = "reconnect" /\ usable
    BY <1>13, <2>5 DEF Restored
  <2>6. QED BY <2>1, <2>2, <2>3, <2>4, <2>5
<1>15. Batches(t, n)
  BY <1>1, <1>5 DEF Batches
<1>16. Staged(t, n)
  BY <1>3, <1>5 DEF Staged, Buffers
<1>17. Sole(t, A \ {q})
  <2>1. \A p \in A \ {q} : p.generation <= r.generation /\ p.generation # r.generation
    BY <1>1, <1>2, <1>3 DEF Sole
  <2>2. QED BY <1>5, <2>1 DEF Sole
<1>18. Asked(t, A \ {q}, T, u, n)
  BY <1>5 DEF Asked, StillAwaits
<1>19. Recovers(t) = Recovers(r)
  BY <1>5 DEF Recovers
<1>20. Marks(t, T, u, n)
  BY <1>5, <1>8, <1>14, <1>19 DEF Marks
<1>21. Steady(t, A \ {q}, T, u, n)
  BY <1>15, <1>16, <1>17, <1>18, <1>20 DEF Steady
<1>22. QED BY <1>5, <1>10, <1>13, <1>21 DEF Resolves, t, T, u

\* A final answer is delivered, and the recovery goes on or the buffer is released.
LEMMA ConcludeSound ==
    ASSUME IInv, Sound, pc = "idle", NEW q \in requests, NEW result \in Results(q),
           StillAwaits(route, q), Conclude(q, result), now' = now
    PROVE  Sound'
<1> DEFINE usable == result.kind = "complete"
           valid  == result.kind \in {"partial", "complete"}
           bars   == IF usable \/ (valid /\ q.kind = "prefill") THEN result.bars ELSE {}
           judged == Judgement(route, q, usable)
           again  == q.kind = "prefill" /\ valid /\ Recovers(judged) /\ judged.unverified # 0
           r      == Answered(route, q, usable, bars)
           s      == [r EXCEPT !.phase = "recovering"]
           more   == usable /\ q.kind = "reconnect" /\ r.target > q.to
           next   == IF again THEN StartReconnect(s)
                     ELSE IF more THEN NextChunk(r, q) ELSE Quiet(r)
           upto   == IF usable /\ q.kind = "reconnect" THEN q.to ELSE 0
           A == requests \ {q}
           T == shown \cup Times(bars)
           u == Begin(start, bars)
<1>1. /\ Fit(route) /\ route \in Route /\ now \in Slots /\ now \in Nat
      /\ requests \in SUBSET Request /\ q \in Request
      /\ start \in 0..MaxSlot /\ received \in SUBSET Slots
  BY DEF IInv, TypeOK, Slots
<1>2. /\ Steady(route, requests, shown, start, now)
      /\ Whole(route, received, shown, start)
  BY DEF Sound
<1>3. /\ route' = next.route /\ requests' = (requests \ {q}) \cup next.asks
      /\ Deliver(bars) /\ received' = received
      /\ IF again \/ more THEN UNCHANGED <<pc, flush>>
         ELSE pc' = "flush" /\ flush' = [usable |-> usable, upto |-> upto]
  BY DEF Conclude, Answered, Judgement
<1>4. /\ Times(bars) \subseteq Trading \cap (q.from..q.to)
      /\ usable => Times(bars) = Trading \cap (q.from..q.to)
      /\ ~usable /\ q.kind # "prefill" => bars = {}
  BY <1>1, ResultTimes, NoTimes
<1>5. bars \in SUBSET Bar /\ usable \in BOOLEAN
  BY <1>1, ResultFacts
<1>6. judged.unverified = r.unverified
  <2>1. q.kind # "prefill" => ~route.prefill
    BY <1>1, <1>2 DEF Steady, Asked, AskSound
  <2> HIDE DEF usable, bars
  <2>2. QED BY <1>1, <1>5, <2>1, AnsweredFields
<1> HIDE DEF usable, bars, judged
<1>7. /\ Steady(r, A, T, u, now)
      /\ Fit(r) /\ r.mode = route.mode /\ r.boundary = route.boundary
      /\ r.buffer = route.buffer
      /\ r.retry = NoRequest /\ r.phase = "flushing" /\ ~r.inflight /\ ~r.prefill
      /\ r.target = route.target
      /\ Recovers(route) /\ ~usable => r.unverified # 0
      /\ usable /\ q.kind = "reconnect" =>
            Recovers(route) /\ route.target <= now /\ Restored(route, q, r, T, u)
  <2>1. Answers(q, usable, bars)
    BY <1>4 DEF Answers
  <2>2. Steady(r, A, T, u, now) /\ Resolves(route, q, usable, r, T, u, now)
    BY <1>1, <1>2, <1>5, <2>1, AnsweredSteady
  <2> HIDE DEF r, T, u, A
  <2>3. QED BY <2>2 DEF Resolves
<1>8. shown' = T /\ start' = u
  BY <1>3, Delivered
<1>9. u \in 0..MaxSlot /\ (start = 0 \/ start = u)
  BY <1>1, <1>5, BeginFacts
<1>10. A \in SUBSET Request
  BY <1>1
<1>11. (Recovers(r) <=> Recovers(route)) /\ r \in Route
  BY <1>7 DEF Recovers, Fit
<1> HIDE DEF r, T, u, A
<1>12. /\ Steady(next.route, A \cup next.asks, T, u, now)
       /\ next.route.boundary = r.boundary /\ next.route.buffer = r.buffer
  <2>1. CASE again
    <3>1. r.unverified # 0
      BY <1>6, <2>1
    <3>2. /\ Fit(s) /\ Steady(s, A, T, u, now) /\ SameBase(r, s)
          /\ s.buffer = r.buffer /\ s.phase = "recovering" /\ ~s.inflight
          /\ s.retry = NoRequest
      BY <1>7, <3>1, PhaseSteady
    <3> HIDE DEF s
    <3>3. ~s.prefill /\ s.boundary = r.boundary
      BY <1>7, <3>2 DEF SameBase
    <3>4. LET h == StartReconnect(s)
          IN  /\ Steady(h.route, A \cup h.asks, T, u, now)
              /\ h.route.boundary = s.boundary /\ h.route.buffer = s.buffer
      BY <1>1, <1>9, <3>2, <3>3, ReconnectSteady
    <3>5. next = StartReconnect(s)
      BY <2>1
    <3>6. QED BY <3>2, <3>3, <3>4, <3>5
  <2>2. CASE ~again /\ more
    <3>1. /\ Recovers(r) /\ r.target > q.to /\ r.target <= now
          /\ Restored(route, q, r, T, u)
      BY <1>7, <1>11, <2>2
    <3>2. /\ r.unverified = q.to + 1
          /\ \A t \in Trading : From(r, u) <= t /\ r.target < t /\ t <= r.observed => t \in T
      BY <1>7, <3>1 DEF Restored
    <3>3. LET h == NextChunk(r, q)
          IN  /\ Steady(h.route, A \cup h.asks, T, u, now)
              /\ h.route.boundary = r.boundary /\ h.route.buffer = r.buffer
      BY <1>1, <1>7, <1>9, <1>10, <3>1, <3>2, ChunkSteady
    <3>4. next = NextChunk(r, q)
      BY <2>2
    <3>5. QED BY <3>3, <3>4
  <2>3. CASE ~again /\ ~more
    <3>1. next.route = r /\ next.asks = {}
      BY <2>3 DEF Quiet
    <3> HIDE DEF next
    <3>2. A \cup next.asks = A
      BY <3>1
    <3>3. QED BY <1>7, <3>1, <3>2
  <2>4. QED BY <2>1, <2>2, <2>3
<1>13. ASSUME ~again, ~more PROVE Releases(next.route, flush', T, u)
  <2>1. next.route = r /\ flush' = [usable |-> usable, upto |-> upto]
    BY <1>3, <1>13 DEF Quiet
  <2>2. (flush'.usable <=> usable) /\ flush'.upto = upto
    BY <2>1
  <2>3. upto # 0 => /\ upto = q.to /\ Kept(r, T, u)
                    /\ Covered(T, From(r, u), q.to)
    BY <1>7 DEF Restored
  <2>4. Buffered(r) \subseteq Trading
    <3>1. \A x \in Elems(r.buffer) : Times(x) \subseteq Trading
      BY <1>7 DEF Steady, Batches, Fine
    <3>2. QED BY <3>1, BufferedElems
  <2> HIDE DEF upto
  <2>5. \A t \in Buffered(r) : From(r, u) <= t /\ t <= upto => t \in T
    <3>0. \A t \in Trading : ~(t <= 0)
      BY DEF Slots
    <3>1. CASE upto = 0
      BY <2>4, <3>0, <3>1
    <3>2. CASE upto # 0
      BY <2>3, <2>4, <3>2 DEF Covered
    <3>3. QED BY <3>1, <3>2
  <2>6. QED BY <1>7, <1>11, <2>1, <2>2, <2>3, <2>5 DEF Releases
<1>14. Whole(next.route, received, T, u)
  <2>1. Buffered(next.route) = Buffered(route)
    BY <1>7, <1>12 DEF Buffered
  <2>2. Whole(r, received, T, u)
    <3>1. Buffered(r) = Buffered(route)
      BY <1>7 DEF Buffered
    <3>2. route.boundary \in Nat /\ shown \subseteq T
      BY <1>1, RouteFields DEF T
    <3>3. \A x \in Buffered(route) : From(route, start) <= x => x \in T \cup Buffered(r)
      BY <3>1
    <3>4. route.boundary <= r.boundary
      BY <1>7, <3>2
    <3>5. QED BY <1>1, <1>2, <1>9, <1>11, <3>2, <3>3, <3>4, WholeKept
  <2>3. Buffered(next.route) = Buffered(r) /\ From(next.route, u) = From(r, u)
    BY <1>12 DEF Buffered, From
  <2>4. QED BY <2>2, <2>3 DEF Whole
<1> HIDE DEF next, again, more
<1>15. pc' = "flush" => Releases(next.route, flush', T, u)
  BY <1>3, <1>13
<1>16. pc' # "new"
  BY <1>3
<1>17. QED BY <1>3, <1>8, <1>12, <1>14, <1>15, <1>16 DEF Sound, A

\* Without one of its requests a route is still steady.
LEMMA FewerSteady ==
    ASSUME NEW r, NEW A, NEW q, NEW S, NEW s, NEW n, Steady(r, A, S, s, n)
    PROVE  Steady(r, A \ {q}, S, s, n)
BY DEF Steady, Sole, Asked

\* A retry covers what the failed request should have covered.
LEMMA RetrySteady ==
    ASSUME NEW r, Fit(r), NEW A \in SUBSET Request, NEW q \in A, q.attempt < MaxAttempts,
           NEW S, NEW s, NEW n, Steady(r, A, S, s, n), StillAwaits(r, q)
    PROVE  LET t == Retrying([r EXCEPT !.inflight = FALSE], q)
           IN  /\ Steady(t, A \ {q}, S, s, n)
               /\ t.boundary = r.boundary /\ t.buffer = r.buffer
<1> DEFINE again == [q EXCEPT !.attempt = @ + 1]
           p == IF q.kind = "prefill" THEN "prefilling" ELSE "recovering"
           i == [r EXCEPT !.inflight = FALSE]
           t == [i EXCEPT !.retry = again, !.phase = p]
<1>1. r \in Route /\ q \in Request /\ q.from # 0 /\ q.kind \in Kinds
  BY RequestFields DEF Fit, Slots
<1>2. /\ again.kind = q.kind /\ again.from = q.from /\ again.to = q.to
      /\ again.generation = q.generation
  BY <1>1 DEF Request
<1>3. Retrying(i, q) = t
  BY DEF Retrying
<1>4. /\ t.mode = r.mode /\ t.prefill = r.prefill /\ t.boundary = r.boundary
      /\ t.generation = r.generation /\ t.buffer = r.buffer /\ t.target = r.target
      /\ t.phase = p /\ ~t.inflight /\ t.retry = again
      /\ t.unverified = r.unverified /\ t.observed = r.observed
      /\ t.verified = r.verified
  BY <1>1 DEF Route
<1> HIDE DEF again, i, t
<1>5. SameBase(r, t) /\ SameMarks(r, t)
  BY <1>4 DEF SameBase, SameMarks
<1>6. /\ Batches(r, n) /\ Staged(r, n) /\ Sole(r, A) /\ Asked(r, A, S, s, n)
      /\ Marks(r, S, s, n)
  BY DEF Steady
<1>7. /\ r.inflight /\ r.generation = q.generation /\ AskSound(r, S, s, n, q)
      /\ Enabled(r) /\ r.boundary <= n
  BY <1>6 DEF StillAwaits, Asked, Staged
<1>8. q.kind = "prefill" \/ (~r.prefill /\ r.unverified # 0)
  BY <1>1, <1>7 DEF AskSound
<1>9. Batches(t, n)
  BY <1>4, <1>6 DEF Batches
<1>10. Staged(t, n)
  BY <1>2, <1>4, <1>7, <1>8 DEF Staged, Buffers, Enabled
<1>11. \A x \in A \ {q} : x.generation <= r.generation /\ x.generation # r.generation
  BY <1>6, <1>7 DEF Sole
<1>12. Sole(t, A \ {q})
  BY <1>4, <1>11 DEF Sole
<1>13. Asked(t, A \ {q}, S, s, n)
  <2>1. AskSound(t, S, s, n, q)
    BY <1>5, <1>7, AskKept
  <2>2. AskSound(t, S, s, n, again)
    BY <1>2, <2>1 DEF AskSound
  <2>3. QED BY <1>4, <2>2 DEF Asked, StillAwaits
<1>14. Marks(t, S, s, n)
  <2>1. Recovers(t) => Recovers(r)
    BY <1>4 DEF Recovers
  <2>2. Recovers(r) => Seen(t, S, s, n) /\ (Kept(t, S, s) \/ Fresh(t, s, n))
    BY <1>4, <1>5, <1>6, MarksKept DEF Marks
  <2>3. t.phase # "live" /\ ~(~t.prefill /\ t.unverified = 0
                               /\ t.phase \in {"waiting", "recovering"})
    BY <1>4, <1>8
  <2>4. QED BY <2>1, <2>2, <2>3 DEF Marks
<1>15. Steady(t, A \ {q}, S, s, n)
  BY <1>9, <1>10, <1>12, <1>13, <1>14 DEF Steady
<1>16. QED BY <1>3, <1>4, <1>15 DEF i

\* An answer is dropped, kept for a retry, or final.
LEMMA AnswerSound ==
    ASSUME IInv, Sound, CompleteContinuity
    PROVE  Sound'
<1>1. /\ Fit(route) /\ route \in Route /\ requests \in SUBSET Request
      /\ start \in 0..MaxSlot
  BY DEF IInv, TypeOK
<1>2. /\ Steady(route, requests, shown, start, now)
      /\ Whole(route, received, shown, start)
  BY DEF Sound
<1>3. pc = "idle" /\ now' = now
  BY DEF CompleteContinuity
<1>4. PICK q \in requests : \E result \in Results(q) :
          \/ /\ ~StillAwaits(route, q)
             /\ requests' = requests \ {q}
             /\ UNCHANGED <<pc, route, flush, start, shown, received, proven>>
          \/ /\ StillAwaits(route, q)
             /\ result.kind = "failed" /\ q.attempt < MaxAttempts
             /\ requests' = requests \ {q}
             /\ route' = Retrying([route EXCEPT !.inflight = FALSE], q)
             /\ UNCHANGED <<pc, flush, start, shown, received, proven>>
          \/ /\ StillAwaits(route, q)
             /\ result.kind = "failed" => q.attempt = MaxAttempts
             /\ Conclude(q, result)
  BY DEF CompleteContinuity
<1>5. PICK result \in Results(q) :
          \/ /\ ~StillAwaits(route, q)
             /\ requests' = requests \ {q}
             /\ UNCHANGED <<pc, route, flush, start, shown, received, proven>>
          \/ /\ StillAwaits(route, q)
             /\ result.kind = "failed" /\ q.attempt < MaxAttempts
             /\ requests' = requests \ {q}
             /\ route' = Retrying([route EXCEPT !.inflight = FALSE], q)
             /\ UNCHANGED <<pc, flush, start, shown, received, proven>>
          \/ StillAwaits(route, q) /\ Conclude(q, result)
  BY <1>4
<1>6. CASE /\ requests' = requests \ {q}
           /\ UNCHANGED <<pc, route, flush, start, shown, received, proven>>
  <2>1. Steady(route, requests \ {q}, shown, start, now)
    BY <1>2, FewerSteady
  <2>2. QED BY <1>2, <1>3, <1>6, <2>1 DEF Sound
<1>7. CASE /\ StillAwaits(route, q) /\ q.attempt < MaxAttempts
           /\ requests' = requests \ {q}
           /\ route' = Retrying([route EXCEPT !.inflight = FALSE], q)
           /\ UNCHANGED <<pc, flush, start, shown, received, proven>>
  <2> DEFINE t == Retrying([route EXCEPT !.inflight = FALSE], q)
  <2>1. /\ Steady(t, requests \ {q}, shown, start, now)
        /\ t.boundary = route.boundary /\ t.buffer = route.buffer
    BY <1>1, <1>2, <1>7, RetrySteady
  <2>2. route' = t
    BY <1>7
  <2> HIDE DEF t
  <2>3. Whole(t, received, shown, start)
    BY <1>2, <2>1 DEF Whole, From, Buffered
  <2>4. QED BY <1>3, <1>7, <2>1, <2>2, <2>3 DEF Sound
<1>8. CASE StillAwaits(route, q) /\ Conclude(q, result)
  BY <1>3, <1>8, ConcludeSound
<1>9. QED BY <1>5, <1>6, <1>7, <1>8

\* Every step keeps what is shown complete.
LEMMA NextSound ==
    ASSUME IInv, Sound, Next
    PROVE  Sound'
<1>1. CASE Activate
  BY <1>1, ActivateSound
<1>2. CASE LiveBars
  BY <1>2, LiveBarsSound
<1>3. CASE TransportLost
  BY <1>3, TransportLostSound
<1>4. CASE TransportReady
  BY <1>4, TransportReadySound
<1>5. CASE CompleteContinuity
  BY <1>5, AnswerSound
<1>6. CASE FlushOne
  BY <1>6, FlushOneSound
<1>7. CASE FlushDone
  BY <1>7, FlushDoneSound
<1>8. CASE ProcessRetry
  BY <1>8, ProcessRetrySound
<1>9. CASE ProcessRecovery
  BY <1>9, ProcessRecoverySound
<1>10. CASE SlotCloses
  BY <1>10, SlotClosesSound
<1>11. QED BY <1>1, <1>2, <1>3, <1>4, <1>5, <1>6, <1>7, <1>8, <1>9, <1>10
           DEF Next, Owner, Process

\* What a route has shown is complete up to what it verified, up to its earliest
\* open slot, and up to what it observed when no slot is open; and the one answer
\* it awaits covers what is missing.
THEOREM ContinuitySound == Spec => []Sound
<1>1. Init => Sound
  BY InitSound
<1>2. IInv /\ Sound /\ [Next]_vars => Sound'
  <2> SUFFICES ASSUME IInv, Sound, [Next]_vars PROVE Sound'
    OBVIOUS
  <2>1. CASE Next
    BY <2>1, NextSound
  <2>2. CASE UNCHANGED vars
    BY <2>2 DEF vars, Sound
  <2>3. QED BY <2>1, <2>2
<1>3. QED BY <1>1, <1>2, Invariance, PTL DEF Spec

\* A route that calls itself live has shown every bar of its live part up to the
\* last one it observed, whatever was lost, late, chunked, refused or retried on
\* the way (complete_continuity, route_bar_to_entry, apply_stream_status_to_entry).
THEOREM LiveIsComplete == Spec => []LiveIsGapFree
<1>1. IInv /\ Sound => LiveIsGapFree
  <2> SUFFICES ASSUME IInv, Sound, route.phase = "live", Recovers(route),
                      NEW x \in Trading, LiveStart <= x, x <= route.observed
               PROVE  x \in shown
    BY DEF LiveIsGapFree
  <2>1. route \in Route /\ Marks(route, shown, start, now) /\ Batches(route, now)
    BY DEF IInv, TypeOK, Sound, Steady
  <2>2. /\ Seen(route, shown, start, now) /\ route.unverified = 0
        /\ Kept(route, shown, start) \/ Fresh(route, start, now)
    BY <2>1 DEF Marks
  <2>3. x # 0 /\ x \in Nat
    BY DEF Slots
  <2>4. ~Fresh(route, start, now)
    <3>1. Buffered(route) \subseteq Slots
      BY <2>1, BufferedFacts
    <3>2. QED BY <2>2, <3>1 DEF Fresh, Slots
  <2>5. start # 0
    <3>1. route.observed # 0
      BY <2>3
    <3>2. QED BY <2>2, <3>1 DEF Seen
  <2>6. Covered(shown, From(route, start), route.observed)
    BY <2>2, <2>4, <2>5 DEF Kept
  <2>7. QED BY <2>6 DEF Covered, From, LiveStart
<1>2. QED BY <1>1, ContinuitySound, Invariance, PTL

\* No bar of the live part is lost on its way through the buffer: what came is
\* shown, or still held (route_bar_to_entry, the release of the buffer and its
\* overflow).
THEOREM NothingIsLost == Spec => []NoBarLost
<1>1. Sound => NoBarLost
  BY DEF Sound, Whole, NoBarLost, From, LiveStart
<1>2. QED BY <1>1, ContinuitySound, PTL
=============================================================================
