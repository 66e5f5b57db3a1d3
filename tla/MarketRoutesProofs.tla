------------------------- MODULE MarketRoutesProofs -------------------------
(***************************************************************************)
(* Proofs about MarketRoutes: that a physical subscription always belongs  *)
(* to a route that can still give it back, that callbacks come once and in *)
(* order, and what subscribers hear of the stream.  They hold for every    *)
(* set of routes and every bound.                                          *)
(***************************************************************************)
EXTENDS MarketRoutes, SequenceTheorems, TLAPS

-----------------------------------------------------------------------------
(* The inductive invariant. *)

Bottom == stack[Len(stack)]

\* The owner is inside the subscribe callback of r, perhaps in a call made there.
InCallback(r) == stack # <<>> /\ Bottom.at = "callback" /\ Bottom.route = r

\* The owner is handing round a status that has still to reach r, perhaps in a call
\* made by one of those who were told.
Waits(r) == stack # <<>> /\ Bottom.at = "status" /\ r \in Bottom.routes

\* A call of the application may interrupt a callback and nothing else ...
Nested(s) ==
    /\ s \in Seq(Frame) /\ Len(s) <= 2
    /\ Len(s) = 2 => /\ s[1].at \notin {"callback", "status"}
                     /\ s[2].at \in {"callback", "status"}

\* ... and the routes that a pass has still to unsubscribe wait for it.
Nesting ==
    /\ Nested(stack)
    /\ At = "retry" => \A r \in Head(stack).routes : entry[r].phase = "failed"
    /\ At = "cleanup" => \A r \in Head(stack).routes :
                            /\ entry[r].phase = "unsubscribing"
                            /\ entry[r].unsubscribed = "no" /\ calls[r] = "none"
    /\ At \in {"process", "cleanup"} => router # "running"

\* What an entry says agrees with the call that is out and with the provider.
Agrees(r) ==
    /\ calls[r] = "subscribe" => entry[r].phase = "pending" /\ ~entry[r].subscribed
    /\ calls[r] \in {"release", "cleanup"} =>
          entry[r].phase = "unsubscribing" /\ entry[r].unsubscribed = "no"
    /\ entry[r].unsubscribed # "no" => entry[r].phase = "unsubscribing"
    /\ entry[r].unsubscribed = "ok" => r \notin held
    /\ entry[r].reserved => entry[r].subscribed
    /\ r \in held => entry[r].phase \in Phases
    /\ r \in held /\ entry[r].phase = "pending" => entry[r].reserved
    /\ entry[r].subscribed /\ router = "running" => entry[r].phase \in {"pending", "gone"}

Agreement == \A r \in Routes : Agrees(r)

\* A completion after which the provider has no subscription of the route: that
\* stays so, however late the owner comes to the task.
Empties(t) == t.kind \in Calls /\ (t.ok <=> t.kind # "subscribe")
Empty(r) == r \notin held /\ calls[r] # "subscribe" /\ entry[r].phase # "none"

Emptied ==
    /\ \A i \in 1..Len(queue) : Empties(queue[i]) => Empty(queue[i].route)
    /\ reporter # Idle /\ Empties(reporter.task) => Empty(reporter.task.route)
    /\ reporter # Idle /\ reporter.kind = "mark" => reporter.task.kind = "subscribe"
    /\ reporter # Idle => reporter.task.kind \in Calls \cup {"process"}

Over ==
    router = "complete" =>
        operations = {} /\ \A r \in Routes : entry[r].phase \notin Phases

\* An active route that was let go waits for the end of its subscribe callback,
\* or for the pass of the drain.
Hushed ==
    \A r \in Routes : entry[r].phase = "active" =>
        /\ router # "running" => At = "process"
        /\ router = "running" /\ entry[r].asked => InCallback(r) /\ Bottom.asked

\* An active route knows the status, or its callback carries it, or it waits for it.
Informed ==
    router = "running" => \A r \in Routes :
        /\ entry[r].phase \in {"none", "pending"} => told[r] = 0 /\ ~Waits(r)
        /\ entry[r].phase = "active" =>
              /\ told[r] = cache \/ (InCallback(r) /\ told[r] = 0) \/ Waits(r)
              /\ InCallback(r) /\ ~Bottom.asked => Bottom.status = cache
        /\ Waits(r) => Bottom.status = cache

\* The callback of r's release is with the call, with the provider's report, in a
\* task, with the frame of the subscribe callback or in the entry.
IsRelease(t, r) == t.kind = "release" /\ t.route = r
Called(r)   == calls[r] = "release"
Reported(r) == reporter # Idle /\ IsRelease(reporter.task, r)
Queued(r)   == \E i \in 1..Len(queue) : IsRelease(queue[i], r)
Carried(r)  == InCallback(r) /\ Bottom.callback

OnceQueued(r) ==
    \A i, j \in 1..Len(queue) :
        IsRelease(queue[i], r) /\ IsRelease(queue[j], r) => i = j

\* It is in one place only, and has not been called.
OneRelease(r) ==
    /\ Called(r) \/ Reported(r) \/ Queued(r) \/ Carried(r) \/ entry[r].callback
          => entry[r].asked
    /\ Called(r) \/ Reported(r) \/ Queued(r) \/ Carried(r) \/ entry[r].callback
          \/ ~entry[r].asked => released[r] = 0
    /\ Called(r) => ~Reported(r) /\ ~Queued(r) /\ ~Carried(r) /\ ~entry[r].callback
    /\ Reported(r) => ~Queued(r) /\ ~Carried(r) /\ ~entry[r].callback
    /\ Queued(r) => ~Carried(r) /\ ~entry[r].callback
    /\ Carried(r) => ~entry[r].callback /\ Bottom.asked
    /\ OnceQueued(r)

Releases == \A r \in Routes : OneRelease(r)

Counted ==
    \A r \in Routes :
        /\ answered[r] <= 1 /\ released[r] <= answered[r]
        /\ router = "running" =>
              /\ entry[r].phase \in {"none", "pending"} => answered[r] = 0
              /\ entry[r].phase \in {"active", "unsubscribing", "failed"} => answered[r] = 1

IInv ==
    /\ TypeOK /\ Nesting /\ Agreement /\ Emptied /\ Over /\ Hushed /\ Informed
    /\ Releases /\ Counted
-----------------------------------------------------------------------------
(* Stacks, tasks and entries. *)

USE RoutesAssumption

\* A frame put on a stack becomes its head, and its bottom if it is alone.
LEMMA Push ==
    ASSUME NEW S, NEW s \in Seq(S), NEW f \in S
    PROVE  LET t == <<f>> \o s
           IN  /\ t \in Seq(S) /\ t # <<>> /\ Len(t) = Len(s) + 1
               /\ Head(t) = f /\ t[1] = f
               /\ s = <<>> => t[Len(t)] = f
               /\ s # <<>> => t[Len(t)] = s[Len(s)]
               /\ Len(s) = 1 => t[2] = s[1]
<1>1. <<f>> \in Seq(S) /\ Len(<<f>>) = 1 /\ <<f>>[1] = f
  OBVIOUS
<1>2. /\ <<f>> \o s \in Seq(S) /\ Len(<<f>> \o s) = 1 + Len(s)
      /\ \A i \in 1 .. 1 + Len(s) :
            (<<f>> \o s)[i] = IF i <= 1 THEN f ELSE s[i - 1]
  BY <1>1, ConcatProperties
<1>3. Len(s) \in Nat /\ (s = <<>> <=> Len(s) = 0)
  BY EmptySeq, LenProperties
<1>4. QED BY <1>2, <1>3

\* A stack of at most two frames has none, one or two.
LEMMA Lengths ==
    ASSUME NEW S, NEW s \in Seq(S)
    PROVE  /\ s = <<>> <=> Len(s) = 0
           /\ Len(s) <= 2 => Len(s) = 0 \/ Len(s) = 1 \/ Len(s) = 2
<1> DEFINE n == Len(s)
<1>1. n \in Nat /\ (s = <<>> <=> n = 0)
  BY EmptySeq, LenProperties
<1> HIDE DEF n
<1>2. n <= 2 => n = 0 \/ n = 1 \/ n = 2
  BY <1>1
<1>3. QED BY <1>1, <1>2 DEF n

\* What is left of a stack of one or two frames.
LEMMA Pop ==
    ASSUME NEW S, NEW s \in Seq(S), s # <<>>, Len(s) <= 2
    PROVE  LET t == Tail(s)
           IN  /\ t \in Seq(S) /\ Len(t) = Len(s) - 1 /\ Len(s) \in {1, 2}
               /\ Head(s) = s[1] /\ s[1] \in S /\ s[Len(s)] \in S
               /\ Len(s) = 1 => t = <<>>
               /\ Len(s) = 2 => t # <<>> /\ t[1] = s[2] /\ Head(t) = s[2] /\ t[Len(t)] = s[2]
<1>1. Len(s) = 1 \/ Len(s) = 2
  BY Lengths
<1>2. /\ Tail(s) \in Seq(S) /\ Len(Tail(s)) = Len(s) - 1
      /\ \A i \in 1 .. Len(Tail(s)) : Tail(s)[i] = s[i + 1]
  BY HeadTailProperties
<1>3. Tail(s) = <<>> <=> Len(Tail(s)) = 0
  BY <1>2, Lengths
<1>4. s[1] \in S /\ s[Len(s)] \in S
  BY <1>1, ElementOfSeq
<1>5. QED BY <1>1, <1>2, <1>3, <1>4

\* The rest of a queue is the queue shifted by one.
LEMMA QueueTail ==
    ASSUME NEW S, NEW s \in Seq(S), s # <<>>
    PROVE  /\ Head(s) \in S /\ Head(s) = s[1] /\ Tail(s) \in Seq(S)
           /\ Len(s) \in Nat /\ Len(s) >= 1 /\ Len(Tail(s)) = Len(s) - 1
           /\ \A i \in 1 .. Len(Tail(s)) : i + 1 \in 1..Len(s) /\ Tail(s)[i] = s[i + 1]
BY HeadTailProperties, EmptySeq, LenProperties

\* The kinds of tasks, and what the owner is asked to run has one of them.
LEMMA TaskFacts ==
    /\ \A t \in Task : t.kind \in Calls \cup {"status", "process"}
    /\ \A t \in Task : t.kind \in Calls => t.route \in Routes /\ t.ok \in BOOLEAN
    /\ \A t \in Task : t.kind = "status" => t.status \in 1..MaxStatus
    /\ \A k \in Calls, r \in Routes, b \in BOOLEAN :
          [kind |-> k, route |-> r, ok |-> b] \in Task
    /\ \A n \in 1..MaxStatus : [kind |-> "status", status |-> n] \in Task
    /\ [kind |-> "process"] \in Task
BY DEF Task, Calls

\* The kinds of frames and their fields.
LEMMA FrameFacts ==
    /\ \A f \in Frame : f.at \in {"process", "retry", "cleanup", "callback", "status"}
    /\ \A f \in Frame : f.at \in {"retry", "cleanup", "status"} => f.routes \subseteq Routes
    /\ \A f \in Frame : f.at = "status" => f.status \in 1..MaxStatus
    /\ \A f \in Frame : f.at = "callback" =>
          /\ f.route \in Routes /\ f.status \in 0..MaxStatus
          /\ f.asked \in BOOLEAN /\ f.callback \in BOOLEAN
    /\ [at |-> "process"] \in Frame
    /\ \A S \in SUBSET Routes : [at |-> "retry", routes |-> S] \in Frame
                                /\ [at |-> "cleanup", routes |-> S] \in Frame
    /\ \A r \in Routes, n \in 0..MaxStatus, a, c \in BOOLEAN :
          [at |-> "callback", route |-> r, status |-> n, asked |-> a, callback |-> c]
             \in Frame
    /\ \A n \in 1..MaxStatus, S \in SUBSET Routes :
          [at |-> "status", status |-> n, routes |-> S] \in Frame
    /\ \A f \in Frame, S \in SUBSET Routes :
          f.at \in {"retry", "cleanup"} =>
             /\ [f EXCEPT !.routes = S] \in Frame
             /\ [f EXCEPT !.routes = S].at = f.at
             /\ [f EXCEPT !.routes = S].routes = S
BY DEF Frame

\* The provider's thread reports a task, or nothing.
LEMMA IdleFacts ==
    /\ Idle.kind = "idle"
    /\ \A t, k : k \in {"post", "mark"} => [kind |-> k, task |-> t] # Idle
    /\ TypeOK => /\ reporter.kind \in {"idle", "post", "mark"}
                 /\ reporter # Idle <=> reporter.kind # "idle"
                 /\ reporter # Idle => reporter.task \in Task
BY DEF Idle, TypeOK

\* What the updates of an entry change.
LEMMA EntryFields ==
    ASSUME NEW e \in EntryType
    PROVE  /\ e.phase \in {"none", "pending", "active", "unsubscribing", "failed", "gone"}
           /\ e.reserved \in BOOLEAN /\ e.posted \in BOOLEAN /\ e.subscribed \in BOOLEAN
           /\ e.asked \in BOOLEAN /\ e.callback \in BOOLEAN
           /\ e.unsubscribed \in {"no", "ok", "failed"}
BY DEF EntryType, Phases

\* A change of phase leaves the rest of an entry alone.
LEMMA PhaseSet ==
    ASSUME NEW e \in EntryType, NEW p \in Phases \cup {"none", "gone"}
    PROVE  LET f == [e EXCEPT !.phase = p]
           IN  /\ f \in EntryType /\ f.phase = p /\ f.reserved = e.reserved
               /\ f.posted = e.posted /\ f.subscribed = e.subscribed
               /\ f.unsubscribed = e.unsubscribed /\ f.asked = e.asked
               /\ f.callback = e.callback
BY DEF EntryType, Phases

\* unsubscribe() marks the entry as asked for and unsubscribing.
LEMMA UnsubscribingFields ==
    ASSUME NEW e \in EntryType
    PROVE  LET f == Unsubscribing(e)
           IN  /\ f \in EntryType /\ f.asked = TRUE
               /\ f.phase = "unsubscribing" /\ f.reserved = e.reserved
               /\ f.posted = e.posted /\ f.subscribed = e.subscribed
               /\ f.unsubscribed = e.unsubscribed /\ f.callback = e.callback
BY DEF EntryType, Phases, Unsubscribing

\* A failed subscribe ends the entry and takes its release callback.
LEMMA FailedFields ==
    ASSUME NEW e \in EntryType
    PROVE  LET f == [Removed(e) EXCEPT !.callback = FALSE]
           IN  /\ f \in EntryType /\ f.phase = "gone" /\ f.callback = FALSE
               /\ f.reserved = e.reserved /\ f.posted = e.posted
               /\ f.subscribed = e.subscribed
               /\ f.unsubscribed = e.unsubscribed /\ f.asked = e.asked
BY DEF EntryType, Phases, Removed

\* An activated entry holds neither reservation nor callback.
LEMMA ActivatedFields ==
    ASSUME NEW e \in EntryType
    PROVE  LET f == Activated(e)
           IN  /\ f \in EntryType /\ f.phase = "active" /\ f.reserved = FALSE
               /\ f.posted = FALSE /\ f.subscribed = FALSE
               /\ f.callback = FALSE /\ f.unsubscribed = e.unsubscribed
               /\ f.asked = e.asked
BY DEF EntryType, Phases, Activated

\* Marking a reservation as posted changes nothing else.
LEMMA MarkedFields ==
    ASSUME NEW e \in EntryType
    PROVE  LET f == [e EXCEPT !.posted = TRUE]
           IN  /\ f \in EntryType /\ f.posted = TRUE /\ f.phase = e.phase
               /\ f.reserved = e.reserved /\ f.subscribed = e.subscribed
               /\ f.unsubscribed = e.unsubscribed /\ f.asked = e.asked
               /\ f.callback = e.callback
BY DEF EntryType, Phases

\* Releasing a pending entry keeps its phase.
LEMMA AskedFields ==
    ASSUME NEW e \in EntryType
    PROVE  LET f == [e EXCEPT !.asked = TRUE, !.callback = TRUE]
           IN  /\ f \in EntryType /\ f.asked = TRUE /\ f.callback = TRUE
               /\ f.phase = e.phase /\ f.reserved = e.reserved
               /\ f.posted = e.posted /\ f.subscribed = e.subscribed
               /\ f.unsubscribed = e.unsubscribed
BY DEF EntryType, Phases

\* shutdown() drops the callback of an entry and may change its phase.
LEMMA ShutFields ==
    ASSUME NEW e \in EntryType, NEW p \in Phases \cup {"none", "gone"}
    PROVE  LET f == [e EXCEPT !.callback = FALSE, !.phase = p]
           IN  /\ f \in EntryType /\ f.callback = FALSE /\ f.phase = p
               /\ f.reserved = e.reserved /\ f.posted = e.posted
               /\ f.subscribed = e.subscribed
               /\ f.unsubscribed = e.unsubscribed /\ f.asked = e.asked
BY DEF EntryType, Phases

\* A completion that was applied is recorded no more.
LEMMA AppliedFields ==
    ASSUME NEW e \in EntryType, NEW p \in Phases \cup {"none", "gone"}
    PROVE  LET f == [e EXCEPT !.unsubscribed = "no", !.phase = p]
           IN  /\ f \in EntryType /\ f.unsubscribed = "no" /\ f.phase = p
               /\ f.reserved = e.reserved /\ f.posted = e.posted
               /\ f.subscribed = e.subscribed /\ f.asked = e.asked
               /\ f.callback = e.callback
BY DEF EntryType, Phases


\* The dispatcher appends the task, or loses it.
LEMMA PostedFacts ==
    ASSUME TypeOK, NEW t \in Task, Posted(t)
    PROVE  /\ queue' \in Seq(Task) /\ drops' \in 0..MaxDrops
           /\ Len(queue) \in Nat
           /\ \/ queue' = queue
              \/ /\ Len(queue') = Len(queue) + 1 /\ queue'[Len(queue) + 1] = t
                 /\ \A i \in 1..Len(queue) : queue'[i] = queue[i]
<1> DEFINE S == Task
<1>1. queue \in Seq(S) /\ t \in S /\ drops \in 0..MaxDrops
  BY DEF TypeOK
<1> HIDE DEF S
<1>2. Len(queue) \in Nat
  BY <1>1, LenProperties
<1>3. CASE queue' = Append(queue, t) /\ UNCHANGED drops
  <2>1. queue' \in Seq(S) /\ Len(queue') = Len(queue) + 1
        /\ queue'[Len(queue) + 1] = t
        /\ \A i \in 1..Len(queue) : queue'[i] = queue[i]
    BY <1>1, <1>3, AppendProperties
  <2>2. QED BY <1>1, <1>2, <1>3, <2>1 DEF S
<1>4. CASE drops < MaxDrops /\ drops' = drops + 1 /\ UNCHANGED queue
  BY <1>1, <1>2, <1>4 DEF S
<1>5. QED BY <1>3, <1>4 DEF Posted

\* What is posted for a completion depends on the router running.
LEMMA CompletionFacts ==
    ASSUME NEW r \in Routes, NEW k \in Calls, NEW b \in BOOLEAN
    PROVE  LET t == Completion(r, k, b)
           IN  /\ t \in Task
               /\ router = "running" => t.kind = k /\ t.route = r /\ t.ok = b
               /\ router # "running" => t.kind = "process"
BY TaskFacts DEF Completion

\* Recording a completion keeps the phase of the entry.
LEMMA RecordFacts ==
    ASSUME NEW e \in EntryType, NEW k \in Calls, NEW b \in BOOLEAN
    PROVE  LET f == Record(e, k, b)
           IN  /\ f \in EntryType /\ f.phase = e.phase
               /\ f.asked = e.asked /\ f.callback = e.callback
               /\ k = "subscribe" => /\ f.subscribed = TRUE /\ f.reserved = b
                                     /\ f.unsubscribed = e.unsubscribed
               /\ k # "subscribe" =>
                     /\ f.subscribed = e.subscribed /\ f.reserved = e.reserved
                     /\ f.unsubscribed = IF b THEN "ok" ELSE "failed"
BY DEF Record, EntryType, Phases

\* start_unsubscribe leaves the call out, or records an answer that it may post.
LEMMA StartFacts ==
    ASSUME TypeOK, NEW r \in Routes, NEW e \in [Routes -> EntryType],
           NEW k \in {"release", "cleanup"}, StartUnsubscribe(r, e, k)
    PROVE  /\ entry' \in [Routes -> EntryType] /\ calls' \in [Routes -> Calls \cup {"none"}]
           /\ queue' \in Seq(Task) /\ drops' \in 0..MaxDrops /\ Len(queue) \in Nat
           /\ \A q \in Routes : q # r => entry'[q] = e[q] /\ calls'[q] = calls[q]
                                         /\ (q \in held' <=> q \in held)
           /\ held' \subseteq held
           /\ entry'[r].phase = e[r].phase /\ entry'[r].asked = e[r].asked
           /\ entry'[r].callback = e[r].callback
           /\ entry'[r].subscribed = e[r].subscribed /\ entry'[r].reserved = e[r].reserved
           /\ \/ /\ entry'[r] = e[r] /\ calls'[r] = k /\ queue' = queue /\ held' = held
              \/ /\ calls'[r] = calls[r]
                 /\ entry'[r].unsubscribed \in {"ok", "failed"}
                 /\ entry'[r].unsubscribed = "ok" => r \notin held'
                 /\ \/ queue' = queue
                    \/ /\ Len(queue') = Len(queue) + 1
                       /\ \A i \in 1..Len(queue) : queue'[i] = queue[i]
                       /\ LET t == queue'[Len(queue) + 1]
                          IN  \/ router # "running" /\ t.kind = "process"
                              \/ /\ router = "running"
                                 /\ t.kind = k /\ t.route = r
                                 /\ t.ok = (entry'[r].unsubscribed = "ok")
<1>0. queue \in Seq(Task) /\ Len(queue) \in Nat /\ k \in Calls /\ held \subseteq Routes
      /\ calls \in [Routes -> Calls \cup {"none"}] /\ drops \in 0..MaxDrops
  BY LenProperties DEF TypeOK, Calls
<1>1. CASE /\ entry' = e
           /\ calls' = [calls EXCEPT ![r] = k]
           /\ UNCHANGED <<queue, held, drops>>
  BY <1>0, <1>1
<1>2. ASSUME NEW ok \in BOOLEAN,
             /\ ok => r \in held
             /\ held' = IF ok THEN held \ {r} ELSE held
             /\ entry' = [e EXCEPT ![r] = Record(@, k, ok)]
             /\ Posted(Completion(r, k, ok))
             /\ UNCHANGED calls
      PROVE  /\ entry' \in [Routes -> EntryType]
             /\ queue' \in Seq(Task) /\ drops' \in 0..MaxDrops
             /\ \A q \in Routes : q # r => entry'[q] = e[q] /\ (q \in held' <=> q \in held)
             /\ held' \subseteq held
             /\ entry'[r] = Record(e[r], k, ok)
             /\ ok => r \notin held'
             /\ \/ queue' = queue
                \/ /\ Len(queue') = Len(queue) + 1
                   /\ \A i \in 1..Len(queue) : queue'[i] = queue[i]
                   /\ queue'[Len(queue) + 1] = Completion(r, k, ok)
  <2>1. Completion(r, k, ok) \in Task
    BY <1>0, CompletionFacts
  <2>2. /\ queue' \in Seq(Task) /\ drops' \in 0..MaxDrops
        /\ \/ queue' = queue
           \/ /\ Len(queue') = Len(queue) + 1
              /\ queue'[Len(queue) + 1] = Completion(r, k, ok)
              /\ \A i \in 1..Len(queue) : queue'[i] = queue[i]
    BY <1>2, <2>1, PostedFacts
  <2>3. Record(e[r], k, ok) \in EntryType
    BY <1>0, RecordFacts
  <2>4. QED BY <1>0, <1>2, <2>2, <2>3, SMTT(30)
<1>3. ASSUME NEW ok \in BOOLEAN
      PROVE  /\ LET f == Record(e[r], k, ok)
                IN  /\ f.phase = e[r].phase /\ f.asked = e[r].asked
                    /\ f.callback = e[r].callback /\ f.subscribed = e[r].subscribed
                    /\ f.reserved = e[r].reserved
                    /\ f.unsubscribed = IF ok THEN "ok" ELSE "failed"
             /\ LET t == Completion(r, k, ok)
                IN  \/ router # "running" /\ t.kind = "process"
                    \/ router = "running" /\ t.kind = k /\ t.route = r /\ t.ok = ok
  <2>1. e[r] \in EntryType /\ k # "subscribe"
    OBVIOUS
  <2>2. LET f == Record(e[r], k, ok)
        IN  /\ f.phase = e[r].phase /\ f.asked = e[r].asked
            /\ f.callback = e[r].callback /\ f.subscribed = e[r].subscribed
            /\ f.reserved = e[r].reserved
            /\ f.unsubscribed = IF ok THEN "ok" ELSE "failed"
    <3>1. \A d \in EntryType :
             LET f == Record(d, k, ok)
             IN  /\ f.phase = d.phase /\ f.asked = d.asked
                 /\ f.callback = d.callback /\ f.subscribed = d.subscribed
                 /\ f.reserved = d.reserved
                 /\ f.unsubscribed = IF ok THEN "ok" ELSE "failed"
      BY <2>1 DEF Record, EntryType
    <3>2. QED BY <2>1, <3>1
  <2>3. LET t == Completion(r, k, ok)
        IN  \/ router # "running" /\ t.kind = "process"
            \/ router = "running" /\ t.kind = k /\ t.route = r /\ t.ok = ok
    BY <1>0, CompletionFacts
  <2>4. QED BY <2>2, <2>3
<1>4. CASE \E ok \in BOOLEAN :
             /\ ok => r \in held
             /\ held' = IF ok THEN held \ {r} ELSE held
             /\ entry' = [e EXCEPT ![r] = Record(@, k, ok)]
             /\ Posted(Completion(r, k, ok))
             /\ UNCHANGED calls
  <2>1. PICK ok \in BOOLEAN :
             /\ ok => r \in held
             /\ held' = IF ok THEN held \ {r} ELSE held
             /\ entry' = [e EXCEPT ![r] = Record(@, k, ok)]
             /\ Posted(Completion(r, k, ok))
             /\ UNCHANGED calls
    BY <1>4
  <2> DEFINE f == Record(e[r], k, ok)
             t == Completion(r, k, ok)
  <2>2. /\ entry' \in [Routes -> EntryType]
        /\ queue' \in Seq(Task) /\ drops' \in 0..MaxDrops
        /\ \A q \in Routes : q # r => entry'[q] = e[q] /\ (q \in held' <=> q \in held)
        /\ held' \subseteq held
        /\ entry'[r] = f
        /\ ok => r \notin held'
        /\ \/ queue' = queue
           \/ /\ Len(queue') = Len(queue) + 1
              /\ \A i \in 1..Len(queue) : queue'[i] = queue[i]
              /\ queue'[Len(queue) + 1] = t
    BY <1>2, <2>1
  <2>3. /\ f.phase = e[r].phase /\ f.asked = e[r].asked
        /\ f.callback = e[r].callback /\ f.subscribed = e[r].subscribed
        /\ f.reserved = e[r].reserved
        /\ f.unsubscribed = IF ok THEN "ok" ELSE "failed"
    BY <1>3
  <2>4. \/ router # "running" /\ t.kind = "process"
        \/ router = "running" /\ t.kind = k /\ t.route = r /\ t.ok = ok
    BY <1>3
  <2>5. calls' = calls
    BY <2>1
  <2> HIDE DEF f, t
  <2>6. QED BY <1>0, <2>2, <2>3, <2>4, <2>5
<1>5. QED BY <1>1, <1>4 DEF StartUnsubscribe
-----------------------------------------------------------------------------
(* What an action does to the stack. *)

\* What the owner is doing is the head of its stack.
LEMMA StackFacts ==
    ASSUME Nested(stack)
    PROVE  /\ stack = <<>> \/ Len(stack) = 1 \/ Len(stack) = 2
           /\ Len(<<>>) = 0
           /\ At = "idle" <=> stack = <<>>
           /\ stack # <<>> => /\ Head(stack) = stack[1] /\ At = stack[1].at
                              /\ stack[1] \in Frame /\ Bottom \in Frame
           /\ At = "callback" => Len(stack) = 1 /\ Bottom = Head(stack)
           /\ At = "callback" => InCallback(Head(stack).route) /\ Head(stack).route \in Routes
           /\ At = "status" => Len(stack) = 1 /\ Bottom = Head(stack) /\ stack # <<>>
           /\ At \in {"idle", "status"} => \A r : ~InCallback(r)
           /\ At \in {"idle", "callback"} => \A r : ~Waits(r)
           /\ At \in {"idle", "process", "retry", "cleanup", "callback", "status"}
<1> DEFINE S == Frame
<1>1. \A f \in S : f.at \in {"process", "retry", "cleanup", "callback", "status"}
  BY FrameFacts
<1>2. \A f \in S : f.at = "callback" => f.route \in Routes
  BY FrameFacts
<1>3. stack \in Seq(S) /\ Len(stack) <= 2
      /\ (Len(stack) = 2 => /\ stack[1].at \notin {"callback", "status"}
                            /\ stack[2].at \in {"callback", "status"})
  BY DEF Nested
<1> HIDE DEF S
<1>4. stack # <<>> => /\ Head(stack) = stack[1] /\ stack[1] \in S /\ Bottom \in S
                      /\ Len(stack) = 1 \/ Len(stack) = 2
  BY <1>3, Pop DEF Bottom
<1>5. Len(<<>>) = 0
  OBVIOUS
<1>6. QED BY <1>1, <1>2, <1>3, <1>4, <1>5 DEF S, At, InCallback, Waits, Bottom

\* Callbacks that are under way stay so.
KeptCallbacks ==
    \A r : /\ InCallback(r)' <=> InCallback(r)
           /\ Waits(r)' <=> Waits(r)
           /\ InCallback(r) \/ Waits(r) => Bottom' = Bottom

\* A call made from a callback, or from the idle owner, nests.
LEMMA Pushed ==
    ASSUME Nested(stack), ApplicationRuns, NEW f \in Frame, f.at \notin {"callback", "status"},
           stack' = <<f>> \o stack
    PROVE  /\ Nested(stack') /\ At' = f.at /\ Head(stack)' = f /\ KeptCallbacks
<1> DEFINE S == Frame
<1>1. stack \in Seq(S) /\ f \in S
  BY DEF Nested
<1>2. /\ stack = <<>> \/ (Len(stack) = 1 /\ stack[1].at \in {"callback", "status"})
      /\ Len(<<>>) = 0
  BY StackFacts DEF ApplicationRuns
<1> HIDE DEF S
<1>3. /\ stack' \in Seq(S) /\ stack' # <<>> /\ Len(stack') = Len(stack) + 1
      /\ Head(stack') = f /\ stack'[1] = f
      /\ stack = <<>> => stack'[Len(stack')] = f
      /\ stack # <<>> => stack'[Len(stack')] = stack[Len(stack)]
      /\ Len(stack) = 1 => stack'[2] = stack[1]
  BY <1>1, Push
<1>4. stack # <<>> => Len(stack) = 1
  BY <1>2
<1>5. stack = <<>> => Len(stack) = 0
  BY StackFacts
<1>6. Nested(stack') /\ At' = f.at /\ Head(stack)' = f
  BY <1>2, <1>3, <1>4, <1>5 DEF S, Nested, At
<1>7. KeptCallbacks
  BY <1>3 DEF KeptCallbacks, InCallback, Waits, Bottom
<1>8. QED BY <1>6, <1>7

\* A pass that ends returns to the callback it interrupted, if any.
LEMMA Popped ==
    ASSUME Nested(stack), At \in {"retry", "process", "cleanup"}, stack' = Tail(stack)
    PROVE  /\ Nested(stack') /\ At' \in {"idle", "callback", "status"} /\ KeptCallbacks
<1> DEFINE S == Frame
<1>1. stack \in Seq(S) /\ stack # <<>> /\ Len(stack) <= 2
  BY StackFacts DEF Nested
<1>2. Len(stack) = 2 => /\ stack[1].at \notin {"callback", "status"}
                        /\ stack[2].at \in {"callback", "status"}
  BY DEF Nested
<1>3. Len(<<>>) = 0 /\ Head(stack) = stack[1] /\ stack[1].at \notin {"callback", "status"}
  BY <1>1, StackFacts DEF At
<1> HIDE DEF S
<1>4. LET t == stack'
           IN  /\ t \in Seq(S) /\ Len(t) = Len(stack) - 1 /\ Len(stack) \in {1, 2}
               /\ Len(stack) = 1 => t = <<>>
               /\ Len(stack) = 2 => /\ t # <<>> /\ t[1] = stack[2] /\ Head(t) = stack[2]
                                    /\ t[Len(t)] = stack[2]
  BY <1>1, Pop
<1>5. Nested(stack')
  BY <1>2, <1>3, <1>4 DEF S, Nested
<1>e. At' = IF stack' = <<>> THEN "idle" ELSE Head(stack').at
  BY DEF At
<1>f. At' \in {"idle", "callback", "status"}
  BY <1>2, <1>4, <1>e
<1>6. KeptCallbacks
  BY <1>2, <1>3, <1>4 DEF KeptCallbacks, InCallback, Waits, Bottom
<1>7. QED BY <1>5, <1>f, <1>6

\* A pass that goes on is still above the same callback.
LEMMA Swapped ==
    ASSUME Nested(stack), At \in {"retry", "process", "cleanup"},
           NEW f \in Frame, f.at \notin {"callback", "status"}, stack' = <<f>> \o Tail(stack)
    PROVE  /\ Nested(stack') /\ At' = f.at /\ Head(stack)' = f /\ KeptCallbacks
<1> DEFINE S == Frame
           t == Tail(stack)
<1>1. stack \in Seq(S) /\ stack # <<>> /\ Len(stack) <= 2 /\ f \in S
  BY StackFacts DEF Nested
<1>2. Len(stack) = 2 => /\ stack[1].at \notin {"callback", "status"}
                        /\ stack[2].at \in {"callback", "status"}
  BY DEF Nested
<1>3. Len(<<>>) = 0 /\ Head(stack) = stack[1] /\ stack[1].at \notin {"callback", "status"}
  BY <1>1, StackFacts DEF At
<1> HIDE DEF S
<1>4. /\ t \in Seq(S) /\ Len(t) = Len(stack) - 1 /\ Len(stack) \in {1, 2}
      /\ Len(stack) = 1 => t = <<>>
      /\ Len(stack) = 2 => t # <<>> /\ t[1] = stack[2] /\ t[Len(t)] = stack[2]
  BY <1>1, Pop
<1> HIDE DEF t
<1>5. stack' = <<f>> \o t
  BY DEF t
<1>6. /\ stack' \in Seq(S) /\ stack' # <<>> /\ Len(stack') = Len(t) + 1
      /\ Head(stack') = f /\ stack'[1] = f
      /\ t = <<>> => stack'[Len(stack')] = f
      /\ t # <<>> => stack'[Len(stack')] = t[Len(t)]
      /\ Len(t) = 1 => stack'[2] = t[1]
  BY <1>1, <1>4, <1>5, Push
<1>7. Nested(stack') /\ At' = f.at /\ Head(stack)' = f
  BY <1>1, <1>2, <1>3, <1>4, <1>6 DEF S, Nested, At
<1>8. KeptCallbacks
  BY <1>2, <1>3, <1>4, <1>6 DEF KeptCallbacks, InCallback, Waits, Bottom
<1>9. QED BY <1>7, <1>8

\* A frame alone on the stack is head and bottom.
LEMMA Single ==
    ASSUME NEW f \in Frame, stack' = <<f>>
    PROVE  /\ Nested(stack') /\ At' = f.at /\ Head(stack)' = f /\ Bottom' = f
           /\ \A r : InCallback(r)' <=> f.at = "callback" /\ f.route = r
           /\ \A r : Waits(r)' <=> f.at = "status" /\ r \in f.routes
<1>1. stack' \in Seq(Frame) /\ Len(stack') = 1 /\ stack'[1] = f /\ Head(stack') = f
      /\ stack' # <<>>
  OBVIOUS
<1>2. QED BY <1>1 DEF Nested, At, Bottom, InCallback, Waits

\* When the subscribe callback returns the owner is idle.
LEMMA CallbackReturns ==
    ASSUME Nested(stack), At = "callback", stack' = Tail(stack)
    PROVE  /\ Nested(stack') /\ stack' = <<>> /\ At' = "idle" /\ \A r : ~InCallback(r)' /\ ~Waits(r)'
<1> DEFINE S == Frame
<1>1. stack \in Seq(S) /\ stack # <<>> /\ Len(stack) = 1
  BY StackFacts DEF Nested
<1> HIDE DEF S
<1>2. stack' = <<>>
  BY <1>1, Pop
<1>3. Nested(<<>>)
  <2>1. <<>> \in Seq(Frame) /\ Len(<<>>) = 0
    OBVIOUS
  <2>2. Len(<<>>) <= 2 /\ Len(<<>>) # 2
    BY <2>1
  <2>3. QED BY <2>1, <2>2, Zenon DEF Nested
<1>4. Nested(stack')
  BY <1>2, <1>3, Zenon
<1>5. At' = "idle"
  BY <1>2 DEF At
<1>r. \A r : ~InCallback(r)' /\ ~Waits(r)'
  BY <1>2, Zenon DEF InCallback, Waits
<1>6. QED BY <1>2, <1>4, <1>5, <1>r

\* One of the routes in line for the status n is told it, and the rest waits.
Tells(n, routes, r) ==
    /\ r \in routes /\ told' = [told EXCEPT ![r] = n]
    /\ Nested(stack') /\ At' \in {"idle", "status"} /\ \A q : ~InCallback(q)'
    /\ \A q : Waits(q)' <=> q \in routes \ {r}
    /\ \A q : Waits(q)' => Bottom'.status = n

\* The next of those in line is told with nothing else going on.
LEMMA TellFacts ==
    ASSUME NEW n \in 1..MaxStatus, NEW routes \in SUBSET Routes, TellNext(n, routes, <<>>)
    PROVE  \E r \in routes : Tells(n, routes, r)
<1>1. PICK r \in routes :
         /\ told' = [told EXCEPT ![r] = n]
         /\ stack' = IF routes = {r} THEN <<>>
                     ELSE <<[at |-> "status", status |-> n, routes |-> routes \ {r}]>> \o <<>>
  BY DEF TellNext
<1> DEFINE f == [at |-> "status", status |-> n, routes |-> routes \ {r}]
<1>2. f \in Frame /\ f.at = "status" /\ f.status = n /\ f.routes = routes \ {r}
  BY FrameFacts
<1> HIDE DEF f
<1>3. CASE routes = {r}
  <2>1. stack' = <<>> /\ <<>> \in Seq(Frame) /\ Len(<<>>) = 0
    BY <1>1, <1>3
  <2>2. Nested(stack') /\ At' = "idle"
    BY <2>1 DEF Nested, At
  <2>3. \A q : ~InCallback(q)' /\ ~Waits(q)'
    BY <2>1 DEF InCallback, Waits
  <2>4. QED BY <1>1, <1>3, <2>2, <2>3 DEF Tells
<1>4. CASE routes # {r}
  <2>1. stack' = <<f>>
    <3>1. stack' = <<f>> \o <<>>
      BY <1>1, <1>4 DEF f
    <3>2. <<f>> \o <<>> = <<f>>
      OBVIOUS
    <3>3. QED BY <3>1, <3>2
  <2>2. /\ Nested(stack') /\ At' = "status" /\ Bottom' = f /\ \A q : ~InCallback(q)'
        /\ \A q : Waits(q)' <=> q \in routes \ {r}
    BY <1>2, <2>1, Single
  <2>3. QED BY <1>1, <1>2, <2>2 DEF Tells
<1>5. QED BY <1>3, <1>4

\* route_status goes on with the next of those it collected.
LEMMA TellOneFacts ==
    ASSUME Nested(stack), TellOne
    PROVE  /\ At = "status" /\ stack # <<>> /\ Bottom \in Frame /\ Bottom.routes \subseteq Routes
           /\ Bottom.status \in 1..MaxStatus
           /\ \A q : ~InCallback(q) /\ (Waits(q) <=> q \in Bottom.routes)
           /\ \E r \in Bottom.routes : Tells(Bottom.status, Bottom.routes, r)
<1>1. /\ At = "status" /\ stack # <<>> /\ Bottom \in Frame /\ Bottom.at = "status"
      /\ Bottom = Head(stack) /\ Len(stack) = 1 /\ \A q : ~InCallback(q)
  BY StackFacts DEF TellOne, At
<1>2. Bottom.routes \subseteq Routes /\ Bottom.status \in 1..MaxStatus
  BY <1>1, FrameFacts
<1>3. \A q : Waits(q) <=> q \in Bottom.routes
  BY <1>1 DEF Waits
<1>4. Tail(stack) = <<>>
  <2> DEFINE S == Frame
  <2>1. stack \in Seq(S) /\ stack # <<>> /\ Len(stack) = 1
    BY <1>1 DEF Nested
  <2>2. PICK t : t = Tail(stack)
    OBVIOUS
  <2> HIDE DEF S
  <2>3. Len(stack) <= 2
    BY <2>1
  <2>4. t = <<>>
    BY <2>1, <2>2, <2>3, Pop
  <2>5. QED BY <2>2, <2>4
<1>5. TellNext(Bottom.status, Bottom.routes, <<>>)
  BY <1>1, <1>4 DEF TellOne
<1>6. \E r \in Bottom.routes : Tells(Bottom.status, Bottom.routes, r)
  <2>1. PICK n \in 1..MaxStatus, R \in SUBSET Routes : n = Bottom.status /\ R = Bottom.routes
    BY <1>2
  <2>2. TellNext(n, R, <<>>)
    BY <1>5, <2>1
  <2>3. \E r \in R : Tells(n, R, r)
    BY <2>2, TellFacts
  <2>4. QED BY <2>1, <2>3
<1>7. QED BY <1>1, <1>2, <1>3, <1>6

\* route_status tells the first of those it collects, if there is any.
LEMMA RouteStatusFacts ==
    ASSUME Nested(stack), At = "idle", NEW t \in Task, t.kind = "status", RouteStatus(t)
    PROVE  /\ t.status \in 1..MaxStatus /\ Hearers \subseteq Routes /\ stack = <<>>
           /\ \/ told' = told /\ stack' = stack /\ Hearers = {}
              \/ \E r \in Hearers : Tells(t.status, Hearers, r)
<1>1. t.status \in 1..MaxStatus /\ stack = <<>>
  BY TaskFacts, StackFacts
<1>2. Hearers \in SUBSET Routes
  BY DEF Hearers
<1>3. CASE Hearers = {}
  BY <1>1, <1>2, <1>3 DEF RouteStatus
<1>4. CASE Hearers # {}
  <2>1. TellNext(t.status, Hearers, <<>>)
    BY <1>1, <1>4 DEF RouteStatus
  <2>2. QED BY <1>1, <1>2, <2>1, TellFacts
<1>5. QED BY <1>3, <1>4

\* A status that is taken up leaves the owner idle or handing it round.
LEMMA RouteStatusStack ==
    ASSUME Nested(stack), At = "idle", NEW t \in Task, t.kind = "status", RouteStatus(t)
    PROVE  Nested(stack') /\ At' \in {"idle", "status"} /\ \A q : ~InCallback(q)'
<1>1. CASE stack' = stack
  <2>1. \A q : ~InCallback(q)
    BY StackFacts
  <2>2. QED BY <1>1, <2>1 DEF At, InCallback, Bottom
<1>2. CASE \E r \in Hearers : Tells(t.status, Hearers, r)
  BY <1>2 DEF Tells
<1>3. QED BY <1>1, <1>2, RouteStatusFacts

\* Taking the first task shifts the queue.
LEMMA Dequeued ==
    ASSUME TypeOK, queue # <<>>, queue' = Tail(queue)
    PROVE  /\ queue' \in Seq(Task) /\ Head(queue) = queue[1] /\ Head(queue) \in Task
           /\ Len(queue) \in Nat /\ Len(queue) >= 1 /\ Len(queue') = Len(queue) - 1
           /\ \A i \in 1..Len(queue') : i + 1 \in 1..Len(queue) /\ queue'[i] = queue[i + 1]
<1> DEFINE S == Task
<1>1. queue \in Seq(S)
  BY DEF TypeOK
<1> HIDE DEF S
<1>2. /\ queue' \in Seq(S) /\ Head(queue) = queue[1] /\ Head(queue) \in S
      /\ Len(queue) \in Nat /\ Len(queue) >= 1 /\ Len(queue') = Len(queue) - 1
      /\ \A i \in 1..Len(queue') : i + 1 \in 1..Len(queue) /\ queue'[i] = queue[i + 1]
  BY <1>1, QueueTail
<1>3. QED BY <1>2 DEF S

\* The steps of RunTask, by the task and what it finds.
SubscribeFails(t) ==
    /\ t.kind = "subscribe" /\ ~t.ok /\ router = "running" /\ t.route \in Entries
    /\ entry[t.route].subscribed /\ SubscribeFailed(t.route)

SubscribeSucceeds(t) ==
    /\ t.kind = "subscribe" /\ t.ok /\ router = "running" /\ t.route \in Entries
    /\ entry[t.route].subscribed /\ entry[t.route].reserved /\ Subscribed(t.route)

SubscribePassed(t) ==
    t.kind = "subscribe" /\ UNCHANGED <<entry, cache, stack, answered, released, told>>

\* The owner runs the first task, in one of six ways.
LEMMA RunFacts ==
    ASSUME TypeOK, RunTask
    PROVE  LET t == Head(queue)
           IN  /\ At = "idle" /\ queue # <<>> /\ queue' = Tail(queue) /\ t \in Task
               /\ UNCHANGED <<router, operations, held, calls, reporter, environment>>
               /\ \/ SubscribeFails(t) \/ SubscribeSucceeds(t) \/ SubscribePassed(t)
                  \/ t.kind \in {"release", "cleanup"} /\ CompleteUnsubscribe(t)
                  \/ t.kind = "status" /\ RouteStatus(t)
                  \/ t.kind = "process" /\ RunProcess
<1>1. Head(queue) \in Task
  BY Dequeued DEF RunTask
<1>2. QED
  BY <1>1 DEF RunTask, CompleteSubscribe, CompleteUnsubscribe, RouteStatus, RunProcess,
              SubscribeFails, SubscribeSucceeds, SubscribePassed
-----------------------------------------------------------------------------
(* The type invariant. *)

\* A step keeps the types.
LEMMA TypeStep ==
    ASSUME TypeOK, Nesting, Next
    PROVE  TypeOK'
<1>0. MaxRetries \in Nat /\ MaxDrops \in Nat /\ MaxStatus \in Nat
  OBVIOUS
<1>t. entry \in [Routes -> EntryType] /\ calls \in [Routes -> Calls \cup {"none"}]
  BY DEF TypeOK
<1>c. released \in [Routes -> Nat] /\ answered \in [Routes -> Nat]
  BY DEF TypeOK
<1>1. ASSUME NEW r \in Routes, Subscribe(r) PROVE TypeOK'
  <2>1. /\ entry' = [entry EXCEPT ![r] = [@ EXCEPT !.phase = "pending"]]
        /\ calls' = [calls EXCEPT ![r] = "subscribe"]
    BY <1>1 DEF Subscribe
  <2>2. [entry[r] EXCEPT !.phase = "pending"] \in EntryType
    <3>1. entry[r] \in EntryType
      BY <1>t
    <3>2. QED BY <3>1 DEF EntryType, Phases
  <2>3. entry' \in [Routes -> EntryType] /\ calls' \in [Routes -> Calls \cup {"none"}]
    BY <1>t, <2>1, <2>2 DEF Calls
  <2>4. UNCHANGED <<router, cache, operations, queue, stack, reporter, held,
                    retries, drops, published, answered, released, told>>
    BY <1>1 DEF Subscribe, environment
  <2>5. QED BY <2>3, <2>4 DEF TypeOK
<1>2. ASSUME NEW r \in Routes, SubscribeInline(r) PROVE TypeOK'
  <2>1. PICK ok \in BOOLEAN :
          /\ Posted(Completion(r, "subscribe", ok))
          /\ entry' = [entry EXCEPT ![r] =
                           [Record(@, "subscribe", ok) EXCEPT
                               !.phase = "pending", !.posted = ok /\ queue' # queue]]
          /\ held' = IF ok THEN held \cup {r} ELSE held
    BY <1>2 DEF SubscribeInline
  <2>2. Completion(r, "subscribe", ok) \in Task
    BY CompletionFacts DEF Calls
  <2>3. queue' \in Seq(Task) /\ drops' \in 0..MaxDrops
    BY <2>1, <2>2, PostedFacts
  <2>4. Record(entry[r], "subscribe", ok) \in EntryType
    <3>1. entry[r] \in EntryType /\ "subscribe" \in Calls
      BY <1>t DEF Calls
    <3>2. QED BY <3>1, RecordFacts
  <2>5. entry' \in [Routes -> EntryType]
    <3>1. \A e \in EntryType, b \in BOOLEAN :
             [e EXCEPT !.phase = "pending", !.posted = b] \in EntryType
      BY DEF EntryType, Phases
    <3>2. QED BY <1>t, <2>1, <2>4, <3>1
  <2>6. QED BY <1>0, <1>2, <2>1, <2>3, <2>5 DEF TypeOK, SubscribeInline
<1>3. ASSUME NEW r \in Routes, Release(r) PROVE TypeOK'
  <2>1. [entry EXCEPT ![r] = Unsubscribing(@)] \in [Routes -> EntryType]
    BY <1>t, UnsubscribingFields
  <2>2. /\ entry' \in [Routes -> EntryType] /\ calls' \in [Routes -> Calls \cup {"none"}]
        /\ queue' \in Seq(Task) /\ drops' \in 0..MaxDrops /\ held' \subseteq held
    BY <1>3, <2>1, StartFacts DEF Release
  <2>3. QED BY <1>0, <1>3, <2>2 DEF TypeOK, Release
<1>4. ASSUME NEW r \in Routes, ReleasePending(r) PROVE TypeOK'
  <2>1. entry' \in [Routes -> EntryType]
    BY <1>t, <1>4, AskedFields DEF ReleasePending
  <2>2. QED BY <1>0, <1>4, <2>1 DEF TypeOK, ReleasePending, environment
<1>5. CASE RetryFailed
  <2>1. [at |-> "retry", routes |-> FailedCleanups] \in Frame
    BY FrameFacts DEF FailedCleanups
  <2>2. stack' \in Seq(Frame)
    BY <1>5, <2>1, Pushed DEF RetryFailed, Nesting, Nested
  <2>3. QED BY <1>0, <1>5, <2>2 DEF TypeOK, RetryFailed
<1>6. CASE Shutdown
  <2>1. stack' \in Seq(Frame)
    BY <1>6, FrameFacts, Pushed DEF Shutdown, Nesting, Nested
  <2>2. entry' \in [Routes -> EntryType]
    <3>1. \A e \in EntryType :
             [e EXCEPT !.callback = FALSE,
                       !.phase = IF @ # "failed" THEN @
                                 ELSE IF e.reserved THEN "pending" ELSE "active"]
                \in EntryType
      BY DEF EntryType, Phases
    <3>2. QED BY <1>t, <1>6, <3>1 DEF Shutdown
  <2>3. QED BY <1>0, <1>6, <2>1, <2>2 DEF TypeOK, Shutdown, environment
<1>7. CASE HostTick
  <2>1. stack' \in Seq(Frame)
    BY <1>7, FrameFacts, Single DEF HostTick, TypeOK, Nested
  <2>2. QED BY <1>0, <1>7, <2>1 DEF TypeOK, HostTick, environment
<1>8. CASE RunTask
  <2> DEFINE t == Head(queue)
  <2>1. queue' \in Seq(Task) /\ t \in Task
    BY <1>8, RunFacts, Dequeued
  <2>2. UNCHANGED <<router, operations, held, calls, reporter, retries, drops, published>>
    BY <1>8, RunFacts DEF environment
  <2>3. CASE SubscribeFails(t)
    <3>1. t.route \in Routes
      BY <2>3 DEF SubscribeFails, Entries
    <3>2. entry' \in [Routes -> EntryType]
      BY <1>t, <2>3, <3>1, FailedFields DEF SubscribeFails, SubscribeFailed
    <3>3. cache' \in 0..MaxStatus
      BY <1>0, <2>3 DEF TypeOK, SubscribeFails, SubscribeFailed, CacheAfter
    <3>4. released' = released \/ released' = [released EXCEPT ![t.route] = @ + 1]
      BY <2>3 DEF SubscribeFails, SubscribeFailed
    <3>5. answered' \in [Routes -> Nat] /\ released' \in [Routes -> Nat]
          /\ UNCHANGED <<stack, told>>
      BY <1>c, <2>3, <3>1, <3>4 DEF SubscribeFails, SubscribeFailed
    <3>6. QED BY <1>0, <2>1, <2>2, <3>2, <3>3, <3>5 DEF TypeOK
  <2>4. CASE SubscribeSucceeds(t)
    <3> DEFINE r == t.route
    <3>1. r \in Routes
      BY <2>4 DEF SubscribeSucceeds, Entries
    <3>2. CallbackFrame(r) \in Frame
      <4>1. /\ Replay(r) \in 0..MaxStatus
            /\ entry[r].asked \in BOOLEAN /\ entry[r].callback \in BOOLEAN
        BY <3>1 DEF TypeOK, Replay, EntryType
      <4>2. QED BY <3>1, <4>1, FrameFacts DEF CallbackFrame
    <3>3. stack' \in Seq(Frame)
      <4>1. stack' = <<CallbackFrame(r)>>
        BY <2>4 DEF SubscribeSucceeds, Subscribed
      <4>2. QED BY <3>2, <4>1, Single DEF Nested
    <3>4. entry' \in [Routes -> EntryType]
      BY <1>t, <2>4, <3>1, ActivatedFields DEF SubscribeSucceeds, Subscribed
    <3>5. /\ answered' = [answered EXCEPT ![r] = @ + 1]
          /\ UNCHANGED <<cache, released, told>>
      BY <2>4 DEF SubscribeSucceeds, Subscribed
    <3>6. answered' \in [Routes -> Nat]
      BY <1>c, <3>1, <3>5
    <3>7. QED BY <1>0, <2>1, <2>2, <3>3, <3>4, <3>5, <3>6 DEF TypeOK
  <2>5. CASE SubscribePassed(t)
    BY <1>0, <2>1, <2>2, <2>5 DEF TypeOK, SubscribePassed
  <2>6. CASE t.kind \in {"release", "cleanup"} /\ CompleteUnsubscribe(t)
    <3>1. t.route \in Routes
      BY <2>1, <2>6, TaskFacts DEF Calls
    <3>2. entry' \in [Routes -> EntryType]
      <4>1. \A e \in EntryType, ok \in BOOLEAN :
               [e EXCEPT !.unsubscribed = "no", !.phase = IF ok THEN "gone" ELSE "failed"]
                  \in EntryType
        BY DEF EntryType, Phases
      <4>2. t.ok \in BOOLEAN
        BY <2>1, <2>6, TaskFacts DEF Calls
      <4>3. QED BY <1>t, <2>6, <3>1, <4>1, <4>2 DEF CompleteUnsubscribe
    <3>3. cache' \in 0..MaxStatus
      BY <1>0, <2>6 DEF TypeOK, CompleteUnsubscribe, CacheAfter
    <3>4. released' \in [Routes -> Nat] /\ UNCHANGED <<stack, answered, told>>
      <4>1. released' = released \/ released' = [released EXCEPT ![t.route] = @ + 1]
        BY <2>6 DEF CompleteUnsubscribe
      <4>2. QED BY <1>c, <2>6, <3>1, <4>1 DEF CompleteUnsubscribe
    <3>5. QED BY <1>0, <2>1, <2>2, <3>2, <3>3, <3>4 DEF TypeOK
  <2>7. CASE t.kind = "status" /\ RouteStatus(t)
    <3>1. Nested(stack) /\ At = "idle"
      BY <1>8, RunFacts DEF Nesting
    <3>2. t.status \in 1..MaxStatus /\ stack' \in Seq(Frame)
      BY <2>1, <2>7, <3>1, RouteStatusFacts, RouteStatusStack DEF Nested
    <3>3. told' \in [Routes -> 0..MaxStatus]
      <4>1. CASE told' = told
        BY <4>1 DEF TypeOK
      <4>2. CASE \E r \in Hearers : Tells(t.status, Hearers, r)
        BY <1>0, <3>2, <4>2 DEF TypeOK, Tells, Hearers
      <4>3. QED BY <2>1, <2>7, <3>1, <4>1, <4>2, RouteStatusFacts
    <3>4. /\ cache' \in 0..MaxStatus
          /\ UNCHANGED <<entry, router, operations, held, calls, answered, released>>
      BY <1>0, <2>7, <3>2 DEF TypeOK, RouteStatus
    <3>5. QED BY <1>0, <2>1, <2>2, <3>2, <3>3, <3>4 DEF TypeOK
  <2>8. CASE t.kind = "process" /\ RunProcess
    <3>1. stack' \in Seq(Frame)
      BY <2>8, FrameFacts, Single DEF RunProcess, TypeOK, Nested
    <3>2. QED BY <1>0, <2>1, <2>2, <2>8, <3>1 DEF TypeOK, RunProcess
  <2>9. QED BY <1>8, RunFacts, <2>3, <2>4, <2>5, <2>6, <2>7, <2>8
<1>9. CASE FinishSubscribe
  <2>1. stack' \in Seq(Frame)
    BY <1>9, CallbackReturns DEF FinishSubscribe, Nesting, Nested
  <2>2. Head(stack).route \in Routes /\ Head(stack).status \in 0..MaxStatus
    BY <1>9, StackFacts, FrameFacts DEF FinishSubscribe, Nesting, At
  <2>3. QED BY <1>0, <1>9, <2>1, <2>2 DEF TypeOK, FinishSubscribe, environment
<1>10. CASE FinishReleased
  <2> DEFINE r == Head(stack).route
  <2>1. stack' \in Seq(Frame)
    BY <1>10, CallbackReturns DEF FinishReleased, Nesting, Nested
  <2>2. r \in Routes
    BY <1>10, StackFacts, FrameFacts DEF FinishReleased, Nesting
  <2>3. [entry EXCEPT ![r] = Unsubscribing(@)] \in [Routes -> EntryType]
    BY <1>t, <2>2, UnsubscribingFields
  <2>4. CASE entry[r].phase \in {"active", "failed"}
    <3>1. /\ entry' \in [Routes -> EntryType] /\ calls' \in [Routes -> Calls \cup {"none"}]
          /\ queue' \in Seq(Task) /\ drops' \in 0..MaxDrops /\ held' \subseteq held
      BY <1>10, <2>2, <2>3, <2>4, StartFacts DEF FinishReleased
    <3>2. QED BY <1>0, <1>10, <2>1, <3>1 DEF TypeOK, FinishReleased
  <2>5. CASE entry[r].phase \notin {"active", "failed"}
    BY <1>0, <1>10, <2>1, <2>5 DEF TypeOK, FinishReleased
  <2>6. QED BY <2>4, <2>5
<1>21. CASE TellOne
  <2>1. /\ Bottom.routes \subseteq Routes /\ Bottom.status \in 1..MaxStatus
        /\ \E r \in Bottom.routes : Tells(Bottom.status, Bottom.routes, r)
    BY <1>21, TellOneFacts DEF Nesting
  <2>2. stack' \in Seq(Frame)
    BY <2>1 DEF Tells, Nested
  <2>3. told' \in [Routes -> 0..MaxStatus]
    BY <1>0, <2>1 DEF TypeOK, Tells
  <2>4. QED BY <1>0, <1>21, <2>2, <2>3 DEF TypeOK, TellOne, environment
<1>11. CASE RetryOne
  <2>1. PICK r \in Head(stack).routes :
          /\ stack' = IF Head(stack).routes = {r} THEN Tail(stack)
                      ELSE <<[Head(stack) EXCEPT !.routes = @ \ {r}]>> \o Tail(stack)
          /\ StartUnsubscribe(r, [entry EXCEPT ![r] = Unsubscribing(@)], "cleanup")
    BY <1>11 DEF RetryOne
  <2>2. Head(stack) \in Frame /\ Head(stack).at = "retry" /\ At = "retry"
    BY <1>11, StackFacts DEF RetryOne, Nesting, At
  <2>3. Head(stack).routes \subseteq Routes
    BY <2>2, FrameFacts
  <2>4. stack' \in Seq(Frame)
    <3>1. Nested(stack) /\ At = "retry"
      BY <2>2 DEF Nesting
    <3>2. CASE stack' = Tail(stack)
      BY <3>1, <3>2, Popped DEF Nested
    <3>3. CASE stack' = <<[Head(stack) EXCEPT !.routes = @ \ {r}]>> \o Tail(stack)
      <4> DEFINE f == [Head(stack) EXCEPT !.routes = @ \ {r}]
      <4>1. f \in Frame /\ f.at = "retry"
        BY <2>2, <2>3, FrameFacts
      <4>2. stack' = <<f>> \o Tail(stack)
        BY <3>3
      <4> HIDE DEF f
      <4>3. QED BY <3>1, <4>1, <4>2, Swapped DEF Nested
    <3>4. QED BY <2>1, <3>2, <3>3
  <2>5. [entry EXCEPT ![r] = Unsubscribing(@)] \in [Routes -> EntryType]
    BY <1>t, <2>1, <2>3, UnsubscribingFields
  <2>6. /\ entry' \in [Routes -> EntryType] /\ calls' \in [Routes -> Calls \cup {"none"}]
        /\ queue' \in Seq(Task) /\ drops' \in 0..MaxDrops /\ held' \subseteq held
    BY <2>1, <2>3, <2>5, StartFacts
  <2>7. QED BY <1>0, <1>11, <2>4, <2>6 DEF TypeOK, RetryOne
<1>12. CASE ProcessPass
  <2> DEFINE cleanup == {r \in Routes : NeedsCleanup(entry[r])}
  <2>1. [at |-> "cleanup", routes |-> cleanup] \in Frame
    BY FrameFacts
  <2>2. stack' \in Seq(Frame)
    BY <1>12, <2>1, Popped, Swapped DEF ProcessPass, Nesting, Nested
  <2>3. entry' \in [Routes -> EntryType]
    <3>1. \A r \in Routes : DrainedEntry(entry[r]) \in EntryType
      BY ZenonT(30) DEF TypeOK, DrainedEntry, Applied, Removed, EntryType, Phases
    <3>2. QED BY <1>12, <3>1 DEF ProcessPass
  <2>4. QED BY <1>0, <1>12, <2>2, <2>3 DEF TypeOK, ProcessPass, CacheAfter, environment
<1>13. CASE CleanupOne
  <2>1. PICK r \in Head(stack).routes :
          /\ stack' = IF Head(stack).routes = {r}
                      THEN <<[at |-> "process"]>> \o Tail(stack)
                      ELSE <<[Head(stack) EXCEPT !.routes = @ \ {r}]>> \o Tail(stack)
          /\ StartUnsubscribe(r, entry, "cleanup")
    BY <1>13 DEF CleanupOne
  <2>2. Head(stack) \in Frame /\ Head(stack).at = "cleanup" /\ At = "cleanup"
    BY <1>13, StackFacts DEF CleanupOne, Nesting, At
  <2>3. Head(stack).routes \subseteq Routes
    BY <2>2, FrameFacts
  <2>4. stack' \in Seq(Frame)
    <3>1. Nested(stack) /\ At = "cleanup"
      BY <2>2 DEF Nesting
    <3>2. CASE stack' = <<[at |-> "process"]>> \o Tail(stack)
      BY <3>1, <3>2, FrameFacts, Swapped DEF Nested
    <3>3. CASE stack' = <<[Head(stack) EXCEPT !.routes = @ \ {r}]>> \o Tail(stack)
      <4> DEFINE f == [Head(stack) EXCEPT !.routes = @ \ {r}]
      <4>1. f \in Frame /\ f.at = "cleanup"
        BY <2>2, <2>3, FrameFacts
      <4>2. stack' = <<f>> \o Tail(stack)
        BY <3>3
      <4> HIDE DEF f
      <4>3. QED BY <3>1, <4>1, <4>2, Swapped DEF Nested
    <3>4. QED BY <2>1, <3>2, <3>3
  <2>5. /\ entry' \in [Routes -> EntryType] /\ calls' \in [Routes -> Calls \cup {"none"}]
        /\ queue' \in Seq(Task) /\ drops' \in 0..MaxDrops /\ held' \subseteq held
    BY <2>1, <2>3, StartFacts DEF TypeOK
  <2>6. QED BY <1>0, <1>13, <2>4, <2>5 DEF TypeOK, CleanupOne
<1>14. ASSUME NEW r \in Routes, Answer(r) PROVE TypeOK'
  <2>1. PICK ok \in BOOLEAN :
          /\ held' = IF ~ok THEN held
                     ELSE IF calls[r] = "subscribe" THEN held \cup {r} ELSE held \ {r}
          /\ entry' = [entry EXCEPT ![r] = Record(@, calls[r], ok)]
          /\ IF router = "running"
             THEN /\ reporter' = [kind |-> "post", task |-> Completion(r, calls[r], ok)]
                  /\ UNCHANGED <<queue, drops>>
             ELSE Posted(Completion(r, calls[r], ok)) /\ UNCHANGED reporter
    BY <1>14 DEF Answer
  <2>2. calls[r] \in Calls
    BY <1>14 DEF Answer, TypeOK
  <2>3. Completion(r, calls[r], ok) \in Task
    BY <2>2, CompletionFacts
  <2>4. queue' \in Seq(Task) /\ drops' \in 0..MaxDrops
    BY <1>0, <2>1, <2>3, PostedFacts DEF TypeOK
  <2>5. Record(entry[r], calls[r], ok) \in EntryType
    <3>1. entry[r] \in EntryType
      BY <1>t
    <3>2. QED BY <2>2, <3>1, RecordFacts
  <2>6. QED BY <1>0, <1>14, <2>1, <2>3, <2>4, <2>5 DEF TypeOK, Answer
<1>15. ASSUME NEW r \in Routes, HistoryAnswers(r) PROVE TypeOK'
  BY <1>0, <1>15 DEF TypeOK, HistoryAnswers, environment
<1>16. CASE PostReport
  <2>1. reporter.task \in Task
    BY <1>16, IdleFacts DEF PostReport
  <2>2. queue' \in Seq(Task) /\ drops' \in 0..MaxDrops
    BY <1>16, <2>1, PostedFacts DEF PostReport
  <2>3. reporter' \in {Idle} \cup [kind : {"post", "mark"}, task : Task]
    BY <1>16, <2>1, IdleFacts DEF TypeOK, PostReport
  <2>4. QED BY <1>0, <1>16, <2>2, <2>3 DEF TypeOK, PostReport
<1>17. CASE MarkReport
  <2>1. entry' \in [Routes -> EntryType]
    BY <1>t, <1>17, MarkedFields DEF MarkReport
  <2>2. QED BY <1>0, <1>17, <2>1 DEF TypeOK, MarkReport, environment
<1>18. CASE Publish
  <2>1. published + 1 \in 1..MaxStatus
    BY <1>0, <1>18 DEF TypeOK, Publish
  <2>2. queue' \in Seq(Task) /\ drops' \in 0..MaxDrops
    BY <1>18, <2>1, TaskFacts, PostedFacts DEF Publish
  <2>3. QED BY <1>0, <1>18, <2>1, <2>2 DEF TypeOK, Publish
<1>19. CASE Cancel
  <2>1. queue' \in Seq(Task)
    BY <1>19, Dequeued DEF Cancel
  <2>2. QED BY <1>0, <1>19, <2>1 DEF TypeOK, Cancel
<1>20. QED
  BY <1>1, <1>2, <1>3, <1>4, <1>5, <1>6, <1>7, <1>8, <1>9, <1>10,
     <1>11, <1>12, <1>13, <1>14, <1>15, <1>16, <1>17, <1>18, <1>19, <1>21
  DEF Next, Application, Owner, Provider

-----------------------------------------------------------------------------
(* What an action does to the entries, the calls and the queue. *)

\* Nothing happens to the other routes.
Others(r) ==
    \A q \in Routes : q # r =>
        entry'[q] = entry[q] /\ calls'[q] = calls[q] /\ (q \in held' <=> q \in held)

\* The queue stays, or has got the task t.
Grown(t) ==
    \/ queue' = queue
    \/ /\ Len(queue') = Len(queue) + 1 /\ queue'[Len(queue) + 1] = t
       /\ \A i \in 1..Len(queue) : queue'[i] = queue[i]

Entered == entry \in [Routes -> EntryType] /\ calls \in [Routes -> Calls \cup {"none"}]
           /\ held \subseteq Routes

\* The types that the effects below need.
LEMMA EnteredFacts == TypeOK => Entered /\ Len(queue) \in Nat
BY LenProperties DEF TypeOK, Entered

\* subscribe() of a route makes it pending.
LEMMA SubscribeEffect ==
    ASSUME Entered, NEW r \in Routes, Subscribe(r)
    PROVE  /\ Others(r) /\ router = "running" /\ entry[r].phase = "none"
           /\ calls'[r] = "subscribe" /\ held' = held /\ queue' = queue
           /\ LET e == entry[r]
                  f == entry'[r]
              IN  /\ f.phase = "pending" /\ f.reserved = e.reserved
                  /\ f.subscribed = e.subscribed /\ f.unsubscribed = e.unsubscribed
                  /\ f.asked = e.asked /\ f.callback = e.callback
<1>1. entry[r] \in EntryType
  BY DEF Entered
<1>2. entry' = [entry EXCEPT ![r] = [@ EXCEPT !.phase = "pending"]]
  BY DEF Subscribe
<1>3. LET e == entry[r]
          f == [e EXCEPT !.phase = "pending"]
      IN  /\ f.phase = "pending" /\ f.reserved = e.reserved
          /\ f.subscribed = e.subscribed /\ f.unsubscribed = e.unsubscribed
          /\ f.asked = e.asked /\ f.callback = e.callback
  BY <1>1, PhaseSet DEF Phases
<1>4. entry'[r] = [entry[r] EXCEPT !.phase = "pending"]
  BY <1>2 DEF Entered
<1>5. Others(r)
  BY <1>2 DEF Entered, Others, Subscribe
<1>6. QED BY <1>3, <1>4, <1>5 DEF Entered, Subscribe, environment

\* subscribe() answered inside the call records the completion at once.
LEMMA SubscribeInlineEffect ==
    ASSUME TypeOK, NEW r \in Routes, SubscribeInline(r)
    PROVE  /\ Others(r) /\ router = "running" /\ entry[r].phase = "none"
           /\ calls' = calls
           /\ LET e == entry[r]
                  f == entry'[r]
              IN  /\ f.phase = "pending" /\ f.subscribed = TRUE /\ f.reserved \in BOOLEAN
                  /\ f.unsubscribed = e.unsubscribed
                  /\ f.asked = e.asked /\ f.callback = e.callback
                  /\ r \in held' <=> (f.reserved \/ r \in held)
                  /\ \E t \in Task : /\ Grown(t) /\ t.kind = "subscribe" /\ t.route = r
                                     /\ t.ok = f.reserved
<1>0. Entered /\ Len(queue) \in Nat
  BY EnteredFacts
<1>1. PICK ok \in BOOLEAN :
          /\ Posted(Completion(r, "subscribe", ok))
          /\ entry' = [entry EXCEPT ![r] =
                           [Record(@, "subscribe", ok) EXCEPT
                               !.phase = "pending", !.posted = ok /\ queue' # queue]]
          /\ held' = IF ok THEN held \cup {r} ELSE held
  BY DEF SubscribeInline
<1>2. entry[r] \in EntryType /\ "subscribe" \in Calls /\ router = "running"
  BY <1>0 DEF Entered, Calls, SubscribeInline
<1> DEFINE c == Record(entry[r], "subscribe", ok)
           t == Completion(r, "subscribe", ok)
           b == ok /\ queue' # queue
           f == [c EXCEPT !.phase = "pending", !.posted = b]
<1>3. /\ c \in EntryType /\ c.subscribed = TRUE /\ c.reserved = ok
      /\ c.unsubscribed = entry[r].unsubscribed /\ c.asked = entry[r].asked
      /\ c.callback = entry[r].callback
  <2>1. \A e \in EntryType, b1 \in BOOLEAN :
           LET g == Record(e, "subscribe", b1)
           IN  /\ g \in EntryType /\ g.subscribed = TRUE /\ g.reserved = b1
               /\ g.unsubscribed = e.unsubscribed /\ g.asked = e.asked
               /\ g.callback = e.callback
    BY DEF Record, EntryType
  <2>2. QED BY <1>1, <1>2, <2>1
<1>4. t \in Task /\ t.kind = "subscribe" /\ t.route = r /\ t.ok = ok
  BY <1>2, CompletionFacts
<1>5. Grown(t)
  BY <1>1, <1>4, PostedFacts DEF Grown
<1>6. entry' = [entry EXCEPT ![r] = f] /\ b \in BOOLEAN
  BY <1>1
<1> HIDE DEF c, t, b
<1>7. /\ f.phase = "pending" /\ f.subscribed = c.subscribed /\ f.reserved = c.reserved
      /\ f.unsubscribed = c.unsubscribed /\ f.asked = c.asked /\ f.callback = c.callback
  BY <1>3 DEF EntryType
<1> HIDE DEF f
<1>8. entry'[r] = f /\ \A q \in Routes : q # r => entry'[q] = entry[q]
  BY <1>0, <1>6 DEF Entered
<1>9. calls' = calls /\ entry[r].phase = "none"
  BY DEF SubscribeInline
<1>10. Others(r)
  BY <1>1, <1>8, <1>9 DEF Others
<1>11. r \in held' <=> (ok \/ r \in held)
  BY <1>1
<1>12. QED BY <1>2, <1>3, <1>4, <1>5, <1>7, <1>8, <1>9, <1>10, <1>11

\* The answer that start_unsubscribe recorded is posted, unless it is lost.
Told(r, k) ==
    \E t : /\ Grown(t)
          /\ \/ router # "running" /\ t.kind = "process"
             \/ /\ router = "running" /\ t.kind = k /\ t.route = r
                /\ t.ok = (entry'[r].unsubscribed = "ok")

\* unsubscribe() of an entry of which the provider holds the subscription.
LEMMA LetGoEffect ==
    ASSUME TypeOK, NEW r \in Routes, NEW k \in {"release", "cleanup"},
           StartUnsubscribe(r, [entry EXCEPT ![r] = Unsubscribing(@)], k)
    PROVE  /\ Others(r) /\ held' \subseteq held
           /\ LET e == entry[r]
                  f == entry'[r]
              IN  /\ f.phase = "unsubscribing" /\ f.asked = TRUE /\ f.callback = e.callback
                  /\ f.subscribed = e.subscribed /\ f.reserved = e.reserved
                  /\ \/ /\ f.unsubscribed = e.unsubscribed /\ calls'[r] = k
                        /\ queue' = queue /\ held' = held
                     \/ /\ calls'[r] = calls[r] /\ f.unsubscribed \in {"ok", "failed"}
                        /\ f.unsubscribed = "ok" => r \notin held'
                        /\ Told(r, k)
<1> DEFINE d == [entry EXCEPT ![r] = Unsubscribing(@)]
<1>0. Entered /\ Len(queue) \in Nat
  BY EnteredFacts
<1>1. entry[r] \in EntryType
  BY <1>0 DEF Entered
<1>2. LET u == Unsubscribing(entry[r])
      IN  /\ u \in EntryType /\ u.asked = TRUE /\ u.phase = "unsubscribing"
          /\ u.callback = entry[r].callback /\ u.subscribed = entry[r].subscribed
          /\ u.reserved = entry[r].reserved /\ u.unsubscribed = entry[r].unsubscribed
  BY <1>1, UnsubscribingFields
<1>3. /\ d \in [Routes -> EntryType] /\ d[r] = Unsubscribing(entry[r])
      /\ \A q \in Routes : q # r => d[q] = entry[q]
  BY <1>0, <1>2 DEF Entered
<1> HIDE DEF d
<1>4. StartUnsubscribe(r, d, k)
  BY DEF d
<1>5. /\ \A q \in Routes : q # r => entry'[q] = d[q] /\ calls'[q] = calls[q]
                                      /\ (q \in held' <=> q \in held)
      /\ held' \subseteq held
      /\ entry'[r].phase = d[r].phase /\ entry'[r].asked = d[r].asked
      /\ entry'[r].callback = d[r].callback
      /\ entry'[r].subscribed = d[r].subscribed /\ entry'[r].reserved = d[r].reserved
      /\ \/ /\ entry'[r] = d[r] /\ calls'[r] = k /\ queue' = queue /\ held' = held
         \/ /\ calls'[r] = calls[r]
            /\ entry'[r].unsubscribed \in {"ok", "failed"}
            /\ entry'[r].unsubscribed = "ok" => r \notin held'
            /\ \/ queue' = queue
               \/ /\ Len(queue') = Len(queue) + 1
                  /\ \A i \in 1..Len(queue) : queue'[i] = queue[i]
                  /\ LET t == queue'[Len(queue) + 1]
                     IN  \/ router # "running" /\ t.kind = "process"
                         \/ /\ router = "running" /\ t.kind = k /\ t.route = r
                            /\ t.ok = (entry'[r].unsubscribed = "ok")
  BY <1>3, <1>4, StartFacts
<1>6. Others(r)
  BY <1>3, <1>5 DEF Others
<1>7. ASSUME calls'[r] # k \/ queue' # queue \/ held' # held \/ entry'[r] # d[r]
      PROVE  Told(r, k)
  <2>1. CASE queue' = queue
    <3> DEFINE p == [kind |-> "process"]
               s == [kind |-> k, route |-> r, ok |-> entry'[r].unsubscribed = "ok"]
    <3>1. Grown(p) /\ Grown(s)
      BY <2>1 DEF Grown
    <3>2. p.kind = "process" /\ s.kind = k /\ s.route = r
          /\ s.ok = (entry'[r].unsubscribed = "ok")
      OBVIOUS
    <3> HIDE DEF p, s
    <3>3. QED BY <3>1, <3>2 DEF Told
  <2>2. CASE queue' # queue
    <3>1. Grown(queue'[Len(queue) + 1])
      BY <1>5, <2>2 DEF Grown
    <3>2. QED BY <1>5, <2>2, <3>1 DEF Told
  <2>3. QED BY <2>1, <2>2
<1>8. QED BY <1>2, <1>3, <1>5, <1>6, <1>7

\* unsubscribe() of a pending route only leaves a request.
LEMMA ReleasePendingEffect ==
    ASSUME Entered, NEW r \in Routes, ReleasePending(r)
    PROVE  /\ Others(r) /\ calls' = calls /\ held' = held /\ queue' = queue
           /\ LET e == entry[r]
                  f == entry'[r]
              IN  /\ e.phase = "pending" /\ ~e.asked
                  /\ f.phase = e.phase /\ f.reserved = e.reserved
                  /\ f.subscribed = e.subscribed /\ f.unsubscribed = e.unsubscribed
                  /\ f.asked = TRUE /\ f.callback = TRUE
<1>1. entry' = [entry EXCEPT ![r] = [@ EXCEPT !.asked = TRUE, !.callback = TRUE]]
      /\ entry[r] \in EntryType
  BY DEF ReleasePending, Entered
<1>2. entry'[r] = [entry[r] EXCEPT !.asked = TRUE, !.callback = TRUE]
      /\ \A q \in Routes : q # r => entry'[q] = entry[q]
  BY <1>1 DEF Entered
<1>3. LET e == entry[r]
          f == [e EXCEPT !.asked = TRUE, !.callback = TRUE]
      IN  /\ f.phase = e.phase /\ f.reserved = e.reserved
          /\ f.subscribed = e.subscribed /\ f.unsubscribed = e.unsubscribed
          /\ f.asked = TRUE /\ f.callback = TRUE
  BY <1>1, AskedFields
<1>4. QED BY <1>2, <1>3 DEF ReleasePending, Others

\* shutdown() makes failed cleanups ordinary entries again.
LEMMA ShutdownEffect ==
    ASSUME Entered, Shutdown, NEW q \in Routes
    PROVE  LET e == entry[q]
               f == entry'[q]
           IN  /\ f.phase = IF e.phase # "failed" THEN e.phase
                            ELSE IF e.reserved THEN "pending" ELSE "active"
               /\ f.reserved = e.reserved /\ f.callback = FALSE /\ f.asked = e.asked
               /\ f.subscribed = e.subscribed /\ f.unsubscribed = e.unsubscribed
<1>1. entry[q] \in EntryType
  BY DEF Entered
<1>2. entry'[q] = [entry[q] EXCEPT !.callback = FALSE,
                                   !.phase = IF @ # "failed" THEN @
                                             ELSE IF entry[q].reserved THEN "pending"
                                             ELSE "active"]
  BY DEF Shutdown
<1>3. QED BY <1>1, <1>2 DEF EntryType

\* An answer is recorded in the entry and goes to the reporter.
LEMMA AnswerEffect ==
    ASSUME TypeOK, NEW r \in Routes, Answer(r)
    PROVE  /\ Others(r) /\ reporter = Idle /\ calls[r] \in Calls /\ calls'[r] = "none"
           /\ LET e == entry[r]
                  f == entry'[r]
                  k == calls[r]
              IN  /\ f.phase = e.phase /\ f.asked = e.asked /\ f.callback = e.callback
                  /\ k = "subscribe" => /\ f.subscribed = TRUE /\ f.unsubscribed = e.unsubscribed
                                        /\ r \in held' <=> (f.reserved \/ r \in held)
                                        /\ f.reserved \in BOOLEAN
                  /\ k # "subscribe" => /\ f.subscribed = e.subscribed /\ f.reserved = e.reserved
                                        /\ f.unsubscribed \in {"ok", "failed"}
                                        /\ f.unsubscribed = "ok" => r \notin held'
                                        /\ r \in held' => r \in held
                  /\ router = "running" =>
                        /\ queue' = queue /\ reporter' # Idle /\ reporter'.kind = "post"
                        /\ reporter'.task.kind = k /\ reporter'.task.route = r
                        /\ reporter'.task.ok = (IF k = "subscribe" THEN f.reserved
                                                ELSE f.unsubscribed = "ok")
                  /\ router # "running" =>
                        reporter' = reporter /\ \E t : Grown(t) /\ t.kind = "process"
<1>0. Entered /\ Len(queue) \in Nat
  BY EnteredFacts
<1>1. PICK ok \in BOOLEAN :
          /\ calls[r] # "subscribe" /\ ok => r \in held
          /\ held' = IF ~ok THEN held
                     ELSE IF calls[r] = "subscribe" THEN held \cup {r} ELSE held \ {r}
          /\ entry' = [entry EXCEPT ![r] = Record(@, calls[r], ok)]
          /\ IF router = "running"
             THEN /\ reporter' = [kind |-> "post", task |-> Completion(r, calls[r], ok)]
                  /\ UNCHANGED <<queue, drops>>
             ELSE Posted(Completion(r, calls[r], ok)) /\ UNCHANGED reporter
  BY DEF Answer
<1>2. entry[r] \in EntryType /\ calls[r] \in Calls
  BY <1>0 DEF Entered, Answer
<1> DEFINE k == calls[r]
           c == Record(entry[r], k, ok)
           t == Completion(r, k, ok)
<1>3. /\ c \in EntryType /\ c.phase = entry[r].phase
      /\ c.asked = entry[r].asked /\ c.callback = entry[r].callback
      /\ k = "subscribe" => /\ c.subscribed = TRUE /\ c.reserved = ok
                            /\ c.unsubscribed = entry[r].unsubscribed
      /\ k # "subscribe" => /\ c.subscribed = entry[r].subscribed
                            /\ c.reserved = entry[r].reserved
                            /\ c.unsubscribed = IF ok THEN "ok" ELSE "failed"
  <2>1. \A e \in EntryType, b \in BOOLEAN :
           LET g == Record(e, "subscribe", b)
           IN  /\ g \in EntryType /\ g.phase = e.phase
               /\ g.asked = e.asked /\ g.callback = e.callback
               /\ g.subscribed = TRUE /\ g.reserved = b
               /\ g.unsubscribed = e.unsubscribed
    BY ZenonT(30) DEF Record, EntryType
  <2>2. k # "subscribe" =>
          \A e \in EntryType, b \in BOOLEAN :
             LET g == Record(e, k, b)
             IN  /\ g \in EntryType /\ g.phase = e.phase
                 /\ g.asked = e.asked /\ g.callback = e.callback
                 /\ g.subscribed = e.subscribed /\ g.reserved = e.reserved
                 /\ g.unsubscribed = IF b THEN "ok" ELSE "failed"
    <3> HIDE DEF k
    <3>1. QED BY DEF Record, EntryType
  <2>3. ok \in BOOLEAN
    OBVIOUS
  <2>4. CASE k = "subscribe"
    BY <1>2, <2>1, <2>3, <2>4
  <2>5. CASE k # "subscribe"
    BY <1>2, <2>2, <2>3, <2>5
  <2>6. QED BY <2>4, <2>5
<1>4. /\ t \in Task
      /\ router = "running" => t.kind = k /\ t.route = r /\ t.ok = ok
      /\ router # "running" => t.kind = "process"
  BY <1>2, CompletionFacts
<1>5. router # "running" => Grown(t)
  BY <1>1, <1>4, PostedFacts DEF Grown
<1>6. /\ entry'[r] = c /\ \A q \in Routes : q # r => entry'[q] = entry[q]
      /\ calls'[r] = "none" /\ \A q \in Routes : q # r => calls'[q] = calls[q]
      /\ reporter = Idle
  BY <1>0, <1>1 DEF Entered, Answer
<1>7. router = "running" =>
         /\ queue' = queue /\ reporter' # Idle /\ reporter'.kind = "post"
         /\ reporter'.task = t
  BY <1>1, IdleFacts
<1>8. router # "running" => reporter' = reporter
  BY <1>1
<1> HIDE DEF c, t
<1>9. Others(r)
  BY <1>1, <1>6 DEF Others
<1>10. /\ k = "subscribe" => (r \in held' <=> (ok \/ r \in held))
       /\ k # "subscribe" => (ok => r \notin held') /\ (r \in held' => r \in held)
  BY <1>1
<1>11. ok \in BOOLEAN
  OBVIOUS
<1> HIDE DEF k
<1>12. k = calls[r]
  BY DEF k
<1>13. QED BY <1>2, <1>3, <1>4, <1>5, <1>6, <1>7, <1>8, <1>9, <1>10, <1>11, <1>12

\* A pass of process() applies, unsubscribes or removes an entry, or passes it by.
LEMMA PassEffect ==
    ASSUME Entered, ProcessPass, NEW q \in Routes
    PROVE  LET e == entry[q]
               f == entry'[q]
           IN  /\ f.reserved = e.reserved /\ f.callback = e.callback /\ f.asked = e.asked
               /\ f.subscribed = e.subscribed
               /\ \/ /\ e.phase = "unsubscribing" /\ e.unsubscribed # "no"
                     /\ f.unsubscribed = "no"
                     /\ f.phase = IF e.unsubscribed = "ok" THEN "gone" ELSE "failed"
                  \/ /\ NeedsCleanup(e) /\ f.unsubscribed = e.unsubscribed
                     /\ f.phase = "unsubscribing"
                  \/ /\ e.phase = "pending" /\ e.subscribed /\ ~e.reserved
                     /\ f.unsubscribed = e.unsubscribed /\ f.phase = "gone"
                  \/ /\ ~NeedsCleanup(e) /\ f = e
<1>1. entry[q] \in EntryType
  BY DEF Entered
<1>2. entry'[q] = DrainedEntry(entry[q])
  BY DEF ProcessPass
<1>3. \A e \in EntryType :
         LET f == DrainedEntry(e)
         IN    /\ f.reserved = e.reserved /\ f.callback = e.callback /\ f.asked = e.asked
               /\ f.subscribed = e.subscribed
               /\ \/ /\ e.phase = "unsubscribing" /\ e.unsubscribed # "no"
                     /\ f.unsubscribed = "no"
                     /\ f.phase = IF e.unsubscribed = "ok" THEN "gone" ELSE "failed"
                  \/ /\ NeedsCleanup(e) /\ f.unsubscribed = e.unsubscribed
                     /\ f.phase = "unsubscribing"
                  \/ /\ e.phase = "pending" /\ e.subscribed /\ ~e.reserved
                     /\ f.unsubscribed = e.unsubscribed /\ f.phase = "gone"
                  \/ /\ ~NeedsCleanup(e) /\ f = e
  BY DEF DrainedEntry, Applied, Removed, NeedsCleanup, EntryType
<1>4. QED BY <1>1, <1>2, <1>3

\* A mark changes nothing but the mark.
LEMMA MarkEffect ==
    ASSUME Entered, TypeOK, MarkReport, NEW q \in Routes
    PROVE  LET e == entry[q]
               f == entry'[q]
           IN  /\ f.reserved = e.reserved /\ f.callback = e.callback /\ f.asked = e.asked
               /\ f.subscribed = e.subscribed /\ f.phase = e.phase
               /\ f.unsubscribed = e.unsubscribed
<1>1. entry[q] \in EntryType
  BY DEF Entered
<1>2. \/ entry'[q] = entry[q]
      \/ /\ entry[q].phase = "pending"
         /\ entry'[q] = [entry[q] EXCEPT !.posted = TRUE]
  <2> DEFINE r == reporter.task.route
  <2>1. \/ entry' = entry
        \/ entry[r].phase = "pending"
           /\ entry' = [entry EXCEPT ![r] = [@ EXCEPT !.posted = TRUE]]
    BY DEF MarkReport
  <2>2. entry \in [Routes -> EntryType]
    BY DEF Entered
  <2> HIDE DEF r
  <2>3. CASE r = q
    BY <2>1, <2>2, <2>3
  <2>4. CASE r # q
    BY <2>1, <2>2, <2>4
  <2>5. QED BY <2>3, <2>4
<1>3. QED BY <1>1, <1>2, MarkedFields

\* complete_subscribe of a failure ends the entry.
LEMMA FailsEffect ==
    ASSUME Entered, NEW t \in Task, SubscribeFails(t)
    PROVE  LET r == t.route
               e == entry[r]
               f == entry'[r]
           IN  /\ r \in Routes /\ e.phase \in Phases /\ e.subscribed
               /\ \A q \in Routes : q # r => entry'[q] = entry[q]
               /\ f.phase = "gone" /\ f.callback = FALSE /\ f.reserved = e.reserved
               /\ f.subscribed = e.subscribed /\ f.unsubscribed = e.unsubscribed
               /\ f.asked = e.asked
<1> DEFINE r == t.route
<1>1. r \in Routes /\ entry[r].phase \in Phases /\ entry[r].subscribed
      /\ entry' = [entry EXCEPT ![r] = [Removed(@) EXCEPT !.callback = FALSE]]
  BY DEF SubscribeFails, SubscribeFailed, Entries
<1> HIDE DEF r
<1>2. entry[r] \in EntryType
  BY <1>1 DEF Entered
<1>3. /\ entry'[r] = [Removed(entry[r]) EXCEPT !.callback = FALSE]
      /\ \A q \in Routes : q # r => entry'[q] = entry[q]
  BY <1>1 DEF Entered
<1>4. QED BY ZenonT(30), <1>1, <1>2, <1>3, FailedFields DEF r

\* complete_subscribe of a success activates the entry and calls back.
LEMMA SucceedsEffect ==
    ASSUME Entered, cache \in 0..MaxStatus, NEW t \in Task, SubscribeSucceeds(t)
    PROVE  LET r == t.route
               e == entry[r]
               f == entry'[r]
           IN  /\ r \in Routes /\ e.phase \in Phases /\ e.subscribed /\ e.reserved
               /\ \A q \in Routes : q # r => entry'[q] = entry[q]
               /\ f.phase = "active" /\ f.callback = FALSE /\ f.reserved = FALSE
               /\ f.subscribed = FALSE /\ f.unsubscribed = e.unsubscribed
               /\ f.asked = e.asked
               /\ Nested(stack') /\ At' = "callback" /\ \A q : (InCallback(q)' <=> q = r) /\ ~Waits(q)'
               /\ Bottom'.asked = e.asked /\ Bottom'.callback = e.callback
               /\ ~e.asked => Bottom'.status = cache
<1> DEFINE r == t.route
           c == CallbackFrame(r)
<1>1. r \in Routes /\ entry[r].phase \in Phases /\ entry[r].subscribed /\ entry[r].reserved
      /\ entry' = [entry EXCEPT ![r] = Activated(@)] /\ stack' = <<c>>
  BY DEF SubscribeSucceeds, Subscribed, Entries
<1>2. entry[r] \in EntryType /\ Replay(r) \in 0..MaxStatus
  BY <1>1 DEF Entered, Replay
<1>3. entry[r].asked \in BOOLEAN /\ entry[r].callback \in BOOLEAN
  BY <1>2, EntryFields
<1>4. /\ c \in Frame /\ c.at = "callback" /\ c.route = r /\ c.status = Replay(r)
      /\ c.asked = entry[r].asked /\ c.callback = entry[r].callback
  BY <1>1, <1>2, <1>3, FrameFacts DEF CallbackFrame
<1>5. ~entry[r].asked => Replay(r) = cache
  BY DEF Replay
<1> HIDE DEF r, c
<1>6. /\ entry'[r] = Activated(entry[r])
      /\ \A q \in Routes : q # r => entry'[q] = entry[q]
  BY <1>1 DEF Entered
<1>7. /\ Nested(stack') /\ At' = c.at /\ Bottom' = c
      /\ \A q : InCallback(q)' <=> c.at = "callback" /\ c.route = q
      /\ \A q : Waits(q)' <=> c.at = "status" /\ q \in c.routes
  BY <1>1, <1>4, Single
<1>8. QED BY ZenonT(30), <1>1, <1>2, <1>4, <1>5, <1>6, <1>7, ActivatedFields DEF r

\* complete_unsubscribe applies a recorded completion, or does nothing.
LEMMA UnsubscribedEffect ==
    ASSUME Entered, released \in [Routes -> Nat], NEW t \in Task,
           t.kind \in {"release", "cleanup"}, CompleteUnsubscribe(t)
    PROVE  LET r == t.route
               e == entry[r]
               f == entry'[r]
           IN  /\ r \in Routes /\ t.ok \in BOOLEAN
               /\ \A q \in Routes : q # r => entry'[q] = entry[q] /\ released'[q] = released[q]
               /\ \/ entry' = entry /\ released' = released
                  \/ /\ e.phase = "unsubscribing" /\ e.unsubscribed # "no"
                     /\ f.phase = IF t.ok THEN "gone" ELSE "failed"
                     /\ f.unsubscribed = "no"
                     /\ f.callback = e.callback /\ f.reserved = e.reserved
                     /\ f.subscribed = e.subscribed /\ f.asked = e.asked
                     /\ \/ released' = released
                        \/ /\ t.kind = "release" /\ router = "running"
                           /\ released' = [released EXCEPT ![r] = @ + 1]
<1> DEFINE r == t.route
<1>1. r \in Routes /\ t.ok \in BOOLEAN
  BY TaskFacts DEF Calls
<1>2. \/ entry' = entry /\ released' = released
      \/ /\ entry[r].phase = "unsubscribing" /\ entry[r].unsubscribed # "no"
         /\ entry' = [entry EXCEPT ![r] = [@ EXCEPT !.unsubscribed = "no",
                                                    !.phase = IF t.ok THEN "gone" ELSE "failed"]]
         /\ \/ released' = released
            \/ /\ t.kind = "release" /\ router = "running"
               /\ released' = [released EXCEPT ![r] = @ + 1]
  BY DEF CompleteUnsubscribe
<1>3. CASE entry' = entry /\ released' = released
  BY <1>1, <1>3
<1>4. ASSUME entry[r].phase = "unsubscribing", entry[r].unsubscribed # "no",
             entry' = [entry EXCEPT ![r] = [@ EXCEPT !.unsubscribed = "no",
                                                    !.phase = IF t.ok THEN "gone" ELSE "failed"]],
             \/ released' = released
             \/ /\ t.kind = "release" /\ router = "running"
                /\ released' = [released EXCEPT ![r] = @ + 1]
      PROVE  LET e == entry[r]
                 f == entry'[r]
             IN  /\ \A q \in Routes : q # r => entry'[q] = entry[q] /\ released'[q] = released[q]
                 /\ f.phase = IF t.ok THEN "gone" ELSE "failed"
                 /\ f.unsubscribed = "no"
                 /\ f.callback = e.callback /\ f.reserved = e.reserved
                 /\ f.subscribed = e.subscribed /\ f.asked = e.asked
  <2> HIDE DEF r
  <2>1. entry[r] \in EntryType
    BY <1>1 DEF Entered
  <2> DEFINE p == IF t.ok THEN "gone" ELSE "failed"
  <2>2. p \in Phases \cup {"none", "gone"}
    BY DEF Phases
  <2>3. entry' = [entry EXCEPT ![r] = [@ EXCEPT !.unsubscribed = "no", !.phase = p]]
    BY <1>4
  <2> HIDE DEF p
  <2>4. /\ entry'[r] = [entry[r] EXCEPT !.unsubscribed = "no", !.phase = p]
        /\ \A q \in Routes : q # r => entry'[q] = entry[q]
    BY <1>1, <2>3 DEF Entered
  <2>5. \A q \in Routes : q # r => released'[q] = released[q]
    BY <1>4
  <2>6. LET e == entry[r]
            f == [e EXCEPT !.unsubscribed = "no", !.phase = p]
        IN  /\ f.phase = p /\ f.unsubscribed = "no"
            /\ f.callback = e.callback /\ f.reserved = e.reserved
            /\ f.subscribed = e.subscribed /\ f.asked = e.asked
    BY <2>1, <2>2, AppliedFields
  <2>7. QED BY <2>4, <2>5, <2>6 DEF p
<1>5. QED BY <1>1, <1>2, <1>3, <1>4
-----------------------------------------------------------------------------
(* What an entry says agrees with the call that is out. *)

\* A route that the provider holds nothing for stays so.
Stays == \A q \in Routes : Empty(q) => Empty(q)'

LetGo(r) ==
    /\ Others(r) /\ held' \subseteq held
    /\ entry'[r].phase = "unsubscribing"
    /\ entry'[r].subscribed = entry[r].subscribed /\ entry'[r].reserved = entry[r].reserved
    /\ \/ entry'[r].unsubscribed = entry[r].unsubscribed
          /\ calls'[r] \in {"release", "cleanup"} /\ held' = held
       \/ /\ calls'[r] = calls[r] /\ entry'[r].unsubscribed \in {"ok", "failed"}
          /\ entry'[r].unsubscribed = "ok" => r \notin held'

\* start_unsubscribe keeps every entry in agreement with provider and calls.
LEMMA LetGoAgrees ==
    ASSUME Agreement, NEW r \in Routes, LetGo(r), router' = router,
           calls[r] = "none", entry[r].unsubscribed = "no",
           router = "running" => ~entry[r].subscribed
    PROVE  Agreement' /\ Stays
BY DEF Agreement, Agrees, LetGo, Others, Phases, Empty, Stays

\* A step keeps the agreement, and a route that is empty stays empty.
LEMMA AgreementStep ==
    ASSUME TypeOK, Nesting, Agreement, Emptied, Next
    PROVE  Agreement' /\ Stays
<1>a. Entered
  BY EnteredFacts
<1>b. /\ Agreement
      /\ \A q \in Routes : calls[q] \in {"none", "subscribe", "release", "cleanup"}
  BY <1>a DEF Entered, Calls
<1>1. ASSUME NEW r \in Routes, Subscribe(r) PROVE Agreement' /\ Stays
  <2>1. /\ Others(r) /\ router' = router /\ router = "running" /\ entry[r].phase = "none"
        /\ calls'[r] = "subscribe" /\ held' = held
        /\ entry'[r].phase = "pending" /\ entry'[r].reserved = entry[r].reserved
        /\ entry'[r].subscribed = entry[r].subscribed
        /\ entry'[r].unsubscribed = entry[r].unsubscribed
    BY <1>a, <1>1, SubscribeEffect DEF Subscribe
  <2>2. QED BY <1>b, <2>1 DEF Agreement, Agrees, Others, Phases, Stays, Empty
<1>2. ASSUME NEW r \in Routes, SubscribeInline(r) PROVE Agreement' /\ Stays
  <2>1. /\ Others(r) /\ router' = router /\ router = "running" /\ entry[r].phase = "none"
        /\ calls' = calls /\ entry'[r].phase = "pending" /\ entry'[r].subscribed = TRUE
        /\ entry'[r].unsubscribed = entry[r].unsubscribed
        /\ r \in held' <=> (entry'[r].reserved \/ r \in held)
    BY <1>2, SubscribeInlineEffect DEF SubscribeInline
  <2>2. QED BY <1>b, <2>1 DEF Agreement, Agrees, Others, Phases, Stays, Empty
<1>3. ASSUME NEW r \in Routes, Release(r) PROVE Agreement' /\ Stays
  <2>1. LetGo(r)
    BY <1>b, <1>3, LetGoEffect DEF Release, LetGo
  <2>2. /\ router' = router /\ calls[r] = "none" /\ entry[r].unsubscribed = "no"
        /\ router = "running" => ~entry[r].subscribed
    BY <1>b, <1>3 DEF Release, Agreement, Agrees
  <2>3. QED BY <1>b, <2>1, <2>2, LetGoAgrees
<1>4. ASSUME NEW r \in Routes, ReleasePending(r) PROVE Agreement' /\ Stays
  <2>1. /\ Others(r) /\ calls' = calls /\ held' = held /\ router' = router
        /\ entry'[r].phase = entry[r].phase /\ entry'[r].reserved = entry[r].reserved
        /\ entry'[r].subscribed = entry[r].subscribed
        /\ entry'[r].unsubscribed = entry[r].unsubscribed
    BY <1>a, <1>4, ReleasePendingEffect DEF ReleasePending
  <2>2. QED BY <1>b, <2>1 DEF Agreement, Agrees, Others, Phases, Stays, Empty
<1>5. CASE RetryFailed
  BY <1>b, <1>5 DEF RetryFailed, environment, Agreement, Agrees, Empty, Stays
<1>6. CASE Shutdown
  <2>1. calls' = calls /\ held' = held /\ router = "running" /\ router' = "draining"
    BY <1>6 DEF Shutdown
  <2>2. \A q \in Routes :
           /\ entry'[q].phase = IF entry[q].phase # "failed" THEN entry[q].phase
                                ELSE IF entry[q].reserved THEN "pending" ELSE "active"
           /\ entry'[q].reserved = entry[q].reserved
           /\ entry'[q].subscribed = entry[q].subscribed
           /\ entry'[q].unsubscribed = entry[q].unsubscribed
    BY <1>a, <1>6, ShutdownEffect
  <2>3. QED BY <1>b, <2>1, <2>2 DEF Agreement, Agrees, Others, Phases, Stays, Empty
<1>7. CASE HostTick
  BY <1>b, <1>7 DEF HostTick, environment, Agreement, Agrees, Empty, Stays
<1>8. CASE RunTask
  <2> DEFINE t == Head(queue)
             r == t.route
  <2>1. /\ t \in Task /\ router' = router /\ held' = held /\ calls' = calls
        /\ Empties(t) => Empty(r)
    BY <1>8, RunFacts, Dequeued DEF Emptied
  <2>2. CASE SubscribeFails(t)
    <3>1. /\ r \in Routes /\ entry[r].phase \in Phases /\ entry[r].subscribed
          /\ router = "running" /\ Empties(t)
          /\ \A q \in Routes : q # r => entry'[q] = entry[q]
          /\ entry'[r].phase = "gone" /\ entry'[r].reserved = entry[r].reserved
          /\ entry'[r].subscribed = entry[r].subscribed
          /\ entry'[r].unsubscribed = entry[r].unsubscribed
      BY <1>a, <2>1, <2>2, FailsEffect DEF SubscribeFails, Empties, Calls
    <3> HIDE DEF t, r
    <3>2. entry[r].phase = "pending"
      BY <1>b, <3>1 DEF Agreement, Agrees, Phases
    <3>3. r \notin held /\ calls[r] = "none" /\ entry[r].unsubscribed = "no"
      BY <1>b, <2>1, <3>1, <3>2 DEF Agreement, Agrees, Empty
    <3>4. QED BY ZenonT(30), <1>b, <2>1, <3>1, <3>3 DEF Agreement, Agrees, Phases, Empty, Stays
  <2>3. CASE SubscribeSucceeds(t)
    <3>1. cache \in 0..MaxStatus
      BY DEF TypeOK
    <3>2. /\ r \in Routes /\ entry[r].phase \in Phases /\ entry[r].subscribed
          /\ router = "running"
          /\ \A q \in Routes : q # r => entry'[q] = entry[q]
          /\ entry'[r].phase = "active" /\ entry'[r].reserved = FALSE
          /\ entry'[r].subscribed = FALSE
          /\ entry'[r].unsubscribed = entry[r].unsubscribed
      BY <1>a, <2>1, <2>3, <3>1, SucceedsEffect DEF SubscribeSucceeds
    <3> HIDE DEF t, r
    <3>3. QED BY <1>b, <2>1, <3>2 DEF Agreement, Agrees, Phases, Empty, Stays
  <2>4. CASE t.kind \in {"release", "cleanup"} /\ CompleteUnsubscribe(t)
    <3>1. /\ r \in Routes /\ t.ok \in BOOLEAN /\ (t.ok => Empties(t))
          /\ \A q \in Routes : q # r => entry'[q] = entry[q]
          /\ \/ entry' = entry
             \/ /\ entry[r].phase = "unsubscribing" /\ entry[r].unsubscribed # "no"
                /\ entry'[r].phase = IF t.ok THEN "gone" ELSE "failed"
                /\ entry'[r].unsubscribed = "no"
                /\ entry'[r].reserved = entry[r].reserved
                /\ entry'[r].subscribed = entry[r].subscribed
      <4>1. released \in [Routes -> Nat]
        BY DEF TypeOK
      <4>2. QED BY <1>a, <2>1, <2>4, <4>1, UnsubscribedEffect DEF Empties, Calls
    <3> HIDE DEF t, r
    <3>2. QED BY <1>b, <2>1, <3>1 DEF Agreement, Agrees, Phases, Empty, Stays
  <2>5. CASE entry' = entry
    <3> HIDE DEF t, r
    <3>1. QED BY <1>b, <2>1, <2>5 DEF Agreement, Agrees, Empty, Stays
  <2>6. QED BY <1>8, RunFacts, <2>2, <2>3, <2>4, <2>5
            DEF SubscribePassed, RouteStatus, RunProcess
<1>9. CASE FinishSubscribe
  BY <1>b, <1>9 DEF FinishSubscribe, environment, Agreement, Agrees, Empty, Stays
<1>10. CASE FinishReleased
  <2> DEFINE r == Head(stack).route
  <2>1. r \in Routes /\ router' = router
    BY <1>10, StackFacts DEF FinishReleased, Nesting
  <2>2. CASE entry[r].phase \in {"active", "failed"}
    <3>1. LetGo(r)
      BY <1>b, <1>10, <2>1, <2>2, LetGoEffect DEF FinishReleased, LetGo
    <3> HIDE DEF r
    <3>2. /\ calls[r] = "none" /\ entry[r].unsubscribed = "no"
          /\ router = "running" => ~entry[r].subscribed
      BY <1>b, <2>1, <2>2 DEF Agreement, Agrees
    <3>3. QED BY <1>b, <2>1, <3>1, <3>2, LetGoAgrees
  <2>3. CASE entry[r].phase \notin {"active", "failed"}
    BY <1>b, <1>10, <2>3 DEF FinishReleased, Agreement, Agrees, Empty, Stays
  <2>4. QED BY <2>2, <2>3
<1>21. CASE TellOne
  BY <1>b, <1>21 DEF TellOne, environment, Agreement, Agrees, Empty, Stays
<1>11. CASE RetryOne
  <2>1. PICK r \in Head(stack).routes :
          StartUnsubscribe(r, [entry EXCEPT ![r] = Unsubscribing(@)], "cleanup")
    BY <1>11 DEF RetryOne
  <2>2. r \in Routes /\ entry[r].phase = "failed" /\ router' = router
    BY <1>11, <2>1, StackFacts, FrameFacts DEF RetryOne, Nesting
  <2>3. LetGo(r)
    BY <1>b, <2>1, <2>2, LetGoEffect DEF LetGo
  <2>4. /\ calls[r] = "none" /\ entry[r].unsubscribed = "no"
        /\ router = "running" => ~entry[r].subscribed
    BY <1>b, <2>2 DEF Agreement, Agrees
  <2>5. QED BY <1>b, <2>2, <2>3, <2>4, LetGoAgrees
<1>12. CASE ProcessPass
  <2>1. calls' = calls /\ held' = held /\ router # "running" /\ router' # "running"
    BY <1>12 DEF ProcessPass, Nesting
  <2>2. \A q \in Routes :
           LET e == entry[q]
               f == entry'[q]
           IN  /\ f.reserved = e.reserved /\ f.subscribed = e.subscribed
               /\ \/ /\ e.phase = "unsubscribing" /\ e.unsubscribed # "no"
                     /\ f.unsubscribed = "no"
                     /\ f.phase = IF e.unsubscribed = "ok" THEN "gone" ELSE "failed"
                  \/ /\ (e.phase = "active" \/ (e.phase = "pending" /\ e.subscribed))
                     /\ f.unsubscribed = e.unsubscribed /\ f.phase = "unsubscribing"
                  \/ /\ e.phase = "pending" /\ e.subscribed /\ ~e.reserved
                     /\ f.unsubscribed = e.unsubscribed /\ f.phase = "gone"
                  \/ f = e
    BY <1>a, <1>12, PassEffect DEF NeedsCleanup
  <2>3. QED BY <1>b, <2>1, <2>2 DEF Agreement, Agrees, Others, Phases, Stays, Empty
<1>13. CASE CleanupOne
  <2>1. PICK r \in Head(stack).routes : StartUnsubscribe(r, entry, "cleanup")
    BY <1>13 DEF CleanupOne
  <2>2. r \in Routes /\ entry[r].phase = "unsubscribing" /\ entry[r].unsubscribed = "no"
        /\ calls[r] = "none" /\ router' = router /\ router # "running"
    BY <1>13, <2>1, StackFacts, FrameFacts DEF CleanupOne, Nesting
  <2>3. /\ Others(r) /\ held' \subseteq held
        /\ entry'[r].phase = entry[r].phase /\ entry'[r].reserved = entry[r].reserved
        /\ entry'[r].subscribed = entry[r].subscribed
        /\ \/ entry'[r] = entry[r] /\ calls'[r] = "cleanup"
           \/ calls'[r] = calls[r] /\ (entry'[r].unsubscribed = "ok" => r \notin held')
    BY <1>a, <2>1, <2>2, StartFacts DEF Others, Entered
  <2>4. QED BY <1>b, <2>2, <2>3 DEF Agreement, Agrees, Others, Phases, Stays, Empty
<1>14. ASSUME NEW r \in Routes, Answer(r) PROVE Agreement' /\ Stays
  <2>1. /\ Others(r) /\ calls[r] \in Calls /\ calls'[r] = "none" /\ router' = router
        /\ entry'[r].phase = entry[r].phase
        /\ calls[r] = "subscribe" =>
              /\ entry'[r].subscribed = TRUE
              /\ entry'[r].unsubscribed = entry[r].unsubscribed
              /\ r \in held' <=> (entry'[r].reserved \/ r \in held)
        /\ calls[r] # "subscribe" =>
              /\ entry'[r].subscribed = entry[r].subscribed
              /\ entry'[r].reserved = entry[r].reserved
              /\ entry'[r].unsubscribed = "ok" => r \notin held'
              /\ r \in held' => r \in held
    BY <1>14, AnswerEffect DEF Answer
  <2>2. QED BY <1>b, <2>1 DEF Agreement, Agrees, Others, Phases, Stays, Empty, Calls
<1>15. ASSUME NEW r \in Routes, HistoryAnswers(r) PROVE Agreement' /\ Stays
  BY <1>b, <1>15 DEF HistoryAnswers, environment, Agreement, Agrees, Empty, Stays
<1>16. CASE PostReport
  BY <1>b, <1>16 DEF PostReport, environment, Agreement, Agrees, Empty, Stays
<1>17. CASE MarkReport
  <2>1. calls' = calls /\ held' = held /\ router' = router
    BY <1>17 DEF MarkReport
  <2>2. \A q \in Routes :
           /\ entry'[q].reserved = entry[q].reserved
           /\ entry'[q].subscribed = entry[q].subscribed
           /\ entry'[q].phase = entry[q].phase
           /\ entry'[q].unsubscribed = entry[q].unsubscribed
    BY <1>a, <1>17, MarkEffect
  <2>3. QED BY <1>b, <2>1, <2>2 DEF Agreement, Agrees, Empty, Stays
<1>18. CASE Publish
  BY <1>b, <1>18 DEF Publish, environment, Agreement, Agrees, Empty, Stays
<1>19. CASE Cancel
  BY <1>b, <1>19 DEF Cancel, environment, Agreement, Agrees, Empty, Stays
<1>20. QED
  BY <1>1, <1>2, <1>3, <1>4, <1>5, <1>6, <1>7, <1>8, <1>9, <1>10,
     <1>11, <1>12, <1>13, <1>14, <1>15, <1>16, <1>17, <1>18, <1>19, <1>21
  DEF Next, Application, Owner, Provider

-----------------------------------------------------------------------------
(* Completions after which the provider holds nothing. *)

\* A task about an empty route names a route.
LEMMA RoutesOfTasks ==
    ASSUME TypeOK
    PROVE  /\ \A i \in 1..Len(queue) : Empties(queue[i]) => queue[i].route \in Routes
           /\ reporter # Idle /\ Empties(reporter.task) => reporter.task.route \in Routes
<1>1. \A t \in Task : Empties(t) => t.route \in Routes
  BY TaskFacts DEF Empties
<1>2. \A i \in 1..Len(queue) : queue[i] \in Task
  BY ElementOfSeq DEF TypeOK
<1>3. reporter # Idle => reporter.task \in Task
  BY IdleFacts
<1>4. QED BY <1>1, <1>2, <1>3

\* One more task keeps Emptied if it keeps it itself.
LEMMA GrownEmptied ==
    ASSUME TypeOK, Emptied, Stays, Len(queue) \in Nat, reporter' = reporter,
           NEW t, Grown(t), Empties(t) => Empty(t.route)'
    PROVE  Emptied'
BY RoutesOfTasks DEF Grown, Emptied, Stays

\* start_unsubscribe posts a completion that is true.
LEMMA LetGoEmptied ==
    ASSUME TypeOK, Agreement, Emptied, Stays, reporter' = reporter,
           NEW r \in Routes, NEW k \in {"release", "cleanup"},
           entry[r].phase \in {"active", "failed"},
           StartUnsubscribe(r, [entry EXCEPT ![r] = Unsubscribing(@)], k)
    PROVE  Emptied'
<1>1. Len(queue) \in Nat /\ calls[r] # "subscribe"
  BY EnteredFacts DEF Agreement, Agrees
<1>2. CASE queue' = queue
  BY <1>2, RoutesOfTasks DEF Emptied, Stays
<1>3. CASE queue' # queue
  <2>0. /\ entry'[r].phase = "unsubscribing"
        /\ \/ queue' = queue
           \/ /\ calls'[r] = calls[r]
              /\ entry'[r].unsubscribed = "ok" => r \notin held'
              /\ Told(r, k)
    BY LetGoEffect
  <2>1. /\ entry'[r].phase = "unsubscribing" /\ calls'[r] = calls[r]
        /\ entry'[r].unsubscribed = "ok" => r \notin held'
        /\ Told(r, k)
    BY <1>3, <2>0
  <2>2. PICK t : /\ Grown(t)
                 /\ \/ router # "running" /\ t.kind = "process"
                    \/ /\ router = "running" /\ t.kind = k /\ t.route = r
                       /\ t.ok = (entry'[r].unsubscribed = "ok")
    BY <2>1 DEF Told
  <2>3. Empties(t) => Empty(t.route)'
    BY <1>1, <2>1, <2>2 DEF Empties, Empty, Calls
  <2>4. QED BY <1>1, <2>2, <2>3, GrownEmptied
<1>4. QED BY <1>2, <1>3

\* A step keeps it true that posted completions leave empty routes.
LEMMA EmptiedStep ==
    ASSUME TypeOK, Nesting, Agreement, Emptied, Stays, Next
    PROVE  Emptied'
<1>a. Entered
  BY EnteredFacts
<1>b. /\ \A i \in 1..Len(queue) : Empties(queue[i]) => queue[i].route \in Routes
      /\ reporter # Idle /\ Empties(reporter.task) => reporter.task.route \in Routes
  BY RoutesOfTasks
<1>c. /\ Agreement /\ Emptied /\ Stays /\ Len(queue) \in Nat
      /\ \A q \in Routes : calls[q] \in {"none", "subscribe", "release", "cleanup"}
  BY <1>a, EnteredFacts DEF Entered, Calls
<1>1. ASSUME NEW r \in Routes, Subscribe(r) PROVE Emptied'
  BY <1>b, <1>c, <1>1 DEF Subscribe, environment, Emptied, Stays
<1>2. ASSUME NEW r \in Routes, SubscribeInline(r) PROVE Emptied'
  <2>1. /\ entry[r].phase = "none" /\ calls' = calls /\ reporter' = reporter
        /\ entry'[r].phase = "pending"
        /\ r \in held' <=> (entry'[r].reserved \/ r \in held)
    BY <1>2, SubscribeInlineEffect DEF SubscribeInline
  <2>2. PICK t \in Task : Grown(t) /\ t.kind = "subscribe" /\ t.route = r
                          /\ t.ok = entry'[r].reserved
    BY <1>2, SubscribeInlineEffect
  <2>3. Empties(t) => Empty(r)'
    BY <2>1, <2>2, <1>c DEF Empties, Empty, Agreement, Agrees, Phases
  <2>4. QED BY <1>b, <1>c, <2>1, <2>2, <2>3, GrownEmptied
<1>3. ASSUME NEW r \in Routes, Release(r) PROVE Emptied'
  <2>1. entry[r].phase \in {"active", "failed"} /\ reporter' = reporter
    BY <1>3 DEF Release
  <2>2. StartUnsubscribe(r, [entry EXCEPT ![r] = Unsubscribing(@)], "release")
    BY <1>3 DEF Release
  <2>3. QED BY <1>c, <2>1, <2>2, LetGoEmptied
<1>4. ASSUME NEW r \in Routes, ReleasePending(r) PROVE Emptied'
  BY <1>b, <1>c, <1>4 DEF ReleasePending, environment, Emptied, Stays
<1>5. CASE RetryFailed
  BY <1>b, <1>c, <1>5 DEF RetryFailed, environment, Emptied, Stays
<1>6. CASE Shutdown
  BY <1>b, <1>c, <1>6 DEF Shutdown, environment, Emptied, Stays
<1>7. CASE HostTick
  BY <1>b, <1>c, <1>7 DEF HostTick, environment, Emptied, Stays
<1>8. CASE RunTask
  <2>1. /\ Len(queue') = Len(queue) - 1 /\ reporter' = reporter
        /\ \A i \in 1..Len(queue') : i + 1 \in 1..Len(queue) /\ queue'[i] = queue[i + 1]
    BY <1>8, RunFacts, Dequeued
  <2>2. QED BY <1>b, <1>c, <2>1 DEF Emptied, Stays
<1>9. CASE FinishSubscribe
  BY <1>b, <1>c, <1>9 DEF FinishSubscribe, environment, Emptied, Stays
<1>10. CASE FinishReleased
  <2> DEFINE r == Head(stack).route
             k == IF Head(stack).callback THEN "release" ELSE "cleanup"
  <2>1. r \in Routes /\ reporter' = reporter /\ k \in {"release", "cleanup"}
    BY <1>10, StackFacts DEF FinishReleased, Nesting
  <2>2. CASE entry[r].phase \in {"active", "failed"}
    <3>1. StartUnsubscribe(r, [entry EXCEPT ![r] = Unsubscribing(@)], k)
      BY <1>10, <2>2 DEF FinishReleased
    <3> HIDE DEF r, k
    <3>2. QED BY <1>b, <1>c, <2>1, <2>2, <3>1, LetGoEmptied
  <2>3. CASE entry[r].phase \notin {"active", "failed"}
    BY <1>b, <1>c, <1>10, <2>3 DEF FinishReleased, Emptied, Stays
  <2>4. QED BY <2>2, <2>3
<1>21. CASE TellOne
  BY <1>b, <1>c, <1>21 DEF TellOne, environment, Emptied, Stays
<1>11. CASE RetryOne
  <2>1. PICK r \in Head(stack).routes :
          StartUnsubscribe(r, [entry EXCEPT ![r] = Unsubscribing(@)], "cleanup")
    BY <1>11 DEF RetryOne
  <2>2. r \in Routes /\ entry[r].phase = "failed" /\ reporter' = reporter
    BY <1>11, <2>1, StackFacts, FrameFacts DEF RetryOne, Nesting
  <2>3. QED BY <1>b, <1>c, <2>1, <2>2, LetGoEmptied
<1>12. CASE ProcessPass
  BY <1>b, <1>c, <1>12 DEF ProcessPass, environment, Emptied, Stays
<1>13. CASE CleanupOne
  <2>1. PICK r \in Head(stack).routes : StartUnsubscribe(r, entry, "cleanup")
    BY <1>13 DEF CleanupOne
  <2>2. r \in Routes /\ entry[r].phase = "unsubscribing" /\ reporter' = reporter
        /\ router # "running"
    BY <1>13, <2>1, StackFacts, FrameFacts DEF CleanupOne, Nesting
  <2>3. \/ queue' = queue
        \/ /\ Len(queue') = Len(queue) + 1
           /\ \A i \in 1..Len(queue) : queue'[i] = queue[i]
           /\ queue'[Len(queue) + 1].kind = "process"
    BY <1>a, <2>1, <2>2, StartFacts DEF Entered
  <2>4. Grown(queue'[Len(queue) + 1])
    BY <2>3 DEF Grown
  <2>5. CASE queue' = queue
    BY <1>b, <1>c, <2>2, <2>5 DEF Emptied, Stays
  <2>6. CASE queue' # queue
    BY <1>b, <1>c, <2>2, <2>3, <2>4, <2>6, GrownEmptied DEF Empties, Calls
  <2>7. QED BY <2>5, <2>6
<1>14. ASSUME NEW r \in Routes, Answer(r) PROVE Emptied'
  <2> DEFINE k == calls[r]
  <2>1. /\ k \in Calls /\ calls'[r] = "none" /\ entry'[r].phase = entry[r].phase
        /\ k = "subscribe" => (r \in held' <=> (entry'[r].reserved \/ r \in held))
                               /\ entry'[r].reserved \in BOOLEAN
        /\ k # "subscribe" /\ entry'[r].unsubscribed = "ok" => r \notin held'
        /\ router = "running" =>
              /\ queue' = queue /\ reporter'.kind = "post"
              /\ reporter'.task.kind = k /\ reporter'.task.route = r
              /\ reporter'.task.ok = (IF k = "subscribe" THEN entry'[r].reserved
                                      ELSE entry'[r].unsubscribed = "ok")
        /\ router # "running" =>
              reporter' = reporter /\ \E t : Grown(t) /\ t.kind = "process"
    BY <1>14, AnswerEffect
  <2>2. /\ entry[r].phase # "none" /\ (k = "subscribe" => r \notin held)
    BY <1>c, <2>1 DEF Agreement, Agrees, Calls
  <2>3. CASE router = "running"
    <3>1. Empties(reporter'.task) => Empty(r)'
      <4>1. CASE k = "subscribe"
        BY <2>1, <2>2, <2>3, <4>1 DEF Empties, Empty, Calls
      <4>2. CASE k # "subscribe"
        BY <2>1, <2>2, <2>3, <4>2 DEF Empties, Empty, Calls
      <4>3. QED BY <4>1, <4>2
    <3>2. QED BY <1>b, <1>c, <2>1, <2>3, <3>1 DEF Emptied, Stays
  <2>4. CASE router # "running"
    <3>1. PICK t : Grown(t) /\ t.kind = "process"
      BY <2>1, <2>4
    <3>2. QED BY <1>b, <1>c, <2>1, <2>4, <3>1, GrownEmptied DEF Empties, Calls
  <2>5. QED BY <2>3, <2>4
<1>15. ASSUME NEW r \in Routes, HistoryAnswers(r) PROVE Emptied'
  BY <1>b, <1>c, <1>15 DEF HistoryAnswers, environment, Emptied, Stays
<1>16. CASE PostReport
  <2>1. PICK t \in Task : t = reporter.task
    BY <1>16, IdleFacts DEF PostReport
  <2>2. reporter # Idle /\ Grown(t)
    BY <1>16, <2>1, IdleFacts, PostedFacts DEF PostReport, Grown
  <2>3. Empties(t) => Empty(t.route)'
    BY <1>b, <1>c, <2>1, <2>2 DEF Emptied, Stays
  <2>4. \/ reporter' = Idle
        \/ /\ t.kind = "subscribe" /\ reporter' # Idle
           /\ reporter'.task = t
    BY <1>16, <2>1, IdleFacts DEF PostReport
  <2>5. \A i \in 1..Len(queue'), q \in Routes :
           Empties(queue'[i]) /\ queue'[i].route = q => Empty(q)'
    BY <1>b, <1>c, <2>2, <2>3 DEF Grown, Emptied, Stays
  <2>6. \A i \in 1..Len(queue') : Empties(queue'[i]) => queue'[i].route \in Routes
    BY <1>b, <1>c, <2>1, <2>2, TaskFacts DEF Grown, Empties
  <2>7. QED BY <1>b, <1>c, <2>1, <2>2, <2>3, <2>4, <2>5, <2>6 DEF Emptied
<1>17. CASE MarkReport
  BY <1>b, <1>c, <1>17 DEF MarkReport, Emptied, Stays
<1>18. CASE Publish
  <2>1. published + 1 \in 1..MaxStatus /\ reporter' = reporter
    BY <1>18 DEF Publish, TypeOK
  <2> DEFINE t == [kind |-> "status", status |-> published + 1]
  <2>2. t \in Task /\ Posted(t)
    BY <1>18, <2>1, TaskFacts DEF Publish
  <2>3. Grown(t) /\ ~Empties(t)
    BY <2>2, PostedFacts DEF Grown, Empties, Calls
  <2> HIDE DEF t
  <2>4. QED BY <1>b, <1>c, <2>1, <2>3, GrownEmptied
<1>19. CASE Cancel
  <2>1. /\ Len(queue') = Len(queue) - 1 /\ reporter' = reporter
        /\ \A i \in 1..Len(queue') : i + 1 \in 1..Len(queue) /\ queue'[i] = queue[i + 1]
    BY <1>19, Dequeued DEF Cancel
  <2>2. QED BY <1>b, <1>c, <2>1 DEF Emptied, Stays
<1>20. QED
  BY <1>1, <1>2, <1>3, <1>4, <1>5, <1>6, <1>7, <1>8, <1>9, <1>10,
     <1>11, <1>12, <1>13, <1>14, <1>15, <1>16, <1>17, <1>18, <1>19, <1>21
  DEF Next, Application, Owner, Provider

-----------------------------------------------------------------------------
(* The passes over the entries. *)

\* A step keeps the stack in order.
LEMMA NestingStep ==
    ASSUME TypeOK, Nesting, Agreement, Next
    PROVE  Nesting'
<1>a. Nesting /\ Nested(stack)
  BY DEF Nesting
<1>b. /\ Entered /\ Agreement
      /\ \A q \in Routes : calls[q] \in {"none", "subscribe", "release", "cleanup"}
  BY EnteredFacts DEF Entered, Calls
<1>1. ASSUME NEW r \in Routes, Subscribe(r) PROVE Nesting'
  BY <1>a, <1>1 DEF Subscribe, ApplicationRuns, Nesting, At
<1>2. ASSUME NEW r \in Routes, SubscribeInline(r) PROVE Nesting'
  BY <1>a, <1>2 DEF SubscribeInline, ApplicationRuns, Nesting, At
<1>3. ASSUME NEW r \in Routes, Release(r) PROVE Nesting'
  BY <1>a, <1>3 DEF Release, ApplicationRuns, Nesting, At
<1>4. ASSUME NEW r \in Routes, ReleasePending(r) PROVE Nesting'
  BY <1>a, <1>4 DEF ReleasePending, ApplicationRuns, Nesting, At
<1>5. CASE RetryFailed
  <2>1. [at |-> "retry", routes |-> FailedCleanups] \in Frame
    BY FrameFacts DEF FailedCleanups
  <2> DEFINE f == [at |-> "retry", routes |-> FailedCleanups]
  <2>2. f.at = "retry" /\ f.routes = FailedCleanups /\ entry' = entry
    BY <1>5 DEF RetryFailed
  <2>3. ApplicationRuns /\ stack' = <<f>> \o stack
    BY <1>5 DEF RetryFailed
  <2> HIDE DEF f
  <2>4. Nested(stack') /\ At' = "retry" /\ Head(stack)' = f
    BY <1>a, <2>1, <2>2, <2>3, Pushed DEF f
  <2>5. QED BY <2>2, <2>4 DEF Nesting, FailedCleanups
<1>6. CASE Shutdown
  <2> DEFINE f == [at |-> "process"]
  <2>1. f \in Frame /\ f.at = "process" /\ ApplicationRuns /\ stack' = <<f>> \o stack
    BY <1>6, FrameFacts DEF Shutdown
  <2> HIDE DEF f
  <2>2. Nested(stack') /\ At' = "process"
    BY <1>a, <2>1, Pushed
  <2>3. QED BY <1>6, <2>2 DEF Nesting, Shutdown
<1>7. CASE HostTick
  <2> DEFINE f == [at |-> "process"]
  <2>1. f \in Frame /\ f.at = "process"
    BY FrameFacts
  <2> HIDE DEF f
  <2>2. stack' = <<f>> => Nested(stack') /\ At' = "process"
    BY <2>1, Single
  <2>3. router' = router /\ router # "running" /\ At = "idle"
        /\ (stack' = <<f>> \/ stack' = stack)
    BY <1>7 DEF HostTick, f
  <2>4. CASE stack' = <<f>>
    BY <2>2, <2>3, <2>4 DEF Nesting
  <2>5. CASE stack' = stack
    BY <1>a, <2>3, <2>5 DEF Nesting, At
  <2>6. QED BY <2>3, <2>4, <2>5
<1>8. CASE RunTask
  <2> DEFINE t == Head(queue)
             f == [at |-> "process"]
  <2>1. t \in Task /\ At = "idle" /\ router' = router
    BY <1>8, RunFacts
  <2>2. f \in Frame /\ f.at = "process"
    BY FrameFacts
  <2>3. stack' = <<f>> => Nested(stack') /\ At' = "process"
    <3> HIDE DEF f
    <3>1. QED BY <2>2, Single
  <2>4. CASE SubscribeSucceeds(t)
    <3>1. cache \in 0..MaxStatus
      BY DEF TypeOK
    <3>2. Nested(stack') /\ At' = "callback"
      BY <1>b, <2>1, <2>4, <3>1, SucceedsEffect
    <3>3. QED BY <3>2 DEF Nesting
  <2>5. CASE stack' = stack
    BY <1>a, <2>1, <2>5 DEF Nesting, At
  <2>6. CASE stack' = <<f>> /\ router = "draining"
    BY <2>1, <2>3, <2>6 DEF Nesting
  <2>7. CASE t.kind = "status" /\ RouteStatus(t)
    <3>1. Nested(stack') /\ At' \in {"idle", "status"}
      BY <1>a, <2>1, <2>7, RouteStatusStack
    <3>2. QED BY <3>1 DEF Nesting
  <2>8. QED BY <1>8, RunFacts, <2>4, <2>5, <2>6, <2>7
            DEF SubscribeFails, SubscribeFailed, SubscribePassed, CompleteUnsubscribe,
                RunProcess
<1>9. CASE FinishSubscribe
  <2>1. Nested(stack') /\ At' = "idle"
    BY <1>a, <1>9, CallbackReturns DEF FinishSubscribe
  <2>2. QED BY <2>1 DEF Nesting
<1>10. CASE FinishReleased
  <2>1. Nested(stack') /\ At' = "idle"
    BY <1>a, <1>10, CallbackReturns DEF FinishReleased
  <2>2. QED BY <2>1 DEF Nesting
<1>21. CASE TellOne
  <2>1. Nested(stack') /\ At' \in {"idle", "status"}
    BY <1>a, <1>21, TellOneFacts DEF Tells
  <2>2. QED BY <2>1 DEF Nesting
<1>11. CASE RetryOne
  <2>1. PICK r \in Head(stack).routes :
          /\ stack' = IF Head(stack).routes = {r} THEN Tail(stack)
                      ELSE <<[Head(stack) EXCEPT !.routes = @ \ {r}]>> \o Tail(stack)
          /\ StartUnsubscribe(r, [entry EXCEPT ![r] = Unsubscribing(@)], "cleanup")
    BY <1>11 DEF RetryOne
  <2>2. Head(stack) \in Frame /\ Head(stack).at = "retry" /\ At = "retry"
    BY <1>a, <1>11, StackFacts DEF RetryOne, At
  <2>3. Head(stack).routes \subseteq Routes
    BY <2>2, FrameFacts
  <2>4. Others(r)
    BY <2>1, <2>3, LetGoEffect
  <2>5. CASE stack' = Tail(stack)
    <3>1. Nested(stack') /\ At' \in {"idle", "callback", "status"}
      BY <1>a, <2>2, <2>5, Popped
    <3>2. QED BY <3>1 DEF Nesting
  <2>6. CASE stack' = <<[Head(stack) EXCEPT !.routes = @ \ {r}]>> \o Tail(stack)
    <3> DEFINE f == [Head(stack) EXCEPT !.routes = @ \ {r}]
    <3>1. f \in Frame /\ f.at = "retry" /\ f.routes = Head(stack).routes \ {r}
      BY <2>2, <2>3, FrameFacts
    <3>2. stack' = <<f>> \o Tail(stack)
      BY <2>6
    <3> HIDE DEF f
    <3>3. Nested(stack') /\ At' = "retry" /\ Head(stack)' = f
      BY <1>a, <2>2, <3>1, <3>2, Swapped
    <3>4. \A q \in f.routes : entry'[q].phase = "failed"
      BY <1>a, <2>2, <2>3, <2>4, <3>1 DEF Others, Nesting
    <3>5. QED BY <3>3, <3>4 DEF Nesting
  <2>7. QED BY <2>1, <2>5, <2>6
<1>12. CASE ProcessPass
  <2> DEFINE cleanup == {r \in Routes : NeedsCleanup(entry[r])}
             f == [at |-> "cleanup", routes |-> cleanup]
  <2>1. f \in Frame /\ f.at = "cleanup" /\ f.routes = cleanup
    BY FrameFacts
  <2>2. /\ stack' = <<f>> \o Tail(stack) \/ stack' = stack \/ stack' = Tail(stack)
        /\ At = "process" /\ router # "running" /\ router' # "running" /\ calls' = calls
    BY <1>a, <1>12 DEF ProcessPass, Nesting
  <2>3. \A r \in cleanup : /\ entry'[r].phase = "unsubscribing"
                           /\ entry'[r].unsubscribed = "no" /\ calls[r] = "none"
    <3>1. TAKE r \in cleanup
    <3>2. /\ r \in Routes /\ NeedsCleanup(entry[r])
          /\ entry'[r].phase = "unsubscribing"
          /\ entry'[r].unsubscribed = entry[r].unsubscribed
      BY <1>b, <1>12, PassEffect DEF NeedsCleanup
    <3>3. QED BY <1>b, <3>2 DEF NeedsCleanup, Agreement, Agrees
  <2> HIDE DEF f
  <2>4. CASE stack' = <<f>> \o Tail(stack)
    <3>1. Nested(stack') /\ At' = "cleanup" /\ Head(stack)' = f
      BY <1>a, <2>1, <2>2, <2>4, Swapped
    <3>2. QED BY <2>1, <2>2, <2>3, <3>1 DEF Nesting
  <2>5. CASE stack' = stack
    BY <1>a, <2>2, <2>5 DEF Nesting, At
  <2>6. CASE stack' = Tail(stack)
    <3>1. Nested(stack') /\ At' \in {"idle", "callback", "status"}
      BY <1>a, <2>2, <2>6, Popped
    <3>2. QED BY <3>1 DEF Nesting
  <2>7. QED BY <2>2, <2>4, <2>5, <2>6
<1>13. CASE CleanupOne
  <2>1. PICK r \in Head(stack).routes :
          /\ stack' = IF Head(stack).routes = {r}
                      THEN <<[at |-> "process"]>> \o Tail(stack)
                      ELSE <<[Head(stack) EXCEPT !.routes = @ \ {r}]>> \o Tail(stack)
          /\ StartUnsubscribe(r, entry, "cleanup")
    BY <1>13 DEF CleanupOne
  <2>2. /\ Head(stack) \in Frame /\ Head(stack).at = "cleanup" /\ At = "cleanup"
        /\ router # "running" /\ router' = router
    BY <1>a, <1>13, StackFacts DEF CleanupOne, Nesting, At
  <2>3. Head(stack).routes \subseteq Routes
    BY <2>2, FrameFacts
  <2>4. \A q \in Routes : q # r => entry'[q] = entry[q] /\ calls'[q] = calls[q]
    BY <1>b, <2>1, <2>3, StartFacts DEF Entered
  <2>5. CASE stack' = <<[at |-> "process"]>> \o Tail(stack)
    <3> DEFINE f == [at |-> "process"]
    <3>1. f \in Frame /\ f.at = "process" /\ stack' = <<f>> \o Tail(stack)
      BY <2>5, FrameFacts
    <3> HIDE DEF f
    <3>2. Nested(stack') /\ At' = "process"
      BY <1>a, <2>2, <3>1, Swapped
    <3>3. QED BY <2>2, <3>2 DEF Nesting
  <2>6. CASE stack' = <<[Head(stack) EXCEPT !.routes = @ \ {r}]>> \o Tail(stack)
    <3> DEFINE f == [Head(stack) EXCEPT !.routes = @ \ {r}]
    <3>1. f \in Frame /\ f.at = "cleanup" /\ f.routes = Head(stack).routes \ {r}
      BY <2>2, <2>3, FrameFacts
    <3>2. stack' = <<f>> \o Tail(stack)
      BY <2>6
    <3> HIDE DEF f
    <3>3. Nested(stack') /\ At' = "cleanup" /\ Head(stack)' = f
      BY <1>a, <2>2, <3>1, <3>2, Swapped
    <3>4. \A q \in f.routes : /\ entry'[q].phase = "unsubscribing"
                              /\ entry'[q].unsubscribed = "no" /\ calls'[q] = "none"
      BY <1>a, <2>2, <2>3, <2>4, <3>1 DEF Nesting
    <3>5. QED BY <2>2, <3>3, <3>4 DEF Nesting
  <2>7. QED BY <2>1, <2>5, <2>6
<1>14. ASSUME NEW r \in Routes, Answer(r) PROVE Nesting'
  <2>1. /\ Others(r) /\ entry'[r].phase = entry[r].phase /\ calls[r] \in Calls
        /\ router' = router /\ stack' = stack
    BY <1>14, AnswerEffect DEF Answer
  <2>2. At \in {"retry", "cleanup"} => Head(stack).routes \subseteq Routes
    BY <1>a, StackFacts, FrameFacts DEF At
  <2>3. QED BY <1>a, <2>1, <2>2 DEF Nesting, At, Others, Calls
<1>15. ASSUME NEW r \in Routes, HistoryAnswers(r) PROVE Nesting'
  BY <1>a, <1>b, <1>15 DEF HistoryAnswers, environment, Nesting, At
<1>16. CASE PostReport
  BY <1>a, <1>b, <1>16 DEF PostReport, environment, Nesting, At
<1>17. CASE MarkReport
  <2>1. calls' = calls /\ router' = router /\ stack' = stack
    BY <1>17 DEF MarkReport
  <2>2. \A q \in Routes : entry'[q].phase = entry[q].phase
                            /\ entry'[q].unsubscribed = entry[q].unsubscribed
    BY <1>b, <1>17, MarkEffect
  <2>3. At \in {"retry", "cleanup"} => Head(stack).routes \subseteq Routes
    BY <1>a, StackFacts, FrameFacts DEF At
  <2>4. QED BY <1>a, <2>1, <2>2, <2>3 DEF Nesting, At
<1>18. CASE Publish
  BY <1>a, <1>b, <1>18 DEF Publish, environment, Nesting, At
<1>19. CASE Cancel
  BY <1>a, <1>b, <1>19 DEF Cancel, environment, Nesting, At
<1>20. QED
  BY <1>1, <1>2, <1>3, <1>4, <1>5, <1>6, <1>7, <1>8, <1>9, <1>10,
     <1>11, <1>12, <1>13, <1>14, <1>15, <1>16, <1>17, <1>18, <1>19, <1>21
  DEF Next, Application, Owner, Provider

\* A complete shutdown stays complete.
LEMMA OverStep ==
    ASSUME TypeOK, Nesting, Over, Next
    PROVE  Over'
<1>a. Over
  OBVIOUS
<1>b. Entered
  BY EnteredFacts
<1>1. ASSUME NEW r \in Routes, Subscribe(r) PROVE Over'
  BY <1>1 DEF Subscribe, Over
<1>2. ASSUME NEW r \in Routes, SubscribeInline(r) PROVE Over'
  BY <1>2 DEF SubscribeInline, Over
<1>3. ASSUME NEW r \in Routes, Release(r) PROVE Over'
  BY <1>a, <1>3 DEF Release, Over, Phases
<1>4. ASSUME NEW r \in Routes, ReleasePending(r) PROVE Over'
  BY <1>a, <1>4 DEF ReleasePending, Over, Phases
<1>5. CASE RetryFailed
  BY <1>a, <1>5 DEF RetryFailed, environment, Over
<1>6. CASE Shutdown
  BY <1>6 DEF Shutdown, Over
<1>7. CASE HostTick
  BY <1>a, <1>7 DEF HostTick, environment, Over
<1>8. CASE RunTask
  <2> DEFINE t == Head(queue)
             r == t.route
  <2>1. t \in Task /\ router' = router /\ operations' = operations
    BY <1>8, RunFacts
  <2>2. CASE SubscribeFails(t) \/ SubscribeSucceeds(t)
    BY <2>1, <2>2 DEF SubscribeFails, SubscribeSucceeds, Over
  <2>3. CASE t.kind \in {"release", "cleanup"} /\ CompleteUnsubscribe(t)
    <3>1. released \in [Routes -> Nat]
      BY DEF TypeOK
    <3>2. r \in Routes /\ (entry' = entry \/ entry[r].phase = "unsubscribing")
      BY <1>b, <2>1, <2>3, <3>1, UnsubscribedEffect
    <3> HIDE DEF r
    <3>3. QED BY <1>a, <2>1, <3>2 DEF Over, Phases
  <2>4. CASE entry' = entry
    BY <1>a, <2>1, <2>4 DEF Over
  <2>5. QED BY <1>8, RunFacts, <2>2, <2>3, <2>4 DEF SubscribePassed, RouteStatus, RunProcess
<1>9. CASE FinishSubscribe
  BY <1>a, <1>9 DEF FinishSubscribe, environment, Over
<1>10. CASE FinishReleased
  <2> DEFINE r == Head(stack).route
  <2>1. r \in Routes /\ router' = router /\ operations' = operations
    BY <1>10, StackFacts DEF FinishReleased, Nesting
  <2>2. \/ entry' = entry \/ entry[r].phase \in {"active", "failed"}
    BY <1>10 DEF FinishReleased
  <2> HIDE DEF r
  <2>3. QED BY <1>a, <2>1, <2>2 DEF Over, Phases
<1>21. CASE TellOne
  BY <1>a, <1>21 DEF TellOne, environment, Over
<1>11. CASE RetryOne
  <2>1. router' = router /\ operations' = operations /\ At = "retry"
    BY <1>11 DEF RetryOne
  <2>2. PICK r \in Head(stack).routes : TRUE
    BY <1>11 DEF RetryOne
  <2>3. r \in Routes /\ entry[r].phase = "failed"
    BY <2>1, StackFacts, FrameFacts DEF Nesting
  <2>4. QED BY <1>a, <2>1, <2>3 DEF Over, Phases
<1>12. CASE ProcessPass
  BY <1>a, <1>12 DEF ProcessPass, Over, EverythingDrained, DrainedEntry, NeedsCleanup, Phases
<1>13. CASE CleanupOne
  <2>1. router' = router /\ operations' = operations /\ At = "cleanup"
    BY <1>13 DEF CleanupOne
  <2>2. PICK r \in Head(stack).routes : TRUE
    BY <1>13 DEF CleanupOne
  <2>3. r \in Routes /\ entry[r].phase = "unsubscribing"
    BY <2>1, StackFacts, FrameFacts DEF Nesting
  <2>4. QED BY <1>a, <2>1, <2>3 DEF Over, Phases
<1>14. ASSUME NEW r \in Routes, Answer(r) PROVE Over'
  <2>1. Others(r) /\ entry'[r].phase = entry[r].phase
        /\ router' = router /\ operations' = operations
    BY <1>14, AnswerEffect DEF Answer
  <2>2. QED BY <1>a, <2>1 DEF Over, Others
<1>15. ASSUME NEW r \in Routes, HistoryAnswers(r) PROVE Over'
  BY <1>a, <1>15 DEF HistoryAnswers, environment, Over
<1>16. CASE PostReport
  BY <1>a, <1>16 DEF PostReport, environment, Over
<1>17. CASE MarkReport
  <2>1. /\ router' = router /\ operations' = operations
        /\ \A q \in Routes : entry'[q].phase = entry[q].phase
    BY <1>b, <1>17, MarkEffect DEF MarkReport
  <2>2. QED BY <1>a, <2>1 DEF Over
<1>18. CASE Publish
  BY <1>a, <1>18 DEF Publish, environment, Over
<1>19. CASE Cancel
  BY <1>a, <1>19 DEF Cancel, environment, Over
<1>20. QED
  BY <1>1, <1>2, <1>3, <1>4, <1>5, <1>6, <1>7, <1>8, <1>9, <1>10,
     <1>11, <1>12, <1>13, <1>14, <1>15, <1>16, <1>17, <1>18, <1>19, <1>21
  DEF Next, Application, Owner, Provider

-----------------------------------------------------------------------------
(* How a route moves from phase to phase. *)

\* Only a shutdown and a completed subscription make a route active, and a route that
\* was asked to end stays asked.
Moves ==
    \A q \in Routes :
        /\ entry'[q].phase = "active" =>
              entry[q].phase = "active" /\ entry'[q].asked = entry[q].asked
        /\ entry'[q].phase \in {"none", "pending"} => entry[q].phase \in {"none", "pending"}
        /\ router = "running" /\ entry'[q].phase \in {"active", "unsubscribing", "failed"}
              => entry[q].phase \in {"active", "unsubscribing", "failed"}
        /\ entry[q].asked => entry'[q].asked

LetGoMoves(r) ==
    /\ Others(r) /\ entry'[r].phase = "unsubscribing" /\ entry'[r].asked = TRUE
    /\ entry'[r].callback = entry[r].callback

\* Every step is a quiet one, the shutdown, or activates a route.
LEMMA MovesStep ==
    ASSUME TypeOK, Nesting, Next
    PROVE  Moves \/ Shutdown \/ (RunTask /\ SubscribeSucceeds(Head(queue)))
<1>a. Entered
  BY EnteredFacts
<1>1. ASSUME NEW r \in Routes, Subscribe(r)
      PROVE  Moves \/ Shutdown \/ (RunTask /\ SubscribeSucceeds(Head(queue)))
  BY <1>a, <1>1, SubscribeEffect DEF Subscribe, Moves, Others
<1>2. ASSUME NEW r \in Routes, SubscribeInline(r)
      PROVE  Moves \/ Shutdown \/ (RunTask /\ SubscribeSucceeds(Head(queue)))
  BY <1>a, <1>2, SubscribeInlineEffect DEF SubscribeInline, Moves, Others
<1>3. ASSUME NEW r \in Routes, Release(r)
      PROVE  Moves \/ Shutdown \/ (RunTask /\ SubscribeSucceeds(Head(queue)))
  <2>1. LetGoMoves(r) /\ entry[r].phase \in {"active", "failed"}
    BY <1>3, LetGoEffect DEF Release, LetGoMoves
  <2>2. QED BY <1>a, <2>1 DEF LetGoMoves, Moves, Others
<1>4. ASSUME NEW r \in Routes, ReleasePending(r)
      PROVE  Moves \/ Shutdown \/ (RunTask /\ SubscribeSucceeds(Head(queue)))
  BY <1>a, <1>4, ReleasePendingEffect DEF ReleasePending, Moves, Others
<1>5. CASE RetryFailed
  BY <1>a, <1>5 DEF RetryFailed, environment, Moves
<1>6. CASE Shutdown
  BY <1>6
<1>7. CASE HostTick
  BY <1>a, <1>7 DEF HostTick, environment, Moves
<1>8. CASE RunTask
  <2> DEFINE t == Head(queue)
             r == t.route
  <2>1. t \in Task /\ router' = router
    BY <1>8, RunFacts
  <2>2. CASE SubscribeFails(t)
    <3>1. /\ r \in Routes /\ \A q \in Routes : q # r => entry'[q] = entry[q]
          /\ entry'[r].phase = "gone" /\ entry'[r].callback = FALSE
      BY <1>a, <2>1, <2>2, FailsEffect
    <3> HIDE DEF r
    <3>2. \A q \in Routes : entry[q].asked => entry'[q].asked
      BY <1>a, <2>1, <2>2, FailsEffect
    <3>3. Moves
      BY <1>a, <2>1, <3>1, <3>2 DEF Moves
    <3>4. QED BY <3>3
  <2>3. CASE SubscribeSucceeds(t)
    BY <1>8, <2>3
  <2>4. CASE t.kind \in {"release", "cleanup"} /\ CompleteUnsubscribe(t)
    <3>1. released \in [Routes -> Nat]
      BY DEF TypeOK
    <3>2. /\ r \in Routes /\ \A q \in Routes : q # r => entry'[q] = entry[q]
          /\ \/ entry' = entry
             \/ /\ entry[r].phase = "unsubscribing" /\ entry'[r].phase \in {"gone", "failed"}
                /\ entry'[r].callback = entry[r].callback /\ entry'[r].asked = entry[r].asked
      BY <1>a, <2>1, <2>4, <3>1, UnsubscribedEffect
    <3> HIDE DEF r
    <3>3. Moves
      BY <1>a, <2>1, <3>2 DEF Moves
    <3>4. QED BY <3>3
  <2>5. CASE entry' = entry
    BY <1>a, <2>1, <2>5 DEF Moves
  <2>6. QED BY <1>8, RunFacts, <2>2, <2>3, <2>4, <2>5 DEF SubscribePassed, RouteStatus, RunProcess
<1>9. CASE FinishSubscribe
  BY <1>a, <1>9 DEF FinishSubscribe, environment, Moves
<1>10. CASE FinishReleased
  <2> DEFINE r == Head(stack).route
  <2>1. r \in Routes /\ router' = router
    BY <1>10, StackFacts DEF FinishReleased, Nesting
  <2>2. CASE entry[r].phase \in {"active", "failed"}
    <3>1. LetGoMoves(r)
      BY <1>10, <2>1, <2>2, LetGoEffect DEF FinishReleased, LetGoMoves
    <3> HIDE DEF r
    <3>2. QED BY <1>a, <2>1, <2>2, <3>1 DEF LetGoMoves, Moves, Others
  <2>3. CASE entry[r].phase \notin {"active", "failed"}
    BY <1>a, <1>10, <2>3 DEF FinishReleased, Moves
  <2>4. QED BY <2>2, <2>3
<1>21. CASE TellOne
  BY <1>a, <1>21 DEF TellOne, environment, Moves
<1>11. CASE RetryOne
  <2>1. PICK r \in Head(stack).routes :
          StartUnsubscribe(r, [entry EXCEPT ![r] = Unsubscribing(@)], "cleanup")
    BY <1>11 DEF RetryOne
  <2>2. r \in Routes /\ entry[r].phase = "failed" /\ router' = router
    BY <1>11, <2>1, StackFacts, FrameFacts DEF RetryOne, Nesting
  <2>3. LetGoMoves(r)
    BY <2>1, <2>2, LetGoEffect DEF LetGoMoves
  <2>4. QED BY <1>a, <2>2, <2>3 DEF LetGoMoves, Moves, Others
<1>12. CASE ProcessPass
  <2>1. router # "running" /\ router' # "running"
    BY <1>12 DEF ProcessPass, Nesting
  <2>2. \A q \in Routes :
           /\ entry'[q].callback = entry[q].callback /\ entry'[q].asked = entry[q].asked
           /\ \/ entry'[q].phase \in {"unsubscribing", "failed", "gone"}
              \/ entry'[q] = entry[q] /\ ~NeedsCleanup(entry[q])
    BY <1>a, <1>12, PassEffect
  <2>3. QED BY <2>1, <2>2 DEF Moves, NeedsCleanup
<1>13. CASE CleanupOne
  <2>1. PICK r \in Head(stack).routes : StartUnsubscribe(r, entry, "cleanup")
    BY <1>13 DEF CleanupOne
  <2>2. r \in Routes /\ router' = router /\ router # "running"
    BY <1>13, <2>1, StackFacts, FrameFacts DEF CleanupOne, Nesting
  <2>3. /\ Others(r) /\ entry'[r].phase = entry[r].phase /\ entry'[r].asked = entry[r].asked
        /\ entry'[r].callback = entry[r].callback
    BY <1>a, <2>1, <2>2, StartFacts DEF Others, Entered
  <2>4. QED BY <1>a, <2>2, <2>3 DEF Moves, Others
<1>14. ASSUME NEW r \in Routes, Answer(r)
      PROVE  Moves \/ Shutdown \/ (RunTask /\ SubscribeSucceeds(Head(queue)))
  <2>1. /\ Others(r) /\ entry'[r].phase = entry[r].phase /\ entry'[r].asked = entry[r].asked
        /\ entry'[r].callback = entry[r].callback /\ router' = router
    BY <1>14, AnswerEffect DEF Answer
  <2>2. QED BY <1>a, <2>1 DEF Moves, Others
<1>15. ASSUME NEW r \in Routes, HistoryAnswers(r)
      PROVE  Moves \/ Shutdown \/ (RunTask /\ SubscribeSucceeds(Head(queue)))
  BY <1>a, <1>15 DEF HistoryAnswers, environment, Moves
<1>16. CASE PostReport
  BY <1>a, <1>16 DEF PostReport, environment, Moves
<1>17. CASE MarkReport
  <2>1. /\ router' = router
        /\ \A q \in Routes : /\ entry'[q].phase = entry[q].phase
                              /\ entry'[q].asked = entry[q].asked
                              /\ entry'[q].callback = entry[q].callback
    BY <1>a, <1>17, MarkEffect DEF MarkReport
  <2>2. QED BY <2>1 DEF Moves
<1>18. CASE Publish
  BY <1>a, <1>18 DEF Publish, environment, Moves
<1>19. CASE Cancel
  BY <1>a, <1>19 DEF Cancel, environment, Moves
<1>20. QED
  BY <1>1, <1>2, <1>3, <1>4, <1>5, <1>6, <1>7, <1>8, <1>9, <1>10,
     <1>11, <1>12, <1>13, <1>14, <1>15, <1>16, <1>17, <1>18, <1>19, <1>21
  DEF Next, Application, Owner, Provider

\* A pass that takes one of its routes interrupts the same callback.
LEMMA PassFrames ==
    ASSUME Nested(stack), Head(stack) \in Frame, At \in {"retry", "cleanup"},
           Head(stack).at = At, NEW r \in Head(stack).routes,
           \/ stack' = Tail(stack)
           \/ stack' = <<[Head(stack) EXCEPT !.routes = @ \ {r}]>> \o Tail(stack)
    PROVE  KeptCallbacks
<1> DEFINE f == [Head(stack) EXCEPT !.routes = @ \ {r}]
<1>1. f \in Frame /\ f.at = At
  <2>1. Head(stack).routes \ {r} \in SUBSET Routes
    BY FrameFacts
  <2>2. QED BY <2>1, FrameFacts
<1>2. CASE stack' = <<f>> \o Tail(stack)
  <2> HIDE DEF f
  <2>1. QED BY <1>1, <1>2, Swapped
<1>3. CASE stack' = Tail(stack)
  BY <1>3, Popped
<1>4. QED BY <1>2, <1>3

\* Only tasks and returns change the callback the owner is in.
LEMMA Interrupts ==
    ASSUME TypeOK, Nesting,
           \/ RetryFailed \/ Shutdown \/ HostTick \/ RetryOne \/ ProcessPass \/ CleanupOne
           \/ stack' = stack
    PROVE  KeptCallbacks
<1>a. Nested(stack)
  BY DEF Nesting
<1>1. CASE RetryFailed
  <2> DEFINE f == [at |-> "retry", routes |-> FailedCleanups]
  <2>1. f \in Frame /\ f.at = "retry"
    BY FrameFacts DEF FailedCleanups
  <2>2. ApplicationRuns /\ stack' = <<f>> \o stack
    BY <1>1 DEF RetryFailed
  <2> HIDE DEF f
  <2>3. QED BY <1>a, <2>1, <2>2, Pushed
<1>2. CASE Shutdown
  <2> DEFINE f == [at |-> "process"]
  <2>1. f \in Frame /\ f.at = "process" /\ ApplicationRuns /\ stack' = <<f>> \o stack
    BY <1>2, FrameFacts DEF Shutdown
  <2> HIDE DEF f
  <2>2. QED BY <1>a, <2>1, Pushed
<1>3. CASE HostTick
  <2> DEFINE f == [at |-> "process"]
  <2>1. f \in Frame /\ f.at = "process" /\ (stack' = <<f>> \/ stack' = stack) /\ At = "idle"
    BY <1>3, FrameFacts DEF HostTick
  <2> HIDE DEF f
  <2>2. CASE stack' = <<f>>
    <3>1. \A r : ~InCallback(r)' /\ ~Waits(r)'
      BY <2>1, <2>2, Single
    <3>2. \A r : ~InCallback(r) /\ ~Waits(r)
      BY <1>a, <2>1, StackFacts
    <3>3. QED BY <3>1, <3>2 DEF KeptCallbacks
  <2>3. CASE stack' = stack
    BY <2>3 DEF KeptCallbacks, InCallback, Waits, Bottom
  <2>4. QED BY <2>1, <2>2, <2>3
<1>4. CASE RetryOne
  <2>1. PICK r \in Head(stack).routes :
          stack' = IF Head(stack).routes = {r} THEN Tail(stack)
                   ELSE <<[Head(stack) EXCEPT !.routes = @ \ {r}]>> \o Tail(stack)
    BY <1>4 DEF RetryOne
  <2>2. Head(stack) \in Frame /\ Head(stack).at = "retry" /\ At = "retry"
    BY <1>a, <1>4, StackFacts DEF RetryOne, At
  <2>3. QED BY <1>a, <2>1, <2>2, PassFrames
<1>5. CASE ProcessPass
  <2> DEFINE f == [at |-> "cleanup", routes |-> {r \in Routes : NeedsCleanup(entry[r])}]
  <2>1. f \in Frame /\ f.at = "cleanup"
    BY FrameFacts
  <2>2. /\ stack' = <<f>> \o Tail(stack) \/ stack' = stack \/ stack' = Tail(stack)
        /\ At = "process"
    BY <1>5 DEF ProcessPass
  <2> HIDE DEF f
  <2>3. CASE stack' = <<f>> \o Tail(stack)
    BY <1>a, <2>1, <2>2, <2>3, Swapped
  <2>4. CASE stack' = stack
    BY <2>4 DEF KeptCallbacks, InCallback, Waits, Bottom
  <2>5. CASE stack' = Tail(stack)
    BY <1>a, <2>2, <2>5, Popped
  <2>6. QED BY <2>2, <2>3, <2>4, <2>5
<1>6. CASE CleanupOne
  <2>1. PICK r \in Head(stack).routes :
          \/ stack' = <<[at |-> "process"]>> \o Tail(stack)
          \/ stack' = <<[Head(stack) EXCEPT !.routes = @ \ {r}]>> \o Tail(stack)
    BY <1>6 DEF CleanupOne
  <2>2. Head(stack) \in Frame /\ Head(stack).at = "cleanup" /\ At = "cleanup"
    BY <1>a, <1>6, StackFacts DEF CleanupOne, At
  <2>3. CASE stack' = <<[at |-> "process"]>> \o Tail(stack)
    <3> DEFINE f == [at |-> "process"]
    <3>1. f \in Frame /\ f.at = "process" /\ stack' = <<f>> \o Tail(stack)
      BY <2>3, FrameFacts
    <3> HIDE DEF f
    <3>2. QED BY <1>a, <2>2, <3>1, Swapped
  <2>4. QED BY <1>a, <2>1, <2>2, <2>3, PassFrames
<1>7. CASE stack' = stack
  BY <1>7 DEF KeptCallbacks, InCallback, Waits, Bottom
<1>8. QED BY <1>1, <1>2, <1>3, <1>4, <1>5, <1>6, <1>7

-----------------------------------------------------------------------------
(* What subscribers hear. *)

\* A quiet step of the same stack keeps Hushed.
LEMMA StayHushed ==
    ASSUME Hushed, Moves, router' = router, stack' = stack
    PROVE  Hushed'
BY DEF Hushed, Moves, InCallback, Bottom, At

\* A quiet step keeps Hushed.
LEMMA HushedMoves ==
    ASSUME TypeOK, Nesting, Hushed, Moves, Next
    PROVE  Hushed'
<1>b. Hushed /\ Moves
  OBVIOUS
<1>1. ASSUME NEW r \in Routes, Subscribe(r) PROVE Hushed'
  <2>1. router' = router /\ stack' = stack
    BY <1>1 DEF Subscribe, environment
  <2>2. QED BY <1>b, <2>1, StayHushed
<1>2. ASSUME NEW r \in Routes, SubscribeInline(r) PROVE Hushed'
  <2>1. router' = router /\ stack' = stack
    BY <1>2 DEF SubscribeInline, environment
  <2>2. QED BY <1>b, <2>1, StayHushed
<1>3. ASSUME NEW r \in Routes, Release(r) PROVE Hushed'
  <2>1. router' = router /\ stack' = stack
    BY <1>3 DEF Release, environment
  <2>2. QED BY <1>b, <2>1, StayHushed
<1>4. ASSUME NEW r \in Routes, ReleasePending(r) PROVE Hushed'
  <2>1. router' = router /\ stack' = stack
    BY <1>4 DEF ReleasePending, environment
  <2>2. QED BY <1>b, <2>1, StayHushed
<1>5. CASE RetryFailed
  <2>1. router' = router /\ At \in {"idle", "callback", "status"}
    BY <1>5 DEF RetryFailed, ApplicationRuns
  <2>2. QED BY <1>b, <1>5, <2>1, Interrupts DEF Hushed, Moves, KeptCallbacks
<1>6. CASE Shutdown
  <2> DEFINE f == [at |-> "process"]
  <2>1. f \in Frame /\ f.at = "process" /\ ApplicationRuns /\ stack' = <<f>> \o stack
        /\ router' = "draining"
    BY <1>6, FrameFacts DEF Shutdown
  <2> HIDE DEF f
  <2>2. At' = "process"
    BY <2>1, Pushed DEF Nesting
  <2>3. QED BY <2>1, <2>2 DEF Hushed
<1>7. CASE HostTick
  <2>1. router' = router /\ At = "idle" /\ router # "running"
    BY <1>7 DEF HostTick
  <2>2. QED BY <1>b, <1>7, <2>1 DEF Hushed, Moves
<1>8. CASE RunTask
  <2>1. router' = router /\ At = "idle"
    BY <1>8, RunFacts
  <2>2. \A q \in Routes : ~InCallback(q)
    BY <2>1, StackFacts DEF Nesting
  <2>3. QED BY <1>b, <2>1, <2>2 DEF Hushed, Moves
<1>9. CASE FinishSubscribe
  <2>1. /\ router' = router /\ At = "callback" /\ ~Bottom.asked /\ entry' = entry
    BY <1>9, StackFacts DEF FinishSubscribe, Nesting
  <2>2. QED BY <2>1 DEF Hushed
<1>10. CASE FinishReleased
  <2> DEFINE r == Head(stack).route
  <2>1. r \in Routes /\ router' = router /\ At = "callback" /\ Bottom = Head(stack)
    BY <1>10, StackFacts DEF FinishReleased, Nesting
  <2>2. CASE entry[r].phase \in {"active", "failed"}
    <3>1. entry'[r].phase = "unsubscribing"
      BY <1>10, <2>1, <2>2, LetGoEffect DEF FinishReleased
    <3>2. \A q \in Routes : InCallback(q) => q = r
      BY <2>1 DEF InCallback
    <3> HIDE DEF r
    <3>3. QED BY <1>b, <1>10, <2>1, <3>1, <3>2 DEF Hushed, Moves
  <2>3. CASE entry[r].phase \notin {"active", "failed"}
    <3>1. \A q \in Routes : InCallback(q) => q = r
      BY <2>1 DEF InCallback
    <3>2. entry' = entry
      BY <1>10, <2>3 DEF FinishReleased
    <3> HIDE DEF r
    <3>3. QED BY <2>1, <2>3, <3>1, <3>2 DEF Hushed
  <2>4. QED BY <2>2, <2>3
<1>21. CASE TellOne
  <2>1. /\ router' = router /\ entry' = entry /\ At = "status"
        /\ \A q : ~InCallback(q)
    BY <1>21, TellOneFacts DEF TellOne, Nesting
  <2>2. QED BY <1>b, <2>1 DEF Hushed
<1>11. CASE RetryOne
  <2>1. router' = router /\ At = "retry"
    BY <1>11 DEF RetryOne
  <2>2. QED BY <1>b, <1>11, <2>1, Interrupts DEF Hushed, Moves, KeptCallbacks
<1>12. CASE ProcessPass
  <2>1. router # "running" /\ router' # "running"
    BY <1>12 DEF ProcessPass, Nesting
  <2>2. \A q \in Routes : entry'[q].phase # "active"
    BY <1>12, EnteredFacts, PassEffect DEF NeedsCleanup
  <2>3. QED BY <2>2 DEF Hushed
<1>13. CASE CleanupOne
  <2>1. router' = router /\ At = "cleanup" /\ router # "running"
    BY <1>13 DEF CleanupOne, Nesting
  <2>2. QED BY <1>b, <1>13, <2>1 DEF Hushed, Moves
<1>14. ASSUME NEW r \in Routes, Answer(r) PROVE Hushed'
  <2>1. router' = router /\ stack' = stack
    BY <1>14 DEF Answer, environment
  <2>2. QED BY <1>b, <2>1, StayHushed
<1>15. ASSUME NEW r \in Routes, HistoryAnswers(r) PROVE Hushed'
  <2>1. router' = router /\ stack' = stack
    BY <1>15 DEF HistoryAnswers, environment
  <2>2. QED BY <1>b, <2>1, StayHushed
<1>16. CASE PostReport
  <2>1. router' = router /\ stack' = stack
    BY <1>16 DEF PostReport, environment
  <2>2. QED BY <1>b, <2>1, StayHushed
<1>17. CASE MarkReport
  <2>1. router' = router /\ stack' = stack
    BY <1>17 DEF MarkReport, environment
  <2>2. QED BY <1>b, <2>1, StayHushed
<1>18. CASE Publish
  <2>1. router' = router /\ stack' = stack
    BY <1>18 DEF Publish, environment
  <2>2. QED BY <1>b, <2>1, StayHushed
<1>19. CASE Cancel
  <2>1. router' = router /\ stack' = stack
    BY <1>19 DEF Cancel, environment
  <2>2. QED BY <1>b, <2>1, StayHushed
<1>20. QED
  BY <1>1, <1>2, <1>3, <1>4, <1>5, <1>6, <1>7, <1>8, <1>9, <1>10,
     <1>11, <1>12, <1>13, <1>14, <1>15, <1>16, <1>17, <1>18, <1>19, <1>21
  DEF Next, Application, Owner, Provider

\* What complete_subscribe leaves while the application's callback runs.
LEMMA SucceedsFacts ==
    ASSUME TypeOK, Nesting, RunTask, SubscribeSucceeds(Head(queue))
    PROVE  LET r == Head(queue).route
           IN  /\ router = "running" /\ router' = router /\ queue' = Tail(queue)
               /\ queue # <<>> /\ reporter' = reporter /\ calls' = calls
               /\ \A q : ~InCallback(q) /\ ~Waits(q)
               /\ r \in Routes /\ \A q \in Routes : q # r => entry'[q] = entry[q]
               /\ entry[r].phase \in Phases /\ entry[r].subscribed
               /\ entry'[r].phase = "active" /\ entry'[r].callback = FALSE
               /\ entry'[r].asked = entry[r].asked
               /\ \A q : (InCallback(q)' <=> q = r) /\ ~Waits(q)'
               /\ Bottom'.asked = entry[r].asked /\ Bottom'.callback = entry[r].callback
               /\ ~entry[r].asked => Bottom'.status = cache
<1> DEFINE t == Head(queue)
           r == t.route
<1>1. /\ t \in Task /\ router' = router /\ At = "idle" /\ queue # <<>>
      /\ queue' = Tail(queue) /\ reporter' = reporter /\ calls' = calls
  BY RunFacts
<1>2. cache \in 0..MaxStatus /\ Entered /\ router = "running" /\ SubscribeSucceeds(t)
  BY EnteredFacts DEF TypeOK, SubscribeSucceeds
<1>3. \A q : ~InCallback(q) /\ ~Waits(q)
  BY <1>1, StackFacts DEF Nesting
<1>4. /\ r \in Routes /\ \A q \in Routes : q # r => entry'[q] = entry[q]
      /\ entry[r].phase \in Phases /\ entry[r].subscribed
      /\ entry'[r].phase = "active" /\ entry'[r].callback = FALSE
      /\ entry'[r].asked = entry[r].asked
      /\ \A q : (InCallback(q)' <=> q = r) /\ ~Waits(q)'
      /\ Bottom'.asked = entry[r].asked /\ Bottom'.callback = entry[r].callback
      /\ ~entry[r].asked => Bottom'.status = cache
  BY <1>1, <1>2, SucceedsEffect
<1>5. QED BY <1>1, <1>2, <1>3, <1>4

\* A step keeps it true that an active route that was let go is being unsubscribed.
LEMMA HushedStep ==
    ASSUME TypeOK, Nesting, Hushed, Next
    PROVE  Hushed'
<1>1. CASE Moves
  BY <1>1, HushedMoves
<1>2. CASE Shutdown
  <2> DEFINE f == [at |-> "process"]
  <2>1. f \in Frame /\ f.at = "process" /\ ApplicationRuns /\ stack' = <<f>> \o stack
        /\ router' = "draining"
    BY <1>2, FrameFacts DEF Shutdown
  <2> HIDE DEF f
  <2>2. At' = "process"
    BY <2>1, Pushed DEF Nesting
  <2>3. QED BY <2>1, <2>2 DEF Hushed
<1>3. CASE RunTask /\ SubscribeSucceeds(Head(queue))
  <2> DEFINE r == Head(queue).route
  <2>1. /\ router = "running" /\ router' = router /\ \A q : ~InCallback(q)
        /\ r \in Routes /\ \A q \in Routes : q # r => entry'[q] = entry[q]
        /\ entry'[r].asked = entry[r].asked
        /\ \A q : InCallback(q)' <=> q = r
        /\ Bottom'.asked = entry[r].asked
    BY <1>3, SucceedsFacts
  <2> HIDE DEF r
  <2>2. QED BY <2>1 DEF Hushed
<1>4. QED BY <1>1, <1>2, <1>3, MovesStep

\* A quiet step that tells nobody anything keeps Informed.
LEMMA SameInformed ==
    ASSUME Informed, Moves, router' = router, told' = told, cache' = cache, KeptCallbacks
    PROVE  Informed'
BY DEF Informed, Moves, KeptCallbacks

\* A quiet step keeps Informed.
LEMMA InformedMoves ==
    ASSUME TypeOK, Nesting, Agreement, Hushed, Informed, Moves, Next
    PROVE  Informed'
<1>b. Agreement /\ Hushed /\ Informed /\ Moves
  OBVIOUS
<1>1. ASSUME NEW r \in Routes, Subscribe(r) PROVE Informed'
  <2>1. router' = router /\ told' = told /\ cache' = cache /\ KeptCallbacks
    BY <1>1, Interrupts DEF Subscribe, environment
  <2>2. QED BY <1>b, <2>1, SameInformed
<1>2. ASSUME NEW r \in Routes, SubscribeInline(r) PROVE Informed'
  <2>1. router' = router /\ told' = told /\ cache' = cache /\ KeptCallbacks
    BY <1>2, Interrupts DEF SubscribeInline, environment
  <2>2. QED BY <1>b, <2>1, SameInformed
<1>3. ASSUME NEW r \in Routes, Release(r) PROVE Informed'
  <2>1. router' = router /\ told' = told /\ cache' = cache /\ KeptCallbacks
    BY <1>3, Interrupts DEF Release, environment
  <2>2. QED BY <1>b, <2>1, SameInformed
<1>4. ASSUME NEW r \in Routes, ReleasePending(r) PROVE Informed'
  <2>1. router' = router /\ told' = told /\ cache' = cache /\ KeptCallbacks
    BY <1>4, Interrupts DEF ReleasePending, environment
  <2>2. QED BY <1>b, <2>1, SameInformed
<1>5. CASE RetryFailed
  <2>1. router' = router /\ told' = told /\ cache' = cache /\ KeptCallbacks
    BY <1>5, Interrupts DEF RetryFailed, environment
  <2>2. QED BY <1>b, <2>1, SameInformed
<1>6. CASE Shutdown
  BY <1>6 DEF Shutdown, Informed
<1>7. CASE HostTick
  <2>1. router' = router /\ told' = told /\ cache' = cache /\ KeptCallbacks
    BY <1>7, Interrupts DEF HostTick, environment
  <2>2. QED BY <1>b, <2>1, SameInformed
<1>8. CASE RunTask
  <2> DEFINE t == Head(queue)
  <2>1. t \in Task /\ router' = router /\ At = "idle"
    BY <1>8, RunFacts
  <2>2. \A q : ~InCallback(q) /\ ~Waits(q)
    BY <2>1, StackFacts DEF Nesting
  <2>3. CASE SubscribeSucceeds(t)
    <3>1. t.route \in Routes /\ entry'[t.route].phase = "active"
          /\ entry[t.route].phase # "active"
      BY <1>b, <1>8, <2>3, SucceedsFacts DEF Agreement, Agrees, Phases
    <3>2. QED BY <1>b, <3>1 DEF Moves
  <2>4. CASE t.kind = "status" /\ RouteStatus(t)
    <3>1. /\ entry' = entry /\ (Entries # {} => cache' = t.status)
          /\ Entries = {} => cache' = cache
          /\ \A q : ~InCallback(q)'
      BY <2>1, <2>4, RouteStatusStack DEF RouteStatus, Nesting
    <3>2. \A q \in Routes : entry[q].phase = "active" => Entries # {}
      BY DEF Entries, Phases
    <3>3. router = "running" =>
             \A q \in Routes : q \in Hearers <=> entry[q].phase = "active"
      BY DEF Hearers
    <3>4. CASE told' = told /\ stack' = stack /\ Hearers = {}
      <4>1. \A q : ~Waits(q)'
        BY <2>2, <3>4 DEF Waits, Bottom
      <4>2. QED BY <1>b, <2>1, <3>1, <3>3, <3>4, <4>1 DEF Informed
    <3>5. CASE \E r \in Hearers : Tells(t.status, Hearers, r)
      <4>1. PICK r \in Hearers : Tells(t.status, Hearers, r)
        BY <3>5
      <4>2. told \in [Routes -> 0..MaxStatus]
        BY DEF TypeOK
      <4> HIDE DEF t
      <4>3. ASSUME NEW q \in Routes, router = "running"
            PROVE  /\ entry'[q].phase = "active" => told'[q] = cache' \/ Waits(q)'
                   /\ entry'[q].phase \in {"none", "pending"} => told'[q] = 0 /\ ~Waits(q)'
                   /\ Waits(q)' => Bottom'.status = cache'
        BY <1>b, <3>1, <3>2, <3>3, <4>1, <4>2, <4>3 DEF Informed, Tells
      <4>4. QED BY <2>1, <3>1, <4>3 DEF Informed
    <3>6. QED BY <2>1, <2>4, <3>4, <3>5, RouteStatusFacts DEF Nesting
  <2>k. stack' = stack \/ stack' = <<[at |-> "process"]>>
           => \A q : ~InCallback(q)' /\ ~Waits(q)'
    <3> DEFINE f == [at |-> "process"]
    <3>1. f \in Frame /\ f.at = "process"
      BY FrameFacts
    <3> HIDE DEF f
    <3>2. stack' = <<f>> => \A q : ~InCallback(q)' /\ ~Waits(q)'
      BY <3>1, Single
    <3>3. stack' = stack => \A q : ~InCallback(q)' /\ ~Waits(q)'
      BY <2>2 DEF InCallback, Waits, Bottom
    <3>4. QED BY <3>2, <3>3 DEF f
  <2>5. ASSUME told' = told, \A q : ~InCallback(q)' /\ ~Waits(q)',
               \A q \in Routes : entry'[q].phase = "active" => cache' = cache
        PROVE  Informed'
    BY <1>b, <2>1, <2>2, <2>5 DEF Informed, Moves
  <2>6. CASE cache' = CacheAfter(entry') /\ told' = told /\ stack' = stack
    <3>1. \A q \in Routes : entry'[q].phase = "active" => cache' = cache
      BY <2>6 DEF CacheAfter, Phases
    <3>2. QED BY <2>5, <2>6, <2>k, <3>1
  <2>7. CASE /\ cache' = cache /\ told' = told
             /\ stack' = stack \/ stack' = <<[at |-> "process"]>>
    BY <2>5, <2>7, <2>k
  <2>8. QED BY <1>8, RunFacts, <2>3, <2>4, <2>6, <2>7
            DEF SubscribeFails, SubscribeFailed, SubscribePassed, CompleteUnsubscribe,
                RunProcess
<1>9. CASE FinishSubscribe
  <2> DEFINE r == Head(stack).route
             status == Head(stack).status
  <2>1. /\ r \in Routes /\ At = "callback" /\ Bottom = Head(stack) /\ InCallback(r)
        /\ \A q : ~InCallback(q)' /\ ~Waits(q)' /\ ~Waits(q)
    BY <1>9, StackFacts, CallbackReturns DEF FinishSubscribe, Nesting
  <2>2. /\ ~Bottom.asked /\ router' = router /\ entry' = entry /\ cache' = cache
        /\ told' = IF status # 0 /\ StillActive(r) THEN [told EXCEPT ![r] = status] ELSE told
    BY <1>9, <2>1 DEF FinishSubscribe
  <2>3. told \in [Routes -> 0..MaxStatus] /\ status = Bottom.status
    BY <2>1 DEF TypeOK
  <2>4. \A q \in Routes : InCallback(q) => q = r
    BY <2>1 DEF InCallback
  <2> HIDE DEF r, status
  <2>5. CASE status # 0 /\ StillActive(r)
    BY <1>b, <2>1, <2>2, <2>3, <2>4, <2>5 DEF Informed, StillActive
  <2>6. CASE ~(status # 0 /\ StillActive(r))
    BY <1>b, <2>1, <2>2, <2>3, <2>4, <2>6 DEF Informed, StillActive, Hushed
  <2>7. QED BY <2>5, <2>6
<1>10. CASE FinishReleased
  <2> DEFINE r == Head(stack).route
  <2>1. /\ r \in Routes /\ At = "callback" /\ Bottom = Head(stack)
        /\ \A q : ~InCallback(q)' /\ ~Waits(q)' /\ ~Waits(q)
    BY <1>10, StackFacts, CallbackReturns DEF FinishReleased, Nesting
  <2>2. router' = router /\ told' = told /\ cache' = cache
    BY <1>10 DEF FinishReleased
  <2>3. \A q \in Routes : InCallback(q) => q = r
    BY <2>1 DEF InCallback
  <2>4. entry'[r].phase # "active"
    <3>1. CASE entry[r].phase \in {"active", "failed"}
      BY <1>10, <2>1, <3>1, LetGoEffect DEF FinishReleased
    <3>2. CASE entry[r].phase \notin {"active", "failed"}
      BY <1>10, <3>2 DEF FinishReleased
    <3>3. QED BY <3>1, <3>2
  <2> HIDE DEF r
  <2>5. QED BY <1>b, <2>1, <2>2, <2>3, <2>4 DEF Informed, Moves
<1>21. CASE TellOne
  <2>1. /\ Bottom.routes \subseteq Routes
        /\ \A q : ~InCallback(q) /\ (Waits(q) <=> q \in Bottom.routes)
        /\ \E r \in Bottom.routes : Tells(Bottom.status, Bottom.routes, r)
        /\ router' = router /\ entry' = entry /\ cache' = cache
    BY <1>21, TellOneFacts DEF TellOne, Nesting
  <2>2. PICK n, R : n = Bottom.status /\ R = Bottom.routes
    OBVIOUS
  <2>3. PICK r \in R : Tells(n, R, r)
    BY <2>1, <2>2
  <2>4. told \in [Routes -> 0..MaxStatus]
    BY DEF TypeOK
  <2>5. ASSUME NEW q \in Routes, router = "running"
        PROVE  /\ entry[q].phase = "active" => told'[q] = cache \/ Waits(q)'
               /\ entry[q].phase \in {"none", "pending"} => told'[q] = 0 /\ ~Waits(q)'
               /\ Waits(q)' => Bottom'.status = cache
    BY <1>b, <2>1, <2>2, <2>3, <2>4, <2>5 DEF Informed, Tells
  <2>6. \A q : ~InCallback(q)'
    BY <2>3 DEF Tells
  <2>7. QED BY <2>1, <2>5, <2>6 DEF Informed
<1>11. CASE RetryOne
  <2>1. router' = router /\ told' = told /\ cache' = cache /\ KeptCallbacks
    BY <1>11, Interrupts DEF RetryOne, environment
  <2>2. QED BY <1>b, <2>1, SameInformed
<1>12. CASE ProcessPass
  <2>1. router' # "running"
    BY <1>12 DEF ProcessPass, Nesting
  <2>2. QED BY <2>1 DEF Informed
<1>13. CASE CleanupOne
  <2>1. router' = router /\ told' = told /\ cache' = cache /\ KeptCallbacks
    BY <1>13, Interrupts DEF CleanupOne, environment
  <2>2. QED BY <1>b, <2>1, SameInformed
<1>14. ASSUME NEW r \in Routes, Answer(r) PROVE Informed'
  <2>1. router' = router /\ told' = told /\ cache' = cache /\ KeptCallbacks
    BY <1>14, Interrupts DEF Answer, environment
  <2>2. QED BY <1>b, <2>1, SameInformed
<1>15. ASSUME NEW r \in Routes, HistoryAnswers(r) PROVE Informed'
  <2>1. router' = router /\ told' = told /\ cache' = cache /\ KeptCallbacks
    BY <1>15, Interrupts DEF HistoryAnswers, environment
  <2>2. QED BY <1>b, <2>1, SameInformed
<1>16. CASE PostReport
  <2>1. router' = router /\ told' = told /\ cache' = cache /\ KeptCallbacks
    BY <1>16, Interrupts DEF PostReport, environment
  <2>2. QED BY <1>b, <2>1, SameInformed
<1>17. CASE MarkReport
  <2>1. router' = router /\ told' = told /\ cache' = cache /\ KeptCallbacks
    BY <1>17, Interrupts DEF MarkReport, environment
  <2>2. QED BY <1>b, <2>1, SameInformed
<1>18. CASE Publish
  <2>1. router' = router /\ told' = told /\ cache' = cache /\ KeptCallbacks
    BY <1>18, Interrupts DEF Publish, environment
  <2>2. QED BY <1>b, <2>1, SameInformed
<1>19. CASE Cancel
  <2>1. router' = router /\ told' = told /\ cache' = cache /\ KeptCallbacks
    BY <1>19, Interrupts DEF Cancel, environment
  <2>2. QED BY <1>b, <2>1, SameInformed
<1>20. QED
  BY <1>1, <1>2, <1>3, <1>4, <1>5, <1>6, <1>7, <1>8, <1>9, <1>10,
     <1>11, <1>12, <1>13, <1>14, <1>15, <1>16, <1>17, <1>18, <1>19, <1>21
  DEF Next, Application, Owner, Provider

\* A step keeps active routes informed.
LEMMA InformedStep ==
    ASSUME TypeOK, Nesting, Agreement, Hushed, Informed, Next
    PROVE  Informed'
<1>1. CASE Moves
  BY <1>1, InformedMoves
<1>2. CASE Shutdown
  BY <1>2 DEF Shutdown, Informed
<1>3. CASE RunTask /\ SubscribeSucceeds(Head(queue))
  <2> DEFINE r == Head(queue).route
  <2>1. /\ router = "running" /\ \A q : ~InCallback(q)
        /\ r \in Routes /\ \A q \in Routes : q # r => entry'[q] = entry[q]
        /\ entry[r].phase \in Phases /\ entry[r].subscribed
        /\ entry'[r].phase = "active"
        /\ entry'[r].asked = entry[r].asked
        /\ \A q : (InCallback(q)' <=> q = r) /\ ~Waits(q)' /\ ~Waits(q)
        /\ Bottom'.asked = entry[r].asked
        /\ ~entry[r].asked => Bottom'.status = cache
    BY <1>3, SucceedsFacts
  <2>2. cache' = cache /\ told' = told
    BY <1>3 DEF SubscribeSucceeds, Subscribed
  <2> HIDE DEF r
  <2>3. entry[r].phase = "pending"
    BY <2>1 DEF Agreement, Agrees, Phases
  <2>4. QED BY <2>1, <2>2, <2>3 DEF Informed
<1>4. QED BY <1>1, <1>2, <1>3, MovesStep

-----------------------------------------------------------------------------
(* Callbacks are called once, and in order. *)

\* No release callback of r comes into the queue.
QueueKeeps(r) == (Queued(r)' => Queued(r)) /\ OnceQueued(r)'

\* A step that starts no release callback of r, and calls none.
Kept(r) ==
    /\ Called(r)' => Called(r)
    /\ Reported(r)' => Reported(r)
    /\ QueueKeeps(r)
    /\ Carried(r)' => Carried(r) /\ Bottom' = Bottom
    /\ entry'[r].callback => entry[r].callback
    /\ entry[r].asked => entry'[r].asked
    /\ released'[r] = released[r]

\* A step that starts no release keeps the callback in one place.
LEMMA KeptRelease ==
    ASSUME NEW r \in Routes, OneRelease(r), Kept(r)
    PROVE  OneRelease(r)'
BY DEF OneRelease, Kept, QueueKeeps

\* An unchanged queue takes in no release.
LEMMA SameQueue ==
    ASSUME NEW r, OnceQueued(r), queue' = queue
    PROVE  QueueKeeps(r)
BY DEF QueueKeeps, OnceQueued, Queued, IsRelease

\* One more task is the only release that may come in.
LEMMA GrownQueue ==
    ASSUME NEW r, OnceQueued(r), Len(queue) \in Nat, NEW t, Grown(t)
    PROVE  /\ ~IsRelease(t, r) => QueueKeeps(r)
           /\ ~Queued(r) => OnceQueued(r)'
<1>1. CASE queue' = queue
  BY <1>1, SameQueue DEF QueueKeeps
<1>2. CASE /\ Len(queue') = Len(queue) + 1 /\ queue'[Len(queue) + 1] = t
           /\ \A i \in 1..Len(queue) : queue'[i] = queue[i]
  <2>1. \A i \in 1..Len(queue') : i \in 1..Len(queue) \/ i = Len(queue) + 1
    BY <1>2
  <2>2. QED BY <1>2, <2>1 DEF QueueKeeps, OnceQueued, Queued, IsRelease
<1>3. QED BY <1>1, <1>2 DEF Grown

\* A release callback that leaves the queue is there no more.
LEMMA ShortQueue ==
    ASSUME TypeOK, NEW r, OnceQueued(r), queue # <<>>, queue' = Tail(queue)
    PROVE  /\ QueueKeeps(r)
           /\ IsRelease(Head(queue), r) => Queued(r) /\ ~Queued(r)'
<1>1. /\ Head(queue) = queue[1]
      /\ Len(queue) \in Nat /\ Len(queue) >= 1 /\ Len(queue') = Len(queue) - 1
      /\ \A i \in 1..Len(queue') : i + 1 \in 1..Len(queue) /\ queue'[i] = queue[i + 1]
  BY Dequeued
<1>2. \A i, j \in 1..Len(queue') : i + 1 = j + 1 => i = j
  BY <1>1
<1>3. \A i \in 1..Len(queue') : i + 1 # 1
  BY <1>1
<1>4. 1 \in 1..Len(queue)
  BY <1>1
<1>5. /\ (Queued(r)' => Queued(r))
      /\ IsRelease(Head(queue), r) => Queued(r) /\ ~Queued(r)'
  BY <1>1, <1>3, <1>4 DEF OnceQueued, Queued, IsRelease
<1>6. OnceQueued(r)'
  <2>1. SUFFICES ASSUME NEW i \in 1..Len(queue'), NEW j \in 1..Len(queue'),
                        IsRelease(queue'[i], r), IsRelease(queue'[j], r)
                 PROVE  i = j
    BY DEF OnceQueued, IsRelease
  <2>2. IsRelease(queue[i + 1], r) /\ IsRelease(queue[j + 1], r)
    BY <1>1, <2>1
  <2>3. QED BY <1>1, <1>2, <2>2 DEF OnceQueued
<1>7. QED BY <1>5, <1>6 DEF QueueKeeps


\* No callback is being called after the step, and no release reported.
CallbackOver == \A r : ~InCallback(r)'

NothingToReport == reporter' = Idle \/ reporter'.task.kind # "release"

\* The same for a step described by its effects on one route.
LEMMA QuietStep ==
    ASSUME NEW q \in Routes, OneRelease(q), KeptCallbacks \/ CallbackOver,
           reporter' = reporter \/ NothingToReport,
           calls'[q] # "release" \/ calls'[q] = calls[q],
           entry'[q].callback => entry[q].callback, entry[q].asked => entry'[q].asked,
           released'[q] = released[q], QueueKeeps(q)
    PROVE  OneRelease(q)'
<1>1. (Called(q)' => Called(q)) /\ (Reported(q)' => Reported(q))
  BY DEF Called, Reported, IsRelease, NothingToReport
<1>2. Carried(q)' => Carried(q) /\ Bottom' = Bottom
  BY DEF Carried, KeptCallbacks, CallbackOver
<1>3. QED BY <1>1, <1>2, KeptRelease DEF Kept

\* The same for a step that leaves the queue alone, for all routes.
LEMMA SameReleases ==
    ASSUME \A q \in Routes : OneRelease(q), KeptCallbacks \/ CallbackOver,
           reporter' = reporter \/ NothingToReport,
           \A q \in Routes : calls'[q] # "release" \/ calls'[q] = calls[q],
           \A q \in Routes : /\ entry[q].asked => entry'[q].asked
                             /\ entry'[q].callback => entry[q].callback,
           queue' = queue, released' = released
    PROVE  \A q \in Routes : OneRelease(q)'
<1>1. SUFFICES ASSUME NEW q \in Routes PROVE OneRelease(q)'
  OBVIOUS
<1>2. OneRelease(q)
  OBVIOUS
<1>3. OnceQueued(q)
  BY <1>2 DEF OneRelease
<1>4. QueueKeeps(q)
  BY <1>3, SameQueue
<1>5. /\ entry'[q].callback => entry[q].callback
      /\ entry[q].asked => entry'[q].asked
  OBVIOUS
<1>6. /\ calls'[q] # "release" \/ calls'[q] = calls[q]
      /\ released'[q] = released[q]
  OBVIOUS
<1>7. QED BY <1>2, <1>4, <1>5, <1>6, QuietStep

\* start_unsubscribe for r.
LetsGo(r, k) ==
    /\ Others(r) /\ (entry[r].asked => entry'[r].asked)
    /\ entry'[r].callback = entry[r].callback
    /\ k = "release" => entry'[r].asked
    /\ \/ calls'[r] = k /\ queue' = queue
       \/ calls'[r] = calls[r] /\ Told(r, k)

FreeToRelease(r) ==
    /\ ~Called(r) /\ ~Reported(r) /\ ~Queued(r) /\ ~Carried(r)' /\ ~entry[r].callback
    /\ released[r] = 0

\* start_unsubscribe moves the release callback to the call or to the task.
LEMMA LetsGoReleases ==
    ASSUME TypeOK, NEW r \in Routes, NEW k \in {"release", "cleanup"}, LetsGo(r, k),
           \A q \in Routes : OneRelease(q), KeptCallbacks \/ CallbackOver,
           reporter' = reporter, released' = released,
           k = "release" => FreeToRelease(r)
    PROVE  \A q \in Routes : OneRelease(q)'
<1>a. ASSUME NEW q PROVE /\ Reported(q)' <=> Reported(q)
                         /\ Carried(q)' => Carried(q) /\ Bottom' = Bottom
  BY DEF Reported, IsRelease, Carried, KeptCallbacks, CallbackOver
<1>b. Len(queue) \in Nat /\ \A q \in Routes : OnceQueued(q)
  BY EnteredFacts DEF OneRelease
<1>c. ASSUME NEW q \in Routes, q # r \/ k = "cleanup"
      PROVE  QueueKeeps(q)
  <2>1. CASE queue' = queue
    BY <1>b, <2>1, SameQueue
  <2>2. CASE Told(r, k)
    <3>1. PICK t : Grown(t) /\ \/ t.kind = "process"
                               \/ t.kind = k /\ t.route = r
      BY <2>2 DEF Told
    <3>2. QED BY <1>b, <1>c, <3>1, GrownQueue DEF IsRelease
  <2>3. QED BY <2>1, <2>2 DEF LetsGo
<1>1. ASSUME NEW q \in Routes, q # r \/ k = "cleanup" PROVE OneRelease(q)'
  <2>1. (Called(q)' => Called(q)) /\ (entry'[q].callback => entry[q].callback)
        /\ (entry[q].asked => entry'[q].asked)
    BY <1>1 DEF LetsGo, Others, Called
  <2>2. Kept(q)
    BY <1>a, <1>c, <1>1, <2>1 DEF Kept
  <2>3. QED BY <2>2, KeptRelease
<1>2. ASSUME k = "release" PROVE OneRelease(r)'
  <2>1. ~Reported(r)' /\ ~Carried(r)' /\ ~entry'[r].callback /\ entry'[r].asked
        /\ released'[r] = 0
    BY <1>a, <1>2 DEF FreeToRelease, LetsGo
  <2>2. OnceQueued(r)' /\ ~(Called(r)' /\ Queued(r)')
    <3>1. CASE calls'[r] = k /\ queue' = queue
      BY <1>b, <1>2, <3>1, SameQueue DEF FreeToRelease, QueueKeeps
    <3>2. CASE calls'[r] = calls[r] /\ Told(r, k)
      <4>1. PICK t : Grown(t)
        BY <3>2 DEF Told
      <4>2. QED BY <1>b, <1>2, <3>2, <4>1, GrownQueue DEF FreeToRelease, Called, QueueKeeps
    <3>3. QED BY <3>1, <3>2 DEF LetsGo
  <2>3. QED BY <2>1, <2>2 DEF OneRelease
<1>3. QED BY <1>1, <1>2

\* A task that runs calls the release callback or hands it on.
LEMMA RunReleases ==
    ASSUME TypeOK, Nesting, Releases, RunTask
    PROVE  \A q \in Routes : OneRelease(q)'
<1>0. PICK t, r : t = Head(queue) /\ r = t.route
  OBVIOUS
<1>1. /\ At = "idle" /\ queue # <<>> /\ queue' = Tail(queue) /\ t \in Task
      /\ reporter' = reporter /\ calls' = calls /\ router' = router
  BY <1>0, RunFacts
<1>2. Entered /\ \A q \in Routes : OneRelease(q) /\ OnceQueued(q)
  BY EnteredFacts DEF Releases, OneRelease
<1>3. \A q \in Routes : QueueKeeps(q)
  BY <1>0, <1>1, <1>2, ShortQueue
<1>4. \A q : ~InCallback(q)
  BY <1>1, StackFacts DEF Nesting
<1>5. stack' = stack \/ stack' = <<[at |-> "process"]>> => CallbackOver
  <2> DEFINE f == [at |-> "process"]
  <2>1. f \in Frame /\ f.at = "process"
    BY FrameFacts
  <2> HIDE DEF f
  <2>2. stack' = <<f>> => CallbackOver
    BY <2>1, Single DEF CallbackOver
  <2>3. stack' = stack => CallbackOver
    BY <1>4 DEF InCallback, Bottom, CallbackOver
  <2>4. QED BY <2>2, <2>3 DEF f
<1>6. CASE /\ stack' = stack \/ stack' = <<[at |-> "process"]>>
           /\ entry' = entry /\ released' = released
  <2> SUFFICES ASSUME NEW q \in Routes PROVE OneRelease(q)'
    OBVIOUS
  <2>1. QueueKeeps(q) /\ OneRelease(q)
    BY <1>2, <1>3
  <2>2. QED BY <1>1, <1>5, <1>6, <2>1, QuietStep
<1>7. CASE SubscribeFails(t)
  <2>1. /\ r \in Routes /\ \A q \in Routes : q # r => entry'[q] = entry[q]
        /\ entry'[r].callback = FALSE /\ entry'[r].asked = entry[r].asked
    BY <1>0, <1>1, <1>2, <1>7, FailsEffect
  <2>2. /\ stack' = stack /\ t.kind = "subscribe"
        /\ released' = IF entry[r].callback THEN [released EXCEPT ![r] = @ + 1] ELSE released
    BY <1>0, <1>7 DEF SubscribeFails, SubscribeFailed
  <2>3. \A q \in Routes : q # r => released'[q] = released[q]
    BY <2>2 DEF TypeOK
  <2>4. \A q \in Routes : q # r => OneRelease(q)'
    BY <1>1, <1>2, <1>3, <1>5, <2>1, <2>2, <2>3, QuietStep
  <2>5. CASE ~entry[r].callback
    BY <1>1, <1>2, <1>3, <1>5, <2>1, <2>2, <2>4, <2>5, QuietStep
  <2>6. CASE entry[r].callback
    <3>1. /\ ~Called(r) /\ ~Reported(r) /\ ~Queued(r) /\ ~Carried(r) /\ entry[r].asked
      BY <1>2, <2>1, <2>6 DEF OneRelease
    <3>2. /\ ~Called(r)' /\ ~Reported(r)' /\ ~Queued(r)' /\ ~Carried(r)' /\ OnceQueued(r)'
      BY <1>1, <1>3, <1>5, <2>1, <2>2, <3>1
      DEF Called, Reported, IsRelease, Carried, CallbackOver, QueueKeeps
    <3>3. OneRelease(r)'
      BY <2>1, <3>1, <3>2 DEF OneRelease
    <3>4. QED BY <2>4, <3>3
  <2>7. QED BY <2>5, <2>6
<1>8. CASE SubscribeSucceeds(t)
  <2>1. /\ r \in Routes /\ \A q \in Routes : q # r => entry'[q] = entry[q]
        /\ entry'[r].callback = FALSE /\ entry'[r].asked = entry[r].asked
        /\ \A q : InCallback(q)' <=> q = r
        /\ Bottom'.asked = entry[r].asked /\ Bottom'.callback = entry[r].callback
    BY <1>0, <1>8, SucceedsFacts
  <2>2. released' = released
    BY <1>8 DEF SubscribeSucceeds, Subscribed
  <2>3. ASSUME NEW q \in Routes, q # r PROVE OneRelease(q)'
    <3>1. ~Carried(q)'
      BY <2>1, <2>3 DEF Carried
    <3>2. Kept(q)
      BY <1>1, <1>2, <1>3, <2>1, <2>2, <2>3, <3>1 DEF Kept, Called, Reported, IsRelease
    <3>3. QED BY <1>2, <3>2, KeptRelease
  <2>4. OneRelease(r)'
    <3>1. /\ Called(r)' <=> Called(r)
          /\ Reported(r)' <=> Reported(r)
          /\ QueueKeeps(r)
      BY <1>1, <1>3, <2>1 DEF Called, Reported, IsRelease
    <3>2. Carried(r)' <=> entry[r].callback
      BY <2>1 DEF Carried
    <3>3. OneRelease(r)
      BY <1>2, <2>1
    <3>4. QED BY <2>1, <2>2, <3>1, <3>2, <3>3 DEF OneRelease, QueueKeeps
  <2>5. QED BY <2>3, <2>4
<1>9. CASE t.kind \in {"release", "cleanup"} /\ CompleteUnsubscribe(t)
  <2>1. released \in [Routes -> Nat] /\ stack' = stack
    BY <1>9 DEF TypeOK, CompleteUnsubscribe
  <2>2. /\ r \in Routes
        /\ \A q \in Routes : q # r => entry'[q] = entry[q] /\ released'[q] = released[q]
        /\ \/ entry' = entry /\ released' = released
           \/ /\ entry'[r].callback = entry[r].callback /\ entry'[r].asked = entry[r].asked
              /\ \/ released' = released
                 \/ t.kind = "release"
    BY <1>0, <1>1, <1>2, <1>9, <2>1, UnsubscribedEffect
  <2>3. IsRelease(t, r) <=> t.kind = "release"
    BY <1>0 DEF IsRelease
  <2>4. \A q \in Routes : q # r => OneRelease(q)'
    BY <1>1, <1>2, <1>3, <1>5, <2>1, <2>2, QuietStep
  <2>5. CASE released' = released
    BY <1>1, <1>2, <1>3, <1>5, <2>1, <2>2, <2>4, <2>5, QuietStep
  <2>6. CASE t.kind = "release" /\ released' # released
    <3>1. Queued(r) /\ ~Queued(r)' /\ OnceQueued(r)'
      BY <1>0, <1>1, <1>2, <2>2, <2>3, <2>6, ShortQueue DEF QueueKeeps
    <3>2. ~Called(r) /\ ~Reported(r) /\ ~Carried(r) /\ ~entry[r].callback /\ entry[r].asked
      BY <1>2, <2>2, <3>1 DEF OneRelease
    <3>3. ~Called(r)' /\ ~Reported(r)' /\ ~Carried(r)' /\ ~entry'[r].callback /\ entry'[r].asked
      BY <1>1, <1>5, <2>1, <2>2, <2>6, <3>2
      DEF Called, Reported, IsRelease, Carried, CallbackOver
    <3>4. OneRelease(r)'
      BY <3>1, <3>3 DEF OneRelease
    <3>5. QED BY <2>4, <3>4
  <2>7. QED BY <2>2, <2>5, <2>6
<1>10. CASE t.kind = "status" /\ RouteStatus(t)
  <2>1. CallbackOver
    BY <1>1, <1>10, RouteStatusStack DEF Nesting, CallbackOver
  <2>2. entry' = entry /\ released' = released
    BY <1>10 DEF RouteStatus
  <2> SUFFICES ASSUME NEW q \in Routes PROVE OneRelease(q)'
    OBVIOUS
  <2>3. QueueKeeps(q) /\ OneRelease(q)
    BY <1>2, <1>3
  <2>4. QED BY <1>1, <2>1, <2>2, <2>3, QuietStep
<1>11. QED
  BY <1>0, RunFacts, <1>6, <1>7, <1>8, <1>9, <1>10 DEF SubscribePassed, RunProcess

\* A step keeps the release callback of a route in one place.
LEMMA ReleasesStep ==
    ASSUME TypeOK, Nesting, Releases, Next
    PROVE  \A q \in Routes : OneRelease(q)'
<1>a. Entered
  BY EnteredFacts
<1>b. /\ TypeOK /\ Len(queue) \in Nat
      /\ \A q \in Routes : OneRelease(q) /\ OnceQueued(q)
  BY EnteredFacts DEF Releases, OneRelease
<1>1. ASSUME NEW r \in Routes, Subscribe(r) PROVE \A q \in Routes : OneRelease(q)'
  <2>1. /\ KeptCallbacks /\ reporter' = reporter /\ released' = released
        /\ \A q \in Routes : calls'[q] \in {calls[q], "subscribe"}
    BY <1>1, Interrupts, SubscribeEffect DEF Subscribe, environment, Others
  <2>2. \A q \in Routes : /\ entry[q].asked => entry'[q].asked
                          /\ entry'[q].callback => entry[q].callback
    BY <1>a, <1>1, SubscribeEffect DEF Others
  <2>3. queue' = queue
    BY <1>1 DEF Subscribe
  <2>4. QED BY <1>b, <2>1, <2>2, <2>3, SameReleases
<1>2. ASSUME NEW r \in Routes, SubscribeInline(r) PROVE \A q \in Routes : OneRelease(q)'
  <2>1. /\ KeptCallbacks /\ reporter' = reporter /\ released' = released
        /\ \A q \in Routes : calls'[q] \in {calls[q], "subscribe"}
    BY <1>2, Interrupts, SubscribeInlineEffect DEF SubscribeInline, environment, Others
  <2>2. \A q \in Routes : /\ entry[q].asked => entry'[q].asked
                          /\ entry'[q].callback => entry[q].callback
    BY <1>a, <1>2, SubscribeInlineEffect DEF Others
  <2>3. PICK t \in Task : Grown(t) /\ t.kind = "subscribe"
    BY <1>2, SubscribeInlineEffect
  <2>4. ASSUME NEW q \in Routes PROVE OneRelease(q)'
    <3>1. QueueKeeps(q)
      BY <1>b, <2>3, GrownQueue DEF IsRelease
    <3>3. /\ entry'[q].callback => entry[q].callback
          /\ entry[q].asked => entry'[q].asked
      BY <2>2
    <3>4. QED BY <1>b, <2>1, <3>1, <3>3, QuietStep
  <2>5. QED BY <2>4
<1>3. ASSUME NEW r \in Routes, Release(r) PROVE \A q \in Routes : OneRelease(q)'
  <2>1. /\ KeptCallbacks /\ reporter' = reporter /\ released' = released /\ ~entry[r].asked
    BY <1>3, Interrupts DEF Release
  <2>2. LetsGo(r, "release")
    BY <1>3, LetGoEffect DEF Release, LetsGo
  <2>3. FreeToRelease(r)
    BY <1>b, <2>1 DEF OneRelease, FreeToRelease, KeptCallbacks, Carried
  <2>4. QED BY <1>b, <2>1, <2>2, <2>3, LetsGoReleases
<1>4. ASSUME NEW r \in Routes, ReleasePending(r) PROVE \A q \in Routes : OneRelease(q)'
  <2>1. /\ KeptCallbacks /\ calls' = calls /\ reporter' = reporter
        /\ queue' = queue /\ released' = released
    BY <1>4, Interrupts DEF ReleasePending, environment
  <2>2. /\ Others(r) /\ ~entry[r].asked /\ entry'[r].asked = TRUE
    BY <1>a, <1>4, ReleasePendingEffect
  <2>3. \A q \in Routes : q # r => OneRelease(q)'
    BY <1>b, <2>1, <2>2, QuietStep, SameQueue DEF Others
  <2>4. ~Called(r) /\ ~Reported(r) /\ ~Queued(r) /\ ~Carried(r) /\ released[r] = 0
    BY <1>b, <2>2 DEF OneRelease
  <2>5. OneRelease(r)
    BY <1>b
  <2>6. OnceQueued(r)' /\ ~Queued(r)' /\ ~Called(r)' /\ ~Reported(r)' /\ ~Carried(r)'
    BY <2>1, <2>4, <2>5, SameQueue
    DEF OneRelease, Called, Reported, Carried, KeptCallbacks, IsRelease, QueueKeeps
  <2>7. OneRelease(r)'
    BY <2>1, <2>2, <2>4, <2>6 DEF OneRelease
  <2>8. QED BY <2>3, <2>7
<1>5. CASE RetryFailed
  <2>1. /\ KeptCallbacks /\ calls' = calls /\ reporter' = reporter
        /\ queue' = queue /\ released' = released
    BY <1>5, Interrupts DEF RetryFailed, environment
  <2>2. \A q \in Routes : /\ entry[q].asked => entry'[q].asked
                          /\ entry'[q].callback => entry[q].callback
    BY <1>a, <1>5 DEF RetryFailed, environment
  <2>3. QED BY <1>b, <2>1, <2>2, SameReleases
<1>6. CASE Shutdown
  <2>1. /\ KeptCallbacks /\ calls' = calls /\ reporter' = reporter
        /\ queue' = queue /\ released' = released
    BY <1>6, Interrupts DEF Shutdown, environment
  <2>2. \A q \in Routes : /\ entry[q].asked => entry'[q].asked
                          /\ entry'[q].callback => entry[q].callback
    BY <1>a, <1>6, ShutdownEffect
  <2>3. QED BY <1>b, <2>1, <2>2, SameReleases
<1>7. CASE HostTick
  <2>1. /\ KeptCallbacks /\ calls' = calls /\ reporter' = reporter
        /\ queue' = queue /\ released' = released
    BY <1>7, Interrupts DEF HostTick, environment
  <2>2. \A q \in Routes : /\ entry[q].asked => entry'[q].asked
                          /\ entry'[q].callback => entry[q].callback
    BY <1>a, <1>7 DEF HostTick, environment
  <2>3. QED BY <1>b, <2>1, <2>2, SameReleases
<1>8. CASE RunTask
  <2>1. QED BY <1>8, RunReleases
<1>9. CASE FinishSubscribe
  <2>1. /\ calls' = calls /\ reporter' = reporter /\ entry' = entry
        /\ queue' = queue /\ released' = released
        /\ CallbackOver
    BY <1>9, CallbackReturns DEF FinishSubscribe, environment, Nesting, CallbackOver
  <2>2. QED BY <1>b, <2>1, SameReleases
<1>10. CASE FinishReleased
  <2>0. PICK r, k : /\ r = Head(stack).route
                    /\ k = IF Head(stack).callback THEN "release" ELSE "cleanup"
    OBVIOUS
  <2>1. /\ r \in Routes /\ reporter' = reporter /\ released' = released
        /\ k \in {"release", "cleanup"}
        /\ CallbackOver /\ InCallback(r) /\ Bottom = Head(stack)
    BY <1>10, <2>0, StackFacts, CallbackReturns DEF FinishReleased, Nesting, CallbackOver
  <2>2. CASE entry[r].phase \in {"active", "failed"}
    <3>1. LetsGo(r, k)
      BY <1>10, <2>0, <2>1, <2>2, LetGoEffect DEF FinishReleased, LetsGo
    <3>2. k = "release" => Carried(r)
      BY <2>0, <2>1 DEF Carried
    <3>3. k = "release" => FreeToRelease(r)
      BY <1>b, <2>1, <3>2 DEF OneRelease, FreeToRelease, CallbackOver, Carried
    <3>4. QED BY <1>b, <2>1, <3>1, <3>3, LetsGoReleases
  <2>3. CASE entry[r].phase \notin {"active", "failed"}
    <3>1. /\ calls' = calls /\ reporter' = reporter /\ entry' = entry
          /\ queue' = queue /\ released' = released
      BY <1>10, <2>0, <2>3 DEF FinishReleased
    <3>2. QED BY <1>b, <2>1, <3>1, SameReleases
  <2>4. QED BY <2>2, <2>3
<1>21. CASE TellOne
  <2>1. /\ calls' = calls /\ reporter' = reporter /\ entry' = entry
        /\ queue' = queue /\ released' = released
    BY <1>21 DEF TellOne, environment
  <2>2. CallbackOver
    BY <1>21, TellOneFacts DEF Tells, Nesting, CallbackOver
  <2>3. QED BY <1>b, <2>1, <2>2, SameReleases
<1>11. CASE RetryOne
  <2>1. PICK r \in Head(stack).routes :
          StartUnsubscribe(r, [entry EXCEPT ![r] = Unsubscribing(@)], "cleanup")
    BY <1>11 DEF RetryOne
  <2>2. r \in Routes /\ reporter' = reporter /\ released' = released
    BY <1>11, <2>1, StackFacts, FrameFacts DEF RetryOne, Nesting
  <2>3. LetsGo(r, "cleanup")
    BY <2>1, <2>2, LetGoEffect DEF LetsGo
  <2>4. KeptCallbacks
    BY <1>11, Interrupts
  <2>5. QED BY <1>b, <2>2, <2>3, <2>4, LetsGoReleases
<1>12. CASE ProcessPass
  <2>1. /\ KeptCallbacks /\ calls' = calls /\ reporter' = reporter
        /\ queue' = queue /\ released' = released
    BY <1>12, Interrupts DEF ProcessPass, environment
  <2>2. \A q \in Routes : /\ entry[q].asked => entry'[q].asked
                          /\ entry'[q].callback => entry[q].callback
    BY <1>a, <1>12, PassEffect DEF ProcessPass, environment
  <2>3. QED BY <1>b, <2>1, <2>2, SameReleases
<1>13. CASE CleanupOne
  <2>1. PICK r \in Head(stack).routes : StartUnsubscribe(r, entry, "cleanup")
    BY <1>13 DEF CleanupOne
  <2>2. /\ r \in Routes /\ reporter' = reporter /\ released' = released
        /\ router # "running"
    BY <1>13, <2>1, StackFacts, FrameFacts DEF CleanupOne, Nesting
  <2>3. /\ Others(r) /\ entry'[r].asked = entry[r].asked
        /\ entry'[r].callback = entry[r].callback
        /\ \/ calls'[r] = "cleanup" /\ queue' = queue
           \/ /\ calls'[r] = calls[r]
              /\ \/ queue' = queue
                 \/ /\ Len(queue') = Len(queue) + 1
                    /\ \A i \in 1..Len(queue) : queue'[i] = queue[i]
                    /\ queue'[Len(queue) + 1].kind = "process"
    BY <1>a, <2>1, <2>2, StartFacts DEF Others, Entered
  <2>4. \/ calls'[r] = "cleanup" /\ queue' = queue
        \/ /\ calls'[r] = calls[r]
           /\ \E t : Grown(t) /\ t.kind = "process"
    <3>1. CASE queue' = queue
      <4>1. \A t : Grown(t)
        BY <3>1 DEF Grown
      <4>2. [kind |-> "process"].kind = "process"
        OBVIOUS
      <4>3. \E t : Grown(t) /\ t.kind = "process"
        BY <4>1, <4>2
      <4>4. QED BY <2>3, <4>3
    <3>2. CASE queue' # queue
      BY <2>3, <3>2 DEF Grown
    <3>3. QED BY <3>1, <3>2
  <2>5. LetsGo(r, "cleanup")
    BY <2>2, <2>3, <2>4 DEF LetsGo, Told
  <2>6. KeptCallbacks
    BY <1>13, Interrupts
  <2>7. QED BY <1>b, <2>2, <2>5, <2>6, LetsGoReleases
<1>14. ASSUME NEW r \in Routes, Answer(r) PROVE \A q \in Routes : OneRelease(q)'
  <2>1. /\ Others(r) /\ reporter = Idle /\ calls'[r] = "none"
        /\ entry'[r].asked = entry[r].asked /\ entry'[r].callback = entry[r].callback
        /\ router = "running" => /\ queue' = queue /\ reporter' # Idle
                                 /\ reporter'.task.kind = calls[r]
                                 /\ reporter'.task.route = r
        /\ router # "running" =>
              reporter' = reporter /\ \E t : Grown(t) /\ t.kind = "process"
    BY <1>14, AnswerEffect
  <2>2. KeptCallbacks /\ released' = released
    BY <1>14, Interrupts DEF Answer
  <2>3. \A q \in Routes : ~Reported(q)
    BY <2>1 DEF Reported
  <2>4. \A q \in Routes : QueueKeeps(q)
    BY <1>b, <2>1, SameQueue, GrownQueue DEF IsRelease
  <2>6. ASSUME NEW q \in Routes, q # r PROVE OneRelease(q)'
    <3>1. ~Reported(q)'
      BY <2>1, <2>3, <2>6 DEF Reported, IsRelease
    <3>2. Kept(q)
      BY <2>1, <2>2, <2>4, <2>6, <3>1 DEF Kept, Others, Called, Carried, KeptCallbacks
    <3>3. QED BY <1>b, <3>2, KeptRelease
  <2>7. OneRelease(r)'
    <3>1. Reported(r)' => Called(r)
      BY <2>1, <2>3 DEF Reported, IsRelease, Called
    <3>2. ~Called(r)'
      BY <2>1 DEF Called
    <3>3. (Carried(r)' => Carried(r) /\ Bottom' = Bottom)
      BY <2>2 DEF Carried, KeptCallbacks
    <3>4. OneRelease(r)
      BY <1>b
    <3>5. released'[r] = released[r]
      BY <2>2
    <3>6. QED BY <2>1, <2>4, <3>1, <3>2, <3>3, <3>4, <3>5 DEF OneRelease, QueueKeeps
  <2>8. QED BY <2>6, <2>7
<1>15. ASSUME NEW r \in Routes, HistoryAnswers(r) PROVE \A q \in Routes : OneRelease(q)'
  <2>1. /\ KeptCallbacks /\ calls' = calls /\ reporter' = reporter
        /\ queue' = queue /\ released' = released
    BY <1>15, Interrupts DEF HistoryAnswers, environment
  <2>2. \A q \in Routes : /\ entry[q].asked => entry'[q].asked
                          /\ entry'[q].callback => entry[q].callback
    BY <1>a, <1>15 DEF HistoryAnswers, environment
  <2>3. QED BY <1>b, <2>1, <2>2, SameReleases
<1>16. CASE PostReport
  <2>1. PICK t \in Task : t = reporter.task
    BY <1>16, IdleFacts DEF PostReport
  <2>2. reporter # Idle /\ Grown(t)
    BY <1>16, <2>1, IdleFacts, PostedFacts DEF PostReport, Grown
  <2>3. \/ reporter' = Idle
        \/ t.kind = "subscribe" /\ reporter' # Idle /\ reporter'.task = t
    BY <1>16, <2>1, IdleFacts DEF PostReport
  <2>4. KeptCallbacks /\ released' = released /\ calls' = calls /\ entry' = entry
    BY <1>16, Interrupts DEF PostReport
  <2>5. NothingToReport
    BY <2>3 DEF NothingToReport
  <2>6. ASSUME NEW q \in Routes PROVE OneRelease(q)'
    <3>1. /\ IsRelease(t, q) => Reported(q)
          /\ ~IsRelease(t, q) => QueueKeeps(q)
          /\ ~Queued(q) => OnceQueued(q)'
      BY <1>b, <2>1, <2>2, GrownQueue DEF Reported
    <3>2. CASE ~IsRelease(t, q)
      BY <1>b, <2>4, <2>5, <3>1, <3>2, QuietStep
    <3>3. CASE IsRelease(t, q)
      <4>1. Reported(q) /\ OneRelease(q)
        BY <1>b, <3>1, <3>3
      <4>2. /\ ~Called(q) /\ ~Queued(q) /\ ~Carried(q) /\ ~entry[q].callback
            /\ entry[q].asked /\ released[q] = 0
        BY <4>1 DEF OneRelease
      <4>3. OnceQueued(q)' /\ ~Called(q)' /\ ~Carried(q)' /\ ~Reported(q)'
        BY <2>4, <2>5, <3>1, <4>2
        DEF Called, Carried, KeptCallbacks, Reported, IsRelease, NothingToReport
      <4>4. QED BY <2>4, <4>2, <4>3 DEF OneRelease
    <3>4. QED BY <3>2, <3>3
  <2>7. QED BY <2>6
<1>17. CASE MarkReport
  <2>1. /\ KeptCallbacks /\ calls' = calls /\ reporter' = Idle
        /\ queue' = queue /\ released' = released
    BY <1>17, Interrupts DEF MarkReport, environment
  <2>2. \A q \in Routes : /\ entry[q].asked => entry'[q].asked
                          /\ entry'[q].callback => entry[q].callback
    BY <1>a, <1>17, MarkEffect
  <2>3. NothingToReport
    BY <2>1 DEF NothingToReport
  <2>4. QED BY <1>b, <2>1, <2>2, <2>3, SameReleases
<1>18. CASE Publish
  <2>1. published + 1 \in 1..MaxStatus
    BY <1>18 DEF Publish, TypeOK
  <2> DEFINE t == [kind |-> "status", status |-> published + 1]
  <2>2. t \in Task /\ Posted(t)
    BY <1>18, <2>1, TaskFacts DEF Publish
  <2>3. Grown(t) /\ t.kind = "status"
    BY <2>2, PostedFacts DEF Grown
  <2> HIDE DEF t
  <2>4. /\ KeptCallbacks /\ calls' = calls /\ reporter' = reporter
        /\ entry' = entry /\ released' = released
    BY <1>18, Interrupts DEF Publish, environment
  <2>5. QED BY <1>b, <2>3, <2>4, QuietStep, GrownQueue DEF IsRelease
<1>19. CASE Cancel
  <2>1. /\ KeptCallbacks /\ calls' = calls /\ reporter' = reporter
        /\ entry' = entry /\ released' = released
        /\ queue # <<>> /\ queue' = Tail(queue)
    BY <1>19, Interrupts DEF Cancel, environment
  <2>2. QED BY <1>b, <2>1, QuietStep, ShortQueue
<1>20. QED
  BY <1>1, <1>2, <1>3, <1>4, <1>5, <1>6, <1>7, <1>8, <1>9, <1>10,
     <1>11, <1>12, <1>13, <1>14, <1>15, <1>16, <1>17, <1>18, <1>19, <1>21
  DEF Next, Application, Owner, Provider


\* A quiet step that calls nobody keeps Counted.
LEMMA SameCounted ==
    ASSUME Counted, Moves, answered' = answered, released' = released, router' = router
    PROVE  Counted'
BY DEF Counted, Moves

\* A task that calls a callback calls it the first time.
LEMMA RunCounted ==
    ASSUME TypeOK, Nesting, Agreement, Releases, Counted, RunTask,
           Moves \/ SubscribeSucceeds(Head(queue))
    PROVE  Counted'
<1>0. PICK t, r : t = Head(queue) /\ r = t.route
  OBVIOUS
<1>1. /\ queue # <<>> /\ t \in Task /\ router' = router
  BY <1>0, RunFacts
<1>2. Entered /\ answered \in [Routes -> Nat] /\ released \in [Routes -> Nat]
  BY EnteredFacts DEF TypeOK
<1>3. \A q \in Routes : OneRelease(q) /\ Agrees(q)
  BY DEF Releases, Agreement
<1>4. CASE SubscribeFails(t)
  <2>1. /\ r \in Routes /\ \A q \in Routes : q # r => entry'[q] = entry[q]
        /\ entry'[r].phase = "gone" /\ entry[r].phase \in Phases /\ entry[r].subscribed
    BY <1>0, <1>1, <1>2, <1>4, FailsEffect
  <2>2. /\ router = "running"
        /\ answered' = [answered EXCEPT ![r] = @ + 1]
        /\ released' = IF entry[r].callback THEN [released EXCEPT ![r] = @ + 1] ELSE released
    BY <1>0, <1>4 DEF SubscribeFails, SubscribeFailed
  <2>3. answered[r] = 0
    BY <1>3, <2>1, <2>2 DEF Agrees, Phases, Counted
  <2>4. released[r] = 0
    BY <1>2, <2>1, <2>3 DEF Counted
  <2>5. answered'[r] = 1 /\ released'[r] <= 1
    BY <1>2, <2>1, <2>2, <2>3, <2>4
  <2>6. \A q \in Routes : q # r => answered'[q] = answered[q] /\ released'[q] = released[q]
    BY <1>2, <2>1, <2>2
  <2>7. QED BY <1>1, <2>1, <2>2, <2>5, <2>6 DEF Counted
<1>5. CASE SubscribeSucceeds(t)
  <2>1. /\ r \in Routes /\ \A q \in Routes : q # r => entry'[q] = entry[q]
        /\ entry'[r].phase = "active" /\ entry[r].phase \in Phases /\ entry[r].subscribed
    BY <1>0, <1>5, SucceedsFacts
  <2>2. /\ router = "running" /\ released' = released
        /\ answered' = [answered EXCEPT ![r] = @ + 1]
    BY <1>0, <1>5 DEF SubscribeSucceeds, Subscribed
  <2>3. answered[r] = 0
    BY <1>3, <2>1, <2>2 DEF Agrees, Phases, Counted
  <2>4. released[r] = 0
    BY <1>2, <2>1, <2>3 DEF Counted
  <2>5. answered'[r] = 1 /\ released'[r] = 0
    BY <1>2, <2>1, <2>2, <2>3, <2>4
  <2>6. \A q \in Routes : q # r => answered'[q] = answered[q] /\ released'[q] = released[q]
    BY <1>2, <2>1, <2>2
  <2>7. QED BY <1>1, <2>1, <2>2, <2>5, <2>6 DEF Counted
<1>6. CASE /\ t.kind \in {"release", "cleanup"} /\ CompleteUnsubscribe(t)
           /\ ~SubscribeSucceeds(t)
  <2>1. r \in Routes /\ answered' = answered /\ Moves
    BY <1>0, <1>1, <1>2, <1>6, UnsubscribedEffect DEF CompleteUnsubscribe
  <2>2. \/ released' = released
        \/ /\ entry[r].phase = "unsubscribing" /\ t.kind = "release" /\ router = "running"
           /\ released' = [released EXCEPT ![r] = @ + 1]
    BY <1>0, <1>1, <1>2, <1>6, UnsubscribedEffect
  <2>3. CASE released' = released
    BY <1>1, <2>1, <2>3, SameCounted
  <2>4. CASE /\ entry[r].phase = "unsubscribing" /\ t.kind = "release" /\ router = "running"
             /\ released' = [released EXCEPT ![r] = @ + 1]
    <3>1. OnceQueued(r) /\ IsRelease(Head(queue), r)
      BY <1>0, <1>3, <2>1, <2>4 DEF OneRelease, IsRelease
    <3>2. Queued(r)
      BY <1>0, <1>1, <3>1, Dequeued DEF Queued
    <3>3. released[r] = 0
      BY <1>3, <2>1, <3>2 DEF OneRelease
    <3>4. answered[r] = 1
      BY <2>1, <2>4 DEF Counted
    <3>5. \A q \in Routes : released'[q] <= answered'[q]
      BY <1>2, <2>1, <2>4, <3>3, <3>4 DEF Counted
    <3>6. QED BY <1>1, <2>1, <3>5 DEF Counted, Moves
  <2>5. QED BY <2>2, <2>3, <2>4
<1>7. CASE answered' = answered /\ released' = released /\ Moves
  BY <1>1, <1>7, SameCounted
<1>8. QED
  BY <1>0, RunFacts, <1>4, <1>5, <1>6, <1>7 DEF SubscribePassed, RouteStatus, RunProcess

\* A quiet step keeps Counted.
LEMMA CountedMoves ==
    ASSUME TypeOK, Nesting, Agreement, Releases, Counted, Moves, Next
    PROVE  Counted'
<1>b. Counted /\ Moves
  OBVIOUS
<1>1. ASSUME NEW r \in Routes, Subscribe(r) PROVE Counted'
  <2>1. answered' = answered /\ released' = released /\ router' = router
    BY <1>1 DEF Subscribe, environment
  <2>2. QED BY <1>b, <2>1, SameCounted
<1>2. ASSUME NEW r \in Routes, SubscribeInline(r) PROVE Counted'
  <2>1. answered' = answered /\ released' = released /\ router' = router
    BY <1>2 DEF SubscribeInline, environment
  <2>2. QED BY <1>b, <2>1, SameCounted
<1>3. ASSUME NEW r \in Routes, Release(r) PROVE Counted'
  <2>1. answered' = answered /\ released' = released /\ router' = router
    BY <1>3 DEF Release, environment
  <2>2. QED BY <1>b, <2>1, SameCounted
<1>4. ASSUME NEW r \in Routes, ReleasePending(r) PROVE Counted'
  <2>1. answered' = answered /\ released' = released /\ router' = router
    BY <1>4 DEF ReleasePending, environment
  <2>2. QED BY <1>b, <2>1, SameCounted
<1>5. CASE RetryFailed
  <2>1. answered' = answered /\ released' = released /\ router' = router
    BY <1>5 DEF RetryFailed, environment
  <2>2. QED BY <1>b, <2>1, SameCounted
<1>6. CASE Shutdown
  BY <1>b, <1>6 DEF Shutdown, Counted
<1>7. CASE HostTick
  <2>1. answered' = answered /\ released' = released /\ router' = router
    BY <1>7 DEF HostTick, environment
  <2>2. QED BY <1>b, <2>1, SameCounted
<1>8. CASE RunTask
  BY <1>8, RunCounted
<1>9. CASE FinishSubscribe
  <2>1. answered' = answered /\ released' = released /\ router' = router
    BY <1>9 DEF FinishSubscribe, environment
  <2>2. QED BY <1>b, <2>1, SameCounted
<1>10. CASE FinishReleased
  <2>1. answered' = answered /\ released' = released /\ router' = router
    BY <1>10 DEF FinishReleased, environment
  <2>2. QED BY <1>b, <2>1, SameCounted
<1>21. CASE TellOne
  <2>1. answered' = answered /\ released' = released /\ router' = router
    BY <1>21 DEF TellOne, environment
  <2>2. QED BY <1>b, <2>1, SameCounted
<1>11. CASE RetryOne
  <2>1. answered' = answered /\ released' = released /\ router' = router
    BY <1>11 DEF RetryOne, environment
  <2>2. QED BY <1>b, <2>1, SameCounted
<1>12. CASE ProcessPass
  <2>1. answered' = answered /\ released' = released /\ router' # "running"
    BY <1>12 DEF ProcessPass, environment, Nesting
  <2>2. QED BY <1>b, <2>1 DEF Counted
<1>13. CASE CleanupOne
  <2>1. answered' = answered /\ released' = released /\ router' = router
    BY <1>13 DEF CleanupOne, environment
  <2>2. QED BY <1>b, <2>1, SameCounted
<1>14. ASSUME NEW r \in Routes, Answer(r) PROVE Counted'
  <2>1. answered' = answered /\ released' = released /\ router' = router
    BY <1>14 DEF Answer, environment
  <2>2. QED BY <1>b, <2>1, SameCounted
<1>15. ASSUME NEW r \in Routes, HistoryAnswers(r) PROVE Counted'
  <2>1. answered' = answered /\ released' = released /\ router' = router
    BY <1>15 DEF HistoryAnswers, environment
  <2>2. QED BY <1>b, <2>1, SameCounted
<1>16. CASE PostReport
  <2>1. answered' = answered /\ released' = released /\ router' = router
    BY <1>16 DEF PostReport, environment
  <2>2. QED BY <1>b, <2>1, SameCounted
<1>17. CASE MarkReport
  <2>1. answered' = answered /\ released' = released /\ router' = router
    BY <1>17 DEF MarkReport, environment
  <2>2. QED BY <1>b, <2>1, SameCounted
<1>18. CASE Publish
  <2>1. answered' = answered /\ released' = released /\ router' = router
    BY <1>18 DEF Publish, environment
  <2>2. QED BY <1>b, <2>1, SameCounted
<1>19. CASE Cancel
  <2>1. answered' = answered /\ released' = released /\ router' = router
    BY <1>19 DEF Cancel, environment
  <2>2. QED BY <1>b, <2>1, SameCounted
<1>20. QED
  BY <1>1, <1>2, <1>3, <1>4, <1>5, <1>6, <1>7, <1>8, <1>9, <1>10,
     <1>11, <1>12, <1>13, <1>14, <1>15, <1>16, <1>17, <1>18, <1>19, <1>21
  DEF Next, Application, Owner, Provider

\* A step keeps the callbacks counted.
LEMMA CountedStep ==
    ASSUME TypeOK, Nesting, Agreement, Releases, Counted, Next
    PROVE  Counted'
<1>1. CASE Moves
  BY <1>1, CountedMoves
<1>2. CASE Shutdown
  BY <1>2 DEF Shutdown, Counted
<1>3. CASE RunTask /\ SubscribeSucceeds(Head(queue))
  BY <1>3, RunCounted
<1>4. QED BY <1>1, <1>2, <1>3, MovesStep

-----------------------------------------------------------------------------
(* The inductive invariant, and what follows from it. *)

\* The initial states satisfy the invariant.
LEMMA Start ==
    ASSUME Init
    PROVE  IInv
<1>1. /\ stack = <<>> /\ queue = <<>> /\ reporter = Idle /\ router = "running"
      /\ held = {} /\ operations = {} /\ cache = 0
      /\ \A r \in Routes : /\ entry[r] = NoEntry /\ calls[r] = "none" /\ told[r] = 0
                           /\ answered[r] = 0 /\ released[r] = 0
  BY DEF Init
<1>2. /\ Len(<<>>) = 0 /\ 1..0 = {} /\ \A S : <<>> \in Seq(S)
  BY EmptySeq
<1>3. TypeOK
  <2>1. NoEntry \in EntryType
    BY DEF NoEntry, EntryType
  <2>2. retries = 0 /\ drops = 0 /\ published = 0
    BY DEF Init
  <2>3. /\ entry \in [Routes -> EntryType]
        /\ calls \in [Routes -> Calls \cup {"none"}]
        /\ answered \in [Routes -> Nat] /\ released \in [Routes -> Nat]
        /\ told \in [Routes -> 0..MaxStatus]
    BY <2>1 DEF Init
  <2>4. QED BY <1>1, <1>2, <2>2, <2>3 DEF TypeOK
<1>4. Nesting
  BY <1>1, <1>2 DEF Nesting, Nested, At
<1>5. Agreement /\ Over /\ Hushed
  BY <1>1 DEF Agreement, Agrees, Over, Hushed, NoEntry, Phases
<1>6. Emptied
  BY <1>1, <1>2 DEF Emptied
<1>7. \A r : ~InCallback(r) /\ ~Waits(r) /\ ~Queued(r) /\ OnceQueued(r) /\ ~Reported(r)
  BY <1>1, <1>2 DEF InCallback, Waits, Queued, OnceQueued, Reported
<1>8. Informed /\ Counted
  BY <1>1, <1>7 DEF Informed, Counted, NoEntry
<1>9. Releases
  BY <1>1, <1>7 DEF Releases, OneRelease, Called, Carried, NoEntry
<1>10. QED BY <1>3, <1>4, <1>5, <1>6, <1>8, <1>9 DEF IInv

\* A stuttering step keeps the invariant.
LEMMA SameState ==
    ASSUME IInv, UNCHANGED vars
    PROVE  IInv'
<1>1. /\ entry' = entry /\ router' = router /\ cache' = cache /\ operations' = operations
      /\ queue' = queue /\ stack' = stack /\ reporter' = reporter /\ calls' = calls
      /\ held' = held /\ retries' = retries /\ drops' = drops /\ published' = published
      /\ answered' = answered /\ released' = released /\ told' = told
  BY DEF vars
<1>2. TypeOK' /\ Nesting' /\ Agreement' /\ Emptied' /\ Over'
  BY <1>1 DEF IInv, TypeOK, Nesting, At, Nested, Agreement, Agrees, Emptied, Empties,
     Empty, Over
<1>3. Hushed' /\ Informed' /\ Releases' /\ Counted'
  BY <1>1 DEF IInv, Hushed, At, InCallback, Waits, Bottom, Informed, Releases, OneRelease, Called,
     Reported, Queued, Carried, IsRelease, OnceQueued, Counted
<1>4. QED BY <1>2, <1>3 DEF IInv

\* The invariant is inductive.
THEOREM Invariance == Spec => []IInv
<1>1. Init => IInv
  BY Start
<1>2. IInv /\ [Next]_vars => IInv'
  <2>1. ASSUME IInv, Next PROVE IInv'
    <3>1. TypeOK /\ Nesting /\ Agreement /\ Emptied /\ Over /\ Hushed /\ Informed
          /\ Releases /\ Counted
      BY <2>1 DEF IInv
    <3>2. TypeOK'
      BY <2>1, <3>1, TypeStep
    <3>3. Nesting'
      BY <2>1, <3>1, NestingStep
    <3>4. Agreement' /\ Stays
      BY <2>1, <3>1, AgreementStep
    <3>5. Emptied'
      BY <2>1, <3>1, <3>4, EmptiedStep
    <3>6. Over'
      BY <2>1, <3>1, OverStep
    <3>7. Hushed'
      BY <2>1, <3>1, HushedStep
    <3>8. Informed'
      BY <2>1, <3>1, InformedStep
    <3>9. Releases'
      BY <2>1, <3>1, ReleasesStep DEF Releases
    <3>10. Counted'
      BY <2>1, <3>1, CountedStep
    <3>11. QED BY <3>2, <3>3, <3>4, <3>5, <3>6, <3>7, <3>8, <3>9, <3>10 DEF IInv
  <2>2. QED BY <2>1, SameState
<1>3. QED BY <1>1, <1>2, PTL DEF Spec

\* Every variable keeps its type.
THEOREM TypeCorrect == Spec => []TypeOK
<1>1. IInv => TypeOK
  BY DEF IInv
<1>2. QED BY <1>1, Invariance, PTL

\* A subscription that the provider has belongs to a route that the router can
\* still unsubscribe (m_entries), whatever tasks the dispatcher refused or
\* cancelled, and a complete shutdown leaves none and no call out.
THEOREM SubscriptionsAreOwned == Spec => []PhysicalOwned
<1>1. ASSUME IInv PROVE PhysicalOwned
  <2>1. /\ \A r \in Routes : Agrees(r) /\ calls[r] \in Calls \cup {"none"}
        /\ held \subseteq Routes
    BY <1>1 DEF IInv, Agreement, TypeOK
  <2>2. \A r \in held : entry[r].phase \in Phases
                        /\ (entry[r].phase = "pending" => entry[r].reserved)
    BY <2>1 DEF Agrees
  <2>3. ASSUME router = "complete"
        PROVE  held = {} /\ operations = {} /\ \A r \in Routes : calls[r] = "none"
    <3>1. operations = {} /\ \A r \in Routes : entry[r].phase \notin Phases
      BY <1>1, <2>3 DEF IInv, Over
    <3>2. held = {}
      BY <2>1, <2>2, <3>1
    <3>3. \A r \in Routes : calls[r] = "none"
      BY <2>1, <3>1 DEF Agrees, Calls, Phases
    <3>4. QED BY <3>1, <3>2, <3>3
  <2>4. QED BY <2>2, <2>3 DEF PhysicalOwned
<1>2. QED BY <1>1, Invariance, PTL

\* The callbacks that complete_subscribe and complete_unsubscribe call come once
\* each and in that order, however the two threads interleave.
THEOREM CallbacksComeInOrder == Spec => []CallbacksInOrder
<1>1. IInv => CallbacksInOrder
  BY DEF IInv, Counted, CallbacksInOrder
<1>2. QED BY <1>1, Invariance, PTL

\* Between two steps of the owner every active route was told the status that
\* route_status cached last, also one that became active after it came.
THEOREM LateRoutesAreTold == Spec => []LateRouteKnowsStatus
<1>1. IInv => LateRouteKnowsStatus
  BY DEF IInv, Informed, InCallback, Waits, LateRouteKnowsStatus
<1>2. QED BY <1>1, Invariance, PTL

\* Being in line for a status is waiting in the frame at the bottom of the stack.
Lines == \A r \in Routes : InLine(r) <=> Waits(r)

\* The frame of a status is the only one on the stack or lies under one call.
LEMMA LinesAreWaits ==
    ASSUME Nested(stack)
    PROVE  Lines
<1>1. CASE stack = <<>>
  <2>1. 1..Len(stack) = {}
    BY <1>1, StackFacts
  <2>2. QED BY <1>1, <2>1 DEF Lines, InLine, Waits
<1>2. CASE Len(stack) = 1
  <2>1. 1..Len(stack) = {1} /\ stack # <<>>
    BY <1>2, StackFacts
  <2>2. QED BY <1>2, <2>1 DEF Lines, InLine, Waits, Bottom
<1>3. CASE Len(stack) = 2
  <2>1. 1..Len(stack) = {1, 2} /\ stack # <<>> /\ stack[1].at # "status"
    BY <1>3, StackFacts DEF Nested
  <2>2. QED BY <1>3, <2>1 DEF Lines, InLine, Waits, Bottom
<1>4. QED BY <1>1, <1>2, <1>3, StackFacts

\* What a subscriber may still hear in a step when its route was let go.
OnlyTheRest(r) ==
    /\ Waits(r)' => Waits(r)
    /\ told'[r] # told[r] => Waits(r) /\ ~Waits(r)'

\* Those who are in line are told at most what they are in line for, once.
LEMMA TellsTheRest ==
    ASSUME TypeOK, NEW r \in Routes, NEW n, NEW R, NEW q \in R, Tells(n, R, q),
           R \subseteq Routes, Waits(r) <=> r \in R
    PROVE  OnlyTheRest(r)
<1>1. told \in [Routes -> 0..MaxStatus]
  BY DEF TypeOK
<1>2. QED BY <1>1 DEF Tells, OnlyTheRest

\* route_status collects no route that was let go, and tells those that it collected
\* before they were at most what it collected for them; the replay after the
\* subscribe callback tells no route that was let go anything.
THEOREM ReleasedHearOnlyTheRest == Spec => ReleasedHearsOnlyTheRest
<1>1. ASSUME IInv, [Next]_vars, NEW r \in Routes, entry[r].asked \/ router # "running"
      PROVE  OnlyTheRest(r)
  <2>1. Nesting /\ Nested(stack) /\ Hushed /\ TypeOK
    BY <1>1 DEF IInv, Nesting
  <2>2. CASE FinishSubscribe
    <3>1. PICK q, n : /\ q = Head(stack).route /\ n = Head(stack).status
      OBVIOUS
    <3>2. /\ ~Head(stack).asked /\ At = "callback" /\ stack # <<>> /\ Bottom = Head(stack)
          /\ ~Waits(r)'
      BY <2>1, <2>2, StackFacts, CallbackReturns DEF FinishSubscribe
    <3>3. told' = IF n # 0 /\ StillActive(q) THEN [told EXCEPT ![q] = n] ELSE told
      BY <2>2, <3>1 DEF FinishSubscribe
    <3>4. CASE StillActive(q) /\ r = q
      BY <1>1, <2>1, <3>2, <3>4 DEF StillActive, Hushed
    <3>5. CASE ~(StillActive(q) /\ r = q)
      BY <2>1, <3>2, <3>3, <3>5 DEF TypeOK, OnlyTheRest
    <3>6. QED BY <3>4, <3>5
  <2>3. CASE RunTask
    <3> DEFINE t == Head(queue)
    <3>1. At = "idle" /\ t \in Task /\ ~InCallback(r) /\ ~Waits(r)
      BY <2>1, <2>3, RunFacts, StackFacts
    <3>2. CASE t.kind = "status" /\ RouteStatus(t)
      <4>1. r \notin Hearers
        BY <1>1, <2>1, <3>1 DEF Hearers, Hushed
      <4>2. CASE told' = told /\ stack' = stack
        BY <3>1, <4>2 DEF OnlyTheRest, Waits, Bottom
      <4>3. CASE \E q \in Hearers : Tells(t.status, Hearers, q)
        <5>1. PICK n, R : n = t.status /\ R = Hearers /\ R \subseteq Routes
          BY DEF Hearers
        <5>2. PICK q \in R : Tells(n, R, q)
          BY <4>3, <5>1
        <5>3. Waits(r) <=> r \in R
          BY <3>1, <4>1, <5>1
        <5>4. QED BY <2>1, <5>1, <5>2, <5>3, TellsTheRest
      <4>4. QED BY <2>1, <3>1, <3>2, <4>2, <4>3, RouteStatusFacts
    <3>3. CASE SubscribeSucceeds(t)
      <4>1. ~Waits(r)' /\ told' = told
        BY <2>1, <2>3, <3>3, SucceedsFacts DEF SubscribeSucceeds, Subscribed
      <4>2. QED BY <4>1 DEF OnlyTheRest
    <3>4. CASE told' = told /\ (stack' = stack \/ stack' = <<[at |-> "process"]>>)
      <4> DEFINE f == [at |-> "process"]
      <4>1. f \in Frame /\ f.at = "process"
        BY FrameFacts
      <4> HIDE DEF f
      <4>2. stack' = <<f>> => ~Waits(r)'
        BY <4>1, Single
      <4>3. stack' = stack => ~Waits(r)'
        BY <3>1 DEF Waits, Bottom
      <4>4. QED BY <3>4, <4>2, <4>3 DEF f, OnlyTheRest
    <3>5. QED BY <2>1, <2>3, <3>2, <3>3, <3>4, RunFacts
              DEF SubscribeFails, SubscribeFailed, SubscribePassed, CompleteUnsubscribe,
                  RunProcess
  <2>4. CASE TellOne
    <3>1. PICK n, R : n = Bottom.status /\ R = Bottom.routes
      OBVIOUS
    <3>2. /\ R \subseteq Routes /\ (Waits(r) <=> r \in R)
          /\ \E q \in R : Tells(n, R, q)
      BY <2>1, <2>4, <3>1, TellOneFacts
    <3>3. PICK q \in R : Tells(n, R, q)
      BY <3>2
    <3>4. QED BY <2>1, <3>2, <3>3, TellsTheRest
  <2>5. CASE FinishReleased
    <3>1. told' = told /\ ~Waits(r)'
      BY <2>1, <2>5, CallbackReturns DEF FinishReleased
    <3>2. QED BY <3>1 DEF OnlyTheRest
  <2>6. CASE UNCHANGED <<told, stack>>
    BY <2>6 DEF OnlyTheRest, Waits, Bottom
  <2>7. CASE \/ RetryFailed \/ Shutdown \/ HostTick \/ RetryOne \/ ProcessPass \/ CleanupOne
    <3>1. told' = told
      BY <2>7 DEF RetryFailed, Shutdown, HostTick, RetryOne, ProcessPass, CleanupOne
    <3>2. KeptCallbacks
      BY <2>1, <2>7, Interrupts
    <3>3. QED BY <3>1, <3>2 DEF OnlyTheRest, KeptCallbacks
  <2>8. QED
    BY <1>1, <2>2, <2>3, <2>4, <2>5, <2>6, <2>7
    DEF vars, Next, Application, Owner, Provider, Subscribe, SubscribeInline, Release,
        ReleasePending, Answer, HistoryAnswers, PostReport, MarkReport, Publish, Cancel
<1>2. IInv => Lines
  BY LinesAreWaits DEF IInv, Nesting
<1>3. ASSUME IInv, Lines, Lines', [Next]_vars
      PROVE  \A r \in Routes : entry[r].asked \/ router # "running" =>
                /\ InLine(r)' => InLine(r)
                /\ told'[r] # told[r] => InLine(r) /\ ~InLine(r)'
  <2>1. \A r \in Routes : (InLine(r) <=> Waits(r)) /\ (InLine(r)' <=> Waits(r)')
    BY <1>3 DEF Lines
  <2>2. QED BY <1>1, <1>3, <2>1 DEF OnlyTheRest
<1>4. QED BY <1>2, <1>3, Invariance, PTL DEF Spec, ReleasedHearsOnlyTheRest
=============================================================================
