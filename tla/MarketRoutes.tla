---------------------------- MODULE MarketRoutes ----------------------------
(***************************************************************************)
(* The routes of a MarketDataRouter that has an owner dispatcher: from a   *)
(* subscribe call to the provider's physical subscription, its release,    *)
(* the failed cleanup that is retried, and the draining shutdown.          *)
(*                                                                         *)
(* Two actors.  The owner loop runs the posted tasks in order and makes    *)
(* the calls of the application; the provider answers a call either inside *)
(* it or later from a thread of its own, which records the completion      *)
(* under the router's mutex, posts the owner task and then marks it        *)
(* posted.  The dispatcher may refuse or cancel a task.                    *)
(*                                                                         *)
(* One provider and one stream: every route matches its statuses.  What    *)
(* continuity does inside a route is BarContinuity's; here it is only the  *)
(* history requests that the shutdown waits for.                           *)
(***************************************************************************)
EXTENDS Naturals, Sequences, FiniteSets

CONSTANTS
    Routes,       \* routed subscription ids
    WithHistory,  \* the routes that ask for a history prefill
    MaxRetries,   \* bound: calls of retry_failed_unsubscribes()
    MaxDrops,     \* bound: tasks the dispatcher refuses or cancels
    MaxStatus     \* bound: statuses the provider publishes

ASSUME RoutesAssumption ==
    /\ WithHistory \subseteq Routes
    /\ MaxRetries \in Nat /\ MaxDrops \in Nat /\ MaxStatus \in Nat

VARIABLES
    entry,     \* m_entries and the control block of each route
    router,    \* m_shutdown and m_shutdown_complete
    cache,     \* the provider slot's cached status, 0 when none
    operations,\* m_continuity_operations_in_flight, by route
    queue,     \* tasks the dispatcher accepted
    stack,     \* what the owner is in the middle of, innermost first
    reporter,  \* the completion the provider's thread is reporting
    calls,     \* the call each route waits for at the provider
    held,      \* physical subscriptions the provider has
    retries, drops, published,
    answered,  \* history: times each subscribe callback was called
    released,  \* history: times each unsubscribe callback was called
    told       \* history: the status each subscriber saw last

vars == <<entry, router, cache, operations, queue, stack, reporter, calls,
          held, retries, drops, published, answered, released, told>>

environment == <<retries, drops, published>>
-----------------------------------------------------------------------------
NoEntry == [phase |-> "none", reserved |-> FALSE, posted |-> FALSE,
            subscribed |-> FALSE, unsubscribed |-> "no",
            asked |-> FALSE, callback |-> FALSE]

Phases == {"pending", "active", "unsubscribing", "failed"}

EntryType ==
    [phase        : Phases \cup {"none", "gone"},
     reserved     : BOOLEAN,           \* retained_cleanup_subscription
     posted       : BOOLEAN,           \* subscribe_completion_posted
     subscribed   : BOOLEAN,           \* subscribe_completion_received
     unsubscribed : {"no", "ok", "failed"}, \* the recorded unsubscribe completion
     asked        : BOOLEAN,           \* release_requested
     callback     : BOOLEAN]           \* release_callback

Entries == {r \in Routes : entry[r].phase \in Phases}

\* A call to the provider: a subscribe, an unsubscribe with the callback of the
\* application ("release") and one without ("cleanup").
Calls == {"subscribe", "release", "cleanup"}

Task == [kind : Calls, route : Routes, ok : BOOLEAN]
        \cup [kind : {"status"}, status : 1..MaxStatus]
        \cup [kind : {"process"}]

Idle == [kind |-> "idle"]

Init ==
    /\ entry = [r \in Routes |-> NoEntry]
    /\ router = "running"
    /\ cache = 0
    /\ operations = {}
    /\ queue = <<>>
    /\ stack = <<>>
    /\ reporter = Idle
    /\ calls = [r \in Routes |-> "none"]
    /\ held = {}
    /\ retries = 0 /\ drops = 0 /\ published = 0
    /\ answered = [r \in Routes |-> 0]
    /\ released = [r \in Routes |-> 0]
    /\ told = [r \in Routes |-> 0]

At == IF stack = <<>> THEN "idle" ELSE Head(stack).at

\* Application code runs when the owner does nothing else, inside the subscribe
\* callback of a route, and inside the status callback of one subscriber while
\* others have still to be told.
ApplicationRuns == At \in {"idle", "callback", "status"}
-----------------------------------------------------------------------------
(* Posting to the owner, and removing entries. *)

\* The dispatcher takes the task, or refuses it.
Posted(task) ==
    \/ queue' = Append(queue, task) /\ UNCHANGED drops
    \/ drops < MaxDrops /\ drops' = drops + 1 /\ UNCHANGED queue

\* A completion is posted while the router runs; later process() is asked for.
Completion(r, kind, ok) ==
    IF router # "running" THEN [kind |-> "process"]
    ELSE [kind |-> kind, route |-> r, ok |-> ok]

\* Fault: the handle of a new subscription is left to the task that was posted.
RecordWithoutHandle(e, kind, ok) ==
    IF kind = "subscribe"
    THEN [e EXCEPT !.subscribed = TRUE, !.posted = FALSE]
    ELSE [e EXCEPT !.unsubscribed = IF ok THEN "ok" ELSE "failed"]

\* record_subscribe_completion, which reserves the handle, and
\* record_unsubscribe_completion
Record(e, kind, ok) ==
    IF kind = "subscribe"
    THEN [e EXCEPT !.subscribed = TRUE, !.reserved = ok, !.posted = FALSE]
    ELSE [e EXCEPT !.unsubscribed = IF ok THEN "ok" ELSE "failed"]

\* The last entry takes the provider slot and its cached status with it.
CacheAfter(entries) ==
    IF \E r \in Routes : entries[r].phase \in Phases THEN cache ELSE 0

Removed(e) == [e EXCEPT !.phase = "gone"]

\* start_unsubscribe: the provider answers r's call later, or inside it, which
\* records the completion and, unless the router is shut down, posts it.  It
\* fails a handle that it does not have.  e are the entries at the call.
StartUnsubscribe(r, e, kind) ==
    \/ /\ entry' = e
       /\ calls' = [calls EXCEPT ![r] = kind]
       /\ UNCHANGED <<queue, held, drops>>
    \/ \E ok \in BOOLEAN :
          /\ ok => r \in held
          /\ held' = IF ok THEN held \ {r} ELSE held
          /\ entry' = [e EXCEPT ![r] = Record(@, kind, ok)]
          /\ Posted(Completion(r, kind, ok))
          /\ UNCHANGED calls

\* unsubscribe() of an entry that the provider has: the part under the mutex.
Unsubscribing(e) == [e EXCEPT !.asked = TRUE, !.phase = "unsubscribing"]
-----------------------------------------------------------------------------
(* Calls of the application. *)

\* The provider has cleanup that is pending or failed.
Quarantined(entries) ==
    \E r \in Routes :
        \/ entries[r].phase \in {"unsubscribing", "failed"}
        \/ entries[r].phase = "pending" /\ entries[r].reserved /\ ~entries[r].posted

\* Subscribe, answered later.
Subscribe(r) ==
    /\ ApplicationRuns
    /\ router = "running" /\ ~Quarantined(entry)
    /\ entry[r].phase = "none"
    /\ entry' = [entry EXCEPT ![r].phase = "pending"]
    /\ calls' = [calls EXCEPT ![r] = "subscribe"]
    /\ UNCHANGED <<router, cache, operations, queue, stack, reporter, held,
                   environment, answered, released, told>>

\* Subscribe, answered inside the call (a refusal and a throw are failures).
SubscribeInline(r) ==
    /\ ApplicationRuns
    /\ router = "running" /\ ~Quarantined(entry)
    /\ entry[r].phase = "none"
    /\ \E ok \in BOOLEAN :
          /\ Posted(Completion(r, "subscribe", ok))
          /\ entry' = [entry EXCEPT ![r] =
                           [Record(@, "subscribe", ok) EXCEPT
                               !.phase = "pending", !.posted = ok /\ queue' # queue]]
          /\ held' = IF ok THEN held \cup {r} ELSE held
    /\ UNCHANGED <<router, cache, operations, stack, reporter, calls, retries,
                   published, answered, released, told>>


\* The owner of an active route (or of one whose cleanup in a drain failed) lets
\* it go.
Release(r) ==
    /\ ApplicationRuns
    /\ entry[r].phase \in {"active", "failed"} /\ ~entry[r].asked
    /\ StartUnsubscribe(r, [entry EXCEPT ![r] = Unsubscribing(@)], "release")
    /\ UNCHANGED <<router, cache, operations, stack, reporter, retries, published,
                   answered, released, told>>

\* The owner of a pending route lets it go: its completion will see that.
ReleasePending(r) ==
    /\ ApplicationRuns
    /\ entry[r].phase = "pending" /\ ~entry[r].asked
    /\ entry' = [entry EXCEPT ![r].asked = TRUE, ![r].callback = TRUE]
    /\ UNCHANGED <<router, cache, operations, queue, stack, reporter, calls, held,
                   environment, answered, released, told>>

FailedCleanups == {r \in Routes : entry[r].phase = "failed"}

\* retry_failed_unsubscribes()
RetryFailed ==
    /\ ApplicationRuns
    /\ FailedCleanups # {}
    /\ retries < MaxRetries
    /\ retries' = retries + 1
    /\ stack' = <<[at |-> "retry", routes |-> FailedCleanups]>> \o stack
    /\ UNCHANGED <<entry, router, cache, operations, queue, reporter, calls, held,
                   drops, published, answered, released, told>>

RetryOne ==
    /\ At = "retry"
    /\ \E r \in Head(stack).routes :
          /\ stack' = IF Head(stack).routes = {r} THEN Tail(stack)
                      ELSE <<[Head(stack) EXCEPT !.routes = @ \ {r}]>> \o Tail(stack)
          /\ StartUnsubscribe(r, [entry EXCEPT ![r] = Unsubscribing(@)], "cleanup")
    /\ UNCHANGED <<router, cache, operations, reporter, retries, published,
                   answered, released, told>>

\* shutdown(), which makes failed cleanups ordinary again and runs process().
Shutdown ==
    /\ ApplicationRuns
    /\ router = "running"
    /\ router' = "draining"
    /\ entry' = [r \in Routes |->
                    [entry[r] EXCEPT !.callback = FALSE,
                                     !.phase = IF @ # "failed" THEN @
                                               ELSE IF entry[r].reserved THEN "pending"
                                               ELSE "active"]]
    /\ stack' = <<[at |-> "process"]>> \o stack
    /\ UNCHANGED <<cache, operations, queue, reporter, calls, held, environment,
                   answered, released, told>>

\* The host's tick calls process(): before a shutdown, and after it is
\* complete, that has nothing to do here.
HostTick ==
    /\ At = "idle"
    /\ router # "running"
    /\ stack' = IF router = "draining" THEN <<[at |-> "process"]>> ELSE stack
    /\ UNCHANGED <<entry, router, cache, operations, queue, reporter, calls, held,
                   environment, answered, released, told>>
-----------------------------------------------------------------------------
(* process() while the router drains. *)

\* An entry whose physical subscription the drain has to give back.
NeedsCleanup(e) ==
    e.phase = "active" \/ (e.phase = "pending" /\ e.subscribed /\ e.reserved)

\* complete_unsubscribe applies the completion that was recorded.
Applied(e) ==
    [e EXCEPT !.unsubscribed = "no",
              !.phase = IF e.unsubscribed = "ok" THEN "gone" ELSE "failed"]

DrainedEntry(e) ==
    IF e.phase = "unsubscribing" /\ e.unsubscribed # "no" THEN Applied(e)
    ELSE IF NeedsCleanup(e) THEN [e EXCEPT !.phase = "unsubscribing"]
    ELSE IF e.phase = "pending" /\ e.subscribed /\ ~e.reserved THEN Removed(e)
    ELSE e

\* The shutdown is over when every route is and no history request is out.
EverythingDrained(entries) ==
    /\ \A r \in Routes : entries[r].phase \notin Phases
    /\ operations = {}

\* One pass: completions, removals, and the entries to unsubscribe.
ProcessPass ==
    /\ At = "process"
    /\ entry' = [r \in Routes |-> DrainedEntry(entry[r])]
    /\ cache' = CacheAfter(entry')
    /\ router' = IF EverythingDrained(entry') THEN "complete" ELSE router
    /\ LET cleanup == {r \in Routes : NeedsCleanup(entry[r])}
       IN  stack' = IF cleanup # {}
                    THEN <<[at |-> "cleanup", routes |-> cleanup]>> \o Tail(stack)
                    ELSE IF entry' # entry /\ router' # "complete" THEN stack
                    ELSE Tail(stack)
    /\ UNCHANGED <<operations, queue, reporter, calls, held, environment,
                   answered, released, told>>

\* start_unsubscribe for the entries of the pass, then another pass.
CleanupOne ==
    /\ At = "cleanup"
    /\ \E r \in Head(stack).routes :
          /\ stack' = IF Head(stack).routes = {r}
                      THEN <<[at |-> "process"]>> \o Tail(stack)
                      ELSE <<[Head(stack) EXCEPT !.routes = @ \ {r}]>> \o Tail(stack)
          /\ StartUnsubscribe(r, entry, "cleanup")
    /\ UNCHANGED <<router, cache, operations, reporter, retries, published,
                   answered, released, told>>
-----------------------------------------------------------------------------
(* Tasks on the owner. *)

\* complete_subscribe with a failure: both callbacks get the result.
SubscribeFailed(r) ==
    /\ entry' = [entry EXCEPT ![r] = [Removed(@) EXCEPT !.callback = FALSE]]
    /\ cache' = CacheAfter(entry')
    /\ answered' = [answered EXCEPT ![r] = @ + 1]
    /\ released' = IF entry[r].callback THEN [released EXCEPT ![r] = @ + 1] ELSE released
    /\ UNCHANGED <<stack, told>>

\* Fault: the cached status is looked up for no new route.
NoReplay(r) == 0

\* The cached status that a route is given when it becomes active.
Replay(r) == IF entry[r].asked THEN 0 ELSE cache

\* The frame of complete_subscribe while the application's callback runs.
CallbackFrame(r) ==
    [at |-> "callback", route |-> r, status |-> Replay(r),
     asked |-> entry[r].asked, callback |-> entry[r].callback]

\* The entry once complete_subscribe made it active.
Activated(e) == [e EXCEPT !.phase = "active", !.reserved = FALSE, !.posted = FALSE,
                          !.subscribed = FALSE, !.callback = FALSE]

\* Fault: a route that was released while pending is not answered.
SubscribedIfWanted(r) ==
    /\ entry' = [entry EXCEPT ![r] = Activated(@)]
    /\ answered' = IF entry[r].asked THEN answered ELSE [answered EXCEPT ![r] = @ + 1]
    /\ stack' = <<CallbackFrame(r)>>
    /\ UNCHANGED <<cache, released, told>>

\* complete_subscribe with a success, up to the application's callback.
Subscribed(r) ==
    /\ entry' = [entry EXCEPT ![r] = Activated(@)]
    /\ answered' = [answered EXCEPT ![r] = @ + 1]
    /\ stack' = <<CallbackFrame(r)>>
    /\ UNCHANGED <<cache, released, told>>

CompleteSubscribe(task) ==
    LET r == task.route
        Ready == router = "running" /\ r \in Entries /\ entry[r].subscribed
    IN  /\ UNCHANGED <<router, operations, held, calls>>
        /\ \/ Ready /\ ~task.ok /\ SubscribeFailed(r)
           \/ Ready /\ task.ok /\ entry[r].reserved /\ Subscribed(r)
           \/ /\ ~Ready \/ (task.ok /\ ~entry[r].reserved)
              /\ UNCHANGED <<entry, cache, stack, answered, released, told>>

\* complete_unsubscribe applies the result that the task carries.
CompleteUnsubscribe(task) ==
    LET r == task.route
        Ready == entry[r].phase = "unsubscribing" /\ entry[r].unsubscribed # "no"
    IN  /\ entry' = IF Ready
                    THEN [entry EXCEPT ![r].unsubscribed = "no",
                                       ![r].phase = IF task.ok THEN "gone" ELSE "failed"]
                    ELSE entry
        /\ cache' = CacheAfter(entry')
        /\ released' = IF Ready /\ task.kind = "release" /\ router = "running"
                       THEN [released EXCEPT ![r] = @ + 1] ELSE released
        /\ UNCHANGED <<router, operations, held, calls, stack, answered, told>>

\* The next of the subscribers that a status was collected for is told, whatever
\* became of its route since: nothing is looked up again.  below is the stack under
\* the frame of the rest.
TellNext(status, routes, below) ==
    \E r \in routes :
       /\ told' = [told EXCEPT ![r] = status]
       /\ stack' = IF routes = {r} THEN below
                   ELSE <<[at |-> "status", status |-> status,
                           routes |-> routes \ {r}]>> \o below

\* The routes that a status of the stream is collected for: shutdown() drops the
\* subscribers.
Hearers == {r \in Routes : entry[r].phase = "active" /\ router = "running"}

\* route_status: under the mutex the status is cached and its hearers collected;
\* outside it they are told one after the other.
RouteStatus(task) ==
    /\ cache' = IF Entries = {} THEN cache ELSE task.status
    /\ IF Hearers = {} THEN UNCHANGED <<told, stack>>
       ELSE TellNext(task.status, Hearers, stack)
    /\ UNCHANGED <<entry, router, operations, held, calls, answered, released>>

\* process() that a completion asked for.
RunProcess ==
    /\ stack' = IF router = "draining" THEN <<[at |-> "process"]>> ELSE stack
    /\ UNCHANGED <<entry, router, cache, operations, held, calls, answered,
                   released, told>>

\* route_status after a callback that was not the last.
TellOne ==
    /\ At = "status"
    /\ TellNext(Head(stack).status, Head(stack).routes, Tail(stack))
    /\ UNCHANGED <<entry, router, cache, operations, queue, reporter, calls, held,
                   environment, answered, released>>

RunTask ==
    /\ At = "idle" /\ queue # <<>>
    /\ queue' = Tail(queue)
    /\ LET task == Head(queue)
       IN  \/ task.kind = "subscribe" /\ CompleteSubscribe(task)
           \/ task.kind \in {"release", "cleanup"} /\ CompleteUnsubscribe(task)
           \/ task.kind = "status" /\ RouteStatus(task)
           \/ task.kind = "process" /\ RunProcess
    /\ UNCHANGED <<reporter, environment>>

\* Fault: the replay does not look whether the route is still wanted.
StillThere(r) == entry[r].phase # "gone"

\* The route that was active before the callback still is, and is wanted.
StillActive(r) == entry[r].phase = "active" /\ ~entry[r].asked

\* complete_subscribe after the callback: nothing asked for a release.
FinishSubscribe ==
    /\ At = "callback" /\ ~Head(stack).asked
    /\ LET r == Head(stack).route
           status == Head(stack).status
       IN  /\ operations' = IF r \in WithHistory /\ entry[r].phase = "active"
                               /\ router = "running"
                            THEN operations \cup {r} ELSE operations
           /\ told' = IF status # 0 /\ StillActive(r)
                      THEN [told EXCEPT ![r] = status] ELSE told
    /\ stack' = Tail(stack)
    /\ UNCHANGED <<entry, router, cache, queue, reporter, calls, held, environment,
                   answered, released>>

\* complete_subscribe after the callback: the route was released while pending.
FinishReleased ==
    /\ At = "callback" /\ Head(stack).asked
    /\ stack' = Tail(stack)
    /\ LET r == Head(stack).route
       IN  IF entry[r].phase \in {"active", "failed"}
           THEN StartUnsubscribe(r, [entry EXCEPT ![r] = Unsubscribing(@)],
                                 IF Head(stack).callback THEN "release" ELSE "cleanup")
           ELSE UNCHANGED <<entry, queue, calls, held, drops>>
    /\ UNCHANGED <<router, cache, operations, reporter, retries, published, answered,
                   released, told>>
-----------------------------------------------------------------------------
(* The provider's thread, and the dispatcher. *)

\* The provider answers a call that it did not answer inside.
Answer(r) ==
    /\ reporter = Idle
    /\ calls[r] # "none"
    /\ calls' = [calls EXCEPT ![r] = "none"]
    /\ \E ok \in BOOLEAN :
          /\ calls[r] # "subscribe" /\ ok => r \in held
          /\ held' = IF ~ok THEN held
                     ELSE IF calls[r] = "subscribe" THEN held \cup {r} ELSE held \ {r}
          /\ entry' = [entry EXCEPT ![r] = Record(@, calls[r], ok)]
          /\ IF router = "running"
             THEN /\ reporter' = [kind |-> "post", task |-> Completion(r, calls[r], ok)]
                  /\ UNCHANGED <<queue, drops>>
             ELSE Posted(Completion(r, calls[r], ok)) /\ UNCHANGED reporter
    /\ UNCHANGED <<router, cache, operations, stack, retries, published, answered,
                   released, told>>

\* The owner task of a recorded completion is posted ...
PostReport ==
    /\ reporter.kind = "post"
    /\ Posted(reporter.task)
    /\ reporter' = IF reporter.task.kind = "subscribe" /\ reporter.task.ok /\ queue' # queue
                   THEN [reporter EXCEPT !.kind = "mark"] ELSE Idle
    /\ UNCHANGED <<entry, router, cache, operations, stack, calls, held, retries,
                   published, answered, released, told>>

\* ... and a reservation that still stands is marked so.
MarkReport ==
    /\ reporter.kind = "mark"
    /\ reporter' = Idle
    /\ LET r == reporter.task.route
       IN  entry' = IF entry[r].phase = "pending" /\ entry[r].reserved
                    THEN [entry EXCEPT ![r].posted = TRUE] ELSE entry
    /\ UNCHANGED <<router, cache, operations, queue, stack, calls, held, environment,
                   answered, released, told>>

\* The provider answers a history request.
HistoryAnswers(r) ==
    /\ r \in operations
    /\ operations' = operations \ {r}
    /\ UNCHANGED <<entry, router, cache, queue, stack, reporter, calls, held,
                   environment, answered, released, told>>

\* The provider publishes a status of the stream to its bound callback.
Publish ==
    /\ Entries # {}
    /\ published < MaxStatus
    /\ published' = published + 1
    /\ Posted([kind |-> "status", status |-> published + 1])
    /\ UNCHANGED <<entry, router, cache, operations, stack, reporter, calls, held,
                   retries, answered, released, told>>

\* A task that was accepted is cancelled before it runs.
Cancel ==
    /\ queue # <<>> /\ drops < MaxDrops
    /\ drops' = drops + 1
    /\ queue' = Tail(queue)
    /\ UNCHANGED <<entry, router, cache, operations, stack, reporter, calls, held,
                   retries, published, answered, released, told>>
-----------------------------------------------------------------------------
Application ==
    \/ \E r \in Routes : Subscribe(r) \/ SubscribeInline(r) \/ Release(r) \/ ReleasePending(r)
    \/ RetryFailed \/ Shutdown

Owner ==
    \/ RunTask \/ FinishSubscribe \/ FinishReleased \/ TellOne
    \/ RetryOne \/ ProcessPass \/ CleanupOne

Provider ==
    \/ \E r \in Routes : Answer(r) \/ HistoryAnswers(r)
    \/ PostReport \/ MarkReport \/ Publish

Next == Application \/ HostTick \/ Owner \/ Provider \/ Cancel

Spec == Init /\ [][Next]_vars

-----------------------------------------------------------------------------
Frame == [at : {"process"}] \cup [at : {"retry", "cleanup"}, routes : SUBSET Routes]
         \cup [at : {"status"}, status : 1..MaxStatus, routes : SUBSET Routes]
         \cup [at : {"callback"}, route : Routes, status : 0..MaxStatus,
               asked : BOOLEAN, callback : BOOLEAN]

TypeOK ==
    /\ entry \in [Routes -> EntryType]
    /\ router \in {"running", "draining", "complete"}
    /\ cache \in 0..MaxStatus /\ operations \subseteq Routes
    /\ queue \in Seq(Task) /\ stack \in Seq(Frame)
    /\ reporter \in {Idle} \cup [kind : {"post", "mark"}, task : Task]
    /\ calls \in [Routes -> Calls \cup {"none"}]
    /\ held \subseteq Routes
    /\ retries \in 0..MaxRetries /\ drops \in 0..MaxDrops /\ published \in 0..MaxStatus
    /\ answered \in [Routes -> Nat] /\ released \in [Routes -> Nat]
    /\ told \in [Routes -> 0..MaxStatus]

\* Every physical subscription that the provider has reported belongs to a route
\* that the router can still unsubscribe, whatever the dispatcher lost; when the
\* shutdown is complete the provider has none and no call is out.
PhysicalOwned ==
    /\ \A r \in held : entry[r].phase \in Phases
                       /\ (entry[r].phase = "pending" => entry[r].reserved)
    /\ router = "complete" =>
          held = {} /\ operations = {} /\ \A r \in Routes : calls[r] = "none"

\* The subscribe callback is called at most once and before the route is active;
\* the unsubscribe callback at most once and only after it.
CallbacksInOrder ==
    \A r \in Routes :
        /\ answered[r] <= 1 /\ released[r] <= answered[r]
        /\ entry[r].phase = "active" /\ router = "running" => answered[r] = 1

\* Between two owner steps every active route was told the status of the stream
\* that is the latest, also one that became active after it was published.
LateRouteKnowsStatus ==
    stack = <<>> /\ router = "running" =>
        \A r \in Routes : entry[r].phase = "active" => told[r] = cache

\* A status that is being handed round has still to reach the subscriber of r.
InLine(r) == \E i \in 1..Len(stack) : stack[i].at = "status" /\ r \in stack[i].routes

\* A route that was let go, and every route of a router that shuts down, hears no
\* status again but the one that was being handed round when that happened, and
\* that one once: route_status does not look up the routes it collected again, but
\* it collects none that was let go, and complete_subscribe replays to none.
ReleasedHearsOnlyTheRest ==
    [][\A r \in Routes : entry[r].asked \/ router # "running" =>
          /\ InLine(r)' => InLine(r)
          /\ told'[r] # told[r] => InLine(r) /\ ~InLine(r)']_vars

\* A cleanup that counts as failed has left a physical subscription to retry.
FailedIsHeld == \A r \in Routes : entry[r].phase = "failed" => r \in held
=============================================================================
