---------------------------- MODULE PlatformTasks ----------------------------
(***************************************************************************)
(* The owner loop of a platform: platforms/common/BaseTradingPlatform.hpp   *)
(* over utils/tasks/TaskManager.hpp, Task.hpp and utils/pubsub/EventBus.ipp. *)
(*                                                                         *)
(* Any thread may post work or an event, call run() or call shutdown().  One *)
(* executor walks the task list: the worker thread run() started, the host   *)
(* loop that calls process(), or the thread that calls shutdown() on a       *)
(* platform without a worker.                                              *)
(*                                                                         *)
(* m_pending_tasks and m_tasks are lists in order of arrival: a task's       *)
(* ticket is its position among all arrivals, and its place says which list  *)
(* holds it.                                                               *)
(***************************************************************************)
EXTENDS Integers, FiniteSets

CONSTANTS
  Tasks,        \* work given to post_task
  Initialize,   \* the "initialize" task of run()
  Loop,         \* the "loop" task of run()
  Events,       \* events given to notify_async
  Runners,      \* threads that call run()
  Stoppers,     \* threads that call shutdown()
  Worker,       \* the thread of TaskManager::run
  Owner,        \* the host loop that calls process()
  NoOne,        \* nobody holds m_lifecycle_mutex
  DrainRounds   \* bound on EventBus::drain (10 in the code)

AllTasks == Tasks \cup {Initialize, Loop}
Executors == Stoppers \cup {Worker, Owner}

ASSUME NamesDiffer ==
  /\ Initialize \notin Tasks /\ Loop \notin Tasks /\ Initialize # Loop
  /\ Worker \notin Stoppers /\ Owner \notin Stoppers /\ Worker # Owner
  /\ NoOne \notin Runners
ASSUME DrainRoundsPositive == DrainRounds \in Nat \ {0}

VARIABLES
  threaded,    \* start_worker_thread, as this program gives it to run()
  running, stopping, stopped,  \* m_running, m_stopping, m_stopped
  lifecycle,   \* the run() that holds m_lifecycle_mutex, or NoOne
  runner,      \* where each call of run() is
  stopper,     \* where each call of shutdown() is
  worker,      \* where the worker thread is
  draining,    \* TaskManager::m_shutdown
  arrivals,    \* tasks accepted so far
  place,       \* the list that holds each task
  ticket,      \* its position in order of arrival, 0 before
  shut,        \* Task::m_shutdown
  calls,       \* history: callbacks of each task run or cancelled
  cancelled,   \* history: posted tasks whose cancellation callback ran
  pass,        \* where each executor is in TaskManager::process
  at,          \* the ticket its walk over m_tasks has reached
  held,        \* the task it is about to process
  components,  \* the registered components
  event,       \* where each event is
  early,       \* history: events posted before shutdown() was accepted
  rounds       \* rounds of EventBus::drain

lifecycleVars == <<threaded, running, stopping, stopped, lifecycle, runner, stopper>>
listVars == <<arrivals, place, ticket>>
walkVars == <<pass, at, held, shut>>
callVars == <<calls, cancelled, components>>
eventVars == <<event, early, rounds>>
vars == <<lifecycleVars, worker, draining, listVars, walkVars, callVars, eventVars>>

Init ==
  /\ threaded \in BOOLEAN
  /\ running = FALSE /\ stopping = FALSE /\ stopped = FALSE
  /\ lifecycle = NoOne
  /\ runner = [r \in Runners |-> "idle"]
  /\ stopper = [s \in Stoppers |-> "idle"]
  /\ worker = "none"
  /\ draining = FALSE
  /\ arrivals = 0
  /\ place = [t \in AllTasks |-> "out"]
  /\ ticket = [t \in AllTasks |-> 0]
  /\ shut = [t \in AllTasks |-> FALSE]
  /\ calls = [t \in Tasks |-> 0]
  /\ cancelled = {}
  /\ pass = [e \in Executors |-> "idle"]
  /\ at = [e \in Executors |-> 0]
  /\ held = [e \in Executors |-> Loop]
  /\ components = "raw"
  /\ event = [v \in Events |-> "out"]
  /\ early = {}
  /\ rounds = 0

-----------------------------------------------------------------------------
(* TaskManager::add_task: refused while the manager drains.                   *)
Admit(t) ==
  /\ ~draining
  /\ arrivals' = arrivals + 1
  /\ place' = [place EXCEPT ![t] = "pending"]
  /\ ticket' = [ticket EXCEPT ![t] = arrivals + 1]

Refuse(t) ==
  /\ place' = [place EXCEPT ![t] = "refused"]
  /\ UNCHANGED <<arrivals, ticket>>

\* Fault: post_task only looks at the task manager, which reopens after its drain.
PostUnlessDraining(t) ==
  /\ place[t] = "out"
  /\ lifecycle = NoOne
  /\ IF draining THEN Refuse(t) ELSE Admit(t)
  /\ UNCHANGED <<lifecycleVars, worker, draining, walkVars, callVars, eventVars>>

(* post_task: under m_lifecycle_mutex from the check to the end of add_task.   *)
Post(t) ==
  /\ place[t] = "out"
  /\ lifecycle = NoOne
  /\ IF stopping \/ stopped THEN Refuse(t) ELSE Admit(t)
  /\ UNCHANGED <<lifecycleVars, worker, draining, walkVars, callVars, eventVars>>

(* notify_async looks at no lifecycle flag.                                   *)
PostEvent(v) ==
  /\ event[v] = "out"
  /\ event' = [event EXCEPT ![v] = "queued"]
  /\ early' = IF stopping THEN early ELSE early \cup {v}
  /\ UNCHANGED <<rounds, lifecycleVars, worker, draining, listVars, walkVars, callVars>>

-----------------------------------------------------------------------------
(* run() holds m_lifecycle_mutex throughout, add_task only m_mutex: a host     *)
(* loop may walk the list between the two additions.                         *)
RunStep(r, from, to) ==
  /\ runner[r] = from
  /\ runner' = [runner EXCEPT ![r] = to]
  /\ UNCHANGED <<threaded, stopping, stopped, stopper, draining, walkVars, callVars, eventVars>>

RunRefused(r) ==
  /\ RunStep(r, "idle", "done")
  /\ lifecycle = NoOne
  /\ stopping \/ stopped \/ running
  /\ UNCHANGED <<running, lifecycle, worker, listVars>>

RunBegin(r) ==
  /\ RunStep(r, "idle", "begun")
  /\ lifecycle = NoOne
  /\ ~stopping /\ ~stopped /\ ~running
  /\ lifecycle' = r
  /\ UNCHANGED <<running, worker, listVars>>

RunInitialize(r) ==
  /\ RunStep(r, "begun", "half")
  /\ Admit(Initialize)
  /\ UNCHANGED <<running, lifecycle, worker>>

RunLoop(r) ==
  /\ RunStep(r, "half", "scheduled")
  /\ Admit(Loop)
  /\ UNCHANGED <<running, lifecycle, worker>>

RunEnd(r) ==
  /\ RunStep(r, "scheduled", "done")
  /\ worker' = IF threaded /\ worker = "none" THEN "looking" ELSE worker
  /\ running' = TRUE
  /\ lifecycle' = NoOne
  /\ UNCHANGED listVars

-----------------------------------------------------------------------------
(* TaskManager::process by executor e: take the pending tasks, then walk.      *)
PassBegin(e) ==
  /\ place' = [t \in AllTasks |-> IF place[t] = "pending" THEN "listed" ELSE place[t]]
  /\ pass' = [pass EXCEPT ![e] = "walking"]
  /\ at' = [at EXCEPT ![e] = 0]
  /\ UNCHANGED <<held, shut, arrivals, ticket>>

Ahead(e) == {t \in AllTasks : place[t] = "listed" /\ ticket[t] > at[e]}

\* Fault: the walk takes the tasks in no particular order.
IsNextAny(e, t) == t \in Ahead(e)

IsNext(e, t) == t \in Ahead(e) /\ \A u \in Ahead(e) : ticket[t] <= ticket[u]

(* The flag of a task is set when the walk reaches it, its callback reads it.   *)
Reach(e, t) ==
  /\ pass[e] = "walking"
  /\ IsNext(e, t)
  /\ pass' = [pass EXCEPT ![e] = "calling"]
  /\ at' = [at EXCEPT ![e] = ticket[t]]
  /\ held' = [held EXCEPT ![e] = t]
  /\ shut' = [shut EXCEPT ![t] = @ \/ draining]
  /\ UNCHANGED <<lifecycleVars, worker, draining, listVars, callVars, eventVars>>

Called(e, t) ==
  /\ pass[e] = "calling" /\ held[e] = t
  /\ pass' = [pass EXCEPT ![e] = "walking"]
  /\ UNCHANGED <<at, held, shut, arrivals, ticket, lifecycleVars, worker, draining>>

Complete(t) == place' = [place EXCEPT ![t] = "called"]

CallPosted(e, t) ==
  /\ t \in Tasks
  /\ Called(e, t)
  /\ Complete(t)
  /\ calls' = [calls EXCEPT ![t] = @ + 1]
  /\ cancelled' = IF shut[t] THEN cancelled \cup {t} ELSE cancelled
  /\ UNCHANGED <<components, eventVars>>

CallInitialize(e) ==
  /\ Called(e, Initialize)
  /\ Complete(Initialize)
  /\ components' = IF shut[Initialize] THEN components ELSE "initialized"
  /\ UNCHANGED <<calls, cancelled, eventVars>>

(* Events that reach components already shut down come late.                  *)
Deliver ==
  event' = [v \in Events |->
    IF event[v] = "queued"
      THEN IF components = "shut" THEN "late" ELSE "delivered"
      ELSE event[v]]

\* Fault: the loop returns before it delivers events when it is being shut down.
CallLoopNoEvents(e) ==
  /\ Called(e, Loop)
  /\ IF shut[Loop] THEN Complete(Loop) ELSE UNCHANGED place
  /\ IF shut[Loop] THEN UNCHANGED event ELSE Deliver
  /\ UNCHANGED <<early, rounds, callVars>>

(* The loop delivers events even when it is being shut down.                  *)
CallLoop(e) ==
  /\ Called(e, Loop)
  /\ IF shut[Loop] THEN Complete(Loop) ELSE UNCHANGED place
  /\ Deliver
  /\ UNCHANGED <<early, rounds, callVars>>

(* A pass may come before the 1 ms period of the loop is over.                 *)
LoopNotDue(e) ==
  /\ Called(e, Loop)
  /\ ~shut[Loop]
  /\ UNCHANGED <<place, callVars, eventVars>>

Walked(e) == pass[e] = "walking" /\ Ahead(e) = {}

PassEnd(e) ==
  /\ Walked(e)
  /\ pass' = [pass EXCEPT ![e] = "idle"]
  /\ UNCHANGED <<at, held, shut, listVars, callVars, eventVars>>

-----------------------------------------------------------------------------
\* Fault: the worker ends without the process() after its loop.
WorkerLookEnds ==
  /\ worker = "looking"
  /\ worker' = IF draining THEN "ended" ELSE "waiting"
  /\ UNCHANGED <<lifecycleVars, draining, listVars, walkVars, callVars, eventVars>>

\* Fault: the worker does not look at the flag.
WorkerLookBlind ==
  /\ worker = "looking"
  /\ worker' = "waiting"
  /\ UNCHANGED <<lifecycleVars, draining, listVars, walkVars, callVars, eventVars>>

(* The worker: while (!m_shutdown) { wait at most 1 ms; process } process.      *)
WorkerLook ==
  /\ worker = "looking"
  /\ worker' = IF draining THEN "last" ELSE "waiting"
  /\ UNCHANGED <<lifecycleVars, draining, listVars, walkVars, callVars, eventVars>>

WorkerPass ==
  /\ worker \in {"waiting", "last"}
  /\ PassBegin(Worker)
  /\ worker' = IF worker = "last" THEN "finishing" ELSE "passing"
  /\ UNCHANGED <<lifecycleVars, draining, callVars, eventVars>>

WorkerPassed ==
  /\ PassEnd(Worker)
  /\ worker' = IF worker = "finishing" THEN "ended" ELSE "looking"
  /\ UNCHANGED <<lifecycleVars, draining>>

(* Without a worker one host loop calls process() and shutdown(): it is never   *)
(* in both (guides/lifecycle-stack.md, "Owner Loop").                         *)
OwnerPass ==
  /\ ~threaded
  /\ pass[Owner] = "idle"
  /\ \A s \in Stoppers : stopper[s] \in {"idle", "done"}
  /\ PassBegin(Owner)
  /\ UNCHANGED <<lifecycleVars, worker, draining, callVars, eventVars>>

OwnerPassed ==
  /\ PassEnd(Owner)
  /\ UNCHANGED <<lifecycleVars, worker, draining>>

-----------------------------------------------------------------------------
(* shutdown(): only the first call goes on.                                   *)
StopStep(s, from, to) ==
  /\ stopper[s] = from
  /\ stopper' = [stopper EXCEPT ![s] = to]
  /\ UNCHANGED <<threaded, lifecycle, runner, early>>

StopRefused(s) ==
  /\ StopStep(s, "idle", "done")
  /\ lifecycle = NoOne
  /\ stopping \/ stopped
  /\ UNCHANGED <<running, stopping, stopped, worker, draining, listVars, walkVars,
                 callVars, event, rounds>>

\* Fault: shutdown() does not take m_lifecycle_mutex.
StopBeginUnlocked(s) ==
  /\ StopStep(s, "idle", "begun")
  /\ ~stopping /\ ~stopped
  /\ pass[Owner] = "idle"
  /\ stopping' = TRUE
  /\ UNCHANGED <<running, stopped, worker, draining, listVars, walkVars, callVars,
                 event, rounds>>

StopBegin(s) ==
  /\ StopStep(s, "idle", "begun")
  /\ lifecycle = NoOne
  /\ ~stopping /\ ~stopped
  /\ pass[Owner] = "idle"
  /\ stopping' = TRUE
  /\ UNCHANGED <<running, stopped, worker, draining, listVars, walkVars, callVars,
                 event, rounds>>

\* Fault: shutdown() walks the list itself although a worker runs.
StopDrainAlone(s) ==
  /\ StopStep(s, "begun", "alone")
  /\ draining' = TRUE
  /\ UNCHANGED <<running, stopping, stopped, worker, listVars, walkVars, callVars,
                 event, rounds>>

(* TaskManager::shutdown: m_worker_thread is joinable once it was started.     *)
StopDrain(s) ==
  /\ StopStep(s, "begun", IF worker = "none" THEN "alone" ELSE "joining")
  /\ draining' = TRUE
  /\ UNCHANGED <<running, stopping, stopped, worker, listVars, walkVars, callVars,
                 event, rounds>>

StopPass(s) ==
  /\ StopStep(s, "alone", "passing")
  /\ PassBegin(s)
  /\ UNCHANGED <<running, stopping, stopped, worker, draining, callVars, event, rounds>>

StopPassed(s) ==
  /\ StopStep(s, "passing", "drained")
  /\ PassEnd(s)
  /\ draining' = FALSE
  /\ UNCHANGED <<running, stopping, stopped, worker>>

\* Fault: shutdown() does not wait for the worker.
StopJoinedAtOnce(s) ==
  /\ StopStep(s, "joining", "drained")
  /\ draining' = FALSE
  /\ UNCHANGED <<running, stopping, stopped, worker, listVars, walkVars, callVars,
                 event, rounds>>

StopJoined(s) ==
  /\ StopStep(s, "joining", "drained")
  /\ worker = "ended"
  /\ draining' = FALSE
  /\ UNCHANGED <<running, stopping, stopped, worker, listVars, walkVars, callVars,
                 event, rounds>>

StopComponents(s) ==
  /\ StopStep(s, "drained", "flushing")
  /\ components' = "shut"
  /\ UNCHANGED <<running, stopping, stopped, worker, draining, listVars, walkVars,
                 calls, cancelled, event, rounds>>

(* One round of EventBus::drain takes what the queue holds.                   *)
Queued == \E v \in Events : event[v] = "queued"

StopFlush(s) ==
  /\ StopStep(s, "flushing", "flushing")
  /\ Queued /\ rounds < DrainRounds
  /\ Deliver
  /\ rounds' = rounds + 1
  /\ UNCHANGED <<running, stopping, stopped, worker, draining, listVars, walkVars,
                 callVars>>

StopFlushed(s) ==
  /\ StopStep(s, "flushing", "flushed")
  /\ ~Queued \/ rounds = DrainRounds
  /\ UNCHANGED <<running, stopping, stopped, worker, draining, listVars, walkVars,
                 callVars, event, rounds>>

StopEnd(s) ==
  /\ StopStep(s, "flushed", "done")
  /\ lifecycle = NoOne
  /\ running' = FALSE
  /\ stopped' = TRUE
  /\ UNCHANGED <<stopping, worker, draining, listVars, walkVars, callVars, event, rounds>>

-----------------------------------------------------------------------------
Run(r) == RunRefused(r) \/ RunBegin(r) \/ RunInitialize(r) \/ RunLoop(r) \/ RunEnd(r)

Walk(e) ==
  \/ \E t \in AllTasks : Reach(e, t)
  \/ \E t \in Tasks : CallPosted(e, t)
  \/ CallInitialize(e)
  \/ CallLoop(e)
  \/ LoopNotDue(e)

Stop(s) ==
  \/ StopRefused(s) \/ StopBegin(s) \/ StopDrain(s) \/ StopPass(s) \/ StopPassed(s)
  \/ StopJoined(s) \/ StopComponents(s) \/ StopFlush(s) \/ StopFlushed(s) \/ StopEnd(s)

Work == WorkerLook \/ WorkerPass \/ WorkerPassed

Host == OwnerPass \/ OwnerPassed

Next ==
  \/ \E t \in Tasks : Post(t)
  \/ \E v \in Events : PostEvent(v)
  \/ \E r \in Runners : Run(r)
  \/ \E s \in Stoppers : Stop(s)
  \/ \E e \in Executors : Walk(e)
  \/ Work
  \/ Host

Spec == Init /\ [][Next]_vars

(* Started threads go on, callbacks return, and the host loop keeps calling      *)
(* process().  Nobody has to call run() or shutdown().                        *)
Fairness ==
  /\ \A r \in Runners : WF_vars(Run(r) /\ runner[r] # "idle")
  /\ \A s \in Stoppers : WF_vars(Stop(s) /\ stopper[s] # "idle")
  /\ \A e \in Executors : WF_vars(Walk(e))
  /\ WF_vars(Work) /\ WF_vars(Host)

FairSpec == Spec /\ Fairness

-----------------------------------------------------------------------------
TypeOK ==
  /\ threaded \in BOOLEAN
  /\ running \in BOOLEAN /\ stopping \in BOOLEAN /\ stopped \in BOOLEAN
  /\ lifecycle \in Runners \cup {NoOne}
  /\ runner \in [Runners -> {"idle", "begun", "half", "scheduled", "done"}]
  /\ stopper \in [Stoppers -> {"idle", "begun", "alone", "passing", "joining", "drained",
                               "flushing", "flushed", "done"}]
  /\ worker \in {"none", "looking", "waiting", "last", "passing", "finishing", "ended"}
  /\ draining \in BOOLEAN
  /\ arrivals \in Nat
  /\ place \in [AllTasks -> {"out", "refused", "pending", "listed", "called"}]
  /\ ticket \in [AllTasks -> Nat]
  /\ shut \in [AllTasks -> BOOLEAN]
  /\ calls \in [Tasks -> Nat]
  /\ cancelled \in SUBSET Tasks
  /\ pass \in [Executors -> {"idle", "walking", "calling"}]
  /\ at \in [Executors -> Nat]
  /\ held \in [Executors -> AllTasks]
  /\ components \in {"raw", "initialized", "shut"}
  /\ event \in [Events -> {"out", "queued", "delivered", "late"}]
  /\ early \in SUBSET Events
  /\ rounds \in 0..DrainRounds

Accepted == {t \in Tasks : ticket[t] > 0}
CalledTasks == {t \in Tasks : calls[t] > 0}

(* An accepted task is called once, and in the order of acceptance: "tasks that *)
(* reach execution are processed FIFO by one owner loop" (market-data-router.md).*)
CalledInOrder ==
  /\ \A t \in Tasks : calls[t] <= 1
  /\ \A t \in CalledTasks, u \in Accepted : ticket[u] < ticket[t] => u \in CalledTasks

(* Once a platform stopped, every accepted task has run or was told that it is   *)
(* cancelled: no callback is dropped in the drain, whoever drains.             *)
StoppedSettled == stopped => Accepted \subseteq CalledTasks

(* m_tasks has no lock: never do two threads walk it.                          *)
OneExecutor ==
  \A e, f \in Executors : pass[e] # "idle" /\ pass[f] # "idle" => e = f

(* Once a task was cancelled no later task runs, though shutdown() clears the     *)
(* manager's flag when the drain ends.                                        *)
NoRunAfterCancel ==
  \A t \in cancelled, u \in CalledTasks : ticket[u] > ticket[t] => u \in cancelled

(* A callback that is not told of the shutdown runs while the components live,   *)
(* and the loop only processes components that were initialized.                *)
ComponentsAlive ==
  \A e \in Executors : pass[e] = "calling" /\ ~shut[held[e]] =>
    /\ components # "shut"
    /\ held[e] = Initialize => components = "raw"
    /\ held[e] = Loop => components = "initialized"

(* run() never finds the manager draining, so it never schedules only one of     *)
(* its tasks.                                                                *)
RunSchedulesBoth == \A r \in Runners : runner[r] \in {"begun", "half"} => ~draining

(* An event posted before shutdown() is delivered before the platform reports    *)
(* that it stopped, and to live components if run() had scheduled the loop.     *)
EarlyEventsDelivered ==
  /\ stopped => \A v \in early : event[v] \in {"delivered", "late"}
  /\ components = "shut" /\ ticket[Loop] > 0 => \A v \in early : event[v] = "delivered"

(* A platform that stopped calls nothing and starts no walk that would: the test  *)
(* ConcurrentRunAndShutdownDoNotRunAfterStop, for every interleaving.           *)
StoppedIsFinal ==
  [][stopped => stopped' /\ calls' = calls /\ components' = components /\ ~running'
                /\ arrivals' = arrivals /\ \A v \in Events : event'[v] \in {event[v], "queued"}]_vars

(* shutdown() returns from every state, and an accepted task is called once the   *)
(* platform runs or stops.                                                    *)
StopCompletes == stopping ~> stopped
AcceptedIsCalled ==
  \A t \in Tasks : place[t] = "pending" /\ (running \/ stopping) ~> t \in CalledTasks
=============================================================================
