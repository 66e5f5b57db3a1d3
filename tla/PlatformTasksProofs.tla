------------------------- MODULE PlatformTasksProofs -------------------------
(***************************************************************************)
(* Proofs about PlatformTasks, for every number of posted tasks, events and  *)
(* threads, with a worker and without.                                     *)
(*                                                                         *)
(* The invariant has one part per concern.  Threads says who may walk the    *)
(* list, Order relates the places of the tasks to their tickets, Walks says  *)
(* what a walk leaves behind it, Drain what the last walk leaves to nobody,  *)
(* Alive follows the components and Posted the events.                      *)
(***************************************************************************)
EXTENDS PlatformTasks, TLAPS

Active(s) == stopper[s] \notin {"idle", "done"}
InRun(r) == runner[r] \in {"begun", "half", "scheduled"}

(* One run() or one shutdown() is under way, and the flags say which.           *)
Lifecycle ==
  /\ \A s \in Stoppers : Active(s) => stopping /\ ~stopped
  /\ \A s, u \in Stoppers : Active(s) /\ Active(u) => s = u
  /\ stopped => stopping /\ ~running
  /\ draining => stopping
  /\ \A s \in Stoppers : stopper[s] \in {"alone", "passing", "joining"} => draining
  /\ \A r \in Runners : InRun(r) => lifecycle = r /\ ~stopping /\ ~running /\ ~stopped

(* Who may be in TaskManager::process.                                         *)
Threads ==
  /\ worker # "none" => threaded
  /\ worker \in {"last", "finishing"} => draining
  /\ pass[Worker] # "idle" => worker \in {"passing", "finishing"}
  /\ pass[Owner] # "idle" => ~threaded /\ \A s \in Stoppers : ~Active(s)
  /\ \A s \in Stoppers : pass[s] # "idle" => stopper[s] = "passing"
  /\ \A s \in Stoppers : stopper[s] \in {"alone", "passing"} => worker = "none"

(* Tickets are positions: the pending tasks came after all the others.          *)
Order ==
  /\ \A t \in AllTasks : ticket[t] > 0 <=> place[t] \in {"pending", "listed", "called"}
  /\ \A t \in AllTasks : ticket[t] <= arrivals
  /\ \A t, u \in AllTasks : ticket[t] > 0 /\ ticket[t] = ticket[u] => t = u
  /\ \A t, u \in AllTasks :
       place[t] = "pending" /\ place[u] \in {"listed", "called"} => ticket[u] < ticket[t]

(* run() adds Initialize, then Loop, once.                                     *)
Pair ==
  /\ \A r \in Runners : runner[r] = "begun" => ticket[Initialize] = 0 /\ ticket[Loop] = 0
  /\ \A r \in Runners : runner[r] = "half" => ticket[Initialize] > 0 /\ ticket[Loop] = 0
  /\ ~running /\ ~stopping /\ lifecycle = NoOne => ticket[Initialize] = 0 /\ ticket[Loop] = 0
  /\ ticket[Loop] > 0 => 0 < ticket[Initialize] /\ ticket[Initialize] < ticket[Loop]

(* A walk has called every task behind it; only the loop stays listed.          *)
Behind(n) == {u \in AllTasks \ {Loop} : 0 < ticket[u] /\ ticket[u] < n}

Walks ==
  /\ \A t \in Tasks : calls[t] = IF place[t] = "called" THEN 1 ELSE 0
  /\ \A t \in AllTasks \ {Loop} : place[t] = "called" =>
       \A u \in Behind(ticket[t]) : place[u] = "called"
  /\ \A e \in Executors : pass[e] = "walking" =>
       at[e] <= arrivals /\ \A u \in Behind(at[e] + 1) : place[u] = "called"
  /\ \A e \in Executors : pass[e] = "calling" =>
       /\ place[held[e]] = "listed" /\ ticket[held[e]] = at[e]
       /\ \A u \in Behind(at[e]) : place[u] = "called"

(* No list holds a task.                                                      *)
Settled == \A t \in AllTasks : place[t] \notin {"pending", "listed"}

(* The walk of e, begun after the last task was accepted, finds all of them.    *)
FinalPass(e) ==
  \A t \in AllTasks :
    /\ place[t] # "pending"
    /\ place[t] = "listed" =>
         ticket[t] > at[e] \/ (pass[e] = "calling" /\ held[e] = t /\ shut[t])

Drain ==
  /\ \A t \in AllTasks : shut[t] => stopping /\ (draining \/ Settled)
  /\ place[Loop] = "called" => shut[Loop]
  /\ stopped => Settled
  /\ worker = "ended" => stopping /\ Settled
  /\ worker = "finishing" => FinalPass(Worker)
  /\ \A s \in Stoppers :
       /\ stopper[s] = "passing" => FinalPass(s)
       /\ stopper[s] \in {"drained", "flushing", "flushed"} => Settled

Cancel ==
  /\ \A t \in cancelled : shut[t] /\ place[t] = "called"
  /\ \A e \in Executors : pass[e] = "calling" /\ cancelled # {} => shut[held[e]]
  /\ \A t \in cancelled, u \in Tasks :
       place[u] = "called" /\ ticket[u] > ticket[t] => u \in cancelled

Alive ==
  /\ components = "shut" => stopping /\ Settled
  /\ components = "initialized" => place[Initialize] = "called"
  /\ place[Initialize] = "called" /\ ~shut[Initialize] => components # "raw"
  /\ \A e \in Executors : pass[e] = "calling" /\ held[e] = Loop /\ ~shut[Loop] =>
       components = "initialized"

EarlyUnqueued == stopping /\ \A v \in early : event[v] # "queued"

Posted ==
  /\ \A v \in Events : event[v] = "late" => components = "shut"
  /\ \A v \in early : event[v] # "out"
  /\ place[Loop] = "called" => \A v \in early : event[v] = "delivered"
  /\ stopped \/ rounds > 0 => EarlyUnqueued
  /\ \A s \in Stoppers : stopper[s] = "flushed" => EarlyUnqueued

IInv ==
  /\ TypeOK /\ Lifecycle /\ Threads /\ Order /\ Pair
  /\ Walks /\ Drain /\ Cancel /\ Alive /\ Posted

-----------------------------------------------------------------------------
(* The actions, one step each, for every part of the invariant.                *)

(* Every action keeps the types; a ticket is one more than the arrivals so far.    *)
LEMMA NextType == IInv /\ [Next]_vars => TypeOK'
<1> SUFFICES ASSUME IInv, [Next]_vars PROVE TypeOK'
  OBVIOUS
<1> USE DEF IInv, TypeOK, AllTasks, Executors, lifecycleVars, listVars, walkVars,
  callVars, eventVars
<1>1. ASSUME NEW t \in Tasks, Post(t) PROVE TypeOK'
  BY <1>1, NamesDiffer, DrainRoundsPositive DEF Post, Admit, Refuse
<1>2. ASSUME NEW v \in Events, PostEvent(v) PROVE TypeOK'
  BY <1>2, NamesDiffer, DrainRoundsPositive DEF PostEvent
<1>3. ASSUME NEW r \in Runners, RunRefused(r) PROVE TypeOK'
  BY <1>3, NamesDiffer, DrainRoundsPositive DEF RunRefused, RunStep
<1>4. ASSUME NEW r \in Runners, RunBegin(r) PROVE TypeOK'
  BY <1>4, NamesDiffer, DrainRoundsPositive DEF RunBegin, RunStep
<1>5. ASSUME NEW r \in Runners, RunInitialize(r) PROVE TypeOK'
  BY <1>5, NamesDiffer, DrainRoundsPositive DEF RunInitialize, RunStep, Admit
<1>6. ASSUME NEW r \in Runners, RunLoop(r) PROVE TypeOK'
  BY <1>6, NamesDiffer, DrainRoundsPositive DEF RunLoop, RunStep, Admit
<1>7. ASSUME NEW r \in Runners, RunEnd(r) PROVE TypeOK'
  BY <1>7, NamesDiffer, DrainRoundsPositive DEF RunEnd, RunStep
<1>8. ASSUME NEW e \in Executors, NEW t \in AllTasks, Reach(e, t) PROVE TypeOK'
  BY <1>8, NamesDiffer, DrainRoundsPositive DEF Reach, IsNext, Ahead
<1>9. ASSUME NEW e \in Executors, NEW t \in Tasks, CallPosted(e, t) PROVE TypeOK'
  BY <1>9, NamesDiffer, DrainRoundsPositive DEF CallPosted, Called, Complete
<1>10. ASSUME NEW e \in Executors, CallInitialize(e) PROVE TypeOK'
  BY <1>10, NamesDiffer, DrainRoundsPositive DEF CallInitialize, Called, Complete
<1>11. ASSUME NEW e \in Executors, CallLoop(e) PROVE TypeOK'
  BY <1>11, NamesDiffer, DrainRoundsPositive DEF CallLoop, Called, Complete, Deliver
<1>12. ASSUME NEW e \in Executors, LoopNotDue(e) PROVE TypeOK'
  BY <1>12, NamesDiffer, DrainRoundsPositive DEF LoopNotDue, Called
<1>13. ASSUME WorkerLook PROVE TypeOK'
  BY <1>13, NamesDiffer, DrainRoundsPositive DEF WorkerLook
<1>14. ASSUME WorkerPass PROVE TypeOK'
  BY <1>14, NamesDiffer, DrainRoundsPositive DEF WorkerPass, PassBegin
<1>15. ASSUME WorkerPassed PROVE TypeOK'
  BY <1>15, NamesDiffer, DrainRoundsPositive DEF WorkerPassed, PassEnd, Walked, Ahead
<1>16. ASSUME OwnerPass PROVE TypeOK'
  BY <1>16, NamesDiffer, DrainRoundsPositive DEF OwnerPass, PassBegin
<1>17. ASSUME OwnerPassed PROVE TypeOK'
  BY <1>17, NamesDiffer, DrainRoundsPositive DEF OwnerPassed, PassEnd, Walked, Ahead
<1>18. ASSUME NEW s \in Stoppers, StopRefused(s) PROVE TypeOK'
  BY <1>18, NamesDiffer, DrainRoundsPositive DEF StopRefused, StopStep
<1>19. ASSUME NEW s \in Stoppers, StopBegin(s) PROVE TypeOK'
  BY <1>19, NamesDiffer, DrainRoundsPositive DEF StopBegin, StopStep
<1>20. ASSUME NEW s \in Stoppers, StopDrain(s) PROVE TypeOK'
  BY <1>20, NamesDiffer, DrainRoundsPositive DEF StopDrain, StopStep
<1>21. ASSUME NEW s \in Stoppers, StopPass(s) PROVE TypeOK'
  BY <1>21, NamesDiffer, DrainRoundsPositive DEF StopPass, StopStep, PassBegin
<1>22. ASSUME NEW s \in Stoppers, StopPassed(s) PROVE TypeOK'
  BY <1>22, NamesDiffer, DrainRoundsPositive DEF StopPassed, StopStep, PassEnd, Walked, Ahead
<1>23. ASSUME NEW s \in Stoppers, StopJoined(s) PROVE TypeOK'
  BY <1>23, NamesDiffer, DrainRoundsPositive DEF StopJoined, StopStep
<1>24. ASSUME NEW s \in Stoppers, StopComponents(s) PROVE TypeOK'
  BY <1>24, NamesDiffer, DrainRoundsPositive DEF StopComponents, StopStep
<1>25. ASSUME NEW s \in Stoppers, StopFlush(s) PROVE TypeOK'
  BY <1>25, NamesDiffer, DrainRoundsPositive DEF StopFlush, StopStep, Deliver
<1>26. ASSUME NEW s \in Stoppers, StopFlushed(s) PROVE TypeOK'
  BY <1>26, NamesDiffer, DrainRoundsPositive DEF StopFlushed, StopStep
<1>27. ASSUME NEW s \in Stoppers, StopEnd(s) PROVE TypeOK'
  BY <1>27, NamesDiffer, DrainRoundsPositive DEF StopEnd, StopStep
<1>28. CASE UNCHANGED vars
  BY <1>28 DEF vars
<1>29. QED
  BY <1>1, <1>2, <1>3, <1>4, <1>5, <1>6, <1>7, <1>8, <1>9, <1>10, <1>11, <1>12, <1>13,
    <1>14, <1>15, <1>16, <1>17, <1>18, <1>19, <1>20, <1>21, <1>22, <1>23, <1>24, <1>25,
    <1>26, <1>27, <1>28 DEF Next, Run, Stop, Walk, Work, Host

(* m_stopping is set under the mutex that run() holds, and set once: no shutdown()
   overlaps a run() or another shutdown().                                     *)
LEMMA NextLifecycle == IInv /\ [Next]_vars => Lifecycle'
<1> SUFFICES ASSUME IInv, [Next]_vars PROVE Lifecycle'
  OBVIOUS
<1> USE DEF IInv, TypeOK, Lifecycle, Threads, Active, InRun, lifecycleVars, listVars,
  walkVars, callVars, eventVars
<1>1. ASSUME NEW t \in Tasks, Post(t) PROVE Lifecycle'
  BY <1>1, NamesDiffer DEF Post, Admit, Refuse
<1>2. ASSUME NEW v \in Events, PostEvent(v) PROVE Lifecycle'
  BY <1>2, NamesDiffer DEF PostEvent
<1>3. ASSUME NEW r \in Runners, RunRefused(r) PROVE Lifecycle'
  BY <1>3, NamesDiffer DEF RunRefused, RunStep
<1>4. ASSUME NEW r \in Runners, RunBegin(r) PROVE Lifecycle'
  BY <1>4, NamesDiffer DEF RunBegin, RunStep
<1>5. ASSUME NEW r \in Runners, RunInitialize(r) PROVE Lifecycle'
  BY <1>5, NamesDiffer DEF RunInitialize, RunStep, Admit
<1>6. ASSUME NEW r \in Runners, RunLoop(r) PROVE Lifecycle'
  BY <1>6, NamesDiffer DEF RunLoop, RunStep, Admit
<1>7. ASSUME NEW r \in Runners, RunEnd(r) PROVE Lifecycle'
  BY <1>7, NamesDiffer DEF RunEnd, RunStep
<1>8. ASSUME NEW e \in Executors, NEW t \in AllTasks, Reach(e, t) PROVE Lifecycle'
  BY <1>8, NamesDiffer DEF Reach, IsNext, Ahead
<1>9. ASSUME NEW e \in Executors, NEW t \in Tasks, CallPosted(e, t) PROVE Lifecycle'
  BY <1>9, NamesDiffer DEF CallPosted, Called, Complete
<1>10. ASSUME NEW e \in Executors, CallInitialize(e) PROVE Lifecycle'
  BY <1>10, NamesDiffer DEF CallInitialize, Called, Complete
<1>11. ASSUME NEW e \in Executors, CallLoop(e) PROVE Lifecycle'
  BY <1>11, NamesDiffer DEF CallLoop, Called, Complete, Deliver
<1>12. ASSUME NEW e \in Executors, LoopNotDue(e) PROVE Lifecycle'
  BY <1>12, NamesDiffer DEF LoopNotDue, Called
<1>13. ASSUME WorkerLook PROVE Lifecycle'
  BY <1>13, NamesDiffer DEF WorkerLook
<1>14. ASSUME WorkerPass PROVE Lifecycle'
  BY <1>14, NamesDiffer DEF WorkerPass, PassBegin
<1>15. ASSUME WorkerPassed PROVE Lifecycle'
  BY <1>15, NamesDiffer DEF WorkerPassed, PassEnd, Walked, Ahead
<1>16. ASSUME OwnerPass PROVE Lifecycle'
  BY <1>16, NamesDiffer DEF OwnerPass, PassBegin
<1>17. ASSUME OwnerPassed PROVE Lifecycle'
  BY <1>17, NamesDiffer DEF OwnerPassed, PassEnd, Walked, Ahead
<1>18. ASSUME NEW s \in Stoppers, StopRefused(s) PROVE Lifecycle'
  BY <1>18, NamesDiffer DEF StopRefused, StopStep
<1>19. ASSUME NEW s \in Stoppers, StopBegin(s) PROVE Lifecycle'
  BY <1>19, NamesDiffer DEF StopBegin, StopStep
<1>20. ASSUME NEW s \in Stoppers, StopDrain(s) PROVE Lifecycle'
  BY <1>20, NamesDiffer DEF StopDrain, StopStep
<1>21. ASSUME NEW s \in Stoppers, StopPass(s) PROVE Lifecycle'
  BY <1>21, NamesDiffer DEF StopPass, StopStep, PassBegin
<1>22. ASSUME NEW s \in Stoppers, StopPassed(s) PROVE Lifecycle'
  BY <1>22, NamesDiffer DEF StopPassed, StopStep, PassEnd, Walked, Ahead
<1>23. ASSUME NEW s \in Stoppers, StopJoined(s) PROVE Lifecycle'
  BY <1>23, NamesDiffer DEF StopJoined, StopStep
<1>24. ASSUME NEW s \in Stoppers, StopComponents(s) PROVE Lifecycle'
  BY <1>24, NamesDiffer DEF StopComponents, StopStep
<1>25. ASSUME NEW s \in Stoppers, StopFlush(s) PROVE Lifecycle'
  BY <1>25, NamesDiffer DEF StopFlush, StopStep, Deliver
<1>26. ASSUME NEW s \in Stoppers, StopFlushed(s) PROVE Lifecycle'
  BY <1>26, NamesDiffer DEF StopFlushed, StopStep
<1>27. ASSUME NEW s \in Stoppers, StopEnd(s) PROVE Lifecycle'
  BY <1>27, NamesDiffer DEF StopEnd, StopStep
<1>28. CASE UNCHANGED vars
  BY <1>28 DEF vars
<1>29. QED
  BY <1>1, <1>2, <1>3, <1>4, <1>5, <1>6, <1>7, <1>8, <1>9, <1>10, <1>11, <1>12, <1>13,
    <1>14, <1>15, <1>16, <1>17, <1>18, <1>19, <1>20, <1>21, <1>22, <1>23, <1>24, <1>25,
    <1>26, <1>27, <1>28 DEF Next, Run, Stop, Walk, Work, Host

(* A walk belongs to the worker if there is one, else to the host loop or to the
   shutdown() that found the host loop outside process().                      *)
LEMMA NextThreads == IInv /\ [Next]_vars => Threads'
<1> SUFFICES ASSUME IInv, [Next]_vars PROVE Threads'
  OBVIOUS
<1> USE DEF IInv, TypeOK, Lifecycle, Threads, Active, InRun, Executors, lifecycleVars,
  listVars, walkVars, callVars, eventVars
<1>1. ASSUME NEW t \in Tasks, Post(t) PROVE Threads'
  BY <1>1, NamesDiffer DEF Post, Admit, Refuse
<1>2. ASSUME NEW v \in Events, PostEvent(v) PROVE Threads'
  BY <1>2, NamesDiffer DEF PostEvent
<1>3. ASSUME NEW r \in Runners, RunRefused(r) PROVE Threads'
  BY <1>3, NamesDiffer DEF RunRefused, RunStep
<1>4. ASSUME NEW r \in Runners, RunBegin(r) PROVE Threads'
  BY <1>4, NamesDiffer DEF RunBegin, RunStep
<1>5. ASSUME NEW r \in Runners, RunInitialize(r) PROVE Threads'
  BY <1>5, NamesDiffer DEF RunInitialize, RunStep, Admit
<1>6. ASSUME NEW r \in Runners, RunLoop(r) PROVE Threads'
  BY <1>6, NamesDiffer DEF RunLoop, RunStep, Admit
<1>7. ASSUME NEW r \in Runners, RunEnd(r) PROVE Threads'
  BY <1>7, NamesDiffer DEF RunEnd, RunStep
<1>8. ASSUME NEW e \in Executors, NEW t \in AllTasks, Reach(e, t) PROVE Threads'
  BY <1>8, NamesDiffer DEF Reach, IsNext, Ahead
<1>9. ASSUME NEW e \in Executors, NEW t \in Tasks, CallPosted(e, t) PROVE Threads'
  BY <1>9, NamesDiffer DEF CallPosted, Called, Complete
<1>10. ASSUME NEW e \in Executors, CallInitialize(e) PROVE Threads'
  BY <1>10, NamesDiffer DEF CallInitialize, Called, Complete
<1>11. ASSUME NEW e \in Executors, CallLoop(e) PROVE Threads'
  BY <1>11, NamesDiffer DEF CallLoop, Called, Complete, Deliver
<1>12. ASSUME NEW e \in Executors, LoopNotDue(e) PROVE Threads'
  BY <1>12, NamesDiffer DEF LoopNotDue, Called
<1>13. ASSUME WorkerLook PROVE Threads'
  BY <1>13, NamesDiffer DEF WorkerLook
<1>14. ASSUME WorkerPass PROVE Threads'
  BY <1>14, NamesDiffer DEF WorkerPass, PassBegin
<1>15. ASSUME WorkerPassed PROVE Threads'
  BY <1>15, NamesDiffer DEF WorkerPassed, PassEnd, Walked, Ahead
<1>16. ASSUME OwnerPass PROVE Threads'
  BY <1>16, NamesDiffer DEF OwnerPass, PassBegin
<1>17. ASSUME OwnerPassed PROVE Threads'
  BY <1>17, NamesDiffer DEF OwnerPassed, PassEnd, Walked, Ahead
<1>18. ASSUME NEW s \in Stoppers, StopRefused(s) PROVE Threads'
  BY <1>18, NamesDiffer DEF StopRefused, StopStep
<1>19. ASSUME NEW s \in Stoppers, StopBegin(s) PROVE Threads'
  BY <1>19, NamesDiffer DEF StopBegin, StopStep
<1>20. ASSUME NEW s \in Stoppers, StopDrain(s) PROVE Threads'
  BY <1>20, NamesDiffer DEF StopDrain, StopStep
<1>21. ASSUME NEW s \in Stoppers, StopPass(s) PROVE Threads'
  BY <1>21, NamesDiffer DEF StopPass, StopStep, PassBegin
<1>22. ASSUME NEW s \in Stoppers, StopPassed(s) PROVE Threads'
  BY <1>22, NamesDiffer DEF StopPassed, StopStep, PassEnd, Walked, Ahead
<1>23. ASSUME NEW s \in Stoppers, StopJoined(s) PROVE Threads'
  BY <1>23, NamesDiffer DEF StopJoined, StopStep
<1>24. ASSUME NEW s \in Stoppers, StopComponents(s) PROVE Threads'
  BY <1>24, NamesDiffer DEF StopComponents, StopStep
<1>25. ASSUME NEW s \in Stoppers, StopFlush(s) PROVE Threads'
  BY <1>25, NamesDiffer DEF StopFlush, StopStep, Deliver
<1>26. ASSUME NEW s \in Stoppers, StopFlushed(s) PROVE Threads'
  BY <1>26, NamesDiffer DEF StopFlushed, StopStep
<1>27. ASSUME NEW s \in Stoppers, StopEnd(s) PROVE Threads'
  BY <1>27, NamesDiffer DEF StopEnd, StopStep
<1>28. CASE UNCHANGED vars
  BY <1>28 DEF vars
<1>29. QED
  BY <1>1, <1>2, <1>3, <1>4, <1>5, <1>6, <1>7, <1>8, <1>9, <1>10, <1>11, <1>12, <1>13,
    <1>14, <1>15, <1>16, <1>17, <1>18, <1>19, <1>20, <1>21, <1>22, <1>23, <1>24, <1>25,
    <1>26, <1>27, <1>28 DEF Next, Run, Stop, Walk, Work, Host

(* A new task gets the largest ticket, and swapping the pending list in keeps the
   order.                                                                    *)
LEMMA NextOrder == IInv /\ [Next]_vars => Order'
<1> SUFFICES ASSUME IInv, [Next]_vars PROVE Order'
  OBVIOUS
<1> USE DEF IInv, TypeOK, Order, Pair, Walks, AllTasks, lifecycleVars, listVars, walkVars,
  callVars, eventVars
<1>1. ASSUME NEW t \in Tasks, Post(t) PROVE Order'
  BY <1>1, NamesDiffer DEF Post, Admit, Refuse
<1>2. ASSUME NEW v \in Events, PostEvent(v) PROVE Order'
  BY <1>2, NamesDiffer DEF PostEvent
<1>3. ASSUME NEW r \in Runners, RunRefused(r) PROVE Order'
  BY <1>3, NamesDiffer DEF RunRefused, RunStep
<1>4. ASSUME NEW r \in Runners, RunBegin(r) PROVE Order'
  BY <1>4, NamesDiffer DEF RunBegin, RunStep
<1>5. ASSUME NEW r \in Runners, RunInitialize(r) PROVE Order'
  BY <1>5, NamesDiffer DEF RunInitialize, RunStep, Admit
<1>6. ASSUME NEW r \in Runners, RunLoop(r) PROVE Order'
  BY <1>6, NamesDiffer DEF RunLoop, RunStep, Admit
<1>7. ASSUME NEW r \in Runners, RunEnd(r) PROVE Order'
  BY <1>7, NamesDiffer DEF RunEnd, RunStep
<1>8. ASSUME NEW e \in Executors, NEW t \in AllTasks, Reach(e, t) PROVE Order'
  BY <1>8, NamesDiffer DEF Reach, IsNext, Ahead
<1>9. ASSUME NEW e \in Executors, NEW t \in Tasks, CallPosted(e, t) PROVE Order'
  BY <1>9, NamesDiffer DEF CallPosted, Called, Complete
<1>10. ASSUME NEW e \in Executors, CallInitialize(e) PROVE Order'
  BY <1>10, NamesDiffer DEF CallInitialize, Called, Complete
<1>11. ASSUME NEW e \in Executors, CallLoop(e) PROVE Order'
  BY <1>11, NamesDiffer DEF CallLoop, Called, Complete, Deliver
<1>12. ASSUME NEW e \in Executors, LoopNotDue(e) PROVE Order'
  BY <1>12, NamesDiffer DEF LoopNotDue, Called
<1>13. ASSUME WorkerLook PROVE Order'
  BY <1>13, NamesDiffer DEF WorkerLook
<1>14. ASSUME WorkerPass PROVE Order'
  BY <1>14, NamesDiffer DEF WorkerPass, PassBegin
<1>15. ASSUME WorkerPassed PROVE Order'
  BY <1>15, NamesDiffer DEF WorkerPassed, PassEnd, Walked, Ahead
<1>16. ASSUME OwnerPass PROVE Order'
  BY <1>16, NamesDiffer DEF OwnerPass, PassBegin
<1>17. ASSUME OwnerPassed PROVE Order'
  BY <1>17, NamesDiffer DEF OwnerPassed, PassEnd, Walked, Ahead
<1>18. ASSUME NEW s \in Stoppers, StopRefused(s) PROVE Order'
  BY <1>18, NamesDiffer DEF StopRefused, StopStep
<1>19. ASSUME NEW s \in Stoppers, StopBegin(s) PROVE Order'
  BY <1>19, NamesDiffer DEF StopBegin, StopStep
<1>20. ASSUME NEW s \in Stoppers, StopDrain(s) PROVE Order'
  BY <1>20, NamesDiffer DEF StopDrain, StopStep
<1>21. ASSUME NEW s \in Stoppers, StopPass(s) PROVE Order'
  BY <1>21, NamesDiffer DEF StopPass, StopStep, PassBegin
<1>22. ASSUME NEW s \in Stoppers, StopPassed(s) PROVE Order'
  BY <1>22, NamesDiffer DEF StopPassed, StopStep, PassEnd, Walked, Ahead
<1>23. ASSUME NEW s \in Stoppers, StopJoined(s) PROVE Order'
  BY <1>23, NamesDiffer DEF StopJoined, StopStep
<1>24. ASSUME NEW s \in Stoppers, StopComponents(s) PROVE Order'
  BY <1>24, NamesDiffer DEF StopComponents, StopStep
<1>25. ASSUME NEW s \in Stoppers, StopFlush(s) PROVE Order'
  BY <1>25, NamesDiffer DEF StopFlush, StopStep, Deliver
<1>26. ASSUME NEW s \in Stoppers, StopFlushed(s) PROVE Order'
  BY <1>26, NamesDiffer DEF StopFlushed, StopStep
<1>27. ASSUME NEW s \in Stoppers, StopEnd(s) PROVE Order'
  BY <1>27, NamesDiffer DEF StopEnd, StopStep
<1>28. CASE UNCHANGED vars
  BY <1>28 DEF vars
<1>29. QED
  BY <1>1, <1>2, <1>3, <1>4, <1>5, <1>6, <1>7, <1>8, <1>9, <1>10, <1>11, <1>12, <1>13,
    <1>14, <1>15, <1>16, <1>17, <1>18, <1>19, <1>20, <1>21, <1>22, <1>23, <1>24, <1>25,
    <1>26, <1>27, <1>28 DEF Next, Run, Stop, Walk, Work, Host

(* run() adds its two tasks in order, and m_running stops a second run().        *)
LEMMA NextPair == IInv /\ [Next]_vars => Pair'
<1> SUFFICES ASSUME IInv, [Next]_vars PROVE Pair'
  OBVIOUS
<1> USE DEF IInv, TypeOK, Lifecycle, Order, Pair, Active, InRun, AllTasks, lifecycleVars,
  listVars, walkVars, callVars, eventVars
<1>1. ASSUME NEW t \in Tasks, Post(t) PROVE Pair'
  BY <1>1, NamesDiffer DEF Post, Admit, Refuse
<1>2. ASSUME NEW v \in Events, PostEvent(v) PROVE Pair'
  BY <1>2, NamesDiffer DEF PostEvent
<1>3. ASSUME NEW r \in Runners, RunRefused(r) PROVE Pair'
  BY <1>3, NamesDiffer DEF RunRefused, RunStep
<1>4. ASSUME NEW r \in Runners, RunBegin(r) PROVE Pair'
  BY <1>4, NamesDiffer DEF RunBegin, RunStep
<1>5. ASSUME NEW r \in Runners, RunInitialize(r) PROVE Pair'
  BY <1>5, NamesDiffer DEF RunInitialize, RunStep, Admit
<1>6. ASSUME NEW r \in Runners, RunLoop(r) PROVE Pair'
  BY <1>6, NamesDiffer DEF RunLoop, RunStep, Admit
<1>7. ASSUME NEW r \in Runners, RunEnd(r) PROVE Pair'
  BY <1>7, NamesDiffer DEF RunEnd, RunStep
<1>8. ASSUME NEW e \in Executors, NEW t \in AllTasks, Reach(e, t) PROVE Pair'
  BY <1>8, NamesDiffer DEF Reach, IsNext, Ahead
<1>9. ASSUME NEW e \in Executors, NEW t \in Tasks, CallPosted(e, t) PROVE Pair'
  BY <1>9, NamesDiffer DEF CallPosted, Called, Complete
<1>10. ASSUME NEW e \in Executors, CallInitialize(e) PROVE Pair'
  BY <1>10, NamesDiffer DEF CallInitialize, Called, Complete
<1>11. ASSUME NEW e \in Executors, CallLoop(e) PROVE Pair'
  BY <1>11, NamesDiffer DEF CallLoop, Called, Complete, Deliver
<1>12. ASSUME NEW e \in Executors, LoopNotDue(e) PROVE Pair'
  BY <1>12, NamesDiffer DEF LoopNotDue, Called
<1>13. ASSUME WorkerLook PROVE Pair'
  BY <1>13, NamesDiffer DEF WorkerLook
<1>14. ASSUME WorkerPass PROVE Pair'
  BY <1>14, NamesDiffer DEF WorkerPass, PassBegin
<1>15. ASSUME WorkerPassed PROVE Pair'
  BY <1>15, NamesDiffer DEF WorkerPassed, PassEnd, Walked, Ahead
<1>16. ASSUME OwnerPass PROVE Pair'
  BY <1>16, NamesDiffer DEF OwnerPass, PassBegin
<1>17. ASSUME OwnerPassed PROVE Pair'
  BY <1>17, NamesDiffer DEF OwnerPassed, PassEnd, Walked, Ahead
<1>18. ASSUME NEW s \in Stoppers, StopRefused(s) PROVE Pair'
  BY <1>18, NamesDiffer DEF StopRefused, StopStep
<1>19. ASSUME NEW s \in Stoppers, StopBegin(s) PROVE Pair'
  BY <1>19, NamesDiffer DEF StopBegin, StopStep
<1>20. ASSUME NEW s \in Stoppers, StopDrain(s) PROVE Pair'
  BY <1>20, NamesDiffer DEF StopDrain, StopStep
<1>21. ASSUME NEW s \in Stoppers, StopPass(s) PROVE Pair'
  BY <1>21, NamesDiffer DEF StopPass, StopStep, PassBegin
<1>22. ASSUME NEW s \in Stoppers, StopPassed(s) PROVE Pair'
  BY <1>22, NamesDiffer DEF StopPassed, StopStep, PassEnd, Walked, Ahead
<1>23. ASSUME NEW s \in Stoppers, StopJoined(s) PROVE Pair'
  BY <1>23, NamesDiffer DEF StopJoined, StopStep
<1>24. ASSUME NEW s \in Stoppers, StopComponents(s) PROVE Pair'
  BY <1>24, NamesDiffer DEF StopComponents, StopStep
<1>25. ASSUME NEW s \in Stoppers, StopFlush(s) PROVE Pair'
  BY <1>25, NamesDiffer DEF StopFlush, StopStep, Deliver
<1>26. ASSUME NEW s \in Stoppers, StopFlushed(s) PROVE Pair'
  BY <1>26, NamesDiffer DEF StopFlushed, StopStep
<1>27. ASSUME NEW s \in Stoppers, StopEnd(s) PROVE Pair'
  BY <1>27, NamesDiffer DEF StopEnd, StopStep
<1>28. CASE UNCHANGED vars
  BY <1>28 DEF vars
<1>29. QED
  BY <1>1, <1>2, <1>3, <1>4, <1>5, <1>6, <1>7, <1>8, <1>9, <1>10, <1>11, <1>12, <1>13,
    <1>14, <1>15, <1>16, <1>17, <1>18, <1>19, <1>20, <1>21, <1>22, <1>23, <1>24, <1>25,
    <1>26, <1>27, <1>28 DEF Next, Run, Stop, Walk, Work, Host

(* A walk goes up in tickets, so all that is behind it was called; it calls a task
   nobody else can have called since it was reached.                          *)
LEMMA NextWalks == IInv /\ [Next]_vars => Walks'
<1> SUFFICES ASSUME IInv, [Next]_vars PROVE Walks'
  OBVIOUS
<1> USE DEF IInv, TypeOK, Lifecycle, Threads, Order, Pair, Walks, Behind, AllTasks,
  Executors, Active, InRun, lifecycleVars, listVars, walkVars, callVars, eventVars
<1>1. ASSUME NEW t \in Tasks, Post(t) PROVE Walks'
  BY <1>1, NamesDiffer DEF Post, Admit, Refuse
<1>2. ASSUME NEW v \in Events, PostEvent(v) PROVE Walks'
  BY <1>2, NamesDiffer DEF PostEvent
<1>3. ASSUME NEW r \in Runners, RunRefused(r) PROVE Walks'
  BY <1>3, NamesDiffer DEF RunRefused, RunStep
<1>4. ASSUME NEW r \in Runners, RunBegin(r) PROVE Walks'
  BY <1>4, NamesDiffer DEF RunBegin, RunStep
<1>5. ASSUME NEW r \in Runners, RunInitialize(r) PROVE Walks'
  BY <1>5, NamesDiffer DEF RunInitialize, RunStep, Admit
<1>6. ASSUME NEW r \in Runners, RunLoop(r) PROVE Walks'
  BY <1>6, NamesDiffer DEF RunLoop, RunStep, Admit
<1>7. ASSUME NEW r \in Runners, RunEnd(r) PROVE Walks'
  BY <1>7, NamesDiffer DEF RunEnd, RunStep
<1>8. ASSUME NEW e \in Executors, NEW t \in AllTasks, Reach(e, t) PROVE Walks'
  BY <1>8, NamesDiffer DEF Reach, IsNext, Ahead
<1>9. ASSUME NEW e \in Executors, NEW t \in Tasks, CallPosted(e, t) PROVE Walks'
  BY SMTT(30), <1>9, NamesDiffer DEF CallPosted, Called, Complete
<1>10. ASSUME NEW e \in Executors, CallInitialize(e) PROVE Walks'
  BY <1>10, NamesDiffer DEF CallInitialize, Called, Complete
<1>11. ASSUME NEW e \in Executors, CallLoop(e) PROVE Walks'
  BY <1>11, NamesDiffer DEF CallLoop, Called, Complete, Deliver
<1>12. ASSUME NEW e \in Executors, LoopNotDue(e) PROVE Walks'
  BY <1>12, NamesDiffer DEF LoopNotDue, Called
<1>13. ASSUME WorkerLook PROVE Walks'
  BY <1>13, NamesDiffer DEF WorkerLook
<1>14. ASSUME WorkerPass PROVE Walks'
  BY <1>14, NamesDiffer DEF WorkerPass, PassBegin
<1>15. ASSUME WorkerPassed PROVE Walks'
  BY <1>15, NamesDiffer DEF WorkerPassed, PassEnd, Walked, Ahead
<1>16. ASSUME OwnerPass PROVE Walks'
  BY <1>16, NamesDiffer DEF OwnerPass, PassBegin
<1>17. ASSUME OwnerPassed PROVE Walks'
  BY <1>17, NamesDiffer DEF OwnerPassed, PassEnd, Walked, Ahead
<1>18. ASSUME NEW s \in Stoppers, StopRefused(s) PROVE Walks'
  BY <1>18, NamesDiffer DEF StopRefused, StopStep
<1>19. ASSUME NEW s \in Stoppers, StopBegin(s) PROVE Walks'
  BY <1>19, NamesDiffer DEF StopBegin, StopStep
<1>20. ASSUME NEW s \in Stoppers, StopDrain(s) PROVE Walks'
  BY <1>20, NamesDiffer DEF StopDrain, StopStep
<1>21. ASSUME NEW s \in Stoppers, StopPass(s) PROVE Walks'
  BY <1>21, NamesDiffer DEF StopPass, StopStep, PassBegin
<1>22. ASSUME NEW s \in Stoppers, StopPassed(s) PROVE Walks'
  BY <1>22, NamesDiffer DEF StopPassed, StopStep, PassEnd, Walked, Ahead
<1>23. ASSUME NEW s \in Stoppers, StopJoined(s) PROVE Walks'
  BY <1>23, NamesDiffer DEF StopJoined, StopStep
<1>24. ASSUME NEW s \in Stoppers, StopComponents(s) PROVE Walks'
  BY <1>24, NamesDiffer DEF StopComponents, StopStep
<1>25. ASSUME NEW s \in Stoppers, StopFlush(s) PROVE Walks'
  BY <1>25, NamesDiffer DEF StopFlush, StopStep, Deliver
<1>26. ASSUME NEW s \in Stoppers, StopFlushed(s) PROVE Walks'
  BY <1>26, NamesDiffer DEF StopFlushed, StopStep
<1>27. ASSUME NEW s \in Stoppers, StopEnd(s) PROVE Walks'
  BY <1>27, NamesDiffer DEF StopEnd, StopStep
<1>28. CASE UNCHANGED vars
  BY <1>28 DEF vars
<1>29. QED
  BY <1>1, <1>2, <1>3, <1>4, <1>5, <1>6, <1>7, <1>8, <1>9, <1>10, <1>11, <1>12, <1>13,
    <1>14, <1>15, <1>16, <1>17, <1>18, <1>19, <1>20, <1>21, <1>22, <1>23, <1>24, <1>25,
    <1>26, <1>27, <1>28 DEF Next, Run, Stop, Walk, Work, Host

(* The last walk begins after the last task was accepted and calls each task it
   holds: when it ends, no list holds a task.                                 *)
LEMMA NextDrain == IInv /\ [Next]_vars => Drain'
<1> SUFFICES ASSUME IInv, [Next]_vars PROVE Drain'
  OBVIOUS
<1> USE DEF IInv, TypeOK, Lifecycle, Threads, Order, Pair, Walks, Drain, Settled,
  FinalPass, AllTasks, Executors, Active, InRun, lifecycleVars, listVars, walkVars,
  callVars, eventVars
<1>1. ASSUME NEW t \in Tasks, Post(t) PROVE Drain'
  BY <1>1, NamesDiffer DEF Post, Admit, Refuse
<1>2. ASSUME NEW v \in Events, PostEvent(v) PROVE Drain'
  BY <1>2, NamesDiffer DEF PostEvent
<1>3. ASSUME NEW r \in Runners, RunRefused(r) PROVE Drain'
  BY <1>3, NamesDiffer DEF RunRefused, RunStep
<1>4. ASSUME NEW r \in Runners, RunBegin(r) PROVE Drain'
  BY <1>4, NamesDiffer DEF RunBegin, RunStep
<1>5. ASSUME NEW r \in Runners, RunInitialize(r) PROVE Drain'
  BY <1>5, NamesDiffer DEF RunInitialize, RunStep, Admit
<1>6. ASSUME NEW r \in Runners, RunLoop(r) PROVE Drain'
  BY <1>6, NamesDiffer DEF RunLoop, RunStep, Admit
<1>7. ASSUME NEW r \in Runners, RunEnd(r) PROVE Drain'
  BY <1>7, NamesDiffer DEF RunEnd, RunStep
<1>8. ASSUME NEW e \in Executors, NEW t \in AllTasks, Reach(e, t) PROVE Drain'
  <2>1. \A u \in AllTasks : shut'[u] => stopping' /\ (draining' \/ Settled')
    BY <1>8 DEF Reach
  <2>2. ASSUME NEW f \in Executors, FinalPass(f), f = e => draining PROVE FinalPass(f)'
    <3>1. CASE f # e
      BY <1>8, <2>2, <3>1 DEF Reach
    <3>2. CASE f = e
      <4>1. shut'[t] /\ held'[e] = t /\ pass'[e] = "calling" /\ at'[e] = ticket[t]
        BY <1>8, <2>2, <3>2 DEF Reach
      <4>2. ASSUME NEW u \in AllTasks, place[u] = "listed", u # t PROVE ticket[t] < ticket[u]
        <5>1. ticket[u] > at[e]
          BY <1>8, <2>2, <3>2, <4>2 DEF Reach
        <5>2. ticket[t] <= ticket[u] /\ ticket[t] # ticket[u] /\ ticket[t] > 0
          BY <1>8, <4>2, <5>1 DEF Reach, IsNext, Ahead, Order
        <5>3. QED  BY <5>2
      <4>3. QED  BY <1>8, <2>2, <3>2, <4>1, <4>2 DEF Reach
    <3>3. QED  BY <3>1, <3>2
  <2>3. worker' = "finishing" => FinalPass(Worker)'
    BY <1>8, <2>2 DEF Reach
  <2>4. ASSUME NEW s \in Stoppers, stopper'[s] = "passing" PROVE FinalPass(s)'
    BY <1>8, <2>2, <2>4 DEF Reach
  <2>5. place'[Loop] = "called" => shut'[Loop]
    BY <1>8 DEF Reach
  <2>6. QED  BY <1>8, <2>1, <2>3, <2>4, <2>5 DEF Reach
<1>9. ASSUME NEW e \in Executors, NEW t \in Tasks, CallPosted(e, t) PROVE Drain'
  BY <1>9, NamesDiffer DEF CallPosted, Called, Complete
<1>10. ASSUME NEW e \in Executors, CallInitialize(e) PROVE Drain'
  BY <1>10, NamesDiffer DEF CallInitialize, Called, Complete
<1>11. ASSUME NEW e \in Executors, CallLoop(e) PROVE Drain'
  BY <1>11, NamesDiffer DEF CallLoop, Called, Complete, Deliver
<1>12. ASSUME NEW e \in Executors, LoopNotDue(e) PROVE Drain'
  BY <1>12, NamesDiffer DEF LoopNotDue, Called
<1>13. ASSUME WorkerLook PROVE Drain'
  BY <1>13, NamesDiffer DEF WorkerLook
<1>14. ASSUME WorkerPass PROVE Drain'
  BY <1>14, NamesDiffer DEF WorkerPass, PassBegin
<1>15. ASSUME WorkerPassed PROVE Drain'
  BY <1>15, NamesDiffer DEF WorkerPassed, PassEnd, Walked, Ahead
<1>16. ASSUME OwnerPass PROVE Drain'
  BY <1>16, NamesDiffer DEF OwnerPass, PassBegin
<1>17. ASSUME OwnerPassed PROVE Drain'
  BY <1>17, NamesDiffer DEF OwnerPassed, PassEnd, Walked, Ahead
<1>18. ASSUME NEW s \in Stoppers, StopRefused(s) PROVE Drain'
  BY <1>18, NamesDiffer DEF StopRefused, StopStep
<1>19. ASSUME NEW s \in Stoppers, StopBegin(s) PROVE Drain'
  BY <1>19, NamesDiffer DEF StopBegin, StopStep
<1>20. ASSUME NEW s \in Stoppers, StopDrain(s) PROVE Drain'
  BY <1>20, NamesDiffer DEF StopDrain, StopStep
<1>21. ASSUME NEW s \in Stoppers, StopPass(s) PROVE Drain'
  BY <1>21, NamesDiffer DEF StopPass, StopStep, PassBegin
<1>22. ASSUME NEW s \in Stoppers, StopPassed(s) PROVE Drain'
  BY <1>22, NamesDiffer DEF StopPassed, StopStep, PassEnd, Walked, Ahead
<1>23. ASSUME NEW s \in Stoppers, StopJoined(s) PROVE Drain'
  BY <1>23, NamesDiffer DEF StopJoined, StopStep
<1>24. ASSUME NEW s \in Stoppers, StopComponents(s) PROVE Drain'
  BY <1>24, NamesDiffer DEF StopComponents, StopStep
<1>25. ASSUME NEW s \in Stoppers, StopFlush(s) PROVE Drain'
  BY <1>25, NamesDiffer DEF StopFlush, StopStep, Deliver
<1>26. ASSUME NEW s \in Stoppers, StopFlushed(s) PROVE Drain'
  BY <1>26, NamesDiffer DEF StopFlushed, StopStep
<1>27. ASSUME NEW s \in Stoppers, StopEnd(s) PROVE Drain'
  BY <1>27, NamesDiffer DEF StopEnd, StopStep
<1>28. CASE UNCHANGED vars
  BY <1>28 DEF vars
<1>29. QED
  BY <1>1, <1>2, <1>3, <1>4, <1>5, <1>6, <1>7, <1>8, <1>9, <1>10, <1>11, <1>12, <1>13,
    <1>14, <1>15, <1>16, <1>17, <1>18, <1>19, <1>20, <1>21, <1>22, <1>23, <1>24, <1>25,
    <1>26, <1>27, <1>28 DEF Next, Run, Stop, Walk, Work, Host

(* A task is cancelled because the manager drains, and it drains until no task is
   left to run.                                                              *)
LEMMA NextCancel == IInv /\ [Next]_vars => Cancel'
<1> SUFFICES ASSUME IInv, [Next]_vars PROVE Cancel'
  OBVIOUS
<1> USE DEF IInv, TypeOK, Lifecycle, Threads, Order, Walks, Drain, Cancel, Settled,
  Behind, AllTasks, Executors, Active, lifecycleVars, listVars, walkVars, callVars,
  eventVars
<1>1. ASSUME NEW t \in Tasks, Post(t) PROVE Cancel'
  BY <1>1, NamesDiffer DEF Post, Admit, Refuse
<1>2. ASSUME NEW v \in Events, PostEvent(v) PROVE Cancel'
  BY <1>2, NamesDiffer DEF PostEvent
<1>3. ASSUME NEW r \in Runners, RunRefused(r) PROVE Cancel'
  BY <1>3, NamesDiffer DEF RunRefused, RunStep
<1>4. ASSUME NEW r \in Runners, RunBegin(r) PROVE Cancel'
  BY <1>4, NamesDiffer DEF RunBegin, RunStep
<1>5. ASSUME NEW r \in Runners, RunInitialize(r) PROVE Cancel'
  BY <1>5, NamesDiffer DEF RunInitialize, RunStep, Admit
<1>6. ASSUME NEW r \in Runners, RunLoop(r) PROVE Cancel'
  BY <1>6, NamesDiffer DEF RunLoop, RunStep, Admit
<1>7. ASSUME NEW r \in Runners, RunEnd(r) PROVE Cancel'
  BY <1>7, NamesDiffer DEF RunEnd, RunStep
<1>8. ASSUME NEW e \in Executors, NEW t \in AllTasks, Reach(e, t) PROVE Cancel'
  BY <1>8, NamesDiffer DEF Reach, IsNext, Ahead
<1>9. ASSUME NEW e \in Executors, NEW t \in Tasks, CallPosted(e, t) PROVE Cancel'
  BY SMTT(30), <1>9, NamesDiffer DEF CallPosted, Called, Complete
<1>10. ASSUME NEW e \in Executors, CallInitialize(e) PROVE Cancel'
  BY <1>10, NamesDiffer DEF CallInitialize, Called, Complete
<1>11. ASSUME NEW e \in Executors, CallLoop(e) PROVE Cancel'
  BY <1>11, NamesDiffer DEF CallLoop, Called, Complete, Deliver
<1>12. ASSUME NEW e \in Executors, LoopNotDue(e) PROVE Cancel'
  BY <1>12, NamesDiffer DEF LoopNotDue, Called
<1>13. ASSUME WorkerLook PROVE Cancel'
  BY <1>13, NamesDiffer DEF WorkerLook
<1>14. ASSUME WorkerPass PROVE Cancel'
  BY <1>14, NamesDiffer DEF WorkerPass, PassBegin
<1>15. ASSUME WorkerPassed PROVE Cancel'
  BY <1>15, NamesDiffer DEF WorkerPassed, PassEnd, Walked, Ahead
<1>16. ASSUME OwnerPass PROVE Cancel'
  BY <1>16, NamesDiffer DEF OwnerPass, PassBegin
<1>17. ASSUME OwnerPassed PROVE Cancel'
  BY <1>17, NamesDiffer DEF OwnerPassed, PassEnd, Walked, Ahead
<1>18. ASSUME NEW s \in Stoppers, StopRefused(s) PROVE Cancel'
  BY <1>18, NamesDiffer DEF StopRefused, StopStep
<1>19. ASSUME NEW s \in Stoppers, StopBegin(s) PROVE Cancel'
  BY <1>19, NamesDiffer DEF StopBegin, StopStep
<1>20. ASSUME NEW s \in Stoppers, StopDrain(s) PROVE Cancel'
  BY <1>20, NamesDiffer DEF StopDrain, StopStep
<1>21. ASSUME NEW s \in Stoppers, StopPass(s) PROVE Cancel'
  BY <1>21, NamesDiffer DEF StopPass, StopStep, PassBegin
<1>22. ASSUME NEW s \in Stoppers, StopPassed(s) PROVE Cancel'
  BY <1>22, NamesDiffer DEF StopPassed, StopStep, PassEnd, Walked, Ahead
<1>23. ASSUME NEW s \in Stoppers, StopJoined(s) PROVE Cancel'
  BY <1>23, NamesDiffer DEF StopJoined, StopStep
<1>24. ASSUME NEW s \in Stoppers, StopComponents(s) PROVE Cancel'
  BY <1>24, NamesDiffer DEF StopComponents, StopStep
<1>25. ASSUME NEW s \in Stoppers, StopFlush(s) PROVE Cancel'
  BY <1>25, NamesDiffer DEF StopFlush, StopStep, Deliver
<1>26. ASSUME NEW s \in Stoppers, StopFlushed(s) PROVE Cancel'
  BY <1>26, NamesDiffer DEF StopFlushed, StopStep
<1>27. ASSUME NEW s \in Stoppers, StopEnd(s) PROVE Cancel'
  BY <1>27, NamesDiffer DEF StopEnd, StopStep
<1>28. CASE UNCHANGED vars
  BY <1>28 DEF vars
<1>29. QED
  BY <1>1, <1>2, <1>3, <1>4, <1>5, <1>6, <1>7, <1>8, <1>9, <1>10, <1>11, <1>12, <1>13,
    <1>14, <1>15, <1>16, <1>17, <1>18, <1>19, <1>20, <1>21, <1>22, <1>23, <1>24, <1>25,
    <1>26, <1>27, <1>28 DEF Next, Run, Stop, Walk, Work, Host

(* The components are shut down when no task is left, and initialized before the
   loop is reached unless both are told of the shutdown.                      *)
LEMMA NextAlive == IInv /\ [Next]_vars => Alive'
<1> SUFFICES ASSUME IInv, [Next]_vars PROVE Alive'
  OBVIOUS
<1> USE DEF IInv, TypeOK, Lifecycle, Threads, Order, Pair, Walks, Drain, Alive, Settled,
  Behind, AllTasks, Executors, Active, InRun, lifecycleVars, listVars, walkVars, callVars,
  eventVars
<1>1. ASSUME NEW t \in Tasks, Post(t) PROVE Alive'
  BY <1>1, NamesDiffer DEF Post, Admit, Refuse
<1>2. ASSUME NEW v \in Events, PostEvent(v) PROVE Alive'
  BY <1>2, NamesDiffer DEF PostEvent
<1>3. ASSUME NEW r \in Runners, RunRefused(r) PROVE Alive'
  BY <1>3, NamesDiffer DEF RunRefused, RunStep
<1>4. ASSUME NEW r \in Runners, RunBegin(r) PROVE Alive'
  BY <1>4, NamesDiffer DEF RunBegin, RunStep
<1>5. ASSUME NEW r \in Runners, RunInitialize(r) PROVE Alive'
  BY <1>5, NamesDiffer DEF RunInitialize, RunStep, Admit
<1>6. ASSUME NEW r \in Runners, RunLoop(r) PROVE Alive'
  BY <1>6, NamesDiffer DEF RunLoop, RunStep, Admit
<1>7. ASSUME NEW r \in Runners, RunEnd(r) PROVE Alive'
  BY <1>7, NamesDiffer DEF RunEnd, RunStep
<1>8. ASSUME NEW e \in Executors, NEW t \in AllTasks, Reach(e, t) PROVE Alive'
  BY <1>8, NamesDiffer DEF Reach, IsNext, Ahead
<1>9. ASSUME NEW e \in Executors, NEW t \in Tasks, CallPosted(e, t) PROVE Alive'
  BY <1>9, NamesDiffer DEF CallPosted, Called, Complete
<1>10. ASSUME NEW e \in Executors, CallInitialize(e) PROVE Alive'
  BY <1>10, NamesDiffer DEF CallInitialize, Called, Complete
<1>11. ASSUME NEW e \in Executors, CallLoop(e) PROVE Alive'
  BY <1>11, NamesDiffer DEF CallLoop, Called, Complete, Deliver
<1>12. ASSUME NEW e \in Executors, LoopNotDue(e) PROVE Alive'
  BY <1>12, NamesDiffer DEF LoopNotDue, Called
<1>13. ASSUME WorkerLook PROVE Alive'
  BY <1>13, NamesDiffer DEF WorkerLook
<1>14. ASSUME WorkerPass PROVE Alive'
  BY <1>14, NamesDiffer DEF WorkerPass, PassBegin
<1>15. ASSUME WorkerPassed PROVE Alive'
  BY <1>15, NamesDiffer DEF WorkerPassed, PassEnd, Walked, Ahead
<1>16. ASSUME OwnerPass PROVE Alive'
  BY <1>16, NamesDiffer DEF OwnerPass, PassBegin
<1>17. ASSUME OwnerPassed PROVE Alive'
  BY <1>17, NamesDiffer DEF OwnerPassed, PassEnd, Walked, Ahead
<1>18. ASSUME NEW s \in Stoppers, StopRefused(s) PROVE Alive'
  BY <1>18, NamesDiffer DEF StopRefused, StopStep
<1>19. ASSUME NEW s \in Stoppers, StopBegin(s) PROVE Alive'
  BY <1>19, NamesDiffer DEF StopBegin, StopStep
<1>20. ASSUME NEW s \in Stoppers, StopDrain(s) PROVE Alive'
  BY <1>20, NamesDiffer DEF StopDrain, StopStep
<1>21. ASSUME NEW s \in Stoppers, StopPass(s) PROVE Alive'
  BY <1>21, NamesDiffer DEF StopPass, StopStep, PassBegin
<1>22. ASSUME NEW s \in Stoppers, StopPassed(s) PROVE Alive'
  BY <1>22, NamesDiffer DEF StopPassed, StopStep, PassEnd, Walked, Ahead
<1>23. ASSUME NEW s \in Stoppers, StopJoined(s) PROVE Alive'
  BY <1>23, NamesDiffer DEF StopJoined, StopStep
<1>24. ASSUME NEW s \in Stoppers, StopComponents(s) PROVE Alive'
  BY <1>24, NamesDiffer DEF StopComponents, StopStep
<1>25. ASSUME NEW s \in Stoppers, StopFlush(s) PROVE Alive'
  BY <1>25, NamesDiffer DEF StopFlush, StopStep, Deliver
<1>26. ASSUME NEW s \in Stoppers, StopFlushed(s) PROVE Alive'
  BY <1>26, NamesDiffer DEF StopFlushed, StopStep
<1>27. ASSUME NEW s \in Stoppers, StopEnd(s) PROVE Alive'
  BY <1>27, NamesDiffer DEF StopEnd, StopStep
<1>28. CASE UNCHANGED vars
  BY <1>28 DEF vars
<1>29. QED
  BY <1>1, <1>2, <1>3, <1>4, <1>5, <1>6, <1>7, <1>8, <1>9, <1>10, <1>11, <1>12, <1>13,
    <1>14, <1>15, <1>16, <1>17, <1>18, <1>19, <1>20, <1>21, <1>22, <1>23, <1>24, <1>25,
    <1>26, <1>27, <1>28 DEF Next, Run, Stop, Walk, Work, Host

(* The loop's last call delivers what was posted before shutdown(); without a loop
   the first round of the drain does.                                         *)
LEMMA NextPosted == IInv /\ [Next]_vars => Posted'
<1> SUFFICES ASSUME IInv, [Next]_vars PROVE Posted'
  OBVIOUS
<1> USE DEF IInv, TypeOK, Lifecycle, Threads, Order, Walks, Drain, Alive, Posted,
  EarlyUnqueued, Queued, Settled, AllTasks, Executors, Active, lifecycleVars, listVars,
  walkVars, callVars, eventVars
<1>1. ASSUME NEW t \in Tasks, Post(t) PROVE Posted'
  BY <1>1, NamesDiffer, DrainRoundsPositive DEF Post, Admit, Refuse
<1>2. ASSUME NEW v \in Events, PostEvent(v) PROVE Posted'
  BY <1>2, NamesDiffer, DrainRoundsPositive DEF PostEvent
<1>3. ASSUME NEW r \in Runners, RunRefused(r) PROVE Posted'
  BY <1>3, NamesDiffer, DrainRoundsPositive DEF RunRefused, RunStep
<1>4. ASSUME NEW r \in Runners, RunBegin(r) PROVE Posted'
  BY <1>4, NamesDiffer, DrainRoundsPositive DEF RunBegin, RunStep
<1>5. ASSUME NEW r \in Runners, RunInitialize(r) PROVE Posted'
  BY <1>5, NamesDiffer, DrainRoundsPositive DEF RunInitialize, RunStep, Admit
<1>6. ASSUME NEW r \in Runners, RunLoop(r) PROVE Posted'
  BY <1>6, NamesDiffer, DrainRoundsPositive DEF RunLoop, RunStep, Admit
<1>7. ASSUME NEW r \in Runners, RunEnd(r) PROVE Posted'
  BY <1>7, NamesDiffer, DrainRoundsPositive DEF RunEnd, RunStep
<1>8. ASSUME NEW e \in Executors, NEW t \in AllTasks, Reach(e, t) PROVE Posted'
  BY <1>8, NamesDiffer, DrainRoundsPositive DEF Reach, IsNext, Ahead
<1>9. ASSUME NEW e \in Executors, NEW t \in Tasks, CallPosted(e, t) PROVE Posted'
  BY <1>9, NamesDiffer, DrainRoundsPositive DEF CallPosted, Called, Complete
<1>10. ASSUME NEW e \in Executors, CallInitialize(e) PROVE Posted'
  BY <1>10, NamesDiffer, DrainRoundsPositive DEF CallInitialize, Called, Complete
<1>11. ASSUME NEW e \in Executors, CallLoop(e) PROVE Posted'
  BY <1>11, NamesDiffer, DrainRoundsPositive DEF CallLoop, Called, Complete, Deliver
<1>12. ASSUME NEW e \in Executors, LoopNotDue(e) PROVE Posted'
  BY <1>12, NamesDiffer, DrainRoundsPositive DEF LoopNotDue, Called
<1>13. ASSUME WorkerLook PROVE Posted'
  BY <1>13, NamesDiffer, DrainRoundsPositive DEF WorkerLook
<1>14. ASSUME WorkerPass PROVE Posted'
  BY <1>14, NamesDiffer, DrainRoundsPositive DEF WorkerPass, PassBegin
<1>15. ASSUME WorkerPassed PROVE Posted'
  BY <1>15, NamesDiffer, DrainRoundsPositive DEF WorkerPassed, PassEnd, Walked, Ahead
<1>16. ASSUME OwnerPass PROVE Posted'
  BY <1>16, NamesDiffer, DrainRoundsPositive DEF OwnerPass, PassBegin
<1>17. ASSUME OwnerPassed PROVE Posted'
  BY <1>17, NamesDiffer, DrainRoundsPositive DEF OwnerPassed, PassEnd, Walked, Ahead
<1>18. ASSUME NEW s \in Stoppers, StopRefused(s) PROVE Posted'
  BY <1>18, NamesDiffer, DrainRoundsPositive DEF StopRefused, StopStep
<1>19. ASSUME NEW s \in Stoppers, StopBegin(s) PROVE Posted'
  BY <1>19, NamesDiffer, DrainRoundsPositive DEF StopBegin, StopStep
<1>20. ASSUME NEW s \in Stoppers, StopDrain(s) PROVE Posted'
  BY <1>20, NamesDiffer, DrainRoundsPositive DEF StopDrain, StopStep
<1>21. ASSUME NEW s \in Stoppers, StopPass(s) PROVE Posted'
  BY <1>21, NamesDiffer, DrainRoundsPositive DEF StopPass, StopStep, PassBegin
<1>22. ASSUME NEW s \in Stoppers, StopPassed(s) PROVE Posted'
  BY <1>22, NamesDiffer, DrainRoundsPositive DEF StopPassed, StopStep, PassEnd, Walked, Ahead
<1>23. ASSUME NEW s \in Stoppers, StopJoined(s) PROVE Posted'
  BY <1>23, NamesDiffer, DrainRoundsPositive DEF StopJoined, StopStep
<1>24. ASSUME NEW s \in Stoppers, StopComponents(s) PROVE Posted'
  BY <1>24, NamesDiffer, DrainRoundsPositive DEF StopComponents, StopStep
<1>25. ASSUME NEW s \in Stoppers, StopFlush(s) PROVE Posted'
  BY <1>25, NamesDiffer, DrainRoundsPositive DEF StopFlush, StopStep, Deliver
<1>26. ASSUME NEW s \in Stoppers, StopFlushed(s) PROVE Posted'
  BY <1>26, NamesDiffer, DrainRoundsPositive DEF StopFlushed, StopStep
<1>27. ASSUME NEW s \in Stoppers, StopEnd(s) PROVE Posted'
  BY <1>27, NamesDiffer, DrainRoundsPositive DEF StopEnd, StopStep
<1>28. CASE UNCHANGED vars
  BY <1>28 DEF vars
<1>29. QED
  BY <1>1, <1>2, <1>3, <1>4, <1>5, <1>6, <1>7, <1>8, <1>9, <1>10, <1>11, <1>12, <1>13,
    <1>14, <1>15, <1>16, <1>17, <1>18, <1>19, <1>20, <1>21, <1>22, <1>23, <1>24, <1>25,
    <1>26, <1>27, <1>28 DEF Next, Run, Stop, Walk, Work, Host

-----------------------------------------------------------------------------
(* The initial state: nothing was posted and nobody works.                      *)
LEMMA InitIInv == Init => IInv
<1> SUFFICES ASSUME Init PROVE IInv
  OBVIOUS
<1> USE NamesDiffer, DrainRoundsPositive DEF Init, AllTasks, Executors
<1>1. TypeOK
  <2>1. calls \in [Tasks -> Nat] /\ cancelled \in SUBSET Tasks /\ early \in SUBSET Events
    OBVIOUS
  <2>2. at \in [Executors -> Nat] /\ held \in [Executors -> AllTasks]
    OBVIOUS
  <2>3. ticket \in [AllTasks -> Nat] /\ rounds \in 0..DrainRounds
    OBVIOUS
  <2>4. QED  BY <2>1, <2>2, <2>3 DEF TypeOK
<1>2. Lifecycle /\ Threads
  BY DEF Lifecycle, Threads, Active, InRun
<1>3. Order /\ Pair
  BY DEF Order, Pair
<1>4. Walks /\ Cancel
  BY DEF Walks, Behind, Cancel
<1>5. Drain /\ Alive
  BY DEF Drain, Alive, Settled, FinalPass
<1>6. Posted
  BY DEF Posted, EarlyUnqueued
<1>7. QED  BY <1>1, <1>2, <1>3, <1>4, <1>5, <1>6 DEF IInv

LEMMA NextIInv == IInv /\ [Next]_vars => IInv'
BY NextType, NextLifecycle, NextThreads, NextOrder, NextPair, NextWalks, NextDrain,
   NextCancel, NextAlive, NextPosted DEF IInv

(* The invariant is inductive, for every number of tasks, events and threads.     *)
THEOREM Inductive == Spec => []IInv
BY InitIInv, NextIInv, PTL DEF Spec

(* Every variable keeps its type, and EventBus::drain its bound.                 *)
THEOREM TypeCorrect == Spec => []TypeOK
<1>1. IInv => TypeOK
  BY DEF IInv
<1>2. QED  BY <1>1, Inductive, PTL

(* Work that post_task accepted is called at most once and in the order of        *)
(* acceptance.                                                               *)
THEOREM InOrder == Spec => []CalledInOrder
<1>1. IInv => CalledInOrder
  <2> SUFFICES ASSUME IInv PROVE CalledInOrder
    OBVIOUS
  <2> USE NamesDiffer DEF IInv, TypeOK, AllTasks
  <2>1. \A t \in Tasks : calls[t] <= 1
    BY DEF Walks
  <2>2. ASSUME NEW t \in CalledTasks, NEW u \in Accepted, ticket[u] < ticket[t]
        PROVE  u \in CalledTasks
    <3>1. t \in Tasks /\ place[t] = "called"
      BY <2>2 DEF CalledTasks, Walks
    <3>2. u \in Behind(ticket[t]) /\ u \in Tasks
      BY <2>2 DEF Accepted, Behind
    <3>3. QED  BY <3>1, <3>2 DEF Walks, CalledTasks
  <2>3. QED  BY <2>1, <2>2 DEF CalledInOrder
<1>2. QED  BY <1>1, Inductive, PTL

(* A platform that stopped owes no callback.                                   *)
THEOREM Settles == Spec => []StoppedSettled
<1>1. IInv => StoppedSettled
  BY DEF IInv, TypeOK, AllTasks, Drain, Settled, Order, Walks, StoppedSettled, Accepted,
         CalledTasks
<1>2. QED  BY <1>1, Inductive, PTL

(* Two threads never walk the task list together.                               *)
THEOREM SingleExecutor == Spec => []OneExecutor
<1>1. IInv => OneExecutor
  BY NamesDiffer DEF IInv, Lifecycle, Threads, Active, OneExecutor, Executors
<1>2. QED  BY <1>1, Inductive, PTL

(* No task runs that was accepted after a cancelled one.                         *)
THEOREM CancelIsLast == Spec => []NoRunAfterCancel
<1>1. IInv => NoRunAfterCancel
  BY DEF IInv, TypeOK, Walks, Cancel, NoRunAfterCancel, CalledTasks
<1>2. QED  BY <1>1, Inductive, PTL

(* A callback that is not told of the shutdown finds the components it needs.      *)
THEOREM ComponentsThere == Spec => []ComponentsAlive
<1>1. IInv => ComponentsAlive
  <2> SUFFICES ASSUME IInv, NEW e \in Executors, pass[e] = "calling", ~shut[held[e]]
               PROVE  /\ components # "shut"
                      /\ held[e] = Initialize => components = "raw"
                      /\ held[e] = Loop => components = "initialized"
    BY DEF ComponentsAlive
  <2>1. held[e] \in AllTasks /\ place[held[e]] = "listed"
    BY DEF IInv, TypeOK, Walks
  <2>2. components # "shut"
    BY <2>1 DEF IInv, Alive, Settled
  <2>3. QED  BY <2>1, <2>2 DEF IInv, TypeOK, Alive
<1>2. QED  BY <1>1, Inductive, PTL

(* run() never finds the task manager closed between its two tasks.               *)
THEOREM BothScheduled == Spec => []RunSchedulesBoth
<1>1. IInv => RunSchedulesBoth
  BY DEF IInv, Lifecycle, InRun, RunSchedulesBoth
<1>2. QED  BY <1>1, Inductive, PTL

(* No event posted before shutdown() is lost, and a running platform delivers it    *)
(* while its components live.                                                 *)
THEOREM EarlyDelivered == Spec => []EarlyEventsDelivered
<1>1. IInv => EarlyEventsDelivered
  <2> SUFFICES ASSUME IInv PROVE EarlyEventsDelivered
    OBVIOUS
  <2>1. stopped => \A v \in early : event[v] \in {"delivered", "late"}
    BY DEF IInv, TypeOK, Posted, EarlyUnqueued
  <2>2. ASSUME components = "shut", ticket[Loop] > 0
        PROVE  \A v \in early : event[v] = "delivered"
    <3>1. place[Loop] = "called"
      BY <2>2 DEF IInv, Alive, Settled, Order, AllTasks
    <3>2. QED  BY <3>1 DEF IInv, Posted
  <2>3. QED  BY <2>1, <2>2 DEF EarlyEventsDelivered
<1>2. QED  BY <1>1, Inductive, PTL

(* A platform that stopped stays stopped: it accepts nothing and calls nothing.     *)
THEOREM FinalStop == Spec => StoppedIsFinal
<1> DEFINE Still == stopped => stopped' /\ calls' = calls /\ components' = components
                      /\ ~running' /\ arrivals' = arrivals
                      /\ \A v \in Events : event'[v] \in {event[v], "queued"}
<1>1. IInv /\ [Next]_vars => [Still]_vars
  <2> SUFFICES ASSUME IInv, Next, stopped PROVE Still
    BY DEF vars
  <2> USE DEF lifecycleVars, listVars, walkVars, callVars, eventVars
  <2>1. /\ stopping /\ ~running
        /\ \A s \in Stoppers : ~Active(s)
        /\ \A r \in Runners : ~InRun(r)
    BY DEF IInv, Lifecycle
  <2>2. \A e \in Executors : pass[e] # "calling"
    BY DEF IInv, TypeOK, Walks, Drain, Settled
  <2>3. ASSUME NEW t \in Tasks, Post(t) PROVE Still
    BY <2>1, <2>3 DEF Post, Refuse
  <2>4. ASSUME NEW v \in Events, PostEvent(v) PROVE Still
    BY <2>1, <2>4 DEF PostEvent, IInv, TypeOK
  <2>5. ASSUME NEW r \in Runners, Run(r) PROVE Still
    <3>1. RunRefused(r)
      BY <2>1, <2>5 DEF Run, RunBegin, RunInitialize, RunLoop, RunEnd, RunStep, InRun
    <3>2. QED  BY <2>1, <3>1 DEF RunRefused, RunStep
  <2>6. ASSUME NEW s \in Stoppers, Stop(s) PROVE Still
    <3>1. StopRefused(s)
      BY <2>1, <2>6 DEF Stop, StopBegin, StopDrain, StopPass, StopPassed, StopJoined,
           StopComponents, StopFlush, StopFlushed, StopEnd, StopStep, Active
    <3>2. QED  BY <2>1, <3>1 DEF StopRefused, StopStep
  <2>7. ASSUME NEW e \in Executors, Walk(e) PROVE Still
    <3>1. PICK t \in AllTasks : Reach(e, t)
      BY <2>2, <2>7 DEF Walk, CallPosted, CallInitialize, CallLoop, LoopNotDue, Called
    <3>2. QED  BY <2>1, <3>1 DEF Reach
  <2>8. ASSUME Work PROVE Still
    BY <2>1, <2>8 DEF Work, WorkerLook, WorkerPass, WorkerPassed, PassBegin, PassEnd
  <2>9. ASSUME Host PROVE Still
    BY <2>1, <2>9 DEF Host, OwnerPass, OwnerPassed, PassBegin, PassEnd
  <2>10. QED  BY <2>3, <2>4, <2>5, <2>6, <2>7, <2>8, <2>9 DEF Next
<1>2. QED  BY <1>1, Inductive, PTL DEF Spec, StoppedIsFinal
=============================================================================
