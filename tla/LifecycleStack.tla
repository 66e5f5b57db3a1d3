--------------------------- MODULE LifecycleStack ---------------------------
(***************************************************************************)
(* Ordered processing and staged shutdown: lifecycle/LifecycleStack.hpp.    *)
(*                                                                         *)
(* Module i was registered i-th and depends on the modules below it.  A     *)
(* module is external to the stack: it owes work that ends when the module   *)
(* below it gets turns (late completions), and when it was asked to stop it  *)
(* stops in a turn of its own that finds nothing owed, or inside shutdown()  *)
(* if nothing is owed then (guides/lifecycle-stack.md, "Module Contract").   *)
(*                                                                         *)
(* Everything happens in one owner loop.  A turn of a module may call        *)
(* add_module() or shutdown() of the stack, so the loop of process() is a    *)
(* sequence of steps.                                                      *)
(***************************************************************************)
EXTENDS Integers

CONSTANTS
  Capacity,    \* bound: modules that are ever registered
  MaxOwed,     \* bound: turns of its dependency that a module waits for
  SelfStopped, \* modules the application may stop directly
  Throwing     \* modules whose process() may throw

Modules == 1..Capacity

ASSUME CapacityNat == Capacity \in Nat
ASSUME MaxOwedNat == MaxOwed \in Nat
ASSUME ModulesNamed == SelfStopped \subseteq Modules /\ Throwing \subseteq Modules

VARIABLES
  size,       \* m_modules.size()
  requested,  \* m_shutdown_requested
  cursor,     \* m_shutdown_cursor
  current,    \* m_current_shutdown_requested
  stopped,    \* m_stopped
  walking,    \* process() is under way
  index,      \* its next module
  bound,      \* process_count
  asked,      \* history: calls of shutdown() by the stack, per module
  owed,       \* modules: work that waits for the dependency
  halted      \* modules: is_stopped()

stackVars == <<size, requested, cursor, current, stopped>>
walkVars == <<walking, index, bound>>
moduleVars == <<asked, owed, halted>>
vars == <<stackVars, walkVars, moduleVars>>

Init ==
  /\ size = 0 /\ cursor = 0
  /\ requested = FALSE /\ current = FALSE /\ stopped = FALSE
  /\ walking = FALSE /\ index = 1 /\ bound = 0
  /\ asked = [i \in Modules |-> 0]
  /\ owed = [i \in Modules |-> 0]
  /\ halted = [i \in Modules |-> FALSE]

-----------------------------------------------------------------------------
\* Fault: modules are added during the shutdown.
AddModuleLate ==
  /\ size < Capacity
  /\ size' = size + 1
  /\ UNCHANGED <<requested, cursor, current, stopped, walkVars, moduleVars>>

(* add_module, for a module that is not registered yet.                       *)
AddModule ==
  /\ size < Capacity
  /\ ~requested
  /\ size' = size + 1
  /\ UNCHANGED <<requested, cursor, current, stopped, walkVars, moduleVars>>

(* advance_shutdown stops at the first module from the top that does not stop    *)
(* at once, and asks every module it passes that has not stopped by itself.    *)
HoldsUp(i) == ~halted[i] /\ (owed[i] > 0 \/ asked[i] > 0)

Asks(i, now, from) == now <= i /\ i <= from /\ ~halted[i] /\ ~(current /\ i = cursor)

\* Fault: every module is asked at once.
AdvanceTogether(from) ==
  /\ cursor' = from /\ current' = TRUE
  /\ asked' = [i \in Modules |-> IF Asks(i, 1, from) THEN 1 ELSE asked[i]]
  /\ halted' = [i \in Modules |-> halted[i] \/ (i <= from /\ owed[i] = 0)]
  /\ UNCHANGED owed
  /\ stopped' = \A i \in 1..from : halted'[i]

Advance(from) ==
  \E now \in 0..from :
    /\ \A i \in Modules : now < i /\ i <= from => ~HoldsUp(i)
    /\ now > 0 => HoldsUp(now)
    /\ cursor' = now
    /\ asked' = [i \in Modules |-> IF Asks(i, now, from) THEN asked[i] + 1 ELSE asked[i]]
    /\ halted' = [i \in Modules |-> halted[i] \/ (now < i /\ i <= from)]
    /\ UNCHANGED owed
    /\ current' = (now > 0)
    /\ stopped' = (now = 0)

(* shutdown(): between two calls of process() or from the turn of a module.      *)
Shutdown ==
  /\ ~stopped /\ ~requested
  /\ requested' = TRUE
  /\ Advance(size)
  /\ UNCHANGED <<size, walkVars>>

\* Fault: during the shutdown only the module that stops gets turns.
ProcessBeginTop ==
  /\ ~walking /\ ~stopped
  /\ walking' = TRUE
  /\ index' = IF requested THEN cursor ELSE 1
  /\ bound' = IF requested THEN cursor ELSE size
  /\ UNCHANGED <<stackVars, moduleVars>>

ProcessBegin ==
  /\ ~walking /\ ~stopped
  /\ walking' = TRUE
  /\ index' = 1
  /\ bound' = IF requested THEN cursor ELSE size
  /\ UNCHANGED <<stackVars, moduleVars>>

(* A turn of module i serves the module above it.  The module itself takes new    *)
(* work on only while it was not asked to stop; the lowest one serves itself.   *)
Served(i) == [j \in Modules |-> IF j = i + 1 /\ owed[j] > 0 THEN owed[j] - 1 ELSE owed[j]]

Turn(i) ==
  IF asked[i] > 0
    THEN /\ owed' = IF i = 1 THEN [Served(i) EXCEPT ![i] = 0] ELSE Served(i)
         /\ halted' = [halted EXCEPT ![i] = owed[i] = 0]
    ELSE /\ \E w \in 0..MaxOwed : owed' = [Served(i) EXCEPT ![i] = w]
         /\ UNCHANGED halted

InTurn(i) == walking /\ index = i /\ index <= bound

ModuleTurn ==
  \E i \in Modules :
    /\ InTurn(i) /\ ~halted[i]
    /\ Turn(i)
    /\ index' = i + 1
    /\ UNCHANGED <<stackVars, walking, bound, asked>>

SkipStopped ==
  \E i \in Modules :
    /\ InTurn(i) /\ halted[i]
    /\ index' = i + 1
    /\ UNCHANGED <<stackVars, walking, bound, moduleVars>>

ProcessEnd ==
  /\ walking /\ index > bound
  /\ walking' = FALSE
  /\ IF requested
       THEN Advance(cursor)
       ELSE UNCHANGED <<cursor, current, stopped, moduleVars>>
  /\ UNCHANGED <<size, requested, index, bound>>

(* An exception of a module leaves process() before advance_shutdown().         *)
ProcessThrows ==
  /\ \E i \in Throwing : InTurn(i) /\ ~halted[i]
  /\ walking' = FALSE
  /\ UNCHANGED <<stackVars, index, bound, moduleVars>>

(* The application stops a module through its own shutdown().                  *)
StopDirectly ==
  \E i \in SelfStopped :
    /\ i <= size /\ ~halted[i]
    /\ halted' = [halted EXCEPT ![i] = TRUE]
    /\ UNCHANGED <<stackVars, walkVars, asked, owed>>

Process == ProcessBegin \/ ModuleTurn \/ SkipStopped \/ ProcessEnd

Next == AddModule \/ Shutdown \/ Process \/ ProcessThrows \/ StopDirectly

Spec == Init /\ [][Next]_vars

(* The host loop calls process() until the stack has stopped, modules return, and   *)
(* they do not throw for ever.                                                *)
FairSpec == Spec /\ WF_vars(Process) /\ <>[][~ProcessThrows]_vars

-----------------------------------------------------------------------------
TypeOK ==
  /\ size \in 0..Capacity /\ cursor \in 0..Capacity
  /\ requested \in BOOLEAN /\ current \in BOOLEAN /\ stopped \in BOOLEAN
  /\ walking \in BOOLEAN /\ index \in 1..Capacity + 1 /\ bound \in 0..Capacity
  /\ asked \in [Modules -> Nat]
  /\ owed \in [Modules -> 0..MaxOwed]
  /\ halted \in [Modules -> BOOLEAN]

(* No module is asked to stop before every module that depends on it stopped:     *)
(* "only one dependent shutdown stage is active at a time".                    *)
DependentsFirst ==
  \A i, j \in Modules : i < j /\ j <= size /\ asked[i] > 0 => halted[j]

(* advance_shutdown runs again on every process() and asks each module once.     *)
AskedOnce == \A i \in Modules : asked[i] <= 1

(* is_stopped() of the stack: every registered module stopped, also those added    *)
(* while process() was under way.                                            *)
StoppedMeansAll == stopped => \A i \in 1..size : halted[i]

\* The application stopped a module that a running one depends on.
Undermined == \E i \in Modules : i < size /\ halted[i] /\ ~halted[i + 1]

(* "lower-level modules keep processing until the current dependent reports       *)
(* is_stopped()": a shutdown that waits for the completions of a dependency ends.*)
ShutdownEnds == requested ~> stopped \/ Undermined
=============================================================================
