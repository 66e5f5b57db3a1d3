------------------------ MODULE LifecycleStackProofs ------------------------
(* Proofs about LifecycleStack, for every number of modules.                   *)
EXTENDS LifecycleStack, TLAPS

(* Above the cursor every module has stopped, below it none was asked, and the   *)
(* one under it was asked exactly if the flag says so.                        *)
Staged ==
  /\ cursor <= size
  /\ requested => \A i \in Modules : cursor < i /\ i <= size => halted[i]
  /\ \A i \in Modules : asked[i] > 0 => requested /\ cursor <= i
  /\ cursor > 0 /\ asked[cursor] > 0 => current
  /\ ~requested => ~stopped /\ ~current
  /\ stopped => requested /\ cursor = 0

IInv == TypeOK /\ Staged /\ AskedOnce

(* One pass of advance_shutdown, from the size for the first one, else from the    *)
(* cursor.                                                                   *)
LEMMA AdvanceStages ==
  ASSUME IInv, NEW from \in 0..size, Advance(from), requested', size' = size,
         \/ ~requested /\ from = size
         \/ requested /\ from = cursor
  PROVE  /\ Staged' /\ AskedOnce'
         /\ cursor' \in 0..Capacity /\ current' \in BOOLEAN /\ stopped' \in BOOLEAN
         /\ asked' \in [Modules -> Nat] /\ owed' = owed /\ halted' \in [Modules -> BOOLEAN]
<1> USE CapacityNat DEF IInv, TypeOK, Staged, AskedOnce, Modules
<1>1. PICK now \in 0..from :
        /\ now > 0 => HoldsUp(now)
        /\ cursor' = now /\ current' = (now > 0) /\ stopped' = (now = 0) /\ owed' = owed
        /\ asked' = [i \in Modules |-> IF Asks(i, now, from) THEN asked[i] + 1 ELSE asked[i]]
        /\ halted' = [i \in Modules |-> halted[i] \/ (now < i /\ i <= from)]
  BY DEF Advance
<1>2. ASSUME NEW i \in Modules, Asks(i, now, from) PROVE asked[i] = 0
  BY <1>2 DEF Asks
<1>3. \A i \in Modules : asked'[i] \in {0, 1} /\ (asked'[i] = 1 => now <= i)
  BY <1>1, <1>2 DEF Asks
<1>4. ASSUME NEW i \in Modules, now < i, i <= size PROVE halted'[i]
  <2>1. CASE i <= from
    BY <1>1, <1>4, <2>1
  <2>2. CASE ~(i <= from)
    <3>1. halted[i]
      BY <2>2, <1>4
    <3>2. QED  BY <1>1, <3>1
  <2>3. QED  BY <2>1, <2>2
<1>5. /\ cursor' \in 0..Capacity /\ cursor' <= size
      /\ asked' \in [Modules -> Nat]
  <2>1. from <= size /\ size <= Capacity /\ size \in Nat
    OBVIOUS
  <2>2. cursor' \in 0..Capacity /\ cursor' <= size
    BY <1>1, <2>1
  <2>3. \A i \in Modules : (IF Asks(i, now, from) THEN asked[i] + 1 ELSE asked[i]) \in Nat
    OBVIOUS
  <2>4. asked' \in [Modules -> Nat]
    BY <1>1, <2>3, Zenon
  <2>5. QED  BY <2>2, <2>4
<1>6. current' \in BOOLEAN /\ stopped' \in BOOLEAN /\ halted' \in [Modules -> BOOLEAN]
  <2>1. current' \in BOOLEAN /\ stopped' \in BOOLEAN
    BY <1>1
  <2>2. \A i \in Modules : (halted[i] \/ (now < i /\ i <= from)) \in BOOLEAN
    OBVIOUS
  <2>3. halted' \in [Modules -> BOOLEAN]
    BY <1>1, <2>2, Zenon
  <2>4. QED  BY <2>1, <2>3
<1>7. AskedOnce'
  BY SMTT(30), <1>3
<1>8. Staged'
  <2>1. requested' /\ cursor' <= size'
    BY <1>5
  <2>2. cursor' > 0 => current'
    BY <1>1
  <2>3. stopped' => cursor' = 0
    BY <1>1
  <2>4. \A i \in Modules : asked'[i] > 0 => cursor' <= i
    BY <1>1, <1>3
  <2>5. \A i \in Modules : cursor' < i /\ i <= size' => halted'[i]
    BY <1>1, <1>4
  <2>6. QED  BY <2>1, <2>2, <2>3, <2>4, <2>5
<1>9. QED  BY <1>1, <1>5, <1>6, <1>7, <1>8

LEMMA InitIInv == Init => IInv
<1> SUFFICES ASSUME Init PROVE IInv
  OBVIOUS
<1> USE CapacityNat, MaxOwedNat DEF Init, Modules
<1>1. asked \in [Modules -> Nat] /\ owed \in [Modules -> 0..MaxOwed]
      /\ halted \in [Modules -> BOOLEAN]
  OBVIOUS
<1>2. TypeOK
  <2>1. size \in 0..Capacity /\ cursor \in 0..Capacity /\ index \in 1..Capacity + 1
        /\ bound \in 0..Capacity
    OBVIOUS
  <2>2. requested \in BOOLEAN /\ current \in BOOLEAN /\ stopped \in BOOLEAN /\ walking \in BOOLEAN
    OBVIOUS
  <2>3. QED  BY <1>1, <2>1, <2>2 DEF TypeOK
<1>3. Staged /\ AskedOnce
  BY DEF Staged, AskedOnce
<1>4. QED  BY <1>2, <1>3 DEF IInv

(* One step per action.  A module may only stop when the stack is not looking;    *)
(* stopping early never undoes a stage.                                       *)
LEMMA NextIInv == IInv /\ [Next]_vars => IInv'
<1> SUFFICES ASSUME IInv, [Next]_vars PROVE IInv'
  OBVIOUS
<1> DEFINE Advanced ==
  /\ Staged' /\ AskedOnce'
  /\ cursor' \in 0..Capacity /\ current' \in BOOLEAN /\ stopped' \in BOOLEAN
  /\ asked' \in [Modules -> Nat] /\ owed' = owed /\ halted' \in [Modules -> BOOLEAN]
<1>a. size \in 0..size /\ cursor \in 0..size
  BY CapacityNat DEF IInv, TypeOK, Staged
<1>b. ASSUME Shutdown PROVE Advanced
  <2>1. Advance(size) /\ requested' /\ ~requested /\ size' = size
    BY <1>b DEF Shutdown
  <2>2. QED  BY <1>a, <2>1, AdvanceStages
<1>c. ASSUME ProcessEnd, requested PROVE Advanced
  <2>1. Advance(cursor) /\ requested' /\ size' = size
    BY <1>c DEF ProcessEnd
  <2>2. QED  BY <1>a, <1>c, <2>1, AdvanceStages
<1> USE CapacityNat, MaxOwedNat, ModulesNamed
     DEF IInv, TypeOK, Staged, AskedOnce, Modules, stackVars, walkVars, moduleVars
<1>1. CASE AddModule
  BY <1>1 DEF AddModule
<1>2. CASE Shutdown
  BY <1>2, <1>b DEF Shutdown
<1>3. CASE ProcessBegin
  BY <1>3 DEF ProcessBegin
<1>4. CASE ModuleTurn
  <2>1. PICK i \in Modules : InTurn(i) /\ ~halted[i] /\ Turn(i) /\ index' = i + 1
                             /\ UNCHANGED <<stackVars, walking, bound, asked>>
    BY <1>4 DEF ModuleTurn
  <2>2. Served(i) \in [Modules -> 0..MaxOwed]
    BY DEF Served
  <2>3. owed' \in [Modules -> 0..MaxOwed]
    <3>1. CASE asked[i] > 0
      <4>1. owed' \in {[Served(i) EXCEPT ![i] = 0], Served(i)}
        BY <2>1, <3>1 DEF Turn
      <4>2. 0 \in 0..MaxOwed
        OBVIOUS
      <4>3. QED  BY <2>2, <4>1, <4>2
    <3>2. CASE ~(asked[i] > 0)
      <4>1. PICK w \in 0..MaxOwed : owed' = [Served(i) EXCEPT ![i] = w]
        BY <2>1, <3>2 DEF Turn
      <4>2. QED  BY <2>2, <4>1
    <3>3. QED  BY <3>1, <3>2
  <2>4. halted' \in [Modules -> BOOLEAN] /\ \A j \in Modules : halted[j] => halted'[j]
    BY <2>1 DEF Turn
  <2>5. index' \in 1..Capacity + 1
    BY <2>1 DEF InTurn
  <2>6. Staged' /\ AskedOnce'
    BY <2>1, <2>4
  <2>7. QED  BY <2>1, <2>3, <2>4, <2>5, <2>6
<1>5. CASE SkipStopped
  BY <1>5 DEF SkipStopped, InTurn
<1>6. CASE ProcessEnd
  <2>1. CASE requested
    BY <1>6, <1>c, <2>1 DEF ProcessEnd
  <2>2. CASE ~requested
    BY <1>6, <2>2 DEF ProcessEnd
  <2>3. QED  BY <2>1, <2>2
<1>7. CASE ProcessThrows
  BY <1>7 DEF ProcessThrows
<1>8. CASE StopDirectly
  BY <1>8 DEF StopDirectly
<1>9. CASE UNCHANGED vars
  BY <1>9 DEF vars
<1>10. QED
  BY <1>1, <1>2, <1>3, <1>4, <1>5, <1>6, <1>7, <1>8, <1>9 DEF Next, Process

(* The stages are an invariant of the stack, for every number of modules.         *)
THEOREM Inductive == Spec => []IInv
BY InitIInv, NextIInv, PTL DEF Spec

(* shutdown() reaches a module only after all that depend on it stopped.          *)
THEOREM DependentsStopFirst == Spec => []DependentsFirst
<1>1. IInv => DependentsFirst
  BY DEF IInv, TypeOK, Staged, DependentsFirst, Modules
<1>2. QED  BY <1>1, Inductive, PTL

(* However often process() and shutdown() are called, a module is asked once.     *)
THEOREM OneRequest == Spec => []AskedOnce
<1>1. IInv => AskedOnce
  BY DEF IInv
<1>2. QED  BY <1>1, Inductive, PTL

(* A stack that reports it stopped has no module that did not.                    *)
THEOREM AllStopped == Spec => []StoppedMeansAll
<1>1. IInv => StoppedMeansAll
  BY CapacityNat DEF IInv, TypeOK, Staged, StoppedMeansAll, Modules
<1>2. QED  BY <1>1, Inductive, PTL
=============================================================================
