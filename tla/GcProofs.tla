------------------------------ MODULE GcProofs ------------------------------
(***************************************************************************)
(* Proofs about Gc, for every number of states and of parts, and every     *)
(* order in which the pools are enrolled: the variables keep their types,  *)
(* no part of a state is lost or destructed too early, and, if the code    *)
(* that outputs the graph does not throw, the collector is stopped before  *)
(* a pool is destructed.                                                   *)
(***************************************************************************)
EXTENDS Gc, SequenceTheorems, TLAPS

-----------------------------------------------------------------------------
(* Lemmas about the data. *)

\* The collector's position in the list of pools names a pool.
LEMMA EnrolledType == \A i \in 1 .. Len(Enrolled) : Enrolled[i] \in Pools
BY EnrolledAssumption

\* The number of enrolled pools is a number.
LEMMA LengthType == Len(Enrolled) \in Nat
BY EnrolledAssumption

\* What becomes of the parts keeps their types.
LEMMA PartsType ==
  ASSUME NEW p \in [Parts -> [Slots -> {"none", "held", "owned", "garbage"}]]
  PROVE  /\ Abandoned(p) \in [Parts -> [Slots -> {"none", "held", "owned", "garbage"}]]
         /\ \A S \in SUBSET Slots :
              Orphaned(p, S) \in [Parts -> [Slots -> {"none", "held", "owned", "garbage"}]]
BY DEF Abandoned, Orphaned

-----------------------------------------------------------------------------
(* Types *)

\* A call of the collector is that of one of its functions.
InPool == gpc = "call" => index <= Len(Enrolled)

\* The types hold initially.
LEMMA InitType == Init => TypeOK
BY LengthType DEF Init, TypeOK, NoSlot

\* A step of run() keeps the types.
LEMMA RunType == TypeOK /\ (Algorithm \/ Leave) => TypeOK'
<1> SUFFICES ASSUME TypeOK, Algorithm \/ Leave PROVE TypeOK'
  OBVIOUS
<1> USE DEF TypeOK
<1>1. ASSUME NEW s \in Slots, NEW k \in Parts, ConstructPart(s, k) PROVE TypeOK'
  BY <1>1 DEF ConstructPart, collector
<1>2. CASE ConstructState
  <2>1. building \in Slots
    BY <1>2 DEF ConstructState
  <2>2. part' \in [Parts -> [Slots -> {"none", "held", "owned", "garbage"}]]
    BY <1>2, <2>1 DEF ConstructState
  <2> QED
    BY <1>2, <2>1, <2>2 DEF ConstructState, collector
<1>3. ASSUME NEW s \in Slots, DropState(s) PROVE TypeOK'
  BY <1>3 DEF DropState, main, collector
<1>4. CASE AlgorithmThrows
  BY <1>4, PartsType DEF AlgorithmThrows, collector
<1>5. ASSUME NEW p \in Pools, DestructGraph(p) PROVE TypeOK'
  <2>1. CASE p = "state"
    <3>1. {s \in Slots : state[s] # "none"} \in SUBSET Slots
      OBVIOUS
    <3>2. part' = Orphaned(part, {s \in Slots : state[s] # "none"})
      BY <1>5, <2>1 DEF DestructGraph
    <3>3. part' \in [Parts -> [Slots -> {"none", "held", "owned", "garbage"}]]
      BY <3>1, <3>2, PartsType
    <3> QED
      BY <1>5, <2>1, <3>3 DEF DestructGraph, collector, Pools
  <2>2. CASE p \in Parts
    <3>1. p # "state"
      BY <2>2, PartsAssumption
    <3> QED
      BY <1>5, <2>2, <3>1 DEF DestructGraph, collector, Pools
  <2> QED
    BY <2>1, <2>2 DEF Pools
<1>6. CASE Start \/ StartThrows
  BY <1>6 DEF Start, StartThrows, collector
<1>7. CASE AlgorithmReturns \/ Output
  BY <1>7 DEF AlgorithmReturns, Output, collector
<1>8. CASE SetStop \/ Join \/ DestructGc
  BY <1>8 DEF SetStop, Join, DestructGc, collector
<1>9. CASE FreeAll
  BY <1>9 DEF FreeAll, collector, Pools
<1> QED
  BY <1>1, <1>2, <1>3, <1>4, <1>5, <1>6, <1>7, <1>8, <1>9 DEF Algorithm, Leave

\* A step of the collector keeps the types.
LEMMA CollectorType == TypeOK /\ InPool /\ Collect => TypeOK' /\ InPool'
<1> SUFFICES ASSUME TypeOK, InPool, Collect PROVE TypeOK' /\ InPool'
  OBVIOUS
<1> USE DEF TypeOK, InPool, main
<1>1. CASE EndThread
  BY <1>1 DEF EndThread
<1>2. CASE Loop
  BY <1>2, LengthType DEF Loop
<1>3. CASE CallNext
  BY <1>3, LengthType DEF CallNext
<1>4. ASSUME NEW s \in Slots, Visit(s) PROVE TypeOK' /\ InPool'
  <2>1. state' \in [Slots -> {"none", "live", "garbage"}]
    BY <1>4 DEF Visit
  <2>2. part' \in [Parts -> [Slots -> {"none", "held", "owned", "garbage"}]]
    <3>1. CASE part' = part
      BY <3>1
    <3>2. CASE part' = Orphaned(part, {s})
      BY <3>2, PartsType
    <3>3. CASE part' = [part EXCEPT ![Enrolled[index]][s] = "none"]
      BY <3>3
    <3> QED
      BY <1>4, <3>1, <3>2, <3>3 DEF Visit
  <2> QED
    BY <1>4, <2>1, <2>2 DEF Visit
<1>5. CASE Return
  BY <1>5, LengthType DEF Return
<1> QED
  BY <1>1, <1>2, <1>3, <1>4, <1>5 DEF Collect

\* run() does not interfere with the collector's loop, but to start it.
LEMMA RunInPool == TypeOK /\ InPool /\ (Algorithm \/ Leave) => InPool'
BY DEF InPool, Algorithm, Leave, collector, Start, StartThrows, ConstructPart,
   ConstructState, DropState, AlgorithmThrows, AlgorithmReturns, Output, SetStop,
   Join, FreeAll, DestructGraph, DestructGc

\* The types, and the collector is at a pool it knows, in every state.
LEMMA TypeInvariant == Spec => [](TypeOK /\ InPool)
<1>1. Init => TypeOK /\ InPool
  BY InitType DEF Init, InPool
<1>2. TypeOK /\ InPool /\ [Next]_vars => TypeOK' /\ InPool'
  BY RunType, RunInPool, CollectorType
     DEF Next, vars, main, collector, TypeOK, InPool
<1> QED
  BY <1>1, <1>2, PTL DEF Spec

\* The variables of the collector and of run() keep their types, whatever the
\* interleaving.
THEOREM TypeCorrect == Spec => []TypeOK
BY TypeInvariant, PTL

-----------------------------------------------------------------------------
(* The states and their parts *)

\* Nothing is constructed outside the algorithm, and no state outlives the pool
\* of states.
Building ==
  /\ mpc \in {"start", "algorithm"} => freed = {}
  /\ building # NoSlot => mpc = "algorithm" /\ state[building] = "none"
  /\ building = NoSlot => made = {}
  /\ \A k \in made : part[k][building] = "held"
  /\ "state" \in freed => \A s \in Slots : state[s] = "none"

OwnInv == TypeOK /\ Building /\ Ownership

\* A step of the algorithm keeps the parts with their states.
LEMMA AlgorithmOwns == OwnInv /\ Algorithm => Building' /\ Ownership'
<1> SUFFICES ASSUME OwnInv, Algorithm PROVE Building' /\ Ownership'
  OBVIOUS
<1> USE DEF OwnInv, TypeOK, Building, Ownership
<1>1. ASSUME NEW s \in Slots, NEW k \in Parts, ConstructPart(s, k)
      PROVE  Building' /\ Ownership'
  <2>1. state[s] = "none"
    BY <1>1, SlotsAssumption DEF ConstructPart
  <2>2. \A j \in Parts, u \in Slots : part[j][u] = "held" => u = s
    BY <1>1, SlotsAssumption DEF ConstructPart
  <2>3. \A j \in Parts, u \in Slots :
           part'[j][u] = IF j = k /\ u = s THEN "held" ELSE part[j][u]
    BY <1>1 DEF ConstructPart
  <2>4. \A j \in made : part[j][s] = "held"
    BY <1>1 DEF ConstructPart
  <2>5. /\ building' = s /\ made' = made \cup {k}
        /\ mpc = "algorithm" /\ UNCHANGED <<mpc, freed, state>>
    BY <1>1 DEF ConstructPart
  <2>6. Building'
    <3>1. \A j \in made' : part'[j][building'] = "held"
      BY <2>3, <2>4, <2>5
    <3> QED
      BY <2>1, <2>5, <3>1, SlotsAssumption
  <2>7. Ownership'
    BY <2>1, <2>2, <2>3, <2>5
  <2> QED
    BY <2>6, <2>7
<1>2. CASE ConstructState
  <2>1. building \in Slots
    BY <1>2 DEF ConstructState
  <2>2. \A j \in Parts : part[j][building] = "held"
    BY <1>2 DEF ConstructState
  <2>3. \A j \in Parts, u \in Slots :
           part'[j][u] = IF u = building THEN "owned" ELSE part[j][u]
    BY <1>2, <2>1, <2>2 DEF ConstructState
  <2> QED
    BY <1>2, <2>1, <2>3 DEF ConstructState
<1>3. ASSUME NEW s \in Slots, DropState(s) PROVE Building' /\ Ownership'
  BY <1>3 DEF DropState, main
<1> QED
  BY <1>1, <1>2, <1>3 DEF Algorithm

\* So does every step that leaves the algorithm, on every path ...
LEMMA LeaveOwns == OwnInv /\ Leave => Building' /\ Ownership'
<1> SUFFICES ASSUME OwnInv, Leave PROVE Building' /\ Ownership'
  OBVIOUS
<1> USE DEF OwnInv, TypeOK, Building, Ownership
<1>1. CASE Start \/ StartThrows \/ AlgorithmReturns \/ Output
  BY <1>1 DEF Start, StartThrows, AlgorithmReturns, Output
<1>2. CASE SetStop \/ Join \/ DestructGc
  BY <1>2 DEF SetStop, Join, DestructGc
<1>3. CASE AlgorithmThrows
  BY <1>3 DEF AlgorithmThrows, Abandoned
<1>4. CASE FreeAll
  BY <1>4 DEF FreeAll
<1>5. ASSUME NEW p \in Pools, DestructGraph(p) PROVE Building' /\ Ownership'
  <2>1. CASE p = "state"
    <3> DEFINE S == {s \in Slots : state[s] # "none"}
    <3>1. \A k \in Parts, s \in Slots :
             part'[k][s] = IF s \in S /\ part[k][s] = "owned" THEN "garbage" ELSE part[k][s]
      BY <1>5, <2>1 DEF DestructGraph, Orphaned
    <3>2. \A s \in Slots : state'[s] = "none"
      BY <1>5, <2>1 DEF DestructGraph
    <3> QED
      BY <1>5, <3>1, <3>2 DEF DestructGraph
  <2>2. CASE p \in Parts
    <3>1. p # "state"
      BY <2>2, PartsAssumption
    <3>2. \A k \in Parts, s \in Slots :
             part'[k][s] = IF k = p THEN "none" ELSE part[k][s]
      BY <1>5, <3>1 DEF DestructGraph
    <3> QED
      BY <1>5, <2>2, <3>1, <3>2 DEF DestructGraph
  <2> QED
    BY <2>1, <2>2 DEF Pools
<1> QED
  BY <1>1, <1>2, <1>3, <1>4, <1>5 DEF Leave

\* ... and every step of the collector, which destructs states and parts.
LEMMA CollectOwns == OwnInv /\ InPool /\ Collect => Building' /\ Ownership'
<1> SUFFICES ASSUME OwnInv, InPool, Collect PROVE Building' /\ Ownership'
  OBVIOUS
<1> USE DEF OwnInv, TypeOK, Building, Ownership, main
<1>1. CASE EndThread \/ Loop \/ CallNext \/ Return
  BY <1>1 DEF EndThread, Loop, CallNext, Return
<1>2. ASSUME NEW s \in Slots, Visit(s) PROVE Building' /\ Ownership'
  <2>1. CASE UNCHANGED <<state, part>>
    BY <1>2, <2>1 DEF Visit
  <2>2. CASE state' = [state EXCEPT ![s] = "none"] /\ part' = Orphaned(part, {s})
    <3>1. \A k \in Parts, u \in Slots :
             part'[k][u] = IF u = s /\ part[k][u] = "owned" THEN "garbage" ELSE part[k][u]
      BY <2>2 DEF Orphaned
    <3>2. \A u \in Slots : state'[u] = IF u = s THEN "none" ELSE state[u]
      BY <2>2
    <3>3. UNCHANGED <<mpc, building, made, freed>>
      BY <1>2 DEF Visit
    <3>4. Building'
      <4>1. ASSUME NEW k \in made PROVE part'[k][building] = "held"
        <5>1. building \in Slots /\ k \in Parts /\ part[k][building] = "held"
          BY <4>1
        <5> QED
          BY <3>1, <5>1
      <4> QED
        BY <3>2, <3>3, <4>1
    <3>5. Ownership'
      BY <3>1, <3>2, <3>3
    <3> QED
      BY <3>4, <3>5
  <2>3. CASE /\ UNCHANGED state
             /\ Enrolled[index] \in Parts
             /\ part[Enrolled[index]][s] = "garbage"
             /\ part' = [part EXCEPT ![Enrolled[index]][s] = "none"]
    BY <1>2, <2>3 DEF Visit
  <2>4. gpc = "call" /\ Enrolled[index] \in Pools
    BY <1>2, EnrolledType, LengthType DEF Visit, InPool
  <2> QED
    BY <1>2, <2>1, <2>2, <2>3, <2>4 DEF Visit, Collectable, Pools
<1> QED
  BY <1>1, <1>2 DEF Collect

\* A state and its parts live and die together, whatever the two threads do and
\* whichever way the algorithm is left.
THEOREM OwnershipCorrect == Spec => []Ownership
<1>1. Init => Building /\ Ownership
  BY DEF Init, Building, Ownership
<1>2. /\ TypeOK /\ InPool /\ TypeOK'
      /\ Building /\ Ownership
      /\ [Next]_vars
      => Building' /\ Ownership'
  BY AlgorithmOwns, LeaveOwns, CollectOwns
     DEF OwnInv, Next, vars, main, Building, Ownership
<1> QED
  BY <1>1, <1>2, TypeInvariant, PTL DEF Spec

-----------------------------------------------------------------------------
(* The collector is stopped first *)

\* Where the collector is when run() has come to a given point.
Stopped ==
  /\ thread = "running" <=> gpc # "none"
  /\ mpc \in {"start", "free", "unwind", "done"} => thread = "none"
  /\ mpc # "unwind_gc" /\ mpc # "join_gc"
  /\ freed # {} => mpc \in {"unwind", "done"}

\* A step of either thread keeps what a stopped collector means.
LEMMA StoppedStep ==
  ASSUME ~ OutputMayThrow, TypeOK, Stopped, [Next]_vars
  PROVE  Stopped'
<1> USE DEF TypeOK, Stopped
<1>1. CASE Algorithm
  BY <1>1 DEF Algorithm, ConstructPart, ConstructState, DropState, main, collector
<1>2. CASE Start \/ StartThrows \/ AlgorithmThrows \/ AlgorithmReturns \/ Output
  BY <1>2 DEF Start, StartThrows, AlgorithmThrows, AlgorithmReturns, Output, collector
<1>3. CASE SetStop \/ Join \/ FreeAll \/ DestructGc
  BY <1>3 DEF SetStop, Join, FreeAll, DestructGc, collector
<1>4. ASSUME NEW p \in Pools, DestructGraph(p) PROVE Stopped'
  BY <1>4 DEF DestructGraph, collector
<1>5. CASE EndThread \/ Loop \/ CallNext \/ Return
  BY <1>5 DEF EndThread, Loop, CallNext, Return, main
<1>6. ASSUME NEW s \in Slots, Visit(s) PROVE Stopped'
  BY <1>6 DEF Visit, main
<1>7. CASE UNCHANGED vars
  BY <1>7 DEF vars, main, collector
<1> QED
  BY <1>1, <1>2, <1>3, <1>4, <1>5, <1>6, <1>7 DEF Next, Leave, Collect

\* If the code between the algorithm and gc.stop() does not throw, no pool is
\* freed or destructed before the collector has been joined, whichever way the
\* algorithm is left.  TLC refutes it without that assumption.
THEOREM CollectorStoppedFirst ==
  ASSUME ~ OutputMayThrow
  PROVE  Spec => []StoppedBeforeDestruction
<1>1. Init => Stopped
  BY DEF Init, Stopped
<1>2. TypeOK /\ Stopped /\ [Next]_vars => Stopped'
  BY StoppedStep
<1>3. Stopped => StoppedBeforeDestruction
  BY DEF Stopped, StoppedBeforeDestruction
<1> QED
  BY <1>1, <1>2, <1>3, TypeCorrect, PTL DEF Spec
=============================================================================
