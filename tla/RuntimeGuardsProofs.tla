------------------------- MODULE RuntimeGuardsProofs -------------------------
(***************************************************************************)
(* Proofs about the three guards that work of a runtime passes:            *)
(* ConversationLifecycle, for any finite set of operations and any number  *)
(* of admissions; AuxiliaryCalls, for any finite sets of conversations and *)
(* calls and any limits; and DurabilityGate, for any number of ownership   *)
(* tasks and failure reporters.                                            *)
(*                                                                         *)
(* No property of the lifecycle is inductive as it stands.  Quiescence     *)
(* rests on the boundary being held between the zero check and the         *)
(* compare-exchange; the idle claim rests on the loaded total never being  *)
(* below the current one while the boundary is held, because exits only    *)
(* ever lower it.                                                          *)
(***************************************************************************)
EXTENDS ConversationLifecycle, AuxiliaryCalls, DurabilityGate, FiniteSetTheorems, TLAPS
-----------------------------------------------------------------------------
(* The conversation lifecycle.                                              *)

\* Who holds the boundary, in what lifecycle state, and what that preserves.
BoundaryInv ==
    /\ boundary = "prober" <=> probe.step \in {"total", "claim"}
    /\ boundary = "drainer" <=> drainer = "cas"
    /\ boundary \in Ops => state = "Running"
    /\ boundary = "prober" => state = "Running" /\ admissions <= probe.total
    /\ drainer = "cas" => admissions = 0
    /\ drainer \notin {"off", "done"} => state = "Draining"
    /\ drainer = "done" => state = "Quiescent"

\* The change token moves whenever an operation enters, so an unmoved token
\* means an empty ghost.
EpochInv ==
    /\ probe.epoch <= activity
    /\ probe.step \in {"idle", "claim"} /\ activity = probe.epoch => entered = {}

LifecycleInv ==
    /\ TypeOK
    /\ CountsAreExact
    /\ BoundaryInv
    /\ EpochInv
    /\ QuiescentIsSilent

-----------------------------------------------------------------------------
(* What one update of the guards does to the size of a class of guards.    *)

ResidentClass == {"resident"}

Class(g, K) == {x \in Ops : g[x] \in K}

\* A guard that enters a class adds one to its size.
LEMMA ClassGain ==
    ASSUME NEW g \in [Ops -> GuardStates], NEW o \in Ops, NEW K, NEW v \in K,
           g[o] \notin K
    PROVE  Cardinality(Class([g EXCEPT ![o] = v], K)) = Cardinality(Class(g, K)) + 1
<1>1. Class([g EXCEPT ![o] = v], K) = Class(g, K) \cup {o}
  BY DEF Class
<1>2. IsFiniteSet(Class(g, K))
  BY FS_Subset, LifecycleAssumption DEF Class
<1>3. o \notin Class(g, K)
  BY DEF Class
<1> QED
  BY <1>1, <1>2, <1>3, FS_AddElement

\* A guard that leaves a class takes one from its size, which was not zero.
LEMMA ClassLose ==
    ASSUME NEW g \in [Ops -> GuardStates], NEW o \in Ops, NEW K, NEW v,
           g[o] \in K, v \notin K
    PROVE  /\ Cardinality(Class([g EXCEPT ![o] = v], K)) = Cardinality(Class(g, K)) - 1
           /\ Cardinality(Class([g EXCEPT ![o] = v], K)) \in Nat
<1>1. Class([g EXCEPT ![o] = v], K) = Class(g, K) \ {o}
  BY DEF Class
<1>2. IsFiniteSet(Class(g, K))
  BY FS_Subset, LifecycleAssumption DEF Class
<1>3. o \in Class(g, K)
  BY DEF Class
<1>4. IsFiniteSet(Class(g, K) \ {o})
  BY <1>2, FS_RemoveElement
<1> QED
  BY <1>1, <1>2, <1>3, <1>4, FS_RemoveElement, FS_CardinalityType

\* An update inside or outside a class leaves the class as it is.
LEMMA ClassSame ==
    ASSUME NEW g \in [Ops -> GuardStates], NEW o \in Ops, NEW K, NEW v,
           g[o] \in K <=> v \in K
    PROVE  Class([g EXCEPT ![o] = v], K) = Class(g, K)
BY DEF Class

\* The two counted sets are classes, and the resident one is the smaller.
LEMMA CountedClasses ==
    ASSUME TypeOK
    PROVE  /\ CountedOps = Class(guard, Counted)
           /\ ResidentOps = Class(guard, ResidentClass)
           /\ IsFiniteSet(CountedOps)
           /\ IsFiniteSet(ResidentOps)
           /\ ResidentOps \subseteq CountedOps
           /\ Cardinality(CountedOps) \in Nat
           /\ Cardinality(ResidentOps) \in Nat
<1>1. /\ CountedOps = Class(guard, Counted)
      /\ ResidentOps = Class(guard, ResidentClass)
      /\ ResidentOps \subseteq CountedOps
  BY DEF CountedOps, ResidentOps, Class, Counted, ResidentClass
<1>2. IsFiniteSet(CountedOps) /\ IsFiniteSet(ResidentOps)
  BY FS_Subset, LifecycleAssumption DEF CountedOps, ResidentOps
<1> QED
  BY <1>1, <1>2, FS_CardinalityType

-----------------------------------------------------------------------------
(* The counters.                                                           *)

\* Every step keeps both counters equal to the guards they count, and so
\* neither goes below zero.
LEMMA CountsStep ==
    ASSUME TypeOK, CountsAreExact, [Next]_vars
    PROVE  CountsAreExact' /\ admissions' \in Nat /\ residents' \in Nat
<1> DEFINE CO(g) == Cardinality(Class(g, Counted))
           RO(g) == Cardinality(Class(g, ResidentClass))
<1>1. admissions = CO(guard) /\ residents = RO(guard)
  BY CountedClasses DEF CountsAreExact
<1>2. guard \in [Ops -> GuardStates] /\ admissions \in Nat /\ residents \in Nat
  BY DEF TypeOK
<1>3. SUFFICES /\ admissions' = CO(guard') /\ residents' = RO(guard')
               /\ admissions' \in Nat /\ residents' \in Nat
  BY DEF CountsAreExact, CountedOps, ResidentOps, Class, ResidentClass
<1>4. CASE UNCHANGED <<guard, admissions, residents>>
  BY <1>1, <1>2, <1>4
<1>5. ASSUME NEW o \in Ops, Enter(o)
      PROVE  admissions' = CO(guard') /\ residents' = RO(guard')
             /\ admissions' \in Nat /\ residents' \in Nat
  <2>1. /\ guard[o] = "out" /\ guard' = [guard EXCEPT ![o] = "active"]
        /\ admissions' = admissions + 1 /\ residents' = residents
    BY <1>5 DEF Enter, TryEnterRunning, TryEnterPreparation, TryEnterSettlement,
                BeginRunningCommit, Admitted
  <2>2. CO(guard') = CO(guard) + 1
    BY <1>2, <2>1, ClassGain DEF Counted
  <2>3. RO(guard') = RO(guard)
    BY <1>2, <2>1, ClassSame DEF ResidentClass
  <2> QED
    BY <1>1, <1>2, <2>1, <2>2, <2>3
<1>6. ASSUME NEW o \in Ops, IntoResidentResource(o)
      PROVE  admissions' = CO(guard') /\ residents' = RO(guard')
             /\ admissions' \in Nat /\ residents' \in Nat
  <2>1. /\ guard[o] = "active" /\ guard' = [guard EXCEPT ![o] = "resident"]
        /\ admissions' = admissions /\ residents' = residents + 1
    BY <1>6 DEF IntoResidentResource
  <2>2. CO(guard') = CO(guard)
    BY <1>2, <2>1, ClassSame DEF Counted
  <2>3. RO(guard') = RO(guard) + 1
    BY <1>2, <2>1, ClassGain DEF ResidentClass
  <2> QED
    BY <1>1, <1>2, <2>1, <2>2, <2>3
<1>7. ASSUME NEW o \in Ops, DropSubset(o)
      PROVE  admissions' = CO(guard') /\ residents' = RO(guard')
             /\ admissions' \in Nat /\ residents' \in Nat
  <2>1. /\ guard[o] = "resident" /\ guard' = [guard EXCEPT ![o] = "releasing"]
        /\ admissions' = admissions /\ residents' = residents - 1
    BY <1>7 DEF DropSubset
  <2>2. CO(guard') = CO(guard)
    BY <1>2, <2>1, ClassSame DEF Counted
  <2>3. RO(guard') = RO(guard) - 1 /\ RO(guard') \in Nat
    <3>1. guard[o] \in ResidentClass /\ "releasing" \notin ResidentClass
      BY <2>1 DEF ResidentClass
    <3> QED
      BY <1>2, <2>1, <3>1, ClassLose
  <2> QED
    BY <1>1, <1>2, <2>1, <2>2, <2>3
<1>8. ASSUME NEW o \in Ops, DropTotal(o)
      PROVE  admissions' = CO(guard') /\ residents' = RO(guard')
             /\ admissions' \in Nat /\ residents' \in Nat
  <2>1. /\ guard[o] \in {"active", "releasing"}
        /\ guard' = [guard EXCEPT ![o] = "leaving"]
        /\ admissions' = admissions - 1 /\ residents' = residents
    BY <1>8 DEF DropTotal
  <2>2. CO(guard') = CO(guard) - 1 /\ CO(guard') \in Nat
    <3>1. guard[o] \in Counted /\ "leaving" \notin Counted
      BY <2>1 DEF Counted
    <3> QED
      BY <1>2, <2>1, <3>1, ClassLose
  <2>3. RO(guard') = RO(guard)
    <3>1. guard[o] \in ResidentClass <=> "leaving" \in ResidentClass
      BY <2>1 DEF ResidentClass
    <3> QED
      BY <1>2, <2>1, <3>1, ClassSame
  <2> QED
    BY <1>1, <1>2, <2>1, <2>2, <2>3
<1>9. ASSUME NEW o \in Ops, DropNotify(o)
      PROVE  admissions' = CO(guard') /\ residents' = RO(guard')
             /\ admissions' \in Nat /\ residents' \in Nat
  <2>1. /\ guard[o] = "leaving" /\ guard' = [guard EXCEPT ![o] = "out"]
        /\ admissions' = admissions /\ residents' = residents
    BY <1>9 DEF DropNotify
  <2>2. CO(guard') = CO(guard) /\ RO(guard') = RO(guard)
    <3>1. /\ guard[o] \in Counted <=> "out" \in Counted
          /\ guard[o] \in ResidentClass <=> "out" \in ResidentClass
      BY <2>1 DEF Counted, ResidentClass
    <3> QED
      BY <1>2, <2>1, <3>1, ClassSame
  <2> QED
    BY <1>1, <1>2, <2>1, <2>2
<1>10. ASSUME NEW o \in Ops, EndRunningCommit(o)
       PROVE  UNCHANGED <<guard, admissions, residents>>
  BY <1>10 DEF EndRunningCommit
<1>11. CASE Activate \/ BeginDrain \/ BeginInactiveDrain \/ Prober \/ Drainer \/ Closer
            \/ UNCHANGED vars
  <2>1. UNCHANGED <<guard, admissions, residents>>
    BY <1>11 DEF Activate, BeginDrain, BeginInactiveDrain, Transition, Prober,
         IdleEpochLoad, IdleEpochDecide, BeginIdleDrainLoad, BeginIdleDrainDecide,
         Drainer, SpawnDrain, NoAdmissionsCheck, NoAdmissionsRegister,
         NoAdmissionsRecheck, NoAdmissionsAwait, MarkQuiescentLoad, MarkQuiescentSwap,
         Closer, CloserCheck, CloserRegister, CloserRecheck, CloserAwait, CloserRest, vars
  <2> QED
    BY <2>1, <1>4
<1> HIDE DEF CO, RO
<1> QED
  BY <1>4, <1>5, <1>6, <1>7, <1>8, <1>9, <1>10, <1>11 DEF Next, Drop

-----------------------------------------------------------------------------
(* The inductive step of the other conjuncts, one step per actor.          *)

\* Types: the two counters come from CountsStep, the rest is by inspection.
LEMMA TypeStep ==
    ASSUME TypeOK, CountsAreExact, [Next]_vars
    PROVE  TypeOK'
<1>1. admissions' \in Nat /\ residents' \in Nat
  BY CountsStep
<1>2. CASE Activate \/ BeginDrain \/ BeginInactiveDrain
  BY <1>1, <1>2 DEF TypeOK, Activate, BeginDrain, BeginInactiveDrain, Transition,
       Announce, States
<1>3. ASSUME NEW o \in Ops, Enter(o) \/ EndRunningCommit(o)
      PROVE  TypeOK'
  <2>1. CASE Enter(o)
    <3>1. Admitted(o) /\ boundary' \in {boundary, o}
      BY <2>1 DEF Enter, TryEnterRunning, TryEnterPreparation, TryEnterSettlement,
           BeginRunningCommit
    <3> QED
      BY <1>1, <3>1 DEF TypeOK, Admitted, Announce, GuardStates
  <2>2. CASE EndRunningCommit(o)
    BY <2>2 DEF TypeOK, EndRunningCommit
  <2> QED
    BY <1>3, <2>1, <2>2
<1>4. ASSUME NEW o \in Ops, IntoResidentResource(o) \/ Drop(o)
      PROVE  TypeOK'
  BY <1>1, <1>4 DEF TypeOK, IntoResidentResource, Drop, DropSubset, DropTotal,
       DropNotify, Announce, GuardStates
<1>5. CASE Prober
  <2>1. CASE IdleEpochLoad
    BY <1>1, <2>1 DEF TypeOK, Announce, ProbeSteps, States, IdleEpochLoad
  <2>2. CASE IdleEpochDecide
    BY <1>1, <2>2 DEF TypeOK, Announce, ProbeSteps, States, IdleEpochDecide
  <2>3. CASE BeginIdleDrainLoad
    BY <1>1, <2>3 DEF TypeOK, Announce, ProbeSteps, States, BeginIdleDrainLoad
  <2>4. CASE BeginIdleDrainDecide
    BY <1>1, <2>4 DEF TypeOK, Announce, ProbeSteps, States, BeginIdleDrainDecide
  <2> QED
    BY <1>5, <2>1, <2>2, <2>3, <2>4 DEF Prober
<1>6. CASE Drainer
  <2>1. CASE SpawnDrain \/ NoAdmissionsCheck \/ NoAdmissionsRegister
             \/ NoAdmissionsRecheck \/ NoAdmissionsAwait
    BY <2>1 DEF TypeOK, SpawnDrain, NoAdmissionsCheck, NoAdmissionsRegister,
         NoAdmissionsRecheck, NoAdmissionsAwait, DrainSteps, Waiters
  <2>2. CASE MarkQuiescentLoad
    BY <2>2 DEF TypeOK, MarkQuiescentLoad, DrainSteps
  <2>3. CASE MarkQuiescentSwap
    BY <2>3 DEF TypeOK, MarkQuiescentSwap, DrainSteps, States, Announce
  <2> QED
    BY <1>6, <2>1, <2>2, <2>3 DEF Drainer
<1>7. CASE Closer
  BY <1>1, <1>7 DEF TypeOK, Closer, CloserCheck, CloserRegister, CloserRecheck,
       CloserAwait, CloserRest, CloserSteps, Waiters
<1>8. CASE UNCHANGED vars
  BY <1>8 DEF TypeOK, vars
<1> QED
  BY <1>2, <1>3, <1>4, <1>5, <1>6, <1>7, <1>8 DEF Next

\* The boundary changes hands only when it is free, and whoever holds it
\* sees no transition and no entry of anyone else.
LEMMA BoundaryStep ==
    ASSUME TypeOK, TypeOK', CountsAreExact, BoundaryInv, [Next]_vars
    PROVE  BoundaryInv'
<1> USE LifecycleAssumption
<1>1. CASE Activate \/ BeginDrain \/ BeginInactiveDrain
  BY <1>1 DEF TypeOK, BoundaryInv, Activate, BeginDrain, BeginInactiveDrain, Transition
<1>2. ASSUME NEW o \in Ops, Enter(o) \/ EndRunningCommit(o)
      PROVE  BoundaryInv'
  BY <1>2 DEF TypeOK, BoundaryInv, Enter, TryEnterRunning, TryEnterPreparation,
       TryEnterSettlement, BeginRunningCommit, Admitted, EndRunningCommit
<1>3. ASSUME NEW o \in Ops, IntoResidentResource(o) \/ Drop(o)
      PROVE  BoundaryInv'
  BY <1>3 DEF TypeOK, BoundaryInv, IntoResidentResource, Drop, DropSubset, DropTotal,
       DropNotify
<1>4. CASE Prober
  <2>1. CASE IdleEpochLoad
    BY <2>1 DEF TypeOK, BoundaryInv, IdleEpochLoad
  <2>2. CASE IdleEpochDecide
    BY <2>2 DEF TypeOK, BoundaryInv, IdleEpochDecide
  <2>3. CASE BeginIdleDrainLoad
    BY <2>3 DEF TypeOK, BoundaryInv, BeginIdleDrainLoad
  <2>4. CASE BeginIdleDrainDecide
    BY <2>4 DEF TypeOK, BoundaryInv, BeginIdleDrainDecide
  <2> QED
    BY <1>4, <2>1, <2>2, <2>3, <2>4 DEF Prober
<1>5. CASE Drainer
  BY <1>5 DEF TypeOK, BoundaryInv, Drainer, SpawnDrain, NoAdmissionsCheck,
       NoAdmissionsRegister, NoAdmissionsRecheck, NoAdmissionsAwait, MarkQuiescentLoad,
       MarkQuiescentSwap
<1>6. CASE Closer
  BY <1>6 DEF BoundaryInv, Closer, CloserCheck, CloserRegister, CloserRecheck,
       CloserAwait, CloserRest
<1>7. CASE UNCHANGED vars
  BY <1>7 DEF BoundaryInv, vars
<1> QED
  BY <1>1, <1>2, <1>3, <1>4, <1>5, <1>6, <1>7 DEF Next

\* The token only grows, and it grows with every entry.
LEMMA EpochStep ==
    ASSUME TypeOK, EpochInv, [Next]_vars
    PROVE  EpochInv'
<1>1. CASE Activate \/ BeginDrain \/ BeginInactiveDrain
  BY <1>1 DEF EpochInv, Activate, BeginDrain, BeginInactiveDrain, Transition
<1>2. ASSUME NEW o \in Ops, Enter(o) \/ EndRunningCommit(o)
      PROVE  EpochInv'
  BY <1>2 DEF TypeOK, EpochInv, Enter, TryEnterRunning, TryEnterPreparation,
       TryEnterSettlement, BeginRunningCommit, Admitted, EndRunningCommit
<1>3. ASSUME NEW o \in Ops, IntoResidentResource(o) \/ Drop(o)
      PROVE  EpochInv'
  BY <1>3 DEF EpochInv, IntoResidentResource, Drop, DropSubset, DropTotal, DropNotify
<1>4. CASE Prober
  <2>1. CASE IdleEpochLoad
    BY <2>1 DEF TypeOK, EpochInv, IdleEpochLoad
  <2>2. CASE IdleEpochDecide
    <3>1. CASE probe.total = residents
      <4>1. probe'.epoch = activity /\ activity' = activity /\ entered' = {}
        BY <2>2, <3>1 DEF TypeOK, IdleEpochDecide
      <4> QED
        BY <4>1 DEF TypeOK, EpochInv
    <3>2. CASE probe.total # residents
      <4>1. probe'.epoch = probe.epoch /\ probe'.step = "off" /\ activity' = activity
        BY <2>2, <3>2 DEF TypeOK, IdleEpochDecide
      <4> QED
        BY <4>1 DEF EpochInv
    <3> QED
      BY <3>1, <3>2
  <2>3. CASE BeginIdleDrainLoad
    BY <2>3 DEF TypeOK, EpochInv, BeginIdleDrainLoad
  <2>4. CASE BeginIdleDrainDecide
    BY <2>4 DEF TypeOK, EpochInv, BeginIdleDrainDecide
  <2> QED
    BY <1>4, <2>1, <2>2, <2>3, <2>4 DEF Prober
<1>5. CASE Drainer
  BY <1>5 DEF EpochInv, Drainer, SpawnDrain, NoAdmissionsCheck, NoAdmissionsRegister,
       NoAdmissionsRecheck, NoAdmissionsAwait, MarkQuiescentLoad, MarkQuiescentSwap
<1>6. CASE Closer
  BY <1>6 DEF EpochInv, Closer, CloserCheck, CloserRegister, CloserRecheck,
       CloserAwait, CloserRest
<1>7. CASE UNCHANGED vars
  BY <1>7 DEF EpochInv, vars
<1> QED
  BY <1>1, <1>2, <1>3, <1>4, <1>5, <1>6, <1>7 DEF Next

\* Quiescent is published from a zero count read under the boundary, and no
\* guard becomes counted in that state.
LEMMA SilenceStep ==
    ASSUME TypeOK, CountsAreExact, BoundaryInv, QuiescentIsSilent, [Next]_vars
    PROVE  QuiescentIsSilent'
<1>1. CASE MarkQuiescentSwap
  <2>1. admissions = 0 /\ guard' = guard
    BY <1>1 DEF MarkQuiescentSwap, BoundaryInv
  <2>2. CountedOps = {}
    BY <2>1, CountedClasses, FS_EmptySet DEF CountsAreExact
  <2> QED
    BY <2>1, <2>2 DEF QuiescentIsSilent, CountedOps
<1>2. CASE Activate \/ BeginDrain \/ BeginInactiveDrain
  BY <1>2 DEF QuiescentIsSilent, Activate, BeginDrain, BeginInactiveDrain, Transition
<1>3. ASSUME NEW o \in Ops, Enter(o)
      PROVE  QuiescentIsSilent'
  BY <1>3 DEF QuiescentIsSilent, Enter, TryEnterRunning, TryEnterPreparation,
       TryEnterSettlement, BeginRunningCommit, Admitted
<1>4. ASSUME NEW o \in Ops, EndRunningCommit(o)
      PROVE  QuiescentIsSilent'
  BY <1>4 DEF QuiescentIsSilent, EndRunningCommit, CountedOps
<1>5. ASSUME NEW o \in Ops, IntoResidentResource(o) \/ Drop(o)
      PROVE  QuiescentIsSilent'
  BY <1>5 DEF QuiescentIsSilent, TypeOK, CountedOps, Counted, IntoResidentResource,
       Drop, DropSubset, DropTotal, DropNotify
<1>6. CASE Prober
  BY <1>6 DEF QuiescentIsSilent, CountedOps, Prober, IdleEpochLoad, IdleEpochDecide,
       BeginIdleDrainLoad, BeginIdleDrainDecide
<1>7. CASE SpawnDrain \/ NoAdmissionsCheck \/ NoAdmissionsRegister
           \/ NoAdmissionsRecheck \/ NoAdmissionsAwait \/ MarkQuiescentLoad
  BY <1>7 DEF QuiescentIsSilent, CountedOps, SpawnDrain, NoAdmissionsCheck,
       NoAdmissionsRegister, NoAdmissionsRecheck, NoAdmissionsAwait, MarkQuiescentLoad
<1>8. CASE Closer
  BY <1>8 DEF QuiescentIsSilent, CountedOps, Closer, CloserCheck, CloserRegister,
       CloserRecheck, CloserAwait, CloserRest
<1>9. CASE UNCHANGED vars
  BY <1>9 DEF QuiescentIsSilent, CountedOps, vars
<1> QED
  BY <1>1, <1>2, <1>3, <1>4, <1>5, <1>6, <1>7, <1>8, <1>9 DEF Next, Drainer

-----------------------------------------------------------------------------
(* The theorems.                                                           *)

\* The strengthened invariant holds of every reachable state.
THEOREM LifecycleInvariant == Spec => []LifecycleInv
<1>1. Init => LifecycleInv
  <2> SUFFICES ASSUME Init PROVE LifecycleInv
    OBVIOUS
  <2>1. TypeOK
    BY DEF Init, TypeOK, States, GuardStates, ProbeSteps, DrainSteps, CloserSteps, Waiters
  <2>2. CountedOps = {} /\ ResidentOps = {}
    BY DEF Init, CountedOps, ResidentOps, Counted
  <2>3. CountsAreExact
    BY <2>2, FS_EmptySet DEF Init, CountsAreExact
  <2>4. BoundaryInv /\ EpochInv /\ QuiescentIsSilent
    BY LifecycleAssumption DEF Init, BoundaryInv, EpochInv, QuiescentIsSilent
  <2> QED
    BY <2>1, <2>3, <2>4 DEF LifecycleInv
<1>2. LifecycleInv /\ [Next]_vars => LifecycleInv'
  BY TypeStep, CountsStep, BoundaryStep, EpochStep, SilenceStep DEF LifecycleInv
<1> QED
  BY <1>1, <1>2, PTL DEF Spec

\* Every variable keeps its type: in particular neither counter of
\* LifecycleInner underflows, whatever the order of the drops.
THEOREM LifecycleTyped == Spec => []TypeOK
<1>1. LifecycleInv => TypeOK
  BY DEF LifecycleInv
<1> QED
  BY <1>1, LifecycleInvariant, PTL

\* The counters are exact at every instant, for any number of operations.
THEOREM CountersExact == Spec => []CountsAreExact
<1>1. LifecycleInv => CountsAreExact
  BY DEF LifecycleInv
<1> QED
  BY <1>1, LifecycleInvariant, PTL

\* Quiescent is published over no counted admission, and none enters later.
THEOREM QuiescenceSafe == Spec => []QuiescentIsSilent
<1>1. LifecycleInv => QuiescentIsSilent
  BY DEF LifecycleInv
<1> QED
  BY <1>1, LifecycleInvariant, PTL

\* The drain transition never falls inside a semantic commit.
THEOREM CommitsBeforeDrain == Spec => []CommitsPrecedeDrain
<1>1. LifecycleInv => CommitsPrecedeDrain
  BY DEF LifecycleInv, BoundaryInv, CommitsPrecedeDrain
<1> QED
  BY <1>1, LifecycleInvariant, PTL

\* When the two loads of a probe agree while it holds the boundary, no
\* operation is active at the second load.
LEMMA EqualLoadsMeanIdle ==
    ASSUME LifecycleInv, boundary = "prober", probe.total = residents
    PROVE  ActiveOps = {}
<1>1. residents <= admissions
  BY CountedClasses, FS_Subset DEF LifecycleInv, CountsAreExact
<1>2. admissions <= residents
  BY DEF LifecycleInv, BoundaryInv
<1>3. admissions = residents
  BY <1>1, <1>2 DEF LifecycleInv, TypeOK
<1>4. CountedOps = ResidentOps
  BY <1>3, CountedClasses, FS_Subset DEF LifecycleInv, CountsAreExact
<1> QED
  BY <1>4 DEF ActiveOps, CountedOps, ResidentOps, Counted

\* An idle claim that wins closes admission over no active operation and
\* over nothing that entered since its probe.
THEOREM IdleClaimSafe == Spec => IdleClaimIsExclusive
<1> DEFINE Claim == (probe.step = "claim" /\ state' # state) => ActiveOps = {} /\ entered = {}
<1>1. LifecycleInv /\ [Next]_vars => [Claim]_vars
  <2> SUFFICES ASSUME LifecycleInv, Next, probe.step = "claim", state' # state
               PROVE  ActiveOps = {} /\ entered = {}
    BY DEF vars
  <2>1. boundary = "prober" /\ state = "Running"
    BY DEF LifecycleInv, BoundaryInv
  <2>2. BeginIdleDrainDecide
    BY <2>1, LifecycleAssumption DEF LifecycleInv, BoundaryInv, Next, Activate, BeginDrain,
         BeginInactiveDrain,
         Transition, Enter, TryEnterRunning, TryEnterPreparation, TryEnterSettlement,
         BeginRunningCommit, Admitted, EndRunningCommit, IntoResidentResource, Drop,
         DropSubset, DropTotal, DropNotify, Prober, IdleEpochLoad, IdleEpochDecide,
         BeginIdleDrainLoad, Drainer, SpawnDrain, NoAdmissionsCheck,
         NoAdmissionsRegister, NoAdmissionsRecheck, NoAdmissionsAwait,
         MarkQuiescentLoad, MarkQuiescentSwap, Closer, CloserCheck, CloserRegister,
         CloserRecheck, CloserAwait, CloserRest
  <2>3. probe.total = residents /\ activity = probe.epoch
    BY <2>2 DEF BeginIdleDrainDecide
  <2>4. ActiveOps = {}
    BY <2>1, <2>3, EqualLoadsMeanIdle
  <2>5. entered = {}
    BY <2>3 DEF LifecycleInv, EpochInv
  <2> QED
    BY <2>4, <2>5
<1> QED
  BY <1>1, LifecycleInvariant, PTL DEF Spec, IdleClaimIsExclusive

\* The lifecycle only ever moves along its four edges.
THEOREM LifecycleForward == Spec => LifecycleIsMonotone
<1> DEFINE Edge == state' # state =>
          <<state, state'>> \in {<<"Inactive", "Running">>, <<"Inactive", "Draining">>,
                                 <<"Running", "Draining">>, <<"Draining", "Quiescent">>}
<1>1. LifecycleInv /\ [Next]_vars => [Edge]_vars
  <2> SUFFICES ASSUME LifecycleInv, Next, state' # state
               PROVE  Edge
    BY DEF vars
  <2>1. CASE Activate \/ BeginDrain \/ BeginInactiveDrain
    BY <2>1 DEF Activate, BeginDrain, BeginInactiveDrain, Transition
  <2>2. CASE BeginIdleDrainDecide
    BY <2>2 DEF BeginIdleDrainDecide, LifecycleInv, BoundaryInv
  <2>3. CASE MarkQuiescentSwap
    BY <2>3 DEF MarkQuiescentSwap
  <2> QED
    BY <2>1, <2>2, <2>3 DEF Next, Enter, TryEnterRunning, TryEnterPreparation,
         TryEnterSettlement, BeginRunningCommit, Admitted, EndRunningCommit,
         IntoResidentResource, Drop, DropSubset, DropTotal, DropNotify, Prober,
         IdleEpochLoad, IdleEpochDecide, BeginIdleDrainLoad, Drainer, SpawnDrain,
         NoAdmissionsCheck, NoAdmissionsRegister, NoAdmissionsRecheck,
         NoAdmissionsAwait, MarkQuiescentLoad, Closer, CloserCheck, CloserRegister,
         CloserRecheck, CloserAwait, CloserRest
<1> QED
  BY <1>1, LifecycleInvariant, PTL DEF Spec, LifecycleIsMonotone

\* What a drain rests on holds for any set of operations: the counters of
\* LifecycleAdmission are exact, Quiescent is silent and no running commit is
\* overtaken (types.rs 169-200, 411-440, 544-600).
THEOREM AdmissionSafe == Spec => []AdmissionIsSafe
  BY CountersExact, QuiescenceSafe, CommitsBeforeDrain, PTL DEF AdmissionIsSafe

-----------------------------------------------------------------------------
(* Auxiliary calls.                                                         *)
\* where a call is inside the commit boundary, has all its permits, is
\* registered, and may hold a permit at all
InCommit == {"locking", "taking", "rollback", "registering", "unwinding"}
Granted == {"registering", "reserved", "submitted", "exited"}
Registered == {"reserved", "submitted", "exited", "releasing", "retiring"}
Holding == Granted \cup {"taking", "rollback", "unwinding", "releasing"}

\* The mutex of the process says who takes permits or gives them back refused.
MutexInv == \A c \in Calls : mutex = c <=> pc[c] \in {"taking", "rollback"}

\* The commit boundary says who is being admitted, and it is free once the
\* lifecycle has left Running.
CommitInv ==
    /\ \A c \in Calls : commit[Home(c)] = c <=> pc[c] \in InCommit
    /\ \A k \in Conversations : ~running[k] => commit[k] = None

\* The registry, the scope and the lifecycle count exactly the calls that have
\* reached them and have not left.
RegistryInv ==
    \A c \in Calls :
        /\ c \in admitted <=> pc[c] \in InCommit \cup (Registered \ {"retiring"})
        /\ c \in calls <=> pc[c] \in Registered
        /\ c \in children <=> pc[c] \in Registered \cup {"unscoping"}

\* What a call holds at each place.
HeldInv ==
    \A c \in Calls :
        /\ pc[c] \notin Holding => held[c] = {}
        /\ pc[c] = "taking" => held[c] \subseteq Needs(c) /\ held[c] # Needs(c)
        /\ pc[c] \in Granted => held[c] = Needs(c) \cup {"wake"}

\* A drain closes the registry, and what it has waited for does not come back.
DrainInv ==
    \A k \in Conversations :
        /\ closed[k] => ~running[k]
        /\ drain[k] # "off" => closed[k]
        /\ drain[k] = "returned" => \A c \in calls : Home(c) # k

\* Whoever waits for its scope has closed it, and what it has waited for does
\* not come back.
ScopeInv ==
    \A c \in Calls :
        /\ scope[c] # "open" => c \in cancelled
        /\ scope[c] = "returned" => c \notin children

AuxInv == AuxTypeOK /\ MutexInv /\ CommitInv /\ RegistryInv /\ HeldInv /\ DrainInv /\ ScopeInv

-----------------------------------------------------------------------------
(* The order in which permits are taken and given back.                     *)

LEMMA PlaceValue ==
    /\ Place("process_total") = 1 /\ Place("process_general") = 2
    /\ Place("conversation_total") = 3 /\ Place("conversation_general") = 4
    /\ Place("writer") = 5
<1>1. /\ TakeOrder[1] = "process_total" /\ TakeOrder[2] = "process_general"
      /\ TakeOrder[3] = "conversation_total" /\ TakeOrder[4] = "conversation_general"
      /\ TakeOrder[5] = "writer"
  BY DEF TakeOrder
<1>2. ASSUME NEW d, NEW n \in 1..5, TakeOrder[n] = d
      PROVE  Place(d) \in 1..5 /\ TakeOrder[Place(d)] = d
  BY <1>2 DEF Place
<1>3. \A m \in 1..5 : m = 1 \/ m = 2 \/ m = 3 \/ m = 4 \/ m = 5
  OBVIOUS
<1> QED
  BY <1>1, <1>2, <1>3

\* First and Last choose a member of any set of permits that is not empty.
LEMMA FirstIsMember ==
    ASSUME NEW S \in SUBSET Domains, S # {}
    PROVE  First(S) \in S
<1>1. \E d \in S : \A e \in S : Place(d) <= Place(e)
  <2>1. \A e \in S : Place(e) \in 1..5
    BY PlaceValue DEF Domains
  <2>2. CASE "process_total" \in S
    BY <2>1, <2>2, PlaceValue
  <2>3. CASE "process_total" \notin S /\ "process_general" \in S
    BY <2>3, PlaceValue DEF Domains
  <2>4. CASE S \cap {"process_total", "process_general"} = {} /\ "conversation_total" \in S
    BY <2>4, PlaceValue DEF Domains
  <2>5. CASE S \subseteq {"conversation_general", "writer"} /\ "conversation_general" \in S
    BY <2>5, PlaceValue
  <2>6. CASE S = {"writer"}
    BY <2>6, PlaceValue
  <2> QED
    BY <2>2, <2>3, <2>4, <2>5, <2>6 DEF Domains
<1> QED
  BY <1>1 DEF First

LEMMA NeedsOf ==
    ASSUME AuxTypeOK, NEW c \in Calls
    PROVE  Needs(c) \subseteq Domains /\ Needs(c) # {} /\ Home(c) \in Conversations
BY DEF AuxTypeOK, Needs, Domains, GeneralOnly, Home

\* A step of the reservation takes one permit that is needed and free; the last
\* one comes with the announcement and ends it.
LEMMA TakeTakes ==
    ASSUME AuxTypeOK, HeldInv, NEW c \in Calls, Take(c)
    PROVE  \E d \in Needs(c) \ held[c] :
              /\ Free(c, d)
              /\ \/ /\ Needs(c) \ held[c] = {d}
                    /\ held' = [held EXCEPT ![c] = @ \cup {d, "wake"}]
                    /\ mutex' = None
                    /\ pc' = [pc EXCEPT ![c] = "registering"]
                 \/ /\ Needs(c) \ held[c] # {d}
                    /\ held' = [held EXCEPT ![c] = @ \cup {d}]
                    /\ UNCHANGED <<mutex, pc>>
<1> DEFINE S == Needs(c) \ held[c]
<1>1. pc[c] = "taking"
  BY DEF Take
<1>2. S # {} /\ S \in SUBSET Domains
  BY <1>1, NeedsOf DEF HeldInv
<1>3. First(S) \in S
  BY <1>2, FirstIsMember
<1> QED
  BY <1>3 DEF Take, Goto

-----------------------------------------------------------------------------
LEMMA AuxInit == AuxInitial => AuxInv
<1> SUFFICES ASSUME AuxInitial PROVE AuxInv
  OBVIOUS
<1>1. AuxTypeOK
  BY DEF AuxInitial, AuxTypeOK, PCs
<1>2. MutexInv /\ CommitInv /\ RegistryInv /\ HeldInv /\ DrainInv /\ ScopeInv
  BY <1>1, CapacityAssumption, NeedsOf
     DEF AuxInitial, MutexInv, CommitInv, RegistryInv, HeldInv, DrainInv, ScopeInv, InCommit, Granted,
         Registered, Holding
<1> QED
  BY <1>1, <1>2 DEF AuxInv

\* Each action of a call keeps the types; what it holds changes by fields that
\* it holds or needs.
LEMMA AuxTypeStep ==
    ASSUME AuxInv, [AuxNext]_auxVars
    PROVE  AuxTypeOK'
<1> AuxTypeOK /\ HeldInv
  BY DEF AuxInv
<1> USE CapacityAssumption DEF AuxTypeOK, PCs, Goto, control, registry
<1>1. ASSUME NEW c \in Calls, Subscribe(c)
      PROVE  AuxTypeOK'
  BY <1>1, NeedsOf DEF Subscribe
<1>2. ASSUME NEW c \in Calls, GiveUp(c)
      PROVE  AuxTypeOK'
  BY <1>2, NeedsOf DEF GiveUp
<1>3. ASSUME NEW c \in Calls, AdmissionClosed(c)
      PROVE  AuxTypeOK'
  BY <1>3, NeedsOf DEF AdmissionClosed
<1>4. ASSUME NEW c \in Calls, EnterCommit(c)
      PROVE  AuxTypeOK'
  BY <1>4, NeedsOf DEF EnterCommit
<1>5. ASSUME NEW c \in Calls, RefusedClosed(c)
      PROVE  AuxTypeOK'
  BY <1>5, NeedsOf DEF RefusedClosed
<1>6. ASSUME NEW c \in Calls, RefusedLifecycleBusy(c)
      PROVE  AuxTypeOK'
  BY <1>6, NeedsOf DEF RefusedLifecycleBusy
<1>7. ASSUME NEW c \in Calls, CommitAvailable(c)
      PROVE  AuxTypeOK'
  BY <1>7, NeedsOf DEF CommitAvailable
<1>8. ASSUME NEW c \in Calls, LockReservation(c)
      PROVE  AuxTypeOK'
  BY <1>8, NeedsOf DEF LockReservation
<1>9. ASSUME NEW c \in Calls, Refuse(c)
      PROVE  AuxTypeOK'
  BY <1>9, NeedsOf DEF Refuse
<1>10. ASSUME NEW c \in Calls, Rollback(c)
      PROVE  AuxTypeOK'
  BY <1>10, NeedsOf DEF Rollback
<1>11. ASSUME NEW c \in Calls, RolledBack(c)
      PROVE  AuxTypeOK'
  BY <1>11, NeedsOf DEF RolledBack, LeaveCommit
<1>12. ASSUME NEW c \in Calls, CapacityChanged(c)
      PROVE  AuxTypeOK'
  BY <1>12, NeedsOf DEF CapacityChanged
<1>13. ASSUME NEW c \in Calls, RegisterCall(c)
      PROVE  AuxTypeOK'
  <2>1. CASE c \in cancelled \/ closed[Home(c)]
    BY <1>13, <2>1 DEF RegisterCall
  <2>2. CASE ~(c \in cancelled \/ closed[Home(c)])
    <3>1. /\ pc' = [pc EXCEPT ![c] = "reserved"] /\ commit' = [commit EXCEPT ![Home(c)] = None]
          /\ children' = children \cup {c} /\ calls' = calls \cup {c}
          /\ UNCHANGED <<kind, held, mutex, control, admitted, cancelled, dirty>>
      BY <1>13, <2>2 DEF RegisterCall
    <3> QED
      BY <3>1, NeedsOf
  <2> QED
    BY <2>1, <2>2
<1>14. ASSUME NEW c \in Calls, Abandon(c)
      PROVE  AuxTypeOK'
  BY <1>14, NeedsOf DEF Abandon
<1>15. ASSUME NEW c \in Calls, Submit(c)
      PROVE  AuxTypeOK'
  BY <1>15, NeedsOf DEF Submit
<1>16. ASSUME NEW c \in Calls, OwnerExits(c)
      PROVE  AuxTypeOK'
  BY <1>16, NeedsOf DEF OwnerExits
<1>17. ASSUME NEW c \in Calls, Reap(c)
      PROVE  AuxTypeOK'
  BY <1>17, NeedsOf DEF Reap
<1>18. ASSUME NEW c \in Calls, Release(c)
      PROVE  AuxTypeOK'
  <2>1. held' \in [Calls -> SUBSET (Domains \cup {"wake"})]
    BY <1>18 DEF Release
  <2>2. dirty' \subseteq Calls
    BY <1>18 DEF Release, Subscribers
  <2> QED
    BY <1>18, <2>1, <2>2 DEF Release
<1>19. ASSUME NEW c \in Calls, Unwound(c)
      PROVE  AuxTypeOK'
  BY <1>19, NeedsOf DEF Unwound, LeaveCommit
<1>20. ASSUME NEW c \in Calls, DropAdmission(c)
      PROVE  AuxTypeOK'
  BY <1>20, NeedsOf DEF DropAdmission
<1>21. ASSUME NEW c \in Calls, RetireCall(c)
      PROVE  AuxTypeOK'
  BY <1>21, NeedsOf DEF RetireCall
<1>22. ASSUME NEW c \in Calls, RetireChild(c)
      PROVE  AuxTypeOK'
  BY <1>22, NeedsOf DEF RetireChild
<1>23. ASSUME NEW c \in Calls, CloseScope(c)
      PROVE  AuxTypeOK'
  BY <1>23, NeedsOf DEF CloseScope
<1>24. ASSUME NEW c \in Calls, ScopeClosed(c)
      PROVE  AuxTypeOK'
  BY <1>24, NeedsOf DEF ScopeClosed
<1>25. ASSUME NEW k \in Conversations, BeginConversationDrain(k)
      PROVE  AuxTypeOK'
  BY <1>25 DEF BeginConversationDrain
<1>26. ASSUME NEW k \in Conversations, CloseRegistry(k)
      PROVE  AuxTypeOK'
  BY <1>26 DEF CloseRegistry
<1>27. ASSUME NEW k \in Conversations, Drained(k)
      PROVE  AuxTypeOK'
  BY <1>27 DEF Drained
<1>28. ASSUME NEW c \in Calls, Take(c)
      PROVE  AuxTypeOK'
  <2>1. PICK d \in Needs(c) \ held[c] :
            /\ held'[c] \subseteq held[c] \cup {d, "wake"}
            /\ held' = [held EXCEPT ![c] = held'[c]]
            /\ mutex' \in {None, mutex}
            /\ pc' = [pc EXCEPT ![c] = pc'[c]] /\ pc'[c] \in {pc[c], "registering"}
    <3>1. PICK d \in Needs(c) \ held[c] :
              \/ /\ held' = [held EXCEPT ![c] = @ \cup {d, "wake"}]
                 /\ mutex' = None
                 /\ pc' = [pc EXCEPT ![c] = "registering"]
              \/ /\ held' = [held EXCEPT ![c] = @ \cup {d}]
                 /\ UNCHANGED <<mutex, pc>>
      BY <1>28, TakeTakes
    <3> QED
      BY <3>1
  <2>2. d \in Domains
    BY NeedsOf
  <2>3. UNCHANGED <<kind, commit, control, registry, cancelled, dirty>>
    BY <1>28 DEF Take
  <2> QED
    BY <2>1, <2>2, <2>3
<1>29. CASE UNCHANGED auxVars
  BY <1>29 DEF auxVars
<1> QED
  BY <1>1, <1>2, <1>3, <1>4, <1>5, <1>6, <1>7, <1>8, <1>9, <1>10, <1>11, <1>12, <1>13, <1>14, <1>15, <1>16, <1>17, <1>18, <1>19, <1>20, <1>21, <1>22, <1>23, <1>24, <1>25, <1>26, <1>27, <1>28, <1>29
     DEF AuxNext, Admission, Life, Settled

\* Nothing changes whose call it is or what it needs.
LEMMA KindIsFixed ==
    ASSUME [AuxNext]_auxVars
    PROVE  /\ kind' = kind
           /\ \A c : Home(c)' = Home(c) /\ Needs(c)' = Needs(c)
<1>1. kind' = kind
  BY DEF AuxNext, auxVars, Settled, Admission, Life, Subscribe, GiveUp, AdmissionClosed, EnterCommit,
         RefusedClosed, RefusedLifecycleBusy, CommitAvailable, LockReservation, Take, Refuse,
         Rollback, RolledBack, CapacityChanged, RegisterCall, Abandon, Submit, OwnerExits, Reap,
         Release, Unwound, DropAdmission, RetireCall, RetireChild, CloseScope, ScopeClosed,
         BeginConversationDrain, CloseRegistry, Drained
<1> QED
  BY <1>1 DEF Home, Needs

\* Each action keeps the ownership of the mutex, of the boundary, of the
\* registry and of the permits consistent with where the calls stand.
LEMMA AuxStep ==
    ASSUME AuxInv, [AuxNext]_auxVars
    PROVE  MutexInv' /\ CommitInv' /\ RegistryInv' /\ HeldInv' /\ DrainInv'
<1> DEFINE Goal == MutexInv' /\ CommitInv' /\ RegistryInv' /\ HeldInv' /\ DrainInv'
<1> USE CapacityAssumption
    DEF AuxTypeOK, PCs, MutexInv, CommitInv, RegistryInv, HeldInv, DrainInv, InCommit, Granted,
        Registered, Holding, Goto, control, registry
<1> AuxInv /\ AuxTypeOK /\ MutexInv /\ CommitInv /\ RegistryInv /\ HeldInv /\ DrainInv
  BY DEF AuxInv
<1>a. /\ \A c : Home(c)' = Home(c) /\ Needs(c)' = Needs(c)
      /\ \A c \in Calls : Home(c) \in Conversations
  BY KindIsFixed, NeedsOf
<1>1. ASSUME NEW c \in Calls, Subscribe(c)
      PROVE  Goal
  BY <1>1, <1>a DEF Subscribe
<1>2. ASSUME NEW c \in Calls, GiveUp(c)
      PROVE  Goal
  BY <1>2, <1>a DEF GiveUp
<1>3. ASSUME NEW c \in Calls, AdmissionClosed(c)
      PROVE  Goal
  BY <1>3, <1>a DEF AdmissionClosed
<1>4. ASSUME NEW c \in Calls, EnterCommit(c)
      PROVE  Goal
  BY <1>4, <1>a DEF EnterCommit
<1>5. ASSUME NEW c \in Calls, RefusedClosed(c)
      PROVE  Goal
  BY <1>5, <1>a DEF RefusedClosed
<1>6. ASSUME NEW c \in Calls, RefusedLifecycleBusy(c)
      PROVE  Goal
  BY <1>6, <1>a DEF RefusedLifecycleBusy
<1>7. ASSUME NEW c \in Calls, CommitAvailable(c)
      PROVE  Goal
  BY <1>7, <1>a DEF CommitAvailable
<1>8. ASSUME NEW c \in Calls, LockReservation(c)
      PROVE  Goal
  <2>1. held[c] = {} /\ Needs(c) # {}
    BY <1>8, NeedsOf DEF LockReservation
  <2>2. MutexInv' /\ CommitInv' /\ RegistryInv' /\ DrainInv'
    BY <1>8, <1>a DEF LockReservation
  <2>3. HeldInv'
    BY <1>8, <1>a, <2>1 DEF LockReservation
  <2> QED
    BY <2>2, <2>3
<1>9. ASSUME NEW c \in Calls, Refuse(c)
      PROVE  Goal
  BY <1>9, <1>a DEF Refuse
<1>10. ASSUME NEW c \in Calls, Rollback(c)
      PROVE  Goal
  BY <1>10, <1>a DEF Rollback
<1>11. ASSUME NEW c \in Calls, RolledBack(c)
      PROVE  Goal
  BY <1>11, <1>a DEF RolledBack, LeaveCommit
<1>12. ASSUME NEW c \in Calls, CapacityChanged(c)
      PROVE  Goal
  BY <1>12, <1>a DEF CapacityChanged
<1>13. ASSUME NEW c \in Calls, RegisterCall(c)
      PROVE  Goal
  <2>1. CASE c \in cancelled \/ closed[Home(c)]
    <3>1. /\ pc[c] = "registering" /\ pc' = [pc EXCEPT ![c] = "unwinding"]
          /\ UNCHANGED <<held, mutex, commit, control, registry>>
      BY <1>13, <2>1 DEF RegisterCall
    <3> QED
      BY <3>1, <1>a
  <2>2. CASE ~(c \in cancelled \/ closed[Home(c)])
    <3>1. /\ pc[c] = "registering" /\ pc' = [pc EXCEPT ![c] = "reserved"]
          /\ commit' = [commit EXCEPT ![Home(c)] = None]
          /\ children' = children \cup {c} /\ calls' = calls \cup {c}
          /\ UNCHANGED <<held, mutex, admitted, control>>
      BY <1>13, <2>2 DEF RegisterCall
    <3>2. MutexInv' /\ CommitInv' /\ RegistryInv'
      BY <3>1, <1>a
    <3>3. HeldInv' /\ DrainInv'
      BY <3>1, <1>a, <2>2
    <3> QED
      BY <3>2, <3>3
  <2> QED
    BY <2>1, <2>2
<1>14. ASSUME NEW c \in Calls, Abandon(c)
      PROVE  Goal
  BY <1>14, <1>a DEF Abandon
<1>15. ASSUME NEW c \in Calls, Submit(c)
      PROVE  Goal
  BY <1>15, <1>a DEF Submit
<1>16. ASSUME NEW c \in Calls, OwnerExits(c)
      PROVE  Goal
  BY <1>16, <1>a DEF OwnerExits
<1>17. ASSUME NEW c \in Calls, Reap(c)
      PROVE  Goal
  BY <1>17, <1>a DEF Reap
<1>18. ASSUME NEW c \in Calls, Release(c)
      PROVE  Goal
  BY <1>18, <1>a DEF Release
<1>19. ASSUME NEW c \in Calls, Unwound(c)
      PROVE  Goal
  BY <1>19, <1>a DEF Unwound, LeaveCommit
<1>20. ASSUME NEW c \in Calls, DropAdmission(c)
      PROVE  Goal
  BY <1>20, <1>a DEF DropAdmission
<1>21. ASSUME NEW c \in Calls, RetireCall(c)
      PROVE  Goal
  BY <1>21, <1>a DEF RetireCall
<1>22. ASSUME NEW c \in Calls, RetireChild(c)
      PROVE  Goal
  BY <1>22, <1>a DEF RetireChild
<1>23. ASSUME NEW c \in Calls, CloseScope(c) \/ ScopeClosed(c)
      PROVE  Goal
  BY <1>23, <1>a DEF CloseScope, ScopeClosed
<1>24. ASSUME NEW k \in Conversations, BeginConversationDrain(k)
      PROVE  Goal
  BY <1>24, <1>a DEF BeginConversationDrain
<1>25. ASSUME NEW k \in Conversations, CloseRegistry(k)
      PROVE  Goal
  BY <1>25, <1>a DEF CloseRegistry
<1>26. ASSUME NEW k \in Conversations, Drained(k)
      PROVE  Goal
  BY <1>26, <1>a DEF Drained
<1>27. ASSUME NEW c \in Calls, Take(c)
      PROVE  Goal
  <2>1. pc[c] = "taking" /\ UNCHANGED <<kind, commit, control, registry, cancelled, dirty>>
    BY <1>27 DEF Take
  <2>2. PICK d \in Needs(c) \ held[c] :
              \/ /\ Needs(c) \ held[c] = {d}
                 /\ held' = [held EXCEPT ![c] = @ \cup {d, "wake"}]
                 /\ mutex' = None
                 /\ pc' = [pc EXCEPT ![c] = "registering"]
              \/ /\ Needs(c) \ held[c] # {d}
                 /\ held' = [held EXCEPT ![c] = @ \cup {d}]
                 /\ UNCHANGED <<mutex, pc>>
    <3> HIDE DEF AuxTypeOK, PCs, MutexInv, CommitInv, RegistryInv, HeldInv, DrainInv, InCommit, Granted,
                 Registered, Holding, Goto, control, registry
    <3> QED
      BY <1>27, TakeTakes
  <2>3. CASE Needs(c) \ held[c] = {d}
    <3>1. /\ held' = [held EXCEPT ![c] = @ \cup {d, "wake"}] /\ mutex' = None
          /\ pc' = [pc EXCEPT ![c] = "registering"]
      BY <2>2, <2>3
    <3>2. MutexInv' /\ CommitInv' /\ RegistryInv' /\ DrainInv'
      BY <1>a, <2>1, <3>1
    <3>3. HeldInv'
      BY <1>a, <2>1, <2>3, <3>1
    <3> QED
      BY <3>2, <3>3
  <2>4. CASE Needs(c) \ held[c] # {d}
    <3>1. held' = [held EXCEPT ![c] = @ \cup {d}] /\ UNCHANGED <<mutex, pc>>
      BY <2>2, <2>4
    <3>2. MutexInv' /\ CommitInv' /\ RegistryInv' /\ DrainInv'
      BY <1>a, <2>1, <3>1
    <3>3. HeldInv'
      BY <1>a, <2>1, <2>2, <2>4, <3>1
    <3> QED
      BY <3>2, <3>3
  <2> QED
    BY <2>3, <2>4
<1>28. CASE UNCHANGED auxVars
  BY <1>28, <1>a DEF auxVars
<1> HIDE DEF AuxTypeOK, PCs, MutexInv, CommitInv, RegistryInv, HeldInv, DrainInv, InCommit, Granted,
             Registered, Holding, Goto, control, registry
<1> QED
  BY <1>1, <1>2, <1>3, <1>4, <1>5, <1>6, <1>7, <1>8, <1>9, <1>10, <1>11, <1>12, <1>13, <1>14, <1>15, <1>16, <1>17, <1>18, <1>19, <1>20, <1>21, <1>22, <1>23, <1>24, <1>25, <1>26, <1>27, <1>28
     DEF AuxNext, Admission, Life, Settled

\* A closed scope takes no new call: registration asks it under its lock.
LEMMA ScopeStep ==
    ASSUME AuxInv, [AuxNext]_auxVars
    PROVE  ScopeInv'
<1> USE DEF AuxInv, AuxTypeOK, ScopeInv, Goto, control, registry
<1>1. ASSUME NEW c \in Calls, Admission(c)
      PROVE  ScopeInv'
  <2>1. CASE RegisterCall(c)
    BY <2>1 DEF RegisterCall
  <2>2. CASE ~RegisterCall(c)
    BY <1>1, <2>2
       DEF Admission, Subscribe, GiveUp, AdmissionClosed, EnterCommit, RefusedClosed,
           RefusedLifecycleBusy, CommitAvailable, LockReservation, Take, Refuse, Rollback,
           RolledBack, LeaveCommit, CapacityChanged
  <2> QED
    BY <2>1, <2>2
<1>2. ASSUME NEW c \in Calls, Life(c)
      PROVE  ScopeInv'
  BY <1>2 DEF Life, Abandon, Submit, OwnerExits, Reap, Release, Unwound, LeaveCommit, DropAdmission,
              RetireCall, RetireChild
<1>3. ASSUME NEW c \in Calls, CloseScope(c) \/ ScopeClosed(c)
      PROVE  ScopeInv'
  BY <1>3 DEF CloseScope, ScopeClosed
<1>4. ASSUME NEW k \in Conversations, BeginConversationDrain(k) \/ CloseRegistry(k) \/ Drained(k)
      PROVE  ScopeInv'
  BY <1>4 DEF BeginConversationDrain, CloseRegistry, Drained
<1>5. CASE UNCHANGED auxVars
  BY <1>5 DEF auxVars
<1> QED
  BY <1>1, <1>2, <1>3, <1>4, <1>5 DEF AuxNext, Settled

\* The inductive invariant of the auxiliary calls.
THEOREM AuxInvariant == AuxSpec => []AuxInv
<1>1. AuxInv /\ [AuxNext]_auxVars => AuxInv'
  BY AuxTypeStep, AuxStep, ScopeStep DEF AuxInv
<1> QED
  BY AuxInit, <1>1, PTL DEF AuxSpec

-----------------------------------------------------------------------------
(* The properties.                                                          *)

\* Nobody is told Busy because of a reservation that fails itself: the mutex
\* lets one call take or roll back, and that one does not hold the permit it
\* asks for (ProcessCapacity::reserve).
THEOREM BusyIsAlwaysReal == AuxSpec => []BusyIsReal
<1>1. AuxInv => BusyIsReal
  <2> SUFFICES ASSUME AuxInv, NEW c \in Calls, NEW d \in Domains, Refused(c, d),
                      NEW x \in Holders(c, d), pc[x] \in {"taking", "rollback"}
               PROVE  FALSE
    BY DEF BusyIsReal
  <2>1. x = c
    BY DEF AuxInv, MutexInv, Refused, Holders, Rivals
  <2>2. Needs(c) \ held[c] # {} /\ Needs(c) \ held[c] \in SUBSET Domains
    BY NeedsOf DEF AuxInv, HeldInv, Refused
  <2>3. d \notin held[c]
    BY <2>2, FirstIsMember DEF Refused
  <2> QED
    BY <2>1, <2>3 DEF Holders
<1> QED
  BY <1>1, AuxInvariant, PTL

\* What a drain or a closed scope has waited for is over: after a drain no
\* permit and no admission is left, after wait_closed no registered call, and
\* neither comes back (reap, drain, wait_closed, reserve_class).
THEOREM ClosedIsAlwaysOver == AuxSpec => []ClosedIsOver
<1>1. AuxInv => ClosedIsOver
  <2> SUFFICES ASSUME AuxInv PROVE ClosedIsOver
    OBVIOUS
  <2> USE DEF AuxInv
  <2>1. ASSUME NEW k \in Conversations, drain[k] = "returned", NEW c \in Calls, Home(c) = k
        PROVE  held[c] = {} /\ c \notin admitted
    <3>1. pc[c] \notin Registered
      BY <2>1 DEF RegistryInv, DrainInv
    <3>2. pc[c] \notin InCommit
      BY <2>1, CapacityAssumption DEF DrainInv, CommitInv
    <3> QED
      BY <3>1, <3>2 DEF HeldInv, RegistryInv, Registered, InCommit, Holding, Granted, AuxTypeOK
  <2>2. ASSUME NEW c \in Calls, scope[c] = "returned"
        PROVE  /\ pc[c] \notin {"reserved", "submitted", "exited", "releasing", "retiring", "unscoping"}
               /\ c \notin calls
    <3>1. c \notin children
      BY <2>2 DEF ScopeInv
    <3> QED
      BY <3>1 DEF RegistryInv, Registered
  <2> QED
    BY <2>1, <2>2 DEF ClosedIsOver
<1> QED
  BY <1>1, AuxInvariant, PTL

-----------------------------------------------------------------------------
(* The capacities.                                                          *)

\* No semaphore gives out more permits than it has.
CapacityInv == \A c \in Calls, d \in Domains : Cardinality(Holders(c, d)) <= Limit(d)

LEMMA HoldersAreFinite ==
    \A c, d : IsFiniteSet(Holders(c, d)) /\ Cardinality(Holders(c, d)) \in Nat
<1> SUFFICES ASSUME NEW c, NEW d
             PROVE  IsFiniteSet(Holders(c, d)) /\ Cardinality(Holders(c, d)) \in Nat
  OBVIOUS
<1>1. Holders(c, d) \subseteq Calls
  BY DEF Holders, Rivals
<1> QED
  BY <1>1, CapacityAssumption, FS_Subset, FS_CardinalityType

LEMMA LimitIsNat == \A d \in Domains : Limit(d) \in Nat
BY CapacityAssumption DEF Domains, Limit

\* Only Take adds to what a call holds.
LEMMA OthersOnlyGiveBack ==
    ASSUME AuxInv, [AuxNext]_auxVars, \A c \in Calls : ~Take(c)
    PROVE  \A x \in Calls : held'[x] \subseteq held[x]
<1> USE DEF AuxInv, AuxTypeOK
<1>1. ASSUME NEW c \in Calls, Admission(c) \/ Life(c) \/ CloseScope(c) \/ ScopeClosed(c)
      PROVE  \A x \in Calls : held'[x] \subseteq held[x]
  <2>1. CASE Rollback(c)
    BY <2>1 DEF Rollback
  <2>2. CASE Release(c)
    BY <2>2 DEF Release
  <2>3. CASE ~Rollback(c) /\ ~Release(c)
    BY <1>1, <2>3
       DEF Admission, Life, Subscribe, GiveUp, AdmissionClosed, EnterCommit, RefusedClosed,
           RefusedLifecycleBusy, CommitAvailable, LockReservation, Refuse, RolledBack,
           CapacityChanged, RegisterCall, Abandon, Submit, OwnerExits, Reap, Unwound, DropAdmission,
           RetireCall, RetireChild, CloseScope, ScopeClosed
  <2> QED
    BY <2>1, <2>2, <2>3
<1> QED
  BY <1>1 DEF AuxNext, auxVars, Settled, BeginConversationDrain, CloseRegistry, Drained

LEMMA CapacityStep ==
    ASSUME AuxInv, CapacityInv, [AuxNext]_auxVars
    PROVE  CapacityInv'
<1> USE HoldersAreFinite, LimitIsNat
<1> SUFFICES ASSUME NEW x \in Calls, NEW e \in Domains
             PROVE  Cardinality(Holders(x, e)') <= Limit(e)
  BY DEF CapacityInv, Limit
<1>1. Rivals(x, e)' = Rivals(x, e)
  BY KindIsFixed DEF Rivals
<1>2. Cardinality(Holders(x, e)) <= Limit(e)
  BY DEF CapacityInv
<1>3. ASSUME Holders(x, e)' \subseteq Holders(x, e)
      PROVE  Cardinality(Holders(x, e)') <= Limit(e)
  <2>1. Cardinality(Holders(x, e)') <= Cardinality(Holders(x, e))
    BY <1>3, FS_Subset
  <2>2. Cardinality(Holders(x, e)') \in Nat
    BY <1>3, FS_Subset, FS_CardinalityType
  <2> QED
    BY <2>1, <2>2, <1>2
<1>4. CASE \A c \in Calls : ~Take(c)
  <2>1. Holders(x, e)' \subseteq Holders(x, e)
    BY <1>1, <1>4, OthersOnlyGiveBack DEF Holders, Rivals
  <2> QED
    BY <2>1, <1>3
<1>5. ASSUME NEW c \in Calls, Take(c)
      PROVE  Cardinality(Holders(x, e)') <= Limit(e)
  <2>1. PICK d \in Needs(c) \ held[c] :
            /\ Free(c, d)
            /\ \/ held' = [held EXCEPT ![c] = @ \cup {d, "wake"}]
               \/ held' = [held EXCEPT ![c] = @ \cup {d}]
    BY <1>5, TakeTakes DEF AuxInv
  <2>2. \A y \in Calls : y # c => held'[y] = held[y]
    BY <2>1 DEF AuxInv, AuxTypeOK
  <2>3. e \in held'[c] => e \in held[c] \/ e = d
    BY <2>1 DEF AuxInv, AuxTypeOK, Domains
  <2>4. CASE e # d \/ c \notin Rivals(x, e)
    BY <1>1, <2>2, <2>3, <2>4, <1>3 DEF Holders, Rivals
  <2>5. CASE e = d /\ c \in Rivals(x, e)
    <3>1. Holders(x, e) = Holders(c, d)
      BY <2>5 DEF Holders, Rivals
    <3>2. Holders(x, e)' \subseteq Holders(x, e) \cup {c}
      BY <1>1, <2>2 DEF Holders, Rivals
    <3>3. Cardinality(Holders(x, e)) < Limit(e)
      BY <2>1, <2>5, <3>1 DEF Free
    <3>4. /\ IsFiniteSet(Holders(x, e) \cup {c})
          /\ Cardinality(Holders(x, e) \cup {c}) <= Cardinality(Holders(x, e)) + 1
      BY FS_AddElement, IsFiniteSet(Holders(x, e)), Cardinality(Holders(x, e)) \in Nat
    <3>5. /\ Cardinality(Holders(x, e)') <= Cardinality(Holders(x, e) \cup {c})
          /\ Cardinality(Holders(x, e)') \in Nat /\ Cardinality(Holders(x, e) \cup {c}) \in Nat
      BY <3>2, <3>4, FS_Subset, FS_CardinalityType
    <3> QED
      BY <3>3, <3>4, <3>5
  <2> QED
    BY <2>4, <2>5
<1> QED
  BY <1>4, <1>5

\* the calls that were granted their permits and have not begun to return them
Running(S) == {x \in S : pc[x] \in Granted}
OfConversation(k) == {x \in Calls : Home(x) = k}
Ordinary(S) == {x \in S : ~kind[x].compaction}

\* The limits of the process and of each conversation hold for the calls that
\* run, and so does the smaller limit of the ordinary ones, although permits
\* are taken one by one and given back without the mutex.
LimitsAreHonoured ==
    /\ Cardinality(Running(Calls)) <= ProcessTotal
    /\ Cardinality(Running(Ordinary(Calls))) <= ProcessGeneral
    /\ \A k \in Conversations :
          /\ Cardinality(Running(OfConversation(k))) <= ConversationTotal
          /\ Cardinality(Running(Ordinary(OfConversation(k)))) <= ConversationGeneral

\* What runs is within what the semaphores gave out.
LEMMA RunningWithin ==
    ASSUME AuxInv, CapacityInv, NEW c \in Calls, NEW d \in Domains,
           NEW S \in SUBSET Rivals(c, d), \A x \in S : d \in Needs(x)
    PROVE  Cardinality(Running(S)) <= Limit(d)
<1>1. Running(S) \subseteq Holders(c, d)
  BY DEF Running, Holders, Rivals, AuxInv, HeldInv
<1>2. Cardinality(Running(S)) <= Cardinality(Holders(c, d)) /\ Cardinality(Running(S)) \in Nat
  BY <1>1, HoldersAreFinite, FS_Subset, FS_CardinalityType
<1> QED
  BY <1>2, HoldersAreFinite, LimitIsNat DEF CapacityInv

LEMMA NothingRuns == ASSUME NEW S, S = {} PROVE Cardinality(Running(S)) = 0
BY FS_EmptySet DEF Running

\* The limits of runtime/auxiliary/capacity.rs are never exceeded by running
\* calls, for every choice of the four capacities.
THEOREM LimitsAreAlwaysHonoured == AuxSpec => []LimitsAreHonoured
<1>1. AuxInitial => CapacityInv
  <2> SUFFICES ASSUME AuxInitial, NEW c \in Calls, NEW d \in Domains
               PROVE  Cardinality(Holders(c, d)) <= Limit(d)
    BY DEF CapacityInv
  <2>1. Holders(c, d) = {}
    BY DEF AuxInitial, Holders, Rivals
  <2> QED
    BY <2>1, FS_EmptySet, LimitIsNat
<1>2. AuxInv /\ CapacityInv => LimitsAreHonoured
  <2> SUFFICES ASSUME AuxInv, CapacityInv PROVE LimitsAreHonoured
    OBVIOUS
  <2>a. {ProcessTotal, ProcessGeneral, ConversationTotal, ConversationGeneral} \subseteq Nat
    BY CapacityAssumption
  <2>b. /\ Limit("process_total") = ProcessTotal /\ Limit("process_general") = ProcessGeneral
        /\ Limit("conversation_total") = ConversationTotal
        /\ Limit("conversation_general") = ConversationGeneral
    BY DEF Limit
  <2>c. /\ \A x \in Calls : "process_total" \in Needs(x) /\ "conversation_total" \in Needs(x)
        /\ \A x \in Calls : ~kind[x].compaction =>
               "process_general" \in Needs(x) /\ "conversation_general" \in Needs(x)
    BY DEF Needs, Domains, GeneralOnly
  <2>1. Cardinality(Running(Calls)) <= ProcessTotal
    <3>1. CASE Calls = {}
      BY <3>1, <2>a, NothingRuns
    <3>2. ASSUME NEW c \in Calls
          PROVE  Cardinality(Running(Calls)) <= ProcessTotal
      <4>1. Calls \subseteq Rivals(c, "process_total")
        BY DEF Rivals, Shared
      <4> QED
        BY <4>1, <2>b, <2>c, RunningWithin DEF Domains
    <3> QED
      BY <3>1, <3>2
  <2>2. Cardinality(Running(Ordinary(Calls))) <= ProcessGeneral
    <3>1. CASE Ordinary(Calls) = {}
      BY <3>1, <2>a, NothingRuns
    <3>2. ASSUME NEW c \in Ordinary(Calls)
          PROVE  Cardinality(Running(Ordinary(Calls))) <= ProcessGeneral
      <4>1. c \in Calls /\ Ordinary(Calls) \subseteq Rivals(c, "process_general")
        BY DEF Rivals, Shared, Ordinary
      <4>2. \A x \in Ordinary(Calls) : "process_general" \in Needs(x)
        BY <2>c DEF Ordinary
      <4> QED
        BY <4>1, <4>2, <2>b, RunningWithin DEF Domains
    <3> QED
      BY <3>1, <3>2
  <2>3. ASSUME NEW k \in Conversations
        PROVE  Cardinality(Running(OfConversation(k))) <= ConversationTotal
    <3>1. CASE OfConversation(k) = {}
      BY <3>1, <2>a, NothingRuns
    <3>2. ASSUME NEW c \in OfConversation(k)
          PROVE  Cardinality(Running(OfConversation(k))) <= ConversationTotal
      <4>1. c \in Calls /\ OfConversation(k) \subseteq Rivals(c, "conversation_total")
        BY DEF Rivals, OfConversation, Home
      <4>2. \A x \in OfConversation(k) : "conversation_total" \in Needs(x)
        BY <2>c DEF OfConversation
      <4> QED
        BY <4>1, <4>2, <2>b, RunningWithin DEF Domains
    <3> QED
      BY <3>1, <3>2
  <2>4. ASSUME NEW k \in Conversations
        PROVE  Cardinality(Running(Ordinary(OfConversation(k)))) <= ConversationGeneral
    <3> DEFINE S == Ordinary(OfConversation(k))
    <3>1. CASE S = {}
      BY <3>1, <2>a, NothingRuns
    <3>2. ASSUME NEW c \in S
          PROVE  Cardinality(Running(S)) <= ConversationGeneral
      <4>1. c \in Calls /\ S \subseteq Rivals(c, "conversation_general")
        BY DEF Rivals, OfConversation, Ordinary, Home
      <4>2. \A x \in S : "conversation_general" \in Needs(x)
        BY <2>c DEF OfConversation, Ordinary
      <4> QED
        BY <4>1, <4>2, <2>b, RunningWithin DEF Domains
    <3> QED
      BY <3>1, <3>2
  <2> QED
    BY <2>1, <2>2, <2>3, <2>4 DEF LimitsAreHonoured
<1> QED
  BY <1>1, <1>2, CapacityStep, AuxInvariant, PTL DEF AuxSpec

-----------------------------------------------------------------------------
(* The durability gate.                                                    *)

\* The two flags of the gate say who is writing.
FlagsInv ==
    /\ \A o \in Owners : step[o] = "writing" => ownershipActive
    /\ ownershipActive => \E o \in Owners : step[o] = "writing"
    /\ coordinatorActive <=> step[Coordinator] = "writing"
    /\ OneOwnershipWriter

\* A request lives only behind a writer, and a committed fact excludes both.
FactInv ==
    /\ failure # NoFailure => requested = NoFailure /\ ~ownershipActive /\ ~coordinatorActive
    /\ requested # NoFailure => ownershipActive \/ coordinatorActive

\* One actor at most has the fact to publish, and then nobody has published.
OutboxInv ==
    /\ \A a \in Actors : step[a] = "publish" => outbox[a] # NoFailure
    /\ \A a \in Actors : outbox[a] # NoFailure =>
          /\ outbox[a] = failure
          /\ published = <<>>
          /\ \A b \in Actors : outbox[b] # NoFailure => b = a
    /\ PublishedOnce

GateInv == GateTypeOK /\ FlagsInv /\ FactInv /\ OutboxInv

USE GateAssumption DEF Actors, Writers, Coordinator

-----------------------------------------------------------------------------
LEMMA GateInit == GateInitial => GateInv
<1> SUFFICES ASSUME GateInitial PROVE GateInv
  OBVIOUS
<1>1. GateTypeOK
  <2>1. step \in [Actors -> WriterSteps \cup ReporterSteps]
    BY DEF GateInitial, WriterSteps
  <2>2. published \in Seq(Reporters)
    BY DEF GateInitial
  <2> QED
    BY <2>1, <2>2 DEF GateInitial, GateTypeOK
<1>2. FlagsInv /\ FactInv
  BY DEF GateInitial, FlagsInv, FactInv, OneOwnershipWriter, Writing
<1>3. OutboxInv
  BY DEF GateInitial, OutboxInv, PublishedOnce
<1> QED
  BY <1>1, <1>2, <1>3 DEF GateInv

\* Each action keeps the types.
LEMMA GateTypeStep ==
    ASSUME GateInv, [GateNext]_gateVars
    PROVE  GateTypeOK'
<1> USE DEF GateTypeOK, WriterSteps, ReporterSteps, NotifyWaiters
<1> GateTypeOK
  BY DEF GateInv
<1>1. ASSUME NEW r \in Reporters, CommitFailure(r) \/ AnnounceRequest(r)
      PROVE  GateTypeOK'
  <2>1. CASE AnnounceRequest(r)
    BY <2>1 DEF AnnounceRequest
  <2>2. CASE CommitFailure(r) /\ IsFailed
    BY <2>2 DEF CommitFailure
  <2>3. CASE CommitFailure(r) /\ ~IsFailed
    BY <2>3 DEF CommitFailure
  <2> QED
    BY <1>1, <2>1, <2>2, <2>3
<1>2. ASSUME NEW o \in Owners, Register(o) \/ EnterOwnershipCommit(o) \/ Wake(o)
      PROVE  GateTypeOK'
  BY <1>2 DEF Register, EnterOwnershipCommit, Wake
<1>3. CASE EnterCoordinatorCommit
  BY <1>3 DEF EnterCoordinatorCommit
<1>4. ASSUME NEW w \in Writers, Return(w) \/ DropGuard(w) \/ AnnounceExit(w)
      PROVE  GateTypeOK'
  <2>1. CASE Return(w)
    BY <2>1 DEF Return
  <2>2. CASE DropGuard(w)
    <3>1. CASE UNCHANGED <<failure, requested, outbox>>
      BY <2>2, <3>1 DEF DropGuard
    <3>2. CASE ~UNCHANGED <<failure, requested, outbox>>
      BY <2>2, <3>2 DEF DropGuard
    <3> QED
      BY <3>1, <3>2
  <2>3. CASE AnnounceExit(w)
    BY <2>3 DEF AnnounceExit
  <2> QED
    BY <1>4, <2>1, <2>2, <2>3
<1>5. ASSUME NEW a \in Actors, Publish(a)
      PROVE  GateTypeOK'
  <2>1. outbox[a] \in Reporters
    BY <1>5 DEF GateInv, OutboxInv, Publish
  <2> QED
    BY <1>5, <2>1 DEF Publish
<1>6. CASE UNCHANGED gateVars
  BY <1>6 DEF gateVars
<1> QED
  BY <1>1, <1>2, <1>3, <1>4, <1>5, <1>6 DEF GateNext

\* Each action keeps the flags, the fact and the outbox consistent.
LEMMA GateStep ==
    ASSUME GateInv, [GateNext]_gateVars
    PROVE  FlagsInv' /\ FactInv' /\ OutboxInv'
<1> USE DEF GateTypeOK, FlagsInv, FactInv, OutboxInv, OneOwnershipWriter, Writing, PublishedOnce
<1> GateTypeOK /\ FlagsInv /\ FactInv /\ OutboxInv
  BY DEF GateInv
<1>1. ASSUME NEW r \in Reporters, CommitFailure(r)
      PROVE  FlagsInv' /\ FactInv' /\ OutboxInv'
  BY <1>1 DEF CommitFailure, IsFailed
<1>2. ASSUME NEW r \in Reporters, AnnounceRequest(r)
      PROVE  FlagsInv' /\ FactInv' /\ OutboxInv'
  BY <1>2 DEF AnnounceRequest
<1>3. ASSUME NEW o \in Owners, Register(o) \/ Wake(o)
      PROVE  FlagsInv' /\ FactInv' /\ OutboxInv'
  BY <1>3 DEF Register, Wake
<1>4. ASSUME NEW o \in Owners, EnterOwnershipCommit(o)
      PROVE  FlagsInv' /\ FactInv' /\ OutboxInv'
  BY <1>4 DEF EnterOwnershipCommit, IsFailed
<1>5. CASE EnterCoordinatorCommit
  BY <1>5 DEF EnterCoordinatorCommit, IsFailed
<1>6. ASSUME NEW w \in Writers, Return(w)
      PROVE  FlagsInv' /\ FactInv' /\ OutboxInv'
  BY <1>6 DEF Return
<1>7. ASSUME NEW w \in Writers, DropGuard(w)
      PROVE  FlagsInv' /\ FactInv' /\ OutboxInv'
  <2>1. FlagsInv'
    <3>1. step' = [step EXCEPT ![w] = "announce"] /\ step[w] = "writing"
      BY <1>7 DEF DropGuard
    <3>2. CASE w = Coordinator
      <4>1. ownershipActive' = ownershipActive /\ coordinatorActive' = FALSE
        BY <1>7, <3>2 DEF DropGuard
      <4> QED
        BY <3>1, <3>2, <4>1
    <3>3. CASE w \in Owners
      <4>1. ownershipActive' = FALSE /\ coordinatorActive' = coordinatorActive
        BY <1>7, <3>3 DEF DropGuard
      <4> QED
        BY <3>1, <3>3, <4>1
    <3> QED
      BY <3>2, <3>3
  <2>2. CASE UNCHANGED <<failure, requested, outbox>>
    BY <1>7, <2>1, <2>2 DEF DropGuard
  <2>3. CASE ~UNCHANGED <<failure, requested, outbox>>
    <3>1. /\ requested # NoFailure /\ ~ownershipActive' /\ ~coordinatorActive'
          /\ failure' = requested /\ requested' = NoFailure
          /\ outbox' = [outbox EXCEPT ![w] = requested]
          /\ step' = [step EXCEPT ![w] = "announce"] /\ published' = published
      BY <1>7, <2>3 DEF DropGuard
    <3>2. failure = NoFailure /\ published = <<>> /\ \A a \in Actors : outbox[a] = NoFailure
      BY <3>1
    <3> QED
      BY <2>1, <3>1, <3>2
  <2> QED
    BY <2>2, <2>3
<1>8. ASSUME NEW w \in Writers, AnnounceExit(w)
      PROVE  FlagsInv' /\ FactInv' /\ OutboxInv'
  BY <1>8 DEF AnnounceExit
<1>9. ASSUME NEW a \in Actors, Publish(a)
      PROVE  FlagsInv' /\ FactInv' /\ OutboxInv'
  <2>1. /\ outbox[a] = failure /\ failure # NoFailure /\ published = <<>>
        /\ \A b \in Actors : outbox[b] # NoFailure => b = a
    BY <1>9 DEF Publish
  <2>2. published' = <<failure>>
    BY <1>9, <2>1 DEF Publish
  <2>3. \A b \in Actors : outbox'[b] = NoFailure
    BY <1>9, <2>1 DEF Publish
  <2>4. \A b \in Actors : step'[b] = "publish" => step[b] = "publish" /\ b # a
    BY <1>9 DEF Publish
  <2>5. OutboxInv'
    BY <1>9, <2>1, <2>2, <2>3, <2>4 DEF Publish
  <2>6. FlagsInv' /\ FactInv'
    BY <1>9 DEF Publish
  <2> QED
    BY <2>5, <2>6
<1>10. CASE UNCHANGED gateVars
  BY <1>10 DEF gateVars
<1> QED
  BY <1>1, <1>2, <1>3, <1>4, <1>5, <1>6, <1>7, <1>8, <1>9, <1>10 DEF GateNext

-----------------------------------------------------------------------------
\* The inductive invariant holds of every reachable state.
THEOREM GateInvariant == GateSpec => []GateInv
<1>1. GateInv /\ [GateNext]_gateVars => GateInv'
  BY GateTypeStep, GateStep DEF GateInv
<1> QED
  BY <1>1, GateInit, PTL DEF GateSpec

\* Every variable keeps its type: what is published is a reported failure.
THEOREM GateTyped == GateSpec => []GateTypeOK
<1>1. GateInv => GateTypeOK
  BY DEF GateInv
<1> QED
  BY <1>1, GateInvariant, PTL

\* The committed failure excludes every durable writer.
THEOREM FailureAfterWriters == GateSpec => []FailureFollowsWriters
<1>1. GateInv => FailureFollowsWriters
  BY DEF GateInv, FlagsInv, FactInv, FailureFollowsWriters, Writing
<1> QED
  BY <1>1, GateInvariant, PTL

\* The ownership permission is exclusive.
THEOREM OwnershipExclusive == GateSpec => []OneOwnershipWriter
<1>1. GateInv => OneOwnershipWriter
  BY DEF GateInv, FlagsInv
<1> QED
  BY <1>1, GateInvariant, PTL

\* The publisher receives the winner, and at most once.
THEOREM SinglePublication == GateSpec => []PublishedOnce
<1>1. GateInv => PublishedOnce
  BY DEF GateInv, OutboxInv
<1> QED
  BY <1>1, GateInvariant, PTL

\* The first failure that closed admission is never replaced.
THEOREM AbsorbingWinner == GateSpec => WinnerIsAbsorbing
<1>1. GateInv /\ [GateNext]_gateVars => [Winner # NoFailure => Winner' = Winner]_gateVars
  <2> SUFFICES ASSUME GateInv, GateNext, Winner # NoFailure
               PROVE  Winner' = Winner
    OBVIOUS
  <2> USE DEF Winner
  <2>1. IsFailed
    BY DEF IsFailed
  <2>2. CASE UNCHANGED <<failure, requested>>
    BY <2>2
  <2>3. ASSUME NEW r \in Reporters, CommitFailure(r)
        PROVE  UNCHANGED <<failure, requested>>
    BY <2>1, <2>3 DEF CommitFailure
  <2>4. ASSUME NEW w \in Writers, DropGuard(w)
        PROVE  Winner' = Winner
    BY <2>4 DEF DropGuard, GateInv, FactInv
  <2> QED
    BY <2>2, <2>3, <2>4 DEF GateNext, AnnounceRequest, Register, EnterOwnershipCommit, Wake,
         EnterCoordinatorCommit, Return, AnnounceExit, Publish
<1> QED
  BY <1>1, GateInvariant, PTL DEF GateSpec, WinnerIsAbsorbing

\* Once a failure is requested no writer becomes authorised.
THEOREM ClosedOnceRequested == GateSpec => RequestClosesEntry
<1>1. GateInv /\ [GateNext]_gateVars => [IsFailed => (Writing' \subseteq Writing)]_gateVars
  <2> SUFFICES ASSUME GateInv, GateNext, IsFailed
               PROVE  Writing' \subseteq Writing
    OBVIOUS
  <2> USE DEF Writing, GateInv, GateTypeOK
  <2>1. ASSUME NEW r \in Reporters, CommitFailure(r) \/ AnnounceRequest(r)
        PROVE  Writing' \subseteq Writing
    BY <2>1 DEF CommitFailure, AnnounceRequest
  <2>2. ASSUME NEW o \in Owners, Register(o) \/ EnterOwnershipCommit(o) \/ Wake(o)
        PROVE  Writing' \subseteq Writing
    BY <2>2 DEF Register, EnterOwnershipCommit, Wake
  <2>3. CASE EnterCoordinatorCommit
    BY <2>3 DEF EnterCoordinatorCommit
  <2>4. ASSUME NEW w \in Writers, Return(w) \/ DropGuard(w) \/ AnnounceExit(w)
        PROVE  Writing' \subseteq Writing
    BY <2>4 DEF Return, DropGuard, AnnounceExit
  <2>5. ASSUME NEW a \in Actors, Publish(a)
        PROVE  Writing' \subseteq Writing
    BY <2>5 DEF Publish
  <2> QED
    BY <2>1, <2>2, <2>3, <2>4, <2>5 DEF GateNext
<1> QED
  BY <1>1, GateInvariant, PTL DEF GateSpec, RequestClosesEntry

\* The order of the gate holds for any sets of owners and reporters: one writer,
\* the failure after the writers, its publication once (types.rs 848-1087).
THEOREM FailureOrdered == GateSpec => []FailureIsOrdered
  BY FailureAfterWriters, OwnershipExclusive, SinglePublication, PTL DEF FailureIsOrdered
==============================================================================
