-------------------------- MODULE PendingPutsProofs --------------------------
(* Proofs about the parked one-shot puts: the registry is bounded, no put  *)
(* loses its handle but the oldest of a full registry, and a sweep cancels *)
(* nothing, for every bound of the registry and any number of puts.        *)
EXTENDS PendingPuts, FiniteSetTheorems, TLAPS

\* Where the MATLAB thread is tells what it holds outside the registry.
PcOK ==
  /\ pc \in {"idle", "issue", "park"} => graveyard = {}
  /\ pc = "park" => putSeq \in Keys \ pending /\ put[putSeq] \in {"live", "finished"}

\* What the containers tell of the puts whose keys they hold.
KeysOK ==
  /\ \A k \in Keys : put[k] = "none" <=> k > putSeq
  /\ \A k \in donePuts : put[k] \in {"finished", "dropped"}
  /\ \A k \in pending : put[k] \in {"live", "finished"}
  /\ pending \cap graveyard = {}

\* An eviction leaves a full registry, of puts issued after the evicted one.
EvictedOldest ==
  pc = "evict" => \A k \in graveyard :
    Cardinality(pending) = MaxPending /\ \A j \in pending : j > k

IInv ==
  /\ TypeOK /\ PcOK /\ KeysOK /\ EvictedOldest
  /\ Bounded /\ HandleHeld /\ SweepCancelsNothing

-----------------------------------------------------------------------------
(* Finite sets of keys.                                                    *)

\* A nonempty set of numbers has a least one.
LEMMA LeastExists ==
  ASSUME NEW S \in SUBSET Nat, S # {}
  PROVE  \E k \in S : \A j \in S : k <= j
<1> DEFINE Fam == {1..k : k \in S}
<1>1. IsWellFoundedOn(StrictSubsetOrdering(Nat), FiniteSubsetsOf(Nat))
  BY FS_StrictSubsetOrderingWellFounded
<1>2. Fam \subseteq FiniteSubsetsOf(Nat) /\ Fam # {}
  <2>1. \A k \in S : 1..k \in FiniteSubsetsOf(Nat)
    BY FS_Interval DEF FiniteSubsetsOf
  <2> QED BY <2>1
<1>3. PICK I \in Fam : \A J \in Fam : <<J, I>> \notin StrictSubsetOrdering(Nat)
  <2> HIDE DEF Fam
  <2> QED BY <1>1, <1>2, WFMin
<1>4. PICK k \in S : I = 1..k
  BY <1>3
<1>5. ASSUME NEW j \in S, j < k PROVE FALSE
  <2>1. 1..j \in Fam
    OBVIOUS
  <2>2. 1..j \subseteq 1..k /\ k \in 1..k /\ k \notin 1..j
    BY <1>5
  <2>3. <<1..j, 1..k>> \in StrictSubsetOrdering(Nat)
    BY <2>2 DEF StrictSubsetOrdering
  <2> QED
    BY <1>3, <1>4, <2>1, <2>3
<1> QED
  BY <1>5

\* The parked keys are finitely many.
LEMMA PendingFinite ==
  ASSUME TypeOK
  PROVE  IsFiniteSet(pending) /\ Cardinality(pending) \in Nat
<1>1. IsFiniteSet(1..putSeq)
  BY FS_Interval DEF TypeOK
<1> QED
  BY <1>1, FS_Subset, FS_CardinalityType DEF TypeOK

\* A full registry has one oldest entry.
LEMMA OldestIsOne ==
  ASSUME TypeOK, Full
  PROVE  \E k \in pending : Oldest = {k} /\ \A j \in pending \ {k} : j > k
<1>1. pending # {}
  BY PendingFinite, FS_EmptySet, SizesAssumption DEF Full
<1>2. pending \in SUBSET Nat
  BY SizesAssumption DEF TypeOK
<1>3. PICK k \in pending : \A j \in pending : k <= j
  BY <1>1, <1>2, LeastExists
<1>4. Oldest = {k}
  <2>1. k \in Oldest
    BY <1>3 DEF Oldest
  <2>2. ASSUME NEW j \in Oldest PROVE j = k
    <3>1. j \in pending /\ j <= k /\ k <= j
      BY <1>3, <2>2 DEF Oldest
    <3>2. j \in Nat /\ k \in Nat
      BY <1>2, <3>1
    <3> QED
      BY <3>1, <3>2
  <2> QED
    BY <2>1, <2>2
<1>5. \A j \in pending \ {k} : j > k
  BY <1>2, <1>3
<1> QED
  BY <1>4, <1>5

-----------------------------------------------------------------------------
(* The steps.                                                              *)

\* Nothing is parked, finished or issued at first.
LEMMA InitIInv == Init => IInv
<1> SUFFICES ASSUME Init PROVE IInv
  OBVIOUS
<1>1. Bounded
  BY FS_EmptySet, SizesAssumption DEF Init, Bounded
<1>2. TypeOK /\ PcOK /\ KeysOK /\ EvictedOldest /\ HandleHeld /\ SweepCancelsNothing
  BY SizesAssumption
     DEF Init, TypeOK, PcOK, KeysOK, EvictedOldest, HandleHeld, SweepCancelsNothing, Keys
<1> QED
  BY <1>1, <1>2 DEF IInv

\* A sweep moves handles of finished puts to the graveyard.
LEMMA ReapStep ==
  ASSUME IInv, NEW to \in {"issue", "idle"}, Reap(to)
  PROVE  IInv'
<1> USE DEF Reap
<1>1. TypeOK'
  BY DEF IInv, TypeOK, Swept, Kept
<1>2. PcOK' /\ EvictedOldest'
  BY DEF PcOK, EvictedOldest
<1>3. KeysOK'
  BY DEF IInv, KeysOK, Swept, Kept
<1>4. Bounded'
  <2>1. Cardinality(pending') <= Cardinality(pending) /\ Cardinality(pending') \in Nat
    BY PendingFinite, FS_Subset, FS_CardinalityType DEF IInv
  <2> QED
    BY <2>1, PendingFinite, SizesAssumption DEF IInv, Bounded
<1>5. HandleHeld'
  BY DEF IInv, HandleHeld, PcOK, Swept
<1>6. SweepCancelsNothing'
  BY DEF IInv, SweepCancelsNothing, KeysOK, Swept
<1> QED
  BY <1>1, <1>2, <1>3, <1>4, <1>5, <1>6 DEF IInv

\* The graveyard goes out of scope, after a sweep or an eviction.
LEMMA DropStep ==
  ASSUME IInv, Bury \/ Evict
  PROVE  IInv'
<1> USE DEF Bury, Evict
<1>1. TypeOK'
  BY DEF IInv, TypeOK
<1>2. PcOK' /\ EvictedOldest' /\ SweepCancelsNothing'
  BY DEF PcOK, EvictedOldest, SweepCancelsNothing
<1>3. KeysOK'
  <2>1. pending \subseteq Keys /\ donePuts \subseteq Keys /\ graveyard \subseteq 1..putSeq
    BY SizesAssumption DEF IInv, TypeOK, Keys
  <2>2. \A k \in Keys : put'[k] = IF k \in graveyard THEN "dropped" ELSE put[k]
    OBVIOUS
  <2>3. putSeq' = putSeq /\ pending' = pending /\ donePuts' = donePuts /\ graveyard' = {}
    OBVIOUS
  <2>4. \A k \in graveyard : ~(k > putSeq)
    BY <2>1 DEF IInv, TypeOK
  <2>5. KeysOK
    BY DEF IInv
  <2> QED
    BY <2>1, <2>2, <2>3, <2>4, <2>5 DEF KeysOK
<1>4. Bounded'
  BY DEF IInv, Bounded
<1>5. HandleHeld'
  BY DEF IInv, HandleHeld
<1> QED
  BY <1>1, <1>2, <1>3, <1>4, <1>5 DEF IInv

\* A put is issued before its handle is parked.
LEMMA IssueStep ==
  ASSUME IInv, Issue
  PROVE  IInv'
<1> USE DEF Issue
<1>1. TypeOK'
  BY SizesAssumption DEF IInv, TypeOK, Keys
<1>2. PcOK' /\ EvictedOldest' /\ SweepCancelsNothing'
  BY SizesAssumption DEF IInv, TypeOK, PcOK, EvictedOldest, SweepCancelsNothing, Keys
<1>3. KeysOK'
  <2>1. putSeq + 1 \in Keys \ (pending \cup donePuts)
    BY SizesAssumption DEF IInv, TypeOK, Keys
  <2>2. pending \subseteq Keys /\ donePuts \subseteq Keys
    BY SizesAssumption DEF IInv, TypeOK, Keys
  <2> QED
    BY <2>1, <2>2, SizesAssumption DEF IInv, KeysOK, TypeOK, Keys
<1>4. Bounded'
  BY DEF IInv, Bounded
<1>5. HandleHeld'
  BY DEF IInv, HandleHeld, PcOK, TypeOK, Keys
<1> QED
  BY <1>1, <1>2, <1>3, <1>4, <1>5 DEF IInv

\* The registry takes the newest handle, in place of the oldest when it is full.
LEMMA ParkStep ==
  ASSUME IInv, Park
  PROVE  IInv'
<1> USE DEF Park
<1>1. putSeq \in Keys \ pending /\ graveyard = {}
  BY DEF IInv, PcOK
<1>2. graveyard' \subseteq pending
  BY DEF Oldest
<1>3. TypeOK'
  BY <1>1, <1>2 DEF IInv, TypeOK, Keys
<1>4. PcOK' /\ SweepCancelsNothing'
  BY DEF PcOK, SweepCancelsNothing
<1>5. KeysOK'
  <2>1. put[putSeq] \in {"live", "finished"}
    BY DEF IInv, PcOK
  <2>2. putSeq \notin graveyard'
    BY <1>1, <1>2
  <2>3. pending' \subseteq pending \cup {putSeq} /\ pending' \cap graveyard' = {}
    BY <2>2
  <2> QED
    BY <2>1, <2>3 DEF IInv, KeysOK
<1>6. HandleHeld'
  BY <1>1 DEF IInv, HandleHeld
<1>7. Bounded' /\ EvictedOldest'
  <2>1. IsFiniteSet(pending) /\ Cardinality(pending) \in Nat
    BY PendingFinite DEF IInv
  <2>2. CASE Full
    <3>1. PICK k \in pending : Oldest = {k} /\ \A j \in pending \ {k} : j > k
      BY <2>2, OldestIsOne DEF IInv
    <3>2. Cardinality(pending) = MaxPending
      BY <2>1, <2>2, SizesAssumption DEF IInv, Bounded, Full
    <3>3. IsFiniteSet(pending \ {k}) /\ Cardinality(pending \ {k}) = MaxPending - 1
      BY <2>1, <3>2, FS_RemoveElement
    <3>4. Cardinality((pending \ {k}) \cup {putSeq}) = MaxPending
      <4> DEFINE rest == pending \ {k}
      <4>1. putSeq \notin rest
        BY <1>1
      <4>2. IsFiniteSet(rest) /\ Cardinality(rest) = MaxPending - 1
        BY <3>3
      <4> HIDE DEF rest
      <4>3. Cardinality(rest \cup {putSeq}) = Cardinality(rest) + 1
        BY <4>1, <4>2, FS_AddElement
      <4>4. Cardinality(rest \cup {putSeq}) = MaxPending
        BY <4>2, <4>3, SizesAssumption
      <4> QED BY <4>4 DEF rest
    <3>5. graveyard' = {k} /\ pending' = (pending \ {k}) \cup {putSeq}
      BY <2>2, <3>1
    <3>6. putSeq > k
      BY <1>1 DEF IInv, TypeOK
    <3> QED
      BY <3>1, <3>4, <3>5, <3>6, SizesAssumption DEF Bounded, EvictedOldest
  <2>3. CASE ~Full
    <3>1. pending' = pending \cup {putSeq} /\ graveyard' = {}
      BY <2>3
    <3>2. Cardinality(pending') = Cardinality(pending) + 1
      BY <1>1, <2>1, <3>1, FS_AddElement
    <3> QED
      BY <2>1, <2>3, <3>1, <3>2, SizesAssumption DEF Bounded, Full, EvictedOldest
  <2> QED
    BY <2>2, <2>3
<1> QED
  BY <1>3, <1>4, <1>5, <1>6, <1>7 DEF IInv

\* A callback may run at any point between two uses of the registry.
LEMMA FinishStep ==
  ASSUME IInv, NEW k \in Keys, Finish(k)
  PROVE  IInv'
<1> USE DEF Finish
<1>1. TypeOK'
  BY DEF IInv, TypeOK, KeysOK, Keys
<1>2. PcOK' /\ EvictedOldest' /\ Bounded'
  BY DEF IInv, PcOK, EvictedOldest, Bounded
<1>3. KeysOK'
  <2>1. pending \subseteq Keys /\ donePuts \subseteq Keys
    BY SizesAssumption DEF IInv, TypeOK, Keys
  <2> QED
    BY <2>1 DEF IInv, KeysOK, TypeOK
<1>4. HandleHeld'
  BY DEF IInv, HandleHeld, TypeOK
<1>5. SweepCancelsNothing'
  BY DEF IInv, SweepCancelsNothing, TypeOK
<1> QED
  BY <1>1, <1>2, <1>3, <1>4, <1>5 DEF IInv

\* Every step keeps the inductive invariant.
LEMMA IInvStep == IInv /\ [Next]_vars => IInv'
<1> SUFFICES ASSUME IInv, [Next]_vars PROVE IInv'
  OBVIOUS
<1>1. CASE UNCHANGED vars
  BY <1>1 DEF vars, IInv, TypeOK, PcOK, KeysOK, EvictedOldest, Bounded, HandleHeld,
              SweepCancelsNothing
<1>2. CASE \E k \in Keys : Finish(k)
  BY <1>2, FinishStep
<1> QED
  BY <1>1, <1>2, ReapStep, DropStep, IssueStep, ParkStep DEF Next, Matlab

\* The inductive invariant, for any number of puts and any size of registry.
THEOREM Invariant == Spec => []IInv
<1>1. Init => IInv
  BY InitIInv
<1>2. IInv /\ [Next]_vars => IInv'
  BY IInvStep
<1> QED
  BY <1>1, <1>2, PTL DEF Spec

\* The registry never holds more handles than MAX_PENDING_PUTS: parking a handle
\* in a full one takes exactly one other out.
THEOREM RegistryBounded == Spec => []Bounded
<1>1. IInv => Bounded
  BY DEF IInv
<1> QED
  BY <1>1, Invariant, PTL

\* A put in flight always has its handle somewhere: in the registry, among those
\* about to be evicted, or still in pvaPutExec.
THEOREM HandlesHeld == Spec => []HandleHeld
<1>1. IInv => HandleHeld
  BY DEF IInv
<1> QED
  BY <1>1, Invariant, PTL

\* reapDonePuts destroys handles of completed puts only, as its comment claims.
THEOREM SweepsCancelNothing == Spec => []SweepCancelsNothing
<1>1. IInv => SweepCancelsNothing
  BY DEF IInv
<1> QED
  BY <1>1, Invariant, PTL

\* The types, for every bound.
THEOREM Typed == Spec => []TypeOK
<1>1. IInv => TypeOK
  BY DEF IInv
<1> QED
  BY <1>1, Invariant, PTL

-----------------------------------------------------------------------------
(* Cancellation.                                                           *)

\* The step that OldestCancelled speaks of, for every key.
CancelsOldest ==
  \A k \in Keys : put[k] = "live" /\ put'[k] = "dropped"
    => Cardinality({j \in pending : j > k}) = MaxPending

\* Only an eviction destroys the handle of a put in flight.
LEMMA CancelStep == IInv /\ [Next]_vars => CancelsOldest
<1> SUFFICES ASSUME IInv, [Next]_vars, NEW k \in Keys, put[k] = "live", put'[k] = "dropped"
             PROVE  Cardinality({j \in pending : j > k}) = MaxPending
  BY DEF CancelsOldest
<1>1. CASE Evict
  <2>1. k \in graveyard /\ pc = "evict"
    BY <1>1 DEF Evict
  <2>2. Cardinality(pending) = MaxPending /\ \A j \in pending : j > k
    BY <2>1 DEF IInv, EvictedOldest
  <2>3. {j \in pending : j > k} = pending
    BY <2>2
  <2> QED
    BY <2>2, <2>3
<1>2. CASE Bury
  BY <1>2 DEF Bury, IInv, SweepCancelsNothing
<1>3. CASE Issue
  BY <1>3 DEF Issue, IInv, TypeOK
<1>4. CASE \E h \in Keys : Finish(h)
  BY <1>4 DEF Finish, IInv, TypeOK
<1>5. CASE Park \/ Reap("issue") \/ Reap("idle") \/ UNCHANGED vars
  BY <1>5 DEF Park, Reap, vars
<1> QED
  BY <1>1, <1>2, <1>3, <1>4, <1>5 DEF Next, Matlab

\* A put that has not completed is cancelled only to make room in a registry full
\* of puts issued after it, however many puts there are.
THEOREM CancelsOnlyOldest == Spec => OldestCancelled
<1>1. IInv /\ [Next]_vars => [CancelsOldest]_vars
  BY CancelStep
<1> QED
  BY <1>1, Invariant, PTL DEF Spec, OldestCancelled, CancelsOldest
=============================================================================
