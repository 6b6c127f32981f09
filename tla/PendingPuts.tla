---------------------------- MODULE PendingPuts ------------------------------
(***************************************************************************)
(* The registry of one-shot no-wait puts of the PVXS backend               *)
(* (src/glue/pvaGlue_pvxs.cpp: g_pendingPuts, g_donePuts, reapDonePuts and *)
(* the parking end of pvaPutExec), over all channels.  Dropping the handle *)
(* of an operation cancels it, so the MATLAB thread parks the handle until *)
(* the operation's callback, on a PVXS worker thread, has queued its key.  *)
(*                                                                         *)
(* One action is one critical section of g_putLock, or one use of handles  *)
(* outside it: the callback can run between any two of them.               *)
(***************************************************************************)
EXTENDS Naturals, FiniteSets

CONSTANTS
  MaxKeys,     \* bound on g_putSeq: the one-shot no-wait puts issued
  MaxPending   \* MAX_PENDING_PUTS

ASSUME SizesAssumption == MaxKeys \in Nat /\ MaxPending \in Nat \ {0}

Keys == 1..MaxKeys

VARIABLES
  putSeq,      \* g_putSeq
  pending,     \* keys of g_pendingPuts
  donePuts,    \* keys of g_donePuts: a vector whose order no code depends on
  put,         \* the operation of each key
  pc,          \* where the MATLAB thread is
  graveyard    \* handles it is about to destroy

vars == <<putSeq, pending, donePuts, put, pc, graveyard>>

Init ==
  /\ putSeq = 0 /\ pending = {} /\ donePuts = {}
  /\ put = [k \in Keys |-> "none"]
  /\ pc = "idle" /\ graveyard = {}

\* Keys a sweep leaves in g_donePuts: no handle is parked under them.
Kept == donePuts \ pending

\* Mutant: the sweep takes every parked handle.
SweptAll == pending

\* Mutant: the sweep stops before the newest key.
SweptButNewest == {k \in pending \cap donePuts : k < putSeq}

\* Handles a sweep takes out of g_pendingPuts.
Swept == pending \cap donePuts

\* reapDonePuts at the head of a put that will need a one-shot (to = "issue"),
\* or of a warm put or pvaClear (to = "idle").
Reap(to) ==
  /\ pc = "idle"
  /\ graveyard' = Swept
  /\ pending' = pending \ Swept
  /\ donePuts' = Kept
  /\ pc' = IF to = "issue" THEN "bury" ELSE "buryOnly"
  /\ UNCHANGED <<putSeq, put>>

\* The graveyard goes out of scope, outside the lock.
Bury ==
  /\ pc \in {"bury", "buryOnly"}
  /\ put' = [k \in Keys |-> IF k \in graveyard THEN "dropped" ELSE put[k]]
  /\ graveyard' = {}
  /\ pc' = IF pc = "bury" THEN "issue" ELSE "idle"
  /\ UNCHANGED <<putSeq, pending, donePuts>>

\* The key is taken and the operation issued: its callback may run from now on.
Issue ==
  /\ pc = "issue" /\ putSeq < MaxKeys
  /\ putSeq' = putSeq + 1
  /\ put' = [put EXCEPT ![putSeq + 1] = "live"]
  /\ pc' = "park"
  /\ UNCHANGED <<pending, donePuts, graveyard>>

\* Mutant: the newest parked put makes room.
Newest == {k \in pending : \A j \in pending : k >= j}

Oldest == {k \in pending : \A j \in pending : k <= j}

\* Mutant: one entry too many.
FullLate == Cardinality(pending) > MaxPending

\* The registry is full: a parked put has to make room.
Full == Cardinality(pending) >= MaxPending

\* Mutant: a full registry takes no more handles.
ParkIfRoom ==
  /\ pc = "park"
  /\ pending' = IF Full THEN pending ELSE pending \cup {putSeq}
  /\ pc' = "evict"
  /\ UNCHANGED <<putSeq, donePuts, put, graveyard>>

\* Mutant: the handle is parked under the key of the next put.
ParkNextKey ==
  /\ pc = "park"
  /\ graveyard' = IF Full THEN Oldest ELSE {}
  /\ pending' = (pending \ graveyard') \cup {putSeq + 1}
  /\ pc' = "evict"
  /\ UNCHANGED <<putSeq, donePuts, put>>

Park ==
  /\ pc = "park"
  /\ graveyard' = IF Full THEN Oldest ELSE {}
  /\ pending' = (pending \ graveyard') \cup {putSeq}
  /\ pc' = "evict"
  /\ UNCHANGED <<putSeq, donePuts, put>>

\* The evicted handle goes out of scope, outside the lock.
Evict ==
  /\ pc = "evict"
  /\ put' = [k \in Keys |-> IF k \in graveyard THEN "dropped" ELSE put[k]]
  /\ graveyard' = {}
  /\ pc' = "idle"
  /\ UNCHANGED <<putSeq, pending, donePuts>>

\* The result callback, on a worker thread.
Finish(k) ==
  /\ put[k] = "live"
  /\ put' = [put EXCEPT ![k] = "finished"]
  /\ donePuts' = donePuts \cup {k}
  /\ UNCHANGED <<putSeq, pending, pc, graveyard>>

Matlab == Bury \/ Issue \/ Park \/ Evict

Next ==
  \/ Reap("issue") /\ putSeq < MaxKeys
  \/ Reap("idle")
  \/ Matlab
  \/ \E k \in Keys : Finish(k)

Spec == Init /\ [][Next]_vars

\* Puts and clears keep coming, and each runs to its end.
FairSpec == Spec /\ WF_vars(Matlab) /\ WF_vars(Reap("idle"))

-----------------------------------------------------------------------------
\* Keys in use are those already numbered, and every container has its type.
TypeOK ==
  /\ putSeq \in 0..MaxKeys
  /\ pending \subseteq 1..putSeq /\ donePuts \subseteq 1..putSeq
  /\ put \in [Keys -> {"none", "live", "finished", "dropped"}]
  /\ pc \in {"idle", "bury", "buryOnly", "issue", "park", "evict"}
  /\ graveyard \subseteq 1..putSeq

\* The parked handles are bounded, whatever never completes.
Bounded == Cardinality(pending) <= MaxPending

\* No operation that may still run is without a handle that keeps it alive.
HandleHeld ==
  \A k \in Keys : put[k] = "live" =>
    k \in pending \cup graveyard \/ (pc = "park" /\ k = putSeq)

\* A sweep destroys completed operations only, and so cancels no put.
SweepCancelsNothing ==
  pc \in {"bury", "buryOnly"} => \A k \in graveyard : put[k] = "finished"

\* A put that has not completed is cancelled only when the registry is full of
\* puts issued after it.
OldestCancelled ==
  [][\A k \in Keys : put[k] = "live" /\ put'[k] = "dropped"
       => Cardinality({j \in pending : j > k}) = MaxPending]_vars

\* A completed put's handle is destroyed by a later put or clear, even when its
\* callback ran before the handle was parked.
FinishedReaped ==
  \A k \in Keys : put[k] = "finished" ~> put[k] = "dropped"
=============================================================================
