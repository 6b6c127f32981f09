-------------------------- MODULE WarmPutOrderProofs --------------------------
(* The proof that puts reach the wire in the order they were issued, for   *)
(* every bound and every behaviour of the connection and the server, so    *)
(* long as no one-shot is still unsent when the barrier's deadline passes. *)
EXTENDS WarmPutProofs, FiniteSetTheorems

-----------------------------------------------------------------------------
(* The argument.  Data is sent by the warm operation, with the newest put, *)
(* or by the oldest one-shot that waits for its INIT.  So it is enough that*)
(* the waiting one-shots carry ever newer puts, all newer than what was    *)
(* sent, and that none waits when the warm operation is fired.  That last  *)
(* is the work of the barrier for the one-shots issued while the channel   *)
(* had this warm operation, and of the order of the INIT replies for those *)
(* issued before.                                                          *)

\* One-shots created later carry puts issued later.
Later == \A o, q \in Ops : Unsent(o) /\ Unsent(q) /\ o < q => op[o].put < op[q].put

\* What waits is newer than what was sent.
Ahead == \A o \in Ops : Unsent(o) => \A i \in 1..Len(sent) : sent[i] < op[o].put

\* A warm operation whose INIT was answered left no older one-shot waiting, and an
\* operation not created yet has no answer.
RepliesInOrder ==
  /\ \A o, q \in Ops : op[q].role = "warm" /\ init[q].generation > 0 /\ Unsent(o) => q < o
  /\ \A o \in Ops : o > nops => init[o].generation = 0
  /\ call.pc = "await" => call.op = nops

\* A one-shot runs without a result, or is done; it never stops at Idle.
Running == {"connecting", "creating", "exec"}
ShotRuns(o) ==
  op[o].role = "shot" => \/ op[o].phase \in Running /\ op[o].event = "none"
                         \/ op[o].phase = "done"

\* A parked one-shot that waits holds the barrier of the channel's warm operation,
\* and an awaited one that waits is the one of the call.
Guarded ==
  /\ \A o \in Ops : Unsent(o) /\ ~op[o].wait /\ chan # 0 => op[o].guard = chan
  /\ \A o \in Ops : Unsent(o) /\ op[o].wait => call.pc = "waitShot" /\ call.op = o
  /\ \A o \in Ops : ShotRuns(o)

\* No one-shot waits when the warm operation is fired.
NoneWaits == call.pc = "fire" => \A o \in Ops : ~Unsent(o)

\* The parked one-shots whose callback has yet to lower the barrier of c.
Holds(c) == {o \in Ops : /\ op[o].role = "shot" /\ ~op[o].wait /\ op[o].guard = c
                         /\ op[o].phase \in Running \/ op[o].event # "none"}

\* The barrier is up for each of them.
BarrierUp == \A c \in Ops : st[c].barrier >= Cardinality(Holds(c))

\* Once its deadline has passed, none of them is still to send its data.
InTime == \A c, o \in Ops : st[c].barrierLate /\ Unsent(o) => op[o].guard # c

OrderInv == /\ InOrder /\ Later /\ Ahead /\ RepliesInOrder /\ Guarded /\ NoneWaits
            /\ BarrierUp /\ InTime

-----------------------------------------------------------------------------
(* Counting the holders of a barrier.                                      *)

\* Fewer operations than the bound, so finitely many, hold a barrier.
LEMMA HoldsFinite == \A c : IsFiniteSet(Holds(c)) /\ Cardinality(Holds(c)) \in Nat
<1>1. IsFiniteSet(Ops)
  BY ConstantTypes, FS_Interval DEF Ops
<1>2. \A c : Holds(c) \subseteq Ops
  BY DEF Holds
<1> QED
  BY <1>1, <1>2, FS_Subset, FS_CardinalityType

\* A barrier that stays up stays high enough for fewer holders.
LEMMA FewerHold ==
  ASSUME TypeInv, BarrierUp, NEW c \in Ops, Holds(c)' \subseteq Holds(c),
         st'[c].barrier = st[c].barrier \/ st'[c].barrier = st[c].barrier + 1
  PROVE  st'[c].barrier >= Cardinality(Holds(c)')
<1>1. Cardinality(Holds(c)') <= Cardinality(Holds(c)) /\ Cardinality(Holds(c)') \in Nat
  BY HoldsFinite, FS_Subset, FS_CardinalityType
<1>2. st[c].barrier \in Nat /\ Cardinality(Holds(c)) \in Nat
  BY HoldsFinite DEF TypeInv, TypeOK, StType
<1> QED
  BY <1>1, <1>2 DEF BarrierUp

\* A barrier lowered by one is high enough without one of its holders.
LEMMA OneLess ==
  ASSUME TypeInv, BarrierUp, NEW c \in Ops, NEW o \in Holds(c),
         Holds(c)' \subseteq Holds(c) \ {o},
         st[c].barrier > 0 => st'[c].barrier = st[c].barrier - 1
  PROVE  st[c].barrier > 0 /\ st'[c].barrier >= Cardinality(Holds(c)')
<1> DEFINE H == Holds(c)
<1>1. IsFiniteSet(H) /\ Cardinality(H) \in Nat
  BY HoldsFinite
<1>2. /\ IsFiniteSet(H \ {o})
      /\ Cardinality(H \ {o}) = Cardinality(H) - 1
  BY <1>1, FS_RemoveElement
<1>3. Cardinality(Holds(c)') <= Cardinality(H \ {o}) /\ Cardinality(Holds(c)') \in Nat
      /\ Cardinality(H \ {o}) \in Nat
  BY <1>2, FS_Subset, FS_CardinalityType
<1>4. st[c].barrier \in Nat /\ st[c].barrier >= Cardinality(H)
  BY DEF TypeInv, TypeOK, StType, BarrierUp
<1> HIDE DEF H
<1> QED
  BY <1>1, <1>2, <1>3, <1>4

\* A barrier raised by one is high enough for one more holder.
LEMMA OneMore ==
  ASSUME TypeInv, BarrierUp, NEW c \in Ops, NEW o,
         Holds(c)' \subseteq Holds(c) \cup {o}, st'[c].barrier = st[c].barrier + 1
  PROVE  st'[c].barrier >= Cardinality(Holds(c)')
<1> DEFINE H == Holds(c)
<1>1. IsFiniteSet(H) /\ Cardinality(H) \in Nat
  BY HoldsFinite
<1>2. /\ IsFiniteSet(H \cup {o}) /\ Cardinality(H \cup {o}) \in Nat
      /\ Cardinality(H \cup {o}) <= Cardinality(H) + 1
  <2> HIDE DEF H
  <2>1. IsFiniteSet(H \cup {o}) /\ Cardinality(H \cup {o}) = IF o \in H THEN Cardinality(H)
                                                          ELSE Cardinality(H) + 1
    BY <1>1, FS_AddElement
  <2>2. Cardinality(H \cup {o}) \in Nat
    BY <2>1, FS_CardinalityType
  <2> QED
    BY <1>1, <2>1, <2>2
<1>3. Cardinality(Holds(c)') <= Cardinality(H \cup {o}) /\ Cardinality(Holds(c)') \in Nat
  BY <1>2, FS_Subset, FS_CardinalityType
<1>4. st[c].barrier \in Nat /\ st[c].barrier >= Cardinality(H)
  BY DEF TypeInv, TypeOK, StType, BarrierUp
<1> HIDE DEF H
<1> QED
  BY <1>1, <1>2, <1>3, <1>4

-----------------------------------------------------------------------------
(* Steps after which the same one-shots wait, or fewer.                    *)

\* What waits after the step waited before it, for the same put and guard.
StillUnsent(o) == Unsent(o)' => /\ Unsent(o) /\ op'[o].put = op[o].put
                                /\ op'[o].wait = op[o].wait /\ op'[o].guard = op[o].guard

\* A step that sends nothing keeps the order of what waits.
LEMMA OrderQuiet ==
  ASSUME InOrder, Later, Ahead, sent' = sent, \A o \in Ops : StillUnsent(o)
  PROVE  InOrder' /\ Later' /\ Ahead'
<1>1. InOrder'
  BY DEF InOrder
<1>2. Later'
  BY DEF Later, StillUnsent
<1>3. Ahead'
  BY DEF Ahead, StillUnsent
<1> QED
  BY <1>1, <1>2, <1>3

\* Sending a put newer than all that was sent, and older than all that waits.
LEMMA OrderSend ==
  ASSUME TypeInv, InOrder, Later, Ahead, NEW p \in Puts, sent' = Append(sent, p),
         \A i \in 1..Len(sent) : sent[i] < p,
         \A o \in Ops : StillUnsent(o), \A o \in Ops : Unsent(o)' => p < op[o].put
  PROVE  InOrder' /\ Later' /\ Ahead'
<1>1. /\ sent \in Seq(Puts) /\ Len(sent) \in Nat /\ Len(sent') = Len(sent) + 1
      /\ \A i \in 1..Len(sent) : sent'[i] = sent[i]
      /\ sent'[Len(sent) + 1] = p
  BY DEF TypeInv, TypeOK
<1>2. \A i \in 1..Len(sent') : i \in 1..Len(sent) \/ i = Len(sent) + 1
  BY <1>1
<1>3. InOrder'
  <2> SUFFICES ASSUME NEW i \in 1..Len(sent'), NEW j \in 1..Len(sent'), i < j
               PROVE  sent'[i] < sent'[j]
    BY DEF InOrder
  <2>1. i \in 1..Len(sent)
    BY <1>1, <1>2
  <2>2. CASE j \in 1..Len(sent)
    BY <1>1, <2>1, <2>2 DEF InOrder
  <2>3. CASE j = Len(sent) + 1
    BY <1>1, <2>1, <2>3
  <2> QED
    BY <1>2, <2>2, <2>3
<1>4. Later'
  BY DEF Later, StillUnsent
<1>5. Ahead'
  <2> SUFFICES ASSUME NEW o \in Ops, Unsent(o)', NEW i \in 1..Len(sent')
               PROVE  sent'[i] < op'[o].put
    BY DEF Ahead
  <2>1. Unsent(o) /\ op'[o].put = op[o].put /\ p < op[o].put
    BY DEF StillUnsent
  <2>2. CASE i \in 1..Len(sent)
    BY <1>1, <2>1, <2>2 DEF Ahead
  <2>3. CASE i = Len(sent) + 1
    BY <1>1, <2>1, <2>3
  <2> QED
    BY <1>2, <2>2, <2>3
<1> QED
  BY <1>3, <1>4, <1>5

\* A step that moves no handle and answers no INIT keeps the rest of the argument.
LEMMA GuardsQuiet ==
  ASSUME TypeInv, RepliesInOrder, Guarded, NoneWaits, \A o \in Ops : StillUnsent(o),
         \A o \in Ops : op'[o].role = op[o].role /\ op'[o].fresh = op[o].fresh,
         \A o \in Ops : ShotRuns(o)',
         \A o \in Ops : init'[o].generation = init[o].generation, PlaceKept
  PROVE  RepliesInOrder' /\ Guarded' /\ NoneWaits'
<1>1. RepliesInOrder'
  BY DEF RepliesInOrder, StillUnsent, PlaceKept
<1>2. Guarded'
  BY DEF Guarded, StillUnsent, PlaceKept
<1>3. NoneWaits'
  BY DEF NoneWaits, StillUnsent, PlaceKept
<1> QED
  BY <1>1, <1>2, <1>3

\* While the channel is connected, the waiting one-shots all await an INIT reply,
\* so the one whose turn it is, is the oldest.
LEMMA OldestReplies ==
  ASSUME TypeInv, ProtoInv, Guarded, NEW o \in Ops, NextInit(o)
  PROVE  \A q \in Ops : Unsent(q) => o <= q
BY DEF ProtoInv, Connected, Guarded, NextInit, Unsent, Waiting, ShotRuns, Running

\* A callback lets fewer one-shots wait.
LEMMA WorkerUnsent ==
  ASSUME TypeInv, Guarded, NEW o \in Ops, Worker(o)
  PROVE  \A q \in Ops : StillUnsent(q) /\ ShotRuns(q)'
<1>1. op[o] \in OpType /\ op \in [Ops -> OpType]
  BY DEF TypeInv, TypeOK
<1>2. /\ \A q \in Ops : Kept(q)
      /\ \A q \in Ops \ {o} : op'[q] = op[q]
  BY WorkerEffect
<1>3. op[o].role = "shot" =>
        \/ op'[o].phase = op[o].phase /\ op'[o].event = "none"
        \/ op'[o].phase = "exec" /\ op'[o].event = op[o].event /\ op[o].phase = "creating"
        \/ op'[o].phase = "done"
  BY <1>1, NowKeeps DEF Worker, InitReply, ShotBuild, ShotMistyped, InitRefused, Refused,
     NoWaitDone, WaitDone, ShotDone, Ack, NextInit
<1>4. ShotRuns(o)'
  BY <1>2, <1>3 DEF Guarded, Kept, ShotRuns, Running
<1>5. StillUnsent(o)
  BY <1>2, <1>3 DEF StillUnsent, Unsent, Waiting, Kept
<1>6. \A q \in Ops \ {o} : StillUnsent(q) /\ ShotRuns(q)'
  BY <1>2 DEF StillUnsent, Unsent, Guarded, ShotRuns
<1> QED
  BY <1>4, <1>5, <1>6

\* A callback sends the put of the oldest one-shot, or nothing.
LEMMA WorkerKeepsOrder ==
  ASSUME TypeInv, HandleInv, ProtoInv, OrderInv, NEW o \in Ops, Worker(o)
  PROVE  InOrder' /\ Later' /\ Ahead' /\ RepliesInOrder' /\ Guarded' /\ NoneWaits'
<1> USE DEF OrderInv
<1>1. op[o] \in OpType /\ op \in [Ops -> OpType] /\ init[o] \in InitType
      /\ init \in [Ops -> InitType]
  BY DEF TypeInv, TypeOK
<1>2. /\ \A q \in Ops : Kept(q)
      /\ \A q \in Ops \ {o} : op'[q] = op[q]
      /\ PlaceKept
  BY WorkerEffect
<1>3. \A q \in Ops : StillUnsent(q) /\ ShotRuns(q)'
  BY WorkerUnsent
<1>4. \A q \in Ops : op'[q].role = op[q].role /\ op'[q].fresh = op[q].fresh
  BY <1>2 DEF Kept
<1>5. CASE ShotBuild(o)
  <2>1. NextInit(o) /\ op[o].role = "shot" /\ sent' = Append(sent, op[o].put) /\ init' = init
        /\ op[o].phase = "creating"
    BY <1>5 DEF ShotBuild, NextInit
  <2>2. Unsent(o) /\ op[o].put \in Puts
    BY <2>1 DEF Unsent, Waiting, TypeInv, CallOK
  <2>3. ~Unsent(o)'
    <3>1. op'[o].phase = "exec"
      BY <1>1, <1>5, NowKeeps DEF ShotBuild
    <3> QED
      BY <3>1 DEF Unsent, Waiting
  <2>4. \A q \in Ops : Unsent(q)' => op[o].put < op[q].put
    <3>1. ASSUME NEW q \in Ops, Unsent(q)' PROVE op[o].put < op[q].put
      <4>1. Unsent(q) /\ q # o /\ o <= q
        BY <1>3, <2>1, <2>3, <3>1, OldestReplies DEF StillUnsent
      <4>2. o < q
        BY <4>1, ConstantTypes
      <4> QED
        BY <2>2, <4>1, <4>2 DEF Later
    <3> QED
      BY <3>1
  <2>5. \A i \in 1..Len(sent) : sent[i] < op[o].put
    BY <2>2 DEF Ahead
  <2>6. InOrder' /\ Later' /\ Ahead'
    BY <1>3, <2>1, <2>2, <2>4, <2>5, OrderSend
  <2> QED
    BY <1>2, <1>3, <1>4, <2>1, <2>6, GuardsQuiet
<1>6. CASE InitReply(o)
  <2>1. NextInit(o) /\ op[o].role = "warm" /\ sent' = sent
    BY <1>6 DEF InitReply
  <2>2. \A q \in Ops \ {o} : init'[q] = init[q]
    BY <1>1, <1>6 DEF InitReply
  <2>3. \A q \in Ops : Unsent(q)' => o < q
    <3>1. ASSUME NEW q \in Ops, Unsent(q)' PROVE o < q
      <4>1. Unsent(q) /\ q # o /\ o <= q
        BY <1>3, <2>1, <3>1, OldestReplies DEF StillUnsent, Unsent
      <4> QED
        BY <4>1, ConstantTypes
    <3> QED
      BY <3>1
  <2>4. InOrder' /\ Later' /\ Ahead'
    BY <1>3, <2>1, OrderQuiet
  <2>5. RepliesInOrder'
    <3>1. \A q \in Ops : q > nops => q # o
      BY <2>1 DEF HandleInv, Uncreated
    <3>2. \A p, q \in Ops : op'[q].role = "warm" /\ init'[q].generation > 0 /\ Unsent(p)' => q < p
      BY <1>3, <1>4, <2>2, <2>3 DEF RepliesInOrder, StillUnsent
    <3> QED
      BY <1>2, <2>2, <3>1, <3>2 DEF RepliesInOrder, PlaceKept
  <2>6. Guarded' /\ NoneWaits'
    BY <1>2, <1>3 DEF Guarded, NoneWaits, StillUnsent, PlaceKept
  <2> QED
    BY <2>4, <2>5, <2>6
<1>7. CASE ~ShotBuild(o) /\ ~InitReply(o)
  <2>1. sent' = sent
    BY <1>7 DEF Worker, ShotMistyped, InitRefused, Refused, NoWaitDone, WaitDone, ShotDone,
       Ack
  <2>2. \A q \in Ops : init'[q].generation = init[q].generation
    <3>1. init' = init \/ init' = [init EXCEPT ![o] = [init[o] EXCEPT !.failure = TRUE]]
      BY <1>1, <1>7 DEF Worker, ShotMistyped, InitRefused, Refused, NoWaitDone, WaitDone,
         ShotDone, Ack
    <3> QED
      BY <1>1, <3>1 DEF InitType
  <2>3. InOrder' /\ Later' /\ Ahead'
    BY <1>3, <2>1, OrderQuiet
  <2> QED
    BY <1>2, <1>3, <1>4, <2>2, <2>3, GuardsQuiet
<1> QED
  BY <1>5, <1>6, <1>7

\* Deadlines, the client and the IOC send nothing and let nothing new wait.
LEMMA OutsideUnsent ==
  ASSUME TypeInv, OrderInv, Outside PROVE \A q \in Ops : StillUnsent(q) /\ ShotRuns(q)'
<1> USE DEF OrderInv
<1>1. \A q \in Ops : op[q] \in OpType
  BY DEF TypeInv, TypeOK
<1>2. \A q \in Ops : \/ op'[q] = op[q]
                     \/ /\ op[q].phase = "connecting" /\ op'[q].phase = "creating"
                        /\ op'[q].event = op[q].event
                     \/ /\ op[q].phase \in {"creating", "idle"} /\ op'[q].phase = "connecting"
                        /\ op'[q].event = op[q].event
                     \/ op'[q].phase = "done"
  BY <1>1, NowKeeps DEF Outside, BarrierExpires, BusyExpires, Connect, Disconnect, NoticeUp,
     Process
<1> QED
  BY <1>2, OutsideEffect
     DEF StillUnsent, Unsent, Waiting, Kept, Guarded, ShotRuns, Running

\* Nor do they disturb the order.
LEMMA OutsideKeepsOrder ==
  ASSUME TypeInv, OrderInv, Outside
  PROVE  InOrder' /\ Later' /\ Ahead' /\ RepliesInOrder' /\ Guarded' /\ NoneWaits'
<1>1. (\A q \in Ops : Kept(q)) /\ PlaceKept /\ init' = init /\ sent' = sent
  BY OutsideEffect
<1>2. \A q \in Ops : StillUnsent(q) /\ ShotRuns(q)'
  BY OutsideUnsent
<1>3. InOrder' /\ Later' /\ Ahead'
  BY <1>1, <1>2, OrderQuiet DEF OrderInv
<1> QED
  BY <1>1, <1>2, <1>3, GuardsQuiet DEF OrderInv, Kept

-----------------------------------------------------------------------------
(* The steps of the MATLAB thread.                                         *)

\* It comes to a wait, and to the firing of a put, by one step each.
LEMMA MatlabPlaces ==
  ASSUME TypeInv, Matlab
  PROVE  /\ call'.pc = "await" => OpenCreate
         /\ call'.pc = "fire" => CheckWarm
         /\ call'.pc = "waitShot" => ShotWait
         /\ call.pc = "waitShot" => ShotReturns \/ ShotTimeout
<1>1. call \in CallType
  BY DEF TypeInv, TypeOK
<1>2. CASE PvaClear \/ EvictChannel \/ ReapElsewhere \/ OpenDropDead
  BY <1>2 DEF PvaClear, EvictChannel, ReapElsewhere, OpenDropDead
<1>3. CASE ~(PvaClear \/ EvictChannel \/ ReapElsewhere \/ OpenDropDead)
  BY <1>1, <1>3, GotoType, ReturnType
     DEF Matlab, Open, Exec, OpenReuse, OpenCreate, OpenReady, OpenFails, BuildArg,
         BuildFails, OpenThrows, Reap, CheckDrop, CheckWarm, CheckShot, FireWait,
         FireNoWait, FireThrows, WarmSucceeds, WarmFails, WarmTimeout, ShotWait,
         ShotNoWait, ShotThrows, ShotReturns, ShotTimeout, StartPut, CallType
<1> QED
  BY <1>2, <1>3

\* The channel's entry is set by a put call whose operation is ready, and by none else.
LEMMA MatlabChan == ASSUME Matlab, chan' # 0, ~OpenReady PROVE chan' = chan
BY DEF Matlab, Open, Exec, OpenReuse, OpenDropDead, OpenCreate, OpenFails, BuildArg,
   BuildFails, OpenThrows, Reap, CheckDrop, CheckWarm, CheckShot, FireWait, FireNoWait,
   FireThrows, WarmSucceeds, WarmFails, WarmTimeout, ShotWait, ShotNoWait, ShotThrows,
   ShotReturns, ShotTimeout, PvaClear, EvictChannel, ReapElsewhere, StartPut, DropPutChan,
   regVars

\* What waits after the step waited before, or is the one-shot just created.
LEMMA MatlabUnsent ==
  ASSUME TypeInv, HandleInv, Matlab, NEW o \in Ops
  PROVE  \/ StillUnsent(o) /\ (Unsent(o)' => op'[o] = op[o])
         \/ /\ o = nops + 1 /\ nops' = o /\ op'[o] = NewOp /\ Unsent(o)'
            /\ call.pc = "shot" /\ (ShotWait \/ ShotNoWait)
<1>1. CASE op'[o] = op[o] \/ op'[o].role = "none"
  BY <1>1 DEF StillUnsent, Unsent
<1>2. CASE op'[o] = Fired
  <2>1. op'[o].role = "warm"
    BY <1>2 DEF Fired
  <2> QED
    BY <2>1 DEF StillUnsent, Unsent
<1>3. CASE op'[o] = NewOp /\ OpenCreate
  <2>1. op'[o].role = "warm"
    BY <1>3 DEF NewOp, OpenCreate, Created
  <2> QED
    BY <2>1 DEF StillUnsent, Unsent
<1>4. CASE o = nops + 1 /\ nops' = o /\ op'[o] = NewOp /\ (ShotWait \/ ShotNoWait)
  <2>1. call.pc = "shot"
    BY <1>4 DEF ShotWait, ShotNoWait
  <2>2. NewOp.role = "shot" /\ NewOp.phase \in {"creating", "connecting"}
    BY <2>1 DEF NewOp, Created
  <2>3. Unsent(o)'
    BY <1>4, <2>2 DEF Unsent, Waiting
  <2> QED
    BY <1>4, <2>1, <2>3
<1> QED
  BY <1>1, <1>2, <1>3, <1>4, MatlabOps DEF MatlabOp

\* An awaited one-shot that waits after the step is the one just created: leaving the
\* wait for one destroys it.
LEMMA MatlabAwaits ==
  ASSUME TypeInv, HandleInv, OrderInv, Matlab, NEW o \in Ops, Unsent(o)', op'[o].wait
  PROVE  ShotWait /\ o = nops + 1
<1>1. CASE StillUnsent(o)
  <2>1. Unsent(o) /\ op[o].wait
    BY <1>1 DEF StillUnsent
  <2>2. call.pc = "waitShot" /\ call.op = o
    BY <2>1 DEF OrderInv, Guarded
  <2>3. op' = Destroyed({o})
    BY <2>2, MatlabPlaces DEF ShotReturns, ShotTimeout
  <2>4. op'[o].role = "none"
    BY <2>3, DestroyedEffect
  <2> QED
    BY <2>4 DEF Unsent
<1>2. CASE o = nops + 1 /\ op'[o] = NewOp /\ call.pc = "shot" /\ ShotNoWait
  <2>1. ~NewOp.wait
    BY <1>2 DEF NewOp, Created, ShotNoWait
  <2> QED
    BY <1>2, <2>1
<1> QED
  BY <1>1, <1>2, MatlabUnsent

\* The put of the call goes on the wire behind every other, or takes its place behind
\* every other one-shot that waits.
LEMMA MatlabKeepsOrder ==
  ASSUME TypeInv, HandleInv, SentInv, OrderInv, Matlab PROVE InOrder' /\ Later' /\ Ahead'
<1> USE DEF OrderInv
<1>1. /\ sent \in Seq(Puts) /\ Len(sent) \in Nat /\ call.put \in Nat
      /\ \A i \in 1..Len(sent) : sent[i] \in Nat
  <2>1. sent \in Seq(Puts) /\ call.put \in 0..MaxPuts
    BY DEF TypeInv, TypeOK, CallType
  <2>2. Len(sent) \in Nat /\ \A i \in 1..Len(sent) : sent[i] \in Puts
    BY <2>1
  <2>3. call.put \in Nat
    BY <2>1, ConstantTypes
  <2> QED
    BY <2>1, <2>2, <2>3, ConstantTypes
<1>2. call.pc \in Early => \A i \in 1..Len(sent) : sent[i] < call.put
  <2>1. ASSUME call.pc \in Early, NEW i \in 1..Len(sent) PROVE sent[i] < call.put
    <3>1. sent[i] <= call.put /\ sent[i] # call.put
      BY <2>1 DEF SentInv, Wire
    <3> QED
      BY <1>1, <3>1
  <2> QED
    BY <2>1
<1>3. CASE FireWait \/ FireNoWait
  <2>1. call.pc = "fire" /\ chan \in Ops /\ ReExecPut(chan) /\ call.put \in Puts
    BY <1>3 DEF FireWait, FireNoWait, TypeInv, CallOK
  <2>2. \A o \in Ops : StillUnsent(o)
    BY <1>3, <2>1, MatlabUnsent
  <2>3. \A o \in Ops : ~Unsent(o)'
    BY <2>1, <2>2 DEF NoneWaits, StillUnsent
  <2>4. CASE sent' = Append(sent, call.put)
    BY <1>2, <2>1, <2>2, <2>3, <2>4, OrderSend DEF Early
  <2>5. CASE sent' = sent
    BY <2>2, <2>5, OrderQuiet
  <2> QED
    BY <2>1, <2>4, <2>5 DEF ReExecPut
<1>4. CASE ~FireWait /\ ~FireNoWait
  <2>1. sent' = sent
    BY <1>4 DEF Matlab, Open, Exec, OpenReuse, OpenDropDead, OpenCreate, OpenReady,
       OpenFails, BuildArg, BuildFails, OpenThrows, Reap, CheckDrop, CheckWarm, CheckShot,
       FireThrows, WarmSucceeds, WarmFails, WarmTimeout, ShotWait, ShotNoWait, ShotThrows,
       ShotReturns, ShotTimeout, PvaClear, EvictChannel, ReapElsewhere, StartPut
  <2>2. CASE ~ShotWait /\ ~ShotNoWait
    <3>1. \A o \in Ops : StillUnsent(o)
      BY <2>2, MatlabUnsent
    <3> QED
      BY <2>1, <3>1, OrderQuiet
  <2>3. CASE ShotWait \/ ShotNoWait
    <3> DEFINE n == nops + 1
    <3>1. call.pc = "shot" /\ n \in Ops /\ nops \in Nat
      <4>1. call.pc = "shot" /\ nops < MaxOps
        BY <2>3 DEF ShotWait, ShotNoWait
      <4>2. nops \in Nat
        BY ConstantTypes DEF TypeInv, TypeOK
      <4> QED
        BY <4>1, <4>2, NewHandle
    <3>2. NewOp.put = call.put /\ NewOp.role = "shot"
      BY <3>1 DEF NewOp, Created
    <3>3. ASSUME NEW o \in Ops, Unsent(o)'
          PROVE  \/ o = n /\ op'[o].put = call.put
                 \/ o <= nops /\ Unsent(o) /\ op'[o].put = op[o].put /\ op[o].put < call.put
      <4>1. CASE o = n /\ op'[o] = NewOp
        BY <3>2, <4>1
      <4>2. CASE StillUnsent(o)
        <5>1. Unsent(o) /\ op'[o].put = op[o].put
          BY <3>3, <4>2 DEF StillUnsent
        <5>2. o <= nops
          BY <3>1, <5>1, ConstantTypes DEF HandleInv, Uncreated, Unsent
        <5>3. op[o].put <= call.put /\ op[o].put # call.put
          BY <3>1, <5>1 DEF SentInv, Early
        <5>4. op[o].put \in Nat
          BY <5>1, ConstantTypes DEF Unsent, TypeInv, CallOK
        <5> QED
          BY <1>1, <5>1, <5>2, <5>3, <5>4
      <4> QED
        BY <4>1, <4>2, MatlabUnsent
    <3>4. Later'
      <4> SUFFICES ASSUME NEW o \in Ops, NEW q \in Ops, Unsent(o)', Unsent(q)', o < q
                   PROVE  op'[o].put < op'[q].put
        BY DEF Later
      <4>1. o <= nops /\ Unsent(o) /\ op'[o].put = op[o].put /\ op[o].put < call.put
        <5>1. o # n \/ ~(q <= nops)
          BY <3>1, ConstantTypes
        <5>2. o = n => q # n
          BY <3>1, ConstantTypes
        <5> QED
          BY <3>3, <5>1, <5>2
      <4>2. \/ op'[q].put = call.put
            \/ Unsent(q) /\ op'[q].put = op[q].put
        BY <3>3
      <4> QED
        BY <4>1, <4>2 DEF Later
    <3>5. Ahead'
      <4> SUFFICES ASSUME NEW o \in Ops, Unsent(o)', NEW i \in 1..Len(sent)
                   PROVE  sent[i] < op'[o].put
        BY <2>1 DEF Ahead
      <4>1. sent[i] < call.put
        BY <1>2, <3>1 DEF Early
      <4> QED
        BY <3>3, <4>1 DEF Ahead
    <3>6. InOrder'
      BY <2>1 DEF InOrder
    <3> QED
      BY <3>4, <3>5, <3>6
  <2> QED
    BY <2>2, <2>3
<1> QED
  BY <1>3, <1>4

\* A call that finds its operation ready finds no one-shot waiting: all of them are
\* older, and their turn came first.
LEMMA ReadyFindsNone ==
  ASSUME TypeInv, HandleInv, RepliesInOrder, OpenReady PROVE \A o \in Ops : ~Unsent(o)
<1> SUFFICES ASSUME NEW o \in Ops, Unsent(o) PROVE FALSE
  OBVIOUS
<1>1. /\ call.pc = "await" /\ init[call.op].generation > 0 /\ call.op \in Ops
      /\ op[call.op].role = "warm" /\ call.op = nops
  BY DEF OpenReady, TypeInv, CallOK, HandleInv, CallHolds, RepliesInOrder
<1>2. call.op < o
  BY <1>1 DEF RepliesInOrder
<1>3. ~(o > nops)
  BY DEF HandleInv, Uncreated, Unsent
<1> QED
  BY <1>1, <1>2, <1>3, ConstantTypes

\* A put call that chooses the warm operation finds no one-shot waiting: one would
\* hold the barrier.
LEMMA CheckFindsNone ==
  ASSUME TypeInv, ProtoInv, OrderInv, CheckWarm PROVE \A o \in Ops : ~Unsent(o)
<1> SUFFICES ASSUME NEW o \in Ops, Unsent(o) PROVE FALSE
  OBVIOUS
<1>1. chan \in Ops /\ chan # 0 /\ call.pc = "check"
  BY DEF CheckWarm, TypeInv, TypeOK, Ops
<1>2. ~op[o].wait /\ op[o].guard = chan
  BY <1>1 DEF OrderInv, Guarded
<1>3. o \in Holds(chan)
  BY <1>2 DEF Holds, Unsent, Waiting, OrderInv, Guarded, ShotRuns, Running
<1>4. Cardinality(Holds(chan)) \in Nat /\ Cardinality(Holds(chan)) # 0
  BY <1>3, HoldsFinite, FS_EmptySet
<1>5. st[chan].barrier \in Nat
  BY <1>1 DEF TypeInv, TypeOK, StType
<1>6. st[chan].barrier >= Cardinality(Holds(chan)) /\ ~st[chan].barrierLate
  BY <1>1, <1>2 DEF OrderInv, BarrierUp, InTime
<1>7. st[chan].barrier = 0
  BY <1>6 DEF CheckWarm, WarmOk, ChanFree
<1> QED
  BY <1>4, <1>5, <1>6, <1>7

\* The MATLAB thread keeps the guards of what waits.
LEMMA MatlabKeepsGuards ==
  ASSUME TypeInv, HandleInv, ProtoInv, OrderInv, Matlab
  PROVE  RepliesInOrder' /\ Guarded' /\ NoneWaits'
<1> USE DEF OrderInv
<1>1. init' = init
  BY MatlabPhases
<1>2. nops \in Nat /\ (chan # 0 => chan \in Ops) /\ \A o \in Ops : o \in Nat
  BY ConstantTypes DEF TypeInv, TypeOK, Ops
<1>3. OpenCreate \/ ShotWait \/ ShotNoWait => nops' = nops + 1 /\ nops + 1 \in Ops
  BY NewHandle DEF OpenCreate, ShotWait, ShotNoWait
<1>4. ~(OpenCreate \/ ShotWait \/ ShotNoWait) => nops' = nops
  BY DEF Matlab, Open, Exec, OpenReuse, OpenDropDead, OpenReady, OpenFails, BuildArg,
     BuildFails, OpenThrows, Reap, CheckDrop, CheckWarm, CheckShot, FireWait, FireNoWait,
     FireThrows, WarmSucceeds, WarmFails, WarmTimeout, ShotThrows, ShotReturns, ShotTimeout,
     PvaClear, EvictChannel, ReapElsewhere, StartPut
<1>5. \A o \in Ops : o > nops' => o > nops
  BY <1>2, <1>3, <1>4
<1>6. ASSUME NEW q \in Ops, op'[q].role = "warm", init[q].generation > 0
      PROVE  op[q].role = "warm"
  <2>1. ASSUME q = nops + 1 PROVE FALSE
    BY <1>2, <1>6, <2>1 DEF RepliesInOrder
  <2>2. q = chan => op[q].role = "warm"
    BY <1>2, ConstantTypes DEF HandleInv, Holders
  <2> QED
    BY <1>6, <2>1, <2>2, MatlabOps DEF MatlabOp
<1>7. ASSUME NEW o \in Ops, NEW q \in Ops, op'[q].role = "warm", init[q].generation > 0,
             Unsent(o)'
      PROVE  q < o
  <2>1. op[q].role = "warm"
    BY <1>6, <1>7
  <2>2. CASE Unsent(o)
    BY <1>7, <2>1, <2>2 DEF RepliesInOrder
  <2>3. CASE o = nops + 1
    <3>1. ~(q > nops)
      BY <2>1 DEF HandleInv, Uncreated
    <3> QED
      BY <1>2, <2>3, <3>1
  <2> QED
    BY <1>7, <2>2, <2>3, MatlabUnsent DEF StillUnsent
<1>8. call'.pc = "await" => call'.op = nops'
  <2>1. OpenCreate => call'.op = nops + 1
    BY DEF OpenCreate, TypeInv, TypeOK, CallType
  <2> QED
    BY <1>3, <2>1, MatlabPlaces
<1>9. RepliesInOrder'
  BY <1>1, <1>5, <1>7, <1>8 DEF RepliesInOrder
<1>10. ASSUME NEW o \in Ops, Unsent(o)', ~op'[o].wait, chan' # 0 PROVE op'[o].guard = chan'
  <2>1. CASE OpenReady
    <3>1. op' = op
      BY <2>1 DEF OpenReady
    <3> QED
      BY <1>10, <2>1, <3>1, ReadyFindsNone DEF Unsent
  <2>2. CASE ~OpenReady
    <3>1. chan' = chan
      BY <1>10, <2>2, MatlabChan
    <3>2. CASE StillUnsent(o)
      BY <1>10, <3>1, <3>2 DEF StillUnsent, Guarded
    <3>3. CASE op'[o] = NewOp /\ call.pc = "shot" /\ ShotNoWait
      <4>1. NewOp.guard = chan
        BY <3>3 DEF NewOp, Created, ShotNoWait
      <4> QED
        BY <3>1, <3>3, <4>1
    <3>4. ASSUME op'[o] = NewOp, call.pc = "shot", ShotWait PROVE FALSE
      <4>1. NewOp.wait
        BY <3>4 DEF NewOp, Created, ShotWait
      <4> QED
        BY <1>10, <3>4, <4>1
    <3> QED
      BY <3>2, <3>3, <3>4, MatlabUnsent
  <2> QED
    BY <2>1, <2>2
<1>11. ASSUME NEW o \in Ops, Unsent(o)', op'[o].wait
       PROVE  call'.pc = "waitShot" /\ call'.op = o
  <2>1. ShotWait /\ o = nops + 1
    BY <1>11, MatlabAwaits
  <2> QED
    BY <2>1 DEF ShotWait, TypeInv, TypeOK, CallType
<1>12. ASSUME NEW o \in Ops PROVE ShotRuns(o)'
  <2>1. NewOp.phase \in Running /\ NewOp.event = "none" /\ Fired.role # "shot"
    BY DEF NewOp, Created, Fired, Running
  <2> QED
    BY <2>1, MatlabOps DEF MatlabOp, Guarded, ShotRuns
<1>13. Guarded'
  BY <1>10, <1>11, <1>12 DEF Guarded
<1>14. NoneWaits'
  <2>1. CASE CheckWarm
    <3>1. op' = op
      BY <2>1 DEF CheckWarm
    <3> QED
      BY <2>1, <3>1, CheckFindsNone DEF NoneWaits, Unsent
  <2> QED
    BY <2>1, MatlabPlaces DEF NoneWaits
<1> QED
  BY <1>9, <1>13, <1>14

\* The MATLAB thread raises the barrier for every one-shot it parks.
LEMMA MatlabKeepsBarrier ==
  ASSUME TypeInv, HandleInv, OrderInv, Matlab PROVE BarrierUp'
<1> USE DEF OrderInv
<1>1. st \in [Ops -> StType] /\ chan \in 0..MaxOps /\ (chan # 0 => chan \in Ops)
  BY DEF TypeInv, TypeOK, Ops
<1>2. ASSUME NEW c \in Ops, NEW o \in Holds(c)', ~ShotNoWait PROVE o \in Holds(c)
  <2>1. o \in Ops /\ op'[o].role = "shot" /\ ~op'[o].wait
    BY <1>2 DEF Holds
  <2>2. ASSUME op'[o] = NewOp, OpenCreate \/ ShotWait PROVE FALSE
    <3>1. NewOp.role = "warm" \/ NewOp.wait
      BY <2>2 DEF NewOp, OpenCreate, ShotWait, Created
    <3>2. NewOp.role = "warm" => op'[o].role # "shot"
      BY <2>2
    <3> QED
      BY <2>1, <2>2, <3>1, <3>2
  <2>3. op'[o] # Fired
    BY <2>1 DEF Fired
  <2>4. op'[o] = op[o]
    BY <1>2, <2>1, <2>2, <2>3, MatlabOps DEF MatlabOp
  <2> QED
    BY <1>2, <2>4 DEF Holds
<1>3. CASE ~ShotNoWait
  <2>1. \A c \in Ops : st'[c].barrier = st[c].barrier \/ st'[c].barrier = st[c].barrier + 1
    <3>1. CASE FireNoWait \/ FireThrows
      <4>1. chan \in Ops
        BY <3>1 DEF FireNoWait, FireThrows, TypeInv, CallOK
      <4> QED
        BY <1>1, <3>1, <4>1 DEF FireNoWait, FireThrows, StType
    <3>2. CASE ShotThrows
      BY <1>1, <3>2 DEF ShotThrows, RaiseBarrier, StType
    <3>3. CASE ~FireNoWait /\ ~FireThrows /\ ~ShotThrows
      <4>1. st' = st
        BY <1>3, <3>3 DEF Matlab, Open, Exec, OpenReuse, OpenDropDead, OpenCreate,
           OpenReady, OpenFails, BuildArg, BuildFails, OpenThrows, Reap, CheckDrop,
           CheckWarm, CheckShot, FireWait, WarmSucceeds, WarmFails, WarmTimeout, ShotWait,
           ShotReturns, ShotTimeout, PvaClear, EvictChannel, ReapElsewhere, StartPut
      <4> QED
        BY <4>1
    <3> QED
      BY <3>1, <3>2, <3>3
  <2>2. ASSUME NEW c \in Ops PROVE st'[c].barrier >= Cardinality(Holds(c)')
    <3>1. Holds(c)' \subseteq Holds(c)
      BY <1>2, <1>3
    <3> QED
      BY <2>1, <3>1, FewerHold
  <2> QED
    BY <2>1, <2>2 DEF BarrierUp
<1>4. CASE ShotNoWait
  <2> DEFINE n == nops + 1
  <2>1. call.pc = "shot" /\ ~call.wait /\ n \in Ops
    BY <1>4, NewHandle DEF ShotNoWait
  <2>2. NewOp.guard = chan
    BY <2>1 DEF NewOp, Created
  <2>3. ASSUME NEW c \in Ops, NEW o \in Holds(c)'
        PROVE  o \in Holds(c) \/ (o = n /\ c = chan)
    <3>1. o \in Ops /\ op'[o].role = "shot" /\ op'[o].guard = c
      BY <2>3 DEF Holds
    <3>2. CASE o = n /\ op'[o] = NewOp
      BY <2>2, <3>1, <3>2
    <3>3. CASE op'[o] = op[o]
      BY <2>3, <3>3 DEF Holds
    <3>4. op'[o] # Fired
      BY <3>1 DEF Fired
    <3> QED
      BY <3>1, <3>2, <3>3, <3>4, MatlabOps DEF MatlabOp
  <2>4. ASSUME NEW c \in Ops, c # chan
        PROVE  st'[c].barrier >= Cardinality(Holds(c)')
    <3>1. Holds(c)' \subseteq Holds(c)
      BY <2>3, <2>4
    <3>2. st'[c] = st[c]
      BY <1>1, <1>4, <2>4 DEF ShotNoWait, RaiseBarrier
    <3> QED
      BY <3>1, <3>2, FewerHold DEF BarrierUp
  <2>5. ASSUME NEW c \in Ops, c = chan
        PROVE  st'[c].barrier >= Cardinality(Holds(c)')
    <3>1. chan # 0
      BY <2>5, ConstantTypes
    <3>2. st'[c].barrier = st[c].barrier + 1
      BY <1>1, <1>4, <2>5, <3>1 DEF ShotNoWait, RaiseBarrier, StType
    <3>3. Holds(c)' \subseteq Holds(c) \cup {n}
      BY <2>3
    <3> QED
      BY <3>2, <3>3, OneMore
  <2> QED
    BY <2>4, <2>5 DEF BarrierUp
<1> QED
  BY <1>3, <1>4

\* Only the callback of a one-shot touches a barrier.
LEMMA WorkerBarrier ==
  ASSUME TypeInv, NEW o \in Ops, Worker(o), ~ShotDone(o)
  PROVE  \A c \in Ops : st'[c].barrier = st[c].barrier
                         /\ st'[c].barrierLate = st[c].barrierLate
<1>1. st \in [Ops -> StType]
  BY DEF TypeInv, TypeOK
<1>2. CASE NoWaitDone(o)
  BY <1>1, <1>2 DEF NoWaitDone, StType
<1>3. CASE WaitDone(o)
  BY <1>1, <1>3 DEF WaitDone, StType
<1>4. CASE ~NoWaitDone(o) /\ ~WaitDone(o)
  <2>1. st' = st
    BY <1>4 DEF Worker, InitReply, ShotBuild, ShotMistyped, InitRefused, Refused, Ack
  <2> QED
    BY <2>1
<1> QED
  BY <1>2, <1>3, <1>4

\* A callback lowers the barrier when it is done with a one-shot that holds it.
LEMMA WorkerKeepsBarrier ==
  ASSUME TypeInv, OrderInv, NEW o \in Ops, Worker(o) PROVE BarrierUp'
<1> USE DEF OrderInv
<1>1. /\ op[o] \in OpType /\ op \in [Ops -> OpType] /\ st \in [Ops -> StType]
      /\ op[o].guard \in 0..MaxOps
  BY DEF TypeInv, TypeOK, OpType
<1>2. /\ \A q \in Ops : Kept(q)
      /\ \A q \in Ops \ {o} : op'[q] = op[q]
  BY WorkerEffect
<1>3. ASSUME NEW c \in Ops PROVE Holds(c)' \subseteq Holds(c)
  <2> SUFFICES ASSUME NEW q \in Holds(c)' PROVE q \in Holds(c)
    OBVIOUS
  <2>1. CASE q # o
    BY <1>2, <2>1 DEF Holds
  <2>2. CASE q = o
    <3>1. op[o].role = "shot" /\ ~op[o].wait /\ op[o].guard = c
      BY <1>2, <2>2 DEF Holds, Kept
    <3>2. op[o].phase \in Running \/ op[o].event # "none"
      <4>1. CASE ShotBuild(o) \/ ShotMistyped(o) \/ Refused(o)
        BY <4>1 DEF ShotBuild, ShotMistyped, Refused, NextInit, Running
      <4>2. CASE ShotDone(o) \/ Ack(o)
        BY <4>2 DEF ShotDone, Ack, Running
      <4> QED
        BY <3>1, <4>1, <4>2 DEF Worker, InitReply, InitRefused, NoWaitDone, WaitDone
    <3> QED
      BY <2>2, <3>1, <3>2 DEF Holds
  <2> QED
    BY <2>1, <2>2
<1>4. ASSUME NEW c \in Ops, st'[c].barrier = st[c].barrier
      PROVE  st'[c].barrier >= Cardinality(Holds(c)')
  BY <1>3, <1>4, FewerHold DEF BarrierUp
<1>5. CASE ShotDone(o)
  <2>1. /\ op[o].role = "shot" /\ ~op[o].wait /\ op[o].event # "none"
        /\ op' = [op EXCEPT ![o] = Now(op[o], op[o].phase, "none")]
    BY <1>1, <1>5 DEF ShotDone
  <2>2. op'[o].phase = op[o].phase /\ op'[o].event = "none"
    BY <1>1, <2>1, NowKeeps
  <2>3. ASSUME NEW c \in Ops, c # op[o].guard
        PROVE  st'[c].barrier >= Cardinality(Holds(c)')
    <3>1. st'[c] = st[c]
      BY <1>1, <1>5, <2>3 DEF ShotDone
    <3> QED
      BY <1>4, <3>1
  <2>4. ASSUME NEW c \in Ops, c = op[o].guard
        PROVE  st'[c].barrier >= Cardinality(Holds(c)')
    <3>1. o \in Holds(c)
      BY <2>1, <2>4 DEF Holds
    <3>2. ~(o \in Holds(c)')
      BY <2>1, <2>2 DEF Holds, Guarded, ShotRuns, Running
    <3>3. Holds(c)' \subseteq Holds(c) \ {o}
      BY <1>3, <3>2
    <3>4. st[c] \in StType /\ c # 0
      BY <1>1, ConstantTypes
    <3>5. st[c].barrier > 0 => st'[c].barrier = st[c].barrier - 1
      BY <1>1, <1>5, <2>4, <3>4 DEF ShotDone, StType
    <3> QED
      BY <3>1, <3>3, <3>5, OneLess DEF BarrierUp
  <2> QED
    BY <2>3, <2>4 DEF BarrierUp
<1>6. CASE ~ShotDone(o)
  <2> QED
    BY <1>4, <1>6, WorkerBarrier DEF BarrierUp
<1> QED
  BY <1>5, <1>6

\* No connection and no deadline lowers a barrier.
LEMMA OutsideKeepsBarrier == ASSUME TypeInv, OrderInv, Outside PROVE BarrierUp'
<1> USE DEF OrderInv
<1>1. (\A q \in Ops : op[q] \in OpType) /\ st \in [Ops -> StType]
  BY DEF TypeInv, TypeOK
<1>2. \A q \in Ops : Kept(q)
  BY OutsideEffect
<1>3. \A q \in Ops : \/ op'[q] = op[q]
                     \/ op[q].phase \in Running
                     \/ op[q].phase = "idle"
  BY <1>1, NowKeeps DEF Outside, BarrierExpires, BusyExpires, Connect, Disconnect, NoticeUp,
     Process, Running
<1>4. \A q \in Ops : op[q].role = "shot" => op'[q] = op[q] \/ op[q].phase \in Running
  BY <1>3 DEF Guarded, ShotRuns, Running
<1>5. ASSUME NEW c \in Ops PROVE Holds(c)' \subseteq Holds(c)
  BY <1>2, <1>4 DEF Holds, Kept
<1>6. \A c \in Ops : st'[c].barrier = st[c].barrier
  BY <1>1 DEF Outside, BarrierExpires, BusyExpires, Connect, Disconnect, NoticeUp, Process,
     StType
<1> QED
  BY <1>5, <1>6, FewerHold DEF BarrierUp

-----------------------------------------------------------------------------
(* The deadline of the barrier.                                            *)

\* The MATLAB thread lets no deadline pass, and the one-shot it parks sets that of its
\* barrier anew.
LEMMA MatlabKeepsTime ==
  ASSUME TypeInv, HandleInv, OrderInv, Matlab PROVE InTime'
<1> SUFFICES ASSUME NEW c \in Ops, NEW o \in Ops, st'[c].barrierLate, Unsent(o)'
             PROVE  op'[o].guard # c
  BY DEF InTime
<1>1. st \in [Ops -> StType] /\ (chan # 0 => chan \in Ops) /\ c # 0
  BY ConstantTypes DEF TypeInv, TypeOK, Ops
<1>2. st[c].barrierLate /\ (ShotNoWait => c # chan)
  <2>1. CASE ShotNoWait \/ ShotThrows
    BY <1>1, <2>1 DEF ShotNoWait, ShotThrows, RaiseBarrier, StType
  <2>2. CASE FireNoWait \/ FireThrows
    <3>1. chan \in Ops
      BY <2>2 DEF FireNoWait, FireThrows, TypeInv, CallOK
    <3>2. ~ShotNoWait
      BY <2>2 DEF FireNoWait, FireThrows, ShotNoWait
    <3> QED
      BY <1>1, <2>2, <3>1, <3>2 DEF FireNoWait, FireThrows, StType
  <2>3. CASE ~ShotNoWait /\ ~ShotThrows /\ ~FireNoWait /\ ~FireThrows
    <3>1. st' = st
      BY <2>3 DEF Matlab, Open, Exec, OpenReuse, OpenDropDead, OpenCreate, OpenReady,
         OpenFails, BuildArg, BuildFails, OpenThrows, Reap, CheckDrop, CheckWarm, CheckShot,
         FireWait, WarmSucceeds, WarmFails, WarmTimeout, ShotWait, ShotReturns, ShotTimeout,
         PvaClear, EvictChannel, ReapElsewhere, StartPut
    <3> QED
      BY <2>3, <3>1
  <2> QED
    BY <2>1, <2>2, <2>3
<1>3. CASE StillUnsent(o)
  BY <1>2, <1>3 DEF StillUnsent, OrderInv, InTime
<1>4. CASE op'[o] = NewOp /\ call.pc = "shot" /\ (ShotWait \/ ShotNoWait)
  <2>1. NewOp.guard = IF ShotWait THEN 0 ELSE chan
    BY <1>4 DEF NewOp, Created, ShotWait, ShotNoWait
  <2> QED
    BY <1>1, <1>2, <1>4, <2>1
<1> QED
  BY <1>3, <1>4, MatlabUnsent

\* No callback touches a deadline or lets anything new wait.
LEMMA WorkerKeepsTime ==
  ASSUME TypeInv, HandleInv, OrderInv, NEW o \in Ops, Worker(o) PROVE InTime'
<1>1. st \in [Ops -> StType]
  BY DEF TypeInv, TypeOK
<1>2. \A c \in Ops : st'[c].barrierLate = st[c].barrierLate
  <2>1. CASE ShotDone(o)
    <3>1. op[o].guard \in 0..MaxOps
      BY DEF TypeInv, TypeOK, OpType
    <3> QED
      BY <1>1, <2>1, <3>1 DEF ShotDone, StType
  <2> QED
    BY <2>1, WorkerBarrier
<1>3. \A q \in Ops : StillUnsent(q)
  BY WorkerUnsent DEF OrderInv
<1> QED
  BY <1>2, <1>3 DEF OrderInv, InTime, StillUnsent

\* A deadline passes when nothing it covers is still to send, and nothing from outside
\* lets anything new wait.
LEMMA OutsideKeepsTime ==
  ASSUME ~OutlastsBarrier, TypeInv, OrderInv, Outside PROVE InTime'
<1>1. st \in [Ops -> StType] /\ \A q \in Ops : StillUnsent(q)
  BY OutsideUnsent DEF TypeInv, TypeOK
<1>2. CASE BarrierExpires
  <2>1. chan \in Ops /\ \A o \in Ops : Unsent(o) => op[o].guard # chan
    BY <1>2 DEF BarrierExpires, TypeInv, TypeOK, Ops
  <2>2. \A c \in Ops \ {chan} : st'[c] = st[c]
    BY <1>1, <1>2 DEF BarrierExpires
  <2> QED
    BY <1>1, <2>1, <2>2 DEF OrderInv, InTime, StillUnsent
<1>3. CASE ~BarrierExpires
  <2>1. \A c \in Ops : st'[c].barrierLate = st[c].barrierLate
    BY <1>1, <1>3 DEF Outside, BusyExpires, Connect, Disconnect, NoticeUp, Process, StType
  <2> QED
    BY <1>1, <2>1 DEF OrderInv, InTime, StillUnsent
<1> QED
  BY <1>2, <1>3

-----------------------------------------------------------------------------
(* The theorem.                                                            *)

\* Every step keeps the argument, if no barrier expires with a one-shot behind it
\* unsent.
LEMMA OrderStep ==
  ASSUME ~OutlastsBarrier
  PROVE  StepInv /\ SentInv /\ OrderInv /\ [Next]_vars => OrderInv'
<1> SUFFICES ASSUME StepInv, SentInv, OrderInv, [Next]_vars PROVE OrderInv'
  OBVIOUS
<1> USE DEF StepInv
<1>1. CASE UNCHANGED vars
  <2>1. \A c : Holds(c)' = Holds(c)
    BY <1>1 DEF vars, Holds
  <2>2. BarrierUp'
    BY <1>1, <2>1 DEF vars, OrderInv, BarrierUp
  <2>3. InOrder' /\ Later' /\ Ahead' /\ RepliesInOrder' /\ Guarded' /\ NoneWaits'
    BY <1>1 DEF vars, OrderInv, InOrder, Later, Ahead, RepliesInOrder, Guarded, NoneWaits,
       Unsent, ShotRuns
  <2>4. InTime'
    BY <1>1 DEF vars, OrderInv, InTime, Unsent
  <2> QED
    BY <2>2, <2>3, <2>4 DEF OrderInv
<1>2. CASE Outside
  BY <1>2, OutsideKeepsOrder, OutsideKeepsBarrier, OutsideKeepsTime DEF OrderInv
<1>3. ASSUME NEW o \in Ops, Worker(o) PROVE OrderInv'
  BY <1>3, WorkerKeepsOrder, WorkerKeepsBarrier, WorkerKeepsTime DEF OrderInv
<1>4. CASE Matlab
  BY <1>4, MatlabKeepsOrder, MatlabKeepsGuards, MatlabKeepsBarrier, MatlabKeepsTime
     DEF OrderInv
<1> QED
  BY <1>1, <1>2, <1>3, <1>4 DEF Next, Outside, Matlab

\* Before the first put nothing was sent, nothing waits and every barrier is down.
LEMMA InitOrderInv == Init => OrderInv
<1> SUFFICES ASSUME Init PROVE OrderInv
  OBVIOUS
<1>1. \A o \in Ops : op[o].role = "none"
  BY DEF Init, UnusedOp
<1>2. InOrder /\ Later /\ Ahead /\ RepliesInOrder /\ Guarded /\ NoneWaits
  BY <1>1 DEF Init, InOrder, Later, Ahead, RepliesInOrder, Guarded, NoneWaits, Unsent,
     ShotRuns
<1>3. \A c : Holds(c) = {}
  BY <1>1 DEF Holds
<1>4. Cardinality({}) = 0
  BY FS_EmptySet
<1>5. ASSUME NEW c \in Ops PROVE st[c].barrier = 0 /\ ~st[c].barrierLate
  BY DEF Init
<1>6. ASSUME NEW c \in Ops PROVE Cardinality(Holds(c)) = 0
  BY <1>3, <1>4
<1>7. BarrierUp /\ InTime
  BY <1>5, <1>6 DEF BarrierUp, InTime
<1> QED
  BY <1>2, <1>7 DEF OrderInv

\* Puts reach the wire in the order they were issued, whatever mixture of warm and
\* one-shot operations carried them and however often the connection was lost, if no
\* one-shot is still unsent when the deadline of the barrier that counts it passes.
\* Where one is, a later put may overtake it.
THEOREM SentInOrder == ASSUME ~OutlastsBarrier PROVE Spec => []InOrder
<1>1. Init => StepInv /\ SentInv /\ OrderInv
  BY InitTypeInv, InitHandleInv, InitProtoInv, InitAppliedInv, InitSentInv, InitOrderInv
     DEF StepInv
<1>2. StepInv /\ SentInv /\ OrderInv /\ [Next]_vars => (StepInv /\ SentInv /\ OrderInv)'
  BY TypeStep, HandleStep, ProtoStep, AppliedStep, SentStep, OrderStep DEF StepInv
<1>3. OrderInv => InOrder
  BY DEF OrderInv
<1> QED
  BY <1>1, <1>2, <1>3, PTL DEF Spec
-----------------------------------------------------------------------------
(***************************************************************************)
(* The proof that the write path implements PutLog, so long as no one-shot *)
(* is still unsent when the barrier's deadline passes: whatever warm and   *)
(* one-shot operations do, MATLAB sees puts that are sent once, in order,  *)
(* and never behind the back of a call that reported a failure.            *)
(***************************************************************************)

(* What the mapped steps need to know.                                     *)

\* An awaited put that waits for its INIT is the one the call waits for.
Awaited ==
  /\ call.pc \in {"waitWarm", "waitShot"} => call.wait
  /\ \A o \in Ops : Unsent(o) /\ op[o].put = call.put /\ call.wait
       => call.pc = "waitShot" /\ call.op = o

\* The record has what the server took off the wire.
Taken == \A p \in applied : \E i \in 1..head : sent[i] = p

LogInv == StepInv /\ SentInv /\ OrderInv /\ Awaited /\ Taken

-----------------------------------------------------------------------------
(* What may still be sent.                                                 *)

\* A put is owed by a one-shot that waits, or by the call.
LEMMA OwedBy ==
  /\ \A p : p \in Owed <=> \/ \E o \in Ops : Unsent(o) /\ op[o].put = p
                           \/ call.pc \in Early /\ p = call.put
  /\ \A p : p \in Owed' <=> \/ \E o \in Ops : Unsent(o)' /\ op'[o].put = p
                            \/ call'.pc \in Early /\ p = call'.put
BY DEF Owed

\* The same one-shots wait after the step, for the same puts.
UnsentKept ==
  \A o \in Ops : (Unsent(o)' <=> Unsent(o)) /\ (Unsent(o) => op'[o].put = op[o].put)

\* All but those of the put p wait after the step.
UnsentBut(p) ==
  \A o \in Ops : /\ Unsent(o)' <=> (Unsent(o) /\ op[o].put # p)
                 /\ Unsent(o) => op'[o].put = op[o].put \/ op[o].put = p

\* Then the same puts are owed,
LEMMA OwedKept ==
  ASSUME UnsentKept, call'.pc \in Early <=> call.pc \in Early, call'.put = call.put
  PROVE  Owed' = Owed
BY OwedBy DEF UnsentKept

\* or those left after one of them was sent or lost.
LEMMA OwedLess ==
  ASSUME NEW p, UnsentBut(p), call'.put = call.put,
         call'.pc \in Early <=> (call.pc \in Early /\ call.put # p)
  PROVE  Owed' = Owed \ {p}
BY OwedBy DEF UnsentBut

\* The call's own put is nobody else's until it is handed on.
LEMMA CallOwes ==
  ASSUME SentInv, call.pc \in Early, UnsentKept, call'.put = call.put, call'.pc \notin Early
  PROVE  call.put \in Owed /\ Owed' = Owed \ {call.put} /\ call.put \notin Owed'
<1>1. \A o \in Ops : Unsent(o) => op[o].put # call.put
  BY DEF SentInv
<1>2. UnsentBut(call.put)
  BY <1>1 DEF UnsentKept, UnsentBut
<1>3. call.put \in Owed
  BY OwedBy
<1> QED
  BY <1>2, <1>3, OwedLess

\* An operation that ceases to wait lets go of its put.
LEMMA OneGone ==
  ASSUME SentInv, NEW o \in Ops, Unsent(o), ~Unsent(o)',
         \A q \in Ops \ {o} : (Unsent(q)' <=> Unsent(q)) /\ (Unsent(q) => op'[q].put = op[q].put),
         call'.put = call.put, call'.pc \in Early <=> call.pc \in Early
  PROVE  op[o].put \in Owed /\ Owed' = Owed \ {op[o].put}
<1> DEFINE p == op[o].put
<1>1. \A q \in Ops : Unsent(q) /\ op[q].put = p => q = o
  BY DEF SentInv
<1>2. UnsentBut(p)
  BY <1>1 DEF UnsentBut
<1>3. call.pc \in Early => call.put # p
  BY DEF SentInv
<1>4. p \in Owed
  BY OwedBy
<1> HIDE DEF p
<1>5. Owed' = Owed \ {p}
  BY <1>2, <1>3, OwedLess
<1> QED
  BY <1>4, <1>5 DEF p

\* Nothing is sent or lost, or one put is.
Moved ==
  \/ sent' = sent /\ Owed' = Owed
  \/ \E p \in Owed : /\ Owed' = Owed \ {p}
                     /\ \/ sent' = sent
                        \/ /\ \A i \in 1..Len(sent) : sent[i] < p
                           /\ sent' = Append(sent, p)

\* That is a move of PutLog.
LEMMA MovedIsMove == Moved => Promise!Move
BY DEF Moved, Promise!Move, Promise!Send, Promise!Lose

-----------------------------------------------------------------------------
(* The steps outside the MATLAB thread.                                    *)

\* What a step has to show to be one of PutLog's operations at work.
LEMMA WorkStep ==
  ASSUME Moved, call'.put = call.put, call'.wait = call.wait, Answer' = Answer,
         applied' = applied
  PROVE  Promise!Next
BY MovedIsMove DEF Promise!Next, Promise!Work

\* A callback sends the put of the oldest one-shot, or loses one, or does neither.
LEMMA WorkerImplements ==
  ASSUME LogInv, NEW o \in Ops, Worker(o) PROVE Promise!Next
<1> USE DEF LogInv, StepInv, OrderInv
<1>1. op[o] \in OpType /\ call \in CallType
  BY DEF TypeInv, TypeOK
<1>2. PlaceKept /\ \A q \in Ops \ {o} : op'[q] = op[q]
  BY WorkerEffect
<1>3. \A q \in Ops : StillUnsent(q)
  BY WorkerUnsent
<1>4. applied' = applied
  BY DEF Worker, InitReply, ShotBuild, ShotMistyped, InitRefused, Refused, NoWaitDone,
     WaitDone, ShotDone, Ack, netVars
<1>5. Answer' = Answer
  BY <1>1 DEF Worker, InitReply, ShotBuild, ShotMistyped, InitRefused, Refused, NoWaitDone,
     WaitDone, ShotDone, Ack, Answer, CallType
<1>6. \A q \in Ops \ {o} : (Unsent(q)' <=> Unsent(q)) /\ op'[q].put = op[q].put
  BY <1>2 DEF Unsent
<1>7. Unsent(o) /\ ~Unsent(o)' => op[o].put \in Owed /\ Owed' = Owed \ {op[o].put}
  BY <1>2, <1>6, OneGone DEF PlaceKept
<1>8. ~(Unsent(o) /\ ~Unsent(o)') => Owed' = Owed
  <2>1. ASSUME ~(Unsent(o) /\ ~Unsent(o)') PROVE UnsentKept
    BY <1>3, <1>6, <2>1 DEF StillUnsent, UnsentKept
  <2> QED
    BY <1>2, <2>1, OwedKept DEF PlaceKept
<1>9. Moved
  <2>1. CASE ShotBuild(o)
    <3>1. Unsent(o) /\ sent' = Append(sent, op[o].put)
      BY <2>1 DEF ShotBuild, NextInit, Unsent, Waiting
    <3>2. op'[o].phase = "exec"
      BY <1>1, <2>1, NowKeeps DEF ShotBuild, TypeInv, TypeOK
    <3>3. ~Unsent(o)'
      BY <3>2 DEF Unsent, Waiting
    <3> QED
      BY <1>7, <3>1, <3>3 DEF Moved, Ahead
  <2>2. CASE ~ShotBuild(o)
    <3>1. sent' = sent
      BY <2>2 DEF Worker, InitReply, ShotMistyped, InitRefused, Refused, NoWaitDone,
         WaitDone, ShotDone, Ack
    <3> QED
      BY <1>7, <1>8, <3>1 DEF Moved
  <2> QED
    BY <2>1, <2>2
<1> QED
  BY <1>2, <1>4, <1>5, <1>9, WorkStep DEF PlaceKept

\* The connection may come and go: what waits goes on waiting, and the record moves
\* on to newer puts.
LEMMA OutsideImplements ==
  ASSUME LogInv, Outside PROVE [Promise!Next]_Promise!vars
<1> USE DEF LogInv, StepInv, OrderInv
<1>1. call' = call /\ sent' = sent /\ \A q \in Ops : Kept(q)
  BY OutsideEffect
<1>2. \A q \in Ops : op[q] \in OpType
  BY DEF TypeInv, TypeOK
<1>3. \A q \in Ops : \/ op'[q].phase = op[q].phase
                     \/ /\ op[q].phase = "connecting" /\ op'[q].phase = "creating"
                     \/ /\ op[q].phase \in {"creating", "idle"} /\ op'[q].phase = "connecting"
                     \/ /\ op[q].phase = "exec" /\ op'[q].phase = "done"
  BY <1>2, NowKeeps DEF Outside, BarrierExpires, BusyExpires, Connect, Disconnect,
     NoticeUp, Process
<1>4. UnsentKept
  BY <1>1, <1>3 DEF UnsentKept, Unsent, Waiting, Kept
<1>5. Owed' = Owed /\ Answer' = Answer
  BY <1>1, <1>4, OwedKept DEF Answer
<1>6. CASE Process
  <2>1. /\ head + 1 \in 1..Len(sent) /\ head \in Nat /\ sent \in Seq(Puts)
        /\ applied' = applied \/ applied' = applied \cup {sent[head + 1]}
    BY <1>6 DEF Process, TypeInv, TypeOK
  <2>2. ASSUME NEW p \in applied PROVE p < sent[head + 1]
    <3>1. PICK i \in 1..head : sent[i] = p
      BY DEF Taken
    <3>2. i \in 1..Len(sent) /\ i < head + 1
      BY <2>1
    <3> QED
      BY <2>1, <3>1, <3>2 DEF InOrder
  <2>3. CASE applied' = applied \cup {sent[head + 1]}
    <3>1. Promise!Write
      BY <1>1, <1>5, <2>1, <2>2, <2>3 DEF Promise!Write
    <3> QED
      BY <3>1 DEF Promise!Next
  <2> QED
    BY <1>1, <1>5, <2>1, <2>3 DEF Promise!vars
<1>7. CASE ~Process
  <2>1. applied' = applied
    BY <1>7 DEF Outside, BarrierExpires, BusyExpires, Connect, Disconnect, NoticeUp, netVars
  <2> QED
    BY <1>1, <1>5, <2>1 DEF Promise!vars
<1> QED
  BY <1>6, <1>7

-----------------------------------------------------------------------------
(* The steps of the MATLAB thread.                                         *)

\* The handles it lets go of, but for those of an eviction and of a timeout, belong
\* to operations that do not wait to send.
LEMMA HeldNotUnsent ==
  ASSUME TypeInv, HandleInv
  PROVE  /\ ~Unsent(chan) \/ chan = 0
         /\ \A o \in DonePuts \cup SettledPuts : ~Unsent(o)
         /\ call.pc = "await" => ~Unsent(call.op)
BY DEF HandleInv, Holders, CallHolds, DonePuts, SettledPuts, Unsent, Waiting

\* Destroying operations none of which waits.
LEMMA DestroyedKept ==
  ASSUME TypeInv, NEW S, op' = Destroyed(S), \A o \in Ops \cap S : ~Unsent(o)
  PROVE  UnsentKept
<1>1. \A o \in Ops \ S : op'[o] = op[o]
  BY DestroyedEffect
<1>2. \A o \in Ops : o \in S => op'[o].role = "none"
  BY DestroyedEffect
<1> QED
  BY <1>1, <1>2 DEF UnsentKept, Unsent

\* dropPutChan lets no one-shot go.
LEMMA DropKept == ASSUME TypeInv, HandleInv, DropPutChan, chan # 0 PROVE UnsentKept
<1>1. CASE op' = op
  BY <1>1 DEF UnsentKept, Unsent
<1>2. CASE op' = Destroyed({chan})
  BY <1>2, HeldNotUnsent, DestroyedKept
<1> QED
  BY <1>1, <1>2 DEF DropPutChan

\* Steps that leave the call where it is, or move it on before its put is sent.
Onward ==
  \/ OpenReuse \/ OpenDropDead \/ OpenCreate \/ OpenReady \/ BuildArg \/ Reap
  \/ CheckDrop \/ CheckWarm \/ CheckShot
  \/ PvaClear \/ EvictChannel \/ ReapElsewhere

\* None of them sends or loses a put.
LEMMA OnwardKept == ASSUME TypeInv, HandleInv, Onward PROVE UnsentKept
<1>1. CASE OpenReuse \/ OpenReady \/ BuildArg \/ CheckWarm \/ CheckShot
  <2>1. op' = op
    BY <1>1 DEF OpenReuse, OpenReady, BuildArg, CheckWarm, CheckShot
  <2> QED
    BY <2>1 DEF UnsentKept, Unsent
<1>2. CASE OpenDropDead \/ CheckDrop \/ EvictChannel
  BY <1>2, DropKept DEF OpenDropDead, CheckDrop, EvictChannel
<1>3. CASE Reap \/ ReapElsewhere
  <2>1. op' = Destroyed(DonePuts \cup SettledPuts)
    BY <1>3 DEF Reap, ReapElsewhere, ReapFinished
  <2> QED
    BY <2>1, HeldNotUnsent, DestroyedKept
<1>4. CASE PvaClear
  <2>1. PICK S \in SUBSET (DonePuts \cup SettledPuts \cup {chan}) : op' = Destroyed(S)
    BY <1>4 DEF PvaClear
  <2>2. chan # 0
    BY <1>4 DEF PvaClear
  <2> QED
    BY <2>1, <2>2, HeldNotUnsent, DestroyedKept
<1>5. CASE OpenCreate
  <2>1. \A o \in Ops : MatlabOp(o)
    BY <1>5, MatlabOps DEF Matlab, Open
  <2>2. nops + 1 \in Ops /\ ~Unsent(nops + 1) /\ op' = [op EXCEPT ![nops + 1] = NewOp]
        /\ NewOp.role = "warm"
    BY <1>5, NewHandle DEF OpenCreate, NewOp, Created, Unsent
  <2>3. op'[nops + 1].role = "warm" /\ \A o \in Ops \ {nops + 1} : op'[o] = op[o]
    BY <2>2 DEF TypeInv, TypeOK
  <2> QED
    BY <2>2, <2>3 DEF UnsentKept, Unsent
<1> QED
  BY <1>1, <1>2, <1>3, <1>4, <1>5 DEF Onward

\* They are stutters of PutLog.
LEMMA OnwardStutters ==
  ASSUME TypeInv, HandleInv, Onward PROVE UNCHANGED Promise!vars
<1>1. call \in CallType
  BY DEF TypeInv, TypeOK
<1>2. /\ call'.put = call.put /\ call'.wait = call.wait /\ call'.ret = call.ret
      /\ call'.pc = call.pc \/ (call.pc \in Early /\ call'.pc \in Early)
  BY <1>1 DEF Onward, OpenReuse, OpenDropDead, OpenCreate, OpenReady, BuildArg, Reap,
     CheckDrop, CheckWarm, CheckShot, PvaClear, EvictChannel, ReapElsewhere, Goto,
     CallType, Early
<1>3. Answer' = Answer
  BY <1>2 DEF Answer, Early
<1>4. Owed' = Owed
  BY <1>2, OnwardKept, OwedKept
<1>5. sent' = sent /\ applied' = applied
  BY DEF Onward, OpenReuse, OpenDropDead, OpenCreate, OpenReady, BuildArg, Reap,
     CheckDrop, CheckWarm, CheckShot, PvaClear, EvictChannel, ReapElsewhere, netVars
<1> QED
  BY <1>2, <1>3, <1>4, <1>5 DEF Promise!vars

\* A MEX verb issues the next put.
LEMMA StartIssues ==
  ASSUME LogInv, NEW w \in BOOLEAN, StartPut(w) PROVE Promise!Next
<1> USE DEF LogInv, StepInv
<1>1. call \in CallType
  BY DEF TypeInv, TypeOK
<1>2. /\ call.pc = "idle" /\ call'.pc = "open" /\ call'.put = call.put + 1
      /\ call'.wait = w /\ call.put < MaxPuts
  BY <1>1 DEF StartPut, CallType
<1>3. op' = op /\ sent' = sent /\ applied' = applied
  BY DEF StartPut, netVars
<1>4. Answer = call.ret /\ Answer' = "busy" /\ call.ret # "busy"
  BY <1>1, <1>2 DEF Answer, CallType
<1>5. \A o \in Ops : (Unsent(o)' <=> Unsent(o)) /\ op'[o].put = op[o].put
  BY <1>3 DEF Unsent
<1>6. Owed' = Owed \cup {call.put + 1}
  BY <1>2, <1>5, OwedBy DEF Early
<1>7. Promise!Issue(w)
  BY <1>2, <1>3, <1>4, <1>6 DEF Promise!Issue
<1> QED
  BY <1>7 DEF Promise!Next

\* The call hands its put to an operation, or returns.
Ending ==
  \/ OpenFails \/ BuildFails \/ OpenThrows \/ FireThrows \/ FireWait \/ FireNoWait
  \/ WarmSucceeds \/ WarmFails \/ WarmTimeout
  \/ ShotWait \/ ShotNoWait \/ ShotThrows \/ ShotReturns \/ ShotTimeout

\* The call stays the same put's, and comes back with an answer or not at all.
LEMMA EndingCall ==
  ASSUME TypeInv, Ending
  PROVE  /\ call'.put = call.put /\ call'.wait = call.wait /\ applied' = applied
         /\ call.pc # "idle" /\ Answer = "busy"
         /\ call'.pc = "idle" => Answer' = call'.ret
         /\ call'.pc # "idle" => Answer' = "busy"
<1>1. call \in CallType
  BY DEF TypeInv, TypeOK
<1>2. /\ call'.put = call.put /\ call'.wait = call.wait /\ applied' = applied
      /\ call.pc # "idle"
  BY <1>1 DEF Ending, OpenFails, BuildFails, OpenThrows, FireThrows, FireWait, FireNoWait,
     WarmSucceeds, WarmFails, WarmTimeout, ShotWait, ShotNoWait, ShotThrows, ShotReturns,
     ShotTimeout, Goto, Return, CallType, netVars
<1> QED
  BY <1>2 DEF Answer

\* The put of the call is sent, or ignored by an operation that is not Idle.
LEMMA FireMoves ==
  ASSUME LogInv, FireWait \/ FireNoWait
  PROVE  Moved /\ call.put \notin Owed'
<1> USE DEF LogInv, StepInv, OrderInv
<1>1. call.pc = "fire" /\ ReExecPut(chan) /\ chan \in Ops /\ call \in CallType
  BY DEF FireWait, FireNoWait, TypeInv, TypeOK, CallOK
<1>2. call'.put = call.put /\ call'.pc \notin Early
  BY <1>1 DEF FireWait, FireNoWait, Goto, Return, CallType, Early
<1>3. UnsentKept
  <2>1. \A o \in Ops : ~Unsent(o)
    BY <1>1 DEF NoneWaits
  <2>2. \A o \in Ops : ~Unsent(o)'
    <3>1. op' = op \/ op' = [op EXCEPT ![chan] = Fired]
      BY <1>1 DEF ReExecPut
    <3>2. Fired.role = "warm"
      BY DEF Fired
    <3>3. \A o \in Ops : op'[o] = op[o] \/ op'[o].role = "warm"
      BY <1>1, <3>1, <3>2 DEF TypeInv, TypeOK
    <3> QED
      BY <2>1, <3>3 DEF Unsent
  <2> QED
    BY <2>1, <2>2 DEF UnsentKept
<1>4. call.put \in Owed /\ Owed' = Owed \ {call.put} /\ call.put \notin Owed'
  BY <1>1, <1>2, <1>3, CallOwes DEF Early
<1>5. \A i \in 1..Len(sent) : sent[i] < call.put
  <2>1. ASSUME NEW i \in 1..Len(sent) PROVE sent[i] < call.put
    <3>1. sent[i] <= call.put /\ sent[i] # call.put
      BY <1>1 DEF SentInv, Wire, Early
    <3>2. sent \in Seq(Puts) /\ call.put \in Nat
      BY <1>1, ConstantTypes DEF TypeInv, TypeOK, CallOK
    <3>3. sent[i] \in Puts
      BY <3>2
    <3>4. sent[i] \in Nat
      BY <3>3, ConstantTypes
    <3> QED
      BY <3>1, <3>2, <3>4
  <2> QED
    BY <2>1
<1>6. sent' = sent \/ sent' = Append(sent, call.put)
  BY <1>1 DEF ReExecPut
<1> QED
  BY <1>4, <1>5, <1>6 DEF Moved

\* The call gives up its put before anything was sent.
LEMMA GiveUpMoves ==
  ASSUME LogInv, \/ OpenFails \/ BuildFails \/ OpenThrows \/ ShotThrows
                 \/ FireThrows /\ call.wait
  PROVE  Moved /\ call.put \notin Owed' /\ call'.pc = "idle" /\ call'.ret \in {"error", "timeout"}
<1> USE DEF LogInv, StepInv
<1>1. call \in CallType
  BY DEF TypeInv, TypeOK
<1>2. /\ call.pc \in Early /\ call'.put = call.put /\ call'.pc = "idle"
      /\ call'.ret \in {"error", "timeout"} /\ sent' = sent
  BY <1>1 DEF OpenFails, BuildFails, OpenThrows, ShotThrows, FireThrows, Return, CallType,
     Early
<1>3. UnsentKept
  <2>1. CASE OpenFails
    <3>1. op' = Destroyed({call.op}) /\ call.pc = "await"
      BY <2>1 DEF OpenFails
    <3> QED
      BY <3>1, HeldNotUnsent, DestroyedKept
  <2>2. CASE op' = op
    BY <2>2 DEF UnsentKept, Unsent
  <2> QED
    BY <2>1, <2>2 DEF BuildFails, OpenThrows, ShotThrows, FireThrows
<1>4. call.put \in Owed /\ Owed' = Owed \ {call.put} /\ call.put \notin Owed'
  BY <1>2, <1>3, CallOwes DEF Early
<1> QED
  BY <1>2, <1>4 DEF Moved

\* A fired put has its result, or its deadline passed.
LEMMA WarmMoves ==
  ASSUME LogInv, WarmSucceeds \/ WarmFails \/ WarmTimeout
  PROVE  /\ Moved /\ call.put \notin Owed' /\ call.wait /\ call'.pc = "idle"
         /\ call'.ret \in {"ok", "error", "timeout"}
         /\ call'.ret = "ok" => call.put \in applied
<1> USE DEF LogInv, StepInv
<1>1. call \in CallType
  BY DEF TypeInv, TypeOK
<1>2. /\ call.pc = "waitWarm" /\ call'.put = call.put /\ call'.pc = "idle" /\ sent' = sent
      /\ call'.ret \in {"ok", "error", "timeout"}
      /\ call'.ret = "ok" => call.sync = "ok"
  BY <1>1 DEF WarmSucceeds, WarmFails, WarmTimeout, Return, CallType
<1>3. chan # 0
  BY <1>2, ConstantTypes DEF TypeInv, CallOK
<1>4. UnsentKept
  <2>1. CASE op' = op
    BY <2>1 DEF UnsentKept, Unsent
  <2> QED
    BY <1>3, <2>1, DropKept DEF WarmSucceeds, WarmFails, WarmTimeout
<1>5. Owed' = Owed
  BY <1>2, <1>4, OwedKept DEF Early
<1>6. call.wait /\ call.put \notin Owed
  BY <1>2, OwedBy DEF Awaited, Early
<1> QED
  BY <1>2, <1>5, <1>6 DEF Moved, AppliedInv

\* A one-shot is awaited: the put passes from the call to the operation.
LEMMA ShotWaitMoves ==
  ASSUME LogInv, ShotWait PROVE Moved /\ call'.pc = "waitShot"
<1> USE DEF LogInv, StepInv
<1>1. call \in CallType
  BY DEF TypeInv, TypeOK
<1>2. /\ call.pc = "shot" /\ call'.put = call.put /\ call'.pc = "waitShot" /\ sent' = sent
      /\ op' = [op EXCEPT ![nops + 1] = NewOp]
  BY <1>1 DEF ShotWait, CallType, NewOp
<1>3. PICK n \in Ops : n = nops + 1
  BY NewHandle DEF ShotWait
<1>4. op'[n] = NewOp /\ \A o \in Ops \ {n} : op'[o] = op[o]
  BY <1>2, <1>3 DEF TypeInv, TypeOK
<1>5. ~Unsent(n) /\ Unsent(n)' /\ op'[n].put = call.put
  <2>1. NewOp.role = "shot" /\ NewOp.phase \in Waiting /\ NewOp.put = call.put
    BY <1>2 DEF NewOp, Created, Waiting
  <2>2. op[n].role = "none"
    BY <1>3, NewHandle DEF ShotWait
  <2> QED
    BY <1>4, <2>1, <2>2 DEF Unsent
<1>6. \A o \in Ops \ {n} : (Unsent(o)' <=> Unsent(o)) /\ op'[o].put = op[o].put
  BY <1>4 DEF Unsent
<1>7. Owed' = Owed
  <2>1. call.pc \in Early /\ call'.pc \notin Early
    BY <1>2 DEF Early
  <2>2. \A p : (\E o \in Ops : Unsent(o)' /\ op'[o].put = p)
               <=> (\E o \in Ops : Unsent(o) /\ op[o].put = p) \/ p = call.put
    BY <1>5, <1>6
  <2>3. \A p : p \in Owed' <=> p \in Owed
    BY <2>1, <2>2, OwedBy
  <2> QED
    BY <2>3
<1> QED
  BY <1>2, <1>7 DEF Moved

\* A one-shot no-wait put is parked, and a full registry evicts its oldest.
LEMMA ShotNoWaitMoves ==
  ASSUME LogInv, ShotNoWait PROVE Moved /\ ~call.wait /\ call'.pc = "idle" /\ call'.ret = "issued"
<1> USE DEF LogInv, StepInv
<1>1. call \in CallType
  BY DEF TypeInv, TypeOK
<1>2. /\ call.pc = "shot" /\ ~call.wait /\ call'.put = call.put /\ call'.pc = "idle"
      /\ call'.ret = "issued" /\ sent' = sent
      /\ op' = [Destroyed(Evicted) EXCEPT ![nops + 1] = NewOp]
  BY <1>1 DEF ShotNoWait, Return, CallType, NewOp
<1>3. PICK n \in Ops : n = nops + 1
  BY NewHandle DEF ShotNoWait
<1>4. /\ op'[n] = NewOp
      /\ \A o \in Ops \ {n} : o \notin Evicted => op'[o] = op[o]
      /\ \A o \in Ops \ {n} : o \in Evicted => op'[o].role = "none"
  BY <1>2, <1>3, CreateEffect
<1>5. ~Unsent(n) /\ Unsent(n)' /\ op'[n].put = call.put
  <2>1. NewOp.role = "shot" /\ NewOp.phase \in Waiting /\ NewOp.put = call.put
    BY <1>2 DEF NewOp, Created, Waiting
  <2>2. op[n].role = "none"
    BY <1>3, NewHandle DEF ShotNoWait
  <2> QED
    BY <1>4, <2>1, <2>2 DEF Unsent
<1>6. \A o \in Ops \ {n} :
        /\ Unsent(o)' <=> (Unsent(o) /\ o \notin Evicted)
        /\ Unsent(o)' => op'[o].put = op[o].put
  BY <1>4 DEF Unsent
<1>7. call.pc \in Early /\ call'.pc \notin Early /\ \A o \in Ops : Unsent(o) => op[o].put # call.put
  BY <1>2 DEF Early, SentInv
<1>8. CASE \A o \in Evicted : ~Unsent(o)
  <2>1. \A p : (\E o \in Ops : Unsent(o)' /\ op'[o].put = p)
               <=> (\E o \in Ops : Unsent(o) /\ op[o].put = p) \/ p = call.put
    <3>1. \A o \in Ops \ {n} : (Unsent(o)' <=> Unsent(o)) /\ (Unsent(o)' => op'[o].put = op[o].put)
      BY <1>6, <1>8
    <3> QED
      BY <1>5, <3>1
  <2>2. \A p : p \in Owed' <=> p \in Owed
    BY <1>7, <2>1, OwedBy
  <2> QED
    BY <1>2, <2>2 DEF Moved
<1>9. ASSUME NEW e \in Evicted, Unsent(e) PROVE Moved
  <2>1. e \in Ops /\ \A o \in Evicted : o = e
    <3>1. Evicted \subseteq Ops /\ \A o, q \in Evicted : o <= q /\ q <= o
      BY DEF Evicted, TypeInv, TypeOK
    <3>2. \A o \in Evicted : o \in Nat
      BY <3>1, ConstantTypes
    <3> QED
      BY <3>1, <3>2
  <2> DEFINE lost == op[e].put
  <2>2. \A o \in Ops : Unsent(o) /\ op[o].put = lost => o = e
    BY <1>9, <2>1 DEF SentInv
  <2>3. lost # call.put /\ lost \in Owed
    BY <1>7, <1>9, <2>1, OwedBy
  <2> HIDE DEF lost
  <2>4. \A o \in Ops \ {n} :
          /\ Unsent(o)' <=> (Unsent(o) /\ op[o].put # lost)
          /\ Unsent(o)' => op'[o].put = op[o].put
    BY <1>6, <1>9, <2>1, <2>2 DEF lost
  <2>5. \A p : (\E o \in Ops : Unsent(o)' /\ op'[o].put = p)
               <=> (\E o \in Ops : Unsent(o) /\ op[o].put = p /\ p # lost) \/ p = call.put
    BY <1>5, <2>4
  <2>6. \A p : p \in Owed' <=> p \in Owed /\ p # lost
    BY <1>7, <2>3, <2>5, OwedBy
  <2>7. Owed' = Owed \ {lost}
    BY <2>6
  <2> QED
    BY <1>2, <2>3, <2>7 DEF Moved
<1> QED
  BY <1>2, <1>8, <1>9

\* An awaited one-shot has its result, or is destroyed at its deadline.
LEMMA ShotMoves ==
  ASSUME LogInv, ShotReturns \/ ShotTimeout
  PROVE  /\ Moved /\ call.put \notin Owed' /\ call.wait /\ call'.pc = "idle"
         /\ call'.ret \in {"ok", "error", "timeout"}
         /\ call'.ret = "ok" => call.put \in applied
<1> USE DEF LogInv, StepInv
<1>1. call \in CallType
  BY DEF TypeInv, TypeOK
<1>2. /\ call.pc = "waitShot" /\ call'.put = call.put /\ call'.pc = "idle" /\ sent' = sent
      /\ call'.ret \in {"ok", "error", "timeout"}
      /\ call'.ret = "ok" => op[call.op].event = "ok"
      /\ op' = Destroyed({call.op})
  BY <1>1 DEF ShotReturns, ShotTimeout, Return, CallType
<1>3. PICK o \in Ops : o = call.op
  BY <1>2 DEF TypeInv, CallOK
<1>4. op[o].put = call.put /\ call.wait
  BY <1>2, <1>3 DEF HandleInv, CallHolds, Awaited
<1>5. /\ \A q \in Ops \ {o} : op'[q] = op[q]
      /\ op'[o].role = "none"
  BY <1>2, <1>3, DestroyedEffect
<1>6. ~Unsent(o)' /\ \A q \in Ops \ {o} : (Unsent(q)' <=> Unsent(q)) /\ op'[q].put = op[q].put
  BY <1>5 DEF Unsent
<1>7. call.pc \notin Early /\ call'.pc \notin Early
  BY <1>2 DEF Early
<1>8. call.put \notin Owed'
  <2>1. \A q \in Ops : Unsent(q)' => op'[q].put # call.put
    BY <1>2, <1>3, <1>4, <1>6 DEF Awaited
  <2> QED
    BY <1>7, <2>1, OwedBy
<1>9. Moved
  <2>1. CASE Unsent(o)
    BY <1>2, <1>6, <1>7, <2>1, OneGone DEF Moved
  <2>2. CASE ~Unsent(o)
    <3>1. UnsentKept
      BY <1>6, <2>2 DEF UnsentKept
    <3> QED
      BY <1>2, <1>7, <3>1, OwedKept DEF Moved
  <2> QED
    BY <2>1, <2>2
<1>10. call'.ret = "ok" => call.put \in applied
  BY <1>2, <1>3, <1>4 DEF AppliedInv
<1> QED
  BY <1>2, <1>4, <1>8, <1>9, <1>10

\* Each of these steps is a return of PutLog, or an operation at work.
LEMMA EndingImplements ==
  ASSUME LogInv, Ending PROVE Promise!Next
<1>1. TypeInv /\ call \in CallType
  BY DEF LogInv, StepInv, TypeInv, TypeOK
<1>2. /\ call'.put = call.put /\ call'.wait = call.wait /\ applied' = applied
      /\ Answer = "busy" /\ call'.pc = "idle" => Answer' = call'.ret
  BY <1>1, EndingCall
<1>3. ASSUME NEW r \in {"ok", "issued", "error", "timeout"}, Moved, Answer' = r,
             r = "issued" => ~call.wait, r # "issued" => call.put \notin Owed',
             r = "ok" => call.wait /\ call.put \in applied
      PROVE  Promise!Next
  <2>1. Promise!Return(r)
    BY <1>1, <1>3, EndingCall, MovedIsMove DEF Promise!Return
  <2> QED
    BY <2>1 DEF Promise!Next
<1>4. ASSUME Moved, call'.pc # "idle" PROVE Promise!Next
  BY <1>1, <1>4, EndingCall, WorkStep
<1>5. CASE OpenFails \/ BuildFails \/ OpenThrows \/ ShotThrows \/ (FireThrows /\ call.wait)
  BY <1>1, <1>3, <1>5, EndingCall, GiveUpMoves
<1>6. CASE FireThrows /\ ~call.wait
  <2>1. call'.pc = "shot" /\ call.pc = "fire" /\ op' = op /\ sent' = sent
    BY <1>1, <1>6 DEF FireThrows, Goto, CallType
  <2>2. UnsentKept
    BY <2>1 DEF UnsentKept, Unsent
  <2>3. Moved
    BY <1>1, <2>1, <2>2, EndingCall, OwedKept DEF Moved, Early
  <2> QED
    BY <1>4, <2>1, <2>3
<1>7. CASE FireWait
  <2>1. call'.pc = "waitWarm"
    BY <1>1, <1>7 DEF FireWait, Goto, CallType
  <2> QED
    BY <1>4, <1>7, <2>1, FireMoves
<1>8. CASE FireNoWait
  <2>1. call'.pc = "idle" /\ call'.ret = "issued" /\ ~call.wait
    BY <1>1, <1>8 DEF FireNoWait, Return, CallType
  <2> QED
    BY <1>1, <1>3, <1>8, <2>1, EndingCall, FireMoves
<1>9. CASE WarmSucceeds \/ WarmFails \/ WarmTimeout
  BY <1>1, <1>3, <1>9, EndingCall, WarmMoves
<1>10. CASE ShotWait
  BY <1>4, <1>10, ShotWaitMoves
<1>11. CASE ShotNoWait
  BY <1>1, <1>3, <1>11, EndingCall, ShotNoWaitMoves
<1>12. CASE ShotReturns \/ ShotTimeout
  BY <1>1, <1>3, <1>12, EndingCall, ShotMoves
<1> QED
  BY <1>5, <1>6, <1>7, <1>8, <1>9, <1>10, <1>11, <1>12 DEF Ending

-----------------------------------------------------------------------------
(* The invariant, and the theorem.                                         *)

\* The step keeps what waits to be sent, and the place of the call.
LEMMA AwaitedQuiet ==
  ASSUME Awaited, \A o \in Ops : StillUnsent(o), call'.put = call.put, call'.wait = call.wait,
         call'.pc = call.pc, call'.op = call.op
  PROVE  Awaited'
BY DEF Awaited, StillUnsent

\* The MATLAB thread keeps it: a new put is newer than any that waits, and the end
\* of the wait for a one-shot is that of the one-shot.
LEMMA MatlabKeepsAwaited ==
  ASSUME LogInv, Matlab PROVE Awaited'
<1> USE DEF LogInv, StepInv
<1>1. call \in CallType
  BY DEF TypeInv, TypeOK
<1>2. CASE \E w \in BOOLEAN : StartPut(w)
  <2>1. op' = op /\ call'.pc = "open" /\ call'.put = call.put + 1
    BY <1>1, <1>2 DEF StartPut, CallType
  <2>2. \A o \in Ops : Unsent(o) =>
             op[o].put <= call.put /\ op[o].put \in Nat /\ call.put \in Nat
    <3>1. call.put \in Nat
      BY <1>1, ConstantTypes DEF CallType
    <3>2. \A o \in Ops : Unsent(o) => op[o].put \in Nat
      BY ConstantTypes DEF TypeInv, CallOK, Unsent
    <3> QED
      BY <3>1, <3>2 DEF SentInv
  <2>3. \A o \in Ops : Unsent(o) => op[o].put # call.put + 1
    BY <2>2
  <2> QED
    BY <2>1, <2>3 DEF Awaited, Unsent
<1>3. CASE ~\E w \in BOOLEAN : StartPut(w)
  <2>1. call'.put = call.put /\ call'.wait = call.wait
    <3>1. CASE Ending
      BY <3>1, EndingCall
    <3>2. CASE Onward
      BY <1>1, <3>2 DEF Onward, OpenReuse, OpenDropDead, OpenCreate, OpenReady, BuildArg,
         Reap, CheckDrop, CheckWarm, CheckShot, PvaClear, EvictChannel, ReapElsewhere,
         Goto, CallType
    <3> QED
      BY <1>3, <3>1, <3>2 DEF Matlab, Open, Exec, Ending, Onward
  <2>2. call'.pc = "waitWarm" => call.wait
    <3>1. call'.pc = "waitWarm" => FireWait
      <4>1. CASE Ending
        BY <1>1, <4>1 DEF Ending, OpenFails, BuildFails, OpenThrows, FireThrows,
           FireNoWait, WarmSucceeds, WarmFails, WarmTimeout, ShotWait, ShotNoWait,
           ShotThrows, ShotReturns, ShotTimeout, Goto, Return, CallType
      <4>2. CASE Onward
        BY <1>1, <4>2 DEF Onward, OpenReuse, OpenDropDead, OpenCreate, OpenReady, BuildArg,
           Reap, CheckDrop, CheckWarm, CheckShot, PvaClear, EvictChannel, ReapElsewhere,
           Goto, CallType
      <4> QED
        BY <1>3, <4>1, <4>2 DEF Matlab, Open, Exec, Ending, Onward
    <3> QED
      BY <3>1 DEF FireWait
  <2>3. call'.pc = "waitShot" => call.wait
    BY MatlabPlaces DEF ShotWait
  <2>4. ASSUME NEW o \in Ops, Unsent(o)', op'[o].put = call.put, call.wait
        PROVE  call'.pc = "waitShot" /\ call'.op = o
    <3>1. CASE StillUnsent(o)
      <4>1. call.pc = "waitShot" /\ call.op = o
        BY <2>4, <3>1 DEF StillUnsent, Awaited
      <4>2. op' = Destroyed({o})
        BY <4>1, MatlabPlaces DEF ShotReturns, ShotTimeout
      <4>3. op'[o].role = "none"
        BY <4>2, DestroyedEffect
      <4> QED
        BY <2>4, <4>3 DEF Unsent
    <3>2. CASE o = nops + 1 /\ (ShotWait \/ ShotNoWait)
      <4>1. ShotWait
        BY <2>4, <3>2 DEF ShotNoWait
      <4> QED
        BY <1>1, <3>2, <4>1 DEF ShotWait, CallType
    <3> QED
      BY <3>1, <3>2, MatlabUnsent
  <2> QED
    BY <2>1, <2>2, <2>3, <2>4 DEF Awaited
<1> QED
  BY <1>2, <1>3

\* What the server took off the wire stays where it is.
LEMMA TakenKept ==
  ASSUME TypeInv, Taken, head' \in Nat, head <= head',
         \A i \in 1..head : sent'[i] = sent[i],
         applied' = applied \/ (head' = head + 1 /\ applied' = applied \cup {sent'[head']})
  PROVE  Taken'
<1>1. head \in Nat
  BY DEF TypeInv, TypeOK
<1>2. ASSUME NEW p \in applied PROVE \E i \in 1..head' : sent'[i] = p
  <2>1. PICK i \in 1..head : sent[i] = p
    BY DEF Taken
  <2> QED
    BY <1>1, <2>1
<1>3. head' = head + 1 => head' \in 1..head'
  BY <1>1
<1> QED
  BY <1>2, <1>3 DEF Taken

\* Every step keeps the record's puts among those taken.
LEMMA TakenStep == ASSUME TypeInv, HandleInv, Taken, [Next]_vars PROVE Taken'
<1>1. head \in Nat /\ Len(sent) \in Nat /\ head <= Len(sent) /\ sent \in Seq(Puts)
  BY DEF TypeInv, TypeOK
<1>2. ASSUME NEW p, sent' = sent \/ sent' = Append(sent, p)
      PROVE  \A i \in 1..head : sent'[i] = sent[i]
  BY <1>1, <1>2
<1>3. CASE UNCHANGED vars
  BY <1>1, <1>3, TakenKept DEF vars
<1>4. CASE Process
  <2>1. head' = head + 1 /\ sent' = sent
        /\ applied' \in {applied, applied \cup {sent[head + 1]}}
    BY <1>4 DEF Process
  <2> QED
    BY <1>1, <2>1, TakenKept
<1>5. CASE Disconnect
  BY <1>1, <1>5, TakenKept DEF Disconnect
<1>6. CASE Outside /\ ~Process /\ ~Disconnect
  BY <1>1, <1>6, TakenKept DEF Outside, BarrierExpires, BusyExpires, Connect, NoticeUp,
     netVars
<1>7. ASSUME NEW o \in Ops, Worker(o) PROVE Taken'
  <2>1. head' = head /\ applied' = applied
    BY <1>7 DEF Worker, InitReply, ShotBuild, ShotMistyped, InitRefused, Refused,
       NoWaitDone, WaitDone, ShotDone, Ack, netVars
  <2>2. sent' = sent \/ sent' = Append(sent, op[o].put)
    BY <1>7 DEF Worker, InitReply, ShotBuild, ShotMistyped, InitRefused, Refused,
       NoWaitDone, WaitDone, ShotDone, Ack
  <2> QED
    BY <1>1, <1>2, <2>1, <2>2, TakenKept
<1>8. CASE Matlab
  <2>1. head' = head /\ applied' = applied
    BY <1>8 DEF Matlab, Open, Exec, OpenReuse, OpenDropDead, OpenCreate, OpenReady,
       OpenFails, BuildArg, BuildFails, OpenThrows, Reap, CheckDrop, CheckWarm, CheckShot,
       FireWait, FireNoWait, FireThrows, WarmSucceeds, WarmFails, WarmTimeout, ShotWait,
       ShotNoWait, ShotThrows, ShotReturns, ShotTimeout, PvaClear, EvictChannel,
       ReapElsewhere, StartPut, netVars
  <2>2. sent' = sent \/ sent' = Append(sent, call.put)
    BY <1>8 DEF Matlab, Open, Exec, OpenReuse, OpenDropDead, OpenCreate, OpenReady,
       OpenFails, BuildArg, BuildFails, OpenThrows, Reap, CheckDrop, CheckWarm, CheckShot,
       FireWait, FireNoWait, FireThrows, WarmSucceeds, WarmFails, WarmTimeout, ShotWait,
       ShotNoWait, ShotThrows, ShotReturns, ShotTimeout, PvaClear, EvictChannel,
       ReapElsewhere, StartPut, ReExecPut
  <2> QED
    BY <1>1, <1>2, <2>1, <2>2, TakenKept
<1> QED
  BY <1>3, <1>4, <1>5, <1>6, <1>7, <1>8 DEF Next, Outside, Matlab

\* Every step keeps the call's own one-shot apart.
LEMMA AwaitedStep == ASSUME LogInv, [Next]_vars PROVE Awaited'
<1> USE DEF LogInv, StepInv, OrderInv
<1>1. CASE UNCHANGED vars
  BY <1>1 DEF vars, Awaited, Unsent
<1>2. CASE Outside
  <2>1. \A q \in Ops : Kept(q) /\ op[q] \in OpType
    BY <1>2, OutsideEffect DEF TypeInv, TypeOK
  <2>2. \A q \in Ops : \/ op'[q].phase = op[q].phase
                       \/ op[q].phase \in Waiting
                       \/ op'[q].phase = "done"
    BY <1>2, <2>1, NowKeeps DEF Outside, BarrierExpires, BusyExpires, Connect, Disconnect,
       NoticeUp, Process, Waiting
  <2>3. \A q \in Ops : StillUnsent(q)
    BY <2>1, <2>2 DEF StillUnsent, Unsent, Waiting, Kept
  <2> QED
    BY <1>2, <2>3, OutsideEffect, AwaitedQuiet
<1>3. ASSUME NEW o \in Ops, Worker(o) PROVE Awaited'
  BY <1>3, WorkerUnsent, WorkerEffect, AwaitedQuiet DEF PlaceKept
<1>4. CASE Matlab
  BY <1>4, MatlabKeepsAwaited
<1> QED
  BY <1>1, <1>2, <1>3, <1>4 DEF Next, Outside, Matlab

\* Every step of the write path is one of PutLog, or a stutter.
LEMMA StepImplements == LogInv /\ [Next]_vars => [Promise!Next]_Promise!vars
<1> SUFFICES ASSUME LogInv, [Next]_vars PROVE [Promise!Next]_Promise!vars
  OBVIOUS
<1>1. CASE UNCHANGED vars
  BY <1>1 DEF vars, Promise!vars, Owed, Answer, Unsent
<1>2. CASE Outside
  BY <1>2, OutsideImplements
<1>3. ASSUME NEW o \in Ops, Worker(o) PROVE Promise!Next
  BY <1>3, WorkerImplements
<1>4. ASSUME NEW w \in BOOLEAN, StartPut(w) PROVE Promise!Next
  BY <1>4, StartIssues
<1>5. CASE Onward
  BY <1>5, OnwardStutters DEF LogInv, StepInv
<1>6. CASE Ending
  BY <1>6, EndingImplements
<1> QED
  BY <1>1, <1>2, <1>3, <1>4, <1>5, <1>6 DEF Next, Outside, Open, Exec, Onward, Ending

\* Before the first put PutLog is in its initial state, too.
LEMMA InitImplements == Init => Promise!Init /\ Awaited /\ Taken
<1> SUFFICES ASSUME Init PROVE Promise!Init /\ Awaited /\ Taken
  OBVIOUS
<1>1. \A o \in Ops : ~Unsent(o)
  BY DEF Init, Unsent, UnusedOp
<1>2. call.pc = "idle" /\ call.pc \notin Early /\ Owed = {}
  BY <1>1, OwedBy DEF Init, Early
<1>3. Promise!Init
  BY <1>2 DEF Init, Promise!Init, Answer
<1>4. Awaited /\ Taken
  BY <1>1, <1>2 DEF Init, Awaited, Taken
<1> QED
  BY <1>3, <1>4

\* MATLAB sees the puts of PutLog, if no one-shot is still unsent when the deadline of
\* the barrier that counts it passes: each is sent once at most and behind every older one, the record moves on
\* to newer ones only, a pvaPut that succeeds was written, and one that fails is not
\* sent afterwards.
THEOREM Implements == ASSUME ~OutlastsBarrier PROVE Spec => Refines
<1>1. Init => LogInv
  BY InitTypeInv, InitHandleInv, InitProtoInv, InitAppliedInv, InitSentInv, InitOrderInv,
     InitImplements DEF LogInv, StepInv
<1>2. LogInv /\ [Next]_vars => LogInv'
  BY TypeStep, HandleStep, ProtoStep, AppliedStep, SentStep, OrderStep, AwaitedStep,
     TakenStep
     DEF LogInv, StepInv
<1> QED
  BY <1>1, <1>2, InitImplements, StepImplements, PTL DEF Spec, Refines, Promise!Spec
=============================================================================
