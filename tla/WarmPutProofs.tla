---------------------------- MODULE WarmPutProofs ----------------------------
(* Proofs about the write path: the types of its state, that the data of a *)
(* put goes on the wire at most once, and what its steps may do, for every *)
(* bound, every set of types, every deadline and every behaviour of the    *)
(* connection.                                                             *)
EXTENDS WarmPut, TLAPS

\* Where the glue relies on having an entry, an operation or a put.
CallOK ==
  /\ call.pc # "idle" => call.put \in Puts
  /\ call.pc \in {"build", "fire", "waitWarm"} => chan \in Ops
  /\ call.pc \in {"await", "waitShot"} => call.op \in Ops
  /\ \A o \in Ops : op[o].role = "shot" => op[o].put \in Puts

TypeInv == TypeOK /\ CallOK

\* What every step needs to know of the parameters.
LEMMA ConstantTypes ==
  /\ MaxPuts \in Nat /\ MaxOps \in Nat
  /\ Ops \subseteq Nat /\ Puts \subseteq Nat /\ 0 \notin Ops
BY BoundsAssumption DEF Ops, Puts

\* An unused or destroyed operation is well typed.
LEMMA UnusedOpType ==
  /\ UnusedOp \in OpType
  /\ [UnusedOp EXCEPT !.phase = "gone"] \in OpType
  /\ UnusedOp.role = "none"
  /\ [UnusedOp EXCEPT !.phase = "gone"].role = "none"
<1>1. UnusedOp \in OpType
  BY ConstantTypes DEF UnusedOp, OpType, Phases, Events
<1>2. [UnusedOp EXCEPT !.phase = "gone"] \in OpType
  BY <1>1 DEF OpType, Phases
<1>3. UnusedOp.role = "none" /\ [UnusedOp EXCEPT !.phase = "gone"].role = "none"
  BY DEF UnusedOp
<1> QED BY <1>1, <1>2, <1>3

\* Destroying operations keeps the others and every type.
LEMMA DestroyedType ==
  ASSUME op \in [Ops -> OpType], NEW S
  PROVE  /\ Destroyed(S) \in [Ops -> OpType]
         /\ \A o \in Ops : Destroyed(S)[o] = op[o] \/ Destroyed(S)[o].role = "none"
         /\ \A o \in Ops : Destroyed(S)[o] = op[o]
                             \/ Destroyed(S)[o] = [UnusedOp EXCEPT !.phase = "gone"]
BY UnusedOpType DEF Destroyed

\* A change of phase and event leaves the rest of the operation alone.
LEMMA NowType ==
  ASSUME NEW r \in OpType, NEW ph \in Phases, NEW ev \in Events
  PROVE  /\ Now(r, ph, ev) \in OpType
         /\ Now(r, ph, ev).role = r.role /\ Now(r, ph, ev).put = r.put
         /\ Now(r, ph, ev).phase = ph
BY DEF Now, OpType

\* A ChanState with another count of pending one-shots is well typed.
LEMMA BarrierType ==
  ASSUME NEW r \in StType, NEW n \in Nat
  PROVE  /\ [r EXCEPT !.barrier = n, !.barrierLate = FALSE] \in StType
         /\ [r EXCEPT !.barrier = n] \in StType
BY DEF StType

\* An OpInit that records an INIT reply or a refusal is well typed.
LEMMA InitRecordType ==
  ASSUME NEW r \in InitType, NEW t \in Types \cup {NoType}, NEW n \in Nat
  PROVE  /\ [r EXCEPT !.proto = t, !.generation = n] \in InitType
         /\ [r EXCEPT !.failure = TRUE] \in InitType
BY DEF InitType

\* dropPutChan leaves the registry and the operations with their types.
LEMMA DropType ==
  ASSUME TypeInv, DropPutChan, chan \in Ops
  PROVE  /\ chan' \in 0..MaxOps /\ retired' \subseteq Ops
         /\ op' \in [Ops -> OpType]
         /\ \A o \in Ops : op'[o] = op[o] \/ op'[o].role = "none"
BY DestroyedType, ConstantTypes DEF DropPutChan, TypeInv, TypeOK

\* A put call returns one of the results of its type.
LEMMA ReturnType ==
  ASSUME TypeInv, NEW r \in {"none", "ok", "issued", "error", "timeout"}, Return(r)
  PROVE  call' \in CallType /\ call'.pc = "idle" /\ call'.put = call.put
BY DEF Return, TypeInv, TypeOK, CallType

\* A put call moves between the places of its type.
LEMMA GotoType ==
  ASSUME TypeInv,
         NEW l \in {"idle", "open", "await", "build", "reap", "check", "fire",
                    "waitWarm", "shot", "waitShot"}, Goto(l)
  PROVE  call' \in CallType /\ call'.pc = l /\ call'.put = call.put /\ call'.op = call.op
BY DEF Goto, TypeInv, TypeOK, CallType

\* Before the first put, everything has its type.
LEMMA InitTypeInv == Init => TypeInv
<1> SUFFICES ASSUME Init PROVE TypeInv
  OBVIOUS
<1>1. op \in [Ops -> OpType] /\ \A o \in Ops : op[o].role = "none"
  BY UnusedOpType DEF Init
<1>2. init \in [Ops -> InitType]
  BY DEF Init, InitType
<1>3. st \in [Ops -> StType]
  BY DEF Init, StType
<1>4. call \in CallType /\ call.pc = "idle"
  BY ConstantTypes DEF Init, CallType, Events
<1>5. sent \in Seq(Puts) /\ head \in 0..Len(sent)
  BY DEF Init
<1>6. conn \in BOOLEAN /\ recorded \in BOOLEAN /\ seen \in BOOLEAN
  BY DEF Init
<1>7. /\ drops \in Nat /\ srvType \in Types /\ applied \subseteq Puts
      /\ nops \in 0..MaxOps /\ chan \in 0..MaxOps
      /\ retired \subseteq Ops /\ parked \subseteq Ops
  BY ConstantTypes DEF Init
<1>8. TypeOK
  BY <1>1, <1>2, <1>3, <1>4, <1>5, <1>6, <1>7 DEF TypeOK
<1>9. CallOK
  BY <1>1, <1>4 DEF CallOK
<1> QED
  BY <1>8, <1>9 DEF TypeInv

\* The steps of pvaPutProto keep the types.
LEMMA OpenKeepsTypes == ASSUME TypeInv, Open PROVE TypeInv'
<1> USE ConstantTypes DEF TypeInv
<1>1. CASE OpenReuse
  <2>1. call' \in CallType /\ call'.pc = "build" /\ call'.put = call.put
    BY <1>1, GotoType DEF OpenReuse
  <2>2. chan \in Ops
    BY <1>1 DEF OpenReuse, TypeOK, Ops
  <2> QED
    BY <1>1, <2>1, <2>2 DEF OpenReuse, TypeOK, CallOK, netVars, regVars
<1>2. CASE OpenDropDead
  <2>1. /\ chan' \in 0..MaxOps /\ retired' \subseteq Ops /\ op' \in [Ops -> OpType]
        /\ \A o \in Ops : op'[o] = op[o] \/ op'[o].role = "none"
    BY <1>2, DropType DEF OpenDropDead, TypeOK, Ops
  <2>2. call' = call /\ call.pc = "open"
    BY <1>2 DEF OpenDropDead
  <2> QED
    BY <1>2, <2>1, <2>2 DEF OpenDropDead, TypeOK, CallOK, netVars
<1>3. CASE OpenCreate
  <2> DEFINE new == Created("warm", FALSE, 0, NoType, 0)
  <2>1. new \in OpType /\ new.role = "warm"
    BY ConstantTypes DEF Created, OpType, Phases, Events
  <2>2. nops + 1 \in Ops /\ nops' \in 0..MaxOps
    BY <1>3 DEF OpenCreate, TypeOK, Ops
  <2>3. op' = [op EXCEPT ![nops + 1] = new]
    BY <1>3 DEF OpenCreate
  <2>4. op' \in [Ops -> OpType]
        /\ \A o \in Ops : op'[o].role = "shot" => op'[o].put \in Puts
    <3> HIDE DEF new
    <3> QED BY <2>1, <2>2, <2>3 DEF TypeOK, CallOK
  <2>5. call' \in CallType /\ call'.pc = "await" /\ call'.op \in Ops /\ call'.put = call.put
    BY <1>3, <2>2 DEF OpenCreate, TypeOK, CallType
  <2> QED
    BY <1>3, <2>2, <2>4, <2>5 DEF OpenCreate, TypeOK, CallOK, netVars, regVars
<1>4. CASE OpenReady
  <2>1. call' \in CallType /\ call'.pc = "build" /\ call'.put = call.put
    BY <1>4, GotoType DEF OpenReady
  <2>2. chan' \in Ops
    BY <1>4 DEF OpenReady, CallOK
  <2> QED
    BY <1>4, <2>1, <2>2 DEF OpenReady, TypeOK, CallOK, netVars, Ops
<1>5. CASE OpenFails
  <2>1. call' \in CallType /\ call'.pc = "idle"
    BY <1>5, ReturnType DEF OpenFails
  <2> QED
    BY <1>5, <2>1, DestroyedType DEF OpenFails, TypeOK, CallOK, netVars, regVars
<1>6. CASE BuildArg
  <2>1. PICK t \in {init[chan].proto, srvType} :
          call' = [call EXCEPT !.pc = "reap", !.type = t]
    BY <1>6 DEF BuildArg
  <2>2. t \in Types \cup {NoType}
    BY <1>6 DEF BuildArg, TypeOK, CallOK, InitType
  <2>3. call' \in CallType /\ call'.pc = "reap" /\ call'.put = call.put
    BY <2>1, <2>2 DEF TypeOK, CallType
  <2> QED
    BY <1>6, <2>3 DEF BuildArg, TypeOK, CallOK, netVars
<1>7. CASE BuildFails
  <2>1. call' \in CallType /\ call'.pc = "idle"
    BY <1>7, ReturnType DEF BuildFails
  <2>2. recorded' \in BOOLEAN
    BY <1>7 DEF BuildFails, TypeOK
  <2> QED
    BY <1>7, <2>1, <2>2 DEF BuildFails, TypeOK, CallOK, netVars
<1>8. CASE OpenThrows
  <2>1. call' \in CallType /\ call'.pc = "idle"
    BY <1>8, ReturnType DEF OpenThrows
  <2> QED
    BY <1>8, <2>1 DEF OpenThrows, TypeOK, CallOK, netVars, regVars
<1> QED
  BY <1>1, <1>2, <1>3, <1>4, <1>5, <1>6, <1>7, <1>8 DEF Open

\* Raising the barrier keeps the type of the channel states.
LEMMA RaiseType == ASSUME TypeOK, RaiseBarrier PROVE st' \in [Ops -> StType]
<1>1. CASE chan = 0
  BY <1>1 DEF RaiseBarrier, TypeOK
<1>2. CASE chan \in Ops
  <2>1. st[chan] \in StType /\ chan # 0
    BY <1>2, ConstantTypes DEF TypeOK
  <2>2. PICK n \in Nat : n = st[chan].barrier + 1
    BY <2>1 DEF StType
  <2>3. st' = [st EXCEPT ![chan] = [st[chan] EXCEPT !.barrier = n, !.barrierLate = FALSE]]
    BY <1>2, <2>1, <2>2 DEF RaiseBarrier, TypeOK
  <2> QED
    BY <1>2, <2>1, <2>3, BarrierType DEF TypeOK
<1> QED
  BY <1>1, <1>2 DEF TypeOK, Ops

\* The steps of pvaPutExec keep the types.
LEMMA ExecKeepsTypes == ASSUME TypeInv, Exec PROVE TypeInv'
<1> USE ConstantTypes DEF TypeInv
<1>1. CASE Reap
  <2>1. call' \in CallType /\ call'.pc = "check" /\ call'.put = call.put
    BY <1>1, GotoType DEF Reap
  <2> QED
    BY <1>1, <2>1, DestroyedType DEF Reap, ReapFinished, TypeOK, CallOK, netVars
<1>2. CASE CheckDrop
  <2>1. call' \in CallType /\ call'.pc = "shot" /\ call'.put = call.put
    BY <1>2, GotoType DEF CheckDrop
  <2>2. /\ chan' \in 0..MaxOps /\ retired' \subseteq Ops /\ op' \in [Ops -> OpType]
        /\ \A o \in Ops : op'[o] = op[o] \/ op'[o].role = "none"
    BY <1>2, DropType DEF CheckDrop, TypeOK, Ops
  <2> QED
    BY <1>2, <2>1, <2>2 DEF CheckDrop, TypeOK, CallOK, netVars
<1>3. CASE CheckWarm
  <2>1. chan \in Ops /\ call.pc = "check"
    BY <1>3 DEF CheckWarm, TypeOK, Ops
  <2>2. init[chan].generation \in Nat
    BY <2>1 DEF TypeOK, InitType
  <2>3. call' \in CallType /\ call'.pc = "fire" /\ call'.put = call.put
    BY <1>3, <2>2 DEF CheckWarm, TypeOK, CallType
  <2> QED
    BY <1>3, <2>1, <2>3 DEF CheckWarm, TypeOK, CallOK, netVars, regVars
<1>4. CASE CheckShot
  <2>1. call' \in CallType /\ call'.pc = "shot" /\ call'.put = call.put
    BY <1>4, GotoType DEF CheckShot
  <2> QED
    BY <1>4, <2>1 DEF CheckShot, TypeOK, CallOK, netVars, regVars
<1>5. ASSUME ReExecPut(chan), chan \in Ops, call.pc # "idle"
      PROVE  /\ op' \in [Ops -> OpType] /\ sent' \in Seq(Puts) /\ head \in 0..Len(sent')
             /\ \A o \in Ops : op'[o].role = "shot" => op'[o].put \in Puts
  <2>1. CASE op[chan].phase = "idle"
    <3>1. call.put \in Puts /\ call.wait \in BOOLEAN /\ call.type \in Types \cup {NoType}
      BY <1>5 DEF TypeOK, CallOK, CallType
    <3>2. Fired \in OpType /\ Fired.role = "warm"
      BY <3>1, ConstantTypes DEF Fired, OpType, Phases, Events, Puts
    <3>3. /\ op' \in [Ops -> OpType]
          /\ \A o \in Ops : op'[o] = op[o] \/ (o = chan /\ op'[o] = Fired)
      BY <1>5, <2>1, <3>2 DEF ReExecPut, TypeOK
    <3>4. sent' \in Seq(Puts) /\ Len(sent') = Len(sent) + 1
      BY <2>1, <1>5, <3>1 DEF ReExecPut, TypeOK
    <3> QED
      BY <3>1, <3>2, <3>3, <3>4 DEF TypeOK, CallOK
  <2>2. CASE op[chan].phase # "idle"
    BY <1>5, <2>2 DEF ReExecPut, TypeOK, CallOK
  <2> QED
    BY <2>1, <2>2
<1>6. CASE FireWait
  <2>1. call' \in CallType /\ call'.pc = "waitWarm" /\ call'.put = call.put
    BY <1>6, GotoType DEF FireWait
  <2> QED
    BY <1>5, <1>6, <2>1 DEF FireWait, TypeOK, CallOK, netVars, regVars
<1>7. CASE FireNoWait
  <2>1. call' \in CallType /\ call'.pc = "idle"
    BY <1>7, ReturnType DEF FireNoWait
  <2>2. st' \in [Ops -> StType]
    BY <1>7 DEF FireNoWait, TypeOK, StType
  <2> QED
    BY <1>5, <1>7, <2>1, <2>2 DEF FireNoWait, TypeOK, CallOK, netVars, regVars
<1>8. CASE FireThrows
  <2>1. st' \in [Ops -> StType]
    BY <1>8 DEF FireThrows, TypeOK, StType
  <2>2. call' \in CallType /\ call'.pc \in {"idle", "shot"} /\ call'.put = call.put
    BY <1>8, GotoType, ReturnType DEF FireThrows
  <2> QED
    BY <1>8, <2>1, <2>2 DEF FireThrows, TypeOK, CallOK, netVars, regVars
<1>9. CASE WarmSucceeds
  <2>1. call' \in CallType /\ call'.pc = "idle"
    BY <1>9, ReturnType DEF WarmSucceeds
  <2> QED
    BY <1>9, <2>1 DEF WarmSucceeds, TypeOK, CallOK, netVars, regVars
<1>10. CASE WarmFails
  <2>1. call' \in CallType /\ call'.pc = "idle"
    BY <1>10, ReturnType DEF WarmFails
  <2>2. /\ chan' \in 0..MaxOps /\ retired' \subseteq Ops /\ op' \in [Ops -> OpType]
        /\ \A o \in Ops : op'[o] = op[o] \/ op'[o].role = "none"
    BY <1>10, DropType DEF WarmFails, TypeOK, CallOK
  <2> QED
    BY <1>10, <2>1, <2>2 DEF WarmFails, TypeOK, CallOK, netVars
<1>11. CASE WarmTimeout
  <2>1. call' \in CallType /\ call'.pc = "idle"
    BY <1>11, ReturnType DEF WarmTimeout
  <2>2. /\ chan' \in 0..MaxOps /\ retired' \subseteq Ops /\ op' \in [Ops -> OpType]
        /\ \A o \in Ops : op'[o] = op[o] \/ op'[o].role = "none"
    BY <1>11, DropType DEF WarmTimeout, CallOK
  <2> QED
    BY <1>11, <2>1, <2>2 DEF WarmTimeout, TypeOK, CallOK, netVars
<1>12. CASE ShotWait
  <2> DEFINE new == Created("shot", TRUE, call.put, call.type, 0)
  <2>1. nops + 1 \in Ops /\ nops' \in 0..MaxOps
    BY <1>12 DEF ShotWait, TypeOK, Ops
  <2>2. call.put \in Puts /\ call.put \in 0..MaxPuts /\ call.type \in Types \cup {NoType}
    BY <1>12 DEF ShotWait, TypeOK, CallOK, CallType
  <2>3. new \in OpType /\ new.put = call.put
    BY <2>2, ConstantTypes DEF Created, OpType, Phases, Events
  <2>4. op' = [op EXCEPT ![nops + 1] = new]
    BY <1>12 DEF ShotWait
  <2>5. op' \in [Ops -> OpType]
        /\ \A o \in Ops : op'[o].role = "shot" => op'[o].put \in Puts
    <3> HIDE DEF new
    <3> QED BY <2>1, <2>2, <2>3, <2>4 DEF TypeOK, CallOK
  <2>6. call' \in CallType /\ call'.pc = "waitShot" /\ call'.op \in Ops /\ call'.put = call.put
    BY <1>12, <2>1 DEF ShotWait, TypeOK, CallType
  <2> QED
    BY <1>12, <2>1, <2>2, <2>5, <2>6 DEF ShotWait, TypeOK, CallOK, netVars, regVars
<1>13. CASE ShotNoWait
  <2> DEFINE new == Created("shot", FALSE, call.put, call.type, chan)
  <2>1. nops + 1 \in Ops /\ nops' \in 0..MaxOps
    BY <1>13 DEF ShotNoWait, TypeOK, Ops
  <2>2. call.put \in Puts /\ call.put \in 0..MaxPuts /\ call.type \in Types \cup {NoType}
    BY <1>13 DEF ShotNoWait, TypeOK, CallOK, CallType
  <2>3. new \in OpType /\ new.put = call.put
    BY <2>2, ConstantTypes DEF Created, OpType, Phases, Events, TypeOK
  <2>4. op' = [Destroyed(Evicted) EXCEPT ![nops + 1] = new]
    BY <1>13 DEF ShotNoWait
  <2>5. op' \in [Ops -> OpType]
        /\ \A o \in Ops : op'[o].role = "shot" => op'[o].put \in Puts
    <3> HIDE DEF new
    <3> QED BY <2>1, <2>2, <2>3, <2>4, DestroyedType DEF TypeOK, CallOK
  <2>6. call' \in CallType /\ call'.pc = "idle"
    BY <1>13, ReturnType DEF ShotNoWait
  <2>7. st' \in [Ops -> StType]
    BY <1>13, RaiseType DEF ShotNoWait
  <2> QED
    BY <1>13, <2>1, <2>5, <2>6, <2>7 DEF ShotNoWait, TypeOK, CallOK, netVars
<1>14. CASE ShotReturns
  <2>1. call' \in CallType /\ call'.pc = "idle"
    BY <1>14, ReturnType DEF ShotReturns
  <2> QED
    BY <1>14, <2>1, DestroyedType DEF ShotReturns, TypeOK, CallOK, netVars, regVars
<1>15. CASE ShotTimeout
  <2>1. call' \in CallType /\ call'.pc = "idle"
    BY <1>15, ReturnType DEF ShotTimeout
  <2> QED
    BY <1>15, <2>1, DestroyedType DEF ShotTimeout, TypeOK, CallOK, netVars, regVars
<1>16. CASE ShotThrows
  <2>1. call' \in CallType /\ call'.pc = "idle"
    BY <1>16, ReturnType DEF ShotThrows
  <2>2. st' \in [Ops -> StType]
    BY <1>16, RaiseType DEF ShotThrows, TypeOK
  <2> QED
    BY <1>16, <2>1, <2>2 DEF ShotThrows, TypeOK, CallOK, netVars, regVars
<1> QED
  BY <1>1, <1>2, <1>3, <1>4, <1>6, <1>7, <1>8, <1>9, <1>10, <1>11, <1>12, <1>13, <1>14,
     <1>15, <1>16 DEF Exec

\* Clearing, evicting and reaping keep the types.
LEMMA RegistryKeepsTypes ==
  ASSUME TypeInv, PvaClear \/ EvictChannel \/ ReapElsewhere PROVE TypeInv'
<1> USE ConstantTypes DEF TypeInv
<1>1. CASE PvaClear
  <2>1. chan \in Ops /\ call.pc = "idle" /\ call' = call
    BY <1>1 DEF PvaClear, TypeOK, Ops
  <2>2. op' \in [Ops -> OpType] /\ \A o \in Ops : op'[o] = op[o] \/ op'[o].role = "none"
    BY <1>1, DestroyedType DEF PvaClear, TypeOK
  <2>3. retired' \subseteq Ops
    BY <1>1, <2>1 DEF PvaClear, TypeOK
  <2>4. chan' \in 0..MaxOps /\ parked' \subseteq Ops
    <3>1. chan' = 0 /\ parked' = parked \ DonePuts
      BY <1>1 DEF PvaClear
    <3>2. parked' \subseteq parked /\ 0 \in 0..MaxOps
      BY <3>1, ConstantTypes
    <3> QED
      BY <3>1, <3>2 DEF TypeOK
  <2> QED
    BY <1>1, <2>1, <2>2, <2>3, <2>4 DEF PvaClear, TypeOK, CallOK, netVars
<1>2. CASE EvictChannel
  <2>1. chan \in Ops /\ call.pc = "idle" /\ call' = call
    BY <1>2 DEF EvictChannel, TypeOK, Ops
  <2>2. /\ chan' \in 0..MaxOps /\ retired' \subseteq Ops /\ op' \in [Ops -> OpType]
        /\ \A o \in Ops : op'[o] = op[o] \/ op'[o].role = "none"
    BY <1>2, <2>1, DropType DEF EvictChannel
  <2> QED
    BY <1>2, <2>1, <2>2 DEF EvictChannel, TypeOK, CallOK, netVars
<1>3. CASE ReapElsewhere
  BY <1>3, DestroyedType DEF ReapElsewhere, ReapFinished, TypeOK, CallOK, netVars
<1> QED
  BY <1>1, <1>2, <1>3

\* The callbacks and the passing of deadlines keep the types.
LEMMA WorkerKeepsTypes ==
  ASSUME TypeInv, NEW o \in Ops, Worker(o) \/ BusyExpires(o)
  PROVE  TypeInv'
<1> USE ConstantTypes DEF TypeInv
<1>o. op[o] \in OpType /\ op[o].phase \in Phases /\ op[o].event \in Events
  BY DEF TypeOK, OpType
<1>p. ASSUME NEW ph \in Phases, NEW ev \in Events, op' = [op EXCEPT ![o] = Now(op[o], ph, ev)]
      PROVE  /\ op' \in [Ops -> OpType]
             /\ \A q \in Ops : op'[q].role = op[q].role /\ op'[q].put = op[q].put
  BY <1>o, <1>p, NowType DEF TypeOK
<1> USE DEF Phases, Events
<1>1. CASE InitReply(o)
  <2>1. PICK ph \in Phases, ev \in Events : op' = [op EXCEPT ![o] = Now(op[o], ph, ev)]
    BY <1>1, <1>o DEF InitReply, TypeOK
  <2>2. /\ op' \in [Ops -> OpType]
        /\ \A q \in Ops : op'[q].role = op[q].role /\ op'[q].put = op[q].put
    BY <1>p, <2>1
  <2>3. init[o] \in InitType
    BY DEF TypeOK
  <2>4. PICK n \in Nat : n = init[o].generation + 1
    BY <2>3 DEF InitType
  <2>5. init' = [init EXCEPT ![o] = [init[o] EXCEPT !.proto = srvType, !.generation = n]]
    BY <1>1, <2>4 DEF InitReply, TypeOK
  <2>6. init' \in [Ops -> InitType]
    BY <2>3, <2>5, InitRecordType DEF TypeOK
  <2> QED
    BY <1>1, <2>2, <2>6 DEF InitReply, TypeOK, CallOK, netVars, regVars
<1>2. CASE ShotBuild(o)
  <2>1. PICK ph \in Phases, ev \in Events : op' = [op EXCEPT ![o] = Now(op[o], ph, ev)]
    BY <1>2, <1>o DEF ShotBuild, TypeOK
  <2>2. /\ op' \in [Ops -> OpType]
        /\ \A q \in Ops : op'[q].role = op[q].role /\ op'[q].put = op[q].put
    BY <1>p, <2>1
  <2>3. op[o].put \in Puts /\ sent' = Append(sent, op[o].put)
    BY <1>2 DEF ShotBuild, CallOK
  <2>4. sent' \in Seq(Puts) /\ Len(sent') = Len(sent) + 1
    BY <2>3 DEF TypeOK
  <2>5. head \in 0..Len(sent')
    BY <2>4 DEF TypeOK
  <2> QED
    BY <1>2, <2>2, <2>4, <2>5 DEF ShotBuild, TypeOK, CallOK, netVars, regVars
<1>8. CASE ShotMistyped(o)
  <2>1. PICK ph \in Phases, ev \in Events : op' = [op EXCEPT ![o] = Now(op[o], ph, ev)]
    BY <1>8, <1>o DEF ShotMistyped, TypeOK
  <2>2. /\ op' \in [Ops -> OpType]
        /\ \A q \in Ops : op'[q].role = op[q].role /\ op'[q].put = op[q].put
    BY <1>p, <2>1
  <2> QED
    BY <1>8, <2>2 DEF ShotMistyped, TypeOK, CallOK, netVars, regVars
<1>9. CASE InitRefused(o)
  <2>1. PICK ph \in Phases, ev \in Events : op' = [op EXCEPT ![o] = Now(op[o], ph, ev)]
    BY <1>9, <1>o DEF InitRefused, TypeOK
  <2>2. /\ op' \in [Ops -> OpType]
        /\ \A q \in Ops : op'[q].role = op[q].role /\ op'[q].put = op[q].put
    BY <1>p, <2>1
  <2>3. init[o] \in InitType
    BY DEF TypeOK
  <2>4. init' = [init EXCEPT ![o] = [init[o] EXCEPT !.failure = TRUE]]
    BY <1>9 DEF InitRefused
  <2>5. init' \in [Ops -> InitType]
    BY <2>3, <2>4, InitRecordType DEF TypeOK
  <2> QED
    BY <1>9, <2>2, <2>5 DEF InitRefused, TypeOK, CallOK, netVars, regVars
<1>10. CASE Refused(o)
  <2>1. PICK ph \in Phases, ev \in Events : op' = [op EXCEPT ![o] = Now(op[o], ph, ev)]
    BY <1>10, <1>o DEF Refused, TypeOK
  <2>2. /\ op' \in [Ops -> OpType]
        /\ \A q \in Ops : op'[q].role = op[q].role /\ op'[q].put = op[q].put
    BY <1>p, <2>1
  <2> QED
    BY <1>10, <2>2 DEF Refused, TypeOK, CallOK, netVars, regVars
<1>3. CASE NoWaitDone(o)
  <2>1. PICK ph \in Phases, ev \in Events : op' = [op EXCEPT ![o] = Now(op[o], ph, ev)]
    BY <1>3, <1>o DEF NoWaitDone, TypeOK
  <2>2. /\ op' \in [Ops -> OpType]
        /\ \A q \in Ops : op'[q].role = op[q].role /\ op'[q].put = op[q].put
    BY <1>p, <2>1
  <2>3. st' \in [Ops -> StType]
    BY <1>3 DEF NoWaitDone, TypeOK, StType
  <2> QED
    BY <1>3, <2>1, <2>2, <2>3 DEF NoWaitDone, TypeOK, CallOK, netVars, regVars
<1>4. CASE WaitDone(o)
  <2>1. PICK ph \in Phases, ev \in Events : op' = [op EXCEPT ![o] = Now(op[o], ph, ev)]
    BY <1>4, <1>o DEF WaitDone, TypeOK
  <2>2. /\ op' \in [Ops -> OpType]
        /\ \A q \in Ops : op'[q].role = op[q].role /\ op'[q].put = op[q].put
    BY <1>p, <2>1
  <2>3. st' \in [Ops -> StType]
    BY <1>4 DEF WaitDone, TypeOK, StType
  <2>4. op[o].event \in Events
    BY <1>o DEF OpType
  <2>5. call' \in CallType /\ call'.pc = call.pc /\ call'.put = call.put /\ call'.op = call.op
    BY <1>4, <2>4 DEF WaitDone, TypeOK, CallType
  <2> QED
    BY <1>4, <2>1, <2>2, <2>3, <2>5 DEF WaitDone, TypeOK, CallOK, netVars, regVars
<1>5. CASE ShotDone(o)
  <2>1. PICK ph \in Phases, ev \in Events : op' = [op EXCEPT ![o] = Now(op[o], ph, ev)]
    BY <1>5, <1>o DEF ShotDone, TypeOK
  <2>2. /\ op' \in [Ops -> OpType]
        /\ \A q \in Ops : op'[q].role = op[q].role /\ op'[q].put = op[q].put
    BY <1>p, <2>1
  <2>3. st' \in [Ops -> StType]
    <3>1. op[o].guard \in 0..MaxOps
      BY <1>o DEF OpType
    <3>2. CASE op[o].guard # 0 /\ st[op[o].guard].barrier > 0
      <4> DEFINE g == op[o].guard
      <4>1. g \in Ops
        BY <3>1, <3>2 DEF Ops
      <4>2. st[g] \in StType /\ st[g].barrier \in Nat
        BY <4>1 DEF TypeOK, StType
      <4>3. PICK n \in Nat : n = st[g].barrier - 1
        BY <3>2, <4>2
      <4>4. st' = [st EXCEPT ![g] = [st[g] EXCEPT !.barrier = n]]
        BY <1>5, <3>2, <4>1, <4>3 DEF ShotDone, TypeOK
      <4> QED
        BY <4>1, <4>2, <4>4, BarrierType DEF TypeOK
    <3>3. CASE ~(op[o].guard # 0 /\ st[op[o].guard].barrier > 0)
      BY <1>5, <3>3 DEF ShotDone, TypeOK
    <3> QED
      BY <3>2, <3>3
  <2> QED
    BY <1>5, <2>1, <2>2, <2>3 DEF ShotDone, TypeOK, CallOK, netVars, regVars
<1>6. CASE Ack(o)
  <2>1. PICK ph \in Phases, ev \in Events : op' = [op EXCEPT ![o] = Now(op[o], ph, ev)]
    BY <1>6, <1>o DEF Ack, TypeOK
  <2>2. /\ op' \in [Ops -> OpType]
        /\ \A q \in Ops : op'[q].role = op[q].role /\ op'[q].put = op[q].put
    BY <1>p, <2>1
  <2> QED
    BY <1>6, <2>1, <2>2 DEF Ack, TypeOK, CallOK, netVars, regVars
<1>7. CASE BusyExpires(o)
  <2>1. st' \in [Ops -> StType]
    BY <1>7 DEF BusyExpires, TypeOK, StType
  <2> QED
    BY <1>7, <2>1 DEF BusyExpires, TypeOK, CallOK, netVars, regVars
<1> QED
  BY <1>1, <1>2, <1>3, <1>4, <1>5, <1>6, <1>7, <1>8, <1>9, <1>10 DEF Worker

\* The barrier's deadline passes: only the ChanState of the channel changes.
LEMMA BarrierKeepsTypes == ASSUME TypeInv, BarrierExpires PROVE TypeInv'
<1> USE ConstantTypes DEF TypeInv
<1>1. st' \in [Ops -> StType]
  BY DEF BarrierExpires, TypeOK, StType
<1> QED
  BY <1>1 DEF BarrierExpires, TypeOK, CallOK, netVars, regVars

\* The client, the server and the start of a put keep the types.
LEMMA OutsideKeepsTypes ==
  ASSUME TypeInv,
         (\E w \in BOOLEAN : StartPut(w)) \/ Connect \/ Disconnect \/ NoticeUp \/ Process
  PROVE  TypeInv'
<1> USE ConstantTypes DEF TypeInv
<1>1. ASSUME NEW w \in BOOLEAN, StartPut(w) PROVE TypeInv'
  <2>1. call.put + 1 \in Puts
    <3>1. call.put \in 0..MaxPuts
      BY DEF TypeOK, CallType
    <3>2. call.put < MaxPuts
      BY <1>1 DEF StartPut
    <3> QED
      BY <3>1, <3>2 DEF Puts
  <2>2. call' \in CallType /\ call'.pc = "open" /\ call'.put \in Puts
    <3>1. call \in CallType /\ call.put + 1 \in 0..MaxPuts
      BY <2>1 DEF TypeOK, Puts
    <3> QED
      BY <1>1, <2>1, <3>1 DEF StartPut, CallType, Events
  <2> QED
    BY <1>1, <2>2 DEF StartPut, TypeOK, CallOK, netVars, regVars
<1>2. CASE Connect
  <2>1. \A q \in Ops : op[q] \in OpType /\ op[q].event \in Events
    BY DEF TypeOK, OpType
  <2>2. \A q \in Ops : \E ph \in Phases, ev \in Events :
          op'[q] = op[q] \/ op'[q] = Now(op[q], ph, ev)
    BY <1>2, <2>1 DEF Connect, Phases, Events
  <2>3. /\ op' \in [Ops -> OpType]
        /\ \A q \in Ops : op'[q].role = op[q].role /\ op'[q].put = op[q].put
    BY <1>2, <2>1, <2>2, NowType DEF Connect
  <2> QED
    BY <1>2, <2>3 DEF Connect, TypeOK, CallOK, regVars
<1>3. CASE Disconnect
  <2>1. \A q \in Ops : op[q] \in OpType /\ op[q].event \in Events
    BY DEF TypeOK, OpType
  <2>2. \A q \in Ops : \E ph \in Phases, ev \in Events :
          op'[q] = op[q] \/ op'[q] = Now(op[q], ph, ev)
    BY <1>3, <2>1 DEF Disconnect, Phases, Events
  <2>3. /\ op' \in [Ops -> OpType]
        /\ \A q \in Ops : op'[q].role = op[q].role /\ op'[q].put = op[q].put
    BY <1>3, <2>1, <2>2, NowType DEF Disconnect
  <2>4. Len(sent) \in Nat
    BY DEF TypeOK
  <2>5. head' \in 0..Len(sent) /\ drops' \in Nat
    BY <1>3, <2>4 DEF Disconnect, TypeOK
  <2> QED
    BY <1>3, <2>3, <2>5 DEF Disconnect, TypeOK, CallOK, regVars
<1>4. CASE NoticeUp
  BY <1>4 DEF NoticeUp, TypeOK, CallOK, netVars, regVars
<1>5. CASE Process
  <2>1. head' \in 0..Len(sent) /\ sent[head + 1] \in Puts
    BY <1>5 DEF Process, TypeOK
  <2> QED
    BY <1>5, <2>1 DEF Process, TypeOK, CallOK, regVars
<1> QED
  BY <1>1, <1>2, <1>3, <1>4, <1>5

\* Every step of the MATLAB thread, of a worker, of the client or of the IOC keeps
\* the types.
LEMMA TypeStep == TypeInv /\ [Next]_vars => TypeInv'
<1> SUFFICES ASSUME TypeInv, [Next]_vars PROVE TypeInv'
  OBVIOUS
<1>1. CASE UNCHANGED vars
  BY <1>1 DEF vars, TypeInv, TypeOK, CallOK
<1>2. CASE Next
  BY <1>2, OpenKeepsTypes, ExecKeepsTypes, RegistryKeepsTypes, WorkerKeepsTypes,
     BarrierKeepsTypes, OutsideKeepsTypes DEF Next
<1> QED
  BY <1>1, <1>2

\* The state of the write path always has the types of the C++ objects, and the
\* MATLAB thread never uses a registry entry or an operation it does not have.
THEOREM TypeCorrect == Spec => []TypeInv
<1>1. Init => TypeInv
  BY InitTypeInv
<1>2. TypeInv /\ [Next]_vars => TypeInv'
  BY TypeStep
<1> QED
  BY <1>1, <1>2, PTL DEF Spec

\* The type invariant the runs check.
COROLLARY Typed == Spec => []TypeOK
BY TypeCorrect, PTL DEF TypeInv

-----------------------------------------------------------------------------
(* At most once.                                                           *)

Wire == {sent[i] : i \in 1..Len(sent)}

\* A put is in one place only: held by the call, by one waiting one-shot, or on
\* the wire, once.
SentInv ==
  /\ AtMostOnce
  /\ \A i \in 1..Len(sent) : sent[i] <= call.put
  /\ call.pc \in Early => call.put \notin Wire
  /\ \A o \in Ops : Unsent(o) => op[o].put <= call.put /\ op[o].put \notin Wire
  /\ \A o, q \in Ops : Unsent(o) /\ Unsent(q) /\ o # q => op[o].put # op[q].put
  /\ call.pc \in Early => \A o \in Ops : Unsent(o) => op[o].put # call.put

\* A step that sends nothing, and after which no put is held anew.
LEMMA QuietStep ==
  ASSUME TypeInv, SentInv, sent' = sent, call'.put = call.put,
         call'.pc \in Early => call.pc \in Early,
         \A o \in Ops : Unsent(o)' => Unsent(o) /\ op'[o].put = op[o].put
  PROVE  SentInv'
BY DEF SentInv, AtMostOnce, Wire

\* Destroying operations, and moving them on, makes no put wait anew.
LEMMA DestroyedUnsent ==
  ASSUME TypeInv, NEW S, op' = Destroyed(S)
  PROVE  \A o \in Ops : Unsent(o)' => Unsent(o) /\ op'[o].put = op[o].put
BY DestroyedType, UnusedOpType DEF Unsent, TypeInv, TypeOK

\* dropPutChan gives no operation a put that has yet to be sent.
LEMMA DropUnsent ==
  ASSUME TypeInv, DropPutChan
  PROVE  \A o \in Ops : Unsent(o)' => Unsent(o) /\ op'[o].put = op[o].put
<1>1. CASE op' = op
  BY <1>1 DEF Unsent
<1>2. CASE op' = Destroyed({chan})
  BY <1>2, DestroyedUnsent
<1> QED
  BY <1>1, <1>2 DEF DropPutChan

\* A put that goes on the wire once and belongs to nobody else stays unique.
LEMMA SendStep ==
  ASSUME TypeInv, SentInv, NEW p \in Puts, p \notin Wire, p <= call.put,
         sent' = Append(sent, p), call'.put = call.put,
         call'.pc \in Early => call.pc \in Early /\ p # call.put,
         \A o \in Ops : Unsent(o)' => Unsent(o) /\ op'[o].put = op[o].put /\ op[o].put # p
  PROVE  SentInv'
<1>1. /\ sent \in Seq(Puts) /\ Len(sent) \in Nat /\ Len(sent') = Len(sent) + 1
      /\ \A i \in 1..Len(sent) : sent'[i] = sent[i]
      /\ sent'[Len(sent) + 1] = p
  BY DEF TypeInv, TypeOK
<1>2. \A i \in 1..Len(sent') : i \in 1..Len(sent) \/ i = Len(sent) + 1
  BY <1>1
<1>3. AtMostOnce'
  BY <1>1, <1>2 DEF SentInv, AtMostOnce, Wire
<1>4. \A i \in 1..Len(sent') : sent'[i] <= call'.put
  BY <1>1, <1>2 DEF SentInv
<1>5. Wire' \subseteq Wire \cup {p}
  BY <1>1, <1>2 DEF Wire
<1>6. (call.pc \in Early => call.put \notin Wire)'
  BY <1>5 DEF SentInv
<1>7. (\A o \in Ops : Unsent(o) => op[o].put <= call.put /\ op[o].put \notin Wire)'
  BY <1>5 DEF SentInv
<1>8. (\A o, q \in Ops : Unsent(o) /\ Unsent(q) /\ o # q => op[o].put # op[q].put)'
  BY DEF SentInv
<1>9. (call.pc \in Early => \A o \in Ops : Unsent(o) => op[o].put # call.put)'
  BY DEF SentInv
<1> QED
  BY <1>3, <1>4, <1>6, <1>7, <1>8, <1>9 DEF SentInv

\* Before the first put, nothing was sent and nothing waits to be.
LEMMA InitSentInv == Init => SentInv
BY UnusedOpType DEF Init, SentInv, AtMostOnce, Wire, Unsent, Early

\* The first half of pvaPutExec and all of pvaPutProto hold the put and send nothing.
LEMMA OpenKeepsSent == ASSUME TypeInv, SentInv, Open PROVE SentInv'
<1>1. CASE OpenReuse \/ OpenReady \/ BuildFails \/ OpenThrows
  <2>1. op' = op /\ sent' = sent /\ call.pc \in Early /\ call'.put = call.put
    BY <1>1, GotoType, ReturnType DEF OpenReuse, OpenReady, BuildFails, OpenThrows, Early
  <2> QED
    BY <2>1, QuietStep DEF Unsent
<1>2. CASE OpenDropDead
  BY <1>2, DropUnsent, QuietStep DEF OpenDropDead
<1>3. CASE OpenCreate
  <2>1. call.pc \in Early /\ call'.put = call.put /\ sent' = sent
    BY <1>3 DEF OpenCreate, Early, TypeInv, TypeOK, CallType
  <2>2. Created("warm", FALSE, 0, NoType, 0).role = "warm"
    BY DEF Created
  <2>3. \A o \in Ops : op'[o] = op[o] \/ op'[o].role = "warm"
    BY <1>3, <2>2 DEF OpenCreate, TypeInv, TypeOK
  <2> QED
    BY <2>1, <2>3, QuietStep DEF Unsent
<1>4. CASE OpenFails
  <2>1. call'.pc = "idle" /\ call'.put = call.put /\ sent' = sent
    BY <1>4, ReturnType DEF OpenFails
  <2> QED
    BY <1>4, <2>1, DestroyedUnsent, QuietStep DEF OpenFails, Early
<1>5. CASE BuildArg
  <2>1. call.pc \in Early /\ call'.put = call.put /\ sent' = sent /\ op' = op
    BY <1>5 DEF BuildArg, Early, TypeInv, TypeOK, CallType
  <2> QED
    BY <2>1, QuietStep DEF Unsent
<1> QED
  BY <1>1, <1>2, <1>3, <1>4, <1>5 DEF Open

\* Firing the warm operation hands the put over: it is on the wire, or it never
\* will be.
LEMMA FireStep ==
  ASSUME TypeInv, SentInv, ReExecPut(chan), chan \in Ops, call.pc = "fire",
         call'.put = call.put, call'.pc \notin Early
  PROVE  SentInv'
<1>1. CASE op[chan].phase = "idle"
  <2>1. sent' = Append(sent, call.put) /\ op' = [op EXCEPT ![chan] = Fired]
    BY <1>1 DEF ReExecPut
  <2>2. Fired.role = "warm"
    BY DEF Fired
  <2>3. \A o \in Ops : Unsent(o)' => Unsent(o) /\ op'[o].put = op[o].put /\ op[o].put # call.put
    BY <2>1, <2>2 DEF Unsent, TypeInv, TypeOK, SentInv, Early
  <2>4. call.put \in Puts /\ call.put \notin Wire
    BY DEF TypeInv, CallOK, SentInv, Early
  <2>5. call.put <= call.put
    BY <2>4 DEF Puts
  <2> QED
    BY <2>1, <2>3, <2>4, <2>5, SendStep
<1>2. CASE op[chan].phase # "idle"
  <2>1. sent' = sent /\ op' = op
    BY <1>2 DEF ReExecPut
  <2> QED
    BY <2>1, QuietStep DEF Unsent
<1> QED
  BY <1>1, <1>2

\* Handing the put to a new one-shot: the call gives it up.
LEMMA ShotStep ==
  ASSUME TypeInv, SentInv, call.pc = "shot", call'.pc \notin Early, call'.put = call.put,
         sent' = sent, NEW n \in Ops, op'[n].put = call.put,
         \A o \in Ops \ {n} : Unsent(o)' => Unsent(o) /\ op'[o].put = op[o].put
  PROVE  SentInv'
<1>1. call.pc \in Early
  BY DEF Early
<1>2. call.put <= call.put
  BY DEF TypeInv, CallOK, Puts
<1>3. AtMostOnce' /\ (\A i \in 1..Len(sent) : sent[i] <= call.put)'
  BY DEF SentInv, AtMostOnce
<1>4. (\A o \in Ops : Unsent(o) => op[o].put <= call.put /\ op[o].put \notin Wire)'
  BY <1>1, <1>2 DEF SentInv, Wire
<1>5. (\A o, q \in Ops : Unsent(o) /\ Unsent(q) /\ o # q => op[o].put # op[q].put)'
  BY <1>1 DEF SentInv
<1> QED
  BY <1>3, <1>4, <1>5 DEF SentInv

\* pvaPutExec sends the put of the call once, or hands it to one one-shot, or gives
\* it up: it never does two of these.
LEMMA ExecKeepsSent == ASSUME TypeInv, SentInv, Exec PROVE SentInv'
<1>1. CASE Reap
  <2>1. op' = Destroyed(DonePuts \cup SettledPuts)
    BY <1>1 DEF Reap, ReapFinished
  <2>2. sent' = sent /\ call.pc \in Early /\ call'.put = call.put
    BY <1>1, GotoType DEF Reap, Early
  <2> QED
    BY <2>1, <2>2, DestroyedUnsent, QuietStep
<1>2. CASE CheckDrop
  <2>1. sent' = sent /\ call.pc \in Early /\ call'.put = call.put
    BY <1>2, GotoType DEF CheckDrop, Early
  <2> QED
    BY <1>2, <2>1, DropUnsent, QuietStep DEF CheckDrop
<1>3. CASE CheckWarm
  <2>1. op' = op /\ sent' = sent /\ call.pc \in Early /\ call'.put = call.put
    BY <1>3 DEF CheckWarm, Early, TypeInv, TypeOK, CallType
  <2> QED
    BY <2>1, QuietStep DEF Unsent
<1>4. CASE CheckShot \/ FireThrows \/ WarmSucceeds \/ ShotThrows
  <2>1. op' = op /\ sent' = sent /\ call'.put = call.put
        /\ (call'.pc \in Early => call.pc \in Early)
    BY <1>4, GotoType, ReturnType DEF CheckShot, FireThrows, WarmSucceeds, ShotThrows, Early
  <2> QED
    BY <2>1, QuietStep DEF Unsent
<1>5. CASE FireWait
  <2>1. call.pc = "fire" /\ call'.put = call.put /\ call'.pc \notin Early /\ chan \in Ops
    BY <1>5, GotoType DEF FireWait, Early, TypeInv, CallOK
  <2> QED
    BY <1>5, <2>1, FireStep DEF FireWait
<1>6. CASE FireNoWait
  <2>1. call.pc = "fire" /\ call'.put = call.put /\ call'.pc \notin Early /\ chan \in Ops
    BY <1>6, ReturnType DEF FireNoWait, Early, TypeInv, CallOK
  <2> QED
    BY <1>6, <2>1, FireStep DEF FireNoWait
<1>7. CASE WarmFails
  <2>1. sent' = sent /\ call'.pc \notin Early /\ call'.put = call.put
    BY <1>7, ReturnType DEF WarmFails, Early
  <2>2. \A o \in Ops : Unsent(o)' => Unsent(o) /\ op'[o].put = op[o].put
    <3>1. CASE ChanDead
      BY <1>7, <3>1, DropUnsent DEF WarmFails
    <3>2. CASE ~ChanDead
      BY <1>7, <3>2 DEF WarmFails, Unsent
    <3> QED
      BY <3>1, <3>2
  <2> QED
    BY <2>1, <2>2, QuietStep
<1>8. CASE WarmTimeout
  <2>1. sent' = sent /\ call'.pc \notin Early /\ call'.put = call.put
    BY <1>8, ReturnType DEF WarmTimeout, Early
  <2> QED
    BY <1>8, <2>1, DropUnsent, QuietStep DEF WarmTimeout
<1>9. CASE ShotWait
  <2> DEFINE new == Created("shot", TRUE, call.put, call.type, 0)
  <2>1. call'.pc \notin Early /\ call'.put = call.put /\ call.pc = "shot" /\ sent' = sent
    BY <1>9 DEF ShotWait, Early, TypeInv, TypeOK, CallType
  <2>2. nops + 1 \in Ops /\ op' = [op EXCEPT ![nops + 1] = new]
    BY <1>9, ConstantTypes DEF ShotWait, TypeInv, TypeOK, Ops
  <2>3. new.put = call.put
    BY DEF Created
  <2>4. op'[nops + 1].put = call.put /\ \A o \in Ops \ {nops + 1} : op'[o] = op[o]
    <3> HIDE DEF new
    <3> QED BY <2>2, <2>3 DEF TypeInv, TypeOK
  <2> QED
    BY <2>1, <2>2, <2>4, ShotStep DEF Unsent
<1>10. CASE ShotNoWait
  <2> DEFINE new == Created("shot", FALSE, call.put, call.type, chan)
  <2>1. call'.pc \notin Early /\ call'.put = call.put /\ call.pc = "shot" /\ sent' = sent
    BY <1>10, ReturnType DEF ShotNoWait, Early
  <2>2. nops + 1 \in Ops /\ op' = [Destroyed(Evicted) EXCEPT ![nops + 1] = new]
    BY <1>10, ConstantTypes DEF ShotNoWait, TypeInv, TypeOK, Ops
  <2>3. new.put = call.put
    BY DEF Created
  <2>4. /\ op'[nops + 1].put = call.put
        /\ \A o \in Ops \ {nops + 1} : op'[o] = op[o] \/ op'[o].role = "none"
    <3> HIDE DEF new
    <3> QED BY <2>2, <2>3, DestroyedType DEF TypeInv, TypeOK
  <2> QED
    BY <2>1, <2>2, <2>4, ShotStep DEF Unsent
<1>11. CASE ShotReturns \/ ShotTimeout
  <2>1. sent' = sent /\ call'.pc \notin Early /\ call'.put = call.put
        /\ op' = Destroyed({call.op})
    BY <1>11, ReturnType DEF ShotReturns, ShotTimeout, Early
  <2> QED
    BY <2>1, DestroyedUnsent, QuietStep
<1> QED
  BY <1>1, <1>2, <1>3, <1>4, <1>5, <1>6, <1>7, <1>8, <1>9, <1>10, <1>11 DEF Exec

\* The callbacks send the put of a one-shot at most once, when its INIT is answered.
LEMMA WorkerKeepsSent == ASSUME TypeInv, SentInv, NEW o \in Ops, Worker(o) PROVE SentInv'
<1>1. op[o] \in OpType /\ op[o].phase \in Phases /\ op[o].event \in Events
  BY DEF TypeInv, TypeOK, OpType
<1>2. ASSUME NEW ph \in Phases, NEW ev \in Events,
             op' = [op EXCEPT ![o] = Now(op[o], ph, ev)],
             op[o].phase = ph \/ ph \notin Waiting \/ op[o].role # "shot"
      PROVE  \A q \in Ops : Unsent(q)' => Unsent(q) /\ op'[q].put = op[q].put
  BY <1>1, <1>2, NowType DEF TypeInv, TypeOK, Unsent
<1>3. ASSUME sent' = sent, call'.put = call.put, call'.pc = call.pc,
             \E ph \in Phases, ev \in Events :
               /\ op' = [op EXCEPT ![o] = Now(op[o], ph, ev)]
               /\ op[o].phase = ph \/ ph \notin Waiting \/ op[o].role # "shot"
      PROVE  SentInv'
  BY <1>2, <1>3, QuietStep
<1>4. CASE ShotBuild(o)
  <2>1. /\ Unsent(o) /\ sent' = Append(sent, op[o].put) /\ call' = call
        /\ op' = [op EXCEPT ![o] = Now(op[o], "exec", op[o].event)]
    BY <1>4 DEF ShotBuild, NextInit, Unsent, Waiting
  <2>2. op[o].put \in Puts /\ op[o].put \notin Wire /\ op[o].put <= call.put
    BY <2>1 DEF TypeInv, CallOK, SentInv, Unsent
  <2>3. call.pc \in Early => op[o].put # call.put
    BY <2>1 DEF SentInv
  <2>4. ~Unsent(o)'
    <3>1. op'[o] = Now(op[o], "exec", op[o].event)
      BY <2>1 DEF TypeInv, TypeOK
    <3>2. op'[o].phase = "exec"
      <4>1. "exec" \in Phases
        BY DEF Phases
      <4>2. Now(op[o], "exec", op[o].event).phase = "exec"
        BY <1>1, <4>1, NowType
      <4> QED
        BY <3>1, <4>2
    <3> QED
      BY <3>2 DEF Unsent, Waiting
  <2>5. \A q \in Ops \ {o} : Unsent(q)' => Unsent(q) /\ op'[q].put = op[q].put
    BY <2>1 DEF Unsent, TypeInv, TypeOK
  <2>6. \A q \in Ops \ {o} : Unsent(q) => op[q].put # op[o].put
    BY <2>1 DEF SentInv
  <2> QED
    BY <2>1, <2>2, <2>3, <2>4, <2>5, <2>6, SendStep
<1>5. CASE InitReply(o)
  BY <1>1, <1>3, <1>5 DEF InitReply, Phases, Waiting
<1>6. CASE ShotMistyped(o)
  BY <1>1, <1>3, <1>6 DEF ShotMistyped, Phases, Events, Waiting
<1>7. CASE InitRefused(o)
  BY <1>1, <1>3, <1>7 DEF InitRefused, Phases, Waiting
<1>8. CASE Refused(o)
  BY <1>1, <1>3, <1>8 DEF Refused, Phases, Events, Waiting
<1>9. CASE NoWaitDone(o)
  BY <1>1, <1>3, <1>9 DEF NoWaitDone, Events
<1>10. CASE WaitDone(o)
  <2>1. call'.put = call.put /\ call'.pc = call.pc
    BY <1>10 DEF WaitDone, TypeInv, TypeOK, CallType
  <2> QED
    BY <1>1, <1>3, <1>10, <2>1 DEF WaitDone, Events
<1>11. CASE ShotDone(o)
  BY <1>1, <1>3, <1>11 DEF ShotDone, Events
<1>12. CASE Ack(o)
  BY <1>1, <1>3, <1>12 DEF Ack, Phases, Events, Waiting
<1> QED
  BY <1>4, <1>5, <1>6, <1>7, <1>8, <1>9, <1>10, <1>11, <1>12 DEF Worker

\* Clears, evictions, reaps, deadlines, connections and the IOC send nothing.
LEMMA OthersKeepSent ==
  ASSUME TypeInv, SentInv,
         \/ PvaClear \/ EvictChannel \/ ReapElsewhere \/ BarrierExpires
         \/ \E o \in Ops : BusyExpires(o)
         \/ Connect \/ Disconnect \/ NoticeUp \/ Process
  PROVE  SentInv'
<1>1. CASE PvaClear \/ ReapElsewhere
  <2>1. PICK S : op' = Destroyed(S)
    BY <1>1 DEF PvaClear, ReapElsewhere, ReapFinished
  <2> QED
    BY <1>1, <2>1, DestroyedUnsent, QuietStep DEF PvaClear, ReapElsewhere
<1>2. CASE EvictChannel
  BY <1>2, DropUnsent, QuietStep DEF EvictChannel
<1>3. CASE BarrierExpires \/ (\E o \in Ops : BusyExpires(o)) \/ NoticeUp \/ Process
  BY <1>3, QuietStep DEF BarrierExpires, BusyExpires, NoticeUp, Process, Unsent
<1>4. CASE Connect \/ Disconnect
  <2>1. \A q \in Ops : op[q] \in OpType /\ op[q].event \in Events
    BY DEF TypeInv, TypeOK, OpType
  <2>2. \A q \in Ops : \/ op'[q] = op[q]
                       \/ op[q].phase = "connecting" /\ op'[q] = Now(op[q], "creating", op[q].event)
                       \/ op'[q] = Now(op[q], "done", "lost")
                       \/ /\ op[q].phase \in {"creating", "idle"}
                          /\ op'[q] = Now(op[q], "connecting", op[q].event)
    BY <1>4 DEF Connect, Disconnect
  <2> QED
    BY <1>4, <2>1, <2>2, NowType, QuietStep DEF Connect, Disconnect, Unsent, Waiting,
       Phases, Events
<1> QED
  BY <1>1, <1>2, <1>3, <1>4

\* The put a verb starts is a new one: nobody has sent it or waits to.
LEMMA StartKeepsSent ==
  ASSUME TypeInv, SentInv, NEW w \in BOOLEAN, StartPut(w) PROVE SentInv'
<1>1. call'.put = call.put + 1 /\ call.put \in Nat /\ sent' = sent /\ op' = op
  BY ConstantTypes DEF StartPut, TypeInv, TypeOK, CallType
<1>2. \A i \in 1..Len(sent) : sent[i] \in Nat /\ sent[i] <= call.put
  <2>1. \A i \in 1..Len(sent) : sent[i] \in Puts
    BY DEF TypeInv, TypeOK
  <2> QED
    BY <2>1, ConstantTypes DEF SentInv
<1>3. Wire' = Wire /\ \A r \in Wire : r \in Nat /\ r <= call.put
  BY <1>1, <1>2 DEF Wire
<1>4. AtMostOnce' /\ (\A i \in 1..Len(sent) : sent[i] <= call.put)'
  BY <1>1, <1>2 DEF SentInv, AtMostOnce
<1>5. \A o \in Ops : Unsent(o) => op[o].put \in Nat /\ op[o].put <= call.put
  BY ConstantTypes DEF SentInv, TypeInv, CallOK, Unsent
<1>6. (\A o \in Ops : Unsent(o) => op[o].put <= call.put /\ op[o].put \notin Wire)'
  BY <1>1, <1>3, <1>5 DEF SentInv, Unsent
<1>7. (\A o, q \in Ops : Unsent(o) /\ Unsent(q) /\ o # q => op[o].put # op[q].put)'
  BY <1>1 DEF SentInv, Unsent
<1>8. call'.put \notin Wire' /\ \A o \in Ops : Unsent(o)' => op'[o].put # call'.put
  BY <1>1, <1>3, <1>5 DEF Unsent
<1> QED
  BY <1>4, <1>6, <1>7, <1>8 DEF SentInv

\* Every step keeps each put with one holder at most.
LEMMA SentStep == TypeInv /\ SentInv /\ [Next]_vars => SentInv'
<1> SUFFICES ASSUME TypeInv, SentInv, [Next]_vars PROVE SentInv'
  OBVIOUS
<1>1. CASE UNCHANGED vars
  BY <1>1, QuietStep DEF vars, Unsent
<1>2. CASE Next
  BY <1>2, OpenKeepsSent, ExecKeepsSent, WorkerKeepsSent, OthersKeepSent, StartKeepsSent
     DEF Next
<1> QED
  BY <1>1, <1>2

\* No put's data ever goes on the wire twice, whatever times out, fails, is
\* dropped, evicted or cleared: a put is not idempotent.
THEOREM PutsAtMostOnce == Spec => []AtMostOnce
<1>1. Init => TypeInv /\ SentInv
  BY InitTypeInv, InitSentInv
<1>2. TypeInv /\ SentInv /\ [Next]_vars => (TypeInv /\ SentInv)'
  BY TypeStep, SentStep
<1>3. SentInv => AtMostOnce
  BY DEF SentInv
<1> QED
  BY <1>1, <1>2, <1>3, PTL DEF Spec
-----------------------------------------------------------------------------
(***************************************************************************)
(* The steps of the write path: what a put call may report, what a drop may*)
(* cancel, what may go on the wire, and which operation a put may be given *)
(* to.                                                                     *)
(***************************************************************************)

(* What the steps do to the operations.                                    *)

\* The operation o is after the step the one it was, but for phase and event.
Kept(o) ==
  /\ op'[o].role = op[o].role /\ op'[o].wait = op[o].wait /\ op'[o].put = op[o].put
  /\ op'[o].type = op[o].type /\ op'[o].fresh = op[o].fresh /\ op'[o].guard = op[o].guard

\* The registry of handles and the place of the MATLAB thread are left alone.
PlaceKept ==
  /\ chan' = chan /\ retired' = retired /\ parked' = parked /\ nops' = nops
  /\ call'.pc = call.pc /\ call'.put = call.put /\ call'.op = call.op
  /\ call'.wait = call.wait /\ call'.type = call.type /\ call'.checked = call.checked

\* Moving an operation on changes its phase and its event only.
LEMMA NowKeeps ==
  ASSUME NEW r \in OpType, NEW ph, NEW ev
  PROVE  LET n == Now(r, ph, ev)
         IN  /\ n.role = r.role /\ n.wait = r.wait /\ n.put = r.put
             /\ n.type = r.type /\ n.fresh = r.fresh /\ n.guard = r.guard
             /\ n.phase = ph /\ n.event = ev
BY DEF Now, OpType

\* A callback moves on its own operation and leaves the handles alone.
LEMMA WorkerEffect ==
  ASSUME TypeInv, NEW o \in Ops, Worker(o)
  PROVE  /\ \A q \in Ops : Kept(q)
         /\ \A q \in Ops \ {o} : op'[q] = op[q]
         /\ PlaceKept
<1>1. op \in [Ops -> OpType] /\ op[o] \in OpType
  BY DEF TypeInv, TypeOK
<1>2. \E ph, ev : op' = [op EXCEPT ![o] = Now(op[o], ph, ev)]
  BY <1>1 DEF Worker, InitReply, ShotBuild, ShotMistyped, InitRefused, Refused, NoWaitDone,
     WaitDone, ShotDone, Ack
<1>3. PICK ph, ev : op' = [op EXCEPT ![o] = Now(op[o], ph, ev)]
  BY <1>2
<1>4. op'[o] = Now(op[o], ph, ev) /\ \A q \in Ops \ {o} : op'[q] = op[q]
  BY <1>1, <1>3
<1>5. \A q \in Ops : Kept(q)
  BY <1>1, <1>4, NowKeeps DEF Kept
<1>6. PlaceKept
  <2>1. CASE WaitDone(o)
    BY <2>1 DEF WaitDone, regVars, PlaceKept, TypeInv, TypeOK, CallType
  <2>2. CASE ~WaitDone(o)
    BY <2>2 DEF Worker, InitReply, ShotBuild, ShotMistyped, InitRefused, Refused,
       NoWaitDone, ShotDone, Ack, regVars, PlaceKept
  <2> QED
    BY <2>1, <2>2
<1> QED
  BY <1>4, <1>5, <1>6

\* Deadlines, the client and the IOC leave the handles and the calls alone.
Outside == \/ BarrierExpires \/ (\E o \in Ops : BusyExpires(o))
           \/ Connect \/ Disconnect \/ NoticeUp \/ Process

\* They leave the place of the MATLAB thread and what was sent alone.
LEMMA OutsideEffect ==
  ASSUME TypeInv, Outside
  PROVE  /\ \A q \in Ops : Kept(q)
         /\ PlaceKept /\ call' = call /\ init' = init /\ sent' = sent
<1>1. \A q \in Ops : op[q] \in OpType
  BY DEF TypeInv, TypeOK
<1>2. \A q \in Ops : op'[q] = op[q] \/ \E ph, ev : op'[q] = Now(op[q], ph, ev)
  BY DEF Outside, BarrierExpires, BusyExpires, Connect, Disconnect, NoticeUp, Process
<1>3. \A q \in Ops : Kept(q)
  BY <1>1, <1>2, NowKeeps DEF Kept
<1>4. PlaceKept /\ call' = call /\ init' = init /\ sent' = sent
  BY DEF Outside, BarrierExpires, BusyExpires, Connect, Disconnect, NoticeUp, Process,
     regVars, PlaceKept
<1> QED
  BY <1>3, <1>4

\* A destroyed operation has no role, no event and no execution; the others stay.
LEMMA DestroyedEffect ==
  ASSUME TypeInv, NEW S, op' = Destroyed(S)
  PROVE  /\ \A o \in Ops \ S : op'[o] = op[o]
         /\ \A o \in Ops : o \in S => /\ op'[o].role = "none" /\ op'[o].event = "none"
                                      /\ op'[o].phase = "gone"
BY DEF Destroyed, UnusedOp

\* dropPutChan destroys the channel's operation or retires it in flight.
LEMMA DropEffect ==
  ASSUME TypeInv, DropPutChan
  PROVE  /\ chan' = 0
         /\ \A o \in Ops \ {chan} : op'[o] = op[o]
         /\ \/ InFlight(chan) /\ op' = op /\ retired' = retired \cup {chan}
            \/ /\ ~InFlight(chan) /\ op' = Destroyed({chan}) /\ retired' = retired
               /\ chan \in Ops => op'[chan].role = "none" /\ op'[chan].phase = "gone"
                                  /\ op'[chan].event = "none"
<1>1. CASE InFlight(chan)
  BY <1>1 DEF DropPutChan
<1>2. CASE ~InFlight(chan)
  <2>1. op' = Destroyed({chan}) /\ retired' = retired /\ chan' = 0
    BY <1>2 DEF DropPutChan
  <2> QED
    BY <1>2, <2>1, DestroyedEffect
<1> QED
  BY <1>1, <1>2

-----------------------------------------------------------------------------
(* Handles: which operations the registry and the call hold.               *)

\* An operation not created yet has no role.
Uncreated == \A o \in Ops : o > nops => op[o].role = "none"

\* g_putChans and g_retiredPuts hold warm operations and share none, and
\* g_pendingPuts holds one-shots nobody waits for.
Holders ==
  /\ chan # 0 => op[chan].role = "warm" /\ chan \notin retired
  /\ \A o \in retired : op[o].role = "warm"
  /\ \A o \in parked : op[o].role = "shot" /\ ~op[o].wait

\* What the call waits for is its own: nobody else holds it.
CallHolds ==
  /\ call.pc = "await" => op[call.op].role = "warm" /\ call.op \notin retired /\ chan = 0
  /\ call.pc = "waitShot" => /\ op[call.op].role = "shot" /\ op[call.op].wait
                             /\ op[call.op].put = call.put

HandleInv == Uncreated /\ Holders /\ CallHolds

\* A step that gives no operation another role and moves no handle.
LEMMA HandlesQuiet ==
  ASSUME TypeInv, HandleInv, \A q \in Ops : Kept(q), nops' = nops,
         chan' = chan, retired' = retired, parked' = parked,
         call'.pc \in {"await", "waitShot"} =>
            call'.pc = call.pc /\ call'.op = call.op /\ call'.put = call.put
  PROVE  HandleInv'
<1>1. chan \in 0..MaxOps /\ retired \subseteq Ops /\ parked \subseteq Ops
      /\ (chan # 0 => chan \in Ops)
  BY ConstantTypes DEF TypeInv, TypeOK, Ops
<1>2. Uncreated'
  BY DEF HandleInv, Uncreated, Kept
<1>3. Holders'
  BY <1>1 DEF HandleInv, Holders, Kept
<1>4. CallHolds'
  BY <1>1 DEF HandleInv, CallHolds, Kept, TypeInv, CallOK
<1> QED
  BY <1>2, <1>3, <1>4 DEF HandleInv

\* A step that destroys the operations of S and lets go of their handles.
LEMMA HandlesDestroyed ==
  ASSUME TypeInv, HandleInv, NEW S, op' = Destroyed(S), nops' = nops,
         chan' \in {0, chan}, chan' # 0 => chan' \notin S,
         retired' \subseteq retired \cup ({chan} \ {0}), retired' \cap S = {},
         chan' # 0 => retired' \subseteq retired,
         parked' \subseteq parked, parked' \cap S = {},
         call'.pc \notin {"await", "waitShot"}
  PROVE  HandleInv'
<1>1. /\ \A o \in Ops \ S : op'[o] = op[o]
      /\ \A o \in Ops : o \in S => op'[o].role = "none"
  BY DestroyedEffect
<1>2. chan \in 0..MaxOps /\ retired \subseteq Ops /\ parked \subseteq Ops
      /\ (chan # 0 => chan \in Ops)
  BY ConstantTypes DEF TypeInv, TypeOK, Ops
<1>3. Uncreated'
  BY <1>1 DEF HandleInv, Uncreated
<1>4. Holders'
  BY <1>1, <1>2 DEF HandleInv, Holders
<1>5. CallHolds'
  BY DEF CallHolds
<1> QED
  BY <1>3, <1>4, <1>5 DEF HandleInv

\* dropPutChan keeps the handles apart.
LEMMA HandlesDropped ==
  ASSUME TypeInv, HandleInv, DropPutChan, chan \in Ops, nops' = nops, parked' = parked,
         call'.pc \notin {"await", "waitShot"}
  PROVE  HandleInv'
<1>1. CASE InFlight(chan)
  <2>1. op' = op /\ chan' = 0 /\ retired' = retired \cup {chan}
    BY <1>1 DEF DropPutChan
  <2>2. chan # 0 /\ op[chan].role = "warm"
    BY ConstantTypes DEF HandleInv, Holders
  <2> QED
    BY <2>1, <2>2 DEF HandleInv, Uncreated, Holders, CallHolds
<1>2. CASE ~InFlight(chan)
  <2>1. op' = Destroyed({chan}) /\ chan' = 0 /\ retired' = retired
    BY <1>2 DEF DropPutChan
  <2>2. chan # 0 /\ chan \notin retired /\ chan \notin parked
    BY ConstantTypes DEF HandleInv, Holders
  <2>3. retired' \subseteq retired \cup ({chan} \ {0}) /\ retired' \cap {chan} = {}
        /\ parked' \subseteq parked /\ parked' \cap {chan} = {}
    BY <2>1, <2>2
  <2> QED
    BY <2>1, <2>3, HandlesDestroyed
<1> QED
  BY <1>1, <1>2

\* A new operation takes a handle nobody has.
LEMMA NewHandle ==
  ASSUME TypeInv, HandleInv, nops < MaxOps
  PROVE  /\ nops + 1 \in Ops /\ nops + 1 \in Nat
         /\ nops + 1 # chan /\ nops + 1 \notin retired /\ nops + 1 \notin parked
         /\ op[nops + 1].role = "none"
         /\ \A o \in Ops : o > nops + 1 => o > nops
<1>1. nops \in Nat /\ nops + 1 \in Ops /\ \A o \in Ops : o \in Nat
  BY ConstantTypes DEF TypeInv, TypeOK, Ops
<1>2. op[nops + 1].role = "none"
  BY <1>1 DEF HandleInv, Uncreated
<1> QED
  BY <1>1, <1>2 DEF HandleInv, Holders, TypeInv, TypeOK, Ops

\* pvaPutProto keeps the handles apart.
LEMMA OpenKeepsHandles == ASSUME TypeInv, HandleInv, Open PROVE HandleInv'
<1>1. CASE OpenReuse \/ BuildArg \/ BuildFails \/ OpenThrows
  <2>1. /\ op' = op /\ nops' = nops /\ chan' = chan /\ retired' = retired /\ parked' = parked
    BY <1>1 DEF OpenReuse, BuildArg, BuildFails, OpenThrows, regVars
  <2>2. call'.pc \notin {"await", "waitShot"}
    BY <1>1, GotoType, ReturnType
       DEF OpenReuse, BuildArg, BuildFails, OpenThrows, TypeInv, TypeOK, CallType
  <2> QED
    BY <2>1, <2>2, HandlesQuiet DEF Kept
<1>2. CASE OpenDropDead
  <2>1. chan \in Ops /\ call' = call /\ call.pc = "open" /\ nops' = nops /\ parked' = parked
        /\ DropPutChan
    BY <1>2 DEF OpenDropDead, TypeInv, TypeOK, Ops
  <2> QED
    BY <2>1, HandlesDropped
<1>3. CASE OpenCreate
  <2> DEFINE new == Created("warm", FALSE, 0, NoType, 0)
             n   == nops + 1
  <2>1. /\ n \in Ops /\ n # chan /\ n \notin retired /\ n \notin parked
        /\ \A o \in Ops : o > n => o > nops
    BY <1>3, NewHandle DEF OpenCreate
  <2>2. op' = [op EXCEPT ![n] = new] /\ new.role = "warm"
    BY <1>3 DEF OpenCreate, Created
  <2>3. op'[n].role = "warm" /\ \A o \in Ops \ {n} : op'[o] = op[o]
    <3> HIDE DEF new
    <3> QED BY <2>1, <2>2 DEF TypeInv, TypeOK
  <2>4. /\ chan = 0 /\ chan' = chan /\ retired' = retired /\ parked' = parked /\ nops' = n
        /\ call'.pc = "await" /\ call'.op = n
    BY <1>3 DEF OpenCreate, regVars, TypeInv, TypeOK, CallType
  <2>5. retired \subseteq Ops /\ parked \subseteq Ops /\ \A o \in Ops : o \in Nat
    BY ConstantTypes DEF TypeInv, TypeOK
  <2>6. Uncreated'
    <3>1. \A o \in Ops : o > n => o # n
      BY <2>1, <2>5
    <3> QED
      BY <2>1, <2>3, <2>4, <3>1 DEF HandleInv, Uncreated
  <2>7. Holders' /\ CallHolds'
    BY <2>1, <2>3, <2>4, <2>5 DEF HandleInv, Holders, CallHolds
  <2> QED
    BY <2>6, <2>7 DEF HandleInv
<1>4. CASE OpenReady
  <2>1. /\ chan' = call.op /\ op' = op /\ retired' = retired /\ parked' = parked
        /\ nops' = nops /\ call.pc = "await"
    BY <1>4 DEF OpenReady
  <2>2. call'.pc = "build"
    BY <1>4, GotoType DEF OpenReady
  <2> QED
    BY <2>1, <2>2 DEF HandleInv, Uncreated, Holders, CallHolds
<1>5. CASE OpenFails
  <2>1. /\ op' = Destroyed({call.op}) /\ chan' = chan /\ retired' = retired
        /\ parked' = parked /\ nops' = nops /\ call.pc = "await"
    BY <1>5 DEF OpenFails, regVars
  <2>2. call'.pc = "idle"
    BY <1>5, ReturnType DEF OpenFails
  <2>3. chan = 0 /\ call.op \notin retired /\ call.op \notin parked
    BY <2>1 DEF HandleInv, Holders, CallHolds
  <2>4. retired' \subseteq retired \cup ({chan} \ {0}) /\ retired' \cap {call.op} = {}
        /\ parked' \subseteq parked /\ parked' \cap {call.op} = {} /\ chan' = 0
    BY <2>1, <2>3, ConstantTypes DEF TypeInv, TypeOK
  <2> QED
    BY <2>1, <2>2, <2>4, HandlesDestroyed
<1> QED
  BY <1>1, <1>2, <1>3, <1>4, <1>5 DEF Open

\* The reap lets go of what it destroys.
LEMMA ReapKeepsHandles ==
  ASSUME TypeInv, HandleInv, ReapFinished, nops' = nops, chan' = chan,
         call'.pc \notin {"await", "waitShot"}
  PROVE  HandleInv'
<1> DEFINE S == DonePuts \cup SettledPuts
<1>1. /\ op' = Destroyed(S) /\ parked' = parked \ DonePuts
      /\ retired' = retired \ SettledPuts
  BY DEF ReapFinished
<1>2. DonePuts \subseteq parked /\ SettledPuts \subseteq retired
  BY DEF DonePuts, SettledPuts
<1>3. 0 \notin retired /\ parked \cap retired = {} /\ (chan # 0 => chan \notin parked \cup retired)
  BY ConstantTypes DEF TypeInv, TypeOK, HandleInv, Holders
<1>4. retired' \subseteq retired /\ retired' \cap S = {} /\ parked' \cap S = {}
      /\ (chan' # 0 => chan' \notin S)
  BY <1>1, <1>2, <1>3
<1>5. retired' \subseteq retired \cup ({chan} \ {0}) /\ parked' \subseteq parked
  BY <1>1, <1>3, <1>4
<1> HIDE DEF S
<1> QED
  BY <1>1, <1>4, <1>5, HandlesDestroyed

\* pvaClear reaps, drops the entry and retires its operation if in flight.
LEMMA ClearKeepsHandles == ASSUME TypeInv, HandleInv, PvaClear PROVE HandleInv'
<1> DEFINE S == DonePuts \cup SettledPuts \cup IF InFlight(chan) THEN {} ELSE {chan}
<1>1. /\ chan' = 0 /\ nops' = nops /\ call' = call /\ call.pc = "idle" /\ chan \in Ops
      /\ op' = Destroyed(S) /\ parked' = parked \ DonePuts
      /\ retired' = (retired \ SettledPuts) \cup IF InFlight(chan) THEN {chan} ELSE {}
  BY DEF PvaClear, TypeInv, TypeOK, Ops
<1>2. DonePuts \subseteq parked /\ SettledPuts \subseteq retired
  BY DEF DonePuts, SettledPuts
<1>3. /\ 0 \notin retired /\ parked \cap retired = {} /\ chan # 0
      /\ chan \notin parked \cup retired
  BY <1>1, ConstantTypes DEF TypeInv, TypeOK, HandleInv, Holders
<1>4. retired' \cap S = {} /\ parked' \cap S = {}
  BY <1>1, <1>2, <1>3
<1>5. retired' \subseteq retired \cup ({chan} \ {0}) /\ parked' \subseteq parked
  BY <1>1, <1>2, <1>3
<1> HIDE DEF S
<1> QED
  BY <1>1, <1>4, <1>5, HandlesDestroyed

\* pvaPutExec keeps the handles apart.
LEMMA ExecKeepsHandles == ASSUME TypeInv, HandleInv, Exec PROVE HandleInv'
<1>1. CASE Reap
  <2>1. call'.pc = "check"
    BY <1>1, GotoType DEF Reap
  <2> QED
    BY <1>1, <2>1, ReapKeepsHandles DEF Reap
<1>2. CASE CheckDrop \/ WarmTimeout
  <2>1. call'.pc \notin {"await", "waitShot"}
    BY <1>2, GotoType, ReturnType DEF CheckDrop, WarmTimeout
  <2>2. chan \in Ops
    BY <1>2 DEF CheckDrop, WarmTimeout, TypeInv, TypeOK, CallOK, Ops
  <2> QED
    BY <1>2, <2>1, <2>2, HandlesDropped DEF CheckDrop, WarmTimeout
<1>3. CASE CheckWarm \/ CheckShot \/ FireThrows \/ WarmSucceeds \/ ShotThrows
  <2>1. call'.pc \notin {"await", "waitShot"}
    BY <1>3, GotoType, ReturnType
       DEF CheckWarm, CheckShot, FireThrows, WarmSucceeds, ShotThrows, TypeInv, TypeOK,
           CallType
  <2>2. op' = op /\ nops' = nops /\ chan' = chan /\ retired' = retired /\ parked' = parked
    BY <1>3 DEF CheckWarm, CheckShot, FireThrows, WarmSucceeds, ShotThrows, regVars
  <2> QED
    BY <2>1, <2>2, HandlesQuiet DEF Kept
<1>4. CASE FireWait \/ FireNoWait
  <2>1. call'.pc \notin {"await", "waitShot"} /\ chan \in Ops
    BY <1>4, GotoType, ReturnType DEF FireWait, FireNoWait, TypeInv, CallOK
  <2>2. /\ nops' = nops /\ chan' = chan /\ retired' = retired /\ parked' = parked
        /\ ReExecPut(chan)
    BY <1>4 DEF FireWait, FireNoWait, regVars
  <2>3. op' = op \/ op' = [op EXCEPT ![chan] = Fired]
    BY <2>2 DEF ReExecPut
  <2>4. Fired.role = "warm" /\ op[chan].role = "warm"
    BY <2>1, ConstantTypes DEF Fired, HandleInv, Holders
  <2>5. /\ \A o \in Ops \ {chan} : op'[o] = op[o]
        /\ op'[chan].role = "warm"
    BY <2>1, <2>3, <2>4 DEF TypeInv, TypeOK
  <2>6. retired \subseteq Ops /\ parked \subseteq Ops /\ chan \notin parked
    BY <2>4 DEF TypeInv, TypeOK, HandleInv, Holders
  <2>7. Uncreated'
    BY <2>1, <2>2, <2>4, <2>5 DEF HandleInv, Uncreated
  <2>8. Holders' /\ CallHolds'
    BY <2>1, <2>2, <2>5, <2>6 DEF HandleInv, Holders, CallHolds
  <2> QED
    BY <2>7, <2>8 DEF HandleInv
<1>5. CASE WarmFails
  <2>1. call'.pc = "idle" /\ nops' = nops /\ parked' = parked /\ chan \in Ops
    BY <1>5, ReturnType DEF WarmFails, TypeInv, CallOK
  <2>2. CASE ChanDead
    BY <1>5, <2>1, <2>2, HandlesDropped DEF WarmFails
  <2>3. CASE ~ChanDead
    BY <1>5, <2>1, <2>3, HandlesQuiet DEF WarmFails, Kept
  <2> QED
    BY <2>2, <2>3
<1>6. CASE ShotWait
  <2> DEFINE new == Created("shot", TRUE, call.put, call.type, 0)
             n   == nops + 1
  <2>1. /\ n \in Ops /\ n # chan /\ n \notin retired /\ n \notin parked
        /\ \A o \in Ops : o > n => o > nops
    BY <1>6, NewHandle DEF ShotWait
  <2>2. op' = [op EXCEPT ![n] = new]
        /\ new.role = "shot" /\ new.wait /\ new.put = call.put
    BY <1>6 DEF ShotWait, Created
  <2>3. op'[n].role = "shot" /\ op'[n].wait /\ op'[n].put = call.put
        /\ \A o \in Ops \ {n} : op'[o] = op[o]
    <3> HIDE DEF new
    <3> QED BY <2>1, <2>2 DEF TypeInv, TypeOK
  <2>4. /\ chan' = chan /\ retired' = retired /\ parked' = parked /\ nops' = n
        /\ call'.pc = "waitShot" /\ call'.op = n /\ call'.put = call.put
    BY <1>6 DEF ShotWait, regVars, TypeInv, TypeOK, CallType
  <2>5. retired \subseteq Ops /\ parked \subseteq Ops /\ (\A o \in Ops : o \in Nat)
        /\ (chan # 0 => chan \in Ops)
    BY ConstantTypes DEF TypeInv, TypeOK, Ops
  <2>6. Uncreated'
    <3>1. \A o \in Ops : o > n => o # n
      BY <2>1, <2>5
    <3> QED
      BY <2>1, <2>3, <2>4, <3>1 DEF HandleInv, Uncreated
  <2>7. Holders' /\ CallHolds'
    BY <2>1, <2>3, <2>4, <2>5 DEF HandleInv, Holders, CallHolds
  <2> QED
    BY <2>6, <2>7 DEF HandleInv
<1>7. CASE ShotNoWait
  <2> DEFINE new == Created("shot", FALSE, call.put, call.type, chan)
             n   == nops + 1
  <2>1. /\ n \in Ops /\ n # chan /\ n \notin retired /\ n \notin parked
        /\ \A o \in Ops : o > n => o > nops
    BY <1>7, NewHandle DEF ShotNoWait
  <2>2. op' = [Destroyed(Evicted) EXCEPT ![n] = new] /\ new.role = "shot" /\ ~new.wait
    BY <1>7 DEF ShotNoWait, Created
  <2>3. op'[n].role = "shot" /\ ~op'[n].wait
        /\ \A o \in Ops \ {n} : op'[o] = Destroyed(Evicted)[o]
    <3> HIDE DEF new
    <3> QED BY <2>1, <2>2, DestroyedType DEF TypeInv, TypeOK
  <2>4. /\ \A o \in Ops \ {n} : o \in Evicted => op'[o].role = "none"
        /\ \A o \in Ops \ {n} : o \notin Evicted => op'[o] = op[o]
    BY <2>3 DEF Destroyed, UnusedOp
  <2>5. /\ chan' = chan /\ retired' = retired /\ parked' = (parked \ Evicted) \cup {n}
        /\ nops' = n
    BY <1>7 DEF ShotNoWait
  <2>6. call'.pc = "idle"
    BY <1>7, ReturnType DEF ShotNoWait
  <2>7. retired \subseteq Ops /\ parked \subseteq Ops /\ (\A o \in Ops : o \in Nat)
        /\ (chan # 0 => chan \in Ops)
    BY ConstantTypes DEF TypeInv, TypeOK, Ops
  <2>8. Evicted \subseteq parked
    BY DEF Evicted
  <2>9. Uncreated'
    <3>1. \A o \in Ops : o > n => o # n
      BY <2>1, <2>7
    <3> QED
      BY <2>1, <2>4, <2>5, <3>1 DEF HandleInv, Uncreated
  <2>10. chan' # 0 => op'[chan'].role = "warm" /\ chan' \notin retired'
    BY <2>1, <2>4, <2>5, <2>7, <2>8 DEF HandleInv, Holders
  <2>11. \A o \in retired' : op'[o].role = "warm"
    BY <2>1, <2>4, <2>5, <2>7, <2>8 DEF HandleInv, Holders
  <2>12. \A o \in parked' : op'[o].role = "shot" /\ ~op'[o].wait
    BY <2>1, <2>3, <2>4, <2>5, <2>7 DEF HandleInv, Holders
  <2> QED
    BY <2>6, <2>9, <2>10, <2>11, <2>12 DEF HandleInv, Holders, CallHolds
<1>8. CASE ShotReturns \/ ShotTimeout
  <2>1. /\ op' = Destroyed({call.op}) /\ chan' = chan /\ retired' = retired
        /\ parked' = parked /\ nops' = nops /\ call.pc = "waitShot"
    BY <1>8 DEF ShotReturns, ShotTimeout, regVars
  <2>2. call'.pc = "idle"
    BY <1>8, ReturnType DEF ShotReturns, ShotTimeout
  <2>3. call.op \notin retired /\ call.op \notin parked /\ (chan # 0 => chan # call.op)
    BY <2>1 DEF HandleInv, Holders, CallHolds
  <2>4. retired' \subseteq retired \cup ({chan} \ {0}) /\ retired' \cap {call.op} = {}
        /\ parked' \subseteq parked /\ parked' \cap {call.op} = {}
        /\ (chan' # 0 => chan' \notin {call.op})
    BY <2>1, <2>3, ConstantTypes DEF TypeInv, TypeOK
  <2> QED
    BY <2>1, <2>2, <2>4, HandlesDestroyed
<1> QED
  BY <1>1, <1>2, <1>3, <1>4, <1>5, <1>6, <1>7, <1>8 DEF Exec

\* Every step keeps the handles apart.
LEMMA HandleStep == TypeInv /\ HandleInv /\ [Next]_vars => HandleInv'
<1> SUFFICES ASSUME TypeInv, HandleInv, [Next]_vars PROVE HandleInv'
  OBVIOUS
<1>1. CASE UNCHANGED vars
  BY <1>1, HandlesQuiet DEF vars, Kept
<1>2. CASE Open \/ Exec
  BY <1>2, OpenKeepsHandles, ExecKeepsHandles
<1>3. ASSUME NEW o \in Ops, Worker(o) PROVE HandleInv'
  BY <1>3, WorkerEffect, HandlesQuiet DEF PlaceKept
<1>4. CASE Outside
  BY <1>4, OutsideEffect, HandlesQuiet DEF PlaceKept
<1>5. ASSUME NEW w \in BOOLEAN, StartPut(w) PROVE HandleInv'
  <2>1. call'.pc = "open"
    BY <1>5 DEF StartPut, TypeInv, TypeOK, CallType
  <2> QED
    BY <1>5, <2>1, HandlesQuiet DEF StartPut, regVars, Kept
<1>6. CASE PvaClear
  BY <1>6, ClearKeepsHandles
<1>7. CASE EvictChannel
  <2>1. chan \in Ops
    BY <1>7 DEF EvictChannel, TypeInv, TypeOK, Ops
  <2> QED
    BY <1>7, <2>1, HandlesDropped DEF EvictChannel
<1>8. CASE ReapElsewhere
  BY <1>8, ReapKeepsHandles DEF ReapElsewhere
<1> QED
  BY <1>1, <1>2, <1>3, <1>4, <1>5, <1>6, <1>7, <1>8 DEF Next, Outside

\* Before the first put no operation has a handle.
LEMMA InitHandleInv == Init => HandleInv
BY DEF Init, HandleInv, Uncreated, Holders, CallHolds, UnusedOp

\* The steps of the MATLAB thread.
Matlab == \/ Open \/ Exec \/ PvaClear \/ EvictChannel \/ ReapElsewhere
          \/ \E w \in BOOLEAN : StartPut(w)

\* The operation a put call creates: pvaPutProto a warm one, pvaPutExec a one-shot.
NewOp == IF call.pc = "open" THEN Created("warm", FALSE, 0, NoType, 0)
         ELSE IF call.wait THEN Created("shot", TRUE, call.put, call.type, 0)
         ELSE Created("shot", FALSE, call.put, call.type, chan)

\* The new operation stands beside the others, less those destroyed to make room.
LEMMA CreateEffect ==
  ASSUME TypeInv, nops + 1 \in Ops, NEW S,
         op' = [Destroyed(S) EXCEPT ![nops + 1] = NewOp]
  PROVE  /\ op'[nops + 1] = NewOp
         /\ \A o \in Ops \ {nops + 1} : o \notin S => op'[o] = op[o]
         /\ \A o \in Ops \ {nops + 1} :
              o \in S => /\ op'[o].role = "none" /\ op'[o].event = "none"
                         /\ op'[o].phase = "gone"
<1>1. op'[nops + 1] = NewOp /\ \A o \in Ops \ {nops + 1} : op'[o] = Destroyed(S)[o]
  BY DestroyedType DEF TypeInv, TypeOK
<1> QED
  BY <1>1 DEF Destroyed, UnusedOp

\* What a step of the MATLAB thread makes of one operation.
MatlabOp(o) ==
  \/ op'[o] = op[o]
  \/ op'[o].role = "none" /\ op'[o].event = "none" /\ op'[o].phase = "gone"
  \/ /\ o = nops + 1 /\ nops' = o /\ op'[o] = NewOp
     /\ OpenCreate \/ ShotWait \/ ShotNoWait
  \/ o = chan /\ op[o].phase = "idle" /\ op'[o] = Fired /\ (FireWait \/ FireNoWait)

\* It keeps it, destroys it, creates it or fires it.
LEMMA MatlabOps == ASSUME TypeInv, HandleInv, Matlab, NEW o \in Ops PROVE MatlabOp(o)
<1> USE DEF MatlabOp
<1>1. ASSUME NEW S, op' = Destroyed(S) PROVE MatlabOp(o)
  BY <1>1, DestroyedEffect
<1>2. Destroyed({}) = op
  BY DEF Destroyed, TypeInv, TypeOK
<1>3. CASE \/ OpenReuse \/ OpenReady \/ BuildArg \/ BuildFails \/ OpenThrows \/ CheckWarm \/ CheckShot
           \/ FireThrows \/ WarmSucceeds \/ ShotThrows \/ \E w \in BOOLEAN : StartPut(w)
  <2>1. op' = op
    BY <1>3 DEF OpenReuse, OpenReady, BuildArg, BuildFails, OpenThrows, CheckWarm,
       CheckShot, FireThrows, WarmSucceeds, ShotThrows, StartPut
  <2> QED
    BY <2>1
<1>4. CASE \/ OpenDropDead \/ CheckDrop \/ WarmTimeout \/ WarmFails \/ EvictChannel
           \/ Reap \/ ReapElsewhere \/ PvaClear \/ OpenFails \/ ShotReturns \/ ShotTimeout
  <2>1. op' = op \/ \E S : op' = Destroyed(S)
    BY <1>4 DEF OpenDropDead, CheckDrop, WarmTimeout, WarmFails, EvictChannel, DropPutChan,
       Reap, ReapElsewhere, ReapFinished, PvaClear, OpenFails, ShotReturns, ShotTimeout
  <2> QED
    BY <1>1, <2>1
<1>5. CASE OpenCreate
  <2>1. op' = [Destroyed({}) EXCEPT ![nops + 1] = NewOp]
    BY <1>2, <1>5 DEF OpenCreate, NewOp
  <2>2. nops + 1 \in Ops /\ nops' = nops + 1 /\ call.pc = "open"
    BY <1>5, NewHandle DEF OpenCreate
  <2>3. op'[nops + 1] = NewOp /\ \A q \in Ops \ {nops + 1} : op'[q] = op[q]
    BY <2>1, <2>2, CreateEffect
  <2> QED
    BY <1>5, <2>2, <2>3
<1>6. CASE ShotWait
  <2>1. op' = [Destroyed({}) EXCEPT ![nops + 1] = NewOp]
    BY <1>2, <1>6 DEF ShotWait, NewOp
  <2>2. nops + 1 \in Ops /\ nops' = nops + 1 /\ call.pc = "shot" /\ call.wait
    BY <1>6, NewHandle DEF ShotWait
  <2>3. op'[nops + 1] = NewOp /\ \A q \in Ops \ {nops + 1} : op'[q] = op[q]
    BY <2>1, <2>2, CreateEffect
  <2> QED
    BY <1>6, <2>2, <2>3
<1>7. CASE ShotNoWait
  <2>1. op' = [Destroyed(Evicted) EXCEPT ![nops + 1] = NewOp]
    BY <1>7 DEF ShotNoWait, NewOp
  <2>2. nops + 1 \in Ops /\ nops' = nops + 1 /\ call.pc = "shot" /\ ~call.wait
    BY <1>7, NewHandle DEF ShotNoWait
  <2>3. op'[nops + 1] = NewOp
    BY <2>1, <2>2, CreateEffect
  <2>4. \A q \in Ops \ {nops + 1} : \/ op'[q] = op[q]
                                    \/ /\ op'[q].role = "none" /\ op'[q].event = "none"
                                       /\ op'[q].phase = "gone"
    BY <2>1, <2>2, CreateEffect
  <2> QED
    BY <1>7, <2>2, <2>3, <2>4
<1>8. CASE FireWait \/ FireNoWait
  <2>1. chan \in Ops /\ ReExecPut(chan)
    BY <1>8 DEF FireWait, FireNoWait, TypeInv, CallOK
  <2>2. op' = op \/ (op[chan].phase = "idle" /\ op' = [op EXCEPT ![chan] = Fired])
    BY <2>1 DEF ReExecPut
  <2>3. op'[o] = op[o] \/ (o = chan /\ op[o].phase = "idle" /\ op'[o] = Fired)
    BY <2>1, <2>2 DEF TypeInv, TypeOK
  <2> QED
    BY <1>8, <2>3
<1> QED
  BY <1>3, <1>4, <1>5, <1>6, <1>7, <1>8 DEF Matlab, Open, Exec

-----------------------------------------------------------------------------
(* Prototypes: what a warm operation that can act has negotiated.          *)

\* Only a connected channel has operations past the wait for a connection.
Connected ==
  \A o \in Ops : /\ op[o].phase = "connecting" => ~conn
                 /\ op[o].phase \in {"creating", "idle", "exec"} => conn

\* A warm operation that can act has the prototype of the present connection.
Current ==
  \A o \in Ops : op[o].role = "warm" /\ op[o].phase \in {"idle", "exec"}
                   => init[o].generation > 0 /\ init[o].proto = srvType

\* An argument about to be fired has the type of the prototype, unless that was
\* negotiated anew since the check.
Checked ==
  call.pc = "fire" =>
    /\ call.checked <= init[chan].generation
    /\ call.checked = init[chan].generation => call.type = init[chan].proto

ProtoInv == Connected /\ Current /\ Checked

\* The ways an operation's phase changes while the connection holds, but for the
\* reply to an INIT.
PhaseStep(o) ==
  \/ op'[o].phase = op[o].phase /\ op'[o].role = op[o].role
  \/ op'[o].phase \in {"gone", "done"}
  \/ op'[o].phase = IF conn THEN "creating" ELSE "connecting"
  \/ op'[o].phase \in {"idle", "exec"} /\ op[o].phase \in {"idle", "exec"}
       /\ op'[o].role = op[o].role
  \/ op'[o].phase = "exec" /\ op[o].phase = "creating" /\ op'[o].role = "shot"

\* Such a step keeps the prototypes current.
LEMMA ProtoQuiet ==
  ASSUME TypeInv, Connected, Current, conn' = conn, srvType' = srvType, init' = init,
         \A o \in Ops : PhaseStep(o)
  PROVE  Connected' /\ Current'
<1>1. Connected'
  BY DEF Connected, PhaseStep
<1>2. Current'
  BY DEF Current, PhaseStep
<1> QED
  BY <1>1, <1>2

\* The MATLAB thread's steps are of this kind.
LEMMA MatlabPhases ==
  ASSUME TypeInv, HandleInv, Matlab
  PROVE  /\ conn' = conn /\ srvType' = srvType /\ init' = init /\ applied' = applied
         /\ \A o \in Ops : PhaseStep(o)
<1>1. conn' = conn /\ srvType' = srvType /\ init' = init /\ applied' = applied
  BY DEF Matlab, Open, Exec, OpenReuse, OpenDropDead, OpenCreate, OpenReady, OpenFails,
     BuildArg, BuildFails, OpenThrows, Reap, CheckDrop, CheckWarm, CheckShot, FireWait,
     FireNoWait, FireThrows, WarmSucceeds, WarmFails, WarmTimeout, ShotWait, ShotNoWait,
     ShotThrows, ShotReturns, ShotTimeout, PvaClear, EvictChannel, ReapElsewhere, StartPut,
     netVars
<1>2. ASSUME NEW o \in Ops PROVE PhaseStep(o)
  <2>1. NewOp.phase = IF conn THEN "creating" ELSE "connecting"
    BY DEF NewOp, Created
  <2>2. CASE o = chan /\ op[o].phase = "idle" /\ op'[o] = Fired
    <3>1. op[o].role = "warm"
      BY <2>2, ConstantTypes DEF HandleInv, Holders
    <3> QED
      BY <2>2, <3>1 DEF Fired, PhaseStep
  <2>3. CASE op'[o] = op[o] \/ op'[o].phase = "gone"
    BY <2>3 DEF PhaseStep
  <2>4. CASE op'[o] = NewOp
    BY <2>1, <2>4 DEF PhaseStep
  <2> QED
    BY <2>2, <2>3, <2>4, MatlabOps DEF MatlabOp
<1> QED
  BY <1>1, <1>2

\* The callbacks keep them current: a reply to an INIT brings the structure of the
\* present connection, and raises the generation.
LEMMA WorkerKeepsProto ==
  ASSUME TypeInv, HandleInv, ProtoInv, NEW o \in Ops, Worker(o) PROVE ProtoInv'
<1>1. op[o] \in OpType /\ init[o] \in InitType /\ op \in [Ops -> OpType]
      /\ init \in [Ops -> InitType]
  BY DEF TypeInv, TypeOK
<1>2. /\ \A q \in Ops : Kept(q)
      /\ \A q \in Ops \ {o} : op'[q] = op[q]
      /\ PlaceKept
  BY WorkerEffect
<1>3. CASE InitReply(o)
  <2>1. /\ conn /\ conn' = conn /\ srvType' = srvType /\ op[o].role = "warm"
        /\ op' = [op EXCEPT ![o] = Now(op[o], "idle", op[o].event)]
    BY <1>3 DEF InitReply, NextInit, netVars
  <2>2. op'[o].phase = "idle"
    BY <1>1, <2>1, NowKeeps
  <2>3. /\ init'[o].proto = srvType /\ init'[o].generation = init[o].generation + 1
        /\ \A q \in Ops \ {o} : init'[q] = init[q]
    <3>1. init' = [init EXCEPT ![o] = [init[o] EXCEPT
                      !.proto = srvType, !.generation = init[o].generation + 1]]
      BY <1>1, <1>3 DEF InitReply
    <3> QED
      BY <1>1, <3>1 DEF InitType
  <2>4. init[o].generation \in Nat
    BY <1>1 DEF InitType
  <2>5. Connected'
    BY <1>2, <2>1, <2>2 DEF ProtoInv, Connected
  <2>6. Current'
    BY <1>2, <2>1, <2>2, <2>3, <2>4 DEF ProtoInv, Current
  <2>7. Checked'
    <3>1. call.pc = "fire" => chan \in Ops
      BY DEF TypeInv, CallOK
    <3>2. call.checked \in Nat
      BY DEF TypeInv, TypeOK, CallType
    <3> QED
      BY <1>2, <2>3, <2>4, <3>1, <3>2 DEF ProtoInv, Checked, PlaceKept
  <2> QED
    BY <2>5, <2>6, <2>7 DEF ProtoInv
<1>4. CASE ~InitReply(o)
  <2>1. conn' = conn /\ srvType' = srvType
    BY <1>4 DEF Worker, ShotBuild, ShotMistyped, InitRefused, Refused, NoWaitDone, WaitDone,
       ShotDone, Ack, netVars
  <2>2. init' = init \/ (InitRefused(o) /\ init' = [init EXCEPT ![o] = [init[o] EXCEPT
                                                         !.failure = TRUE]])
    BY <1>1, <1>4 DEF Worker, ShotBuild, ShotMistyped, InitRefused, Refused, NoWaitDone,
       WaitDone, ShotDone, Ack
  <2>3. \A q \in Ops : init'[q].proto = init[q].proto
                       /\ init'[q].generation = init[q].generation
    BY <1>1, <2>2 DEF InitType
  <2>4. PhaseStep(o)
    <3>1. CASE ShotBuild(o)
      BY <1>1, <1>2, <3>1, NowKeeps DEF ShotBuild, NextInit, PhaseStep, Kept
    <3>2. CASE ShotMistyped(o) \/ InitRefused(o) \/ Refused(o)
      BY <1>1, <3>2, NowKeeps DEF ShotMistyped, InitRefused, Refused, PhaseStep
    <3>3. CASE NoWaitDone(o) \/ WaitDone(o) \/ ShotDone(o)
      BY <1>1, <1>2, <3>3, NowKeeps DEF NoWaitDone, WaitDone, ShotDone, PhaseStep, Kept
    <3>4. CASE Ack(o)
      BY <1>1, <1>2, <3>4, NowKeeps DEF Ack, PhaseStep, Kept
    <3> QED
      BY <1>4, <3>1, <3>2, <3>3, <3>4 DEF Worker
  <2>5. \A q \in Ops : PhaseStep(q)
    BY <1>2, <2>4 DEF PhaseStep
  <2>6. Connected' /\ Current'
    BY <2>1, <2>3, <2>5 DEF ProtoInv, Connected, Current, PhaseStep
  <2>7. Checked'
    <3>1. call.pc = "fire" => chan \in Ops
      BY DEF TypeInv, CallOK
    <3> QED
      BY <1>2, <2>3, <3>1 DEF ProtoInv, Checked, PlaceKept
  <2> QED
    BY <2>6, <2>7 DEF ProtoInv
<1> QED
  BY <1>3, <1>4

\* A lost connection takes every operation out of the phases that can act; a new
\* one, perhaps of another structure, finds none in them.
LEMMA OutsideKeepsProto ==
  ASSUME TypeInv, HandleInv, ProtoInv, Outside PROVE ProtoInv'
<1>1. Checked'
  BY OutsideEffect DEF ProtoInv, Checked, PlaceKept
<1>2. \A q \in Ops : op[q] \in OpType
  BY DEF TypeInv, TypeOK
<1>3. CASE Connect
  <2>1. \A q \in Ops : op'[q].phase = IF op[q].phase = "connecting" THEN "creating"
                                      ELSE op[q].phase
    BY <1>2, <1>3, NowKeeps DEF Connect
  <2> QED
    BY <1>1, <1>3, <2>1, OutsideEffect DEF Connect, ProtoInv, Connected, Current
<1>4. CASE Disconnect
  <2>1. \A q \in Ops : op'[q].phase = CASE op[q].phase = "exec" -> "done"
                                        [] op[q].phase \in {"creating", "idle"} -> "connecting"
                                        [] OTHER -> op[q].phase
    BY <1>2, <1>4, NowKeeps DEF Disconnect
  <2>2. \A q \in Ops : op'[q].phase \notin {"creating", "idle", "exec"}
    BY <2>1
  <2> QED
    BY <1>1, <1>4, <2>2 DEF Disconnect, ProtoInv, Connected, Current
<1>5. CASE ~Connect /\ ~Disconnect
  <2>1. conn' = conn /\ srvType' = srvType /\ op' = op /\ init' = init
    BY <1>5 DEF Outside, BarrierExpires, BusyExpires, NoticeUp, Process, netVars
  <2> QED
    BY <1>1, <2>1 DEF ProtoInv, Connected, Current
<1> QED
  BY <1>3, <1>4, <1>5

\* The MATLAB thread comes to fire only through the check.
LEMMA MatlabKeepsChecked ==
  ASSUME TypeInv, ProtoInv, init' = init, Matlab
  PROVE  Checked'
<1>1. CASE CheckWarm
  <2>1. chan \in Ops
    BY <1>1 DEF CheckWarm, TypeInv, TypeOK, Ops
  <2>2. init[chan].generation \in Nat
    BY <2>1 DEF TypeInv, TypeOK, InitType
  <2>3. /\ call'.checked = init[chan].generation /\ call'.type = call.type /\ chan' = chan
        /\ call.type = init[chan].proto
    BY <1>1 DEF CheckWarm, WarmOk, TypeInv, TypeOK, CallType, regVars
  <2> QED
    BY <2>2, <2>3 DEF Checked
<1>2. CASE PvaClear \/ EvictChannel \/ ReapElsewhere
  <2>1. call.pc = "idle" /\ call' = call
    BY <1>2 DEF PvaClear, EvictChannel, ReapElsewhere
  <2> QED
    BY <2>1 DEF Checked
<1>3. CASE OpenDropDead
  <2>1. call.pc = "open" /\ call' = call
    BY <1>3 DEF OpenDropDead
  <2> QED
    BY <2>1 DEF Checked
<1>4. CASE /\ ~CheckWarm /\ ~OpenDropDead
           /\ ~(PvaClear \/ EvictChannel \/ ReapElsewhere)
  <2>1. call'.pc # "fire"
    BY <1>4, GotoType, ReturnType
       DEF Matlab, Open, Exec, OpenReuse, OpenCreate, OpenReady, OpenFails, BuildArg,
           BuildFails, OpenThrows, Reap, CheckDrop, CheckShot, FireWait, FireNoWait,
           FireThrows, WarmSucceeds, WarmFails, WarmTimeout, ShotWait, ShotNoWait,
           ShotThrows, ShotReturns, ShotTimeout, StartPut, TypeInv, TypeOK, CallType
  <2> QED
    BY <2>1 DEF Checked
<1> QED
  BY <1>1, <1>2, <1>3, <1>4 DEF Matlab

\* Every step keeps the prototypes current.
LEMMA ProtoStep == TypeInv /\ HandleInv /\ ProtoInv /\ [Next]_vars => ProtoInv'
<1> SUFFICES ASSUME TypeInv, HandleInv, ProtoInv, [Next]_vars PROVE ProtoInv'
  OBVIOUS
<1>1. CASE UNCHANGED vars
  BY <1>1 DEF vars, ProtoInv, Connected, Current, Checked
<1>2. CASE Outside
  BY <1>2, OutsideKeepsProto
<1>3. ASSUME NEW o \in Ops, Worker(o) PROVE ProtoInv'
  BY <1>3, WorkerKeepsProto
<1>4. CASE Matlab
  BY <1>4, MatlabPhases, ProtoQuiet, MatlabKeepsChecked DEF ProtoInv
<1> QED
  BY <1>1, <1>2, <1>3, <1>4 DEF Next, Outside, Matlab

\* Before the first put nothing was negotiated.
LEMMA InitProtoInv == Init => ProtoInv
BY DEF Init, ProtoInv, Connected, Current, Checked, UnusedOp

-----------------------------------------------------------------------------
(* Results: an answer that says ok is about a put the server has written.  *)

AppliedInv ==
  /\ \A o \in Ops : op[o].event = "ok" => op[o].put \in applied
  /\ call.sync = "ok" => call.put \in applied

\* A step in which no success is reported, to the operation or to the call.
LEMMA AppliedQuiet ==
  ASSUME TypeInv, AppliedInv, applied \subseteq applied',
         \A o \in Ops : op'[o].event = "ok" => op[o].event = "ok" /\ op'[o].put = op[o].put,
         call'.sync = "ok" => call.sync = "ok" /\ call'.put = call.put
  PROVE  AppliedInv'
BY DEF AppliedInv

\* The MATLAB thread gives no operation a result, and a new put starts without one.
LEMMA MatlabEvents ==
  ASSUME TypeInv, HandleInv, Matlab
  PROVE  /\ \A o \in Ops : op'[o].event # "none" => op'[o] = op[o]
         /\ (call'.sync = call.sync /\ call'.put = call.put) \/ call'.sync = "none"
<1>1. (call'.sync = call.sync /\ call'.put = call.put) \/ call'.sync = "none"
  BY DEF Matlab, Open, Exec, OpenReuse, OpenDropDead, OpenCreate, OpenReady, OpenFails,
     BuildArg, BuildFails, OpenThrows, Reap, CheckDrop, CheckWarm, CheckShot, FireWait,
     FireNoWait, FireThrows, WarmSucceeds, WarmFails, WarmTimeout, ShotWait, ShotNoWait,
     ShotThrows, ShotReturns, ShotTimeout, PvaClear, EvictChannel, ReapElsewhere, StartPut,
     Goto, Return, TypeInv, TypeOK, CallType
<1>2. NewOp.event = "none" /\ Fired.event = "none"
  BY DEF NewOp, Created, Fired
<1>3. \A o \in Ops : op'[o].event # "none" => op'[o] = op[o]
  BY <1>2, MatlabOps DEF MatlabOp
<1> QED
  BY <1>1, <1>3

\* A callback hands on the result of its own operation, and an acknowledgement says
\* ok only of a put that was written.
LEMMA WorkerKeepsApplied ==
  ASSUME TypeInv, AppliedInv, NEW o \in Ops, Worker(o) PROVE AppliedInv'
<1>1. op[o] \in OpType /\ op \in [Ops -> OpType]
  BY DEF TypeInv, TypeOK
<1>2. /\ \A q \in Ops : Kept(q)
      /\ \A q \in Ops \ {o} : op'[q] = op[q]
      /\ PlaceKept
  BY WorkerEffect
<1>3. applied' = applied
  BY DEF Worker, InitReply, ShotBuild, ShotMistyped, InitRefused, Refused, NoWaitDone,
     WaitDone, ShotDone, Ack, netVars
<1>4. op'[o].event = "ok" => op[o].put \in applied
  <2>1. CASE Ack(o)
    <3>1. op'[o].event = IF op[o].put \in applied THEN "ok" ELSE "remote"
      BY <1>1, <2>1, NowKeeps DEF Ack
    <3> QED
      BY <3>1
  <2>2. CASE InitReply(o) \/ ShotBuild(o) \/ InitRefused(o)
    <3>1. op'[o].event = op[o].event
      BY <1>1, <2>2, NowKeeps DEF InitReply, ShotBuild, InitRefused
    <3> QED
      BY <3>1 DEF AppliedInv
  <2>3. CASE ShotMistyped(o) \/ Refused(o) \/ NoWaitDone(o) \/ WaitDone(o) \/ ShotDone(o)
    <3>1. op'[o].event # "ok"
      BY <1>1, <2>3, NowKeeps DEF ShotMistyped, Refused, NoWaitDone, WaitDone, ShotDone
    <3> QED
      BY <3>1
  <2> QED
    BY <2>1, <2>2, <2>3 DEF Worker
<1>5. \A q \in Ops : op'[q].event = "ok" => op'[q].put \in applied
  BY <1>2, <1>4 DEF AppliedInv, Kept
<1>6. call'.sync = "ok" => call.put \in applied
  <2>1. CASE WaitDone(o)
    <3>1. \/ call' = call
          \/ call.put = op[o].put /\ call' = [call EXCEPT !.sync = op[o].event]
      BY <2>1 DEF WaitDone
    <3>2. call \in CallType
      BY DEF TypeInv, TypeOK
    <3> QED
      BY <3>1, <3>2 DEF CallType, AppliedInv
  <2>2. CASE ~WaitDone(o)
    BY <2>2 DEF Worker, InitReply, ShotBuild, ShotMistyped, InitRefused, Refused,
       NoWaitDone, ShotDone, Ack, AppliedInv
  <2> QED
    BY <2>1, <2>2
<1> QED
  BY <1>2, <1>3, <1>5, <1>6 DEF AppliedInv, PlaceKept

\* Every step keeps the results true.
LEMMA AppliedStep == TypeInv /\ HandleInv /\ AppliedInv /\ [Next]_vars => AppliedInv'
<1> SUFFICES ASSUME TypeInv, HandleInv, AppliedInv, [Next]_vars PROVE AppliedInv'
  OBVIOUS
<1>1. CASE UNCHANGED vars
  BY <1>1, AppliedQuiet DEF vars
<1>2. CASE Outside
  <2>1. \A q \in Ops : op[q] \in OpType
    BY DEF TypeInv, TypeOK
  <2>2. \A q \in Ops : op'[q].event = op[q].event \/ op'[q].event = "lost"
    BY <1>2, <2>1, NowKeeps DEF Outside, BarrierExpires, BusyExpires, Connect, Disconnect,
       NoticeUp, Process
  <2>3. applied \subseteq applied'
    BY <1>2 DEF Outside, BarrierExpires, BusyExpires, Connect, Disconnect, NoticeUp,
       Process, netVars
  <2> QED
    BY <1>2, <2>2, <2>3, OutsideEffect, AppliedQuiet DEF Kept
<1>3. ASSUME NEW o \in Ops, Worker(o) PROVE AppliedInv'
  BY <1>3, WorkerKeepsApplied
<1>4. CASE Matlab
  BY <1>4, MatlabPhases, MatlabEvents, AppliedQuiet
<1> QED
  BY <1>1, <1>2, <1>3, <1>4 DEF Next, Outside, Matlab

\* Before the first put nothing has a result.
LEMMA InitAppliedInv == Init => AppliedInv
BY DEF Init, AppliedInv, UnusedOp

-----------------------------------------------------------------------------
(* The theorems about steps.                                               *)

StepInv == TypeInv /\ HandleInv /\ ProtoInv /\ AppliedInv

\* What the handles, the prototypes and the results rely on holds for ever.
LEMMA StepInvariant == Spec => []StepInv
<1>1. Init => StepInv
  BY InitTypeInv, InitHandleInv, InitProtoInv, InitAppliedInv DEF StepInv
<1>2. StepInv /\ [Next]_vars => StepInv'
  BY TypeStep, HandleStep, ProtoStep, AppliedStep DEF StepInv
<1> QED
  BY <1>1, <1>2, PTL DEF Spec

\* A pvaPut that reports success is in the record: neither a warm put's result nor
\* a one-shot's is ever taken for that of another put, however late it comes.
THEOREM SuccessApplied == Spec => OkMeansApplied
<1>1. ASSUME StepInv, [Next]_vars, call.pc # "idle", call'.pc = "idle", call'.ret = "ok"
      PROVE  call.put \in applied
  <2> USE <1>1 DEF StepInv
  <2>1. call \in CallType
    BY DEF TypeInv, TypeOK
  <2>2. CASE WarmSucceeds
    BY <2>2 DEF WarmSucceeds, AppliedInv
  <2>3. CASE ShotReturns
    <3>1. /\ call' = [call EXCEPT !.pc = "idle",
                                  !.ret = IF op[call.op].event = "ok" THEN "ok" ELSE "error"]
          /\ call.pc = "waitShot"
      BY <2>3 DEF ShotReturns, Return
    <3>2. op[call.op].event = "ok"
      BY <2>1, <3>1 DEF CallType
    <3>3. call.op \in Ops /\ op[call.op].put = call.put
      BY <3>1 DEF TypeInv, CallOK, HandleInv, CallHolds
    <3> QED
      BY <3>2, <3>3 DEF AppliedInv
  <2>4. CASE Open \/ (Exec /\ ~WarmSucceeds /\ ~ShotReturns)
    <3>1. call'.pc # "idle" \/ call'.ret # "ok"
      BY <2>1, <2>4 DEF Open, Exec, OpenReuse, OpenDropDead, OpenCreate, OpenReady,
         OpenFails, BuildArg, BuildFails, OpenThrows, Reap, CheckDrop, CheckWarm,
         CheckShot, FireWait, FireNoWait, FireThrows, WarmFails, WarmTimeout, ShotWait,
         ShotNoWait, ShotThrows, ShotTimeout, Goto, Return, CallType
    <3> QED
      BY <3>1
  <2>5. ASSUME NEW o \in Ops, Worker(o) PROVE FALSE
    BY <2>5, WorkerEffect DEF PlaceKept
  <2>6. ASSUME Outside PROVE FALSE
    BY <2>6, OutsideEffect DEF PlaceKept
  <2>7. CASE \/ PvaClear \/ EvictChannel \/ ReapElsewhere \/ UNCHANGED vars
             \/ \E w \in BOOLEAN : StartPut(w)
    BY <2>7 DEF PvaClear, EvictChannel, ReapElsewhere, StartPut, vars
  <2> QED
    BY <2>2, <2>3, <2>4, <2>5, <2>6, <2>7 DEF Next, Outside
<1>2. StepInv /\ [Next]_vars
        => [call.pc # "idle" /\ call'.pc = "idle" /\ call'.ret = "ok"
              => call.put \in applied]_vars
  BY <1>1
<1> QED
  BY <1>2, StepInvariant, PTL DEF Spec, OkMeansApplied

\* A no-wait put that is executing and within its deadline outlives every drop,
\* eviction, clear and reap: dropPutChan retires its operation, the reap keeps it
\* until it settles, and the handles destroyed elsewhere are of other operations.
THEOREM NoWaitKept == Spec => InFlightKept
<1>1. ASSUME StepInv, [Next]_vars, NEW o \in Ops,
             op[o].role = "warm", op[o].phase = "exec", InFlight(o)
      PROVE  op'[o].phase # "gone"
  <2> USE <1>1 DEF StepInv
  <2>1. init[o].generation > 0
    BY DEF ProtoInv, Current
  <2>2. ASSUME op' = op PROVE op'[o].phase # "gone"
    BY <2>2
  <2>3. ASSUME NEW S, op' = Destroyed(S), o \notin S PROVE op'[o].phase # "gone"
    BY <2>3, DestroyedEffect
  <2>4. ASSUME DropPutChan PROVE op'[o].phase # "gone"
    BY <2>2, <2>3, <2>4 DEF DropPutChan
  <2>5. o \notin DonePuts \cup SettledPuts
    BY DEF DonePuts, SettledPuts
  <2>6. CASE \/ OpenDropDead \/ CheckDrop \/ WarmTimeout \/ WarmFails \/ EvictChannel
    BY <2>2, <2>4, <2>6 DEF OpenDropDead, CheckDrop, WarmTimeout, WarmFails, EvictChannel
  <2>7. CASE Reap \/ ReapElsewhere \/ PvaClear
    <3>1. op' = Destroyed(DonePuts \cup SettledPuts)
          \/ op' = Destroyed(DonePuts \cup SettledPuts \cup IF InFlight(chan) THEN {} ELSE {chan})
      BY <2>7 DEF Reap, ReapElsewhere, ReapFinished, PvaClear
    <3>2. o \notin DonePuts \cup SettledPuts \cup IF InFlight(chan) THEN {} ELSE {chan}
      BY <2>5
    <3> QED
      BY <2>3, <2>5, <3>1, <3>2
  <2>8. CASE OpenFails
    <3>1. o # call.op /\ op' = Destroyed({call.op})
      BY <2>1, <2>8 DEF OpenFails
    <3> QED
      BY <2>3, <3>1
  <2>9. CASE ShotReturns \/ ShotTimeout
    <3>1. o # call.op /\ op' = Destroyed({call.op})
      BY <2>9 DEF ShotReturns, ShotTimeout, HandleInv, CallHolds
    <3> QED
      BY <2>3, <3>1
  <2>10. CASE \/ OpenReuse \/ OpenReady \/ BuildArg \/ BuildFails \/ OpenThrows \/ CheckWarm \/ CheckShot
              \/ FireThrows \/ WarmSucceeds \/ ShotThrows \/ UNCHANGED vars
              \/ \E w \in BOOLEAN : StartPut(w)
    BY <2>2, <2>10 DEF OpenReuse, OpenReady, BuildArg, BuildFails, OpenThrows, CheckWarm,
       CheckShot, FireThrows, WarmSucceeds, ShotThrows, StartPut, vars
  <2>11. CASE OpenCreate \/ ShotWait
    <3>1. o # nops + 1
      BY <2>11, NewHandle DEF OpenCreate, ShotWait
    <3>2. op'[o] = op[o]
      BY <2>11, <3>1 DEF OpenCreate, ShotWait, TypeInv, TypeOK
    <3> QED
      BY <3>2
  <2>12. CASE ShotNoWait
    <3>1. op' = [Destroyed(Evicted) EXCEPT ![nops + 1] = NewOp]
      BY <2>12 DEF ShotNoWait, NewOp
    <3>2. nops + 1 \in Ops /\ o # nops + 1
      BY <2>12, NewHandle DEF ShotNoWait
    <3>3. o \notin Evicted
      BY DEF Evicted, HandleInv, Holders
    <3>4. op'[o] = op[o]
      BY <3>1, <3>2, <3>3, CreateEffect
    <3> QED
      BY <3>4
  <2>13. CASE FireWait \/ FireNoWait
    <3>1. ReExecPut(chan) /\ chan \in Ops
      BY <2>13 DEF FireWait, FireNoWait, TypeInv, CallOK
    <3>2. op'[o] = op[o]
      BY <3>1 DEF ReExecPut, TypeInv, TypeOK
    <3> QED
      BY <3>2
  <2>14. ASSUME NEW q \in Ops, Worker(q) PROVE op'[o].phase # "gone"
    <3>1. CASE q # o
      BY <2>14, <3>1, WorkerEffect
    <3>2. CASE q = o
      <4>1. op[o] \in OpType /\ op \in [Ops -> OpType]
        BY DEF TypeInv, TypeOK
      <4> QED
        BY <2>14, <3>2, <4>1, NowKeeps DEF Worker, InitReply, ShotBuild, ShotMistyped,
           InitRefused, Refused, NoWaitDone, WaitDone, ShotDone, Ack
    <3> QED
      BY <3>1, <3>2
  <2>15. CASE Outside
    <3>1. op[o] \in OpType
      BY DEF TypeInv, TypeOK
    <3>2. op'[o] = op[o] \/ op'[o].phase = "done"
      BY <2>15, <3>1, NowKeeps DEF Outside, BarrierExpires, BusyExpires, Connect,
         Disconnect, NoticeUp, Process
    <3> QED
      BY <3>2
  <2> QED
    BY <2>6, <2>7, <2>8, <2>9, <2>10, <2>11, <2>12, <2>13, <2>14,
     <2>15
       DEF Next, Open, Exec, Outside
<1>2. StepInv /\ [Next]_vars
        => [\A o \in Ops :
              op[o].role = "warm" /\ op[o].phase = "exec" /\ ~op[o].wait /\ InFlight(o)
                => op'[o].phase # "gone"]_vars
  BY <1>1
<1> QED
  BY <1>2, StepInvariant, PTL DEF Spec, InFlightKept

\* Data never goes on the wire with a type the channel does not have, unless the
\* connection was lost and made anew between the check and the execution.
THEOREM WireTyped == Spec => TypeSafe
<1>1. ASSUME StepInv, [Next]_vars, NEW o \in Ops,
             op[o].phase # "exec", op'[o].phase = "exec"
      PROVE  \/ op'[o].type = srvType
             \/ op[o].role = "warm" /\ init[o].generation # call.checked
  <2> USE <1>1 DEF StepInv
  <2>1. op[o] \in OpType /\ op \in [Ops -> OpType]
    BY DEF TypeInv, TypeOK
  <2>2. op'[o].phase # "gone" /\ op'[o] # op[o]
    BY <2>1
  <2>3. ASSUME UNCHANGED vars PROVE FALSE
    BY <2>2, <2>3 DEF vars
  <2>4. CASE Matlab
    <3>1. NewOp.phase # "exec"
      BY DEF NewOp, Created
    <3>2. o = chan /\ op[o].phase = "idle" /\ op'[o] = Fired /\ (FireWait \/ FireNoWait)
      BY <2>2, <2>4, <3>1, MatlabOps DEF MatlabOp
    <3>3. op'[o].type = call.type /\ call.pc = "fire"
      BY <3>2 DEF Fired, FireWait, FireNoWait
    <3>4. op[o].role = "warm"
      BY <3>2, ConstantTypes DEF HandleInv, Holders
    <3>5. init[o].proto = srvType
      BY <3>2, <3>4 DEF ProtoInv, Current
    <3> QED
      BY <3>2, <3>3, <3>4, <3>5 DEF ProtoInv, Checked
  <2>5. ASSUME NEW q \in Ops, Worker(q)
        PROVE  op'[o].type = srvType
    <3>1. q = o
      BY <2>2, <2>5, WorkerEffect
    <3>2. ShotBuild(o)
      BY <2>1, <2>5, <3>1, NowKeeps DEF Worker, InitReply, ShotMistyped,
         InitRefused, Refused, NoWaitDone, WaitDone, ShotDone, Ack
    <3>3. op'[o].type = op[o].type
      BY <2>5, WorkerEffect DEF Kept
    <3> QED
      BY <3>2, <3>3 DEF ShotBuild
  <2>6. ASSUME Outside PROVE FALSE
    <3>1. op'[o] = op[o] \/ op'[o].phase \in {"creating", "done", "connecting"}
      BY <2>1, <2>6, NowKeeps DEF Outside, BarrierExpires, BusyExpires, Connect, Disconnect,
         NoticeUp, Process
    <3> QED
      BY <2>2, <3>1
  <2> QED
    BY <2>3, <2>4, <2>5, <2>6 DEF Next, Outside, Matlab
<1>2. StepInv /\ [Next]_vars
        => [\A o \in Ops : op[o].phase # "exec" /\ op'[o].phase = "exec"
              => \/ op'[o].type = srvType
                 \/ op[o].role = "warm" /\ init[o].generation # call.checked]_vars
  BY <1>1
<1> QED
  BY <1>2, StepInvariant, PTL DEF Spec, TypeSafe

-----------------------------------------------------------------------------
(* The health of the warm operation, while the server refuses no INIT.     *)

\* No result is awaited before the put is fired; an operation that executes has no
\* result yet; and one that never executed has not come to its end.
FreshInv ==
  /\ call.pc \in Early => call.sync = "none"
  /\ \A o \in Ops : op[o].role = "warm" =>
       /\ op[o].phase = "exec" => op[o].event = "none"
       /\ op[o].fresh => op[o].phase \in {"connecting", "creating", "idle"}
  /\ call.pc = "await" => op[call.op].fresh

\* The channel's operation executes, or ended without the glue knowing yet.
Unsettled == op[chan].phase = "exec" \/ (op[chan].phase = "done" /\ ~st[chan].dead)

\* Until then somebody is due to hear of it: the put call that waits, or the
\* callback that will clear the busy mark.
AnswerDue ==
  /\ call.pc = "fire" => ~st[chan].busy
  /\ chan # 0 /\ Unsettled =>
       /\ op[chan].phase = "done" => op[chan].event = "lost"
       /\ op[chan].wait => call.pc = "waitWarm" /\ call.sync = "none"
       /\ ~op[chan].wait => st[chan].busy

HealthInv == FreshInv /\ AnswerDue

\* A step that leaves the operation and its ChanState alone, and the wait for it.
LEMMA DueQuiet ==
  ASSUME AnswerDue, chan' = chan, op'[chan] = op[chan],
         st'[chan].busy = st[chan].busy, st'[chan].dead = st[chan].dead,
         call.pc = "waitWarm" /\ call.sync = "none"
           => call'.pc = "waitWarm" /\ call'.sync = "none",
         call'.pc = "fire" => call.pc = "fire"
  PROVE  AnswerDue'
BY DEF AnswerDue, Unsettled

\* The MATLAB thread makes warm operations fresh and fires those that are Idle.
LEMMA MatlabKeepsFresh ==
  ASSUME TypeInv, HandleInv, FreshInv, Matlab, HandleInv' PROVE FreshInv'
<1>1. call'.pc \in Early => call'.sync = "none"
  <2>1. call.pc \in Early \/ call.pc = "idle" => call'.sync = "none" \/ call'.pc \notin Early
    BY DEF Matlab, Open, Exec, OpenReuse, OpenDropDead, OpenCreate, OpenReady, OpenFails,
       BuildArg, BuildFails, OpenThrows, Reap, CheckDrop, CheckWarm, CheckShot, FireWait,
       FireNoWait, FireThrows, WarmSucceeds, WarmFails, WarmTimeout, ShotWait, ShotNoWait,
       ShotThrows, ShotReturns, ShotTimeout, PvaClear, EvictChannel, ReapElsewhere,
       StartPut, Goto, Return, TypeInv, TypeOK, CallType, FreshInv, Early
  <2>2. call.pc \notin Early /\ call.pc # "idle" => call'.pc \notin Early
    BY ReturnType
       DEF Matlab, Open, Exec, OpenReuse, OpenDropDead, OpenCreate, OpenReady, OpenFails,
           BuildArg, BuildFails, OpenThrows, Reap, CheckDrop, CheckWarm, CheckShot,
           FireWait, FireNoWait, FireThrows, WarmSucceeds, WarmFails, WarmTimeout,
           ShotWait, ShotNoWait, ShotThrows, ShotReturns, ShotTimeout, PvaClear,
           EvictChannel, ReapElsewhere, StartPut, Early
  <2> QED
    BY <2>1, <2>2
<1>2. /\ NewOp.fresh /\ NewOp.phase \in {"connecting", "creating"}
      /\ Fired.event = "none" /\ ~Fired.fresh
  BY DEF NewOp, Created, Fired
<1>3. ASSUME NEW o \in Ops, op'[o].role = "warm"
      PROVE  /\ op'[o].phase = "exec" => op'[o].event = "none"
             /\ op'[o].fresh => op'[o].phase \in {"connecting", "creating", "idle"}
  BY <1>2, <1>3, MatlabOps DEF MatlabOp, FreshInv
<1>4. call'.pc = "await" => op'[call'.op].fresh
  <2>1. CASE OpenCreate
    <3>1. call'.op = nops + 1 /\ op' = [op EXCEPT ![nops + 1] = NewOp] /\ nops + 1 \in Ops
      BY <2>1, NewHandle DEF OpenCreate, NewOp, TypeInv, TypeOK, CallType
    <3>2. op'[nops + 1] = NewOp
      BY <3>1 DEF TypeInv, TypeOK
    <3> QED
      BY <1>2, <3>1, <3>2
  <2>2. CASE ~OpenCreate
    <3>1. call'.pc # "await"
      BY <2>2, GotoType, ReturnType
         DEF Matlab, Open, Exec, OpenReuse, OpenDropDead, OpenReady, OpenFails,
             BuildArg, BuildFails, OpenThrows, Reap, CheckDrop, CheckWarm, CheckShot,
             FireWait, FireNoWait, FireThrows, WarmSucceeds, WarmFails, WarmTimeout,
             ShotWait, ShotNoWait, ShotThrows, ShotReturns, ShotTimeout, PvaClear,
             EvictChannel, ReapElsewhere, StartPut, TypeInv, TypeOK, CallType
    <3> QED
      BY <3>1
  <2> QED
    BY <2>1, <2>2
<1> QED
  BY <1>1, <1>3, <1>4 DEF FreshInv

\* The callbacks end no operation that never executed, where no INIT is refused.
LEMMA WorkerKeepsFresh ==
  ASSUME ~MayRefuse, TypeInv, FreshInv, NEW o \in Ops, Worker(o) PROVE FreshInv'
<1>1. op[o] \in OpType /\ op \in [Ops -> OpType] /\ call \in CallType
  BY DEF TypeInv, TypeOK
<1>2. /\ \A q \in Ops : Kept(q)
      /\ \A q \in Ops \ {o} : op'[q] = op[q]
      /\ PlaceKept
  BY WorkerEffect
<1>3. call.pc = "await" => call.op \in Ops
  BY DEF TypeInv, CallOK
<1>4. call.pc \in Early => call'.sync = call.sync
  BY DEF Worker, InitReply, ShotBuild, ShotMistyped, InitRefused, Refused, NoWaitDone,
     WaitDone, ShotDone, Ack, Early
<1>5. op[o].role = "warm" =>
        /\ op'[o].phase = "exec" => op'[o].event = "none"
        /\ op'[o].fresh => op'[o].phase \in {"connecting", "creating", "idle"}
  BY <1>1, <1>2, NowKeeps DEF Kept, Worker, InitReply, ShotBuild, ShotMistyped, InitRefused,
     Refused, NoWaitDone, WaitDone, ShotDone, Ack, FreshInv
<1> QED
  BY <1>2, <1>3, <1>4, <1>5 DEF FreshInv, Kept, PlaceKept

\* Nor does the connection.
LEMMA OutsideKeepsFresh == ASSUME TypeInv, FreshInv, Outside PROVE FreshInv'
<1>1. \A q \in Ops : op[q] \in OpType
  BY DEF TypeInv, TypeOK
<1>2. \A q \in Ops : \/ op'[q] = op[q]
                     \/ op'[q].phase \in {"connecting", "creating"}
                     \/ op'[q].phase = "done" /\ op[q].phase = "exec"
  BY <1>1, NowKeeps DEF Outside, BarrierExpires, BusyExpires, Connect, Disconnect, NoticeUp,
     Process
<1>3. call.pc = "await" => call.op \in Ops
  BY DEF TypeInv, CallOK
<1> QED
  BY <1>2, <1>3, OutsideEffect DEF FreshInv, Kept

\* The callbacks settle an execution for the glue: they clear the busy mark of an
\* operation, and mark it dead if it was lost.
LEMMA WorkerKeepsDue ==
  ASSUME ~MayRefuse, TypeInv, HandleInv, FreshInv, AnswerDue, NEW o \in Ops, Worker(o)
  PROVE  AnswerDue'
<1>1. op[o] \in OpType /\ op \in [Ops -> OpType] /\ st \in [Ops -> StType]
  BY DEF TypeInv, TypeOK
<1>2. /\ \A q \in Ops \ {o} : op'[q] = op[q]
      /\ PlaceKept
  BY WorkerEffect
<1>3. chan # 0 => chan \in Ops /\ op[chan].role = "warm"
  BY DEF TypeInv, TypeOK, Ops, HandleInv, Holders
<1>4. call.pc = "fire" => chan \in Ops /\ chan # 0
  BY ConstantTypes DEF TypeInv, CallOK
<1>5. CASE o # chan \/ chan = 0
  <2>1. \A q \in Ops \ {o} : st'[q].busy = st[q].busy /\ st'[q].dead = st[q].dead
    <3>1. CASE ShotDone(o)
      BY <1>1, <3>1 DEF ShotDone, StType
    <3>2. CASE ~ShotDone(o)
      BY <1>1, <3>2 DEF Worker, InitReply, ShotBuild, ShotMistyped, InitRefused, Refused,
         NoWaitDone, WaitDone, Ack
    <3> QED
      BY <3>1, <3>2
  <2>2. CASE chan = 0
    BY <1>2, <1>4, <2>2 DEF AnswerDue, PlaceKept
  <2>3. CASE chan # 0
    <3>1. call'.sync = call.sync
      BY <1>5, <2>3 DEF Worker, InitReply, ShotBuild, ShotMistyped, InitRefused, Refused,
         NoWaitDone, WaitDone, ShotDone, Ack
    <3> QED
      BY <1>2, <1>3, <1>5, <2>1, <2>3, <3>1, DueQuiet DEF PlaceKept
  <2> QED
    BY <2>2, <2>3
<1>6. CASE o = chan /\ chan # 0
  <2>1. CASE InitReply(o) \/ Ack(o)
    <3>1. op'[o].phase = "idle" /\ st' = st
      BY <1>1, <1>3, <1>6, <2>1, NowKeeps DEF InitReply, Ack
    <3> QED
      BY <1>2, <1>6, <3>1 DEF AnswerDue, Unsettled, PlaceKept
  <2>2. CASE NoWaitDone(o) \/ WaitDone(o)
    <3>1. op'[o].phase = op[o].phase
      BY <1>1, <2>2, NowKeeps DEF NoWaitDone, WaitDone
    <3>2. /\ op[o].event # "none" /\ st'[o].dead = (st[o].dead \/ op[o].event = "lost")
          /\ st'[o].busy => st[o].busy
      BY <1>1, <2>2 DEF NoWaitDone, WaitDone, StType
    <3>3. op[o].phase # "exec"
      BY <1>3, <1>6, <3>2 DEF FreshInv
    <3>4. ~Unsettled'
      BY <1>2, <1>6, <3>1, <3>2, <3>3 DEF AnswerDue, Unsettled, PlaceKept
    <3> QED
      BY <1>2, <1>6, <3>2, <3>4 DEF AnswerDue, PlaceKept
  <2>3. ASSUME ShotBuild(o) \/ ShotMistyped(o) \/ ShotDone(o) \/ InitRefused(o) \/ Refused(o)
        PROVE  FALSE
    BY <1>3, <1>6, <2>3 DEF ShotBuild, ShotMistyped, ShotDone, InitRefused, Refused
  <2> QED
    BY <2>1, <2>2, <2>3 DEF Worker
<1> QED
  BY <1>5, <1>6

\* A connection lost under an execution leaves its result to be heard of.
LEMMA OutsideKeepsDue ==
  ASSUME TypeInv, HandleInv, FreshInv, AnswerDue, Outside PROVE AnswerDue'
<1>1. (\A q \in Ops : op[q] \in OpType) /\ st \in [Ops -> StType]
  BY DEF TypeInv, TypeOK
<1>2. \A q \in Ops : \/ op'[q] = op[q]
                     \/ op'[q].phase \in {"connecting", "creating"}
                     \/ op'[q].phase = "done" /\ op[q].phase = "exec" /\ op'[q].event = "lost"
  BY <1>1, NowKeeps DEF Outside, BarrierExpires, BusyExpires, Connect, Disconnect, NoticeUp,
     Process
<1>3. \A q \in Ops : st'[q].busy = st[q].busy /\ st'[q].dead = st[q].dead
  BY <1>1 DEF Outside, BarrierExpires, BusyExpires, Connect, Disconnect, NoticeUp,
     Process, StType
<1>4. (chan # 0 => chan \in Ops) /\ (call.pc = "fire" => chan \in Ops)
  BY DEF TypeInv, TypeOK, CallOK, Ops
<1>5. call' = call /\ chan' = chan /\ \A q \in Ops : op'[q].wait = op[q].wait
  BY OutsideEffect DEF PlaceKept, Kept
<1> QED
  BY <1>2, <1>3, <1>4, <1>5 DEF AnswerDue, Unsettled

\* The MATLAB thread fires an operation with nothing due, and comes back from the
\* wait with the result or drops the operation.
LEMMA MatlabKeepsDue ==
  ASSUME TypeInv, HandleInv, HandleInv', FreshInv, AnswerDue, Matlab
  PROVE  AnswerDue'
<1>1. (chan # 0 => chan \in Ops) /\ st \in [Ops -> StType] /\ call \in CallType
  BY DEF TypeInv, TypeOK, Ops
<1>2. CASE chan' = 0
  <2>1. call'.pc = "fire" => chan' # 0
    BY <1>1, <1>2, GotoType, ReturnType
       DEF Matlab, Open, Exec, OpenReuse, OpenDropDead, OpenCreate, OpenReady, OpenFails,
           BuildArg, BuildFails, OpenThrows, Reap, CheckDrop, CheckWarm, CheckShot,
           FireWait, FireNoWait, FireThrows, WarmSucceeds, WarmFails, WarmTimeout, ShotWait,
           ShotNoWait, ShotThrows, ShotReturns, ShotTimeout, PvaClear, EvictChannel,
           ReapElsewhere, StartPut, CallType, regVars
  <2> QED
    BY <1>2, <2>1 DEF AnswerDue
<1>3. CASE OpenReady
  <2>1. chan' = call.op /\ op' = op /\ call.pc = "await" /\ call.op \in Ops
    BY <1>3 DEF OpenReady, TypeInv, CallOK
  <2>2. call'.pc = "build"
    BY <1>3, GotoType DEF OpenReady
  <2>3. op[call.op].phase \in {"connecting", "creating", "idle"}
    BY <2>1 DEF FreshInv, HandleInv, CallHolds
  <2> QED
    BY <2>1, <2>2, <2>3 DEF AnswerDue, Unsettled
<1>4. ASSUME chan' # 0, ~OpenReady PROVE chan' = chan
  BY <1>4 DEF Matlab, Open, Exec, OpenReuse, OpenDropDead, OpenCreate, OpenFails, BuildArg,
     BuildFails, OpenThrows, Reap, CheckDrop, CheckWarm, CheckShot, FireWait, FireNoWait,
     FireThrows, WarmSucceeds, WarmFails, WarmTimeout, ShotWait, ShotNoWait, ShotThrows,
     ShotReturns, ShotTimeout, PvaClear, EvictChannel, ReapElsewhere, StartPut,
     DropPutChan, regVars
<1>5. ASSUME chan' = chan, chan # 0, ~FireWait, ~FireNoWait PROVE op'[chan] = op[chan]
  <2>1. op'[chan].role = "warm"
    BY <1>5 DEF HandleInv, Holders
  <2>2. ASSUME chan = nops + 1, OpenCreate \/ ShotWait \/ ShotNoWait PROVE FALSE
    BY <1>5, <2>2, NewHandle DEF OpenCreate, ShotWait, ShotNoWait
  <2> QED
    BY <1>1, <1>5, <2>1, <2>2, MatlabOps DEF MatlabOp
<1>6. call.pc = "fire" /\ chan # 0 => ~Unsettled
  BY DEF AnswerDue
<1>7. CASE FireWait
  <2>1. call.pc = "fire" /\ chan \in Ops /\ chan # 0 /\ chan' = chan /\ call.wait
        /\ st' = st /\ ReExecPut(chan)
    BY <1>7, ConstantTypes DEF FireWait, regVars, TypeInv, CallOK
  <2>2. call'.pc = "waitWarm" /\ call'.sync = "none"
    BY <1>1, <1>7, <2>1 DEF FireWait, Goto, CallType, FreshInv, Early
  <2>3. CASE op[chan].phase = "idle"
    <3>1. op'[chan] = Fired
      BY <2>1, <2>3 DEF ReExecPut, TypeInv, TypeOK
    <3> QED
      BY <2>1, <2>2, <3>1 DEF Fired, AnswerDue, Unsettled
  <2>4. CASE op[chan].phase # "idle"
    <3>1. op' = op
      BY <2>1, <2>4 DEF ReExecPut
    <3> QED
      BY <1>6, <2>1, <2>2, <3>1 DEF AnswerDue, Unsettled
  <2> QED
    BY <2>3, <2>4
<1>8. CASE FireNoWait
  <2>1. call.pc = "fire" /\ chan \in Ops /\ chan # 0 /\ chan' = chan /\ ~call.wait
        /\ ReExecPut(chan)
    BY <1>8, ConstantTypes DEF FireNoWait, regVars, TypeInv, CallOK
  <2>2. call'.pc = "idle"
    BY <1>8, ReturnType DEF FireNoWait
  <2>3. st'[chan].busy /\ st'[chan].dead = st[chan].dead
    BY <1>1, <1>8, <2>1 DEF FireNoWait, StType
  <2>4. CASE op[chan].phase = "idle"
    <3>1. op'[chan] = Fired
      BY <2>1, <2>4 DEF ReExecPut, TypeInv, TypeOK
    <3> QED
      BY <2>1, <2>2, <2>3, <3>1 DEF Fired, AnswerDue, Unsettled
  <2>5. CASE op[chan].phase # "idle"
    <3>1. op' = op
      BY <2>1, <2>5 DEF ReExecPut
    <3> QED
      BY <1>6, <2>1, <2>2, <2>3, <3>1 DEF AnswerDue, Unsettled
  <2> QED
    BY <2>4, <2>5
<1>9. CASE FireThrows
  <2>1. call.pc = "fire" /\ chan' = chan /\ op' = op /\ chan \in Ops /\ chan # 0
    BY <1>9, ConstantTypes DEF FireThrows, regVars, TypeInv, CallOK
  <2>2. call'.pc \in {"idle", "shot"}
    BY <1>9, GotoType, ReturnType DEF FireThrows
  <2>3. st'[chan].dead = st[chan].dead
    BY <1>1, <1>9, <2>1 DEF FireThrows, StType
  <2> QED
    BY <1>6, <2>1, <2>2, <2>3 DEF AnswerDue, Unsettled
<1>10. CASE CheckWarm
  <2>1. /\ call.pc = "check" /\ chan' = chan /\ op' = op /\ st' = st /\ ~st[chan].busy
        /\ call'.sync = call.sync
    BY <1>1, <1>10 DEF CheckWarm, WarmOk, ChanFree, regVars, CallType
  <2> QED
    BY <2>1 DEF AnswerDue, Unsettled
<1>11. CASE WarmSucceeds \/ WarmFails
  <2>1. call.pc = "waitWarm" /\ call.sync # "none" /\ st' = st /\ chan \in Ops /\ chan # 0
    BY <1>11, ConstantTypes DEF WarmSucceeds, WarmFails, TypeInv, CallOK
  <2>2. call'.pc = "idle"
    BY <1>11, ReturnType DEF WarmSucceeds, WarmFails
  <2>3. CASE chan' = chan
    <3>1. op'[chan] = op[chan]
      BY <1>5, <1>11, <2>1, <2>3 DEF WarmSucceeds, WarmFails, FireWait, FireNoWait
    <3> QED
      BY <2>1, <2>2, <2>3, <3>1 DEF AnswerDue, Unsettled
  <2> QED
    BY <1>2, <1>4, <1>11, <2>1, <2>3 DEF OpenReady, WarmSucceeds, WarmFails
<1>12. CASE /\ chan' # 0 /\ ~OpenReady /\ ~FireWait /\ ~FireNoWait /\ ~FireThrows
            /\ ~CheckWarm /\ ~WarmSucceeds /\ ~WarmFails
  <2>1. chan' = chan /\ op'[chan] = op[chan]
    BY <1>4, <1>5, <1>12
  <2>2. call'.pc # "fire"
    <3>1. PvaClear \/ EvictChannel \/ ReapElsewhere \/ OpenDropDead
            => call' = call /\ call.pc \in {"idle", "open"}
      BY DEF PvaClear, EvictChannel, ReapElsewhere, OpenDropDead
    <3>2. ~(PvaClear \/ EvictChannel \/ ReapElsewhere \/ OpenDropDead) => call'.pc # "fire"
      BY <1>1, <1>12, GotoType, ReturnType
         DEF Matlab, Open, Exec, OpenReuse, OpenCreate, OpenFails, BuildArg, BuildFails,
             OpenThrows, Reap, CheckDrop, CheckShot, WarmTimeout, ShotWait, ShotNoWait,
             ShotThrows, ShotReturns, ShotTimeout, StartPut, CallType
    <3> QED
      BY <3>1, <3>2
  <2>3. call.pc # "waitWarm"
    <3>1. ~WarmTimeout
      BY <1>12 DEF WarmTimeout, DropPutChan
    <3> QED
      BY <1>12, <3>1
         DEF Matlab, Open, Exec, OpenReuse, OpenDropDead, OpenCreate, OpenFails, BuildArg,
             BuildFails, OpenThrows, Reap, CheckDrop, CheckShot, ShotWait, ShotNoWait,
             ShotThrows, ShotReturns, ShotTimeout, PvaClear, EvictChannel, ReapElsewhere,
             StartPut
  <2>4. st'[chan].busy = st[chan].busy /\ st'[chan].dead = st[chan].dead
    <3>1. CASE ShotNoWait \/ ShotThrows
      BY <1>1, <1>12, <2>1, <3>1 DEF ShotNoWait, ShotThrows, RaiseBarrier, StType
    <3>2. CASE ~ShotNoWait /\ ~ShotThrows
      BY <1>12, <3>2
         DEF Matlab, Open, Exec, OpenReuse, OpenDropDead, OpenCreate, OpenFails, BuildArg,
             BuildFails, OpenThrows, Reap, CheckDrop, CheckShot, WarmTimeout, ShotWait,
             ShotReturns, ShotTimeout, PvaClear, EvictChannel, ReapElsewhere, StartPut
    <3> QED
      BY <3>1, <3>2
  <2> QED
    BY <2>1, <2>2, <2>3, <2>4, DueQuiet
<1> QED
  BY <1>2, <1>3, <1>7, <1>8, <1>9, <1>10, <1>11, <1>12

\* Every step keeps the health of the warm operation known.
LEMMA HealthStep ==
  ASSUME ~MayRefuse
  PROVE  StepInv /\ HealthInv /\ [Next]_vars => HealthInv'
<1> SUFFICES ASSUME StepInv, HealthInv, [Next]_vars PROVE HealthInv'
  OBVIOUS
<1> USE DEF StepInv, HealthInv
<1>1. CASE UNCHANGED vars
  BY <1>1 DEF vars, FreshInv, AnswerDue, Unsettled
<1>2. CASE Outside
  BY <1>2, OutsideKeepsFresh, OutsideKeepsDue
<1>3. ASSUME NEW o \in Ops, Worker(o) PROVE HealthInv'
  BY <1>3, WorkerKeepsFresh, WorkerKeepsDue
<1>4. CASE Matlab
  BY <1>4, HandleStep, MatlabKeepsFresh, MatlabKeepsDue
<1> QED
  BY <1>1, <1>2, <1>3, <1>4 DEF Next, Outside, Matlab

\* Before the first put there is no operation.
LEMMA InitHealthInv == Init => HealthInv
BY DEF Init, HealthInv, FreshInv, AnswerDue, UnusedOp, Early

\* A put is never given to an operation that has come to its end, if the server
\* refuses no INIT: the loss of its execution has been heard of, or the channel is
\* still marked busy.  Where the server may refuse one that follows an execution,
\* nothing marks the operation dead, and the property fails.
THEOREM DeadPassedOver == ASSUME ~MayRefuse PROVE Spec => DeadNeverChosen
<1>1. Init => HealthInv
  BY InitHealthInv
<1>2. StepInv /\ HealthInv /\ [Next]_vars => HealthInv'
  BY HealthStep
<1>3. ASSUME StepInv, HealthInv, [Next]_vars, call.pc = "check", call'.pc = "fire"
      PROVE  op[chan].phase # "done"
  <2> USE <1>3 DEF StepInv
  <2>1. CheckWarm
    <3>1. ~(\E o \in Ops : Worker(o)) /\ ~Outside /\ ~UNCHANGED vars
      BY WorkerEffect, OutsideEffect DEF PlaceKept, vars
    <3>2. Matlab
      BY <3>1 DEF Next, Outside, Matlab
    <3>3. ~CheckDrop /\ ~CheckShot
      BY GotoType DEF CheckDrop, CheckShot
    <3> QED
      BY <3>2, <3>3
         DEF Matlab, Open, Exec, OpenReuse, OpenDropDead, OpenCreate, OpenReady, OpenFails,
             BuildArg, BuildFails, OpenThrows, Reap, FireWait, FireNoWait, FireThrows,
             WarmSucceeds, WarmFails, WarmTimeout, ShotWait, ShotNoWait, ShotThrows,
             ShotReturns, ShotTimeout, PvaClear, EvictChannel, ReapElsewhere, StartPut
  <2>2. chan # 0 /\ ~st[chan].dead /\ ~st[chan].busy
    BY <2>1 DEF CheckWarm, ChanDead, WarmOk, ChanFree
  <2> QED
    BY <2>2 DEF HealthInv, AnswerDue, Unsettled
<1>4. StepInv /\ HealthInv /\ [Next]_vars
        => [call.pc = "check" /\ call'.pc = "fire" => op[chan].phase # "done"]_vars
  BY <1>3
<1> QED
  BY <1>1, <1>2, <1>4, StepInvariant, PTL DEF Spec, DeadNeverChosen
=============================================================================
