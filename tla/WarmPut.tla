------------------------------- MODULE WarmPut -------------------------------
(***************************************************************************)
(* The write path of the PVXS backend (src/glue/pvaGlue_pvxs.cpp) for one  *)
(* channel.  A single MATLAB thread runs pvaPut, pvaPutNoWait and pvaClear;*)
(* PVXS worker threads run the completion callbacks; the PVXS client and   *)
(* the IOC behind it are external and modelled as this code relies on them.*)
(*                                                                         *)
(* Every client::Operation on the channel has an identifier, its place in  *)
(* the order of creation.  A "warm" operation is the cached put handle of  *)
(* g_putChans: it stops at Idle after its INIT exchange and is fired again *)
(* with reExecPut.  A "shot" is a one-shot put: INIT, data, acknowledgement*)
(* and done.  Puts are numbered in the order the MATLAB thread starts them.*)
(*                                                                         *)
(* Deadlines carry no clock: once a deadline is set it may pass at any     *)
(* later moment (busyLate, barrierLate, the Timeout actions), so the model *)
(* has every behaviour of every value of the labpva timeout.               *)
(***************************************************************************)
EXTENDS Naturals, Sequences, FiniteSets

CONSTANTS
  MaxPuts,         \* bound on the puts started
  MaxOps,          \* bound on the operations created
  MaxDrops,        \* bound on the connections lost
  MaxPending,      \* MAX_PENDING_PUTS: parked one-shot puts
  Types,           \* structures the server can give the channel
  NoType,          \* the prototype before the first INIT reply
  OutlastsBarrier, \* may the barrier's deadline pass with a one-shot still unsent?
  MayRefuse        \* may the server refuse an INIT?

ASSUME BoundsAssumption ==
  /\ MaxPuts \in Nat /\ MaxOps \in Nat /\ MaxDrops \in Nat
  /\ MaxPending \in Nat \ {0}

ASSUME TypesAssumption == Types # {} /\ NoType \notin Types

ASSUME SwitchesAssumption == OutlastsBarrier \in BOOLEAN /\ MayRefuse \in BOOLEAN

Puts == 1..MaxPuts
Ops  == 1..MaxOps

VARIABLES
  conn,      \* external: is the channel connected?
  drops,     \* external: connections lost so far
  srvType,   \* external: the structure the server gives the channel
  sent,      \* external: puts whose data went on the wire, oldest first
  head,      \* external: how many of them the server has taken off the wire
  applied,   \* external: puts the server has written to the record
  op,        \* client::Operation
  nops,      \* operations created so far
  init,      \* OpInit of each warm operation
  st,        \* ChanState of each warm operation
  chan,      \* the channel's entry in g_putChans: its operation, 0 if none
  retired,   \* g_retiredPuts
  parked,    \* g_pendingPuts: the one-shot no-wait puts
  recorded,  \* has g_channels an entry for the channel?
  seen,      \* what client::Connect::connected() answers
  call       \* the MATLAB thread's put call

netVars  == <<conn, drops, srvType, head, applied>>
regVars  == <<chan, retired, parked, recorded>>
vars == <<conn, drops, srvType, sent, head, applied, op, nops, init, st,
          chan, retired, parked, recorded, seen, call>>

Phases == {"unused", "connecting", "creating", "idle", "exec", "done", "gone"}
Events == {"none", "ok", "remote", "lost"}

OpType   == [role : {"none", "warm", "shot"}, wait : BOOLEAN, phase : Phases,
             put : 0..MaxPuts, type : Types \cup {NoType}, event : Events,
             fresh : BOOLEAN, guard : 0..MaxOps]
InitType == [proto : Types \cup {NoType}, generation : Nat, failure : BOOLEAN]
StType   == [busy : BOOLEAN, busyLate : BOOLEAN, dead : BOOLEAN,
             barrier : Nat, barrierLate : BOOLEAN]
CallType == [pc : {"idle", "open", "await", "build", "reap", "check", "fire",
                   "waitWarm", "shot", "waitShot"},
             put : 0..MaxPuts, wait : BOOLEAN, op : 0..MaxOps,
             type : Types \cup {NoType}, checked : Nat, sync : Events,
             ret : {"none", "ok", "issued", "error", "timeout"}]

UnusedOp == [role |-> "none", wait |-> FALSE, phase |-> "unused", put |-> 0,
             type |-> NoType, event |-> "none", fresh |-> FALSE, guard |-> 0]

Init ==
  /\ conn = FALSE /\ drops = 0 /\ srvType \in Types
  /\ sent = <<>> /\ head = 0 /\ applied = {}
  /\ op = [o \in Ops |-> UnusedOp]
  /\ nops = 0
  /\ init = [o \in Ops |-> [proto |-> NoType, generation |-> 0, failure |-> FALSE]]
  /\ st = [o \in Ops |-> [busy |-> FALSE, busyLate |-> FALSE, dead |-> FALSE,
                          barrier |-> 0, barrierLate |-> FALSE]]
  /\ chan = 0 /\ retired = {} /\ parked = {}
  /\ recorded = FALSE /\ seen = FALSE
  /\ call = [pc |-> "idle", put |-> 0, wait |-> FALSE, op |-> 0, type |-> NoType,
             checked |-> 0, sync |-> "none", ret |-> "none"]

-----------------------------------------------------------------------------
(* Operations and the registry.                                            *)

\* The operation o just created: it sends its INIT when the channel is up.
Created(r, w, p, t, g) ==
  [role |-> r, wait |-> w, phase |-> IF conn THEN "creating" ELSE "connecting",
   put |-> p, type |-> t, event |-> "none", fresh |-> TRUE, guard |-> g]

\* The operation r with another phase and pending event.
Now(r, ph, ev) == [r EXCEPT !.phase = ph, !.event = ev]

\* Dropping the last handle of an operation cancels it: no callback follows.
Destroyed(S) ==
  [o \in Ops |-> IF o \in S THEN [UnusedOp EXCEPT !.phase = "gone"] ELSE op[o]]

\* A one-shot put whose data has not gone on the wire and still may.
Waiting == {"connecting", "creating", "idle"}
Unsent(o) == op[o].role = "shot" /\ op[o].phase \in Waiting

\* A no-wait put is in flight on o as far as the glue can tell.
InFlight(o) == st[o].busy /\ ~st[o].busyLate

\* putChanDead
ChanDead == st[chan].dead \/ init[chan].failure

\* Mutant: the ordering barrier is not looked at.
ChanFreeNoBarrier == ~st[chan].busy

\* putChanFree: nothing in flight, and the ordering barrier down or expired.
ChanFree ==
  /\ ~st[chan].busy
  /\ st[chan].barrier = 0 \/ st[chan].barrierLate

ChanStale == st[chan].busy /\ st[chan].busyLate

\* Mutant: the entry is erased and its operation with it.
DropPutChanErase == chan' = 0 /\ op' = Destroyed({chan}) /\ UNCHANGED retired

\* dropPutChan: retire an operation with a no-wait put in flight, else destroy it.
DropPutChan ==
  /\ chan' = 0
  /\ retired' = IF InFlight(chan) THEN retired \cup {chan} ELSE retired
  /\ op' = IF InFlight(chan) THEN op ELSE Destroyed({chan})

\* Mutant: the reap clears the registry of parked puts.
AllParked == parked

\* Parked one-shots whose callback has queued their key in g_donePuts.
DonePuts == {o \in parked : op[o].phase = "done" /\ op[o].event = "none"}

\* Retired operations that have settled, or never will.
SettledPuts == {o \in retired : ~InFlight(o)}

\* The answer of the put call and its return to MATLAB.
Return(r) == call' = [call EXCEPT !.pc = "idle", !.ret = r]

Goto(l) == call' = [call EXCEPT !.pc = l]

-----------------------------------------------------------------------------
(* pvaPutProto: the channel's warm operation, INIT complete, and the       *)
(* argument built from its type.                                           *)

\* A MEX put verb starts put number call.put + 1.
StartPut(w) ==
  /\ call.pc = "idle"
  /\ call.put < MaxPuts /\ nops + 2 <= MaxOps
  /\ call' = [call EXCEPT !.pc = "open", !.put = @ + 1, !.wait = w, !.ret = "none",
                          !.sync = "none"]
  /\ UNCHANGED <<netVars, sent, op, nops, init, st, regVars, seen>>

OpenReuse ==
  /\ call.pc = "open" /\ chan # 0 /\ ~ChanDead
  /\ Goto("build")
  /\ UNCHANGED <<netVars, sent, op, nops, init, st, regVars, seen>>

OpenDropDead ==
  /\ call.pc = "open" /\ chan # 0 /\ ChanDead
  /\ DropPutChan
  /\ UNCHANGED <<netVars, sent, nops, init, st, parked, recorded, seen, call>>

OpenCreate ==
  /\ call.pc = "open" /\ chan = 0
  /\ nops < MaxOps
  /\ nops' = nops + 1
  /\ op' = [op EXCEPT ![nops + 1] = Created("warm", FALSE, 0, NoType, 0)]
  /\ call' = [call EXCEPT !.pc = "await", !.op = nops + 1]
  /\ UNCHANGED <<netVars, sent, init, st, regVars, seen>>

\* exec() throws, and pvaPutProto reports it.
OpenThrows ==
  /\ call.pc = "open" /\ chan = 0
  /\ Return("error")
  /\ UNCHANGED <<netVars, sent, op, nops, init, st, regVars, seen>>

\* awaitOpInit returns true; the entry joins g_putChans.
OpenReady ==
  /\ call.pc = "await" /\ init[call.op].generation > 0
  /\ chan' = call.op
  /\ Goto("build")
  /\ UNCHANGED <<netVars, sent, op, nops, init, st, retired, parked, recorded, seen>>

\* Mutant: the wait for INIT has no deadline.
OpenFailsOnRefusal ==
  /\ call.pc = "await" /\ init[call.op].failure
  /\ op' = Destroyed({call.op})
  /\ Return("error")
  /\ UNCHANGED <<netVars, sent, nops, init, st, regVars, seen>>

\* awaitOpInit returns false: INIT refused, or no answer in time.
OpenFails ==
  /\ call.pc = "await" /\ init[call.op].generation = 0
  /\ op' = Destroyed({call.op})
  /\ Return(IF init[call.op].failure THEN "error" ELSE "timeout")
  /\ UNCHANGED <<netVars, sent, nops, init, st, regVars, seen>>

\* The argument takes the type of the INIT prototype, or, for an enum, of the
\* value just read from the server.
BuildArg ==
  /\ call.pc = "build"
  /\ recorded' = TRUE
  /\ \E t \in {init[chan].proto, srvType} :
       call' = [call EXCEPT !.pc = "reap", !.type = t]
  /\ UNCHANGED <<netVars, sent, op, nops, init, st, chan, retired, parked, seen>>

\* The enum read failed, or, with the channel recorded by then, the MATLAB value
\* does not fit the type.
BuildFails ==
  /\ call.pc = "build"
  /\ recorded' \in {recorded, TRUE}
  /\ Return("error")
  /\ UNCHANGED <<netVars, sent, op, nops, init, st, chan, retired, parked, seen>>

-----------------------------------------------------------------------------
(* pvaPutExec.                                                             *)

ReapFinished ==
  /\ op' = Destroyed(DonePuts \cup SettledPuts)
  /\ parked' = parked \ DonePuts
  /\ retired' = retired \ SettledPuts

Reap ==
  /\ call.pc = "reap"
  /\ ReapFinished
  /\ Goto("check")
  /\ UNCHANGED <<netVars, sent, nops, init, st, chan, recorded, seen>>

\* Mutant: the argument's type is not compared with the prototype.
WarmOkAnyType == ChanFree /\ seen

WarmOk == ChanFree /\ seen /\ call.type = init[chan].proto

CheckDrop ==
  /\ call.pc = "check" /\ chan # 0 /\ (ChanDead \/ ChanStale)
  /\ DropPutChan
  /\ Goto("shot")
  /\ UNCHANGED <<netVars, sent, nops, init, st, parked, recorded, seen>>

CheckWarm ==
  /\ call.pc = "check" /\ chan # 0 /\ ~ChanDead /\ ~ChanStale /\ WarmOk
  /\ call' = [call EXCEPT !.pc = "fire", !.checked = init[chan].generation]
  /\ UNCHANGED <<netVars, sent, op, nops, init, st, regVars, seen>>

CheckShot ==
  /\ call.pc = "check"
  /\ chan = 0 \/ (~ChanDead /\ ~ChanStale /\ ~WarmOk)
  /\ Goto("shot")
  /\ UNCHANGED <<netVars, sent, op, nops, init, st, regVars, seen>>

\* A warm operation executing the put of this call with a callback of its own.
Fired ==
  [role |-> "warm", wait |-> call.wait, phase |-> "exec", put |-> call.put,
   type |-> call.type, event |-> "none", fresh |-> FALSE, guard |-> 0]

\* reExecPut: acts on an Idle operation and is silently ignored by any other.
ReExecPut(o) ==
  IF op[o].phase = "idle"
  THEN /\ op' = [op EXCEPT ![o] = Fired]
       /\ sent' = Append(sent, call.put)
  ELSE UNCHANGED <<op, sent>>

\* warmPutExec up to its wait
FireWait ==
  /\ call.pc = "fire" /\ call.wait
  /\ ReExecPut(chan)
  /\ Goto("waitWarm")
  /\ UNCHANGED <<netVars, nops, init, st, regVars, seen>>

\* warmPutNoWait
FireNoWait ==
  /\ call.pc = "fire" /\ ~call.wait
  /\ st' = [st EXCEPT ![chan].busy = TRUE, ![chan].busyLate = FALSE]
  /\ ReExecPut(chan)
  /\ Return("issued")
  /\ UNCHANGED <<netVars, nops, init, regVars, seen>>

\* reExecPut throws: an awaited put fails, a no-wait put falls back to a one-shot.
FireThrows ==
  /\ call.pc = "fire"
  /\ st' = IF call.wait THEN st ELSE [st EXCEPT ![chan].busy = FALSE]
  /\ IF call.wait THEN Return("error") ELSE Goto("shot")
  /\ UNCHANGED <<netVars, sent, op, nops, init, regVars, seen>>

\* Mutant: any completion of the execution counts as success.
WarmSucceedsWhenDone ==
  /\ call.pc = "waitWarm" /\ call.sync # "none"
  /\ Return("ok")
  /\ UNCHANGED <<netVars, sent, op, nops, init, st, regVars, seen>>

WarmSucceeds ==
  /\ call.pc = "waitWarm" /\ call.sync = "ok"
  /\ Return("ok")
  /\ UNCHANGED <<netVars, sent, op, nops, init, st, regVars, seen>>

\* Mutant: the pvxs result is handed on without translating it to an error code.
WarmFailsRaw ==
  /\ call.pc = "waitWarm" /\ call.sync \in {"remote", "lost"}
  /\ Return(call.sync)
  /\ UNCHANGED <<netVars, sent, op, nops, init, st, regVars, seen>>

\* The put failed: drop the channel where it is dead, never fire again.
WarmFails ==
  /\ call.pc = "waitWarm" /\ call.sync \in {"remote", "lost"}
  /\ IF ChanDead THEN DropPutChan ELSE UNCHANGED <<op, chan, retired>>
  /\ Return("error")
  /\ UNCHANGED <<netVars, sent, nops, init, st, parked, recorded, seen>>

\* Mutant: a put that timed out is retried on a one-shot.
WarmTimeoutRetry ==
  /\ call.pc = "waitWarm" /\ call.sync = "none"
  /\ DropPutChan
  /\ Goto("shot")
  /\ UNCHANGED <<netVars, sent, nops, init, st, parked, recorded, seen>>

WarmTimeout ==
  /\ call.pc = "waitWarm" /\ call.sync = "none"
  /\ DropPutChan
  /\ Return("timeout")
  /\ UNCHANGED <<netVars, sent, nops, init, st, parked, recorded, seen>>

ShotWait ==
  /\ call.pc = "shot" /\ call.wait
  /\ nops < MaxOps
  /\ nops' = nops + 1
  /\ op' = [op EXCEPT ![nops + 1] = Created("shot", TRUE, call.put, call.type, 0)]
  /\ call' = [call EXCEPT !.pc = "waitShot", !.op = nops + 1]
  /\ UNCHANGED <<netVars, sent, init, st, regVars, seen>>

\* The oldest parked put is evicted, and so cancelled, when the registry is full.
Evicted ==
  IF Cardinality(parked) >= MaxPending
  THEN {o \in parked : \A q \in parked : o <= q}
  ELSE {}

\* A one-shot no-wait put raises the barrier of the channel's warm operation.
RaiseBarrier ==
  st' = IF chan = 0 THEN st
        ELSE [st EXCEPT ![chan].barrier = @ + 1, ![chan].barrierLate = FALSE]

\* Raise the ordering barrier, issue the one-shot and park its handle.
ShotNoWait ==
  /\ call.pc = "shot" /\ ~call.wait
  /\ nops < MaxOps
  /\ nops' = nops + 1
  /\ RaiseBarrier
  /\ op' = [Destroyed(Evicted) EXCEPT
              ![nops + 1] = Created("shot", FALSE, call.put, call.type, chan)]
  /\ parked' = (parked \ Evicted) \cup {nops + 1}
  /\ Return("issued")
  /\ UNCHANGED <<netVars, sent, init, chan, retired, recorded, seen>>

\* exec() throws: the put fails, and the barrier of a no-wait put stays raised.
ShotThrows ==
  /\ call.pc = "shot"
  /\ IF call.wait THEN UNCHANGED st ELSE RaiseBarrier
  /\ Return("error")
  /\ UNCHANGED <<netVars, sent, op, nops, init, regVars, seen>>

ShotReturns ==
  /\ call.pc = "waitShot" /\ op[call.op].event # "none"
  /\ Return(IF op[call.op].event = "ok" THEN "ok" ELSE "error")
  /\ op' = Destroyed({call.op})
  /\ UNCHANGED <<netVars, sent, nops, init, st, regVars, seen>>

\* Mutant: the handle of a put that timed out is parked, and so the put goes on.
ShotTimeoutParks ==
  /\ call.pc = "waitShot" /\ op[call.op].event = "none"
  /\ Return("timeout")
  /\ parked' = parked \cup {call.op}
  /\ UNCHANGED <<netVars, sent, op, nops, init, st, chan, retired, recorded, seen>>

ShotTimeout ==
  /\ call.pc = "waitShot" /\ op[call.op].event = "none"
  /\ Return("timeout")
  /\ op' = Destroyed({call.op})
  /\ UNCHANGED <<netVars, sent, nops, init, st, regVars, seen>>

-----------------------------------------------------------------------------
(* Between puts on this channel the MATLAB thread may clear it, or open    *)
(* and put to other channels: the LRU bound then drops this one, and the   *)
(* reap at the head of every put sees to this channel's handles as well.   *)

PvaClear ==
  /\ call.pc = "idle" /\ chan # 0
  /\ LET kept == retired \ SettledPuts
     IN  /\ retired' = IF InFlight(chan) THEN kept \cup {chan} ELSE kept
         /\ op' = Destroyed(DonePuts \cup SettledPuts
                              \cup IF InFlight(chan) THEN {} ELSE {chan})
  /\ parked' = parked \ DonePuts
  /\ chan' = 0
  /\ UNCHANGED <<netVars, sent, nops, init, st, recorded, seen, call>>

EvictChannel ==
  /\ call.pc = "idle" /\ chan # 0
  /\ DropPutChan
  /\ UNCHANGED <<netVars, sent, nops, init, st, parked, recorded, seen, call>>

ReapElsewhere ==
  /\ call.pc = "idle" /\ DonePuts \cup SettledPuts # {}
  /\ ReapFinished
  /\ UNCHANGED <<netVars, sent, nops, init, st, chan, recorded, seen, call>>

-----------------------------------------------------------------------------
(* The callbacks, on PVXS worker threads.                                  *)

\* INITs are answered in the order the operations were created.
NextInit(o) ==
  /\ conn /\ op[o].phase = "creating"
  /\ \A q \in Ops : op[q].phase = "creating" => o <= q

\* onInitCb: the warm operation has its prototype and stops at Idle.
InitReply(o) ==
  /\ NextInit(o) /\ op[o].role = "warm"
  /\ init' = [init EXCEPT ![o] = [@ EXCEPT !.proto = srvType,
                                       !.generation = init[o].generation + 1]]
  /\ op' = [op EXCEPT ![o] = Now(@, "idle", @.event)]
  /\ UNCHANGED <<netVars, sent, nops, st, regVars, seen, call>>

\* oneShotBuilder: a one-shot's argument goes on the wire if it has the type just
\* negotiated.
ShotBuild(o) ==
  /\ NextInit(o) /\ op[o].role = "shot" /\ op[o].type = srvType
  /\ op' = [op EXCEPT ![o] = Now(@, "exec", @.event)]
  /\ sent' = Append(sent, op[o].put)
  /\ UNCHANGED <<netVars, nops, init, st, regVars, seen, call>>

\* oneShotBuilder throws: the operation ends without sending anything.
ShotMistyped(o) ==
  /\ NextInit(o) /\ op[o].role = "shot" /\ op[o].type # srvType
  /\ op' = [op EXCEPT ![o] = Now(@, "done", "lost")]
  /\ UNCHANGED <<netVars, sent, nops, init, st, regVars, seen, call>>

\* The server refuses the first INIT of a warm operation: onInitFailCb.
InitRefused(o) ==
  /\ MayRefuse /\ NextInit(o) /\ op[o].role = "warm" /\ op[o].fresh
  /\ init' = [init EXCEPT ![o] = [@ EXCEPT !.failure = TRUE]]
  /\ op' = [op EXCEPT ![o] = Now(@, "done", @.event)]
  /\ UNCHANGED <<netVars, sent, nops, st, regVars, seen, call>>

\* It refuses the INIT of a one-shot, or one that follows an execution: the first
\* reExecPut installed a callback of its own in onInitFailCb's place.
Refused(o) ==
  /\ MayRefuse /\ NextInit(o) /\ ~(op[o].role = "warm" /\ op[o].fresh)
  /\ op' = [op EXCEPT ![o] = Now(@, "done", "remote")]
  /\ UNCHANGED <<netVars, sent, nops, init, st, regVars, seen, call>>

\* Mutant: the callback releases the channel without looking at its result.
NoWaitDoneRelease(o) ==
  /\ op[o].role = "warm" /\ ~op[o].wait /\ op[o].event # "none"
  /\ st' = [st EXCEPT ![o].busy = FALSE]
  /\ op' = [op EXCEPT ![o] = Now(@, @.phase, "none")]
  /\ UNCHANGED <<netVars, sent, nops, init, regVars, seen, call>>

\* The callback of warmPutNoWait.
NoWaitDone(o) ==
  /\ op[o].role = "warm" /\ ~op[o].wait /\ op[o].event # "none"
  /\ st' = [st EXCEPT ![o].busy = FALSE, ![o].dead = @ \/ op[o].event = "lost"]
  /\ op' = [op EXCEPT ![o] = Now(@, @.phase, "none")]
  /\ UNCHANGED <<netVars, sent, nops, init, regVars, seen, call>>

\* onDoneCb: a result of an execution that is not the awaited one is ignored.
WaitDone(o) ==
  /\ op[o].role = "warm" /\ op[o].wait /\ op[o].event # "none"
  /\ st' = [st EXCEPT ![o].dead = @ \/ op[o].event = "lost"]
  /\ op' = [op EXCEPT ![o] = Now(@, @.phase, "none")]
  /\ call' = IF call.pc = "waitWarm" /\ chan = o /\ call.put = op[o].put
             THEN [call EXCEPT !.sync = op[o].event]
             ELSE call
  /\ UNCHANGED <<netVars, sent, nops, init, regVars, seen>>

\* The result callback of a one-shot no-wait put: the barrier goes down by one
\* and the put's key is queued for reapDonePuts.
ShotDone(o) ==
  /\ op[o].role = "shot" /\ ~op[o].wait /\ op[o].event # "none"
  /\ LET g == op[o].guard
     IN  st' = IF g # 0 /\ st[g].barrier > 0
               THEN [st EXCEPT ![g].barrier = @ - 1]
               ELSE st
  /\ op' = [op EXCEPT ![o] = Now(@, @.phase, "none")]
  /\ UNCHANGED <<netVars, sent, nops, init, regVars, seen, call>>

\* A deadline the glue has set passes.
BusyExpires(o) ==
  /\ o \in {chan} \cup retired /\ InFlight(o)
  /\ st' = [st EXCEPT ![o].busyLate = TRUE]
  /\ UNCHANGED <<netVars, sent, op, nops, init, regVars, seen, call>>

\* The barrier's deadline passes; whether it may while a one-shot the barrier
\* counts is still unsent is OutlastsBarrier.
BarrierExpires ==
  /\ chan # 0 /\ st[chan].barrier > 0 /\ ~st[chan].barrierLate
  /\ OutlastsBarrier \/ \A o \in Ops : Unsent(o) => op[o].guard # chan
  /\ st' = [st EXCEPT ![chan].barrierLate = TRUE]
  /\ UNCHANGED <<netVars, sent, op, nops, init, regVars, seen, call>>

-----------------------------------------------------------------------------
(* The PVXS client and the IOC (external).                                 *)

\* The server may come back with the channel rebuilt as another structure.
Connect ==
  /\ ~conn
  /\ conn' = TRUE
  /\ srvType' \in Types
  /\ op' = [o \in Ops |-> IF op[o].phase = "connecting"
                          THEN Now(op[o], "creating", op[o].event) ELSE op[o]]
  /\ UNCHANGED <<drops, sent, head, applied, nops, init, st, regVars, seen, call>>

\* What is on the wire is lost.  A put in Exec is done for ever; an operation
\* that is Idle or negotiating waits for the next connection.
Disconnect ==
  /\ conn /\ drops < MaxDrops
  /\ conn' = FALSE /\ seen' = FALSE
  /\ drops' = drops + 1
  /\ head' = Len(sent)
  /\ op' = [o \in Ops |->
              CASE op[o].phase = "exec" ->
                     Now(op[o], "done", "lost")
                [] op[o].phase \in {"creating", "idle"} ->
                     Now(op[o], "connecting", op[o].event)
                [] OTHER -> op[o]]
  /\ UNCHANGED <<srvType, applied, sent, nops, init, st, regVars, call>>

\* client::Connect learns that the channel is up.
NoticeUp ==
  /\ conn /\ recorded /\ ~seen
  /\ seen' = TRUE
  /\ UNCHANGED <<netVars, sent, op, nops, init, st, regVars, call>>

\* The server takes a put off the wire and writes it, or rejects it.
Process ==
  /\ conn /\ head < Len(sent)
  /\ head' = head + 1
  /\ applied' \in {applied, applied \cup {sent[head + 1]}}
  /\ UNCHANGED <<conn, drops, srvType, sent, op, nops, init, st, regVars, seen, call>>

Answered(p) == \E i \in 1..head : sent[i] = p

\* The server's answer reaches the operation.
Ack(o) ==
  /\ op[o].phase = "exec" /\ Answered(op[o].put)
  /\ op' = [op EXCEPT ![o] = Now(@, IF op[o].role = "warm" THEN "idle" ELSE "done",
                                 IF op[o].put \in applied THEN "ok" ELSE "remote")]
  /\ UNCHANGED <<netVars, sent, nops, init, st, regVars, seen, call>>

-----------------------------------------------------------------------------
Open == OpenReuse \/ OpenDropDead \/ OpenCreate \/ OpenThrows \/ OpenReady
          \/ OpenFails \/ BuildArg \/ BuildFails

Exec == \/ Reap \/ CheckDrop \/ CheckWarm \/ CheckShot
        \/ FireWait \/ FireNoWait \/ FireThrows
        \/ WarmSucceeds \/ WarmFails \/ WarmTimeout
        \/ ShotWait \/ ShotNoWait \/ ShotThrows \/ ShotReturns \/ ShotTimeout

Worker(o) == \/ InitReply(o) \/ ShotBuild(o) \/ ShotMistyped(o)
             \/ InitRefused(o) \/ Refused(o)
             \/ NoWaitDone(o) \/ WaitDone(o) \/ ShotDone(o) \/ Ack(o)

Next ==
  \/ \E w \in BOOLEAN : StartPut(w)
  \/ Open \/ Exec
  \/ PvaClear \/ EvictChannel \/ ReapElsewhere
  \/ \E o \in Ops : Worker(o) \/ BusyExpires(o)
  \/ BarrierExpires
  \/ Connect \/ Disconnect \/ NoticeUp \/ Process

Spec == Init /\ [][Next]_vars

\* The MATLAB thread keeps running and every wait of it has a deadline.
MatlabFairness == WF_vars(Open \/ Exec)

MatlabSpec == Spec /\ MatlabFairness

\* The worker threads run, the client reconnects, and a server that is up answers.
OthersFairness ==
  /\ \A o \in Ops : WF_vars(Worker(o))
  /\ WF_vars(Connect) /\ WF_vars(Process)
-----------------------------------------------------------------------------
(* Properties.                                                             *)

\* Every variable has the type of the C++ object it stands for.
TypeOK ==
  /\ conn \in BOOLEAN /\ drops \in Nat /\ srvType \in Types
  /\ sent \in Seq(Puts) /\ head \in 0..Len(sent) /\ applied \subseteq Puts
  /\ op \in [Ops -> OpType] /\ nops \in 0..MaxOps
  /\ init \in [Ops -> InitType] /\ st \in [Ops -> StType]
  /\ chan \in 0..MaxOps /\ retired \subseteq Ops /\ parked \subseteq Ops
  /\ recorded \in BOOLEAN /\ seen \in BOOLEAN /\ call \in CallType

\* The data of a put goes on the wire at most once: no path of pvaPutExec fires
\* an argument again after a timeout, a failure or a fallback.
AtMostOnce == \A i, j \in 1..Len(sent) : i # j => sent[i] # sent[j]

\* Puts reach the wire in the order they were issued, whatever mixture of warm
\* and one-shot operations carried them.
InOrder == \A i, j \in 1..Len(sent) : i < j => sent[i] < sent[j]

\* A put call that reports success has been written by the server.
OkMeansApplied ==
  [][call.pc # "idle" /\ call'.pc = "idle" /\ call'.ret = "ok"
       => call.put \in applied]_vars

\* A no-wait put in flight on a warm operation, within its deadline, is never
\* cancelled by dropping the channel, whoever drops it.
InFlightKept ==
  [][\A o \in Ops : op[o].role = "warm" /\ op[o].phase = "exec" /\ ~op[o].wait /\ InFlight(o)
       => op'[o].phase # "gone"]_vars

\* Data goes on the wire only with the type the server gave the channel: a
\* one-shot always, a warm put unless it was re-negotiated after the check.
TypeSafe ==
  [][\A o \in Ops : op[o].phase # "exec" /\ op'[o].phase = "exec"
       => \/ op'[o].type = srvType
          \/ op[o].role = "warm" /\ init[o].generation # call.checked]_vars

\* A terminated operation is never chosen for a warm put.
DeadNeverChosen ==
  [][call.pc = "check" /\ call'.pc = "fire" => op[chan].phase # "done"]_vars

\* The warm operation is chosen only when it is Idle, able to act on reExecPut.
ReadyWhenChosen ==
  [][call.pc = "check" /\ call'.pc = "fire" => op[chan].phase = "idle"]_vars

\* Until its data is handed to an operation, a put belongs to the call alone.
Early == {"open", "await", "build", "reap", "check", "fire", "shot"}

\* The puts whose data may still go on the wire.
Owed ==
  {op[o].put : o \in {q \in Ops : Unsent(q)}}
    \cup {p \in {call.put} : call.pc \in Early}

\* What the newest put call told, if it returned.
Answer == IF call.pc = "idle" THEN call.ret ELSE "busy"

Promise == INSTANCE PutLog WITH
  issued <- call.put, waits <- call.wait, answer <- Answer,
  owed <- Owed, log <- sent, written <- applied

\* Warm and one-shot operations together implement PutLog: each put is sent once
\* at most and in order, success means written, and a pvaPut that failed is never
\* sent after it returned.
Refines == Promise!Spec

\* Every put call comes back to MATLAB, even when no server ever answers.
PutReturns == call.pc # "idle" ~> call.pc = "idle"

\* A parked one-shot no-wait put is carried to its end, however often the
\* channel is cleared, evicted or lost meanwhile, if the others do their part.
ParkedPutFinishes ==
  OthersFairness
    => \A o \in Ops : o \in parked ~> op[o].role = "shot" /\ op[o].phase = "done"
=============================================================================
