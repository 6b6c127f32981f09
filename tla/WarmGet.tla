------------------------------- MODULE WarmGet --------------------------------
(***************************************************************************)
(* The read path of the PVXS backend (src/glue/pvaGlue_pvxs.cpp: pvaGet    *)
(* without the monitor cache) for one channel.  Each pvRequest has its own *)
(* warm get operation in g_getChans, parked at Idle between reads and fired*)
(* with reExecGet.  The MATLAB thread reads and clears; PVXS worker threads*)
(* run the callbacks; the PVXS client and the IOC are external.            *)
(*                                                                         *)
(* op[q] is the operation for request q, whether its handle is in the      *)
(* registry (q is then in lru) or still in openGetChan.  Deadlines carry no*)
(* clock: a wait may time out whenever its answer is not there yet.        *)
(***************************************************************************)
EXTENDS Naturals, Sequences, FiniteSets

CONSTANTS
  Requests,   \* pvRequests read on the channel
  Values,     \* what the record may hold
  MaxChans,   \* MAX_GET_CHANNELS
  MaxDrops,   \* bound on the connections lost
  MayRefuse   \* may the server refuse an INIT or a read?

ASSUME ReadsAssumption ==
  /\ Requests # {} /\ Values # {} /\ Values \cap {"none", "refused", "sent"} = {}
  /\ MaxChans \in Nat \ {0} /\ MaxDrops \in Nat
  /\ MayRefuse \in BOOLEAN

VARIABLES
  conn,      \* external: is the channel connected?
  drops,     \* external: connections lost so far
  record,    \* external: the value the server holds
  op,        \* client::Operation, OpInit and the callback of each request
  sync,      \* OpSync of each request's entry: the answer, "none" until done
  lru,       \* requests with an entry in g_getChans, least recently used first
  shot,      \* the one-shot get: "none", "sent", or its answer
  recorded,  \* has g_channels an entry for the channel?
  seen,      \* what client::Connect::connected() answers
  lastErr,   \* does pvaLastErrorCode() report an error?
  call       \* the MATLAB thread's pvaGet call

netVars == <<conn, drops, record>>
vars == <<conn, drops, record, op, sync, lru, shot, recorded, seen, lastErr, call>>

Answers == Values \cup {"refused"}
Pending == Answers \cup {"none"}

OpType == [phase : {"none", "connecting", "creating", "idle", "exec", "done"},
           inited : BOOLEAN, failure : BOOLEAN, fresh : BOOLEAN,
           current : BOOLEAN, event : Pending]
CallType == [pc : {"idle", "start", "waitShot", "open", "await", "fire", "wait"},
             req : Requests, try : 1..2, held : SUBSET Answers,
             value : Values \cup {"none"}, err : BOOLEAN]

NoOp == [phase |-> "none", inited |-> FALSE, failure |-> FALSE, fresh |-> TRUE,
         current |-> FALSE, event |-> "none"]

Init ==
  /\ conn = FALSE /\ drops = 0 /\ record \in Values
  /\ op = [q \in Requests |-> NoOp]
  /\ sync = [q \in Requests |-> "none"]
  /\ lru = <<>> /\ shot = "none"
  /\ recorded \in BOOLEAN   \* a put or a monitor may have come before
  /\ seen = FALSE /\ lastErr = FALSE
  /\ call = [pc |-> "idle", req |-> CHOOSE q \in Requests : TRUE, try |-> 1,
             held |-> {}, value |-> "none", err |-> FALSE]

-----------------------------------------------------------------------------
(* The registry.                                                           *)

Cached == {lru[i] : i \in 1..Len(lru)}

\* The registry after its entry for q, if it has one, is erased.
Without(q) ==
  LET p == CHOOSE i \in 1..Len(lru) : lru[i] = q
  IN  IF q \in Cached
      THEN [i \in 1..Len(lru) - 1 |-> IF i < p THEN lru[i] ELSE lru[i + 1]]
      ELSE lru

\* pvaChannelConnected
Connected == recorded /\ seen

\* Erasing an entry destroys its operation: no callback follows.
Dropped(S) == [q \in Requests |-> IF q \in S THEN NoOp ELSE op[q]]

\* dropGetChan
DropGetChan(q) == lru' = Without(q) /\ op' = Dropped({q})

\* What the server may answer, or has answered, since the read began.
Answerable(a) ==
  call' = [call EXCEPT !.held = IF call.pc = "idle" THEN @ ELSE @ \cup {a}]

Goto(l) == call' = [call EXCEPT !.pc = l]

\* The read hands a value to MATLAB, and any error of a first try is forgotten.
ReturnValue(v) ==
  /\ call' = [call EXCEPT !.pc = "idle", !.value = v, !.err = FALSE]
  /\ recorded' = TRUE
  /\ UNCHANGED lastErr

\* A try failed: its error is recorded, and the call returns without a value.
ReturnError ==
  /\ call' = [call EXCEPT !.pc = "idle", !.err = TRUE]
  /\ lastErr' = TRUE
  /\ UNCHANGED recorded

-----------------------------------------------------------------------------
(* pvaGet.                                                                 *)

StartRead(q) ==
  /\ call.pc = "idle"
  /\ call' = [pc |-> "start", req |-> q, try |-> 1, held |-> {record},
              value |-> "none", err |-> FALSE]
  /\ UNCHANGED <<netVars, op, sync, lru, shot, recorded, seen, lastErr>>

\* A channel known to be down is read once, on a one-shot.
ChooseShot ==
  /\ call.pc = "start" /\ recorded /\ ~seen
  /\ shot' = "sent"
  /\ Goto("waitShot")
  /\ UNCHANGED <<netVars, op, sync, lru, recorded, seen, lastErr>>

ChooseWarm ==
  /\ call.pc = "start" /\ ~(recorded /\ ~seen)
  /\ Goto("open")
  /\ UNCHANGED <<netVars, op, sync, lru, shot, recorded, seen, lastErr>>

ShotReturns ==
  /\ call.pc = "waitShot" /\ shot \in Answers
  /\ IF shot = "refused" THEN ReturnError ELSE ReturnValue(shot)
  /\ shot' = "none"
  /\ UNCHANGED <<netVars, op, sync, lru, seen>>

ShotTimeout ==
  /\ call.pc = "waitShot" /\ shot = "sent"
  /\ ReturnError
  /\ shot' = "none"
  /\ UNCHANGED <<netVars, op, sync, lru, seen>>

OpenReuse ==
  /\ call.pc = "open" /\ call.req \in Cached
  /\ lru' = Append(Without(call.req), call.req)
  /\ Goto("fire")
  /\ UNCHANGED <<netVars, op, sync, shot, recorded, seen, lastErr>>

OpenCreate ==
  /\ call.pc = "open" /\ call.req \notin Cached
  /\ op' = [op EXCEPT ![call.req] =
              [NoOp EXCEPT !.phase = IF conn THEN "creating" ELSE "connecting"]]
  /\ sync' = [sync EXCEPT ![call.req] = "none"]
  /\ Goto("await")
  /\ UNCHANGED <<netVars, lru, shot, recorded, seen, lastErr>>

\* Mutant: room is made only once the registry has outgrown its bound.
EvictedLate == IF Len(lru) > MaxChans THEN {lru[1]} ELSE {}

\* lruEntry: the entry that makes room for a new one.
Evicted == IF Len(lru) >= MaxChans THEN {lru[1]} ELSE {}

\* awaitOpInit returns true; the entry joins g_getChans.
OpenReady ==
  /\ call.pc = "await" /\ op[call.req].inited
  /\ lru' = Append(IF Evicted = {} THEN lru ELSE Tail(lru), call.req)
  /\ op' = Dropped(Evicted)
  /\ Goto("fire")
  /\ UNCHANGED <<netVars, sync, shot, recorded, seen, lastErr>>

\* Mutant: the wait for INIT has no deadline.
OpenFailsOnRefusal ==
  /\ call.pc = "await" /\ ~op[call.req].inited /\ op[call.req].failure
  /\ op' = Dropped({call.req})
  /\ ReturnError
  /\ UNCHANGED <<netVars, sync, lru, shot, seen>>

\* awaitOpInit returns false: the INIT was refused, or not answered in time.
OpenFails ==
  /\ call.pc = "await" /\ ~op[call.req].inited
  /\ op' = Dropped({call.req})
  /\ ReturnError
  /\ UNCHANGED <<netVars, sync, lru, shot, seen>>

\* Mutant: opSyncArm leaves the outcome of the previous read in place.
ArmKeepsDone(q) == UNCHANGED sync

\* opSyncArm: no outcome yet.
Arm(q) == sync' = [sync EXCEPT ![q] = "none"]

\* reExecGet: acts on an Idle operation and is silently ignored by any other,
\* which keeps the callback, and the stamp, of its previous execution.
ReExecGet(q) ==
  op' = [op EXCEPT ![q] = IF @.phase = "idle"
                          THEN [@ EXCEPT !.phase = "exec", !.fresh = FALSE,
                                         !.current = TRUE, !.event = "none"]
                          ELSE [@ EXCEPT !.current = FALSE]]

Fire ==
  /\ call.pc = "fire"
  /\ Arm(call.req)
  /\ ReExecGet(call.req)
  /\ Goto("wait")
  /\ UNCHANGED <<netVars, lru, shot, recorded, seen, lastErr>>

\* Mutant: awaitOpSync does not look at the outcome.
ReadReturnsAny ==
  /\ call.pc = "wait" /\ sync[call.req] # "none"
  /\ ReturnValue(sync[call.req])
  /\ UNCHANGED <<netVars, op, sync, lru, shot, seen>>

ReadReturns ==
  /\ call.pc = "wait" /\ sync[call.req] \in Values
  /\ ReturnValue(sync[call.req])
  /\ UNCHANGED <<netVars, op, sync, lru, shot, seen>>

\* The server refused the read: the channel is kept.
ReadRefused ==
  /\ call.pc = "wait" /\ sync[call.req] = "refused"
  /\ ReturnError
  /\ UNCHANGED <<netVars, op, sync, lru, shot, seen>>

\* The first try timed out: start clean, and once more if the channel is up.
ReadRetries ==
  /\ call.pc = "wait" /\ sync[call.req] = "none"
  /\ call.try = 1 /\ Connected
  /\ DropGetChan(call.req)
  /\ call' = [call EXCEPT !.pc = "open", !.try = 2, !.err = TRUE]
  /\ lastErr' = TRUE
  /\ UNCHANGED <<netVars, sync, shot, recorded, seen>>

\* Mutant: the channel whose read timed out is kept for the next call.
ReadTimeoutKeeps ==
  /\ call.pc = "wait" /\ sync[call.req] = "none"
  /\ call.try = 2 \/ ~Connected
  /\ ReturnError
  /\ UNCHANGED <<netVars, op, sync, lru, shot, seen>>

ReadTimeout ==
  /\ call.pc = "wait" /\ sync[call.req] = "none"
  /\ call.try = 2 \/ ~Connected
  /\ DropGetChan(call.req)
  /\ ReturnError
  /\ UNCHANGED <<netVars, sync, shot, seen>>

\* pvaClear of the channel: every request's entry (dropGetChans).
PvaClear ==
  /\ call.pc = "idle" /\ lru # <<>>
  /\ op' = Dropped(Cached) /\ lru' = <<>>
  /\ UNCHANGED <<netVars, sync, shot, recorded, seen, lastErr, call>>

\* A read of another channel needs the room of this one's oldest entry.
EvictElsewhere ==
  /\ call.pc = "idle" /\ lru # <<>>
  /\ DropGetChan(lru[1])
  /\ UNCHANGED <<netVars, sync, shot, recorded, seen, lastErr, call>>

-----------------------------------------------------------------------------
(* The callbacks, on PVXS worker threads.                                  *)

\* onInitCb, after creation or after a reconnect: the operation stops at Idle.
InitReply(q) ==
  /\ conn /\ op[q].phase = "creating"
  /\ op' = [op EXCEPT ![q].phase = "idle", ![q].inited = TRUE]
  /\ UNCHANGED <<netVars, sync, lru, shot, recorded, seen, lastErr, call>>

\* onInitFailCb is called for a refused INIT until the first reExecGet puts the
\* callback of an execution in its place; that one is called for a later INIT.
InitRefused(q) ==
  /\ MayRefuse /\ conn /\ op[q].phase = "creating"
  /\ op' = [op EXCEPT ![q] =
              IF @.fresh THEN [@ EXCEPT !.phase = "done", !.failure = TRUE]
                         ELSE [@ EXCEPT !.phase = "done", !.event = "refused"]]
  /\ Answerable("refused")
  /\ UNCHANGED <<netVars, sync, lru, shot, recorded, seen, lastErr>>

\* onDoneCb: the outcome of an execution that is no longer awaited is ignored.
Done(q) ==
  /\ op[q].event # "none"
  /\ op' = [op EXCEPT ![q].event = "none"]
  /\ sync' = IF op[q].current THEN [sync EXCEPT ![q] = op[q].event] ELSE sync
  /\ UNCHANGED <<netVars, lru, shot, recorded, seen, lastErr, call>>

-----------------------------------------------------------------------------
(* The PVXS client and the IOC (external).                                 *)

Connect ==
  /\ ~conn /\ conn' = TRUE
  /\ op' = [q \in Requests |-> IF op[q].phase = "connecting"
                               THEN [op[q] EXCEPT !.phase = "creating"] ELSE op[q]]
  /\ UNCHANGED <<drops, record, sync, lru, shot, recorded, seen, lastErr, call>>

\* A get in Exec has no side effects: it goes back to negotiating, then parks.
Disconnect ==
  /\ conn /\ drops < MaxDrops
  /\ conn' = FALSE /\ seen' = FALSE /\ drops' = drops + 1
  /\ op' = [q \in Requests |-> IF op[q].phase \in {"creating", "idle", "exec"}
                               THEN [op[q] EXCEPT !.phase = "connecting"] ELSE op[q]]
  /\ UNCHANGED <<record, sync, lru, shot, recorded, lastErr, call>>

NoticeUp ==
  /\ conn /\ recorded /\ ~seen
  /\ seen' = TRUE
  /\ UNCHANGED <<netVars, op, sync, lru, shot, recorded, lastErr, call>>

\* The record is processed.  A read in progress may return any value held meanwhile.
Write ==
  /\ record' \in Values \ {record}
  /\ Answerable(record')
  /\ UNCHANGED <<conn, drops, op, sync, lru, shot, recorded, seen, lastErr>>

\* The server reads the record, or refuses to, and the reply reaches the client.
Serve(q) ==
  /\ conn /\ op[q].phase = "exec"
  /\ \E a \in {record} \cup (IF MayRefuse THEN {"refused"} ELSE {}) :
       op' = [op EXCEPT ![q].phase = "idle", ![q].event = a] /\ Answerable(a)
  /\ UNCHANGED <<netVars, sync, lru, shot, recorded, seen, lastErr>>

ServeShot ==
  /\ conn /\ shot = "sent"
  /\ shot' \in {record} \cup (IF MayRefuse THEN {"refused"} ELSE {})
  /\ UNCHANGED <<netVars, op, sync, lru, recorded, seen, lastErr, call>>

-----------------------------------------------------------------------------
PvaGet == \/ ChooseShot \/ ChooseWarm \/ ShotReturns \/ ShotTimeout
          \/ OpenReuse \/ OpenCreate \/ OpenReady \/ OpenFails
          \/ Fire \/ ReadReturns \/ ReadRefused \/ ReadRetries \/ ReadTimeout

Worker(q) == InitReply(q) \/ InitRefused(q) \/ Done(q) \/ Serve(q)

Next ==
  \/ \E q \in Requests : StartRead(q) \/ Worker(q)
  \/ PvaGet \/ PvaClear \/ EvictElsewhere
  \/ Connect \/ Disconnect \/ NoticeUp \/ Write \/ ServeShot

Spec == Init /\ [][Next]_vars

\* The MATLAB thread keeps running and every wait of it has a deadline.
MatlabSpec == Spec /\ WF_vars(PvaGet)

\* Besides, the application keeps reading each request, the client reconnects,
\* and it learns that the channel is up.
FairSpec ==
  /\ MatlabSpec
  /\ \A q \in Requests : SF_vars(StartRead(q))
  /\ WF_vars(Connect) /\ WF_vars(NoticeUp)

-----------------------------------------------------------------------------
(* Properties.                                                             *)

\* Every variable has the type of the C++ object it stands for.
TypeOK ==
  /\ conn \in BOOLEAN /\ drops \in 0..MaxDrops /\ record \in Values
  /\ op \in [Requests -> OpType] /\ sync \in [Requests -> Pending]
  /\ lru \in Seq(Requests) /\ shot \in Pending \cup {"sent"}
  /\ recorded \in BOOLEAN /\ seen \in BOOLEAN /\ lastErr \in BOOLEAN
  /\ call \in CallType

\* The registry is bounded, holds no request twice, and an entry is never
\* evicted while the read that uses it is under way.
Registry ==
  /\ Len(lru) <= MaxChans /\ Len(lru) = Cardinality(Cached)
  /\ call.pc \in {"fire", "wait"} => call.req \in Cached
  /\ \A q \in Requests : op[q].phase # "none" =>
       q \in Cached \/ (call.pc = "await" /\ call.req = q)

\* A read ends with an answer the server gave to it: a value the record held, or
\* a refusal made, since the read began.  Operations, their callbacks and OpSync
\* serve one read after another, and what is left of one never answers the next.
\* It ends with an error just when it ends without a value, after one try or two.
OwnAnswer ==
  /\ call.pc = "wait" => sync[call.req] \in call.held \cup {"none"}
  /\ call.value \in call.held \cup {"none"}
  /\ call.pc = "idle" /\ call.held # {} => (call.err <=> call.value = "none")

\* pvaLastError is ok after a read that gave a value.
LastErrorTellsLast ==
  [][call.pc # "idle" /\ call'.pc = "idle" /\ ~call'.err => ~lastErr']_vars

\* Every read comes back to MATLAB, even when no server ever answers.
ReadReturnsAtLast == call.pc # "idle" ~> call.pc = "idle"

\* A terminated get operation, which would swallow every reExecGet, does not
\* stay in the registry while its request is read again and again.
DeadReplaced ==
  \A q \in Requests : q \in Cached /\ op[q].phase = "done" ~> op[q].phase # "done"
=============================================================================
