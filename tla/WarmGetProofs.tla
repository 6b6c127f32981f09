---------------------------- MODULE WarmGetProofs ----------------------------
(* Proofs about the read path: its types, the registry of warm reads, and  *)
(* that a read gives an answer of its own and says so, for every set of    *)
(* requests and values, every size of registry and every connection.       *)
EXTENDS WarmGet, FiniteSetTheorems, FunctionTheorems, TLAPS

-----------------------------------------------------------------------------
(* Types.                                                                  *)

\* An unused operation is well typed, and so is one that lost its owner.
LEMMA NoOpType == NoOp \in OpType /\ NoOp.phase = "none" /\ NoOp.event = "none"
BY DEF NoOp, OpType, Pending

\* Destroying operations keeps the others and every type.
LEMMA DroppedType ==
  ASSUME op \in [Requests -> OpType], NEW S
  PROVE  /\ Dropped(S) \in [Requests -> OpType]
         /\ \A q \in Requests : Dropped(S)[q] = IF q \in S THEN NoOp ELSE op[q]
BY NoOpType DEF Dropped

\* Erasing an entry leaves a sequence of requests.
LEMMA WithoutType ==
  ASSUME lru \in Seq(Requests), NEW q
  PROVE  Without(q) \in Seq(Requests)
<1> DEFINE p == CHOOSE i \in 1..Len(lru) : lru[i] = q
<1>1. CASE q \in Cached
  <2>1. Len(lru) \in Nat \ {0}
    BY <1>1 DEF Cached
  <2>2. Without(q) = [i \in 1..Len(lru) - 1 |-> IF i < p THEN lru[i] ELSE lru[i + 1]]
    BY <1>1 DEF Without
  <2> HIDE DEF p
  <2>3. Without(q) \in [1..Len(lru) - 1 -> Requests]
    BY <2>1, <2>2
  <2> QED
    BY <2>1, <2>3
<1>2. CASE q \notin Cached
  BY <1>2 DEF Without
<1> QED
  BY <1>1, <1>2

\* A call that goes on, ends or learns of an answer stays a call.
LEMMA CallSteps ==
  ASSUME call \in CallType
  PROVE  /\ \A l \in {"waitShot", "open", "await", "fire", "wait"} :
              Goto(l) => call' \in CallType
         /\ \A v \in Values : ReturnValue(v) => call' \in CallType
         /\ ReturnError => call' \in CallType
         /\ \A a \in Answers : Answerable(a) => call' \in CallType
         /\ [call EXCEPT !.pc = "open", !.try = 2, !.err = TRUE] \in CallType
<1>1. ASSUME NEW l \in {"waitShot", "open", "await", "fire", "wait"}, Goto(l)
      PROVE  call' \in CallType
  BY <1>1 DEF CallType, Goto
<1>2. ASSUME NEW v \in Values, ReturnValue(v) PROVE call' \in CallType
  BY <1>2 DEF CallType, ReturnValue
<1>3. ASSUME ReturnError PROVE call' \in CallType
  BY <1>3 DEF CallType, ReturnError
<1>4. ASSUME NEW a \in Answers, Answerable(a) PROVE call' \in CallType
  <2>1. (IF call.pc = "idle" THEN call.held ELSE call.held \cup {a}) \in SUBSET Answers
    BY DEF CallType
  <2> QED
    BY <1>4, <2>1 DEF CallType, Answerable
<1>5. [call EXCEPT !.pc = "open", !.try = 2, !.err = TRUE] \in CallType
  <2>1. \A t \in 1..2 : [call EXCEPT !.pc = "open", !.try = t, !.err = TRUE] \in CallType
    BY DEF CallType
  <2>2. 2 \in 1..2
    OBVIOUS
  <2> QED
    BY <2>1, <2>2
<1> QED
  BY <1>1, <1>2, <1>3, <1>4, <1>5

\* A read starts with the types of a call.
LEMMA InitTypeOK == Init => TypeOK
<1> SUFFICES ASSUME Init PROVE TypeOK
  OBVIOUS
<1>1. op \in [Requests -> OpType]
  BY NoOpType DEF Init
<1>2. call \in CallType
  BY ReadsAssumption DEF Init, CallType
<1>3. conn \in BOOLEAN /\ recorded \in BOOLEAN /\ seen \in BOOLEAN /\ lastErr \in BOOLEAN
  BY DEF Init
<1>4. drops \in 0..MaxDrops /\ record \in Values
  BY ReadsAssumption DEF Init
<1>5. sync \in [Requests -> Pending] /\ lru \in Seq(Requests) /\ shot \in Pending \cup {"sent"}
  BY DEF Init, Pending
<1> QED
  BY <1>1, <1>2, <1>3, <1>4, <1>5 DEF TypeOK

\* Every step of pvaGet keeps the types.
LEMMA PvaGetType == ASSUME TypeOK, PvaGet PROVE TypeOK'
<1> USE DEF TypeOK
<1>0. call.req \in Requests
  BY DEF CallType
<1>1. CASE ChooseShot
  BY <1>1, CallSteps DEF ChooseShot, netVars
<1>2. CASE ChooseWarm
  BY <1>2, CallSteps DEF ChooseWarm, netVars
<1>3. CASE ShotReturns
  <2>1. shot # "refused" => shot \in Values
    BY <1>3 DEF ShotReturns, Answers
  <2>2. call' \in CallType /\ recorded' \in BOOLEAN /\ lastErr' \in BOOLEAN
    BY <1>3, <2>1, CallSteps DEF ShotReturns, ReturnValue, ReturnError
  <2> QED
    BY <1>3, <2>2 DEF ShotReturns, netVars, Pending
<1>4. CASE ShotTimeout
  BY <1>4, CallSteps DEF ShotTimeout, ReturnError, netVars, Pending
<1>5. CASE OpenReuse
  <2>1. lru' \in Seq(Requests)
    BY <1>0, <1>5, WithoutType DEF OpenReuse
  <2> QED
    BY <1>5, <2>1, CallSteps DEF OpenReuse, netVars
<1>6. CASE OpenCreate
  <2>1. op' \in [Requests -> OpType]
    BY <1>0, <1>6, NoOpType DEF OpenCreate, OpType
  <2> QED
    BY <1>6, <2>1, CallSteps DEF OpenCreate, netVars, Pending
<1>7. CASE OpenReady
  <2>1. lru' \in Seq(Requests)
    <3>1. Evicted # {} => Len(lru) > 0
      BY ReadsAssumption DEF Evicted
    <3> QED
      BY <1>0, <1>7, <3>1 DEF OpenReady
  <2>2. op' \in [Requests -> OpType]
    BY <1>7, DroppedType DEF OpenReady
  <2> QED
    BY <1>7, <2>1, <2>2, CallSteps DEF OpenReady, netVars
<1>8. CASE OpenFails
  BY <1>8, DroppedType, CallSteps DEF OpenFails, ReturnError, netVars
<1>9. CASE Fire
  <2> DEFINE r == op[call.req]
             new == IF r.phase = "idle"
                    THEN [r EXCEPT !.phase = "exec", !.fresh = FALSE,
                                   !.current = TRUE, !.event = "none"]
                    ELSE [r EXCEPT !.current = FALSE]
  <2>1. op' \in [Requests -> OpType]
    <3>1. new \in OpType
      BY <1>0 DEF OpType, Pending
    <3>2. op' = [op EXCEPT ![call.req] = new]
      BY <1>9 DEF Fire, ReExecGet
    <3> HIDE DEF new
    <3> QED
      BY <1>0, <3>1, <3>2
  <2> QED
    BY <1>9, <2>1, CallSteps DEF Fire, Arm, netVars, Pending
<1>10. CASE ReadReturns
  BY <1>10, CallSteps DEF ReadReturns, ReturnValue, netVars
<1>11. CASE ReadRefused
  BY <1>11, CallSteps DEF ReadRefused, ReturnError, netVars
<1>12. CASE ReadRetries
  <2>1. lru' \in Seq(Requests) /\ op' \in [Requests -> OpType]
    BY <1>12, WithoutType, DroppedType DEF ReadRetries, DropGetChan
  <2>2. call' \in CallType
    BY <1>12, CallSteps DEF ReadRetries
  <2> QED
    BY <1>12, <2>1, <2>2 DEF ReadRetries, netVars
<1>13. CASE ReadTimeout
  <2>1. lru' \in Seq(Requests) /\ op' \in [Requests -> OpType]
    BY <1>13, WithoutType, DroppedType DEF ReadTimeout, DropGetChan
  <2> QED
    BY <1>13, <2>1, CallSteps DEF ReadTimeout, ReturnError, netVars
<1> QED
  BY <1>1, <1>2, <1>3, <1>4, <1>5, <1>6, <1>7, <1>8, <1>9, <1>10, <1>11, <1>12, <1>13
     DEF PvaGet

\* So does every callback.
LEMMA WorkerType == ASSUME TypeOK, NEW q \in Requests, Worker(q) PROVE TypeOK'
<1> USE DEF TypeOK
<1>1. CASE InitReply(q)
  BY <1>1 DEF InitReply, OpType, netVars
<1>2. CASE InitRefused(q)
  <2>1. op' \in [Requests -> OpType]
    <3> DEFINE new == IF op[q].fresh
                      THEN [op[q] EXCEPT !.phase = "done", !.failure = TRUE]
                      ELSE [op[q] EXCEPT !.phase = "done", !.event = "refused"]
    <3>1. new \in OpType
      BY DEF OpType, Pending, Answers
    <3>2. op' = [op EXCEPT ![q] = new]
      BY <1>2 DEF InitRefused
    <3> HIDE DEF new
    <3> QED
      BY <3>1, <3>2
  <2> QED
    BY <1>2, <2>1, CallSteps DEF InitRefused, netVars, Answers
<1>3. CASE Done(q)
  <2>1. op' \in [Requests -> OpType]
    BY <1>3 DEF Done, OpType, Pending
  <2>2. sync' \in [Requests -> Pending]
    BY <1>3 DEF Done, OpType
  <2> QED
    BY <1>3, <2>1, <2>2 DEF Done, netVars
<1>4. CASE Serve(q)
  <2>1. PICK a \in Answers : op' = [op EXCEPT ![q].phase = "idle", ![q].event = a]
                             /\ Answerable(a)
    BY <1>4 DEF Serve, Answers
  <2>2. op' \in [Requests -> OpType]
    BY <2>1 DEF OpType, Pending
  <2> QED
    BY <1>4, <2>1, <2>2, CallSteps DEF Serve, netVars
<1> QED
  BY <1>1, <1>2, <1>3, <1>4 DEF Worker

\* So does everything else.
LEMMA OtherType ==
  ASSUME TypeOK,
         \/ \E q \in Requests : StartRead(q)
         \/ PvaClear \/ EvictElsewhere \/ Connect \/ Disconnect \/ NoticeUp
         \/ Write \/ ServeShot
  PROVE  TypeOK'
<1> USE DEF TypeOK
<1>1. ASSUME NEW q \in Requests, StartRead(q) PROVE TypeOK'
  <2>1. call' \in CallType
    BY <1>1 DEF StartRead, CallType, Answers
  <2> QED
    BY <1>1, <2>1 DEF StartRead, netVars
<1>2. CASE PvaClear
  BY <1>2, DroppedType DEF PvaClear, netVars
<1>3. CASE EvictElsewhere
  BY <1>3, WithoutType, DroppedType DEF EvictElsewhere, DropGetChan, netVars
<1>4. CASE Connect
  <2>1. op' \in [Requests -> OpType]
    BY <1>4 DEF Connect, OpType
  <2> QED
    BY <1>4, <2>1 DEF Connect
<1>5. CASE Disconnect
  <2>1. op' \in [Requests -> OpType]
    BY <1>5 DEF Disconnect, OpType
  <2>2. drops' \in 0..MaxDrops
    BY <1>5, ReadsAssumption DEF Disconnect
  <2> QED
    BY <1>5, <2>1, <2>2 DEF Disconnect
<1>6. CASE NoticeUp
  BY <1>6 DEF NoticeUp, netVars
<1>7. CASE Write
  BY <1>7, CallSteps DEF Write, Answers
<1>8. CASE ServeShot
  BY <1>8 DEF ServeShot, netVars, Pending, Answers
<1> QED
  BY <1>1, <1>2, <1>3, <1>4, <1>5, <1>6, <1>7, <1>8

\* Every step of MATLAB, the callbacks, the client and the IOC keeps the types.
LEMMA TypeStep == TypeOK /\ [Next]_vars => TypeOK'
<1>1. ASSUME TypeOK, UNCHANGED vars PROVE TypeOK'
  BY <1>1 DEF TypeOK, vars, netVars
<1> QED
  BY <1>1, PvaGetType, WorkerType, OtherType DEF Next

\* The types of the read path, for every value of the constants.
THEOREM Typed == Spec => []TypeOK
BY InitTypeOK, TypeStep, PTL DEF Spec

-----------------------------------------------------------------------------
(* The registry.                                                           *)

\* No request twice.
Distinct(s) == \A i, j \in 1..Len(s) : s[i] = s[j] => i = j

\* The registry, and where an operation may be outside it.
RegistryInv ==
  /\ Len(lru) <= MaxChans /\ Distinct(lru)
  /\ call.pc \in {"fire", "wait"} => call.req \in Cached
  /\ call.pc = "await" => call.req \notin Cached
  /\ \A q \in Requests : op[q].phase # "none" =>
       q \in Cached \/ (call.pc = "await" /\ call.req = q)

\* Erasing an entry keeps the others, each once.
LEMMA WithoutEntry ==
  ASSUME lru \in Seq(Requests), Distinct(lru), NEW q
  PROVE  /\ {Without(q)[i] : i \in 1..Len(Without(q))} = Cached \ {q}
         /\ Distinct(Without(q))
         /\ Len(Without(q)) <= Len(lru)
         /\ q \in Cached => Len(Without(q)) < Len(lru)
<1>1. CASE q \in Cached
  <2> DEFINE n == Len(lru)
             p == CHOOSE i \in 1..n : lru[i] = q
             w == [i \in 1..n - 1 |-> IF i < p THEN lru[i] ELSE lru[i + 1]]
  <2>1. n \in Nat \ {0} /\ p \in 1..n /\ lru[p] = q
    BY <1>1 DEF Cached
  <2>2. Without(q) = w
    BY <1>1 DEF Without
  <2>3. Len(w) = n - 1
    BY <2>1
  <2> HIDE DEF p
  <2>4. \A i \in 1..n - 1 : w[i] = lru[IF i < p THEN i ELSE i + 1]
    OBVIOUS
  <2>5. Distinct(w)
    <3> SUFFICES ASSUME NEW i \in 1..n - 1, NEW j \in 1..n - 1, w[i] = w[j] PROVE i = j
      BY <2>3 DEF Distinct
    <3>1. (IF i < p THEN i ELSE i + 1) \in 1..n /\ (IF j < p THEN j ELSE j + 1) \in 1..n
      BY <2>1
    <3>2. (IF i < p THEN i ELSE i + 1) = (IF j < p THEN j ELSE j + 1)
      BY <2>4, <3>1 DEF Distinct
    <3> QED
      BY <2>1, <3>2
  <2>6. \A i \in 1..n - 1 : w[i] \in Cached \ {q}
    <3> TAKE i \in 1..n - 1
    <3> DEFINE m == IF i < p THEN i ELSE i + 1
    <3>1. m \in 1..n /\ m # p
      BY <2>1
    <3>2. w[i] = lru[m]
      BY <2>4
    <3> HIDE DEF m
    <3> QED
      BY <2>1, <3>1, <3>2 DEF Distinct, Cached
  <2>7. ASSUME NEW r \in Cached \ {q} PROVE \E i \in 1..n - 1 : w[i] = r
    <3>1. PICK m \in 1..n : lru[m] = r
      BY <2>7 DEF Cached
    <3>2. m # p
      BY <2>1, <2>7, <3>1
    <3>3. CASE m < p
      <4>1. m \in 1..n - 1 /\ w[m] = r
        BY <2>1, <3>1, <3>3
      <4> QED BY <4>1
    <3>4. CASE m > p
      <4>1. m - 1 \in 1..n - 1 /\ ~(m - 1 < p) /\ (m - 1) + 1 = m
        BY <2>1, <3>4
      <4>2. w[m - 1] = r
        BY <2>4, <3>1, <4>1
      <4> QED BY <4>1, <4>2
    <3> QED
      BY <2>1, <3>2, <3>3, <3>4
  <2> HIDE DEF w
  <2>8. {w[i] : i \in 1..Len(w)} = Cached \ {q}
    BY <2>3, <2>6, <2>7
  <2> QED
    BY <2>1, <2>2, <2>3, <2>5, <2>8
<1>2. CASE q \notin Cached
  BY <1>2 DEF Without, Cached
<1> QED
  BY <1>1, <1>2

\* Using an entry makes it the last of a registry that is otherwise the same.
LEMMA AppendEntry ==
  ASSUME NEW s \in Seq(Requests), Distinct(s), NEW q \in Requests,
         q \notin {s[i] : i \in 1..Len(s)}
  PROVE  /\ Distinct(Append(s, q)) /\ Len(Append(s, q)) = Len(s) + 1
         /\ {Append(s, q)[i] : i \in 1..Len(Append(s, q))} = {s[i] : i \in 1..Len(s)} \cup {q}
<1> DEFINE t == Append(s, q)
<1>1. /\ Len(t) = Len(s) + 1 /\ Len(s) \in Nat
      /\ \A i \in 1..Len(s) : t[i] = s[i]
      /\ t[Len(s) + 1] = q
  OBVIOUS
<1> HIDE DEF t
<1>2. \A i \in 1..Len(t) : i \in 1..Len(s) \/ i = Len(s) + 1
  BY <1>1
<1>3. Distinct(t)
  <2> SUFFICES ASSUME NEW i \in 1..Len(t), NEW j \in 1..Len(t), t[i] = t[j] PROVE i = j
    BY DEF Distinct
  <2> QED
    BY <1>1, <1>2 DEF Distinct
<1>4. {t[i] : i \in 1..Len(t)} = {s[i] : i \in 1..Len(s)} \cup {q}
  <2>1. \A i \in 1..Len(t) : t[i] \in {s[k] : k \in 1..Len(s)} \cup {q}
    BY <1>1, <1>2
  <2>2. \A i \in 1..Len(s) : i \in 1..Len(t) /\ t[i] = s[i]
    BY <1>1
  <2>3. Len(s) + 1 \in 1..Len(t) /\ t[Len(s) + 1] = q
    BY <1>1
  <2> QED
    BY <2>1, <2>2, <2>3
<1> QED
  BY <1>1, <1>3, <1>4 DEF t

\* Evicting the least recently used entry makes room and keeps the others.
LEMMA TailEntry ==
  ASSUME lru \in Seq(Requests), Distinct(lru), lru # <<>>
  PROVE  /\ Tail(lru) \in Seq(Requests) /\ Distinct(Tail(lru))
         /\ Len(Tail(lru)) = Len(lru) - 1
         /\ {Tail(lru)[i] : i \in 1..Len(Tail(lru))} = Cached \ {lru[1]}
<1> DEFINE t == Tail(lru)
<1>1. /\ t \in Seq(Requests) /\ Len(t) = Len(lru) - 1 /\ Len(lru) \in Nat \ {0}
      /\ \A i \in 1..Len(t) : t[i] = lru[i + 1]
  OBVIOUS
<1> HIDE DEF t
<1>2. \A i \in 1..Len(t) : i + 1 \in 1..Len(lru) /\ i + 1 # 1
  BY <1>1
<1>3. Distinct(t)
  BY <1>1, <1>2 DEF Distinct
<1>4. \A i \in 1..Len(t) : t[i] \in Cached \ {lru[1]}
  BY <1>1, <1>2 DEF Distinct, Cached
<1>5. ASSUME NEW r \in Cached \ {lru[1]} PROVE \E i \in 1..Len(t) : t[i] = r
  <2>1. PICK m \in 1..Len(lru) : lru[m] = r
    BY DEF Cached
  <2>2. m - 1 \in 1..Len(t) /\ t[m - 1] = r
    BY <1>1, <1>5, <2>1
  <2> QED
    BY <2>2
<1>6. {t[i] : i \in 1..Len(t)} = Cached \ {lru[1]}
  BY <1>4, <1>5
<1> QED
  BY <1>1, <1>3, <1>6 DEF t

\* Erasing the entry of the read in progress, or of any request between reads.
LEMMA DropGetChanStep ==
  ASSUME TypeOK, RegistryInv, NEW q \in Requests, DropGetChan(q),
         \/ call.pc = "wait" /\ call'.pc \in {"open", "idle"}
         \/ call.pc = "idle" /\ call' = call
  PROVE  RegistryInv'
<1>1. /\ Cached' = Cached \ {q} /\ Distinct(lru') /\ Len(lru') <= Len(lru)
      /\ Len(lru') \in Nat /\ Len(lru) \in Nat
  <2> DEFINE w == Without(q)
  <2>1. lru \in Seq(Requests) /\ Distinct(lru) /\ lru' = w
    BY DEF DropGetChan, TypeOK, RegistryInv
  <2>2. /\ {w[i] : i \in 1..Len(w)} = Cached \ {q} /\ Distinct(w)
        /\ Len(w) <= Len(lru) /\ w \in Seq(Requests)
    BY <2>1, WithoutEntry, WithoutType
  <2> HIDE DEF w
  <2>3. Cached' = {w[i] : i \in 1..Len(w)}
    BY <2>1 DEF Cached
  <2> QED
    BY <2>1, <2>2, <2>3
<1>2. \A r \in Requests : op'[r] = IF r = q THEN NoOp ELSE op[r]
  BY DroppedType DEF DropGetChan, TypeOK
<1>3. Len(lru') <= MaxChans
  BY <1>1, ReadsAssumption DEF RegistryInv
<1>4. \A r \in Requests : op'[r].phase # "none" => r \in Cached'
  BY <1>1, <1>2, NoOpType DEF RegistryInv
<1>5. call'.pc \in {"open", "idle"}
  OBVIOUS
<1> QED
  BY <1>1, <1>3, <1>4, <1>5 DEF RegistryInv

\* A step that leaves the registry alone, creates no operation and does not
\* start or end the use of an entry.
LEMMA RegistryQuiet ==
  ASSUME RegistryInv, lru' = lru, call'.req = call.req, call'.pc = call.pc,
         \A q \in Requests : op'[q].phase # "none" => op[q].phase # "none"
  PROVE  RegistryInv'
BY DEF RegistryInv, Cached

\* A call that does not use an entry moves on.
LEMMA RegistryMoves ==
  ASSUME RegistryInv, lru' = lru, op' = op,
         call.pc # "await", call'.pc \notin {"await", "fire", "wait"}
  PROVE  RegistryInv'
BY DEF RegistryInv, Cached

\* An answer recorded for OwnAnswer moves no call.
LEMMA AnswerableStep ==
  ASSUME TypeOK, NEW a, Answerable(a)
  PROVE  /\ call'.pc = call.pc /\ call'.req = call.req /\ call'.value = call.value
         /\ call'.err = call.err
         /\ call'.held = IF call.pc = "idle" THEN call.held ELSE call.held \cup {a}
BY DEF TypeOK, CallType, Answerable

\* Where a call goes, by the ways it has of going on.
LEMMA CallMoves ==
  ASSUME TypeOK
  PROVE  /\ \A l : Goto(l) => /\ call'.pc = l /\ call'.req = call.req
                              /\ call'.held = call.held /\ call'.value = call.value
                              /\ call'.err = call.err
         /\ \A v : ReturnValue(v) => /\ call'.pc = "idle" /\ call'.req = call.req
                                     /\ call'.held = call.held /\ call'.value = v
                                     /\ call'.err = FALSE
         /\ ReturnError => /\ call'.pc = "idle" /\ call'.req = call.req
                           /\ call'.held = call.held /\ call'.value = call.value
                           /\ call'.err = TRUE
BY DEF TypeOK, CallType, Goto, ReturnValue, ReturnError

\* openGetChan keeps the registry.
LEMMA OpenRegistry ==
  ASSUME TypeOK, RegistryInv, OpenReuse \/ OpenCreate \/ OpenReady \/ OpenFails
  PROVE  RegistryInv'
<1>0. call.req \in Requests /\ lru \in Seq(Requests) /\ Len(lru) \in Nat
  BY DEF TypeOK, CallType
<1>1. CASE OpenReuse
  <2> DEFINE w == Without(call.req)
  <2>1. /\ w \in Seq(Requests) /\ Distinct(w) /\ Len(w) < Len(lru) /\ Len(w) \in Nat
        /\ {w[i] : i \in 1..Len(w)} = Cached \ {call.req}
    <3>1. call.req \in Cached /\ Distinct(lru)
      BY <1>1 DEF OpenReuse, RegistryInv
    <3>2. w \in Seq(Requests)
      BY <1>0, WithoutType
    <3>3. /\ Distinct(w) /\ Len(w) < Len(lru)
          /\ {w[i] : i \in 1..Len(w)} = Cached \ {call.req}
      BY <1>0, <3>1, WithoutEntry
    <3> HIDE DEF w
    <3> QED
      BY <3>2, <3>3
  <2>2. lru' = Append(w, call.req)
    BY <1>1 DEF OpenReuse
  <2> HIDE DEF w
  <2>3. /\ Distinct(lru') /\ Len(lru') = Len(w) + 1
        /\ {lru'[i] : i \in 1..Len(lru')} = (Cached \ {call.req}) \cup {call.req}
    <3>1. call.req \notin {w[i] : i \in 1..Len(w)}
      BY <2>1
    <3>2. /\ Distinct(Append(w, call.req)) /\ Len(Append(w, call.req)) = Len(w) + 1
          /\ {Append(w, call.req)[i] : i \in 1..Len(Append(w, call.req))}
               = {w[i] : i \in 1..Len(w)} \cup {call.req}
      BY <1>0, <2>1, <3>1, AppendEntry
    <3> QED
      BY <2>1, <2>2, <3>2
  <2>4. Cached' = Cached
    BY <1>1, <2>3 DEF OpenReuse, Cached
  <2>5. Len(lru') <= MaxChans
    BY <1>0, <2>1, <2>3, ReadsAssumption DEF RegistryInv
  <2>6. call'.pc = "fire" /\ call'.req = call.req /\ op' = op /\ call.pc = "open"
    BY <1>1, CallMoves DEF OpenReuse
  <2> QED
    BY <1>1, <2>3, <2>4, <2>5, <2>6 DEF OpenReuse, RegistryInv
<1>2. CASE OpenCreate
  <2>1. call'.pc = "await" /\ call'.req = call.req /\ lru' = lru /\ call.pc = "open"
    BY <1>2, CallMoves DEF OpenCreate
  <2>2. \A q \in Requests : q # call.req => op'[q] = op[q]
    BY <1>2 DEF OpenCreate, TypeOK
  <2> QED
    BY <1>2, <2>1, <2>2 DEF OpenCreate, RegistryInv, Cached
<1>3. CASE OpenReady
  <2>1. call'.pc = "fire" /\ call'.req = call.req /\ call.pc = "await"
    BY <1>3, CallMoves DEF OpenReady
  <2>2. call.req \notin Cached
    BY <2>1 DEF RegistryInv
  <2> DEFINE s == IF Evicted = {} THEN lru ELSE Tail(lru)
  <2>3. /\ s \in Seq(Requests) /\ Distinct(s) /\ Len(s) + 1 <= MaxChans /\ Len(s) \in Nat
        /\ {s[i] : i \in 1..Len(s)} = Cached \ Evicted
    <3>1. CASE Len(lru) >= MaxChans
      <4>1. lru # <<>> /\ Evicted = {lru[1]}
        BY <1>0, <3>1, ReadsAssumption DEF Evicted
      <4>2. s = Tail(lru)
        BY <4>1
      <4>3. /\ Tail(lru) \in Seq(Requests) /\ Distinct(Tail(lru))
            /\ Len(Tail(lru)) = Len(lru) - 1
            /\ {Tail(lru)[i] : i \in 1..Len(Tail(lru))} = Cached \ {lru[1]}
        BY <1>0, <4>1, TailEntry DEF RegistryInv
      <4>4. Len(lru) - 1 \in Nat /\ (Len(lru) - 1) + 1 <= MaxChans
        BY <1>0, <3>1, ReadsAssumption DEF RegistryInv
      <4> HIDE DEF s
      <4> QED
        BY <4>1, <4>2, <4>3, <4>4
    <3>2. CASE ~(Len(lru) >= MaxChans)
      <4>1. Evicted = {} /\ s = lru
        BY <3>2 DEF Evicted
      <4> QED
        BY <1>0, <3>2, <4>1, ReadsAssumption DEF RegistryInv, Cached
    <3> QED
      BY <3>1, <3>2
  <2>4. lru' = Append(s, call.req)
    BY <1>3 DEF OpenReady
  <2> HIDE DEF s
  <2>5. /\ Distinct(lru') /\ Len(lru') = Len(s) + 1
        /\ {lru'[i] : i \in 1..Len(lru')} = (Cached \ Evicted) \cup {call.req}
    BY <1>0, <2>2, <2>3, <2>4, AppendEntry
  <2>6. Cached' = (Cached \ Evicted) \cup {call.req}
    BY <2>5 DEF Cached
  <2>7. Len(lru') <= MaxChans
    BY <2>3, <2>5
  <2>8. \A q \in Requests : op'[q] = IF q \in Evicted THEN NoOp ELSE op[q]
    BY <1>3, DroppedType DEF OpenReady, TypeOK
  <2>9. \A q \in Requests : op'[q].phase # "none" => q \in Cached'
    BY <2>1, <2>6, <2>8, NoOpType DEF RegistryInv
  <2> QED
    BY <2>1, <2>5, <2>6, <2>7, <2>9 DEF RegistryInv
<1>4. CASE OpenFails
  <2>1. call'.pc = "idle" /\ lru' = lru /\ call.pc = "await"
    BY <1>4, CallMoves DEF OpenFails
  <2>2. \A q \in Requests : op'[q] = IF q = call.req THEN NoOp ELSE op[q]
    BY <1>4, DroppedType DEF OpenFails, TypeOK
  <2> QED
    BY <2>1, <2>2, NoOpType DEF RegistryInv, Cached
<1> QED
  BY <1>1, <1>2, <1>3, <1>4

\* So does the rest of pvaGet.
LEMMA ReadRegistry ==
  ASSUME TypeOK, RegistryInv, PvaGet
  PROVE  RegistryInv'
<1>0. call.req \in Requests
  BY DEF TypeOK, CallType
<1>1. CASE ChooseShot \/ ChooseWarm
  BY <1>1, CallMoves, RegistryMoves DEF ChooseShot, ChooseWarm
<1>2. CASE ShotReturns \/ ShotTimeout
  BY <1>2, CallMoves, RegistryMoves DEF ShotReturns, ShotTimeout
<1>3. CASE Fire
  <2>1. call'.pc = "wait" /\ call'.req = call.req /\ lru' = lru /\ call.pc = "fire"
    BY <1>3, CallMoves DEF Fire
  <2>2. \A q \in Requests : op'[q].phase # "none" => op[q].phase # "none"
    BY <1>0, <1>3 DEF Fire, ReExecGet, TypeOK, OpType
  <2> QED
    BY <2>1, <2>2 DEF RegistryInv, Cached
<1>4. CASE ReadReturns \/ ReadRefused
  BY <1>4, CallMoves, RegistryMoves DEF ReadReturns, ReadRefused
<1>5. CASE ReadRetries
  <2>1. call.pc = "wait" /\ call'.pc = "open"
    BY <1>5 DEF ReadRetries, TypeOK, CallType
  <2> QED
    BY <1>0, <1>5, <2>1, DropGetChanStep DEF ReadRetries
<1>6. CASE ReadTimeout
  <2>1. call.pc = "wait" /\ call'.pc = "idle"
    BY <1>6, CallMoves DEF ReadTimeout
  <2> QED
    BY <1>0, <1>6, <2>1, DropGetChanStep DEF ReadTimeout
<1> QED
  BY <1>1, <1>2, <1>3, <1>4, <1>5, <1>6, OpenRegistry DEF PvaGet

\* So does every callback, and everything outside the glue.
LEMMA OtherRegistry ==
  ASSUME TypeOK, RegistryInv,
         \/ \E q \in Requests : StartRead(q) \/ Worker(q)
         \/ PvaClear \/ EvictElsewhere \/ Connect \/ Disconnect \/ NoticeUp
         \/ Write \/ ServeShot
  PROVE  RegistryInv'
<1>1. ASSUME NEW q \in Requests, StartRead(q) PROVE RegistryInv'
  <2>1. call.pc = "idle" /\ call'.pc = "start" /\ lru' = lru /\ op' = op
    BY <1>1 DEF StartRead
  <2> QED
    BY <2>1, RegistryMoves
<1>2. ASSUME NEW q \in Requests, Worker(q) PROVE RegistryInv'
  <2>1. lru' = lru /\ call'.pc = call.pc /\ call'.req = call.req
    BY <1>2, AnswerableStep DEF Worker, InitReply, InitRefused, Done, Serve
  <2>2. \A r \in Requests : op'[r].phase # "none" => op[r].phase # "none"
    <3>1. CASE InitReply(q)
      BY <3>1 DEF InitReply, TypeOK, OpType
    <3>2. CASE InitRefused(q)
      <4>1. op[q].phase # "none" /\ \A r \in Requests : r # q => op'[r] = op[r]
        BY <3>2 DEF InitRefused, TypeOK
      <4> QED BY <4>1
    <3>3. CASE Done(q)
      BY <3>3 DEF Done, TypeOK, OpType
    <3>4. CASE Serve(q)
      <4>1. op[q].phase # "none" /\ \A r \in Requests : r # q => op'[r] = op[r]
        BY <3>4 DEF Serve, TypeOK
      <4> QED BY <4>1
    <3> QED
      BY <1>2, <3>1, <3>2, <3>3, <3>4 DEF Worker
  <2> QED
    BY <2>1, <2>2, RegistryQuiet
<1>3. CASE PvaClear
  <2>1. call.pc = "idle" /\ call' = call /\ lru' = <<>>
    BY <1>3 DEF PvaClear
  <2>2. \A q \in Requests : op'[q] = IF q \in Cached THEN NoOp ELSE op[q]
    BY <1>3, DroppedType DEF PvaClear, TypeOK
  <2>3. \A q \in Requests : op'[q].phase = "none"
    BY <2>1, <2>2, NoOpType DEF RegistryInv
  <2>4. Len(lru') <= MaxChans /\ Distinct(lru')
    BY <2>1, ReadsAssumption DEF Distinct
  <2> QED
    BY <2>1, <2>3, <2>4 DEF RegistryInv
<1>4. CASE EvictElsewhere
  <2>1. lru[1] \in Requests
    BY <1>4 DEF EvictElsewhere, TypeOK
  <2> QED
    BY <1>4, <2>1, DropGetChanStep DEF EvictElsewhere
<1>5. CASE Connect \/ Disconnect
  <2>1. lru' = lru /\ call' = call
    BY <1>5 DEF Connect, Disconnect
  <2>2. \A q \in Requests : op'[q].phase # "none" => op[q].phase # "none"
    BY <1>5 DEF Connect, Disconnect, TypeOK, OpType
  <2> QED
    BY <2>1, <2>2, RegistryQuiet
<1>6. CASE NoticeUp \/ ServeShot
  BY <1>6, RegistryQuiet DEF NoticeUp, ServeShot
<1>7. CASE Write
  <2>1. lru' = lru /\ op' = op /\ call'.pc = call.pc /\ call'.req = call.req
    BY <1>7, AnswerableStep DEF Write
  <2> QED
    BY <2>1, RegistryQuiet
<1> QED
  BY <1>1, <1>2, <1>3, <1>4, <1>5, <1>6, <1>7

\* RegistryInv is inductive, given the types.
LEMMA RegistryStep == TypeOK /\ RegistryInv /\ [Next]_vars => RegistryInv'
<1>1. ASSUME RegistryInv, UNCHANGED vars PROVE RegistryInv'
  BY <1>1, RegistryQuiet DEF vars
<1> QED
  BY <1>1, ReadRegistry, OtherRegistry DEF Next

\* Before the first read the registry is empty.
LEMMA InitRegistry == Init => RegistryInv
BY NoOpType, ReadsAssumption DEF Init, RegistryInv, Distinct, Cached

\* What the run checks follows from the inductive form.
LEMMA RegistryCount == TypeOK /\ RegistryInv => Registry
<1> SUFFICES ASSUME TypeOK, RegistryInv PROVE Registry
  OBVIOUS
<1>1. Len(lru) \in Nat /\ lru \in [1..Len(lru) -> Cached]
  BY DEF TypeOK, Cached
<1>2. lru \in Bijection(1..Len(lru), Cached)
  BY <1>1, Fun_IsBij DEF RegistryInv, Distinct, Cached
<1>3. Cardinality(Cached) = Len(lru)
  BY <1>1, <1>2, FS_CountingElements DEF ExistsBijection
<1> QED
  BY <1>3 DEF RegistryInv, Registry

\* The registry of warm reads is bounded, holds a request once, and keeps the
\* entry of the read in progress, for every bound and every set of requests.
THEOREM RegistryKept == Spec => []Registry
<1>1. TypeOK /\ RegistryInv /\ [Next]_vars => RegistryInv'
  BY RegistryStep
<1>2. Spec => []RegistryInv
  BY <1>1, InitRegistry, Typed, PTL DEF Spec
<1> QED
  BY <1>2, RegistryCount, Typed, PTL

-----------------------------------------------------------------------------
(* Answers.                                                                *)

\* Where an answer of the read in progress may be: still with the one-shot, with
\* the operation fired for it, or in OpSync.  An operation that ignored reExecGet
\* has one of an earlier read, and a stamp that is not current.
AnswerInv ==
  /\ call.pc # "idle" => record \in call.held /\ call.value = "none"
  /\ shot # "none" => call.pc = "waitShot"
  /\ shot \in Values => shot \in call.held
  /\ call.pc = "wait" /\ op[call.req].current
       => op[call.req].event \in call.held \cup {"none"}
  /\ OwnAnswer

\* A call ends with a value the record held since it began.
LEMMA EndsWithValue ==
  ASSUME TypeOK, AnswerInv, call.pc # "idle", NEW v \in Values, v \in call.held,
         ReturnValue(v), shot' = "none", record' = record
  PROVE  AnswerInv'
<1>1. /\ call'.pc = "idle" /\ call'.held = call.held /\ call'.value = v
      /\ call'.err = FALSE
  BY CallMoves
<1>2. v # "none" /\ shot' \notin Values
  BY ReadsAssumption
<1> QED
  BY <1>1, <1>2 DEF AnswerInv, OwnAnswer

\* A call ends with an error and no value.
LEMMA EndsWithError ==
  ASSUME TypeOK, AnswerInv, call.pc # "idle", ReturnError, shot' = "none"
  PROVE  AnswerInv'
<1>1. /\ call'.pc = "idle" /\ call'.held = call.held /\ call'.value = "none"
      /\ call'.err = TRUE
  BY CallMoves DEF AnswerInv
<1>2. shot' \notin Values
  BY ReadsAssumption
<1> QED
  BY <1>1, <1>2 DEF AnswerInv, OwnAnswer

\* A call moves on without an answer.
LEMMA MovesOn ==
  ASSUME TypeOK, AnswerInv, call.pc # "idle", shot' = shot, record' = record,
         shot = "none", call'.pc \in {"open", "await", "fire"},
         call'.held = call.held, call'.value = call.value
  PROVE  AnswerInv'
<1>1. shot' \notin Values
  BY ReadsAssumption
<1> QED
  BY <1>1 DEF AnswerInv, OwnAnswer

\* The steps of pvaGet keep each answer with its read.
LEMMA PvaGetAnswers ==
  ASSUME TypeOK, AnswerInv, PvaGet
  PROVE  AnswerInv'
<1>0. call.req \in Requests /\ (call.pc # "waitShot" => shot = "none")
  BY DEF TypeOK, CallType, AnswerInv
<1>1. CASE ChooseShot
  <2>1. /\ call'.pc = "waitShot" /\ call'.held = call.held /\ call'.value = call.value
        /\ record' = record /\ shot' = "sent" /\ call.pc = "start"
    BY <1>1, CallMoves DEF ChooseShot, netVars
  <2>2. shot' \notin Values
    BY <2>1, ReadsAssumption
  <2> QED
    BY <2>1, <2>2 DEF AnswerInv, OwnAnswer
<1>2. CASE ChooseWarm
  BY <1>0, <1>2, CallMoves, MovesOn DEF ChooseWarm, netVars
<1>3. CASE ShotReturns
  <2>1. call.pc = "waitShot" /\ shot' = "none" /\ record' = record
    BY <1>3 DEF ShotReturns, netVars
  <2>2. CASE shot = "refused"
    BY <1>3, <2>1, <2>2, EndsWithError DEF ShotReturns
  <2>3. CASE shot # "refused"
    <3>1. shot \in Values /\ shot \in call.held
      BY <1>3, <2>3 DEF ShotReturns, Answers, AnswerInv
    <3> QED
      BY <1>3, <2>1, <2>3, <3>1, EndsWithValue DEF ShotReturns
  <2> QED
    BY <2>2, <2>3
<1>4. CASE ShotTimeout
  BY <1>4, EndsWithError DEF ShotTimeout
<1>5. CASE OpenReuse
  BY <1>0, <1>5, CallMoves, MovesOn DEF OpenReuse, netVars
<1>6. CASE OpenCreate
  BY <1>0, <1>6, CallMoves, MovesOn DEF OpenCreate, netVars
<1>7. CASE OpenReady
  BY <1>0, <1>7, CallMoves, MovesOn DEF OpenReady, netVars
<1>8. CASE OpenFails
  BY <1>0, <1>8, EndsWithError DEF OpenFails
<1>9. CASE Fire
  <2>1. /\ call'.pc = "wait" /\ call'.req = call.req /\ call'.held = call.held
        /\ call'.value = call.value /\ record' = record /\ shot' = shot
        /\ call.pc = "fire" /\ shot = "none"
    BY <1>0, <1>9, CallMoves DEF Fire, netVars
  <2>2. sync'[call.req] = "none"
    BY <1>0, <1>9 DEF Fire, Arm, TypeOK
  <2>3. op'[call.req].current => op'[call.req].event = "none"
    <3> DEFINE r == op[call.req]
               new == IF r.phase = "idle"
                      THEN [r EXCEPT !.phase = "exec", !.fresh = FALSE,
                                     !.current = TRUE, !.event = "none"]
                      ELSE [r EXCEPT !.current = FALSE]
    <3>1. new.current => new.event = "none"
      BY <1>0 DEF TypeOK, OpType
    <3>2. op'[call.req] = new
      BY <1>0, <1>9 DEF Fire, ReExecGet, TypeOK
    <3> HIDE DEF new
    <3> QED
      BY <3>1, <3>2
  <2>4. shot' \notin Values
    BY <2>1, ReadsAssumption
  <2> QED
    BY <2>1, <2>2, <2>3, <2>4 DEF AnswerInv, OwnAnswer
<1>10. CASE ReadReturns
  <2>1. sync[call.req] \in Values /\ sync[call.req] \in call.held
    BY <1>10, ReadsAssumption DEF ReadReturns, AnswerInv, OwnAnswer
  <2> QED
    BY <1>0, <1>10, <2>1, EndsWithValue DEF ReadReturns, netVars
<1>11. CASE ReadRefused
  BY <1>0, <1>11, EndsWithError DEF ReadRefused
<1>12. CASE ReadRetries
  <2>1. /\ call'.pc = "open" /\ call'.held = call.held /\ call'.value = call.value
        /\ call.pc = "wait"
    BY <1>12 DEF ReadRetries, TypeOK, CallType
  <2> QED
    BY <1>0, <1>12, <2>1, MovesOn DEF ReadRetries, netVars
<1>13. CASE ReadTimeout
  BY <1>0, <1>13, EndsWithError DEF ReadTimeout
<1> QED
  BY <1>1, <1>2, <1>3, <1>4, <1>5, <1>6, <1>7, <1>8, <1>9, <1>10, <1>11, <1>12, <1>13
     DEF PvaGet

\* A step that may add to what the server can have answered, and changes neither
\* the one-shot nor what is there for the read in progress.
LEMMA AnswerQuiet ==
  ASSUME AnswerInv, call'.pc = call.pc, call'.req = call.req,
         call'.value = call.value, call'.err = call.err,
         IF call.pc = "idle" THEN call'.held = call.held ELSE call.held \subseteq call'.held,
         call.pc # "idle" => record' \in call'.held,
         shot' \in {shot, "refused"}, shot' # "none" => shot # "none",
         sync'[call.req] \in {sync[call.req], "none"},
         op'[call.req].current => op[call.req].current,
         call.pc # "idle" =>
           op'[call.req].event \in {op[call.req].event, "none"} \cup call'.held
  PROVE  AnswerInv'
<1>1. "refused" \notin Values
  BY ReadsAssumption
<1> QED
  BY <1>1 DEF AnswerInv, OwnAnswer

\* So do the callbacks.
LEMMA WorkerAnswers ==
  ASSUME TypeOK, AnswerInv, NEW q \in Requests, Worker(q)
  PROVE  AnswerInv'
<1>0. call.req \in Requests
  BY DEF TypeOK, CallType
<1>1. CASE InitReply(q)
  <2>1. \A r \in Requests : op'[r].current = op[r].current /\ op'[r].event = op[r].event
    BY <1>1 DEF InitReply, TypeOK, OpType
  <2> QED
    BY <1>0, <1>1, <2>1, AnswerQuiet DEF InitReply, netVars, AnswerInv
<1>2. CASE InitRefused(q)
  <2> DEFINE new == IF op[q].fresh
                    THEN [op[q] EXCEPT !.phase = "done", !.failure = TRUE]
                    ELSE [op[q] EXCEPT !.phase = "done", !.event = "refused"]
  <2>1. new.current = op[q].current /\ new.event \in {op[q].event, "refused"}
    BY DEF TypeOK, OpType
  <2>2. op' = [op EXCEPT ![q] = new]
    BY <1>2 DEF InitRefused
  <2> HIDE DEF new
  <2>3. \A r \in Requests : /\ op'[r].current = op[r].current
                             /\ op'[r].event \in {op[r].event, "refused"}
    BY <2>1, <2>2 DEF TypeOK
  <2>4. /\ call'.pc = call.pc /\ call'.req = call.req /\ call'.value = call.value
        /\ call'.err = call.err
        /\ call'.held = IF call.pc = "idle" THEN call.held ELSE call.held \cup {"refused"}
    BY <1>2, AnswerableStep DEF InitRefused
  <2>5. record' = record /\ shot' = shot /\ sync' = sync
    BY <1>2 DEF InitRefused, netVars
  <2> QED
    BY <1>0, <2>3, <2>4, <2>5, AnswerQuiet DEF AnswerInv
<1>3. CASE Done(q)
  <2>1. \A r \in Requests : op'[r].current = op[r].current
                            /\ op'[r].event \in {op[r].event, "none"}
    BY <1>3 DEF Done, TypeOK, OpType
  <2>2. record' = record /\ shot' = shot /\ call' = call
    BY <1>3 DEF Done, netVars
  <2>3. CASE q = call.req /\ op[q].current
    <3>1. sync'[call.req] = op[call.req].event
      BY <1>0, <1>3, <2>3 DEF Done, TypeOK
    <3> QED
      BY <1>0, <2>1, <2>2, <2>3, <3>1 DEF AnswerInv, OwnAnswer
  <2>4. CASE ~(q = call.req /\ op[q].current)
    <3>1. sync'[call.req] = sync[call.req]
      BY <1>0, <1>3, <2>4 DEF Done, TypeOK
    <3> QED
      BY <1>0, <2>1, <2>2, <3>1, AnswerQuiet DEF AnswerInv
  <2> QED
    BY <2>3, <2>4
<1>4. CASE Serve(q)
  <2>1. PICK a \in Answers : op' = [op EXCEPT ![q].phase = "idle", ![q].event = a]
                             /\ Answerable(a)
    BY <1>4 DEF Serve, Answers, TypeOK
  <2>2. \A r \in Requests : op'[r].current = op[r].current
                            /\ op'[r].event \in {op[r].event, a}
    BY <2>1 DEF TypeOK, OpType
  <2>3. /\ call'.pc = call.pc /\ call'.req = call.req /\ call'.value = call.value
        /\ call'.err = call.err
        /\ call'.held = IF call.pc = "idle" THEN call.held ELSE call.held \cup {a}
    BY <2>1, AnswerableStep
  <2>4. record' = record /\ shot' = shot /\ sync' = sync
    BY <1>4 DEF Serve, netVars
  <2> QED
    BY <1>0, <2>2, <2>3, <2>4, AnswerQuiet DEF AnswerInv
<1> QED
  BY <1>1, <1>2, <1>3, <1>4 DEF Worker

\* So does everything outside the glue, and a read starts with no answer.
LEMMA OtherAnswers ==
  ASSUME TypeOK, AnswerInv,
         \/ \E q \in Requests : StartRead(q)
         \/ PvaClear \/ EvictElsewhere \/ Connect \/ Disconnect \/ NoticeUp
         \/ Write \/ ServeShot
  PROVE  AnswerInv'
<1>0. call.req \in Requests
  BY DEF TypeOK, CallType
<1>1. ASSUME NEW q \in Requests, StartRead(q) PROVE AnswerInv'
  <2>1. /\ call'.pc = "start" /\ call'.held = {record} /\ call'.value = "none"
        /\ record' = record /\ shot' = shot /\ shot = "none"
    BY <1>1 DEF StartRead, netVars, AnswerInv
  <2>2. shot' \notin Values
    BY <2>1, ReadsAssumption
  <2> QED
    BY <2>1, <2>2 DEF AnswerInv, OwnAnswer
<1>2. CASE PvaClear \/ EvictElsewhere
  <2>1. \A r \in Requests : op'[r] \in {op[r], NoOp}
    BY <1>2, DroppedType DEF PvaClear, EvictElsewhere, DropGetChan, TypeOK
  <2>2. op'[call.req].current => op[call.req].current
    BY <1>0, <2>1 DEF NoOp
  <2>3. call.pc = "idle" /\ call' = call /\ record' = record /\ shot' = shot /\ sync' = sync
    BY <1>2 DEF PvaClear, EvictElsewhere, netVars
  <2> QED
    BY <2>2, <2>3, AnswerQuiet DEF AnswerInv
<1>3. CASE Connect \/ Disconnect
  <2>1. \A r \in Requests : op'[r].current = op[r].current /\ op'[r].event = op[r].event
    BY <1>3 DEF Connect, Disconnect, TypeOK, OpType
  <2>2. call' = call /\ record' = record /\ shot' = shot /\ sync' = sync
    BY <1>3 DEF Connect, Disconnect
  <2> QED
    BY <1>0, <2>1, <2>2, AnswerQuiet DEF AnswerInv
<1>4. CASE NoticeUp
  BY <1>4, AnswerQuiet DEF NoticeUp, netVars, AnswerInv
<1>5. CASE Write
  <2>1. /\ call'.pc = call.pc /\ call'.req = call.req /\ call'.value = call.value
        /\ call'.err = call.err
        /\ call'.held = IF call.pc = "idle" THEN call.held ELSE call.held \cup {record'}
    BY <1>5, AnswerableStep DEF Write
  <2> QED
    BY <1>5, <2>1, AnswerQuiet DEF Write, AnswerInv
<1>6. CASE ServeShot
  <2>1. /\ call' = call /\ record' = record /\ sync' = sync /\ op' = op
        /\ shot' \in {record, "refused"} /\ call.pc = "waitShot"
    BY <1>6 DEF ServeShot, netVars, AnswerInv
  <2>2. shot' \in Values => shot' \in call.held
    BY <2>1, ReadsAssumption DEF AnswerInv
  <2> QED
    BY <2>1, <2>2 DEF AnswerInv, OwnAnswer
<1> QED
  BY <1>1, <1>2, <1>3, <1>4, <1>5, <1>6

\* AnswerInv is inductive, given the types.
LEMMA AnswerStep == TypeOK /\ AnswerInv /\ [Next]_vars => AnswerInv'
<1>1. ASSUME TypeOK, AnswerInv, UNCHANGED vars PROVE AnswerInv'
  BY <1>1, AnswerQuiet DEF vars, netVars, AnswerInv
<1> QED
  BY <1>1, PvaGetAnswers, WorkerAnswers, OtherAnswers DEF Next

\* Before the first read there is no answer anywhere.
LEMMA InitAnswer == Init => AnswerInv
BY ReadsAssumption DEF Init, AnswerInv, OwnAnswer

\* What a read was given stays its own for ever.
LEMMA Answered == Spec => []AnswerInv
BY AnswerStep, InitAnswer, Typed, PTL DEF Spec

\* Whatever the connection, the callbacks and the cancelled operations do, a read
\* returns an answer the server gave to that read, or an error and no value.
THEOREM AnswersOwn == Spec => []OwnAnswer
<1>1. AnswerInv => OwnAnswer
  BY DEF AnswerInv
<1> QED
  BY <1>1, Answered, PTL
=============================================================================
