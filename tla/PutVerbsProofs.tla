--------------------------- MODULE PutVerbsProofs ----------------------------
(* Proofs about the put verbs, for every database, every call on its       *)
(* channels, every bound and both backends.                                *)
EXTENDS PutVerbs, ConvertProofs

-----------------------------------------------------------------------------
(* The invariant.                                                          *)

\* The index a put carries for a string is that of the string.
ChoiceCurrent(m) ==
  LET choices == EnumChoices(Field(m.seen, "value"))
      index   == EnumIndex(Field(m.arg, "value"))
  IN  IsEnumText(m) => /\ index \in 0..(Len(choices) - 1)
                       /\ choices[index + 1] = getStdString(Wanted(m.c, m.k))

\* A put on a wire is one of a call made, for that channel.
Carried(m, ch) ==
  /\ m.n \in 1..calls /\ m.c \in Calls[db] /\ buildPVs(m.c.names).pv[m.k] = ch
  /\ backend = "pvxs" => ChoiceCurrent(m)

WireInv ==
  /\ backend \in Backends /\ db \in DOMAIN Layouts /\ calls \in 0..MaxCalls
  /\ edits \in 0..MaxEdits /\ faults \in 0..MaxFaults
  /\ DOMAIN wire = Channels
  /\ \A ch \in Channels : IsList(wire[ch])
  /\ \A ch \in Channels : \A i \in 1..Len(wire[ch]) : Carried(wire[ch][i], ch)

Shaped ==
  /\ DOMAIN call = {"c", "pvs", "k", "cur", "seen", "sent", "acked", "pc", "err"}
  /\ call.pc \in {"prepare", "commit", "wait", "done", "failed"}
  /\ call.pc = "failed" <=> call.err # PVA_OK
  /\ calls # 0 /\ call.c \in Calls[db] /\ call.pvs = buildPVs(call.c.names).pv
  /\ call.k \in Nat /\ call.sent \in Seq(Nat) /\ call.sent = [i \in 1..Len(call.sent) |-> i]

\* What the call has sent, and seen acknowledged, at each of its points.
Progress ==
  /\ call.pc # "failed" => ~BadArguments(call.c) /\ call.pvs \in Seq(Channels)
  /\ call.pc \in {"prepare", "commit", "wait"} => call.k \in 1..Len(call.pvs)
  /\ call.acked \subseteq 1..Len(call.pvs)
  /\ call.pc # "done" => (Waits => 1..(call.k - 1) \subseteq call.acked)
  /\ call.pc \in {"prepare", "commit"} => Len(call.sent) = call.k - 1
  /\ call.pc = "wait" => Len(call.sent) = call.k /\ Waits
  /\ call.pc = "done" => Len(call.sent) = Len(call.pvs) /\ (Waits => call.acked = 1..Len(call.pvs))
  /\ call.pc = "failed" =>
       \/ Len(call.sent) = call.k - 1
       \/ Len(call.sent) = call.k /\ call.err \in {"PVA_TIMEOUT", "PVA_FAILURE"}

\* What a value is converted against is what the server had, when it is an enum.
Template ==
  call.pc = "commit" =>
    /\ ValueFor(call.c, call.k).err = PVA_OK
    /\ backend = "pvxs" /\ IsEnum(Field(call.seen, "value")) => call.cur = call.seen

CallInv == call = NoCall \/ (Shaped /\ Progress /\ Template)

IInv == WireInv /\ CallInv

-----------------------------------------------------------------------------
(* The wires.                                                              *)

\* Taking one element out of a list leaves the others.
LEMMA RemoveKeeps ==
  ASSUME NEW s, IsList(s), NEW i \in 1..Len(s)
  PROVE  /\ IsList(RemoveAt(s, i))
         /\ \A j \in 1..Len(RemoveAt(s, i)) : \E k \in 1..Len(s) : RemoveAt(s, i)[j] = s[k]
<1>1. PICK V : s \in Seq(V)
  BY DEF IsList
<1> DEFINE n == Len(s)
           a == i - 1
           b == i + 1
           l == SubSeq(s, 1, a)
           r == SubSeq(s, b, n)
<1>2. n \in Nat /\ a \in Nat /\ a <= n /\ b \in Nat /\ b >= 1 /\ i \in 1..n /\ \A j \in 1..n : s[j] \in V
  BY <1>1
<1>3. /\ l \in Seq(V) /\ Len(l) = (IF 1 <= a THEN a - 1 + 1 ELSE 0)
      /\ \A j \in 1..(a - 1 + 1) : l[j] = s[1 + j - 1]
  <2>1. \A j \in 1..a : s[j] \in V
    BY <1>2
  <2> HIDE DEF a, n
  <2> QED BY <1>1, <1>2, <2>1, SubSeqProperties
<1>4. /\ r \in Seq(V) /\ Len(r) = (IF b <= n THEN n - b + 1 ELSE 0)
      /\ \A j \in 1..(n - b + 1) : r[j] = s[b + j - 1]
  <2>1. \A j \in b..n : s[j] \in V
    BY <1>2
  <2> HIDE DEF b, n
  <2> QED BY <1>1, <1>2, <2>1, SubSeqProperties
<1> HIDE DEF l, r
<1>5. RemoveAt(s, i) = l \o r
  BY DEF RemoveAt, l, r, a, b, n
<1>6. l \o r \in Seq(V) /\ Len(l \o r) = Len(l) + Len(r) /\ Len(l) = a /\ Len(r) \in 0..n
  <2>1. l \o r \in Seq(V) /\ Len(l \o r) = Len(l) + Len(r)
    <3>1. l \in Seq(V) /\ r \in Seq(V)
      BY <1>3, <1>4
    <3> QED BY <3>1, ConcatProperties
  <2> HIDE DEF a, b, n
  <2>2. Len(l) = a
    BY <1>2, <1>3
  <2>3. Len(r) \in 0..n
    BY <1>2, <1>4
  <2> QED BY <2>1, <2>2, <2>3
<1>7. \A j \in 1..Len(l \o r) : (l \o r)[j] = IF j <= Len(l) THEN l[j] ELSE r[j - Len(l)]
  BY <1>3, <1>4
<1>8. ASSUME NEW j \in 1..Len(l \o r) PROVE \E k \in 1..n : (l \o r)[j] = s[k]
  <2>1. CASE j <= a
    <3>1. j \in 1..a /\ j \in 1..n /\ (l \o r)[j] = l[j] /\ l[j] = s[j]
      BY <1>2, <1>3, <1>6, <1>7, <1>8, <2>1
    <3> QED BY <3>1
  <2>2. CASE ~(j <= a)
    <3>1. b + (j - a) - 1 \in 1..n /\ j - a \in 1..(n - b + 1)
      BY <1>2, <1>4, <1>6, <1>8, <2>2
    <3>2. (l \o r)[j] = r[j - a] /\ r[j - a] = s[b + (j - a) - 1]
      BY <1>4, <1>6, <1>7, <2>2, <3>1
    <3> QED BY <3>1, <3>2
  <2> QED BY <2>1, <2>2
<1> QED
  BY <1>5, <1>6, <1>8 DEF IsList

\* A put carried stays one when calls are made.
LEMMA CarriedStays ==
  ASSUME NEW m, NEW ch, Carried(m, ch), calls \in Nat, calls' \in Nat, calls <= calls',
         backend' = backend, db' = db
  PROVE  Carried(m, ch)'
<1>1. m.n \in 1..calls'
  BY DEF Carried
<1> QED
  BY <1>1 DEF Carried, ChoiceCurrent, IsEnumText, Wanted

\* The wires when nothing is sent or delivered.
LEMMA WireSame ==
  ASSUME WireInv, wire' = wire, backend' = backend, db' = db, calls' \in {calls, calls + 1},
         calls' \in 0..MaxCalls, edits' \in 0..MaxEdits, faults' \in 0..MaxFaults
  PROVE  WireInv'
<1>1. calls \in Nat /\ calls' \in Nat /\ calls <= calls'
  BY DEF WireInv
<1>2. \A ch \in Channels : \A i \in 1..Len(wire[ch]) : Carried(wire[ch][i], ch)'
  BY <1>1, CarriedStays DEF WireInv
<1>3. ASSUME NEW ch \in Channels, NEW i \in 1..Len(wire'[ch]) PROVE Carried(wire[ch][i], ch)'
  BY <1>2
<1> QED
  BY <1>3 DEF WireInv

\* A put is applied or lost.
LEMMA WireLess ==
  ASSUME WireInv, NEW ch \in Channels, NEW i \in DOMAIN wire[ch],
         wire' = [wire EXCEPT ![ch] = RemoveAt(@, i)],
         backend' = backend, db' = db, calls' = calls, edits' = edits, faults' \in 0..MaxFaults
  PROVE  WireInv'
<1> DEFINE w == RemoveAt(wire[ch], i)
<1>1. IsList(wire[ch]) /\ i \in 1..Len(wire[ch])
  BY AppendToList DEF WireInv
<1>2. IsList(w) /\ \A j \in 1..Len(w) : \E k \in 1..Len(wire[ch]) : w[j] = wire[ch][k]
  BY <1>1, RemoveKeeps
<1>3. wire' = [wire EXCEPT ![ch] = w] /\ DOMAIN wire = Channels
  BY DEF WireInv
<1> HIDE DEF w
<1>4. calls \in Nat /\ calls' \in Nat /\ calls <= calls'
  BY DEF WireInv
<1>5. DOMAIN wire' = Channels /\ wire'[ch] = w /\ \A c \in Channels : c # ch => wire'[c] = wire[c]
  BY <1>3
<1>6. \A c \in Channels : IsList(wire'[c])
  BY <1>2, <1>5 DEF WireInv
<1>7. ASSUME NEW c \in Channels, NEW j \in 1..Len(wire'[c]), NEW m, m = wire'[c][j]
      PROVE  Carried(m, c)'
  <2>1. Carried(m, c)
    <3>1. CASE c = ch
      BY <1>2, <1>5, <1>7, <3>1 DEF WireInv
    <3>2. CASE c # ch
      BY <1>5, <1>7, <3>2 DEF WireInv
    <3> QED BY <3>1, <3>2
  <2> QED BY <1>4, <2>1, CarriedStays
<1>8. WireInv'
  <2>1. \A c \in Channels : \A j \in 1..Len(wire'[c]) : Carried(wire[c][j], c)'
    BY <1>7
  <2> QED BY <1>5, <1>6, <2>1 DEF WireInv
<1> QED
  BY <1>8

\* A put is sent.
LEMMA WireMore ==
  ASSUME WireInv, NEW ch \in Channels, NEW m, Carried(m, ch),
         wire' = [wire EXCEPT ![ch] = Append(@, m)],
         backend' = backend, db' = db, calls' = calls, edits' = edits, faults' = faults
  PROVE  WireInv'
<1> DEFINE w == Append(wire[ch], m)
<1>1. IsList(wire[ch])
  BY DEF WireInv
<1>2. /\ IsList(w) /\ Len(w) = Len(wire[ch]) + 1 /\ Len(wire[ch]) \in Nat
      /\ \A j \in 1..Len(wire[ch]) : w[j] = wire[ch][j]
      /\ w[Len(wire[ch]) + 1] = m
  BY <1>1, AppendToList
<1>3. wire' = [wire EXCEPT ![ch] = w] /\ DOMAIN wire = Channels
  BY DEF WireInv
<1> HIDE DEF w
<1>4. calls \in Nat /\ calls' \in Nat /\ calls <= calls'
  BY DEF WireInv
<1>5. DOMAIN wire' = Channels /\ wire'[ch] = w /\ \A c \in Channels : c # ch => wire'[c] = wire[c]
  BY <1>3
<1>6. \A c \in Channels : IsList(wire'[c])
  BY <1>2, <1>5 DEF WireInv
<1>7. ASSUME NEW c \in Channels, NEW j \in 1..Len(wire'[c]), NEW n, n = wire'[c][j]
      PROVE  Carried(n, c)'
  <2>1. Carried(n, c)
    <3>1. CASE c = ch
      <4>1. j \in 1..Len(wire[ch]) \/ j = Len(wire[ch]) + 1
        BY <1>2, <1>5, <1>7, <3>1
      <4> QED BY <1>2, <1>5, <1>7, <3>1, <4>1 DEF WireInv
    <3>2. CASE c # ch
      BY <1>5, <1>7, <3>2 DEF WireInv
    <3> QED BY <3>1, <3>2
  <2> QED BY <1>4, <2>1, CarriedStays
<1>8. \A c \in Channels : \A j \in 1..Len(wire'[c]) : Carried(wire[c][j], c)'
  BY <1>7
<1> QED
  BY <1>5, <1>6, <1>8 DEF WireInv

-----------------------------------------------------------------------------
(* The call.                                                               *)

\* A call with a channel in hand.
Running == Shaped /\ Progress /\ call.pc \in {"prepare", "commit", "wait"}

\* What no step of a call changes.
SameArguments ==
  /\ DOMAIN call' = DOMAIN call /\ call'.c = call.c /\ call'.pvs = call.pvs
  /\ calls' = calls /\ db' = db /\ backend' = backend

\* An error ends the call where it is.
LEMMA StopStep ==
  ASSUME Running, NEW e, e # PVA_OK, call.pc = "wait" => e \in {"PVA_TIMEOUT", "PVA_FAILURE"},
         call' = Stop(e), calls' = calls, db' = db, backend' = backend
  PROVE  CallInv'
<1>1. /\ DOMAIN call' = DOMAIN call /\ call'.c = call.c /\ call'.pvs = call.pvs /\ call'.k = call.k
      /\ call'.sent = call.sent /\ call'.acked = call.acked /\ call'.pc = "failed" /\ call'.err = e
  BY DEF Running, Shaped, Stop
<1>2. Shaped'
  BY <1>1 DEF Running, Shaped
<1>3. Progress'
  BY <1>1 DEF Running, Progress, Waits
<1>4. Template'
  BY <1>1 DEF Template
<1> QED
  BY <1>2, <1>3, <1>4 DEF CallInv

\* The fields of a call that goes on to the next channel, or returns.
LEMMA NextFields ==
  ASSUME Running, NEW n, n = NextChannel
  PROVE  /\ DOMAIN n = DOMAIN call /\ n.c = call.c /\ n.pvs = call.pvs /\ n.err = call.err
         /\ n.sent = call.sent /\ n.acked = call.acked
         /\ \/ call.k < Len(call.pvs) /\ n.pc = "prepare" /\ n.k = call.k + 1
            \/ call.k = Len(call.pvs) /\ n.pc = "done" /\ n.k = call.k
<1>1. call.k \in 1..Len(call.pvs) /\ call.k \in Nat /\ Len(call.pvs) \in Nat
  BY DEF Running, Shaped, Progress
<1>2. CASE call.k < Len(call.pvs)
  BY <1>2 DEF Running, Shaped, NextChannel
<1>3. CASE ~(call.k < Len(call.pvs))
  <2>1. call.k = Len(call.pvs)
    BY <1>1, <1>3
  <2> QED BY <1>3, <2>1 DEF Running, Shaped, NextChannel
<1> QED
  BY <1>2, <1>3

\* What the call has done so far is done when it goes on with the next channel.
LEMMA NextProgress ==
  ASSUME Running, SameArguments, call'.err = call.err, call'.sent \in Seq(Nat),
         call'.sent = [i \in 1..Len(call'.sent) |-> i], Len(call'.sent) = call.k,
         call'.acked = call.acked, Waits => call.k \in call.acked,
         \/ call.k < Len(call.pvs) /\ call'.pc = "prepare" /\ call'.k = call.k + 1
         \/ call.k = Len(call.pvs) /\ call'.pc = "done" /\ call'.k = call.k
  PROVE  CallInv'
<1>1. /\ call.k \in 1..Len(call.pvs) /\ call.k \in Nat /\ Len(call.pvs) \in Nat
      /\ call.acked \subseteq 1..Len(call.pvs) /\ (Waits => 1..(call.k - 1) \subseteq call.acked)
      /\ ~BadArguments(call.c) /\ call.pvs \in Seq(Channels)
  BY DEF Running, Shaped, Progress
<1>2. Waits => 1..call.k \subseteq call.acked
  BY <1>1
<1>3. Shaped'
  BY <1>1 DEF Running, Shaped, SameArguments
<1>4. Progress'
  <2>1. CASE call.k < Len(call.pvs) /\ call'.pc = "prepare" /\ call'.k = call.k + 1
    <3>1. call'.k \in 1..Len(call.pvs) /\ call'.k - 1 = call.k
      BY <1>1, <2>1
    <3> QED BY <1>1, <1>2, <2>1, <3>1 DEF Progress, SameArguments, Waits
  <2>2. CASE call.k = Len(call.pvs) /\ call'.pc = "done" /\ call'.k = call.k
    <3>1. Waits => call.acked = 1..Len(call.pvs)
      BY <1>1, <1>2, <2>2
    <3> QED BY <1>1, <2>2, <3>1 DEF Progress, SameArguments, Waits
  <2> QED BY <2>1, <2>2
<1>5. Template'
  BY DEF Template
<1> QED
  BY <1>3, <1>4, <1>5 DEF CallInv

\* A wait that ends with an acknowledgement goes on to the next channel.
LEMMA WaitOkStep ==
  ASSUME CallInv, WaitOk, calls' = calls
  PROVE  CallInv'
<1>1. Running /\ call.pc = "wait"
  BY DEF CallInv, NoCall, WaitOk, Running
<1>2. call' = NextChannel /\ db' = db /\ backend' = backend /\ call.k \in call.acked
  BY DEF WaitOk, fixed
<1>3. PICK n : n = NextChannel
  OBVIOUS
<1>4. call' = n
  BY <1>2, <1>3
<1>5. Len(call.sent) = call.k /\ call.sent \in Seq(Nat) /\ call.sent = [i \in 1..Len(call.sent) |-> i]
  BY <1>1 DEF Running, Shaped, Progress
<1>6. /\ DOMAIN n = DOMAIN call /\ n.c = call.c /\ n.pvs = call.pvs /\ n.err = call.err
      /\ n.sent = call.sent /\ n.acked = call.acked
      /\ \/ call.k < Len(call.pvs) /\ n.pc = "prepare" /\ n.k = call.k + 1
         \/ call.k = Len(call.pvs) /\ n.pc = "done" /\ n.k = call.k
  BY <1>1, <1>3, NextFields
<1>7. SameArguments
  BY <1>2, <1>4, <1>6 DEF SameArguments
<1> QED
  BY <1>1, <1>2, <1>4, <1>5, <1>6, <1>7, NextProgress

\* A put that is sent is waited for, unless it is pvaPutNoWait's.
LEMMA SentStep ==
  ASSUME Running, call.pc = "commit", call' = Sent, calls' = calls, db' = db, backend' = backend
  PROVE  CallInv'
<1>1. /\ Len(call.sent) = call.k - 1 /\ call.sent \in Seq(Nat) /\ call.k \in Nat
      /\ call.k \in 1..Len(call.pvs) /\ call.sent = [i \in 1..Len(call.sent) |-> i]
  BY DEF Running, Shaped, Progress
<1> DEFINE t == Append(call.sent, call.k)
<1>2. t \in Seq(Nat) /\ Len(t) = call.k /\ t = [i \in 1..Len(t) |-> i]
  <2>1. t \in Seq(Nat) /\ Len(t) = Len(call.sent) + 1 /\ Len(call.sent) \in Nat
        /\ DOMAIN t = 1..Len(t) /\ t = [i \in DOMAIN t |-> t[i]]
    BY <1>1
  <2>2. Len(t) = call.k
    <3> HIDE DEF t
    <3> QED BY <1>1, <2>1
  <2>3. ASSUME NEW i \in 1..Len(t) PROVE t[i] = i
    <3>1. CASE i = call.k
      BY <1>1, <3>1
    <3>2. CASE i # call.k
      <4>1. i \in 1..Len(call.sent)
        <5> HIDE DEF t
        <5> QED BY <1>1, <2>1, <2>2, <2>3, <3>2
      <4> QED BY <1>1, <4>1
    <3> QED BY <3>1, <3>2
  <2> HIDE DEF t
  <2> QED BY <2>1, <2>2, <2>3
<1> HIDE DEF t
<1>3. PICK n : n = NextChannel
  OBVIOUS
<1>4. /\ DOMAIN n = DOMAIN call /\ n.c = call.c /\ n.pvs = call.pvs /\ n.err = call.err
      /\ n.sent = call.sent /\ n.acked = call.acked
      /\ \/ call.k < Len(call.pvs) /\ n.pc = "prepare" /\ n.k = call.k + 1
         \/ call.k = Len(call.pvs) /\ n.pc = "done" /\ n.k = call.k
  BY <1>3, NextFields
<1>5. CASE ~Waits
  <2>1. call' = [n EXCEPT !.sent = t]
    <3>1. call' = [n EXCEPT !.sent = Append(@, call.k)]
      BY <1>3, <1>5 DEF Sent, Waits
    <3> QED BY <1>4, <3>1 DEF t
  <2>2. /\ DOMAIN call' = DOMAIN n /\ call'.c = n.c /\ call'.pvs = n.pvs /\ call'.err = n.err
        /\ call'.sent = t /\ call'.acked = n.acked /\ call'.pc = n.pc /\ call'.k = n.k
    BY <1>4, <2>1 DEF Running, Shaped
  <2>3. SameArguments
    BY <1>4, <2>2 DEF SameArguments
  <2> QED BY <1>2, <1>4, <1>5, <2>2, <2>3, NextProgress
<1>6. CASE Waits
  <2>1. call' = [[call EXCEPT !.pc = "wait"] EXCEPT !.sent = t]
    BY <1>6 DEF Sent, Waits, t, Running, Shaped
  <2>2. /\ DOMAIN call' = DOMAIN call /\ call'.c = call.c /\ call'.pvs = call.pvs /\ call'.err = call.err
        /\ call'.sent = t /\ call'.acked = call.acked /\ call'.pc = "wait" /\ call'.k = call.k
    BY <2>1 DEF Running, Shaped
  <2>3. Shaped'
    BY <1>2, <2>2 DEF Running, Shaped
  <2>4. Progress'
    BY <1>2, <1>6, <2>2 DEF Running, Progress, Waits
  <2>5. Template'
    BY <2>2 DEF Template
  <2> QED BY <2>3, <2>4, <2>5 DEF CallInv
<1> QED
  BY <1>5, <1>6

-----------------------------------------------------------------------------
(* What is sent.                                                           *)

\* A string a channel is given is the one the call names for it, and no string is
\* given to pvaPutStructure.
LEMMA StringFor ==
  ASSUME NEW c, ~BadArguments(c), buildPVs(c.names).pv \in Seq(Channels),
         NEW k \in 1..Len(buildPVs(c.names).pv),
         ValueFor(c, k).err = PVA_OK, Wanted(c, k).class = "char"
  PROVE  c.verb # "pvaPutStructure" /\ ValueFor(c, k).pv = Wanted(c, k)
<1> DEFINE n == Len(buildPVs(c.names).pv)
           arg == c.args[1]
<1>1. n \in Nat /\ k \in 1..n
  OBVIOUS
<1> HIDE DEF n, arg
<1>2. c.verb # "pvaPutStructure"
  <2> SUFFICES ASSUME c.verb = "pvaPutStructure" PROVE FALSE
    OBVIOUS
  <2>1. CASE wasCell(c.names)
    <3>1. arg.class = "cell" /\ Len(arg.cells) = n
      BY <2>1 DEF BadArguments, arg, n
    <3>2. Wanted(c, k) = arg.cells[IF Len(arg.cells) = 1 THEN 1 ELSE k]
      BY <2>1, <3>1 DEF Wanted, Rows, arg, isNumericOrLogical
    <3>3. Wanted(c, k) = arg.cells[k]
      BY <1>1, <3>1, <3>2
    <3>4. ValueFor(c, k) = structFor(arg, k, TRUE)
      BY <2>1 DEF ValueFor, arg
    <3>5. arg.cells[k].class = "struct"
      BY <3>4 DEF structFor, Refuse, PVA_OK
    <3> QED BY <3>3, <3>5
  <2>2. CASE ~wasCell(c.names)
    <3>1. arg.class = "struct"
      BY <2>2 DEF BadArguments, arg
    <3>2. Wanted(c, k) = arg
      BY <2>2 DEF Wanted, arg
    <3> QED BY <3>1, <3>2
  <2> QED BY <2>1, <2>2
<1>3. ValueFor(c, k) = putValueFor(arg, k, n, wasCell(c.names))
  BY <1>2 DEF ValueFor, arg, n
<1>4. CASE ~wasCell(c.names)
  BY <1>2, <1>3, <1>4 DEF putValueFor, Wanted, Done, arg
<1>5. CASE wasCell(c.names)
  <2>1. Wanted(c, k) = Rows(arg, n)[IF Len(Rows(arg, n)) = 1 THEN 1 ELSE k]
    BY <1>5 DEF Wanted, arg, n
  <2>2. CASE arg.class = "cell"
    <3>1. Rows(arg, n) = arg.cells /\ Height(arg) = Len(arg.cells)
      BY <2>2 DEF Rows, Height, isNumericOrLogical
    <3>2. putValueFor(arg, k, n, wasCell(c.names)) =
            IF Height(arg) = 1 THEN Done(arg.cells[1])
            ELSE IF Height(arg) = n THEN Done(arg.cells[k]) ELSE Refuse("PVA_INVALIDARG", arg)
      BY <1>5, <2>2 DEF putValueFor, isNumericOrLogical
    <3> QED BY <1>2, <1>3, <2>1, <3>1, <3>2 DEF Done, Refuse, PVA_OK
  <2>3. CASE isNumericOrLogical(arg)
    <3>1. arg.class # "cell" /\ arg.class # "char"
      BY <2>3 DEF isNumericOrLogical
    <3>2. Height(arg) = 1 \/ n = 1 \/ Height(arg) = n
      <4>1. putValueFor(arg, k, n, wasCell(c.names)) =
              IF Height(arg) = 1 \/ n = 1 THEN Done(arg)
              ELSE IF Height(arg) = n THEN Done(Double(<<mxNumericToDoubles(arg)[k]>>))
              ELSE Refuse("PVA_INVALIDARG", arg)
        BY <1>5, <2>3, <3>1 DEF putValueFor
      <4> QED BY <1>3, <4>1 DEF Refuse, PVA_OK
    <3>3. CASE n > 1 /\ Height(arg) > 1
      <4> DEFINE h == Height(arg)
                 rows == [i \in 1..h |-> Double(<<mxNumericToDoubles(arg)[i]>>)]
      <4>1. Rows(arg, n) = rows
        BY <2>3, <3>1, <3>3 DEF Rows
      <4>2. h = n /\ n # 1
        BY <1>1, <3>2, <3>3
      <4>3. Len(rows) = n /\ rows[k].class = "double"
        <5>1. rows[k] = Double(<<mxNumericToDoubles(arg)[k]>>)
          BY <1>1, <4>2
        <5> QED BY <1>1, <4>2, <5>1 DEF Double
      <4> HIDE DEF rows
      <4> QED BY <2>1, <4>1, <4>2, <4>3
    <3>4. CASE ~(n > 1 /\ Height(arg) > 1)
      <4>1. Rows(arg, n) = <<arg>>
        BY <3>1, <3>4 DEF Rows
      <4> QED BY <2>1, <3>1, <4>1
    <3> QED BY <3>3, <3>4
  <2>4. CASE arg.class # "cell" /\ ~isNumericOrLogical(arg)
    <3>1. Rows(arg, n) = <<arg>>
      BY <2>4 DEF Rows
    <3>2. putValueFor(arg, k, n, wasCell(c.names)) \in {Done(arg), Refuse("PVA_INVALIDARG", arg)}
      BY <1>5, <2>4 DEF putValueFor
    <3> QED BY <1>2, <1>3, <2>1, <3>1, <3>2 DEF Done, Refuse, PVA_OK
  <2> QED BY <2>2, <2>3, <2>4
<1> QED
  BY <1>2, <1>4, <1>5

\* The columns of a table are a struct.
LEMMA ColumnsStruct ==
  ASSUME NEW v, NEW args, tableColumnsFor(v, args).err = PVA_OK
  PROVE  tableColumnsFor(v, args).pv.class = "struct"
<1>1. \E m : tableColumnsFor(v, args) \in {normaliseStruct(m), Refuse("PVA_INVALIDARG", Empty)}
  BY DEF tableColumnsFor, normaliseTableInput, columnsFromPairs
<1>2. PICK m : tableColumnsFor(v, args) = normaliseStruct(m)
  BY <1>1 DEF Refuse, PVA_OK
<1>3. \/ normaliseStruct(m).err = "PVA_INVALIDARG"
      \/ \E cols : normaliseStruct(m).pv = MxStruct(m.fields, cols)
  BY DEF normaliseStruct, Done, Refuse
<1>4. \A f, cols : MxStruct(f, cols).class = "struct"
  BY DEF MxStruct
<1>5. tableColumnsFor(v, args).err # "PVA_INVALIDARG"
  BY DEF PVA_OK
<1> QED
  BY <1>2, <1>3, <1>4, <1>5

\* What a PVXS put sends to an enum channel for a value, if anything.
LEMMA EnumConverted ==
  ASSUME backend = "pvxs", NEW c, c.verb \in Verbs, c.verb # "pvaPutStructure", NEW mx, NEW cur,
         IsEnum(Field(cur, "value")), Converted(c, mx, cur).err = PVA_OK
  PROVE  Converted(c, mx, cur) = mxToPutArg(mx, cur)
<1>1. CASE c.verb \in {"pvaPut", "pvaPutNoWait"}
  BY <1>1 DEF Converted, PutArg
<1>2. CASE c.verb = "pvaPutTable"
  <2>1. Converted(c, mx, cur) = TableArg(mx, c.args, cur)
    BY <1>2 DEF Converted
  <2> DEFINE columns == tableColumnsFor(mx, c.args)
  <2>2. \/ TableArg(mx, c.args, cur) = mxToPutArg(mx, cur)
        \/ TableArg(mx, c.args, cur) = Refuse("PVA_INVALIDARG", cur)
        \/ columns.err # PVA_OK /\ TableArg(mx, c.args, cur) = Refuse(columns.err, cur)
        \/ \E e : e # PVA_OK /\ TableArg(mx, c.args, cur) = Refuse(e, cur)
        \/ columns.err = PVA_OK /\ TableArg(mx, c.args, cur) = mxToPutArg(columns.pv, cur)
    <3> HIDE DEF columns
    <3> QED BY DEF TableArg, PutArg, columns
  <2>3. columns.err = PVA_OK => mxToPutArg(columns.pv, cur).err # PVA_OK
    BY ColumnsStruct, StructNoEnum
  <2>4. \A e : e # PVA_OK => Refuse(e, cur).err # PVA_OK
    BY DEF Refuse
  <2>5. "PVA_INVALIDARG" # PVA_OK
    BY DEF PVA_OK
  <2> HIDE DEF columns
  <2> QED BY <2>1, <2>2, <2>3, <2>4, <2>5
<1> QED
  BY <1>1, <1>2 DEF Verbs

\* The put of a channel carries the index of the string the call gives it.
LEMMA MessageCurrent ==
  ASSUME IInv, Running, call.pc = "commit", backend = "pvxs", NEW put,
         put = Converted(call.c, ValueFor(call.c, call.k).pv, call.cur), put.err = PVA_OK,
         NEW m, m = Message(put.pv)
  PROVE  ChoiceCurrent(m)
<1>1. m.c = call.c /\ m.k = call.k /\ m.seen = call.seen /\ m.arg = put.pv
  BY DEF Message
<1> SUFFICES ASSUME IsEnumText(m)
             PROVE  LET choices == EnumChoices(Field(m.seen, "value"))
                        index   == EnumIndex(Field(m.arg, "value"))
                    IN  /\ index \in 0..(Len(choices) - 1)
                        /\ choices[index + 1] = getStdString(Wanted(m.c, m.k))
  BY DEF ChoiceCurrent
<1> DEFINE t == call.seen
           c == call.c
           k == call.k
           mx == ValueFor(c, k).pv
           texts == Field(t, "value").kids[2].texts
           x == Field(t, "value").kids[1]
<1>2. /\ IsStructure(t) /\ IsEnum(Field(t, "value")) /\ texts \in Seq(STRING)
      /\ Field(t, "value") = Struct("enum_t", <<"index", "choices">>, <<x, StrA(texts)>>)
      /\ Wanted(c, k).class = "char"
  BY <1>1 DEF IsEnumText
<1>3. call.cur = t /\ ValueFor(c, k).err = PVA_OK
  BY <1>2 DEF IInv, CallInv, NoCall, Template, Running, Shaped
<1>4. /\ ~BadArguments(c) /\ buildPVs(c.names).pv \in Seq(Channels)
      /\ k \in 1..Len(buildPVs(c.names).pv) /\ c.verb \in Verbs
  BY CallsAssumption DEF Running, Shaped, Progress, IInv, WireInv
<1>5. c.verb # "pvaPutStructure" /\ mx = Wanted(c, k)
  BY <1>2, <1>3, <1>4, StringFor
<1> HIDE DEF t, c, mx, texts, x
<1>6. put = mxToPutArg(mx, t)
  BY <1>2, <1>3, <1>4, <1>5, EnumConverted DEF c, mx
<1>7. LET index == EnumIndex(Field(mxToPutArg(mx, t).pv, "value"))
      IN  index \in 0..(Len(texts) - 1) /\ texts[index + 1] = getStdString(mx)
  BY <1>2, <1>5, <1>6, EnumArgument
<1>8. EnumChoices(Field(t, "value")) = texts
  BY <1>2, EnumTexts
<1> QED
  BY <1>1, <1>5, <1>6, <1>7, <1>8 DEF t, c

-----------------------------------------------------------------------------
(* The steps.                                                              *)

\* A step that leaves the call alone.
LEMMA CallSame ==
  ASSUME CallInv, call' = call, backend' = backend, db' = db, calls' = calls
  PROVE  CallInv'
<1>1. CASE call = NoCall
  BY <1>1 DEF CallInv, NoCall
<1>2. CASE Shaped /\ Progress /\ Template
  <2>1. Shaped'
    BY <1>2 DEF Shaped
  <2>2. Progress'
    BY <1>2 DEF Progress, Waits
  <2>3. Template'
    BY <1>2 DEF Template
  <2> QED BY <2>1, <2>2, <2>3 DEF CallInv
<1> QED
  BY <1>1, <1>2 DEF CallInv

\* A call that is under way is not NoCall.
LEMMA UnderWay ==
  ASSUME CallInv, call.pc \in {"prepare", "commit", "wait"}
  PROVE  Running /\ Template /\ CurrentPv \in Channels
<1>1. Shaped /\ Progress /\ Template
  BY DEF CallInv, NoCall
<1>2. CurrentPv \in Channels
  BY <1>1 DEF CurrentPv, Progress
<1> QED
  BY <1>1, <1>2 DEF Running

\* A call begins.
LEMMA BeginStep ==
  ASSUME IInv, NEW c \in Calls[db], Begin(c)
  PROVE  IInv'
<1> DEFINE pvs == buildPVs(c.names).pv
           bad == BadArguments(c)
<1>1. /\ DOMAIN call' = {"c", "pvs", "k", "cur", "seen", "sent", "acked", "pc", "err"}
      /\ call'.c = c /\ call'.pvs = pvs /\ call'.k = 1 /\ call'.sent = <<>> /\ call'.acked = {}
      /\ call'.pc = (CASE bad -> "failed" [] ~bad /\ pvs = <<>> -> "done" [] OTHER -> "prepare")
      /\ call'.err = (IF bad THEN "PVA_INVALIDARG" ELSE PVA_OK)
  BY DEF Begin
<1>2. /\ backend' = backend /\ db' = db /\ wire' = wire /\ edits' = edits /\ faults' = faults
      /\ calls < MaxCalls /\ calls' = calls + 1
  BY DEF Begin, fixed
<1>3. calls' \in 0..MaxCalls /\ calls' # 0
  BY <1>2, PutsAssumption DEF IInv, WireInv
<1>4. WireInv'
  BY <1>2, <1>3, WireSame DEF IInv, WireInv
<1>5. ~bad => pvs \in Seq(Channels)
  BY CallsAssumption DEF IInv, WireInv
<1> HIDE DEF pvs, bad
<1>6. <<>> \in Seq(Nat) /\ Len(<<>>) = 0 /\ <<>> = [i \in 1..0 |-> i]
  OBVIOUS
<1>7. Shaped'
  <2>1. call'.pc \in {"prepare", "done", "failed"} /\ (call'.pc = "failed" <=> call'.err # PVA_OK)
    BY <1>1 DEF PVA_OK
  <2> QED BY <1>1, <1>2, <1>3, <1>6, <2>1 DEF Shaped, pvs
<1>8. Progress'
  <2>1. CASE bad
    <3>1. call'.pc = "failed" /\ 1..(call'.k - 1) = {}
      BY <1>1, <2>1
    <3> QED BY <1>1, <1>6, <2>1, <3>1 DEF Progress
  <2>2. CASE ~bad /\ pvs = <<>>
    <3>1. call'.pc = "done" /\ 1..Len(pvs) = {}
      BY <1>1, <1>6, <2>2
    <3> QED BY <1>1, <1>5, <1>6, <2>2, <3>1 DEF Progress, bad
  <2>3. CASE ~bad /\ pvs # <<>>
    <3>1. call'.pc = "prepare" /\ 1..(call'.k - 1) = {} /\ 1 \in 1..Len(pvs)
      BY <1>1, <1>5, <2>3
    <3> QED BY <1>1, <1>5, <1>6, <2>3, <3>1 DEF Progress, bad
  <2> QED BY <2>1, <2>2, <2>3
<1>9. Template'
  BY <1>1 DEF Template
<1> QED
  BY <1>4, <1>7, <1>8, <1>9 DEF IInv, CallInv

\* The template or the handle is there, or the call ends.
LEMMA PrepareStep ==
  ASSUME IInv, Prepare \/ PrepareFails
  PROVE  IInv'
<1>1. Running /\ call.pc = "prepare" /\ CurrentPv \in Channels
  BY UnderWay DEF IInv, Prepare, PrepareFails
<1>2. /\ backend' = backend /\ db' = db /\ wire' = wire /\ edits' = edits /\ calls' = calls
      /\ faults' \in 0..MaxFaults
  BY PutsAssumption DEF Prepare, PrepareFails, fixed, IInv, WireInv
<1>3. WireInv'
  BY <1>2, WireSame DEF IInv, WireInv
<1>4. \/ \E e : e # PVA_OK /\ call' = Stop(e)
      \/ \E cur : /\ call' = [call EXCEPT !.pc = "commit", !.cur = cur, !.seen = pv[CurrentPv]]
                  /\ ValueFor(call.c, call.k).err = PVA_OK
                  /\ backend = "pvxs" => cur = pvaPutProto(CurrentPv)
  <2>1. "PVA_NOTCONNECTED" # PVA_OK
    BY DEF PVA_OK
  <2>2. CASE PrepareFails
    BY <2>1, <2>2 DEF PrepareFails
  <2>3. CASE Prepare
    BY <2>1, <2>3 DEF Prepare
  <2> QED BY <2>2, <2>3
<1>5. ASSUME NEW e, e # PVA_OK, call' = Stop(e) PROVE CallInv'
  BY <1>1, <1>2, <1>5, StopStep
<1>6. ASSUME NEW cur, call' = [call EXCEPT !.pc = "commit", !.cur = cur, !.seen = pv[CurrentPv]],
             ValueFor(call.c, call.k).err = PVA_OK,
             backend = "pvxs" => cur = pvaPutProto(CurrentPv)
      PROVE  CallInv'
  <2> DEFINE seen == pv[CurrentPv]
  <2>1. /\ DOMAIN call' = DOMAIN call /\ call'.c = call.c /\ call'.pvs = call.pvs /\ call'.k = call.k
        /\ call'.sent = call.sent /\ call'.acked = call.acked /\ call'.pc = "commit"
        /\ call'.err = call.err /\ call'.cur = cur /\ call'.seen = seen
    BY <1>1, <1>6 DEF Running, Shaped
  <2> HIDE DEF seen
  <2>2. Shaped'
    BY <1>1, <1>2, <2>1 DEF Running, Shaped
  <2>3. Progress'
    BY <1>1, <2>1 DEF Running, Progress, Waits
  <2>4. backend = "pvxs" /\ IsEnum(Field(seen, "value")) => cur = seen
    BY <1>6 DEF pvaPutProto, seen
  <2>5. Template'
    BY <1>2, <1>6, <2>1, <2>4 DEF Template
  <2> QED BY <2>2, <2>3, <2>5 DEF CallInv
<1> QED
  BY <1>3, <1>4, <1>5, <1>6 DEF IInv

\* The put is sent, or the conversion's error ends the call.
LEMMA CommitStep ==
  ASSUME IInv, Commit
  PROVE  IInv'
<1>1. Running /\ call.pc = "commit" /\ CurrentPv \in Channels
  BY UnderWay DEF IInv, Commit
<1>2. /\ backend' = backend /\ db' = db /\ edits' = edits /\ calls' = calls /\ faults' = faults
  BY DEF Commit, fixed
<1>3. PICK put : put = Converted(call.c, ValueFor(call.c, call.k).pv, call.cur)
  OBVIOUS
<1>4. CommitPut(CurrentPv, put)
  BY <1>3 DEF Commit, Conversion
<1>5. CASE put.err # PVA_OK \/ HandleBusy(CurrentPv)
  <2>1. PICK e : e # PVA_OK /\ call' = Stop(e) /\ wire' = wire
    BY <1>4, <1>5 DEF CommitPut, PVA_OK
  <2>2. WireInv'
    BY <1>2, <2>1, WireSame DEF IInv, WireInv
  <2>3. CallInv'
    BY <1>1, <1>2, <2>1, StopStep
  <2> QED BY <2>2, <2>3 DEF IInv
<1>6. CASE put.err = PVA_OK /\ ~HandleBusy(CurrentPv)
  <2>1. PICK arg : /\ backend = "pvxs" => arg = put.pv
                   /\ wire' = [wire EXCEPT ![CurrentPv] = Append(@, Message(arg))] /\ call' = Sent
    BY <1>4, <1>6 DEF CommitPut
  <2>2. PICK m : m = Message(arg)
    OBVIOUS
  <2>3. Carried(m, CurrentPv)
    <3>1. m.n = calls /\ m.c = call.c /\ m.k = call.k
      BY <2>2 DEF Message
    <3>2. /\ calls \in 1..calls /\ call.c \in Calls[db]
          /\ buildPVs(call.c.names).pv[call.k] = CurrentPv
      BY <1>1 DEF IInv, WireInv, Running, Shaped, CurrentPv
    <3>3. backend = "pvxs" => ChoiceCurrent(m)
      BY <1>1, <1>3, <1>6, <2>1, <2>2, MessageCurrent
    <3> QED BY <3>1, <3>2, <3>3 DEF Carried
  <2>4. WireInv'
    <3>1. PICK ch \in Channels : ch = CurrentPv
      BY <1>1
    <3> QED BY <1>2, <2>1, <2>2, <2>3, <3>1, WireMore DEF IInv
  <2>5. CallInv'
    BY <1>1, <1>2, <2>1, SentStep
  <2> QED BY <2>4, <2>5 DEF IInv
<1> QED
  BY <1>5, <1>6

\* The put cannot be made.
LEMMA CommitFailsStep ==
  ASSUME IInv, CommitFails
  PROVE  IInv'
<1>1. Running
  BY UnderWay DEF IInv, CommitFails
<1>2. /\ backend' = backend /\ db' = db /\ wire' = wire /\ edits' = edits /\ calls' = calls
      /\ faults' \in 0..MaxFaults /\ call' = Stop("PVA_FAILURE")
  BY PutsAssumption DEF CommitFails, fixed, IInv, WireInv
<1>3. WireInv'
  BY <1>2, WireSame DEF IInv, WireInv
<1>4. "PVA_FAILURE" # PVA_OK
  BY DEF PVA_OK
<1> QED
  BY <1>1, <1>2, <1>3, <1>4, StopStep DEF IInv

\* A wait ends without an answer.
LEMMA TimeoutStep ==
  ASSUME IInv, WaitTimeout
  PROVE  IInv'
<1>1. Running /\ call.pc = "wait"
  BY UnderWay DEF IInv, WaitTimeout
<1>2. /\ backend' = backend /\ db' = db /\ wire' = wire /\ edits' = edits /\ calls' = calls
      /\ faults' = faults /\ call' = Stop("PVA_TIMEOUT")
  BY DEF WaitTimeout, fixed
<1>3. WireInv'
  BY <1>2, WireSame DEF IInv, WireInv
<1>4. "PVA_TIMEOUT" # PVA_OK
  BY DEF PVA_OK
<1> QED
  BY <1>1, <1>2, <1>3, <1>4, StopStep DEF IInv

\* A put reaches the server, and its acknowledgement a call that waits for it.
LEMMA ApplyStep ==
  ASSUME IInv, NEW ch \in Channels, NEW i \in DOMAIN wire[ch], Apply(ch, i)
  PROVE  IInv'
<1>1. /\ backend' = backend /\ db' = db /\ edits' = edits /\ calls' = calls /\ faults' = faults
      /\ wire' = [wire EXCEPT ![ch] = RemoveAt(@, i)]
      /\ \/ call' = call
         \/ call.pc = "wait" /\ call' = [call EXCEPT !.acked = @ \cup {call.k}]
  BY DEF Apply, fixed, Awaited
<1>2. WireInv'
  BY <1>1, WireLess DEF IInv, WireInv
<1>3. CASE call' = call
  BY <1>1, <1>2, <1>3, CallSame DEF IInv
<1>4. CASE call.pc = "wait" /\ call' = [call EXCEPT !.acked = @ \cup {call.k}]
  <2>1. Running
    BY <1>4, UnderWay DEF IInv
  <2>2. /\ DOMAIN call' = DOMAIN call /\ call'.c = call.c /\ call'.pvs = call.pvs /\ call'.k = call.k
        /\ call'.sent = call.sent /\ call'.acked = call.acked \cup {call.k} /\ call'.pc = "wait"
        /\ call'.err = call.err
    BY <1>4, <2>1 DEF Running, Shaped
  <2>3. Shaped'
    BY <1>1, <1>4, <2>1, <2>2 DEF Running, Shaped
  <2>4. Progress'
    BY <1>4, <2>1, <2>2 DEF Running, Progress, Waits
  <2>5. Template'
    BY <2>2 DEF Template
  <2> QED BY <1>2, <2>3, <2>4, <2>5 DEF IInv, CallInv
<1> QED
  BY <1>1, <1>3, <1>4

\* A put is lost, and its call fails when it waits for it.
LEMMA LoseStep ==
  ASSUME IInv, NEW ch \in Channels, NEW i \in DOMAIN wire[ch], Lose(ch, i)
  PROVE  IInv'
<1>1. /\ backend' = backend /\ db' = db /\ edits' = edits /\ calls' = calls
      /\ faults' \in 0..MaxFaults
      /\ wire' = [wire EXCEPT ![ch] = RemoveAt(@, i)]
      /\ \/ call' = call
         \/ call.pc = "wait" /\ call' = Stop("PVA_FAILURE")
  BY PutsAssumption DEF Lose, fixed, Awaited, IInv, WireInv
<1>2. WireInv'
  BY <1>1, WireLess DEF IInv, WireInv
<1>3. CASE call' = call
  BY <1>1, <1>2, <1>3, CallSame DEF IInv
<1>4. CASE call.pc = "wait" /\ call' = Stop("PVA_FAILURE")
  <2>1. Running
    BY <1>4, UnderWay DEF IInv
  <2>2. "PVA_FAILURE" # PVA_OK
    BY DEF PVA_OK
  <2> QED BY <1>1, <1>2, <1>4, <2>1, <2>2, StopStep DEF IInv
<1> QED
  BY <1>1, <1>3, <1>4

\* The other client writes.
LEMMA EditStep ==
  ASSUME IInv, NEW ch \in Channels, Edit(ch)
  PROVE  IInv'
<1>1. /\ backend' = backend /\ db' = db /\ wire' = wire /\ calls' = calls
      /\ faults' = faults /\ call' = call /\ edits' \in 0..MaxEdits
  BY PutsAssumption DEF Edit, fixed, IInv, WireInv
<1> QED
  BY <1>1, WireSame, CallSame DEF IInv, WireInv

\* The invariant always holds.
LEMMA Invariance == Spec => []IInv
<1>1. ASSUME Init PROVE IInv
  <2>1. WireInv
    <3>1. IsList(<<>>) /\ Len(<<>>) = 0 /\ 1..0 = {}
      <4>1. <<>> \in Seq(Nat)
        OBVIOUS
      <4>2. IsList(<<>>)
        BY <4>1 DEF IsList
      <4> QED BY <4>2
    <3>2. \A ch \in Channels : wire[ch] = <<>>
      BY <1>1 DEF Init
    <3>3. \A ch \in Channels : IsList(wire[ch]) /\ 1..Len(wire[ch]) = {}
      BY <3>1, <3>2
    <3> QED BY <1>1, <3>3, PutsAssumption DEF Init, WireInv
  <2> QED BY <1>1, <2>1 DEF Init, IInv, CallInv
<1>2. ASSUME IInv, [Next]_vars PROVE IInv'
  <2>1. CASE UNCHANGED vars
    BY <1>2, <2>1, WireSame, CallSame DEF vars, IInv, WireInv
  <2>2. CASE WaitOk
    <3>1. /\ backend' = backend /\ db' = db /\ wire' = wire /\ edits' = edits /\ calls' = calls
          /\ faults' = faults
      BY <2>2 DEF WaitOk, fixed
    <3> QED BY <1>2, <2>2, <3>1, WireSame, WaitOkStep DEF IInv, WireInv
  <2> QED
    BY <1>2, <2>1, <2>2, BeginStep, PrepareStep, CommitStep, CommitFailsStep, TimeoutStep,
       ApplyStep, LoseStep, EditStep DEF Next
<1> QED
  BY <1>1, <1>2, PTL DEF Spec

\* The puts on the wires.
LEMMA OnWireCarried ==
  ASSUME WireInv, NEW ch \in Channels, NEW m \in OnWire(ch)
  PROVE  Carried(m, ch)
<1>1. DOMAIN wire[ch] = 1..Len(wire[ch])
  BY AppendToList DEF WireInv
<1> QED
  BY <1>1 DEF OnWire, WireInv

\* The wires carry puts of calls that were made, each to the channel it names; a
\* call fails with a code and returns without one.
THEOREM Typed == Spec => []TypeOK
<1>1. ASSUME IInv PROVE TypeOK
  <2>1. \A ch \in Channels : \A m \in OnWire(ch) :
          m.n \in 1..calls /\ m.c \in Calls[db] /\ buildPVs(m.c.names).pv[m.k] = ch
    <3>1. \A ch \in Channels : \A m \in OnWire(ch) : Carried(m, ch)
      BY <1>1, OnWireCarried DEF IInv
    <3> QED BY <3>1 DEF Carried
  <2>2. /\ call.pc \in {"idle", "prepare", "commit", "wait", "done", "failed"}
        /\ call.pc = "failed" <=> call.err # PVA_OK
    BY <1>1 DEF IInv, CallInv, NoCall, Shaped
  <2> QED BY <1>1, <2>1, <2>2 DEF TypeOK, IInv, WireInv
<1> QED
  BY <1>1, Invariance, PTL

\* The channels of a list are written one after the other up to the first failure.
THEOREM InOrder == Spec => []WrittenInOrder
<1>1. ASSUME IInv PROVE WrittenInOrder
  <2> SUFFICES ASSUME call.pc # "idle" PROVE WrittenInOrder
    BY DEF WrittenInOrder
  <2>1. Shaped /\ Progress
    BY <1>1 DEF IInv, CallInv, NoCall
  <2>2. call.pc = "done" => DOMAIN call.pvs = 1..Len(call.pvs)
    BY <2>1 DEF Progress
  <2>3. call.pc = "failed" => Len(call.sent) \in {call.k - 1, call.k}
    BY <2>1 DEF Progress
  <2>4. call.k \in Nat /\ (Len(call.sent) = call.k - 1 => Len(call.sent) # call.k)
    BY <2>1 DEF Shaped
  <2> QED BY <2>1, <2>2, <2>3, <2>4 DEF WrittenInOrder, Shaped, Progress
<1> QED
  BY <1>1, Invariance, PTL

\* The index a PVXS put sends for a choice string denotes that string among the
\* choices the server had when the channel's turn came.
THEOREM ChoicesCurrent == Spec => []EnumChoiceCurrent
<1>1. ASSUME IInv PROVE EnumChoiceCurrent
  BY <1>1, OnWireCarried DEF IInv, EnumChoiceCurrent, Carried, ChoiceCurrent
<1> QED
  BY <1>1, Invariance, PTL
=============================================================================
