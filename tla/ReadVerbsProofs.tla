--------------------------- MODULE ReadVerbsProofs ---------------------------
(* Proofs about the read verbs and the monitor cache, for every database,  *)
(* every request and list of names, every bound and both backends.         *)
EXTENDS ReadVerbs, ConvertProofs

-----------------------------------------------------------------------------
(* The invariant.                                                          *)

Monitors ==
  [on : {FALSE}]
    \cup [on : {TRUE}, req : Requests, started : BOOLEAN, queue : Seq(Nat), latest : Nat]

ReadsTyped ==
  /\ backend \in Backends /\ db \in DOMAIN Layouts /\ calls \in 0..MaxCalls
  /\ ver \in [Channels -> Nat] /\ announced \in [Channels -> Nat] /\ opened \in [Channels -> Nat]
  /\ up \in [Channels -> BOOLEAN] /\ mon \in [Channels -> Monitors]

\* A queue holds ever newer samples between two.
Rising(q, lo, hi) ==
  /\ \A i \in 1..Len(q) : lo <= q[i] /\ q[i] <= hi
  /\ \A i, j \in 1..Len(q) : i <= j => q[i] <= q[j]

\* What a subscription holds is not older than what the server held when the
\* monitor was set, and its queue not older than its cached sample.
SubscriptionOK(m, since, now) ==
  /\ Len(m.queue) <= MaxQueue
  /\ m.latest <= now /\ (m.latest # 0 => since <= m.latest)
  /\ Rising(m.queue, m.latest, now) /\ Rising(m.queue, since, now)

\* The sample last announced is the one in the cache.
CacheInv ==
  \A ch \in Channels :
    /\ ver[ch] \in 1..Len(Samples[ch]) /\ opened[ch] <= ver[ch]
    /\ announced[ch] = IF mon[ch].on THEN mon[ch].latest ELSE 0
    /\ mon[ch].on => SubscriptionOK(mon[ch], opened[ch], ver[ch])

\* A call is one MATLAB may make, and has an entry for each name it is done with.
CallShape ==
  /\ call = [verb |-> call.verb, pc |-> call.pc, pvs |-> call.pvs, cell |-> call.cell,
             req |-> call.req, type |-> call.type, poll |-> call.poll, got |-> call.got,
             out |-> call.out]
  /\ call.verb \in Verbs /\ call.pc \in {"run", "done", "failed"} /\ call.pvs \in Seq(Channels)
  /\ call.cell \in BOOLEAN /\ call.req \in Requests /\ call.poll \in BOOLEAN
CallInv ==
  /\ call.pc = "idle" => call = NoCall
  /\ call.pc # "idle" =>
       /\ CallShape
       /\ IsList(call.got) /\ Len(call.got) <= Len(call.pvs)
       /\ call.pc = "done" => Len(call.got) = Len(call.pvs)
       /\ \A i \in 1..Len(call.got) :
            LET e == call.got[i]
            IN  e.ch = call.pvs[i] /\ e.v \in 1..Len(Samples[e.ch]) /\ e.cached \in BOOLEAN

IInv == ReadsTyped /\ CacheInv /\ CallInv

-----------------------------------------------------------------------------
(* Queues.                                                                 *)

\* What a subscription delivers keeps its queue rising, whether it is appended or
\* takes the place of the last sample of a full queue.
LEMMA PushRises ==
  ASSUME NEW q \in Seq(Nat), NEW v \in Nat, NEW lo \in Nat, NEW hi \in Nat,
         Len(q) <= MaxQueue, Rising(q, lo, hi), hi <= v, lo <= v
  PROVE  /\ Push(q, v) \in Seq(Nat) /\ Len(Push(q, v)) <= MaxQueue
         /\ Rising(Push(q, v), lo, v)
<1> DEFINE f == IF Len(q) < MaxQueue THEN q ELSE Front(q)
<1>1. MaxQueue \in Nat \ {0} /\ Len(q) \in Nat
  BY ReadsAssumption
<1>2. f \in Seq(Nat) /\ Len(f) < MaxQueue /\ Len(f) <= Len(q) /\ \A i \in 1..Len(f) : f[i] = q[i]
  <2>1. CASE Len(q) < MaxQueue
    BY <2>1, <1>1
  <2>2. CASE ~(Len(q) < MaxQueue)
    <3>1. Len(q) # 0
      BY <1>1, <2>2
    <3>2. Front(q) \in Seq(Nat) /\ Len(Front(q)) = Len(q) - 1
          /\ \A i \in 1..(Len(q) - 1) : Front(q)[i] = q[i]
      <4> DEFINE n == Len(q) - 1
      <4>1. n \in Nat /\ \A i \in 1..n : q[i] \in Nat
        BY <1>1, <3>1
      <4> HIDE DEF n
      <4> DEFINE r == SubSeq(q, 1, n)
      <4>2. r \in Seq(Nat) /\ Len(r) = (IF 1 <= n THEN n - 1 + 1 ELSE 0)
            /\ \A i \in 1..(n - 1 + 1) : r[i] = q[1 + i - 1]
        BY <4>1, SubSeqProperties
      <4> HIDE DEF r
      <4>3. n - 1 + 1 = n /\ \A i \in 1..n : 1 + i - 1 = i
        BY <4>1
      <4>4. r \in Seq(Nat) /\ Len(r) = n /\ \A i \in 1..n : r[i] = q[i]
        BY <4>1, <4>2, <4>3
      <4> QED BY <4>4 DEF n, r, Front
    <3> QED BY <1>1, <2>2, <3>2
  <2> QED BY <2>1, <2>2
<1>3. Push(q, v) = Append(f, v)
  BY DEF Push
<1> HIDE DEF f
<1> DEFINE p == Append(f, v)
<1>4. p \in Seq(Nat) /\ Len(p) = Len(f) + 1 /\ Len(f) \in Nat
  BY <1>2
<1>5. (\A i \in 1..Len(f) : p[i] = q[i]) /\ p[Len(f) + 1] = v
  BY <1>2
<1>6. \A i \in 1..Len(p) : (i \in 1..Len(f) /\ p[i] = q[i]) \/ (i = Len(f) + 1 /\ p[i] = v)
  BY <1>4, <1>5
<1>7. \A i \in 1..Len(f) : i \in 1..Len(q) /\ q[i] \in Nat
  BY <1>1, <1>2, <1>4
<1> HIDE DEF p
<1>8. ASSUME NEW i \in 1..Len(p) PROVE lo <= p[i] /\ p[i] <= v
  <2>1. CASE i \in 1..Len(f) /\ p[i] = q[i]
    BY <1>7, <2>1 DEF Rising
  <2> QED BY <1>6, <1>8, <2>1
<1>9. ASSUME NEW i \in 1..Len(p), NEW j \in 1..Len(p), i <= j PROVE p[i] <= p[j]
  <2>1. CASE j \in 1..Len(f) /\ p[j] = q[j]
    <3>1. i \in 1..Len(f) /\ p[i] = q[i]
      BY <1>4, <1>6, <1>9, <2>1
    <3> QED BY <1>7, <1>9, <2>1, <3>1 DEF Rising
  <2>2. CASE j = Len(f) + 1 /\ p[j] = v
    BY <1>8, <2>2
  <2> QED BY <1>6, <1>9, <2>1, <2>2
<1>10. Rising(p, lo, v)
  BY <1>8, <1>9 DEF Rising
<1> QED
  BY <1>1, <1>2, <1>3, <1>4, <1>10 DEF p

\* What is waiting is not older than the cached sample, and its last is newest.
LEMMA LastRises ==
  ASSUME NEW q \in Seq(Nat), q # <<>>, NEW lo, NEW hi, Rising(q, lo, hi)
  PROVE  /\ Last(q) \in Nat /\ lo <= Last(q) /\ Last(q) <= hi
         /\ \A a : Rising(<<>>, a, hi)
<1>1. Len(q) \in 1..Len(q) /\ q[Len(q)] \in Nat
  OBVIOUS
<1> QED
  BY <1>1 DEF Last, Rising

\* Taking the oldest of the samples that wait leaves none that is older.
LEMMA HeadRises ==
  ASSUME NEW q \in Seq(Nat), q # <<>>, NEW lo \in Nat, NEW hi \in Nat, Rising(q, lo, hi)
  PROVE  /\ Head(q) \in Nat /\ lo <= Head(q) /\ Head(q) <= hi
         /\ Tail(q) \in Seq(Nat) /\ Len(Tail(q)) = Len(q) - 1
         /\ Rising(Tail(q), lo, hi) /\ Rising(Tail(q), Head(q), hi)
<1> DEFINE t == Tail(q)
<1>1. Len(q) \in Nat \ {0} /\ Head(q) = q[1] /\ 1 \in 1..Len(q) /\ \A i \in 1..Len(q) : q[i] \in Nat
  OBVIOUS
<1>2. t \in Seq(Nat) /\ Len(t) = Len(q) - 1 /\ \A i \in 1..Len(t) : t[i] = q[i + 1]
  OBVIOUS
<1> HIDE DEF t
<1>3. \A i \in 1..Len(t) : i + 1 \in 1..Len(q) /\ 1 <= i + 1
  BY <1>1, <1>2
<1>4. \A i \in 1..Len(t) : lo <= t[i] /\ q[1] <= t[i] /\ t[i] <= hi
  BY <1>1, <1>2, <1>3 DEF Rising
<1>5. ASSUME NEW i \in 1..Len(t), NEW j \in 1..Len(t), i <= j PROVE t[i] <= t[j]
  <2>1. i + 1 \in 1..Len(q) /\ j + 1 \in 1..Len(q) /\ i + 1 <= j + 1
    BY <1>3, <1>5
  <2> QED BY <1>2, <2>1 DEF Rising
<1>6. Rising(t, lo, hi) /\ Rising(t, q[1], hi)
  BY <1>4, <1>5 DEF Rising
<1>7. q[1] \in Nat /\ lo <= q[1] /\ q[1] <= hi
  BY <1>1 DEF Rising
<1> QED
  BY <1>1, <1>2, <1>6, <1>7 DEF t

-----------------------------------------------------------------------------
(* The server, the subscriptions and the monitor verbs.                    *)

\* A channel without a monitor, or a subscription with all it keeps.
LEMMA MonitorShape ==
  ASSUME NEW m \in Monitors
  PROVE  /\ m.on \in BOOLEAN
         /\ m.on => /\ m \in [on : {TRUE}, req : Requests, started : BOOLEAN, queue : Seq(Nat),
                              latest : Nat]
                    /\ m.req \in Requests /\ m.queue \in Seq(Nat) /\ m.latest \in Nat
         /\ ~m.on => m = NoMonitor
BY DEF Monitors, NoMonitor

\* One channel's subscription, version and histories change as they may.
LEMMA OneChannel ==
  ASSUME ReadsTyped, CacheInv, NEW ch \in Channels, NEW m \in Monitors,
         NEW v \in Nat, NEW a \in Nat, NEW o \in Nat,
         mon' = [mon EXCEPT ![ch] = m], ver' = [ver EXCEPT ![ch] = v],
         announced' = [announced EXCEPT ![ch] = a], opened' = [opened EXCEPT ![ch] = o],
         up' \in [Channels -> BOOLEAN], db' = db, backend' = backend, calls' = calls,
         v \in 1..Len(Samples[ch]), o <= v, a = IF m.on THEN m.latest ELSE 0,
         m.on => SubscriptionOK(m, o, v)
  PROVE  ReadsTyped' /\ CacheInv'
<1>1. ReadsTyped'
  BY DEF ReadsTyped
<1>2. Samples' = Samples
  BY DEF Samples
<1>3. ASSUME NEW c \in Channels
      PROVE  /\ ver'[c] \in 1..Len(Samples[c]) /\ opened'[c] <= ver'[c]
             /\ announced'[c] = IF mon'[c].on THEN mon'[c].latest ELSE 0
             /\ mon'[c].on => SubscriptionOK(mon'[c], opened'[c], ver'[c])
  <2>1. CASE c = ch
    <3>1. mon'[c] = m /\ ver'[c] = v /\ announced'[c] = a /\ opened'[c] = o
      BY <2>1 DEF ReadsTyped
    <3> QED BY <2>1, <3>1
  <2>2. CASE c # ch
    <3>1. /\ mon'[c] = mon[c] /\ ver'[c] = ver[c] /\ announced'[c] = announced[c]
          /\ opened'[c] = opened[c]
      BY <2>2 DEF ReadsTyped
    <3> QED BY <3>1 DEF CacheInv
  <2> QED BY <2>1, <2>2
<1> QED
  BY <1>1, <1>2, <1>3 DEF CacheInv

\* A function at a point it does not change.
LEMMA ExceptSame ==
  ASSUME NEW S, NEW T, NEW f \in [S -> T], NEW x \in S
  PROVE  [f EXCEPT ![x] = f[x]] = f
OBVIOUS

\* A sample posted by the server is queued by a subscription that is up.
LEMMA PostStep ==
  ASSUME ReadsTyped, CacheInv, NEW ch \in Channels, Post(ch)
  PROVE  ReadsTyped' /\ CacheInv'
<1> DEFINE v == ver[ch] + 1
           q == Push(mon[ch].queue, v)
           m == IF mon[ch].on /\ mon[ch].started THEN [mon[ch] EXCEPT !.queue = q] ELSE mon[ch]
<1>1. ver[ch] \in Nat /\ v \in Nat /\ opened[ch] \in Nat /\ announced[ch] \in Nat /\ mon[ch] \in Monitors
  BY DEF ReadsTyped
<1>2. v \in 1..Len(Samples[ch]) /\ opened[ch] <= ver[ch]
  <2>1. Len(Samples[ch]) \in Nat
    BY LayoutsAssumption DEF ReadsTyped, Samples
  <2> QED BY <1>1, <2>1 DEF Post, CacheInv
<1> DEFINE a == announced[ch]
           o == opened[ch]
<1>5. /\ announced' = [announced EXCEPT ![ch] = a] /\ opened' = [opened EXCEPT ![ch] = o]
      /\ ver' = [ver EXCEPT ![ch] = v] /\ up' \in [Channels -> BOOLEAN]
      /\ db' = db /\ backend' = backend /\ calls' = calls
  <2>1. announced' = announced /\ opened' = opened /\ up' = up
    BY DEF Post, server
  <2>2. announced = [announced EXCEPT ![ch] = a] /\ opened = [opened EXCEPT ![ch] = o]
    BY ExceptSame DEF ReadsTyped
  <2> QED BY <2>1, <2>2 DEF Post, server, ReadsTyped
<1>3. CASE ~mon[ch].on
  <2>1. m = mon[ch]
    BY <1>3
  <2>2. mon' = [mon EXCEPT ![ch] = m]
    BY <1>3 DEF Post, ReadsTyped
  <2>3. a = 0 /\ o <= v
    BY <1>1, <1>2, <1>3 DEF CacheInv
  <2> HIDE DEF m, q, v, a, o
  <2> QED
    BY <1>1, <1>2, <1>3, <1>5, <2>1, <2>2, <2>3, OneChannel DEF a, o
<1>4. CASE mon[ch].on
  <2>1. mon[ch].queue \in Seq(Nat) /\ mon[ch].latest \in Nat
    BY <1>1, <1>4, MonitorShape
  <2>2. SubscriptionOK(mon[ch], opened[ch], ver[ch])
    BY <1>4 DEF CacheInv
  <2>3. /\ q \in Seq(Nat) /\ Len(q) <= MaxQueue
        /\ Rising(q, mon[ch].latest, v) /\ Rising(q, opened[ch], v)
    <3>1. ver[ch] <= v /\ mon[ch].latest <= v /\ opened[ch] <= v
      BY <1>1, <1>2, <2>1, <2>2 DEF SubscriptionOK
    <3> HIDE DEF v
    <3> QED BY <1>1, <2>1, <2>2, <3>1, PushRises DEF SubscriptionOK
  <2>4. /\ m \in Monitors /\ m.on = TRUE /\ m.latest = mon[ch].latest
        /\ m.queue = q \/ m.queue = mon[ch].queue
    <3> HIDE DEF q
    <3> QED BY <1>1, <1>4, <2>3, MonitorShape DEF Monitors
  <2>5. Rising(mon[ch].queue, mon[ch].latest, v) /\ Rising(mon[ch].queue, opened[ch], v)
    <3>1. \A i \in 1..Len(mon[ch].queue) : mon[ch].queue[i] \in Nat
      BY <2>1
    <3> QED BY <1>1, <2>2, <3>1 DEF SubscriptionOK, Rising
  <2>6. SubscriptionOK(m, opened[ch], v)
    <3>1. m.latest <= v /\ (m.latest # 0 => opened[ch] <= m.latest) /\ Len(mon[ch].queue) <= MaxQueue
      BY <1>1, <2>1, <2>2, <2>4 DEF SubscriptionOK
    <3> HIDE DEF m, q, v
    <3> QED BY <2>3, <2>4, <2>5, <3>1 DEF SubscriptionOK
  <2>7. mon' = [mon EXCEPT ![ch] = m]
    BY <1>4 DEF Post, ReadsTyped
  <2>8. announced[ch] = m.latest
    BY <1>4, <2>4 DEF CacheInv
  <2>9. opened[ch] <= v
    BY <1>1, <1>2
  <2> HIDE DEF m, q, v
  <2> QED
    BY <1>1, <1>2, <1>5, <2>4, <2>6, <2>7, <2>8, <2>9, OneChannel
<1> QED
  BY <1>1, <1>3, <1>4, MonitorShape

\* The same when the server's sample stays, and with it the histories or not.
LEMMA OneMonitor ==
  ASSUME ReadsTyped, CacheInv, NEW ch \in Channels, NEW m \in Monitors, NEW a \in Nat, NEW o \in Nat,
         mon' = [mon EXCEPT ![ch] = m], ver' = ver,
         announced' = [announced EXCEPT ![ch] = a], opened' = [opened EXCEPT ![ch] = o],
         up' \in [Channels -> BOOLEAN], db' = db, backend' = backend, calls' = calls,
         o <= ver[ch], a = IF m.on THEN m.latest ELSE 0, m.on => SubscriptionOK(m, o, ver[ch])
  PROVE  ReadsTyped' /\ CacheInv'
<1> DEFINE v == ver[ch]
<1>1. v \in Nat /\ v \in 1..Len(Samples[ch])
  BY DEF ReadsTyped, CacheInv
<1>2. ver' = [ver EXCEPT ![ch] = v]
  BY ExceptSame DEF ReadsTyped
<1> QED
  BY <1>1, <1>2, OneChannel

\* What a subscription that changes its queue or its state keeps.
LEMMA Resubscribed ==
  ASSUME NEW m \in Monitors, m.on, NEW q \in Seq(Nat), NEW b \in BOOLEAN
  PROVE  LET n == [m EXCEPT !.started = b, !.queue = q]
         IN  /\ n \in Monitors /\ n.on = TRUE /\ n.latest = m.latest /\ n.queue = q /\ n.req = m.req
             /\ [m EXCEPT !.started = b] = [m EXCEPT !.started = b, !.queue = m.queue]
BY DEF Monitors

\* A subscription's first sample is queued.
LEMMA SnapshotStep ==
  ASSUME ReadsTyped, CacheInv, NEW ch \in Channels, Snapshot(ch)
  PROVE  ReadsTyped' /\ CacheInv'
<1> DEFINE v == ver[ch]
           a == announced[ch]
           o == opened[ch]
           q == Push(mon[ch].queue, v)
           m == [mon[ch] EXCEPT !.started = TRUE, !.queue = q]
<1>1. v \in Nat /\ a \in Nat /\ o \in Nat /\ mon[ch] \in Monitors /\ mon[ch].on
  BY DEF ReadsTyped, Snapshot
<1>2. mon[ch].queue \in Seq(Nat) /\ mon[ch].latest \in Nat
  BY <1>1, MonitorShape
<1>3. SubscriptionOK(mon[ch], o, v) /\ o <= v /\ a = mon[ch].latest
  BY <1>1 DEF CacheInv
<1>4. /\ q \in Seq(Nat) /\ Len(q) <= MaxQueue
      /\ Rising(q, mon[ch].latest, v) /\ Rising(q, o, v)
  <2> HIDE DEF v, o
  <2> QED BY <1>1, <1>2, <1>3, PushRises DEF SubscriptionOK
<1>5. m \in Monitors /\ m.on = TRUE /\ m.latest = mon[ch].latest /\ m.queue = q
  <2> HIDE DEF q
  <2> QED BY <1>1, <1>4, Resubscribed
<1>6. SubscriptionOK(m, o, v)
  <2> HIDE DEF m, q
  <2> QED BY <1>3, <1>4, <1>5 DEF SubscriptionOK
<1>7. mon' = [mon EXCEPT ![ch] = m]
  BY DEF Snapshot, ReadsTyped
<1>8. announced' = [announced EXCEPT ![ch] = a] /\ opened' = [opened EXCEPT ![ch] = o]
  BY ExceptSame DEF Snapshot, ReadsTyped
<1>9. ver' = ver /\ up' \in [Channels -> BOOLEAN] /\ db' = db /\ backend' = backend /\ calls' = calls
  BY DEF Snapshot, server, ReadsTyped
<1> HIDE DEF m, q, a, o
<1> QED
  BY <1>1, <1>3, <1>5, <1>6, <1>7, <1>8, <1>9, OneMonitor

\* A connection that is lost takes no sample with it.
LEMMA DisconnectStep ==
  ASSUME ReadsTyped, CacheInv, NEW ch \in Channels, Disconnect(ch)
  PROVE  ReadsTyped' /\ CacheInv'
<1> DEFINE a == announced[ch]
           o == opened[ch]
           m == IF mon[ch].on THEN [mon[ch] EXCEPT !.started = FALSE] ELSE mon[ch]
<1>1. a \in Nat /\ o \in Nat /\ mon[ch] \in Monitors /\ o <= ver[ch]
  BY DEF ReadsTyped, CacheInv
<1>2. /\ m \in Monitors /\ m.on = mon[ch].on
      /\ m.on => m.latest = mon[ch].latest /\ m.queue = mon[ch].queue
  <2>1. CASE mon[ch].on
    <3> DEFINE q == mon[ch].queue
               n == [mon[ch] EXCEPT !.started = FALSE, !.queue = q]
    <3>1. q \in Seq(Nat) /\ FALSE \in BOOLEAN
      BY <1>1, <2>1, MonitorShape
    <3>2. n \in Monitors /\ n.on = TRUE /\ n.latest = mon[ch].latest /\ n.queue = q
          /\ [mon[ch] EXCEPT !.started = FALSE] = n
      BY <1>1, <2>1, <3>1, Resubscribed
    <3> HIDE DEF n
    <3> QED BY <2>1, <3>2
  <2>2. CASE ~mon[ch].on
    BY <1>1, <2>2
  <2> QED BY <2>1, <2>2
<1>3. a = (IF m.on THEN m.latest ELSE 0) /\ (m.on => SubscriptionOK(m, o, ver[ch]))
  <2> HIDE DEF m
  <2> QED BY <1>2 DEF CacheInv, SubscriptionOK
<1>4. mon' = [mon EXCEPT ![ch] = m]
  BY ExceptSame DEF Disconnect, ReadsTyped
<1>5. announced' = [announced EXCEPT ![ch] = a] /\ opened' = [opened EXCEPT ![ch] = o]
  BY ExceptSame DEF Disconnect, ReadsTyped
<1>6. ver' = ver /\ up' \in [Channels -> BOOLEAN] /\ db' = db /\ backend' = backend /\ calls' = calls
  BY DEF Disconnect, ReadsTyped
<1> HIDE DEF m, a, o
<1> QED
  BY <1>1, <1>2, <1>3, <1>4, <1>5, <1>6, OneMonitor

\* Nothing is cached of a monitor that is set anew.
LEMMA SetMonitorStep ==
  ASSUME ReadsTyped, CacheInv, NEW ch \in Channels, NEW req \in Requests, SetMonitor(ch, req)
  PROVE  ReadsTyped' /\ CacheInv'
<1> DEFINE o == ver[ch]
           m == IF backend = "pvxs" \/ (up[ch] /\ Selects(ch, req)) THEN Subscription(req) ELSE NoMonitor
<1>1. o \in Nat
  BY DEF ReadsTyped
<1>2. m \in Monitors /\ (m.on => m.latest = 0 /\ m.queue = <<>>)
  <2>1. Subscription(req) \in Monitors /\ Subscription(req).on = TRUE
        /\ Subscription(req).latest = 0 /\ Subscription(req).queue = <<>>
    <3>1. <<>> \in Seq(Nat) /\ 0 \in Nat
      OBVIOUS
    <3> QED BY <3>1 DEF Monitors, Subscription
  <2>2. NoMonitor \in Monitors /\ NoMonitor.on = FALSE
    BY DEF Monitors, NoMonitor
  <2> QED BY <2>1, <2>2
<1>3. (IF m.on THEN m.latest ELSE 0) = 0 /\ (m.on => SubscriptionOK(m, o, o))
  <2>1. MaxQueue \in Nat /\ Len(<<>>) = 0
    BY ReadsAssumption
  <2> HIDE DEF m
  <2> QED BY <1>1, <1>2, <2>1 DEF SubscriptionOK, Rising
<1>4. mon' = [mon EXCEPT ![ch] = m]
  BY DEF SetMonitor, pvaMonitorSet
<1>5. announced' = [announced EXCEPT ![ch] = 0] /\ opened' = [opened EXCEPT ![ch] = o]
  BY DEF SetMonitor
<1>6. ver' = ver /\ up' \in [Channels -> BOOLEAN] /\ db' = db /\ backend' = backend /\ calls' = calls
  BY DEF SetMonitor, server, ReadsTyped
<1>7. 0 \in Nat /\ o <= o
  BY <1>1
<1> HIDE DEF m
<1> QED
  BY <1>1, <1>2, <1>3, <1>4, <1>5, <1>6, <1>7, OneMonitor

\* A queue that is drained leaves its newest sample in the cache.
LEMMA DrainOK ==
  ASSUME NEW m \in Monitors, m.on, m.queue # <<>>, NEW o \in Nat, NEW v \in Nat,
         SubscriptionOK(m, o, v)
  PROVE  LET n == drainQueue(m)
         IN  /\ n \in Monitors /\ n.on = TRUE /\ n.latest = Last(m.queue) /\ n.latest >= m.latest
             /\ SubscriptionOK(n, o, v)
<1> DEFINE n == drainQueue(m)
<1>1. /\ m \in [on : {TRUE}, req : Requests, started : BOOLEAN, queue : Seq(Nat), latest : Nat]
      /\ m.queue \in Seq(Nat) /\ m.latest \in Nat
  BY MonitorShape
<1>2. Last(m.queue) \in Nat /\ m.latest <= Last(m.queue) /\ o <= Last(m.queue) /\ Last(m.queue) <= v
  BY <1>1, LastRises DEF SubscriptionOK
<1>3. <<>> \in Seq(Nat) /\ Len(<<>>) = 0 /\ MaxQueue \in Nat
  BY ReadsAssumption
<1>4. n \in Monitors /\ n.on = TRUE /\ n.latest = Last(m.queue) /\ n.queue = <<>>
  BY <1>1, <1>2, <1>3 DEF drainQueue, Monitors
<1>5. SubscriptionOK(n, o, v)
  <2> HIDE DEF n
  <2> QED BY <1>2, <1>3, <1>4 DEF SubscriptionOK, Rising
<1> QED
  BY <1>2, <1>4, <1>5

\* An event that is taken leaves its sample in the cache.
LEMMA TakeOK ==
  ASSUME NEW m \in Monitors, m.on, m.queue # <<>>, NEW o \in Nat, NEW v \in Nat,
         SubscriptionOK(m, o, v)
  PROVE  LET n == takeEvent(m)
         IN  /\ n \in Monitors /\ n.on = TRUE /\ n.latest = Head(m.queue) /\ n.latest >= m.latest
             /\ SubscriptionOK(n, o, v)
<1> DEFINE n == takeEvent(m)
           q == m.queue
<1>1. /\ m \in [on : {TRUE}, req : Requests, started : BOOLEAN, queue : Seq(Nat), latest : Nat]
      /\ q \in Seq(Nat) /\ m.latest \in Nat /\ Len(q) \in Nat
  <2>1. /\ m \in [on : {TRUE}, req : Requests, started : BOOLEAN, queue : Seq(Nat), latest : Nat]
        /\ q \in Seq(Nat) /\ m.latest \in Nat
    BY MonitorShape
  <2> HIDE DEF q
  <2>2. Len(q) \in Nat
    BY <2>1
  <2> QED BY <2>1, <2>2
<1>2. /\ Head(q) \in Nat /\ m.latest <= Head(q) /\ o <= Head(q) /\ Head(q) <= v
      /\ Tail(q) \in Seq(Nat) /\ Len(Tail(q)) = Len(q) - 1
      /\ Rising(Tail(q), o, v) /\ Rising(Tail(q), Head(q), v)
  BY <1>1, HeadRises DEF SubscriptionOK
<1>3. n \in Monitors /\ n.on = TRUE /\ n.latest = Head(q) /\ n.queue = Tail(q)
  BY <1>1, <1>2 DEF takeEvent, Monitors
<1>4. Len(Tail(q)) <= MaxQueue
  <2>1. Len(q) <= MaxQueue /\ MaxQueue \in Nat
    BY ReadsAssumption DEF SubscriptionOK
  <2> HIDE DEF q
  <2> QED BY <1>1, <1>2, <2>1
<1>5. SubscriptionOK(n, o, v)
  <2> HIDE DEF n, q
  <2> QED BY <1>2, <1>3, <1>4 DEF SubscriptionOK
<1> QED
  BY <1>2, <1>3, <1>5

\* A positive poll or wait puts a sample that waits into the cache.
LEMMA PollWaitStep ==
  ASSUME ReadsTyped, CacheInv, NEW ch \in Channels, Poll(ch) \/ Wait(ch)
  PROVE  /\ ReadsTyped' /\ CacheInv'
         /\ \E m : mon' = [mon EXCEPT ![ch] = m] /\ m.latest >= mon[ch].latest
<1> DEFINE o == opened[ch]
           v == ver[ch]
<1>1. /\ o \in Nat /\ v \in Nat /\ mon[ch] \in Monitors /\ mon[ch].on /\ mon[ch].queue # <<>>
      /\ o <= v /\ SubscriptionOK(mon[ch], o, v)
  BY DEF ReadsTyped, CacheInv, Poll, Wait
<1>2. \E m \in Monitors :
        /\ m = drainQueue(mon[ch]) \/ m = takeEvent(mon[ch])
        /\ mon' = [mon EXCEPT ![ch] = m] /\ announced' = [announced EXCEPT ![ch] = m.latest]
        /\ m.on = TRUE /\ m.latest \in Nat /\ m.latest >= mon[ch].latest /\ SubscriptionOK(m, o, v)
  <2> DEFINE d == drainQueue(mon[ch])
             t == takeEvent(mon[ch])
  <2>1. /\ d \in Monitors /\ d.on = TRUE /\ d.latest = Last(mon[ch].queue)
        /\ d.latest >= mon[ch].latest /\ SubscriptionOK(d, o, v)
    BY <1>1, DrainOK
  <2>2. /\ t \in Monitors /\ t.on = TRUE /\ t.latest = Head(mon[ch].queue)
        /\ t.latest >= mon[ch].latest /\ SubscriptionOK(t, o, v)
    BY <1>1, TakeOK
  <2>3. \/ mon' = [mon EXCEPT ![ch] = d] /\ announced' = [announced EXCEPT ![ch] = Last(mon[ch].queue)]
        \/ mon' = [mon EXCEPT ![ch] = t] /\ announced' = [announced EXCEPT ![ch] = Head(mon[ch].queue)]
    BY DEF Poll, Wait
  <2>4. d.latest \in Nat /\ t.latest \in Nat
    BY <2>1, <2>2, MonitorShape
  <2> HIDE DEF d, t
  <2>5. CASE mon' = [mon EXCEPT ![ch] = d] /\ announced' = [announced EXCEPT ![ch] = Last(mon[ch].queue)]
    BY <2>1, <2>4, <2>5 DEF d
  <2>6. CASE mon' = [mon EXCEPT ![ch] = t] /\ announced' = [announced EXCEPT ![ch] = Head(mon[ch].queue)]
    BY <2>2, <2>4, <2>6 DEF t
  <2> QED BY <2>3, <2>5, <2>6
<1>3. PICK m \in Monitors :
        /\ mon' = [mon EXCEPT ![ch] = m] /\ announced' = [announced EXCEPT ![ch] = m.latest]
        /\ m.on = TRUE /\ m.latest \in Nat /\ m.latest >= mon[ch].latest /\ SubscriptionOK(m, o, v)
  BY <1>2
<1>4. opened' = [opened EXCEPT ![ch] = o]
  BY ExceptSame DEF Poll, Wait, ReadsTyped
<1>5. ver' = ver /\ up' \in [Channels -> BOOLEAN] /\ db' = db /\ backend' = backend /\ calls' = calls
  BY DEF Poll, Wait, server, ReadsTyped
<1> DEFINE a == m.latest
<1>6. a \in Nat /\ announced' = [announced EXCEPT ![ch] = a] /\ a = IF m.on THEN m.latest ELSE 0
  BY <1>3
<1>7. ReadsTyped' /\ CacheInv'
  <2> HIDE DEF a, o
  <2> QED BY <1>1, <1>3, <1>4, <1>5, <1>6, OneMonitor
<1> QED
  BY <1>3, <1>7

\* A cleared monitor leaves nothing.
LEMMA ClearStep ==
  ASSUME ReadsTyped, CacheInv, NEW chs, pvaClear(chs)
  PROVE  ReadsTyped' /\ CacheInv'
<1>1. NoMonitor \in Monitors /\ NoMonitor.on = FALSE /\ 0 \in Nat
  BY DEF Monitors, NoMonitor
<1>2. /\ mon' = [ch \in Channels |-> IF ch \in chs THEN NoMonitor ELSE mon[ch]]
      /\ announced' = [ch \in Channels |-> IF ch \in chs THEN 0 ELSE announced[ch]]
      /\ backend' = backend /\ db' = db /\ up' = up /\ ver' = ver /\ calls' = calls /\ opened' = opened
  BY DEF pvaClear, server
<1>3. ReadsTyped'
  <2>1. mon' \in [Channels -> Monitors] /\ announced' \in [Channels -> Nat]
    BY <1>1, <1>2 DEF ReadsTyped
  <2> QED BY <1>2, <2>1 DEF ReadsTyped
<1>4. Samples' = Samples
  BY <1>2 DEF Samples
<1>5. CacheInv'
  <2> SUFFICES ASSUME NEW ch \in Channels
        PROVE  /\ ver'[ch] \in 1..Len(Samples[ch]) /\ opened'[ch] <= ver'[ch]
               /\ announced'[ch] = IF mon'[ch].on THEN mon'[ch].latest ELSE 0
               /\ mon'[ch].on => SubscriptionOK(mon'[ch], opened'[ch], ver'[ch])
    BY <1>4 DEF CacheInv
  <2>1. CASE ch \in chs
    BY <1>1, <1>2, <2>1 DEF CacheInv
  <2>2. CASE ch \notin chs
    BY <1>2, <2>2 DEF CacheInv
  <2> QED BY <2>1, <2>2
<1> QED
  BY <1>3, <1>5

-----------------------------------------------------------------------------
(* Where a sample comes from.                                              *)

\* A sample that pvaGet took from the cache, or from the server.
FromGet(ch, s, req, use, whole) ==
  \/ /\ s.cached = TRUE /\ s.v = mon[ch].latest /\ s.pv = cachedSample(ch)
     /\ use /\ mon[ch].on /\ mon[ch].latest # 0
     /\ \/ monitorCovers(mon[ch].req, req)
        \/ ~whole /\ cachedValueIsPlain(cachedSample(ch))
  \/ s.cached = FALSE /\ s.v = ver[ch] /\ s.pv = Project(Samples[ch][ver[ch]], req)

\* A read that succeeds has one of the two.
LEMMA GetSample ==
  ASSUME NEW ch \in Channels, NEW req, NEW use, NEW whole, pvaGet(ch, req, use, whole).v # 0
  PROVE  FromGet(ch, pvaGet(ch, req, use, whole), req, use, whole)
<1>1. CASE servedFromCache(ch, req, use, whole)
  BY <1>1 DEF pvaGet, servedFromCache, FromGet
<1>2. CASE ~servedFromCache(ch, req, use, whole)
  BY <1>2 DEF pvaGet, FromGet
<1> QED
  BY <1>1, <1>2

\* Whatever a verb reads is one of the channel's samples, and what it may take
\* from the cache depends on the verb.
LEMMA SampleFrom ==
  ASSUME ReadsTyped, CacheInv, CallShape, NEW ch \in Channels, Sample(call, ch).v # 0
  PROVE  LET s == Sample(call, ch)
         IN  /\ s.v \in 1..Len(Samples[ch])
             /\ \/ /\ s.cached = TRUE /\ s.v = mon[ch].latest /\ mon[ch].on
                   /\ s.pv = Project(Samples[ch][s.v], mon[ch].req)
                   /\ call.verb \in {"pvaGet", "pvaGetStructure", "pvaGetTable"} /\ ~call.poll
                   /\ call.verb = "pvaGet" => mon[ch].req = Whole \/ cachedValueIsPlain(s.pv)
                   /\ call.verb = "pvaGetStructure" => mon[ch].req \in {Whole, call.req}
                \/ /\ s.cached = FALSE /\ s.v = ver[ch]
                   /\ call.verb = "pvaGet" => s.pv = Project(Samples[ch][s.v], Whole)
                   /\ call.verb = "pvaGetStructure" => s.pv = Project(Samples[ch][s.v], call.req)
<1> DEFINE s == Sample(call, ch)
<1>1. call.verb \in Verbs
  BY DEF CallShape
<1>2. ver[ch] \in 1..Len(Samples[ch]) /\ ver[ch] \in Nat
  BY DEF ReadsTyped, CacheInv
<1>3. mon[ch].on /\ mon[ch].latest # 0 => mon[ch].latest \in 1..Len(Samples[ch])
  <2>1. mon[ch].on => mon[ch].latest \in Nat /\ mon[ch].latest <= ver[ch]
    BY MonitorShape DEF ReadsTyped, CacheInv, SubscriptionOK
  <2>2. Len(Samples[ch]) \in Nat
    BY LayoutsAssumption DEF ReadsTyped, Samples
  <2> QED BY <1>2, <2>1, <2>2
<1>4. cachedSample(ch) = Project(Samples[ch][mon[ch].latest], mon[ch].req)
  BY DEF cachedSample
<1>5. CASE call.verb = "pvaGet"
  <2>1. s = pvaGet(ch, Whole, ~call.poll, FALSE)
    BY <1>5 DEF Sample
  <2>2. FromGet(ch, s, Whole, ~call.poll, FALSE)
    <3>1. pvaGet(ch, Whole, ~call.poll, FALSE).v # 0
      BY <2>1
    <3>2. FromGet(ch, pvaGet(ch, Whole, ~call.poll, FALSE), Whole, ~call.poll, FALSE)
      BY <3>1, GetSample
    <3> QED BY <2>1, <3>2
  <2> HIDE DEF s
  <2> QED BY <1>2, <1>3, <1>4, <1>5, <2>2 DEF FromGet, monitorCovers, s
<1>6. CASE call.verb = "pvaGetStructure"
  <2>1. s = pvaGet(ch, call.req, ~call.poll, TRUE)
    BY <1>6 DEF Sample
  <2>2. FromGet(ch, s, call.req, ~call.poll, TRUE)
    <3>1. pvaGet(ch, call.req, ~call.poll, TRUE).v # 0
      BY <2>1
    <3>2. FromGet(ch, pvaGet(ch, call.req, ~call.poll, TRUE), call.req, ~call.poll, TRUE)
      BY <3>1, GetSample
    <3> QED BY <2>1, <3>2
  <2> HIDE DEF s
  <2> QED BY <1>2, <1>3, <1>4, <1>6, <2>2 DEF FromGet, monitorCovers, s
<1>7. CASE call.verb = "pvaGetTable"
  <2>1. s = pvaGet(ch, Whole, ~call.poll, TRUE)
    BY <1>7 DEF Sample
  <2>2. FromGet(ch, s, Whole, ~call.poll, TRUE)
    <3>1. pvaGet(ch, Whole, ~call.poll, TRUE).v # 0
      BY <2>1
    <3>2. FromGet(ch, pvaGet(ch, Whole, ~call.poll, TRUE), Whole, ~call.poll, TRUE)
      BY <3>1, GetSample
    <3> QED BY <2>1, <3>2
  <2> HIDE DEF s
  <2> QED BY <1>2, <1>3, <1>4, <1>7, <2>2 DEF FromGet, s
<1>8. CASE call.verb \in {"pvaGetStatus", "pvaGetNelem", "pvaGetEnumStrings"}
  <2>1. PICK req : s = pvaGet(ch, req, FALSE, FALSE)
    BY <1>8 DEF Sample
  <2>2. FromGet(ch, s, req, FALSE, FALSE)
    <3>1. pvaGet(ch, req, FALSE, FALSE).v # 0
      BY <2>1
    <3>2. FromGet(ch, pvaGet(ch, req, FALSE, FALSE), req, FALSE, FALSE)
      BY <3>1, GetSample
    <3> QED BY <2>1, <3>2
  <2> HIDE DEF s
  <2> QED BY <1>2, <1>8, <2>2 DEF FromGet, s
<1> QED
  BY <1>1, <1>5, <1>6, <1>7, <1>8 DEF Verbs

-----------------------------------------------------------------------------
(* The calls.                                                              *)

\* A step of the server, a subscription or a monitor verb.
Outside ==
  \/ \E ch \in Channels :
       \/ Post(ch) \/ Snapshot(ch) \/ Disconnect(ch) \/ Reconnect(ch) \/ Poll(ch) \/ Wait(ch)
       \/ \E req \in Requests : SetMonitor(ch, req)
  \/ \E chs : pvaClear(chs)

\* The steps there are.
LEMMA NextCases ==
  ASSUME [Next]_vars
  PROVE  \/ UNCHANGED vars \/ Outside \/ (\E c \in Calls : Begin(c)) \/ ReadNext \/ Finish
BY DEF Next, Outside

\* Such a step leaves the call alone, and keeps the cache as it should be.
LEMMA OutsideStep ==
  ASSUME ReadsTyped, CacheInv, Outside
  PROVE  ReadsTyped' /\ CacheInv' /\ call' = call /\ backend' = backend /\ db' = db
<1>1. call' = call /\ backend' = backend /\ db' = db
  BY DEF Outside, Post, Snapshot, Disconnect, Reconnect, Poll, Wait, SetMonitor, pvaClear, server
<1>2. ASSUME NEW ch \in Channels, Reconnect(ch) PROVE ReadsTyped' /\ CacheInv'
  <2>1. ReadsTyped'
    BY <1>2 DEF Reconnect, ReadsTyped
  <2>2. CacheInv'
    BY <1>2 DEF Reconnect, CacheInv, Samples
  <2> QED BY <2>1, <2>2
<1>3. ReadsTyped' /\ CacheInv'
  BY <1>2, PostStep, SnapshotStep, DisconnectStep, SetMonitorStep, PollWaitStep, ClearStep DEF Outside
<1> QED
  BY <1>1, <1>3

\* Reading one channel of the list ends the call or adds an entry.
LEMMA ReadNextEffect ==
  ASSUME CallInv, ReadNext
  PROVE  /\ CallShape /\ call.pc = "run" /\ Len(call.got) < Len(call.pvs)
         /\ backend' = backend /\ db' = db /\ ver' = ver /\ mon' = mon /\ calls' = calls
         /\ announced' = announced /\ opened' = opened /\ up' = up
         /\ \E ch \in Channels :
              LET s  == Sample(call, ch)
                  mx == Converted(call, s.pv)
              IN  /\ ch = call.pvs[Len(call.got) + 1]
                  /\ \/ (s.v = 0 \/ mx.class = "error") /\ call' = [call EXCEPT !.pc = "failed"]
                     \/ /\ s.v # 0
                        /\ call' = [call EXCEPT !.got = Append(call.got, Entry(ch, s, mx))]
<1>1. CallShape /\ call.pc = "run" /\ Len(call.got) < Len(call.pvs) /\ Len(call.got) \in Nat
  BY AppendToList DEF CallInv, ReadNext
<1> DEFINE ch == call.pvs[Len(call.got) + 1]
<1>2. ch \in Channels
  BY <1>1 DEF CallShape
<1>3. call' = Took(ch, Sample(call, ch), Converted(call, Sample(call, ch).pv))
  BY DEF ReadNext
<1> HIDE DEF ch
<1>4. \/ /\ Sample(call, ch).v = 0 \/ Converted(call, Sample(call, ch).pv).class = "error"
         /\ call' = [call EXCEPT !.pc = "failed"]
      \/ /\ Sample(call, ch).v # 0
         /\ call' = [call EXCEPT !.got =
                       Append(call.got, Entry(ch, Sample(call, ch), Converted(call, Sample(call, ch).pv)))]
  BY <1>3 DEF Took
<1>5. /\ backend' = backend /\ db' = db /\ ver' = ver /\ mon' = mon /\ calls' = calls
      /\ announced' = announced /\ opened' = opened /\ up' = up
  BY DEF ReadNext, server
<1> QED
  BY <1>1, <1>2, <1>4, <1>5 DEF ch

\* The fields of a call one of which is replaced.
LEMMA CallFields ==
  ASSUME CallShape, NEW p, NEW g, NEW o
  PROVE  /\ [call EXCEPT !.pc = p]
              = [verb |-> call.verb, pc |-> p, pvs |-> call.pvs, cell |-> call.cell, req |-> call.req,
                 type |-> call.type, poll |-> call.poll, got |-> call.got, out |-> call.out]
         /\ [call EXCEPT !.got = g]
              = [verb |-> call.verb, pc |-> call.pc, pvs |-> call.pvs, cell |-> call.cell,
                 req |-> call.req, type |-> call.type, poll |-> call.poll, got |-> g,
                 out |-> call.out]
         /\ [call EXCEPT !.pc = p, !.out = o]
              = [verb |-> call.verb, pc |-> p, pvs |-> call.pvs, cell |-> call.cell, req |-> call.req,
                 type |-> call.type, poll |-> call.poll, got |-> call.got, out |-> o]
<1> DEFINE r == [verb |-> call.verb, pc |-> call.pc, pvs |-> call.pvs, cell |-> call.cell,
                 req |-> call.req, type |-> call.type, poll |-> call.poll, got |-> call.got,
                 out |-> call.out]
<1>1. call = r
  BY DEF CallShape
<1>2. [r EXCEPT !.pc = p]
        = [verb |-> call.verb, pc |-> p, pvs |-> call.pvs, cell |-> call.cell, req |-> call.req,
           type |-> call.type, poll |-> call.poll, got |-> call.got, out |-> call.out]
  OBVIOUS
<1>3. [r EXCEPT !.got = g]
        = [verb |-> call.verb, pc |-> call.pc, pvs |-> call.pvs, cell |-> call.cell, req |-> call.req,
           type |-> call.type, poll |-> call.poll, got |-> g, out |-> call.out]
  OBVIOUS
<1>4. [r EXCEPT !.pc = p, !.out = o]
        = [verb |-> call.verb, pc |-> p, pvs |-> call.pvs, cell |-> call.cell, req |-> call.req,
           type |-> call.type, poll |-> call.poll, got |-> call.got, out |-> o]
  <2> DEFINE q == [r EXCEPT !.pc = p]
  <2>1. [q EXCEPT !.out = o]
          = [verb |-> call.verb, pc |-> p, pvs |-> call.pvs, cell |-> call.cell, req |-> call.req,
             type |-> call.type, poll |-> call.poll, got |-> call.got, out |-> o]
    <3>1. q = [verb |-> call.verb, pc |-> p, pvs |-> call.pvs, cell |-> call.cell,
               req |-> call.req, type |-> call.type, poll |-> call.poll, got |-> call.got,
               out |-> call.out]
      BY <1>2
    <3> HIDE DEF q, r
    <3> QED BY <3>1
  <2>2. [r EXCEPT !.pc = p, !.out = o] = [q EXCEPT !.out = o]
    <3> HIDE DEF r
    <3> QED OBVIOUS
  <2> HIDE DEF q, r
  <2> QED BY <2>1, <2>2
<1> HIDE DEF r
<1> QED
  BY <1>1, <1>2, <1>3, <1>4

\* A call that begins has no entry yet.
LEMMA BeginStep ==
  ASSUME IInv, NEW c \in Calls, Begin(c)
  PROVE  IInv' /\ call'.pc = "run" /\ call'.got = <<>> /\ backend' = backend /\ db' = db
<1>1. /\ backend' = backend /\ db' = db /\ ver' = ver /\ mon' = mon /\ up' = up
      /\ announced' = announced /\ opened' = opened
      /\ call' = [c EXCEPT !.pc = "run"] /\ calls < MaxCalls /\ calls' = calls + 1
  BY DEF Begin, server
<1>2. c \in [verb : Verbs, pc : {"idle"}, pvs : Seq(Channels), cell : BOOLEAN, req : Requests,
             type : TypeLetters, poll : BOOLEAN, got : {<<>>}, out : {Empty}]
  BY CallsAssumption
<1>3. call' = [verb |-> c.verb, pc |-> "run", pvs |-> c.pvs, cell |-> c.cell, req |-> c.req,
               type |-> c.type, poll |-> c.poll, got |-> <<>>, out |-> Empty]
  <2> HIDE DEF Empty, Verbs, TypeLetters
  <2> QED BY <1>1, <1>2
<1>4. /\ c.verb \in Verbs /\ c.pvs \in Seq(Channels) /\ c.cell \in BOOLEAN /\ c.req \in Requests
      /\ c.poll \in BOOLEAN
  BY <1>2
<1>5. /\ call'.verb = c.verb /\ call'.pc = "run" /\ call'.pvs = c.pvs /\ call'.cell = c.cell
      /\ call'.req = c.req /\ call'.type = c.type /\ call'.poll = c.poll /\ call'.got = <<>>
      /\ call'.out = Empty
  BY <1>3
<1>6. CallShape'
  BY <1>3, <1>4, <1>5 DEF CallShape
<1>7. IsList(<<>>) /\ Len(<<>>) = 0 /\ Len(c.pvs) \in Nat
  <2>1. <<>> \in Seq(Nat)
    OBVIOUS
  <2> QED BY <1>4, <2>1 DEF IsList
<1>8. CallInv'
  BY <1>5, <1>6, <1>7 DEF CallInv
<1>9. ReadsTyped'
  <2>1. calls' \in 0..MaxCalls
    BY <1>1, ReadsAssumption DEF IInv, ReadsTyped
  <2> QED BY <1>1, <2>1 DEF IInv, ReadsTyped
<1>10. CacheInv'
  BY <1>1 DEF IInv, CacheInv, Samples
<1> QED
  BY <1>1, <1>5, <1>8, <1>9, <1>10 DEF IInv

\* What a call that goes on keeps.
LEMMA CallGoesOn ==
  ASSUME IInv, CallShape, ReadsTyped', CacheInv', db' = db, NEW p \in {"run", "done", "failed"}, NEW g, NEW o,
         call' = [verb |-> call.verb, pc |-> p, pvs |-> call.pvs, cell |-> call.cell,
                  req |-> call.req, type |-> call.type, poll |-> call.poll, got |-> g, out |-> o],
         IsList(g), Len(g) <= Len(call.pvs), p = "done" => Len(g) = Len(call.pvs),
         \A i \in 1..Len(g) :
            g[i].ch = call.pvs[i] /\ g[i].v \in 1..Len(Samples[g[i].ch]) /\ g[i].cached \in BOOLEAN
  PROVE  IInv'
<1>1. /\ call'.verb = call.verb /\ call'.pc = p /\ call'.pvs = call.pvs /\ call'.cell = call.cell
      /\ call'.req = call.req /\ call'.type = call.type /\ call'.poll = call.poll /\ call'.got = g
      /\ call'.out = o
  OBVIOUS
<1>2. CallShape'
  BY <1>1 DEF CallShape
<1>3. CallInv'
  BY <1>1, <1>2 DEF CallInv, Samples
<1> QED
  BY <1>3 DEF IInv

\* The entry a verb makes of a channel.
EntryOf(ch) == Entry(ch, Sample(call, ch), Converted(call, Sample(call, ch).pv))

\* What stays the same while a call goes on.
SameCall ==
  /\ CallShape /\ call'.verb = call.verb /\ call'.pvs = call.pvs /\ call'.cell = call.cell
  /\ call'.req = call.req /\ call'.type = call.type /\ call'.poll = call.poll
  /\ call.pc = "run" /\ call'.pc \in {"run", "done", "failed"}

\* Reading one channel keeps the invariant.
LEMMA ReadNextStep ==
  ASSUME IInv, ReadNext
  PROVE  /\ IInv' /\ SameCall /\ backend' = backend /\ db' = db
         /\ \/ call'.got = call.got
            \/ \E ch \in Channels :
                 Sample(call, ch).v # 0 /\ call'.got = Append(call.got, EntryOf(ch))
<1>1. /\ CallShape /\ call.pc = "run" /\ Len(call.got) < Len(call.pvs)
      /\ backend' = backend /\ db' = db /\ ver' = ver /\ mon' = mon /\ calls' = calls
      /\ announced' = announced /\ opened' = opened /\ up' = up
  BY ReadNextEffect DEF IInv
<1>2. PICK ch \in Channels :
        /\ ch = call.pvs[Len(call.got) + 1]
        /\ \/ call' = [call EXCEPT !.pc = "failed"]
           \/ Sample(call, ch).v # 0 /\ call' = [call EXCEPT !.got = Append(call.got, EntryOf(ch))]
  BY ReadNextEffect DEF IInv, EntryOf
<1>3. ReadsTyped' /\ CacheInv'
  BY <1>1 DEF IInv, ReadsTyped, CacheInv, Samples
<1>4. /\ IsList(call.got) /\ Len(call.got) \in Nat /\ Len(call.pvs) \in Nat
      /\ \A i \in 1..Len(call.got) :
           /\ call.got[i].ch = call.pvs[i] /\ call.got[i].v \in 1..Len(Samples[call.got[i].ch])
           /\ call.got[i].cached \in BOOLEAN
  BY <1>1, AppendToList DEF IInv, CallInv, CallShape
<1>5. CASE call' = [call EXCEPT !.pc = "failed"]
  <2> DEFINE g == call.got
             o == call.out
  <2>1. call' = [verb |-> call.verb, pc |-> "failed", pvs |-> call.pvs, cell |-> call.cell,
                 req |-> call.req, type |-> call.type, poll |-> call.poll, got |-> g, out |-> o]
    BY <1>1, <1>5, CallFields
  <2>2. IInv'
    <3>1. IsList(g) /\ Len(g) <= Len(call.pvs)
      BY <1>1, <1>4
    <3>2. \A i \in 1..Len(g) :
            g[i].ch = call.pvs[i] /\ g[i].v \in 1..Len(Samples[g[i].ch]) /\ g[i].cached \in BOOLEAN
      BY <1>4
    <3> HIDE DEF g, o
    <3> QED BY <1>1, <1>3, <2>1, <3>1, <3>2, CallGoesOn
  <2>3. SameCall /\ call'.got = call.got
    BY <1>1, <2>1 DEF SameCall
  <2> QED BY <1>1, <2>2, <2>3
<1>6. CASE Sample(call, ch).v # 0 /\ call' = [call EXCEPT !.got = Append(call.got, EntryOf(ch))]
  <2> DEFINE g == Append(call.got, EntryOf(ch))
             o == call.out
             p == call.pc
  <2>1. call' = [verb |-> call.verb, pc |-> p, pvs |-> call.pvs, cell |-> call.cell,
                 req |-> call.req, type |-> call.type, poll |-> call.poll, got |-> g, out |-> o]
    BY <1>1, <1>6, CallFields
  <2>2. Sample(call, ch).v \in 1..Len(Samples[ch]) /\ Sample(call, ch).cached \in BOOLEAN
    BY <1>1, <1>6, SampleFrom DEF IInv
  <2>3. EntryOf(ch).ch = ch /\ EntryOf(ch).v = Sample(call, ch).v /\ EntryOf(ch).cached = Sample(call, ch).cached
    BY DEF EntryOf, Entry
  <2>4. /\ IsList(g) /\ Len(g) = Len(call.got) + 1 /\ g[Len(call.got) + 1] = EntryOf(ch)
        /\ \A i \in 1..Len(call.got) : g[i] = call.got[i]
    BY <1>4, AppendToList
  <2>5. Len(g) <= Len(call.pvs)
    <3> HIDE DEF g
    <3> QED BY <1>1, <1>4, <2>4
  <2>6. ASSUME NEW i \in 1..Len(g)
        PROVE  g[i].ch = call.pvs[i] /\ g[i].v \in 1..Len(Samples[g[i].ch]) /\ g[i].cached \in BOOLEAN
    <3> HIDE DEF g
    <3>1. CASE i = Len(call.got) + 1
      BY <1>2, <2>2, <2>3, <2>4, <3>1
    <3>2. CASE i # Len(call.got) + 1
      <4>1. i \in 1..Len(call.got)
        BY <1>4, <2>4, <2>6, <3>2
      <4> QED BY <1>4, <2>4, <4>1
    <3> QED BY <3>1, <3>2
  <2>7. IInv'
    <3> HIDE DEF g, o
    <3>1. p \in {"run", "done", "failed"} /\ p # "done"
      BY <1>1
    <3> HIDE DEF p
    <3> QED BY <1>1, <1>3, <2>1, <2>4, <2>5, <2>6, <3>1, CallGoesOn
  <2>8. SameCall /\ call'.got = g
    <3> HIDE DEF g, o
    <3> QED BY <1>1, <2>1 DEF SameCall
  <2> QED BY <1>1, <1>6, <2>7, <2>8
<1> QED
  BY <1>2, <1>5, <1>6

\* A call that is done has its result.
LEMMA FinishStep ==
  ASSUME IInv, Finish
  PROVE  /\ IInv' /\ SameCall /\ backend' = backend /\ db' = db /\ call'.got = call.got
         /\ call'.pc = "done" /\ Len(call.got) = Len(call.pvs)
         /\ call'.out =
              LET values == [i \in DOMAIN call.got |-> call.got[i].mx]
              IN  IF call.verb \in {"pvaGetStructure", "pvaGetEnumStrings"} /\ call.cell
                  THEN Cell(values) ELSE assembleValueOutput(values, call.cell)
<1> DEFINE values == [i \in DOMAIN call.got |-> call.got[i].mx]
           g == call.got
           o == IF call.verb \in {"pvaGetStructure", "pvaGetEnumStrings"} /\ call.cell
                THEN Cell(values) ELSE assembleValueOutput(values, call.cell)
<1>1. /\ CallShape /\ call.pc = "run" /\ Len(call.got) = Len(call.pvs)
      /\ backend' = backend /\ db' = db /\ ver' = ver /\ mon' = mon /\ calls' = calls
      /\ announced' = announced /\ opened' = opened /\ up' = up
      /\ call' = [call EXCEPT !.pc = "done", !.out = o]
  BY DEF Finish, server, IInv, CallInv
<1> HIDE DEF o
<1>2. call' = [verb |-> call.verb, pc |-> "done", pvs |-> call.pvs, cell |-> call.cell,
               req |-> call.req, type |-> call.type, poll |-> call.poll, got |-> g, out |-> o]
  BY <1>1, CallFields
<1>3. ReadsTyped' /\ CacheInv'
  BY <1>1 DEF IInv, ReadsTyped, CacheInv, Samples
<1>4. /\ IsList(g) /\ Len(g) <= Len(call.pvs) /\ Len(g) = Len(call.pvs)
      /\ \A i \in 1..Len(g) :
           g[i].ch = call.pvs[i] /\ g[i].v \in 1..Len(Samples[g[i].ch]) /\ g[i].cached \in BOOLEAN
  BY <1>1 DEF IInv, CallInv
<1>5. IInv'
  <2> HIDE DEF g
  <2> QED BY <1>1, <1>2, <1>3, <1>4, CallGoesOn
<1>6. SameCall /\ call'.got = call.got /\ call'.pc = "done" /\ call'.out = o
  BY <1>1, <1>2 DEF SameCall
<1> QED
  BY <1>1, <1>5, <1>6 DEF o

\* The invariant holds at first.
LEMMA InitInv ==
  ASSUME Init
  PROVE  IInv
<1>1. NoMonitor \in Monitors /\ NoMonitor.on = FALSE
  BY DEF Monitors, NoMonitor
<1>2. ReadsTyped
  BY <1>1, ReadsAssumption DEF Init, ReadsTyped
<1>3. CacheInv
  <2> SUFFICES ASSUME NEW ch \in Channels
        PROVE  1 \in 1..Len(Samples[ch])
    BY <1>1 DEF Init, CacheInv
  <2> QED BY LayoutsAssumption DEF Init, Samples
<1>4. CallInv
  BY DEF Init, NoCall, CallInv
<1> QED
  BY <1>2, <1>3, <1>4 DEF IInv

\* What a step does to a call: nothing, or it begins one, or the call goes on, with
\* the entries it had and at most one of a sample read now.
LEMMA CallStep ==
  ASSUME IInv, [Next]_vars
  PROVE  /\ IInv' /\ backend' = backend /\ db' = db
         /\ \/ call' = call
            \/ call'.pc = "run" /\ call'.got = <<>>
            \/ /\ SameCall
               /\ \/ call'.got = call.got
                  \/ \E ch \in Channels :
                       Sample(call, ch).v # 0 /\ call'.got = Append(call.got, EntryOf(ch))
<1>1. CASE UNCHANGED vars
  <2>1. /\ backend' = backend /\ db' = db /\ ver' = ver /\ mon' = mon /\ calls' = calls
        /\ announced' = announced /\ opened' = opened /\ up' = up /\ call' = call
    BY <1>1 DEF vars
  <2>2. IInv'
    BY <2>1 DEF IInv, ReadsTyped, CacheInv, CallInv, CallShape, Samples
  <2> QED BY <2>1, <2>2
<1>2. CASE Outside
  <2>1. ReadsTyped' /\ CacheInv' /\ call' = call /\ backend' = backend /\ db' = db
    BY <1>2, OutsideStep DEF IInv
  <2>2. CallInv'
    BY <2>1 DEF IInv, CallInv, CallShape, Samples
  <2> QED BY <2>1, <2>2 DEF IInv
<1>3. CASE \E c \in Calls : Begin(c)
  BY <1>3, BeginStep
<1>4. CASE ReadNext
  BY <1>4, ReadNextStep
<1>5. CASE Finish
  BY <1>5, FinishStep
<1> QED
  BY <1>1, <1>2, <1>3, <1>4, <1>5, NextCases

\* The invariant always holds.
LEMMA Invariance == Spec => []IInv
<1>1. Init => IInv
  BY InitInv
<1>2. IInv /\ [Next]_vars => IInv'
  BY CallStep
<1> QED
  BY <1>1, <1>2, PTL DEF Spec

\* The registry and the call are well formed, the queue of a subscription within
\* its bound, and a cached sample is one the server has held.
THEOREM Typed == Spec => []TypeOK
<1>1. ASSUME IInv PROVE TypeOK
  <2>1. \A ch \in Channels : mon[ch].on =>
          /\ mon[ch].req \in Requests /\ Len(mon[ch].queue) <= MaxQueue
          /\ mon[ch].latest <= ver[ch] /\ \A i \in DOMAIN mon[ch].queue : mon[ch].queue[i] <= ver[ch]
    <3> SUFFICES ASSUME NEW ch \in Channels, mon[ch].on
          PROVE  /\ mon[ch].req \in Requests /\ Len(mon[ch].queue) <= MaxQueue
                 /\ mon[ch].latest <= ver[ch]
                 /\ \A i \in DOMAIN mon[ch].queue : mon[ch].queue[i] <= ver[ch]
      OBVIOUS
    <3>1. mon[ch].req \in Requests /\ mon[ch].queue \in Seq(Nat)
      BY <1>1, MonitorShape DEF IInv, ReadsTyped
    <3>2. SubscriptionOK(mon[ch], opened[ch], ver[ch])
      BY <1>1 DEF IInv, CacheInv
    <3>3. DOMAIN mon[ch].queue = 1..Len(mon[ch].queue)
      BY <3>1
    <3> QED BY <3>1, <3>2, <3>3 DEF SubscriptionOK, Rising
  <2>2. call.pc \in {"idle", "run", "done", "failed"}
    BY <1>1 DEF IInv, CallInv, CallShape
  <2>3. calls <= MaxCalls
    BY <1>1, ReadsAssumption DEF IInv, ReadsTyped
  <2> QED BY <1>1, <2>1, <2>2, <2>3 DEF TypeOK, IInv, ReadsTyped
<1> QED
  BY <1>1, Invariance, PTL

-----------------------------------------------------------------------------
(* The entries of a call.                                                  *)

\* How an entry came about: from a projection of the sample it names, which was the
\* cached one, not older than what was announced and than the monitor, or the one
\* the server held.
Origin(e) ==
  /\ e.v \in Nat /\ e.v >= e.announced /\ (e.cached => e.v >= e.opened)
  /\ e.ch \in Channels /\ e.v \in 1..Len(Samples[e.ch])
  /\ \E pv :
       /\ e.ts = pvTimeStampSecNsec(pv) /\ e.stamped = ~IsNull(Field(pv, "timeStamp"))
       /\ call.verb = "pvaGet" => e.mx = pvValueToMx(backend, pv, call.type)
       /\ call.verb = "pvaGetStructure" => e.mx = pvStructureToMx(backend, pv)
       /\ \/ \E req : /\ e.cached = TRUE /\ pv = Project(Tree(e), req) /\ ~call.poll
                      /\ call.verb \in {"pvaGet", "pvaGetStructure", "pvaGetTable"}
                      /\ call.verb = "pvaGet" => req = Whole \/ cachedValueIsPlain(pv)
                      /\ call.verb = "pvaGetStructure" => req \in {Whole, call.req}
          \/ /\ e.cached = FALSE /\ e.v = e.held
             /\ call.verb = "pvaGet" => pv = Tree(e)
             /\ call.verb = "pvaGetStructure" => pv = Project(Tree(e), call.req)
GotInv == \A e : e \in Got => Origin(e)

\* An entry made now.
LEMMA EntryOrigin ==
  ASSUME IInv, CallShape, NEW ch \in Channels, Sample(call, ch).v # 0, NEW e, e = EntryOf(ch)
  PROVE  Origin(e)
<1> DEFINE s == Sample(call, ch)
<1>1. /\ e.ch = ch /\ e.v = s.v /\ e.cached = s.cached /\ e.mx = Converted(call, s.pv)
      /\ e.ts = pvTimeStampSecNsec(s.pv) /\ e.stamped = ~IsNull(Field(s.pv, "timeStamp"))
      /\ e.announced = announced[ch] /\ e.opened = opened[ch] /\ e.held = ver[ch]
  BY DEF EntryOf, Entry
<1>2. /\ s.v \in 1..Len(Samples[ch])
      /\ \/ /\ s.cached = TRUE /\ s.v = mon[ch].latest /\ mon[ch].on
            /\ s.pv = Project(Samples[ch][s.v], mon[ch].req)
            /\ call.verb \in {"pvaGet", "pvaGetStructure", "pvaGetTable"} /\ ~call.poll
            /\ call.verb = "pvaGet" => mon[ch].req = Whole \/ cachedValueIsPlain(s.pv)
            /\ call.verb = "pvaGetStructure" => mon[ch].req \in {Whole, call.req}
         \/ /\ s.cached = FALSE /\ s.v = ver[ch]
            /\ call.verb = "pvaGet" => s.pv = Project(Samples[ch][s.v], Whole)
            /\ call.verb = "pvaGetStructure" => s.pv = Project(Samples[ch][s.v], call.req)
  BY SampleFrom DEF IInv
<1>3. /\ call.verb = "pvaGet" => Converted(call, s.pv) = pvValueToMx(backend, s.pv, call.type)
      /\ call.verb = "pvaGetStructure" => Converted(call, s.pv) = pvStructureToMx(backend, s.pv)
  <2> HIDE DEF s
  <2> QED BY DEF Converted
<1> HIDE DEF s
<1>4. /\ ver[ch] \in Nat /\ announced[ch] \in Nat /\ opened[ch] \in Nat /\ s.v \in Nat
      /\ announced[ch] = (IF mon[ch].on THEN mon[ch].latest ELSE 0)
      /\ mon[ch].on => mon[ch].latest \in Nat /\ mon[ch].latest <= ver[ch]
                       /\ (mon[ch].latest # 0 => opened[ch] <= mon[ch].latest)
  <2>1. mon[ch].on => mon[ch].latest \in Nat
    BY MonitorShape DEF IInv, ReadsTyped
  <2> QED BY <1>2, <2>1 DEF IInv, ReadsTyped, CacheInv, SubscriptionOK
<1>5. s.v >= announced[ch] /\ (s.cached => s.v >= opened[ch])
  BY <1>2, <1>4
<1>6. Project(Tree(e), Whole) = Tree(e) /\ Tree(e) = Samples[ch][s.v]
  BY <1>1 DEF Project, Tree
<1>7. \/ \E req : /\ e.cached = TRUE /\ s.pv = Project(Tree(e), req) /\ ~call.poll
                  /\ call.verb \in {"pvaGet", "pvaGetStructure", "pvaGetTable"}
                  /\ call.verb = "pvaGet" => req = Whole \/ cachedValueIsPlain(s.pv)
                  /\ call.verb = "pvaGetStructure" => req \in {Whole, call.req}
      \/ /\ e.cached = FALSE /\ e.v = e.held
         /\ call.verb = "pvaGet" => s.pv = Tree(e)
         /\ call.verb = "pvaGetStructure" => s.pv = Project(Tree(e), call.req)
  <2>1. CASE s.cached = TRUE
    BY <1>1, <1>2, <1>6, <2>1
  <2>2. CASE s.cached = FALSE
    BY <1>1, <1>2, <1>6, <2>2
  <2> QED BY <1>2, <2>1, <2>2
<1> QED
  BY <1>1, <1>2, <1>3, <1>4, <1>5, <1>7 DEF Origin

\* The entries there are after a step.
LEMMA GotStep ==
  ASSUME IInv, [Next]_vars, NEW e, e \in Got'
  PROVE  \/ call' = call /\ e \in Got
         \/ SameCall /\ e \in Got
         \/ SameCall /\ \E ch \in Channels : Sample(call, ch).v # 0 /\ e = EntryOf(ch)
<1>1. CASE call' = call
  BY <1>1 DEF Got
<1>2. CASE call'.pc = "run" /\ call'.got = <<>>
  BY <1>2 DEF Got
<1>3. CASE SameCall /\ call'.got = call.got
  BY <1>3 DEF Got, SameCall
<1>4. ASSUME SameCall, NEW ch \in Channels, Sample(call, ch).v # 0, call'.got = Append(call.got, EntryOf(ch))
      PROVE  e \in Got \/ e = EntryOf(ch)
  <2> DEFINE g == call'.got
  <2>1. call.pc # "idle" /\ \E i \in DOMAIN g : e = g[i]
    BY <1>4 DEF Got, SameCall
  <2>2. IsList(call.got)
    BY <2>1 DEF IInv, CallInv
  <2>3. /\ DOMAIN g = 1..(Len(call.got) + 1) /\ DOMAIN call.got = 1..Len(call.got) /\ Len(call.got) \in Nat
        /\ \A i \in 1..Len(call.got) : g[i] = call.got[i]
        /\ g[Len(call.got) + 1] = EntryOf(ch)
    BY <1>4, <2>2, AppendToList
  <2> HIDE DEF g
  <2>4. PICK i \in 1..(Len(call.got) + 1) : e = g[i]
    BY <2>1, <2>3
  <2>5. i \in 1..Len(call.got) \/ i = Len(call.got) + 1
    BY <2>3
  <2> QED BY <2>1, <2>3, <2>4, <2>5 DEF Got
<1> QED
  BY <1>1, <1>2, <1>3, <1>4, CallStep

\* How an entry came about does not change.
LEMMA OriginStays ==
  ASSUME NEW e, Origin(e), call' = call \/ SameCall, backend' = backend, db' = db
  PROVE  Origin(e)'
<1>1. call'.verb = call.verb /\ call'.type = call.type /\ call'.req = call.req /\ call'.poll = call.poll
  BY DEF SameCall
<1>2. Samples' = Samples
  BY DEF Samples
<1> QED
  BY <1>1, <1>2 DEF Origin, Tree

\* Every entry of every call came about that way.
LEMMA GotInvariance == Spec => [](IInv /\ GotInv)
<1>1. ASSUME Init PROVE IInv /\ GotInv
  BY <1>1, InitInv DEF Init, NoCall, Got, GotInv
<1>2. ASSUME IInv, GotInv, [Next]_vars PROVE IInv' /\ GotInv'
  <2>1. IInv' /\ backend' = backend /\ db' = db
    BY <1>2, CallStep
  <2>2. ASSUME NEW e, e \in Got' PROVE Origin(e)'
    <3>1. CASE (call' = call \/ SameCall) /\ e \in Got
      BY <1>2, <2>1, <3>1, OriginStays DEF GotInv
    <3>2. CASE SameCall /\ \E ch \in Channels : Sample(call, ch).v # 0 /\ e = EntryOf(ch)
      <4>1. Origin(e)
        BY <1>2, <3>2, EntryOrigin DEF SameCall
      <4> QED BY <2>1, <3>2, <4>1, OriginStays
    <3> QED BY <1>2, <2>2, <3>1, <3>2, GotStep
  <2>3. GotInv'
    BY <2>2 DEF GotInv
  <2> QED BY <2>1, <2>3
<1> QED
  BY <1>1, <1>2, PTL DEF Spec

\* A read returns the sample last announced or a later one, never one from before
\* the monitor was set; with the poll flag, and from the metadata getters, the one
\* the server holds.
THEOREM Fresh == Spec => []FreshEnough
<1>1. ASSUME IInv, GotInv PROVE FreshEnough
  <2>1. \A e \in Got : Origin(e)
    BY <1>1 DEF GotInv
  <2>2. ASSUME NEW e \in Got PROVE e.v >= e.announced /\ (e.cached => e.v >= e.opened)
    BY <2>1 DEF Origin
  <2>3. ASSUME call.poll \/ call.verb \in {"pvaGetStatus", "pvaGetNelem", "pvaGetEnumStrings"},
               NEW e \in Got
        PROVE  e.v = e.held
    BY <2>1, <2>3 DEF Origin
  <2> QED BY <2>2, <2>3 DEF FreshEnough
<1> QED
  BY <1>1, GotInvariance, PTL

\* A value that is a scalar, an array or an enum is the whole sample's.
LEMMA PlainValueWhole ==
  ASSUME NEW t, NEW req, NEW b, NEW type, IsStructure(t), IsInjective(t.names),
         cachedValueIsPlain(Project(t, req))
  PROVE  pvValueToMx(b, Project(t, req), type) = pvValueToMx(b, t, type)
<1> DEFINE p == Project(t, req)
           v == Field(t, "value")
<1>1. Field(p, "value") \in {Null, v}
  BY ProjectField
<1>2. Field(p, "value") # Null
  BY DEF cachedValueIsPlain, Null, IsEnum
<1>3. Field(p, "value") = v
  BY <1>1, <1>2
<1>4. v.kind \in {"scalar", "array"} \/ IsEnum(v)
  BY <1>3 DEF cachedValueIsPlain
<1> HIDE DEF p, v
<1>5. ASSUME NEW q, Field(q, "value") = v
      PROVE  pvValueToMx(b, q, type) =
               IF IsEnum(v) THEN enumValueToMx(v, type)
               ELSE CASE type = "C" -> valueAsText(b, v)
                      [] type # "C" /\ v.kind = "scalar" -> scalarToMx(v)
                      [] type # "C" /\ v.kind = "array"  -> arrayToMx(v)
  BY <1>4, <1>5 DEF pvValueToMx, IsNull, IsEnum
<1> QED
  BY <1>3, <1>5 DEF v, p

\* The time stamp of a projection that has one is the whole sample's.
LEMMA StampWhole ==
  ASSUME NEW t, NEW req, IsStructure(t), IsInjective(t.names),
         ~IsNull(Field(Project(t, req), "timeStamp"))
  PROVE  pvTimeStampSecNsec(Project(t, req)) = pvTimeStampSecNsec(t)
<1>1. Field(Project(t, req), "timeStamp") = Field(t, "timeStamp")
  BY ProjectField DEF IsNull, Null
<1> QED
  BY <1>1 DEF pvTimeStampSecNsec

\* Every sample of a channel is a structure with distinct field names.
LEMMA SampleTree ==
  ASSUME ReadsTyped, NEW ch \in Channels, NEW v \in 1..Len(Samples[ch])
  PROVE  LET t == Samples[ch][v]
         IN  IsStructure(t) /\ t.id # "enum_t" /\ IsInjective(t.names) /\ DistinctSuffixes(t.names)
BY LayoutsAssumption DEF ReadsTyped, Samples

\* What pvaGet returns from a monitor's sample is what it would return for the whole
\* of it, and the time stamp is the sample's own.
THEOREM Undivided == Spec => []ValueWhole
<1>1. ASSUME IInv, GotInv PROVE ValueWhole
  <2> SUFFICES ASSUME call.verb = "pvaGet", NEW e, e \in Got
        PROVE  /\ e.mx = pvValueToMx(backend, Tree(e), call.type)
               /\ e.stamped => e.ts = pvTimeStampSecNsec(Tree(e))
               /\ ~e.stamped => e.cached \/ IsNull(Field(Tree(e), "timeStamp"))
    BY DEF ValueWhole
  <2>1. Origin(e)
    BY <1>1 DEF GotInv
  <2> DEFINE t == Tree(e)
  <2>2. IsStructure(t) /\ IsInjective(t.names)
    BY <1>1, <2>1, SampleTree DEF Origin, Tree, IInv
  <2>3. PICK pv :
          /\ e.ts = pvTimeStampSecNsec(pv) /\ e.stamped = ~IsNull(Field(pv, "timeStamp"))
          /\ e.mx = pvValueToMx(backend, pv, call.type)
          /\ \/ \E req : /\ e.cached = TRUE /\ pv = Project(t, req)
                         /\ req = Whole \/ cachedValueIsPlain(pv)
             \/ pv = t
    BY <2>1 DEF Origin
  <2> HIDE DEF t
  <2>4. CASE pv = t
    BY <2>3, <2>4 DEF t
  <2>5. ASSUME NEW req, e.cached = TRUE, pv = Project(t, req), req = Whole \/ cachedValueIsPlain(pv)
        PROVE  /\ e.mx = pvValueToMx(backend, t, call.type)
               /\ e.stamped => e.ts = pvTimeStampSecNsec(t)
    <3>1. pvValueToMx(backend, pv, call.type) = pvValueToMx(backend, t, call.type)
      <4>1. CASE req = Whole
        BY <2>5, <4>1 DEF Project
      <4>2. CASE req # Whole
        BY <2>2, <2>5, <4>2, PlainValueWhole
      <4> QED BY <4>1, <4>2
    <3>2. ~IsNull(Field(pv, "timeStamp")) => pvTimeStampSecNsec(pv) = pvTimeStampSecNsec(t)
      BY <2>2, <2>5, StampWhole
    <3> QED BY <2>3, <3>1, <3>2
  <2> QED BY <2>3, <2>4, <2>5 DEF t
<1> QED
  BY <1>1, GotInvariance, PTL

\* The names of the fields a request selects are among those of the whole structure.
LEMMA ProjectNames ==
  ASSUME NEW t, NEW req, IsStructure(t), DistinctSuffixes(t.names)
  PROVE  ToSet(legalFieldNames(Project(t, req).names)) \subseteq ToSet(legalFieldNames(t.names))
<1>1. CASE req = Whole
  BY <1>1 DEF Project
<1>2. CASE req # Whole
  <2> DEFINE K == Selected(t, req)
             m == Cardinality(K)
             keep == Ascending(K)
  <2>1. /\ K \in SUBSET Int /\ IsFiniteSet(K) /\ K \subseteq 1..Len(t.names)
        /\ DOMAIN t.names = 1..Len(t.names)
    BY SelectedFinite
  <2>2. /\ m \in Nat /\ keep \in [1..m -> K]
        /\ \A i, j \in 1..m : i < j => keep[i] < keep[j]
    <3> HIDE DEF K
    <3> QED BY <2>1, AscendingLists
  <2>3. Project(t, req).names = [i \in DOMAIN keep |-> t.names[keep[i]]]
    BY <1>2, ProjectShape DEF Struct
  <2> HIDE DEF K, m, keep
  <2>4. DOMAIN keep = 1..m /\ keep \in [1..m -> 1..Len(t.names)]
    BY <2>1, <2>2
  <2> DEFINE names == t.names
             some == [i \in 1..m |-> names[keep[i]]]
  <2>5. Len(names) \in Nat
    BY DEF IsStructure
  <2>6. Project(t, req).names = some /\ Len(some) = m /\ \A i \in 1..m : some[i] = names[keep[i]]
    BY <2>2, <2>3, <2>4
  <2>7. ToSet(legalFieldNames(some)) \subseteq ToSet(legalFieldNames(names))
    <3>1. /\ Len(names) \in Nat /\ DOMAIN names = 1..Len(names) /\ DistinctSuffixes(names)
          /\ m \in Nat /\ keep \in [1..m -> 1..Len(names)]
          /\ \A i, j \in 1..m : i < j => keep[i] < keep[j]
          /\ Len(some) = m /\ \A i \in 1..m : some[i] = names[keep[i]]
      BY <2>1, <2>2, <2>4, <2>5, <2>6
    <3> HIDE DEF names, some
    <3> QED BY <3>1, SelectedNames
  <2> QED BY <2>6, <2>7
<1> QED
  BY <1>1, <1>2

\* What pvaGetStructure makes of a structure has its field names.
LEMMA StructureFields ==
  ASSUME NEW b, NEW t, NEW req, IsStructure(t), t.id # "enum_t"
  PROVE  pvStructureToMx(b, Project(t, req)).fields = legalFieldNames(Project(t, req).names)
<1> DEFINE p == Project(t, req)
<1>1. p.kind = "struct" /\ p.id = t.id
  <2>1. CASE req = Whole
    BY <2>1 DEF Project, IsStructure, Struct
  <2>2. CASE req # Whole
    BY <2>2, ProjectShape DEF Struct
  <2> QED BY <2>1, <2>2
<1> HIDE DEF p
<1>2. pvStructureToMx(b, p).fields = legalFieldNames(p.names)
  BY <1>1 DEF pvStructureToMx, structToMx, IsNull, IsEnum, MxStruct
<1> QED
  BY <1>2 DEF p

\* pvaGetStructure hands over every field its request selects, whatever request the
\* monitor it is served from was set with.
THEOREM Complete == Spec => []StructureComplete
<1>1. ASSUME IInv, GotInv PROVE StructureComplete
  <2> SUFFICES ASSUME call.verb = "pvaGetStructure", NEW e, e \in Got
        PROVE  ToSet(legalFieldNames(Fields(Tree(e), call.req))) \subseteq ToSet(e.mx.fields)
    BY DEF StructureComplete
  <2>1. Origin(e)
    BY <1>1 DEF GotInv
  <2> DEFINE t == Tree(e)
  <2>2. IsStructure(t) /\ t.id # "enum_t" /\ DistinctSuffixes(t.names)
    BY <1>1, <2>1, SampleTree DEF Origin, Tree, IInv
  <2>3. PICK req \in {Whole, call.req} : e.mx = pvStructureToMx(backend, Project(t, req))
    BY <2>1 DEF Origin
  <2> HIDE DEF t
  <2>4. e.mx.fields = legalFieldNames(Project(t, req).names)
    BY <2>2, <2>3, StructureFields
  <2>5. ToSet(legalFieldNames(Project(t, call.req).names)) \subseteq ToSet(legalFieldNames(Project(t, req).names))
    <3>1. CASE req = Whole
      <4>1. Project(t, req) = t
        BY <3>1 DEF Project
      <4> QED BY <2>2, <4>1, ProjectNames
    <3>2. CASE req = call.req
      BY <3>2
    <3> QED BY <2>3, <3>1, <3>2
  <2> QED BY <2>4, <2>5 DEF Fields, t
<1> QED
  BY <1>1, GotInvariance, PTL

-----------------------------------------------------------------------------
(* The result.                                                             *)

\* The result of a call that is done, made of the values of its entries.
OutInv ==
  call.pc = "done" =>
    LET values == [i \in DOMAIN call.got |-> call.got[i].mx]
    IN  call.out = IF call.verb \in {"pvaGetStructure", "pvaGetEnumStrings"} /\ call.cell
                   THEN Cell(values) ELSE assembleValueOutput(values, call.cell)

\* Only Finish makes a result.
LEMMA OutStep ==
  ASSUME IInv, OutInv, [Next]_vars
  PROVE  OutInv'
<1>1. CASE UNCHANGED vars
  BY <1>1 DEF vars, OutInv, assembleValueOutput
<1>2. CASE Outside
  <2>1. call' = call
    BY <1>2, OutsideStep DEF IInv
  <2> QED BY <2>1 DEF OutInv, assembleValueOutput
<1>3. CASE \E c \in Calls : Begin(c)
  <2>1. call'.pc = "run"
    BY <1>3, BeginStep
  <2> QED BY <2>1 DEF OutInv
<1>4. CASE ReadNext
  <2>1. CallShape /\ call.pc = "run"
    BY <1>4, ReadNextEffect DEF IInv
  <2>2. call'.pc \in {"run", "failed"}
    <3>1. PICK g : call' = [call EXCEPT !.pc = "failed"] \/ call' = [call EXCEPT !.got = g]
      BY <1>4, ReadNextEffect DEF IInv
    <3>2. CASE call' = [call EXCEPT !.pc = "failed"]
      BY <2>1, <3>2, CallFields
    <3>3. CASE call' = [call EXCEPT !.got = g]
      BY <2>1, <3>3, CallFields
    <3> QED BY <3>1, <3>2, <3>3
  <2> QED BY <2>2 DEF OutInv
<1>5. CASE Finish
  <2>1. /\ call'.got = call.got /\ call'.verb = call.verb /\ call'.cell = call.cell
        /\ call'.out =
             LET values == [i \in DOMAIN call.got |-> call.got[i].mx]
             IN  IF call.verb \in {"pvaGetStructure", "pvaGetEnumStrings"} /\ call.cell
                 THEN Cell(values) ELSE assembleValueOutput(values, call.cell)
    BY <1>5, FinishStep DEF SameCall
  <2> QED BY <2>1 DEF OutInv, assembleValueOutput
<1> QED
  BY <1>1, <1>2, <1>3, <1>4, <1>5, NextCases

\* A list call returns its values in the order of the names, as a column or a cell.
THEOREM Ordered == Spec => []OutputInOrder
<1>1. ASSUME IInv, OutInv PROVE OutputInOrder
  <2> SUFFICES ASSUME call.pc = "done", call.cell, NEW i \in DOMAIN call.pvs
        PROVE  /\ call.got[i].ch = call.pvs[i]
               /\ CASE call.out.class = "cell" -> call.out.cells[i] = call.got[i].mx
                    [] call.out.class = "double" ->
                         /\ call.got[i].mx.class = "double" /\ Len(call.got[i].mx.data) = 1
                         /\ call.out.data[i] = call.got[i].mx.data[1]
    BY DEF OutputInOrder
  <2> DEFINE g == call.got
             values == [j \in DOMAIN g |-> g[j].mx]
  <2>1. /\ IsList(g) /\ Len(g) = Len(call.pvs) /\ call.pvs \in Seq(Channels)
        /\ \A j \in 1..Len(g) : g[j].ch = call.pvs[j]
    BY <1>1 DEF IInv, CallInv, CallShape
  <2>2. DOMAIN g = 1..Len(g) /\ i \in 1..Len(g)
    BY <2>1, AppendToList
  <2>3. \/ call.out = Cell(values)
        \/ /\ \A j \in DOMAIN values : values[j].class = "double" /\ Len(values[j].data) = 1
           /\ call.out = Double([j \in DOMAIN values |-> values[j].data[1]])
    BY <1>1 DEF OutInv, assembleValueOutput
  <2>4. i \in DOMAIN values /\ values[i] = g[i].mx
    BY <2>2
  <2> HIDE DEF values
  <2>5. CASE call.out = Cell(values)
    BY <2>1, <2>2, <2>4, <2>5 DEF Cell
  <2>6. CASE /\ \A j \in DOMAIN values : values[j].class = "double" /\ Len(values[j].data) = 1
             /\ call.out = Double([j \in DOMAIN values |-> values[j].data[1]])
    <3>1. call.out.class = "double" /\ call.out.data[i] = values[i].data[1]
      BY <2>4, <2>6 DEF Double
    <3> QED BY <2>1, <2>2, <2>4, <2>6, <3>1
  <2> QED BY <2>3, <2>5, <2>6
<1>2. ASSUME Init PROVE OutInv
  BY <1>2 DEF Init, NoCall, OutInv
<1>3. Spec => [](IInv /\ OutInv)
  <2>1. Init => IInv /\ OutInv
    BY <1>2, InitInv
  <2>2. (IInv /\ OutInv) /\ [Next]_vars => (IInv /\ OutInv)'
    BY CallStep, OutStep
  <2> QED BY <2>1, <2>2, PTL DEF Spec
<1> QED
  BY <1>1, <1>3, PTL

-----------------------------------------------------------------------------
(* What a step may never do.                                               *)

\* A monitor that stays keeps its cached sample, or takes a newer one.
LEMMA CacheStep ==
  ASSUME IInv, [Next]_vars, NEW ch \in Channels, mon[ch].on, mon'[ch].on, mon'[ch].latest # 0
  PROVE  mon'[ch].latest >= mon[ch].latest
<1>1. mon \in [Channels -> Monitors] /\ mon[ch].latest \in Nat
  BY MonitorShape DEF IInv, ReadsTyped
<1>2. CASE mon' = mon
  BY <1>1, <1>2
<1>3. ASSUME NEW c \in Channels, NEW m, mon' = [mon EXCEPT ![c] = m],
             c = ch => m.latest = mon[c].latest \/ m.latest >= mon[c].latest \/ m = NoMonitor
                       \/ m.latest = 0
      PROVE  mon'[ch].latest >= mon[ch].latest
  <2>1. CASE c = ch
    <3>1. mon'[ch] = m
      BY <1>1, <1>3, <2>1
    <3> QED BY <1>1, <1>3, <2>1, <3>1 DEF NoMonitor
  <2>2. CASE c # ch
    BY <1>1, <1>3, <2>2
  <2> QED BY <2>1, <2>2
<1>4. ASSUME NEW c \in Channels, Post(c) \/ Snapshot(c) \/ Disconnect(c) \/ Reconnect(c)
      PROVE  mon'[ch].latest >= mon[ch].latest
  <2>1. mon[c] \in Monitors
    BY <1>1
  <2>2. \/ mon' = mon
        \/ mon[c].on /\ \E q : mon' = [mon EXCEPT ![c].started = TRUE, ![c].queue = q]
        \/ mon[c].on /\ \E q : mon' = [mon EXCEPT ![c].queue = q]
        \/ mon[c].on /\ mon' = [mon EXCEPT ![c].started = FALSE]
    BY <1>4 DEF Post, Snapshot, Disconnect, Reconnect
  <2>3. ASSUME NEW m, mon' = [mon EXCEPT ![c] = m], m.latest = mon[c].latest
        PROVE  mon'[ch].latest >= mon[ch].latest
    BY <1>3, <2>3
  <2>4. ASSUME mon[c].on, NEW q
        PROVE  /\ [mon[c] EXCEPT !.started = TRUE, !.queue = q].latest = mon[c].latest
               /\ [mon[c] EXCEPT !.queue = q].latest = mon[c].latest
               /\ [mon[c] EXCEPT !.started = FALSE].latest = mon[c].latest
    BY <2>1, <2>4 DEF Monitors
  <2>5. ASSUME mon[c].on, NEW q, mon' = [mon EXCEPT ![c].started = TRUE, ![c].queue = q]
        PROVE  mon'[ch].latest >= mon[ch].latest
    BY <1>1, <2>3, <2>4, <2>5
  <2>6. ASSUME mon[c].on, NEW q, mon' = [mon EXCEPT ![c].queue = q]
        PROVE  mon'[ch].latest >= mon[ch].latest
    BY <1>1, <2>3, <2>4, <2>6
  <2>7. ASSUME mon[c].on, mon' = [mon EXCEPT ![c].started = FALSE]
        PROVE  mon'[ch].latest >= mon[ch].latest
    BY <1>1, <2>3, <2>4, <2>7
  <2> QED BY <1>2, <2>2, <2>5, <2>6, <2>7
<1>5. ASSUME NEW c \in Channels, Poll(c) \/ Wait(c)
      PROVE  mon'[ch].latest >= mon[ch].latest
  BY <1>3, <1>5, PollWaitStep DEF IInv
<1>6. ASSUME NEW c \in Channels, NEW req \in Requests, SetMonitor(c, req)
      PROVE  mon'[ch].latest >= mon[ch].latest
  <2>1. mon' = [mon EXCEPT ![c] = Subscription(req)] \/ mon' = [mon EXCEPT ![c] = NoMonitor]
    BY <1>6 DEF SetMonitor, pvaMonitorSet
  <2>2. Subscription(req).latest = 0
    BY DEF Subscription
  <2> QED BY <1>3, <2>1, <2>2
<1>7. ASSUME NEW chs, pvaClear(chs)
      PROVE  mon'[ch].latest >= mon[ch].latest
  <2>1. mon'[ch] = IF ch \in chs THEN NoMonitor ELSE mon[ch]
    BY <1>7 DEF pvaClear
  <2> QED BY <1>1, <2>1 DEF NoMonitor
<1>8. mon' = mon \/ Outside
  BY NextCases DEF vars, Begin, ReadNext, Finish
<1> QED
  BY <1>2, <1>4, <1>5, <1>6, <1>7, <1>8 DEF Outside

\* Of one channel the cache is never served backwards while its monitor lives.
THEOREM Forward == Spec => CacheForward
<1>1. ASSUME IInv, [Next]_vars
      PROVE  [\A ch \in Channels :
                mon[ch].on /\ mon'[ch].on /\ mon'[ch].latest # 0
                  => mon'[ch].latest >= mon[ch].latest]_vars
  BY <1>1, CacheStep
<1> QED
  BY <1>1, Invariance, PTL DEF Spec, CacheForward

\* A sample pvaGet has can be converted, whatever its type and the type asked for.
LEMMA NeverError ==
  ASSUME NEW b, NEW t, NEW type
  PROVE  pvValueToMx(b, t, type).class # "error"
<1> DEFINE v == Field(t, "value")
<1>1. pvStructureToMx(b, t).class # "error"
  BY DEF pvStructureToMx, structToMx, enumToMx, MxStruct
<1>2. enumValueToMx(v, type).class # "error"
  BY DEF enumValueToMx, Char, Double
<1>3. scalarToMx(v).class # "error"
  BY DEF scalarToMx, Char, Double, Logical
<1>4. arrayToMx(v).class # "error"
  BY DEF arrayToMx, Cell, Double, Logical
<1>5. valueAsText(b, v).class # "error"
  <2>1. CASE v.kind = "scalar"
    <3>1. \E x : valueAsText(b, v) = Char(x)
      BY <2>1 DEF valueAsText
    <3> QED BY <3>1 DEF Char
  <2>2. CASE v.kind = "array" /\ v.type = "string"
    BY <1>4, <2>2 DEF valueAsText
  <2>3. CASE v.kind # "scalar" /\ ~(v.kind = "array" /\ v.type = "string")
    <3>1. valueAsText(b, v) = Undefined \/ \E x : valueAsText(b, v) = Cell(x)
      BY <2>3 DEF valueAsText
    <3> QED BY <3>1 DEF Cell, Undefined
  <2> QED BY <2>1, <2>2, <2>3
<1> HIDE DEF v
<1>6. pvValueToMx(b, t, type) \in
        {pvStructureToMx(b, t), enumValueToMx(v, type), scalarToMx(v), arrayToMx(v), valueAsText(b, v)}
  BY DEF pvValueToMx, v, IsNull, IsEnum
<1> QED
  BY <1>1, <1>2, <1>3, <1>4, <1>5, <1>6

\* While a sample of the whole structure is cached, a read of the value is answered.
THEOREM Outlives == Spec => CacheOutlivesOutage
<1>1. ASSUME IInv, [Next]_vars, call.pc = "run", call'.pc = "failed", ~call.poll, call.verb = "pvaGet"
      PROVE  LET ch == call.pvs[Len(call.got) + 1]
             IN  ~(mon[ch].on /\ mon[ch].latest # 0 /\ (mon[ch].req = Whole))
  <2>1. ReadNext
    <3>1. ~(UNCHANGED vars \/ Outside)
      BY <1>1, OutsideStep DEF vars, IInv
    <3>2. ~(\E c \in Calls : Begin(c)) /\ ~Finish
      BY <1>1, BeginStep, FinishStep
    <3> QED BY <1>1, <3>1, <3>2, NextCases
  <2>2. CallShape
    BY <1>1, <2>1, ReadNextEffect DEF IInv
  <2>3. PICK ch \in Channels :
          /\ ch = call.pvs[Len(call.got) + 1]
          /\ \/ Sample(call, ch).v = 0 \/ Converted(call, Sample(call, ch).pv).class = "error"
             \/ \E g : call' = [call EXCEPT !.got = g]
    BY <1>1, <2>1, ReadNextEffect DEF IInv
  <2>4. ~ \E g : call' = [call EXCEPT !.got = g]
    BY <1>1, <2>2, CallFields
  <2>5. ASSUME mon[ch].on, mon[ch].latest # 0, mon[ch].req = Whole
        PROVE  FALSE
    <3>1. Sample(call, ch) = [cached |-> TRUE, v |-> mon[ch].latest, pv |-> cachedSample(ch)]
      BY <1>1, <2>5 DEF Sample, pvaGet, servedFromCache, monitorCovers
    <3>2. Sample(call, ch).v # 0
      BY <2>5, <3>1
    <3>4. Converted(call, Sample(call, ch).pv) = pvValueToMx(backend, Sample(call, ch).pv, call.type)
      BY <1>1 DEF Converted
    <3> DEFINE mx == pvValueToMx(backend, Sample(call, ch).pv, call.type)
    <3>5. mx.class # "error"
      BY NeverError
    <3> HIDE DEF mx
    <3>6. Converted(call, Sample(call, ch).pv) = mx
      BY <3>4 DEF mx
    <3> QED BY <2>3, <2>4, <3>2, <3>5, <3>6
  <2> QED BY <2>3, <2>5
<1> QED
  BY <1>1, Invariance, PTL DEF Spec, CacheOutlivesOutage
=============================================================================
