---------------------------- MODULE MonitorProofs -----------------------------
(* Proofs about the monitor, for every queue size and number of samples:   *)
(* no wakeup is lost, and the drain loop implements NewSample.             *)
EXTENDS Monitor, SequenceTheorems, TLAPS

\* The queue holds samples in the order they were sent, all newer than the cached
\* one, and nothing behind the end of the subscription.
QueueOK ==
  /\ samples \in Nat /\ samples <= MaxSamples
  /\ latest \in Nat /\ latest <= samples
  /\ queue \in Seq(Nat) /\ ended \in BOOLEAN
  /\ \A i \in 1..Len(queue) : queue[i] <= samples
  /\ \A i \in 1..Len(queue) : queue[i] = 0 => ended /\ i = Len(queue)
  /\ \A i \in 1..Len(queue) : queue[i] # 0 => queue[i] > latest
  /\ \A i, j \in 1..Len(queue) : i < j /\ queue[j] # 0 => queue[i] < queue[j]

\* A call that has drained a sample holds a newer one than MATLAB knows of; no
\* other does, and none sleeps on a drained sample.
CallOK ==
  /\ before \in Nat /\ got \in BOOLEAN /\ pc \in {"idle", "drain", "sleep"}
  /\ pc = "sleep" => ~got
  /\ IF pc = "drain" /\ got THEN latest > before ELSE latest = before

RefInv == QueueOK /\ CallOK

\* Before a monitor is set, nobody sleeps.
LEMMA InitWakeup == Init => NoLostWakeup
BY DEF Init, NoLostWakeup

\* A sample or an end that reaches the queue is announced if the queue was empty,
\* and was announced before, or has been, if it was not.
LEMMA PushKeepsWakeup ==
  ASSUME NoLostWakeup, NEW x, Push(x)
  PROVE  NoLostWakeup'
<1>1. CASE queue = <<>>
  BY <1>1 DEF Push, NoLostWakeup
<1>2. CASE queue # <<>>
  BY <1>2 DEF Push, NoLostWakeup
<1> QED BY <1>1, <1>2

\* The MATLAB thread falls asleep on an empty queue only, and a call that clears
\* the event or leaves a sample behind is awake.
LEMMA MatlabKeepsWakeup ==
  ASSUME NoLostWakeup,
         MonitorSet \/ MonitorSetFails \/ PvaClear
           \/ (\E w \in BOOLEAN : Start(w)) \/ NoMonitor \/ Drain \/ TimeOut
  PROVE  NoLostWakeup'
<1>1. CASE MonitorSet \/ MonitorSetFails \/ PvaClear
  BY <1>1 DEF MonitorSet, MonitorSetFails, PvaClear, Renewed, NoLostWakeup
<1>2. CASE \E w \in BOOLEAN : Start(w)
  BY <1>2 DEF Start, NoLostWakeup
<1>3. CASE Pop \/ Wake
  BY <1>3 DEF Pop, Wake, NoLostWakeup
<1>4. CASE PopThrows \/ Drained \/ PollEmpty \/ TimeOut \/ NoMonitor
  BY <1>4 DEF PopThrows, Drained, PollEmpty, TimeOut, NoMonitor, Return, NoLostWakeup
<1>5. CASE WaitSleeps
  BY <1>5 DEF WaitSleeps, subVars, NoLostWakeup
<1> QED
  BY <1>1, <1>2, <1>3, <1>4, <1>5 DEF Drain

\* Every step, of either thread, keeps the wakeup.
LEMMA WakeupStep == NoLostWakeup /\ [Next]_vars => NoLostWakeup'
<1> SUFFICES ASSUME NoLostWakeup, [Next]_vars PROVE NoLostWakeup'
  OBVIOUS
<1>1. CASE Sample \/ End
  BY <1>1, PushKeepsWakeup DEF Sample, End
<1>2. CASE Event
  BY <1>2 DEF Event, NoLostWakeup
<1>3. CASE UNCHANGED vars
  BY <1>3 DEF vars, subVars, NoLostWakeup
<1> QED
  BY <1>1, <1>2, <1>3, MatlabKeepsWakeup DEF Next

\* A pvaMonitorWait that sleeps while the queue holds a sample is about to be
\* woken by the event, whatever the order of pushes, callbacks and drains.
THEOREM WakeupsKept == Spec => []NoLostWakeup
<1> QED
  BY InitWakeup, WakeupStep, PTL DEF Spec

-----------------------------------------------------------------------------
(* The drain loop implements NewSample.                                    *)

\* Before a monitor is set, there is neither a sample nor a call.
LEMMA InitRefInv == Init => RefInv
<1> SUFFICES ASSUME Init PROVE RefInv
  OBVIOUS
<1>1. QueueOK
  <2>1. queue = <<>> /\ Len(queue) = 0 /\ queue \in Seq(Nat)
    BY DEF Init
  <2>2. samples = 0 /\ latest = 0 /\ ended = FALSE /\ MaxSamples \in Nat
    BY QueueAssumption DEF Init
  <2>3. 1..Len(queue) = {}
    BY <2>1
  <2>4. samples \in Nat /\ samples <= MaxSamples /\ latest \in Nat /\ latest <= samples
    BY <2>2
  <2>5. queue \in Seq(Nat) /\ ended \in BOOLEAN
    BY <2>1, <2>2
  <2> QED BY <2>3, <2>4, <2>5 DEF QueueOK
<1>2. CallOK
  BY DEF Init, CallOK
<1> QED BY <1>1, <1>2 DEF RefInv

\* Without its oldest sample, which is cached, the queue is in order still.
LEMMA PopKeeps == ASSUME RefInv, Pop PROVE RefInv'
<1>1. /\ queue \in Seq(Nat) /\ Len(queue) \in Nat \ {0} /\ queue[1] # 0
      /\ latest' = queue[1] /\ queue' = Tail(queue)
      /\ samples' = samples /\ ended' = ended /\ before' = before /\ pc' = pc
      /\ pc = "drain" /\ got' = TRUE
  BY DEF RefInv, QueueOK, Pop
<1>2. /\ queue' \in Seq(Nat) /\ Len(queue') = Len(queue) - 1
      /\ \A i \in 1..Len(queue') : i + 1 \in 1..Len(queue) /\ queue'[i] = queue[i + 1]
  BY <1>1
<1>3. /\ 1 \in 1..Len(queue) /\ queue[1] > latest /\ queue[1] \in Nat
      /\ queue[1] <= samples
  BY <1>1 DEF RefInv, QueueOK
<1>4. ASSUME NEW i \in 1..Len(queue')
      PROVE  /\ queue'[i] <= samples
             /\ queue'[i] = 0 => ended /\ i = Len(queue')
             /\ queue'[i] # 0 => queue'[i] > queue[1]
  <2>1. i + 1 \in 1..Len(queue) /\ queue'[i] = queue[i + 1] /\ 1 < i + 1
    BY <1>1, <1>2
  <2>2. queue[i + 1] <= samples /\ (queue[i + 1] = 0 => ended /\ i + 1 = Len(queue))
    BY <2>1 DEF RefInv, QueueOK
  <2>3. queue[i + 1] # 0 => queue[1] < queue[i + 1]
    BY <1>3, <2>1 DEF RefInv, QueueOK
  <2>4. queue[i + 1] \in Nat
    BY <1>1, <2>1
  <2>5. i + 1 = Len(queue) => i = Len(queue')
    <3>1. i \in Nat /\ Len(queue) \in Nat \ {0} /\ Len(queue') = Len(queue) - 1
      BY <1>1, <1>2
    <3> QED BY <3>1
  <2> QED BY <2>1, <2>2, <2>3, <2>5
<1>5. ASSUME NEW i \in 1..Len(queue'), NEW j \in 1..Len(queue'), i < j, queue'[j] # 0
      PROVE  queue'[i] < queue'[j]
  <2>1. /\ i + 1 \in 1..Len(queue) /\ queue'[i] = queue[i + 1]
        /\ j + 1 \in 1..Len(queue) /\ queue'[j] = queue[j + 1] /\ i + 1 < j + 1
    BY <1>1, <1>2, <1>5
  <2> QED BY <1>5, <2>1 DEF RefInv, QueueOK
<1>6. QueueOK'
  <2>1. samples \in Nat /\ samples <= MaxSamples /\ ended \in BOOLEAN
    BY DEF RefInv, QueueOK
  <2> QED BY <1>1, <1>2, <1>3, <1>4, <1>5, <2>1 DEF QueueOK
<1>7. CallOK'
  <2>1. before \in Nat /\ latest \in Nat /\ before <= latest
    BY <1>1 DEF RefInv, QueueOK, CallOK
  <2> QED BY <1>1, <1>3, <2>1 DEF CallOK
<1> QED BY <1>6, <1>7 DEF RefInv

\* When the end of the subscription is popped, the queue is empty.
LEMMA EndIsLast == ASSUME RefInv, PopThrows PROVE Len(queue) = 1 /\ queue' = <<>>
<1>1. /\ queue \in Seq(Nat) /\ Len(queue) \in Nat \ {0} /\ queue[1] = 0
      /\ queue' = Tail(queue)
  BY DEF RefInv, QueueOK, PopThrows
<1>2. 1 \in 1..Len(queue)
  BY <1>1
<1>3. Len(queue) = 1
  BY <1>1, <1>2 DEF RefInv, QueueOK
<1>4. Len(queue') = 0 /\ queue' \in Seq(Nat)
  BY <1>1, <1>3
<1> QED BY <1>3, <1>4

\* A call returns with what it has drained known to MATLAB.
LEMMA ReturnKeeps ==
  ASSUME RefInv, PopThrows \/ Drained \/ PollEmpty \/ TimeOut \/ NoMonitor PROVE RefInv'
<1>1. CASE PopThrows
  <2>1. queue' = <<>>
    BY <1>1, EndIsLast
  <2>2. QueueOK'
    BY <1>1, <2>1 DEF PopThrows, RefInv, QueueOK, Return
  <2>3. CallOK'
    BY <1>1 DEF PopThrows, RefInv, QueueOK, CallOK, Return
  <2> QED BY <2>2, <2>3 DEF RefInv
<1>2. CASE Drained \/ PollEmpty \/ TimeOut \/ NoMonitor
  <2>1. QueueOK'
    BY <1>2 DEF Drained, PollEmpty, TimeOut, NoMonitor, subVars, RefInv, QueueOK
  <2>2. CallOK'
    BY <1>2 DEF Drained, PollEmpty, TimeOut, NoMonitor, RefInv, QueueOK, CallOK, Return
  <2> QED BY <2>1, <2>2 DEF RefInv
<1> QED BY <1>1, <1>2

\* Starting a call, falling asleep, waking up and the event callback leave the
\* samples alone.
LEMMA QuietKeeps ==
  ASSUME RefInv,
         (\E w \in BOOLEAN : Start(w)) \/ WaitSleeps \/ Wake \/ Event \/ UNCHANGED vars
  PROVE  /\ RefInv'
         /\ <<samples, queue, latest, before, answer>>'
              = <<samples, queue, latest, before, answer>>
<1>1. /\ <<samples, queue, latest, before, answer>>'
           = <<samples, queue, latest, before, answer>>
      /\ ended' = ended
  BY DEF Start, WaitSleeps, Wake, Event, vars, subVars
<1>2. QueueOK'
  BY <1>1 DEF RefInv, QueueOK
<1>3. CallOK'
  <2>1. CASE \E w \in BOOLEAN : Start(w)
    BY <2>1 DEF Start, RefInv, CallOK
  <2>2. CASE WaitSleeps \/ Wake
    <3>1. /\ latest' = latest /\ before' = before /\ got' = got /\ ~got
          /\ pc \in {"drain", "sleep"} /\ pc' \in {"drain", "sleep"}
      BY <2>2 DEF WaitSleeps, Wake, subVars, RefInv, CallOK
    <3> QED BY <3>1 DEF RefInv, CallOK
  <2>3. CASE Event \/ UNCHANGED vars
    BY <2>3 DEF Event, vars, RefInv, CallOK
  <2> QED BY <2>1, <2>2, <2>3
<1> QED BY <1>1, <1>2, <1>3 DEF RefInv

\* A monitor set, set again or cleared has no samples.
LEMMA RenewKeeps == ASSUME RefInv, NEW a \in BOOLEAN, Renewed(a) PROVE RefInv'
<1>1. QueueOK'
  <2>1. /\ queue' = <<>> /\ Len(queue') = 0 /\ queue' \in Seq(Nat)
        /\ latest' = 0 /\ ended' = FALSE /\ samples' = samples
    BY DEF Renewed
  <2>2. 1..Len(queue') = {}
    BY <2>1
  <2>3. samples' \in Nat /\ samples' <= MaxSamples /\ latest' \in Nat /\ latest' <= samples'
    BY <2>1 DEF RefInv, QueueOK
  <2>4. queue' \in Seq(Nat) /\ ended' \in BOOLEAN
    BY <2>1
  <2> QED BY <2>2, <2>3, <2>4 DEF QueueOK
<1>2. CallOK'
  <2>1. got' = got /\ pc' = "idle" /\ latest' = 0 /\ before' = 0
    BY DEF Renewed
  <2> QED BY <2>1 DEF RefInv, CallOK
<1> QED BY <1>1, <1>2 DEF RefInv

\* A new sample is the newest of the queue, appended or merged into the last.
LEMMA SampleKeeps ==
  ASSUME RefInv, Sample
  PROVE  /\ RefInv'
         /\ Len(queue') \in Nat \ {0} /\ queue'[Len(queue')] = samples + 1
<1> DEFINE x == samples + 1
<1>1. /\ samples \in Nat /\ MaxSamples \in Nat /\ samples < MaxSamples /\ samples' = x
      /\ queue \in Seq(Nat) /\ Len(queue) \in Nat /\ ~ended /\ ~ended'
      /\ QueueSize \in Nat \ {0} /\ queue' = Queued(x)
      /\ latest' = latest /\ latest \in Nat /\ latest <= samples
      /\ \A i \in 1..Len(queue) : queue[i] \in Nat /\ queue[i] <= samples /\ queue[i] > latest
      /\ \A i, j \in 1..Len(queue) : i < j => queue[i] < queue[j]
  BY QueueAssumption DEF Sample, Push, RefInv, QueueOK
<1> HIDE DEF x
<1>2. /\ queue' \in Seq(Nat) /\ Len(queue') \in Nat \ {0}
      /\ queue'[Len(queue')] = x
      /\ \A i \in 1..Len(queue') : i # Len(queue') => i \in 1..Len(queue) /\ queue'[i] = queue[i]
  <2>1. CASE Len(queue) >= QueueSize
    BY <1>1, <2>1 DEF Queued, x
  <2>2. CASE ~(Len(queue) >= QueueSize)
    BY <1>1, <2>2 DEF Queued, x
  <2> QED BY <2>1, <2>2
<1> DEFINE n == Len(queue')
<1>3. ASSUME NEW i \in 1..n
      PROVE  queue'[i] # 0 /\ queue'[i] > latest' /\ queue'[i] <= x
  <2>1. CASE i = n
    BY <1>1, <1>2, <2>1 DEF x
  <2>2. CASE i # n
    <3>1. i \in 1..Len(queue) /\ queue'[i] = queue[i]
      BY <1>2, <2>2
    <3> QED BY <1>1, <3>1 DEF x
  <2> QED BY <2>1, <2>2
<1>4. ASSUME NEW i \in 1..n, NEW j \in 1..n, i < j
      PROVE  queue'[i] < queue'[j]
  <2>1. i # n /\ i \in 1..Len(queue) /\ queue'[i] = queue[i]
    <3>1. n \in Nat /\ i \in Nat /\ j \in Nat /\ j <= n
      BY <1>2
    <3>2. i # n
      BY <1>4, <3>1
    <3> QED BY <1>2, <3>2
  <2>2. CASE j = n
    BY <1>1, <1>2, <2>1, <2>2 DEF x
  <2>3. CASE j # n
    <3>1. j \in 1..Len(queue) /\ queue'[j] = queue[j]
      BY <1>2, <2>3
    <3> QED BY <1>1, <1>4, <2>1, <3>1
  <2> QED BY <2>2, <2>3
<1>5. QueueOK'
  <2>1. /\ samples' \in Nat /\ samples' <= MaxSamples
        /\ latest' \in Nat /\ latest' <= samples'
    BY <1>1 DEF x
  <2>2. ended' \in BOOLEAN
    BY DEF Sample, Push
  <2> QED BY <1>1, <1>2, <1>3, <1>4, <2>1, <2>2 DEF QueueOK
<1>6. CallOK'
  BY DEF Sample, Push, RefInv, CallOK
<1> QED BY <1>2, <1>5, <1>6 DEF RefInv, x

\* The end goes behind the last sample.
LEMMA EndKeeps ==
  ASSUME RefInv, End
  PROVE  /\ RefInv' /\ Len(queue) \in Nat /\ queue' = Append(queue, 0)
         /\ \A i \in 1..Len(queue) : queue[i] # 0
<1>1. /\ queue \in Seq(Nat) /\ Len(queue) \in Nat /\ samples \in Nat
      /\ queue' = Append(queue, 0) /\ samples' = samples /\ ended' = TRUE
      /\ latest' = latest /\ \A i \in 1..Len(queue) : queue[i] # 0
  <2>1. queue \in Seq(Nat) /\ samples \in Nat /\ ~ended
    BY DEF End, Push, RefInv, QueueOK
  <2>2. \A i \in 1..Len(queue) : queue[i] # 0
    BY <2>1 DEF RefInv, QueueOK
  <2>3. Queued(0) = Append(queue, 0)
    BY DEF Queued
  <2>4. /\ samples' = samples /\ latest' = latest /\ queue' = Queued(0)
        /\ ended' = (0 = 0)
    BY DEF End, Push
  <2>5. ended' = TRUE
    BY <2>4
  <2>6. queue' = Append(queue, 0)
    BY <2>3, <2>4
  <2>7. Len(queue) \in Nat
    BY <2>1
  <2> QED BY <2>1, <2>2, <2>4, <2>5, <2>6, <2>7
<1>2. /\ queue' \in Seq(Nat) /\ Len(queue') = Len(queue) + 1
      /\ queue'[Len(queue')] = 0
      /\ \A i \in 1..Len(queue) : queue'[i] = queue[i]
  BY <1>1
<1>3. QueueOK'
  BY <1>1, <1>2 DEF RefInv, QueueOK
<1>4. CallOK'
  BY DEF End, Push, RefInv, CallOK
<1> QED BY <1>1, <1>3, <1>4 DEF RefInv

\* RefInv is inductive.
LEMMA RefInvStep == RefInv /\ [Next]_vars => RefInv'
<1> SUFFICES ASSUME RefInv, [Next]_vars PROVE RefInv'
  OBVIOUS
<1>1. CASE MonitorSet \/ MonitorSetFails \/ PvaClear
  BY <1>1, RenewKeeps DEF MonitorSet, MonitorSetFails, PvaClear
<1>2. CASE Pop
  BY <1>2, PopKeeps
<1>3. CASE PopThrows \/ Drained \/ PollEmpty \/ TimeOut \/ NoMonitor
  BY <1>3, ReturnKeeps
<1>4. CASE (\E w \in BOOLEAN : Start(w)) \/ WaitSleeps \/ Wake \/ Event \/ UNCHANGED vars
  BY <1>4, QuietKeeps
<1>5. CASE Sample
  BY <1>5, SampleKeeps
<1>6. CASE End
  BY <1>6, EndKeeps
<1> QED
  BY <1>1, <1>2, <1>3, <1>4, <1>5, <1>6 DEF Next, Drain

\* With nothing but the end of the subscription left in the queue, the newest
\* sample is the one drained last; it is never older than that one.
LEMMA NewestKnown ==
  ASSUME RefInv
  PROVE  /\ Newest \in Nat /\ latest <= Newest /\ Newest <= samples
         /\ queue = <<>> => Newest = latest
         /\ Len(queue) = 1 /\ queue[1] = 0 => Newest = latest
<1>1. /\ queue \in Seq(Nat) /\ Len(queue) \in Nat /\ latest \in Nat /\ samples \in Nat
      /\ latest <= samples
  BY DEF RefInv, QueueOK
<1>2. \A i \in 1..Len(queue) :
        queue[i] \in Nat /\ queue[i] <= samples /\ (queue[i] # 0 => queue[i] > latest)
  BY <1>1 DEF RefInv, QueueOK
<1>3. CASE Len(queue) >= 1 /\ queue[Len(queue)] # 0
  <2>1. Newest = queue[Len(queue)] /\ Len(queue) \in 1..Len(queue) /\ queue # <<>>
    BY <1>1, <1>3 DEF Newest
  <2> QED BY <1>1, <1>2, <1>3, <2>1
<1>4. CASE Len(queue) >= 2 /\ queue[Len(queue)] = 0
  <2>1. /\ Newest = queue[Len(queue) - 1] /\ Len(queue) - 1 \in 1..Len(queue)
        /\ queue # <<>>
    BY <1>1, <1>4 DEF Newest
  <2>2. queue[Len(queue) - 1] # 0
    BY <1>1, <1>4, <2>1 DEF RefInv, QueueOK
  <2> QED BY <1>1, <1>2, <1>4, <2>1, <2>2
<1>5. CASE ~(Len(queue) >= 1 /\ queue[Len(queue)] # 0)
            /\ ~(Len(queue) >= 2 /\ queue[Len(queue)] = 0)
  <2>1. Newest = latest
    BY <1>5 DEF Newest
  <2> QED BY <1>1, <2>1
<1> QED BY <1>1, <1>3, <1>4, <1>5

\* Draining a sample does not change which one is the newest.
LEMMA PopKeepsNewest == ASSUME RefInv, Pop PROVE Newest' = Newest
<1> DEFINE n == Len(queue)
<1>1. /\ queue \in Seq(Nat) /\ n \in Nat \ {0} /\ queue[1] # 0
      /\ latest' = queue[1] /\ queue' = Tail(queue)
  BY DEF RefInv, QueueOK, Pop
<1>2. /\ Len(queue') = n - 1
      /\ \A i \in 1..(n - 1) : queue'[i] = queue[i + 1]
  BY <1>1
<1> HIDE DEF n
<1>3. CASE n = 1
  <2>1. Newest = queue[1]
    BY <1>1, <1>3 DEF Newest, n
  <2>2. Len(queue') = 0
    BY <1>2, <1>3
  <2>3. Newest' = latest'
    BY <2>2 DEF Newest
  <2> QED BY <1>1, <2>1, <2>3
<1>4. CASE n >= 2 /\ queue[n] # 0
  <2>1. queue'[n - 1] = queue[n] /\ n - 1 >= 1
    BY <1>1, <1>2, <1>4
  <2> QED BY <1>1, <1>2, <1>4, <2>1 DEF Newest, n
<1>5. CASE n = 2 /\ queue[n] = 0
  <2>1. queue'[1] = 0 /\ Len(queue') = 1
    BY <1>2, <1>5
  <2>2. Newest' = latest'
    BY <2>1 DEF Newest
  <2>3. Newest = queue[1]
    BY <1>5 DEF Newest, n
  <2> QED BY <1>1, <2>2, <2>3
<1>6. CASE n >= 3 /\ queue[n] = 0
  <2>1. queue'[n - 1] = queue[n] /\ queue'[n - 2] = queue[n - 1] /\ n - 1 >= 2
    <3>1. n - 1 \in 1..(n - 1) /\ n - 2 \in 1..(n - 1) /\ n - 1 >= 2
          /\ (n - 1) + 1 = n /\ (n - 2) + 1 = n - 1
      BY <1>1, <1>6
    <3> QED BY <1>2, <3>1
  <2>2. Newest = queue[n - 1]
    BY <1>6 DEF Newest, n
  <2>3. Newest' = queue'[n - 2]
    <3>1. Len(queue') = n - 1 /\ queue'[n - 1] = 0 /\ (n - 1) - 1 = n - 2
      BY <1>1, <1>2, <1>6, <2>1
    <3> QED BY <1>1, <2>1, <3>1 DEF Newest
  <2> QED BY <2>1, <2>2, <2>3
<1> QED BY <1>1, <1>3, <1>4, <1>5, <1>6

\* Nor does the end of the subscription, as it arrives.
LEMMA EndKeepsNewest == ASSUME RefInv, End PROVE Newest' = Newest
<1> DEFINE n == Len(queue)
<1>1. /\ queue \in Seq(Nat) /\ n \in Nat /\ queue' = Append(queue, 0)
      /\ latest' = latest /\ \A i \in 1..n : queue[i] # 0
  BY EndKeeps DEF End, Push, RefInv, QueueOK
<1>2. Len(queue') = n + 1 /\ queue'[n + 1] = 0 /\ \A i \in 1..n : queue'[i] = queue[i]
  BY <1>1
<1> HIDE DEF n
<1>3. CASE n = 0
  <2>1. Newest = latest
    BY <1>3 DEF Newest, n
  <2>2. Len(queue') = 1 /\ queue'[1] = 0
    BY <1>2, <1>3
  <2>3. Newest' = latest'
    BY <2>2 DEF Newest
  <2> QED BY <1>1, <2>1, <2>3
<1>4. CASE n >= 1
  <2>1. n \in 1..n /\ queue[n] # 0 /\ queue'[n] = queue[n]
    BY <1>1, <1>2, <1>4
  <2>2. Newest = queue[n]
    BY <1>4, <2>1 DEF Newest, n
  <2>3. Newest' = queue'[n]
    <3>1. Len(queue') >= 2 /\ queue'[Len(queue')] = 0 /\ Len(queue') - 1 = n
      BY <1>1, <1>2, <1>4
    <3> QED BY <3>1 DEF Newest
  <2> QED BY <2>1, <2>2, <2>3
<1> QED BY <1>1, <1>3, <1>4

\* No sample, no answer: NewSample starts where the monitor does.
LEMMA InitImplements == Init => Promise!Init
<1> SUFFICES ASSUME Init PROVE Promise!Init
  OBVIOUS
<1>1. queue = <<>> /\ latest = 0 /\ RefInv
  BY InitRefInv DEF Init
<1>2. Newest = 0
  BY <1>1, NewestKnown
<1> QED BY <1>2 DEF Init, Promise!Init

\* Setting or clearing the monitor is a Renew.
LEMMA RenewImplements ==
  ASSUME RefInv, NEW a \in BOOLEAN, Renewed(a) PROVE Promise!Renew
<1>1. Len(queue') = 0 /\ latest' = 0 /\ before' = 0 /\ answer' = "none"
  BY DEF Renewed
<1>2. Newest' = 0
  BY <1>1 DEF Newest
<1> QED BY <1>1, <1>2 DEF Promise!Renew

\* A sample that reaches the queue is received.
LEMMA SampleImplements == ASSUME RefInv, Sample PROVE Promise!Receive
<1>1. /\ samples \in Nat /\ samples + 1 <= MaxSamples /\ MaxSamples \in Nat
      /\ before' = before /\ answer' = answer
  BY QueueAssumption DEF Sample, Push, RefInv, QueueOK
<1>2. Newest' = samples + 1
  <2>1. Len(queue') \in Nat \ {0} /\ queue'[Len(queue')] = samples + 1
    BY SampleKeeps
  <2>2. queue'[Len(queue')] # 0 /\ Len(queue') >= 1
    BY <1>1, <2>1
  <2> QED BY <2>1, <2>2 DEF Newest
<1>3. Newest \in Nat /\ Newest <= samples
  BY NewestKnown
<1>4. before \in Nat /\ before <= samples
  BY <1>1 DEF RefInv, QueueOK, CallOK
<1> QED BY <1>1, <1>2, <1>3, <1>4 DEF Promise!Receive, Promise!Samples

\* A call that answers takes the newest sample, or there is none, or it was out of
\* time, or the subscription has ended or never began.
LEMMA ReturnImplements ==
  ASSUME RefInv, PopThrows \/ Drained \/ PollEmpty \/ TimeOut \/ NoMonitor PROVE Promise!Next
<1>1. CASE PopThrows
  <2>1. Len(queue) = 1 /\ queue[1] = 0 /\ Len(queue') = 0
    BY <1>1, EndIsLast DEF PopThrows
  <2>2. latest' = latest /\ before' = latest /\ answer' = "error"
    BY <1>1 DEF PopThrows, Return
  <2>3. Newest = latest
    BY <2>1, NewestKnown
  <2>4. Newest' = latest'
    BY <2>1 DEF Newest
  <2>5. Promise!Broken
    BY <2>2, <2>3, <2>4 DEF Promise!Broken
  <2> QED BY <2>5 DEF Promise!Next
<1>2. CASE Drained \/ PollEmpty \/ TimeOut \/ NoMonitor
  <2>1. /\ queue' = queue /\ latest' = latest /\ before' = latest
        /\ before \in Nat /\ latest \in Nat
    BY <1>2 DEF Drained, PollEmpty, TimeOut, NoMonitor, Return, subVars,
                RefInv, QueueOK, CallOK
  <2>2. Newest' = Newest
    BY <2>1 DEF Newest
  <2>3. CASE Drained
    <3>1. Newest = latest /\ latest > before /\ answer' = "new"
      BY <2>3, NewestKnown DEF Drained, Return, RefInv, CallOK
    <3>2. Promise!Take
      BY <2>1, <2>2, <3>1 DEF Promise!Take
    <3> QED BY <3>2 DEF Promise!Next
  <2>4. CASE PollEmpty
    <3>1. Newest = latest /\ latest = before /\ answer' = "old"
      BY <2>4, NewestKnown DEF PollEmpty, Return, RefInv, CallOK
    <3>2. Promise!NothingNew
      BY <2>1, <2>2, <3>1 DEF Promise!NothingNew
    <3> QED BY <3>2 DEF Promise!Next
  <2>5. CASE TimeOut
    <3>1. latest = before /\ answer' = "late"
      BY <2>5 DEF TimeOut, Return, RefInv, CallOK
    <3>2. Promise!TimeOut
      BY <2>1, <2>2, <3>1 DEF Promise!TimeOut
    <3> QED BY <3>2 DEF Promise!Next
  <2>6. CASE NoMonitor
    <3>1. latest = before /\ answer' = "error"
      BY <2>6 DEF NoMonitor, Return, RefInv, CallOK
    <3>2. Promise!Broken
      BY <2>1, <2>2, <3>1 DEF Promise!Broken
    <3> QED BY <3>2 DEF Promise!Next
  <2> QED BY <1>2, <2>3, <2>4, <2>5, <2>6
<1> QED BY <1>1, <1>2

\* Every step of the monitor is a step of NewSample or none.
LEMMA StepImplements ==
  RefInv /\ [Next]_vars => [Promise!Next]_(Promise!vars)
<1> SUFFICES ASSUME RefInv, [Next]_vars PROVE [Promise!Next]_(Promise!vars)
  OBVIOUS
<1>1. CASE MonitorSet \/ MonitorSetFails \/ PvaClear
  <2>1. Promise!Renew
    BY <1>1, RenewImplements DEF MonitorSet, MonitorSetFails, PvaClear
  <2> QED BY <2>1 DEF Promise!Next
<1>2. CASE Sample
  BY <1>2, SampleImplements DEF Promise!Next
<1>3. CASE PopThrows \/ Drained \/ PollEmpty \/ TimeOut \/ NoMonitor
  BY <1>3, ReturnImplements
<1>4. CASE Pop \/ End
  <2>1. Newest' = Newest
    BY <1>4, PopKeepsNewest, EndKeepsNewest
  <2>2. before' = before /\ answer' = answer
    BY <1>4 DEF Pop, End, Push
  <2> QED BY <2>1, <2>2 DEF Promise!vars
<1>5. CASE (\E w \in BOOLEAN : Start(w)) \/ WaitSleeps \/ Wake \/ Event \/ UNCHANGED vars
  <2>1. queue' = queue /\ latest' = latest /\ before' = before /\ answer' = answer
    BY <1>5, QuietKeeps
  <2>2. Newest' = Newest
    BY <2>1 DEF Newest
  <2> QED BY <2>1, <2>2 DEF Promise!vars
<1> QED
  BY <1>1, <1>2, <1>3, <1>4, <1>5 DEF Next, Drain

\* The drain loop, the queue and the event together keep what NewSample promises:
\* a call that answers true has cached the newest sample, none is reported twice,
\* and no call misses one unless it timed out or the subscription broke.
THEOREM Implements == Spec => Refines
<1>1. Spec => []RefInv
  BY InitRefInv, RefInvStep, PTL DEF Spec
<1> QED
  BY <1>1, InitImplements, StepImplements, PTL DEF Spec, Refines, Promise!Spec

-----------------------------------------------------------------------------
(* Types, and the bound of the queue.                                      *)

\* The flags; and a queue no longer than the client's bound, but for the end of
\* the subscription, which takes a place of its own.
BoundOK ==
  /\ active \in BOOLEAN /\ notify \in BOOLEAN /\ evt \in BOOLEAN /\ waits \in BOOLEAN
  /\ answer \in {"none", "new", "old", "late", "error"}
  /\ Len(queue) <= QueueSize + 1 /\ (~ended => Len(queue) <= QueueSize)

\* The client merges the two newest samples rather than exceed its bound.
LEMMA QueuedLength ==
  ASSUME RefInv, BoundOK, ~ended, NEW x \in Nat
  PROVE  /\ Len(Queued(x)) <= QueueSize + 1
         /\ x # 0 => Len(Queued(x)) <= QueueSize
<1>1. queue \in Seq(Nat) /\ Len(queue) \in Nat /\ Len(queue) <= QueueSize
  BY DEF RefInv, QueueOK, BoundOK
<1>2. CASE Len(queue) >= QueueSize /\ x # 0
  <2>1. Queued(x) = [queue EXCEPT ![Len(queue)] = x]
    BY <1>2 DEF Queued
  <2>2. Len(Queued(x)) = Len(queue)
    BY <1>1, <2>1
  <2> QED
    BY <1>1, <2>2, QueueAssumption
<1>3. CASE ~(Len(queue) >= QueueSize /\ x # 0)
  <2>1. Queued(x) = Append(queue, x)
    BY <1>3 DEF Queued
  <2>2. Len(Queued(x)) = Len(queue) + 1
    BY <1>1, <2>1
  <2> QED
    BY <1>1, <1>3, <2>2, QueueAssumption
<1> QED
  BY <1>2, <1>3

\* Every step keeps the bound.
LEMMA BoundStep == RefInv /\ BoundOK /\ [Next]_vars => BoundOK'
<1> SUFFICES ASSUME RefInv, BoundOK, [Next]_vars PROVE BoundOK'
  OBVIOUS
<1>0. QueueSize \in Nat /\ queue \in Seq(Nat) /\ Len(queue) \in Nat
  BY QueueAssumption DEF RefInv, QueueOK
<1>1. CASE MonitorSet \/ MonitorSetFails \/ PvaClear
  <2>1. /\ active' \in BOOLEAN /\ notify' = FALSE /\ evt' = FALSE /\ waits' = waits
        /\ answer' = "none" /\ queue' = <<>>
    BY <1>1 DEF MonitorSet, MonitorSetFails, PvaClear, Renewed
  <2>2. Len(queue') = 0 /\ 0 <= QueueSize /\ 0 <= QueueSize + 1
    BY <1>0, <2>1
  <2> QED
    BY <2>1, <2>2 DEF BoundOK
<1>2. CASE Sample
  <2>1. /\ queue' = Queued(samples + 1) /\ ~ended /\ samples \in Nat
        /\ active' = active /\ evt' = evt /\ waits' = waits /\ answer' = answer
        /\ notify' \in BOOLEAN
    BY <1>2 DEF Sample, Push, RefInv, QueueOK
  <2>2. Len(queue') <= QueueSize /\ Len(queue') <= QueueSize + 1
    BY <2>1, QueuedLength
  <2> QED
    BY <2>1, <2>2 DEF BoundOK
<1>3. CASE End
  <2>1. /\ queue' = Queued(0) /\ ~ended /\ ended'
        /\ active' = active /\ evt' = evt /\ waits' = waits /\ answer' = answer
        /\ notify' \in BOOLEAN
    BY <1>3 DEF End, Push
  <2>2. Len(queue') <= QueueSize + 1
    BY <2>1, QueuedLength
  <2> QED
    BY <2>1, <2>2 DEF BoundOK
<1>4. CASE Pop \/ PopThrows
  <2>1. queue # <<>> /\ queue' = Tail(queue) /\ ended' = ended
    BY <1>4 DEF Pop, PopThrows
  <2>2. Len(queue') <= Len(queue) /\ Len(queue') \in Nat
    BY <1>0, <2>1
  <2>3. /\ active' = active /\ notify' = notify /\ evt' = evt /\ waits' = waits
        /\ answer' \in {answer, "error"}
    BY <1>4 DEF Pop, PopThrows, Return
  <2> QED
    BY <1>0, <2>1, <2>2, <2>3 DEF BoundOK
<1>5. CASE Drained \/ PollEmpty \/ TimeOut \/ NoMonitor
  BY <1>5 DEF Drained, PollEmpty, TimeOut, NoMonitor, Return, subVars, BoundOK
<1>6. CASE (\E w \in BOOLEAN : Start(w)) \/ WaitSleeps \/ Wake \/ Event \/ UNCHANGED vars
  BY <1>6 DEF Start, WaitSleeps, Wake, Event, vars, subVars, BoundOK
<1> QED
  BY <1>1, <1>2, <1>3, <1>4, <1>5, <1>6 DEF Next, Drain

\* The types, for every queue size and number of samples; in particular a monitor
\* nobody polls holds a bounded queue.
THEOREM Typed == Spec => []TypeOK
<1>1. Init => BoundOK
  <2> SUFFICES ASSUME Init PROVE BoundOK
    OBVIOUS
  <2>1. Len(queue) = 0 /\ QueueSize \in Nat
    BY QueueAssumption DEF Init
  <2>2. Len(queue) <= QueueSize + 1 /\ Len(queue) <= QueueSize
    BY <2>1
  <2> QED
    BY <2>2 DEF Init, BoundOK
<1>2. RefInv /\ BoundOK => TypeOK
  <2> SUFFICES ASSUME RefInv, BoundOK PROVE TypeOK
    OBVIOUS
  <2>1. queue \in Seq(0..samples)
    <3> DEFINE S == 0..samples
    <3>1. queue \in Seq(Nat) /\ \A i \in 1..Len(queue) : queue[i] \in S
      BY DEF RefInv, QueueOK
    <3> HIDE DEF S
    <3>2. queue \in [1..Len(queue) -> S] /\ Len(queue) \in Nat
      BY <3>1
    <3>3. queue \in UNION {[1..n -> S] : n \in Nat}
      BY <3>2
    <3>4. queue \in Seq(S)
      BY <3>3, SeqDef, Zenon
    <3> QED
      BY <3>4 DEF S
  <2>2. samples \in 0..MaxSamples /\ latest \in 0..samples /\ before \in 0..samples
    BY DEF RefInv, QueueOK, CallOK
  <2>3. {active, ended, notify, evt, got, waits} \subseteq BOOLEAN
    BY DEF RefInv, QueueOK, CallOK, BoundOK
  <2> QED
    BY <2>1, <2>2, <2>3 DEF TypeOK, RefInv, CallOK, BoundOK
<1>3. Spec => [](RefInv /\ BoundOK)
  BY <1>1, InitRefInv, RefInvStep, BoundStep, PTL DEF Spec
<1> QED
  BY <1>2, <1>3, PTL
=============================================================================
