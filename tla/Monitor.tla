------------------------------- MODULE Monitor --------------------------------
(***************************************************************************)
(* The monitor of one channel in the PVXS backend                          *)
(* (src/glue/pvaGlue_pvxs.cpp: g_monitors, pvaMonitorSet, drainQueue,      *)
(* pvaMonitorPoll, pvaMonitorWait, pvaClear).  The PVXS client fills the   *)
(* subscription's queue and, when it was empty, calls the event callback on*)
(* a worker thread, which signals an epicsEvent; the MATLAB thread drains  *)
(* the queue one sample at a time and sleeps on that event.                *)
(*                                                                         *)
(* Samples are numbered as the server sends them.  A wait may time out at  *)
(* any moment it sleeps, and once it finds the queue empty.                *)
(***************************************************************************)
EXTENDS Naturals, Sequences

CONSTANTS
  MaxSamples,   \* bound on the samples sent
  QueueSize     \* samples the client queues before it merges the newest two

ASSUME QueueAssumption == MaxSamples \in Nat /\ QueueSize \in Nat \ {0}

VARIABLES
  samples,   \* external: samples sent so far
  active,    \* has g_monitors an entry for the channel?
  queue,     \* external: the subscription's queue; 0 stands for its end
  ended,     \* external: the server has ended the subscription
  notify,    \* external: the event callback is due
  evt,       \* is the entry's epicsEvent signalled?
  latest,    \* MonEntry::latest, 0 if none
  got,       \* drainQueue's result so far
  pc,        \* where the MATLAB thread is
  waits,     \* is the call a pvaMonitorWait?
  answer,    \* how the last call returned
  before     \* latest when the call under way began

subVars == <<samples, active, queue, ended, notify>>
vars == <<samples, active, queue, ended, notify, evt, latest, got, pc, waits,
          answer, before>>

Init ==
  /\ samples = 0 /\ active = FALSE /\ queue = <<>> /\ ended = FALSE
  /\ notify = FALSE /\ evt = FALSE /\ latest = 0 /\ got = FALSE
  /\ pc = "idle" /\ waits = FALSE /\ answer = "none" /\ before = 0

-----------------------------------------------------------------------------
(* The MATLAB thread.                                                      *)

\* An entry as pvaMonitorSet makes it, or none: the old one's subscription is
\* cancelled, and its event and sample go with it.
Renewed(a) ==
  /\ pc = "idle"
  /\ active' = a /\ queue' = <<>> /\ ended' = FALSE /\ notify' = FALSE
  /\ evt' = FALSE /\ latest' = 0 /\ before' = 0 /\ answer' = "none"
  /\ UNCHANGED <<samples, got, pc, waits>>

MonitorSet == Renewed(TRUE)

\* The old entry is gone before the new subscription can fail.
MonitorSetFails == Renewed(FALSE)

PvaClear == active /\ Renewed(FALSE)

\* pvaMonitorPoll (w = FALSE) or pvaMonitorWait (w = TRUE) on an active monitor.
Start(w) ==
  /\ pc = "idle" /\ active
  /\ pc' = "drain" /\ got' = FALSE /\ waits' = w
  /\ UNCHANGED <<subVars, evt, latest, answer, before>>

Return(a) == pc' = "idle" /\ answer' = a /\ before' = latest

\* Without an active monitor both fail, and nothing else happens.
NoMonitor ==
  /\ pc = "idle" /\ ~active
  /\ Return("error")
  /\ UNCHANGED <<subVars, evt, latest, got, waits>>

\* Mutant: the first sample of the queue is kept, not the last.
PopKeepsFirst ==
  /\ pc = "drain" /\ queue # <<>> /\ Head(queue) # 0
  /\ latest' = IF got THEN latest ELSE Head(queue)
  /\ got' = TRUE /\ queue' = Tail(queue)
  /\ UNCHANGED <<samples, active, ended, notify, evt, pc, waits, answer, before>>

Pop ==
  /\ pc = "drain" /\ queue # <<>> /\ Head(queue) # 0
  /\ latest' = Head(queue) /\ got' = TRUE /\ queue' = Tail(queue)
  /\ UNCHANGED <<samples, active, ended, notify, evt, pc, waits, answer, before>>

\* Mutant: the exception is not caught.
PopThrowsUncaught ==
  /\ pc = "drain" /\ queue # <<>> /\ Head(queue) = 0
  /\ queue' = Tail(queue) /\ pc' = "thrown"
  /\ UNCHANGED <<samples, active, ended, notify, evt, latest, got, waits, answer, before>>

\* pop() throws: the call fails whatever it has drained.
PopThrows ==
  /\ pc = "drain" /\ queue # <<>> /\ Head(queue) = 0
  /\ queue' = Tail(queue)
  /\ Return("error")
  /\ UNCHANGED <<samples, active, ended, notify, evt, latest, got, waits>>

Drained ==
  /\ pc = "drain" /\ queue = <<>> /\ got
  /\ Return("new")
  /\ UNCHANGED <<subVars, evt, latest, got, waits>>

PollEmpty ==
  /\ pc = "drain" /\ queue = <<>> /\ ~got /\ ~waits
  /\ Return("old")
  /\ UNCHANGED <<subVars, evt, latest, got, waits>>

\* Mutant: the wait sleeps before it has drained the queue.
WaitSleepsFirst ==
  /\ pc = "drain" /\ ~got /\ waits
  /\ pc' = "sleep"
  /\ UNCHANGED <<subVars, evt, latest, got, waits, answer, before>>

\* The queue was empty; time is left.
WaitSleeps ==
  /\ pc = "drain" /\ queue = <<>> /\ ~got /\ waits
  /\ pc' = "sleep"
  /\ UNCHANGED <<subVars, evt, latest, got, waits, answer, before>>

\* epicsEvent::wait returns true and clears the event; drain again.
Wake ==
  /\ pc = "sleep" /\ evt
  /\ evt' = FALSE /\ pc' = "drain"
  /\ UNCHANGED <<subVars, latest, got, waits, answer, before>>

\* No time is left, before the sleep or in it.
TimeOut ==
  /\ pc = "sleep"
  /\ Return("late")
  /\ UNCHANGED <<subVars, evt, latest, got, waits>>

-----------------------------------------------------------------------------
(* The PVXS client and the server.                                         *)

\* The queue with the entry x: when it is full, x replaces the newest sample.
Queued(x) ==
  IF Len(queue) >= QueueSize /\ x # 0
  THEN [queue EXCEPT ![Len(queue)] = x]
  ELSE Append(queue, x)

\* A sample, or the end of the subscription (x = 0), reaches the client.
Push(x) ==
  /\ active /\ ~ended
  /\ queue' = Queued(x)
  /\ notify' = (notify \/ queue = <<>>)
  /\ ended' = (x = 0)
  /\ UNCHANGED <<active, evt, latest, got, pc, waits, answer, before>>

Sample == samples < MaxSamples /\ samples' = samples + 1 /\ Push(samples + 1)

End == Push(0) /\ UNCHANGED samples

\* Mutant: the callback signals nothing.
EventSilent ==
  /\ notify
  /\ notify' = FALSE
  /\ UNCHANGED <<samples, active, queue, ended, evt, latest, got, pc, waits, answer, before>>

\* The event callback, on a worker thread: it does nothing but signal.
Event ==
  /\ notify
  /\ notify' = FALSE /\ evt' = TRUE
  /\ UNCHANGED <<samples, active, queue, ended, latest, got, pc, waits, answer, before>>

-----------------------------------------------------------------------------
Drain == Pop \/ PopThrows \/ Drained \/ PollEmpty \/ WaitSleeps \/ Wake

Next == \/ MonitorSet \/ MonitorSetFails \/ PvaClear
        \/ (\E w \in BOOLEAN : Start(w)) \/ NoMonitor
        \/ Drain \/ TimeOut
        \/ Sample \/ End \/ Event

Spec == Init /\ [][Next]_vars

\* The MATLAB thread runs and the callback is called; no deadline is counted on.
FairSpec == Spec /\ WF_vars(Drain) /\ WF_vars(Event)
-----------------------------------------------------------------------------
(* Properties.                                                             *)

\* Every variable has its type, and the queue its bound and its order.
TypeOK ==
  /\ samples \in 0..MaxSamples /\ latest \in 0..samples /\ before \in 0..samples
  /\ queue \in Seq(0..samples) /\ Len(queue) <= QueueSize + 1
  /\ {active, ended, notify, evt, got, waits} \subseteq BOOLEAN
  /\ pc \in {"idle", "drain", "sleep"}
  /\ answer \in {"none", "new", "old", "late", "error"}

\* A sleeping wait that has a sample to return is going to be woken: its event is
\* signalled, or the callback that signals it is due.
NoLostWakeup == pc = "sleep" /\ queue # <<>> => evt \/ notify

\* A wait with a sample to return comes back by itself, deadline or not.
SampleEndsWait == pc = "sleep" /\ queue # <<>> ~> pc = "idle"

\* The newest sample the client holds: the last of the queue, but for its end.
Newest ==
  LET n == Len(queue)
  IN  CASE n >= 1 /\ queue[n] # 0 -> queue[n]
        [] n >= 2 /\ queue[n] = 0 -> queue[n - 1]
        [] OTHER -> latest

\* Calls take effect, for MATLAB, as they return.
Promise == INSTANCE NewSample WITH newest <- Newest, cached <- before

\* The drain loop, the queue and the event implement NewSample: a call that
\* answers true has cached the newest sample, none is reported twice, and none
\* is passed over by a call that answers false without having timed out.
Refines == Promise!Spec
=============================================================================
