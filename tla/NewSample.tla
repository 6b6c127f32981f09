------------------------------ MODULE NewSample -------------------------------
(***************************************************************************)
(* What a labpva monitor promises (src/glue/pvaGlue.h, pvaMonitorPoll and  *)
(* pvaMonitorWait): the client holds the newest sample it has received; a  *)
(* poll or a wait that answers true has just moved it into the cache that  *)
(* pvaGet serves, and no other answer is given while a sample is waiting,  *)
(* except that a wait may time out and that a missing monitor or a broken  *)
(* subscription is reported as such.                                       *)
(***************************************************************************)
EXTENDS Naturals

CONSTANTS MaxSamples   \* bound on the samples received

VARIABLES
  newest,   \* the newest sample received from the subscription, 0 if none
  cached,   \* the sample pvaGet serves, 0 if none
  answer    \* what the last poll or wait told

vars == <<newest, cached, answer>>

Samples == 1..MaxSamples

Init == newest = 0 /\ cached = 0 /\ answer = "none"

\* A monitor is set, set again or cleared: nothing of the old one remains.
Renew == newest' = 0 /\ cached' = 0 /\ answer' = "none"

Receive ==
  /\ newest' \in {s \in Samples : s > newest /\ s > cached}
  /\ UNCHANGED <<cached, answer>>

\* The newest sample is taken, if it was not before.
Take ==
  /\ newest > cached
  /\ cached' = newest /\ answer' = "new"
  /\ UNCHANGED newest

NothingNew == newest = cached /\ answer' = "old" /\ UNCHANGED <<newest, cached>>

TimeOut == answer' = "late" /\ UNCHANGED <<newest, cached>>

\* There is no monitor, or its subscription ended: what that delivered before may
\* have been cached.
Broken ==
  /\ cached' \in {cached, newest} /\ answer' = "error"
  /\ UNCHANGED newest

Next == Renew \/ Receive \/ Take \/ NothingNew \/ TimeOut \/ Broken

Spec == Init /\ [][Next]_vars
=============================================================================
