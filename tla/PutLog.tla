-------------------------------- MODULE PutLog --------------------------------
(***************************************************************************)
(* What the put verbs of the PVXS backend promise for one channel, whatever*)
(* operation carries the data (src/glue/pvaGlue.h:131-137 and the comments *)
(* of pvaPutExec): a put goes on the wire once at most and after every put *)
(* issued before it that gets there; the record only moves on to newer     *)
(* puts; a pvaPut that reports success has been written, and one that      *)
(* reports a failure will not be sent any more.  Puts may be lost, one at a*)
(* time.                                                                   *)
(***************************************************************************)
EXTENDS Naturals, Sequences

CONSTANT MaxPuts   \* bound on the puts issued

VARIABLES
  issued,    \* the puts issued are numbered 1..issued
  waits,     \* is the newest a pvaPut, or a pvaPutNoWait?
  answer,    \* what its call told, "busy" as long as it has not returned
  owed,      \* puts whose data may still go on the wire
  log,       \* puts whose data went on the wire, oldest first
  written    \* puts written to the record

vars == <<issued, waits, answer, owed, log, written>>

Init ==
  /\ issued = 0 /\ waits = FALSE /\ answer = "none"
  /\ owed = {} /\ log = <<>> /\ written = {}

Issue(w) ==
  /\ answer # "busy" /\ issued < MaxPuts
  /\ issued' = issued + 1 /\ owed' = owed \cup {issued + 1}
  /\ waits' = w /\ answer' = "busy"
  /\ UNCHANGED <<log, written>>

\* A put is sent when nothing newer has been.
Send(p) ==
  /\ \A i \in 1..Len(log) : log[i] < p
  /\ log' = Append(log, p)
  /\ owed' = owed \ {p}

\* A put is evicted, refused, mistyped, ignored by its operation, or given up.
Lose(p) == log' = log /\ owed' = owed \ {p}

Move == UNCHANGED <<log, owed>> \/ \E p \in owed : Send(p) \/ Lose(p)

\* Operations work on puts while a call runs, or after it returned.
Work == Move /\ UNCHANGED <<issued, waits, answer, written>>

\* The call returns; its put may be sent or lost as it does.
Return(r) ==
  /\ answer = "busy" /\ answer' = r
  /\ Move
  /\ r = "issued" => ~waits
  /\ r # "issued" => issued \notin owed'
  /\ r = "ok" => waits /\ issued \in written
  /\ UNCHANGED <<issued, waits, written>>

Write ==
  /\ \E i \in 1..Len(log) :
       /\ \A p \in written : p < log[i]
       /\ written' = written \cup {log[i]}
  /\ UNCHANGED <<issued, waits, answer, owed, log>>

Next ==
  \/ \E w \in BOOLEAN : Issue(w)
  \/ Work
  \/ \E r \in {"ok", "issued", "error", "timeout"} : Return(r)
  \/ Write

Spec == Init /\ [][Next]_vars
=============================================================================
