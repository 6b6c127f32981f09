----------------------------- MODULE ReadVerbs ------------------------------
(***************************************************************************)
(* The read verbs on both backends: pvaGet, pvaGetStructure, pvaGetTable   *)
(* and the metadata getters, served from the monitor cache or by a fresh   *)
(* read, with the monitor verbs that fill that cache.                      *)
(*                                                                         *)
(* A verb walks its list of names one channel a step: the server goes on   *)
(* posting, and channels come and go, between the steps. Inside a step the *)
(* MATLAB thread decides where the sample comes from (pvaGet), reads it and*)
(* converts it. What a fresh read does on the wire is WarmGet's subject,   *)
(* how a PVXS worker fills the queue Monitor's: here a fresh read takes    *)
(* what the server holds, and a queue receives whole samples.              *)
(*                                                                         *)
(* Samples are numbered: Samples[ch][v] is the tree the server holds as    *)
(* its v-th.                                                               *)
(***************************************************************************)
EXTENDS ConvertPut

CONSTANTS
  Layouts,    \* a list of databases: from channel to its sequence of trees
  Channels,
  Requests,   \* what pvaSetMonitor and pvaGetStructure may ask for
  Calls,      \* the calls MATLAB may make
  MaxQueue,   \* samples a subscription's queue holds
  MaxCalls,   \* bound on the read calls made
  MaxDrops,   \* bound on the connections lost
  MaxMonitors  \* bound on the monitors alive at once

\* The names and the type letters the verbs take.
Verbs == {"pvaGet", "pvaGetStructure", "pvaGetTable", "pvaGetStatus", "pvaGetNelem",
          "pvaGetEnumStrings"}
TypeLetters == {"N", "B", "S", "L", "F", "D", "C"}

ASSUME ReadsAssumption ==
  /\ \A i \in DOMAIN Layouts : DOMAIN Layouts[i] = Channels
  /\ Whole \in Requests /\ MaxQueue \in Nat \ {0} /\ MaxCalls \in Nat /\ MaxDrops \in Nat
  /\ MaxMonitors \in Nat

\* A channel's samples are structures with distinct field names; enum_t is the
\* type of a field, never of a channel.
ASSUME LayoutsAssumption ==
  \A i \in DOMAIN Layouts : \A ch \in Channels :
    /\ Len(Layouts[i][ch]) \in Nat \ {0}
    /\ \A v \in 1..Len(Layouts[i][ch]) :
         LET tree == Layouts[i][ch][v]
         IN  /\ IsStructure(tree) /\ tree.id # "enum_t" /\ IsInjective(tree.names)
             /\ DistinctSuffixes(tree.names)

ASSUME CallsAssumption ==
  Calls \subseteq [verb : Verbs, pc : {"idle"}, pvs : Seq(Channels), cell : BOOLEAN,
                   req : Requests, type : TypeLetters, poll : BOOLEAN,
                   got : {<<>>}, out : {Empty}]

VARIABLES
  backend,   \* "pvxs" or "pvac", a build option
  db,        \* external: the database of this behaviour
  ver,       \* external: the sample each channel's server holds
  up,        \* external: is the channel connected?
  drops,     \* external: connections lost so far
  mon,       \* g_monitors, with the queue of each subscription
  call,      \* the MATLAB thread's read call
  calls,     \* how many calls were made
  announced, \* history: the sample the last positive poll or wait announced
  opened     \* history: what the server held when the monitor was set

vars == <<backend, db, ver, up, drops, mon, call, calls, announced, opened>>
server == <<backend, db, up, drops>>

Samples == Layouts[db]

NoMonitor == [on |-> FALSE]
Subscription(req) == [on |-> TRUE, req |-> req, started |-> FALSE, queue |-> <<>>, latest |-> 0]
NoCall == [verb |-> "none", pc |-> "idle"]

Init ==
  /\ backend \in Backends /\ db \in DOMAIN Layouts
  /\ ver = [ch \in Channels |-> 1]
  /\ up = [ch \in Channels |-> TRUE] /\ drops = 0
  /\ mon = [ch \in Channels |-> NoMonitor]
  /\ call = NoCall /\ calls = 0
  /\ announced = [ch \in Channels |-> 0]
  /\ opened = [ch \in Channels |-> 0]
-----------------------------------------------------------------------------
(***************************************************************************)
(* External: the server and the client library's subscriptions.            *)
(***************************************************************************)

\* The server refuses a request that selects none of its fields.
Selects(ch, req) == Project(Samples[ch][1], req).names # <<>>

\* Mutant: the queue takes every sample.
PushUnbounded(q, v) == Append(q, v)

\* A full queue merges the new sample into its last one.
Push(q, v) == Append(IF Len(q) < MaxQueue THEN q ELSE Front(q), v)

Post(ch) ==
  /\ ver[ch] < Len(Samples[ch])
  /\ ver' = [ver EXCEPT ![ch] = @ + 1]
  /\ mon' = IF mon[ch].on /\ mon[ch].started
            THEN [mon EXCEPT ![ch].queue = Push(@, ver[ch] + 1)] ELSE mon
  /\ UNCHANGED <<server, call, calls, announced, opened>>

\* The first event of a subscription, also after a reconnect: a full sample.
Snapshot(ch) ==
  /\ mon[ch].on /\ ~mon[ch].started /\ up[ch] /\ Selects(ch, mon[ch].req)
  /\ mon' = [mon EXCEPT ![ch].started = TRUE, ![ch].queue = Push(@, ver[ch])]
  /\ UNCHANGED <<server, ver, call, calls, announced, opened>>

Disconnect(ch) ==
  /\ up[ch] /\ drops < MaxDrops
  /\ up' = [up EXCEPT ![ch] = FALSE] /\ drops' = drops + 1
  /\ mon' = IF mon[ch].on THEN [mon EXCEPT ![ch].started = FALSE] ELSE mon
  /\ UNCHANGED <<backend, db, ver, call, calls, announced, opened>>

Reconnect(ch) ==
  /\ ~up[ch]
  /\ up' = [up EXCEPT ![ch] = TRUE]
  /\ UNCHANGED <<backend, db, drops, ver, mon, call, calls, announced, opened>>
-----------------------------------------------------------------------------
(***************************************************************************)
(* The monitor verbs.                                                      *)
(***************************************************************************)
Free == call.pc \in {"idle", "done", "failed"}

\* pvaMonitorSet tears the old monitor down first. On the classic backend the
\* new one must connect, and the verb fails when it cannot.
pvaMonitorSet(ch, req) ==
  mon' = [mon EXCEPT ![ch] = IF backend = "pvxs" \/ (up[ch] /\ Selects(ch, req))
                             THEN Subscription(req) ELSE NoMonitor]

SetMonitor(ch, req) ==
  /\ Free /\ Cardinality({c \in Channels : mon[c].on} \cup {ch}) <= MaxMonitors
  /\ pvaMonitorSet(ch, req)
  /\ announced' = [announced EXCEPT ![ch] = 0]
  /\ opened' = [opened EXCEPT ![ch] = ver[ch]]
  /\ UNCHANGED <<server, ver, call, calls>>

\* pvaMonitorPoll drains the queue, and so does the wait of the PVXS backend.
drainQueue(m) == [m EXCEPT !.latest = Last(m.queue), !.queue = <<>>]
\* Mutants: the event is released without its sample being kept; the newest
\* event is taken first.
ReleaseOnly(m) == [m EXCEPT !.queue = Tail(m.queue)]
TakeNewestFirst(m) == [m EXCEPT !.latest = Last(m.queue), !.queue = Front(m.queue)]

\* The classic wait takes one event.
takeEvent(m) == [m EXCEPT !.latest = Head(m.queue), !.queue = Tail(m.queue)]

\* A positive poll. One that finds no sample or has no monitor (PVA_NOMONITOR)
\* leaves the cache as it is; a subscription that ends is in Monitor.
Poll(ch) ==
  /\ Free /\ mon[ch].on /\ mon[ch].queue # <<>>
  /\ mon' = [mon EXCEPT ![ch] = drainQueue(@)]
  /\ announced' = [announced EXCEPT ![ch] = Last(mon[ch].queue)]
  /\ UNCHANGED <<server, ver, call, calls, opened>>

\* A wait that ends with a sample; any other leaves the cache as it is.
Wait(ch) ==
  /\ Free /\ mon[ch].on /\ mon[ch].queue # <<>>
  /\ mon' = [mon EXCEPT ![ch] = IF backend = "pvxs" THEN drainQueue(@) ELSE takeEvent(@)]
  /\ announced' = [announced EXCEPT ![ch] = IF backend = "pvxs" THEN Last(mon[ch].queue)
                                           ELSE Head(mon[ch].queue)]
  /\ UNCHANGED <<server, ver, call, calls, opened>>

pvaClear(chs) ==
  /\ Free
  /\ mon' = [ch \in Channels |-> IF ch \in chs THEN NoMonitor ELSE mon[ch]]
  /\ announced' = [ch \in Channels |-> IF ch \in chs THEN 0 ELSE announced[ch]]
  /\ UNCHANGED <<server, ver, call, calls, opened>>
-----------------------------------------------------------------------------
(***************************************************************************)
(* pvaGet of the glue: where the sample comes from.                        *)
(***************************************************************************)

\* Mutant: any monitor will do.
CoversAny(monReq, getReq) == TRUE

\* Does a monitor's request carry every field of a read's?
monitorCovers(monReq, getReq) == monReq = Whole \/ monReq = getReq

\* Mutant: any value is taken for a plain one.
HasValue(latest) == ~IsNull(Field(latest, "value"))

\* Is `value` a scalar, an array or an enum, so that pvaGet returns it bare?
cachedValueIsPlain(latest) ==
  LET v == Field(latest, "value") IN v.kind \in {"scalar", "array"} \/ IsEnum(v)

cachedSample(ch) == Project(Samples[ch][mon[ch].latest], mon[ch].req)

\* Mutant: a channel that is down is not served.
ServedWhileUp(ch, req, useMonitorCache, requireWholeMonitor) ==
  /\ up[ch] /\ useMonitorCache /\ mon[ch].on /\ mon[ch].latest # 0
  /\ \/ monitorCovers(mon[ch].req, req)
     \/ ~requireWholeMonitor /\ cachedValueIsPlain(cachedSample(ch))

servedFromCache(ch, req, useMonitorCache, requireWholeMonitor) ==
  /\ useMonitorCache /\ mon[ch].on /\ mon[ch].latest # 0
  /\ \/ monitorCovers(mon[ch].req, req)
     \/ ~requireWholeMonitor /\ cachedValueIsPlain(cachedSample(ch))

\* A sample: its number, its tree, whether it was cached; v is 0 when the read failed.
pvaGet(ch, req, useMonitorCache, requireWholeMonitor) ==
  IF servedFromCache(ch, req, useMonitorCache, requireWholeMonitor)
  THEN [cached |-> TRUE, v |-> mon[ch].latest, pv |-> cachedSample(ch)]
  ELSE IF up[ch] /\ Selects(ch, req)
  THEN [cached |-> FALSE, v |-> ver[ch], pv |-> Project(Samples[ch][ver[ch]], req)]
  ELSE [cached |-> FALSE, v |-> 0, pv |-> Null]
-----------------------------------------------------------------------------
(***************************************************************************)
(* The verbs. A call is [verb, pvs, cell, req, type, poll]; the metadata   *)
(* getters fix the request they make.                                      *)
(***************************************************************************)
Sample(c, ch) ==
  CASE c.verb = "pvaGet"          -> pvaGet(ch, Whole, ~c.poll, FALSE)
    [] c.verb = "pvaGetStructure" -> pvaGet(ch, c.req, ~c.poll, TRUE)
    [] c.verb = "pvaGetTable"     -> pvaGet(ch, Whole, ~c.poll, TRUE)
    [] c.verb = "pvaGetStatus"    -> pvaGet(ch, {"alarm", "timeStamp"}, FALSE, FALSE)
    [] c.verb \in {"pvaGetNelem", "pvaGetEnumStrings"} -> pvaGet(ch, {"value"}, FALSE, FALSE)

Converted(c, pv) ==
  CASE c.verb = "pvaGet"            -> pvValueToMx(backend, pv, c.type)
    [] c.verb = "pvaGetStructure"   -> pvStructureToMx(backend, pv)
    [] c.verb = "pvaGetTable"       -> IF pvIsNTTable(pv) THEN pvTableToMx(backend, pv)
                                       ELSE pvValueToMx(backend, pv, c.type)
    [] c.verb = "pvaGetStatus"      -> Double(<<pvAlarmSeverity(pv)>>)
    [] c.verb = "pvaGetNelem"       -> Double(<<2 * pvValueNelem(pv)>>)
    [] c.verb = "pvaGetEnumStrings" -> pvEnumChoicesToMx(backend, pv)

Begin(c) ==
  /\ Free /\ calls < MaxCalls
  /\ call' = [c EXCEPT !.pc = "run"]
  /\ calls' = calls + 1
  /\ UNCHANGED <<server, ver, mon, announced, opened>>

\* What a sample of a channel gives: an entry of the result, or the end of the call.
Entry(ch, s, mx) ==
  [ch |-> ch, v |-> s.v, cached |-> s.cached, mx |-> mx,
   ts |-> pvTimeStampSecNsec(s.pv), stamped |-> ~IsNull(Field(s.pv, "timeStamp")),
   announced |-> announced[ch], opened |-> opened[ch], held |-> ver[ch]]
Took(ch, s, mx) ==
  IF s.v = 0 \/ mx.class = "error" THEN [call EXCEPT !.pc = "failed"]
  ELSE [call EXCEPT !.got = Append(@, Entry(ch, s, mx))]

\* One channel of the list. A failed read or conversion ends the call.
ReadNext ==
  /\ call.pc = "run" /\ Len(call.got) < Len(call.pvs)
  /\ LET ch == call.pvs[Len(call.got) + 1]
         s  == Sample(call, ch)
     IN  call' = Took(ch, s, Converted(call, s.pv))
  /\ UNCHANGED <<server, ver, mon, calls, announced, opened>>

\* Mutant: every row of the column is the first value.
FirstForAll(values, wasCell) ==
  IF ~wasCell THEN values[1]
  ELSE IF \A i \in DOMAIN values : values[i].class = "double" /\ Len(values[i].data) = 1
  THEN Double([i \in DOMAIN values |-> values[1].data[1]])
  ELSE Cell(values)

\* A list gives a column when every value is a real double scalar, else a cell;
\* a single name its value.
assembleValueOutput(values, wasCell) ==
  IF ~wasCell THEN values[1]
  ELSE IF \A i \in DOMAIN values : values[i].class = "double" /\ Len(values[i].data) = 1
  THEN Double([i \in DOMAIN values |-> values[i].data[1]])
  ELSE Cell(values)

\* pvaGetStructure always gives a cell for a list.
Finish ==
  /\ call.pc = "run" /\ Len(call.got) = Len(call.pvs)
  /\ LET values == [i \in DOMAIN call.got |-> call.got[i].mx]
     IN  call' = [call EXCEPT !.pc = "done",
                    !.out = IF call.verb \in {"pvaGetStructure", "pvaGetEnumStrings"} /\ call.cell
                            THEN Cell(values) ELSE assembleValueOutput(values, call.cell)]
  /\ UNCHANGED <<server, ver, mon, calls, announced, opened>>
-----------------------------------------------------------------------------
\* The behaviours end with the last call they count.
Going == calls < MaxCalls \/ call.pc = "run"

Next ==
  \/ /\ Going
     /\ \/ \E ch \in Channels : \/ Post(ch) \/ Snapshot(ch) \/ Disconnect(ch) \/ Reconnect(ch)
                                \/ Poll(ch) \/ Wait(ch)
                                \/ \E req \in Requests : SetMonitor(ch, req)
                                \/ pvaClear({ch})
        \/ pvaClear(Channels)
  \/ \E c \in Calls : Begin(c)
  \/ ReadNext \/ Finish

Spec == Init /\ [][Next]_vars
-----------------------------------------------------------------------------
Got == IF call.pc = "idle" THEN {} ELSE {call.got[i] : i \in DOMAIN call.got}
Tree(e) == Samples[e.ch][e.v]
Fields(tree, req) == Project(tree, req).names

\* The registry and the call are well formed; a cached sample is one the server
\* has held.
TypeOK ==
  /\ backend \in Backends /\ ver \in [Channels -> Nat] /\ up \in [Channels -> BOOLEAN]
  /\ \A ch \in Channels : mon[ch].on =>
       /\ mon[ch].req \in Requests /\ Len(mon[ch].queue) <= MaxQueue
       /\ mon[ch].latest <= ver[ch] /\ \A i \in DOMAIN mon[ch].queue : mon[ch].queue[i] <= ver[ch]
  /\ call.pc \in {"idle", "run", "done", "failed"} /\ calls <= MaxCalls

\* pvaGetStructure hands over every field its request selects, also when the
\* sample comes from a monitor with a request of its own (pvaGlue.h:83-88,
\* pvaGet's requireWholeMonitor).
StructureComplete ==
  call.verb = "pvaGetStructure" =>
    \A e \in Got : ToSet(legalFieldNames(Fields(Tree(e), call.req))) \subseteq ToSet(e.mx.fields)

\* What pvaGet returns is what it would return for the whole structure of the
\* same sample: no image without its dimensions, no table without its labels
\* (cachedValueIsPlain, pvaGlue_pvxs.cpp:1119-1130); and its time stamp is the
\* sample's own unless the monitor's request left timeStamp out.
ValueWhole ==
  call.verb = "pvaGet" =>
    \A e \in Got : /\ e.mx = pvValueToMx(backend, Tree(e), call.type)
                   /\ e.stamped => e.ts = pvTimeStampSecNsec(Tree(e))
                   /\ ~e.stamped => e.cached \/ IsNull(Field(Tree(e), "timeStamp"))

\* A read after a positive pvaNewMonitorValue or pvaNewMonitorWait returns that
\* sample or a later one (pvaGlue_pvxs.cpp:1136-1140), and never one from before
\* the monitor was set; with the poll flag, and for the metadata getters, it is
\* the one the server holds whatever the cache has (pvaGet.cpp:23-24).
FreshEnough ==
  /\ \A e \in Got : e.v >= e.announced /\ (e.cached => e.v >= e.opened)
  /\ /\ call.pc # "idle"
     /\ call.poll \/ call.verb \in {"pvaGetStatus", "pvaGetNelem", "pvaGetEnumStrings"}
     => \A e \in Got : e.v = e.held

\* Only a channel that is down and has no sample to serve fails a read that can
\* be converted: while a covering sample is cached, pvaGet answers through an
\* outage.
CacheOutlivesOutage ==
  [][call.pc = "run" /\ call'.pc = "failed" /\ ~call.poll /\ call.verb = "pvaGet" =>
       LET ch == call.pvs[Len(call.got) + 1]
       IN  ~(mon[ch].on /\ mon[ch].latest # 0 /\ (mon[ch].req = Whole))]_vars

\* Of one channel the cache is never served backwards while its monitor lives.
CacheForward ==
  [][\A ch \in Channels :
       mon[ch].on /\ mon'[ch].on /\ mon'[ch].latest # 0 => mon'[ch].latest >= mon[ch].latest]_vars

\* A list call returns its values in the order of the names, whatever the shape
\* of the output.
OutputInOrder ==
  call.pc = "done" /\ call.cell =>
    \A i \in DOMAIN call.pvs :
      /\ call.got[i].ch = call.pvs[i]
      /\ CASE call.out.class = "cell" -> call.out.cells[i] = call.got[i].mx
           [] call.out.class = "double" ->
                /\ call.got[i].mx.class = "double" /\ Len(call.got[i].mx.data) = 1
                /\ call.out.data[i] = call.got[i].mx.data[1]
=============================================================================
