# Verification of labpva

TLA+ models of labpva, the MATLAB bindings to EPICS pvAccess, with TLC runs and
TLAPS proofs. The models follow the source; line numbers below are those of
`src/glue/pvaGlue_pvxs.cpp` unless another file is named.

## 1. The system

labpva is a set of MEX verbs (`src/matlab`) over a glue library (`src/glue`)
with two interchangeable backends: PVXS (`pvaGlue_pvxs.cpp`) and the classic
pvaClient (`pvaGlue_pvac.cpp`). There is **one MATLAB thread**, which runs every
verb from its start to its end, and there are the **worker threads of the
client library**, which run callbacks. They meet in objects guarded by small
mutexes (`OpInit`, `ChanState`, `OpSync`, `g_putLock`) and in `epicsEvent`s.
The registries are touched by the MATLAB thread alone.

| component | state | operations | what makes it hard | correct when |
|---|---|---|---|---|
| warm puts (580–962) | `g_putChans` (an operation, `OpInit`, `ChanState`, `OpSync` per channel), `g_retiredPuts` | `pvaPutProto`, `pvaPutExec`, `dropPutChan`, callbacks | two kinds of operation race to the wire; lost connections; silent no-ops of `reExecPut`; late callbacks; timeouts | a put is sent at most once, in order; success means written; no no-wait put in flight is cancelled; no put is fired into a dead operation |
| parked no-wait puts (284–325, 916–955) | `g_pendingPuts`, `g_donePuts`, `g_putSeq` | sweep, park, evict, callback | the callback may run before the handle is parked; the registry is bounded | bounded; a live operation keeps its handle; finished ones are freed |
| warm reads (1000–1203) | `g_getChans` by channel and pvRequest, `OpSync` | `openGetChan`, `warmGetExec`, `pvaGet` | a get cut by a disconnect parks without a callback; one retry; LRU eviction | a read ends with its own answer, with a value or an error and not both; dead entries go |
| monitor registry (158–282) | `g_monitors` (subscription, event, newest sample) | set, poll, wait, clear | the event callback against the drain and the sleep | no lost wakeup; newest sample kept; each reported once |
| channel registry (127–156) | `g_channels` | `recordChannel`, `pvaChannelConnected` | what is known of the connection lags behind it | part of the put and read models |
| cache-serving policy (117–125, 1119–1147) | reads `g_monitors` | head of `pvaGet` | a monitor with a narrower request; samples not yet drained; an outage | what is served is whole, announced, never backwards |
| error state (`pvaError.cpp`) | `g_lastCode` | `pvaSetLastError` | never reset | on the read path |
| configuration (45–65) | provider, timeout, debug flag | setters | – | not modelled: plain assignments |
| classic backend (`pvaGlue_pvac.cpp`) | pvaClient's caches | same interface | cached put handle keeps old fields and old enum choices; wait takes one event | as the PVXS verbs, except section 4 and the end of section 2 |
| conversion (`pvaConvert_*.cpp`) | none | MATLAB ↔ values | names that collide, enum choices spelled alike, null elements, tables, stopping at or going on behind a bad field | a structure read and put back is unchanged |
| MEX verbs (`src/matlab`) | none | argument shapes, loops over channels | other clients and the server act between two channels of a list; a list stops at its first failure | each channel gets its own value, and keeps what the call does not name; rows stay with their names |
| help generator, build, MATLAB scripts | – | – | – | not modelled: no run-time state |

Interactions: every put verb calls `pvaPutProto` and then `pvaPutExec`;
`pvaPutProto` of an enum calls `pvaGet`; `pvaClear` reaches all four registries;
reads and puts share the connection knowledge in `g_channels`.

## 2. Modules

| module | models |
|---|---|
| `WarmPut` | the write path of one channel: MATLAB thread, callbacks, client, IOC |
| `PutLog` | what the put verbs promise for one channel, whatever operation carries the data |
| `WarmPutProofs` | types, at-most-once, handles, prototypes and results of `WarmPut`, proved |
| `WarmPutOrderProofs` | order on the wire and the refinement of `PutLog`, proved |
| `PendingPuts` | the registry of one-shot no-wait puts over all channels |
| `PendingPutsProofs` | its bound, its handles, sweep and eviction, proved |
| `WarmGet` | the read path of one channel with several pvRequests |
| `WarmGetProofs` | types, registry and answers of `WarmGet`, proved |
| `NewSample` | what a monitor promises, in one step per answer |
| `Monitor` | the monitor's queue, event and drain loop; implements `NewSample` |
| `MonitorProofs` | types, no lost wakeup and the refinement of `NewSample`, proved |
| `Convert` | PV → MATLAB on both backends, as pure operators |
| `ConvertPut` | MATLAB → PV on both backends, as pure operators |
| `ConvertTrees` | the recursions of both directions, down trees of any depth |
| `ConvertProofs` | lemmas about the conversion: names, templates, enums |
| `ReadVerbs` | read verbs, metadata getters and monitor verbs over several channels, with the cache policy |
| `ReadBack` | what was read, put back: the round trips through the conversion |
| `ReadVerbsProofs` | the cache, the samples and the order of outputs, proved |
| `PutVerbs` | put verbs over several channels, with another client and pvaClient's put handles |
| `PutEffect` | what a put leaves on the server, against what the call named |
| `PutVerbsProofs` | the order of writing and the enum choices, proved |
| `MCWarmPut`, `MCWarmGet`, `MCReadVerbs`, `MCPutVerbs` | small instances for TLC |

### WarmPut

One action is one step of `pvaPutProto`/`pvaPutExec` between two points where a
callback can intervene; `call.pc` is the place of the MATLAB thread:

| `pc` | code | actions |
|---|---|---|
| `open`, `await` | `openPutChan` 694–735, `awaitOpInit` 409–433 | `OpenReuse`, `OpenDropDead`, `OpenCreate`, `OpenThrows`, `OpenReady`, `OpenFails` |
| `build` | `pvaPutProto` 746–773 and the verb's conversion | `BuildArg`, `BuildFails` |
| `reap`, `check` | 838, 861–873 | `Reap`, `CheckDrop`, `CheckWarm`, `CheckShot` |
| `fire`, `waitWarm` | `warmPutExec`, `warmPutNoWait`, `awaitOpSync` | `FireWait`, `FireNoWait`, `FireThrows`, `WarmSucceeds`, `WarmFails`, `WarmTimeout` |
| `shot`, `waitShot` | 892–956 | `ShotWait`, `ShotNoWait`, `ShotThrows`, `ShotReturns`, `ShotTimeout` |

`op[o]` is a `client::Operation`, numbered in the order of creation, with the
put its callback closes over; `init`, `st` are its `OpInit` and `ChanState`.
`OpSync`'s stamp is modelled by the number of the put the callback belongs to.
The rest of the session that touches this channel's handles between two puts is
`PvaClear`, `EvictChannel` (another channel needed the room) and
`ReapElsewhere` (another channel's put swept).

Relied on of PVXS (external, from the comments and from the use in the code):
an operation exchanges INIT on every connection; INITs of a channel are answered
in the order of creation; an Idle or negotiating operation survives a
disconnect, a put in Exec is done for ever with `Disconnect`; `reExecPut` acts
on an Idle operation only, and only then installs its callback; a `RemoteError`
returns a warm operation to Idle; dropping the last handle cancels it and no
callback follows. The server takes data off a wire that keeps order and loses
what is on it when the connection goes.

Deadlines have no clock. One that is set may pass at any later moment, which
includes every setting of the timeout. The constant `OutlastsBarrier` says
whether the ordering barrier's deadline (685) may pass while a one-shot the
barrier counts is still unsent (once that one-shot is sent, refused or evicted the
deadline passes freely), `MayRefuse` whether a server may refuse an INIT.

The `exec()` of an operation may throw. In `openPutChan` nothing has changed by then
(`OpenThrows`); behind line 928 the barrier is up with no callback to take it down
(`ShotThrows`), and only its deadline frees the warm operation. A put that fails at the
conversion may have recorded its channel (`BuildFails`).

### PutLog

Six variables that know of no operation: the puts issued, whether the newest
call waits and what it told MATLAB, the puts whose data may still be sent, what
was sent, what was written. `WarmPut` implements it under `issued <- call.put`,
`owed <- Owed` (the put the call has not handed on, and those of the one-shots
that have not been answered), `log <- sent`, `written <- applied`. Puts may be
lost, one at a time: by an eviction, a refusal, a type that changed, a `reExecPut`
on an operation that is not Idle. So the answer "issued" of a no-wait put does not
promise that it is sent (`warm_not_ready` in section 4); but "error" and
"timeout" promise that it is not sent later, for then MATLAB decides whether to
issue it again (`pvaGlue.h:131-137`).

### PendingPuts

One action is one critical section of `g_putLock`, or one destruction of handles
outside it. `Finish` is the callback; it can run between any two of them.
`MAX_PENDING_PUTS` is the constant `MaxPending`. `g_donePuts` is a vector; no code
depends on its order, so it is a set here.

### WarmGet

`op[q]` is the operation of request `q`, `lru` the registry in order of last
use. `current` says whether the callback installed on an operation carries the
stamp `OpSync` was last armed with. `call.held` is a history variable: the
answers the server could give since the read began. Reads past the monitor cache
only. An exception out of `exec()` or `reExecGet` (it ends the read with an error and
changes no entry) is not modelled.

### Monitor and NewSample

`NewSample` has three variables: the newest sample the client received, the one
`pvaGet` serves, and the last answer. `Monitor` pops one sample per step, with
pushes, the event callback and the timeout in between. Under the mapping
`newest <- Newest` (the last sample of the queue, or the cached one) and
`cached <- before` (`MonEntry::latest` as of the last return), each call takes
effect when it returns. `Broken` is the one exception the code makes: when
`pop()` throws, samples drained before are cached although the call fails. A call
without a monitor (`NoMonitor`) fails and changes nothing.

### Convert and ConvertPut

PV data are records by `kind` (scalar, array, struct, struct array, union, union
array, null), MATLAB arrays records by `class`. One integer and one floating
type stand for all widths; numbers are counted in halves, so that truncation
shows. A definition has the name of its C++ function; where the backends agree
it follows the PVXS file. Where they do not:

- names of a struct array: from the first element that is there (PVXS), from the
  type (classic);
- a struct with a field that cannot be converted: PVXS stops there and sends
  nothing, the classic backend goes on with the fields behind it, reports the
  last error, and has already changed its put handle;
- a text that is no number: an error (PVXS), an exception that leaves
  `mexFunction` (classic; the code `exception` in the model);
- `pvEnumChoicesToMx`: the choices of an `enum_t` (PVXS), of any structured `value` that
  has a list of strings so named (classic).

What recurs down a tree is a constant operator of `Convert` and `ConvertPut` with
the name of its C++ function, and is defined in `ConvertTrees`: `anyToMx`
(`TreeToMx`), `mxIntoValue` (`MxIntoTree`), `mxToPvField` (`MxToPvTree`), and the
server's merge of a put into a structure, `Overlay` (`OverlayTree`). The configurations
`reads.cfg`, `put_verbs.cfg` and `put_stale.cfg` give the constants these
definitions. TLAPS proves nothing in the presence of RECURSIVE operators; so the
theorems about the verbs hold whatever the constants are, and what a tree of any
depth becomes is left to TLC (`ReadBack`, `PutEffect`).

`NameMax` is `namelengthmax`, 63 in the code and 16 in the runs, so that names of
the instance are cut.

### ReadVerbs

One step reads and converts one channel of the call's list. `servedFromCache`
is the decision at the head of `pvaGet`; a read it does not serve takes what the
server holds (`WarmGet` is about how). `mon` is `g_monitors` with the queue of
each subscription; the classic wait takes one event (`takeEvent`), every other
drain takes all (`drainQueue`). The server posts samples, the connection is lost
and comes back, each between any two steps. `announced` and `opened` are history
variables: the sample the last positive poll or wait reported, and what the
server held when the monitor was set. A poll or wait that finds nothing, or has no
monitor, changes none of this and is no step; one on a subscription that ends is in
`Monitor`. The metadata getters are represented by
`pvaGetStatus`, `pvaGetNelem` and `pvaGetEnumStrings`; the provider is `pva`.

### PutVerbs

One call walks its names: `Prepare` cuts out the channel's value (`putValueFor`)
and takes the template (`pvaPutProto`) or the handle (`pvaPutPrepare`), `Commit`
converts and sends, `WaitOk` and `WaitTimeout` end the wait. Between them the
server applies, refuses or loses what is on a channel's wire, and another client
writes (`Edit`). `handle` is pvaClient's put cache by channel and request: fetched
once, changed in place by every conversion, and pvaClient issues no put on one whose
last put is still on its way (`HandleBusy`). A put that cannot be issued, because `exec()`
throws or pvaClient fails, ends the call with the handle changed (`CommitFails`).
Puts of PVXS may overtake each other
on a wire, as `WarmPut` shows they can.

Faithfully odd, and in the model:

- the classic put of a choice string looks it up in the handle's choices, which
  may be those of an earlier connection (`EnumChoiceCurrent` is about PVXS);
- `pvaPutTable` with some of the columns can leave a ragged table, for a column
  is only compared with the others supplied (`TableStaysWhole` is about puts of
  all columns);
- a logical array given to a scalar field writes false;
- on PVXS `pvaGet(pv,'C')` of a logical array reads it through the pointer of a
  double array (`Undefined`, and no property compares what it yields);
- a classic `pvaSetMonitor` that fails has already torn the old monitor down;
- `pvaGetTable` of a plain channel under a narrow monitor is read fresh, where `pvaGet` serves the cache: `pvaGetTable.cpp:8`
  says value and time stamp match those of `pvaGet`;
- the time stamp of a value served from a monitor on `field(value)` is 0.

## 3. Runs

Bounds are small, and chosen so that each hazard fits: a warm put behind a
one-shot behind a warm put needs three puts; a rebuilt channel next to a parked
one-shot and one more, or three one-shots beside the warm operation, need four
operations;
one lost connection puts an operation into each phase it can be in when it is
lost, two allow a second structure to be replaced.

| run | bounds | shows |
|---|---|---|
| `warm_order` | 3 puts, 4 operations, 1 drop, 2 parked | `TypeOK`, `AtMostOnce`, `InOrder`, refinement of `PutLog`, `OkMeansApplied`, `InFlightKept`, `DeadNeverChosen` |
| `warm_live` | 2 puts, 3 operations, 1 drop, 2 structures, refusals | `TypeSafe`, `PutReturns`, `ParkedPutFinishes` |
| `pending_puts` | 5 keys, registry of 2 | bounds, handles, sweep and eviction, `FinishedReaped` |
| `get_reads` | 2 requests, registry of 1, 2 values, 2 drops, refusals | `TypeOK`, `Registry`, `OwnAnswer`, `DeadReplaced`, `ReadReturnsAtLast` |
| `monitor` | 5 samples, queue of 2 | `TypeOK`, `NoLostWakeup`, `SampleEndsWait`, refinement of `NewSample` |
| `reads` | 3 databases of 2 channels, 3 samples, queue of 2, 12 calls of which 1 is made, 1 drop, 1 monitor at a time, 3 requests | nine properties of the cache, the order of outputs and the round trip through the conversion |
| `put_verbs` | 2 databases of 2 channels, 16 and 11 calls of which 2 are made, 1 write of another client, 1 fault (a put refused, lost or not issued) | values, order, what is kept, enum choices, tables |

`reads` needs one call only: what it can disturb for a later one is in `mon`,
which the monitor verbs reach on their own, before the call and between two of
its channels' steps alike. Three samples and a queue of two make the queue merge,
and let the classic wait lag. `put_verbs` needs two calls, for the second finds
the first's put still on the wire, or its values in the handle. The two
databases hold a scalar, an enum, a table and a group without `value`, and the
calls every shape `putValueFor` distinguishes, refused ones included.

`warm_order` assumes no server refuses an INIT and the barrier's deadline does not pass
over an unsent one-shot it counts: without either, `DeadNeverChosen` and `InOrder` fail (section 4).
`WarmPut`, `ReadVerbs` and `PutVerbs` bound what MATLAB does, so their runs end:
deadlock is not checked there. It is checked in every other run.

Fairness. `MatlabSpec` says only that the MATLAB thread, inside a verb, keeps
taking steps; all its waits have a deadline, so `PutReturns` and
`ReadReturnsAtLast` need no server. The other liveness properties add what the
code cannot do without (`ParkedPutFinishes` as its hypothesis `OthersFairness`,
so that one run serves both): worker threads run due callbacks, the client reconnects,
a connected server answers; for `DeadReplaced`, the application goes on reading
each of its requests; for `FinishedReaped`, puts or clears go on coming, for it
is they that sweep. `SampleEndsWait` counts on the callback and on the thread,
and on no deadline.

## 4. Where the code and its documents differ

Each has a run that ends in a counterexample.

- `warm_overtaken`: `putChanFree` (685) lets the warm operation fire once the
  barrier's deadline has passed, although the one-shot may still be negotiating;
  the earlier put is then written last. ARCHITECTURE.md:327–330 states the order
  without that exception.
- `warm_not_ready`: 870 asks whether the channel is connected, not whether the
  operation is Idle. Just after a reconnect it is still negotiating, and a
  no-wait put fired into it is lost silently (ARCHITECTURE.md:299–303).
- `warm_refused`: once a warm operation has been fired, a refused re-INIT comes
  to the callback of an execution, where a `RemoteError` counts as "back to
  Idle"; the dead channel is chosen again (ARCHITECTURE.md:304–311).
- `put_stale`: on the classic backend `pvaPutPrepare` fetches once per channel and
  request, and `pvaPutStructure` sends the whole structure: a field the struct
  omits is put back to what the handle holds, over what another client has
  written since (`pvaPutStructure.cpp:7-8`, `pvaGlue.h:99-100`, README.md:300;
  CHANGELOG.md:260-262 lists it as a known difference of the backends).
- `get_last_error`: nothing resets the last error, so `pvaLastError` reports an
  old failure after a success (`src/matlab/pvaLastError.cpp:6`, README.md:342).

Seen while modelling, without a run of their own:

- a key left over by a sweep (318) is that of an evicted put whose callback ran
  before its handle was destroyed; it stays in `g_donePuts` for the session,
  while the comment at 316–317 expects its handle to be parked;
- `pvaError.h:40` calls `err` the first error that is not OK; the classic
  conversion of a struct leaves the last one (`fieldsToPv`);
- an identifier made distinct after the cut at 63 characters is longer than 63,
  and the name of a field depends on the other names of the request it was read
  with, so a struct read with a narrow request may be put under other names;
- an enum index without a choice is read as a number that `pvaPut` then refuses.

## 5. Proofs

All are checked by TLAPS for every value of the constants, from the assumptions
the modules name and TLC evaluates: `BoundsAssumption`, `TypesAssumption`,
`SwitchesAssumption` (`WarmPut`), `SizesAssumption` (`PendingPuts`),
`ReadsAssumption` (`WarmGet` and `ReadVerbs`), `QueueAssumption` (`Monitor`),
`NameMaxAssumption`, `DoublesAssumption` (`Convert`), `LayoutsAssumption`
(`ReadVerbs`), `PutsAssumption` (`PutVerbs`) and `CallsAssumption` (both verb
modules). They say that the
bounds are numbers, that a registry or a queue has room for one entry, and that
the markers of "no type", "no answer" and the like are no types and no values.
Of the verbs they say that a call is one of the verbs with arguments of its
shape, and that a channel's sample is a structure whose field names are distinct
(pvData refuses another), whose type is not `enum_t` (which is that of a field),
and whose names `DistinctSuffixes` is true of: `base_2`, `base_3`, ... differ.
That last is a fact about decimal numerals, which the prover does not know and
TLC evaluates.

Three theorems need more, and say so in their statements. `DeadPassedOver` is about
servers that refuse no INIT, `SentInOrder` and `Implements` (of `PutLog`) about
a barrier whose deadline does not pass over an unsent one-shot it counts. The runs `warm_refused` and
`warm_overtaken` are the counterexamples without these hypotheses (section 4),
and `warm_order` is an instance that satisfies both.

### The write path

| theorem | property | inductive invariant |
|---|---|---|
| `TypeCorrect`, `Typed` | `TypeOK` | `TypeInv` |
| `PutsAtMostOnce` | `AtMostOnce` | `TypeInv`, `SentInv` |
| `NoWaitKept` | `InFlightKept` | `HandleInv` |
| `WireTyped` | `TypeSafe` | `ProtoInv` |
| `SuccessApplied` | `OkMeansApplied` | `AppliedInv` |
| `DeadPassedOver` | `DeadNeverChosen` | `HealthInv` |
| `SentInOrder` | `InOrder` | `OrderInv` |
| `Implements` | `Refines` (`PutLog`) | `LogInv` |

- `TypeOK` is not inductive: whether `op[chan]` has a type depends on `chan` being
  an operation while the call is between `build` and its wait. `TypeInv` adds
  `CallOK`, which says where the MATLAB thread holds an entry, an operation or a
  put. One lemma per group of actions shows that they keep it.
- That no put is sent twice says nothing about who may still send it. `SentInv`
  says that a put has one holder: the call that has not sent it yet, one one-shot
  that is still to send it, or the wire, where it is once. Firing
  moves it from the call to the wire, issuing a one-shot moves it to the
  operation, an INIT reply moves it on, a timeout or a failure lets it go.
- `HandleInv`: the channel's entry and `g_retiredPuts` hold warm operations and
  share none, `g_pendingPuts` holds one-shots nobody waits for, and what a call
  waits for is its own. So whatever destroys handles destroys no no-wait put that
  is executing within its deadline.
- `ProtoInv`: a warm operation that can act has the prototype of the present
  connection, and the argument about to be fired has that type unless the
  operation's generation has moved since the check. That exception is in
  `TypeSafe` too: it is the window between 867 and the execution.
- `AppliedInv`: a result "ok" of an operation, and the one the call was handed,
  belong to a put that was written. It is the put the callback closes over that is
  compared, so no late result passes for another's.
- `HealthInv`: an entry whose operation executes, or ended without `putChanDead`
  knowing, has somebody due to hear of it, a call that waits or a callback that
  will clear `busy`; until then nothing is fired (`AnswerDue`).
- `OrderInv`: what waits for its INIT is newer than what was sent, one-shots
  created later carry newer puts, and none waits when the warm operation is
  fired. The last is the barrier's work for the one-shots issued beside the
  present warm operation: the barrier is at least the number of one-shots that
  hold it (`BarrierUp`, a count, proved with the facts on cardinalities), and its
  deadline has not passed while one of them is unsent (`InTime`). For those
  issued beside an earlier one it is the order of the INIT replies: the new
  operation's INIT was answered after theirs (`RepliesInOrder`).
- `LogInv` adds to all of these that a waiting call's put is carried by the
  operation it waits for, so that the timeout of the call takes it back
  (`Awaited`), and that the record has only what came off the wire (`Taken`).
  Each action of `WarmPut` then moves, sends or loses one put of `Owed` at most, or
  is a stutter.

### The registries

- `RegistryBounded`, `HandlesHeld`, `SweepsCancelNothing`, `CancelsOnlyOldest`,
  `Typed` (`PendingPutsProofs`). `IInv` adds to the three invariants what the
  MATLAB thread holds outside the lock (`PcOK`), what a key in a container tells of
  its put (`KeysOK`: a key in `g_donePuts` has completed or was evicted), and that
  an evicted handle about to be destroyed is older than a full registry
  (`EvictedOldest`, which is not yet `OldestCancelled`: the destruction is a later
  step, outside the lock). That there is an oldest is `LeastExists`.
- `RegistryKept`, `AnswersOwn`, `Typed` (`WarmGetProofs`). `RegistryInv`: an entry
  is listed once, and an operation is alive only in an entry or while it is being
  opened. `AnswerInv`: the result the call would take is one the record held since
  the call began, because an event counts only while the callback on the
  operation carries the stamp last armed (`current`); and a call ends with a value or
  an error and not both.

### The monitor

- `Typed`: the bound on the queue and what the wakeup depends on.
- `WakeupsKept`. `NoLostWakeup` is inductive: the thread falls
  asleep on an empty queue only, and what makes the queue non-empty makes the
  callback due.
- `Implements`. The refinement `newest <- Newest, cached <-
  before` needs `RefInv`: the queue is in the order sent, newer than the cached
  sample, with nothing behind the subscription's end (`QueueOK`), and only a call
  that is draining holds a sample MATLAB has not been told of (`CallOK`). Draining
  and the arriving end leave `Newest` alone, so they are stutters; a sample, a
  return, a new or cleared monitor are steps of `NewSample`.

### The conversion

`ConvertProofs` proves what the verbs lean on, for trees of any width and without
the constant operators' help. `NamesDistinct`: `legalFieldNames` makes one name per
field and no two alike. A number that has not been seen is always found among
the first `Cardinality(seen) + 1`, for else as many different names would be seen
as there are numbers. `ChoiceFound`: the index `choiceIndex` finds is in range and its
choice is spelled as the string. `EnumArgument`: the argument `mxToPutArg` makes for
an enum carries the index `enumIndexFor` found. `FieldSet`, `CloneFields`: what setting
a field and `cloneEmpty` leave in a structure.

### The read verbs

| theorem | property | from |
|---|---|---|
| `Typed` | `TypeOK` | `IInv` |
| `Fresh` | `FreshEnough` | `IInv`, `GotInv` |
| `Undivided` | `ValueWhole` | `GotInv` |
| `Complete` | `StructureComplete` | `GotInv` |
| `Ordered` | `OutputInOrder` | `IInv`, `OutInv` |
| `Forward` | `CacheForward` | `IInv` |
| `Outlives` | `CacheOutlivesOutage` | `IInv` |

- `IInv` orders the samples of a subscription: none is older than what the server
  held when the monitor was set, the queue rises from the cached sample to the
  server's (`SubscriptionOK`), and the sample last announced is the one cached
  (`CacheInv`). Pushing into a full queue merges the newest two and keeps the order;
  draining it, wholly or by one event, moves the cache forward. `FreshEnough` compares
  entries with what was announced and held when each was made; these facts about the
  registry are what it holds by.
- `GotInv` records where each entry came from (`Origin`): from the cache, with a
  request the policy accepts and without the poll flag, or fresh. It is needed
  because the entries outlive the steps that made them, while server and monitor go on.
- `Undivided`: of a request `cachedValueIsPlain` accepts, the value is the value of
  the whole structure and no enum, and the conversion of a plain value looks at nothing
  else (`PlainValueWhole`); the time stamp is the sample's or missing (`StampWhole`).
- `Complete`: projecting keeps the order and the names of the selected fields
  (`ProjectNames`), so the struct has a field for each (`StructureFields`).
- `Outlives`: the cached whole sample is accepted by `servedFromCache`, and
  `pvValueToMx` fails on no kind of value (`NeverError`).

### The put verbs

| theorem | property | from |
|---|---|---|
| `Typed` | `TypeOK` | `IInv` |
| `InOrder` | `WrittenInOrder` | `IInv` (`Progress`) |
| `ChoicesCurrent` | `EnumChoiceCurrent` | `IInv` (`Template`, `Carried`) |

- `WrittenInOrder` speaks of the end of a call. `Progress` says at each point of the
  loop how many channels were sent to and acknowledged, one fewer before `Commit` than
  after it, so that a failure at either point leaves the list written up to it.
- `EnumChoiceCurrent` speaks of puts on a wire. `Template` says that between the
  verb's look at the server and its conversion the template is what the server held,
  `Carried` that every message on a wire was made of one (`MessageCurrent`); losing,
  applying and overtaking messages keep that (`RemoveKeeps`). A classic put is free to use its
  handle's choices. `IsEnumText` names the puts it is about: text, given to a
  structure whose `value` is an `enum_t` of an index and a list of strings.

### Only model-checked

- Liveness, which is outside the prover's reach: `PutReturns`,
  `ParkedPutFinishes`, `FinishedReaped`, `ReadReturnsAtLast`, `DeadReplaced`,
  `SampleEndsWait`.
- `StructureRoundTrip`, `EnumRoundTrip` (`ReadBack`), `RightValue`, `OmittedKept`,
  `TableStaysWhole` (`PutEffect`): they compare whole trees, by definitions that recur
  down them (`Writable`, `Holds`, `Keeps`), with what the constant operators make of
  them. Such a fact goes by induction over trees, which the prover cannot do.
- The five properties that fail (section 4).

## 6. Not modelled

- The cast of a `double` out of its target's range, which C++ leaves
  undefined, and the widths of integers with it; complex numbers, which
  `putValueFor` refuses for a list, and `mxArray` classes other than double,
  logical, char, cell, struct, string and table.
- Requests other than `field(...)` with names of top-level fields.
- The type letter of the put verbs: it has no effect in the code.
- `pvTypeId`, `pvIntrospect`, the getters of limits, units and precision, the
  listing verbs: each reads one thing and changes nothing.
- The provider `ca`; provider, timeout and debug flag are assignments.
- What is below pvaClient's interface: its own threads and its get
  cache, of which the glue only uses that `get()` answers with fresh data.
- `pvaGetImage.m`, the help generator and the build.

## 7. What is left

- The round trips and the effect of a put, for every tree: by induction over the
  depth, once a prover can instantiate such a theorem.
- From `PutLog` alone, what a program in MATLAB may rely on: that a put issued again
  after a failure is not overtaken by the first.
- The width of numbers, and the casts that leave it.
