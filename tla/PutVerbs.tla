------------------------------ MODULE PutVerbs ------------------------------
(***************************************************************************)
(* The put verbs on both backends: pvaPut, pvaPutNoWait, pvaPutStructure   *)
(* and pvaPutTable, to one channel or a list.                              *)
(*                                                                         *)
(* A verb takes its channels one by one: it cuts the channel's value out   *)
(* of the MATLAB argument, asks for what to convert it against (the type   *)
(* template of pvaPutProto, or pvaClient's cached put handle), converts,   *)
(* sends, and waits unless it is pvaPutNoWait. It stops at the first error.*)
(* Meanwhile the server applies what is on its way and another client      *)
(* writes to the same channels. Which PVXS operation carries the put is    *)
(* WarmPut's subject: here it is a message on the channel's wire.          *)
(***************************************************************************)
EXTENDS ConvertPut

CONSTANTS
  Layouts,    \* a list of databases: from channel to the tree it starts with
  Channels,
  Calls,      \* per database, the calls MATLAB may make
  Edits,      \* per database and channel, what another client may write
  Requests,   \* the pvRequests of the calls
  ValueOnly,  \* the pvRequest "field(value)"
  BuiltFor,   \* the backends looked at
  MaxCalls,   \* bound on the calls made
  MaxEdits,   \* bound on the other client's writes
  MaxFaults   \* bound on the puts that fail, are lost or refused by the server

ASSUME PutsAssumption ==
  /\ \A i \in DOMAIN Layouts : DOMAIN Layouts[i] = Channels
  /\ DOMAIN Calls = DOMAIN Layouts /\ DOMAIN Edits = DOMAIN Layouts
  /\ {Whole, ValueOnly} \subseteq Requests /\ BuiltFor \subseteq Backends
  /\ MaxCalls \in Nat /\ MaxEdits \in Nat /\ MaxFaults \in Nat

VARIABLES
  backend,   \* "pvxs" or "pvac", a build option
  db,        \* external: the database of this behaviour
  pv,        \* external: the tree each channel's server holds
  edits,     \* external: writes of the other client so far
  faults,    \* external: puts that failed, were lost or refused so far
  wire,      \* external: the puts on their way to each channel's server
  handle,    \* external: the data of pvaClient's put handles, per channel and request
  call,      \* the MATLAB thread's put call
  calls      \* how many calls were made

vars == <<backend, db, pv, edits, faults, wire, handle, call, calls>>
fixed == <<backend, db>>

NoCall == [pc |-> "idle", err |-> PVA_OK]

Init ==
  /\ backend \in BuiltFor /\ db \in DOMAIN Layouts
  /\ pv = Layouts[db]
  /\ edits = 0 /\ faults = 0
  /\ wire = [ch \in Channels |-> <<>>]
  /\ handle = [ch \in Channels |-> [req \in Requests |-> Null]]
  /\ call = NoCall /\ calls = 0
-----------------------------------------------------------------------------
(***************************************************************************)
(* The MATLAB arguments.                                                   *)
(***************************************************************************)

\* A char row names one channel, a cell of char rows a list.
buildPVs(names) ==
  IF names.class = "char" THEN Done(<<getStdString(names)>>)
  ELSE IF names.class = "cell" /\ \A i \in DOMAIN names.cells : names.cells[i].class = "char"
  THEN Done([i \in DOMAIN names.cells |-> getStdString(names.cells[i])])
  ELSE Refuse("PVA_INVALIDARG", <<>>)

wasCell(names) == names.class = "cell"

\* Mutant: every channel is given the first element.
FirstForEvery(arg, i, n, list) ==
  CASE list /\ arg.class = "cell" -> Done(arg.cells[1])
    [] list /\ isNumericOrLogical(arg) -> Done(Double(<<mxNumericToDoubles(arg)[1]>>))
    [] OTHER -> Done(arg)

\* The value for channel i of n: one value goes to all of them, n values one to
\* each, and a single channel takes the whole argument.
putValueFor(arg, i, n, list) ==
  LET nv == Height(arg)
  IN  CASE ~list -> Done(arg)
        [] list /\ arg.class = "cell" ->
             IF nv = 1 THEN Done(arg.cells[1])
             ELSE IF nv = n THEN Done(arg.cells[i]) ELSE Refuse("PVA_INVALIDARG", arg)
        [] list /\ isNumericOrLogical(arg) ->
             IF nv = 1 \/ n = 1 THEN Done(arg)
             ELSE IF nv = n THEN Done(Double(<<mxNumericToDoubles(arg)[i]>>))
             ELSE Refuse("PVA_INVALIDARG", arg)
        [] list /\ arg.class = "char" ->
             IF Len(arg.rows) > 1 THEN Refuse("PVA_INVALIDARG", arg) ELSE Done(arg)
        [] OTHER -> Done(arg)

\* pvaPutStructure takes a struct, or a cell with a struct for each channel.
structFor(arg, i, list) ==
  LET mx == IF list THEN arg.cells[i] ELSE arg
  IN  IF mx.class = "struct" THEN Done(mx) ELSE Refuse("PVA_INVALIDARG", mx)

\* What a verb refuses before it touches a channel.
BadArguments(c) ==
  \/ buildPVs(c.names).err # PVA_OK
  \/ /\ c.verb = "pvaPutStructure"
     /\ IF wasCell(c.names)
        THEN c.args[1].class # "cell" \/ Len(c.args[1].cells) # Len(buildPVs(c.names).pv)
        ELSE c.args[1].class # "struct"

\* The calls are of these verbs, on channels there are.
Verbs == {"pvaPut", "pvaPutNoWait", "pvaPutStructure", "pvaPutTable"}
ASSUME CallsAssumption ==
  \A i \in DOMAIN Layouts : \A c \in Calls[i] :
    c.verb \in Verbs /\ (~BadArguments(c) => buildPVs(c.names).pv \in Seq(Channels))

ValueFor(c, i) ==
  LET list == wasCell(c.names)
  IN  IF c.verb = "pvaPutStructure" THEN structFor(c.args[1], i, list)
      ELSE putValueFor(c.args[1], i, Len(buildPVs(c.names).pv), list)
-----------------------------------------------------------------------------
(***************************************************************************)
(* The columns of pvaPutTable. "string" is MATLAB's string array.          *)
(***************************************************************************)
TextCell(ss) == Cell([i \in DOMAIN ss |-> Char(ss[i])])
normaliseColumn(mx) ==
  CASE mx.class = "string" -> TextCell(mx.texts)
    [] mx.class = "char" /\ Len(mx.rows) > 1 -> TextCell(mx.rows)
    [] OTHER -> mx

columnLength(mx) == IF mx.class = "char" THEN 1 ELSE Height(mx)

\* Mutant: columns of any length pass.
AnyLengths(mx) ==
  Done(MxStruct(mx.fields, <<[i \in DOMAIN mx.fields |-> normaliseColumn(mx.elems[1][i])]>>))

\* One element, at least one column, a value in each, all of one length.
normaliseStruct(mx) ==
  LET cols == [i \in DOMAIN mx.fields |-> normaliseColumn(mx.elems[1][i])]
  IN  IF /\ mx.class = "struct" /\ Len(mx.elems) = 1 /\ mx.fields # <<>>
         /\ \A i \in DOMAIN cols : mx.elems[1][i] # MxNull
         /\ \A i, j \in DOMAIN cols : columnLength(cols[i]) = columnLength(cols[j])
      THEN Done(MxStruct(mx.fields, <<cols>>)) ELSE Refuse("PVA_INVALIDARG", mx)

\* A table becomes a struct of its variables (external: table2struct).
normaliseTableInput(mx) ==
  normaliseStruct(IF mx.class = "table" THEN MxStruct(mx.names, <<mx.cols>>) ELSE mx)

\* A column name is a char row or a string scalar.
IsFieldName(mx) == mx.class = "char" \/ (mx.class = "string" /\ Len(mx.texts) = 1)
fieldName(mx) == IF mx.class = "char" THEN getStdString(mx) ELSE mx.texts[1]

\* name, value, name, value, ...
columnsFromPairs(args) ==
  LET count  == Len(args) \div 2
      names  == [i \in 1..count |-> fieldName(args[2 * i - 1])]
      values == [i \in 1..count |-> args[2 * i]]
  IN  IF /\ Len(args) % 2 = 0
         /\ \A i \in 1..count : IsFieldName(args[2 * i - 1])
         /\ \A i \in 1..count : names[i] # ""
         /\ IsInjective(names)
      THEN normaliseStruct(MxStruct(names, <<values>>)) ELSE Refuse("PVA_INVALIDARG", Empty)

tableColumnsFor(value, args) ==
  IF Len(args) = 1 THEN normaliseTableInput(value) ELSE columnsFromPairs(args)
-----------------------------------------------------------------------------
(***************************************************************************)
(* What is converted against, and into what.                               *)
(***************************************************************************)

\* Mutant: the choices of an enum are those of the first connection.
ProtoCached(ch) == Layouts[db][ch]

\* The type template of the warm put operation: no data in it. An enum is read
\* from the server, for its choices are data.
pvaPutProto(ch) ==
  IF IsEnum(Field(pv[ch], "value")) THEN pv[ch] ELSE Layouts[db][ch]

Selects(tree, req) == Project(tree, req).names # <<>>

\* pvaClient's put handle: fetched when it is first asked for, kept ever after.
pvaPutPrepare(ch, req) ==
  IF IsNull(handle[ch][req]) THEN Project(pv[ch], req) ELSE handle[ch][req]

RequestOf(c) == IF c.verb = "pvaPutStructure" THEN c.req ELSE ValueOnly

\* Mutant: the request of pvaPutStructure is not looked at.
NoScope(arg, req) == arg

\* Top-level fields outside the request are unmarked again.
applyRequestScope(arg, req) ==
  IF req = Whole THEN arg
  ELSE [arg EXCEPT !.kids = [i \in DOMAIN arg.kids |->
          IF arg.names[i] \in req THEN arg.kids[i] ELSE cloneEmpty(arg.kids[i])]]

PutArg(mx, cur) == IF backend = "pvxs" THEN mxToPutArg(mx, cur) ELSE mxToPvValue(mx, cur)

StructureArg(mx, cur, req) ==
  LET put == mxToPutArgStructure(mx, cur)
  IN  IF backend = "pvac" THEN mxToPvField(mx, cur)
      ELSE IF put.err = PVA_OK THEN Done(applyRequestScope(put.pv, req)) ELSE put

TableArg(mx, args, cur) ==
  LET columns == tableColumnsFor(mx, args)
      valid   == pvValidateTableColumns(cur, columns.pv)
  IN  CASE ~pvIsNTTable(cur) ->
             IF Len(args) > 2 THEN Refuse("PVA_INVALIDARG", cur) ELSE PutArg(mx, cur)
        [] pvIsNTTable(cur) /\ columns.err # PVA_OK -> Refuse(columns.err, cur)
        [] pvIsNTTable(cur) /\ columns.err = PVA_OK ->
             IF valid # PVA_OK THEN Refuse(valid, cur) ELSE PutArg(columns.pv, cur)

Converted(c, mx, cur) ==
  CASE c.verb \in {"pvaPut", "pvaPutNoWait"} -> PutArg(mx, cur)
    [] c.verb = "pvaPutStructure"            -> StructureArg(mx, cur, c.req)
    [] c.verb = "pvaPutTable"                -> TableArg(mx, c.args, cur)

\* What a put handle's data is on the server's structure: marked as a whole.
Widened(data, tree) ==
  [tree EXCEPT !.kids = [i \in DOMAIN tree.kids |->
     IF tree.names[i] \in ToSet(data.names) THEN Field(data, tree.names[i])
     ELSE cloneEmpty(tree.kids[i])]]
-----------------------------------------------------------------------------
(***************************************************************************)
(* The MATLAB thread.                                                      *)
(***************************************************************************)
Free == call.pc \in {"idle", "done", "failed"}

\* Mutant: errCheck is not called.
NoErrCheck(err) == [call EXCEPT !.pc = "done", !.err = err]
\* Mutant: the loop does not stop.
KeepGoing(err) ==
  IF call.k < Len(call.pvs) THEN [call EXCEPT !.pc = "prepare", !.k = @ + 1]
  ELSE [call EXCEPT !.pc = "failed", !.err = err]

\* The loop ends, errCheck raises.
Stop(err) == [call EXCEPT !.pc = "failed", !.err = err]

\* The next channel of the list, or the return.
NextChannel ==
  IF call.k < Len(call.pvs) THEN [call EXCEPT !.pc = "prepare", !.k = @ + 1]
  ELSE [call EXCEPT !.pc = "done"]

\* An empty list is done with at once.
Begin(c) ==
  /\ Free /\ calls < MaxCalls
  /\ calls' = calls + 1
  /\ call' = [c |-> c, pvs |-> buildPVs(c.names).pv, k |-> 1, cur |-> Null, seen |-> Null,
              sent |-> <<>>, acked |-> {},
              pc |-> CASE BadArguments(c) -> "failed"
                       [] ~BadArguments(c) /\ buildPVs(c.names).pv = <<>> -> "done"
                       [] OTHER -> "prepare",
              err |-> IF BadArguments(c) THEN "PVA_INVALIDARG" ELSE PVA_OK]
  /\ UNCHANGED <<fixed, pv, edits, faults, wire, handle>>

CurrentPv == call.pvs[call.k]

\* The channel's value, then the template or the handle.
Prepare ==
  /\ call.pc = "prepare"
  /\ LET ch  == CurrentPv
         req == RequestOf(call.c)
         cur == IF backend = "pvxs" THEN pvaPutProto(ch) ELSE pvaPutPrepare(ch, req)
         value == ValueFor(call.c, call.k)
     IN  IF value.err # PVA_OK
         THEN call' = Stop(value.err) /\ UNCHANGED handle
         ELSE IF backend = "pvac" /\ ~Selects(pv[ch], req)
         THEN call' = Stop("PVA_NOTCONNECTED") /\ UNCHANGED handle
         ELSE /\ call' = [call EXCEPT !.pc = "commit", !.cur = cur, !.seen = pv[ch]]
              /\ handle' = IF backend = "pvxs" THEN handle ELSE [handle EXCEPT ![ch][req] = cur]
  /\ UNCHANGED <<fixed, pv, edits, faults, wire, calls>>

\* The channel cannot be reached, or its INIT fails.
PrepareFails ==
  /\ call.pc = "prepare" /\ faults < MaxFaults
  /\ call' = Stop("PVA_NOTCONNECTED")
  /\ faults' = faults + 1
  /\ UNCHANGED <<fixed, pv, edits, wire, handle, calls>>

\* The put of this channel.
Message(arg) ==
  [n |-> calls, k |-> call.k, c |-> call.c, seen |-> call.seen, arg |-> arg]

Sent ==
  LET on == IF call.c.verb = "pvaPutNoWait" THEN NextChannel ELSE [call EXCEPT !.pc = "wait"]
  IN  [on EXCEPT !.sent = Append(@, call.k)]

\* The classic backend converts into its handle, which keeps what it was given
\* whether or not the put is made.
KeepConversion(ch, put) ==
  handle' = IF backend = "pvxs" THEN handle
            ELSE [handle EXCEPT ![ch][RequestOf(call.c)] = put.pv]

\* pvaClient makes no put on a handle whose last one is still on its way.
OnWire(ch) == {wire[ch][i] : i \in DOMAIN wire[ch]}
HandleBusy(ch) ==
  backend = "pvac" /\ \E m \in OnWire(ch) : RequestOf(m.c) = RequestOf(call.c)

\* What is done with a conversion: the put when it succeeded.
CommitPut(ch, put) ==
  /\ KeepConversion(ch, put)
  /\ IF put.err # PVA_OK THEN call' = Stop(put.err) /\ UNCHANGED wire
     ELSE IF HandleBusy(ch) THEN call' = Stop("PVA_FAILURE") /\ UNCHANGED wire
     ELSE LET arg == IF backend = "pvxs" THEN put.pv ELSE Widened(put.pv, call.seen)
          IN  /\ wire' = [wire EXCEPT ![ch] = Append(@, Message(arg))]
              /\ call' = Sent

Conversion == Converted(call.c, ValueFor(call.c, call.k).pv, call.cur)

Commit ==
  /\ call.pc = "commit"
  /\ CommitPut(CurrentPv, Conversion)
  /\ UNCHANGED <<fixed, pv, edits, faults, calls>>

\* exec() throws, or pvaClient cannot issue the put.
CommitFails ==
  /\ call.pc = "commit" /\ faults < MaxFaults
  /\ Conversion.err = PVA_OK
  /\ KeepConversion(CurrentPv, Conversion)
  /\ call' = Stop("PVA_FAILURE")
  /\ faults' = faults + 1
  /\ UNCHANGED <<fixed, pv, edits, wire, calls>>

\* The wait ends with the server's acknowledgement.
WaitOk ==
  /\ call.pc = "wait" /\ call.k \in call.acked
  /\ call' = NextChannel
  /\ UNCHANGED <<fixed, pv, edits, faults, wire, handle, calls>>

\* It ends without one; the put may still be applied. pvaClient's waitPut ends
\* that way only when the connection goes, which loses the put.
Awaited(m) == call.pc = "wait" /\ m.n = calls /\ m.k = call.k
WaitTimeout ==
  /\ call.pc = "wait" /\ backend = "pvxs" /\ call.k \notin call.acked
  /\ call' = Stop("PVA_TIMEOUT")
  /\ UNCHANGED <<fixed, pv, edits, faults, wire, handle, calls>>
-----------------------------------------------------------------------------
(***************************************************************************)
(* External: the server and the other client.                              *)
(***************************************************************************)

\* A put reaches the server. Operations of one PVXS channel may overtake each
\* other (WarmPut); pvaClient has one per handle.
Apply(ch, i) ==
  /\ i \in DOMAIN wire[ch] /\ (backend = "pvac" => i = 1)
  /\ pv' = [pv EXCEPT ![ch] = Overlay(@, wire[ch][i].arg)]
  /\ wire' = [wire EXCEPT ![ch] = RemoveAt(@, i)]
  /\ call' = IF Awaited(wire[ch][i]) THEN [call EXCEPT !.acked = @ \cup {call.k}] ELSE call
  /\ UNCHANGED <<fixed, edits, faults, handle, calls>>

\* The server refuses a put, or the connection goes with the put on its way.
Lose(ch, i) ==
  /\ i \in DOMAIN wire[ch] /\ faults < MaxFaults
  /\ faults' = faults + 1
  /\ wire' = [wire EXCEPT ![ch] = RemoveAt(@, i)]
  /\ call' = IF Awaited(wire[ch][i]) THEN Stop("PVA_FAILURE") ELSE call
  /\ UNCHANGED <<fixed, pv, edits, handle, calls>>

Edit(ch) ==
  /\ edits < MaxEdits
  /\ edits' = edits + 1
  /\ \E t \in Edits[db][ch] : t # pv[ch] /\ pv' = [pv EXCEPT ![ch] = t]
  /\ UNCHANGED <<fixed, faults, wire, handle, call, calls>>

Next ==
  \/ \E c \in Calls[db] : Begin(c)
  \/ Prepare \/ PrepareFails \/ Commit \/ CommitFails \/ WaitOk \/ WaitTimeout
  \/ \E ch \in Channels : \/ Edit(ch)
                          \/ \E i \in DOMAIN wire[ch] : Apply(ch, i) \/ Lose(ch, i)

Spec == Init /\ [][Next]_vars
-----------------------------------------------------------------------------
(***************************************************************************)
(* Properties.                                                             *)
(***************************************************************************)
\* The wires carry puts of the calls made so far; a call fails with a code and
\* returns without one.
TypeOK ==
  /\ backend \in Backends /\ calls \in 0..MaxCalls
  /\ edits \in 0..MaxEdits /\ faults \in 0..MaxFaults
  /\ \A ch \in Channels : \A m \in OnWire(ch) :
       m.n \in 1..calls /\ m.c \in Calls[db] /\ buildPVs(m.c.names).pv[m.k] = ch
  /\ call.pc \in {"idle", "prepare", "commit", "wait", "done", "failed"}
  /\ call.pc = "failed" <=> call.err # PVA_OK

Waits == call.c.verb # "pvaPutNoWait"

\* The channels of a list are written one after the other up to the first
\* failure: a verb that returns has written them all, and seen each of them
\* acknowledged unless it is pvaPutNoWait; after an error the channels behind
\* it are untouched, and so is the one it is about unless the put itself
\* timed out or was refused (pvaPutShared.h:144-167).
WrittenInOrder ==
  call.pc # "idle" =>
    /\ call.sent = [i \in 1..Len(call.sent) |-> i]
    /\ call.pc = "done" =>
         /\ Len(call.sent) = Len(call.pvs)
         /\ Waits => call.acked = DOMAIN call.pvs
    /\ call.pc = "failed" =>
         /\ Len(call.sent) \in {call.k - 1, call.k}
         /\ Len(call.sent) = call.k => call.err \in {"PVA_TIMEOUT", "PVA_FAILURE"}
         /\ Waits => 1..(call.k - 1) \subseteq call.acked

\* LabCA's rule: a value matrix has one row for all channels or one for each.
Rows(arg, n) ==
  CASE arg.class = "cell" -> arg.cells
    [] isNumericOrLogical(arg) /\ n > 1 /\ Height(arg) > 1 ->
         [i \in 1..Height(arg) |-> Double(<<mxNumericToDoubles(arg)[i]>>)]
    [] OTHER -> <<arg>>
Wanted(c, k) ==
  LET rows == Rows(c.args[1], Len(buildPVs(c.names).pv))
  IN  IF ~wasCell(c.names) THEN c.args[1] ELSE rows[IF Len(rows) = 1 THEN 1 ELSE k]

\* The channel is an enum, with its index and its list of choices, and the call
\* gives it a string.
IsEnumText(m) ==
  LET value == Field(m.seen, "value")
  IN  /\ IsStructure(m.seen) /\ IsEnum(value)
      /\ value = Struct("enum_t", <<"index", "choices">>,
                        <<value.kids[1], StrA(value.kids[2].texts)>>)
      /\ value.kids[2].texts \in Seq(STRING)
      /\ Wanted(m.c, m.k).class = "char"

\* The index a PVXS put sends for a choice string denotes that string among the
\* choices the server has when the channel's turn comes, not among those of an
\* earlier put (pvaGlue.h:115-121).
EnumChoiceCurrent ==
  backend = "pvxs" =>
    \A ch \in Channels : \A m \in OnWire(ch) :
      LET choices == EnumChoices(Field(m.seen, "value"))
          index   == EnumIndex(Field(m.arg, "value"))
      IN  IsEnumText(m) => /\ index \in 0..(Len(choices) - 1)
                           /\ choices[index + 1] = getStdString(Wanted(m.c, m.k))
=============================================================================
