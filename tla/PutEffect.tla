------------------------------ MODULE PutEffect ------------------------------
(***************************************************************************)
(* What the put verbs leave on the server: the effect of every put of      *)
(* PutVerbs that is applied, against what the call named.                  *)
(***************************************************************************)
EXTENDS PutVerbs

\* The call for one channel as a MATLAB struct that names what is to be written.
Asked(m) ==
  LET mx == Wanted(m.c, m.k)
      field == IF IsNull(Field(m.seen, "value")) THEN m.seen.names[1] ELSE "value"
      keep == SelectSeq([f \in DOMAIN mx.fields |-> f],
                        LAMBDA f : m.c.req = Whole \/ mx.fields[f] \in m.c.req)
  IN  CASE m.c.verb = "pvaPutStructure" ->
             MxStruct([j \in DOMAIN keep |-> mx.fields[keep[j]]],
                      <<[j \in DOMAIN keep |-> mx.elems[1][keep[j]]]>>)
        [] m.c.verb = "pvaPutTable" /\ pvIsNTTable(m.seen) ->
             MxStruct(<<"value">>, << <<tableColumnsFor(mx, m.c.args).pv>> >>)
        [] OTHER -> MxStruct(<<field>>, << <<mx>> >>)

\* Does new hold what a MATLAB value asks for? old tells the types, and the
\* choices an enum's string is looked up in.
RECURSIVE Holds(_, _, _)
Holds(mx, old, new) ==
  CASE old.kind = "struct" /\ mx.class = "struct" ->
         \A i \in DOMAIN old.names :
           LET f == MxField(mx, 1, legalFieldNames(old.names)[i])
           IN  f # MxNull => Holds(f, old.kids[i], new.kids[i])
    [] old.kind = "struct" /\ mx.class = "char" ->
         EnumIndex(new) \in 0..(Len(EnumChoices(old)) - 1)
           /\ EnumChoices(old)[EnumIndex(new) + 1] = getStdString(mx)
    [] old.kind = "struct" /\ mx.class \notin {"struct", "char"} ->
         isNumericOrLogical(mx) => EnumIndex(new) = Trunc(mxNumericToDoubles(mx)[1]) \div 2
    [] old.kind # "struct" -> new = mxIntoValue(mx, old).pv

\* Is everything as before that a MATLAB value does not name?
RECURSIVE Keeps(_, _, _)
Keeps(mx, old, new) ==
  CASE old.kind = "struct" /\ mx.class = "struct" ->
         \A i \in DOMAIN old.names :
           LET f == MxField(mx, 1, legalFieldNames(old.names)[i])
           IN  IF f = MxNull THEN new.kids[i] = old.kids[i]
               ELSE Keeps(f, old.kids[i], new.kids[i])
    [] old.kind = "struct" /\ mx.class # "struct" -> EnumChoices(new) = EnumChoices(old)
    [] old.kind # "struct" -> TRUE

\* Whatever the server applies, the channel then holds what the call asked for
\* that channel: the value at its place in the list, or the one value for all
\* (pvaPutShared.h:49-72, README.md:296), and every field and column named.
RightValue ==
  [][\A ch \in Channels : \A i \in DOMAIN wire[ch] :
       Apply(ch, i) /\ ~IsEnumText(wire[ch][i]) =>
         Holds(Asked(wire[ch][i]), wire[ch][i].seen, pv'[ch])]_vars

\* What the call does not name keeps the value the server has, also when another
\* client has just written it. Claimed for PVXS (README.md:300), and on the
\* classic backend for pvaPut to anything but an enum or a table: there the
\* handle sends what it holds.
OmittedKept ==
  [][\A ch \in Channels : \A i \in DOMAIN wire[ch] :
       LET m == wire[ch][i]
           plain == /\ m.c.verb # "pvaPutStructure"
                    /\ ~IsEnum(Field(m.seen, "value")) /\ ~pvIsNTTable(m.seen)
       IN  Apply(ch, i) /\ (backend = "pvxs" \/ plain) => Keeps(Asked(m), pv[ch], pv'[ch])]_vars

\* A pvaPutTable that supplies every column leaves a table MATLAB can read:
\* columns of one length under their labels.
TableStaysWhole ==
  [][\A ch \in Channels : \A i \in DOMAIN wire[ch] :
       LET m == wire[ch][i]
       IN  /\ Apply(ch, i) /\ m.c.verb = "pvaPutTable" /\ pvIsNTTable(m.seen)
           /\ ToSet(legalFieldNames(Field(m.seen, "value").names))
                \subseteq ToSet(tableColumnsFor(Wanted(m.c, m.k), m.c.args).pv.fields)
           => pvTableToMx(backend, pv'[ch]).class = "table"]_vars

\* The header of pvaPutStructure.cpp:7-8: fields omitted from the struct keep
\* their fetched value, fetched for this put (pvaGlue.h:99-100).
KeepsFetched ==
  \A ch \in Channels : \A m \in OnWire(ch) :
    m.c.verb = "pvaPutStructure" => Keeps(Asked(m), m.seen, Overlay(m.seen, m.arg))
=============================================================================
