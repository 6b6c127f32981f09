------------------------------ MODULE Convert ------------------------------
(***************************************************************************)
(* The conversion layer of labpva (glue/pvaConvert_pvxs.cpp and            *)
(* glue/pvaConvert_pvac.cpp): PV structures to MATLAB arrays and back.     *)
(*                                                                         *)
(* The operators are pure; ReadVerbs and PutVerbs use them on the samples  *)
(* they read and on the arguments they send. Where the two backends do the *)
(* same, the definition follows the PVXS file; where they differ each has  *)
(* a definition of its own, named as in its file.                          *)
(*                                                                         *)
(* What goes down a tree of any depth is a constant operator here, with    *)
(* the name of the C++ function; ConvertTrees has the definitions.         *)
(*                                                                         *)
(* Numbers are counted in halves: 3 stands for 1.5, so that a fractional   *)
(* MATLAB double can meet an integer PV field. All integer widths are one  *)
(* type "int", all floating ones "real": a cast of a double beyond the     *)
(* width of its target is undefined in C++ and is left out.                *)
(***************************************************************************)
EXTENDS Integers, SequencesExt, FiniteSetsExt

CONSTANTS NameMax,         \* longest MATLAB identifier (63 in the code)
          Doubles,         \* the MATLAB numbers that occur, in halves
          Whole,           \* the pvRequest "field()"; any other is a set of field names
          anyToMx(_, _)    \* a field of any kind as a MATLAB array, by backend

ASSUME NameMaxAssumption == NameMax \in Nat \ {0}
ASSUME DoublesAssumption == Doubles \subseteq Int

Backends == {"pvxs", "pvac"}

(***************************************************************************)
(* PV data. A missing field, an empty union and a null element are Null.   *)
(***************************************************************************)
Null == [kind |-> "null"]
Num(type, d) == [kind |-> "scalar", type |-> type, num |-> d]
Bool(b) == [kind |-> "scalar", type |-> "bool", bool |-> b]
Str(s) == [kind |-> "scalar", type |-> "string", text |-> s]
NumA(type, ds) == [kind |-> "array", type |-> type, nums |-> ds]
BoolA(bs) == [kind |-> "array", type |-> "bool", bools |-> bs]
StrA(ss) == [kind |-> "array", type |-> "string", texts |-> ss]
Struct(id, names, kids) == [kind |-> "struct", id |-> id, names |-> names, kids |-> kids]
StructA(elem, elems) == [kind |-> "structA", elem |-> elem, elems |-> elems]
Union(sel) == [kind |-> "union", sel |-> sel]
UnionA(sels) == [kind |-> "unionA", sels |-> sels]

IsNull(v) == v.kind = "null"
IsEnum(v) == v.kind = "struct" /\ v.id = "enum_t"

\* A structure has a list of field names and a field for each.
IsStructure(v) ==
  /\ v = Struct(v.id, v.names, v.kids)
  /\ v.names \in Seq(STRING) /\ v.kids = [i \in 1..Len(v.names) |-> v.kids[i]]

\* pv["name"] of a structure.
Field(v, name) ==
  IF v.kind = "struct" /\ \E i \in DOMAIN v.names : v.names[i] = name
  THEN v.kids[CHOOSE i \in DOMAIN v.names : v.names[i] = name]
  ELSE Null

\* A finite set of numbers as a sequence, the least first.
Rank(K, k) == Cardinality({j \in K : j <= k})
Ascending(K) == [i \in 1..Cardinality(K) |-> CHOOSE k \in K : Rank(K, k) = i]

\* External: the fields a request selects, in the order of the structure.
Selected(tree, req) == {i \in DOMAIN tree.names : tree.names[i] \in req}
Project(tree, req) ==
  IF req = Whole THEN tree
  ELSE LET keep == Ascending(Selected(tree, req))
       IN  Struct(tree.id, [i \in DOMAIN keep |-> tree.names[keep[i]]],
                           [i \in DOMAIN keep |-> tree.kids[keep[i]]])

(***************************************************************************)
(* MATLAB arrays. MxNull is the NULL of a struct field with no value.      *)
(***************************************************************************)
MxNull == [class |-> "NULL"]
Double(ds) == [class |-> "double", data |-> ds]
Logical(bs) == [class |-> "logical", bits |-> bs]
Char(s) == [class |-> "char", rows |-> <<s>>]
CharMatrix(ss) == [class |-> "char", rows |-> ss]
Cell(cs) == [class |-> "cell", cells |-> cs]
MxStruct(fields, elems) == [class |-> "struct", fields |-> fields, elems |-> elems]
Table(names, cols) == [class |-> "table", names |-> names, cols |-> cols]
Undefined == [class |-> "undefined"]
Failure(code) == [class |-> "error", code |-> code]
Empty == Double(<<>>)

\* The text of a number ("%g"), for the numbers an instance writes as text.
Text(d) == IF d % 2 = 0 THEN ToString(d \div 2) ELSE ToString(d \div 2) \o ".5"
Truth(b) == IF b THEN "true" ELSE "false"
\* (T)d of a double: towards zero.
Trunc(d) == IF d >= 0 THEN 2 * (d \div 2) ELSE -(2 * ((-d) \div 2))

-----------------------------------------------------------------------------
(***************************************************************************)
(* Field names.                                                            *)
(***************************************************************************)
CharAt(s, i) == SubSeq(s, i, i)
Letters == {CharAt("abcdefghijklmnopqrstuvwxyzABCDEFGHIJKLMNOPQRSTUVWXYZ", i) : i \in 1..52}
Digits == {CharAt("0123456789", i) : i \in 1..10}

\* A PV field name as a MATLAB identifier: legal characters, a letter in front,
\* cut at the longest length.
Legal(c) == IF c \in Letters \cup Digits \cup {"_"} THEN c ELSE "_"
Led(s) == IF s # "" /\ CharAt(s, 1) \in Letters THEN s ELSE "f_" \o s
Cut(s) == SubSeq(s, 1, IF Len(s) > NameMax THEN NameMax ELSE Len(s))
mxFieldName(pvName) ==
  Cut(Led(FoldLeft(LAMBDA s, i : s \o Legal(CharAt(pvName, i)), "",
                   [i \in 1..Len(pvName) |-> i])))

\* base, or base_2, base_3, ... whichever is the first not seen yet.
Suffixed(base, k) == base \o "_" \o ToString(k)
Unseen(base, seen) ==
  LET free == {k \in 2..(Cardinality(seen) + 2) : Suffixed(base, k) \notin seen}
  IN  IF base \in seen THEN Suffixed(base, Min(free)) ELSE base

\* Different numbers make different names of the same base.
DistinctSuffixes(names) ==
  \A i \in DOMAIN names : \A j, k \in 2..(Len(names) + 2) :
    Suffixed(mxFieldName(names[i]), j) = Suffixed(mxFieldName(names[i]), k) => j = k

\* Mutant: names are made legal but not distinct.
NotUnique(names) == [i \in DOMAIN names |-> mxFieldName(names[i])]

\* The MATLAB names of a list of PV names, distinct and in their order.
legalFieldNames(names) ==
  LET upto[n \in 0..Len(names)] ==
        IF n = 0 THEN <<>>
        ELSE LET out == upto[n - 1]
             IN  Append(out, Unseen(mxFieldName(names[n]), ToSet(out)))
  IN  upto[Len(names)]

-----------------------------------------------------------------------------
(***************************************************************************)
(* PV -> MATLAB.                                                           *)
(***************************************************************************)
scalarToMx(v) ==
  CASE v.type = "bool"   -> Logical(<<v.bool>>)
    [] v.type = "string" -> Char(v.text)
    [] OTHER             -> Double(<<v.num>>)

arrayToMx(v) ==
  CASE v.type = "bool"   -> Logical(v.bools)
    [] v.type = "string" -> Cell([i \in DOMAIN v.texts |-> Char(v.texts[i])])
    [] OTHER             -> Double(v.nums)

\* The index of an enum_t, -1 without one; the choices, none without them.
EnumIndex(v) == LET idx == Field(v, "index") IN IF IsNull(idx) THEN -1 ELSE idx.num \div 2
EnumChoices(v) == LET ch == Field(v, "choices") IN IF IsNull(ch) THEN <<>> ELSE ch.texts

\* struct(index, choices, choice); the choice is '' for an index out of range.
enumToMx(v) ==
  LET i == EnumIndex(v)
      choices == EnumChoices(v)
  IN  MxStruct(<<"index", "choices", "choice">>,
        << << Double(<<2 * i>>), arrayToMx(StrA(choices)),
              Char(IF i \in 0..(Len(choices) - 1) THEN choices[i + 1] ELSE "") >> >>)

\* A structure whose fields were converted to kids.
structToMx(v, kids) ==
  IF IsEnum(v) THEN enumToMx(v) ELSE MxStruct(legalFieldNames(v.names), <<kids>>)

\* pvaGetStructure's result.
pvStructureToMx(b, pv) ==
  IF IsNull(pv) THEN MxStruct(<<>>, << <<>> >>)
  ELSE structToMx(pv, [i \in DOMAIN pv.kids |-> anyToMx(b, pv.kids[i])])

\* An enum value: the choice, or the index for a numeric request or when the
\* index has no choice.
enumValueToMx(value, typeReq) ==
  LET i == EnumIndex(value)
      choices == EnumChoices(value)
  IN  IF typeReq \in {"C", "N"} /\ i \in 0..(Len(choices) - 1)
      THEN Char(choices[i + 1]) ELSE Double(<<2 * i>>)

\* The 'C' presentation. PVXS prints the doubles of the converted array: the
\* array of a bool field is logical and read through the wrong pointer.
valueAsText(b, v) ==
  CASE v.kind = "scalar" -> Char(CASE v.type = "bool"   -> Truth(v.bool)
                                   [] v.type = "string" -> v.text
                                   [] OTHER             -> Text(v.num))
    [] v.kind = "array" /\ v.type = "string" -> arrayToMx(v)
    [] v.kind = "array" /\ v.type = "bool" ->
         IF b = "pvxs" THEN Undefined
         ELSE Cell([i \in DOMAIN v.bools |-> Char(Truth(v.bools[i]))])
    [] OTHER -> Cell([i \in DOMAIN v.nums |-> Char(Text(v.nums[i]))])

\* pvaGet's result: a bare scalar, array or choice, or the whole structure.
pvValueToMx(b, pv, typeReq) ==
  LET value == Field(pv, "value")
  IN  CASE IsNull(value) -> pvStructureToMx(b, pv)
        [] IsEnum(value) -> enumValueToMx(value, typeReq)
        [] ~IsEnum(value) /\ value.kind \notin {"null", "scalar", "array"} ->
             pvStructureToMx(b, pv)
        [] value.kind \in {"scalar", "array"} ->
             CASE typeReq = "C" -> valueAsText(b, value)
               [] typeReq # "C" /\ value.kind = "scalar" -> scalarToMx(value)
               [] typeReq # "C" /\ value.kind = "array"  -> arrayToMx(value)

NTTable == "epics:nt/NTTable:1.0"
pvIsNTTable(pv) == pv.kind = "struct" /\ pv.id = NTTable

\* External: the height of a MATLAB table variable made of a converted column.
Height(mx) == CASE mx.class = "double"  -> Len(mx.data)
                [] mx.class = "logical" -> Len(mx.bits)
                [] mx.class = "cell"    -> Len(mx.cells)
                [] mx.class = "struct"  -> Len(mx.elems)
                [] mx.class = "char"    -> Len(mx.rows[1])

\* External: MATLAB's table refuses variables of different heights and a name
\* given twice.
TableOf(names, cols) ==
  IF \/ \E i, j \in DOMAIN cols : Height(cols[i]) # Height(cols[j])
     \/ ~IsInjective(names)
  THEN Failure("PVA_FAILURE") ELSE Table(names, cols)

\* pvaGetTable's result for a table: one variable per label.
pvTableToMx(b, pv) ==
  LET labels == Field(pv, "labels")
      value  == Field(pv, "value")
  IN  CASE ~pvIsNTTable(pv) -> Failure("PVA_TYPEMISMATCH")
        [] pvIsNTTable(pv) /\ (IsNull(labels) \/ value.kind # "struct") -> Failure("PVA_NOFIELD")
        [] OTHER ->
             IF \E i \in DOMAIN labels.texts : IsNull(Field(value, labels.texts[i]))
             THEN Failure("PVA_NOFIELD")
             ELSE TableOf(labels.texts, [i \in DOMAIN labels.texts |->
                                           anyToMx(b, Field(value, labels.texts[i]))])

\* The getters that read one number or list off a structure.
pvTimeStampSecNsec(pv) ==
  LET s == Field(Field(pv, "timeStamp"), "secondsPastEpoch")
  IN  IF IsNull(s) THEN 0 ELSE s.num
pvValueNelem(pv) ==
  LET v == Field(pv, "value")
  IN  IF v.kind = "array" THEN Height(arrayToMx(v)) ELSE 1
\* The choices of any structured value in the classic backend, of an enum_t in PVXS.
pvEnumChoicesToMx(b, pv) ==
  LET v == Field(pv, "value")
      choices == Field(v, "choices")
      offered == /\ choices.kind = "array" /\ choices.type = "string"
                 /\ b = "pvxs" => IsEnum(v)
  IN  arrayToMx(IF offered THEN choices ELSE StrA(<<>>))
pvAlarmSeverity(pv) ==
  LET s == Field(Field(pv, "alarm"), "severity") IN IF IsNull(s) THEN 0 ELSE s.num
=============================================================================
