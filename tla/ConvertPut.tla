----------------------------- MODULE ConvertPut -----------------------------
(***************************************************************************)
(* MATLAB -> PV: the write half of the conversion layer.                   *)
(*                                                                         *)
(* PVXS fills an empty clone of the channel's type and sends what it has   *)
(* marked: here a tree of the same shape whose untouched leaves are        *)
(* Unmarked. It stops at the first field that cannot be converted. The     *)
(* classic backend writes into the put handle's own structure, goes on to  *)
(* the other fields after a bad one, and lets the exception of a failed    *)
(* number parse escape ("exception" here).                                 *)
(***************************************************************************)
EXTENDS Convert

CONSTANTS
  mxIntoValue(_, _),   \* PVXS: a MATLAB value as a marked value of a target's type
  mxToPvField(_, _),   \* classic: a MATLAB value written into a target
  Overlay(_, _)        \* what the server holds once an argument is applied

Unmarked == [kind |-> "unmarked"]
PVA_OK == "PVA_OK"

\* The outcome of a conversion: a code and the data it produced.
Done(v) == [err |-> PVA_OK, pv |-> v]
Refuse(code, v) == [err |-> code, pv |-> v]

\* An empty clone: nothing marked, so nothing below its fields either.
cloneEmpty(v) ==
  IF v.kind = "struct" THEN [v EXCEPT !.kids = [i \in DOMAIN v.kids |-> Unmarked]] ELSE Unmarked

-----------------------------------------------------------------------------
\* mxArrayToString; a char matrix comes out column by column.
getStdString(mx) ==
  IF mx.class # "char" THEN "" ELSE IF Len(mx.rows) = 1 THEN mx.rows[1] ELSE "garbled"

isNumericOrLogical(mx) == mx.class \in {"double", "logical"}
mxNumericToDoubles(mx) ==
  IF mx.class = "logical" THEN [i \in DOMAIN mx.bits |-> IF mx.bits[i] THEN 2 ELSE 0]
  ELSE mx.data

\* s(e).name of a MATLAB struct, MxNull when s has no such field.
MxField(mx, e, name) ==
  IF \E f \in DOMAIN mx.fields : mx.fields[f] = name
  THEN mx.elems[e][CHOOSE f \in DOMAIN mx.fields : mx.fields[f] = name]
  ELSE MxNull

\* External: a number, a truth value, a text assigned to a scalar leaf of a type.
\* Null when the text does not parse.
FromNum(type, d) ==
  CASE type = "int"    -> Num("int", Trunc(d))
    [] type = "real"   -> Num("real", d)
    [] type = "bool"   -> Bool(d # 0)
    [] type = "string" -> Str(Text(d))
FromBool(type, bit) ==
  CASE type \in {"int", "real"} -> Num(type, IF bit THEN 2 ELSE 0)
    [] type = "bool"            -> Bool(bit)
    [] type = "string"          -> Str(Truth(bit))
FromText(type, s) ==
  LET parsed == {d \in Doubles : Text(d) = s /\ (type = "int" => d % 2 = 0)}
  IN  CASE type = "string" -> Str(s)
        [] type = "bool"   -> IF s \in {"true", "false"} THEN Bool(s = "true") ELSE Null
        [] type \in {"int", "real"} ->
             IF parsed = {} THEN Null ELSE Num(type, Min(parsed))

\* A scalar leaf. noParse is what a text that does not parse gives: an error
\* code on PVXS, the escaping exception on the classic backend.
scalarFrom(mx, target, noParse) ==
  LET type == target.type
      text == FromText(type, getStdString(mx))
  IN  CASE isNumericOrLogical(mx) /\ Len(mxNumericToDoubles(mx)) = 0 ->
             Refuse("PVA_TYPEMISMATCH", target)
        [] mx.class = "char" -> IF IsNull(text) THEN Refuse(noParse, target) ELSE Done(text)
        [] mx.class = "logical" /\ Len(mx.bits) > 0 ->
             Done(FromBool(type, Len(mx.bits) = 1 /\ mx.bits[1]))
        [] mx.class = "double" /\ Len(mx.data) > 0 -> Done(FromNum(type, mx.data[1]))
        [] mx.class \notin {"char", "logical", "double"} -> Refuse("PVA_TYPEMISMATCH", target)

\* A scalar array: any numbers, or texts, in the number MATLAB gives.
mxToScalarArray(mx, target) ==
  LET d == mxNumericToDoubles(mx)
  IN  IF target.type = "string"
      THEN CASE mx.class = "cell" ->
                  Done(StrA([i \in DOMAIN mx.cells |-> getStdString(mx.cells[i])]))
             [] mx.class = "char" -> Done(StrA(<<getStdString(mx)>>))
             [] mx.class \notin {"cell", "char"} -> Refuse("PVA_TYPEMISMATCH", target)
      ELSE CASE ~isNumericOrLogical(mx) -> Refuse("PVA_TYPEMISMATCH", target)
             [] isNumericOrLogical(mx) ->
                  Done(CASE target.type = "bool" -> BoolA([i \in DOMAIN d |-> d[i] # 0])
                         [] target.type = "int"  -> NumA("int", [i \in DOMAIN d |-> Trunc(d[i])])
                         [] target.type = "real" -> NumA("real", d))

-----------------------------------------------------------------------------
(***************************************************************************)
(* PVXS.                                                                   *)
(***************************************************************************)
\* Mutant: positions are counted from one.
CountFromOne(choices, want) ==
  LET at == {k \in DOMAIN choices : choices[k] = want}
  IN  IF at = {} THEN -1 ELSE Min(at)

\* The position of a choice, -1 when the string is none of them: the first when
\* two choices are spelled alike.
choiceIndex(choices, want) ==
  LET at == {k \in DOMAIN choices : choices[k] = want}
  IN  IF at = {} THEN -1 ELSE Min(at) - 1

\* The enum index a MATLAB value stands for, or the code it is refused with.
enumIndexFor(mx, choices) ==
  LET i == IF mx.class = "char" THEN choiceIndex(choices, getStdString(mx))
           ELSE Trunc(mxNumericToDoubles(mx)[1]) \div 2
  IN  CASE mx.class = "char" -> IF i = -1 THEN Refuse("PVA_TYPEMISMATCH", Null) ELSE Done(i)
        [] isNumericOrLogical(mx) ->
             IF Len(mxNumericToDoubles(mx)) = 0 THEN Refuse("PVA_TYPEMISMATCH", Null)
             ELSE IF choices # <<>> /\ i \notin 0..(Len(choices) - 1)
             THEN Refuse("PVA_INVALIDARG", Null) ELSE Done(i)
        [] mx.class \notin {"char", "double", "logical"} -> Refuse("PVA_TYPEMISMATCH", Null)

\* The value with one field of a structure replaced.
SetField(v, name, new) ==
  [v EXCEPT !.kids = [i \in DOMAIN v.kids |-> IF v.names[i] = name THEN new ELSE v.kids[i]]]

\* The field pvaPut writes: `value`, or the only one there is.
PutField(tree) == IF IsNull(Field(tree, "value")) THEN tree.names[1] ELSE "value"
Unwritable(tree) == IsNull(Field(tree, "value")) /\ Len(tree.names) # 1

IndexSet(value, i) == SetField(value, "index", Num("int", 2 * i))

\* A result that is an argument when all went well, and nothing otherwise.
Marking(tree, field, res) ==
  IF res.err # PVA_OK THEN Refuse(res.err, Unmarked)
  ELSE Done(SetField(cloneEmpty(tree), field, res.pv))
IndexMarked(value, res) ==
  IF res.err # PVA_OK THEN res ELSE Done(IndexSet(cloneEmpty(value), res.pv))

\* pvaPut's argument: only that field is marked.
mxToPutArg(mx, fetched) ==
  IF Unwritable(fetched) THEN Refuse("PVA_NOFIELD", Unmarked)
  ELSE Marking(fetched, PutField(fetched),
         LET value == Field(fetched, "value")
         IN  IF IsEnum(value) THEN IndexMarked(value, enumIndexFor(mx, EnumChoices(value)))
             ELSE mxIntoValue(mx, Field(fetched, PutField(fetched))))

\* pvaPutStructure's argument: every field MATLAB has is marked.
mxToPutArgStructure(mx, fetched) ==
  IF mx.class # "struct" THEN Refuse("PVA_INVALIDARG", Unmarked) ELSE mxIntoValue(mx, fetched)
-----------------------------------------------------------------------------
(***************************************************************************)
(* Classic backend: the structure of the put handle is changed in place.   *)
(***************************************************************************)
\* pvaPut into the handle's structure. A cell or struct for an enum reads as 0
\* (external: mxGetScalar of what is not a number).
NumberFor(mx) == IF mx.class \in {"char", "double", "logical"} THEN mx ELSE Double(<<0>>)

\* A leaf is overwritten whatever became of it, an index when it is one.
Overwriting(tree, field, res) == Refuse(res.err, SetField(tree, field, res.pv))
IndexOverwritten(value, res) ==
  Refuse(res.err, IF res.err = PVA_OK THEN IndexSet(value, res.pv) ELSE value)

mxToPvValue(mx, pv) ==
  IF Unwritable(pv) THEN Refuse("PVA_NOFIELD", pv)
  ELSE Overwriting(pv, PutField(pv),
         LET value == Field(pv, "value")
         IN  IF IsEnum(value)
             THEN IndexOverwritten(value, enumIndexFor(NumberFor(mx), EnumChoices(value)))
             ELSE mxToPvField(mx, Field(pv, PutField(pv))))
-----------------------------------------------------------------------------
\* pvaPutTable refuses a column the table does not have.
pvValidateTableColumns(pv, columns) ==
  LET value == Field(pv, "value")
  IN  IF ~(pvIsNTTable(pv) /\ columns.class = "struct" /\ Len(columns.elems) = 1)
      THEN "PVA_TYPEMISMATCH"
      ELSE IF /\ value.kind = "struct"
              /\ ToSet(columns.fields) \subseteq ToSet(legalFieldNames(value.names))
      THEN PVA_OK ELSE "PVA_NOFIELD"
=============================================================================
