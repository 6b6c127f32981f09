---------------------------- MODULE ConvertTrees ----------------------------
(***************************************************************************)
(* The recursions of the conversion layer: what goes down a tree of any    *)
(* depth, to be given to the constant operators of Convert and ConvertPut. *)
(***************************************************************************)
EXTENDS ConvertPut

(***************************************************************************)
(* PV -> MATLAB.                                                           *)
(***************************************************************************)

\* The names of a struct array's fields: PVXS takes them from the first element
\* that is there, the classic backend from the type.
structArrayNames(v) ==
  LET there == {e \in DOMAIN v.elems : ~IsNull(v.elems[e])}
  IN  IF there = {} THEN <<>> ELSE v.elems[Min(there)].names
structureArrayNames(v) == v.elem.names

RECURSIVE TreeToMx(_, _)

structArrayToMx(b, v) ==
  LET fn == legalFieldNames(IF b = "pvxs" THEN structArrayNames(v) ELSE structureArrayNames(v))
  IN  MxStruct(fn, [e \in DOMAIN v.elems |->
        [i \in DOMAIN fn |-> IF IsNull(v.elems[e]) THEN MxNull
                             ELSE TreeToMx(b, v.elems[e].kids[i])]])

TreeToMx(b, v) ==
  CASE v.kind = "null"    -> Empty
    [] v.kind = "scalar"  -> scalarToMx(v)
    [] v.kind = "array"   -> arrayToMx(v)
    [] v.kind = "struct"  -> structToMx(v, [i \in DOMAIN v.kids |-> TreeToMx(b, v.kids[i])])
    [] v.kind = "structA" -> structArrayToMx(b, v)
    [] v.kind = "union"   -> TreeToMx(b, v.sel)
    [] v.kind = "unionA"  -> Cell([i \in DOMAIN v.sels |-> TreeToMx(b, v.sels[i])])

-----------------------------------------------------------------------------
(***************************************************************************)
(* The server.                                                             *)
(***************************************************************************)

\* Every marked leaf is replaced.
RECURSIVE OverlayTree(_, _)
OverlayTree(old, arg) ==
  CASE arg.kind = "unmarked" -> old
    [] arg.kind = "struct" /\ old.kind = "struct" ->
         [old EXCEPT !.kids = [i \in DOMAIN old.kids |-> OverlayTree(old.kids[i], arg.kids[i])]]
    [] OTHER -> arg

-----------------------------------------------------------------------------
(***************************************************************************)
(* MATLAB -> PV on PVXS.                                                   *)
(***************************************************************************)
RECURSIVE MxIntoTree(_, _)

\* Conversions made one after the other, the first that fails ends them.
UpToFirst(res, all) ==
  LET bad == {i \in DOMAIN res : res[i].err # PVA_OK}
  IN  IF bad = {} THEN Done(all) ELSE Refuse(res[Min(bad)].err, Unmarked)

\* Element e of a MATLAB struct into the fields of a structure: a field MATLAB
\* omits is left unmarked.
fieldIntoValue(mxf, target) ==
  IF mxf = MxNull THEN Done(cloneEmpty(target)) ELSE MxIntoTree(mxf, target)
Filled(target, res) == UpToFirst(res, [target EXCEPT !.kids = [i \in DOMAIN res |-> res[i].pv]])
fieldsIntoValue(mx, e, target, fn) ==
  Filled(target, [i \in DOMAIN fn |-> fieldIntoValue(MxField(mx, e, fn[i]), target.kids[i])])

\* A struct array has the elements MATLAB gives it, each whole.
Elements(elem, res) ==
  UpToFirst(res, StructA(elem, [e \in DOMAIN res |-> OverlayTree(elem, res[e].pv)]))

MxIntoTree(mx, target) ==
  CASE target.kind = "struct" ->
         IF mx.class # "struct" THEN Refuse("PVA_TYPEMISMATCH", Unmarked)
         ELSE fieldsIntoValue(mx, 1, target, legalFieldNames(target.names))
    [] target.kind = "structA" ->
         IF mx.class # "struct" THEN Refuse("PVA_TYPEMISMATCH", Unmarked)
         ELSE Elements(target.elem, [e \in DOMAIN mx.elems |->
                fieldsIntoValue(mx, e, target.elem, legalFieldNames(target.elem.names))])
    [] target.kind \in {"union", "unionA"} -> Refuse("PVA_UNSUPPORTED", Unmarked)
    [] target.kind = "array"  -> mxToScalarArray(mx, target)
    [] target.kind = "scalar" -> scalarFrom(mx, target, "PVA_TYPEMISMATCH")

-----------------------------------------------------------------------------
(***************************************************************************)
(* MATLAB -> PV on the classic backend: the put handle is changed in place.*)
(***************************************************************************)
RECURSIVE MxToPvTree(_, _)

mxToScalar(mx, target) == scalarFrom(mx, target, "exception")

\* Every conversion is made, also behind one that failed; only an exception ends
\* them. The error that stays is the last one.
WithError(res, code) == {i \in DOMAIN res : res[i].err = code}
LastError(res) ==
  LET bad == DOMAIN res \ WithError(res, PVA_OK)
  IN  IF bad = {} THEN PVA_OK
      ELSE IF WithError(res, "exception") # {} THEN "exception" ELSE res[Max(bad)].err

fieldToPv(mxf, target) == IF mxf = MxNull THEN Done(target) ELSE MxToPvTree(mxf, target)
Overwritten(target, res) ==
  Refuse(LastError(res), [target EXCEPT !.kids = [i \in DOMAIN res |->
    IF \E j \in WithError(res, "exception") : j < i THEN target.kids[i] ELSE res[i].pv]])
fieldsToPv(mx, e, target, fn) ==
  Overwritten(target, [i \in DOMAIN fn |-> fieldToPv(MxField(mx, e, fn[i]), target.kids[i])])

\* The new elements replace the old ones unless an exception intervenes.
Replaced(target, res) ==
  Refuse(LastError(res), IF LastError(res) = "exception" THEN target
                         ELSE StructA(target.elem, [e \in DOMAIN res |-> res[e].pv]))

MxToPvTree(mx, target) ==
  CASE target.kind = "scalar" -> mxToScalar(mx, target)
    [] target.kind = "array"  -> mxToScalarArray(mx, target)
    [] target.kind \in {"struct", "structA"} /\ mx.class # "struct" ->
         Refuse("PVA_TYPEMISMATCH", target)
    [] target.kind = "struct" /\ mx.class = "struct" ->
         fieldsToPv(mx, 1, target, legalFieldNames(target.names))
    [] target.kind = "structA" /\ mx.class = "struct" ->
         Replaced(target, [e \in DOMAIN mx.elems |->
           fieldsToPv(mx, e, target.elem, legalFieldNames(target.elem.names))])
    [] target.kind \in {"union", "unionA"} -> Refuse("PVA_UNSUPPORTED", target)
=============================================================================
