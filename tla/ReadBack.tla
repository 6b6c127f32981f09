------------------------------ MODULE ReadBack -------------------------------
(***************************************************************************)
(* What the read verbs return, put back with the put verbs: the two halves *)
(* of the conversion layer against each other, on every sample a call of   *)
(* ReadVerbs converts.                                                     *)
(***************************************************************************)
EXTENDS ReadVerbs

\* May a tree be written back from the MATLAB struct it was read as? Not with a
\* union in it, nor with a null element of a struct array.
RECURSIVE Writable(_)
Writable(v) ==
  CASE v.kind \in {"union", "unionA", "null"} -> FALSE
    [] v.kind = "struct"  -> \A i \in DOMAIN v.kids : Writable(v.kids[i])
    [] v.kind = "structA" -> \A e \in DOMAIN v.elems : Writable(v.elems[e])
    [] v.kind \in {"scalar", "array"} -> TRUE

\* A structure read with pvaGetStructure and put back with pvaPutStructure is
\* the structure that was read, on both backends: field names that need
\* sanitising, that collide, or that are cut at namelengthmax included.
StructureRoundTrip ==
  call.verb = "pvaGetStructure" =>
    \A e \in Got :
      LET pv  == Project(Tree(e), call.req)
          put == IF backend = "pvxs" THEN mxToPutArgStructure(e.mx, pv) ELSE mxToPvField(e.mx, pv)
      IN  Writable(pv) => put.err = PVA_OK /\ Overlay(pv, put.pv) = pv

\* What pvaGet returns for an enum whose index has a choice, put back with
\* pvaPut, selects a choice that reads the same (two may be spelled alike).
EnumRoundTrip ==
  call.verb = "pvaGet" =>
    \A e \in Got :
      LET pv  == Tree(e)
          put == IF backend = "pvxs" THEN mxToPutArg(e.mx, pv) ELSE mxToPvValue(e.mx, pv)
          value == Field(pv, "value")
      IN  IsEnum(value) /\ EnumIndex(value) \in 0..(Len(EnumChoices(value)) - 1) =>
            put.err = PVA_OK /\ pvValueToMx(backend, Overlay(pv, put.pv), call.type) = e.mx
=============================================================================
