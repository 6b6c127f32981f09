----------------------------- MODULE MCReadVerbs -----------------------------
(* A small instance of ReadVerbs for TLC: two channels, five kinds of tree.  *)
EXTENDS ReadBack, ConvertTrees

Alarm(sev) == Struct("alarm_t", <<"severity">>, <<Num("int", sev)>>)
Time(t) == Struct("time_t", <<"secondsPastEpoch">>, <<Num("int", 2 * t)>>)

Scalar(n) == Struct("epics:nt/NTScalar:1.0", <<"value", "alarm", "timeStamp", "display">>,
  <<Num("real", n), Alarm(2), Time(n), Struct("display_t", <<"units">>, <<Str("mm")>>)>>)
Wave(n) == Struct("epics:nt/NTScalarArray:1.0", <<"value", "alarm", "timeStamp">>,
  <<BoolA([i \in 1..n |-> TRUE]), Alarm(0), Time(n)>>)
\* Two choices are spelled alike.
Enum(n) == Struct("epics:nt/NTEnum:1.0", <<"value", "alarm", "timeStamp">>,
  <<Struct("enum_t", <<"index", "choices">>, <<Num("int", 2 * n), StrA(<<"off", "on", "on">>)>>),
    Alarm(0), Time(n)>>)
\* Two column names become the same identifier; m rows in the last column.
Columns(n, m) == Struct(NTTable, <<"labels", "value", "timeStamp">>,
  <<StrA(<<"x", "y:1", "y-1">>),
    Struct("", <<"x", "y:1", "y-1">>,
           <<NumA("real", <<1, n>>), NumA("int", <<2, 4>>), StrA([i \in 1..m |-> "t"])>>),
    Time(n)>>)
\* A group with no value; two of its names agree in their first 16 letters.
Group(n) == LET row == Struct("", <<"a.b", "a_b">>, <<Num("int", 2 * n), Bool(TRUE)>>)
  IN  Struct("group", <<"pressureReadback_1", "pressureReadback_2", "2nd", "rows">>,
             <<Num("real", n), Num("real", n + 1), Str("s"), StructA(row, <<row, row>>)>>)
Image(n) == LET dim == Struct("dimension_t", <<"size">>, <<Num("int", 2 * n)>>)
  IN  Struct("epics:nt/NTNDArray:1.0", <<"value", "dimension", "timeStamp">>,
             <<Union(NumA("int", <<2 * n>>)), StructA(dim, <<dim, Null>>), Time(n)>>)

TwoChannels == {"A", "B"}
Value == {"value", "alarm", "timeStamp"}
ValueOnly == {"value"}
AllFields == {"*"}
TheRequests == {AllFields, Value, ValueOnly}

Db(a, b) == [ch \in TwoChannels |-> IF ch = "A" THEN a ELSE b]
TheLayouts == <<
  Db(<<Scalar(1), Scalar(3), Scalar(4)>>, <<Columns(1, 2), Columns(3, 1)>>),
  Db(<<Enum(0), Enum(2), Enum(3)>>, <<Group(1)>>),
  Db(<<Wave(2)>>, <<Image(1)>>)>>

Call(verb, pvs, cell, req, type, poll) ==
  [verb |-> verb, pc |-> "idle", pvs |-> pvs, cell |-> cell, req |-> req, type |-> type,
   poll |-> poll, got |-> <<>>, out |-> Empty]
One(verb, ch, req, type, poll) == Call(verb, <<ch>>, FALSE, req, type, poll)
Two(verb, req, type, poll) == Call(verb, <<"B", "A">>, TRUE, req, type, poll)

TheCalls == {
  One("pvaGet", "A", AllFields, "N", FALSE), One("pvaGet", "A", AllFields, "D", TRUE),
  One("pvaGet", "A", AllFields, "C", FALSE),
  Two("pvaGet", AllFields, "N", FALSE),
  One("pvaGetStructure", "A", AllFields, "N", FALSE), One("pvaGetStructure", "B", AllFields, "N", FALSE),
  One("pvaGetStructure", "A", Value, "N", FALSE), Two("pvaGetStructure", AllFields, "N", TRUE),
  Two("pvaGetTable", AllFields, "N", FALSE),
  Two("pvaGetNelem", AllFields, "N", FALSE), One("pvaGetStatus", "A", AllFields, "N", FALSE),
  One("pvaGetEnumStrings", "A", AllFields, "N", FALSE)}

TheDoubles == -1..10
=============================================================================
