----------------------------- MODULE MCPutVerbs ------------------------------
(* A small instance of PutVerbs for TLC: two channels, two databases.        *)
EXTENDS PutEffect, ConvertTrees

Scalar(n, units) == Struct("epics:nt/NTScalar:1.0", <<"value", "display">>,
  <<Num("int", n), Struct("display_t", <<"units", "form.x">>, <<Str(units), Num("real", 1)>>)>>)
Enum(n, choices) == Struct("epics:nt/NTEnum:1.0", <<"value", "note">>,
  <<Struct("enum_t", <<"index", "choices">>, <<Num("int", 2 * n), StrA(choices)>>), Str("n")>>)
Columns(ns, ss) == Struct(NTTable, <<"labels", "value">>,
  <<StrA(<<"x", "s">>), Struct("", <<"x", "s">>, <<NumA("real", ns), StrA(ss)>>)>>)
Group(ns) == Struct("group", <<"wave">>, <<NumA("real", ns)>>)

TwoChannels == {"A", "B"}
AllFields == {"*"}
OnlyValue == {"value"}
TheRequests == {AllFields, OnlyValue}

Db(a, b) == [ch \in TwoChannels |-> IF ch = "A" THEN a ELSE b]
TheLayouts == <<
  Db(Scalar(2, "mm"), Enum(0, <<"off", "on">>)),
  Db(Columns(<<1, 2>>, <<"p", "q">>), Group(<<1>>))>>
TheEdits == <<
  Db({Scalar(4, "m")}, {Enum(0, <<"on", "off", "idle">>)}),
  Db({Columns(<<5>>, <<"r">>)}, {})>>

A == Char("A")
B == Char("B")
BA == Cell(<<B, A>>)
AB == Cell(<<A, B>>)
Call(verb, names, args, req) == [verb |-> verb, names |-> names, args |-> args, req |-> req]
Put(names, arg) == Call("pvaPut", names, <<arg>>, AllFields)
PutNoWait(names, arg) == Call("pvaPutNoWait", names, <<arg>>, AllFields)
PutStructure(names, arg, req) == Call("pvaPutStructure", names, <<arg>>, req)
PutTable(names, args) == Call("pvaPutTable", names, args, AllFields)

Units == MxStruct(<<"display">>, << <<MxStruct(<<"units">>, << <<Char("km")>> >>)>> >>)
Both  == MxStruct(<<"value", "display">>,
                  << <<Double(<<6>>), MxStruct(<<"units">>, << <<Char("km")>> >>)>> >>)
Index == MxStruct(<<"value">>, << <<MxStruct(<<"index">>, << <<Double(<<2>>)>> >>)>> >>)
BadValue == MxStruct(<<"value", "display">>, << <<Cell(<<>>), Double(<<2>>)>> >>)

ScalarCalls == {
  Put(A, Double(<<3>>)), Put(B, Char("on")), Put(AB, Logical(<<FALSE, TRUE>>)),
  Put(AB, Double(<<2>>)), Put(Cell(<<>>), Double(<<2>>)), Put(BA, Cell(<<Char("off"), Double(<<8>>)>>)),
  PutNoWait(BA, Char("on")), PutNoWait(AB, Double(<<4, 0>>)),
  Put(AB, Double(<<2, 2, 2>>)), Put(AB, CharMatrix(<<"on", "on">>)), Put(Double(<<1>>), Empty),
  PutStructure(A, Units, AllFields), PutStructure(A, Both, OnlyValue),
  PutStructure(BA, Cell(<<Index, Both>>), AllFields), PutStructure(AB, Both, AllFields),
  PutStructure(A, BadValue, AllFields), PutTable(A, <<Double(<<2>>), Char("N")>>)}

X == Double(<<3, 4>>)
S == Cell(<<Char("u"), Char("v")>>)
TableCalls == {
  PutTable(A, <<Table(<<"x", "s">>, <<X, S>>)>>),
  PutTable(A, <<Char("s"), [class |-> "string", texts |-> <<"u", "v">>]>>),
  PutTable(A, <<Char("x"), Double(<<3>>), Char("s"), CharMatrix(<<"u", "v">>)>>),
  PutTable(A, <<MxStruct(<<"x", "z">>, << <<X, X>> >>)>>),
  PutTable(A, <<Char("x"), X, Char("x"), X>>),
  PutTable(BA, <<Char("x"), X, Char("s"), S>>),
  PutTable(AB, <<Cell(<<MxStruct(<<"x">>, << <<X>> >>), X>>)>>),
  Put(B, X), Put(A, X), PutNoWait(Cell(<<B>>), X), PutNoWait(B, Char("x"))}
TheCalls == <<ScalarCalls, TableCalls>>

TheDoubles == 0..8
BothBackends == Backends
Classic == {"pvac"}
=============================================================================
