--------------------------- MODULE MCMarshalling ----------------------------
(* Marshalling for TLC: the functions of client1.c and server.c, and some    *)
(* that differ from them in one thing.                                       *)
EXTENDS Marshalling

Param(direction, type, length) ==
  [direction |-> direction, type |-> type, length |-> length]
In(type) == Param("input", type, 0)

f0 == <<Param("output", "int", 0), In("int"), In("int")>>
f1 == <<Param("output", "long", 0), In("char"), In("short"), In("int"), In("long")>>
f2 == <<Param("output", "char", 100), In("float"), In("double")>>
f3 == <<Param("both", "long", 11)>>
f4 == <<Param("input", "char", 28)>>

\* f0 to f4 under their names, f2 with another length, arrays of one, scalars
\* and directions changed, f4 under the name of f3, and no parameter at all.
Functions ==
  {[name |-> <<102, 48 + n>>, params |-> p] : <<n, p>> \in
     { <<0, f0>>, <<1, f1>>, <<2, f2>>, <<3, f3>>, <<4, f4>>,
       <<2, <<Param("output", "char", 300), In("float"), In("double")>> >>,
       <<2, <<Param("output", "char", 1), In("float"), In("double")>> >>,
       <<2, <<Param("output", "char", 0), In("float"), In("double")>> >>,
       <<3, <<Param("both", "long", 1)>> >>, <<3, <<Param("both", "double", 11)>> >>,
       <<3, <<Param("output", "long", 11)>> >>, <<3, <<Param("input", "long", 11)>> >>,
       <<3, <<Param("both", "short", 200), Param("output", "short", 2)>> >>,
       <<3, f4>>, <<4, <<>> >> }}

\* 256 is 0 in its lowest byte.
Returns == {0, 1, -1, 256}
HostBytes == <<104, 49>>

=============================================================================
