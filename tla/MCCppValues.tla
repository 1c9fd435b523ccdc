----------------------------- MODULE MCCppValues -----------------------------
(* Values of every type, small enough to fail at every allocation. *)
EXTENDS CppValues

Str(s) == Block("string", <<s>>, <<>>)
IntV(n) == Block("INTEGER", <<n>>, <<>>)
Float(d) == Block("FLOAT", <<d>>, <<>>)
Of(type, payload) == Block(type, <<>>, <<payload>>)
MapOf(entries) == Block("map", <<>>, entries)

A == Str(1)
B == Str(2)
Empty == MapOf(<<>>)
NodeN(id, labels) == Block("node", <<id>>, labels \o <<Empty>>)
Edge == Block("unbound", <<5>>, <<A, Empty>>)

(* Two layouts of one path, (0)-[5]->(1), and the edge walked backwards. *)
PathAB == Block("path", <<2, 1, 1>>, <<NodeN(0, <<>>), NodeN(1, <<>>), Edge>>)
PathBack ==
  Block("path", <<2, -1, 1>>, <<NodeN(0, <<>>), NodeN(1, <<>>), Edge>>)
PathLong ==
  Block("path", <<2, 2, 1>>, <<NodeN(0, <<>>), NodeN(1, <<>>), Edge, Edge>>)

MCUniverse ==
  { IntV(1), Float(PlusZero), Float(MinusZero), Float(NaN),
    Block("BOOL", <<1>>, <<>>), Of("STRING", A),
    Of("LIST", Block("list", <<>>, <<IntV(1), Of("STRING", A)>>)),
    Of("MAP", MapOf(<<A, IntV(1), B, IntV(2)>>)),
    Of("MAP", MapOf(<<B, IntV(2), A, IntV(1)>>)),
    Of("MAP", MapOf(<<A, IntV(1)>>)),
    Of("NODE", NodeN(0, <<A, B>>)), Of("NODE", NodeN(0, <<B, A>>)),
    Of("RELATIONSHIP",
       Block("relationship", <<1, 2, 3>>, <<A, MapOf(<<B, IntV(1)>>)>>)),
    Of("UNBOUND_RELATIONSHIP", Edge),
    Of("PATH", PathAB), Of("PATH", PathBack), Of("PATH", PathLong),
    Of("DATE", Block("temporal", <<7>>, <<>>)),
    Of("POINT_2D", Block("point", <<1, PlusZero, MinusZero>>, <<>>)),
    Of("POINT_2D", Block("point", <<1, MinusZero, MinusZero>>, <<>>)) }

(* From a row that is a number the program goes on to build lists and maps *)
(* of its own.                                                             *)
MCMaxCalls ==
  [t \in MCUniverse |-> CASE t.kind = "INTEGER" -> 4
                         [] t.kind = "DATE" -> 3
                         [] OTHER -> 2]

AnySlots == Permutations(Slots)

MCScalars == {IntV(1)}

=============================================================================
