----------------------------- MODULE PackStream -----------------------------
(***************************************************************************)
(* The encoding of whole values: mgsession-encoder.c and                   *)
(* mgsession-decoder.c above the numbers, sizes and strings of PackFormat. *)
(*                                                                         *)
(* A value is its type and its content; the content of a struct is the     *)
(* sequence of its fields.                                                 *)
(***************************************************************************)
EXTENDS PathFormat

(* The structs: signature, and the fields in the order they are written    *)
(* and read.                                                               *)
Struct(signature, fields) == [signature |-> signature, fields |-> fields]

Structs ==
  [NODE                 |-> Struct(\h4E, <<"int", "labels", "map">>),
   RELATIONSHIP         |-> Struct(\h52, <<"int", "int", "int", "string", "map">>),
   UNBOUND_RELATIONSHIP |-> Struct(\h72, <<"int", "string", "map">>),
   PATH                 |-> Struct(\h50, <<"nodes", "relationships", "sequence">>),
   DATE                 |-> Struct(\h44, <<"int">>),
   TIME                 |-> Struct(\h54, <<"int", "int">>),
   LOCAL_TIME           |-> Struct(\h74, <<"int">>),
   DATE_TIME            |-> Struct(\h46, <<"int", "int", "int">>),
   DATE_TIME_ZONE_ID    |-> Struct(\h66, <<"int", "int", "unchecked int">>),
   LOCAL_DATE_TIME      |-> Struct(\h64, <<"int", "int">>),
   DURATION             |-> Struct(\h45, <<"int", "int", "int", "int">>),
   POINT_2D             |-> Struct(\h58, <<"int", "float", "float">>),
   POINT_3D             |-> Struct(\h59, <<"int", "float", "float", "float">>)]

----------------------------------------------------------------------------
(* Writing. *)

RECURSIVE Write(_, _), WriteAll(_, _)

(* The items one after the other, each of the kind given for it; in halves *)
(* so that the recursion stays shallow.                                    *)
WriteAll(kinds, items) ==
  LET n == Len(items)
      h == n \div 2
  IN  CASE n = 0 -> <<>>
        [] n = 1 -> Write(kinds[1], items[1])
        [] n > 1 -> WriteAll(SubSeq(kinds, 1, h), SubSeq(items, 1, h))
                      \o WriteAll(SubSeq(kinds, h + 1, n), SubSeq(items, h + 1, n))

WriteMany(m, kind, items) ==
  mg_session_write_container_size(Len(items), m)
    \o WriteAll([i \in 1 .. Len(items) |-> kind], items)

WriteStruct(type, fields) ==
  <<MG_MARKER_TINY_STRUCT + Len(fields), Structs[type].signature>>
    \o WriteAll(Structs[type].fields, fields)

(* Values the client refuses to send, with MG_ERROR_INVALID_VALUE (an      *)
(* input of MgSession): these bytes come from a server.                    *)
WrittenByServer(value) == WriteStruct(value.type, value.v)

mg_session_write_value(value) ==
  CASE value.type = "NULL"    -> <<\hC0>>
    [] value.type = "BOOL"    -> IF value.v THEN <<\hC3>> ELSE <<\hC2>>
    [] value.type = "INTEGER" -> mg_session_write_integer(value.v)
    [] value.type = "FLOAT"   -> mg_session_write_float(value.v)
    [] value.type = "STRING"  -> mg_session_write_string(value.v)
    [] value.type = "LIST"    -> Write("list", value.v)
    [] value.type = "MAP"     -> Write("map", value.v)
    [] value.type \in {"DATE", "LOCAL_TIME", "LOCAL_DATE_TIME", "DURATION",
                       "POINT_2D", "POINT_3D"} -> WriteStruct(value.type, value.v)
    [] OTHER                  -> WrittenByServer(value)

(* A field or an item of a given kind. *)
Write(kind, x) ==
  CASE kind \in {"int", "unchecked int"} -> mg_session_write_integer(x)
    [] kind = "float"         -> mg_session_write_float(x)
    [] kind = "string"        -> mg_session_write_string(x)
    [] kind = "value"         -> mg_session_write_value(x)
    [] kind = "entry"         -> mg_session_write_string(x[1]) \o mg_session_write_value(x[2])
    [] kind = "list"          -> WriteMany(Markers.LIST, "value", x)
    [] kind = "map"           -> WriteMany(Markers.MAP, "entry", x)
    [] kind = "labels"        -> WriteMany(Markers.LIST, "string", x)
    [] kind = "nodes"         -> WriteMany(Markers.LIST, "node", x)
    [] kind = "relationships" -> WriteMany(Markers.LIST, "relationship", x)
    [] kind = "sequence"      -> WriteMany(Markers.LIST, "int", x)
    [] kind = "node"          -> WriteStruct("NODE", x)
    [] kind = "relationship"  -> WriteStruct("UNBOUND_RELATIONSHIP", x)

----------------------------------------------------------------------------
(* Reading: buf is in_buffer up to in_end, cur is in_cursor. *)

RECURSIVE Read(_, _, _), ReadAll(_, _, _, _), ReadTimes(_, _, _, _, _), ReadRest(_, _, _, _)

(* The fields, one of each kind in turn, up to the first that fails. *)
ReadAll(kinds, buf, cur, read) ==
  IF kinds = <<>> THEN Done(cur, read)
  ELSE ReadRest(Tail(kinds), buf, Read(Head(kinds), buf, cur), read)

(* ... after a field that gave r. *)
ReadRest(kinds, buf, r, read) ==
  IF r.ok THEN ReadAll(kinds, buf, r.cursor, Append(read, r.v)) ELSE r

(* The loops over the elements of a container, in halves as well. *)
ReadTimes(n, kind, buf, cur, read) ==
  LET half == ReadTimes(n \div 2, kind, buf, cur, read)
  IN  CASE n = 0 -> Done(cur, read)
        [] n = 1 -> IfRead(Read(kind, buf, cur), LAMBDA v : Append(read, v))
        [] n > 1 -> IF half.ok
                    THEN ReadTimes(n - n \div 2, kind, buf, half.cursor, half.v)
                    ELSE half

ReadMany(m, kind, buf, cur) ==
  LET size == mg_session_read_container_size(buf, cur, m)
  IN  IF size.ok THEN ReadTimes(size.v, kind, buf, size.cursor, <<>>) ELSE size

ReadStruct(type, buf, cur) ==
  LET kinds == Structs[type].fields
      header == mg_session_check_struct_header(buf, cur, Len(kinds), Structs[type].signature)
  IN  IF header.ok THEN ReadAll(kinds, buf, header.cursor, <<>>) ELSE header

(* mg_session_read_path; without nodes it is refused before the rest is    *)
(* read, and so is an odd sequence before its elements.                    *)
mg_session_read_path(buf, cur) ==
  LET path == ReadStruct("PATH", buf, cur)
  IN  IF path.ok /\ PathAccepted(path.v) THEN path ELSE Failed(path.cursor)

mg_session_read_struct_value(buf, cur) ==
  LET types == {t \in DOMAIN Structs : Structs[t].signature = At(buf, cur + 1, 1)[1]}
      type == CHOOSE t \in types : TRUE
  IN  IF cur + 2 > Len(buf) \/ types = {} THEN Failed(cur)
      ELSE IfRead(IF type = "PATH" THEN mg_session_read_path(buf, cur)
                  ELSE ReadStruct(type, buf, cur),
                  LAMBDA v : [type |-> type, v |-> v])

mg_session_read_value(buf, cur) ==
  LET b == At(buf, cur, 1)[1]
      type == TypeOfMarker(b)
      Typed(r) == IfRead(r, LAMBDA v : [type |-> type, v |-> v])
  IN  IF cur >= Len(buf) THEN Failed(cur)
      ELSE CASE type = "NULL"    -> Typed(Done(cur + 1, 0))
             [] type = "BOOL"    -> Typed(Done(cur + 1, b = \hC3))
             [] type = "INTEGER" -> Typed(mg_session_read_integer(buf, cur))
             [] type = "FLOAT"   -> Typed(mg_session_read_float(buf, cur))
             [] type = "STRING"  -> Typed(mg_session_read_string(buf, cur))
             [] type = "LIST"    -> Typed(Read("list", buf, cur))
             [] type = "MAP"     -> Typed(Read("map", buf, cur))
             [] type = "STRUCT"  -> mg_session_read_struct_value(buf, cur)
             [] OTHER            -> Failed(cur)

(* The last field of a date_time_zone_id: the result of reading it is not  *)
(* looked at, and tz_id stays uninitialised when it failed.                *)
ReadUnchecked(buf, cur) ==
  LET r == mg_session_read_integer(buf, cur)
  IN  Done(r.cursor, IF r.ok THEN r.v ELSE <<>>)

Read(kind, buf, cur) ==
  CASE kind = "int"           -> mg_session_read_integer(buf, cur)
    [] kind = "unchecked int" -> ReadUnchecked(buf, cur)
    [] kind = "float"         -> mg_session_read_float(buf, cur)
    [] kind = "string"        -> mg_session_read_string(buf, cur)
    [] kind = "value"         -> mg_session_read_value(buf, cur)
    [] kind = "entry"         -> ReadAll(<<"string", "value">>, buf, cur, <<>>)
    [] kind = "list"          -> ReadMany(Markers.LIST, "value", buf, cur)
    [] kind = "map"           -> ReadMany(Markers.MAP, "entry", buf, cur)
    [] kind = "labels"        -> ReadMany(Markers.LIST, "string", buf, cur)
    [] kind = "nodes"         -> ReadMany(Markers.LIST, "node", buf, cur)
    [] kind = "relationships" -> ReadMany(Markers.LIST, "relationship", buf, cur)
    [] kind = "sequence"      -> ReadMany(Markers.LIST, "int", buf, cur)
    [] kind = "node"          -> ReadStruct("NODE", buf, cur)
    [] kind = "relationship"  -> ReadStruct("UNBOUND_RELATIONSHIP", buf, cur)

==============================================================================
