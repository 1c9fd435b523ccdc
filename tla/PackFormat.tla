----------------------------- MODULE PackFormat -----------------------------
(***************************************************************************)
(* The encoding of numbers, sizes and strings, and the markers that tell   *)
(* values apart: the part of mgsession-encoder.c and mgsession-decoder.c   *)
(* that does not call itself, on real bytes.                               *)
(*                                                                         *)
(* A 64-bit integer is its eight bytes, most significant first, in two's   *)
(* complement; so is a float.  A read gives whether it succeeded,          *)
(* in_cursor after it, and what was read.                                  *)
(***************************************************************************)
EXTENDS Integers, Sequences

Byte == 0 .. 255
Int64 == [1 .. 8 -> Byte]

MG_MARKER_TINY_STRUCT == \hB0
MG_TINY_SIZE_MAX == 15
UINT8_MAX == 255
UINT16_MAX == 65535

(* MG_MARKERS_STRING, MG_MARKERS_LIST, MG_MARKERS_MAP: from the smallest   *)
(* size to the largest.                                                    *)
Markers ==
  [STRING |-> <<\h80, \hD0, \hD1, \hD2>>,
   LIST   |-> <<\h90, \hD4, \hD5, \hD6>>,
   MAP    |-> <<\hA0, \hD8, \hD9, \hDA>>]

(* The markers MG_MARKER_INT_8 to INT_64, by the width they announce. *)
IntMarker(w) == CASE w = 1 -> \hC8 [] w = 2 -> \hC9 [] w = 4 -> \hCA [] w = 8 -> \hCB

----------------------------------------------------------------------------
(* Numbers. *)

(* The w low bytes of a number, and the number w bytes stand for. *)
Low(v, w) == SubSeq(v, 9 - w, 8)

Extended(bytes) ==
  LET w == Len(bytes)
      sign == IF bytes[1] >= 128 THEN 255 ELSE 0
  IN  [i \in 1 .. 8 |-> IF i <= 8 - w THEN sign ELSE bytes[i - (8 - w)]]

(* INTw_MIN <= v <= INTw_MAX *)
Fits(v, w) == v = Extended(Low(v, w))

IsNegative(v) == v[1] >= 128

(* A small integer as a number TLA+ can count with. *)
Small(v) == IF IsNegative(v) THEN v[8] - 256 ELSE v[8]

(* MG_TINY_INT_MIN <= v <= MG_TINY_INT_MAX *)
IsTiny(v) == Fits(v, 1) /\ Small(v) \in -16 .. 127

(* Sizes. *)
htobe16(n) == <<n \div 256, n % 256>>
htobe32(n) == <<n \div 16777216, (n \div 65536) % 256, (n \div 256) % 256, n % 256>>

be16toh(b) == b[1] * 256 + b[2]

(* Sizes from 2^31 on are all the same: TLC cannot count that far, and no  *)
(* buffer of the model does.                                               *)
Huge == \h7FFFFFFF

be32toh(b) ==
  IF b[1] >= 128 THEN Huge
  ELSE b[1] * 16777216 + b[2] * 65536 + b[3] * 256 + b[4]

----------------------------------------------------------------------------
(* Writing. *)

(* The narrowest of the four widths. *)
Width(v) == IF Fits(v, 1) THEN 1 ELSE IF Fits(v, 2) THEN 2
            ELSE IF Fits(v, 4) THEN 4 ELSE 8

mg_session_write_integer(v) ==
  IF IsTiny(v) THEN <<v[8]>> ELSE <<IntMarker(Width(v))>> \o Low(v, Width(v))

(* Mutant: a size of 256 in one byte. *)
WriteSizeOffByOne(n, m) ==
  IF n <= MG_TINY_SIZE_MAX THEN <<m[1] + n>>
  ELSE IF n <= UINT8_MAX + 1 THEN <<m[2], n % 256>>
  ELSE IF n <= UINT16_MAX THEN <<m[3]>> \o htobe16(n)
  ELSE <<m[4]>> \o htobe32(n)

mg_session_write_container_size(n, m) ==
  IF n <= MG_TINY_SIZE_MAX THEN <<m[1] + n>>
  ELSE IF n <= UINT8_MAX THEN <<m[2], n>>
  ELSE IF n <= UINT16_MAX THEN <<m[3]>> \o htobe16(n)
  ELSE <<m[4]>> \o htobe32(n)

mg_session_write_float(v) == <<\hC1>> \o v

mg_session_write_string(s) ==
  mg_session_write_container_size(Len(s), Markers.STRING) \o s

----------------------------------------------------------------------------
(* Reading: buf is in_buffer up to in_end, cur is in_cursor. *)

Done(cur, v) == [ok |-> TRUE, cursor |-> cur, v |-> v]
Failed(cur) == [ok |-> FALSE, cursor |-> cur, v |-> <<>>]

(* MG_RETURN_IF_FAILED, then F of what was read. *)
IfRead(r, F(_)) == IF r.ok THEN Done(r.cursor, F(r.v)) ELSE r

(* Memory from in_buffer + cur on; past in_end there may be anything. *)
At(buf, cur, n) ==
  [i \in 1 .. n |-> IF cur + i <= Len(buf) THEN buf[cur + i] ELSE 0]

(* Mutant: a message that ends one byte early is read all the same. *)
ReadOneTooMany(buf, cur, w) ==
  IF cur + w > Len(buf) + 1 THEN Failed(cur) ELSE Done(cur + w, At(buf, cur, w))

(* mg_session_read_uint8, _uint16, _uint32, _uint64: w bytes. *)
ReadBytes(buf, cur, w) ==
  IF cur + w > Len(buf) THEN Failed(cur) ELSE Done(cur + w, At(buf, cur, w))

mg_session_read_integer(buf, cur) ==
  LET marker == ReadBytes(buf, cur, 1)
      b == marker.v[1]
      Sized(w) == IfRead(ReadBytes(buf, cur + 1, w), Extended)
  IN  IF ~marker.ok THEN marker
      ELSE CASE b < \h80  -> Done(cur + 1, Extended(<<0, b>>))
             [] b >= \hF0 -> Done(cur + 1, Extended(<<b>>))
             [] b = \hC8  -> Sized(1)
             [] b = \hC9  -> Sized(2)
             [] b = \hCA  -> Sized(4)
             [] b = \hCB  -> Sized(8)
             [] OTHER     -> Failed(cur + 1)

mg_session_read_float(buf, cur) ==
  LET marker == ReadBytes(buf, cur, 1)
  IN  IF ~marker.ok THEN marker
      ELSE IF marker.v[1] = \hC1 THEN ReadBytes(buf, cur + 1, 8)
      ELSE Failed(cur + 1)

mg_session_read_container_size(buf, cur, m) ==
  LET marker == ReadBytes(buf, cur, 1)
      b == marker.v[1]
  IN  IF ~marker.ok THEN marker
      ELSE CASE 16 * (b \div 16) = m[1] -> Done(cur + 1, b % 16)
             [] b = m[2] -> IfRead(ReadBytes(buf, cur + 1, 1), LAMBDA v : v[1])
             [] b = m[3] -> IfRead(ReadBytes(buf, cur + 1, 2), be16toh)
             [] b = m[4] -> IfRead(ReadBytes(buf, cur + 1, 4), be32toh)
             [] OTHER    -> Failed(cur + 1)

(* Mutant: the end of the string is not compared with the end of the       *)
(* message.                                                                *)
ReadStringUnchecked(buf, cur) ==
  LET size == mg_session_read_container_size(buf, cur, Markers.STRING)
  IN  IF ~size.ok \/ size.v > 65536 THEN Failed(size.cursor)
      ELSE Done(size.cursor + size.v, At(buf, size.cursor, size.v))

mg_session_read_string(buf, cur) ==
  LET size == mg_session_read_container_size(buf, cur, Markers.STRING)
  IN  IF ~size.ok \/ size.v > Len(buf) - size.cursor THEN Failed(size.cursor)
      ELSE Done(size.cursor + size.v, At(buf, size.cursor, size.v))

mg_session_check_struct_header(buf, cur, n, signature) ==
  IF cur + 2 <= Len(buf) /\ At(buf, cur, 2) = <<MG_MARKER_TINY_STRUCT + n, signature>>
  THEN Done(cur + 2, <<>>) ELSE Failed(cur)

(* What the first byte says comes next. *)
TypeOfMarker(b) ==
  CASE b = \hC0 -> "NULL"
    [] b \in {\hC2, \hC3} -> "BOOL"
    [] b < \h80 \/ b >= \hF0 \/ b \in \hC8 .. \hCB -> "INTEGER"
    [] b = \hC1 -> "FLOAT"
    [] b \in \h80 .. \h8F \/ b \in \hD0 .. \hD2 -> "STRING"
    [] b \in \h90 .. \h9F \/ b \in \hD4 .. \hD6 -> "LIST"
    [] b \in \hA0 .. \hAF \/ b \in \hD8 .. \hDA -> "MAP"
    [] b \in \hB0 .. \hBF -> "STRUCT"
    [] OTHER -> "UNSUPPORTED"

=============================================================================
