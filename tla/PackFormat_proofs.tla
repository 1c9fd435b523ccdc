-------------------------- MODULE PackFormat_proofs --------------------------
(***************************************************************************)
(* The encoding of numbers, sizes and strings, for every number, size and  *)
(* string and at every place of a message: what is written is read back, a *)
(* cut encoding is refused, and no read leaves the message.  And the paths *)
(* the decoder accepts can be walked.                                      *)
(***************************************************************************)
EXTENDS PathFormat, SequenceTheorems, TLAPS

(* Message buf has the bytes e behind cur. *)
Holds(buf, cur, e) ==
  /\ cur + Len(e) <= Len(buf)
  /\ \A i \in 1 .. Len(e) : buf[cur + i] = e[i]

(* Bytes that are there are read. *)
LEMMA BytesRead ==
  ASSUME NEW buf \in Seq(Byte), NEW cur \in Nat, NEW e \in Seq(Byte),
         Holds(buf, cur, e)
  PROVE  /\ ReadBytes(buf, cur, Len(e)) = Done(cur + Len(e), e)
         /\ At(buf, cur, Len(e)) = e
<1>1. Len(e) \in Nat /\ Len(buf) \in Nat /\ cur + Len(e) <= Len(buf)
  BY DEF Holds
<1>2. \A i \in 1 .. Len(e) : cur + i <= Len(buf) /\ buf[cur + i] = e[i]
  BY <1>1 DEF Holds
<1>3. At(buf, cur, Len(e)) = e
  <2>1. At(buf, cur, Len(e)) = [i \in 1 .. Len(e) |-> e[i]]
    BY <1>2 DEF At
  <2>2. e = [i \in 1 .. Len(e) |-> e[i]]
    OBVIOUS
  <2> QED
    BY <2>1, <2>2
<1> QED
  BY <1>1, <1>3 DEF ReadBytes

(* Bytes one after the other. *)
LEMMA HoldsParts ==
  ASSUME NEW buf \in Seq(Byte), NEW cur \in Nat, NEW d \in Seq(Byte),
         NEW e \in Seq(Byte), Holds(buf, cur, d \o e)
  PROVE  /\ Len(d \o e) = Len(d) + Len(e) /\ cur + Len(d) \in Nat
         /\ Holds(buf, cur, d) /\ Holds(buf, cur + Len(d), e)
<1> DEFINE ld == Len(d)
           le == Len(e)
           lb == Len(buf)
<1>1. ld \in Nat /\ le \in Nat /\ lb \in Nat
  OBVIOUS
<1>2. Len(d \o e) = ld + le
  OBVIOUS
<1>3. cur + (ld + le) <= lb
  BY <1>2 DEF Holds
<1>4. ASSUME NEW i \in 1 .. ld PROVE buf[cur + i] = d[i]
  <2>1. (d \o e)[i] = d[i] /\ i \in 1 .. Len(d \o e)
    BY <1>1, <1>2
  <2> QED
    BY <2>1 DEF Holds
<1>5. ASSUME NEW i \in 1 .. le PROVE buf[(cur + ld) + i] = e[i]
  <2>1. ld + i \in 1 .. ld + le /\ ~(ld + i <= ld) /\ (ld + i) - ld = i
    BY <1>1
  <2>2. (d \o e)[ld + i] = e[i]
    BY <2>1
  <2>3. buf[cur + (ld + i)] = e[i]
    BY <1>2, <2>1, <2>2 DEF Holds
  <2>4. cur + (ld + i) = (cur + ld) + i
    BY <1>1
  <2> QED
    BY <2>3, <2>4
<1>6. cur + ld <= lb /\ (cur + ld) + le <= lb /\ cur + ld \in Nat
  BY <1>1, <1>3
<1> QED
  BY <1>1, <1>2, <1>4, <1>5, <1>6 DEF Holds

LEMMA PartsRead ==
  ASSUME NEW buf \in Seq(Byte), NEW cur \in Nat, NEW d \in Seq(Byte),
         NEW e \in Seq(Byte), Holds(buf, cur, d \o e)
  PROVE  /\ ReadBytes(buf, cur, Len(d)) = Done(cur + Len(d), d)
         /\ ReadBytes(buf, cur + Len(d), Len(e)) = Done((cur + Len(d)) + Len(e), e)
         /\ Len(d \o e) = Len(d) + Len(e)
<1>1. /\ Len(d \o e) = Len(d) + Len(e) /\ cur + Len(d) \in Nat
      /\ Holds(buf, cur, d) /\ Holds(buf, cur + Len(d), e)
  BY HoldsParts
<1>2. ReadBytes(buf, cur, Len(d)) = Done(cur + Len(d), d)
  BY <1>1, BytesRead, Zenon
<1>3. ReadBytes(buf, cur + Len(d), Len(e)) = Done((cur + Len(d)) + Len(e), e)
  BY <1>1, BytesRead, Zenon
<1> QED
  BY <1>1, <1>2, <1>3

(* A marker and the bytes behind it. *)
LEMMA MarkerAndRest ==
  ASSUME NEW buf \in Seq(Byte), NEW cur \in Nat, NEW b \in Byte,
         NEW e \in Seq(Byte), Holds(buf, cur, <<b>> \o e)
  PROVE  /\ ReadBytes(buf, cur, 1) = Done(cur + 1, <<b>>)
         /\ ReadBytes(buf, cur + 1, Len(e)) = Done((cur + 1) + Len(e), e)
         /\ Len(<<b>> \o e) = 1 + Len(e)
<1> DEFINE d == <<b>>
<1>1. d \in Seq(Byte) /\ Len(d) = 1 /\ Holds(buf, cur, d \o e)
  OBVIOUS
<1> SUFFICES /\ ReadBytes(buf, cur, 1) = Done(cur + 1, d)
             /\ ReadBytes(buf, cur + 1, Len(e)) = Done((cur + 1) + Len(e), e)
             /\ Len(d \o e) = 1 + Len(e)
  OBVIOUS
<1> HIDE DEF d
<1>2. /\ ReadBytes(buf, cur, Len(d)) = Done(cur + Len(d), d)
      /\ ReadBytes(buf, cur + Len(d), Len(e)) = Done((cur + Len(d)) + Len(e), e)
      /\ Len(d \o e) = Len(d) + Len(e)
  BY <1>1, PartsRead, Zenon
<1> QED
  BY <1>1, <1>2, Zenon

----------------------------------------------------------------------------
(* Integers. *)

LEMMA IntegerIsBytes ==
  ASSUME NEW v \in Int64
  PROVE  v \in Seq(Byte) /\ Len(v) = 8
<1>1. v \in [1 .. 8 -> Byte] /\ 8 \in Nat
  BY DEF Int64
<1>2. v \in Seq(Byte)
  BY <1>1, SeqDef, Zenon
<1> QED
  BY <1>1, <1>2

(* The low bytes of an integer. *)
LEMMA LowBytes ==
  ASSUME NEW v \in Int64, NEW w \in {1, 2, 4, 8}
  PROVE  /\ Low(v, w) \in Seq(Byte) /\ Len(Low(v, w)) = w
         /\ \A i \in 1 .. w : Low(v, w)[i] = v[8 - w + i]
<1>1. v \in Seq(Byte) /\ Len(v) = 8
  BY IntegerIsBytes
<1>2. 9 - w \in 1 .. 8 /\ 8 - (9 - w) + 1 = w
  OBVIOUS
<1>3. Low(v, w) = [i \in 1 .. w |-> v[8 - w + i]]
  BY <1>1, <1>2 DEF Low
<1>4. \A i \in 1 .. w : v[8 - w + i] \in Byte
  BY DEF Int64
<1> QED
  BY <1>3, <1>4

(* Eight bytes hold every integer. *)
LEMMA EightBytes ==
  ASSUME NEW v \in Int64
  PROVE  Fits(v, 8)
<1>1. Len(Low(v, 8)) = 8 /\ \A i \in 1 .. 8 : Low(v, 8)[i] = v[i]
  BY LowBytes
<1> DEFINE l == Low(v, 8)
<1>2. Extended(l) = [i \in 1 .. 8 |-> v[i]]
  <2>1. Len(l) = 8 /\ \A i \in 1 .. 8 : l[i] = v[i]
    BY <1>1
  <2> HIDE DEF l
  <2>2. \A i \in 1 .. 8 : ~(i <= 8 - 8) /\ i - (8 - 8) = i
    OBVIOUS
  <2> QED
    BY <2>1, <2>2 DEF Extended
<1> QED
  BY <1>2 DEF Fits, Int64

LEMMA WidthFits ==
  ASSUME NEW v \in Int64
  PROVE  Width(v) \in {1, 2, 4, 8} /\ Fits(v, Width(v))
BY EightBytes DEF Width

(* One byte stands for the integer it was taken from. *)
LEMMA TinyFits ==
  ASSUME NEW v \in Int64, IsTiny(v)
  PROVE  /\ v[8] \in Byte
         /\ v[8] < 128 \/ v[8] >= 240
         /\ v[8] < 128 => Extended(<<0, v[8]>>) = v
         /\ v[8] >= 240 => Extended(<<v[8]>>) = v
<1>1. v[8] \in Byte /\ v[1] \in Byte
  BY DEF Int64
<1>2. Low(v, 1) = <<v[8]>>
  <2>1. 1 \in {1, 2, 4, 8} /\ 8 - 1 + 1 = 8 /\ 1 \in 1 .. 1
    OBVIOUS
  <2>2. Low(v, 1) \in Seq(Byte) /\ Len(Low(v, 1)) = 1 /\ Low(v, 1)[1] = v[8]
    BY <2>1, LowBytes, Zenon
  <2> HIDE DEF Low
  <2> QED
    BY <2>2
<1>3. v = Extended(<<v[8]>>)
  BY <1>2 DEF IsTiny, Fits
<1>4. v[1] = IF v[8] >= 128 THEN 255 ELSE 0
  BY <1>3 DEF Extended
<1>5. v[8] < 128 \/ v[8] >= 240
  BY <1>1, <1>4 DEF IsTiny, Small, IsNegative, Byte
<1>6. ASSUME v[8] < 128 PROVE Extended(<<0, v[8]>>) = Extended(<<v[8]>>)
  <2>1. /\ Extended(<<0, v[8]>>) = [i \in 1 .. 8 |-> IF i = 8 THEN v[8] ELSE 0]
        /\ Extended(<<v[8]>>) = [i \in 1 .. 8 |-> IF i = 8 THEN v[8] ELSE 0]
    BY <1>1, <1>6 DEF Extended, Byte
  <2> QED
    BY <2>1
<1> QED
  BY <1>1, <1>3, <1>5, <1>6

(* What mg_session_write_integer writes. *)
LEMMA IntegerWritten ==
  ASSUME NEW v \in Int64
  PROVE  LET e == mg_session_write_integer(v) IN
         /\ e \in Seq(Byte) /\ Len(e) \in 1 .. 9
         /\ IsTiny(v) => e = <<v[8]>>
         /\ ~IsTiny(v) => /\ e = <<IntMarker(Width(v))>> \o Low(v, Width(v))
                          /\ Len(e) = 1 + Width(v)
                          /\ IntMarker(Width(v)) \in {200, 201, 202, 203}
<1>1. CASE IsTiny(v)
  <2>1. v[8] \in Byte
    BY DEF Int64
  <2> QED
    BY <1>1, <2>1 DEF mg_session_write_integer
<1>2. CASE ~IsTiny(v)
  <2>1. Width(v) \in {1, 2, 4, 8}
    BY WidthFits
  <2>2. Low(v, Width(v)) \in Seq(Byte) /\ Len(Low(v, Width(v))) = Width(v)
    BY <2>1, LowBytes
  <2>3. IntMarker(Width(v)) \in {200, 201, 202, 203}
    BY <2>1 DEF IntMarker
  <2>4. <<IntMarker(Width(v))>> \in Seq(Byte) /\ Len(<<IntMarker(Width(v))>>) = 1
    BY <2>3 DEF Byte
  <2> QED
    BY <1>2, <2>1, <2>2, <2>3, <2>4 DEF mg_session_write_integer
<1> QED
  BY <1>1, <1>2

(* The w bytes that follow a marker, sign-extended. *)
IntegerAfter(r) == IF r.ok THEN Done(r.cursor, Extended(r.v)) ELSE r
AfterMarker(buf, cur, w) == IntegerAfter(ReadBytes(buf, cur + 1, w))

(* What mg_session_read_integer makes of each marker. *)
LEMMA IntegerByMarker ==
  ASSUME NEW buf, NEW cur, NEW b \in Byte,
         ReadBytes(buf, cur, 1) = Done(cur + 1, <<b>>)
  PROVE  /\ b < 128 => mg_session_read_integer(buf, cur) = Done(cur + 1, Extended(<<0, b>>))
         /\ b >= 240 => mg_session_read_integer(buf, cur) = Done(cur + 1, Extended(<<b>>))
         /\ b = 200 => mg_session_read_integer(buf, cur) = AfterMarker(buf, cur, 1)
         /\ b = 201 => mg_session_read_integer(buf, cur) = AfterMarker(buf, cur, 2)
         /\ b = 202 => mg_session_read_integer(buf, cur) = AfterMarker(buf, cur, 4)
         /\ b = 203 => mg_session_read_integer(buf, cur) = AfterMarker(buf, cur, 8)
         /\ b \in 128 .. 239 \ {200, 201, 202, 203} =>
              mg_session_read_integer(buf, cur) = Failed(cur + 1)
<1> DEFINE m == ReadBytes(buf, cur, 1)
<1>1. m.ok = TRUE /\ m.v = <<b>>
  BY DEF Done
<1>2. m.v[1] = b
  BY <1>1
<1>3. mg_session_read_integer(buf, cur) =
        IF ~m.ok THEN m
        ELSE CASE m.v[1] < 128  -> Done(cur + 1, Extended(<<0, m.v[1]>>))
               [] m.v[1] >= 240 -> Done(cur + 1, Extended(<<m.v[1]>>))
               [] m.v[1] = 200  -> AfterMarker(buf, cur, 1)
               [] m.v[1] = 201  -> AfterMarker(buf, cur, 2)
               [] m.v[1] = 202  -> AfterMarker(buf, cur, 4)
               [] m.v[1] = 203  -> AfterMarker(buf, cur, 8)
               [] OTHER         -> Failed(cur + 1)
  BY Zenon DEF mg_session_read_integer, AfterMarker, IntegerAfter, IfRead
<1> HIDE DEF m
<1> DEFINE A == Extended(<<0, b>>)
           B == Extended(<<b>>)
<1>4. mg_session_read_integer(buf, cur) =
        CASE b < 128  -> Done(cur + 1, A)
          [] b >= 240 -> Done(cur + 1, B)
          [] b = 200  -> AfterMarker(buf, cur, 1)
          [] b = 201  -> AfterMarker(buf, cur, 2)
          [] b = 202  -> AfterMarker(buf, cur, 4)
          [] b = 203  -> AfterMarker(buf, cur, 8)
          [] OTHER    -> Failed(cur + 1)
  BY <1>1, <1>2, <1>3, Zenon
<1> HIDE DEF A, B
<1>5. b \in 0 .. 255
  BY DEF Byte
<1> QED
  BY <1>4, <1>5 DEF A, B

(* Every 64-bit integer is read back by mg_session_read_integer, wherever  *)
(* in a message mg_session_write_integer put it: tiny and in each width.   *)
THEOREM IntegerRoundTrip ==
  ASSUME NEW buf \in Seq(Byte), NEW cur \in Nat, NEW v \in Int64,
         Holds(buf, cur, mg_session_write_integer(v))
  PROVE  mg_session_read_integer(buf, cur)
           = Done(cur + Len(mg_session_write_integer(v)), v)
<1>1. CASE IsTiny(v)
  <2> DEFINE b == v[8]
  <2>1. mg_session_write_integer(v) = <<b>> /\ <<b>> \in Seq(Byte) /\ b \in Byte
    <3>1. mg_session_write_integer(v) = <<b>>
      BY <1>1, Zenon DEF mg_session_write_integer
    <3>2. b \in Byte
      BY <1>1, TinyFits, Zenon
    <3> QED
      BY <3>1, <3>2
  <2>2. ReadBytes(buf, cur, 1) = Done(cur + 1, <<b>>)
    BY <2>1, BytesRead
  <2>3. /\ b < 128 \/ b >= 240
        /\ b < 128 => Extended(<<0, b>>) = v
        /\ b >= 240 => Extended(<<b>>) = v
    BY <1>1, TinyFits
  <2>4. Len(<<b>>) = 1
    OBVIOUS
  <2> HIDE DEF b
  <2>5. CASE b < 128
    <3>1. mg_session_read_integer(buf, cur) = Done(cur + 1, Extended(<<0, b>>))
      BY <2>1, <2>2, <2>5, IntegerByMarker
    <3> QED
      BY <2>1, <2>3, <2>4, <2>5, <3>1
  <2>6. CASE b >= 240
    <3>1. mg_session_read_integer(buf, cur) = Done(cur + 1, Extended(<<b>>))
      BY <2>1, <2>2, <2>6, IntegerByMarker
    <3> QED
      BY <2>1, <2>3, <2>4, <2>6, <3>1
  <2> QED
    BY <2>3, <2>5, <2>6
<1>2. CASE ~IsTiny(v)
  <2> DEFINE w == Width(v)
             b == IntMarker(Width(v))
             l == Low(v, Width(v))
             e == mg_session_write_integer(v)
  <2>1. w \in {1, 2, 4, 8} /\ v = Extended(l)
    BY WidthFits DEF Fits
  <2>2. l \in Seq(Byte) /\ Len(l) = w
    BY <2>1, LowBytes
  <2>3. /\ e = <<b>> \o l /\ Len(e) = 1 + w
        /\ <<b>> \in Seq(Byte) /\ Len(<<b>>) = 1
        /\ b = (CASE w = 1 -> 200 [] w = 2 -> 201 [] w = 4 -> 202 [] w = 8 -> 203)
    BY <1>2, <2>1, IntegerWritten DEF IntMarker, Byte
  <2> HIDE DEF w, b, l, e
  <2>4. Holds(buf, cur, <<b>> \o l)
    BY <2>3 DEF e
  <2>5. b \in Byte
    BY <2>1, <2>3 DEF Byte
  <2>6. /\ ReadBytes(buf, cur, 1) = Done(cur + 1, <<b>>)
        /\ ReadBytes(buf, cur + 1, w) = Done((cur + 1) + w, l)
    BY <2>2, <2>4, <2>5, MarkerAndRest, Zenon
  <2>7. (cur + 1) + w = cur + (1 + w)
    BY <2>1
  <2>8. mg_session_read_integer(buf, cur) = Done((cur + 1) + w, Extended(l))
    <3> DEFINE rw == ReadBytes(buf, cur + 1, w)
    <3>1. rw.ok /\ rw.cursor = (cur + 1) + w /\ rw.v = l
      BY <2>6 DEF Done
    <3>2. mg_session_read_integer(buf, cur) = IntegerAfter(rw)
      <4> DEFINE ri == mg_session_read_integer(buf, cur)
      <4>1. b \in Byte
        BY <2>1, <2>3 DEF Byte
      <4>2. /\ b = 200 => ri = AfterMarker(buf, cur, 1)
            /\ b = 201 => ri = AfterMarker(buf, cur, 2)
            /\ b = 202 => ri = AfterMarker(buf, cur, 4)
            /\ b = 203 => ri = AfterMarker(buf, cur, 8)
        BY <2>6, <4>1, IntegerByMarker, ZenonT(60)
      <4> HIDE DEF ri
      <4>3. ri = AfterMarker(buf, cur, w)
        BY <2>1, <2>3, <4>2
      <4> QED
        BY <4>3, Zenon DEF AfterMarker, ri
    <3> HIDE DEF rw
    <3> QED
      BY <3>1, <3>2 DEF IntegerAfter
  <2> QED
    BY <2>1, <2>3, <2>7, <2>8, Zenon DEF e
<1> QED
  BY <1>1, <1>2
----------------------------------------------------------------------------
(* Floats. *)

LEMMA FloatByMarker ==
  ASSUME NEW buf, NEW cur, NEW b,
         ReadBytes(buf, cur, 1) = Done(cur + 1, <<b>>)
  PROVE  /\ b = 193 => mg_session_read_float(buf, cur) = ReadBytes(buf, cur + 1, 8)
         /\ b # 193 => mg_session_read_float(buf, cur) = Failed(cur + 1)
<1> DEFINE m == ReadBytes(buf, cur, 1)
<1>1. m.ok = TRUE /\ m.v = <<b>>
  BY DEF Done
<1>2. m.v[1] = b
  BY <1>1
<1>3. mg_session_read_float(buf, cur) =
        IF ~m.ok THEN m
        ELSE IF m.v[1] = 193 THEN ReadBytes(buf, cur + 1, 8) ELSE Failed(cur + 1)
  BY Zenon DEF mg_session_read_float
<1> HIDE DEF m
<1> QED
  BY <1>1, <1>2, <1>3, Zenon

(* The eight bytes of every float, NaNs and infinities included, are read  *)
(* back by mg_session_read_float as mg_session_write_float wrote them.     *)
THEOREM FloatRoundTrip ==
  ASSUME NEW buf \in Seq(Byte), NEW cur \in Nat, NEW v \in Int64,
         Holds(buf, cur, mg_session_write_float(v))
  PROVE  mg_session_read_float(buf, cur) = Done(cur + 9, v)
<1>1. v \in Seq(Byte) /\ Len(v) = 8
  BY IntegerIsBytes
<1> DEFINE x == 193
<1>2. x \in Byte
  BY DEF Byte
<1>3. Holds(buf, cur, <<x>> \o v)
  BY Zenon DEF mg_session_write_float
<1> HIDE DEF x
<1>4. (cur + 1) + 8 = cur + 9
  OBVIOUS
<1>5. /\ ReadBytes(buf, cur, 1) = Done(cur + 1, <<x>>)
      /\ ReadBytes(buf, cur + 1, Len(v)) = Done((cur + 1) + Len(v), v)
  BY <1>1, <1>2, <1>3, MarkerAndRest, Zenon
<1>6. ReadBytes(buf, cur + 1, 8) = Done(cur + 9, v)
  BY <1>1, <1>4, <1>5, Zenon
<1> QED
  BY <1>5, <1>6, FloatByMarker, Zenon DEF x

----------------------------------------------------------------------------
(* Sizes of strings, lists and maps. *)

SizeMarkers == {Markers.STRING, Markers.LIST, Markers.MAP}

(* The markers of a type are apart, and so are those of two types. *)
LEMMA MarkersApart ==
  ASSUME NEW m \in SizeMarkers
  PROVE  /\ m[1] \in {128, 144, 160}
         /\ m[2] \in {208, 212, 216} /\ m[3] = m[2] + 1 /\ m[4] = m[2] + 2
         /\ m[1] = 128 <=> m[2] = 208
         /\ m[1] = 144 <=> m[2] = 212
BY DEF SizeMarkers, Markers

LEMMA MarkerBytes ==
  ASSUME NEW m \in SizeMarkers
  PROVE  m[1] \in Byte /\ m[2] \in Byte /\ m[3] \in Byte /\ m[4] \in Byte
BY DEF SizeMarkers, Markers, Byte

(* A size that follows its marker. *)
SizeOf(r, n) == IF r.ok THEN Done(r.cursor, n) ELSE r
Size8(buf, cur) == SizeOf(ReadBytes(buf, cur + 1, 1), ReadBytes(buf, cur + 1, 1).v[1])
Size16(buf, cur) == SizeOf(ReadBytes(buf, cur + 1, 2), be16toh(ReadBytes(buf, cur + 1, 2).v))
Size32(buf, cur) == SizeOf(ReadBytes(buf, cur + 1, 4), be32toh(ReadBytes(buf, cur + 1, 4).v))

(* What mg_session_read_container_size makes of each marker. *)
LEMMA SizeByMarker ==
  ASSUME NEW buf, NEW cur, NEW b \in Byte, NEW m \in SizeMarkers,
         ReadBytes(buf, cur, 1) = Done(cur + 1, <<b>>)
  PROVE  LET r == mg_session_read_container_size(buf, cur, m) IN
         /\ b \in m[1] .. m[1] + 15 => r = Done(cur + 1, b - m[1])
         /\ b = m[2] => r = Size8(buf, cur)
         /\ b = m[3] => r = Size16(buf, cur)
         /\ b = m[4] => r = Size32(buf, cur)
         /\ b \notin (m[1] .. m[1] + 15) \union {m[2], m[3], m[4]} => r = Failed(cur + 1)
<1> DEFINE k == ReadBytes(buf, cur, 1)
           r == mg_session_read_container_size(buf, cur, m)
<1>1. k.ok = TRUE /\ k.v = <<b>>
  BY DEF Done
<1>2. k.v[1] = b
  BY <1>1
<1>3. r = IF ~k.ok THEN k
          ELSE CASE 16 * (k.v[1] \div 16) = m[1] -> Done(cur + 1, k.v[1] % 16)
                 [] k.v[1] = m[2] -> Size8(buf, cur)
                 [] k.v[1] = m[3] -> Size16(buf, cur)
                 [] k.v[1] = m[4] -> Size32(buf, cur)
                 [] OTHER         -> Failed(cur + 1)
  BY Zenon DEF mg_session_read_container_size, Size8, Size16, Size32, SizeOf, IfRead
<1> HIDE DEF k, r
<1>4. r = CASE 16 * (b \div 16) = m[1] -> Done(cur + 1, b % 16)
            [] b = m[2] -> Size8(buf, cur)
            [] b = m[3] -> Size16(buf, cur)
            [] b = m[4] -> Size32(buf, cur)
            [] OTHER    -> Failed(cur + 1)
  BY <1>1, <1>2, <1>3, Zenon
<1>5. /\ b \in 0 .. 255
      /\ m[1] \in {128, 144, 160}
      /\ m[2] \in {208, 212, 216} /\ m[3] = m[2] + 1 /\ m[4] = m[2] + 2
  BY MarkersApart DEF Byte
<1> DEFINE m1 == m[1]
           m2 == m[2]
           m3 == m[3]
           m4 == m[4]
<1>6. /\ 16 * (b \div 16) = m1 <=> b \in m1 .. m1 + 15
      /\ b \in m1 .. m1 + 15 => b % 16 = b - m1
  BY <1>5
<1>7. b \in m1 .. m1 + 15 => r = Done(cur + 1, b - m1)
  <2> SUFFICES ASSUME b \in m1 .. m1 + 15 PROVE r = Done(cur + 1, b % 16)
    BY <1>6
  <2>1. 16 * (b \div 16) = m1 /\ b # m2 /\ b # m3 /\ b # m4
    BY <1>5, <1>6
  <2> QED
    BY <1>4, <2>1, Zenon
<1>8. b # m1 /\ 16 * (b \div 16) # m1 =>
        /\ b = m2 => r = Size8(buf, cur)
        /\ b = m3 => r = Size16(buf, cur)
        /\ b = m4 => r = Size32(buf, cur)
        /\ b \notin {m2, m3, m4} => r = Failed(cur + 1)
  <2> DEFINE q == 16 * (b \div 16)
  <2>1. r = CASE q = m1 -> Done(cur + 1, b % 16)
              [] b = m2 -> Size8(buf, cur)
              [] b = m3 -> Size16(buf, cur)
              [] b = m4 -> Size32(buf, cur)
              [] OTHER  -> Failed(cur + 1)
    BY <1>4
  <2>2. m2 # m3 /\ m2 # m4 /\ m3 # m4
    BY <1>5
  <2> HIDE DEF q, m1, m2, m3, m4
  <2> QED
    BY <2>1, <2>2 DEF q
<1>9. b \in {m2, m3, m4} => b \notin m1 .. m1 + 15
  BY <1>5
<1> QED
  BY <1>5, <1>6, <1>7, <1>8, <1>9 DEF r

(* The four forms of a size. *)
IsTinySize(n) == n <= MG_TINY_SIZE_MAX
Is8(n) == ~IsTinySize(n) /\ n <= UINT8_MAX
Is16(n) == ~IsTinySize(n) /\ ~Is8(n) /\ n <= UINT16_MAX
Is32(n) == ~IsTinySize(n) /\ ~Is8(n) /\ ~Is16(n)

LEMMA SizeWritten ==
  ASSUME NEW m, NEW n
  PROVE  LET e == mg_session_write_container_size(n, m) IN
         /\ IsTinySize(n) => e = <<m[1] + n>>
         /\ Is8(n) => e = <<m[2]>> \o <<n>>
         /\ Is16(n) => e = <<m[3]>> \o htobe16(n)
         /\ Is32(n) => e = <<m[4]>> \o htobe32(n)
<1>1. <<m[2], n>> = <<m[2]>> \o <<n>>
  BY SMT
<1> QED
  BY <1>1, Zenon DEF mg_session_write_container_size, IsTinySize, Is8, Is16, Is32

(* Sizes in one, in two and in four bytes. *)
LEMMA SizeBytes ==
  ASSUME NEW n \in Nat, n <= Huge
  PROVE  /\ IsTinySize(n) => n \in 0 .. 15
         /\ Is8(n) => <<n>> \in Seq(Byte)
         /\ Is16(n) => htobe16(n) \in Seq(Byte) /\ be16toh(htobe16(n)) = n
         /\ Len(htobe16(n)) = 2
         /\ htobe32(n) \in Seq(Byte) /\ Len(htobe32(n)) = 4
         /\ be32toh(htobe32(n)) = n
<1>1. n <= 2147483647
  BY SMT DEF Huge
<1>2. n <= 65535 => /\ n \div 256 \in 0 .. 255 /\ n % 256 \in 0 .. 255
                    /\ (n \div 256) * 256 + (n % 256) = n
  BY SMT
<1> DEFINE a == n \div 16777216
           b == (n \div 65536) % 256
           c == (n \div 256) % 256
           d == n % 256
<1>3. a \in Nat /\ a <= 127
  BY <1>1, SMT
<1>4. b \in 0 .. 255 /\ c \in 0 .. 255 /\ d \in 0 .. 255
  BY SMT
<1>5. a * 16777216 + b * 65536 + c * 256 + d = n
  <2> DEFINE x == n \div 256
             y == n \div 65536
  <2>1. x \in Nat /\ y \in Nat /\ n = 256 * x + d /\ x = 256 * y + c /\ y = 256 * a + b
    BY SMT
  <2> HIDE DEF a, b, c, d, x, y
  <2> QED
    BY <1>3, <1>4, <2>1, SMT
<1>6. n <= 255 => <<n>> \in Seq(Byte)
  BY SMT DEF Byte
<1>7. Len(htobe16(n)) = 2 /\ Len(htobe32(n)) = 4
  BY SMT DEF htobe16, htobe32
<1>8. n <= 65535 => htobe16(n) \in Seq(Byte) /\ be16toh(htobe16(n)) = n
  BY <1>2, SMT DEF htobe16, be16toh, Byte
<1>9. htobe32(n) = <<a, b, c, d>>
  BY SMT DEF htobe32
<1> HIDE DEF a, b, c, d
<1>10. <<a, b, c, d>> \in Seq(Byte)
  BY <1>3, <1>4, SMT DEF Byte
<1>11. be32toh(<<a, b, c, d>>) = n
  BY <1>3, <1>4, <1>5, SMT DEF be32toh
<1>12. /\ IsTinySize(n) => n \in 0 .. 15
       /\ Is8(n) => n <= 255
       /\ Is16(n) => n <= 65535
  BY SMT DEF IsTinySize, Is8, Is16, MG_TINY_SIZE_MAX, UINT8_MAX, UINT16_MAX
<1>13. Is16(n) => htobe16(n) \in Seq(Byte) /\ be16toh(htobe16(n)) = n
  BY <1>8, <1>12, SMT
<1>14. Is8(n) => <<n>> \in Seq(Byte)
  BY <1>6, <1>12, SMT
<1>15. htobe32(n) \in Seq(Byte) /\ be32toh(htobe32(n)) = n
  BY <1>9, <1>10, <1>11, Zenon
<1> QED
  BY <1>7, <1>12, <1>13, <1>14, <1>15

(* Every size below 2^31 is read back by mg_session_read_container_size,   *)
(* whichever of its four forms mg_session_write_container_size chose.      *)
THEOREM SizeRoundTrip ==
  ASSUME NEW buf \in Seq(Byte), NEW cur \in Nat,
         NEW m \in SizeMarkers, NEW n \in Nat, n <= Huge,
         Holds(buf, cur, mg_session_write_container_size(n, m))
  PROVE  mg_session_read_container_size(buf, cur, m)
           = Done(cur + Len(mg_session_write_container_size(n, m)), n)
<1> DEFINE e == mg_session_write_container_size(n, m)
           r == mg_session_read_container_size(buf, cur, m)
<1>2. /\ m[1] \in {128, 144, 160}
      /\ m[2] \in {208, 212, 216} /\ m[3] = m[2] + 1 /\ m[4] = m[2] + 2
  BY MarkersApart
<1>3. m[1] \in Byte /\ m[2] \in Byte /\ m[3] \in Byte /\ m[4] \in Byte
  BY MarkerBytes, Zenon
<1>4. CASE IsTinySize(n)
  <2> DEFINE k == m[1]
             b == k + n
  <2>1. n \in 0 .. 15 /\ k \in {128, 144, 160}
    BY <1>2, <1>4, SizeBytes, Zenon
  <2>2. b \in Byte /\ b \in k .. k + 15 /\ b - k = n
    <3> HIDE DEF k
    <3> QED
      BY <2>1, SMT DEF Byte
  <2>3. e = <<b>>
    BY <1>4, SizeWritten, Zenon
  <2> HIDE DEF b
  <2>4. <<b>> \in Seq(Byte) /\ Len(<<b>>) = 1
    BY <2>2, SMT
  <2>5. ReadBytes(buf, cur, Len(<<b>>)) = Done(cur + Len(<<b>>), <<b>>)
    BY <2>3, <2>4, BytesRead, Zenon
  <2>6. ReadBytes(buf, cur, 1) = Done(cur + 1, <<b>>)
    BY <2>4, <2>5, Zenon
  <2>7. r = Done(cur + 1, b - m[1])
    BY <2>2, <2>6, SizeByMarker, Zenon
  <2> QED
    BY <2>2, <2>3, <2>4, <2>7, Zenon
<1>5. ASSUME NEW b \in Byte, NEW d \in Seq(Byte), e = <<b>> \o d
      PROVE  /\ ReadBytes(buf, cur, 1) = Done(cur + 1, <<b>>)
             /\ ReadBytes(buf, cur + 1, Len(d)) = Done((cur + 1) + Len(d), d)
             /\ (cur + 1) + Len(d) = cur + Len(e)
  <2>1. Holds(buf, cur, <<b>> \o d)
    BY <1>5, Zenon
  <2>2. /\ ReadBytes(buf, cur, 1) = Done(cur + 1, <<b>>)
        /\ ReadBytes(buf, cur + 1, Len(d)) = Done((cur + 1) + Len(d), d)
        /\ Len(<<b>> \o d) = 1 + Len(d)
    BY <2>1, MarkerAndRest, Zenon
  <2>3. Len(e) = 1 + Len(d)
    BY <1>5, <2>2, Zenon
  <2> HIDE DEF e
  <2>4. (cur + 1) + Len(d) = cur + Len(e)
    BY <2>3
  <2> QED
    BY <2>2, <2>4
<1>6. ASSUME NEW c, NEW d, NEW k
      PROVE  SizeOf(Done(c, d), k) = Done(c, k)
  BY DEF SizeOf, Done
<1>7. ASSUME NEW c, NEW d PROVE Done(c, d).v = d
  BY DEF Done
<1>8. CASE Is8(n)
  <2> DEFINE d == <<n>>
  <2>1. e = <<m[2]>> \o d /\ d \in Seq(Byte) /\ Len(d) = 1 /\ d[1] = n
    <3>1. e = <<m[2]>> \o d /\ d \in Seq(Byte)
      BY <1>8, SizeWritten, SizeBytes, Zenon
    <3>2. Len(d) = 1 /\ d[1] = n
      BY SMT
    <3> QED
      BY <3>1, <3>2
  <2> HIDE DEF d
  <2>2. /\ ReadBytes(buf, cur, 1) = Done(cur + 1, <<m[2]>>)
        /\ ReadBytes(buf, cur + 1, 1) = Done(cur + Len(e), d)
    BY <1>3, <1>5, <2>1, Zenon
  <2>3. r = Size8(buf, cur)
    BY <1>3, <2>2, SizeByMarker, Zenon
  <2>4. r = SizeOf(Done(cur + Len(e), d), Done(cur + Len(e), d).v[1])
    BY <2>2, <2>3, Zenon DEF Size8
  <2>5. r = Done(cur + Len(e), d[1])
    <3>1. Done(cur + Len(e), d).v = d
      BY <1>7, Zenon
    <3>2. r = SizeOf(Done(cur + Len(e), d), d[1])
      BY <2>4, <3>1, Zenon
    <3> QED
      BY <1>6, <3>2, Zenon
  <2> QED
    BY <2>1, <2>5, Zenon
<1>9. CASE Is16(n)
  <2> DEFINE d == htobe16(n)
  <2>1. e = <<m[3]>> \o d /\ d \in Seq(Byte) /\ Len(d) = 2 /\ be16toh(d) = n
    BY <1>9, SizeWritten, SizeBytes, Zenon
  <2> HIDE DEF d
  <2>2. /\ ReadBytes(buf, cur, 1) = Done(cur + 1, <<m[3]>>)
        /\ ReadBytes(buf, cur + 1, 2) = Done(cur + Len(e), d)
    BY <1>3, <1>5, <2>1, Zenon
  <2>3. r = Size16(buf, cur)
    BY <1>3, <2>2, SizeByMarker, Zenon
  <2>4. r = SizeOf(Done(cur + Len(e), d), be16toh(Done(cur + Len(e), d).v))
    BY <2>2, <2>3, Zenon DEF Size16
  <2>5. r = Done(cur + Len(e), be16toh(d))
    BY <1>6, <1>7, <2>4, Zenon
  <2> QED
    BY <2>1, <2>5, Zenon
<1>10. CASE Is32(n)
  <2> DEFINE d == htobe32(n)
  <2>1. e = <<m[4]>> \o d /\ d \in Seq(Byte) /\ Len(d) = 4 /\ be32toh(d) = n
    BY <1>10, SizeWritten, SizeBytes, Zenon
  <2> HIDE DEF d
  <2>2. /\ ReadBytes(buf, cur, 1) = Done(cur + 1, <<m[4]>>)
        /\ ReadBytes(buf, cur + 1, 4) = Done(cur + Len(e), d)
    BY <1>3, <1>5, <2>1, Zenon
  <2>3. r = Size32(buf, cur)
    BY <1>3, <2>2, SizeByMarker, Zenon
  <2>4. r = SizeOf(Done(cur + Len(e), d), be32toh(Done(cur + Len(e), d).v))
    BY <2>2, <2>3, Zenon DEF Size32
  <2>5. r = Done(cur + Len(e), be32toh(d))
    BY <1>6, <1>7, <2>4, Zenon
  <2> QED
    BY <2>1, <2>5, Zenon
<1> QED
  BY <1>4, <1>8, <1>9, <1>10, Zenon DEF Is32

----------------------------------------------------------------------------
(* Strings. *)

LEMMA StringIsMarked == Markers.STRING \in SizeMarkers
BY Zenon DEF SizeMarkers

LEMMA SizeIsBytes ==
  ASSUME NEW m \in SizeMarkers, NEW n \in Nat, n <= Huge
  PROVE  /\ mg_session_write_container_size(n, m) \in Seq(Byte)
         /\ Len(mg_session_write_container_size(n, m)) >= 1
<1> DEFINE e == mg_session_write_container_size(n, m)
<1>1. m[2] \in Byte /\ m[3] \in Byte /\ m[4] \in Byte
  BY MarkerBytes, Zenon
<1>2. ASSUME NEW b \in Byte, NEW d \in Seq(Byte), e = <<b>> \o d
      PROVE  e \in Seq(Byte) /\ Len(e) >= 1
  <2> HIDE DEF e
  <2> QED
    BY <1>2
<1>3. CASE IsTinySize(n)
  <2> DEFINE k == m[1]
  <2>1. n \in 0 .. 15 /\ k \in {128, 144, 160}
    <3>1. n \in 0 .. 15
      BY <1>3, SizeBytes, Zenon
    <3>2. k \in {128, 144, 160}
      BY MarkersApart
    <3> QED
      BY <3>1, <3>2
  <2>2. e = <<k + n>>
    BY <1>3, SizeWritten, Zenon
  <2> HIDE DEF k, e
  <2>3. k + n \in Byte
    BY <2>1, SMT DEF Byte
  <2>4. e \in Seq(Byte) /\ Len(e) >= 1
    BY <2>2, <2>3, SMT
  <2> QED
    BY <2>4 DEF e
<1>4. CASE Is8(n)
  <2>1. e = <<m[2]>> \o <<n>>
    BY <1>4, SizeWritten, Zenon
  <2>2. <<n>> \in Seq(Byte)
    BY <1>4, SizeBytes, Zenon
  <2> QED
    BY <1>1, <1>2, <2>1, <2>2, Zenon
<1>5. CASE Is16(n)
  <2>1. e = <<m[3]>> \o htobe16(n)
    BY <1>5, SizeWritten, Zenon
  <2>2. htobe16(n) \in Seq(Byte)
    BY <1>5, SizeBytes, Zenon
  <2> QED
    BY <1>1, <1>2, <2>1, <2>2, Zenon
<1>6. CASE Is32(n)
  <2>1. e = <<m[4]>> \o htobe32(n)
    BY <1>6, SizeWritten, Zenon
  <2>2. htobe32(n) \in Seq(Byte)
    BY <1>6, SizeBytes, Zenon
  <2> QED
    BY <1>1, <1>2, <2>1, <2>2, Zenon
<1> QED
  BY <1>3, <1>4, <1>5, <1>6, Zenon DEF Is32

(* Every string shorter than 2^31 bytes is read back, whatever its bytes:  *)
(* mg_session_read_string compares its end with the end of the message and *)
(* mg_session_write_string2 wrote it with its size ahead.                  *)
THEOREM StringRoundTrip ==
  ASSUME NEW buf \in Seq(Byte), NEW cur \in Nat,
         NEW s \in Seq(Byte), Len(s) <= Huge,
         Holds(buf, cur, mg_session_write_string(s))
  PROVE  mg_session_read_string(buf, cur)
           = Done(cur + Len(mg_session_write_string(s)), s)
<1> DEFINE m == Markers.STRING
           h == mg_session_write_container_size(Len(s), m)
           size == mg_session_read_container_size(buf, cur, m)
           c == cur + Len(h)
<1>1. Len(s) \in Nat /\ m \in SizeMarkers
  BY StringIsMarked
<1>2. h \in Seq(Byte)
  BY <1>1, SizeIsBytes, Zenon
<1>3. mg_session_write_string(s) = h \o s
  BY Zenon DEF mg_session_write_string
<1> HIDE DEF h, m
<1>4. /\ Len(h \o s) = Len(h) + Len(s) /\ c \in Nat
      /\ Holds(buf, cur, h) /\ Holds(buf, c, s)
  BY <1>2, <1>3, HoldsParts
<1>5. size = Done(c, Len(s))
  BY <1>1, <1>4, SizeRoundTrip, Zenon DEF h
<1>6. At(buf, c, Len(s)) = s
  BY <1>4, BytesRead, Zenon
<1>7. c + Len(s) <= Len(buf)
  BY <1>4, Zenon DEF Holds
<1>8. ~(Len(s) > Len(buf) - c) /\ c + Len(s) = cur + (Len(h) + Len(s))
  <2>1. Len(buf) \in Nat /\ Len(h) \in Nat
    BY <1>2
  <2> QED
    BY <1>1, <1>4, <1>7, <2>1
<1>9. size.ok = TRUE /\ size.cursor = c /\ size.v = Len(s)
  BY <1>5 DEF Done
<1>10. mg_session_read_string(buf, cur) =
         IF ~size.ok \/ size.v > Len(buf) - size.cursor THEN Failed(size.cursor)
         ELSE Done(size.cursor + size.v, At(buf, size.cursor, size.v))
  BY Zenon DEF mg_session_read_string, m
<1> HIDE DEF size, c
<1>11. mg_session_read_string(buf, cur) = Done(c + Len(s), At(buf, c, Len(s)))
  BY <1>8, <1>9, <1>10, Zenon
<1> QED
  BY <1>3, <1>4, <1>6, <1>8, <1>11, Zenon

----------------------------------------------------------------------------
(* Any bytes, whoever sent them. *)

(* The two outcomes of reading w bytes. *)
LEMMA ReadBytesResult ==
  ASSUME NEW buf \in Seq(Byte), NEW cur \in 0 .. Len(buf), NEW w \in Nat \ {0}
  PROVE  LET r == ReadBytes(buf, cur, w) IN
         \/ cur + w > Len(buf) /\ r = Failed(cur)
         \/ cur + w <= Len(buf) /\ r = Done(cur + w, At(buf, cur, w))
<1>1. Len(buf) \in Nat
  OBVIOUS
<1> QED
  BY <1>1 DEF ReadBytes

(* A marker is there, and is a byte, or the message ends. *)
LEMMA MarkerResult ==
  ASSUME NEW buf \in Seq(Byte), NEW cur \in 0 .. Len(buf)
  PROVE  \/ ReadBytes(buf, cur, 1) = Failed(cur)
         \/ /\ cur + 1 \in 0 .. Len(buf)
            /\ \E b \in Byte : ReadBytes(buf, cur, 1) = Done(cur + 1, <<b>>)
<1>1. Len(buf) \in Nat /\ cur \in Nat
  OBVIOUS
<1>2. CASE cur + 1 > Len(buf)
  BY <1>1, <1>2, ReadBytesResult
<1>3. CASE cur + 1 <= Len(buf)
  <2>1. ReadBytes(buf, cur, 1) = Done(cur + 1, At(buf, cur, 1))
    BY <1>1, <1>3, ReadBytesResult
  <2>2. buf[cur + 1] \in Byte
    BY <1>1, <1>3
  <2>3. At(buf, cur, 1) = <<buf[cur + 1]>>
    BY <1>1, <1>3, <2>2 DEF At
  <2>4. cur + 1 \in 0 .. Len(buf)
    BY <1>1, <1>3
  <2> QED
    BY <2>1, <2>2, <2>3, <2>4, Zenon
<1>4. cur + 1 > Len(buf) \/ cur + 1 <= Len(buf)
  BY <1>1
<1> QED
  BY <1>2, <1>3, <1>4, Zenon

(* Without a marker there is nothing. *)
LEMMA NoMarker ==
  ASSUME NEW buf, NEW cur, ReadBytes(buf, cur, 1) = Failed(cur)
  PROVE  /\ mg_session_read_integer(buf, cur) = Failed(cur)
         /\ mg_session_read_float(buf, cur) = Failed(cur)
         /\ \A m : mg_session_read_container_size(buf, cur, m) = Failed(cur)
<1>1. ReadBytes(buf, cur, 1).ok = FALSE
  BY DEF Failed
<1>2. mg_session_read_integer(buf, cur) = Failed(cur)
  BY <1>1, Zenon DEF mg_session_read_integer
<1>3. mg_session_read_float(buf, cur) = Failed(cur)
  BY <1>1, Zenon DEF mg_session_read_float
<1>4. ASSUME NEW m PROVE mg_session_read_container_size(buf, cur, m) = Failed(cur)
  BY <1>1, Zenon DEF mg_session_read_container_size
<1> QED
  BY <1>2, <1>3, <1>4

(* in_cursor moves on, and not past the end of the message. *)
Within(r, buf, cur) ==
  /\ r.ok \in BOOLEAN
  /\ r.cursor \in cur .. Len(buf)
  /\ r.ok => cur < r.cursor

LEMMA FailedWithin ==
  ASSUME NEW buf \in Seq(Byte), NEW cur \in 0 .. Len(buf)
  PROVE  Within(Failed(cur), buf, cur)
<1>1. Len(buf) \in Nat
  OBVIOUS
<1> QED
  BY <1>1 DEF Within, Failed

LEMMA DoneWithin ==
  ASSUME NEW buf \in Seq(Byte), NEW cur \in 0 .. Len(buf), NEW v,
         NEW c \in cur + 1 .. Len(buf)
  PROVE  Within(Done(c, v), buf, cur)
<1>1. Len(buf) \in Nat
  OBVIOUS
<1> QED
  BY <1>1 DEF Within, Done

(* Behind a marker: w bytes, or a failure. *)
LEMMA RestWithin ==
  ASSUME NEW buf \in Seq(Byte), NEW cur \in 0 .. Len(buf),
         cur + 1 \in 0 .. Len(buf), NEW w \in Nat \ {0}
  PROVE  LET r == ReadBytes(buf, cur + 1, w) IN
         /\ r.ok \in BOOLEAN
         /\ Within(r, buf, cur)
         /\ \A v : Within(Done(r.cursor, v), buf, cur)
<1> DEFINE r == ReadBytes(buf, cur + 1, w)
           n == Len(buf)
<1>1. n \in Nat /\ cur \in Nat
  OBVIOUS
<1>2. CASE (cur + 1) + w > n /\ r = Failed(cur + 1)
  <2>1. r.ok = FALSE /\ r.cursor = cur + 1
    BY <1>2 DEF Failed
  <2>2. cur + 1 \in cur + 1 .. n /\ cur + 1 \in cur .. n
    BY <1>1
  <2>3. \A v : Within(Done(r.cursor, v), buf, cur)
    BY <2>1, <2>2, DoneWithin, Zenon
  <2> HIDE DEF r, n
  <2> QED
    BY <2>1, <2>2, <2>3, Zenon DEF Within, r, n
<1>3. CASE (cur + 1) + w <= n /\ r = Done((cur + 1) + w, At(buf, cur + 1, w))
  <2>1. r.ok = TRUE /\ r.cursor = (cur + 1) + w
    BY <1>3 DEF Done
  <2>2. (cur + 1) + w \in cur + 1 .. n
    BY <1>1, <1>3
  <2>3. \A v : Within(Done((cur + 1) + w, v), buf, cur)
    BY <2>2, DoneWithin, Zenon
  <2> QED
    BY <1>3, <2>1, <2>3, Zenon
<1> QED
  BY <1>1, <1>2, <1>3, ReadBytesResult, Zenon

(* The marker b comes next. *)
Marked(buf, cur, b) == ReadBytes(buf, cur, 1) = Done(cur + 1, <<b>>)

(* The first byte alone decides which form an integer has. *)
LEMMA IntegerForms ==
  ASSUME NEW b \in Byte
  PROVE  \/ \E v : \A buf, cur : Marked(buf, cur, b) =>
              mg_session_read_integer(buf, cur) = Done(cur + 1, v)
         \/ \E w \in {1, 2, 4, 8} : \A buf, cur : Marked(buf, cur, b) =>
              mg_session_read_integer(buf, cur) = AfterMarker(buf, cur, w)
         \/ \A buf, cur : Marked(buf, cur, b) =>
              mg_session_read_integer(buf, cur) = Failed(cur + 1)
<1> DEFINE R(buf, cur) == mg_session_read_integer(buf, cur)
<1>1. \A buf, cur : Marked(buf, cur, b) =>
        /\ b < 128 => R(buf, cur) = Done(cur + 1, Extended(<<0, b>>))
        /\ b >= 240 => R(buf, cur) = Done(cur + 1, Extended(<<b>>))
        /\ b = 200 => R(buf, cur) = AfterMarker(buf, cur, 1)
        /\ b = 201 => R(buf, cur) = AfterMarker(buf, cur, 2)
        /\ b = 202 => R(buf, cur) = AfterMarker(buf, cur, 4)
        /\ b = 203 => R(buf, cur) = AfterMarker(buf, cur, 8)
        /\ b \in 128 .. 239 \ {200, 201, 202, 203} => R(buf, cur) = Failed(cur + 1)
  BY IntegerByMarker DEF Marked
<1> DEFINE p1 == b < 128
           p2 == b >= 240
           p3 == b = 200
           p4 == b = 201
           p5 == b = 202
           p6 == b = 203
           p7 == b \in 128 .. 239 \ {200, 201, 202, 203}
<1>2. p1 \/ p2 \/ p3 \/ p4 \/ p5 \/ p6 \/ p7
  BY DEF Byte
<1> HIDE DEF R, p1, p2, p3, p4, p5, p6, p7
<1>3. \A buf, cur : Marked(buf, cur, b) =>
        /\ p1 => R(buf, cur) = Done(cur + 1, Extended(<<0, b>>))
        /\ p2 => R(buf, cur) = Done(cur + 1, Extended(<<b>>))
        /\ p3 => R(buf, cur) = AfterMarker(buf, cur, 1)
        /\ p4 => R(buf, cur) = AfterMarker(buf, cur, 2)
        /\ p5 => R(buf, cur) = AfterMarker(buf, cur, 4)
        /\ p6 => R(buf, cur) = AfterMarker(buf, cur, 8)
        /\ p7 => R(buf, cur) = Failed(cur + 1)
  BY <1>1 DEF p1, p2, p3, p4, p5, p6, p7
<1>4. CASE p1
  <2>1. \A buf, cur : Marked(buf, cur, b) =>
          mg_session_read_integer(buf, cur) = Done(cur + 1, Extended(<<0, b>>))
    BY <1>3, <1>4, Zenon DEF R
  <2> QED
    BY <2>1, Zenon
<1>5. CASE p2
  <2>1. \A buf, cur : Marked(buf, cur, b) =>
          mg_session_read_integer(buf, cur) = Done(cur + 1, Extended(<<b>>))
    BY <1>3, <1>5, Zenon DEF R
  <2> QED
    BY <2>1, Zenon
<1>6. CASE p3
  BY <1>3, <1>6, Zenon DEF R
<1>7. CASE p4
  BY <1>3, <1>7, Zenon DEF R
<1>8. CASE p5
  BY <1>3, <1>8, Zenon DEF R
<1>9. CASE p6
  BY <1>3, <1>9, Zenon DEF R
<1>10. CASE p7
  <2>1. \A buf, cur : Marked(buf, cur, b) =>
          mg_session_read_integer(buf, cur) = Failed(cur + 1)
    BY <1>3, <1>10, Zenon DEF R
  <2> QED
    BY <2>1, Zenon
<1> QED
  BY <1>2, <1>4, <1>5, <1>6, <1>7, <1>8, <1>9, <1>10, Zenon

LEMMA FloatForms ==
  ASSUME NEW b \in Byte
  PROVE  \/ \A buf, cur : Marked(buf, cur, b) =>
              mg_session_read_float(buf, cur) = ReadBytes(buf, cur + 1, 8)
         \/ \A buf, cur : Marked(buf, cur, b) =>
              mg_session_read_float(buf, cur) = Failed(cur + 1)
<1>1. \A buf, cur : Marked(buf, cur, b) =>
        /\ b = 193 => mg_session_read_float(buf, cur) = ReadBytes(buf, cur + 1, 8)
        /\ b # 193 => mg_session_read_float(buf, cur) = Failed(cur + 1)
  BY FloatByMarker DEF Marked
<1> DEFINE p == b = 193
<1>2. \A buf, cur : Marked(buf, cur, b) =>
        /\ p => mg_session_read_float(buf, cur) = ReadBytes(buf, cur + 1, 8)
        /\ ~p => mg_session_read_float(buf, cur) = Failed(cur + 1)
  BY <1>1, SMT
<1> HIDE DEF p
<1>3. CASE p
  BY <1>2, <1>3, Zenon
<1>4. CASE ~p
  BY <1>2, <1>4, Zenon
<1> QED
  BY <1>3, <1>4

LEMMA SizeForms ==
  ASSUME NEW b \in Byte, NEW m \in SizeMarkers
  PROVE  \/ \E v \in Nat : \A buf, cur : Marked(buf, cur, b) =>
              mg_session_read_container_size(buf, cur, m) = Done(cur + 1, v)
         \/ \A buf, cur : Marked(buf, cur, b) =>
              mg_session_read_container_size(buf, cur, m) = Size8(buf, cur)
         \/ \A buf, cur : Marked(buf, cur, b) =>
              mg_session_read_container_size(buf, cur, m) = Size16(buf, cur)
         \/ \A buf, cur : Marked(buf, cur, b) =>
              mg_session_read_container_size(buf, cur, m) = Size32(buf, cur)
         \/ \A buf, cur : Marked(buf, cur, b) =>
              mg_session_read_container_size(buf, cur, m) = Failed(cur + 1)
<1> DEFINE R(buf, cur) == mg_session_read_container_size(buf, cur, m)
           p1 == b \in m[1] .. m[1] + 15
           p2 == b = m[2]
           p3 == b = m[3]
           p4 == b = m[4]
           n == b - m[1]
<1>1. ASSUME NEW buf, NEW cur, Marked(buf, cur, b)
      PROVE  /\ p1 => R(buf, cur) = Done(cur + 1, n)
             /\ p2 => R(buf, cur) = Size8(buf, cur)
             /\ p3 => R(buf, cur) = Size16(buf, cur)
             /\ p4 => R(buf, cur) = Size32(buf, cur)
             /\ ~p1 /\ ~p2 /\ ~p3 /\ ~p4 => R(buf, cur) = Failed(cur + 1)
  <2>1. ReadBytes(buf, cur, 1) = Done(cur + 1, <<b>>)
    BY <1>1 DEF Marked
  <2>2. ~p1 /\ ~p2 /\ ~p3 /\ ~p4
          => b \notin (m[1] .. m[1] + 15) \union {m[2], m[3], m[4]}
    BY Zenon
  <2> QED
    BY <2>1, <2>2, SizeByMarker, Zenon
<1>2. p1 => n \in Nat
  BY MarkersApart DEF Byte
<1> HIDE DEF R, p1, p2, p3, p4, n
<1>3. CASE p1
  <2>1. \A buf, cur : Marked(buf, cur, b) =>
          mg_session_read_container_size(buf, cur, m) = Done(cur + 1, n)
    BY <1>1, <1>3, Zenon DEF R
  <2> QED
    BY <1>2, <1>3, <2>1, Zenon
<1>4. CASE p2
  BY <1>1, <1>4, Zenon DEF R
<1>5. CASE p3
  BY <1>1, <1>5, Zenon DEF R
<1>6. CASE p4
  BY <1>1, <1>6, Zenon DEF R
<1>7. CASE ~p1 /\ ~p2 /\ ~p3 /\ ~p4
  <2>1. \A buf, cur : Marked(buf, cur, b) =>
          mg_session_read_container_size(buf, cur, m) = Failed(cur + 1)
    BY <1>1, <1>7, Zenon DEF R
  <2> QED
    BY <2>1, Zenon
<1> QED
  BY <1>3, <1>4, <1>5, <1>6, <1>7, Zenon

LEMMA IntegerWithin ==
  ASSUME NEW buf \in Seq(Byte), NEW cur \in 0 .. Len(buf)
  PROVE  Within(mg_session_read_integer(buf, cur), buf, cur)
<1>1. CASE ReadBytes(buf, cur, 1) = Failed(cur)
  BY <1>1, NoMarker, FailedWithin, Zenon
<1>2. ASSUME cur + 1 \in 0 .. Len(buf),
             NEW b \in Byte, ReadBytes(buf, cur, 1) = Done(cur + 1, <<b>>)
      PROVE  Within(mg_session_read_integer(buf, cur), buf, cur)
  <2>1. Marked(buf, cur, b)
    BY <1>2, Zenon DEF Marked
  <2>2. cur + 1 \in cur + 1 .. Len(buf)
    BY <1>2
  <2>3. Within(Failed(cur + 1), buf, cur)
    BY <1>2 DEF Within, Failed
  <2>4. \A v : Within(Done(cur + 1, v), buf, cur)
    BY <2>2, DoneWithin, Zenon
  <2>5. ASSUME NEW w \in {1, 2, 4, 8}
        PROVE  Within(AfterMarker(buf, cur, w), buf, cur)
    <3>1. w \in Nat \ {0}
      OBVIOUS
    <3>2. /\ Within(ReadBytes(buf, cur + 1, w), buf, cur)
          /\ \A v : Within(Done(ReadBytes(buf, cur + 1, w).cursor, v), buf, cur)
      BY <1>2, <3>1, RestWithin, Zenon
    <3> QED
      BY <3>2, Zenon DEF AfterMarker, IntegerAfter
  <2> QED
    BY <2>1, <2>3, <2>4, <2>5, IntegerForms, Zenon
<1> QED
  BY <1>1, <1>2, MarkerResult, Zenon

LEMMA FloatWithin ==
  ASSUME NEW buf \in Seq(Byte), NEW cur \in 0 .. Len(buf)
  PROVE  Within(mg_session_read_float(buf, cur), buf, cur)
<1>1. CASE ReadBytes(buf, cur, 1) = Failed(cur)
  BY <1>1, NoMarker, FailedWithin, Zenon
<1>2. ASSUME cur + 1 \in 0 .. Len(buf),
             NEW b \in Byte, ReadBytes(buf, cur, 1) = Done(cur + 1, <<b>>)
      PROVE  Within(mg_session_read_float(buf, cur), buf, cur)
  <2>1. Marked(buf, cur, b)
    BY <1>2, Zenon DEF Marked
  <2>2. Within(Failed(cur + 1), buf, cur)
    BY <1>2 DEF Within, Failed
  <2>3. 8 \in Nat \ {0}
    OBVIOUS
  <2>4. Within(ReadBytes(buf, cur + 1, 8), buf, cur)
    BY <1>2, <2>3, RestWithin, Zenon
  <2> QED
    BY <2>1, <2>2, <2>4, FloatForms, Zenon
<1> QED
  BY <1>1, <1>2, MarkerResult, Zenon

(* The bytes read are bytes, so a size is a number. *)
LEMMA AtBytes ==
  ASSUME NEW buf \in Seq(Byte), NEW c \in Nat, NEW w \in Nat, NEW i \in 1 .. w
  PROVE  At(buf, c, w)[i] \in Byte
<1>1. Len(buf) \in Nat
  OBVIOUS
<1>2. CASE c + i <= Len(buf)
  <2>1. buf[c + i] \in Byte
    BY <1>1, <1>2
  <2> QED
    BY <1>2, <2>1 DEF At
<1>3. CASE ~(c + i <= Len(buf))
  BY <1>3 DEF At, Byte
<1> QED
  BY <1>2, <1>3

LEMMA SizeIsNat ==
  ASSUME NEW buf \in Seq(Byte), NEW c \in Nat
  PROVE  /\ At(buf, c, 1)[1] \in Nat
         /\ be16toh(At(buf, c, 2)) \in Nat
         /\ be32toh(At(buf, c, 4)) \in Nat
<1>1. At(buf, c, 1)[1] \in Byte
  BY AtBytes
<1> DEFINE d == At(buf, c, 2)
           e == At(buf, c, 4)
<1>2. d[1] \in Byte /\ d[2] \in Byte
  BY AtBytes
<1>3. e[1] \in Byte /\ e[2] \in Byte /\ e[3] \in Byte /\ e[4] \in Byte
  BY AtBytes
<1>4. \A x \in Byte : x \in Nat
  BY DEF Byte
<1>5. be16toh(d) \in Nat
  <2> DEFINE x == d[1]
             y == d[2]
  <2>1. x \in Nat /\ y \in Nat
    BY <1>2, <1>4, Zenon
  <2> HIDE DEF x, y
  <2>2. x * 256 + y \in Nat
    BY <2>1, SMT
  <2> QED
    BY <2>2, Zenon DEF be16toh, x, y
<1>6. be32toh(e) \in Nat
  <2> DEFINE x == e[1]
             y == e[2]
             z == e[3]
             u == e[4]
  <2>1. x \in Nat /\ y \in Nat /\ z \in Nat /\ u \in Nat
    BY <1>3, <1>4, Zenon
  <2>2. be32toh(e) = IF x >= 128 THEN Huge ELSE x * 16777216 + y * 65536 + z * 256 + u
    BY SMT DEF be32toh
  <2> HIDE DEF x, y, z, u, e
  <2>3. x * 16777216 + y * 65536 + z * 256 + u \in Nat /\ Huge \in Nat
    BY <2>1, SMT DEF Huge
  <2> QED
    BY <2>2, <2>3, SMT
<1> QED
  BY <1>1, <1>4, <1>5, <1>6, Zenon

LEMMA SizeWithin ==
  ASSUME NEW buf \in Seq(Byte), NEW cur \in 0 .. Len(buf), NEW m \in SizeMarkers
  PROVE  LET r == mg_session_read_container_size(buf, cur, m) IN
         Within(r, buf, cur) /\ (r.ok => r.v \in Nat)
<1> DEFINE Good(r) == Within(r, buf, cur) /\ (r.ok => r.v \in Nat)
           R == mg_session_read_container_size(buf, cur, m)
<1>1. \A c : Failed(c).ok = FALSE
  BY DEF Failed
<1>2. CASE ReadBytes(buf, cur, 1) = Failed(cur)
  BY <1>1, <1>2, NoMarker, FailedWithin, Zenon
<1>3. ASSUME cur + 1 \in 0 .. Len(buf),
             NEW b \in Byte, ReadBytes(buf, cur, 1) = Done(cur + 1, <<b>>)
      PROVE  Good(R)
  <2>1. Marked(buf, cur, b)
    BY <1>3, Zenon DEF Marked
  <2>2. cur + 1 \in cur + 1 .. Len(buf) /\ cur + 1 \in Nat
    BY <1>3
  <2>3. Good(Failed(cur + 1))
    BY <1>3 DEF Within, Failed
  <2>4. \A v \in Nat : Good(Done(cur + 1, v))
    <3>1. \A v : Done(cur + 1, v).v = v
      BY DEF Done
    <3> QED
      BY <2>2, <3>1, DoneWithin, Zenon
  <2>5. ASSUME NEW w \in Nat \ {0}, NEW n,
               ReadBytes(buf, cur + 1, w).ok => n \in Nat
        PROVE  Good(SizeOf(ReadBytes(buf, cur + 1, w), n))
    <3> DEFINE r == ReadBytes(buf, cur + 1, w)
    <3>1. Within(r, buf, cur) /\ \A v : Within(Done(r.cursor, v), buf, cur)
      BY <1>3, RestWithin, Zenon
    <3>2. Done(r.cursor, n).v = n
      BY DEF Done
    <3> HIDE DEF r
    <3>3. r.ok => n \in Nat
      BY <2>5 DEF r
    <3>4. CASE r.ok
      BY <3>1, <3>2, <3>3, <3>4, Zenon DEF SizeOf, r
    <3>5. CASE ~r.ok
      BY <3>1, <3>5, Zenon DEF SizeOf, r
    <3> QED
      BY <3>4, <3>5
  <2>6. ASSUME NEW w \in Nat \ {0}, ReadBytes(buf, cur + 1, w).ok
        PROVE  ReadBytes(buf, cur + 1, w).v = At(buf, cur + 1, w)
    <3>1. ReadBytes(buf, cur + 1, w) \in {Failed(cur + 1), Done((cur + 1) + w, At(buf, cur + 1, w))}
      BY <1>3, ReadBytesResult, Zenon
    <3>2. ReadBytes(buf, cur + 1, w) # Failed(cur + 1)
      BY <1>1, <2>6, Zenon
    <3>3. ReadBytes(buf, cur + 1, w) = Done((cur + 1) + w, At(buf, cur + 1, w))
      BY <3>1, <3>2, Zenon
    <3> QED
      BY <3>3 DEF Done
  <2>7. 1 \in Nat \ {0} /\ 2 \in Nat \ {0} /\ 4 \in Nat \ {0}
    OBVIOUS
  <2>8. Good(Size8(buf, cur)) /\ Good(Size16(buf, cur)) /\ Good(Size32(buf, cur))
    <3>1. ReadBytes(buf, cur + 1, 1).ok => ReadBytes(buf, cur + 1, 1).v[1] \in Nat
      BY <2>2, <2>6, <2>7, SizeIsNat, Zenon
    <3>2. ReadBytes(buf, cur + 1, 2).ok => be16toh(ReadBytes(buf, cur + 1, 2).v) \in Nat
      BY <2>2, <2>6, <2>7, SizeIsNat, Zenon
    <3>3. ReadBytes(buf, cur + 1, 4).ok => be32toh(ReadBytes(buf, cur + 1, 4).v) \in Nat
      BY <2>2, <2>6, <2>7, SizeIsNat, Zenon
    <3> HIDE DEF Good
    <3>4. Good(Size8(buf, cur))
      BY <2>5, <2>7, <3>1, Zenon DEF Size8
    <3>5. Good(Size16(buf, cur))
      BY <2>5, <2>7, <3>2, Zenon DEF Size16
    <3>6. Good(Size32(buf, cur))
      BY <2>5, <2>7, <3>3, Zenon DEF Size32
    <3> QED
      BY <3>4, <3>5, <3>6
  <2> HIDE DEF Good
  <2> QED
    BY <2>1, <2>3, <2>4, <2>8, SizeForms, Zenon
<1> QED
  BY <1>2, <1>3, MarkerResult, Zenon

LEMMA StringWithin ==
  ASSUME NEW buf \in Seq(Byte), NEW cur \in 0 .. Len(buf)
  PROVE  Within(mg_session_read_string(buf, cur), buf, cur)
<1> DEFINE size == mg_session_read_container_size(buf, cur, Markers.STRING)
           n == Len(buf)
<1>1. mg_session_read_string(buf, cur) =
        IF ~size.ok \/ size.v > n - size.cursor THEN Failed(size.cursor)
        ELSE Done(size.cursor + size.v, At(buf, size.cursor, size.v))
  BY Zenon DEF mg_session_read_string
<1>2. Within(size, buf, cur) /\ (size.ok => size.v \in Nat)
  BY StringIsMarked, SizeWithin, Zenon
<1> HIDE DEF size
<1>3. n \in Nat /\ size.cursor \in cur .. n /\ (size.ok => cur < size.cursor)
  BY <1>2 DEF Within
<1>4. CASE ~size.ok \/ size.v > n - size.cursor
  <2>1. Within(Failed(size.cursor), buf, cur)
    BY <1>3 DEF Within, Failed
  <2> QED
    BY <1>1, <1>4, <2>1, Zenon
<1>5. CASE size.ok /\ ~(size.v > n - size.cursor)
  <2>1. size.cursor + size.v \in cur + 1 .. n
    BY <1>2, <1>3, <1>5
  <2> QED
    BY <1>1, <1>5, <2>1, DoneWithin, Zenon
<1> QED
  BY <1>4, <1>5, Zenon

(* Whatever bytes the message has, reading a number, a size or a string    *)
(* from it leaves in_cursor inside the message and, when it succeeds,      *)
(* further on: no announced size takes the decoder past in_end.            *)
THEOREM ScalarsStayInMessage ==
  ASSUME NEW buf \in Seq(Byte), NEW cur \in 0 .. Len(buf)
  PROVE  /\ Within(mg_session_read_integer(buf, cur), buf, cur)
         /\ Within(mg_session_read_float(buf, cur), buf, cur)
         /\ \A m \in SizeMarkers :
              Within(mg_session_read_container_size(buf, cur, m), buf, cur)
         /\ Within(mg_session_read_string(buf, cur), buf, cur)
BY IntegerWithin, FloatWithin, SizeWithin, StringWithin

----------------------------------------------------------------------------
(* A message and one that goes on where it ends. *)

Continues(b, a) ==
  /\ Len(a) <= Len(b)
  /\ \A i \in 1 .. Len(a) : b[i] = a[i]

(* Bytes that were there are still there. *)
LEMMA AtUnchanged ==
  ASSUME NEW a \in Seq(Byte), NEW b \in Seq(Byte), Continues(b, a),
         NEW c \in Nat, NEW w \in Nat, c + w <= Len(a)
  PROVE  At(b, c, w) = At(a, c, w)
<1>1. Len(a) \in Nat /\ Len(b) \in Nat /\ Len(a) <= Len(b)
  BY DEF Continues
<1>2. ASSUME NEW i \in 1 .. w
      PROVE  c + i <= Len(a) /\ c + i <= Len(b) /\ b[c + i] = a[c + i]
  <2>1. c + i \in 1 .. Len(a)
    BY <1>1
  <2> QED
    BY <1>1, <2>1 DEF Continues
<1> QED
  BY <1>2 DEF At

LEMMA BytesUnchanged ==
  ASSUME NEW a \in Seq(Byte), NEW b \in Seq(Byte), Continues(b, a),
         NEW cur \in 0 .. Len(a), NEW w \in Nat \ {0}, ReadBytes(a, cur, w).ok
  PROVE  ReadBytes(b, cur, w) = ReadBytes(a, cur, w)
<1>1. Len(a) \in Nat /\ Len(b) \in Nat /\ Len(a) <= Len(b) /\ cur \in Nat
  BY DEF Continues
<1>2. cur + w <= Len(a)
  <2>1. ~Failed(cur).ok
    BY DEF Failed
  <2> QED
    BY <2>1, ReadBytesResult, Zenon
<1>3. cur + w <= Len(b)
  BY <1>1, <1>2
<1>4. At(b, cur, w) = At(a, cur, w)
  BY <1>1, <1>2, AtUnchanged
<1> QED
  BY <1>1, <1>2, <1>3, <1>4 DEF ReadBytes

(* The marker, and what comes behind it. *)
LEMMA MarkUnchanged ==
  ASSUME NEW a \in Seq(Byte), NEW b \in Seq(Byte), Continues(b, a),
         NEW cur \in 0 .. Len(a), ReadBytes(a, cur, 1) # Failed(cur)
  PROVE  /\ cur + 1 \in 0 .. Len(a)
         /\ \E x \in Byte : Marked(a, cur, x) /\ Marked(b, cur, x)
<1>1. PICK x \in Byte : ReadBytes(a, cur, 1) = Done(cur + 1, <<x>>)
  BY MarkerResult, Zenon
<1>2. ReadBytes(a, cur, 1).ok /\ 1 \in Nat \ {0}
  BY <1>1 DEF Done
<1>3. ReadBytes(b, cur, 1) = ReadBytes(a, cur, 1)
  BY <1>2, BytesUnchanged, Zenon
<1>4. cur + 1 \in 0 .. Len(a)
  BY MarkerResult, Zenon
<1> QED
  BY <1>1, <1>3, <1>4, Zenon DEF Marked

LEMMA IntegerUnchanged ==
  ASSUME NEW a \in Seq(Byte), NEW b \in Seq(Byte), Continues(b, a),
         NEW cur \in 0 .. Len(a), mg_session_read_integer(a, cur).ok
  PROVE  mg_session_read_integer(b, cur) = mg_session_read_integer(a, cur)
<1>1. \A c : ~Failed(c).ok
  BY DEF Failed
<1>2. ReadBytes(a, cur, 1) # Failed(cur)
  BY <1>1, NoMarker, Zenon
<1>3. PICK x \in Byte : Marked(a, cur, x) /\ Marked(b, cur, x)
  BY <1>2, MarkUnchanged, Zenon
<1>4. cur + 1 \in 0 .. Len(a)
  BY <1>2, MarkUnchanged, Zenon
<1>5. ASSUME NEW w \in {1, 2, 4, 8}, AfterMarker(a, cur, w).ok
      PROVE  AfterMarker(b, cur, w) = AfterMarker(a, cur, w)
  <2>1. w \in Nat \ {0}
    OBVIOUS
  <2>2. ReadBytes(a, cur + 1, w).ok
    BY <1>5, Zenon DEF AfterMarker, IntegerAfter
  <2>3. ReadBytes(b, cur + 1, w) = ReadBytes(a, cur + 1, w)
    BY <1>4, <2>1, <2>2, BytesUnchanged, Zenon
  <2> QED
    BY <2>3, Zenon DEF AfterMarker
<1> QED
  BY <1>1, <1>3, <1>5, IntegerForms, Zenon

LEMMA FloatUnchanged ==
  ASSUME NEW a \in Seq(Byte), NEW b \in Seq(Byte), Continues(b, a),
         NEW cur \in 0 .. Len(a), mg_session_read_float(a, cur).ok
  PROVE  mg_session_read_float(b, cur) = mg_session_read_float(a, cur)
<1>1. \A c : ~Failed(c).ok
  BY DEF Failed
<1>2. ReadBytes(a, cur, 1) # Failed(cur)
  BY <1>1, NoMarker, Zenon
<1>3. PICK x \in Byte : Marked(a, cur, x) /\ Marked(b, cur, x)
  BY <1>2, MarkUnchanged, Zenon
<1>4. cur + 1 \in 0 .. Len(a) /\ 8 \in Nat \ {0}
  <2>1. cur + 1 \in 0 .. Len(a)
    BY <1>2, MarkUnchanged, Zenon
  <2> QED
    BY <2>1
<1>5. ReadBytes(a, cur + 1, 8).ok => ReadBytes(b, cur + 1, 8) = ReadBytes(a, cur + 1, 8)
  BY <1>4, BytesUnchanged, Zenon
<1> QED
  BY <1>1, <1>3, <1>5, FloatForms, Zenon

LEMMA SizeUnchanged ==
  ASSUME NEW a \in Seq(Byte), NEW b \in Seq(Byte), Continues(b, a),
         NEW cur \in 0 .. Len(a), NEW m \in SizeMarkers,
         mg_session_read_container_size(a, cur, m).ok
  PROVE  mg_session_read_container_size(b, cur, m) = mg_session_read_container_size(a, cur, m)
<1>1. \A c : ~Failed(c).ok
  BY DEF Failed
<1>2. ReadBytes(a, cur, 1) # Failed(cur)
  BY <1>1, NoMarker, Zenon
<1>3. PICK x \in Byte : Marked(a, cur, x) /\ Marked(b, cur, x)
  BY <1>2, MarkUnchanged, Zenon
<1>4. cur + 1 \in 0 .. Len(a)
  BY <1>2, MarkUnchanged, Zenon
<1>5. ASSUME NEW w \in {1, 2, 4}, NEW n, SizeOf(ReadBytes(a, cur + 1, w), n).ok
      PROVE  ReadBytes(b, cur + 1, w) = ReadBytes(a, cur + 1, w)
  <2>1. w \in Nat \ {0}
    OBVIOUS
  <2>2. ReadBytes(a, cur + 1, w).ok
    BY <1>5, Zenon DEF SizeOf
  <2> QED
    BY <1>4, <2>1, <2>2, BytesUnchanged, Zenon
<1>6. 1 \in {1, 2, 4} /\ 2 \in {1, 2, 4} /\ 4 \in {1, 2, 4}
  OBVIOUS
<1>7. Size8(a, cur).ok => Size8(b, cur) = Size8(a, cur)
  BY <1>5, <1>6, Zenon DEF Size8
<1>8. Size16(a, cur).ok => Size16(b, cur) = Size16(a, cur)
  BY <1>5, <1>6, Zenon DEF Size16
<1>9. Size32(a, cur).ok => Size32(b, cur) = Size32(a, cur)
  BY <1>5, <1>6, Zenon DEF Size32
<1> DEFINE S(buf) == mg_session_read_container_size(buf, cur, m)
<1>10. \/ \E v \in Nat : S(a) = Done(cur + 1, v) /\ S(b) = Done(cur + 1, v)
       \/ S(a) = Size8(a, cur) /\ S(b) = Size8(b, cur)
       \/ S(a) = Size16(a, cur) /\ S(b) = Size16(b, cur)
       \/ S(a) = Size32(a, cur) /\ S(b) = Size32(b, cur)
       \/ S(a) = Failed(cur + 1)
  BY <1>3, SizeForms, Zenon
<1>11. S(a).ok
  OBVIOUS
<1> HIDE DEF S
<1>12. S(a) # Failed(cur + 1)
  BY <1>1, <1>11, Zenon
<1>13. S(b) = S(a)
  <2>1. CASE \E v \in Nat : S(a) = Done(cur + 1, v) /\ S(b) = Done(cur + 1, v)
    BY <2>1, Zenon
  <2>2. CASE S(a) = Size8(a, cur) /\ S(b) = Size8(b, cur)
    BY <1>7, <1>11, <2>2, Zenon
  <2>3. CASE S(a) = Size16(a, cur) /\ S(b) = Size16(b, cur)
    BY <1>8, <1>11, <2>3, Zenon
  <2>4. CASE S(a) = Size32(a, cur) /\ S(b) = Size32(b, cur)
    BY <1>9, <1>11, <2>4, Zenon
  <2> QED
    BY <1>10, <1>12, <2>1, <2>2, <2>3, <2>4, Zenon
<1> QED
  BY <1>13 DEF S

LEMMA StringUnchanged ==
  ASSUME NEW a \in Seq(Byte), NEW b \in Seq(Byte), Continues(b, a),
         NEW cur \in 0 .. Len(a), mg_session_read_string(a, cur).ok
  PROVE  mg_session_read_string(b, cur) = mg_session_read_string(a, cur)
<1> DEFINE S(buf) == mg_session_read_container_size(buf, cur, Markers.STRING)
           s == S(a)
<1>1. \A buf : mg_session_read_string(buf, cur) =
        IF ~S(buf).ok \/ S(buf).v > Len(buf) - S(buf).cursor THEN Failed(S(buf).cursor)
        ELSE Done(S(buf).cursor + S(buf).v, At(buf, S(buf).cursor, S(buf).v))
  BY Zenon DEF mg_session_read_string
<1>2. \A c : ~Failed(c).ok
  BY DEF Failed
<1>3. Within(s, a, cur) /\ (s.ok => s.v \in Nat)
  BY StringIsMarked, SizeWithin, Zenon
<1>4. s.ok => S(b) = s
  BY StringIsMarked, SizeUnchanged, Zenon
<1> HIDE DEF S, s
<1>5. s.ok /\ ~(s.v > Len(a) - s.cursor)
  BY <1>1, <1>2, Zenon DEF s
<1>6. /\ Len(a) \in Nat /\ Len(b) \in Nat /\ Len(a) <= Len(b)
      /\ s.cursor \in cur .. Len(a) /\ s.v \in Nat
  BY <1>3, <1>5 DEF Within, Continues
<1>7. s.cursor \in Nat /\ s.cursor + s.v <= Len(a) /\ ~(s.v > Len(b) - s.cursor)
  BY <1>5, <1>6
<1>8. At(b, s.cursor, s.v) = At(a, s.cursor, s.v)
  BY <1>6, <1>7, AtUnchanged, Zenon
<1>9. mg_session_read_string(a, cur) = Done(s.cursor + s.v, At(a, s.cursor, s.v))
  BY <1>1, <1>5, Zenon DEF s
<1>10. mg_session_read_string(b, cur) = Done(s.cursor + s.v, At(b, s.cursor, s.v))
  BY <1>1, <1>4, <1>5, <1>7, Zenon
<1> QED
  BY <1>8, <1>9, <1>10, Zenon

(* What a successful read gives is settled by the bytes it passed over:    *)
(* more bytes behind them change nothing, so reading an element does not   *)
(* depend on the elements after it.                                        *)
THEOREM ScalarsUnchanged ==
  ASSUME NEW a \in Seq(Byte), NEW b \in Seq(Byte), Continues(b, a),
         NEW cur \in 0 .. Len(a)
  PROVE  /\ mg_session_read_integer(a, cur).ok =>
              mg_session_read_integer(b, cur) = mg_session_read_integer(a, cur)
         /\ mg_session_read_float(a, cur).ok =>
              mg_session_read_float(b, cur) = mg_session_read_float(a, cur)
         /\ \A m \in SizeMarkers :
              mg_session_read_container_size(a, cur, m).ok =>
                mg_session_read_container_size(b, cur, m)
                  = mg_session_read_container_size(a, cur, m)
         /\ mg_session_read_string(a, cur).ok =>
              mg_session_read_string(b, cur) = mg_session_read_string(a, cur)
<1>1. ASSUME NEW m \in SizeMarkers, mg_session_read_container_size(a, cur, m).ok
      PROVE  mg_session_read_container_size(b, cur, m)
               = mg_session_read_container_size(a, cur, m)
  BY <1>1, SizeUnchanged, Zenon
<1> QED
  BY <1>1, IntegerUnchanged, FloatUnchanged, StringUnchanged, Zenon

(* The message that ends after cut bytes. *)
LEMMA CutContinues ==
  ASSUME NEW buf \in Seq(Byte), NEW cut \in 0 .. Len(buf)
  PROVE  /\ SubSeq(buf, 1, cut) \in Seq(Byte) /\ Len(SubSeq(buf, 1, cut)) = cut
         /\ Continues(buf, SubSeq(buf, 1, cut))
<1>1. Len(buf) \in Nat /\ cut \in Nat /\ cut <= Len(buf)
  OBVIOUS
<1>2. /\ SubSeq(buf, 1, cut) \in Seq(Byte) /\ Len(SubSeq(buf, 1, cut)) = cut
      /\ \A i \in 1 .. cut : SubSeq(buf, 1, cut)[i] = buf[i]
  BY <1>1
<1> DEFINE a == SubSeq(buf, 1, cut)
<1> HIDE DEF a
<1>3. Len(a) = cut /\ \A i \in 1 .. cut : a[i] = buf[i]
  BY <1>2 DEF a
<1>4. Continues(buf, a)
  BY <1>1, <1>3 DEF Continues
<1> QED
  BY <1>2, <1>4 DEF a

(* A read that would end behind the cut fails. *)
LEMMA CutEndsBefore ==
  ASSUME NEW a, NEW cur, NEW cut \in Nat, Len(a) = cut, NEW r, NEW s,
         Within(s, a, cur), s.ok => r = s, NEW n \in Nat, NEW v,
         r = Done(n, v), cut < n
  PROVE  ~s.ok
<1>1. r.cursor = n
  BY DEF Done
<1> SUFFICES ASSUME s.ok PROVE FALSE
  OBVIOUS
<1>2. s.cursor = n /\ s.cursor \in cur .. cut
  BY <1>1 DEF Within
<1> QED
  BY <1>2

(* A message that ends inside what the writer wrote is refused by the      *)
(* reader: no shorter number, size or string is taken for it.              *)
THEOREM CutIsRefused ==
  ASSUME NEW buf \in Seq(Byte), NEW cur \in Nat, NEW cut \in cur .. Len(buf)
  PROVE  LET a == SubSeq(buf, 1, cut)
             IsCut(e) == Holds(buf, cur, e) /\ cut < cur + Len(e)
         IN
         /\ \A v \in Int64 : IsCut(mg_session_write_integer(v)) =>
              ~mg_session_read_integer(a, cur).ok
         /\ \A v \in Int64 : IsCut(mg_session_write_float(v)) =>
              ~mg_session_read_float(a, cur).ok
         /\ \A m \in SizeMarkers, n \in Nat :
              n <= Huge /\ IsCut(mg_session_write_container_size(n, m)) =>
                ~mg_session_read_container_size(a, cur, m).ok
         /\ \A s \in Seq(Byte) :
              Len(s) <= Huge /\ IsCut(mg_session_write_string(s)) =>
                ~mg_session_read_string(a, cur).ok
<1> DEFINE a == SubSeq(buf, 1, cut)
           IsCut(e) == Holds(buf, cur, e) /\ cut < cur + Len(e)
<1>1. cut \in Nat /\ cut \in 0 .. Len(buf)
  OBVIOUS
<1>2. a \in Seq(Byte) /\ Len(a) = cut /\ Continues(buf, a)
  BY <1>1, CutContinues, Zenon
<1>3. cur \in 0 .. Len(a)
  BY <1>2
<1> HIDE DEF a
<1>4. ASSUME NEW v \in Int64, IsCut(mg_session_write_integer(v))
      PROVE  ~mg_session_read_integer(a, cur).ok
  <2> DEFINE n == cur + Len(mg_session_write_integer(v))
  <2>1. mg_session_read_integer(buf, cur) = Done(n, v)
    BY <1>4, IntegerRoundTrip, Zenon
  <2>2. /\ Within(mg_session_read_integer(a, cur), a, cur)
        /\ mg_session_read_integer(a, cur).ok =>
             mg_session_read_integer(buf, cur) = mg_session_read_integer(a, cur)
    BY <1>2, <1>3, IntegerWithin, IntegerUnchanged, Zenon
  <2>3. n \in Nat /\ cut < n
    <3>1. mg_session_write_integer(v) \in Seq(Byte)
      BY IntegerWritten, Zenon
    <3> QED
      BY <1>4, <3>1
  <2> HIDE DEF n
  <2> QED
    BY <1>1, <1>2, <2>1, <2>2, <2>3, CutEndsBefore, Zenon
<1>5. ASSUME NEW v \in Int64, IsCut(mg_session_write_float(v))
      PROVE  ~mg_session_read_float(a, cur).ok
  <2>1. mg_session_read_float(buf, cur) = Done(cur + 9, v)
    BY <1>5, FloatRoundTrip, Zenon
  <2>2. /\ Within(mg_session_read_float(a, cur), a, cur)
        /\ mg_session_read_float(a, cur).ok =>
             mg_session_read_float(buf, cur) = mg_session_read_float(a, cur)
    BY <1>2, <1>3, FloatWithin, FloatUnchanged, Zenon
  <2>3. cur + 9 \in Nat /\ cut < cur + 9
    <3>1. v \in Seq(Byte) /\ Len(v) = 8
      BY IntegerIsBytes
    <3>2. Len(<<193>> \o v) = 9
      <4> DEFINE x == 193
      <4>1. x \in Byte
        BY DEF Byte
      <4>2. Holds(buf, cur, <<x>> \o v)
        BY <1>5, Zenon DEF mg_session_write_float
      <4> HIDE DEF x
      <4>3. Len(<<x>> \o v) = 1 + Len(v)
        BY <3>1, <4>1, <4>2, MarkerAndRest, Zenon
      <4>4. 1 + Len(v) = 9
        BY <3>1
      <4> QED
        BY <4>3, <4>4, Zenon DEF x
    <3> QED
      BY <1>5, <3>2 DEF mg_session_write_float
  <2> QED
    BY <1>1, <1>2, <2>1, <2>2, <2>3, CutEndsBefore, Zenon
<1>6. ASSUME NEW m \in SizeMarkers, NEW k \in Nat, k <= Huge,
             IsCut(mg_session_write_container_size(k, m))
      PROVE  ~mg_session_read_container_size(a, cur, m).ok
  <2> DEFINE n == cur + Len(mg_session_write_container_size(k, m))
  <2>1. mg_session_read_container_size(buf, cur, m) = Done(n, k)
    BY <1>6, SizeRoundTrip, Zenon
  <2>2. /\ Within(mg_session_read_container_size(a, cur, m), a, cur)
        /\ mg_session_read_container_size(a, cur, m).ok =>
             mg_session_read_container_size(buf, cur, m) = mg_session_read_container_size(a, cur, m)
    BY <1>2, <1>3, SizeWithin, SizeUnchanged, Zenon
  <2>3. n \in Nat /\ cut < n
    <3>1. mg_session_write_container_size(k, m) \in Seq(Byte)
      BY <1>6, SizeIsBytes, Zenon
    <3> QED
      BY <1>6, <3>1
  <2> HIDE DEF n
  <2> QED
    BY <1>1, <1>2, <2>1, <2>2, <2>3, CutEndsBefore, Zenon
<1>7. ASSUME NEW s \in Seq(Byte), Len(s) <= Huge, IsCut(mg_session_write_string(s))
      PROVE  ~mg_session_read_string(a, cur).ok
  <2> DEFINE n == cur + Len(mg_session_write_string(s))
  <2>1. mg_session_read_string(buf, cur) = Done(n, s)
    BY <1>7, StringRoundTrip, Zenon
  <2>2. /\ Within(mg_session_read_string(a, cur), a, cur)
        /\ mg_session_read_string(a, cur).ok =>
             mg_session_read_string(buf, cur) = mg_session_read_string(a, cur)
    BY <1>2, <1>3, StringWithin, StringUnchanged, Zenon
  <2>3. n \in Nat /\ cut < n
    <3> DEFINE h == mg_session_write_container_size(Len(s), Markers.STRING)
    <3>1. Len(s) \in Nat
      OBVIOUS
    <3>2. h \in Seq(Byte)
      BY <1>7, <3>1, StringIsMarked, SizeIsBytes, Zenon
    <3> HIDE DEF h
    <3>3. h \o s \in Seq(Byte)
      BY <3>2
    <3>4. mg_session_write_string(s) = h \o s
      BY Zenon DEF mg_session_write_string, h
    <3> QED
      BY <1>7, <3>3, <3>4
  <2> HIDE DEF n
  <2> QED
    BY <1>1, <1>2, <2>1, <2>2, <2>3, CutEndsBefore, Zenon
<1> QED
  BY <1>4, <1>5, <1>6, <1>7, Zenon DEF a

----------------------------------------------------------------------------
(* Telling values apart. *)

LEMMA TypesOfMarkers ==
  ASSUME NEW b \in Byte
  PROVE  /\ b < 128 \/ b >= 240 \/ b \in {200, 201, 202, 203} => TypeOfMarker(b) = "INTEGER"
         /\ b = 193 => TypeOfMarker(b) = "FLOAT"
         /\ b \in 128 .. 143 \/ b \in {208, 209, 210} => TypeOfMarker(b) = "STRING"
         /\ b \in 144 .. 159 \/ b \in {212, 213, 214} => TypeOfMarker(b) = "LIST"
         /\ b \in 160 .. 175 \/ b \in {216, 217, 218} => TypeOfMarker(b) = "MAP"
BY SMT DEF TypeOfMarker, Byte

LEMMA FirstByte ==
  ASSUME NEW b, NEW e \in Seq(Byte)
  PROVE  (<<b>> \o e)[1] = b
OBVIOUS

(* The first byte of what a writer writes says what it is, for every value *)
(* of every width: mg_session_read_value hands it to the reader of its     *)
(* type.                                                                   *)
THEOREM FirstByteTellsType ==
  /\ \A v \in Int64 : TypeOfMarker(mg_session_write_integer(v)[1]) = "INTEGER"
  /\ \A v \in Int64 : TypeOfMarker(mg_session_write_float(v)[1]) = "FLOAT"
  /\ \A n \in Nat : n <= Huge =>
       /\ TypeOfMarker(mg_session_write_container_size(n, Markers.STRING)[1]) = "STRING"
       /\ TypeOfMarker(mg_session_write_container_size(n, Markers.LIST)[1]) = "LIST"
       /\ TypeOfMarker(mg_session_write_container_size(n, Markers.MAP)[1]) = "MAP"
<1>1. ASSUME NEW v \in Int64
      PROVE  TypeOfMarker(mg_session_write_integer(v)[1]) = "INTEGER"
  <2> DEFINE b == mg_session_write_integer(v)[1]
  <2>1. CASE IsTiny(v)
    <3>1. v[8] \in Byte /\ (v[8] < 128 \/ v[8] >= 240)
      BY <2>1, TinyFits
    <3>2. b = v[8]
      BY <2>1 DEF mg_session_write_integer
    <3> HIDE DEF b
    <3>3. TypeOfMarker(b) = "INTEGER"
      BY <3>1, <3>2, TypesOfMarkers
    <3> QED
      BY <3>3 DEF b
  <2>2. CASE ~IsTiny(v)
    <3> DEFINE k == IntMarker(Width(v))
               l == Low(v, Width(v))
    <3>1. k \in {200, 201, 202, 203}
      BY <2>2, IntegerWritten
    <3>2. mg_session_write_integer(v) = <<k>> \o l
      BY <2>2, Zenon DEF mg_session_write_integer
    <3>3. l \in Seq(Byte)
      BY WidthFits, LowBytes, Zenon
    <3> HIDE DEF k, l
    <3>4. b = k
      BY <3>2, <3>3, FirstByte, Zenon
    <3>5. k \in Byte
      BY <3>1 DEF Byte
    <3>6. TypeOfMarker(k) = "INTEGER"
      BY <3>1, <3>5, TypesOfMarkers
    <3> QED
      BY <3>4, <3>6, Zenon
  <2> QED
    BY <2>1, <2>2
<1>2. ASSUME NEW v \in Int64
      PROVE  TypeOfMarker(mg_session_write_float(v)[1]) = "FLOAT"
  <2>1. v \in Seq(Byte)
    BY IntegerIsBytes
  <2> DEFINE x == 193
  <2>2. mg_session_write_float(v) = <<x>> \o v
    BY Zenon DEF mg_session_write_float
  <2>3. TypeOfMarker(x) = "FLOAT"
    BY TypesOfMarkers DEF Byte
  <2> HIDE DEF x
  <2>4. mg_session_write_float(v)[1] = x
    BY <2>1, <2>2, FirstByte, Zenon
  <2> QED
    BY <2>3, <2>4, Zenon
<1>3. ASSUME NEW m \in SizeMarkers, NEW n \in Nat, n <= Huge
      PROVE  LET b == mg_session_write_container_size(n, m)[1] IN
             b \in m[1] .. m[1] + 15 \/ b \in {m[2], m[3], m[4]}
  <2> DEFINE b == mg_session_write_container_size(n, m)[1]
  <2>1. CASE IsTinySize(n)
    <3> DEFINE k == m[1]
    <3>1. n \in 0 .. 15
      BY <1>3, <2>1, SizeBytes, Zenon
    <3>2. k \in {128, 144, 160}
      BY MarkersApart
    <3>3. mg_session_write_container_size(n, m) = <<k + n>>
      BY <2>1, SizeWritten, Zenon
    <3>4. b = k + n
      BY <3>3
    <3> HIDE DEF b, k
    <3>5. b \in k .. k + 15
      BY <3>1, <3>2, <3>4
    <3> QED
      BY <3>5 DEF b, k
  <2>2. CASE Is8(n)
    <3>1. mg_session_write_container_size(n, m) = <<m[2]>> \o <<n>>
      BY <2>2, SizeWritten, Zenon
    <3>2. <<n>> \in Seq(Byte)
      BY <1>3, <2>2, SizeBytes, Zenon
    <3>3. b = m[2]
      BY <3>1, <3>2, FirstByte, Zenon
    <3> QED
      BY <3>3, Zenon
  <2>3. CASE Is16(n)
    <3>1. mg_session_write_container_size(n, m) = <<m[3]>> \o htobe16(n)
      BY <2>3, SizeWritten, Zenon
    <3>2. htobe16(n) \in Seq(Byte)
      BY <1>3, <2>3, SizeBytes, Zenon
    <3>3. b = m[3]
      BY <3>1, <3>2, FirstByte, Zenon
    <3> QED
      BY <3>3, Zenon
  <2>4. CASE Is32(n)
    <3>1. mg_session_write_container_size(n, m) = <<m[4]>> \o htobe32(n)
      BY <2>4, SizeWritten, Zenon
    <3>2. htobe32(n) \in Seq(Byte)
      BY <1>3, SizeBytes, Zenon
    <3>3. b = m[4]
      BY <3>1, <3>2, FirstByte, Zenon
    <3> QED
      BY <3>3, Zenon
  <2> QED
    BY <2>1, <2>2, <2>3, <2>4, Zenon DEF Is32
<1>4. ASSUME NEW n \in Nat, n <= Huge
      PROVE  /\ TypeOfMarker(mg_session_write_container_size(n, Markers.STRING)[1]) = "STRING"
             /\ TypeOfMarker(mg_session_write_container_size(n, Markers.LIST)[1]) = "LIST"
             /\ TypeOfMarker(mg_session_write_container_size(n, Markers.MAP)[1]) = "MAP"
  <2> DEFINE B(m) == mg_session_write_container_size(n, m)[1]
  <2>1. \A m \in SizeMarkers : B(m) \in m[1] .. m[1] + 15 \/ B(m) \in {m[2], m[3], m[4]}
    BY <1>3, <1>4, Zenon
  <2>2. Markers.STRING \in SizeMarkers /\ Markers.LIST \in SizeMarkers /\ Markers.MAP \in SizeMarkers
    BY Zenon DEF SizeMarkers
  <2> DEFINE s == B(Markers.STRING)
             l == B(Markers.LIST)
             p == B(Markers.MAP)
  <2> HIDE DEF B
  <2>3. s \in 128 .. 143 \/ s \in {208, 209, 210}
    BY <2>1, <2>2, SMT DEF Markers
  <2>4. l \in 144 .. 159 \/ l \in {212, 213, 214}
    BY <2>1, <2>2, SMT DEF Markers
  <2>5. p \in 160 .. 175 \/ p \in {216, 217, 218}
    BY <2>1, <2>2, SMT DEF Markers
  <2> HIDE DEF s, l, p
  <2>6. s \in Byte /\ l \in Byte /\ p \in Byte
    BY <2>3, <2>4, <2>5, SMT DEF Byte
  <2>7. TypeOfMarker(s) = "STRING" /\ TypeOfMarker(l) = "LIST" /\ TypeOfMarker(p) = "MAP"
    BY <2>3, <2>4, <2>5, <2>6, TypesOfMarkers, SMT
  <2> QED
    BY <2>7 DEF s, l, p, B
<1> QED
  BY <1>1, <1>2, <1>4

----------------------------------------------------------------------------
(* Paths. *)

LEMMA NumberIsInt ==
  ASSUME NEW v \in Int64
  PROVE  Number(v) \in Int
<1> DEFINE a == v[5]
           b == v[6]
           c == v[7]
           d == v[8]
<1>1. \A x \in Byte : x \in Int
  BY DEF Byte
<1>2. a \in Byte /\ b \in Byte /\ c \in Byte /\ d \in Byte
  BY DEF Int64
<1>3. a \in Int /\ b \in Int /\ c \in Int /\ d \in Int
  BY <1>1, <1>2, Zenon
<1>4. Number(v) = (IF IsNegative(v) THEN a - 256 ELSE a) * 16777216
                    + b * 65536 + c * 256 + d
  BY SMT DEF Number
<1> HIDE DEF a, b, c, d
<1>5. CASE IsNegative(v)
  <2>1. Number(v) = (a - 256) * 16777216 + b * 65536 + c * 256 + d
    BY <1>4, <1>5, SMT
  <2> QED
    BY <1>3, <2>1, SMT
<1>6. CASE ~IsNegative(v)
  <2>1. Number(v) = a * 16777216 + b * 65536 + c * 256 + d
    BY <1>4, <1>6, SMT
  <2> QED
    BY <1>3, <2>1, SMT
<1> QED
  BY <1>5, <1>6

(* Every path whose indices passed the checks of mg_session_read_path, of  *)
(* any length, can be walked from end to end: the accessors, which look at *)
(* no bound, stay inside its nodes and relationships at each position.     *)
THEOREM AcceptedPathsWalkable ==
  ASSUME NEW N, NEW R, NEW path \in Seq(N) \X Seq(R) \X Seq(Int64),
         PathAccepted(path)
  PROVE  Walkable(path)
<1> DEFINE n == Len(path[1])
           r == Len(path[2])
           s == path[3]
           l == Len(path[3])
           V(i) == Number(path[3][i])
<1>1. path[1] \in Seq(N) /\ path[2] \in Seq(R) /\ s \in Seq(Int64)
  OBVIOUS
<1>2. n \in Nat /\ r \in Nat /\ l \in Nat
  BY <1>1
<1>3. n > 0 /\ l % 2 = 0
  BY DEF PathAccepted
<1>4. ASSUME NEW i \in 1 .. l
      PROVE  /\ V(i) \in Int
             /\ i % 2 = 1 => V(i) # 0 /\ -r <= V(i) /\ V(i) <= r
             /\ i % 2 # 1 => V(i) >= 0 /\ V(i) < n
  <2>1. s[i] \in Int64
    BY <1>1
  <2>2. V(i) \in Int
    BY <2>1, NumberIsInt
  <2>3. IndexInRange(i, s[i], n, r)
    BY DEF PathAccepted
  <2> HIDE DEF n, r
  <2>4. IF i % 2 = 1 THEN V(i) # 0 /\ -r <= V(i) /\ V(i) <= r
                     ELSE V(i) >= 0 /\ V(i) < n
    BY <2>3, Zenon DEF IndexInRange
  <2> QED
    BY <2>2, <2>4, Zenon
<1>5. ASSUME NEW pos \in 0 .. l \div 2
      PROVE  mg_path_node_at(path, pos) \in 0 .. n - 1
  <2>1. CASE pos = 0
    <3>1. mg_path_node_at(path, pos) = 0
      BY <2>1, Zenon DEF mg_path_node_at
    <3> HIDE DEF n
    <3> QED
      BY <1>2, <1>3, <3>1
  <2>2. CASE pos # 0
    <3>1. 2 * pos \in 1 .. l /\ (2 * pos) % 2 # 1
      <4> HIDE DEF l
      <4> QED
        BY <1>2, <2>2
    <3>2. V(2 * pos) \in Int /\ V(2 * pos) >= 0 /\ V(2 * pos) < n
      BY <1>4, <3>1, Zenon
    <3>3. mg_path_node_at(path, pos) = V(2 * pos)
      BY <2>2, Zenon DEF mg_path_node_at
    <3> HIDE DEF V, n
    <3> QED
      BY <1>2, <3>2, <3>3
  <2> QED
    BY <2>1, <2>2
<1>6. ASSUME NEW pos \in 0 .. l \div 2 - 1
      PROVE  mg_path_relationship_at(path, pos) \in 0 .. r - 1
  <2>1. 2 * pos + 1 \in 1 .. l /\ (2 * pos + 1) % 2 = 1
    <3> HIDE DEF l
    <3> QED
      BY <1>2
  <2>2. V(2 * pos + 1) \in Int /\ V(2 * pos + 1) # 0 /\ -r <= V(2 * pos + 1) /\ V(2 * pos + 1) <= r
    BY <1>4, <2>1, Zenon
  <2> DEFINE idx == V(2 * pos + 1)
  <2>3. mg_path_relationship_at(path, pos) = (IF idx < 0 THEN -idx ELSE idx) - 1
    BY Zenon DEF mg_path_relationship_at
  <2> HIDE DEF V, r
  <2>4. idx \in Int /\ idx # 0 /\ -r <= idx /\ idx <= r
    BY <2>2
  <2> HIDE DEF idx
  <2> QED
    BY <1>2, <2>3, <2>4
<1> QED
  BY <1>5, <1>6, Zenon DEF Walkable, mg_path_length

==============================================================================
