-------------------------- MODULE ChunkReader_proofs --------------------------
(* ChunkReader for every Base and any bytes of the peer: in_buffer holds   *)
(* what is received into it, grows only with what was received, and is in  *)
(* the end the message whose framing was received.                         *)
EXTENDS ChunkReader, WellFoundedInduction, TLAPS

(* What is in the buffer, or on its way into it, has been taken from the   *)
(* connection: this bounds in_end, and with it the growth of the buffer.   *)
Accounted == in_end + Len(buf) <= pos

(* A chunk is read from its first byte. *)
ChunkNotBegun == pc = "space" => buf = <<>>

IInv == TypeOK /\ ChunkFits /\ GrowthBounded /\ Accounted /\ ChunkNotBegun

(* A chunk header carries at most MG_BOLT_MAX_CHUNK_SIZE. *)
LEMMA SizeInRange ==
  ASSUME NEW b \in Seq(Byte), Len(b) = 2
  PROVE  be16toh(b) \in 0 .. MG_BOLT_MAX_CHUNK_SIZE
<1> DEFINE h == b[1]
           l == b[2]
<1>1. h \in 0 .. Base - 1 /\ l \in 0 .. Base - 1
  <2>1. 1 \in DOMAIN b /\ 2 \in DOMAIN b
    OBVIOUS
  <2>2. b[1] \in Byte /\ b[2] \in Byte
    BY <2>1, SMTT(30)
  <2> QED
    BY <2>2 DEF Byte
<1>2. h * Base \in Nat
  BY <1>1, BaseAssumption
<1>3. h * Base <= (Base - 1) * Base
  BY <1>1, BaseAssumption
<1>4. (Base - 1) * Base = Base * Base - Base
  BY BaseAssumption
<1>5. Base * Base \in Nat
  BY BaseAssumption
<1> HIDE DEF h, l
<1>6. h * Base + l \in 0 .. Base * Base - 1
  BY <1>1, <1>2, <1>3, <1>4, <1>5, BaseAssumption
<1> QED
  BY <1>6 DEF be16toh, MG_BOLT_MAX_CHUNK_SIZE, h, l

(* The largest chunk is longer than a chunk header. *)
LEMMA MaxChunk == MG_BOLT_MAX_CHUNK_SIZE \in Nat /\ MG_BOLT_MAX_CHUNK_SIZE >= 3
<1>1. Base * Base >= 2 * Base /\ Base * Base \in Nat
  BY BaseAssumption
<1> QED
  BY <1>1, BaseAssumption DEF MG_BOLT_MAX_CHUNK_SIZE

(* A fresh session satisfies the inductive invariant ... *)
LEMMA InitIInv == Init => IInv
<1> SUFFICES ASSUME Init PROVE IInv
  OBVIOUS
<1>1. stream \in Seq(Byte) /\ Len(stream) \in Nat
  BY DEF Init
<1> QED
  BY <1>1, MaxChunk DEF Init, IInv, TypeOK, ChunkFits, GrowthBounded, Accounted,
     ChunkNotBegun, in_end, Labels

(* Facts about recv() taking n bytes: the received bytes stay bytes, and   *)
(* are counted.                                                            *)
LEMMA ReceiveTypes ==
  ASSUME NEW s \in Seq(Byte), NEW b \in Seq(Byte), NEW p \in Nat, NEW n \in Nat,
         p + n <= Len(s)
  PROVE  /\ b \o SubSeq(s, p + 1, p + n) \in Seq(Byte)
         /\ Len(b \o SubSeq(s, p + 1, p + n)) = Len(b) + n
<1>1. SubSeq(s, p + 1, p + n) \in Seq(Byte) /\ Len(SubSeq(s, p + 1, p + n)) = n
  OBVIOUS
<1> QED
  BY <1>1

(* What appending a chunk to the buffer does. *)
LEMMA ConcatTypes ==
  ASSUME NEW a \in Seq(Byte), NEW b \in Seq(Byte)
  PROVE  a \o b \in Seq(Byte) /\ Len(a \o b) = Len(a) + Len(b)
OBVIOUS

(* ... and every step of mg_session_receive_message keeps it. *)
LEMMA StepIInv == IInv /\ [Next]_vars => IInv'
<1> SUFFICES ASSUME IInv, [Next]_vars PROVE IInv'
  OBVIOUS
<1> USE MaxChunk DEF IInv, TypeOK, ChunkFits, GrowthBounded, Accounted, ChunkNotBegun,
             in_end, Labels
<1>1. CASE mg_session_receive_message
  BY <1>1 DEF mg_session_receive_message, BufferEmptied, ReadChunk
<1>2. CASE mg_socket_receive
  <2>1. PICK n \in 1 .. Wanted - Len(buf) :
          /\ pos + n <= Len(stream)
          /\ buf' = buf \o SubSeq(stream, pos + 1, pos + n)
          /\ pos' = pos + n
    BY <1>2 DEF mg_socket_receive
  <2>2. Wanted \in 0 .. MG_BOLT_MAX_CHUNK_SIZE /\ Len(buf) \in Nat /\ n \in Nat
    BY DEF Wanted
  <2>3. buf' \in Seq(Byte) /\ Len(buf') = Len(buf) + n
    BY <2>1, <2>2, ReceiveTypes
  <2>4. Len(buf') <= Wanted
    BY <2>1, <2>2, <2>3
  <2>5. pc = "data" => Wanted = chunk_size
    BY DEF Wanted
  <2>6. pc # "space"
    <3>1. Wanted >= 1
      BY <2>1, <2>2
    <3>2. pc = "space" => Wanted = 0
      BY DEF Wanted
    <3> QED
      BY <3>1, <3>2
  <2> QED
    BY <1>2, <2>1, <2>2, <2>3, <2>4, <2>5, <2>6 DEF mg_socket_receive
<1>3. CASE mg_socket_receive_fails
  BY <1>3 DEF mg_socket_receive_fails
<1>4. CASE SizeReceived
  <2>1. chunk_size' \in 0 .. MG_BOLT_MAX_CHUNK_SIZE
    BY <1>4, SizeInRange DEF SizeReceived
  <2>2. buf' = <<>> /\ pc' \in {"received", "space"}
    BY <1>4 DEF SizeReceived
  <2>3. UNCHANGED <<stream, pos, in_buffer, in_capacity, headers>>
    BY <1>4 DEF SizeReceived
  <2>4. TypeOK'
    BY <2>1, <2>2, <2>3
  <2> QED
    BY <2>2, <2>3, <2>4
<1>5. CASE EnlargeBuffer
  BY <1>5 DEF EnlargeBuffer, NoSpaceForChunk
<1>6. CASE mg_session_ensure_space_for_chunk
  BY <1>6 DEF mg_session_ensure_space_for_chunk, NoSpaceForChunk
<1>7. CASE DataReceived
  <2>1. in_buffer' \in Seq(Byte) /\ Len(in_buffer') = Len(in_buffer) + Len(buf)
    BY <1>7, ConcatTypes DEF DataReceived
  <2> QED
    BY <1>7, <2>1 DEF DataReceived, ReadChunk
<1>8. CASE UNCHANGED vars
  BY <1>8 DEF vars
<1> QED
  BY <1>1, <1>2, <1>3, <1>4, <1>5, <1>6, <1>7, <1>8 DEF Next, Invalidated

(* The state of the reader at every moment. *)
LEMMA Inductive == Spec => []IInv
BY InitIInv, StepIInv, PTL DEF Spec

(* mg_session_receive_message keeps to the buffer it has, whatever sizes   *)
(* the peer announces: no chunk is read past the end of in_buffer.         *)
THEOREM ReaderStaysInBuffer == Spec => []ChunkFits
<1>1. IInv => ChunkFits
  BY DEF IInv
<1> QED
  BY <1>1, Inductive, PTL

(* mg_session_ensure_space_for_chunk enlarges in_buffer in proportion to   *)
(* the bytes received, over any number of messages on a connection.        *)
THEOREM ReaderGrowthBounded == Spec => []GrowthBounded
<1>1. IInv => GrowthBounded
  BY DEF IInv
<1> QED
  BY <1>1, Inductive, PTL

(* The reader's state keeps its type for every Base. *)
THEOREM ReaderTypeCorrect == Spec => []TypeOK
<1>1. IInv => TypeOK
  BY DEF IInv
<1> QED
  BY <1>1, Inductive, PTL

----------------------------------------------------------------------------
(* The content of the buffer.  Only what has been taken from the stream is *)
(* looked at: the chunks before the header being read, or the chunk.       *)

(* The k-th chunk is complete, in the message and in the stream. *)
Complete(s, at, k, m) ==
  /\ IsChunk(s, at, k, m)
  /\ DataBefore(at, k) >= 0
  /\ DataBefore(at, k) + SizeAt(s, at[k]) <= Len(m)
  /\ at[k] + 2 <= Len(s)

(* t begins with s. *)
Begins(s, t) == Len(s) <= Len(t) /\ \A j \in 1 .. Len(s) : t[j] = s[j]

(* The header of the chunk being received is behind this position. *)
Last == headers[Len(headers)]

(* Bytes of the stream behind p that mg_transport_recv has. *)
Taken(p) ==
  /\ pos = p + Len(buf)
  /\ \A i \in 1 .. Len(buf) : buf[i] = stream[p + i]

Content ==
  /\ headers # <<>>
  /\ Len(in_buffer) = DataBefore(headers, Len(headers))
  /\ \A k \in 1 .. Len(headers) - 1 : Complete(stream, headers, k, in_buffer)
  /\ pc = "size" => Taken(Last)
  /\ pc = "space" => pos = Last + 2
  /\ pc = "data" => Taken(Last + 2)
  /\ pc \in {"space", "data"} => chunk_size = SizeAt(stream, Last) /\ chunk_size > 0
  /\ pc = "received" => pos = Last + 2 /\ SizeAt(stream, Last) = 0

Receiving == pc \in {"size", "space", "data", "received"} => Content

(* A size in the stream is a number. *)
LEMMA SizeIsNat ==
  ASSUME NEW s \in Seq(Byte), NEW i \in Nat, i + 2 <= Len(s)
  PROVE  SizeAt(s, i) \in Nat
<1>1. s[i + 1] \in Byte /\ s[i + 2] \in Byte
  OBVIOUS
<1>2. s[i + 1] \in Nat /\ s[i + 2] \in Nat
  BY <1>1, BaseAssumption DEF Byte
<1>3. s[i + 1] * Base \in Nat
  BY <1>2, BaseAssumption
<1> QED
  BY <1>2, <1>3 DEF SizeAt

(* A complete chunk stays one when more headers are found and more of the  *)
(* message comes in.                                                       *)
LEMMA ChunkKept ==
  ASSUME NEW s \in Seq(Byte), NEW at \in Seq(Nat), NEW bt \in Seq(Nat),
         NEW m \in Seq(Byte), NEW q \in Seq(Byte), NEW k \in 1 .. Len(at) - 1,
         Complete(s, at, k, m), Begins(at, bt), Begins(m, q)
  PROVE  Complete(s, bt, k, q)
<1>1. {1, k, k + 1} \subseteq 1 .. Len(at) /\ k \in Nat
  OBVIOUS
<1>2. bt[1] = at[1] /\ bt[k] = at[k] /\ bt[k + 1] = at[k + 1]
  BY <1>1 DEF Begins
<1>3. at[1] \in Nat /\ at[k] \in Nat
  BY <1>1
<1>4. DataBefore(bt, k) = DataBefore(at, k) /\ DataBefore(at, k) \in Int
  <2>1. DataBefore(bt, k) = DataBefore(at, k)
    BY <1>2, Zenon DEF DataBefore
  <2>2. ASSUME NEW x \in Nat, NEW y \in Nat
        PROVE  x - y - 2 * (k - 1) \in Int
    BY <1>1
  <2>3. DataBefore(at, k) \in Int
    BY <1>3, <2>2, Zenon DEF DataBefore
  <2> QED
    BY <2>1, <2>3
<1>5. DataBefore(at, k) \in Nat /\ SizeAt(s, at[k]) \in Nat
  BY <1>3, <1>4, SizeIsNat DEF Complete
<1>6. \A i \in 1 .. SizeAt(s, at[k]) : q[DataBefore(at, k) + i] = m[DataBefore(at, k) + i]
  <2>1. SUFFICES ASSUME NEW i \in 1 .. SizeAt(s, at[k])
                 PROVE  q[DataBefore(at, k) + i] = m[DataBefore(at, k) + i]
    OBVIOUS
  <2>2. DataBefore(at, k) + i \in 1 .. Len(m)
    <3> DEFINE d == DataBefore(at, k)
               n == SizeAt(s, at[k])
               lm == Len(m)
    <3>1. d \in Nat /\ n \in Nat /\ lm \in Nat /\ d + n <= lm /\ i \in 1 .. n
      BY <1>5 DEF Complete
    <3> HIDE DEF d, n, lm
    <3>2. d + i \in 1 .. lm
      BY <3>1
    <3> QED
      BY <3>2 DEF d, lm
  <2> QED
    BY <2>2 DEF Begins
<1>7. IsChunk(s, bt, k, q)
  BY <1>2, <1>4, <1>6 DEF Complete, IsChunk
<1> QED
  BY <1>2, <1>4, <1>5, <1>7 DEF Complete, Begins

(* What appending a chunk to the buffer leaves, and adds. *)
LEMMA ConcatBytes ==
  ASSUME NEW a \in Seq(Byte), NEW b \in Seq(Byte)
  PROVE  /\ \A i \in 1 .. Len(a) : (a \o b)[i] = a[i]
         /\ \A i \in 1 .. Len(b) : (a \o b)[Len(a) + i] = b[i]
<1>1. Len(a) \in Nat /\ Len(b) \in Nat
  OBVIOUS
<1>2. ASSUME NEW i \in 1 .. Len(b) PROVE (a \o b)[Len(a) + i] = b[i]
  <2>1. Len(a) + i \in 1 .. Len(a) + Len(b) /\ ~(Len(a) + i <= Len(a)) /\ (Len(a) + i) - Len(a) = i
    BY <1>1
  <2> QED
    BY <2>1
<1> QED
  BY <1>1, <1>2

(* The buffer is a message in the making, and stays one. *)
LEMMA StepReceiving == IInv /\ Receiving /\ [Next]_vars => Receiving'
<1> SUFFICES ASSUME IInv, Receiving, [Next]_vars PROVE Receiving'
  OBVIOUS
<1>0. /\ stream \in Seq(Byte) /\ pos \in Nat /\ headers \in Seq(Nat)
      /\ in_buffer \in Seq(Byte) /\ buf \in Seq(Byte) /\ chunk_size \in Nat
      /\ pc \in Labels /\ pos <= Len(stream) /\ stream' = stream
  BY MaxChunk DEF IInv, TypeOK, Next, vars, mg_session_receive_message, mg_socket_receive,
     mg_socket_receive_fails, SizeReceived, EnlargeBuffer,
     mg_session_ensure_space_for_chunk, DataReceived, Invalidated
<1>1. CASE mg_session_receive_message
  <2>1. headers' = <<pos>> /\ in_buffer' = <<>> /\ buf' = <<>> /\ pos' = pos /\ pc' = "size"
    BY <1>1 DEF mg_session_receive_message, BufferEmptied, ReadChunk
  <2>2. DataBefore(headers', 1) = 0 /\ Len(headers') = 1 /\ headers'[1] = pos
    BY <1>0, <2>1 DEF DataBefore
  <2> QED
    BY <1>0, <2>1, <2>2 DEF Receiving, Content, Taken, Last
<1>2. CASE mg_socket_receive
  <2>1. PICK n \in 1 .. Wanted - Len(buf) :
          /\ pos + n <= Len(stream)
          /\ buf' = buf \o SubSeq(stream, pos + 1, pos + n)
          /\ pos' = pos + n
    BY <1>2 DEF mg_socket_receive
  <2>2. UNCHANGED <<stream, in_buffer, chunk_size, pc, headers>>
    BY <1>2 DEF mg_socket_receive
  <2>3. Wanted \in Nat /\ pc \in {"size", "data"} /\ n \in Nat
    <3>1. Wanted \in Nat /\ (pc \notin {"size", "data"} => Wanted = 0)
      BY <1>0 DEF Wanted
    <3> QED
      BY <1>0, <2>1, <3>1
  <2>4. Content
    BY <2>3 DEF Receiving
  <2> DEFINE p == IF pc = "size" THEN Last ELSE Last + 2
  <2>5. p \in Nat /\ Taken(p)
    <3>1. Last \in Nat
      BY <1>0, <2>4 DEF Content, Last
    <3>2. Taken(p)
      BY <2>3, <2>4 DEF Content
    <3> QED
      BY <3>1, <3>2
  <2>6. Taken(p)'
    <3> HIDE DEF p
    <3>1. p' = p
      BY <2>2 DEF p, Last
    <3>2. /\ Len(buf') = Len(buf) + n
          /\ \A i \in 1 .. Len(buf) : buf'[i] = buf[i]
          /\ \A i \in Len(buf) + 1 .. Len(buf) + n : buf'[i] = stream[pos + i - Len(buf)]
      BY <1>0, <2>1, <2>3
    <3> QED
      BY <1>0, <2>1, <2>3, <2>5, <3>1, <3>2 DEF Taken
  <2> QED
    BY <2>2, <2>3, <2>4, <2>6 DEF Receiving, Content, Last
<1>3. CASE mg_socket_receive_fails
  BY <1>3 DEF mg_socket_receive_fails, Receiving
<1>4. CASE SizeReceived
  <2>1. /\ pc = "size" /\ Len(buf) = 2 /\ chunk_size' = be16toh(buf)
        /\ pc' = IF chunk_size' = 0 THEN "received" ELSE "space"
        /\ UNCHANGED <<stream, pos, in_buffer, headers>>
    BY <1>4 DEF SizeReceived
  <2>2. Content /\ Taken(Last)
    BY <2>1 DEF Receiving, Content
  <2>3. Last \in Nat
    BY <1>0, <2>2 DEF Content, Last
  <2>4. chunk_size' = SizeAt(stream, Last) /\ pos = Last + 2
    <3>1. buf[1] = stream[Last + 1] /\ buf[2] = stream[Last + 2] /\ pos = Last + 2
      BY <2>1, <2>2, <2>3 DEF Taken
    <3> QED
      BY <2>1, <3>1 DEF be16toh, SizeAt
  <2>5. chunk_size' \in Nat
    BY <1>0, <2>3, <2>4, SizeIsNat
  <2> QED
    BY <2>1, <2>2, <2>4, <2>5 DEF Receiving, Content, Last
<1>5. CASE EnlargeBuffer
  BY <1>5 DEF EnlargeBuffer, Receiving, Content, Last
<1>6. CASE mg_session_ensure_space_for_chunk
  <2>1. /\ pc = "space" /\ pc' = "data" /\ buf = <<>>
        /\ UNCHANGED <<stream, pos, in_buffer, chunk_size, buf, headers>>
    BY <1>6 DEF mg_session_ensure_space_for_chunk, IInv, ChunkNotBegun
  <2>2. Content /\ pos = Last + 2
    BY <2>1 DEF Receiving, Content
  <2>3. Taken(Last + 2)
    BY <1>0, <2>1, <2>2 DEF Taken
  <2> QED
    BY <2>1, <2>2, <2>3 DEF Receiving, Content, Taken, Last
<1>7. CASE DataReceived
  <2>1. /\ pc = "data" /\ Len(buf) = chunk_size
        /\ in_buffer' = in_buffer \o buf /\ headers' = Append(headers, pos)
        /\ pc' = "size" /\ buf' = <<>> /\ pos' = pos
    BY <1>7 DEF DataReceived, ReadChunk
  <2>2. /\ Content /\ Taken(Last + 2)
        /\ chunk_size = SizeAt(stream, Last) /\ chunk_size > 0
    BY <2>1 DEF Receiving, Content
  <2> DEFINE n == Len(headers)
  <2>3. n \in Nat /\ n >= 1 /\ Last \in Nat /\ headers[1] \in Nat /\ Last = headers[n]
    BY <1>0, <2>2 DEF Content, Last
  <2>4. /\ headers' \in Seq(Nat) /\ Len(headers') = n + 1
        /\ \A j \in 1 .. n : headers'[j] = headers[j]
        /\ headers'[n + 1] = pos
    BY <1>0, <2>1, <2>3
  <2>5. /\ in_buffer' \in Seq(Byte) /\ Len(in_buffer') = Len(in_buffer) + chunk_size
        /\ \A j \in 1 .. Len(in_buffer) : in_buffer'[j] = in_buffer[j]
        /\ \A i \in 1 .. chunk_size : in_buffer'[Len(in_buffer) + i] = buf[i]
    BY <1>0, <2>1, ConcatTypes, ConcatBytes
  <2>6. pos = Last + 2 + chunk_size
    BY <1>0, <2>1, <2>2, <2>3 DEF Taken
  <2> HIDE DEF n
  <2>7. \A k \in 1 .. n - 1 : Complete(stream, headers', k, in_buffer')
    <3>1. Begins(headers, headers')
      BY <2>3, <2>4 DEF Begins, n
    <3>2. Begins(in_buffer, in_buffer')
      BY <1>0, <2>5 DEF Begins
    <3> QED
      BY <1>0, <2>2, <2>4, <2>5, <3>1, <3>2, ChunkKept DEF Content, n
  <2>8. /\ DataBefore(headers', n) = Len(in_buffer)
        /\ DataBefore(headers', n + 1) = Len(in_buffer')
    <3>1. headers'[1] = headers[1] /\ headers'[n] = Last
      BY <2>3, <2>4
    <3>2. Len(in_buffer) = Last - headers[1] - 2 * (n - 1)
      BY <2>2 DEF Content, DataBefore, Last, n
    <3>3. DataBefore(headers', n) = Len(in_buffer)
      BY <3>1, <3>2 DEF DataBefore
    <3>4. DataBefore(headers', n + 1) = pos - headers[1] - 2 * n
      BY <2>3, <2>4, <3>1 DEF DataBefore
    <3>5. Len(in_buffer') = pos - headers[1] - 2 * n
      <4>1. ASSUME NEW l \in Nat, NEW h \in Nat, NEW j \in Nat, NEW c \in Nat
            PROVE  l - h - 2 * (j - 1) + c = (l + 2 + c) - h - 2 * j
        OBVIOUS
      <4>2. Last \in Nat /\ headers[1] \in Nat /\ n \in Nat /\ chunk_size \in Nat
        BY <1>0, <2>3 DEF n
      <4>3. Len(in_buffer') = Last - headers[1] - 2 * (n - 1) + chunk_size
        BY <2>5, <3>2
      <4>4. Last - headers[1] - 2 * (n - 1) + chunk_size
            = (Last + 2 + chunk_size) - headers[1] - 2 * n
        BY ONLY <4>1, <4>2
      <4> QED
        BY <2>6, <4>3, <4>4
    <3> QED
      BY <3>3, <3>4, <3>5
  <2>9. Complete(stream, headers', n, in_buffer')
    <3>1. headers'[n] = Last /\ headers'[n + 1] = Last + 2 + SizeAt(stream, Last)
      BY <2>2, <2>3, <2>4, <2>6
    <3>2. \A i \in 1 .. chunk_size : stream[Last + 2 + i] = in_buffer'[Len(in_buffer) + i]
      BY <2>1, <2>2, <2>5 DEF Taken
    <3>3. IsChunk(stream, headers', n, in_buffer')
      BY <2>2, <2>8, <3>1, <3>2 DEF IsChunk
    <3>4. Last + 2 <= Len(stream)
      <4> DEFINE l == Last
                 ls == Len(stream)
      <4>1. l \in Nat /\ ls \in Nat /\ pos <= ls /\ chunk_size \in Nat
            /\ pos = l + 2 + chunk_size
        BY <1>0, <2>3, <2>6
      <4> HIDE DEF l, ls
      <4>2. l + 2 <= ls
        BY ONLY <4>1
      <4> QED
        BY <4>2 DEF l, ls
    <3> QED
      BY <1>0, <2>2, <2>5, <2>8, <3>1, <3>3, <3>4 DEF Complete
  <2>10. Content'
    <3>1. \A k \in 1 .. Len(headers') - 1 : Complete(stream, headers', k, in_buffer')
      BY <2>3, <2>4, <2>7, <2>9
    <3>2. Taken(Last)'
      BY <1>0, <2>1, <2>4 DEF Taken, Last
    <3>3. headers' # <<>>
      BY <2>3, <2>4
    <3> QED
      BY <1>0, <2>1, <2>4, <2>8, <3>1, <3>2, <3>3 DEF Content
  <2> QED
    BY <2>10 DEF Receiving
<1>8. CASE UNCHANGED vars
  BY <1>8 DEF vars, Receiving, Content, Taken, Last
<1> QED
  BY <1>1, <1>2, <1>3, <1>4, <1>5, <1>6, <1>7, <1>8 DEF Next, Invalidated

(* Whatever the peer sends and however recv() cuts it, a message that      *)
(* mg_session_receive_message returns is, byte for byte, the one that was  *)
(* framed, and the connection is left behind its end marker.               *)
THEOREM ReceivedIsMessage == Spec => []BufferIsMessage
<1>1. Init => Receiving
  BY DEF Init, Receiving
<1>2. IInv /\ Receiving => BufferIsMessage
  BY DEF IInv, TypeOK, Receiving, Content, Complete, BufferIsMessage, IsFraming, Last
<1> QED
  BY <1>1, <1>2, StepReceiving, Inductive, PTL DEF Spec

----------------------------------------------------------------------------
(* From one end of the connection to the other.  A framing can be read in  *)
(* one way only, so what the sender framed is what the receiver gets.      *)

(* A set of numbers that is not empty has a least one. *)
LEMMA LeastNat ==
  ASSUME NEW T, T \subseteq Nat, T # {}
  PROVE  \E x \in T : \A y \in T : x <= y
<1> DEFINE R == OpToRel(<, Nat)
           Q == {ss \in Nat \X Nat : ss[1] < ss[2]}
<1>0. R = Q
  BY Zenon DEF OpToRel
<1>1. PICK x \in T : \A y \in T : ~(<<y, x>> \in R)
  <2>1. IsWellFoundedOn(R, Nat)
    BY NatLessThanWellFounded
  <2> HIDE DEF R
  <2> QED
    BY <2>1, WFMin
<1> HIDE DEF R
<1>2. \A y \in T : x <= y
  <2> SUFFICES ASSUME NEW y \in T PROVE x <= y
    OBVIOUS
  <2>1. <<y, x>> \notin Q
    <3> HIDE DEF Q
    <3> QED
      BY <1>0, <1>1, Zenon
  <2>2. <<y, x>> \in Nat \X Nat
    OBVIOUS
  <2>3. ~(<<y, x>>[1] < <<y, x>>[2])
    BY <2>1, <2>2, Zenon
  <2> QED
    BY <2>3
<1> QED
  BY <1>2

LEMMA NotEmpty ==
  ASSUME NEW at \in Seq(Nat), at # <<>>
  PROVE  /\ Len(at) \in Nat /\ Len(at) >= 1
         /\ \A j \in 1 .. Len(at) : at[j] \in Nat
         /\ at[1] \in Nat
OBVIOUS

(* As far as s goes, its bytes behind p are those of w. *)
Agrees(s, p, w) == \A i \in 1 .. Len(w) : p + i <= Len(s) => s[p + i] = w[i]

(* Then a header in both says the same. *)
LEMMA SameSize ==
  ASSUME NEW s \in Seq(Byte), NEW w \in Seq(Byte), NEW p \in Nat, NEW i \in Nat,
         Agrees(s, p, w), i + 2 <= Len(w), p + i + 2 <= Len(s)
  PROVE  SizeAt(s, p + i) = SizeAt(w, i)
<1>1. {i + 1, i + 2} \subseteq 1 .. Len(w) /\ p + (i + 1) <= Len(s) /\ p + (i + 2) <= Len(s)
  OBVIOUS
<1>2. s[p + (i + 1)] = w[i + 1] /\ s[p + (i + 2)] = w[i + 2]
  BY <1>1 DEF Agrees
<1>3. p + (i + 1) = (p + i) + 1 /\ p + (i + 2) = (p + i) + 2
  OBVIOUS
<1> QED
  BY <1>2, <1>3 DEF SizeAt

(* What a chunk adds to the positions and to the message. *)
LEMMA ChunkAdds ==
  ASSUME NEW s \in Seq(Byte), NEW at \in Seq(Nat), NEW m \in Seq(Byte), NEW e,
         IsFraming(s, at, e, m), NEW k \in 1 .. Len(at) - 1
  PROVE  /\ at[k] \in Nat /\ at[k + 1] \in Nat /\ at[1] \in Nat
         /\ SizeAt(s, at[k]) \in Nat /\ SizeAt(s, at[k]) > 0
         /\ at[k + 1] = at[k] + 2 + SizeAt(s, at[k])
         /\ at[k] + 2 <= Len(s) /\ at[k + 1] + 2 <= Len(s)
         /\ DataBefore(at, k + 1) = DataBefore(at, k) + SizeAt(s, at[k])
<1>1. k \in 1 .. Len(at) /\ k + 1 \in 1 .. Len(at) /\ 1 \in 1 .. Len(at)
  OBVIOUS
<1>2. /\ at[k] \in Nat /\ at[k + 1] \in Nat /\ at[1] \in Nat
      /\ at[k] + 2 <= Len(s) /\ at[k + 1] + 2 <= Len(s)
  <2>1. \A j \in 1 .. Len(at) : at[j] + 2 <= Len(s)
    BY Zenon DEF IsFraming
  <2>2. \A j \in 1 .. Len(at) : at[j] \in Nat
    OBVIOUS
  <2> QED
    BY <1>1, <2>1, <2>2, Zenon
<1>3. SizeAt(s, at[k]) \in Nat
  BY <1>2, SizeIsNat
<1>4. SizeAt(s, at[k]) > 0 /\ at[k + 1] = at[k] + 2 + SizeAt(s, at[k])
  BY DEF IsFraming, IsChunk
<1> DEFINE x == at[k]
           y == at[k + 1]
           z == at[1]
           n == SizeAt(s, at[k])
<1>5. x \in Nat /\ y \in Nat /\ z \in Nat /\ n \in Nat /\ y = x + 2 + n /\ k \in Nat
  BY <1>2, <1>3, <1>4
<1> HIDE DEF x, y, z, n
<1>6. y - z - 2 * ((k + 1) - 1) = (x - z - 2 * (k - 1)) + n
  BY <1>5
<1>7. DataBefore(at, k + 1) = DataBefore(at, k) + SizeAt(s, at[k])
  BY <1>6, Zenon DEF DataBefore, x, y, z, n
<1> QED
  BY <1>2, <1>3, <1>4, <1>7

(* Two framings that agree have their headers at the same places. *)
LEMMA SameHeaders ==
  ASSUME NEW s \in Seq(Byte), NEW hs \in Seq(Nat), NEW q \in Seq(Byte), NEW e,
         NEW w \in Seq(Byte), NEW at \in Seq(Nat), NEW m \in Seq(Byte), NEW f,
         IsFraming(s, hs, e, q), IsFraming(w, at, f, m), at[1] = 0,
         Agrees(s, hs[1], w)
  PROVE  /\ Len(hs) = Len(at)
         /\ \A k \in 1 .. Len(at) : hs[k] = hs[1] + at[k]
<1> DEFINE p == hs[1]
<1>0. /\ Len(hs) \in Nat /\ Len(hs) >= 1 /\ Len(at) \in Nat /\ Len(at) >= 1
      /\ p \in Nat
  <2>1. hs # <<>> /\ at # <<>>
    BY Zenon DEF IsFraming
  <2> QED
    BY <2>1, NotEmpty
<1>1. /\ \A j \in 1 .. Len(hs) : hs[j] \in Nat /\ hs[j] + 2 <= Len(s)
      /\ \A j \in 1 .. Len(at) : at[j] \in Nat /\ at[j] + 2 <= Len(w)
  <2>1. /\ \A j \in 1 .. Len(hs) : hs[j] + 2 <= Len(s)
        /\ \A j \in 1 .. Len(at) : at[j] + 2 <= Len(w)
    BY Zenon DEF IsFraming
  <2>2. /\ \A j \in 1 .. Len(hs) : hs[j] \in Nat
        /\ \A j \in 1 .. Len(at) : at[j] \in Nat
    OBVIOUS
  <2> QED
    BY <2>1, <2>2
<1>2. ASSUME NEW k \in 1 .. Len(hs), k \in 1 .. Len(at), hs[k] = p + at[k]
      PROVE  SizeAt(s, hs[k]) = SizeAt(w, at[k])
  <2>1. at[k] \in Nat /\ at[k] + 2 <= Len(w) /\ p + at[k] + 2 <= Len(s)
    BY <1>1, <1>2
  <2> DEFINE i == at[k]
  <2> HIDE DEF i
  <2>2. i \in Nat /\ i + 2 <= Len(w) /\ p + i + 2 <= Len(s)
    BY <2>1 DEF i
  <2>3. SizeAt(s, p + i) = SizeAt(w, i)
    BY <1>0, <2>2, SameSize
  <2> QED
    BY <1>2, <2>3, Zenon DEF i
<1> HIDE DEF p
<1>3. ASSUME NEW k \in 1 .. Len(hs), k \in 1 .. Len(at) PROVE hs[k] = p + at[k]
  <2> DEFINE T == {j \in 1 .. Len(hs) : j <= Len(at) /\ hs[j] # p + at[j]}
  <2> SUFFICES ASSUME hs[k] # p + at[k] PROVE FALSE
    OBVIOUS
  <2>0. k \in T
    BY <1>0, <1>3
  <2>1. PICK j \in T : \A i \in T : j <= i
    <3>1. T \subseteq Nat
      BY <1>0
    <3> HIDE DEF T
    <3> QED
      BY <2>0, <3>1, LeastNat
  <2>2. j \in 1 .. Len(hs) /\ j \in 1 .. Len(at) /\ hs[j] # p + at[j]
    BY <1>0, <2>1
  <2>3. j # 1
    <3>1. p = p + 0
      BY <1>0
    <3> QED
      BY <2>2, <3>1, Zenon DEF p
  <2>4. /\ j - 1 \in 1 .. Len(hs) - 1 /\ j - 1 \in 1 .. Len(at) - 1
        /\ j - 1 \in 1 .. Len(hs) /\ j - 1 \in 1 .. Len(at)
        /\ j - 1 <= Len(at) /\ ~(j <= j - 1) /\ (j - 1) + 1 = j
    <3> DEFINE lh == Len(hs)
               la == Len(at)
    <3>1. lh \in Nat /\ la \in Nat /\ j \in 1 .. lh /\ j \in 1 .. la /\ j # 1
      BY <1>0, <2>2, <2>3
    <3> HIDE DEF lh, la
    <3>2. /\ j - 1 \in 1 .. lh - 1 /\ j - 1 \in 1 .. la - 1
          /\ j - 1 \in 1 .. lh /\ j - 1 \in 1 .. la
          /\ j - 1 <= la /\ ~(j <= j - 1) /\ (j - 1) + 1 = j
      BY <3>1
    <3> QED
      BY <3>2 DEF lh, la
  <2>5. hs[j - 1] = p + at[j - 1]
    <3>1. j - 1 \notin T
      <4> HIDE DEF T
      <4> QED
        BY <2>1, <2>4, Zenon
    <3> QED
      BY <2>4, <3>1, Zenon
  <2>6. SizeAt(s, hs[j - 1]) = SizeAt(w, at[j - 1])
    BY <1>2, <2>4, <2>5
  <2>7. /\ hs[j] = hs[j - 1] + 2 + SizeAt(s, hs[j - 1])
        /\ at[j] = at[j - 1] + 2 + SizeAt(w, at[j - 1])
        /\ at[j - 1] \in Nat /\ SizeAt(w, at[j - 1]) \in Nat
    <3>1. /\ hs[(j - 1) + 1] = hs[j - 1] + 2 + SizeAt(s, hs[j - 1])
          /\ at[(j - 1) + 1] = at[j - 1] + 2 + SizeAt(w, at[j - 1])
          /\ at[j - 1] \in Nat /\ SizeAt(w, at[j - 1]) \in Nat
      BY <2>4, ChunkAdds, Zenon
    <3> QED
      BY <2>4, <3>1, Zenon
  <2> DEFINE a == at[j - 1]
             n == SizeAt(w, at[j - 1])
  <2>8. a \in Nat /\ n \in Nat /\ hs[j] = (p + a) + 2 + n /\ at[j] = a + 2 + n
    BY <2>5, <2>6, <2>7
  <2> HIDE DEF a, n, T
  <2> QED
    BY <1>0, <2>2, <2>8
<1>4. Len(hs) = Len(at)
  <2>1. ASSUME Len(hs) < Len(at) PROVE FALSE
    <3>1. Len(hs) \in 1 .. Len(hs) /\ Len(hs) \in 1 .. Len(at) /\ Len(hs) \in 1 .. Len(at) - 1
      BY <1>0, <2>1
    <3>2. SizeAt(w, at[Len(hs)]) = SizeAt(s, hs[Len(hs)])
      BY <1>2, <1>3, <3>1
    <3>3. SizeAt(w, at[Len(hs)]) > 0
      BY <3>1, ChunkAdds
    <3>4. SizeAt(s, hs[Len(hs)]) = 0
      BY DEF IsFraming
    <3> QED
      BY <3>2, <3>3, <3>4
  <2>2. ASSUME Len(at) < Len(hs) PROVE FALSE
    <3>1. Len(at) \in 1 .. Len(at) /\ Len(at) \in 1 .. Len(hs) /\ Len(at) \in 1 .. Len(hs) - 1
      BY <1>0, <2>2
    <3>2. SizeAt(w, at[Len(at)]) = SizeAt(s, hs[Len(at)])
      BY <1>2, <1>3, <3>1
    <3>3. SizeAt(s, hs[Len(at)]) > 0
      BY <3>1, ChunkAdds
    <3>4. SizeAt(w, at[Len(at)]) = 0
      BY DEF IsFraming
    <3> QED
      BY <3>2, <3>3, <3>4
  <2> QED
    BY <1>0, <2>1, <2>2
<1> QED
  BY <1>3, <1>4 DEF p
(* Every byte of a framed message is in one of the chunks. *)
LEMMA InSomeChunk ==
  ASSUME NEW w \in Seq(Byte), NEW at \in Seq(Nat), NEW m \in Seq(Byte), NEW f,
         IsFraming(w, at, f, m), NEW j \in 1 .. Len(m)
  PROVE  \E k \in 1 .. Len(at) - 1 : \E i \in 1 .. SizeAt(w, at[k]) :
           j = DataBefore(at, k) + i
<1> DEFINE T == {k \in 1 .. Len(at) : DataBefore(at, k) >= j}
<1>0. /\ Len(at) \in Nat /\ Len(at) >= 1 /\ Len(m) = DataBefore(at, Len(at))
      /\ Len(m) \in Nat
  <2>1. at # <<>> /\ Len(m) = DataBefore(at, Len(at))
    BY Zenon DEF IsFraming
  <2> QED
    BY <2>1
<1>1. Len(at) \in T
  BY <1>0
<1>2. PICK k \in T : \A l \in T : k <= l
  <2>1. T \subseteq Nat
    BY <1>0
  <2> HIDE DEF T
  <2> QED
    BY <1>1, <2>1, LeastNat
<1>3. k \in 1 .. Len(at) /\ DataBefore(at, k) >= j
  BY <1>2
<1>4. k # 1
  <2>1. at[1] \in Nat
    BY <1>0
  <2>2. at[1] - at[1] - 2 * (1 - 1) = 0
    BY <2>1
  <2>3. DataBefore(at, 1) = 0
    BY <2>2, Zenon DEF DataBefore
  <2> QED
    BY <1>3, <2>3
<1>5. /\ k - 1 \in 1 .. Len(at) /\ k - 1 \in 1 .. Len(at) - 1
      /\ ~(k <= k - 1) /\ (k - 1) + 1 = k
  <2> DEFINE la == Len(at)
  <2>1. la \in Nat /\ k \in 1 .. la /\ k # 1
    BY <1>0, <1>3, <1>4
  <2> HIDE DEF la
  <2>2. /\ k - 1 \in 1 .. la /\ k - 1 \in 1 .. la - 1
        /\ ~(k <= k - 1) /\ (k - 1) + 1 = k
    BY <2>1
  <2> QED
    BY <2>2 DEF la
<1>6. ~(DataBefore(at, k - 1) >= j)
  <2>1. k - 1 \notin T
    <3> HIDE DEF T
    <3> QED
      BY <1>2, <1>5, Zenon
  <2> QED
    BY <1>5, <2>1, Zenon
<1> DEFINE d == DataBefore(at, k - 1)
           n == SizeAt(w, at[k - 1])
<1>7. DataBefore(at, k) = d + n /\ n \in Nat
  <2>1. /\ DataBefore(at, (k - 1) + 1) = DataBefore(at, k - 1) + SizeAt(w, at[k - 1])
        /\ SizeAt(w, at[k - 1]) \in Nat
    BY <1>5, ChunkAdds, Zenon
  <2> QED
    BY <1>5, <2>1, Zenon
<1>8. d \in Int
  <2>1. at[k - 1] \in Nat /\ at[1] \in Nat /\ k - 1 \in Nat
    BY <1>0, <1>5
  <2>2. ASSUME NEW x \in Nat, NEW y \in Nat, NEW z \in Nat
        PROVE  x - y - 2 * (z - 1) \in Int
    OBVIOUS
  <2> QED
    BY <2>1, <2>2, Zenon DEF DataBefore
<1> HIDE DEF d, n, T
<1>9. j - d \in 1 .. n /\ j = d + (j - d)
  <2>1. d + n >= j /\ ~(d >= j) /\ j \in Nat
    BY <1>3, <1>6, <1>7, <1>0 DEF d
  <2> QED
    BY <2>1, <1>7, <1>8
<1> QED
  BY <1>5, <1>9, Zenon DEF d, n

(* What was framed at one end is what is read at the other: to the byte,   *)
(* and to the end of the framing.                                          *)
LEMMA SameFraming ==
  ASSUME NEW s \in Seq(Byte), NEW hs \in Seq(Nat), NEW q \in Seq(Byte), NEW e,
         NEW w \in Seq(Byte), NEW at \in Seq(Nat), NEW m \in Seq(Byte),
         IsFraming(s, hs, e, q), IsFraming(w, at, Len(w), m), at[1] = 0,
         Agrees(s, hs[1], w)
  PROVE  q = m /\ e = hs[1] + Len(w)
<1> DEFINE p == hs[1]
           n == Len(at)
<1>1. Len(hs) = n /\ \A k \in 1 .. n : hs[k] = p + at[k]
  BY SameHeaders
<1>2. /\ n \in Nat /\ n >= 1 /\ p \in Nat /\ Len(w) \in Nat
      /\ \A k \in 1 .. n : at[k] \in Nat
  <2>1. at # <<>> /\ hs # <<>>
    BY Zenon DEF IsFraming
  <2>2. /\ n \in Nat /\ n >= 1 /\ p \in Nat
        /\ \A k \in 1 .. n : at[k] \in Nat
    BY <2>1, NotEmpty, Zenon
  <2>3. Len(w) \in Nat
    OBVIOUS
  <2> QED
    BY <2>2, <2>3
<1>3. /\ e = hs[Len(hs)] + 2 /\ Len(w) = at[n] + 2
      /\ Len(q) = DataBefore(hs, Len(hs)) /\ Len(m) = DataBefore(at, n)
  BY Zenon DEF IsFraming
<1> HIDE DEF p, n
<1>4. e = p + Len(w)
  <2>1. n \in 1 .. n
    BY <1>2
  <2>2. at[n] \in Nat /\ hs[n] = p + at[n] /\ e = hs[n] + 2
    BY <1>1, <1>2, <1>3, <2>1
  <2>3. ASSUME NEW x \in Nat PROVE (p + x) + 2 = p + (x + 2)
    BY <1>2
  <2> QED
    BY <1>3, <2>2, <2>3, Zenon
<1>5. \A k \in 1 .. n : DataBefore(hs, k) = DataBefore(at, k)
  <2> SUFFICES ASSUME NEW k \in 1 .. n PROVE DataBefore(hs, k) = DataBefore(at, k)
    OBVIOUS
  <2>1. hs[k] = p + at[k] /\ at[k] \in Nat
    BY <1>1, <1>2
  <2> DEFINE x == at[k]
  <2>2. x \in Nat /\ k \in Nat
    BY <1>2, <2>1
  <2> HIDE DEF x
  <2>3. (p + x) - p - 2 * (k - 1) = x - 0 - 2 * (k - 1)
    BY <1>2, <2>2
  <2> QED
    BY <2>1, <2>3, Zenon DEF DataBefore, p, x
<1>6. Len(q) = Len(m)
  BY <1>1, <1>2, <1>3, <1>5
<1>7. \A j \in 1 .. Len(m) : q[j] = m[j]
  <2> SUFFICES ASSUME NEW j \in 1 .. Len(m) PROVE q[j] = m[j]
    OBVIOUS
  <2>0. PICK k \in 1 .. Len(at) - 1 : \E i \in 1 .. SizeAt(w, at[k]) :
                                        j = DataBefore(at, k) + i
    BY InSomeChunk
  <2>1. PICK i \in 1 .. SizeAt(w, at[k]) : j = DataBefore(at, k) + i
    BY <2>0
  <2>2. k \in 1 .. Len(hs) - 1 /\ k \in 1 .. n /\ k + 1 \in 1 .. n
    BY <1>1, <1>2, <2>1 DEF n
  <2>3. DataBefore(hs, k) = DataBefore(at, k) /\ hs[k] = p + at[k]
    BY <1>1, <1>5, <2>2
  <2>4. /\ at[k] \in Nat /\ SizeAt(w, at[k]) \in Nat
        /\ at[k + 1] = at[k] + 2 + SizeAt(w, at[k]) /\ at[k + 1] + 2 <= Len(w)
        /\ at[k] + 2 <= Len(w)
    BY <2>1, ChunkAdds, Zenon
  <2>5. hs[k + 1] + 2 <= Len(s) /\ hs[k] + 2 <= Len(s) /\ hs[k + 1] = p + at[k + 1]
    <3>1. hs[k + 1] + 2 <= Len(s) /\ hs[k] + 2 <= Len(s)
      BY <2>2, ChunkAdds, Zenon
    <3> QED
      BY <1>1, <2>2, <3>1
  <2>6. SizeAt(s, hs[k]) = SizeAt(w, at[k])
    <3>1. p + at[k] + 2 <= Len(s)
      BY <2>3, <2>5
    <3>2. Agrees(s, p, w)
      BY DEF p
    <3> DEFINE y == at[k]
    <3> HIDE DEF y
    <3>3. y \in Nat /\ y + 2 <= Len(w) /\ p + y + 2 <= Len(s)
      BY <2>4, <3>1 DEF y
    <3>4. SizeAt(s, p + y) = SizeAt(w, y)
      BY <1>2, <3>2, <3>3, SameSize
    <3> QED
      BY <2>3, <3>4, Zenon DEF y
  <2>7. m[j] = w[at[k] + 2 + i] /\ q[j] = s[hs[k] + 2 + i]
    <3>1. w[at[k] + 2 + i] = m[DataBefore(at, k) + i]
      BY <2>1, Zenon DEF IsFraming, IsChunk
    <3>2. s[hs[k] + 2 + i] = q[DataBefore(hs, k) + i]
      BY <2>1, <2>2, <2>6, Zenon DEF IsFraming, IsChunk
    <3> QED
      BY <2>1, <2>3, <3>1, <3>2, Zenon
  <2> DEFINE x == at[k]
             z == SizeAt(w, at[k])
             lw == Len(w)
             ls == Len(s)
  <2>8. /\ x \in Nat /\ z \in Nat /\ lw \in Nat /\ ls \in Nat /\ i \in 1 .. z
        /\ x + 2 + z + 2 <= lw /\ p + (x + 2 + z) + 2 <= ls
    BY <1>2, <2>1, <2>4, <2>5
  <2>9. s[p + (at[k] + 2 + i)] = w[at[k] + 2 + i]
    <3> HIDE DEF x, z, lw, ls
    <3>1. x + 2 + i \in 1 .. lw /\ p + (x + 2 + i) <= ls
      BY <1>2, <2>8
    <3> QED
      BY <3>1, Zenon DEF Agrees, x, lw, ls, p
  <2>10. p + (at[k] + 2 + i) = hs[k] + 2 + i
    <3>1. i \in Nat
      BY <2>8
    <3>2. ASSUME NEW y \in Nat PROVE p + (y + 2 + i) = (p + y) + 2 + i
      BY <1>2, <3>1
    <3> QED
      BY <2>3, <2>4, <3>2, Zenon
  <2> QED
    BY <2>7, <2>9, <2>10
<1>8. q = m
  <2>1. /\ q \in [1 .. Len(q) -> Byte] /\ m \in [1 .. Len(m) -> Byte]
        /\ DOMAIN q = 1 .. Len(q) /\ DOMAIN m = 1 .. Len(m)
    OBVIOUS
  <2> QED
    BY <1>6, <1>7, <2>1
<1> QED
  BY <1>4, <1>8 DEF p

(* When mg_session_receive_message returns 0 and the peer's writer had     *)
(* sent the framing w of a message m from where it began to read, then all *)
(* of w has arrived, in_buffer is m, and the next message begins behind w. *)
ReceivesWhatWasSent ==
  pc = "received" =>
    \A w \in Seq(Byte), at \in Seq(Nat), m \in Seq(Byte) :
      at[1] = 0 /\ IsFraming(w, at, Len(w), m) /\ Agrees(stream, headers[1], w)
        => in_buffer = m /\ pos = headers[1] + Len(w)

(* What a conforming writer sends (WireIsFraming of ChunkWriter) is what   *)
(* the reader hands to the decoder, however send() and recv() cut it; and  *)
(* of a message cut short by a lost connection nothing is handed on, since *)
(* pos cannot pass the end of the stream.                                  *)
THEOREM EndToEnd == Spec => []ReceivesWhatWasSent
<1>1. IInv /\ BufferIsMessage => ReceivesWhatWasSent
  <2> SUFFICES ASSUME IInv, BufferIsMessage, pc = "received",
                      NEW w \in Seq(Byte), NEW at \in Seq(Nat), NEW m \in Seq(Byte),
                      at[1] = 0, IsFraming(w, at, Len(w), m),
                      Agrees(stream, headers[1], w)
               PROVE  in_buffer = m /\ pos = headers[1] + Len(w)
    BY DEF ReceivesWhatWasSent
  <2>1. stream \in Seq(Byte) /\ headers \in Seq(Nat) /\ in_buffer \in Seq(Byte)
    BY DEF IInv, TypeOK
  <2>2. IsFraming(stream, headers, pos, in_buffer)
    BY DEF BufferIsMessage
  <2> QED
    BY <2>1, <2>2, SameFraming
<1> QED
  BY <1>1, Inductive, ReceivedIsMessage, PTL


==============================================================================
