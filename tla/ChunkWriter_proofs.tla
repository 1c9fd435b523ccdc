-------------------------- MODULE ChunkWriter_proofs --------------------------
(* ChunkWriter for every Base, every fragment and any number of messages:  *)
(* out_buffer is never overrun, no chunk is too large for its header, and  *)
(* what is sent is a framing of what was written.                          *)
EXTENDS ChunkWriter, TLAPS

IInv == TypeOK /\ ChunkFits

(* There is room for a byte in an empty buffer. *)
LEMMA MaxChunk == MG_BOLT_MAX_CHUNK_SIZE \in Nat /\ MG_BOLT_MAX_CHUNK_SIZE >= 3
<1>1. Base * Base >= 2 * Base /\ Base * Base \in Nat
  BY BaseAssumption
<1> QED
  BY <1>1, BaseAssumption DEF MG_BOLT_MAX_CHUNK_SIZE

(* The room left in the buffer. *)
LEMMA BufferFree == buffer_free = MG_BOLT_MAX_CHUNK_SIZE - Len(out)
                    \/ Len(out) \notin Nat
<1>1. MG_BOLT_MAX_CHUNK_SIZE \in Int /\ MG_BOLT_CHUNK_HEADER_SIZE = 2
  BY MaxChunk DEF MG_BOLT_CHUNK_HEADER_SIZE
<1> QED
  BY <1>1 DEF buffer_free, out_capacity, out_end

(* A chunk header is two bytes. *)
LEMMA HeaderIsBytes ==
  ASSUME NEW n \in Nat
  PROVE  htobe16(n) \in Seq(Byte) /\ Len(htobe16(n)) = 2
<1>1. n \div Base \in Int
  BY BaseAssumption
<1>2. (n \div Base) % Base \in Byte /\ n % Base \in Byte
  BY <1>1, BaseAssumption DEF Byte
<1> QED
  BY <1>2 DEF htobe16

(* What appending to a buffer, and taking a part of one, give. *)
LEMMA ConcatTypes ==
  ASSUME NEW a \in Seq(Byte), NEW b \in Seq(Byte)
  PROVE  a \o b \in Seq(Byte) /\ Len(a \o b) = Len(a) + Len(b)
OBVIOUS

LEMMA PartTypes ==
  ASSUME NEW s \in Seq(Byte), NEW i \in Nat, NEW j \in Nat,
         i <= j, j <= Len(s)
  PROVE  SubSeq(s, i + 1, j) \in Seq(Byte) /\ Len(SubSeq(s, i + 1, j)) = j - i
OBVIOUS

(* A new session satisfies the inductive invariant ... *)
LEMMA InitIInv == Init => IInv
BY MaxChunk DEF Init, IInv, TypeOK, ChunkFits, Labels

(* ... and every step of a write, a flush or a send keeps it. *)
LEMMA StepIInv == IInv /\ [Next]_vars => IInv'
<1> SUFFICES ASSUME IInv, [Next]_vars PROVE IInv'
  OBVIOUS
<1> USE MaxChunk DEF IInv, TypeOK, ChunkFits, Labels
<1>0. <<0, 0>> \in Seq(Byte) /\ Len(<<0, 0>>) = 2
  BY BaseAssumption DEF Byte
<1>h. Append(headers, Len(wire)) \in Seq(Nat)
  OBVIOUS
<1>1. ASSUME NEW d \in Fragments, mg_session_write_raw(d) PROVE IInv'
  <2>1. d \in Seq(Byte)
    BY FragmentsAssumption
  <2>2. message' \in Seq(Byte)
    BY <1>1, <2>1, ConcatTypes DEF mg_session_write_raw
  <2>3. pc' \in {"ready", "write"}
    BY <1>1 DEF mg_session_write_raw, WriteLoop
  <2> QED
    BY <1>1, <2>1, <2>2, <2>3 DEF mg_session_write_raw
<1>2. CASE FillBuffer
  <2> DEFINE part == SubSeq(data, sent + 1, sent + buffer_free)
  <2>1. buffer_free = MG_BOLT_MAX_CHUNK_SIZE - Len(out) /\ buffer_free \in Nat
        /\ buffer_free >= 1
    <3>1. Len(out) \in Nat /\ Len(out) < MG_BOLT_MAX_CHUNK_SIZE
      BY <1>2 DEF FillBuffer
    <3> HIDE DEF IInv, TypeOK, ChunkFits
    <3> QED
      BY <3>1, BufferFree
  <2>2. sent + buffer_free \in Nat /\ sent + buffer_free <= Len(data)
    BY <1>2, <2>1 DEF FillBuffer
  <2>3. part \in Seq(Byte) /\ Len(part) = buffer_free
    BY <2>1, <2>2, PartTypes, SMTT(30)
  <2>4. out' = out \o part /\ sent' = sent + buffer_free
    BY <1>2 DEF FillBuffer
  <2> HIDE DEF part
  <2>5. out' \in Seq(Byte) /\ Len(out') = MG_BOLT_MAX_CHUNK_SIZE
    BY <2>1, <2>3, <2>4, ConcatTypes
  <2>6. buf' = htobe16(Len(out')) \o out' /\ total_sent' = 0 /\ pc' = "chunk"
    BY <1>2 DEF FillBuffer, mg_session_flush_chunk, StartSend
  <2>7. buf' \in Seq(Byte) /\ Len(buf') \in Nat
    BY <2>5, <2>6, HeaderIsBytes, ConcatTypes
  <2>8. UNCHANGED <<data, message, wire, fragments, messages>>
    BY <1>2 DEF FillBuffer
  <2>9. headers' \in Seq(Nat)
    BY <1>2 DEF FillBuffer, mg_session_flush_chunk, StartSend
  <2> QED
    BY <2>1, <2>2, <2>4, <2>5, <2>6, <2>7, <2>8, <2>9
<1>3. CASE CopyRest
  <2> DEFINE part == SubSeq(data, sent + 1, Len(data))
  <2>1. part \in Seq(Byte) /\ Len(part) = Len(data) - sent
    BY PartTypes
  <2>2. Len(data) - sent < MG_BOLT_MAX_CHUNK_SIZE - Len(out)
    BY <1>3, BufferFree DEF CopyRest
  <2>3. out' = out \o part
    BY <1>3 DEF CopyRest
  <2> HIDE DEF part
  <2>4. out' \in Seq(Byte) /\ Len(out') < MG_BOLT_MAX_CHUNK_SIZE
    BY <2>1, <2>2, <2>3, ConcatTypes
  <2>5. /\ sent' = Len(data) /\ pc' = "ready"
        /\ UNCHANGED <<data, buf, total_sent, message, wire, headers, fragments, messages>>
    BY <1>3 DEF CopyRest
  <2> QED
    BY <2>4, <2>5
<1>4. CASE mg_session_flush_message
  <2>1. CASE out = <<>>
    <3>1. /\ buf' = <<0, 0>> /\ total_sent' = 0 /\ pc' = "end"
          /\ headers' \in Seq(Nat)
          /\ UNCHANGED <<out, data, sent, message, wire, fragments, messages>>
      BY <1>4, <1>h, <2>1 DEF mg_session_flush_message, StartSend
    <3> QED
      BY <1>0, <2>1, <3>1
  <2>2. CASE out # <<>>
    <3>1. Len(out) \in 1 .. MG_BOLT_MAX_CHUNK_SIZE
      BY <1>4, <2>2 DEF mg_session_flush_message
    <3>2. buf' = htobe16(Len(out)) \o out /\ total_sent' = 0 /\ pc' = "last_chunk"
      BY <1>4, <2>2 DEF mg_session_flush_message, mg_session_flush_chunk, StartSend
    <3>3. buf' \in Seq(Byte) /\ Len(buf') \in Nat
      BY <3>1, <3>2, HeaderIsBytes, ConcatTypes
    <3>4. /\ headers' \in Seq(Nat)
          /\ UNCHANGED <<out, data, sent, message, wire, fragments, messages>>
      BY <1>4, <1>h, <2>2 DEF mg_session_flush_message, mg_session_flush_chunk, StartSend
    <3> QED
      BY <3>1, <3>2, <3>3, <3>4
  <2> QED
    BY <2>1, <2>2
<1>5. CASE mg_socket_send
  <2>1. PICK n \in 1 .. Len(buf) - total_sent :
          /\ wire' = wire \o SubSeq(buf, total_sent + 1, total_sent + n)
          /\ total_sent' = total_sent + n
    BY <1>5 DEF mg_socket_send
  <2>2. total_sent' \in 0 .. Len(buf)
    BY <2>1
  <2>3. wire' \in Seq(Byte)
    BY <2>1, <2>2, PartTypes, ConcatTypes
  <2> QED
    BY <1>5, <2>2, <2>3 DEF mg_socket_send
<1>6. CASE mg_socket_send_fails
  BY <1>6 DEF mg_socket_send_fails
<1>7. CASE ChunkSent
  <2>1. CASE pc = "chunk"
    <3>1. /\ out' = <<>> /\ pc' \in {"write", "ready"}
          /\ UNCHANGED <<buf, total_sent, data, sent, message, wire, headers, fragments, messages>>
      BY <1>7, <2>1 DEF ChunkSent, OutReset, WriteLoop
    <3> QED
      BY <3>1
  <2>2. CASE pc = "last_chunk"
    <3>1. /\ out' = <<>> /\ buf' = <<0, 0>> /\ total_sent' = 0 /\ pc' = "end"
          /\ headers' \in Seq(Nat)
          /\ UNCHANGED <<data, sent, message, wire, fragments, messages>>
      BY <1>7, <1>h, <2>2 DEF ChunkSent, OutReset, StartSend
    <3> QED
      BY <1>0, <3>1
  <2> QED
    BY <1>7, <2>1, <2>2 DEF ChunkSent
<1>8. CASE MessageSent
  BY <1>8 DEF MessageSent
<1>9. CASE NextMessage
  BY <1>9 DEF NextMessage
<1>10. CASE UNCHANGED vars
  BY <1>10 DEF vars
<1> QED
  BY <1>1, <1>2, <1>3, <1>4, <1>5, <1>6, <1>7, <1>8, <1>9, <1>10 DEF Next, Finished

(* The state of the writer at every moment. *)
LEMMA Inductive == Spec => []IInv
BY InitIInv, StepIInv, PTL DEF Spec

(* mg_session_write_raw stays inside out_buffer and always makes progress, *)
(* and the abort() of mg_session_flush_chunk is unreachable.               *)
THEOREM WriterStaysInBuffer == Spec => []ChunkFits
<1>1. IInv => ChunkFits
  BY DEF IInv
<1> QED
  BY <1>1, Inductive, PTL

(* The writer's state keeps its type for every Base. *)
THEOREM WriterTypeCorrect == Spec => []TypeOK
<1>1. IInv => TypeOK
  BY DEF IInv
<1> QED
  BY <1>1, Inductive, PTL
----------------------------------------------------------------------------
(* The content of what is sent.  Of a message in the making, the complete  *)
(* chunks are on the wire, the next bytes are in out_buffer, and the rest  *)
(* is what mg_session_write_raw has yet to copy.                           *)

(* The k-th chunk is complete, in the message and on the wire. *)
Complete(s, at, k, m) ==
  /\ IsChunk(s, at, k, m)
  /\ DataBefore(at, k) >= 0
  /\ DataBefore(at, k) + SizeAt(s, at[k]) <= Len(m)
  /\ at[k] + 2 <= Len(s)
  /\ at[k + 1] <= Len(s)

(* t begins with s. *)
Begins(s, t) == Len(s) <= Len(t) /\ \A j \in 1 .. Len(s) : t[j] = s[j]

(* The headers on the wire and the next one. *)
Heads ==
  IF pc \in {"ready", "write"} THEN Append(headers, Len(wire)) ELSE headers

Last == Heads[Len(Heads)]

(* Bytes of the message in complete chunks. *)
Framed == DataBefore(Heads, Len(Heads))

Chunks ==
  /\ Heads # <<>> /\ Heads[1] = 0 /\ Framed >= 0
  /\ \A k \in 1 .. Len(Heads) - 1 : Complete(wire, Heads, k, message)

(* After f bytes, message m goes on with o, and then with d from s on. *)
GoesOn(m, f, o, d, s) ==
  /\ Len(m) = f + Len(o) + (Len(d) - s)
  /\ \A i \in 1 .. Len(o) : m[f + i] = o[i]
  /\ \A i \in 1 .. Len(d) - s : m[f + Len(o) + i] = d[s + i]

(* What follows the complete chunks. *)
Pending ==
  /\ GoesOn(message, Framed, out, data, sent)
  /\ pc \notin {"write", "chunk"} => sent = Len(data)

(* The send in progress: all before total_sent is on the wire. *)
OnTheWire ==
  /\ Sending \/ pc = "flushed" =>
       /\ Len(wire) = Last + total_sent
       /\ \A i \in 1 .. total_sent : wire[Last + i] = buf[i]
  /\ pc \in {"chunk", "last_chunk"} => buf = htobe16(Len(out)) \o out
  /\ pc \in {"end", "flushed"} => buf = <<0, 0>>
  /\ pc = "flushed" => total_sent = 2

Writing == pc # "failed" => Chunks /\ Pending /\ OnTheWire

(* A size on the wire is a number. *)
LEMMA SizeIsNat ==
  ASSUME NEW s \in Seq(Byte), NEW i \in Nat, i + 2 <= Len(s)
  PROVE  SizeAt(s, i) \in Nat
<1>1. s[i + 1] \in Byte /\ s[i + 2] \in Byte
  OBVIOUS
<1>2. s[i + 1] \in Nat /\ s[i + 2] \in Nat
  BY <1>1, BaseAssumption DEF Byte
<1>3. s[i + 1] * Base \in Nat
  BY <1>2, BaseAssumption
<1> QED
  BY <1>2, <1>3 DEF SizeAt

(* A complete chunk stays one when more is sent and more is written. *)
LEMMA ChunkKept ==
  ASSUME NEW s \in Seq(Byte), NEW t \in Seq(Byte),
         NEW at \in Seq(Nat), NEW bt \in Seq(Nat),
         NEW m \in Seq(Byte), NEW q \in Seq(Byte), NEW k \in 1 .. Len(at) - 1,
         Complete(s, at, k, m), Begins(s, t), Begins(at, bt), Begins(m, q)
  PROVE  Complete(t, bt, k, q)
<1>1. {1, k, k + 1} \subseteq 1 .. Len(at) /\ k \in Nat
  OBVIOUS
<1>2. bt[1] = at[1] /\ bt[k] = at[k] /\ bt[k + 1] = at[k + 1]
  BY <1>1 DEF Begins
<1>3. at[1] \in Nat /\ at[k] \in Nat /\ at[k + 1] \in Nat
  BY <1>1
<1>4. DataBefore(bt, k) = DataBefore(at, k) /\ DataBefore(at, k) \in Int
  <2>1. DataBefore(bt, k) = DataBefore(at, k)
    BY <1>2, Zenon DEF DataBefore
  <2>2. ASSUME NEW x \in Nat, NEW y \in Nat
        PROVE  x - y - 2 * (k - 1) \in Int
    BY <1>1
  <2>3. DataBefore(at, k) \in Int
    BY <1>3, <2>2, Zenon DEF DataBefore
  <2> QED
    BY <2>1, <2>3
<1>5. DataBefore(at, k) \in Nat /\ SizeAt(s, at[k]) \in Nat
  <2>1. DataBefore(at, k) >= 0 /\ at[k] + 2 <= Len(s)
    BY DEF Complete
  <2>2. SizeAt(s, at[k]) \in Nat
    BY <1>3, <2>1, SizeIsNat
  <2> QED
    BY <1>4, <2>1, <2>2
<1> DEFINE a == at[k]
           n == SizeAt(s, at[k])
           d == DataBefore(at, k)
           ls == Len(s)
           lm == Len(m)
<1>6. /\ a \in Nat /\ n \in Nat /\ d \in Nat /\ ls \in Nat /\ lm \in Nat
      /\ d + n <= lm /\ a + 2 <= ls /\ a + 2 + n <= ls
  <2>1. /\ DataBefore(at, k) + SizeAt(s, at[k]) <= Len(m)
        /\ at[k] + 2 <= Len(s) /\ at[k + 1] <= Len(s)
        /\ at[k + 1] = at[k] + 2 + SizeAt(s, at[k])
    BY DEF Complete, IsChunk
  <2>2. Len(s) \in Nat /\ Len(m) \in Nat
    OBVIOUS
  <2> QED
    BY <1>3, <1>5, <2>1, <2>2
<1>7. ls <= Len(t) /\ lm <= Len(q) /\ Len(t) \in Nat /\ Len(q) \in Nat
  BY DEF Begins
<1> HIDE DEF a, n, d, ls, lm
<1>8. /\ a + 1 \in 1 .. ls /\ a + 2 \in 1 .. ls
      /\ \A i \in 1 .. n : a + 2 + i \in 1 .. ls /\ d + i \in 1 .. lm
      /\ d >= 0 /\ d + n <= Len(q) /\ a + 2 <= Len(t) /\ a + 2 + n <= Len(t)
  BY <1>6, <1>7
<1>9. SizeAt(t, a) = n
  <2>1. t[a + 1] = s[a + 1] /\ t[a + 2] = s[a + 2]
    BY <1>8 DEF Begins, ls
  <2> QED
    BY <2>1 DEF SizeAt, n, a
<1>10. \A i \in 1 .. n : t[a + 2 + i] = q[d + i]
  <2>1. \A i \in 1 .. n : s[a + 2 + i] = m[d + i]
    BY DEF Complete, IsChunk, a, n, d
  <2>2. \A i \in 1 .. n : t[a + 2 + i] = s[a + 2 + i] /\ q[d + i] = m[d + i]
    BY <1>8 DEF Begins, ls, lm
  <2> QED
    BY <2>1, <2>2
<1>11. bt[k] = a /\ bt[k + 1] = a + 2 + n /\ DataBefore(bt, k) = d /\ n > 0
  BY <1>2, <1>4 DEF Complete, IsChunk, a, n, d
<1> QED
  BY <1>8, <1>9, <1>10, <1>11 DEF Complete, IsChunk

(* A header carries the size of its chunk. *)
LEMMA HeaderSaysSize ==
  ASSUME NEW n \in 0 .. MG_BOLT_MAX_CHUNK_SIZE
  PROVE  htobe16(n)[1] * Base + htobe16(n)[2] = n
<1> DEFINE q == n \div Base
           r == n % Base
<1>1. n \in Nat /\ n < Base * Base /\ Base * Base \in Nat
  BY BaseAssumption DEF MG_BOLT_MAX_CHUNK_SIZE
<1>2. q \in Nat /\ r \in 0 .. Base - 1 /\ n = Base * q + r
  BY <1>1, BaseAssumption
<1>3. q < Base
  <2> HIDE DEF q, r
  <2>1. q >= Base => Base * q >= Base * Base
    BY <1>2, BaseAssumption
  <2>2. Base * q \in Nat
    BY <1>2, BaseAssumption
  <2> QED
    BY <1>1, <1>2, <2>1, <2>2, BaseAssumption
<1>4. q % Base = q
  <2> HIDE DEF q
  <2> QED
    BY <1>2, <1>3, BaseAssumption
<1>5. Base * q = q * Base
  BY <1>2, BaseAssumption
<1> QED
  BY <1>2, <1>4, <1>5 DEF htobe16

(* What appending to a buffer leaves, and adds. *)
LEMMA ConcatBytes ==
  ASSUME NEW a \in Seq(Byte), NEW b \in Seq(Byte)
  PROVE  /\ Begins(a, a \o b)
         /\ \A i \in 1 .. Len(b) : (a \o b)[Len(a) + i] = b[i]
<1>1. Len(a) \in Nat /\ Len(b) \in Nat
  OBVIOUS
<1>2. ASSUME NEW i \in 1 .. Len(b) PROVE (a \o b)[Len(a) + i] = b[i]
  <2>1. /\ Len(a) + i \in 1 .. Len(a) + Len(b) /\ ~(Len(a) + i <= Len(a))
        /\ (Len(a) + i) - Len(a) = i
    BY <1>1
  <2> QED
    BY <2>1
<1>3. \A i \in 1 .. Len(a) : (a \o b)[i] = a[i]
  BY <1>1
<1> QED
  BY <1>1, <1>2, <1>3, ConcatTypes DEF Begins

LEMMA BeginsItself ==
  ASSUME NEW S, NEW s \in Seq(S)
  PROVE  Begins(s, s)
BY DEF Begins
(* Bytes moved from the data to the buffer are the same bytes. *)
LEMMA BytesMoved ==
  ASSUME NEW m \in Seq(Byte), NEW f \in Nat, NEW o \in Seq(Byte), NEW d \in Seq(Byte),
         NEW s \in Nat, NEW j \in Nat, s + j <= Len(d),
         GoesOn(m, f, o, d, s)
  PROVE  GoesOn(m, f, o \o SubSeq(d, s + 1, s + j), d, s + j)
<1> DEFINE part == SubSeq(d, s + 1, s + j)
           lo == Len(o)
           ld == Len(d)
<1>1. /\ part \in Seq(Byte) /\ Len(part) = j
      /\ \A i \in 1 .. j : part[i] = d[s + i]
  OBVIOUS
<1>2. lo \in Nat /\ ld \in Nat /\ s + j <= ld
  OBVIOUS
<1>3. /\ Len(m) = f + lo + (ld - s)
      /\ \A i \in 1 .. lo : m[f + i] = o[i]
      /\ \A i \in 1 .. ld - s : m[f + lo + i] = d[s + i]
  BY DEF GoesOn
<1> HIDE DEF part
<1>4. /\ Len(o \o part) = lo + j
      /\ \A i \in 1 .. lo : (o \o part)[i] = o[i]
      /\ \A i \in 1 .. j : (o \o part)[lo + i] = part[i]
  BY <1>1, ConcatTypes, ConcatBytes DEF Begins
<1> HIDE DEF lo, ld
<1>5. ASSUME NEW i \in 1 .. lo + j PROVE m[f + i] = (o \o part)[i]
  <2>1. CASE i \in 1 .. lo
    BY <1>3, <1>4, <2>1
  <2>2. CASE i \notin 1 .. lo
    <3>1. i - lo \in 1 .. j /\ i - lo \in 1 .. ld - s
      BY <1>2, <2>2
    <3>2. m[f + lo + (i - lo)] = d[s + (i - lo)] /\ (o \o part)[lo + (i - lo)] = d[s + (i - lo)]
      BY <1>1, <1>3, <1>4, <3>1
    <3>3. f + lo + (i - lo) = f + i /\ lo + (i - lo) = i
      BY <1>2
    <3> QED
      BY <3>2, <3>3
  <2> QED
    BY <2>1, <2>2
<1>6. ASSUME NEW i \in 1 .. ld - (s + j) PROVE m[f + (lo + j) + i] = d[(s + j) + i]
  <2>1. j + i \in 1 .. ld - s
    BY <1>2
  <2>2. m[f + lo + (j + i)] = d[s + (j + i)]
    BY <1>3, <2>1
  <2>3. f + lo + (j + i) = f + (lo + j) + i /\ s + (j + i) = (s + j) + i
    BY <1>2
  <2> QED
    BY <2>2, <2>3
<1>7. Len(m) = f + (lo + j) + (ld - (s + j))
  BY <1>2, <1>3
<1>8. GoesOn(m, f, o \o part, d, s + j)
  BY <1>4, <1>5, <1>6, <1>7 DEF GoesOn, ld
<1> QED
  BY <1>8 DEF part

(* A fragment handed to mg_session_write_raw goes on where the buffer ends. *)
LEMMA FragmentAdded ==
  ASSUME NEW m \in Seq(Byte), NEW f \in Nat, NEW o \in Seq(Byte), NEW d \in Seq(Byte),
         NEW e \in Seq(Byte), GoesOn(m, f, o, d, Len(d))
  PROVE  GoesOn(m \o e, f, o, e, 0)
<1> DEFINE lo == Len(o)
           lm == Len(m)
           le == Len(e)
<1>1. lo \in Nat /\ lm \in Nat /\ le \in Nat
  OBVIOUS
<1>2. lm = f + lo
  <2>1. Len(d) - Len(d) = 0
    OBVIOUS
  <2> QED
    BY <1>1, <2>1 DEF GoesOn
<1>3. \A i \in 1 .. lo : m[f + i] = o[i]
  BY DEF GoesOn
<1>4. /\ Len(m \o e) = lm + le
      /\ \A i \in 1 .. lm : (m \o e)[i] = m[i]
      /\ \A i \in 1 .. le : (m \o e)[lm + i] = e[i]
  BY ConcatTypes, ConcatBytes DEF Begins
<1> HIDE DEF lo, lm, le
<1>5. ASSUME NEW i \in 1 .. lo PROVE (m \o e)[f + i] = o[i]
  <2>1. f + i \in 1 .. lm
    BY <1>1, <1>2
  <2> QED
    BY <1>3, <1>4, <2>1
<1>6. ASSUME NEW i \in 1 .. le - 0 PROVE (m \o e)[f + lo + i] = e[0 + i]
  <2>1. i \in 1 .. le /\ 0 + i = i
    BY <1>1
  <2> QED
    BY <1>2, <1>4, <2>1
<1>7. Len(m \o e) = f + lo + (le - 0)
  BY <1>1, <1>2, <1>4
<1> QED
  BY <1>5, <1>6, <1>7 DEF GoesOn, lo, le
(* Nor do they change when the buffer has become a chunk. *)
LEMMA BufferSent ==
  ASSUME NEW m \in Seq(Byte), NEW f \in Nat, NEW o \in Seq(Byte), NEW d \in Seq(Byte),
         NEW s \in Nat, s <= Len(d), GoesOn(m, f, o, d, s)
  PROVE  GoesOn(m, f + Len(o), <<>>, d, s)
<1> DEFINE lo == Len(o)
           ld == Len(d)
<1>1. lo \in Nat /\ ld \in Nat /\ Len(<<>>) = 0
  OBVIOUS
<1>2. /\ Len(m) = f + lo + (ld - s)
      /\ \A i \in 1 .. ld - s : m[f + lo + i] = d[s + i]
  BY DEF GoesOn
<1> HIDE DEF lo, ld
<1>3. f + lo + 0 = f + lo
  BY <1>1
<1>4. GoesOn(m, f + lo, <<>>, d, s)
  BY <1>1, <1>2, <1>3 DEF GoesOn, ld
<1> QED
  BY <1>4 DEF lo

(* The complete chunks stay complete while the headers are the same. *)
LEMMA ChunksKept ==
  ASSUME TypeOK, TypeOK', Chunks, Heads' = Heads,
         Begins(wire, wire'), Begins(message, message')
  PROVE  Chunks' /\ Framed' = Framed /\ Last' = Last
<1>1. Framed' = Framed /\ Last' = Last
  BY DEF Framed, Last
<1>2. /\ Heads \in Seq(Nat) /\ wire \in Seq(Byte) /\ wire' \in Seq(Byte)
      /\ message \in Seq(Byte) /\ message' \in Seq(Byte)
  BY DEF TypeOK, Heads
<1>3. Begins(Heads, Heads)
  BY <1>2, BeginsItself
<1>4. \A k \in 1 .. Len(Heads) - 1 : Complete(wire', Heads, k, message')
  BY <1>2, <1>3, ChunkKept DEF Chunks
<1> QED
  BY <1>1, <1>4 DEF Chunks

(* Where the next header goes, and how much is framed. *)
LEMMA HeadsTypes ==
  ASSUME TypeOK, Chunks
  PROVE  /\ Heads \in Seq(Nat) /\ Len(Heads) \in Nat /\ Len(Heads) >= 1
         /\ Last \in Nat /\ Framed \in Nat
         /\ Framed = Last - 2 * (Len(Heads) - 1)
<1>1. Heads \in Seq(Nat) /\ Heads # <<>> /\ Heads[1] = 0
  BY DEF TypeOK, Heads, Chunks
<1>2. Len(Heads) \in Nat /\ Len(Heads) >= 1
  BY <1>1
<1>3. Last \in Nat
  BY <1>1, <1>2 DEF Last
<1>4. Framed = Last - 0 - 2 * (Len(Heads) - 1)
  BY <1>1 DEF Framed, DataBefore, Last
<1> DEFINE n == Len(Heads)
<1>5. n \in Nat /\ n >= 1
  BY <1>2
<1> HIDE DEF n
<1>6. Last - 0 - 2 * (n - 1) = Last - 2 * (n - 1) /\ Last - 2 * (n - 1) \in Int
  BY <1>3, <1>5
<1>7. Framed = Last - 2 * (Len(Heads) - 1) /\ Framed \in Int
  BY <1>4, <1>6 DEF n
<1> QED
  BY <1>1, <1>2, <1>3, <1>7 DEF Chunks

(* Steps that add no chunk and send nothing. *)
LEMMA WriteKeeps ==
  ASSUME IInv, TypeOK', Writing, NEW d \in Fragments, mg_session_write_raw(d)
  PROVE  Writing'
<1>1. /\ pc = "ready" /\ data' = d /\ sent' = 0 /\ pc' \in {"ready", "write"}
      /\ message' = message \o d /\ UNCHANGED <<out, wire, headers>>
      /\ (pc' = "ready" => Len(d) = 0)
  <2>1. d \in Seq(Byte) /\ Len(d) \in Nat
    BY FragmentsAssumption
  <2> QED
    BY <2>1 DEF mg_session_write_raw, WriteLoop
<1>2. Chunks /\ Pending /\ sent = Len(data)
  BY <1>1 DEF Writing, Pending
<1>3. /\ message \in Seq(Byte) /\ out \in Seq(Byte) /\ data \in Seq(Byte) /\ d \in Seq(Byte)
      /\ wire \in Seq(Byte) /\ TypeOK
  BY FragmentsAssumption DEF IInv, TypeOK
<1>4. Heads' = Heads
  BY <1>1 DEF Heads
<1>5. Begins(wire, wire') /\ Begins(message, message')
  BY <1>1, <1>3, ConcatBytes, BeginsItself
<1>6. Chunks' /\ Framed' = Framed
  BY <1>2, <1>3, <1>4, <1>5, ChunksKept
<1>7. GoesOn(message', Framed', out', data', sent')
  <2>1. Framed \in Nat
    BY <1>2, <1>3, HeadsTypes
  <2>2. GoesOn(message \o d, Framed, out, d, 0)
    BY <1>2, <1>3, <2>1, FragmentAdded DEF Pending
  <2> QED
    BY <1>1, <1>6, <2>2
<1>8. OnTheWire'
  BY <1>1 DEF OnTheWire, Sending
<1> QED
  BY <1>1, <1>6, <1>7, <1>8 DEF Writing, Pending

(* Copying into the buffer. *)
LEMMA CopyKeeps ==
  ASSUME IInv, TypeOK', Writing, FillBuffer \/ CopyRest
  PROVE  Writing'
<1>1. pc = "write" /\ UNCHANGED <<data, message, wire>>
  BY DEF FillBuffer, CopyRest
<1>2. Chunks /\ Pending
  BY <1>1 DEF Writing
<1>3. /\ message \in Seq(Byte) /\ out \in Seq(Byte) /\ data \in Seq(Byte)
      /\ wire \in Seq(Byte) /\ headers \in Seq(Nat) /\ sent \in Nat /\ sent <= Len(data)
      /\ Len(data) \in Nat /\ Len(wire) \in Nat /\ TypeOK
  <2>1. TypeOK
    BY DEF IInv
  <2>2. /\ message \in Seq(Byte) /\ out \in Seq(Byte) /\ data \in Seq(Byte)
        /\ wire \in Seq(Byte) /\ headers \in Seq(Nat) /\ sent \in 0 .. Len(data)
    BY <2>1 DEF TypeOK
  <2>3. Len(data) \in Nat /\ Len(wire) \in Nat
    BY <2>2
  <2> QED
    BY <2>1, <2>2, <2>3
<1>4. Heads = Append(headers, Len(wire)) /\ Last = Len(wire)
  <2>1. Heads = Append(headers, Len(wire))
    BY <1>1 DEF Heads
  <2> QED
    BY <1>3, <2>1 DEF Last
<1>5. PICK j \in Nat : /\ sent + j <= Len(data) /\ sent' = sent + j
                       /\ out' = out \o SubSeq(data, sent + 1, sent + j)
                       /\ pc' \notin {"write", "chunk"} => sent + j = Len(data)
  <2>1. CASE FillBuffer
    <3>1. /\ Len(data) - sent >= buffer_free /\ pc' = "chunk"
          /\ out' = out \o SubSeq(data, sent + 1, sent + buffer_free)
          /\ sent' = sent + buffer_free
      BY <2>1 DEF FillBuffer, mg_session_flush_chunk, StartSend
    <3>2. buffer_free \in Nat
      <4>1. Len(out) \in Nat /\ Len(out) < MG_BOLT_MAX_CHUNK_SIZE
        BY <1>1, <1>3 DEF IInv, ChunkFits
      <4> QED
        BY <4>1, BufferFree, MaxChunk
    <3>3. sent + buffer_free <= Len(data)
      BY <1>3, <3>1, <3>2
    <3> QED
      BY <3>1, <3>2, <3>3
  <2>2. CASE CopyRest
    <3>1. Len(data) - sent \in Nat /\ sent + (Len(data) - sent) = Len(data)
      BY <1>3
    <3>2. out' = out \o SubSeq(data, sent + 1, Len(data)) /\ sent' = Len(data)
      BY <2>2 DEF CopyRest
    <3>3. Len(data) <= Len(data)
      BY <1>3
    <3> QED
      BY <3>1, <3>2, <3>3
  <2> QED
    BY <2>1, <2>2
<1>6. Heads' = Heads
  <2>1. CASE FillBuffer
    BY <1>4, <2>1 DEF FillBuffer, mg_session_flush_chunk, StartSend, Heads
  <2>2. CASE CopyRest
    BY <1>1, <2>2 DEF CopyRest, Heads
  <2> QED
    BY <2>1, <2>2
<1>7. Chunks' /\ Framed' = Framed /\ Last' = Last
  BY <1>1, <1>2, <1>3, <1>6, ChunksKept, BeginsItself
<1>8. GoesOn(message', Framed', out', data', sent')
  <2>1. Framed \in Nat
    BY <1>2, <1>3, HeadsTypes
  <2>2. GoesOn(message, Framed, out \o SubSeq(data, sent + 1, sent + j), data, sent + j)
    BY <1>2, <1>3, <1>5, <2>1, BytesMoved DEF Pending
  <2> QED
    BY <1>1, <1>5, <1>7, <2>2
<1>9. Pending'
  BY <1>1, <1>5, <1>8 DEF Pending
<1>10. OnTheWire'
  <2>1. CASE FillBuffer
    <3>1. pc' = "chunk" /\ total_sent' = 0 /\ buf' = htobe16(Len(out')) \o out'
      BY <2>1 DEF FillBuffer, mg_session_flush_chunk, StartSend
    <3>2. Len(wire) = Last + 0
      BY <1>3, <1>4
    <3> QED
      BY <1>1, <1>7, <3>1, <3>2 DEF OnTheWire, Sending
  <2>2. CASE CopyRest
    BY <2>2 DEF CopyRest, OnTheWire, Sending
  <2> QED
    BY <2>1, <2>2
<1> QED
  BY <1>7, <1>9, <1>10 DEF Writing
(* The end of a message: its last bytes become a chunk, or its end marker  *)
(* is sent.                                                                *)
LEMMA FlushKeeps ==
  ASSUME IInv, TypeOK', Writing, mg_session_flush_message
  PROVE  Writing'
<1>1. /\ pc = "ready" /\ UNCHANGED <<out, data, sent, message, wire>>
      /\ total_sent' = 0 /\ headers' = Append(headers, Len(wire))
      /\ \/ pc' = "end" /\ buf' = <<0, 0>>
         \/ pc' = "last_chunk" /\ buf' = htobe16(Len(out)) \o out
  BY DEF mg_session_flush_message, mg_session_flush_chunk, StartSend
<1>2. Chunks /\ Pending
  BY <1>1 DEF Writing
<1>3. /\ message \in Seq(Byte) /\ wire \in Seq(Byte) /\ headers \in Seq(Nat)
      /\ Len(wire) \in Nat /\ TypeOK
  BY DEF IInv, TypeOK
<1>4. Heads = Append(headers, Len(wire)) /\ Heads' = Heads
  BY <1>1 DEF Heads
<1>5. Last = Len(wire)
  BY <1>3, <1>4 DEF Last
<1>6. Chunks' /\ Framed' = Framed /\ Last' = Last
  BY <1>1, <1>2, <1>3, <1>4, ChunksKept, BeginsItself
<1>7. Pending'
  BY <1>1, <1>2, <1>6 DEF Pending
<1>8. Len(wire) = Last + 0
  BY <1>3, <1>5
<1>9. OnTheWire'
  BY <1>1, <1>6, <1>8 DEF OnTheWire, Sending
<1> QED
  BY <1>6, <1>7, <1>9 DEF Writing

(* One send(). *)
LEMMA SendKeeps ==
  ASSUME IInv, TypeOK', Writing, mg_socket_send
  PROVE  Writing'
<1>1. /\ Sending /\ UNCHANGED <<out, data, sent, buf, pc, message, headers>>
  BY DEF mg_socket_send
<1>2. Chunks /\ Pending /\ OnTheWire
  BY <1>1 DEF Writing, Sending
<1>3. /\ message \in Seq(Byte) /\ wire \in Seq(Byte) /\ buf \in Seq(Byte)
      /\ total_sent \in Nat /\ Len(buf) \in Nat /\ total_sent <= Len(buf) /\ TypeOK
  BY DEF IInv, TypeOK
<1>4. PICK n \in 1 .. Len(buf) - total_sent :
        /\ wire' = wire \o SubSeq(buf, total_sent + 1, total_sent + n)
        /\ total_sent' = total_sent + n
  BY DEF mg_socket_send
<1> DEFINE part == SubSeq(buf, total_sent + 1, total_sent + n)
<1>5. /\ n \in Nat /\ part \in Seq(Byte) /\ Len(part) = n
      /\ \A i \in 1 .. n : part[i] = buf[total_sent + i]
  BY <1>3
<1> HIDE DEF part
<1>6. Heads' = Heads
  BY <1>1 DEF Heads, Sending
<1>7. /\ wire' = wire \o part /\ Len(wire') = Len(wire) + n
      /\ Begins(wire, wire')
      /\ \A i \in 1 .. n : wire'[Len(wire) + i] = buf[total_sent + i]
  <2>1. wire' = wire \o part
    BY <1>4 DEF part
  <2>2. Len(wire') = Len(wire) + n
    BY <1>3, <1>5, <2>1, ConcatTypes
  <2>3. /\ Begins(wire, wire')
        /\ \A i \in 1 .. n : wire'[Len(wire) + i] = part[i]
    BY <1>3, <1>5, <2>1, ConcatBytes, Zenon
  <2> QED
    BY <1>5, <2>1, <2>2, <2>3, Zenon
<1>8. Chunks' /\ Framed' = Framed /\ Last' = Last
  BY <1>1, <1>2, <1>3, <1>6, <1>7, ChunksKept, BeginsItself
<1>9. Pending'
  BY <1>1, <1>2, <1>8 DEF Pending
<1> DEFINE l == Last
           w == Len(wire)
<1>10. /\ l \in Nat /\ w \in Nat /\ w = l + total_sent
       /\ \A i \in 1 .. total_sent : wire[l + i] = buf[i]
  BY <1>1, <1>2, <1>3, HeadsTypes DEF OnTheWire
<1>11. /\ \A i \in 1 .. w : wire'[i] = wire[i]
       /\ \A i \in 1 .. n : wire'[w + i] = buf[total_sent + i]
  BY <1>7 DEF Begins
<1> HIDE DEF l, w
<1>12. ASSUME NEW i \in 1 .. total_sent + n PROVE wire'[l + i] = buf[i]
  <2>1. CASE i <= total_sent
    <3>1. i \in 1 .. total_sent /\ l + i \in 1 .. w
      BY <1>3, <1>10, <2>1
    <3> QED
      BY <1>10, <1>11, <3>1
  <2>2. CASE ~(i <= total_sent)
    <3>1. i - total_sent \in 1 .. n /\ w + (i - total_sent) = l + i
          /\ total_sent + (i - total_sent) = i
      BY <1>3, <1>5, <1>10, <2>2
    <3> QED
      BY <1>11, <3>1
  <2> QED
    BY <2>1, <2>2
<1>13. Len(wire') = l + (total_sent + n)
  <2>1. Len(wire') = w + n
    BY <1>7 DEF w
  <2> QED
    BY <1>3, <1>5, <1>10, <2>1
<1>14. OnTheWire'
  <2>1. Len(wire') = Last' + total_sent'
    BY <1>4, <1>8, <1>13 DEF l
  <2>2. \A i \in 1 .. total_sent' : wire'[Last' + i] = buf'[i]
    BY <1>1, <1>4, <1>8, <1>12 DEF l
  <2> QED
    BY <1>1, <1>2, <2>1, <2>2 DEF OnTheWire, Sending
<1> QED
  BY <1>8, <1>9, <1>14 DEF Writing
(* The chunk in the buffer is sent to its last byte: it is complete. *)
LEMMA ChunkCompleted ==
  ASSUME IInv, TypeOK', Writing, ChunkSent
  PROVE  Writing'
<1>1. /\ pc \in {"chunk", "last_chunk"} /\ total_sent = Len(buf) /\ out' = <<>>
      /\ UNCHANGED <<data, sent, message, wire>>
  BY DEF ChunkSent, OutReset
<1>2. Chunks /\ Pending /\ OnTheWire
  BY <1>1 DEF Writing
<1>3. /\ message \in Seq(Byte) /\ wire \in Seq(Byte) /\ out \in Seq(Byte)
      /\ data \in Seq(Byte) /\ headers \in Seq(Nat)
      /\ sent \in Nat /\ sent <= Len(data) /\ Len(data) \in Nat /\ TypeOK
  BY DEF IInv, TypeOK
<1>4. Heads = headers
  BY <1>1 DEF Heads
<1>5. /\ Heads' = Append(headers, Len(wire))
      /\ \/ pc' \in {"ready", "write"} /\ (pc' = "ready" => sent = Len(data))
         \/ pc = "last_chunk" /\ pc' = "end" /\ buf' = <<0, 0>> /\ total_sent' = 0
  <2>1. CASE pc = "chunk"
    <3>1. pc' = WriteLoop(sent, data) /\ headers' = headers
      BY <2>1 DEF ChunkSent
    <3>2. pc' \in {"ready", "write"} /\ (pc' = "ready" => sent = Len(data))
      BY <1>3, <3>1 DEF WriteLoop
    <3> QED
      BY <1>1, <3>1, <3>2 DEF Heads
  <2>2. CASE pc = "last_chunk"
    BY <1>1, <2>2 DEF ChunkSent, StartSend, Heads
  <2> QED
    BY <1>1, <2>1, <2>2
<1> DEFINE n == Len(headers)
           l == Last
           o == Len(out)
           w == Len(wire)
<1>6. /\ n \in Nat /\ n >= 1 /\ l \in Nat /\ Framed \in Nat /\ w \in Nat
      /\ l = headers[n] /\ headers[1] = 0 /\ Framed = l - 2 * (n - 1)
  BY <1>2, <1>3, <1>4, HeadsTypes DEF Last, Chunks
<1>7. o \in 1 .. MG_BOLT_MAX_CHUNK_SIZE /\ o \in Nat
  BY <1>1, MaxChunk DEF IInv, ChunkFits
<1>8. /\ Len(buf) = 2 + o
      /\ buf[1] = htobe16(o)[1] /\ buf[2] = htobe16(o)[2]
      /\ \A i \in 1 .. o : buf[2 + i] = out[i]
  <2>1. buf = htobe16(o) \o out /\ htobe16(o) \in Seq(Byte) /\ Len(htobe16(o)) = 2
    BY <1>1, <1>2, <1>7, HeaderIsBytes DEF OnTheWire
  <2> DEFINE h == htobe16(o)
  <2> HIDE DEF h
  <2>2. h \in Seq(Byte) /\ Len(h) = 2 /\ buf = h \o out
    BY <2>1 DEF h
  <2>3. Len(h \o out) = 2 + o /\ Begins(h, h \o out)
        /\ \A i \in 1 .. o : (h \o out)[2 + i] = out[i]
    <3>1. Len(h \o out) = Len(h) + Len(out) /\ Begins(h, h \o out)
      BY <1>3, <2>2, ConcatTypes, ConcatBytes
    <3>2. \A i \in 1 .. Len(out) : (h \o out)[Len(h) + i] = out[i]
      BY <1>3, <2>2, ConcatBytes
    <3> QED
      BY <2>2, <3>1, <3>2
  <2>4. buf[1] = h[1] /\ buf[2] = h[2]
    BY <2>2, <2>3 DEF Begins
  <2> QED
    BY <2>2, <2>3, <2>4 DEF h
<1>9. w = l + 2 + o /\ \A i \in 1 .. 2 + o : wire[l + i] = buf[i]
  <2>1. w = l + (2 + o) /\ \A i \in 1 .. 2 + o : wire[l + i] = buf[i]
    BY <1>1, <1>2, <1>8 DEF OnTheWire, Sending
  <2>2. l + (2 + o) = l + 2 + o
    <3> HIDE DEF l, o
    <3> QED
      BY <1>6, <1>7
  <2> QED
    BY <2>1, <2>2
<1>10. \A i \in 1 .. o : message[Framed + i] = out[i]
  BY <1>2 DEF Pending, GoesOn
<1>11. o \in 0 .. MG_BOLT_MAX_CHUNK_SIZE /\ Framed + o <= Len(message)
  <2>1. Len(message) = Framed + o + (Len(data) - sent)
    BY <1>2 DEF Pending, GoesOn
  <2> HIDE DEF o
  <2> QED
    BY <1>3, <1>6, <1>7, <2>1, MaxChunk
<1>12. /\ Heads' \in Seq(Nat) /\ Len(Heads') = n + 1
       /\ \A k \in 1 .. n : Heads'[k] = headers[k]
       /\ Heads'[n + 1] = w
  BY <1>3, <1>5
<1> HIDE DEF n, l, o, w
<1>13. SizeAt(wire, l) = o
  <2>1. 1 \in 1 .. 2 + o /\ 2 \in 1 .. 2 + o
    BY <1>7
  <2>2. wire[l + 1] = htobe16(o)[1] /\ wire[l + 2] = htobe16(o)[2]
    BY <1>8, <1>9, <2>1
  <2> QED
    BY <1>11, <2>2, HeaderSaysSize DEF SizeAt
<1>14. \A i \in 1 .. o : wire[l + 2 + i] = message[Framed + i]
  <2>1. ASSUME NEW i \in 1 .. o PROVE wire[l + 2 + i] = message[Framed + i]
    <3>1. 2 + i \in 1 .. 2 + o /\ l + (2 + i) = l + 2 + i
      BY <1>6, <1>7
    <3> QED
      BY <1>8, <1>9, <1>10, <3>1
  <2> QED
    BY <2>1
<1>15. /\ Heads'[1] = 0 /\ Heads'[n] = l
       /\ DataBefore(Heads', n) = Framed /\ DataBefore(Heads', n + 1) = Framed + o
  <2>1. Heads'[1] = 0 /\ Heads'[n] = l
    BY <1>6, <1>12
  <2>2. DataBefore(Heads', n) = l - 0 - 2 * (n - 1)
        /\ DataBefore(Heads', n + 1) = w - 0 - 2 * ((n + 1) - 1)
    BY <1>12, <2>1 DEF DataBefore
  <2> QED
    BY <1>6, <1>7, <1>9, <2>1, <2>2
<1>16. Complete(wire, Heads', n, message)
  <2>1. IsChunk(wire, Heads', n, message)
    BY <1>7, <1>9, <1>12, <1>13, <1>14, <1>15 DEF IsChunk
  <2>2. l + 2 <= w /\ w <= w
    BY <1>6, <1>7, <1>9
  <2> QED
    BY <1>6, <1>11, <1>12, <1>13, <1>15, <2>1, <2>2 DEF Complete, w
<1>17. \A k \in 1 .. n - 1 : Complete(wire, Heads', k, message)
  <2>1. Begins(headers, Heads')
    <3>1. n <= n + 1
      BY <1>6
    <3> QED
      BY <1>12, <3>1 DEF Begins, n
  <2> QED
    BY <1>2, <1>3, <1>4, <1>12, <2>1, ChunkKept, BeginsItself DEF Chunks, n
<1>18. Framed' = Framed + o
  BY <1>12, <1>15 DEF Framed
<1>19. Chunks'
  <2>1. \A k \in 1 .. (n + 1) - 1 : Complete(wire, Heads', k, message)
    BY <1>6, <1>16, <1>17
  <2>2. Framed' >= 0
    BY <1>6, <1>7, <1>18
  <2>3. Heads' # <<>>
    BY <1>6, <1>12
  <2> QED
    BY <1>1, <1>12, <1>15, <2>1, <2>2, <2>3 DEF Chunks
<1>20. Pending'
  <2>1. GoesOn(message, Framed + Len(out), <<>>, data, sent)
    BY <1>2, <1>3, <1>6, BufferSent DEF Pending
  <2>2. pc' \notin {"write", "chunk"} => sent = Len(data)
    BY <1>2, <1>5 DEF Pending
  <2> QED
    BY <1>1, <1>18, <2>1, <2>2 DEF Pending, o
<1>21. OnTheWire'
  <2>1. Last' = w /\ w = w + 0
    BY <1>6, <1>12 DEF Last
  <2> QED
    BY <1>1, <1>5, <2>1 DEF OnTheWire, Sending, w
<1> QED
  BY <1>19, <1>20, <1>21 DEF Writing

(* A message in the making stays one in every step. *)
LEMMA StepWriting == IInv /\ Writing /\ [Next]_vars => Writing'
<1> SUFFICES ASSUME IInv, Writing, [Next]_vars PROVE Writing'
  OBVIOUS
<1>0. TypeOK /\ TypeOK'
  BY StepIInv DEF IInv
<1>1. ASSUME NEW d \in Fragments, mg_session_write_raw(d) PROVE Writing'
  BY <1>0, <1>1, WriteKeeps
<1>2. CASE FillBuffer \/ CopyRest
  BY <1>0, <1>2, CopyKeeps
<1>3. CASE mg_session_flush_message
  BY <1>0, <1>3, FlushKeeps
<1>4. CASE mg_socket_send
  BY <1>0, <1>4, SendKeeps
<1>5. CASE mg_socket_send_fails
  BY <1>5 DEF mg_socket_send_fails, Writing
<1>6. CASE ChunkSent
  BY <1>0, <1>6, ChunkCompleted
<1>7. CASE MessageSent
  <2>1. /\ pc = "end" /\ total_sent = Len(buf) /\ pc' = "flushed"
        /\ UNCHANGED <<out, data, sent, buf, total_sent, message, wire, headers>>
    BY <1>7 DEF MessageSent
  <2>2. Chunks /\ Pending /\ OnTheWire /\ Heads' = Heads
    BY <2>1 DEF Writing, Heads
  <2>3. Chunks' /\ Framed' = Framed /\ Last' = Last
    BY <1>0, <2>1, <2>2, ChunksKept, BeginsItself DEF TypeOK
  <2>4. buf = <<0, 0>> /\ total_sent = 2
    BY <2>1, <2>2 DEF OnTheWire
  <2>5. Pending' /\ OnTheWire'
    BY <2>1, <2>2, <2>3, <2>4 DEF Pending, OnTheWire, Sending
  <2> QED
    BY <2>3, <2>5 DEF Writing
<1>8. CASE NextMessage
  <2>1. /\ pc = "flushed" /\ pc' = "ready" /\ message' = <<>> /\ wire' = <<>>
        /\ headers' = <<>> /\ UNCHANGED <<out, data, sent>>
    BY <1>8 DEF NextMessage
  <2>2. out = <<>> /\ sent = Len(data) /\ Len(data) - Len(data) = 0 /\ Len(data) \in Nat
    BY <1>0, <2>1 DEF IInv, ChunkFits, Writing, Pending, TypeOK
  <2>3. Heads' = <<0>>
    BY <2>1 DEF Heads
  <2>4. Framed' = 0 /\ Chunks'
    BY <2>3 DEF Framed, DataBefore, Chunks
  <2>5. GoesOn(<<>>, 0, <<>>, data, Len(data))
    BY <2>2 DEF GoesOn
  <2>6. Pending'
    BY <2>1, <2>2, <2>4, <2>5 DEF Pending
  <2>7. OnTheWire'
    BY <2>1 DEF OnTheWire, Sending
  <2> QED
    BY <2>4, <2>6, <2>7 DEF Writing
<1>9. CASE UNCHANGED vars
  <2>1. Heads' = Heads /\ Framed' = Framed /\ Last' = Last
    BY <1>9 DEF vars, Heads, Framed, Last
  <2> QED
    BY <1>9, <2>1 DEF vars, Writing, Chunks, Pending, OnTheWire, Sending
<1> QED
  BY <1>1, <1>2, <1>3, <1>4, <1>5, <1>6, <1>7, <1>8, <1>9 DEF Next, Finished

(* For every Base, every way the encoder cuts a message into fragments and *)
(* send() into parts: what mg_session_flush_message has sent when it       *)
(* returns 0 is a framing of what was written.                             *)
THEOREM SentIsFraming == Spec => []WireIsFraming
<1>1. Init => Writing
  <2> SUFFICES ASSUME Init PROVE Writing
    OBVIOUS
  <2>1. Heads = <<0>> /\ message = <<>> /\ out = <<>> /\ data = <<>> /\ sent = 0 /\ pc = "ready"
    BY DEF Init, Heads
  <2>2. Framed = 0 /\ Chunks
    BY <2>1 DEF Framed, DataBefore, Chunks
  <2> QED
    BY <2>1, <2>2 DEF Writing, Pending, GoesOn, OnTheWire, Sending
<1>2. IInv /\ Writing => WireIsFraming
  <2> SUFFICES ASSUME IInv, Writing, pc = "flushed"
               PROVE  headers[1] = 0 /\ IsFraming(wire, headers, Len(wire), message)
    BY DEF WireIsFraming
  <2>1. Chunks /\ Pending /\ OnTheWire /\ Heads = headers /\ TypeOK
    BY DEF Writing, Heads, IInv
  <2>2. Last \in Nat /\ Framed \in Nat
    BY <2>1, HeadsTypes
  <2>3. Len(message) = Framed
    <3>1. out = <<>> /\ sent = Len(data) /\ Len(data) \in Nat
      BY <2>1 DEF IInv, ChunkFits, Pending, TypeOK
    <3>2. Len(message) = Framed + 0 + (Len(data) - Len(data))
      BY <2>1, <3>1 DEF Pending, GoesOn
    <3> QED
      BY <2>2, <3>1, <3>2
  <2>4. Len(wire) = Last + 2 /\ wire[Last + 1] = 0 /\ wire[Last + 2] = 0
    BY <2>1 DEF OnTheWire
  <2>5. SizeAt(wire, Last) = 0
    <3>1. 0 * Base + 0 = 0
      BY BaseAssumption
    <3> QED
      BY <2>4, <3>1 DEF SizeAt
  <2> QED
    BY <2>1, <2>3, <2>4, <2>5 DEF IsFraming, Chunks, Complete, Framed, Last
<1> QED
  BY <1>1, <1>2, StepWriting, Inductive, PTL DEF Spec


==============================================================================
