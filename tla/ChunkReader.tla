----------------------------- MODULE ChunkReader -----------------------------
(***************************************************************************)
(* The receiving half of a session: mg_session_receive_message reads       *)
(* chunks into in_buffer, enlarging it when a chunk does not fit, up to    *)
(* the end marker.  The peer may send any bytes and close the connection   *)
(* anywhere; recv() may return any part of what was asked for, or fail;    *)
(* memory may run out.                                                     *)
(***************************************************************************)
EXTENDS ChunkFormat

CONSTANT MaxStream  \* bound: bytes the peer sends

VARIABLES
  stream,      \* what the peer sends before it closes the connection
  pos,         \* bytes of it taken by recv()
  in_buffer,   \* in_buffer up to in_end
  in_capacity,
  chunk_size,  \* local of mg_session_read_chunk
  buf,         \* what mg_transport_recv has got so far
  pc,          \* what the session is doing
  headers      \* history: pos where this message's chunk headers began

vars == <<stream, pos, in_buffer, in_capacity, chunk_size, buf, pc, headers>>

Init ==
  /\ stream \in UNION {[1 .. n -> Byte] : n \in 0 .. MaxStream}
  /\ pos = 0 /\ headers = <<>>
  /\ in_buffer = <<>>
  /\ in_capacity = MG_BOLT_MAX_CHUNK_SIZE
  /\ chunk_size = 0
  /\ buf = <<>>
  /\ pc = "idle"

in_end == Len(in_buffer)

----------------------------------------------------------------------------
(* mg_session_read_chunk, from its first mg_transport_recv. *)
ReadChunk(earlier) ==
  /\ pc' = "size" /\ buf' = <<>>
  /\ headers' = Append(earlier, pos)

(* Mutant: the previous message stays in the buffer. *)
BufferKept == UNCHANGED in_buffer

(* in_end = 0 *)
BufferEmptied == in_buffer' = <<>>

mg_session_receive_message ==
  /\ pc \in {"idle", "received"}
  /\ BufferEmptied
  /\ ReadChunk(<<>>)
  /\ UNCHANGED <<stream, pos, in_capacity, chunk_size>>

(* Bytes the mg_transport_recv in progress was asked for. *)
Wanted == CASE pc = "size" -> 2
            [] pc = "data" -> chunk_size
            [] OTHER -> 0

(* mg_raw_transport_recv or mg_secure_transport_recv: one recv(), of some  *)
(* of the bytes, ...                                                       *)
mg_socket_receive ==
  /\ \E received_now \in 1 .. Wanted - Len(buf) :
       /\ pos + received_now <= Len(stream)
       /\ buf' = buf \o SubSeq(stream, pos + 1, pos + received_now)
       /\ pos' = pos + received_now
  /\ UNCHANGED <<stream, in_buffer, in_capacity, chunk_size, pc, headers>>

(* Mutant: an orderly close by the peer is taken for "nothing yet". *)
CloseIgnored ==
  /\ Len(buf) < Wanted
  /\ \/ pos < Len(stream) /\ pc' = "failed"
     \/ pos = Len(stream) /\ UNCHANGED pc
  /\ UNCHANGED <<stream, pos, in_buffer, in_capacity, chunk_size, buf, headers>>

(* ... of none, because the peer closed the connection, or with an error. *)
mg_socket_receive_fails ==
  /\ Len(buf) < Wanted
  /\ pc' = "failed"
  /\ UNCHANGED <<stream, pos, in_buffer, in_capacity, chunk_size, buf, headers>>

be16toh(b) == b[1] * Base + b[2]

(* Mutant: the buffer is enlarged for every chunk. *)
EnlargedAlways ==
  /\ pc = "size" /\ Len(buf) = 2
  /\ chunk_size' = be16toh(buf)
  /\ pc' = IF chunk_size' = 0 THEN "received" ELSE "space"
  /\ in_capacity' = IF chunk_size' = 0 THEN in_capacity ELSE 2 * in_capacity
  /\ buf' = <<>>
  /\ UNCHANGED <<stream, pos, in_buffer, headers>>

SizeReceived ==
  /\ pc = "size" /\ Len(buf) = 2
  /\ chunk_size' = be16toh(buf)
  /\ pc' = IF chunk_size' = 0 THEN "received" ELSE "space"
  /\ buf' = <<>>
  /\ UNCHANGED <<stream, pos, in_buffer, in_capacity, headers>>

(* Mutant: the buffer is compared with the chunk alone. *)
ChunkTooLarge == in_capacity < chunk_size

NoSpaceForChunk == in_capacity - in_end < chunk_size

(* One round of the loop of mg_session_ensure_space_for_chunk. *)
EnlargeBuffer ==
  /\ pc = "space"
  /\ NoSpaceForChunk
  /\ \/ in_capacity' = 2 * in_capacity /\ UNCHANGED pc
     \/ pc' = "failed" /\ UNCHANGED in_capacity
  /\ UNCHANGED <<stream, pos, in_buffer, chunk_size, buf, headers>>

mg_session_ensure_space_for_chunk ==
  /\ pc = "space"
  /\ ~NoSpaceForChunk
  /\ pc' = "data"
  /\ UNCHANGED <<stream, pos, in_buffer, in_capacity, chunk_size, buf, headers>>

DataReceived ==
  /\ pc = "data" /\ Len(buf) = chunk_size
  /\ in_buffer' = in_buffer \o buf
  /\ ReadChunk(headers)
  /\ UNCHANGED <<stream, pos, in_capacity, chunk_size>>

(* The caller invalidates the session. *)
Invalidated == pc = "failed" /\ UNCHANGED vars

Next ==
  \/ mg_session_receive_message
  \/ mg_socket_receive \/ mg_socket_receive_fails
  \/ SizeReceived \/ EnlargeBuffer \/ mg_session_ensure_space_for_chunk
  \/ DataReceived
  \/ Invalidated

(* Steps of a receive in progress: recv() returns in the end, with bytes   *)
(* or, the stream being finite, with an error.                             *)
Progress ==
  \/ mg_socket_receive \/ mg_socket_receive_fails
  \/ SizeReceived \/ EnlargeBuffer \/ mg_session_ensure_space_for_chunk
  \/ DataReceived

Spec == Init /\ [][Next]_vars
FairSpec == Spec /\ WF_vars(Progress)

----------------------------------------------------------------------------
Labels == {"idle", "size", "space", "data", "received", "failed"}

TypeOK ==
  /\ stream \in Seq(Byte) /\ pos \in 0 .. Len(stream) /\ headers \in Seq(Nat)
  /\ in_buffer \in Seq(Byte) /\ in_capacity \in Nat
  /\ chunk_size \in 0 .. MG_BOLT_MAX_CHUNK_SIZE
  /\ buf \in Seq(Byte) /\ Len(buf) <= MG_BOLT_MAX_CHUNK_SIZE
  /\ pc \in Labels

(* A chunk is received only into memory that holds it: what the peer sends *)
(* never goes past the end of in_buffer.                                   *)
ChunkFits ==
  /\ in_end <= in_capacity
  /\ pc = "data" => in_end + chunk_size <= in_capacity /\ Len(buf) <= chunk_size

(* The buffer grows with what the peer has really sent and one announced   *)
(* chunk, never with the number of chunks or of messages: over a long      *)
(* connection it stays below twice the bytes received and twice a chunk.   *)
GrowthBounded ==
  in_capacity <= 2 * (pos + MG_BOLT_MAX_CHUNK_SIZE)

(* When mg_session_receive_message returns 0, the bytes taken from the     *)
(* connection are one whole message of the chunked format, to the last     *)
(* byte of its end marker, and in_buffer is that message.                  *)
BufferIsMessage ==
  pc = "received" => IsFraming(stream, headers, pos, in_buffer)

(* mg_session_receive_message returns. *)
ReceiveReturns == pc = "size" ~> pc \in {"received", "failed"}

==============================================================================
