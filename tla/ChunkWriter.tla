----------------------------- MODULE ChunkWriter -----------------------------
(***************************************************************************)
(* The sending half of a session: mg_session_write_raw collects what the   *)
(* encoder writes in out_buffer, a full buffer goes out as one chunk, and  *)
(* mg_session_flush_message sends the rest and the end marker.  send()     *)
(* may take any part of what it is given, or fail; a failed session is     *)
(* invalidated by the caller and sends nothing more.                       *)
(***************************************************************************)
EXTENDS ChunkFormat

CONSTANTS
  Fragments,    \* byte sequences the encoder hands to mg_session_write_raw
  MaxFragments, \* bound: calls of mg_session_write_raw per message
  MaxMessages   \* bound: messages sent

ASSUME FragmentsAssumption == Fragments \subseteq Seq(Byte)

MG_BOLT_CHUNK_HEADER_SIZE == 2

VARIABLES
  out,        \* out_buffer from out_begin to out_end
  data, sent, \* argument and local of mg_session_write_raw
  buf,        \* what mg_transport_send was given
  total_sent, \* local of mg_transport_send
  pc,         \* what the session is doing
  message,    \* history: what the encoder wrote of this message
  wire,       \* history: what the peer got of this message
  headers,    \* history: where in it the chunk headers are
  fragments, messages  \* calls and messages so far

vars == <<out, data, sent, buf, total_sent, pc, message, wire, headers, fragments, messages>>

Init ==
  /\ out = <<>> /\ data = <<>> /\ sent = 0 /\ buf = <<>> /\ total_sent = 0
  /\ pc = "ready" /\ message = <<>> /\ wire = <<>> /\ headers = <<>>
  /\ fragments = 0 /\ messages = 0

----------------------------------------------------------------------------
out_capacity == MG_BOLT_CHUNK_HEADER_SIZE + MG_BOLT_MAX_CHUNK_SIZE

out_end == MG_BOLT_CHUNK_HEADER_SIZE + Len(out)

buffer_free == out_capacity - out_end

(* Mutant: the bytes of the size in the order of the machine. *)
LittleEndian(n) == <<n % Base, (n \div Base) % Base>>

(* htobe16((uint16_t)n) *)
htobe16(n) == <<(n \div Base) % Base, n % Base>>

(* Call mg_transport_send; "then" is where it returns to. *)
StartSend(bytes, then) ==
  /\ buf' = bytes
  /\ total_sent' = 0
  /\ headers' = Append(headers, Len(wire))
  /\ pc' = then

(* mg_session_flush_chunk up to its send; chunk is the buffer's content. *)
mg_session_flush_chunk(chunk, then) ==
  StartSend(htobe16(Len(chunk)) \o chunk, then)

(* One round of the loop of mg_session_write_raw: fill the buffer and send *)
(* it, or add the rest of the data.                                        *)
FillBuffer ==
  /\ pc = "write"
  /\ Len(data) - sent >= buffer_free
  /\ out' = out \o SubSeq(data, sent + 1, sent + buffer_free)
  /\ sent' = sent + buffer_free
  /\ mg_session_flush_chunk(out', "chunk")
  /\ UNCHANGED <<data, message, wire, fragments, messages>>

CopyRest ==
  /\ pc = "write"
  /\ Len(data) - sent < buffer_free
  /\ out' = out \o SubSeq(data, sent + 1, Len(data))
  /\ sent' = Len(data)
  /\ pc' = "ready"
  /\ UNCHANGED <<data, buf, total_sent, message, wire, headers, fragments, messages>>

(* while (sent < len) *)
WriteLoop(s, d) == IF s < Len(d) THEN "write" ELSE "ready"

mg_session_write_raw(d) ==
  /\ pc = "ready"
  /\ fragments < MaxFragments
  /\ data' = d
  /\ sent' = 0
  /\ pc' = WriteLoop(0, d)
  /\ message' = message \o d
  /\ fragments' = fragments + 1
  /\ UNCHANGED <<out, buf, total_sent, wire, headers, messages>>

(* An empty buffer is no chunk: it would end the message. *)
mg_session_flush_message ==
  /\ pc = "ready"
  /\ IF out = <<>> THEN StartSend(<<0, 0>>, "end")
                   ELSE mg_session_flush_chunk(out, "last_chunk")
  /\ UNCHANGED <<out, data, sent, message, wire, fragments, messages>>

----------------------------------------------------------------------------
Sending == pc \in {"chunk", "last_chunk", "end"}

(* mg_raw_transport_send: one send(), which may take less than it is given.*)
(* mg_secure_transport_send gives SSL_write all of it, waits while OpenSSL *)
(* wants to read first, and succeeds or fails as a whole.                  *)
mg_socket_send ==
  /\ Sending
  /\ \E sent_now \in 1 .. Len(buf) - total_sent :
       /\ wire' = wire \o SubSeq(buf, total_sent + 1, total_sent + sent_now)
       /\ total_sent' = total_sent + sent_now
  /\ UNCHANGED <<out, data, sent, buf, pc, message, headers, fragments, messages>>

mg_socket_send_fails ==
  /\ Sending
  /\ total_sent < Len(buf)
  /\ pc' = "failed"
  /\ UNCHANGED <<out, data, sent, buf, total_sent, message, wire, headers, fragments, messages>>

(* Mutant: the chunk that was sent stays in the buffer. *)
OutKept == UNCHANGED out

(* out_end = out_begin *)
OutReset == out' = <<>>

(* mg_transport_send returns 0 to mg_session_flush_chunk ... *)
ChunkSent ==
  /\ pc \in {"chunk", "last_chunk"}
  /\ total_sent = Len(buf)
  /\ OutReset
  /\ IF pc = "chunk"
     THEN pc' = WriteLoop(sent, data) /\ UNCHANGED <<buf, total_sent, headers>>
     ELSE StartSend(<<0, 0>>, "end")
  /\ UNCHANGED <<data, sent, message, wire, fragments, messages>>

(* ... and to mg_session_flush_message. *)
MessageSent ==
  /\ pc = "end"
  /\ total_sent = Len(buf)
  /\ pc' = "flushed"
  /\ UNCHANGED <<out, data, sent, buf, total_sent, message, wire, headers, fragments, messages>>

NextMessage ==
  /\ pc = "flushed"
  /\ messages < MaxMessages - 1
  /\ messages' = messages + 1
  /\ fragments' = 0
  /\ message' = <<>>
  /\ wire' = <<>>
  /\ headers' = <<>>
  /\ pc' = "ready"
  /\ UNCHANGED <<out, data, sent, buf, total_sent>>

(* The session is invalid, or the last message is out. *)
Finished ==
  /\ \/ pc = "failed"
     \/ pc = "flushed" /\ messages = MaxMessages - 1
  /\ UNCHANGED vars

Next ==
  \/ \E d \in Fragments : mg_session_write_raw(d)
  \/ FillBuffer \/ CopyRest \/ mg_session_flush_message
  \/ mg_socket_send \/ mg_socket_send_fails
  \/ ChunkSent \/ MessageSent \/ NextMessage
  \/ Finished

Spec == Init /\ [][Next]_vars

----------------------------------------------------------------------------
Labels == {"ready", "write", "chunk", "last_chunk", "end", "flushed", "failed"}

TypeOK ==
  /\ out \in Seq(Byte)
  /\ data \in Seq(Byte) /\ sent \in 0 .. Len(data)
  /\ buf \in Seq(Byte) /\ total_sent \in 0 .. Len(buf)
  /\ pc \in Labels
  /\ message \in Seq(Byte) /\ wire \in Seq(Byte) /\ headers \in Seq(Nat)
  /\ fragments \in Nat /\ messages \in Nat

(* Between two calls, and at the head of the loop of mg_session_write_raw, *)
(* the buffer has room: each round of the loop makes progress, the memcpy  *)
(* stays inside out_buffer, and the chunk handed to mg_session_flush_chunk *)
(* is one whose size the header can carry (its abort() is not reached).    *)
ChunkFits ==
  /\ pc \in {"ready", "write", "flushed"} => Len(out) < MG_BOLT_MAX_CHUNK_SIZE
  /\ pc \in {"chunk", "last_chunk"} => Len(out) \in 1 .. MG_BOLT_MAX_CHUNK_SIZE
  /\ pc \in {"end", "flushed"} => out = <<>>

(* When mg_session_flush_message returns 0, the peer has been sent one     *)
(* message of the chunked format, and it is what the encoder wrote,        *)
(* whatever the calls it was written with and however send() cut it.       *)
WireIsFraming ==
  pc = "flushed" => headers[1] = 0 /\ IsFraming(wire, headers, Len(wire), message)

==============================================================================
