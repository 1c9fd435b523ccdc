----------------------------- MODULE ChunkFormat -----------------------------
(* What a chunked message is, as the tests of the encoder and the decoder  *)
(* read and build one: chunks, each preceded by its size in two bytes, up  *)
(* to a size of zero.                                                      *)
(*                                                                         *)
(* A byte is a number below Base (256 in the code), so that the two bytes  *)
(* of a chunk header and the largest chunk, Base * Base - 1, keep their    *)
(* relation when Base is small.                                            *)
EXTENDS Integers, Sequences

CONSTANT Base  \* number of values of a byte

ASSUME BaseAssumption == Base \in Nat /\ Base >= 2

Byte == 0 .. Base - 1

MG_BOLT_MAX_CHUNK_SIZE == Base * Base - 1

(* The size announced by the chunk header in the two bytes of s behind i. *)
SizeAt(s, i) == s[i + 1] * Base + s[i + 2]

(* How many bytes of a message are in its chunks before the k-th, their    *)
(* headers being behind the positions in at.                               *)
DataBefore(at, k) == at[k] - at[1] - 2 * (k - 1)

(* The k-th chunk in s has as many bytes as its header says, the next      *)
(* header follows, and they are the next bytes of m.                       *)
IsChunk(s, at, k, m) ==
  /\ SizeAt(s, at[k]) > 0
  /\ at[k + 1] = at[k] + 2 + SizeAt(s, at[k])
  /\ \A i \in 1 .. SizeAt(s, at[k]) : s[at[k] + 2 + i] = m[DataBefore(at, k) + i]

(* The bytes of s behind at[1] up to "end" are a framing of message m, and *)
(* nothing more: whoever follows the sizes from at[1] on finds the headers *)
(* in at, and the end marker.                                              *)
IsFraming(s, at, end, m) ==
  /\ at # <<>>
  /\ \A k \in 1 .. Len(at) : at[k] + 2 <= Len(s)
  /\ Len(m) = DataBefore(at, Len(at))
  /\ \A k \in 1 .. Len(at) - 1 : IsChunk(s, at, k, m)
  /\ end = at[Len(at)] + 2
  /\ SizeAt(s, at[Len(at)]) = 0

==============================================================================
