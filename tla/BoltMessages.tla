---------------------------- MODULE BoltMessages ----------------------------
(***************************************************************************)
(* Whole messages: what the encoder sends and what                         *)
(* mg_session_read_bolt_message makes of the bytes that arrive, which may  *)
(* be damaged.  The decoder is checked on messages one byte away from a    *)
(* well-formed one, and on all their prefixes.                             *)
(***************************************************************************)
EXTENDS PackStream

CONSTANTS
  Messages,     \* messages of each version, as [version, type, v]
  DamageBytes,  \* bytes put in place of another
  MaxLength,    \* bound: longer messages are cut once and not damaged
  MaxCut        \* bound: bytes cut off the end

Versions == {1, 4}

(* The messages the encoder sends, with their fields in each version. *)
SentFields(version, type) ==
  CASE type = "INIT"         -> <<"string", "map">>
    [] type = "HELLO"        -> <<"map">>
    [] type = "RUN"          -> IF version = 4 THEN <<"string", "map", "map">>
                                ELSE <<"string", "map">>
    [] type = "PULL"         -> IF version = 4 THEN <<"map">> ELSE <<>>
    [] type \in {"ACK_FAILURE", "RESET", "COMMIT", "ROLLBACK"} -> <<>>
    [] type \in {"SUCCESS", "FAILURE", "BEGIN"} -> <<"map">>
    [] type = "RECORD"       -> <<"list">>

Signatures ==
  [INIT |-> \h01, HELLO |-> \h01, RUN |-> \h10, PULL |-> \h3F, RECORD |-> \h71,
   SUCCESS |-> \h70, FAILURE |-> \h7F, ACK_FAILURE |-> \h0E, RESET |-> \h0F,
   BEGIN |-> \h11, COMMIT |-> \h12, ROLLBACK |-> \h13]

(* mg_session_send_*_message, up to the flush. *)
Sent(m) ==
  LET kinds == SentFields(m.version, m.type)
  IN  <<MG_MARKER_TINY_STRUCT + Len(kinds), Signatures[m.type]>> \o WriteAll(kinds, m.v)

(* The switch of mg_session_read_bolt_message: the type of message and the *)
(* fields that are read, which the marker must announce.                   *)
TypeOfSignature(version, signature) ==
  LET Is(type, fields) == [type |-> type, fields |-> fields]
  IN  CASE signature = \h70 -> Is("SUCCESS", <<"map">>)
        [] signature = \h7F -> Is("FAILURE", <<"map">>)
        [] signature = \h71 -> Is("RECORD", <<"list">>)
        [] signature = \h01 -> IF version = 1 THEN Is("INIT", <<"string", "map">>)
                               ELSE Is("HELLO", <<"map">>)
        [] signature = \h10 -> IF version = 4 THEN Is("RUN", <<"string", "map", "map">>)
                               ELSE Is("RUN", <<"string", "map">>)
        [] signature = \h0E -> Is("ACK_FAILURE", <<>>)
        [] signature = \h11 -> Is("BEGIN", <<"map">>)
        [] signature = \h12 -> Is("COMMIT", <<>>)
        [] signature = \h13 -> Is("ROLLBACK", <<>>)
        [] signature = \h0F -> Is("RESET", <<>>)
        [] signature = \h3F -> Is("PULL", IF version = 4 THEN <<"map">> ELSE <<>>)
        [] OTHER            -> Is("unknown", <<>>)

mg_session_read_bolt_message(version, buf) ==
  LET header == ReadBytes(buf, 0, 2)
      expected == TypeOfSignature(version, header.v[2])
  IN  IF ~header.ok THEN header
      ELSE IF \/ expected.type = "unknown"
              \/ header.v[1] # MG_MARKER_TINY_STRUCT + Len(expected.fields)
      THEN Failed(2)
      ELSE IfRead(ReadAll(expected.fields, buf, 2, <<>>),
                  LAMBDA v : [version |-> version, type |-> expected.type, v |-> v])

----------------------------------------------------------------------------
VARIABLES
  message,    \* the message that was sent
  in_buffer,  \* the bytes that arrive
  damaged     \* history: they are not the ones sent

vars == <<message, in_buffer, damaged>>

Init ==
  /\ message \in Messages
  /\ in_buffer = Sent(message)
  /\ damaged = FALSE

(* One byte arrives as another. *)
Damage ==
  /\ ~damaged /\ Len(in_buffer) <= MaxLength
  /\ \E i \in 1 .. Len(in_buffer), b \in DamageBytes :
       in_buffer' = [in_buffer EXCEPT ![i] = b]
  /\ damaged' = TRUE
  /\ UNCHANGED message

(* The end does not arrive. *)
Cut ==
  /\ Len(in_buffer) <= MaxLength \/ ~damaged
  /\ \E n \in 1 .. MaxCut :
       /\ n <= Len(in_buffer)
       /\ in_buffer' = SubSeq(in_buffer, 1, Len(in_buffer) - n)
  /\ damaged' = TRUE
  /\ UNCHANGED message

Next == Damage \/ Cut

Spec == Init /\ [][Next]_vars

Decoded(buf) == mg_session_read_bolt_message(message.version, buf)

----------------------------------------------------------------------------
(* What one side sends the other reads back, to the last byte, in both     *)
(* versions of the protocol: every size class, every width of integer,     *)
(* nested values, every message.                                           *)
RoundTrip ==
  ~damaged => Decoded(in_buffer) = Done(Len(in_buffer), message)

(* Whatever arrives, the decoder stays inside the message. *)
StaysInMessage == Decoded(in_buffer).cursor <= Len(in_buffer)

(* The values of a message, at every depth. *)
RECURSIVE Values(_)
Values(value) ==
  {value} \cup
    (CASE value.type = "LIST" -> UNION {Values(value.v[i]) : i \in DOMAIN value.v}
       [] value.type = "MAP"  -> UNION {Values(value.v[i][2]) : i \in DOMAIN value.v}
       [] OTHER               -> {})

ValuesOf(m) ==
  UNION {LET kind == SentFields(m.version, m.type)[i]
         IN  CASE kind = "list" -> Values([type |-> "LIST", v |-> m.v[i]])
               [] kind = "map"  -> Values([type |-> "MAP", v |-> m.v[i]])
               [] OTHER         -> {}
         : i \in DOMAIN m.v}

(* r is a message accepted, without a value of one of the types. *)
Accepts(r, types) ==
  r.ok /\ \A value \in ValuesOf(r.v) : value.type \notin types

(* If r was read from in_buffer, nothing is from a proper prefix of it. *)
OnlyWhole(r, types) ==
  r.ok /\ r.cursor <= MaxLength =>
    \A n \in 0 .. r.cursor - 1 : ~Accepts(Decoded(SubSeq(in_buffer, 1, n)), types)

(* A message is accepted only whole: when mg_session_read_bolt_message     *)
(* takes one, it takes no proper prefix of it, cut anywhere.  The struct   *)
(* whose last field is not checked is left aside.                          *)
PrefixRefused == OnlyWhole(Decoded(in_buffer), {"DATE_TIME_ZONE_ID"})

(* Every path that was decoded, from whatever bytes, can be walked: at     *)
(* each position the accessors stay inside its nodes and relationships.    *)
PathsWalkable ==
  LET r == Decoded(in_buffer)
  IN  r.ok => \A value \in ValuesOf(r.v) : value.type = "PATH" => Walkable(value.v)

==============================================================================
