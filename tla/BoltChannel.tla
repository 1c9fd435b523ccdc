---------------------------- MODULE BoltChannel ----------------------------
(***************************************************************************)
(* The connection a Bolt session runs over, seen at the level of whole     *)
(* messages: two FIFO queues and the two ends that can go away.  How a     *)
(* message is cut into chunks and a value into bytes is the business of    *)
(* other modules; here a message is a record that keeps what               *)
(* mgclient.c looks at after decoding.                                     *)
(*                                                                         *)
(* Shared by the client (MgSession) and by its peers (AnyServer,           *)
(* BoltServer).                                                            *)
(***************************************************************************)
EXTENDS Integers, Sequences

CONSTANTS
  MaxQid,       \* bound: query identifiers are 0 .. MaxQid
  MaxInFlight,  \* bound: messages sent one way and not taken; then the
                \* sender waits
  Codes         \* the classes of error codes a peer uses in a FAILURE

VARIABLES
  transport,    \* "open", or "null" once session->transport is destroyed
  peer,         \* "up", or "down" once the server end is closed
  c2s,          \* requests sent and not yet taken by the server
  s2c           \* responses sent and not yet received by the client

channelVars == <<transport, peer, c2s, s2c>>

Qids  == 0 .. MaxQid
NoQid == -1   \* no identifier given: the last executed statement

(***************************************************************************)
(* The part of a FAILURE's "code" between its first two dots, as far as    *)
(* handle_failure_message tells codes apart: the three names it compares   *)
(* with (a non-empty prefix of one counts as the name), any other name,    *)
(* nothing at all between the dots, and a code that is missing, not a      *)
(* string, or has fewer than two dots.                                     *)
(***************************************************************************)
CodeClasses == {"ClientError", "TransientError", "DatabaseError",
                "other", "empty", "none"}

ASSUME BoundsAssumption == MaxQid \in Nat /\ MaxInFlight \in Nat \ {0}
ASSUME CodesAssumption == Codes \subseteq CodeClasses /\ Codes # {}

RequestTypes == {"RUN", "PULL", "BEGIN", "COMMIT", "ROLLBACK",
                 "RESET", "ACK_FAILURE"}

(* qid and n are the extra map of a PULL: which result, how many records. *)
Request == [type : RequestTypes, qid : Qids \cup {NoQid}, n : {"all", "some"}]

Req(t) == [type |-> t, qid |-> NoQid, n |-> "all"]

PullReq(q, k) == [type |-> "PULL", qid |-> q, n |-> k]

(***************************************************************************)
(* Responses.  "OTHER" is any message the decoder accepts and no caller    *)
(* expects (a RUN, a HELLO ...); "GARBAGE" is one mg_session_read_bolt_    *)
(* message rejects (IGNORED, a wrong marker, a truncated value).  qid is   *)
(* the query the response is about; in a SUCCESS NoQid stands for a "qid"  *)
(* that is absent or no integer.                                           *)
(***************************************************************************)
ResponseTypes == {"SUCCESS", "RECORD", "FAILURE", "OTHER", "GARBAGE"}

Response == [type     : ResponseTypes,
             qid      : Qids \cup {NoQid},
             fields   : {"list", "invalid"},
             has_more : {"absent", "true", "false", "invalid"},
             code     : CodeClasses]

Resp(t) == [type |-> t, qid |-> NoQid, fields |-> "invalid",
            has_more |-> "absent", code |-> "none"]

Success(q, f, h) ==
  [Resp("SUCCESS") EXCEPT !.qid = q, !.fields = f, !.has_more = h]

Record(q) == [Resp("RECORD") EXCEPT !.qid = q]

Failure(c) == [Resp("FAILURE") EXCEPT !.code = c]

ChannelTypeOK ==
  /\ transport \in {"open", "null"}
  /\ peer \in {"up", "down"}
  /\ c2s \in Seq(Request)
  /\ s2c \in Seq(Response)

(* A new connection, after mg_connect has authenticated. *)
ChannelInit ==
  /\ transport = "open"
  /\ peer = "up"
  /\ c2s = <<>>
  /\ s2c = <<>>

============================================================================
