----------------------------- MODULE MgSession -----------------------------
(***************************************************************************)
(* The client end of a Bolt session: the fields of mg_session that steer   *)
(* mg_session_run, pull, fetch, begin, commit and rollback (mgclient.c),   *)
(* and these functions, each cut where it blocks waiting for the server.   *)
(* A call that returns without waiting is one action.                      *)
(*                                                                         *)
(* The peer is not described here: AnyServer and BoltServer are two peers. *)
(***************************************************************************)
EXTENDS BoltChannel

CONSTANTS
  Versions,    \* protocol versions mg_bolt_handshake may have settled on
  MaxQueries   \* bound: no run is issued once query_number reaches it

ASSUME VersionsAssumption == Versions \subseteq {1, 4} /\ Versions # {}
ASSUME MaxQueriesAssumption == MaxQueries \in Nat

VARIABLES
  version,               \* session->version
  status,                \* session->status
  explicit_transaction,  \* session->explicit_transaction
  query_number,          \* session->query_number
  message,               \* session->result.message
  columns,               \* session->result.columns: the query they name
  call,                  \* the call in progress, "none" between calls,
                         \* "destroyed" after mg_session_destroy
  phase,                 \* what a call in progress waits for
  qid_arg,              \* argument of mg_session_run: where to put the qid
  failure_status,        \* local: what handle_failure_message returned
  ret                    \* return value of the last call

fieldVars == <<version, status, explicit_transaction, query_number,
               message, columns>>
callVars == <<call, phase, qid_arg, failure_status, ret>>
clientVars == <<fieldVars, callVars>>

NoMessage == Resp("NULL")   \* result.message == NULL
NoColumns == -2             \* result.columns == NULL

MG_SUCCESS == 0
MG_ERROR_SEND_FAILED == -1
MG_ERROR_RECV_FAILED == -2
MG_ERROR_OOM == -3
MG_ERROR_INVALID_VALUE == -5
MG_ERROR_DECODING_FAILED == -6
MG_ERROR_PROTOCOL_VIOLATION == -10
MG_ERROR_CLIENT_ERROR == -11
MG_ERROR_TRANSIENT_ERROR == -12
MG_ERROR_DATABASE_ERROR == -13
MG_ERROR_UNKNOWN_ERROR == -14
MG_ERROR_BAD_CALL == -15
MG_ERROR_SIZE_EXCEEDED == -16

Statuses == {"READY", "EXECUTING", "FETCHING", "BAD"}
Calls == {"run", "fetch", "begin", "end"}

FieldTypeOK ==
  /\ version \in Versions
  /\ status \in Statuses
  /\ explicit_transaction \in {0, 1}
  /\ query_number \in Nat
  /\ message \in Response \cup {NoMessage}
  /\ columns \in Qids \cup {NoQid, NoColumns}

CallTypeOK ==
  /\ call \in Calls \cup {"none", "destroyed"}
  /\ phase \in {"idle", "reply", "ack"}
  /\ qid_arg \in {"NULL", "given"}
  /\ failure_status \in Int
  /\ ret \in Int

TypeOK == ChannelTypeOK /\ FieldTypeOK /\ CallTypeOK

(* The session mg_connect hands out. *)
ClientInit ==
  /\ ChannelInit
  /\ version \in Versions
  /\ status = "READY"
  /\ explicit_transaction = 0
  /\ query_number = 0
  /\ message = NoMessage
  /\ columns = NoColumns
  /\ call = "none"
  /\ phase = "idle"
  /\ qid_arg = "NULL"
  /\ failure_status = 0
  /\ ret = 0

----------------------------------------------------------------------------
(* Building blocks. *)

Idle == call = "none"

(* The function returns rc to the user. *)
Return(rc) ==
  /\ call' = "none"
  /\ phase' = "idle"
  /\ qid_arg' = "NULL"
  /\ failure_status' = 0
  /\ ret' = rc

(* The call goes on and waits for the server, first for the reply to its   *)
(* request (p = "reply"), then perhaps for that to RESET (p = "ack").      *)
Wait(op, p, qa, fs) ==
  /\ call' = op
  /\ phase' = p
  /\ qid_arg' = qa
  /\ failure_status' = fs
  /\ UNCHANGED ret

(* A message handed to the transport, which blocks while the server does   *)
(* not read; it is lost if the server is gone.                             *)
Send(req) ==
  /\ Len(c2s) < MaxInFlight
  /\ c2s' = IF peer = "up" THEN Append(c2s, req) ELSE c2s

(* Mutant: the transport is not destroyed. *)
InvalidateKeepsTransport ==
  /\ status' = "BAD"
  /\ s2c' = <<>>
  /\ UNCHANGED transport

mg_session_invalidate ==
  /\ transport' = "null"
  /\ status' = "BAD"
  /\ s2c' = <<>>   \* what was not received yet goes with the socket

(* fatal_failure: drop the connection and return rc.  The other fields of  *)
(* the session stay as the handler left them.                              *)
FatalFailure(rc) == mg_session_invalidate /\ Return(rc)

(* Requests that end with a map of the user's. *)
CarriesMap(t) == t \in {"RUN", "BEGIN"} \/ (t = "PULL" /\ version = 4)

(***************************************************************************)
(* What the encoder may return instead of 0.  The socket fails once the    *)
(* server is gone; mg_session_write_string2 then reports 1 and not         *)
(* MG_ERROR_SEND_FAILED when the failure falls within a string's bytes, so *)
(* 1 is possible for the messages that carry strings.  A value of a type   *)
(* the client cannot send and an oversized query are found while encoding. *)
(***************************************************************************)
SendErrors(t) ==
  (IF peer = "down" THEN {MG_ERROR_SEND_FAILED} ELSE {})
  \cup (IF peer = "down" /\ CarriesMap(t) THEN {1} ELSE {})
  \cup (IF CarriesMap(t) THEN {MG_ERROR_INVALID_VALUE} ELSE {})
  \cup (IF t = "RUN" THEN {MG_ERROR_SIZE_EXCEEDED} ELSE {})

(* A call sends its request and waits, or cannot send it. *)
SendAndWait(op, t, qa) ==
  \/ /\ Send(Req(t))
     /\ Wait(op, "reply", qa, 0)
     /\ UNCHANGED <<status, transport, s2c>>
  \/ /\ \E rc \in SendErrors(t) : FatalFailure(rc)
     /\ UNCHANGED c2s

(* Mutant: the error code is not initialised to an error. *)
FailureWithoutDefault(m) ==
  CASE m.code = "ClientError"    -> MG_ERROR_CLIENT_ERROR
    [] m.code = "TransientError" -> MG_ERROR_TRANSIENT_ERROR
    [] m.code = "DatabaseError"  -> MG_ERROR_DATABASE_ERROR
    [] OTHER -> MG_SUCCESS

(* strncmp with the length of the code's own type: an empty type equals    *)
(* all three names, and the last comparison wins.                          *)
handle_failure_message(m) ==
  CASE m.code = "ClientError"    -> MG_ERROR_CLIENT_ERROR
    [] m.code = "TransientError" -> MG_ERROR_TRANSIENT_ERROR
    [] m.code \in {"DatabaseError", "empty"} -> MG_ERROR_DATABASE_ERROR
    [] OTHER -> MG_ERROR_UNKNOWN_ERROR

(* Mutant: the acknowledgement is sent, its reply is not waited for. *)
HandleFailureWithoutReply(m) ==
  /\ Send(Req(IF version = 1 THEN "ACK_FAILURE" ELSE "RESET"))
  /\ s2c' = Tail(s2c)
  /\ Return(handle_failure_message(m))
  /\ UNCHANGED <<status, transport>>

(* Mutant: the acknowledgement is not sent. *)
HandleFailureWithoutSend(m) ==
  /\ s2c' = Tail(s2c)
  /\ Wait(call, "ack", "NULL", handle_failure_message(m))
  /\ UNCHANGED <<status, transport, c2s>>

(***************************************************************************)
(* handle_failure, up to where it waits: a FAILURE is acknowledged with    *)
(* ACK_FAILURE (version 1) or RESET, or that cannot be sent.               *)
(***************************************************************************)
handle_failure(m) ==
  LET ack == IF version = 1 THEN "ACK_FAILURE" ELSE "RESET" IN
  \/ /\ Send(Req(ack))
     /\ s2c' = Tail(s2c)
     /\ Wait(call, "ack", "NULL", handle_failure_message(m))
     /\ UNCHANGED <<status, transport>>
  \/ \E rc \in SendErrors(ack) :
       /\ FatalFailure(rc)
       /\ UNCHANGED c2s

(* The reply is of a type the call does not expect. *)
Unexpected ==
  /\ FatalFailure(MG_ERROR_PROTOCOL_VIOLATION)
  /\ UNCHANGED c2s


(* s2c holds a message the decoder accepts, of one of these types. *)
Received(types) ==
  /\ phase = "reply"
  /\ s2c # <<>>
  /\ Head(s2c).type \in types

(***************************************************************************)
(* mg_session_receive_message or mg_session_read_bolt_message fails, in    *)
(* any call that waits: the connection is closed before a whole message    *)
(* came, the message does not decode, or memory runs out on the way.       *)
(***************************************************************************)
ReceiveErrors ==
  IF s2c = <<>>
  THEN IF peer = "down" THEN {MG_ERROR_RECV_FAILED} ELSE {}
  ELSE {MG_ERROR_OOM}
       \cup (IF Head(s2c).type = "GARBAGE"
               THEN {MG_ERROR_DECODING_FAILED, MG_ERROR_PROTOCOL_VIOLATION}
               ELSE {})

ReceiveFails ==
  /\ phase # "idle"
  /\ \E rc \in ReceiveErrors : FatalFailure(rc)
  /\ UNCHANGED <<version, explicit_transaction, query_number, message,
                 columns, peer, c2s>>

----------------------------------------------------------------------------
(* mg_session_run *)

(* Mutant: a query may be run while another is fetched. *)
RunRefusedUnlessFetching ==
  \/ status = "BAD"
  \/ explicit_transaction = 0 /\ status = "EXECUTING"

RunRefused ==
  \/ status = "BAD"
  \/ explicit_transaction = 0 /\ status = "EXECUTING"
  \/ status = "FETCHING"

mg_session_run(qa) ==
  /\ Idle
  /\ ~RunRefused
  /\ query_number < MaxQueries
  /\ message' = NoMessage
  /\ columns' = NoColumns
  /\ SendAndWait("run", "RUN", qa)
  /\ UNCHANGED <<version, explicit_transaction, query_number, peer>>

(* Mutant: ++session->query_number is missing. *)
QueryNotCounted == query_number

QueryCounted == IF version = 4 /\ explicit_transaction = 1
                THEN query_number + 1 ELSE query_number

QidUnusable(m) ==
  /\ version = 4
  /\ explicit_transaction = 1
  /\ qid_arg = "given"
  /\ m.qid = NoQid

(* Mutant: the query is counted before its columns are copied. *)
CountedBeforeColumns(m) ==
  /\ m.fields = "list"
  /\ query_number' = QueryCounted
  /\ status' = "EXECUTING"
  /\ s2c' = Tail(s2c)
  /\ UNCHANGED transport
  /\ \/ columns' = NoColumns /\ Return(MG_ERROR_OOM)
     \/ columns' = m.qid /\ Return(MG_SUCCESS)

(* The query was accepted.  The columns are copied before the qid is       *)
(* looked at, and a copy that runs out of memory returns at once, leaving  *)
(* status and query_number as they were.                                   *)
RunSucceeds(m) ==
  /\ m.fields = "list"
  /\ \/ /\ columns' = NoColumns
        /\ Return(MG_ERROR_OOM)
        /\ s2c' = Tail(s2c)
        /\ UNCHANGED <<status, query_number, transport>>
     \/ /\ columns' = m.qid
        /\ QidUnusable(m)
        /\ FatalFailure(MG_ERROR_PROTOCOL_VIOLATION)
        /\ UNCHANGED query_number
     \/ /\ columns' = m.qid
        /\ ~QidUnusable(m)
        /\ query_number' = QueryCounted
        /\ status' = "EXECUTING"
        /\ Return(MG_SUCCESS)
        /\ s2c' = Tail(s2c)
        /\ UNCHANGED transport

RunReply ==
  /\ call = "run"
  /\ \/ /\ Received({"SUCCESS"})
        /\ \/ RunSucceeds(Head(s2c))
           \/ /\ Head(s2c).fields = "invalid"
              /\ FatalFailure(MG_ERROR_PROTOCOL_VIOLATION)
              /\ UNCHANGED <<columns, query_number>>
        /\ UNCHANGED c2s
     \/ /\ Received({"FAILURE"})
        /\ handle_failure(Head(s2c))
        /\ UNCHANGED <<columns, query_number>>
     \/ /\ Received({"RECORD", "OTHER"})
        /\ Unexpected
        /\ UNCHANGED <<columns, query_number>>
  /\ UNCHANGED <<version, explicit_transaction, message, peer>>

----------------------------------------------------------------------------
(* mg_session_pull: returns once the request is sent. *)

(* Mutant: pull does not look for a bad session. *)
PullRefusedUnlessBad == status \in {"READY", "FETCHING"}

PullRefused == status # "EXECUTING"

mg_session_pull(q, n) ==
  /\ Idle
  /\ ~PullRefused
  /\ message' = NoMessage
  /\ \/ /\ Send(IF version = 4 THEN PullReq(q, n) ELSE Req("PULL"))
        /\ status' = "FETCHING"
        /\ Return(MG_SUCCESS)
        /\ UNCHANGED <<transport, s2c>>
     \/ /\ \E rc \in SendErrors("PULL") : FatalFailure(rc)
        /\ UNCHANGED c2s
  /\ UNCHANGED <<version, explicit_transaction, query_number, columns, peer>>

----------------------------------------------------------------------------
(* mg_session_fetch *)

FetchRefused == status # "FETCHING"

(* Mutant: fetch destroys the columns along with the last message. *)
FetchDestroysColumns ==
  /\ Idle
  /\ ~FetchRefused
  /\ message' = NoMessage
  /\ columns' = NoColumns
  /\ Wait("fetch", "reply", "NULL", 0)
  /\ UNCHANGED <<version, status, explicit_transaction, query_number, channelVars>>

mg_session_fetch ==
  /\ Idle
  /\ ~FetchRefused
  /\ message' = NoMessage
  /\ Wait("fetch", "reply", "NULL", 0)
  /\ UNCHANGED <<version, status, explicit_transaction, query_number, columns,
                 channelVars>>

(* Mutant: a missing has_more is taken for an invalid one. *)
HasMoreRequired(m) == version = 4 /\ m.has_more \in {"absent", "invalid"}

HasMoreInvalid(m) == version = 4 /\ m.has_more = "invalid"

(* Mutant: has_more is not looked at. *)
FetchSummaryWithoutMore(m) ==
  LET left == query_number - explicit_transaction IN
  /\ query_number' = left
  /\ status' = IF explicit_transaction = 1 /\ left # 0
                 THEN "EXECUTING" ELSE "READY"

(* The result is exhausted unless the server says has_more. *)
FetchSummary(m) ==
  LET left == query_number - explicit_transaction IN
  \/ /\ version = 4
     /\ m.has_more \in {"absent", "false"}
     /\ query_number' = left
     /\ status' = IF explicit_transaction = 1 /\ left # 0
                    THEN "EXECUTING" ELSE "READY"
  \/ /\ version = 4
     /\ m.has_more = "true"
     /\ status' = "EXECUTING"
     /\ UNCHANGED query_number
  \/ /\ version # 4
     /\ status' = "READY"
     /\ UNCHANGED query_number

FetchReply ==
  /\ call = "fetch"
  /\ \/ /\ Received({"RECORD"})
        /\ message' = Head(s2c)
        /\ s2c' = Tail(s2c)
        /\ Return(1)
        /\ UNCHANGED <<status, query_number, transport, c2s>>
     \/ /\ Received({"SUCCESS"})
        /\ ~HasMoreInvalid(Head(s2c))
        /\ FetchSummary(Head(s2c))
        /\ message' = Head(s2c)
        /\ s2c' = Tail(s2c)
        /\ Return(0)
        /\ UNCHANGED <<transport, c2s>>
     \/ /\ Received({"SUCCESS"})
        /\ HasMoreInvalid(Head(s2c))
        /\ Unexpected
        /\ UNCHANGED <<query_number, message>>
     \/ /\ Received({"FAILURE"})
        /\ handle_failure(Head(s2c))
        /\ UNCHANGED <<query_number, message>>
     \/ /\ Received({"OTHER"})
        /\ Unexpected
        /\ UNCHANGED <<query_number, message>>
  /\ UNCHANGED <<version, explicit_transaction, columns, peer>>

----------------------------------------------------------------------------
(* mg_session_begin_transaction.  With version 1 it reports an error       *)
(* message and goes on.                                                    *)

BeginRefused ==
  \/ status \in {"BAD", "EXECUTING", "FETCHING"}
  \/ explicit_transaction = 1

mg_session_begin_transaction ==
  /\ Idle
  /\ ~BeginRefused
  /\ message' = NoMessage
  /\ SendAndWait("begin", "BEGIN", "NULL")
  /\ UNCHANGED <<version, explicit_transaction, query_number, columns, peer>>

BeginReply ==
  /\ call = "begin"
  /\ \/ /\ Received({"SUCCESS"})
        /\ explicit_transaction' = 1
        /\ query_number' = 0
        /\ s2c' = Tail(s2c)
        /\ Return(MG_SUCCESS)
        /\ UNCHANGED <<status, transport, c2s>>
     \/ /\ Received({"FAILURE"})
        /\ handle_failure(Head(s2c))
        /\ UNCHANGED <<explicit_transaction, query_number>>
     \/ /\ Received({"RECORD", "OTHER"})
        /\ Unexpected
        /\ UNCHANGED <<explicit_transaction, query_number>>
  /\ UNCHANGED <<version, message, columns, peer>>

----------------------------------------------------------------------------
(* mg_session_end_transaction: commit and rollback. *)

EndRefused ==
  \/ status = "BAD"
  \/ explicit_transaction = 0
  \/ status \in {"EXECUTING", "FETCHING"}

mg_session_end_transaction(commit_transaction) ==
  LET t == IF commit_transaction THEN "COMMIT" ELSE "ROLLBACK" IN
  /\ Idle
  /\ ~EndRefused
  /\ message' = NoMessage
  /\ SendAndWait("end", t, "NULL")
  /\ UNCHANGED <<version, explicit_transaction, query_number, columns, peer>>

EndReply ==
  /\ call = "end"
  /\ \/ /\ Received({"SUCCESS"})
        /\ message' = Head(s2c)
        /\ status' = "READY"
        /\ explicit_transaction' = 0
        /\ s2c' = Tail(s2c)
        /\ Return(MG_SUCCESS)
        /\ UNCHANGED <<transport, c2s>>
     \/ /\ Received({"FAILURE"})
        /\ handle_failure(Head(s2c))
        /\ UNCHANGED <<explicit_transaction, message>>
     \/ /\ Received({"RECORD", "OTHER"})
        /\ Unexpected
        /\ UNCHANGED <<explicit_transaction, message>>
  /\ UNCHANGED <<version, query_number, columns, peer>>

----------------------------------------------------------------------------
(* Mutant: a failed fetch leaves the session fetching. *)
StatusKeptAfterFailure == status

StatusAfterFailure == IF call = "fetch" THEN "READY" ELSE status

(* The second half of handle_failure, and what its caller does after it:   *)
(* mg_session_fetch alone sets the status.                                 *)
AckReply ==
  /\ phase = "ack"
  /\ s2c # <<>>
  /\ \/ /\ Head(s2c).type = "SUCCESS"
        /\ status' = StatusAfterFailure
        /\ s2c' = Tail(s2c)
        /\ Return(failure_status)
        /\ UNCHANGED transport
     \/ /\ Head(s2c).type \in {"RECORD", "FAILURE", "OTHER"}
        /\ FatalFailure(MG_ERROR_PROTOCOL_VIOLATION)
  /\ UNCHANGED <<version, explicit_transaction, query_number, message, columns,
                 peer, c2s>>

(* A call out of place returns MG_ERROR_BAD_CALL and changes nothing but   *)
(* the error text.                                                         *)
BadCall ==
  /\ Idle
  /\ RunRefused \/ PullRefused \/ FetchRefused \/ BeginRefused \/ EndRefused
  /\ Return(MG_ERROR_BAD_CALL)
  /\ UNCHANGED <<fieldVars, channelVars>>

mg_session_destroy ==
  /\ Idle
  /\ transport' = "null"
  /\ s2c' = <<>>
  /\ message' = NoMessage
  /\ columns' = NoColumns
  /\ call' = "destroyed"
  /\ UNCHANGED <<version, status, explicit_transaction, query_number, phase,
                 qid_arg, failure_status, ret, peer, c2s>>

(* One step of the program that uses the session. *)
ClientCalls ==
  \/ \E qa \in {"NULL", "given"} : mg_session_run(qa)
  \/ \E q \in Qids \cup {NoQid}, n \in {"all", "some"} : mg_session_pull(q, n)
  \/ mg_session_fetch
  \/ mg_session_begin_transaction
  \/ \E c \in BOOLEAN : mg_session_end_transaction(c)
  \/ BadCall
  \/ mg_session_destroy

(* One step of a call in progress. *)
ClientReplies ==
  RunReply \/ FetchReply \/ BeginReply \/ EndReply \/ AckReply \/ ReceiveFails

ClientNext == ClientCalls \/ ClientReplies

----------------------------------------------------------------------------
(* What the client keeps to by itself, whatever its peer sends. *)

(* The session is BAD exactly when its transport is gone: no path leaves a *)
(* session that looks usable on a destroyed transport (which a later call  *)
(* would dereference), nor a BAD one that still holds its socket.          *)
BadIffNoTransport ==
  transport = "null" <=> status = "BAD" \/ call = "destroyed"

(* mgclient.c counts the results not yet exhausted in a transaction in     *)
(* query_number and decrements it at the end of each.  Whatever the server *)
(* answers, while a query of a transaction executes there is one to count, *)
(* so the count never goes below zero (it would then end up out of step    *)
(* with the status for good).                                              *)
QueryCountCoversExecution ==
  version = 4 /\ explicit_transaction = 1 /\ status \in {"EXECUTING", "FETCHING"}
    => query_number >= 1

----------------------------------------------------------------------------
(* What mg_result_row and mg_result_summary find in the last result. *)
Got == IF message.type = "RECORD" THEN "row"
       ELSE IF message.type = "SUCCESS" THEN "summary"
       ELSE "nothing"

Contract == INSTANCE SessionContract WITH
  st <- status, tx <- explicit_transaction, busy <- call, got <- Got,
  result <- ret

(* The session behaves as SessionContract says: every call is possible     *)
(* only in the statuses the contract lists, leaves one of the statuses,    *)
(* transaction flags and results it allows, and a lost session is reported *)
(* by a non-zero result and stays lost.                                    *)
ImplementsContract == Contract!CSpec

============================================================================
