--------------------------- MODULE Session_proofs ---------------------------
(***************************************************************************)
(* Proofs about the client's steps whatever its peer, with the theorems    *)
(* about AnyServer that follow, and about its steps and those of the       *)
(* conforming server of BoltServer when the two are connected, which the   *)
(* proofs about BoltSystem and CppClient share.                            *)
(***************************************************************************)
EXTENDS AnyServer, BoltServer, SequenceTheorems, TLAPS

(* What the actions hand on, typed. *)
LEMMA ResponsesTyped ==
  /\ NoMessage \notin Response
  /\ \A q \in Qids \cup {NoQid}, f \in {"list", "invalid"},
        h \in {"absent", "true", "false", "invalid"} :
       Success(q, f, h) \in Response
  /\ \A q \in Qids : Record(q) \in Response
  /\ \A c \in Codes : Failure(c) \in Response
  /\ {Resp("OTHER"), Resp("GARBAGE")} \subseteq Response
  /\ \A t \in RequestTypes : Req(t) \in Request
  /\ \A q \in Qids \cup {NoQid}, n \in {"all", "some"} : PullReq(q, n) \in Request
<1>1. NoMessage \notin Response
  BY DEF NoMessage, Resp, Response, ResponseTypes
<1>2. \A t \in RequestTypes : Req(t) \in Request
  BY DEF Req, Request
<1>3. \A q \in Qids \cup {NoQid}, n \in {"all", "some"} : PullReq(q, n) \in Request
  BY DEF PullReq, Request, RequestTypes
<1>4. \A q \in Qids \cup {NoQid}, f \in {"list", "invalid"},
         h \in {"absent", "true", "false", "invalid"} :
        Success(q, f, h) \in Response
  BY DEF Success, Resp, Response, ResponseTypes, CodeClasses
<1>5. \A q \in Qids : Record(q) \in Response
  BY DEF Record, Resp, Response, ResponseTypes, CodeClasses
<1>6. \A c \in Codes : Failure(c) \in Response
  BY CodesAssumption DEF Failure, Resp, Response, ResponseTypes
<1>7. {Resp("OTHER"), Resp("GARBAGE")} \subseteq Response
  BY DEF Resp, Response, ResponseTypes, CodeClasses
<1> QED
  BY <1>1, <1>2, <1>3, <1>4, <1>5, <1>6, <1>7

(* What reading a message leaves, typed. *)
LEMMA ReceivedTyped ==
  ASSUME s2c \in Seq(Response)
  PROVE  /\ s2c # <<>> => Head(s2c) \in Response /\ Tail(s2c) \in Seq(Response)
         /\ <<>> \in Seq(Response)
OBVIOUS

LEMMA ErrorsTyped ==
  /\ \A t \in RequestTypes : SendErrors(t) \subseteq Int \ {0}
  /\ ReceiveErrors \subseteq {z \in Int : z < 0}
  /\ \A m \in Response : handle_failure_message(m) \in {z \in Int : z < 0}
<1>1. \A t \in RequestTypes : SendErrors(t) \subseteq Int \ {0}
  BY DEF SendErrors, MG_ERROR_SEND_FAILED, MG_ERROR_INVALID_VALUE,
         MG_ERROR_SIZE_EXCEEDED
<1>2. ReceiveErrors \subseteq {z \in Int : z < 0}
  BY DEF ReceiveErrors, MG_ERROR_RECV_FAILED, MG_ERROR_OOM,
         MG_ERROR_DECODING_FAILED, MG_ERROR_PROTOCOL_VIOLATION
<1>3. \A m \in Response : handle_failure_message(m) \in {z \in Int : z < 0}
  BY DEF handle_failure_message, MG_ERROR_CLIENT_ERROR,
         MG_ERROR_TRANSIENT_ERROR, MG_ERROR_DATABASE_ERROR,
         MG_ERROR_UNKNOWN_ERROR
<1> QED
  BY <1>1, <1>2, <1>3

----------------------------------------------------------------------------
(* The building blocks of the actions, typed. *)

LEMMA ReturnTyped ==
  ASSUME NEW rc \in Int, Return(rc)
  PROVE  CallTypeOK'
BY DEF Return, CallTypeOK

LEMMA WaitTyped ==
  ASSUME CallTypeOK, NEW op \in Calls, NEW p \in {"reply", "ack"},
         NEW qa \in {"NULL", "given"}, NEW fs \in Int, Wait(op, p, qa, fs)
  PROVE  CallTypeOK'
BY DEF Wait, CallTypeOK

LEMMA SendTyped ==
  ASSUME c2s \in Seq(Request), NEW r \in Request, Send(r)
  PROVE  c2s' \in Seq(Request)
BY DEF Send

LEMMA FatalTyped ==
  ASSUME NEW rc \in Int, FatalFailure(rc)
  PROVE  /\ CallTypeOK'
         /\ transport' = "null"
         /\ status' = "BAD"
         /\ s2c' \in Seq(Response)
BY ReturnTyped DEF FatalFailure, mg_session_invalidate

LEMMA HandleFailureTyped ==
  ASSUME TypeOK, call \in Calls, s2c # <<>>, handle_failure(Head(s2c))
  PROVE  /\ CallTypeOK'
         /\ transport' \in {"open", "null"}
         /\ status' \in Statuses
         /\ c2s' \in Seq(Request)
         /\ s2c' \in Seq(Response)
<1> DEFINE ack == IF version = 1 THEN "ACK_FAILURE" ELSE "RESET"
<1> s2c \in Seq(Response) /\ c2s \in Seq(Request) /\ ack \in RequestTypes
    /\ transport \in {"open", "null"} /\ status \in Statuses /\ CallTypeOK
  BY DEF TypeOK, ChannelTypeOK, FieldTypeOK, RequestTypes
<1> Req(ack) \in Request
  BY ResponsesTyped
<1>1. CASE /\ Send(Req(ack))
           /\ s2c' = Tail(s2c)
           /\ Wait(call, "ack", "NULL", handle_failure_message(Head(s2c)))
           /\ UNCHANGED <<status, transport>>
  <2>1. handle_failure_message(Head(s2c)) \in Int
    BY ReceivedTyped, ErrorsTyped
  <2>2. CallTypeOK'
    BY <1>1, <2>1, WaitTyped
  <2>3. c2s' \in Seq(Request)
    BY <1>1, SendTyped
  <2> QED
    BY <1>1, <2>2, <2>3, ReceivedTyped
<1>2. CASE \E rc \in SendErrors(ack) : FatalFailure(rc) /\ UNCHANGED c2s
  <2>1. PICK rc \in SendErrors(ack) : FatalFailure(rc) /\ UNCHANGED c2s
    BY <1>2
  <2>2. rc \in Int
    BY ErrorsTyped
  <2> QED
    BY <2>1, <2>2, FatalTyped DEF Statuses
<1> QED
  BY <1>1, <1>2 DEF handle_failure

LEMMA SendAndWaitTyped ==
  ASSUME TypeOK, NEW op \in Calls, NEW t \in RequestTypes,
         NEW qa \in {"NULL", "given"}, SendAndWait(op, t, qa)
  PROVE  /\ CallTypeOK'
         /\ transport' \in {"open", "null"}
         /\ status' \in Statuses
         /\ c2s' \in Seq(Request)
         /\ s2c' \in Seq(Response)
<1> s2c \in Seq(Response) /\ c2s \in Seq(Request)
    /\ transport \in {"open", "null"} /\ status \in Statuses /\ CallTypeOK
  BY DEF TypeOK, ChannelTypeOK, FieldTypeOK
<1>1. CASE /\ Send(Req(t))
           /\ Wait(op, "reply", qa, 0)
           /\ UNCHANGED <<status, transport, s2c>>
  BY <1>1, WaitTyped, SendTyped, ResponsesTyped
<1>2. CASE /\ \E rc \in SendErrors(t) : FatalFailure(rc)
           /\ UNCHANGED c2s
  BY <1>2, ErrorsTyped, FatalTyped DEF Statuses
<1> QED
  BY <1>1, <1>2 DEF SendAndWait

----------------------------------------------------------------------------
(* A call in progress waits in the phase and in the session state it was   *)
(* let in with: what the proofs need of the guards of the calls.           *)
CallInProgress ==
  /\ (call \in Calls) <=> (phase # "idle")
  /\ call \in Calls => transport = "open"
  /\ call = "fetch" => status = "FETCHING"
  /\ call \in {"begin", "end"} => status = "READY"
  /\ call = "run" => \/ status = "READY"
                     \/ explicit_transaction = 1 /\ status = "EXECUTING"
  /\ call = "begin" => explicit_transaction = 0
  /\ call = "end" => explicit_transaction = 1

(* The safety invariants, and what a call in progress has done: it has     *)
(* cleared the previous result, and the error it carries through           *)
(* handle_failure is negative.                                             *)
Safe == BadIffNoTransport /\ CallInProgress /\ QueryCountCoversExecution

CallLocals ==
  /\ call \in Calls => message = NoMessage
  /\ phase = "ack" => failure_status < 0

ClientOK == TypeOK /\ Safe /\ CallLocals

----------------------------------------------------------------------------
(* Type correctness, one step per action. *)
LEMMA ClientTypeStep == TypeOK /\ Safe /\ ClientNext => TypeOK'
<1> SUFFICES ASSUME TypeOK, Safe, ClientNext PROVE TypeOK'
  OBVIOUS
<1> s2c \in Seq(Response)
  BY DEF TypeOK, ChannelTypeOK
<1> USE DEF TypeOK, ChannelTypeOK, FieldTypeOK
<1>1. ASSUME NEW qa \in {"NULL", "given"}, mg_session_run(qa) PROVE TypeOK'
  BY <1>1, SendAndWaitTyped DEF mg_session_run, Calls, RequestTypes
<1>2. CASE mg_session_begin_transaction
  BY <1>2, SendAndWaitTyped DEF mg_session_begin_transaction, Calls, RequestTypes
<1>3. ASSUME NEW c \in BOOLEAN, mg_session_end_transaction(c) PROVE TypeOK'
  BY <1>3, SendAndWaitTyped DEF mg_session_end_transaction, Calls, RequestTypes
<1>4. CASE mg_session_fetch
  BY <1>4, WaitTyped DEF mg_session_fetch, Calls, channelVars
<1>5. ASSUME NEW q \in Qids \cup {NoQid}, NEW n \in {"all", "some"},
             mg_session_pull(q, n)
      PROVE  TypeOK'
  <2>1. CASE /\ Send(IF version = 4 THEN PullReq(q, n) ELSE Req("PULL"))
             /\ status' = "FETCHING"
             /\ Return(MG_SUCCESS)
             /\ UNCHANGED <<transport, s2c>>
    <3>1. (IF version = 4 THEN PullReq(q, n) ELSE Req("PULL")) \in Request
      BY ResponsesTyped DEF RequestTypes
    <3>2. c2s' \in Seq(Request)
      BY <2>1, <3>1, SendTyped
    <3>3. CallTypeOK'
      BY <2>1, ReturnTyped DEF MG_SUCCESS
    <3> QED
      BY <1>5, <2>1, <3>2, <3>3 DEF mg_session_pull, Statuses
  <2>2. CASE /\ \E rc \in SendErrors("PULL") : FatalFailure(rc)
             /\ UNCHANGED c2s
    <3>1. CallTypeOK' /\ transport' = "null" /\ status' = "BAD"
          /\ s2c' \in Seq(Response)
      BY <2>2, ErrorsTyped, FatalTyped DEF RequestTypes
    <3> QED
      BY <1>5, <2>2, <3>1 DEF mg_session_pull, Statuses
  <2> QED
    BY <1>5, <2>1, <2>2 DEF mg_session_pull
<1>6. CASE BadCall
  BY <1>6, ReturnTyped DEF BadCall, fieldVars, channelVars, MG_ERROR_BAD_CALL
<1>7. CASE mg_session_destroy
  BY <1>7 DEF mg_session_destroy, CallTypeOK
<1>8. CASE ReceiveFails
  BY <1>8, ErrorsTyped, FatalTyped DEF ReceiveFails, Statuses
<1>9. CASE RunReply
  <2>1. s2c # <<>> /\ Head(s2c) \in Response /\ Tail(s2c) \in Seq(Response)
    BY <1>9, ReceivedTyped DEF RunReply, Received
  <2>2. CASE RunSucceeds(Head(s2c)) /\ UNCHANGED c2s
    <3>1. Head(s2c).qid \in Qids \cup {NoQid, NoColumns}
      BY <2>1 DEF Response
    <3>2. CallTypeOK' /\ transport' \in {"open", "null"} /\ status' \in Statuses
          /\ s2c' \in Seq(Response)
      <4>1. CASE Return(MG_ERROR_OOM) /\ s2c' = Tail(s2c)
                 /\ UNCHANGED <<status, transport>>
        BY <2>1, <4>1, ReturnTyped DEF MG_ERROR_OOM
      <4>2. CASE FatalFailure(MG_ERROR_PROTOCOL_VIOLATION)
        BY <4>2, FatalTyped DEF MG_ERROR_PROTOCOL_VIOLATION, Statuses
      <4>3. CASE Return(MG_SUCCESS) /\ s2c' = Tail(s2c) /\ status' = "EXECUTING"
                 /\ UNCHANGED transport
        BY <2>1, <4>3, ReturnTyped DEF MG_SUCCESS, Statuses
      <4> QED
        BY <2>2, <4>1, <4>2, <4>3 DEF RunSucceeds
    <3>3. query_number' \in Nat /\ columns' \in Qids \cup {NoQid, NoColumns}
      BY <2>2, <3>1 DEF RunSucceeds, QueryCounted
    <3> QED
      BY <1>9, <2>2, <3>2, <3>3 DEF RunReply
  <2>3. CASE /\ FatalFailure(MG_ERROR_PROTOCOL_VIOLATION)
             /\ UNCHANGED <<columns, query_number, c2s>>
    BY <1>9, <2>3, FatalTyped
       DEF RunReply, MG_ERROR_PROTOCOL_VIOLATION, Statuses
  <2>4. CASE handle_failure(Head(s2c)) /\ UNCHANGED <<columns, query_number>>
    BY <1>9, <2>1, <2>4, HandleFailureTyped DEF RunReply, Calls
  <2> QED
    BY <1>9, <2>2, <2>3, <2>4 DEF RunReply, Unexpected
<1>10. CASE FetchReply
  <2>1. s2c # <<>> /\ Head(s2c) \in Response /\ Tail(s2c) \in Seq(Response)
    BY <1>10, ReceivedTyped DEF FetchReply, Received
  <2>2. CASE /\ message' = Head(s2c) /\ s2c' = Tail(s2c)
             /\ Return(1)
             /\ UNCHANGED <<status, query_number, transport, c2s>>
    BY <1>10, <2>1, <2>2, ReturnTyped DEF FetchReply
  <2>3. CASE /\ FetchSummary(Head(s2c))
             /\ message' = Head(s2c) /\ s2c' = Tail(s2c)
             /\ Return(0)
             /\ UNCHANGED <<transport, c2s>>
    <3>1. query_number' \in Nat /\ status' \in Statuses
      <4>1. version = 4 /\ explicit_transaction = 1 => query_number >= 1
        BY <1>10 DEF FetchReply, Safe, CallInProgress, QueryCountCoversExecution
      <4> QED
        BY <2>3, <4>1 DEF FetchSummary, Statuses
    <3> QED
      BY <1>10, <2>1, <2>3, <3>1, ReturnTyped DEF FetchReply
  <2>4. CASE Unexpected /\ UNCHANGED <<query_number, message>>
    BY <1>10, <2>4, FatalTyped
       DEF FetchReply, Unexpected, MG_ERROR_PROTOCOL_VIOLATION, Statuses
  <2>5. CASE handle_failure(Head(s2c)) /\ UNCHANGED <<query_number, message>>
    BY <1>10, <2>1, <2>5, HandleFailureTyped DEF FetchReply, Calls
  <2> QED
    BY <1>10, <2>2, <2>3, <2>4, <2>5 DEF FetchReply
<1>11. CASE BeginReply
  <2>1. s2c # <<>> /\ Head(s2c) \in Response /\ Tail(s2c) \in Seq(Response)
    BY <1>11, ReceivedTyped DEF BeginReply, Received
  <2>2. CASE /\ explicit_transaction' = 1 /\ query_number' = 0
             /\ s2c' = Tail(s2c)
             /\ Return(MG_SUCCESS)
             /\ UNCHANGED <<status, transport, c2s>>
    BY <1>11, <2>1, <2>2, ReturnTyped DEF BeginReply, MG_SUCCESS
  <2>3. CASE Unexpected /\ UNCHANGED <<explicit_transaction, query_number>>
    BY <1>11, <2>3, FatalTyped
       DEF BeginReply, Unexpected, MG_ERROR_PROTOCOL_VIOLATION, Statuses
  <2>4. CASE /\ handle_failure(Head(s2c))
             /\ UNCHANGED <<explicit_transaction, query_number>>
    BY <1>11, <2>1, <2>4, HandleFailureTyped DEF BeginReply, Calls
  <2> QED
    BY <1>11, <2>2, <2>3, <2>4 DEF BeginReply
<1>12. CASE EndReply
  <2>1. s2c # <<>> /\ Head(s2c) \in Response /\ Tail(s2c) \in Seq(Response)
    BY <1>12, ReceivedTyped DEF EndReply, Received
  <2>2. CASE /\ message' = Head(s2c) /\ status' = "READY"
             /\ explicit_transaction' = 0 /\ s2c' = Tail(s2c)
             /\ Return(MG_SUCCESS)
             /\ UNCHANGED <<transport, c2s>>
    BY <1>12, <2>1, <2>2, ReturnTyped DEF EndReply, MG_SUCCESS, Statuses
  <2>3. CASE Unexpected /\ UNCHANGED <<explicit_transaction, message>>
    BY <1>12, <2>3, FatalTyped
       DEF EndReply, Unexpected, MG_ERROR_PROTOCOL_VIOLATION, Statuses
  <2>4. CASE handle_failure(Head(s2c)) /\ UNCHANGED <<explicit_transaction, message>>
    BY <1>12, <2>1, <2>4, HandleFailureTyped DEF EndReply, Calls
  <2> QED
    BY <1>12, <2>2, <2>3, <2>4 DEF EndReply
<1>13. CASE AckReply
  <2>1. Tail(s2c) \in Seq(Response)
    BY <1>13, ReceivedTyped DEF AckReply
  <2>2. CallTypeOK' /\ transport' \in {"open", "null"} /\ status' \in Statuses
        /\ s2c' \in Seq(Response)
    <3>1. CASE Return(failure_status) /\ s2c' = Tail(s2c) /\ UNCHANGED transport
               /\ status' = StatusAfterFailure
      <4>1. failure_status \in Int
        BY DEF CallTypeOK
      <4>2. CallTypeOK'
        BY <3>1, <4>1, ReturnTyped
      <4> QED
        BY <2>1, <3>1, <4>2 DEF Statuses, StatusAfterFailure
    <3>2. CASE FatalFailure(MG_ERROR_PROTOCOL_VIOLATION)
      BY <3>2, FatalTyped DEF MG_ERROR_PROTOCOL_VIOLATION, Statuses
    <3> QED
      BY <1>13, <3>1, <3>2 DEF AckReply
  <2> QED
    BY <1>13, <2>2 DEF AckReply
<1> QED
  BY <1>1, <1>2, <1>3, <1>4, <1>5, <1>6, <1>7, <1>8, <1>9, <1>10, <1>11, <1>12,
     <1>13
     DEF ClientNext, ClientCalls, ClientReplies

LEMMA ClientSafeStep == TypeOK /\ Safe /\ ClientNext => Safe'
<1> SUFFICES ASSUME TypeOK, Safe, ClientNext PROVE Safe'
  OBVIOUS
<1> /\ status \in Statuses /\ query_number \in Nat /\ version \in {1, 4}
    /\ explicit_transaction \in {0, 1} /\ phase \in {"idle", "reply", "ack"}
    /\ call \in Calls \cup {"none", "destroyed"} /\ transport \in {"open", "null"}
  BY VersionsAssumption DEF TypeOK, FieldTypeOK, CallTypeOK, ChannelTypeOK
<1> USE DEF Safe, BadIffNoTransport, CallInProgress, QueryCountCoversExecution,
            Statuses, Calls
<1>1. ASSUME NEW qa \in {"NULL", "given"}, mg_session_run(qa) PROVE Safe'
  BY <1>1 DEF mg_session_run, SendAndWait, Wait, FatalFailure, Return,
     mg_session_invalidate, RunRefused, Idle
<1>2. CASE mg_session_begin_transaction
  BY <1>2 DEF mg_session_begin_transaction, SendAndWait, Wait, FatalFailure,
     Return, mg_session_invalidate, BeginRefused, Idle
<1>3. ASSUME NEW c \in BOOLEAN, mg_session_end_transaction(c) PROVE Safe'
  BY <1>3 DEF mg_session_end_transaction, SendAndWait, Wait, FatalFailure,
     Return, mg_session_invalidate, EndRefused, Idle
<1>4. CASE mg_session_fetch
  BY <1>4 DEF mg_session_fetch, FetchRefused, Wait, Idle, channelVars
<1>5. ASSUME NEW q \in Qids \cup {NoQid}, NEW n \in {"all", "some"},
             mg_session_pull(q, n)
      PROVE  Safe'
  BY <1>5 DEF mg_session_pull, PullRefused, Return, FatalFailure,
     mg_session_invalidate, Idle
<1>6. CASE BadCall
  BY <1>6 DEF BadCall, Return, Idle, fieldVars, channelVars
<1>7. CASE mg_session_destroy
  BY <1>7 DEF mg_session_destroy, Idle
<1>8. CASE ReceiveFails
  BY <1>8 DEF ReceiveFails, FatalFailure, Return, mg_session_invalidate
<1>9. CASE RunReply
  BY <1>9 DEF RunReply, RunSucceeds, QueryCounted, Unexpected, handle_failure, Wait,
     FatalFailure, Return, mg_session_invalidate
<1>10. CASE FetchReply
  BY <1>10 DEF FetchReply, FetchSummary, Unexpected, handle_failure, Wait,
     FatalFailure, Return, mg_session_invalidate
<1>11. CASE BeginReply
  BY <1>11 DEF BeginReply, Unexpected, handle_failure, Wait, FatalFailure,
     Return, mg_session_invalidate
<1>12. CASE EndReply
  BY <1>12 DEF EndReply, Unexpected, handle_failure, Wait, FatalFailure,
     Return, mg_session_invalidate
<1>13. CASE AckReply
  BY <1>13 DEF AckReply, StatusAfterFailure, FatalFailure, Return, mg_session_invalidate
<1> QED
  BY <1>1, <1>2, <1>3, <1>4, <1>5, <1>6, <1>7, <1>8, <1>9, <1>10, <1>11, <1>12,
     <1>13
     DEF ClientNext, ClientCalls, ClientReplies

LEMMA ClientLocalsStep == ClientOK /\ ClientNext => CallLocals'
<1> SUFFICES ASSUME TypeOK, Safe, CallLocals, ClientNext PROVE CallLocals'
  BY DEF ClientOK
<1> USE DEF CallLocals, Calls
<1> /\ call \in Calls \cup {"none", "destroyed"} /\ s2c \in Seq(Response)
    /\ failure_status \in Int
    /\ (call \in Calls) <=> (phase # "idle")
  BY DEF Safe, TypeOK, CallTypeOK, ChannelTypeOK, CallInProgress
<1>1. CASE \/ \E qa \in {"NULL", "given"} : mg_session_run(qa)
           \/ mg_session_begin_transaction
           \/ \E c \in BOOLEAN : mg_session_end_transaction(c)
  BY <1>1 DEF mg_session_run, mg_session_begin_transaction,
     mg_session_end_transaction, SendAndWait, Wait, FatalFailure, Return
<1>2. CASE mg_session_fetch
  BY <1>2 DEF mg_session_fetch, Wait
<1>3. CASE \E q \in Qids \cup {NoQid}, n \in {"all", "some"} : mg_session_pull(q, n)
  BY <1>3 DEF mg_session_pull, Return, FatalFailure
<1>4. CASE BadCall \/ mg_session_destroy
  BY <1>4 DEF BadCall, mg_session_destroy, Return, Idle
<1>5. ASSUME handle_failure(Head(s2c)), s2c # <<>>, UNCHANGED message,
             call \in Calls
      PROVE  CallLocals'
  <2>1. handle_failure_message(Head(s2c)) < 0
    BY <1>5, ReceivedTyped, ErrorsTyped
  <2> QED
    BY <1>5, <2>1 DEF handle_failure, Wait, FatalFailure, Return
<1>6. CASE RunReply
  BY <1>5, <1>6 DEF RunReply, RunSucceeds, Received, Unexpected, FatalFailure, Return
<1>7. CASE FetchReply
  BY <1>5, <1>7 DEF FetchReply, Received, Unexpected, FatalFailure, Return
<1>8. CASE BeginReply
  BY <1>5, <1>8 DEF BeginReply, Received, Unexpected, FatalFailure, Return
<1>9. CASE EndReply
  BY <1>5, <1>9 DEF EndReply, Received, Unexpected, FatalFailure, Return
<1>10. CASE AckReply \/ ReceiveFails
  BY <1>10 DEF AckReply, ReceiveFails, FatalFailure, Return
<1> QED
  BY <1>1, <1>2, <1>3, <1>4, <1>6, <1>7, <1>8, <1>9, <1>10
     DEF ClientNext, ClientCalls, ClientReplies

(* Every step of the client keeps its invariants. *)
LEMMA ClientStep == ClientOK /\ ClientNext => ClientOK'
BY ClientTypeStep, ClientSafeStep, ClientLocalsStep DEF ClientOK

(* As do the steps of a peer that sends responses. *)
LEMMA PeerStep ==
  ASSUME ClientOK, UNCHANGED <<clientVars, transport>>,
         peer' \in {"up", "down"}, c2s' \in Seq(Request), s2c' \in Seq(Response)
  PROVE  ClientOK'
<1> USE DEF clientVars, fieldVars, callVars
<1>1. TypeOK'
  BY DEF ClientOK, TypeOK, ChannelTypeOK, FieldTypeOK, CallTypeOK
<1>2. Safe'
  BY DEF ClientOK, Safe, BadIffNoTransport, CallInProgress,
     QueryCountCoversExecution
<1>3. CallLocals'
  BY DEF ClientOK, CallLocals
<1> QED
  BY <1>1, <1>2, <1>3 DEF ClientOK

LEMMA ClientInitOK == ClientInit => ClientOK
BY DEF ClientInit, ChannelInit, ClientOK, TypeOK, ChannelTypeOK, FieldTypeOK,
   CallTypeOK, Statuses, Safe, BadIffNoTransport, CallInProgress,
   QueryCountCoversExecution, CallLocals, Calls

----------------------------------------------------------------------------
(* The client implements SessionContract.  First the building blocks, seen *)
(* through the mapping.                                                    *)
LEMMA FatalLoses ==
  ASSUME NEW rc \in Int \ {0}, FatalFailure(rc), UNCHANGED explicit_transaction,
         message' = NoMessage
  PROVE  Contract!Loses /\ ret' = rc
BY DEF FatalFailure, Return, mg_session_invalidate, Contract!Loses,
       Contract!Returns, Got, NoMessage, Resp

LEMMA SendAndWaitMaps ==
  ASSUME Idle, NEW op \in {"run", "begin", "end"}, NEW t \in RequestTypes, NEW qa,
         Contract!Possible(op), SendAndWait(op, t, qa), message' = NoMessage,
         UNCHANGED explicit_transaction
  PROVE  Contract!CNext
<1>1. CASE /\ Send(Req(t))
           /\ Wait(op, "reply", qa, 0)
           /\ UNCHANGED <<status, transport, s2c>>
  <2>1. Contract!Start(op)
    BY <1>1 DEF Wait, Idle, Contract!Start, Got, NoMessage, Resp
  <2> QED
    BY <2>1 DEF Contract!CNext
<1>2. CASE \E rc \in SendErrors(t) : FatalFailure(rc)
  <2>1. Contract!LosesAtOnce
    BY <1>2, ErrorsTyped, FatalLoses DEF Contract!LosesAtOnce, Idle
  <2> QED
    BY <2>1 DEF Contract!CNext
<1> QED
  BY <1>1, <1>2 DEF SendAndWait

(* handle_failure gives up the connection, or goes on and is not seen. *)
LEMMA HandleFailureMaps ==
  ASSUME ClientOK, call \in Calls, s2c # <<>>, handle_failure(Head(s2c)),
         UNCHANGED <<explicit_transaction, message>>
  PROVE  \/ Contract!Loses /\ ret' < 0
         \/ UNCHANGED Contract!cvars
<1> DEFINE ack == IF version = 1 THEN "ACK_FAILURE" ELSE "RESET"
<1>1. CASE /\ Wait(call, "ack", "NULL", handle_failure_message(Head(s2c)))
           /\ UNCHANGED <<status, transport>>
  BY <1>1 DEF Wait, Contract!cvars, Got
<1>2. CASE \E rc \in SendErrors(ack) : FatalFailure(rc)
  <2>1. SendErrors(ack) \subseteq {MG_ERROR_SEND_FAILED}
    BY DEF SendErrors, CarriesMap
  <2> QED
    BY <1>2, <2>1, FatalLoses DEF MG_ERROR_SEND_FAILED, ClientOK, CallLocals
<1> QED
  BY <1>1, <1>2 DEF handle_failure

LEMMA UnexpectedMaps ==
  ASSUME CallLocals, call \in Calls, FatalFailure(MG_ERROR_PROTOCOL_VIOLATION),
         UNCHANGED <<explicit_transaction, message>>
  PROVE  Contract!Loses /\ ret' < 0
BY FatalLoses DEF MG_ERROR_PROTOCOL_VIOLATION, CallLocals

(* A call that waits may always lose the connection. *)
LEMMA LosesWhileWaiting ==
  ASSUME call \in Calls, Contract!Loses, ret' < 0
  PROVE  Contract!CNext
BY DEF Calls, Contract!CNext, Contract!Run, Contract!Fetch, Contract!Begin,
       Contract!End, Contract!Loses, Contract!Fails, Contract!Returns

(* Every step of the client is a step of the contract, or is not seen. *)
LEMMA ClientMaps ==
  ASSUME ClientOK, ClientNext
  PROVE  Contract!CNext \/ UNCHANGED Contract!cvars
<1> /\ status \in Statuses /\ explicit_transaction \in {0, 1}
    /\ call \in Calls \cup {"none", "destroyed"}
    /\ s2c \in Seq(Response) /\ failure_status \in Int
    /\ CallInProgress /\ CallLocals
  BY DEF ClientOK, Safe, TypeOK, FieldTypeOK, CallTypeOK, ChannelTypeOK
<1>1. ASSUME NEW qa \in {"NULL", "given"}, mg_session_run(qa) PROVE Contract!CNext
  <2>1. Contract!Possible("run")
    BY <1>1 DEF mg_session_run, RunRefused, Statuses, Contract!Possible
  <2> QED
    BY <1>1, <2>1, SendAndWaitMaps DEF mg_session_run, RequestTypes
<1>2. CASE mg_session_begin_transaction
  <2>1. Contract!Possible("begin")
    BY <1>2 DEF mg_session_begin_transaction, BeginRefused, Statuses,
       Contract!Possible
  <2> QED
    BY <1>2, <2>1, SendAndWaitMaps DEF mg_session_begin_transaction, RequestTypes
<1>3. ASSUME NEW c \in BOOLEAN, mg_session_end_transaction(c) PROVE Contract!CNext
  <2>1. Contract!Possible("end")
    BY <1>3 DEF mg_session_end_transaction, EndRefused, Statuses,
       Contract!Possible
  <2> QED
    BY <1>3, <2>1, SendAndWaitMaps DEF mg_session_end_transaction, RequestTypes
<1>4. CASE mg_session_fetch
  <2>1. Contract!Start("fetch")
    BY <1>4 DEF mg_session_fetch, Wait, FetchRefused, Idle, Contract!Start,
       Contract!Possible, Got, NoMessage, Resp
  <2> QED
    BY <2>1 DEF Contract!CNext
<1>5. ASSUME NEW q \in Qids \cup {NoQid}, NEW n \in {"all", "some"},
             mg_session_pull(q, n)
      PROVE  Contract!CNext
  <2>1. CASE status' = "FETCHING" /\ Return(MG_SUCCESS)
    BY <1>5, <2>1 DEF mg_session_pull, PullRefused, Idle, Return, MG_SUCCESS,
       Contract!CNext, Contract!Pull, Contract!Succeeds, Contract!Returns,
       Got, NoMessage, Resp
  <2>2. CASE \E rc \in SendErrors("PULL") : FatalFailure(rc)
    <3>1. Contract!Loses
      BY <1>5, <2>2, ErrorsTyped, FatalLoses DEF mg_session_pull, RequestTypes
    <3> QED
      BY <1>5, <3>1 DEF mg_session_pull, PullRefused, Idle, Contract!CNext,
         Contract!Pull
  <2> QED
    BY <1>5, <2>1, <2>2 DEF mg_session_pull
<1>6. CASE BadCall
  <2>1. Contract!Refuses
    BY <1>6 DEF BadCall, RunRefused, PullRefused, FetchRefused, BeginRefused,
       EndRefused, Return, Idle, fieldVars, MG_ERROR_BAD_CALL, Got,
       Contract!Refuses, Contract!Possible, Contract!Returns,
       Contract!MG_ERROR_BAD_CALL
  <2> QED
    BY <2>1 DEF Contract!CNext
<1>7. CASE mg_session_destroy
  <2>1. Contract!Destroy
    BY <1>7 DEF mg_session_destroy, Idle, Contract!Destroy, Got, NoMessage, Resp
  <2> QED
    BY <2>1 DEF Contract!CNext
<1>8. CASE ReceiveFails
  <2>1. call \in Calls
    BY <1>8 DEF ReceiveFails, CallInProgress
  <2>2. Contract!Loses /\ ret' < 0
    BY <1>8, <2>1, ErrorsTyped, FatalLoses DEF ReceiveFails, CallLocals
  <2> QED
    BY <2>1, <2>2, LosesWhileWaiting
<1>9. CASE RunReply
  <2>1. call = "run" /\ call \in Calls /\ message = NoMessage
    BY <1>9 DEF RunReply, Calls, CallLocals
  <2>2. CASE Return(MG_ERROR_OOM) /\ UNCHANGED <<status, explicit_transaction, message>>
    BY <2>1, <2>2 DEF Return, MG_ERROR_OOM, Contract!CNext, Contract!Run,
       Contract!Fails, Contract!Returns, Got, NoMessage, Resp
  <2>3. CASE /\ Return(MG_SUCCESS) /\ status' = "EXECUTING"
             /\ UNCHANGED <<explicit_transaction, message>>
    BY <2>1, <2>3 DEF Return, MG_SUCCESS, Contract!CNext, Contract!Run,
       Contract!Succeeds, Contract!Returns, Got, NoMessage, Resp
  <2>8. CASE handle_failure(Head(s2c)) /\ UNCHANGED <<explicit_transaction, message>>
    <3>1. \/ Contract!Loses /\ ret' < 0
          \/ UNCHANGED Contract!cvars
      BY <1>9, <2>1, <2>8, HandleFailureMaps DEF RunReply, Received
    <3> QED
      BY <2>1, <3>1, LosesWhileWaiting
  <2>9. CASE /\ FatalFailure(MG_ERROR_PROTOCOL_VIOLATION)
             /\ UNCHANGED <<explicit_transaction, message>>
    BY <2>1, <2>9, UnexpectedMaps, LosesWhileWaiting
  <2> QED
    BY <1>9, <2>2, <2>3, <2>8, <2>9 DEF RunReply, RunSucceeds, Unexpected
<1>10. CASE FetchReply
  <2>1. call = "fetch" /\ call \in Calls /\ status = "FETCHING"
    BY <1>10 DEF FetchReply, Calls, CallInProgress
  <2>2. CASE /\ Head(s2c).type = "RECORD" /\ message' = Head(s2c) /\ Return(1)
             /\ UNCHANGED <<status, explicit_transaction>>
    BY <2>1, <2>2 DEF Return, Contract!CNext, Contract!Fetch, Contract!Returns, Got
  <2>3. CASE /\ Head(s2c).type = "SUCCESS" /\ FetchSummary(Head(s2c))
             /\ message' = Head(s2c) /\ Return(0)
             /\ UNCHANGED explicit_transaction
    <3>1. status' \in {"READY", "EXECUTING"}
      BY <2>3 DEF FetchSummary
    <3> QED
      BY <2>1, <2>3, <3>1 DEF Return, Contract!CNext, Contract!Fetch,
         Contract!Succeeds, Contract!Returns, Got
  <2>8. CASE handle_failure(Head(s2c)) /\ UNCHANGED <<explicit_transaction, message>>
    <3>1. \/ Contract!Loses /\ ret' < 0
          \/ UNCHANGED Contract!cvars
      BY <1>10, <2>1, <2>8, HandleFailureMaps DEF FetchReply, Received
    <3> QED
      BY <2>1, <3>1, LosesWhileWaiting
  <2>9. CASE /\ FatalFailure(MG_ERROR_PROTOCOL_VIOLATION)
             /\ UNCHANGED <<explicit_transaction, message>>
    BY <2>1, <2>9, UnexpectedMaps, LosesWhileWaiting
  <2> QED
    BY <1>10, <2>2, <2>3, <2>8, <2>9 DEF FetchReply, Received, Unexpected
<1>11. CASE BeginReply
  <2>1. call = "begin" /\ call \in Calls /\ status = "READY" /\ message = NoMessage
    BY <1>11 DEF BeginReply, Calls, CallInProgress, CallLocals
  <2>2. CASE /\ explicit_transaction' = 1 /\ Return(MG_SUCCESS)
             /\ UNCHANGED <<status, message>>
    BY <2>1, <2>2 DEF Return, MG_SUCCESS, Contract!CNext, Contract!Begin,
       Contract!Succeeds, Contract!Returns, Got, NoMessage, Resp
  <2>8. CASE handle_failure(Head(s2c)) /\ UNCHANGED <<explicit_transaction, message>>
    <3>1. \/ Contract!Loses /\ ret' < 0
          \/ UNCHANGED Contract!cvars
      BY <1>11, <2>1, <2>8, HandleFailureMaps DEF BeginReply, Received
    <3> QED
      BY <2>1, <3>1, LosesWhileWaiting
  <2>9. CASE /\ FatalFailure(MG_ERROR_PROTOCOL_VIOLATION)
             /\ UNCHANGED <<explicit_transaction, message>>
    BY <2>1, <2>9, UnexpectedMaps, LosesWhileWaiting
  <2> QED
    BY <1>11, <2>2, <2>8, <2>9 DEF BeginReply, Unexpected
<1>12. CASE EndReply
  <2>1. call = "end" /\ call \in Calls
    BY <1>12 DEF EndReply, Calls
  <2>2. CASE /\ Head(s2c).type = "SUCCESS" /\ message' = Head(s2c)
             /\ status' = "READY" /\ explicit_transaction' = 0
             /\ Return(MG_SUCCESS)
    BY <2>1, <2>2 DEF Return, MG_SUCCESS, Contract!CNext, Contract!End,
       Contract!Succeeds, Contract!Returns, Got
  <2>8. CASE handle_failure(Head(s2c)) /\ UNCHANGED <<explicit_transaction, message>>
    <3>1. \/ Contract!Loses /\ ret' < 0
          \/ UNCHANGED Contract!cvars
      BY <1>12, <2>1, <2>8, HandleFailureMaps DEF EndReply, Received
    <3> QED
      BY <2>1, <3>1, LosesWhileWaiting
  <2>9. CASE /\ FatalFailure(MG_ERROR_PROTOCOL_VIOLATION)
             /\ UNCHANGED <<explicit_transaction, message>>
    BY <2>1, <2>9, UnexpectedMaps, LosesWhileWaiting
  <2> QED
    BY <1>12, <2>2, <2>8, <2>9 DEF EndReply, Received, Unexpected
<1>13. CASE AckReply
  <2>1. call \in Calls /\ message = NoMessage /\ failure_status < 0
    BY <1>13 DEF AckReply, CallInProgress, CallLocals
  <2>2. CASE FatalFailure(MG_ERROR_PROTOCOL_VIOLATION)
    BY <1>13, <2>1, <2>2, UnexpectedMaps, LosesWhileWaiting DEF AckReply
  <2>3. CASE /\ status' = StatusAfterFailure
             /\ Return(failure_status)
    <3>1. Contract!Fails(status', explicit_transaction)
      BY <1>13, <2>1, <2>3 DEF AckReply, Return, Contract!Fails,
         Contract!Returns, Got, NoMessage, Resp
    <3>2. /\ call = "begin" => status' = "READY" /\ explicit_transaction = 0
          /\ call = "end" => status' = "READY" /\ explicit_transaction = 1
          /\ call = "run" => status' = status
          /\ call = "fetch" => status' = "READY"
      BY <2>3 DEF CallInProgress, StatusAfterFailure
    <3> QED
      BY <2>1, <3>1, <3>2 DEF Calls, Contract!CNext, Contract!Run, Contract!Fetch,
         Contract!Begin, Contract!End
  <2> QED
    BY <1>13, <2>2, <2>3 DEF AckReply
<1> QED
  BY <1>1, <1>2, <1>3, <1>4, <1>5, <1>6, <1>7, <1>8, <1>9, <1>10, <1>11,
     <1>12, <1>13
     DEF ClientNext, ClientCalls, ClientReplies

(* A step of anybody else is not seen. *)
LEMMA OthersUnseen == UNCHANGED clientVars => UNCHANGED Contract!cvars
BY DEF clientVars, fieldVars, callVars, Contract!cvars, Got

LEMMA InitMaps == ClientInit => Contract!CInit
BY DEF ClientInit, Contract!CInit, Got, NoMessage, Resp

----------------------------------------------------------------------------
(* Theorems about the client against any peer (module AnyServer).  What is *)
(* left to show is that the peer's steps disturb nothing.                  *)

LEMMA ClientOKHolds == AnySpec => []ClientOK
<1>1. AnyInit => ClientOK
  BY ClientInitOK DEF AnyInit
<1>2. ClientOK /\ [AnyNext]_anyVars => ClientOK'
  <2> SUFFICES ASSUME ClientOK, [AnyNext]_anyVars PROVE ClientOK'
    OBVIOUS
  <2>1. /\ peer \in {"up", "down"} /\ c2s \in Seq(Request)
        /\ s2c \in Seq(Response)
    BY DEF ClientOK, TypeOK, ChannelTypeOK
  <2>2. AnyResponse \subseteq Response
    BY ResponsesTyped DEF AnyResponse
  <2>3. CASE ClientNext
    BY <2>3, ClientStep
  <2>4. CASE PeerTakes
    BY <2>1, <2>4, PeerStep DEF PeerTakes
  <2>5. CASE PeerSends
    BY <2>1, <2>2, <2>5, PeerStep DEF PeerSends
  <2>6. CASE PeerCloses
    BY <2>1, <2>6, PeerStep DEF PeerCloses
  <2>7. CASE UNCHANGED anyVars
    BY <2>1, <2>7, PeerStep DEF anyVars, channelVars
  <2> QED
    BY <2>3, <2>4, <2>5, <2>6, <2>7 DEF AnyNext, AnyFinished
<1> QED
  BY <1>1, <1>2, PTL DEF AnySpec

(* The session, the connection and the call in progress always have the    *)
(* types of TypeOK, whatever the peer sends; query_number in particular is *)
(* never decremented below zero.                                           *)
THEOREM SessionTypeCorrect == AnySpec => []TypeOK
BY ClientOKHolds, PTL DEF ClientOK

(* No path through the calls leaves a usable-looking session on a          *)
(* destroyed transport, nor a BAD one holding its socket.                  *)
THEOREM TransportFollowsStatus == AnySpec => []BadIffNoTransport
BY ClientOKHolds, PTL DEF ClientOK, Safe

(* While a query of a version 4 transaction executes query_number is       *)
(* positive, for every peer.                                               *)
THEOREM QueryCountSafe == AnySpec => []QueryCountCoversExecution
BY ClientOKHolds, PTL DEF ClientOK, Safe

(* A lost session stays lost: no call brings it back, sends a message or   *)
(* returns anything but MG_ERROR_BAD_CALL.                                 *)
THEOREM BadForever == AnySpec => BadIsFinal
<1> DEFINE A == status = "BAD" =>
        /\ status' = "BAD" /\ transport' = "null"
        /\ call' \in {"none", "destroyed"}
        /\ Len(c2s') <= Len(c2s)
        /\ (call' = "none" /\ ret' # ret => ret' = MG_ERROR_BAD_CALL)
<1>1. ClientOK /\ [AnyNext]_anyVars => [A]_anyVars
  <2> SUFFICES ASSUME ClientOK, AnyNext, status = "BAD"
               PROVE  A
    OBVIOUS
  <2>1. c2s \in Seq(Request) /\ Len(c2s) \in Nat /\ transport = "null"
        /\ call \in {"none", "destroyed"} /\ phase = "idle"
    BY DEF ClientOK, Safe, TypeOK, ChannelTypeOK, CallTypeOK, BadIffNoTransport,
           CallInProgress
  <2>2. CASE BadCall
    BY <2>1, <2>2 DEF BadCall, Return, fieldVars, channelVars
  <2>3. CASE mg_session_destroy
    BY <2>1, <2>3 DEF mg_session_destroy
  <2>4. CASE PeerTakes
    <3>1. Len(Tail(c2s)) <= Len(c2s)
      BY <2>1, <2>4 DEF PeerTakes
    <3> QED
      BY <2>1, <2>4, <3>1 DEF PeerTakes, clientVars, fieldVars, callVars
  <2>5. CASE PeerCloses
    BY <2>1, <2>5 DEF PeerCloses, clientVars, fieldVars, callVars
  <2>6. CASE AnyFinished
    BY <2>1, <2>6 DEF AnyFinished, anyVars, clientVars, fieldVars, callVars, channelVars
  <2>7. ~ClientReplies /\ ~PeerSends
    BY <2>1 DEF ClientReplies, RunReply, FetchReply, BeginReply, EndReply,
       AckReply, ReceiveFails, PeerSends
  <2>8. ClientCalls => BadCall \/ mg_session_destroy
    BY DEF ClientCalls, mg_session_run, RunRefused, mg_session_pull, PullRefused,
       mg_session_fetch, FetchRefused, mg_session_begin_transaction,
       BeginRefused, mg_session_end_transaction, EndRefused
  <2> QED
    BY <2>2, <2>3, <2>4, <2>5, <2>6, <2>7, <2>8 DEF AnyNext, ClientNext
<1> QED
  BY <1>1, ClientOKHolds, PTL DEF AnySpec, BadIsFinal

(* The detailed session implements the contract of mgclient.h, against     *)
(* every peer and for every bound: initial states map to initial states    *)
(* and each step to a step of the contract or to none.                     *)
THEOREM Refinement == AnySpec => ImplementsContract
<1>1. AnyInit => Contract!CInit
  BY InitMaps DEF AnyInit
<1>2. ClientOK /\ [AnyNext]_anyVars => [Contract!CNext]_(Contract!cvars)
  BY ClientMaps, OthersUnseen
     DEF AnyNext, PeerTakes, PeerSends, PeerCloses, AnyFinished, anyVars
<1> QED
  BY <1>1, <1>2, ClientOKHolds, PTL
     DEF AnySpec, ImplementsContract, Contract!CSpec

----------------------------------------------------------------------------
(* The conforming server by itself. *)

(* The result being streamed is open; READY and TX_READY have no result    *)
(* open, an auto-committed query exactly one, and the identifiers in use   *)
(* within a transaction lie below the next one.                            *)
ServerOK ==
  /\ ServerTypeOK
  /\ pulling # NoQid => pulling \in open /\ srv \in {"STREAMING", "TX_STREAMING"}
  /\ srv \in {"READY", "TX_READY"} => open = {}
  /\ srv = "STREAMING" => open = {0}
  /\ InTransaction => \A q \in open : q < next_qid

LEMMA ServerInitOK == ServerInit => ServerOK
BY BoundsAssumption
   DEF ServerInit, ServerOK, ServerTypeOK, InTransaction, Qids, NoQid

LEMMA ServerStep ==
  ASSUME ServerOK, c2s \in Seq(Request), NEW v, ServerNext(v)
  PROVE  ServerOK'
<1> USE BoundsAssumption DEF ServerOK, ServerTypeOK, InTransaction, Qids, NoQid
<1>1. CASE SrvRun
  <2>1. pulling = NoQid /\ UNCHANGED <<pulling, pull_n>>
    BY <1>1 DEF SrvRun, Takes
  <2>2. CASE srv = "READY" /\ srv' = "STREAMING" /\ open' = {0} /\ last' = 0
             /\ UNCHANGED next_qid
    BY <2>1, <2>2
  <2>3. CASE /\ InTransaction /\ next_qid <= MaxQid /\ srv' = "TX_STREAMING"
             /\ open' = open \cup {next_qid} /\ last' = next_qid
             /\ next_qid' = next_qid + 1
    <3>1. open' \subseteq Qids /\ \A q \in open' : q < next_qid'
      BY <2>3
    <3> QED
      BY <2>1, <2>3, <3>1
  <2> QED
    BY <1>1, <2>2, <2>3 DEF SrvRun
<1>2. CASE SrvPull
  <2>1. c2s # <<>> /\ Head(c2s).n \in {"all", "some"} /\ pulling = NoQid
    <3>1. c2s # <<>> /\ pulling = NoQid
      BY <1>2 DEF SrvPull, Takes
    <3>2. Head(c2s) \in Request
      BY <3>1
    <3> QED
      BY <3>1, <3>2 DEF Request
  <2> QED
    BY <1>2, <2>1 DEF SrvPull
<1>3. CASE SrvRecord
  BY <1>3 DEF SrvRecord, serverVars
<1>4. CASE SrvSummary
  BY <1>4 DEF SrvSummary
<1>5. CASE SrvPullFails
  BY <1>5 DEF SrvPullFails
<1>6. CASE SrvBegin(v)
  BY <1>6 DEF SrvBegin, Takes
<1>7. CASE SrvEnd
  BY <1>7 DEF SrvEnd, Takes, Clear
<1>8. CASE SrvAcknowledge
  BY <1>8 DEF SrvAcknowledge, Takes, Clear
<1>9. CASE SrvRefuse
  BY <1>9 DEF SrvRefuse, Takes
<1>10. CASE SrvCloses
  BY <1>10 DEF SrvCloses, serverVars
<1> QED
  BY <1>1, <1>2, <1>3, <1>4, <1>5, <1>6, <1>7, <1>8, <1>9, <1>10
     DEF ServerNext, ServerAnswers

(* What the server sends and takes, typed. *)
LEMMA ServerMessages ==
  ASSUME ServerOK, ChannelTypeOK, NEW v, ServerNext(v)
  PROVE  /\ peer' \in {"up", "down"} /\ c2s' \in Seq(Request)
         /\ s2c' \in Seq(Response) /\ UNCHANGED transport
<1> USE DEF ChannelTypeOK
<1>1. \A m \in Response : Reply(m) => s2c' \in Seq(Response)
  BY DEF Reply
<1>2. NoQid \in Qids \cup {NoQid} /\ 0 \in Qids
      /\ (pulling # NoQid => pulling \in Qids)
      /\ (next_qid <= MaxQid => next_qid \in Qids)
  BY BoundsAssumption DEF ServerOK, ServerTypeOK, Qids
<1>3. ASSUME NEW types, Takes(types)
      PROVE  c2s' \in Seq(Request) /\ UNCHANGED <<transport, peer>>
  BY <1>3 DEF Takes
<1>4. CASE SrvRun
  BY <1>1, <1>2, <1>3, <1>4, ResponsesTyped DEF SrvRun
<1>5. CASE SrvPull
  BY <1>3, <1>5 DEF SrvPull
<1>6. CASE SrvRecord
  BY <1>1, <1>2, <1>6, ResponsesTyped DEF SrvRecord
<1>7. CASE SrvSummary
  BY <1>1, <1>2, <1>7, ResponsesTyped DEF SrvSummary
<1>8. CASE SrvPullFails
  BY <1>1, <1>8, ResponsesTyped DEF SrvPullFails
<1>9. CASE SrvBegin(v)
  BY <1>1, <1>2, <1>3, <1>9, ResponsesTyped DEF SrvBegin
<1>10. CASE SrvEnd
  BY <1>1, <1>2, <1>3, <1>10, ResponsesTyped DEF SrvEnd
<1>11. CASE SrvAcknowledge
  BY <1>1, <1>2, <1>3, <1>11, ResponsesTyped DEF SrvAcknowledge
<1>12. CASE SrvRefuse
  BY <1>1, <1>3, <1>12, ResponsesTyped DEF SrvRefuse
<1>13. CASE SrvCloses
  BY <1>13 DEF SrvCloses
<1> QED
  BY <1>4, <1>5, <1>6, <1>7, <1>8, <1>9, <1>10, <1>11, <1>12, <1>13
     DEF ServerNext, ServerAnswers

----------------------------------------------------------------------------
(* The client and the conforming server, connected. *)

(* What the client waits for: the acknowledgement of a FAILURE, the reply  *)
(* to the request of its call, the rest of a pulled result, or nothing.    *)
Kind == IF phase = "ack" THEN "ack"
        ELSE IF call \in {"run", "begin", "end"} THEN call
        ELSE IF status = "FETCHING" THEN "pull"
        ELSE "none"

Asks(r) ==
  \/ Kind = "ack"   /\ r.type \in {"RESET", "ACK_FAILURE"}
  \/ Kind = "run"   /\ r.type = "RUN"
  \/ Kind = "begin" /\ r.type = "BEGIN"
  \/ Kind = "end"   /\ r.type \in {"COMMIT", "ROLLBACK"}
  \/ Kind = "pull"  /\ r.type = "PULL" /\ (r.n = "some" => version = 4)

(* The replies that end the wait. *)
Expected(m) ==
  /\ m.type \in {"SUCCESS", "FAILURE"}
  /\ Kind = "ack" => m.type = "SUCCESS"
  /\ m.type = "SUCCESS" =>
       /\ m.has_more # "invalid"
       /\ Kind = "run" => m.fields = "list" /\ m.qid \in Qids
       /\ Kind = "begin" => version = 4
       /\ Kind = "pull" /\ m.has_more = "true" => version = 4

AllRecords(s) == \A i \in 1 .. Len(s) : s[i].type = "RECORD"

EndsRecords(s) ==
  /\ Len(s) > 0
  /\ \A i \in 1 .. Len(s) : i < Len(s) => s[i].type = "RECORD"

(* Nothing is under way. *)
Quiet ==
  /\ c2s = <<>> /\ s2c = <<>>
  /\ peer = "up" => pulling = NoQid /\ srv # "FAILED"

(* The request is under way, and nothing else; ... *)
Requested ==
  /\ peer = "up" /\ pulling = NoQid /\ s2c = <<>>
  /\ Len(c2s) = 1 /\ Asks(c2s[1])
  /\ srv = "FAILED" <=> Kind = "ack"

(* ... or its result is being streamed; ... *)
Streaming ==
  /\ Kind = "pull"
  /\ peer = "up" /\ pulling # NoQid /\ c2s = <<>>
  /\ AllRecords(s2c)
  /\ pull_n = "some" => version = 4

(* ... or the reply is there, behind the records of a pulled result; ...   *)
Answered ==
  /\ c2s = <<>>
  /\ EndsRecords(s2c)
  /\ Kind # "pull" => Len(s2c) = 1
  /\ Expected(s2c[Len(s2c)])
  /\ peer = "up" => /\ pulling = NoQid
                    /\ srv = "FAILED" <=> s2c[Len(s2c)].type = "FAILURE"

(* ... or it will not come, the server having closed. *)
Lost ==
  /\ peer = "down" /\ c2s = <<>>
  /\ AllRecords(s2c)
  /\ Kind # "pull" => s2c = <<>>

Flow ==
  transport = "open" =>
    IF Kind = "none" THEN Quiet ELSE Requested \/ Streaming \/ Answered \/ Lost

PairOK ==
  /\ ClientOK
  /\ ServerOK
  /\ Flow
  /\ explicit_transaction = 1 => version = 4

LEMMA SingleTail ==
  ASSUME NEW S, NEW s \in Seq(S), Len(s) = 1
  PROVE  Tail(s) = <<>>
<1>1. s # <<>>
  OBVIOUS
<1>2. Tail(s) \in Seq(S) /\ Len(Tail(s)) = 0
  BY <1>1
<1>3. Tail(s) # <<>> => Len(Tail(s)) \in Nat \ {0}
  BY <1>2, EmptySeq
<1> QED
  BY <1>2, <1>3

(* A reply that is no record is the only message there is. *)
LEMMA AnswerAlone ==
  ASSUME ClientOK, Flow, transport = "open", Kind # "none", s2c # <<>>,
         Head(s2c).type # "RECORD"
  PROVE  /\ c2s = <<>> /\ Tail(s2c) = <<>> /\ Len(s2c) = 1
         /\ Head(s2c) = s2c[Len(s2c)] /\ Answered
         /\ Expected(Head(s2c))
         /\ peer = "up" => /\ pulling = NoQid
                           /\ srv = "FAILED" <=> Head(s2c).type = "FAILURE"
<1>1. s2c \in Seq(Response) /\ Len(s2c) \in Nat /\ Len(s2c) > 0
      /\ Head(s2c) = s2c[1]
  BY DEF ClientOK, TypeOK, ChannelTypeOK
<1>2. ~Requested /\ ~AllRecords(s2c)
  BY <1>1 DEF Requested, AllRecords
<1>3. Answered
  BY <1>2 DEF Flow, Streaming, Lost
<1>4. Len(s2c) = 1
  <2>1. 1 \in 1 .. Len(s2c)
    BY <1>1
  <2>2. ~(1 < Len(s2c))
    BY <1>1, <1>3, <2>1 DEF Answered, EndsRecords
  <2>3. \A n \in Nat : n > 0 /\ ~(1 < n) => n = 1
    OBVIOUS
  <2> QED
    BY <1>1, <2>2, <2>3
<1>5. Tail(s2c) = <<>>
  BY <1>1, <1>4, SingleTail
<1> QED
  BY <1>1, <1>3, <1>4, <1>5 DEF Answered

(* A record is one of the pulled result; without it there is one less, and *)
(* what comes behind the records is the same.                              *)
LEMMA RecordTaken ==
  ASSUME ClientOK, Flow, transport = "open", Kind # "none", s2c # <<>>,
         Head(s2c).type = "RECORD", s2c' = Tail(s2c), Kind' = Kind,
         UNCHANGED <<transport, peer, c2s, serverVars, version>>
  PROVE  /\ Kind = "pull" /\ Flow' /\ (Answered' <=> Answered)
         /\ Answered => s2c'[Len(s2c')] = s2c[Len(s2c)]
<1>1. /\ s2c \in Seq(Response) /\ Len(s2c) \in Nat /\ Len(s2c) > 0
      /\ Head(s2c) = s2c[1]
      /\ Len(s2c') = Len(s2c) - 1
      /\ \A i \in 1 .. Len(s2c) - 1 : s2c'[i] = s2c[i + 1]
  BY DEF ClientOK, TypeOK, ChannelTypeOK
<1>2. ~Requested
  BY DEF Requested
<1>3. AllRecords(s2c) => AllRecords(s2c')
  BY <1>1 DEF AllRecords
<1>4. Len(s2c') \in Nat
  BY <1>1
<1>5. AllRecords(s2c) => ~Answered
  BY <1>1 DEF Answered, AllRecords, Expected
<1>6. AllRecords(s2c') => ~Answered'
  <2>1. Answered' => Len(s2c') > 0 /\ s2c'[Len(s2c')].type # "RECORD"
    BY DEF Answered, EndsRecords, Expected
  <2>2. Len(s2c') > 0 => Len(s2c') \in 1 .. Len(s2c')
    BY <1>4
  <2> QED
    BY <2>1, <2>2 DEF AllRecords
<1>7. CASE Streaming
  BY <1>3, <1>5, <1>6, <1>7 DEF Streaming, Flow, serverVars
<1>8. CASE Answered
  <2>1. Len(s2c) > 1 /\ Kind = "pull"
    BY <1>1, <1>8 DEF Answered, Expected
  <2>2. s2c'[Len(s2c')] = s2c[Len(s2c)] /\ EndsRecords(s2c')
    BY <1>1, <1>8, <2>1 DEF Answered, EndsRecords
  <2>3. Answered'
    BY <1>8, <2>1, <2>2 DEF Answered, Expected, serverVars
  <2> QED
    BY <1>8, <2>1, <2>2, <2>3 DEF Flow
<1>9. CASE Lost
  <2>1. Kind = "pull"
    BY <1>9 DEF Lost
  <2> QED
    BY <1>3, <1>5, <1>6, <1>9, <2>1 DEF Lost, Flow
<1> QED
  BY <1>2, <1>7, <1>8, <1>9 DEF Flow

(* What the client finds when it waits: a record of a pulled result, or    *)
(* the reply it expects.                                                   *)
LEMMA ReplyExpected ==
  ASSUME ClientOK, Flow, transport = "open", Kind # "none", s2c # <<>>
  PROVE  \/ Head(s2c).type = "RECORD" /\ Kind = "pull"
         \/ Head(s2c).type \in {"SUCCESS", "FAILURE"} /\ Expected(Head(s2c))
<1>1. /\ s2c \in Seq(Response) /\ Len(s2c) \in Nat /\ Len(s2c) > 0
      /\ Head(s2c) = s2c[1]
  BY DEF ClientOK, TypeOK, ChannelTypeOK
<1>2. CASE Head(s2c).type = "RECORD"
  <2>1. ~Requested
    BY DEF Requested
  <2>2. Answered => Kind = "pull"
    BY <1>1, <1>2 DEF Answered, Expected
  <2> QED
    BY <1>2, <2>1, <2>2 DEF Flow, Streaming, Lost
<1>3. CASE Head(s2c).type # "RECORD"
  <2>1. Expected(Head(s2c))
    BY <1>3, AnswerAlone
  <2> QED
    BY <2>1 DEF Expected
<1> QED
  BY <1>2, <1>3

(* A request sent when nothing is under way. *)
LEMMA RequestSent ==
  ASSUME ClientOK, c2s = <<>>, s2c' = <<>>, NEW r \in Request, Send(r),
         peer = "up" => pulling = NoQid /\ (srv = "FAILED" <=> Kind' = "ack"),
         Asks(r)', Kind' # "none", UNCHANGED <<peer, serverVars>>
  PROVE  Flow'
<1>1. CASE peer = "up"
  <2>1. c2s' = <<r>>
    BY <1>1 DEF Send
  <2>2. Requested'
    BY <1>1, <2>1 DEF Requested, serverVars
  <2> QED
    BY <2>2 DEF Flow
<1>2. CASE peer # "up"
  <2>1. peer = "down" /\ c2s' = <<>>
    BY <1>2 DEF ClientOK, TypeOK, ChannelTypeOK, Send
  <2>2. Lost'
    BY <2>1 DEF Lost, AllRecords
  <2> QED
    BY <2>2 DEF Flow
<1> QED
  BY <1>1, <1>2

----------------------------------------------------------------------------
(* The client's steps keep the flow of messages. *)

(* A step that leaves the channel and the wait as they are. *)
LEMMA FlowKept ==
  ASSUME Flow, Kind' = Kind, UNCHANGED <<channelVars, serverVars, version>>
  PROVE  Flow'
<1> USE DEF channelVars, serverVars
<1>1. Quiet' <=> Quiet
  BY DEF Quiet
<1>2. Requested' <=> Requested
  BY DEF Requested, Asks
<1>3. Streaming' <=> Streaming
  BY DEF Streaming, AllRecords
<1>4. Answered' <=> Answered
  BY DEF Answered, EndsRecords, Expected
<1>5. Lost' <=> Lost
  BY DEF Lost, AllRecords
<1> QED
  BY <1>1, <1>2, <1>3, <1>4, <1>5 DEF Flow

(* A call that starts with a request; between calls nothing is under way.  *)
LEMMA CallSends ==
  ASSUME PairOK, Idle, status # "FETCHING", transport' = "open",
         NEW op \in {"run", "begin", "end"}, NEW t \in RequestTypes, NEW qa,
         op = "run" => t = "RUN", op = "begin" => t = "BEGIN",
         op = "end" => t \in {"COMMIT", "ROLLBACK"},
         SendAndWait(op, t, qa), UNCHANGED <<peer, serverVars>>
  PROVE  Flow'
<1>1. /\ Send(Req(t)) /\ Wait(op, "reply", qa, 0)
      /\ UNCHANGED <<status, transport, s2c>>
  BY DEF SendAndWait, FatalFailure, mg_session_invalidate
<1>2. phase = "idle"
  BY DEF PairOK, ClientOK, Safe, CallInProgress, CallTypeOK, TypeOK, Idle, Calls
<1>3. Kind = "none"
  BY <1>2 DEF Kind, Idle
<1>4. Quiet
  BY <1>1, <1>3 DEF PairOK, Flow
<1>5. Kind' = op
  BY <1>1 DEF Kind, Wait
<1>6. Asks(Req(t))'
  BY <1>5 DEF Asks, Req
<1> QED
  BY <1>1, <1>4, <1>5, <1>6, RequestSent, ResponsesTyped DEF PairOK, Quiet

(* mg_session_pull *)
LEMMA PullSends ==
  ASSUME PairOK, transport' = "open", NEW q \in Qids \cup {NoQid},
         NEW n \in {"all", "some"}, mg_session_pull(q, n), UNCHANGED serverVars
  PROVE  Flow'
<1> DEFINE r == IF version = 4 THEN PullReq(q, n) ELSE Req("PULL")
<1>1. /\ Send(r) /\ status' = "FETCHING" /\ Return(MG_SUCCESS)
      /\ UNCHANGED <<transport, s2c, version, peer>>
  BY DEF mg_session_pull, FatalFailure, mg_session_invalidate
<1>2. phase = "idle" /\ Idle /\ status # "FETCHING"
  BY DEF PairOK, ClientOK, Safe, CallInProgress, CallTypeOK, TypeOK, Idle,
     Calls, mg_session_pull, PullRefused
<1>3. Kind = "none"
  BY <1>2 DEF Kind, Idle
<1>4. Quiet
  BY <1>1, <1>3 DEF PairOK, Flow
<1>5. Kind' = "pull"
  BY <1>1 DEF Kind, Return
<1>6. Asks(r)'
  BY <1>1, <1>5 DEF Asks, Req, PullReq
<1>7. r \in Request
  BY ResponsesTyped DEF RequestTypes
<1> QED
  BY <1>1, <1>4, <1>5, <1>6, <1>7, RequestSent DEF PairOK, Quiet

(* A FAILURE is acknowledged, or the connection is dropped. *)
LEMMA FailureHandled ==
  ASSUME PairOK, call \in Calls, phase = "reply", s2c # <<>>,
         Head(s2c).type = "FAILURE", handle_failure(Head(s2c)),
         transport' = "open", UNCHANGED <<peer, version, serverVars>>
  PROVE  Flow' /\ Kind # "none" /\ Kind' = "ack"
<1> DEFINE ack == IF version = 1 THEN "ACK_FAILURE" ELSE "RESET"
<1>1. /\ Send(Req(ack)) /\ s2c' = Tail(s2c) /\ UNCHANGED <<status, transport>>
      /\ phase' = "ack"
  BY DEF handle_failure, FatalFailure, mg_session_invalidate, Wait
<1>2. Kind # "none"
  BY DEF PairOK, ClientOK, Safe, CallInProgress, Kind, Calls
<1>3. /\ c2s = <<>> /\ Tail(s2c) = <<>>
      /\ peer = "up" => pulling = NoQid /\ srv = "FAILED"
  BY <1>1, <1>2, AnswerAlone DEF PairOK
<1>4. Kind' = "ack" /\ Asks(Req(ack))'
  BY <1>1 DEF Kind, Asks, Req
<1>5. Req(ack) \in Request
  BY ResponsesTyped DEF RequestTypes
<1> QED
  BY <1>1, <1>2, <1>3, <1>4, <1>5, RequestSent DEF PairOK

(* The reply that ends the wait has been read. *)
LEMMA ReplyRead ==
  ASSUME PairOK, transport = "open", Kind # "none", s2c # <<>>,
         Head(s2c).type = "SUCCESS", s2c' = Tail(s2c), Kind' = "none",
         UNCHANGED <<peer, c2s, serverVars>>
  PROVE  Flow' /\ Quiet'
<1>1. /\ c2s = <<>> /\ Tail(s2c) = <<>>
      /\ peer = "up" => pulling = NoQid /\ srv # "FAILED"
  BY AnswerAlone DEF PairOK
<1> QED
  BY <1>1 DEF Flow, Quiet, serverVars

(* Outside a call and a fetch the client waits for nothing. *)
LEMMA IdleKind ==
  ASSUME ClientOK
  PROVE  /\ Idle => phase = "idle"
         /\ Idle /\ status # "FETCHING" => Kind = "none"
         /\ Idle /\ status = "FETCHING" => Kind = "pull"
         /\ call \in Calls => Kind # "none" /\ transport = "open"
         /\ phase = "reply" /\ call = "fetch" => Kind = "pull"
         /\ phase = "reply" /\ call \in {"run", "begin", "end"} => Kind = call
BY DEF ClientOK, TypeOK, CallTypeOK, Safe, CallInProgress, Kind, Idle, Calls

LEMMA ClientFlowStep ==
  ASSUME PairOK, ClientNext, UNCHANGED serverVars
  PROVE  Flow'
<1> SUFFICES ASSUME transport' = "open" PROVE Flow'
  BY DEF Flow
<1> ClientOK /\ Flow
  BY DEF PairOK
<1>1. ASSUME NEW qa \in {"NULL", "given"}, mg_session_run(qa) PROVE Flow'
  BY <1>1, CallSends DEF mg_session_run, RunRefused, RequestTypes
<1>2. CASE mg_session_begin_transaction
  BY <1>2, CallSends DEF mg_session_begin_transaction, BeginRefused, RequestTypes
<1>3. ASSUME NEW c \in BOOLEAN, mg_session_end_transaction(c) PROVE Flow'
  BY <1>3, CallSends DEF mg_session_end_transaction, EndRefused, RequestTypes
<1>4. ASSUME NEW q \in Qids \cup {NoQid}, NEW n \in {"all", "some"},
             mg_session_pull(q, n)
      PROVE  Flow'
  BY <1>4, PullSends
<1>5. CASE mg_session_fetch
  <2>1. Kind = "pull"
    BY <1>5, IdleKind DEF mg_session_fetch, FetchRefused
  <2>2. Kind' = "pull"
    BY <1>5 DEF mg_session_fetch, FetchRefused, Wait, Kind
  <2> QED
    BY <1>5, <2>1, <2>2, FlowKept DEF mg_session_fetch, channelVars
<1>6. CASE BadCall
  <2>1. Kind' = Kind
    BY <1>6, IdleKind DEF BadCall, Return, Kind, Idle, fieldVars
  <2> QED
    BY <1>6, <2>1, FlowKept DEF BadCall, channelVars, fieldVars
<1>7. CASE mg_session_destroy \/ ReceiveFails
  BY <1>7 DEF mg_session_destroy, ReceiveFails, FatalFailure,
     mg_session_invalidate
<1>8. CASE AckReply
  <2>1. /\ Head(s2c).type = "SUCCESS" /\ status' = StatusAfterFailure
        /\ s2c # <<>> /\ s2c' = Tail(s2c) /\ Return(failure_status)
        /\ phase = "ack" /\ UNCHANGED <<transport, peer, c2s>>
    BY <1>8 DEF AckReply, FatalFailure, mg_session_invalidate
  <2>2. call \in Calls
    BY <2>1 DEF ClientOK, Safe, CallInProgress
  <2>3. Kind' = "none"
    BY <2>1, <2>2 DEF ClientOK, Safe, CallInProgress, Kind, Return, Calls,
       StatusAfterFailure
  <2> QED
    BY <2>1, <2>2, <2>3, ReplyRead, IdleKind
<1>9. ASSUME call \in Calls, Received({"FAILURE"}), handle_failure(Head(s2c)),
             UNCHANGED <<peer, version>>
      PROVE  Flow'
  BY <1>9, FailureHandled DEF Received
<1>10. ASSUME call \in Calls, Received({"SUCCESS"}), s2c' = Tail(s2c), NEW rc,
              Return(rc), status' # "FETCHING", UNCHANGED <<peer, c2s>>
       PROVE  Flow'
  <2>1. Kind' = "none"
    BY <1>10 DEF Kind, Return
  <2> QED
    BY <1>10, <2>1, ReplyRead, IdleKind DEF Received
<1>11. ~Unexpected /\ \A rc : ~FatalFailure(rc)
  BY DEF Unexpected, FatalFailure, mg_session_invalidate
<1>12. CASE RunReply
  <2>1. call \in Calls /\ status # "FETCHING" /\ UNCHANGED <<peer, version>>
    BY <1>12 DEF RunReply, Calls, ClientOK, Safe, CallInProgress
  <2>2. CASE Received({"SUCCESS"}) /\ RunSucceeds(Head(s2c)) /\ UNCHANGED c2s
    BY <1>10, <1>11, <2>1, <2>2 DEF RunSucceeds
  <2> QED
    BY <1>9, <1>11, <1>12, <2>1, <2>2 DEF RunReply
<1>13. CASE FetchReply
  <2>1. call \in Calls /\ UNCHANGED <<peer, version>>
    BY <1>13 DEF FetchReply, Calls
  <2>2. CASE /\ Received({"RECORD"}) /\ s2c' = Tail(s2c) /\ Return(1)
             /\ UNCHANGED <<status, transport, c2s>>
    <3>1. Kind = "pull" /\ s2c # <<>> /\ Head(s2c).type = "RECORD"
      BY <1>13, <2>2, IdleKind DEF Received, FetchReply
    <3>2. Kind' = "pull"
      BY <1>13, <2>2 DEF Kind, Return, ClientOK, Safe, CallInProgress, FetchReply
    <3> QED
      BY <2>1, <2>2, <3>1, <3>2, RecordTaken
  <2>3. CASE /\ Received({"SUCCESS"}) /\ FetchSummary(Head(s2c))
             /\ s2c' = Tail(s2c) /\ Return(0) /\ UNCHANGED <<transport, c2s>>
    <3>1. status' # "FETCHING"
      BY <2>3 DEF FetchSummary
    <3> QED
      BY <1>10, <2>1, <2>3, <3>1
  <2> QED
    BY <1>9, <1>11, <1>13, <2>1, <2>2, <2>3 DEF FetchReply
<1>14. CASE BeginReply
  <2>1. call \in Calls /\ status # "FETCHING" /\ UNCHANGED <<peer, version>>
    BY <1>14 DEF BeginReply, Calls, ClientOK, Safe, CallInProgress
  <2> QED
    BY <1>9, <1>10, <1>11, <1>14, <2>1 DEF BeginReply
<1>15. CASE EndReply
  <2>1. call \in Calls /\ UNCHANGED <<peer, version>>
    BY <1>15 DEF EndReply, Calls
  <2> QED
    BY <1>9, <1>10, <1>11, <1>15, <2>1 DEF EndReply
<1> QED
  BY <1>1, <1>2, <1>3, <1>4, <1>5, <1>6, <1>7, <1>8, <1>12, <1>13, <1>14, <1>15
     DEF ClientNext, ClientCalls, ClientReplies

(* A transaction is one of version 4: only the reply to BEGIN starts one,  *)
(* and a server of version 1 does not send it.                             *)
LEMMA TransactionVersion ==
  ASSUME PairOK, ClientNext
  PROVE  explicit_transaction' = 1 => version' = 4
<1> version' = version
  BY DEF ClientNext, ClientCalls, ClientReplies, mg_session_run, mg_session_pull,
     mg_session_fetch, mg_session_begin_transaction, mg_session_end_transaction,
     BadCall, mg_session_destroy, RunReply, FetchReply, BeginReply, EndReply,
     AckReply, ReceiveFails, fieldVars
<1>1. CASE explicit_transaction' = explicit_transaction
  BY <1>1 DEF PairOK
<1>2. CASE BeginReply
  <2>1. CASE Received({"SUCCESS"})
    <3>1. /\ transport = "open" /\ Kind = "begin" /\ s2c # <<>>
          /\ Head(s2c).type = "SUCCESS"
      BY <1>2, <2>1, IdleKind DEF BeginReply, Received, PairOK, Calls
    <3>2. Expected(Head(s2c))
      BY <3>1, AnswerAlone DEF PairOK
    <3> QED
      BY <3>1, <3>2 DEF Expected
  <2>2. CASE UNCHANGED explicit_transaction
    BY <1>1, <2>2
  <2> QED
    BY <1>2, <2>1, <2>2 DEF BeginReply
<1>3. CASE EndReply
  BY <1>1, <1>3 DEF EndReply
<1> QED
  BY <1>1, <1>2, <1>3
     DEF ClientNext, ClientCalls, ClientReplies, mg_session_run, mg_session_pull,
     mg_session_fetch, mg_session_begin_transaction, mg_session_end_transaction,
     BadCall, mg_session_destroy, RunReply, FetchReply, AckReply, ReceiveFails,
     fieldVars

----------------------------------------------------------------------------
(* The server's steps keep the flow of messages. *)

LEMMA AppendedReply ==
  ASSUME NEW s \in Seq(Response), NEW m \in Response
  PROVE  /\ Append(s, m) \in Seq(Response)
         /\ Len(Append(s, m)) = Len(s) + 1 /\ Len(s) \in Nat
         /\ \A i \in 1 .. Len(s) : Append(s, m)[i] = s[i]
         /\ Append(s, m)[Len(Append(s, m))] = m
OBVIOUS

(* A request is taken only when it is the one the client waits for. *)
LEMMA RequestTaken ==
  ASSUME PairOK, transport = "open", NEW types, Takes(types)
  PROVE  /\ Requested /\ Kind # "none" /\ Asks(Head(c2s))
         /\ Head(c2s) \in Request /\ c2s' = <<>>
<1>1. c2s # <<>> /\ peer = "up" /\ c2s \in Seq(Request) /\ c2s' = Tail(c2s)
  BY DEF Takes, PairOK, ClientOK, TypeOK, ChannelTypeOK
<1>2. Requested /\ Kind # "none"
  BY <1>1 DEF PairOK, Flow, Quiet, Streaming, Answered, Lost
<1>3. Len(c2s) = 1 /\ Head(c2s) = c2s[1] /\ Head(c2s) \in Request
  BY <1>1, <1>2 DEF Requested
<1>4. c2s' = <<>>
  BY <1>1, <1>3, SingleTail
<1> QED
  BY <1>2, <1>3, <1>4 DEF Requested

(* The reply to a request that is not streamed. *)
LEMMA RequestAnswered ==
  ASSUME PairOK, transport = "open", NEW types, Takes(types),
         NEW m \in Response, Reply(m), Expected(m), pulling' = NoQid,
         srv' = "FAILED" <=> m.type = "FAILURE", UNCHANGED clientVars
  PROVE  Flow' /\ Answered' /\ s2c' = <<m>>
<1>1. Requested /\ Kind # "none" /\ c2s' = <<>>
  BY RequestTaken
<1>2. Kind' = Kind /\ version' = version
  BY DEF Kind, clientVars, fieldVars, callVars
<1>3. s2c' = <<m>> /\ transport' = "open"
  BY <1>1 DEF Requested, Reply, Takes
<1>4. Len(s2c') = 1 /\ s2c'[1] = m
  BY <1>3
<1>5. EndsRecords(s2c')
  BY <1>4 DEF EndsRecords
<1>6. Expected(m)'
  BY <1>2 DEF Expected
<1>7. Answered'
  BY <1>1, <1>4, <1>5, <1>6 DEF Answered
<1> QED
  BY <1>1, <1>2, <1>3, <1>7 DEF Flow

(* The end of a pulled result. *)
LEMMA PullAnswered ==
  ASSUME PairOK, transport = "open", peer = "up", pulling # NoQid,
         NEW m \in Response, Reply(m), m.type \in {"SUCCESS", "FAILURE"},
         m.type = "SUCCESS" =>
           m.has_more # "invalid" /\ (m.has_more = "true" => pull_n = "some"),
         pulling' = NoQid, srv' = "FAILED" <=> m.type = "FAILURE",
         UNCHANGED <<clientVars, transport, peer, c2s>>
  PROVE  Streaming /\ Flow' /\ Answered' /\ s2c'[Len(s2c')] = m
<1>1. Streaming
  BY DEF PairOK, Flow, Quiet, Requested, Answered, Lost
<1>2. Kind' = "pull" /\ Kind = "pull" /\ version' = version
  BY <1>1 DEF Kind, Streaming, clientVars, fieldVars, callVars
<1>3. s2c \in Seq(Response) /\ s2c' = Append(s2c, m)
  BY DEF PairOK, ClientOK, TypeOK, ChannelTypeOK, Reply
<1>4. EndsRecords(s2c') /\ s2c'[Len(s2c')] = m
  BY <1>1, <1>3, AppendedReply DEF EndsRecords, AllRecords, Streaming
<1>5. Expected(m)'
  BY <1>1, <1>2 DEF Expected, Streaming
<1>6. Answered'
  BY <1>1, <1>2, <1>4, <1>5 DEF Answered, Streaming
<1> QED
  BY <1>1, <1>2, <1>4, <1>6 DEF Flow

LEMMA ServerFlowStep ==
  ASSUME PairOK, ServerNext(version), UNCHANGED clientVars
  PROVE  Flow'
<1> UNCHANGED transport
  BY ServerMessages DEF PairOK, ClientOK, TypeOK
<1> SUFFICES ASSUME transport = "open" PROVE Flow'
  BY DEF Flow
<1> Kind' = Kind /\ version' = version
  BY DEF Kind, clientVars, fieldVars, callVars
<1>1. /\ \A f \in {"list", "invalid"}, q \in Qids \cup {NoQid} :
           /\ Success(q, f, "absent") \in Response
           /\ Success(q, f, "absent").type = "SUCCESS"
           /\ Success(q, f, "absent").fields = f
           /\ Success(q, f, "absent").qid = q
           /\ Success(q, f, "absent").has_more = "absent"
      /\ \A c \in Codes : Failure(c) \in Response /\ Failure(c).type = "FAILURE"
  BY ResponsesTyped DEF Success, Failure, Resp
<1>2. NoQid \in Qids \cup {NoQid} /\ 0 \in Qids \cup {NoQid}
      /\ 0 \in Qids /\ (next_qid <= MaxQid => next_qid \in Qids)
  BY BoundsAssumption DEF PairOK, ServerOK, ServerTypeOK, Qids
<1>3. CASE SrvRun
  <2>1. Takes({"RUN"}) /\ pulling' = NoQid /\ srv' # "FAILED"
    BY <1>3 DEF SrvRun, Takes
  <2>2. PICK q \in Qids : Reply(Success(q, "list", "absent"))
    BY <1>2, <1>3 DEF SrvRun
  <2>3. Expected(Success(q, "list", "absent"))
    <3>1. Kind = "run"
      BY <2>1, RequestTaken DEF Asks, Takes
    <3> QED
      BY <1>1, <2>2, <3>1 DEF Expected
  <2> QED
    BY <1>1, <2>1, <2>2, <2>3, RequestAnswered
<1>4. CASE SrvBegin(version)
  <2> DEFINE m == Success(NoQid, "invalid", "absent")
  <2>1. Takes({"BEGIN"}) /\ pulling' = NoQid /\ srv' # "FAILED" /\ Reply(m)
        /\ version = 4
    BY <1>4 DEF SrvBegin, Takes
  <2>2. Kind = "begin"
    BY <2>1, RequestTaken DEF Asks, Takes
  <2>3. Expected(m)
    BY <1>1, <1>2, <2>1, <2>2 DEF Expected
  <2> QED
    BY <1>1, <1>2, <2>1, <2>3, RequestAnswered
<1>5. CASE SrvEnd
  <2> DEFINE m == Success(NoQid, "invalid", "absent")
  <2>1. Takes({"COMMIT", "ROLLBACK"}) /\ pulling' = NoQid /\ srv' # "FAILED"
        /\ Reply(m)
    BY <1>5 DEF SrvEnd, Takes, Clear
  <2>2. Kind = "end"
    BY <2>1, RequestTaken DEF Asks, Takes
  <2>3. Expected(m)
    BY <1>1, <1>2, <2>1, <2>2 DEF Expected
  <2> QED
    BY <1>1, <1>2, <2>1, <2>3, RequestAnswered
<1>6. CASE SrvAcknowledge
  <2> DEFINE m == Success(NoQid, "invalid", "absent")
  <2>1. Takes({"RESET", "ACK_FAILURE"}) /\ pulling' = NoQid
        /\ srv' # "FAILED" /\ Reply(m)
    BY <1>6 DEF SrvAcknowledge, Takes, Clear
  <2>2. Kind = "ack"
    BY <2>1, RequestTaken DEF Asks, Takes
  <2>3. Expected(m)
    BY <1>1, <1>2, <2>1, <2>2 DEF Expected
  <2> QED
    BY <1>1, <1>2, <2>1, <2>3, RequestAnswered
<1>7. CASE SrvRefuse
  <2> DEFINE types == {"RUN", "PULL", "BEGIN", "COMMIT", "ROLLBACK"}
  <2>1. Takes(types) /\ pulling' = NoQid /\ srv' = "FAILED"
    BY <1>7 DEF SrvRefuse, Takes
  <2>2. Kind # "ack" /\ srv # "FAILED"
    BY <2>1, RequestTaken DEF Asks, Takes, Requested
  <2>3. PICK c \in Codes : Reply(Failure(c))
    BY <1>7, <2>2 DEF SrvRefuse
  <2>4. Expected(Failure(c))
    BY <1>1, <2>2 DEF Expected
  <2> QED
    BY <1>1, <2>1, <2>3, <2>4, RequestAnswered
<1>8. CASE SrvPull
  <2>1. Takes({"PULL"}) /\ pulling' # NoQid /\ pull_n' = Head(c2s).n
        /\ UNCHANGED <<s2c, peer>>
    <3>1. \A q \in open : q # NoQid
      BY DEF PairOK, ServerOK, ServerTypeOK, Qids, NoQid
    <3> QED
      BY <1>8, <3>1 DEF SrvPull, Takes
  <2>2. /\ Requested /\ Kind = "pull" /\ c2s' = <<>>
        /\ Head(c2s).n = "some" => version = 4
    BY <2>1, RequestTaken DEF Asks, Takes
  <2>3. Streaming'
    BY <2>1, <2>2 DEF Streaming, Requested, AllRecords
  <2> QED
    BY <2>2, <2>3 DEF Flow
<1>9. CASE SrvSummary
  <2>1. PICK h \in {"absent", "true", "false"} :
          /\ Reply(Success(pulling, "invalid", h))
          /\ h = "true" => pull_n = "some"
    BY <1>9 DEF SrvSummary
  <2> DEFINE m == Success(pulling, "invalid", h)
  <2>2. pulling \in Qids \cup {NoQid}
    BY DEF PairOK, ServerOK, ServerTypeOK
  <2>3. m \in Response /\ m.type = "SUCCESS" /\ m.has_more = h
    BY <2>2, ResponsesTyped DEF Success, Resp
  <2>4. /\ peer = "up" /\ pulling # NoQid /\ pulling' = NoQid
        /\ UNCHANGED <<transport, peer, c2s>>
    BY <1>9 DEF SrvSummary
  <2>5. srv' # "FAILED"
    BY <1>9, <2>4 DEF SrvSummary, PairOK, ServerOK
  <2> HIDE DEF m
  <2> QED
    BY <2>1, <2>3, <2>4, <2>5, PullAnswered DEF m
<1>10. CASE SrvPullFails
  <2>1. PICK c \in Codes : Reply(Failure(c))
    BY <1>10 DEF SrvPullFails
  <2> QED
    BY <1>1, <1>10, <2>1, PullAnswered DEF SrvPullFails
<1>11. CASE SrvRecord
  <2>1. /\ peer = "up" /\ pulling # NoQid /\ Reply(Record(pulling))
        /\ UNCHANGED <<serverVars, peer, c2s>>
    BY <1>11 DEF SrvRecord
  <2>2. Streaming
    BY <2>1 DEF PairOK, Flow, Quiet, Requested, Answered, Lost
  <2>3. Record(pulling) \in Response /\ Record(pulling).type = "RECORD"
    <3>1. pulling \in Qids
      BY <2>1 DEF PairOK, ServerOK, ServerTypeOK
    <3> QED
      BY <3>1, ResponsesTyped DEF Record, Resp
  <2>4. s2c \in Seq(Response) /\ s2c' = Append(s2c, Record(pulling))
    BY <2>1 DEF PairOK, ClientOK, TypeOK, ChannelTypeOK, Reply
  <2>5. AllRecords(s2c')
    BY <2>2, <2>3, <2>4, AppendedReply DEF AllRecords, Streaming
  <2>6. Streaming'
    BY <2>1, <2>2, <2>5 DEF Streaming, serverVars
  <2> QED
    BY <2>2, <2>6 DEF Flow, Streaming
<1>12. CASE SrvCloses
  <2>1. peer = "up" /\ peer' = "down" /\ c2s' = <<>> /\ UNCHANGED <<serverVars, s2c>>
    BY <1>12 DEF SrvCloses
  <2>2. CASE Quiet /\ Kind = "none"
    BY <2>1, <2>2 DEF Flow, Quiet
  <2>3. CASE (Requested \/ Streaming) /\ Kind # "none"
    <3>1. Lost'
      BY <2>1, <2>3 DEF Requested, Streaming, Lost, AllRecords
    <3> QED
      BY <2>3, <3>1 DEF Flow
  <2>4. CASE Answered /\ Kind # "none"
    <3>1. Answered'
      BY <2>1, <2>4 DEF Answered, Expected
    <3> QED
      BY <2>4, <3>1 DEF Flow
  <2> QED
    BY <2>1, <2>2, <2>3, <2>4 DEF PairOK, Flow, Lost
<1> QED
  BY <1>3, <1>4, <1>5, <1>6, <1>7, <1>8, <1>9, <1>10, <1>11, <1>12
     DEF ServerNext, ServerAnswers

----------------------------------------------------------------------------
(* The pair keeps its invariant: at the start, ... *)
LEMMA PairInitOK == ClientInit /\ ServerInit => PairOK
<1> SUFFICES ASSUME ClientInit, ServerInit PROVE PairOK
  OBVIOUS
<1>1. Flow
  BY DEF ClientInit, ChannelInit, ServerInit, Flow, Kind, Quiet
<1> QED
  BY <1>1, ClientInitOK, ServerInitOK DEF PairOK, ClientInit

(* ... in a step of the client, ... *)
LEMMA PairClientStep ==
  ASSUME PairOK, ClientNext, UNCHANGED serverVars
  PROVE  PairOK'
<1>1. ServerOK'
  BY DEF PairOK, ServerOK, ServerTypeOK, InTransaction, serverVars
<1> QED
  BY <1>1, ClientStep, ClientFlowStep, TransactionVersion DEF PairOK

(* ... in one of the server, ... *)
LEMMA PairServerStep ==
  ASSUME PairOK, ServerNext(version), UNCHANGED clientVars
  PROVE  PairOK'
<1>1. ServerOK' /\ ClientOK'
  BY ServerStep, ServerMessages, PeerStep
     DEF PairOK, ClientOK, TypeOK, ChannelTypeOK
<1> QED
  BY <1>1, ServerFlowStep DEF PairOK, clientVars, fieldVars

(* ... and in a step of neither. *)
LEMMA PairStutters ==
  ASSUME PairOK, UNCHANGED <<clientVars, channelVars, serverVars>>
  PROVE  PairOK'
<1>1. ServerOK'
  BY DEF PairOK, ServerOK, ServerTypeOK, InTransaction, serverVars
<1>2. ClientOK'
  BY PeerStep DEF PairOK, ClientOK, TypeOK, ChannelTypeOK, channelVars
<1>3. Flow' /\ (explicit_transaction' = 1 => version' = 4)
  <2>1. Kind' = Kind
    BY DEF Kind, clientVars, fieldVars, callVars
  <2> QED
    BY <2>1, FlowKept DEF PairOK, clientVars, fieldVars
<1> QED
  BY <1>1, <1>2, <1>3 DEF PairOK


=============================================================================
