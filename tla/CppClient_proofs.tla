-------------------------- MODULE CppClient_proofs --------------------------
(***************************************************************************)
(* Theorems about the C++ client.                                          *)
(***************************************************************************)
EXTENDS CppClient, Session_proofs

(* Which method makes a call. *)
InMethod ==
  /\ pc \in {"none", "Execute", "Pull", "Begin", "End"} \cup Draining
  /\ call = "run" => pc = "Execute"
  /\ call = "fetch" => pc \in Draining
  /\ call = "begin" => pc = "Begin"
  /\ call = "end" => pc = "End"
  /\ call = "destroyed" => pc = "none"

(* What Execute has reached when mg_session_run has returned 0 or more, and *)
(* when mg_session_pull has returned.  Outside a transaction a result is   *)
(* open and not pulled only in between.                                    *)
Executing ==
  /\ pc = "Execute" /\ Idle /\ ret >= 0 =>
       \/ status = "BAD"
       \/ /\ status = "EXECUTING" /\ columns # NoColumns
          /\ peer = "up" => last = columns
  /\ pc = "Pull" => /\ Idle
                    /\ \/ status = "BAD" /\ ret < 0
                       \/ status = "FETCHING" /\ ret >= 0
  /\ status = "EXECUTING" /\ explicit_transaction = 0 =>
       pc = "Execute" /\ Idle /\ ret >= 0
  /\ status = "FETCHING" /\ call # "destroyed" =>
       columns # NoColumns /\ (pc # "Pull" => columns_ = columns)

(* What mg_session_fetch has left when it has returned to FetchOne. *)
Fetched ==
  pc \in Draining /\ Idle =>
    /\ ret = 1 => message.type = "RECORD" /\ message.qid = columns_
    /\ ret # 1 => status # "FETCHING"

(* The reply to RUN names the last statement; what is streamed is the      *)
(* result whose columns the session holds, and all of it.                  *)
Stream ==
  transport = "open" =>
    /\ Kind = "pull" =>
         /\ \A i \in 1 .. Len(s2c) :
              /\ s2c[i].type = "RECORD" => s2c[i].qid = columns
              /\ s2c[i].type = "SUCCESS" => s2c[i].has_more # "true"
         /\ c2s # <<>> => c2s[1].qid = NoQid /\ c2s[1].n = "all" /\ last = columns
         /\ peer = "up" /\ pulling # NoQid => pulling = columns /\ pull_n = "all"
    /\ Kind = "run" /\ peer = "up" =>
         \A i \in 1 .. Len(s2c) : s2c[i].type = "SUCCESS" => s2c[i].qid = last

Promises == ExecuteMeansFetching /\ RowsMatchColumns /\ DrainedCanExecute

ClientInv == PairOK /\ InMethod /\ Executing /\ Fetched /\ Stream /\ Promises

----------------------------------------------------------------------------
(* The steps of the methods are steps of the session. *)

LEMMA RefusedCall ==
  ASSUME NEW r, Refused(r),
         r => RunRefused \/ PullRefused \/ FetchRefused \/ BeginRefused \/ EndRefused
  PROVE  /\ ClientNext /\ Idle /\ ret' = MG_ERROR_BAD_CALL /\ ret' < 0
         /\ call' = "none" /\ UNCHANGED <<fieldVars, channelVars>>
<1>1. BadCall
  BY DEF Refused, BadCall
<1> QED
  BY <1>1 DEF Refused, ClientNext, ClientCalls, Return, MG_ERROR_BAD_CALL

LEMMA MethodsAreSessionSteps ==
  ASSUME [Next]_vars
  PROVE  \/ ClientNext /\ UNCHANGED serverVars
         \/ ServerNext(version) /\ UNCHANGED clientVars
         \/ UNCHANGED <<clientVars, channelVars, serverVars>>
<1> USE DEF ClientNext, ClientCalls
<1>1. CASE ProgramCalls
  <2>1. CASE ExecuteRun
    BY <1>1, <2>1, RefusedCall DEF ProgramCalls, ExecuteRun
  <2>2. CASE DrainStart
    BY <1>1, <2>2, RefusedCall DEF ProgramCalls, DrainStart, Fetch
  <2>3. CASE TransactionCall
    BY <1>1, <2>3, RefusedCall DEF ProgramCalls, TransactionCall
  <2>4. CASE Destroy
    BY <1>1, <2>4 DEF ProgramCalls, Destroy
  <2> QED
    BY <1>1, <2>1, <2>2, <2>3, <2>4 DEF ProgramCalls
<1>2. CASE MethodSteps
  <2>1. CASE ExecutePull
    <3>1. NoQid \in Qids \cup {NoQid}
      OBVIOUS
    <3> QED
      BY <1>2, <2>1, <3>1, RefusedCall DEF MethodSteps, ExecutePull
  <2>2. CASE DrainAgain
    BY <1>2, <2>2, RefusedCall DEF MethodSteps, DrainAgain, Fetch
  <2>3. CASE ExecuteReturns \/ DrainReturns \/ TransactionReturns
    BY <1>2, <2>3 DEF MethodSteps, ExecuteReturns, DrainReturns,
       TransactionReturns, Leave
  <2>4. CASE ClientReplies
    BY <1>2, <2>4 DEF MethodSteps
  <2> QED
    BY <1>2, <2>1, <2>2, <2>3, <2>4 DEF MethodSteps
<1>3. CASE ServerSteps
  BY <1>3 DEF ServerSteps
<1>4. CASE UNCHANGED vars
  BY <1>4 DEF vars
<1> QED
  BY <1>1, <1>2, <1>3, <1>4 DEF Next, Finished

LEMMA MethodsArePairSteps ==
  ASSUME PairOK, [Next]_vars
  PROVE  PairOK'
BY MethodsAreSessionSteps, PairClientStep, PairServerStep, PairStutters

----------------------------------------------------------------------------
(* What is streamed. *)

LEMMA StreamKept ==
  ASSUME Stream, Kind' = Kind, UNCHANGED <<channelVars, serverVars, columns>>
  PROVE  Stream'
BY DEF Stream, channelVars, serverVars

(* Nothing of a result is expected. *)
LEMMA StreamOver ==
  ASSUME transport' = "open" => Kind' \notin {"run", "pull"}
  PROVE  Stream'
BY DEF Stream

LEMMA StreamRunSent ==
  ASSUME PairOK, NEW qa, mg_session_run(qa), UNCHANGED serverVars
  PROVE  Stream'
<1> SUFFICES ASSUME transport' = "open" PROVE Stream'
  BY DEF Stream
<1>1. /\ call' = "run" /\ phase' = "reply" /\ s2c' = s2c /\ transport = "open"
      /\ Idle /\ status # "FETCHING"
  BY DEF mg_session_run, SendAndWait, Wait, FatalFailure,
     mg_session_invalidate, RunRefused
<1>2. s2c' = <<>> /\ Kind' = "run"
  BY <1>1, IdleKind DEF PairOK, Flow, Quiet, Kind
<1> QED
  BY <1>2 DEF Stream

LEMMA StreamPullSent ==
  ASSUME PairOK, mg_session_pull(NoQid, "all"), peer = "up" => last = columns,
         UNCHANGED serverVars
  PROVE  Stream'
<1> SUFFICES ASSUME transport' = "open" PROVE Stream'
  BY DEF Stream
<1> DEFINE r == IF version = 4 THEN PullReq(NoQid, "all") ELSE Req("PULL")
<1>1. /\ Send(r) /\ status' = "FETCHING" /\ Return(MG_SUCCESS)
      /\ UNCHANGED <<transport, s2c, columns, peer>>
      /\ Idle /\ status # "FETCHING"
  BY DEF mg_session_pull, FatalFailure, mg_session_invalidate, PullRefused
<1>2. Quiet
  BY <1>1, IdleKind DEF PairOK, Flow
<1>3. Kind' = "pull"
  BY <1>1 DEF Kind, Return
<1>4. r.qid = NoQid /\ r.n = "all"
  BY DEF PullReq, Req
<1>5. c2s' # <<>> => peer = "up" /\ c2s'[1] = r
  BY <1>1, <1>2 DEF Send, Quiet
<1> HIDE DEF r
<1>6. /\ c2s' # <<>> => c2s'[1].qid = NoQid /\ c2s'[1].n = "all"
                        /\ last' = columns'
      /\ peer' = "up" => pulling' = NoQid
      /\ s2c' = <<>>
  BY <1>1, <1>2, <1>4, <1>5 DEF Quiet, serverVars
<1> QED
  BY <1>3, <1>6 DEF Stream

(* A reply read: one record less, or nothing of the result is left. *)
LEMMA StreamReplies ==
  ASSUME PairOK, Stream, ClientReplies, UNCHANGED serverVars
  PROVE  Stream'
<1> ClientOK /\ Flow
  BY DEF PairOK
<1> s2c \in Seq(Response)
  BY DEF ClientOK, TypeOK, ChannelTypeOK
<1>1. \A rc : FatalFailure(rc) => Stream'
  BY DEF FatalFailure, mg_session_invalidate, Stream
<1>2. handle_failure(Head(s2c)) => Stream'
  <2>1. phase' = "ack" => Kind' = "ack"
    BY DEF Kind
  <2> QED
    BY <1>1, <2>1, StreamOver DEF handle_failure, Wait
<1>3. ASSUME NEW rc, Return(rc), status' # "FETCHING" PROVE Stream'
  <2>1. Kind' = "none"
    BY <1>3 DEF Return, Kind
  <2> QED
    BY <2>1, StreamOver
<1>4. CASE RunReply
  <2>1. status # "FETCHING"
    BY <1>4 DEF RunReply, ClientOK, Safe, CallInProgress
  <2> QED
    BY <1>1, <1>2, <1>3, <1>4, <2>1 DEF RunReply, RunSucceeds, Unexpected
<1>5. CASE FetchReply
  <2>1. CASE /\ Received({"RECORD"}) /\ s2c' = Tail(s2c) /\ Return(1)
             /\ UNCHANGED <<status, transport, c2s>>
    <3>1. /\ Kind = "pull" /\ s2c # <<>> /\ transport = "open"
          /\ UNCHANGED <<peer, columns>>
      BY <1>5, <2>1, IdleKind DEF Received, FetchReply, Calls
    <3>2. Kind' = "pull"
      BY <1>5, <2>1 DEF Kind, Return, ClientOK, Safe, CallInProgress, FetchReply
    <3>3. /\ Len(s2c') = Len(s2c) - 1 /\ Len(s2c) \in Nat
          /\ \A i \in 1 .. Len(s2c) - 1 : s2c'[i] = s2c[i + 1]
      BY <2>1, <3>1
    <3>4. \A i \in 1 .. Len(s2c') :
              /\ s2c'[i].type = "RECORD" => s2c'[i].qid = columns
              /\ s2c'[i].type = "SUCCESS" => s2c'[i].has_more # "true"
      <4> SUFFICES ASSUME NEW i \in 1 .. Len(s2c')
                   PROVE  /\ s2c'[i].type = "RECORD" => s2c'[i].qid = columns
                          /\ s2c'[i].type = "SUCCESS" => s2c'[i].has_more # "true"
        OBVIOUS
      <4>1. i + 1 \in 1 .. Len(s2c) /\ s2c'[i] = s2c[i + 1]
        BY <3>3
      <4> QED
        BY <3>1, <4>1 DEF Stream
    <3> QED
      BY <2>1, <3>1, <3>2, <3>4 DEF Stream, serverVars
  <2>2. ASSUME FetchSummary(Head(s2c)), Return(0) PROVE Stream'
    <3>1. status' # "FETCHING"
      BY <2>2 DEF FetchSummary
    <3> QED
      BY <1>3, <2>2, <3>1
  <2> QED
    BY <1>1, <1>2, <1>5, <2>1, <2>2 DEF FetchReply, Unexpected
<1>6. CASE BeginReply
  <2>1. status # "FETCHING"
    BY <1>6 DEF BeginReply, ClientOK, Safe, CallInProgress
  <2> QED
    BY <1>1, <1>2, <1>3, <1>6, <2>1 DEF BeginReply, Unexpected
<1>7. CASE EndReply
  BY <1>1, <1>2, <1>3, <1>7 DEF EndReply, Unexpected
<1>8. CASE AckReply
  <2>1. StatusAfterFailure # "FETCHING"
    BY <1>8 DEF AckReply, StatusAfterFailure, ClientOK, Safe, CallInProgress, Calls
  <2> QED
    BY <1>1, <1>3, <1>8, <2>1 DEF AckReply
<1>9. CASE ReceiveFails
  BY <1>1, <1>9 DEF ReceiveFails
<1> QED
  BY <1>4, <1>5, <1>6, <1>7, <1>8, <1>9 DEF ClientReplies

LEMMA StreamServer ==
  ASSUME PairOK, Stream, ServerNext(version), UNCHANGED clientVars
  PROVE  Stream'
<1> ClientOK /\ ServerOK /\ Flow
  BY DEF PairOK
<1> Kind' = Kind /\ UNCHANGED <<columns, version, transport>>
  BY ServerMessages DEF clientVars, fieldVars, callVars, Kind, ClientOK, TypeOK
<1> SUFFICES ASSUME transport = "open", Kind \in {"run", "pull"} PROVE Stream'
  BY StreamOver
<1> s2c \in Seq(Response)
  BY DEF ClientOK, TypeOK, ChannelTypeOK
<1>1. \A c \in Codes : Failure(c) \in Response /\ Failure(c).type = "FAILURE"
  BY ResponsesTyped DEF Failure, Resp
<1>2. ASSUME NEW types, Takes(types)
      PROVE  /\ Requested /\ Asks(Head(c2s)) /\ Head(c2s).type \in types
             /\ c2s' = <<>> /\ s2c = <<>> /\ c2s # <<>> /\ Head(c2s) = c2s[1]
             /\ pulling = NoQid
  <2>1. Requested /\ Asks(Head(c2s)) /\ c2s' = <<>> /\ c2s \in Seq(Request)
    BY <1>2, RequestTaken DEF ClientOK, TypeOK, ChannelTypeOK
  <2> QED
    BY <1>2, <2>1 DEF Takes, Requested
<1>3. CASE SrvRun
  <2>1. Kind = "run" /\ s2c = <<>>
    BY <1>2, <1>3 DEF SrvRun, Asks
  <2>2. PICK m \in Response : Reply(m) /\ m.qid = last'
    <3>1. /\ 0 \in Qids /\ (next_qid <= MaxQid => next_qid \in Qids)
      BY BoundsAssumption DEF ServerOK, ServerTypeOK, Qids
    <3>2. PICK q \in Qids : Reply(Success(q, "list", "absent")) /\ last' = q
      BY <1>3, <3>1 DEF SrvRun
    <3>3. Success(q, "list", "absent") \in Response
      BY ResponsesTyped
    <3>4. Success(q, "list", "absent").qid = q
      BY DEF Success, Resp
    <3> QED
      BY <3>2, <3>3, <3>4
  <2>3. s2c' = <<m>>
    BY <2>1, <2>2 DEF Reply
  <2> QED
    BY <2>1, <2>2, <2>3 DEF Stream
<1>4. CASE SrvBegin(version) \/ SrvEnd \/ SrvAcknowledge
  BY <1>2, <1>4 DEF SrvBegin, SrvEnd, SrvAcknowledge, Asks
<1>5. CASE SrvRefuse
  <2>1. /\ Kind # "ack" /\ srv # "FAILED" /\ s2c = <<>> /\ c2s' = <<>>
        /\ pulling' = NoQid
    BY <1>2, <1>5 DEF SrvRefuse, Asks, Requested
  <2>2. PICK c \in Codes : Reply(Failure(c))
    BY <1>5, <2>1 DEF SrvRefuse
  <2>3. s2c' = <<Failure(c)>>
    BY <2>1, <2>2 DEF Reply
  <2> QED
    BY <1>1, <2>1, <2>3 DEF Stream
<1>6. CASE SrvPull
  <2>1. /\ Kind = "pull" /\ s2c' = <<>> /\ c2s' = <<>> /\ c2s # <<>>
        /\ Head(c2s) = c2s[1]
    BY <1>2, <1>6 DEF SrvPull, Asks
  <2>2. c2s[1].qid = NoQid /\ c2s[1].n = "all" /\ last = columns
    BY <2>1 DEF Stream
  <2>3. pulling' = columns /\ pull_n' = "all"
    BY <1>6, <2>1, <2>2 DEF SrvPull
  <2> QED
    BY <2>1, <2>3 DEF Stream
<1>7. ASSUME peer = "up", pulling # NoQid
      PROVE  Streaming /\ Kind = "pull" /\ pulling = columns /\ pull_n = "all"
             /\ c2s = <<>> /\ pulling \in Qids
  <2>1. Streaming
    BY <1>7 DEF Flow, Quiet, Requested, Answered, Lost
  <2> QED
    BY <1>7, <2>1 DEF Streaming, Stream, ServerOK, ServerTypeOK
(* One more message of the result that is streamed. *)
<1>8. ASSUME peer = "up", pulling # NoQid, UNCHANGED <<peer, c2s>>,
             NEW m \in Response, Reply(m),
             m.type = "RECORD" => m.qid = columns,
             m.type = "SUCCESS" => m.has_more # "true",
             pulling' # NoQid => UNCHANGED <<pulling, pull_n>>
      PROVE  Stream'
  <2>1. Kind = "pull" /\ pulling = columns /\ pull_n = "all" /\ c2s' = <<>>
    BY <1>7, <1>8
  <2>2. s2c' = Append(s2c, m)
    BY <1>8 DEF Reply
  <2>3. \A i \in 1 .. Len(s2c') : i \in 1 .. Len(s2c) \/ s2c'[i] = m
    BY <2>2, AppendedReply
  <2>4. \A i \in 1 .. Len(s2c') :
              /\ s2c'[i].type = "RECORD" => s2c'[i].qid = columns
              /\ s2c'[i].type = "SUCCESS" => s2c'[i].has_more # "true"
    BY <1>8, <2>1, <2>2, <2>3, AppendedReply DEF Stream
  <2> QED
    BY <1>8, <2>1, <2>4 DEF Stream
<1>9. CASE SrvRecord
  <2>1. peer = "up" /\ pulling # NoQid /\ pulling = columns /\ pulling \in Qids
    BY <1>7, <1>9 DEF SrvRecord
  <2>2. PICK m \in Response : Reply(m) /\ m.type = "RECORD" /\ m.qid = columns
    <3>1. Record(pulling) \in Response
      BY <2>1, ResponsesTyped
    <3>2. Record(pulling).type = "RECORD" /\ Record(pulling).qid = pulling
      BY DEF Record, Resp
    <3> QED
      BY <1>9, <2>1, <3>1, <3>2 DEF SrvRecord
  <2> QED
    BY <1>8, <1>9, <2>1, <2>2 DEF SrvRecord, serverVars
<1>10. CASE SrvSummary
  <2>1. peer = "up" /\ pulling # NoQid /\ pull_n = "all" /\ pulling \in Qids
    BY <1>7, <1>10 DEF SrvSummary
  <2>2. PICK h \in {"absent", "false"} : Reply(Success(pulling, "invalid", h))
    BY <1>10, <2>1 DEF SrvSummary
  <2>3. PICK m \in Response : /\ Reply(m) /\ m.type = "SUCCESS"
                              /\ m.has_more # "true"
    <3>1. Success(pulling, "invalid", h) \in Response
      BY <2>1, ResponsesTyped
    <3>2. /\ Success(pulling, "invalid", h).type = "SUCCESS"
          /\ Success(pulling, "invalid", h).has_more = h
      BY DEF Success, Resp
    <3> QED
      BY <2>2, <3>1, <3>2
  <2> QED
    BY <1>8, <1>10, <2>1, <2>3 DEF SrvSummary
<1>11. CASE SrvPullFails
  <2>1. PICK c \in Codes : Reply(Failure(c))
    BY <1>11 DEF SrvPullFails
  <2> QED
    BY <1>1, <1>8, <1>11, <2>1 DEF SrvPullFails
<1>12. CASE SrvCloses
  BY <1>12 DEF SrvCloses, Stream
<1> QED
  BY <1>3, <1>4, <1>5, <1>6, <1>9, <1>10, <1>11, <1>12
     DEF ServerNext, ServerAnswers

----------------------------------------------------------------------------
(* The methods, one lemma per group of actions. *)

MethodOK == InMethod /\ Executing /\ Fetched /\ Promises

(* Within a method there is nothing to promise. *)
LEMMA NoPromise == pc' # "none" => Promises'
BY DEF Promises, ExecuteMeansFetching, RowsMatchColumns, DrainedCanExecute

LEMMA ExecuteRunOK ==
  ASSUME PairOK, MethodOK, ExecuteRun
  PROVE  MethodOK'
<1> USE DEF MethodOK
<1>1. /\ pc = "none" /\ Idle /\ pc' = "Execute" /\ UNCHANGED columns_
      /\ Promises'
  BY NoPromise DEF ExecuteRun, Enter
<1>2. CASE mg_session_run("NULL")
  <2>1. CASE call' = "run" /\ UNCHANGED status
    <3>1. InMethod'
      BY <1>1, <2>1 DEF InMethod
    <3>2. status # "FETCHING" /\ ~(status = "EXECUTING" /\ explicit_transaction = 0)
      BY <1>2 DEF mg_session_run, RunRefused
    <3>3. UNCHANGED explicit_transaction
      BY <1>2 DEF mg_session_run
    <3>4. Executing' /\ Fetched'
      BY <1>1, <2>1, <3>2, <3>3 DEF Executing, Fetched, Idle, Draining
    <3> QED
      BY <1>1, <3>1, <3>4
  <2>2. CASE call' = "none" /\ status' = "BAD"
    <3>1. InMethod'
      BY <1>1, <2>2 DEF InMethod
    <3>2. Executing' /\ Fetched'
      BY <1>1, <2>2 DEF Executing, Fetched, Draining
    <3> QED
      BY <1>1, <3>1, <3>2
  <2> QED
    BY <1>2, <2>1, <2>2 DEF mg_session_run, SendAndWait, Wait, FatalFailure,
       mg_session_invalidate, Return
<1>3. CASE Refused(RunRefused)
  <2>1. /\ ret' < 0 /\ call' = "none"
        /\ UNCHANGED <<status, explicit_transaction, columns>>
    BY <1>3, RefusedCall DEF fieldVars
  <2>2. InMethod'
    BY <1>1, <2>1 DEF InMethod
  <2>3. ret' \in Int
    BY <1>3 DEF Refused, Return, MG_ERROR_BAD_CALL
  <2>4. Executing'
    BY <1>1, <2>1, <2>3 DEF Executing, Idle
  <2>5. Fetched'
    BY <1>1 DEF Fetched, Draining
  <2> QED
    BY <1>1, <2>2, <2>4, <2>5
<1> QED
  BY <1>2, <1>3 DEF ExecuteRun

LEMMA ExecutePullOK ==
  ASSUME PairOK, MethodOK, ExecutePull
  PROVE  MethodOK'
<1> USE DEF MethodOK
<1>1. /\ pc = "Execute" /\ Idle /\ ret >= 0 /\ pc' = "Pull"
      /\ UNCHANGED columns_ /\ Promises'
  BY NoPromise DEF ExecutePull
<1>2. status \in {"BAD", "EXECUTING"} /\ (status = "EXECUTING" => columns # NoColumns)
  BY <1>1 DEF Executing
<1>3. CASE /\ mg_session_pull(NoQid, "all")
           /\ UnlessReturns({MG_SUCCESS, MG_ERROR_SEND_FAILED})
  <2>1. status = "EXECUTING" /\ UNCHANGED columns
    BY <1>2, <1>3 DEF mg_session_pull, PullRefused
  <2>2. /\ call' = "none"
        /\ \/ status' = "FETCHING" /\ ret' >= 0
           \/ status' = "BAD" /\ ret' < 0
    <3>1. CASE status' = "FETCHING" /\ Return(MG_SUCCESS)
      BY <3>1 DEF Return, MG_SUCCESS
    <3>2. CASE \E rc \in SendErrors("PULL") : FatalFailure(rc)
      <4>1. PICK rc \in SendErrors("PULL") : FatalFailure(rc)
        BY <3>2
      <4>2. rc # MG_SUCCESS
        BY <4>1, ErrorsTyped DEF MG_SUCCESS, RequestTypes
      <4>3. ret' = MG_ERROR_SEND_FAILED
        BY <1>3, <4>1, <4>2 DEF UnlessReturns, FatalFailure, Return
      <4> QED
        BY <4>1, <4>3 DEF FatalFailure, Return, mg_session_invalidate,
           MG_ERROR_SEND_FAILED
    <3> QED
      BY <1>3, <3>1, <3>2 DEF mg_session_pull
  <2>3. InMethod'
    BY <1>1, <2>2 DEF InMethod
  <2>4. Executing' /\ Fetched'
    BY <1>1, <1>2, <2>1, <2>2 DEF Executing, Fetched, Idle, Draining
  <2> QED
    BY <1>1, <2>3, <2>4
<1>4. CASE Refused(PullRefused)
  <2>1. status = "BAD"
    BY <1>2, <1>4 DEF Refused, PullRefused
  <2>2. ret' < 0 /\ call' = "none" /\ UNCHANGED status
    BY <1>4, RefusedCall DEF fieldVars
  <2>3. InMethod'
    BY <1>1, <2>2 DEF InMethod
  <2>4. Executing' /\ Fetched'
    BY <1>1, <2>1, <2>2 DEF Executing, Fetched, Idle, Draining
  <2> QED
    BY <1>1, <2>3, <2>4
<1> QED
  BY <1>3, <1>4 DEF ExecutePull

LEMMA ExecuteReturnsOK ==
  ASSUME PairOK, MethodOK, ExecuteReturns
  PROVE  MethodOK'
<1> USE DEF MethodOK
<1>1. /\ pc \in {"Execute", "Pull"} /\ Idle /\ pc' = "none" /\ call' = "none"
      /\ UNCHANGED <<status, explicit_transaction, columns, ret, message>>
      /\ ret \in Int
  BY DEF ExecuteReturns, Leave, clientVars, fieldVars, callVars, Idle, PairOK,
     ClientOK, TypeOK, CallTypeOK
<1>2. InMethod' /\ Fetched'
  BY <1>1 DEF InMethod, Fetched, Draining
<1>3. CASE ret < 0 /\ out' = Out("Execute", "false") /\ UNCHANGED columns_
  <2>1. ~(status = "EXECUTING" /\ explicit_transaction = 0)
    BY <1>1, <1>3 DEF Executing
  <2>2. pc = "Pull" => status # "FETCHING"
    BY <1>1, <1>3 DEF Executing
  <2>3. Executing'
    BY <1>1, <1>3, <2>1, <2>2 DEF Executing, Idle
  <2>4. Promises'
    BY <1>3 DEF Promises, ExecuteMeansFetching, RowsMatchColumns,
       DrainedCanExecute, Out, Draining
  <2> QED
    BY <1>2, <2>3, <2>4
<1>4. CASE /\ pc = "Pull" /\ ret >= 0 /\ columns_' = columns
           /\ out' = Out("Execute", "true")
  <2>1. status = "FETCHING" /\ columns # NoColumns
    BY <1>1, <1>4 DEF Executing, Idle
  <2>2. Executing'
    BY <1>1, <1>4, <2>1 DEF Executing
  <2>3. Promises'
    BY <1>1, <1>4, <2>1 DEF Promises, ExecuteMeansFetching, RowsMatchColumns,
       DrainedCanExecute, Out, Draining
  <2> QED
    BY <1>2, <2>2, <2>3
<1> QED
  BY <1>3, <1>4 DEF ExecuteReturns, Leave

(* mg_session_fetch, called by a method that drains. *)
LEMMA FetchOK ==
  ASSUME PairOK, MethodOK, Fetch, Idle, pc \in {"none"} \cup Draining,
         pc' \in Draining, UNCHANGED columns_
  PROVE  MethodOK'
<1> USE DEF MethodOK
<1>1. Promises' /\ pc \notin {"Execute", "Pull"} /\ pc' \notin {"none", "Execute", "Pull"}
  BY NoPromise DEF Draining
<1>2. CASE mg_session_fetch
  <2>1. /\ call' = "fetch" /\ status = "FETCHING" /\ call # "destroyed"
        /\ UNCHANGED <<status, explicit_transaction, columns>>
    BY <1>2 DEF mg_session_fetch, FetchRefused, Wait, Idle
  <2>2. InMethod' /\ Fetched'
    BY <2>1 DEF InMethod, Fetched, Idle
  <2>3. Executing'
    BY <1>1, <2>1 DEF Executing
  <2> QED
    BY <1>1, <2>2, <2>3
<1>3. CASE Refused(FetchRefused)
  <2>1. /\ ret' < 0 /\ call' = "none" /\ status # "FETCHING" /\ ret' # 1
        /\ UNCHANGED <<status, explicit_transaction, columns>>
    BY <1>3, RefusedCall DEF fieldVars, Refused, FetchRefused, MG_ERROR_BAD_CALL
  <2>2. InMethod' /\ Fetched'
    BY <2>1 DEF InMethod, Fetched, Idle
  <2>3. Executing'
    BY <1>1, <2>1 DEF Executing
  <2> QED
    BY <1>1, <2>2, <2>3
<1> QED
  BY <1>2, <1>3 DEF Fetch

LEMMA DrainReturnsOK ==
  ASSUME PairOK, MethodOK, DrainReturns
  PROVE  MethodOK'
<1> USE DEF MethodOK
<1>1. /\ pc \in Draining /\ Idle /\ pc' = "none" /\ call' = "none"
      /\ out' = Out(pc, FetchOne) /\ UNCHANGED columns_
      /\ UNCHANGED <<status, explicit_transaction, columns, ret, message>>
  BY DEF DrainReturns, Leave, clientVars, fieldVars, callVars, Idle
<1>2. pc \notin {"none", "Execute", "Pull"}
  BY <1>1 DEF Draining
<1>3. InMethod' /\ Fetched'
  BY <1>1 DEF InMethod, Fetched, Draining
<1>4. Executing'
  BY <1>1, <1>2 DEF Executing, Idle
<1>5. FetchOne = "row" <=> ret = 1
  BY DEF FetchOne, MG_ERROR_CLIENT_ERROR, MG_ERROR_TRANSIENT_ERROR,
     MG_ERROR_DATABASE_ERROR
<1>6. ExecuteMeansFetching'
  BY <1>1, <1>2 DEF ExecuteMeansFetching, Out
<1>7. RowsMatchColumns'
  BY <1>1, <1>5 DEF RowsMatchColumns, Fetched, Out
<1>8. DrainedCanExecute'
  <2>1. out'.result = FetchOne
    BY <1>1 DEF Out
  <2>2. ret # 1 => status # "FETCHING"
    BY <1>1 DEF Fetched
  <2>3. ~(status = "EXECUTING" /\ explicit_transaction = 0)
    BY <1>2 DEF Executing
  <2> QED
    BY <1>1, <1>5, <2>1, <2>2, <2>3 DEF DrainedCanExecute, RunRefused
<1> QED
  BY <1>3, <1>4, <1>6, <1>7, <1>8 DEF Promises

LEMMA TransactionCallOK ==
  ASSUME PairOK, MethodOK, TransactionCall
  PROVE  MethodOK'
<1> USE DEF MethodOK
<1>1. /\ pc = "none" /\ Idle /\ pc' \in {"Begin", "End"} /\ UNCHANGED columns_
      /\ Promises'
  BY NoPromise DEF TransactionCall, Enter
<1>2. Fetched'
  BY <1>1 DEF Fetched, Draining
<1>3. UNCHANGED <<explicit_transaction, columns>>
  BY RefusedCall DEF TransactionCall, mg_session_begin_transaction,
     mg_session_end_transaction, fieldVars
<1>4. CASE UNCHANGED status
  <2>1. call' # "destroyed" => call # "destroyed"
    BY <1>1 DEF Idle
  <2> QED
    <3>1. Executing'
      BY <1>1, <1>3, <1>4, <2>1 DEF Executing
    <3>2. InMethod'
      <4>1. CASE Enter("Begin") /\ mg_session_begin_transaction
        BY <4>1 DEF Enter, mg_session_begin_transaction, SendAndWait, Wait,
           FatalFailure, Return, InMethod
      <4>2. CASE Enter("End") /\ \E c \in BOOLEAN : mg_session_end_transaction(c)
        BY <4>2 DEF Enter, mg_session_end_transaction, SendAndWait, Wait,
           FatalFailure, Return, InMethod
      <4>3. CASE Refused(BeginRefused) \/ Refused(EndRefused)
        BY <1>1, <4>3, RefusedCall DEF InMethod
      <4> QED
        BY <4>1, <4>2, <4>3 DEF TransactionCall
    <3> QED
      BY <1>1, <1>2, <3>1, <3>2
<1>5. CASE status' = "BAD" /\ call' = "none"
  <2>1. Executing' /\ InMethod'
    BY <1>1, <1>5 DEF Executing, InMethod
  <2> QED
    BY <1>1, <1>2, <2>1
<1>6. UNCHANGED status \/ (status' = "BAD" /\ call' = "none")
  BY RefusedCall DEF TransactionCall, mg_session_begin_transaction,
     mg_session_end_transaction, SendAndWait, FatalFailure, Return,
     mg_session_invalidate, fieldVars
<1> QED
  BY <1>4, <1>5, <1>6

LEMMA TransactionReturnsOK ==
  ASSUME PairOK, MethodOK, TransactionReturns
  PROVE  MethodOK'
<1> USE DEF MethodOK
<1>1. /\ pc \in {"Begin", "End"} /\ Idle /\ pc' = "none" /\ call' = "none"
      /\ out'.method \in {"Begin", "End"} /\ UNCHANGED columns_
      /\ UNCHANGED <<status, explicit_transaction, columns, ret, message>>
  BY DEF TransactionReturns, Leave, clientVars, fieldVars, callVars, Idle, Out
<1>2. InMethod' /\ Fetched'
  BY <1>1 DEF InMethod, Fetched, Draining
<1>3. Executing'
  BY <1>1 DEF Executing, Idle
<1>4. Promises'
  BY <1>1 DEF Promises, ExecuteMeansFetching, RowsMatchColumns,
     DrainedCanExecute, Out, Draining
<1> QED
  BY <1>2, <1>3, <1>4

LEMMA DestroyOK ==
  ASSUME PairOK, MethodOK, Destroy
  PROVE  MethodOK'
<1> USE DEF MethodOK
<1>1. /\ pc = "none" /\ Idle /\ pc' = "none" /\ call' = "destroyed"
      /\ UNCHANGED <<status, explicit_transaction, out>>
  BY DEF Destroy, mg_session_destroy, wrapperVars
<1>2. InMethod' /\ Fetched'
  BY <1>1 DEF InMethod, Fetched, Draining
<1>3. Executing'
  BY <1>1 DEF Executing
<1>4. Promises'
  BY <1>1 DEF Promises, ExecuteMeansFetching, RowsMatchColumns,
     DrainedCanExecute, RunRefused
<1> QED
  BY <1>2, <1>3, <1>4

(* A reply, within a method. *)
LEMMA RepliesOK ==
  ASSUME PairOK, MethodOK, Stream, ClientReplies,
         UNCHANGED <<wrapperVars, serverVars>>
  PROVE  MethodOK'
<1> USE DEF MethodOK, wrapperVars
<1> ClientOK /\ Flow /\ (explicit_transaction = 1 => version = 4)
  BY DEF PairOK
<1> /\ s2c \in Seq(Response) /\ status \in Statuses /\ explicit_transaction \in {0, 1}
    /\ ret \in Int
  BY DEF ClientOK, TypeOK, ChannelTypeOK, FieldTypeOK, CallTypeOK
<1>1. call \in Calls
  BY DEF ClientReplies, RunReply, FetchReply, BeginReply, EndReply, AckReply,
     ReceiveFails, ClientOK, Safe, CallInProgress, Calls
<1>2. /\ pc \notin {"none", "Pull"} /\ pc' = pc /\ columns_' = columns_
      /\ pc = "Execute" => call = "run"
      /\ pc \in Draining => call = "fetch"
      /\ pc \in {"Execute", "Begin", "End"} \cup Draining
  <2>1. pc # "Pull"
    BY <1>1 DEF Executing, Idle, Calls
  <2>2. pc = "Execute" => call = "run"
    BY <1>1 DEF InMethod, Calls, Draining
  <2>3. pc \in Draining => call = "fetch"
    BY <1>1 DEF InMethod, Calls, Draining
  <2> QED
    BY <1>1, <2>1, <2>2, <2>3 DEF InMethod, Calls, Draining
<1>3. Promises'
  BY <1>2, NoPromise
<1> /\ call = "run" => \/ status = "READY"
                       \/ explicit_transaction = 1 /\ status = "EXECUTING"
    /\ call = "fetch" => status = "FETCHING" /\ transport = "open"
  BY <1>1 DEF ClientOK, Safe, CallInProgress
(* The call goes on, and waits for the acknowledgement. *)
<1>4. ASSUME call' = call, UNCHANGED <<status, explicit_transaction, columns>>
      PROVE  MethodOK'
  <2>1. InMethod' /\ Fetched'
    BY <1>1, <1>2, <1>4 DEF InMethod, Fetched, Idle, Calls
  <2>2. Executing'
    BY <1>1, <1>2, <1>4 DEF Executing, Idle, Calls
  <2> QED
    BY <1>3, <2>1, <2>2
(* The call returns. *)
<1>5. call' = "none" => InMethod'
  BY <1>2 DEF InMethod
<1>6. ASSUME call' = "none", status' = "BAD", pc \in Draining => ret' # 1
      PROVE  MethodOK'
  <2>1. Executing' /\ Fetched'
    BY <1>2, <1>6 DEF Executing, Fetched, Idle
  <2> QED
    BY <1>3, <1>5, <1>6, <2>1
<1>7. ASSUME call' = "none", status' = "READY", pc = "Execute" => ret' < 0,
             pc \in Draining => ret' # 1, ret' \in Int
      PROVE  MethodOK'
  <2>1. Executing' /\ Fetched'
    BY <1>2, <1>7 DEF Executing, Fetched, Idle
  <2> QED
    BY <1>3, <1>5, <1>7, <2>1
<1>8. ASSUME NEW rc \in Int, rc < 0, FatalFailure(rc) PROVE MethodOK'
  BY <1>6, <1>8 DEF FatalFailure, mg_session_invalidate, Return
<1>9. MG_ERROR_PROTOCOL_VIOLATION \in Int /\ MG_ERROR_PROTOCOL_VIOLATION < 0
  BY DEF MG_ERROR_PROTOCOL_VIOLATION
<1>10. ASSUME handle_failure(Head(s2c)),
              UNCHANGED <<explicit_transaction, columns>>
       PROVE  MethodOK'
  <2> DEFINE ack == IF version = 1 THEN "ACK_FAILURE" ELSE "RESET"
  <2>1. \A rc \in SendErrors(ack) : rc \in Int /\ rc < 0
    BY DEF SendErrors, CarriesMap, MG_ERROR_SEND_FAILED
  <2>2. CASE \E rc \in SendErrors(ack) : FatalFailure(rc)
    BY <1>8, <2>1, <2>2
  <2>3. CASE call' = call /\ UNCHANGED status
    BY <1>4, <1>10, <2>3
  <2> QED
    BY <1>10, <2>2, <2>3 DEF handle_failure, Wait
<1>11. CASE ReceiveFails
  <2>1. PICK rc \in ReceiveErrors : FatalFailure(rc)
    BY <1>11 DEF ReceiveFails
  <2> QED
    BY <1>8, <2>1, ErrorsTyped
<1>12. CASE RunReply
  <2>1. /\ call = "run" /\ pc = "Execute" /\ pc \notin Draining
        /\ UNCHANGED <<explicit_transaction, peer>>
    BY <1>12 DEF RunReply, InMethod, Draining
  <2>2. CASE Received({"SUCCESS"}) /\ RunSucceeds(Head(s2c))
    <3>1. /\ s2c # <<>> /\ Head(s2c).type = "SUCCESS" /\ Kind = "run"
          /\ transport = "open"
      BY <1>1, <2>1, <2>2, IdleKind DEF Received
    <3>2. Head(s2c).qid \in Qids
      BY <3>1, ReplyExpected DEF Expected
    <3>3. Head(s2c).qid # NoColumns
      BY <3>2 DEF Qids, NoColumns
    <3>4. peer = "up" => Head(s2c).qid = last
      <4>1. Head(s2c) = s2c[1] /\ 1 \in 1 .. Len(s2c)
        BY <3>1
      <4> QED
        BY <3>1, <4>1 DEF Stream
    <3>5. CASE Return(MG_ERROR_OOM) /\ UNCHANGED status
      <4>1. ret' < 0 /\ ret' \in Int /\ call' = "none"
        BY <3>5 DEF Return, MG_ERROR_OOM
      <4>2. \/ status = "READY"
            \/ explicit_transaction = 1 /\ status = "EXECUTING"
        BY <2>1
      <4>3. Executing' /\ Fetched'
        BY <1>2, <2>1, <3>5, <4>1, <4>2 DEF Executing, Fetched
      <4> QED
        BY <1>3, <1>5, <4>1, <4>3
    <3>6. CASE columns' = Head(s2c).qid /\ Return(MG_SUCCESS)
               /\ status' = "EXECUTING"
      <4>1. ret' >= 0 /\ ret' \in Int /\ call' = "none"
        BY <3>6 DEF Return, MG_SUCCESS
      <4>2. peer' = "up" => last' = columns'
        BY <2>1, <3>4, <3>6 DEF serverVars
      <4>3. Executing' /\ Fetched'
        BY <1>2, <2>1, <3>3, <3>6, <4>1, <4>2 DEF Executing, Fetched, Idle
      <4> QED
        BY <1>3, <1>5, <4>1, <4>3
    <3> QED
      BY <1>8, <1>9, <2>2, <3>5, <3>6 DEF RunSucceeds
  <2> QED
    BY <1>8, <1>9, <1>10, <1>12, <2>1, <2>2 DEF RunReply, Unexpected
<1>13. CASE FetchReply
  <2>1. /\ call = "fetch" /\ pc \in Draining /\ pc # "Execute"
        /\ status = "FETCHING" /\ transport = "open"
        /\ UNCHANGED <<explicit_transaction, columns>>
    BY <1>13 DEF FetchReply, InMethod, Draining
  <2>2. columns_ = columns /\ columns # NoColumns
    BY <1>2, <2>1 DEF Executing
  <2>3. CASE /\ Received({"RECORD"}) /\ message' = Head(s2c) /\ Return(1)
             /\ UNCHANGED status
    <3>1. s2c # <<>> /\ Head(s2c).type = "RECORD" /\ Kind = "pull"
      BY <2>1, <2>3, IdleKind DEF Received
    <3>2. Head(s2c) = s2c[1] /\ 1 \in 1 .. Len(s2c)
      BY <3>1
    <3>3. Head(s2c).qid = columns
      BY <2>1, <3>1, <3>2 DEF Stream
    <3>4. call' = "none" /\ ret' = 1
      BY <2>3 DEF Return
    <3>5. Fetched'
      BY <1>2, <2>2, <2>3, <3>1, <3>3, <3>4 DEF Fetched
    <3>6. Executing'
      BY <1>2, <2>1, <2>2, <2>3, <3>4 DEF Executing
    <3> QED
      BY <1>3, <1>5, <3>4, <3>5, <3>6
  <2>4. CASE /\ Received({"SUCCESS"}) /\ FetchSummary(Head(s2c)) /\ Return(0)
    <3>1. s2c # <<>> /\ Head(s2c).type = "SUCCESS" /\ Kind = "pull"
      BY <2>1, <2>4, IdleKind DEF Received
    <3>2. Head(s2c) = s2c[1] /\ 1 \in 1 .. Len(s2c)
      BY <3>1
    <3>3. Head(s2c).has_more # "true"
      BY <2>1, <3>1, <3>2 DEF Stream
    <3>4. call' = "none" /\ ret' = 0
      BY <2>4 DEF Return
    <3>5. \/ status' = "READY"
          \/ status' = "EXECUTING" /\ explicit_transaction = 1
      BY <2>4, <3>3 DEF FetchSummary
    <3>6. Executing' /\ Fetched'
      BY <1>2, <2>1, <3>4, <3>5 DEF Executing, Fetched
    <3> QED
      BY <1>3, <1>5, <3>4, <3>6
  <2> QED
    BY <1>8, <1>9, <1>10, <1>13, <2>1, <2>3, <2>4 DEF FetchReply, Unexpected
<1>14. CASE BeginReply
  <2>1. call = "begin" /\ pc = "Begin" /\ status = "READY" /\ UNCHANGED columns
    BY <1>14 DEF BeginReply, InMethod, ClientOK, Safe, CallInProgress
  <2>2. CASE Return(MG_SUCCESS) /\ UNCHANGED status
    BY <1>7, <2>1, <2>2 DEF Return, MG_SUCCESS, Draining
  <2> QED
    BY <1>8, <1>9, <1>10, <1>14, <2>1, <2>2 DEF BeginReply, Unexpected
<1>15. CASE EndReply
  <2>1. call = "end" /\ pc = "End" /\ UNCHANGED columns
    BY <1>15 DEF EndReply, InMethod
  <2>2. CASE Return(MG_SUCCESS) /\ status' = "READY"
    BY <1>7, <2>1, <2>2 DEF Return, MG_SUCCESS, Draining
  <2> QED
    BY <1>8, <1>9, <1>10, <1>15, <2>1, <2>2 DEF EndReply, Unexpected
<1>16. CASE AckReply
  <2>1. phase = "ack" /\ UNCHANGED <<explicit_transaction, columns>>
    BY <1>16 DEF AckReply
  <2>2. CASE status' = StatusAfterFailure /\ Return(failure_status)
    <3>1. ret' < 0 /\ ret' \in Int /\ call' = "none" /\ ret' # 1
      BY <2>1, <2>2 DEF Return, ClientOK, CallLocals, TypeOK, CallTypeOK
    <3>2. \/ status' = "READY"
          \/ status' = "EXECUTING" /\ explicit_transaction = 1
      BY <1>1, <2>2 DEF StatusAfterFailure, ClientOK, Safe, CallInProgress, Calls
    <3>3. Executing' /\ Fetched'
      BY <1>2, <2>1, <3>1, <3>2 DEF Executing, Fetched
    <3> QED
      BY <1>3, <1>5, <3>1, <3>3
  <2> QED
    BY <1>8, <1>9, <1>16, <2>2 DEF AckReply
<1> QED
  BY <1>11, <1>12, <1>13, <1>14, <1>15, <1>16 DEF ClientReplies

(* A step of the server.  Between the calls of Execute it has nothing to   *)
(* do but close.                                                           *)
LEMMA ServerStepOK ==
  ASSUME PairOK, MethodOK, ServerNext(version),
         UNCHANGED <<clientVars, wrapperVars>>
  PROVE  MethodOK'
<1> USE DEF MethodOK, wrapperVars, clientVars, fieldVars, callVars
<1>1. InMethod' /\ Fetched' /\ Promises'
  BY DEF InMethod, Fetched, Promises, ExecuteMeansFetching, RowsMatchColumns,
     DrainedCanExecute, RunRefused, Idle
<1>2. ASSUME pc = "Execute", Idle, status = "EXECUTING"
      PROVE  UNCHANGED last /\ (peer' = "up" => peer = "up")
  <2>1. transport = "open"
    BY <1>2 DEF PairOK, ClientOK, TypeOK, ChannelTypeOK, Safe,
       BadIffNoTransport, Idle
  <2>2. Quiet
    BY <1>2, <2>1, IdleKind DEF PairOK, Flow
  <2>3. \A types : ~Takes(types)
    BY <2>2 DEF Takes, Quiet
  <2>4. ~SrvRun /\ ~SrvPull /\ ~SrvBegin(version) /\ ~SrvEnd
        /\ ~SrvAcknowledge /\ ~SrvRefuse
    BY <2>3 DEF SrvRun, SrvPull, SrvBegin, SrvEnd, SrvAcknowledge, SrvRefuse
  <2>5. ~SrvRecord /\ ~SrvSummary /\ ~SrvPullFails
    BY <2>2 DEF Quiet, SrvRecord, SrvSummary, SrvPullFails
  <2> QED
    BY <2>4, <2>5 DEF ServerNext, ServerAnswers, SrvCloses, serverVars
<1>3. Executing'
  BY <1>2 DEF Executing, Idle
<1> QED
  BY <1>1, <1>3

----------------------------------------------------------------------------
LEMMA InvInit == Init => ClientInv
<1> SUFFICES ASSUME Init PROVE ClientInv
  OBVIOUS
<1>1. PairOK
  BY PairInitOK DEF Init
<1>2. Stream
  BY DEF Init, ClientInit, Stream, Kind
<1>3. InMethod /\ Executing /\ Fetched
  BY DEF Init, ClientInit, InMethod, Executing, Fetched, Draining
<1>4. Promises
  BY DEF Init, Promises, ExecuteMeansFetching, RowsMatchColumns,
     DrainedCanExecute, Out, Draining
<1> QED
  BY <1>1, <1>2, <1>3, <1>4 DEF ClientInv

LEMMA InvStep == ClientInv /\ [Next]_vars => ClientInv'
<1> SUFFICES ASSUME ClientInv, [Next]_vars PROVE ClientInv'
  OBVIOUS
<1> PairOK /\ MethodOK /\ Stream
  BY DEF ClientInv, MethodOK
<1>1. PairOK'
  BY MethodsArePairSteps
<1> SUFFICES MethodOK' /\ Stream'
  BY <1>1 DEF ClientInv, MethodOK
<1>2. ASSUME NEW r, Refused(r), UNCHANGED serverVars PROVE Stream'
  <2>1. Kind' = Kind
    BY <1>2, IdleKind DEF Refused, Return, Kind, Idle, fieldVars, PairOK
  <2> QED
    BY <1>2, <2>1, StreamKept DEF Refused, fieldVars
<1>3. ASSUME Fetch, UNCHANGED serverVars PROVE Stream'
  <2>1. CASE mg_session_fetch
    <3>1. Kind' = Kind
      BY <2>1, IdleKind
         DEF mg_session_fetch, FetchRefused, Wait, Kind, Idle, PairOK
    <3> QED
      BY <1>3, <2>1, <3>1, StreamKept DEF mg_session_fetch
  <2> QED
    BY <1>2, <1>3, <2>1 DEF Fetch
<1>4. ASSUME UNCHANGED <<clientVars, channelVars, serverVars>> PROVE Stream'
  <2>1. Kind' = Kind
    BY <1>4 DEF Kind, clientVars, fieldVars, callVars
  <2> QED
    BY <1>4, <2>1, StreamKept DEF clientVars, fieldVars
<1>5. CASE ProgramCalls
  <2>1. CASE ExecuteRun
    BY <1>2, <1>5, <2>1, ExecuteRunOK, StreamRunSent DEF ProgramCalls, ExecuteRun
  <2>2. CASE DrainStart
    <3>1. Fetch /\ Idle /\ pc = "none" /\ pc' \in Draining /\ UNCHANGED columns_
      BY <2>2 DEF DrainStart, Enter
    <3> QED
      BY <1>3, <1>5, <3>1, FetchOK DEF ProgramCalls
  <2>3. CASE TransactionCall
    <3>1. ASSUME NEW op \in {"begin", "end"}, NEW t, SendAndWait(op, t, "NULL")
          PROVE  Stream'
      <4>1. transport' = "open" => Kind' = op
        BY <3>1 DEF SendAndWait, Wait, Kind, FatalFailure, mg_session_invalidate
      <4> QED
        BY <4>1, StreamOver
    <3> QED
      BY <1>2, <1>5, <2>3, <3>1, TransactionCallOK DEF ProgramCalls,
         TransactionCall, mg_session_begin_transaction, mg_session_end_transaction
  <2>4. CASE Destroy
    BY <2>4, DestroyOK, StreamOver DEF Destroy, mg_session_destroy
  <2> QED
    BY <1>5, <2>1, <2>2, <2>3, <2>4 DEF ProgramCalls
<1>6. CASE MethodSteps
  <2>1. CASE ExecutePull
    <3>1. MethodOK'
      BY <2>1, ExecutePullOK
    <3>2. CASE mg_session_pull(NoQid, "all")
      <4>1. peer = "up" => last = columns
        BY <2>1, <3>2 DEF ExecutePull, mg_session_pull, PullRefused, MethodOK,
           Executing
      <4> QED
        BY <1>6, <3>1, <3>2, <4>1, StreamPullSent DEF MethodSteps
    <3> QED
      BY <1>2, <1>6, <2>1, <3>1, <3>2 DEF MethodSteps, ExecutePull
  <2>2. CASE DrainAgain
    <3>1. Fetch /\ Idle /\ pc \in Draining /\ pc' \in Draining /\ UNCHANGED columns_
      BY <2>2 DEF DrainAgain, wrapperVars
    <3> QED
      BY <1>3, <1>6, <3>1, FetchOK DEF MethodSteps
  <2>3. CASE ExecuteReturns \/ DrainReturns \/ TransactionReturns
    <3>1. UNCHANGED <<clientVars, channelVars>>
      BY <2>3 DEF ExecuteReturns, DrainReturns, TransactionReturns, Leave
    <3> QED
      BY <1>4, <1>6, <2>3, <3>1, ExecuteReturnsOK, DrainReturnsOK,
         TransactionReturnsOK DEF MethodSteps
  <2>4. CASE ClientReplies /\ UNCHANGED wrapperVars
    BY <1>6, <2>4, StreamReplies, RepliesOK DEF MethodSteps
  <2> QED
    BY <1>6, <2>1, <2>2, <2>3, <2>4 DEF MethodSteps
<1>7. CASE ServerSteps
  BY <1>7, StreamServer, ServerStepOK DEF ServerSteps
<1>8. CASE UNCHANGED vars
  <2>1. Stream'
    BY <1>4, <1>8 DEF vars
  <2>2. MethodOK'
    BY <1>8 DEF vars, clientVars, fieldVars, callVars, channelVars, serverVars,
       wrapperVars, MethodOK, InMethod, Executing, Fetched, Promises,
       ExecuteMeansFetching, RowsMatchColumns, DrainedCanExecute, RunRefused, Idle
  <2> QED
    BY <2>1, <2>2
<1> QED
  BY <1>5, <1>6, <1>7, <1>8 DEF Next, Finished

LEMMA InvHolds == Spec => []ClientInv
BY InvInit, InvStep, PTL DEF Spec

(* Execute returns true only with its result on the way and its columns    *)
(* taken over, whatever failed before.                                     *)
THEOREM ExecuteFetches == Spec => []ExecuteMeansFetching
<1>1. ClientInv => ExecuteMeansFetching
  BY DEF ClientInv, Promises
<1> QED
  BY <1>1, InvHolds, PTL

(* A row that FetchOne returns is one of the query GetColumns() names. *)
THEOREM RowsOfColumns == Spec => []RowsMatchColumns
<1>1. ClientInv => RowsMatchColumns
  BY DEF ClientInv, Promises
<1> QED
  BY <1>1, InvHolds, PTL

(* A drained client can execute the next statement, unless the session is *)
(* lost.                                                                   *)
THEOREM DrainedIsReady == Spec => []DrainedCanExecute
<1>1. ClientInv => DrainedCanExecute
  BY DEF ClientInv, Promises
<1> QED
  BY <1>1, InvHolds, PTL

(* However the methods of Client string its calls together, the session    *)
(* below them implements the contract of mgclient.h: the C++ class never   *)
(* drives it into a step the C interface does not document.                *)
THEOREM WrapperRefinement == Spec => ImplementsContract
<1>1. Init => Contract!CInit
  BY InitMaps DEF Init
<1>2. ClientInv /\ [Next]_vars => [Contract!CNext]_(Contract!cvars)
  BY MethodsAreSessionSteps, ClientMaps, OthersUnseen DEF ClientInv, PairOK
<1> QED
  BY <1>1, <1>2, InvHolds, PTL DEF Spec, ImplementsContract, Contract!CSpec

=============================================================================
