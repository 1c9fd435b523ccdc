------------------------- MODULE BoltSystem_proofs -------------------------
(***************************************************************************)
(* Theorems about the client connected to a conforming server.             *)
(***************************************************************************)
EXTENDS BoltSystem, Session_proofs, FiniteSetTheorems

(* The invariant of the pair holds throughout. *)
LEMMA PairHolds == Spec => []PairOK
<1>1. Init => PairOK
  BY PairInitOK DEF Init
<1>2. PairOK /\ [Next]_vars => PairOK'
  <2> SUFFICES ASSUME PairOK, [Next]_vars PROVE PairOK'
    OBVIOUS
  <2>1. CASE Client(ClientNext)
    BY <2>1, PairClientStep DEF Client
  <2>2. CASE Server(ServerNext(version))
    BY <2>2, PairServerStep DEF Server
  <2>3. CASE UNCHANGED vars
    BY <2>3, PairStutters DEF vars
  <2> QED
    BY <2>1, <2>2, <2>3 DEF Next, Finished
<1> QED
  BY <1>1, <1>2, PTL DEF Spec

(* Connected to a conforming server the session implements the contract of *)
(* mgclient.h too: no answer of the server takes a call outside it.        *)
THEOREM SystemRefinement == Spec => ImplementsContract
<1>1. Init => Contract!CInit
  BY InitMaps DEF Init
<1>2. PairOK /\ [Next]_vars => [Contract!CNext]_(Contract!cvars)
  BY ClientMaps, OthersUnseen DEF PairOK, Next, Client, Server, Finished, vars
<1> QED
  BY <1>1, <1>2, PairHolds, PTL DEF Spec, ImplementsContract, Contract!CSpec

(* Between calls, unless a pulled result is being fetched, nothing is      *)
(* under way, and the next reply is the reply to the next request, after   *)
(* any number of failures and for any number of queries, identifiers and   *)
(* error codes.                                                            *)
THEOREM RequestsInStep == Spec => []InStep
<1>1. PairOK => InStep
  <2> SUFFICES ASSUME PairOK, Idle, status \in {"READY", "EXECUTING"}
               PROVE  c2s = <<>> /\ s2c = <<>> /\ (peer = "up" => pulling = NoQid)
    BY DEF InStep
  <2>1. Kind = "none" /\ transport = "open"
    BY IdleKind DEF PairOK, ClientOK, Safe, BadIffNoTransport, Idle,
       TypeOK, ChannelTypeOK
  <2> QED
    BY <2>1 DEF PairOK, Flow, Quiet
<1> QED
  BY <1>1, PairHolds, PTL

(* At most one request is unanswered at any time. *)
THEOREM OneOutstanding == Spec => []OneRequestOutstanding
<1>1. PairOK => OneRequestOutstanding
  <2> DEFINE Replies == {i \in 1 .. Len(s2c) : s2c[i].type # "RECORD"}
  <2> SUFFICES ASSUME PairOK, peer = "up", transport = "open"
               PROVE  Len(c2s) + (IF pulling # NoQid THEN 1 ELSE 0)
                        + Cardinality(Replies) <= 1
    BY DEF OneRequestOutstanding
  <2>1. Cardinality({}) = 0 /\ Len(<<>>) = 0
    BY FS_EmptySet
  <2>2. AllRecords(s2c) => Replies = {}
    BY DEF AllRecords
  <2>3. s2c = <<>> => AllRecords(s2c)
    BY DEF AllRecords
  <2>4. CASE Kind = "none"
    BY <2>1, <2>2, <2>3, <2>4 DEF PairOK, Flow, Quiet
  <2>5. CASE Requested
    BY <2>1, <2>2, <2>3, <2>5 DEF Requested
  <2>6. CASE Streaming
    BY <2>1, <2>2, <2>6 DEF Streaming
  <2>7. CASE Answered
    <3>1. s2c \in Seq(Response) /\ Len(s2c) \in Nat /\ Len(s2c) > 0
      BY <2>7 DEF PairOK, ClientOK, TypeOK, ChannelTypeOK, Answered, EndsRecords
    <3>2. Replies = {Len(s2c)}
      BY <2>7, <3>1 DEF Answered, EndsRecords, Expected
    <3>3. Cardinality(Replies) = 1
      BY <3>2, FS_Singleton
    <3> QED
      BY <2>1, <2>7, <3>3 DEF Answered
  <2> QED
    BY <2>4, <2>5, <2>6, <2>7 DEF PairOK, Flow, Lost
<1> QED
  BY <1>1, PairHolds, PTL

----------------------------------------------------------------------------
(* The errors a call gives up with, when the server is there. *)
Environmental(rc) ==
  peer = "down" \/ rc \in {MG_ERROR_OOM, MG_ERROR_INVALID_VALUE,
                           MG_ERROR_SIZE_EXCEEDED}

LEMMA SendErrorsEnvironmental ==
  ASSUME NEW t \in RequestTypes, NEW rc \in SendErrors(t)
  PROVE  Environmental(rc)
BY DEF SendErrors, Environmental

(* No reply of the server is taken for a protocol violation or for one     *)
(* that does not decode.                                                   *)
LEMMA LostToEnvironment ==
  ASSUME PairOK, ClientNext, status # "BAD", status' = "BAD"
  PROVE  Environmental(ret')
<1> ClientOK /\ Flow
  BY DEF PairOK
<1> USE DEF FatalFailure, Return
<1>1. ASSUME NEW op, NEW t \in RequestTypes, NEW qa, SendAndWait(op, t, qa)
      PROVE  Environmental(ret')
  BY <1>1, SendErrorsEnvironmental DEF SendAndWait
<1>2. ASSUME NEW qa \in {"NULL", "given"}, mg_session_run(qa)
      PROVE  Environmental(ret')
  BY <1>1, <1>2 DEF mg_session_run, RequestTypes
<1>3. CASE mg_session_begin_transaction
  BY <1>1, <1>3 DEF mg_session_begin_transaction, RequestTypes
<1>4. ASSUME NEW c \in BOOLEAN, mg_session_end_transaction(c)
      PROVE  Environmental(ret')
  BY <1>1, <1>4 DEF mg_session_end_transaction, RequestTypes
<1>5. ASSUME NEW q \in Qids \cup {NoQid}, NEW n \in {"all", "some"},
             mg_session_pull(q, n)
      PROVE  Environmental(ret')
  BY <1>5, SendErrorsEnvironmental DEF mg_session_pull, RequestTypes
<1>6. CASE mg_session_fetch \/ BadCall \/ mg_session_destroy
  BY <1>6 DEF mg_session_fetch, BadCall, mg_session_destroy, fieldVars
<1>7. ASSUME handle_failure(Head(s2c)) PROVE Environmental(ret')
  BY <1>7, SendErrorsEnvironmental DEF handle_failure, RequestTypes
<1>8. ASSUME call \in Calls, s2c # <<>>
      PROVE  \/ Head(s2c).type = "RECORD" /\ Kind = "pull"
             \/ Head(s2c).type \in {"SUCCESS", "FAILURE"} /\ Expected(Head(s2c))
  BY <1>8, ReplyExpected, IdleKind
<1>9. CASE ReceiveFails
  <2>1. call \in Calls
    BY <1>9 DEF ReceiveFails, ClientOK, Safe, CallInProgress
  <2>2. s2c # <<>> => Head(s2c).type # "GARBAGE"
    BY <1>8, <2>1
  <2> QED
    BY <1>9, <2>2 DEF ReceiveFails, ReceiveErrors, Environmental
<1>10. CASE RunReply
  <2>1. call \in Calls
    BY <1>10 DEF RunReply, Calls
  <2>2. CASE Received({"SUCCESS"})
    <3>1. Kind = "run" /\ s2c # <<>> /\ Head(s2c).type = "SUCCESS"
      BY <1>10, <2>2, IdleKind DEF RunReply, Received
    <3>2. Head(s2c).fields = "list" /\ Head(s2c).qid \in Qids
      BY <1>8, <2>1, <3>1 DEF Expected
    <3>3. Head(s2c).qid # NoQid
      BY <3>2 DEF Qids, NoQid
    <3> QED
      BY <1>10, <2>2, <3>1, <3>2, <3>3 DEF RunReply, RunSucceeds, QidUnusable, Received
  <2>3. CASE Received({"RECORD", "OTHER"})
    BY <1>8, <1>10, <2>1, <2>3, IdleKind DEF RunReply, Received
  <2> QED
    BY <1>7, <1>10, <2>2, <2>3 DEF RunReply
<1>11. CASE FetchReply
  <2>1. call \in Calls
    BY <1>11 DEF FetchReply, Calls
  <2>2. CASE Received({"SUCCESS"})
    <3>1. s2c # <<>> /\ Head(s2c).has_more # "invalid" /\ Head(s2c).type = "SUCCESS"
      BY <1>8, <2>1, <2>2 DEF Received, Expected
    <3> QED
      BY <1>11, <2>2, <3>1 DEF FetchReply, HasMoreInvalid, FetchSummary, Received
  <2>3. CASE Received({"OTHER"})
    BY <1>8, <2>1, <2>3 DEF Received
  <2>4. CASE Received({"RECORD"})
    BY <1>11, <2>4 DEF FetchReply, Received
  <2> QED
    BY <1>7, <1>11, <2>2, <2>3, <2>4 DEF FetchReply
<1>12. CASE BeginReply
  <2>1. CASE Received({"RECORD", "OTHER"})
    BY <1>8, <1>12, <2>1, IdleKind DEF BeginReply, Received, Calls
  <2> QED
    BY <1>7, <1>12, <2>1 DEF BeginReply
<1>13. CASE EndReply
  <2>1. CASE Received({"RECORD", "OTHER"})
    BY <1>8, <1>13, <2>1, IdleKind DEF EndReply, Received, Calls
  <2> QED
    BY <1>7, <1>13, <2>1 DEF EndReply
<1>14. CASE AckReply
  <2>1. call \in Calls /\ Kind = "ack" /\ s2c # <<>>
    BY <1>14 DEF AckReply, ClientOK, Safe, CallInProgress, Kind
  <2>2. Head(s2c).type = "SUCCESS"
    BY <1>8, <2>1 DEF Expected
  <2> QED
    BY <1>14, <2>2 DEF AckReply, StatusAfterFailure
<1> QED
  BY <1>2, <1>3, <1>4, <1>5, <1>6, <1>9, <1>10, <1>11, <1>12, <1>13, <1>14
     DEF ClientNext, ClientCalls, ClientReplies

(* Only the connection, memory or a request that cannot be encoded costs   *)
(* the session.                                                            *)
THEOREM LostOnlyToEnvironmentHolds == Spec => LostOnlyToEnvironment
<1>1. PairOK /\ [Next]_vars =>
        [status # "BAD" /\ status' = "BAD" =>
           \/ peer = "down"
           \/ ret' \in {MG_ERROR_OOM, MG_ERROR_INVALID_VALUE,
                        MG_ERROR_SIZE_EXCEEDED}]_vars
  <2>1. ASSUME PairOK, Client(ClientNext), status # "BAD", status' = "BAD"
        PROVE  Environmental(ret')
    BY <2>1, LostToEnvironment DEF Client
  <2>2. ASSUME Server(ServerNext(version)) PROVE status' = status
    BY <2>2 DEF Server, clientVars, fieldVars
  <2> QED
    BY <2>1, <2>2 DEF Next, Finished, Environmental
<1> QED
  BY <1>1, PairHolds, PTL DEF Spec, LostOnlyToEnvironment

----------------------------------------------------------------------------
(* Agreement on the results that are open. *)

(* The server is where a session of status st with qn results to exhaust   *)
(* takes it to be.                                                         *)
Agree(st, qn) ==
  IF explicit_transaction = 1
  THEN /\ InTransaction
       /\ Cardinality(open) = qn
       /\ st = "READY" <=> open = {}
  ELSE srv = IF st = "READY" THEN "READY" ELSE "STREAMING"

(* What a summary m makes of query_number and of the status. *)
LeftAfter(m) ==
  IF m.has_more = "true" THEN query_number ELSE query_number - explicit_transaction

StatusAfter(m) ==
  IF \/ m.has_more = "true"
     \/ explicit_transaction = 1 /\ LeftAfter(m) # 0
  THEN "EXECUTING" ELSE "READY"

(* A reply m that is not read yet: the session will agree once it is. *)
AgreeAfter(m) ==
  /\ Kind = "begin" => srv = "TX_READY"
  /\ Kind = "ack" => srv = "READY"
  /\ clean => /\ Kind = "run" =>
                   Agree("EXECUTING", query_number + explicit_transaction)
              /\ Kind = "pull" => Agree(StatusAfter(m), LeftAfter(m))
              /\ Kind = "end" => srv = "READY"

Data ==
  transport = "open" /\ peer = "up" =>
    /\ clean /\ Kind # "ack" /\ ~Answered => Agree(status, query_number)
    /\ Answered /\ s2c[Len(s2c)].type = "SUCCESS" => AgreeAfter(s2c[Len(s2c)])

LEMMA OpenResults ==
  ASSUME ServerOK
  PROVE  /\ Cardinality(open) \in Nat
         /\ Cardinality(open) = 0 <=> open = {}
         /\ \A q : q \notin open =>
              Cardinality(open \cup {q}) = Cardinality(open) + 1
         /\ \A q \in open : /\ Cardinality(open \ {q}) = Cardinality(open) - 1
                            /\ Cardinality(open \ {q}) = 0 <=> open \ {q} = {}
<1>1. IsFiniteSet(open)
  <2>1. IsFiniteSet(Qids)
    BY BoundsAssumption, FS_Interval DEF Qids
  <2> QED
    BY <2>1, FS_Subset DEF ServerOK, ServerTypeOK
<1>2. \A q \in open : IsFiniteSet(open \ {q})
  BY <1>1, FS_RemoveElement
<1> QED
  BY <1>1, <1>2, FS_CardinalityType, FS_EmptySet, FS_AddElement, FS_RemoveElement

(* Nothing received: only the first half of Data says something. *)
LEMMA NothingReceived == s2c = <<>> => ~Answered
BY DEF Answered, EndsRecords

LEMMA DataWhenEmpty ==
  ASSUME s2c' = <<>>, clean' /\ Kind' # "ack" => Agree(status, query_number)'
  PROVE  Data'
<1>1. ~Answered'
  BY DEF Answered, EndsRecords
<1> QED
  BY <1>1 DEF Data

(* An acknowledged failure leaves the session clean only outside a         *)
(* transaction.                                                            *)
LEMMA CleanAfterAck ==
  ASSUME ClientOK, TrackClean, call \in Calls, phase = "ack",
         Return(failure_status)
  PROVE  clean' => explicit_transaction = 0
<1>1. call' = "none" /\ ret' # MG_SUCCESS
  BY DEF Return, ClientOK, CallLocals, TypeOK, CallTypeOK, MG_SUCCESS
<1>2. clean' = CASE phase = "ack" -> explicit_transaction = 0
                 [] phase = "reply" /\ ret' = MG_ERROR_OOM -> FALSE
                 [] call = "begin" /\ ret' = MG_SUCCESS -> TRUE
                 [] OTHER -> clean
  BY <1>1 DEF TrackClean
<1> QED
  BY <1>1, <1>2

(* A step of the client keeps the agreement. *)
LEMMA ClientDataStep ==
  ASSUME PairOK, Data, Client(ClientNext)
  PROVE  Data'
<1> SUFFICES ASSUME transport' = "open", peer' = "up" PROVE Data'
  BY DEF Data
<1> ClientOK /\ ServerOK /\ Flow /\ (explicit_transaction = 1 => version = 4)
  BY DEF PairOK
<1> PairOK'
  BY PairClientStep DEF Client
<1> TrackClean /\ UNCHANGED serverVars
  BY DEF Client
<1> /\ status \in Statuses /\ query_number \in Nat /\ version \in {1, 4}
    /\ explicit_transaction \in {0, 1} /\ s2c \in Seq(Response)
  BY VersionsAssumption DEF ClientOK, TypeOK, FieldTypeOK, ChannelTypeOK
<1>1. ASSUME Idle PROVE clean' = clean
  BY <1>1 DEF TrackClean, Idle, Calls
<1>2. ASSUME Idle, transport = "open", peer = "up", Kind = "none", s2c' = s2c,
             UNCHANGED <<explicit_transaction, query_number>>,
             status' = "READY" <=> status = "READY"
      PROVE  Data'
  <2>1. s2c = <<>>
    BY <1>2 DEF Flow, Quiet
  <2>2. clean => Agree(status, query_number)
    BY <1>2, <2>1, NothingReceived DEF Data
  <2>3. clean' => Agree(status, query_number)'
    BY <1>1, <1>2, <2>2 DEF Agree, InTransaction, serverVars
  <2> QED
    BY <1>2, <2>1, <2>3, DataWhenEmpty
<1>3. ASSUME NEW op, NEW t, NEW qa, SendAndWait(op, t, qa), Idle,
             status # "FETCHING",
             UNCHANGED <<explicit_transaction, query_number, peer>>
      PROVE  Data'
  BY <1>2, <1>3, IdleKind
     DEF SendAndWait, FatalFailure, mg_session_invalidate
<1>4. ASSUME NEW qa \in {"NULL", "given"}, mg_session_run(qa) PROVE Data'
  BY <1>3, <1>4 DEF mg_session_run, RunRefused
<1>5. CASE mg_session_begin_transaction
  BY <1>3, <1>5 DEF mg_session_begin_transaction, BeginRefused
<1>6. ASSUME NEW c \in BOOLEAN, mg_session_end_transaction(c) PROVE Data'
  BY <1>3, <1>6 DEF mg_session_end_transaction, EndRefused
<1>7. ASSUME NEW q \in Qids \cup {NoQid}, NEW n \in {"all", "some"},
             mg_session_pull(q, n)
      PROVE  Data'
  BY <1>2, <1>7, IdleKind
     DEF mg_session_pull, PullRefused, FatalFailure, mg_session_invalidate
<1>8. ASSUME Idle, Kind' = Kind,
             UNCHANGED <<version, status, explicit_transaction, query_number,
                         channelVars>>
      PROVE  Data'
  <2>1. Answered' <=> Answered
    BY <1>8 DEF Answered, EndsRecords, Expected, channelVars, serverVars
  <2>2. clean' = clean
    BY <1>1, <1>8
  <2>3. Agree(status, query_number)' <=> Agree(status, query_number)
    BY <1>8 DEF Agree, InTransaction, serverVars
  <2>4. AgreeAfter(s2c[Len(s2c)])' <=> AgreeAfter(s2c[Len(s2c)])
    BY <1>8, <2>2 DEF AgreeAfter, Agree, StatusAfter, LeftAfter, InTransaction,
       channelVars, serverVars
  <2> QED
    BY <1>8, <2>1, <2>2, <2>3, <2>4 DEF Data, channelVars
<1>9. CASE BadCall
  <2>1. Kind' = Kind
    BY <1>9, IdleKind DEF BadCall, Return, Kind, Idle, fieldVars
  <2> QED
    BY <1>8, <1>9, <2>1 DEF BadCall, fieldVars
<1>10. CASE mg_session_fetch
  <2>1. Kind' = Kind
    BY <1>10, IdleKind DEF mg_session_fetch, FetchRefused, Wait, Kind, Idle
  <2> QED
    BY <1>8, <1>10, <2>1 DEF mg_session_fetch, channelVars
<1>11. CASE mg_session_destroy \/ ReceiveFails
  BY <1>11 DEF mg_session_destroy, ReceiveFails, FatalFailure,
     mg_session_invalidate
<1>12. ~Unexpected /\ \A rc : ~FatalFailure(rc)
  BY DEF Unexpected, FatalFailure, mg_session_invalidate
(* The reply that ends the wait, read. *)
<1>13. ASSUME call \in Calls, s2c # <<>>, Head(s2c).type = "SUCCESS",
              s2c' = Tail(s2c), peer = "up"
       PROVE  /\ s2c' = <<>> /\ Expected(Head(s2c)) /\ AgreeAfter(Head(s2c))
  <2>1. Kind # "none" /\ transport = "open"
    BY <1>13, IdleKind
  <2>2. /\ Tail(s2c) = <<>> /\ Head(s2c) = s2c[Len(s2c)] /\ Answered
        /\ Expected(Head(s2c))
    BY <1>13, <2>1, AnswerAlone
  <2> QED
    BY <1>13, <2>1, <2>2 DEF Data
(* A FAILURE is being acknowledged. *)
<1>14. ASSUME call \in Calls, Received({"FAILURE"}), handle_failure(Head(s2c)),
              UNCHANGED <<peer, version>>
       PROVE  Data'
  <2>1. Kind' = "ack" /\ s2c' = Tail(s2c)
    BY <1>12, <1>14, FailureHandled DEF Received, handle_failure
  <2>2. s2c' = <<>>
    BY <1>14, <2>1, AnswerAlone, IdleKind DEF Received
  <2> QED
    BY <2>1, <2>2, DataWhenEmpty
<1>15. CASE RunReply
  <2>1. call = "run" /\ call \in Calls /\ UNCHANGED <<peer, version>>
        /\ UNCHANGED explicit_transaction
    BY <1>15 DEF RunReply, Calls
  <2>2. CASE Received({"SUCCESS"}) /\ RunSucceeds(Head(s2c))
    <3>1. s2c' = Tail(s2c) /\ s2c # <<>> /\ Head(s2c).type = "SUCCESS"
          /\ Kind = "run" /\ phase = "reply"
      BY <1>12, <2>1, <2>2, IdleKind DEF RunSucceeds, Received
    <3>2. s2c' = <<>> /\ AgreeAfter(Head(s2c))
      BY <1>13, <2>1, <3>1
    <3>3. CASE Return(MG_ERROR_OOM)
      <4>1. ~clean'
        BY <2>1, <3>1, <3>3 DEF TrackClean, Return
      <4> QED
        BY <3>2, <4>1, DataWhenEmpty
    <3>4. CASE /\ query_number' = QueryCounted /\ status' = "EXECUTING"
               /\ Return(MG_SUCCESS)
      <4>1. clean' = clean
        BY <2>1, <3>1, <3>4 DEF TrackClean, Return, MG_SUCCESS, MG_ERROR_OOM
      <4>2. explicit_transaction = 1 => query_number' = query_number + 1
        BY <3>4 DEF QueryCounted
      <4>3. clean => Agree("EXECUTING", query_number + explicit_transaction)
        BY <3>1, <3>2 DEF AgreeAfter
      <4>4. clean' => Agree(status, query_number)'
        BY <2>1, <3>4, <4>1, <4>2, <4>3 DEF Agree, InTransaction, serverVars
      <4> QED
        BY <3>2, <4>4, DataWhenEmpty
    <3> QED
      BY <1>12, <2>2, <3>3, <3>4 DEF RunSucceeds
  <2> QED
    BY <1>12, <1>14, <1>15, <2>1, <2>2 DEF RunReply
<1>16. CASE FetchReply
  <2>1. call = "fetch" /\ call \in Calls /\ UNCHANGED <<peer, version>>
        /\ UNCHANGED explicit_transaction
    BY <1>16 DEF FetchReply, Calls
  <2>2. CASE /\ Received({"RECORD"}) /\ s2c' = Tail(s2c) /\ Return(1)
             /\ UNCHANGED <<status, query_number, transport, c2s>>
    <3>1. Kind = "pull" /\ s2c # <<>> /\ Head(s2c).type = "RECORD"
          /\ phase = "reply"
      BY <2>1, <2>2, IdleKind DEF Received
    <3>2. Kind' = "pull"
      BY <2>1, <2>2 DEF Kind, Return, ClientOK, Safe, CallInProgress
    <3>3. /\ Answered' <=> Answered
          /\ Answered => s2c'[Len(s2c')] = s2c[Len(s2c)]
      BY <2>1, <2>2, <3>1, <3>2, RecordTaken
    <3>4. clean' = clean
      BY <2>1, <2>2, <3>1 DEF TrackClean, Return, MG_ERROR_OOM, MG_SUCCESS
    <3>5. Agree(status, query_number)' <=> Agree(status, query_number)
      BY <2>1, <2>2 DEF Agree, InTransaction, serverVars
    <3>6. Answered => (AgreeAfter(s2c[Len(s2c)])' <=> AgreeAfter(s2c[Len(s2c)]))
      BY <2>1, <2>2, <3>1, <3>2, <3>3, <3>4 DEF AgreeAfter, Agree, StatusAfter,
         LeftAfter, InTransaction, serverVars
    <3> QED
      BY <2>1, <2>2, <3>1, <3>2, <3>3, <3>4, <3>5, <3>6 DEF Data
  <2>3. CASE /\ Received({"SUCCESS"}) /\ FetchSummary(Head(s2c))
             /\ s2c' = Tail(s2c) /\ Return(0) /\ UNCHANGED <<transport, c2s>>
    <3>1. s2c # <<>> /\ Head(s2c).type = "SUCCESS" /\ Kind = "pull"
          /\ phase = "reply"
      BY <2>1, <2>3, IdleKind DEF Received
    <3>2. s2c' = <<>> /\ Expected(Head(s2c)) /\ AgreeAfter(Head(s2c))
      BY <1>13, <2>1, <2>3, <3>1
    <3>3. clean' = clean
      BY <2>1, <2>3, <3>1 DEF TrackClean, Return, MG_ERROR_OOM, MG_SUCCESS
    <3>4. clean => Agree(StatusAfter(Head(s2c)), LeftAfter(Head(s2c)))
      BY <3>1, <3>2 DEF AgreeAfter
    <3>5. /\ status' = StatusAfter(Head(s2c))
          /\ explicit_transaction = 1 => query_number' = LeftAfter(Head(s2c))
      <4>1. /\ Head(s2c).has_more \in {"absent", "true", "false"}
            /\ Head(s2c).has_more = "true" => version = 4
        <5>1. Head(s2c) \in Response
          BY <3>1
        <5> QED
          BY <3>1, <3>2, <5>1 DEF Expected, Response
      <4> QED
        BY <2>3, <4>1 DEF FetchSummary, StatusAfter, LeftAfter
    <3>6. clean' => Agree(status, query_number)'
      BY <2>1, <3>3, <3>4, <3>5 DEF Agree, InTransaction, serverVars
    <3> QED
      BY <3>2, <3>6, DataWhenEmpty
  <2> QED
    BY <1>12, <1>14, <1>16, <2>1, <2>2, <2>3 DEF FetchReply
<1>17. CASE BeginReply
  <2>1. call = "begin" /\ call \in Calls /\ UNCHANGED <<peer, version>>
    BY <1>17 DEF BeginReply, Calls
  <2>2. CASE /\ Received({"SUCCESS"}) /\ explicit_transaction' = 1
             /\ query_number' = 0 /\ s2c' = Tail(s2c)
             /\ UNCHANGED status
    <3>1. s2c # <<>> /\ Head(s2c).type = "SUCCESS" /\ Kind = "begin"
      BY <2>1, <2>2, IdleKind DEF Received
    <3>2. s2c' = <<>> /\ srv = "TX_READY"
      BY <1>13, <2>1, <2>2, <3>1 DEF AgreeAfter
    <3>3. open = {} /\ Cardinality(open) = 0 /\ status = "READY"
      BY <2>1, <3>2, OpenResults
         DEF ServerOK, ClientOK, Safe, CallInProgress
    <3>4. Agree(status, query_number)'
      BY <2>2, <3>2, <3>3 DEF Agree, InTransaction, serverVars
    <3> QED
      BY <3>2, <3>4, DataWhenEmpty
  <2> QED
    BY <1>12, <1>14, <1>17, <2>1, <2>2 DEF BeginReply
<1>18. CASE EndReply
  <2>1. call = "end" /\ call \in Calls /\ UNCHANGED <<peer, version>>
    BY <1>18 DEF EndReply, Calls
  <2>2. CASE /\ Received({"SUCCESS"}) /\ explicit_transaction' = 0
             /\ status' = "READY" /\ s2c' = Tail(s2c) /\ Return(MG_SUCCESS)
    <3>1. s2c # <<>> /\ Head(s2c).type = "SUCCESS" /\ Kind = "end"
          /\ phase = "reply"
      BY <2>1, <2>2, IdleKind DEF Received
    <3>2. s2c' = <<>> /\ (clean => srv = "READY")
      BY <1>13, <2>1, <2>2, <3>1 DEF AgreeAfter
    <3>3. clean' = clean
      BY <2>1, <2>2, <3>1 DEF TrackClean, Return, MG_ERROR_OOM, MG_SUCCESS
    <3>4. clean' => Agree(status, query_number)'
      BY <2>2, <3>2, <3>3 DEF Agree, serverVars
    <3> QED
      BY <3>2, <3>4, DataWhenEmpty
  <2> QED
    BY <1>12, <1>14, <1>18, <2>1, <2>2 DEF EndReply
<1>19. CASE AckReply
  <2>1. /\ Head(s2c).type = "SUCCESS" /\ status' = StatusAfterFailure
        /\ s2c # <<>> /\ s2c' = Tail(s2c) /\ Return(failure_status)
        /\ phase = "ack"
        /\ UNCHANGED <<transport, peer, explicit_transaction>>
    BY <1>12, <1>19 DEF AckReply
  <2>2. call \in Calls /\ Kind = "ack"
    BY <2>1 DEF ClientOK, Safe, CallInProgress, Kind
  <2>3. s2c' = <<>> /\ srv = "READY"
    BY <1>13, <2>1, <2>2 DEF AgreeAfter
  <2>4. clean' => explicit_transaction = 0
    BY <2>1, <2>2, CleanAfterAck
  <2>5. explicit_transaction = 0 => status' = "READY"
    BY <2>1, <2>2 DEF ClientOK, Safe, CallInProgress, StatusAfterFailure, Calls
  <2>6. clean' => Agree(status, query_number)'
    BY <2>1, <2>3, <2>4, <2>5 DEF Agree, serverVars
  <2> QED
    BY <2>3, <2>6, DataWhenEmpty
<1> QED
  BY <1>4, <1>5, <1>6, <1>7, <1>9, <1>10, <1>11, <1>15, <1>16, <1>17, <1>18, <1>19
     DEF Client, ClientNext, ClientCalls, ClientReplies

(* The first half of Data says nothing once a reply is there. *)
LEMMA DataWhenAnswered ==
  ASSUME Answered', NEW m, s2c'[Len(s2c')] = m,
         m.type = "SUCCESS" => AgreeAfter(m)'
  PROVE  Data'
BY DEF Data

(* A step of the server keeps the agreement. *)
LEMMA ServerDataStep ==
  ASSUME PairOK, Data, Server(ServerNext(version))
  PROVE  Data'
<1> SUFFICES ASSUME transport' = "open", peer' = "up" PROVE Data'
  BY DEF Data
<1> ClientOK /\ ServerOK /\ Flow
  BY DEF PairOK
<1> /\ UNCHANGED <<clientVars, clean>> /\ ServerNext(version)
  BY DEF Server
<1> /\ transport = "open" /\ Kind' = Kind
    /\ UNCHANGED <<version, status, explicit_transaction, query_number, clean>>
  BY ServerMessages DEF Server, clientVars, fieldVars, callVars, Kind, ClientOK,
     TypeOK
<1> /\ query_number \in Nat /\ explicit_transaction \in {0, 1}
  BY DEF ClientOK, TypeOK, FieldTypeOK
<1>1. /\ \A f \in {"list", "invalid"}, q \in Qids \cup {NoQid} :
           /\ Success(q, f, "absent") \in Response
           /\ Success(q, f, "absent").type = "SUCCESS"
           /\ Success(q, f, "absent").fields = f
           /\ Success(q, f, "absent").qid = q
           /\ Success(q, f, "absent").has_more = "absent"
      /\ \A c \in Codes : Failure(c) \in Response /\ Failure(c).type = "FAILURE"
  BY ResponsesTyped DEF Success, Failure, Resp
<1>2. NoQid \in Qids \cup {NoQid} /\ 0 \in Qids
      /\ (next_qid <= MaxQid => next_qid \in Qids)
  BY BoundsAssumption DEF ServerOK, ServerTypeOK, Qids
(* A request taken and answered with m. *)
<1>3. ASSUME NEW types, Takes(types), NEW m \in Response, Reply(m),
             Expected(m), pulling' = NoQid,
             srv' = "FAILED" <=> m.type = "FAILURE",
             m.type = "SUCCESS" => AgreeAfter(m)'
      PROVE  Data'
  <2>1. Answered' /\ s2c' = <<m>>
    BY <1>3, RequestAnswered
  <2>2. s2c'[Len(s2c')] = m
    BY <2>1
  <2> QED
    BY <1>3, <2>1, <2>2, DataWhenAnswered
<1>4. ASSUME NEW types, Takes(types)
      PROVE  /\ Requested /\ Asks(Head(c2s)) /\ Head(c2s).type \in types
             /\ clean /\ Kind # "ack" => Agree(status, query_number)
  <2>1. Requested /\ Asks(Head(c2s))
    BY <1>4, RequestTaken
  <2>2. ~Answered
    BY <2>1, NothingReceived DEF Requested
  <2> QED
    BY <1>4, <2>1, <2>2 DEF Data, Takes, Requested
<1>5. CASE SrvRun
  <2>1. Takes({"RUN"}) /\ pulling' = NoQid /\ srv' # "FAILED"
    BY <1>5 DEF SrvRun, Takes
  <2>2. PICK q \in Qids : Reply(Success(q, "list", "absent"))
    BY <1>2, <1>5 DEF SrvRun
  <2> DEFINE m == Success(q, "list", "absent")
  <2>3. /\ Kind = "run"
        /\ clean => Agree(status, query_number)
    BY <1>4, <2>1 DEF Asks
  <2>4. Expected(m) /\ m \in Response /\ m.type = "SUCCESS"
    BY <1>1, <2>3 DEF Expected
  <2>5. explicit_transaction = 0 => status = "READY"
    BY <2>3 DEF Kind, ClientOK, Safe, CallInProgress
  <2>6. ASSUME clean
        PROVE  Agree("EXECUTING", query_number + explicit_transaction)'
    <3>1. CASE explicit_transaction = 1
      <4>1. InTransaction /\ Cardinality(open) = query_number
        BY <2>3, <2>6, <3>1 DEF Agree
      <4>2. srv' = "TX_STREAMING" /\ open' = open \cup {next_qid}
        BY <1>5, <4>1 DEF SrvRun, InTransaction
      <4>3. next_qid \notin open /\ open' # {}
        BY <4>1, <4>2 DEF ServerOK, ServerTypeOK
      <4>4. Cardinality(open') = query_number + 1
        BY <4>1, <4>2, <4>3, OpenResults
      <4> QED
        BY <3>1, <4>2, <4>3, <4>4 DEF Agree, InTransaction
    <3>2. CASE explicit_transaction = 0
      <4>1. srv = "READY"
        BY <2>3, <2>5, <2>6, <3>2 DEF Agree
      <4>2. srv' = "STREAMING"
        BY <1>5, <4>1 DEF SrvRun, InTransaction
      <4> QED
        BY <3>2, <4>2 DEF Agree
    <3> QED
      BY <3>1, <3>2
  <2>7. AgreeAfter(m)'
    BY <2>3, <2>6 DEF AgreeAfter
  <2> HIDE DEF m
  <2> QED
    BY <1>3, <2>1, <2>2, <2>4, <2>7 DEF m
<1>6. CASE SrvBegin(version)
  <2> DEFINE m == Success(NoQid, "invalid", "absent")
  <2>1. Takes({"BEGIN"}) /\ pulling' = NoQid /\ srv' = "TX_READY" /\ Reply(m)
        /\ version = 4
    BY <1>6 DEF SrvBegin, Takes
  <2>2. Kind = "begin"
    BY <1>4, <2>1 DEF Asks
  <2>3. Expected(m) /\ m \in Response /\ m.type = "SUCCESS" /\ AgreeAfter(m)'
    BY <1>1, <1>2, <2>1, <2>2 DEF Expected, AgreeAfter
  <2> HIDE DEF m
  <2> QED
    BY <1>3, <2>1, <2>3
<1>7. CASE SrvEnd
  <2> DEFINE m == Success(NoQid, "invalid", "absent")
  <2>1. Takes({"COMMIT", "ROLLBACK"}) /\ pulling' = NoQid /\ srv' = "READY"
        /\ Reply(m)
    BY <1>7 DEF SrvEnd, Takes, Clear
  <2>2. Kind = "end"
    BY <1>4, <2>1 DEF Asks
  <2>3. Expected(m) /\ m \in Response /\ m.type = "SUCCESS" /\ AgreeAfter(m)'
    BY <1>1, <1>2, <2>1, <2>2 DEF Expected, AgreeAfter
  <2> HIDE DEF m
  <2> QED
    BY <1>3, <2>1, <2>3
<1>8. CASE SrvAcknowledge
  <2> DEFINE m == Success(NoQid, "invalid", "absent")
  <2>1. Takes({"RESET", "ACK_FAILURE"}) /\ pulling' = NoQid
        /\ srv' = "READY" /\ Reply(m)
    BY <1>8 DEF SrvAcknowledge, Takes, Clear
  <2>2. Kind = "ack"
    BY <1>4, <2>1 DEF Asks
  <2>3. Expected(m) /\ m \in Response /\ m.type = "SUCCESS" /\ AgreeAfter(m)'
    BY <1>1, <1>2, <2>1, <2>2 DEF Expected, AgreeAfter
  <2> HIDE DEF m
  <2> QED
    BY <1>3, <2>1, <2>3
<1>9. CASE SrvRefuse
  <2> DEFINE types == {"RUN", "PULL", "BEGIN", "COMMIT", "ROLLBACK"}
  <2>1. Takes(types) /\ pulling' = NoQid /\ srv' = "FAILED"
    BY <1>9 DEF SrvRefuse, Takes
  <2>2. Kind # "ack" /\ srv # "FAILED"
    BY <1>4, <2>1 DEF Asks, Requested
  <2>3. PICK c \in Codes : Reply(Failure(c))
    BY <1>9, <2>2 DEF SrvRefuse
  <2>4. Expected(Failure(c))
    BY <1>1, <2>2 DEF Expected
  <2> QED
    BY <1>1, <1>3, <2>1, <2>3, <2>4
<1>10. CASE SrvPull
  <2>1. Takes({"PULL"}) /\ UNCHANGED <<s2c, srv, open>>
    BY <1>10 DEF SrvPull
  <2>2. s2c' = <<>> /\ (clean => Agree(status, query_number))
    BY <1>4, <2>1 DEF Asks, Requested
  <2>3. clean' => Agree(status, query_number)'
    BY <2>1, <2>2 DEF Agree, InTransaction
  <2> QED
    BY <2>2, <2>3, DataWhenEmpty
(* A result that is streamed. *)
<1>11. ASSUME peer = "up", pulling # NoQid
       PROVE  /\ Streaming /\ Kind = "pull" /\ pulling \in open /\ status = "FETCHING"
              /\ pulling \in Qids /\ srv \in {"STREAMING", "TX_STREAMING"}
              /\ clean => Agree(status, query_number)
  <2>1. Streaming /\ ~Answered
    BY <1>11 DEF Flow, Quiet, Requested, Answered, Lost
  <2>2. Kind = "pull" /\ pulling \in open /\ pulling \in Qids
        /\ srv \in {"STREAMING", "TX_STREAMING"}
    BY <1>11, <2>1 DEF Streaming, ServerOK, ServerTypeOK
  <2>3. status = "FETCHING"
    BY <2>2 DEF Kind
  <2> QED
    BY <1>11, <2>1, <2>2, <2>3 DEF Data
<1>12. CASE SrvRecord
  <2>1. /\ Streaming /\ peer = "up" /\ pulling # NoQid
        /\ clean => Agree(status, query_number)
        /\ UNCHANGED serverVars
    BY <1>11, <1>12 DEF SrvRecord
  <2>2. ~Answered'
    BY <2>1 DEF Answered, serverVars
  <2>3. clean' => Agree(status, query_number)'
    BY <2>1 DEF Agree, InTransaction, serverVars
  <2> QED
    BY <2>2, <2>3 DEF Data
<1>13. CASE SrvPullFails
  <2>1. PICK c \in Codes : Reply(Failure(c))
    BY <1>13 DEF SrvPullFails
  <2>2. Answered' /\ s2c'[Len(s2c')] = Failure(c)
    BY <1>1, <1>13, <2>1, PullAnswered DEF SrvPullFails
  <2> QED
    BY <1>1, <2>2, DataWhenAnswered
<1>14. CASE SrvSummary
  <2>1. PICK h \in {"absent", "true", "false"} :
          /\ Reply(Success(pulling, "invalid", h))
          /\ h = "true" => pull_n = "some" /\ UNCHANGED <<open, srv>>
          /\ h # "true" =>
               /\ open' = open \ {pulling}
               /\ srv' = IF srv = "STREAMING" THEN "READY"
                         ELSE IF open \ {pulling} = {} THEN "TX_READY"
                         ELSE "TX_STREAMING"
    BY <1>14 DEF SrvSummary
  <2>2. /\ peer = "up" /\ pulling # NoQid /\ pulling' = NoQid
        /\ UNCHANGED <<transport, peer, c2s>>
    BY <1>14 DEF SrvSummary
  <2>3. /\ Kind = "pull" /\ pulling \in open /\ pulling \in Qids
        /\ srv \in {"STREAMING", "TX_STREAMING"} /\ status = "FETCHING"
        /\ clean => Agree(status, query_number)
    BY <1>11, <2>2
  <2>4. PICK m \in Response : /\ m = Success(pulling, "invalid", h)
                             /\ m.type = "SUCCESS" /\ m.has_more = h
    <3>1. Success(pulling, "invalid", h) \in Response
      BY <2>3, ResponsesTyped
    <3>2. /\ Success(pulling, "invalid", h).type = "SUCCESS"
          /\ Success(pulling, "invalid", h).has_more = h
      BY DEF Success, Resp
    <3> QED
      BY <3>1, <3>2
  <2>5. srv' # "FAILED"
    BY <2>1, <2>3
  <2>6. Answered' /\ s2c'[Len(s2c')] = m
    <3>1. Reply(m)
      BY <2>1, <2>4
    <3> QED
      BY <2>1, <2>2, <2>4, <2>5, <3>1, PullAnswered
  <2>7. ASSUME clean PROVE Agree(StatusAfter(m), LeftAfter(m))'
    <3>1. CASE h = "true"
      <4>1. StatusAfter(m)' = "EXECUTING" /\ LeftAfter(m)' = query_number
        BY <2>4, <3>1 DEF StatusAfter, LeftAfter
      <4> QED
        BY <2>1, <2>3, <2>7, <3>1, <4>1 DEF Agree, InTransaction
    <3>2. CASE h # "true" /\ explicit_transaction = 1
      <4>1. srv = "TX_STREAMING" /\ Cardinality(open) = query_number
        BY <2>3, <2>7, <3>2 DEF Agree, InTransaction
      <4>2. /\ Cardinality(open') = query_number - 1
            /\ query_number - 1 = 0 <=> open' = {}
        BY <2>1, <2>3, <3>2, <4>1, OpenResults
      <4>3. /\ LeftAfter(m)' = query_number - 1
            /\ StatusAfter(m)' = "READY" <=> query_number - 1 = 0
        BY <2>4, <3>2 DEF StatusAfter, LeftAfter
      <4>4. InTransaction'
        BY <2>1, <3>2, <4>1 DEF InTransaction
      <4> QED
        BY <3>2, <4>2, <4>3, <4>4 DEF Agree
    <3>3. CASE h # "true" /\ explicit_transaction = 0
      <4>1. srv = "STREAMING"
        BY <2>3, <2>7, <3>3 DEF Agree
      <4>2. StatusAfter(m)' = "READY"
        BY <2>4, <3>3 DEF StatusAfter
      <4> QED
        BY <2>1, <3>3, <4>1, <4>2 DEF Agree
    <3> QED
      BY <3>1, <3>2, <3>3
  <2>8. AgreeAfter(m)'
    BY <2>3, <2>7 DEF AgreeAfter
  <2> QED
    BY <2>6, <2>8, DataWhenAnswered
<1>15. ~SrvCloses
  BY DEF SrvCloses
<1> QED
  BY <1>5, <1>6, <1>7, <1>8, <1>9, <1>10, <1>12, <1>13, <1>14, <1>15
     DEF ServerNext, ServerAnswers

----------------------------------------------------------------------------
(* The columns of the rows. *)

(* Outside a transaction the server's replies are about the query 0, the   *)
(* only one; a result that executes has its columns.                       *)
AboutZero(s) == \A i \in 1 .. Len(s) : s[i].type # "FAILURE" => s[i].qid = 0

ColumnsKnown ==
  clean /\ transport = "open" =>
    /\ status \in {"EXECUTING", "FETCHING"} /\ call # "run" =>
         columns # NoColumns /\ (explicit_transaction = 0 => columns = 0)
    /\ explicit_transaction = 0 /\ Kind \in {"run", "pull"} => AboutZero(s2c)

ResultsOK == PairOK /\ Data /\ ColumnsKnown /\ RowsHaveColumns

LEMMA AboutZeroTail ==
  ASSUME NEW s \in Seq(Response), s # <<>>, AboutZero(s)
  PROVE  AboutZero(Tail(s)) /\ (Head(s).type # "FAILURE" => Head(s).qid = 0)
<1>1. /\ Len(s) \in Nat /\ Len(s) > 0 /\ Head(s) = s[1] /\ Len(Tail(s)) = Len(s) - 1
      /\ \A i \in 1 .. Len(s) - 1 : Tail(s)[i] = s[i + 1]
  OBVIOUS
<1> QED
  BY <1>1 DEF AboutZero

LEMMA AboutZeroAppend ==
  ASSUME NEW s \in Seq(Response), NEW m \in Response, AboutZero(s),
         m.type # "FAILURE" => m.qid = 0
  PROVE  AboutZero(Append(s, m))
<1>1. \A i \in 1 .. Len(Append(s, m)) : i \in 1 .. Len(s) \/ i = Len(Append(s, m))
  BY AppendedReply
<1> QED
  BY <1>1, AppendedReply DEF AboutZero

(* A step of the client keeps the columns. *)
LEMMA ClientColumnsStep ==
  ASSUME ResultsOK, Client(ClientNext)
  PROVE  ColumnsKnown' /\ RowsHaveColumns'
<1> USE DEF Calls
<1> PairOK /\ ClientOK /\ Flow /\ ColumnsKnown /\ RowsHaveColumns
  BY DEF ResultsOK, PairOK
<1> TrackClean /\ UNCHANGED serverVars /\ ClientNext
  BY DEF Client
<1> PairOK'
  BY PairClientStep
<1> /\ s2c \in Seq(Response) /\ status \in Statuses
    /\ explicit_transaction \in {0, 1} /\ transport \in {"open", "null"}
  BY DEF ClientOK, TypeOK, ChannelTypeOK, FieldTypeOK
<1>1. NoMessage.type # "RECORD" /\ AboutZero(<<>>)
  BY DEF NoMessage, Resp, AboutZero
<1>2. call \in Calls => message = NoMessage
  BY DEF ClientOK, CallLocals
<1>3. Idle => clean' = clean
  BY DEF TrackClean, Idle
(* Nothing is received or expected: only the columns of a result matter. *)
<1>4. ASSUME transport' = "open", Kind' \notin {"run", "pull"} \/ s2c' = <<>>,
             clean' /\ status' \in {"EXECUTING", "FETCHING"} /\ call' # "run" =>
               /\ columns' # NoColumns
               /\ explicit_transaction' = 0 => columns' = 0
      PROVE  ColumnsKnown'
  BY <1>1, <1>4 DEF ColumnsKnown
<1>5. transport' # "open" => ColumnsKnown'
  BY DEF ColumnsKnown
<1>6. message' = NoMessage => RowsHaveColumns'
  BY <1>1 DEF RowsHaveColumns
<1>7. CASE \E qa \in {"NULL", "given"} : mg_session_run(qa)
  <2>1. PICK qa \in {"NULL", "given"} : mg_session_run(qa)
    BY <1>7
  <2>2. RowsHaveColumns'
    BY <1>6, <2>1 DEF mg_session_run
  <2>3. ASSUME transport' = "open" PROVE ColumnsKnown'
    <3>1. call' = "run" /\ s2c' = s2c /\ transport = "open" /\ Idle
          /\ status # "FETCHING"
      BY <2>1, <2>3 DEF mg_session_run, SendAndWait, Wait, FatalFailure,
         mg_session_invalidate, RunRefused
    <3>2. s2c = <<>>
      BY <3>1, IdleKind DEF Flow, Quiet
    <3> QED
      BY <1>4, <2>3, <3>1, <3>2
  <2> QED
    BY <1>5, <2>2, <2>3
<1>8. CASE \E q \in Qids \cup {NoQid}, n \in {"all", "some"} : mg_session_pull(q, n)
  <2>1. PICK q \in Qids \cup {NoQid}, n \in {"all", "some"} : mg_session_pull(q, n)
    BY <1>8
  <2>2. RowsHaveColumns'
    BY <1>6, <2>1 DEF mg_session_pull
  <2>3. ASSUME transport' = "open" PROVE ColumnsKnown'
    <3>1. /\ s2c' = s2c /\ transport = "open" /\ Idle /\ status = "EXECUTING"
          /\ UNCHANGED <<columns, explicit_transaction>>
      BY <2>1, <2>3 DEF mg_session_pull, FatalFailure, mg_session_invalidate,
         PullRefused, Statuses
    <3>2. s2c = <<>>
      BY <3>1, IdleKind DEF Flow, Quiet
    <3>3. clean => columns # NoColumns /\ (explicit_transaction = 0 => columns = 0)
      BY <3>1 DEF ColumnsKnown, Idle
    <3> QED
      BY <1>3, <1>4, <2>3, <3>1, <3>2, <3>3
  <2> QED
    BY <1>5, <2>2, <2>3
<1>9. CASE mg_session_fetch \/ BadCall
  <2>1. /\ Idle /\ call' # "run" /\ (message' = message \/ message' = NoMessage)
        /\ UNCHANGED <<status, columns, explicit_transaction, transport, s2c>>
    BY <1>9 DEF mg_session_fetch, BadCall, Wait, Return, fieldVars, channelVars
  <2>2. Kind' = Kind
    BY <1>9, <2>1, IdleKind
       DEF mg_session_fetch, FetchRefused, BadCall, Wait, Return, Kind, Idle
  <2>3. ColumnsKnown'
    BY <1>3, <2>1, <2>2 DEF ColumnsKnown, Idle
  <2>4. RowsHaveColumns'
    BY <1>3, <1>6, <2>1 DEF RowsHaveColumns
  <2> QED
    BY <2>3, <2>4
<1>10. CASE \/ mg_session_begin_transaction
            \/ \E c \in BOOLEAN : mg_session_end_transaction(c)
  <2>1. PICK op \in {"begin", "end"}, t \in RequestTypes :
          SendAndWait(op, t, "NULL")
    BY <1>10 DEF mg_session_begin_transaction, mg_session_end_transaction,
       RequestTypes
  <2>2. status = "READY" /\ message' = NoMessage
    BY <1>10 DEF mg_session_begin_transaction, mg_session_end_transaction,
       BeginRefused, EndRefused, Statuses
  <2>3. ASSUME transport' = "open" PROVE ColumnsKnown'
    <3>1. status' = "READY" /\ call' = op /\ phase' = "reply"
      BY <2>1, <2>2, <2>3 DEF SendAndWait, Wait, FatalFailure,
         mg_session_invalidate
    <3>2. Kind' = op
      BY <3>1 DEF Kind
    <3> QED
      BY <1>4, <2>3, <3>1, <3>2
  <2> QED
    BY <1>5, <1>6, <2>2, <2>3
<1>11. CASE mg_session_destroy
  BY <1>5, <1>6, <1>11 DEF mg_session_destroy
<1>12. ASSUME call \in Calls, UNCHANGED message, NEW rc, FatalFailure(rc)
       PROVE  ColumnsKnown' /\ RowsHaveColumns'
  BY <1>2, <1>5, <1>6, <1>12 DEF FatalFailure, mg_session_invalidate
<1>13. ASSUME call \in Calls, UNCHANGED <<message, columns, explicit_transaction>>,
              handle_failure(Head(s2c))
       PROVE  ColumnsKnown' /\ RowsHaveColumns'
  <2>1. CASE /\ s2c' = Tail(s2c) /\ UNCHANGED <<status, transport>>
             /\ call' = call /\ phase' = "ack"
    <3>1. Kind' = "ack" /\ clean' = clean /\ transport = "open"
      BY <1>13, <2>1 DEF Kind, TrackClean, ClientOK, Safe, CallInProgress
    <3>2. ColumnsKnown'
      BY <1>4, <1>13, <2>1, <3>1 DEF ColumnsKnown
    <3> QED
      BY <1>2, <1>6, <1>13, <3>2
  <2> QED
    BY <1>12, <1>13, <2>1 DEF handle_failure, Wait
<1>14. CASE ReceiveFails
  BY <1>12, <1>14 DEF ReceiveFails, ClientOK, Safe, CallInProgress
<1>15. CASE RunReply
  <2>1. call = "run" /\ UNCHANGED <<message, explicit_transaction>>
    BY <1>15 DEF RunReply
  <2>2. CASE Received({"SUCCESS"}) /\ RunSucceeds(Head(s2c))
    <3>1. /\ s2c # <<>> /\ Head(s2c).type = "SUCCESS" /\ Kind = "run"
          /\ phase = "reply" /\ transport = "open"
      BY <2>1, <2>2, IdleKind DEF Received
    <3>2. Head(s2c).qid \in Qids
      BY <3>1, ReplyExpected DEF Expected
    <3>3. clean /\ explicit_transaction = 0 => Head(s2c).qid = 0
      BY <3>1, AboutZeroTail DEF ColumnsKnown
    <3>4. Head(s2c).qid # NoColumns
      BY <3>2 DEF Qids, NoColumns
    <3>5. CASE Return(MG_ERROR_OOM)
      <4>1. ~clean'
        BY <2>1, <3>1, <3>5 DEF TrackClean, Return
      <4> QED
        BY <1>2, <1>6, <2>1, <4>1 DEF ColumnsKnown
    <3>6. CASE columns' = Head(s2c).qid /\ Return(MG_SUCCESS)
               /\ status' = "EXECUTING"
      <4>1. clean' = clean /\ Kind' = "none"
        BY <2>1, <3>1, <3>6
           DEF TrackClean, Return, MG_SUCCESS, MG_ERROR_OOM, Kind
      <4> QED
        BY <1>2, <1>4, <1>5, <1>6, <2>1, <3>3, <3>4, <3>6, <4>1
    <3> QED
      BY <1>12, <2>1, <2>2, <3>5, <3>6 DEF RunSucceeds
  <2> QED
    BY <1>12, <1>13, <1>15, <2>1, <2>2 DEF RunReply, Unexpected
<1>16. CASE FetchReply
  <2>1. /\ call = "fetch" /\ UNCHANGED <<columns, explicit_transaction>>
        /\ status = "FETCHING" /\ transport = "open"
    BY <1>16 DEF FetchReply, ClientOK, Safe, CallInProgress
  <2>2. CASE Received({"RECORD", "SUCCESS"}) /\ message' = Head(s2c)
             /\ s2c' = Tail(s2c) /\ \E rc \in {0, 1} : Return(rc)
    <3>1. /\ s2c # <<>> /\ Head(s2c).type # "FAILURE" /\ Kind = "pull"
          /\ phase = "reply" /\ call' = "none"
      BY <2>1, <2>2, IdleKind DEF Received, Return
    <3>2. clean' = clean
      <4>1. ret' # MG_ERROR_OOM
        BY <2>2 DEF Return, MG_ERROR_OOM
      <4> QED
        BY <2>1, <3>1, <4>1 DEF TrackClean
    <3>3. /\ clean => columns # NoColumns /\ (explicit_transaction = 0 => columns = 0)
          /\ clean /\ explicit_transaction = 0 =>
               AboutZero(s2c') /\ Head(s2c).qid = 0
      BY <2>1, <2>2, <3>1, AboutZeroTail DEF ColumnsKnown
    <3>4. ColumnsKnown'
      BY <2>1, <3>2, <3>3 DEF ColumnsKnown
    <3>5. RowsHaveColumns'
      BY <2>1, <2>2, <3>2, <3>3 DEF RowsHaveColumns
    <3> QED
      BY <3>4, <3>5
  <2> QED
    BY <1>12, <1>13, <1>16, <2>1, <2>2 DEF FetchReply, Unexpected, Received
<1>17. CASE BeginReply
  <2>1. call = "begin" /\ UNCHANGED <<message, columns>> /\ status = "READY"
    BY <1>17 DEF BeginReply, ClientOK, Safe, CallInProgress
  <2>2. CASE \E rc : Return(rc) /\ UNCHANGED status
    <3>1. status' = "READY" /\ Kind' = "none"
      BY <2>1, <2>2 DEF Return, Kind
    <3> QED
      BY <1>2, <1>4, <1>5, <1>6, <2>1, <3>1
  <2> QED
    BY <1>12, <1>13, <1>17, <2>1, <2>2 DEF BeginReply, Unexpected
<1>18. CASE EndReply
  <2>1. call = "end" /\ UNCHANGED columns
    BY <1>18 DEF EndReply
  <2>2. CASE /\ Received({"SUCCESS"}) /\ message' = Head(s2c)
             /\ status' = "READY" /\ \E rc : Return(rc)
    <3>1. status' = "READY" /\ Kind' = "none" /\ message'.type # "RECORD"
      BY <2>1, <2>2 DEF Return, Kind, Received
    <3>2. RowsHaveColumns'
      BY <3>1 DEF RowsHaveColumns
    <3> QED
      BY <1>4, <1>5, <3>1, <3>2
  <2> QED
    BY <1>12, <1>13, <1>18, <2>1, <2>2 DEF EndReply, Unexpected
<1>19. CASE AckReply
  <2>1. /\ call \in Calls /\ phase = "ack"
        /\ UNCHANGED <<message, columns, explicit_transaction>>
    BY <1>19 DEF AckReply, ClientOK, Safe, CallInProgress
  <2>2. CASE status' = StatusAfterFailure /\ Return(failure_status)
    <3>1. clean' => explicit_transaction = 0
      BY <2>1, <2>2, CleanAfterAck
    <3>2. explicit_transaction = 0 => status' = "READY"
      BY <2>1, <2>2 DEF ClientOK, Safe, CallInProgress, StatusAfterFailure
    <3>3. Kind' = "none"
      BY <2>1, <2>2 DEF ClientOK, Safe, CallInProgress, StatusAfterFailure,
         Kind, Return
    <3>4. ColumnsKnown'
      BY <1>4, <1>5, <3>1, <3>2, <3>3
    <3> QED
      BY <1>2, <1>6, <2>1, <3>4
  <2> QED
    BY <1>12, <1>19, <2>1, <2>2 DEF AckReply
<1> QED
  BY <1>7, <1>8, <1>9, <1>10, <1>11, <1>14, <1>15, <1>16, <1>17, <1>18, <1>19
     DEF ClientNext, ClientCalls, ClientReplies

(* A step of the server keeps the columns. *)
LEMMA ServerColumnsStep ==
  ASSUME ResultsOK, Server(ServerNext(version))
  PROVE  ColumnsKnown' /\ RowsHaveColumns'
<1> PairOK /\ ClientOK /\ ServerOK /\ Flow /\ Data /\ ColumnsKnown /\ RowsHaveColumns
  BY DEF ResultsOK, PairOK
<1> ServerNext(version) /\ UNCHANGED <<clientVars, clean>>
  BY DEF Server
<1> /\ Kind' = Kind
    /\ UNCHANGED <<status, call, explicit_transaction, message, columns, clean,
                   transport>>
  BY ServerMessages DEF clientVars, fieldVars, callVars, Kind, ClientOK, TypeOK
<1>1. RowsHaveColumns'
  BY DEF RowsHaveColumns
<1> SUFFICES ASSUME clean, transport = "open", explicit_transaction = 0,
                    Kind \in {"run", "pull"}
             PROVE  AboutZero(s2c)'
  BY <1>1 DEF ColumnsKnown
<1> s2c \in Seq(Response) /\ AboutZero(s2c)
  BY DEF ClientOK, TypeOK, ChannelTypeOK, ColumnsKnown
<1>2. ASSUME NEW m \in Response, Reply(m), m.type # "FAILURE" => m.qid = 0
      PROVE  AboutZero(s2c)'
  <2>1. s2c' = Append(s2c, m)
    BY <1>2 DEF Reply
  <2> QED
    BY <1>2, <2>1, AboutZeroAppend
<1>3. \A c \in Codes : Failure(c) \in Response /\ Failure(c).type = "FAILURE"
  BY ResponsesTyped DEF Failure, Resp
<1>4. ASSUME NEW types, Takes(types)
      PROVE  Requested /\ Asks(Head(c2s)) /\ Head(c2s).type \in types
  BY <1>4, RequestTaken DEF Takes
<1>5. CASE SrvRun
  <2>1. Requested /\ Kind = "run" /\ peer = "up"
    BY <1>4, <1>5 DEF SrvRun, Asks, Takes
  <2>2. Agree(status, query_number)
    BY <2>1, NothingReceived DEF Requested, Data
  <2>3. status = "READY"
    BY <2>1 DEF Kind, ClientOK, Safe, CallInProgress
  <2>4. Reply(Success(0, "list", "absent"))
    BY <1>5, <2>2, <2>3 DEF SrvRun, Agree, InTransaction
  <2>5. 0 \in Qids
    BY BoundsAssumption DEF Qids
  <2>6. Success(0, "list", "absent") \in Response
        /\ Success(0, "list", "absent").qid = 0
    BY <2>5, ResponsesTyped DEF Success, Resp
  <2> QED
    BY <1>2, <2>4, <2>6
<1>6. CASE SrvBegin(version) \/ SrvEnd \/ SrvAcknowledge
  BY <1>4, <1>6 DEF SrvBegin, SrvEnd, SrvAcknowledge, Asks
<1>7. CASE SrvRefuse
  <2>1. Kind # "ack" /\ srv # "FAILED"
    BY <1>4, <1>7 DEF SrvRefuse, Asks, Requested
  <2>2. PICK c \in Codes : Reply(Failure(c))
    BY <1>7, <2>1 DEF SrvRefuse
  <2> QED
    BY <1>2, <1>3, <2>2
<1>8. CASE SrvPull
  BY <1>8 DEF SrvPull
<1>9. ASSUME peer = "up", pulling # NoQid
      PROVE  pulling = 0 /\ 0 \in Qids
  <2>1. Streaming /\ ~Answered
    BY <1>9 DEF Flow, Quiet, Requested, Answered, Lost
  <2>2. Agree(status, query_number) /\ Kind = "pull"
    BY <1>9, <2>1 DEF Data, Streaming
  <2>3. status = "FETCHING"
    BY <2>2 DEF Kind
  <2>4. srv = "STREAMING"
    BY <2>2, <2>3 DEF Agree
  <2> QED
    BY <1>9, <2>4, BoundsAssumption DEF ServerOK, Qids
<1>10. CASE SrvRecord
  <2>1. Reply(Record(0)) /\ 0 \in Qids
    BY <1>9, <1>10 DEF SrvRecord
  <2>2. Record(0) \in Response /\ Record(0).qid = 0
    BY <2>1, ResponsesTyped DEF Record, Resp
  <2> QED
    BY <1>2, <2>1, <2>2
<1>11. CASE SrvSummary
  <2>1. PICK h \in {"absent", "true", "false"} : Reply(Success(0, "invalid", h))
    BY <1>9, <1>11 DEF SrvSummary
  <2>2. Success(0, "invalid", h) \in Response /\ Success(0, "invalid", h).qid = 0
    BY <1>9, <1>11, <2>1, ResponsesTyped DEF SrvSummary, Success, Resp
  <2> QED
    BY <1>2, <2>1, <2>2
<1>12. CASE SrvPullFails
  BY <1>2, <1>3, <1>12 DEF SrvPullFails
<1>13. CASE SrvCloses
  BY <1>13 DEF SrvCloses
<1> QED
  BY <1>5, <1>6, <1>7, <1>8, <1>10, <1>11, <1>12, <1>13
     DEF ServerNext, ServerAnswers

LEMMA ResultsHold == Spec => []ResultsOK
<1>1. Init => ResultsOK
  <2> SUFFICES ASSUME Init PROVE ResultsOK
    OBVIOUS
  <2>1. PairOK
    BY PairInitOK DEF Init
  <2>2. Data
    BY NothingReceived DEF Init, ClientInit, ChannelInit, ServerInit, Data, Agree
  <2>3. ColumnsKnown
    BY DEF Init, ClientInit, ChannelInit, ColumnsKnown, Kind
  <2>4. RowsHaveColumns
    BY DEF Init, ClientInit, RowsHaveColumns, NoMessage, Resp
  <2> QED
    BY <2>1, <2>2, <2>3, <2>4 DEF ResultsOK
<1>2. ResultsOK /\ [Next]_vars => ResultsOK'
  <2> SUFFICES ASSUME ResultsOK, [Next]_vars PROVE ResultsOK'
    OBVIOUS
  <2> PairOK /\ Data
    BY DEF ResultsOK
  <2>1. CASE Client(ClientNext)
    <3>1. PairOK'
      BY <2>1, PairClientStep DEF Client
    <3> QED
      BY <2>1, <3>1, ClientDataStep, ClientColumnsStep DEF ResultsOK
  <2>2. CASE Server(ServerNext(version))
    <3>1. PairOK'
      BY <2>2, PairServerStep DEF Server
    <3> QED
      BY <2>2, <3>1, ServerDataStep, ServerColumnsStep DEF ResultsOK
  <2>3. CASE UNCHANGED vars
    <3>1. PairOK'
      BY <2>3, PairStutters DEF vars
    <3> USE DEF vars, clientVars, fieldVars, callVars, channelVars, serverVars
    <3>2. Kind' = Kind /\ (Answered' <=> Answered)
      BY <2>3 DEF Kind, Answered, EndsRecords, Expected
    <3>3. Data'
      <4>1. Agree(status, query_number)' <=> Agree(status, query_number)
        BY <2>3 DEF Agree, InTransaction
      <4>2. AgreeAfter(s2c[Len(s2c)])' <=> AgreeAfter(s2c[Len(s2c)])
        BY <2>3, <3>2 DEF AgreeAfter, Agree, StatusAfter, LeftAfter, InTransaction
      <4> QED
        BY <2>3, <3>2, <4>1, <4>2 DEF Data
    <3>4. ColumnsKnown'
      BY <2>3, <3>2 DEF ResultsOK, ColumnsKnown, AboutZero
    <3>5. RowsHaveColumns'
      BY <2>3 DEF ResultsOK, RowsHaveColumns
    <3> QED
      BY <3>1, <3>3, <3>4, <3>5 DEF ResultsOK
  <2> QED
    BY <2>1, <2>2, <2>3 DEF Next, Finished
<1> QED
  BY <1>1, <1>2, PTL DEF Spec

(* Between calls there is nothing to read, and the server is where the     *)
(* session takes it to be.                                                 *)
LEMMA AgreeBetweenCalls ==
  ASSUME ResultsOK, Idle, clean, peer = "up", status \in {"READY", "EXECUTING"}
  PROVE  Agree(status, query_number)
<1>1. ClientOK /\ Flow
  BY DEF ResultsOK, PairOK
<1>2. Kind = "none" /\ transport = "open"
  BY <1>1, IdleKind DEF ClientOK, TypeOK, ChannelTypeOK, Safe,
     BadIffNoTransport, Idle
<1>3. s2c = <<>>
  BY <1>1, <1>2 DEF Flow, Quiet
<1> QED
  BY <1>2, <1>3, NothingReceived DEF ResultsOK, Data

(* query_number counts the results the server holds open, whatever the     *)
(* number of queries and the order in which their results are pulled and   *)
(* exhausted, in every transaction in which nothing failed.                *)
THEOREM QueryCountIsServers == Spec => []CountMatchesServer
<1>1. ResultsOK => CountMatchesServer
  BY AgreeBetweenCalls DEF CountMatchesServer, Agree
<1> QED
  BY <1>1, ResultsHold, PTL

(* Outside a transaction the session and the server agree on whether a     *)
(* result is open, unless memory ran out in mg_session_run.                *)
THEOREM AutocommitIsServers == Spec => []AutocommitMatchesServer
<1>1. ResultsOK => AutocommitMatchesServer
  BY AgreeBetweenCalls DEF AutocommitMatchesServer, Agree
<1> QED
  BY <1>1, ResultsHold, PTL

(* A row the user holds has columns, those of its own query outside a      *)
(* transaction, as long as no error of an earlier call was survived.       *)
THEOREM RowsKeepColumns == Spec => []RowsHaveColumns
<1>1. ResultsOK => RowsHaveColumns
  BY DEF ResultsOK
<1> QED
  BY <1>1, ResultsHold, PTL

----------------------------------------------------------------------------
(* The end of a transaction. *)

(* The server holds more results open than n, if the transaction is still  *)
(* open there at all.                                                      *)
Ahead(n) == InTransaction => Cardinality(open) > n

(* The same once the reply m is read. *)
AheadAfter(m) ==
  /\ Kind = "run" => Ahead(query_number + 1)
  /\ Kind = "pull" => Ahead(LeftAfter(m))

(* In a transaction in which a call has failed the server's transaction is *)
(* gone, or has a result that query_number does not count.  Either way it  *)
(* cannot be ended.                                                        *)
Spoilt == explicit_transaction = 1 /\ ~clean

SpoiltOK ==
  transport = "open" /\ peer = "up" /\ Spoilt =>
    /\ Kind # "ack" /\ ~Answered => Ahead(query_number)
    /\ Answered /\ s2c[Len(s2c)].type = "SUCCESS" => AheadAfter(s2c[Len(s2c)])

(* This outlives the connection: a SUCCESS that ends a transaction may     *)
(* still be read when the server has closed.                               *)
NoEndReply ==
  transport = "open" /\ Kind = "end" /\ s2c # <<>> /\ ~clean =>
    s2c[Len(s2c)].type # "SUCCESS"

EndOK == ResultsOK /\ SpoiltOK /\ NoEndReply
(* Nothing received: only the first half of SpoiltOK says something. *)
LEMMA SpoiltWhenEmpty ==
  ASSUME s2c' = <<>>, Spoilt' /\ Kind' # "ack" => Ahead(query_number)'
  PROVE  SpoiltOK'
<1>1. ~Answered'
  BY DEF Answered, EndsRecords
<1> QED
  BY <1>1 DEF SpoiltOK

(* The second half, once a reply is there. *)
LEMMA SpoiltWhenAnswered ==
  ASSUME Answered', NEW m, s2c'[Len(s2c')] = m,
         Spoilt' /\ m.type = "SUCCESS" => AheadAfter(m)'
  PROVE  SpoiltOK'
BY DEF SpoiltOK

(* A failed call leaves the server ahead, and no later call catches up. *)
LEMMA ClientSpoiltStep ==
  ASSUME EndOK, Client(ClientNext)
  PROVE  SpoiltOK'
<1> SUFFICES ASSUME transport' = "open", peer' = "up" PROVE SpoiltOK'
  BY DEF SpoiltOK
<1> /\ PairOK /\ ClientOK /\ ServerOK /\ Flow /\ Data /\ SpoiltOK
    /\ (explicit_transaction = 1 => version = 4)
  BY DEF EndOK, ResultsOK, PairOK
<1> TrackClean /\ UNCHANGED serverVars
  BY DEF Client
<1> /\ status \in Statuses /\ query_number \in Nat /\ version \in {1, 4}
    /\ explicit_transaction \in {0, 1} /\ s2c \in Seq(Response)
    /\ Cardinality(open) \in Nat
  BY VersionsAssumption, OpenResults
     DEF ClientOK, TypeOK, FieldTypeOK, ChannelTypeOK
<1>1. ASSUME Idle PROVE clean' = clean
  BY <1>1 DEF TrackClean, Idle, Calls
<1>2. ASSUME Idle, transport = "open", peer = "up", Kind = "none", s2c' = s2c,
             UNCHANGED <<explicit_transaction, query_number>>
      PROVE  SpoiltOK'
  <2>1. s2c = <<>>
    BY <1>2 DEF Flow, Quiet
  <2>2. Spoilt => Ahead(query_number)
    BY <1>2, <2>1, NothingReceived DEF SpoiltOK
  <2>3. Spoilt' => Ahead(query_number)'
    BY <1>1, <1>2, <2>2 DEF Spoilt, Ahead, InTransaction, serverVars
  <2> QED
    BY <2>1, <2>3, <1>2, SpoiltWhenEmpty
<1>3. ASSUME NEW op, NEW t, NEW qa, SendAndWait(op, t, qa), Idle,
             status # "FETCHING",
             UNCHANGED <<explicit_transaction, query_number, peer>>
      PROVE  SpoiltOK'
  BY <1>2, <1>3, IdleKind
     DEF SendAndWait, FatalFailure, mg_session_invalidate
<1>4. ASSUME NEW qa \in {"NULL", "given"}, mg_session_run(qa) PROVE SpoiltOK'
  BY <1>3, <1>4 DEF mg_session_run, RunRefused
<1>5. CASE mg_session_begin_transaction
  BY <1>3, <1>5 DEF mg_session_begin_transaction, BeginRefused
<1>6. ASSUME NEW c \in BOOLEAN, mg_session_end_transaction(c) PROVE SpoiltOK'
  BY <1>3, <1>6 DEF mg_session_end_transaction, EndRefused
<1>7. ASSUME NEW q \in Qids \cup {NoQid}, NEW n \in {"all", "some"},
             mg_session_pull(q, n)
      PROVE  SpoiltOK'
  BY <1>2, <1>7, IdleKind
     DEF mg_session_pull, PullRefused, FatalFailure, mg_session_invalidate
<1>8. ASSUME Idle, Kind' = Kind,
             UNCHANGED <<version, explicit_transaction, query_number, channelVars>>
      PROVE  SpoiltOK'
  <2>1. Answered' <=> Answered
    BY <1>8 DEF Answered, EndsRecords, Expected, channelVars, serverVars
  <2>2. Spoilt' <=> Spoilt
    BY <1>1, <1>8 DEF Spoilt
  <2>3. /\ Ahead(query_number)' <=> Ahead(query_number)
        /\ AheadAfter(s2c[Len(s2c)])' <=> AheadAfter(s2c[Len(s2c)])
    BY <1>8 DEF AheadAfter, Ahead, LeftAfter, InTransaction, channelVars,
       serverVars
  <2> QED
    BY <1>8, <2>1, <2>2, <2>3 DEF SpoiltOK, channelVars
<1>9. CASE BadCall
  <2>1. Kind' = Kind
    BY <1>9, IdleKind DEF BadCall, Return, Kind, Idle, fieldVars
  <2> QED
    BY <1>8, <1>9, <2>1 DEF BadCall, fieldVars
<1>10. CASE mg_session_fetch
  <2>1. Kind' = Kind
    BY <1>10, IdleKind DEF mg_session_fetch, FetchRefused, Wait, Kind, Idle
  <2> QED
    BY <1>8, <1>10, <2>1 DEF mg_session_fetch, channelVars
<1>11. CASE mg_session_destroy \/ ReceiveFails
  BY <1>11 DEF mg_session_destroy, ReceiveFails, FatalFailure,
     mg_session_invalidate
<1>12. ~Unexpected /\ \A rc : ~FatalFailure(rc)
  BY DEF Unexpected, FatalFailure, mg_session_invalidate
(* The reply that ends the wait, read. *)
<1>13. ASSUME call \in Calls, s2c # <<>>, Head(s2c).type = "SUCCESS",
              s2c' = Tail(s2c), peer = "up"
       PROVE  /\ s2c' = <<>> /\ Expected(Head(s2c)) /\ AgreeAfter(Head(s2c))
              /\ Spoilt => AheadAfter(Head(s2c))
  <2>1. Kind # "none" /\ transport = "open"
    BY <1>13, IdleKind
  <2>2. /\ Tail(s2c) = <<>> /\ Head(s2c) = s2c[Len(s2c)] /\ Answered
        /\ Expected(Head(s2c))
    BY <1>13, <2>1, AnswerAlone
  <2> QED
    BY <1>13, <2>1, <2>2 DEF Data, SpoiltOK
(* A FAILURE is being acknowledged. *)
<1>14. ASSUME call \in Calls, Received({"FAILURE"}), handle_failure(Head(s2c)),
              UNCHANGED <<peer, version>>
       PROVE  SpoiltOK'
  <2>1. Kind' = "ack" /\ s2c' = Tail(s2c)
    BY <1>12, <1>14, FailureHandled DEF Received, handle_failure
  <2>2. s2c' = <<>>
    BY <1>14, <2>1, AnswerAlone, IdleKind DEF Received
  <2> QED
    BY <2>1, <2>2, SpoiltWhenEmpty
<1>15. CASE RunReply
  <2>1. call = "run" /\ call \in Calls /\ UNCHANGED <<peer, version>>
        /\ UNCHANGED explicit_transaction
    BY <1>15 DEF RunReply, Calls
  <2>2. CASE Received({"SUCCESS"}) /\ RunSucceeds(Head(s2c))
    <3>1. s2c' = Tail(s2c) /\ s2c # <<>> /\ Head(s2c).type = "SUCCESS"
          /\ Kind = "run" /\ phase = "reply"
      BY <1>12, <2>1, <2>2, IdleKind DEF RunSucceeds, Received
    <3>2. /\ s2c' = <<>> /\ (Spoilt => Ahead(query_number + 1))
          /\ clean => Agree("EXECUTING", query_number + explicit_transaction)
      BY <1>13, <2>1, <3>1 DEF AgreeAfter, AheadAfter
    <3>3. CASE Return(MG_ERROR_OOM) /\ UNCHANGED query_number
      <4>1. explicit_transaction = 1 /\ clean => Ahead(query_number)
        BY <3>2 DEF Agree, Ahead
      <4>2. explicit_transaction = 1 => Ahead(query_number)
        BY <3>2, <4>1 DEF Spoilt, Ahead
      <4>3. Spoilt' => Ahead(query_number)'
        BY <2>1, <3>3, <4>2 DEF Spoilt, Ahead, InTransaction, serverVars
      <4> QED
        BY <3>2, <4>3, SpoiltWhenEmpty
    <3>4. CASE /\ query_number' = QueryCounted /\ status' = "EXECUTING"
               /\ Return(MG_SUCCESS)
      <4>1. clean' = clean
        BY <2>1, <3>1, <3>4 DEF TrackClean, Return, MG_SUCCESS, MG_ERROR_OOM
      <4>2. explicit_transaction = 1 => query_number' = query_number + 1
        BY <3>4 DEF QueryCounted
      <4>3. Spoilt' => Ahead(query_number)'
        BY <2>1, <3>2, <4>1, <4>2 DEF Spoilt, Ahead, InTransaction, serverVars
      <4> QED
        BY <3>2, <4>3, SpoiltWhenEmpty
    <3> QED
      BY <1>12, <2>2, <3>3, <3>4 DEF RunSucceeds
  <2> QED
    BY <1>12, <1>14, <1>15, <2>1, <2>2 DEF RunReply
<1>16. CASE FetchReply
  <2>1. call = "fetch" /\ call \in Calls /\ UNCHANGED <<peer, version>>
        /\ UNCHANGED explicit_transaction
    BY <1>16 DEF FetchReply, Calls
  <2>2. CASE /\ Received({"RECORD"}) /\ s2c' = Tail(s2c) /\ Return(1)
             /\ UNCHANGED <<status, query_number, transport, c2s>>
    <3>1. Kind = "pull" /\ s2c # <<>> /\ Head(s2c).type = "RECORD"
          /\ phase = "reply"
      BY <2>1, <2>2, IdleKind DEF Received
    <3>2. Kind' = "pull"
      BY <2>1, <2>2 DEF Kind, Return, ClientOK, Safe, CallInProgress
    <3>3. /\ Answered' <=> Answered
          /\ Answered => s2c'[Len(s2c')] = s2c[Len(s2c)]
      BY <2>1, <2>2, <3>1, <3>2, RecordTaken
    <3>4. Spoilt' <=> Spoilt
      BY <2>1, <2>2, <3>1
         DEF Spoilt, TrackClean, Return, MG_ERROR_OOM, MG_SUCCESS
    <3>5. /\ Ahead(query_number)' <=> Ahead(query_number)
          /\ Answered => (AheadAfter(s2c[Len(s2c)])' <=> AheadAfter(s2c[Len(s2c)]))
      BY <2>1, <2>2, <3>1, <3>2, <3>3 DEF AheadAfter, Ahead, LeftAfter,
         InTransaction, serverVars
    <3> QED
      BY <2>1, <2>2, <3>1, <3>2, <3>3, <3>4, <3>5 DEF SpoiltOK
  <2>3. CASE /\ Received({"SUCCESS"}) /\ FetchSummary(Head(s2c))
             /\ s2c' = Tail(s2c) /\ Return(0) /\ UNCHANGED <<transport, c2s>>
    <3>1. s2c # <<>> /\ Head(s2c).type = "SUCCESS" /\ Kind = "pull"
          /\ phase = "reply"
      BY <2>1, <2>3, IdleKind DEF Received
    <3>2. /\ s2c' = <<>> /\ Expected(Head(s2c))
          /\ Spoilt => Ahead(LeftAfter(Head(s2c)))
      BY <1>13, <2>1, <2>3, <3>1 DEF AheadAfter
    <3>3. clean' = clean
      BY <2>1, <2>3, <3>1 DEF TrackClean, Return, MG_ERROR_OOM, MG_SUCCESS
    <3>4. explicit_transaction = 1 => query_number' = LeftAfter(Head(s2c))
      <4>1. /\ Head(s2c).has_more \in {"absent", "true", "false"}
            /\ Head(s2c).has_more = "true" => version = 4
        <5>1. Head(s2c) \in Response
          BY <3>1
        <5> QED
          BY <3>1, <3>2, <5>1 DEF Expected, Response
      <4> QED
        BY <2>3, <4>1 DEF FetchSummary, LeftAfter
    <3>5. Spoilt' => Ahead(query_number)'
      BY <2>1, <3>2, <3>3, <3>4 DEF Spoilt, Ahead, InTransaction, serverVars
    <3> QED
      BY <3>2, <3>5, SpoiltWhenEmpty
  <2> QED
    BY <1>12, <1>14, <1>16, <2>1, <2>2, <2>3 DEF FetchReply
<1>17. CASE BeginReply
  <2>1. call = "begin" /\ call \in Calls /\ UNCHANGED <<peer, version>>
    BY <1>17 DEF BeginReply, Calls
  <2>2. CASE /\ Received({"SUCCESS"}) /\ s2c' = Tail(s2c) /\ Return(MG_SUCCESS)
    <3>1. s2c # <<>> /\ Head(s2c).type = "SUCCESS" /\ phase = "reply"
      BY <1>17, <2>2 DEF Received, BeginReply
    <3>2. s2c' = <<>>
      BY <1>13, <2>1, <2>2, <3>1
    <3>3. clean'
      BY <2>1, <2>2, <3>1 DEF TrackClean, Return, MG_SUCCESS, MG_ERROR_OOM
    <3> QED
      BY <3>2, <3>3, SpoiltWhenEmpty DEF Spoilt
  <2> QED
    BY <1>12, <1>14, <1>17, <2>1, <2>2 DEF BeginReply
<1>18. CASE EndReply
  <2>1. call = "end" /\ call \in Calls /\ UNCHANGED <<peer, version>>
    BY <1>18 DEF EndReply, Calls
  <2>2. CASE /\ Received({"SUCCESS"}) /\ explicit_transaction' = 0
             /\ s2c' = Tail(s2c)
    <3>1. s2c' = <<>>
      BY <1>13, <2>1, <2>2 DEF Received
    <3> QED
      BY <2>2, <3>1, SpoiltWhenEmpty DEF Spoilt
  <2> QED
    BY <1>12, <1>14, <1>18, <2>1, <2>2 DEF EndReply
<1>19. CASE AckReply
  <2>1. /\ Head(s2c).type = "SUCCESS" /\ s2c # <<>> /\ s2c' = Tail(s2c)
        /\ phase = "ack" /\ UNCHANGED peer
    BY <1>12, <1>19 DEF AckReply
  <2>2. call \in Calls /\ Kind = "ack"
    BY <2>1 DEF ClientOK, Safe, CallInProgress, Kind
  <2>3. s2c' = <<>> /\ srv = "READY"
    BY <1>13, <2>1, <2>2 DEF AgreeAfter
  <2>4. Ahead(query_number)'
    BY <2>3 DEF Ahead, InTransaction, serverVars
  <2> QED
    BY <2>3, <2>4, SpoiltWhenEmpty
<1> QED
  BY <1>4, <1>5, <1>6, <1>7, <1>9, <1>10, <1>11, <1>15, <1>16, <1>17, <1>18, <1>19
     DEF Client, ClientNext, ClientCalls, ClientReplies
(* The server ends no transaction that a failed call has spoilt. *)
LEMMA ServerSpoiltStep ==
  ASSUME EndOK, Server(ServerNext(version))
  PROVE  SpoiltOK' /\ NoEndReply'
<1> SUFFICES ASSUME transport' = "open" PROVE SpoiltOK' /\ NoEndReply'
  BY DEF SpoiltOK, NoEndReply
<1> /\ PairOK /\ ClientOK /\ ServerOK /\ Flow /\ Data /\ SpoiltOK /\ NoEndReply
  BY DEF EndOK, ResultsOK, PairOK
<1> /\ UNCHANGED <<clientVars, clean>> /\ ServerNext(version)
  BY DEF Server
<1> /\ transport = "open" /\ Kind' = Kind
    /\ UNCHANGED <<version, status, explicit_transaction, query_number, clean, call>>
  BY ServerMessages DEF Server, clientVars, fieldVars, callVars, Kind, ClientOK,
     TypeOK
<1> /\ query_number \in Nat /\ explicit_transaction \in {0, 1}
    /\ Cardinality(open) \in Nat /\ s2c \in Seq(Response)
  BY OpenResults DEF ClientOK, TypeOK, FieldTypeOK, ChannelTypeOK
<1> Spoilt' <=> Spoilt
  BY DEF Spoilt
<1>1. /\ \A f \in {"list", "invalid"}, q \in Qids \cup {NoQid} :
           /\ Success(q, f, "absent") \in Response
           /\ Success(q, f, "absent").type = "SUCCESS"
           /\ Success(q, f, "absent").fields = f
           /\ Success(q, f, "absent").qid = q
           /\ Success(q, f, "absent").has_more = "absent"
      /\ \A c \in Codes : Failure(c) \in Response /\ Failure(c).type = "FAILURE"
  BY ResponsesTyped DEF Success, Failure, Resp
<1>2. NoQid \in Qids \cup {NoQid} /\ 0 \in Qids
      /\ (next_qid <= MaxQid => next_qid \in Qids)
  BY BoundsAssumption DEF ServerOK, ServerTypeOK, Qids
(* A request taken and answered with m. *)
<1>3. ASSUME NEW types, Takes(types), NEW m \in Response, Reply(m),
             Expected(m), pulling' = NoQid,
             srv' = "FAILED" <=> m.type = "FAILURE",
             Spoilt /\ m.type = "SUCCESS" => AheadAfter(m)',
             Kind = "end" /\ m.type = "SUCCESS" => clean
      PROVE  SpoiltOK' /\ NoEndReply'
  <2>1. Answered' /\ s2c' = <<m>>
    BY <1>3, RequestAnswered
  <2>2. s2c'[Len(s2c')] = m
    BY <2>1
  <2>3. SpoiltOK'
    BY <1>3, <2>1, <2>2, SpoiltWhenAnswered
  <2>4. NoEndReply'
    BY <1>3, <2>2 DEF NoEndReply
  <2> QED
    BY <2>3, <2>4
<1>4. ASSUME NEW types, Takes(types)
      PROVE  /\ Requested /\ Asks(Head(c2s)) /\ Head(c2s).type \in types
             /\ peer = "up" /\ peer' = "up"
             /\ Spoilt /\ Kind # "ack" => Ahead(query_number)
  <2>1. Requested /\ Asks(Head(c2s))
    BY <1>4, RequestTaken
  <2>2. ~Answered
    BY <2>1, NothingReceived DEF Requested
  <2> QED
    BY <1>4, <2>1, <2>2 DEF SpoiltOK, Takes, Requested
<1>5. CASE SrvRun
  <2>1. Takes({"RUN"}) /\ pulling' = NoQid /\ srv' # "FAILED"
    BY <1>5 DEF SrvRun, Takes
  <2>2. PICK q \in Qids : Reply(Success(q, "list", "absent"))
    BY <1>2, <1>5 DEF SrvRun
  <2> DEFINE m == Success(q, "list", "absent")
  <2>3. Kind = "run" /\ (Spoilt => Ahead(query_number))
    BY <1>4, <2>1 DEF Asks
  <2>4. Expected(m) /\ m \in Response /\ m.type = "SUCCESS"
    BY <1>1, <2>3 DEF Expected
  <2>5. ASSUME Spoilt PROVE Ahead(query_number + 1)'
    <3>1. CASE srv = "READY"
      BY <1>5, <3>1 DEF SrvRun, InTransaction, Ahead
    <3>2. CASE InTransaction
      <4>1. srv' = "TX_STREAMING" /\ open' = open \cup {next_qid}
        BY <1>5, <3>2 DEF SrvRun, InTransaction
      <4>2. next_qid \notin open
        BY <3>2 DEF ServerOK, ServerTypeOK
      <4>3. Cardinality(open') = Cardinality(open) + 1
        BY <4>1, <4>2, OpenResults
      <4> QED
        BY <2>3, <2>5, <3>2, <4>3 DEF Ahead
    <3> QED
      BY <1>5, <3>1, <3>2 DEF SrvRun
  <2>6. Spoilt => AheadAfter(m)'
    BY <2>3, <2>5 DEF AheadAfter
  <2> HIDE DEF m
  <2> QED
    BY <1>3, <2>1, <2>2, <2>3, <2>4, <2>6 DEF m
<1>6. CASE SrvBegin(version) \/ SrvEnd \/ SrvAcknowledge
  <2> DEFINE m == Success(NoQid, "invalid", "absent")
  <2>1. PICK types : /\ Takes(types) /\ pulling' = NoQid /\ srv' # "FAILED" /\ Reply(m)
                     /\ types \in {{"BEGIN"}, {"COMMIT", "ROLLBACK"},
                                   {"RESET", "ACK_FAILURE"}}
                     /\ "BEGIN" \in types => version = 4
    BY <1>6 DEF SrvBegin, SrvEnd, SrvAcknowledge, Takes, Clear
  <2>2. Kind \in {"begin", "end", "ack"} /\ (Kind = "begin" => version = 4)
    BY <1>4, <2>1 DEF Asks
  <2>3. Expected(m) /\ m \in Response /\ m.type = "SUCCESS"
    BY <1>1, <1>2, <2>2 DEF Expected
  <2>4. AheadAfter(m)'
    BY <2>2 DEF AheadAfter
  <2>5. ASSUME Kind = "end" PROVE clean
    <3>1. srv = "TX_READY"
      BY <1>4, <1>6, <2>5 DEF SrvBegin, SrvEnd, SrvAcknowledge, Asks
    <3>2. open = {} /\ Cardinality(open) = 0 /\ InTransaction
      BY <3>1, OpenResults DEF ServerOK, InTransaction
    <3>3. explicit_transaction = 1
      BY <2>5 DEF Kind, ClientOK, Safe, CallInProgress
    <3>4. Spoilt => Ahead(query_number)
      BY <1>4, <2>1, <2>5
    <3> QED
      BY <3>2, <3>3, <3>4 DEF Spoilt, Ahead
  <2> HIDE DEF m
  <2> QED
    BY <1>3, <2>1, <2>3, <2>4, <2>5
<1>7. CASE SrvRefuse
  <2> DEFINE types == {"RUN", "PULL", "BEGIN", "COMMIT", "ROLLBACK"}
  <2>1. Takes(types) /\ pulling' = NoQid /\ srv' = "FAILED"
    BY <1>7 DEF SrvRefuse, Takes
  <2>2. Kind # "ack" /\ srv # "FAILED"
    BY <1>4, <2>1 DEF Asks, Requested
  <2>3. PICK c \in Codes : Reply(Failure(c))
    BY <1>7, <2>2 DEF SrvRefuse
  <2>4. Expected(Failure(c))
    BY <1>1, <2>2 DEF Expected
  <2> QED
    BY <1>1, <1>3, <2>1, <2>3, <2>4
<1>8. CASE SrvPull
  <2>1. Takes({"PULL"}) /\ UNCHANGED <<s2c, srv, open>>
    BY <1>8 DEF SrvPull
  <2>2. s2c' = <<>> /\ (Spoilt => Ahead(query_number))
    BY <1>4, <2>1 DEF Asks, Requested
  <2>3. Spoilt' => Ahead(query_number)'
    BY <2>1, <2>2 DEF Ahead, InTransaction
  <2>4. SpoiltOK'
    BY <2>2, <2>3, SpoiltWhenEmpty
  <2> QED
    BY <2>2, <2>4 DEF NoEndReply
(* A result that is streamed: the session does not end its transaction. *)
<1>9. ASSUME peer = "up", pulling # NoQid
      PROVE  /\ Streaming /\ Kind = "pull" /\ pulling \in open
             /\ pulling \in Qids /\ srv \in {"STREAMING", "TX_STREAMING"}
             /\ Spoilt => Ahead(query_number)
             /\ NoEndReply'
  <2>1. Streaming /\ ~Answered
    BY <1>9 DEF Flow, Quiet, Requested, Answered, Lost
  <2>2. Kind = "pull" /\ pulling \in open /\ pulling \in Qids
        /\ srv \in {"STREAMING", "TX_STREAMING"}
    BY <1>9, <2>1 DEF Streaming, ServerOK, ServerTypeOK
  <2> QED
    BY <1>9, <2>1, <2>2 DEF SpoiltOK, NoEndReply
<1>10. CASE SrvRecord
  <2>1. /\ peer = "up" /\ pulling # NoQid /\ UNCHANGED serverVars /\ NoEndReply'
        /\ Spoilt => Ahead(query_number)
    BY <1>9, <1>10 DEF SrvRecord
  <2>2. ~Answered'
    BY <1>10, <2>1 DEF Answered, serverVars, SrvRecord
  <2>3. Spoilt' => Ahead(query_number)'
    BY <2>1 DEF Ahead, InTransaction, serverVars
  <2> QED
    BY <2>1, <2>2, <2>3 DEF SpoiltOK
<1>11. CASE SrvPullFails
  <2>1. PICK c \in Codes : Reply(Failure(c))
    BY <1>11 DEF SrvPullFails
  <2>2. Answered' /\ s2c'[Len(s2c')] = Failure(c)
    BY <1>1, <1>11, <2>1, PullAnswered DEF SrvPullFails
  <2>3. SpoiltOK'
    BY <1>1, <2>2, SpoiltWhenAnswered
  <2> QED
    BY <1>9, <1>11, <2>3 DEF SrvPullFails
<1>12. CASE SrvSummary
  <2>1. PICK h \in {"absent", "true", "false"} :
          /\ Reply(Success(pulling, "invalid", h))
          /\ h = "true" => pull_n = "some" /\ UNCHANGED <<open, srv>>
          /\ h # "true" =>
               /\ open' = open \ {pulling}
               /\ srv' = IF srv = "STREAMING" THEN "READY"
                         ELSE IF open \ {pulling} = {} THEN "TX_READY"
                         ELSE "TX_STREAMING"
    BY <1>12 DEF SrvSummary
  <2>2. /\ peer = "up" /\ pulling # NoQid /\ pulling' = NoQid
        /\ UNCHANGED <<transport, peer, c2s>>
    BY <1>12 DEF SrvSummary
  <2>3. /\ Kind = "pull" /\ pulling \in open /\ pulling \in Qids
        /\ srv \in {"STREAMING", "TX_STREAMING"}
        /\ Spoilt => Ahead(query_number)
    BY <1>9, <2>2
  <2>4. PICK m \in Response : /\ m = Success(pulling, "invalid", h)
                             /\ m.type = "SUCCESS" /\ m.has_more = h
    <3>1. Success(pulling, "invalid", h) \in Response
      BY <2>3, ResponsesTyped
    <3>2. /\ Success(pulling, "invalid", h).type = "SUCCESS"
          /\ Success(pulling, "invalid", h).has_more = h
      BY DEF Success, Resp
    <3> QED
      BY <3>1, <3>2
  <2>5. srv' # "FAILED"
    BY <2>1, <2>3
  <2>6. Answered' /\ s2c'[Len(s2c')] = m
    <3>1. Reply(m)
      BY <2>1, <2>4
    <3> QED
      BY <2>1, <2>2, <2>4, <2>5, <3>1, PullAnswered
  <2>7. ASSUME Spoilt PROVE Ahead(LeftAfter(m))'
    <3>1. CASE h = "true"
      <4>1. LeftAfter(m)' = query_number
        BY <2>4, <3>1 DEF LeftAfter
      <4> QED
        BY <2>1, <2>3, <2>7, <3>1, <4>1 DEF Ahead, InTransaction
    <3>2. CASE h # "true"
      <4>1. LeftAfter(m)' = query_number - 1
        BY <2>4, <2>7, <3>2 DEF LeftAfter, Spoilt
      <4>2. Cardinality(open') = Cardinality(open) - 1
        BY <2>1, <2>3, <3>2, OpenResults
      <4>3. InTransaction' => InTransaction
        BY <2>1, <2>3, <3>2 DEF InTransaction
      <4> QED
        BY <2>3, <2>7, <4>1, <4>2, <4>3 DEF Ahead
    <3> QED
      BY <3>1, <3>2
  <2>8. Spoilt => AheadAfter(m)'
    BY <2>3, <2>7 DEF AheadAfter
  <2>9. SpoiltOK'
    BY <2>6, <2>8, SpoiltWhenAnswered
  <2> QED
    BY <1>9, <2>2, <2>9
<1>13. CASE SrvCloses
  <2>1. peer' = "down" /\ s2c' = s2c
    BY <1>13 DEF SrvCloses
  <2> QED
    BY <2>1 DEF SpoiltOK, NoEndReply
<1> QED
  BY <1>5, <1>6, <1>7, <1>8, <1>10, <1>11, <1>12, <1>13
     DEF ServerNext, ServerAnswers

(* No step of the client makes such a reply of one that is there: it is    *)
(* read before the next request is sent.                                   *)
LEMMA ClientEndStep ==
  ASSUME EndOK, Client(ClientNext)
  PROVE  NoEndReply'
<1> SUFFICES ASSUME transport' = "open", Kind' = "end", s2c' # <<>>, ~clean'
             PROVE  s2c'[Len(s2c')].type # "SUCCESS"
  BY DEF NoEndReply
<1> /\ PairOK /\ ClientOK /\ Flow /\ NoEndReply /\ PairOK'
  BY PairClientStep DEF EndOK, ResultsOK, PairOK, Client
<1> TrackClean /\ UNCHANGED serverVars /\ ClientNext
  BY DEF Client
<1>1. call' = "end" /\ phase' # "ack"
  BY DEF Kind
<1>2. CASE \E c \in BOOLEAN : mg_session_end_transaction(c)
  <2>1. Idle /\ status = "READY" /\ s2c' = s2c /\ transport = "open"
    BY <1>1, <1>2 DEF mg_session_end_transaction, EndRefused, SendAndWait,
       FatalFailure, mg_session_invalidate, Return, ClientOK, TypeOK,
       FieldTypeOK, Statuses
  <2> QED
    BY <2>1, IdleKind DEF Flow, Quiet
<1>3. CASE ~(\E c \in BOOLEAN : mg_session_end_transaction(c))
  BY <1>1, <1>3
     DEF ClientNext, ClientCalls, ClientReplies, mg_session_run, mg_session_pull,
         mg_session_fetch, mg_session_begin_transaction, mg_session_destroy,
         BadCall, SendAndWait, Wait, Return, FatalFailure, ReceiveFails, RunReply,
         RunSucceeds, FetchReply, BeginReply, EndReply, AckReply, handle_failure,
         Unexpected
<1> QED
  BY <1>2, <1>3
LEMMA EndHolds == Spec => []EndOK
<1>1. Init /\ ResultsOK => EndOK
  BY DEF Init, ClientInit, ChannelInit, EndOK, SpoiltOK, Spoilt, NoEndReply
<1>2. EndOK /\ ResultsOK' /\ [Next]_vars => EndOK'
  <2> SUFFICES ASSUME EndOK, ResultsOK', [Next]_vars PROVE SpoiltOK' /\ NoEndReply'
    BY DEF EndOK
  <2>1. CASE Client(ClientNext)
    BY <2>1, ClientSpoiltStep, ClientEndStep
  <2>2. CASE Server(ServerNext(version))
    BY <2>2, ServerSpoiltStep
  <2>3. CASE UNCHANGED vars
    <3> USE DEF vars, clientVars, fieldVars, callVars, channelVars, serverVars
    <3>1. Kind' = Kind /\ (Answered' <=> Answered) /\ (Spoilt' <=> Spoilt)
      BY <2>3 DEF Kind, Answered, EndsRecords, Expected, Spoilt
    <3>2. /\ Ahead(query_number)' <=> Ahead(query_number)
          /\ AheadAfter(s2c[Len(s2c)])' <=> AheadAfter(s2c[Len(s2c)])
      BY <2>3, <3>1 DEF AheadAfter, Ahead, LeftAfter, InTransaction
    <3> QED
      BY <2>3, <3>1, <3>2 DEF EndOK, SpoiltOK, NoEndReply
  <2> QED
    BY <2>1, <2>2, <2>3 DEF Next, Finished
<1> QED
  BY <1>1, <1>2, ResultsHold, PTL DEF Spec

(* In an explicit transaction of any length, with any number of results    *)
(* open in any order, and however often its calls failed before: if commit *)
(* or rollback returns 0, no call of the transaction had failed.           *)
THEOREM EndedWholeHolds == Spec => EndedWhole
<1>1. EndOK /\ [Next]_vars =>
        [call = "end" /\ call' = "none" /\ ret' = MG_SUCCESS => clean]_vars
  <2> SUFFICES ASSUME EndOK, Next, call = "end", call' = "none",
                      ret' = MG_SUCCESS
               PROVE  clean
    OBVIOUS
  <2> PairOK /\ ClientOK /\ Flow /\ NoEndReply
    BY DEF EndOK, ResultsOK, PairOK
  <2>1. ClientNext
    BY DEF Next, Client, Server, clientVars, callVars, Finished
  <2>2. \A rc : FatalFailure(rc) => rc = MG_SUCCESS
    BY DEF FatalFailure, Return
  <2>3. Received({"SUCCESS"})
    <3>1. ReceiveFails \/ EndReply \/ AckReply
      BY <2>1 DEF ClientNext, ClientCalls, ClientReplies, mg_session_run,
         mg_session_pull, mg_session_fetch, mg_session_begin_transaction,
         mg_session_end_transaction, mg_session_destroy, BadCall, Idle,
         RunReply, FetchReply, BeginReply
    <3>2. ~ReceiveFails
      BY <2>2, ErrorsTyped DEF ReceiveFails, MG_SUCCESS
    <3>3. ~AckReply
      BY <2>2 DEF AckReply, Return, ClientOK, CallLocals, MG_SUCCESS,
         MG_ERROR_PROTOCOL_VIOLATION
    <3>4. ~handle_failure(Head(s2c)) /\ ~Unexpected
      BY <2>2, ErrorsTyped DEF handle_failure, Unexpected, Wait, MG_SUCCESS,
         MG_ERROR_PROTOCOL_VIOLATION, RequestTypes
    <3> QED
      BY <3>1, <3>2, <3>3, <3>4 DEF EndReply
  <2>4. Kind = "end" /\ transport = "open" /\ s2c # <<>>
        /\ Head(s2c).type = "SUCCESS"
    BY <2>3, IdleKind DEF Received, Calls
  <2>5. Head(s2c) = s2c[Len(s2c)]
    BY <2>4, AnswerAlone
  <2> QED
    BY <2>4, <2>5 DEF NoEndReply
<1> QED
  BY <1>1, EndHolds, PTL DEF Spec, EndedWhole


=============================================================================
