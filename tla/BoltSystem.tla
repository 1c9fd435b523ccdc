----------------------------- MODULE BoltSystem -----------------------------
(***************************************************************************)
(* The client of MgSession talking to the conforming server of BoltServer. *)
(*                                                                         *)
(* clean is a history variable: no call of the current explicit            *)
(* transaction, or since the last acknowledged failure outside one,        *)
(* returned an error that the session survived (a FAILURE, or memory       *)
(* running out in mg_session_run).                                         *)
(***************************************************************************)
EXTENDS MgSession, BoltServer, FiniteSets

VARIABLE clean

vars == <<clientVars, channelVars, serverVars, clean>>

Init == ClientInit /\ ServerInit /\ clean = TRUE

(* A transaction starts clean; outside one, the RESET or ACK_FAILURE that  *)
(* answers a FAILURE wipes out what an earlier error left behind.          *)
TrackClean ==
  clean' = IF call \in Calls /\ call' = "none"
           THEN CASE phase = "ack" -> explicit_transaction = 0
                  [] phase = "reply" /\ ret' = MG_ERROR_OOM -> FALSE
                  [] call = "begin" /\ ret' = MG_SUCCESS -> TRUE
                  [] OTHER -> clean
           ELSE clean

Client(A) == A /\ TrackClean /\ UNCHANGED serverVars
Server(A) == A /\ UNCHANGED <<clientVars, clean>>

Finished == call = "destroyed" /\ UNCHANGED vars

Next == \/ Client(ClientNext)
        \/ Server(ServerNext(version))
        \/ Finished

Spec == Init /\ [][Next]_vars

(***************************************************************************)
(* Fairness.  A call in progress takes its next step when it can: the      *)
(* client's thread is scheduled.  The server answers a request it has, or  *)
(* closes, and ends a batch that it streams, although it may send any      *)
(* number of records first.                                                *)
(***************************************************************************)
Fairness ==
  /\ WF_vars(Client(ClientReplies))
  /\ WF_vars(Server(ServerAnswers(version)))

FairSpec == Spec /\ Fairness

----------------------------------------------------------------------------
(* Requests and replies never get out of step: between calls, unless a     *)
(* pulled result is being fetched, nothing is under way in either          *)
(* direction, so the next reply received is the reply to the next request. *)
(* This holds after failures and after an out-of-memory return too.        *)
InStep ==
  Idle /\ status \in {"READY", "EXECUTING"} =>
    c2s = <<>> /\ s2c = <<>> /\ (peer = "up" => pulling = NoQid)

(* At most one request is unanswered: the client never sends one before    *)
(* the reply to the previous one is read (a PULL is answered by the        *)
(* summary that ends its records).                                         *)
OneRequestOutstanding ==
  peer = "up" /\ transport = "open" =>
    Len(c2s) + (IF pulling # NoQid THEN 1 ELSE 0)
      + Cardinality({i \in 1 .. Len(s2c) : s2c[i].type # "RECORD"}) <= 1

(* Against a conforming server the session is lost only to the connection, *)
(* to memory or to a request that cannot be encoded: no reply the protocol *)
(* allows is taken for a protocol violation.                               *)
LostOnlyToEnvironment ==
  [][ status # "BAD" /\ status' = "BAD" =>
        \/ peer = "down"
        \/ ret' \in {MG_ERROR_OOM, MG_ERROR_INVALID_VALUE,
                     MG_ERROR_SIZE_EXCEEDED} ]_vars

(* Between calls of a transaction in which nothing failed, query_number is *)
(* the number of results the server holds open, the transaction is open on *)
(* the server, and the session is READY exactly when no result is left.    *)
CountMatchesServer ==
  Idle /\ explicit_transaction = 1 /\ clean /\ peer = "up"
       /\ status \in {"READY", "EXECUTING"} =>
    /\ InTransaction
    /\ query_number = Cardinality(open)
    /\ (status = "READY") <=> (open = {})

(* Outside a transaction the session and the server agree on whether a     *)
(* result is open, unless memory ran out in mg_session_run.                *)
AutocommitMatchesServer ==
  Idle /\ explicit_transaction = 0 /\ clean /\ peer = "up" =>
    /\ status = "EXECUTING" => srv = "STREAMING"
    /\ status = "READY" => srv = "READY"

(* When mg_session_commit_transaction or _rollback_transaction returns 0,  *)
(* no call of the transaction had failed: all the queries of it that were  *)
(* reported to have run belong to the transaction the server ended, and    *)
(* none does that was not.  After a FAILURE the queries of the session run *)
(* outside the transaction, which the RESET has ended, and after a run     *)
(* that ran out of memory the server holds a result the client does not    *)
(* know of; in both cases no commit may be taken for a success.            *)
EndedWhole ==
  [][ call = "end" /\ call' = "none" /\ ret' = MG_SUCCESS => clean ]_vars

(* A row the user holds always comes with columns, and outside a           *)
(* transaction they are those of its own query: no call between the run    *)
(* and the last row, and no earlier result, has replaced or destroyed them.*)
(* With several results open in a transaction there is one list for all,   *)
(* that of the last run.                                                   *)
RowsHaveColumns ==
  clean /\ message.type = "RECORD" =>
    /\ columns # NoColumns
    /\ explicit_transaction = 0 => columns = message.qid

(* Every call returns, whatever the server answers. *)
CallsReturn == call \in Calls ~> call \notin Calls

----------------------------------------------------------------------------
(* What the documentation says and the code does not keep. *)

(* mgclient.h: "Every run will be part of that transaction until its       *)
(* explicitly ended."  While the session is in an explicit transaction so  *)
(* is the server.                                                          *)
TransactionUntilEnded ==
  Idle /\ explicit_transaction = 1 /\ peer = "up" /\ status \in {"READY", "EXECUTING"}
    => InTransaction

=============================================================================
