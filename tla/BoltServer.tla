----------------------------- MODULE BoltServer -----------------------------
(***************************************************************************)
(* A server that keeps to the Bolt protocol, as far as mgclient relies on  *)
(* it.  The server is not part of the repository: this module is read off  *)
(* the requests mgclient.c sends, the replies it accepts and the servers   *)
(* tests/client.cpp plays.                                                 *)
(*                                                                         *)
(* The server takes one request at a time.  It may refuse any of them with *)
(* a FAILURE, after which it only listens to the acknowledgement           *)
(* (ACK_FAILURE in version 1, RESET in version 4) and returns to READY     *)
(* with no result and no transaction open.                                 *)
(***************************************************************************)
EXTENDS BoltChannel

VARIABLES
  srv,       \* "READY", "STREAMING", "TX_READY", "TX_STREAMING", "FAILED"
  open,      \* results not yet exhausted
  last,      \* the last executed statement
  next_qid,  \* the identifier of the next statement of a transaction
  pulling,   \* the result being streamed, or NoQid
  pull_n     \* how many records its PULL asked for

serverVars == <<srv, open, last, next_qid, pulling, pull_n>>

ServerTypeOK ==
  /\ srv \in {"READY", "STREAMING", "TX_READY", "TX_STREAMING", "FAILED"}
  /\ open \subseteq Qids
  /\ last \in Qids \cup {NoQid}
  /\ next_qid \in 0 .. MaxQid + 1
  /\ pulling \in Qids \cup {NoQid}
  /\ pull_n \in {"all", "some"}

ServerInit ==
  /\ srv = "READY"
  /\ open = {}
  /\ last = NoQid
  /\ next_qid = 0
  /\ pulling = NoQid
  /\ pull_n = "all"

InTransaction == srv \in {"TX_READY", "TX_STREAMING"}

(* Nothing is delivered to a client that has closed its end. *)
Reply(m) == s2c' = IF transport = "open" THEN Append(s2c, m) ELSE s2c

Takes(types) ==
  /\ peer = "up"
  /\ pulling = NoQid
  /\ c2s # <<>>
  /\ Head(c2s).type \in types
  /\ c2s' = Tail(c2s)
  /\ UNCHANGED <<transport, peer>>

(* Back to READY: the end of a transaction, a RESET. *)
Clear ==
  /\ srv' = "READY"
  /\ open' = {}
  /\ last' = NoQid
  /\ next_qid' = 0

SrvRun ==
  /\ Takes({"RUN"})
  /\ \/ /\ srv = "READY"
        /\ srv' = "STREAMING"
        /\ open' = {0}
        /\ last' = 0
        /\ Reply(Success(0, "list", "absent"))
        /\ UNCHANGED next_qid
     \/ /\ InTransaction
        /\ next_qid <= MaxQid
        /\ srv' = "TX_STREAMING"
        /\ open' = open \cup {next_qid}
        /\ last' = next_qid
        /\ next_qid' = next_qid + 1
        /\ Reply(Success(next_qid, "list", "absent"))
  /\ UNCHANGED <<pulling, pull_n>>

SrvPull ==
  LET q == IF Head(c2s).qid = NoQid THEN last ELSE Head(c2s).qid IN
  /\ Takes({"PULL"})
  /\ srv \in {"STREAMING", "TX_STREAMING"}
  /\ q \in open
  /\ pulling' = q
  /\ pull_n' = Head(c2s).n
  /\ UNCHANGED <<srv, open, last, next_qid, s2c>>

SrvRecord ==
  /\ peer = "up"
  /\ pulling # NoQid
  /\ Len(s2c) < MaxInFlight
  /\ Reply(Record(pulling))
  /\ UNCHANGED <<serverVars, transport, peer, c2s>>

(* The end of a batch: the result is exhausted, or has more. *)
SrvSummary ==
  /\ peer = "up"
  /\ pulling # NoQid
  /\ \/ /\ pull_n = "some"
        /\ Reply(Success(pulling, "invalid", "true"))
        /\ UNCHANGED <<open, srv>>
     \/ /\ \E h \in {"absent", "false"} : Reply(Success(pulling, "invalid", h))
        /\ open' = open \ {pulling}
        /\ srv' = IF srv = "STREAMING" THEN "READY"
                  ELSE IF open \ {pulling} = {} THEN "TX_READY"
                  ELSE "TX_STREAMING"
  /\ pulling' = NoQid
  /\ pull_n' = "all"
  /\ UNCHANGED <<last, next_qid, transport, peer, c2s>>

(* The query fails while its records are produced. *)
SrvPullFails ==
  /\ peer = "up"
  /\ pulling # NoQid
  /\ \E c \in Codes : Reply(Failure(c))
  /\ srv' = "FAILED"
  /\ pulling' = NoQid
  /\ pull_n' = "all"
  /\ UNCHANGED <<open, last, next_qid, transport, peer, c2s>>

(* BEGIN is unknown to a server that speaks version 1. *)
SrvBegin(version) ==
  /\ version = 4
  /\ Takes({"BEGIN"})
  /\ srv = "READY"
  /\ srv' = "TX_READY"
  /\ Reply(Success(NoQid, "invalid", "absent"))
  /\ UNCHANGED <<open, last, next_qid, pulling, pull_n>>

SrvEnd ==
  /\ Takes({"COMMIT", "ROLLBACK"})
  /\ srv = "TX_READY"
  /\ Clear
  /\ Reply(Success(NoQid, "invalid", "absent"))
  /\ UNCHANGED <<pulling, pull_n>>

SrvAcknowledge ==
  /\ Takes({"RESET", "ACK_FAILURE"})
  /\ Clear
  /\ Reply(Success(NoQid, "invalid", "absent"))
  /\ UNCHANGED <<pulling, pull_n>>

(* Any request may fail; one that is out of place does. *)
SrvRefuse ==
  /\ Takes({"RUN", "PULL", "BEGIN", "COMMIT", "ROLLBACK"})
  /\ srv' = "FAILED"
  /\ \E c \in Codes :
       Reply(IF srv = "FAILED" THEN Resp("GARBAGE")  \* IGNORED, which the
                               ELSE Failure(c))      \* decoder rejects
  /\ UNCHANGED <<open, last, next_qid, pulling, pull_n>>

SrvCloses ==
  /\ peer = "up"
  /\ peer' = "down"
  /\ c2s' = <<>>
  /\ UNCHANGED <<serverVars, transport, s2c>>

ServerAnswers(version) ==
  \/ SrvRun \/ SrvPull \/ SrvBegin(version) \/ SrvEnd \/ SrvAcknowledge \/ SrvRefuse
  \/ SrvSummary \/ SrvPullFails

ServerNext(version) == ServerAnswers(version) \/ SrvRecord \/ SrvCloses

=============================================================================
