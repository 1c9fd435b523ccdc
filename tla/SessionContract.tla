--------------------------- MODULE SessionContract ---------------------------
(***************************************************************************)
(* What mgclient.h promises a program about one session, with no server    *)
(* and no messages in sight: which calls are possible in which status,     *)
(* which status and result each may leave behind, and that a session lost  *)
(* stays lost.  AnyServer implements it whatever the peer does; so do      *)
(* BoltSystem and CppClient.                                               *)
(***************************************************************************)
EXTENDS Integers

VARIABLES
  st,      \* mg_session_status
  tx,      \* 1 in an explicit transaction, else 0
  busy,    \* the call in progress, "none", or "destroyed"
  got,     \* what the last mg_result holds: "nothing", "row", "summary"
  result   \* what the last call returned

cvars == <<st, tx, busy, got, result>>

MG_ERROR_BAD_CALL == -15

CInit ==
  /\ st = "READY" /\ tx = 0 /\ busy = "none"
  /\ got = "nothing" /\ result = 0

(* The statuses from which a call may start. *)
Possible(op) ==
  \/ op = "run"   /\ st = "READY"
  \/ op = "run"   /\ st = "EXECUTING" /\ tx = 1
  \/ op = "pull"  /\ st = "EXECUTING"
  \/ op = "fetch" /\ st = "FETCHING"
  \/ op = "begin" /\ st = "READY" /\ tx = 0
  \/ op = "end"   /\ st = "READY" /\ tx = 1

Start(op) ==
  /\ busy = "none"
  /\ Possible(op)
  /\ busy' = op
  /\ got' = "nothing"
  /\ UNCHANGED <<st, tx, result>>

(* A call returns, with status s, transaction flag t and result kind g. *)
Returns(s, t, g) ==
  /\ st' = s /\ tx' = t /\ got' = g /\ busy' = "none"
  /\ result' \in Int

Succeeds(s, t, g) == Returns(s, t, g) /\ result' = 0
Fails(s, t) == Returns(s, t, "nothing") /\ result' < 0

(* The connection is given up: the call returns an error and says so. *)
Loses == Returns("BAD", tx, "nothing") /\ result' # 0

Refuses ==
  /\ busy = "none"
  /\ \E op \in {"run", "pull", "fetch", "begin", "end"} : ~Possible(op)
  /\ Returns(st, tx, got) /\ result' = MG_ERROR_BAD_CALL

Run ==
  /\ busy = "run"
  /\ \/ Succeeds("EXECUTING", tx, "nothing")
     \/ Fails(st, tx)
     \/ Loses

(* mg_session_pull does not wait. *)
Pull ==
  /\ busy = "none" /\ st = "EXECUTING"
  /\ Succeeds("FETCHING", tx, "nothing") \/ Loses

Fetch ==
  /\ busy = "fetch"
  /\ \/ Returns("FETCHING", tx, "row") /\ result' = 1
     \/ \E s \in {"READY", "EXECUTING"} : Succeeds(s, tx, "summary")
     \/ \E s \in {"READY", "BAD"} : Fails(s, tx)

Begin ==
  /\ busy = "begin"
  /\ \/ Succeeds("READY", 1, "nothing")
     \/ Fails("READY", 0)
     \/ Loses

End ==
  /\ busy = "end"
  /\ \/ Succeeds("READY", 0, "summary")
     \/ Fails("READY", 1)
     \/ Loses

(* A call may also lose the connection while it sends its request. *)
LosesAtOnce ==
  /\ busy = "none"
  /\ \E op \in {"run", "begin", "end"} : Possible(op)
  /\ Loses

Destroy ==
  /\ busy = "none"
  /\ busy' = "destroyed"
  /\ got' = "nothing"
  /\ UNCHANGED <<st, tx, result>>

CNext ==
  \/ \E op \in {"run", "fetch", "begin", "end"} : Start(op)
  \/ Run \/ Pull \/ Fetch \/ Begin \/ End
  \/ LosesAtOnce \/ Refuses \/ Destroy

CSpec == CInit /\ [][CNext]_cvars

==============================================================================
