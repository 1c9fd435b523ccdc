------------------------------ MODULE CppClient ------------------------------
(***************************************************************************)
(* The C++ class Client of mgclient.hpp: its methods as sequences of calls *)
(* of the C session (MgSession), talking to a conforming server            *)
(* (BoltServer).  What a method does next depends on nothing but the       *)
(* return value of the last call, so a method is a program counter.        *)
(*                                                                         *)
(* The requests of the C++ client carry no map of the user's except the    *)
(* parameters of RUN, so BEGIN and PULL fit into one chunk and fail to be  *)
(* sent only with MG_ERROR_SEND_FAILED.                                    *)
(***************************************************************************)
EXTENDS MgSession, BoltServer

VARIABLES
  pc,        \* the method in progress, "none" between methods
  columns_,  \* Client::columns_: the query they name
  out        \* the last method and what it returned

wrapperVars == <<pc, columns_, out>>
vars == <<clientVars, channelVars, serverVars, wrapperVars>>

Draining == {"FetchOne", "DiscardAll", "FetchAll"}

Out(method, result) == [method |-> method, result |-> result]

(* The private constructor, from Connect, around a session mg_connect made. *)
Init ==
  /\ ClientInit
  /\ ServerInit
  /\ pc = "none"
  /\ columns_ = NoColumns
  /\ out = Out("Connect", "client")

----------------------------------------------------------------------------
(* A call of the C library that is refused. *)
Refused(refused) ==
  /\ Idle
  /\ refused
  /\ Return(MG_ERROR_BAD_CALL)
  /\ UNCHANGED <<fieldVars, channelVars>>

(* The call just made waits for the server, or ended with one of these. *)
UnlessReturns(codes) == call' # "none" \/ ret' \in codes

Enter(method) == pc = "none" /\ Idle /\ pc' = method
                 /\ UNCHANGED <<columns_, out>>
Leave(method, result) == pc' = "none" /\ out' = Out(method, result)
                         /\ UNCHANGED <<clientVars, channelVars>>

(* Client::Execute: mg_session_run ... *)
ExecuteRun ==
  /\ Enter("Execute")
  /\ mg_session_run("NULL") \/ Refused(RunRefused)

(* ... then mg_session_pull, unless the status was negative ... *)
ExecutePull ==
  /\ pc = "Execute" /\ Idle
  /\ ret >= 0
  /\ pc' = "Pull"
  /\ \/ mg_session_pull(NoQid, "all")
        /\ UnlessReturns({MG_SUCCESS, MG_ERROR_SEND_FAILED})
     \/ Refused(PullRefused)
  /\ UNCHANGED <<columns_, out>>

(* Mutant: what mg_session_pull returned is not looked at. *)
ExecuteIgnoresPull ==
  \/ pc = "Execute" /\ Idle /\ ret < 0 /\ Leave("Execute", "false")
     /\ UNCHANGED columns_
  \/ pc = "Pull" /\ Idle /\ Leave("Execute", "true") /\ columns_' = columns

(* Mutant: columns_ is filled once and not cleared. *)
ExecuteKeepsColumns ==
  \/ pc \in {"Execute", "Pull"} /\ Idle /\ ret < 0 /\ Leave("Execute", "false")
     /\ UNCHANGED columns_
  \/ pc = "Pull" /\ Idle /\ ret >= 0 /\ Leave("Execute", "true")
     /\ columns_' = IF columns_ = NoColumns THEN columns ELSE columns_

(* ... and the columns are copied if that was sent. *)
ExecuteReturns ==
  \/ /\ pc \in {"Execute", "Pull"} /\ Idle
     /\ ret < 0
     /\ Leave("Execute", "false")
     /\ UNCHANGED columns_
  \/ /\ pc = "Pull" /\ Idle
     /\ ret >= 0
     /\ columns_' = columns
     /\ Leave("Execute", "true")

(* mg_session_fetch, from FetchOne. *)
Fetch == mg_session_fetch \/ Refused(FetchRefused)

DrainStart == /\ \E method \in Draining : Enter(method)
              /\ Fetch

(* FetchOne throws for three errors, has a row, or has nothing: at the end *)
(* of the result and for every other error.                                *)
FetchOne ==
  CASE ret \in {MG_ERROR_CLIENT_ERROR, MG_ERROR_TRANSIENT_ERROR,
                MG_ERROR_DATABASE_ERROR} -> "throw"
    [] ret = 1 -> "row"
    [] OTHER   -> "nullopt"

(* Mutant: the loops go on until an exception or the end of the result. *)
LoopsUnlessDone == pc \in {"DiscardAll", "FetchAll"} /\ ret # 0
                   /\ FetchOne # "throw"

(* The loops of DiscardAll and FetchAll. *)
Loops == pc \in {"DiscardAll", "FetchAll"} /\ FetchOne = "row"

DrainAgain ==
  /\ pc \in Draining /\ Idle
  /\ Loops
  /\ Fetch
  /\ UNCHANGED wrapperVars

DrainReturns ==
  /\ pc \in Draining /\ Idle
  /\ ~Loops
  /\ Leave(pc, FetchOne)
  /\ UNCHANGED columns_

TransactionCall ==
  \/ /\ Enter("Begin")
     /\ \/ mg_session_begin_transaction
           /\ UnlessReturns({MG_ERROR_SEND_FAILED})
        \/ Refused(BeginRefused)
  \/ /\ Enter("End")
     /\ (\E c \in BOOLEAN : mg_session_end_transaction(c)) \/ Refused(EndRefused)

TransactionReturns ==
  /\ pc \in {"Begin", "End"} /\ Idle
  /\ Leave(pc, IF ret = 0 THEN "true" ELSE "false")
  /\ UNCHANGED columns_

(* ~Client. *)
Destroy ==
  /\ pc = "none"
  /\ mg_session_destroy
  /\ UNCHANGED wrapperVars

----------------------------------------------------------------------------
(* The steps within a method, and the program's choice of the next one. *)
MethodSteps ==
  /\ \/ ExecutePull \/ ExecuteReturns
     \/ DrainAgain \/ DrainReturns \/ TransactionReturns
     \/ ClientReplies /\ UNCHANGED wrapperVars
  /\ UNCHANGED serverVars

ProgramCalls ==
  /\ ExecuteRun \/ DrainStart \/ TransactionCall \/ Destroy
  /\ UNCHANGED serverVars

ServerSteps == ServerNext(version) /\ UNCHANGED <<clientVars, wrapperVars>>

Finished == call = "destroyed" /\ UNCHANGED vars

Next == MethodSteps \/ ProgramCalls \/ ServerSteps \/ Finished

(* The thread in a method runs on; the server answers or closes, and ends  *)
(* a result after any number of records.                                   *)
Spec ==
  /\ Init /\ [][Next]_vars
  /\ WF_vars(MethodSteps)
  /\ WF_vars(ServerAnswers(version) /\ UNCHANGED <<clientVars, wrapperVars>>)

----------------------------------------------------------------------------
(* Execute returns true only with the result on its way: the session is    *)
(* fetching, and the columns of this result have been taken over.  A send  *)
(* that fails within a string makes mg_session_run return 1, which Execute *)
(* takes for success; the session is BAD then, and mg_session_pull refuses.*)
ExecuteMeansFetching ==
  out = Out("Execute", "true") /\ pc = "none" /\ call # "destroyed" =>
    status = "FETCHING" /\ columns_ # NoColumns /\ columns_ = columns

(* A row that FetchOne returns is one of the query whose columns           *)
(* GetColumns() names, in a transaction too, and after queries that failed *)
(* or ran out of memory before.                                            *)
RowsMatchColumns ==
  out = Out("FetchOne", "row") /\ pc = "none" /\ call # "destroyed" =>
    message.type = "RECORD" /\ message.qid = columns_

(* Once FetchOne has returned nullopt or thrown, or one of the loops has   *)
(* ended, the next statement can be executed ("until FetchOne method       *)
(* returns std::nullopt"), unless the connection is lost.                  *)
DrainedCanExecute ==
  out.method \in Draining /\ out.result # "row" /\ pc = "none" =>
    status = "BAD" \/ ~RunRefused

(* Every method returns: DiscardAll and FetchAll stop, whatever becomes of *)
(* the server and of the session while they loop.                          *)
MethodsReturn == pc # "none" ~> pc = "none"

(* mgclient.hpp on FetchAll: "Fetches all results."  When it returns data  *)
(* the result came to its end, or there was none to fetch.                 *)
FetchAllIsAll ==
  out = Out("FetchAll", "nullopt") /\ pc = "none" =>
    ret \in {MG_SUCCESS, MG_ERROR_BAD_CALL}

=============================================================================
