------------------------------- MODULE Connect -------------------------------
(***************************************************************************)
(* mg_connect_ca, from the parameters to a READY session, run by several   *)
(* threads of one process.  What the threads share is the process's table  *)
(* of file descriptors: a descriptor is a number, handed out lowest first, *)
(* and closing one frees the number for the next socket() of any thread.   *)
(*                                                                         *)
(* Each thread connects once and then destroys its session.  A step is a   *)
(* system or library call that can block or fail, with the code up to the  *)
(* next one.  What the operating system, OpenSSL, the user's trust         *)
(* callback and the server answer is open.                                 *)
(***************************************************************************)
EXTENDS Integers, FiniteSets

CONSTANTS
  Threads,       \* threads that call mg_connect
  MaxFd,         \* bound: descriptors are 0 .. MaxFd
  MaxAddrs,      \* bound: addresses getaddrinfo returns for a host
  Params         \* the mg_session_params the threads may be given

ASSUME BoundsAssumption == MaxFd \in Nat /\ MaxAddrs \in Nat \ {0}

(* The parameters mg_connect tells apart: which strings are given. *)
ParamRecords == [host : BOOLEAN, address : BOOLEAN, username : BOOLEAN,
                 password : BOOLEAN, sslcert : BOOLEAN, sslkey : BOOLEAN,
                 sslmode : {"DISABLE", "REQUIRE"}, trust_callback : BOOLEAN]

ASSUME ParamsAssumption == Params \subseteq ParamRecords

VARIABLES
  owner,     \* descriptor -> the thread whose socket it is, or Free
  params,    \* thread -> its parameters
  pc,        \* thread -> where it is in mg_connect_ca
  addrs,     \* thread -> addresses not yet tried
  tsockfd,   \* thread -> local of init_tcp_connection
  sockfd,    \* thread -> local of mg_connect_ca
  transport, \* thread -> descriptor of session->transport, or Null
  status,    \* thread -> session->status once it is set
  version,   \* thread -> session->version, 0 before the handshake
  session,   \* thread -> the out parameter: "unset" (as the caller left it) or "set"
  ret,       \* thread -> the status to be returned
  foreign,   \* history: a thread closed a socket that is another thread's
  twice,     \* history: a descriptor was closed that was closed already
  refused,   \* history: a trust callback refused a peer
  aborted    \* abort() was reached

vars == <<owner, params, pc, addrs, tsockfd, sockfd, transport, status, version,
          session, ret, foreign, twice, refused, aborted>>

Fds  == 0 .. MaxFd
Null == -1
Free == "free"

ASSUME ThreadsAssumption == Free \notin Threads

MG_ERROR_SEND_FAILED == -1
MG_ERROR_RECV_FAILED == -2
MG_ERROR_OOM == -3
MG_ERROR_DECODING_FAILED == -6
MG_ERROR_NETWORK_FAILURE == -8
MG_ERROR_BAD_PARAMETER == -9
MG_ERROR_PROTOCOL_VIOLATION == -10
MG_ERROR_CLIENT_ERROR == -11
MG_ERROR_SSL_ERROR == -17
MG_ERROR_TRUST_CALLBACK == -18
MG_ERROR_SOCKET == -100

Init ==
  /\ owner = [f \in Fds |-> Free]
  /\ params \in [Threads -> Params]
  /\ pc = [t \in Threads |-> "mg_session_init"]
  /\ addrs = [t \in Threads |-> 0]
  /\ tsockfd = [t \in Threads |-> MG_ERROR_SOCKET]
  /\ sockfd = [t \in Threads |-> -1]
  /\ transport = [t \in Threads |-> Null]
  /\ status = [t \in Threads |-> "none"]
  /\ version = [t \in Threads |-> 0]
  /\ session = [t \in Threads |-> "unset"]
  /\ ret = [t \in Threads |-> 0]
  /\ foreign = FALSE
  /\ twice = FALSE
  /\ refused = FALSE
  /\ aborted = FALSE

----------------------------------------------------------------------------
(* Building blocks. *)

(* The process is still there. *)
Alive == ~aborted /\ \A t \in Threads : pc[t] # "crashed"

At(t, label) == pc[t] = label /\ Alive

Goto(t, label) == pc' = [pc EXCEPT ![t] = label]

(* goto cleanup with this status *)
Cleanup(t, rc) == Goto(t, "cleanup") /\ ret' = [ret EXCEPT ![t] = rc]

(* The socket was not closed, or was another's: close fails with EBADF on  *)
(* a free descriptor, and closes whatever socket now has the number.       *)
Close(t, f) ==
  /\ owner' = [owner EXCEPT ![f] = Free]
  /\ foreign' = (foreign \/ owner[f] \notin {t, Free})
  /\ twice' = (twice \/ owner[f] = Free)

(* Callers of mg_socket_close abort if it fails; a BIO does not look. *)
AbortIfNotOpen(f) == aborted' = (aborted \/ owner[f] = Free)

noClose == <<owner, foreign, twice, aborted>>
given == <<params, refused>>
socketVars == <<addrs, tsockfd, sockfd, transport>>
sessionVars == <<status, version, session>>

----------------------------------------------------------------------------
(* mg_session_init: without memory there is no session to hand out, and    *)
(* mg_connect_ca returns before *session is written.                       *)
mg_session_init(t) ==
  /\ At(t, "mg_session_init")
  /\ \/ /\ Goto(t, "validate")
        /\ UNCHANGED ret
     \/ /\ Goto(t, "no_session")
        /\ ret' = [ret EXCEPT ![t] = MG_ERROR_OOM]
  /\ UNCHANGED <<noClose, given, socketVars, sessionVars>>

Valid(p) ==
  /\ p.host # p.address
  /\ p.username = p.password
  /\ p.sslcert = p.sslkey

validate_session_params(t) ==
  /\ At(t, "validate")
  /\ \/ /\ Valid(params[t])
        /\ Goto(t, "getaddrinfo")
        /\ UNCHANGED ret
     \/ /\ ~Valid(params[t])
        /\ Cleanup(t, MG_ERROR_BAD_PARAMETER)
  /\ UNCHANGED <<noClose, given, socketVars, sessionVars>>

----------------------------------------------------------------------------
(* init_tcp_connection *)

getaddrinfo(t) ==
  /\ At(t, "getaddrinfo")
  /\ aborted' = ~(params[t].host \/ params[t].address)
  /\ \/ /\ \E n \in 1 .. MaxAddrs : addrs' = [addrs EXCEPT ![t] = n]
        /\ Goto(t, "socket")
        /\ UNCHANGED ret
     \/ /\ Cleanup(t, MG_ERROR_NETWORK_FAILURE)
        /\ UNCHANGED addrs
  /\ UNCHANGED <<owner, foreign, twice, given, tsockfd, sockfd, transport,
                 sessionVars>>

(* Mutant: a failed address is tried again. *)
SameAddress(t) == Goto(t, "socket") /\ UNCHANGED <<addrs, ret>>

(* Mutant: one address more than the list has. *)
PastTheList(t) ==
  /\ addrs' = [addrs EXCEPT ![t] = @ - 1]
  /\ IF addrs[t] >= 0 THEN Goto(t, "socket") /\ UNCHANGED ret
                      ELSE Cleanup(t, MG_ERROR_NETWORK_FAILURE)

(* Try the next address of the list, if there is one. *)
NextAddress(t) ==
  /\ addrs' = [addrs EXCEPT ![t] = @ - 1]
  /\ IF addrs[t] > 1 THEN Goto(t, "socket") /\ UNCHANGED ret
                     ELSE Cleanup(t, MG_ERROR_NETWORK_FAILURE)

(* socket() returns the lowest free descriptor. *)
mg_socket_create(t) ==
  /\ At(t, "socket")
  /\ \/ \E f \in Fds :
          /\ owner[f] = Free
          /\ \A g \in Fds : g < f => owner[g] # Free
          /\ owner' = [owner EXCEPT ![f] = t]
          /\ tsockfd' = [tsockfd EXCEPT ![t] = f]
          /\ Goto(t, "connect")
          /\ UNCHANGED <<addrs, ret>>
     \/ /\ tsockfd' = [tsockfd EXCEPT ![t] = MG_ERROR_SOCKET]
        /\ NextAddress(t)
        /\ UNCHANGED owner
  /\ UNCHANGED <<foreign, twice, aborted, given, sockfd, transport, sessionVars>>

(* mg_socket_connect and mg_socket_connect_handle_error *)
mg_socket_connect(t) ==
  /\ At(t, "connect")
  /\ \/ /\ Goto(t, "options")
        /\ UNCHANGED <<addrs, tsockfd, ret, noClose>>
     \/ /\ Close(t, tsockfd[t])
        /\ AbortIfNotOpen(tsockfd[t])
        /\ tsockfd' = [tsockfd EXCEPT ![t] = MG_ERROR_SOCKET]
        /\ NextAddress(t)
  /\ UNCHANGED <<given, sockfd, transport, sessionVars>>

(* Only a socket with its options set becomes the caller's sockfd; the     *)
(* locals of init_tcp_connection end here.                                 *)
mg_socket_options(t) ==
  /\ At(t, "options")
  /\ \/ /\ sockfd' = [sockfd EXCEPT ![t] = tsockfd[t]]
        /\ Goto(t, "transport")
        /\ UNCHANGED <<ret, noClose>>
     \/ /\ Close(t, tsockfd[t])
        /\ AbortIfNotOpen(tsockfd[t])
        /\ Cleanup(t, MG_ERROR_NETWORK_FAILURE)
        /\ UNCHANGED sockfd
  /\ tsockfd' = [tsockfd EXCEPT ![t] = MG_ERROR_SOCKET]
  /\ addrs' = [addrs EXCEPT ![t] = 0]
  /\ UNCHANGED <<given, transport, sessionVars>>

----------------------------------------------------------------------------
(* The transport takes the socket; until it does, a failure leaves it to   *)
(* mg_connect_ca (the BIO is made with BIO_NOCLOSE).                       *)

(* Mutant: mg_connect_ca does not give up the socket it handed over. *)
SocketKept(t) == UNCHANGED sockfd

SocketHandedOver(t) == sockfd' = [sockfd EXCEPT ![t] = -1]

mg_raw_transport_init(t) ==
  /\ At(t, "transport")
  /\ params[t].sslmode = "DISABLE"
  /\ \/ /\ transport' = [transport EXCEPT ![t] = sockfd[t]]
        /\ SocketHandedOver(t)
        /\ Goto(t, "handshake")
        /\ UNCHANGED ret
     \/ /\ Cleanup(t, MG_ERROR_OOM)
        /\ UNCHANGED <<transport, sockfd>>
  /\ UNCHANGED <<noClose, given, addrs, tsockfd, sessionVars>>

(* SSL_connect may return 0, which is not < 0, and leave no certificate:   *)
(* assert(peer_cert) stops the process or, without assertions, the NULL is *)
(* used.  hex_encode writes to what malloc gave it, checked or not.        *)
NoCertificateOrMemory(t) ==
  /\ Goto(t, "crashed")
  /\ UNCHANGED <<transport, sockfd, ret>>

mg_secure_transport_init(t) ==
  /\ At(t, "transport")
  /\ params[t].sslmode = "REQUIRE"
  /\ \/ /\ transport' = [transport EXCEPT ![t] = sockfd[t]]
        /\ IF params[t].trust_callback
           THEN Goto(t, "trust") /\ UNCHANGED sockfd
           ELSE Goto(t, "handshake") /\ SocketHandedOver(t)
        /\ UNCHANGED ret
     \/ /\ \E rc \in {MG_ERROR_SSL_ERROR, MG_ERROR_OOM} : Cleanup(t, rc)
        /\ UNCHANGED <<transport, sockfd>>
     \/ NoCertificateOrMemory(t)
  /\ UNCHANGED <<noClose, given, addrs, tsockfd, sessionVars>>

(* get_hostname_and_ip and the user's callback.  A refusal goes to cleanup *)
(* with sockfd still set, although the transport owns the socket.          *)
trust_callback(t) ==
  /\ At(t, "trust")
  /\ \/ /\ SocketHandedOver(t)
        /\ Goto(t, "handshake")
        /\ UNCHANGED <<ret, refused>>
     \/ /\ refused' = TRUE
        /\ \E rc \in {MG_ERROR_TRUST_CALLBACK, MG_ERROR_NETWORK_FAILURE} :
             Cleanup(t, rc)
        /\ UNCHANGED sockfd
  /\ UNCHANGED <<noClose, params, addrs, tsockfd, transport, sessionVars>>

----------------------------------------------------------------------------
(* Handshake and authentication over the transport. *)

(* mg_bolt_handshake: the client offers 4.1 and 1. *)
mg_bolt_handshake(t) ==
  /\ At(t, "handshake")
  /\ \/ /\ \E v \in {1, 4} : version' = [version EXCEPT ![t] = v]
        /\ Goto(t, "init")
        /\ UNCHANGED ret
     \/ /\ \E rc \in {MG_ERROR_SEND_FAILED, MG_ERROR_RECV_FAILED,
                      MG_ERROR_PROTOCOL_VIOLATION} : Cleanup(t, rc)
        /\ UNCHANGED version
  /\ UNCHANGED <<noClose, given, socketVars, status, session>>

(* mg_bolt_init: INIT (version 1) or HELLO, and its reply.  1 is what the  *)
(* encoder returns for a send that fails within a string.                  *)
InitErrors == {MG_ERROR_OOM, MG_ERROR_SEND_FAILED, 1, MG_ERROR_RECV_FAILED,
               MG_ERROR_DECODING_FAILED, MG_ERROR_PROTOCOL_VIOLATION,
               MG_ERROR_CLIENT_ERROR}

mg_bolt_init(t) ==
  /\ At(t, "init")
  /\ \/ /\ status' = [status EXCEPT ![t] = "READY"]
        /\ session' = [session EXCEPT ![t] = "set"]
        /\ Goto(t, "returned")
        /\ UNCHANGED ret
     \/ /\ \E rc \in InitErrors : Cleanup(t, rc)
        /\ UNCHANGED <<status, session>>
  /\ UNCHANGED <<noClose, given, socketVars, version>>

----------------------------------------------------------------------------
(* Failure, and the end of a session. *)

(* Mutant: the socket is left open. *)
CleanupWithoutClose(t) ==
  /\ At(t, "cleanup")
  /\ Goto(t, "invalidate")
  /\ UNCHANGED <<noClose, given, socketVars, sessionVars, ret>>

cleanup(t) ==
  /\ At(t, "cleanup")
  /\ IF sockfd[t] >= 0
     THEN Close(t, sockfd[t]) /\ AbortIfNotOpen(sockfd[t])
     ELSE UNCHANGED noClose
  /\ Goto(t, "invalidate")
  /\ UNCHANGED <<given, socketVars, sessionVars, ret>>

(* mg_raw_transport_destroy or mg_secure_transport_destroy *)
mg_transport_destroy(t) ==
  /\ Close(t, transport[t])
  /\ IF params[t].sslmode = "DISABLE" THEN AbortIfNotOpen(transport[t])
                                      ELSE UNCHANGED aborted

(* Mutant: the session keeps a pointer to the destroyed transport. *)
InvalidateKeepsTransport(t) ==
  /\ At(t, "invalidate")
  /\ IF transport[t] # Null THEN mg_transport_destroy(t)
                            ELSE UNCHANGED noClose
  /\ status' = [status EXCEPT ![t] = "BAD"]
  /\ session' = [session EXCEPT ![t] = "set"]
  /\ Goto(t, "returned")
  /\ UNCHANGED <<given, socketVars, version, ret>>

(* mg_session_invalidate, and the return of mg_connect_ca *)
mg_session_invalidate(t) ==
  /\ At(t, "invalidate")
  /\ IF transport[t] # Null THEN mg_transport_destroy(t)
                            ELSE UNCHANGED noClose
  /\ transport' = [transport EXCEPT ![t] = Null]
  /\ status' = [status EXCEPT ![t] = "BAD"]
  /\ session' = [session EXCEPT ![t] = "set"]
  /\ Goto(t, "returned")
  /\ UNCHANGED <<given, addrs, tsockfd, sockfd, version, ret>>

(* The caller is done with the session and what mg_connect returned. *)
mg_session_destroy(t) ==
  /\ At(t, "returned")
  /\ IF transport[t] # Null THEN mg_transport_destroy(t)
                            ELSE UNCHANGED noClose
  /\ transport' = [transport EXCEPT ![t] = Null]
  /\ status' = [status EXCEPT ![t] = "none"]
  /\ version' = [version EXCEPT ![t] = 0]
  /\ session' = [session EXCEPT ![t] = "unset"]
  /\ ret' = [ret EXCEPT ![t] = 0]
  /\ Goto(t, "destroyed")
  /\ UNCHANGED <<given, addrs, tsockfd, sockfd>>

Connecting(t) ==
  \/ mg_session_init(t) \/ validate_session_params(t) \/ getaddrinfo(t)
  \/ mg_socket_create(t) \/ mg_socket_connect(t) \/ mg_socket_options(t)
  \/ mg_raw_transport_init(t) \/ mg_secure_transport_init(t) \/ trust_callback(t)
  \/ mg_bolt_handshake(t) \/ mg_bolt_init(t)
  \/ cleanup(t) \/ mg_session_invalidate(t)

Finished ==
  /\ ~Alive \/ \A t \in Threads : pc[t] \in {"returned", "no_session", "destroyed"}
  /\ UNCHANGED vars

Next ==
  \/ \E t \in Threads : Connecting(t) \/ mg_session_destroy(t)
  \/ Finished

(* The calls a thread blocks in return in the end. *)
Spec == Init /\ [][Next]_vars /\ \A t \in Threads : WF_vars(Connecting(t))

----------------------------------------------------------------------------
TypeOK ==
  /\ owner \in [Fds -> Threads \cup {Free}]
  /\ params \in [Threads -> Params]
  /\ addrs \in [Threads -> 0 .. MaxAddrs]
  /\ tsockfd \in [Threads -> Fds \cup {MG_ERROR_SOCKET}]
  /\ sockfd \in [Threads -> Fds \cup {-1}]
  /\ transport \in [Threads -> Fds \cup {Null}]
  /\ status \in [Threads -> {"none", "READY", "BAD"}]
  /\ version \in [Threads -> {0, 1, 4}]
  /\ session \in [Threads -> {"unset", "set"}]
  /\ ret \in [Threads -> Int]
  /\ foreign \in BOOLEAN /\ twice \in BOOLEAN
  /\ refused \in BOOLEAN /\ aborted \in BOOLEAN

Returned(t) == pc[t] = "returned"

(* A socket a thread opened is closed or is its READY session's transport  *)
(* when mg_connect returns: no failure path loses a descriptor, and no     *)
(* other thread's failing connection takes the socket away.  (As long as   *)
(* no trust callback refuses, after which mg_connect closes twice.)        *)
NoSocketLeaked ==
  ~refused =>
    \A t \in Threads : pc[t] \in {"returned", "no_session", "destroyed"} =>
      {f \in Fds : owner[f] = t} =
        (IF Returned(t) /\ status[t] = "READY" THEN {transport[t]} ELSE {})

(* No thread closes a descriptor that is closed already, or one that has   *)
(* become the socket of another thread: each socket is closed by the one   *)
(* local, or the one transport, that owns it at the time, and no abort()   *)
(* behind a failed close, or for want of a host, is reached.  (The process *)
(* may still end in mg_secure_transport_init, see NoCertificateOrMemory.)  *)
ClosesAreSound == ~refused => ~foreign /\ ~twice /\ ~aborted

(* What the caller finds when mg_connect returns.  The out parameter is    *)
(* written on every path but one: when mg_session_init finds no memory it  *)
(* is left as the caller had it, where mgclient.h promises NULL, and the   *)
(* status is MG_ERROR_OOM.  Otherwise the status is 0 exactly if the       *)
(* session is READY, over an open transport on which a known protocol      *)
(* version was agreed, with parameters that were checked; any error comes  *)
(* with a BAD session whose transport is gone.                             *)
ResultMatchesSession ==
  \A t \in Threads :
    /\ pc[t] = "no_session" =>
         /\ session[t] = "unset" /\ ret[t] = MG_ERROR_OOM
         /\ transport[t] = Null
    /\ Returned(t) =>
         /\ session[t] = "set"
         /\ IF ret[t] = 0
            THEN /\ status[t] = "READY" /\ version[t] \in {1, 4}
                 /\ transport[t] # Null /\ Valid(params[t])
            ELSE status[t] = "BAD" /\ transport[t] = Null

(* Every mg_connect returns, unless the process is gone: the list of       *)
(* addresses is finite, and each is tried once.                            *)
ConnectReturns ==
  \A t \in Threads :
    pc[t] = "mg_session_init" ~> pc[t] \in {"returned", "no_session"} \/ ~Alive

==============================================================================
