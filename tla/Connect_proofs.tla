--------------------------- MODULE Connect_proofs ---------------------------
(***************************************************************************)
(* Proofs about Connect, for any number of threads, descriptors, addresses *)
(* and parameters.                                                         *)
(*                                                                         *)
(* The inductive invariant says two things of every thread.  LocalsOK is   *)
(* what mg_connect_ca and init_tcp_connection know at each of their labels *)
(* from their own steps alone.  SocketsHeld is the ownership of sockets:   *)
(* the descriptors that are a thread's in the process's table are exactly  *)
(* the ones its locals or its transport still stand for.                   *)
(***************************************************************************)
EXTENDS Connect, TLAPS

Labels == {"mg_session_init", "validate", "getaddrinfo", "socket", "connect",
           "options", "transport", "trust", "handshake", "init", "cleanup",
           "invalidate", "returned", "no_session", "destroyed", "crashed"}

(* Labels before the socket is handed to mg_connect_ca, labels after the   *)
(* transport was made, and labels of a connection that has failed.         *)
BeforeSocket == {"mg_session_init", "validate", "getaddrinfo", "socket",
                 "connect", "options"}
OverTransport == {"handshake", "init"}
Failed == {"cleanup", "invalidate"}
Over == {"returned", "no_session", "destroyed"}

(* What a thread's own steps establish: which of its locals hold a         *)
(* descriptor at which label, that only checked parameters get beyond      *)
(* "validate", and that the way to cleanup always sets an error.           *)
LocalsOK(t) ==
  /\ pc[t] \in {"socket", "connect"} => addrs[t] > 0
  /\ IF pc[t] \in {"connect", "options"} THEN tsockfd[t] \in Fds
                                         ELSE tsockfd[t] = MG_ERROR_SOCKET
  /\ pc[t] \in BeforeSocket => sockfd[t] = -1 /\ transport[t] = Null
  /\ pc[t] = "transport" => sockfd[t] \in Fds /\ transport[t] = Null
  /\ pc[t] = "trust" => sockfd[t] \in Fds /\ transport[t] = sockfd[t]
  /\ pc[t] \in OverTransport => sockfd[t] = -1 /\ transport[t] \in Fds
  /\ pc[t] = "destroyed" => transport[t] = Null
  /\ pc[t] \notin {"mg_session_init", "validate"} \cup Failed \cup Over =>
       Valid(params[t])
  /\ pc[t] = "init" => version[t] \in {1, 4}
  /\ pc[t] \notin Over => session[t] = "unset" /\ status[t] = "none"
  /\ IF pc[t] \in Failed THEN ret[t] # 0 ELSE pc[t] \in Over \/ ret[t] = 0

(* What mg_connect returned fits the session it left; without a session    *)
(* there is no transport either.                                           *)
ResultOK(t) ==
  /\ pc[t] = "no_session" =>
       /\ session[t] = "unset" /\ ret[t] = MG_ERROR_OOM
       /\ status[t] = "none" /\ transport[t] = Null
  /\ Returned(t) =>
       /\ session[t] = "set"
       /\ IF ret[t] = 0
          THEN /\ status[t] = "READY" /\ version[t] \in {1, 4}
               /\ transport[t] # Null /\ Valid(params[t])
          ELSE status[t] = "BAD" /\ transport[t] = Null

(* sockfd is forgotten, not cleared, once cleanup has closed it. *)
Holds(t, f) ==
  \/ tsockfd[t] = f
  \/ transport[t] = f
  \/ sockfd[t] = f /\ pc[t] \notin {"invalidate"} \cup Over

(* The descriptor table agrees with the locals of all threads. *)
Ownership == \A t \in Threads, f \in Fds : owner[f] = t <=> Holds(t, f)

(* A failed connection has its socket in sockfd or in the transport, not   *)
(* in both: the refusal of a trust callback is what breaks this.           *)
OneHolder ==
  \A t \in Threads : pc[t] = "cleanup" => sockfd[t] = -1 \/ transport[t] = Null

SocketsHeld ==
  /\ Ownership
  /\ OneHolder
  /\ ~foreign /\ ~twice /\ ~aborted

(* TypeOK in parts, with the labels. *)
OwnerType == owner \in [Fds -> Threads \cup {Free}]

AddrsType == addrs \in [Threads -> 0 .. MaxAddrs]

SocketTypes ==
  /\ tsockfd \in [Threads -> Fds \cup {MG_ERROR_SOCKET}]
  /\ sockfd \in [Threads -> Fds \cup {-1}]
  /\ transport \in [Threads -> Fds \cup {Null}]

VersionType == version \in [Threads -> {0, 1, 4}]

SessionTypes ==
  /\ status \in [Threads -> {"none", "READY", "BAD"}]
  /\ session \in [Threads -> {"unset", "set"}]

PcType == params \in [Threads -> Params] /\ pc \in [Threads -> Labels]

RetType == ret \in [Threads -> Int]

FlagTypes ==
  /\ foreign \in BOOLEAN /\ twice \in BOOLEAN
  /\ refused \in BOOLEAN /\ aborted \in BOOLEAN

Typed ==
  /\ OwnerType /\ AddrsType /\ SocketTypes /\ VersionType /\ SessionTypes
  /\ PcType /\ RetType /\ FlagTypes

Local == \A t \in Threads : LocalsOK(t) /\ ResultOK(t)

IInv ==
  /\ Typed
  /\ Local
  /\ ~refused => SocketsHeld

----------------------------------------------------------------------------
(* No step of a thread leaves the types: one step per action, and under    *)
(* it one per variable that the action assigns.                            *)
LEMMA TypeStep ==
  ASSUME Typed, Local, NEW t \in Threads,
         Connecting(t) \/ mg_session_destroy(t)
  PROVE  Typed'
<1> USE BoundsAssumption DEF Typed, Local, At
<1>1. CASE mg_session_init(t)
  <2> USE <1>1 DEF mg_session_init, Goto, noClose, given, socketVars,
      sessionVars, MG_ERROR_OOM
  <2>1. PcType'
    BY DEF PcType, Labels
  <2>2. RetType'
    BY DEF RetType
  <2> QED
    BY <2>1, <2>2
       DEF OwnerType, AddrsType, SocketTypes, VersionType, SessionTypes,
           FlagTypes
<1>2. CASE validate_session_params(t)
  <2> USE <1>2 DEF validate_session_params, Goto, Cleanup, noClose, given,
      socketVars, sessionVars, MG_ERROR_BAD_PARAMETER
  <2>1. PcType'
    BY DEF PcType, Labels
  <2>2. RetType'
    BY DEF RetType
  <2> QED
    BY <2>1, <2>2
       DEF OwnerType, AddrsType, SocketTypes, VersionType, SessionTypes,
           FlagTypes
<1>3. CASE getaddrinfo(t)
  <2> USE <1>3 DEF getaddrinfo, Goto, Cleanup, given, sessionVars,
      MG_ERROR_NETWORK_FAILURE
  <2>1. AddrsType'
    BY DEF AddrsType, LocalsOK
  <2>2. PcType'
    BY DEF PcType, Labels
  <2>3. RetType'
    BY DEF RetType
  <2>4. FlagTypes'
    BY DEF FlagTypes
  <2> QED
    BY <2>1, <2>2, <2>3, <2>4
       DEF OwnerType, SocketTypes, VersionType, SessionTypes
<1>4. CASE mg_socket_create(t)
  <2> USE <1>4 DEF mg_socket_create, Goto, Cleanup, NextAddress, given,
      sessionVars, MG_ERROR_NETWORK_FAILURE, MG_ERROR_SOCKET
  <2>1. OwnerType'
    BY DEF OwnerType
  <2>2. AddrsType'
    BY DEF AddrsType, LocalsOK
  <2>3. SocketTypes'
    BY DEF SocketTypes, Fds
  <2>4. PcType'
    BY DEF PcType, Labels
  <2>5. RetType'
    BY DEF RetType
  <2> QED
    BY <2>1, <2>2, <2>3, <2>4, <2>5
       DEF VersionType, SessionTypes, FlagTypes
<1>5. CASE mg_socket_connect(t)
  <2> USE <1>5 DEF mg_socket_connect, Goto, Cleanup, NextAddress, Close,
      AbortIfNotOpen, noClose, given, sessionVars, MG_ERROR_NETWORK_FAILURE,
      MG_ERROR_SOCKET
  <2>1. OwnerType'
    BY DEF OwnerType, SocketTypes, LocalsOK, Fds, Null
  <2>2. AddrsType'
    BY DEF AddrsType, LocalsOK
  <2>3. SocketTypes'
    BY DEF SocketTypes, Fds, Null
  <2>4. PcType'
    BY DEF PcType, Labels
  <2>5. RetType'
    BY DEF RetType
  <2>6. FlagTypes'
    BY DEF FlagTypes
  <2> QED
    BY <2>1, <2>2, <2>3, <2>4, <2>5, <2>6
       DEF VersionType, SessionTypes
<1>6. CASE mg_socket_options(t)
  <2> USE <1>6 DEF mg_socket_options, Goto, Cleanup, Close, AbortIfNotOpen,
      noClose, given, sessionVars, MG_ERROR_NETWORK_FAILURE, MG_ERROR_SOCKET
  <2>1. OwnerType'
    BY DEF OwnerType, SocketTypes, LocalsOK, Fds, Null
  <2>2. AddrsType'
    BY DEF AddrsType, LocalsOK
  <2>3. SocketTypes'
    BY DEF SocketTypes, LocalsOK, OwnerType, Fds, Null, BeforeSocket
  <2>4. PcType'
    BY DEF PcType, Labels
  <2>5. RetType'
    BY DEF RetType
  <2>6. FlagTypes'
    BY DEF FlagTypes
  <2> QED
    BY <2>1, <2>2, <2>3, <2>4, <2>5, <2>6
       DEF VersionType, SessionTypes
<1>7. CASE mg_raw_transport_init(t)
  <2> USE <1>7 DEF mg_raw_transport_init, Goto, Cleanup, SocketHandedOver,
      noClose, given, sessionVars, MG_ERROR_OOM
  <2>1. SocketTypes'
    BY DEF SocketTypes, LocalsOK, OwnerType, Fds, Null, MG_ERROR_SOCKET,
          BeforeSocket
  <2>2. PcType'
    BY DEF PcType, Labels
  <2>3. RetType'
    BY DEF RetType
  <2> QED
    BY <2>1, <2>2, <2>3
       DEF OwnerType, AddrsType, VersionType, SessionTypes, FlagTypes
<1>8. CASE mg_secure_transport_init(t)
  <2> USE <1>8 DEF mg_secure_transport_init, NoCertificateOrMemory, Goto, Cleanup, SocketHandedOver,
      noClose, given, sessionVars, MG_ERROR_OOM, MG_ERROR_SSL_ERROR
  <2>1. SocketTypes'
    BY DEF SocketTypes, LocalsOK, OwnerType, Fds, Null, MG_ERROR_SOCKET,
          BeforeSocket
  <2>2. PcType'
    BY DEF PcType, Labels
  <2>3. RetType'
    BY DEF RetType
  <2> QED
    BY <2>1, <2>2, <2>3
       DEF OwnerType, AddrsType, VersionType, SessionTypes, FlagTypes
<1>9. CASE trust_callback(t)
  <2> USE <1>9 DEF trust_callback, Goto, Cleanup, SocketHandedOver, noClose,
      sessionVars, MG_ERROR_TRUST_CALLBACK, MG_ERROR_NETWORK_FAILURE
  <2>1. SocketTypes'
    BY DEF SocketTypes, Fds, Null, MG_ERROR_SOCKET
  <2>2. PcType'
    BY DEF PcType, Labels
  <2>3. RetType'
    BY DEF RetType
  <2>4. FlagTypes'
    BY DEF FlagTypes
  <2> QED
    BY <2>1, <2>2, <2>3, <2>4
       DEF OwnerType, AddrsType, VersionType, SessionTypes
<1>10. CASE mg_bolt_handshake(t)
  <2> USE <1>10 DEF mg_bolt_handshake, Goto, Cleanup, noClose, given,
      socketVars, MG_ERROR_SEND_FAILED, MG_ERROR_RECV_FAILED,
      MG_ERROR_PROTOCOL_VIOLATION
  <2>1. VersionType'
    BY DEF VersionType
  <2>2. PcType'
    BY DEF PcType, Labels
  <2>3. RetType'
    BY DEF RetType
  <2> QED
    BY <2>1, <2>2, <2>3
       DEF OwnerType, AddrsType, SocketTypes, SessionTypes, FlagTypes
<1>11. CASE mg_bolt_init(t)
  <2> USE <1>11 DEF mg_bolt_init, Goto, Cleanup, noClose, given, socketVars,
      InitErrors, MG_ERROR_OOM, MG_ERROR_SEND_FAILED, MG_ERROR_RECV_FAILED,
      MG_ERROR_DECODING_FAILED, MG_ERROR_PROTOCOL_VIOLATION,
      MG_ERROR_CLIENT_ERROR
  <2>1. SessionTypes'
    BY DEF SessionTypes
  <2>2. PcType'
    BY DEF PcType, Labels
  <2>3. RetType'
    BY DEF RetType
  <2> QED
    BY <2>1, <2>2, <2>3
       DEF OwnerType, AddrsType, SocketTypes, VersionType, FlagTypes
<1>12. CASE cleanup(t)
  <2> USE <1>12 DEF cleanup, Goto, Close, AbortIfNotOpen, noClose, given,
      socketVars, sessionVars
  <2>1. OwnerType'
    BY DEF OwnerType, SocketTypes, LocalsOK, Fds, Null, MG_ERROR_SOCKET
  <2>2. PcType'
    BY DEF PcType, Labels
  <2>3. FlagTypes'
    BY DEF FlagTypes
  <2> QED
    BY <2>1, <2>2, <2>3
       DEF AddrsType, SocketTypes, VersionType, SessionTypes, RetType
<1>13. CASE mg_session_invalidate(t)
  <2> USE <1>13 DEF mg_session_invalidate, Goto, mg_transport_destroy, Close,
      AbortIfNotOpen, noClose, given
  <2>1. OwnerType'
    BY DEF OwnerType
  <2>2. SocketTypes'
    BY DEF SocketTypes, Fds, Null, MG_ERROR_SOCKET
  <2>3. SessionTypes'
    BY DEF SessionTypes
  <2>4. PcType'
    BY DEF PcType, Labels
  <2>5. FlagTypes'
    BY DEF FlagTypes
  <2> QED
    BY <2>1, <2>2, <2>3, <2>4, <2>5
       DEF AddrsType, VersionType, RetType
<1>14. CASE mg_session_destroy(t)
  <2> USE <1>14 DEF mg_session_destroy, Goto, mg_transport_destroy, Close,
      AbortIfNotOpen, noClose, given
  <2>1. OwnerType'
    BY DEF OwnerType
  <2>2. SocketTypes'
    BY DEF SocketTypes, Fds, Null, MG_ERROR_SOCKET
  <2>3. VersionType'
    BY DEF VersionType
  <2>4. SessionTypes'
    BY DEF SessionTypes
  <2>5. PcType'
    BY DEF PcType, Labels
  <2>6. RetType'
    BY DEF RetType
  <2>7. FlagTypes'
    BY DEF FlagTypes
  <2> QED
    BY <2>1, <2>2, <2>3, <2>4, <2>5, <2>6, <2>7
       DEF AddrsType
<1> QED
  BY <1>1, <1>2, <1>3, <1>4, <1>5, <1>6, <1>7, <1>8, <1>9, <1>10, <1>11,
     <1>12, <1>13, <1>14
     DEF Connecting

(* No step of a thread disturbs what it, or another thread, knows of its   *)
(* locals, and what mg_connect returns fits the session it leaves.         *)
LEMMA LocalStep ==
  ASSUME Typed, Local, NEW t \in Threads,
         Connecting(t) \/ mg_session_destroy(t)
  PROVE  Local'
<1> USE BoundsAssumption DEF Local, LocalsOK, ResultOK, Returned, Typed,
      OwnerType, AddrsType, SocketTypes, VersionType, SessionTypes, PcType,
      RetType, Fds, Null, MG_ERROR_SOCKET, MG_ERROR_OOM, Labels, BeforeSocket,
      OverTransport, Failed, Over, At, Goto
<1>1. CASE mg_session_init(t)
  BY <1>1 DEF mg_session_init, noClose, given, socketVars, sessionVars
<1>2. CASE validate_session_params(t)
  BY <1>2 DEF validate_session_params, Cleanup, noClose, given, socketVars,
       sessionVars, MG_ERROR_BAD_PARAMETER
<1>3. CASE getaddrinfo(t)
  BY <1>3 DEF getaddrinfo, Cleanup, given, sessionVars,
       MG_ERROR_NETWORK_FAILURE
<1>4. CASE mg_socket_create(t)
  BY <1>4 DEF mg_socket_create, Cleanup, NextAddress, given, sessionVars,
       MG_ERROR_NETWORK_FAILURE
<1>5. CASE mg_socket_connect(t)
  BY <1>5 DEF mg_socket_connect, Cleanup, NextAddress, Close, AbortIfNotOpen,
       noClose, given, sessionVars, MG_ERROR_NETWORK_FAILURE
<1>6. CASE mg_socket_options(t)
  BY <1>6 DEF mg_socket_options, Cleanup, Close, AbortIfNotOpen, noClose,
       given, sessionVars, MG_ERROR_NETWORK_FAILURE
<1>7. CASE mg_raw_transport_init(t)
  BY <1>7 DEF mg_raw_transport_init, Cleanup, SocketHandedOver, noClose,
       given, sessionVars
<1>8. CASE mg_secure_transport_init(t)
  BY <1>8, SMTT(30) DEF mg_secure_transport_init, NoCertificateOrMemory, Cleanup, SocketHandedOver, noClose,
       given, sessionVars, MG_ERROR_SSL_ERROR
<1>9. CASE trust_callback(t)
  BY <1>9 DEF trust_callback, Cleanup, SocketHandedOver, noClose, sessionVars,
       MG_ERROR_TRUST_CALLBACK, MG_ERROR_NETWORK_FAILURE
<1>10. CASE mg_bolt_handshake(t)
  BY <1>10 DEF mg_bolt_handshake, Cleanup, noClose, given, socketVars,
       MG_ERROR_SEND_FAILED, MG_ERROR_RECV_FAILED, MG_ERROR_PROTOCOL_VIOLATION
<1>11. CASE mg_bolt_init(t)
  BY <1>11, SMTT(30) DEF mg_bolt_init, Cleanup, noClose, given, socketVars, InitErrors,
       MG_ERROR_SEND_FAILED, MG_ERROR_RECV_FAILED, MG_ERROR_DECODING_FAILED,
       MG_ERROR_PROTOCOL_VIOLATION, MG_ERROR_CLIENT_ERROR
<1>12. CASE cleanup(t)
  BY <1>12 DEF cleanup, Close, AbortIfNotOpen, noClose, given, socketVars,
       sessionVars
<1>13. CASE mg_session_invalidate(t)
  BY <1>13 DEF mg_session_invalidate, mg_transport_destroy, Close,
       AbortIfNotOpen, noClose, given
<1>14. CASE mg_session_destroy(t)
  BY <1>14 DEF mg_session_destroy, mg_transport_destroy, Close,
       AbortIfNotOpen, noClose, given
<1> QED
  BY <1>1, <1>2, <1>3, <1>4, <1>5, <1>6, <1>7, <1>8, <1>9, <1>10, <1>11,
     <1>12, <1>13, <1>14
     DEF Connecting

(* Closing a socket that is the thread's own frees its descriptor, does    *)
(* not fail, and leaves every other thread its sockets.                    *)
LEMMA ClosingOwn ==
  ASSUME OwnerType, NEW t \in Threads, NEW f \in Fds, owner[f] = t,
         ~foreign, ~twice, Close(t, f)
  PROVE  /\ ~foreign' /\ ~twice' /\ owner[f] # Free
         /\ \A u \in Threads, g \in Fds :
              owner'[g] = u <=> owner[g] = u /\ g # f
BY ThreadsAssumption DEF OwnerType, Close

(* No step of a thread takes a socket from its holder, forgets one, or     *)
(* closes one twice, as long as no trust callback refuses.                 *)
LEMMA SocketStep ==
  ASSUME Typed, Local, ~refused => SocketsHeld, NEW t \in Threads,
         Connecting(t) \/ mg_session_destroy(t)
  PROVE  (~refused => SocketsHeld)'
<1> SUFFICES ASSUME ~refused'
             PROVE  SocketsHeld'
  OBVIOUS
<1> USE BoundsAssumption, ThreadsAssumption DEF Local, LocalsOK, Typed,
      OwnerType, SocketTypes, PcType, Fds, Null, MG_ERROR_SOCKET, Labels,
      BeforeSocket, OverTransport, Failed, Over, At, Goto, SocketsHeld,
      Ownership, OneHolder, Holds
<1>1. CASE mg_session_init(t)
  BY <1>1 DEF mg_session_init, noClose, given, socketVars, sessionVars
<1>2. CASE validate_session_params(t)
  BY <1>2 DEF validate_session_params, Cleanup, noClose, given, socketVars,
       sessionVars
<1>3. CASE getaddrinfo(t)
  <2> USE <1>3 DEF getaddrinfo, Cleanup, given, sessionVars
  <2>1. Ownership'
    OBVIOUS
  <2>2. OneHolder'
    OBVIOUS
  <2>3. ~foreign' /\ ~twice' /\ ~aborted'
    BY ParamsAssumption DEF Valid, ParamRecords
  <2> QED
    BY <2>1, <2>2, <2>3
<1>4. CASE mg_socket_create(t)
  <2> USE <1>4 DEF mg_socket_create, Cleanup, NextAddress, given, sessionVars
  <2>1. Ownership'
    OBVIOUS
  <2>2. OneHolder'
    OBVIOUS
  <2>3. ~foreign' /\ ~twice' /\ ~aborted'
    OBVIOUS
  <2> QED
    BY <2>1, <2>2, <2>3
<1>5. CASE mg_socket_connect(t)
  <2>1. ~aborted /\ SocketsHeld /\ pc[t] = "connect"
    BY <1>5 DEF mg_socket_connect, At, given
  <2>2. CASE UNCHANGED noClose
    BY <2>1, <2>2, <1>5
       DEF mg_socket_connect, noClose, Close, NextAddress, Cleanup, given
  <2>3. CASE ~UNCHANGED noClose
    <3>1. tsockfd[t] \in Fds /\ Close(t, tsockfd[t]) /\ owner[tsockfd[t]] = t
      BY <2>1, <2>3, <1>5
         DEF mg_socket_connect, noClose, NextAddress, Cleanup, given
    <3>2. /\ ~foreign' /\ ~twice' /\ owner[tsockfd[t]] # Free
          /\ \A u \in Threads, g \in Fds :
               owner'[g] = u <=> owner[g] = u /\ g # tsockfd[t]
      BY <2>1, <3>1, ClosingOwn
    <3>3. ~aborted'
      BY <2>1, <2>3, <3>2, <1>5
         DEF mg_socket_connect, noClose, AbortIfNotOpen, NextAddress, Cleanup,
             given
    <3>4. OneHolder'
      BY <2>1, <2>3, <1>5
         DEF mg_socket_connect, noClose, NextAddress, Cleanup, given
    <3>5. Ownership'
      BY <2>1, <2>3, <3>1, <3>2, <1>5
         DEF mg_socket_connect, noClose, NextAddress, Cleanup, given
    <3> QED
      BY <3>2, <3>3, <3>4, <3>5
  <2> QED
    BY <2>2, <2>3
<1>6. CASE mg_socket_options(t)
  <2>1. ~aborted /\ SocketsHeld /\ pc[t] = "options"
    BY <1>6 DEF mg_socket_options, At, given
  <2>2. CASE UNCHANGED noClose
    BY <2>1, <2>2, <1>6 DEF mg_socket_options, noClose, Close, Cleanup, given
  <2>3. CASE ~UNCHANGED noClose
    <3>1. tsockfd[t] \in Fds /\ Close(t, tsockfd[t]) /\ owner[tsockfd[t]] = t
      BY <2>1, <2>3, <1>6 DEF mg_socket_options, noClose, Cleanup, given
    <3>2. /\ ~foreign' /\ ~twice' /\ owner[tsockfd[t]] # Free
          /\ \A u \in Threads, g \in Fds :
               owner'[g] = u <=> owner[g] = u /\ g # tsockfd[t]
      BY <2>1, <3>1, ClosingOwn
    <3>3. ~aborted'
      BY <2>1, <2>3, <3>2, <1>6
         DEF mg_socket_options, noClose, AbortIfNotOpen, Cleanup, given
    <3>4. OneHolder'
      BY <2>1, <2>3, <1>6 DEF mg_socket_options, noClose, Cleanup, given
    <3>5. Ownership'
      BY <2>1, <2>3, <3>1, <3>2, <1>6
         DEF mg_socket_options, noClose, Cleanup, given
    <3> QED
      BY <3>2, <3>3, <3>4, <3>5
  <2> QED
    BY <2>2, <2>3
<1>7. CASE mg_raw_transport_init(t)
  <2> USE <1>7 DEF mg_raw_transport_init, Cleanup, SocketHandedOver, noClose,
       given, sessionVars
  <2>1. Ownership'
    OBVIOUS
  <2>2. OneHolder'
    OBVIOUS
  <2>3. ~foreign' /\ ~twice' /\ ~aborted'
    OBVIOUS
  <2> QED
    BY <2>1, <2>2, <2>3
<1>8. CASE mg_secure_transport_init(t)
  <2> USE <1>8 DEF mg_secure_transport_init, NoCertificateOrMemory, Cleanup, SocketHandedOver,
       noClose, given, sessionVars
  <2>1. Ownership'
    OBVIOUS
  <2>2. OneHolder'
    OBVIOUS
  <2>3. ~foreign' /\ ~twice' /\ ~aborted'
    OBVIOUS
  <2> QED
    BY <2>1, <2>2, <2>3
<1>9. CASE trust_callback(t)
  <2> USE <1>9 DEF trust_callback, Cleanup, SocketHandedOver, noClose,
       sessionVars
  <2>1. Ownership'
    OBVIOUS
  <2>2. OneHolder'
    OBVIOUS
  <2>3. ~foreign' /\ ~twice' /\ ~aborted'
    OBVIOUS
  <2> QED
    BY <2>1, <2>2, <2>3
<1>10. CASE mg_bolt_handshake(t)
  <2> USE <1>10 DEF mg_bolt_handshake, Cleanup, noClose, given, socketVars
  <2>1. Ownership'
    OBVIOUS
  <2>2. OneHolder'
    OBVIOUS
  <2>3. ~foreign' /\ ~twice' /\ ~aborted'
    OBVIOUS
  <2> QED
    BY <2>1, <2>2, <2>3
<1>11. CASE mg_bolt_init(t)
  <2> USE <1>11 DEF mg_bolt_init, Cleanup, noClose, given, socketVars, InitErrors
  <2>1. Ownership'
    OBVIOUS
  <2>2. OneHolder'
    OBVIOUS
  <2>3. ~foreign' /\ ~twice' /\ ~aborted'
    OBVIOUS
  <2> QED
    BY <2>1, <2>2, <2>3
<1>12. CASE cleanup(t)
  <2>1. ~aborted /\ SocketsHeld /\ pc[t] = "cleanup"
    BY <1>12 DEF cleanup, At, given
  <2>2. CASE sockfd[t] = -1
    <3> USE <2>1, <2>2, <1>12 DEF cleanup, given, socketVars
    <3>1. UNCHANGED noClose
      OBVIOUS
    <3>2. ~foreign' /\ ~twice' /\ ~aborted' /\ owner' = owner
      BY <3>1 DEF noClose
    <3>3. OneHolder'
      OBVIOUS
    <3>4. Ownership'
      BY <3>2
    <3> QED
      BY <3>2, <3>3, <3>4
  <2>3. CASE sockfd[t] \in Fds
    <3>1. Close(t, sockfd[t]) /\ owner[sockfd[t]] = t
      BY <2>1, <2>3, <1>12 DEF cleanup
    <3>2. /\ ~foreign' /\ ~twice' /\ owner[sockfd[t]] # Free
          /\ \A u \in Threads, g \in Fds :
               owner'[g] = u <=> owner[g] = u /\ g # sockfd[t]
      BY <2>1, <2>3, <3>1, ClosingOwn
    <3>3. ~aborted'
      BY <2>1, <2>3, <3>2, <1>12 DEF cleanup, noClose, AbortIfNotOpen
    <3>4. OneHolder'
      BY <2>1, <1>12 DEF cleanup, given, socketVars
    <3>5. Ownership'
      <4>1. pc' = [pc EXCEPT ![t] = "invalidate"] /\ UNCHANGED socketVars
        BY <1>12 DEF cleanup
      <4>2. transport[t] # sockfd[t] /\ tsockfd[t] # sockfd[t]
        BY <2>1, <2>3
      <4>3. ASSUME NEW u \in Threads, NEW g \in Fds, u # t
            PROVE  owner'[g] = u <=> Holds(u, g)'
        BY <2>1, <3>1, <3>2, <4>1, <4>3 DEF socketVars
      <4>4. ASSUME NEW g \in Fds
            PROVE  owner'[g] = t <=> Holds(t, g)'
        BY <2>1, <2>3, <3>1, <3>2, <4>1, <4>2 DEF socketVars
      <4> QED
        BY <4>3, <4>4
    <3> QED
      BY <3>2, <3>3, <3>4, <3>5
  <2> QED
    BY <2>2, <2>3
<1>13. CASE mg_session_invalidate(t)
  <2>1. ~aborted /\ SocketsHeld /\ pc[t] = "invalidate"
    BY <1>13 DEF mg_session_invalidate, At, given
  <2>2. CASE transport[t] = Null
    <3> USE <2>1, <2>2, <1>13 DEF mg_session_invalidate, given
    <3>1. UNCHANGED noClose
      OBVIOUS
    <3>2. ~foreign' /\ ~twice' /\ ~aborted' /\ owner' = owner
      BY <3>1 DEF noClose
    <3>3. OneHolder'
      OBVIOUS
    <3>4. Ownership'
      BY <3>2
    <3> QED
      BY <3>2, <3>3, <3>4
  <2>3. CASE transport[t] \in Fds
    <3>1. Close(t, transport[t]) /\ owner[transport[t]] = t
      BY <2>1, <2>3, <1>13 DEF mg_session_invalidate, mg_transport_destroy
    <3>2. /\ ~foreign' /\ ~twice' /\ owner[transport[t]] # Free
          /\ \A u \in Threads, g \in Fds :
               owner'[g] = u <=> owner[g] = u /\ g # transport[t]
      BY <2>1, <2>3, <3>1, ClosingOwn
    <3>3. ~aborted'
      BY <2>1, <2>3, <3>2, <1>13 DEF mg_session_invalidate, noClose, AbortIfNotOpen, mg_transport_destroy
    <3>4. OneHolder'
      BY <2>1, <1>13 DEF mg_session_invalidate, given
    <3>5. Ownership'
      BY <2>1, <2>3, <3>2, <1>13 DEF mg_session_invalidate, given
    <3> QED
      BY <3>2, <3>3, <3>4, <3>5
  <2> QED
    BY <2>2, <2>3
<1>14. CASE mg_session_destroy(t)
  <2>1. ~aborted /\ SocketsHeld /\ pc[t] = "returned"
    BY <1>14 DEF mg_session_destroy, At, given
  <2>2. CASE transport[t] = Null
    <3> USE <2>1, <2>2, <1>14 DEF mg_session_destroy, given
    <3>1. UNCHANGED noClose
      OBVIOUS
    <3>2. ~foreign' /\ ~twice' /\ ~aborted' /\ owner' = owner
      BY <3>1 DEF noClose
    <3>3. OneHolder'
      OBVIOUS
    <3>4. Ownership'
      BY <3>2
    <3> QED
      BY <3>2, <3>3, <3>4
  <2>3. CASE transport[t] \in Fds
    <3>1. Close(t, transport[t]) /\ owner[transport[t]] = t
      BY <2>1, <2>3, <1>14 DEF mg_session_destroy, mg_transport_destroy
    <3>2. /\ ~foreign' /\ ~twice' /\ owner[transport[t]] # Free
          /\ \A u \in Threads, g \in Fds :
               owner'[g] = u <=> owner[g] = u /\ g # transport[t]
      BY <2>1, <2>3, <3>1, ClosingOwn
    <3>3. ~aborted'
      BY <2>1, <2>3, <3>2, <1>14 DEF mg_session_destroy, noClose, AbortIfNotOpen, mg_transport_destroy
    <3>4. OneHolder'
      BY <2>1, <1>14 DEF mg_session_destroy, given
    <3>5. Ownership'
      BY <2>1, <2>3, <3>2, <1>14 DEF mg_session_destroy, given
    <3> QED
      BY <3>2, <3>3, <3>4, <3>5
  <2> QED
    BY <2>2, <2>3
<1> QED
  BY <1>1, <1>2, <1>3, <1>4, <1>5, <1>6, <1>7, <1>8, <1>9, <1>10, <1>11,
     <1>12, <1>13, <1>14
     DEF Connecting

(* The invariant holds of every behaviour of the specification. *)
LEMMA Inductive == Spec => []IInv
<1>1. Init => IInv
  <2> SUFFICES ASSUME Init
               PROVE  IInv
    OBVIOUS
  <2> USE BoundsAssumption, ThreadsAssumption DEF Init
  <2>1. Typed
    <3>1. OwnerType /\ AddrsType /\ SocketTypes
      BY DEF OwnerType, AddrsType, SocketTypes, Null
    <3>2. VersionType /\ SessionTypes /\ PcType /\ RetType
      BY DEF VersionType, SessionTypes, PcType, RetType, Labels
    <3>3. FlagTypes
      BY DEF FlagTypes
    <3> QED
      BY <3>1, <3>2, <3>3 DEF Typed
  <2>2. Local
    BY DEF Local, LocalsOK, ResultOK, Returned, Null, BeforeSocket,
           OverTransport, Failed, Over
  <2>3. SocketsHeld
    BY DEF SocketsHeld, Ownership, OneHolder, Holds, Fds, Null,
           MG_ERROR_SOCKET
  <2> QED
    BY <2>1, <2>2, <2>3 DEF IInv
<1>2. IInv /\ [Next]_vars => IInv'
  <2> SUFFICES ASSUME IInv, [Next]_vars
               PROVE  IInv'
    OBVIOUS
  <2>1. ASSUME NEW t \in Threads, Connecting(t) \/ mg_session_destroy(t)
        PROVE  IInv'
    BY <2>1, TypeStep, LocalStep, SocketStep DEF IInv
  <2>2. CASE UNCHANGED vars
    <3>1. Typed'
      BY <2>2 DEF IInv, Typed, vars, OwnerType, AddrsType, SocketTypes,
                  VersionType, SessionTypes, PcType, RetType, FlagTypes
    <3>2. Local'
      BY <2>2 DEF IInv, Local, vars, LocalsOK, ResultOK, Returned
    <3>3. (~refused => SocketsHeld)'
      BY <2>2 DEF IInv, vars, SocketsHeld, Ownership, OneHolder, Holds
    <3> QED
      BY <3>1, <3>2, <3>3 DEF IInv
  <2> QED
    BY <2>1, <2>2 DEF Next, Finished
<1> QED
  BY <1>1, <1>2, PTL DEF Spec

(* The state of every thread and of the descriptor table stays in its      *)
(* types: an address list is never run past its end, and what is closed    *)
(* as sockfd or transport is a descriptor.                                 *)
THEOREM TypeCorrect == Spec => []TypeOK
<1>1. IInv => TypeOK
  BY DEF IInv, Typed, TypeOK, OwnerType, AddrsType, SocketTypes, VersionType,
         SessionTypes, PcType, RetType, FlagTypes
<1> QED
  BY <1>1, Inductive, PTL

(* No failure path of mg_connect_ca, in any interleaving of any number of  *)
(* connecting threads, loses a socket: when it returns, the thread's only  *)
(* open socket is the transport of its READY session.  (As long as no      *)
(* trust callback has refused, as in NoSocketLeaked.)                      *)
THEOREM SocketsAccounted == Spec => []NoSocketLeaked
<1>1. IInv => NoSocketLeaked
  <2> SUFFICES ASSUME IInv, ~refused, NEW t \in Threads,
                      pc[t] \in {"returned", "no_session", "destroyed"}
               PROVE  {f \in Fds : owner[f] = t} =
                        IF Returned(t) /\ status[t] = "READY"
                        THEN {transport[t]} ELSE {}
    BY DEF NoSocketLeaked
  <2>1. \A f \in Fds : owner[f] = t <=> transport[t] = f
    BY DEF IInv, Local, LocalsOK, SocketsHeld, Ownership, Holds, Over, Fds,
           MG_ERROR_SOCKET
  <2>2. CASE Returned(t) /\ status[t] = "READY"
    <3>1. transport[t] \in Fds
      BY <2>2 DEF IInv, Local, ResultOK, Typed, SocketTypes
    <3> QED
      BY <2>1, <2>2, <3>1
  <2>3. CASE ~(Returned(t) /\ status[t] = "READY")
    <3>1. transport[t] = Null
      BY <2>3 DEF IInv, Local, LocalsOK, ResultOK, Returned
    <3>2. transport[t] \notin Fds
      BY <3>1 DEF Null, Fds
    <3>3. \A f \in Fds : owner[f] # t
      BY <2>1, <3>2
    <3> QED
      BY <2>3, <3>3
  <2> QED
    BY <2>2, <2>3
<1> QED
  BY <1>1, Inductive, PTL

(* mg_connect_ca and the session it leaves close each socket once, and     *)
(* only their own, so the abort() behind a failed close is not reached;    *)
(* neither is the one for parameters without a host or an address.  (As    *)
(* long as no trust callback has refused, as in ClosesAreSound.)           *)
THEOREM ClosesSound == Spec => []ClosesAreSound
<1>1. IInv => ClosesAreSound
  BY DEF IInv, SocketsHeld, ClosesAreSound
<1> QED
  BY <1>1, Inductive, PTL

(* Whatever fails, and whatever other threads do, mg_connect_ca leaves its *)
(* caller with what ResultMatchesSession says, also when a trust callback  *)
(* refuses: 0 with a READY session over an open transport, an error with a *)
(* BAD session without one, or MG_ERROR_OOM with the out parameter not     *)
(* written, and that only if there is no session.                          *)
THEOREM ResultsMatch == Spec => []ResultMatchesSession
<1>1. IInv => ResultMatchesSession
  BY DEF IInv, Local, ResultOK, ResultMatchesSession
<1> QED
  BY <1>1, Inductive, PTL

==============================================================================
