----------------------------- MODULE AnyServer -----------------------------
(***************************************************************************)
(* The client against a peer about which nothing is assumed: it may send   *)
(* any message at any time, asked or not, and close the connection.  What  *)
(* holds here the client guarantees by itself.                             *)
(***************************************************************************)
EXTENDS MgSession

anyVars == <<clientVars, channelVars>>

AnyResponse ==
  { Success(q, f, h) : q \in Qids \cup {NoQid}, f \in {"list", "invalid"},
                       h \in {"absent", "true", "false", "invalid"} }
  \cup { Record(q) : q \in Qids }
  \cup { Failure(c) : c \in Codes }
  \cup { Resp("OTHER"), Resp("GARBAGE") }

PeerTakes ==
  /\ peer = "up"
  /\ c2s # <<>>
  /\ c2s' = Tail(c2s)
  /\ UNCHANGED <<clientVars, transport, peer, s2c>>

PeerSends ==
  /\ peer = "up"
  /\ transport = "open"
  /\ Len(s2c) < MaxInFlight
  /\ \E m \in AnyResponse : s2c' = Append(s2c, m)
  /\ UNCHANGED <<clientVars, transport, peer, c2s>>

PeerCloses ==
  /\ peer = "up"
  /\ peer' = "down"
  /\ c2s' = <<>>
  /\ UNCHANGED <<clientVars, transport, s2c>>

(* The program has destroyed the session and is done. *)
AnyFinished == call = "destroyed" /\ UNCHANGED anyVars

AnyInit == ClientInit

AnyNext == ClientNext \/ PeerTakes \/ PeerSends \/ PeerCloses \/ AnyFinished

AnySpec == AnyInit /\ [][AnyNext]_anyVars

----------------------------------------------------------------------------
(* A BAD session stays BAD and on no connection, and a call on it returns  *)
(* MG_ERROR_BAD_CALL without a message being sent: it can only be          *)
(* destroyed.                                                              *)
BadIsFinal ==
  [][ status = "BAD" =>
        /\ status' = "BAD" /\ transport' = "null"
        /\ call' \in {"none", "destroyed"}
        /\ Len(c2s') <= Len(c2s)
        /\ (call' = "none" /\ ret' # ret => ret' = MG_ERROR_BAD_CALL) ]_anyVars

============================================================================
