--------------------------- MODULE DecodedMessages ---------------------------
(***************************************************************************)
(* The lifetime of decoded messages.  A call of the API receives a message *)
(* (which resets the linear allocator), decodes it into the allocator's    *)
(* blocks, uses it, and either drops it or keeps it in result.message for  *)
(* the user until the next call.  A FAILURE is acknowledged inside the     *)
(* call, and the reply to the acknowledgement is another message.          *)
(*                                                                         *)
(* mg_message_destroy_ca frees nothing here, but walks the message: it is  *)
(* a use of its objects.                                                   *)
(***************************************************************************)
EXTENDS LinearAllocator

CONSTANTS
  Lengths,     \* lengths of decoded objects
  MaxObjects   \* bound: objects of a message

ASSUME LengthsAssumption == Lengths \subseteq Nat \ {0} /\ MaxObjects \in Nat

(* The pointers to decoded messages: session->result.message, response of  *)
(* the call, response of handle_failure.                                   *)
Pointers == {"result", "response", "ack"}

Calls == {"run", "pull", "fetch", "begin", "end"}
Types == {"SUCCESS", "FAILURE", "RECORD", "other"}

VARIABLES
  pc,
  call,      \* the call in progress
  acking,    \* inside handle_failure
  message,   \* the objects each pointer leads to; {}: NULL
  stale      \* history: pointers whose memory was reset under them

session_vars == <<pc, call, acking, message, stale>>
vars == <<allocator_vars, session_vars>>

Init ==
  /\ AllocatorInit
  /\ pc = "idle" /\ call = "run" /\ acking = FALSE
  /\ message = [p \in Pointers |-> {}]
  /\ stale = {}

Cleared(ps) ==
  /\ message' = [p \in Pointers |-> IF p \in ps THEN {} ELSE message[p]]
  /\ stale' = stale \ ps

(* The pointer being decoded into. *)
Target == IF acking THEN "ack" ELSE "response"

(* mg_session_invalidate; the locals of the call are gone. *)
Invalidate ==
  /\ pc' = "bad"
  /\ acking' = FALSE
  /\ Cleared({"response", "ack"})
  /\ UNCHANGED call

----------------------------------------------------------------------------
(* Mutant: the result of the last call stays where it is. *)
ResultKept(c) ==
  /\ pc = "idle"
  /\ call' = c
  /\ pc' = IF c = "pull" THEN "idle" ELSE "receive"
  /\ UNCHANGED <<acking, message, stale, allocator_vars>>

(* The start of mg_session_run, _pull, _fetch, _begin_transaction and      *)
(* _end_transaction: the last result is destroyed and the request sent;    *)
(* mg_session_fetch sends none, mg_session_pull waits for no reply.        *)
StartCall(c) ==
  /\ pc = "idle"
  /\ Cleared({"result"})
  /\ call' = c
  /\ \/ pc' = IF c = "pull" THEN "idle" ELSE "receive"
     \/ pc' = "bad" /\ c # "fetch"
  /\ UNCHANGED <<acking, allocator_vars>>

(* mg_session_receive_message: all decoded objects are released. *)
mg_session_receive_message ==
  /\ pc = "receive"
  /\ objects' = {}
  /\ stale' = stale \cup {p \in Pointers : message[p] # {}}
  /\ pc' = "reset"
  /\ UNCHANGED <<heap, next, size, current_block, current_offset, call, acking, message>>

mg_linear_allocator_reset ==
  /\ pc = "reset"
  /\ \/ ResetFrees /\ UNCHANGED pc
     \/ ResetEnds /\ pc' = "decode"
  /\ UNCHANGED <<call, acking, message, stale>>

(* The connection is lost, or the bytes are no message. *)
ReceiveOrDecodeFails ==
  /\ pc = "decode"
  /\ Invalidate
  /\ UNCHANGED allocator_vars

(* mg_session_read_bolt_message: one of its allocations, ... *)
Decode(length) ==
  /\ pc = "decode"
  /\ Cardinality(message[Target]) < MaxObjects
  /\ mg_linear_allocator_malloc(length)
  /\ message' = [message EXCEPT ![Target] = @ \cup (objects' \ objects)]
  /\ UNCHANGED <<pc, call, acking, stale>>

(* ... one that finds no memory, ... *)
DecodeWithoutMemory(length) ==
  /\ pc = "decode"
  /\ WritesThroughNull(length)
  /\ pc' = "crashed"
  /\ UNCHANGED <<call, acking, message, stale, allocator_vars>>

(* ... and its return. *)
Decoded ==
  /\ pc = "decode"
  /\ message[Target] # {}
  /\ pc' = "handle"
  /\ UNCHANGED <<call, acking, message, stale, allocator_vars>>

(* The message is used and dropped. *)
HandleDropped(type) ==
  /\ call \in {"run", "begin"} /\ type = "SUCCESS"
  /\ Cleared({"response"})
  /\ pc' = "idle"
  /\ UNCHANGED <<call, acking>>

(* The message becomes session->result.message. *)
HandleKept(type) ==
  /\ \/ call \in {"fetch", "end"} /\ type = "SUCCESS"
     \/ call = "fetch" /\ type = "RECORD"
  /\ message' = [message EXCEPT !["result"] = message["response"], !["response"] = {}]
  /\ stale' = IF "response" \in stale THEN {"result"} ELSE {}
  /\ pc' = "idle"
  /\ UNCHANGED <<call, acking>>

(* FAILURE: handle_failure_message, then handle_failure sends the          *)
(* acknowledgement.                                                        *)
HandleFailure(type) ==
  /\ type = "FAILURE"
  /\ acking' = TRUE
  /\ pc' = "receive"
  /\ UNCHANGED <<call, message, stale>>

(* A type the call does not expect, metadata it cannot use, or a failure   *)
(* to send the acknowledgement.  Only begin and end take every SUCCESS.    *)
HandleFatal(type) ==
  /\ ~(call \in {"begin", "end"} /\ type = "SUCCESS")
  /\ ~(call = "fetch" /\ type = "RECORD")
  /\ Invalidate

Handle(type) ==
  /\ pc = "handle" /\ ~acking
  /\ \/ HandleDropped(type) \/ HandleKept(type)
     \/ HandleFailure(type) \/ HandleFatal(type)
  /\ UNCHANGED allocator_vars

(* handle_failure returns; its caller destroys the FAILURE. *)
Acknowledged ==
  /\ pc = "handle" /\ acking
  /\ \/ /\ Cleared({"ack"})
        /\ acking' = FALSE
        /\ pc' = "destroyFailure"
        /\ UNCHANGED call
     \/ Invalidate
  /\ UNCHANGED allocator_vars

DestroyFailure ==
  /\ pc = "destroyFailure"
  /\ Cleared({"response"})
  /\ pc' = "idle"
  /\ UNCHANGED <<call, acking, allocator_vars>>

(* mg_session_destroy: result.message is destroyed, then the allocator. *)
mg_session_destroy ==
  /\ pc \in {"idle", "bad"}
  /\ Cleared({"result"})
  /\ objects' = {}
  /\ pc' = "destroy"
  /\ UNCHANGED <<call, acking, heap, next, size, current_block, current_offset>>

mg_linear_allocator_destroy ==
  /\ pc = "destroy"
  /\ \/ DestroyFrees /\ UNCHANGED pc
     \/ current_block = NULL /\ pc' = "destroyed" /\ UNCHANGED allocator_vars
  /\ UNCHANGED <<call, acking, message, stale>>

Stopped == pc \in {"crashed", "destroyed"} /\ UNCHANGED vars

Next ==
  \/ \E c \in Calls : StartCall(c)
  \/ mg_session_receive_message \/ mg_linear_allocator_reset
  \/ ReceiveOrDecodeFails
  \/ \E length \in Lengths : Decode(length) \/ DecodeWithoutMemory(length)
  \/ Decoded
  \/ \E type \in Types : Handle(type)
  \/ Acknowledged \/ DestroyFailure
  \/ mg_session_destroy \/ mg_linear_allocator_destroy
  \/ Stopped

Spec == Init /\ [][Next]_vars

----------------------------------------------------------------------------
Labels == {"idle", "receive", "reset", "decode", "handle", "destroyFailure",
           "bad", "destroy", "destroyed", "crashed"}

TypeOK ==
  /\ AllocatorTypeOK
  /\ pc \in Labels /\ call \in Calls /\ acking \in BOOLEAN
  /\ message \in [Pointers -> SUBSET Object]
  /\ stale \subseteq Pointers

(* The objects a pointer leads to are as they were decoded. *)
Intact(p) == p \notin stale /\ message[p] \subseteq objects

(* The pointers that are followed: the user's result at any time, the      *)
(* message a call looks at, and what mg_message_destroy_ca walks.          *)
Used == {"result"} \cup (IF pc = "handle" THEN {Target} ELSE {})
                   \cup (IF pc = "destroyFailure" THEN {"response"} ELSE {})

(* Whatever the order of calls, and however many messages a call has       *)
(* received inside it, a message that is used is intact, with one          *)
(* exception, and that one never is: the FAILURE whose acknowledgement     *)
(* handle_failure received is walked by mg_message_destroy_ca after the    *)
(* allocator was reset under it (mgclient.c:792, 918, 997 and 1075).  In   *)
(* particular the result the user holds stays intact until the next call   *)
(* or the end of the session.                                              *)
OnlyFailureIsStale ==
  \A p \in Used : Intact(p) <=> ~(p = "response" /\ pc = "destroyFailure")

==============================================================================
