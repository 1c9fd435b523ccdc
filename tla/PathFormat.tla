----------------------------- MODULE PathFormat -----------------------------
(***************************************************************************)
(* The indices of a path: what mg_session_read_path checks of them once,   *)
(* and how mg_path_node_at and mg_path_relationship_at use them, without a *)
(* check, whenever a program walks the path.                               *)
(*                                                                         *)
(* A path is its nodes, its relationships and its sequence of indices, two *)
(* for each step: a relationship, then a node.                             *)
(***************************************************************************)
EXTENDS PackFormat

(* An integer of at most four bytes as a number. *)
Number(v) ==
  (IF IsNegative(v) THEN v[5] - 256 ELSE v[5]) * 16777216
    + v[6] * 65536 + v[7] * 256 + v[8]

(* Mutant: indices of relationships taken to begin at 0. *)
IndexFromZero(i, index, nodes, relationships) ==
  /\ Fits(index, 4)
  /\ IF i % 2 = 1
     THEN -relationships <= Number(index) /\ Number(index) <= relationships
     ELSE Number(index) >= 0 /\ Number(index) < nodes

(* The i-th index, counted from 1: relationships count from 1, with the    *)
(* direction as sign, nodes from 0.  The counts are below 2^31, so that an *)
(* index that needs more than four bytes is out of range.                  *)
IndexInRange(i, index, nodes, relationships) ==
  /\ Fits(index, 4)
  /\ IF i % 2 = 1
     THEN /\ Number(index) # 0
          /\ -relationships <= Number(index) /\ Number(index) <= relationships
     ELSE Number(index) >= 0 /\ Number(index) < nodes

(* There is a node to start from, every step is complete, and every index  *)
(* is in range.                                                            *)
PathAccepted(path) ==
  /\ Len(path[1]) > 0
  /\ Len(path[3]) % 2 = 0
  /\ \A i \in 1 .. Len(path[3]) :
       IndexInRange(i, path[3][i], Len(path[1]), Len(path[2]))

(* The index into nodes and relationships, counted from 0, for a position  *)
(* on the path.                                                            *)
mg_path_length(path) == Len(path[3]) \div 2
mg_path_node_at(path, pos) == IF pos = 0 THEN 0 ELSE Number(path[3][2 * pos])
mg_path_relationship_at(path, pos) ==
  LET idx == Number(path[3][2 * pos + 1])
  IN  (IF idx < 0 THEN -idx ELSE idx) - 1

(* At each position the accessors stay inside the path's nodes and         *)
(* relationships.                                                          *)
Walkable(path) ==
  /\ \A pos \in 0 .. mg_path_length(path) :
       mg_path_node_at(path, pos) \in 0 .. Len(path[1]) - 1
  /\ \A pos \in 0 .. mg_path_length(path) - 1 :
       mg_path_relationship_at(path, pos) \in 0 .. Len(path[2]) - 1

=============================================================================
