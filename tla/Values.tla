------------------------------- MODULE Values -------------------------------
(***************************************************************************)
(* Values as mgvalue.c builds them, and the two equalities there are on    *)
(* them: mg_value_equal of the C library and detail::AreValuesEqual, which *)
(* is operator== of the C++ wrappers.                                      *)
(*                                                                         *)
(* A value is the tree of its blocks, one node for each allocation: an     *)
(* mg_value (its kind is the type, in capitals) has the block of its       *)
(* payload below it, unless it is a scalar.  data are the numbers a block  *)
(* holds, kids the blocks it points to, in the order in which they are     *)
(* copied: for a map key, value, key, value ...; for a node the labels and *)
(* then the properties; for a path the nodes and then the relationships.   *)
(*                                                                         *)
(* The contents of a string and a floating point number are numbers here:  *)
(* only equality of strings matters, and of the doubles only that 0.0 and  *)
(* -0.0 are equal and NaN is equal to nothing.                             *)
(***************************************************************************)
EXTENDS Integers, Sequences, FiniteSets

Block(k, d, ks) == [kind |-> k, data |-> d, kids |-> ks]

(* The bit patterns of the doubles that compare in an unusual way. *)
PlusZero  == 0
MinusZero == 1
NaN       == 2

(* operator== on two doubles. *)
DoubleEq(x, y) ==
  /\ NaN \notin {x, y}
  /\ x = y \/ {x, y} = {PlusZero, MinusZero}

(* mg_value_type: the types whose value lies in the mg_value itself, and   *)
(* the structs with integer fields, or with a srid and doubles.            *)
ScalarTypes == {"NULL", "BOOL", "INTEGER", "FLOAT", "UNKNOWN"}
TemporalTypes == {"DATE", "TIME", "LOCAL_TIME", "DATE_TIME",
                  "DATE_TIME_ZONE_ID", "LOCAL_DATE_TIME", "DURATION"}
SpatialTypes == {"POINT_2D", "POINT_3D"}
ValueTypes == ScalarTypes \cup TemporalTypes \cup SpatialTypes
              \cup {"STRING", "LIST", "MAP", "NODE", "RELATIONSHIP",
                    "UNBOUND_RELATIONSHIP", "PATH"}

(* An mg_map: entry i is kids[2i-1] and kids[2i]. *)
mg_map_size(map) == Len(map.kids) \div 2
mg_map_key_at(map, i) == map.kids[2 * i - 1]
mg_map_value_at(map, i) == map.kids[2 * i]

(* An mg_node: the labels come before the properties. *)
mg_node_label_count(node) == Len(node.kids) - 1
mg_node_labels(node) == SubSeq(node.kids, 1, mg_node_label_count(node))
mg_node_properties(node) == node.kids[Len(node.kids)]

(* An mg_path: data is node_count followed by the sequence. *)
mg_path_sequence(path) == Tail(path.data)
mg_path_length(path) == Len(mg_path_sequence(path)) \div 2

mg_path_node_at(path, pos) ==
  IF pos = 0 THEN path.kids[1]
             ELSE path.kids[mg_path_sequence(path)[2 * pos] + 1]

mg_path_relationship_at(path, pos) ==
  LET idx == mg_path_sequence(path)[2 * pos + 1] IN
  path.kids[path.data[1] + (IF idx < 0 THEN -idx ELSE idx)]

mg_path_relationship_reversed_at(path, pos) ==
  mg_path_sequence(path)[2 * pos + 1] < 0

----------------------------------------------------------------------------
(* The C library. *)

RECURSIVE BlockEqual(_, _)

(* Two arrays of pointers, compared position by position. *)
Pairwise(lhs, rhs) ==
  /\ Len(lhs.kids) = Len(rhs.kids)
  /\ \A i \in 1 .. Len(lhs.kids) : BlockEqual(lhs.kids[i], rhs.kids[i])

mg_string_equal(lhs, rhs) == lhs.data = rhs.data

(* Entries are compared in the order in which they were inserted. *)
mg_map_equal(lhs, rhs) == Pairwise(lhs, rhs)

mg_node_equal(lhs, rhs) == lhs.data = rhs.data /\ Pairwise(lhs, rhs)

mg_relationship_equal(lhs, rhs) == lhs.data = rhs.data /\ Pairwise(lhs, rhs)

mg_unbound_relationship_equal(lhs, rhs) ==
  lhs.data = rhs.data /\ Pairwise(lhs, rhs)

mg_path_equal(lhs, rhs) == lhs.data = rhs.data /\ Pairwise(lhs, rhs)

(* mg_date_equal and its like. *)
mg_temporal_equal(lhs, rhs) == lhs.data = rhs.data

(* mg_point_2d_equal, mg_point_3d_equal. *)
mg_point_equal(lhs, rhs) ==
  /\ lhs.data[1] = rhs.data[1]
  /\ \A i \in 2 .. Len(lhs.data) : DoubleEq(lhs.data[i], rhs.data[i])

(* A FLOAT is compared by its bits, a BOOL by its truth value. *)
mg_value_equal(lhs, rhs) ==
  /\ lhs.kind = rhs.kind
  /\ CASE lhs.kind = "NULL" -> TRUE
       [] lhs.kind = "BOOL" -> (lhs.data[1] = 0) = (rhs.data[1] = 0)
       [] lhs.kind \in {"INTEGER", "FLOAT"} -> lhs.data = rhs.data
       [] lhs.kind = "UNKNOWN" -> FALSE
       [] OTHER -> BlockEqual(lhs.kids[1], rhs.kids[1])

(* The comparison the static type of the two pointers selects. *)
BlockEqual(lhs, rhs) ==
  CASE lhs.kind \in ValueTypes      -> mg_value_equal(lhs, rhs)
    [] lhs.kind = "string"          -> mg_string_equal(lhs, rhs)
    [] lhs.kind = "list"            -> Pairwise(lhs, rhs)
    [] lhs.kind = "map"             -> mg_map_equal(lhs, rhs)
    [] lhs.kind = "node"            -> mg_node_equal(lhs, rhs)
    [] lhs.kind = "relationship"    -> mg_relationship_equal(lhs, rhs)
    [] lhs.kind = "unbound"         -> mg_unbound_relationship_equal(lhs, rhs)
    [] lhs.kind = "path"            -> mg_path_equal(lhs, rhs)
    [] lhs.kind = "temporal"        -> mg_temporal_equal(lhs, rhs)
    [] lhs.kind = "point"           -> mg_point_equal(lhs, rhs)

----------------------------------------------------------------------------
(* The C++ wrappers, on two different objects (the same pointer is always  *)
(* equal to itself there).                                                 *)

RECURSIVE AreValuesEqual(_, _)

AreListsEqual(l, r) ==
  /\ Len(l.kids) = Len(r.kids)
  /\ \A i \in 1 .. Len(l.kids) : AreValuesEqual(l.kids[i], r.kids[i])

(* The first entry with the key, or mg_map_size(map) + 1. *)
mg_map_find_key(map, key) ==
  LET found == {i \in 1 .. mg_map_size(map) :
                  mg_string_equal(mg_map_key_at(map, i), key)} IN
  IF found = {} THEN mg_map_size(map) + 1
  ELSE CHOOSE i \in found : \A j \in found : i <= j

(* Mutant: the sizes are not compared, so a map equals any larger one. *)
MapContained(l, r) ==
  \A i \in 1 .. mg_map_size(l) :
    LET at == mg_map_find_key(r, mg_map_key_at(l, i)) IN
    /\ at <= mg_map_size(r)
    /\ AreValuesEqual(mg_map_value_at(l, i), mg_map_value_at(r, at))

(* Each entry of the one is looked up in the other by its key. *)
AreMapsEqual(l, r) ==
  /\ mg_map_size(l) = mg_map_size(r)
  /\ \A i \in 1 .. mg_map_size(l) :
       LET at == mg_map_find_key(r, mg_map_key_at(l, i)) IN
       /\ at <= mg_map_size(r)
       /\ AreValuesEqual(mg_map_value_at(l, i), mg_map_value_at(r, at))

(* The labels are compared as sets. *)
AreNodesEqual(l, r) ==
  /\ l.data = r.data
  /\ mg_node_label_count(l) = mg_node_label_count(r)
  /\ {l.kids[i].data : i \in 1 .. mg_node_label_count(l)}
       = {r.kids[i].data : i \in 1 .. mg_node_label_count(r)}
  /\ AreMapsEqual(mg_node_properties(l), mg_node_properties(r))

AreRelationshipsEqual(l, r) ==
  /\ l.data = r.data
  /\ mg_string_equal(l.kids[1], r.kids[1])
  /\ AreMapsEqual(l.kids[2], r.kids[2])

AreUnboundRelationshipsEqual(l, r) ==
  /\ l.data = r.data
  /\ mg_string_equal(l.kids[1], r.kids[1])
  /\ AreMapsEqual(l.kids[2], r.kids[2])

(* Two paths are walked along; how their arrays are laid out is not seen. *)
ArePathsEqual(l, r) ==
  LET len == mg_path_length(l) IN
  /\ len = mg_path_length(r)
  /\ \A i \in 0 .. len :
       AreNodesEqual(mg_path_node_at(l, i), mg_path_node_at(r, i))
  /\ \A i \in 0 .. len - 1 :
       /\ AreUnboundRelationshipsEqual(mg_path_relationship_at(l, i),
                                       mg_path_relationship_at(r, i))
       /\ mg_path_relationship_reversed_at(l, i)
            = mg_path_relationship_reversed_at(r, i)

(* AreDatesEqual and its like. *)
AreTemporalsEqual(l, r) == l.data = r.data

ArePointsEqual(l, r) ==
  /\ l.data[1] = r.data[1]
  /\ \A i \in 2 .. Len(l.data) : DoubleEq(l.data[i], r.data[i])

(* A FLOAT is compared as a number, a BOOL by the int it was made from.    *)
(* UNKNOWN, which throws, does not occur in what is compared here.         *)
AreValuesEqual(l, r) ==
  /\ l.kind = r.kind
  /\ CASE l.kind = "NULL" -> TRUE
       [] l.kind \in {"BOOL", "INTEGER"} -> l.data = r.data
       [] l.kind = "FLOAT"  -> DoubleEq(l.data[1], r.data[1])
       [] l.kind = "STRING" -> mg_string_equal(l.kids[1], r.kids[1])
       [] l.kind = "LIST"   -> AreListsEqual(l.kids[1], r.kids[1])
       [] l.kind = "MAP"    -> AreMapsEqual(l.kids[1], r.kids[1])
       [] l.kind = "NODE"   -> AreNodesEqual(l.kids[1], r.kids[1])
       [] l.kind = "RELATIONSHIP" ->
            AreRelationshipsEqual(l.kids[1], r.kids[1])
       [] l.kind = "UNBOUND_RELATIONSHIP" ->
            AreUnboundRelationshipsEqual(l.kids[1], r.kids[1])
       [] l.kind = "PATH"   -> ArePathsEqual(l.kids[1], r.kids[1])
       [] l.kind \in TemporalTypes ->
            AreTemporalsEqual(l.kids[1], r.kids[1])
       [] l.kind \in SpatialTypes -> ArePointsEqual(l.kids[1], r.kids[1])

----------------------------------------------------------------------------
(* No map below has a key twice, no double is NaN, no BOOL was made from   *)
(* an int other than 0 and 1, and no pointer is NULL.                      *)
RECURSIVE WellFormed(_)
WellFormed(t) ==
  /\ t.kind \notin {"UNKNOWN", "nullptr"}
  /\ t.kind = "BOOL" => t.data[1] \in {0, 1}
  /\ t.kind = "FLOAT" => t.data[1] # NaN
  /\ t.kind = "point" => \A i \in 2 .. Len(t.data) : t.data[i] # NaN
  /\ t.kind = "map" =>
       \A i, j \in 1 .. mg_map_size(t) :
         i # j => mg_map_key_at(t, i).data # mg_map_key_at(t, j).data
  /\ \A i \in 1 .. Len(t.kids) : WellFormed(t.kids[i])

=============================================================================
