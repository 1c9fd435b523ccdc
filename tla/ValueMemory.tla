----------------------------- MODULE ValueMemory -----------------------------
(***************************************************************************)
(* The memory behind the values of mgvalue.c: how they are built, copied   *)
(* and destroyed block by block, when an allocation in the middle fails    *)
(* too.                                                                    *)
(*                                                                         *)
(* A memory m maps the addresses in use to blocks.  A block is as in       *)
(* module Values, except that its kids are addresses, 0 being NULL; cap is *)
(* how many kids it has room for.  It was taken from the system allocator, *)
(* or lies in the linear allocator of a decoder, where free() on it is     *)
(* undefined.  Everything copied here comes from the system allocator, the *)
(* only one the library ever passes to a copy function.                    *)
(*                                                                         *)
(* Out of memory: m.fail says which allocation from now on fails (1 is the *)
(* next one, 0 is none of them).  m.garbage is what an uninitialised count *)
(* turns out to be: not 0.  m.ub says that the behaviour is undefined from *)
(* here on: a block was freed that was not allocated, or NULL or a freed   *)
(* block was dereferenced.                                                 *)
(*                                                                         *)
(* An operation takes the memory and returns it, with the pointer p it     *)
(* produces where there is one.                                            *)
(***************************************************************************)
EXTENDS Values, SequencesExt

Live(m) == DOMAIN m.heap
Result(m, p) == [m |-> m, p |-> p]
Undefined(m) == [m EXCEPT !.ub = TRUE]

(* The lowest address that is not in use. *)
Fresh(m) ==
  CHOOSE a \in 1 .. Cardinality(Live(m)) + 1 :
    a \notin Live(m) /\ 1 .. (a - 1) \subseteq Live(m)

Cell(b, cap, from) ==
  [kind |-> b.kind, data |-> b.data, kids |-> <<>>, cap |-> cap, from |-> from]

(* mg_allocator_malloc, and the writes into the block's own fields. *)
mg_allocator_malloc(m, cell) ==
  IF m.fail = 1
  THEN Result([m EXCEPT !.fail = 0], 0)
  ELSE Result([m EXCEPT !.fail = IF @ = 0 THEN 0 ELSE @ - 1,
                        !.heap = @ @@ (Fresh(m) :> cell)], Fresh(m))

mg_allocator_free(m, p) ==
  IF p = 0 THEN m
  ELSE IF p \notin Live(m) \/ m.heap[p].from # "system" THEN Undefined(m)
  ELSE [m EXCEPT !.heap = [a \in Live(m) \ {p} |-> m.heap[a]]]

(* The tree below a pointer. *)
RECURSIVE Tree(_, _)
Tree(m, p) ==
  IF p = 0 THEN Block("nullptr", <<>>, <<>>)
  ELSE IF p \notin Live(m) THEN Block("dangling", <<>>, <<>>)
  ELSE Block(m.heap[p].kind, m.heap[p].data,
             [i \in 1 .. Len(m.heap[p].kids) |-> Tree(m, m.heap[p].kids[i])])

(* The addresses below a pointer, each as often as it is pointed at. *)
RECURSIVE Reach(_, _)
Reach(m, p) ==
  IF p = 0 THEN <<>>
  ELSE IF p \notin Live(m) THEN <<p>>
  ELSE <<p>> \o FlattenSeq([i \in 1 .. Len(m.heap[p].kids) |->
                              Reach(m, m.heap[p].kids[i])])

(* A tree laid out in memory: how the program came to have a value. *)
RECURSIVE Build(_, _, _)
Build(m, t, from) ==
  LET kids == FoldLeft(LAMBDA r, kid : LET b == Build(r.m, kid, from) IN
                                       Result(b.m, Append(r.p, b.p)),
                       Result(m, <<>>), t.kids) IN
  mg_allocator_malloc(kids.m, [Cell(t, Len(t.kids), from)
                                 EXCEPT !.kids = kids.p])

----------------------------------------------------------------------------
(* Destroying: what a block owns first, then the block. *)

RECURSIVE DestroyTree(_, _)

DestroyEach(m, ps) == FoldLeft(DestroyTree, m, ps)

KidsThenSelf(m, p) == mg_allocator_free(DestroyEach(m, m.heap[p].kids), p)

mg_value_destroy(m, val) == KidsThenSelf(m, val)
mg_string_destroy(m, str) == mg_allocator_free(m, str)
(* Mutant: the elements of a list are not destroyed. *)
ListDestroyShallow(m, list) == mg_allocator_free(m, list)

mg_list_destroy(m, list) == KidsThenSelf(m, list)
(* mg_empty_map, which is left alone, is a static default of mgclient.c    *)
(* (the "extra" of RUN and BEGIN) and never one of these blocks.           *)
mg_map_destroy(m, map) == KidsThenSelf(m, map)
mg_node_destroy(m, node) == KidsThenSelf(m, node)
mg_relationship_destroy(m, rel) == KidsThenSelf(m, rel)
mg_unbound_relationship_destroy(m, rel) == KidsThenSelf(m, rel)
mg_path_destroy(m, path) == KidsThenSelf(m, path)
(* mg_date_destroy and its like, mg_point_2d_destroy, mg_point_3d_destroy. *)
mg_leaf_destroy(m, p) == mg_allocator_free(m, p)

(* The destroy function of the static type; NULL is left alone. *)
DestroyTree(m, p) ==
  IF p = 0 THEN m
  ELSE IF p \notin Live(m) THEN Undefined(m)
  ELSE LET kind == m.heap[p].kind IN
  CASE kind \in ValueTypes    -> mg_value_destroy(m, p)
    [] kind = "string"        -> mg_string_destroy(m, p)
    [] kind = "list"          -> mg_list_destroy(m, p)
    [] kind = "map"           -> mg_map_destroy(m, p)
    [] kind = "node"          -> mg_node_destroy(m, p)
    [] kind = "relationship"  -> mg_relationship_destroy(m, p)
    [] kind = "unbound"       -> mg_unbound_relationship_destroy(m, p)
    [] kind = "path"          -> mg_path_destroy(m, p)
    [] kind \in {"temporal", "point"} -> mg_leaf_destroy(m, p)

----------------------------------------------------------------------------
(* Copying: the block, then a copy of each thing it owns, in order, until  *)
(* one cannot be made.                                                     *)

RECURSIVE CopyTree(_, _)

CopyNext(c, kid) ==
  IF ~c.ok THEN c
  ELSE LET r == CopyTree(c.m, kid) IN
       IF r.p = 0 THEN [c EXCEPT !.m = r.m, !.ok = FALSE]
                  ELSE [c EXCEPT !.m = r.m, !.done = Append(@, r.p)]

(* new is the new block, or NULL; done are the copies made. *)
Attempt(m, src) ==
  LET a == mg_allocator_malloc(m, Cell(m.heap[src],
                                       Len(m.heap[src].kids), "system")) IN
  FoldLeft(CopyNext,
           [m |-> a.m, new |-> a.p, done |-> <<>>, ok |-> a.p # 0],
           m.heap[src].kids)

Finished(c) == Result([c.m EXCEPT !.heap[c.new].kids = c.done], c.new)

(* What is left to do when an attempt ends: nothing, if it succeeded or    *)
(* the block could not be had; otherwise the memory is cleaned up.         *)
Ended(c, cleaned) ==
  IF c.ok THEN Finished(c)
  ELSE Result(IF c.new = 0 THEN c.m ELSE mg_allocator_free(cleaned, c.new), 0)

mg_string_copy(m, src) == LET c == Attempt(m, src) IN Ended(c, c.m)

(* Mutant: the elements copied so far are forgotten. *)
ListCopyLeaks(m, list) == LET c == Attempt(m, list) IN Ended(c, c.m)

mg_list_copy(m, list) ==
  LET c == Attempt(m, list) IN Ended(c, DestroyEach(c.m, c.done))

(* The clean-up goes over the keys and then the values of the map that is  *)
(* copied, not of the copy.                                                *)
mg_map_copy(m, map) ==
  LET c == Attempt(m, map)
      keys_copied == (Len(c.done) + 1) \div 2
      values_copied == Len(c.done) \div 2
      kids == m.heap[map].kids IN
  Ended(c, DestroyEach(c.m, [i \in 1 .. keys_copied |-> kids[2 * i - 1]]
                            \o [i \in 1 .. values_copied |-> kids[2 * i]]))

mg_node_copy(m, node) ==
  LET c == Attempt(m, node) IN Ended(c, DestroyEach(c.m, c.done))

mg_relationship_copy(m, rel) ==
  LET c == Attempt(m, rel) IN Ended(c, DestroyEach(c.m, c.done))

mg_unbound_relationship_copy(m, rel) ==
  LET c == Attempt(m, rel) IN Ended(c, DestroyEach(c.m, c.done))

(* relationship_count is still uninitialised when a node fails, and the    *)
(* clean-up then runs over that many relationships.                        *)
mg_path_copy(m, path) ==
  LET c == Attempt(m, path)
      node_count == m.heap[path].data[1]
      cleaned == DestroyEach(c.m, c.done) IN
  Ended(c, IF Len(c.done) < node_count /\ m.garbage THEN Undefined(cleaned)
           ELSE cleaned)

(* mg_date_copy and its like, mg_point_2d_copy, mg_point_3d_copy. *)
mg_leaf_copy(m, src) == LET c == Attempt(m, src) IN Ended(c, c.m)

(* Mutant: the union in the value is copied, so the payload is shared. *)
ValueCopyShares(m, val) ==
  mg_allocator_malloc(m, [m.heap[val] EXCEPT !.from = "system"])

mg_value_copy(m, val) == LET c == Attempt(m, val) IN Ended(c, c.m)

(* The copy function of the static type; NULL copies to NULL. *)
CopyTree(m, p) ==
  IF p = 0 THEN Result(m, 0)
  ELSE IF p \notin Live(m) THEN Result(Undefined(m), 0)
  ELSE LET kind == m.heap[p].kind IN
  CASE kind \in ValueTypes    -> mg_value_copy(m, p)
    [] kind = "string"        -> mg_string_copy(m, p)
    [] kind = "list"          -> mg_list_copy(m, p)
    [] kind = "map"           -> mg_map_copy(m, p)
    [] kind = "node"          -> mg_node_copy(m, p)
    [] kind = "relationship"  -> mg_relationship_copy(m, p)
    [] kind = "unbound"       -> mg_unbound_relationship_copy(m, p)
    [] kind = "path"          -> mg_path_copy(m, p)
    [] kind \in {"temporal", "point"} -> mg_leaf_copy(m, p)

----------------------------------------------------------------------------
(* Making: from parts that exist already. *)

mg_string_make2(m, s) ==
  mg_allocator_malloc(m, Cell(Block("string", <<s>>, <<>>), 0, "system"))

(* mg_value_make_null, _bool, _integer, _float: t is the value as a tree. *)
mg_value_make_scalar(m, t) == mg_allocator_malloc(m, Cell(t, 0, "system"))

(* mg_value_make_string2, _list, _map, ..., _point_3d: payload may be NULL. *)
mg_value_make(m, type, payload) ==
  mg_allocator_malloc(m, [Cell(Block(type, <<>>, <<>>), 1, "system")
                            EXCEPT !.kids = <<payload>>])

(* The string is lost when the value cannot be had. *)
mg_value_make_string(m, s) ==
  LET str == mg_string_make2(m, s) IN
  IF str.p = 0 THEN str ELSE mg_value_make(str.m, "STRING", str.p)

mg_list_make_empty(m, capacity) ==
  mg_allocator_malloc(m, Cell(Block("list", <<>>, <<>>), capacity, "system"))

(* A map has room for a key and a value per entry. *)
mg_map_make_empty(m, capacity) ==
  mg_allocator_malloc(m, Cell(Block("map", <<>>, <<>>), 2 * capacity, "system"))

(* The inserting functions return the memory and whether they succeeded. *)
Insertion(m, ok) == [m |-> m, ok |-> ok]

mg_list_append(m, list, value) ==
  IF Len(m.heap[list].kids) >= m.heap[list].cap
  THEN Insertion(m, FALSE)
  ELSE Insertion([m EXCEPT !.heap[list].kids = Append(@, value)], TRUE)

mg_map_append(m, map, key, value) ==
  [m EXCEPT !.heap[map].kids = @ \o <<key, value>>]

(* The keys are looked at in order until one is the new one.  A key that   *)
(* could not be allocated, the new one or one inserted unsafely before, is *)
(* dereferenced all the same.                                              *)
mg_map_insert2(m, map, key, value) ==
  LET b == m.heap[map]
      stop == {i \in 1 .. mg_map_size(b) :
                 \/ 0 \in {key, mg_map_key_at(b, i)}
                 \/ m.heap[mg_map_key_at(b, i)].data = m.heap[key].data} IN
  IF Len(b.kids) >= b.cap THEN Insertion(m, FALSE)
  ELSE IF key = 0 THEN Insertion(Undefined(m), FALSE)
  ELSE IF stop = {} THEN Insertion(mg_map_append(m, map, key, value), TRUE)
  ELSE Insertion(IF mg_map_key_at(b, Min(stop)) = 0 THEN Undefined(m) ELSE m,
                 FALSE)

mg_map_insert_unsafe2(m, map, key, value) ==
  LET b == m.heap[map] IN
  IF Len(b.kids) >= b.cap THEN Insertion(m, FALSE)
  ELSE Insertion(mg_map_append(m, map, key, value), TRUE)

=============================================================================
