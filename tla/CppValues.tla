------------------------------ MODULE CppValues ------------------------------
(***************************************************************************)
(* A program that works with the values of mgclient-value.hpp: objects of  *)
(* the classes Value, List, Map, Node ... Point3d, each owning what its    *)
(* ptr_ refers to, over the memory of module ValueMemory.  There is also a *)
(* ConstValue that owns nothing: a field of a row in the decoder's linear  *)
(* allocator, or a value that belongs to another part of the program.      *)
(*                                                                         *)
(* Each action is one call; one allocation in it may fail.  A program that *)
(* uses an object looks whether its ptr() is null first, as that is the    *)
(* only sign of a constructor that failed.                                 *)
(***************************************************************************)
EXTENDS ValueMemory

CONSTANTS
  Slots,       \* the variables the program keeps objects in
  Universe,    \* the trees the ConstValue may be
  Scalars,     \* the scalars the program makes values from
  Keys,        \* the keys it inserts at
  Capacities,  \* the capacities it makes containers of
  MaxCalls     \* how many calls the program makes, for each of the trees

VARIABLES
  mem,     \* the memory
  objs,    \* slot -> class and ptr_ of the object in it
  view,    \* what the ConstValue points to
  row,     \* ... and the tree it was when the program got it
  calls,   \* how many calls have been made
  op       \* the last call

vars == <<mem, objs, view, row, calls, op>>

NoObject == [class |-> "none", ptr |-> 0]

(* The classes that own what is below a value, and Value itself; there is  *)
(* none for strings.                                                       *)
WrapperClasses ==
  {"Value", "LIST", "MAP", "NODE", "RELATIONSHIP", "UNBOUND_RELATIONSHIP",
   "PATH"} \cup TemporalTypes \cup SpatialTypes

(* The classes whose assignment operators are defined. *)
AssignableClasses == TemporalTypes \cup SpatialTypes

(* name: the call; ok: whether the caller is told that it succeeded; src:  *)
(* what it copied, or 0; copied: whether that copy could be made; slot:    *)
(* the object it made.                                                     *)
Call(name, ok, src, copied, slot) ==
  [name |-> name, ok |-> ok, src |-> src, copied |-> copied, slot |-> slot]

Init ==
  /\ \E t \in Universe, from \in {"linear", "system"} :
       LET b == Build([heap |-> <<>>, fail |-> 0, garbage |-> FALSE,
                       ub |-> FALSE], t, from) IN
       mem = b.m /\ view = b.p /\ row = t
  /\ objs = [s \in Slots |-> NoObject]
  /\ calls = 0
  /\ op = Call("none", TRUE, 0, FALSE, 0)

(* The objects and what can be read through them: ValueList() and so on. *)
Readable ==
  LET whole == {[class |-> "Value", ptr |-> view]}
                 \cup {objs[s] : s \in {x \in Slots : objs[x].ptr # 0}} IN
  whole \cup
    {[class |-> mem.heap[v.ptr].kind, ptr |-> mem.heap[v.ptr].kids[1]] :
       v \in {w \in whole : /\ w.class = "Value"
                            /\ mem.heap[w.ptr].kind \in WrapperClasses
                            /\ mem.heap[w.ptr].kids[1] # 0}}

(* How many allocations a copy of it takes. *)
Blocks(src) == Len(Reach(mem, src.ptr))

(* Some map below has an entry, or there is a path: a copy that fails in   *)
(* the middle of it may damage what it copies.                             *)
RECURSIVE Fragile(_)
Fragile(t) ==
  \/ t.kind = "path"
  \/ t.kind = "map" /\ t.kids # <<>>
  \/ \E i \in 1 .. Len(t.kids) : Fragile(t.kids[i])

(* Nothing can be said of the program from here on. *)
Spoiled ==
  \/ mem.ub
  \/ op.src # 0 /\ ~op.copied /\ Fragile(Tree(mem, op.src))

(* The next call, whose n-th allocation fails. *)
Calling == ~Spoiled /\ calls < MaxCalls[row] /\ calls' = calls + 1
Armed(n, garbage) == [mem EXCEPT !.fail = n, !.garbage = garbage]
Returns(m, call) ==
  /\ mem' = [m EXCEPT !.fail = 0, !.garbage = FALSE]
  /\ op' = call
  /\ UNCHANGED <<view, row>>

(* An object of some class is put into the empty slot s. *)
Construct(s, class, r, call) ==
  /\ objs[s] = NoObject
  /\ objs' = [objs EXCEPT ![s] = [class |-> class, ptr |-> r.p]]
  /\ Returns(r.m, call)

----------------------------------------------------------------------------
(* Constructors and destructors. *)

(* X(const X&), X(const ConstX&), X from a const pointer to an mg_x. *)
CopyConstruct(s) ==
  /\ Calling
  /\ \E src \in Readable : \E n \in 0 .. Blocks(src), garbage \in BOOLEAN :
       LET r == CopyTree(Armed(n, garbage), src.ptr) IN
       Construct(s, src.class, r,
                 Call("copy", r.p # 0, src.ptr, r.p # 0, s))

(* Mutant: the object moved from keeps its pointer. *)
MoveKeeps(s, o) ==
  /\ Calling
  /\ objs[o].class # "none" /\ objs[s] = NoObject
  /\ objs' = [objs EXCEPT ![s] = objs[o]]
  /\ Returns(mem, Call("move", TRUE, 0, FALSE, s))

(* X(X&&). *)
MoveConstruct(s, o) ==
  /\ Calling
  /\ objs[o].class # "none" /\ objs[s] = NoObject
  /\ objs' = [objs EXCEPT ![s] = objs[o], ![o].ptr = 0]
  /\ Returns(mem, Call("move", TRUE, 0, FALSE, s))

(* ~X(). *)
Destruct(s) ==
  /\ Calling
  /\ objs[s].class # "none"
  /\ objs' = [objs EXCEPT ![s] = NoObject]
  /\ Returns(DestroyTree(mem, objs[s].ptr), Call("destroy", TRUE, 0, FALSE, s))

(* Value(), Value(bool), Value(int), Value(double). *)
MakeScalar(s) ==
  /\ Calling
  /\ \E t \in Scalars, n \in 0 .. 1 :
       LET r == mg_value_make_scalar(Armed(n, FALSE), t) IN
       Construct(s, "Value", r, Call("make", r.p # 0, 0, FALSE, s))

(* Value(std::string_view): a string that could not be had goes into the   *)
(* value as NULL.                                                          *)
MakeString2(s) ==
  /\ Calling
  /\ \E k \in Keys, n \in 0 .. 2 :
       LET str == mg_string_make2(Armed(n, FALSE), k)
           r == mg_value_make(str.m, "STRING", str.p) IN
       Construct(s, "Value", r, Call("make", r.p # 0, 0, FALSE, s))

(* Value from a pointer to const char. *)
MakeString(s) ==
  /\ Calling
  /\ \E k \in Keys, n \in 0 .. 2 :
       LET r == mg_value_make_string(Armed(n, FALSE), k) IN
       Construct(s, "Value", r, Call("make", r.p # 0, 0, FALSE, s))

(* List(size_t capacity), Map(size_t capacity). *)
MakeContainer(s) ==
  /\ Calling
  /\ \E c \in Capacities, n \in 0 .. 1 :
       \/ LET r == mg_list_make_empty(Armed(n, FALSE), c) IN
          Construct(s, "LIST", r, Call("make", r.p # 0, 0, FALSE, s))
       \/ LET r == mg_map_make_empty(Armed(n, FALSE), c) IN
          Construct(s, "MAP", r, Call("make", r.p # 0, 0, FALSE, s))

(* Value(List&&) ... Value(Point3d&&): the payload leaves its object also  *)
(* when the value could not be had.                                        *)
Wrap(s, o) ==
  /\ Calling
  /\ objs[o].class \in WrapperClasses \ {"Value"} /\ objs[o].ptr # 0
  /\ objs[s] = NoObject
  /\ \E n \in 0 .. 1 :
       LET r == mg_value_make(Armed(n, FALSE), objs[o].class, objs[o].ptr) IN
       /\ objs' = [objs EXCEPT ![s] = [class |-> "Value", ptr |-> r.p],
                               ![o].ptr = 0]
       /\ Returns(r.m, Call("wrap", r.p # 0, 0, FALSE, s))

(* operator=(const X&), on itself too: what it had before is not freed. *)
CopyAssign(s, o) ==
  /\ Calling
  /\ objs[s].class \in AssignableClasses /\ objs[o].class = objs[s].class
  /\ \E n \in 0 .. 1 :
       LET r == CopyTree(Armed(n, FALSE), objs[o].ptr) IN
       /\ objs' = [objs EXCEPT ![s].ptr = r.p]
       /\ Returns(r.m, Call("assign", r.p # 0, objs[o].ptr, r.p # 0, s))

(* operator=(X&&). *)
MoveAssign(s, o) ==
  /\ Calling
  /\ objs[s].class \in AssignableClasses /\ objs[o].class = objs[s].class
  /\ objs' = [[objs EXCEPT ![s].ptr = objs[o].ptr] EXCEPT ![o].ptr = 0]
  /\ Returns(mem, Call("assign", TRUE, 0, FALSE, s))

----------------------------------------------------------------------------
(* Containers. *)

Container(s, class) == objs[s].class = class /\ objs[s].ptr # 0
HeldValue(o) == objs[o].class = "Value" /\ objs[o].ptr # 0

(* List::Append(const Value&), Append(const ConstValue&): a copy that      *)
(* could not be made is appended as NULL, one the list has no room for is  *)
(* dropped.                                                                *)
AppendCopy(s) ==
  /\ Calling
  /\ Container(s, "LIST")
  /\ \E src \in {x \in Readable : x.class = "Value"} :
     \E n \in 0 .. Blocks(src), garbage \in BOOLEAN :
       LET copy == CopyTree(Armed(n, garbage), src.ptr)
           r == mg_list_append(copy.m, objs[s].ptr, copy.p) IN
       Returns(r.m, Call("append", r.ok, src.ptr, copy.p # 0, s))
  /\ UNCHANGED objs

(* List::Append(Value&&): the value is taken, or dropped. *)
AppendMove(s, o) ==
  /\ Calling
  /\ Container(s, "LIST") /\ HeldValue(o)
  /\ LET r == mg_list_append(mem, objs[s].ptr, objs[o].ptr) IN
     Returns(r.m, Call("append", r.ok, 0, FALSE, s))
  /\ objs' = [objs EXCEPT ![o].ptr = 0]

(* Map::Insert(key, const Value&), Map::InsertUnsafe(key, const Value&):   *)
(* the key and the value are copied before the map looks whether it can    *)
(* take them.  C++ leaves open which of the two is first; as any one of    *)
(* the allocations may fail, it makes no difference.                       *)
InsertCopy(s) ==
  /\ Calling
  /\ Container(s, "MAP")
  /\ \E src \in {x \in Readable : x.class = "Value"}, k \in Keys :
     \E n \in 0 .. Blocks(src) + 1, garbage \in BOOLEAN :
       LET key == mg_string_make2(Armed(n, garbage), k)
           copy == CopyTree(key.m, src.ptr) IN
       \/ LET r == mg_map_insert2(copy.m, objs[s].ptr, key.p, copy.p) IN
          Returns(r.m, Call("insert", r.ok, src.ptr, copy.p # 0, s))
       \/ LET r == mg_map_insert_unsafe2(copy.m, objs[s].ptr, key.p, copy.p) IN
          Returns(r.m, Call("insert", r.ok, src.ptr, copy.p # 0, s))
  /\ UNCHANGED objs

(* Map::Insert(key, Value&&), Map::InsertUnsafe(key, Value&&). *)
InsertMove(s, o) ==
  /\ Calling
  /\ Container(s, "MAP") /\ HeldValue(o)
  /\ \E k \in Keys, n \in 0 .. 1 :
       LET key == mg_string_make2(Armed(n, FALSE), k) IN
       \/ LET r == mg_map_insert2(key.m, objs[s].ptr, key.p, objs[o].ptr) IN
          Returns(r.m, Call("insert", r.ok, 0, FALSE, s))
       \/ LET r == mg_map_insert_unsafe2(key.m, objs[s].ptr, key.p,
                                         objs[o].ptr) IN
          Returns(r.m, Call("insert", r.ok, 0, FALSE, s))
  /\ objs' = [objs EXCEPT ![o].ptr = 0]

Next ==
  \/ \E s \in Slots :
       \/ CopyConstruct(s) \/ Destruct(s)
       \/ MakeScalar(s) \/ MakeString2(s) \/ MakeString(s) \/ MakeContainer(s)
       \/ AppendCopy(s) \/ InsertCopy(s)
  \/ \E s, o \in Slots :
       \/ MoveConstruct(s, o) \/ Wrap(s, o)
       \/ CopyAssign(s, o) \/ MoveAssign(s, o)
       \/ AppendMove(s, o) \/ InsertMove(s, o)

Spec == Init /\ [][Next]_vars

----------------------------------------------------------------------------
(* What holds. *)

(* The pointers the program has: its own, which it destroys, and the view. *)
Roots(os) == {view} \cup {os[s].ptr : s \in Slots}

Lost(m, os) == Live(m) \ UNION {ToSet(Reach(m, p)) : p \in Roots(os)}

(* Every block the program can get at is live and has exactly one owner:   *)
(* no two wrappers, and no wrapper and container, will both destroy it,    *)
(* whichever of them were copied, moved from, wrapped or inserted before.  *)
OneOwner ==
  ~Spoiled =>
  /\ \A p \in Roots(objs) :
       /\ ToSet(Reach(mem, p)) \subseteq Live(mem)
       /\ IsInjective(Reach(mem, p))
       /\ \A q \in Roots(objs) \ {p} :
            ToSet(Reach(mem, p)) \cap ToSet(Reach(mem, q)) = {}
  /\ \A s \in Slots : objs[s].ptr # 0 =>
       objs[s].ptr \notin {view} \cup {objs[o].ptr : o \in Slots \ {s}}

(* What the ConstValue refers to stays as it was: the copy functions take  *)
(* a const pointer and "do not ... modify it" (mgclient.h).                *)
SourceIntact == Tree(mem, view) = row

(* A copy that succeeds is the same tree in blocks of its own, and leaves  *)
(* every other block alone.                                                *)
CopyIsFaithful ==
  [][op'.name = "copy" /\ op'.ok =>
       /\ Tree(mem', objs'[op'.slot].ptr) = Tree(mem, op'.src)
       /\ ToSet(Reach(mem', objs'[op'.slot].ptr)) \cap Live(mem) = {}
       /\ \A a \in Live(mem) : a \in Live(mem') /\ mem'.heap[a] = mem.heap[a]
    ]_vars

(* A copy that fails in the middle leaves the memory as it was, if there   *)
(* is no map with an entry and no path in what it copies.                  *)
FailedCopyCleansUp ==
  [][op'.name = "copy" /\ ~op'.ok /\ ~Fragile(Tree(mem, op'.src)) =>
       mem'.heap = mem.heap /\ ~mem'.ub]_vars

(* A call that reports success, and is not an assignment, loses no block:  *)
(* what was reachable is still reachable, or freed.                        *)
NothingLost ==
  [][op'.ok /\ op'.name # "assign" /\ ~Spoiled' =>
       Lost(mem', objs') \subseteq Lost(mem, objs)]_vars

(* Values the program has, as trees. *)
HeldTrees ==
  {Tree(mem, view)}
    \cup {Tree(mem, objs[s].ptr) : s \in {x \in Slots : HeldValue(x)}}

(* operator== of the wrappers is an equivalence on well-formed values,     *)
(* however they were built, and never tells apart what mg_value_equal      *)
(* calls equal.                                                            *)
EqualityLaws ==
  ~Spoiled =>
  LET all == {t \in HeldTrees \cup Universe : WellFormed(t)} IN
  \A t \in {x \in HeldTrees : WellFormed(x)} :
    /\ AreValuesEqual(t, t)
    /\ \A u \in all :
         /\ mg_value_equal(t, u) => AreValuesEqual(t, u)
         /\ AreValuesEqual(t, u) =>
              /\ AreValuesEqual(u, t)
              /\ \A w \in all : AreValuesEqual(u, w) => AreValuesEqual(t, w)

=============================================================================
