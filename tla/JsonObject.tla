----------------------------- MODULE JsonObject -----------------------------
(***************************************************************************)
(* The values of json-c: reference-counted objects, arrays and leaves.  An *)
(* object keeps its members in a linkhash table: open addressing with      *)
(* tombstones, and a list through the slots in the order of insertion.     *)
(***************************************************************************)
EXTENDS Integers, Sequences, SequencesExt, FiniteSetsExt

CONSTANTS JNodes,         \* values; a freed one can be made anew
          KindOf,         \* "object", "array" or "leaf"
          MemberKeys, HashOf,  \* keys and their hashes
          DefHashEntries, \* JSON_OBJECT_DEF_HASH_ENTRIES
          MaxHeld, MaxItems, MaxSize  \* bounds: references of the program, length of an array, slots

VARIABLES jheap,  \* [rc, slots, order, count, items] of a value; rc 0 means it does not exist
          jheld,  \* references the program owns
          walk    \* a json_object_object_foreach: [of, cur, next, start, seen], or NoWalk

objectVars == <<jheap, jheld, walk>>

EMPTY == "EMPTY"   \* LH_EMPTY
FREED == "FREED"   \* LH_FREED
NoNode == "none"   \* NULL
NoWalk == [of |-> NoNode, cur |-> -1, next |-> -1, start |-> <<>>, seen |-> <<>>]

-----------------------------------------------------------------------------
(* linkhash. *)

lh_table_new(size) == [slots |-> [i \in 0..size - 1 |-> [k |-> EMPTY, v |-> NoNode]], order |-> <<>>, count |-> 0]

Size(t) == Cardinality(DOMAIN t.slots)
Probe(t, k, i) == (HashOf[k] + i) % Size(t)

\* The slot of key k, or -1: the search ends at the first slot never used.
lh_table_lookup_entry(t, k) ==
  LET stops == {i \in DOMAIN t.slots : t.slots[Probe(t, k, i)].k \in {EMPTY, k}}
  IN  IF stops = {} THEN -1
      ELSE IF t.slots[Probe(t, k, Min(stops))].k = k THEN Probe(t, k, Min(stops)) ELSE -1

\* Into the first slot that is free, and at the end of the list.
Placed(t, k, v) ==
  LET free == {i \in DOMAIN t.slots : t.slots[Probe(t, k, i)].k \in {EMPTY, FREED}}
      n == Probe(t, k, Min(free))
  IN  [slots |-> [t.slots EXCEPT ![n] = [k |-> k, v |-> v]], order |-> Append(t.order, n), count |-> t.count + 1]

lh_table_resize(t, size) ==
  FoldLeft(LAMBDA new, n : Placed(new, t.slots[n].k, t.slots[n].v), lh_table_new(size), t.order)

\* A table that is two thirds full is doubled first.
lh_table_insert(t, k, v) ==
  Placed(IF 100 * t.count >= 66 * Size(t) THEN lh_table_resize(t, 2 * Size(t)) ELSE t, k, v)

\* Fault: the slot of a deleted entry is marked as never used.
lh_table_delete_entry_Empty(t, n) ==
  [slots |-> [t.slots EXCEPT ![n] = [k |-> EMPTY, v |-> NoNode]],
   order |-> SelectSeq(t.order, LAMBDA m : m # n), count |-> t.count - 1]

\* lh_table_delete_entry without its call of free_fn.
lh_table_delete_entry(t, n) ==
  [slots |-> [t.slots EXCEPT ![n] = [k |-> FREED, v |-> NoNode]],
   order |-> SelectSeq(t.order, LAMBDA m : m # n), count |-> t.count - 1]

-----------------------------------------------------------------------------
(* Reference counts. *)

Gone == [rc |-> 0, table |-> lh_table_new(1), items |-> <<>>]

\* The references a value holds, in the order it gives them up.
Children(n) == [i \in DOMAIN n.table.order |-> n.table.slots[n.table.order[i]].v] \o n.items

\* lh_table_free and array_list_free call free_fn for what is there.
Released(h, n) == Children(h[n])

RECURSIVE json_object_put(_, _)
json_object_put(h, n) ==
  IF n = NoNode THEN h
  ELSE IF h[n].rc > 1 THEN [h EXCEPT ![n].rc = @ - 1]
  ELSE FoldLeft(json_object_put, [h EXCEPT ![n] = Gone], Released(h, n))

RECURSIVE Reaches(_, _)
Reaches(n, m) == n = m \/ \E i \in DOMAIN Children(jheap[n]) :
  LET c == Children(jheap[n])[i] IN c # NoNode /\ Reaches(c, m)

Live(n) == jheap[n].rc > 0

JInit ==
  /\ jheap = [n \in JNodes |-> Gone]
  /\ jheld = [n \in JNodes |-> 0]
  /\ walk = NoWalk

\* json_object_new_object, _array, _string and so on.
json_object_new(n) ==
  /\ ~Live(n)
  /\ jheap' = [jheap EXCEPT ![n] = [Gone EXCEPT !.rc = 1, !.table = IF KindOf[n] = "object"
                                                                    THEN lh_table_new(DefHashEntries) ELSE @]]
  /\ jheld' = [jheld EXCEPT ![n] = 1]
  /\ UNCHANGED walk

json_object_get(n) ==
  /\ Live(n) /\ jheld[n] < MaxHeld
  /\ jheap' = [jheap EXCEPT ![n].rc = @ + 1]
  /\ jheld' = [jheld EXCEPT ![n] = @ + 1]
  /\ UNCHANGED walk

\* The program gives up one of its references, but not the object it walks over.
PutByProgram(n) ==
  /\ jheld[n] > 0 /\ n # walk.of
  /\ jheap' = json_object_put(jheap, n)
  /\ jheld' = [jheld EXCEPT ![n] = @ - 1]
  /\ UNCHANGED walk

-----------------------------------------------------------------------------
(* Objects and arrays.  The reference to what is added becomes theirs. *)

\* The program owns o and, unless it is null, the reference to v that it hands over.
MayAdd(o, v, kind) ==
  /\ KindOf[o] = kind /\ jheld[o] > 0
  /\ v # NoNode => jheld[v] > 0 /\ v # walk.of /\ ~Reaches(v, o)

HandsOver(v) == jheld' = IF v = NoNode THEN jheld ELSE [jheld EXCEPT ![v] = @ - 1]

\* A key that is there keeps its entry, and the old value is put.
json_object_object_add(o, k, v) ==
  /\ MayAdd(o, v, "object")
  /\ LET t == jheap[o].table
         n == lh_table_lookup_entry(t, k)
     IN  /\ n = -1 => walk = NoWalk /\ Size(lh_table_insert(t, k, v)) <= MaxSize
         /\ jheap' = IF n = -1 THEN [jheap EXCEPT ![o].table = lh_table_insert(t, k, v)]
                     ELSE [json_object_put(jheap, t.slots[n].v) EXCEPT ![o].table.slots[n].v = v]
  /\ HandsOver(v)
  /\ UNCHANGED walk

\* In a walk only the current entry is deleted.
json_object_object_del(o, k) ==
  /\ KindOf[o] = "object" /\ jheld[o] > 0
  /\ LET t == jheap[o].table
         n == lh_table_lookup_entry(t, k)
     IN  /\ walk # NoWalk /\ walk.of = o => n = walk.cur
         /\ n # -1
         /\ jheap' = [json_object_put(jheap, t.slots[n].v) EXCEPT ![o].table = lh_table_delete_entry(t, n)]
  /\ UNCHANGED <<jheld, walk>>

\* json_object_array_add is json_object_array_put_idx at the end; a gap is filled with NULL.
json_object_array_put_idx(a, idx, v) ==
  /\ MayAdd(a, v, "array")
  /\ LET items == jheap[a].items
         long == [i \in 1..Max({idx, Len(items)}) |-> IF i <= Len(items) THEN items[i] ELSE NoNode]
     IN  jheap' = [json_object_put(jheap, long[idx]) EXCEPT ![a].items = [long EXCEPT ![idx] = v]]
  /\ HandsOver(v)
  /\ UNCHANGED walk

-----------------------------------------------------------------------------
(* json_object_object_foreach: the next entry is read before the body runs. *)

After(t, n) ==
  LET at == {i \in DOMAIN t.order : t.order[i] = n}
  IN  IF at = {} \/ at = {Len(t.order)} THEN -1 ELSE t.order[Min(at) + 1]

First(t) == IF t.order = <<>> THEN -1 ELSE t.order[1]

WalkStarts(o) ==
  /\ walk = NoWalk /\ KindOf[o] = "object" /\ jheld[o] > 0 /\ jheap[o].table.count > 0
  /\ LET t == jheap[o].table
     IN  walk' = [of |-> o, cur |-> First(t), next |-> After(t, First(t)),
                  start |-> [i \in DOMAIN t.order |-> t.slots[t.order[i]].k],
                  seen |-> <<t.slots[First(t)].k>>]
  /\ UNCHANGED <<jheap, jheld>>

Following == walk.next

WalkGoesOn ==
  /\ walk # NoWalk /\ walk.cur # -1
  /\ LET t == jheap[walk.of].table
     IN  walk' = [walk EXCEPT !.cur = Following,
                              !.next = IF Following = -1 THEN -1 ELSE After(t, Following),
                              !.seen = IF Following = -1 THEN @ ELSE Append(@, t.slots[Following].k)]
  /\ UNCHANGED <<jheap, jheld>>

WalkOver ==
  /\ walk # NoWalk /\ walk.cur = -1
  /\ walk' = NoWalk
  /\ UNCHANGED <<jheap, jheld>>

JNext ==
  \/ \E n \in JNodes : json_object_new(n) \/ json_object_get(n) \/ PutByProgram(n) \/ WalkStarts(n)
  \/ \E o \in JNodes, k \in MemberKeys : \/ json_object_object_del(o, k)
                                         \/ \E v \in JNodes \union {NoNode} : json_object_object_add(o, k, v)
  \/ \E a \in JNodes, i \in 1..MaxItems, v \in JNodes : json_object_array_put_idx(a, i, v)
  \/ WalkGoesOn \/ WalkOver

-----------------------------------------------------------------------------
(* Properties. *)

References(n) == jheld[n] + FoldSet(LAMBDA m, s : s + Len(SelectSeq(Children(jheap[m]), LAMBDA c : c = n)), 0, JNodes)

\* Whatever is added, replaced, deleted and nested: _ref_count is the number of
\* references the program and the containers own, so that no value goes while it is
\* referred to and none stays that nobody can reach.
RefsAccounted == \A n \in JNodes : jheap[n].rc = References(n)

\* After any insertions, deletions and resizes a lookup finds exactly the keys on the
\* list, each once, and an insertion finds room.
TablesFind ==
  \A o \in JNodes : Live(o) /\ KindOf[o] = "object" =>
    LET t == jheap[o].table
        keys == [i \in DOMAIN t.order |-> t.slots[t.order[i]].k]
    IN  /\ t.count = Len(t.order) /\ IsInjective(keys)
        /\ \A k \in MemberKeys : lh_table_lookup_entry(t, k) # -1 <=> k \in ToSet(keys)
        /\ \E n \in DOMAIN t.slots : t.slots[n].k \in {EMPTY, FREED}

\* A walk that deletes the entries it is at still comes by every entry once, in order.
WalkComplete == walk # NoWalk /\ walk.cur = -1 => walk.seen = walk.start

\* Values live exactly as long as they are referred to, tables find what they hold,
\* and a walk that deletes comes by every entry.
ValuesSound == RefsAccounted /\ TablesFind /\ WalkComplete
=============================================================================
