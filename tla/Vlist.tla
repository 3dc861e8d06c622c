------------------------------- MODULE Vlist -------------------------------
(***************************************************************************)
(* vlist: a tree of versioned nodes that a program refreshes: it begins a  *)
(* new version (vlist_update), adds what it finds, and flushes the rest.   *)
(* The update callback frees the node that is not, or no longer, needed.   *)
(***************************************************************************)
EXTENDS Integers, FiniteSets

CONSTANTS VKeys, VNodes,
          MaxVersion    \* bound on tree->version

VARIABLES vTree,     \* key -> the node in the tree, or NoVNode
          vVersion,  \* tree->version
          vNode,     \* node->version
          vFlags,    \* [keep_old, no_delete]
          vFree,     \* nodes the program holds, outside the tree
          vAdded,    \* keys added since the last vlist_update
          vKept      \* keys added while the version was -1 and not since

vlistVars == <<vTree, vVersion, vNode, vFlags, vFree, vAdded, vKept>>

NoVNode == "none"
ASSUME VlistAssumption == NoVNode \notin VNodes

Present == {k \in VKeys : vTree[k] # NoVNode}

VlistInit ==
  /\ vTree = [k \in VKeys |-> NoVNode] /\ vVersion = 1 /\ vNode = [n \in VNodes |-> 0]
  /\ vFlags \in [keep_old : BOOLEAN, no_delete : BOOLEAN]
  /\ vFree = VNodes /\ vAdded = {} /\ vKept = {}

vlist_update ==
  /\ vVersion < MaxVersion
  /\ vVersion' = vVersion + 1 /\ vAdded' = {}
  /\ UNCHANGED <<vTree, vNode, vFlags, vFree, vKept>>

KeepsOld == vFlags.keep_old \/ vFlags.no_delete

\* Fault: the node that is kept stays at its old version.
vlist_add_NoVersion(n, k) ==
  /\ n \in vFree
  /\ vNode' = [vNode EXCEPT ![n] = vVersion]
  /\ IF KeepsOld /\ k \in Present THEN UNCHANGED <<vTree, vFree>>
     ELSE /\ vTree' = [vTree EXCEPT ![k] = n]
          /\ vFree' = (vFree \ {n}) \union ({vTree[k]} \ {NoVNode})
  /\ vAdded' = vAdded \union {k}
  /\ vKept' = IF vVersion = -1 THEN vKept \union {k} ELSE vKept \ {k}
  /\ UNCHANGED <<vVersion, vFlags>>

\* vlist_add, and the callback: the node that did not get into the tree, or that
\* left it, is the program's again.
vlist_add(n, k) ==
  /\ n \in vFree
  /\ IF KeepsOld /\ k \in Present
     THEN /\ vNode' = [vNode EXCEPT ![n] = vVersion, ![vTree[k]] = vVersion]
          /\ UNCHANGED <<vTree, vFree>>
     ELSE /\ vNode' = [vNode EXCEPT ![n] = vVersion]
          /\ vTree' = [vTree EXCEPT ![k] = n]
          /\ vFree' = (vFree \ {n}) \union ({vTree[k]} \ {NoVNode})
  /\ vAdded' = vAdded \union {k}
  /\ vKept' = IF vVersion = -1 THEN vKept \union {k} ELSE vKept \ {k}
  /\ UNCHANGED <<vVersion, vFlags>>

\* vlist_delete of some nodes; under no_delete the callback takes them out itself.

Deleted(keys) ==
  /\ vTree' = [k \in VKeys |-> IF k \in keys THEN NoVNode ELSE vTree[k]]
  /\ vFree' = vFree \union {vTree[k] : k \in keys}

vlist_delete(k) ==
  /\ k \in Present /\ Deleted({k})
  /\ UNCHANGED <<vVersion, vNode, vFlags, vAdded, vKept>>

Flushed(version) == {k \in Present : version = -1 \/ vNode[vTree[k]] \notin {version, -1}}

vlist_flush ==
  /\ Deleted(Flushed(vVersion))
  /\ UNCHANGED <<vVersion, vNode, vFlags, vAdded, vKept>>

vlist_flush_all ==
  /\ vVersion' = -1 /\ Deleted(Flushed(-1)) /\ vAdded' = {} /\ vKept' = {}
  /\ UNCHANGED <<vNode, vFlags>>

VlistNext ==
  \/ vlist_update \/ vlist_flush \/ vlist_flush_all
  \/ \E k \in VKeys : vlist_delete(k) \/ \E n \in VNodes : vlist_add(n, k)

VlistSpec == VlistInit /\ [][VlistNext]_vlistVars

-----------------------------------------------------------------------------
(* Properties. *)

\* Every node is in the tree under one key or the program's, never both and never
\* neither: it is neither leaked nor freed while the tree still has it.
NodesAccounted ==
  \A n \in VNodes : Cardinality({k \in VKeys : vTree[k] = n}) = IF n \in vFree THEN 0 ELSE 1

\* A flush leaves exactly what was added since the last vlist_update, whether the
\* old node was kept or replaced, and frees no node that is in the tree, nor leaks
\* one.  The exception the code makes: what is added after vlist_flush_all, before
\* the next vlist_update, survives every flush, and the flush of a tree that is
\* still at version -1 empties it.
FlushLeavesAdded ==
  [][/\ NodesAccounted'
     /\ vlist_flush /\ vVersion # -1 =>
          {k \in VKeys : vTree'[k] # NoVNode} = Present \intersect (vAdded \union vKept)]_vlistVars
=============================================================================
