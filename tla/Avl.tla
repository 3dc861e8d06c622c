-------------------------------- MODULE Avl --------------------------------
(***************************************************************************)
(* libubox's AVL trees: nodes with parent pointers and balances, threaded  *)
(* by a list in the order of the keys; nodes with equal keys form a run in *)
(* the list of which only the first, the leader, is in the tree.  The code *)
(* writes every operation twice, for left and for right; here the side is  *)
(* a parameter.                                                            *)
(***************************************************************************)
EXTENDS Integers, Sequences, SequencesExt, FiniteSets

CONSTANTS AvlNodes, AvlKey,  \* nodes, and the key of each
          AllowDups,      \* tree->allow_dups
          SoughtKeys         \* keys to look for

VARIABLE avl  \* [root, kid (per side), parent, balance, leader, list, count]

Nil == "nil"
Left == "left"
Right == "right"
Sides == {Left, Right}
Other(s) == IF s = Left THEN Right ELSE Left
Sign(s) == IF s = Left THEN -1 ELSE 1

AvlInit ==
  avl = [root |-> Nil, kid |-> [s \in Sides |-> [n \in AvlNodes |-> Nil]],
         parent |-> [n \in AvlNodes |-> Nil], balance |-> [n \in AvlNodes |-> 0],
         leader |-> [n \in AvlNodes |-> FALSE], list |-> <<>>, count |-> 0]

Kid(t, n, s) == t.kid[s][n]
SideOf(t, n) == IF Kid(t, t.parent[n], Left) = n THEN Left ELSE Right
Position(t, n) == SelectInSeq(t.list, LAMBDA m : m = n)

\* n takes the place of old below p.
Replace(t, p, old, n) ==
  IF p = Nil THEN [t EXCEPT !.root = n]
  ELSE IF Kid(t, p, Left) = old THEN [t EXCEPT !.kid[Left][p] = n]
  ELSE [t EXCEPT !.kid[Right][p] = n]

SetParent(t, n, p) == IF n = Nil THEN t ELSE [t EXCEPT !.parent[n] = p]

-----------------------------------------------------------------------------
(* Searching. *)

RECURSIVE avl_find_rec(_, _, _)
avl_find_rec(t, n, key) ==
  LET s == IF key < AvlKey[n] THEN Left ELSE Right
  IN  IF key = AvlKey[n] \/ Kid(t, n, s) = Nil THEN n
      ELSE avl_find_rec(t, Kid(t, n, s), key)

avl_find(t, key) ==
  IF t.root = Nil THEN Nil
  ELSE LET n == avl_find_rec(t, t.root, key) IN IF AvlKey[n] = key THEN n ELSE Nil

\* Along the list, step by step, from node i on while the next one is one of N.
RECURSIVE Along(_, _, _, _)
Along(t, i, step, N) ==
  IF i + step \in DOMAIN t.list /\ t.list[i + step] \in N THEN Along(t, i + step, step, N) ELSE i

\* Back while the node is greater than the key, then forward while the next is not.
avl_find_lessequal(t, key) ==
  IF t.root = Nil THEN Nil
  ELSE LET i == Position(t, avl_find_rec(t, t.root, key))
           back == IF AvlKey[t.list[i]] <= key THEN i
                   ELSE Along(t, i, -1, {n \in AvlNodes : AvlKey[n] > key}) - 1
       IN  IF back = 0 THEN Nil
           ELSE t.list[Along(t, back, 1, {n \in AvlNodes : AvlKey[n] <= key})]

avl_find_greaterequal(t, key) ==
  IF t.root = Nil THEN Nil
  ELSE LET i == Position(t, avl_find_rec(t, t.root, key))
           forth == IF AvlKey[t.list[i]] >= key THEN i
                    ELSE Along(t, i, 1, {n \in AvlNodes : AvlKey[n] < key}) + 1
       IN  IF forth > Len(t.list) THEN Nil
           ELSE t.list[Along(t, forth, -1, {n \in AvlNodes : AvlKey[n] >= key})]

-----------------------------------------------------------------------------
(* Rotations and rebalancing. *)

Low(a) == IF a < 0 THEN a ELSE 0

\* avl_rotate_right for s = Left, avl_rotate_left for s = Right: the child on side s
\* comes up.  Balances count towards the side the rotation goes to.
Rotate(t, n, s) ==
  LET up == Kid(t, n, s)
      p == t.parent[n]
      inner == Kid(t, up, Other(s))
      t1 == Replace([t EXCEPT !.parent[up] = p, !.parent[n] = up], p, n, up)
      t2 == SetParent([t1 EXCEPT !.kid[s][n] = inner, !.kid[Other(s)][up] = n], inner, n)
      to == -Sign(s)
      nb == to * t.balance[n] + 1 - Low(to * t.balance[up])
      ub == to * t.balance[up] + 1 - Low(-nb)
  IN  [t2 EXCEPT !.balance[n] = to * nb, !.balance[up] = to * ub]

\* Fault: the tree above is taken to be balanced.
post_insert_Shallow(t, n) == t

\* The subtree at n has grown.
RECURSIVE post_insert(_, _)
post_insert(t, n) ==
  LET p == t.parent[n]
      s == SideOf(t, n)
      b == t.balance[p] + Sign(s)
      t1 == [t EXCEPT !.balance[p] = b]
      t2 == Rotate(t1, n, Other(s))
  IN  CASE p = Nil -> t
        [] p # Nil /\ b = 0 -> t1
        [] p # Nil /\ b = Sign(s) -> post_insert(t1, p)
        [] p # Nil /\ b = 2 * Sign(s) /\ t.balance[n] = Sign(s) -> Rotate(t1, p, s)
        [] OTHER -> Rotate(t2, t2.parent[t2.parent[n]], s)

\* The subtree of p on side s has become lower: the second half of avl_post_delete,
\* and of avl_delete_worker for a leaf.
RECURSIVE Shrunk(_, _, _)
Shrunk(t, p, s) ==
  LET b == t.balance[p] - Sign(s)
      t1 == [t EXCEPT !.balance[p] = b]
      o == Other(s)
      q == Kid(t, p, o)
      above(u, n) == IF u.parent[n] = Nil THEN u ELSE Shrunk(u, u.parent[n], SideOf(u, n))
      single == Rotate(t1, p, o)
      double == Rotate(Rotate(t1, q, s), p, o)
  IN  CASE b = 0 -> above(t1, p)
        [] b = Sign(o) -> t1
        [] b = 2 * Sign(o) /\ t.balance[q] = 0 -> single
        [] b = 2 * Sign(o) /\ t.balance[q] = Sign(o) -> above(single, single.parent[p])
        [] OTHER -> above(double, double.parent[p])

avl_post_delete(t, n) == IF t.parent[n] = Nil THEN t ELSE Shrunk(t, t.parent[n], SideOf(t, n))

-----------------------------------------------------------------------------
(* Insertion and deletion. *)

RECURSIVE avl_local_min(_, _)
avl_local_min(t, n) == IF Kid(t, n, Left) = Nil THEN n ELSE avl_local_min(t, Kid(t, n, Left))

\* The last node of n's run.
RECURSIVE RunEnd(_, _)
RunEnd(t, i) == IF i < Len(t.list) /\ ~t.leader[t.list[i + 1]] THEN RunEnd(t, i + 1) ELSE i

PutAt(t, i, n) == [t EXCEPT !.list = InsertAt(@, i, n), !.count = @ + 1]

Fresh(t, n) == [t EXCEPT !.kid = [s \in Sides |-> [@[s] EXCEPT ![n] = Nil]],
                         !.parent[n] = Nil, !.balance[n] = 0, !.leader[n] = TRUE]

\* Hang n below m on side s, before m in the list or after m's run.
Hang(t, n, m, s) ==
  LET i == Position(t, m)
      t1 == PutAt(t, IF s = Left THEN i ELSE RunEnd(t, i) + 1, n)
      t2 == [t1 EXCEPT !.parent[n] = m, !.kid[s][m] = n, !.balance[m] = @ + Sign(s)]
  IN  IF t2.balance[m] = 0 THEN t2 ELSE post_insert(t2, m)

avl_insert(t, n) ==
  LET t0 == Fresh(t, n)
      m == avl_find_rec(t0, t0.root, AvlKey[n])
      twin == PutAt([t0 EXCEPT !.leader[n] = FALSE], RunEnd(t0, Position(t0, m)) + 1, n)
  IN  CASE t.root = Nil -> [PutAt(t0, 1, n) EXCEPT !.root = n]
        [] t.root # Nil /\ AvlKey[n] = AvlKey[m] -> IF AllowDups THEN twin ELSE t
        [] OTHER -> Hang(t0, n, m, IF AvlKey[n] < AvlKey[m] THEN Left ELSE Right)

RECURSIVE avl_delete_worker(_, _)
avl_delete_worker(t, n) ==
  LET p == t.parent[n]
      l == Kid(t, n, Left)
      r == Kid(t, n, Right)
      only == IF l = Nil THEN r ELSE l
      lifted == SetParent(Replace(t, p, n, only), only, p)
      min == avl_local_min(t, r)
      t1 == avl_delete_worker(t, min)
      t2 == [t1 EXCEPT !.balance[min] = t1.balance[n], !.parent[min] = t1.parent[n],
                       !.kid = [s \in Sides |-> [@[s] EXCEPT ![min] = t1.kid[s][n]]]]
      t3 == SetParent(SetParent(t2, Kid(t1, n, Left), min), Kid(t1, n, Right), min)
  IN  CASE l # Nil /\ r # Nil -> Replace(t3, t1.parent[n], n, min)
        [] p = Nil /\ (l = Nil \/ r = Nil) -> lifted
        [] p # Nil /\ only = Nil -> Shrunk(lifted, p, SideOf(t, n))
        [] OTHER -> avl_post_delete(lifted, only)

\* The next of the run takes the leader's place in the tree.
Succeed(t, n, m) ==
  LET t1 == [t EXCEPT !.leader[m] = TRUE, !.balance[m] = t.balance[n], !.parent[m] = t.parent[n],
                      !.kid = [s \in Sides |-> [@[s] EXCEPT ![m] = t.kid[s][n]]]]
      t2 == Replace(t1, t.parent[n], n, m)
  IN  SetParent(SetParent(t2, Kid(t, n, Left), m), Kid(t, n, Right), m)

LeadsRun(t, n) == AllowDups /\ RunEnd(t, Position(t, n)) > Position(t, n)

avl_delete(t, n) ==
  LET t1 == CASE ~t.leader[n] -> t
              [] t.leader[n] /\ LeadsRun(t, n) -> Succeed(t, n, t.list[Position(t, n) + 1])
              [] OTHER -> avl_delete_worker(t, n)
  IN  [t1 EXCEPT !.list = Remove(@, n), !.count = @ - 1]

\* A node is out of the tree, and its fields as avl_insert will find them.
Cleared(t, n) == [Fresh(t, n) EXCEPT !.leader[n] = FALSE]

AvlNext ==
  \E n \in AvlNodes :
    \/ n \notin Range(avl.list) /\ avl' = avl_insert(avl, n)
    \/ n \in Range(avl.list) /\ avl' = Cleared(avl_delete(avl, n), n)

-----------------------------------------------------------------------------
(* Properties. *)

RECURSIVE Height(_)
Height(n) == IF n = Nil THEN 0
             ELSE LET l == Height(Kid(avl, n, Left))
                      r == Height(Kid(avl, n, Right)) IN 1 + (IF l < r THEN r ELSE l)

RECURSIVE InOrder(_)
InOrder(n) == IF n = Nil THEN <<>>
              ELSE InOrder(Kid(avl, n, Left)) \o <<n>> \o InOrder(Kid(avl, n, Right))

Leaders == SelectSeq(avl.list, LAMBDA n : avl.leader[n])

\* The tree stays an AVL tree: every balance is the difference of the heights below
\* and at most one, every pointer to a parent is the inverse of one to a child.
AvlBalanced ==
  \A n \in Range(InOrder(avl.root)) :
    /\ avl.balance[n] = Height(Kid(avl, n, Right)) - Height(Kid(avl, n, Left))
    /\ avl.balance[n] \in -1..1
    /\ IF n = avl.root THEN avl.parent[n] = Nil ELSE Kid(avl, avl.parent[n], SideOf(avl, n)) = n

\* Tree and list agree: in order the tree gives the leaders of the list, which is
\* sorted by key, a leader being exactly the first of its key; the count is right.
AvlThreaded ==
  /\ InOrder(avl.root) = Leaders
  /\ avl.count = Len(avl.list)
  /\ \A i \in 2..Len(avl.list) :
       /\ AvlKey[avl.list[i - 1]] <= AvlKey[avl.list[i]]
       /\ avl.leader[avl.list[i]] = (AvlKey[avl.list[i - 1]] # AvlKey[avl.list[i]])

\* The searches find what a search through the whole list would find: the leader of
\* a key, the last node not greater, the first node not less.
AvlSearchesRight ==
  \A k \in SoughtKeys :
    LET at(S) == IF S = {} THEN Nil ELSE avl.list[CHOOSE i \in S : \A j \in S : i <= j]
        last(S) == IF S = {} THEN Nil ELSE avl.list[CHOOSE i \in S : \A j \in S : j <= i]
    IN  /\ avl_find(avl, k) = at({i \in DOMAIN avl.list : AvlKey[avl.list[i]] = k})
        /\ avl_find_greaterequal(avl, k) = at({i \in DOMAIN avl.list : AvlKey[avl.list[i]] >= k})
        /\ avl_find_lessequal(avl, k) = last({i \in DOMAIN avl.list : AvlKey[avl.list[i]] <= k})

\* Insertions and deletions in any order, of equal keys too, leave a balanced tree
\* and a sorted list that agree, in which every search finds what it should.
AvlSound == AvlBalanced /\ AvlThreaded /\ AvlSearchesRight
=============================================================================
