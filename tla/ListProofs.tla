----------------------------- MODULE ListProofs -----------------------------
(***************************************************************************)
(* What the other proofs need of lists, stacks and searches: the least     *)
(* number of a set, the listing of a finite set, an entry put in front,    *)
(* taken off the front, searched for and taken out.                        *)
(***************************************************************************)
EXTENDS Integers, SequencesExt, FiniteSetTheorems, SequenceTheorems, WellFoundedInduction, TLAPS

\* No entry is in the list twice.
Once(s) == \A i, j \in 1 .. Len(s) : s[i] = s[j] => i = j

\* What is before another entry in r is before it in s.
Within(r, s) ==
  \A i, j \in 1 .. Len(r) : i < j =>
    \E k, l \in 1 .. Len(s) : k < l /\ r[i] = s[k] /\ r[j] = s[l]

\* A nonempty set of numbers has a least one: the search of fd_stack ends at the
\* innermost entry.
LEMMA LeastFound ==
  ASSUME NEW T \in SUBSET Nat, T # {}
  PROVE  \E x \in T : \A y \in T : x <= y
<1>1. PICK R : R = OpToRel(<, Nat)
  BY Zenon
<1>2. R = {p \in Nat \X Nat : p[1] < p[2]}
  BY <1>1, Zenon DEF OpToRel
<1>3. IsWellFoundedOn(R, Nat)
  BY <1>1, NatLessThanWellFounded, Zenon
<1>4. PICK x \in T : \A y \in T : <<y, x>> \notin R
  BY <1>3, WFMin
<1>5. ASSUME NEW y \in T
      PROVE  x <= y
  <2>1. <<y, x>> \notin R /\ x \in Nat /\ y \in Nat
    BY <1>4
  <2>2. <<y, x>> \in R <=> y < x
    BY <1>2, <2>1
  <2> QED
    BY <2>1, <2>2
<1> QED
  BY <1>4, <1>5

\* epoll reports every ready descriptor once, in some order.
LEMMA SetInOrder ==
  ASSUME NEW S, IsFiniteSet(S), NEW f \in SetToSeqs(S)
  PROVE  /\ f \in Seq(S)
         /\ \A i, j \in 1 .. Len(f) : f[i] = f[j] => i = j
         /\ \A x \in S : \E i \in 1 .. Len(f) : f[i] = x
<1> DEFINE n == Cardinality(S)
           C == 1 .. n
<1>1. n \in Nat
  BY FS_CardinalityType
<1>2. f \in [C -> S] /\ \A i, j \in C : i # j => f[i] # f[j]
  BY DEF SetToSeqs
<1>3. f \in Seq(S) /\ Len(f) = n
  BY <1>1, <1>2
<1>4. f \in Injection(C, S)
  BY <1>2 DEF Injection, IsInjective
<1>5. IsFiniteSet(C) /\ Cardinality(C) = n
  <2>1. 1 \in Int /\ n \in Int
    BY <1>1
  <2>2. IsFiniteSet(1 .. n) /\ Cardinality(1 .. n) = IF 1 > n THEN 0 ELSE n - 1 + 1
    BY <2>1, FS_Interval
  <2> QED
    BY <1>1, <2>2
<1>6. f \in Surjection(C, S)
  BY <1>4, <1>5, FS_Injection
<1>7. \A x \in S : \E i \in C : f[i] = x
  BY <1>6 DEF Surjection
<1> QED
  BY <1>2, <1>3, <1>7

\* A frame on top of the stack, and the top frame taken off.
LEMMA FramePushed ==
  ASSUME NEW S, NEW s \in Seq(S), NEW x \in S
  PROVE  /\ <<x>> \o s \in Seq(S) /\ Len(<<x>> \o s) = Len(s) + 1
         /\ (<<x>> \o s)[1] = x
         /\ \A i \in 1 .. Len(s) : (<<x>> \o s)[i + 1] = s[i]
         /\ \A i \in 1 .. Len(s) + 1 : i = 1 \/ i - 1 \in 1 .. Len(s)
<1>1. <<x>> \in Seq(S) /\ Len(<<x>>) = 1 /\ <<x>>[1] = x /\ Len(s) \in Nat
  OBVIOUS
<1>2. PICK u : u = <<x>>
  OBVIOUS
<1>3. /\ u \o s \in Seq(S) /\ Len(u \o s) = Len(u) + Len(s)
      /\ \A i \in 1 .. Len(u) + Len(s) :
           (u \o s)[i] = IF i <= Len(u) THEN u[i] ELSE s[i - Len(u)]
  <2>1. u \in Seq(S)
    BY <1>1, <1>2
  <2> QED
    BY <2>1, ConcatProperties
<1>4. PICK r : r = u \o s
  OBVIOUS
<1>5. /\ Len(r) = 1 + Len(s)
      /\ \A i \in 1 .. 1 + Len(s) : r[i] = IF i <= 1 THEN u[i] ELSE s[i - 1]
  BY <1>1, <1>2, <1>3, <1>4
<1>6. r[1] = x
  BY <1>1, <1>2, <1>5
<1>7. \A i \in 1 .. Len(s) : r[i + 1] = s[i]
  BY <1>1, <1>5
<1>8. \A i \in 1 .. Len(s) + 1 : i = 1 \/ i - 1 \in 1 .. Len(s)
  BY <1>1
<1> QED
  BY <1>1, <1>2, <1>3, <1>4, <1>5, <1>6, <1>7, <1>8

\* The top frame taken off, or the first of the events fetched.
LEMMA TopTaken ==
  ASSUME NEW S, NEW s \in Seq(S), s # <<>>
  PROVE  /\ Head(s) \in S /\ Head(s) = s[1] /\ Tail(s) \in Seq(S)
         /\ Len(s) \in Nat /\ Len(s) > 0 /\ Len(Tail(s)) = Len(s) - 1
         /\ \A i \in 1 .. Len(Tail(s)) : Tail(s)[i] = s[i + 1] /\ i + 1 \in 1 .. Len(s)
         /\ \A i \in 1 .. Len(s) : i = 1 \/ i - 1 \in 1 .. Len(Tail(s))
<1>1. Len(s) \in Nat /\ Len(s) > 0 /\ Head(s) = s[1]
  BY EmptySeq, LenProperties
<1>2. /\ Head(s) \in S /\ Tail(s) \in Seq(S) /\ Len(Tail(s)) = Len(s) - 1
      /\ \A i \in 1 .. Len(Tail(s)) : Tail(s)[i] = s[i + 1]
  BY HeadTailProperties
<1>3. \A i \in 1 .. Len(Tail(s)) : i + 1 \in 1 .. Len(s)
  BY <1>1, <1>2
<1>4. \A i \in 1 .. Len(s) : i = 1 \/ i - 1 \in 1 .. Len(Tail(s))
  BY <1>1, <1>2
<1> QED
  BY <1>1, <1>2, <1>3, <1>4

\* SetToSeq lists a finite set: all of its elements, each once.
LEMMA SetListed ==
  ASSUME NEW S, IsFiniteSet(S)
  PROVE  /\ SetToSeq(S) \in Seq(S) /\ Len(SetToSeq(S)) = Cardinality(S)
         /\ \A i, j \in 1 .. Len(SetToSeq(S)) : SetToSeq(S)[i] = SetToSeq(S)[j] => i = j
         /\ S = {SetToSeq(S)[i] : i \in 1 .. Len(SetToSeq(S))}
<1> DEFINE n == Cardinality(S)
           D == 1 .. n
<1>1. n \in Nat /\ ExistsBijection(D, S)
  BY FS_CardinalityType
<1>2. PICK g \in Bijection(D, S) : TRUE
  BY <1>1 DEF ExistsBijection
<1>3. g \in [D -> S] /\ IsInjective(g)
  BY <1>2 DEF Bijection, Injection, IsInjective
<1>4. SetToSeq(S) \in [D -> S] /\ IsInjective(SetToSeq(S))
  BY <1>3 DEF SetToSeq
<1>5. PICK f : f = SetToSeq(S)
  OBVIOUS
<1>6. f \in [D -> S] /\ IsInjective(f)
  BY <1>4, <1>5
<1>7. f \in Seq(S) /\ Len(f) = n
  BY <1>1, <1>6
<1>8. f \in Injection(D, S)
  BY <1>6 DEF Injection, IsInjective
<1>9. IsFiniteSet(D) /\ Cardinality(D) = n
  <2>1. 1 \in Int /\ n \in Int
    BY <1>1
  <2>2. IsFiniteSet(1 .. n) /\ Cardinality(1 .. n) = IF 1 > n THEN 0 ELSE n - 1 + 1
    BY <2>1, FS_Interval
  <2> QED
    BY <1>1, <2>2
<1>10. f \in Surjection(D, S)
  BY <1>8, <1>9, FS_Injection
<1>11. S = {f[i] : i \in D}
  BY <1>6, <1>10 DEF Surjection
<1> QED
  BY <1>5, <1>6, <1>7, <1>11 DEF IsInjective

\* Min is the least number of a set.
LEMMA MinFound ==
  ASSUME NEW T \in SUBSET Nat, T # {}
  PROVE  Min(T) \in T /\ \A y \in T : Min(T) <= y
<1>1. \E x \in T : \A y \in T : x <= y
  BY LeastFound
<1> QED
  BY <1>1, Zenon DEF Min

\* The members of a list are its entries; only the empty list has none.
LEMMA ListMembers ==
  ASSUME NEW S, NEW s \in Seq(S)
  PROVE  /\ Range(s) = {s[i] : i \in 1 .. Len(s)} /\ Range(s) \subseteq S
         /\ Len(s) \in Nat /\ DOMAIN s = 1 .. Len(s)
         /\ s = <<>> <=> Range(s) = {}
         /\ s # <<>> => Head(s) = s[1] /\ Head(s) \in Range(s)
<1>1. Range(s) = {s[i] : i \in 1 .. Len(s)} /\ Range(s) \subseteq S
  BY RangeEquality, RangeOfSeq
<1>2. Len(s) \in Nat /\ DOMAIN s = 1 .. Len(s)
  BY LenProperties
<1>3. ASSUME s # <<>> PROVE Head(s) = s[1] /\ 1 \in 1 .. Len(s)
  BY <1>2, <1>3, EmptySeq
<1>4. s = <<>> => Range(s) = {}
  BY <1>1
<1> QED
  BY <1>1, <1>2, <1>3, <1>4

\* A function on 1 .. n is a list of length n.
LEMMA MappedList ==
  ASSUME NEW F, NEW n \in Nat, NEW q \in [1 .. n -> F]
  PROVE  q \in Seq(F) /\ Len(q) = n
  OBVIOUS

\* An entry put in front of a list, or behind it.
LEMMA EntryPut ==
  ASSUME NEW S, NEW s \in Seq(S), NEW x \in S,
         NEW r, r \in {<<x>> \o s, Append(s, x)}
  PROVE  /\ r \in Seq(S) /\ Len(r) = Len(s) + 1 /\ r # <<>>
         /\ Range(r) = Range(s) \union {x}
         /\ Once(s) /\ x \notin Range(s) => Once(r)
<1>1. Range(s) = {s[i] : i \in 1 .. Len(s)} /\ Len(s) \in Nat
  BY ListMembers
<1>2. CASE r = <<x>> \o s
  <2>1. /\ r \in Seq(S) /\ Len(r) = Len(s) + 1 /\ r[1] = x
        /\ \A i \in 1 .. Len(s) : r[i + 1] = s[i]
        /\ \A i \in 1 .. Len(s) + 1 : i = 1 \/ i - 1 \in 1 .. Len(s)
    BY <1>2, FramePushed
  <2>2. \A i \in 1 .. Len(s) + 1 : i # 1 => \E k \in 1 .. Len(s) : i = k + 1 /\ r[i] = s[k]
    <3> SUFFICES ASSUME NEW i \in 1 .. Len(s) + 1, i # 1
                 PROVE  \E k \in 1 .. Len(s) : i = k + 1 /\ r[i] = s[k]
      OBVIOUS
    <3>1. PICK k \in 1 .. Len(s) : k = i - 1
      BY <2>1
    <3>2. i = k + 1
      BY <3>1
    <3> QED
      BY <2>1, <3>2
  <2>3. Range(r) = {r[i] : i \in 1 .. Len(s) + 1}
    BY <2>1, ListMembers
  <2>4. 1 \in 1 .. Len(s) + 1 /\ \A k \in 1 .. Len(s) : k + 1 \in 1 .. Len(s) + 1
    BY <1>1
  <2>5. Range(r) = Range(s) \union {x}
    <3>1. ASSUME NEW y \in Range(r) PROVE y = x \/ y \in Range(s)
      BY <1>1, <2>1, <2>2, <2>3
    <3>2. ASSUME NEW y \in Range(s) PROVE y \in Range(r)
      <4>1. PICK k \in 1 .. Len(s) : y = s[k]
        BY <1>1
      <4> QED
        BY <2>1, <2>3, <2>4, <4>1
    <3>3. x \in Range(r)
      BY <2>1, <2>3, <2>4
    <3> QED
      BY <3>1, <3>2, <3>3
  <2>6. ASSUME Once(s), x \notin Range(s) PROVE Once(r)
    <3> SUFFICES ASSUME NEW i \in 1 .. Len(s) + 1, NEW j \in 1 .. Len(s) + 1, r[i] = r[j]
                 PROVE  i = j
      BY <2>1 DEF Once
    <3>1. CASE i = 1 \/ j = 1
      BY <1>1, <2>1, <2>2, <2>6, <3>1
    <3>2. CASE i # 1 /\ j # 1
      <4>1. PICK k \in 1 .. Len(s) : i = k + 1 /\ r[i] = s[k]
        BY <2>2, <3>2
      <4>2. PICK l \in 1 .. Len(s) : j = l + 1 /\ r[j] = s[l]
        BY <2>2, <3>2
      <4> QED
        BY <2>6, <4>1, <4>2 DEF Once
    <3> QED
      BY <3>1, <3>2
  <2> QED
    BY <2>1, <2>5, <2>6, <1>1, EmptySeq
<1>3. CASE r = Append(s, x)
  <2>1. /\ r \in Seq(S) /\ r # <<>> /\ Len(r) = Len(s) + 1
        /\ \A i \in 1 .. Len(s) : r[i] = s[i]
        /\ r[Len(s) + 1] = x
    BY <1>3, AppendProperties
  <2>2. \A i \in 1 .. Len(s) + 1 : i = Len(s) + 1 \/ i \in 1 .. Len(s)
    BY <1>1
  <2>3. Range(r) = {r[i] : i \in 1 .. Len(s) + 1}
    BY <2>1, ListMembers
  <2>4. Len(s) + 1 \in 1 .. Len(s) + 1 /\ \A k \in 1 .. Len(s) : k \in 1 .. Len(s) + 1
    BY <1>1
  <2>5. Range(r) = Range(s) \union {x}
    <3>1. ASSUME NEW y \in Range(r) PROVE y = x \/ y \in Range(s)
      <4>1. PICK i \in 1 .. Len(s) + 1 : y = r[i]
        BY <2>3
      <4> QED
        BY <1>1, <2>1, <2>2, <4>1
    <3>2. ASSUME NEW y \in Range(s) PROVE y \in Range(r)
      <4>1. PICK k \in 1 .. Len(s) : y = s[k]
        BY <1>1
      <4> QED
        BY <2>1, <2>3, <2>4, <4>1
    <3>3. x \in Range(r)
      BY <2>1, <2>3, <2>4
    <3> QED
      BY <3>1, <3>2, <3>3
  <2>6. ASSUME Once(s), x \notin Range(s) PROVE Once(r)
    <3> SUFFICES ASSUME NEW i \in 1 .. Len(s) + 1, NEW j \in 1 .. Len(s) + 1, r[i] = r[j]
                 PROVE  i = j
      BY <2>1 DEF Once
    <3> QED
      BY <1>1, <2>1, <2>2, <2>6 DEF Once
  <2> QED
    BY <2>1, <2>5, <2>6
<1> QED
  BY <1>2, <1>3

\* The first entry taken off a list without repetitions.
LEMMA HeadOut ==
  ASSUME NEW S, NEW s \in Seq(S), s # <<>>, Once(s)
  PROVE  Tail(s) \in Seq(S) /\ Once(Tail(s)) /\ Range(Tail(s)) = Range(s) \ {Head(s)}
<1>1. /\ Head(s) = s[1] /\ Tail(s) \in Seq(S)
      /\ Len(s) \in Nat /\ Len(s) > 0
      /\ \A i \in 1 .. Len(Tail(s)) : Tail(s)[i] = s[i + 1] /\ i + 1 \in 1 .. Len(s)
      /\ \A i \in 1 .. Len(s) : i = 1 \/ i - 1 \in 1 .. Len(Tail(s))
  BY TopTaken
<1>2. PICK r : r = Tail(s)
  OBVIOUS
<1>3. /\ r \in Seq(S)
      /\ \A i \in 1 .. Len(r) : \E k \in 1 .. Len(s) : k = i + 1 /\ r[i] = s[k] /\ k # 1
  <2>1. ASSUME NEW i \in 1 .. Len(r)
        PROVE  \E k \in 1 .. Len(s) : k = i + 1 /\ r[i] = s[k] /\ k # 1
    <3>1. PICK k \in 1 .. Len(s) : k = i + 1
      BY <1>1, <1>2
    <3>2. r[i] = s[k]
      BY <1>1, <1>2, <3>1
    <3>3. k # 1
      BY <3>1
    <3> QED
      BY <3>1, <3>2, <3>3
  <2> QED
    BY <1>1, <1>2, <2>1
<1>4. \A k \in 1 .. Len(s) : k # 1 => \E i \in 1 .. Len(r) : r[i] = s[k]
  <2> SUFFICES ASSUME NEW k \in 1 .. Len(s), k # 1 PROVE \E i \in 1 .. Len(r) : r[i] = s[k]
    OBVIOUS
  <2>1. PICK i \in 1 .. Len(r) : i = k - 1
    BY <1>1, <1>2
  <2>2. i + 1 = k
    BY <2>1
  <2> QED
    BY <1>1, <1>2, <2>1, <2>2
<1>5. Range(s) = {s[i] : i \in 1 .. Len(s)} /\ Range(r) = {r[i] : i \in 1 .. Len(r)}
  BY <1>3, ListMembers
<1>6. 1 \in 1 .. Len(s)
  BY <1>1
<1>7. Range(r) = Range(s) \ {s[1]}
  <2>1. ASSUME NEW y \in Range(r) PROVE y \in Range(s) /\ y # s[1]
    <3>1. PICK i \in 1 .. Len(r) : y = r[i]
      BY <1>5
    <3>2. PICK k \in 1 .. Len(s) : y = s[k] /\ k # 1
      BY <1>3, <3>1
    <3> QED
      BY <1>5, <1>6, <3>2 DEF Once
  <2>2. ASSUME NEW y \in Range(s), y # s[1] PROVE y \in Range(r)
    <3>1. PICK k \in 1 .. Len(s) : y = s[k] /\ k # 1
      BY <1>5, <2>2
    <3> QED
      BY <1>4, <1>5, <3>1
  <2> QED
    BY <2>1, <2>2
<1>8. Once(r)
  <2> SUFFICES ASSUME NEW i \in 1 .. Len(r), NEW j \in 1 .. Len(r), r[i] = r[j] PROVE i = j
    BY DEF Once
  <2>1. PICK k \in 1 .. Len(s) : k = i + 1 /\ r[i] = s[k]
    BY <1>3
  <2>2. PICK l \in 1 .. Len(s) : l = j + 1 /\ r[j] = s[l]
    BY <1>3
  <2>3. k = l
    BY <2>1, <2>2 DEF Once
  <2> QED
    BY <2>1, <2>2, <2>3
<1> QED
  BY <1>1, <1>2, <1>3, <1>7, <1>8

\* RemoveAt closes the gap.
LEMMA PlaceOut ==
  ASSUME NEW S, NEW s \in Seq(S), NEW k \in 1 .. Len(s)
  PROVE  /\ RemoveAt(s, k) \in Seq(S) /\ Len(RemoveAt(s, k)) = Len(s) - 1
         /\ \A i \in 1 .. Len(s) - 1 : RemoveAt(s, k)[i] = IF i < k THEN s[i] ELSE s[i + 1]
<1>1. Len(s) \in Nat /\ k \in Int /\ k - 1 \in Int /\ k + 1 \in Int /\ Len(s) \in Int /\ 1 \in Int
  BY LenProperties
<1>2. PICK p, q : p = SubSeq(s, 1, k - 1) /\ q = SubSeq(s, k + 1, Len(s))
  OBVIOUS
<1>3. (\A i \in 1 .. k - 1 : s[i] \in S) /\ (\A i \in k + 1 .. Len(s) : s[i] \in S)
  BY <1>1, ElementOfSeq
<1>4. /\ p \in Seq(S) /\ Len(p) = k - 1
      /\ \A i \in 1 .. k - 1 : p[i] = s[i]
  <2>1. /\ p \in Seq(S) /\ Len(p) = IF 1 <= k - 1 THEN k - 1 - 1 + 1 ELSE 0
        /\ \A i \in 1 .. k - 1 - 1 + 1 : p[i] = s[1 + i - 1]
    BY <1>1, <1>2, <1>3, SubSeqProperties
  <2> QED
    BY <1>1, <2>1
<1>5. /\ q \in Seq(S) /\ Len(q) = Len(s) - k
      /\ \A i \in 1 .. Len(s) - k : q[i] = s[k + i]
  <2>1. /\ q \in Seq(S) /\ Len(q) = IF k + 1 <= Len(s) THEN Len(s) - (k + 1) + 1 ELSE 0
        /\ \A i \in 1 .. Len(s) - (k + 1) + 1 : q[i] = s[k + 1 + i - 1]
    BY <1>1, <1>2, <1>3, SubSeqProperties
  <2> QED
    BY <1>1, <2>1
<1>6. PICK r : r = p \o q
  OBVIOUS
<1>7. RemoveAt(s, k) = r
  BY <1>2, <1>6 DEF RemoveAt
<1>8. /\ r \in Seq(S) /\ Len(r) = Len(p) + Len(q)
      /\ \A i \in 1 .. Len(p) + Len(q) : r[i] = IF i <= Len(p) THEN p[i] ELSE q[i - Len(p)]
  BY <1>4, <1>5, <1>6, ConcatProperties
<1>9. Len(r) = Len(s) - 1
  BY <1>1, <1>4, <1>5, <1>8
<1>10. ASSUME NEW i \in 1 .. Len(s) - 1 PROVE r[i] = IF i < k THEN s[i] ELSE s[i + 1]
  <2>1. CASE i < k
    <3>1. i \in 1 .. Len(p) /\ i \in 1 .. k - 1 /\ i \in 1 .. Len(p) + Len(q)
      BY <1>1, <1>4, <1>5, <2>1
    <3> QED
      BY <1>4, <1>8, <2>1, <3>1
  <2>2. CASE ~(i < k)
    <3>1. PICK j \in 1 .. Len(s) - k : j = i - (k - 1)
      BY <1>1, <2>2
    <3>2. r[i] = q[j]
      BY <1>1, <1>4, <1>5, <1>8, <2>2, <3>1, SMTT(20)
    <3>3. k + j = i + 1
      BY <1>1, <3>1
    <3> QED
      BY <1>5, <2>2, <3>1, <3>2, <3>3
  <2> QED
    BY <2>1, <2>2
<1> QED
  BY <1>7, <1>8, <1>9, <1>10

\* list_del, as RemoveFirst: the entry is gone, the others are left, in their order.
LEMMA EntryOut ==
  ASSUME NEW S, NEW s \in Seq(S), NEW x, Once(s),
         NEW r, r = RemoveFirst(s, x)
  PROVE  /\ r \in Seq(S) /\ Once(r) /\ Range(r) = Range(s) \ {x}
         /\ Len(r) = IF x \in Range(s) THEN Len(s) - 1 ELSE Len(s)
         /\ x \notin Range(s) => r = s
         /\ Within(r, s)
<1>1. Range(s) = {s[i] : i \in 1 .. Len(s)} /\ Len(s) \in Nat
  BY ListMembers
<1>2. CASE x \notin Range(s)
  <2>1. r = s
    BY <1>1, <1>2 DEF RemoveFirst
  <2>2. Within(s, s)
    BY Zenon DEF Within
  <2> QED
    BY <1>2, <2>1, <2>2
<1>3. CASE x \in Range(s)
  <2>1. PICK k : k = SelectInSeq(s, LAMBDA v : v = x)
    OBVIOUS
  <2>2. k \in 1 .. Len(s) /\ s[k] = x
    <3> DEFINE I == {i \in 1 .. Len(s) : s[i] = x}
    <3>1. I \in SUBSET Nat /\ I # {}
      BY <1>1, <1>3
    <3>2. k = Min(I)
      BY <2>1, <3>1, Zenon DEF SelectInSeq
    <3>3. Min(I) \in I
      <4> HIDE DEF I
      <4> QED
        BY <3>1, MinFound
    <3> QED
      BY <3>2, <3>3
  <2>3. r = RemoveAt(s, k)
    <3>1. \E i \in 1 .. Len(s) : s[i] = x
      BY <2>2
    <3> QED
      BY <2>1, <3>1, Zenon DEF RemoveFirst
  <2>4. /\ r \in Seq(S) /\ Len(r) = Len(s) - 1
        /\ \A i \in 1 .. Len(s) - 1 : r[i] = IF i < k THEN s[i] ELSE s[i + 1]
    BY <2>2, <2>3, PlaceOut
  <2>5. \A i \in 1 .. Len(r) : \E m \in 1 .. Len(s) :
          m # k /\ r[i] = s[m] /\ m = IF i < k THEN i ELSE i + 1
    <3> SUFFICES ASSUME NEW i \in 1 .. Len(r)
                 PROVE  \E m \in 1 .. Len(s) : m # k /\ r[i] = s[m] /\ m = IF i < k THEN i ELSE i + 1
      OBVIOUS
    <3>1. CASE i < k
      <4>1. i \in 1 .. Len(s) /\ i # k
        BY <1>1, <2>2, <2>4, <3>1
      <4>2. r[i] = s[i]
        BY <2>4, <3>1
      <4> QED
        BY <3>1, <4>1, <4>2
    <3>2. CASE ~(i < k)
      <4>1. PICK m \in 1 .. Len(s) : m = i + 1
        BY <1>1, <2>2, <2>4, <3>2
      <4>2. m # k
        BY <2>2, <3>2, <4>1
      <4>3. r[i] = s[m]
        BY <2>4, <3>2, <4>1
      <4> QED
        BY <3>2, <4>1, <4>2, <4>3
    <3> QED
      BY <3>1, <3>2
  <2>6. \A m \in 1 .. Len(s) : m # k => \E i \in 1 .. Len(r) : r[i] = s[m]
    <3> SUFFICES ASSUME NEW m \in 1 .. Len(s), m # k PROVE \E i \in 1 .. Len(r) : r[i] = s[m]
      OBVIOUS
    <3>1. CASE m < k
      <4>1. m \in 1 .. Len(r)
        BY <1>1, <2>2, <2>4, <3>1
      <4> QED
        BY <2>4, <3>1, <4>1
    <3>2. CASE m > k
      <4>1. PICK i \in 1 .. Len(r) : i = m - 1
        BY <1>1, <2>2, <2>4, <3>2
      <4>2. ~(i < k) /\ i + 1 = m
        BY <2>2, <3>2, <4>1
      <4> QED
        BY <2>4, <4>1, <4>2
    <3> QED
      BY <2>2, <3>1, <3>2
  <2>7. Range(r) = {r[i] : i \in 1 .. Len(r)} /\ Len(r) \in Nat
    BY <2>4, ListMembers
  <2>8. Range(r) = Range(s) \ {x}
    <3>1. ASSUME NEW y \in Range(r) PROVE y \in Range(s) /\ y # x
      <4>1. PICK i \in 1 .. Len(r) : y = r[i]
        BY <2>7
      <4>2. PICK m \in 1 .. Len(s) : m # k /\ y = s[m]
        BY <2>5, <4>1
      <4> QED
        BY <1>1, <2>2, <4>2 DEF Once
    <3>2. ASSUME NEW y \in Range(s), y # x PROVE y \in Range(r)
      <4>1. PICK m \in 1 .. Len(s) : y = s[m]
        BY <1>1
      <4>2. m # k
        BY <2>2, <3>2, <4>1
      <4> QED
        BY <2>6, <2>7, <4>1, <4>2
    <3> QED
      BY <3>1, <3>2
  <2>9. ASSUME NEW i \in 1 .. Len(r), NEW j \in 1 .. Len(r), i < j
        PROVE  \E m, l \in 1 .. Len(s) : m < l /\ r[i] = s[m] /\ r[j] = s[l]
    <3>1. PICK m \in 1 .. Len(s) : r[i] = s[m] /\ m = IF i < k THEN i ELSE i + 1
      BY <2>5
    <3>2. PICK l \in 1 .. Len(s) : r[j] = s[l] /\ l = IF j < k THEN j ELSE j + 1
      BY <2>5
    <3>3. m < l
      BY <2>2, <2>7, <2>9, <3>1, <3>2
    <3> QED
      BY <3>1, <3>2, <3>3
  <2>10. Once(r)
    <3> SUFFICES ASSUME NEW i \in 1 .. Len(r), NEW j \in 1 .. Len(r), r[i] = r[j], i # j
                 PROVE  FALSE
      BY DEF Once
    <3>1. CASE i < j
      <4>1. PICK m, l \in 1 .. Len(s) : m < l /\ r[i] = s[m] /\ r[j] = s[l]
        BY <2>9, <3>1
      <4>2. m = l
        BY <4>1, Zenon DEF Once
      <4> QED
        BY <4>1, <4>2
    <3>2. CASE j < i
      <4>1. PICK m, l \in 1 .. Len(s) : m < l /\ r[j] = s[m] /\ r[i] = s[l]
        BY <2>9, <3>2
      <4>2. m = l
        BY <4>1, Zenon DEF Once
      <4> QED
        BY <4>1, <4>2
    <3> QED
      BY <2>7, <3>1, <3>2
  <2>11. Within(r, s)
    BY <2>9, Zenon DEF Within
  <2> QED
    BY <1>3, <2>4, <2>8, <2>10, <2>11
<1> QED
  BY <1>2, <1>3

\* list_add_tail before an entry, as InsertAt: the entries from place k on move up.
LEMMA EntryInserted ==
  ASSUME NEW S, NEW s \in Seq(S), NEW x \in S, NEW k \in Nat, 1 <= k, k <= Len(s) + 1,
         NEW r, r = InsertAt(s, k, x)
  PROVE  /\ r \in Seq(S) /\ Len(r) = Len(s) + 1
         /\ \A i \in 1 .. Len(s) : i < k => r[i] = s[i]
         /\ r[k] = x
         /\ \A i \in 1 .. Len(s) : k <= i => r[i + 1] = s[i]
<1>1. Len(s) \in Nat /\ k \in Nat /\ k >= 1 /\ k <= Len(s) + 1
  BY LenProperties
<1>2. \A i \in 1 .. Len(s) : s[i] \in S
  BY <1>1, ElementOfSeq
<1>3. PICK p : p = SubSeq(s, 1, k - 1)
  OBVIOUS
<1>4. PICK q : q = SubSeq(s, k, Len(s))
  OBVIOUS
<1>5. p \in Seq(S) /\ Len(p) = k - 1 /\ \A i \in 1 .. k - 1 : p[i] = s[i]
  <2>1. /\ SubSeq(s, 1, k - 1) \in Seq(S) /\ Len(SubSeq(s, 1, k - 1)) = k - 1 - 1 + 1
        /\ \A i \in 1 .. k - 1 - 1 + 1 : SubSeq(s, 1, k - 1)[i] = s[1 + i - 1]
    BY <1>1, <1>2, SubSeqProperties
  <2>. QED
    BY <1>1, <1>3, <2>1
<1>6. q \in Seq(S) /\ Len(q) = Len(s) - k + 1 /\ \A i \in 1 .. Len(s) - k + 1 : q[i] = s[k + i - 1]
  BY <1>1, <1>2, <1>4, SubSeqProperties
<1>7. PICK u : u = p \o <<x>>
  OBVIOUS
<1>8. /\ u \in Seq(S) /\ Len(u) = k
      /\ \A i \in 1 .. k - 1 : u[i] = s[i]
      /\ u[k] = x
  <2>1. PICK o : o = <<x>>
    OBVIOUS
  <2>2. o \in Seq(S) /\ Len(o) = 1 /\ o[1] = x
    BY <2>1
  <2>3. /\ u \in Seq(S) /\ Len(u) = Len(p) + Len(o)
        /\ \A i \in 1 .. Len(p) + Len(o) : u[i] = IF i <= Len(p) THEN p[i] ELSE o[i - Len(p)]
    BY <1>5, <1>7, <2>1, <2>2, ConcatProperties
  <2>4. Len(u) = k /\ \A i \in 1 .. k : u[i] = IF i <= k - 1 THEN p[i] ELSE o[i - (k - 1)]
    BY <1>1, <1>5, <2>2, <2>3
  <2>5. u[k] = o[1]
    BY <1>1, <2>4
  <2>6. \A i \in 1 .. k - 1 : u[i] = p[i]
    BY <1>1, <2>4
  <2>. QED
    BY <1>5, <2>2, <2>3, <2>4, <2>5, <2>6
<1>9. r = u \o q
  BY <1>3, <1>4, <1>7 DEF InsertAt
<1>10. /\ r \in Seq(S) /\ Len(r) = Len(u) + Len(q)
       /\ \A i \in 1 .. Len(u) + Len(q) : r[i] = IF i <= Len(u) THEN u[i] ELSE q[i - Len(u)]
  <2>1. u \in Seq(S) /\ q \in Seq(S)
    BY <1>6, <1>8
  <2>. QED
    BY <1>9, <2>1, ConcatProperties
<1>11. Len(u) + Len(q) = Len(s) + 1 /\ Len(u) = k
  BY <1>1, <1>6, <1>8
<1>12. \A i \in 1 .. Len(s) + 1 : r[i] = IF i <= k THEN u[i] ELSE q[i - k]
  BY <1>10, <1>11
<1>13. ASSUME NEW i \in 1 .. Len(s) + 1
       PROVE  r[i] = IF i < k THEN s[i] ELSE IF i = k THEN x ELSE s[i - 1]
  <2>1. CASE i < k
    BY <1>1, <1>8, <1>12, <2>1
  <2>2. CASE i = k
    BY <1>1, <1>8, <1>12, <2>2
  <2>3. CASE i > k
    <3>1. PICK j \in 1 .. Len(s) - k + 1 : j = i - k
      BY <1>1, <2>3
    <3>2. r[i] = q[j]
      BY <1>1, <1>12, <2>3, <3>1
    <3>3. q[j] = s[k + j - 1]
      BY <1>6
    <3>4. k + j - 1 = i - 1
      BY <1>1, <3>1
    <3>. QED
      BY <1>1, <2>3, <3>2, <3>3, <3>4
  <2>. QED
    BY <1>1, <2>1, <2>2, <2>3
<1>14. \A i \in 1 .. Len(s) : i < k => r[i] = s[i]
  BY <1>1, <1>13
<1>15. r[k] = x
  BY <1>1, <1>13
<1>16. ASSUME NEW i \in 1 .. Len(s), k <= i PROVE r[i + 1] = s[i]
  <2>1. PICK j \in 1 .. Len(s) + 1 : j = i + 1 /\ ~(j < k) /\ j # k /\ j - 1 = i
    BY <1>1, <1>16
  <2>. QED
    BY <1>13, <2>1
<1>. QED
  BY <1>10, <1>11, <1>14, <1>15, <1>16

\* A step from one value of S to the next, at each of N places, and its values from a on.
StepOf(step, S, N) == step \in [S \X (1 .. N) -> S]
CourseOf(g, a, step, S, N) ==
  /\ g \in [0 .. N -> S] /\ g[0] = a
  /\ \A n \in 1 .. N : g[n] = step[<<g[n - 1], n>>]

\* A step taken from a, once for each of N places, has a course of values.
LEMMA Iterated ==
  ASSUME NEW S, NEW N \in Nat, NEW a \in S, NEW step, StepOf(step, S, N)
  PROVE  \E g : CourseOf(g, a, step, S, N)
<1>. USE DEF StepOf
<1>. SUFFICES \E g \in [0 .. N -> S] : g[0] = a /\ \A n \in 1 .. N : g[n] = step[<<g[n - 1], n>>]
  BY DEF CourseOf
<1>1. PICK T : T = {m \in 0 .. N : ~\E g \in [0 .. m -> S] : g[0] = a /\ \A n \in 1 .. m : g[n] = step[<<g[n - 1], n>>]}
  OBVIOUS
<1>2. T \in SUBSET Nat
  BY <1>1
<1>3. CASE T = {}
  <2>1. N \in 0 .. N
    OBVIOUS
  <2>. QED
    BY <1>1, <1>3, <2>1
<1>4. CASE T # {}
  <2>1. PICK x \in T : \A y \in T : x <= y
    BY <1>2, <1>4, LeastFound
  <2>2. x \in 0 .. N /\ x \in Nat
    BY <1>1, <2>1
  <2>3. CASE x = 0
    <3>1. PICK g : g = [i \in 0 .. 0 |-> a]
      OBVIOUS
    <3>2. g \in [0 .. x -> S] /\ g[0] = a /\ \A n \in 1 .. x : FALSE
      BY <2>3, <3>1
    <3>. QED
      BY <1>1, <2>1, <3>2
  <2>4. CASE x # 0
    <3>1. x - 1 \in 0 .. N /\ x - 1 \notin T
      BY <2>1, <2>2, <2>4
    <3>2. PICK p \in 0 .. N : p = x - 1
      BY <3>1
    <3>3. PICK g \in [0 .. p -> S] : g[0] = a /\ \A n \in 1 .. p : g[n] = step[<<g[n - 1], n>>]
      BY <1>1, <3>1, <3>2
    <3>4. p \in 0 .. p /\ g[p] \in S /\ x \in 1 .. N /\ x = p + 1
      BY <2>2, <2>4, <3>2, <3>3
    <3>5. PICK v \in S : v = step[<<g[p], x>>]
      BY <3>4
    <3>6. PICK h : h = [i \in 0 .. x |-> IF i = x THEN v ELSE g[i]]
      OBVIOUS
    <3>7. \A i \in 0 .. x : i = x \/ i \in 0 .. p
      BY <2>2, <3>2
    <3>8. h \in [0 .. x -> S]
      BY <3>3, <3>5, <3>6, <3>7
    <3>9. h[x] = v /\ \A i \in 0 .. p : h[i] = g[i]
      BY <2>2, <3>2, <3>6
    <3>10. h[0] = a
      BY <3>2, <3>3, <3>9
    <3>11. ASSUME NEW n \in 1 .. x PROVE h[n] = step[<<h[n - 1], n>>]
      <4>1. CASE n = x
        <5>1. h[n - 1] = g[p]
          BY <3>2, <3>4, <3>9, <4>1
        <5>. QED
          BY <3>5, <3>9, <4>1, <5>1
      <4>2. CASE n # x
        <5>1. n \in 1 .. p /\ n - 1 \in 0 .. p /\ n \in 0 .. p
          BY <2>2, <3>2, <4>2
        <5>. QED
          BY <3>3, <3>9, <5>1
      <4>. QED
        BY <4>1, <4>2
    <3>. QED
      BY <1>1, <2>1, <3>8, <3>10, <3>11
  <2>. QED
    BY <2>3, <2>4
<1>. QED
  BY <1>3, <1>4

\* What holds before the first of N steps, and after each step when it held before, holds
\* throughout and in the end.
LEMMA StepByStep ==
  ASSUME NEW N \in Nat, NEW P, 0 \in P, \A n \in 1 .. N : n - 1 \in P => n \in P
  PROVE  N \in P /\ \A n \in 0 .. N : n \in P
<1>1. PICK T : T = {n \in 0 .. N : n \notin P}
  OBVIOUS
<1>2. T \in SUBSET Nat
  BY <1>1
<1>3. CASE T = {}
  BY <1>1, <1>3
<1>4. CASE T # {}
  <2>1. PICK x \in T : \A y \in T : x <= y
    BY <1>2, <1>4, LeastFound
  <2>2. x \in 0 .. N /\ x \notin P
    BY <1>1, <2>1
  <2>3. x \in 1 .. N /\ x - 1 \in 0 .. N /\ ~(x <= x - 1)
    BY <2>2
  <2>4. x - 1 \in P
    BY <1>1, <2>1, <2>3
  <2>. QED
    BY <2>2, <2>3, <2>4
<1>. QED
  BY <1>3, <1>4

\* A list that has nobody twice is as long as the set of its members.
LEMMA OnceCounted ==
  ASSUME NEW S, NEW s \in Seq(S), Once(s)
  PROVE  Len(s) = Cardinality(Range(s))
<1>1. Range(s) = {s[i] : i \in 1 .. Len(s)} /\ Len(s) \in Nat /\ DOMAIN s = 1 .. Len(s)
  BY ListMembers
<1>2. PICK n \in Nat : n = Len(s)
  BY <1>1
<1>3. PICK R : R = Range(s)
  OBVIOUS
<1>4. s \in [1 .. n -> R]
  <2>1. s \in [1 .. n -> S]
    BY <1>1, <1>2, SeqDef
  <2>. QED
    BY <1>1, <1>2, <1>3, <2>1
<1>5. s \in Bijection(1 .. n, R)
  <2>1. \A i, j \in 1 .. n : s[i] = s[j] => i = j
    BY <1>2 DEF Once
  <2>2. \A y \in R : \E i \in 1 .. n : s[i] = y
    BY <1>1, <1>2, <1>3
  <2>. QED
    BY <1>4, <2>1, <2>2 DEF Bijection, Injection, Surjection, IsInjective
<1>6. IsFiniteSet(1 .. n) /\ Cardinality(1 .. n) = n
  <2>1. 1 \in Int /\ n \in Int
    OBVIOUS
  <2>2. IsFiniteSet(1 .. n) /\ Cardinality(1 .. n) = IF 1 > n THEN 0 ELSE n - 1 + 1
    BY <2>1, FS_Interval
  <2>. QED
    BY <2>2
<1>7. Cardinality(R) = n
  BY <1>5, <1>6, FS_Bijection DEF ExistsBijection
<1>. QED
  BY <1>2, <1>3, <1>7
=============================================================================
