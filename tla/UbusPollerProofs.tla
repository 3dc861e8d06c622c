--------------------------- MODULE UbusPollerProofs ---------------------------
(***************************************************************************)
(* Proofs about the Java binding, for any number of callers, requests,     *)
(* application threads and slots, whether or not the bus is there.         *)
(***************************************************************************)
EXTENDS UbusPoller, Integers, FiniteSetTheorems, SequenceTheorems, WellFoundedInduction, TLAPS

-----------------------------------------------------------------------------
(* Outgoing calls *)

FlagsOf(i) == IF wrap[i] = NULL THEN {} ELSE wrap[i].flags

\* What holds of a call wherever it is.
CallOK(i) ==
  /\ i \in requests <=> "REQ" \in FlagsOf(i)
  /\ Listed(i, returns) <=> "RET" \in FlagsOf(i)
  /\ FlagsOf(i) # Flags
  /\ wrap[i] # NULL <=> state[i] \in {"Pending", "Canceled"}
  /\ wrap[i] # NULL => slots[index[i]] = i /\ wrap[i].index = index[i]
  /\ state[i] # "PendingRequest"
  /\ state[i] = "Initialize" <=> caller[i] = "idle"
  /\ caller[i] = "done" => state[i] = "Completed"
  /\ state[i] # "Completed" => ~result[i]
  /\ i \in Adders => wrap[i] = NULL

\* A list with every member once.
Once(s) == \A k, m \in 1 .. Len(s) : s[k] = s[m] => k = m

SlotOK(k) == slots[k] # NULL => wrap[slots[k]] # NULL /\ index[slots[k]] = k

\* Slot k is that of a call whose return was fetched.
ReturnOK(k) == /\ slots[k] # NULL
               /\ wrap[slots[k]] # NULL
               /\ wrap[slots[k]].flags = {}

\* The numbers in pendingReturns that are still to be looked at.
FetchedInv ==
  /\ poller # "complete" => fetched = <<>>
  /\ Once(fetched)
  /\ \A n \in 1 .. Len(fetched) : ReturnOK(fetched[n])

\* The call whose monitor the poller holds while it waits for the bus.
NativeInv ==
  poller = "native" =>
    /\ cur \in Invokers /\ state[cur] = "Queued"
    /\ cur \notin Adders => slots[lastIndex] = NULL

CallInv ==
  /\ \A i \in Invokers : CallOK(i)
  /\ \A k \in Slots : SlotOK(k)
  /\ Once(returns)
  /\ FetchedInv
  /\ NativeInv

-----------------------------------------------------------------------------
(* Incoming requests *)

\* A request that was not accepted yet is at one place on its way.
Arriving(r) == \/ r \in unsent /\ ~Listed(r, pending) /\ ~Listed(r, incoming)
               \/ r \notin unsent /\ Listed(r, pending) /\ ~Listed(r, incoming)
               \/ r \notin unsent /\ ~Listed(r, pending) /\ Listed(r, incoming)
Arrived(r) == r \notin unsent /\ ~Listed(r, pending) /\ ~Listed(r, incoming)

Served(r) == \E w \in Workers : holding[w] = r

RequestOK(r) ==
  /\ state[r] \in {"Initialize", "PendingRequest", "Queued", "Completed"}
  /\ state[r] = "Initialize" => Arriving(r)
  /\ state[r] # "Initialize" => Arrived(r)
  /\ state[r] = "PendingRequest" <=> Listed(r, accept) \/ Served(r)
  /\ ~(Listed(r, accept) /\ Served(r))
  /\ state[r] = "Queued" <=> queued[r] \/ cur = r
  /\ ~(queued[r] /\ cur = r)
  /\ r \in held <=> state[r] \in {"PendingRequest", "Queued"}

QueueInv ==
  /\ Once(queue)
  /\ \A x \in Invokables : queued[x] <=> Listed(x, queue)
  /\ poller \in {"run", "native"} <=> cur # NULL
  /\ poller = "native" => cur \in Invokers

WorkerInv ==
  /\ \A w \in Workers : worker[w] = "serving" <=> holding[w] # NULL
  /\ \A v, w \in Workers : holding[v] = holding[w] /\ holding[v] # NULL => v = w

RequestInv ==
  /\ \A r \in Incoming : RequestOK(r)
  /\ Once(pending) /\ Once(incoming) /\ Once(accept)
  /\ QueueInv
  /\ WorkerInv
  /\ IsFiniteSet(held) /\ accepted = Cardinality(held)

-----------------------------------------------------------------------------
(* Sleep *)

\* The queue was empty when the poller last looked; what came since is in the
\* pipe too.
WakeInv == poller \in {"fetch", "uloop"} /\ queue # <<>> => pipe > 0

-----------------------------------------------------------------------------
(* Lists *)

\* A nonempty set of numbers has a least one: the search of
\* findEmptyInvokeSlot ends at the first free slot.
LEMMA LeastNumber ==
  ASSUME NEW T \in SUBSET Nat, T # {}
  PROVE  \E x \in T : \A y \in T : x <= y
<1>1. PICK R : R = OpToRel(<, Nat)
  BY Zenon
<1>2. R = {p \in Nat \X Nat : p[1] < p[2]}
  BY <1>1, Zenon DEF OpToRel
<1>3. IsWellFoundedOn(R, Nat)
  BY <1>1, NatLessThanWellFounded, Zenon
<1>4. PICK x \in T : \A y \in T : <<y, x>> \notin R
  BY <1>3, WFMin
<1>5. ASSUME NEW y \in T
      PROVE  x <= y
  <2>1. <<y, x>> \notin R /\ x \in Nat /\ y \in Nat
    BY <1>4
  <2>2. <<y, x>> \in R <=> y < x
    BY <1>2, <2>1
  <2> QED BY <2>1, <2>2
<1> QED BY <1>4, <1>5

\* list_add_tail: the members of a list with one more at its end.
LEMMA AppendLists ==
  ASSUME NEW S, NEW s \in Seq(S), NEW x \in S
  PROVE  /\ Append(s, x) \in Seq(S)
         /\ \A y : Listed(y, Append(s, x)) <=> Listed(y, s) \/ y = x
         /\ Once(s) /\ ~Listed(x, s) => Once(Append(s, x))
<1> DEFINE t == Append(s, x)
<1>1. /\ t \in Seq(S) /\ Len(t) = Len(s) + 1 /\ Len(s) \in Nat
      /\ t[Len(t)] = x /\ \A k \in 1 .. Len(s) : t[k] = s[k]
  OBVIOUS
<1> HIDE DEF t
<1>2. \A k \in 1 .. Len(t) : k \in 1 .. Len(s) \/ k = Len(t)
  BY <1>1
<1>3. 1 .. Len(s) \subseteq 1 .. Len(t) /\ Len(t) \in 1 .. Len(t)
  BY <1>1
<1>4. ASSUME NEW y
      PROVE  Listed(y, t) <=> Listed(y, s) \/ y = x
  BY <1>1, <1>2, <1>3 DEF Listed
<1>5. ASSUME Once(s), ~Listed(x, s)
      PROVE  Once(t)
  BY <1>1, <1>2, <1>5 DEF Listed, Once
<1> QED BY <1>1, <1>4, <1>5 DEF t

\* list_del of the head.
LEMMA TailLists ==
  ASSUME NEW S, NEW s \in Seq(S), s # <<>>
  PROVE  /\ Head(s) \in S /\ Tail(s) \in Seq(S)
         /\ Listed(Head(s), s)
         /\ \A y : Listed(y, Tail(s)) => Listed(y, s)
         /\ \A y : Listed(y, s) /\ y # Head(s) => Listed(y, Tail(s))
         /\ Once(s) => Once(Tail(s)) /\ ~Listed(Head(s), Tail(s))
<1> DEFINE t == Tail(s)
<1>1. /\ t \in Seq(S) /\ Len(t) = Len(s) - 1 /\ Len(s) \in Nat \ {0}
      /\ \A k \in 1 .. Len(t) : t[k] = s[k + 1]
      /\ Head(s) = s[1] /\ Head(s) \in S
  OBVIOUS
<1> HIDE DEF t
<1>2. \A k \in 1 .. Len(t) : k + 1 \in 1 .. Len(s) /\ k + 1 # 1
  BY <1>1
<1>3. \A k \in 1 .. Len(s) : k = 1 \/ k - 1 \in 1 .. Len(t)
  BY <1>1
<1>4. 1 \in 1 .. Len(s) /\ \A k \in 1 .. Len(s) : (k - 1) + 1 = k
  BY <1>1
<1>5. Listed(Head(s), s)
  BY <1>1, <1>4 DEF Listed
<1>6. ASSUME NEW y, Listed(y, t)
      PROVE  Listed(y, s)
  BY <1>1, <1>2, <1>6 DEF Listed
<1>7. ASSUME NEW y, Listed(y, s), y # Head(s)
      PROVE  Listed(y, t)
  BY <1>1, <1>3, <1>4, <1>7 DEF Listed
<1>8. ASSUME Once(s)
      PROVE  Once(t) /\ ~Listed(Head(s), t)
  <2>1. ~Listed(Head(s), t)
    BY <1>1, <1>2, <1>4, <1>8 DEF Listed, Once
  <2>2. ASSUME NEW k \in 1 .. Len(t), NEW m \in 1 .. Len(t), t[k] = t[m]
        PROVE  k = m
    <3>1. s[k + 1] = s[m + 1] /\ k + 1 \in 1 .. Len(s) /\ m + 1 \in 1 .. Len(s)
      BY <1>1, <1>2, <2>2
    <3>2. k + 1 = m + 1
      BY <3>1, <1>8 DEF Once
    <3> QED BY <3>2
  <2> QED BY <2>1, <2>2 DEF Once
<1> QED BY <1>1, <1>5, <1>6, <1>7, <1>8 DEF t

\* A list appended to another one.
LEMMA ConcatLists ==
  ASSUME NEW S, NEW s \in Seq(S), NEW t \in Seq(S)
  PROVE  /\ s \o t \in Seq(S)
         /\ \A y : Listed(y, s \o t) <=> Listed(y, s) \/ Listed(y, t)
         /\ Once(s) /\ Once(t) /\ (\A y : ~(Listed(y, s) /\ Listed(y, t)))
              => Once(s \o t)
<1> DEFINE u == s \o t
<1>1. /\ u \in Seq(S) /\ Len(u) = Len(s) + Len(t)
      /\ Len(s) \in Nat /\ Len(t) \in Nat
      /\ \A k \in 1 .. Len(s) : u[k] = s[k]
      /\ \A k \in 1 .. Len(t) : u[Len(s) + k] = t[k]
  OBVIOUS
<1> HIDE DEF u
<1>2. /\ \A k \in 1 .. Len(s) : k \in 1 .. Len(u)
      /\ \A k \in 1 .. Len(t) : Len(s) + k \in 1 .. Len(u)
  BY <1>1
<1>3. \A k \in 1 .. Len(u) :
        k \in 1 .. Len(s) \/ \E j \in 1 .. Len(t) : k = Len(s) + j
  <2> TAKE k \in 1 .. Len(u)
  <2>1. k \in 1 .. Len(s) \/ (k - Len(s) \in 1 .. Len(t) /\ k = Len(s) + (k - Len(s)))
    BY <1>1
  <2> QED BY <2>1
<1>4. ASSUME NEW y
      PROVE  Listed(y, u) <=> Listed(y, s) \/ Listed(y, t)
  BY <1>1, <1>2, <1>3 DEF Listed
<1>5. ASSUME Once(s), Once(t), \A y : ~(Listed(y, s) /\ Listed(y, t))
      PROVE  Once(u)
  <2>1. \A k \in 1 .. Len(s), j \in 1 .. Len(t) : s[k] # t[j]
    BY <1>5 DEF Listed
  <2> SUFFICES ASSUME NEW k \in 1 .. Len(u), NEW m \in 1 .. Len(u), u[k] = u[m]
               PROVE  k = m
    BY DEF Once
  <2>2. CASE k \in 1 .. Len(s) /\ m \in 1 .. Len(s)
    BY <1>1, <1>5, <2>2 DEF Once
  <2>3. ASSUME NEW j \in 1 .. Len(t), NEW i \in 1 .. Len(t),
               k = Len(s) + j, m = Len(s) + i
        PROVE  k = m
    BY <1>1, <1>5, <2>3 DEF Once
  <2>4. \A i \in 1 .. Len(s), j \in 1 .. Len(t) : u[i] # u[Len(s) + j]
    BY <1>1, <2>1
  <2> QED BY <1>3, <2>2, <2>3, <2>4
<1> QED BY <1>1, <1>4, <1>5 DEF u

\* The part of a list after its first n members.
LEMMA SuffixLists ==
  ASSUME NEW S, NEW s \in Seq(S), NEW n \in Nat, n <= Len(s)
  PROVE  LET t == SubSeq(s, n + 1, Len(s))
         IN  /\ t \in Seq(S)
             /\ \A y : Listed(y, t) <=> \E k \in n + 1 .. Len(s) : s[k] = y
             /\ Once(s) => Once(t)
<1> DEFINE t == SubSeq(s, n + 1, Len(s))
<1>1. /\ t \in Seq(S) /\ Len(s) \in Nat /\ Len(t) = Len(s) - n
      /\ \A k \in 1 .. Len(t) : t[k] = s[n + k]
  OBVIOUS
<1> HIDE DEF t
<1>2. /\ \A k \in 1 .. Len(t) : n + k \in n + 1 .. Len(s) /\ n + k \in 1 .. Len(s)
      /\ \A k \in n + 1 .. Len(s) : k - n \in 1 .. Len(t) /\ n + (k - n) = k
  BY <1>1
<1>3. ASSUME NEW y
      PROVE  Listed(y, t) <=> \E k \in n + 1 .. Len(s) : s[k] = y
  BY <1>1, <1>2 DEF Listed
<1>4. ASSUME Once(s)
      PROVE  Once(t)
  <2> SUFFICES ASSUME NEW k \in 1 .. Len(t), NEW m \in 1 .. Len(t), t[k] = t[m]
               PROVE  k = m
    BY DEF Once
  <2>1. n + k = n + m
    BY <1>1, <1>2, <1>4 DEF Once
  <2> QED BY <2>1
<1> QED BY <1>1, <1>3, <1>4 DEF t

\* list_del takes one call off its list and leaves the others.
LEMMA list_delRemoves ==
  ASSUME NEW S, NEW s \in Seq(S), NEW x, Listed(x, s), Once(s)
  PROVE  /\ list_del(s, x) \in Seq(S)
         /\ Once(list_del(s, x))
         /\ \A y : Listed(y, list_del(s, x)) <=> Listed(y, s) /\ y # x
<1> DEFINE n == CHOOSE k \in 1 .. Len(s) : s[k] = x
<1>1. n \in 1 .. Len(s) /\ s[n] = x
  BY DEF Listed
<1>2. PICK p, q : p = SubSeq(s, 1, n - 1) /\ q = SubSeq(s, n + 1, Len(s))
  OBVIOUS
<1>3. list_del(s, x) = p \o q
  BY <1>2 DEF list_del
<1> HIDE DEF n
<1>4. n \in Nat /\ n <= Len(s) /\ Len(s) \in Nat
  BY <1>1
<1>5. /\ q \in Seq(S) /\ Once(q)
      /\ \A y : Listed(y, q) <=> \E k \in n + 1 .. Len(s) : s[k] = y
  BY <1>2, <1>4, SuffixLists
<1>6. /\ p \in Seq(S) /\ Len(p) = n - 1 /\ \A k \in 1 .. Len(p) : p[k] = s[k]
  BY <1>1, <1>2
<1>7. Once(p) /\ \A y : Listed(y, p) <=> \E k \in 1 .. n - 1 : s[k] = y
  BY <1>4, <1>6 DEF Once, Listed
<1>8. \A y : ~(Listed(y, p) /\ Listed(y, q))
  <2>1. \A k \in 1 .. n - 1, m \in n + 1 .. Len(s) :
          k \in 1 .. Len(s) /\ m \in 1 .. Len(s) /\ k # m
    BY <1>4
  <2> QED BY <1>5, <1>7, <2>1 DEF Once
<1>9. \A y : Listed(y, s) /\ y # x <=> Listed(y, p) \/ Listed(y, q)
  <2>1. \A k \in 1 .. Len(s) : k = n \/ k \in 1 .. n - 1 \/ k \in n + 1 .. Len(s)
    BY <1>4
  <2>2. /\ \A k \in 1 .. n - 1 : k \in 1 .. Len(s) /\ k # n
        /\ \A k \in n + 1 .. Len(s) : k \in 1 .. Len(s) /\ k # n
    BY <1>4
  <2>3. \A k \in 1 .. Len(s) : s[k] = x => k = n
    BY <1>1 DEF Once
  <2> QED BY <1>1, <1>5, <1>7, <2>1, <2>2, <2>3 DEF Listed
<1> QED BY <1>3, <1>5, <1>6, <1>7, <1>8, <1>9, ConcatLists

-----------------------------------------------------------------------------
(* The operators of the calls *)

\* findEmptyInvokeSlot returns a free slot of the table, or says it is full.
LEMMA EmptySlotIsFree ==
  ASSUME TypeOK, findEmptyInvokeSlot # NULL
  PROVE  findEmptyInvokeSlot \in Slots /\ slots[findEmptyInvokeSlot] = NULL
<1> DEFINE free == {k \in Slots : slots[SlotFrom(k)] = NULL}
           least == CHOOSE k \in free : \A j \in free : k <= j
<1>1. free # {} /\ findEmptyInvokeSlot = SlotFrom(least)
  BY DEF findEmptyInvokeSlot
<1>2. Slots \subseteq Nat /\ lastIndex \in Nat
  BY WrapperAssumption DEF Slots, TypeOK
<1>3. \E k \in free : \A j \in free : k <= j
  BY <1>1, <1>2, LeastNumber
<1>4. least \in free
  BY <1>3
<1> HIDE DEF least
<1>5. (lastIndex + least) % MaxInvoke \in 0 .. MaxInvoke - 1
  <2>1. lastIndex + least \in Nat /\ MaxInvoke \in Nat \ {0}
    BY <1>2, <1>4, WrapperAssumption
  <2> QED BY <2>1
<1> QED BY <1>1, <1>4, <1>5 DEF SlotFrom, Slots

\* What ubus_wrap_invoke does to a call that has no context yet.
LEMMA InvokeEffect ==
  ASSUME TypeOK, NEW i \in Invokers, wrap[i] = NULL, NEW k \in Slots,
         NEW sent \in BOOLEAN, ubus_wrap_invoke(i, k, sent)
  PROVE  /\ wrap' \in [Invokers -> Context \union {NULL}]
         /\ \A j \in Invokers : j # i => wrap'[j] = wrap[j]
         /\ wrap'[i] # NULL /\ wrap'[i].index = k /\ ~wrap'[i].result
         /\ wrap'[i].flags = IF sent THEN {"REQ"} ELSE {"RET"}
         /\ requests' = IF sent THEN requests \union {i} ELSE requests
         /\ returns' = IF sent THEN returns ELSE Append(returns, i)
         /\ aborted' = aborted
<1> DEFINE c == [flags |-> IF sent THEN {"REQ"} ELSE {"RET"}, index |-> k,
                 result |-> FALSE]
<1>1. wrap \in [Invokers -> Context \union {NULL}]
  BY DEF TypeOK, WrapperTypeOK
<1>2. c \in Context /\ c # NULL
  <2>1. (IF sent THEN {"REQ"} ELSE {"RET"}) \in SUBSET Flags
    BY DEF Flags
  <2>2. c \in Context
    BY <2>1 DEF Context
  <2>3. NULL \notin Context
    BY WrapperAssumption
  <2> QED BY <2>2, <2>3
<1>3. /\ wrap' = [wrap EXCEPT ![i] = c]
      /\ requests' = IF sent THEN requests \union {i} ELSE requests
      /\ returns' = IF sent THEN returns ELSE Append(returns, i)
      /\ aborted' = aborted
  <2>1. aborted \in BOOLEAN
    BY DEF TypeOK, WrapperTypeOK
  <2>2. CASE sent
    BY <2>1, <2>2 DEF ubus_wrap_invoke, NewContext
  <2>3. CASE ~sent
    BY <2>1, <2>3 DEF ubus_wrap_invoke, NewContext
  <2> QED BY <2>2, <2>3
<1>4. c.index = k /\ c.result = FALSE /\ c.flags = IF sent THEN {"REQ"} ELSE {"RET"}
  OBVIOUS
<1> HIDE DEF c
<1>5. wrap' \in [Invokers -> Context \union {NULL}]
  BY <1>1, <1>2, <1>3
<1>6. wrap'[i] = c /\ \A j \in Invokers : j # i => wrap'[j] = wrap[j]
  BY <1>1, <1>3
<1> QED BY <1>2, <1>3, <1>4, <1>5, <1>6

\* What the DATA and the STATUS of a call on the request list do to it.
LEMMA AnswerEffect ==
  ASSUME TypeOK, NEW i \in Invokers, CallOK(i),
         recv_cb_json_out(i) \/ ubus_sync_req_cb(i)
  PROVE  /\ wrap' \in [Invokers -> Context \union {NULL}]
         /\ \A j \in Invokers : j # i => wrap'[j] = wrap[j]
         /\ wrap[i] # NULL /\ wrap'[i] # NULL /\ wrap'[i].index = wrap[i].index
         /\ wrap[i].flags = {"REQ"}
         /\ wrap'[i].flags = IF requests' = requests THEN {"REQ"} ELSE {"RET"}
         /\ \/ recv_cb_json_out(i) /\ UNCHANGED <<requests, returns>>
            \/ ubus_sync_req_cb(i) /\ requests' = requests \ {i}
               /\ requests' # requests
               /\ returns' = Append(returns, i)
<1>1. wrap \in [Invokers -> Context \union {NULL}] /\ i \in requests
  BY DEF TypeOK, WrapperTypeOK, recv_cb_json_out, ubus_sync_req_cb
<1>2. wrap[i] # NULL /\ wrap[i] \in Context /\ "REQ" \in wrap[i].flags
  BY <1>1 DEF CallOK, FlagsOf
<1>3. wrap[i].flags \in SUBSET Flags /\ wrap[i].flags # Flags
  BY <1>2 DEF CallOK, FlagsOf, Context
<1>4. wrap[i].flags = {"REQ"}
  BY <1>2, <1>3 DEF Flags
<1>5. CASE recv_cb_json_out(i)
  <2> DEFINE c == [wrap[i] EXCEPT !.result = TRUE]
  <2>1. c \in Context /\ c # NULL /\ c.index = wrap[i].index /\ c.flags = {"REQ"}
    BY <1>2, <1>4, WrapperAssumption DEF Context
  <2>2. wrap' = [wrap EXCEPT ![i] = c]
    BY <1>5 DEF recv_cb_json_out
  <2>3. UNCHANGED <<requests, returns>>
    BY <1>5 DEF recv_cb_json_out
  <2> HIDE DEF c
  <2>4. wrap' \in [Invokers -> Context \union {NULL}]
    BY <1>1, <2>1, <2>2
  <2>5. wrap'[i] = c /\ \A j \in Invokers : j # i => wrap'[j] = wrap[j]
    BY <1>1, <2>2
  <2> QED BY <1>2, <1>4, <1>5, <2>1, <2>3, <2>4, <2>5
<1>6. CASE ubus_sync_req_cb(i)
  <2> DEFINE c == [wrap[i] EXCEPT !.flags = (@ \ {"REQ"}) \union {"RET"}]
  <2>1. c \in Context /\ c # NULL /\ c.index = wrap[i].index /\ c.flags = {"RET"}
    BY <1>2, <1>4, WrapperAssumption DEF Context, Flags
  <2>2. wrap' = [wrap EXCEPT ![i] = c]
    BY <1>6 DEF ubus_sync_req_cb
  <2>3. requests' = requests \ {i} /\ requests' # requests
        /\ returns' = Append(returns, i)
    BY <1>1, <1>6 DEF ubus_sync_req_cb
  <2> HIDE DEF c
  <2>4. wrap' \in [Invokers -> Context \union {NULL}]
    BY <1>1, <2>1, <2>2
  <2>5. wrap'[i] = c /\ \A j \in Invokers : j # i => wrap'[j] = wrap[j]
    BY <1>1, <2>2
  <2> QED BY <1>2, <1>4, <1>6, <2>1, <2>3, <2>4, <2>5
<1> QED BY <1>5, <1>6

\* ubus_wrap_release frees the context and leaves the call on no list.
LEMMA ReleaseEffect ==
  ASSUME TypeOK, NEW i \in Invokers, CallOK(i), Once(returns),
         ubus_wrap_release(i)
  PROVE  /\ wrap' \in [Invokers -> Context \union {NULL}]
         /\ \A j \in Invokers : j # i => wrap'[j] = wrap[j]
         /\ wrap'[i] = NULL
         /\ requests' = requests \ {i}
         /\ returns' \in Seq(Invokers) /\ Once(returns')
         /\ \A j : Listed(j, returns') <=> Listed(j, returns) /\ j # i
         /\ aborted' \in BOOLEAN
<1>1. /\ wrap \in [Invokers -> Context \union {NULL}]
      /\ returns \in Seq(Invokers) /\ aborted \in BOOLEAN
  BY DEF TypeOK, WrapperTypeOK
<1>2. /\ requests' = IF "REQ" \in FlagsOf(i) THEN requests \ {i} ELSE requests
      /\ returns' = IF "RET" \in FlagsOf(i) THEN list_del(returns, i) ELSE returns
      /\ wrap' = [wrap EXCEPT ![i] = NULL]
      /\ aborted' = (aborted \/ ("REQ" \in FlagsOf(i) /\ bus = "none"))
  BY DEF ubus_wrap_release, FlagsOf
<1>3. requests' = requests \ {i}
  BY <1>2 DEF CallOK
<1>4. /\ returns' \in Seq(Invokers) /\ Once(returns')
      /\ \A j : Listed(j, returns') <=> Listed(j, returns) /\ j # i
  <2>1. CASE "RET" \in FlagsOf(i)
    <3>1. Listed(i, returns) /\ returns' = list_del(returns, i)
      BY <1>2, <2>1 DEF CallOK
    <3> QED BY <1>1, <3>1, list_delRemoves
  <2>2. CASE "RET" \notin FlagsOf(i)
    <3>1. ~Listed(i, returns) /\ returns' = returns
      BY <1>2, <2>2 DEF CallOK
    <3> QED BY <1>1, <3>1
  <2> QED BY <2>1, <2>2
<1>5. wrap' \in [Invokers -> Context \union {NULL}]
  BY <1>1, <1>2
<1>6. wrap'[i] = NULL /\ \A j \in Invokers : j # i => wrap'[j] = wrap[j]
  BY <1>1, <1>2
<1>7. aborted' \in BOOLEAN
  BY <1>2
<1> QED BY <1>3, <1>4, <1>5, <1>6, <1>7

-----------------------------------------------------------------------------
(* Types *)

\* add() keeps mInvokableQueue and the pipe what they are.
LEMMA AddTypes ==
  ASSUME TypeOK, NEW x \in Invokables, add(x)
  PROVE  /\ queued' \in [Invokables -> BOOLEAN]
         /\ queue' \in Seq(Invokables)
         /\ pipe' \in Nat
<1>1. /\ queued \in [Invokables -> BOOLEAN] /\ queue \in Seq(Invokables)
      /\ pipe \in Nat
  BY DEF TypeOK, WrapperTypeOK
<1>2. CASE queued[x]
  BY <1>1, <1>2 DEF add, queueVars
<1>3. CASE ~queued[x]
  <2>1. /\ queued' = [queued EXCEPT ![x] = TRUE] /\ queue' = Append(queue, x)
        /\ pipe' = IF poller # "init" THEN pipe + 1 ELSE pipe
    BY <1>3 DEF add, ubus_wrap_wakeup
  <2>2. Append(queue, x) \in Seq(Invokables)
    BY <1>1
  <2> QED BY <1>1, <2>1, <2>2
<1> QED BY <1>2, <1>3

\* setState keeps the states of invokables and callers what they are.
LEMMA SetStateTypes ==
  ASSUME TypeOK, NEW i \in Invokers, NEW s \in States, setState(i, s)
  PROVE  /\ state' \in [Invokables -> States]
         /\ caller' \in [Invokers -> CallerPcs]
         /\ \A x \in Invokables : state'[x] = IF x = i THEN s ELSE state[x]
         /\ \A j \in Invokers : j # i => caller'[j] = caller[j]
         /\ caller'[i] = "idle" <=> caller[i] = "idle"
         /\ caller'[i] = "done" <=> caller[i] = "done"
<1>1. /\ state \in [Invokables -> States] /\ caller \in [Invokers -> CallerPcs]
      /\ i \in Invokables
  BY DEF TypeOK, Invokables
<1>2. /\ state' \in [Invokables -> States]
      /\ \A x \in Invokables : state'[x] = IF x = i THEN s ELSE state[x]
  BY <1>1 DEF setState
<1>3. PICK pc \in CallerPcs :
        /\ caller' = [caller EXCEPT ![i] = pc]
        /\ pc = "idle" <=> caller[i] = "idle"
        /\ pc = "done" <=> caller[i] = "done"
  <2> DEFINE pc == CASE caller[i] = "timed" -> "notified"
                     [] caller[i] = "waiting" -> "checking"
                     [] OTHER -> caller[i]
  <2>1. caller' = [caller EXCEPT ![i] = pc]
    BY DEF setState, notify
  <2>2. /\ pc \in CallerPcs
        /\ pc = "idle" <=> caller[i] = "idle"
        /\ pc = "done" <=> caller[i] = "done"
    BY <1>1 DEF CallerPcs
  <2> QED BY <2>1, <2>2
<1> QED BY <1>1, <1>2, <1>3

\* What the invariants say of the call that the poller runs.
LEMMA RunningCall ==
  ASSUME TypeOK, CallInv, cur \in Invokers, state[cur] = "Queued"
  PROVE  wrap[cur] = NULL /\ ~Listed(cur, returns) /\ cur \notin requests
<1>1. CallOK(cur)
  BY DEF CallInv
<1> QED BY <1>1 DEF CallOK, FlagsOf

\* What ubus_wrap_fetch_return does: the first calls of the return list lose
\* the flag of that list, and their slot numbers go to pendingReturns.
LEMMA FetchEffect ==
  ASSUME TypeOK, CallInv, NEW ret, ubus_wrap_fetch_return(ret)
  PROVE  /\ ret \in Seq(Slots) /\ Len(ret) = FetchCount
         /\ FetchCount \in Nat /\ FetchCount <= Len(returns)
         /\ \A k \in 1 .. FetchCount : ret[k] = index[returns[k]]
         /\ wrap' \in [Invokers -> Context \union {NULL}]
         /\ \A i \in Invokers : wrap[i] = NULL => wrap'[i] = NULL
         /\ \A i \in Invokers : wrap[i] # NULL =>
              /\ wrap'[i] # NULL /\ wrap'[i].index = wrap[i].index
              /\ wrap'[i].flags = IF \E k \in 1 .. FetchCount : returns[k] = i
                                    THEN {} ELSE wrap[i].flags
         /\ returns' = SubSeq(returns, FetchCount + 1, Len(returns))
         /\ UNCHANGED <<requests, incoming, held, accepted, pending, unsent,
                         nobject, pipe, bus, aborted>>
<1> DEFINE n == FetchCount
<1>1. /\ wrap \in [Invokers -> Context \union {NULL}]
      /\ returns \in Seq(Invokers) /\ Len(returns) \in Nat
  BY DEF TypeOK, WrapperTypeOK
<1>2. n \in Nat /\ n <= Len(returns)
  BY <1>1, WrapperAssumption DEF FetchCount
<1>3. /\ ret = [k \in 1 .. n |-> wrap[returns[k]].index]
      /\ wrap' = [i \in Invokers |->
                    IF \E k \in 1 .. n : returns[k] = i
                      THEN [wrap[i] EXCEPT !.flags = @ \ {"RET"}]
                      ELSE wrap[i]]
      /\ returns' = SubSeq(returns, n + 1, Len(returns))
      /\ UNCHANGED <<requests, incoming, held, accepted, pending, unsent,
                      nobject, pipe, bus, aborted>>
  BY DEF ubus_wrap_fetch_return
<1> HIDE DEF n
<1>4. \A i \in Invokers : wrap[i] # NULL =>
        wrap[i] \in Context /\ wrap[i].flags \in SUBSET Flags
        /\ wrap[i].flags # Flags /\ wrap[i].index = index[i]
  BY <1>1 DEF CallInv, CallOK, FlagsOf, Context
<1>5. ASSUME NEW k \in 1 .. n
      PROVE  /\ returns[k] \in Invokers /\ wrap[returns[k]] # NULL
             /\ wrap[returns[k]].flags = {"RET"}
             /\ wrap[returns[k]].index = index[returns[k]]
             /\ index[returns[k]] \in Slots
  <2>1. k \in 1 .. Len(returns)
    BY <1>2
  <2>2. returns[k] \in Invokers /\ Listed(returns[k], returns)
    BY <1>1, <2>1 DEF Listed
  <2>3. "RET" \in FlagsOf(returns[k])
    BY <2>2 DEF CallInv, CallOK
  <2>4. wrap[returns[k]] # NULL /\ "RET" \in wrap[returns[k]].flags
    BY <2>3 DEF FlagsOf
  <2>5. wrap[returns[k]].flags = {"RET"}
    BY <1>4, <2>2, <2>4 DEF Flags
  <2> QED BY <1>4, <2>2, <2>4, <2>5 DEF TypeOK
<1>6. ret \in Seq(Slots) /\ Len(ret) = n
      /\ \A k \in 1 .. n : ret[k] = index[returns[k]]
  <2>1. \A k \in 1 .. n : ret[k] = index[returns[k]] /\ ret[k] \in Slots
    BY <1>3, <1>5
  <2>2. ret \in [1 .. n -> Slots]
    BY <1>3, <2>1
  <2> QED BY <1>2, <2>1, <2>2
<1>7. ASSUME NEW i \in Invokers
      PROVE  /\ wrap'[i] \in Context \union {NULL}
             /\ wrap[i] = NULL => wrap'[i] = NULL
             /\ wrap[i] # NULL =>
                  /\ wrap'[i] # NULL /\ wrap'[i].index = wrap[i].index
                  /\ wrap'[i].flags = IF \E k \in 1 .. n : returns[k] = i
                                        THEN {} ELSE wrap[i].flags
  <2>1. CASE \E k \in 1 .. n : returns[k] = i
    <3>1. wrap[i] # NULL /\ wrap[i].flags = {"RET"} /\ wrap[i] \in Context
      BY <1>4, <1>5, <2>1
    <3>2. wrap'[i] = [wrap[i] EXCEPT !.flags = @ \ {"RET"}]
      BY <1>3, <2>1
    <3>3. wrap'[i] \in Context /\ wrap'[i].index = wrap[i].index
          /\ wrap'[i].flags = {}
      BY <3>1, <3>2 DEF Context
    <3>4. NULL \notin Context
      BY WrapperAssumption
    <3> QED BY <2>1, <3>1, <3>3, <3>4
  <2>2. CASE ~\E k \in 1 .. n : returns[k] = i
    <3>1. wrap'[i] = wrap[i]
      BY <1>3, <2>2
    <3> QED BY <1>1, <2>2, <3>1
  <2> QED BY <2>1, <2>2
<1>8. wrap' \in [Invokers -> Context \union {NULL}]
  <2>1. wrap' = [i \in Invokers |-> wrap'[i]]
    BY <1>3
  <2> QED BY <1>7, <2>1
<1> QED BY <1>2, <1>3, <1>6, <1>7, <1>8 DEF n

\* The variables keep their types in every step.
LEMMA TypeStep ==
  ASSUME TypeOK, CallInv, RequestInv, Next
  PROVE  TypeOK'
<1> USE DEF callVars, inVars, queueVars, tableVars, appVars, javaVars, wrapVars
<1>0. NULL \notin Invokables /\ Invokers \subseteq Invokables
      /\ Incoming \subseteq Invokables /\ Adders \subseteq Invokers
  BY WrapperAssumption, PollerAssumption DEF Invokables
<1>1. ASSUME NEW i \in Invokers, Start(i)
      PROVE  TypeOK'
  <2>1. i \in Invokables /\ add(i)
    BY <1>0, <1>1 DEF Start
  <2> QED BY <1>1, <2>1, AddTypes
       DEF Start, TypeOK, WrapperTypeOK, CallerPcs, States
<1>2. ASSUME NEW i \in Invokers, Timeout(i) \/ Recheck(i)
      PROVE  TypeOK'
  BY <1>2 DEF Timeout, Recheck, TypeOK, WrapperTypeOK, CallerPcs
<1>3. ASSUME NEW i \in Invokers, Cancel(i)
      PROVE  TypeOK'
  <2>1. caller' \in [Invokers -> CallerPcs]
    BY <1>3 DEF Cancel, TypeOK, CallerPcs
  <2>2. CASE state[i] = "Queued"
    BY <1>0, <1>3, <2>1, <2>2 DEF Cancel, TypeOK, WrapperTypeOK, States
  <2>3. CASE state[i] = "Pending"
    <3>1. add(i) /\ i \in Invokables /\ state' = [state EXCEPT ![i] = "Canceled"]
      BY <1>0, <1>3, <2>3 DEF Cancel
    <3> QED BY <1>3, <2>1, <3>1, AddTypes DEF Cancel, TypeOK, WrapperTypeOK, States
  <2>4. CASE state[i] \notin {"Queued", "Pending"}
    BY <1>3, <2>1, <2>4 DEF Cancel, TypeOK, WrapperTypeOK
  <2> QED BY <2>2, <2>3, <2>4
<1>4. CASE PollerInit \/ RunAddObject
  BY <1>4 DEF PollerInit, RunAddObject, ubus_wrap_init, TypeOK, WrapperTypeOK,
              PollerPcs
<1>5. CASE Drain
  <2>1. CASE queue = <<>>
    BY <1>5, <2>1 DEF Drain, TypeOK, WrapperTypeOK, PollerPcs
  <2>2. CASE queue # <<>>
    <3>1. Head(queue) \in Invokables /\ Tail(queue) \in Seq(Invokables)
      BY <2>2 DEF TypeOK
    <3> QED BY <1>5, <2>2, <3>1 DEF Drain, TypeOK, WrapperTypeOK, PollerPcs
  <2> QED BY <2>1, <2>2
<1>6. ASSUME NEW k \in Slots, NEW sent \in BOOLEAN, cur \in Invokers,
             state[cur] = "Queued", InvokeNativeEnds(k, sent)
      PROVE  /\ wrap' \in [Invokers -> Context \union {NULL}]
             /\ requests' \subseteq Invokers /\ returns' \in Seq(Invokers)
             /\ slots' \in [Slots -> Invokers \union {NULL}]
             /\ index' \in [Invokers -> Slots]
             /\ state' \in [Invokables -> States]
             /\ caller' \in [Invokers -> CallerPcs]
             /\ poller' \in PollerPcs /\ cur' \in Invokables \union {NULL}
             /\ aborted' \in BOOLEAN
  <2>1. ubus_wrap_invoke(cur, k, sent) /\ setState(cur, "Pending")
        /\ "Pending" \in States
    BY <1>6 DEF InvokeNativeEnds, States
  <2>2. /\ wrap' \in [Invokers -> Context \union {NULL}]
        /\ requests' = IF sent THEN requests \union {cur} ELSE requests
        /\ returns' = IF sent THEN returns ELSE Append(returns, cur)
        /\ aborted' = aborted
    BY <1>6, <2>1, RunningCall, InvokeEffect
  <2>3. requests' \subseteq Invokers /\ returns' \in Seq(Invokers)
        /\ aborted' \in BOOLEAN
    BY <1>6, <2>2, AppendLists DEF TypeOK, WrapperTypeOK
  <2>4. /\ state' \in [Invokables -> States]
        /\ caller' \in [Invokers -> CallerPcs]
    BY <1>6, <2>1, SetStateTypes
  <2>5. /\ slots' \in [Slots -> Invokers \union {NULL}]
        /\ index' \in [Invokers -> Slots]
    BY <1>6 DEF InvokeNativeEnds, TypeOK
  <2>6. poller' \in PollerPcs /\ cur' \in Invokables \union {NULL}
    BY <1>6 DEF InvokeNativeEnds, NextInvokable, PollerPcs
  <2> QED BY <2>2, <2>3, <2>4, <2>5, <2>6
<1>7. CASE RunInvoke
  <2>1. cur \in Invokers /\ state[cur] = "Queued" /\ "Completed" \in States
    BY <1>7 DEF RunInvoke, States
  <2>2. CASE findEmptyInvokeSlot = NULL
    <3>1. setState(cur, "Completed")
      BY <1>7, <2>2 DEF RunInvoke
    <3>2. /\ state' \in [Invokables -> States]
          /\ caller' \in [Invokers -> CallerPcs]
      BY <2>1, <3>1, SetStateTypes
    <3> QED BY <1>7, <2>2, <3>2
         DEF RunInvoke, NextInvokable, TypeOK, WrapperTypeOK, PollerPcs
  <2>3. CASE findEmptyInvokeSlot # NULL
    <3>0. findEmptyInvokeSlot \in Slots
      BY <2>3, EmptySlotIsFree
    <3>1. bus' \in {"none", "up", "dead"} /\ lastIndex' = findEmptyInvokeSlot
          /\ UNCHANGED <<inVars, nobject, pipe, result, queueVars, fetched, appVars>>
      BY <1>7, <2>3 DEF RunInvoke, ubus_wrap_init, TypeOK, WrapperTypeOK
    <3>2. CASE bus' = "up"
      BY <1>7, <2>3, <3>0, <3>1, <3>2 DEF RunInvoke, TypeOK, WrapperTypeOK, PollerPcs
    <3>3. CASE bus' # "up"
      <4>1. InvokeNativeEnds(findEmptyInvokeSlot, FALSE)
        BY <1>7, <2>3, <3>3 DEF RunInvoke
      <4> QED BY <1>6, <2>1, <3>0, <3>1, <4>1 DEF TypeOK, WrapperTypeOK
    <3> QED BY <3>2, <3>3
  <2> QED BY <2>2, <2>3
<1>8. CASE LookupAnswered
  <2>1. cur \in Invokers /\ state[cur] = "Queued" /\ lastIndex \in Slots
    BY <1>8 DEF LookupAnswered, CallInv, NativeInv, TypeOK
  <2>2. PICK sent \in BOOLEAN : InvokeNativeEnds(lastIndex, sent)
    BY <1>8 DEF LookupAnswered
  <2> QED BY <1>6, <1>8, <2>1, <2>2 DEF LookupAnswered, TypeOK, WrapperTypeOK
<1>9. CASE AddObjectAnswered
  <2>1. setState(cur, "Completed") /\ cur \in Invokers /\ "Completed" \in States
    BY <1>0, <1>9 DEF AddObjectAnswered, States
  <2>2. /\ state' \in [Invokables -> States]
        /\ caller' \in [Invokers -> CallerPcs]
    BY <2>1, SetStateTypes
  <2>3. nobject' \in Nat /\ aborted' \in BOOLEAN
    <3>1. nobject \in Nat /\ aborted \in BOOLEAN
      BY DEF TypeOK, WrapperTypeOK
    <3>2. \/ nobject' = nobject + 1 /\ aborted' = aborted
          \/ nobject' = nobject /\ aborted' = TRUE
      BY <1>9 DEF AddObjectAnswered, ubus_wrap_add_object
    <3>3. nobject' \in Nat
      BY <3>1, <3>2
    <3>4. aborted' \in BOOLEAN
      BY <3>1, <3>2
    <3> QED BY <3>3, <3>4
  <2>4. result' \in [Invokers -> BOOLEAN]
    BY <1>9, <2>1 DEF AddObjectAnswered, TypeOK
  <2>5. poller' \in PollerPcs /\ cur' \in Invokables \union {NULL}
    BY <1>9 DEF AddObjectAnswered, NextInvokable, PollerPcs
  <2> QED BY <1>9, <2>2, <2>3, <2>4, <2>5
       DEF AddObjectAnswered, TypeOK, WrapperTypeOK
<1>10. CASE RunOther
  <2>1. cur \in Invokers /\ CallOK(cur) /\ Once(returns) /\ "Completed" \in States
    BY <1>10 DEF RunOther, CallInv, States
  <2>2. CASE state[cur] = "Canceled"
    <3>1. ubus_wrap_release(cur) /\ setState(cur, "Completed")
          /\ slots' = [slots EXCEPT ![index[cur]] = NULL]
      BY <1>10, <2>2 DEF RunOther
    <3>2. /\ state' \in [Invokables -> States]
          /\ caller' \in [Invokers -> CallerPcs]
      BY <2>1, <3>1, SetStateTypes
    <3>3. /\ wrap' \in [Invokers -> Context \union {NULL}]
          /\ requests' = requests \ {cur}
          /\ returns' \in Seq(Invokers) /\ aborted' \in BOOLEAN
      BY <2>1, <3>1, ReleaseEffect
    <3> QED BY <1>10, <3>1, <3>2, <3>3
         DEF RunOther, NextInvokable, TypeOK, WrapperTypeOK, PollerPcs
  <2>3. CASE state[cur] = "Completed"
    <3>1. setState(cur, "Completed") /\ UNCHANGED <<callVars, aborted, slots>>
      BY <1>10, <2>3 DEF RunOther
    <3>2. /\ state' \in [Invokables -> States]
          /\ caller' \in [Invokers -> CallerPcs]
      BY <2>1, <3>1, SetStateTypes
    <3> QED BY <1>10, <3>1, <3>2
         DEF RunOther, NextInvokable, TypeOK, WrapperTypeOK, PollerPcs
  <2>4. CASE state[cur] \notin {"Canceled", "Completed"}
    <3>1. UNCHANGED <<callVars, aborted, caller, state, slots>>
      BY <1>10, <2>4 DEF RunOther
    <3> QED BY <1>10, <3>1
         DEF RunOther, NextInvokable, TypeOK, WrapperTypeOK, PollerPcs
  <2> QED BY <2>2, <2>3, <2>4
<1>11. CASE RunReply
  <2>1. cur \in Incoming /\ cur \in held
    BY <1>11 DEF RunReply, RequestInv, RequestOK
  <2>2. IsFiniteSet(held) /\ accepted = Cardinality(held)
    BY DEF RequestInv
  <2>3. accepted # 0
    BY <2>1, <2>2, FS_EmptySet
  <2>4. accepted - 1 \in Nat
    BY <2>3 DEF TypeOK, WrapperTypeOK
  <2> QED BY <1>0, <1>11, <2>1, <2>4
       DEF RunReply, ubus_wrap_reply, NextInvokable, TypeOK, WrapperTypeOK,
           PollerPcs, States
<1>12. CASE Fetch \/ CompleteEnd
  BY <1>12 DEF Fetch, CompleteEnd, TypeOK, WrapperTypeOK, PollerPcs
<1>13. CASE Collect
  <2>1. ubus_wrap_fetch_return(fetched')
    BY <1>13 DEF Collect
  <2>2. /\ fetched' \in Seq(Slots)
        /\ FetchCount \in Nat /\ FetchCount <= Len(returns)
        /\ wrap' \in [Invokers -> Context \union {NULL}]
        /\ returns' = SubSeq(returns, FetchCount + 1, Len(returns))
        /\ UNCHANGED <<requests, incoming, held, accepted, pending, unsent,
                        nobject, pipe, bus, aborted>>
    BY <2>1, FetchEffect
  <2>3. returns' \in Seq(Invokers)
    BY <2>2, SuffixLists DEF TypeOK, WrapperTypeOK
  <2> QED BY <1>13, <2>2, <2>3 DEF Collect, TypeOK, WrapperTypeOK, PollerPcs
<1>14. CASE Complete
  <2>1. /\ Head(fetched) \in Slots /\ Tail(fetched) \in Seq(Slots)
        /\ slots[Head(fetched)] \in Invokers \union {NULL}
        /\ fetched' = Tail(fetched)
    BY <1>14 DEF Complete, TypeOK
  <2>2. PICK i : i = slots[Head(fetched)]
    OBVIOUS
  <2>3. CASE i = NULL
    BY <1>14, <2>1, <2>2, <2>3 DEF Complete, TypeOK, WrapperTypeOK
  <2>4. CASE i # NULL
    <3>1. /\ slots' = [slots EXCEPT ![Head(fetched)] = NULL, ![index[i]] = NULL]
          /\ result' = [result EXCEPT ![i] = getResult(i)]
          /\ ubus_wrap_release(i) /\ setState(i, "Completed")
      BY <1>14, <2>2, <2>4 DEF Complete
    <3>2. i \in Invokers /\ CallOK(i) /\ Once(returns) /\ "Completed" \in States
      BY <2>1, <2>2, <2>4 DEF CallInv, States
    <3>3. /\ state' \in [Invokables -> States]
          /\ caller' \in [Invokers -> CallerPcs]
      BY <3>1, <3>2, SetStateTypes
    <3>4. /\ wrap' \in [Invokers -> Context \union {NULL}]
          /\ requests' = requests \ {i}
          /\ returns' \in Seq(Invokers) /\ aborted' \in BOOLEAN
      BY <3>1, <3>2, ReleaseEffect
    <3>5. getResult(i) \in BOOLEAN
      <4>1. wrap[i] # NULL => wrap[i].result \in BOOLEAN
        BY <3>2 DEF TypeOK, WrapperTypeOK, Context
      <4> QED BY <4>1 DEF getResult
    <3>6. result' \in [Invokers -> BOOLEAN]
      BY <3>1, <3>5 DEF TypeOK
    <3>7. slots' \in [Slots -> Invokers \union {NULL}]
      BY <3>1 DEF TypeOK
    <3> QED BY <1>14, <2>1, <3>3, <3>4, <3>6, <3>7
         DEF Complete, TypeOK, WrapperTypeOK
  <2> QED BY <2>3, <2>4
<1>15. CASE Pull
  <2>1. CASE incoming = <<>>
    BY <1>15, <2>1 DEF Pull, TypeOK, WrapperTypeOK, PollerPcs
  <2>2. CASE incoming # <<>>
    <3>1. /\ Head(incoming) \in Incoming /\ Tail(incoming) \in Seq(Incoming)
          /\ Append(accept, Head(incoming)) \in Seq(Incoming)
      BY <2>2, AppendLists DEF TypeOK, WrapperTypeOK
    <3>2. worker' \in [Workers -> {"call", "waiting", "ready", "serving"}]
      BY <1>15, <2>2 DEF Pull, WakeWorker, TypeOK
    <3>3. accepted + 1 \in Nat
      BY DEF TypeOK, WrapperTypeOK
    <3>4. state' \in [Invokables -> States]
      BY <1>0, <1>15, <2>2, <3>1 DEF Pull, TypeOK, States
    <3>5. /\ incoming' \in Seq(Incoming) /\ held' \subseteq Incoming
          /\ accepted' \in Nat /\ accept' \in Seq(Incoming) /\ UNCHANGED poller
      BY <1>15, <2>2, <3>1, <3>3
         DEF Pull, ubus_wrap_accept_request, TypeOK, WrapperTypeOK
    <3> QED BY <1>15, <3>2, <3>4, <3>5 DEF Pull, TypeOK, WrapperTypeOK
  <2> QED BY <2>1, <2>2
<1>16. CASE UloopWoken
  <2>1. CASE pull_all_data
    <3>1. pipe' \in Nat
      BY <2>1, WrapperAssumption DEF pull_all_data, TypeOK, WrapperTypeOK
    <3> QED BY <1>16, <2>1, <3>1
         DEF UloopWoken, pull_all_data, TypeOK, WrapperTypeOK, PollerPcs
  <2>2. CASE ProcessPending
    <3>1. incoming' \in Seq(Incoming)
      BY <2>2, ConcatLists DEF ProcessPending, dummy_defer_cb, TypeOK, WrapperTypeOK
    <3> QED BY <1>16, <2>2, <3>1
         DEF UloopWoken, ProcessPending, dummy_defer_cb, TypeOK, WrapperTypeOK,
             PollerPcs
  <2> QED BY <1>16, <2>1, <2>2 DEF UloopWoken
<1>17. ASSUME NEW i \in Invokers, recv_cb_json_out(i) \/ ubus_sync_req_cb(i)
       PROVE  /\ wrap' \in [Invokers -> Context \union {NULL}]
              /\ requests' \subseteq Invokers /\ returns' \in Seq(Invokers)
              /\ UNCHANGED <<incoming, held, accepted, pending, unsent, nobject,
                             pipe, bus, aborted>>
  <2>1. /\ wrap' \in [Invokers -> Context \union {NULL}]
        /\ \/ UNCHANGED <<requests, returns>>
           \/ requests' = requests \ {i} /\ returns' = Append(returns, i)
    BY <1>17, AnswerEffect DEF CallInv
  <2>2. /\ requests \subseteq Invokers /\ returns \in Seq(Invokers)
        /\ Append(returns, i) \in Seq(Invokers)
    BY DEF TypeOK, WrapperTypeOK
  <2>3. requests' \subseteq Invokers /\ returns' \in Seq(Invokers)
    BY <2>1, <2>2
  <2> QED BY <1>17, <2>1, <2>3 DEF recv_cb_json_out, ubus_sync_req_cb
<1>18. ASSUME NEW r \in Incoming, DeliverInvoke(r) \/ QueueInvoke(r)
       PROVE  /\ UNCHANGED <<wrap, requests, returns, held, accepted, nobject,
                             pipe, bus>>
              /\ unsent' \subseteq Incoming
              /\ pending' \in Seq(Incoming) /\ incoming' \in Seq(Incoming)
              /\ aborted' \in BOOLEAN
  <2>1. /\ pending \in Seq(Incoming) /\ incoming \in Seq(Incoming)
        /\ aborted \in BOOLEAN /\ unsent \subseteq Incoming
        /\ <<r>> \in Seq(Incoming)
    BY DEF TypeOK, WrapperTypeOK
  <2>2. incoming \o <<r>> \in Seq(Incoming) /\ <<r>> \o pending \in Seq(Incoming)
    BY <2>1, ConcatLists
  <2> QED BY <1>18, <2>1, <2>2 DEF DeliverInvoke, QueueInvoke, dummy_defer_cb
<1>19. CASE BusEndsUloop
  <2>1. ASSUME NEW i \in Invokers, ubus_sync_req_cb(i)
        PROVE  TypeOK'
    BY <1>17, <1>19, <2>1 DEF BusEndsUloop, TypeOK, WrapperTypeOK, PollerPcs
  <2>2. ASSUME NEW r \in Incoming, DeliverInvoke(r)
        PROVE  TypeOK'
    BY <1>18, <1>19, <2>2 DEF BusEndsUloop, TypeOK, WrapperTypeOK, PollerPcs
  <2> QED BY <1>19, <2>1, <2>2 DEF BusEndsUloop
<1>20. CASE BusMessage
  <2>1. ASSUME NEW i \in Invokers, recv_cb_json_out(i) \/ ubus_sync_req_cb(i)
        PROVE  TypeOK'
    BY <1>17, <1>20, <2>1 DEF BusMessage, TypeOK, WrapperTypeOK
  <2>2. ASSUME NEW r \in Incoming, QueueInvoke(r)
        PROVE  TypeOK'
    BY <1>18, <1>20, <2>2 DEF BusMessage, TypeOK, WrapperTypeOK
  <2> QED BY <1>20, <2>1, <2>2 DEF BusMessage
<1>21. CASE Disconnect
  BY <1>21 DEF Disconnect, BusLost, TypeOK, WrapperTypeOK
<1>22. ASSUME NEW w \in Workers, AcceptRequest(w)
       PROVE  TypeOK'
  <2>1. CASE accept = <<>>
    BY <1>22, <2>1 DEF AcceptRequest, TypeOK, WrapperTypeOK
  <2>2. CASE accept # <<>>
    <3>1. Head(accept) \in Incoming /\ Tail(accept) \in Seq(Incoming)
      BY <2>2 DEF TypeOK
    <3> QED BY <1>22, <2>2, <3>1 DEF AcceptRequest, TypeOK, WrapperTypeOK
  <2> QED BY <2>1, <2>2
<1>23. ASSUME NEW w \in Workers, ReplyRequest(w)
       PROVE  TypeOK'
  <2>1. holding[w] \in Invokables /\ add(holding[w])
    BY <1>0, <1>23 DEF ReplyRequest, RequestInv, WorkerInv, TypeOK
  <2>2. /\ queued' \in [Invokables -> BOOLEAN]
        /\ queue' \in Seq(Invokables) /\ pipe' \in Nat
    BY <2>1, AddTypes
  <2> QED BY <1>23, <2>1, <2>2
       DEF ReplyRequest, TypeOK, WrapperTypeOK, States
<1>24. CASE Finished
  BY <1>24 DEF Finished, vars, TypeOK, WrapperTypeOK
<1> QED BY <1>1, <1>2, <1>3, <1>4, <1>5, <1>7, <1>8, <1>9, <1>10, <1>11, <1>12,
           <1>13, <1>14, <1>15, <1>16, <1>19, <1>20, <1>21, <1>22, <1>23, <1>24
        DEF Next, Poller

-----------------------------------------------------------------------------
(* Outgoing calls: the invariant is kept *)

\* A step that leaves everything about call j alone.
LEMMA CallFrame ==
  ASSUME NEW j \in Invokers, CallOK(j),
         wrap'[j] = wrap[j], state'[j] = state[j], index'[j] = index[j],
         result'[j] = result[j],
         wrap[j] # NULL => slots'[index[j]] = slots[index[j]],
         j \in requests' <=> j \in requests,
         Listed(j, returns') <=> Listed(j, returns),
         caller'[j] = "idle" <=> caller[j] = "idle",
         caller'[j] = "done" => state[j] = "Completed"
  PROVE  CallOK(j)'
BY DEF CallOK, FlagsOf

\* A step of a caller, or of the poller for a call that it has not handed to
\* the wrapper: only the state of call i, its caller and its result change.
LEMMA StateFrame ==
  ASSUME TypeOK, CallInv, NEW i \in Invokers,
         UNCHANGED <<wrap, requests, returns, slots, index, fetched>>,
         \A j \in Invokers : j # i =>
           /\ state'[j] = state[j] /\ result'[j] = result[j]
           /\ caller'[j] = "idle" <=> caller[j] = "idle"
           /\ caller'[j] = "done" <=> caller[j] = "done",
         CallOK(i)',
         poller' = "complete" <=> poller = "complete",
         NativeInv'
  PROVE  CallInv'
<1>1. ASSUME NEW j \in Invokers, j # i
      PROVE  CallOK(j)'
  <2>1. CallOK(j)
    BY DEF CallInv
  <2>2. caller'[j] = "done" => state[j] = "Completed"
    BY <1>1, <2>1 DEF CallOK
  <2> QED BY <1>1, <2>1, <2>2, CallFrame
<1>2. \A k \in Slots : SlotOK(k)'
  BY DEF CallInv, SlotOK
<1>3. FetchedInv' /\ Once(returns)'
  BY DEF CallInv, FetchedInv, ReturnOK
<1> QED BY <1>1, <1>2, <1>3 DEF CallInv

\* A step that has nothing to do with calls.
LEMMA QuietFrame ==
  ASSUME TypeOK, CallInv,
         UNCHANGED <<wrap, requests, returns, caller, result, slots, index,
                     fetched>>,
         \A j \in Invokers : state'[j] = state[j],
         poller' # "complete" => fetched = <<>>,
         NativeInv'
  PROVE  CallInv'
<1>1. ASSUME NEW j \in Invokers
      PROVE  CallOK(j)'
  <2>1. CallOK(j)
    BY DEF CallInv
  <2>2. caller'[j] = "done" => state[j] = "Completed"
    BY <2>1 DEF CallOK
  <2> QED BY <2>1, <2>2, CallFrame
<1>2. \A k \in Slots : SlotOK(k)'
  BY DEF CallInv, SlotOK
<1>3. FetchedInv' /\ Once(returns)'
  BY DEF CallInv, FetchedInv, ReturnOK
<1> QED BY <1>1, <1>2, <1>3 DEF CallInv

\* The wrapper takes a call over: its context, its slot and its flag appear
\* together.
LEMMA InvokeKeeps ==
  ASSUME TypeOK, CallInv, cur \in Invokers \ Adders, state[cur] = "Queued",
         poller # "complete", UNCHANGED <<fetched, result>>,
         NEW k \in Slots, slots[k] = NULL, NEW sent \in BOOLEAN,
         InvokeNativeEnds(k, sent)
  PROVE  CallInv'
<1>1. PICK i \in Invokers \ Adders : i = cur
  OBVIOUS
<1>2. /\ CallOK(i) /\ wrap[i] = NULL /\ ~Listed(i, returns) /\ i \notin requests
      /\ state[i] = "Queued"
  BY <1>1, RunningCall DEF CallInv
<1>3. /\ ubus_wrap_invoke(i, k, sent) /\ setState(i, "Pending")
      /\ slots' = [slots EXCEPT ![k] = i] /\ index' = [index EXCEPT ![i] = k]
      /\ poller' = "drain"
  BY <1>1 DEF InvokeNativeEnds, NextInvokable
<1>4. /\ \A j \in Invokers : j # i => wrap'[j] = wrap[j]
      /\ wrap'[i] # NULL /\ wrap'[i].index = k
      /\ wrap'[i].flags = IF sent THEN {"REQ"} ELSE {"RET"}
      /\ requests' = IF sent THEN requests \union {i} ELSE requests
      /\ returns' = IF sent THEN returns ELSE Append(returns, i)
  BY <1>2, <1>3, InvokeEffect
<1>5. /\ \A x \in Invokables : state'[x] = IF x = i THEN "Pending" ELSE state[x]
      /\ \A j \in Invokers : j # i => caller'[j] = caller[j]
      /\ caller'[i] = "idle" <=> caller[i] = "idle"
      /\ caller'[i] = "done" <=> caller[i] = "done"
  <2>1. "Pending" \in States
    BY DEF States
  <2> QED BY <1>3, <2>1, SetStateTypes
<1>6. Once(returns') /\ \A y : Listed(y, returns') <=>
                          Listed(y, returns) \/ (~sent /\ y = i)
  <2>1. returns \in Seq(Invokers) /\ Once(returns)
    BY DEF TypeOK, WrapperTypeOK, CallInv
  <2>2. CASE sent
    BY <1>4, <2>1, <2>2
  <2>3. CASE ~sent
    BY <1>2, <1>4, <2>1, <2>3, AppendLists
  <2> QED BY <2>2, <2>3
<1>7. /\ slots \in [Slots -> Invokers \union {NULL}] /\ index \in [Invokers -> Slots]
      /\ Invokers \subseteq Invokables /\ NULL \notin Invokers
  BY WrapperAssumption DEF TypeOK, Invokables
<1>8. /\ slots'[k] = i /\ index'[i] = k
      /\ \A m \in Slots : m # k => slots'[m] = slots[m]
      /\ \A j \in Invokers : j # i => index'[j] = index[j]
  BY <1>3, <1>7
<1>9. CallOK(i)'
  <2>1. state'[i] = "Pending" /\ i \in Invokers
    BY <1>5, <1>7
  <2>2. "REQ" \in wrap'[i].flags <=> sent
    BY <1>4
  <2>3. "RET" \in wrap'[i].flags <=> ~sent
    BY <1>4
  <2>4. wrap'[i].flags # Flags
    BY <2>2, <2>3 DEF Flags
  <2>5. caller[i] # "idle" /\ caller[i] # "done" /\ ~result[i]
    BY <1>2 DEF CallOK
  <2>6. i \in requests' <=> sent
    BY <1>2, <1>4
  <2> QED BY <1>2, <1>4, <1>5, <1>6, <1>8, <2>1, <2>2, <2>3, <2>4, <2>5, <2>6
       DEF CallOK, FlagsOf
<1>10. ASSUME NEW j \in Invokers, j # i
       PROVE  CallOK(j)'
  <2>1. CallOK(j)
    BY DEF CallInv
  <2>2. wrap[j] # NULL => slots'[index[j]] = slots[index[j]]
    BY <1>7, <1>8, <2>1 DEF CallOK
  <2>3. caller'[j] = "done" => state[j] = "Completed"
    BY <1>5, <1>10, <2>1 DEF CallOK
  <2>4. state'[j] = state[j] /\ (j \in requests' <=> j \in requests)
        /\ (Listed(j, returns') <=> Listed(j, returns))
    BY <1>4, <1>5, <1>6, <1>7, <1>10
  <2> QED BY <1>4, <1>5, <1>8, <1>10, <2>1, <2>2, <2>3, <2>4, CallFrame
<1>11. ASSUME NEW m \in Slots
       PROVE  SlotOK(m)'
  <2>1. SlotOK(m)
    BY DEF CallInv
  <2>2. CASE m = k
    BY <1>4, <1>8, <2>2 DEF SlotOK
  <2>3. CASE m # k
    BY <1>2, <1>4, <1>7, <1>8, <2>1, <2>3 DEF SlotOK
  <2> QED BY <2>2, <2>3
<1>12. FetchedInv'
  BY DEF FetchedInv, CallInv, Once
<1>13. NativeInv' /\ Once(returns)'
  BY <1>3, <1>6 DEF NativeInv
<1> QED BY <1>9, <1>10, <1>11, <1>12, <1>13 DEF CallInv

\* The DATA and the STATUS of a call.
LEMMA AnswerKeeps ==
  ASSUME TypeOK, CallInv, poller # "complete",
         UNCHANGED <<caller, state, result, slots, index, fetched>>, NativeInv',
         NEW i \in Invokers, recv_cb_json_out(i) \/ ubus_sync_req_cb(i)
  PROVE  CallInv'
<1>1. CallOK(i) /\ Once(returns) /\ returns \in Seq(Invokers)
  BY DEF CallInv, TypeOK, WrapperTypeOK
<1>2. /\ \A j \in Invokers : j # i => wrap'[j] = wrap[j]
      /\ wrap[i] # NULL /\ wrap'[i] # NULL /\ wrap'[i].index = wrap[i].index
      /\ wrap[i].flags = {"REQ"}
      /\ wrap'[i].flags = IF requests' = requests THEN {"REQ"} ELSE {"RET"}
      /\ \/ UNCHANGED <<requests, returns>>
         \/ requests' = requests \ {i} /\ requests' # requests
            /\ returns' = Append(returns, i)
  BY <1>1, AnswerEffect
<1>3. i \in requests /\ ~Listed(i, returns)
  BY <1>1, <1>2 DEF CallOK, FlagsOf
<1>4. /\ Once(returns')
      /\ \A y : Listed(y, returns') <=>
                  Listed(y, returns) \/ (requests' # requests /\ y = i)
  <2>1. CASE UNCHANGED <<requests, returns>>
    BY <1>1, <2>1
  <2>2. CASE requests' # requests /\ returns' = Append(returns, i)
    BY <1>1, <1>3, <2>2, AppendLists
  <2> QED BY <1>2, <2>1, <2>2
<1>5. CallOK(i)'
  <2>1. wrap'[i].flags # Flags
    BY <1>2 DEF Flags
  <2>2. i \in requests' <=> requests' = requests
    BY <1>2, <1>3
  <2>3. "REQ" \in wrap'[i].flags <=> requests' = requests
    BY <1>2
  <2>4. "RET" \in wrap'[i].flags <=> requests' # requests
    BY <1>2
  <2> QED BY <1>1, <1>2, <1>3, <1>4, <2>1, <2>2, <2>3, <2>4 DEF CallOK, FlagsOf
<1>6. ASSUME NEW j \in Invokers, j # i
      PROVE  CallOK(j)'
  <2>1. CallOK(j)
    BY DEF CallInv
  <2>2. caller'[j] = "done" => state[j] = "Completed"
    BY <2>1 DEF CallOK
  <2> QED BY <1>2, <1>4, <1>6, <2>1, <2>2, CallFrame
<1>7. ASSUME NEW k \in Slots
      PROVE  SlotOK(k)'
  <2>1. SlotOK(k) /\ slots[k] \in Invokers \union {NULL}
    BY DEF CallInv, TypeOK
  <2> QED BY <1>2, <2>1 DEF SlotOK
<1>8. FetchedInv'
  BY DEF FetchedInv, CallInv, Once
<1> QED BY <1>4, <1>5, <1>6, <1>7, <1>8 DEF CallInv

\* A call that ends, by JNIAbort or completeInvoke, leaves its slot, its
\* context and its lists at once.
LEMMA ReleaseKeeps ==
  ASSUME TypeOK, CallInv, NEW i \in Invokers, wrap[i] # NULL,
         ubus_wrap_release(i), setState(i, "Completed"),
         slots' = [slots EXCEPT ![index[i]] = NULL], UNCHANGED index,
         \A j \in Invokers : j # i => result'[j] = result[j],
         FetchedInv', NativeInv'
  PROVE  CallInv'
<1>1. CallOK(i) /\ Once(returns) /\ index[i] \in Slots
  BY DEF CallInv, TypeOK
<1>2. /\ \A j \in Invokers : j # i => wrap'[j] = wrap[j]
      /\ wrap'[i] = NULL /\ requests' = requests \ {i} /\ Once(returns')
      /\ \A j : Listed(j, returns') <=> Listed(j, returns) /\ j # i
  BY <1>1, ReleaseEffect
<1>3. /\ \A x \in Invokables : state'[x] = IF x = i THEN "Completed" ELSE state[x]
      /\ \A j \in Invokers : j # i => caller'[j] = caller[j]
      /\ caller'[i] = "idle" <=> caller[i] = "idle"
  <2>1. "Completed" \in States
    BY DEF States
  <2> QED BY <2>1, SetStateTypes
<1>4. /\ slots \in [Slots -> Invokers \union {NULL}] /\ index \in [Invokers -> Slots]
      /\ Invokers \subseteq Invokables /\ NULL \notin Invokers
  BY WrapperAssumption DEF TypeOK, Invokables
<1>5. /\ slots'[index[i]] = NULL
      /\ \A m \in Slots : m # index[i] => slots'[m] = slots[m]
  BY <1>1, <1>4
<1>6. CallOK(i)'
  <2>1. caller[i] # "idle"
    BY <1>1 DEF CallOK
  <2>2. state'[i] = "Completed" /\ ~Listed(i, returns') /\ i \notin requests'
    BY <1>2, <1>3, <1>4
  <2>3. Flags # {}
    BY DEF Flags
  <2> QED BY <1>2, <1>3, <2>1, <2>2, <2>3 DEF CallOK, FlagsOf
<1>7. ASSUME NEW j \in Invokers, j # i
      PROVE  CallOK(j)'
  <2>1. CallOK(j)
    BY DEF CallInv
  <2>2. wrap[j] # NULL => slots'[index[j]] = slots[index[j]]
    BY <1>1, <1>4, <1>5, <1>7, <2>1 DEF CallOK
  <2>3. caller'[j] = "done" => state[j] = "Completed"
    BY <1>3, <1>7, <2>1 DEF CallOK
  <2>4. state'[j] = state[j] /\ (j \in requests' <=> j \in requests)
        /\ (Listed(j, returns') <=> Listed(j, returns))
    BY <1>2, <1>3, <1>4, <1>7
  <2> QED BY <1>2, <1>3, <1>7, <2>1, <2>2, <2>3, <2>4, CallFrame
<1>8. ASSUME NEW m \in Slots
      PROVE  SlotOK(m)'
  <2>1. SlotOK(m)
    BY DEF CallInv
  <2>2. CASE m = index[i]
    BY <1>5, <2>2 DEF SlotOK
  <2>3. CASE m # index[i]
    BY <1>2, <1>4, <1>5, <2>1, <2>3 DEF SlotOK
  <2> QED BY <2>2, <2>3
<1> QED BY <1>2, <1>6, <1>7, <1>8 DEF CallInv

\* fetchReturn: the numbers it hands to Java name calls that have returned,
\* each once, and those calls are on no list any more.
LEMMA CollectKeeps ==
  ASSUME TypeOK, CallInv, Collect
  PROVE  CallInv'
<1>0. /\ ubus_wrap_fetch_return(fetched') /\ poller' = "complete"
      /\ UNCHANGED <<caller, state, result, slots, index>>
  BY DEF Collect, tableVars
<1>1. PICK n \in Nat : n = FetchCount
  BY <1>0, FetchEffect
<1>2. /\ fetched' \in Seq(Slots) /\ Len(fetched') = n
      /\ n <= Len(returns)
      /\ \A k \in 1 .. n : fetched'[k] = index[returns[k]]
      /\ \A i \in Invokers : wrap[i] = NULL => wrap'[i] = NULL
      /\ \A i \in Invokers : wrap[i] # NULL =>
           /\ wrap'[i] # NULL /\ wrap'[i].index = wrap[i].index
           /\ wrap'[i].flags = IF \E k \in 1 .. n : returns[k] = i
                                 THEN {} ELSE wrap[i].flags
      /\ returns' = SubSeq(returns, n + 1, Len(returns))
      /\ requests' = requests
  BY <1>0, <1>1, FetchEffect
<1>3. /\ returns \in Seq(Invokers) /\ Once(returns) /\ Len(returns) \in Nat
      /\ \A k \in 1 .. n : k \in 1 .. Len(returns) /\ returns[k] \in Invokers
  <2>1. /\ returns \in Seq(Invokers) /\ Once(returns) /\ Len(returns) \in Nat
    BY DEF TypeOK, WrapperTypeOK, CallInv
  <2> QED BY <1>2, <2>1
<1>4. /\ Once(returns')
      /\ \A y : Listed(y, returns') <=> \E k \in n + 1 .. Len(returns) : returns[k] = y
  BY <1>2, <1>3, SuffixLists
<1>5. ASSUME NEW k \in 1 .. n
      PROVE  Listed(returns[k], returns) /\ ~Listed(returns[k], returns')
             /\ "RET" \in FlagsOf(returns[k]) /\ wrap[returns[k]] # NULL
             /\ slots[index[returns[k]]] = returns[k]
             /\ returns[k] \notin requests
  <2>1. Listed(returns[k], returns) /\ CallOK(returns[k])
    BY <1>3 DEF Listed, CallInv
  <2>2. \A m \in n + 1 .. Len(returns) : m \in 1 .. Len(returns) /\ m # k
    BY <1>2, <1>3
  <2>3. ~Listed(returns[k], returns')
    BY <1>3, <1>4, <2>2 DEF Once
  <2>4. "RET" \in FlagsOf(returns[k]) /\ wrap[returns[k]] # NULL
    BY <2>1 DEF CallOK, FlagsOf
  <2>5. FlagsOf(returns[k]) \in SUBSET Flags
    BY <1>3, <2>4 DEF FlagsOf, TypeOK, WrapperTypeOK, Context
  <2>6. "REQ" \notin FlagsOf(returns[k])
    BY <2>1, <2>4, <2>5 DEF CallOK, Flags
  <2> QED BY <2>1, <2>3, <2>4, <2>6 DEF CallOK
<1>6. ASSUME NEW i \in Invokers
      PROVE  CallOK(i)'
  <2>0. CallOK(i)
    BY DEF CallInv
  <2>1. CASE \E k \in 1 .. n : returns[k] = i
    <3>1. wrap[i] # NULL /\ ~Listed(i, returns') /\ i \notin requests
      BY <1>5, <2>1
    <3>2. wrap'[i] # NULL /\ wrap'[i].flags = {} /\ wrap'[i].index = wrap[i].index
      BY <1>2, <2>1, <3>1
    <3>3. {} # Flags
      BY DEF Flags
    <3> QED BY <1>0, <1>2, <2>0, <3>1, <3>2, <3>3 DEF CallOK, FlagsOf
  <2>2. CASE ~\E k \in 1 .. n : returns[k] = i
    <3>1. Listed(i, returns') <=> Listed(i, returns)
      <4>1. \A k \in 1 .. Len(returns) : k \in 1 .. n \/ k \in n + 1 .. Len(returns)
        BY <1>3
      <4>2. \A k \in n + 1 .. Len(returns) : k \in 1 .. Len(returns)
        BY <1>3
      <4> QED BY <1>4, <2>2, <4>1, <4>2 DEF Listed
    <3>2. wrap'[i] = NULL <=> wrap[i] = NULL
      BY <1>2
    <3>3. wrap[i] # NULL => wrap'[i].flags = wrap[i].flags
                            /\ wrap'[i].index = wrap[i].index
      BY <1>2, <2>2
    <3> QED BY <1>0, <1>2, <2>0, <3>1, <3>2, <3>3 DEF CallOK, FlagsOf
  <2> QED BY <2>1, <2>2
<1>7. ASSUME NEW k \in Slots
      PROVE  SlotOK(k)'
  <2>1. SlotOK(k) /\ slots[k] \in Invokers \union {NULL}
    BY DEF CallInv, TypeOK
  <2> QED BY <1>0, <1>2, <2>1 DEF SlotOK
<1>8. FetchedInv'
  <2>1. ASSUME NEW k \in 1 .. n
        PROVE  ReturnOK(fetched[k])'
    <3>1. /\ fetched'[k] = index[returns[k]] /\ slots'[fetched'[k]] = returns[k]
          /\ returns[k] \in Invokers /\ wrap[returns[k]] # NULL
      BY <1>0, <1>2, <1>3, <1>5
    <3>2. NULL \notin Invokers
      BY WrapperAssumption
    <3>3. wrap'[returns[k]] # NULL /\ wrap'[returns[k]].flags = {}
      BY <1>2, <3>1
    <3> QED BY <3>1, <3>2, <3>3 DEF ReturnOK
  <2>2. ASSUME NEW k \in 1 .. n, NEW m \in 1 .. n, fetched'[k] = fetched'[m]
        PROVE  k = m
    <3>1. returns[k] = returns[m]
      BY <1>2, <1>5, <2>2
    <3> QED BY <1>3, <3>1 DEF Once
  <2> QED BY <1>0, <1>2, <2>1, <2>2 DEF FetchedInv, Once
<1>9. NativeInv'
  BY <1>0 DEF NativeInv
<1> QED BY <1>4, <1>6, <1>7, <1>8, <1>9 DEF CallInv

\* Every step keeps what the invariant says of calls, slots and lists.
LEMMA CallStep ==
  ASSUME TypeOK, CallInv, RequestInv, Next
  PROVE  CallInv'
<1> USE DEF callVars, inVars, queueVars, tableVars, appVars, javaVars, wrapVars
<1>0. /\ Invokers \subseteq Invokables /\ Adders \subseteq Invokers
      /\ NULL \notin Invokers /\ Invokers \intersect Incoming = {}
      /\ state \in [Invokables -> States] /\ caller \in [Invokers -> CallerPcs]
      /\ "Completed" \in States /\ result \in [Invokers -> BOOLEAN]
  BY WrapperAssumption, PollerAssumption DEF Invokables, TypeOK, States
<1>1. ASSUME NEW i \in Invokers, Start(i)
      PROVE  CallInv'
  <2>1. CallOK(i) /\ caller[i] = "idle"
    BY <1>1 DEF CallInv, Start
  <2>2. /\ \A j \in Invokers : j # i => state'[j] = state[j] /\ caller'[j] = caller[j]
        /\ state'[i] = "Queued" /\ caller'[i] = "timed"
        /\ UNCHANGED <<wrap, requests, returns, slots, index, lastIndex, fetched,
                       result, poller, cur>>
    BY <1>0, <1>1 DEF Start
  <2>3. CallOK(i)'
    BY <2>1, <2>2 DEF CallOK, FlagsOf
  <2>4. NativeInv'
    BY <2>2 DEF NativeInv, CallInv
  <2> QED BY <2>2, <2>3, <2>4, StateFrame
<1>2. ASSUME NEW i \in Invokers, Timeout(i) \/ Recheck(i)
      PROVE  CallInv'
  <2>1. CallOK(i)
    BY DEF CallInv
  <2>2. /\ \A j \in Invokers : j # i => caller'[j] = caller[j]
        /\ caller[i] # "idle" /\ caller'[i] # "idle"
        /\ caller'[i] = "done" => state[i] = "Completed"
        /\ UNCHANGED <<wrap, requests, returns, slots, index, lastIndex, fetched,
                       result, poller, cur, state>>
    BY <1>0, <1>2 DEF Timeout, Recheck
  <2>3. CallOK(i)'
    BY <2>1, <2>2 DEF CallOK, FlagsOf
  <2>4. NativeInv'
    BY <2>2 DEF NativeInv, CallInv
  <2> QED BY <2>2, <2>3, <2>4, StateFrame
<1>3. ASSUME NEW i \in Invokers, Cancel(i)
      PROVE  CallInv'
  <2>1. CallOK(i) /\ caller[i] \notin {"idle", "done"} /\ MonitorFree(i)
    BY <1>3 DEF CallInv, Cancel
  <2>2. UNCHANGED <<wrap, requests, returns, slots, index, lastIndex, fetched,
                    result, poller, cur>>
    BY <1>3 DEF Cancel
  <2>3. /\ state' = [state EXCEPT ![i] = state'[i]]
        /\ state'[i] = CASE state[i] = "Queued" -> "Completed"
                         [] state[i] = "Pending" -> "Canceled"
                         [] OTHER -> state[i]
    <3>1. i \in Invokables
      BY <1>0
    <3>2. CASE state[i] = "Queued"
      BY <1>0, <1>3, <3>1, <3>2 DEF Cancel
    <3>3. CASE state[i] = "Pending"
      BY <1>0, <1>3, <3>1, <3>3 DEF Cancel
    <3>4. CASE state[i] \notin {"Queued", "Pending"}
      BY <1>0, <1>3, <3>1, <3>4 DEF Cancel
    <3> QED BY <3>2, <3>3, <3>4
  <2>4. \A j \in Invokers : j # i => state'[j] = state[j]
    BY <1>0, <2>3
  <2>5. caller' = [caller EXCEPT ![i] =
                     IF state'[i] = "Completed" THEN "done" ELSE "waiting"]
    BY <1>3 DEF Cancel
  <2>6. /\ caller'[i] = IF state'[i] = "Completed" THEN "done" ELSE "waiting"
        /\ \A j \in Invokers : j # i => caller'[j] = caller[j]
    BY <1>0, <2>5
  <2>7. CallOK(i)'
    BY <2>1, <2>2, <2>3, <2>6 DEF CallOK, FlagsOf
  <2>8. NativeInv'
    <3>1. poller = "native" => cur \in Invokers /\ cur # i
      BY <2>1 DEF NativeInv, CallInv, MonitorFree
    <3>2. poller = "native" => state'[cur] = "Queued"
      BY <2>4, <3>1 DEF NativeInv, CallInv
    <3> QED BY <2>2, <3>1, <3>2 DEF NativeInv, CallInv
  <2> QED BY <2>2, <2>4, <2>6, <2>7, <2>8, StateFrame
<1>4. CASE PollerInit
  <2>1. NativeInv' /\ fetched = <<>>
    BY <1>4 DEF PollerInit, NativeInv, CallInv, FetchedInv
  <2> QED BY <1>4, <2>1, QuietFrame DEF PollerInit
<1>5. CASE RunAddObject
  <2>1. NativeInv'
    BY <1>0, <1>5 DEF RunAddObject, NativeInv
  <2>2. fetched = <<>>
    BY <1>5 DEF RunAddObject, CallInv, FetchedInv
  <2> QED BY <1>5, <2>1, <2>2, QuietFrame DEF RunAddObject
<1>6. CASE Drain \/ Fetch \/ CompleteEnd
  <2>1. NativeInv'
    BY <1>6 DEF Drain, Fetch, CompleteEnd, NativeInv
  <2>2. fetched = <<>>
    BY <1>6 DEF Drain, Fetch, CompleteEnd, CallInv, FetchedInv
  <2> QED BY <1>6, <2>1, <2>2, QuietFrame DEF Drain, Fetch, CompleteEnd
<1>7. CASE RunInvoke
  <2>1. /\ cur \in Invokers \ Adders /\ state[cur] = "Queued" /\ poller = "run"
        /\ UNCHANGED <<fetched, result>>
    BY <1>7 DEF RunInvoke
  <2>2. CASE findEmptyInvokeSlot = NULL
    <3>1. PICK i \in Invokers : i = cur
      BY <2>1
    <3>2. /\ setState(i, "Completed") /\ poller' = "drain"
          /\ UNCHANGED <<wrap, requests, returns, slots, index>>
      BY <1>7, <2>2, <3>1 DEF RunInvoke, NextInvokable
    <3>3. /\ \A x \in Invokables :
               state'[x] = IF x = i THEN "Completed" ELSE state[x]
          /\ \A j \in Invokers : j # i => caller'[j] = caller[j]
          /\ caller'[i] = "idle" <=> caller[i] = "idle"
      BY <1>0, <3>2, SetStateTypes
    <3>4. CallOK(i) /\ state[i] = "Queued" /\ state'[i] = "Completed"
      BY <1>0, <2>1, <3>1, <3>3 DEF CallInv
    <3>5. CallOK(i)'
      BY <2>1, <3>2, <3>3, <3>4 DEF CallOK, FlagsOf
    <3>6. NativeInv' /\ \A j \in Invokers : j # i => state'[j] = state[j]
      BY <1>0, <3>2, <3>3 DEF NativeInv
    <3> QED BY <2>1, <3>2, <3>3, <3>5, <3>6, StateFrame
  <2>3. CASE findEmptyInvokeSlot # NULL
    <3>1. findEmptyInvokeSlot \in Slots /\ slots[findEmptyInvokeSlot] = NULL
      BY <2>3, EmptySlotIsFree
    <3>2. CASE bus' = "up"
      <4>1. /\ poller' = "native" /\ lastIndex' = findEmptyInvokeSlot
            /\ UNCHANGED <<wrap, requests, returns, caller, state, slots, index, cur>>
        BY <1>7, <2>3, <3>2 DEF RunInvoke
      <4>2. NativeInv' /\ fetched = <<>>
        BY <2>1, <3>1, <4>1 DEF NativeInv, CallInv, FetchedInv
      <4> QED BY <2>1, <4>1, <4>2, QuietFrame
    <3>3. CASE bus' # "up"
      <4>1. InvokeNativeEnds(findEmptyInvokeSlot, FALSE)
        BY <1>7, <2>3, <3>3 DEF RunInvoke
      <4> QED BY <2>1, <3>1, <4>1, InvokeKeeps
    <3> QED BY <3>2, <3>3
  <2> QED BY <2>2, <2>3
<1>8. CASE LookupAnswered
  <2>1. /\ cur \in Invokers \ Adders /\ state[cur] = "Queued"
        /\ lastIndex \in Slots /\ slots[lastIndex] = NULL
        /\ poller # "complete" /\ UNCHANGED <<fetched, result>>
    BY <1>8 DEF LookupAnswered, CallInv, NativeInv, TypeOK
  <2>2. PICK k \in Slots : k = lastIndex
    BY <2>1
  <2>3. PICK sent \in BOOLEAN : InvokeNativeEnds(k, sent)
    BY <1>8, <2>2 DEF LookupAnswered
  <2> QED BY <2>1, <2>2, <2>3, InvokeKeeps
<1>9. CASE AddObjectAnswered
  <2>1. PICK i \in Invokers : i = cur /\ i \in Adders
    BY <1>0, <1>9 DEF AddObjectAnswered
  <2>2. /\ setState(i, "Completed") /\ poller' = "drain"
        /\ poller = "native" /\ UNCHANGED <<fetched, wrap, requests, returns, slots, index>>
        /\ result' = [result EXCEPT ![i] = TRUE]
    BY <1>9, <2>1 DEF AddObjectAnswered, NextInvokable
  <2>3. /\ \A x \in Invokables :
             state'[x] = IF x = i THEN "Completed" ELSE state[x]
        /\ \A j \in Invokers : j # i => caller'[j] = caller[j]
        /\ caller'[i] = "idle" <=> caller[i] = "idle"
    BY <1>0, <2>2, SetStateTypes
  <2>4. CallOK(i) /\ state[i] = "Queued" /\ state'[i] = "Completed"
    BY <1>0, <2>1, <2>2, <2>3 DEF CallInv, NativeInv
  <2>5. CallOK(i)'
    BY <2>1, <2>2, <2>3, <2>4 DEF CallOK, FlagsOf
  <2>6. NativeInv' /\ \A j \in Invokers : j # i => state'[j] = state[j]
                                                  /\ result'[j] = result[j]
    BY <1>0, <2>2, <2>3 DEF NativeInv
  <2> QED BY <2>2, <2>3, <2>5, <2>6, StateFrame
<1>10. CASE RunOther
  <2>1. PICK i \in Invokers : i = cur
    BY <1>10 DEF RunOther
  <2>2. /\ CallOK(i) /\ poller = "run" /\ poller' = "drain"
        /\ UNCHANGED <<fetched, result, index>>
    BY <1>10, <2>1 DEF RunOther, CallInv, NextInvokable
  <2>3. NativeInv' /\ fetched = <<>> /\ FetchedInv'
    BY <2>2 DEF NativeInv, CallInv, FetchedInv, Once
  <2>4. CASE state[i] = "Canceled"
    <3>1. ubus_wrap_release(i) /\ setState(i, "Completed")
          /\ slots' = [slots EXCEPT ![index[i]] = NULL]
      BY <1>10, <2>1, <2>4 DEF RunOther
    <3>2. wrap[i] # NULL
      BY <2>2, <2>4 DEF CallOK
    <3> QED BY <2>2, <2>3, <3>1, <3>2, ReleaseKeeps
  <2>5. CASE state[i] = "Completed"
    <3>1. setState(i, "Completed") /\ UNCHANGED <<wrap, requests, returns, slots>>
      BY <1>10, <2>1, <2>5 DEF RunOther
    <3>2. /\ \A x \in Invokables :
               state'[x] = IF x = i THEN "Completed" ELSE state[x]
          /\ \A j \in Invokers : j # i => caller'[j] = caller[j]
          /\ caller'[i] = "idle" <=> caller[i] = "idle"
          /\ caller'[i] = "done" <=> caller[i] = "done"
      BY <1>0, <3>1, SetStateTypes
    <3>3. \A j \in Invokers : state'[j] = state[j]
      BY <1>0, <2>5, <3>2
    <3>4. CallOK(i)'
      BY <2>2, <2>5, <3>1, <3>2, <3>3 DEF CallOK, FlagsOf
    <3> QED BY <2>2, <2>3, <3>1, <3>2, <3>3, <3>4, StateFrame
  <2>6. CASE state[i] \notin {"Canceled", "Completed"}
    <3>1. UNCHANGED <<wrap, requests, returns, caller, state, slots>>
      BY <1>10, <2>1, <2>6 DEF RunOther
    <3> QED BY <2>2, <2>3, <3>1, QuietFrame
  <2> QED BY <2>4, <2>5, <2>6
<1>11. CASE RunReply
  <2>1. NativeInv' /\ fetched = <<>>
    BY <1>11 DEF RunReply, NextInvokable, NativeInv, CallInv, FetchedInv
  <2>2. \A j \in Invokers : state'[j] = state[j]
    BY <1>0, <1>11 DEF RunReply
  <2> QED BY <1>11, <2>1, <2>2, QuietFrame DEF RunReply
<1>12. CASE Collect
  BY <1>12, CollectKeeps
<1>13. CASE Complete
  <2>1. PICK k \in Slots : k = Head(fetched)
    BY <1>13 DEF Complete, TypeOK
  <2>2. /\ fetched \in Seq(Slots) /\ fetched # <<>> /\ Once(fetched)
        /\ fetched' = Tail(fetched) /\ poller = "complete"
        /\ UNCHANGED <<index, poller, cur>>
    BY <1>13 DEF Complete, TypeOK, CallInv, FetchedInv
  <2>3. 1 \in 1 .. Len(fetched) /\ fetched[1] = k
    BY <2>1, <2>2
  <2>4. ReturnOK(k)
    BY <2>3 DEF CallInv, FetchedInv
  <2>5. PICK i \in Invokers : i = slots[k]
    BY <2>4 DEF ReturnOK, TypeOK
  <2>6. wrap[i] # NULL /\ CallOK(i) /\ index[i] = k
    BY <1>0, <2>4, <2>5 DEF ReturnOK, CallInv, SlotOK
  <2>7. /\ ubus_wrap_release(i) /\ setState(i, "Completed")
        /\ slots' = [slots EXCEPT ![k] = NULL, ![index[i]] = NULL]
        /\ result' = [result EXCEPT ![i] = getResult(i)]
    BY <1>0, <1>13, <2>1, <2>5 DEF Complete
  <2>8. slots' = [slots EXCEPT ![index[i]] = NULL]
    BY <2>6, <2>7 DEF TypeOK
  <2>9. \A j \in Invokers : j # i => result'[j] = result[j]
    BY <1>0, <2>7
  <2>10. NativeInv'
    BY <2>2 DEF NativeInv
  <2>11. /\ \A j \in Invokers : j # i => wrap'[j] = wrap[j]
    BY <2>6, <2>7, ReleaseEffect DEF CallInv
  <2>12. FetchedInv'
    <3>1. /\ Tail(fetched) \in Seq(Slots)
          /\ Once(Tail(fetched)) /\ ~Listed(k, Tail(fetched))
          /\ \A y : Listed(y, Tail(fetched)) => Listed(y, fetched)
      BY <2>1, <2>2, TailLists
    <3>2. ASSUME NEW n \in 1 .. Len(fetched')
          PROVE  ReturnOK(fetched[n])'
      <4>1. PICK m \in Slots : m = fetched'[n]
        BY <2>2, <3>1
      <4>2. Listed(m, Tail(fetched))
        BY <2>2, <4>1 DEF Listed
      <4>3. m # k /\ Listed(m, fetched)
        BY <3>1, <4>2
      <4>4. ReturnOK(m)
        BY <4>3 DEF Listed, CallInv, FetchedInv
      <4>5. slots[m] \in Invokers /\ slots[m] # i
        BY <2>6, <4>3, <4>4 DEF ReturnOK, CallInv, SlotOK, TypeOK
      <4>6. slots'[m] = slots[m]
        BY <2>6, <2>8, <4>3 DEF TypeOK
      <4>7. ReturnOK(m)'
        BY <2>11, <4>4, <4>5, <4>6 DEF ReturnOK
      <4> QED BY <4>1, <4>7 DEF ReturnOK
    <3> QED BY <2>2, <3>1, <3>2 DEF FetchedInv
  <2> QED BY <2>2, <2>6, <2>7, <2>8, <2>9, <2>10, <2>12, ReleaseKeeps
<1>14. CASE Pull
  <2>1. NativeInv' /\ fetched = <<>>
    BY <1>14 DEF Pull, NativeInv, CallInv, FetchedInv
  <2>2. \A j \in Invokers : state'[j] = state[j]
    <3>1. CASE incoming = <<>>
      BY <1>14, <3>1 DEF Pull
    <3>2. CASE incoming # <<>>
      <4>1. Head(incoming) \in Incoming
        BY <3>2 DEF TypeOK, WrapperTypeOK
      <4> QED BY <1>0, <1>14, <3>2, <4>1 DEF Pull
    <3> QED BY <3>1, <3>2
  <2> QED BY <1>14, <2>1, <2>2, QuietFrame DEF Pull
<1>15. CASE UloopWoken
  <2>1. NativeInv' /\ fetched = <<>>
    BY <1>15 DEF UloopWoken, NativeInv, CallInv, FetchedInv
  <2>2. UNCHANGED <<wrap, requests, returns>>
    BY <1>15 DEF UloopWoken, pull_all_data, ProcessPending
  <2> QED BY <1>15, <2>1, <2>2, QuietFrame DEF UloopWoken
<1>16. CASE BusEndsUloop
  <2>1. NativeInv' /\ fetched = <<>> /\ poller # "complete"
    BY <1>16 DEF BusEndsUloop, NativeInv, CallInv, FetchedInv
  <2>2. ASSUME NEW i \in Invokers, ubus_sync_req_cb(i)
        PROVE  CallInv'
    BY <1>16, <2>1, <2>2, AnswerKeeps DEF BusEndsUloop
  <2>3. ASSUME NEW r \in Incoming, DeliverInvoke(r)
        PROVE  CallInv'
    BY <1>16, <2>1, <2>3, QuietFrame DEF BusEndsUloop, DeliverInvoke
  <2> QED BY <1>16, <2>2, <2>3 DEF BusEndsUloop
<1>17. CASE BusMessage
  <2>1. NativeInv' /\ fetched = <<>> /\ poller # "complete"
    BY <1>17 DEF BusMessage, NativeInv, CallInv, FetchedInv
  <2>2. ASSUME NEW i \in Invokers, recv_cb_json_out(i) \/ ubus_sync_req_cb(i)
        PROVE  CallInv'
    BY <1>17, <2>1, <2>2, AnswerKeeps DEF BusMessage
  <2>3. ASSUME NEW r \in Incoming, QueueInvoke(r)
        PROVE  CallInv'
    BY <1>17, <2>1, <2>3, QuietFrame DEF BusMessage, QueueInvoke
  <2> QED BY <1>17, <2>2, <2>3 DEF BusMessage
<1>18. CASE Disconnect
  <2>1. NativeInv' /\ (poller' # "complete" => fetched = <<>>)
    BY <1>18 DEF Disconnect, NativeInv, CallInv, FetchedInv
  <2> QED BY <1>18, <2>1, QuietFrame DEF Disconnect, BusLost
<1>19. ASSUME NEW w \in Workers, AcceptRequest(w)
       PROVE  CallInv'
  <2>1. NativeInv' /\ (poller' # "complete" => fetched = <<>>)
    BY <1>19 DEF AcceptRequest, NativeInv, CallInv, FetchedInv
  <2> QED BY <1>19, <2>1, QuietFrame DEF AcceptRequest
<1>20. ASSUME NEW w \in Workers, ReplyRequest(w)
       PROVE  CallInv'
  <2>1. holding[w] \in Incoming
    BY <1>20 DEF ReplyRequest, RequestInv, WorkerInv, TypeOK
  <2>2. \A j \in Invokers : state'[j] = state[j]
    BY <1>0, <1>20, <2>1 DEF ReplyRequest
  <2>3. NativeInv' /\ (poller' # "complete" => fetched = <<>>)
    BY <1>20, <2>2 DEF ReplyRequest, NativeInv, CallInv, FetchedInv
  <2> QED BY <1>20, <2>2, <2>3, QuietFrame DEF ReplyRequest
<1>21. CASE Finished
  <2>1. NativeInv' /\ (poller' # "complete" => fetched = <<>>)
    BY <1>21 DEF Finished, vars, NativeInv, CallInv, FetchedInv
  <2> QED BY <1>21, <2>1, QuietFrame DEF Finished, vars
<1> QED BY <1>1, <1>2, <1>3, <1>4, <1>5, <1>6, <1>7, <1>8, <1>9, <1>10, <1>11,
           <1>12, <1>13, <1>14, <1>15, <1>16, <1>17, <1>18, <1>19, <1>20, <1>21
        DEF Next, Poller

-----------------------------------------------------------------------------
(* Incoming requests: the invariant is kept *)

\* add() puts an invokable on mInvokableQueue unless it is there already.
LEMMA AddEffect ==
  ASSUME TypeOK, QueueInv, NEW x \in Invokables, add(x), UNCHANGED <<poller, cur>>
  PROVE  /\ QueueInv'
         /\ queued'[x]
         /\ \A y \in Invokables : y # x => queued'[y] = queued[y]
<1>1. /\ queued \in [Invokables -> BOOLEAN] /\ queue \in Seq(Invokables)
      /\ Once(queue) /\ \A y \in Invokables : queued[y] <=> Listed(y, queue)
  BY DEF TypeOK, QueueInv
<1>2. CASE queued[x]
  <2>1. UNCHANGED <<queued, queue>>
    BY <1>2 DEF add, queueVars
  <2> QED BY <1>1, <1>2, <2>1 DEF QueueInv
<1>3. CASE ~queued[x]
  <2>1. queued' = [queued EXCEPT ![x] = TRUE] /\ queue' = Append(queue, x)
    BY <1>3 DEF add
  <2>2. /\ \A y : Listed(y, queue') <=> Listed(y, queue) \/ y = x
        /\ Once(queue')
    BY <1>1, <1>3, <2>1, AppendLists
  <2>3. queued'[x] /\ \A y \in Invokables : y # x => queued'[y] = queued[y]
    BY <1>1, <2>1
  <2>4. \A y \in Invokables : queued'[y] <=> Listed(y, queue')
    BY <1>1, <2>2, <2>3
  <2> QED BY <2>2, <2>3, <2>4 DEF QueueInv
<1> QED BY <1>2, <1>3

\* A step that leaves everything about request r alone.
LEMMA RequestFrame ==
  ASSUME NEW r \in Incoming, RequestOK(r),
         state'[r] = state[r], queued'[r] = queued[r],
         cur' = r <=> cur = r,
         r \in unsent' <=> r \in unsent,
         Listed(r, pending') <=> Listed(r, pending),
         Listed(r, incoming') <=> Listed(r, incoming),
         Listed(r, accept') <=> Listed(r, accept),
         Served(r)' <=> Served(r),
         r \in held' <=> r \in held
  PROVE  RequestOK(r)'
<1>1. Arriving(r)' <=> Arriving(r)
  BY DEF Arriving
<1>2. Arrived(r)' <=> Arrived(r)
  BY DEF Arrived
<1> QED BY <1>1, <1>2 DEF RequestOK

\* A step of a caller, or of the poller for a call.
LEMMA RequestQuiet ==
  ASSUME RequestInv, QueueInv',
         UNCHANGED <<unsent, pending, incoming, accept, worker, holding, held,
                     accepted>>,
         \A r \in Incoming : /\ state'[r] = state[r] /\ queued'[r] = queued[r]
                             /\ cur' = r <=> cur = r
  PROVE  RequestInv'
<1>1. ASSUME NEW r \in Incoming
      PROVE  RequestOK(r)'
  <2>1. RequestOK(r) /\ (Served(r)' <=> Served(r))
    BY DEF RequestInv, Served
  <2> QED BY <2>1, RequestFrame
<1>2. /\ Once(pending)' /\ Once(incoming)' /\ Once(accept)' /\ WorkerInv'
      /\ IsFiniteSet(held)' /\ (accepted = Cardinality(held))'
  BY DEF RequestInv, WorkerInv
<1> QED BY <1>1, <1>2 DEF RequestInv

\* A request on its way moves from one of the lists of libubus to the next.
LEMMA RequestMoves ==
  ASSUME TypeOK, RequestInv,
         UNCHANGED <<state, queued, queue, cur, accept, worker, holding, held,
                     accepted>>,
         (poller' = "native" => cur \in Invokers)
           /\ (poller' \in {"run", "native"} <=> cur # NULL),
         Once(pending'), Once(incoming'),
         \A r \in Incoming :
           \/ /\ r \in unsent' <=> r \in unsent
              /\ Listed(r, pending') <=> Listed(r, pending)
              /\ Listed(r, incoming') <=> Listed(r, incoming)
           \/ ~Arrived(r) /\ Arriving(r)'
  PROVE  RequestInv'
<1>1. ASSUME NEW r \in Incoming
      PROVE  RequestOK(r)'
  <2>1. RequestOK(r) /\ (Served(r)' <=> Served(r))
    BY DEF RequestInv, Served
  <2>2. CASE /\ r \in unsent' <=> r \in unsent
             /\ Listed(r, pending') <=> Listed(r, pending)
             /\ Listed(r, incoming') <=> Listed(r, incoming)
    BY <2>1, <2>2, RequestFrame
  <2>3. CASE ~Arrived(r) /\ Arriving(r)'
    BY <2>1, <2>3 DEF RequestOK
  <2> QED BY <2>2, <2>3
<1>2. Once(accept)' /\ WorkerInv' /\ QueueInv'
      /\ IsFiniteSet(held)' /\ (accepted = Cardinality(held))'
  BY DEF RequestInv, WorkerInv, QueueInv
<1> QED BY <1>1, <1>2 DEF RequestInv

\* An INVOKE comes from the bus, at once or after a lookup.
LEMMA DeliveryKeeps ==
  ASSUME TypeOK, RequestInv, poller' \notin {"run", "native"} \/ poller' = poller,
         poller \notin {"run", "native"} \/ poller' = poller,
         UNCHANGED <<state, queued, queue, cur, accept, worker, holding>>,
         \/ \E r \in Incoming : DeliverInvoke(r) \/ QueueInvoke(r)
         \/ ProcessPending
  PROVE  RequestInv'
<1>0. /\ pending \in Seq(Incoming) /\ incoming \in Seq(Incoming)
      /\ Once(pending) /\ Once(incoming)
      /\ \A r \in Incoming : RequestOK(r)
      /\ \A r \in Incoming : Arriving(r) \/ Arrived(r)
  BY DEF TypeOK, WrapperTypeOK, RequestInv, RequestOK
<1>1. (poller' = "native" => cur \in Invokers)
        /\ (poller' \in {"run", "native"} <=> cur # NULL)
  BY DEF RequestInv, QueueInv
<1>2. ASSUME NEW q \in Incoming
      PROVE  /\ <<q>> \in Seq(Incoming) /\ Once(<<q>>)
             /\ \A y : Listed(y, <<q>>) <=> y = q
  <2>1. <<q>> \in Seq(Incoming) /\ Len(<<q>>) = 1 /\ <<q>>[1] = q
    OBVIOUS
  <2>2. \A k \in 1 .. 1 : k = 1
    OBVIOUS
  <2>3. Once(<<q>>)
    BY <2>1, <2>2 DEF Once
  <2>4. \A y : Listed(y, <<q>>) <=> y = q
    BY <2>1, <2>2 DEF Listed
  <2> QED BY <2>1, <2>3, <2>4
<1>3. ASSUME NEW q \in Incoming, DeliverInvoke(q)
      PROVE  RequestInv'
  <2>1. /\ q \in unsent /\ unsent' = unsent \ {q} /\ UNCHANGED pending
        /\ incoming' = incoming \o <<q>> /\ UNCHANGED <<held, accepted>>
    BY <1>3 DEF DeliverInvoke, dummy_defer_cb
  <2>2. ~Listed(q, pending) /\ ~Listed(q, incoming) /\ ~Arrived(q)
    BY <1>0, <2>1 DEF Arriving, Arrived
  <2>3. /\ \A y : Listed(y, incoming') <=> Listed(y, incoming) \/ y = q
        /\ Once(incoming')
    <3>1. PICK u : u = <<q>> /\ u \in Seq(Incoming) /\ Once(u)
                   /\ \A y : Listed(y, u) <=> y = q
      BY <1>2
    <3>2. incoming' = incoming \o u
      BY <2>1, <3>1
    <3>3. \A y : ~(Listed(y, u) /\ Listed(y, incoming))
      BY <2>2, <3>1
    <3> QED BY <1>0, <3>1, <3>2, <3>3, ConcatLists
  <2>4. Arriving(q)'
    BY <2>1, <2>2, <2>3 DEF Arriving
  <2>6. ASSUME NEW r \in Incoming
        PROVE  \/ /\ r \in unsent' <=> r \in unsent
                  /\ Listed(r, pending') <=> Listed(r, pending)
                  /\ Listed(r, incoming') <=> Listed(r, incoming)
               \/ ~Arrived(r) /\ Arriving(r)'
    <3>1. CASE r = q
      BY <2>2, <2>4, <3>1 DEF Arriving, Arrived
    <3>2. CASE r # q
      <4>1. (r \in unsent' <=> r \in unsent)
            /\ (Listed(r, pending') <=> Listed(r, pending))
            /\ (Listed(r, incoming') <=> Listed(r, incoming))
        BY <2>1, <2>3, <3>2
      <4> QED BY <4>1
    <3> QED BY <3>1, <3>2
  <2> QED BY <1>0, <1>1, <2>1, <2>3, <2>6, RequestMoves
<1>4. ASSUME NEW q \in Incoming, QueueInvoke(q)
      PROVE  RequestInv'
  <2>1. /\ q \in unsent /\ unsent' = unsent \ {q} /\ UNCHANGED incoming
        /\ pending' = <<q>> \o pending /\ UNCHANGED <<held, accepted>>
    BY <1>4 DEF QueueInvoke
  <2>2. ~Listed(q, pending) /\ ~Listed(q, incoming) /\ ~Arrived(q)
    BY <1>0, <2>1 DEF Arriving, Arrived
  <2>3. /\ \A y : Listed(y, pending') <=> Listed(y, pending) \/ y = q
        /\ Once(pending')
    <3>1. PICK u : u = <<q>> /\ u \in Seq(Incoming) /\ Once(u)
                   /\ \A y : Listed(y, u) <=> y = q
      BY <1>2
    <3>2. pending' = u \o pending
      BY <2>1, <3>1
    <3>3. \A y : ~(Listed(y, u) /\ Listed(y, pending))
      BY <2>2, <3>1
    <3> QED BY <1>0, <3>1, <3>2, <3>3, ConcatLists
  <2>4. Arriving(q)'
    BY <2>1, <2>2, <2>3 DEF Arriving
  <2>6. ASSUME NEW r \in Incoming
        PROVE  \/ /\ r \in unsent' <=> r \in unsent
                  /\ Listed(r, pending') <=> Listed(r, pending)
                  /\ Listed(r, incoming') <=> Listed(r, incoming)
               \/ ~Arrived(r) /\ Arriving(r)'
    <3>1. CASE r = q
      BY <2>2, <2>4, <3>1 DEF Arriving, Arrived
    <3>2. CASE r # q
      <4>1. (r \in unsent' <=> r \in unsent)
            /\ (Listed(r, pending') <=> Listed(r, pending))
            /\ (Listed(r, incoming') <=> Listed(r, incoming))
        BY <2>1, <2>3, <3>2
      <4> QED BY <4>1
    <3> QED BY <3>1, <3>2
  <2> QED BY <1>0, <1>1, <2>1, <2>3, <2>6, RequestMoves
<1>5. CASE ProcessPending
  <2>1. /\ incoming' = incoming \o pending /\ pending' = <<>>
        /\ UNCHANGED <<unsent, held, accepted>>
    BY <1>5 DEF ProcessPending, dummy_defer_cb
  <2>2. \A y : ~(Listed(y, incoming) /\ Listed(y, pending))
    <3>1. \A y : Listed(y, pending) => y \in Incoming
      BY <1>0 DEF Listed
    <3> QED BY <1>0, <3>1 DEF Arriving, Arrived
  <2>3. /\ \A y : Listed(y, incoming') <=> Listed(y, incoming) \/ Listed(y, pending)
        /\ Once(incoming')
    BY <1>0, <2>1, <2>2, ConcatLists
  <2>4. Once(pending') /\ \A y : ~Listed(y, pending')
    BY <2>1 DEF Once, Listed
  <2>6. ASSUME NEW r \in Incoming
        PROVE  \/ /\ r \in unsent' <=> r \in unsent
                  /\ Listed(r, pending') <=> Listed(r, pending)
                  /\ Listed(r, incoming') <=> Listed(r, incoming)
               \/ ~Arrived(r) /\ Arriving(r)'
    <3>1. CASE ~Listed(r, pending)
      BY <2>1, <2>3, <2>4, <3>1
    <3>2. CASE Listed(r, pending)
      <4>1. r \notin unsent /\ ~Arrived(r)
        BY <1>0, <3>2 DEF Arriving, Arrived
      <4>2. Arriving(r)'
        BY <2>1, <2>3, <2>4, <3>2, <4>1 DEF Arriving
      <4> QED BY <4>1, <4>2
    <3> QED BY <3>1, <3>2
  <2> QED BY <1>0, <1>1, <2>1, <2>3, <2>4, <2>6, RequestMoves
<1> QED BY <1>3, <1>4, <1>5

\* pullRequest: the request leaves the native list, is counted and is in
\* mRequestQueue.
LEMMA PullKeeps ==
  ASSUME TypeOK, RequestInv, Pull, incoming # <<>>
  PROVE  RequestInv'
<1>1. PICK q \in Incoming : q = Head(incoming)
  BY DEF TypeOK, WrapperTypeOK
<1>2. /\ incoming' = Tail(incoming) /\ held' = held \union {q}
      /\ accepted' = accepted + 1
      /\ state' = [state EXCEPT ![q] = "PendingRequest"]
      /\ accept' = Append(accept, q) /\ WakeWorker
      /\ UNCHANGED <<poller, cur, queue, queued, unsent, pending, holding>>
  BY <1>1 DEF Pull, ubus_wrap_accept_request, queueVars
<1>3. /\ incoming \in Seq(Incoming) /\ accept \in Seq(Incoming) /\ Once(accept)
      /\ Once(incoming) /\ RequestOK(q) /\ IsFiniteSet(held)
      /\ accepted = Cardinality(held)
      /\ state \in [Invokables -> States] /\ Incoming \subseteq Invokables
  BY DEF TypeOK, WrapperTypeOK, RequestInv, Invokables
<1>4. /\ Listed(q, incoming) /\ ~Listed(q, Tail(incoming)) /\ Once(Tail(incoming))
      /\ \A y : y # q => (Listed(y, Tail(incoming)) <=> Listed(y, incoming))
  BY <1>1, <1>3, TailLists
<1>5. /\ state[q] = "Initialize" /\ q \notin unsent /\ ~Listed(q, pending)
      /\ ~Listed(q, accept) /\ ~Served(q) /\ ~queued[q] /\ cur # q /\ q \notin held
  BY <1>3, <1>4 DEF RequestOK, Arriving, Arrived
<1>6. /\ Once(accept')
      /\ \A y : Listed(y, accept') <=> Listed(y, accept) \/ y = q
  BY <1>2, <1>3, <1>5, AppendLists
<1>7. \A r : Served(r)' <=> Served(r)
  BY <1>2 DEF Served
<1>8. state'[q] = "PendingRequest" /\ \A r \in Incoming : r # q => state'[r] = state[r]
  BY <1>2, <1>3
<1>9. RequestOK(q)'
  <2>1. Arrived(q)'
    BY <1>2, <1>4, <1>5 DEF Arrived
  <2>2. ~Served(q)'
    BY <1>5, <1>7
  <2> QED BY <1>2, <1>5, <1>6, <1>8, <2>1, <2>2 DEF RequestOK
<1>10. ASSUME NEW r \in Incoming, r # q
       PROVE  RequestOK(r)'
  <2>1. RequestOK(r)
    BY DEF RequestInv
  <2>2. (Listed(r, accept') <=> Listed(r, accept)) /\ (r \in held' <=> r \in held)
        /\ (Listed(r, incoming') <=> Listed(r, incoming))
    BY <1>2, <1>4, <1>6, <1>10
  <2> QED BY <1>2, <1>7, <1>8, <1>10, <2>1, <2>2, RequestFrame
<1>11. WorkerInv'
  <2>1. \A w \in Workers : worker'[w] = "serving" <=> worker[w] = "serving"
    BY <1>2 DEF WakeWorker, TypeOK
  <2> QED BY <1>2, <2>1 DEF WorkerInv, RequestInv
<1>12. IsFiniteSet(held') /\ accepted' = Cardinality(held')
  BY <1>2, <1>3, <1>5, FS_AddElement
<1>13. QueueInv'
  BY <1>2 DEF QueueInv, RequestInv
<1>14. Once(pending)' /\ Once(incoming)' /\ Once(accept)'
  BY <1>2, <1>4, <1>6 DEF RequestInv
<1> QED BY <1>9, <1>10, <1>11, <1>12, <1>13, <1>14 DEF RequestInv

\* The poller sends a reply: the request is freed and no longer counted.
LEMMA ReplyKeeps ==
  ASSUME TypeOK, RequestInv, RunReply
  PROVE  RequestInv'
<1>1. PICK q \in Incoming : q = cur
  BY DEF RunReply
<1>2. /\ held' = held \ {q} /\ accepted' = accepted - 1
      /\ state' = [state EXCEPT ![q] = "Completed"] /\ state[q] = "Queued"
      /\ poller' = "drain" /\ cur' = NULL
      /\ UNCHANGED <<queue, queued, unsent, pending, incoming, accept, worker,
                     holding>>
  BY <1>1 DEF RunReply, ubus_wrap_reply, NextInvokable, queueVars, appVars
<1>3. /\ RequestOK(q) /\ IsFiniteSet(held) /\ accepted = Cardinality(held)
      /\ state \in [Invokables -> States] /\ Incoming \subseteq Invokables
      /\ NULL \notin Incoming
  BY WrapperAssumption DEF TypeOK, RequestInv, Invokables
<1>4. /\ q \in held /\ ~queued[q] /\ ~Listed(q, accept) /\ ~Served(q) /\ Arrived(q)
  BY <1>1, <1>2, <1>3 DEF RequestOK
<1>5. state'[q] = "Completed" /\ \A r \in Incoming : r # q => state'[r] = state[r]
  BY <1>2, <1>3
<1>6. RequestOK(q)'
  <2>1. Arrived(q)' /\ ~Served(q)'
    BY <1>2, <1>4 DEF Arrived, Served
  <2> QED BY <1>2, <1>3, <1>4, <1>5, <2>1 DEF RequestOK
<1>7. ASSUME NEW r \in Incoming, r # q
      PROVE  RequestOK(r)'
  <2>1. RequestOK(r) /\ (Served(r)' <=> Served(r))
    BY <1>2 DEF RequestInv, Served
  <2>2. (cur' = r <=> cur = r) /\ (r \in held' <=> r \in held)
    BY <1>1, <1>2, <1>3, <1>7
  <2> QED BY <1>2, <1>5, <1>7, <2>1, <2>2, RequestFrame
<1>8. IsFiniteSet(held') /\ accepted' = Cardinality(held')
  BY <1>2, <1>3, <1>4, FS_RemoveElement
<1>9. WorkerInv' /\ QueueInv' /\ Once(pending)' /\ Once(incoming)' /\ Once(accept)'
  BY <1>2 DEF RequestInv, WorkerInv, QueueInv
<1> QED BY <1>6, <1>7, <1>8, <1>9 DEF RequestInv

\* acceptRequest: an application thread takes the request or waits.
LEMMA AcceptKeeps ==
  ASSUME TypeOK, RequestInv, NEW w \in Workers, AcceptRequest(w)
  PROVE  RequestInv'
<1>1. /\ worker \in [Workers -> {"call", "waiting", "ready", "serving"}]
      /\ holding \in [Workers -> Incoming \union {NULL}]
      /\ accept \in Seq(Incoming) /\ Once(accept)
      /\ NULL \notin Incoming /\ WorkerInv
  BY WrapperAssumption DEF TypeOK, RequestInv
<1>2. worker[w] \in {"call", "ready"} /\ holding[w] = NULL
      /\ UNCHANGED <<state, queued, queue, cur, poller, unsent, pending, incoming,
                     held, accepted>>
  BY <1>1 DEF AcceptRequest, WorkerInv, queueVars, wrapVars
<1>3. CASE accept = <<>>
  <2>1. worker' = [worker EXCEPT ![w] = "waiting"] /\ UNCHANGED <<accept, holding>>
    BY <1>3 DEF AcceptRequest
  <2>2. WorkerInv'
    BY <1>1, <1>2, <2>1 DEF WorkerInv
  <2>3. ASSUME NEW r \in Incoming
        PROVE  RequestOK(r)'
    <3>1. RequestOK(r) /\ (Served(r)' <=> Served(r))
      BY <2>1 DEF RequestInv, Served
    <3> QED BY <1>2, <2>1, <3>1, RequestFrame
  <2>4. QueueInv' /\ Once(pending)' /\ Once(incoming)' /\ Once(accept)'
        /\ IsFiniteSet(held)' /\ (accepted = Cardinality(held))'
    BY <1>2, <2>1 DEF RequestInv, QueueInv
  <2> QED BY <2>2, <2>3, <2>4 DEF RequestInv
<1>4. CASE accept # <<>>
  <2>1. PICK q \in Incoming : q = Head(accept)
    BY <1>1, <1>4
  <2>2. /\ worker' = [worker EXCEPT ![w] = "serving"]
        /\ holding' = [holding EXCEPT ![w] = q] /\ accept' = Tail(accept)
    BY <1>4, <2>1 DEF AcceptRequest
  <2>3. /\ Listed(q, accept) /\ ~Listed(q, accept') /\ Once(accept')
        /\ \A y : y # q => (Listed(y, accept') <=> Listed(y, accept))
    BY <1>1, <1>4, <2>1, <2>2, TailLists
  <2>4. RequestOK(q) /\ state[q] = "PendingRequest" /\ ~Served(q)
    BY <2>3 DEF RequestInv, RequestOK
  <2>5. /\ holding'[w] = q /\ \A v \in Workers : v # w => holding'[v] = holding[v]
        /\ worker'[w] = "serving"
        /\ \A v \in Workers : v # w => worker'[v] = worker[v]
    BY <1>1, <2>2
  <2>6. \A v \in Workers : holding[v] # q
    BY <2>4 DEF Served
  <2>7. WorkerInv'
    BY <1>1, <2>5, <2>6 DEF WorkerInv
  <2>8. Served(q)' /\ \A r \in Incoming : r # q => (Served(r)' <=> Served(r))
    <3>1. Served(q)'
      BY <2>5 DEF Served
    <3>2. \A r \in Incoming : r # q => (Served(r)' <=> Served(r))
      BY <1>1, <1>2, <2>5 DEF Served
    <3> QED BY <3>1, <3>2
  <2>9. RequestOK(q)'
    <3>1. Arrived(q)'
      BY <1>2, <2>4 DEF RequestOK, Arrived
    <3> QED BY <1>2, <2>3, <2>4, <2>8, <3>1 DEF RequestOK
  <2>10. ASSUME NEW r \in Incoming, r # q
         PROVE  RequestOK(r)'
    <3>1. RequestOK(r) /\ (Listed(r, accept') <=> Listed(r, accept))
          /\ (Served(r)' <=> Served(r))
      BY <2>3, <2>8, <2>10 DEF RequestInv
    <3> QED BY <1>2, <3>1, RequestFrame
  <2>11. QueueInv' /\ Once(pending)' /\ Once(incoming)' /\ Once(accept)'
         /\ IsFiniteSet(held)' /\ (accepted = Cardinality(held))'
    BY <1>2, <2>3 DEF RequestInv, QueueInv
  <2> QED BY <2>7, <2>9, <2>10, <2>11 DEF RequestInv
<1> QED BY <1>3, <1>4

\* replyRequest: the request goes to mInvokableQueue.
LEMMA StartReplyKeeps ==
  ASSUME TypeOK, RequestInv, NEW w \in Workers, ReplyRequest(w)
  PROVE  RequestInv'
<1>1. /\ worker \in [Workers -> {"call", "waiting", "ready", "serving"}]
      /\ holding \in [Workers -> Incoming \union {NULL}]
      /\ state \in [Invokables -> States] /\ Incoming \subseteq Invokables
      /\ NULL \notin Incoming /\ WorkerInv /\ QueueInv
  BY WrapperAssumption DEF TypeOK, RequestInv, Invokables
<1>2. PICK q \in Incoming : q = holding[w]
  BY <1>1 DEF ReplyRequest, WorkerInv
<1>3. /\ add(q) /\ state' = [state EXCEPT ![q] = "Queued"]
      /\ worker' = [worker EXCEPT ![w] = "call"]
      /\ holding' = [holding EXCEPT ![w] = NULL]
      /\ UNCHANGED <<unsent, pending, incoming, accept, held, accepted, poller, cur>>
  BY <1>2 DEF ReplyRequest, inVars
<1>4. /\ QueueInv' /\ queued'[q]
      /\ \A y \in Invokables : y # q => queued'[y] = queued[y]
  BY <1>1, <1>3, AddEffect
<1>5. RequestOK(q) /\ Served(q)
  BY <1>2 DEF RequestInv, Served
<1>6. /\ state[q] = "PendingRequest" /\ ~Listed(q, accept) /\ cur # q /\ q \in held
      /\ Arrived(q)
  BY <1>5 DEF RequestOK
<1>7. /\ holding'[w] = NULL /\ \A v \in Workers : v # w => holding'[v] = holding[v]
      /\ worker'[w] = "call"
      /\ \A v \in Workers : v # w => worker'[v] = worker[v]
  BY <1>1, <1>3
<1>8. WorkerInv'
  BY <1>1, <1>7 DEF WorkerInv
<1>9. ~Served(q)' /\ \A r \in Incoming : r # q => (Served(r)' <=> Served(r))
  <2>1. ~Served(q)'
    BY <1>1, <1>2, <1>7 DEF Served, WorkerInv
  <2>2. \A r \in Incoming : r # q => (Served(r)' <=> Served(r))
    BY <1>1, <1>2, <1>7 DEF Served
  <2> QED BY <2>1, <2>2
<1>10. state'[q] = "Queued" /\ \A r \in Incoming : r # q => state'[r] = state[r]
  BY <1>1, <1>3
<1>11. RequestOK(q)'
  <2>1. Arrived(q)'
    BY <1>3, <1>6 DEF Arrived
  <2> QED BY <1>3, <1>4, <1>6, <1>9, <1>10, <2>1 DEF RequestOK
<1>12. ASSUME NEW r \in Incoming, r # q
       PROVE  RequestOK(r)'
  <2>1. RequestOK(r) /\ queued'[r] = queued[r] /\ (Served(r)' <=> Served(r))
    BY <1>1, <1>4, <1>9, <1>12 DEF RequestInv
  <2> QED BY <1>3, <1>10, <1>12, <2>1, RequestFrame
<1>13. Once(pending)' /\ Once(incoming)' /\ Once(accept)'
       /\ IsFiniteSet(held)' /\ (accepted = Cardinality(held))'
  BY <1>3 DEF RequestInv
<1> QED BY <1>4, <1>8, <1>11, <1>12, <1>13 DEF RequestInv

\* The poller takes the head of mInvokableQueue.
LEMMA DrainKeeps ==
  ASSUME TypeOK, RequestInv, Drain
  PROVE  RequestInv'
<1>0. /\ QueueInv /\ queue \in Seq(Invokables) /\ queued \in [Invokables -> BOOLEAN]
      /\ Incoming \subseteq Invokables /\ NULL \notin Invokables
  BY WrapperAssumption DEF RequestInv, TypeOK, Invokables
<1>1. /\ cur = NULL
      /\ UNCHANGED <<unsent, pending, incoming, accept, worker, holding, held,
                     accepted, state>>
  BY <1>0 DEF Drain, QueueInv, wrapVars, appVars
<1>2. CASE queue = <<>>
  <2>1. poller' = "fetch" /\ UNCHANGED <<queue, queued, cur>>
    BY <1>2 DEF Drain, queueVars
  <2>2. QueueInv'
    BY <1>0, <1>1, <2>1 DEF QueueInv
  <2> QED BY <1>1, <2>1, <2>2, RequestQuiet
<1>3. CASE queue # <<>>
  <2>1. PICK x \in Invokables : x = Head(queue)
    BY <1>0, <1>3
  <2>2. /\ poller' = "run" /\ cur' = x /\ queue' = Tail(queue)
        /\ queued' = [queued EXCEPT ![x] = FALSE]
    BY <1>3, <2>1 DEF Drain
  <2>3. /\ Listed(x, queue) /\ ~Listed(x, queue') /\ Once(queue')
        /\ \A y : y # x => (Listed(y, queue') <=> Listed(y, queue))
    BY <1>0, <1>3, <2>1, <2>2, TailLists DEF QueueInv
  <2>4. ~queued'[x] /\ \A y \in Invokables : y # x => queued'[y] = queued[y]
    BY <1>0, <2>2
  <2>5. queued[x]
    BY <1>0, <2>3 DEF QueueInv
  <2>6. QueueInv'
    BY <1>0, <2>2, <2>3, <2>4 DEF QueueInv
  <2>7. ASSUME NEW r \in Incoming
        PROVE  RequestOK(r)'
    <3>1. RequestOK(r) /\ (Served(r)' <=> Served(r)) /\ r # NULL
      BY <1>0, <1>1 DEF RequestInv, Served
    <3>2. CASE r = x
      <4>1. (Arriving(r)' <=> Arriving(r)) /\ (Arrived(r)' <=> Arrived(r))
        BY <1>1 DEF Arriving, Arrived
      <4> QED BY <1>1, <2>2, <2>4, <2>5, <3>1, <3>2, <4>1 DEF RequestOK
    <3>3. CASE r # x
      <4>1. queued'[r] = queued[r] /\ (cur' = r <=> cur = r)
        BY <1>0, <1>1, <2>2, <2>4, <3>1, <3>3
      <4> QED BY <1>1, <3>1, <4>1, RequestFrame
    <3> QED BY <3>2, <3>3
  <2>8. WorkerInv' /\ Once(pending)' /\ Once(incoming)' /\ Once(accept)'
        /\ IsFiniteSet(held)' /\ (accepted = Cardinality(held))'
    BY <1>1 DEF RequestInv, WorkerInv
  <2> QED BY <2>6, <2>7, <2>8 DEF RequestInv
<1> QED BY <1>2, <1>3

\* Every step keeps what the invariant says of incoming requests.
LEMMA RequestStep ==
  ASSUME TypeOK, CallInv, RequestInv, Next
  PROVE  RequestInv'
<1> USE DEF callVars, inVars, queueVars, tableVars, appVars, javaVars, wrapVars
<1>0. /\ Invokers \subseteq Invokables /\ Incoming \subseteq Invokables
      /\ Adders \subseteq Invokers /\ NULL \notin Invokables
      /\ Invokers \intersect Incoming = {} /\ QueueInv
      /\ state \in [Invokables -> States]
  BY WrapperAssumption, PollerAssumption DEF Invokables, TypeOK, RequestInv
<1>1. ASSUME NEW i \in Invokers, add(i),
             \A r \in Incoming : state'[r] = state[r],
             UNCHANGED <<poller, cur, unsent, pending, incoming, accept, worker,
                         holding, held, accepted>>
      PROVE  RequestInv'
  <2>1. QueueInv' /\ \A y \in Invokables : y # i => queued'[y] = queued[y]
    BY <1>0, <1>1, AddEffect
  <2>2. \A r \in Incoming : queued'[r] = queued[r]
    BY <1>0, <2>1
  <2> QED BY <1>1, <2>1, <2>2, RequestQuiet
<1>2. ASSUME \A r \in Incoming : state'[r] = state[r],
             UNCHANGED <<queue, queued, unsent, pending, incoming, accept, worker,
                         holding, held, accepted>>,
             cur' = cur \/ (cur \notin Incoming /\ cur' = NULL),
             poller' \in {"run", "native"} <=> cur' # NULL,
             poller' = "native" => cur' \in Invokers
      PROVE  RequestInv'
  <2>1. QueueInv'
    BY <1>0, <1>2 DEF QueueInv
  <2>2. \A r \in Incoming : cur' = r <=> cur = r
    BY <1>0, <1>2
  <2> QED BY <1>2, <2>1, <2>2, RequestQuiet
<1>3. ASSUME NEW i \in Invokers, Start(i)
      PROVE  RequestInv'
  BY <1>0, <1>1, <1>3 DEF Start
<1>4. ASSUME NEW i \in Invokers, Timeout(i) \/ Recheck(i)
      PROVE  RequestInv'
  BY <1>0, <1>2, <1>4 DEF Timeout, Recheck, QueueInv
<1>5. ASSUME NEW i \in Invokers, Cancel(i)
      PROVE  RequestInv'
  <2>1. CASE state[i] = "Queued"
    <3>1. \A r \in Incoming : state'[r] = state[r]
      BY <1>0, <1>5, <2>1 DEF Cancel
    <3> QED BY <1>0, <1>2, <1>5, <2>1, <3>1 DEF Cancel, QueueInv
  <2>2. CASE state[i] = "Pending"
    <3>1. add(i) /\ \A r \in Incoming : state'[r] = state[r]
      BY <1>0, <1>5, <2>2 DEF Cancel
    <3> QED BY <1>1, <1>5, <3>1 DEF Cancel
  <2>3. CASE state[i] \notin {"Queued", "Pending"}
    <3>1. UNCHANGED <<state, queue, queued>>
      BY <1>5, <2>3 DEF Cancel
    <3> QED BY <1>0, <1>2, <1>5, <3>1 DEF Cancel, QueueInv
  <2> QED BY <2>1, <2>2, <2>3
<1>6. CASE PollerInit \/ Fetch \/ CompleteEnd
  BY <1>0, <1>2, <1>6 DEF PollerInit, Fetch, CompleteEnd, QueueInv
<1>7. CASE Drain
  BY <1>7, DrainKeeps
<1>8. CASE RunAddObject
  BY <1>0, <1>2, <1>8 DEF RunAddObject, QueueInv
<1>9. ASSUME NEW i \in Invokers, NEW s, setState(i, s)
      PROVE  \A r \in Incoming : state'[r] = state[r]
  BY <1>0, <1>9 DEF setState
<1>10. CASE RunInvoke
  <2>1. /\ cur \in Invokers /\ cur \notin Incoming /\ cur # NULL /\ poller = "run"
        /\ UNCHANGED <<queue, queued, unsent, pending, incoming, accept, worker,
                       holding, held, accepted>>
    BY <1>0, <1>10 DEF RunInvoke
  <2>2. CASE UNCHANGED <<state, cur>> /\ poller' = "native"
    BY <1>2, <2>1, <2>2
  <2>3. CASE /\ setState(cur, "Completed") \/ setState(cur, "Pending")
             /\ poller' = "drain" /\ cur' = NULL
    <3>1. PICK i \in Invokers : i = cur
      BY <2>1
    <3>2. \A r \in Incoming : state'[r] = state[r]
      BY <1>9, <2>3, <3>1
    <3> QED BY <1>2, <2>1, <2>3, <3>2
  <2> QED BY <1>10, <2>2, <2>3 DEF RunInvoke, InvokeNativeEnds, NextInvokable
<1>11. CASE LookupAnswered
  <2>1. PICK i \in Invokers : i = cur /\ i \notin Incoming
    BY <1>0, <1>11 DEF LookupAnswered
  <2>2. setState(i, "Pending") /\ poller' = "drain" /\ cur' = NULL
    BY <1>11, <2>1 DEF LookupAnswered, InvokeNativeEnds, NextInvokable
  <2>3. \A r \in Incoming : state'[r] = state[r]
    BY <1>9, <2>2
  <2> QED BY <1>2, <1>11, <2>1, <2>2, <2>3 DEF LookupAnswered
<1>12. CASE AddObjectAnswered
  <2>1. PICK i \in Invokers : i = cur /\ i \notin Incoming
    BY <1>0, <1>12 DEF AddObjectAnswered
  <2>2. setState(i, "Completed") /\ poller' = "drain" /\ cur' = NULL
    BY <1>12, <2>1 DEF AddObjectAnswered, NextInvokable
  <2>3. \A r \in Incoming : state'[r] = state[r]
    BY <1>9, <2>2
  <2> QED BY <1>2, <1>12, <2>1, <2>2, <2>3 DEF AddObjectAnswered
<1>13. CASE RunOther
  <2>1. PICK i \in Invokers : i = cur /\ i \notin Incoming
    BY <1>0, <1>13 DEF RunOther
  <2>2. (setState(i, "Completed") \/ UNCHANGED state) /\ poller' = "drain" /\ cur' = NULL
    BY <1>13, <2>1 DEF RunOther, NextInvokable
  <2>3. \A r \in Incoming : state'[r] = state[r]
    BY <1>9, <2>2
  <2> QED BY <1>2, <1>13, <2>1, <2>2, <2>3 DEF RunOther
<1>14. CASE RunReply
  BY <1>14, ReplyKeeps
<1>15. CASE Collect
  BY <1>0, <1>2, <1>15 DEF Collect, ubus_wrap_fetch_return, QueueInv
<1>16. CASE Complete
  <2>1. PICK i : i = slots[Head(fetched)]
    OBVIOUS
  <2>2. i \in Invokers \union {NULL}
    BY <1>16, <2>1 DEF Complete, TypeOK
  <2>3. \A r \in Incoming : state'[r] = state[r]
    <3>1. CASE i = NULL
      BY <1>16, <2>1, <3>1 DEF Complete
    <3>2. CASE i # NULL
      BY <1>9, <1>16, <2>1, <2>2, <3>2 DEF Complete
    <3> QED BY <3>1, <3>2
  <2> QED BY <1>0, <1>2, <1>16, <2>3 DEF Complete, QueueInv
<1>17. CASE Pull
  <2>1. CASE incoming = <<>>
    BY <1>0, <1>2, <1>17, <2>1 DEF Pull, QueueInv
  <2> QED BY <1>17, <2>1, PullKeeps
<1>18. CASE UloopWoken
  <2>1. CASE pull_all_data
    BY <1>0, <1>2, <1>18, <2>1 DEF UloopWoken, pull_all_data, QueueInv
  <2>2. CASE ProcessPending
    BY <1>18, <2>2, DeliveryKeeps DEF UloopWoken
  <2> QED BY <1>18, <2>1, <2>2 DEF UloopWoken
<1>19. CASE BusEndsUloop
  <2>1. CASE \E i \in Invokers : ubus_sync_req_cb(i)
    BY <1>0, <1>2, <1>19, <2>1 DEF BusEndsUloop, ubus_sync_req_cb, QueueInv
  <2>2. CASE \E r \in Incoming : DeliverInvoke(r)
    BY <1>19, <2>2, DeliveryKeeps DEF BusEndsUloop
  <2> QED BY <1>19, <2>1, <2>2 DEF BusEndsUloop
<1>20. CASE BusMessage
  <2>1. CASE \E i \in Invokers : recv_cb_json_out(i) \/ ubus_sync_req_cb(i)
    BY <1>0, <1>2, <1>20, <2>1
       DEF BusMessage, ubus_sync_req_cb, recv_cb_json_out, QueueInv
  <2>2. CASE \E r \in Incoming : QueueInvoke(r)
    BY <1>20, <2>2, DeliveryKeeps DEF BusMessage
  <2> QED BY <1>20, <2>1, <2>2 DEF BusMessage
<1>21. CASE Disconnect
  BY <1>0, <1>2, <1>21 DEF Disconnect, BusLost, QueueInv
<1>22. CASE Finished
  BY <1>0, <1>2, <1>22 DEF Finished, vars, QueueInv
<1> QED BY <1>3, <1>4, <1>5, <1>6, <1>7, <1>8, <1>10, <1>11, <1>12, <1>13,
           <1>14, <1>15, <1>16, <1>17, <1>18, <1>19, <1>20, <1>21, <1>22,
           AcceptKeeps, StartReplyKeeps
        DEF Next, Poller

-----------------------------------------------------------------------------
(* The theorems *)

\* Every step keeps the pipe filled while the poller is about to sleep.
LEMMA WakeStep ==
  ASSUME TypeOK, WakeInv, Next
  PROVE  WakeInv'
<1> USE DEF callVars, inVars, queueVars, tableVars, appVars, javaVars, wrapVars
<1>1. ASSUME NEW x, add(x), UNCHANGED poller
      PROVE  WakeInv'
  <2>1. CASE queued[x]
    BY <1>1, <2>1 DEF add, WakeInv
  <2>2. CASE ~queued[x]
    <3>1. poller # "init" => pipe' = pipe + 1
      BY <1>1, <2>2 DEF add, ubus_wrap_wakeup
    <3>2. pipe \in Nat
      BY DEF TypeOK, WrapperTypeOK
    <3> QED BY <1>1, <3>1, <3>2 DEF WakeInv
  <2> QED BY <2>1, <2>2
<1>2. ASSUME UNCHANGED <<queue, pipe, poller>>
      PROVE  WakeInv'
  BY <1>2 DEF WakeInv
<1>3. ASSUME NEW i \in Invokers, Start(i) \/ Timeout(i) \/ Cancel(i) \/ Recheck(i)
      PROVE  WakeInv'
  <2>1. CASE Start(i)
    BY <1>1, <2>1 DEF Start
  <2>2. CASE Timeout(i) \/ Recheck(i)
    BY <1>2, <2>2 DEF Timeout, Recheck
  <2>3. CASE Cancel(i)
    <3>1. (add(i) \/ UNCHANGED <<queue, pipe>>) /\ UNCHANGED poller
      <4>1. CASE state[i] = "Queued"
        BY <2>3, <4>1 DEF Cancel
      <4>2. CASE state[i] = "Pending"
        BY <2>3, <4>2 DEF Cancel
      <4>3. CASE state[i] \notin {"Queued", "Pending"}
        BY <2>3, <4>3 DEF Cancel
      <4> QED BY <4>1, <4>2, <4>3
    <3> QED BY <1>1, <1>2, <3>1
  <2> QED BY <1>3, <2>1, <2>2, <2>3
<1>4. ASSUME NEW w \in Workers, AcceptRequest(w) \/ ReplyRequest(w)
      PROVE  WakeInv'
  <2>1. CASE AcceptRequest(w)
    BY <1>2, <2>1 DEF AcceptRequest
  <2>2. CASE ReplyRequest(w)
    <3>1. PICK x : x = holding[w]
      OBVIOUS
    <3>2. add(x) /\ UNCHANGED poller
      BY <2>2, <3>1 DEF ReplyRequest
    <3> QED BY <1>1, <3>2
  <2> QED BY <1>4, <2>1, <2>2
<1>5. CASE Drain
  BY <1>5 DEF Drain, WakeInv
<1>6. CASE Fetch
  BY <1>6 DEF Fetch, WakeInv
<1>7. CASE BusMessage
  BY <1>2, <1>7 DEF BusMessage, recv_cb_json_out, ubus_sync_req_cb, QueueInvoke
<1>8. CASE Disconnect \/ Finished
  BY <1>2, <1>8 DEF Disconnect, BusLost, Finished, vars
<1>9. CASE PollerInit \/ RunInvoke \/ LookupAnswered \/ RunAddObject
           \/ AddObjectAnswered \/ RunOther \/ RunReply
  BY <1>9 DEF PollerInit, RunInvoke, LookupAnswered, RunAddObject,
              AddObjectAnswered, RunOther, RunReply, InvokeNativeEnds,
              NextInvokable, WakeInv
<1>10. CASE Collect \/ Complete \/ CompleteEnd \/ Pull \/ UloopWoken \/ BusEndsUloop
  <2>1. poller' \in {"collect", "complete", "pull", "drain"}
    BY <1>10 DEF Collect, Complete, CompleteEnd, Pull, UloopWoken, BusEndsUloop
  <2> QED BY <2>1 DEF WakeInv
<1> QED BY <1>3, <1>4, <1>5, <1>6, <1>7, <1>8, <1>9, <1>10 DEF Next, Poller

\* The inductive invariant of the binding.
PollerInv == TypeOK /\ CallInv /\ RequestInv /\ WakeInv

\* The binding before its first call.
LEMMA InitEstablishes ==
  ASSUME Init
  PROVE  PollerInv
<1> USE DEF Init, WrapperInit
<1>1. 0 \in Slots
  BY WrapperAssumption DEF Slots
<1>2. /\ NULL \notin Invokables /\ Invokers \subseteq Invokables
      /\ Incoming \subseteq Invokables
  BY WrapperAssumption DEF Invokables
<1>3. Once(<<>>) /\ \A x : ~Listed(x, <<>>)
  <2>1. 1 .. Len(<<>>) = {}
    OBVIOUS
  <2> QED BY <2>1, Zenon DEF Once, Listed
<1>4. TypeOK
  <2>1. WrapperTypeOK
    <3>1. wrap \in [Invokers -> Context \union {NULL}]
      OBVIOUS
    <3>2. /\ returns \in Seq(Invokers) /\ incoming \in Seq(Incoming)
          /\ pending \in Seq(Incoming)
      OBVIOUS
    <3>3. /\ requests \subseteq Invokers /\ held \subseteq Incoming
          /\ unsent \subseteq Incoming
      OBVIOUS
    <3>4. accepted \in Nat /\ nobject \in Nat /\ pipe \in Nat
      OBVIOUS
    <3>5. bus \in {"none", "up", "dead"} /\ aborted \in BOOLEAN
      OBVIOUS
    <3> QED BY <3>1, <3>2, <3>3, <3>4, <3>5 DEF WrapperTypeOK
  <2>2. /\ caller \in [Invokers -> CallerPcs] /\ state \in [Invokables -> States]
        /\ queued \in [Invokables -> BOOLEAN] /\ result \in [Invokers -> BOOLEAN]
        /\ poller \in PollerPcs
    BY DEF CallerPcs, States, PollerPcs
  <2>3. /\ slots \in [Slots -> Invokers \union {NULL}] /\ lastIndex \in Slots
        /\ index \in [Invokers -> Slots]
    BY <1>1
  <2>4. /\ queue \in Seq(Invokables) /\ fetched \in Seq(Slots)
        /\ accept \in Seq(Incoming) /\ cur \in Invokables \union {NULL}
        /\ worker \in [Workers -> {"call", "waiting", "ready", "serving"}]
        /\ holding \in [Workers -> Incoming \union {NULL}]
    OBVIOUS
  <2> QED BY <2>1, <2>2, <2>3, <2>4 DEF TypeOK
<1>5. CallInv
  <2>1. ASSUME NEW i \in Invokers
        PROVE  CallOK(i)
    BY <1>2, <1>3 DEF CallOK, FlagsOf, Flags
  <2>2. (\A k \in Slots : SlotOK(k)) /\ Once(returns) /\ NativeInv
    BY <1>3 DEF SlotOK, NativeInv
  <2>3. FetchedInv
    BY <1>3 DEF FetchedInv
  <2> QED BY <2>1, <2>2, <2>3 DEF CallInv
<1>6. RequestInv
  <2>1. ASSUME NEW r \in Incoming
        PROVE  RequestOK(r)
    <3>1. Arriving(r) /\ ~Served(r) /\ ~Listed(r, accept)
      BY <1>2, <1>3 DEF Arriving, Served
    <3> QED BY <1>2, <3>1 DEF RequestOK
  <2>2. Once(pending) /\ Once(incoming) /\ Once(accept) /\ QueueInv
    BY <1>3 DEF QueueInv
  <2>3. WorkerInv
    BY DEF WorkerInv
  <2>4. IsFiniteSet(held) /\ accepted = Cardinality(held)
    BY FS_EmptySet
  <2> QED BY <2>1, <2>2, <2>3, <2>4 DEF RequestInv
<1>7. WakeInv
  BY DEF WakeInv
<1> QED BY <1>4, <1>5, <1>6, <1>7 DEF PollerInv

\* A stuttering step changes nothing.
LEMMA StutterKeeps ==
  ASSUME PollerInv, UNCHANGED vars
  PROVE  PollerInv'
<1> USE DEF vars, wrapVars, javaVars
<1>1. TypeOK'
  BY DEF PollerInv, TypeOK, WrapperTypeOK
<1>2. CallInv'
  BY DEF PollerInv, CallInv, CallOK, FlagsOf, SlotOK, FetchedInv, ReturnOK, NativeInv
<1>3. RequestInv'
  <2>1. QueueInv'
    BY DEF PollerInv, RequestInv, QueueInv
  <2> QED BY <2>1, RequestQuiet DEF PollerInv
<1>4. WakeInv'
  BY DEF PollerInv, WakeInv
<1> QED BY <1>1, <1>2, <1>3, <1>4 DEF PollerInv

\* The invariant holds in every reachable state.
THEOREM PollerInvariant == Spec => []PollerInv
<1>1. Init => PollerInv
  BY InitEstablishes
<1>2. PollerInv /\ [Next]_vars => PollerInv'
  <2> SUFFICES ASSUME PollerInv, [Next]_vars PROVE PollerInv'
    OBVIOUS
  <2>1. CASE Next
    BY <2>1, TypeStep, CallStep, RequestStep, WakeStep DEF PollerInv
  <2>2. CASE UNCHANGED vars
    BY <2>2, StutterKeeps
  <2> QED BY <2>1, <2>2
<1> QED BY <1>1, <1>2, PTL DEF Spec

\* The poller never sleeps with work queued and nothing in the wakeup pipe.
THEOREM WakeupsAreKept == Spec => []NoLostWakeup
<1>1. PollerInv => NoLostWakeup
  BY DEF PollerInv, WakeInv, NoLostWakeup
<1> QED BY <1>1, PollerInvariant, PTL

\* A call that is over has had its native context released.
THEOREM CompletedAreReleased == Spec => []CompletedReleased
<1>1. PollerInv => CompletedReleased
  BY DEF PollerInv, CallInv, CallOK, CompletedReleased
<1> QED BY <1>1, PollerInvariant, PTL

\* mPendingInvoke, the invokers, their contexts and the numbers that
\* fetchReturn handed out agree, for tables and arrays of any size.
THEOREM SlotsAgree == Spec => []SlotsMatchCalls
<1>1. PollerInv => SlotsMatchCalls
  <2> SUFFICES ASSUME PollerInv PROVE SlotsMatchCalls
    OBVIOUS
  <2>1. ASSUME NEW i \in Invokers, state[i] \in {"Pending", "Canceled"}
        PROVE  slots[index[i]] = i /\ wrap[i] # NULL /\ wrap[i].index = index[i]
    BY <2>1 DEF PollerInv, CallInv, CallOK
  <2>2. ASSUME NEW k \in Slots, slots[k] # NULL
        PROVE  state[slots[k]] \in {"Pending", "Canceled"} /\ index[slots[k]] = k
    <3>1. slots[k] \in Invokers
      BY <2>2 DEF PollerInv, TypeOK
    <3> QED BY <2>2, <3>1 DEF PollerInv, CallInv, SlotOK, CallOK
  <2>3. ASSUME NEW n \in 1 .. Len(fetched)
        PROVE  /\ slots[fetched[n]] # NULL
               /\ wrap[slots[fetched[n]]] # NULL
               /\ wrap[slots[fetched[n]]].flags = {}
               /\ \A m \in 1 .. Len(fetched) : fetched[m] = fetched[n] => m = n
    BY DEF PollerInv, CallInv, FetchedInv, ReturnOK, Once
  <2> QED BY <2>1, <2>2, <2>3 DEF SlotsMatchCalls
<1> QED BY <1>1, PollerInvariant, PTL

\* A call is on libubus' list, or on the list of returned calls, exactly when
\* its context carries the flag of that list, and it is on a list once.
THEOREM ListsAgree == Spec => []ListsMatchFlags
<1>1. PollerInv => ListsMatchFlags
  <2> SUFFICES ASSUME PollerInv, NEW i \in Invokers
               PROVE  /\ i \in requests <=> "REQ" \in FlagsOf(i)
                      /\ {k \in 1 .. Len(returns) : returns[k] = i} # {}
                           <=> "RET" \in FlagsOf(i)
                      /\ Cardinality({k \in 1 .. Len(returns) : returns[k] = i}) <= 1
                      /\ FlagsOf(i) # Flags
    BY DEF ListsMatchFlags, FlagsOf, PollerInv
  <2> DEFINE places == {k \in 1 .. Len(returns) : returns[k] = i}
  <2>1. CallOK(i) /\ Once(returns)
    BY DEF PollerInv, CallInv
  <2>2. places # {} <=> "RET" \in FlagsOf(i)
    BY <2>1 DEF CallOK, Listed
  <2>3. Cardinality(places) <= 1
    <3>1. CASE places = {}
      <4>1. Cardinality(places) = 0
        BY <3>1, FS_EmptySet, Zenon
      <4> QED BY <4>1
    <3>2. CASE places # {}
      <4>1. PICK k \in places : TRUE
        BY <3>2
      <4>2. places = {k}
        BY <2>1, <4>1 DEF Once
      <4>3. Cardinality({k}) = 1
        BY FS_Singleton, Zenon
      <4> HIDE DEF places
      <4> QED BY <4>2, <4>3
    <3> QED BY <3>1, <3>2
  <2> QED BY <2>1, <2>2, <2>3 DEF CallOK
<1> QED BY <1>1, PollerInvariant, PTL

\* What a step may do to what a caller got, as ReturnedIsFinal states it.
FinalFor(i) ==
  /\ caller[i] = "done" =>
       caller'[i] = "done" /\ result'[i] = result[i] /\ state'[i] = state[i]
  /\ i \notin Adders =>
       /\ result'[i] # result[i] => wrap[i] # NULL /\ wrap[i].result
       /\ poller = "complete" /\ wrap[i] # NULL /\ wrap'[i] = NULL =>
            result'[i] = wrap[i].result

\* No step changes what a caller got once it has returned.
LEMMA FinalStep ==
  ASSUME PollerInv, Next, NEW i \in Invokers
  PROVE  FinalFor(i)
<1> USE DEF callVars, inVars, queueVars, tableVars, appVars, javaVars, wrapVars
<1>0. /\ CallOK(i) /\ TypeOK /\ CallInv
      /\ Invokers \subseteq Invokables /\ Incoming \subseteq Invokables
      /\ Adders \subseteq Invokers /\ NULL \notin Invokables
      /\ Invokers \intersect Incoming = {}
      /\ state \in [Invokables -> States] /\ caller \in [Invokers -> CallerPcs]
      /\ "Completed" \in States /\ "Pending" \in States
      /\ result \in [Invokers -> BOOLEAN]
  BY WrapperAssumption, PollerAssumption
     DEF PollerInv, CallInv, Invokables, TypeOK, States
<1>1. caller[i] = "done" => state[i] = "Completed"
  BY <1>0 DEF CallOK
<1>2. ASSUME result'[i] = result[i], state'[i] = state[i],
             caller[i] = "done" => caller'[i] = "done",
             poller # "complete" \/ wrap'[i] = wrap[i]
      PROVE  FinalFor(i)
  BY <1>2 DEF FinalFor
<1>3. ASSUME NEW j \in Invokers, NEW s \in States, setState(j, s),
             result'[i] = result[i], poller # "complete",
             state[j] # "Completed" \/ s = "Completed"
      PROVE  FinalFor(i)
  <2>1. /\ \A x \in Invokables : state'[x] = IF x = j THEN s ELSE state[x]
        /\ \A l \in Invokers : l # j => caller'[l] = caller[l]
        /\ caller'[j] = "done" <=> caller[j] = "done"
    BY <1>0, <1>3, SetStateTypes
  <2>2. caller[i] = "done" => caller'[i] = "done" /\ state'[i] = state[i]
    BY <1>0, <1>1, <1>3, <2>1
  <2> QED BY <1>3, <2>2 DEF FinalFor
<1>4. ASSUME NEW j \in Invokers, Start(j) \/ Timeout(j) \/ Cancel(j) \/ Recheck(j)
      PROVE  FinalFor(i)
  <2>1. caller[j] # "done" /\ UNCHANGED <<wrap, result>>
    BY <1>4 DEF Start, Timeout, Cancel, Recheck
  <2>2. j # i => state'[i] = state[i] /\ caller'[i] = caller[i]
    <3>1. CASE Start(j) \/ Timeout(j) \/ Recheck(j)
      BY <1>0, <3>1 DEF Start, Timeout, Recheck
    <3>2. CASE Cancel(j)
      BY <1>0, <3>2 DEF Cancel
    <3> QED BY <1>4, <3>1, <3>2
  <2> QED BY <2>1, <2>2 DEF FinalFor
<1>5. ASSUME NEW w \in Workers, AcceptRequest(w) \/ ReplyRequest(w)
      PROVE  FinalFor(i)
  <2>1. CASE AcceptRequest(w)
    BY <1>2, <2>1 DEF AcceptRequest
  <2>2. CASE ReplyRequest(w)
    <3>1. holding[w] \in Incoming
      BY <2>2 DEF ReplyRequest, PollerInv, RequestInv, WorkerInv, TypeOK
    <3>2. state'[i] = state[i]
      BY <1>0, <2>2, <3>1 DEF ReplyRequest
    <3> QED BY <1>2, <2>2, <3>2 DEF ReplyRequest
  <2> QED BY <1>5, <2>1, <2>2
<1>6. CASE PollerInit \/ Drain \/ RunAddObject \/ Fetch \/ CompleteEnd \/ Finished
           \/ Disconnect
  <2>1. UNCHANGED <<caller, state, result, wrap>>
    BY <1>6 DEF PollerInit, Drain, RunAddObject, Fetch, CompleteEnd, Finished, vars,
                Disconnect, BusLost
  <2> QED BY <1>2, <2>1
<1>7. CASE Collect \/ UloopWoken \/ BusEndsUloop \/ BusMessage
  <2>1. UNCHANGED <<caller, state, result>> /\ poller # "complete"
    BY <1>7 DEF Collect, UloopWoken, BusEndsUloop, BusMessage
  <2> QED BY <1>2, <2>1
<1>8. CASE RunInvoke
  <2>1. PICK j \in Invokers : j = cur
    BY <1>8 DEF RunInvoke
  <2>2. /\ state[j] = "Queued" /\ poller = "run" /\ UNCHANGED result
        /\ \/ UNCHANGED <<caller, state>>
           \/ setState(j, "Completed")
           \/ setState(j, "Pending")
    BY <1>8, <2>1 DEF RunInvoke, InvokeNativeEnds
  <2> QED BY <1>0, <1>2, <1>3, <2>2
<1>9. CASE LookupAnswered
  <2>1. PICK j \in Invokers : j = cur
    BY <1>9 DEF LookupAnswered
  <2>2. /\ state[j] = "Queued" /\ poller = "native" /\ UNCHANGED result
        /\ setState(j, "Pending")
    BY <1>0, <1>9, <2>1 DEF LookupAnswered, InvokeNativeEnds, CallInv, NativeInv
  <2> QED BY <1>0, <1>3, <2>2
<1>10. CASE AddObjectAnswered
  <2>1. PICK j \in Invokers : j = cur /\ j \in Adders
    BY <1>0, <1>10 DEF AddObjectAnswered
  <2>2. /\ state[j] = "Queued" /\ poller = "native" /\ setState(j, "Completed")
        /\ result' = [result EXCEPT ![j] = TRUE]
    BY <1>0, <1>10, <2>1 DEF AddObjectAnswered, CallInv, NativeInv
  <2>3. CASE i = j
    <3>1. caller[i] # "done"
      BY <1>1, <2>2, <2>3
    <3> QED BY <2>1, <2>3, <3>1 DEF FinalFor
  <2>4. CASE i # j
    BY <1>0, <1>3, <2>2, <2>4
  <2> QED BY <2>3, <2>4
<1>11. CASE RunOther
  <2>1. PICK j \in Invokers : j = cur
    BY <1>11 DEF RunOther
  <2>2. /\ poller = "run" /\ UNCHANGED result
        /\ setState(j, "Completed") \/ UNCHANGED <<caller, state>>
    BY <1>11, <2>1 DEF RunOther
  <2> QED BY <1>0, <1>2, <1>3, <2>2
<1>12. CASE RunReply
  <2>1. UNCHANGED <<caller, result>> /\ poller = "run" /\ state'[i] = state[i]
    BY <1>0, <1>12 DEF RunReply
  <2> QED BY <1>2, <2>1
<1>13. CASE Pull
  <2>1. UNCHANGED <<caller, result>> /\ poller = "pull"
    BY <1>13 DEF Pull
  <2>2. state'[i] = state[i]
    <3>1. CASE incoming = <<>>
      BY <1>13, <3>1 DEF Pull
    <3>2. CASE incoming # <<>>
      <4>1. Head(incoming) \in Incoming
        BY <1>0, <3>2 DEF TypeOK, WrapperTypeOK
      <4> QED BY <1>0, <1>13, <3>2, <4>1 DEF Pull
    <3> QED BY <3>1, <3>2
  <2> QED BY <1>2, <2>1, <2>2
<1>14. CASE Complete
  <2>1. PICK j : j = slots[Head(fetched)]
    OBVIOUS
  <2>2. j \in Invokers \union {NULL} /\ Head(fetched) \in Slots
    BY <1>0, <1>14, <2>1 DEF Complete, TypeOK
  <2>3. CASE j = NULL
    <3>1. UNCHANGED <<caller, state, result, wrap>>
      BY <1>14, <2>1, <2>3 DEF Complete
    <3> QED BY <1>2, <3>1
  <2>4. CASE j # NULL
    <3>1. /\ j \in Invokers /\ result' = [result EXCEPT ![j] = getResult(j)]
          /\ ubus_wrap_release(j) /\ setState(j, "Completed")
      BY <1>14, <2>1, <2>2, <2>4 DEF Complete
    <3>2. wrap[j] # NULL /\ CallOK(j) /\ Once(returns)
      BY <1>0, <2>1, <2>2, <2>4, <3>1 DEF CallInv, SlotOK
    <3>3. state[j] \in {"Pending", "Canceled"} /\ caller[j] # "done"
          /\ (j \notin Adders => ~result[j])
      BY <3>2 DEF CallOK
    <3>4. \A l \in Invokers : l # j => wrap'[l] = wrap[l]
      BY <1>0, <3>1, <3>2, ReleaseEffect
    <3>5. /\ \A x \in Invokables : state'[x] = IF x = j THEN "Completed" ELSE state[x]
          /\ \A l \in Invokers : l # j => caller'[l] = caller[l]
      BY <1>0, <3>1, SetStateTypes
    <3>6. CASE i = j
      <4>1. wrap[j].result \in BOOLEAN
        BY <1>0, <3>1, <3>2 DEF TypeOK, WrapperTypeOK, Context
      <4>2. result'[i] = wrap[i].result
        BY <1>0, <3>1, <3>2, <3>6, <4>1 DEF getResult
      <4>3. i \notin Adders => (result'[i] # result[i] => wrap[i].result)
        BY <1>0, <3>3, <3>6, <4>1, <4>2
      <4> QED BY <3>2, <3>3, <3>6, <4>2, <4>3 DEF FinalFor
    <3>7. CASE i # j
      <4>1. /\ result'[i] = result[i] /\ state'[i] = state[i]
            /\ caller'[i] = caller[i] /\ wrap'[i] = wrap[i]
        BY <1>0, <3>1, <3>4, <3>5, <3>7
      <4> QED BY <1>2, <4>1
    <3> QED BY <3>6, <3>7
  <2> QED BY <2>3, <2>4
<1> QED BY <1>4, <1>5, <1>6, <1>7, <1>8, <1>9, <1>10, <1>11, <1>12, <1>13, <1>14
        DEF Next, Poller

\* Once remoteInvoke has returned nothing changes what its caller got, and a
\* call returns the peer's data exactly when the reply completes it.
THEOREM ReturnsAreFinal == Spec => ReturnedIsFinal
<1>1. PollerInv /\ [Next]_vars =>
        [/\ \A i \in Invokers : caller[i] = "done" =>
              caller'[i] = "done" /\ result'[i] = result[i] /\ state'[i] = state[i]
         /\ \A i \in Invokers \ Adders :
              /\ result'[i] # result[i] => wrap[i] # NULL /\ wrap[i].result
              /\ poller = "complete" /\ wrap[i] # NULL /\ wrap'[i] = NULL =>
                   result'[i] = wrap[i].result]_vars
  <2> SUFFICES ASSUME PollerInv, Next
      PROVE  /\ \A i \in Invokers : caller[i] = "done" =>
                  caller'[i] = "done" /\ result'[i] = result[i] /\ state'[i] = state[i]
             /\ \A i \in Invokers \ Adders :
                  /\ result'[i] # result[i] => wrap[i] # NULL /\ wrap[i].result
                  /\ poller = "complete" /\ wrap[i] # NULL /\ wrap'[i] = NULL =>
                       result'[i] = wrap[i].result
    OBVIOUS
  <2>1. \A i \in Invokers : FinalFor(i)
    BY FinalStep
  <2> QED BY <2>1 DEF FinalFor
<1> QED BY <1>1, PollerInvariant, PTL DEF Spec, ReturnedIsFinal

-----------------------------------------------------------------------------
(* The asserts of the wrapper *)

\* The circumstances the asserts of the wrapper take for granted: no more
\* objects and requests than its arrays are made for, no path that another
\* client holds and, if objects are added at all, a daemon that is there.
AssertsMet ==
  /\ IsFiniteSet(Adders) /\ Cardinality(Adders) < MaxObjects
  /\ IsFiniteSet(Incoming) /\ Cardinality(Incoming) <= AcceptLimit
  /\ Refused = {}
  /\ Adders # {} => ConnectOutcomes = {TRUE} /\ ~BusMayDie

\* The ubusAddObject calls that were answered.
Added == {i \in Adders : result[i]}

AssertInv ==
  /\ ~aborted
  /\ requests # {} => bus # "none"
  /\ Adders # {} => bus # "dead"
  /\ nobject <= Cardinality(Added)

\* An incoming request that is not accepted yet leaves room for itself.
LEMMA RoomForRequest ==
  ASSUME TypeOK, RequestInv, AssertsMet, NEW r \in Incoming, r \notin held
  PROVE  accepted < AcceptLimit
<1>1. /\ IsFiniteSet(Incoming) /\ Cardinality(Incoming) <= AcceptLimit
      /\ held \subseteq Incoming /\ accepted = Cardinality(held)
      /\ IsFiniteSet(held) /\ accepted \in Nat /\ AcceptLimit \in Nat
  BY WrapperAssumption DEF AssertsMet, TypeOK, WrapperTypeOK, RequestInv
<1>2. held \union {r} \subseteq Incoming /\ IsFiniteSet(held \union {r})
      /\ Cardinality(held \union {r}) = Cardinality(held) + 1
  BY <1>1, FS_AddElement
<1>3. Cardinality(held \union {r}) <= Cardinality(Incoming)
  BY <1>1, <1>2, FS_Subset
<1>4. Cardinality(Incoming) \in Nat
  BY <1>1, FS_CardinalityType
<1> QED BY <1>1, <1>2, <1>3, <1>4

\* No step makes an assert fail in those circumstances.
LEMMA AssertStep ==
  ASSUME PollerInv, AssertsMet, AssertInv, Next
  PROVE  AssertInv'
<1> USE DEF callVars, inVars, queueVars, tableVars, appVars, javaVars, wrapVars
<1>0. /\ TypeOK /\ CallInv /\ RequestInv /\ result \in [Invokers -> BOOLEAN]
      /\ Adders \subseteq Invokers /\ nobject \in Nat /\ requests \subseteq Invokers
      /\ NULL \notin Invokers /\ aborted \in BOOLEAN
  BY WrapperAssumption, PollerAssumption
     DEF PollerInv, TypeOK, WrapperTypeOK
<1>1. ASSUME UNCHANGED <<aborted, nobject>>, requests' \subseteq requests,
             bus' = bus \/ (bus = "none" /\ bus' = "up"),
             \A i \in Adders : result[i] => result'[i]
      PROVE  AssertInv'
  <2>1. Added \subseteq Added'
    BY <1>1 DEF Added
  <2>2. IsFiniteSet(Added') /\ Cardinality(Added) <= Cardinality(Added')
        /\ Cardinality(Added) \in Nat /\ Cardinality(Added') \in Nat
    <3>1. IsFiniteSet(Added') /\ IsFiniteSet(Added)
      BY FS_Subset DEF AssertsMet, Added
    <3> QED BY <2>1, <3>1, FS_Subset, FS_CardinalityType
  <2>3. nobject' <= Cardinality(Added')
    BY <1>0, <1>1, <2>2 DEF AssertInv
  <2> QED BY <1>1, <2>3 DEF AssertInv
<1>2. ASSUME NEW up \in ConnectOutcomes, ubus_wrap_init(up)
      PROVE  bus' = bus \/ (bus = "none" /\ bus' = "up")
  BY <1>2 DEF ubus_wrap_init, TypeOK, WrapperTypeOK
<1>3. ASSUME NEW i \in Invokers,
             Start(i) \/ Timeout(i) \/ Cancel(i) \/ Recheck(i)
      PROVE  AssertInv'
  BY <1>1, <1>3 DEF Start, Timeout, Cancel, Recheck
<1>4. ASSUME NEW w \in Workers, AcceptRequest(w) \/ ReplyRequest(w)
      PROVE  AssertInv'
  BY <1>1, <1>4 DEF AcceptRequest, ReplyRequest
<1>5. CASE PollerInit
  BY <1>1, <1>2, <1>5 DEF PollerInit
<1>6. CASE Drain \/ Fetch \/ CompleteEnd \/ Finished
  BY <1>1, <1>6 DEF Drain, Fetch, CompleteEnd, Finished, vars
<1>7. CASE RunInvoke
  <2>1. UNCHANGED <<nobject, result>>
    BY <1>7 DEF RunInvoke
  <2>2. CASE findEmptyInvokeSlot = NULL
    BY <1>1, <1>7, <2>1, <2>2 DEF RunInvoke
  <2>3. CASE findEmptyInvokeSlot # NULL
    <3>1. bus' = bus \/ (bus = "none" /\ bus' = "up")
      BY <1>2, <1>7, <2>3 DEF RunInvoke
    <3>2. UNCHANGED <<aborted, requests>>
      <4>1. CASE bus' = "up"
        BY <1>7, <2>3, <4>1 DEF RunInvoke
      <4>2. CASE bus' # "up"
        <5>1. PICK i \in Invokers : i = cur /\ state[i] = "Queued"
          BY <1>7 DEF RunInvoke
        <5>2. PICK k \in Slots : k = findEmptyInvokeSlot
          BY <1>0, <2>3, EmptySlotIsFree
        <5>3. ubus_wrap_invoke(i, k, FALSE)
          BY <1>7, <2>3, <4>2, <5>1, <5>2 DEF RunInvoke, InvokeNativeEnds
        <5>4. wrap[i] = NULL
          BY <1>0, <5>1, RunningCall
        <5> QED BY <1>0, <5>3, <5>4, InvokeEffect
      <4> QED BY <4>1, <4>2
    <3> QED BY <1>1, <2>1, <3>1, <3>2
  <2> QED BY <2>2, <2>3
<1>8. CASE LookupAnswered
  <2>1. PICK i \in Invokers : i = cur /\ state[i] = "Queued"
    BY <1>0, <1>8 DEF LookupAnswered, CallInv, NativeInv
  <2>2. PICK k \in Slots : k = lastIndex
    BY <1>0 DEF TypeOK
  <2>3. PICK sent \in BOOLEAN : ubus_wrap_invoke(i, k, sent)
    BY <1>8, <2>1, <2>2 DEF LookupAnswered, InvokeNativeEnds
  <2>4. wrap[i] = NULL
    BY <1>0, <2>1, RunningCall
  <2>5. aborted' = aborted
    BY <1>0, <2>3, <2>4, InvokeEffect
  <2>6. bus = "up" /\ UNCHANGED <<bus, nobject, result>>
    BY <1>8 DEF LookupAnswered
  <2>7. Added' = Added
    BY <2>6 DEF Added
  <2> QED BY <2>5, <2>6, <2>7 DEF AssertInv
<1>9. CASE RunAddObject
  <2>1. /\ Adders # {}
        /\ bus' = bus \/ (bus = "none" /\ bus' = "up")
        /\ UNCHANGED <<nobject, requests, result>>
    BY <1>2, <1>9 DEF RunAddObject
  <2>2. bus' = "up"
    <3>1. ConnectOutcomes = {TRUE} /\ bus # "dead"
      BY <2>1 DEF AssertsMet, AssertInv
    <3>2. ubus_wrap_init(TRUE)
      BY <1>9, <3>1 DEF RunAddObject
    <3> QED BY <1>0, <3>1, <3>2 DEF ubus_wrap_init, TypeOK, WrapperTypeOK
  <2>3. UNCHANGED aborted
    BY <1>9, <2>2 DEF RunAddObject
  <2> QED BY <1>1, <2>1, <2>3
<1>10. CASE AddObjectAnswered
  <2>1. PICK i \in Adders : i = cur
    BY <1>10 DEF AddObjectAnswered
  <2>2. /\ ubus_wrap_add_object(i \notin Refused) /\ UNCHANGED <<requests, bus>>
        /\ result' = [result EXCEPT ![i] = TRUE]
    BY <1>10, <2>1 DEF AddObjectAnswered
  <2>3. i \notin Refused
    BY DEF AssertsMet
  <2>4. i \notin Added /\ Added' = Added \union {i}
    <3>1. state[i] = "Queued"
      BY <1>0, <1>10, <2>1 DEF AddObjectAnswered, CallInv, NativeInv
    <3>2. ~result[i]
      BY <1>0, <3>1 DEF CallInv, CallOK
    <3>3. \A j \in Adders : result'[j] <=> result[j] \/ j = i
      BY <1>0, <2>2
    <3> QED BY <3>2, <3>3 DEF Added
  <2>5. /\ Cardinality(Added') = Cardinality(Added) + 1
        /\ Cardinality(Added') <= Cardinality(Adders)
        /\ Cardinality(Added) \in Nat /\ Cardinality(Adders) \in Nat
    <3>1. IsFiniteSet(Adders) /\ Added \subseteq Adders /\ Added' \subseteq Adders
      BY DEF AssertsMet, Added
    <3>2. IsFiniteSet(Added) /\ IsFiniteSet(Added')
          /\ Cardinality(Added') <= Cardinality(Adders)
      BY <3>1, FS_Subset
    <3>3. Cardinality(Added') = Cardinality(Added) + 1
      BY <2>4, <3>2, FS_AddElement
    <3> QED BY <3>1, <3>2, <3>3, FS_CardinalityType
  <2>6. nobject + 1 < MaxObjects
    BY <1>0, <2>5, WrapperAssumption DEF AssertsMet, AssertInv
  <2>7. nobject' = nobject + 1 /\ UNCHANGED aborted
    BY <2>2, <2>3, <2>6 DEF ubus_wrap_add_object
  <2>8. nobject' <= Cardinality(Added')
    BY <1>0, <2>5, <2>7 DEF AssertInv
  <2> QED BY <2>2, <2>7, <2>8 DEF AssertInv
<1>11. ASSUME NEW i \in Invokers, ubus_wrap_release(i)
       PROVE  UNCHANGED aborted /\ requests' \subseteq requests
  <2>1. CallOK(i)
    BY <1>0 DEF CallInv
  <2>2. aborted' = (aborted \/ ("REQ" \in FlagsOf(i) /\ bus = "none"))
        /\ requests' \subseteq requests
    BY <1>11 DEF ubus_wrap_release, FlagsOf
  <2>3. "REQ" \in FlagsOf(i) => bus # "none"
    BY <2>1 DEF CallOK, AssertInv
  <2> QED BY <1>0, <2>2, <2>3
<1>12. CASE RunOther
  <2>1. PICK i \in Invokers : i = cur
    BY <1>12 DEF RunOther
  <2>2. /\ UNCHANGED <<bus, nobject, result>>
        /\ ubus_wrap_release(i) \/ UNCHANGED <<requests, aborted>>
    BY <1>12, <2>1 DEF RunOther
  <2> QED BY <1>1, <1>11, <2>2
<1>13. CASE RunReply
  <2>1. cur \in held
    BY <1>0, <1>13 DEF RunReply, RequestInv, RequestOK
  <2>2. UNCHANGED aborted
    BY <1>0, <1>13, <2>1 DEF RunReply, ubus_wrap_reply
  <2> QED BY <1>1, <1>13, <2>2 DEF RunReply
<1>14. CASE Collect
  BY <1>1, <1>14 DEF Collect, ubus_wrap_fetch_return
<1>15. CASE Complete
  <2>1. PICK j : j = slots[Head(fetched)]
    OBVIOUS
  <2>2. j \in Invokers \union {NULL} /\ Head(fetched) \in Slots
        /\ UNCHANGED <<bus, nobject>>
    BY <1>0, <1>15, <2>1 DEF Complete, TypeOK
  <2>3. CASE j = NULL
    <3>1. UNCHANGED <<requests, aborted, result>>
      BY <1>15, <2>1, <2>3 DEF Complete
    <3> QED BY <1>1, <2>2, <3>1
  <2>4. CASE j # NULL
    <3>1. j \in Invokers /\ ubus_wrap_release(j)
          /\ result' = [result EXCEPT ![j] = getResult(j)]
      BY <1>15, <2>1, <2>2, <2>4 DEF Complete
    <3>2. j \notin Adders
      <4>1. wrap[j] # NULL
        BY <1>0, <2>1, <2>2, <2>4 DEF CallInv, SlotOK
      <4> QED BY <1>0, <3>1, <4>1 DEF CallInv, CallOK
    <3>3. \A i \in Adders : result[i] => result'[i]
      BY <1>0, <3>1, <3>2
    <3> QED BY <1>1, <1>11, <2>2, <3>1, <3>3
  <2> QED BY <2>3, <2>4
<1>16. CASE Pull
  BY <1>1, <1>16 DEF Pull
<1>17. ASSUME NEW r \in Incoming, r \notin held, NEW rs, dummy_defer_cb(rs)
       PROVE  UNCHANGED aborted
  BY <1>0, <1>17, RoomForRequest DEF dummy_defer_cb
<1>18. \A r \in Incoming : r \in unsent \/ Listed(r, pending) => r \notin held
  BY <1>0 DEF RequestInv, RequestOK, Arrived
<1>19. CASE UloopWoken
  <2>1. CASE pull_all_data
    BY <1>1, <1>19, <2>1 DEF UloopWoken, pull_all_data
  <2>2. CASE ProcessPending
    <3>1. Head(pending) \in Incoming /\ Listed(Head(pending), pending)
      BY <1>0, <2>2, TailLists DEF ProcessPending, TypeOK, WrapperTypeOK
    <3>2. PICK rs : dummy_defer_cb(rs)
      BY <2>2 DEF ProcessPending
    <3>3. UNCHANGED aborted
      BY <1>17, <1>18, <3>1, <3>2
    <3> QED BY <1>1, <1>19, <2>2, <3>3 DEF UloopWoken, ProcessPending
  <2> QED BY <1>19, <2>1, <2>2 DEF UloopWoken
<1>20. CASE BusEndsUloop
  <2>1. CASE \E i \in Invokers : ubus_sync_req_cb(i)
    BY <1>1, <1>20, <2>1 DEF BusEndsUloop, ubus_sync_req_cb
  <2>2. ASSUME NEW r \in Incoming, DeliverInvoke(r)
        PROVE  AssertInv'
    <3>1. r \notin held /\ dummy_defer_cb(<<r>>)
      BY <1>18, <2>2 DEF DeliverInvoke
    <3>2. UNCHANGED aborted
      BY <1>17, <3>1
    <3> QED BY <1>1, <1>20, <2>2, <3>2 DEF BusEndsUloop, DeliverInvoke
  <2> QED BY <1>20, <2>1, <2>2 DEF BusEndsUloop
<1>21. CASE BusMessage
  BY <1>1, <1>21 DEF BusMessage, recv_cb_json_out, ubus_sync_req_cb, QueueInvoke
<1>22. CASE Disconnect
  <2>1. BusMayDie /\ bus' = "dead" /\ UNCHANGED <<aborted, requests, nobject, result>>
    BY <1>22 DEF Disconnect, BusLost
  <2>2. Adders = {} /\ Added' = Added
    BY <2>1 DEF AssertsMet, Added
  <2> QED BY <2>1, <2>2 DEF AssertInv
<1> QED BY <1>3, <1>4, <1>5, <1>6, <1>7, <1>8, <1>9, <1>10, <1>12, <1>13, <1>14,
           <1>15, <1>16, <1>19, <1>20, <1>21, <1>22
        DEF Next, Poller

\* When the asserts' circumstances are met none of them fails, and every
\* request taken from the bus is in one place until it is answered, counted
\* by _accept_incoming.
THEOREM RequestsAreAccounted ==
  ASSUME AssertsMet
  PROVE  Spec => []AcceptedAccounted
<1>1. Init => AssertInv
  <2> SUFFICES ASSUME Init PROVE AssertInv
    OBVIOUS
  <2>1. ~aborted /\ requests = {} /\ bus = "none" /\ nobject = 0
    BY DEF Init, WrapperInit
  <2>2. Cardinality(Added) \in Nat
    <3>1. IsFiniteSet(Adders) /\ Added \subseteq Adders
      BY DEF AssertsMet, Added
    <3> QED BY <3>1, FS_Subset, FS_CardinalityType
  <2> QED BY <2>1, <2>2 DEF AssertInv
<1>2. PollerInv /\ AssertInv /\ [Next]_vars => AssertInv'
  <2> SUFFICES ASSUME PollerInv, AssertInv, [Next]_vars PROVE AssertInv'
    OBVIOUS
  <2>1. CASE Next
    BY <2>1, AssertStep
  <2>2. CASE UNCHANGED vars
    BY <2>2 DEF vars, wrapVars, javaVars, AssertInv, Added
  <2> QED BY <2>1, <2>2
<1>3. PollerInv /\ AssertInv => AcceptedAccounted
  <2> SUFFICES ASSUME PollerInv, AssertInv PROVE AcceptedAccounted
    OBVIOUS
  <2>1. RequestInv /\ TypeOK /\ held \subseteq Incoming /\ Incoming \subseteq Invokables
    BY DEF PollerInv, TypeOK, WrapperTypeOK, Invokables
  <2>2. held = {r \in Incoming : state[r] \in {"PendingRequest", "Queued"}}
    BY <2>1 DEF RequestInv, RequestOK
  <2>3. ASSUME NEW r \in held
        PROVE  \/ Listed(r, accept) /\ ~queued[r] /\ cur # r
               \/ \E w \in Workers : holding[w] = r /\ ~queued[r] /\ cur # r
               \/ queued[r] /\ Listed(r, queue) /\ cur # r
               \/ cur = r /\ poller = "run"
    <3>1. RequestOK(r) /\ QueueInv /\ r \in Incoming /\ r \in Invokables
      BY <2>1 DEF RequestInv
    <3>2. CASE state[r] = "PendingRequest"
      <4>1. ~queued[r] /\ cur # r /\ (Listed(r, accept) \/ Served(r))
        BY <3>1, <3>2 DEF RequestOK
      <4> QED BY <4>1 DEF Served
    <3>3. CASE state[r] = "Queued"
      <4>1. CASE queued[r]
        BY <3>1, <4>1 DEF RequestOK, QueueInv
      <4>2. CASE cur = r
        <5>1. r # NULL /\ r \notin Invokers
          BY <3>1, WrapperAssumption, PollerAssumption
        <5> QED BY <3>1, <4>2, <5>1 DEF QueueInv
      <4> QED BY <3>1, <3>3, <4>1, <4>2 DEF RequestOK
    <3> QED BY <2>2, <3>2, <3>3
  <2>4. ~aborted /\ accepted = Cardinality(held)
    BY <2>1 DEF AssertInv, RequestInv
  <2> QED BY <2>2, <2>3, <2>4 DEF AcceptedAccounted
<1> QED BY <1>1, <1>2, <1>3, PollerInvariant, PTL DEF Spec
=============================================================================
