---------------------------- MODULE UbusdTxProofs ----------------------------
(***************************************************************************)
(* Proofs about the transmit rings of ubusd, for any number of clients and *)
(* slots, any size of the socket's buffer and any message lengths.         *)
(***************************************************************************)
EXTENDS UbusdTx, FiniteSetTheorems, SequenceTheorems, TLAPS

-----------------------------------------------------------------------------
(* The ring *)

RingType ==
  /\ queue \in [Clients -> [SlotNos -> Entry \union {NULL}]]
  /\ cur \in [Clients -> SlotNos]
  /\ tail \in [Clients -> SlotNos]

\* RingShape with its witness: the length of the run is the number of used slots.
RingOf(c) ==
  /\ \A s \in SlotNos : queue[c][s] # NULL <=> Ahead(c, s) < Used(c)
  /\ Ahead(c, tail[c]) = IF Used(c) = Backlog THEN 0 ELSE Used(c)

RingInv == RingType /\ \A c \in Clients : RingOf(c)

\* The three things that happen to a ring.
Enqueued(c, e) ==
  /\ e \in Entry
  /\ queue[c][tail[c]] = NULL
  /\ queue' = [queue EXCEPT ![c][tail[c]] = e]
  /\ tail' = [tail EXCEPT ![c] = NextSlot(@)]
  /\ UNCHANGED cur

Dequeued(c) ==
  /\ queue[c][cur[c]] # NULL
  /\ queue' = [queue EXCEPT ![c][cur[c]] = NULL]
  /\ cur' = [cur EXCEPT ![c] = NextSlot(@)]
  /\ UNCHANGED tail

Cleared(c) ==
  /\ queue' = [queue EXCEPT ![c] = [s \in SlotNos |-> NULL]]
  /\ cur' = [cur EXCEPT ![c] = tail[c]]
  /\ UNCHANGED tail

\* The slot after a slot is one.
LEMMA NextSlotType == \A s \in SlotNos : NextSlot(s) \in SlotNos
BY TxAssumption DEF NextSlot, SlotNos

UsedSlots(c) == {s \in SlotNos : queue[c][s] # NULL}

\* A ring has at most Backlog used slots.
LEMMA UsedBound ==
  ASSUME NEW c
  PROVE  /\ Used(c) \in 0 .. Backlog
         /\ IsFiniteSet(UsedSlots(c))
         /\ Used(c) = Cardinality(UsedSlots(c))
<1>1. IsFiniteSet(SlotNos) /\ Cardinality(SlotNos) = Backlog
  <2>1. 0 \in Int /\ Backlog - 1 \in Int /\ ~(0 > Backlog - 1) /\ Backlog - 1 - 0 + 1 = Backlog
    BY TxAssumption
  <2> QED BY <2>1, FS_Interval DEF SlotNos
<1>2. UsedSlots(c) \in SUBSET SlotNos
  BY DEF UsedSlots
<1>3. IsFiniteSet(UsedSlots(c)) /\ Cardinality(UsedSlots(c)) <= Backlog
  BY <1>1, <1>2, FS_Subset
<1>4. Cardinality(UsedSlots(c)) \in Nat
  BY <1>3, FS_CardinalityType
<1>5. Used(c) = Cardinality(UsedSlots(c))
  BY DEF Used, UsedSlots
<1> QED BY <1>3, <1>4, <1>5, TxAssumption

\* What the other rings hold does not matter to this one.
LEMMA OtherRing ==
  ASSUME RingType, NEW d \in Clients, RingOf(d),
         queue'[d] = queue[d], cur'[d] = cur[d], tail'[d] = tail[d]
  PROVE  RingOf(d)' /\ Used(d)' = Used(d)
<1>1. Used(d)' = Used(d)
  BY DEF Used
<1>2. \A s \in SlotNos : Ahead(d, s)' = Ahead(d, s)
  BY DEF Ahead
<1> QED BY <1>1, <1>2 DEF RingOf, RingType

\* A message is put behind the last one.
LEMMA EnqueueRing ==
  ASSUME RingInv, NEW c \in Clients, NEW e, Enqueued(c, e)
  PROVE  RingInv' /\ Used(c)' = Used(c) + 1 /\ Used(c) < Backlog
         /\ Ahead(c, tail[c]) = Used(c)
<1> USE TxAssumption DEF RingInv
<1>1. RingType'
  BY NextSlotType DEF RingType, Enqueued
<1>2. /\ queue'[c] = [queue[c] EXCEPT ![tail[c]] = e] /\ e # NULL
      /\ tail'[c] = NextSlot(tail[c]) /\ cur'[c] = cur[c]
      /\ tail[c] \in SlotNos /\ cur[c] \in SlotNos
  BY DEF RingType, Enqueued
<1>3. UsedSlots(c)' = UsedSlots(c) \union {tail[c]} /\ tail[c] \notin UsedSlots(c)
  BY <1>2 DEF UsedSlots, RingType, Enqueued
<1>4. Used(c)' = Used(c) + 1
  <2>1. Cardinality(UsedSlots(c) \union {tail[c]}) = Cardinality(UsedSlots(c)) + 1
    BY <1>3, UsedBound, FS_AddElement
  <2>2. Used(c)' = Cardinality(UsedSlots(c)')
    BY DEF Used, UsedSlots
  <2> QED BY <1>3, <2>1, <2>2, UsedBound
<1>5. RingOf(c) /\ queue[c][tail[c]] = NULL
  BY DEF Enqueued
<1>6. Used(c) \in 0 .. Backlog
  BY UsedBound
<1>7. Used(c) < Backlog /\ Ahead(c, tail[c]) = Used(c)
  BY <1>2, <1>5, <1>6 DEF RingOf
<1>8. RingOf(c)'
  <2>1. \A s \in SlotNos : Ahead(c, s)' = Ahead(c, s)
    BY <1>2 DEF Ahead
  <2>2. \A s \in SlotNos : Ahead(c, s) = Ahead(c, tail[c]) => s = tail[c]
    BY <1>2 DEF Ahead, SlotNos
  <2>3. \A s \in SlotNos : Ahead(c, s) \in 0 .. Backlog - 1
    BY <1>2 DEF Ahead, SlotNos
  <2>4. \A s \in SlotNos : queue'[c][s] # NULL <=> s = tail[c] \/ queue[c][s] # NULL
    BY <1>2 DEF RingType
  <2>5. ASSUME NEW s \in SlotNos
        PROVE  queue'[c][s] # NULL <=> Ahead(c, s)' < Used(c)'
    BY <1>4, <1>5, <1>6, <1>7, <2>1, <2>2, <2>3, <2>4 DEF RingOf
  <2>6. Ahead(c, NextSlot(tail[c])) = IF Ahead(c, tail[c]) = Backlog - 1 THEN 0
                                      ELSE Ahead(c, tail[c]) + 1
    BY <1>2 DEF Ahead, SlotNos, NextSlot
  <2>7. NextSlot(tail[c]) \in SlotNos
    BY <1>2, NextSlotType
  <2>8. Ahead(c, tail[c])' = IF Used(c)' = Backlog THEN 0 ELSE Used(c)'
    BY <1>2, <1>4, <1>6, <1>7, <2>1, <2>6, <2>7 DEF Ahead
  <2> QED BY <2>5, <2>8 DEF RingOf
<1>9. \A d \in Clients \ {c} : RingOf(d)'
  BY OtherRing DEF RingType, Enqueued
<1> QED BY <1>1, <1>4, <1>7, <1>8, <1>9

\* The oldest message is taken away.
LEMMA DequeueRing ==
  ASSUME RingInv, NEW c \in Clients, Dequeued(c)
  PROVE  RingInv' /\ Used(c)' = Used(c) - 1
<1> USE TxAssumption DEF RingInv
<1>1. RingType'
  BY NextSlotType DEF RingType, Dequeued
<1>2. /\ queue'[c] = [queue[c] EXCEPT ![cur[c]] = NULL]
      /\ cur'[c] = NextSlot(cur[c]) /\ tail'[c] = tail[c]
      /\ tail[c] \in SlotNos /\ cur[c] \in SlotNos /\ cur'[c] \in SlotNos
  BY <1>1 DEF RingType, Dequeued
<1>3. UsedSlots(c)' = UsedSlots(c) \ {cur[c]} /\ cur[c] \in UsedSlots(c)
  BY <1>2 DEF UsedSlots, RingType, Dequeued
<1>4. Used(c)' = Used(c) - 1
  <2>1. Cardinality(UsedSlots(c) \ {cur[c]}) = Cardinality(UsedSlots(c)) - 1
    BY <1>3, UsedBound, FS_RemoveElement
  <2>2. Used(c)' = Cardinality(UsedSlots(c)')
    BY DEF Used, UsedSlots
  <2> QED BY <1>3, <2>1, <2>2, UsedBound
<1>5. RingOf(c) /\ queue[c][cur[c]] # NULL
  BY DEF Dequeued
<1>6. Used(c) \in 0 .. Backlog
  BY UsedBound
<1>7. Ahead(c, cur[c]) = 0 /\ 0 < Used(c)
  BY <1>2, <1>5 DEF RingOf, Ahead, SlotNos
<1>8. RingOf(c)'
  <2>1. \A s \in SlotNos : Ahead(c, s)' = IF s = cur[c] THEN Backlog - 1
                                          ELSE Ahead(c, s) - 1
    BY <1>2 DEF Ahead, SlotNos, NextSlot
  <2>2. \A s \in SlotNos : Ahead(c, s) \in 0 .. Backlog - 1
    BY <1>2 DEF Ahead, SlotNos
  <2>3. \A s \in SlotNos : queue'[c][s] # NULL <=> s # cur[c] /\ queue[c][s] # NULL
    BY <1>2 DEF RingType
  <2>4. ASSUME NEW s \in SlotNos
        PROVE  queue'[c][s] # NULL <=> Ahead(c, s)' < Used(c)'
    BY <1>4, <1>5, <1>6, <2>1, <2>2, <2>3 DEF RingOf
  <2>5. Ahead(c, tail[c])' = IF tail[c] = cur[c] THEN Backlog - 1
                             ELSE Ahead(c, tail[c]) - 1
    BY <1>2, <2>1 DEF Ahead
  <2>6. tail[c] # cur[c] => Ahead(c, tail[c]) > 0
    BY <1>2 DEF Ahead, SlotNos
  <2>7. Ahead(c, tail[c])' = IF Used(c)' = Backlog THEN 0 ELSE Used(c)'
    BY <1>2, <1>4, <1>5, <1>6, <1>7, <2>2, <2>5, <2>6 DEF RingOf
  <2> QED BY <2>4, <2>7 DEF RingOf
<1>9. \A d \in Clients \ {c} : RingOf(d)'
  BY OtherRing DEF RingType, Dequeued
<1> QED BY <1>1, <1>4, <1>8, <1>9

\* A ring is emptied.
LEMMA ClearRing ==
  ASSUME RingInv, NEW c \in Clients, Cleared(c)
  PROVE  RingInv' /\ Used(c)' = 0
<1> USE TxAssumption DEF RingInv
<1>1. RingType'
  BY DEF RingType, Cleared
<1>2. /\ queue'[c] = [s \in SlotNos |-> NULL]
      /\ cur'[c] = tail[c] /\ tail'[c] = tail[c] /\ tail[c] \in SlotNos
  BY DEF RingType, Cleared
<1>3. Used(c)' = 0
  <2>1. UsedSlots(c)' = {}
    BY <1>2 DEF UsedSlots
  <2>2. Used(c)' = Cardinality(UsedSlots(c)')
    BY DEF Used, UsedSlots
  <2> QED BY <2>1, <2>2, FS_EmptySet
<1>4. \A s \in SlotNos : Ahead(c, s)' \in Nat
  BY <1>2 DEF Ahead, SlotNos
<1>5. Ahead(c, tail[c])' = 0
  BY <1>2 DEF Ahead, SlotNos
<1>6. RingOf(c)'
  BY <1>2, <1>3, <1>4, <1>5 DEF RingOf
<1>7. \A d \in Clients \ {c} : RingOf(d)'
  BY OtherRing DEF RingType, Cleared
<1> QED BY <1>1, <1>3, <1>6, <1>7

\* Nothing happens to the rings.
LEMMA SameRings ==
  ASSUME RingInv, UNCHANGED <<queue, cur, tail>>
  PROVE  RingInv' /\ \A c \in Clients : Used(c)' = Used(c)
BY OtherRing DEF RingInv, RingType

-----------------------------------------------------------------------------
(* The steps *)

\* retmsg is never freed and never grows; a buffer has the number of a message
\* that was sent.
BufInv ==
  /\ Retmsg \in DOMAIN buf /\ buf[Retmsg].len = 1
  /\ \A b \in DOMAIN buf : b < next

\* A callback belongs to a client that is not freed.
CbInv == mode # "idle" => who \in Clients \ gone

\* The heap but for what is written in retmsg.
SameHeap ==
  /\ DOMAIN buf' = DOMAIN buf
  /\ \A x \in DOMAIN buf \ {Retmsg} : buf'[x] = buf[x]
  /\ buf'[Retmsg] \in Buffer
  /\ buf'[Retmsg].ref = buf[Retmsg].ref
  /\ buf'[Retmsg].len = buf[Retmsg].len

\* The heap with one reference more, to buffer b, for a message like v.
KeptHeap(b, kind, v) ==
  /\ DOMAIN buf' = DOMAIN buf \union {b}
  /\ \A x \in DOMAIN buf \ {b} : buf'[x] = buf[x]
  /\ buf'[b] \in Buffer
  /\ buf'[b].ref = 1 + (IF b \in DOMAIN buf THEN buf[b].ref ELSE 0)
  /\ buf'[b].len = v.len
  /\ buf'[b].data = next
  /\ kind = "owned" => buf'[b].hdr = next

\* The message in b is put in the ring, or dropped for want of a slot.
QueuedOrDropped(c, kind, v, b) ==
  \/ /\ Enqueued(c, [b |-> b, n |-> next, kind |-> kind])
     /\ KeptHeap(b, kind, v)
  \/ /\ queue[c][tail[c]] # NULL
     /\ UNCHANGED <<queue, cur, tail>>
     /\ SameHeap

\* The socket takes k units of v.
Written(c, kind, v, k) == Take(c, UnitsFrom(v, next, kind, 0), k)

\* What sending a message comes to, whoever sends it.
Sent(c, kind, v, b) ==
  /\ next \in Msgs /\ next' = next + 1 /\ lastTo' = c
  /\ mode # "flush" /\ c \notin gone
  /\ UNCHANGED <<mode, who, wrEvent, gone>>
  /\ v.hdr = next /\ v.data = next
  /\ b = IF kind = "reply" THEN Retmsg ELSE next
  /\ b \in DOMAIN buf => v.len = buf[b].len
  /\ \/ /\ ubus_msg_head(c) = NULL
        /\ \/ Room(c) = 0 /\ Written(c, kind, v, 0)
           \/ Room(c) >= v.len + 1 /\ Written(c, kind, v, v.len + 1)
        /\ SameHeap
        /\ UNCHANGED <<queue, cur, tail, ofs, armed, event>>
     \/ /\ ubus_msg_head(c) = NULL
        /\ 0 < Room(c) /\ Room(c) < v.len + 1
        /\ Written(c, kind, v, Room(c))
        /\ ofs' = [ofs EXCEPT ![c] = Room(c)]
        /\ ArmWrite(c)
        /\ QueuedOrDropped(c, kind, v, b)
     \/ /\ ubus_msg_head(c) # NULL
        /\ QueuedOrDropped(c, kind, v, b)
        /\ UNCHANGED <<ofs, wire, unread, armed, event>>

\* The heap of each of the three senders, with and without the ring's reference.
LEMMA SendForm ==
  ASSUME NEW c \in Clients, NEW kind \in Kinds, NEW v \in Buffer, NEW b \in Bufs,
         NEW kept, NEW dropped, MaySend(c),
         ubus_msg_send(c, kind, v, b, kept, dropped), TypeOK,
         UNCHANGED <<cur, cbVars, gone>>,
         v.hdr = next, v.data = next, b = IF kind = "reply" THEN Retmsg ELSE next,
         b \in DOMAIN buf => v.len = buf[b].len,
         buf' = kept => KeptHeap(b, kind, v), buf' = dropped => SameHeap
  PROVE  Sent(c, kind, v, b)
<1>1. next \in Msgs /\ [b |-> b, n |-> next, kind |-> kind] \in Entry
  BY TxAssumption DEF TypeOK, MaySend, Msgs, Entry
<1>2. ubus_msg_enqueue(c, kind, b, kept, dropped) => QueuedOrDropped(c, kind, v, b)
  BY <1>1 DEF ubus_msg_enqueue, QueuedOrDropped, Enqueued
<1> QED BY <1>1, <1>2 DEF ubus_msg_send, Sent, MaySend, Written, cbVars

LEMMA SendForms ==
  ASSUME TypeOK, BufInv, NEW c \in Clients,
         SendShared(c) \/ SendOwned(c) \/ Reply(c)
  PROVE  \E kind \in Kinds, v \in Buffer, b \in Bufs : Sent(c, kind, v, b)
<1>0. next \in Msgs /\ next \notin DOMAIN buf /\ next # Retmsg /\ next \in Nat
  BY TxAssumption DEF TypeOK, BufInv, MaySend, Msgs, SendShared, SendOwned, Reply, Retmsg, Bufs
<1>1. ASSUME NEW len \in DataSizes
      PROVE  Fresh(next, len) \in Buffer /\ next \in Bufs
  BY <1>0, TxAssumption DEF Fresh, Buffer, Bufs
<1>2. CASE SendShared(c)
  <2>1. PICK len \in DataSizes :
          ubus_msg_send(c, "shared", Fresh(next, len), next,
                        With(buf, next, CopyOf(Fresh(next, len))), buf)
    BY <1>2 DEF SendShared
  <2>2. buf' = With(buf, next, CopyOf(Fresh(next, len))) =>
          KeptHeap(next, "shared", Fresh(next, len))
    <3> DEFINE copy == CopyOf(Fresh(next, len))
    <3>1. Fresh(next, len).data = next /\ Fresh(next, len).len = len
      BY DEF Fresh
    <3>2. copy \in Buffer /\ copy.ref = 1 /\ copy.data = next /\ copy.len = len
      BY <1>1, <3>1 DEF Buffer, CopyOf
    <3> HIDE DEF copy
    <3>3. buf' = With(buf, next, copy) => KeptHeap(next, "shared", Fresh(next, len))
      BY <1>0, <3>1, <3>2 DEF With, KeptHeap
    <3> QED BY <3>3 DEF copy
  <2>3. buf' = buf => SameHeap
    BY DEF SameHeap, BufInv, TypeOK
  <2>4. Sent(c, "shared", Fresh(next, len), next)
    BY <1>0, <1>1, <1>2, <2>1, <2>2, <2>3, SendForm DEF SendShared, Kinds, Fresh
  <2> QED BY <1>1, <2>4 DEF Kinds
<1>3. CASE SendOwned(c)
  <2>1. PICK len \in DataSizes :
          LET made == With(buf, next, Fresh(next, len))
          IN  ubus_msg_send(c, "owned", Fresh(next, len), next,
                            ubus_msg_free(Ref(made, next), next),
                            ubus_msg_free(made, next))
    BY <1>3 DEF SendOwned
  <2> DEFINE made == With(buf, next, Fresh(next, len))
  <2>2. /\ DOMAIN made = DOMAIN buf \union {next}
        /\ made[next] = Fresh(next, len)
        /\ \A x \in DOMAIN buf : made[x] = buf[x]
    BY <1>0 DEF With
  <2> HIDE DEF made
  <2>3. buf' = ubus_msg_free(Ref(made, next), next) =>
          KeptHeap(next, "owned", Fresh(next, len))
    BY <1>0, <1>1, <2>2, TxAssumption DEF ubus_msg_free, Ref, Fresh, KeptHeap, Buffer
  <2>4. buf' = ubus_msg_free(made, next) => SameHeap
    <3>1. made[next].ref = 1
      BY <2>2 DEF Fresh
    <3>2. ubus_msg_free(made, next) = [x \in DOMAIN buf |-> buf[x]]
      BY <1>0, <2>2, <3>1 DEF ubus_msg_free, Without
    <3> QED BY <3>2 DEF SameHeap, BufInv, TypeOK
  <2>5. Sent(c, "owned", Fresh(next, len), next)
    BY <1>0, <1>1, <1>3, <2>1, <2>3, <2>4, SendForm DEF SendOwned, Kinds, Fresh, made
  <2> QED BY <1>1, <2>5 DEF Kinds
<1>4. CASE Reply(c)
  <2> DEFINE filled == [buf EXCEPT ![Retmsg].hdr = next, ![Retmsg].data = next]
  <2>1. ubus_msg_send(c, "reply", filled[Retmsg], Retmsg, Ref(filled, Retmsg), filled)
    BY <1>4 DEF Reply
  <2>2. /\ DOMAIN filled = DOMAIN buf
        /\ filled[Retmsg] \in Buffer /\ filled[Retmsg].hdr = next
        /\ filled[Retmsg].data = next /\ filled[Retmsg].len = buf[Retmsg].len
        /\ filled[Retmsg].ref = buf[Retmsg].ref
        /\ \A x \in DOMAIN buf \ {Retmsg} : filled[x] = buf[x]
    BY <1>0 DEF TypeOK, BufInv, Buffer
  <2> HIDE DEF filled
  <2>3. buf' = Ref(filled, Retmsg) => KeptHeap(Retmsg, "reply", filled[Retmsg])
    <3> SUFFICES ASSUME buf' = Ref(filled, Retmsg)
                 PROVE  KeptHeap(Retmsg, "reply", filled[Retmsg])
      OBVIOUS
    <3>1. /\ DOMAIN buf' = DOMAIN buf /\ Retmsg \in DOMAIN buf
          /\ \A x \in DOMAIN buf \ {Retmsg} : buf'[x] = buf[x]
          /\ buf'[Retmsg] = [filled[Retmsg] EXCEPT !.ref = @ + 1]
      BY <2>2 DEF Ref, BufInv
    <3>2. /\ buf'[Retmsg] \in Buffer /\ buf'[Retmsg].ref = 1 + buf[Retmsg].ref
          /\ buf'[Retmsg].len = filled[Retmsg].len
          /\ buf'[Retmsg].data = next
      BY <2>2, <3>1 DEF Buffer
    <3> QED BY <3>1, <3>2 DEF KeptHeap
  <2>4. buf' = filled => SameHeap
    BY <2>2 DEF SameHeap
  <2>5. Retmsg \in Bufs
    BY DEF Bufs
  <2>6. Sent(c, "reply", filled[Retmsg], Retmsg)
    BY <1>4, <2>1, <2>2, <2>3, <2>4, <2>5, SendForm DEF Reply, Kinds
  <2> QED BY <2>2, <2>5, <2>6 DEF Kinds
<1> QED BY <1>2, <1>3, <1>4

\* What a step does to the rings: the same as what UbusdTxFifo allows.
LEMMA RingSteps ==
  ASSUME TypeOK, BufInv, CbInv, Next
  PROVE  \/ \E c \in Clients, e \in Entry :
              Enqueued(c, e) /\ e.n = next /\ next' = next + 1
         \/ \E c \in Clients : Dequeued(c) /\ UNCHANGED next
         \/ \E c \in Clients : Cleared(c) /\ UNCHANGED next
         \/ /\ UNCHANGED <<queue, cur, tail>>
            /\ \/ UNCHANGED next
               \/ /\ next' = next + 1
                  /\ \E c \in Clients : \/ queue[c][cur[c]] = NULL
                                        \/ queue[c][tail[c]] # NULL
<1>1. ASSUME NEW c \in Clients, SendShared(c) \/ SendOwned(c) \/ Reply(c)
      PROVE  \/ \E e \in Entry : Enqueued(c, e) /\ e.n = next /\ next' = next + 1
             \/ /\ UNCHANGED <<queue, cur, tail>> /\ next' = next + 1
                /\ queue[c][cur[c]] = NULL \/ queue[c][tail[c]] # NULL
  <2>1. PICK kind \in Kinds, v \in Buffer, b \in Bufs : Sent(c, kind, v, b)
    BY <1>1, SendForms
  <2> DEFINE e == [b |-> b, n |-> next, kind |-> kind]
  <2>2. e \in Entry /\ e.n = next
    BY <2>1 DEF Sent, Entry
  <2>3. next' = next + 1
    BY <2>1 DEF Sent
  <2>4. QueuedOrDropped(c, kind, v, b) =>
          \/ Enqueued(c, e)
          \/ UNCHANGED <<queue, cur, tail>> /\ queue[c][tail[c]] # NULL
    BY DEF QueuedOrDropped
  <2>5. \/ QueuedOrDropped(c, kind, v, b)
        \/ UNCHANGED <<queue, cur, tail>> /\ queue[c][cur[c]] = NULL
    BY <2>1 DEF Sent, ubus_msg_head
  <2> HIDE DEF e
  <2> QED BY <2>2, <2>3, <2>4, <2>5
<1>2. ASSUME NEW c \in Clients, (\E write \in BOOLEAN : ClientCb(c, write)) \/ ClientReads(c)
      PROVE  UNCHANGED <<queue, cur, tail, next>>
  BY <1>2 DEF ClientCb, ClientReads, ringVars
<1>3. ASSUME NEW c \in Clients, Disconnect(c)
      PROVE  Cleared(c) /\ UNCHANGED next
  BY <1>3 DEF Disconnect, Cleared
<1>4. CASE NoReply \/ FlushEnd \/ ClientFreed
  BY <1>4 DEF NoReply, FlushEnd, ClientFreed, ringVars
<1>5. CASE FlushHead
  <2>1. who \in Clients
    BY <1>5 DEF FlushHead, CbInv
  <2>2. \/ Dequeued(who) /\ UNCHANGED next
        \/ UNCHANGED <<queue, cur, tail, next>>
    BY <1>5 DEF FlushHead, ubus_msg_dequeue, Dequeued, ubus_msg_head
  <2> QED BY <2>1, <2>2
<1> QED BY <1>1, <1>2, <1>3, <1>4, <1>5 DEF Next

\* Whatever the daemon does, every ring keeps its shape.
LEMMA NextRing ==
  ASSUME TypeOK, BufInv, CbInv, RingInv, [Next]_vars
  PROVE  RingInv'
<1>1. CASE Next
  BY <1>1, RingSteps, EnqueueRing, DequeueRing, ClearRing, SameRings
<1>2. CASE UNCHANGED vars
  BY <1>2, SameRings DEF vars
<1> QED BY <1>1, <1>2

-----------------------------------------------------------------------------
(* The heap *)

HeapType ==
  /\ DOMAIN buf \subseteq Bufs
  /\ \A b \in DOMAIN buf : buf[b] \in Buffer
  /\ next \in Nat

\* What a ring says of a message agrees with its buffer: only replies share
\* retmsg, and the others find there what they were sent with, except for the
\* header of one that borrowed the blob.
EntryOK(e) ==
  /\ e.b \in DOMAIN buf /\ e.n < next
  /\ e.b = IF e.kind = "reply" THEN Retmsg ELSE e.n
  /\ e.kind # "reply" => buf[e.b].data = e.n
  /\ e.kind = "owned" => buf[e.b].hdr = e.n

EntryInv ==
  \A c \in Clients, s \in SlotNos : queue[c][s] # NULL => EntryOK(queue[c][s])

HeapInv == HeapType /\ BufInv /\ EntryInv /\ RefsCounted

\* There are finitely many slots, and so finitely many references.
LEMMA SlotsFinite ==
  ASSUME NEW S, S \subseteq Clients \X SlotNos
  PROVE  IsFiniteSet(S) /\ Cardinality(S) \in Nat
<1>1. IsFiniteSet(SlotNos)
  BY TxAssumption, FS_Interval DEF SlotNos
<1>2. IsFiniteSet(Clients \X SlotNos)
  BY <1>1, TxAssumption, FS_Product
<1> QED BY <1>2, FS_Subset, FS_CardinalityType

\* The references of the rings are finitely many, before and after a step.
LEMMA HoldersFinite ==
  ASSUME NEW b
  PROVE  /\ IsFiniteSet(Holders(b)) /\ Cardinality(Holders(b)) \in Nat
         /\ IsFiniteSet(Holders(b)') /\ Cardinality(Holders(b)') \in Nat
<1>1. Holders(b) \subseteq Clients \X SlotNos /\ Holders(b)' \subseteq Clients \X SlotNos
  BY DEF Holders
<1> QED BY <1>1, SlotsFinite

\* Whether a slot holds a buffer.
LEMMA HoldersMember ==
  ASSUME NEW b, NEW c \in Clients, NEW s \in SlotNos
  PROVE  <<c, s>> \in Holders(b) <=> queue[c][s] # NULL /\ queue[c][s].b = b
BY DEF Holders, HeldBy

\* A queued message is one more reference to its buffer.
LEMMA EnqueueHolders ==
  ASSUME RingType, NEW c \in Clients, NEW e, Enqueued(c, e), NEW b
  PROVE  Cardinality(Holders(b)') =
           Cardinality(Holders(b)) + (IF b = e.b THEN 1 ELSE 0)
<1>1. /\ tail[c] \in SlotNos /\ e # NULL
      /\ \A d \in Clients, s \in SlotNos :
           queue'[d][s] = IF d = c /\ s = tail[c] THEN e ELSE queue[d][s]
  BY TxAssumption DEF RingType, Enqueued
<1>2. <<c, tail[c]>> \notin Holders(b)
  BY <1>1, HoldersMember DEF Enqueued
<1>3. Holders(b)' = IF b = e.b THEN Holders(b) \union {<<c, tail[c]>>} ELSE Holders(b)
  <2>1. \A p \in Clients \X SlotNos :
          p \in Holders(b)' <=> p \in Holders(b) \/ (p = <<c, tail[c]>> /\ b = e.b)
    <3> SUFFICES ASSUME NEW d \in Clients, NEW s \in SlotNos
                 PROVE  <<d, s>> \in Holders(b)' <=>
                          \/ <<d, s>> \in Holders(b)
                          \/ <<d, s>> = <<c, tail[c]>> /\ b = e.b
      OBVIOUS
    <3>1. <<d, s>> \in Holders(b)' <=> queue'[d][s] # NULL /\ queue'[d][s].b = b
      BY DEF Holders, HeldBy
    <3>2. <<d, s>> \in Holders(b) <=> queue[d][s] # NULL /\ queue[d][s].b = b
      BY HoldersMember
    <3>3. CASE d = c /\ s = tail[c]
      <4>1. queue'[d][s] = e /\ queue[d][s] = NULL
        BY <1>1, <3>3 DEF Enqueued
      <4>2. <<d, s>> = <<c, tail[c]>>
        BY <3>3
      <4> QED BY <1>1, <3>1, <3>2, <4>1, <4>2
    <3>4. CASE ~(d = c /\ s = tail[c])
      BY <1>1, <3>1, <3>2, <3>4
    <3> QED BY <3>3, <3>4
  <2>2. /\ Holders(b)' \subseteq Clients \X SlotNos
        /\ Holders(b) \subseteq Clients \X SlotNos
        /\ <<c, tail[c]>> \in Clients \X SlotNos
    BY <1>1 DEF Holders
  <2> QED BY <2>1, <2>2
<1>4. IsFiniteSet(Holders(b)) /\ Cardinality(Holders(b)) \in Nat
  BY HoldersFinite
<1>5. Cardinality(Holders(b) \union {<<c, tail[c]>>}) = Cardinality(Holders(b)) + 1
  BY <1>2, <1>4, FS_AddElement
<1> QED BY <1>3, <1>4, <1>5

\* A message taken away is one reference less to its buffer.
LEMMA DequeueHolders ==
  ASSUME RingType, NEW c \in Clients, Dequeued(c), NEW b
  PROVE  Cardinality(Holders(b)') =
           Cardinality(Holders(b)) - (IF b = ubus_msg_head(c).b THEN 1 ELSE 0)
<1> DEFINE p0 == <<c, cur[c]>>
<1>1. /\ cur[c] \in SlotNos
      /\ \A d \in Clients, s \in SlotNos :
           queue'[d][s] = IF d = c /\ s = cur[c] THEN NULL ELSE queue[d][s]
  BY DEF RingType, Dequeued
<1>2. p0 \in Holders(b) <=> b = ubus_msg_head(c).b
  BY <1>1, HoldersMember DEF Dequeued, ubus_msg_head
<1>3. Holders(b)' = Holders(b) \ {p0}
  <2>1. \A p \in Clients \X SlotNos :
          p \in Holders(b)' <=> p \in Holders(b) /\ p # p0
    <3> SUFFICES ASSUME NEW d \in Clients, NEW s \in SlotNos
                 PROVE  <<d, s>> \in Holders(b)' <=>
                          <<d, s>> \in Holders(b) /\ <<d, s>> # p0
      OBVIOUS
    <3>1. <<d, s>> \in Holders(b)' <=> queue'[d][s] # NULL /\ queue'[d][s].b = b
      BY DEF Holders, HeldBy
    <3>2. <<d, s>> \in Holders(b) <=> queue[d][s] # NULL /\ queue[d][s].b = b
      BY HoldersMember
    <3>3. <<d, s>> = p0 <=> d = c /\ s = cur[c]
      OBVIOUS
    <3> HIDE DEF p0
    <3>4. CASE d = c /\ s = cur[c]
      BY <1>1, <3>1, <3>3, <3>4
    <3>5. CASE ~(d = c /\ s = cur[c])
      BY <1>1, <3>1, <3>2, <3>3, <3>5
    <3> QED BY <3>4, <3>5
  <2>2. /\ Holders(b)' \subseteq Clients \X SlotNos
        /\ Holders(b) \subseteq Clients \X SlotNos
    BY <1>1 DEF Holders
  <2> QED BY <2>1, <2>2
<1>4. IsFiniteSet(Holders(b)) /\ Cardinality(Holders(b)) \in Nat
  BY HoldersFinite
<1> HIDE DEF p0
<1>5. p0 \in Holders(b) => Cardinality(Holders(b) \ {p0}) = Cardinality(Holders(b)) - 1
  BY <1>4, FS_RemoveElement
<1>6. p0 \notin Holders(b) => Holders(b) \ {p0} = Holders(b)
  OBVIOUS
<1>7. CASE b = ubus_msg_head(c).b
  BY <1>2, <1>3, <1>5, <1>7
<1>8. CASE b # ubus_msg_head(c).b
  <2>1. Cardinality(Holders(b)') = Cardinality(Holders(b))
    BY <1>2, <1>3, <1>6, <1>8
  <2> QED BY <1>4, <1>8, <2>1
<1> QED BY <1>7, <1>8

\* An emptied ring gives back all its references.
LEMMA ClearHolders ==
  ASSUME RingType, NEW c \in Clients, Cleared(c), NEW b
  PROVE  /\ Cardinality(Holders(b)') = Cardinality(Holders(b)) - Cardinality(HeldBy(c, b))
         /\ Cardinality(HeldBy(c, b)) \in 0 .. Cardinality(Holders(b))
<1> DEFINE mine == {c} \X HeldBy(c, b)
<1>1. \A d \in Clients, s \in SlotNos :
        queue'[d][s] = IF d = c THEN NULL ELSE queue[d][s]
  BY DEF RingType, Cleared
<1>2. mine \subseteq Holders(b)
  BY DEF Holders, HeldBy
<1>3. Holders(b)' = Holders(b) \ mine
  <2>1. \A p \in Clients \X SlotNos :
          p \in Holders(b)' <=> p \in Holders(b) /\ p \notin mine
    <3> SUFFICES ASSUME NEW d \in Clients, NEW s \in SlotNos
                 PROVE  <<d, s>> \in Holders(b)' <=>
                          <<d, s>> \in Holders(b) /\ <<d, s>> \notin mine
      OBVIOUS
    <3>1. <<d, s>> \in Holders(b)' <=> queue'[d][s] # NULL /\ queue'[d][s].b = b
      BY DEF Holders, HeldBy
    <3>2. <<d, s>> \in Holders(b) <=> queue[d][s] # NULL /\ queue[d][s].b = b
      BY HoldersMember
    <3>3. <<d, s>> \in mine <=> d = c /\ queue[d][s] # NULL /\ queue[d][s].b = b
      BY DEF HeldBy
    <3> QED BY <1>1, <3>1, <3>2, <3>3
  <2>2. /\ Holders(b)' \subseteq Clients \X SlotNos
        /\ Holders(b) \subseteq Clients \X SlotNos
    BY DEF Holders
  <2> QED BY <2>1, <2>2
<1>4. IsFiniteSet(Holders(b)) /\ Cardinality(Holders(b)) \in Nat
  BY HoldersFinite
<1>5. /\ IsFiniteSet(HeldBy(c, b)) /\ IsFiniteSet({c})
      /\ Cardinality({c}) = 1 /\ Cardinality(HeldBy(c, b)) \in Nat
  <2>1. IsFiniteSet(SlotNos)
    BY TxAssumption, FS_Interval DEF SlotNos
  <2>2. HeldBy(c, b) \in SUBSET SlotNos
    BY DEF HeldBy
  <2> QED BY <2>1, <2>2, FS_Subset, FS_CardinalityType, FS_Singleton
<1>6. Cardinality(mine) = Cardinality(HeldBy(c, b))
  <2>1. Cardinality(mine) = Cardinality({c}) * Cardinality(HeldBy(c, b))
    BY <1>5, FS_Product
  <2> QED BY <1>5, <2>1
<1> HIDE DEF mine
<1>7. Cardinality(Holders(b) \ mine) = Cardinality(Holders(b)) - Cardinality(Holders(b) \cap mine)
  BY <1>4, FS_Difference
<1>8. Holders(b) \cap mine = mine
  BY <1>2
<1>9. Cardinality(mine) <= Cardinality(Holders(b))
  BY <1>2, <1>4, FS_Subset
<1> QED BY <1>3, <1>4, <1>5, <1>6, <1>7, <1>8, <1>9

\* The references do not change with the rings.
LEMMA SameHolders ==
  ASSUME UNCHANGED queue, NEW b
  PROVE  Holders(b)' = Holders(b)
BY DEF Holders, HeldBy

\* Every count is right after a message is queued.
LEMMA KeepHeap ==
  ASSUME RingType, HeapInv, NEW c \in Clients, NEW kind \in Kinds, NEW v,
         NEW b \in Bufs, next \in Msgs, next' = next + 1,
         b = IF kind = "reply" THEN Retmsg ELSE next,
         b \in DOMAIN buf => v.len = buf[b].len,
         Enqueued(c, [b |-> b, n |-> next, kind |-> kind]), KeptHeap(b, kind, v)
  PROVE  HeapInv'
<1> DEFINE e == [b |-> b, n |-> next, kind |-> kind]
<1>0. e.b = b /\ e.n = next /\ e.kind = kind
  OBVIOUS
<1>1. Enqueued(c, e)
  OBVIOUS
<1> HIDE DEF e
<1>2. next \in Nat /\ next \notin DOMAIN buf /\ next # Retmsg /\ Retmsg \in DOMAIN buf
      /\ 0 < next
  BY DEF HeapInv, HeapType, BufInv, Retmsg, Msgs
<1>3. HeapType'
  BY <1>2 DEF HeapInv, HeapType, KeptHeap
<1>4. BufInv'
  BY <1>2 DEF HeapInv, HeapType, BufInv, KeptHeap, Retmsg, Bufs, Msgs
<1>5. \A d \in Clients, s \in SlotNos :
           queue'[d][s] = IF d = c /\ s = tail[c] THEN e ELSE queue[d][s]
  BY <1>1 DEF RingType, Enqueued
<1>6. EntryInv'
  <2> SUFFICES ASSUME NEW d \in Clients, NEW s \in SlotNos, queue'[d][s] # NULL
               PROVE  EntryOK(queue[d][s])'
    BY DEF EntryInv
  <2>1. CASE d = c /\ s = tail[c]
    <3>1. queue'[d][s] = e
      BY <1>5, <2>1
    <3> QED BY <1>0, <1>2, <3>1 DEF EntryOK, KeptHeap
  <2>2. CASE ~(d = c /\ s = tail[c])
    <3>1. queue'[d][s] = queue[d][s] /\ EntryOK(queue[d][s])
      BY <1>5, <2>2 DEF HeapInv, EntryInv
    <3> DEFINE f == queue[d][s]
    <3>2. f \in Entry
      BY <2>2, <3>1 DEF RingType
    <3> HIDE DEF f
    <3>3. EntryOK(f)
      BY <3>1 DEF f
    <3>4. f.n \in Nat
      BY <3>2 DEF Entry, Msgs
    <3>5. /\ f.b \in DOMAIN buf' /\ f.n < next'
          /\ f.b = IF f.kind = "reply" THEN Retmsg ELSE f.n
      BY <1>2, <3>3, <3>4 DEF EntryOK, KeptHeap
    <3>6. f.kind # "reply" => buf'[f.b] = buf[f.b]
      <4>1. f.kind # "reply" => f.b = f.n /\ f.n # 0 /\ f.n < next /\ f.b \in DOMAIN buf
        BY <3>2, <3>3 DEF EntryOK, Entry, Msgs
      <4>2. f.kind # "reply" => f.b # b
        BY <1>2, <3>4, <4>1 DEF Retmsg
      <4> QED BY <4>1, <4>2 DEF KeptHeap
    <3>7. /\ f.kind # "reply" => buf'[f.b].data = f.n
          /\ f.kind = "owned" => buf'[f.b].hdr = f.n
      BY <3>3, <3>6 DEF EntryOK
    <3>8. f = queue'[d][s]
      BY <3>1 DEF f
    <3> QED BY <3>5, <3>7, <3>8 DEF EntryOK
  <2> QED BY <2>1, <2>2
<1>7. RefsCounted'
  <2>1. \A d \in Clients, s \in SlotNos :
          queue'[d][s] # NULL => queue'[d][s].b \in DOMAIN buf'
    BY <1>6 DEF EntryInv, EntryOK
  <2>2. ASSUME NEW x \in DOMAIN buf'
        PROVE  buf'[x].ref = Cardinality(Holders(x)') + (IF x = Retmsg THEN 1 ELSE 0)
    <3>1. Cardinality(Holders(x)') = Cardinality(Holders(x)) + (IF x = b THEN 1 ELSE 0)
      BY <1>0, <1>1, EnqueueHolders
    <3>2. Cardinality(Holders(x)) \in Nat
      BY HoldersFinite
    <3>3. x \in DOMAIN buf =>
            buf[x].ref = Cardinality(Holders(x)) + (IF x = Retmsg THEN 1 ELSE 0)
      BY DEF HeapInv, RefsCounted
    <3>4. CASE x \in DOMAIN buf
      BY <3>1, <3>2, <3>3, <3>4 DEF KeptHeap
    <3>5. CASE x \notin DOMAIN buf
      <4>1. x = b /\ x = next /\ buf'[x].ref = 1
        BY <1>2, <3>5 DEF KeptHeap
      <4>2. Holders(x) = {}
        <5> SUFFICES ASSUME NEW p \in Holders(x) PROVE FALSE
          OBVIOUS
        <5>1. /\ p[1] \in Clients /\ p[2] \in SlotNos
              /\ queue[p[1]][p[2]] # NULL /\ queue[p[1]][p[2]].b = x
          BY DEF Holders, HeldBy
        <5> QED BY <3>5, <5>1 DEF HeapInv, RefsCounted
      <4>3. Cardinality(Holders(x)) = 0
        BY <4>2, FS_EmptySet
      <4> QED BY <1>2, <3>1, <4>1, <4>3
    <3> QED BY <3>4, <3>5
  <2> QED BY <2>1, <2>2 DEF RefsCounted
<1> QED BY <1>3, <1>4, <1>6, <1>7 DEF HeapInv

\* Every count stays right while only retmsg is written.
LEMMA SameHeapInv ==
  ASSUME RingType, HeapInv, SameHeap, UNCHANGED queue, next' \in Nat, next' >= next
  PROVE  HeapInv'
<1>1. HeapType'
  BY DEF HeapInv, HeapType, SameHeap, BufInv
<1>2. BufInv'
  BY DEF HeapInv, HeapType, SameHeap, BufInv, Bufs, Msgs, Retmsg
<1>3. EntryInv'
  <2> SUFFICES ASSUME NEW d \in Clients, NEW s \in SlotNos, queue[d][s] # NULL
               PROVE  EntryOK(queue[d][s])'
    BY DEF EntryInv
  <2> DEFINE f == queue[d][s]
  <2>1. f \in Entry /\ EntryOK(f) /\ queue'[d][s] = f
    BY DEF RingType, HeapInv, EntryInv
  <2> HIDE DEF f
  <2>2. f.n \in Nat /\ f.n # 0
    BY <2>1 DEF Entry, Msgs
  <2>3. f.kind # "reply" => buf'[f.b] = buf[f.b]
    BY <2>1, <2>2 DEF EntryOK, SameHeap, Retmsg
  <2>4. f.b \in DOMAIN buf' /\ f.n < next'
    BY <2>1, <2>2 DEF EntryOK, SameHeap, HeapInv, HeapType
  <2>5. /\ f.b = IF f.kind = "reply" THEN Retmsg ELSE f.n
        /\ f.kind # "reply" => buf'[f.b].data = f.n
        /\ f.kind = "owned" => buf'[f.b].hdr = f.n
    BY <2>1, <2>3 DEF EntryOK
  <2> QED BY <2>1, <2>4, <2>5 DEF EntryOK
<1>4. RefsCounted'
  <2>1. \A d \in Clients, s \in SlotNos :
          queue'[d][s] # NULL => queue'[d][s].b \in DOMAIN buf'
    BY <1>3 DEF EntryInv, EntryOK
  <2>2. ASSUME NEW x \in DOMAIN buf'
        PROVE  buf'[x].ref = Cardinality(Holders(x)') + (IF x = Retmsg THEN 1 ELSE 0)
    <3>1. buf'[x].ref = buf[x].ref /\ x \in DOMAIN buf
      BY DEF SameHeap
    <3>2. Holders(x)' = Holders(x)
      BY SameHolders
    <3> QED BY <3>1, <3>2 DEF HeapInv, RefsCounted
  <2> QED BY <2>1, <2>2 DEF RefsCounted
<1> QED BY <1>1, <1>2, <1>3, <1>4 DEF HeapInv

\* The heap after ubus_msg_free.
LEMMA FreeForm ==
  ASSUME HeapType, NEW b \in DOMAIN buf, buf' = ubus_msg_free(buf, b)
  PROVE  /\ DOMAIN buf' = IF buf[b].ref = 1 THEN DOMAIN buf \ {b} ELSE DOMAIN buf
         /\ \A x \in DOMAIN buf \ {b} : buf'[x] = buf[x]
         /\ buf[b].ref # 1 => /\ buf[b].ref > 0 => buf'[b] \in Buffer
                              /\ buf'[b].ref = buf[b].ref - 1
                              /\ buf'[b].hdr = buf[b].hdr
                              /\ buf'[b].data = buf[b].data
                              /\ buf'[b].len = buf[b].len
<1>1. CASE buf[b].ref = 1
  BY <1>1 DEF ubus_msg_free, Without
<1>2. CASE buf[b].ref # 1
  <2>1. buf' = [buf EXCEPT ![b].ref = @ - 1]
    BY <1>2 DEF ubus_msg_free
  <2>2. buf'[b] = [buf[b] EXCEPT !.ref = @ - 1] /\ buf[b] \in Buffer
    BY <2>1 DEF HeapType
  <2> QED BY <1>2, <2>1, <2>2 DEF Buffer
<1> QED BY <1>1, <1>2

\* A heap in which every count is that of the slots that hold the buffer.  What
\* is left to show when references are given back.
LEMMA FewerRefs ==
  ASSUME RingType, HeapInv, UNCHANGED next,
         \A d \in Clients, s \in SlotNos : queue'[d][s] \in {NULL, queue[d][s]},
         DOMAIN buf' \subseteq DOMAIN buf,
         \A x \in DOMAIN buf' : /\ buf'[x] \in Buffer
                                /\ buf'[x].hdr = buf[x].hdr
                                /\ buf'[x].data = buf[x].data
                                /\ buf'[x].len = buf[x].len,
         \A x \in DOMAIN buf :
           LET left == Cardinality(Holders(x)') + (IF x = Retmsg THEN 1 ELSE 0)
           IN  /\ x \in DOMAIN buf' => buf'[x].ref = left
               /\ left > 0 => x \in DOMAIN buf'
  PROVE  HeapInv'
<1>1. \A x \in DOMAIN buf' : /\ buf'[x] \in Buffer
                             /\ buf'[x].hdr = buf[x].hdr
                             /\ buf'[x].data = buf[x].data
                             /\ buf'[x].len = buf[x].len
  OBVIOUS
<1>2. HeapType'
  BY <1>1 DEF HeapInv, HeapType
<1>3. Retmsg \in DOMAIN buf'
  <2>1. Cardinality(Holders(Retmsg)') \in Nat
    BY HoldersFinite
  <2> QED BY <2>1 DEF HeapInv, BufInv
<1>4. BufInv'
  BY <1>1, <1>3 DEF HeapInv, BufInv
<1>5. \A d \in Clients, s \in SlotNos :
        queue'[d][s] # NULL => queue'[d][s].b \in DOMAIN buf'
  <2> SUFFICES ASSUME NEW d \in Clients, NEW s \in SlotNos, queue'[d][s] # NULL
               PROVE  queue'[d][s].b \in DOMAIN buf'
    OBVIOUS
  <2>0. PICK b : b = queue'[d][s].b
    OBVIOUS
  <2>1. queue'[d][s] = queue[d][s] /\ b \in DOMAIN buf
    BY <2>0 DEF HeapInv, RefsCounted
  <2>2. s \in HeldBy(d, b)'
    BY <2>0, <2>1 DEF HeldBy
  <2>5. <<d, s>> \in Holders(b)'
    BY <2>2 DEF Holders
  <2>3. IsFiniteSet(Holders(b)') /\ Cardinality(Holders(b)') \in Nat
    BY HoldersFinite
  <2>4. Cardinality(Holders(b)') # 0
    BY <2>5, <2>3, FS_EmptySet
  <2>6. b \in DOMAIN buf'
    BY <2>1, <2>3, <2>4
  <2> QED BY <2>0, <2>6
<1>6. EntryInv'
  <2> SUFFICES ASSUME NEW d \in Clients, NEW s \in SlotNos, queue'[d][s] # NULL
               PROVE  EntryOK(queue[d][s])'
    BY DEF EntryInv
  <2> DEFINE f == queue[d][s]
  <2>1. queue'[d][s] = f /\ EntryOK(f) /\ f.b \in DOMAIN buf'
    BY <1>5 DEF HeapInv, EntryInv
  <2> HIDE DEF f
  <2> QED BY <1>1, <2>1 DEF EntryOK
<1>7. RefsCounted'
  BY <1>5 DEF RefsCounted
<1> QED BY <1>2, <1>4, <1>6, <1>7 DEF HeapInv

\* Every count is right after ubus_msg_dequeue.
LEMMA DequeueHeap ==
  ASSUME RingType, HeapInv, NEW c \in Clients, Dequeued(c), UNCHANGED next,
         buf' = ubus_msg_free(buf, ubus_msg_head(c).b)
  PROVE  HeapInv'
<1>0. PICK b : b = ubus_msg_head(c).b
  OBVIOUS
<1>1. cur[c] \in SlotNos /\ b \in DOMAIN buf
  BY <1>0 DEF RingType, HeapInv, RefsCounted, Dequeued, ubus_msg_head
<1>2. \A x : Cardinality(Holders(x)') = Cardinality(Holders(x)) - (IF x = b THEN 1 ELSE 0)
  BY <1>0, DequeueHolders
<1>3. \A x : Cardinality(Holders(x)) \in Nat /\ Cardinality(Holders(x)') \in Nat
  BY HoldersFinite
<1>4. \A x \in DOMAIN buf :
        buf[x].ref = Cardinality(Holders(x)) + (IF x = Retmsg THEN 1 ELSE 0)
  BY DEF HeapInv, RefsCounted
<1>5. HeapType /\ buf' = ubus_msg_free(buf, b)
  BY <1>0 DEF HeapInv
<1>6. /\ DOMAIN buf' = IF buf[b].ref = 1 THEN DOMAIN buf \ {b} ELSE DOMAIN buf
      /\ \A x \in DOMAIN buf \ {b} : buf'[x] = buf[x]
      /\ buf[b].ref # 1 => /\ buf[b].ref > 0 => buf'[b] \in Buffer
                           /\ buf'[b].ref = buf[b].ref - 1
                           /\ buf'[b].hdr = buf[b].hdr
                           /\ buf'[b].data = buf[b].data
                           /\ buf'[b].len = buf[b].len
  BY <1>1, <1>5, FreeForm
<1>7. \A d \in Clients, s \in SlotNos : queue'[d][s] \in {NULL, queue[d][s]}
  BY DEF RingType, Dequeued
<1>8. buf[b].ref > 0
  BY <1>1, <1>2, <1>3, <1>4
<1>9. \A x \in DOMAIN buf' : /\ buf'[x] \in Buffer
                             /\ buf'[x].hdr = buf[x].hdr
                             /\ buf'[x].data = buf[x].data
                             /\ buf'[x].len = buf[x].len
  BY <1>6, <1>8 DEF HeapInv, HeapType
<1>10. ASSUME NEW x \in DOMAIN buf
       PROVE  LET left == Cardinality(Holders(x)') + (IF x = Retmsg THEN 1 ELSE 0)
              IN  /\ x \in DOMAIN buf' => buf'[x].ref = left
                  /\ left > 0 => x \in DOMAIN buf'
  <2>1. CASE x = b
    BY <1>2, <1>3, <1>4, <1>6, <2>1
  <2>2. CASE x # b
    BY <1>2, <1>3, <1>4, <1>6, <2>2
  <2> QED BY <2>1, <2>2
<1>11. DOMAIN buf' \subseteq DOMAIN buf
  BY <1>6
<1> QED BY <1>7, <1>9, <1>10, <1>11, FewerRefs

\* Every count is right after a client's ring is given up.
LEMMA DisconnectHeap ==
  ASSUME RingType, HeapInv, NEW c \in Clients, Disconnect(c)
  PROVE  HeapInv'
<1> DEFINE left(x) == buf[x].ref - Cardinality(HeldBy(c, x))
<1>1. buf' = [x \in {y \in DOMAIN buf : left(y) > 0} |-> [buf[x] EXCEPT !.ref = left(x)]]
  BY DEF Disconnect
<1>2. Cleared(c) /\ UNCHANGED next
  BY DEF Disconnect, Cleared
<1>3. \A x : /\ Cardinality(Holders(x)') =
                  Cardinality(Holders(x)) - Cardinality(HeldBy(c, x))
             /\ Cardinality(HeldBy(c, x)) \in 0 .. Cardinality(Holders(x))
  BY <1>2, ClearHolders
<1>4. \A x : Cardinality(Holders(x)) \in Nat /\ Cardinality(Holders(x)') \in Nat
  BY HoldersFinite
<1>5. \A x \in DOMAIN buf :
        buf[x].ref = Cardinality(Holders(x)) + (IF x = Retmsg THEN 1 ELSE 0)
  BY DEF HeapInv, RefsCounted
<1>6. \A x \in DOMAIN buf :
        /\ left(x) = Cardinality(Holders(x)') + (IF x = Retmsg THEN 1 ELSE 0)
        /\ left(x) \in Nat
  BY <1>3, <1>4, <1>5
<1> HIDE DEF left
<1>7. /\ DOMAIN buf' = {y \in DOMAIN buf : left(y) > 0}
      /\ \A x \in DOMAIN buf' : buf'[x] = [buf[x] EXCEPT !.ref = left(x)]
  BY <1>1
<1>8. \A x \in DOMAIN buf' : /\ buf'[x] \in Buffer
                             /\ buf'[x].ref = left(x)
                             /\ buf'[x].hdr = buf[x].hdr
                             /\ buf'[x].data = buf[x].data
                             /\ buf'[x].len = buf[x].len
  BY <1>6, <1>7 DEF HeapInv, HeapType, Buffer
<1>9. \A d \in Clients, s \in SlotNos : queue'[d][s] \in {NULL, queue[d][s]}
  BY <1>2 DEF RingType, Cleared
<1>10. ASSUME NEW x \in DOMAIN buf
       PROVE  LET all == Cardinality(Holders(x)') + (IF x = Retmsg THEN 1 ELSE 0)
              IN  /\ x \in DOMAIN buf' => buf'[x].ref = all
                  /\ all > 0 => x \in DOMAIN buf'
  BY <1>6, <1>7, <1>8
<1>11. DOMAIN buf' \subseteq DOMAIN buf
  BY <1>7
<1> QED BY <1>2, <1>8, <1>9, <1>10, <1>11, FewerRefs

\* ubus_msg_dequeue or not, a turn of the transmit loop.
LEMMA FlushForm ==
  ASSUME TypeOK, CbInv, FlushHead
  PROVE  /\ who \in Clients
         /\ \/ /\ Dequeued(who)
               /\ buf' = ubus_msg_free(buf, ubus_msg_head(who).b)
               /\ ofs' = [ofs EXCEPT ![who] = 0]
               /\ UNCHANGED cbVars
            \/ UNCHANGED <<buf, queue, cur, tail>> /\ CbReturns
         /\ UNCHANGED <<armed, event, gone, next, lastTo>>
BY DEF FlushHead, ubus_msg_dequeue, Dequeued, ubus_msg_head, CbInv

\* Whatever the daemon does, every reference stays counted.
LEMMA NextHeap ==
  ASSUME TypeOK, CbInv, RingInv, HeapInv, [Next]_vars
  PROVE  HeapInv'
<1>0. RingType /\ BufInv /\ next \in Nat
  BY DEF RingInv, HeapInv, HeapType
<1>1. buf' = buf => SameHeap
  BY DEF SameHeap, HeapInv, BufInv, HeapType
<1>2. ASSUME NEW c \in Clients, SendShared(c) \/ SendOwned(c) \/ Reply(c)
      PROVE  HeapInv'
  <2>1. PICK kind \in Kinds, v \in Buffer, b \in Bufs : Sent(c, kind, v, b)
    BY <1>0, <1>2, SendForms
  <2>2. /\ next \in Msgs /\ next' = next + 1
        /\ b = IF kind = "reply" THEN Retmsg ELSE next
        /\ b \in DOMAIN buf => v.len = buf[b].len
        /\ QueuedOrDropped(c, kind, v, b) \/ (UNCHANGED queue /\ SameHeap)
    BY <2>1 DEF Sent
  <2>3. CASE UNCHANGED queue /\ SameHeap
    BY <1>0, <2>2, <2>3, SameHeapInv
  <2>4. CASE Enqueued(c, [b |-> b, n |-> next, kind |-> kind]) /\ KeptHeap(b, kind, v)
    BY <1>0, <2>2, <2>4, KeepHeap
  <2> QED BY <2>2, <2>3, <2>4 DEF QueuedOrDropped
<1>3. ASSUME NEW c \in Clients, (\E write \in BOOLEAN : ClientCb(c, write)) \/ ClientReads(c)
      PROVE  HeapInv'
  <2>1. UNCHANGED <<buf, queue, next>>
    BY <1>3 DEF ClientCb, ClientReads, ringVars
  <2> QED BY <1>0, <1>1, <2>1, SameHeapInv
<1>4. ASSUME NEW c \in Clients, Disconnect(c)
      PROVE  HeapInv'
  BY <1>0, <1>4, DisconnectHeap
<1>5. CASE NoReply
  <2>1. buf' = [buf EXCEPT ![Retmsg].hdr = next] /\ UNCHANGED <<queue, next>>
    BY <1>5 DEF NoReply, ringVars
  <2>2. Retmsg \in DOMAIN buf /\ buf[Retmsg] \in Buffer
    BY DEF HeapInv, BufInv, HeapType
  <2>3. /\ DOMAIN buf' = DOMAIN buf
        /\ \A x \in DOMAIN buf \ {Retmsg} : buf'[x] = buf[x]
        /\ buf'[Retmsg] = [buf[Retmsg] EXCEPT !.hdr = next]
    BY <2>1, <2>2
  <2>4. /\ buf'[Retmsg] \in Buffer /\ buf'[Retmsg].ref = buf[Retmsg].ref
        /\ buf'[Retmsg].len = buf[Retmsg].len
    BY <1>0, <2>2, <2>3 DEF Buffer
  <2>5. SameHeap
    BY <2>3, <2>4 DEF SameHeap
  <2> QED BY <1>0, <2>1, <2>5, SameHeapInv
<1>6. CASE FlushHead
  <2>1. CASE /\ Dequeued(who) /\ who \in Clients /\ UNCHANGED next
             /\ buf' = ubus_msg_free(buf, ubus_msg_head(who).b)
    BY <1>0, <2>1, DequeueHeap
  <2>2. CASE UNCHANGED <<buf, queue, next>>
    BY <1>0, <1>1, <2>2, SameHeapInv
  <2> QED BY <1>6, <2>1, <2>2, FlushForm
<1>7. CASE FlushEnd \/ ClientFreed \/ UNCHANGED vars
  <2>1. UNCHANGED <<buf, queue, next>>
    BY <1>7 DEF FlushEnd, ClientFreed, ringVars, vars
  <2> QED BY <1>0, <1>1, <2>1, SameHeapInv
<1> QED BY <1>2, <1>3, <1>4, <1>5, <1>6, <1>7 DEF Next

\* A callback is of a client that is not freed, whatever the daemon does.
LEMMA NextCb ==
  ASSUME TypeOK, BufInv, CbInv, [Next]_vars
  PROVE  CbInv'
<1>1. ASSUME NEW c \in Clients, SendShared(c) \/ SendOwned(c) \/ Reply(c)
      PROVE  CbInv'
  BY <1>1 DEF SendShared, SendOwned, Reply, cbVars, CbInv
<1>2. ASSUME NEW c \in Clients, NEW write, ClientCb(c, write)
      PROVE  CbInv'
  BY <1>2 DEF ClientCb, CbInv
<1>3. ASSUME NEW c \in Clients, ClientReads(c)
      PROVE  CbInv'
  BY <1>3 DEF ClientReads, cbVars, CbInv
<1>4. ASSUME NEW c \in Clients, Disconnect(c)
      PROVE  CbInv'
  BY <1>4 DEF Disconnect, CbInv
<1>5. CASE NoReply \/ FlushEnd \/ ClientFreed \/ UNCHANGED vars
  BY <1>5 DEF NoReply, FlushEnd, ClientFreed, CbReturns, CbInv, cbVars, vars
<1>6. CASE FlushHead
  BY <1>6, FlushForm DEF CbReturns, CbInv, cbVars
<1> QED BY <1>1, <1>2, <1>3, <1>4, <1>5, <1>6 DEF Next

-----------------------------------------------------------------------------
(* The wire *)

\* The units of a message from a buffer, one after the other.
LEMMA UnitsForm ==
  ASSUME NEW v \in Buffer, NEW n \in Msgs, NEW kind \in Kinds, NEW k \in 0 .. v.len
  PROVE  LET f == UnitsFrom(v, n, kind, k)
         IN  /\ f \in Seq(Unit) /\ Len(f) = v.len + 1 - k
             /\ \A j \in 1 .. Len(f) :
                  /\ f[j] \in Unit
                  /\ f[j].n = n /\ f[j].kind = kind /\ f[j].part = k + j - 1
                  /\ f[j].len = v.len
                  /\ f[j].val = IF k + j - 1 = 0 THEN v.hdr ELSE v.data
<1> DEFINE f == UnitsFrom(v, n, kind, k)
           m == v.len + 1 - k
<1>1. v.len \in Nat /\ v.hdr \in Nat /\ v.data \in Nat /\ m \in Nat
  BY DEF Buffer
<1>2. f = [j \in 1 .. m |->
            [n |-> n, kind |-> kind, part |-> k + j - 1, len |-> v.len,
             val |-> IF k + j - 1 = 0 THEN v.hdr ELSE v.data]]
  BY DEF UnitsFrom
<1> HIDE DEF f
<1>3. ASSUME NEW j \in 1 .. m
      PROVE  /\ f[j] \in Unit
             /\ f[j].n = n /\ f[j].kind = kind /\ f[j].part = k + j - 1
             /\ f[j].len = v.len
             /\ f[j].val = IF k + j - 1 = 0 THEN v.hdr ELSE v.data
  <2>1. k + j - 1 \in Nat
    BY <1>1
  <2>2. f[j] = [n |-> n, kind |-> kind, part |-> k + j - 1, len |-> v.len,
                val |-> IF k + j - 1 = 0 THEN v.hdr ELSE v.data]
    BY <1>2
  <2> QED BY <1>1, <2>1, <2>2 DEF Unit
<1>4. f \in [1 .. m -> Unit]
  BY <1>2, <1>3
<1>5. f \in Seq(Unit) /\ Len(f) = m
  BY <1>1, <1>4, SeqDef, LenProperties
<1> QED BY <1>3, <1>5 DEF f

\* What is on the wire after a write of k units of f.
LEMMA TakeForm ==
  ASSUME wire \in [Clients -> Seq(Unit)], unread \in [Clients -> 0 .. SockBuf],
         NEW c \in Clients, NEW f \in Seq(Unit), NEW k \in 0 .. Len(f), k <= Room(c),
         Take(c, f, k)
  PROVE  /\ wire' \in [Clients -> Seq(Unit)] /\ unread' \in [Clients -> 0 .. SockBuf]
         /\ \A d \in Clients \ {c} : wire'[d] = wire[d]
         /\ k = 0 => wire' = wire
         /\ k > 0 => LET w == wire[c]
                         p == IF w = <<>> THEN 0 ELSE 1
                     IN  /\ Len(wire'[c]) = p + k
                         /\ p = 1 => wire'[c][1] = w[Len(w)]
                         /\ \A j \in 1 .. k : wire'[c][p + j] = f[j]
<1> DEFINE w == wire[c]
           g == SubSeq(f, 1, k)
           new == IF k = 0 \/ w = <<>> THEN w \o g ELSE <<w[Len(w)]>> \o g
<1>1. w \in Seq(Unit) /\ Len(w) \in Nat
  BY LenProperties
<1>2. g \in Seq(Unit) /\ Len(g) = k /\ \A j \in 1 .. k : g[j] = f[j]
  <2>1. \A j \in 1 .. k : f[j] \in Unit
    BY ElementOfSeq
  <2> QED BY <2>1, SubSeqProperties
<1>3. wire' = [wire EXCEPT ![c] = new] /\ unread' = [unread EXCEPT ![c] = @ + k]
  BY DEF Take
<1>4. unread' \in [Clients -> 0 .. SockBuf]
  BY <1>3, TxAssumption DEF Room
<1> HIDE DEF g
<1>5. CASE k = 0
  <2>1. g = <<>>
    BY <1>2, <1>5, EmptySeq
  <2>2. w \o <<>> = w
    BY <1>1, ConcatEmptySeq
  <2>3. new = w
    BY <1>5, <2>1, <2>2
  <2>4. wire' = wire
    BY <1>3, <2>3
  <2> QED BY <1>4, <1>5, <2>4
<1>6. CASE k > 0 /\ w = <<>>
  <2>1. new = <<>> \o g
    BY <1>6
  <2>2. new = g
    BY <1>2, <2>1, ConcatEmptySeq
  <2>3. wire'[c] = g /\ wire' \in [Clients -> Seq(Unit)]
    BY <1>2, <1>3, <2>2
  <2> QED BY <1>2, <1>3, <1>4, <1>6, <2>3
<1>7. CASE k > 0 /\ w # <<>>
  <2>1. w[Len(w)] \in Unit
    BY <1>1, <1>7, EmptySeq, ElementOfSeq
  <2> DEFINE h == <<w[Len(w)]>>
  <2>2. h \in Seq(Unit) /\ Len(h) = 1 /\ h[1] = w[Len(w)]
    BY <2>1
  <2> HIDE DEF h
  <2>3. new = h \o g
    BY <1>7 DEF h
  <2>4. /\ h \o g \in Seq(Unit) /\ Len(h \o g) = Len(h) + Len(g)
        /\ \A i \in 1 .. Len(h) + Len(g) :
             (h \o g)[i] = IF i <= Len(h) THEN h[i] ELSE g[i - Len(h)]
    BY <1>2, <2>2, ConcatProperties
  <2> DEFINE hg == h \o g
  <2> HIDE DEF hg
  <2>7. hg \in Seq(Unit) /\ Len(hg) = 1 + k
    BY <1>2, <2>2, <2>4 DEF hg
  <2>8. \A i \in 1 .. 1 + k : hg[i] = IF i <= 1 THEN h[i] ELSE g[i - 1]
    BY <1>2, <2>2, <2>4 DEF hg
  <2>5. hg[1] = h[1] /\ \A j \in 1 .. k : hg[1 + j] = g[j]
    <3>1. hg[1] = h[1]
      BY <1>7, <2>8
    <3>2. ASSUME NEW j \in 1 .. k
          PROVE  hg[1 + j] = g[j]
      <4>1. 1 + j \in 1 .. 1 + k /\ ~(1 + j <= 1) /\ (1 + j) - 1 = j
        OBVIOUS
      <4> QED BY <2>8, <4>1
    <3> QED BY <3>1, <3>2
  <2>9. new = hg
    BY <2>3 DEF hg
  <2> HIDE DEF new
  <2>6. wire'[c] = hg /\ wire' \in [Clients -> Seq(Unit)]
    BY <1>3, <2>9, <2>7
  <2> QED BY <1>2, <1>3, <1>4, <1>7, <2>2, <2>5, <2>6, <2>7
<1> QED BY <1>1, <1>5, <1>6, <1>7

\* The part of the head message that has been sent is not all of it.
OfsInv ==
  \A c \in Clients :
    ubus_msg_head(c) # NULL => ofs[c] <= buf[ubus_msg_head(c).b].len

\* A write of k units of a message in buffer v, of which the first j were
\* written before.
WriteOf(c, v, n, kind, j, k) ==
  /\ v \in Buffer /\ n \in Msgs /\ kind \in Kinds
  /\ j \in 0 .. v.len /\ k \in 0 .. v.len + 1 - j /\ k <= Room(c)
  /\ Take(c, UnitsFrom(v, n, kind, j), k)
  /\ kind # "reply" => v.data = n
  /\ kind = "owned" => v.hdr = n

\* How many units of earlier writes stay in view.
Before(c) == IF wire[c] = <<>> THEN 0 ELSE 1

\* The units such a write adds.
Wrote(c, v, n, kind, j, k) ==
  /\ \A d \in Clients \ {c} : wire'[d] = wire[d]
  /\ k = 0 => wire' = wire
  /\ k > 0 => /\ Len(wire'[c]) = Before(c) + k
              /\ Before(c) = 1 => wire'[c][1] = wire[c][Len(wire[c])]
              /\ \A i \in 1 .. k :
                   /\ wire'[c][Before(c) + i].n = n
                   /\ wire'[c][Before(c) + i].kind = kind
                   /\ wire'[c][Before(c) + i].part = j + i - 1
                   /\ wire'[c][Before(c) + i].len = v.len
                   /\ wire'[c][Before(c) + i].val =
                        IF j + i - 1 = 0 THEN v.hdr ELSE v.data

\* That is what it adds.
LEMMA WriteForm ==
  ASSUME wire \in [Clients -> Seq(Unit)], unread \in [Clients -> 0 .. SockBuf],
         NEW c \in Clients, NEW v, NEW n, NEW kind, NEW j, NEW k,
         WriteOf(c, v, n, kind, j, k)
  PROVE  /\ wire' \in [Clients -> Seq(Unit)] /\ unread' \in [Clients -> 0 .. SockBuf]
         /\ Wrote(c, v, n, kind, j, k)
<1> DEFINE f == UnitsFrom(v, n, kind, j)
<1>0. v \in Buffer /\ n \in Msgs /\ kind \in Kinds /\ j \in 0 .. v.len
  BY DEF WriteOf
<1>1. /\ f \in Seq(Unit) /\ Len(f) = v.len + 1 - j
      /\ \A i \in 1 .. Len(f) :
           /\ f[i].n = n /\ f[i].kind = kind /\ f[i].part = j + i - 1
           /\ f[i].len = v.len
           /\ f[i].val = IF j + i - 1 = 0 THEN v.hdr ELSE v.data
  BY <1>0, UnitsForm
<1>2. Take(c, f, k) /\ k \in 0 .. Len(f) /\ k <= Room(c)
  BY <1>1 DEF WriteOf
<1> HIDE DEF f
<1>3. \A i \in 1 .. k : i \in 1 .. Len(f)
  BY <1>2
<1> DEFINE p == Before(c)
<1>4. /\ wire' \in [Clients -> Seq(Unit)] /\ unread' \in [Clients -> 0 .. SockBuf]
      /\ \A d \in Clients \ {c} : wire'[d] = wire[d]
      /\ k = 0 => wire' = wire
      /\ k > 0 => /\ Len(wire'[c]) = p + k
                  /\ p = 1 => wire'[c][1] = wire[c][Len(wire[c])]
                  /\ \A i \in 1 .. k : wire'[c][p + i] = f[i]
  BY <1>1, <1>2, TakeForm DEF Before
<1> HIDE DEF p
<1>5. ASSUME NEW i \in 1 .. k, k > 0
      PROVE  /\ wire'[c][p + i].n = n /\ wire'[c][p + i].kind = kind
             /\ wire'[c][p + i].part = j + i - 1
             /\ wire'[c][p + i].len = v.len
             /\ wire'[c][p + i].val = IF j + i - 1 = 0 THEN v.hdr ELSE v.data
  <2>1. wire'[c][p + i] = f[i] /\ i \in 1 .. Len(f)
    BY <1>3, <1>4, <1>5
  <2> QED BY <1>1, <2>1
<1> QED BY <1>4, <1>5 DEF p, Wrote

\* A turn of the transmit loop writes the rest of the head message, or a part of it.
LEMMA FlushWrites ==
  ASSUME TypeOK, CbInv, HeapInv, RingType, OfsInv, FlushHead
  PROVE  LET e == ubus_msg_head(who)
         IN  /\ who \in Clients /\ e \in Entry /\ EntryOK(e) /\ buf[e.b] \in Buffer
             /\ ofs[who] \in 0 .. buf[e.b].len
             /\ Room(who) \in 0 .. SockBuf
             /\ \/ /\ Room(who) >= buf[e.b].len + 1 - ofs[who]
                   /\ WriteOf(who, buf[e.b], e.n, e.kind, ofs[who],
                              buf[e.b].len + 1 - ofs[who])
                   /\ Dequeued(who)
                   /\ buf' = ubus_msg_free(buf, e.b)
                   /\ ofs' = [ofs EXCEPT ![who] = 0]
                   /\ UNCHANGED cbVars
                \/ /\ Room(who) < buf[e.b].len + 1 - ofs[who]
                   /\ WriteOf(who, buf[e.b], e.n, e.kind, ofs[who], Room(who))
                   /\ ofs' = [ofs EXCEPT ![who] = @ + Room(who)]
                   /\ UNCHANGED <<buf, queue, cur, tail>>
                   /\ CbReturns
<1> DEFINE e == ubus_msg_head(who)
           v == buf[e.b]
           rest == UnitsFrom(v, e.n, e.kind, ofs[who])
<1>1. who \in Clients /\ e # NULL
  BY DEF FlushHead, CbInv
<1>2. e \in Entry /\ EntryOK(e)
  BY <1>1 DEF ubus_msg_head, RingType, HeapInv, EntryInv
<1>3. v \in Buffer /\ ofs[who] \in 0 .. v.len
  <2>1. e.b \in DOMAIN buf
    BY <1>2 DEF EntryOK
  <2>2. ofs[who] \in Nat /\ ofs[who] <= v.len
    BY <1>1 DEF OfsInv, TypeOK
  <2>3. v \in Buffer
    BY <2>1 DEF HeapInv, HeapType
  <2> QED BY <2>2, <2>3 DEF Buffer
<1>4. Room(who) \in 0 .. SockBuf
  BY <1>1, TxAssumption DEF Room, TypeOK
<1>5. e.n \in Msgs /\ e.kind \in Kinds /\ (e.kind # "reply" => v.data = e.n)
      /\ (e.kind = "owned" => v.hdr = e.n)
  BY <1>2 DEF Entry, EntryOK
<1>6. Len(rest) = v.len + 1 - ofs[who]
  BY <1>3, <1>5, UnitsForm
<1>7. IF Room(who) >= Len(rest)
        THEN /\ Take(who, rest, Len(rest))
             /\ ubus_msg_dequeue(who)
             /\ UNCHANGED cbVars
        ELSE /\ Take(who, rest, Room(who))
             /\ ofs' = [ofs EXCEPT ![who] = @ + Room(who)]
             /\ CbReturns
             /\ UNCHANGED <<buf, queue, cur>>
  BY DEF FlushHead
<1>8. UNCHANGED tail
  BY DEF FlushHead
<1>9. v.len \in Nat
  BY <1>3 DEF Buffer
<1>10. ubus_msg_dequeue(who) => /\ Dequeued(who) /\ buf' = ubus_msg_free(buf, e.b)
                                /\ ofs' = [ofs EXCEPT ![who] = 0]
  BY <1>1, <1>8 DEF ubus_msg_dequeue, Dequeued, ubus_msg_head
<1> HIDE DEF e, v
<1>11. CASE Room(who) >= v.len + 1 - ofs[who]
  <2>1. Take(who, rest, v.len + 1 - ofs[who]) /\ ubus_msg_dequeue(who) /\ UNCHANGED cbVars
    BY <1>6, <1>7, <1>11
  <2>2. WriteOf(who, v, e.n, e.kind, ofs[who], v.len + 1 - ofs[who])
    BY <1>3, <1>4, <1>5, <1>9, <1>11, <2>1 DEF WriteOf
  <2> QED BY <1>1, <1>2, <1>3, <1>4, <1>10, <1>11, <2>1, <2>2 DEF e, v
<1>12. CASE ~(Room(who) >= v.len + 1 - ofs[who])
  <2>1. /\ Take(who, rest, Room(who)) /\ ofs' = [ofs EXCEPT ![who] = @ + Room(who)]
        /\ CbReturns /\ UNCHANGED <<buf, queue, cur>>
    BY <1>6, <1>7, <1>12
  <2>2. Room(who) < v.len + 1 - ofs[who]
    BY <1>3, <1>4, <1>9, <1>12
  <2>3. WriteOf(who, v, e.n, e.kind, ofs[who], Room(who))
    BY <1>3, <1>4, <1>5, <1>9, <2>1, <2>2 DEF WriteOf
  <2> QED BY <1>1, <1>2, <1>3, <1>4, <1>8, <2>1, <2>2, <2>3 DEF e, v
<1> QED BY <1>11, <1>12

\* With nothing at txq_cur the ring is empty, and txq_tail is txq_cur.
LEMMA EmptyRing ==
  ASSUME RingInv, NEW c \in Clients, ubus_msg_head(c) = NULL
  PROVE  tail[c] = cur[c] /\ queue[c][tail[c]] = NULL
<1>1. RingOf(c) /\ cur[c] \in SlotNos /\ tail[c] \in SlotNos
  BY DEF RingInv, RingType
<1>2. Ahead(c, cur[c]) = 0 /\ ~(Ahead(c, cur[c]) < Used(c)) /\ Used(c) \in Nat
  BY <1>1, UsedBound DEF RingOf, Ahead, ubus_msg_head, SlotNos
<1>3. Ahead(c, tail[c]) = 0
  BY <1>1, <1>2, TxAssumption DEF RingOf
<1>4. tail[c] = cur[c]
  BY <1>1, <1>3, TxAssumption DEF Ahead, SlotNos
<1> QED BY <1>4 DEF ubus_msg_head

\* A message becomes the head only of an empty ring.
LEMMA EnqueueHead ==
  ASSUME RingInv, NEW c \in Clients, NEW e, Enqueued(c, e)
  PROVE  /\ ubus_msg_head(c)' = IF ubus_msg_head(c) = NULL THEN e ELSE ubus_msg_head(c)
         /\ \A d \in Clients \ {c} : ubus_msg_head(d)' = ubus_msg_head(d)
<1>1. ubus_msg_head(c) = NULL => tail[c] = cur[c]
  BY EmptyRing
<1>2. ubus_msg_head(c) # NULL => tail[c] # cur[c]
  BY DEF Enqueued, ubus_msg_head
<1> QED BY <1>1, <1>2 DEF Enqueued, ubus_msg_head, RingInv, RingType

\* What a sender writes to the socket, and what it puts in the ring.
LEMMA SendWrites ==
  ASSUME TypeOK, RingInv, HeapInv, NEW c \in Clients, NEW kind \in Kinds, NEW v \in Buffer,
         NEW b \in Bufs, Sent(c, kind, v, b)
  PROVE  LET e == [b |-> b, n |-> next, kind |-> kind]
         IN  \/ /\ ubus_msg_head(c) = NULL
                /\ WriteOf(c, v, next, kind, 0, 0) \/ WriteOf(c, v, next, kind, 0, v.len + 1)
                /\ SameHeap /\ UNCHANGED <<queue, cur, tail, ofs, armed, event>>
             \/ /\ ubus_msg_head(c) = NULL
                /\ Room(c) \in 1 .. v.len /\ WriteOf(c, v, next, kind, 0, Room(c))
                /\ ofs' = [ofs EXCEPT ![c] = Room(c)] /\ ArmWrite(c)
                /\ Enqueued(c, e) /\ KeptHeap(b, kind, v)
             \/ /\ ubus_msg_head(c) # NULL
                /\ \/ Enqueued(c, e) /\ KeptHeap(b, kind, v)
                   \/ UNCHANGED <<queue, cur, tail>> /\ SameHeap
                /\ UNCHANGED <<ofs, wire, unread, armed, event>>
<1>1. next \in Msgs /\ v.hdr = next /\ v.data = next /\ v.len \in Nat
  BY DEF Sent, Buffer
<1>2. Room(c) \in 0 .. SockBuf
  BY TxAssumption DEF Room, TypeOK
<1>3. ASSUME NEW k \in 0 .. v.len + 1, k <= Room(c), Written(c, kind, v, k)
      PROVE  WriteOf(c, v, next, kind, 0, k)
  BY <1>1, <1>3 DEF WriteOf, Written
<1>4. ubus_msg_head(c) = NULL => queue[c][tail[c]] = NULL
  BY EmptyRing
<1>5. CASE ubus_msg_head(c) = NULL /\ Room(c) = 0 /\ Written(c, kind, v, 0)
  <2>1. WriteOf(c, v, next, kind, 0, 0)
    BY <1>1, <1>3, <1>5
  <2>2. SameHeap /\ UNCHANGED <<queue, cur, tail, ofs, armed, event>>
    BY <1>5 DEF Sent
  <2> QED BY <1>5, <2>1, <2>2
<1>6. CASE ubus_msg_head(c) = NULL /\ Room(c) >= v.len + 1 /\ Written(c, kind, v, v.len + 1)
  <2>1. WriteOf(c, v, next, kind, 0, v.len + 1)
    BY <1>1, <1>3, <1>6
  <2>2. SameHeap /\ UNCHANGED <<queue, cur, tail, ofs, armed, event>>
    BY <1>1, <1>2, <1>6 DEF Sent
  <2> QED BY <1>6, <2>1, <2>2
<1>7. CASE /\ ubus_msg_head(c) = NULL
           /\ 0 < Room(c) /\ Room(c) < v.len + 1 /\ Written(c, kind, v, Room(c))
  <2>1. Room(c) \in 1 .. v.len
    BY <1>1, <1>2, <1>7
  <2>2. WriteOf(c, v, next, kind, 0, Room(c))
    BY <1>1, <1>3, <1>7, <2>1
  <2>3. ofs' = [ofs EXCEPT ![c] = Room(c)] /\ ArmWrite(c) /\ QueuedOrDropped(c, kind, v, b)
    BY <1>1, <1>2, <1>7 DEF Sent
  <2> QED BY <1>4, <1>7, <2>1, <2>2, <2>3 DEF QueuedOrDropped
<1>8. CASE ubus_msg_head(c) # NULL
  BY <1>8 DEF Sent, QueuedOrDropped
<1> QED BY <1>5, <1>6, <1>7, <1>8 DEF Sent

\* A message's length stays what it was while its buffer is in memory.
LEMMA NextLens ==
  ASSUME TypeOK, CbInv, RingInv, HeapInv, [Next]_vars
  PROVE  \A x \in DOMAIN buf \cap DOMAIN buf' : buf'[x].len = buf[x].len
<1>1. BufInv /\ HeapType
  BY DEF HeapInv
<1>2. ASSUME NEW c \in Clients, SendShared(c) \/ SendOwned(c) \/ Reply(c)
      PROVE  \A x \in DOMAIN buf : buf'[x].len = buf[x].len
  <2>1. PICK kind \in Kinds, v \in Buffer, b \in Bufs : Sent(c, kind, v, b)
    BY <1>1, <1>2, SendForms
  <2>2. SameHeap \/ (KeptHeap(b, kind, v) /\ (b \in DOMAIN buf => v.len = buf[b].len))
    BY <2>1 DEF Sent, QueuedOrDropped
  <2> QED BY <2>2 DEF SameHeap, KeptHeap
<1>3. ASSUME NEW c \in Clients, Disconnect(c)
      PROVE  \A x \in DOMAIN buf' : buf'[x].len = buf[x].len
  <2> DEFINE left(x) == buf[x].ref - Cardinality(HeldBy(c, x))
  <2>1. buf' = [x \in {y \in DOMAIN buf : left(y) > 0} |-> [buf[x] EXCEPT !.ref = left(x)]]
    BY <1>3 DEF Disconnect
  <2> HIDE DEF left
  <2>2. /\ DOMAIN buf' \subseteq DOMAIN buf
        /\ \A x \in DOMAIN buf' : buf'[x] = [buf[x] EXCEPT !.ref = left(x)]
    BY <2>1
  <2> QED BY <1>1, <2>2 DEF HeapType, Buffer
<1>4. CASE FlushHead
  <2>1. PICK e : e = ubus_msg_head(who)
    OBVIOUS
  <2>2. CASE /\ Dequeued(who) /\ who \in Clients
             /\ buf' = ubus_msg_free(buf, e.b)
    <3>1. e.b \in DOMAIN buf
      BY <2>1, <2>2 DEF ubus_msg_head, Dequeued, RingInv, RingType, HeapInv, RefsCounted
    <3>2. /\ DOMAIN buf' = IF buf[e.b].ref = 1 THEN DOMAIN buf \ {e.b} ELSE DOMAIN buf
          /\ \A x \in DOMAIN buf \ {e.b} : buf'[x] = buf[x]
          /\ buf[e.b].ref # 1 => buf'[e.b].len = buf[e.b].len
      BY <1>1, <2>2, <3>1, FreeForm
    <3> QED BY <3>2
  <2>3. CASE buf' = buf
    BY <2>3
  <2> QED BY <1>4, <2>1, <2>2, <2>3, FlushForm
<1>5. CASE NoReply
  BY <1>1, <1>5 DEF NoReply, HeapType, Buffer, BufInv
<1>6. ASSUME NEW c \in Clients, (\E write \in BOOLEAN : ClientCb(c, write)) \/ ClientReads(c)
      PROVE  buf' = buf
  BY <1>6 DEF ClientCb, ClientReads
<1>7. CASE FlushEnd \/ ClientFreed \/ UNCHANGED vars
  BY <1>7 DEF FlushEnd, ClientFreed, vars
<1> QED BY <1>2, <1>3, <1>4, <1>5, <1>6, <1>7 DEF Next

\* txq_ofs stays within the head message, whatever the daemon does.
LEMMA NextOfs ==
  ASSUME TypeOK, CbInv, RingInv, HeapInv, OfsInv, [Next]_vars
  PROVE  OfsInv'
<1> SUFFICES ASSUME NEW d \in Clients, ubus_msg_head(d)' # NULL
             PROVE  ofs'[d] <= buf'[ubus_msg_head(d)'.b].len
  BY DEF OfsInv
<1>1. BufInv /\ RingType /\ RingInv' /\ HeapInv'
  BY NextRing, NextHeap DEF HeapInv, RingInv
<1>2. ubus_msg_head(d)'.b \in DOMAIN buf' /\ buf'[ubus_msg_head(d)'.b] \in Buffer
  <2>1. cur'[d] \in SlotNos
    BY <1>1 DEF RingInv, RingType
  <2>2. ubus_msg_head(d)'.b \in DOMAIN buf'
    BY <1>1, <2>1 DEF HeapInv, RefsCounted, ubus_msg_head
  <2> QED BY <1>1, <2>2 DEF HeapInv, HeapType
<1>3. CASE ubus_msg_head(d)' = ubus_msg_head(d) /\ ofs'[d] = ofs[d]
  <2>1. ubus_msg_head(d).b \in DOMAIN buf
    BY <1>1, <1>3 DEF HeapInv, RefsCounted, ubus_msg_head, RingType
  <2>2. buf'[ubus_msg_head(d).b].len = buf[ubus_msg_head(d).b].len
    BY <1>2, <1>3, <2>1, NextLens
  <2> QED BY <1>3, <2>2 DEF OfsInv
<1>4. ASSUME NEW c \in Clients, SendShared(c) \/ SendOwned(c) \/ Reply(c)
      PROVE  ofs'[d] <= buf'[ubus_msg_head(d)'.b].len
  <2>1. PICK kind \in Kinds, v \in Buffer, b \in Bufs : Sent(c, kind, v, b)
    BY <1>1, <1>4, SendForms
  <2> DEFINE e == [b |-> b, n |-> next, kind |-> kind]
  <2>2. CASE UNCHANGED <<queue, cur, ofs>>
    BY <1>3, <2>2 DEF ubus_msg_head
  <2>3. CASE /\ ubus_msg_head(c) = NULL /\ Room(c) \in 1 .. v.len
             /\ ofs' = [ofs EXCEPT ![c] = Room(c)]
             /\ Enqueued(c, e) /\ KeptHeap(b, kind, v)
    <3>1. CASE d = c
      <4>1. ubus_msg_head(d)' = e /\ ofs'[d] = Room(c)
        BY <2>3, <3>1, EnqueueHead DEF TypeOK
      <4>2. ubus_msg_head(d)'.b = b
        BY <4>1
      <4>3. buf'[b].len = v.len /\ v.len \in Nat
        BY <2>3 DEF KeptHeap, Buffer
      <4> QED BY <2>3, <4>1, <4>2, <4>3
    <3>2. CASE d # c
      BY <1>3, <2>3, <3>2, EnqueueHead DEF TypeOK
    <3> QED BY <3>1, <3>2
  <2>4. CASE ubus_msg_head(c) # NULL /\ Enqueued(c, e) /\ UNCHANGED ofs
    BY <1>3, <2>4, EnqueueHead
  <2> HIDE DEF e
  <2> QED BY <2>1, <2>2, <2>3, <2>4, SendWrites DEF e
<1>5. ASSUME NEW c \in Clients, Disconnect(c)
      PROVE  ofs'[d] <= buf'[ubus_msg_head(d)'.b].len
  <2>1. CASE d = c
    BY <1>1, <1>5, <2>1 DEF Disconnect, ubus_msg_head, RingType
  <2>2. CASE d # c
    BY <1>1, <1>3, <1>5, <2>2 DEF Disconnect, ubus_msg_head, RingType, TypeOK
  <2> QED BY <2>1, <2>2
<1>6. CASE FlushHead
  <2>1. PICK e : e = ubus_msg_head(who)
    OBVIOUS
  <2>2. /\ who \in Clients /\ buf[e.b] \in Buffer /\ ofs[who] \in 0 .. buf[e.b].len
        /\ Room(who) \in 0 .. SockBuf
        /\ \/ Dequeued(who) /\ ofs' = [ofs EXCEPT ![who] = 0]
           \/ /\ Room(who) < buf[e.b].len + 1 - ofs[who]
              /\ ofs' = [ofs EXCEPT ![who] = @ + Room(who)]
              /\ UNCHANGED <<buf, queue, cur, tail>>
    BY <1>1, <1>6, <2>1, FlushWrites
  <2>3. CASE d = who
    <3>1. CASE ofs' = [ofs EXCEPT ![who] = 0]
      BY <1>2, <2>3, <3>1 DEF TypeOK, Buffer
    <3>2. CASE /\ Room(who) < buf[e.b].len + 1 - ofs[who]
               /\ ofs' = [ofs EXCEPT ![who] = @ + Room(who)]
               /\ UNCHANGED <<buf, queue, cur, tail>>
      <4>1. ubus_msg_head(d)' = e /\ ofs'[d] = ofs[who] + Room(who)
        BY <2>1, <2>3, <3>2 DEF ubus_msg_head, TypeOK
      <4>2. buf[e.b].len \in Nat
        BY <2>2 DEF Buffer
      <4> QED BY <2>2, <3>2, <4>1, <4>2, TxAssumption
    <3> QED BY <2>2, <3>1, <3>2
  <2>4. CASE d # who
    <3>1. ofs'[d] = ofs[d] /\ queue'[d] = queue[d] /\ cur'[d] = cur[d]
      BY <2>2, <2>4 DEF TypeOK, Dequeued
    <3> QED BY <1>3, <3>1 DEF ubus_msg_head
  <2> QED BY <2>3, <2>4
<1>7. ASSUME NEW c \in Clients, (\E write \in BOOLEAN : ClientCb(c, write)) \/ ClientReads(c)
      PROVE  ofs'[d] <= buf'[ubus_msg_head(d)'.b].len
  <2>1. UNCHANGED <<queue, cur, ofs>>
    BY <1>7 DEF ClientCb, ClientReads, ringVars
  <2> QED BY <1>3, <2>1 DEF ubus_msg_head
<1>8. CASE NoReply \/ FlushEnd \/ ClientFreed \/ UNCHANGED vars
  <2>1. UNCHANGED <<queue, cur, ofs>>
    BY <1>8 DEF NoReply, FlushEnd, ClientFreed, ringVars, vars
  <2> QED BY <1>3, <2>1 DEF ubus_msg_head
<1> QED BY <1>4, <1>5, <1>6, <1>7, <1>8 DEF Next

\* What a step may do to the socket of a client: a write of a part of a message
\* that is as its sender made it, or none; and the client may read.
LEMMA NextWrite ==
  ASSUME TypeOK, CbInv, RingInv, HeapInv, OfsInv, [Next]_vars
  PROVE  \/ UNCHANGED wire /\ unread' \in [Clients -> 0 .. SockBuf]
         \/ \E c \in Clients : \E v, n, kind, j, k : WriteOf(c, v, n, kind, j, k)
<1>1. BufInv /\ RingType
  BY DEF HeapInv, RingInv
<1>2. ASSUME NEW c \in Clients, SendShared(c) \/ SendOwned(c) \/ Reply(c)
      PROVE  \/ UNCHANGED <<wire, unread>>
             \/ \E v, n, kind, j, k : WriteOf(c, v, n, kind, j, k)
  <2>1. PICK kind \in Kinds, v \in Buffer, b \in Bufs : Sent(c, kind, v, b)
    BY <1>1, <1>2, SendForms
  <2>2. \/ UNCHANGED <<wire, unread>>
        \/ WriteOf(c, v, next, kind, 0, 0) \/ WriteOf(c, v, next, kind, 0, v.len + 1)
        \/ WriteOf(c, v, next, kind, 0, Room(c))
    BY <2>1, SendWrites
  <2> QED BY <2>2
<1>3. CASE FlushHead
  <2>1. who \in Clients
    BY <1>1, <1>3, FlushWrites
  <2>2. \E v, n, kind, j, k : WriteOf(who, v, n, kind, j, k)
    BY <1>1, <1>3, FlushWrites
  <2> QED BY <2>1, <2>2
<1>4. ASSUME NEW c \in Clients, ClientReads(c)
      PROVE  UNCHANGED wire /\ unread' \in [Clients -> 0 .. SockBuf]
  BY <1>4, TxAssumption DEF ClientReads, TypeOK
<1>5. ASSUME NEW c \in Clients, (\E write \in BOOLEAN : ClientCb(c, write)) \/ Disconnect(c)
      PROVE  UNCHANGED <<wire, unread>>
  BY <1>5 DEF ClientCb, Disconnect, sockVars
<1>6. CASE NoReply \/ FlushEnd \/ ClientFreed \/ UNCHANGED vars
  BY <1>6 DEF NoReply, FlushEnd, ClientFreed, sockVars, vars, TypeOK
<1> QED BY <1>2, <1>3, <1>4, <1>5, <1>6 DEF Next, TypeOK

\* Whatever the daemon does, the variables keep their types.
LEMMA NextType ==
  ASSUME TypeOK, CbInv, RingInv, HeapInv, OfsInv, [Next]_vars
  PROVE  TypeOK'
<1>1. BufInv /\ RingInv' /\ HeapInv'
  BY NextRing, NextHeap DEF HeapInv
<1>2. wire' \in [Clients -> Seq(Unit)] /\ unread' \in [Clients -> 0 .. SockBuf]
  BY NextWrite, WriteForm DEF TypeOK
<1>3. /\ ofs' \in [Clients -> Nat] /\ next' \in 1 .. MaxMsgs + 1
      /\ armed' \in [Clients -> BOOLEAN] /\ event' \in [Clients -> BOOLEAN]
      /\ lastTo' \in Clients \union {NULL}
  <2>1. ASSUME NEW c \in Clients, SendShared(c) \/ SendOwned(c) \/ Reply(c)
        PROVE  <1>3!:
    <3>1. PICK kind \in Kinds, v \in Buffer, b \in Bufs : Sent(c, kind, v, b)
      BY <1>1, <2>1, SendForms
    <3>2. next' \in 1 .. MaxMsgs + 1 /\ lastTo' \in Clients
      BY <3>1, TxAssumption DEF Sent, Msgs, TypeOK
    <3>3. \/ UNCHANGED <<ofs, armed, event>>
          \/ /\ Room(c) \in 1 .. v.len /\ ofs' = [ofs EXCEPT ![c] = Room(c)] /\ ArmWrite(c)
      BY <3>1, SendWrites
    <3>4. ArmWrite(c) => armed' \in [Clients -> BOOLEAN] /\ event' \in [Clients -> BOOLEAN]
      BY DEF ArmWrite, TypeOK
    <3>5. ofs' \in [Clients -> Nat]
      <4>1. ofs' = ofs \/ (Room(c) \in Nat /\ ofs' = [ofs EXCEPT ![c] = Room(c)])
        BY <3>3
      <4> QED BY <4>1 DEF TypeOK
    <3> QED BY <3>2, <3>3, <3>4, <3>5 DEF TypeOK
  <2>2. CASE FlushHead
    <3>1. /\ who \in Clients /\ ofs[who] \in Nat /\ Room(who) \in Nat
          /\ \/ ofs' = [ofs EXCEPT ![who] = 0]
             \/ ofs' = [ofs EXCEPT ![who] = @ + Room(who)]
      BY <2>2, FlushWrites, TxAssumption DEF RingInv, TypeOK
    <3>2. UNCHANGED <<armed, event, next, lastTo>>
      BY <2>2 DEF FlushHead
    <3>3. ofs' \in [Clients -> Nat]
      BY <3>1 DEF TypeOK
    <3> QED BY <3>2, <3>3 DEF TypeOK
  <2>3. ASSUME NEW c \in Clients, NEW write \in BOOLEAN, ClientCb(c, write)
        PROVE  <1>3!:
    BY <2>3 DEF ClientCb, ringVars, TypeOK
  <2>4. ASSUME NEW c \in Clients, ClientReads(c)
        PROVE  <1>3!:
    BY <2>4 DEF ClientReads, ringVars, TypeOK
  <2>5. ASSUME NEW c \in Clients, Disconnect(c)
        PROVE  <1>3!:
    BY <2>5 DEF Disconnect, sockVars, TypeOK
  <2>6. CASE NoReply \/ UNCHANGED vars
    BY <2>6 DEF NoReply, ringVars, sockVars, vars, TypeOK
  <2>7. CASE FlushEnd
    BY <2>7 DEF FlushEnd, ringVars, TypeOK
  <2>8. CASE ClientFreed
    BY <2>8 DEF ClientFreed, ringVars, TypeOK
  <2> QED BY <2>1, <2>2, <2>3, <2>4, <2>5, <2>6, <2>7, <2>8 DEF Next
<1>4. /\ mode' \in {"idle", "flush", "close"} /\ who' \in Clients \union {NULL}
      /\ wrEvent' \in BOOLEAN /\ gone' \subseteq Clients
  <2>1. ASSUME NEW c \in Clients, SendShared(c) \/ SendOwned(c) \/ Reply(c)
        PROVE  <1>4!:
    BY <2>1 DEF SendShared, SendOwned, Reply, cbVars, TypeOK
  <2>2. CASE FlushHead
    BY <2>2 DEF FlushHead, CbReturns, cbVars, TypeOK
  <2>3. ASSUME NEW c \in Clients, NEW write \in BOOLEAN, ClientCb(c, write)
        PROVE  <1>4!:
    BY <2>3 DEF ClientCb, TypeOK
  <2>4. ASSUME NEW c \in Clients, ClientReads(c)
        PROVE  <1>4!:
    BY <2>4 DEF ClientReads, cbVars, TypeOK
  <2>5. ASSUME NEW c \in Clients, Disconnect(c)
        PROVE  <1>4!:
    BY <2>5 DEF Disconnect, TypeOK
  <2>6. CASE NoReply \/ UNCHANGED vars
    BY <2>6 DEF NoReply, cbVars, vars, TypeOK
  <2>7. CASE FlushEnd
    BY <2>7 DEF FlushEnd, CbReturns, TypeOK
  <2>8. CASE ClientFreed
    BY <2>8 DEF ClientFreed, CbReturns, TypeOK, CbInv
  <2> QED BY <2>1, <2>2, <2>3, <2>4, <2>5, <2>6, <2>7, <2>8 DEF Next
<1> QED BY <1>1, <1>2, <1>3, <1>4 DEF TypeOK, RingInv, RingType, HeapInv, HeapType

\* What was written stays as it was, and what is written now is as it was sent.
LEMMA NextContent ==
  ASSUME TypeOK, CbInv, RingInv, HeapInv, OfsInv, ContentIntact, [Next]_vars
  PROVE  ContentIntact'
<1>1. CASE UNCHANGED wire
  BY <1>1 DEF ContentIntact
<1>2. ASSUME NEW c \in Clients, NEW v, NEW n, NEW kind, NEW j, NEW k,
             WriteOf(c, v, n, kind, j, k)
      PROVE  ContentIntact'
  <2>1. CASE k = 0
    BY <1>1, <1>2, <2>1, WriteForm DEF TypeOK, Wrote
  <2>2. CASE k # 0
    <3> DEFINE p == Before(c)
    <3>1. k > 0 /\ k \in Nat /\ j \in Nat
      BY <1>2, <2>2 DEF WriteOf, Buffer
    <3>2. /\ \A d \in Clients \ {c} : wire'[d] = wire[d]
          /\ Len(wire'[c]) = p + k
          /\ p = 1 => wire'[c][1] = wire[c][Len(wire[c])]
          /\ \A i \in 1 .. k :
               /\ wire'[c][p + i].n = n /\ wire'[c][p + i].kind = kind
               /\ wire'[c][p + i].part = j + i - 1
               /\ wire'[c][p + i].val = IF j + i - 1 = 0 THEN v.hdr ELSE v.data
      <4>1. wire \in [Clients -> Seq(Unit)] /\ unread \in [Clients -> 0 .. SockBuf]
        BY DEF TypeOK
      <4>2. Wrote(c, v, n, kind, j, k)
        BY <1>2, <4>1, WriteForm
      <4> QED BY <3>1, <4>2 DEF Wrote
    <3>3. p = 1 => Len(wire[c]) \in 1 .. Len(wire[c])
      BY EmptySeq DEF TypeOK, Before
    <3>4. p \in {0, 1}
      BY DEF Before
    <3> HIDE DEF p
    <3> SUFFICES ASSUME NEW d \in Clients, NEW i \in 1 .. Len(wire'[d])
                 PROVE  LET u == wire'[d][i]
                        IN  /\ u.kind = "owned" => u.val = u.n
                            /\ u.kind = "shared" /\ u.part > 0 => u.val = u.n
      BY DEF ContentIntact
    <3>5. CASE d # c
      BY <3>2, <3>5 DEF ContentIntact
    <3>6. CASE d = c /\ i <= p
      <4>1. p = 1 /\ wire'[d][i] = wire[c][Len(wire[c])]
        BY <3>2, <3>4, <3>6
      <4> QED BY <3>3, <4>1 DEF ContentIntact
    <3>7. CASE d = c /\ ~(i <= p)
      <4>1. i - p \in 1 .. k /\ p + (i - p) = i
        BY <3>1, <3>2, <3>4, <3>7
      <4> DEFINE u == wire'[d][i]
      <4>2. /\ u.n = n /\ u.kind = kind
            /\ u.part = j + (i - p) - 1
            /\ u.val = IF j + (i - p) - 1 = 0 THEN v.hdr ELSE v.data
        BY <3>2, <3>7, <4>1
      <4>3. /\ kind # "reply" => v.data = n
            /\ kind = "owned" => v.hdr = n
        BY <1>2 DEF WriteOf
      <4> HIDE DEF u
      <4>4. /\ u.kind = "owned" => u.val = u.n
            /\ u.kind = "shared" /\ u.part > 0 => u.val = u.n
        BY <3>1, <4>1, <4>2, <4>3
      <4> QED BY <4>4 DEF u
    <3> QED BY <3>5, <3>6, <3>7
  <2> QED BY <2>1, <2>2
<1> QED BY <1>1, <1>2, NextWrite

-----------------------------------------------------------------------------
(* The order of messages *)

\* The messages in a ring are in the order in which they were sent.
OrderInv ==
  \A c \in Clients : \A s, t \in SlotNos :
    queue[c][s] # NULL /\ queue[c][t] # NULL /\ Ahead(c, s) < Ahead(c, t)
      => queue[c][s].n < queue[c][t].n

\* The order is kept, whatever the daemon does.
LEMMA NextOrder ==
  ASSUME TypeOK, CbInv, RingInv, HeapInv, OrderInv, [Next]_vars
  PROVE  OrderInv'
<1>0. BufInv /\ RingType /\ RingInv'
  BY NextRing DEF HeapInv, RingInv
<1> SUFFICES ASSUME NEW d \in Clients, NEW s \in SlotNos, NEW t \in SlotNos,
                    queue'[d][s] # NULL, queue'[d][t] # NULL,
                    Ahead(d, s)' < Ahead(d, t)'
             PROVE  queue'[d][s].n < queue'[d][t].n
  BY DEF OrderInv
<1>1. CASE queue'[d] = queue[d] /\ cur'[d] = cur[d]
  BY <1>1 DEF OrderInv, Ahead
<1>2. ASSUME NEW c \in Clients, NEW e \in Entry, Enqueued(c, e), e.n = next
      PROVE  queue'[d][s].n < queue'[d][t].n
  <2>1. CASE d # c
    BY <1>0, <1>1, <1>2, <2>1 DEF Enqueued, RingType
  <2>2. CASE d = c
    <3>1. /\ \A r \in SlotNos : queue'[d][r] = IF r = tail[d] THEN e ELSE queue[d][r]
          /\ cur'[d] = cur[d] /\ tail[d] \in SlotNos /\ cur[d] \in SlotNos
      BY <1>0, <1>2, <2>2 DEF Enqueued, RingType
    <3>2. \A r \in SlotNos : Ahead(d, r)' = Ahead(d, r)
      BY <3>1 DEF Ahead
    <3>3. \A r \in SlotNos : Ahead(d, r) \in Nat
      BY <3>1, TxAssumption DEF Ahead, SlotNos
    <3>4. RingOf(d) /\ Used(d) \in Nat /\ Ahead(d, tail[d]) = Used(d)
      BY <1>2, <2>2, UsedBound, EnqueueRing DEF RingInv
    <3>5. s # tail[d]
      <4> SUFFICES ASSUME s = tail[d] PROVE FALSE
        OBVIOUS
      <4>1. t # tail[d] /\ Ahead(d, tail[d]) < Ahead(d, t) /\ queue[d][t] # NULL
        BY <3>1, <3>2, <3>3
      <4>2. Ahead(d, t) < Used(d)
        BY <3>4, <4>1 DEF RingOf
      <4> QED BY <3>3, <3>4, <4>1, <4>2
    <3>6. queue'[d][s] = queue[d][s] /\ queue[d][s] # NULL
      BY <3>1, <3>5
    <3>7. CASE t = tail[d]
      <4>1. queue'[d][t].n = next /\ queue[d][s].n < next
        BY <1>2, <3>1, <3>6, <3>7 DEF HeapInv, EntryInv, EntryOK
      <4> QED BY <3>6, <4>1
    <3>8. CASE t # tail[d]
      BY <3>1, <3>2, <3>6, <3>8 DEF OrderInv
    <3> QED BY <3>7, <3>8
  <2> QED BY <2>1, <2>2
<1>3. ASSUME NEW c \in Clients, Dequeued(c)
      PROVE  queue'[d][s].n < queue'[d][t].n
  <2>1. CASE d # c
    BY <1>0, <1>1, <1>3, <2>1 DEF Dequeued, RingType
  <2>2. CASE d = c
    <3>1. /\ \A r \in SlotNos : queue'[d][r] = IF r = cur[d] THEN NULL ELSE queue[d][r]
          /\ cur'[d] = NextSlot(cur[d]) /\ cur[d] \in SlotNos
      BY <1>0, <1>3, <2>2 DEF Dequeued, RingType
    <3>2. \A r \in SlotNos : r # cur[d] => Ahead(d, r)' = Ahead(d, r) - 1
      BY <3>1, TxAssumption DEF Ahead, SlotNos, NextSlot
    <3>3. \A r \in SlotNos : Ahead(d, r) \in Nat
      BY <3>1, TxAssumption DEF Ahead, SlotNos
    <3>4. s # cur[d] /\ t # cur[d]
      BY <3>1
    <3>5. Ahead(d, s) < Ahead(d, t)
      BY <3>2, <3>3, <3>4
    <3> QED BY <3>1, <3>4, <3>5 DEF OrderInv
  <2> QED BY <2>1, <2>2
<1>4. ASSUME NEW c \in Clients, Cleared(c)
      PROVE  queue'[d][s].n < queue'[d][t].n
  <2>1. CASE d # c
    BY <1>0, <1>1, <1>4, <2>1 DEF Cleared, RingType
  <2>2. CASE d = c
    BY <1>0, <1>4, <2>2 DEF Cleared, RingType
  <2> QED BY <2>1, <2>2
<1>5. CASE UNCHANGED <<queue, cur, tail>>
  BY <1>1, <1>5
<1>6. CASE Next
  BY <1>0, <1>2, <1>3, <1>4, <1>5, <1>6, RingSteps
<1>7. CASE UNCHANGED vars
  BY <1>5, <1>7 DEF vars
<1> QED BY <1>6, <1>7

\* u comes after p in a stream of whole messages.
Follows(p, u) ==
  IF p.part = p.len THEN u.part = 0 /\ p.n < u.n
  ELSE u.part = p.part + 1 /\ u.n = p.n /\ u.len = p.len

LastUnit(c) == wire[c][Len(wire[c])]
Half(c) == wire[c] # <<>> /\ LastUnit(c).part # LastUnit(c).len
Chain(c) == \A k \in 2 .. Len(wire[c]) : Follows(wire[c][k - 1], wire[c][k])

\* The stream to a client, and where it is to go on: txq_ofs and the last unit
\* agree on how much of the head message has been sent.
StreamOK(c) ==
  /\ Chain(c)
  /\ wire[c] # <<>> => LastUnit(c).n < next
  /\ IF ubus_msg_head(c) = NULL THEN ~Half(c)
     ELSE /\ ofs[c] = IF Half(c) THEN LastUnit(c).part + 1 ELSE 0
          /\ Half(c) => /\ LastUnit(c).n = ubus_msg_head(c).n
                        /\ LastUnit(c).len = buf[ubus_msg_head(c).b].len
          /\ wire[c] # <<>> /\ ~Half(c) => LastUnit(c).n < ubus_msg_head(c).n

StreamInv == \A c \in Live : StreamOK(c)

\* A write that starts where the stream has ended continues it.
LEMMA WriteStream ==
  ASSUME TypeOK, NEW c \in Clients, NEW v, NEW n, NEW kind, NEW j, NEW k,
         WriteOf(c, v, n, kind, j, k), k # 0, Chain(c),
         IF Half(c) THEN LastUnit(c).n = n /\ LastUnit(c).len = v.len
                         /\ j = LastUnit(c).part + 1
         ELSE j = 0 /\ (wire[c] # <<>> => LastUnit(c).n < n)
  PROVE  /\ Chain(c)' /\ wire'[c] # <<>>
         /\ LastUnit(c)'.n = n /\ LastUnit(c)'.len = v.len
         /\ LastUnit(c)'.part = j + k - 1
<1> DEFINE p == Before(c)
           w == wire'[c]
<1>1. /\ v \in Buffer /\ v.len \in Nat /\ j \in 0 .. v.len /\ k \in 1 .. v.len + 1 - j
  BY DEF WriteOf, Buffer
<1>2. Wrote(c, v, n, kind, j, k) /\ w \in Seq(Unit)
  BY WriteForm DEF TypeOK
<1>3. /\ Len(w) = p + k
      /\ p = 1 => w[1] = LastUnit(c)
      /\ \A i \in 1 .. k : /\ w[p + i].n = n /\ w[p + i].part = j + i - 1
                           /\ w[p + i].len = v.len
  BY <1>1, <1>2 DEF Wrote, LastUnit
<1>4. p \in {0, 1} /\ (p = 1 <=> wire[c] # <<>>)
  BY DEF Before
<1> HIDE DEF p
<1>5. ASSUME NEW m \in 2 .. Len(w)
      PROVE  Follows(w[m - 1], w[m])
  <2>1. CASE m - 1 <= p
    <3>1. p = 1 /\ m = 2 /\ w[m - 1] = LastUnit(c)
      BY <1>3, <1>4, <2>1
    <3>2. w[m].n = n /\ w[m].part = j /\ w[m].len = v.len
      <4>1. 1 \in 1 .. k /\ p + 1 = m /\ j + 1 - 1 = j
        BY <1>1, <3>1
      <4> QED BY <1>3, <4>1
    <3> QED BY <1>4, <3>1, <3>2 DEF Follows, Half
  <2>2. CASE ~(m - 1 <= p)
    <3> DEFINE i == m - p
    <3>1. /\ i \in 1 .. k /\ i - 1 \in 1 .. k /\ p + i = m /\ p + (i - 1) = m - 1
      BY <1>1, <1>3, <1>4, <2>2
    <3> HIDE DEF i
    <3>2. /\ w[m].n = n /\ w[m].part = j + i - 1 /\ w[m].len = v.len
          /\ w[m - 1].n = n /\ w[m - 1].part = j + (i - 1) - 1 /\ w[m - 1].len = v.len
      BY <1>3, <3>1
    <3>3. j + (i - 1) - 1 # v.len /\ j + i - 1 = (j + (i - 1) - 1) + 1
      BY <1>1, <3>1
    <3> QED BY <3>2, <3>3 DEF Follows
  <2> QED BY <2>1, <2>2
<1>6. Chain(c)'
  BY <1>5 DEF Chain
<1>7. w # <<>>
  BY <1>1, <1>3, <1>4
<1>8. w[Len(w)].n = n /\ w[Len(w)].len = v.len /\ w[Len(w)].part = j + k - 1
  BY <1>1, <1>3
<1> QED BY <1>6, <1>7, <1>8 DEF LastUnit

\* A client that is freed or being freed stays so.
LEMMA LiveShrinks ==
  ASSUME TypeOK, CbInv, [Next]_vars
  PROVE  Live' \subseteq Live
<1>1. ASSUME NEW c \in Clients, SendShared(c) \/ SendOwned(c) \/ Reply(c)
      PROVE  UNCHANGED <<mode, who, gone>>
  BY <1>1 DEF SendShared, SendOwned, Reply, cbVars
<1>2. ASSUME NEW c \in Clients, NEW write, ClientCb(c, write)
      PROVE  Live' \subseteq Live
  BY <1>2 DEF ClientCb, Live
<1>3. ASSUME NEW c \in Clients, ClientReads(c)
      PROVE  UNCHANGED <<mode, who, gone>>
  BY <1>3 DEF ClientReads, cbVars
<1>4. ASSUME NEW c \in Clients, Disconnect(c)
      PROVE  Live' \subseteq Live /\ c \notin Live'
  BY <1>4 DEF Disconnect, Live
<1>5. CASE FlushEnd \/ FlushHead
  BY <1>5 DEF FlushEnd, FlushHead, CbReturns, cbVars, Live
<1>6. CASE ClientFreed
  BY <1>6 DEF ClientFreed, CbReturns, Live
<1>7. CASE NoReply \/ UNCHANGED vars
  BY <1>7 DEF NoReply, cbVars, vars, Live
<1>8. UNCHANGED <<mode, who, gone>> => Live' = Live
  BY DEF Live
<1> QED BY <1>1, <1>2, <1>3, <1>4, <1>5, <1>6, <1>7, <1>8 DEF Next

\* The stream to every live client stays one of whole messages in order.
LEMMA NextStream ==
  ASSUME TypeOK, CbInv, RingInv, HeapInv, OfsInv, OrderInv, StreamInv, [Next]_vars
  PROVE  StreamInv'
<1>0. BufInv /\ RingType /\ RingInv' /\ HeapInv' /\ TypeOK' /\ next \in Nat
  BY NextRing, NextHeap, NextType DEF HeapInv, HeapType, RingInv
<1> SUFFICES ASSUME NEW d \in Live', d \in Live, d \in Clients, StreamOK(d)
             PROVE  StreamOK(d)'
  BY LiveShrinks DEF StreamInv, Live
<1>1. ASSUME wire'[d] = wire[d], ubus_msg_head(d)' = ubus_msg_head(d), ofs'[d] = ofs[d],
             next' = next \/ next' = next + 1
      PROVE  StreamOK(d)'
  <2>1. ubus_msg_head(d) # NULL =>
          buf'[ubus_msg_head(d).b].len = buf[ubus_msg_head(d).b].len
    <3> SUFFICES ASSUME ubus_msg_head(d) # NULL
                 PROVE  buf'[ubus_msg_head(d).b].len = buf[ubus_msg_head(d).b].len
      OBVIOUS
    <3>1. ubus_msg_head(d).b \in DOMAIN buf
      BY <1>0 DEF HeapInv, RefsCounted, ubus_msg_head, RingType
    <3>2. cur'[d] \in SlotNos
      BY <1>0 DEF RingInv, RingType
    <3>3. ubus_msg_head(d)'.b \in DOMAIN buf'
      BY <1>0, <1>1, <3>2 DEF HeapInv, RefsCounted, ubus_msg_head
    <3> QED BY <1>1, <3>1, <3>3, NextLens
  <2>2. Chain(d)' /\ LastUnit(d)' = LastUnit(d) /\ Half(d)' = Half(d)
    BY <1>1 DEF StreamOK, Chain, LastUnit, Half
  <2>3. wire[d] # <<>> => LastUnit(d).n \in Nat
    <3>1. wire[d] \in Seq(Unit)
      BY DEF TypeOK
    <3>2. wire[d] # <<>> => LastUnit(d) \in Unit
      BY <3>1, EmptySeq, ElementOfSeq DEF LastUnit
    <3> QED BY <3>2 DEF Unit, Msgs
  <2>4. wire'[d] # <<>> => LastUnit(d)'.n < next'
    BY <1>0, <1>1, <2>2, <2>3 DEF StreamOK
  <2> QED BY <1>1, <2>1, <2>2, <2>4 DEF StreamOK
<1>2. ASSUME NEW c \in Clients, SendShared(c) \/ SendOwned(c) \/ Reply(c)
      PROVE  StreamOK(d)'
  <2>1. PICK kind \in Kinds, v \in Buffer, b \in Bufs : Sent(c, kind, v, b)
    BY <1>0, <1>2, SendForms
  <2> DEFINE e == [b |-> b, n |-> next, kind |-> kind]
  <2>2. next' = next + 1
    BY <2>1 DEF Sent
  <2>3. e.b = b /\ e.n = next /\ e # NULL
    BY <2>1, TxAssumption DEF Sent, Entry
  <2> HIDE DEF e
  <2>4. CASE ubus_msg_head(c) = NULL /\ WriteOf(c, v, next, kind, 0, 0)
             /\ UNCHANGED <<queue, cur, ofs>>
    <3>1. wire' = wire
      BY <2>4, WriteForm DEF TypeOK, Wrote
    <3> QED BY <1>1, <2>2, <2>4, <3>1 DEF ubus_msg_head
  <2>5. CASE ubus_msg_head(c) = NULL /\ WriteOf(c, v, next, kind, 0, v.len + 1)
             /\ UNCHANGED <<queue, cur, ofs>>
    <3>1. CASE d # c
      <4>1. wire'[d] = wire[d]
        BY <2>5, <3>1, WriteForm DEF TypeOK, Wrote
      <4> QED BY <1>1, <2>2, <2>5, <4>1 DEF ubus_msg_head
    <3>2. CASE d = c
      <4>1. Chain(c) /\ ~Half(c) /\ (wire[c] # <<>> => LastUnit(c).n < next)
        BY <2>5, <3>2 DEF StreamOK
      <4>2. v.len + 1 # 0 /\ 0 + (v.len + 1) - 1 = v.len
        BY DEF Buffer
      <4>3. /\ Chain(c)' /\ wire'[c] # <<>> /\ LastUnit(c)'.n = next
            /\ LastUnit(c)'.len = v.len /\ LastUnit(c)'.part = v.len
        BY <2>5, <4>1, <4>2, WriteStream
      <4>4. ubus_msg_head(c)' = NULL
        BY <2>5 DEF ubus_msg_head
      <4> QED BY <1>0, <2>2, <3>2, <4>3, <4>4 DEF StreamOK, Half
    <3> QED BY <3>1, <3>2
  <2>6. CASE /\ ubus_msg_head(c) = NULL
             /\ Room(c) \in 1 .. v.len /\ WriteOf(c, v, next, kind, 0, Room(c))
             /\ ofs' = [ofs EXCEPT ![c] = Room(c)]
             /\ Enqueued(c, e) /\ KeptHeap(b, kind, v)
    <3>1. CASE d # c
      <4>1. wire'[d] = wire[d]
        BY <2>6, <3>1, WriteForm DEF TypeOK, Wrote
      <4>2. ubus_msg_head(d)' = ubus_msg_head(d) /\ ofs'[d] = ofs[d]
        BY <2>6, <3>1, EnqueueHead DEF TypeOK
      <4> QED BY <1>1, <2>2, <4>1, <4>2
    <3>2. CASE d = c
      <4>1. Chain(c) /\ ~Half(c) /\ (wire[c] # <<>> => LastUnit(c).n < next)
        BY <2>6, <3>2 DEF StreamOK
      <4>2. Room(c) # 0 /\ 0 + Room(c) - 1 = Room(c) - 1 /\ Room(c) - 1 # v.len
            /\ (Room(c) - 1) + 1 = Room(c)
        BY <2>6 DEF Buffer
      <4>3. /\ Chain(c)' /\ wire'[c] # <<>> /\ LastUnit(c)'.n = next
            /\ LastUnit(c)'.len = v.len /\ LastUnit(c)'.part = Room(c) - 1
        BY <2>6, <4>1, <4>2, WriteStream
      <4>4. ubus_msg_head(c)' = e /\ ofs'[c] = Room(c)
        BY <2>6, EnqueueHead DEF TypeOK
      <4>5. buf'[b].len = v.len
        BY <2>6 DEF KeptHeap
      <4>6. Half(c)'
        BY <4>2, <4>3 DEF Half
      <4> QED BY <1>0, <2>2, <2>3, <3>2, <4>2, <4>3, <4>4, <4>5, <4>6 DEF StreamOK
    <3> QED BY <3>1, <3>2
  <2>7. CASE /\ ubus_msg_head(c) # NULL /\ UNCHANGED <<ofs, wire>>
             /\ Enqueued(c, e) \/ UNCHANGED <<queue, cur, tail>>
    <3>1. ubus_msg_head(d)' = ubus_msg_head(d)
      BY <2>7, EnqueueHead DEF ubus_msg_head
    <3> QED BY <1>1, <2>2, <2>7, <3>1
  <2> QED BY <2>1, <2>4, <2>5, <2>6, <2>7, SendWrites DEF e
<1>3. CASE FlushHead
  <2>1. PICK e : e = ubus_msg_head(who)
    OBVIOUS
  <2> DEFINE v == buf[e.b]
             o == ofs[who]
  <2>2. /\ who \in Clients /\ e \in Entry /\ EntryOK(e) /\ v \in Buffer
        /\ o \in 0 .. v.len /\ Room(who) \in 0 .. SockBuf /\ e # NULL
        /\ UNCHANGED next
    BY <1>0, <1>3, <2>1, FlushWrites DEF FlushHead
  <2>3. \/ /\ Room(who) >= v.len + 1 - o
           /\ WriteOf(who, v, e.n, e.kind, o, v.len + 1 - o)
           /\ Dequeued(who) /\ ofs' = [ofs EXCEPT ![who] = 0]
        \/ /\ Room(who) < v.len + 1 - o
           /\ WriteOf(who, v, e.n, e.kind, o, Room(who))
           /\ ofs' = [ofs EXCEPT ![who] = @ + Room(who)]
           /\ UNCHANGED <<buf, queue, cur, tail>>
    BY <1>0, <1>3, <2>1, FlushWrites
  <2>4. v.len \in Nat
    BY <2>2 DEF Buffer
  <2>5. CASE d # who
    <3>1. wire'[d] = wire[d]
      BY <2>2, <2>3, <2>5, WriteForm DEF TypeOK, Wrote
    <3>2. ofs'[d] = ofs[d] /\ queue'[d] = queue[d] /\ cur'[d] = cur[d]
      BY <2>2, <2>3, <2>5 DEF TypeOK, Dequeued
    <3> QED BY <1>1, <2>2, <3>1, <3>2 DEF ubus_msg_head
  <2>6. CASE d = who
    <3>1. /\ Chain(d)
          /\ IF Half(d) THEN LastUnit(d).n = e.n /\ LastUnit(d).len = v.len
                             /\ o = LastUnit(d).part + 1
             ELSE o = 0 /\ (wire[d] # <<>> => LastUnit(d).n < e.n)
      BY <2>1, <2>2, <2>6 DEF StreamOK
    <3> HIDE DEF v, o
    <3>2. CASE /\ WriteOf(who, v, e.n, e.kind, o, v.len + 1 - o)
               /\ Dequeued(who) /\ ofs' = [ofs EXCEPT ![who] = 0]
      <4>1. v.len + 1 - o # 0 /\ o + (v.len + 1 - o) - 1 = v.len
        BY <2>2, <2>4
      <4>2. /\ Chain(d)' /\ wire'[d] # <<>> /\ LastUnit(d)'.n = e.n
            /\ LastUnit(d)'.len = v.len /\ LastUnit(d)'.part = v.len
        BY <2>6, <3>1, <3>2, <4>1, WriteStream
      <4>3. e.n < next'
        BY <2>2 DEF EntryOK
      <4>4. ofs'[d] = 0 /\ ~Half(d)'
        BY <2>6, <3>2, <4>2 DEF Half, TypeOK
      <4>5. ubus_msg_head(d)' # NULL => e.n < ubus_msg_head(d)'.n
        <5> SUFFICES ASSUME ubus_msg_head(d)' # NULL
                     PROVE  e.n < ubus_msg_head(d)'.n
          OBVIOUS
        <5> DEFINE t == NextSlot(cur[d])
        <5>1. cur'[d] = t /\ cur[d] \in SlotNos /\ t \in SlotNos
              /\ queue[d][cur[d]] = e
          BY <1>0, <2>1, <2>6, <3>2, NextSlotType DEF Dequeued, RingType, ubus_msg_head
        <5>2. t # cur[d] /\ queue'[d][t] = queue[d][t] /\ queue[d][t] # NULL
          BY <1>0, <2>6, <3>2, <5>1 DEF Dequeued, RingType, ubus_msg_head
        <5>3. Ahead(d, cur[d]) < Ahead(d, t)
          BY <5>1, <5>2, TxAssumption DEF Ahead, SlotNos
        <5> QED BY <2>2, <5>1, <5>2, <5>3 DEF OrderInv, ubus_msg_head
      <4> QED BY <4>2, <4>3, <4>4, <4>5 DEF StreamOK
    <3>3. CASE /\ Room(who) < v.len + 1 - o
               /\ WriteOf(who, v, e.n, e.kind, o, Room(who))
               /\ ofs' = [ofs EXCEPT ![who] = @ + Room(who)]
               /\ UNCHANGED <<buf, queue, cur, tail>>
      <4>1. ubus_msg_head(d)' = e /\ ubus_msg_head(d) = e /\ ofs'[d] = o + Room(who)
            /\ o = ofs[d]
        BY <2>1, <2>6, <3>3 DEF ubus_msg_head, TypeOK, o
      <4>2. CASE Room(who) = 0
        <5>1. wire' = wire /\ ofs'[d] = ofs[d]
          <6>1. wire' = wire
            BY <2>2, <3>3, <4>2, WriteForm DEF TypeOK, Wrote
          <6>2. o + 0 = o
            BY <2>2, <2>4
          <6> QED BY <4>1, <4>2, <6>1, <6>2
        <5> QED BY <1>1, <2>2, <4>1, <5>1
      <4>3. CASE Room(who) # 0
        <5>1. /\ Chain(d)' /\ wire'[d] # <<>> /\ LastUnit(d)'.n = e.n
              /\ LastUnit(d)'.len = v.len /\ LastUnit(d)'.part = o + Room(who) - 1
          BY <2>6, <3>1, <3>3, <4>3, WriteStream
        <5>2. o + Room(who) - 1 # v.len /\ (o + Room(who) - 1) + 1 = o + Room(who)
          BY <2>2, <2>4, <3>3
        <5>3. Half(d)'
          BY <5>1, <5>2 DEF Half
        <5>4. e.n < next'
          BY <2>2 DEF EntryOK
        <5>5. buf'[e.b].len = v.len
          BY <3>3 DEF v
        <5> QED BY <2>2, <4>1, <5>1, <5>2, <5>3, <5>4, <5>5 DEF StreamOK
      <4> QED BY <4>2, <4>3
    <3> QED BY <2>3, <3>2, <3>3 DEF v, o
  <2> QED BY <2>5, <2>6
<1>4. ASSUME NEW c \in Clients, Disconnect(c)
      PROVE  StreamOK(d)'
  <2>1. d # c
    BY <1>4 DEF Disconnect, Live
  <2>2. /\ wire' = wire /\ next' = next /\ ofs'[d] = ofs[d]
        /\ queue'[d] = queue[d] /\ cur'[d] = cur[d]
    BY <1>0, <1>4, <2>1 DEF Disconnect, sockVars, TypeOK
  <2> QED BY <1>1, <2>2 DEF ubus_msg_head
<1>5. ASSUME NEW c \in Clients, (\E write \in BOOLEAN : ClientCb(c, write)) \/ ClientReads(c)
      PROVE  StreamOK(d)'
  <2>1. UNCHANGED <<queue, cur, ofs, wire, next>>
    BY <1>5 DEF ClientCb, ClientReads, ringVars
  <2> QED BY <1>1, <2>1 DEF ubus_msg_head
<1>6. CASE NoReply \/ FlushEnd \/ ClientFreed \/ UNCHANGED vars
  <2>1. UNCHANGED <<queue, cur, ofs, wire, next>>
    BY <1>6 DEF NoReply, FlushEnd, ClientFreed, ringVars, sockVars, vars
  <2> QED BY <1>1, <2>1 DEF ubus_msg_head
<1> QED BY <1>2, <1>3, <1>4, <1>5, <1>6 DEF Next

-----------------------------------------------------------------------------
(* The theorems *)

TxInv ==
  /\ TypeOK /\ CbInv /\ RingInv /\ HeapInv /\ OfsInv
  /\ OrderInv /\ StreamInv /\ ContentIntact

\* The daemon starts with empty rings, one reference to retmsg and nothing sent.
LEMMA InitTx == Init => TxInv
<1> SUFFICES ASSUME Init PROVE TxInv
  OBVIOUS
<1>0. /\ 0 \in SlotNos
      /\ \A c \in Clients : cur[c] = 0 /\ tail[c] = 0 /\ queue[c] = [s \in SlotNos |-> NULL]
      /\ \A c \in Clients : wire[c] = <<>> /\ ubus_msg_head(c) = NULL
  BY TxAssumption DEF Init, SlotNos, ubus_msg_head
<1> DEFINE r == [ref |-> 1, hdr |-> 0, data |-> 0, len |-> 1]
<1>1. /\ DOMAIN buf = {Retmsg} /\ buf[Retmsg] = r
      /\ r \in Buffer /\ r.ref = 1 /\ r.len = 1
  BY DEF Init, Buffer
<1> HIDE DEF r
<1>2. TypeOK
  <2>1. DOMAIN buf \subseteq Bufs /\ \A b \in DOMAIN buf : buf[b] \in Buffer
    BY <1>1 DEF Bufs
  <2>2. RingType
    BY <1>0 DEF Init, RingType
  <2>3. wire \in [Clients -> Seq(Unit)]
    BY EmptySeq DEF Init
  <2>4. /\ ofs \in [Clients -> Nat] /\ unread \in [Clients -> 0 .. SockBuf]
        /\ armed \in [Clients -> BOOLEAN] /\ event \in [Clients -> BOOLEAN]
    BY TxAssumption DEF Init
  <2>5. /\ mode \in {"idle", "flush", "close"} /\ who \in Clients \union {NULL}
        /\ wrEvent \in BOOLEAN /\ gone \subseteq Clients
        /\ lastTo \in Clients \union {NULL}
    BY DEF Init
  <2>6. next \in 1 .. MaxMsgs + 1
    BY TxAssumption DEF Init
  <2> QED BY <2>1, <2>2, <2>3, <2>4, <2>5, <2>6 DEF TypeOK, RingType
<1>3. CbInv
  BY DEF Init, CbInv
<1>4. RingInv
  <2>1. RingType
    BY <1>2 DEF TypeOK, RingType
  <2>2. ASSUME NEW c \in Clients
        PROVE  RingOf(c)
    <3>1. UsedSlots(c) = {}
      BY <1>0 DEF UsedSlots
    <3>2. Used(c) = 0
      BY <3>1, UsedBound, FS_EmptySet
    <3>3. \A s \in SlotNos : Ahead(c, s) \in Nat /\ Ahead(c, 0) = 0
      BY <1>0 DEF Ahead, SlotNos
    <3> QED BY <1>0, <3>2, <3>3, TxAssumption DEF RingOf
  <2> QED BY <2>1, <2>2 DEF RingInv
<1>5. HeapInv
  <2>1. HeapType
    BY <1>1, <1>2, TxAssumption DEF HeapType, TypeOK
  <2>2. BufInv
    BY <1>1 DEF BufInv, Init, Retmsg
  <2>3. EntryInv
    BY <1>0 DEF EntryInv
  <2>4. RefsCounted
    <3>1. Holders(Retmsg) = {}
      BY <1>0 DEF Holders, HeldBy
    <3>2. Cardinality(Holders(Retmsg)) = 0
      BY <3>1, FS_EmptySet
    <3> QED BY <1>0, <1>1, <3>2 DEF RefsCounted
  <2> QED BY <2>1, <2>2, <2>3, <2>4 DEF HeapInv
<1>6. OfsInv /\ OrderInv
  BY <1>0 DEF OfsInv, OrderInv
<1>7. StreamInv /\ ContentIntact
  <2>1. \A c \in Clients : Len(wire[c]) = 0
    BY <1>0, EmptySeq
  <2> QED BY <1>0, <2>1 DEF StreamInv, StreamOK, Chain, Half, Live, ContentIntact
<1> QED BY <1>2, <1>3, <1>4, <1>5, <1>6, <1>7 DEF TxInv

\* The invariant is inductive.
LEMMA NextTx == TxInv /\ [Next]_vars => TxInv'
<1> SUFFICES ASSUME TxInv, [Next]_vars PROVE TxInv'
  OBVIOUS
<1> USE DEF TxInv
<1>1. BufInv
  BY DEF HeapInv
<1>2. TypeOK' /\ CbInv' /\ RingInv' /\ HeapInv'
  BY <1>1, NextType, NextCb, NextRing, NextHeap
<1>3. OfsInv' /\ OrderInv' /\ StreamInv' /\ ContentIntact'
  BY NextOfs, NextOrder, NextStream, NextContent
<1> QED BY <1>2, <1>3

\* Every state of the daemon satisfies it.
LEMMA TxInvariance == Spec => []TxInv
BY InitTx, NextTx, PTL DEF Spec

\* The used slots of every client's ring are the run from txq_cur to txq_tail, so
\* that ubus_msg_enqueue and ubus_msg_head can test a single slot.
THEOREM RingKeepsShape == Spec => []RingShape
<1>1. TxInv => RingShape
  <2> SUFFICES ASSUME TxInv, NEW c \in Clients
               PROVE  \E k \in 0 .. Backlog :
                        /\ \A s \in SlotNos : queue[c][s] # NULL <=> Ahead(c, s) < k
                        /\ Ahead(c, tail[c]) = IF k = Backlog THEN 0 ELSE k
    BY DEF TxInv, RingShape
  <2>1. Used(c) \in 0 .. Backlog
    BY UsedBound
  <2>2. RingOf(c)
    BY DEF TxInv, RingInv
  <2> QED BY <2>1, <2>2 DEF RingOf
<1> QED BY <1>1, TxInvariance, PTL

\* ubus_msg_ref and ubus_msg_free keep the count of every buffer equal to the
\* number of ring slots that hold it, and no ring holds a freed buffer.
THEOREM RefsStayCounted == Spec => []RefsCounted
BY TxInvariance, PTL DEF TxInv, HeapInv

\* Partial writes, the ring and direct sends never interleave, repeat or reorder
\* messages on the socket of a live client, and txq_ofs is where its stream ends.
THEOREM StreamStaysFramed == Spec => []Framed
<1>1. TxInv => Framed
  <2> SUFFICES ASSUME TxInv, NEW c \in Live
               PROVE  LET last == wire[c][Len(wire[c])]
                          half == wire[c] # <<>> /\ last.part # last.len
                      IN  /\ \A k \in 2 .. Len(wire[c]) :
                               LET u == wire[c][k]
                                   p == wire[c][k - 1]
                               IN  IF p.part = p.len
                                     THEN u.part = 0 /\ p.n < u.n
                                     ELSE u.part = p.part + 1 /\ u.n = p.n /\ u.len = p.len
                          /\ IF ubus_msg_head(c) = NULL
                               THEN ~half
                               ELSE ofs[c] = IF half THEN last.part + 1 ELSE 0
    BY DEF Framed
  <2>1. StreamOK(c)
    BY DEF TxInv, StreamInv
  <2> QED BY <2>1 DEF StreamOK, Chain, Follows, Half, LastUnit
<1> QED BY <1>1, TxInvariance, PTL

\* A message with a buffer of its own reaches the wire as it was made, and one that
\* borrowed the blob under construction with its data.
THEOREM ContentStaysIntact == Spec => []ContentIntact
BY TxInvariance, PTL DEF TxInv

-----------------------------------------------------------------------------
(* The ring implements a bounded queue *)

\* The slot of the k-th message of a ring.
At(c, k) == (cur[c] + k - 1) % Backlog

\* It is k - 1 slots past txq_cur, and no other slot is.
LEMMA AtSlot ==
  ASSUME NEW c, cur[c] \in SlotNos, NEW k \in 1 .. Backlog
  PROVE  /\ At(c, k) \in SlotNos /\ Ahead(c, At(c, k)) = k - 1
         /\ \A s \in SlotNos : Ahead(c, s) = k - 1 => s = At(c, k)
<1> DEFINE a == cur[c] + k - 1
<1>1. Backlog \in Nat \ {0} /\ cur[c] \in 0 .. Backlog - 1
  BY TxAssumption DEF SlotNos
<1>2. a \in Nat /\ a < Backlog + Backlog
  BY <1>1
<1>3. At(c, k) = IF a < Backlog THEN a ELSE a - Backlog
  <2>1. At(c, k) = a % Backlog
    BY DEF At
  <2> HIDE DEF a
  <2>2. a < Backlog => a % Backlog = a
    BY <1>1, <1>2
  <2>3. Backlog <= a => a % Backlog = a - Backlog
    BY <1>1, <1>2
  <2> QED BY <1>1, <1>2, <2>1, <2>2, <2>3
<1> QED BY <1>1, <1>3 DEF Ahead, SlotNos

\* The contents of a ring are a sequence, of the messages in its used slots.
LEMMA ContentsForm ==
  ASSUME RingInv, NEW c \in Clients
  PROVE  /\ Contents(c) \in Seq(Msgs) /\ Len(Contents(c)) = Used(c)
         /\ Used(c) \in 0 .. Backlog
         /\ \A k \in 1 .. Used(c) : Contents(c)[k] = queue[c][At(c, k)].n
<1>1. Used(c) \in 0 .. Backlog /\ Used(c) \in Nat
  BY UsedBound
<1>2. Contents(c) = [k \in 1 .. Used(c) |-> queue[c][At(c, k)].n]
  BY DEF Contents, At
<1>3. ASSUME NEW k \in 1 .. Used(c)
      PROVE  queue[c][At(c, k)].n \in Msgs
  <2>1. cur[c] \in SlotNos /\ RingOf(c) /\ k \in 1 .. Backlog
    BY <1>1, TxAssumption DEF RingInv, RingType
  <2>2. At(c, k) \in SlotNos /\ Ahead(c, At(c, k)) = k - 1
    BY <2>1, AtSlot
  <2>3. queue[c][At(c, k)] # NULL
    BY <1>1, <2>1, <2>2 DEF RingOf
  <2> QED BY <2>2, <2>3 DEF RingInv, RingType, Entry
<1>4. Contents(c) \in [1 .. Used(c) -> Msgs]
  BY <1>2, <1>3
<1>5. Contents(c) \in Seq(Msgs) /\ Len(Contents(c)) = Used(c)
  BY <1>1, <1>4, SeqDef, LenProperties
<1> QED BY <1>1, <1>2, <1>5

\* ubus_msg_enqueue appends to the contents.
LEMMA EnqueueContents ==
  ASSUME RingInv, NEW c \in Clients, NEW e \in Entry, Enqueued(c, e)
  PROVE  /\ Contents(c)' = Append(Contents(c), e.n)
         /\ Len(Contents(c)) < Backlog
<1>1. RingInv' /\ Used(c)' = Used(c) + 1 /\ Used(c) < Backlog /\ Ahead(c, tail[c]) = Used(c)
  BY EnqueueRing
<1>2. Used(c) \in Nat
  BY UsedBound
<1>3. /\ Contents(c) \in Seq(Msgs) /\ Len(Contents(c)) = Used(c)
      /\ \A k \in 1 .. Used(c) : Contents(c)[k] = queue[c][At(c, k)].n
  BY ContentsForm
<1>4. cur[c] \in SlotNos /\ tail[c] \in SlotNos /\ cur'[c] = cur[c]
      /\ \A s \in SlotNos : queue'[c][s] = IF s = tail[c] THEN e ELSE queue[c][s]
  BY DEF RingInv, RingType, Enqueued
<1>5. Contents(c)' = [k \in 1 .. Used(c) + 1 |-> queue'[c][At(c, k)].n]
  BY <1>1, <1>4 DEF Contents, At
<1>6. ASSUME NEW k \in 1 .. Used(c) + 1
      PROVE  queue'[c][At(c, k)].n = IF k = Used(c) + 1 THEN e.n ELSE Contents(c)[k]
  <2>1. k \in 1 .. Backlog
    BY <1>1, <1>2, TxAssumption
  <2>2. /\ At(c, k) \in SlotNos /\ Ahead(c, At(c, k)) = k - 1
        /\ Ahead(c, tail[c]) = k - 1 => tail[c] = At(c, k)
    BY <1>4, <2>1, AtSlot
  <2>3. CASE k = Used(c) + 1
    BY <1>1, <1>2, <1>4, <2>2, <2>3
  <2>4. CASE k # Used(c) + 1
    <3>1. At(c, k) # tail[c] /\ k \in 1 .. Used(c)
      BY <1>1, <1>2, <2>2, <2>4
    <3> QED BY <1>3, <1>4, <2>2, <2>4, <3>1
  <2> QED BY <2>3, <2>4
<1>7. e.n \in Msgs
  BY DEF Entry
<1>8. Append(Contents(c), e.n) =
        [k \in 1 .. Used(c) + 1 |-> IF k = Used(c) + 1 THEN e.n ELSE Contents(c)[k]]
  BY <1>2, <1>3, <1>7
<1> QED BY <1>1, <1>3, <1>5, <1>6, <1>8

\* ubus_msg_dequeue takes away the first of the contents.
LEMMA DequeueContents ==
  ASSUME RingInv, NEW c \in Clients, Dequeued(c)
  PROVE  Contents(c) # <<>> /\ Contents(c)' = Tail(Contents(c))
<1>1. RingInv' /\ Used(c)' = Used(c) - 1
  BY DequeueRing
<1>2. Used(c) \in 0 .. Backlog /\ RingOf(c)
  BY UsedBound DEF RingInv
<1>3. /\ Contents(c) \in Seq(Msgs) /\ Len(Contents(c)) = Used(c)
      /\ \A k \in 1 .. Used(c) : Contents(c)[k] = queue[c][At(c, k)].n
  BY ContentsForm
<1>4. cur[c] \in SlotNos /\ cur'[c] = NextSlot(cur[c]) /\ cur'[c] \in SlotNos
      /\ \A s \in SlotNos : queue'[c][s] = IF s = cur[c] THEN NULL ELSE queue[c][s]
  BY NextSlotType DEF RingInv, RingType, Dequeued
<1>5. 0 < Used(c)
  <2>1. Ahead(c, cur[c]) = 0
    BY <1>4 DEF Ahead, SlotNos
  <2> QED BY <1>2, <1>4, <2>1 DEF RingOf, Dequeued
<1>6. Contents(c) # <<>>
  BY <1>2, <1>3, <1>5, EmptySeq
<1>7. Contents(c)' = [k \in 1 .. Used(c) - 1 |-> queue'[c][At(c, k)'].n]
  BY <1>1 DEF Contents, At
<1>8. ASSUME NEW k \in 1 .. Used(c) - 1
      PROVE  queue'[c][At(c, k)'].n = Contents(c)[k + 1]
  <2>1. k + 1 \in 1 .. Used(c) /\ k + 1 \in 1 .. Backlog /\ k \in 1 .. Backlog
    BY <1>2, TxAssumption
  <2>2. /\ At(c, k + 1) \in SlotNos /\ Ahead(c, At(c, k + 1)) = (k + 1) - 1
        /\ Ahead(c, cur[c]) = 0
    BY <1>4, <2>1, AtSlot DEF Ahead, SlotNos
  <2>3. At(c, k + 1) # cur[c]
    BY <2>1, <2>2
  <2>4. At(c, k)' = At(c, k + 1)
    <3>1. At(c, k)' = (NextSlot(cur[c]) + k - 1) % Backlog
      BY <1>4 DEF At
    <3>2. At(c, k + 1) = (cur[c] + (k + 1) - 1) % Backlog
      BY DEF At
    <3> DEFINE a == cur[c] + k
    <3>3. a \in Nat /\ cur[c] + (k + 1) - 1 = a /\ Backlog \in Nat \ {0}
      BY <1>4, TxAssumption DEF SlotNos
    <3>4. CASE cur[c] # Backlog - 1
      <4>1. NextSlot(cur[c]) + k - 1 = a
        BY <1>4, <3>4 DEF NextSlot, SlotNos
      <4> QED BY <3>1, <3>2, <3>3, <4>1
    <3>5. CASE cur[c] = Backlog - 1
      <4>1. NextSlot(cur[c]) + k - 1 = k - 1 /\ a = Backlog + (k - 1)
            /\ k - 1 \in Nat /\ k - 1 < Backlog
        BY <2>1, <3>3, <3>5 DEF NextSlot
      <4>2. (k - 1) % Backlog = k - 1
        BY <3>3, <4>1
      <4>3. a % Backlog = a - Backlog
        <5> HIDE DEF a
        <5>1. Backlog <= a /\ a < Backlog + Backlog
          BY <3>3, <4>1
        <5> QED BY <3>3, <5>1
      <4> QED BY <3>1, <3>2, <3>3, <4>1, <4>2, <4>3
    <3> QED BY <3>4, <3>5
  <2> QED BY <1>3, <1>4, <2>1, <2>2, <2>3, <2>4
<1>9. Tail(Contents(c)) = [k \in 1 .. Used(c) - 1 |-> Contents(c)[k + 1]]
  <2> DEFINE q == Tail(Contents(c))
  <2>1. /\ q \in Seq(Msgs) /\ Len(q) = Used(c) - 1
        /\ \A k \in 1 .. Len(q) : q[k] = Contents(c)[k + 1]
    BY <1>3, <1>6, HeadTailProperties
  <2> HIDE DEF q
  <2>2. q \in [1 .. Len(q) -> Msgs]
    BY <2>1, LenProperties
  <2>3. q = [k \in 1 .. Len(q) |-> Contents(c)[k + 1]]
    BY <2>1, <2>2
  <2> QED BY <2>1, <2>3 DEF q
<1> QED BY <1>6, <1>7, <1>8, <1>9

\* The contents of the rings a step does not touch.
LEMMA SameContents ==
  ASSUME NEW c, queue'[c] = queue[c], cur'[c] = cur[c]
  PROVE  Contents(c)' = Contents(c)
BY DEF Contents, Used

\* What waits for each client.
Waiting == [c \in Clients |-> Contents(c)]

\* Only the contents of the ring of c change.
LEMMA OneContents ==
  ASSUME RingInv, RingInv', NEW c \in Clients, NEW q, Contents(c)' = q,
         \A d \in Clients \ {c} : queue'[d] = queue[d] /\ cur'[d] = cur[d]
  PROVE  Waiting' = [Waiting EXCEPT ![c] = q]
<1>1. \A d \in Clients \ {c} : Contents(d)' = Contents(d)
  BY SameContents
<1>2. Waiting' = [d \in Clients |-> Contents(d)']
  BY DEF Waiting
<1> QED BY <1>1, <1>2 DEF Waiting

\* Every step of the daemon is one of the bounded queue, or none.
LEMMA FifoStep ==
  ASSUME TxInv, [Next]_vars
  PROVE  [Fifo!Next]_<<Waiting, next>>
<1>0. TypeOK /\ CbInv /\ RingInv /\ BufInv /\ RingType
  BY DEF TxInv, HeapInv, RingInv
<1>1. RingInv'
  BY <1>0, NextRing
<1>2. \A c \in Clients : Waiting[c] = Contents(c)
  BY DEF Waiting
<1>3. ASSUME NEW c \in Clients, NEW e \in Entry, Enqueued(c, e), e.n = next, next' = next + 1
      PROVE  Fifo!Next
  <2>1. Contents(c)' = Append(Contents(c), next) /\ Len(Contents(c)) < Backlog
    BY <1>0, <1>3, EnqueueContents
  <2>2. \A d \in Clients \ {c} : queue'[d] = queue[d] /\ cur'[d] = cur[d]
    BY <1>0, <1>3 DEF Enqueued, RingType
  <2>3. Waiting' = [Waiting EXCEPT ![c] = Append(Waiting[c], next)]
    BY <1>0, <1>1, <1>2, <2>1, <2>2, OneContents
  <2>4. Fifo!Send(c)
    BY <1>2, <1>3, <2>1, <2>3 DEF Fifo!Send, Waiting
  <2> QED BY <2>4 DEF Fifo!Next
<1>4. ASSUME NEW c \in Clients, Dequeued(c), UNCHANGED next
      PROVE  Fifo!Next
  <2>1. Contents(c) # <<>> /\ Contents(c)' = Tail(Contents(c))
    BY <1>0, <1>4, DequeueContents
  <2>2. \A d \in Clients \ {c} : queue'[d] = queue[d] /\ cur'[d] = cur[d]
    BY <1>0, <1>4 DEF Dequeued, RingType
  <2>3. Waiting' = [Waiting EXCEPT ![c] = Tail(Waiting[c])]
    BY <1>0, <1>1, <1>2, <2>1, <2>2, OneContents
  <2>4. Fifo!Deliver(c)
    BY <1>2, <1>4, <2>1, <2>3 DEF Fifo!Deliver, Waiting
  <2> QED BY <2>4 DEF Fifo!Next
<1>5. ASSUME NEW c \in Clients, Cleared(c), UNCHANGED next
      PROVE  Fifo!Next
  <2>1. Used(c)' = 0
    BY <1>0, <1>5, ClearRing
  <2>2. Contents(c)' = <<>>
    BY <2>1 DEF Contents
  <2>3. \A d \in Clients \ {c} : queue'[d] = queue[d] /\ cur'[d] = cur[d]
    BY <1>0, <1>5 DEF Cleared, RingType
  <2>4. Waiting' = [Waiting EXCEPT ![c] = <<>>]
    BY <1>0, <1>1, <2>2, <2>3, OneContents
  <2>5. Fifo!Close(c)
    BY <1>5, <2>4 DEF Fifo!Close, Waiting
  <2> QED BY <2>5 DEF Fifo!Next
<1>6. UNCHANGED <<queue, cur>> => UNCHANGED Waiting
  BY SameContents DEF Waiting
<1>7. ASSUME UNCHANGED <<queue, cur, tail>>, next' = next + 1, NEW c \in Clients,
             queue[c][cur[c]] = NULL \/ queue[c][tail[c]] # NULL
      PROVE  Fifo!Next
  <2>1. /\ RingOf(c) /\ Used(c) \in 0 .. Backlog /\ Len(Contents(c)) = Used(c)
        /\ Contents(c) \in Seq(Msgs) /\ cur[c] \in SlotNos /\ tail[c] \in SlotNos
    BY <1>0, ContentsForm DEF RingInv, RingType
  <2>2. Ahead(c, cur[c]) = 0
    BY <2>1 DEF Ahead, SlotNos
  <2>3. CASE queue[c][cur[c]] = NULL
    <3>1. Used(c) = 0
      BY <2>1, <2>2, <2>3 DEF RingOf
    <3>2. Contents(c) = <<>>
      BY <2>1, <3>1, EmptySeq
    <3> QED BY <1>2, <1>6, <1>7, <3>2 DEF Fifo!Next, Fifo!Send, Waiting
  <2>4. CASE queue[c][tail[c]] # NULL
    <3>1. Used(c) = Backlog
      BY <2>1, <2>4 DEF RingOf
    <3> QED BY <1>2, <1>6, <1>7, <2>1, <3>1 DEF Fifo!Next, Fifo!Send, Waiting
  <2> QED BY <1>7, <2>3, <2>4
<1>8. CASE UNCHANGED <<queue, cur, next>>
  BY <1>6, <1>8
<1>9. CASE Next
  BY <1>0, <1>3, <1>4, <1>5, <1>7, <1>8, <1>9, RingSteps
<1>10. CASE UNCHANGED vars
  BY <1>8, <1>10 DEF vars
<1> QED BY <1>9, <1>10

\* The rings, their indices and NULL slots are bounded queues: no message overtakes
\* another, is taken from the middle, or bypasses a queue that is neither empty nor full.
THEOREM RingIsFifo == Spec => ImplementsFifo
<1>1. Init => Fifo!Init
  <2> SUFFICES ASSUME Init PROVE Fifo!Init
    OBVIOUS
  <2>1. ASSUME NEW c \in Clients
        PROVE  Contents(c) = <<>>
    <3>1. UsedSlots(c) = {}
      BY DEF Init, UsedSlots
    <3>2. Used(c) = 0
      BY <3>1, UsedBound, FS_EmptySet
    <3> QED BY <3>2 DEF Contents
  <2> QED BY <2>1 DEF Fifo!Init, Init
<1>2. TxInv /\ [Next]_vars => [Fifo!Next]_<<[c \in Clients |-> Contents(c)], next>>
  BY FifoStep DEF Waiting
<1> QED BY <1>1, <1>2, TxInvariance, PTL DEF Spec, ImplementsFifo, Fifo!Spec
=============================================================================
