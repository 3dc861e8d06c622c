------------------------------- MODULE UbusdTx -------------------------------
(***************************************************************************)
(* How ubusd sends: ubusd.c's message buffers and the transmit ring of     *)
(* each client, and the one reply buffer (retmsg) of ubusd_proto.c.        *)
(*                                                                         *)
(* A message goes to the socket directly when the client's ring is empty;  *)
(* what does not fit is kept in the ring and flushed by client_cb when the *)
(* socket is writable again.  Sizes are counted in units: one for the      *)
(* header, the rest for the data.  Every message has a number, and a       *)
(* buffer's header and data each carry the number of the message they      *)
(* were filled for, so that a mixed-up, zeroed or overwritten buffer shows *)
(* on the wire.                                                            *)
(***************************************************************************)
EXTENDS Naturals, Integers, Sequences, FiniteSets

CONSTANTS
  Clients,
  Backlog,    \* slots of tx_queue (UBUSD_CLIENT_BACKLOG, 32)
  SockBuf,    \* units the kernel holds for a client that does not read
  MaxMsgs,    \* bound: messages sent in a behaviour
  DataSizes,  \* possible data lengths, in units
  NULL

Msgs == 1 .. MaxMsgs

\* Buffer 0 is retmsg; a buffer made for message n has number n.
Retmsg == 0
Bufs == {Retmsg} \union Msgs

\* hdr = 0 is the zeroed header of a buffer nobody called ubus_msg_init on:
\* type 0 (UBUS_MSG_HELLO), seq 0, peer 0.
Buffer == [ref : Nat, hdr : Nat, data : Nat, len : Nat \ {0}]

\* The three ways a message is sent, see the senders below.
Kinds == {"shared", "owned", "reply"}

SlotNos == 0 .. Backlog - 1

\* What a ring slot holds: the buffer, and the message it was queued for.
Entry == [b : Bufs, n : Msgs, kind : Kinds]

ASSUME TxAssumption ==
  /\ IsFiniteSet(Clients)
  /\ Backlog \in Nat \ {0}
  /\ SockBuf \in Nat \ {0}
  /\ MaxMsgs \in Nat
  /\ DataSizes \subseteq Nat \ {0}
  /\ NULL \notin Clients
  /\ NULL \notin Entry

VARIABLES
  buf,      \* the buffers in memory: number -> struct ubus_msg_buf
  queue,    \* tx_queue of each client: slot -> buffer, or NULL
  cur,      \* txq_cur
  tail,     \* txq_tail
  ofs,      \* txq_ofs
  wire,     \* the latest units written to each client's socket: those of the
            \* last write and the one before them
  unread,   \* units of it that are still in the kernel's buffer
  armed,    \* is ULOOP_WRITE requested for the client's socket?
  event,    \* has epoll a write event to report?
  mode,     \* "flush": client_cb is in its transmit loop; "close": it is in
            \* handle_client_disconnect; "idle": between those
  who,      \* the client of that client_cb
  wrEvent,  \* was it called for ULOOP_WRITE?
  gone,     \* clients that were freed
  next,     \* number of the next message
  lastTo    \* history: the client the latest message was sent to

vars == <<buf, queue, cur, tail, ofs, wire, unread, armed, event, mode,
          who, wrEvent, gone, next, lastTo>>

ringVars == <<queue, cur, tail, ofs>>
sockVars == <<wire, unread, armed, event>>
cbVars == <<mode, who, wrEvent>>

\* A unit on the wire, of which message: part 0 is the header; val is the
\* number found there.
Unit == [n : Msgs, kind : Kinds, part : Nat, len : Nat, val : Nat]

TypeOK ==
  /\ DOMAIN buf \subseteq Bufs
  /\ \A b \in DOMAIN buf : buf[b] \in Buffer
  /\ queue \in [Clients -> [SlotNos -> Entry \union {NULL}]]
  /\ cur \in [Clients -> SlotNos]
  /\ tail \in [Clients -> SlotNos]
  /\ ofs \in [Clients -> Nat]
  /\ wire \in [Clients -> Seq(Unit)]
  /\ unread \in [Clients -> 0 .. SockBuf]
  /\ armed \in [Clients -> BOOLEAN]
  /\ event \in [Clients -> BOOLEAN]
  /\ mode \in {"idle", "flush", "close"}
  /\ who \in Clients \union {NULL}
  /\ wrEvent \in BOOLEAN
  /\ gone \subseteq Clients
  /\ next \in 1 .. MaxMsgs + 1
  /\ lastTo \in Clients \union {NULL}

Init ==
  /\ buf = [b \in {Retmsg} |-> [ref |-> 1, hdr |-> 0, data |-> 0, len |-> 1]]
  /\ queue = [c \in Clients |-> [s \in SlotNos |-> NULL]]
  /\ cur = [c \in Clients |-> 0]
  /\ tail = [c \in Clients |-> 0]
  /\ ofs = [c \in Clients |-> 0]
  /\ wire = [c \in Clients |-> <<>>]
  /\ unread = [c \in Clients |-> 0]
  /\ armed = [c \in Clients |-> FALSE]
  /\ event = [c \in Clients |-> FALSE]
  /\ mode = "idle"
  /\ who = NULL
  /\ wrEvent = FALSE
  /\ gone = {}
  /\ next = 1
  /\ lastTo = NULL

-----------------------------------------------------------------------------
(* Buffers *)

Fresh(n, len) == [ref |-> 1, hdr |-> n, data |-> n, len |-> len]

Without(h, b) == [x \in DOMAIN h \ {b} |-> h[x]]
With(h, b, v) == [x \in DOMAIN h \union {b} |-> IF x = b THEN v ELSE h[x]]

Ref_None(h, b) == h  \* Fault: the count stays.

\* ubus_msg_ref of an ordinary buffer: one more reference, no copy.
Ref(h, b) == [h EXCEPT ![b].ref = @ + 1]

\* ubus_msg_free: drop a reference, release the memory with the last.
ubus_msg_free(h, b) ==
  IF h[b].ref = 1 THEN Without(h, b) ELSE [h EXCEPT ![b].ref = @ - 1]

\* Fault: the data is not copied.
CopyOf_NoData(shared) == [shared EXCEPT !.hdr = 0, !.ref = 1, !.data = 0]

\* ubus_msg_ref of a shared buffer (refcount ~0): ubus_msg_new copies the
\* data, and only the data.
CopyOf(shared) == [shared EXCEPT !.hdr = 0, !.ref = 1]

\* The units of buffer value v, sent for message n, after the first k.
UnitsFrom(v, n, kind, k) ==
  [j \in 1 .. v.len + 1 - k |->
     [n |-> n, kind |-> kind, part |-> k + j - 1,
      len |-> v.len, val |-> IF k + j - 1 = 0 THEN v.hdr ELSE v.data]]

-----------------------------------------------------------------------------
(* The ring *)

\* (s + 1) % ARRAY_SIZE(tx_queue)
NextSlot(s) == IF s = Backlog - 1 THEN 0 ELSE s + 1

Room(c) == SockBuf - unread[c]
ubus_msg_head(c) == queue[c][cur[c]]

\* The kernel takes k units of frame f.
Take(c, f, k) ==
  /\ wire' = [wire EXCEPT ![c] =
                IF k = 0 \/ @ = <<>> THEN @ \o SubSeq(f, 1, k)
                ELSE <<@[Len(@)]>> \o SubSeq(f, 1, k)]
  /\ unread' = [unread EXCEPT ![c] = @ + k]

ArmWrite_Never(c) == UNCHANGED <<armed, event>>  \* Fault: not registered.

\* uloop_fd_add with ULOOP_WRITE: epoll looks at the socket again, so a
\* socket that is writable already is reported.
ArmWrite(c) ==
  /\ armed' = [armed EXCEPT ![c] = TRUE]
  /\ event' = [event EXCEPT ![c] = unread'[c] < SockBuf]

\* Fault: a taken slot is overwritten.
ubus_msg_enqueue_Overwrites(c, kind, b, kept, dropped) ==
  /\ buf' = kept
  /\ queue' = [queue EXCEPT ![c][tail[c]] =
                 [b |-> b, n |-> next, kind |-> kind]]
  /\ tail' = [tail EXCEPT ![c] = NextSlot(@)]

\* Fault: the last free slot is never used.
ubus_msg_enqueue_Timid(c, kind, b, kept, dropped) ==
  IF queue[c][NextSlot(tail[c])] # NULL
    THEN /\ buf' = dropped
         /\ UNCHANGED <<queue, tail>>
    ELSE ubus_msg_enqueue_Overwrites(c, kind, b, kept, dropped)

\* ubus_msg_enqueue: nothing happens when the slot at the tail is taken.
\* kept is the heap once the ring holds buffer b, dropped if it does not.
ubus_msg_enqueue(c, kind, b, kept, dropped) ==
  IF queue[c][tail[c]] # NULL
    THEN /\ buf' = dropped
         /\ UNCHANGED <<queue, tail>>
    ELSE /\ buf' = kept
         /\ queue' = [queue EXCEPT ![c][tail[c]] =
                     [b |-> b, n |-> next, kind |-> kind]]
         /\ tail' = [tail EXCEPT ![c] = NextSlot(@)]

\* ubus_msg_send of the next message, contents v in buffer b, to client c;
\* kept and dropped as above.  With an empty ring the socket is tried first.  A full socket
\* makes writev return -1, and "written >= ub->len + sizeof(ub->hdr)"
\* compares it as an unsigned number: the message counts as sent.
ubus_msg_send(c, kind, v, b, kept, dropped) ==
  LET size == v.len + 1
  IN /\ \/ /\ ubus_msg_head(c) = NULL
           /\ Room(c) = 0 \/ Room(c) >= size
           /\ Take(c, UnitsFrom(v, next, kind, 0), IF Room(c) = 0 THEN 0 ELSE size)
           /\ buf' = dropped
           /\ UNCHANGED <<queue, tail, ofs, armed, event>>
        \/ /\ ubus_msg_head(c) = NULL
           /\ 0 < Room(c) /\ Room(c) < size
           /\ Take(c, UnitsFrom(v, next, kind, 0), Room(c))
           /\ ofs' = [ofs EXCEPT ![c] = Room(c)]
           /\ ArmWrite(c)
           /\ ubus_msg_enqueue(c, kind, b, kept, dropped)
        \/ /\ ubus_msg_head(c) # NULL
           /\ ubus_msg_enqueue(c, kind, b, kept, dropped)
           /\ UNCHANGED <<ofs, wire, unread, armed, event>>
     /\ lastTo' = c
     /\ next' = next + 1

\* The daemon runs one handler at a time and sends to live clients; a
\* client that is being freed is still one.
MaySend(c) == mode # "flush" /\ c \notin gone /\ next <= MaxMsgs

-----------------------------------------------------------------------------
(* The senders of ubusd_proto.c and ubusd_event.c *)

\* ubus_send_msg_from_blob, ubusd_send_hello, ubusd_send_event_msg: a
\* buffer that borrows the blob under construction.  The ring gets a copy,
\* the buffer itself is freed.
SendShared(c) ==
  /\ MaySend(c)
  /\ \E len \in DataSizes :
       ubus_msg_send(c, "shared", Fresh(next, len), next,
                     With(buf, next, CopyOf(Fresh(next, len))), buf)
  /\ UNCHANGED <<cur, cbVars, gone>>

\* ubusd_handle_response, ubus_notify_subscription, ubusd_send_pong: a
\* buffer with its own data; the sender's reference is dropped at the end.
SendOwned(c) ==
  /\ MaySend(c)
  /\ \E len \in DataSizes :
       LET made == With(buf, next, Fresh(next, len))
       IN ubus_msg_send(c, "owned", Fresh(next, len), next,
                        ubus_msg_free(Ref(made, next), next),
                        ubus_msg_free(made, next))
  /\ UNCHANGED <<cur, cbVars, gone>>

\* The end of ubusd_proto_receive_message: the one reply buffer is filled
\* with this request's seq, peer and status, and sent; the ring shares it.
Reply(c) ==
  /\ mode = "idle"
  /\ MaySend(c)
  /\ LET filled == [buf EXCEPT ![Retmsg].hdr = next, ![Retmsg].data = next]
     IN ubus_msg_send(c, "reply", filled[Retmsg], Retmsg,
                      Ref(filled, Retmsg), filled)
  /\ UNCHANGED <<cur, cbVars, gone>>

\* A request whose handler returned -1 leaves only its seq and peer in the
\* reply buffer.
NoReply ==
  /\ mode = "idle"
  /\ next <= MaxMsgs
  /\ buf' = [buf EXCEPT ![Retmsg].hdr = next]
  /\ UNCHANGED <<ringVars, sockVars, cbVars, gone, next, lastTo>>

-----------------------------------------------------------------------------
(* client_cb, the transmit part, and disconnection *)

\* client_cb is called: by an epoll write event, or (write = FALSE) because
\* the client sent something.
ClientCb(c, write) ==
  /\ mode = "idle"
  /\ c \notin gone
  /\ write = event[c]
  /\ mode' = "flush"
  /\ who' = c
  /\ wrEvent' = write
  /\ event' = [event EXCEPT ![c] = FALSE]
  /\ UNCHANGED <<buf, ringVars, wire, unread, armed, gone, next, lastTo>>

CbReturns == mode' = "idle" /\ who' = NULL /\ wrEvent' = FALSE

\* Fault: txq_ofs is not reset.
ubus_msg_dequeue_KeepsOffset(c) ==
  /\ buf' = ubus_msg_free(buf, ubus_msg_head(c).b)
  /\ queue' = [queue EXCEPT ![c][cur[c]] = NULL]
  /\ cur' = [cur EXCEPT ![c] = NextSlot(@)]
  /\ UNCHANGED ofs

\* ubus_msg_dequeue
ubus_msg_dequeue(c) ==
  /\ buf' = ubus_msg_free(buf, ubus_msg_head(c).b)
  /\ ofs' = [ofs EXCEPT ![c] = 0]
  /\ queue' = [queue EXCEPT ![c][cur[c]] = NULL]
  /\ cur' = [cur EXCEPT ![c] = NextSlot(@)]

\* One turn of the transmit loop: write the rest of the head message; go on
\* with the next one only if all of it was taken.
FlushHead ==
  /\ mode = "flush"
  /\ ubus_msg_head(who) # NULL
  /\ LET e == ubus_msg_head(who)
         rest == UnitsFrom(buf[e.b], e.n, e.kind, ofs[who])
     IN IF Room(who) >= Len(rest)
          THEN /\ Take(who, rest, Len(rest))
               /\ ubus_msg_dequeue(who)
               /\ UNCHANGED cbVars
          ELSE /\ Take(who, rest, Room(who))
               /\ ofs' = [ofs EXCEPT ![who] = @ + Room(who)]
               /\ CbReturns
               /\ UNCHANGED <<buf, queue, cur>>
  /\ UNCHANGED <<tail, armed, event, gone, next, lastTo>>

\* The ring is empty: after a write event, ask for no more of them.
FlushEnd ==
  /\ mode = "flush"
  /\ ubus_msg_head(who) = NULL
  /\ armed' = [armed EXCEPT ![who] = @ /\ ~wrEvent]
  /\ CbReturns
  /\ UNCHANGED <<buf, ringVars, wire, unread, event, gone, next, lastTo>>

\* The client reads a unit; the socket has room, and epoll reports it.
ClientReads(c) ==
  /\ unread[c] > 0
  /\ unread' = [unread EXCEPT ![c] = @ - 1]
  /\ event' = [event EXCEPT ![c] = @ \/ (armed[c] /\ c \notin gone)]
  /\ UNCHANGED <<buf, ringVars, wire, armed, cbVars, gone, next, lastTo>>

\* The entries of c's ring that hold buffer b.
HeldBy(c, b) == {s \in SlotNos : queue[c][s] # NULL /\ queue[c][s].b = b}

\* A write error, the end of the stream or a bad message: the first part of
\* handle_client_disconnect dequeues and frees everything.
Disconnect(c) ==
  /\ \/ mode = "idle" /\ c \notin gone
     \/ mode = "flush" /\ who = c /\ ubus_msg_head(c) # NULL
  /\ mode' = "close"
  /\ who' = c
  /\ wrEvent' = FALSE
  /\ LET left(b) == buf[b].ref - Cardinality(HeldBy(c, b))
     IN buf' = [b \in {x \in DOMAIN buf : left(x) > 0} |->
                  [buf[b] EXCEPT !.ref = left(b)]]
  /\ queue' = [queue EXCEPT ![c] = [s \in SlotNos |-> NULL]]
  /\ cur' = [cur EXCEPT ![c] = tail[c]]
  /\ ofs' = [ofs EXCEPT ![c] = 0]
  /\ UNCHANGED <<tail, sockVars, gone, next, lastTo>>

\* ubusd_proto_free_client has freed the client's objects, which may have
\* sent to anybody, the dying client included; then the client is freed.
ClientFreed ==
  /\ mode = "close"
  /\ gone' = gone \union {who}
  /\ armed' = [armed EXCEPT ![who] = FALSE]
  /\ event' = [event EXCEPT ![who] = FALSE]
  /\ CbReturns
  /\ UNCHANGED <<buf, ringVars, wire, unread, next, lastTo>>

-----------------------------------------------------------------------------
Next ==
  \/ \E c \in Clients :
       \/ SendShared(c) \/ SendOwned(c) \/ Reply(c)
       \/ \E write \in BOOLEAN : ClientCb(c, write)
       \/ ClientReads(c)
       \/ Disconnect(c)
  \/ NoReply
  \/ FlushHead \/ FlushEnd \/ ClientFreed

\* uloop delivers write events, client_cb runs to its end, and a connected
\* client reads what it is sent.
Fairness ==
  /\ \A c \in Clients : /\ WF_vars(ClientCb(c, TRUE))
                        /\ WF_vars(ClientReads(c))
  /\ WF_vars(FlushHead \/ FlushEnd \/ ClientFreed)

Spec == Init /\ [][Next]_vars
FairSpec == Spec /\ Fairness

-----------------------------------------------------------------------------
(* Properties *)

\* How many slots past txq_cur slot s is.
Ahead(c, s) == IF s >= cur[c] THEN s - cur[c] ELSE s + Backlog - cur[c]

\* The used slots are the run from txq_cur to just before txq_tail, all of
\* them when the two are equal and txq_cur is used: what lets the code test
\* one slot for "empty" and one for "full" without a counter.
RingShape ==
  TypeOK /\ \A c \in Clients :
    \E k \in 0 .. Backlog :
      /\ \A s \in SlotNos : queue[c][s] # NULL <=> Ahead(c, s) < k
      /\ Ahead(c, tail[c]) = IF k = Backlog THEN 0 ELSE k

\* The slots of all rings that hold buffer b.
Holders(b) == {p \in Clients \X SlotNos : p[2] \in HeldBy(p[1], b)}

\* Every reference is counted: the count of a buffer is the number of ring
\* slots that hold it, plus the daemon's own reference to retmsg, and every
\* buffer a ring holds is in memory.
RefsCounted ==
  /\ \A c \in Clients, s \in SlotNos :
       queue[c][s] # NULL => queue[c][s].b \in DOMAIN buf
  /\ \A b \in DOMAIN buf :
       buf[b].ref =
         Cardinality(Holders(b))
         + (IF b = Retmsg THEN 1 ELSE 0)

\* The clients that still have a conversation with the daemon.
Live == {c \in Clients : c \notin gone /\ ~(mode = "close" /\ who = c)}

\* The stream a client sees can be cut into messages again: the units of a
\* message are contiguous, complete and in send order, so partial writes,
\* the ring and direct sends never interleave, repeat or reorder messages
\* or lose the middle of one; txq_ofs says exactly how much of the head
\* message has been sent, and nothing is half sent when the ring is empty.
Framed ==
  \A c \in Live :
    LET last == wire[c][Len(wire[c])]
        half == wire[c] # <<>> /\ last.part # last.len
    IN /\ \A k \in 2 .. Len(wire[c]) :
            LET u == wire[c][k]
                p == wire[c][k - 1]
            IN IF p.part = p.len
                 THEN u.part = 0 /\ p.n < u.n
                 ELSE u.part = p.part + 1 /\ u.n = p.n /\ u.len = p.len
       /\ IF ubus_msg_head(c) = NULL
            THEN ~half
            ELSE ofs[c] = IF half THEN last.part + 1 ELSE 0

\* A message with a buffer of its own (a forwarded response, a subscription
\* notice) reaches the wire with the header and the data it was given, and
\* one that borrowed the blob under construction with its data, although
\* the blob is reused long before the ring is flushed.
ContentIntact ==
  \A c \in Clients : \A k \in 1 .. Len(wire[c]) :
    LET u == wire[c][k]
    IN /\ u.kind = "owned" => u.val = u.n
       /\ u.kind = "shared" /\ u.part > 0 => u.val = u.n

\* What is queued for a client that reads is sent in the end.
QueueDrains ==
  \A c \in Clients : ubus_msg_head(c) # NULL ~>
                       ubus_msg_head(c) = NULL \/ c \in gone

\* What a client's ring holds, oldest first.
Used(c) == Cardinality({s \in SlotNos : queue[c][s] # NULL})
Contents(c) ==
  [k \in 1 .. Used(c) |-> queue[c][(cur[c] + k - 1) % Backlog].n]

\* The ring, its two indices and its NULL slots are a bounded queue: nothing
\* overtakes, nothing is taken from the middle, and a message bypasses the
\* queue only when it is empty (a direct write) or full (a drop).
Fifo == INSTANCE UbusdTxFifo WITH fifo <- [c \in Clients |-> Contents(c)],
                                  count <- next, Capacity <- Backlog
ImplementsFifo == Fifo!Spec

\* The header on the wire is never the zeroed one, which reads as the
\* HELLO a client gets once, on connecting.
NoZeroHeader ==
  \A c \in Clients : \A k \in 1 .. Len(wire[c]) :
    wire[c][k].part = 0 => wire[c][k].val # 0

\* The STATUS a client reads answers the request it was sent for.
ReplyAnswersRequest ==
  \A c \in Clients : \A k \in 1 .. Len(wire[c]) :
    wire[c][k].kind = "reply" => wire[c][k].val = wire[c][k].n

\* ubus_msg_send drops a message only when all slots of the ring are used.
DroppedOnlyWhenFull ==
  [][next' # next =>
       LET c == lastTo'
       IN \/ \E k \in 1 .. Len(wire'[c]) : wire'[c][k].n = next
          \/ \E s \in SlotNos : queue'[c][s] # NULL /\ queue'[c][s].n = next
          \/ \A s \in SlotNos : queue[c][s] # NULL]_vars
=============================================================================
