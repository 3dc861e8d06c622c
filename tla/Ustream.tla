------------------------------ MODULE Ustream ------------------------------
(***************************************************************************)
(* A ustream on a file descriptor: data that cannot be written at once is  *)
(* kept in a list of buffers until the descriptor, which reports only      *)
(* edges, is writable again; data is read into another list until its      *)
(* buffers are full or the program blocks reading.  Bytes are numbered in  *)
(* the order in which they enter.                                          *)
(***************************************************************************)
EXTENDS Integers, Sequences, SequencesExt, FiniteSetsExt

CONSTANTS RMin, RMax, RLen,  \* r.min_buffers, r.max_buffers, r.buffer_len
          WMin, WMax, WLen,  \* the same for w; a maximum of 0 is none
          SmallData,      \* 32 in ustream_should_move
          WriteSizes,     \* sizes of the program's writes
          MaxWritten,     \* bound: bytes written
          MaxArriving,    \* bound: bytes that arrive
          PipeRoom        \* bytes the descriptor takes before it is full

\* A length of zero is replaced by the default (ustream_init_defaults); the counts of
\* buffers are ints of either sign.
ASSUME UstreamAssumption ==
  /\ {RMin, RMax, WMin, WMax, SmallData} \subseteq Int
  /\ {RLen, WLen} \subseteq Nat \ {0} /\ {PipeRoom, MaxArriving} \subseteq Nat
  /\ WriteSizes \subseteq Nat

VARIABLES rlist, wlist,   \* s->r, s->w: [bufs, dataTail, bytes], each buffer [off, data]
          blocked,        \* s->read_blocked: a subset of {"USER", "FULL"}
          sEof, writeError,
          stateChange,    \* the timer s->state_change is armed
          upc,            \* "idle", "read" (ustream_fd_read_pending), "notify", "write" or "error"
          pollEvents,     \* the events __ustream_fd_poll was called with
          armed, edge,    \* flags of the descriptor; epoll has an edge to report
          fdError,        \* sf->fd.error
          inPipe, outPipe,  \* bytes to be read; bytes written and not taken yet
          farEnd,         \* the other end: "open", "half" (it sends no more) or "gone"
          accepted, sentBytes, arrivedBytes, consumedBytes,  \* counts
          toldWith        \* w.data_bytes at the last notify_state with eof, -1 for none

ustreamVars == <<rlist, wlist, blocked, sEof, writeError, stateChange, upc, pollEvents, armed, edge,
                 fdError, inPipe, outPipe, farEnd, accepted, sentBytes, arrivedBytes, consumedBytes, toldWith>>

NoBufs == [bufs |-> <<>>, dataTail |-> 0, bytes |-> 0]
EmptyBuf == [off |-> 0, data |-> <<>>]
Limits(l) == IF l = "r" THEN [min |-> RMin, max |-> RMax, len |-> RLen]
             ELSE [min |-> WMin, max |-> WMax, len |-> WLen]

UstreamInit ==
  /\ rlist = NoBufs /\ wlist = NoBufs /\ blocked = {} /\ sEof = FALSE /\ writeError = FALSE
  /\ stateChange = FALSE /\ upc = "idle" /\ pollEvents = {} /\ armed = {"READ"} /\ edge = FALSE
  /\ fdError = FALSE /\ inPipe = <<>> /\ outPipe = <<>> /\ farEnd = "open"
  /\ accepted = 0 /\ sentBytes = 0 /\ arrivedBytes = 0 /\ consumedBytes = 0 /\ toldWith = -1

-----------------------------------------------------------------------------
(* Lists of buffers.  data_tail is the last buffer with data. *)

ustream_can_alloc(l, k) == k.max <= 0 \/ Len(l.bufs) < k.max

\* Fault: a recycled buffer is not initialised again.
ustream_free_buf_Dirty(l, k) ==
  LET rest == Tail(l.bufs)
      dt == IF l.dataTail > 1 THEN l.dataTail - 1 ELSE IF rest # <<>> THEN 1 ELSE 0
  IN  IF Len(rest) >= k.min THEN [l EXCEPT !.bufs = rest, !.dataTail = dt]
      ELSE [l EXCEPT !.bufs = Append(rest, Head(l.bufs)), !.dataTail = IF dt = 0 THEN 1 ELSE dt]

\* ustream_free_buf of the head: freed, or emptied and put at the end.
ustream_free_buf(l, k) ==
  LET rest == Tail(l.bufs)
      dt == IF l.dataTail > 1 THEN l.dataTail - 1 ELSE IF rest # <<>> THEN 1 ELSE 0
  IN  IF Len(rest) >= k.min THEN [l EXCEPT !.bufs = rest, !.dataTail = dt]
      ELSE [l EXCEPT !.bufs = Append(rest, EmptyBuf), !.dataTail = IF dt = 0 THEN 1 ELSE dt]

RoomIn(b, k) == k.len - b.off - Len(b.data)

ustream_should_move(l, k, b, len) ==
  /\ b.off > 0
  /\ \/ b.off > k.len \div 2
     \/ Len(b.data) < SmallData /\ b.off > k.len \div 4
     \/ l.dataTail = Len(l.bufs) /\ ~ustream_can_alloc(l, k) /\ RoomIn(b, k) < len

\* The data of the last buffer goes to its front.
Moved(l, k, len) ==
  LET b == l.bufs[l.dataTail]
  IN  IF l.dataTail # 0 /\ ustream_should_move(l, k, b, len)
      THEN [l EXCEPT !.bufs[l.dataTail].off = 0] ELSE l

\* Room for at least one byte in data_tail, or ok is FALSE.
ustream_prepare_buf(l0, k, len) ==
  LET l == Moved(l0, k, len)
      more == [l EXCEPT !.bufs = Append(@, EmptyBuf), !.dataTail = Len(l.bufs) + 1]
  IN  CASE l.dataTail # 0 /\ RoomIn(l.bufs[l.dataTail], k) > 0 -> [ok |-> TRUE, l |-> l]
        [] l.dataTail # 0 /\ RoomIn(l.bufs[l.dataTail], k) <= 0 /\ l.dataTail < Len(l.bufs) ->
             [ok |-> TRUE, l |-> [l EXCEPT !.dataTail = @ + 1]]
        [] OTHER -> [ok |-> ustream_can_alloc(l, k), l |-> IF ustream_can_alloc(l, k) THEN more ELSE l]

\* Append bytes to data_tail, and count them.
Filled(l, s) == [l EXCEPT !.bufs[l.dataTail].data = @ \o s, !.bytes = @ + Len(s)]

Content(l) == FlattenSeq([i \in DOMAIN l.bufs |-> l.bufs[i].data])

\* Bytes n+1 .. n+len.
Bytes(n, len) == [i \in 1..len |-> n + i]

\* len bytes taken from the first buffer; all of them, and the buffer freed.
FirstCut(l, len) ==
  LET b == Head(l.bufs)
  IN  [l EXCEPT !.bufs[1] = [off |-> b.off + len, data |-> SubSeq(b.data, len + 1, Len(b.data))],
                !.bytes = @ - len]
FirstFreed(l, k) == [ustream_free_buf(l, k) EXCEPT !.bytes = @ - Len(Head(l.bufs).data)]

\* One round of ustream_consume: s is [l, left].
ConsumeRound(s, k) ==
  LET have == Len(Head(s.l.bufs).data)
  IN  CASE s.left = 0 -> s
        [] s.left # 0 /\ s.left < have -> [l |-> FirstCut(s.l, s.left), left |-> 0]
        [] OTHER -> [l |-> FirstFreed(s.l, k), left |-> s.left - have]

\* ustream_consume of len bytes; a round takes at least one.
Consumed(l, k, len) ==
  LET after[n \in 0..len] ==
        IF n = 0 THEN [l |-> l, left |-> len] ELSE ConsumeRound(after[n - 1], k)
  IN  after[len].l

\* One round of ustream_write_buffered: s is [l, n, left]; without room it ends.
WriteRound(s) ==
  LET k == Limits("w")
      p == ustream_prepare_buf(s.l, k, s.left)
      fits == Min({s.left, RoomIn(p.l.bufs[p.l.dataTail], k)})
  IN  CASE s.left = 0 -> s
        [] s.left # 0 /\ ~p.ok -> [s EXCEPT !.l = p.l, !.left = 0]
        [] OTHER -> [l |-> Filled(p.l, Bytes(s.n, fits)), n |-> s.n + fits, left |-> s.left - fits]

\* Bytes n+1 .. n+len into the buffers, as many as there is room for.
ustream_write_buffered(l, n, len) ==
  LET after[i \in 0..len] ==
        IF i = 0 THEN [l |-> l, n |-> n, left |-> len] ELSE WriteRound(after[i - 1])
  IN  after[len]

-----------------------------------------------------------------------------
(* The descriptor. *)

ustream_fd_flags(bl, eof, w, err, write) ==
  (IF bl = {} /\ ~eof THEN {"READ"} ELSE {}) \union
  (IF write \/ (w.bufs # <<>> /\ w.bytes > 0 /\ ~err) THEN {"WRITE"} ELSE {})

\* What is ready; an end that is gone makes everything so.
Ready(in, out) == (IF in # <<>> \/ farEnd # "open" THEN {"READ"} ELSE {}) \union
                  (IF Len(out) < PipeRoom \/ farEnd = "gone" THEN {"WRITE"} ELSE {})

\* ustream_fd_set_uloop: EPOLL_CTL_MOD reports again what is there, and uloop_fd_add
\* forgets an error; without any flag the descriptor is deleted.
ustream_fd_set_uloop(bl, eof, w, err, write, in, out) ==
  /\ armed' = ustream_fd_flags(bl, eof, w, err, write)
  /\ edge' = (armed' \intersect Ready(in, out) # {})
  /\ fdError' = (fdError /\ armed' = {})

\* ustream_fd_write of bytes n+1 .. n+len: how many the pipe takes.
Takes(len) == Min({len, PipeRoom - Len(outPipe)})

-----------------------------------------------------------------------------
(* The program, in its loop or in notify_read. *)

UProgram == upc \in {"idle", "notify"}

\* ustream_write of len bytes: past the buffers when they are empty.
ustream_write(len) ==
  /\ UProgram /\ ~writeError /\ accepted + len <= MaxWritten
  /\ IF wlist.bytes = 0 /\ farEnd = "gone"
     THEN /\ writeError' = TRUE /\ stateChange' = TRUE
          /\ UNCHANGED <<wlist, armed, edge, fdError, outPipe, accepted, sentBytes>>
     ELSE LET direct == IF wlist.bytes = 0 THEN Takes(len) ELSE 0
              b == ustream_write_buffered(wlist, accepted + direct, len - direct)
              out == outPipe \o Bytes(accepted, direct)
          IN  /\ outPipe' = out /\ sentBytes' = sentBytes + direct
              /\ wlist' = b.l /\ accepted' = b.n
              /\ IF wlist.bytes = 0 /\ direct < len
                 THEN ustream_fd_set_uloop(blocked, sEof, wlist, writeError, TRUE, inPipe, out)
                 ELSE UNCHANGED <<armed, edge, fdError>>
              /\ UNCHANGED <<writeError, stateChange>>
  /\ UNCHANGED <<rlist, blocked, sEof, upc, pollEvents, inPipe, farEnd, arrivedBytes,
                 consumedBytes, toldWith>>

\* ustream_vprintf behind buffered data: as much as fits, less the terminating 0,
\* into the last buffer, the rest like any other.
ustream_vprintf(len) ==
  /\ UProgram /\ ~writeError /\ wlist.bytes > 0 /\ accepted + len <= MaxWritten
  /\ LET p == ustream_prepare_buf(wlist, Limits("w"), 1)
         room == RoomIn(p.l.bufs[p.l.dataTail], Limits("w"))
         first == IF len < room THEN len ELSE room - 1
         b == ustream_write_buffered(Filled(p.l, Bytes(accepted, first)), accepted + first, len - first)
     IN  IF ~p.ok THEN wlist' = p.l /\ UNCHANGED accepted
         ELSE wlist' = b.l /\ accepted' = b.n
  /\ UNCHANGED <<rlist, blocked, sEof, writeError, stateChange, upc, pollEvents, armed, edge, fdError, inPipe,
                 outPipe, farEnd, sentBytes, arrivedBytes, consumedBytes, toldWith>>

\* __ustream_set_read_blocked: the descriptor is set only when it changes anything.
SetBlocked(val) ==
  /\ blocked' = val
  /\ IF (blocked = {}) # (val = {})
     THEN ustream_fd_set_uloop(val, sEof, wlist, writeError, FALSE, inPipe, outPipe)
     ELSE UNCHANGED <<armed, edge, fdError>>

ustream_consume(len) ==
  /\ UProgram /\ len \in 1..rlist.bytes
  /\ rlist' = Consumed(rlist, Limits("r"), len)
  /\ consumedBytes' = consumedBytes + len
  /\ SetBlocked(blocked \ {"FULL"})
  /\ UNCHANGED <<wlist, sEof, writeError, stateChange, upc, pollEvents, inPipe, outPipe, farEnd,
                 accepted, sentBytes, arrivedBytes, toldWith>>

ustream_set_read_blocked(set) ==
  /\ UProgram
  /\ SetBlocked(IF set THEN blocked \union {"USER"} ELSE blocked \ {"USER"})
  /\ UNCHANGED <<rlist, wlist, sEof, writeError, stateChange, upc, pollEvents, inPipe, outPipe,
                 farEnd, accepted, sentBytes, arrivedBytes, consumedBytes, toldWith>>

\* ustream_state_change_cb: after an error the buffers are freed; notify_state.
ustream_state_change_cb ==
  /\ upc = "idle" /\ stateChange
  /\ stateChange' = FALSE
  /\ wlist' = IF writeError THEN [wlist EXCEPT !.bufs = <<>>, !.dataTail = 0] ELSE wlist
  /\ toldWith' = IF sEof THEN wlist.bytes ELSE toldWith
  /\ UNCHANGED <<rlist, blocked, sEof, writeError, upc, pollEvents, armed, edge, fdError, inPipe, outPipe,
                 farEnd, accepted, sentBytes, arrivedBytes, consumedBytes>>

-----------------------------------------------------------------------------
(* __ustream_fd_poll. *)

\* ustream_uloop_cb when epoll reports, with all that is ready; ustream_fd_poll when
\* the program asks.
__ustream_fd_poll(events) ==
  /\ upc = "idle" /\ events # {}
  /\ pollEvents' = events
  /\ upc' = IF "READ" \in events THEN "read" ELSE "write"
  /\ UNCHANGED <<rlist, wlist, blocked, sEof, writeError, stateChange, armed, inPipe, outPipe,
                 farEnd, accepted, sentBytes, arrivedBytes, consumedBytes, toldWith>>

ustream_uloop_cb ==
  /\ edge /\ edge' = FALSE
  /\ fdError' = (fdError \/ farEnd = "gone")
  /\ __ustream_fd_poll(armed \intersect Ready(inPipe, outPipe))

ustream_fd_poll ==
  /\ __ustream_fd_poll({"READ", "WRITE"})
  /\ UNCHANGED <<edge, fdError>>

\* One round of ustream_fd_read_pending: blocked, no room, nothing there, the end,
\* or data and then notify_read.
ReadRound ==
  /\ upc = "read"
  /\ LET p == ustream_prepare_buf(rlist, Limits("r"), 1)
         n == Min({RoomIn(p.l.bufs[p.l.dataTail], Limits("r")), Len(inPipe)})
     IN  CASE blocked # {} ->
                /\ upc' = "write" /\ UNCHANGED <<rlist, blocked, armed, edge, fdError, inPipe, sEof, stateChange>>
           [] blocked = {} /\ ~p.ok ->
                /\ SetBlocked({"FULL"}) /\ upc' = "write"
                /\ rlist' = p.l /\ UNCHANGED <<inPipe, sEof, stateChange>>
           [] blocked = {} /\ p.ok /\ inPipe = <<>> /\ farEnd = "open" ->
                /\ rlist' = p.l /\ upc' = "write"
                /\ UNCHANGED <<blocked, armed, edge, fdError, inPipe, sEof, stateChange>>
           [] blocked = {} /\ p.ok /\ inPipe = <<>> /\ farEnd # "open" ->
                /\ rlist' = p.l /\ sEof' = TRUE /\ stateChange' = (stateChange \/ ~sEof)
                /\ ustream_fd_set_uloop(blocked, TRUE, wlist, writeError, FALSE, inPipe, outPipe)
                /\ upc' = "write" /\ UNCHANGED <<blocked, inPipe>>
           [] OTHER ->
                /\ rlist' = Filled(p.l, SubSeq(inPipe, 1, n))
                /\ inPipe' = SubSeq(inPipe, n + 1, Len(inPipe))
                /\ upc' = "notify" /\ UNCHANGED <<blocked, armed, edge, fdError, sEof, stateChange>>
  /\ UNCHANGED <<wlist, writeError, pollEvents, outPipe, farEnd, accepted, sentBytes, arrivedBytes,
                 consumedBytes, toldWith>>

NotifyReadReturns ==
  /\ upc = "notify" /\ upc' = "read"
  /\ UNCHANGED <<rlist, wlist, blocked, sEof, writeError, stateChange, pollEvents, armed, edge, fdError, inPipe,
                 outPipe, farEnd, accepted, sentBytes, arrivedBytes, consumedBytes, toldWith>>

EmptiedAfterEof(n) == sEof /\ n > 0 /\ n = wlist.bytes

\* ustream_write_pending: what the pipe takes leaves the buffers, oldest first; a
\* rest waits for the next edge.
WritePending ==
  /\ upc = "write"
  /\ IF "WRITE" \notin pollEvents \/ writeError
     THEN UNCHANGED <<wlist, outPipe, armed, edge, fdError, sentBytes, stateChange, writeError>>
     ELSE IF farEnd = "gone" /\ wlist.bytes > 0
     THEN /\ writeError' = TRUE /\ stateChange' = TRUE
          /\ UNCHANGED <<wlist, outPipe, armed, edge, fdError, sentBytes>>
     ELSE LET n == Takes(wlist.bytes)
              out == outPipe \o SubSeq(Content(wlist), 1, n)
              w == Consumed(wlist, Limits("w"), n)
          IN  /\ wlist' = w /\ outPipe' = out /\ sentBytes' = sentBytes + n
              /\ stateChange' = (stateChange \/ EmptiedAfterEof(n))
              /\ ustream_fd_set_uloop(blocked, sEof, w, writeError, w.bytes > 0, inPipe, out)
              /\ UNCHANGED writeError
  /\ upc' = "error" /\ pollEvents' = {}
  /\ UNCHANGED <<rlist, blocked, sEof, inPipe, farEnd, accepted, arrivedBytes, consumedBytes, toldWith>>

\* The end of __ustream_fd_poll: an error epoll told of is a write error.
PollEnds ==
  /\ upc = "error" /\ upc' = "idle"
  /\ IF fdError /\ ~writeError
     THEN /\ stateChange' = TRUE /\ writeError' = TRUE
          /\ ustream_fd_set_uloop(blocked, sEof, wlist, TRUE, FALSE, inPipe, outPipe)
     ELSE UNCHANGED <<stateChange, writeError, armed, edge, fdError>>
  /\ UNCHANGED <<rlist, wlist, blocked, sEof, pollEvents, inPipe, outPipe, farEnd, accepted, sentBytes,
                 arrivedBytes, consumedBytes, toldWith>>

-----------------------------------------------------------------------------
(* The other end. *)

PeerWrites ==
  /\ farEnd = "open" /\ arrivedBytes < MaxArriving
  /\ arrivedBytes' = arrivedBytes + 1
  /\ inPipe' = Append(inPipe, arrivedBytes + 1)
  /\ edge' = (edge \/ "READ" \in armed)
  /\ UNCHANGED <<rlist, wlist, blocked, sEof, writeError, stateChange, upc, pollEvents, armed, fdError,
                 outPipe, farEnd, accepted, sentBytes, consumedBytes, toldWith>>

PeerReads ==
  /\ farEnd # "gone" /\ outPipe # <<>>
  /\ outPipe' = Tail(outPipe)
  /\ edge' = (edge \/ "WRITE" \in armed)
  /\ UNCHANGED <<rlist, wlist, blocked, sEof, writeError, stateChange, upc, pollEvents, armed, fdError,
                 inPipe, farEnd, accepted, sentBytes, arrivedBytes, consumedBytes, toldWith>>

\* It sends no more, or closes.
PeerCloses(how) ==
  /\ farEnd \in {"open", "half"} /\ how # farEnd /\ farEnd' = how
  /\ edge' = (edge \/ (IF how = "half" THEN "READ" \in armed ELSE armed # {}))
  /\ UNCHANGED <<rlist, wlist, blocked, sEof, writeError, stateChange, upc, pollEvents, armed, fdError,
                 inPipe, outPipe, accepted, sentBytes, arrivedBytes, consumedBytes, toldWith>>

UstreamNext ==
  \/ \E len \in WriteSizes : ustream_write(len) \/ ustream_vprintf(len)
  \/ \E len \in 1..MaxArriving : ustream_consume(len)
  \/ \E set \in BOOLEAN : ustream_set_read_blocked(set)
  \/ ustream_state_change_cb \/ ustream_uloop_cb \/ ustream_fd_poll
  \/ ReadRound \/ NotifyReadReturns \/ WritePending \/ PollEnds
  \/ PeerWrites \/ PeerReads \/ \E how \in {"half", "gone"} : PeerCloses(how)

UstreamSpec == UstreamInit /\ [][UstreamNext]_ustreamVars

-----------------------------------------------------------------------------
(* Properties. *)

\* Whatever the sizes of writes, buffers and pipe, and however often buffers are
\* moved, freed and recycled, both directions keep every byte once and in order
\* (until an error frees what is unwritten), data_bytes is their number, and only the
\* buffers up to data_tail hold any.
BytesKept ==
  /\ ~writeError => Content(wlist) = [i \in 1..accepted - sentBytes |-> sentBytes + i]
  /\ Content(rlist) \o inPipe = [i \in 1..arrivedBytes - consumedBytes |-> consumedBytes + i]
  /\ rlist.bytes = Len(Content(rlist))
  /\ ~writeError => wlist.bytes = Len(Content(wlist))
  /\ \A l \in {rlist, wlist} : \A i \in DOMAIN l.bufs :
       (i > l.dataTail => l.bufs[i] = EmptyBuf) /\ (i < l.dataTail => l.bufs[i].data # <<>>)

\* The descriptor reports edges only, and still nothing waits in vain: outside a
\* callback, data that can be read and that nobody blocks, and buffered data that can
\* be written, have an edge to come.
NoLostEdge ==
  upc = "idle" =>
    /\ blocked = {} /\ ~sEof /\ "READ" \in Ready(inPipe, outPipe) => "READ" \in armed /\ edge
    /\ wlist.bytes > 0 /\ ~writeError => "WRITE" \in armed
    /\ wlist.bytes > 0 /\ ~writeError /\ "WRITE" \in Ready(inPipe, outPipe) => edge

\* notify_state is called for the end of the input, "and again after the write buffer
\* has been emptied when the read side has hit EOF" (ustream.h): when no call is due
\* any more, the last one saw the empty buffers.
EofTold ==
  upc = "idle" /\ ~stateChange /\ sEof /\ ~writeError =>
    toldWith # -1 /\ (wlist.bytes = 0 => toldWith = 0)

\* Every byte is kept, once and in order, none waits for an edge that will not come,
\* and the program learns of the end after the last of them is out.
UstreamSound == BytesKept /\ NoLostEdge /\ EofTold
=============================================================================
