------------------------------ MODULE UbusdRx ------------------------------
(***************************************************************************)
(* One client's way to the daemon: libubus writes messages, each with a    *)
(* file descriptor or without, in as many pieces as the socket takes; the  *)
(* daemon, told of new data once (the descriptor is edge-triggered), cuts  *)
(* the stream into messages again.  A message has HdrLen units of header   *)
(* and BodyLen units of body.  The daemon's reads take all there is up to  *)
(* the length asked for.                                                   *)
(***************************************************************************)
EXTENDS Naturals, Sequences

CONSTANTS HdrLen, BodyLen,
          MaxSent,        \* bound: messages the client sends
          Room            \* units the socket holds

ASSUME RxAssumption == HdrLen \in Nat \ {0} /\ BodyLen \in Nat /\ Room \in Nat

VARIABLES sending,        \* writev_retry: [fd, left, writes], the message being written
          sentMsgs,       \* with a descriptor or not, per message begun
          socket,         \* units on their way: [m, i, fd]
          hungUp,         \* the client has closed its end
          edge,           \* epoll has something to report
          daemon,         \* client_cb: [pc, eof, offset, fd, m, hdrOk]
          txLeft,         \* ubus_msg_head(cl): a message for the client waits in its ring
          received        \* what ubusd_proto_receive_message was given: [m, ok, fd]

rxVars == <<sending, sentMsgs, socket, hungUp, edge, daemon, txLeft, received>>

MsgLen == HdrLen + BodyLen
NotSending == [fd |-> FALSE, left |-> 0, writes |-> 0]

RxInit ==
  /\ sending = NotSending /\ sentMsgs = <<>> /\ socket = <<>>
  /\ hungUp = FALSE /\ edge = FALSE /\ txLeft = FALSE /\ received = <<>>
  /\ daemon = [pc |-> "wait", eof |-> FALSE, offset |-> 0, fd |-> 0, m |-> 0, hdrOk |-> TRUE]

-----------------------------------------------------------------------------
(* The client. *)

ubus_send_msg(withFd) ==
  /\ sending.left = 0 /\ ~hungUp /\ daemon.pc # "gone" /\ Len(sentMsgs) < MaxSent
  /\ sending' = [fd |-> withFd, left |-> MsgLen, writes |-> 0]
  /\ sentMsgs' = Append(sentMsgs, withFd)
  /\ UNCHANGED <<socket, hungUp, edge, daemon, txLeft, received>>

\* One sendmsg of writev_retry takes n units.  The descriptor goes with the first
\* write and, len still being 0 when it is tested, with the second.
Pieces(n) ==
  [j \in 1..n |-> [m |-> Len(sentMsgs), i |-> MsgLen - sending.left + j,
                   fd |-> j = 1 /\ sending.fd /\ sending.writes < 2]]

writev_retry(n) ==
  /\ n <= sending.left /\ Len(socket) + n <= Room /\ daemon.pc # "gone"
  /\ socket' = socket \o Pieces(n)
  /\ sending' = [sending EXCEPT !.left = @ - n, !.writes = @ + 1]
  /\ edge' = TRUE
  /\ UNCHANGED <<sentMsgs, hungUp, daemon, txLeft, received>>

\* The daemon has closed the connection: the write fails, ctx->sock.eof is set.
WriteFails ==
  /\ sending.left > 0 /\ daemon.pc = "gone"
  /\ sending' = NotSending
  /\ UNCHANGED <<sentMsgs, socket, hungUp, edge, daemon, txLeft, received>>

HangUp ==
  /\ sending.left = 0 /\ ~hungUp
  /\ hungUp' = TRUE /\ edge' = TRUE
  /\ UNCHANGED <<sending, sentMsgs, socket, daemon, txLeft, received>>

-----------------------------------------------------------------------------
(* The daemon: client_cb. *)

Freed == [daemon EXCEPT !.pc = "gone", !.fd = 0]

\* What the daemon sends the client may have to wait in its ring; nothing is queued for
\* one that has hung up, as the failing write is taken for a whole one.
ubus_msg_send_tx == txLeft' \in IF hungUp THEN {txLeft} ELSE {txLeft, TRUE}

\* A message that another client's request is the reason of.
OtherSends ==
  /\ daemon.pc = "wait" /\ ubus_msg_send_tx
  /\ UNCHANGED <<sending, sentMsgs, socket, hungUp, edge, daemon, received>>

\* The client reads: there is room again, and epoll says so.
ClientReads ==
  /\ daemon.pc # "gone" /\ txLeft /\ ~hungUp /\ edge' = TRUE
  /\ UNCHANGED <<sending, sentMsgs, socket, hungUp, daemon, txLeft, received>>

\* epoll reports; EPOLLRDHUP sets sock->eof.  What waits in the ring is tried first; to a
\* client that has hung up the write fails, and it is freed.
client_cb ==
  /\ daemon.pc = "wait" /\ edge
  /\ edge' = FALSE
  /\ IF hungUp /\ txLeft THEN daemon' = Freed /\ UNCHANGED txLeft
     ELSE daemon' = [daemon EXCEPT !.pc = "retry", !.eof = hungUp] /\ txLeft' \in {txLeft, FALSE}
  /\ UNCHANGED <<sending, sentMsgs, socket, hungUp, received>>

\* What a read of at most n units takes.
Taken(n) == IF n <= Len(socket) THEN n ELSE Len(socket)

\* A descriptor is taken only with header bytes and only while none is pending.
FdIn == IF daemon.fd # 0 THEN daemon.fd ELSE IF socket[1].fd THEN socket[1].m ELSE 0

\* The second piece of a header goes to &hdrbuf + offset, which is beyond it.
TakeHeader(n) ==
  daemon' = [daemon EXCEPT !.offset = @ + n,
                           !.fd = FdIn,
                           !.m = socket[1].m,
                           !.hdrOk = @ /\ (daemon.offset = 0),
                           !.pc = IF daemon.offset + n < HdrLen THEN "out" ELSE "body"]

RecvHeader ==
  /\ daemon.pc = "retry" /\ ~daemon.eof /\ daemon.offset < HdrLen
  /\ socket # <<>>
  /\ LET n == Taken(HdrLen - daemon.offset)
     IN  /\ TakeHeader(n)
         /\ socket' = SubSeq(socket, n + 1, Len(socket))
  /\ UNCHANGED <<sending, sentMsgs, hungUp, edge, txLeft, received>>

\* recvmsg has nothing, or the client has hung up and no message was begun.
NoHeader ==
  /\ daemon.pc = "retry" /\ daemon.offset < HdrLen
  /\ daemon.eof \/ socket = <<>>
  /\ daemon' = [daemon EXCEPT !.pc = "out"]
  /\ UNCHANGED <<sending, sentMsgs, socket, hungUp, edge, txLeft, received>>

ResumeBody ==
  /\ daemon.pc = "retry" /\ daemon.offset >= HdrLen
  /\ daemon' = [daemon EXCEPT !.pc = "body"]
  /\ UNCHANGED <<sending, sentMsgs, socket, hungUp, edge, txLeft, received>>

\* Fault: the descriptor stays pending and goes with the next message too.
Accepted_KeepsFd == [daemon EXCEPT !.offset = 0, !.pc = "retry"]

\* `accept message' and `goto retry': there may be more, and nobody will tell again.
Accepted == [daemon EXCEPT !.offset = 0, !.fd = 0, !.pc = "retry"]

\* A whole body: the message is handed on, which may send the client something, and the
\* next one is tried.
RecvBody ==
  /\ daemon.pc = "body"
  /\ LET want == MsgLen - daemon.offset
         n == Taken(want)
     IN  /\ socket' = SubSeq(socket, n + 1, Len(socket))
         /\ IF n < want
            THEN /\ daemon' = [daemon EXCEPT !.offset = @ + n, !.pc = "out"]
                 /\ UNCHANGED <<txLeft, received>>
            ELSE /\ received' = Append(received,
                      [m |-> daemon.m, ok |-> daemon.hdrOk, fd |-> daemon.fd])
                 /\ daemon' = Accepted /\ ubus_msg_send_tx
  /\ UNCHANGED <<sending, sentMsgs, hungUp, edge>>

HasLeft == daemon.eof /\ ~txLeft

\* `out:': a client that has hung up is freed, its pending descriptor closed; it stays as
\* long as there is something in its ring.
RecvEnds ==
  /\ daemon.pc = "out"
  /\ daemon' = IF HasLeft THEN Freed
               ELSE [daemon EXCEPT !.pc = "wait"]
  /\ UNCHANGED <<sending, sentMsgs, socket, hungUp, edge, txLeft, received>>

RxDaemon == OtherSends \/ client_cb \/ RecvHeader \/ NoHeader \/ ResumeBody \/ RecvBody \/ RecvEnds

RxNext ==
  \/ \E f \in BOOLEAN : ubus_send_msg(f)
  \/ \E n \in 1..Room : writev_retry(n)
  \/ WriteFails \/ HangUp \/ ClientReads \/ RxDaemon

RxSpec == RxInit /\ [][RxNext]_rxVars

-----------------------------------------------------------------------------
(* Properties. *)

\* As long as no header came in pieces the daemon is given exactly the messages
\* that were written, in order, each with its own descriptor and no other's.  Being
\* told only once is enough: whenever the daemon waits with nothing to be told of, it
\* has read everything there is, and a client that hung up has been freed.
StreamIntact ==
  /\ \A i \in DOMAIN received :
       (\A j \in 1..i : received[j].ok) =>
          /\ received[i].m = i
          /\ received[i].fd = (IF sentMsgs[i] THEN i ELSE 0)
  /\ daemon.pc = "wait" /\ ~edge => socket = <<>> /\ ~hungUp
=============================================================================
