----------------------------- MODULE LibubusRx -----------------------------
(***************************************************************************)
(* The library's way back: the daemon's messages arrive in pieces and      *)
(* get_next_msg reads one at a time, waiting for the rest of a message     *)
(* once it has begun.  The stream is counted in units: message m has the   *)
(* units (m-1)*L+1 .. m*L, the first HeadLen of them the header.  A signal *)
(* may set uloop_cancelled and the daemon may go away at any unit.         *)
(***************************************************************************)
EXTENDS Naturals, Sequences

CONSTANTS HeadLen, DataLen,
          MaxUnits,       \* bound: units the daemon sends
          MaxSignals      \* bound: signals

ASSUME IoAssumption == HeadLen \in Nat \ {0} /\ DataLen \in Nat

VARIABLES arrived,        \* units the daemon has sent
          consumed,       \* units read from the socket
          closed,         \* the daemon has closed the connection
          getMsg,         \* get_next_msg: [pc, need, from], recv_retry's iov_len left
          cancel,         \* uloop_cancelled, and how often a signal set it
          lost,           \* ctx->sock.eof, connection_lost was called
          handed          \* what ubus_process_msg was given: [first unit, units]

ioVars == <<arrived, consumed, closed, getMsg, cancel, lost, handed>>

MessageLen == HeadLen + DataLen
NoMessage == [pc |-> "poll", need |-> 0, from |-> 0]

IoInit ==
  /\ arrived = 0 /\ consumed = 0 /\ closed = FALSE
  /\ getMsg = NoMessage /\ cancel = [on |-> FALSE, signals |-> 0]
  /\ lost = FALSE /\ handed = <<>>

-----------------------------------------------------------------------------
DaemonSends ==
  /\ ~closed /\ arrived < MaxUnits
  /\ arrived' = arrived + 1
  /\ UNCHANGED <<consumed, closed, getMsg, cancel, lost, handed>>

DaemonCloses ==
  /\ ~closed /\ closed' = TRUE
  /\ UNCHANGED <<arrived, consumed, getMsg, cancel, lost, handed>>

uloop_handle_sigint ==
  /\ cancel.signals < MaxSignals
  /\ cancel' = [on |-> TRUE, signals |-> cancel.signals + 1]
  /\ UNCHANGED <<arrived, consumed, closed, getMsg, lost, handed>>

\* ubus_handle_data is called: by the loop, or by a synchronous request, which
\* clears uloop_cancelled first and so goes on after a signal.
HandleData ==
  /\ getMsg.pc = "poll" /\ ~lost
  /\ consumed < arrived \/ closed
  /\ getMsg' = [pc |-> "head", need |-> HeadLen, from |-> consumed + 1]
  /\ cancel' = [cancel EXCEPT !.on = FALSE]
  /\ UNCHANGED <<arrived, consumed, closed, lost, handed>>

\* recvmsg returns n bytes.
RecvSome(n) ==
  /\ getMsg.pc \in {"head", "body"} /\ getMsg.need > 0
  /\ n <= getMsg.need /\ consumed + n <= arrived
  /\ consumed' = consumed + n
  /\ getMsg' = [getMsg EXCEPT !.need = @ - n]
  /\ UNCHANGED <<arrived, closed, cancel, lost, handed>>

\* Fault: a message that has begun is not waited for.
GivesUp_Always == TRUE

\* wait is set once a byte was read, and by the caller for the body.
GivesUp == cancel.on \/ (getMsg.pc = "head" /\ getMsg.need = HeadLen)

\* recvmsg has nothing and the message has not begun, or uloop_cancelled is set:
\* recv_retry returns 0 and get_next_msg gives up, what it read being gone.
RecvNothing ==
  /\ getMsg.pc \in {"head", "body"} /\ getMsg.need > 0
  /\ consumed = arrived /\ ~closed
  /\ GivesUp
  /\ getMsg' = NoMessage
  /\ UNCHANGED <<arrived, consumed, closed, cancel, lost, handed>>

\* recvmsg finds the end of the stream in a header: sock.eof, connection_lost.
EofInHeader ==
  /\ getMsg.pc = "head" /\ getMsg.need > 0
  /\ consumed = arrived /\ closed
  /\ lost' = TRUE
  /\ getMsg' = NoMessage
  /\ UNCHANGED <<arrived, consumed, closed, cancel, handed>>

\* In a body its -1 is taken for success: the message is handed on as it is.
EofInBody ==
  /\ getMsg.pc = "body" /\ getMsg.need > 0
  /\ consumed = arrived /\ closed
  /\ getMsg' = [getMsg EXCEPT !.need = 0]
  /\ UNCHANGED <<arrived, consumed, closed, cancel, lost, handed>>

\* The header is complete and valid: room for the body is made.
HeaderRead ==
  /\ getMsg.pc = "head" /\ getMsg.need = 0
  /\ getMsg' = [getMsg EXCEPT !.pc = "body", !.need = DataLen]
  /\ UNCHANGED <<arrived, consumed, closed, cancel, lost, handed>>

\* `if (uloop_cancelled) break;'
GoesOn == ~cancel.on

\* The message is processed and, unless the loop is to end, the next one tried.
MessageRead ==
  /\ getMsg.pc = "body" /\ getMsg.need = 0
  /\ handed' = Append(handed, [from |-> getMsg.from, units |-> consumed - getMsg.from + 1])
  /\ getMsg' = IF GoesOn THEN [pc |-> "head", need |-> HeadLen, from |-> consumed + 1]
               ELSE NoMessage
  /\ UNCHANGED <<arrived, consumed, closed, cancel, lost>>

IoNext ==
  \/ DaemonSends \/ DaemonCloses \/ uloop_handle_sigint \/ HandleData
  \/ \E n \in 1..MessageLen : RecvSome(n)
  \/ RecvNothing \/ EofInHeader \/ EofInBody \/ HeaderRead \/ MessageRead

IoSpec == IoInit /\ [][IoNext]_ioVars

-----------------------------------------------------------------------------
(* Properties. *)

\* Unless a signal made it give up in the middle of one, the library processes the
\* daemon's messages one after the other and whole; only the last, when the daemon
\* goes away, may be cut off.
MessagesWhole ==
  cancel.signals = 0 => \A i \in DOMAIN handed :
    /\ handed[i].from = (i - 1) * MessageLen + 1
    /\ handed[i].units = MessageLen \/ (closed /\ i = Len(handed))
=============================================================================
