---------------------------- MODULE UbusIoProofs ----------------------------
(***************************************************************************)
(* The two directions of a client's stream, proved for messages and        *)
(* sockets of any size: the library processes the daemon's messages whole  *)
(* (LibubusRx) and the daemon is given the client's messages in order,     *)
(* each with its own descriptor (UbusdRx).                                 *)
(***************************************************************************)
EXTENDS LibubusRx, UbusdRx, Integers, SequenceTheorems, TLAPS

(* The library reads: LibubusRx. *)

IoTypeOK ==
  /\ arrived \in Nat /\ consumed \in Nat /\ consumed <= arrived
  /\ closed \in BOOLEAN /\ lost \in BOOLEAN
  /\ getMsg \in [pc : {"poll", "head", "body"}, need : Nat, from : Nat]
  /\ cancel \in [on : BOOLEAN, signals : Nat]
  /\ handed \in Seq([from : Nat, units : Int])

\* The units of the messages handed on so far.
Done == Len(handed) * MessageLen

\* get_next_msg is between two messages or within the next one, as far as it
\* has read; the end of the stream may have cut that one's body off.
InMessage ==
  /\ \A i \in 1 .. Len(handed) : handed[i].units = MessageLen
  /\ getMsg.pc = "poll" => consumed = Done
  /\ getMsg.pc = "head" =>
       /\ getMsg.from = Done + 1 /\ getMsg.need <= HeadLen
       /\ consumed = Done + HeadLen - getMsg.need
  /\ getMsg.pc = "body" =>
       /\ getMsg.from = Done + 1 /\ getMsg.need <= DataLen
       /\ \/ consumed = Done + MessageLen - getMsg.need
          \/ closed /\ consumed = arrived /\ getMsg.need = 0

\* The stream has ended and all of it has been handed on.
AtEnd ==
  /\ closed /\ consumed = arrived /\ getMsg.pc # "body"
  /\ getMsg.pc = "head" => getMsg.need = HeadLen
  /\ \A i \in 1 .. Len(handed) - 1 : handed[i].units = MessageLen

ReadInOrder ==
  /\ \A i \in 1 .. Len(handed) : handed[i].from = (i - 1) * MessageLen + 1
  /\ InMessage \/ AtEnd

IoInv ==
  /\ IoTypeOK
  /\ cancel.on => cancel.signals > 0
  /\ cancel.signals = 0 => ReadInOrder

\* One message more: the product that counts units grows by one message.
LEMMA OneMore ==
  ASSUME NEW n \in Nat, NEW len \in Nat
  PROVE  /\ (n + 1) * len = n * len + len
         /\ n * len \in Nat
  OBVIOUS

\* No message has been read at first.
LEMMA IoInitInv == IoInit => IoInv
<1> SUFFICES ASSUME IoInit PROVE IoInv
  OBVIOUS
<1> USE DEF IoInit, NoMessage
<1>1. IoTypeOK
  <2>1. getMsg \in [pc : {"poll", "head", "body"}, need : Nat, from : Nat]
    OBVIOUS
  <2>2. cancel \in [on : BOOLEAN, signals : Nat]
    OBVIOUS
  <2>3. handed \in Seq([from : Nat, units : Int])
    OBVIOUS
  <2>4. arrived \in Nat /\ consumed \in Nat /\ consumed <= arrived
    OBVIOUS
  <2> QED
    BY <2>1, <2>2, <2>3, <2>4 DEF IoTypeOK
<1>2. Len(handed) = 0 /\ 1 .. Len(handed) = {}
  OBVIOUS
<1>3. Done = 0
  BY <1>2, IoAssumption DEF Done, MessageLen
<1>4. InMessage
  BY <1>2, <1>3 DEF InMessage
<1>5. ReadInOrder
  BY <1>2, <1>4 DEF ReadInOrder
<1> QED
  BY <1>1, <1>5 DEF IoInv

\* Every step of the daemon, of the library and every signal keeps the
\* library's place in the stream.
LEMMA IoNextInv == IoInv /\ [IoNext]_ioVars => IoInv'
<1> SUFFICES ASSUME IoInv, [IoNext]_ioVars PROVE IoInv'
  OBVIOUS
<1>t. /\ IoTypeOK /\ (cancel.on => cancel.signals > 0)
      /\ cancel.signals = 0 => ReadInOrder
  BY DEF IoInv
<1>l. HeadLen \in Nat \ {0} /\ DataLen \in Nat /\ MessageLen \in Nat
      /\ MessageLen = HeadLen + DataLen
  BY IoAssumption DEF MessageLen
<1>d. Len(handed) \in Nat /\ Done \in Nat
  <2>1. Len(handed) \in Nat
    BY <1>t, LenProperties DEF IoTypeOK
  <2> QED
    BY <2>1, <1>l, OneMore DEF Done
<1>1. CASE DaemonSends
  <2>1. IoTypeOK'
    BY <1>t, <1>1 DEF DaemonSends, IoTypeOK
  <2>2. ASSUME ReadInOrder PROVE ReadInOrder'
    <3>1. /\ ~closed /\ closed' = closed /\ consumed' = consumed
          /\ getMsg' = getMsg /\ handed' = handed
      BY <1>1 DEF DaemonSends
    <3>2. InMessage
      BY <2>2, <3>1 DEF ReadInOrder, AtEnd
    <3>3. InMessage'
      BY <3>1, <3>2 DEF InMessage, Done
    <3> QED
      BY <2>2, <3>1, <3>3 DEF ReadInOrder
  <2> QED
    BY <1>t, <1>1, <2>1, <2>2 DEF DaemonSends, IoInv
<1>2. CASE DaemonCloses
  <2>1. IoTypeOK'
    BY <1>t, <1>2 DEF DaemonCloses, IoTypeOK
  <2>2. ASSUME ReadInOrder PROVE ReadInOrder'
    <3>1. /\ ~closed /\ closed' = TRUE /\ consumed' = consumed
          /\ getMsg' = getMsg /\ handed' = handed /\ arrived' = arrived
      BY <1>2 DEF DaemonCloses
    <3>2. InMessage
      BY <2>2, <3>1 DEF ReadInOrder, AtEnd
    <3>3. InMessage'
      BY <3>1, <3>2 DEF InMessage, Done
    <3> QED
      BY <2>2, <3>1, <3>3 DEF ReadInOrder
  <2> QED
    BY <1>t, <1>2, <2>1, <2>2 DEF DaemonCloses, IoInv
<1>3. CASE uloop_handle_sigint
  <2>1. IoTypeOK'
    BY <1>t, <1>3 DEF uloop_handle_sigint, IoTypeOK
  <2>2. cancel'.signals > 0
    BY <1>t, <1>3 DEF uloop_handle_sigint, IoTypeOK
  <2> QED
    BY <2>1, <2>2 DEF IoInv
<1>4. CASE HandleData
  <2>0. /\ getMsg.pc = "poll" /\ UNCHANGED <<arrived, consumed, closed, lost, handed>>
        /\ getMsg' = [pc |-> "head", need |-> HeadLen, from |-> consumed + 1]
        /\ cancel' = [cancel EXCEPT !.on = FALSE]
    BY <1>4 DEF HandleData
  <2>1. IoTypeOK'
    <3>1. getMsg' \in [pc : {"poll", "head", "body"}, need : Nat, from : Nat]
      BY <1>t, <1>l, <2>0 DEF IoTypeOK
    <3>2. cancel' \in [on : BOOLEAN, signals : Nat]
      BY <1>t, <2>0 DEF IoTypeOK
    <3> QED
      BY <1>t, <2>0, <3>1, <3>2 DEF IoTypeOK
  <2>2. ~cancel'.on /\ cancel'.signals = cancel.signals
    BY <1>t, <2>0 DEF IoTypeOK
  <2>3. ASSUME ReadInOrder PROVE ReadInOrder'
    <3>1. CASE InMessage
      <4>1. consumed = Done
        BY <2>0, <3>1 DEF InMessage
      <4>2. InMessage'
        BY <1>d, <1>l, <2>0, <3>1, <4>1 DEF InMessage, Done
      <4> QED
        BY <2>0, <2>3, <4>2 DEF ReadInOrder
    <3>2. CASE AtEnd
      BY <2>0, <2>3, <3>2 DEF ReadInOrder, AtEnd
    <3> QED
      BY <2>3, <3>1, <3>2 DEF ReadInOrder
  <2> QED
    BY <1>t, <2>1, <2>2, <2>3 DEF IoInv
<1>5. ASSUME NEW n \in 1 .. MessageLen, RecvSome(n) PROVE IoInv'
  <2>0. /\ getMsg.pc \in {"head", "body"} /\ getMsg.need > 0
        /\ n <= getMsg.need /\ consumed + n <= arrived
        /\ consumed' = consumed + n
        /\ getMsg' = [getMsg EXCEPT !.need = @ - n]
        /\ UNCHANGED <<arrived, closed, cancel, lost, handed>>
    BY <1>5 DEF RecvSome
  <2>n. n \in Nat /\ n > 0
    BY <1>l
  <2>g. /\ getMsg'.pc = getMsg.pc /\ getMsg'.from = getMsg.from
        /\ getMsg'.need = getMsg.need - n /\ getMsg'.need \in Nat
    BY <1>t, <2>0, <2>n DEF IoTypeOK
  <2>x. getMsg.need \in Nat /\ consumed \in Nat /\ consumed' = consumed + n
    BY <1>t, <2>0 DEF IoTypeOK
  <2>d. Done' = Done
    BY <2>0 DEF Done
  <2>1. IoTypeOK'
    <3>1. getMsg' \in [pc : {"poll", "head", "body"}, need : Nat, from : Nat]
      BY <1>t, <2>0, <2>g DEF IoTypeOK
    <3>2. consumed' \in Nat /\ consumed' <= arrived'
      BY <1>t, <2>0, <2>n DEF IoTypeOK
    <3> QED
      BY <1>t, <2>0, <3>1, <3>2 DEF IoTypeOK
  <2>3. ASSUME ReadInOrder PROVE ReadInOrder'
    <3>1. InMessage
      <4>1. ~(consumed = arrived)
        BY <1>t, <2>0, <2>n DEF IoTypeOK
      <4> QED
        BY <2>3, <4>1 DEF ReadInOrder, AtEnd
    <3>2. CASE getMsg.pc = "head"
      <4>1. /\ getMsg'.from = Done' + 1 /\ getMsg'.need <= HeadLen
            /\ consumed' = Done' + HeadLen - getMsg'.need
        <5>1. /\ getMsg.from = Done + 1 /\ getMsg.need <= HeadLen
              /\ consumed = Done + HeadLen - getMsg.need
          BY <1>t, <1>l, <1>d, <2>0, <2>n, <2>x, <3>1, <3>2 DEF InMessage
        <5> QED
          BY <1>l, <1>d, <2>n, <2>g, <2>d, <2>x, <5>1
      <4>2. InMessage'
        BY <2>0, <2>g, <3>1, <3>2, <4>1 DEF InMessage
      <4> QED
        BY <2>0, <2>3, <4>2 DEF ReadInOrder
    <3>3. CASE getMsg.pc = "body"
      <4>1. /\ getMsg'.from = Done' + 1 /\ getMsg'.need <= DataLen
            /\ consumed' = Done' + MessageLen - getMsg'.need
        <5>1. /\ getMsg.from = Done + 1 /\ getMsg.need <= DataLen
              /\ consumed = Done + MessageLen - getMsg.need
          BY <1>t, <1>l, <1>d, <2>0, <2>n, <2>x, <3>1, <3>3 DEF InMessage
        <5>2. consumed + n = Done + MessageLen - (getMsg.need - n)
          BY <1>l, <1>d, <2>n, <2>x, <5>1
        <5>3. getMsg.need - n <= DataLen
          BY <1>l, <2>n, <2>x, <5>1
        <5> QED
          BY <2>g, <2>d, <2>x, <5>1, <5>2, <5>3
      <4>2. InMessage'
        BY <2>0, <2>g, <3>1, <3>3, <4>1 DEF InMessage
      <4> QED
        BY <2>0, <2>3, <4>2 DEF ReadInOrder
    <3> QED
      BY <2>0, <3>2, <3>3
  <2> QED
    BY <1>t, <2>0, <2>1, <2>3 DEF IoInv
<1>6. CASE RecvNothing
  <2>0. /\ getMsg.pc \in {"head", "body"} /\ getMsg.need > 0
        /\ consumed = arrived /\ ~closed /\ GivesUp
        /\ getMsg' = NoMessage
        /\ UNCHANGED <<arrived, consumed, closed, cancel, lost, handed>>
    BY <1>6 DEF RecvNothing
  <2>1. IoTypeOK'
    BY <1>t, <2>0 DEF IoTypeOK, NoMessage
  <2>3. ASSUME cancel.signals = 0 PROVE ReadInOrder'
    <3>1. InMessage /\ ReadInOrder
      BY <1>t, <2>0, <2>3 DEF ReadInOrder, AtEnd
    <3>2. getMsg.pc = "head" /\ getMsg.need = HeadLen
      BY <1>t, <2>0, <2>3 DEF GivesUp
    <3>3. consumed = Done
      BY <1>t, <1>d, <1>l, <3>1, <3>2 DEF InMessage, IoTypeOK
    <3>4. InMessage'
      BY <2>0, <3>1, <3>3 DEF InMessage, NoMessage, Done
    <3> QED
      BY <2>0, <3>1, <3>4 DEF ReadInOrder
  <2> QED
    BY <1>t, <2>0, <2>1, <2>3 DEF IoInv
<1>7. CASE EofInHeader
  <2>0. /\ getMsg.pc = "head" /\ consumed = arrived /\ closed /\ lost' = TRUE
        /\ getMsg' = NoMessage
        /\ UNCHANGED <<arrived, consumed, closed, cancel, handed>>
    BY <1>7 DEF EofInHeader
  <2>1. IoTypeOK'
    BY <1>t, <2>0 DEF IoTypeOK, NoMessage
  <2>3. ASSUME ReadInOrder PROVE ReadInOrder'
    <3>1. \A i \in 1 .. Len(handed) - 1 : handed[i].units = MessageLen
      BY <1>d, <2>3 DEF ReadInOrder, InMessage, AtEnd
    <3>2. AtEnd'
      BY <2>0, <3>1 DEF AtEnd, NoMessage
    <3> QED
      BY <2>0, <2>3, <3>2 DEF ReadInOrder
  <2> QED
    BY <1>t, <2>0, <2>1, <2>3 DEF IoInv
<1>8. CASE EofInBody
  <2>0. /\ getMsg.pc = "body" /\ consumed = arrived /\ closed
        /\ getMsg' = [getMsg EXCEPT !.need = 0]
        /\ UNCHANGED <<arrived, consumed, closed, cancel, lost, handed>>
    BY <1>8 DEF EofInBody
  <2>g. getMsg'.pc = "body" /\ getMsg'.from = getMsg.from /\ getMsg'.need = 0
    BY <1>t, <2>0 DEF IoTypeOK
  <2>1. IoTypeOK'
    BY <1>t, <2>0 DEF IoTypeOK
  <2>3. ASSUME ReadInOrder PROVE ReadInOrder'
    <3>1. InMessage
      BY <2>0, <2>3 DEF ReadInOrder, AtEnd
    <3>2. InMessage'
      BY <1>l, <2>0, <2>g, <3>1 DEF InMessage, Done
    <3> QED
      BY <2>0, <2>3, <3>2 DEF ReadInOrder
  <2> QED
    BY <1>t, <2>0, <2>1, <2>3 DEF IoInv
<1>9. CASE HeaderRead
  <2>0. /\ getMsg.pc = "head" /\ getMsg.need = 0
        /\ getMsg' = [getMsg EXCEPT !.pc = "body", !.need = DataLen]
        /\ UNCHANGED <<arrived, consumed, closed, cancel, lost, handed>>
    BY <1>9 DEF HeaderRead
  <2>g. getMsg'.pc = "body" /\ getMsg'.from = getMsg.from /\ getMsg'.need = DataLen
    BY <1>t, <2>0 DEF IoTypeOK
  <2>1. IoTypeOK'
    BY <1>t, <1>l, <2>0 DEF IoTypeOK
  <2>3. ASSUME ReadInOrder PROVE ReadInOrder'
    <3>1. InMessage
      BY <1>l, <2>0, <2>3 DEF ReadInOrder, AtEnd
    <3>2. getMsg'.from = Done' + 1 /\ consumed' = Done' + MessageLen - getMsg'.need
      BY <1>l, <1>d, <2>0, <2>g, <3>1 DEF InMessage, Done
    <3>3. InMessage'
      BY <1>l, <2>0, <2>g, <3>1, <3>2 DEF InMessage
    <3> QED
      BY <2>0, <2>3, <3>3 DEF ReadInOrder
  <2> QED
    BY <1>t, <2>0, <2>1, <2>3 DEF IoInv
<1>10. CASE MessageRead
  <2> DEFINE item == [from |-> getMsg.from, units |-> consumed - getMsg.from + 1]
  <2>0. /\ getMsg.pc = "body" /\ getMsg.need = 0
        /\ handed' = Append(handed, item)
        /\ getMsg' = IF GoesOn THEN [pc |-> "head", need |-> HeadLen, from |-> consumed + 1]
                     ELSE NoMessage
        /\ UNCHANGED <<arrived, consumed, closed, cancel, lost>>
    BY <1>10 DEF MessageRead
  <2>i. item \in [from : Nat, units : Int]
    BY <1>t DEF IoTypeOK
  <2> HIDE DEF item
  <2>h. /\ Len(handed') = Len(handed) + 1
        /\ \A i \in 1 .. Len(handed) : handed'[i] = handed[i]
        /\ handed'[Len(handed) + 1] = item
        /\ handed' \in Seq([from : Nat, units : Int])
    BY <1>t, <2>0, <2>i, AppendProperties DEF IoTypeOK
  <2>1. IoTypeOK'
    BY <1>t, <1>l, <2>0, <2>h DEF IoTypeOK, NoMessage
  <2>3. ASSUME cancel.signals = 0 PROVE ReadInOrder'
    <3>1. InMessage /\ ReadInOrder
      BY <1>t, <2>0, <2>3 DEF ReadInOrder, AtEnd
    <3>2. item.from = Done + 1 /\ item.units = consumed - Done
      BY <1>t, <1>d, <2>0, <3>1 DEF InMessage, item, IoTypeOK
    <3>3. Done' = Done + MessageLen /\ Done' \in Nat
      <4>1. PICK n \in Nat : n = Len(handed)
        BY <1>d
      <4>2. Done = n * MessageLen /\ Done' = (n + 1) * MessageLen
        BY <2>h, <4>1 DEF Done, MessageLen
      <4>3. (n + 1) * MessageLen = n * MessageLen + MessageLen
        BY <1>l, OneMore
      <4> QED
        BY <1>d, <1>l, <4>2, <4>3
    <3>4. getMsg' = [pc |-> "head", need |-> HeadLen, from |-> consumed + 1]
      BY <1>t, <2>0, <2>3 DEF GoesOn
    <3>5. \A i \in 1 .. Len(handed') : handed'[i].from = (i - 1) * MessageLen + 1
      <4> SUFFICES ASSUME NEW i \in 1 .. Len(handed')
                   PROVE  handed'[i].from = (i - 1) * MessageLen + 1
        OBVIOUS
      <4>1. CASE i \in 1 .. Len(handed)
        BY <2>h, <3>1, <4>1 DEF ReadInOrder
      <4>2. CASE i = Len(handed) + 1
        <5>1. i - 1 = Len(handed)
          BY <1>d, <4>2
        <5> QED
          BY <2>h, <3>2, <4>2, <5>1 DEF Done
      <4> QED
        BY <1>d, <2>h, <4>1, <4>2
    <3>6. CASE consumed = Done + MessageLen
      <4>1. item.units = MessageLen
        BY <1>d, <1>l, <3>2, <3>6
      <4>2. \A i \in 1 .. Len(handed') : handed'[i].units = MessageLen
        BY <1>d, <2>h, <3>1, <4>1 DEF InMessage
      <4>3. InMessage'
        BY <1>l, <2>0, <3>3, <3>4, <3>6, <4>2 DEF InMessage
      <4> QED
        BY <3>5, <4>3 DEF ReadInOrder
    <3>7. CASE closed /\ consumed = arrived
      <4>1. \A i \in 1 .. Len(handed') - 1 : handed'[i].units = MessageLen
        BY <1>d, <2>h, <3>1 DEF InMessage
      <4>2. AtEnd'
        BY <2>0, <3>4, <3>7, <4>1 DEF AtEnd
      <4> QED
        BY <3>5, <4>2 DEF ReadInOrder
    <3> QED
      BY <1>l, <1>d, <2>0, <3>1, <3>6, <3>7 DEF InMessage
  <2> QED
    BY <1>t, <2>0, <2>1, <2>3 DEF IoInv
<1>11. CASE UNCHANGED ioVars
  BY <1>t, <1>11 DEF ioVars, IoInv, IoTypeOK, ReadInOrder, InMessage, AtEnd, Done
<1> QED
  BY <1>1, <1>2, <1>3, <1>4, <1>5, <1>6, <1>7, <1>8, <1>9, <1>10, <1>11 DEF IoNext

\* For messages of any length and any way they arrive in: as long as no
\* signal has come, the library processes the daemon's messages one after the
\* other and whole, but for the last when the daemon goes away.
THEOREM MessagesStayWhole == IoSpec => []MessagesWhole
<1>1. IoInv => MessagesWhole
  <2> SUFFICES ASSUME IoInv, cancel.signals = 0, NEW i \in DOMAIN handed
               PROVE  /\ handed[i].from = (i - 1) * MessageLen + 1
                      /\ handed[i].units = MessageLen \/ (closed /\ i = Len(handed))
    BY DEF MessagesWhole
  <2>1. ReadInOrder /\ i \in 1 .. Len(handed) /\ Len(handed) \in Nat
    BY LenProperties DEF IoInv, IoTypeOK
  <2>2. handed[i].units = MessageLen \/ (closed /\ i = Len(handed))
    BY <2>1 DEF ReadInOrder, InMessage, AtEnd
  <2> QED
    BY <2>1, <2>2 DEF ReadInOrder
<1> QED
  BY <1>1, IoInitInv, IoNextInv, PTL DEF IoSpec

-----------------------------------------------------------------------------
(* The daemon reads: UbusdRx. *)

RxTypeOK ==
  /\ sending \in [fd : BOOLEAN, left : 0 .. MsgLen, writes : Nat]
  /\ sentMsgs \in Seq(BOOLEAN)
  /\ socket \in Seq([m : Nat \ {0}, i : 1 .. MsgLen, fd : BOOLEAN])
  /\ hungUp \in BOOLEAN /\ edge \in BOOLEAN /\ txLeft \in BOOLEAN
  /\ daemon \in [pc : {"wait", "retry", "body", "out", "gone"}, eof : BOOLEAN,
                 offset : 0 .. MsgLen, fd : Nat, m : Nat, hdrOk : BOOLEAN]
  /\ received \in Seq([m : Nat, ok : BOOLEAN, fd : Nat])

\* The descriptor that goes with message m.
OwnFd(m) == IF sentMsgs[m] THEN m ELSE 0

\* The units of the messages handed on, and of the messages begun by the client.
HandedUnits == Len(received) * MsgLen
BegunUnits == Len(sentMsgs) * MsgLen

\* What the client has written and the daemon has not read is in the socket,
\* and the write in progress is that of the latest message.
FlowInv ==
  /\ BegunUnits = HandedUnits + daemon.offset + Len(socket) + sending.left
  /\ sending.left > 0 => sending.fd = sentMsgs[Len(sentMsgs)]
  /\ sending.left = MsgLen => sending.writes = 0

\* The socket holds consecutive units of the stream; a descriptor is with the
\* first unit of its message and with no other message's.
SocketInv ==
  \A j \in 1 .. Len(socket) :
    /\ (socket[j].m - 1) * MsgLen + socket[j].i = HandedUnits + daemon.offset + j
    /\ socket[j].m <= Len(sentMsgs)
    /\ socket[j].fd => sentMsgs[socket[j].m]
    /\ socket[j].i = 1 => (socket[j].fd <=> sentMsgs[socket[j].m])

\* The message that client_cb has begun is the one after those it handed on.
ParseInv ==
  /\ daemon.offset = 0 => daemon.fd = 0
  /\ daemon.offset > 0 =>
       /\ daemon.m = Len(received) + 1 /\ daemon.m <= Len(sentMsgs)
       /\ daemon.fd = OwnFd(daemon.m)
  /\ IF daemon.pc = "body" THEN daemon.offset >= HdrLen ELSE daemon.offset < MsgLen

ReceivedInv ==
  /\ Len(received) <= Len(sentMsgs)
  /\ \A i \in 1 .. Len(received) : received[i].m = i /\ received[i].fd = OwnFd(i)

\* What the daemon has not been told of, it is about to see.
EdgeInv ==
  ~edge => /\ daemon.pc = "wait" => socket = <<>> /\ ~hungUp
           /\ daemon.pc = "out" => socket = <<>> \/ daemon.eof
           /\ daemon.pc \in {"retry", "body", "out"} /\ hungUp => daemon.eof

\* Nothing waits in the ring of a client whose end is known.
EofInv == daemon.eof /\ daemon.pc # "gone" => hungUp /\ ~txLeft

RxInv ==
  /\ RxTypeOK /\ ReceivedInv /\ EdgeInv /\ EofInv
  /\ daemon.pc # "gone" => FlowInv /\ SocketInv /\ ParseInv

\* A unit belongs to one message only.
LEMMA OneMessagePerUnit ==
  ASSUME NEW len \in Nat \ {0}, NEW a \in Nat, NEW b \in Nat,
         NEW i \in 1 .. len, NEW o \in 0 .. len - 1,
         a * len + i = b * len + o + 1
  PROVE  a = b /\ i = o + 1
<1>1. ASSUME a < b PROVE FALSE
  <2>1. PICK d \in Nat : b = a + 1 + d
    <3>1. b - a - 1 \in Nat /\ b = a + 1 + (b - a - 1)
      BY <1>1
    <3> QED
      BY <3>1
  <2>2. b * len = a * len + len + d * len /\ d * len \in Nat /\ a * len \in Nat
    BY <2>1
  <2> QED
    BY <2>2
<1>2. ASSUME b < a PROVE FALSE
  <2>1. PICK d \in Nat : a = b + 1 + d
    <3>1. a - b - 1 \in Nat /\ a = b + 1 + (a - b - 1)
      BY <1>2
    <3> QED
      BY <3>1
  <2>2. a * len = b * len + len + d * len /\ d * len \in Nat /\ b * len \in Nat
    BY <2>1
  <2> QED
    BY <2>2
<1>3. a = b
  BY <1>1, <1>2
<1>4. a * len \in Nat
  OBVIOUS
<1> QED
  BY <1>3, <1>4

\* What is left of a stream of which the first n units were read.
LEMMA Dropped ==
  ASSUME NEW S, NEW s \in Seq(S), NEW n \in 0 .. Len(s)
  PROVE  /\ SubSeq(s, n + 1, Len(s)) \in Seq(S)
         /\ Len(SubSeq(s, n + 1, Len(s))) = Len(s) - n
         /\ \A j \in 1 .. Len(s) - n : SubSeq(s, n + 1, Len(s))[j] = s[n + j]
<1>1. Len(s) \in Nat /\ n \in Nat
  BY LenProperties
<1>2. \A j \in n + 1 .. Len(s) : j \in 1 .. Len(s)
  BY <1>1
<1>3. /\ SubSeq(s, n + 1, Len(s)) \in Seq(S)
      /\ Len(SubSeq(s, n + 1, Len(s))) = IF n + 1 <= Len(s) THEN Len(s) - (n + 1) + 1 ELSE 0
      /\ \A j \in 1 .. Len(s) - (n + 1) + 1 : SubSeq(s, n + 1, Len(s))[j] = s[n + 1 + j - 1]
  BY <1>1, SubSeqProperties
<1> QED
  BY <1>1, <1>3

\* A function on 1 .. n is a sequence of length n.
LEMMA FunctionIsSeq ==
  ASSUME NEW S, NEW n \in Nat, NEW f \in [1 .. n -> S]
  PROVE  f \in Seq(S) /\ Len(f) = n
  OBVIOUS

\* Nothing has been written at first.
LEMMA RxInitInv == RxInit => RxInv
<1> SUFFICES ASSUME RxInit PROVE RxInv
  OBVIOUS
<1> USE DEF RxInit
<1>1. MsgLen \in Nat /\ MsgLen > 0
  BY RxAssumption DEF MsgLen
<1>2. RxTypeOK
  <2>1. sending \in [fd : BOOLEAN, left : 0 .. MsgLen, writes : Nat]
    BY <1>1 DEF NotSending
  <2>2. daemon \in [pc : {"wait", "retry", "body", "out", "gone"}, eof : BOOLEAN,
                    offset : 0 .. MsgLen, fd : Nat, m : Nat, hdrOk : BOOLEAN]
    BY <1>1
  <2>3. /\ sentMsgs \in Seq(BOOLEAN)
        /\ socket \in Seq([m : Nat \ {0}, i : 1 .. MsgLen, fd : BOOLEAN])
        /\ received \in Seq([m : Nat, ok : BOOLEAN, fd : Nat])
    OBVIOUS
  <2> QED
    BY <2>1, <2>2, <2>3 DEF RxTypeOK
<1>3. /\ Len(received) = 0 /\ Len(sentMsgs) = 0 /\ Len(socket) = 0
      /\ 1 .. Len(received) = {} /\ 1 .. Len(socket) = {}
  OBVIOUS
<1>4. HandedUnits = 0 /\ BegunUnits = 0
  BY <1>1, <1>3 DEF HandedUnits, BegunUnits
<1>5. FlowInv
  BY <1>1, <1>3, <1>4 DEF FlowInv, NotSending
<1>6. SocketInv /\ ReceivedInv
  BY <1>3 DEF SocketInv, ReceivedInv
<1>7. ParseInv
  BY <1>1, RxAssumption DEF ParseInv
<1>8. EdgeInv /\ EofInv
  BY DEF EdgeInv, EofInv
<1> QED
  BY <1>2, <1>5, <1>6, <1>7, <1>8 DEF RxInv

\* The lengths and positions are numbers, and the message that the daemon reads
\* next is the one after those it has handed on.
LEMMA RxNumbers ==
  ASSUME RxTypeOK
  PROVE  /\ HdrLen \in Nat /\ HdrLen > 0 /\ BodyLen \in Nat
         /\ MsgLen \in Nat /\ MsgLen >= HdrLen /\ MsgLen > 0
         /\ Len(sentMsgs) \in Nat /\ Len(socket) \in Nat /\ Len(received) \in Nat
         /\ HandedUnits \in Nat /\ BegunUnits \in Nat
         /\ daemon.offset \in Nat /\ daemon.offset <= MsgLen
         /\ sending.left \in Nat /\ sending.left <= MsgLen /\ sending.writes \in Nat
<1>1. /\ HdrLen \in Nat /\ HdrLen > 0 /\ BodyLen \in Nat
      /\ MsgLen \in Nat /\ MsgLen >= HdrLen /\ MsgLen > 0
  BY RxAssumption DEF MsgLen
<1>2. Len(sentMsgs) \in Nat /\ Len(socket) \in Nat /\ Len(received) \in Nat
  BY LenProperties DEF RxTypeOK
<1>3. HandedUnits \in Nat /\ BegunUnits \in Nat
  <2>1. \A n \in Nat : n * MsgLen \in Nat
    BY <1>1, OneMore
  <2> QED
    BY <1>2, <2>1 DEF HandedUnits, BegunUnits
<1>4. /\ daemon.offset \in 0 .. MsgLen
      /\ sending.left \in 0 .. MsgLen /\ sending.writes \in Nat
  BY DEF RxTypeOK
<1> QED
  BY <1>1, <1>2, <1>3, <1>4

\* What a unit in the socket is.
LEMMA UnitType ==
  ASSUME RxTypeOK, NEW j \in 1 .. Len(socket)
  PROVE  /\ socket[j].m \in Nat /\ socket[j].m > 0
         /\ socket[j].i \in 1 .. MsgLen /\ socket[j].fd \in BOOLEAN
<1>1. socket \in Seq([m : Nat \ {0}, i : 1 .. MsgLen, fd : BOOLEAN])
  BY DEF RxTypeOK
<1>2. socket[j] \in [m : Nat \ {0}, i : 1 .. MsgLen, fd : BOOLEAN]
  BY <1>1, ElementOfSeq
<1> QED
  BY <1>2

\* The client begins a message.
LEMMA SendKeeps ==
  ASSUME RxInv, NEW f \in BOOLEAN, ubus_send_msg(f)
  PROVE  RxInv'
<1> DEFINE k == Len(sentMsgs)
<1>0. /\ sending.left = 0 /\ daemon.pc # "gone"
      /\ sending' = [fd |-> f, left |-> MsgLen, writes |-> 0]
      /\ sentMsgs' = Append(sentMsgs, f)
      /\ UNCHANGED <<socket, hungUp, edge, daemon, txLeft, received>>
  BY DEF ubus_send_msg
<1>t. RxTypeOK /\ ReceivedInv /\ EdgeInv /\ EofInv /\ FlowInv /\ SocketInv /\ ParseInv
  BY <1>0 DEF RxInv
<1>n. RxTypeOK
  BY <1>t
<1> USE <1>n, RxNumbers
<1>s. /\ sentMsgs' \in Seq(BOOLEAN) /\ Len(sentMsgs') = k + 1
      /\ sentMsgs'[k + 1] = f
      /\ \A i \in 1 .. k : sentMsgs'[i] = sentMsgs[i]
  <2>1. sentMsgs \in Seq(BOOLEAN)
    BY DEF RxTypeOK
  <2> QED
    BY <1>0, <2>1, AppendProperties
<1>1. RxTypeOK'
  <2>1. sending' \in [fd : BOOLEAN, left : 0 .. MsgLen, writes : Nat]
    BY <1>0
  <2> QED
    BY <1>0, <1>s, <2>1 DEF RxTypeOK
<1>2. ReceivedInv'
  <2>1. \A i \in 1 .. Len(received) : received[i].m = i /\ received[i].fd = OwnFd(i)'
    BY <1>t, <1>s DEF ReceivedInv, OwnFd
  <2> QED
    BY <1>0, <1>t, <1>s, <2>1 DEF ReceivedInv
<1>3. EdgeInv' /\ EofInv'
  BY <1>0, <1>t DEF EdgeInv, EofInv
<1>4. FlowInv'
  <2>1. BegunUnits' = BegunUnits + MsgLen
    <3>1. PICK n \in Nat : n = k
      OBVIOUS
    <3>2. (n + 1) * MsgLen = n * MsgLen + MsgLen
      BY OneMore
    <3> QED
      BY <1>s, <3>1, <3>2 DEF BegunUnits, MsgLen
  <2>2. HandedUnits' = HandedUnits
    BY <1>0 DEF HandedUnits
  <2>3. sending'.left = MsgLen /\ sending'.writes = 0 /\ sending'.fd = f
    BY <1>0
  <2>4. BegunUnits' = HandedUnits' + daemon'.offset + Len(socket') + sending'.left
    BY <1>0, <1>t, <2>1, <2>2, <2>3 DEF FlowInv
  <2> QED
    BY <1>s, <2>3, <2>4 DEF FlowInv
<1>5. SocketInv'
  <2>1. HandedUnits' = HandedUnits
    BY <1>0 DEF HandedUnits
  <2> SUFFICES ASSUME NEW j \in 1 .. Len(socket)
               PROVE  /\ (socket[j].m - 1) * MsgLen + socket[j].i = HandedUnits + daemon.offset + j
                      /\ socket[j].m <= Len(sentMsgs')
                      /\ socket[j].fd => sentMsgs'[socket[j].m]
                      /\ socket[j].i = 1 => (socket[j].fd <=> sentMsgs'[socket[j].m])
    BY <1>0, <2>1 DEF SocketInv
  <2>2. socket[j].m \in Nat /\ socket[j].m > 0 /\ socket[j].m <= k
    BY <1>t, UnitType DEF SocketInv
  <2>3. sentMsgs'[socket[j].m] = sentMsgs[socket[j].m]
    BY <1>s, <2>2
  <2>4. socket[j].m <= Len(sentMsgs')
    BY <1>s, <2>2
  <2> QED
    BY <1>t, <2>3, <2>4 DEF SocketInv
<1>6. ParseInv'
  <2>1. ASSUME daemon.offset > 0 PROVE daemon.fd = OwnFd(daemon.m)' /\ daemon.m <= k + 1
    <3>1. daemon.m \in 1 .. k /\ daemon.fd = OwnFd(daemon.m)
      BY <1>t, <2>1 DEF ParseInv
    <3> QED
      BY <1>0, <1>s, <3>1 DEF OwnFd
  <2> QED
    BY <1>0, <1>t, <1>s, <2>1 DEF ParseInv
<1> QED
  BY <1>1, <1>2, <1>3, <1>4, <1>5, <1>6 DEF RxInv

\* The client writes a piece of it, of any size.
LEMMA WriteKeeps ==
  ASSUME RxInv, NEW n \in 1 .. Room, writev_retry(n)
  PROVE  RxInv'
<1> DEFINE k == Len(socket)
           Unit == [m : Nat \ {0}, i : 1 .. MsgLen, fd : BOOLEAN]
<1>0. /\ n <= sending.left /\ daemon.pc # "gone"
      /\ socket' = socket \o Pieces(n)
      /\ sending' = [sending EXCEPT !.left = @ - n, !.writes = @ + 1]
      /\ edge' = TRUE
      /\ UNCHANGED <<sentMsgs, hungUp, daemon, txLeft, received>>
  BY DEF writev_retry
<1>t. RxTypeOK /\ ReceivedInv /\ EdgeInv /\ EofInv /\ FlowInv /\ SocketInv /\ ParseInv
  BY <1>0 DEF RxInv
<1>n. RxTypeOK
  BY <1>t
<1>m. n \in Nat /\ n > 0
  BY RxAssumption
<1>k. /\ MsgLen \in Nat /\ MsgLen > 0 /\ sending.left \in Nat /\ sending.left <= MsgLen
      /\ n \in Nat /\ n > 0 /\ n <= sending.left /\ sending.writes \in Nat
  BY <1>0, <1>n, <1>m, RxNumbers
<1>l. Len(sentMsgs) \in Nat /\ k \in Nat
  BY <1>n, RxNumbers
<1>u. HandedUnits \in Nat /\ BegunUnits \in Nat /\ daemon.offset \in Nat
  BY <1>n, RxNumbers
<1>f. BegunUnits = HandedUnits + daemon.offset + k + sending.left
  BY <1>t DEF FlowInv
<1>g. /\ sending'.fd = sending.fd /\ sending'.left = sending.left - n
      /\ sending'.writes = sending.writes + 1 /\ sending.fd \in BOOLEAN
  BY <1>0, <1>n DEF RxTypeOK
<1>a. Len(sentMsgs) > 0
  <2>1. BegunUnits > 0
    BY <1>k, <1>l, <1>u, <1>f
  <2>2. Len(sentMsgs) = 0 => BegunUnits = 0
    BY <1>k DEF BegunUnits
  <2> QED
    BY <1>l, <2>1, <2>2
<1>p. /\ Pieces(n) \in Seq(Unit) /\ Len(Pieces(n)) = n
      /\ \A j \in 1 .. n :
           /\ Pieces(n)[j].m = Len(sentMsgs)
           /\ Pieces(n)[j].i = MsgLen - sending.left + j
           /\ Pieces(n)[j].fd <=> (j = 1 /\ sending.fd /\ sending.writes < 2)
  <2>1. \A j \in 1 .. n : [m |-> Len(sentMsgs), i |-> MsgLen - sending.left + j,
                           fd |-> j = 1 /\ sending.fd /\ sending.writes < 2] \in Unit
    <3> SUFFICES ASSUME NEW j \in 1 .. n
                 PROVE  /\ Len(sentMsgs) \in Nat \ {0}
                        /\ MsgLen - sending.left + j \in 1 .. MsgLen
      OBVIOUS
    <3> QED
      BY <1>k, <1>l, <1>a
  <2>2. Pieces(n) \in [1 .. n -> Unit]
    BY <2>1 DEF Pieces
  <2>3. Pieces(n) \in Seq(Unit) /\ Len(Pieces(n)) = n
    <3> HIDE DEF Unit
    <3> QED
      BY <1>k, <2>2, FunctionIsSeq
  <2> QED
    BY <1>k, <2>3 DEF Pieces
<1> HIDE DEF Unit
<1>s. /\ socket' \in Seq(Unit) /\ Len(socket') = k + n
      /\ \A j \in 1 .. k + n :
           socket'[j] = IF j <= k THEN socket[j] ELSE Pieces(n)[j - k]
  <2>1. socket \in Seq(Unit)
    BY <1>n DEF RxTypeOK, Unit
  <2>2. socket' = socket \o Pieces(n)
    BY <1>0
  <2>p. Pieces(n) \in Seq(Unit)
    BY <1>p
  <2>3. /\ socket \o Pieces(n) \in Seq(Unit)
        /\ Len(socket \o Pieces(n)) = k + Len(Pieces(n))
        /\ \A j \in 1 .. k + Len(Pieces(n)) :
             (socket \o Pieces(n))[j] = IF j <= k THEN socket[j] ELSE Pieces(n)[j - k]
    BY <2>p, <2>1, ConcatProperties
  <2>4. Len(Pieces(n)) = n
    BY <1>p
  <2> QED
    BY <2>2, <2>3, <2>4
<1>1. RxTypeOK'
  <2>1. sending' \in [fd : BOOLEAN, left : 0 .. MsgLen, writes : Nat]
    <3>1. /\ sending.left - n \in 0 .. MsgLen /\ sending.writes + 1 \in Nat
          /\ sending \in [fd : BOOLEAN, left : 0 .. MsgLen, writes : Nat]
      BY <1>n, <1>k DEF RxTypeOK
    <3> QED
      BY <1>0, <3>1
  <2> QED
    BY <1>0, <1>n, <1>s, <2>1 DEF RxTypeOK, Unit
<1>2. ReceivedInv'
  BY <1>0, <1>t DEF ReceivedInv, OwnFd
<1>3. EdgeInv' /\ EofInv'
  BY <1>0, <1>t DEF EdgeInv, EofInv
<1>h. HandedUnits' = HandedUnits /\ BegunUnits' = BegunUnits
  BY <1>0 DEF HandedUnits, BegunUnits
<1>4. FlowInv'
  <2>1. BegunUnits' = HandedUnits' + daemon'.offset + Len(socket') + sending'.left
    <3>1. daemon' = daemon
      BY <1>0
    <3> QED
      BY <1>k, <1>l, <1>u, <1>f, <1>g, <1>h, <1>s, <3>1
  <2>2. sending'.left > 0 => sending'.fd = sentMsgs'[Len(sentMsgs')]
    BY <1>0, <1>t, <1>g, <1>k DEF FlowInv
  <2>3. sending'.left # MsgLen
    BY <1>g, <1>k
  <2> QED
    BY <2>1, <2>2, <2>3 DEF FlowInv, MsgLen
<1>5. SocketInv'
  <2> SUFFICES ASSUME NEW j \in 1 .. k + n
               PROVE  /\ (socket'[j].m - 1) * MsgLen + socket'[j].i = HandedUnits + daemon.offset + j
                      /\ socket'[j].m <= Len(sentMsgs)
                      /\ socket'[j].fd => sentMsgs[socket'[j].m]
                      /\ socket'[j].i = 1 => (socket'[j].fd <=> sentMsgs[socket'[j].m])
    BY <1>0, <1>h, <1>s DEF SocketInv, MsgLen
  <2>1. CASE j <= k
    <3>1. socket'[j] = socket[j] /\ j \in 1 .. k
      BY <1>s, <1>l, <1>k, <2>1
    <3> QED
      BY <1>t, <3>1 DEF SocketInv
  <2>2. CASE j > k
    <3>1. PICK h \in 1 .. n : h = j - k
      BY <1>k, <1>l, <2>2
    <3>2. /\ socket'[j].m = Len(sentMsgs)
          /\ socket'[j].i = MsgLen - sending.left + h
          /\ socket'[j].fd <=> (h = 1 /\ sending.fd /\ sending.writes < 2)
      <4>1. socket'[j] = Pieces(n)[h]
        BY <1>s, <1>k, <1>l, <2>2, <3>1
      <4> QED
        BY <1>p, <4>1
    <3>3. (Len(sentMsgs) - 1) * MsgLen = BegunUnits - MsgLen
      <4>1. PICK x \in Nat : x = Len(sentMsgs) - 1
        BY <1>a, <1>l
      <4>2. Len(sentMsgs) = x + 1
        BY <1>l, <4>1
      <4>3. (x + 1) * MsgLen = x * MsgLen + MsgLen /\ x * MsgLen \in Nat
        BY <1>k, OneMore
      <4>4. BegunUnits = (x + 1) * MsgLen
        BY <4>2 DEF BegunUnits
      <4> QED
        BY <1>k, <4>1, <4>3, <4>4
    <3>5. (socket'[j].m - 1) * MsgLen + socket'[j].i = HandedUnits + daemon.offset + j
      <4>1. (socket'[j].m - 1) * MsgLen = BegunUnits - MsgLen
        BY <3>2, <3>3
      <4>2. j = k + h
        BY <1>l, <3>1
      <4>3. BegunUnits - MsgLen + (MsgLen - sending.left + h) = HandedUnits + daemon.offset + j
        <5>1. h \in Nat
          BY <1>k
        <5>2. BegunUnits - MsgLen + (MsgLen - sending.left + h)
                = HandedUnits + daemon.offset + (k + h)
          <6>1. PICK b \in Nat : b = BegunUnits
            BY <1>u
          <6>2. PICK x \in Nat : x = HandedUnits + daemon.offset
            BY <1>u
          <6>3. PICK l \in Nat, m \in Nat : l = sending.left /\ m = MsgLen
            BY <1>k
          <6>4. PICK s \in Nat : s = k
            BY <1>l
          <6>5. b = x + s + l
            BY <1>f, <6>1, <6>2, <6>3, <6>4
          <6>6. b - m + (m - l + h) = x + (s + h)
            BY <5>1, <6>5
          <6> QED
            BY <6>1, <6>2, <6>3, <6>4, <6>6
        <5> QED
          BY <4>2, <5>2
      <4> QED
        BY <3>2, <4>1, <4>3
    <3>6. sending.fd = sentMsgs[Len(sentMsgs)]
      BY <1>k, <1>t DEF FlowInv
    <3>7. ASSUME socket'[j].i = 1 PROVE h = 1 /\ sending.writes = 0
      <4>1. MsgLen - sending.left + h = 1
        BY <3>2, <3>7
      <4>2. h = 1 /\ sending.left = MsgLen
        BY <1>k, <4>1
      <4> QED
        BY <1>t, <4>2 DEF FlowInv
    <3>8. socket'[j].m <= Len(sentMsgs)
      BY <1>l, <3>2
    <3>9. 0 < 2
      OBVIOUS
    <3>10. /\ socket'[j].fd => sentMsgs[socket'[j].m]
           /\ socket'[j].i = 1 => (socket'[j].fd <=> sentMsgs[socket'[j].m])
      BY <3>2, <3>6, <3>7, <3>9
    <3> QED
      BY <3>5, <3>8, <3>10
  <2> QED
    BY <1>k, <1>l, <2>1, <2>2
<1>6. ParseInv'
  BY <1>0, <1>t DEF ParseInv, OwnFd
<1> QED
  BY <1>1, <1>2, <1>3, <1>4, <1>5, <1>6 DEF RxInv

\* What the daemon's steps between two reads, and the client's failing write, its
\* reading and its hanging up, leave alone.
LEMMA QuietKeeps ==
  ASSUME RxInv, WriteFails \/ HangUp \/ ClientReads \/ OtherSends \/ client_cb \/ NoHeader \/ ResumeBody \/ RecvEnds
  PROVE  RxInv'
<1>n. RxTypeOK
  BY DEF RxInv
<1>l. HdrLen \in Nat /\ MsgLen \in Nat /\ HdrLen <= MsgLen /\ daemon.offset \in Nat
  BY <1>n, RxNumbers
<1>0. UNCHANGED <<sentMsgs, socket, received>>
  BY DEF WriteFails, HangUp, ClientReads, OtherSends, client_cb, NoHeader, ResumeBody, RecvEnds
<1>1. RxTypeOK'
  <2>1. sending' \in [fd : BOOLEAN, left : 0 .. MsgLen, writes : Nat]
    <3>1. NotSending \in [fd : BOOLEAN, left : 0 .. MsgLen, writes : Nat]
      BY <1>l DEF NotSending
    <3> QED
      BY <1>n, <3>1 DEF RxTypeOK, WriteFails, HangUp, ClientReads, OtherSends, client_cb, NoHeader, ResumeBody, RecvEnds
  <2>2. hungUp' \in BOOLEAN /\ edge' \in BOOLEAN
    BY <1>n DEF RxTypeOK, WriteFails, HangUp, ClientReads, OtherSends, client_cb, NoHeader, ResumeBody, RecvEnds
  <2>3. daemon' \in [pc : {"wait", "retry", "body", "out", "gone"}, eof : BOOLEAN,
                     offset : 0 .. MsgLen, fd : Nat, m : Nat, hdrOk : BOOLEAN]
    <3>1. daemon \in [pc : {"wait", "retry", "body", "out", "gone"}, eof : BOOLEAN,
                      offset : 0 .. MsgLen, fd : Nat, m : Nat, hdrOk : BOOLEAN]
      BY <1>n DEF RxTypeOK
    <3>2. CASE daemon' = daemon
      BY <3>1, <3>2
    <3>3. CASE daemon' = [daemon EXCEPT !.pc = "retry", !.eof = hungUp]
      BY <1>n, <3>1, <3>3 DEF RxTypeOK
    <3>4. CASE \E p \in {"out", "body", "wait"} : daemon' = [daemon EXCEPT !.pc = p]
      BY <3>1, <3>4
    <3>5. CASE daemon' = [daemon EXCEPT !.pc = "gone", !.fd = 0]
      BY <3>1, <3>5
    <3> QED
      BY <3>2, <3>3, <3>4, <3>5
         DEF Freed, WriteFails, HangUp, ClientReads, OtherSends, client_cb, NoHeader, ResumeBody, RecvEnds
  <2>4. txLeft' \in BOOLEAN
    BY <1>n DEF RxTypeOK, WriteFails, HangUp, ClientReads, OtherSends, ubus_msg_send_tx, client_cb,
                NoHeader, ResumeBody, RecvEnds
  <2> QED
    BY <1>n, <1>0, <2>1, <2>2, <2>3, <2>4 DEF RxTypeOK
<1>2. ReceivedInv'
  BY <1>0 DEF RxInv, ReceivedInv, OwnFd
<1>p. daemon.pc \in {"wait", "retry", "body", "out", "gone"}
  BY <1>n DEF RxTypeOK
<1>d. /\ daemon'.offset = daemon.offset /\ daemon'.m = daemon.m
      /\ daemon'.pc # "gone" =>
           daemon.pc # "gone" /\ daemon'.fd = daemon.fd /\ sending' = sending
  BY <1>n DEF RxTypeOK, Freed, WriteFails, HangUp, ClientReads, OtherSends, client_cb, NoHeader,
              ResumeBody, RecvEnds
<1>3. EdgeInv' /\ EofInv'
  <2>0. EdgeInv /\ EofInv /\ hungUp \in BOOLEAN /\ edge \in BOOLEAN
    BY <1>n DEF RxInv, RxTypeOK
  <2>1. CASE WriteFails
    BY <2>0, <2>1 DEF WriteFails, EdgeInv, EofInv
  <2>2. CASE HangUp
    BY <2>0, <2>2 DEF HangUp, EdgeInv, EofInv
  <2>7. CASE ClientReads
    BY <2>0, <2>7 DEF ClientReads, EdgeInv, EofInv
  <2>8. CASE OtherSends
    BY <2>0, <2>8 DEF OtherSends, ubus_msg_send_tx, EdgeInv, EofInv
  <2>3. CASE client_cb
    <3>1. CASE hungUp /\ txLeft
      <4>1. daemon'.pc = "gone"
        BY <1>n, <2>3, <3>1 DEF client_cb, Freed, RxTypeOK
      <4> QED
        BY <4>1 DEF EdgeInv, EofInv
    <3>2. CASE ~(hungUp /\ txLeft)
      <4>1. /\ daemon'.pc = "retry" /\ daemon'.eof = hungUp /\ hungUp' = hungUp
            /\ hungUp => ~txLeft'
        BY <1>n, <2>3, <3>2 DEF client_cb, RxTypeOK
      <4> QED
        BY <4>1 DEF EdgeInv, EofInv
    <3> QED
      BY <3>1, <3>2
  <2>4. CASE NoHeader
    <3>1. /\ daemon'.pc = "out" /\ daemon'.eof = daemon.eof /\ daemon.pc = "retry"
          /\ hungUp' = hungUp /\ edge' = edge /\ txLeft' = txLeft /\ (daemon.eof \/ socket' = <<>>)
      BY <1>n, <2>4 DEF NoHeader, RxTypeOK
    <3> QED
      BY <2>0, <3>1 DEF EdgeInv, EofInv
  <2>5. CASE ResumeBody
    <3>1. /\ daemon'.pc = "body" /\ daemon'.eof = daemon.eof /\ daemon.pc = "retry"
          /\ hungUp' = hungUp /\ edge' = edge /\ txLeft' = txLeft
      BY <1>n, <2>5 DEF ResumeBody, RxTypeOK
    <3> QED
      BY <2>0, <3>1 DEF EdgeInv, EofInv
  <2>6. CASE RecvEnds
    <3>1. /\ daemon.pc = "out" /\ hungUp' = hungUp /\ edge' = edge /\ txLeft' = txLeft /\ socket' = socket
          /\ daemon'.pc = IF daemon.eof THEN "gone" ELSE "wait"
          /\ daemon'.eof = daemon.eof
      BY <1>n, <2>0, <2>6 DEF RecvEnds, HasLeft, Freed, EofInv, RxTypeOK
    <3> QED
      BY <2>0, <3>1 DEF EdgeInv, EofInv
  <2> QED
    BY <2>1, <2>2, <2>3, <2>4, <2>5, <2>6, <2>7, <2>8
<1>4. ASSUME daemon'.pc # "gone" PROVE FlowInv' /\ SocketInv' /\ ParseInv'
  <2>0. /\ FlowInv /\ SocketInv /\ ParseInv /\ daemon'.fd = daemon.fd /\ sending' = sending
        /\ daemon.pc # "gone"
    BY <1>4, <1>d DEF RxInv
  <2>1. FlowInv'
    BY <1>0, <1>d, <2>0 DEF FlowInv, HandedUnits, BegunUnits
  <2>2. SocketInv'
    BY <1>0, <1>d, <2>0 DEF SocketInv, HandedUnits
  <2>3. IF daemon'.pc = "body" THEN daemon.offset >= HdrLen ELSE daemon.offset < MsgLen
    <3>1. CASE ResumeBody
      BY <1>n, <3>1 DEF ResumeBody, RxTypeOK
    <3>2. CASE ~ResumeBody
      <4>1. \/ daemon' = daemon
            \/ daemon'.pc # "body" /\ daemon.pc # "body"
        BY <1>n, <3>2 DEF RxTypeOK, Freed, WriteFails, HangUp, ClientReads, OtherSends, client_cb, NoHeader, RecvEnds
      <4> QED
        BY <2>0, <4>1 DEF ParseInv
    <3> QED
      BY <3>1, <3>2
  <2>4. ParseInv'
    BY <1>0, <1>d, <2>0, <2>3 DEF ParseInv, OwnFd
  <2> QED
    BY <2>1, <2>2, <2>4
<1> QED
  BY <1>1, <1>2, <1>3, <1>4 DEF RxInv

\* The daemon has read n units more, those after the ones it had: what is left in
\* the socket is still what follows.
LEMMA ReadKeepsSocket ==
  ASSUME RxTypeOK, FlowInv, SocketInv, NEW n \in 0 .. Len(socket),
         socket' = SubSeq(socket, n + 1, Len(socket)),
         UNCHANGED <<sending, sentMsgs>>,
         HandedUnits' \in Nat, daemon'.offset \in Nat,
         HandedUnits' + daemon'.offset = HandedUnits + daemon.offset + n
  PROVE  /\ FlowInv' /\ SocketInv'
         /\ socket' \in Seq([m : Nat \ {0}, i : 1 .. MsgLen, fd : BOOLEAN])
         /\ Len(socket') = Len(socket) - n
<1> DEFINE Unit == [m : Nat \ {0}, i : 1 .. MsgLen, fd : BOOLEAN]
<1>0. socket \in Seq(Unit)
  BY DEF RxTypeOK
<1>l. /\ Len(socket) \in Nat /\ n \in Nat /\ MsgLen \in Nat /\ sending.left \in Nat
      /\ HandedUnits \in Nat /\ daemon.offset \in Nat /\ BegunUnits \in Nat
  BY RxNumbers
<1> HIDE DEF Unit
<1>1. /\ socket' \in Seq(Unit) /\ Len(socket') = Len(socket) - n
      /\ \A j \in 1 .. Len(socket) - n : socket'[j] = socket[n + j]
  BY <1>0, Dropped
<1>2. FlowInv'
  <2>1. BegunUnits' = BegunUnits
    BY DEF BegunUnits
  <2>2. PICK l \in Nat : l = sending.left
    BY <1>l
  <2>3. PICK x \in Nat : x = HandedUnits + daemon.offset
    BY <1>l
  <2>4. PICK k \in Nat : k = Len(socket)
    BY <1>l
  <2>5. BegunUnits = x + k + l
    BY <2>2, <2>3, <2>4 DEF FlowInv
  <2>6. x + k + l = (x + n) + (k - n) + l
    BY <1>l
  <2>7. BegunUnits' = HandedUnits' + daemon'.offset + Len(socket') + sending'.left
    BY <1>1, <2>1, <2>2, <2>3, <2>4, <2>5, <2>6
  <2> QED
    BY <2>7 DEF FlowInv
<1>3. SocketInv'
  <2> SUFFICES ASSUME NEW j \in 1 .. Len(socket) - n
               PROVE  /\ (socket'[j].m - 1) * MsgLen + socket'[j].i
                           = HandedUnits' + daemon'.offset + j
                      /\ socket'[j].m <= Len(sentMsgs)
                      /\ socket'[j].fd => sentMsgs[socket'[j].m]
                      /\ socket'[j].i = 1 => (socket'[j].fd <=> sentMsgs[socket'[j].m])
    BY <1>1 DEF SocketInv, MsgLen
  <2>1. PICK h \in 1 .. Len(socket) : h = n + j
    BY <1>l
  <2>2. socket'[j] = socket[h]
    BY <1>1, <2>1
  <2>3. (socket[h].m - 1) * MsgLen + socket[h].i = HandedUnits + daemon.offset + h
    BY DEF SocketInv
  <2>4. HandedUnits + daemon.offset + h = HandedUnits' + daemon'.offset + j
    <3>1. PICK x \in Nat : x = HandedUnits + daemon.offset
      BY <1>l
    <3>2. x + (n + j) = (x + n) + j
      BY <1>l
    <3> QED
      BY <2>1, <3>1, <3>2
  <2>5. /\ socket[h].m <= Len(sentMsgs)
        /\ socket[h].fd => sentMsgs[socket[h].m]
        /\ socket[h].i = 1 => (socket[h].fd <=> sentMsgs[socket[h].m])
    BY DEF SocketInv
  <2> QED
    BY <2>2, <2>3, <2>4, <2>5
<1> QED
  BY <1>1, <1>2, <1>3 DEF Unit

\* A read of header units: the message that begins is the next one and brings its
\* own descriptor.
LEMMA HeaderKeeps ==
  ASSUME RxInv, RecvHeader
  PROVE  RxInv'
<1> DEFINE n == Taken(HdrLen - daemon.offset)
           p == IF daemon.offset + n < HdrLen THEN "out" ELSE "body"
<1>0. /\ daemon.pc = "retry" /\ ~daemon.eof /\ daemon.offset < HdrLen /\ socket # <<>>
      /\ socket' = SubSeq(socket, n + 1, Len(socket))
      /\ UNCHANGED <<sending, sentMsgs, hungUp, edge, txLeft, received>>
  BY DEF RecvHeader
<1>b. daemon' = [daemon EXCEPT !.offset = daemon.offset + n,
                               !.fd = FdIn, !.m = socket[1].m,
                               !.hdrOk = daemon.hdrOk /\ (daemon.offset = 0), !.pc = p]
  BY DEF RecvHeader, TakeHeader
<1>t. RxTypeOK /\ ReceivedInv /\ EdgeInv /\ EofInv /\ FlowInv /\ SocketInv /\ ParseInv
  BY <1>0 DEF RxInv
<1>l. /\ HdrLen \in Nat /\ MsgLen \in Nat /\ HdrLen <= MsgLen /\ MsgLen > 0
      /\ daemon.offset \in Nat /\ Len(socket) \in Nat /\ Len(received) \in Nat
      /\ Len(sentMsgs) \in Nat
  BY <1>t, RxNumbers
<1>c. Len(socket) > 0
  <2>1. socket \in Seq([m : Nat \ {0}, i : 1 .. MsgLen, fd : BOOLEAN])
    BY <1>t DEF RxTypeOK
  <2> QED
    BY <1>0, <1>l, <2>1, EmptySeq
<1>n. /\ n \in 1 .. Len(socket) /\ daemon.offset + n <= HdrLen
      /\ daemon.offset + n < HdrLen => n = Len(socket)
  BY <1>0, <1>l, <1>c DEF Taken
<1> HIDE DEF n
<1>1. /\ 1 \in 1 .. Len(socket) /\ socket[1].m \in Nat /\ socket[1].m > 0
      /\ socket[1].i \in 1 .. MsgLen /\ socket[1].fd \in BOOLEAN
  <2>1. 1 \in 1 .. Len(socket)
    BY <1>l, <1>c
  <2> QED
    BY <1>t, <2>1, UnitType
<1>2. socket[1].m = Len(received) + 1 /\ socket[1].i = daemon.offset + 1
  <2>1. PICK a \in Nat : a = socket[1].m - 1
    BY <1>1
  <2>2. PICK b \in Nat : b = Len(received)
    BY <1>l
  <2>3. PICK o \in 0 .. MsgLen - 1 : o = daemon.offset
    BY <1>0, <1>l
  <2>4. PICK i \in 1 .. MsgLen : i = socket[1].i
    BY <1>1
  <2>5. (socket[1].m - 1) * MsgLen + socket[1].i = HandedUnits + daemon.offset + 1
    BY <1>t, <1>1 DEF SocketInv
  <2>6. a * MsgLen + i = b * MsgLen + o + 1
    BY <2>1, <2>2, <2>3, <2>4, <2>5 DEF HandedUnits
  <2>7. a = b /\ i = o + 1
    BY <1>l, <2>6, OneMessagePerUnit
  <2> QED
    BY <1>1, <2>1, <2>2, <2>3, <2>4, <2>7
<1>3. /\ socket[1].m <= Len(sentMsgs)
      /\ socket[1].fd => sentMsgs[socket[1].m]
      /\ socket[1].i = 1 => (socket[1].fd <=> sentMsgs[socket[1].m])
  BY <1>t, <1>1 DEF SocketInv
<1>4. FdIn = OwnFd(socket[1].m)
  <2>1. CASE daemon.offset = 0
    <3>1. daemon.fd = 0 /\ (socket[1].fd <=> sentMsgs[socket[1].m])
      BY <1>t, <1>2, <1>3, <2>1 DEF ParseInv
    <3> QED
      BY <3>1 DEF FdIn, OwnFd
  <2>2. CASE daemon.offset > 0
    <3>1. daemon.m = socket[1].m /\ daemon.fd = OwnFd(daemon.m)
      BY <1>t, <1>2, <2>2 DEF ParseInv
    <3>2. socket[1].m # 0
      BY <1>1
    <3>3. CASE sentMsgs[socket[1].m]
      BY <3>1, <3>2, <3>3 DEF FdIn, OwnFd
    <3>4. CASE ~sentMsgs[socket[1].m]
      BY <1>3, <3>1, <3>4 DEF FdIn, OwnFd
    <3> QED
      BY <3>3, <3>4
  <2> QED
    BY <1>l, <2>1, <2>2
<1>5. daemon \in [pc : {"wait", "retry", "body", "out", "gone"}, eof : BOOLEAN,
                  offset : 0 .. MsgLen, fd : Nat, m : Nat, hdrOk : BOOLEAN]
  BY <1>t DEF RxTypeOK
<1>6. /\ daemon'.pc = p /\ daemon'.offset = daemon.offset + n /\ daemon'.fd = FdIn
      /\ daemon'.m = socket[1].m /\ daemon'.eof = daemon.eof
  BY <1>b, <1>5
<1>7. daemon'.offset \in Nat /\ daemon'.offset > 0 /\ daemon'.offset <= HdrLen
  BY <1>l, <1>n, <1>6
<1>8. FlowInv' /\ SocketInv'
      /\ socket' \in Seq([m : Nat \ {0}, i : 1 .. MsgLen, fd : BOOLEAN])
      /\ Len(socket') = Len(socket) - n
  <2>1. HandedUnits' = HandedUnits /\ HandedUnits \in Nat
    BY <1>0, <1>t, RxNumbers DEF HandedUnits
  <2>2. HandedUnits' + daemon'.offset = HandedUnits + daemon.offset + n
    <3>1. PICK x \in Nat : x = HandedUnits
      BY <2>1
    <3>2. x + (daemon.offset + n) = x + daemon.offset + n
      BY <1>l, <1>n
    <3> QED
      BY <1>6, <2>1, <3>1, <3>2
  <2>3. n \in 0 .. Len(socket)
    BY <1>l, <1>n
  <2>4. HandedUnits' \in Nat /\ daemon'.offset \in Nat
    BY <1>7, <2>1
  <2> QED
    BY <1>0, <1>t, <2>2, <2>3, <2>4, ReadKeepsSocket
<1>9. ReceivedInv'
  BY <1>0, <1>t DEF ReceivedInv, OwnFd
<1>10. EdgeInv' /\ EofInv'
  <2>1. ASSUME daemon'.pc = "out" PROVE socket' = <<>>
    <3>1. Len(socket') = 0
      BY <1>l, <1>n, <1>6, <1>8, <2>1
    <3> QED
      BY <1>8, <3>1, EmptySeq
  <2>2. daemon'.pc # "wait"
    BY <1>6
  <2>3. ~edge /\ hungUp => daemon.eof
    BY <1>0, <1>t DEF EdgeInv
  <2>4. edge' = edge /\ hungUp' = hungUp /\ txLeft' = txLeft
    BY <1>0
  <2> QED
    BY <1>0, <1>t, <1>6, <2>1, <2>2, <2>3, <2>4 DEF EdgeInv, EofInv
<1>11. ParseInv'
  <2>1. /\ daemon'.m = Len(received') + 1 /\ daemon'.m <= Len(sentMsgs')
        /\ daemon'.fd = OwnFd(daemon.m)'
    <3>1. OwnFd(daemon.m)' = OwnFd(socket[1].m)
      BY <1>0, <1>6 DEF OwnFd
    <3> QED
      BY <1>0, <1>2, <1>3, <1>4, <1>6, <3>1
  <2>2. IF daemon'.pc = "body" THEN daemon'.offset >= HdrLen ELSE daemon'.offset < MsgLen
    BY <1>l, <1>n, <1>6
  <2> QED
    BY <1>7, <2>1, <2>2 DEF ParseInv
<1>12. RxTypeOK'
  <2>1. FdIn \in Nat
    BY <1>1, <1>4 DEF OwnFd
  <2>2. daemon.offset + n \in 0 .. MsgLen
    BY <1>l, <1>n
  <2>3. daemon' \in [pc : {"wait", "retry", "body", "out", "gone"}, eof : BOOLEAN,
                     offset : 0 .. MsgLen, fd : Nat, m : Nat, hdrOk : BOOLEAN]
    BY <1>b, <1>1, <1>5, <2>1, <2>2
  <2> QED
    BY <1>0, <1>t, <1>8, <2>3 DEF RxTypeOK
<1> QED
  BY <1>8, <1>9, <1>10, <1>11, <1>12 DEF RxInv

\* A read of body units: part of a body is kept, a whole message is handed on and
\* the next one begins after it.
LEMMA BodyKeeps ==
  ASSUME RxInv, RecvBody
  PROVE  RxInv'
<1> DEFINE want == MsgLen - daemon.offset
           n == Taken(want)
           item == [m |-> daemon.m, ok |-> daemon.hdrOk, fd |-> daemon.fd]
<1>0. /\ daemon.pc = "body"
      /\ socket' = SubSeq(socket, n + 1, Len(socket))
      /\ UNCHANGED <<sending, sentMsgs, hungUp, edge>>
      /\ IF n < want
         THEN /\ daemon' = [daemon EXCEPT !.offset = daemon.offset + n, !.pc = "out"]
              /\ received' = received /\ txLeft' = txLeft
         ELSE /\ received' = Append(received, item)
              /\ daemon' = [daemon EXCEPT !.offset = 0, !.fd = 0, !.pc = "retry"]
  BY DEF RecvBody, Accepted
<1>x. txLeft' \in {txLeft, TRUE} /\ (hungUp => txLeft' = txLeft)
  BY DEF RecvBody, ubus_msg_send_tx
<1>t. RxTypeOK /\ ReceivedInv /\ EdgeInv /\ EofInv /\ FlowInv /\ SocketInv /\ ParseInv
  BY <1>0 DEF RxInv
<1>l. /\ HdrLen \in Nat /\ HdrLen > 0 /\ MsgLen \in Nat /\ HdrLen <= MsgLen
      /\ daemon.offset \in Nat /\ daemon.offset <= MsgLen
      /\ Len(socket) \in Nat /\ Len(received) \in Nat /\ Len(sentMsgs) \in Nat
  BY <1>t, RxNumbers
<1>u. HandedUnits \in Nat
  BY <1>t, RxNumbers
<1>n. /\ n \in 0 .. Len(socket) /\ want \in Nat /\ n <= want
      /\ n < want => n = Len(socket)
  BY <1>l DEF Taken
<1> HIDE DEF n
<1>o. /\ daemon.offset >= HdrLen /\ daemon.offset > 0
      /\ daemon.m = Len(received) + 1 /\ daemon.m <= Len(sentMsgs)
      /\ daemon.fd = OwnFd(daemon.m)
  <2>1. daemon.offset >= HdrLen
    BY <1>0, <1>t DEF ParseInv
  <2>2. daemon.offset > 0
    BY <1>l, <2>1
  <2> QED
    BY <1>t, <2>1, <2>2 DEF ParseInv
<1>5. daemon \in [pc : {"wait", "retry", "body", "out", "gone"}, eof : BOOLEAN,
                  offset : 0 .. MsgLen, fd : Nat, m : Nat, hdrOk : BOOLEAN]
  BY <1>t DEF RxTypeOK
<1>e. /\ ~edge /\ hungUp => daemon.eof
      /\ daemon.eof => hungUp' /\ ~txLeft'
  BY <1>0, <1>t, <1>x DEF EdgeInv, EofInv
<1>y. txLeft' \in BOOLEAN
  BY <1>t, <1>x DEF RxTypeOK
<1>1. CASE n < want
  <2>1. daemon' = [daemon EXCEPT !.offset = daemon.offset + n, !.pc = "out"] /\ received' = received
    BY <1>0, <1>1
  <2>2. /\ daemon'.pc = "out" /\ daemon'.offset = daemon.offset + n /\ daemon'.fd = daemon.fd
        /\ daemon'.m = daemon.m /\ daemon'.eof = daemon.eof
    BY <1>5, <2>1
  <2>3. daemon'.offset \in Nat /\ daemon'.offset > 0 /\ daemon'.offset < MsgLen
    BY <1>l, <1>n, <1>o, <1>1, <2>2
  <2>4. FlowInv' /\ SocketInv'
        /\ socket' \in Seq([m : Nat \ {0}, i : 1 .. MsgLen, fd : BOOLEAN])
        /\ Len(socket') = Len(socket) - n
    <3>1. HandedUnits' = HandedUnits
      BY <2>1 DEF HandedUnits
    <3>2. HandedUnits' + daemon'.offset = HandedUnits + daemon.offset + n
      <4>1. PICK x \in Nat : x = HandedUnits
        BY <1>u
      <4>2. x + (daemon.offset + n) = x + daemon.offset + n
        BY <1>l, <1>n
      <4> QED
        BY <2>2, <3>1, <4>1, <4>2
    <3>3. HandedUnits' \in Nat /\ daemon'.offset \in Nat
      BY <1>u, <2>3, <3>1
    <3> QED
      BY <1>0, <1>t, <1>n, <3>2, <3>3, ReadKeepsSocket
  <2>5. ReceivedInv'
    BY <1>0, <1>t, <2>1 DEF ReceivedInv, OwnFd
  <2>6. EdgeInv' /\ EofInv'
    <3>1. Len(socket') = 0
      BY <1>l, <1>n, <1>1, <2>4
    <3>2. socket' = <<>>
      BY <2>4, <3>1, EmptySeq
    <3>3. edge' = edge /\ hungUp' = hungUp
      BY <1>0
    <3> QED
      BY <1>e, <2>2, <3>2, <3>3 DEF EdgeInv, EofInv
  <2>7. ParseInv'
    <3>1. OwnFd(daemon.m)' = OwnFd(daemon.m)
      BY <1>0, <2>2 DEF OwnFd
    <3>2. /\ daemon'.m = Len(received') + 1 /\ daemon'.m <= Len(sentMsgs')
          /\ daemon'.fd = OwnFd(daemon.m)'
      BY <1>0, <1>o, <2>1, <2>2, <3>1
    <3> QED
      BY <2>2, <2>3, <3>2 DEF ParseInv, MsgLen
  <2>8. RxTypeOK'
    <3>1. daemon.offset + n \in 0 .. MsgLen
      BY <1>l, <2>2, <2>3
    <3>2. daemon' \in [pc : {"wait", "retry", "body", "out", "gone"}, eof : BOOLEAN,
                       offset : 0 .. MsgLen, fd : Nat, m : Nat, hdrOk : BOOLEAN]
      BY <1>5, <2>1, <3>1
    <3> QED
      BY <1>0, <1>t, <1>y, <2>1, <2>4, <3>2 DEF RxTypeOK
  <2> QED
    BY <2>4, <2>5, <2>6, <2>7, <2>8 DEF RxInv
<1>2. CASE ~(n < want)
  <2>1. /\ daemon' = [daemon EXCEPT !.offset = 0, !.fd = 0, !.pc = "retry"]
        /\ received' = Append(received, item)
    BY <1>0, <1>2
  <2>2. /\ daemon'.pc = "retry" /\ daemon'.offset = 0 /\ daemon'.fd = 0
        /\ daemon'.eof = daemon.eof
    BY <1>5, <2>1
  <2>r. item \in [m : Nat, ok : BOOLEAN, fd : Nat] /\ item.m = daemon.m /\ item.fd = daemon.fd
    BY <1>5
  <2> HIDE DEF item
  <2>3. /\ received' \in Seq([m : Nat, ok : BOOLEAN, fd : Nat])
        /\ Len(received') = Len(received) + 1
        /\ \A i \in 1 .. Len(received) : received'[i] = received[i]
        /\ received'[Len(received) + 1] = item
    <3>1. received \in Seq([m : Nat, ok : BOOLEAN, fd : Nat])
      BY <1>t DEF RxTypeOK
    <3> QED
      BY <2>1, <2>r, <3>1, AppendProperties
  <2>h. HandedUnits' = HandedUnits + MsgLen
    <3>1. PICK x \in Nat : x = Len(received)
      BY <1>l
    <3>2. (x + 1) * MsgLen = x * MsgLen + MsgLen
      BY <1>l, OneMore
    <3> QED
      BY <2>3, <3>1, <3>2 DEF HandedUnits, MsgLen
  <2>4. FlowInv' /\ SocketInv'
        /\ socket' \in Seq([m : Nat \ {0}, i : 1 .. MsgLen, fd : BOOLEAN])
        /\ Len(socket') = Len(socket) - n
    <3>2. HandedUnits' + daemon'.offset = HandedUnits + daemon.offset + n
      <4>1. PICK x \in Nat : x = HandedUnits
        BY <1>u
      <4>2. n = MsgLen - daemon.offset
        BY <1>l, <1>n, <1>2
      <4>3. x + MsgLen + 0 = x + daemon.offset + n
        BY <1>l, <4>2
      <4> QED
        BY <2>2, <2>h, <4>1, <4>3
    <3>3. HandedUnits' \in Nat /\ daemon'.offset \in Nat
      BY <1>u, <1>l, <2>2, <2>h
    <3> QED
      BY <1>0, <1>t, <1>n, <3>2, <3>3, ReadKeepsSocket
  <2>5. ReceivedInv'
    <3>1. Len(received') <= Len(sentMsgs)
      BY <1>o, <2>3
    <3>2. ASSUME NEW i \in 1 .. Len(received) + 1
          PROVE  received'[i].m = i /\ received'[i].fd = OwnFd(i)
      <4>1. CASE i \in 1 .. Len(received)
        BY <1>t, <2>3, <4>1 DEF ReceivedInv
      <4>2. CASE i = Len(received) + 1
        BY <1>o, <2>3, <2>r, <4>2
      <4> QED
        BY <1>l, <4>1, <4>2
    <3> QED
      BY <1>0, <2>3, <3>1, <3>2 DEF ReceivedInv, OwnFd
  <2>6. EdgeInv' /\ EofInv'
    <3>3. edge' = edge /\ hungUp' = hungUp
      BY <1>0
    <3> QED
      BY <1>e, <2>2, <3>3 DEF EdgeInv, EofInv
  <2>7. ParseInv'
    BY <1>l, <2>2 DEF ParseInv, MsgLen
  <2>8. RxTypeOK'
    <3>2. daemon' \in [pc : {"wait", "retry", "body", "out", "gone"}, eof : BOOLEAN,
                       offset : 0 .. MsgLen, fd : Nat, m : Nat, hdrOk : BOOLEAN]
      <4>1. 0 \in 0 .. MsgLen /\ 0 \in Nat
        BY <1>l
      <4> QED
        BY <1>5, <2>1, <4>1
    <3> QED
      BY <1>0, <1>t, <1>y, <2>3, <2>4, <3>2 DEF RxTypeOK
  <2> QED
    BY <2>4, <2>5, <2>6, <2>7, <2>8 DEF RxInv
<1> QED
  BY <1>1, <1>2

\* For messages and sockets of any size, however the writes and reads are cut: the
\* daemon is given the client's messages in order, each with its own descriptor,
\* and has read everything whenever it waits with nothing to be told of.
THEOREM StreamStaysIntact == RxSpec => []StreamIntact
<1>1. RxInv /\ [RxNext]_rxVars => RxInv'
  <2>1. ASSUME RxInv, UNCHANGED rxVars PROVE RxInv'
    BY <2>1 DEF rxVars, RxInv, RxTypeOK, ReceivedInv, EdgeInv, EofInv, FlowInv, SocketInv, ParseInv,
                HandedUnits, BegunUnits, OwnFd
  <2> QED
    BY <2>1, SendKeeps, WriteKeeps, QuietKeeps, HeaderKeeps, BodyKeeps DEF RxNext, RxDaemon
<1>2. RxInv => StreamIntact
  <2> SUFFICES ASSUME RxInv PROVE StreamIntact
    OBVIOUS
  <2>1. ReceivedInv /\ EdgeInv /\ DOMAIN received = 1 .. Len(received)
    BY LenProperties DEF RxInv, RxTypeOK
  <2> QED
    BY <2>1 DEF StreamIntact, ReceivedInv, EdgeInv, OwnFd
<1> QED
  BY <1>1, <1>2, RxInitInv, PTL DEF RxSpec
=============================================================================
