--------------------------- MODULE UbusBusProofs ---------------------------
(***************************************************************************)
(* UbusBus proved for any clients, objects and subscriptions and any       *)
(* number of calls: each request is followed to the one place on the bus   *)
(* where it is, from which follows that it is handled once and that nobody *)
(* waits without a reason.  UbusdEvent proved for any objects and patterns *)
(* and any texts: the search for the receivers of an event stops early and *)
(* misses nobody.                                                          *)
(***************************************************************************)
EXTENDS UbusBus, UbusdEvent, ListProofs

(* Queues of messages. *)

In(q, m) == \E i \in 1 .. Len(q) : q[i] = m

Requests == {"INVOKE", "NOTIFY", "REMOVE_OBJECT"}
IsReply(m, n) == m.type \in {"STATUS", "NOT_FOUND"} /\ m.seq = n

\* A queue with every request at most once.
Single(q) == \A i, j \in 1 .. Len(q) : q[i] = q[j] /\ q[i].type \in Requests => i = j

\* The status of a handler, of one of the objects in objs.
ByHandler(m, objs) == m.type = "STATUS" /\ m.subs = <<>> /\ m.peer \in objs

\* The replies to request n begin with m, and those of handlers follow.
BeginsWith(q, n, m, objs) ==
  \E i \in 1 .. Len(q) :
    /\ q[i] = m /\ IsReply(m, n)
    /\ \A j \in 1 .. Len(q) : IsReply(q[j], n) /\ j # i => j > i /\ ByHandler(q[j], objs)

-----------------------------------------------------------------------------
(* Where a request is. *)

MsgTypes == {"INVOKE", "NOTIFY", "REMOVE_OBJECT", "STATUS", "NOT_FOUND", "DATA"}
Ids == BusClients \union BusObjects \union {"none"}

Msg == [type : MsgTypes, obj : BusObjects, peer : Ids, seq : 1 .. MaxCalls, subs : Seq(BusObjects)]

\* Only the daemon is sent answers that name nobody.
UpMsg == Msg \union {ZeroedAnswer}

Call == [st : {"idle", "waiting", "timeout", "notfound", "done", "left"},
         type : Requests \union {"none"}, seq : 0 .. MaxCalls,
         want : SUBSET (BusObjects \union {"none"}), asked : SUBSET BusObjects]

BusTypeOK ==
  /\ here \subseteq BusClients /\ freed \subseteq BusObjects /\ unlisted \subseteq freed
  /\ up \in [BusClients -> Seq(UpMsg)] /\ down \in [BusClients -> Seq(Msg)]
  /\ call \in [BusClients -> Call]
  /\ heldMsgs \in [BusClients -> SUBSET Msg] /\ deferred \in [BusClients -> SUBSET Msg]
  /\ ran \in [BusClients -> [1 .. MaxCalls -> Seq(BusObjects)]]

\* The objects that handled request n of client c.
Ran(c, n) == {ran[c][n][i] : i \in 1 .. Len(ran[c][n])}

\* The request as object o is sent it, on its way to o's client or put aside there.
Asked(c, n, o) == BusMsg("INVOKE", o, c, n)
Open(c, n, o) == In(down[OwnerOf[o]], Asked(c, n, o)) \/ Asked(c, n, o) \in heldMsgs[OwnerOf[o]]

\* The daemon has not seen the request yet.
Unread(c, n) == \E m \in Msg : In(up[c], m) /\ m.type \in Requests /\ m.seq = n

NoReply(c, n) == \A m \in Msg : In(down[c], m) => ~IsReply(m, n)

\* Nobody but c knows of the request.
Untouched(c, n) == Ran(c, n) = {} /\ NoReply(c, n) /\ \A o \in BusObjects : ~Open(c, n, o)

\* Message m, of another client's request, is for an object of client c, which has
\* not handled it yet or has.
IsAsked(c, m) ==
  /\ m.peer \in BusClients \ {c} /\ OwnerOf[m.obj] = c /\ m = Asked(m.peer, m.seq, m.obj)
  /\ m.seq <= call[m.peer].seq /\ m.obj \notin Ran(m.peer, m.seq)
HasRun(c, m) ==
  /\ m.peer \in BusClients \ {c} /\ OwnerOf[m.obj] = c
  /\ m.seq <= call[m.peer].seq /\ m.obj \in Ran(m.peer, m.seq)

\* What may be in the queues and with the clients.
UpInv ==
  \A c \in BusClients, m \in Msg : In(up[c], m) =>
    /\ m.type \in Requests => /\ m.seq <= call[c].seq /\ m.peer = "none"
                              /\ m.type = "INVOKE" <=> OwnerOf[m.obj] # c
                              /\ \A k \in Msg : In(up[c], k) /\ k.type \in Requests
                                                  /\ k.seq = m.seq => k = m
    /\ m.type \notin Requests => m.type = "STATUS" /\ HasRun(c, m)

DownInv ==
  \A c \in BusClients :
    /\ \A m \in Msg : In(down[c], m) =>
         /\ m.type \notin Requests \ {"INVOKE"} /\ (m.type = "DATA" => m.obj \in freed)
         /\ IF m.type = "INVOKE" THEN IsAsked(c, m) ELSE m.seq <= call[c].seq
    /\ \A m \in heldMsgs[c] : m.type = "INVOKE" /\ IsAsked(c, m) /\ ~In(down[c], m)
    /\ \A m \in deferred[c] : m = Asked(m.peer, m.seq, m.obj) /\ HasRun(c, m)

QueueInv ==
  \A c \in BusClients :
    /\ Single(up[c]) /\ Single(down[c])
    /\ c \notin here => /\ up[c] = <<>> /\ down[c] = <<>> /\ heldMsgs[c] = {}
                        /\ call[c].st = "left"

\* A request that the daemon has not seen, or that was not made yet.
FreshOK(c, n) == n > call[c].seq \/ Unread(c, n) => Untouched(c, n)

RanInv ==
  \A c \in BusClients, n \in 1 .. MaxCalls :
    \A i, j \in 1 .. Len(ran[c][n]) : ran[c][n][i] = ran[c][n][j] => i = j

\* Object o has yet to answer the request, is gone, or a message was dropped.
Owing(c, n, o) ==
  \/ ~Known(o) \/ <<c, n>> \in incomplete
  \/ Open(c, n, o) \/ Asked(c, n, o) \in deferred[OwnerOf[o]]
  \/ In(up[OwnerOf[o]], BusMsg("STATUS", o, c, n))
  \/ In(down[c], BusMsg("STATUS", o, o, n))

\* The places where the request is that a client waits for: with the daemon's queue,
\* refused by the daemon, answered by it (with the list of subscribers, if there is one),
\* with the objects it was forwarded to, or with those alone as the answer was dropped.
Sent(c, n) ==
  \E m \in Msg :
    /\ In(up[c], m) /\ m.seq = n /\ m.type \in Requests /\ call[c].type = m.type
    /\ call[c].want = IF m.type = "REMOVE_OBJECT" THEN {"none"} ELSE {m.obj}
    /\ call[c].asked = IF m.type = "INVOKE" THEN {m.obj} ELSE {}

NotFound(c, n) ==
  /\ call[c].type # "NOTIFY"
  /\ \E m \in Msg : In(down[c], m) /\ IsReply(m, n)
  /\ \A m \in Msg : In(down[c], m) /\ IsReply(m, n) =>
                      m.type = "NOT_FOUND" /\ m.peer \in call[c].want
  /\ Ran(c, n) = {} /\ \A o \in BusObjects : ~Open(c, n, o)

\* The request was forwarded to objs.
With(c, n, objs) == Ran(c, n) \subseteq objs /\ \A o \in BusObjects : Open(c, n, o) => o \in objs

Listed(c, n) ==
  \E m \in Msg :
    /\ BeginsWith(down[c], n, m, Ran(c, n)) /\ (m.type = "NOT_FOUND" => call[c].type = "NOTIFY")
    /\ call[c].want = {m.peer} /\ call[c].asked = {}
    /\ With(c, n, Range(m.subs)) /\ \A o \in Range(m.subs) : Owing(c, n, o)

Forwarding(c, n) ==
  /\ call[c].want \subseteq call[c].asked /\ call[c].want # {}
  /\ call[c].asked \ call[c].want \subseteq Ran(c, n)
  /\ \A m \in Msg : In(down[c], m) /\ IsReply(m, n) => ByHandler(m, Ran(c, n))
  /\ With(c, n, call[c].asked) /\ \A o \in call[c].want : Owing(c, n, o)

Unanswered(c, n) ==
  /\ <<c, n>> \in incomplete
  /\ \A m \in Msg : In(down[c], m) /\ IsReply(m, n) => ByHandler(m, Ran(c, n))
  /\ \E objs \in SUBSET BusObjects : objs \intersect call[c].want = {} /\ With(c, n, objs)

\* The daemon has seen the request.
Placed(c, n) == NotFound(c, n) \/ Listed(c, n) \/ Forwarding(c, n) \/ Unanswered(c, n)

WaitsOK(c) ==
  Waits(c) =>
    /\ call[c].seq > 0
    /\ Sent(c, call[c].seq) \/ (~Unread(c, call[c].seq) /\ Placed(c, call[c].seq))

\* A request that ended well was handled by all it was for, and one that found no
\* object by none; neither is with anyone any more.
EndOK(c) ==
  call[c].st \in {"done", "notfound"} =>
    /\ call[c].seq > 0
    /\ ~Unread(c, call[c].seq) /\ \A o \in BusObjects : ~Open(c, call[c].seq, o)
    /\ Ran(c, call[c].seq) = IF call[c].st = "done" THEN call[c].asked ELSE {}

BusInv ==
  /\ BusTypeOK /\ UpInv /\ DownInv /\ QueueInv /\ RanInv
  /\ \A c \in BusClients : WaitsOK(c) /\ EndOK(c) /\ \A n \in 1 .. MaxCalls : FreshOK(c, n)

-----------------------------------------------------------------------------
(* Lemmas about queues *)

\* The queue that a message, or several, were put at the end of.
LEMMA Joined ==
  ASSUME NEW M, NEW q \in Seq(M), NEW r \in Seq(M)
  PROVE  /\ q \o r \in Seq(M)
         /\ \A m : In(q \o r, m) <=> In(q, m) \/ In(r, m)
         /\ Single(q) /\ Single(r) /\ (\A m : In(q, m) /\ In(r, m) => m.type \notin Requests)
              => Single(q \o r)
<1>1. PICK s : s = q \o r
  OBVIOUS
<1>2. PICK a \in Nat, b \in Nat : a = Len(q) /\ b = Len(r)
  BY LenProperties
<1>3. /\ s \in Seq(M) /\ Len(s) = a + b
      /\ \A i \in 1 .. a + b : s[i] = IF i <= a THEN q[i] ELSE r[i - a]
  BY <1>1, <1>2, ConcatProperties
<1>4. /\ \A i \in 1 .. a : i \in 1 .. Len(s) /\ s[i] = q[i]
      /\ \A i \in 1 .. b : a + i \in 1 .. Len(s) /\ s[a + i] = r[i]
  BY <1>3
<1>5. \A i \in 1 .. Len(s) :
        \/ i \in 1 .. a /\ s[i] = q[i]
        \/ \E k \in 1 .. b : i = a + k /\ s[i] = r[k]
  <2> SUFFICES ASSUME NEW i \in 1 .. Len(s), ~(i \in 1 .. a)
               PROVE  \E k \in 1 .. b : i = a + k /\ s[i] = r[k]
    BY <1>3, <1>4
  <2>1. PICK k \in 1 .. b : i = a + k
    <3>1. i - a \in 1 .. b /\ i = a + (i - a)
      BY <1>3
    <3> QED
      BY <3>1
  <2> QED
    BY <1>4, <2>1
<1>6. \A m : In(s, m) <=> In(q, m) \/ In(r, m)
  <2>1. ASSUME NEW m, In(s, m) PROVE In(q, m) \/ In(r, m)
    <3>1. PICK i \in 1 .. Len(s) : s[i] = m
      BY <2>1 DEF In
    <3> QED
      BY <1>2, <1>5, <3>1 DEF In
  <2>2. ASSUME NEW m, In(q, m) PROVE In(s, m)
    <3>1. PICK i \in 1 .. a : q[i] = m
      BY <1>2, <2>2 DEF In
    <3> QED
      BY <1>4, <3>1 DEF In
  <2>3. ASSUME NEW m, In(r, m) PROVE In(s, m)
    <3>1. PICK i \in 1 .. b : r[i] = m
      BY <1>2, <2>3 DEF In
    <3>2. a + i \in 1 .. Len(s) /\ s[a + i] = m
      BY <1>4, <3>1
    <3> QED
      BY <3>2 DEF In
  <2> QED
    BY <2>1, <2>2, <2>3
<1>7. ASSUME Single(q), Single(r), \A m : In(q, m) /\ In(r, m) => m.type \notin Requests
      PROVE  Single(s)
  <2> SUFFICES ASSUME NEW i \in 1 .. Len(s), NEW j \in 1 .. Len(s), s[i] = s[j],
                      s[i].type \in Requests
               PROVE  i = j
    BY DEF Single
  <2>1. CASE i \in 1 .. a /\ j \in 1 .. a
    BY <1>2, <1>4, <1>7, <2>1 DEF Single
  <2>0. ASSUME NEW k \in 1 .. Len(s), s[k] = s[i] PROVE k \in 1 .. a <=> In(q, s[i])
    <3>1. k \in 1 .. a => In(q, s[i])
      BY <1>2, <1>4, <2>0 DEF In
    <3>2. k \notin 1 .. a => In(r, s[i])
      BY <1>2, <1>5, <2>0 DEF In
    <3> QED
      BY <1>7, <3>1, <3>2
  <2>2. CASE i \in 1 .. a /\ j \notin 1 .. a
    BY <2>0, <2>2
  <2>3. CASE i \notin 1 .. a /\ j \in 1 .. a
    BY <2>0, <2>3
  <2>4. CASE i \notin 1 .. a /\ j \notin 1 .. a
    <3>1. PICK k \in 1 .. b : i = a + k /\ s[i] = r[k]
      BY <1>5, <2>4
    <3>2. PICK l \in 1 .. b : j = a + l /\ s[j] = r[l]
      BY <1>5, <2>4
    <3>3. k = l
      BY <1>2, <1>7, <3>1, <3>2 DEF Single
    <3> QED
      BY <3>1, <3>2, <3>3
  <2> QED
    BY <2>1, <2>2, <2>3, <2>4
<1> QED
  BY <1>1, <1>3, <1>6, <1>7

\* A queue of one message.
LEMMA OneMessage ==
  ASSUME NEW M, NEW x \in M
  PROVE  /\ <<x>> \in Seq(M) /\ Single(<<x>>)
         /\ \A m : In(<<x>>, m) <=> m = x
<1>1. PICK s : s = <<x>>
  OBVIOUS
<1>2. s \in Seq(M) /\ Len(s) = 1 /\ s[1] = x /\ \A i : i \in 1 .. Len(s) <=> i = 1
  BY <1>1
<1> QED
  BY <1>1, <1>2 DEF In, Single

\* The queue that a message was put at the end of.
LEMMA Appended ==
  ASSUME NEW M, NEW q \in Seq(M), NEW x \in M
  PROVE  /\ Append(q, x) \in Seq(M)
         /\ \A m : In(Append(q, x), m) <=> In(q, m) \/ m = x
         /\ Single(q) /\ (In(q, x) => x.type \notin Requests) => Single(Append(q, x))
<1>1. Append(q, x) = q \o <<x>>
  BY AppendIsConcat
<1>2. PICK r : r = <<x>>
  OBVIOUS
<1>3. r \in Seq(M) /\ Single(r) /\ \A m : In(r, m) <=> m = x
  BY <1>2, OneMessage
<1>4. /\ q \o r \in Seq(M)
      /\ \A m : In(q \o r, m) <=> In(q, m) \/ In(r, m)
      /\ Single(q) /\ Single(r) /\ (\A m : In(q, m) /\ In(r, m) => m.type \notin Requests)
           => Single(q \o r)
  BY <1>3, Joined
<1> QED
  BY <1>1, <1>2, <1>3, <1>4

\* The queue that its first message was taken from.
LEMMA Taken ==
  ASSUME NEW M, NEW q \in Seq(M), q # <<>>
  PROVE  /\ Head(q) \in M /\ Tail(q) \in Seq(M)
         /\ \A m : In(q, m) <=> m = Head(q) \/ In(Tail(q), m)
         /\ Single(q) => /\ Single(Tail(q))
                         /\ Head(q).type \in Requests => ~In(Tail(q), Head(q))
<1>1. Len(q) \in Nat /\ Len(q) > 0 /\ Head(q) = q[1]
  BY EmptySeq, LenProperties
<1>2. /\ Head(q) \in M /\ Tail(q) \in Seq(M) /\ Len(Tail(q)) = Len(q) - 1
      /\ \A i \in 1 .. Len(Tail(q)) : Tail(q)[i] = q[i + 1]
  BY HeadTailProperties
<1>3. PICK t : t = Tail(q)
  OBVIOUS
<1>4. PICK n \in Nat : n = Len(t)
  BY <1>2, <1>3, LenProperties
<1>5. Len(q) = n + 1 /\ \A i \in 1 .. n : t[i] = q[i + 1] /\ i + 1 \in 1 .. Len(q)
  BY <1>1, <1>2, <1>3, <1>4
<1>6. \A i \in 1 .. Len(q) : i = 1 \/ \E k \in 1 .. n : i = k + 1 /\ q[i] = t[k]
  <2> SUFFICES ASSUME NEW i \in 1 .. Len(q), i # 1
               PROVE  \E k \in 1 .. n : i = k + 1 /\ q[i] = t[k]
    OBVIOUS
  <2>1. PICK k \in 1 .. n : i = k + 1
    <3>1. i - 1 \in 1 .. n /\ i = (i - 1) + 1
      BY <1>5
    <3> QED
      BY <3>1
  <2> QED
    BY <1>5, <2>1
<1>7. \A m : In(q, m) <=> m = q[1] \/ In(t, m)
  <2>1. 1 \in 1 .. Len(q)
    BY <1>1
  <2> QED
    BY <1>4, <1>5, <1>6, <2>1 DEF In
<1>8. ASSUME Single(q)
      PROVE  Single(t) /\ (q[1].type \in Requests => ~In(t, q[1]))
  <2>1. Single(t)
    <3> SUFFICES ASSUME NEW i \in 1 .. n, NEW j \in 1 .. n, t[i] = t[j], t[i].type \in Requests
                 PROVE  i = j
      BY <1>4 DEF Single
    <3>1. i + 1 = j + 1
      BY <1>5, <1>8 DEF Single
    <3> QED
      BY <3>1
  <2>2. ASSUME q[1].type \in Requests, In(t, q[1]) PROVE FALSE
    <3>1. PICK i \in 1 .. n : t[i] = q[1]
      BY <1>4, <2>2 DEF In
    <3>2. i + 1 \in 1 .. Len(q) /\ 1 \in 1 .. Len(q) /\ q[i + 1] = q[1]
      BY <1>1, <1>5, <3>1
    <3>3. i + 1 = 1
      BY <1>8, <2>2, <3>2 DEF Single
    <3> QED
      BY <3>3
  <2> QED
    BY <2>1, <2>2
<1> QED
  BY <1>1, <1>2, <1>3, <1>7, <1>8

\* What BeginsWith says of the messages in the queue; more handlers may have run.
LEMMA BeginsMeans ==
  ASSUME NEW q, NEW n, NEW m, NEW objs, BeginsWith(q, n, m, objs)
  PROVE  /\ In(q, m) /\ IsReply(m, n)
         /\ \A more : objs \subseteq more => BeginsWith(q, n, m, more)
  BY DEF BeginsWith, In, ByHandler

\* Messages at the end that are no replies to request n, or those of handlers,
\* change nothing.
LEMMA BeginsJoined ==
  ASSUME NEW M, NEW q \in Seq(M), NEW r \in Seq(M), NEW n, NEW m, NEW objs,
         BeginsWith(q, n, m, objs),
         \A x : In(r, x) /\ IsReply(x, n) => ByHandler(x, objs)
  PROVE  BeginsWith(q \o r, n, m, objs)
<1>1. PICK s : s = q \o r
  OBVIOUS
<1>2. PICK a \in Nat, b \in Nat : a = Len(q) /\ b = Len(r)
  BY LenProperties
<1>3. /\ Len(s) = a + b
      /\ \A i \in 1 .. a + b : s[i] = IF i <= a THEN q[i] ELSE r[i - a]
  BY <1>1, <1>2, ConcatProperties
<1>4. PICK i \in 1 .. a :
        /\ q[i] = m /\ IsReply(m, n)
        /\ \A j \in 1 .. a : IsReply(q[j], n) /\ j # i => j > i /\ ByHandler(q[j], objs)
  BY <1>2 DEF BeginsWith
<1>5. i \in 1 .. Len(s) /\ s[i] = m
  BY <1>3, <1>4
<1>6. ASSUME NEW j \in 1 .. Len(s), IsReply(s[j], n), j # i
      PROVE  j > i /\ ByHandler(s[j], objs)
  <2>1. CASE j <= a
    <3>1. j \in 1 .. a /\ s[j] = q[j]
      BY <1>3, <2>1
    <3> QED
      BY <1>4, <1>6, <3>1
  <2>2. CASE ~(j <= a)
    <3>1. j > i /\ j - a \in 1 .. b /\ s[j] = r[j - a]
      BY <1>3, <2>2
    <3>2. In(r, s[j])
      BY <1>2, <3>1 DEF In
    <3> QED
      BY <1>6, <3>1, <3>2
  <2> QED
    BY <2>1, <2>2
<1> QED
  BY <1>1, <1>4, <1>5, <1>6 DEF BeginsWith

\* The first reply to request n that is put in a queue.
LEMMA BeginsNow ==
  ASSUME NEW M, NEW q \in Seq(M), NEW m \in M, NEW n, NEW objs, IsReply(m, n),
         \A x : In(q, x) => ~IsReply(x, n)
  PROVE  BeginsWith(Append(q, m), n, m, objs)
<1>1. PICK s : s = Append(q, m)
  OBVIOUS
<1>2. PICK a \in Nat : a = Len(q)
  BY LenProperties
<1>3. Len(s) = a + 1 /\ s[a + 1] = m /\ \A i \in 1 .. a : s[i] = q[i]
  BY <1>1, <1>2, AppendProperties
<1>4. ASSUME NEW j \in 1 .. Len(s), IsReply(s[j], n)
      PROVE  j = a + 1
  <2> SUFFICES ASSUME j # a + 1 PROVE FALSE
    OBVIOUS
  <2>1. j \in 1 .. a /\ s[j] = q[j]
    BY <1>3
  <2>2. In(q, s[j])
    BY <1>2, <2>1 DEF In
  <2> QED
    BY <1>4, <2>2
<1>5. a + 1 \in 1 .. Len(s)
  BY <1>3
<1> QED
  BY <1>1, <1>3, <1>4, <1>5 DEF BeginsWith

\* The first reply is taken from the queue before any of a handler.
LEMMA BeginsTaken ==
  ASSUME NEW M, NEW q \in Seq(M), q # <<>>, NEW n, NEW m, NEW objs, BeginsWith(q, n, m, objs)
  PROVE  /\ ~IsReply(Head(q), n) => BeginsWith(Tail(q), n, m, objs)
         /\ IsReply(Head(q), n) =>
              /\ Head(q) = m
              /\ \A x : In(Tail(q), x) /\ IsReply(x, n) => ByHandler(x, objs)
<1>1. Len(q) \in Nat /\ Len(q) > 0 /\ Head(q) = q[1]
  BY EmptySeq, LenProperties
<1>2. /\ Tail(q) \in Seq(M) /\ Len(Tail(q)) = Len(q) - 1
      /\ \A i \in 1 .. Len(Tail(q)) : Tail(q)[i] = q[i + 1]
  BY HeadTailProperties
<1>3. PICK t : t = Tail(q)
  OBVIOUS
<1>4. PICK k \in Nat : k = Len(t)
  BY <1>2, <1>3, LenProperties
<1>5. Len(q) = k + 1 /\ \A i \in 1 .. k : t[i] = q[i + 1] /\ i + 1 \in 1 .. Len(q)
  BY <1>1, <1>2, <1>3, <1>4
<1>6. PICK i \in 1 .. Len(q) :
        /\ q[i] = m /\ IsReply(m, n)
        /\ \A j \in 1 .. Len(q) : IsReply(q[j], n) /\ j # i => j > i /\ ByHandler(q[j], objs)
  BY DEF BeginsWith
<1>7. ASSUME ~IsReply(q[1], n) PROVE BeginsWith(t, n, m, objs)
  <2>1. PICK l \in 1 .. k : i = l + 1
    <3>1. i # 1
      BY <1>6, <1>7
    <3>2. i - 1 \in 1 .. k /\ i = (i - 1) + 1
      BY <1>5, <3>1
    <3> QED
      BY <3>2
  <2>2. t[l] = m
    BY <1>5, <1>6, <2>1
  <2>3. ASSUME NEW j \in 1 .. k, IsReply(t[j], n), j # l
        PROVE  j > l /\ ByHandler(t[j], objs)
    <3>1. j + 1 \in 1 .. Len(q) /\ t[j] = q[j + 1] /\ j + 1 # i
      BY <1>5, <2>1, <2>3
    <3>2. j + 1 > i /\ ByHandler(q[j + 1], objs)
      BY <1>6, <2>3, <3>1
    <3> QED
      BY <2>1, <3>1, <3>2
  <2> QED
    BY <1>4, <1>6, <2>2, <2>3 DEF BeginsWith
<1>8. ASSUME IsReply(q[1], n)
      PROVE  q[1] = m /\ \A x : In(t, x) /\ IsReply(x, n) => ByHandler(x, objs)
  <2>1. i = 1
    <3>1. 1 \in 1 .. Len(q) /\ ~(1 > i)
      BY <1>1
    <3> QED
      BY <1>6, <1>8, <3>1
  <2>2. ASSUME NEW x, In(t, x), IsReply(x, n) PROVE ByHandler(x, objs)
    <3>1. PICK j \in 1 .. k : t[j] = x
      BY <1>4, <2>2 DEF In
    <3>2. j + 1 \in 1 .. Len(q) /\ q[j + 1] = x /\ j + 1 # 1
      BY <1>5, <3>1
    <3> QED
      BY <1>6, <2>1, <2>2, <3>2
  <2> QED
    BY <1>6, <2>1, <2>2
<1> QED
  BY <1>1, <1>3, <1>7, <1>8

\* A queue that nothing is in is empty, and what is in a queue is a message.
LEMMA QueueFacts ==
  ASSUME NEW M, NEW q \in Seq(M)
  PROVE  /\ (\A x : ~In(q, x)) => q = <<>>
         /\ \A x : In(q, x) => x \in M
<1>1. Len(q) \in Nat /\ \A i \in 1 .. Len(q) : q[i] \in M
  BY LenProperties, ElementOfSeq
<1>2. ASSUME \A x : ~In(q, x) PROVE q = <<>>
  <2>1. 1 \notin 1 .. Len(q)
    BY <1>2 DEF In
  <2>2. Len(q) = 0
    BY <1>1, <2>1
  <2> QED
    BY <2>2, EmptySeq
<1> QED
  BY <1>1, <1>2 DEF In

\* Nothing is in an empty queue.
LEMMA EmptyQueue ==
  ASSUME NEW M
  PROVE  <<>> \in Seq(M) /\ Single(<<>>) /\ \A x : ~In(<<>>, x)
<1>1. Len(<<>>) = 0 /\ 1 .. 0 = {}
  OBVIOUS
<1> QED
  BY <1>1 DEF In, Single

-----------------------------------------------------------------------------
(* Steps that do not touch a request *)

\* A step that leaves request n of client c where it is: at most its object goes, or
\* the message that is owed is given up.
Same(c, n) ==
  /\ \A m \in Msg : m.type \in Requests /\ m.seq = n => (In(up'[c], m) <=> In(up[c], m))
  /\ \A m \in Msg : IsReply(m, n) => (In(down'[c], m) <=> In(down[c], m))
  /\ \A m \in Msg, objs \in SUBSET BusObjects :
       BeginsWith(down[c], n, m, objs) => BeginsWith(down'[c], n, m, objs)
  /\ Ran(c, n)' = Ran(c, n)
  /\ \A o \in BusObjects : Open(c, n, o)' => Open(c, n, o)
  /\ \A o \in BusObjects : Owing(c, n, o) => Owing(c, n, o)'
  /\ incomplete \subseteq incomplete'

\* The objects that ran are objects.
LEMMA RanType ==
  ASSUME BusTypeOK, NEW c \in BusClients, NEW n \in 1 .. MaxCalls
  PROVE  Ran(c, n) \subseteq BusObjects
<1>1. PICK s : s = ran[c][n]
  OBVIOUS
<1>2. s \in Seq(BusObjects)
  BY <1>1 DEF BusTypeOK
<1>3. \A i \in 1 .. Len(s) : s[i] \in BusObjects
  BY <1>2
<1> QED
  BY <1>1, <1>3 DEF Ran

\* The subscribers a message lists are objects.
LEMMA SubsType == \A m \in Msg : Range(m.subs) \in SUBSET BusObjects
<1> SUFFICES ASSUME NEW m \in Msg PROVE Range(m.subs) \in SUBSET BusObjects
  OBVIOUS
<1>1. PICK s : s = m.subs
  OBVIOUS
<1>2. s \in Seq(BusObjects)
  BY <1>1 DEF Msg
<1>3. Range(s) \in SUBSET BusObjects
  BY <1>2 DEF Range
<1> QED
  BY <1>1, <1>3

\* Such a step leaves the request in the place it was in.
LEMMA SameKeeps ==
  ASSUME BusTypeOK, NEW c \in BusClients, NEW n \in 1 .. MaxCalls, Same(c, n)
  PROVE  /\ Unread(c, n)' <=> Unread(c, n)
         /\ Untouched(c, n) => Untouched(c, n)'
         /\ call'[c] = call[c] => /\ Sent(c, n) => Sent(c, n)'
                                  /\ Placed(c, n) => Placed(c, n)'
<1>1. Unread(c, n)' <=> Unread(c, n)
  BY DEF Unread, Same
<1>2. Untouched(c, n) => Untouched(c, n)'
  BY DEF Untouched, NoReply, Same
<1> SUFFICES ASSUME call'[c] = call[c]
             PROVE  (Sent(c, n) => Sent(c, n)') /\ (Placed(c, n) => Placed(c, n)')
  BY <1>1, <1>2
<1>3. Sent(c, n) => Sent(c, n)'
  BY DEF Sent, Same
<1>4. NotFound(c, n) => NotFound(c, n)'
  BY DEF NotFound, Same
<1>5. \A objs \in SUBSET BusObjects : With(c, n, objs) => With(c, n, objs)'
  BY DEF With, Same
<1>6. ASSUME Listed(c, n) PROVE Listed(c, n)'
  <2>1. PICK m \in Msg :
          /\ BeginsWith(down[c], n, m, Ran(c, n)) /\ (m.type = "NOT_FOUND" => call[c].type = "NOTIFY")
          /\ call[c].want = {m.peer} /\ call[c].asked = {}
          /\ With(c, n, Range(m.subs)) /\ \A o \in Range(m.subs) : Owing(c, n, o)
    BY <1>6 DEF Listed
  <2>2. PICK objs \in SUBSET BusObjects : objs = Range(m.subs)
    BY SubsType
  <2>3. BeginsWith(down'[c], n, m, Ran(c, n)')
    BY <2>1, RanType DEF Same
  <2>4. With(c, n, objs)' /\ \A o \in objs : Owing(c, n, o)'
    BY <1>5, <2>1, <2>2 DEF Same
  <2> QED
    BY <2>1, <2>2, <2>3, <2>4 DEF Listed
<1>7. ASSUME Forwarding(c, n) PROVE Forwarding(c, n)'
  <2>1. call[c].asked \in SUBSET BusObjects /\ call[c].want \in SUBSET BusObjects
    <3>1. call[c].asked \in SUBSET BusObjects
      BY DEF BusTypeOK, Call
    <3> QED
      BY <1>7, <3>1 DEF Forwarding
  <2>2. PICK objs \in SUBSET BusObjects : objs = call[c].asked
    BY <2>1
  <2>3. With(c, n, objs)'
    BY <1>5, <1>7, <2>2 DEF Forwarding
  <2>4. \A o \in call[c].want : Owing(c, n, o)'
    BY <1>7, <2>1 DEF Forwarding, Same
  <2>5. \A m \in Msg : In(down'[c], m) /\ IsReply(m, n) => ByHandler(m, Ran(c, n)')
    BY <1>7 DEF Forwarding, Same
  <2>6. /\ call[c].want \subseteq call[c].asked /\ call[c].want # {}
        /\ call[c].asked \ call[c].want \subseteq Ran(c, n)'
    BY <1>7 DEF Forwarding, Same
  <2> QED
    BY <2>2, <2>3, <2>4, <2>5, <2>6 DEF Forwarding
<1>8. ASSUME Unanswered(c, n) PROVE Unanswered(c, n)'
  <2>1. PICK objs \in SUBSET BusObjects : objs \intersect call[c].want = {} /\ With(c, n, objs)
    BY <1>8 DEF Unanswered
  <2>2. With(c, n, objs)'
    BY <1>5, <2>1
  <2>3. <<c, n>> \in incomplete'
    BY <1>8 DEF Unanswered, Same
  <2>4. \A m \in Msg : In(down'[c], m) /\ IsReply(m, n) => ByHandler(m, Ran(c, n)')
    BY <1>8 DEF Unanswered, Same
  <2> QED
    BY <2>1, <2>2, <2>3, <2>4 DEF Unanswered
<1> QED
  BY <1>3, <1>4, <1>6, <1>7, <1>8 DEF Placed

\* What BusInv says of a request that is left where it is.
LEMMA SameFresh ==
  ASSUME BusInv, NEW c \in BusClients, NEW n \in 1 .. MaxCalls, Same(c, n),
         call'[c].seq = call[c].seq
  PROVE  FreshOK(c, n)'
<1>1. FreshOK(c, n) /\ BusTypeOK
  BY DEF BusInv
<1>2. (Unread(c, n)' <=> Unread(c, n)) /\ (Untouched(c, n) => Untouched(c, n)')
  BY <1>1, SameKeeps
<1> QED
  BY <1>1, <1>2 DEF FreshOK

\* What BusInv says of a client whose latest request is left where it is.
LEMMA SameWaits ==
  ASSUME BusInv, NEW c \in BusClients, call'[c] = call[c],
         call[c].seq > 0 => Same(c, call[c].seq)
  PROVE  WaitsOK(c)' /\ EndOK(c)'
<1>1. BusTypeOK /\ WaitsOK(c) /\ EndOK(c)
  BY DEF BusInv
<1>2. CASE call[c].seq > 0
  <2>1. PICK n \in 1 .. MaxCalls : n = call[c].seq
    BY <1>1, <1>2, BusAssumption DEF BusTypeOK, Call
  <2>2. Same(c, n) /\ call'[c].seq = n
    BY <1>2, <2>1
  <2>3. /\ Unread(c, n)' <=> Unread(c, n)
        /\ Sent(c, n) => Sent(c, n)'
        /\ Placed(c, n) => Placed(c, n)'
    BY <1>1, <2>2, SameKeeps
  <2>4. WaitsOK(c)'
    BY <1>1, <1>2, <2>1, <2>2, <2>3 DEF WaitsOK, Waits
  <2>5. Ran(c, n)' = Ran(c, n) /\ \A o \in BusObjects : Open(c, n, o)' => Open(c, n, o)
    BY <2>2 DEF Same
  <2>6. EndOK(c)'
    BY <1>1, <1>2, <2>1, <2>2, <2>3, <2>5 DEF EndOK
  <2> QED
    BY <2>4, <2>6
<1>3. CASE ~(call[c].seq > 0)
  BY <1>1, <1>3 DEF WaitsOK, EndOK, Waits
<1> QED
  BY <1>2, <1>3

\* A queue to which nothing but replies to other requests is added, or of which
\* such a message is taken.
LEMMA QuietQueue ==
  ASSUME NEW M, NEW q \in Seq(M), NEW p, NEW n,
         \/ p = q
         \/ \E x \in M : p = Append(q, x) /\ ~IsReply(x, n)
         \/ \E r \in Seq(M) : p = q \o r /\ \A x : In(r, x) => ~IsReply(x, n)
         \/ q # <<>> /\ p = Tail(q) /\ ~IsReply(Head(q), n)
  PROVE  /\ \A m : IsReply(m, n) => (In(p, m) <=> In(q, m))
         /\ \A m, objs : BeginsWith(q, n, m, objs) => BeginsWith(p, n, m, objs)
<1>1. CASE \E r \in Seq(M) : p = q \o r /\ \A x : In(r, x) => ~IsReply(x, n)
  <2>1. PICK r \in Seq(M) : p = q \o r /\ \A x : In(r, x) => ~IsReply(x, n)
    BY <1>1
  <2>2. \A m : In(p, m) <=> In(q, m) \/ In(r, m)
    BY <2>1, Joined
  <2>3. \A m, objs : BeginsWith(q, n, m, objs) => BeginsWith(p, n, m, objs)
    BY <2>1, BeginsJoined
  <2> QED
    BY <2>1, <2>2, <2>3
<1>2. CASE \E x \in M : p = Append(q, x) /\ ~IsReply(x, n)
  <2>1. PICK x \in M : p = Append(q, x) /\ ~IsReply(x, n)
    BY <1>2
  <2>2. PICK r : r = <<x>>
    OBVIOUS
  <2>3. r \in Seq(M) /\ \A y : In(r, y) <=> y = x
    BY <2>2, OneMessage
  <2>4. p = q \o r
    BY <2>1, <2>2, AppendIsConcat
  <2> QED
    BY <1>1, <2>1, <2>3, <2>4
<1>3. CASE q # <<>> /\ p = Tail(q) /\ ~IsReply(Head(q), n)
  <2>1. \A m : In(q, m) <=> m = Head(q) \/ In(p, m)
    BY <1>3, Taken
  <2>2. \A m, objs : BeginsWith(q, n, m, objs) => BeginsWith(p, n, m, objs)
    BY <1>3, BeginsTaken
  <2> QED
    BY <1>3, <2>1, <2>2
<1> QED
  BY <1>1, <1>2, <1>3


-----------------------------------------------------------------------------
(* The steps *)

\* A message is in Msg when its parts are.
LEMMA BusMsgType ==
  ASSUME NEW t \in MsgTypes, NEW o \in BusObjects, NEW p \in Ids, NEW n \in 1 .. MaxCalls
  PROVE  /\ BusMsg(t, o, p, n) \in Msg
         /\ BusMsg(t, o, p, n).type = t /\ BusMsg(t, o, p, n).obj = o
         /\ BusMsg(t, o, p, n).peer = p /\ BusMsg(t, o, p, n).seq = n
         /\ BusMsg(t, o, p, n).subs = <<>>
<1>1. <<>> \in Seq(BusObjects)
  OBVIOUS
<1> QED
  BY <1>1 DEF BusMsg, Msg

\* The request as an object is sent it.
LEMMA AskedType ==
  ASSUME NEW c \in BusClients, NEW n \in 1 .. MaxCalls, NEW o \in BusObjects
  PROVE  /\ Asked(c, n, o) \in Msg /\ Asked(c, n, o).type = "INVOKE"
         /\ Asked(c, n, o).obj = o /\ Asked(c, n, o).peer = c /\ Asked(c, n, o).seq = n
<1>1. PICK t \in MsgTypes, p \in Ids : t = "INVOKE" /\ p = c
  BY DEF MsgTypes, Ids
<1> QED
  BY <1>1, BusMsgType DEF Asked

\* The answer that names nobody is none of the other messages.
LEMMA Zeroed ==
  /\ ZeroedAnswer \notin Msg /\ ZeroedAnswer.type = "STATUS" /\ ZeroedAnswer.obj = "none"
  /\ ZeroedAnswer.type \notin Requests
  /\ \A o \in BusObjects : \A c, n : BusMsg("STATUS", o, c, n) # ZeroedAnswer
<1>1. ZeroedAnswer.type = "STATUS" /\ ZeroedAnswer.obj = "none"
  BY DEF ZeroedAnswer, BusMsg
<1>2. \A m \in Msg : m.obj \in BusObjects
  BY DEF Msg
<1>3. \A o, c, n : BusMsg("STATUS", o, c, n).obj = o
  BY DEF BusMsg
<1> QED
  BY <1>1, <1>2, <1>3, BusAssumption DEF Requests

\* The numbers of requests are numbers.
LEMMA SeqType ==
  /\ \A k \in Call : k.seq \in Nat /\ k.seq \in 0 .. MaxCalls
  /\ \A m \in Msg : m.seq \in Nat /\ m.seq \in 1 .. MaxCalls
<1>1. \A k \in Call : k.seq \in 0 .. MaxCalls
  BY DEF Call
<1>2. \A m \in Msg : m.seq \in 1 .. MaxCalls
  BY DEF Msg
<1>3. \A i \in 0 .. MaxCalls : i \in Nat
  BY BusAssumption
<1>4. \A i \in 1 .. MaxCalls : i \in Nat
  BY BusAssumption
<1> QED
  BY <1>1, <1>2, <1>3, <1>4

\* Nobody has called at first.
LEMMA BusInitInv == BusInit => BusInv
<1> SUFFICES ASSUME BusInit PROVE BusInv
  OBVIOUS
<1>0. /\ here = BusClients /\ freed = {} /\ unlisted = {}
      /\ up = [c \in BusClients |-> <<>>] /\ down = [c \in BusClients |-> <<>>]
      /\ call = [c \in BusClients |-> NotCalling]
      /\ heldMsgs = [c \in BusClients |-> {}] /\ deferred = [c \in BusClients |-> {}]
      /\ ran = [c \in BusClients |-> [n \in 1 .. MaxCalls |-> <<>>]]
  BY DEF BusInit
<1>1. NotCalling \in Call /\ NotCalling.st = "idle"
  BY BusAssumption DEF NotCalling, Call
<1>2. \A c \in BusClients : call[c].st = "idle" /\ heldMsgs[c] = {} /\ deferred[c] = {}
  BY <1>0, <1>1
<1>3. \A c \in BusClients : /\ \A m : ~In(up[c], m) /\ ~In(down[c], m)
                            /\ Single(up[c]) /\ Single(down[c])
  BY <1>0, EmptyQueue
<1>4. \A c \in BusClients, n \in 1 .. MaxCalls : ran[c][n] = <<>> /\ Ran(c, n) = {}
  BY <1>0 DEF Ran
<1>5. BusTypeOK
  BY <1>0, <1>1 DEF BusTypeOK
<1>6. UpInv /\ DownInv /\ QueueInv
  BY <1>0, <1>2, <1>3 DEF UpInv, DownInv, QueueInv
<1>7. RanInv
  BY <1>4 DEF RanInv
<1>8. \A c \in BusClients, n \in 1 .. MaxCalls : FreshOK(c, n)
  <2>1. \A o \in BusObjects : OwnerOf[o] \in BusClients
    BY BusAssumption
  <2> QED
    BY <1>2, <1>3, <1>4, <2>1 DEF FreshOK, Untouched, NoReply, Open
<1>9. \A c \in BusClients : WaitsOK(c) /\ EndOK(c)
  BY <1>2 DEF WaitsOK, EndOK, Waits
<1> QED
  BY <1>5, <1>6, <1>7, <1>8, <1>9 DEF BusInv

\* What handlers have run for, they have run for after any step.
LEMMA HasRunKeeps ==
  ASSUME NEW c, NEW m \in Msg, HasRun(c, m),
         \A p \in BusClients : call'[p].seq = call[p].seq,
         \A p \in BusClients, n \in 1 .. MaxCalls : Ran(p, n) \subseteq Ran(p, n)'
  PROVE  HasRun(c, m)'
  BY SeqType DEF HasRun

\* No more than answers of handlers that ran are added to the queues of the daemon.
LEMMA UpKeeps ==
  ASSUME BusTypeOK, UpInv,
         \A c \in BusClients : call'[c].seq = call[c].seq,
         \A c \in BusClients, n \in 1 .. MaxCalls : Ran(c, n) \subseteq Ran(c, n)',
         \A c \in BusClients : \A m \in Msg :
           In(up'[c], m) => In(up[c], m) \/ (m.type = "STATUS" /\ HasRun(c, m)')
  PROVE  UpInv'
<1> SUFFICES ASSUME NEW c \in BusClients, NEW m \in Msg, In(up'[c], m)
             PROVE  /\ m.type \in Requests =>
                         /\ m.seq <= call'[c].seq /\ m.peer = "none"
                         /\ m.type = "INVOKE" <=> OwnerOf[m.obj] # c
                         /\ \A l \in Msg : In(up'[c], l) /\ l.type \in Requests
                                             /\ l.seq = m.seq => l = m
                    /\ m.type \notin Requests => m.type = "STATUS" /\ HasRun(c, m)'
  BY DEF UpInv
<1>1. "STATUS" \notin Requests
  BY DEF Requests
<1>2. ASSUME m.type \in Requests
      PROVE  /\ m.seq <= call'[c].seq /\ m.peer = "none"
             /\ m.type = "INVOKE" <=> OwnerOf[m.obj] # c
             /\ \A l \in Msg : In(up'[c], l) /\ l.type \in Requests /\ l.seq = m.seq => l = m
  <2>1. \A l \in Msg : In(up'[c], l) /\ l.type \in Requests => In(up[c], l)
    BY <1>1
  <2>2. In(up[c], m)
    BY <1>2, <2>1
  <2>3. /\ m.seq <= call[c].seq /\ m.peer = "none"
        /\ m.type = "INVOKE" <=> OwnerOf[m.obj] # c
        /\ \A l \in Msg : In(up[c], l) /\ l.type \in Requests /\ l.seq = m.seq => l = m
    BY <1>2, <2>2 DEF UpInv
  <2> QED
    BY <2>1, <2>3
<1>3. ASSUME m.type \notin Requests PROVE m.type = "STATUS" /\ HasRun(c, m)'
  <2>1. CASE In(up[c], m)
    <3>1. m.type = "STATUS" /\ HasRun(c, m)
      BY <1>3, <2>1 DEF UpInv
    <3> QED
      BY <3>1, HasRunKeeps
  <2>2. CASE ~In(up[c], m)
    BY <2>2
  <2> QED
    BY <2>1, <2>2
<1> QED
  BY <1>2, <1>3

\* Only the types of messages, how they are numbered and the objects they are for count.
LEMMA DownKeeps ==
  ASSUME BusTypeOK, DownInv, freed \subseteq freed',
         \A c \in BusClients : call'[c].seq = call[c].seq,
         \A c, n : Ran(c, n)' = Ran(c, n),
         \A c \in BusClients : \A m \in Msg : In(down'[c], m) =>
           \/ In(down[c], m)
           \/ /\ m.type \notin Requests /\ (m.type = "DATA" => m.obj \in freed')
              /\ m.seq <= call[c].seq
           \/ m.type = "INVOKE" /\ IsAsked(c, m) /\ m \notin heldMsgs[c],
         \A c \in BusClients : \A m \in heldMsgs'[c] :
           m \in heldMsgs[c] \/ (In(down[c], m) /\ ~In(down'[c], m) /\ m.type = "INVOKE"),
         \A c \in BusClients : deferred'[c] \subseteq deferred[c]
  PROVE  DownInv'
<1>t. \A c \in BusClients : heldMsgs[c] \subseteq Msg /\ deferred[c] \subseteq Msg /\ down[c] \in Seq(Msg)
  BY DEF BusTypeOK
<1>1. \A c \in BusClients, m \in Msg : IsAsked(c, m) => IsAsked(c, m)'
  BY DEF IsAsked, Asked
<1>r. "INVOKE" \in Requests
  BY DEF Requests
<1>2. ASSUME NEW c \in BusClients, NEW m \in Msg, In(down'[c], m)
      PROVE  /\ m.type \notin Requests \ {"INVOKE"} /\ (m.type = "DATA" => m.obj \in freed')
             /\ IF m.type = "INVOKE" THEN IsAsked(c, m)' ELSE m.seq <= call'[c].seq
  <2>1. CASE In(down[c], m)
    <3>1. /\ m.type \notin Requests \ {"INVOKE"} /\ (m.type = "DATA" => m.obj \in freed)
          /\ IF m.type = "INVOKE" THEN IsAsked(c, m) ELSE m.seq <= call[c].seq
      BY <2>1 DEF DownInv
    <3> QED
      BY <1>1, <3>1
  <2>2. CASE m.type \notin Requests /\ (m.type = "DATA" => m.obj \in freed') /\ m.seq <= call[c].seq
    BY <1>r, <2>2
  <2>3. CASE m.type = "INVOKE" /\ IsAsked(c, m)
    BY <1>1, <2>3
  <2> QED
    BY <1>2, <2>1, <2>2, <2>3
<1>3. ASSUME NEW c \in BusClients, NEW m \in heldMsgs'[c]
      PROVE  m.type = "INVOKE" /\ IsAsked(c, m)' /\ ~In(down'[c], m)
  <2>1. CASE m \in heldMsgs[c]
    <3>1. m.type = "INVOKE" /\ IsAsked(c, m) /\ ~In(down[c], m) /\ m \in Msg
      BY <1>t, <2>1 DEF DownInv
    <3>2. ~In(down'[c], m)
      BY <1>r, <2>1, <3>1
    <3> QED
      BY <1>1, <3>1, <3>2
  <2>2. CASE In(down[c], m) /\ ~In(down'[c], m) /\ m.type = "INVOKE"
    <3>1. m \in Msg
      BY <1>t, <2>2, QueueFacts
    <3> QED
      BY <1>1, <2>2, <3>1 DEF DownInv
  <2> QED
    BY <2>1, <2>2
<1>4. ASSUME NEW c \in BusClients, NEW m \in deferred'[c]
      PROVE  m = Asked(m.peer, m.seq, m.obj) /\ HasRun(c, m)'
  <2>1. m \in Msg /\ m = Asked(m.peer, m.seq, m.obj) /\ HasRun(c, m)
    BY <1>t DEF DownInv
  <2> QED
    BY <2>1, HasRunKeeps
<1>5. \A c \in BusClients : \A m \in deferred'[c] : (m = Asked(m.peer, m.seq, m.obj))'
  BY <1>4 DEF Asked, BusMsg
<1> QED
  BY <1>2, <1>3, <1>4, <1>5 DEF DownInv

\* A step that only touches request k of client cl, and of calls only that one.
LEMMA OneTouched ==
  ASSUME BusInv, BusTypeOK', UpInv', DownInv', QueueInv', RanInv',
         NEW cl \in BusClients, NEW k \in 1 .. MaxCalls,
         \A c \in BusClients : call'[c].seq = call[c].seq /\ (c # cl => call'[c] = call[c]),
         \A c \in BusClients, n \in 1 .. MaxCalls : c # cl \/ n # k => Same(c, n),
         FreshOK(cl, k)',
         IF call[cl].seq = k THEN WaitsOK(cl)' /\ EndOK(cl)' ELSE call'[cl] = call[cl]
  PROVE  BusInv'
<1>1. \A c \in BusClients, n \in 1 .. MaxCalls : FreshOK(c, n)'
  BY SameFresh
<1>2. ASSUME NEW c \in BusClients PROVE WaitsOK(c)' /\ EndOK(c)'
  <2>1. call[c].seq > 0 => call[c].seq \in 1 .. MaxCalls
    BY BusAssumption, SMTT(20) DEF BusInv, BusTypeOK, Call
  <2>2. CASE c = cl /\ call[cl].seq = k
    BY <2>2
  <2>3. CASE ~(c = cl /\ call[cl].seq = k)
    <3>1. call'[c] = call[c] /\ (call[c].seq > 0 => Same(c, call[c].seq))
      BY <2>1, <2>3
    <3> QED
      BY <3>1, SameWaits
  <2> QED
    BY <2>2, <2>3
<1> QED
  BY <1>1, <1>2 DEF BusInv

\* A step that touches no request and no call.
LEMMA NoneTouched ==
  ASSUME BusInv, BusTypeOK', UpInv', DownInv', QueueInv', RanInv', call' = call,
         \A c \in BusClients, n \in 1 .. MaxCalls : Same(c, n)
  PROVE  BusInv'
<1>1. \A c \in BusClients, n \in 1 .. MaxCalls : FreshOK(c, n)'
  BY SameFresh
<1>2. ASSUME NEW c \in BusClients PROVE WaitsOK(c)' /\ EndOK(c)'
  <2>1. call[c].seq > 0 => call[c].seq \in 1 .. MaxCalls
    BY BusAssumption DEF BusInv, BusTypeOK, Call
  <2> QED
    BY <2>1, SameWaits
<1> QED
  BY <1>1, <1>2 DEF BusInv

\* A new request is with nobody but its client and the daemon's queue.
LEMMA RequestKeeps ==
  ASSUME BusInv, NEW cl \in BusClients, NEW o \in BusObjects, NEW type \in Requests,
         NEW want, want = IF type = "REMOVE_OBJECT" THEN {"none"} ELSE {o},
         NEW asked, asked = IF type = "INVOKE" THEN {o} ELSE {},
         type = "INVOKE" <=> OwnerOf[o] # cl,
         Request(cl, type, o, want, asked)
  PROVE  BusInv'
<1>t. BusTypeOK /\ UpInv /\ DownInv /\ QueueInv /\ RanInv
  BY DEF BusInv
<1>k. PICK k \in 1 .. MaxCalls : k = call[cl].seq + 1
  <2>1. call[cl].seq \in 0 .. MaxCalls /\ call[cl].seq < MaxCalls
    BY <1>t DEF BusTypeOK, Call, Request
  <2> QED
    BY <2>1, BusAssumption
<1>x. PICK x \in Msg : /\ x = BusMsg(type, o, "none", k) /\ x.type = type /\ x.obj = o
                       /\ x.peer = "none" /\ x.seq = k
  <2>1. PICK t \in MsgTypes, p \in Ids : t = type /\ p = "none"
    BY DEF MsgTypes, Ids, Requests
  <2> QED
    BY <2>1, BusMsgType
<1>z. PICK z \in Call : /\ z = [st |-> "waiting", type |-> type, seq |-> k, want |-> want,
                                asked |-> asked]
                        /\ z.st = "waiting" /\ z.type = type /\ z.seq = k /\ z.want = want
                        /\ z.asked = asked
  <2>1. /\ want \in SUBSET (BusObjects \union {"none"}) /\ asked \in SUBSET BusObjects
        /\ k \in 0 .. MaxCalls
    BY BusAssumption
  <2>2. PICK z : z = [st |-> "waiting", type |-> type, seq |-> k, want |-> want, asked |-> asked]
    OBVIOUS
  <2>3. z \in Call
    BY <2>1, <2>2 DEF Call
  <2> QED
    BY <2>2, <2>3
<1>0. /\ cl \in here /\ call' = [call EXCEPT ![cl] = z]
      /\ up' = [up EXCEPT ![cl] = Append(up[cl], x)]
      /\ UNCHANGED <<here, freed, unlisted, down, heldMsgs, deferred, ran, incomplete>>
  BY <1>k, <1>x, <1>z DEF Request
<1>c. /\ call'[cl] = z /\ \A c \in BusClients : c # cl => call'[c] = call[c]
      /\ \A c \in BusClients : call[c].seq \in Nat /\ call'[c].seq \in Nat
                               /\ call[c].seq <= call'[c].seq
  <2>1. \A c \in BusClients : call[c].seq \in Nat
    BY <1>t, SeqType DEF BusTypeOK
  <2>2. /\ call'[cl] = z
        /\ \A c \in BusClients : c # cl => call'[c] = call[c]
    BY <1>0, <1>t DEF BusTypeOK
  <2>3. call'[cl].seq = k /\ call[cl].seq <= k /\ k \in Nat
    BY <1>k, <1>z, <2>1, <2>2
  <2>4. ASSUME NEW c \in BusClients
        PROVE  call[c].seq \in Nat /\ call'[c].seq \in Nat /\ call[c].seq <= call'[c].seq
    BY <2>1, <2>2, <2>3
  <2> QED
    BY <2>2, <2>3, <2>4
<1>u. /\ up'[cl] = Append(up[cl], x) /\ \A c \in BusClients : c # cl => up'[c] = up[c]
      /\ \A c \in BusClients : up[c] \in Seq(UpMsg)
  BY <1>0, <1>t DEF BusTypeOK
<1>n. ~In(up[cl], x) /\ \A m \in Msg : In(up[cl], m) /\ m.type \in Requests => m.seq # k
  <2>1. \A m \in Msg : In(up[cl], m) /\ m.type \in Requests => m.seq <= call[cl].seq
    BY <1>t DEF UpInv
  <2>2. ~(k <= call[cl].seq)
    BY <1>c, <1>k
  <2> QED
    BY <1>x, <2>1, <2>2
<1>i. /\ up'[cl] \in Seq(UpMsg) /\ Single(up'[cl])
      /\ \A m : In(up'[cl], m) <=> In(up[cl], m) \/ m = x
  <2>1. Single(up[cl]) /\ x \in UpMsg
    BY <1>t DEF QueueInv, UpMsg
  <2> QED
    BY <1>n, <1>u, <2>1, Appended
<1>r. \A c, n : Ran(c, n)' = Ran(c, n)
  BY <1>0 DEF Ran
<1>o. \A c \in BusClients, n \in 1 .. MaxCalls, p \in BusObjects :
        (Open(c, n, p)' <=> Open(c, n, p)) /\ (Owing(c, n, p) => Owing(c, n, p)')
  <2>1. \A c, n, p : Open(c, n, p)' <=> Open(c, n, p)
    BY <1>0 DEF Open
  <2>2. \A c \in BusClients : \A m : In(up[c], m) => In(up'[c], m)
    BY <1>i, <1>u
  <2>3. \A p \in BusObjects : OwnerOf[p] \in BusClients
    BY BusAssumption
  <2>4. \A c, n, p : (Known(p)' <=> Known(p)) /\ Asked(c, n, p)' = Asked(c, n, p)
    BY <1>0 DEF Known, Asked, BusMsg
  <2> QED
    BY <1>0, <2>1, <2>2, <2>3, <2>4 DEF Owing
<1>1. BusTypeOK'
  <2>1. up' \in [BusClients -> Seq(UpMsg)]
    BY <1>0, <1>i, <1>t DEF BusTypeOK
  <2>2. call' \in [BusClients -> Call]
    BY <1>0, <1>t DEF BusTypeOK
  <2> QED
    BY <1>0, <1>t, <2>1, <2>2 DEF BusTypeOK
<1>h. ASSUME NEW c \in BusClients, NEW m \in Msg
      PROVE  /\ HasRun(c, m) => HasRun(c, m)'
             /\ IsAsked(c, m) => IsAsked(c, m)'
             /\ m.seq <= call[c].seq => m.seq <= call'[c].seq
  <2>1. \A p \in BusClients : m.seq <= call[p].seq => m.seq <= call'[p].seq
    BY <1>c, SeqType
  <2> QED
    BY <1>r, <2>1 DEF HasRun, IsAsked, Asked
<1>2. UpInv'
  <2> SUFFICES ASSUME NEW c \in BusClients, NEW m \in Msg, In(up'[c], m)
               PROVE  /\ m.type \in Requests =>
                           /\ m.seq <= call'[c].seq /\ m.peer = "none"
                           /\ m.type = "INVOKE" <=> OwnerOf[m.obj] # c
                           /\ \A l \in Msg : In(up'[c], l) /\ l.type \in Requests
                                               /\ l.seq = m.seq => l = m
                      /\ m.type \notin Requests => m.type = "STATUS" /\ HasRun(c, m)'
    BY DEF UpInv
  <2>1. CASE In(up[c], m)
    <3>1. /\ m.type \in Requests =>
               /\ m.seq <= call[c].seq /\ m.peer = "none"
               /\ m.type = "INVOKE" <=> OwnerOf[m.obj] # c
               /\ \A l \in Msg : In(up[c], l) /\ l.type \in Requests /\ l.seq = m.seq => l = m
          /\ m.type \notin Requests => m.type = "STATUS" /\ HasRun(c, m)
      BY <1>t, <2>1 DEF UpInv
    <3>2. ASSUME m.type \in Requests, NEW l \in Msg, In(up'[c], l), l.type \in Requests,
                 l.seq = m.seq
          PROVE  l = m
      <4>1. In(up[c], l)
        BY <1>i, <1>n, <1>u, <1>x, <2>1, <3>2
      <4> QED
        BY <3>1, <3>2, <4>1
    <3> QED
      BY <1>h, <3>1, <3>2
  <2>2. CASE ~In(up[c], m)
    <3>1. c = cl /\ m = x
      BY <1>i, <1>u, <2>2
    <3>2. \A l \in Msg : In(up'[c], l) /\ l.type \in Requests /\ l.seq = k => l = x
      BY <1>i, <1>n, <3>1
    <3>3. x.seq <= call'[cl].seq
      BY <1>c, <1>x, <1>z
    <3> QED
      BY <1>x, <3>1, <3>2, <3>3
  <2> QED
    BY <2>1, <2>2
<1>3. DownInv'
  <2>1. \A c \in BusClients : heldMsgs[c] \subseteq Msg /\ deferred[c] \subseteq Msg
    BY <1>t DEF BusTypeOK
  <2>2. \A m : Asked(m.peer, m.seq, m.obj)' = Asked(m.peer, m.seq, m.obj)
    BY DEF Asked, BusMsg
  <2>3. ASSUME NEW c \in BusClients, NEW m \in Msg, In(down'[c], m)
        PROVE  /\ m.type \notin Requests \ {"INVOKE"} /\ (m.type = "DATA" => m.obj \in freed')
               /\ IF m.type = "INVOKE" THEN IsAsked(c, m)' ELSE m.seq <= call'[c].seq
    <3>1. /\ m.type \notin Requests \ {"INVOKE"} /\ (m.type = "DATA" => m.obj \in freed)
          /\ IF m.type = "INVOKE" THEN IsAsked(c, m) ELSE m.seq <= call[c].seq
      BY <1>0, <1>t, <2>3 DEF DownInv
    <3> QED
      BY <1>0, <1>h, <3>1
  <2>4. ASSUME NEW c \in BusClients, NEW m \in heldMsgs'[c]
        PROVE  m.type = "INVOKE" /\ IsAsked(c, m)' /\ ~In(down'[c], m)
    <3>0. m \in heldMsgs[c] /\ down' = down
      BY <1>0
    <3>1. m.type = "INVOKE" /\ IsAsked(c, m) /\ ~In(down[c], m) /\ m \in Msg
      BY <1>t, <2>1, <3>0 DEF DownInv
    <3> QED
      BY <1>h, <3>0, <3>1
  <2>5. ASSUME NEW c \in BusClients, NEW m \in deferred'[c]
        PROVE  m = Asked(m.peer, m.seq, m.obj)' /\ HasRun(c, m)'
    <3>0. m \in deferred[c]
      BY <1>0
    <3>1. m = Asked(m.peer, m.seq, m.obj) /\ HasRun(c, m) /\ m \in Msg
      BY <1>t, <2>1, <3>0 DEF DownInv
    <3> QED
      BY <1>h, <2>2, <3>1
  <2> QED
    BY <2>3, <2>4, <2>5 DEF DownInv
<1>4. QueueInv'
  BY <1>0, <1>c, <1>i, <1>t, <1>u DEF QueueInv
<1>5. RanInv'
  BY <1>0, <1>t DEF RanInv
<1>6. ASSUME NEW c \in BusClients, NEW n \in 1 .. MaxCalls, c # cl \/ n # k
      PROVE  Same(c, n)
  <2>1. \A m \in Msg : m.type \in Requests /\ m.seq = n => (In(up'[c], m) <=> In(up[c], m))
    BY <1>6, <1>i, <1>u, <1>x
  <2> QED
    BY <1>0, <1>o, <1>r, <2>1 DEF Same
<1>7. ASSUME NEW c \in BusClients, NEW n \in 1 .. MaxCalls PROVE FreshOK(c, n)'
  <2>1. CASE c # cl
    BY <1>6, <1>c, <2>1, SameFresh
  <2>2. CASE c = cl
    <3>1. FreshOK(c, n)
      BY DEF BusInv
    <3>2. Untouched(c, n) => Untouched(c, n)'
      BY <1>0, <1>o, <1>r DEF Untouched, NoReply
    <3>3. n > call'[c].seq \/ n = k => n > call[c].seq
      BY <1>c, <1>k, <1>z, <2>2
    <3>4. n # k => (Unread(c, n)' <=> Unread(c, n))
      BY <1>6, <1>t, SameKeeps
    <3> QED
      BY <3>1, <3>2, <3>3, <3>4 DEF FreshOK
  <2> QED
    BY <2>1, <2>2
<1>8. ASSUME NEW c \in BusClients PROVE WaitsOK(c)' /\ EndOK(c)'
  <2>1. CASE c # cl
    <3>1. call[c].seq > 0 => call[c].seq \in 1 .. MaxCalls
      BY <1>t, BusAssumption DEF BusTypeOK, Call
    <3> QED
      BY <1>6, <1>c, <2>1, <3>1, SameWaits
  <2>2. CASE c = cl
    <3>1. In(up'[cl], x) /\ x.seq = k /\ x.type \in Requests
      BY <1>i, <1>x
    <3>2. Sent(cl, k)'
      BY <1>c, <1>x, <1>z, <3>1 DEF Sent
    <3>3. k > 0
      OBVIOUS
    <3> QED
      BY <1>c, <1>z, <2>2, <3>2, <3>3 DEF WaitsOK, EndOK, Waits
  <2> QED
    BY <2>1, <2>2
<1> QED
  BY <1>1, <1>2, <1>3, <1>4, <1>5, <1>7, <1>8 DEF BusInv

\* A client that gives up only stops waiting.
LEMMA GiveUpKeeps ==
  ASSUME BusInv, NEW cl \in BusClients, GiveUp(cl)
  PROVE  BusInv'
<1>t. BusTypeOK /\ UpInv /\ DownInv /\ QueueInv /\ RanInv
  BY DEF BusInv
<1>z. PICK z \in Call : /\ call' = [call EXCEPT ![cl] = z] /\ z.seq = call[cl].seq
                        /\ z.st = "timeout"
  <2>1. PICK z : z = [call[cl] EXCEPT !.st = "timeout", !.want = {}]
    OBVIOUS
  <2>2. call[cl] \in Call
    BY <1>t DEF BusTypeOK
  <2>3. z \in Call /\ z.seq = call[cl].seq /\ z.st = "timeout"
    BY <2>1, <2>2 DEF Call
  <2>4. call' = [call EXCEPT ![cl] = z]
    BY <1>t, <2>1 DEF GiveUp, BusTypeOK
  <2> QED
    BY <2>3, <2>4
<1>0. /\ call[cl].st = "waiting"
      /\ UNCHANGED <<here, freed, unlisted, up, down, heldMsgs, deferred, ran, incomplete>>
  BY DEF GiveUp, Waits
<1>1. /\ call'[cl] = z /\ \A c \in BusClients : c # cl => call'[c] = call[c]
      /\ \A c \in BusClients : call'[c].seq = call[c].seq
  BY <1>t, <1>z DEF BusTypeOK
<1>2. BusTypeOK'
  BY <1>0, <1>t, <1>z DEF BusTypeOK
<1>r. \A c, n : Ran(c, n)' = Ran(c, n)
  BY <1>0 DEF Ran
<1>o. \A c, n, p : (Open(c, n, p)' <=> Open(c, n, p)) /\ (Owing(c, n, p)' <=> Owing(c, n, p))
  <2>1. \A c, n, p : Open(c, n, p)' <=> Open(c, n, p)
    BY <1>0 DEF Open
  <2>2. \A c, n, p : (Known(p)' <=> Known(p)) /\ Asked(c, n, p)' = Asked(c, n, p)
    BY <1>0 DEF Known, Asked, BusMsg
  <2> QED
    BY <1>0, <2>1, <2>2 DEF Owing
<1>3. UpInv'
  BY <1>0, <1>1, <1>r, <1>t, UpKeeps
<1>4. DownInv'
  BY <1>0, <1>1, <1>r, <1>t, DownKeeps
<1>5. QueueInv' /\ RanInv'
  <2>1. cl \in here
    BY <1>0, <1>t DEF QueueInv
  <2> QED
    BY <1>0, <1>1, <1>t, <2>1 DEF QueueInv, RanInv
<1>6. \A c \in BusClients, n \in 1 .. MaxCalls : Same(c, n)
  BY <1>0, <1>o, <1>r DEF Same
<1>7. \A c \in BusClients, n \in 1 .. MaxCalls : FreshOK(c, n)'
  BY <1>1, <1>6, SameFresh
<1>8. ASSUME NEW c \in BusClients PROVE WaitsOK(c)' /\ EndOK(c)'
  <2>1. CASE c # cl
    <3>1. call[c].seq > 0 => call[c].seq \in 1 .. MaxCalls
      BY <1>t, BusAssumption DEF BusTypeOK, Call
    <3> QED
      BY <1>6, <1>1, <2>1, <3>1, SameWaits
  <2>2. CASE c = cl
    BY <1>1, <1>z, <2>2 DEF WaitsOK, EndOK, Waits
  <2> QED
    BY <2>1, <2>2
<1> QED
  BY <1>2, <1>3, <1>4, <1>5, <1>7, <1>8 DEF BusInv

\* A message that is no reply leaves its request where it is: the data of a removal is
\* of no request, and one to handle is put aside.
LEMMA NoReplyTaken ==
  ASSUME BusInv, NEW cl \in BusClients, cl \in here, down[cl] # <<>>,
         NEW m, m = Head(down[cl]), m.type \notin {"STATUS", "NOT_FOUND"},
         down' = [down EXCEPT ![cl] = Tail(down[cl])],
         heldMsgs' = IF m.type = "INVOKE" THEN [heldMsgs EXCEPT ![cl] = heldMsgs[cl] \union {m}]
                     ELSE heldMsgs,
         unlisted' \subseteq freed, UNCHANGED <<here, freed, up, call, deferred, ran, incomplete>>
  PROVE  BusInv'
<1>t. BusTypeOK /\ UpInv /\ DownInv /\ QueueInv /\ RanInv
  BY DEF BusInv
<1>q. \A c \in BusClients : down[c] \in Seq(Msg) /\ heldMsgs[c] \subseteq Msg
  BY <1>t DEF BusTypeOK
<1>m. m \in Msg
  BY <1>q, Taken
<1>d. /\ down'[cl] = Tail(down[cl]) /\ \A c \in BusClients : c # cl => down'[c] = down[c]
      /\ heldMsgs'[cl] = IF m.type = "INVOKE" THEN heldMsgs[cl] \union {m} ELSE heldMsgs[cl]
      /\ \A c \in BusClients : c # cl => heldMsgs'[c] = heldMsgs[c]
  BY <1>t DEF BusTypeOK
<1>i. /\ down'[cl] \in Seq(Msg) /\ Single(down'[cl])
      /\ m.type = "INVOKE" => ~In(down'[cl], m)
      /\ \A x : In(down[cl], x) <=> x = m \/ In(down'[cl], x)
  <2>1. Single(down[cl]) /\ (m.type = "INVOKE" => m.type \in Requests)
    BY <1>t DEF QueueInv, Requests
  <2> QED
    BY <1>d, <1>q, <2>1, Taken
<1>r. \A c, n : Ran(c, n)' = Ran(c, n)
  BY DEF Ran
<1>o. ASSUME NEW c, NEW n, NEW p \in BusObjects
      PROVE  Open(c, n, p)' <=> Open(c, n, p)
  <2>1. PICK w \in BusClients : w = OwnerOf[p]
    BY BusAssumption
  <2>2. PICK y : y = Asked(c, n, p)
    OBVIOUS
  <2>5. y.type = "INVOKE"
    BY <2>2 DEF Asked, BusMsg
  <2>3. In(down'[w], y) \/ y \in heldMsgs'[w] <=> In(down[w], y) \/ y \in heldMsgs[w]
    BY <1>d, <1>i, <2>5
  <2>4. Asked(c, n, p)' = y
    BY <2>2 DEF Asked, BusMsg
  <2> QED
    BY <2>1, <2>2, <2>3, <2>4 DEF Open
<1>1. BusTypeOK'
  <2>1. down' \in [BusClients -> Seq(Msg)]
    BY <1>d, <1>i, <1>t DEF BusTypeOK
  <2>2. heldMsgs' \in [BusClients -> SUBSET Msg]
    BY <1>m, <1>t DEF BusTypeOK
  <2> QED
    BY <1>t, <2>1, <2>2 DEF BusTypeOK
<1>2. UpInv'
  BY <1>r, <1>t, UpKeeps
<1>3. DownInv'
  <2>1. \A c \in BusClients : \A x \in Msg : In(down'[c], x) => In(down[c], x)
    BY <1>d, <1>i
  <2>2. ASSUME NEW c \in BusClients, NEW x \in heldMsgs'[c]
        PROVE  x \in heldMsgs[c] \/ (In(down[c], x) /\ ~In(down'[c], x) /\ x.type = "INVOKE")
    BY <1>d, <1>i
  <2> QED
    BY <1>r, <1>t, <2>1, <2>2, DownKeeps
<1>4. QueueInv' /\ RanInv'
  BY <1>d, <1>i, <1>t DEF QueueInv, RanInv
<1>5. ASSUME NEW c \in BusClients, NEW n \in 1 .. MaxCalls PROVE Same(c, n)
  <2>1. /\ \A x : IsReply(x, n) => (In(down'[c], x) <=> In(down[c], x))
        /\ \A x, objs : BeginsWith(down[c], n, x, objs) => BeginsWith(down'[c], n, x, objs)
    <3>1. PICK q, p : q \in Seq(Msg) /\ q = down[c] /\ p = down'[c]
      BY <1>q
    <3>2. p = q \/ (q # <<>> /\ p = Tail(q) /\ ~IsReply(Head(q), n))
      BY <1>d, <3>1 DEF IsReply
    <3>3. /\ \A x : IsReply(x, n) => (In(p, x) <=> In(q, x))
          /\ \A x, objs : BeginsWith(q, n, x, objs) => BeginsWith(p, n, x, objs)
      BY <3>1, <3>2, QuietQueue
    <3> QED
      BY <3>1, <3>3
  <2>2. \A p \in BusObjects : Owing(c, n, p) => Owing(c, n, p)'
    <3>1. \A p \in BusObjects : IsReply(BusMsg("STATUS", p, p, n), n)
      BY DEF IsReply, BusMsg
    <3>2. \A p : (Known(p)' <=> Known(p)) /\ Asked(c, n, p)' = Asked(c, n, p)
      BY DEF Known, Asked, BusMsg
    <3> QED
      BY <1>o, <2>1, <3>1, <3>2 DEF Owing
  <2> QED
    BY <1>o, <1>r, <2>1, <2>2 DEF Same
<1> QED
  BY <1>1, <1>2, <1>3, <1>4, <1>5, NoneTouched

\* A request is put aside, and an object is no longer listed once the daemon has
\* removed it.
LEMMA ReceiveKeeps ==
  ASSUME BusInv, NEW cl \in BusClients, ReceiveInvoke(cl) \/ ubus_remove_object_cb(cl)
  PROVE  BusInv'
<1>t. BusTypeOK /\ DownInv
  BY DEF BusInv
<1>1. CASE ReceiveInvoke(cl)
  <2>1. unlisted' \subseteq freed
    BY <1>1, <1>t DEF BusTypeOK, ReceiveInvoke
  <2>2. /\ cl \in here /\ down[cl] # <<>> /\ Head(down[cl]).type = "INVOKE"
        /\ down' = [down EXCEPT ![cl] = Tail(down[cl])]
        /\ heldMsgs' = [heldMsgs EXCEPT ![cl] = heldMsgs[cl] \union {Head(down[cl])}]
        /\ UNCHANGED <<here, freed, up, call, deferred, ran, incomplete>>
    BY <1>1 DEF ReceiveInvoke
  <2> QED
    BY <2>1, <2>2, NoReplyTaken
<1>2. CASE ubus_remove_object_cb(cl)
  <2>1. /\ cl \in here /\ down[cl] # <<>> /\ Head(down[cl]).type = "DATA"
        /\ down' = [down EXCEPT ![cl] = Tail(down[cl])] /\ heldMsgs' = heldMsgs
        /\ UNCHANGED <<here, freed, up, call, deferred, ran, incomplete>>
        /\ unlisted' = unlisted \/ unlisted' = unlisted \union {Head(down[cl]).obj}
    BY <1>2 DEF ubus_remove_object_cb
  <2>2. Head(down[cl]) \in Msg /\ In(down[cl], Head(down[cl]))
    <3>1. down[cl] \in Seq(Msg)
      BY <1>t DEF BusTypeOK
    <3> QED
      BY <2>1, <3>1, Taken
  <2>3. unlisted' \subseteq freed
    <3>1. Head(down[cl]).obj \in freed
      BY <1>t, <2>1, <2>2 DEF DownInv
    <3>2. unlisted \subseteq freed
      BY <1>t DEF BusTypeOK
    <3> QED
      BY <2>1, <3>1, <3>2
  <2> QED
    BY <2>1, <2>3, NoReplyTaken
<1> QED
  BY <1>1, <1>2

\* What an answer at the end of a queue of the daemon changes.
LEMMA UpAppended ==
  ASSUME BusTypeOK, QueueInv, NEW cl \in BusClients, NEW y \in UpMsg, y.type \notin Requests,
         up' = [up EXCEPT ![cl] = Append(up[cl], y)]
  PROVE  /\ up' \in [BusClients -> Seq(UpMsg)]
         /\ \A c \in BusClients :
              /\ Single(up'[c]) /\ (c # cl => up'[c] = up[c])
              /\ \A x : In(up'[c], x) <=> In(up[c], x) \/ (c = cl /\ x = y)
<1>1. /\ up'[cl] = Append(up[cl], y) /\ \A c \in BusClients : c # cl => up'[c] = up[c]
      /\ up[cl] \in Seq(UpMsg) /\ \A c \in BusClients : Single(up[c])
  BY DEF BusTypeOK, QueueInv
<1>2. /\ up'[cl] \in Seq(UpMsg) /\ Single(up'[cl])
      /\ \A x : In(up'[cl], x) <=> In(up[cl], x) \/ x = y
  BY <1>1, Appended
<1>3. up' \in [BusClients -> Seq(UpMsg)]
  BY <1>1, <1>2 DEF BusTypeOK
<1> QED
  BY <1>1, <1>2, <1>3

\* A request for an object that is no longer listed is answered to nobody: the object
\* it was for is gone.
LEMMA RefuseKeeps ==
  ASSUME BusInv, NEW cl \in BusClients, cl \in here, NEW m \in heldMsgs[cl], m.obj \in unlisted,
         heldMsgs' = [heldMsgs EXCEPT ![cl] = heldMsgs[cl] \ {m}],
         up' = [up EXCEPT ![cl] = Append(up[cl], ZeroedAnswer)],
         UNCHANGED <<here, freed, unlisted, down, call, deferred, ran, incomplete>>
  PROVE  BusInv'
<1>t. BusTypeOK /\ UpInv /\ DownInv /\ QueueInv /\ RanInv
  BY DEF BusInv
<1>u. /\ up' \in [BusClients -> Seq(UpMsg)]
      /\ \A c \in BusClients :
           /\ Single(up'[c]) /\ (c # cl => up'[c] = up[c])
           /\ \A x : In(up'[c], x) <=> In(up[c], x) \/ (c = cl /\ x = ZeroedAnswer)
  <2>1. ZeroedAnswer \in UpMsg /\ ZeroedAnswer.type \notin Requests
    BY Zeroed DEF UpMsg
  <2> QED
    BY <1>t, <2>1, UpAppended
<1>h. /\ heldMsgs' \in [BusClients -> SUBSET Msg] /\ heldMsgs'[cl] = heldMsgs[cl] \ {m}
      /\ \A c \in BusClients : heldMsgs'[c] \subseteq heldMsgs[c]
                               /\ (c # cl => heldMsgs'[c] = heldMsgs[c])
  BY <1>t DEF BusTypeOK
<1>r. \A c, n : Ran(c, n)' = Ran(c, n)
  BY DEF Ran
<1>k. \A c, n, p : (Known(p)' <=> Known(p)) /\ Asked(c, n, p)' = Asked(c, n, p)
  BY DEF Known, Asked, BusMsg
<1>o. ASSUME NEW c, NEW n, NEW b \in BusObjects
      PROVE  /\ Open(c, n, b)' => Open(c, n, b)
             /\ Open(c, n, b) => Open(c, n, b)' \/ ~Known(b)
  <2>1. PICK w \in BusClients : w = OwnerOf[b]
    BY BusAssumption
  <2>2. PICK a : a = Asked(c, n, b)
    OBVIOUS
  <2>3. a = m => ~Known(b)
    <3>1. a.obj = b
      BY <2>2 DEF Asked, BusMsg
    <3> QED
      BY <1>t, <3>1 DEF BusTypeOK, Known
  <2> QED
    BY <1>h, <1>k, <2>1, <2>2, <2>3 DEF Open
<1>w. ASSUME NEW c \in BusClients, NEW n \in 1 .. MaxCalls, NEW b \in BusObjects, Owing(c, n, b)
      PROVE  Owing(c, n, b)'
  <2>1. OwnerOf[b] \in BusClients
    BY BusAssumption
  <2> QED
    BY <1>k, <1>o, <1>u, <1>w, <2>1 DEF Owing
<1>1. BusTypeOK'
  BY <1>h, <1>t, <1>u DEF BusTypeOK
<1>2. UpInv'
  BY <1>r, <1>t, <1>u, UpKeeps, Zeroed
<1>3. DownInv'
  BY <1>h, <1>r, <1>t, DownKeeps
<1>4. QueueInv' /\ RanInv'
  <2>1. ASSUME NEW c \in BusClients, c \notin here PROVE up'[c] = <<>> /\ heldMsgs'[c] = {}
    BY <1>h, <1>t, <1>u, <2>1 DEF QueueInv
  <2> QED
    BY <1>t, <1>u, <2>1 DEF QueueInv, RanInv
<1>5. ASSUME NEW c \in BusClients, NEW n \in 1 .. MaxCalls PROVE Same(c, n)
  <2>1. \A x \in Msg : In(up'[c], x) <=> In(up[c], x)
    BY <1>u, Zeroed
  <2> QED
    BY <1>o, <1>r, <1>w, <2>1 DEF Same
<1> QED
  BY <1>1, <1>2, <1>3, <1>4, <1>5, NoneTouched

\* An answer that was put off is owed by the daemon's queue in the place of its client.
LEMMA CompleteKeeps ==
  ASSUME BusInv, NEW cl \in BusClients, NEW m \in deferred[cl],
         ubus_complete_deferred_request(cl, m)
  PROVE  BusInv'
<1>t. BusTypeOK /\ UpInv /\ DownInv /\ QueueInv /\ RanInv
  BY DEF BusInv
<1>m. m \in Msg /\ m = Asked(m.peer, m.seq, m.obj) /\ HasRun(cl, m)
  BY <1>t DEF BusTypeOK, DownInv
<1>p. PICK p \in BusClients, k \in 1 .. MaxCalls, o \in BusObjects :
        p = m.peer /\ k = m.seq /\ o = m.obj
  BY <1>m DEF Msg, HasRun
<1>y. PICK y \in Msg : /\ y = BusMsg("STATUS", o, p, k) /\ y.type = "STATUS" /\ y.obj = o
                       /\ y.peer = p /\ y.seq = k
  <2>1. PICK t \in MsgTypes, q \in Ids : t = "STATUS" /\ q = p
    BY DEF MsgTypes, Ids
  <2> QED
    BY <2>1, BusMsgType
<1>0. /\ cl \in here /\ deferred' = [deferred EXCEPT ![cl] = deferred[cl] \ {m}]
      /\ up' = [up EXCEPT ![cl] = Append(up[cl], y)]
      /\ UNCHANGED <<here, freed, unlisted, down, call, heldMsgs, ran, incomplete>>
  BY <1>p, <1>y DEF ubus_complete_deferred_request, Answer
<1>u. /\ up' \in [BusClients -> Seq(UpMsg)]
      /\ \A c \in BusClients :
           /\ Single(up'[c]) /\ (c # cl => up'[c] = up[c])
           /\ \A x : In(up'[c], x) <=> In(up[c], x) \/ (c = cl /\ x = y)
  <2>1. y \in UpMsg /\ y.type \notin Requests
    BY <1>y DEF UpMsg, Requests
  <2> QED
    BY <1>0, <1>t, <2>1, UpAppended
<1>h. /\ deferred' \in [BusClients -> SUBSET Msg] /\ deferred'[cl] = deferred[cl] \ {m}
      /\ \A c \in BusClients : deferred'[c] \subseteq deferred[c]
                               /\ (c # cl => deferred'[c] = deferred[c])
  BY <1>0, <1>t DEF BusTypeOK
<1>r. \A c, n : Ran(c, n)' = Ran(c, n)
  BY <1>0 DEF Ran
<1>k. \A c, n, b : (Known(b)' <=> Known(b)) /\ Asked(c, n, b)' = Asked(c, n, b)
  BY <1>0 DEF Known, Asked, BusMsg
<1>o. \A c, n, b : Open(c, n, b)' <=> Open(c, n, b)
  BY <1>0, <1>k DEF Open
<1>w. ASSUME NEW c \in BusClients, NEW n \in 1 .. MaxCalls, NEW b \in BusObjects, Owing(c, n, b)
      PROVE  Owing(c, n, b)'
  <2>1. PICK w \in BusClients : w = OwnerOf[b]
    BY BusAssumption
  <2>2. Asked(c, n, b) = m => BusMsg("STATUS", b, c, n) = y
    BY <1>p, <1>y, AskedType
  <2>3. Asked(c, n, b) \in deferred[w] =>
          Asked(c, n, b) \in deferred'[w] \/ In(up'[w], BusMsg("STATUS", b, c, n))
    <3> SUFFICES ASSUME Asked(c, n, b) \in deferred[w], Asked(c, n, b) \notin deferred'[w]
                 PROVE  In(up'[w], BusMsg("STATUS", b, c, n))
      OBVIOUS
    <3>1. w = cl /\ Asked(c, n, b) = m
      BY <1>h
    <3> QED
      BY <1>u, <2>2, <3>1
  <2>4. In(up[w], BusMsg("STATUS", b, c, n)) => In(up'[w], BusMsg("STATUS", b, c, n))
    BY <1>u
  <2> QED
    BY <1>0, <1>k, <1>o, <1>w, <2>1, <2>3, <2>4 DEF Owing
<1>1. BusTypeOK'
  BY <1>0, <1>h, <1>t, <1>u DEF BusTypeOK
<1>2. UpInv'
  <2>1. HasRun(cl, y) /\ HasRun(cl, y)'
    <3>1. HasRun(cl, y)
      BY <1>m, <1>p, <1>y DEF HasRun
    <3> QED
      BY <1>0, <1>r, <3>1, HasRunKeeps
  <2> QED
    BY <1>0, <1>r, <1>t, <1>u, <1>y, <2>1, UpKeeps
<1>3. DownInv'
  BY <1>0, <1>h, <1>r, <1>t, DownKeeps
<1>4. QueueInv' /\ RanInv'
  <2>1. ASSUME NEW c \in BusClients, c \notin here PROVE up'[c] = <<>>
    BY <1>0, <1>t, <1>u, <2>1 DEF QueueInv
  <2> QED
    BY <1>0, <1>t, <1>u, <2>1 DEF QueueInv, RanInv
<1>5. ASSUME NEW c \in BusClients, NEW n \in 1 .. MaxCalls PROVE Same(c, n)
  <2>1. \A x \in Msg : x.type \in Requests => (In(up'[c], x) <=> In(up[c], x))
    BY <1>u, <1>y DEF Requests
  <2> QED
    BY <1>0, <1>o, <1>r, <1>w, <2>1 DEF Same
<1> QED
  BY <1>0, <1>1, <1>2, <1>3, <1>4, <1>5, NoneTouched

\* A request is handled by the object it was sent to, which then owes its answer to
\* the daemon's queue, or its client does.
LEMMA HandleKeeps ==
  ASSUME BusInv, NEW cl \in BusClients, NEW m \in heldMsgs[cl],
         ubus_process_invoke(cl, m), m.obj \notin unlisted
  PROVE  BusInv'
<1>t. BusTypeOK /\ UpInv /\ DownInv /\ QueueInv /\ RanInv
  BY DEF BusInv
<1>q. \A c \in BusClients : heldMsgs[c] \subseteq Msg /\ deferred[c] \subseteq Msg
  BY <1>t DEF BusTypeOK
<1>m. m \in Msg /\ m.type = "INVOKE" /\ IsAsked(cl, m) /\ ~In(down[cl], m)
  BY <1>q, <1>t DEF DownInv
<1>p. PICK p \in BusClients, k \in 1 .. MaxCalls, o \in BusObjects :
        /\ p = m.peer /\ k = m.seq /\ o = m.obj /\ OwnerOf[o] = cl /\ m = Asked(p, k, o)
        /\ k <= call[p].seq /\ o \notin Ran(p, k) /\ p # cl
  <2>1. m.obj \in BusObjects /\ m.seq \in 1 .. MaxCalls
    BY <1>m DEF Msg
  <2> QED
    BY <1>m, <2>1 DEF IsAsked
<1>y. PICK y \in Msg : /\ y = BusMsg("STATUS", o, p, k) /\ y.type = "STATUS" /\ y.obj = o
                       /\ y.peer = p /\ y.seq = k /\ y = Answer(m)
  <2>1. PICK t \in MsgTypes, q \in Ids : t = "STATUS" /\ q = p
    BY DEF MsgTypes, Ids
  <2>2. PICK y \in Msg : /\ y = BusMsg("STATUS", o, p, k) /\ y.type = "STATUS" /\ y.obj = o
                         /\ y.peer = p /\ y.seq = k
    BY <2>1, BusMsgType
  <2>3. y = Answer(m)
    BY <1>p, <2>2 DEF Answer
  <2> QED
    BY <2>2, <2>3
<1>0. /\ cl \in here /\ heldMsgs' = [heldMsgs EXCEPT ![cl] = heldMsgs[cl] \ {m}]
      /\ UNCHANGED <<here, freed, unlisted, down, call, incomplete>>
  BY DEF ubus_process_invoke
<1>z. /\ ran' = [ran EXCEPT ![p] = [ran[p] EXCEPT ![k] = Append(ran[p][k], o)]]
      /\ \/ up' = [up EXCEPT ![cl] = Append(up[cl], y)] /\ UNCHANGED deferred
         \/ deferred' = [deferred EXCEPT ![cl] = deferred[cl] \union {m}] /\ UNCHANGED up
  BY <1>p, <1>y DEF ubus_process_invoke
<1>h. /\ heldMsgs' \in [BusClients -> SUBSET Msg] /\ heldMsgs'[cl] = heldMsgs[cl] \ {m}
      /\ \A c \in BusClients : c # cl => heldMsgs'[c] = heldMsgs[c]
  BY <1>0, <1>t DEF BusTypeOK
<1>u. /\ up' \in [BusClients -> Seq(UpMsg)]
      /\ \A c \in BusClients :
           /\ Single(up'[c]) /\ (c # cl => up'[c] = up[c])
           /\ \A x : In(up[c], x) => In(up'[c], x)
           /\ \A x : In(up'[c], x) => In(up[c], x) \/ (c = cl /\ x = y)
  <2>1. CASE up' = [up EXCEPT ![cl] = Append(up[cl], y)]
    <3>1. y \in UpMsg /\ y.type \notin Requests
      BY <1>y DEF UpMsg, Requests
    <3> QED
      BY <1>t, <2>1, <3>1, UpAppended
  <2>2. CASE up' = up
    BY <1>t, <2>2 DEF BusTypeOK, QueueInv
  <2> QED
    BY <1>z, <2>1, <2>2
<1>f. /\ deferred' \in [BusClients -> SUBSET Msg]
      /\ \A c \in BusClients :
           /\ deferred[c] \subseteq deferred'[c]
           /\ \A x \in deferred'[c] : x \in deferred[c] \/ (c = cl /\ x = m)
  <2>1. CASE deferred' = [deferred EXCEPT ![cl] = deferred[cl] \union {m}]
    BY <1>m, <1>t, <2>1 DEF BusTypeOK
  <2>2. CASE deferred' = deferred
    BY <1>t, <2>2 DEF BusTypeOK
  <2> QED
    BY <1>z, <2>1, <2>2
<1>v. In(up'[cl], y) \/ m \in deferred'[cl]
  <2>1. CASE up' = [up EXCEPT ![cl] = Append(up[cl], y)]
    <3>1. y \in UpMsg /\ y.type \notin Requests
      BY <1>y DEF UpMsg, Requests
    <3> QED
      BY <1>t, <2>1, <3>1, UpAppended
  <2>2. CASE deferred' = [deferred EXCEPT ![cl] = deferred[cl] \union {m}]
    BY <1>t, <2>2 DEF BusTypeOK
  <2> QED
    BY <1>z, <2>1, <2>2
<1>s. PICK s \in Seq(BusObjects) : s = ran[p][k]
  BY <1>t DEF BusTypeOK
<1>e. /\ ran'[p][k] = Append(s, o)
      /\ \A c \in BusClients, n \in 1 .. MaxCalls : c # p \/ n # k => ran'[c][n] = ran[c][n]
  BY <1>s, <1>t, <1>z DEF BusTypeOK
<1>l. PICK l \in Nat : /\ l = Len(s) /\ Len(ran'[p][k]) = l + 1 /\ ran'[p][k][l + 1] = o
                       /\ \A i \in 1 .. l : ran'[p][k][i] = s[i]
  BY <1>e, <1>s, AppendProperties, LenProperties
<1>r. /\ Ran(p, k)' = Ran(p, k) \union {o}
      /\ \A c \in BusClients, n \in 1 .. MaxCalls : c # p \/ n # k => Ran(c, n)' = Ran(c, n)
      /\ \A c \in BusClients, n \in 1 .. MaxCalls : Ran(c, n) \subseteq Ran(c, n)'
  <2>1. \A c \in BusClients, n \in 1 .. MaxCalls : c # p \/ n # k => Ran(c, n)' = Ran(c, n)
    BY <1>e DEF Ran
  <2>2. PICK z : z = ran'[p][k]
    OBVIOUS
  <2>3. {z[i] : i \in 1 .. l + 1} = {s[i] : i \in 1 .. l} \union {o}
    <3>1. \A i \in 1 .. l + 1 : i = l + 1 \/ i \in 1 .. l
      OBVIOUS
    <3>2. l + 1 \in 1 .. l + 1 /\ \A i \in 1 .. l : i \in 1 .. l + 1
      OBVIOUS
    <3> QED
      BY <1>l, <2>2, <3>1, <3>2
  <2>4. Ran(p, k)' = Ran(p, k) \union {o}
    <3>1. Ran(p, k) = {s[i] : i \in 1 .. l}
      BY <1>l, <1>s DEF Ran
    <3>2. Ran(p, k)' = {z[i] : i \in 1 .. l + 1}
      <4>1. Ran(p, k)' = {z[i] : i \in 1 .. Len(z)}
        BY <2>2 DEF Ran
      <4> QED
        BY <1>l, <2>2, <4>1
    <3> QED
      BY <2>3, <3>1, <3>2
  <2> QED
    BY <2>1, <2>4
<1>o. ASSUME NEW c \in BusClients, NEW n \in 1 .. MaxCalls, NEW b \in BusObjects
      PROVE  /\ Open(c, n, b)' => Open(c, n, b)
             /\ Open(c, n, b) /\ (c # p \/ n # k \/ b # o) => Open(c, n, b)'
  <2>1. PICK w \in BusClients : w = OwnerOf[b]
    BY BusAssumption
  <2>2. PICK a : a = Asked(c, n, b)
    OBVIOUS
  <2>3. a = m => c = p /\ n = k /\ b = o
    BY <1>p, <2>2 DEF Asked, BusMsg
  <2>4. /\ In(down'[w], a) \/ a \in heldMsgs'[w] => In(down[w], a) \/ a \in heldMsgs[w]
        /\ a # m /\ (In(down[w], a) \/ a \in heldMsgs[w]) => In(down'[w], a) \/ a \in heldMsgs'[w]
    BY <1>0, <1>h
  <2>5. Asked(c, n, b)' = a
    BY <2>2 DEF Asked, BusMsg
  <2> QED
    BY <2>1, <2>2, <2>3, <2>4, <2>5 DEF Open
<1>a. \A c, n, b : (Known(b)' <=> Known(b)) /\ Asked(c, n, b)' = Asked(c, n, b)
  BY <1>0 DEF Known, Asked, BusMsg
<1>w. ASSUME NEW c \in BusClients, NEW n \in 1 .. MaxCalls, NEW b \in BusObjects, Owing(c, n, b)
      PROVE  Owing(c, n, b)'
  <2>1. PICK w \in BusClients : w = OwnerOf[b]
    BY BusAssumption
  <2>2. /\ In(up[w], BusMsg("STATUS", b, c, n)) => In(up'[w], BusMsg("STATUS", b, c, n))
        /\ deferred[w] \subseteq deferred'[w]
    BY <1>f, <1>u
  <2>3. CASE c # p \/ n # k \/ b # o
    BY <1>0, <1>a, <1>o, <1>w, <2>1, <2>2, <2>3 DEF Owing
  <2>4. CASE c = p /\ n = k /\ b = o
    BY <1>a, <1>p, <1>v, <1>y, <2>4 DEF Owing
  <2> QED
    BY <2>3, <2>4
<1>1. BusTypeOK'
  <2>1. ran' \in [BusClients -> [1 .. MaxCalls -> Seq(BusObjects)]]
    <3>1. Append(s, o) \in Seq(BusObjects)
      BY AppendProperties
    <3> QED
      BY <1>s, <1>t, <1>z, <3>1 DEF BusTypeOK
  <2> QED
    BY <1>0, <1>f, <1>h, <1>t, <1>u, <2>1 DEF BusTypeOK
<1>x. HasRun(cl, y)' /\ HasRun(cl, m)'
  <2>1. o \in Ran(p, k)'
    BY <1>r
  <2> QED
    BY <1>0, <1>p, <1>y, <2>1 DEF HasRun
<1>2. UpInv'
  BY <1>0, <1>r, <1>t, <1>u, <1>x, <1>y, UpKeeps
<1>3. DownInv'
  <2>0. ASSUME NEW c \in BusClients, NEW x \in Msg, IsAsked(c, x), x # m
        PROVE  IsAsked(c, x)'
    <3>1. PICK d \in BusClients, n \in 1 .. MaxCalls, b \in BusObjects :
            /\ d = x.peer /\ n = x.seq /\ b = x.obj /\ x = Asked(d, n, b)
            /\ n <= call[d].seq /\ b \notin Ran(d, n) /\ OwnerOf[b] = c /\ d # c
      <4>1. x.obj \in BusObjects /\ x.seq \in 1 .. MaxCalls
        BY DEF Msg
      <4> QED
        BY <2>0, <4>1 DEF IsAsked
    <3>2. d # p \/ n # k \/ b # o
      BY <1>p, <2>0, <3>1
    <3>3. b \notin Ran(d, n)'
      BY <1>r, <3>1, <3>2
    <3> QED
      BY <1>0, <1>a, <3>1, <3>3 DEF IsAsked
  <2>1. ASSUME NEW c \in BusClients, NEW x \in Msg, In(down'[c], x)
        PROVE  /\ x.type \notin Requests \ {"INVOKE"} /\ (x.type = "DATA" => x.obj \in freed')
               /\ IF x.type = "INVOKE" THEN IsAsked(c, x)' ELSE x.seq <= call'[c].seq
    <3>1. /\ x.type \notin Requests \ {"INVOKE"} /\ (x.type = "DATA" => x.obj \in freed)
          /\ IF x.type = "INVOKE" THEN IsAsked(c, x) ELSE x.seq <= call[c].seq
      BY <1>0, <1>t, <2>1 DEF DownInv
    <3>2. x.type = "INVOKE" => x # m
      <4> SUFFICES ASSUME x.type = "INVOKE", x = m PROVE FALSE
        OBVIOUS
      <4>1. c = cl
        BY <1>p, <3>1 DEF IsAsked
      <4> QED
        BY <1>0, <1>m, <2>1, <4>1
    <3> QED
      BY <1>0, <2>0, <3>1, <3>2
  <2>2. ASSUME NEW c \in BusClients, NEW x \in heldMsgs'[c]
        PROVE  x.type = "INVOKE" /\ IsAsked(c, x)' /\ ~In(down'[c], x)
    <3>1. x \in heldMsgs[c] /\ x \in Msg
      BY <1>h, <1>q
    <3>2. x.type = "INVOKE" /\ IsAsked(c, x) /\ ~In(down[c], x)
      BY <1>t, <3>1 DEF DownInv
    <3>3. x # m
      BY <1>h, <1>p, <3>2 DEF IsAsked
    <3> QED
      BY <1>0, <2>0, <3>1, <3>2, <3>3
  <2>3. ASSUME NEW c \in BusClients, NEW x \in deferred'[c]
        PROVE  x = Asked(x.peer, x.seq, x.obj) /\ HasRun(c, x)'
    <3>1. CASE x \in deferred[c]
      <4>1. x \in Msg /\ x = Asked(x.peer, x.seq, x.obj) /\ HasRun(c, x)
        BY <1>q, <1>t, <3>1 DEF DownInv
      <4> QED
        BY <1>0, <1>r, <4>1, HasRunKeeps
    <3>2. CASE x \notin deferred[c]
      BY <1>f, <1>p, <1>x, <3>2
    <3> QED
      BY <3>1, <3>2
  <2> QED
    BY <1>a, <2>1, <2>2, <2>3 DEF DownInv
<1>4. QueueInv'
  <2>1. ASSUME NEW c \in BusClients, c \notin here PROVE up'[c] = <<>> /\ heldMsgs'[c] = {}
    BY <1>0, <1>h, <1>t, <1>u, <2>1 DEF QueueInv
  <2> QED
    BY <1>0, <1>t, <1>u, <2>1 DEF QueueInv
<1>5. RanInv'
  <2> SUFFICES ASSUME NEW c \in BusClients, NEW n \in 1 .. MaxCalls,
                      NEW i \in 1 .. Len(ran'[c][n]), NEW j \in 1 .. Len(ran'[c][n]),
                      ran'[c][n][i] = ran'[c][n][j]
               PROVE  i = j
    BY DEF RanInv
  <2>1. CASE c # p \/ n # k
    BY <1>e, <1>t, <2>1 DEF RanInv
  <2>2. CASE c = p /\ n = k
    <3>1. \A a, b \in 1 .. l : s[a] = s[b] => a = b
      BY <1>l, <1>s, <1>t DEF RanInv
    <3>2. ASSUME NEW a \in 1 .. l PROVE s[a] # o
      <4>1. o \notin Ran(p, k)
        BY <1>p
      <4>2. s[a] = ran[p][k][a] /\ a \in 1 .. Len(ran[p][k])
        BY <1>l, <1>s
      <4>3. s[a] \in Ran(p, k)
        BY <4>2 DEF Ran
      <4> QED
        BY <4>1, <4>3
    <3>3. (i \in 1 .. l \/ i = l + 1) /\ (j \in 1 .. l \/ j = l + 1)
      <4>1. ran'[c][n] = ran'[p][k]
        BY <2>2
      <4>2. Len(ran'[c][n]) = l + 1 /\ l \in Nat
        BY <1>l, <4>1
      <4> QED
        BY <4>2
    <3> QED
      BY <1>l, <2>2, <3>1, <3>2, <3>3
  <2> QED
    BY <2>1, <2>2
<1>n. \A c \in BusClients, x \in Msg : x.type \in Requests => (In(up'[c], x) <=> In(up[c], x))
  <2>1. y.type \notin Requests
    BY <1>y DEF Requests
  <2> QED
    BY <1>u, <1>y, <2>1
<1>6. ASSUME NEW c \in BusClients, NEW n \in 1 .. MaxCalls, c # p \/ n # k
      PROVE  Same(c, n)
  <2>1. Ran(c, n)' = Ran(c, n)
    BY <1>6, <1>r
  <2> QED
    BY <1>0, <1>n, <1>o, <1>w, <2>1 DEF Same
<1>7. Open(p, k, o) /\ ~Unread(p, k) /\ ~Unread(p, k)'
  <2>1. Open(p, k, o)
    BY <1>p DEF Open
  <2>2. FreshOK(p, k)
    BY DEF BusInv
  <2>3. ~Unread(p, k)
    BY <2>1, <2>2 DEF FreshOK, Untouched
  <2> QED
    BY <1>n, <2>1, <2>3 DEF Unread
<1>8. FreshOK(p, k)'
  <2>1. ~(k > call[p].seq)
    <3>1. call[p].seq \in Nat
      BY <1>t, SeqType DEF BusTypeOK
    <3> QED
      BY <1>p, <3>1
  <2> QED
    BY <1>0, <1>7, <2>1 DEF FreshOK
<1>9. ASSUME call[p].seq = k PROVE WaitsOK(p)' /\ EndOK(p)'
  <2>1. WaitsOK(p) /\ EndOK(p)
    BY DEF BusInv
  <2>2. EndOK(p)'
    BY <1>0, <1>7, <1>9, <2>1 DEF EndOK
  <2>3. \A objs \in SUBSET BusObjects : With(p, k, objs) => With(p, k, objs)'
    BY <1>7, <1>o, <1>r DEF With
  <2>4. ASSUME Listed(p, k) PROVE Listed(p, k)'
    <3>1. PICK x \in Msg :
            /\ BeginsWith(down[p], k, x, Ran(p, k)) /\ (x.type = "NOT_FOUND" => call[p].type = "NOTIFY")
            /\ call[p].want = {x.peer} /\ call[p].asked = {}
            /\ With(p, k, Range(x.subs)) /\ \A b \in Range(x.subs) : Owing(p, k, b)
      BY <2>4 DEF Listed
    <3>2. PICK objs \in SUBSET BusObjects : objs = Range(x.subs)
      BY SubsType
    <3>3. BeginsWith(down'[p], k, x, Ran(p, k)')
      BY <1>0, <1>r, <3>1, BeginsMeans
    <3>4. With(p, k, objs)' /\ \A b \in objs : Owing(p, k, b)'
      BY <1>w, <2>3, <3>1, <3>2
    <3> QED
      BY <1>0, <3>1, <3>2, <3>3, <3>4 DEF Listed
  <2>5. ASSUME Forwarding(p, k) PROVE Forwarding(p, k)'
    <3>1. PICK objs \in SUBSET BusObjects : objs = call[p].asked
      BY <1>t DEF BusTypeOK, Call
    <3>2. With(p, k, objs)'
      BY <2>3, <2>5, <3>1 DEF Forwarding
    <3>3. \A b \in call[p].want : Owing(p, k, b)'
      BY <1>w, <2>5, <3>1 DEF Forwarding
    <3>4. \A x \in Msg : In(down[p], x) /\ IsReply(x, k) => ByHandler(x, Ran(p, k)')
      BY <1>r, <2>5 DEF Forwarding, ByHandler
    <3>5. /\ call[p].want \subseteq call[p].asked /\ call[p].want # {}
          /\ call[p].asked \ call[p].want \subseteq Ran(p, k)'
      BY <1>r, <2>5 DEF Forwarding
    <3> QED
      BY <1>0, <3>1, <3>2, <3>3, <3>4, <3>5 DEF Forwarding
  <2>6. ASSUME Unanswered(p, k) PROVE Unanswered(p, k)'
    <3>1. PICK objs \in SUBSET BusObjects : objs \intersect call[p].want = {} /\ With(p, k, objs)
      BY <2>6 DEF Unanswered
    <3>2. With(p, k, objs)'
      BY <2>3, <3>1
    <3>3. \A x \in Msg : In(down[p], x) /\ IsReply(x, k) => ByHandler(x, Ran(p, k)')
      BY <1>r, <2>6 DEF Unanswered, ByHandler
    <3> QED
      BY <1>0, <2>6, <3>1, <3>2, <3>3 DEF Unanswered
  <2>7. ASSUME Waits(p) PROVE Placed(p, k)' /\ k > 0
    <3>1. ~Sent(p, k)
      BY <1>7 DEF Sent, Unread
    <3>2. ~NotFound(p, k)
      BY <1>7 DEF NotFound
    <3>3. Placed(p, k) /\ k > 0
      BY <1>9, <2>1, <2>7, <3>1 DEF WaitsOK
    <3>4. Listed(p, k) \/ Forwarding(p, k) \/ Unanswered(p, k)
      BY <3>2, <3>3 DEF Placed
    <3> QED
      BY <2>4, <2>5, <2>6, <3>3, <3>4 DEF Placed
  <2>8. WaitsOK(p)'
    BY <1>0, <1>7, <1>9, <2>7 DEF WaitsOK, Waits
  <2> QED
    BY <2>2, <2>8
<1> QED
  BY <1>0, <1>1, <1>2, <1>3, <1>4, <1>5, <1>6, <1>8, <1>9, OneTouched

\* An object that is sent a request has not handled it yet.
LEMMA OpenNotRan ==
  ASSUME BusInv, NEW c \in BusClients, NEW n \in 1 .. MaxCalls, NEW o \in BusObjects,
         Open(c, n, o)
  PROVE  o \notin Ran(c, n) /\ n <= call[c].seq
<1>1. PICK w \in BusClients : w = OwnerOf[o]
  BY BusAssumption
<1>2. PICK a \in Msg : /\ a = Asked(c, n, o) /\ a.type = "INVOKE" /\ a.obj = o
                       /\ a.peer = c /\ a.seq = n
  BY AskedType
<1>3. In(down[w], a) \/ a \in heldMsgs[w]
  BY <1>1, <1>2 DEF Open
<1>4. IsAsked(w, a)
  BY <1>2, <1>3 DEF BusInv, DownInv
<1> QED
  BY <1>2, <1>4 DEF IsAsked


\* What the client does with a request leaves the bus as it should be.
LEMMA ProcessKeeps ==
  ASSUME BusInv, NEW cl \in BusClients, NEW m \in heldMsgs[cl], ubus_process_invoke(cl, m)
  PROVE  BusInv'
<1>1. CASE m.obj \in unlisted
  BY <1>1, RefuseKeeps DEF ubus_process_invoke
<1>2. CASE m.obj \notin unlisted
  BY <1>2, HandleKeeps
<1> QED
  BY <1>1, <1>2

\* An answer reaches the client that waits for it, or a late one is dropped.
LEMMA ReceiveStatusKeeps ==
  ASSUME BusInv, NEW cl \in BusClients, ReceiveStatus(cl)
  PROVE  BusInv'
<1>t. BusTypeOK /\ UpInv /\ DownInv /\ QueueInv /\ RanInv
  BY DEF BusInv
<1>q. \A c \in BusClients : down[c] \in Seq(Msg) /\ heldMsgs[c] \subseteq Msg
  BY <1>t DEF BusTypeOK
<1>m. PICK m \in Msg : m = Head(down[cl])
  BY <1>q, Taken DEF ReceiveStatus
<1>k. PICK k \in 1 .. MaxCalls : k = m.seq
  BY SeqType
<1>0. /\ down[cl] # <<>> /\ m.type \in {"STATUS", "NOT_FOUND"} /\ cl \in here
      /\ call' = IF Waits(cl) /\ k = call[cl].seq /\ m.peer \in call[cl].want
                 THEN [call EXCEPT ![cl] = Answered(call[cl], m)] ELSE call
      /\ down' = [down EXCEPT ![cl] = Tail(down[cl])]
      /\ UNCHANGED <<here, freed, unlisted, up, heldMsgs, deferred, ran, incomplete>>
  BY <1>k, <1>m DEF ReceiveStatus
<1>d. down'[cl] = Tail(down[cl]) /\ \A c \in BusClients : c # cl => down'[c] = down[c]
  BY <1>0, <1>t DEF BusTypeOK
<1>i. /\ down'[cl] \in Seq(Msg) /\ Single(down'[cl])
      /\ \A x : In(down[cl], x) <=> x = m \/ In(down'[cl], x)
  <2>1. Single(down[cl])
    BY <1>t DEF QueueInv
  <2> QED
    BY <1>0, <1>d, <1>m, <1>q, <2>1, Taken
<1>b. IsReply(m, k) /\ In(down[cl], m)
  BY <1>0, <1>i, <1>k DEF IsReply
<1>c. call[cl] \in Call
  BY <1>t DEF BusTypeOK
<1>z. PICK z \in Call :
        /\ call' = [call EXCEPT ![cl] = z] /\ z.seq = call[cl].seq
        /\ ~(Waits(cl) /\ k = call[cl].seq /\ m.peer \in call[cl].want) => z = call[cl]
        /\ Waits(cl) /\ k = call[cl].seq /\ m.peer \in call[cl].want =>
             IF m.type = "NOT_FOUND" /\ call[cl].type # "NOTIFY" THEN z.st = "notfound"
             ELSE LET left == (call[cl].want \ {m.peer}) \union Range(m.subs)
                  IN  /\ z.want = left /\ z.asked = call[cl].asked \union Range(m.subs)
                      /\ z.st = IF left = {} THEN "done" ELSE "waiting"
  <2>1. CASE ~(Waits(cl) /\ k = call[cl].seq /\ m.peer \in call[cl].want)
    <3>1. call' = call
      BY <1>0, <2>1
    <3>2. call' = [call EXCEPT ![cl] = call[cl]]
      BY <1>t, <3>1 DEF BusTypeOK
    <3> QED
      BY <1>c, <2>1, <3>2
  <2>2. CASE /\ Waits(cl) /\ k = call[cl].seq /\ m.peer \in call[cl].want
             /\ m.type = "NOT_FOUND" /\ call[cl].type # "NOTIFY"
    <3>1. PICK z : z = [call[cl] EXCEPT !.st = "notfound", !.want = {}]
      OBVIOUS
    <3>2. z \in Call /\ z.st = "notfound" /\ z.seq = call[cl].seq
      BY <1>c, <3>1 DEF Call
    <3>3. Answered(call[cl], m) = z
      BY <2>2, <3>1 DEF Answered
    <3>4. call' = [call EXCEPT ![cl] = z]
      BY <1>0, <2>2, <3>3
    <3> QED
      BY <2>2, <3>2, <3>4
  <2>3. CASE /\ Waits(cl) /\ k = call[cl].seq /\ m.peer \in call[cl].want
             /\ ~(m.type = "NOT_FOUND" /\ call[cl].type # "NOTIFY")
    <3>1. PICK left \in SUBSET (BusObjects \union {"none"}), more \in SUBSET BusObjects :
            /\ left = (call[cl].want \ {m.peer}) \union Range(m.subs)
            /\ more = call[cl].asked \union Range(m.subs)
      <4>1. /\ call[cl].want \in SUBSET (BusObjects \union {"none"})
            /\ call[cl].asked \in SUBSET BusObjects
        BY <1>c DEF Call
      <4> QED
        BY <4>1, SubsType
    <3>2. PICK st \in {"waiting", "done"} : st = IF left = {} THEN "done" ELSE "waiting"
      OBVIOUS
    <3>3. PICK z : z = [call[cl] EXCEPT !.want = left, !.asked = more, !.st = st]
      OBVIOUS
    <3>4. z \in Call /\ z.st = st /\ z.want = left /\ z.asked = more /\ z.seq = call[cl].seq
      BY <1>c, <3>3 DEF Call
    <3>5. Answered(call[cl], m) = z
      BY <2>3, <3>1, <3>2, <3>3 DEF Answered
    <3>6. call' = [call EXCEPT ![cl] = z]
      BY <1>0, <2>3, <3>5
    <3> QED
      BY <2>3, <3>1, <3>2, <3>4, <3>6
  <2> QED
    BY <2>1, <2>2, <2>3
<1>e. /\ call'[cl] = z /\ \A c \in BusClients : c # cl => call'[c] = call[c]
      /\ \A c \in BusClients : call'[c].seq = call[c].seq
  BY <1>t, <1>z DEF BusTypeOK
<1>r. \A c, n : Ran(c, n)' = Ran(c, n)
  BY <1>0 DEF Ran
<1>o. ASSUME NEW c, NEW n, NEW p \in BusObjects
      PROVE  Open(c, n, p)' <=> Open(c, n, p)
  <2>1. PICK w \in BusClients : w = OwnerOf[p]
    BY BusAssumption
  <2>2. PICK y : y = Asked(c, n, p)
    OBVIOUS
  <2>3. y # m
    BY <1>0, <2>2 DEF Asked, BusMsg
  <2>4. In(down'[w], y) <=> In(down[w], y)
    BY <1>d, <1>i, <2>3
  <2>5. Asked(c, n, p)' = y
    BY <2>2 DEF Asked, BusMsg
  <2> QED
    BY <1>0, <2>1, <2>2, <2>4, <2>5 DEF Open
<1>w. ASSUME NEW c \in BusClients, NEW n, NEW p \in BusObjects, Owing(c, n, p),
             c # cl \/ BusMsg("STATUS", p, p, n) # m
      PROVE  Owing(c, n, p)'
  <2>0. (Known(p)' <=> Known(p)) /\ Asked(c, n, p)' = Asked(c, n, p)
    BY <1>0 DEF Known, Asked, BusMsg
  <2>1. In(down[c], BusMsg("STATUS", p, p, n)) => In(down'[c], BusMsg("STATUS", p, p, n))
    BY <1>d, <1>i, <1>w
  <2> QED
    BY <1>0, <1>o, <1>w, <2>0, <2>1 DEF Owing
<1>1. BusTypeOK'
  <2>1. down' \in [BusClients -> Seq(Msg)]
    BY <1>0, <1>d, <1>i, <1>t DEF BusTypeOK
  <2>2. call' \in [BusClients -> Call]
    BY <1>t, <1>z DEF BusTypeOK
  <2> QED
    BY <1>0, <1>t, <2>1, <2>2 DEF BusTypeOK
<1>2. UpInv'
  BY <1>0, <1>e, <1>r, <1>t, UpKeeps
<1>3. DownInv'
  <2>1. \A c \in BusClients : \A x \in Msg : In(down'[c], x) => In(down[c], x)
    BY <1>d, <1>i
  <2> QED
    BY <1>0, <1>e, <1>r, <1>t, <2>1, DownKeeps
<1>4. QueueInv' /\ RanInv'
  BY <1>0, <1>d, <1>e, <1>i, <1>t DEF QueueInv, RanInv
<1>5. ASSUME NEW c \in BusClients, NEW n \in 1 .. MaxCalls, c # cl \/ n # k
      PROVE  Same(c, n)
  <2>1. /\ \A x : IsReply(x, n) => (In(down'[c], x) <=> In(down[c], x))
        /\ \A x, objs : BeginsWith(down[c], n, x, objs) => BeginsWith(down'[c], n, x, objs)
    <3>1. PICK q, p : q \in Seq(Msg) /\ q = down[c] /\ p = down'[c]
      BY <1>q
    <3>2. p = q \/ (q # <<>> /\ p = Tail(q) /\ ~IsReply(Head(q), n))
      BY <1>0, <1>5, <1>d, <1>k, <1>m, <3>1 DEF IsReply
    <3>3. /\ \A x : IsReply(x, n) => (In(p, x) <=> In(q, x))
          /\ \A x, objs : BeginsWith(q, n, x, objs) => BeginsWith(p, n, x, objs)
      BY <3>1, <3>2, QuietQueue
    <3> QED
      BY <3>1, <3>3
  <2>2. \A p \in BusObjects : Owing(c, n, p) => Owing(c, n, p)'
    <3>1. \A p \in BusObjects : c # cl \/ BusMsg("STATUS", p, p, n) # m
      BY <1>5, <1>k DEF BusMsg
    <3> QED
      BY <1>w, <3>1
  <2> QED
    BY <1>0, <1>o, <1>r, <2>1, <2>2 DEF Same
<1>6. ~Unread(cl, k) /\ ~Unread(cl, k)'
  <2>1. FreshOK(cl, k)
    BY DEF BusInv
  <2>2. ~Unread(cl, k)
    BY <1>b, <2>1 DEF FreshOK, Untouched, NoReply
  <2> QED
    BY <1>0, <2>2 DEF Unread
<1>7. FreshOK(cl, k)'
  <2>1. k <= call[cl].seq
    BY <1>0, <1>b, <1>k, <1>t DEF DownInv
  <2>2. ~(k > call'[cl].seq)
    <3>1. call[cl].seq \in Nat
      BY <1>c, SeqType
    <3> QED
      BY <1>e, <2>1, <3>1
  <2> QED
    BY <1>6, <2>2 DEF FreshOK
<1>8. ASSUME call[cl].seq = k PROVE WaitsOK(cl)' /\ EndOK(cl)'
  <2>0. WaitsOK(cl) /\ EndOK(cl) /\ k > 0
    BY DEF BusInv
  <2>1. CASE ~Waits(cl)
    <3>1. z = call[cl]
      BY <1>z, <2>1
    <3>2. call'[cl] = call[cl] /\ Ran(cl, k)' = Ran(cl, k)
      BY <1>e, <1>r, <3>1
    <3>3. WaitsOK(cl)'
      BY <2>1, <3>2 DEF WaitsOK, Waits
    <3>4. EndOK(cl)'
      BY <1>6, <1>8, <1>o, <2>0, <3>2 DEF EndOK
    <3> QED
      BY <3>3, <3>4
  <2>2. CASE Waits(cl)
    <3>1. NotFound(cl, k) \/ Listed(cl, k) \/ Forwarding(cl, k) \/ Unanswered(cl, k)
      <4>1. ~Sent(cl, k)
        BY <1>6 DEF Sent, Unread
      <4> QED
        BY <1>8, <2>0, <2>2, <4>1 DEF WaitsOK, Placed
    <3>2. CASE NotFound(cl, k)
      <4>1. z.st = "notfound"
        BY <1>8, <1>b, <1>z, <2>2, <3>2 DEF NotFound
      <4> QED
        BY <1>6, <1>8, <1>e, <1>o, <1>r, <2>0, <3>2, <4>1 DEF WaitsOK, EndOK, Waits, NotFound
    <3>3. CASE Listed(cl, k)
      <4>1. PICK x \in Msg :
              /\ BeginsWith(down[cl], k, x, Ran(cl, k))
              /\ (x.type = "NOT_FOUND" => call[cl].type = "NOTIFY")
              /\ call[cl].want = {x.peer} /\ call[cl].asked = {}
              /\ With(cl, k, Range(x.subs)) /\ \A b \in Range(x.subs) : Owing(cl, k, b)
        BY <3>3 DEF Listed
      <4>2. /\ m = x
            /\ \A y : In(down'[cl], y) /\ IsReply(y, k) => ByHandler(y, Ran(cl, k))
        BY <1>0, <1>b, <1>d, <1>m, <1>q, <4>1, BeginsTaken
      <4>3. PICK objs \in SUBSET BusObjects : objs = Range(m.subs)
        BY SubsType
      <4>4. z.want = objs /\ z.asked = objs /\ z.st = IF objs = {} THEN "done" ELSE "waiting"
        <5>1. ~(m.type = "NOT_FOUND" /\ call[cl].type # "NOTIFY") /\ m.peer \in call[cl].want
          BY <4>1, <4>2
        <5>2. (call[cl].want \ {m.peer}) \union Range(m.subs) = objs
          BY <4>1, <4>2, <4>3
        <5>3. call[cl].asked \union Range(m.subs) = objs
          BY <4>1, <4>3
        <5> QED
          BY <1>8, <1>z, <2>2, <5>1, <5>2, <5>3
      <4>5. With(cl, k, objs) /\ With(cl, k, objs)'
        BY <1>o, <1>r, <4>1, <4>2, <4>3 DEF With
      <4>6. \A b \in objs : Owing(cl, k, b)'
        <5>1. ASSUME NEW b \in objs PROVE BusMsg("STATUS", b, b, k) # m
          <6>1. Range(<<>>) = {}
            BY DEF Range
          <6>2. BusMsg("STATUS", b, b, k).subs = <<>>
            BY DEF BusMsg
          <6> QED
            BY <4>3, <6>1, <6>2
        <5> QED
          BY <1>w, <4>1, <4>2, <4>3, <5>1
      <4>7. CASE objs = {}
        BY <1>6, <1>8, <1>e, <1>o, <1>r, <2>0, <4>4, <4>5, <4>7 DEF WaitsOK, EndOK, Waits, With
      <4>8. CASE objs # {}
        <5>1. Forwarding(cl, k)'
          BY <1>e, <1>r, <4>2, <4>4, <4>5, <4>6, <4>8 DEF Forwarding
        <5> QED
          BY <1>6, <1>8, <1>e, <2>0, <4>4, <4>8, <5>1 DEF WaitsOK, EndOK, Waits, Placed
      <4> QED
        BY <4>7, <4>8
    <3>4. CASE Forwarding(cl, k)
      <4>1. /\ call[cl].want \subseteq call[cl].asked /\ call[cl].want # {}
            /\ call[cl].asked \ call[cl].want \subseteq Ran(cl, k)
            /\ With(cl, k, call[cl].asked) /\ \A b \in call[cl].want : Owing(cl, k, b)
        BY <3>4 DEF Forwarding
      <4>2. ByHandler(m, Ran(cl, k))
        BY <1>b, <3>4 DEF Forwarding
      <4>3. \A y \in Msg : In(down'[cl], y) /\ IsReply(y, k) => ByHandler(y, Ran(cl, k))
        BY <1>i, <3>4 DEF Forwarding
      <4>4. m.type = "STATUS" /\ Range(m.subs) = {} /\ m.peer \in Ran(cl, k)
        BY <4>2 DEF ByHandler, Range
      <4>5. PICK want \in SUBSET BusObjects, asked \in SUBSET BusObjects :
              want = call[cl].want \ {m.peer} /\ asked = call[cl].asked
        <5>1. call[cl].asked \in SUBSET BusObjects
          BY <1>c DEF Call
        <5>2. call[cl].want \ {m.peer} \in SUBSET BusObjects
          BY <4>1, <5>1
        <5> QED
          BY <5>1, <5>2
      <4>6. With(cl, k, asked) /\ With(cl, k, asked)'
        BY <1>o, <1>r, <4>1, <4>5 DEF With
      <4>7. z.want = want /\ z.asked = asked /\ z.st = IF want = {} THEN "done" ELSE "waiting"
        <5>1. CASE m.peer \in call[cl].want
          <6>1. (call[cl].want \ {m.peer}) \union Range(m.subs) = want
            BY <4>4, <4>5
          <6>2. call[cl].asked \union Range(m.subs) = asked
            BY <4>4, <4>5
          <6> QED
            BY <1>8, <1>z, <2>2, <4>4, <5>1, <6>1, <6>2
        <5>2. CASE m.peer \notin call[cl].want
          <6>1. z = call[cl]
            BY <1>8, <1>z, <2>2, <4>4, <5>2
          <6>2. want = call[cl].want /\ want # {}
            BY <4>1, <4>5, <5>2
          <6> QED
            BY <2>2, <4>5, <6>1, <6>2 DEF Waits
        <5> QED
          BY <5>1, <5>2
      <4>8. \A b \in want : Owing(cl, k, b)'
        <5>1. ASSUME NEW b \in want PROVE BusMsg("STATUS", b, b, k) # m
          <6>1. BusMsg("STATUS", b, b, k).peer = b
            BY DEF BusMsg
          <6> QED
            BY <4>5, <6>1
        <5> QED
          BY <1>w, <4>1, <4>5, <5>1
      <4>9. want \subseteq asked /\ asked \ want \subseteq Ran(cl, k)
        BY <4>1, <4>4, <4>5
      <4>a. CASE want = {}
        <5>1. Ran(cl, k) = asked
          BY <4>6, <4>9, <4>a DEF With
        <5>2. \A b \in BusObjects : ~Open(cl, k, b)
          BY <4>6, <5>1, OpenNotRan DEF With
        <5> QED
          BY <1>6, <1>8, <1>e, <1>o, <1>r, <2>0, <4>7, <4>a, <5>1, <5>2 DEF WaitsOK, EndOK, Waits
      <4>b. CASE want # {}
        <5>1. Forwarding(cl, k)'
          BY <1>e, <1>r, <4>3, <4>6, <4>7, <4>8, <4>9, <4>b DEF Forwarding
        <5> QED
          BY <1>6, <1>8, <1>e, <2>0, <4>7, <4>b, <5>1 DEF WaitsOK, EndOK, Waits, Placed
      <4> QED
        BY <4>a, <4>b
    <3>5. CASE Unanswered(cl, k)
      <4>1. PICK objs \in SUBSET BusObjects :
              objs \intersect call[cl].want = {} /\ With(cl, k, objs)
        BY <3>5 DEF Unanswered
      <4>2. m.peer \notin call[cl].want
        BY <1>b, <3>5, <4>1 DEF Unanswered, ByHandler, With
      <4>3. call'[cl] = call[cl]
        BY <1>e, <1>z, <4>2
      <4>4. With(cl, k, objs)'
        BY <1>o, <1>r, <4>1 DEF With
      <4>5. \A y \in Msg : In(down'[cl], y) /\ IsReply(y, k) => ByHandler(y, Ran(cl, k)')
        BY <1>i, <1>r, <3>5 DEF Unanswered
      <4>6. Unanswered(cl, k)'
        BY <1>0, <3>5, <4>1, <4>3, <4>4, <4>5 DEF Unanswered
      <4> QED
        BY <1>6, <1>8, <2>0, <2>2, <4>3, <4>6 DEF WaitsOK, EndOK, Waits, Placed
    <3> QED
      BY <3>1, <3>2, <3>3, <3>4, <3>5
  <2> QED
    BY <2>1, <2>2
<1>9. ASSUME call[cl].seq # k PROVE call'[cl] = call[cl]
  BY <1>9, <1>e, <1>z
<1> QED
  BY <1>1, <1>2, <1>3, <1>4, <1>5, <1>7, <1>8, <1>9, <1>e, OneTouched


\* The messages of a client that leaves are gone; those of the others stay, and who
\* waits for it waits for one that has left.
LEMMA LeaveKeeps ==
  ASSUME BusInv, NEW cl \in BusClients, Leave(cl)
  PROVE  BusInv'
<1>t. BusTypeOK /\ UpInv /\ DownInv /\ QueueInv /\ RanInv
  BY DEF BusInv
<1>0. /\ here' = here \ {cl}
      /\ up' = [up EXCEPT ![cl] = <<>>] /\ down' = [down EXCEPT ![cl] = <<>>]
      /\ heldMsgs' = [heldMsgs EXCEPT ![cl] = {}] /\ deferred' = [deferred EXCEPT ![cl] = {}]
      /\ call' = [call EXCEPT ![cl] = [call[cl] EXCEPT !.st = "left", !.want = {}]]
      /\ UNCHANGED <<freed, unlisted, ran, incomplete>>
  BY DEF Leave
<1>z. PICK z \in Call : /\ call' = [call EXCEPT ![cl] = z] /\ z.seq = call[cl].seq
                        /\ z.st = "left"
  <2>1. PICK z : z = [call[cl] EXCEPT !.st = "left", !.want = {}]
    OBVIOUS
  <2>2. call[cl] \in Call
    BY <1>t DEF BusTypeOK
  <2>3. z \in Call /\ z.seq = call[cl].seq /\ z.st = "left"
    BY <2>1, <2>2 DEF Call
  <2> QED
    BY <1>0, <2>1, <2>3
<1>e. /\ call'[cl] = z /\ \A c \in BusClients : c # cl => call'[c] = call[c]
      /\ \A c \in BusClients : call'[c].seq = call[c].seq
  BY <1>t, <1>z DEF BusTypeOK
<1>d. /\ up'[cl] = <<>> /\ down'[cl] = <<>> /\ heldMsgs'[cl] = {} /\ deferred'[cl] = {}
      /\ \A c \in BusClients : c # cl => /\ up'[c] = up[c] /\ down'[c] = down[c]
                                        /\ heldMsgs'[c] = heldMsgs[c]
                                        /\ deferred'[c] = deferred[c]
  BY <1>0, <1>t DEF BusTypeOK
<1>i. (\A x : ~In(up'[cl], x) /\ ~In(down'[cl], x)) /\ Single(up'[cl]) /\ Single(down'[cl])
  BY <1>d, EmptyQueue
<1>r. \A c, n : Ran(c, n)' = Ran(c, n)
  BY <1>0 DEF Ran
<1>o. ASSUME NEW c, NEW n, NEW p \in BusObjects
      PROVE  /\ Open(c, n, p)' => Open(c, n, p)
             /\ OwnerOf[p] # cl => (Open(c, n, p)' <=> Open(c, n, p))
  <2>1. PICK w \in BusClients : w = OwnerOf[p]
    BY BusAssumption
  <2>2. PICK y : y = Asked(c, n, p)
    OBVIOUS
  <2>3. Asked(c, n, p)' = y
    BY <2>2 DEF Asked, BusMsg
  <2> QED
    BY <1>d, <1>i, <2>1, <2>2, <2>3 DEF Open
<1>1. BusTypeOK'
  <2>1. <<>> \in Seq(Msg) /\ <<>> \in Seq(UpMsg)
    OBVIOUS
  <2>2. up' \in [BusClients -> Seq(UpMsg)] /\ down' \in [BusClients -> Seq(Msg)]
    BY <1>0, <1>t, <2>1 DEF BusTypeOK
  <2>3. /\ heldMsgs' \in [BusClients -> SUBSET Msg] /\ call' \in [BusClients -> Call]
        /\ deferred' \in [BusClients -> SUBSET Msg]
    BY <1>0, <1>t, <1>z DEF BusTypeOK
  <2> QED
    BY <1>0, <1>t, <2>2, <2>3 DEF BusTypeOK
<1>2. UpInv'
  <2>1. \A c \in BusClients : \A x \in Msg : In(up'[c], x) => In(up[c], x)
    BY <1>d, <1>i
  <2> QED
    BY <1>e, <1>r, <1>t, <2>1, UpKeeps
<1>3. DownInv'
  <2>1. \A c \in BusClients : \A x \in Msg : In(down'[c], x) => In(down[c], x)
    BY <1>d, <1>i
  <2>2. \A c \in BusClients : heldMsgs'[c] \subseteq heldMsgs[c] /\ deferred'[c] \subseteq deferred[c]
    BY <1>d
  <2> QED
    BY <1>0, <1>e, <1>r, <1>t, <2>1, <2>2, DownKeeps
<1>4. QueueInv' /\ RanInv'
  <2>1. QueueInv'
    BY <1>0, <1>d, <1>e, <1>i, <1>t, <1>z DEF QueueInv
  <2> QED
    BY <1>0, <1>t, <2>1 DEF RanInv
<1>5. ASSUME NEW c \in BusClients, NEW n \in 1 .. MaxCalls, c # cl
      PROVE  Same(c, n)
  <2>1. ASSUME NEW p \in BusObjects, Owing(c, n, p) PROVE Owing(c, n, p)'
    <3>1. PICK w \in BusClients : w = OwnerOf[p]
      BY BusAssumption
    <3>2. CASE w = cl
      <4>1. ~Known(p)'
        BY <1>0, <3>1, <3>2 DEF Known
      <4> QED
        BY <4>1 DEF Owing
    <3>3. CASE w # cl
      <4>1. (~Known(p) => ~Known(p)') /\ Asked(c, n, p)' = Asked(c, n, p)
        BY <1>0 DEF Known, Asked, BusMsg
      <4>2. Open(c, n, p)' <=> Open(c, n, p)
        BY <1>o, <3>1, <3>3
      <4>3. /\ up'[w] = up[w] /\ deferred'[w] = deferred[w] /\ down'[c] = down[c]
            /\ incomplete' = incomplete
        BY <1>0, <1>5, <1>d, <3>3
      <4> QED
        BY <2>1, <3>1, <4>1, <4>2, <4>3 DEF Owing
    <3> QED
      BY <3>2, <3>3
  <2> QED
    BY <1>0, <1>5, <1>d, <1>o, <1>r, <2>1 DEF Same
<1>6. ASSUME NEW c \in BusClients, NEW n \in 1 .. MaxCalls PROVE FreshOK(c, n)'
  <2>1. CASE c # cl
    BY <1>5, <1>e, <2>1, SameFresh
  <2>2. CASE c = cl
    <3>1. FreshOK(c, n)
      BY DEF BusInv
    <3>2. Untouched(c, n) => Untouched(c, n)'
      BY <1>i, <1>o, <1>r, <2>2 DEF Untouched, NoReply
    <3>3. ~Unread(c, n)'
      BY <1>i, <2>2 DEF Unread
    <3> QED
      BY <1>e, <3>1, <3>2, <3>3 DEF FreshOK
  <2> QED
    BY <2>1, <2>2
<1>7. ASSUME NEW c \in BusClients PROVE WaitsOK(c)' /\ EndOK(c)'
  <2>1. CASE c # cl
    <3>1. call[c].seq > 0 => call[c].seq \in 1 .. MaxCalls
      BY <1>t, BusAssumption DEF BusTypeOK, Call
    <3> QED
      BY <1>5, <1>e, <2>1, <3>1, SameWaits
  <2>2. CASE c = cl
    BY <1>e, <1>z, <2>2 DEF WaitsOK, EndOK, Waits
  <2> QED
    BY <2>1, <2>2
<1> QED
  BY <1>1, <1>2, <1>3, <1>4, <1>6, <1>7 DEF BusInv

(* The daemon *)

\* What a step of the daemon adds to the queues of the clients, for request k of
\* client p: the request for objects that have it not yet, and answers to p.
Adds(r, p, k) ==
  /\ r \in [BusClients -> Seq(Msg)] /\ down' = [c \in BusClients |-> down[c] \o r[c]]
  /\ \A c \in BusClients :
       /\ Single(r[c]) /\ (c \notin here => r[c] = <<>>)
       /\ \A x : In(r[c], x) =>
            /\ x.seq = k
            /\ x.type # "INVOKE" => /\ c = p /\ x.type \notin Requests
                                    /\ x.type = "DATA" => x.obj \in freed'
            /\ x.type = "INVOKE" =>
                 x.peer = p /\ IsAsked(c, x) /\ ~In(down[c], x) /\ x \notin heldMsgs[c]

\* The daemon takes message m of client cl: request k of client p, or an answer to it.
Takes(cl, m, p, k) ==
  /\ up[cl] # <<>> /\ m = Head(up[cl]) /\ up' = [up EXCEPT ![cl] = Tail(up[cl])]
  /\ UNCHANGED <<here, unlisted, call, heldMsgs, deferred, ran>>
  /\ freed \subseteq freed' /\ freed' \subseteq BusObjects /\ incomplete \subseteq incomplete'
  /\ k = m.seq /\ k <= call[p].seq /\ IF m.type \in Requests THEN p = cl ELSE p = m.peer

\* What is then in the queues, and with whom the request is.
Effect(r, cl, m, p, k) ==
  /\ \A c \in BusClients : \A x : In(down'[c], x) <=> In(down[c], x) \/ In(r[c], x)
  /\ \A x : In(up[cl], x) <=> x = m \/ In(up'[cl], x)
  /\ m.type \in Requests => ~In(up'[cl], m)
  /\ \A b \in BusObjects : Owing(p, k, b) /\ m # BusMsg("STATUS", b, p, k) => Owing(p, k, b)'
  /\ \A b \in BusObjects :
       Open(p, k, b)' <=> Open(p, k, b) \/ In(r[OwnerOf[b]], Asked(p, k, b))

\* Such a step touches no other request.
LEMMA DaemonAdds ==
  ASSUME BusInv, NEW cl \in BusClients, NEW m \in Msg,
         NEW p \in BusClients, NEW k \in 1 .. MaxCalls, Takes(cl, m, p, k),
         NEW r, Adds(r, p, k)
  PROVE  /\ BusTypeOK' /\ UpInv' /\ DownInv' /\ QueueInv' /\ RanInv'
         /\ \A c \in BusClients, n \in 1 .. MaxCalls : c # p \/ n # k => Same(c, n)
         /\ Effect(r, cl, m, p, k)
<1> USE DEF Takes
<1>t. BusTypeOK /\ UpInv /\ DownInv /\ QueueInv /\ RanInv
  BY DEF BusInv
<1>q. \A c \in BusClients : /\ up[c] \in Seq(UpMsg) /\ down[c] \in Seq(Msg) /\ r[c] \in Seq(Msg)
                            /\ heldMsgs[c] \subseteq Msg
  BY <1>t DEF BusTypeOK, Adds
<1>a. \A c \in BusClients :
        /\ Single(r[c]) /\ (c \notin here => r[c] = <<>>)
        /\ \A x : In(r[c], x) =>
             /\ x.seq = k
             /\ x.type # "INVOKE" => /\ c = p /\ x.type \notin Requests
                                     /\ x.type = "DATA" => x.obj \in freed'
             /\ x.type = "INVOKE" =>
                  x.peer = p /\ IsAsked(c, x) /\ ~In(down[c], x) /\ x \notin heldMsgs[c]
  BY DEF Adds
<1>d. \A c \in BusClients : down'[c] = down[c] \o r[c]
  BY DEF Adds
<1>u. up'[cl] = Tail(up[cl]) /\ \A c \in BusClients : c # cl => up'[c] = up[c]
  BY <1>t DEF BusTypeOK
<1>i. /\ up'[cl] \in Seq(UpMsg) /\ Single(up'[cl])
      /\ \A x : In(up[cl], x) <=> x = m \/ In(up'[cl], x)
      /\ m.type \in Requests => ~In(up'[cl], m)
  <2>1. Single(up[cl])
    BY <1>t DEF QueueInv
  <2> QED
    BY <1>q, <1>u, <2>1, Taken
<1>j. ASSUME NEW c \in BusClients
      PROVE  /\ down'[c] \in Seq(Msg) /\ Single(down'[c])
             /\ \A x : In(down'[c], x) <=> In(down[c], x) \/ In(r[c], x)
  <2>1. PICK q \in Seq(Msg), s \in Seq(Msg) : q = down[c] /\ s = r[c]
    BY <1>q
  <2>2. Single(q) /\ Single(s)
    BY <1>a, <1>t, <2>1 DEF QueueInv
  <2>3. \A x : In(q, x) /\ In(s, x) => x.type \notin Requests
    BY <1>a, <2>1
  <2>4. /\ q \o s \in Seq(Msg) /\ Single(q \o s)
        /\ \A x : In(q \o s, x) <=> In(q, x) \/ In(s, x)
    BY <2>2, <2>3, Joined
  <2> QED
    BY <1>d, <2>1, <2>4
<1>r. \A c, n : Ran(c, n)' = Ran(c, n)
  BY DEF Ran
<1>o. ASSUME NEW c, NEW n, NEW b \in BusObjects
      PROVE  Open(c, n, b)' <=> Open(c, n, b) \/ In(r[OwnerOf[b]], Asked(c, n, b))
  <2>1. PICK w \in BusClients : w = OwnerOf[b]
    BY BusAssumption
  <2>2. PICK y : y = Asked(c, n, b)
    OBVIOUS
  <2>3. Asked(c, n, b)' = y
    BY <2>2 DEF Asked, BusMsg
  <2> QED
    BY <1>j, <2>1, <2>2, <2>3 DEF Open
<1>w. ASSUME NEW c \in BusClients, NEW n, NEW b \in BusObjects, Owing(c, n, b),
             m # BusMsg("STATUS", b, c, n)
      PROVE  Owing(c, n, b)'
  <2>1. PICK w \in BusClients : w = OwnerOf[b]
    BY BusAssumption
  <2>2. In(up[w], BusMsg("STATUS", b, c, n)) => In(up'[w], BusMsg("STATUS", b, c, n))
    BY <1>i, <1>u, <1>w
  <2>3. In(down[c], BusMsg("STATUS", b, b, n)) => In(down'[c], BusMsg("STATUS", b, b, n))
    BY <1>j
  <2>4. (~Known(b) => ~Known(b)') /\ Asked(c, n, b)' = Asked(c, n, b)
    BY DEF Known, Asked, BusMsg
  <2>5. (<<c, n>> \in incomplete => <<c, n>> \in incomplete') /\ deferred' = deferred
    OBVIOUS
  <2>6. Open(c, n, b) => Open(c, n, b)'
    BY <1>o
  <2> QED
    BY <1>w, <2>1, <2>2, <2>3, <2>4, <2>5, <2>6 DEF Owing
<1>1. BusTypeOK'
  <2>1. up' \in [BusClients -> Seq(UpMsg)]
    BY <1>i, <1>t, <1>u DEF BusTypeOK
  <2>2. down' \in [BusClients -> Seq(Msg)]
    BY <1>d, <1>j DEF Adds
  <2> QED
    BY <1>t, <2>1, <2>2 DEF BusTypeOK
<1>2. UpInv'
  <2>1. \A c \in BusClients : \A x \in Msg : In(up'[c], x) => In(up[c], x)
    BY <1>i, <1>u
  <2> QED
    BY <1>r, <1>t, <2>1, UpKeeps
<1>3. DownInv'
  <2>1. ASSUME NEW c \in BusClients, NEW x \in Msg, In(down'[c], x)
        PROVE  \/ In(down[c], x)
               \/ /\ x.type \notin Requests /\ (x.type = "DATA" => x.obj \in freed')
                  /\ x.seq <= call[c].seq
               \/ x.type = "INVOKE" /\ IsAsked(c, x) /\ x \notin heldMsgs[c]
    <3>1. CASE In(down[c], x)
      BY <3>1
    <3>2. CASE In(r[c], x) /\ x.type = "INVOKE"
      BY <1>a, <3>2
    <3>3. CASE In(r[c], x) /\ x.type # "INVOKE"
      BY <1>a, <3>3
    <3> QED
      BY <1>j, <2>1, <3>1, <3>2, <3>3
  <2>2. \A c \in BusClients : heldMsgs'[c] = heldMsgs[c] /\ deferred'[c] = deferred[c]
    OBVIOUS
  <2> QED
    BY <1>r, <1>t, <2>1, <2>2, DownKeeps
<1>4. QueueInv' /\ RanInv'
  <2>1. ASSUME NEW c \in BusClients, c \notin here PROVE up'[c] = <<>> /\ down'[c] = <<>>
    <3>1. up[c] = <<>> /\ down[c] = <<>> /\ r[c] = <<>>
      BY <1>a, <1>t, <2>1 DEF QueueInv
    <3>2. c # cl
      BY <3>1
    <3>3. <<>> \o <<>> = <<>>
      OBVIOUS
    <3> QED
      BY <1>d, <1>u, <3>1, <3>2, <3>3
  <2>2. QueueInv'
    BY <1>i, <1>j, <1>t, <1>u, <2>1 DEF QueueInv
  <2> QED
    BY <1>t, <2>2 DEF RanInv
<1>5. ASSUME NEW c \in BusClients, NEW n \in 1 .. MaxCalls, c # p \/ n # k
      PROVE  Same(c, n)
  <2>1. \A x \in Msg : x.type \in Requests /\ x.seq = n => (In(up'[c], x) <=> In(up[c], x))
    BY <1>5, <1>i, <1>u
  <2>2. \A x : In(r[c], x) => ~IsReply(x, n)
    BY <1>5, <1>a DEF IsReply
  <2>3. /\ \A x : IsReply(x, n) => (In(down'[c], x) <=> In(down[c], x))
        /\ \A x, objs : BeginsWith(down[c], n, x, objs) => BeginsWith(down'[c], n, x, objs)
    <3>1. PICK q \in Seq(Msg), s \in Seq(Msg) : q = down[c] /\ s = r[c]
      BY <1>q
    <3>2. \A x, objs : BeginsWith(q, n, x, objs) => BeginsWith(q \o s, n, x, objs)
      BY <2>2, <3>1, BeginsJoined
    <3> QED
      BY <1>d, <1>j, <2>2, <3>1, <3>2
  <2>4. \A b \in BusObjects : Open(c, n, b)' => Open(c, n, b)
    <3> SUFFICES ASSUME NEW b \in BusObjects PROVE ~In(r[OwnerOf[b]], Asked(c, n, b))
      BY <1>o
    <3>1. OwnerOf[b] \in BusClients
      BY BusAssumption
    <3>2. Asked(c, n, b).type = "INVOKE" /\ Asked(c, n, b).peer = c /\ Asked(c, n, b).seq = n
      BY DEF Asked, BusMsg
    <3> QED
      BY <1>5, <1>a, <3>1, <3>2
  <2>5. \A b \in BusObjects : Owing(c, n, b) => Owing(c, n, b)'
    <3> SUFFICES ASSUME NEW b \in BusObjects PROVE m # BusMsg("STATUS", b, c, n)
      BY <1>w
    <3>1. /\ BusMsg("STATUS", b, c, n).type = "STATUS" /\ BusMsg("STATUS", b, c, n).peer = c
          /\ BusMsg("STATUS", b, c, n).seq = n /\ "STATUS" \notin Requests
      BY DEF BusMsg, Requests
    <3> QED
      BY <1>5, <3>1
  <2> QED
    BY <1>r, <2>1, <2>3, <2>4, <2>5 DEF Same
<1> QED
  BY <1>1, <1>2, <1>3, <1>4, <1>5, <1>i, <1>j, <1>o, <1>w DEF Effect

\* A request in the daemon's queue is the one its client waits for, if it is the
\* latest, and nobody knows of it yet.
LEMMA RequestUnread ==
  ASSUME BusInv, NEW cl \in BusClients, NEW m \in Msg, In(up[cl], m), m.type \in Requests,
         NEW k \in 1 .. MaxCalls, k = m.seq
  PROVE  /\ k <= call[cl].seq /\ Unread(cl, k) /\ Untouched(cl, k)
         /\ m.type = "INVOKE" => OwnerOf[m.obj] # cl
         /\ m.type # "INVOKE" => OwnerOf[m.obj] = cl
         /\ \A x \in Msg : In(up[cl], x) /\ x.type \in Requests /\ x.seq = k => x = m
         /\ call[cl].seq = k => call[cl].st \notin {"done", "notfound"}
         /\ call[cl].seq = k /\ Waits(cl) =>
              /\ call[cl].type = m.type
              /\ call[cl].want = IF m.type = "REMOVE_OBJECT" THEN {"none"} ELSE {m.obj}
              /\ call[cl].asked = IF m.type = "INVOKE" THEN {m.obj} ELSE {}
<1>1. /\ k <= call[cl].seq /\ (m.type = "INVOKE" <=> OwnerOf[m.obj] # cl)
      /\ \A x \in Msg : In(up[cl], x) /\ x.type \in Requests /\ x.seq = k => x = m
  BY DEF BusInv, UpInv
<1>2. Unread(cl, k)
  BY DEF Unread
<1>3. FreshOK(cl, k) /\ WaitsOK(cl) /\ EndOK(cl)
  BY DEF BusInv
<1>4. Untouched(cl, k)
  BY <1>2, <1>3 DEF FreshOK
<1>5. call[cl].seq = k => call[cl].st \notin {"done", "notfound"}
  BY <1>2, <1>3 DEF EndOK
<1>6. ASSUME call[cl].seq = k, Waits(cl)
      PROVE  /\ call[cl].type = m.type
             /\ call[cl].want = IF m.type = "REMOVE_OBJECT" THEN {"none"} ELSE {m.obj}
             /\ call[cl].asked = IF m.type = "INVOKE" THEN {m.obj} ELSE {}
  <2>1. Sent(cl, k)
    BY <1>2, <1>3, <1>6 DEF WaitsOK
  <2>2. PICK x \in Msg :
          /\ In(up[cl], x) /\ x.seq = k /\ x.type \in Requests /\ call[cl].type = x.type
          /\ call[cl].want = IF x.type = "REMOVE_OBJECT" THEN {"none"} ELSE {x.obj}
          /\ call[cl].asked = IF x.type = "INVOKE" THEN {x.obj} ELSE {}
    BY <2>1 DEF Sent
  <2>3. x = m
    BY <1>1, <2>2
  <2> QED
    BY <2>2, <2>3
<1> QED
  BY <1>1, <1>2, <1>4, <1>5, <1>6

\* The daemon takes a request; what it adds puts the request in its next place.
LEMMA RequestSeen ==
  ASSUME BusInv, NEW cl \in BusClients, NEW m \in Msg, NEW k \in 1 .. MaxCalls,
         Takes(cl, m, cl, k), m.type \in Requests, NEW r, Adds(r, cl, k),
         call[cl].seq = k /\ Waits(cl) => Placed(cl, k)'
  PROVE  BusInv'
<1>1. up[cl] \in Seq(UpMsg) /\ call[cl] \in Call
  BY DEF BusInv, BusTypeOK
<1>2. In(up[cl], m) /\ k = m.seq /\ call' = call
  BY <1>1, Taken DEF Takes
<1>3. /\ k <= call[cl].seq
      /\ call[cl].seq = k => call[cl].st \notin {"done", "notfound"}
      /\ \A x \in Msg : In(up[cl], x) /\ x.type \in Requests /\ x.seq = k => x = m
  <2>1. /\ In(up[cl], m) /\ m.type \in Requests /\ k = m.seq
    BY <1>2
  <2>2. k <= call[cl].seq
    BY <2>1, RequestUnread
  <2>3. call[cl].seq = k => call[cl].st \notin {"done", "notfound"}
    BY <2>1, RequestUnread
  <2>4. \A x \in Msg : In(up[cl], x) /\ x.type \in Requests /\ x.seq = k => x = m
    BY <2>1 DEF BusInv, UpInv
  <2> QED
    BY <2>2, <2>3, <2>4
<1>4. /\ BusTypeOK' /\ UpInv' /\ DownInv' /\ QueueInv' /\ RanInv'
      /\ \A c \in BusClients, n \in 1 .. MaxCalls : c # cl \/ n # k => Same(c, n)
      /\ Effect(r, cl, m, cl, k)
  BY DaemonAdds
<1>5. ~Unread(cl, k)'
  BY <1>3, <1>4 DEF Unread, Effect
<1>6. FreshOK(cl, k)'
  <2>1. call[cl].seq \in Nat
    BY <1>1, SeqType
  <2>2. ~(k > call[cl].seq)
    BY <1>3, <2>1
  <2> QED
    BY <1>2, <1>5, <2>2 DEF FreshOK
<1>7. ASSUME call[cl].seq = k PROVE WaitsOK(cl)' /\ EndOK(cl)'
  <2>1. EndOK(cl)'
    BY <1>2, <1>3, <1>7 DEF EndOK
  <2>2. WaitsOK(cl)'
    <3>1. k > 0
      OBVIOUS
    <3> QED
      BY <1>2, <1>5, <1>7, <3>1 DEF WaitsOK, Waits
  <2> QED
    BY <2>1, <2>2
<1> QED
  BY <1>2, <1>4, <1>6, <1>7, OneTouched

\* The messages in s for one client.
Only(r, w, s) ==
  /\ r \in [BusClients -> Seq(Msg)] /\ down' = [c \in BusClients |-> down[c] \o r[c]]
  /\ \A c \in BusClients : /\ Single(r[c]) /\ (c # w => r[c] = <<>>) /\ (c = w => r[c] = s)
                           /\ \A y : In(r[c], y) <=> c = w /\ In(s, y)

\* From ds to new, the messages in s are added for client w.
Added(ds, new, w, s) ==
  new \in [BusClients -> Seq(Msg)] /\ \A c \in BusClients : new[c] = IF c = w THEN ds[c] \o s ELSE ds[c]

\* They are added so when the queues of the others stay as they are.
LEMMA OnlyAdds ==
  ASSUME BusTypeOK, NEW w \in BusClients, NEW s \in Seq(Msg), Single(s), Added(down, down', w, s)
  PROVE  \E r : Only(r, w, s)
<1>1. PICK r : r = [c \in BusClients |-> IF c = w THEN s ELSE <<>>]
  OBVIOUS
<1>4. <<>> \in Seq(Msg) /\ Single(<<>>) /\ \A y : ~In(<<>>, y)
  BY EmptyQueue
<1>5. \A c \in BusClients : r[c] = IF c = w THEN s ELSE <<>>
  BY <1>1
<1>6. r \in [BusClients -> Seq(Msg)]
  BY <1>1, <1>4
<1>7. \A c \in BusClients :
        /\ Single(r[c]) /\ (c # w => r[c] = <<>>) /\ (c = w => r[c] = s)
        /\ \A y : In(r[c], y) <=> c = w /\ In(s, y)
  BY <1>4, <1>5
<1>8. down' = [c \in BusClients |-> down[c] \o r[c]]
  <2>1. ASSUME NEW c \in BusClients
        PROVE  (IF c = w THEN down[c] \o s ELSE down[c]) = down[c] \o r[c]
    <3>1. down[c] \in Seq(Msg)
      BY DEF BusTypeOK
    <3>2. PICK q \in Seq(Msg) : q = down[c]
      BY <3>1
    <3>3. q \o <<>> = q
      BY ConcatEmptySeq
    <3> QED
      BY <1>5, <3>2, <3>3
  <2> QED
    BY <2>1 DEF Added
<1> QED
  BY <1>6, <1>7, <1>8 DEF Only

\* What the daemon adds with message x, if it is not among those dropped, as i.
Kept(x, i, drop) == IF i \in drop THEN <<>> ELSE <<x>>
Sends(ds, new, w, x, i, drop) == new = ubus_msg_send(ds, w, x, i \in drop)

\* A queue of that message, or an empty one.
LEMMA KeptFacts ==
  ASSUME NEW x \in Msg, NEW i, NEW drop
  PROVE  /\ Kept(x, i, drop) \in Seq(Msg) /\ Single(Kept(x, i, drop))
         /\ i \in drop => \A y : ~In(Kept(x, i, drop), y)
         /\ i \notin drop => Kept(x, i, drop) = <<x>> /\ In(Kept(x, i, drop), x)
         /\ \A y : In(Kept(x, i, drop), y) => y = x
<1>1. CASE i \in drop
  <2>1. Kept(x, i, drop) = <<>>
    BY <1>1 DEF Kept
  <2> QED
    BY <1>1, <2>1, EmptyQueue
<1>2. CASE i \notin drop
  <2>1. Kept(x, i, drop) = <<x>>
    BY <1>2 DEF Kept
  <2> QED
    BY <1>2, <2>1, OneMessage
<1> QED
  BY <1>1, <1>2

\* What ubus_msg_send does to the queues.
LEMMA SendAdds ==
  ASSUME NEW ds \in [BusClients -> Seq(Msg)], NEW w \in BusClients, NEW x \in Msg,
         NEW i, NEW drop, NEW new, Sends(ds, new, w, x, i, drop)
  PROVE  Added(ds, new, w, Kept(x, i, drop))
<1>1. CASE i \in drop
  <2>1. PICK s : s = <<>>
    OBVIOUS
  <2>2. Kept(x, i, drop) = s /\ new = ds
    BY <1>1, <2>1 DEF Kept, Sends, ubus_msg_send
  <2>3. ASSUME NEW c \in BusClients PROVE ds[c] = IF c = w THEN ds[c] \o s ELSE ds[c]
    <3>1. PICK q \in Seq(Msg) : q = ds[c]
      OBVIOUS
    <3> QED
      BY <2>1, <3>1, ConcatEmptySeq
  <2> QED
    BY <2>2, <2>3 DEF Added
<1>2. CASE i \notin drop
  <2>1. PICK s : s = <<x>>
    OBVIOUS
  <2>2. Kept(x, i, drop) = s /\ new = [ds EXCEPT ![w] = Append(ds[w], x)]
    BY <1>2, <2>1 DEF Kept, Sends, ubus_msg_send
  <2>3. ASSUME NEW c \in BusClients
        PROVE  [ds EXCEPT ![w] = Append(ds[w], x)][c] = IF c = w THEN ds[c] \o s ELSE ds[c]
    <3>1. PICK q \in Seq(Msg) : q = ds[w]
      OBVIOUS
    <3>2. Append(q, x) = q \o s
      BY <2>1, AppendIsConcat
    <3> QED
      BY <3>1, <3>2
  <2>4. Append(ds[w], x) \in Seq(Msg)
    BY AppendProperties
  <2> QED
    BY <2>2, <2>3, <2>4 DEF Added
<1> QED
  BY <1>1, <1>2

\* The messages in s answer request k.
Answers(s, k) ==
  \A y : In(s, y) => /\ y.seq = k /\ y.type \notin Requests
                     /\ y.type = "DATA" => y.obj \in freed'

\* The daemon sends no more than answers to the client whose request it takes.
LEMMA AnswersOnly ==
  ASSUME BusInv, NEW cl \in BusClients, NEW m \in Msg, NEW k \in 1 .. MaxCalls,
         Takes(cl, m, cl, k), m.type \in Requests, cl \in here,
         NEW s \in Seq(Msg), Single(s), Answers(s, k),
         Added(down, down', cl, s)
  PROVE  /\ \E r : Adds(r, cl, k)
         /\ NoReply(cl, k) /\ down'[cl] = down[cl] \o s
         /\ \A y : In(down'[cl], y) <=> In(down[cl], y) \/ In(s, y)
         /\ With(cl, k, {})' /\ Ran(cl, k)' = {} /\ \A b \in BusObjects : ~Open(cl, k, b)'
<1>t. BusTypeOK /\ up[cl] \in Seq(UpMsg)
  BY DEF BusInv, BusTypeOK
<1>k. In(up[cl], m) /\ k = m.seq /\ ran' = ran
  BY <1>t, Taken DEF Takes
<1>u. Untouched(cl, k)
  BY <1>k, RequestUnread
<1>p. PICK r : Only(r, cl, s)
  BY <1>t, OnlyAdds
<1>3. /\ r \in [BusClients -> Seq(Msg)] /\ down' = [c \in BusClients |-> down[c] \o r[c]]
      /\ \A c \in BusClients : /\ Single(r[c]) /\ (c # cl => r[c] = <<>>) /\ (c = cl => r[c] = s)
                               /\ \A y : In(r[c], y) <=> c = cl /\ In(s, y)
  BY <1>p DEF Only
<1>i. "INVOKE" \in Requests
  BY DEF Requests
<1>4. Adds(r, cl, k)
  BY <1>3, <1>i DEF Adds, Answers
<1>5. /\ \A y : In(down'[cl], y) <=> In(down[cl], y) \/ In(r[cl], y)
      /\ \A b \in BusObjects :
           Open(cl, k, b)' <=> Open(cl, k, b) \/ In(r[OwnerOf[b]], Asked(cl, k, b))
  <2>1. Effect(r, cl, m, cl, k)
    BY <1>4, DaemonAdds
  <2> QED
    BY <2>1 DEF Effect
<1>6. \A b \in BusObjects : ~Open(cl, k, b)'
  <2>1. \A b \in BusObjects : Asked(cl, k, b).type = "INVOKE" /\ OwnerOf[b] \in BusClients
    BY AskedType, BusAssumption
  <2> QED
    BY <1>3, <1>5, <1>i, <1>u, <2>1 DEF Untouched, Answers
<1>7. Ran(cl, k)' = {}
  BY <1>k, <1>u DEF Ran, Untouched
<1>8. With(cl, k, {})'
  BY <1>6, <1>7 DEF With
<1> QED
  BY <1>3, <1>4, <1>5, <1>6, <1>7, <1>8, <1>u DEF Untouched, Added

\* Without an answer of the daemon the client waits for nothing.
LEMMA LeftUnanswered ==
  ASSUME NEW c \in BusClients, NEW k, NEW objs \in SUBSET BusObjects,
         <<c, k>> \in incomplete', \A y \in Msg : In(down'[c], y) => ~IsReply(y, k),
         With(c, k, objs)', objs \intersect call'[c].want = {}
  PROVE  Placed(c, k)'
<1>1. Unanswered(c, k)'
  BY DEF Unanswered
<1> QED
  BY <1>1 DEF Placed

\* There is no such object.
LEMMA NotFoundKeeps ==
  ASSUME BusInv, NEW cl \in BusClients, NEW m \in Msg, NEW k \in 1 .. MaxCalls,
         Takes(cl, m, cl, k), m.type \in Requests, cl \in here,
         NEW p \in Ids, p = IF m.type = "REMOVE_OBJECT" THEN "none" ELSE m.obj,
         NEW drop, drop # {} => <<cl, k>> \in incomplete',
         Sends(down, down', cl, NotFoundStatus(m, p), "none", drop)
  PROVE  BusInv'
<1>t. BusTypeOK /\ up[cl] \in Seq(UpMsg) /\ down \in [BusClients -> Seq(Msg)]
  BY DEF BusInv, BusTypeOK
<1>k. In(up[cl], m) /\ k = m.seq /\ call' = call
  BY <1>t, Taken DEF Takes
<1>u. call[cl].seq = k /\ Waits(cl) =>
        /\ call[cl].type = m.type /\ call[cl].want = {p}
        /\ m.type = "NOTIFY" => call[cl].asked = {}
  BY <1>k, RequestUnread
<1>x. PICK x \in Msg : /\ x = NotFoundStatus(m, p) /\ x.type = "NOT_FOUND" /\ x.seq = k
                       /\ x.peer = p /\ x.subs = <<>>
  <2>1. PICK t \in MsgTypes, o \in BusObjects : t = "NOT_FOUND" /\ o = m.obj
    BY DEF MsgTypes, Msg
  <2>2. /\ BusMsg(t, o, p, k) \in Msg /\ BusMsg(t, o, p, k).type = t /\ BusMsg(t, o, p, k).seq = k
        /\ BusMsg(t, o, p, k).peer = p /\ BusMsg(t, o, p, k).subs = <<>>
    BY BusMsgType
  <2>3. NotFoundStatus(m, p) = BusMsg(t, o, p, k)
    BY <1>k, <2>1 DEF NotFoundStatus
  <2> QED
    BY <2>1, <2>2, <2>3
<1>s. PICK s \in Seq(Msg) : s = Kept(x, "none", drop) /\ Single(s) /\ Added(down, down', cl, s)
  <2>1. Added(down, down', cl, Kept(x, "none", drop))
    BY <1>t, <1>x, SendAdds
  <2> QED
    BY <2>1, KeptFacts
<1>y. /\ "none" \in drop => \A y : ~In(s, y)
      /\ "none" \notin drop => s = <<x>> /\ In(s, x)
      /\ \A y : In(s, y) => y = x
  BY <1>s, KeptFacts
<1>z. Answers(s, k)
  BY <1>x, <1>y DEF Answers, Requests
<1>1. PICK r : Adds(r, cl, k)
  BY <1>s, <1>z, AnswersOnly
<1>2. /\ NoReply(cl, k) /\ down'[cl] = down[cl] \o s
      /\ \A y : In(down'[cl], y) <=> In(down[cl], y) \/ In(s, y)
      /\ With(cl, k, {})' /\ Ran(cl, k)' = {} /\ \A b \in BusObjects : ~Open(cl, k, b)'
  <2>1. NoReply(cl, k) /\ down'[cl] = down[cl] \o s /\ Ran(cl, k)' = {}
    BY <1>s, <1>z, AnswersOnly
  <2>2. With(cl, k, {})' /\ \A b \in BusObjects : ~Open(cl, k, b)'
    BY <1>s, <1>z, AnswersOnly
  <2>3. \A y : In(down'[cl], y) <=> In(down[cl], y) \/ In(s, y)
    <3>1. PICK q \in Seq(Msg) : q = down[cl]
      BY <1>t
    <3> QED
      BY <2>1, <3>1, Joined
  <2> QED
    BY <2>1, <2>2, <2>3
<1>3. ASSUME call[cl].seq = k, Waits(cl) PROVE Placed(cl, k)'
  <2>1. CASE "none" \in drop
    <3>1. <<cl, k>> \in incomplete' /\ \A y \in Msg : In(down'[cl], y) => ~IsReply(y, k)
      BY <1>2, <1>y, <2>1 DEF NoReply
    <3> QED
      BY <1>2, <3>1, LeftUnanswered
  <2>2. CASE "none" \notin drop /\ m.type # "NOTIFY"
    <3>1. In(down'[cl], x) /\ IsReply(x, k)
      BY <1>2, <1>y, <1>x, <2>2 DEF IsReply
    <3>2. \A y \in Msg : In(down'[cl], y) /\ IsReply(y, k) =>
                            y.type = "NOT_FOUND" /\ y.peer \in call'[cl].want
      BY <1>2, <1>3, <1>k, <1>y, <1>u, <1>x DEF NoReply
    <3>3. NotFound(cl, k)'
      BY <1>2, <1>3, <1>k, <1>u, <2>2, <3>1, <3>2 DEF NotFound
    <3> QED
      BY <3>3 DEF Placed
  <2>3. CASE "none" \notin drop /\ m.type = "NOTIFY"
    <3>1. PICK q \in Seq(Msg) : q = down[cl]
      BY <1>t
    <3>2. \A y : In(q, y) => ~IsReply(y, k)
      BY <1>2, <3>1, QueueFacts DEF NoReply
    <3>3. BeginsWith(Append(q, x), k, x, {})
      <4>1. IsReply(x, k)
        BY <1>x DEF IsReply
      <4> QED
        BY <3>2, <4>1, BeginsNow
    <3>4. Append(q, x) = down'[cl]
      BY <1>2, <1>y, <2>3, <3>1, AppendIsConcat
    <3>5. Range(x.subs) = {}
      BY <1>x DEF Range
    <3>6. Listed(cl, k)'
      BY <1>2, <1>3, <1>k, <1>u, <1>x, <2>3, <3>3, <3>4, <3>5 DEF Listed
    <3> QED
      BY <3>6 DEF Placed
  <2> QED
    BY <2>1, <2>2, <2>3
<1> QED
  BY <1>1, <1>3, RequestSeen

\* An invocation is forwarded to the object's client, or the caller is told that
\* there is no such object.
LEMMA InvokeKeeps ==
  ASSUME BusInv, NEW cl \in BusClients, NEW m \in Msg, NEW k \in 1 .. MaxCalls,
         Takes(cl, m, cl, k), m.type = "INVOKE", cl \in here,
         NEW drop, drop # {} => <<cl, k>> \in incomplete', down' = ubusd_handle_invoke(cl, m, drop)
  PROVE  BusInv'
<1>t. BusTypeOK /\ m.type \in Requests /\ up[cl] \in Seq(UpMsg) /\ down \in [BusClients -> Seq(Msg)]
  BY DEF BusInv, BusTypeOK, Requests
<1>k. In(up[cl], m) /\ k = m.seq /\ k <= call[cl].seq /\ call' = call /\ ran' = ran
  BY <1>t, Taken DEF Takes
<1>o. PICK o \in BusObjects : o = m.obj
  BY DEF Msg
<1>u. /\ Untouched(cl, k) /\ OwnerOf[o] # cl
      /\ call[cl].seq = k /\ Waits(cl) => call[cl].want = {o} /\ call[cl].asked = {o}
  BY <1>k, <1>o, <1>t, RequestUnread
<1>r. Ran(cl, k)' = {} /\ Ran(cl, k) = {}
  BY <1>k, <1>u DEF Ran, Untouched
<1>1. CASE ~Known(o)
  <2>1. Sends(down, down', cl, NotFoundStatus(m, o), "none", drop)
    BY <1>1, <1>o DEF ubusd_handle_invoke, Sends, ubus_msg_send
  <2>2. PICK p \in Ids : p = o
    BY DEF Ids
  <2>3. p = IF m.type = "REMOVE_OBJECT" THEN "none" ELSE m.obj
    BY <1>o, <2>2
  <2> QED
    BY <1>t, <2>1, <2>2, <2>3, NotFoundKeeps
<1>2. CASE Known(o)
  <2>w. PICK w \in BusClients : w = OwnerOf[o] /\ w \in here
    BY <1>2, BusAssumption DEF Known
  <2>1. PICK x \in Msg : /\ x = Asked(cl, k, o) /\ x.type = "INVOKE" /\ x.obj = o
                         /\ x.peer = cl /\ x.seq = k
    BY AskedType
  <2>2. Sends(down, down', w, x, o, drop)
    BY <1>2, <1>k, <1>o, <2>1, <2>w DEF ubusd_handle_invoke, Sends, ubus_msg_send, Asked
  <2>s. PICK s \in Seq(Msg) : s = Kept(x, o, drop) /\ Single(s) /\ Added(down, down', w, s)
    <3>1. Added(down, down', w, Kept(x, o, drop))
      BY <1>t, <2>2, SendAdds
    <3> QED
      BY <3>1, KeptFacts
  <2>y. /\ o \notin drop => In(s, x)
        /\ \A y : In(s, y) => y = x
    BY <2>s, KeptFacts
  <2>p. PICK r : Only(r, w, s)
    BY <1>t, <2>s, OnlyAdds
  <2>3. /\ r \in [BusClients -> Seq(Msg)] /\ down' = [c \in BusClients |-> down[c] \o r[c]]
        /\ \A c \in BusClients : /\ Single(r[c]) /\ (c # w => r[c] = <<>>)
                                 /\ \A y : In(r[c], y) <=> c = w /\ In(s, y)
    BY <2>p DEF Only
  <2>a. ~In(down[w], x) /\ x \notin heldMsgs[w]
    BY <1>u, <2>1, <2>w DEF Untouched, Open
  <2>b. IsAsked(w, x)
    BY <1>k, <1>r, <1>u, <2>1, <2>w DEF IsAsked
  <2>4. Adds(r, cl, k)
    <3>1. ASSUME NEW c \in BusClients, NEW y, In(r[c], y)
          PROVE  /\ y.seq = k /\ y.type = "INVOKE" /\ y.peer = cl /\ IsAsked(c, y)
                 /\ ~In(down[c], y) /\ y \notin heldMsgs[c]
      <4>1. c = w /\ y = x
        BY <2>3, <2>y, <3>1
      <4> QED
        BY <2>1, <2>a, <2>b, <4>1
    <3> QED
      BY <2>3, <2>w, <3>1 DEF Adds
  <2>5. /\ \A y : In(down'[cl], y) <=> In(down[cl], y) \/ In(r[cl], y)
        /\ \A b \in BusObjects :
             Open(cl, k, b)' <=> Open(cl, k, b) \/ In(r[OwnerOf[b]], Asked(cl, k, b))
    <3>1. Effect(r, cl, m, cl, k)
      BY <2>4, DaemonAdds
    <3> QED
      BY <3>1 DEF Effect
  <2>6. /\ \A b \in BusObjects : Open(cl, k, b)' => b = o
        /\ o \notin drop => Open(cl, k, o)'
    <3>1. \A b \in BusObjects : (Asked(cl, k, b) = x => b = o) /\ OwnerOf[b] \in BusClients
      BY <2>1, AskedType, BusAssumption
    <3>2. ASSUME NEW b \in BusObjects, Open(cl, k, b)' PROVE b = o
      <4>1. In(r[OwnerOf[b]], Asked(cl, k, b))
        BY <1>u, <2>5, <3>2 DEF Untouched
      <4> QED
        BY <2>3, <2>y, <3>1, <4>1
    <3>3. o \notin drop => In(r[w], x)
      BY <2>3, <2>y
    <3> QED
      BY <2>1, <2>5, <2>w, <3>2, <3>3
  <2>7. ASSUME call[cl].seq = k, Waits(cl) PROVE Placed(cl, k)'
    <3>1. call'[cl].want = {o} /\ call'[cl].asked = {o}
      BY <1>k, <1>u, <2>7
    <3>2. \A y \in Msg : In(down'[cl], y) => ~IsReply(y, k)
      <4>1. cl # w
        BY <1>u, <2>w
      <4> QED
        BY <1>u, <2>3, <2>5, <4>1 DEF Untouched, NoReply
    <3>3. With(cl, k, {o})'
      BY <1>r, <2>6 DEF With
    <3>4. Owing(cl, k, o)'
      <4>1. o \in drop => <<cl, k>> \in incomplete'
        OBVIOUS
      <4> QED
        BY <2>6, <4>1 DEF Owing
    <3>5. Forwarding(cl, k)'
      BY <3>1, <3>2, <3>3, <3>4 DEF Forwarding
    <3> QED
      BY <3>5 DEF Placed
  <2> QED
    BY <1>t, <2>4, <2>7, RequestSeen
<1> QED
  BY <1>1, <1>2

\* An object is removed, and its client told of the data first and then of the end.
LEMMA RemoveKeeps ==
  ASSUME BusInv, NEW cl \in BusClients, NEW m \in Msg, NEW k \in 1 .. MaxCalls,
         Takes(cl, m, cl, k), m.type = "REMOVE_OBJECT", cl \in here,
         NEW drop, drop # {} => <<cl, k>> \in incomplete',
         Known(m.obj) => freed' = freed \union {m.obj},
         down' = ubusd_handle_remove_object(cl, m, drop)
  PROVE  BusInv'
<1>t. BusTypeOK /\ m.type \in Requests /\ up[cl] \in Seq(UpMsg) /\ down \in [BusClients -> Seq(Msg)]
  BY DEF BusInv, BusTypeOK, Requests
<1>k. In(up[cl], m) /\ k = m.seq /\ call' = call
  BY <1>t, Taken DEF Takes
<1>o. PICK o \in BusObjects : o = m.obj
  BY DEF Msg
<1>u. call[cl].seq = k /\ Waits(cl) => call[cl].want = {"none"} /\ call[cl].asked = {}
  <2>1. call[cl].seq = k /\ Waits(cl) =>
          /\ call[cl].want = IF m.type = "REMOVE_OBJECT" THEN {"none"} ELSE {m.obj}
          /\ call[cl].asked = IF m.type = "INVOKE" THEN {m.obj} ELSE {}
    BY <1>k, <1>t, RequestUnread
  <2> QED
    BY <2>1
<1>n. PICK p \in Ids : p = "none"
  BY DEF Ids
<1>1. CASE ~Known(o)
  <2>1. Sends(down, down', cl, NotFoundStatus(m, p), "none", drop)
    BY <1>1, <1>n, <1>o DEF ubusd_handle_remove_object, Sends, ubus_msg_send
  <2>2. p = IF m.type = "REMOVE_OBJECT" THEN "none" ELSE m.obj
    BY <1>n
  <2> QED
    BY <1>t, <2>1, <2>2, NotFoundKeeps
<1>2. CASE Known(o)
  <2>1. PICK d \in Msg : d = BusMsg("DATA", o, p, k) /\ d.type = "DATA" /\ d.seq = k /\ d.obj = o
    <3>1. PICK t \in MsgTypes : t = "DATA"
      BY DEF MsgTypes
    <3> QED
      BY <3>1, BusMsgType
  <2>2. PICK x \in Msg : /\ x = BusMsg("STATUS", o, p, k) /\ x.type = "STATUS" /\ x.seq = k
                         /\ x.peer = p /\ x.subs = <<>>
    <3>1. PICK t \in MsgTypes : t = "STATUS"
      BY DEF MsgTypes
    <3> QED
      BY <3>1, BusMsgType
  <2>3. PICK data : data = ubus_msg_send(down, cl, d, o \in drop)
    OBVIOUS
  <2>4. Sends(down, data, cl, d, o, drop) /\ Sends(data, down', cl, x, "none", drop)
    BY <1>2, <1>k, <1>n, <1>o, <2>1, <2>2, <2>3 DEF ubusd_handle_remove_object, Sends
  <2>5. PICK s1 \in Seq(Msg) : s1 = Kept(d, o, drop) /\ Single(s1) /\ Added(down, data, cl, s1)
    <3>1. Added(down, data, cl, Kept(d, o, drop))
      BY <1>t, <2>4, SendAdds
    <3> QED
      BY <3>1, KeptFacts
  <2>6. PICK s2 \in Seq(Msg) : /\ s2 = Kept(x, "none", drop) /\ Single(s2)
                               /\ Added(data, down', cl, s2)
    <3>1. data \in [BusClients -> Seq(Msg)]
      BY <2>5 DEF Added
    <3>2. Added(data, down', cl, Kept(x, "none", drop))
      BY <2>4, <3>1, SendAdds
    <3> QED
      BY <3>2, KeptFacts
  <2>7. /\ "none" \in drop => \A y : ~In(s2, y)
        /\ "none" \notin drop => s2 = <<x>>
        /\ \A y : In(s2, y) => y = x
        /\ \A y : In(s1, y) => y = d
    BY <2>5, <2>6, KeptFacts
  <2>8. PICK s \in Seq(Msg) : /\ s = s1 \o s2 /\ Single(s)
                              /\ \A y : In(s, y) <=> In(s1, y) \/ In(s2, y)
    <3>1. \A y : ~(In(s1, y) /\ In(s2, y))
      BY <2>1, <2>2, <2>7
    <3>2. Single(s1) /\ Single(s2)
      BY <2>5, <2>6
    <3>3. s1 \o s2 \in Seq(Msg) /\ \A y : In(s1 \o s2, y) <=> In(s1, y) \/ In(s2, y)
      BY Joined
    <3>4. Single(s1 \o s2)
      BY <3>1, <3>2, Joined
    <3> QED
      BY <3>3, <3>4
  <2>9. Added(down, down', cl, s)
    <3>1. PICK q \in Seq(Msg) : q = down[cl]
      BY <1>t
    <3>2. (q \o s1) \o s2 = q \o s
      BY <2>8, ConcatAssociative
    <3> QED
      BY <2>5, <2>6, <3>1, <3>2 DEF Added
  <2>a. Answers(s, k)
    <3>1. \A y : In(s, y) => y = d \/ y = x
      BY <2>7, <2>8
    <3>2. d.obj \in freed' /\ {"DATA", "STATUS"} \intersect Requests = {}
      BY <1>2, <1>o, <2>1 DEF Requests
    <3> QED
      BY <2>1, <2>2, <3>1, <3>2 DEF Answers
  <2>b. PICK r : Adds(r, cl, k)
    BY <1>t, <2>8, <2>9, <2>a, AnswersOnly
  <2>c. NoReply(cl, k) /\ down'[cl] = down[cl] \o s /\ Ran(cl, k)' = {} /\ With(cl, k, {})'
    BY <1>t, <2>8, <2>9, <2>a, AnswersOnly
  <2>d. PICK q \in Seq(Msg) : q = down[cl] \o s1 /\ \A y : In(q, y) => ~IsReply(y, k)
    <3>1. PICK b \in Seq(Msg) : b = down[cl]
      BY <1>t
    <3>2. \A y : In(b, y) => ~IsReply(y, k)
      BY <2>c, <3>1, QueueFacts DEF NoReply
    <3>3. \A y : In(s1, y) => ~IsReply(y, k)
      BY <2>1, <2>7 DEF IsReply
    <3>4. b \o s1 \in Seq(Msg) /\ \A y : In(b \o s1, y) <=> In(b, y) \/ In(s1, y)
      BY Joined
    <3> QED
      BY <3>1, <3>2, <3>3, <3>4
  <2>e. down'[cl] = q \o s2
    <3>1. PICK b \in Seq(Msg) : b = down[cl]
      BY <1>t
    <3>2. (b \o s1) \o s2 = b \o s
      BY <2>8, ConcatAssociative
    <3> QED
      BY <2>c, <2>d, <3>1, <3>2
  <2>f. ASSUME call[cl].seq = k, Waits(cl) PROVE Placed(cl, k)'
    <3>1. call'[cl].want = {p} /\ call'[cl].asked = {}
      BY <1>k, <1>n, <1>u, <2>f
    <3>2. CASE "none" \in drop
      <4>1. \A y : In(down'[cl], y) <=> In(q, y) \/ In(s2, y)
        BY <2>e, Joined
      <4>2. \A y \in Msg : In(down'[cl], y) => ~IsReply(y, k)
        BY <2>7, <2>d, <3>2, <4>1
      <4>3. <<cl, k>> \in incomplete'
        BY <3>2
      <4> QED
        BY <2>c, <4>2, <4>3, LeftUnanswered
    <3>3. CASE "none" \notin drop
      <4>1. down'[cl] = Append(q, x)
        BY <2>7, <2>e, <3>3, AppendIsConcat
      <4>2. BeginsWith(Append(q, x), k, x, {})
        <5>1. IsReply(x, k)
          BY <2>2 DEF IsReply
        <5> QED
          BY <2>d, <5>1, BeginsNow
      <4>3. Range(x.subs) = {}
        BY <2>2 DEF Range
      <4>4. Listed(cl, k)'
        BY <2>2, <2>c, <3>1, <4>1, <4>2, <4>3 DEF Listed
      <4> QED
        BY <4>4 DEF Placed
    <3> QED
      BY <3>2, <3>3
  <2> QED
    BY <1>t, <2>b, <2>f, RequestSeen
<1> QED
  BY <1>1, <1>2

\* A notification is forwarded to the client of each subscriber, once for each, and
\* the daemon's answer lists them.
LEMMA ForwardedTo ==
  ASSUME NEW cl \in BusClients, NEW m \in Msg, NEW k \in 1 .. MaxCalls, k = m.seq,
         NEW drop
  PROVE  /\ Listing(m) \in Msg /\ Listing(m).type = "STATUS" /\ Listing(m).peer = m.obj
         /\ Listing(m).seq = k /\ Range(Listing(m).subs) = Subscribers(m.obj)
         /\ \A c \in BusClients :
              /\ Forwarded(c, cl, m, drop) \in Seq(Msg) /\ Single(Forwarded(c, cl, m, drop))
              /\ \A y : In(Forwarded(c, cl, m, drop), y) <=>
                   \E s \in Subscribers(m.obj) \ drop : OwnerOf[s] = c /\ y = Asked(cl, k, s)
<1>0. m.obj \in BusObjects
  BY DEF Msg
<1>1. PICK S \in SUBSET BusObjects : S = Subscribers(m.obj)
  BY DEF Subscribers
<1>2. \A T \in SUBSET S : IsFiniteSet(T) /\ T \in SUBSET BusObjects
  BY BusAssumption, FS_Subset
<1>3. /\ Listing(m) \in Msg /\ Listing(m).type = "STATUS" /\ Listing(m).peer = m.obj
      /\ Listing(m).seq = k /\ Range(Listing(m).subs) = S
  <2>1. PICK q : q = SetToSeq(S)
    OBVIOUS
  <2>2. q \in Seq(S) /\ S = {q[i] : i \in 1 .. Len(q)}
    BY <1>2, <2>1, SetListed
  <2>3. q \in Seq(BusObjects) /\ Range(q) = S
    BY <2>2, SMTT(20) DEF Range
  <2>4. Listing(m) = [type |-> "STATUS", obj |-> m.obj, peer |-> m.obj, seq |-> k, subs |-> q]
    BY <1>1, <2>1 DEF Listing, BusMsg
  <2>5. "STATUS" \in MsgTypes /\ m.obj \in Ids
    BY <1>0 DEF MsgTypes, Ids
  <2> QED
    BY <1>0, <2>3, <2>4, <2>5 DEF Msg
<1>4. ASSUME NEW c \in BusClients
      PROVE  /\ Forwarded(c, cl, m, drop) \in Seq(Msg) /\ Single(Forwarded(c, cl, m, drop))
             /\ \A y : In(Forwarded(c, cl, m, drop), y) <=>
                  \E s \in S \ drop : OwnerOf[s] = c /\ y = Asked(cl, k, s)
  <2>1. PICK T \in SUBSET S : T = {s \in S \ drop : OwnerOf[s] = c}
    OBVIOUS
  <2>2. PICK q : q = SetToSeq(T)
    OBVIOUS
  <2>3. /\ q \in Seq(T) /\ T = {q[i] : i \in 1 .. Len(q)}
        /\ \A i, j \in 1 .. Len(q) : q[i] = q[j] => i = j
    BY <1>2, <2>2, SetListed
  <2>4. PICK l \in Nat : l = Len(q) /\ DOMAIN q = 1 .. l /\ \A i \in 1 .. l : q[i] \in T
    BY <2>3, LenProperties, ElementOfSeq
  <2>5. PICK f : f = [i \in 1 .. l |-> Asked(cl, k, q[i])]
    OBVIOUS
  <2>6. Forwarded(c, cl, m, drop) = f
    BY <1>1, <2>1, <2>2, <2>4, <2>5 DEF Forwarded, Asked
  <2>7. \A s \in BusObjects : Asked(cl, k, s) \in Msg /\ Asked(cl, k, s).obj = s
    BY AskedType
  <2>8. f \in Seq(Msg) /\ Len(f) = l /\ \A i \in 1 .. l : f[i] = Asked(cl, k, q[i])
    <3>1. \A i \in 1 .. l : q[i] \in BusObjects
      BY <1>2, <2>4
    <3>2. f \in [1 .. l -> Msg]
      BY <2>5, <2>7, <3>1
    <3>3. f \in Seq(Msg) /\ Len(f) = l
      BY <3>2
    <3> QED
      BY <2>5, <3>3
  <2>9. Single(f)
    <3> SUFFICES ASSUME NEW i \in 1 .. l, NEW j \in 1 .. l, f[i] = f[j] PROVE i = j
      BY <2>8 DEF Single
    <3>1. q[i] = q[j]
      BY <1>2, <2>4, <2>7, <2>8
    <3> QED
      BY <2>3, <2>4, <3>1
  <2>a. \A y : In(f, y) <=> \E i \in 1 .. l : y = Asked(cl, k, q[i])
    BY <2>8 DEF In
  <2>b. \A y : (\E i \in 1 .. l : y = Asked(cl, k, q[i])) <=> \E s \in T : y = Asked(cl, k, s)
    BY <2>3, <2>4
  <2>c. \A y : (\E s \in T : y = Asked(cl, k, s))
                <=> \E s \in S \ drop : OwnerOf[s] = c /\ y = Asked(cl, k, s)
    BY <2>1
  <2>d. \A y : In(f, y) <=> \E s \in S \ drop : OwnerOf[s] = c /\ y = Asked(cl, k, s)
    BY <2>a, <2>b, <2>c, Zenon
  <2>e. f \in Seq(Msg)
    BY <2>8
  <2> QED
    BY <2>6, <2>9, <2>d, <2>e, Zenon
<1> QED
  BY <1>1, <1>3, <1>4

\* The daemon answers a notification with the list of subscribers, before any of
\* them answers it.
LEMMA NotifyKeeps ==
  ASSUME BusInv, NEW cl \in BusClients, NEW m \in Msg, NEW k \in 1 .. MaxCalls,
         Takes(cl, m, cl, k), m.type = "NOTIFY", cl \in here,
         NEW drop, drop # {} => <<cl, k>> \in incomplete', down' = ubusd_handle_notify(cl, m, drop)
  PROVE  BusInv'
<1>t. BusTypeOK /\ m.type \in Requests /\ up[cl] \in Seq(UpMsg) /\ down \in [BusClients -> Seq(Msg)]
  BY DEF BusInv, BusTypeOK, Requests
<1>k. In(up[cl], m) /\ k = m.seq /\ k <= call[cl].seq /\ call' = call /\ ran' = ran
  BY <1>t, Taken DEF Takes
<1>o. PICK o \in BusObjects : o = m.obj
  BY DEF Msg
<1>u. /\ Untouched(cl, k) /\ OwnerOf[o] = cl
      /\ call[cl].seq = k /\ Waits(cl) => call[cl].want = {o} /\ call[cl].asked = {}
  <2>1. Untouched(cl, k) /\ (m.type # "INVOKE" => OwnerOf[m.obj] = cl)
    BY <1>k, <1>t, RequestUnread
  <2>2. call[cl].seq = k /\ Waits(cl) =>
          /\ call[cl].want = IF m.type = "REMOVE_OBJECT" THEN {"none"} ELSE {m.obj}
          /\ call[cl].asked = IF m.type = "INVOKE" THEN {m.obj} ELSE {}
    BY <1>k, <1>t, RequestUnread
  <2> QED
    BY <1>o, <2>1, <2>2
<1>r. Ran(cl, k)' = {} /\ Ran(cl, k) = {}
  <2>1. Ran(cl, k) = {}
    BY <1>u DEF Untouched
  <2>2. Ran(cl, k)' = Ran(cl, k)
    BY <1>k DEF Ran
  <2> QED
    BY <2>1, <2>2
<1>1. CASE ~Known(o)
  <2>1. Sends(down, down', cl, NotFoundStatus(m, o), "none", drop)
    BY <1>1, <1>o DEF ubusd_handle_notify, Sends, ubus_msg_send
  <2>2. PICK p \in Ids : p = o
    BY DEF Ids
  <2>3. p = IF m.type = "REMOVE_OBJECT" THEN "none" ELSE m.obj
    BY <1>o, <2>2
  <2> QED
    BY <1>t, <2>1, <2>2, <2>3, NotFoundKeeps
<1>2. CASE Known(o)
  <2>s. PICK S \in SUBSET BusObjects : /\ S = Subscribers(o) /\ o \notin S
                                       /\ \A s \in S : OwnerOf[s] \in here \ {cl}
    <3>1. PICK S \in SUBSET BusObjects : S = Subscribers(o)
      BY DEF Subscribers
    <3>2. \A s \in S : <<s, o>> \in Watching /\ OwnerOf[s] \in here
      BY <3>1 DEF Subscribers, Known
    <3>3. \A s \in S : OwnerOf[s] # cl
      BY <1>u, <3>1, <3>2, BusAssumption
    <3> QED
      BY <1>u, <3>1, <3>2, <3>3
  <2>x. PICK x \in Msg : /\ x = Listing(m) /\ x.type = "STATUS" /\ x.peer = o /\ x.seq = k
                         /\ Range(x.subs) = S
    BY <1>k, <1>o, <2>s, ForwardedTo
  <2>f. PICK f : f = [c \in BusClients |-> Forwarded(c, cl, m, drop)]
    OBVIOUS
  <2>g. ASSUME NEW c \in BusClients
        PROVE  /\ f[c] = Forwarded(c, cl, m, drop) /\ f[c] \in Seq(Msg) /\ Single(f[c])
               /\ \A y : In(f[c], y) <=> \E s \in S \ drop : OwnerOf[s] = c /\ y = Asked(cl, k, s)
    <3>1. f[c] = Forwarded(c, cl, m, drop)
      BY <2>f
    <3>2. /\ Forwarded(c, cl, m, drop) \in Seq(Msg) /\ Single(Forwarded(c, cl, m, drop))
          /\ \A y : In(Forwarded(c, cl, m, drop), y) <=>
               \E s \in Subscribers(m.obj) \ drop : OwnerOf[s] = c /\ y = Asked(cl, k, s)
      <4>1. k = m.seq
        BY <1>k
      <4>2. Forwarded(c, cl, m, drop) \in Seq(Msg) /\ Single(Forwarded(c, cl, m, drop))
        BY <4>1, ForwardedTo
      <4>3. \A y : In(Forwarded(c, cl, m, drop), y) <=>
              \E s \in Subscribers(m.obj) \ drop : OwnerOf[s] = c /\ y = Asked(cl, k, s)
        BY <4>1, ForwardedTo
      <4> QED
        BY <4>2, <4>3, Zenon
    <3>3. S = Subscribers(m.obj)
      BY <1>o, <2>s
    <3> QED
      BY <3>1, <3>2, <3>3, Zenon
  <2>h. f[cl] = <<>>
    <3>1. \A y : ~In(f[cl], y)
      BY <2>g, <2>s
    <3> QED
      BY <2>g, <3>1, QueueFacts
  <2>a. ASSUME NEW s \in S
        PROVE  /\ Asked(cl, k, s) \in Msg /\ Asked(cl, k, s).type = "INVOKE"
               /\ Asked(cl, k, s).obj = s /\ Asked(cl, k, s).peer = cl /\ Asked(cl, k, s).seq = k
               /\ ~In(down[OwnerOf[s]], Asked(cl, k, s))
               /\ Asked(cl, k, s) \notin heldMsgs[OwnerOf[s]]
               /\ OwnerOf[s] \in BusClients /\ IsAsked(OwnerOf[s], Asked(cl, k, s))
    <3>0. s \in BusObjects
      OBVIOUS
    <3>1. /\ Asked(cl, k, s) \in Msg /\ Asked(cl, k, s).type = "INVOKE"
          /\ Asked(cl, k, s).obj = s /\ Asked(cl, k, s).peer = cl /\ Asked(cl, k, s).seq = k
      BY <3>0, AskedType
    <3>2. ~In(down[OwnerOf[s]], Asked(cl, k, s)) /\ Asked(cl, k, s) \notin heldMsgs[OwnerOf[s]]
      BY <1>u, <3>0 DEF Untouched, Open
    <3>3. OwnerOf[s] \in BusClients /\ OwnerOf[s] # cl
      BY <2>s, <3>0, BusAssumption
    <3> QED
      BY <1>k, <1>r, <3>1, <3>2, <3>3 DEF IsAsked
  <2>l. PICK l \in Seq(Msg) :
          /\ l = Kept(x, "none", drop) /\ Single(l)
          /\ Added(down, ubus_msg_send(down, cl, x, "none" \in drop), cl, l)
    <3>1. Sends(down, ubus_msg_send(down, cl, x, "none" \in drop), cl, x, "none", drop)
      BY DEF Sends
    <3>2. Added(down, ubus_msg_send(down, cl, x, "none" \in drop), cl, Kept(x, "none", drop))
      BY <1>t, <3>1, SendAdds
    <3> QED
      BY <3>2, KeptFacts
  <2>m. /\ "none" \in drop => \A y : ~In(l, y)
        /\ "none" \notin drop => l = <<x>> /\ In(l, x)
        /\ \A y : In(l, y) => y = x
    BY <2>l, KeptFacts
  <2>q. PICK r : r = [c \in BusClients |-> IF c = cl THEN l ELSE f[c]]
    OBVIOUS
  <2>r. /\ r \in [BusClients -> Seq(Msg)] /\ r[cl] = l /\ \A c \in BusClients : c # cl => r[c] = f[c]
        /\ \A c \in BusClients : Single(r[c])
    BY <2>g, <2>l, <2>q
  <2>d. down' = [c \in BusClients |-> down[c] \o r[c]]
    <3>1. down' = [c \in BusClients |-> ubus_msg_send(down, cl, x, "none" \in drop)[c] \o f[c]]
      BY <1>2, <1>o, <2>g, <2>x DEF ubusd_handle_notify
    <3>2. ASSUME NEW c \in BusClients
          PROVE  ubus_msg_send(down, cl, x, "none" \in drop)[c] \o f[c] = down[c] \o r[c]
      <4>1. PICK q \in Seq(Msg) : q = down[c]
        BY <1>t
      <4>2. CASE c = cl
        <5>1. ubus_msg_send(down, cl, x, "none" \in drop)[c] = q \o l
          BY <2>l, <4>1, <4>2 DEF Added
        <5>2. q \o l \in Seq(Msg)
          BY ConcatProperties
        <5>3. (q \o l) \o <<>> = q \o l
          BY <5>2, ConcatEmptySeq
        <5> QED
          BY <2>h, <2>r, <4>1, <4>2, <5>1, <5>3
      <4>3. CASE c # cl
        <5>1. ubus_msg_send(down, cl, x, "none" \in drop)[c] = q
          BY <2>l, <4>1, <4>3 DEF Added
        <5> QED
          BY <2>r, <4>1, <4>3, <5>1
      <4> QED
        BY <4>2, <4>3
    <3> QED
      BY <3>1, <3>2
  <2>1. Adds(r, cl, k)
    <3>1. ASSUME NEW c \in BusClients, NEW y, In(r[c], y)
          PROVE  /\ y.seq = k
                 /\ y.type # "INVOKE" => c = cl /\ y.type \notin Requests /\ y.type # "DATA"
                 /\ y.type = "INVOKE" =>
                      y.peer = cl /\ IsAsked(c, y) /\ ~In(down[c], y) /\ y \notin heldMsgs[c]
      <4>1. CASE c # cl
        <5>1. PICK s \in S \ drop : OwnerOf[s] = c /\ y = Asked(cl, k, s)
          BY <2>g, <2>r, <3>1, <4>1
        <5> QED
          BY <2>a, <5>1
      <4>2. CASE c = cl
        <5>1. y = x
          BY <2>m, <2>r, <3>1, <4>2
        <5> QED
          BY <2>x, <4>2, <5>1 DEF Requests
      <4> QED
        BY <4>1, <4>2
    <3>2. ASSUME NEW c \in BusClients, c \notin here PROVE r[c] = <<>>
      <4>1. c # cl
        BY <3>2
      <4>2. \A s \in S : OwnerOf[s] # c
        BY <2>s, <3>2
      <4>3. \A y : ~In(f[c], y)
        BY <2>g, <4>2
      <4> QED
        BY <2>g, <2>r, <4>1, <4>3, QueueFacts
    <3> QED
      BY <2>d, <2>r, <3>1, <3>2 DEF Adds
  <2>2. \A b \in BusObjects :
          Open(cl, k, b)' <=> Open(cl, k, b) \/ In(r[OwnerOf[b]], Asked(cl, k, b))
    <3>1. Effect(r, cl, m, cl, k)
      BY <2>1, DaemonAdds
    <3> QED
      BY <3>1 DEF Effect
  <2>3. ASSUME NEW b \in BusObjects PROVE Open(cl, k, b)' <=> b \in S \ drop
    <3>1. PICK w \in BusClients : w = OwnerOf[b]
      BY BusAssumption
    <3>2. PICK a : a = Asked(cl, k, b) /\ a.type = "INVOKE" /\ a.obj = b
      BY AskedType
    <3>3. Open(cl, k, b)' <=> In(r[w], a)
      BY <1>u, <2>2, <3>1, <3>2 DEF Untouched
    <3>4. CASE w = cl
      <4>1. ~In(r[w], a)
        BY <2>m, <2>r, <2>x, <3>2, <3>4
      <4>2. b \notin S
        BY <2>s, <3>1, <3>4
      <4> QED
        BY <3>3, <4>1, <4>2
    <3>5. CASE w # cl
      <4>1. In(r[w], a) <=> \E s \in S \ drop : OwnerOf[s] = w /\ a = Asked(cl, k, s)
        BY <2>g, <2>r, <3>5
      <4>2. \A s \in S : a = Asked(cl, k, s) => s = b
        BY <2>a, <3>2
      <4> QED
        BY <3>1, <3>2, <3>3, <4>1, <4>2
    <3> QED
      BY <3>4, <3>5
  <2>4. With(cl, k, S)' /\ \A b \in S : Owing(cl, k, b)'
    <3>1. With(cl, k, S)'
      BY <1>r, <2>3 DEF With
    <3>2. ASSUME NEW b \in S PROVE Owing(cl, k, b)'
      <4>1. Open(cl, k, b)' \/ <<cl, k>> \in incomplete'
        BY <2>3
      <4> QED
        BY <4>1 DEF Owing
    <3> QED
      BY <3>1, <3>2
  <2>5. ASSUME call[cl].seq = k, Waits(cl) PROVE Placed(cl, k)'
    <3>1. call'[cl].want = {o} /\ call'[cl].asked = {}
      BY <1>k, <1>u, <2>5
    <3>2. down'[cl] = down[cl] \o l
      BY <2>d, <2>r
    <3>3. PICK q \in Seq(Msg) : q = down[cl] /\ \A y : In(q, y) => ~IsReply(y, k)
      <4>1. PICK q \in Seq(Msg) : q = down[cl]
        BY <1>t
      <4> QED
        BY <1>u, <4>1, QueueFacts DEF Untouched, NoReply
    <3>4. CASE "none" \in drop
      <4>1. \A y : In(down'[cl], y) <=> In(q, y) \/ In(l, y)
        BY <3>2, <3>3, Joined
      <4>2. \A y \in Msg : In(down'[cl], y) => ~IsReply(y, k)
        BY <2>m, <3>3, <3>4, <4>1
      <4>3. <<cl, k>> \in incomplete' /\ S \intersect call'[cl].want = {}
        BY <2>s, <3>1, <3>4
      <4> QED
        BY <2>4, <4>2, <4>3, LeftUnanswered
    <3>5. CASE "none" \notin drop
      <4>1. down'[cl] = Append(q, x)
        BY <2>m, <3>2, <3>3, <3>5, AppendIsConcat
      <4>2. BeginsWith(Append(q, x), k, x, Ran(cl, k)')
        <5>1. IsReply(x, k)
          BY <2>x DEF IsReply
        <5> QED
          BY <3>3, <5>1, BeginsNow
      <4>3. Listed(cl, k)'
        BY <2>4, <2>x, <3>1, <4>1, <4>2 DEF Listed
      <4> QED
        BY <4>3 DEF Placed
    <3> QED
      BY <3>4, <3>5
  <2> QED
    BY <1>t, <2>1, <2>5, RequestSeen
<1> QED
  BY <1>1, <1>2

\* An answer is passed on to the client that asked, if it is still there.
LEMMA ResponseKeeps ==
  ASSUME BusInv, NEW cl \in BusClients, NEW m \in Msg, NEW p \in BusClients,
         NEW k \in 1 .. MaxCalls, Takes(cl, m, p, k), m.type \notin Requests, cl \in here,
         NEW drop, drop # {} => <<p, k>> \in incomplete', down' = ubusd_handle_response(cl, m, drop)
  PROVE  BusInv'
<1>t. BusTypeOK /\ UpInv /\ QueueInv
  BY DEF BusInv
<1>q. up[cl] \in Seq(UpMsg) /\ down \in [BusClients -> Seq(Msg)]
  BY <1>t DEF BusTypeOK
<1>v. /\ In(up[cl], m) /\ p = m.peer /\ k = m.seq /\ ran' = ran /\ call' = call /\ here' = here
      /\ freed \subseteq freed'
  BY <1>q, Taken DEF Takes
<1>p. PICK o \in BusObjects : /\ o = m.obj /\ OwnerOf[o] = cl /\ k <= call[p].seq /\ o \in Ran(p, k)
  <2>1. m.obj \in BusObjects
    BY DEF Msg
  <2>2. HasRun(cl, m)
    BY <1>t, <1>v DEF UpInv
  <2> QED
    BY <1>v, <2>1, <2>2 DEF HasRun
<1>x. PICK x \in Msg : /\ x = BusMsg("STATUS", o, o, k) /\ x.type = "STATUS" /\ x.peer = o
                       /\ x.seq = k /\ x.subs = <<>>
  <2>1. PICK t \in MsgTypes, b \in Ids : t = "STATUS" /\ b = o
    BY DEF MsgTypes, Ids
  <2> QED
    BY <2>1, BusMsgType
<1>g. PICK s \in Seq(Msg) :
        /\ Single(s) /\ Added(down, down', p, s) /\ (\A y : In(s, y) => y = x)
        /\ p \notin here => s = <<>>
        /\ Known(o) /\ p \in here => In(s, x) \/ <<p, k>> \in incomplete'
  <2>1. CASE Known(o) /\ p \in here
    <3>1. Sends(down, down', p, x, "none", drop)
      BY <1>p, <1>v, <1>x, <2>1 DEF ubusd_handle_response, Sends, ubus_msg_send
    <3>2. Added(down, down', p, Kept(x, "none", drop))
      BY <1>q, <3>1, SendAdds
    <3>3. PICK s \in Seq(Msg) : s = Kept(x, "none", drop) /\ Single(s) /\ Added(down, down', p, s)
      BY <3>2, KeptFacts
    <3>4. (\A y : In(s, y) => y = x) /\ ("none" \notin drop => In(s, x))
      BY <3>3, KeptFacts
    <3>5. In(s, x) \/ <<p, k>> \in incomplete'
      BY <3>4
    <3> QED
      BY <2>1, <3>3, <3>4, <3>5
  <2>2. CASE ~(Known(o) /\ p \in here)
    <3>1. down' = down
      BY <1>p, <1>v, <2>2 DEF ubusd_handle_response
    <3>2. PICK s : s = <<>>
      OBVIOUS
    <3>3. s \in Seq(Msg) /\ Single(s) /\ \A y : ~In(s, y)
      BY <3>2, EmptyQueue
    <3>4. ASSUME NEW c \in BusClients PROVE down[c] = IF c = p THEN down[c] \o s ELSE down[c]
      <4>1. PICK q \in Seq(Msg) : q = down[c]
        BY <1>q
      <4> QED
        BY <3>2, <4>1, ConcatEmptySeq
    <3>5. Added(down, down', p, s)
      BY <1>q, <3>1, <3>4 DEF Added
    <3> QED
      BY <2>2, <3>2, <3>3, <3>5
  <2> QED
    BY <2>1, <2>2
<1>r. PICK r : Only(r, p, s)
  BY <1>g, <1>t, OnlyAdds
<1>s. /\ r \in [BusClients -> Seq(Msg)] /\ down' = [c \in BusClients |-> down[c] \o r[c]]
      /\ \A c \in BusClients : /\ Single(r[c]) /\ (c # p => r[c] = <<>>) /\ (c = p => r[c] = s)
                               /\ \A y : In(r[c], y) <=> c = p /\ In(s, y)
  BY <1>r DEF Only
<1>a. Adds(r, p, k)
  <2>1. ASSUME NEW c \in BusClients, c \notin here PROVE r[c] = <<>>
    BY <1>g, <1>s, <2>1
  <2>2. \A c \in BusClients : \A y : In(r[c], y) => c = p /\ y = x
    BY <1>g, <1>s
  <2>3. x.seq = k /\ x.type \notin Requests /\ x.type \notin {"INVOKE", "DATA"}
    BY <1>x DEF Requests
  <2> QED
    BY <1>s, <2>1, <2>2, <2>3 DEF Adds
<1>1. /\ BusTypeOK' /\ UpInv' /\ DownInv' /\ QueueInv' /\ RanInv'
      /\ \A c \in BusClients, n \in 1 .. MaxCalls : c # p \/ n # k => Same(c, n)
      /\ Effect(r, cl, m, p, k)
  BY <1>a, DaemonAdds
<1>f. /\ \A y : In(down'[p], y) <=> In(down[p], y) \/ In(r[p], y)
      /\ \A y : In(up[cl], y) <=> y = m \/ In(up'[cl], y)
      /\ \A b \in BusObjects : Owing(p, k, b) /\ m # BusMsg("STATUS", b, p, k) => Owing(p, k, b)'
      /\ \A b \in BusObjects :
           Open(p, k, b)' <=> Open(p, k, b) \/ In(r[OwnerOf[b]], Asked(p, k, b))
  BY <1>1 DEF Effect
<1>o. \A b \in BusObjects : Open(p, k, b)' <=> Open(p, k, b)
  <2>1. \A b \in BusObjects : Asked(p, k, b) # x /\ OwnerOf[b] \in BusClients
    BY <1>x, AskedType, BusAssumption
  <2> QED
    BY <1>f, <1>g, <1>s, <2>1
<1>n. Ran(p, k)' = Ran(p, k)
  BY <1>v DEF Ran
<1>2. ~Unread(p, k) /\ ~Unread(p, k)'
  <2>1. FreshOK(p, k)
    BY DEF BusInv
  <2>2. ~Unread(p, k)
    BY <1>p, <2>1 DEF FreshOK, Untouched
  <2>3. \A y \in Msg : In(up'[p], y) => In(up[p], y)
    <3>1. p # cl => up'[p] = up[p]
      BY <1>t DEF BusTypeOK, Takes
    <3> QED
      BY <1>f, <3>1
  <2> QED
    BY <2>2, <2>3 DEF Unread
<1>3. FreshOK(p, k)'
  <2>1. call[p].seq \in Nat
    BY <1>t, SeqType DEF BusTypeOK
  <2>2. ~(k > call[p].seq)
    BY <1>p, <2>1
  <2> QED
    BY <1>2, <1>v, <2>2 DEF FreshOK
<1>4. ASSUME call[p].seq = k PROVE WaitsOK(p)' /\ EndOK(p)'
  <2>0. WaitsOK(p) /\ EndOK(p) /\ k > 0
    BY DEF BusInv
  <2>1. EndOK(p)'
    BY <1>2, <1>4, <1>n, <1>o, <1>v, <2>0 DEF EndOK
  <2>2. ASSUME Waits(p) PROVE Placed(p, k)'
    <3>0. p \in here
      BY <1>t, <2>2 DEF QueueInv, Waits
    <3>1. Listed(p, k) \/ Forwarding(p, k) \/ Unanswered(p, k)
      <4>1. ~Sent(p, k)
        BY <1>2 DEF Sent, Unread
      <4>2. ~NotFound(p, k)
        BY <1>p DEF NotFound
      <4> QED
        BY <1>4, <2>0, <2>2, <4>1, <4>2 DEF WaitsOK, Placed
    <3>2. ByHandler(x, Ran(p, k)) /\ \A y : In(r[p], y) => y = x
      BY <1>g, <1>p, <1>s, <1>x DEF ByHandler
    <3>3. \A b \in BusObjects : Owing(p, k, b) => Owing(p, k, b)'
      <4> SUFFICES ASSUME NEW b \in BusObjects, Owing(p, k, b) PROVE Owing(p, k, b)'
        OBVIOUS
      <4>1. CASE m = BusMsg("STATUS", b, p, k)
        <5>1. b = o
          BY <1>p, <4>1 DEF BusMsg
        <5>2. ~Known(o) => ~Known(o)'
          BY <1>v DEF Known
        <5>3. Known(o) => In(down'[p], x) \/ <<p, k>> \in incomplete'
          BY <1>f, <1>g, <1>s, <3>0
        <5> QED
          BY <1>x, <5>1, <5>2, <5>3 DEF Owing
      <4>2. CASE m # BusMsg("STATUS", b, p, k)
        BY <1>f, <4>2
      <4> QED
        BY <4>1, <4>2
    <3>4. \A objs \in SUBSET BusObjects : With(p, k, objs) => With(p, k, objs)'
      BY <1>n, <1>o DEF With
    <3>5. CASE Listed(p, k)
      <4>1. PICK y \in Msg :
              /\ BeginsWith(down[p], k, y, Ran(p, k))
              /\ (y.type = "NOT_FOUND" => call[p].type = "NOTIFY")
              /\ call[p].want = {y.peer} /\ call[p].asked = {}
              /\ With(p, k, Range(y.subs)) /\ \A b \in Range(y.subs) : Owing(p, k, b)
        BY <3>5 DEF Listed
      <4>2. PICK objs \in SUBSET BusObjects : objs = Range(y.subs)
        BY SubsType
      <4>3. BeginsWith(down'[p], k, y, Ran(p, k)')
        <5>1. PICK q \in Seq(Msg) : q = down[p] /\ s = r[p]
          BY <1>q, <1>s
        <5>2. BeginsWith(q \o s, k, y, Ran(p, k))
          BY <3>2, <4>1, <5>1, BeginsJoined
        <5> QED
          BY <1>n, <1>s, <5>1, <5>2
      <4>4. With(p, k, objs)' /\ \A b \in objs : Owing(p, k, b)'
        BY <3>3, <3>4, <4>1, <4>2
      <4>5. Listed(p, k)'
        BY <1>v, <4>1, <4>2, <4>3, <4>4 DEF Listed
      <4> QED
        BY <4>5 DEF Placed
    <3>6. CASE Forwarding(p, k)
      <4>1. PICK objs \in SUBSET BusObjects : objs = call[p].asked
        BY <1>t DEF BusTypeOK, Call
      <4>2. With(p, k, objs)'
        BY <3>4, <3>6, <4>1 DEF Forwarding
      <4>3. \A b \in call[p].want : Owing(p, k, b)'
        BY <3>3, <3>6, <4>1 DEF Forwarding
      <4>4. \A y \in Msg : In(down'[p], y) /\ IsReply(y, k) => ByHandler(y, Ran(p, k)')
        BY <1>f, <1>n, <3>2, <3>6 DEF Forwarding
      <4>5. /\ call[p].want \subseteq call[p].asked /\ call[p].want # {}
            /\ call[p].asked \ call[p].want \subseteq Ran(p, k)'
        BY <1>n, <3>6 DEF Forwarding
      <4>6. Forwarding(p, k)'
        BY <1>v, <4>1, <4>2, <4>3, <4>4, <4>5 DEF Forwarding
      <4> QED
        BY <4>6 DEF Placed
    <3>7. CASE Unanswered(p, k)
      <4>1. PICK objs \in SUBSET BusObjects : objs \intersect call[p].want = {} /\ With(p, k, objs)
        BY <3>7 DEF Unanswered
      <4>2. \A y \in Msg : In(down'[p], y) /\ IsReply(y, k) => ByHandler(y, Ran(p, k)')
        BY <1>f, <1>n, <3>2, <3>7 DEF Unanswered
      <4>3. <<p, k>> \in incomplete'
        BY <3>7 DEF Unanswered, Takes
      <4>4. With(p, k, objs)'
        BY <3>4, <4>1
      <4>5. Unanswered(p, k)'
        BY <1>v, <4>1, <4>2, <4>3, <4>4 DEF Unanswered
      <4> QED
        BY <4>5 DEF Placed
    <3> QED
      BY <3>1, <3>5, <3>6, <3>7
  <2>3. WaitsOK(p)'
    BY <1>2, <1>4, <1>v, <2>0, <2>2 DEF WaitsOK, Waits
  <2> QED
    BY <2>1, <2>3
<1> QED
  BY <1>1, <1>3, <1>4, <1>v, OneTouched

\* An answer that names nobody is dropped.
LEMMA ZeroedKeeps ==
  ASSUME BusInv, NEW cl \in BusClients, up[cl] # <<>>, Head(up[cl]) = ZeroedAnswer,
         up' = [up EXCEPT ![cl] = Tail(up[cl])],
         UNCHANGED <<here, freed, unlisted, down, call, heldMsgs, deferred, ran, incomplete>>
  PROVE  BusInv'
<1>t. BusTypeOK /\ UpInv /\ DownInv /\ QueueInv /\ RanInv
  BY DEF BusInv
<1>q. up[cl] \in Seq(UpMsg) /\ Single(up[cl])
  BY <1>t DEF BusTypeOK, QueueInv
<1>u. up'[cl] = Tail(up[cl]) /\ \A c \in BusClients : c # cl => up'[c] = up[c]
  BY <1>t DEF BusTypeOK
<1>i. /\ up'[cl] \in Seq(UpMsg) /\ Single(up'[cl])
      /\ \A x : In(up[cl], x) <=> x = ZeroedAnswer \/ In(up'[cl], x)
  BY <1>q, <1>u, Taken
<1>z. ZeroedAnswer \notin Msg /\ \A o \in BusObjects : \A c, n : BusMsg("STATUS", o, c, n) # ZeroedAnswer
  BY Zeroed
<1>r. \A c, n : Ran(c, n)' = Ran(c, n)
  BY DEF Ran
<1>o. \A c, n, b : (Open(c, n, b)' <=> Open(c, n, b)) /\ (Known(b)' <=> Known(b))
                   /\ Asked(c, n, b)' = Asked(c, n, b)
  BY DEF Open, Asked, Known, BusMsg
<1>1. BusTypeOK'
  <2>1. up' \in [BusClients -> Seq(UpMsg)]
    BY <1>i, <1>t, <1>u DEF BusTypeOK
  <2> QED
    BY <1>t, <2>1 DEF BusTypeOK
<1>2. UpInv'
  <2>1. \A c \in BusClients : \A x \in Msg : In(up'[c], x) => In(up[c], x)
    BY <1>i, <1>u
  <2> QED
    BY <1>r, <1>t, <2>1, UpKeeps
<1>3. DownInv'
  <2>1. /\ \A c \in BusClients : \A x \in Msg : In(down'[c], x) => In(down[c], x)
        /\ \A c \in BusClients : heldMsgs'[c] = heldMsgs[c] /\ deferred'[c] = deferred[c]
    OBVIOUS
  <2> QED
    BY <1>r, <1>t, <2>1, DownKeeps
<1>4. QueueInv' /\ RanInv'
  <2>1. ASSUME NEW c \in BusClients, c \notin here PROVE up'[c] = <<>>
    BY <1>t, <1>u, <2>1 DEF QueueInv
  <2>2. QueueInv'
    BY <1>i, <1>t, <1>u, <2>1 DEF QueueInv
  <2> QED
    BY <1>t, <2>2 DEF RanInv
<1>5. ASSUME NEW c \in BusClients, NEW n \in 1 .. MaxCalls PROVE Same(c, n)
  <2>1. \A x \in Msg : In(up'[c], x) <=> In(up[c], x)
    BY <1>i, <1>u, <1>z
  <2>2. ASSUME NEW b \in BusObjects, Owing(c, n, b) PROVE Owing(c, n, b)'
    <3>1. PICK w \in BusClients : w = OwnerOf[b]
      BY BusAssumption
    <3>2. In(up[w], BusMsg("STATUS", b, c, n)) => In(up'[w], BusMsg("STATUS", b, c, n))
      BY <1>i, <1>u, <1>z
    <3> QED
      BY <1>o, <2>2, <3>1, <3>2 DEF Owing
  <2> QED
    BY <1>o, <1>r, <2>1, <2>2 DEF Same
<1> QED
  BY <1>1, <1>2, <1>3, <1>4, <1>5, NoneTouched

\* The daemon handles a message of one of its clients.
LEMMA DaemonKeeps ==
  ASSUME BusInv, NEW cl \in BusClients, ubusd_proto_receive_message(cl)
  PROVE  BusInv'
<1>1. up[cl] \in Seq(UpMsg) /\ up[cl] # <<>> /\ BusTypeOK /\ UpInv
  BY DEF BusInv, BusTypeOK, ubusd_proto_receive_message
<1>2. PICK m \in UpMsg : m = Head(up[cl]) /\ In(up[cl], m)
  BY <1>1, Taken
<1>3. PICK drop \in SUBSET SentFor(cl, m) :
        /\ down' = CASE m.type = "INVOKE" -> ubusd_handle_invoke(cl, m, drop)
                     [] m.type = "NOTIFY" -> ubusd_handle_notify(cl, m, drop)
                     [] m.type = "REMOVE_OBJECT" -> ubusd_handle_remove_object(cl, m, drop)
                     [] OTHER -> ubusd_handle_response(cl, m, drop)
        /\ freed' = IF m.type = "REMOVE_OBJECT" /\ Known(m.obj) THEN freed \union {m.obj} ELSE freed
        /\ incomplete' = IF drop = {} THEN incomplete ELSE incomplete \union {<<Asker(cl, m), m.seq>>}
  BY <1>2 DEF ubusd_proto_receive_message
<1>4. /\ cl \in here /\ up' = [up EXCEPT ![cl] = Tail(up[cl])]
      /\ UNCHANGED <<here, unlisted, call, heldMsgs, deferred, ran>>
  BY DEF ubusd_proto_receive_message
<1>5. CASE m = ZeroedAnswer
  <2>1. m.type = "STATUS" /\ ~Known(m.obj)
    BY <1>5, Zeroed, BusAssumption DEF Known
  <2>2. \A ds : ubusd_handle_response(cl, m, ds) = down
    BY <2>1 DEF ubusd_handle_response
  <2>3. SentFor(cl, m) = {}
    BY <2>1, <2>2 DEF SentFor
  <2>4. drop = {}
    BY <2>3
  <2>5. down' = down /\ freed' = freed /\ incomplete' = incomplete
    BY <1>3, <2>1, <2>2, <2>4
  <2> QED
    BY <1>1, <1>2, <1>4, <1>5, <2>5, ZeroedKeeps
<1>6. CASE m \in Msg
  <2>1. PICK k \in 1 .. MaxCalls : k = m.seq
    BY <1>6, SeqType
  <2>2. freed \subseteq freed' /\ freed' \subseteq BusObjects /\ incomplete \subseteq incomplete'
    <3>1. m.obj \in BusObjects
      BY <1>6 DEF Msg
    <3> QED
      BY <1>1, <1>3, <3>1 DEF BusTypeOK
  <2>3. CASE m.type \in Requests
    <3>1. k <= call[cl].seq
      BY <1>2, <1>6, <2>1, <2>3, RequestUnread
    <3>2. Takes(cl, m, cl, k)
      BY <1>1, <1>2, <1>4, <2>1, <2>2, <2>3, <3>1 DEF Takes
    <3>3. drop # {} => <<cl, k>> \in incomplete'
      BY <1>3, <2>1, <2>3 DEF Asker, Requests
    <3>4. CASE m.type = "INVOKE"
      <4>1. down' = ubusd_handle_invoke(cl, m, drop)
        BY <1>3, <3>4
      <4> QED
        BY <1>4, <1>6, <3>2, <3>3, <3>4, <4>1, InvokeKeeps
    <3>5. CASE m.type = "NOTIFY"
      <4>1. down' = ubusd_handle_notify(cl, m, drop)
        BY <1>3, <3>5
      <4> QED
        BY <1>4, <1>6, <3>2, <3>3, <3>5, <4>1, NotifyKeeps
    <3>6. CASE m.type = "REMOVE_OBJECT"
      <4>1. /\ down' = ubusd_handle_remove_object(cl, m, drop)
            /\ Known(m.obj) => freed' = freed \union {m.obj}
        BY <1>3, <3>6
      <4> QED
        BY <1>4, <1>6, <3>2, <3>3, <3>6, <4>1, RemoveKeeps
    <3> QED
      BY <2>3, <3>4, <3>5, <3>6 DEF Requests
  <2>4. CASE m.type \notin Requests
    <3>1. m.type = "STATUS" /\ HasRun(cl, m)
      BY <1>1, <1>2, <1>6, <2>4 DEF UpInv
    <3>2. PICK p \in BusClients : p = m.peer /\ k <= call[p].seq
      BY <2>1, <3>1 DEF HasRun
    <3>3. Takes(cl, m, p, k)
      BY <1>1, <1>2, <1>4, <2>1, <2>2, <2>4, <3>2 DEF Takes
    <3>4. drop # {} => <<p, k>> \in incomplete'
      BY <1>3, <2>1, <3>1, <3>2 DEF Asker
    <3>5. down' = ubusd_handle_response(cl, m, drop)
      BY <1>3, <3>1
    <3> QED
      BY <1>4, <1>6, <2>4, <3>3, <3>4, <3>5, ResponseKeeps
  <2> QED
    BY <2>3, <2>4
<1> QED
  BY <1>5, <1>6 DEF UpMsg

-----------------------------------------------------------------------------
(* The theorems *)

\* BusInv is inductive.
LEMMA BusNextInv == BusInv /\ [BusNext]_busVars => BusInv'
<1> SUFFICES ASSUME BusInv, [BusNext]_busVars PROVE BusInv'
  OBVIOUS
<1>1. CASE BusNext
  <2>1. PICK c \in BusClients :
          \/ \E o \in BusObjects :
               ubus_invoke_object(c, o) \/ ubus_notify_subscribers(c, o) \/ RemoveObject(c, o)
          \/ GiveUp(c) \/ ReceiveStatus(c) \/ ubus_remove_object_cb(c) \/ ReceiveInvoke(c)
          \/ \E m \in heldMsgs[c] : ubus_process_invoke(c, m)
          \/ \E m \in deferred[c] : ubus_complete_deferred_request(c, m)
          \/ ubusd_proto_receive_message(c) \/ Leave(c)
    BY <1>1 DEF BusNext
  <2>r. {"INVOKE", "NOTIFY", "REMOVE_OBJECT"} \subseteq Requests
    BY DEF Requests
  <2>2. ASSUME NEW o \in BusObjects, ubus_invoke_object(c, o) PROVE BusInv'
    <3>1. Request(c, "INVOKE", o, {o}, {o}) /\ OwnerOf[o] # c
      BY <2>2 DEF ubus_invoke_object
    <3> QED
      BY <2>r, <3>1, RequestKeeps
  <2>3. ASSUME NEW o \in BusObjects, ubus_notify_subscribers(c, o) PROVE BusInv'
    <3>1. Request(c, "NOTIFY", o, {o}, {}) /\ OwnerOf[o] = c
      BY <2>3 DEF ubus_notify_subscribers
    <3> QED
      BY <2>r, <3>1, RequestKeeps
  <2>4. ASSUME NEW o \in BusObjects, RemoveObject(c, o) PROVE BusInv'
    <3>1. Request(c, "REMOVE_OBJECT", o, {"none"}, {}) /\ OwnerOf[o] = c
      BY <2>4 DEF RemoveObject
    <3> QED
      BY <2>r, <3>1, RequestKeeps
  <2> QED
    BY <2>1, <2>2, <2>3, <2>4, GiveUpKeeps, ReceiveStatusKeeps, ReceiveKeeps, ProcessKeeps,
       CompleteKeeps, DaemonKeeps, LeaveKeeps
<1>2. CASE UNCHANGED busVars
  <2>1. UNCHANGED <<here, freed, unlisted, up, down, call, heldMsgs, deferred, ran, incomplete>>
    BY <1>2 DEF busVars
  <2>2. BusTypeOK' /\ UpInv' /\ DownInv' /\ QueueInv' /\ RanInv'
    <3>1. BusTypeOK' /\ QueueInv' /\ RanInv'
      BY <2>1 DEF BusInv, BusTypeOK, QueueInv, RanInv
    <3>2. UpInv' /\ DownInv'
      BY <2>1 DEF BusInv, UpInv, DownInv, IsAsked, HasRun, Ran, Asked, BusMsg
    <3> QED
      BY <3>1, <3>2
  <2>3. \A c, n, o : (Open(c, n, o)' <=> Open(c, n, o)) /\ (Owing(c, n, o)' <=> Owing(c, n, o))
    <3>1. \A c, n, o : (Open(c, n, o)' <=> Open(c, n, o)) /\ (Known(o)' <=> Known(o))
                       /\ Asked(c, n, o)' = Asked(c, n, o)
      BY <2>1 DEF Open, Known, Asked, BusMsg
    <3> QED
      BY <2>1, <3>1 DEF Owing
  <2>4. \A c \in BusClients, n \in 1 .. MaxCalls : Same(c, n)
    BY <2>1, <2>3 DEF Same, Ran
  <2> QED
    BY <2>1, <2>2, <2>4, NoneTouched
<1> QED
  BY <1>1, <1>2

\* What BusInv says of a request of any number, said of handled requests.
LEMMA BusInvHandledOnce == BusInv => HandledOnce
<1> SUFFICES ASSUME BusInv, NEW c \in BusClients, call[c].seq > 0
             PROVE  LET objs == ran[c][call[c].seq]
                    IN  /\ IsInjective(objs)
                        /\ call[c].st = "done" => Range(objs) = call[c].asked
                        /\ call[c].st = "notfound" => objs = <<>>
  BY DEF HandledOnce
<1>1. PICK n \in 1 .. MaxCalls : n = call[c].seq
  BY BusAssumption DEF BusInv, BusTypeOK, Call
<1>2. PICK s \in Seq(BusObjects) : s = ran[c][n]
  BY DEF BusInv, BusTypeOK
<1>3. Len(s) \in Nat /\ DOMAIN s = 1 .. Len(s)
  BY LenProperties
<1>4. IsInjective(s)
  <2>1. \A i, j \in 1 .. Len(s) : s[i] = s[j] => i = j
    BY <1>2 DEF BusInv, RanInv
  <2> QED
    BY <1>3, <2>1 DEF IsInjective
<1>5. Range(s) = Ran(c, n)
  BY <1>2, <1>3 DEF Range, Ran
<1>6. EndOK(c)
  BY DEF BusInv
<1>7. call[c].st = "done" => Range(s) = call[c].asked
  BY <1>1, <1>5, <1>6 DEF EndOK
<1>8. ASSUME call[c].st = "notfound" PROVE s = <<>>
  <2>1. Ran(c, n) = {}
    BY <1>1, <1>6, <1>8 DEF EndOK
  <2>2. 1 \notin 1 .. Len(s)
    BY <1>2, <2>1 DEF Ran
  <2>3. Len(s) = 0
    BY <1>3, <2>2
  <2> QED
    BY <2>3, EmptySeq
<1> QED
  BY <1>1, <1>2, <1>4, <1>7, <1>8
\* A request that was forwarded, of a client whose messages have all been read, is with
\* an object that is gone or with a client that itself waits, if nothing was dropped.
LEMMA ForwardedWaits ==
  ASSUME BusInv, AtRest, NEW c \in BusClients, c \in here, NEW n \in 1 .. MaxCalls,
         Forwarding(c, n), <<c, n>> \notin incomplete
  PROVE  \E o \in call[c].want \intersect BusObjects :
           ~Known(o) \/ (OwnerOf[o] # c /\ Waits(OwnerOf[o]))
<1>1. PICK o \in call[c].want : Owing(c, n, o)
  BY DEF Forwarding
<1>2. o \in BusObjects
  BY <1>1 DEF Forwarding, BusInv, BusTypeOK, Call
<1>3. ASSUME Known(o) PROVE OwnerOf[o] # c /\ Waits(OwnerOf[o])
  <2>1. PICK w \in BusClients : w = OwnerOf[o]
    BY <1>2, BusAssumption
  <2>2. w \in here
    BY <1>3, <2>1 DEF Known
  <2>3. \A m : ~In(up[w], m) /\ ~In(down[w], m) /\ ~In(down[c], m)
    <3>1. Len(<<>>) = 0 /\ 1 .. 0 = {}
      OBVIOUS
    <3> QED
      BY <2>2, <3>1 DEF AtRest, In
  <2>4. PICK k : k = Asked(c, n, o)
    OBVIOUS
  <2>5. k \in heldMsgs[w] \/ k \in deferred[w]
    BY <1>1, <1>3, <2>1, <2>3, <2>4 DEF Owing, Open
  <2>6. Waits(w)
    BY <2>2, <2>5 DEF AtRest
  <2>7. k.peer \in BusClients \ {w}
    BY <2>5 DEF BusInv, DownInv, IsAsked, HasRun
  <2>8. k.peer = c
    BY <2>4 DEF Asked, BusMsg
  <2> QED
    BY <2>1, <2>6, <2>7, <2>8
<1> QED
  BY <1>1, <1>2, <1>3

\* At rest a request that a client waits for lost a message or was forwarded.
LEMMA BusInvWaits == BusInv => WaitsForAReason
<1> SUFFICES ASSUME BusInv, AtRest, NEW c \in here, Waits(c),
                    <<c, call[c].seq>> \notin incomplete
             PROVE  \E o \in call[c].want \intersect BusObjects :
                      ~Known(o) \/ (OwnerOf[o] # c /\ Waits(OwnerOf[o]))
  BY DEF WaitsForAReason
<1>1. c \in BusClients
  BY DEF BusInv, BusTypeOK
<1>2. WaitsOK(c)
  BY <1>1 DEF BusInv
<1>3. call[c].seq \in 1 .. MaxCalls
  BY <1>1, <1>2, BusAssumption DEF WaitsOK, BusInv, BusTypeOK, Call
<1>4. PICK n \in 1 .. MaxCalls : n = call[c].seq
  BY <1>3
<1>5. \A m : ~In(up[c], m) /\ ~In(down[c], m)
  <2>1. Len(<<>>) = 0 /\ 1 .. 0 = {}
    OBVIOUS
  <2> QED
    BY <2>1 DEF AtRest, In
<1>6. ~Sent(c, n) /\ ~NotFound(c, n) /\ ~Listed(c, n)
  BY <1>5, BeginsMeans DEF Sent, NotFound, Listed
<1>7. Forwarding(c, n)
  BY <1>2, <1>4, <1>6 DEF WaitsOK, Placed, Unanswered
<1> QED
  BY <1>1, <1>4, <1>7, ForwardedWaits

\* The invariant of the bus: every request is in the one place it should be, for any
\* clients, objects and subscriptions and any number of requests.
THEOREM BusStaysInv == BusSpec => []BusInv
<1>1. BusInit => BusInv
  BY BusInitInv
<1>2. BusInv /\ [BusNext]_busVars => BusInv'
  BY BusNextInv
<1> QED
  BY <1>1, <1>2, PTL DEF BusSpec

\* No object handles a request twice, one that ended well was handled by exactly the
\* objects it was for and one that found no object by none, whoever leaves, removes an
\* object, gives up or answers late and whatever the daemon drops: what
\* ubus_process_req_msg and ubusd_handle_response do with the ids in the messages suffices.
THEOREM RequestsHandledOnce == BusSpec => []HandledOnce
<1>1. BusInv => HandledOnce
  BY BusInvHandledOnce
<1> QED
  BY <1>1, BusStaysInv, PTL

\* The daemon keeps no record of what it has forwarded; still, at rest, a client waits
\* only because the daemon dropped a message of its request, because the object it asked
\* is gone (removed, or its client left, which nobody is told), or for another client
\* that itself waits.
THEOREM NobodyWaitsForNothing == BusSpec => []WaitsForAReason
<1>1. BusInv => WaitsForAReason
  BY BusInvWaits
<1> QED
  BY <1>1, BusStaysInv, PTL

-----------------------------------------------------------------------------
(* Texts and how much they have in common. *)

\* The first n letters of two texts are the same.
Common(s, t, n) == n \in 0 .. Len(s) /\ n <= Len(t) /\ \A i \in 1 .. n : s[i] = t[i]

\* strmatch_len counts all letters that two texts have in common.
LEMMA Matched ==
  ASSUME NEW s \in Seq(Int), NEW t \in Seq(Int)
  PROVE  /\ MatchLen(s, t) \in Nat /\ Common(s, t, MatchLen(s, t))
         /\ \A n : Common(s, t, n) => n <= MatchLen(s, t)
<1>1. Len(s) \in Nat /\ Len(t) \in Nat
  BY LenProperties
<1>2. PICK T : T = {n \in 0 .. Len(s) : n <= Len(t) /\ \A i \in 1 .. n : s[i] = t[i]}
  OBVIOUS
<1>3. 0 \in T /\ T \subseteq Nat /\ \A n \in T : n <= Len(s)
  BY <1>1, <1>2
<1>4. PICK U : U = {x \in 0 .. Len(s) : Len(s) - x \in T}
  OBVIOUS
<1>5. U \in SUBSET Nat /\ Len(s) \in U
  BY <1>1, <1>3, <1>4
<1>6. PICK x \in U : \A y \in U : x <= y
  BY <1>5, LeastFound
<1>7. PICK m \in T : m = Len(s) - x
  BY <1>4, <1>6
<1>8. \A k \in T : k <= m
  <2>. TAKE k \in T
  <2>1. Len(s) - k \in U
    BY <1>1, <1>3, <1>4
  <2>2. x <= Len(s) - k
    BY <1>6, <2>1
  <2>3. x \in Nat /\ k \in Nat
    BY <1>3, <1>5
  <2>. QED
    BY <1>1, <1>7, <2>2, <2>3
<1>9. MatchLen(s, t) = CHOOSE n \in T : \A k \in T : k <= n
  BY <1>2, Zenon DEF MatchLen
<1>10. MatchLen(s, t) \in T /\ \A k \in T : k <= MatchLen(s, t)
  BY <1>8, <1>9, Zenon
<1>. QED
  BY <1>2, <1>3, <1>10 DEF Common

\* The texts differ after the letters they have in common, and NotAfter, which is
\* strcmp(s, t) <= 0, says that s ends there or goes on with a smaller letter.
LEMMA Ordered ==
  ASSUME NEW s \in Seq(Int), NEW t \in Seq(Int)
  PROVE  NotAfter(s, t) <=>
           \E n \in Nat : /\ Common(s, t, n)
                          /\ n = Len(s) \/ (n < Len(s) /\ n < Len(t) /\ s[n + 1] < t[n + 1])
<1>1. Len(s) \in Nat /\ Len(t) \in Nat /\ \A i \in 1 .. Len(s) : s[i] \in Int
  BY LenProperties, ElementOfSeq
<1>2. PICK m \in Nat : m = MatchLen(s, t) /\ Common(s, t, m) /\ \A n : Common(s, t, n) => n <= m
  BY Matched
<1>3. m <= Len(s) /\ m <= Len(t)
  BY <1>1, <1>2 DEF Common
<1>4. NotAfter(s, t) <=> m = Len(s) \/ (m < Len(t) /\ s[m + 1] < t[m + 1])
  BY <1>2 DEF NotAfter
<1>5. ASSUME NEW n \in Nat, Common(s, t, n), n = Len(s) \/ (n < Len(s) /\ n < Len(t) /\ s[n + 1] < t[n + 1])
      PROVE  m = n
  <2>1. n <= m
    BY <1>2, <1>5
  <2>2. CASE n = Len(s)
    BY <1>1, <1>3, <2>1, <2>2
  <2>3. CASE n < Len(s) /\ n < Len(t) /\ s[n + 1] < t[n + 1]
    <3>1. n + 1 \in 1 .. Len(s) /\ s[n + 1] \in Int
      BY <1>1, <2>3
    <3>2. s[n + 1] # t[n + 1]
      BY <2>3, <3>1
    <3>3. ~(n + 1 <= m)
      BY <1>2, <3>2 DEF Common
    <3>. QED
      BY <2>1, <3>3
  <2>. QED
    BY <1>5, <2>2, <2>3
<1>6. ASSUME NotAfter(s, t)
      PROVE  m = Len(s) \/ (m < Len(s) /\ m < Len(t) /\ s[m + 1] < t[m + 1])
  BY <1>1, <1>3, <1>4, <1>6
<1>7. ASSUME NEW n \in Nat, Common(s, t, n), n = Len(s) \/ (n < Len(s) /\ n < Len(t) /\ s[n + 1] < t[n + 1])
      PROVE  NotAfter(s, t)
  BY <1>4, <1>5, <1>7
<1>. QED
  BY <1>2, <1>6, <1>7

\* The order of texts is total.
LEMMA EitherOrder ==
  ASSUME NEW s \in Seq(Int), NEW t \in Seq(Int)
  PROVE  NotAfter(s, t) \/ NotAfter(t, s)
<1>1. /\ Len(s) \in Nat /\ Len(t) \in Nat
      /\ \A i \in 1 .. Len(s) : s[i] \in Int
      /\ \A i \in 1 .. Len(t) : t[i] \in Int
  BY LenProperties, ElementOfSeq
<1>2. PICK m \in Nat : Common(s, t, m) /\ \A n : Common(s, t, n) => n <= m
  BY Matched
<1>3. m <= Len(s) /\ m <= Len(t) /\ Common(t, s, m)
  BY <1>1, <1>2 DEF Common
<1>4. CASE m = Len(s)
  BY <1>2, <1>4, Ordered
<1>5. CASE m = Len(t)
  BY <1>3, <1>5, Ordered
<1>6. CASE m < Len(s) /\ m < Len(t)
  <2>1. m + 1 \in 1 .. Len(s) /\ m + 1 \in 1 .. Len(t)
    BY <1>1, <1>6
  <2>2. s[m + 1] \in Int /\ t[m + 1] \in Int
    BY <1>1, <2>1
  <2>3. s[m + 1] # t[m + 1]
    <3>. SUFFICES ASSUME s[m + 1] = t[m + 1] PROVE FALSE
      OBVIOUS
    <3>1. \A i \in 1 .. m + 1 : i \in 1 .. m \/ i = m + 1
      OBVIOUS
    <3>2. Common(s, t, m + 1)
      BY <1>1, <1>2, <1>6, <3>1 DEF Common
    <3>3. m + 1 <= m
      BY <1>2, <3>2
    <3>. QED
      BY <3>3
  <2>4. CASE s[m + 1] < t[m + 1]
    BY <1>2, <1>6, <2>4, Ordered
  <2>5. CASE t[m + 1] < s[m + 1]
    BY <1>3, <1>6, <2>5, Ordered
  <2>. QED
    BY <2>2, <2>3, <2>4, <2>5
<1>. QED
  BY <1>1, <1>3, <1>4, <1>5, <1>6

\* The order of texts is transitive.
LEMMA OrderedOn ==
  ASSUME NEW a \in Seq(Int), NEW b \in Seq(Int), NEW c \in Seq(Int), NotAfter(a, b), NotAfter(b, c)
  PROVE  NotAfter(a, c)
<1>1. /\ Len(a) \in Nat /\ Len(b) \in Nat /\ Len(c) \in Nat
      /\ \A i \in 1 .. Len(a) : a[i] \in Int
      /\ \A i \in 1 .. Len(b) : b[i] \in Int
      /\ \A i \in 1 .. Len(c) : c[i] \in Int
  BY LenProperties, ElementOfSeq
<1>2. PICK m \in Nat : /\ Common(a, b, m)
                       /\ m = Len(a) \/ (m < Len(a) /\ m < Len(b) /\ a[m + 1] < b[m + 1])
  BY Ordered
<1>3. PICK n \in Nat : /\ Common(b, c, n)
                       /\ n = Len(b) \/ (n < Len(b) /\ n < Len(c) /\ b[n + 1] < c[n + 1])
  BY Ordered
<1>4. m <= Len(a) /\ m <= Len(b) /\ n <= Len(b) /\ n <= Len(c)
  BY <1>1, <1>2, <1>3 DEF Common
<1>5. CASE n < m
  <2>1. n < Len(b) /\ n < Len(c) /\ b[n + 1] < c[n + 1]
    BY <1>1, <1>3, <1>4, <1>5
  <2>2. a[n + 1] = b[n + 1] /\ n < Len(a)
    <3>1. n + 1 \in 1 .. m /\ n < Len(a)
      BY <1>1, <1>4, <1>5
    <3>. QED
      BY <1>2, <3>1 DEF Common
  <2>3. Common(a, c, n)
    <3>1. n \in 0 .. Len(a) /\ \A i \in 1 .. n : i \in 1 .. m
      BY <1>1, <1>4, <1>5
    <3>. QED
      BY <1>2, <1>3, <3>1 DEF Common
  <2>. QED
    BY <2>1, <2>2, <2>3, Ordered
<1>6. CASE m <= n
  <2>1. Common(a, c, m)
    <3>1. m \in 0 .. Len(a) /\ m <= Len(c) /\ \A i \in 1 .. m : i \in 1 .. n
      BY <1>1, <1>4, <1>6
    <3>. QED
      BY <1>2, <1>3, <3>1 DEF Common
  <2>2. CASE m = Len(a)
    BY <2>1, <2>2, Ordered
  <2>3. CASE m < Len(a) /\ m < Len(b) /\ a[m + 1] < b[m + 1]
    <3>1. m + 1 \in 1 .. Len(a) /\ m + 1 \in 1 .. Len(b)
      BY <1>1, <2>3
    <3>2. a[m + 1] \in Int /\ b[m + 1] \in Int
      BY <1>1, <3>1
    <3>3. CASE m < n
      <4>1. b[m + 1] = c[m + 1] /\ m < Len(c)
        BY <1>1, <1>3, <1>4, <3>3 DEF Common
      <4>. QED
        BY <2>1, <2>3, <4>1, Ordered
    <3>4. CASE m = n
      <4>1. m < Len(c) /\ b[m + 1] < c[m + 1]
        BY <1>3, <2>3, <3>4
      <4>2. m + 1 \in 1 .. Len(c) /\ c[m + 1] \in Int
        BY <1>1, <4>1
      <4>3. a[m + 1] < c[m + 1]
        BY <2>3, <3>2, <4>1, <4>2
      <4>. QED
        BY <2>1, <2>3, <4>1, <4>3, Ordered
    <3>. QED
      BY <1>6, <3>3, <3>4
  <2>. QED
    BY <1>2, <2>2, <2>3
<1>. QED
  BY <1>5, <1>6

\* A text that is the beginning of another has all its letters in common with it.
LEMMA Beginning ==
  ASSUME NEW s \in Seq(Int), NEW t \in Seq(Int)
  PROVE  /\ IsPrefix(s, t) <=> Common(t, s, Len(s))
         /\ IsPrefix(s, t) <=> MatchLen(t, s) = Len(s)
<1>1. /\ Len(s) \in Nat /\ Len(t) \in Nat
      /\ \A i \in 1 .. Len(s) : s[i] \in Int
      /\ \A i \in 1 .. Len(t) : t[i] \in Int
  BY LenProperties, ElementOfSeq
<1>2. IsPrefix(s, t) <=> Len(s) <= Len(t) /\ \A i \in 1 .. Len(s) : s[i] = t[i]
  <2>1. CASE Len(s) <= Len(t)
    <3>1. PICK u : u = SubSeq(s, 1, Len(s))
      OBVIOUS
    <3>2. PICK v : v = SubSeq(t, 1, Len(s))
      OBVIOUS
    <3>3. \A i \in 1 .. Len(s) : s[i] \in Int /\ t[i] \in Int
      BY <1>1, <2>1
    <3>4. 1 \in Int /\ Len(s) \in Int /\ Len(s) - 1 + 1 = Len(s) /\ \A i \in 1 .. Len(s) : 1 + i - 1 = i
      BY <1>1
    <3>5. /\ u \in Seq(Int) /\ Len(u) = IF 1 <= Len(s) THEN Len(s) - 1 + 1 ELSE 0
          /\ \A i \in 1 .. Len(s) - 1 + 1 : u[i] = s[1 + i - 1]
      BY <3>1, <3>3, <3>4, SubSeqProperties
    <3>6. /\ v \in Seq(Int) /\ Len(v) = IF 1 <= Len(s) THEN Len(s) - 1 + 1 ELSE 0
          /\ \A i \in 1 .. Len(s) - 1 + 1 : v[i] = t[1 + i - 1]
      BY <3>2, <3>3, <3>4, SubSeqProperties
    <3>7. Len(u) = Len(s) /\ Len(v) = Len(s) /\ \A i \in 1 .. Len(s) : u[i] = s[i] /\ v[i] = t[i]
      BY <1>1, <3>4, <3>5, <3>6
    <3>8. u = v <=> \A i \in 1 .. Len(s) : s[i] = t[i]
      <4>1. ASSUME \A i \in 1 .. Len(s) : s[i] = t[i] PROVE u = v
        <5>1. u \in Seq(Int) /\ v \in Seq(Int) /\ Len(u) = Len(v) /\ \A i \in 1 .. Len(u) : u[i] = v[i]
          BY <3>5, <3>6, <3>7, <4>1
        <5>. QED
          BY <5>1, SeqEqual
      <4>. QED
        BY <3>7, <4>1
    <3>. QED
      BY <2>1, <3>1, <3>2, <3>8 DEF IsPrefix
  <2>2. CASE ~(Len(s) <= Len(t))
    BY <2>2 DEF IsPrefix
  <2>. QED
    BY <2>1, <2>2
<1>3. IsPrefix(s, t) <=> Common(t, s, Len(s))
  BY <1>1, <1>2 DEF Common
<1>4. PICK m \in Nat : m = MatchLen(t, s) /\ Common(t, s, m) /\ \A n : Common(t, s, n) => n <= m
  BY Matched
<1>5. m <= Len(s)
  BY <1>1, <1>4 DEF Common
<1>. QED
  BY <1>1, <1>3, <1>4, <1>5

\* Where the letters in common become fewer, the search is past everything that begins
\* the name: no later pattern is for the event.
LEMMA PastTheName ==
  ASSUME NEW name \in Seq(Int), NEW a \in Seq(Int), NEW b \in Seq(Int), NEW c \in Seq(Int),
         NotAfter(a, b), NotAfter(b, c), MatchLen(name, b) < MatchLen(name, a)
  PROVE  ~IsPrefix(c, name)
<1>1. /\ Len(name) \in Nat /\ Len(a) \in Nat /\ Len(b) \in Nat /\ Len(c) \in Nat
      /\ \A i \in 1 .. Len(name) : name[i] \in Int
      /\ \A i \in 1 .. Len(b) : b[i] \in Int
  BY LenProperties, ElementOfSeq
<1>2. PICK q \in Nat : q = MatchLen(name, a) /\ Common(name, a, q)
  BY Matched
<1>3. PICK p \in Nat : p = MatchLen(name, b) /\ Common(name, b, p) /\ \A n : Common(name, b, n) => n <= p
  BY Matched
<1>4. p < q /\ q <= Len(name) /\ q <= Len(a) /\ p <= Len(b)
  BY <1>1, <1>2, <1>3 DEF Common
<1>5. PICK m \in Nat : /\ Common(a, b, m)
                       /\ m = Len(a) \/ (m < Len(a) /\ m < Len(b) /\ a[m + 1] < b[m + 1])
  BY Ordered
<1>6. m <= p
  <2>. SUFFICES ASSUME p < m PROVE FALSE
    BY <1>1
  <2>1. p + 1 \in 0 .. Len(name) /\ p + 1 <= Len(b) /\ \A i \in 1 .. p + 1 : i \in 1 .. q /\ i \in 1 .. m
    BY <1>1, <1>4, <1>5 DEF Common
  <2>2. Common(name, b, p + 1)
    BY <1>2, <1>5, <2>1 DEF Common
  <2>3. p + 1 <= p
    BY <1>3, <2>2
  <2>. QED
    BY <2>3
<1>7. m < Len(b) /\ a[m + 1] < b[m + 1] /\ a[m + 1] = name[m + 1]
  <2>1. m + 1 \in 1 .. q /\ m # Len(a)
    BY <1>1, <1>4, <1>6
  <2>. QED
    BY <1>2, <1>5, <2>1 DEF Common
<1>8. m = p
  <2>. SUFFICES ASSUME m < p PROVE FALSE
    BY <1>6
  <2>1. m + 1 \in 1 .. p /\ m + 1 \in 1 .. Len(b)
    BY <1>4
  <2>2. b[m + 1] = name[m + 1] /\ b[m + 1] \in Int
    BY <1>1, <1>3, <2>1 DEF Common
  <2>. QED
    BY <1>7, <2>2
<1>9. PICK x \in Int : x = name[p + 1]
  <2>1. p + 1 \in 1 .. Len(name)
    BY <1>1, <1>4
  <2>. QED
    BY <1>1, <2>1
<1>10. PICK y \in Int : y = b[p + 1] /\ x < y
  <2>1. p + 1 \in 1 .. Len(b)
    BY <1>1, <1>7, <1>8
  <2>. QED
    BY <1>1, <1>7, <1>8, <1>9, <2>1
<1>11. PICK n \in Nat : /\ Common(b, c, n)
                        /\ n = Len(b) \/ (n < Len(b) /\ n < Len(c) /\ b[n + 1] < c[n + 1])
  BY Ordered
<1>. SUFFICES ASSUME IsPrefix(c, name) PROVE FALSE
  OBVIOUS
<1>12. Len(c) <= Len(name) /\ \A i \in 1 .. Len(c) : name[i] = c[i]
  BY Beginning DEF Common
<1>13. CASE p < n
  <2>1. p + 1 \in 1 .. n /\ p + 1 \in 1 .. Len(c)
    BY <1>1, <1>11, <1>13 DEF Common
  <2>2. b[p + 1] = c[p + 1] /\ name[p + 1] = c[p + 1]
    BY <1>11, <1>12, <2>1 DEF Common
  <2>. QED
    BY <1>9, <1>10, <2>2
<1>14. CASE n <= p
  <2>1. n < Len(c) /\ b[n + 1] < c[n + 1]
    BY <1>1, <1>7, <1>8, <1>11, <1>14
  <2>2. c[n + 1] = name[n + 1]
    <3>1. n + 1 \in 1 .. Len(c)
      BY <1>1, <2>1
    <3>. QED
      BY <1>12, <3>1
  <2>3. CASE n = p
    BY <1>9, <1>10, <2>1, <2>2, <2>3
  <2>4. CASE n < p
    <3>1. n + 1 \in 1 .. p /\ n + 1 \in 1 .. Len(b)
      BY <1>4, <2>4
    <3>2. b[n + 1] = name[n + 1] /\ b[n + 1] \in Int
      BY <1>1, <1>3, <3>1 DEF Common
    <3>. QED
      BY <2>1, <2>2, <3>2
  <2>. QED
    BY <1>14, <2>3, <2>4
<1>. QED
  BY <1>13, <1>14

-----------------------------------------------------------------------------
(* The tree of patterns. *)

EvPatterns == [obj : EvObjects, key : Keys, partial : BOOLEAN]

\* The patterns are in the order of their texts.
InTextOrder(ps) == \A i, j \in 1 .. Len(ps) : i < j => NotAfter(ps[i].key, ps[j].key)

\* A set of places that has with each the ones before it is the first so many.
LEMMA FirstPlaces ==
  ASSUME NEW n \in Nat, NEW P \in SUBSET (1 .. n), \A i \in P : \A j \in 1 .. i : j \in P
  PROVE  Cardinality(P) \in 0 .. n /\ P = 1 .. Cardinality(P)
<1>1. PICK T : T = {m \in 1 .. n + 1 : m \notin P}
  OBVIOUS
<1>2. T \in SUBSET Nat /\ n + 1 \in T
  <2>1. n + 1 \notin P /\ n + 1 \in 1 .. n + 1
    OBVIOUS
  <2>. QED
    BY <1>1, <2>1
<1>3. PICK x \in T : \A y \in T : x <= y
  BY <1>2, LeastFound
<1>4. PICK m \in 0 .. n : x = m + 1
  <2>1. x \in 1 .. n + 1
    BY <1>1, <1>3
  <2>. QED
    BY <2>1
<1>5. P = 1 .. m
  <2>1. ASSUME NEW i \in P PROVE i \in 1 .. m
    <3>. SUFFICES ASSUME ~(i <= m) PROVE FALSE
      OBVIOUS
    <3>1. x \in 1 .. i
      BY <1>4
    <3>. QED
      BY <1>1, <1>3, <3>1
  <2>2. ASSUME NEW i \in 1 .. m PROVE i \in P
    <3>1. i \notin T /\ i \in 1 .. n + 1
      BY <1>3, <1>4
    <3>. QED
      BY <1>1, <3>1
  <2>. QED
    BY <2>1, <2>2
<1>6. Cardinality(1 .. m) = m
  <2>1. 1 \in Int /\ m \in Int
    OBVIOUS
  <2>2. Cardinality(1 .. m) = IF 1 > m THEN 0 ELSE m - 1 + 1
    BY <2>1, FS_Interval
  <2>. QED
    BY <2>2
<1>. QED
  BY <1>5, <1>6

\* avl_insert keeps the order.
LEMMA InsertedInOrder ==
  ASSUME patterns \in Seq(EvPatterns), InTextOrder(patterns), NEW e \in EvPatterns
  PROVE  /\ Inserted(e) \in Seq(EvPatterns) /\ InTextOrder(Inserted(e))
         /\ \A i \in 1 .. Len(Inserted(e)) :
              Inserted(e)[i] = e \/ \E j \in 1 .. Len(patterns) : Inserted(e)[i] = patterns[j]
<1>1. /\ Len(patterns) \in Nat /\ DOMAIN patterns = 1 .. Len(patterns)
      /\ \A i \in 1 .. Len(patterns) : patterns[i] \in EvPatterns
  BY LenProperties, ElementOfSeq
<1>2. e.key \in Seq(Int) /\ \A i \in 1 .. Len(patterns) : patterns[i].key \in Seq(Int)
  BY <1>1, EvAssumption DEF EvPatterns
<1>3. PICK P \in SUBSET (1 .. Len(patterns)) : P = {i \in 1 .. Len(patterns) : NotAfter(patterns[i].key, e.key)}
  OBVIOUS
<1>4. \A i \in P : \A j \in 1 .. i : j \in P
  <2>. SUFFICES ASSUME NEW i \in P, NEW j \in 1 .. i, j # i PROVE j \in P
    OBVIOUS
  <2>1. i \in 1 .. Len(patterns) /\ j \in 1 .. Len(patterns) /\ j < i
    BY <1>1
  <2>2. NotAfter(patterns[j].key, patterns[i].key) /\ NotAfter(patterns[i].key, e.key)
    BY <1>3, <2>1 DEF InTextOrder
  <2>3. NotAfter(patterns[j].key, e.key)
    BY <1>2, <2>1, <2>2, OrderedOn
  <2>. QED
    BY <1>3, <2>1, <2>3
<1>5. PICK n \in 0 .. Len(patterns) : n = Cardinality(P) /\ P = 1 .. n
  BY <1>1, <1>4, FirstPlaces
<1>6. PICK k \in 1 .. Len(patterns) + 1 : k = n + 1
  BY <1>1, <1>5
<1>7. PICK r : r = InsertAt(patterns, k, e)
  OBVIOUS
<1>8. Inserted(e) = r
  BY <1>1, <1>3, <1>5, <1>6, <1>7 DEF Inserted
<1>9. /\ r \in Seq(EvPatterns) /\ Len(r) = Len(patterns) + 1
      /\ \A i \in 1 .. Len(patterns) : i < k => r[i] = patterns[i]
      /\ r[k] = e
      /\ \A i \in 1 .. Len(patterns) : k <= i => r[i + 1] = patterns[i]
  <2>1. PICK S : S = EvPatterns
    OBVIOUS
  <2>2. PICK s : s = patterns /\ s \in Seq(S)
    BY <2>1
  <2>3. e \in S /\ k \in 1 .. Len(s) + 1 /\ r = InsertAt(s, k, e)
    BY <1>7, <2>1, <2>2
  <2>4. /\ r \in Seq(S) /\ Len(r) = Len(s) + 1
        /\ \A i \in 1 .. Len(s) : i < k => r[i] = s[i]
        /\ r[k] = e
        /\ \A i \in 1 .. Len(s) : k <= i => r[i + 1] = s[i]
    <3>1. Len(s) \in Nat /\ k \in Nat /\ 1 <= k /\ k <= Len(s) + 1
      BY <2>2, <2>3, LenProperties
    <3>2. s \in Seq(S) /\ e \in S /\ r = InsertAt(s, k, e)
      BY <2>2, <2>3
    <3>. QED
      BY <3>1, <3>2, EntryInserted, SMTT(20)
  <2>. QED
    BY <2>1, <2>2, <2>4
<1>10. \A i \in 1 .. Len(r) :
         \/ i < k /\ i \in 1 .. Len(patterns) /\ r[i] = patterns[i]
         \/ i = k /\ r[i] = e
         \/ k < i /\ i - 1 \in 1 .. Len(patterns) /\ r[i] = patterns[i - 1]
  <2>. TAKE i \in 1 .. Len(r)
  <2>1. i \in 1 .. Len(patterns) + 1 /\ k \in 1 .. Len(patterns) + 1
    BY <1>6, <1>9
  <2>2. CASE i < k
    BY <1>1, <1>9, <2>1, <2>2
  <2>3. CASE i = k
    BY <1>1, <1>9, <2>1, <2>3
  <2>4. CASE k < i
    <3>1. i - 1 \in 1 .. Len(patterns) /\ k <= i - 1 /\ i - 1 + 1 = i
      BY <1>1, <2>1, <2>4
    <3>. QED
      BY <1>9, <2>1, <2>4, <3>1
  <2>. QED
    BY <2>1, <2>2, <2>3, <2>4
<1>11. \A i \in 1 .. Len(patterns) :
         /\ i < k => NotAfter(patterns[i].key, e.key)
         /\ k <= i => NotAfter(e.key, patterns[i].key)
  <2>. TAKE i \in 1 .. Len(patterns)
  <2>1. ASSUME i < k PROVE NotAfter(patterns[i].key, e.key)
    <3>1. i \in 1 .. n
      BY <1>1, <1>6, <2>1
    <3>2. i \in P
      BY <1>5, <3>1
    <3>. QED
      BY <1>3, <3>2
  <2>2. ASSUME k <= i PROVE NotAfter(e.key, patterns[i].key)
    <3>1. i \notin 1 .. n
      BY <1>1, <1>6, <2>2
    <3>2. i \notin P
      BY <1>5, <3>1
    <3>3. ~NotAfter(patterns[i].key, e.key)
      BY <1>3, <3>2
    <3>. QED
      BY <1>2, <3>3, EitherOrder
  <2>. QED
    BY <2>1, <2>2
<1>12. InTextOrder(r)
  <2>. SUFFICES ASSUME NEW i \in 1 .. Len(r), NEW j \in 1 .. Len(r), i < j
                PROVE  NotAfter(r[i].key, r[j].key)
    BY DEF InTextOrder
  <2>1. CASE i < k /\ j < k
    BY <1>1, <1>10, <2>1 DEF InTextOrder
  <2>2. CASE i < k /\ j = k
    BY <1>10, <1>11, <2>2
  <2>3. CASE i < k /\ k < j
    <3>1. PICK l \in 1 .. Len(patterns) : l = j - 1 /\ r[j] = patterns[l]
      BY <1>10, <2>3
    <3>2. i \in 1 .. Len(patterns) /\ r[i] = patterns[i] /\ i < l
      BY <1>10, <2>3, <3>1
    <3>. QED
      BY <3>1, <3>2 DEF InTextOrder
  <2>4. CASE i = k
    <3>1. PICK l \in 1 .. Len(patterns) : l = j - 1 /\ r[j] = patterns[l]
      BY <1>10, <2>4
    <3>2. k <= l /\ r[i] = e
      BY <1>10, <2>4, <3>1
    <3>. QED
      BY <1>11, <3>1, <3>2
  <2>5. CASE k < i
    <3>1. PICK l \in 1 .. Len(patterns) : l = j - 1 /\ r[j] = patterns[l]
      BY <1>10, <2>5
    <3>2. PICK m \in 1 .. Len(patterns) : m = i - 1 /\ r[i] = patterns[m]
      BY <1>10, <2>5
    <3>3. m < l
      BY <3>1, <3>2
    <3>. QED
      BY <3>1, <3>2, <3>3 DEF InTextOrder
  <2>. QED
    BY <1>6, <2>1, <2>2, <2>3, <2>4, <2>5
<1>. QED
  BY <1>8, <1>9, <1>10, <1>12

\* The loop over the tree that frees the patterns of o, as a function of how far it is.
LEMMA FreedUpTo ==
  ASSUME patterns \in Seq(EvPatterns), NEW o
  PROVE  \E f : /\ f = [n \in 0 .. Len(patterns) |->
                          IF n = 0 THEN <<>>
                          ELSE IF patterns[n].obj = o THEN f[n - 1] ELSE Append(f[n - 1], patterns[n])]
                /\ Without(o) = f[Len(patterns)]
<1>1. PICK N \in Nat : N = Len(patterns) /\ \A n \in 1 .. N : patterns[n] \in EvPatterns
  BY LenProperties, ElementOfSeq
<1>2. PICK S : S = Seq(EvPatterns)
  OBVIOUS
<1>3. PICK step : step = [p \in S \X (1 .. N) |->
                            IF patterns[p[2]].obj = o THEN p[1] ELSE Append(p[1], patterns[p[2]])]
  OBVIOUS
<1>4. StepOf(step, S, N)
  <2>1. ASSUME NEW p \in S \X (1 .. N)
        PROVE  (IF patterns[p[2]].obj = o THEN p[1] ELSE Append(p[1], patterns[p[2]])) \in S
    <3>1. p[1] \in Seq(EvPatterns) /\ patterns[p[2]] \in EvPatterns
      BY <1>1, <1>2
    <3>2. Append(p[1], patterns[p[2]]) \in Seq(EvPatterns)
      BY <3>1
    <3>. QED
      BY <1>2, <3>1, <3>2
  <2>. QED
    BY <1>3, <2>1 DEF StepOf
<1>5. PICK g : CourseOf(g, <<>>, step, S, N)
  <2>1. <<>> \in S
    BY <1>2
  <2>. QED
    BY <1>4, <2>1, Iterated, Zenon
<1>6. ASSUME NEW n \in 1 .. N
      PROVE  g[n] = IF patterns[n].obj = o THEN g[n - 1] ELSE Append(g[n - 1], patterns[n])
  <2>1. PICK x \in S : x = g[n - 1]
    <3>1. n - 1 \in 0 .. N
      BY <1>1
    <3>. QED
      BY <1>5, <3>1 DEF CourseOf
  <2>2. PICK p : p = <<x, n>>
    OBVIOUS
  <2>3. p \in S \X (1 .. N) /\ p[1] = x /\ p[2] = n
    BY <2>2
  <2>4. step[p] = IF patterns[p[2]].obj = o THEN p[1] ELSE Append(p[1], patterns[p[2]])
    BY <1>3, <2>3
  <2>. QED
    BY <1>5, <2>1, <2>2, <2>3, <2>4 DEF CourseOf
<1>7. g = [n \in 0 .. N |->
             IF n = 0 THEN <<>>
             ELSE IF patterns[n].obj = o THEN g[n - 1] ELSE Append(g[n - 1], patterns[n])]
  <2>1. \A n \in 0 .. N : g[n] = IF n = 0 THEN <<>>
                                 ELSE IF patterns[n].obj = o THEN g[n - 1] ELSE Append(g[n - 1], patterns[n])
    <3>1. \A n \in 0 .. N : n = 0 \/ n \in 1 .. N
      BY <1>1
    <3>. QED
      BY <1>5, <1>6, <3>1 DEF CourseOf
  <2>2. g = [n \in 0 .. N |-> g[n]]
    BY <1>5 DEF CourseOf
  <2>. QED
    BY <2>1, <2>2, Zenon
<1>. DEFINE F == CHOOSE f : f = [n \in 0 .. Len(patterns) |->
                          IF n = 0 THEN <<>>
                          ELSE IF patterns[n].obj = o THEN f[n - 1] ELSE Append(f[n - 1], patterns[n])]
<1>8. F = [n \in 0 .. Len(patterns) |->
                          IF n = 0 THEN <<>>
                          ELSE IF patterns[n].obj = o THEN F[n - 1] ELSE Append(F[n - 1], patterns[n])]
  BY <1>1, <1>7, Zenon
<1>9. Without(o) = F[Len(patterns)]
  BY Zenon DEF Without
<1>. HIDE DEF F
<1>. QED
  BY <1>8, <1>9, Zenon

\* Freeing the patterns of o leaves patterns of the others, in their order.
LEMMA FreedInOrder ==
  ASSUME patterns \in Seq(EvPatterns), InTextOrder(patterns), NEW o
  PROVE  /\ Without(o) \in Seq(EvPatterns) /\ InTextOrder(Without(o))
         /\ \A i \in 1 .. Len(Without(o)) :
              \E j \in 1 .. Len(patterns) : Without(o)[i] = patterns[j] /\ patterns[j].obj # o
<1>1. PICK f : /\ f = [n \in 0 .. Len(patterns) |->
                          IF n = 0 THEN <<>>
                          ELSE IF patterns[n].obj = o THEN f[n - 1] ELSE Append(f[n - 1], patterns[n])]
               /\ Without(o) = f[Len(patterns)]
  BY FreedUpTo
<1>2. PICK N \in Nat : N = Len(patterns) /\ \A n \in 1 .. N : patterns[n] \in EvPatterns
  BY LenProperties, ElementOfSeq
<1>3. PICK P : P = {n \in 0 .. N :
                      /\ f[n] \in Seq(EvPatterns) /\ InTextOrder(f[n])
                      /\ \A i \in 1 .. Len(f[n]) : \E j \in 1 .. n : f[n][i] = patterns[j] /\ patterns[j].obj # o}
  OBVIOUS
<1>4. 0 \in P
  <2>1. f[0] = <<>>
    BY <1>1, <1>2
  <2>2. <<>> \in Seq(EvPatterns) /\ Len(<<>>) = 0
    OBVIOUS
  <2>3. PICK e : e = f[0] /\ e \in Seq(EvPatterns) /\ Len(e) = 0
    BY <2>1, <2>2
  <2>4. InTextOrder(e) /\ \A i \in 1 .. Len(e) : \E j \in 1 .. 0 : e[i] = patterns[j] /\ patterns[j].obj # o
    BY <2>3 DEF InTextOrder
  <2>. QED
    BY <1>3, <2>3, <2>4
<1>5. ASSUME NEW n \in 1 .. N, n - 1 \in P PROVE n \in P
  <2>1. PICK s \in Seq(EvPatterns) : s = f[n - 1]
    BY <1>3, <1>5
  <2>2. InTextOrder(s) /\ \A i \in 1 .. Len(s) : \E j \in 1 .. n - 1 : s[i] = patterns[j] /\ patterns[j].obj # o
    BY <1>3, <1>5, <2>1
  <2>3. f[n] = IF patterns[n].obj = o THEN s ELSE Append(s, patterns[n])
    <3>1. n \in 0 .. Len(patterns) /\ n # 0
      BY <1>2
    <3>2. f[n] = IF n = 0 THEN <<>>
                 ELSE IF patterns[n].obj = o THEN f[n - 1] ELSE Append(f[n - 1], patterns[n])
      BY <1>1, <3>1, Zenon
    <3>. QED
      BY <2>1, <3>1, <3>2
  <2>4. PICK r : r = f[n]
    OBVIOUS
  <2>5. /\ r \in Seq(EvPatterns) /\ InTextOrder(r)
        /\ \A i \in 1 .. Len(r) : \E j \in 1 .. n : r[i] = patterns[j] /\ patterns[j].obj # o
    <3>0. \A j \in 1 .. n - 1 : j \in 1 .. n
      OBVIOUS
    <3>1. CASE patterns[n].obj = o
      BY <2>2, <2>3, <2>4, <3>0, <3>1
    <3>2. CASE patterns[n].obj # o
      <4>1. PICK x \in EvPatterns : x = patterns[n] /\ x.obj # o
        BY <1>2, <3>2
      <4>2. r = Append(s, x)
        BY <2>3, <2>4, <3>2, <4>1
      <4>3. Len(s) \in Nat /\ r \in Seq(EvPatterns) /\ Len(r) = Len(s) + 1
            /\ r[Len(s) + 1] = x /\ \A i \in 1 .. Len(s) : r[i] = s[i]
        BY <4>2, AppendProperties, LenProperties
      <4>4. \A i \in 1 .. Len(r) : i \in 1 .. Len(s) \/ i = Len(s) + 1
        BY <4>3
      <4>5. \A i \in 1 .. Len(r) : \E j \in 1 .. n : r[i] = patterns[j] /\ patterns[j].obj # o
        <5>. TAKE i \in 1 .. Len(r)
        <5>1. CASE i \in 1 .. Len(s)
          BY <2>2, <3>0, <4>3, <5>1
        <5>2. CASE i = Len(s) + 1
          <6>1. n \in 1 .. n /\ r[i] = patterns[n]
            BY <4>1, <4>3, <5>2
          <6>. QED
            BY <3>2, <6>1
        <5>. QED
          BY <4>4, <5>1, <5>2
      <4>6. InTextOrder(r)
        <5>. SUFFICES ASSUME NEW i \in 1 .. Len(r), NEW j \in 1 .. Len(r), i < j
                      PROVE  NotAfter(r[i].key, r[j].key)
          BY DEF InTextOrder
        <5>1. i \in 1 .. Len(s)
          BY <4>3
        <5>2. CASE j \in 1 .. Len(s)
          BY <2>2, <4>3, <5>1, <5>2 DEF InTextOrder
        <5>3. CASE j = Len(s) + 1
          <6>1. PICK k \in 1 .. n - 1 : s[i] = patterns[k]
            BY <2>2, <5>1
          <6>2. k \in 1 .. Len(patterns) /\ n \in 1 .. Len(patterns) /\ k < n
            BY <1>2, <6>1
          <6>3. NotAfter(patterns[k].key, patterns[n].key)
            BY <6>2 DEF InTextOrder
          <6>. QED
            BY <4>1, <4>3, <5>1, <5>3, <6>1, <6>3
        <5>. QED
          BY <4>4, <5>2, <5>3
      <4>. QED
        BY <4>3, <4>5, <4>6
    <3>. QED
      BY <3>1, <3>2
  <2>. QED
    BY <1>3, <2>4, <2>5
<1>6. N \in P
  BY <1>4, <1>5, StepByStep
<1>. QED
  BY <1>1, <1>2, <1>3, <1>6

-----------------------------------------------------------------------------
(* The search. *)

EvVisits == [best : Nat, done : BOOLEAN, seen : [EvObjects -> Nat], to : Seq(EvObjects)]

\* A pattern that is for an event has a text that begins its name.
LEMMA WantedBegins ==
  ASSUME NEW e \in EvPatterns, NEW name \in Seq(Int)
  PROVE  /\ Wanted(e, name) => IsPrefix(e.key, name)
         /\ Wanted(e, name) <=> name = e.key \/ (e.partial /\ MatchLen(name, e.key) = Len(e.key))
<1>1. e.key \in Seq(Int)
  BY EvAssumption DEF EvPatterns
<1>2. IsPrefix(name, name)
  <2>1. Common(name, name, Len(name))
    BY LenProperties DEF Common
  <2>. QED
    BY <2>1, Beginning
<1>3. IsPrefix(e.key, name) <=> MatchLen(name, e.key) = Len(e.key)
  BY <1>1, Beginning
<1>. QED
  BY <1>2, <1>3 DEF Wanted

\* What a round of the loop does: nothing when the search is over, end it, or go on and
\* send to the pattern's object if it is wanted there, is not the sender's and has not
\* got the event.
LEMMA Round ==
  ASSUME NEW s \in EvVisits, NEW e \in EvPatterns, NEW name \in Seq(Int), NEW from, NEW seq \in Nat,
         NEW r, r = Visit(s, e, name, from, seq)
  PROVE  /\ r \in EvVisits
         /\ s.done => r = s
         /\ ~s.done /\ MatchLen(name, e.key) < s.best => r.done /\ r.seen = s.seen /\ r.to = s.to
         /\ ~s.done /\ ~(MatchLen(name, e.key) < s.best) =>
              /\ ~r.done /\ r.best = MatchLen(name, e.key)
              /\ Wanted(e, name) /\ EvClient[e.obj] # from /\ s.seen[e.obj] # seq =>
                   r.seen = [s.seen EXCEPT ![e.obj] = seq] /\ r.to = Append(s.to, e.obj)
              /\ ~(Wanted(e, name) /\ EvClient[e.obj] # from /\ s.seen[e.obj] # seq) =>
                   r.seen = s.seen /\ r.to = s.to
<1>1. e.key \in Seq(Int) /\ e.obj \in EvObjects
  BY EvAssumption DEF EvPatterns
<1>2. PICK m \in Nat : m = MatchLen(name, e.key)
  BY <1>1, Matched
<1>3. PICK s1 : s1 = [s EXCEPT !.best = m]
  OBVIOUS
<1>4. s1 \in EvVisits /\ s1.best = m /\ s1.done = s.done /\ s1.seen = s.seen /\ s1.to = s.to
  BY <1>3 DEF EvVisits
<1>5. PICK w \in BOOLEAN : w <=> Wanted(e, name)
  OBVIOUS
<1>6. w <=> name = e.key \/ (e.partial /\ m = Len(e.key))
  BY <1>2, <1>5, WantedBegins
<1>7. r = CASE s.done -> s
            [] ~s.done /\ m < s.best -> [s EXCEPT !.done = TRUE]
            [] OTHER -> IF w THEN ubusd_send_event_msg(s1, e.obj, from, seq) ELSE s1
  BY <1>2, <1>3, <1>6 DEF Visit, strmatch_len, Shorter
<1>8. CASE s.done
  BY <1>2, <1>7, <1>8
<1>9. CASE ~s.done /\ m < s.best
  <2>1. r = [s EXCEPT !.done = TRUE]
    BY <1>7, <1>9
  <2>2. r \in EvVisits /\ r.done /\ r.seen = s.seen /\ r.to = s.to
    BY <2>1 DEF EvVisits
  <2>. QED
    BY <1>2, <1>9, <2>2
<1>10. CASE ~s.done /\ ~(m < s.best)
  <2>1. r = IF w THEN ubusd_send_event_msg(s1, e.obj, from, seq) ELSE s1
    BY <1>7, <1>10
  <2>2. CASE w /\ EvClient[e.obj] # from /\ s.seen[e.obj] # seq
    <3>1. PICK o \in EvObjects : o = e.obj
      BY <1>1
    <3>2. r = [s1 EXCEPT !.seen[o] = seq, !.to = Append(@, o)]
      BY <1>4, <2>1, <2>2, <3>1 DEF ubusd_send_event_msg
    <3>3. PICK z : z = [s1 EXCEPT !.seen[o] = seq]
      OBVIOUS
    <3>4. r = [z EXCEPT !.to = Append(@, o)]
      BY <3>2, <3>3
    <3>5. /\ z \in EvVisits /\ z.best = m /\ z.done = s.done /\ z.seen = [s.seen EXCEPT ![o] = seq]
          /\ z.to = s.to
      BY <1>4, <3>3 DEF EvVisits
    <3>6. Append(z.to, o) \in Seq(EvObjects)
      BY <3>5 DEF EvVisits
    <3>7. r \in EvVisits /\ r.best = m /\ r.done = s.done /\ r.seen = z.seen /\ r.to = Append(z.to, o)
      BY <3>4, <3>5, <3>6 DEF EvVisits
    <3>. QED
      BY <1>2, <1>5, <1>10, <2>2, <3>1, <3>5, <3>7
  <2>3. CASE ~(w /\ EvClient[e.obj] # from /\ s.seen[e.obj] # seq)
    <3>1. r = s1
      BY <1>4, <2>1, <2>3 DEF ubusd_send_event_msg
    <3>. QED
      BY <1>2, <1>4, <1>5, <1>10, <2>3, <3>1
  <2>. QED
    BY <2>2, <2>3
<1>. QED
  BY <1>2, <1>8, <1>9, <1>10

\* The loop of ubusd_send_event over the tree, as a function of how far it is.
LEMMA SearchedUpTo ==
  ASSUME patterns \in Seq(EvPatterns), eventSeen \in [EvObjects -> Nat],
         NEW name \in Seq(Int), NEW from, NEW seq \in Nat
  PROVE  \E f : /\ f = [n \in 0 .. Len(patterns) |->
                          IF n = 0 THEN [best |-> 0, done |-> FALSE, seen |-> eventSeen, to |-> <<>>]
                          ELSE Visit(f[n - 1], patterns[n], name, from, seq)]
                /\ Visited(name, from, seq) = f[Len(patterns)]
<1>1. PICK N \in Nat : N = Len(patterns) /\ \A n \in 1 .. N : patterns[n] \in EvPatterns
  BY LenProperties, ElementOfSeq
<1>2. PICK a : a = [best |-> 0, done |-> FALSE, seen |-> eventSeen, to |-> <<>>]
  OBVIOUS
<1>3. PICK step : step = [p \in EvVisits \X (1 .. N) |-> Visit(p[1], patterns[p[2]], name, from, seq)]
  OBVIOUS
<1>4. StepOf(step, EvVisits, N)
  <2>1. ASSUME NEW p \in EvVisits \X (1 .. N)
        PROVE  Visit(p[1], patterns[p[2]], name, from, seq) \in EvVisits
    <3>1. p[1] \in EvVisits /\ patterns[p[2]] \in EvPatterns
      BY <1>1
    <3>2. PICK s \in EvVisits, e \in EvPatterns : s = p[1] /\ e = patterns[p[2]]
      BY <3>1
    <3>3. Visit(s, e, name, from, seq) \in EvVisits
      BY Round, Zenon
    <3>. QED
      BY <3>2, <3>3
  <2>. QED
    BY <1>3, <2>1 DEF StepOf
<1>5. PICK g : CourseOf(g, a, step, EvVisits, N)
  <2>1. a \in EvVisits
    BY <1>2 DEF EvVisits
  <2>. QED
    BY <1>4, <2>1, Iterated, Zenon
<1>6. ASSUME NEW n \in 1 .. N
      PROVE  g[n] = Visit(g[n - 1], patterns[n], name, from, seq)
  <2>1. PICK x \in EvVisits : x = g[n - 1]
    <3>1. n - 1 \in 0 .. N
      BY <1>1
    <3>. QED
      BY <1>5, <3>1 DEF CourseOf
  <2>2. PICK p : p = <<x, n>>
    OBVIOUS
  <2>3. p \in EvVisits \X (1 .. N) /\ p[1] = x /\ p[2] = n
    BY <2>2
  <2>4. step[p] = Visit(p[1], patterns[p[2]], name, from, seq)
    BY <1>3, <2>3
  <2>. QED
    BY <1>5, <2>1, <2>2, <2>3, <2>4 DEF CourseOf
<1>7. g = [n \in 0 .. N |-> IF n = 0 THEN a ELSE Visit(g[n - 1], patterns[n], name, from, seq)]
  <2>1. \A n \in 0 .. N : g[n] = IF n = 0 THEN a ELSE Visit(g[n - 1], patterns[n], name, from, seq)
    <3>1. \A n \in 0 .. N : n = 0 \/ n \in 1 .. N
      BY <1>1
    <3>. QED
      BY <1>5, <1>6, <3>1 DEF CourseOf
  <2>2. g = [n \in 0 .. N |-> g[n]]
    BY <1>5 DEF CourseOf
  <2>. QED
    BY <2>1, <2>2, Zenon
<1>. DEFINE F == CHOOSE f : f = [n \in 0 .. Len(patterns) |->
                          IF n = 0 THEN [best |-> 0, done |-> FALSE, seen |-> eventSeen, to |-> <<>>]
                          ELSE Visit(f[n - 1], patterns[n], name, from, seq)]
<1>8. F = [n \in 0 .. Len(patterns) |->
                          IF n = 0 THEN [best |-> 0, done |-> FALSE, seen |-> eventSeen, to |-> <<>>]
                          ELSE Visit(F[n - 1], patterns[n], name, from, seq)]
  BY <1>1, <1>2, <1>7, Zenon
<1>9. Visited(name, from, seq) = F[Len(patterns)]
  BY Zenon DEF Visited
<1>. HIDE DEF F
<1>. QED
  BY <1>8, <1>9, Zenon

\* Among the first n patterns there is one of o for the event, which is not from its client.
Reached(o, n, name, from) ==
  /\ EvClient[o] # from
  /\ \E i \in 1 .. n : patterns[i].obj = o /\ Wanted(patterns[i], name)

\* Before the search there is nothing, after a pattern that is for nobody nothing more,
\* after one that is for the event its object.
LEMMA ReachedMore ==
  ASSUME NEW o, NEW n \in Nat, NEW name, NEW from
  PROVE  /\ ~Reached(o, 0, name, from)
         /\ n # 0 => (Reached(o, n, name, from) <=>
              \/ Reached(o, n - 1, name, from)
              \/ EvClient[o] # from /\ patterns[n].obj = o /\ Wanted(patterns[n], name))
<1>1. \A i : i \in 1 .. 0 => FALSE
  OBVIOUS
<1>2. n # 0 => \A i : i \in 1 .. n <=> i \in 1 .. n - 1 \/ i = n
  OBVIOUS
<1>. QED
  BY <1>1, <1>2 DEF Reached

\* An object that is not yet in a list of objects, put behind it.
LEMMA ObjectPut ==
  ASSUME NEW s \in Seq(EvObjects), NEW x \in EvObjects, Once(s), x \notin Range(s),
         NEW r, r \in {<<x>> \o s, Append(s, x)}
  PROVE  Range(r) = Range(s) \union {x} /\ Once(r)
  BY EntryPut

\* The search finds everybody.  While it goes on, best is how much the last pattern has in
\* common with the name; once it is over no pattern to come is for the event; what is marked
\* as seen, and sent to, are the objects with a pattern for it so far.
LEMMA SearchFinds ==
  ASSUME patterns \in Seq(EvPatterns), InTextOrder(patterns), eventSeen \in [EvObjects -> Nat],
         NEW name \in Seq(Int), NEW from, NEW seq \in Nat, \A o \in EvObjects : eventSeen[o] < seq,
         NEW v, v = Visited(name, from, seq)
  PROVE  /\ v \in EvVisits /\ Once(v.to)
         /\ Range(v.to) = {o \in EvObjects : Reached(o, Len(patterns), name, from)}
         /\ \A o \in EvObjects : v.seen[o] <= seq
<1>1. PICK f : /\ f = [n \in 0 .. Len(patterns) |->
                          IF n = 0 THEN [best |-> 0, done |-> FALSE, seen |-> eventSeen, to |-> <<>>]
                          ELSE Visit(f[n - 1], patterns[n], name, from, seq)]
               /\ Visited(name, from, seq) = f[Len(patterns)]
  BY SearchedUpTo
<1>2. PICK N \in Nat : N = Len(patterns) /\ \A n \in 1 .. N : patterns[n] \in EvPatterns
  BY LenProperties, ElementOfSeq
<1>3. \A n \in 1 .. N : patterns[n].key \in Seq(Int) /\ patterns[n].obj \in EvObjects
  BY <1>2, EvAssumption DEF EvPatterns
<1>. DEFINE Best(n) == IF n = 0 THEN 0 ELSE MatchLen(name, patterns[n].key)
            Good(s, n) == /\ s \in EvVisits
                          /\ ~s.done => s.best = Best(n)
                          /\ s.done => \A j \in n + 1 .. N : ~Wanted(patterns[j], name)
                          /\ \A o \in EvObjects : s.seen[o] = seq <=> Reached(o, n, name, from)
                          /\ \A o \in EvObjects : s.seen[o] <= seq
                          /\ \A o \in EvObjects : o \in Range(s.to) <=> Reached(o, n, name, from)
                          /\ Once(s.to)
<1>4. PICK P : P = {n \in 0 .. N : Good(f[n], n)}
  OBVIOUS
<1>5. 0 \in P
  <2>1. f[0] = [best |-> 0, done |-> FALSE, seen |-> eventSeen, to |-> <<>>]
    BY <1>1, <1>2
  <2>2. PICK s : s = f[0] /\ s.best = 0 /\ ~s.done /\ s.seen = eventSeen /\ s.to = <<>>
    BY <2>1
  <2>3. s \in EvVisits
    BY <2>1, <2>2 DEF EvVisits
  <2>4. PICK t \in Seq(EvObjects) : t = <<>> /\ t = s.to
    <3>1. s.to \in Seq(EvObjects)
      BY <2>3 DEF EvVisits
    <3>. QED
      BY <2>2, <3>1
  <2>5. Range(t) = {} /\ Len(t) = 0
    BY <2>4, ListMembers
  <2>6. Once(t)
    BY <2>5 DEF Once
  <2>7. \A o \in EvObjects : ~Reached(o, 0, name, from)
    BY ReachedMore
  <2>8. \A o \in EvObjects : s.seen[o] <= seq /\ s.seen[o] # seq
    BY <2>2
  <2>9. Good(s, 0)
    BY <2>2, <2>3, <2>4, <2>5, <2>6, <2>7, <2>8
  <2>. QED
    BY <1>4, <2>2, <2>9
<1>6. ASSUME NEW n \in 1 .. N, n - 1 \in P PROVE n \in P
  <2>1. PICK s : s = f[n - 1] /\ Good(s, n - 1)
    BY <1>4, <1>6
  <2>2. PICK e \in EvPatterns : e = patterns[n]
    BY <1>2
  <2>3. PICK r : r = Visit(s, e, name, from, seq) /\ r = f[n]
    <3>1. n \in 0 .. Len(patterns) /\ n # 0
      BY <1>2
    <3>2. f[n] = IF n = 0 THEN [best |-> 0, done |-> FALSE, seen |-> eventSeen, to |-> <<>>]
                 ELSE Visit(f[n - 1], patterns[n], name, from, seq)
      BY <1>1, <3>1, Zenon
    <3>. QED
      BY <2>1, <2>2, <3>1, <3>2
  <2>4. PICK m \in Nat : m = MatchLen(name, e.key)
    BY <1>3, <2>2, Matched
  <2>5. PICK o \in EvObjects : o = e.obj
    BY <2>2 DEF EvPatterns
  <2>6. \A x \in EvObjects : Reached(x, n, name, from) <=>
            Reached(x, n - 1, name, from) \/ (EvClient[x] # from /\ o = x /\ Wanted(e, name))
    <3>1. n \in Nat /\ n # 0
      OBVIOUS
    <3>. QED
      BY <2>2, <2>5, <3>1, ReachedMore
  <2>7. s \in EvVisits /\ s.to \in Seq(EvObjects) /\ s.best \in Nat /\ s.seen \in [EvObjects -> Nat]
    BY <2>1 DEF EvVisits
  <2>8. /\ r \in EvVisits
        /\ s.done => r = s
        /\ ~s.done /\ m < s.best => r.done /\ r.seen = s.seen /\ r.to = s.to
        /\ ~s.done /\ ~(m < s.best) =>
              /\ ~r.done /\ r.best = m
              /\ Wanted(e, name) /\ EvClient[o] # from /\ s.seen[o] # seq =>
                   r.seen = [s.seen EXCEPT ![o] = seq] /\ r.to = Append(s.to, o)
              /\ ~(Wanted(e, name) /\ EvClient[o] # from /\ s.seen[o] # seq) =>
                   r.seen = s.seen /\ r.to = s.to
    <3>1. /\ r \in EvVisits
          /\ s.done => r = s
          /\ ~s.done /\ MatchLen(name, e.key) < s.best => r.done /\ r.seen = s.seen /\ r.to = s.to
          /\ ~s.done /\ ~(MatchLen(name, e.key) < s.best) =>
               /\ ~r.done /\ r.best = MatchLen(name, e.key)
               /\ Wanted(e, name) /\ EvClient[e.obj] # from /\ s.seen[e.obj] # seq =>
                    r.seen = [s.seen EXCEPT ![e.obj] = seq] /\ r.to = Append(s.to, e.obj)
               /\ ~(Wanted(e, name) /\ EvClient[e.obj] # from /\ s.seen[e.obj] # seq) =>
                    r.seen = s.seen /\ r.to = s.to
      <4>1. s \in EvVisits /\ r = Visit(s, e, name, from, seq)
        BY <2>3, <2>7
      <4>. QED
        BY <4>1, Round
    <3>. QED
      BY <2>4, <2>5, <3>1
  <2>9. ASSUME s.done PROVE Good(r, n)
    <3>1. ~Wanted(e, name)
      <4>1. n \in n - 1 + 1 .. N
        OBVIOUS
      <4>. QED
        BY <2>1, <2>2, <2>9, <4>1
    <3>2. \A x \in EvObjects : Reached(x, n, name, from) <=> Reached(x, n - 1, name, from)
      BY <2>6, <3>1
    <3>3. \A j \in n + 1 .. N : j \in n - 1 + 1 .. N
      OBVIOUS
    <3>4. r = s
      BY <2>8, <2>9
    <3>5. \A j \in n + 1 .. N : ~Wanted(patterns[j], name)
      BY <2>1, <2>9, <3>3
    <3>. QED
      BY <2>1, <2>9, <3>2, <3>4, <3>5, Zenon
  <2>10. ASSUME ~s.done, m < s.best PROVE Good(r, n)
    <3>1. n - 1 # 0 /\ s.best = MatchLen(name, patterns[n - 1].key)
      BY <2>1, <2>4, <2>10
    <3>2. PICK k \in 1 .. N : k = n - 1 /\ k < n
      BY <1>2, <3>1
    <3>3. PICK a \in Seq(Int), b \in Seq(Int) : a = patterns[k].key /\ b = patterns[n].key
      BY <1>3
    <3>4. NotAfter(a, b) /\ MatchLen(name, b) < MatchLen(name, a)
      <4>1. k \in 1 .. Len(patterns) /\ n \in 1 .. Len(patterns)
        BY <1>2
      <4>2. NotAfter(a, b)
        BY <3>2, <3>3, <4>1 DEF InTextOrder
      <4>. QED
        BY <2>2, <2>4, <2>10, <3>1, <3>2, <3>3, <4>2
    <3>5. ASSUME NEW j \in n .. N PROVE ~Wanted(patterns[j], name)
      <4>1. j \in 1 .. N /\ j \in 1 .. Len(patterns) /\ n \in 1 .. Len(patterns)
        BY <1>2
      <4>2. PICK c \in Seq(Int) : c = patterns[j].key
        BY <1>3, <4>1
      <4>3. NotAfter(b, c)
        <5>1. CASE n < j
          BY <3>3, <4>1, <4>2, <5>1 DEF InTextOrder
        <5>2. CASE n = j
          BY <3>3, <4>2, <5>2, EitherOrder
        <5>. QED
          BY <4>1, <5>1, <5>2
      <4>4. ~IsPrefix(c, name)
        BY <3>4, <4>3, PastTheName
      <4>5. patterns[j] \in EvPatterns
        BY <1>2, <4>1
      <4>. QED
        BY <4>2, <4>4, <4>5, WantedBegins
    <3>6. ~Wanted(e, name) /\ \A j \in n + 1 .. N : ~Wanted(patterns[j], name)
      <4>1. n \in n .. N /\ \A j \in n + 1 .. N : j \in n .. N
        OBVIOUS
      <4>. QED
        BY <2>2, <3>5, <4>1
    <3>7. \A x \in EvObjects : Reached(x, n, name, from) <=> Reached(x, n - 1, name, from)
      BY <2>6, <3>6
    <3>8. r \in EvVisits /\ r.done /\ r.seen = s.seen /\ r.to = s.to
      BY <2>8, <2>10
    <3>. QED
      BY <2>1, <3>6, <3>7, <3>8, Zenon
  <2>11. ASSUME ~s.done, ~(m < s.best) PROVE Good(r, n)
    <3>1. r \in EvVisits /\ ~r.done /\ r.best = Best(n)
      <4>1. n # 0
        OBVIOUS
      <4>2. r \in EvVisits /\ ~r.done /\ r.best = m
        BY <2>8, <2>11
      <4>. QED
        BY <2>2, <2>4, <4>1, <4>2, Zenon
    <3>2. CASE Wanted(e, name) /\ EvClient[o] # from /\ s.seen[o] # seq
      <4>1. r.seen = [s.seen EXCEPT ![o] = seq] /\ r.to = Append(s.to, o)
        BY <2>8, <2>11, <3>2
      <4>2. o \notin Range(s.to)
        BY <2>1, <3>2
      <4>3. Range(r.to) = Range(s.to) \union {o} /\ Once(r.to)
        <5>1. PICK q \in Seq(EvObjects) : q = s.to /\ Once(q) /\ o \notin Range(q)
          BY <2>1, <2>7, <4>2
        <5>2. PICK t : t = r.to /\ t \in {<<o>> \o q, Append(q, o)}
          BY <4>1, <5>1
        <5>3. Once(q) /\ o \notin Range(q)
          BY <5>1
        <5>4. t \in {<<o>> \o q, Append(q, o)}
          BY <5>2
        <5>5. Range(t) = Range(q) \union {o} /\ Once(t)
          BY <5>3, <5>4, ObjectPut
        <5>. QED
          BY <5>1, <5>2, <5>5
      <4>4. \A x \in EvObjects : Reached(x, n, name, from) <=> Reached(x, n - 1, name, from) \/ x = o
        BY <2>6, <3>2
      <4>5. \A x \in EvObjects : r.seen[x] = IF x = o THEN seq ELSE s.seen[x]
        BY <2>7, <4>1
      <4>6. \A x \in EvObjects : r.seen[x] <= seq
        BY <2>1, <4>5, SMTT(20)
      <4>7. \A x \in EvObjects : r.seen[x] = seq <=> Reached(x, n, name, from)
        BY <2>1, <4>4, <4>5
      <4>8. \A x \in EvObjects : x \in Range(r.to) <=> Reached(x, n, name, from)
        BY <2>1, <4>3, <4>4
      <4>. QED
        BY <3>1, <4>3, <4>6, <4>7, <4>8, Zenon
    <3>3. CASE ~(Wanted(e, name) /\ EvClient[o] # from /\ s.seen[o] # seq)
      <4>1. r.seen = s.seen /\ r.to = s.to
        BY <2>8, <2>11, <3>3
      <4>2. s.seen[o] = seq => Reached(o, n - 1, name, from)
        BY <2>1
      <4>3. \A x \in EvObjects : Reached(x, n, name, from) <=> Reached(x, n - 1, name, from)
        BY <2>6, <3>3, <4>2
      <4>. QED
        BY <2>1, <3>1, <4>1, <4>3, Zenon
    <3>. QED
      BY <3>2, <3>3
  <2>12. Good(r, n)
    BY <2>9, <2>10, <2>11, Zenon
  <2>. QED
    BY <1>4, <2>3, <2>12
<1>7. N \in P
  BY <1>5, <1>6, StepByStep
<1>8. Good(v, N)
  BY <1>1, <1>2, <1>4, <1>7
<1>9. Range(v.to) = {o \in EvObjects : Reached(o, N, name, from)}
  <2>1. v.to \in Seq(EvObjects)
    BY <1>8 DEF EvVisits
  <2>2. Range(v.to) \subseteq EvObjects
    BY <2>1, ListMembers
  <2>. QED
    BY <1>8, <2>2
<1>. QED
  BY <1>2, <1>8, <1>9

-----------------------------------------------------------------------------
(* The inductive invariant: the tree is in order and holds patterns of live *)
(* objects only, and no object has seen an event that was not yet sent.     *)

EvInv ==
  /\ patterns \in Seq(EvPatterns) /\ InTextOrder(patterns)
  /\ evAlive \subseteq EvObjects /\ objEventSeq \in Nat
  /\ \A i \in 1 .. Len(patterns) : patterns[i].obj \in evAlive
  /\ eventSeen \in [EvObjects -> Nat]
  /\ \A o \in EvObjects : eventSeen[o] <= objEventSeq

\* The daemon starts with no patterns.
LEMMA EvInvInit ==
  EvInit => EvInv
<1>. SUFFICES ASSUME EvInit PROVE EvInv
  OBVIOUS
<1>1. patterns = <<>> /\ evAlive = EvObjects /\ objEventSeq = 1 /\ eventSeen = [o \in EvObjects |-> 0]
  BY DEF EvInit
<1>2. patterns \in Seq(EvPatterns) /\ Len(patterns) = 0
  BY <1>1
<1>. QED
  BY <1>1, <1>2 DEF EvInv, InTextOrder

\* Registering a pattern keeps the tree in order, for a live object.
LEMMA EvInvAlloc ==
  ASSUME EvInv, NEW o \in EvObjects, NEW k \in Keys, NEW p \in BOOLEAN, ubusd_alloc_event_pattern(o, k, p)
  PROVE  EvInv'
<1>1. PICK e \in EvPatterns : e = [obj |-> o, key |-> k, partial |-> p] /\ e.obj = o
  <2>1. [obj |-> o, key |-> k, partial |-> p] \in EvPatterns
    BY DEF EvPatterns
  <2>. QED
    BY <2>1
<1>2. PICK r : r = Inserted(e) /\ r = patterns'
  BY <1>1 DEF ubusd_alloc_event_pattern
<1>3. /\ r \in Seq(EvPatterns) /\ InTextOrder(r)
      /\ \A i \in 1 .. Len(r) : r[i] = e \/ \E j \in 1 .. Len(patterns) : r[i] = patterns[j]
  <2>1. patterns \in Seq(EvPatterns) /\ InTextOrder(patterns)
    BY DEF EvInv
  <2>2. /\ Inserted(e) \in Seq(EvPatterns) /\ InTextOrder(Inserted(e))
        /\ \A i \in 1 .. Len(Inserted(e)) :
             Inserted(e)[i] = e \/ \E j \in 1 .. Len(patterns) : Inserted(e)[i] = patterns[j]
    BY <2>1, InsertedInOrder, Zenon
  <2>. QED
    BY <1>2, <2>2
<1>4. \A i \in 1 .. Len(r) : r[i].obj \in evAlive
  BY <1>1, <1>3 DEF EvInv, ubusd_alloc_event_pattern
<1>5. evAlive' = evAlive /\ eventSeen' = eventSeen /\ objEventSeq' = objEventSeq
  BY DEF ubusd_alloc_event_pattern
<1>. QED
  BY <1>2, <1>3, <1>4, <1>5 DEF EvInv, InTextOrder

\* An object that is freed takes its patterns with it.
LEMMA EvInvCleanup ==
  ASSUME EvInv, NEW o \in EvObjects, ubusd_event_cleanup_object(o)
  PROVE  EvInv'
<1>1. PICK r : r = Without(o) /\ r = patterns'
  BY DEF ubusd_event_cleanup_object
<1>2. /\ r \in Seq(EvPatterns) /\ InTextOrder(r)
      /\ \A i \in 1 .. Len(r) : \E j \in 1 .. Len(patterns) : r[i] = patterns[j] /\ patterns[j].obj # o
  <2>1. patterns \in Seq(EvPatterns) /\ InTextOrder(patterns)
    BY DEF EvInv
  <2>2. /\ Without(o) \in Seq(EvPatterns) /\ InTextOrder(Without(o))
        /\ \A i \in 1 .. Len(Without(o)) :
             \E j \in 1 .. Len(patterns) : Without(o)[i] = patterns[j] /\ patterns[j].obj # o
    BY <2>1, FreedInOrder, Zenon
  <2>. QED
    BY <1>1, <2>2
<1>3. evAlive' = evAlive \ {o} /\ eventSeen' = eventSeen /\ objEventSeq' = objEventSeq
  BY DEF ubusd_event_cleanup_object
<1>4. \A i \in 1 .. Len(r) : r[i].obj \in evAlive'
  BY <1>2, <1>3 DEF EvInv
<1>. QED
  BY <1>1, <1>2, <1>3, <1>4 DEF EvInv, InTextOrder

\* An event is seen by the objects it reaches, with its own number, and reaches those that
\* have a pattern for it, each once.
LEMMA EventSent ==
  ASSUME EvInv, NEW name \in EventNames, NEW from, ubusd_send_event(name, from)
  PROVE  /\ EvInv' /\ lastEvent'.name = name /\ lastEvent'.from = from
         /\ Range(lastEvent'.to) = {o \in evAlive : EvClient[o] # from
              /\ \E i \in DOMAIN patterns : patterns[i].obj = o /\ Wanted(patterns[i], name)}
         /\ Len(lastEvent'.to) = Cardinality(Range(lastEvent'.to))
<1>1. name \in Seq(Int)
  BY EvAssumption
<1>2. PICK seq \in Nat : seq = objEventSeq + 1
  BY DEF EvInv
<1>3. PICK v : v = Visited(name, from, seq)
  OBVIOUS
<1>4. /\ objEventSeq' = seq /\ eventSeen' = v.seen /\ patterns' = patterns /\ evAlive' = evAlive
      /\ lastEvent' = [name |-> name, from |-> from, to |-> v.to]
  BY <1>2, <1>3 DEF ubusd_send_event
<1>5. \A o \in EvObjects : eventSeen[o] < seq
  BY <1>2 DEF EvInv
<1>6. /\ v \in EvVisits /\ Once(v.to)
      /\ Range(v.to) = {o \in EvObjects : Reached(o, Len(patterns), name, from)}
      /\ \A o \in EvObjects : v.seen[o] <= seq
  BY <1>1, <1>3, <1>5, SearchFinds DEF EvInv
<1>7. EvInv'
  <2>1. v.seen \in [EvObjects -> Nat]
    BY <1>6 DEF EvVisits
  <2>. QED
    BY <1>4, <1>6, <2>1 DEF EvInv, InTextOrder
<1>8. {o \in EvObjects : Reached(o, Len(patterns), name, from)} =
        {o \in evAlive : EvClient[o] # from
           /\ \E i \in DOMAIN patterns : patterns[i].obj = o /\ Wanted(patterns[i], name)}
  <2>1. DOMAIN patterns = 1 .. Len(patterns) /\ evAlive \subseteq EvObjects
        /\ \A i \in 1 .. Len(patterns) : patterns[i].obj \in evAlive
    BY LenProperties DEF EvInv
  <2>. QED
    BY <2>1 DEF Reached
<1>9. Len(v.to) = Cardinality(Range(v.to))
  <2>1. v.to \in Seq(EvObjects)
    BY <1>6 DEF EvVisits
  <2>. QED
    BY <1>6, <2>1, OnceCounted
<1>. QED
  BY <1>4, <1>6, <1>7, <1>8, <1>9

\* What EventReaches says of a step.
EventStep ==
  lastEvent' # lastEvent =>
    /\ Range(lastEvent'.to) = {o \in evAlive : EvClient[o] # lastEvent'.from
         /\ \E i \in DOMAIN patterns : patterns[i].obj = o /\ Wanted(patterns[i], lastEvent'.name)}
    /\ Len(lastEvent'.to) = Cardinality(Range(lastEvent'.to))

\* Every step keeps the invariant, and one that sends an event sends it to all.
LEMMA EvStep ==
  ASSUME EvInv, [EvNext]_evVars
  PROVE  EvInv' /\ [EventStep]_evVars
<1>1. ASSUME NEW o \in EvObjects, NEW k \in Keys, NEW p \in BOOLEAN, ubusd_alloc_event_pattern(o, k, p)
      PROVE  EvInv' /\ EventStep
  <2>1. lastEvent' = lastEvent
    BY <1>1 DEF ubusd_alloc_event_pattern
  <2>. QED
    BY <1>1, <2>1, EvInvAlloc DEF EventStep
<1>2. ASSUME NEW o \in EvObjects, ubusd_event_cleanup_object(o)
      PROVE  EvInv' /\ EventStep
  <2>1. lastEvent' = lastEvent
    BY <1>2 DEF ubusd_event_cleanup_object
  <2>. QED
    BY <1>2, <2>1, EvInvCleanup DEF EventStep
<1>3. ASSUME EvSends
      PROVE  EvInv' /\ EventStep
  <2>1. PICK name \in EventNames : \E from : ubusd_send_event(name, from)
    BY <1>3 DEF EvSends, ubusd_forward_event, ubusd_send_obj_event
  <2>2. PICK from : ubusd_send_event(name, from)
    BY <2>1
  <2>3. /\ EvInv' /\ lastEvent'.name = name /\ lastEvent'.from = from
        /\ Range(lastEvent'.to) = {o \in evAlive : EvClient[o] # from
             /\ \E i \in DOMAIN patterns : patterns[i].obj = o /\ Wanted(patterns[i], name)}
        /\ Len(lastEvent'.to) = Cardinality(Range(lastEvent'.to))
    BY <2>2, EventSent
  <2>. QED
    BY <2>3 DEF EventStep
<1>4. CASE UNCHANGED evVars
  BY <1>4 DEF EvInv, InTextOrder, evVars
<1>. QED
  BY <1>1, <1>2, <1>3, <1>4 DEF EvNext

\* Events reach all they should: ubusd_send_event stops at the first pattern that has less
\* in common with the name than the one before, and still sends to each object that has a
\* pattern for it and is not the sender's own, once, and to nobody else.
THEOREM EventsReachAll == EvSpec => EventReaches
<1>1. EvInv /\ [EvNext]_evVars => EvInv'
  BY EvStep
<1>2. EvInv /\ [EvNext]_evVars =>
        [lastEvent' # lastEvent =>
           /\ Range(lastEvent'.to) = {o \in evAlive : EvClient[o] # lastEvent'.from
                /\ \E i \in DOMAIN patterns : patterns[i].obj = o /\ Wanted(patterns[i], lastEvent'.name)}
           /\ Len(lastEvent'.to) = Cardinality(Range(lastEvent'.to))]_evVars
  BY EvStep DEF EventStep
<1>. QED
  BY EvInvInit, <1>1, <1>2, PTL DEF EvSpec, EventReaches
=============================================================================
