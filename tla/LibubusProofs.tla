--------------------------- MODULE LibubusProofs ----------------------------
(***************************************************************************)
(* libubus proved: a context's requests and the objects it serves, its     *)
(* connection, and the command line tool that waits for objects.           *)
(***************************************************************************)
EXTENDS LibubusReq, LibubusConn, UbusWaitFor, ListProofs

-----------------------------------------------------------------------------
(***************************************************************************)
(* LibubusReq, for any requests, nested to any depth: each ends once, by   *)
(* its own status and after its last data, and the program's handlers run  *)
(* outside its synchronous requests, their messages intact and none        *)
(* forgotten.                                                              *)
(***************************************************************************)

\* What a frame, a request, a message and the other side are made of.
Frames ==
  [k : {"main", "sync", "data", "obj", "done", "handle", "ctxPending"},
   r : Requests \union Invokes \union {"none"},
   buf : {"none", "own", "msgbuf", "overwritten"}, saved : BOOLEAN, reg : BOOLEAN]

Subscribers == UNION {Range(subs) : subs \in NotifyTo}
Peers == Subscribers \union {Self, "obj"}

ReqRecs ==
  [st : {"idle", "active", "failed", "aborted", "done"}, seq : Nat, blocked : BOOLEAN,
   status_msg : BOOLEAN, from : Requests \union {"none", "timeout"}, pend : Nat, npend : SUBSET Nat,
   ids : Seq(Subscribers), heard : Nat, completed : Nat, gaveUp : BOOLEAN]

Msgs ==
  [t : {"DATA", "STATUS", "INVOKE"}, req : Requests \union Invokes, seq : Nat, peer : Peers,
   subs : Seq(Subscribers)]

PeerStates ==
  [dead : BOOLEAN, invokes : SUBSET Invokes, data : [Requests -> Nat], owes : [Requests -> Seq(Peers)]]

\* The types of the context's part and of the stack.
CtxTypes ==
  /\ frames \in Seq(Frames) /\ frames # <<>>
  /\ ctxPending \in Seq(Requests \union Invokes)
  /\ registered \in BOOLEAN /\ pendingTimer \in BOOLEAN /\ uloopCancelled \in BOOLEAN /\ sockEof \in BOOLEAN
  /\ rx \in Seq(Msgs) /\ peer \in PeerStates

ReqTypes == reqs \in [Requests -> ReqRecs] /\ ctxRequests \in Seq(Requests) /\ requestSeq \in Nat

-----------------------------------------------------------------------------
(* The stack. *)

\* No synchronous request is being waited for.
NoSync(fs) == \A i \in 1 .. Len(fs) : fs[i].k # "sync"

\* The main loop is at the bottom; a handler, and the loop that calls handlers, has no
\* synchronous request below it and its own message; an inner request found the
\* context registered by the outer one.
StackOk(fs) ==
  /\ \A i \in 1 .. Len(fs) : fs[i].k = "main" <=> i = Len(fs)
  /\ \A i, j \in 1 .. Len(fs) : fs[i].k \in {"obj", "ctxPending"} /\ i <= j => fs[j].k # "sync"
  /\ \A i \in 1 .. Len(fs) : fs[i].k = "obj" => fs[i].buf = "own"
  /\ \A i, j \in 1 .. Len(fs) : fs[i].k = "sync" /\ fs[j].k = "sync" /\ i < j => fs[i].reg

\* a is the stack b but for what reading a message changes in the frames.
Alike(a, b) ==
  /\ Len(a) = Len(b)
  /\ \A i \in 1 .. Len(b) :
       /\ a[i].k = b[i].k /\ a[i].r = b[i].r
       /\ b[i].k = "sync" => a[i].reg = b[i].reg
       /\ b[i].k = "obj" /\ b[i].buf = "own" => a[i].buf = "own"

\* stack_depth counts the synchronous requests.
LEMMA DepthCounts ==
  ASSUME NEW fs \in Seq(Frames)
  PROVE  /\ stack_depth(fs) \in Nat
         /\ stack_depth(fs) = 0 <=> NoSync(fs)
         /\ stack_depth(fs) > 0 <=> ~NoSync(fs)
<1>1. Len(fs) \in Nat /\ DOMAIN fs = 1 .. Len(fs)
  BY LenProperties
<1>2. PICK S : S = {i \in 1 .. Len(fs) : fs[i].k = "sync"}
  OBVIOUS
<1>3. IsFiniteSet(S)
  <2>1. IsFiniteSet(1 .. Len(fs))
    BY <1>1, FS_Interval
  <2>. QED
    BY <1>2, <2>1, FS_Subset
<1>4. Cardinality(S) \in Nat /\ (Cardinality(S) = 0 <=> S = {})
  BY <1>3, FS_CardinalityType, FS_EmptySet
<1>5. stack_depth(fs) = Cardinality(S)
  BY <1>1, <1>2 DEF stack_depth
<1>6. S = {} <=> NoSync(fs)
  BY <1>2 DEF NoSync
<1>. QED
  BY <1>4, <1>5, <1>6

\* A frame pushed on the stack.
LEMMA StackPushed ==
  ASSUME NEW fs \in Seq(Frames), fs # <<>>, StackOk(fs), NEW f \in Frames, f.k # "main",
         f.k \in {"obj", "ctxPending"} => NoSync(fs), f.k = "obj" => f.buf = "own",
         f.k = "sync" => f.reg \/ NoSync(fs)
  PROVE  StackOk(<<f>> \o fs)
<1>1. PICK g : g = <<f>> \o fs
  OBVIOUS
<1>2. /\ g \in Seq(Frames) /\ Len(g) = Len(fs) + 1 /\ g[1] = f
      /\ \A i \in 1 .. Len(fs) : g[i + 1] = fs[i]
      /\ \A i \in 1 .. Len(fs) + 1 : i = 1 \/ i - 1 \in 1 .. Len(fs)
  BY <1>1, FramePushed
<1>3. Len(fs) \in Nat /\ Len(fs) > 0
  BY LenProperties, EmptySeq
<1>4. \A i \in 1 .. Len(g) : (i = 1 /\ g[i] = f) \/ \E m \in 1 .. Len(fs) : i = m + 1 /\ g[i] = fs[m]
  <2>. SUFFICES ASSUME NEW i \in 1 .. Len(g), i # 1
                PROVE  \E m \in 1 .. Len(fs) : i = m + 1 /\ g[i] = fs[m]
    BY <1>2
  <2>1. PICK m \in 1 .. Len(fs) : m = i - 1
    BY <1>2
  <2>2. i = m + 1
    BY <2>1
  <2>. QED
    BY <1>2, <2>2
<1>5. \A i \in 1 .. Len(g) : g[i].k = "main" <=> i = Len(g)
  <2>. TAKE i \in 1 .. Len(g)
  <2>1. CASE i = 1
    BY <1>2, <1>3, <2>1
  <2>2. CASE i # 1
    <3>1. PICK m \in 1 .. Len(fs) : i = m + 1 /\ g[i] = fs[m]
      BY <1>4, <2>2
    <3>2. fs[m].k = "main" <=> m = Len(fs)
      BY DEF StackOk
    <3>. QED
      BY <1>2, <1>3, <3>1, <3>2
  <2>. QED
    BY <2>1, <2>2
<1>6. \A i, j \in 1 .. Len(g) : g[i].k \in {"obj", "ctxPending"} /\ i <= j => g[j].k # "sync"
  <2>. SUFFICES ASSUME NEW i \in 1 .. Len(g), NEW j \in 1 .. Len(g), g[i].k \in {"obj", "ctxPending"}, i <= j
                PROVE  g[j].k # "sync"
    OBVIOUS
  <2>1. CASE i = 1
    BY <1>2, <1>4, <2>1 DEF NoSync
  <2>2. CASE i # 1
    <3>1. PICK m \in 1 .. Len(fs) : i = m + 1 /\ g[i] = fs[m]
      BY <1>4, <2>2
    <3>2. PICK n \in 1 .. Len(fs) : j = n + 1 /\ g[j] = fs[n]
      BY <1>2, <1>3, <1>4, <3>1
    <3>3. m <= n
      BY <3>1, <3>2
    <3>. QED
      BY <3>1, <3>2, <3>3 DEF StackOk
  <2>. QED
    BY <2>1, <2>2
<1>7. \A i \in 1 .. Len(g) : g[i].k = "obj" => g[i].buf = "own"
  <2>. TAKE i \in 1 .. Len(g)
  <2>1. g[i] = f \/ \E m \in 1 .. Len(fs) : g[i] = fs[m]
    BY <1>4
  <2>. QED
    BY <2>1 DEF StackOk
<1>8. \A i, j \in 1 .. Len(g) : g[i].k = "sync" /\ g[j].k = "sync" /\ i < j => g[i].reg
  <2>. SUFFICES ASSUME NEW i \in 1 .. Len(g), NEW j \in 1 .. Len(g), g[i].k = "sync", g[j].k = "sync", i < j
                PROVE  g[i].reg
    OBVIOUS
  <2>1. PICK n \in 1 .. Len(fs) : j = n + 1 /\ g[j] = fs[n]
    BY <1>2, <1>3, <1>4
  <2>2. CASE i = 1
    BY <1>2, <2>1, <2>2 DEF NoSync
  <2>3. CASE i # 1
    <3>1. PICK m \in 1 .. Len(fs) : i = m + 1 /\ g[i] = fs[m]
      BY <1>4, <2>3
    <3>2. m < n
      BY <2>1, <3>1
    <3>. QED
      BY <2>1, <3>1, <3>2 DEF StackOk
  <2>. QED
    BY <2>2, <2>3
<1>. QED
  BY <1>1, <1>5, <1>6, <1>7, <1>8 DEF StackOk

\* The top frame taken off.
LEMMA StackPopped ==
  ASSUME NEW fs \in Seq(Frames), fs # <<>>, StackOk(fs), Head(fs).k # "main"
  PROVE  Tail(fs) \in Seq(Frames) /\ Tail(fs) # <<>> /\ StackOk(Tail(fs))
<1>1. PICK g : g = Tail(fs)
  OBVIOUS
<1>2. /\ Head(fs) = fs[1] /\ g \in Seq(Frames)
      /\ Len(fs) \in Nat /\ Len(fs) > 0 /\ Len(g) = Len(fs) - 1
      /\ \A i \in 1 .. Len(g) : g[i] = fs[i + 1] /\ i + 1 \in 1 .. Len(fs)
  BY <1>1, TopTaken
<1>3. 1 \in 1 .. Len(fs) /\ 1 # Len(fs)
  <2>1. 1 \in 1 .. Len(fs)
    BY <1>2
  <2>. QED
    BY <1>2, <2>1 DEF StackOk
<1>4. Len(g) \in Nat /\ Len(g) > 0 /\ g # <<>>
  <2>1. Len(g) \in Nat /\ Len(g) > 0
    BY <1>2, <1>3
  <2>. QED
    BY <1>2, <2>1, EmptySeq
<1>5. \A i \in 1 .. Len(g) : \E m \in 1 .. Len(fs) : m = i + 1 /\ g[i] = fs[m]
  BY <1>2
<1>6. \A i \in 1 .. Len(g) : g[i].k = "main" <=> i = Len(g)
  <2>. TAKE i \in 1 .. Len(g)
  <2>1. PICK m \in 1 .. Len(fs) : m = i + 1 /\ g[i] = fs[m]
    BY <1>5
  <2>2. fs[m].k = "main" <=> m = Len(fs)
    BY DEF StackOk
  <2>3. m = Len(fs) <=> i = Len(g)
    BY <1>2, <2>1
  <2>. QED
    BY <2>1, <2>2, <2>3
<1>7. \A i, j \in 1 .. Len(g) :
        /\ g[i].k \in {"obj", "ctxPending"} /\ i <= j => g[j].k # "sync"
        /\ g[i].k = "sync" /\ g[j].k = "sync" /\ i < j => g[i].reg
  <2>. TAKE i, j \in 1 .. Len(g)
  <2>1. PICK m \in 1 .. Len(fs) : m = i + 1 /\ g[i] = fs[m]
    BY <1>5
  <2>2. PICK n \in 1 .. Len(fs) : n = j + 1 /\ g[j] = fs[n]
    BY <1>5
  <2>3. (i <= j => m <= n) /\ (i < j => m < n)
    BY <2>1, <2>2
  <2>. QED
    BY <2>1, <2>2, <2>3 DEF StackOk
<1>8. \A i \in 1 .. Len(g) : g[i].k = "obj" => g[i].buf = "own"
  BY <1>5 DEF StackOk
<1>. QED
  BY <1>1, <1>2, <1>4, <1>6, <1>7, <1>8 DEF StackOk

\* Reading a message leaves the stack as it is in what the properties are about.
LEMMA StackAlike ==
  ASSUME NEW a \in Seq(Frames), NEW b \in Seq(Frames), b # <<>>, Alike(a, b), StackOk(b)
  PROVE  StackOk(a) /\ a # <<>> /\ (NoSync(a) <=> NoSync(b))
<1>1. Len(a) = Len(b) /\ Len(b) \in Nat /\ Len(b) > 0
  BY LenProperties, EmptySeq DEF Alike
<1>2. a # <<>>
  BY <1>1
<1>3. StackOk(a)
  BY <1>1 DEF StackOk, Alike
<1>. QED
  BY <1>1, <1>2, <1>3 DEF Alike, NoSync

\* The innermost frame gives way to one like it.
LEMMA TopReplaced ==
  ASSUME frames \in Seq(Frames), frames # <<>>, NEW f \in Frames, f.k = Top.k, f.r = Top.r,
         f.k = "sync" => f.reg = Top.reg, f.k = "obj" => f.buf = Top.buf
  PROVE  <<f>> \o Below \in Seq(Frames) /\ Alike(<<f>> \o Below, frames)
<1>1. /\ Top \in Frames /\ Top = frames[1] /\ Below \in Seq(Frames)
      /\ Len(frames) \in Nat /\ Len(frames) > 0 /\ Len(Below) = Len(frames) - 1
      /\ \A i \in 1 .. Len(Below) : Below[i] = frames[i + 1] /\ i + 1 \in 1 .. Len(frames)
      /\ \A i \in 1 .. Len(frames) : i = 1 \/ i - 1 \in 1 .. Len(Below)
  BY TopTaken DEF Top, Below
<1>2. PICK g : g = <<f>> \o Below
  OBVIOUS
<1>3. /\ g \in Seq(Frames) /\ Len(g) = Len(Below) + 1 /\ g[1] = f
      /\ \A i \in 1 .. Len(Below) : g[i + 1] = Below[i]
  BY <1>1, <1>2, FramePushed
<1>4. \A i \in 1 .. Len(frames) : i = 1 \/ g[i] = frames[i]
  <2>. SUFFICES ASSUME NEW i \in 1 .. Len(frames), i # 1 PROVE g[i] = frames[i]
    OBVIOUS
  <2>1. PICK m \in 1 .. Len(Below) : m = i - 1
    BY <1>1
  <2>2. i = m + 1
    BY <1>1, <2>1
  <2>. QED
    BY <1>1, <1>3, <2>2
<1>5. Len(g) = Len(frames)
  BY <1>1, <1>3
<1>6. Alike(g, frames)
  BY <1>1, <1>3, <1>4, <1>5 DEF Alike
<1>. QED
  BY <1>2, <1>3, <1>6

\* The innermost frame keeps a flag.
LEMMA TopKept ==
  ASSUME frames \in Seq(Frames), frames # <<>>, NEW v \in BOOLEAN
  PROVE  TopSaved(v) \in Seq(Frames) /\ Alike(TopSaved(v), frames)
<1>1. Top \in Frames
  BY TopTaken DEF Top
<1>2. PICK f \in Frames : f = [Top EXCEPT !.saved = v]
  BY <1>1 DEF Frames
<1>3. f.k = Top.k /\ f.r = Top.r /\ f.reg = Top.reg /\ f.buf = Top.buf
  BY <1>1, <1>2 DEF Frames
<1>. QED
  BY <1>2, <1>3, TopReplaced DEF TopSaved

\* Overwriting the buffer does not touch a handler's own message.
LEMMA OverwriteKeeps ==
  ASSUME NEW fs \in Seq(Frames)
  PROVE  Overwrite(fs) \in Seq(Frames) /\ Alike(Overwrite(fs), fs)
<1>1. Len(fs) \in Nat /\ DOMAIN fs = 1 .. Len(fs) /\ \A i \in 1 .. Len(fs) : fs[i] \in Frames
  BY LenProperties, ElementOfSeq
<1>2. PICK g : g = Overwrite(fs)
  OBVIOUS
<1>3. \A i \in 1 .. Len(fs) :
        (IF fs[i].buf = "msgbuf" THEN [fs[i] EXCEPT !.buf = "overwritten"] ELSE fs[i]) \in Frames
  <2>. TAKE i \in 1 .. Len(fs)
  <2>1. PICK f \in Frames : f = fs[i]
    BY <1>1
  <2>2. [f EXCEPT !.buf = "overwritten"] \in Frames
    BY DEF Frames
  <2>. QED
    BY <2>1, <2>2
<1>4. g \in [1 .. Len(fs) -> Frames]
  BY <1>1, <1>2, <1>3 DEF Overwrite
<1>5. g \in Seq(Frames) /\ Len(g) = Len(fs)
  BY <1>1, <1>4, MappedList
<1>6. ASSUME NEW i \in 1 .. Len(fs)
      PROVE  /\ g[i].k = fs[i].k /\ g[i].r = fs[i].r /\ g[i].reg = fs[i].reg
             /\ fs[i].buf = "own" => g[i].buf = "own"
  <2>1. PICK f \in Frames : f = fs[i]
    BY <1>1
  <2>2. g[i] = IF f.buf = "msgbuf" THEN [f EXCEPT !.buf = "overwritten"] ELSE f
    BY <1>1, <1>2, <2>1 DEF Overwrite
  <2>. QED
    BY <2>1, <2>2 DEF Frames
<1>. QED
  BY <1>2, <1>5, <1>6 DEF Alike

\* One change after the other.
LEMMA AlikeTwice ==
  ASSUME NEW a, NEW b, NEW c, Alike(a, b), Alike(b, c)
  PROVE  Alike(a, c)
  BY DEF Alike

\* The stack after a message was read.
LEMMA ReadStack ==
  ASSUME frames \in Seq(Frames), frames # <<>>, NEW fs, fs = Overwrite(TopSaved(TRUE))
  PROVE  fs \in Seq(Frames) /\ Alike(fs, frames)
<1>1. PICK g \in Seq(Frames) : g = TopSaved(TRUE) /\ Alike(g, frames)
  BY TopKept
<1>2. fs \in Seq(Frames) /\ Alike(fs, g)
  BY <1>1, OverwriteKeeps
<1>. QED
  BY <1>1, <1>2, AlikeTwice

-----------------------------------------------------------------------------
(* The calls on the stack and the requests they are about. *)

\* Frame i is the call k of request r.
Calls(fs, i, k, r) == fs[i].k = k /\ fs[i].r = r

\* A synchronous request waited for is active, one whose data callback runs is blocked;
\* each is on the stack once, and the data callback of a synchronous one within it.
CallsOk(fs, q) ==
  /\ \A i \in 1 .. Len(fs) : fs[i].k = "sync" => fs[i].r \in Requests /\ Sync(fs[i].r) /\ q[fs[i].r].st = "active"
  /\ \A i \in 1 .. Len(fs) : fs[i].k = "data" => fs[i].r \in Requests /\ q[fs[i].r].blocked
  /\ \A i, j \in 1 .. Len(fs) : fs[i].r = fs[j].r =>
       /\ fs[i].k = "sync" /\ fs[j].k = "sync" => i = j
       /\ fs[i].k = "data" /\ fs[j].k = "data" => i = j
       /\ fs[i].k = "data" /\ fs[j].k = "sync" => i < j
  /\ \A r \in Requests : q[r].blocked => \E i \in 1 .. Len(fs) : Calls(fs, i, "data", r)

\* Somebody waits for request r.
Waited(fs, r) == \E i \in 1 .. Len(fs) : Calls(fs, i, "sync", r)

\* Reading a message leaves the calls.
LEMMA CallsAlike ==
  ASSUME NEW a, NEW b, NEW q, Alike(a, b)
  PROVE  /\ CallsOk(b, q) => CallsOk(a, q)
         /\ \A r : Waited(a, r) <=> Waited(b, r)
<1>1. Len(a) = Len(b) /\ \A i \in 1 .. Len(b) : a[i].k = b[i].k /\ a[i].r = b[i].r
  BY DEF Alike
<1>2. CallsOk(b, q) => CallsOk(a, q)
  BY <1>1 DEF CallsOk, Calls
<1>3. \A r : Waited(a, r) <=> Waited(b, r)
  BY <1>1 DEF Waited, Calls
<1>. QED
  BY <1>2, <1>3

\* Requests change in something else.
LEMMA CallsLeft ==
  ASSUME NEW fs, NEW q, NEW q2, CallsOk(fs, q),
         \A r \in Requests : /\ q2[r].blocked = q[r].blocked
                             /\ Sync(r) /\ q[r].st = "active" => q2[r].st = "active"
  PROVE  CallsOk(fs, q2)
<1>1. \A i \in 1 .. Len(fs) : fs[i].k = "sync" => fs[i].r \in Requests /\ Sync(fs[i].r) /\ q2[fs[i].r].st = "active"
  BY DEF CallsOk
<1>2. \A i \in 1 .. Len(fs) : fs[i].k = "data" => fs[i].r \in Requests /\ q2[fs[i].r].blocked
  BY DEF CallsOk
<1>3. \A r \in Requests : q2[r].blocked => \E i \in 1 .. Len(fs) : Calls(fs, i, "data", r)
  BY DEF CallsOk
<1>. QED
  BY <1>1, <1>2, <1>3 DEF CallsOk

\* A call is made.
LEMMA CallMade ==
  ASSUME NEW fs \in Seq(Frames), NEW f \in Frames, NEW q, NEW q2, CallsOk(fs, q),
         \A i \in 1 .. Len(fs) : fs[i].k = "sync" => q2[fs[i].r].st = "active",
         \A i \in 1 .. Len(fs) : fs[i].k = "data" => q2[fs[i].r].blocked,
         f.k = "sync" => f.r \in Requests /\ Sync(f.r) /\ q2[f.r].st = "active",
         f.k = "data" => f.r \in Requests /\ q2[f.r].blocked,
         \A i \in 1 .. Len(fs) : fs[i].r = f.r =>
           /\ fs[i].k \in {"sync", "data"} => f.k # "sync"
           /\ fs[i].k = "data" => f.k # "data",
         \A r \in Requests : q2[r].blocked => q[r].blocked \/ (f.k = "data" /\ f.r = r)
  PROVE  /\ CallsOk(<<f>> \o fs, q2)
         /\ \A r : Waited(<<f>> \o fs, r) <=> Waited(fs, r) \/ (f.k = "sync" /\ f.r = r)
<1>1. PICK g : g = <<f>> \o fs
  OBVIOUS
<1>2. /\ g \in Seq(Frames) /\ Len(g) = Len(fs) + 1 /\ g[1] = f
      /\ \A i \in 1 .. Len(fs) : g[i + 1] = fs[i]
      /\ \A i \in 1 .. Len(fs) + 1 : i = 1 \/ i - 1 \in 1 .. Len(fs)
  BY <1>1, FramePushed
<1>3. Len(fs) \in Nat
  BY LenProperties
<1>4. \A i \in 1 .. Len(g) : (i = 1 /\ g[i] = f) \/ \E m \in 1 .. Len(fs) : i = m + 1 /\ g[i] = fs[m]
  <2>. SUFFICES ASSUME NEW i \in 1 .. Len(g), i # 1
                PROVE  \E m \in 1 .. Len(fs) : i = m + 1 /\ g[i] = fs[m]
    BY <1>2
  <2>1. PICK m \in 1 .. Len(fs) : m = i - 1
    BY <1>2
  <2>2. i = m + 1
    BY <2>1
  <2>. QED
    BY <1>2, <2>2
<1>5. \A i \in 1 .. Len(g) : g[i].k = "sync" => g[i].r \in Requests /\ Sync(g[i].r) /\ q2[g[i].r].st = "active"
  <2>. TAKE i \in 1 .. Len(g)
  <2>1. g[i] = f \/ \E m \in 1 .. Len(fs) : g[i] = fs[m]
    BY <1>4
  <2>. QED
    BY <2>1 DEF CallsOk
<1>6. \A i \in 1 .. Len(g) : g[i].k = "data" => g[i].r \in Requests /\ q2[g[i].r].blocked
  <2>. TAKE i \in 1 .. Len(g)
  <2>1. g[i] = f \/ \E m \in 1 .. Len(fs) : g[i] = fs[m]
    BY <1>4
  <2>. QED
    BY <2>1 DEF CallsOk
<1>7. ASSUME NEW i \in 1 .. Len(g), NEW j \in 1 .. Len(g), g[i].r = g[j].r
      PROVE  /\ g[i].k = "sync" /\ g[j].k = "sync" => i = j
             /\ g[i].k = "data" /\ g[j].k = "data" => i = j
             /\ g[i].k = "data" /\ g[j].k = "sync" => i < j
  <2>1. CASE i = 1 /\ j = 1
    BY <1>2, <2>1
  <2>2. CASE i = 1 /\ j # 1
    <3>1. PICK n \in 1 .. Len(fs) : j = n + 1 /\ g[j] = fs[n]
      BY <1>4, <2>2
    <3>2. i < j
      BY <2>2, <3>1
    <3>. QED
      BY <1>2, <1>7, <2>2, <3>1, <3>2
  <2>3. CASE i # 1 /\ j = 1
    <3>1. PICK m \in 1 .. Len(fs) : i = m + 1 /\ g[i] = fs[m]
      BY <1>4, <2>3
    <3>. QED
      BY <1>2, <1>7, <2>3, <3>1
  <2>4. CASE i # 1 /\ j # 1
    <3>1. PICK m \in 1 .. Len(fs) : i = m + 1 /\ g[i] = fs[m]
      BY <1>4, <2>4
    <3>2. PICK n \in 1 .. Len(fs) : j = n + 1 /\ g[j] = fs[n]
      BY <1>4, <2>4
    <3>3. (m = n => i = j) /\ (m < n => i < j)
      BY <3>1, <3>2
    <3>. QED
      BY <1>7, <3>1, <3>2, <3>3 DEF CallsOk
  <2>. QED
    BY <2>1, <2>2, <2>3, <2>4
<1>8. \A i \in 1 .. Len(fs) : i + 1 \in 1 .. Len(g)
  BY <1>2, <1>3
<1>9. 1 \in 1 .. Len(g)
  BY <1>2, <1>3
<1>10. ASSUME NEW r \in Requests, q2[r].blocked
       PROVE  \E i \in 1 .. Len(g) : Calls(g, i, "data", r)
  <2>1. CASE f.k = "data" /\ f.r = r
    BY <1>2, <1>9, <2>1 DEF Calls
  <2>2. CASE q[r].blocked
    <3>1. PICK i \in 1 .. Len(fs) : Calls(fs, i, "data", r)
      BY <2>2 DEF CallsOk
    <3>2. PICK m \in 1 .. Len(g) : m = i + 1 /\ g[m] = fs[i]
      BY <1>2, <1>8
    <3>. QED
      BY <3>1, <3>2 DEF Calls
  <2>. QED
    BY <1>10, <2>1, <2>2
<1>11. ASSUME NEW r
       PROVE  Waited(g, r) <=> Waited(fs, r) \/ (f.k = "sync" /\ f.r = r)
  <2>1. ASSUME Waited(g, r) PROVE Waited(fs, r) \/ (f.k = "sync" /\ f.r = r)
    BY <1>4, <2>1 DEF Waited, Calls
  <2>2. ASSUME Waited(fs, r) PROVE Waited(g, r)
    <3>1. PICK i \in 1 .. Len(fs) : Calls(fs, i, "sync", r)
      BY <2>2 DEF Waited
    <3>2. PICK m \in 1 .. Len(g) : m = i + 1 /\ g[m] = fs[i]
      BY <1>2, <1>8
    <3>. QED
      BY <3>1, <3>2 DEF Waited, Calls
  <2>3. ASSUME f.k = "sync", f.r = r PROVE Waited(g, r)
    BY <1>2, <1>9, <2>3 DEF Waited, Calls
  <2>. QED
    BY <2>1, <2>2, <2>3
<1>12. CallsOk(g, q2)
  BY <1>5, <1>6, <1>7, <1>10 DEF CallsOk
<1>. QED
  BY <1>1, <1>11, <1>12

\* A call returns.
LEMMA CallReturns ==
  ASSUME NEW fs \in Seq(Frames), fs # <<>>, NEW q, NEW q2, CallsOk(fs, q),
         \A i \in 1 .. Len(fs) : i # 1 /\ fs[i].k = "sync" => q2[fs[i].r].st = "active",
         \A i \in 1 .. Len(fs) : i # 1 /\ fs[i].k = "data" => q2[fs[i].r].blocked,
         \A r \in Requests : q2[r].blocked => q[r].blocked /\ ~(Head(fs).k = "data" /\ Head(fs).r = r)
  PROVE  /\ CallsOk(Tail(fs), q2)
         /\ \A r : Waited(fs, r) /\ ~(Head(fs).k = "sync" /\ Head(fs).r = r) => Waited(Tail(fs), r)
<1>1. PICK g : g = Tail(fs)
  OBVIOUS
<1>2. /\ Head(fs) = fs[1] /\ g \in Seq(Frames)
      /\ Len(fs) \in Nat /\ Len(fs) > 0 /\ Len(g) = Len(fs) - 1
      /\ \A i \in 1 .. Len(g) : g[i] = fs[i + 1] /\ i + 1 \in 1 .. Len(fs)
      /\ \A i \in 1 .. Len(fs) : i = 1 \/ i - 1 \in 1 .. Len(g)
  BY <1>1, TopTaken
<1>3. \A i \in 1 .. Len(g) : \E m \in 1 .. Len(fs) : m = i + 1 /\ m # 1 /\ g[i] = fs[m]
  BY <1>2
<1>4. \A m \in 1 .. Len(fs) : m = 1 \/ \E i \in 1 .. Len(g) : m = i + 1 /\ g[i] = fs[m]
  <2>. SUFFICES ASSUME NEW m \in 1 .. Len(fs), m # 1 PROVE \E i \in 1 .. Len(g) : m = i + 1 /\ g[i] = fs[m]
    OBVIOUS
  <2>1. PICK i \in 1 .. Len(g) : i = m - 1
    BY <1>2
  <2>2. m = i + 1
    BY <2>1
  <2>. QED
    BY <1>2, <2>2
<1>5. \A i \in 1 .. Len(g) : g[i].k = "sync" => g[i].r \in Requests /\ Sync(g[i].r) /\ q2[g[i].r].st = "active"
  <2>. TAKE i \in 1 .. Len(g)
  <2>1. PICK m \in 1 .. Len(fs) : m # 1 /\ g[i] = fs[m]
    BY <1>3
  <2>. QED
    BY <2>1 DEF CallsOk
<1>6. \A i \in 1 .. Len(g) : g[i].k = "data" => g[i].r \in Requests /\ q2[g[i].r].blocked
  <2>. TAKE i \in 1 .. Len(g)
  <2>1. PICK m \in 1 .. Len(fs) : m # 1 /\ g[i] = fs[m]
    BY <1>3
  <2>. QED
    BY <2>1 DEF CallsOk
<1>7. ASSUME NEW i \in 1 .. Len(g), NEW j \in 1 .. Len(g), g[i].r = g[j].r
      PROVE  /\ g[i].k = "sync" /\ g[j].k = "sync" => i = j
             /\ g[i].k = "data" /\ g[j].k = "data" => i = j
             /\ g[i].k = "data" /\ g[j].k = "sync" => i < j
  <2>1. PICK m \in 1 .. Len(fs) : m = i + 1 /\ g[i] = fs[m]
    BY <1>3
  <2>2. PICK n \in 1 .. Len(fs) : n = j + 1 /\ g[j] = fs[n]
    BY <1>3
  <2>3. (m = n => i = j) /\ (m < n => i < j)
    BY <2>1, <2>2
  <2>. QED
    BY <1>7, <2>1, <2>2, <2>3 DEF CallsOk
<1>8. ASSUME NEW r \in Requests, q2[r].blocked
      PROVE  \E i \in 1 .. Len(g) : Calls(g, i, "data", r)
  <2>1. PICK m \in 1 .. Len(fs) : fs[m].k = "data" /\ fs[m].r = r
    BY <1>8 DEF CallsOk, Calls
  <2>2. m # 1
    BY <1>2, <1>8, <2>1
  <2>. QED
    BY <1>4, <2>1, <2>2 DEF Calls
<1>9. ASSUME NEW r, Waited(fs, r), ~(Head(fs).k = "sync" /\ Head(fs).r = r)
      PROVE  Waited(g, r)
  <2>1. PICK m \in 1 .. Len(fs) : fs[m].k = "sync" /\ fs[m].r = r
    BY <1>9 DEF Waited, Calls
  <2>2. m # 1
    BY <1>2, <1>9, <2>1
  <2>. QED
    BY <1>4, <2>1, <2>2 DEF Waited, Calls
<1>10. CallsOk(g, q2)
  BY <1>5, <1>6, <1>7, <1>8 DEF CallsOk
<1>. QED
  BY <1>1, <1>9, <1>10

-----------------------------------------------------------------------------
(* The requests. *)

\* The request was sent.
Sent(n) == n.st \in {"active", "done", "aborted"}

\* A notification waits for the daemon alone, or for as many of the subscribers as have
\* not been heard.
NotifyFine(n) ==
  /\ n.npend \subseteq 0 .. Len(n.ids) /\ n.heard + Cardinality(n.npend) = 1 + Len(n.ids)
  /\ 0 \in n.npend => n.npend = {0} /\ n.ids = <<>>
  /\ n.status_msg => n.npend = {}

\* The fields of request r fit together.
ReqFine(r, n) ==
  /\ n.completed = IF n.st = "done" THEN 1 ELSE 0
  /\ ~n.blocked => n.pend = 0
  /\ n.st \in {"idle", "done"} => ~n.blocked
  /\ n.status_msg => n.st \in {"active", "done"}
  /\ n.st = "done" => n.status_msg
  /\ n.from \in {"none", "timeout", r}
  /\ n.st = "idle" => n.ids = <<>> /\ n.heard = 0
  /\ ModeOf[r] = "notify" /\ Sent(n) => NotifyFine(n)

AllFine(q) == \A r \in Requests : ReqFine(r, q[r])

\* A listed request is active, has no status yet and, when synchronous, is waited for.
ListOk(ls, fs, q) ==
  /\ Once(ls)
  /\ \A r \in Range(ls) : q[r].st = "active" /\ ~q[r].status_msg /\ (Sync(r) => Waited(fs, r))

\* The same requests were sent, under the same numbers.
SentKept(q, q2) == \A r \in Requests : (Sent(q2[r]) <=> Sent(q[r])) /\ q2[r].seq = q[r].seq

\* What the end of handling a message is.
Ends(after, q, fs) ==
  /\ after.q \in [Requests -> ReqRecs] /\ after.ls \in Seq(Requests) /\ after.fs \in Seq(Frames)
  /\ after.cancel \in BOOLEAN
  /\ after.fs = fs \/ \E f \in Frames : f.k \in {"data", "done"} /\ after.fs = <<f>> \o fs
  /\ CallsOk(after.fs, after.q) /\ ListOk(after.ls, after.fs, after.q) /\ AllFine(after.q)
  /\ SentKept(q, after.q)

\* A frame of libubus' own making.
LEMMA NewFrame ==
  ASSUME NEW k \in {"main", "sync", "data", "obj", "done", "handle", "ctxPending"},
         NEW r \in Requests \union Invokes \union {"none"},
         NEW b \in {"none", "own", "msgbuf", "overwritten"}
  PROVE  /\ Frame(k, r, b) \in Frames
         /\ Frame(k, r, b).k = k /\ Frame(k, r, b).r = r /\ Frame(k, r, b).buf = b
  BY DEF Frame, Frames

\* A frame that is no call of a request changes none of them.
LEMMA PlainPushed ==
  ASSUME NEW fs \in Seq(Frames), NEW f \in Frames, f.k \notin {"sync", "data"}, NEW q, CallsOk(fs, q)
  PROVE  CallsOk(<<f>> \o fs, q) /\ \A r : Waited(<<f>> \o fs, r) <=> Waited(fs, r)
<1>1. \A i \in 1 .. Len(fs) : /\ fs[i].k = "sync" => q[fs[i].r].st = "active"
                              /\ fs[i].k = "data" => q[fs[i].r].blocked
  BY DEF CallsOk
<1>2. f.k # "sync" /\ f.k # "data"
  OBVIOUS
<1>. QED
  BY <1>1, <1>2, CallMade

\* complete_cb of a request whose status is set and whose data callback is not running.
LEMMA CompleteCalled ==
  ASSUME NEW q \in [Requests -> ReqRecs], NEW ls \in Seq(Requests), NEW fs \in Seq(Frames),
         CallsOk(fs, q), ListOk(ls, fs, q), AllFine(q), NEW r \in Requests,
         q[r].st = "active", q[r].status_msg, ~q[r].blocked
  PROVE  Ends(ubus_req_complete_cb(q, ls, fs, r), q, fs)
<1>1. CASE Sync(r)
  <2>1. ubus_req_complete_cb(q, ls, fs, r) = [q |-> q, ls |-> ls, fs |-> fs, cancel |-> TRUE]
    BY <1>1 DEF ubus_req_complete_cb
  <2>2. SentKept(q, q)
    BY DEF SentKept
  <2>. QED
    BY <2>1, <2>2 DEF Ends
<1>2. CASE ~Sync(r)
  <2>1. PICK n \in ReqRecs : n = [q[r] EXCEPT !.completed = @ + 1, !.st = "done"]
    <3>1. PICK n0 \in ReqRecs : n0 = q[r]
      OBVIOUS
    <3>2. PICK c \in Nat : c = n0.completed + 1
      BY DEF ReqRecs
    <3>3. [n0 EXCEPT !.completed = c, !.st = "done"] \in ReqRecs
      BY DEF ReqRecs
    <3>. QED
      BY <3>1, <3>2, <3>3
  <2>2. /\ n.completed = q[r].completed + 1 /\ n.st = "done" /\ n.blocked = q[r].blocked /\ n.pend = q[r].pend
        /\ n.status_msg = q[r].status_msg /\ n.from = q[r].from /\ n.npend = q[r].npend /\ n.ids = q[r].ids
        /\ n.heard = q[r].heard /\ n.seq = q[r].seq
    BY <2>1 DEF ReqRecs
  <2>3. PICK q2 : q2 = [q EXCEPT ![r] = n]
    OBVIOUS
  <2>4. q2 \in [Requests -> ReqRecs] /\ q2[r] = n /\ \A s \in Requests : s # r => q2[s] = q[s]
    BY <2>3
  <2>5. PICK f \in Frames : f = Frame("done", r, "none") /\ f.k = "done"
    BY NewFrame
  <2>6. ubus_req_complete_cb(q, ls, fs, r) = [q |-> q2, ls |-> ls, fs |-> <<f>> \o fs, cancel |-> FALSE]
    BY <1>2, <2>1, <2>3, <2>5 DEF ubus_req_complete_cb
  <2>7. CallsOk(fs, q2)
    <3>1. \A s \in Requests : q2[s].blocked = q[s].blocked /\ (Sync(s) /\ q[s].st = "active" => q2[s].st = "active")
      BY <1>2, <2>2, <2>4
    <3>. QED
      BY <3>1, CallsLeft
  <2>8. CallsOk(<<f>> \o fs, q2) /\ \A s : Waited(<<f>> \o fs, s) <=> Waited(fs, s)
    BY <2>5, <2>7, PlainPushed
  <2>9. ListOk(ls, <<f>> \o fs, q2)
    <3>1. r \notin Range(ls) /\ Range(ls) \subseteq Requests
      BY ListMembers DEF ListOk
    <3>2. \A s \in Range(ls) : q2[s] = q[s]
      BY <2>4, <3>1
    <3>. QED
      BY <2>8, <3>2 DEF ListOk
  <2>10. AllFine(q2)
    <3>1. ReqFine(r, q[r]) /\ q[r].completed \in Nat
      BY DEF AllFine, ReqRecs
    <3>2. n.completed = 1
      BY <2>2, <3>1 DEF ReqFine
    <3>3. ModeOf[r] = "notify" => NotifyFine(n)
      BY <2>2, <3>1 DEF ReqFine, NotifyFine, Sent
    <3>4. ReqFine(r, n)
      BY <2>2, <3>1, <3>2, <3>3 DEF ReqFine
    <3>. QED
      BY <2>4, <3>4 DEF AllFine
  <2>11. SentKept(q, q2)
    BY <2>2, <2>4 DEF SentKept, Sent
  <2>12. <<f>> \o fs \in Seq(Frames)
    BY FramePushed
  <2>13. PICK after : after = ubus_req_complete_cb(q, ls, fs, r)
    OBVIOUS
  <2>14. after.q = q2 /\ after.ls = ls /\ after.fs = <<f>> \o fs /\ after.cancel = FALSE
    BY <2>6, <2>13
  <2>15. Ends(after, q, fs)
    BY <2>4, <2>5, <2>8, <2>9, <2>10, <2>11, <2>12, <2>14 DEF Ends
  <2>. QED
    BY <2>13, <2>15
<1>. QED
  BY <1>1, <1>2

\* ubus_set_req_status of a request in progress.
LEMMA StatusSet ==
  ASSUME NEW q \in [Requests -> ReqRecs], NEW ls \in Seq(Requests), NEW fs \in Seq(Frames),
         CallsOk(fs, q), ListOk(ls, fs, q), AllFine(q), NEW r \in Requests,
         q[r].st = "active", NEW from \in {"timeout", r}, ModeOf[r] = "notify" => q[r].npend = {}
  PROVE  Ends(ubus_set_req_status(q, ls, fs, r, from), q, fs)
<1>1. r \in Requests /\ Range(ls) \subseteq Requests /\ q[r].st = "active"
  BY ListMembers DEF ListOk
<1>2. PICK n \in ReqRecs : n = [q[r] EXCEPT !.status_msg = TRUE, !.from = from]
  BY <1>1, ZenonT(30) DEF ReqRecs
<1>3. /\ n.completed = q[r].completed /\ n.st = "active" /\ n.blocked = q[r].blocked /\ n.pend = q[r].pend
      /\ n.status_msg /\ n.from = from /\ n.npend = q[r].npend /\ n.ids = q[r].ids
      /\ n.heard = q[r].heard /\ n.seq = q[r].seq
  BY <1>1, <1>2 DEF ReqRecs
<1>4. PICK q1 : q1 = [q EXCEPT ![r] = n]
  OBVIOUS
<1>5. q1 \in [Requests -> ReqRecs] /\ q1[r] = n /\ \A s \in Requests : s # r => q1[s] = q[s]
  BY <1>1, <1>4
<1>6. PICK l1 : l1 = RemoveFirst(ls, r)
  OBVIOUS
<1>7. l1 \in Seq(Requests) /\ Once(l1) /\ Range(l1) = Range(ls) \ {r}
  <2>1. Once(ls)
    BY DEF ListOk
  <2>. QED
    BY <1>6, <2>1, EntryOut
<1>8. CallsOk(fs, q1)
  <2>1. \A s \in Requests : q1[s].blocked = q[s].blocked /\ (Sync(s) /\ q[s].st = "active" => q1[s].st = "active")
    BY <1>3, <1>5
  <2>. QED
    BY <2>1, CallsLeft
<1>9. ListOk(l1, fs, q1)
  <2>1. \A s \in Range(l1) : s \in Range(ls) /\ q1[s] = q[s]
    BY <1>1, <1>5, <1>7
  <2>. QED
    BY <1>7, <2>1 DEF ListOk
<1>10. AllFine(q1)
  <2>1. ReqFine(r, q[r])
    BY <1>1 DEF AllFine
  <2>2. ModeOf[r] = "notify" => NotifyFine(n)
    BY <1>1, <1>3, <2>1 DEF ReqFine, NotifyFine, Sent
  <2>3. ReqFine(r, n)
    BY <1>1, <1>3, <2>1, <2>2 DEF ReqFine
  <2>. QED
    BY <1>5, <2>3 DEF AllFine
<1>11. SentKept(q, q1)
  BY <1>1, <1>3, <1>5 DEF SentKept, Sent
<1>12. q1 = [q EXCEPT ![r].status_msg = TRUE, ![r].from = from]
  BY <1>1, <1>2, <1>4
<1>13. CASE n.blocked
  <2>1. ubus_set_req_status(q, ls, fs, r, from) = [q |-> q1, ls |-> l1, fs |-> fs, cancel |-> FALSE]
    BY <1>5, <1>6, <1>12, <1>13 DEF ubus_set_req_status
  <2>. QED
    BY <1>5, <1>7, <1>8, <1>9, <1>10, <1>11, <2>1 DEF Ends
<1>14. CASE ~n.blocked
  <2>1. PICK after : after = ubus_req_complete_cb(q1, l1, fs, r)
    OBVIOUS
  <2>2. ubus_set_req_status(q, ls, fs, r, from) = after
    BY <1>5, <1>6, <1>12, <1>14, <2>1 DEF ubus_set_req_status
  <2>3. Ends(after, q1, fs)
    <3>1. q1[r].st = "active" /\ q1[r].status_msg /\ ~q1[r].blocked
      BY <1>3, <1>5, <1>14
    <3>2. l1 \in Seq(Requests) /\ r \in Requests /\ q1 \in [Requests -> ReqRecs]
      BY <1>1, <1>5, <1>7
    <3>. QED
      BY <1>8, <1>9, <1>10, <2>1, <3>1, <3>2, CompleteCalled
  <2>4. SentKept(q, after.q)
    BY <1>11, <2>3 DEF Ends, SentKept
  <2>. QED
    BY <2>2, <2>3, <2>4 DEF Ends
<1>. QED
  BY <1>13, <1>14

\* ubus_find_notify_id gives an index that is still waited for.
LEMMA NotifyFound ==
  ASSUME NEW n \in ReqRecs, NEW from, ubus_find_notify_id(n, from) <= Len(n.ids)
  PROVE  ubus_find_notify_id(n, from) \in n.npend
<1>1. PICK I : I = {i \in n.npend : IF i = 0 THEN from = Self ELSE n.ids[i] = from}
  OBVIOUS
<1>2. ubus_find_notify_id(n, from) = IF I = {} THEN Len(n.ids) + 1 ELSE CHOOSE i \in I : \A j \in I : i <= j
  BY <1>1 DEF ubus_find_notify_id
<1>3. n.npend \subseteq Nat /\ n.ids \in Seq(Subscribers)
  BY DEF ReqRecs
<1>4. Len(n.ids) \in Nat
  BY <1>3, LenProperties
<1>5. I # {}
  BY <1>2, <1>4
<1>6. \E i \in I : \A j \in I : i <= j
  <2>1. I \in SUBSET Nat
    BY <1>1, <1>3
  <2>. QED
    BY <1>5, <2>1, LeastFound
<1>7. (CHOOSE i \in I : \A j \in I : i <= j) \in I
  BY <1>6
<1>. QED
  BY <1>1, <1>2, <1>5, <1>7

\* A status that a notification waits for is counted: the daemon's is replaced by its
\* list of subscribers, a subscriber's is struck off.
LEMMA NotifyCounted ==
  ASSUME NEW n \in ReqRecs, NotifyFine(n), ~n.status_msg, NEW id \in n.npend, NEW subs \in Seq(Subscribers),
         NEW p, p = (n.npend \ {id}) \union (IF id = 0 THEN DOMAIN subs ELSE {}),
         NEW l, l = IF id = 0 THEN subs ELSE n.ids
  PROVE  /\ p \in SUBSET Nat /\ l \in Seq(Subscribers)
         /\ p \subseteq 0 .. Len(l) /\ n.heard + 1 + Cardinality(p) = 1 + Len(l)
         /\ 0 \notin p
<1>1. /\ n.npend \subseteq Nat /\ n.ids \in Seq(Subscribers) /\ n.heard \in Nat
      /\ n.npend \subseteq 0 .. Len(n.ids) /\ n.heard + Cardinality(n.npend) = 1 + Len(n.ids)
      /\ 0 \in n.npend => n.npend = {0} /\ n.ids = <<>>
  BY DEF ReqRecs, NotifyFine
<1>2. Len(subs) \in Nat /\ DOMAIN subs = 1 .. Len(subs) /\ Len(n.ids) \in Nat
  BY <1>1, LenProperties
<1>3. CASE id = 0
  <2>1. n.npend = {0} /\ n.ids = <<>>
    BY <1>1, <1>3
  <2>2. Cardinality({0}) = 1 /\ Len(<<>>) = 0
    BY FS_Singleton
  <2>3. n.heard = 0
    BY <1>1, <2>1, <2>2
  <2>4. p = 1 .. Len(subs) /\ l = subs
    BY <1>2, <1>3, <2>1
  <2>5. PICK k \in Nat : k = Len(subs)
    BY <1>2
  <2>6. Cardinality(1 .. k) = k
    <3>1. Cardinality(1 .. k) = IF 1 > k THEN 0 ELSE k - 1 + 1
      BY FS_Interval
    <3>. QED
      BY <3>1
  <2>7. p = 1 .. k /\ l = subs /\ Len(l) = k /\ Cardinality(p) = k
    BY <2>4, <2>5, <2>6
  <2>8. 1 .. k \subseteq 0 .. k /\ 1 .. k \subseteq Nat /\ 0 \notin 1 .. k /\ 0 + 1 + k = 1 + k
    OBVIOUS
  <2>9. p \subseteq 0 .. Len(l) /\ p \in SUBSET Nat /\ 0 \notin p
    BY <2>7, <2>8
  <2>10. n.heard + 1 + Cardinality(p) = 1 + Len(l)
    BY <2>3, <2>7, <2>8
  <2>. QED
    BY <2>7, <2>9, <2>10
<1>4. CASE id # 0
  <2>1. p = n.npend \ {id} /\ l = n.ids
    BY <1>4
  <2>2. 0 \notin n.npend
    BY <1>1, <1>4
  <2>3. IsFiniteSet(n.npend)
    <3>1. IsFiniteSet(0 .. Len(n.ids))
      <4>1. PICK k \in Nat : k = Len(n.ids)
        BY <1>2
      <4>2. IsFiniteSet(0 .. k)
        BY FS_Interval
      <4>. QED
        BY <4>1, <4>2
    <3>. QED
      BY <1>1, <3>1, FS_Subset
  <2>4. Cardinality(n.npend \ {id}) = Cardinality(n.npend) - 1 /\ Cardinality(n.npend) \in Nat
    BY <2>3, FS_RemoveElement, FS_CardinalityType
  <2>5. n.heard + 1 + Cardinality(p) = 1 + Len(l)
    <3>1. PICK c \in Nat : c = Cardinality(n.npend)
      BY <2>4
    <3>2. PICK k \in Nat : k = Len(n.ids)
      BY <1>2
    <3>3. PICK h \in Nat : h = n.heard
      BY <1>1
    <3>4. h + c = 1 + k
      BY <1>1, <3>1, <3>2, <3>3
    <3>5. h + 1 + (c - 1) = 1 + k
      BY <3>4
    <3>. QED
      BY <2>1, <2>4, <3>1, <3>2, <3>3, <3>5
  <2>. QED
    BY <1>1, <2>1, <2>2, <2>5
<1>. QED
  BY <1>3, <1>4

\* What is known when a message for request r is handled.
Handling(r, fs) ==
  /\ reqs \in [Requests -> ReqRecs] /\ ctxRequests \in Seq(Requests) /\ fs \in Seq(Frames)
  /\ CallsOk(fs, reqs) /\ ListOk(ctxRequests, fs, reqs) /\ AllFine(reqs) /\ r \in Range(ctxRequests)

\* The status of a notification.
LEMMA NotifyHeard ==
  ASSUME NEW r, NEW fs, Handling(r, fs), ModeOf[r] = "notify", NEW m \in Msgs, m.req = r, Matches(r, m)
  PROVE  Ends(ubus_process_notify_status(r, m, fs), reqs, fs)
<1>1. /\ reqs \in [Requests -> ReqRecs] /\ ctxRequests \in Seq(Requests) /\ fs \in Seq(Frames)
      /\ CallsOk(fs, reqs) /\ ListOk(ctxRequests, fs, reqs) /\ AllFine(reqs) /\ r \in Range(ctxRequests)
  BY DEF Handling
<1>2. r \in Requests /\ Range(ctxRequests) \subseteq Requests /\ reqs[r].st = "active" /\ ~reqs[r].status_msg
  BY <1>1, ListMembers DEF ListOk
<1>3. PICK n \in ReqRecs : n = reqs[r]
  BY <1>1, <1>2
<1>4. ReqFine(r, n) /\ NotifyFine(n) /\ ~n.status_msg /\ n.st = "active"
  BY <1>1, <1>2, <1>3 DEF AllFine, ReqFine, Sent
<1>5. PICK id \in n.npend : id = ubus_find_notify_id(n, m.peer)
  BY <1>3, NotifyFound DEF Matches
<1>6. PICK subs \in Seq(Subscribers) :
        subs = SubSeq(m.subs, 1, IF Len(m.subs) < MaxPeers THEN Len(m.subs) ELSE MaxPeers)
  <2>1. m.subs \in Seq(Subscribers)
    BY DEF Msgs
  <2>2. PICK ms \in Seq(Subscribers) : ms = m.subs
    BY <2>1
  <2>3. PICK k \in Nat : k = (IF Len(ms) < MaxPeers THEN Len(ms) ELSE MaxPeers) /\ k <= Len(ms)
    BY ReqAssumption, LenProperties
  <2>4. \A i \in 1 .. k : ms[i] \in Subscribers
    BY <2>3, ElementOfSeq, LenProperties
  <2>5. SubSeq(ms, 1, k) \in Seq(Subscribers)
    BY <2>3, <2>4, SubSeqProperties, LenProperties
  <2>. QED
    BY <2>2, <2>3, <2>5
<1>7. PICK p : p = (n.npend \ {id}) \union (IF id = 0 THEN DOMAIN subs ELSE {})
  OBVIOUS
<1>8. PICK l : l = IF id = 0 THEN subs ELSE n.ids
  OBVIOUS
<1>9. /\ p \in SUBSET Nat /\ l \in Seq(Subscribers)
      /\ p \subseteq 0 .. Len(l) /\ n.heard + 1 + Cardinality(p) = 1 + Len(l) /\ 0 \notin p
  <2>1. NotifyFine(n) /\ ~n.status_msg
    BY <1>4
  <2>. QED
    BY <1>7, <1>8, <2>1, NotifyCounted
<1>10. PICK h \in Nat : h = n.heard + 1
  BY DEF ReqRecs
<1>11. PICK n1 \in ReqRecs : n1 = [n EXCEPT !.npend = p, !.ids = l, !.heard = h]
  BY <1>9 DEF ReqRecs
<1>12. /\ n1.npend = p /\ n1.ids = l /\ n1.heard = h /\ n1.st = n.st /\ n1.completed = n.completed
       /\ n1.blocked = n.blocked /\ n1.pend = n.pend /\ n1.status_msg = n.status_msg /\ n1.from = n.from
       /\ n1.seq = n.seq
  BY <1>11 DEF ReqRecs
<1>13. PICK q1 : q1 = [reqs EXCEPT ![r] = n1]
  OBVIOUS
<1>14. q1 \in [Requests -> ReqRecs] /\ q1[r] = n1 /\ \A s \in Requests : s # r => q1[s] = reqs[s]
  BY <1>1, <1>2, <1>13
<1>15. q1 = [reqs EXCEPT ![r].npend = (@ \ {id}) \union (IF id = 0 THEN DOMAIN subs ELSE {}),
                         ![r].ids = IF id = 0 THEN subs ELSE @,
                         ![r].heard = @ + 1]
  BY <1>1, <1>2, <1>3, <1>7, <1>8, <1>10, <1>11, <1>13
<1>16. ubus_process_notify_status(r, m, fs) =
         IF q1[r].npend = {} THEN ubus_set_req_status(q1, ctxRequests, fs, r, m.req)
         ELSE [q |-> q1, ls |-> ctxRequests, fs |-> fs, cancel |-> FALSE]
  <2>1. ubus_find_notify_id(reqs[r], m.peer) = id
    BY <1>3, <1>5
  <2>. QED
    BY <1>6, <1>15, <2>1 DEF ubus_process_notify_status
<1>17. CallsOk(fs, q1)
  <2>1. \A s \in Requests : q1[s].blocked = reqs[s].blocked /\ (Sync(s) /\ reqs[s].st = "active" => q1[s].st = "active")
    BY <1>3, <1>12, <1>14
  <2>. QED
    BY <1>1, <2>1, CallsLeft
<1>18. ListOk(ctxRequests, fs, q1)
  <2>1. \A s \in Range(ctxRequests) : q1[s].st = reqs[s].st /\ q1[s].status_msg = reqs[s].status_msg
    BY <1>2, <1>3, <1>12, <1>14
  <2>. QED
    BY <1>1, <2>1 DEF ListOk
<1>19. AllFine(q1)
  <2>1. NotifyFine(n1)
    BY <1>4, <1>9, <1>10, <1>12 DEF NotifyFine
  <2>2. ReqFine(r, n1)
    BY <1>4, <1>12, <2>1 DEF ReqFine
  <2>. QED
    BY <1>1, <1>14, <2>2 DEF AllFine
<1>20. SentKept(reqs, q1)
  BY <1>3, <1>12, <1>14 DEF SentKept, Sent
<1>21. CASE p = {}
  <2>1. PICK after : after = ubus_set_req_status(q1, ctxRequests, fs, r, m.req)
    OBVIOUS
  <2>2. Ends(after, q1, fs)
    <3>1. ctxRequests \in Seq(Requests) /\ r \in Requests /\ fs \in Seq(Frames)
      BY <1>1, ListMembers
    <3>3. q1[r].st = "active"
      BY <1>1, <1>18 DEF ListOk
    <3>2. q1[r].npend = {} /\ m.req \in {"timeout", r}
      BY <1>12, <1>14, <1>21
    <3>. QED
      BY <1>14, <1>17, <1>18, <1>19, <2>1, <3>1, <3>2, <3>3, StatusSet
  <2>3. SentKept(reqs, after.q)
    BY <1>20, <2>2 DEF Ends, SentKept
  <2>4. ubus_process_notify_status(r, m, fs) = after
    BY <1>12, <1>14, <1>16, <1>21, <2>1
  <2>. QED
    BY <2>2, <2>3, <2>4 DEF Ends
<1>22. CASE p # {}
  <2>1. PICK after : after = ubus_process_notify_status(r, m, fs)
    OBVIOUS
  <2>2. after = [q |-> q1, ls |-> ctxRequests, fs |-> fs, cancel |-> FALSE]
    BY <1>12, <1>14, <1>16, <1>22, <2>1
  <2>3. after.q = q1 /\ after.ls = ctxRequests /\ after.fs = fs /\ after.cancel = FALSE
    BY <2>2
  <2>4. Ends(after, reqs, fs)
    BY <1>1, <1>14, <1>17, <1>18, <1>19, <1>20, <2>3 DEF Ends
  <2>. QED
    BY <2>1, <2>4
<1>. QED
  BY <1>21, <1>22

\* Data for a request.
LEMMA DataHandled ==
  ASSUME NEW r, NEW fs, Handling(r, fs)
  PROVE  Ends(ubus_process_req_data(r, fs), reqs, fs)
<1>1. /\ reqs \in [Requests -> ReqRecs] /\ ctxRequests \in Seq(Requests) /\ fs \in Seq(Frames)
      /\ CallsOk(fs, reqs) /\ ListOk(ctxRequests, fs, reqs) /\ AllFine(reqs) /\ r \in Range(ctxRequests)
  BY DEF Handling
<1>2. r \in Requests /\ Range(ctxRequests) \subseteq Requests /\ reqs[r].st = "active" /\ ~reqs[r].status_msg
  BY <1>1, ListMembers DEF ListOk
<1>3. PICK n \in ReqRecs : n = reqs[r]
  BY <1>1, <1>2
<1>4. ReqFine(r, n) /\ ~n.status_msg /\ n.st = "active"
  BY <1>1, <1>2, <1>3 DEF AllFine
<1>5. PICK after : after = ubus_process_req_data(r, fs)
  OBVIOUS
<1>6. CASE n.blocked
  <2>1. PICK c \in Nat : c = n.pend + 1
    BY DEF ReqRecs
  <2>2. PICK n1 \in ReqRecs : n1 = [n EXCEPT !.pend = c]
    BY DEF ReqRecs
  <2>3. /\ n1.npend = n.npend /\ n1.ids = n.ids /\ n1.heard = n.heard /\ n1.st = n.st /\ n1.completed = n.completed
        /\ n1.blocked = n.blocked /\ n1.status_msg = n.status_msg /\ n1.from = n.from /\ n1.seq = n.seq
    BY <2>2 DEF ReqRecs
  <2>4. PICK q1 : q1 = [reqs EXCEPT ![r] = n1]
    OBVIOUS
  <2>5. q1 \in [Requests -> ReqRecs] /\ q1[r] = n1 /\ \A s \in Requests : s # r => q1[s] = reqs[s]
    BY <1>1, <1>2, <2>4
  <2>6. after.q = q1 /\ after.ls = ctxRequests /\ after.fs = fs /\ after.cancel = FALSE
    <3>1. q1 = [reqs EXCEPT ![r].pend = @ + 1]
      BY <1>1, <1>2, <1>3, <2>1, <2>2, <2>4
    <3>. QED
      BY <1>3, <1>5, <1>6, <3>1 DEF ubus_process_req_data
  <2>7. CallsOk(fs, q1)
    <3>1. \A s \in Requests : q1[s].blocked = reqs[s].blocked /\ (Sync(s) /\ reqs[s].st = "active" => q1[s].st = "active")
      BY <1>3, <2>3, <2>5
    <3>. QED
      BY <1>1, <3>1, CallsLeft
  <2>8. ListOk(ctxRequests, fs, q1)
    <3>1. \A s \in Range(ctxRequests) : q1[s].st = reqs[s].st /\ q1[s].status_msg = reqs[s].status_msg
      BY <1>2, <1>3, <2>3, <2>5
    <3>. QED
      BY <1>1, <3>1 DEF ListOk
  <2>9. AllFine(q1)
    <3>1. ReqFine(r, n1)
      BY <1>4, <1>6, <2>3 DEF ReqFine, NotifyFine, Sent
    <3>. QED
      BY <1>1, <2>5, <3>1 DEF AllFine
  <2>10. SentKept(reqs, q1)
    BY <1>3, <2>3, <2>5 DEF SentKept, Sent
  <2>11. Ends(after, reqs, fs)
    BY <1>1, <2>5, <2>6, <2>7, <2>8, <2>9, <2>10 DEF Ends
  <2>. QED
    BY <1>5, <2>11
<1>7. CASE ~n.blocked
  <2>1. PICK f \in Frames : f = Frame("data", r, "msgbuf") /\ f.k = "data" /\ f.r = r
    BY <1>2, NewFrame
  <2>2. PICK n1 \in ReqRecs : n1 = [n EXCEPT !.blocked = TRUE]
    BY DEF ReqRecs
  <2>3. /\ n1.npend = n.npend /\ n1.ids = n.ids /\ n1.heard = n.heard /\ n1.st = n.st /\ n1.completed = n.completed
        /\ n1.blocked /\ n1.status_msg = n.status_msg /\ n1.from = n.from /\ n1.seq = n.seq
    BY <2>2 DEF ReqRecs
  <2>4. PICK q1 : q1 = [reqs EXCEPT ![r] = n1]
    OBVIOUS
  <2>5. q1 \in [Requests -> ReqRecs] /\ q1[r] = n1 /\ \A s \in Requests : s # r => q1[s] = reqs[s]
    BY <1>1, <1>2, <2>4
  <2>6. after.q = q1 /\ after.ls = ctxRequests /\ after.fs = <<f>> \o fs /\ after.cancel = FALSE
    <3>1. q1 = [reqs EXCEPT ![r].blocked = TRUE]
      BY <1>1, <1>2, <1>3, <2>2, <2>4
    <3>. QED
      BY <1>3, <1>5, <1>7, <2>1, <3>1 DEF ubus_process_req_data
  <2>7. CallsOk(<<f>> \o fs, q1) /\ \A s : Waited(<<f>> \o fs, s) <=> Waited(fs, s)
    <3>1. \A s \in Requests : q1[s].st = reqs[s].st /\ (reqs[s].blocked => q1[s].blocked)
      BY <1>3, <2>3, <2>5
    <3>2. \A i \in 1 .. Len(fs) : fs[i].k = "sync" => q1[fs[i].r].st = "active"
      BY <1>1, <3>1 DEF CallsOk
    <3>3. \A i \in 1 .. Len(fs) : fs[i].k = "data" => q1[fs[i].r].blocked
      BY <1>1, <3>1 DEF CallsOk
    <3>4. \A i \in 1 .. Len(fs) : fs[i].r = f.r => fs[i].k # "data"
      BY <1>1, <1>3, <1>7, <2>1 DEF CallsOk
    <3>5. \A s \in Requests : q1[s].blocked => reqs[s].blocked \/ (f.k = "data" /\ f.r = s)
      BY <2>1, <2>5
    <3>6. f.k = "data" /\ f.k # "sync" /\ f.r \in Requests /\ q1[f.r].blocked
      BY <1>2, <2>1, <2>3, <2>5
    <3>7. fs \in Seq(Frames) /\ CallsOk(fs, reqs)
      BY <1>1
    <3>. QED
      BY <3>2, <3>3, <3>4, <3>5, <3>6, <3>7, CallMade
  <2>8. ListOk(ctxRequests, <<f>> \o fs, q1)
    <3>1. \A s \in Range(ctxRequests) : q1[s].st = reqs[s].st /\ q1[s].status_msg = reqs[s].status_msg
      BY <1>2, <1>3, <2>3, <2>5
    <3>. QED
      BY <1>1, <2>7, <3>1 DEF ListOk
  <2>9. AllFine(q1)
    <3>1. ReqFine(r, n1)
      BY <1>4, <2>3 DEF ReqFine, NotifyFine, Sent
    <3>. QED
      BY <1>1, <2>5, <3>1 DEF AllFine
  <2>10. SentKept(reqs, q1)
    BY <1>3, <2>3, <2>5 DEF SentKept, Sent
  <2>11. <<f>> \o fs \in Seq(Frames)
    BY <1>1, FramePushed
  <2>12. Ends(after, reqs, fs)
    BY <1>1, <2>1, <2>5, <2>6, <2>7, <2>8, <2>9, <2>10, <2>11 DEF Ends
  <2>. QED
    BY <1>5, <2>12
<1>. QED
  BY <1>6, <1>7

\* No two requests were sent under the same number.
SeqsOk(q, last) ==
  /\ \A r \in Requests : Sent(q[r]) => q[r].seq \in 1 .. last
  /\ \A r, s \in Requests : Sent(q[r]) /\ Sent(q[s]) /\ q[r].seq = q[s].seq => r = s

\* An answer is to a request that was sent, under its number.
MsgFine(m, q) ==
  m.t # "INVOKE" => m.req \in Requests /\ Sent(q[m.req]) /\ m.seq = q[m.req].seq

MsgsOk(ms, owes, q) ==
  /\ \A i \in 1 .. Len(ms) : MsgFine(ms[i], q)
  /\ \A r \in Requests : owes[r] # <<>> => Sent(q[r])

\* Requests that stay sent keep their numbers and the messages to them.
LEMMA NumbersKept ==
  ASSUME NEW q, NEW q2, SentKept(q, q2), NEW last, NEW ms, NEW owes,
         SeqsOk(q, last), MsgsOk(ms, owes, q)
  PROVE  SeqsOk(q2, last) /\ MsgsOk(ms, owes, q2)
<1>1. \A r \in Requests : (Sent(q2[r]) <=> Sent(q[r])) /\ q2[r].seq = q[r].seq
  BY DEF SentKept
<1>2. SeqsOk(q2, last)
  BY <1>1 DEF SeqsOk
<1>3. MsgsOk(ms, owes, q2)
  BY <1>1 DEF MsgsOk, MsgFine
<1>. QED
  BY <1>2, <1>3

\* ubus_find_request gives a listed request with the message's number: the one the
\* message is an answer to.
LEMMA RequestFound ==
  ASSUME ReqTypes, NEW fs, ListOk(ctxRequests, fs, reqs), SeqsOk(reqs, requestSeq),
         NEW m \in Msgs, m.t # "INVOKE", MsgFine(m, reqs), ubus_find_request(m) # 0
  PROVE  /\ ctxRequests[ubus_find_request(m)] = m.req
         /\ m.req \in Range(ctxRequests) /\ Matches(m.req, m)
<1>1. /\ ctxRequests \in Seq(Requests) /\ Len(ctxRequests) \in Nat /\ DOMAIN ctxRequests = 1 .. Len(ctxRequests)
      /\ Range(ctxRequests) = {ctxRequests[i] : i \in 1 .. Len(ctxRequests)} /\ Range(ctxRequests) \subseteq Requests
  BY ListMembers DEF ReqTypes
<1>2. PICK I : I = {i \in 1 .. Len(ctxRequests) : Matches(ctxRequests[i], m)}
  OBVIOUS
<1>3. ubus_find_request(m) = IF I = {} THEN 0 ELSE Min(I)
  BY <1>1, <1>2, Zenon DEF ubus_find_request, SelectInSeq
<1>4. I # {} /\ ubus_find_request(m) = Min(I)
  BY <1>3
<1>5. Min(I) \in I
  <2>1. I \in SUBSET Nat
    BY <1>1, <1>2
  <2>. QED
    BY <1>4, <2>1, MinFound
<1>6. PICK i \in 1 .. Len(ctxRequests) : i = ubus_find_request(m) /\ Matches(ctxRequests[i], m)
  BY <1>2, <1>4, <1>5
<1>7. PICK r \in Requests : r = ctxRequests[i] /\ r \in Range(ctxRequests)
  BY <1>1
<1>8. reqs[r].st = "active" /\ reqs[r].seq = m.seq
  BY <1>6, <1>7 DEF ListOk, Matches
<1>9. m.req \in Requests /\ Sent(reqs[m.req]) /\ m.seq = reqs[m.req].seq
  BY DEF MsgFine
<1>10. r = m.req
  <2>1. Sent(reqs[r])
    BY <1>8 DEF Sent
  <2>. QED
    BY <1>8, <1>9, <2>1 DEF SeqsOk
<1>. QED
  BY <1>6, <1>7, <1>10

\* ubus_process_req_msg: the message's own request, if any, gets it.
LEMMA MessageHandled ==
  ASSUME ReqTypes, NEW fs \in Seq(Frames), CallsOk(fs, reqs), ListOk(ctxRequests, fs, reqs), AllFine(reqs),
         SeqsOk(reqs, requestSeq), NEW m \in Msgs, m.t # "INVOKE", MsgFine(m, reqs)
  PROVE  Ends(ubus_process_req_msg(m, fs), reqs, fs)
<1>1. m.t = "DATA" \/ m.t = "STATUS"
  BY DEF Msgs
<1>2. CASE ubus_find_request(m) = 0
  <2>1. PICK after : after = ubus_process_req_msg(m, fs)
    OBVIOUS
  <2>2. after = Unmatched(fs)
    BY <1>2, <2>1 DEF ubus_process_req_msg
  <2>3. after.q = reqs /\ after.ls = ctxRequests /\ after.fs = fs /\ after.cancel = FALSE
    BY <2>2 DEF Unmatched
  <2>4. SentKept(reqs, reqs)
    BY DEF SentKept
  <2>5. Ends(after, reqs, fs)
    BY <2>3, <2>4 DEF Ends, ReqTypes
  <2>. QED
    BY <2>1, <2>5
<1>3. CASE ubus_find_request(m) # 0
  <2>1. PICK r : r = m.req
    OBVIOUS
  <2>2. ctxRequests[ubus_find_request(m)] = r /\ r \in Range(ctxRequests) /\ Matches(r, m)
    BY <1>3, <2>1, RequestFound
  <2>3. Handling(r, fs)
    BY <2>2 DEF Handling, ReqTypes
  <2>4. CASE m.t = "DATA"
    <3>1. ubus_process_req_msg(m, fs) = ubus_process_req_data(r, fs)
      BY <1>3, <2>2, <2>4 DEF ubus_process_req_msg
    <3>. QED
      BY <2>3, <3>1, DataHandled
  <2>5. CASE m.t = "STATUS" /\ ModeOf[r] = "notify"
    <3>1. ubus_process_req_msg(m, fs) = ubus_process_notify_status(r, m, fs)
      BY <1>3, <2>2, <2>5 DEF ubus_process_req_msg
    <3>. QED
      BY <2>1, <2>2, <2>3, <2>5, <3>1, NotifyHeard
  <2>6. CASE m.t = "STATUS" /\ ModeOf[r] # "notify"
    <3>1. ubus_process_req_msg(m, fs) = ubus_set_req_status(reqs, ctxRequests, fs, r, r)
      BY <1>3, <2>1, <2>2, <2>6 DEF ubus_process_req_msg
    <3>2. reqs \in [Requests -> ReqRecs] /\ ctxRequests \in Seq(Requests) /\ r \in {"timeout", r}
      BY DEF ReqTypes
    <3>3. r \in Requests /\ reqs[r].st = "active"
      BY <2>2, <3>2, ListMembers DEF ListOk
    <3>. QED
      BY <2>2, <2>6, <3>1, <3>2, <3>3, StatusSet
  <2>. QED
    BY <1>1, <2>4, <2>5, <2>6
<1>. QED
  BY <1>2, <1>3

-----------------------------------------------------------------------------
(* The invariant. *)

\* Queued messages are being served.
Serving(fs) == \E i \in 1 .. Len(fs) : fs[i].k = "ctxPending"

\* The handlers' part: a context with a request in progress is registered, and what was
\* queued will be served, by the timer or by the loop over ctx->pending.
HandlersOk ==
  /\ StackOk(frames)
  /\ ~NoSync(frames) => registered
  /\ ctxPending # <<>> => pendingTimer \/ Serving(frames)

\* The requests' part.
RequestsOk ==
  /\ CallsOk(frames, reqs) /\ ListOk(ctxRequests, frames, reqs) /\ AllFine(reqs)
  /\ SeqsOk(reqs, requestSeq) /\ requestSeq <= MaxStarts
  /\ MsgsOk(rx, peer.owes, reqs)

ReqInv == CtxTypes /\ ReqTypes /\ HandlersOk /\ RequestsOk

\* The calls a step leaves alone.
LEMMA ServingPushed ==
  ASSUME NEW fs \in Seq(Frames), NEW f \in Frames
  PROVE  /\ Serving(<<f>> \o fs) <=> Serving(fs) \/ f.k = "ctxPending"
         /\ NoSync(<<f>> \o fs) <=> NoSync(fs) /\ f.k # "sync"
         /\ <<f>> \o fs \in Seq(Frames) /\ <<f>> \o fs # <<>>
<1>1. PICK g : g = <<f>> \o fs
  OBVIOUS
<1>2. /\ g \in Seq(Frames) /\ Len(g) = Len(fs) + 1 /\ g[1] = f
      /\ \A i \in 1 .. Len(fs) : g[i + 1] = fs[i]
      /\ \A i \in 1 .. Len(fs) + 1 : i = 1 \/ i - 1 \in 1 .. Len(fs)
  BY <1>1, FramePushed
<1>3. Len(fs) \in Nat
  BY LenProperties
<1>4. \A i \in 1 .. Len(g) : g[i] = f \/ \E m \in 1 .. Len(fs) : g[i] = fs[m]
  <2>. SUFFICES ASSUME NEW i \in 1 .. Len(g), i # 1
                PROVE  \E m \in 1 .. Len(fs) : g[i] = fs[m]
    BY <1>2
  <2>1. PICK m \in 1 .. Len(fs) : m = i - 1
    BY <1>2
  <2>2. i = m + 1
    BY <2>1
  <2>. QED
    BY <1>2, <2>2
<1>5. \A m \in 1 .. Len(fs) : \E i \in 1 .. Len(g) : g[i] = fs[m]
  <2>. TAKE m \in 1 .. Len(fs)
  <2>1. PICK i \in 1 .. Len(g) : i = m + 1
    BY <1>2, <1>3
  <2>. QED
    BY <1>2, <2>1
<1>6. 1 \in 1 .. Len(g) /\ g # <<>>
  <2>1. Len(g) > 0 /\ 1 \in 1 .. Len(g)
    BY <1>2, <1>3
  <2>. QED
    BY <1>2, <2>1, EmptySeq
<1>7. Serving(g) <=> Serving(fs) \/ f.k = "ctxPending"
  BY <1>2, <1>4, <1>5, <1>6 DEF Serving
<1>8. NoSync(g) <=> NoSync(fs) /\ f.k # "sync"
  BY <1>2, <1>4, <1>5, <1>6 DEF NoSync
<1>. QED
  BY <1>1, <1>2, <1>6, <1>7, <1>8

\* The same for a frame taken off.
LEMMA ServingPopped ==
  ASSUME NEW fs \in Seq(Frames), fs # <<>>
  PROVE  /\ Serving(fs) => Serving(Tail(fs)) \/ Head(fs).k = "ctxPending"
         /\ NoSync(fs) => NoSync(Tail(fs))
<1>1. PICK g : g = Tail(fs)
  OBVIOUS
<1>2. /\ Head(fs) = fs[1] /\ Len(fs) \in Nat
      /\ \A i \in 1 .. Len(g) : g[i] = fs[i + 1] /\ i + 1 \in 1 .. Len(fs)
      /\ \A i \in 1 .. Len(fs) : i = 1 \/ i - 1 \in 1 .. Len(g)
  BY <1>1, TopTaken
<1>3. \A m \in 1 .. Len(fs) : fs[m] = Head(fs) \/ \E i \in 1 .. Len(g) : g[i] = fs[m]
  <2>. SUFFICES ASSUME NEW m \in 1 .. Len(fs), m # 1 PROVE \E i \in 1 .. Len(g) : g[i] = fs[m]
    BY <1>2
  <2>1. PICK i \in 1 .. Len(g) : i = m - 1
    BY <1>2
  <2>2. m = i + 1
    BY <2>1
  <2>. QED
    BY <1>2, <2>2
<1>4. Serving(fs) => Serving(g) \/ Head(fs).k = "ctxPending"
  BY <1>3 DEF Serving
<1>5. NoSync(fs) => NoSync(g)
  BY <1>2 DEF NoSync
<1>. QED
  BY <1>1, <1>4, <1>5

\* The same for a stack a message was read on.
LEMMA ServingAlike ==
  ASSUME NEW a, NEW b, Alike(a, b)
  PROVE  (Serving(a) <=> Serving(b)) /\ (NoSync(a) <=> NoSync(b))
  BY DEF Alike, Serving, NoSync

\* A step that leaves the requests and the messages, and every waiting call on the stack.
LEMMA RequestsLeft ==
  ASSUME ReqTypes, RequestsOk, UNCHANGED <<reqs, ctxRequests, requestSeq, peer>>,
         MsgsOk(rx', peer.owes, reqs), CallsOk(frames', reqs),
         \A r : Waited(frames, r) => Waited(frames', r)
  PROVE  ReqTypes' /\ RequestsOk'
<1>1. reqs' = reqs /\ ctxRequests' = ctxRequests /\ requestSeq' = requestSeq /\ peer' = peer
  OBVIOUS
<1>2. ReqTypes'
  BY <1>1 DEF ReqTypes
<1>3. ListOk(ctxRequests, frames, reqs) /\ AllFine(reqs) /\ SeqsOk(reqs, requestSeq) /\ requestSeq <= MaxStarts
  BY DEF RequestsOk
<1>4. PICK fs : fs = frames'
  OBVIOUS
<1>5. ListOk(ctxRequests, fs, reqs)
  BY <1>3, <1>4 DEF ListOk
<1>6. AllFine(reqs') /\ SeqsOk(reqs', requestSeq') /\ requestSeq' <= MaxStarts /\ CallsOk(frames', reqs')
      /\ ListOk(ctxRequests', frames', reqs') /\ MsgsOk(rx', peer'.owes, reqs')
  BY <1>1, <1>3, <1>4, <1>5
<1>. QED
  BY <1>2, <1>6 DEF RequestsOk

\* The request could not be sent.
LEMMA FailedStartKeeps ==
  ASSUME ReqInv, NEW r \in Requests, reqs[r].st = "idle", requestSeq < MaxStarts, StartFails(r)
  PROVE  ReqInv'
<1>1. CtxTypes /\ ReqTypes /\ HandlersOk /\ RequestsOk
  BY DEF ReqInv
<1>2. /\ reqs \in [Requests -> ReqRecs] /\ requestSeq \in Nat /\ MaxStarts \in Nat /\ SeqRange \in Nat
      /\ MaxStarts < SeqRange
  BY <1>1, ReqAssumption DEF ReqTypes
<1>3. requestSeq' = requestSeq + 1
  <2>1. requestSeq + 1 \in 0 .. SeqRange - 1
    BY <1>2
  <2>2. (requestSeq + 1) % SeqRange = requestSeq + 1
    BY <1>2, <2>1
  <2>. QED
    BY <2>2 DEF StartFails
<1>4. PICK n \in ReqRecs : n = [reqs[r] EXCEPT !.st = "failed"]
  BY <1>2 DEF ReqRecs
<1>5. /\ n.npend = reqs[r].npend /\ n.ids = reqs[r].ids /\ n.heard = reqs[r].heard /\ n.st = "failed"
      /\ n.completed = reqs[r].completed /\ n.blocked = reqs[r].blocked /\ n.pend = reqs[r].pend
      /\ n.status_msg = reqs[r].status_msg /\ n.from = reqs[r].from /\ n.seq = reqs[r].seq
  BY <1>2, <1>4 DEF ReqRecs
<1>6. PICK q : q = [reqs EXCEPT ![r] = n]
  OBVIOUS
<1>7. q \in [Requests -> ReqRecs] /\ q[r] = n /\ \A s \in Requests : s # r => q[s] = reqs[s]
  BY <1>2, <1>6
<1>8. reqs' = q /\ UNCHANGED <<ctxRequests, ctxPending, frames, registered, pendingTimer, uloopCancelled, rx, peer>>
      /\ sockEof' = TRUE
  BY <1>2, <1>4, <1>6 DEF StartFails
<1>9. /\ CallsOk(frames, reqs) /\ ListOk(ctxRequests, frames, reqs) /\ AllFine(reqs)
      /\ SeqsOk(reqs, requestSeq) /\ MsgsOk(rx, peer.owes, reqs)
  BY <1>1 DEF RequestsOk
<1>10. CallsOk(frames, q)
  <2>1. \A s \in Requests : q[s].blocked = reqs[s].blocked /\ (Sync(s) /\ reqs[s].st = "active" => q[s].st = "active")
    BY <1>5, <1>7
  <2>. QED
    BY <1>9, <2>1, CallsLeft
<1>11. ListOk(ctxRequests, frames, q)
  <2>1. r \notin Range(ctxRequests) /\ Range(ctxRequests) \subseteq Requests
    BY <1>1, <1>9, ListMembers DEF ListOk, ReqTypes
  <2>2. \A s \in Range(ctxRequests) : q[s] = reqs[s]
    BY <1>7, <2>1
  <2>. QED
    BY <1>9, <2>2 DEF ListOk
<1>12. AllFine(q)
  <2>1. ReqFine(r, reqs[r])
    BY <1>9 DEF AllFine
  <2>2. ReqFine(r, n)
    BY <1>5, <2>1 DEF ReqFine, Sent
  <2>. QED
    BY <1>7, <1>9, <2>2 DEF AllFine
<1>13. SeqsOk(q, requestSeq) /\ MsgsOk(rx, peer.owes, q)
  <2>1. SentKept(reqs, q)
    BY <1>5, <1>7 DEF SentKept, Sent
  <2>. QED
    BY <1>9, <2>1, NumbersKept
<1>14. SeqsOk(q, requestSeq + 1)
  <2>1. 1 .. requestSeq \subseteq 1 .. requestSeq + 1
    BY <1>2
  <2>. QED
    BY <1>13, <2>1 DEF SeqsOk
<1>15. requestSeq' <= MaxStarts /\ requestSeq' \in Nat
  BY <1>2, <1>3
<1>16. RequestsOk'
  <2>1. /\ CallsOk(frames', reqs') /\ ListOk(ctxRequests', frames', reqs') /\ AllFine(reqs')
        /\ SeqsOk(reqs', requestSeq') /\ requestSeq' <= MaxStarts /\ MsgsOk(rx', peer'.owes, reqs')
    BY <1>3, <1>8, <1>10, <1>11, <1>12, <1>13, <1>14, <1>15
  <2>. QED
    BY <2>1 DEF RequestsOk
<1>17. ReqTypes'
  BY <1>1, <1>7, <1>8, <1>15 DEF ReqTypes
<1>18. CtxTypes' /\ HandlersOk'
  BY <1>1, <1>8 DEF CtxTypes, HandlersOk
<1>. QED
  BY <1>16, <1>17, <1>18 DEF ReqInv

\* The request was sent: it is listed first, under a number of its own.
LEMMA SentStart ==
  ASSUME CtxTypes, ReqTypes, RequestsOk, NEW r \in Requests, reqs[r].st = "idle", requestSeq < MaxStarts, StartSent(r)
  PROVE  /\ ReqTypes' /\ peer' \in PeerStates
         /\ \A s \in Requests : /\ reqs'[s].blocked = reqs[s].blocked
                                /\ reqs[s].st = "active" => reqs'[s].st = "active"
         /\ reqs'[r].st = "active" /\ ~reqs[r].blocked
         /\ AllFine(reqs') /\ SeqsOk(reqs', requestSeq') /\ requestSeq' <= MaxStarts
         /\ MsgsOk(rx, peer'.owes, reqs') /\ Once(ctxRequests')
         /\ \A s \in Range(ctxRequests') :
              reqs'[s].st = "active" /\ ~reqs'[s].status_msg /\ (s = r \/ s \in Range(ctxRequests))
<1>1. /\ reqs \in [Requests -> ReqRecs] /\ requestSeq \in Nat /\ MaxStarts \in Nat /\ SeqRange \in Nat
      /\ MaxStarts < SeqRange /\ ctxRequests \in Seq(Requests)
  BY ReqAssumption DEF ReqTypes
<1>2. (requestSeq + 1) % SeqRange = requestSeq + 1
  <2>1. requestSeq + 1 \in 0 .. SeqRange - 1
    BY <1>1
  <2>. QED
    BY <1>1, <2>1
<1>3. /\ requestSeq' = requestSeq + 1 /\ reqs' = [reqs EXCEPT ![r] = Started(r)]
      /\ ctxRequests' = <<r>> \o ctxRequests
      /\ peer' = [peer EXCEPT !.owes[r] = IF ModeOf[r] = "notify" THEN <<Self>> ELSE <<"obj">>]
  BY <1>2 DEF StartSent
<1>4. PICK c \in Nat : c = requestSeq + 1
  BY <1>1
<1>5. PICK p \in SUBSET Nat : p = IF ModeOf[r] = "notify" THEN {0} ELSE {}
  <2>1. {0} \in SUBSET Nat /\ {} \in SUBSET Nat
    OBVIOUS
  <2>2. (IF ModeOf[r] = "notify" THEN {0} ELSE {}) \in SUBSET Nat
    BY <2>1
  <2>. QED
    BY <2>2, Zenon
<1>6. PICK n \in ReqRecs : n = [reqs[r] EXCEPT !.st = "active", !.seq = c, !.npend = p]
  BY <1>1, ZenonT(30) DEF ReqRecs
<1>7. n = Started(r)
  BY <1>2, <1>4, <1>5, <1>6 DEF Started
<1>8. /\ n.npend = p /\ n.ids = reqs[r].ids /\ n.heard = reqs[r].heard /\ n.st = "active" /\ n.seq = c
      /\ n.completed = reqs[r].completed /\ n.blocked = reqs[r].blocked /\ n.pend = reqs[r].pend
      /\ n.status_msg = reqs[r].status_msg /\ n.from = reqs[r].from
  BY <1>1, <1>6 DEF ReqRecs
<1>9. PICK q : q = reqs'
  OBVIOUS
<1>10. q \in [Requests -> ReqRecs] /\ q[r] = n /\ \A s \in Requests : s # r => q[s] = reqs[s]
  BY <1>1, <1>3, <1>7, <1>9
<1>11. /\ ListOk(ctxRequests, frames, reqs) /\ AllFine(reqs)
       /\ SeqsOk(reqs, requestSeq) /\ MsgsOk(rx, peer.owes, reqs)
  BY DEF RequestsOk
<1>12. ReqFine(r, reqs[r])
  BY <1>11 DEF AllFine
<1>13. ~n.blocked /\ ~n.status_msg /\ n.ids = <<>> /\ n.heard = 0
  BY <1>8, <1>12 DEF ReqFine
<1>14. ModeOf[r] = "notify" => NotifyFine(n)
  <2>1. Cardinality({0}) = 1 /\ Len(<<>>) = 0
    BY FS_Singleton
  <2>2. ASSUME ModeOf[r] = "notify" PROVE n.npend = {0}
    BY <1>5, <1>8, <2>2
  <2>3. {0} \subseteq 0 .. 0 /\ 0 + 1 = 1 + 0
    OBVIOUS
  <2>4. ASSUME ModeOf[r] = "notify"
        PROVE  n.npend \subseteq 0 .. Len(n.ids) /\ n.heard + Cardinality(n.npend) = 1 + Len(n.ids)
    BY <1>13, <2>1, <2>2, <2>3, <2>4
  <2>. QED
    BY <1>13, <2>2, <2>4 DEF NotifyFine
<1>15. AllFine(q)
  <2>1. ReqFine(r, n)
    BY <1>8, <1>12, <1>13, <1>14 DEF ReqFine
  <2>. QED
    BY <1>10, <1>11, <2>1 DEF AllFine
<1>16. SeqsOk(q, c)
  <2>1. 1 .. requestSeq \subseteq 1 .. c /\ c \in 1 .. c /\ c \notin 1 .. requestSeq
    BY <1>1, <1>4
  <2>2. \A s \in Requests : Sent(q[s]) => s = r \/ (Sent(reqs[s]) /\ q[s] = reqs[s])
    BY <1>10
  <2>3. \A s \in Requests : Sent(q[s]) => q[s].seq \in 1 .. c
    BY <1>8, <1>10, <1>11, <2>1, <2>2 DEF SeqsOk
  <2>4. \A s \in Requests : s # r /\ Sent(q[s]) => q[s].seq # c
    BY <1>11, <2>1, <2>2 DEF SeqsOk
  <2>5. \A s, t \in Requests : Sent(q[s]) /\ Sent(q[t]) /\ q[s].seq = q[t].seq => s = t
    <3>. TAKE s \in Requests, t \in Requests
    <3>1. CASE s = r \/ t = r
      BY <1>8, <1>10, <2>4, <3>1
    <3>2. CASE s # r /\ t # r
      BY <1>11, <2>2, <3>2 DEF SeqsOk
    <3>. QED
      BY <3>1, <3>2
  <2>. QED
    BY <2>3, <2>5 DEF SeqsOk
<1>17. peer' \in PeerStates /\ \A s \in Requests : s # r => peer'.owes[s] = peer.owes[s]
  <2>1. peer \in PeerStates
    BY DEF CtxTypes
  <2>2. PICK o \in Seq(Peers) : o = IF ModeOf[r] = "notify" THEN <<Self>> ELSE <<"obj">>
    <3>1. Self \in Peers /\ "obj" \in Peers
      BY DEF Peers
    <3>2. <<Self>> \in Seq(Peers) /\ <<"obj">> \in Seq(Peers)
      BY <3>1
    <3>. QED
      BY <3>2, Zenon
  <2>3. PICK w \in [Requests -> Seq(Peers)] : w = [peer.owes EXCEPT ![r] = o]
    BY <2>1 DEF PeerStates
  <2>4. peer' = [peer EXCEPT !.owes = w]
    BY <1>3, <2>1, <2>2, <2>3 DEF PeerStates
  <2>. QED
    BY <2>1, <2>3, <2>4 DEF PeerStates
<1>18. MsgsOk(rx, peer'.owes, q)
  <2>1. \A s \in Requests : Sent(reqs[s]) => Sent(q[s]) /\ q[s].seq = reqs[s].seq
    <3>1. ~Sent(reqs[r])
      BY DEF Sent
    <3>. QED
      BY <1>10, <3>1
  <2>2. \A i \in 1 .. Len(rx) : MsgFine(rx[i], q)
    BY <1>11, <2>1 DEF MsgsOk, MsgFine
  <2>3. Sent(q[r])
    BY <1>8, <1>10 DEF Sent
  <2>4. \A s \in Requests : peer'.owes[s] # <<>> => Sent(q[s])
    BY <1>11, <1>17, <2>1, <2>3 DEF MsgsOk
  <2>. QED
    BY <2>2, <2>4 DEF MsgsOk
<1>19. r \notin Range(ctxRequests) /\ Range(ctxRequests) \subseteq Requests
  BY <1>1, <1>11, ListMembers DEF ListOk
<1>20. PICK l : l = ctxRequests'
  OBVIOUS
<1>21. l \in Seq(Requests) /\ Range(l) = Range(ctxRequests) \union {r} /\ Once(l)
  <2>1. l \in {<<r>> \o ctxRequests, Append(ctxRequests, r)}
    BY <1>3, <1>20
  <2>2. Once(ctxRequests)
    BY <1>11 DEF ListOk
  <2>. QED
    BY <1>1, <1>19, <2>1, <2>2, EntryPut
<1>22. \A s \in Range(l) : q[s].st = "active" /\ ~q[s].status_msg /\ (s = r \/ s \in Range(ctxRequests))
  <2>. TAKE s \in Range(l)
  <2>1. CASE s = r
    BY <1>8, <1>10, <1>13, <2>1
  <2>2. CASE s # r
    BY <1>10, <1>11, <1>19, <1>21, <2>2 DEF ListOk
  <2>. QED
    BY <2>1, <2>2
<1>23. requestSeq' = c /\ c <= MaxStarts
  BY <1>1, <1>3, <1>4
<1>24. ReqTypes'
  BY <1>9, <1>10, <1>20, <1>21, <1>23 DEF ReqTypes
<1>25. \A s \in Requests : q[s].blocked = reqs[s].blocked /\ (reqs[s].st = "active" => q[s].st = "active")
  BY <1>8, <1>10
<1>. QED
  BY <1>8, <1>9, <1>10, <1>13, <1>15, <1>16, <1>17, <1>18, <1>20, <1>21, <1>22, <1>23, <1>24, <1>25

\* ubus_invoke.
LEMMA InvokeKeeps ==
  ASSUME ReqInv, NEW r \in Requests, ubus_invoke(r)
  PROVE  ReqInv'
<1>1. CtxTypes /\ ReqTypes /\ HandlersOk /\ RequestsOk
  BY DEF ReqInv
<1>2. requestSeq < MaxStarts /\ reqs[r].st = "idle" /\ Sync(r)
  BY DEF ubus_invoke
<1>3. CASE StartFails(r)
  BY <1>2, <1>3, FailedStartKeeps
<1>4. CASE ~StartFails(r)
  <2>1. /\ StartSent(r) /\ registered' = TRUE
        /\ frames' = <<[Frame("sync", r, "none") EXCEPT !.reg = registered]>> \o frames
        /\ UNCHANGED <<ctxPending, pendingTimer, uloopCancelled, sockEof, rx>>
    BY <1>4 DEF ubus_invoke
  <2>2. /\ frames \in Seq(Frames) /\ frames # <<>> /\ registered \in BOOLEAN
        /\ StackOk(frames) /\ (~NoSync(frames) => registered)
        /\ CallsOk(frames, reqs) /\ ListOk(ctxRequests, frames, reqs)
    BY <1>1 DEF CtxTypes, HandlersOk, RequestsOk
  <2>3. PICK f \in Frames : f = [Frame("sync", r, "none") EXCEPT !.reg = registered]
                            /\ f.k = "sync" /\ f.r = r /\ f.reg = registered
    <3>1. PICK g \in Frames : g = Frame("sync", r, "none") /\ g.k = "sync" /\ g.r = r
      BY NewFrame
    <3>2. [g EXCEPT !.reg = registered] \in Frames
      BY <2>2 DEF Frames
    <3>3. [g EXCEPT !.reg = registered].k = "sync" /\ [g EXCEPT !.reg = registered].r = r
          /\ [g EXCEPT !.reg = registered].reg = registered
      BY <3>1 DEF Frames
    <3>. QED
      BY <3>1, <3>2, <3>3
  <2>4. PICK fs : fs = <<f>> \o frames
    OBVIOUS
  <2>5. frames' = fs
    BY <2>1, <2>3, <2>4
  <2>6. /\ ReqTypes' /\ peer' \in PeerStates
        /\ \A s \in Requests : /\ reqs'[s].blocked = reqs[s].blocked
                               /\ reqs[s].st = "active" => reqs'[s].st = "active"
        /\ reqs'[r].st = "active" /\ ~reqs[r].blocked
        /\ AllFine(reqs') /\ SeqsOk(reqs', requestSeq') /\ requestSeq' <= MaxStarts
        /\ MsgsOk(rx, peer'.owes, reqs') /\ Once(ctxRequests')
        /\ \A s \in Range(ctxRequests') :
             reqs'[s].st = "active" /\ ~reqs'[s].status_msg /\ (s = r \/ s \in Range(ctxRequests))
    BY <1>1, <1>2, <2>1, SentStart
  <2>7. PICK q : q = reqs'
    OBVIOUS
  <2>8. CallsOk(fs, q) /\ \A s : Waited(fs, s) <=> Waited(frames, s) \/ (f.k = "sync" /\ f.r = s)
    <3>1. \A i \in 1 .. Len(frames) : frames[i].k = "sync" => q[frames[i].r].st = "active"
      BY <2>2, <2>6, <2>7 DEF CallsOk
    <3>2. \A i \in 1 .. Len(frames) : frames[i].k = "data" => q[frames[i].r].blocked
      BY <2>2, <2>6, <2>7 DEF CallsOk
    <3>3. \A i \in 1 .. Len(frames) : frames[i].r = f.r => frames[i].k \notin {"sync", "data"}
      BY <1>2, <2>2, <2>3, <2>6 DEF CallsOk
    <3>4. f.k # "data" /\ f.r \in Requests /\ Sync(f.r) /\ q[f.r].st = "active"
      BY <1>2, <2>3, <2>6, <2>7
    <3>5. \A s \in Requests : q[s].blocked => reqs[s].blocked
      BY <2>6, <2>7
    <3>6. frames \in Seq(Frames) /\ CallsOk(frames, reqs)
      BY <2>2
    <3>. QED
      BY <2>4, <3>1, <3>2, <3>3, <3>4, <3>5, <3>6, CallMade
  <2>9. ListOk(ctxRequests', fs, q)
    BY <2>2, <2>3, <2>6, <2>7, <2>8 DEF ListOk
  <2>10. RequestsOk'
    BY <2>1, <2>5, <2>6, <2>7, <2>8, <2>9 DEF RequestsOk
  <2>11. StackOk(fs)
    <3>1. f.k = "sync" /\ f.k # "main" /\ f.k \notin {"obj", "ctxPending"} /\ f.k # "obj"
      BY <2>3
    <3>2. f.reg \/ NoSync(frames)
      BY <2>2, <2>3
    <3>. QED
      BY <2>2, <2>4, <3>1, <3>2, StackPushed
  <2>12. fs \in Seq(Frames) /\ fs # <<>> /\ (Serving(fs) <=> Serving(frames))
    BY <2>2, <2>3, <2>4, ServingPushed
  <2>13. HandlersOk'
    BY <1>1, <2>1, <2>5, <2>11, <2>12 DEF HandlersOk
  <2>14. CtxTypes'
    BY <1>1, <2>1, <2>5, <2>6, <2>12 DEF CtxTypes
  <2>. QED
    BY <2>6, <2>10, <2>13, <2>14 DEF ReqInv
<1>. QED
  BY <1>3, <1>4

\* ubus_invoke_async and ubus_notify_async.
LEMMA AsyncKeeps ==
  ASSUME ReqInv, NEW r \in Requests, ubus_invoke_async(r)
  PROVE  ReqInv'
<1>1. CtxTypes /\ ReqTypes /\ HandlersOk /\ RequestsOk
  BY DEF ReqInv
<1>2. requestSeq < MaxStarts /\ reqs[r].st = "idle" /\ ~Sync(r)
  BY DEF ubus_invoke_async
<1>3. CASE StartFails(r)
  BY <1>2, <1>3, FailedStartKeeps
<1>4. CASE ~StartFails(r)
  <2>1. /\ StartSent(r)
        /\ UNCHANGED <<ctxPending, frames, registered, pendingTimer, uloopCancelled, sockEof, rx>>
    BY <1>4 DEF ubus_invoke_async
  <2>2. CallsOk(frames, reqs) /\ ListOk(ctxRequests, frames, reqs)
    BY <1>1 DEF RequestsOk
  <2>3. /\ ReqTypes' /\ peer' \in PeerStates
        /\ \A s \in Requests : /\ reqs'[s].blocked = reqs[s].blocked
                               /\ reqs[s].st = "active" => reqs'[s].st = "active"
        /\ AllFine(reqs') /\ SeqsOk(reqs', requestSeq') /\ requestSeq' <= MaxStarts
        /\ MsgsOk(rx, peer'.owes, reqs') /\ Once(ctxRequests')
        /\ \A s \in Range(ctxRequests') :
             reqs'[s].st = "active" /\ ~reqs'[s].status_msg /\ (s = r \/ s \in Range(ctxRequests))
    BY <1>1, <1>2, <2>1, SentStart
  <2>4. PICK q : q = reqs'
    OBVIOUS
  <2>5. CallsOk(frames, q)
    <3>1. \A s \in Requests : q[s].blocked = reqs[s].blocked /\ (Sync(s) /\ reqs[s].st = "active" => q[s].st = "active")
      BY <2>3, <2>4
    <3>. QED
      BY <2>2, <3>1, CallsLeft
  <2>6. ListOk(ctxRequests', frames, q)
    BY <1>2, <2>2, <2>3, <2>4 DEF ListOk
  <2>7. RequestsOk'
    BY <2>1, <2>3, <2>4, <2>5, <2>6 DEF RequestsOk
  <2>8. HandlersOk' /\ CtxTypes'
    BY <1>1, <2>1, <2>3 DEF HandlersOk, CtxTypes
  <2>. QED
    BY <2>3, <2>7, <2>8 DEF ReqInv
<1>. QED
  BY <1>3, <1>4

\* ubus_abort_request.
LEMMA AbortKeeps ==
  ASSUME ReqInv, NEW r \in Requests, ubus_abort_request(r)
  PROVE  ReqInv'
<1>1. CtxTypes /\ ReqTypes /\ HandlersOk /\ RequestsOk
  BY DEF ReqInv
<1>2. /\ reqs \in [Requests -> ReqRecs] /\ ctxRequests \in Seq(Requests)
      /\ CallsOk(frames, reqs) /\ ListOk(ctxRequests, frames, reqs) /\ AllFine(reqs)
      /\ SeqsOk(reqs, requestSeq) /\ MsgsOk(rx, peer.owes, reqs)
  BY <1>1 DEF ReqTypes, RequestsOk
<1>3. /\ ~Sync(r) /\ reqs[r].st = "active"
      /\ UNCHANGED <<ctxPending, frames, registered, pendingTimer, uloopCancelled, requestSeq, sockEof, rx, peer>>
  BY DEF ubus_abort_request
<1>4. PICK n0 \in ReqRecs : n0 = reqs[r]
  BY <1>2
<1>5. ReqFine(r, n0) /\ n0.st = "active"
  BY <1>2, <1>3, <1>4 DEF AllFine
<1>6. Range(ctxRequests) \subseteq Requests /\ Once(ctxRequests)
  BY <1>2, ListMembers DEF ListOk
<1>7. CASE r \in Range(ctxRequests)
  <2>1. PICK n \in ReqRecs : n = [n0 EXCEPT !.st = "aborted", !.gaveUp = TRUE, !.pend = 0]
    BY DEF ReqRecs
  <2>2. /\ n.npend = n0.npend /\ n.ids = n0.ids /\ n.heard = n0.heard /\ n.st = "aborted" /\ n.pend = 0
        /\ n.completed = n0.completed /\ n.blocked = n0.blocked
        /\ n.status_msg = n0.status_msg /\ n.from = n0.from /\ n.seq = n0.seq
    BY <2>1 DEF ReqRecs
  <2>3. PICK q : q = [reqs EXCEPT ![r] = n]
    OBVIOUS
  <2>4. q \in [Requests -> ReqRecs] /\ q[r] = n /\ \A s \in Requests : s # r => q[s] = reqs[s]
    BY <1>2, <2>3
  <2>5. reqs' = q /\ ctxRequests' = RemoveFirst(ctxRequests, r)
    BY <1>2, <1>4, <1>7, <2>1, <2>3 DEF ubus_abort_request
  <2>6. PICK l : l = ctxRequests'
    OBVIOUS
  <2>7. l \in Seq(Requests) /\ Once(l) /\ Range(l) = Range(ctxRequests) \ {r}
    BY <1>2, <1>6, <2>5, <2>6, EntryOut
  <2>8. CallsOk(frames, q)
    <3>1. \A s \in Requests : q[s].blocked = reqs[s].blocked /\ (Sync(s) /\ reqs[s].st = "active" => q[s].st = "active")
      BY <1>3, <1>4, <2>2, <2>4
    <3>. QED
      BY <1>2, <3>1, CallsLeft
  <2>9. ListOk(l, frames, q)
    <3>1. \A s \in Range(l) : s \in Range(ctxRequests) /\ q[s] = reqs[s]
      BY <1>6, <2>4, <2>7
    <3>. QED
      BY <1>2, <2>7, <3>1 DEF ListOk
  <2>10. AllFine(q)
    <3>1. ~n0.status_msg
      BY <1>2, <1>4, <1>7 DEF ListOk
    <3>2. ReqFine(r, n)
      BY <1>5, <2>2, <3>1 DEF ReqFine, NotifyFine, Sent
    <3>. QED
      BY <1>2, <2>4, <3>2 DEF AllFine
  <2>11. SeqsOk(q, requestSeq) /\ MsgsOk(rx, peer.owes, q)
    <3>1. SentKept(reqs, q)
      BY <1>4, <1>5, <2>2, <2>4 DEF SentKept, Sent
    <3>. QED
      BY <1>2, <3>1, NumbersKept
  <2>12. RequestsOk' /\ ReqTypes'
    BY <1>1, <1>3, <2>4, <2>5, <2>6, <2>7, <2>8, <2>9, <2>10, <2>11 DEF RequestsOk, ReqTypes
  <2>13. CtxTypes' /\ HandlersOk'
    BY <1>1, <1>3 DEF CtxTypes, HandlersOk
  <2>. QED
    BY <2>12, <2>13 DEF ReqInv
<1>8. CASE r \notin Range(ctxRequests)
  <2>1. PICK n \in ReqRecs : n = [n0 EXCEPT !.gaveUp = TRUE]
    BY DEF ReqRecs
  <2>2. /\ n.npend = n0.npend /\ n.ids = n0.ids /\ n.heard = n0.heard /\ n.st = n0.st /\ n.pend = n0.pend
        /\ n.completed = n0.completed /\ n.blocked = n0.blocked
        /\ n.status_msg = n0.status_msg /\ n.from = n0.from /\ n.seq = n0.seq
    BY <2>1 DEF ReqRecs
  <2>3. PICK q : q = [reqs EXCEPT ![r] = n]
    OBVIOUS
  <2>4. q \in [Requests -> ReqRecs] /\ q[r] = n /\ \A s \in Requests : s # r => q[s] = reqs[s]
    BY <1>2, <2>3
  <2>5. reqs' = q /\ ctxRequests' = ctxRequests
    BY <1>2, <1>4, <1>8, <2>1, <2>3 DEF ubus_abort_request
  <2>6. CallsOk(frames, q)
    <3>1. \A s \in Requests : q[s].blocked = reqs[s].blocked /\ (Sync(s) /\ reqs[s].st = "active" => q[s].st = "active")
      BY <1>4, <2>2, <2>4
    <3>. QED
      BY <1>2, <3>1, CallsLeft
  <2>7. ListOk(ctxRequests, frames, q)
    <3>1. \A s \in Range(ctxRequests) : q[s] = reqs[s]
      BY <1>6, <1>8, <2>4
    <3>. QED
      BY <1>2, <3>1 DEF ListOk
  <2>8. AllFine(q)
    <3>1. ReqFine(r, n)
      BY <1>5, <2>2 DEF ReqFine, NotifyFine, Sent
    <3>. QED
      BY <1>2, <2>4, <3>1 DEF AllFine
  <2>9. SeqsOk(q, requestSeq) /\ MsgsOk(rx, peer.owes, q)
    <3>1. SentKept(reqs, q)
      BY <1>4, <2>2, <2>4 DEF SentKept, Sent
    <3>. QED
      BY <1>2, <3>1, NumbersKept
  <2>10. RequestsOk' /\ ReqTypes'
    BY <1>1, <1>3, <2>4, <2>5, <2>6, <2>7, <2>8, <2>9 DEF RequestsOk, ReqTypes
  <2>11. CtxTypes' /\ HandlersOk'
    BY <1>1, <1>3 DEF CtxTypes, HandlersOk
  <2>. QED
    BY <2>10, <2>11 DEF ReqInv
<1>. QED
  BY <1>7, <1>8

\* The first of the messages in the socket, and the ones after it.
LEMMA FirstMessage ==
  ASSUME rx \in Seq(Msgs), rx # <<>>, NEW owes, NEW q, MsgsOk(rx, owes, q)
  PROVE  /\ Head(rx) \in Msgs /\ MsgFine(Head(rx), q)
         /\ Tail(rx) \in Seq(Msgs) /\ MsgsOk(Tail(rx), owes, q)
<1>1. /\ Head(rx) \in Msgs /\ Head(rx) = rx[1] /\ Tail(rx) \in Seq(Msgs)
      /\ Len(rx) \in Nat /\ Len(rx) > 0
      /\ \A i \in 1 .. Len(Tail(rx)) : Tail(rx)[i] = rx[i + 1] /\ i + 1 \in 1 .. Len(rx)
  BY TopTaken
<1>2. 1 \in 1 .. Len(rx)
  BY <1>1
<1>3. MsgFine(Head(rx), q)
  BY <1>1, <1>2 DEF MsgsOk
<1>4. MsgsOk(Tail(rx), owes, q)
  BY <1>1 DEF MsgsOk
<1>. QED
  BY <1>1, <1>3, <1>4

\* The stack a message is handled on.
LEMMA ReadingStack ==
  ASSUME ReqInv, NEW fs, fs = Overwrite(TopSaved(TRUE))
  PROVE  /\ fs \in Seq(Frames) /\ fs # <<>> /\ StackOk(fs)
         /\ CallsOk(fs, reqs) /\ ListOk(ctxRequests, fs, reqs)
         /\ (NoSync(fs) <=> NoSync(frames)) /\ (Serving(fs) <=> Serving(frames))
         /\ \A r : Waited(fs, r) <=> Waited(frames, r)
<1>1. /\ frames \in Seq(Frames) /\ frames # <<>> /\ StackOk(frames)
      /\ CallsOk(frames, reqs) /\ ListOk(ctxRequests, frames, reqs)
  BY DEF ReqInv, CtxTypes, HandlersOk, RequestsOk
<1>2. fs \in Seq(Frames) /\ Alike(fs, frames)
  BY <1>1, ReadStack
<1>3. StackOk(fs) /\ fs # <<>>
  BY <1>1, <1>2, StackAlike
<1>4. CallsOk(fs, reqs) /\ \A r : Waited(fs, r) <=> Waited(frames, r)
  BY <1>1, <1>2, CallsAlike
<1>5. ListOk(ctxRequests, fs, reqs)
  BY <1>1, <1>4 DEF ListOk
<1>6. (NoSync(fs) <=> NoSync(frames)) /\ (Serving(fs) <=> Serving(frames))
  BY <1>2, ServingAlike
<1>. QED
  BY <1>2, <1>3, <1>4, <1>5, <1>6

\* The stack such an end leaves.
LEMMA EndsStack ==
  ASSUME NEW fs \in Seq(Frames), fs # <<>>, StackOk(fs), NEW after, NEW q, Ends(after, q, fs)
  PROVE  StackOk(after.fs) /\ after.fs # <<>> /\ (NoSync(after.fs) <=> NoSync(fs)) /\ (Serving(after.fs) <=> Serving(fs))
<1>1. CASE after.fs = fs
  BY <1>1
<1>2. CASE \E f \in Frames : f.k \in {"data", "done"} /\ after.fs = <<f>> \o fs
  <2>1. PICK f \in Frames : f.k \in {"data", "done"} /\ after.fs = <<f>> \o fs
    BY <1>2
  <2>2. f.k # "main" /\ f.k \notin {"obj", "ctxPending"} /\ f.k # "obj" /\ f.k # "sync" /\ f.k # "ctxPending"
    BY <2>1
  <2>3. StackOk(<<f>> \o fs)
    BY <2>2, StackPushed
  <2>4. /\ Serving(<<f>> \o fs) <=> Serving(fs)
        /\ NoSync(<<f>> \o fs) <=> NoSync(fs)
        /\ <<f>> \o fs # <<>>
    BY <2>2, ServingPushed
  <2>. QED
    BY <2>1, <2>3, <2>4
<1>. QED
  BY <1>1, <1>2 DEF Ends

\* A message for a request is read.
LEMMA ReadReqKeeps ==
  ASSUME ReqInv, ReadReqMsg
  PROVE  ReqInv'
<1>1. CtxTypes /\ ReqTypes /\ HandlersOk /\ RequestsOk
  BY DEF ReqInv
<1>2. PICK fs : fs = Overwrite(TopSaved(TRUE))
  OBVIOUS
<1>3. /\ fs \in Seq(Frames) /\ fs # <<>> /\ StackOk(fs)
      /\ CallsOk(fs, reqs) /\ ListOk(ctxRequests, fs, reqs)
      /\ (NoSync(fs) <=> NoSync(frames)) /\ (Serving(fs) <=> Serving(frames))
  BY <1>2, ReadingStack
<1>4. rx # <<>> /\ Head(rx).t # "INVOKE" /\ rx' = Tail(rx)
      /\ UNCHANGED <<ctxPending, registered, pendingTimer, requestSeq, sockEof, peer>>
  BY DEF ReadReqMsg
<1>5. AllFine(reqs) /\ SeqsOk(reqs, requestSeq) /\ MsgsOk(rx, peer.owes, reqs) /\ rx \in Seq(Msgs)
  BY <1>1 DEF RequestsOk, CtxTypes
<1>6. /\ Head(rx) \in Msgs /\ MsgFine(Head(rx), reqs)
      /\ Tail(rx) \in Seq(Msgs) /\ MsgsOk(Tail(rx), peer.owes, reqs)
  BY <1>4, <1>5, FirstMessage
<1>7. PICK m \in Msgs : m = Head(rx) /\ m.t # "INVOKE" /\ MsgFine(m, reqs)
  BY <1>4, <1>6
<1>8. PICK after : after = ubus_process_req_msg(m, fs)
  OBVIOUS
<1>9. /\ reqs' = after.q /\ ctxRequests' = after.ls /\ frames' = after.fs
      /\ uloopCancelled' = (uloopCancelled \/ after.cancel)
  BY <1>2, <1>7, <1>8 DEF ReadReqMsg
<1>10. Ends(after, reqs, fs)
  BY <1>1, <1>3, <1>5, <1>7, <1>8, MessageHandled
<1>11. /\ after.q \in [Requests -> ReqRecs] /\ after.ls \in Seq(Requests) /\ after.fs \in Seq(Frames)
       /\ after.cancel \in BOOLEAN
       /\ CallsOk(after.fs, after.q) /\ ListOk(after.ls, after.fs, after.q) /\ AllFine(after.q)
       /\ SentKept(reqs, after.q)
       /\ after.fs = fs \/ \E f \in Frames : f.k \in {"data", "done"} /\ after.fs = <<f>> \o fs
  BY <1>10 DEF Ends
<1>12. SeqsOk(after.q, requestSeq) /\ MsgsOk(Tail(rx), peer.owes, after.q)
  BY <1>5, <1>6, <1>11, NumbersKept
<1>13. RequestsOk' /\ ReqTypes'
  BY <1>1, <1>4, <1>9, <1>11, <1>12 DEF RequestsOk, ReqTypes
<1>14. StackOk(after.fs) /\ after.fs # <<>> /\ (NoSync(after.fs) <=> NoSync(fs)) /\ (Serving(after.fs) <=> Serving(fs))
  BY <1>3, <1>10, EndsStack
<1>15. HandlersOk'
  BY <1>1, <1>3, <1>4, <1>9, <1>14 DEF HandlersOk
<1>16. CtxTypes'
  BY <1>1, <1>4, <1>6, <1>9, <1>11, <1>14 DEF CtxTypes
<1>. QED
  BY <1>13, <1>15, <1>16 DEF ReqInv

\* A message for one of the program's objects is read.
LEMMA ReadObjKeeps ==
  ASSUME ReqInv, ReadObjMsg
  PROVE  ReqInv'
<1>1. CtxTypes /\ ReqTypes /\ HandlersOk /\ RequestsOk
  BY DEF ReqInv
<1>2. PICK fs : fs = Overwrite(TopSaved(TRUE))
  OBVIOUS
<1>3. /\ fs \in Seq(Frames) /\ fs # <<>> /\ StackOk(fs) /\ CallsOk(fs, reqs)
      /\ (NoSync(fs) <=> NoSync(frames)) /\ (Serving(fs) <=> Serving(frames))
      /\ \A r : Waited(fs, r) <=> Waited(frames, r)
  BY <1>2, ReadingStack
<1>4. rx # <<>> /\ rx' = Tail(rx)
      /\ UNCHANGED <<reqs, ctxRequests, registered, uloopCancelled, requestSeq, sockEof, peer>>
  BY DEF ReadObjMsg
<1>5. MsgsOk(rx, peer.owes, reqs) /\ rx \in Seq(Msgs) /\ frames \in Seq(Frames)
  BY <1>1 DEF RequestsOk, CtxTypes
<1>6. Head(rx) \in Msgs /\ Tail(rx) \in Seq(Msgs) /\ MsgsOk(Tail(rx), peer.owes, reqs)
  BY <1>4, <1>5, FirstMessage
<1>7. PICK o \in Requests \union Invokes : o = Head(rx).req
  BY <1>6 DEF Msgs
<1>8. CASE Deferred(frames)
  <2>1. frames' = fs /\ ctxPending' = <<o>> \o ctxPending /\ pendingTimer' = (pendingTimer \/ registered)
    BY <1>2, <1>7, <1>8 DEF ReadObjMsg, ubus_queue_msg
  <2>2. registered
    <3>1. ~NoSync(frames)
      BY <1>5, <1>8, DepthCounts DEF Deferred
    <3>. QED
      BY <1>1, <3>1 DEF HandlersOk
  <2>3. ctxPending' \in Seq(Requests \union Invokes)
    BY <1>1, <2>1, FramePushed DEF CtxTypes
  <2>4. HandlersOk'
    BY <1>1, <1>3, <1>4, <2>1, <2>2 DEF HandlersOk
  <2>5. ReqTypes' /\ RequestsOk'
    BY <1>1, <1>3, <1>4, <1>6, <2>1, RequestsLeft
  <2>6. CtxTypes'
    BY <1>1, <1>3, <1>4, <1>6, <2>1, <2>2, <2>3 DEF CtxTypes
  <2>. QED
    BY <2>4, <2>5, <2>6 DEF ReqInv
<1>9. CASE ~Deferred(frames)
  <2>1. PICK f \in Frames : f = Frame("obj", o, "own") /\ f.k = "obj" /\ f.buf = "own"
    BY NewFrame
  <2>2. frames' = <<f>> \o fs /\ ctxPending' = ctxPending /\ pendingTimer' = pendingTimer
    BY <1>2, <1>7, <1>9, <2>1 DEF ReadObjMsg, ubus_process_obj_msg
  <2>3. NoSync(frames)
    BY <1>5, <1>9, DepthCounts DEF Deferred
  <2>4. f.k # "main" /\ f.k # "sync" /\ f.k # "data" /\ f.k # "ctxPending" /\ f.k \notin {"sync", "data"}
    BY <2>1
  <2>5. StackOk(<<f>> \o fs)
    BY <1>3, <2>1, <2>3, <2>4, StackPushed
  <2>6. /\ Serving(<<f>> \o fs) <=> Serving(fs)
        /\ NoSync(<<f>> \o fs) <=> NoSync(fs)
        /\ <<f>> \o fs \in Seq(Frames) /\ <<f>> \o fs # <<>>
    BY <1>3, <2>4, ServingPushed
  <2>7. CallsOk(<<f>> \o fs, reqs) /\ \A r : Waited(<<f>> \o fs, r) <=> Waited(fs, r)
    BY <1>3, <2>4, PlainPushed
  <2>8. HandlersOk'
    BY <1>1, <1>3, <1>4, <2>2, <2>5, <2>6 DEF HandlersOk
  <2>9. ReqTypes' /\ RequestsOk'
    BY <1>1, <1>3, <1>4, <1>6, <2>2, <2>7, RequestsLeft
  <2>10. CtxTypes'
    BY <1>1, <1>4, <1>6, <2>2, <2>6 DEF CtxTypes
  <2>. QED
    BY <2>8, <2>9, <2>10 DEF ReqInv
<1>. QED
  BY <1>8, <1>9

\* A loop is entered: the program's uloop reads the socket or serves what was queued,
\* or a synchronous request polls.
LEMMA LoopEntered ==
  ASSUME ReqInv, SocketEvent \/ PendingTimer \/ PollData
  PROVE  ReqInv'
<1>1. CtxTypes /\ ReqTypes /\ HandlersOk /\ RequestsOk
  BY DEF ReqInv
<1>2. /\ frames \in Seq(Frames) /\ frames # <<>> /\ StackOk(frames) /\ CallsOk(frames, reqs)
      /\ MsgsOk(rx, peer.owes, reqs) /\ uloopCancelled \in BOOLEAN
  BY <1>1 DEF CtxTypes, HandlersOk, RequestsOk
<1>3. /\ UNCHANGED <<reqs, ctxRequests, ctxPending, registered, requestSeq, sockEof, rx, peer>>
      /\ uloopCancelled' \in BOOLEAN /\ pendingTimer' \in BOOLEAN
  BY <1>1 DEF SocketEvent, PendingTimer, PollData, CtxTypes
<1>4. PICK b \in Seq(Frames), f \in Frames :
        /\ frames' = <<f>> \o b /\ b # <<>> /\ StackOk(b) /\ CallsOk(b, reqs)
        /\ (NoSync(b) <=> NoSync(frames)) /\ (Serving(b) <=> Serving(frames))
        /\ \A r : Waited(b, r) <=> Waited(frames, r)
        /\ \/ f.k = "handle" /\ pendingTimer' = pendingTimer
           \/ f.k = "ctxPending" /\ NoSync(frames)
  <2>1. CASE SocketEvent
    <3>1. PICK f \in Frames : f = Frame("handle", "none", "none") /\ f.k = "handle"
      BY NewFrame
    <3>2. frames' = <<f>> \o frames /\ pendingTimer' = pendingTimer
      BY <2>1, <3>1 DEF SocketEvent
    <3>. QED
      BY <1>2, <3>1, <3>2
  <2>2. CASE PendingTimer
    <3>1. PICK f \in Frames : f = Frame("ctxPending", "none", "none") /\ f.k = "ctxPending"
      BY NewFrame
    <3>2. frames' = <<f>> \o frames
      BY <2>2, <3>1 DEF PendingTimer
    <3>3. NoSync(frames)
      <4>1. Head(frames) = frames[1] /\ Len(frames) \in Nat /\ Len(frames) > 0
        BY <1>2, TopTaken
      <4>2. frames[1].k = "main" /\ 1 \in 1 .. Len(frames)
        BY <2>2, <4>1 DEF PendingTimer, Top
      <4>3. Len(frames) = 1
        BY <1>2, <4>2 DEF StackOk
      <4>. QED
        BY <4>2, <4>3 DEF NoSync
    <3>. QED
      BY <1>2, <3>1, <3>2, <3>3
  <2>3. CASE PollData
    <3>1. PICK f \in Frames : f = Frame("handle", "none", "none") /\ f.k = "handle"
      BY NewFrame
    <3>2. PICK b \in Seq(Frames) : b = TopSaved(uloopCancelled) /\ Alike(b, frames)
      BY <1>2, TopKept
    <3>3. frames' = <<f>> \o b /\ pendingTimer' = pendingTimer
      BY <2>3, <3>1, <3>2 DEF PollData
    <3>4. StackOk(b) /\ b # <<>>
      BY <1>2, <3>2, StackAlike
    <3>5. CallsOk(b, reqs) /\ \A r : Waited(b, r) <=> Waited(frames, r)
      BY <1>2, <3>2, CallsAlike
    <3>6. (NoSync(b) <=> NoSync(frames)) /\ (Serving(b) <=> Serving(frames))
      BY <3>2, ServingAlike
    <3>. QED
      BY <3>1, <3>3, <3>4, <3>5, <3>6
  <2>. QED
    BY <2>1, <2>2, <2>3
<1>5. f.k # "main" /\ f.k # "sync" /\ f.k # "data" /\ f.k # "obj" /\ f.k \notin {"sync", "data"}
      /\ (f.k \in {"obj", "ctxPending"} => NoSync(b))
  BY <1>4
<1>6. StackOk(<<f>> \o b)
  BY <1>4, <1>5, StackPushed
<1>7. /\ Serving(<<f>> \o b) <=> Serving(b) \/ f.k = "ctxPending"
      /\ NoSync(<<f>> \o b) <=> NoSync(b)
      /\ <<f>> \o b \in Seq(Frames) /\ <<f>> \o b # <<>>
  BY <1>5, ServingPushed
<1>8. CallsOk(<<f>> \o b, reqs) /\ \A r : Waited(<<f>> \o b, r) <=> Waited(b, r)
  BY <1>4, <1>5, PlainPushed
<1>9. HandlersOk'
  <2>1. ctxPending # <<>> => pendingTimer' \/ Serving(<<f>> \o b)
    BY <1>1, <1>4, <1>7 DEF HandlersOk
  <2>2. ~NoSync(<<f>> \o b) => registered
    BY <1>1, <1>4, <1>7 DEF HandlersOk
  <2>. QED
    BY <1>3, <1>4, <1>6, <2>1, <2>2 DEF HandlersOk
<1>10. ReqTypes' /\ RequestsOk'
  BY <1>1, <1>2, <1>3, <1>4, <1>8, RequestsLeft
<1>11. CtxTypes'
  BY <1>1, <1>3, <1>4, <1>7 DEF CtxTypes
<1>. QED
  BY <1>9, <1>10, <1>11 DEF ReqInv

\* A frame that is no call of a request is left.
LEMMA PlainPopped ==
  ASSUME frames \in Seq(Frames), frames # <<>>, StackOk(frames), CallsOk(frames, reqs),
         Top.k \notin {"main", "sync", "data"}
  PROVE  /\ Below \in Seq(Frames) /\ Below # <<>> /\ StackOk(Below) /\ CallsOk(Below, reqs)
         /\ \A r : Waited(frames, r) => Waited(Below, r)
         /\ Serving(frames) => Serving(Below) \/ Top.k = "ctxPending"
         /\ NoSync(frames) => NoSync(Below)
<1>1. Head(frames).k # "main" /\ Head(frames).k # "sync" /\ Head(frames).k # "data" /\ Top = Head(frames) /\ Below = Tail(frames)
  BY DEF Top, Below
<1>2. Tail(frames) \in Seq(Frames) /\ Tail(frames) # <<>> /\ StackOk(Tail(frames))
  BY <1>1, StackPopped
<1>3. \A i \in 1 .. Len(frames) : /\ frames[i].k = "sync" => reqs[frames[i].r].st = "active"
                                  /\ frames[i].k = "data" => reqs[frames[i].r].blocked
  BY DEF CallsOk
<1>4. /\ CallsOk(Tail(frames), reqs)
      /\ \A r : Waited(frames, r) => Waited(Tail(frames), r)
  BY <1>1, <1>3, CallReturns
<1>5. /\ Serving(frames) => Serving(Tail(frames)) \/ Head(frames).k = "ctxPending"
      /\ NoSync(frames) => NoSync(Tail(frames))
  BY ServingPopped
<1>. QED
  BY <1>1, <1>2, <1>4, <1>5

\* A handler or a completion callback returns, or reading ends.
LEMMA LoopLeft ==
  ASSUME ReqInv, EndReading \/ CallbackReturns
  PROVE  ReqInv'
<1>1. CtxTypes /\ ReqTypes /\ HandlersOk /\ RequestsOk
  BY DEF ReqInv
<1>2. /\ frames \in Seq(Frames) /\ frames # <<>> /\ StackOk(frames) /\ CallsOk(frames, reqs)
      /\ MsgsOk(rx, peer.owes, reqs) /\ uloopCancelled \in BOOLEAN /\ sockEof \in BOOLEAN
      /\ registered \in BOOLEAN /\ peer \in PeerStates
  BY <1>1 DEF CtxTypes, HandlersOk, RequestsOk
<1>3. Top.k \notin {"main", "sync", "data"} /\ Top.k # "ctxPending" /\ frames' = Below
      /\ UNCHANGED <<reqs, ctxRequests, ctxPending, registered, pendingTimer, requestSeq, rx, peer>>
  BY DEF EndReading, CallbackReturns
<1>4. /\ Below \in Seq(Frames) /\ Below # <<>> /\ StackOk(Below) /\ CallsOk(Below, reqs)
      /\ \A r : Waited(frames, r) => Waited(Below, r)
      /\ Serving(frames) => Serving(Below)
      /\ NoSync(frames) => NoSync(Below)
  BY <1>2, <1>3, PlainPopped
<1>5. uloopCancelled' \in BOOLEAN /\ sockEof' \in BOOLEAN
  <2>1. CASE EndReading
    <3>1. Head(Below) \in Frames
      BY <1>4, TopTaken
    <3>2. Head(Below).saved \in BOOLEAN /\ peer.dead \in BOOLEAN
      BY <1>2, <3>1 DEF Frames, PeerStates
    <3>3. sockEof' \in BOOLEAN
      BY <1>2, <2>1, <3>2 DEF EndReading
    <3>4. uloopCancelled' \in BOOLEAN
      BY <1>2, <2>1, <3>2 DEF EndReading
    <3>. QED
      BY <3>3, <3>4
  <2>2. CASE CallbackReturns
    BY <1>2, <2>2 DEF CallbackReturns
  <2>. QED
    BY <2>1, <2>2
<1>6. HandlersOk'
  BY <1>1, <1>3, <1>4 DEF HandlersOk
<1>7. ReqTypes' /\ RequestsOk'
  BY <1>1, <1>2, <1>3, <1>4, RequestsLeft
<1>8. CtxTypes'
  BY <1>1, <1>3, <1>4, <1>5 DEF CtxTypes
<1>. QED
  BY <1>6, <1>7, <1>8 DEF ReqInv

\* ubus_process_pending_msg calls a handler, or has none left to call.
LEMMA ServeKeeps ==
  ASSUME ReqInv, ServePending
  PROVE  ReqInv'
<1>1. CtxTypes /\ ReqTypes /\ HandlersOk /\ RequestsOk
  BY DEF ReqInv
<1>2. /\ frames \in Seq(Frames) /\ frames # <<>> /\ StackOk(frames) /\ CallsOk(frames, reqs)
      /\ MsgsOk(rx, peer.owes, reqs) /\ ctxPending \in Seq(Requests \union Invokes)
  BY <1>1 DEF CtxTypes, HandlersOk, RequestsOk
<1>3. /\ Top.k = "ctxPending"
      /\ UNCHANGED <<reqs, ctxRequests, registered, pendingTimer, uloopCancelled, requestSeq, sockEof, rx, peer>>
  BY DEF ServePending
<1>4. NoSync(frames)
  <2>1. Head(frames) = frames[1] /\ Len(frames) \in Nat /\ Len(frames) > 0
    BY <1>2, TopTaken
  <2>2. frames[1].k = "ctxPending" /\ 1 \in 1 .. Len(frames) /\ \A j \in 1 .. Len(frames) : 1 <= j
    BY <1>3, <2>1 DEF Top
  <2>. QED
    BY <1>2, <2>2 DEF StackOk, NoSync
<1>5. stack_depth(frames) = 0
  BY <1>2, <1>4, DepthCounts
<1>6. CASE ctxPending # <<>>
  <2>1. PICK o \in Requests \union Invokes : o = Head(ctxPending)
    BY <1>2, <1>6, TopTaken
  <2>2. PICK f \in Frames : f = Frame("obj", o, "own") /\ f.k = "obj" /\ f.buf = "own"
    BY NewFrame
  <2>3. frames' = <<f>> \o frames /\ ctxPending' = Tail(ctxPending)
    BY <1>5, <1>6, <2>1, <2>2 DEF ServePending
  <2>4. f.k # "main" /\ f.k # "sync" /\ f.k # "data" /\ f.k # "ctxPending" /\ f.k \notin {"sync", "data"}
    BY <2>2
  <2>5. StackOk(<<f>> \o frames)
    BY <1>2, <1>4, <2>2, <2>4, StackPushed
  <2>6. /\ Serving(<<f>> \o frames) <=> Serving(frames)
        /\ NoSync(<<f>> \o frames) <=> NoSync(frames)
        /\ <<f>> \o frames \in Seq(Frames) /\ <<f>> \o frames # <<>>
    BY <1>2, <2>4, ServingPushed
  <2>7. CallsOk(<<f>> \o frames, reqs) /\ \A r : Waited(<<f>> \o frames, r) <=> Waited(frames, r)
    BY <1>2, <2>4, PlainPushed
  <2>8. Tail(ctxPending) \in Seq(Requests \union Invokes)
    BY <1>2, <1>6, TopTaken
  <2>9. HandlersOk'
    BY <1>1, <1>3, <1>6, <2>3, <2>5, <2>6 DEF HandlersOk
  <2>10. ReqTypes' /\ RequestsOk'
    BY <1>1, <1>2, <1>3, <2>3, <2>7, RequestsLeft
  <2>11. CtxTypes'
    BY <1>1, <1>3, <2>3, <2>6, <2>8 DEF CtxTypes
  <2>. QED
    BY <2>9, <2>10, <2>11 DEF ReqInv
<1>7. CASE ctxPending = <<>>
  <2>1. frames' = Below /\ ctxPending' = ctxPending
    BY <1>7 DEF ServePending
  <2>2. Top.k \notin {"main", "sync", "data"}
    BY <1>3
  <2>3. /\ Below \in Seq(Frames) /\ Below # <<>> /\ StackOk(Below) /\ CallsOk(Below, reqs)
        /\ \A r : Waited(frames, r) => Waited(Below, r)
        /\ NoSync(frames) => NoSync(Below)
    BY <1>2, <2>2, PlainPopped
  <2>4. HandlersOk'
    BY <1>1, <1>3, <1>4, <1>7, <2>1, <2>3 DEF HandlersOk
  <2>5. ReqTypes' /\ RequestsOk'
    BY <1>1, <1>2, <1>3, <2>1, <2>3, RequestsLeft
  <2>6. CtxTypes'
    BY <1>1, <1>3, <2>1, <2>3 DEF CtxTypes
  <2>. QED
    BY <2>4, <2>5, <2>6 DEF ReqInv
<1>. QED
  BY <1>6, <1>7

\* The request that is being waited for and the frame it is waited for in.
LEMMA WaitedTop ==
  ASSUME CtxTypes, ReqTypes, HandlersOk, RequestsOk, Top.k = "sync"
  PROVE  /\ Top = Head(frames) /\ Below = Tail(frames) /\ Top = frames[1]
         /\ Len(frames) \in Nat /\ Len(frames) > 0 /\ Top \in Frames
         /\ Top.r \in Requests /\ Sync(Top.r) /\ reqs[Top.r].st = "active" /\ ~reqs[Top.r].blocked
         /\ ~NoSync(frames) /\ registered
<1>1. frames \in Seq(Frames) /\ frames # <<>> /\ CallsOk(frames, reqs) /\ registered \in BOOLEAN
  BY DEF CtxTypes, RequestsOk
<1>2. Top = Head(frames) /\ Below = Tail(frames) /\ Top = frames[1] /\ Top \in Frames
      /\ Len(frames) \in Nat /\ Len(frames) > 0
  BY <1>1, TopTaken DEF Top, Below
<1>3. 1 \in 1 .. Len(frames) /\ frames[1].k = "sync"
  BY <1>2
<1>4. Top.r \in Requests /\ Sync(Top.r) /\ reqs[Top.r].st = "active"
  BY <1>1, <1>2, <1>3 DEF CallsOk
<1>5. ~reqs[Top.r].blocked
  <2>. SUFFICES ASSUME reqs[Top.r].blocked PROVE FALSE
    OBVIOUS
  <2>1. PICK i \in 1 .. Len(frames) : Calls(frames, i, "data", Top.r)
    BY <1>1, <1>4 DEF CallsOk
  <2>2. frames[i].k = "data" /\ frames[i].r = frames[1].r
    BY <1>2, <2>1 DEF Calls
  <2>3. i < 1
    BY <1>1, <1>3, <2>2 DEF CallsOk
  <2>. QED
    BY <2>3
<1>6. ~NoSync(frames)
  BY <1>3 DEF NoSync
<1>7. registered
  BY <1>6 DEF HandlersOk
<1>. QED
  BY <1>2, <1>4, <1>5, <1>6, <1>7

\* The time of a synchronous request has passed.
LEMMA TimeOutKeeps ==
  ASSUME ReqInv, RequestTimesOut
  PROVE  ReqInv'
<1>1. CtxTypes /\ ReqTypes /\ HandlersOk /\ RequestsOk
  BY DEF ReqInv
<1>2. /\ reqs \in [Requests -> ReqRecs] /\ ctxRequests \in Seq(Requests) /\ frames \in Seq(Frames)
      /\ CallsOk(frames, reqs) /\ ListOk(ctxRequests, frames, reqs) /\ AllFine(reqs)
      /\ SeqsOk(reqs, requestSeq) /\ MsgsOk(rx, peer.owes, reqs)
  BY <1>1 DEF CtxTypes, ReqTypes, RequestsOk
<1>3. PICK r : r = Top.r
  OBVIOUS
<1>4. /\ r \in Requests /\ Sync(r) /\ reqs[r].st = "active" /\ ~reqs[r].blocked
  BY <1>1, <1>3, WaitedTop DEF RequestTimesOut
<1>5. ModeOf[r] # "notify"
  BY <1>4 DEF Sync
<1>6. PICK after : after = ubus_set_req_status(reqs, ctxRequests, frames, r, "timeout")
  OBVIOUS
<1>7. Ends(after, reqs, frames)
  <2>1. "timeout" \in {"timeout", r}
    OBVIOUS
  <2>. QED
    BY <1>2, <1>4, <1>5, <1>6, <2>1, StatusSet
<1>8. after.fs = frames
  <2>1. PICK q1 : q1 = [reqs EXCEPT ![r].status_msg = TRUE, ![r].from = "timeout"]
    OBVIOUS
  <2>2. q1[r].blocked = reqs[r].blocked
    BY <1>2, <1>4, <2>1 DEF ReqRecs
  <2>3. after = ubus_req_complete_cb(q1, RemoveFirst(ctxRequests, r), frames, r)
    BY <1>4, <1>6, <2>1, <2>2 DEF ubus_set_req_status
  <2>4. after = [q |-> q1, ls |-> RemoveFirst(ctxRequests, r), fs |-> frames, cancel |-> TRUE]
    BY <1>4, <2>3 DEF ubus_req_complete_cb
  <2>. QED
    BY <2>4
<1>9. /\ reqs' = after.q /\ ctxRequests' = after.ls
      /\ UNCHANGED <<frames, uloopCancelled, ctxPending, registered, pendingTimer, requestSeq, sockEof, rx, peer>>
  BY <1>3, <1>6 DEF RequestTimesOut
<1>10. /\ reqs' \in [Requests -> ReqRecs] /\ ctxRequests' \in Seq(Requests)
       /\ CallsOk(frames', reqs') /\ ListOk(ctxRequests', frames', reqs') /\ AllFine(reqs') /\ SentKept(reqs, reqs')
  BY <1>7, <1>8, <1>9 DEF Ends
<1>11. SeqsOk(reqs', requestSeq') /\ MsgsOk(rx', peer'.owes, reqs')
  BY <1>2, <1>9, <1>10, NumbersKept
<1>12. RequestsOk'
  BY <1>1, <1>9, <1>10, <1>11 DEF RequestsOk
<1>13. ReqTypes' /\ CtxTypes' /\ HandlersOk'
  BY <1>1, <1>9, <1>10 DEF ReqTypes, CtxTypes, HandlersOk
<1>. QED
  BY <1>12, <1>13 DEF ReqInv

\* A synchronous request has its status: it is done, and waited for no longer.
LEMMA DoneRequest ==
  ASSUME CtxTypes, ReqTypes, HandlersOk, RequestsOk, Top.k = "sync", reqs[Top.r].status_msg,
         NEW q, q = [reqs EXCEPT ![Top.r].st = "done", ![Top.r].completed = @ + 1]
  PROVE  /\ q \in [Requests -> ReqRecs] /\ AllFine(q) /\ SentKept(reqs, q)
         /\ CallsOk(Below, q) /\ ListOk(ctxRequests, Below, q)
<1>1. /\ reqs \in [Requests -> ReqRecs] /\ ctxRequests \in Seq(Requests)
      /\ frames \in Seq(Frames) /\ frames # <<>>
      /\ CallsOk(frames, reqs) /\ ListOk(ctxRequests, frames, reqs) /\ AllFine(reqs)
  BY DEF CtxTypes, ReqTypes, RequestsOk
<1>2. PICK r : r = Top.r
  OBVIOUS
<1>3. /\ Top = Head(frames) /\ Below = Tail(frames) /\ Top = frames[1] /\ Len(frames) \in Nat /\ Len(frames) > 0
      /\ r \in Requests /\ Sync(r) /\ reqs[r].st = "active" /\ ~reqs[r].blocked /\ reqs[r].status_msg
  BY <1>2, WaitedTop
<1>4. PICK n0 \in ReqRecs : n0 = reqs[r]
  BY <1>1, <1>3
<1>5. PICK c \in Nat : c = n0.completed + 1
  BY DEF ReqRecs
<1>6. PICK n \in ReqRecs : n = [n0 EXCEPT !.st = "done", !.completed = c]
  BY DEF ReqRecs
<1>7. /\ n.st = "done" /\ n.completed = c /\ n.blocked = n0.blocked /\ n.pend = n0.pend
      /\ n.status_msg = n0.status_msg /\ n.from = n0.from /\ n.npend = n0.npend /\ n.ids = n0.ids
      /\ n.heard = n0.heard /\ n.seq = n0.seq
  BY <1>6 DEF ReqRecs
<1>8. q = [reqs EXCEPT ![r] = n]
  BY <1>1, <1>2, <1>3, <1>4, <1>5, <1>6
<1>9. q \in [Requests -> ReqRecs] /\ q[r] = n /\ \A s \in Requests : s # r => q[s] = reqs[s]
  BY <1>1, <1>3, <1>8
<1>10. AllFine(q)
  <2>1. ReqFine(r, n0) /\ ModeOf[r] # "notify"
    BY <1>1, <1>3, <1>4 DEF AllFine, Sync
  <2>2. c = 1
    BY <1>3, <1>4, <1>5, <2>1 DEF ReqFine
  <2>3. ReqFine(r, n)
    BY <1>3, <1>4, <1>7, <2>1, <2>2 DEF ReqFine
  <2>. QED
    BY <1>1, <1>9, <2>3 DEF AllFine
<1>11. SentKept(reqs, q)
  BY <1>3, <1>4, <1>7, <1>9 DEF SentKept, Sent
<1>12. /\ CallsOk(Below, q)
       /\ \A s : Waited(frames, s) /\ s # r => Waited(Below, s)
  <2>1. \A i \in 1 .. Len(frames) : i # 1 /\ frames[i].k = "sync" => q[frames[i].r].st = "active"
    <3>. SUFFICES ASSUME NEW i \in 1 .. Len(frames), i # 1, frames[i].k = "sync"
                  PROVE  q[frames[i].r].st = "active"
      OBVIOUS
    <3>1. 1 \in 1 .. Len(frames) /\ frames[1].k = "sync" /\ frames[1].r = r
      BY <1>2, <1>3
    <3>2. frames[i].r \in Requests /\ reqs[frames[i].r].st = "active"
      BY <1>1 DEF CallsOk
    <3>3. frames[i].r # r
      BY <1>1, <3>1 DEF CallsOk
    <3>. QED
      BY <1>9, <3>2, <3>3
  <2>2. \A s \in Requests : q[s].blocked = reqs[s].blocked
    BY <1>4, <1>7, <1>9
  <2>3. \A i \in 1 .. Len(frames) : i # 1 /\ frames[i].k = "data" => q[frames[i].r].blocked
    BY <1>1, <2>2 DEF CallsOk
  <2>4. \A s \in Requests : q[s].blocked => reqs[s].blocked /\ ~(Head(frames).k = "data" /\ Head(frames).r = s)
    BY <1>3, <2>2
  <2>5. /\ CallsOk(Tail(frames), q)
        /\ \A s : Waited(frames, s) /\ ~(Head(frames).k = "sync" /\ Head(frames).r = s) => Waited(Tail(frames), s)
    BY <1>1, <2>1, <2>3, <2>4, CallReturns
  <2>. QED
    BY <1>2, <1>3, <2>5
<1>13. ListOk(ctxRequests, Below, q)
  <2>1. \A s \in Range(ctxRequests) : s \in Requests /\ s # r
    BY <1>1, <1>3, ListMembers DEF ListOk
  <2>. QED
    BY <1>1, <1>9, <1>12, <2>1 DEF ListOk
<1>. QED
  BY <1>9, <1>10, <1>11, <1>12, <1>13

\* ubus_complete_request returns.
LEMMA ReturnKeeps ==
  ASSUME ReqInv, RequestReturns
  PROVE  ReqInv'
<1>1. CtxTypes /\ ReqTypes /\ HandlersOk /\ RequestsOk
  BY DEF ReqInv
<1>2. /\ frames \in Seq(Frames) /\ frames # <<>> /\ StackOk(frames) /\ uloopCancelled \in BOOLEAN
      /\ SeqsOk(reqs, requestSeq) /\ MsgsOk(rx, peer.owes, reqs)
  BY <1>1 DEF CtxTypes, HandlersOk, RequestsOk
<1>3. Top.k = "sync" /\ reqs[Top.r].status_msg
      /\ registered' = Top.reg
      /\ UNCHANGED <<ctxRequests, ctxPending, pendingTimer, requestSeq, sockEof, rx, peer>>
  BY DEF RequestReturns
<1>4. /\ Top = Head(frames) /\ Below = Tail(frames) /\ Top = frames[1] /\ Top \in Frames
      /\ Len(frames) \in Nat /\ Len(frames) > 0
  BY <1>1, <1>3, WaitedTop
<1>5. /\ reqs' \in [Requests -> ReqRecs] /\ AllFine(reqs') /\ SentKept(reqs, reqs')
      /\ CallsOk(Below, reqs') /\ ListOk(ctxRequests, Below, reqs')
  BY <1>1, <1>3, DoneRequest DEF RequestReturns
<1>6. /\ Below \in Seq(Frames) /\ Below # <<>> /\ StackOk(Below)
      /\ Serving(frames) => Serving(Below)
  BY <1>2, <1>3, <1>4, StackPopped, ServingPopped
<1>7. ~NoSync(Below) => Top.reg
  <2>. SUFFICES ASSUME ~NoSync(Below) PROVE Top.reg
    OBVIOUS
  <2>1. PICK i \in 1 .. Len(Below) : Below[i].k = "sync"
    BY DEF NoSync
  <2>2. Below[i] = frames[i + 1] /\ i + 1 \in 1 .. Len(frames)
    BY <1>2, <1>4, TopTaken
  <2>3. PICK j \in 1 .. Len(frames) : j = i + 1
    BY <2>2
  <2>4. 1 \in 1 .. Len(frames) /\ 1 < j /\ frames[1].k = "sync" /\ frames[j].k = "sync"
    BY <1>3, <1>4, <2>1, <2>2, <2>3
  <2>. QED
    BY <1>2, <1>4, <2>4 DEF StackOk
<1>8. PICK g : g = frames'
  OBVIOUS
<1>9. /\ g \in Seq(Frames) /\ g # <<>> /\ StackOk(g) /\ CallsOk(g, reqs')
      /\ (NoSync(g) <=> NoSync(Below)) /\ (Serving(Below) => Serving(g))
      /\ \A s : Waited(g, s) <=> Waited(Below, s)
  <2>1. CASE ~Top.reg /\ stack_depth(Below) = 0
    <3>1. PICK f \in Frames : f = Frame("ctxPending", "none", "none") /\ f.k = "ctxPending"
      BY NewFrame
    <3>2. g = <<f>> \o Below
      BY <1>8, <2>1, <3>1 DEF RequestReturns
    <3>3. NoSync(Below)
      BY <1>6, <2>1, DepthCounts
    <3>4. f.k # "main" /\ f.k # "sync" /\ f.k # "data" /\ f.k # "obj" /\ f.k \notin {"sync", "data"}
      BY <3>1
    <3>5. StackOk(g)
      BY <1>6, <3>2, <3>3, <3>4, StackPushed
    <3>6. CallsOk(g, reqs') /\ \A s : Waited(g, s) <=> Waited(Below, s)
      BY <1>5, <1>6, <3>2, <3>4, PlainPushed
    <3>7. /\ Serving(Below) => Serving(g)
          /\ NoSync(g) <=> NoSync(Below)
          /\ g \in Seq(Frames) /\ g # <<>>
      BY <1>6, <3>2, <3>4, ServingPushed
    <3>. QED
      BY <3>5, <3>6, <3>7
  <2>2. CASE ~(~Top.reg /\ stack_depth(Below) = 0)
    <3>1. g = Below
      BY <1>8, <2>2 DEF RequestReturns
    <3>. QED
      BY <1>5, <1>6, <3>1
  <2>. QED
    BY <2>1, <2>2
<1>10. HandlersOk'
  <2>1. ~NoSync(g) => registered'
    BY <1>3, <1>7, <1>9
  <2>2. ctxPending' # <<>> => pendingTimer' \/ Serving(g)
    BY <1>1, <1>3, <1>6, <1>9 DEF HandlersOk
  <2>. QED
    BY <1>8, <1>9, <2>1, <2>2 DEF HandlersOk
<1>11. ListOk(ctxRequests', g, reqs')
  BY <1>3, <1>5, <1>9 DEF ListOk
<1>12. SeqsOk(reqs', requestSeq') /\ MsgsOk(rx', peer'.owes, reqs')
  BY <1>2, <1>3, <1>5, NumbersKept
<1>13. RequestsOk'
  BY <1>1, <1>3, <1>5, <1>8, <1>9, <1>11, <1>12 DEF RequestsOk
<1>14. ReqTypes'
  BY <1>1, <1>3, <1>5 DEF ReqTypes
<1>15. registered' \in BOOLEAN /\ uloopCancelled' \in BOOLEAN
  <2>1. registered' \in BOOLEAN
    BY <1>3, <1>4 DEF Frames
  <2>2. uloopCancelled' \in BOOLEAN
    BY <1>2 DEF RequestReturns
  <2>. QED
    BY <2>1, <2>2
<1>16. CtxTypes'
  BY <1>1, <1>3, <1>8, <1>9, <1>15 DEF CtxTypes
<1>. QED
  BY <1>10, <1>13, <1>14, <1>16 DEF ReqInv

\* The request whose data callback is on top.
LEMMA DataTop ==
  ASSUME CtxTypes, RequestsOk, Top.k = "data"
  PROVE  /\ Top = Head(frames) /\ Below = Tail(frames) /\ Top = frames[1]
         /\ Len(frames) \in Nat /\ Len(frames) > 0
         /\ Top.r \in Requests /\ reqs[Top.r].blocked /\ reqs[Top.r].st \notin {"idle", "done"}
<1>1. frames \in Seq(Frames) /\ frames # <<>> /\ CallsOk(frames, reqs) /\ AllFine(reqs)
  BY DEF CtxTypes, RequestsOk
<1>2. Top = Head(frames) /\ Below = Tail(frames) /\ Top = frames[1]
      /\ Len(frames) \in Nat /\ Len(frames) > 0
  BY <1>1, TopTaken DEF Top, Below
<1>3. 1 \in 1 .. Len(frames) /\ frames[1].k = "data"
  BY <1>2
<1>4. Top.r \in Requests /\ reqs[Top.r].blocked
  BY <1>1, <1>2, <1>3 DEF CallsOk
<1>5. reqs[Top.r].st \notin {"idle", "done"}
  BY <1>1, <1>4 DEF AllFine, ReqFine
<1>. QED
  BY <1>2, <1>4, <1>5

\* Data was put aside while the callback ran: it gets that now.
LEMMA NextData ==
  ASSUME ReqInv, DataCallbackReturns, reqs[Top.r].pend > 0
  PROVE  ReqInv'
<1>1. CtxTypes /\ ReqTypes /\ HandlersOk /\ RequestsOk
  BY DEF ReqInv
<1>2. /\ reqs \in [Requests -> ReqRecs] /\ ctxRequests \in Seq(Requests)
      /\ frames \in Seq(Frames) /\ frames # <<>> /\ StackOk(frames)
      /\ CallsOk(frames, reqs) /\ ListOk(ctxRequests, frames, reqs) /\ AllFine(reqs)
      /\ SeqsOk(reqs, requestSeq) /\ MsgsOk(rx, peer.owes, reqs)
  BY <1>1 DEF CtxTypes, ReqTypes, RequestsOk, HandlersOk
<1>3. PICK r : r = Top.r
  OBVIOUS
<1>4. Top.k = "data" /\ r \in Requests /\ reqs[r].blocked
  BY <1>1, <1>3, DataTop DEF DataCallbackReturns
<1>5. PICK n0 \in ReqRecs : n0 = reqs[r]
  BY <1>2, <1>4
<1>6. PICK c \in Nat : c = n0.pend - 1
  BY <1>3, <1>5 DEF ReqRecs
<1>7. PICK n \in ReqRecs : n = [n0 EXCEPT !.pend = c]
  BY DEF ReqRecs
<1>8. /\ n.st = n0.st /\ n.completed = n0.completed /\ n.blocked = n0.blocked
      /\ n.status_msg = n0.status_msg /\ n.from = n0.from /\ n.npend = n0.npend /\ n.ids = n0.ids
      /\ n.heard = n0.heard /\ n.seq = n0.seq
  BY <1>7 DEF ReqRecs
<1>9. PICK f \in Frames : f = Frame("data", r, "own") /\ f.k = "data" /\ f.r = r
  <2>1. r \in Requests \union Invokes \union {"none"}
    BY <1>4
  <2>. QED
    BY <2>1, NewFrame
<1>10. /\ reqs' = [reqs EXCEPT ![r].pend = @ - 1] /\ frames' = <<f>> \o Below
       /\ UNCHANGED <<ctxRequests, ctxPending, registered, pendingTimer, uloopCancelled, requestSeq, sockEof, rx, peer>>
  BY <1>3, <1>9 DEF DataCallbackReturns
<1>11. reqs' = [reqs EXCEPT ![r] = n]
  BY <1>2, <1>4, <1>5, <1>6, <1>7, <1>10
<1>12. reqs' \in [Requests -> ReqRecs] /\ reqs'[r] = n /\ \A s \in Requests : s # r => reqs'[s] = reqs[s]
  BY <1>2, <1>4, <1>11
<1>13. AllFine(reqs')
  <2>1. ReqFine(r, n0)
    BY <1>2, <1>4, <1>5 DEF AllFine
  <2>2. NotifyFine(n0) => NotifyFine(n)
    BY <1>8 DEF NotifyFine
  <2>3. ReqFine(r, n)
    BY <1>4, <1>5, <1>8, <2>1, <2>2 DEF ReqFine, Sent
  <2>. QED
    BY <1>2, <1>12, <2>3 DEF AllFine
<1>14. SentKept(reqs, reqs')
  BY <1>5, <1>8, <1>12 DEF SentKept, Sent
<1>15. frames' \in Seq(Frames) /\ Alike(frames', frames)
  BY <1>2, <1>3, <1>4, <1>9, <1>10, TopReplaced
<1>16. StackOk(frames') /\ frames' # <<>> /\ (NoSync(frames') <=> NoSync(frames)) /\ (Serving(frames') <=> Serving(frames))
  BY <1>2, <1>15, StackAlike, ServingAlike
<1>17. CallsOk(frames, reqs')
  <2>1. \A s \in Requests : reqs'[s].blocked = reqs[s].blocked /\ (Sync(s) /\ reqs[s].st = "active" => reqs'[s].st = "active")
    BY <1>5, <1>8, <1>12
  <2>. QED
    BY <1>2, <2>1, CallsLeft
<1>18. CallsOk(frames', reqs') /\ \A s : Waited(frames', s) <=> Waited(frames, s)
  BY <1>15, <1>17, CallsAlike
<1>19. ListOk(ctxRequests', frames', reqs')
  <2>1. \A s \in Range(ctxRequests) : reqs'[s].st = reqs[s].st /\ reqs'[s].status_msg = reqs[s].status_msg
    BY <1>2, <1>5, <1>8, <1>12, ListMembers
  <2>. QED
    BY <1>2, <1>10, <1>18, <2>1 DEF ListOk
<1>20. SeqsOk(reqs', requestSeq') /\ MsgsOk(rx', peer'.owes, reqs')
  BY <1>2, <1>10, <1>14, NumbersKept
<1>21. RequestsOk' /\ ReqTypes'
  BY <1>1, <1>10, <1>12, <1>13, <1>18, <1>19, <1>20 DEF RequestsOk, ReqTypes
<1>22. HandlersOk'
  BY <1>1, <1>10, <1>16 DEF HandlersOk
<1>23. CtxTypes'
  BY <1>1, <1>10, <1>15, <1>16 DEF CtxTypes
<1>. QED
  BY <1>21, <1>22, <1>23 DEF ReqInv

\* The last data callback of a request has returned: the request is blocked no longer.
LEMMA Unblocked ==
  ASSUME CtxTypes, ReqTypes, RequestsOk, Top.k = "data", ~(reqs[Top.r].pend > 0),
         NEW q, q = [reqs EXCEPT ![Top.r].blocked = FALSE]
  PROVE  /\ q \in [Requests -> ReqRecs] /\ AllFine(q) /\ SentKept(reqs, q)
         /\ CallsOk(Below, q) /\ ListOk(ctxRequests, Below, q)
         /\ ~q[Top.r].blocked /\ q[Top.r].status_msg = reqs[Top.r].status_msg
         /\ reqs[Top.r].status_msg => q[Top.r].st = "active"
<1>1. /\ reqs \in [Requests -> ReqRecs] /\ ctxRequests \in Seq(Requests)
      /\ frames \in Seq(Frames) /\ frames # <<>>
      /\ CallsOk(frames, reqs) /\ ListOk(ctxRequests, frames, reqs) /\ AllFine(reqs)
  BY DEF CtxTypes, ReqTypes, RequestsOk
<1>2. PICK r : r = Top.r
  OBVIOUS
<1>3. /\ Top = Head(frames) /\ Below = Tail(frames) /\ Top = frames[1] /\ Len(frames) \in Nat /\ Len(frames) > 0
      /\ r \in Requests /\ reqs[r].blocked /\ reqs[r].st \notin {"idle", "done"}
  BY <1>2, DataTop
<1>4. PICK n0 \in ReqRecs : n0 = reqs[r]
  BY <1>1, <1>3
<1>5. n0.pend = 0
  <2>1. n0.pend \in Nat
    BY DEF ReqRecs
  <2>2. ~(n0.pend > 0)
    BY <1>2, <1>4
  <2>. QED
    BY <2>1, <2>2
<1>6. PICK n \in ReqRecs : n = [n0 EXCEPT !.blocked = FALSE]
  BY DEF ReqRecs
<1>7. /\ n.st = n0.st /\ n.completed = n0.completed /\ n.blocked = FALSE /\ n.pend = n0.pend
      /\ n.status_msg = n0.status_msg /\ n.from = n0.from /\ n.npend = n0.npend /\ n.ids = n0.ids
      /\ n.heard = n0.heard /\ n.seq = n0.seq
  BY <1>6 DEF ReqRecs
<1>8. q = [reqs EXCEPT ![r] = n]
  BY <1>1, <1>2, <1>3, <1>4, <1>6
<1>9. q \in [Requests -> ReqRecs] /\ q[r] = n /\ \A s \in Requests : s # r => q[s] = reqs[s]
  BY <1>1, <1>3, <1>8
<1>10. ReqFine(r, n0)
  BY <1>1, <1>3, <1>4 DEF AllFine
<1>11. AllFine(q)
  <2>1. NotifyFine(n0) => NotifyFine(n)
    BY <1>7 DEF NotifyFine
  <2>2. ReqFine(r, n)
    BY <1>5, <1>7, <1>10, <2>1 DEF ReqFine, Sent
  <2>. QED
    BY <1>1, <1>9, <2>2 DEF AllFine
<1>12. SentKept(reqs, q)
  BY <1>4, <1>7, <1>9 DEF SentKept, Sent
<1>13. /\ CallsOk(Below, q)
       /\ \A s : Waited(frames, s) => Waited(Below, s)
  <2>1. \A i \in 1 .. Len(frames) : i # 1 /\ frames[i].k = "data" => q[frames[i].r].blocked
    <3>. SUFFICES ASSUME NEW i \in 1 .. Len(frames), i # 1, frames[i].k = "data"
                  PROVE  q[frames[i].r].blocked
      OBVIOUS
    <3>1. 1 \in 1 .. Len(frames) /\ frames[1].k = "data" /\ frames[1].r = r
      BY <1>2, <1>3
    <3>2. frames[i].r \in Requests /\ reqs[frames[i].r].blocked
      BY <1>1 DEF CallsOk
    <3>3. frames[i].r # r
      BY <1>1, <3>1 DEF CallsOk
    <3>. QED
      BY <1>9, <3>2, <3>3
  <2>2. \A s \in Requests : q[s].st = reqs[s].st
    BY <1>4, <1>7, <1>9
  <2>3. \A i \in 1 .. Len(frames) : i # 1 /\ frames[i].k = "sync" => q[frames[i].r].st = "active"
    BY <1>1, <2>2 DEF CallsOk
  <2>4. \A s \in Requests : q[s].blocked => reqs[s].blocked /\ ~(Head(frames).k = "data" /\ Head(frames).r = s)
    BY <1>2, <1>3, <1>7, <1>9
  <2>5. /\ CallsOk(Tail(frames), q)
        /\ \A s : Waited(frames, s) /\ ~(Head(frames).k = "sync" /\ Head(frames).r = s) => Waited(Tail(frames), s)
    BY <1>1, <2>1, <2>3, <2>4, CallReturns
  <2>. QED
    BY <1>3, <2>5
<1>14. ListOk(ctxRequests, Below, q)
  <2>1. \A s \in Range(ctxRequests) : q[s].st = reqs[s].st /\ q[s].status_msg = reqs[s].status_msg
    BY <1>1, <1>4, <1>7, <1>9, ListMembers
  <2>. QED
    BY <1>1, <1>13, <2>1 DEF ListOk
<1>15. reqs[r].status_msg => q[r].st = "active"
  BY <1>3, <1>4, <1>7, <1>9, <1>10 DEF ReqFine
<1>. QED
  BY <1>2, <1>4, <1>7, <1>9, <1>11, <1>12, <1>13, <1>14, <1>15

\* The last data callback of a request returns; the request completes if its status is there.
LEMMA LastData ==
  ASSUME ReqInv, DataCallbackReturns, ~(reqs[Top.r].pend > 0)
  PROVE  ReqInv'
<1>1. CtxTypes /\ ReqTypes /\ HandlersOk /\ RequestsOk
  BY DEF ReqInv
<1>2. /\ frames \in Seq(Frames) /\ frames # <<>> /\ StackOk(frames) /\ ctxRequests \in Seq(Requests)
      /\ SeqsOk(reqs, requestSeq) /\ MsgsOk(rx, peer.owes, reqs) /\ uloopCancelled \in BOOLEAN
  BY <1>1 DEF CtxTypes, ReqTypes, RequestsOk, HandlersOk
<1>3. PICK r : r = Top.r
  OBVIOUS
<1>4. Top.k = "data"
  BY DEF DataCallbackReturns
<1>5. r \in Requests /\ Top = Head(frames) /\ Below = Tail(frames)
  BY <1>1, <1>3, <1>4, DataTop
<1>6. PICK q1 : q1 = [reqs EXCEPT ![r].blocked = FALSE]
  OBVIOUS
<1>7. /\ q1 \in [Requests -> ReqRecs] /\ AllFine(q1) /\ SentKept(reqs, q1)
      /\ CallsOk(Below, q1) /\ ListOk(ctxRequests, Below, q1)
      /\ ~q1[r].blocked /\ q1[r].status_msg = reqs[r].status_msg
      /\ reqs[r].status_msg => q1[r].st = "active"
  BY <1>1, <1>3, <1>4, <1>6, Unblocked
<1>8. /\ Below \in Seq(Frames) /\ Below # <<>> /\ StackOk(Below)
      /\ Serving(frames) => Serving(Below)
      /\ NoSync(frames) => NoSync(Below)
  BY <1>2, <1>4, <1>5, StackPopped, ServingPopped
<1>9. PICK after : after = IF reqs[r].status_msg THEN ubus_req_complete_cb(q1, ctxRequests, Below, r)
                           ELSE [q |-> q1, ls |-> ctxRequests, fs |-> Below, cancel |-> FALSE]
  OBVIOUS
<1>10. /\ reqs' = after.q /\ frames' = after.fs /\ uloopCancelled' = (uloopCancelled \/ after.cancel)
       /\ UNCHANGED <<ctxRequests, ctxPending, registered, pendingTimer, requestSeq, sockEof, rx, peer>>
  BY <1>3, <1>6, <1>9 DEF DataCallbackReturns
<1>11. Ends(after, q1, Below) /\ after.ls = ctxRequests
  <2>1. CASE reqs[r].status_msg
    <3>1. after = ubus_req_complete_cb(q1, ctxRequests, Below, r)
      BY <1>9, <2>1
    <3>2. q1[r].status_msg /\ q1[r].st = "active"
      BY <1>7, <2>1
    <3>3. Ends(after, q1, Below)
      BY <1>2, <1>5, <1>7, <1>8, <3>1, <3>2, CompleteCalled
    <3>4. after.ls = ctxRequests
      BY <3>1 DEF ubus_req_complete_cb
    <3>. QED
      BY <3>3, <3>4
  <2>2. CASE ~reqs[r].status_msg
    <3>1. after = [q |-> q1, ls |-> ctxRequests, fs |-> Below, cancel |-> FALSE]
      BY <1>9, <2>2
    <3>2. after.q = q1 /\ after.ls = ctxRequests /\ after.fs = Below /\ after.cancel = FALSE
      BY <3>1
    <3>3. SentKept(q1, q1)
      BY DEF SentKept
    <3>4. Ends(after, q1, Below)
      BY <1>2, <1>7, <1>8, <3>2, <3>3 DEF Ends
    <3>. QED
      BY <3>2, <3>4
  <2>. QED
    BY <2>1, <2>2
<1>12. /\ after.q \in [Requests -> ReqRecs] /\ after.fs \in Seq(Frames) /\ after.cancel \in BOOLEAN
       /\ CallsOk(after.fs, after.q) /\ ListOk(ctxRequests, after.fs, after.q) /\ AllFine(after.q)
       /\ SentKept(q1, after.q)
  BY <1>11 DEF Ends
<1>13. SentKept(reqs, after.q)
  BY <1>7, <1>12 DEF SentKept
<1>14. SeqsOk(after.q, requestSeq) /\ MsgsOk(rx, peer.owes, after.q)
  BY <1>2, <1>13, NumbersKept
<1>15. RequestsOk' /\ ReqTypes'
  BY <1>1, <1>10, <1>12, <1>14 DEF RequestsOk, ReqTypes
<1>16. StackOk(after.fs) /\ after.fs # <<>> /\ (NoSync(after.fs) <=> NoSync(Below)) /\ (Serving(after.fs) <=> Serving(Below))
  BY <1>8, <1>11, EndsStack
<1>17. HandlersOk'
  BY <1>1, <1>8, <1>10, <1>16 DEF HandlersOk
<1>18. uloopCancelled' \in BOOLEAN
  BY <1>2, <1>10, <1>12
<1>19. CtxTypes'
  BY <1>1, <1>10, <1>12, <1>16, <1>18 DEF CtxTypes
<1>. QED
  BY <1>15, <1>17, <1>19 DEF ReqInv

\* A message to a request that was sent, or to an object, is put in the socket.
LEMMA ArrivalKeeps ==
  ASSUME ReqInv, NEW m \in Msgs, MsgFine(m, reqs), Arrives(m), peer' \in PeerStates,
         \A r \in Requests : peer'.owes[r] # <<>> => Sent(reqs[r])
  PROVE  ReqInv'
<1>1. CtxTypes /\ ReqTypes /\ HandlersOk /\ RequestsOk
  BY DEF ReqInv
<1>2. rx' = Append(rx, m) /\ rx \in Seq(Msgs)
      /\ UNCHANGED <<reqs, ctxRequests, ctxPending, frames, registered, pendingTimer, uloopCancelled, requestSeq, sockEof>>
  BY <1>1 DEF Arrives, CtxTypes
<1>3. /\ rx' \in Seq(Msgs) /\ Len(rx') = Len(rx) + 1 /\ Len(rx) \in Nat
      /\ \A i \in 1 .. Len(rx) : rx'[i] = rx[i]
      /\ rx'[Len(rx) + 1] = m
  BY <1>2, AppendProperties, LenProperties
<1>4. MsgsOk(rx', peer'.owes, reqs)
  <2>1. \A i \in 1 .. Len(rx) : MsgFine(rx[i], reqs)
    BY <1>1 DEF RequestsOk, MsgsOk
  <2>2. \A i \in 1 .. Len(rx') : i \in 1 .. Len(rx) \/ i = Len(rx) + 1
    BY <1>3
  <2>3. \A i \in 1 .. Len(rx') : MsgFine(rx'[i], reqs)
    BY <1>3, <2>1, <2>2
  <2>. QED
    BY <2>3 DEF MsgsOk
<1>5. RequestsOk'
  BY <1>1, <1>2, <1>4 DEF RequestsOk
<1>6. ReqTypes' /\ HandlersOk' /\ CtxTypes'
  BY <1>1, <1>2, <1>3 DEF ReqTypes, HandlersOk, CtxTypes
<1>. QED
  BY <1>5, <1>6 DEF ReqInv

\* Data or a status is sent for a request.
LEMMA AnswerKeeps ==
  ASSUME ReqInv, NEW r \in Requests, SendsData(r) \/ SendsStatus(r)
  PROVE  ReqInv'
<1>1. /\ reqs \in [Requests -> ReqRecs] /\ MsgsOk(rx, peer.owes, reqs) /\ peer \in PeerStates
      /\ reqs[r].seq \in Nat /\ peer.owes \in [Requests -> Seq(Peers)] /\ peer.data \in [Requests -> Nat]
  <2>1. reqs \in [Requests -> ReqRecs] /\ MsgsOk(rx, peer.owes, reqs) /\ peer \in PeerStates
    BY DEF ReqInv, ReqTypes, CtxTypes, RequestsOk
  <2>. QED
    BY <2>1 DEF ReqRecs, PeerStates
<1>2. peer.owes[r] # <<>>
  BY DEF SendsData, SendsStatus
<1>3. Sent(reqs[r]) /\ \A s \in Requests : peer.owes[s] # <<>> => Sent(reqs[s])
  BY <1>1, <1>2 DEF MsgsOk
<1>4. ASSUME NEW t \in {"DATA", "STATUS"}, NEW from \in Peers, NEW subs \in Seq(Subscribers)
      PROVE  Msg(t, r, from, subs) \in Msgs /\ MsgFine(Msg(t, r, from, subs), reqs)
  <2>1. PICK m : m = [t |-> t, req |-> r, seq |-> reqs[r].seq, peer |-> from, subs |-> subs]
    OBVIOUS
  <2>2. m.t = t /\ m.req = r /\ m.seq = reqs[r].seq
    BY <2>1
  <2>3. m \in Msgs
    BY <1>1, <2>1 DEF Msgs
  <2>4. MsgFine(m, reqs)
    BY <1>3, <2>2 DEF MsgFine
  <2>. QED
    BY <2>1, <2>3, <2>4 DEF Msg
<1>5. CASE SendsData(r)
  <2>1. <<>> \in Seq(Subscribers) /\ "obj" \in Peers
    BY DEF Peers
  <2>2. PICK m \in Msgs : m = Msg("DATA", r, "obj", <<>>) /\ MsgFine(m, reqs)
    BY <1>4, <2>1
  <2>3. Arrives(m)
    BY <1>5, <2>2 DEF SendsData
  <2>4. PICK d \in [Requests -> Nat] : d = [peer.data EXCEPT ![r] = @ - 1]
    <3>1. PICK x \in Nat : x = peer.data[r] - 1
      BY <1>1, <1>5 DEF SendsData
    <3>2. [peer.data EXCEPT ![r] = x] \in [Requests -> Nat]
      BY <1>1
    <3>. QED
      BY <3>1, <3>2
  <2>5. peer' = [peer EXCEPT !.data = d]
    BY <1>5, <2>4 DEF SendsData
  <2>6. peer' \in PeerStates /\ peer'.owes = peer.owes
    BY <1>1, <2>5 DEF PeerStates
  <2>. QED
    BY <1>3, <2>2, <2>3, <2>6, ArrivalKeeps
<1>6. CASE SendsStatus(r)
  <2>1. PICK i \in DOMAIN peer.owes[r], subs \in NotifyTo :
          /\ Arrives(Msg("STATUS", r, peer.owes[r][i], subs))
          /\ peer' = [peer EXCEPT !.owes[r] = RemoveAt(@, i) \o subs]
    BY <1>6 DEF SendsStatus
  <2>2. PICK o \in Seq(Peers) : o = peer.owes[r]
    BY <1>1
  <2>3. i \in 1 .. Len(o) /\ o[i] \in Peers
    BY <2>1, <2>2, LenProperties, ElementOfSeq
  <2>4. subs \in Seq(Subscribers) /\ subs \in Seq(Peers)
    <3>1. subs \in Seq(Range(subs)) /\ Range(subs) \subseteq Subscribers /\ Range(subs) \subseteq Peers
      BY <2>1, ReqAssumption DEF Subscribers, Peers
    <3>. QED
      BY <3>1, SeqMonotonic
  <2>5. PICK m \in Msgs : m = Msg("STATUS", r, o[i], subs) /\ MsgFine(m, reqs)
    BY <1>4, <2>3, <2>4
  <2>6. Arrives(m)
    BY <2>1, <2>2, <2>5
  <2>7. PICK o2 \in Seq(Peers) : o2 = RemoveAt(o, i) \o subs
    <3>1. RemoveAt(o, i) \in Seq(Peers)
      BY <2>3, PlaceOut
    <3>. QED
      BY <2>4, <3>1, ConcatProperties
  <2>8. PICK os \in [Requests -> Seq(Peers)] : os = [peer.owes EXCEPT ![r] = o2]
    BY <1>1
  <2>9. peer' = [peer EXCEPT !.owes = os]
    BY <2>1, <2>2, <2>7, <2>8
  <2>10. peer' \in PeerStates /\ peer'.owes = os
    BY <1>1, <2>9 DEF PeerStates
  <2>11. \A s \in Requests : os[s] # <<>> => Sent(reqs[s])
    BY <1>1, <1>3, <2>8
  <2>. QED
    BY <2>5, <2>6, <2>10, <2>11, ArrivalKeeps
<1>. QED
  BY <1>5, <1>6

\* A message is sent for an object of the program.
LEMMA CallKeeps ==
  ASSUME ReqInv, NEW o \in Invokes, SendsInvoke(o)
  PROVE  ReqInv'
<1>1. peer \in PeerStates /\ MsgsOk(rx, peer.owes, reqs)
  BY DEF ReqInv, CtxTypes, RequestsOk
<1>2. PICK m : m = [t |-> "INVOKE", req |-> o, seq |-> 0, peer |-> "obj", subs |-> <<>>]
  OBVIOUS
<1>3. m \in Msgs /\ m.t = "INVOKE"
  <2>1. "obj" \in Peers /\ o \in Requests \union Invokes /\ <<>> \in Seq(Subscribers)
    BY DEF Peers
  <2>. QED
    BY <1>2, <2>1 DEF Msgs
<1>4. MsgFine(m, reqs) /\ Arrives(m)
  BY <1>2, <1>3 DEF MsgFine, SendsInvoke
<1>5. peer' \in PeerStates /\ peer'.owes = peer.owes
  <2>1. PICK v \in SUBSET Invokes : v = peer.invokes \ {o}
    BY <1>1 DEF PeerStates
  <2>2. peer' = [peer EXCEPT !.invokes = v]
    BY <2>1 DEF SendsInvoke
  <2>. QED
    BY <1>1, <2>2 DEF PeerStates
<1>. QED
  BY <1>1, <1>3, <1>4, <1>5, ArrivalKeeps DEF MsgsOk

\* The daemon goes away.
LEMMA DeathKeeps ==
  ASSUME ReqInv, Dies
  PROVE  ReqInv'
<1>1. CtxTypes /\ ReqTypes /\ HandlersOk /\ RequestsOk
  BY DEF ReqInv
<1>2. peer' = [peer EXCEPT !.dead = TRUE]
      /\ UNCHANGED <<reqs, ctxRequests, ctxPending, frames, registered, pendingTimer, uloopCancelled, requestSeq, sockEof, rx>>
  BY DEF Dies
<1>3. peer' \in PeerStates /\ peer'.owes = peer.owes
  BY <1>1, <1>2 DEF CtxTypes, PeerStates
<1>4. RequestsOk'
  BY <1>1, <1>2, <1>3 DEF RequestsOk
<1>5. ReqTypes' /\ HandlersOk' /\ CtxTypes'
  BY <1>1, <1>2, <1>3 DEF ReqTypes, HandlersOk, CtxTypes
<1>. QED
  BY <1>4, <1>5 DEF ReqInv

\* A context that has sent nothing yet.
LEMMA ReqStart == ReqInit => ReqInv
<1>. SUFFICES ASSUME ReqInit PROVE ReqInv
  OBVIOUS
<1>1. NewReq \in ReqRecs
  BY DEF NewReq, ReqRecs
<1>2. /\ NewReq.st = "idle" /\ NewReq.blocked = FALSE /\ NewReq.status_msg = FALSE /\ NewReq.from = "none"
      /\ NewReq.pend = 0 /\ NewReq.ids = <<>> /\ NewReq.heard = 0 /\ NewReq.completed = 0
  BY DEF NewReq
<1>3. reqs \in [Requests -> ReqRecs] /\ \A r \in Requests : reqs[r] = NewReq
  BY <1>1 DEF ReqInit
<1>4. PICK f \in Frames : f = Frame("main", "none", "none") /\ f.k = "main"
  BY NewFrame
<1>5. frames = <<f>> /\ frames \in Seq(Frames) /\ Len(frames) = 1 /\ frames[1] = f /\ frames # <<>>
  BY <1>4 DEF ReqInit
<1>6. \A i \in 1 .. Len(frames) : i = 1 /\ frames[i].k = "main"
  BY <1>4, <1>5
<1>7. StackOk(frames) /\ NoSync(frames)
  <2>1. \A i \in 1 .. Len(frames) : frames[i].k # "obj" /\ frames[i].k # "ctxPending" /\ frames[i].k # "sync"
    BY <1>6
  <2>. QED
    BY <1>5, <1>6, <2>1 DEF StackOk, NoSync
<1>8. peer \in PeerStates /\ \A r \in Requests : peer.owes[r] = <<>>
  <2>1. [r \in Requests |-> MaxReplies] \in [Requests -> Nat]
    BY ReqAssumption
  <2>2. [r \in Requests |-> <<>>] \in [Requests -> Seq(Peers)]
    OBVIOUS
  <2>3. peer = [dead |-> FALSE, invokes |-> Invokes, data |-> [r \in Requests |-> MaxReplies],
                owes |-> [r \in Requests |-> <<>>]]
    BY DEF ReqInit
  <2>4. peer \in PeerStates
    BY <2>1, <2>2, <2>3 DEF PeerStates
  <2>. QED
    BY <2>3, <2>4
<1>9. CtxTypes
  <2>1. ctxPending \in Seq(Requests \union Invokes) /\ rx \in Seq(Msgs)
    <3>1. ctxPending = <<>> /\ rx = <<>>
      BY DEF ReqInit
    <3>. QED
      BY <3>1
  <2>2. registered \in BOOLEAN /\ pendingTimer \in BOOLEAN /\ uloopCancelled \in BOOLEAN /\ sockEof \in BOOLEAN
    BY DEF ReqInit
  <2>. QED
    BY <1>5, <1>8, <2>1, <2>2 DEF CtxTypes
<1>10. ReqTypes
  BY <1>3 DEF ReqInit, ReqTypes
<1>11. HandlersOk
  BY <1>7 DEF ReqInit, HandlersOk
<1>12. AllFine(reqs)
  <2>1. ~Sent(NewReq)
    BY <1>2 DEF Sent
  <2>2. \A r \in Requests : ReqFine(r, NewReq)
    BY <1>2, <2>1 DEF ReqFine
  <2>. QED
    BY <1>3, <2>2 DEF AllFine
<1>13. CallsOk(frames, reqs)
  <2>1. \A i \in 1 .. Len(frames) : frames[i].k # "sync" /\ frames[i].k # "data"
    BY <1>6
  <2>. QED
    BY <1>2, <1>3, <2>1 DEF CallsOk
<1>14. ListOk(ctxRequests, frames, reqs)
  <2>1. ctxRequests = <<>> /\ ctxRequests \in Seq(Requests)
    BY DEF ReqInit
  <2>2. Range(ctxRequests) = {} /\ Len(ctxRequests) = 0
    BY <2>1, ListMembers
  <2>3. Once(ctxRequests)
    BY <2>2 DEF Once
  <2>. QED
    BY <2>2, <2>3 DEF ListOk
<1>15. \A r \in Requests : ~Sent(reqs[r])
  BY <1>2, <1>3 DEF Sent
<1>16. SeqsOk(reqs, requestSeq) /\ requestSeq <= MaxStarts
  BY <1>15, ReqAssumption DEF SeqsOk, ReqInit
<1>17. MsgsOk(rx, peer.owes, reqs)
  <2>1. Len(rx) = 0
    BY DEF ReqInit
  <2>. QED
    BY <1>8, <2>1 DEF MsgsOk
<1>18. RequestsOk
  BY <1>12, <1>13, <1>14, <1>16, <1>17 DEF RequestsOk
<1>. QED
  BY <1>9, <1>10, <1>11, <1>18 DEF ReqInv

\* Every step of the context and of the other side keeps the invariant.
LEMMA ReqStep == ReqInv /\ [ReqNext]_reqVars => ReqInv'
<1>. SUFFICES ASSUME ReqInv, [ReqNext]_reqVars PROVE ReqInv'
  OBVIOUS
<1>1. CASE \E r \in Requests : ubus_invoke(r) \/ ubus_invoke_async(r) \/ ubus_abort_request(r)
  BY <1>1, InvokeKeeps, AsyncKeeps, AbortKeeps
<1>2. CASE \E r \in Requests : SendsData(r) \/ SendsStatus(r)
  BY <1>2, AnswerKeeps
<1>3. CASE \E m \in Invokes : SendsInvoke(m)
  BY <1>3, CallKeeps
<1>4. CASE ReadReqMsg \/ ReadObjMsg \/ EndReading \/ CallbackReturns
  BY <1>4, ReadReqKeeps, ReadObjKeeps, LoopLeft
<1>5. CASE SocketEvent \/ PendingTimer \/ PollData \/ ServePending
  BY <1>5, LoopEntered, ServeKeeps
<1>6. CASE RequestTimesOut \/ RequestReturns
  BY <1>6, TimeOutKeeps, ReturnKeeps
<1>7. CASE DataCallbackReturns
  BY <1>7, NextData, LastData
<1>8. CASE Dies
  BY <1>8, DeathKeeps
<1>9. CASE UNCHANGED reqVars
  BY <1>9 DEF reqVars, ReqInv, CtxTypes, ReqTypes, HandlersOk, RequestsOk
<1>. QED
  BY <1>1, <1>2, <1>3, <1>4, <1>5, <1>6, <1>7, <1>8, <1>9 DEF ReqNext

\* However requests are nested, time out, are aborted and are answered, ctx->requests holds
\* only those whose memory is still there, each is completed once, by its own status and
\* after its last data, a notification after all its subscribers.
THEOREM RequestsAlwaysEndRight == ReqSpec => []RequestsEndRight
<1>1. ReqInv => RequestsEndRight
  <2>. SUFFICES ASSUME ReqInv PROVE RequestsEndRight
    OBVIOUS
  <2>1. /\ reqs \in [Requests -> ReqRecs] /\ ctxRequests \in Seq(Requests) /\ frames \in Seq(Frames)
        /\ CallsOk(frames, reqs) /\ ListOk(ctxRequests, frames, reqs) /\ AllFine(reqs)
    BY DEF ReqInv, CtxTypes, ReqTypes, RequestsOk
  <2>2. DOMAIN frames = 1 .. Len(frames)
    BY <2>1, LenProperties
  <2>3. ListedAlive
    BY <2>1, <2>2 DEF ListedAlive, ListOk, Waited, Calls
  <2>4. CompletionLast
    <3>. SUFFICES ASSUME NEW r \in Requests
                  PROVE  /\ reqs[r].completed <= 1
                         /\ reqs[r].completed = 1 =>
                              /\ reqs[r].pend = 0 /\ ~reqs[r].blocked
                              /\ \A i \in DOMAIN frames : ~(frames[i].k = "data" /\ frames[i].r = r)
      BY DEF CompletionLast
    <3>1. ReqFine(r, reqs[r])
      BY <2>1 DEF AllFine
    <3>2. reqs[r].completed = IF reqs[r].st = "done" THEN 1 ELSE 0
      BY <3>1 DEF ReqFine
    <3>3. reqs[r].st = "done" => reqs[r].pend = 0 /\ ~reqs[r].blocked
      BY <3>1 DEF ReqFine
    <3>4. ~reqs[r].blocked => \A i \in DOMAIN frames : ~(frames[i].k = "data" /\ frames[i].r = r)
      BY <2>1, <2>2 DEF CallsOk
    <3>. QED
      BY <3>2, <3>3, <3>4
  <2>5. StatusIsMine
    BY <2>1 DEF StatusIsMine, AllFine, ReqFine
  <2>6. NotifyWaitsForAll
    <3>. SUFFICES ASSUME NEW r \in Requests, ModeOf[r] = "notify", reqs[r].completed = 1
                  PROVE  reqs[r].heard = 1 + Len(reqs[r].ids)
      BY DEF NotifyWaitsForAll
    <3>1. PICK n \in ReqRecs : n = reqs[r]
      BY <2>1
    <3>2. ReqFine(r, n)
      BY <2>1, <3>1 DEF AllFine
    <3>3. n.st = "done"
      BY <3>1, <3>2 DEF ReqFine
    <3>4. NotifyFine(n) /\ n.status_msg
      BY <3>2, <3>3 DEF ReqFine, Sent
    <3>5. n.npend = {} /\ n.heard + Cardinality(n.npend) = 1 + Len(n.ids)
      BY <3>4 DEF NotifyFine
    <3>6. Cardinality(n.npend) = 0
      BY <3>5, FS_EmptySet
    <3>7. n.heard \in Nat
      BY DEF ReqRecs
    <3>. QED
      BY <3>1, <3>5, <3>6, <3>7
  <2>. QED
    BY <2>3, <2>4, <2>5, <2>6 DEF RequestsEndRight
<1>. QED
  BY <1>1, ReqStart, ReqStep, PTL DEF ReqSpec

\* A handler of the program's objects is never called from within a synchronous request,
\* its message is never overwritten by a request it makes, and what was queued during a
\* request has the timer armed when the program is back in its loop.
THEOREM HandlersAlwaysServed == ReqSpec => []HandlersServed
<1>1. ReqInv => HandlersServed
  <2>. SUFFICES ASSUME ReqInv PROVE HandlersServed
    OBVIOUS
  <2>1. /\ frames \in Seq(Frames) /\ frames # <<>> /\ StackOk(frames)
        /\ ctxPending # <<>> => pendingTimer \/ Serving(frames)
    BY DEF ReqInv, CtxTypes, HandlersOk
  <2>2. DOMAIN frames = 1 .. Len(frames) /\ Len(frames) \in Nat
    BY <2>1, LenProperties
  <2>3. HandlersOutsideRequests
    <3>. SUFFICES ASSUME NEW i \in DOMAIN frames, frames[i].k = "obj", NEW j \in i .. Len(frames)
                  PROVE  frames[j].k # "sync"
      BY DEF HandlersOutsideRequests
    <3>1. i \in 1 .. Len(frames) /\ j \in 1 .. Len(frames) /\ i <= j
      BY <2>2
    <3>. QED
      BY <2>1, <3>1 DEF StackOk
  <2>4. HandlerDataIntact
    BY <2>1, <2>2 DEF HandlerDataIntact, StackOk
  <2>5. QueuedIsServed
    <3>. SUFFICES ASSUME ctxPending # <<>>, Len(frames) = 1, ~pendingTimer PROVE FALSE
      BY DEF QueuedIsServed
    <3>1. PICK i \in 1 .. Len(frames) : frames[i].k = "ctxPending"
      BY <2>1 DEF Serving
    <3>2. i = Len(frames)
      OBVIOUS
    <3>. QED
      BY <2>1, <3>1, <3>2 DEF StackOk
  <2>. QED
    BY <2>3, <2>4, <2>5 DEF HandlersServed
<1>. QED
  BY <1>1, ReqStart, ReqStep, PTL DEF ReqSpec

-----------------------------------------------------------------------------
(***************************************************************************)
(* LibubusConn, for any objects and for a daemon that stops and starts any *)
(* number of times: the program always has a way back, and once it is      *)
(* connected the library and the daemon agree on its objects.              *)
(***************************************************************************)

ConnTypeOK ==
  /\ cpc \in {"uloop", "push", "await"}
  /\ sockFd \in {"none", "open", "dead", "stale"}
  /\ sockReg \in BOOLEAN /\ connTimer \in {"off", "connect", "reconnect"}
  /\ ctxObjects \subseteq OurObjects /\ refused \subseteq OurObjects
  /\ toPush \in Seq(OurObjects)

\* The objects still to be pushed out.
Waiting == {toPush[i] : i \in 1 .. Len(toPush)}

\* A timer runs exactly while the program has no connection; an object is
\* pushed out only over a connection.
LinkInv ==
  /\ connTimer # "off" => cpc = "uloop" /\ ~sockReg /\ sockFd # "open"
  /\ cpc = "uloop" => (sockReg \/ connTimer # "off") /\ toPush = <<>>
  /\ cpc # "uloop" => ~sockReg
  /\ cpc = "await" => toPush # <<>>

\* The library and the daemon agree while the connection holds, and the daemon
\* has nothing of the program otherwise.
BusInv ==
  /\ sockFd = "open" => daemonUp /\ onBus = ctxObjects
  /\ sockFd # "open" => onBus = {}

\* Every object is in the tree, still to be pushed out, or was removed or refused;
\* no object is in two of these places but for an earlier refusal.
PlaceInv ==
  /\ \A i, j \in 1 .. Len(toPush) : toPush[i] = toPush[j] => i = j
  /\ ctxObjects \intersect refused = {}
  /\ ctxObjects \intersect Waiting = {}
  /\ IF connTimer = "connect" THEN ctxObjects = {}
     ELSE OurObjects = ctxObjects \union refused \union Waiting

\* No object is without its type: a type whose id the library has when an object of it
\* is to be pushed out was pushed out over this connection.
TypeInv ==
  /\ untyped = {}
  /\ connTimer = "connect" => typeIds = {}
  /\ cpc # "uloop" /\ sockFd = "open" =>
       \A o \in Waiting : TypeOf[o] \in typeIds => TypeOf[o] \in TypesOf(onBus)

ConnInv == ConnTypeOK /\ LinkInv /\ BusInv /\ PlaceInv /\ TypeInv

-----------------------------------------------------------------------------
\* What taking the head off does to a list without repetitions.
LEMMA HeadTaken ==
  ASSUME NEW S, NEW s \in Seq(S), s # <<>>,
         \A i, j \in 1 .. Len(s) : s[i] = s[j] => i = j
  PROVE  /\ Head(s) \in S /\ Tail(s) \in Seq(S)
         /\ \A i, j \in 1 .. Len(Tail(s)) : Tail(s)[i] = Tail(s)[j] => i = j
         /\ {s[i] : i \in 1 .. Len(s)}
              = {Head(s)} \union {Tail(s)[i] : i \in 1 .. Len(Tail(s))}
         /\ Head(s) \notin {Tail(s)[i] : i \in 1 .. Len(Tail(s))}
<1>1. /\ Len(s) \in Nat /\ Len(s) > 0 /\ Head(s) = s[1] /\ Head(s) \in S
      /\ Tail(s) \in Seq(S) /\ Len(Tail(s)) = Len(s) - 1
      /\ \A i \in 1 .. Len(s) - 1 : Tail(s)[i] = s[i + 1]
  <2>1. Len(s) \in Nat /\ Len(s) > 0 /\ Head(s) = s[1]
    BY EmptySeq, LenProperties
  <2>2. /\ Head(s) \in S /\ Tail(s) \in Seq(S) /\ Len(Tail(s)) = Len(s) - 1
        /\ \A i \in 1 .. Len(Tail(s)) : Tail(s)[i] = s[i + 1]
    BY HeadTailProperties
  <2> QED
    BY <2>1, <2>2
<1>2. PICK t : t = Tail(s)
  OBVIOUS
<1>3. PICK n \in Nat : n = Len(s) - 1
  <2>1. Len(s) - 1 \in Nat
    BY <1>1
  <2> QED
    BY <2>1
<1>4. /\ t \in Seq(S) /\ Len(t) = n /\ Len(s) = n + 1
      /\ \A i \in 1 .. n : t[i] = s[i + 1]
  BY <1>1, <1>2, <1>3
<1>5. \A i, j \in 1 .. n : t[i] = t[j] => i = j
  <2> SUFFICES ASSUME NEW i \in 1 .. n, NEW j \in 1 .. n, t[i] = t[j] PROVE i = j
    OBVIOUS
  <2>1. i + 1 \in 1 .. Len(s) /\ j + 1 \in 1 .. Len(s) /\ s[i + 1] = s[j + 1]
    BY <1>4
  <2>2. i + 1 = j + 1
    BY <2>1
  <2> QED
    BY <2>2
<1>6. {s[i] : i \in 1 .. n + 1} = {s[1]} \union {t[i] : i \in 1 .. n}
  <2>1. ASSUME NEW i \in 1 .. n + 1 PROVE s[i] \in {s[1]} \union {t[k] : k \in 1 .. n}
    <3>1. CASE i = 1
      BY <3>1
    <3>2. CASE i # 1
      <4>1. PICK k \in 1 .. n : i = k + 1
        <5>1. i - 1 \in 1 .. n /\ i = (i - 1) + 1
          BY <3>2
        <5> QED
          BY <5>1
      <4>2. s[i] = t[k]
        BY <1>4, <4>1
      <4> QED
        BY <4>2
    <3> QED
      BY <3>1, <3>2
  <2>2. ASSUME NEW k \in 1 .. n PROVE t[k] \in {s[i] : i \in 1 .. n + 1}
    <3>1. k + 1 \in 1 .. n + 1 /\ t[k] = s[k + 1]
      BY <1>4
    <3> QED
      BY <3>1
  <2>3. 1 \in 1 .. n + 1
    OBVIOUS
  <2> QED
    BY <2>1, <2>2, <2>3
<1>7. ASSUME NEW k \in 1 .. n PROVE t[k] # s[1]
  <2>1. k + 1 \in 1 .. Len(s) /\ 1 \in 1 .. Len(s) /\ t[k] = s[k + 1] /\ k + 1 # 1
    BY <1>4
  <2> QED
    BY <2>1
<1> QED
  BY <1>1, <1>2, <1>4, <1>5, <1>6, <1>7

-----------------------------------------------------------------------------
\* The program starts without a connection and with a timer to get one.
LEMMA ConnInitInv == ConnInit => ConnInv
<1> SUFFICES ASSUME ConnInit PROVE ConnInv
  OBVIOUS
<1> USE DEF ConnInit
<1>1. toPush \in Seq(OurObjects) /\ Len(toPush) = 0 /\ 1 .. Len(toPush) = {}
  OBVIOUS
<1>2. ConnTypeOK
  BY <1>1 DEF ConnTypeOK
<1>3. LinkInv /\ BusInv
  BY DEF LinkInv, BusInv
<1>4. PlaceInv /\ TypeInv
  BY <1>1 DEF PlaceInv, TypeInv
<1> QED
  BY <1>2, <1>3, <1>4 DEF ConnInv

\* A connection that was made: the objects in objs are listed for pushing out, the
\* tree is emptied.
LEMMA ConnectedKeeps ==
  ASSUME ConnInv, cpc = "uloop", connTimer # "off",
         NEW objs \in SUBSET OurObjects, Connected(objs), ctxObjects' = {},
         OurObjects = objs \union refused,
         typeIds' \intersect TypesOf(objs) = {}
  PROVE  ConnInv'
<1>0. /\ daemonUp' = daemonUp /\ daemonUp /\ onBus' = onBus /\ refused' = refused
      /\ sockFd' = "open" /\ sockReg' = FALSE /\ connTimer' = "off"
      /\ cpc' = "push" /\ toPush' = SetToSeq(objs)
  BY DEF Connected
<1>1. IsFiniteSet(objs)
  BY ConnAssumption, FS_Subset
<1>2. /\ toPush' \in Seq(objs)
      /\ \A i, j \in 1 .. Len(toPush') : toPush'[i] = toPush'[j] => i = j
      /\ objs = Waiting'
  BY <1>0, <1>1, SetListed DEF Waiting
<1>3. toPush' \in Seq(OurObjects)
  BY <1>2
<1>4. onBus = {}
  BY DEF ConnInv, LinkInv, BusInv
<1>5. ConnTypeOK'
  BY <1>0, <1>3 DEF ConnInv, ConnTypeOK
<1>6. LinkInv' /\ BusInv'
  BY <1>0, <1>4 DEF LinkInv, BusInv
<1>7. PlaceInv'
  BY <1>0, <1>2 DEF PlaceInv
<1>8. TypeInv'
  <2>1. untyped' = {}
    BY DEF Connected, ConnInv, TypeInv
  <2>2. \A o \in objs : TypeOf[o] \notin typeIds'
    BY DEF TypesOf
  <2> QED
    BY <1>0, <1>2, <2>1, <2>2 DEF TypeInv
<1> QED
  BY <1>5, <1>6, <1>7, <1>8 DEF ConnInv

\* A connection that failed leaves the timer running.
LEMMA FailedKeeps ==
  ASSUME ConnInv, cpc = "uloop", connTimer # "off", ConnectFails(connTimer)
  PROVE  ConnInv'
<1>0. /\ sockFd' \in {"stale", "none"} /\ onBus' = {} /\ sockReg' = FALSE
      /\ connTimer' = connTimer /\ untyped' = {}
      /\ UNCHANGED <<cpc, ctxObjects, toPush, refused, typeIds>>
  BY DEF ConnectFails
<1>1. ConnTypeOK' /\ LinkInv' /\ BusInv'
  BY <1>0 DEF ConnInv, ConnTypeOK, LinkInv, BusInv
<1>2. PlaceInv'
  BY <1>0 DEF ConnInv, PlaceInv, Waiting
<1>3. TypeInv'
  BY <1>0 DEF ConnInv, TypeInv
<1> QED
  BY <1>1, <1>2, <1>3 DEF ConnInv

\* The head of the list leaves it: it is in the tree and on the bus, or refused.
LEMMA PushKeeps ==
  ASSUME ConnInv, AddNotSent \/ AddAnswered
  PROVE  ConnInv'
<1> DEFINE o == Head(toPush)
<1>0. /\ cpc # "uloop" /\ toPush # <<>> /\ toPush' = Tail(toPush)
      /\ cpc' = "push" /\ connTimer = "off"
      /\ UNCHANGED <<sockFd, sockReg, connTimer, daemonUp>>
  BY DEF AddNotSent, AddAnswered, ConnInv, ConnTypeOK, LinkInv
<1>1. /\ o \in OurObjects /\ Tail(toPush) \in Seq(OurObjects)
      /\ \A i, j \in 1 .. Len(Tail(toPush)) : Tail(toPush)[i] = Tail(toPush)[j] => i = j
      /\ Waiting = {o} \union Waiting' /\ o \notin Waiting'
  <2>1. /\ toPush \in Seq(OurObjects)
        /\ \A i, j \in 1 .. Len(toPush) : toPush[i] = toPush[j] => i = j
    BY DEF ConnInv, ConnTypeOK, PlaceInv
  <2>2. PICK s : s = toPush
    OBVIOUS
  <2>s. s \in Seq(OurObjects)
    BY <2>1, <2>2
  <2>e. s # <<>>
    BY <1>0, <2>2
  <2>i. \A i, j \in 1 .. Len(s) : s[i] = s[j] => i = j
    BY <2>1, <2>2
  <2>3. /\ Head(s) \in OurObjects /\ Tail(s) \in Seq(OurObjects)
        /\ \A i, j \in 1 .. Len(Tail(s)) : Tail(s)[i] = Tail(s)[j] => i = j
        /\ {s[i] : i \in 1 .. Len(s)}
             = {Head(s)} \union {Tail(s)[i] : i \in 1 .. Len(Tail(s))}
        /\ Head(s) \notin {Tail(s)[i] : i \in 1 .. Len(Tail(s))}
    BY <2>s, <2>e, <2>i, HeadTaken, Zenon
  <2>4. Waiting' = {Tail(s)[i] : i \in 1 .. Len(Tail(s))}
    BY <1>0, <2>2 DEF Waiting
  <2>5. Waiting = {s[i] : i \in 1 .. Len(s)}
    BY <2>2 DEF Waiting
  <2> QED
    BY <2>2, <2>3, <2>4, <2>5
<1>2. o \notin ctxObjects
  BY <1>1 DEF ConnInv, PlaceInv
<1>3. \/ /\ refused' = refused \union {o} /\ ctxObjects' = ctxObjects /\ onBus' = onBus
      \/ /\ refused' = refused \ {o} /\ sockFd = "open"
         /\ onBus' = onBus \union {o} /\ ctxObjects' = ctxObjects \union {o}
  BY DEF AddNotSent, AddAnswered
<1> HIDE DEF o
<1>4. ConnTypeOK'
  BY <1>0, <1>1, <1>3 DEF ConnInv, ConnTypeOK
<1>5. LinkInv'
  BY <1>0 DEF ConnInv, LinkInv
<1>6. BusInv'
  BY <1>0, <1>3 DEF ConnInv, BusInv
<1>7. PlaceInv'
  <2>1. /\ ctxObjects \intersect refused = {} /\ ctxObjects \intersect Waiting = {}
        /\ OurObjects = ctxObjects \union refused \union Waiting
    BY <1>0 DEF ConnInv, PlaceInv
  <2>2. ctxObjects' \intersect refused' = {} /\ ctxObjects' \intersect Waiting' = {}
    BY <1>1, <1>2, <1>3, <2>1
  <2>3. OurObjects = ctxObjects' \union refused' \union Waiting'
    BY <1>1, <1>3, <2>1
  <2> QED
    BY <1>0, <1>1, <2>2, <2>3 DEF PlaceInv
<1>8. TypeInv'
  <2>1. untyped = {} /\ \A x \in Waiting' : x \in Waiting
    BY <1>1 DEF ConnInv, TypeInv
  <2>2. CASE typeIds' = typeIds /\ onBus' = onBus /\ untyped' = untyped
    BY <1>0, <2>1, <2>2 DEF ConnInv, TypeInv
  <2>3. CASE AddAnswered /\ o \notin takenPaths
    <3>1. sockFd = "open" /\ \A x \in Waiting : TypeOf[x] \in typeIds => TypeOf[x] \in TypesOf(onBus)
      BY <1>0, <2>3 DEF AddAnswered, ConnInv, TypeInv
    <3>2. TypeOf[o] \in typeIds => TypeOf[o] \in TypesOf(onBus \ untyped)
      <4>1. onBus \ untyped = onBus
        BY <2>1
      <4> QED
        BY <1>1, <3>1, <4>1
    <3>3. /\ onBus' = onBus \union {o} /\ typeIds' = typeIds \union {TypeOf[o]}
          /\ untyped' = {}
      BY <2>1, <2>3, <3>2 DEF AddAnswered, o
    <3>4. TypesOf(onBus') = TypesOf(onBus) \union {TypeOf[o]}
      BY <3>3 DEF TypesOf
    <3>5. \A x \in Waiting' : TypeOf[x] \in typeIds' => TypeOf[x] \in TypesOf(onBus')
      BY <2>1, <3>1, <3>3, <3>4
    <3> QED
      BY <1>0, <3>3, <3>5 DEF TypeInv, TypesOf
  <2> QED
    BY <2>2, <2>3 DEF AddNotSent, AddAnswered, o
<1> QED
  BY <1>4, <1>5, <1>6, <1>7, <1>8 DEF ConnInv

\* The other steps move no object from one place to another.
LEMMA OtherKeeps ==
  ASSUME ConnInv,
         AddSent \/ Pushed \/ ConnectionLost \/ DaemonStops \/ DaemonStarts
           \/ \E o \in OurObjects : PathTakenByOther(o)
  PROVE  ConnInv'
<1>0. UNCHANGED <<ctxObjects, toPush, refused, typeIds>>
  BY DEF AddSent, Pushed, ConnectionLost, DaemonStops, DaemonStarts, PathTakenByOther
<1>1. ConnTypeOK'
  BY <1>0 DEF ConnInv, ConnTypeOK, AddSent, Pushed, ConnectionLost, DaemonStops, DaemonStarts,
              PathTakenByOther, ubus_auto_disconnect_cb
<1>2. LinkInv'
  BY <1>0 DEF ConnInv, ConnTypeOK, LinkInv, AddSent, Pushed, ConnectionLost, DaemonStops,
              DaemonStarts, PathTakenByOther, ubus_auto_disconnect_cb
<1>3. BusInv'
  BY <1>0 DEF ConnInv, ConnTypeOK, BusInv, AddSent, Pushed, ConnectionLost, DaemonStops,
              DaemonStarts, PathTakenByOther
<1>4. PlaceInv'
  <2>1. connTimer' = connTimer \/ (connTimer = "off" /\ connTimer' = "reconnect")
    BY DEF ConnInv, ConnTypeOK, LinkInv, AddSent, Pushed, ConnectionLost, DaemonStops,
           DaemonStarts, PathTakenByOther, ubus_auto_disconnect_cb
  <2> QED
    BY <1>0, <2>1 DEF ConnInv, PlaceInv, Waiting
<1>5. TypeInv'
  <2>1. untyped' = {}
    BY DEF ConnInv, TypeInv, AddSent, Pushed, ConnectionLost, DaemonStops, DaemonStarts,
           PathTakenByOther
  <2>2. connTimer' = "connect" => connTimer = "connect"
    BY DEF AddSent, Pushed, ConnectionLost, DaemonStops, DaemonStarts, PathTakenByOther,
           ubus_auto_disconnect_cb
  <2>3. cpc' # "uloop" /\ sockFd' = "open" => cpc # "uloop" /\ sockFd = "open" /\ onBus' = onBus
    BY DEF AddSent, Pushed, ConnectionLost, DaemonStops, DaemonStarts, PathTakenByOther
  <2>4. Waiting' = Waiting
    BY <1>0 DEF Waiting
  <2> QED
    BY <1>0, <2>1, <2>2, <2>3, <2>4 DEF ConnInv, TypeInv, TypesOf
<1> QED
  BY <1>1, <1>2, <1>3, <1>4, <1>5 DEF ConnInv

\* A removed object leaves the tree and the bus.
LEMMA RemoveKeeps ==
  ASSUME ConnInv, NEW o \in OurObjects, ubus_remove_object(o)
  PROVE  ConnInv'
<1>0. /\ sockReg /\ cpc = "uloop" /\ sockFd = "open"
      /\ ctxObjects' = ctxObjects \ {o} /\ onBus' = onBus \ {o}
      /\ refused' = refused \union {o}
      /\ UNCHANGED <<cpc, sockFd, sockReg, connTimer, toPush, daemonUp>>
  BY DEF ubus_remove_object
<1>1. ConnTypeOK' /\ LinkInv' /\ BusInv'
  BY <1>0 DEF ConnInv, ConnTypeOK, LinkInv, BusInv
<1>2. Waiting' = Waiting
  BY <1>0 DEF Waiting
<1>3. PlaceInv'
  BY <1>0, <1>2 DEF ConnInv, PlaceInv
<1>4. TypeInv'
  <2>1. untyped' = {} /\ typeIds' \subseteq typeIds
    BY DEF ubus_remove_object, ConnInv, TypeInv
  <2> QED
    BY <1>0, <2>1 DEF ConnInv, TypeInv, LinkInv
<1> QED
  BY <1>1, <1>3, <1>4 DEF ConnInv

\* For any objects, however often the daemon stops, starts and refuses: in its loop
\* the program always has a way back to the daemon, and while it is connected the
\* library and the daemon agree on its objects.
THEOREM ObjectsStayAgreed == ConnSpec => []ObjectsAgree
<1>1. ConnInv /\ [ConnNext]_connVars => ConnInv'
  <2> SUFFICES ASSUME ConnInv, [ConnNext]_connVars PROVE ConnInv'
    OBVIOUS
  <2>1. CASE ubus_auto_connect_cb
    <3>0. cpc = "uloop" /\ connTimer = "connect"
      BY <2>1 DEF ubus_auto_connect_cb
    <3>1. CASE ConnectFails("connect")
      BY <3>0, <3>1, FailedKeeps
    <3>2. CASE Connected(OurObjects) /\ ctxObjects' = {} /\ UNCHANGED typeIds
      <4>1. OurObjects = OurObjects \union refused /\ typeIds' = {}
        BY <3>0, <3>2 DEF ConnInv, ConnTypeOK, TypeInv
      <4> QED
        BY <3>0, <3>2, <4>1, ConnectedKeeps
    <3> QED
      BY <2>1, <3>1, <3>2 DEF ubus_auto_connect_cb
  <2>2. CASE ubus_auto_reconnect_cb
    <3>0. cpc = "uloop" /\ connTimer = "reconnect"
      BY <2>2 DEF ubus_auto_reconnect_cb
    <3>1. CASE ConnectFails("reconnect")
      BY <3>0, <3>1, FailedKeeps
    <3>2. CASE ubus_refresh_state
      <4>1. toPush = <<>>
        BY <3>0 DEF ConnInv, LinkInv
      <4>2. Waiting = {}
        BY <4>1 DEF Waiting
      <4>3. OurObjects = ctxObjects \union refused /\ ctxObjects \in SUBSET OurObjects
        BY <3>0, <4>2 DEF ConnInv, ConnTypeOK, PlaceInv
      <4>4. typeIds' \intersect TypesOf(ctxObjects) = {}
        BY <3>2 DEF ubus_refresh_state
      <4> QED
        BY <3>0, <3>2, <4>3, <4>4, ConnectedKeeps DEF ubus_refresh_state
    <3> QED
      BY <2>2, <3>1, <3>2 DEF ubus_auto_reconnect_cb
  <2>3. CASE AddNotSent \/ AddAnswered
    BY <2>3, PushKeeps
  <2>4. CASE AddSent \/ Pushed \/ ConnectionLost \/ DaemonStops \/ DaemonStarts
               \/ \E o \in OurObjects : PathTakenByOther(o)
    BY <2>4, OtherKeeps
  <2>5. CASE \E o \in OurObjects : ubus_remove_object(o)
    BY <2>5, RemoveKeeps
  <2>6. CASE UNCHANGED connVars
    BY <2>6 DEF connVars, ConnInv, ConnTypeOK, LinkInv, BusInv, PlaceInv, TypeInv, Waiting, TypesOf
  <2> QED
    BY <2>1, <2>2, <2>3, <2>4, <2>5, <2>6 DEF ConnNext
<1>2. ConnInv => ObjectsAgree
  <2> SUFFICES ASSUME ConnInv, cpc = "uloop"
               PROVE  /\ sockReg \/ connTimer # "off"
                      /\ sockReg /\ sockFd = "open" =>
                           ctxObjects = onBus /\ OurObjects \ refused = onBus /\ untyped = {}
    BY DEF ObjectsAgree
  <2>1. (sockReg \/ connTimer # "off") /\ toPush = <<>>
    BY DEF ConnInv, LinkInv
  <2>2. Waiting = {}
    BY <2>1 DEF Waiting
  <2>3. ASSUME sockReg, sockFd = "open"
        PROVE  ctxObjects = onBus /\ OurObjects \ refused = onBus /\ untyped = {}
    <3>1. connTimer # "connect" /\ ctxObjects = onBus /\ untyped = {}
      BY <2>3 DEF ConnInv, LinkInv, BusInv, TypeInv
    <3>2. /\ OurObjects = ctxObjects \union refused
          /\ ctxObjects \intersect refused = {}
      BY <2>2, <3>1 DEF ConnInv, PlaceInv
    <3> QED
      BY <3>1, <3>2
  <2> QED
    BY <2>1, <2>3
<1> QED
  BY <1>1, <1>2, ConnInitInv, PTL DEF ConnSpec
-----------------------------------------------------------------------------
(* "ubus wait_for" *)

CliMsg == [type : {"DATA", "STATUS", "ADD"}, path : Paths \union {"none"}]

\* What the command still waits for and was shown has its message on the way.
OnItsWay ==
  \A i \in DOMAIN waitPending : waitPending[i] \in shown =>
    \E j \in 1 .. Len(toCli) : toCli[j].type # "STATUS" /\ toCli[j].path = waitPending[i]

\* WaitsForUnseen, and what the socket holds: the objects and then the status during
\* the lookup, nothing until the daemon has the pattern, its events from then on.
WaitInv ==
  /\ present \subseteq Paths /\ toCli \in Seq(CliMsg)
  /\ wpc \in {"start", "lookup", "register"} => wregistered = FALSE
  /\ wpc \in {"start", "register"} => toCli = <<>>
  /\ wpc = "lookup" =>
       /\ Len(toCli) > 0 /\ toCli[Len(toCli)].type = "STATUS"
       /\ \A j \in 1 .. Len(toCli) : toCli[j].type = "STATUS" => j = Len(toCli)
  /\ wpc # "start" => OnItsWay
  /\ wpc = "found" => DOMAIN waitPending = {}

\* A message read: the path it names is waited for no more, and every other message
\* is still on its way.
LEMMA MessageRead ==
  ASSUME toCli \in Seq(CliMsg), toCli # <<>>, OnItsWay, toCli' = Tail(toCli), shown' = shown,
         \/ Head(toCli).type = "STATUS" /\ waitPending' = waitPending
         \/ waitPending' = wait_check_object(Head(toCli).path)
  PROVE  toCli' \in Seq(CliMsg) /\ OnItsWay'
<1>1. /\ Len(toCli) \in Nat /\ Len(toCli) > 0 /\ Head(toCli) = toCli[1] /\ toCli' \in Seq(CliMsg)
      /\ Len(toCli') = Len(toCli) - 1
      /\ \A j \in 1 .. Len(toCli') : toCli'[j] = toCli[j + 1]
  BY EmptySeq, LenProperties, HeadTailProperties
<1>2. ASSUME NEW i \in DOMAIN waitPending', waitPending'[i] \in shown
      PROVE  \E j \in 1 .. Len(toCli') : toCli'[j].type # "STATUS" /\ toCli'[j].path = waitPending'[i]
  <2>1. /\ i \in DOMAIN waitPending /\ waitPending'[i] = waitPending[i]
        /\ toCli[1].type = "STATUS" \/ waitPending[i] # toCli[1].path
    BY <1>1, <1>2 DEF wait_check_object, Restrict
  <2>2. PICK j \in 1 .. Len(toCli) : toCli[j].type # "STATUS" /\ toCli[j].path = waitPending[i]
    BY <1>2, <2>1 DEF OnItsWay
  <2>3. j # 1 /\ j - 1 \in 1 .. Len(toCli')
    BY <1>1, <2>1, <2>2
  <2>4. PICK k \in 1 .. Len(toCli') : k = j - 1
    BY <2>3
  <2>5. toCli'[k] = toCli[j]
    BY <1>1, <2>2, <2>4
  <2> QED
    BY <2>1, <2>2, <2>5
<1> QED
  BY <1>1, <1>2 DEF OnItsWay

\* The lookup names every object the daemon has.
LEMMA LookupKeeps == WaitInv /\ WaitLookup => WaitInv'
<1> SUFFICES ASSUME WaitInv, WaitLookup PROVE WaitInv'
  OBVIOUS
<1> DEFINE n == Cardinality(present)
           l == SetToSeq(present)
           ms == [i \in 1 .. n |-> ToCli("DATA", l[i])]
           st == <<ToCli("STATUS", "none")>>
<1>1. IsFiniteSet(present) /\ n \in Nat /\ present \subseteq Paths
  BY WaitAssumption, FS_Subset, FS_CardinalityType DEF WaitInv
<1>2. l \in Seq(present) /\ present = {l[i] : i \in 1 .. Len(l)}
  BY <1>1, SetListed
<1>3. Len(l) = n
  BY <1>1, SetListed
<1>4. ms \in Seq(CliMsg) /\ Len(ms) = n
  <2>1. \A i \in 1 .. n : l[i] \in Paths
    BY <1>1, <1>2, <1>3
  <2>2. \A i \in 1 .. n : ToCli("DATA", l[i]) \in CliMsg
    BY <2>1 DEF ToCli, CliMsg
  <2> HIDE DEF l
  <2> QED
    BY <1>1, <2>2
<1>5. st \in Seq(CliMsg) /\ Len(st) = 1 /\ st[1] = ToCli("STATUS", "none")
  BY DEF ToCli, CliMsg
<1>6. toCli' = ms \o st
  BY DEF WaitLookup
<1>m. PICK m : m = ms
  OBVIOUS
<1>s. PICK s : s = st
  OBVIOUS
<1>7. /\ toCli' \in Seq(CliMsg) /\ Len(toCli') = n + 1
      /\ \A i \in 1 .. n + 1 : toCli'[i] = IF i <= n THEN m[i] ELSE s[i - n]
  <2> HIDE DEF ms, st, n
  <2>1. m \in Seq(CliMsg) /\ s \in Seq(CliMsg) /\ Len(m) = n /\ Len(s) = 1 /\ toCli' = m \o s
    BY <1>4, <1>5, <1>6, <1>m, <1>s
  <2>2. /\ m \o s \in Seq(CliMsg) /\ Len(m \o s) = Len(m) + Len(s)
        /\ \A i \in 1 .. Len(m) + Len(s) :
             (m \o s)[i] = IF i <= Len(m) THEN m[i] ELSE s[i - Len(m)]
    BY <2>1, ConcatProperties
  <2> QED
    BY <1>1, <2>1, <2>2
<1>8. toCli'[n + 1] = ToCli("STATUS", "none")
  <2>1. toCli'[n + 1] = s[1]
    BY <1>1, <1>7
  <2> QED
    BY <2>1, <1>5, <1>s
<1>9. \A i \in 1 .. n : toCli'[i] = ToCli("DATA", l[i])
  <2>1. \A i \in 1 .. n : m[i] = ToCli("DATA", l[i])
    BY <1>m
  <2> HIDE DEF n, l, ms
  <2> QED
    BY <1>1, <1>7, <2>1
<1>10. OnItsWay'
  <2> SUFFICES ASSUME NEW i \in DOMAIN waitPending', waitPending'[i] \in shown'
               PROVE  \E j \in 1 .. Len(toCli') : toCli'[j].type # "STATUS" /\ toCli'[j].path = waitPending'[i]
    BY DEF OnItsWay
  <2>1. shown' = present
    BY DEF WaitLookup
  <2>2. PICK j \in 1 .. n : l[j] = waitPending'[i]
    <3> HIDE DEF n, l
    <3> QED
      BY <1>2, <1>3, <2>1
  <2>3. toCli'[j].type # "STATUS" /\ toCli'[j].path = waitPending'[i]
    <3> HIDE DEF n, l
    <3>1. toCli'[j] = [type |-> "DATA", path |-> l[j]]
      BY <1>9, <2>2 DEF ToCli
    <3> QED
      BY <2>2, <3>1
  <2>4. j \in 1 .. Len(toCli')
    BY <1>1, <1>7
  <2> QED
    BY <2>3, <2>4
<1>11. \A j \in 1 .. Len(toCli') : toCli'[j].type = "STATUS" => j = Len(toCli')
  <2> SUFFICES ASSUME NEW j \in 1 .. n + 1, j # n + 1 PROVE toCli'[j].type # "STATUS"
    BY <1>7
  <2>1. j \in 1 .. n
    BY <1>1
  <2>2. toCli'[j] = ToCli("DATA", l[j])
    BY <1>9, <2>1
  <2> QED
    BY <2>2 DEF ToCli
<1>12. Len(toCli') > 0 /\ toCli'[Len(toCli')].type = "STATUS"
  BY <1>1, <1>7, <1>8 DEF ToCli
<1>13. wpc' = "lookup" /\ present' = present /\ wregistered' = FALSE
  BY DEF WaitLookup, WaitInv
<1> QED
  BY <1>1, <1>7, <1>10, <1>11, <1>12, <1>13 DEF WaitInv

\* The steps of the command after the lookup.
LEMMA CommandKeeps ==
  WaitInv /\ (WaitListed \/ WaitLookedUp \/ WaitRegister \/ WaitEvent \/ WaitTimeout) => WaitInv'
<1> SUFFICES ASSUME WaitInv, WaitListed \/ WaitLookedUp \/ WaitRegister \/ WaitEvent \/ WaitTimeout
             PROVE  WaitInv'
  OBVIOUS
<1>t. toCli \in Seq(CliMsg) /\ Len(toCli) \in Nat
  BY DEF WaitInv
<1>1. CASE WaitListed \/ WaitLookedUp
  <2>1. /\ wpc = "lookup" /\ Len(toCli) > 0 /\ toCli[Len(toCli)].type = "STATUS"
        /\ \A j \in 1 .. Len(toCli) : toCli[j].type = "STATUS" => j = Len(toCli)
        /\ OnItsWay /\ toCli # <<>>
    BY <1>1, <1>t DEF WaitListed, WaitLookedUp, WaitInv
  <2>2. toCli' = Tail(toCli) /\ shown' = shown /\ present' = present /\ wregistered' = wregistered
    BY <1>1 DEF WaitListed, WaitLookedUp
  <2>3. toCli' \in Seq(CliMsg) /\ OnItsWay'
    BY <1>1, <1>t, <2>1, <2>2, MessageRead DEF WaitListed, WaitLookedUp
  <2>4. /\ Head(toCli) = toCli[1] /\ Len(toCli') = Len(toCli) - 1
        /\ \A j \in 1 .. Len(toCli') : toCli'[j] = toCli[j + 1]
    BY <1>t, <2>1, <2>2, EmptySeq, LenProperties, HeadTailProperties
  <2>5. CASE WaitListed
    <3>1. wpc' = "lookup" /\ toCli[1].type = "DATA"
      BY <2>1, <2>4, <2>5 DEF WaitListed
    <3>2. Len(toCli) > 1
      BY <1>t, <2>1, <3>1
    <3>3. Len(toCli') > 0 /\ toCli'[Len(toCli')] = toCli[Len(toCli)]
      BY <1>t, <2>4, <3>2
    <3>4. \A j \in 1 .. Len(toCli') : toCli'[j].type = "STATUS" => j = Len(toCli')
      <4> SUFFICES ASSUME NEW j \in 1 .. Len(toCli'), toCli'[j].type = "STATUS"
                   PROVE  j = Len(toCli')
        OBVIOUS
      <4>1. PICK k \in 1 .. Len(toCli) : k = j + 1
        BY <1>t, <2>4
      <4>2. k = Len(toCli)
        BY <2>1, <2>4, <4>1
      <4> QED
        BY <1>t, <2>4, <4>1, <4>2
    <3> QED
      BY <2>1, <2>2, <2>3, <3>1, <3>3, <3>4 DEF WaitInv
  <2>6. CASE WaitLookedUp
    <3>1. /\ toCli[1].type = "STATUS" /\ waitPending' = waitPending
          /\ wpc' = IF DOMAIN waitPending = {} THEN "found" ELSE "register"
      BY <2>4, <2>6 DEF WaitLookedUp
    <3>2. Len(toCli') = 0
      BY <1>t, <2>1, <2>4, <3>1
    <3>3. toCli' = <<>>
      BY <2>3, <3>2, EmptySeq
    <3> QED
      BY <2>1, <2>2, <2>3, <3>1, <3>3 DEF WaitInv
  <2> QED
    BY <1>1, <2>5, <2>6
<1>2. CASE WaitRegister
  BY <1>2 DEF WaitRegister, WaitInv, OnItsWay
<1>3. CASE WaitEvent
  <2>1. toCli' \in Seq(CliMsg) /\ OnItsWay'
    BY <1>3, <1>t, MessageRead DEF WaitEvent, WaitInv
  <2> QED
    BY <1>3, <2>1 DEF WaitEvent, WaitInv
<1>4. CASE WaitTimeout
  BY <1>4 DEF WaitTimeout, WaitInv, OnItsWay
<1> QED
  BY <1>1, <1>2, <1>3, <1>4

\* Objects that come and go: once the daemon has the pattern it tells of each new one.
LEMMA OthersKeep ==
  ASSUME WaitInv, NEW p \in Paths, Appears(p) \/ Disappears(p)
  PROVE  WaitInv'
<1>1. CASE Appears(p) /\ wregistered
  <2>1. /\ wpc' = wpc /\ waitPending' = waitPending /\ wpc \notin {"start", "lookup", "register"}
        /\ shown' = shown \union {p} /\ present' = present \union {p}
        /\ toCli' = Append(toCli, ToCli("ADD", p)) /\ toCli \in Seq(CliMsg)
    BY <1>1 DEF Appears, WaitInv
  <2>2. PICK m : m = ToCli("ADD", p)
    OBVIOUS
  <2>3. m \in CliMsg /\ m.type = "ADD" /\ m.path = p
    BY <2>2 DEF CliMsg, ToCli
  <2>4. /\ toCli' \in Seq(CliMsg) /\ Len(toCli') = Len(toCli) + 1 /\ Len(toCli) \in Nat
        /\ toCli'[Len(toCli) + 1] = m
        /\ \A j \in 1 .. Len(toCli) : toCli'[j] = toCli[j]
    BY <2>1, <2>2, <2>3, AppendProperties, LenProperties
  <2>5. OnItsWay'
    <3> SUFFICES ASSUME NEW i \in DOMAIN waitPending, waitPending[i] \in shown \union {p}
                 PROVE  \E j \in 1 .. Len(toCli') :
                          toCli'[j].type # "STATUS" /\ toCli'[j].path = waitPending[i]
      BY <2>1 DEF OnItsWay
    <3>1. CASE waitPending[i] = p
      <4>1. Len(toCli') \in 1 .. Len(toCli') /\ toCli'[Len(toCli')] = m
        BY <2>4
      <4> QED
        BY <2>3, <3>1, <4>1
    <3>2. CASE waitPending[i] \in shown
      <4>1. PICK j \in 1 .. Len(toCli) : toCli[j].type # "STATUS" /\ toCli[j].path = waitPending[i]
        BY <2>1, <3>2 DEF WaitInv, OnItsWay
      <4>2. j \in 1 .. Len(toCli') /\ toCli'[j] = toCli[j]
        BY <2>4
      <4> QED
        BY <4>1, <4>2
    <3> QED
      BY <3>1, <3>2
  <2> QED
    BY <2>1, <2>4, <2>5 DEF WaitInv
<1>2. CASE (Appears(p) /\ ~wregistered) \/ Disappears(p)
  BY <1>2 DEF Appears, Disappears, WaitInv, OnItsWay
<1> QED
  BY <1>1, <1>2

\* For any paths, any arguments and any number of objects that come and go: the
\* command says `found' only when each of its arguments was on the bus, and waits
\* for none that it was shown.
THEOREM WaitForMissesNone == WaitSpec => []WaitsForUnseen
<1>1. WaitInit => WaitInv
  BY DEF WaitInit, WaitInv, OnItsWay
<1>2. WaitInv /\ [WaitNext]_waitVars => WaitInv'
  <2> SUFFICES ASSUME WaitInv, [WaitNext]_waitVars PROVE WaitInv'
    OBVIOUS
  <2>1. CASE UNCHANGED waitVars
    BY <2>1 DEF waitVars, WaitInv, OnItsWay
  <2> QED
    BY <2>1, LookupKeeps, CommandKeeps, OthersKeep DEF WaitNext
<1>3. WaitInv => WaitsForUnseen
  <2> SUFFICES ASSUME WaitInv PROVE WaitsForUnseen
    OBVIOUS
  <2>1. DOMAIN toCli = 1 .. Len(toCli)
    BY DEF WaitInv
  <2> QED
    BY <2>1 DEF WaitInv, OnItsWay, WaitsForUnseen
<1> QED
  BY <1>1, <1>2, <1>3, PTL DEF WaitSpec
=============================================================================
