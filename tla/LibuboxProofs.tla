--------------------------- MODULE LibuboxProofs ----------------------------
(***************************************************************************)
(* libubox proved: uloop's descriptors, its timers and children, the run   *)
(* queue, vlist and ustream, for any number of each, any nesting of        *)
(* callbacks and any limits of the buffers.                                *)
(***************************************************************************)
EXTENDS Uloop, UloopTimer, Runqueue, Vlist, Ustream, ListProofs

-----------------------------------------------------------------------------
(***************************************************************************)
(* Uloop's descriptors, for any set of them, any depth of nested runs and  *)
(* callbacks: no callback is called for a descriptor that was deleted, and *)
(* an event that epoll reports once is not lost.                           *)
(***************************************************************************)

Frame == [k : {"main", "run", "cb"}, fd : Fds \union {NullFd}, live : BOOLEAN, again : BOOLEAN]

UloopTypeOK ==
  /\ fdRegistered \in [Fds -> BOOLEAN] /\ fdDropped \in [Fds -> BOOLEAN]
  /\ readable \in [Fds -> BOOLEAN] /\ hungUpFd \in [Fds -> BOOLEAN]
  /\ edgePending \in [Fds -> BOOLEAN] /\ unseen \in [Fds -> BOOLEAN]
  /\ uCancelled \in BOOLEAN
  /\ curFds \in Seq(Fds \union {NullFd})
  /\ uframes \in Seq(Frame)

\* main() is at the bottom of the stack; only callbacks have an entry of fd_stack,
\* and only one of an edge-triggered descriptor has an event noted.
StackInv ==
  /\ Len(uframes) > 0 /\ uframes[Len(uframes)].k = "main"
  /\ \A i \in 1 .. Len(uframes) :
       /\ uframes[i].live \/ uframes[i].again => uframes[i].k = "cb"
       /\ uframes[i].k = "cb" => uframes[i].fd \in Fds
       /\ uframes[i].again => uframes[i].fd \in EdgeFds
       /\ uframes[i].live /\ uframes[i].again => fdRegistered[uframes[i].fd]

\* The events fetched are of descriptors that were not deleted since, one of each,
\* and a descriptor taken out by its hangup has no callback running.
FetchInv ==
  /\ \A f \in Fds : fdRegistered[f] => ~fdDropped[f]
  /\ \A i \in 1 .. Len(curFds) : curFds[i] # NullFd => ~fdDropped[curFds[i]]
  /\ \A i, j \in 1 .. Len(curFds) : curFds[i] = curFds[j] /\ curFds[i] # NullFd => i = j
  /\ \A i \in 1 .. Len(curFds), j \in 1 .. Len(uframes) :
       curFds[i] \in EdgeFds /\ ~fdRegistered[curFds[i]] /\ uframes[j].live
         => uframes[j].fd # curFds[i]

\* EdgeEventsKept, its two parts; a descriptor at its end stays readable.
Fetched(fd) == \E i \in 1 .. Len(curFds) : curFds[i] = fd
Noted(fd) == \E i \in 1 .. Len(uframes) : uframes[i].fd = fd /\ uframes[i].live /\ uframes[i].again

KeptInv ==
  /\ \A f \in Fds : hungUpFd[f] => readable[f]
  /\ \A fd \in EdgeFds : unseen[fd] /\ readable[fd] /\ fdRegistered[fd] =>
       edgePending[fd] \/ Fetched(fd) \/ Noted(fd)

OnceInv ==
  \A i, j \in 1 .. Len(uframes) :
    uframes[i].live /\ uframes[j].live /\ uframes[i].fd \in EdgeFds
      /\ uframes[i].fd = uframes[j].fd => i = j

UloopInv == UloopTypeOK /\ StackInv /\ FetchInv /\ KeptInv /\ OnceInv

-----------------------------------------------------------------------------
(* Lists and the stack *)

\* StackEntry finds an entry of the descriptor if there is one.
LEMMA EntryFound ==
  ASSUME NEW fs \in Seq(Frame), NEW fd,
         \A i \in 1 .. Len(fs) : fs[i].live => fs[i].k = "cb"
  PROVE  \/ /\ StackEntry(fs, fd) = 0
            /\ \A i \in 1 .. Len(fs) : fs[i].live => fs[i].fd # fd
         \/ /\ StackEntry(fs, fd) # 0 /\ StackEntry(fs, fd) \in 1 .. Len(fs)
            /\ fs[StackEntry(fs, fd)].live /\ fs[StackEntry(fs, fd)].fd = fd
<1> DEFINE I == {i \in 1 .. Len(fs) : fs[i].k = "cb" /\ fs[i].live /\ fs[i].fd = fd}
<1>1. StackEntry(fs, fd) = IF I # {} THEN Min(I) ELSE 0
  BY Zenon DEF StackEntry, SelectInSeq
<1>2. CASE I = {}
  <2>1. StackEntry(fs, fd) = 0
    BY <1>1, <1>2
  <2> QED
    BY <1>2, <2>1
<1>3. CASE I # {}
  <2>1. I \in SUBSET Nat
    OBVIOUS
  <2>2. \E x \in I : \A y \in I : x <= y
    <3> HIDE DEF I
    <3> QED
      BY <1>3, <2>1, LeastFound
  <2>3. Min(I) \in I
    BY <2>2, Zenon DEF Min
  <2>4. StackEntry(fs, fd) \in I
    BY <1>1, <1>3, <2>3, Zenon
  <2> QED
    BY <2>4
<1> QED
  BY <1>2, <1>3

\* The stack with the entries of the descriptors in Gone deleted.
Emptied(fs, Gone) ==
  [i \in 1 .. Len(fs) |->
     IF fs[i].fd \in Gone THEN [fs[i] EXCEPT !.live = FALSE] ELSE fs[i]]

\* uloop_fd_stack_event(fd, -1): of an edge-triggered descriptor's entries, of which
\* there is at most one, none is left.
LEMMA EntryDeleted ==
  ASSUME NEW fs \in Seq(Frame), NEW fd \in EdgeFds,
         \A i \in 1 .. Len(fs) : fs[i].live => fs[i].k = "cb",
         \A i, j \in 1 .. Len(fs) :
           fs[i].live /\ fs[j].live /\ fs[i].fd \in EdgeFds /\ fs[i].fd = fs[j].fd => i = j
  PROVE  uloop_fd_stack_delete(fs, fd) = Emptied(fs, {fd})
<1> DEFINE r == [i \in 1 .. Len(fs) |->
                   IF fs[i].fd = fd THEN [fs[i] EXCEPT !.live = FALSE] ELSE fs[i]]
<1>r. Emptied(fs, {fd}) = r
  BY DEF Emptied
<1>0. PICK e : e = StackEntry(fs, fd)
  OBVIOUS
<1>e. \/ e = 0 /\ \A i \in 1 .. Len(fs) : fs[i].live => fs[i].fd # fd
      \/ e # 0 /\ e \in 1 .. Len(fs) /\ fs[e].live /\ fs[e].fd = fd
  BY <1>0, EntryFound, Zenon
<1>d. DOMAIN fs = 1 .. Len(fs) /\ Len(fs) \in Nat /\ \A i \in 1 .. Len(fs) : fs[i] \in Frame
  OBVIOUS
<1>f. ASSUME NEW i \in 1 .. Len(fs), ~fs[i].live
      PROVE  [fs[i] EXCEPT !.live = FALSE] = fs[i]
  <2>1. PICK f \in Frame : f = fs[i]
    BY <1>d
  <2>2. f.live = FALSE
    BY <2>1, <1>f DEF Frame
  <2>3. [f EXCEPT !.live = FALSE] = f
    BY <2>2 DEF Frame
  <2> QED
    BY <2>1, <2>3
<1>1. CASE e = 0
  <2>1. \A i \in 1 .. Len(fs) : fs[i].live => fs[i].fd # fd
    BY <1>1, <1>e
  <2>2. \A i \in 1 .. Len(fs) : r[i] = fs[i]
    BY <1>f, <2>1
  <2>3. r = fs
    BY <1>d, <2>2
  <2>4. uloop_fd_stack_delete(fs, fd) = fs
    BY <1>0, <1>1 DEF uloop_fd_stack_delete
  <2> QED
    BY <1>r, <2>3, <2>4, Zenon
<1>2. CASE e # 0
  <2>1. e \in 1 .. Len(fs) /\ fs[e].live /\ fs[e].fd = fd
    BY <1>2, <1>e
  <2>2. uloop_fd_stack_delete(fs, fd) = [fs EXCEPT ![e].live = FALSE]
    BY <1>0, <1>2 DEF uloop_fd_stack_delete
  <2>3. ASSUME NEW i \in 1 .. Len(fs)
        PROVE  [fs EXCEPT ![e].live = FALSE][i] = r[i]
    <3>1. CASE i = e
      BY <1>d, <2>1, <3>1
    <3>2. CASE i # e
      <4>1. fs[i].fd = fd => ~fs[i].live
        BY <2>1, <3>2
      <4>2. r[i] = fs[i]
        BY <4>1, <1>f
      <4>3. [fs EXCEPT ![e].live = FALSE][i] = fs[i]
        BY <1>d, <3>2
      <4> QED
        BY <4>2, <4>3
    <3> QED
      BY <3>1, <3>2
  <2>4. [fs EXCEPT ![e].live = FALSE] = r
    <3>1. PICK q : q = [fs EXCEPT ![e].live = FALSE]
      OBVIOUS
    <3>2. q = [i \in 1 .. Len(fs) |-> q[i]]
      BY <1>d, <3>1
    <3>3. \A i \in 1 .. Len(fs) : q[i] = r[i]
      BY <2>3, <3>1
    <3>4. r = [i \in 1 .. Len(fs) |-> r[i]]
      OBVIOUS
    <3> HIDE DEF r
    <3> QED
      BY <3>1, <3>2, <3>3, <3>4
  <2> QED
    BY <1>r, <2>2, <2>4, Zenon
<1> QED
  BY <1>1, <1>2

\* The loop starts with no descriptor added, nothing fetched, and main() running.
LEMMA UloopInitInv == UloopInit => UloopInv
<1> SUFFICES ASSUME UloopInit PROVE UloopInv
  OBVIOUS
<1>0. /\ fdRegistered = [f \in Fds |-> FALSE] /\ fdDropped = [f \in Fds |-> TRUE]
      /\ readable = [f \in Fds |-> FALSE] /\ hungUpFd = [f \in Fds |-> FALSE]
      /\ edgePending = [f \in Fds |-> FALSE] /\ unseen = [f \in Fds |-> FALSE]
      /\ curFds = <<>> /\ uframes = <<MainFrame>> /\ uCancelled = FALSE
  BY DEF UloopInit
<1>1. MainFrame \in Frame /\ MainFrame.k = "main" /\ ~MainFrame.live /\ ~MainFrame.again
  BY DEF MainFrame, RunFrame, Frame
<1>2. /\ uframes \in Seq(Frame) /\ Len(uframes) = 1 /\ uframes[1] = MainFrame
      /\ \A i \in 1 .. Len(uframes) : i = 1
  BY <1>0, <1>1
<1>3. curFds \in Seq(Fds \union {NullFd}) /\ 1 .. Len(curFds) = {}
  BY <1>0
<1>4. UloopTypeOK
  BY <1>0, <1>2, <1>3 DEF UloopTypeOK
<1>5. StackInv /\ OnceInv
  BY <1>1, <1>2 DEF StackInv, OnceInv
<1>6. FetchInv
  BY <1>0, <1>3 DEF FetchInv
<1>7. KeptInv
  BY <1>0, UloopAssumption DEF KeptInv
<1> QED
  BY <1>4, <1>5, <1>6, <1>7 DEF UloopInv

\* Steps that leave the stack and the fetched events alone.
LEMMA QuietStepsKeep ==
  ASSUME UloopInv, NEW fd \in Fds, NEW h \in BOOLEAN,
         uloop_fd_add(fd) \/ Arrival(fd, h) \/ uloop_end \/ ReadAll
  PROVE  UloopInv' /\ uframes' = uframes
<1>0. UNCHANGED <<uframes, curFds>>
  BY DEF uloop_fd_add, Arrival, uloop_end, ReadAll
<1>a. EdgeFds \subseteq Fds
  BY UloopAssumption
<1>t. UloopTypeOK
  BY DEF UloopInv
<1>w. \A f : (Fetched(f)' <=> Fetched(f)) /\ (Noted(f)' <=> Noted(f))
  BY <1>0 DEF Fetched, Noted
<1>1. CASE uloop_fd_add(fd)
  <2>0. /\ fdRegistered' = [fdRegistered EXCEPT ![fd] = TRUE]
        /\ fdDropped' = [fdDropped EXCEPT ![fd] = FALSE]
        /\ edgePending' = [edgePending EXCEPT ![fd] = readable[fd]]
        /\ UNCHANGED <<readable, hungUpFd, uCancelled, unseen>>
    BY <1>1 DEF uloop_fd_add
  <2>1. UloopTypeOK'
    BY <1>0, <1>t, <2>0 DEF UloopTypeOK
  <2>2. /\ \A f \in Fds : fdRegistered[f] => fdRegistered'[f]
        /\ \A f \in Fds : fdDropped'[f] => fdDropped[f]
        /\ \A f \in Fds : fdRegistered'[f] => f = fd \/ fdRegistered[f]
        /\ ~fdDropped'[fd]
    BY <1>t, <2>0 DEF UloopTypeOK
  <2>3. StackInv'
    BY <1>0, <1>a, <1>t, <2>2 DEF UloopInv, StackInv, UloopTypeOK
  <2>4. FetchInv'
    <3>1. \A f \in Fds : fdRegistered'[f] => ~fdDropped'[f]
      BY <2>2 DEF UloopInv, FetchInv
    <3>2. \A i \in 1 .. Len(curFds) : curFds[i] # NullFd => curFds[i] \in Fds
      BY <1>t DEF UloopTypeOK
    <3>3. \A i \in 1 .. Len(curFds) : curFds[i] # NullFd => ~fdDropped'[curFds[i]]
      BY <2>2, <3>2 DEF UloopInv, FetchInv
    <3>4. \A i \in 1 .. Len(curFds), j \in 1 .. Len(uframes) :
            curFds[i] \in EdgeFds /\ ~fdRegistered'[curFds[i]] /\ uframes[j].live
              => uframes[j].fd # curFds[i]
      BY <1>a, <2>2 DEF UloopInv, FetchInv
    <3> QED
      BY <1>0, <3>1, <3>3, <3>4 DEF UloopInv, FetchInv
  <2>5. KeptInv'
    <3>1. ASSUME NEW f \in EdgeFds, unseen'[f], readable'[f], fdRegistered'[f]
          PROVE  edgePending'[f] \/ Fetched(f) \/ Noted(f)
      BY <1>a, <1>t, <2>0, <3>1 DEF UloopInv, KeptInv, UloopTypeOK
    <3> QED
      BY <1>w, <2>0, <3>1 DEF UloopInv, KeptInv
  <2> QED
    BY <1>0, <2>1, <2>3, <2>4, <2>5 DEF UloopInv, OnceInv
<1>2. CASE Arrival(fd, h) \/ uloop_end \/ ReadAll
  <2>0. UNCHANGED <<fdRegistered, fdDropped>>
    BY <1>2 DEF Arrival, uloop_end, ReadAll
  <2>u. UTop.k = "cb" => UTop.fd \in Fds
    <3>1. UTop = uframes[1] /\ 1 \in 1 .. Len(uframes)
      BY <1>t DEF UTop, UloopInv, StackInv, UloopTypeOK
    <3> QED
      BY <3>1 DEF UloopInv, StackInv
  <2>1. UloopTypeOK'
    BY <1>0, <1>2, <1>t, <2>0, <2>u DEF UloopTypeOK, Arrival, uloop_end, ReadAll
  <2>2. StackInv' /\ FetchInv'
    BY <1>0, <2>0 DEF UloopInv, StackInv, FetchInv
  <2>3. KeptInv'
    <3>1. CASE Arrival(fd, h)
      <4>0. /\ readable' = [readable EXCEPT ![fd] = TRUE]
            /\ unseen' = [unseen EXCEPT ![fd] = TRUE]
            /\ edgePending' = [edgePending EXCEPT ![fd] = fdRegistered[fd]]
            /\ hungUpFd' = [hungUpFd EXCEPT ![fd] = h]
        BY <3>1 DEF Arrival
      <4>1. \A f \in Fds : hungUpFd'[f] => readable'[f]
        BY <1>t, <4>0 DEF UloopTypeOK, UloopInv, KeptInv
      <4>2. ASSUME NEW f \in EdgeFds, unseen'[f], readable'[f], fdRegistered'[f]
            PROVE  edgePending'[f] \/ Fetched(f) \/ Noted(f)
        BY <1>a, <1>t, <2>0, <4>0, <4>2 DEF UloopInv, KeptInv, UloopTypeOK
      <4> QED
        BY <1>w, <4>1, <4>2 DEF KeptInv
    <3>2. CASE uloop_end
      BY <1>w, <3>2 DEF uloop_end, UloopInv, KeptInv
    <3>3. CASE ReadAll
      <4>0. /\ readable' = [readable EXCEPT ![UTop.fd] = hungUpFd[UTop.fd]]
            /\ UNCHANGED <<hungUpFd, edgePending, unseen>> /\ UTop.fd \in Fds
        BY <2>u, <3>3 DEF ReadAll
      <4>g. PICK g \in Fds : g = UTop.fd
        BY <4>0
      <4>h. readable' = [readable EXCEPT ![g] = hungUpFd[g]]
        BY <4>0, <4>g
      <4>1. \A f \in Fds : hungUpFd[f] => readable[f]
        BY DEF UloopInv, KeptInv
      <4>2. /\ \A f \in Fds : readable'[f] => readable[f]
            /\ \A f \in Fds : hungUpFd[f] => readable'[f]
        BY <1>t, <4>h, <4>1 DEF UloopTypeOK
      <4> QED
        BY <1>a, <1>w, <2>0, <4>0, <4>2 DEF UloopInv, KeptInv
    <3> QED
      BY <1>2, <3>1, <3>2, <3>3
  <2> QED
    BY <1>0, <2>1, <2>2, <2>3 DEF UloopInv, OnceInv
<1> QED
  BY <1>0, <1>1, <1>2
\* What is left of a stack whose entries of some descriptors were deleted.
LEMMA EntriesGone ==
  ASSUME NEW fs \in Seq(Frame), NEW Gone, NEW gs, gs = Emptied(fs, Gone)
  PROVE  /\ gs \in Seq(Frame) /\ Len(gs) = Len(fs)
         /\ \A i \in 1 .. Len(fs) :
              /\ gs[i].k = fs[i].k /\ gs[i].fd = fs[i].fd /\ gs[i].again = fs[i].again
              /\ gs[i].live => fs[i].live /\ fs[i].fd \notin Gone
              /\ fs[i].fd \notin Gone => gs[i] = fs[i]
<1>1. Len(fs) \in Nat /\ \A i \in 1 .. Len(fs) : fs[i] \in Frame
  OBVIOUS
<1>2. ASSUME NEW i \in 1 .. Len(fs)
      PROVE  /\ gs[i] \in Frame
             /\ gs[i].k = fs[i].k /\ gs[i].fd = fs[i].fd /\ gs[i].again = fs[i].again
             /\ gs[i].live => fs[i].live /\ fs[i].fd \notin Gone
             /\ fs[i].fd \notin Gone => gs[i] = fs[i]
  <2>1. PICK f \in Frame : f = fs[i]
    BY <1>1
  <2>2. gs[i] = IF f.fd \in Gone THEN [f EXCEPT !.live = FALSE] ELSE f
    BY <2>1 DEF Emptied
  <2> QED
    <3>1. CASE f.fd \in Gone
      <4>1. gs[i] = [f EXCEPT !.live = FALSE]
        BY <2>2, <3>1
      <4> QED
        BY <2>1, <3>1, <4>1 DEF Frame
    <3>2. CASE f.fd \notin Gone
      <4>1. gs[i] = f
        BY <2>2, <3>2
      <4> QED
        BY <2>1, <3>2, <4>1
    <3> QED
      BY <3>1, <3>2
<1>3. gs \in Seq(Frame) /\ Len(gs) = Len(fs)
  <2>1. gs \in [1 .. Len(fs) -> Frame]
    BY <1>2 DEF Emptied
  <2> QED
    BY <1>1, <2>1
<1> QED
  BY <1>2, <1>3

\* A deleted descriptor's fetched events and entry go with it.
LEMMA DeleteKeeps ==
  ASSUME UloopInv, NEW fd \in Fds, uloop_fd_delete(fd)
  PROVE  /\ UloopInv' /\ Len(uframes') = Len(uframes)
         /\ Head(uframes').again = Head(uframes).again
<1>0. /\ curFds' = WithoutFd(curFds, fd)
      /\ fdDropped' = [fdDropped EXCEPT ![fd] = TRUE]
      /\ fdRegistered' = [fdRegistered EXCEPT ![fd] = FALSE]
      /\ edgePending' = [edgePending EXCEPT ![fd] = FALSE]
      /\ UNCHANGED <<readable, hungUpFd, uCancelled, unseen>>
  BY DEF uloop_fd_delete, Unlisted, UloopInv, UloopTypeOK
<1>a. EdgeFds \subseteq Fds /\ NullFd \notin Fds
  BY UloopAssumption
<1>t. UloopTypeOK /\ uframes \in Seq(Frame)
  BY DEF UloopInv, UloopTypeOK
<1>s. /\ \A i \in 1 .. Len(uframes) : uframes[i].live => uframes[i].k = "cb"
      /\ \A i, j \in 1 .. Len(uframes) :
           uframes[i].live /\ uframes[j].live /\ uframes[i].fd \in EdgeFds
             /\ uframes[i].fd = uframes[j].fd => i = j
  BY DEF UloopInv, StackInv, OnceInv
<1>1. /\ curFds' \in Seq(Fds \union {NullFd}) /\ Len(curFds') = Len(curFds)
      /\ \A i \in 1 .. Len(curFds) :
           /\ curFds'[i] = curFds[i] \/ (curFds[i] = fd /\ curFds'[i] = NullFd)
           /\ curFds'[i] # fd
  BY <1>0, <1>a, <1>t DEF UloopTypeOK, WithoutFd
<1>2. PICK Gone : /\ uframes' = Emptied(uframes, Gone)
                  /\ Gone \subseteq {fd} /\ (fdRegistered[fd] /\ fd \in EdgeFds => Gone = {fd})
  <2>1. CASE fdRegistered[fd] /\ fd \in EdgeFds
    <3>1. uframes' = uloop_fd_stack_delete(uframes, fd)
      BY <2>1 DEF uloop_fd_delete
    <3>2. uframes' = Emptied(uframes, {fd})
      BY <1>s, <1>t, <2>1, <3>1, EntryDeleted
    <3> QED
      BY <3>2
  <2>2. CASE ~(fdRegistered[fd] /\ fd \in EdgeFds)
    <3>1. uframes' = uframes
      BY <2>2 DEF uloop_fd_delete, uloop_fd_stack_delete
    <3>2. uframes = [i \in 1 .. Len(uframes) |-> uframes[i]]
      BY <1>t
    <3>3. PICK G : G = {}
      OBVIOUS
    <3>4. uframes' = Emptied(uframes, G)
      BY <3>1, <3>2, <3>3 DEF Emptied
    <3>5. G \subseteq {fd} /\ (fdRegistered[fd] /\ fd \in EdgeFds => G = {fd})
      BY <2>2, <3>3
    <3> QED
      BY <3>4, <3>5, Zenon
  <2> QED
    BY <2>1, <2>2
<1>3. /\ uframes' \in Seq(Frame) /\ Len(uframes') = Len(uframes)
      /\ \A i \in 1 .. Len(uframes) :
           /\ uframes'[i].k = uframes[i].k /\ uframes'[i].fd = uframes[i].fd
           /\ uframes'[i].again = uframes[i].again
           /\ uframes'[i].live => uframes[i].live /\ uframes[i].fd \notin Gone
           /\ uframes[i].fd \notin Gone => uframes'[i] = uframes[i]
  BY <1>2, <1>t, EntriesGone
<1>4. UloopTypeOK'
  BY <1>0, <1>1, <1>3, <1>t DEF UloopTypeOK
<1>5. /\ \A f \in Fds : f # fd => fdRegistered'[f] = fdRegistered[f]
                                     /\ fdDropped'[f] = fdDropped[f]
      /\ ~fdRegistered'[fd]
  BY <1>0, <1>t DEF UloopTypeOK
<1>6. StackInv'
  <2>0. Len(uframes) \in Nat /\ Len(uframes) > 0 /\ uframes[Len(uframes)].k = "main"
    BY <1>t DEF UloopInv, StackInv
  <2>1. Len(uframes') > 0 /\ uframes'[Len(uframes')].k = "main"
    BY <1>3, <2>0
  <2>2. ASSUME NEW i \in 1 .. Len(uframes)
        PROVE  /\ uframes'[i].live \/ uframes'[i].again => uframes'[i].k = "cb"
               /\ uframes'[i].k = "cb" => uframes'[i].fd \in Fds
               /\ uframes'[i].again => uframes'[i].fd \in EdgeFds
    BY <1>3 DEF UloopInv, StackInv
  <2>3. ASSUME NEW i \in 1 .. Len(uframes), uframes'[i].live, uframes'[i].again
        PROVE  fdRegistered'[uframes'[i].fd]
    <3>1. /\ uframes[i].live /\ uframes[i].again /\ uframes[i].fd \notin Gone
          /\ uframes[i].fd \in EdgeFds /\ fdRegistered[uframes[i].fd]
      BY <1>3, <2>3 DEF UloopInv, StackInv
    <3>2. uframes[i].fd # fd
      BY <1>2, <3>1
    <3> QED
      BY <1>3, <1>5, <1>a, <3>1, <3>2
  <2> QED
    BY <1>3, <2>1, <2>2, <2>3 DEF StackInv
<1>7. FetchInv'
  <2>1. \A f \in Fds : fdRegistered'[f] => ~fdDropped'[f]
    BY <1>5 DEF UloopInv, FetchInv
  <2>2. ASSUME NEW i \in 1 .. Len(curFds), curFds'[i] # NullFd
        PROVE  ~fdDropped'[curFds'[i]] /\ curFds'[i] = curFds[i]
    <3>1. curFds'[i] = curFds[i] /\ curFds[i] \in Fds /\ curFds[i] # fd
      BY <1>1, <2>2, <1>4 DEF UloopTypeOK
    <3> QED
      BY <1>5, <2>2, <3>1 DEF UloopInv, FetchInv
  <2>3. ASSUME NEW i \in 1 .. Len(curFds), NEW j \in 1 .. Len(curFds),
               curFds'[i] = curFds'[j], curFds'[i] # NullFd
        PROVE  i = j
    BY <2>2, <2>3 DEF UloopInv, FetchInv
  <2>4. ASSUME NEW i \in 1 .. Len(curFds), NEW j \in 1 .. Len(uframes),
               curFds'[i] \in EdgeFds, ~fdRegistered'[curFds'[i]], uframes'[j].live
        PROVE  uframes'[j].fd # curFds'[i]
    <3>1. curFds'[i] = curFds[i] /\ curFds[i] \in Fds /\ curFds[i] # fd
      BY <1>1, <1>a, <2>2, <2>4
    <3>2. ~fdRegistered[curFds[i]] /\ uframes[j].live
      BY <1>3, <1>5, <2>4, <3>1
    <3> QED
      BY <1>3, <2>4, <3>1, <3>2 DEF UloopInv, FetchInv
  <2> QED
    BY <1>1, <1>3, <2>1, <2>2, <2>3, <2>4 DEF FetchInv
<1>8. KeptInv'
  <2>1. ASSUME NEW f \in EdgeFds, unseen'[f], readable'[f], fdRegistered'[f]
        PROVE  edgePending'[f] \/ Fetched(f)' \/ Noted(f)'
    <3>1. /\ f \in Fds /\ f # fd /\ unseen[f] /\ readable[f] /\ fdRegistered[f]
          /\ edgePending'[f] = edgePending[f]
      BY <1>0, <1>5, <1>a, <1>t, <2>1 DEF UloopTypeOK
    <3>2. edgePending[f] \/ Fetched(f) \/ Noted(f)
      BY <3>1 DEF UloopInv, KeptInv
    <3>3. ASSUME Fetched(f) PROVE Fetched(f)'
      BY <1>1, <3>1, <3>3 DEF Fetched
    <3>4. ASSUME Noted(f) PROVE Noted(f)'
      <4>1. PICK i \in 1 .. Len(uframes) :
              uframes[i].fd = f /\ uframes[i].live /\ uframes[i].again
        BY <3>4 DEF Noted
      <4>2. uframes'[i] = uframes[i]
        BY <1>2, <1>3, <3>1, <4>1
      <4> QED
        BY <1>3, <4>1, <4>2 DEF Noted
    <3> QED
      BY <3>1, <3>2, <3>3, <3>4
  <2> QED
    BY <1>0, <2>1 DEF UloopInv, KeptInv
<1>9. OnceInv'
  BY <1>3 DEF UloopInv, OnceInv
<1>10. Head(uframes').again = Head(uframes).again
  <2>1. Head(uframes) = uframes[1] /\ Head(uframes') = uframes'[1] /\ 1 \in 1 .. Len(uframes)
    BY <1>3, <1>t DEF UloopInv, StackInv
  <2> QED
    BY <1>3, <2>1
<1> QED
  BY <1>3, <1>4, <1>6, <1>7, <1>8, <1>9, <1>10 DEF UloopInv
\* What is fetched was reported just now; a descriptor that hung up is taken out, with
\* its entry.
LEMMA FetchKeeps ==
  ASSUME UloopInv, uloop_fetch_events
  PROVE  /\ UloopInv' /\ Len(uframes') = Len(uframes)
         /\ Head(uframes').again = Head(uframes).again
<1> DEFINE hup == {f \in Reported : hungUpFd[f]}
           Gone == hup \intersect EdgeFds
<1>0. /\ curFds = <<>> /\ curFds' \in SetToSeqs(Reported)
      /\ fdRegistered' = [f \in Fds |-> fdRegistered[f] /\ f \notin hup]
      /\ edgePending' = [f \in Fds |-> edgePending[f] /\ f \notin Reported]
      /\ UNCHANGED <<fdDropped, readable, hungUpFd, uCancelled, unseen>>
  BY DEF uloop_fetch_events
<1>a. EdgeFds \subseteq Fds /\ NullFd \notin Fds /\ IsFiniteSet(Reported) /\ Reported \subseteq Fds
  <2>1. Reported \subseteq Fds
    BY DEF Reported
  <2> QED
    BY <2>1, UloopAssumption, FS_Subset
<1>t. UloopTypeOK /\ uframes \in Seq(Frame)
  BY DEF UloopInv, UloopTypeOK
<1>s. /\ \A i \in 1 .. Len(uframes) : uframes[i].live => uframes[i].k = "cb"
      /\ \A i, j \in 1 .. Len(uframes) :
           uframes[i].live /\ uframes[j].live /\ uframes[i].fd \in EdgeFds
             /\ uframes[i].fd = uframes[j].fd => i = j
  BY DEF UloopInv, StackInv, OnceInv
<1>1. /\ curFds' \in Seq(Reported)
      /\ \A i, j \in 1 .. Len(curFds') : curFds'[i] = curFds'[j] => i = j
      /\ \A f \in Reported : \E i \in 1 .. Len(curFds') : curFds'[i] = f
  BY <1>0, <1>a, SetInOrder, SMTT(20)
<1>2. uframes' = Emptied(uframes, Gone)
  <2>1. uframes' = [i \in 1 .. Len(uframes) |->
                      IF uframes[i].fd \in hup
                      THEN uloop_fd_stack_delete(uframes, uframes[i].fd)[i]
                      ELSE uframes[i]]
    BY <1>t DEF uloop_fetch_events
  <2>2. ASSUME NEW i \in 1 .. Len(uframes), uframes[i].fd \in hup
        PROVE  uloop_fd_stack_delete(uframes, uframes[i].fd)[i]
                 = IF uframes[i].fd \in EdgeFds THEN [uframes[i] EXCEPT !.live = FALSE]
                   ELSE uframes[i]
    <3>1. CASE uframes[i].fd \in EdgeFds
      <4>1. uloop_fd_stack_delete(uframes, uframes[i].fd) = Emptied(uframes, {uframes[i].fd})
        BY <1>s, <1>t, <3>1, EntryDeleted
      <4>2. Emptied(uframes, {uframes[i].fd})[i] = [uframes[i] EXCEPT !.live = FALSE]
        BY DEF Emptied
      <4> QED
        BY <3>1, <4>1, <4>2
    <3>2. CASE uframes[i].fd \notin EdgeFds
      BY <3>2 DEF uloop_fd_stack_delete
    <3> QED
      BY <3>1, <3>2
  <2>3. ASSUME NEW i \in 1 .. Len(uframes)
        PROVE  (IF uframes[i].fd \in hup
                THEN uloop_fd_stack_delete(uframes, uframes[i].fd)[i] ELSE uframes[i])
               = IF uframes[i].fd \in Gone THEN [uframes[i] EXCEPT !.live = FALSE]
                 ELSE uframes[i]
    <3>1. CASE uframes[i].fd \in hup
      BY <2>2, <3>1
    <3>2. CASE uframes[i].fd \notin hup
      BY <3>2
    <3> QED
      BY <3>1, <3>2
  <2> QED
    BY <2>1, <2>3 DEF Emptied
<1> HIDE DEF Gone
<1>3. /\ uframes' \in Seq(Frame) /\ Len(uframes') = Len(uframes)
      /\ \A i \in 1 .. Len(uframes) :
           /\ uframes'[i].k = uframes[i].k /\ uframes'[i].fd = uframes[i].fd
           /\ uframes'[i].again = uframes[i].again
           /\ uframes'[i].live => uframes[i].live /\ uframes[i].fd \notin Gone
           /\ uframes[i].fd \notin Gone => uframes'[i] = uframes[i]
  BY <1>2, <1>t, EntriesGone
<1>g. /\ Gone \subseteq hup /\ \A f \in hup : f \in EdgeFds => f \in Gone
      /\ hup \subseteq Reported
  BY DEF Gone
<1> HIDE DEF hup
<1>4. UloopTypeOK'
  BY <1>0, <1>1, <1>3, <1>a, <1>t DEF UloopTypeOK
<1>5. \A f \in Fds : fdRegistered'[f] <=> fdRegistered[f] /\ f \notin hup
  BY <1>0
<1>6. StackInv'
  <2>0. Len(uframes) \in Nat /\ Len(uframes) > 0 /\ uframes[Len(uframes)].k = "main"
    BY <1>t DEF UloopInv, StackInv
  <2>1. Len(uframes') > 0 /\ uframes'[Len(uframes')].k = "main"
    BY <1>3, <2>0
  <2>2. ASSUME NEW i \in 1 .. Len(uframes)
        PROVE  /\ uframes'[i].live \/ uframes'[i].again => uframes'[i].k = "cb"
               /\ uframes'[i].k = "cb" => uframes'[i].fd \in Fds
               /\ uframes'[i].again => uframes'[i].fd \in EdgeFds
    BY <1>3 DEF UloopInv, StackInv
  <2>3. ASSUME NEW i \in 1 .. Len(uframes), uframes'[i].live, uframes'[i].again
        PROVE  fdRegistered'[uframes'[i].fd]
    <3>1. /\ uframes[i].live /\ uframes[i].again /\ uframes[i].fd \notin Gone
          /\ uframes[i].fd \in EdgeFds /\ fdRegistered[uframes[i].fd]
      BY <1>3, <2>3 DEF UloopInv, StackInv
    <3> QED
      BY <1>3, <1>5, <1>a, <1>g, <3>1
  <2> QED
    BY <1>3, <2>1, <2>2, <2>3 DEF StackInv
<1>7. FetchInv'
  <2>1. \A f \in Fds : fdRegistered'[f] => ~fdDropped'[f]
    BY <1>0, <1>5 DEF UloopInv, FetchInv
  <2>2. ASSUME NEW i \in 1 .. Len(curFds')
        PROVE  curFds'[i] \in Reported /\ ~fdDropped'[curFds'[i]]
    <3>1. curFds'[i] \in Reported /\ curFds'[i] \in Fds /\ fdRegistered[curFds'[i]]
      BY <1>1 DEF Reported
    <3> QED
      BY <1>0, <3>1 DEF UloopInv, FetchInv
  <2>3. ASSUME NEW i \in 1 .. Len(curFds'), NEW j \in 1 .. Len(uframes),
               curFds'[i] \in EdgeFds, ~fdRegistered'[curFds'[i]], uframes'[j].live
        PROVE  uframes'[j].fd # curFds'[i]
    <3>1. fdRegistered[curFds'[i]] /\ curFds'[i] \in Fds
      BY <2>2 DEF Reported
    <3>2. curFds'[i] \in Gone
      BY <1>5, <1>g, <2>3, <3>1
    <3> QED
      BY <1>3, <2>3, <3>2
  <2> QED
    BY <1>1, <1>3, <2>1, <2>2, <2>3 DEF FetchInv
<1>8. KeptInv'
  <2>1. ASSUME NEW f \in EdgeFds, unseen'[f], readable'[f], fdRegistered'[f]
        PROVE  edgePending'[f] \/ Fetched(f)' \/ Noted(f)'
    <3>1. /\ f \in Fds /\ f \notin hup /\ unseen[f] /\ readable[f] /\ fdRegistered[f]
      BY <1>0, <1>5, <1>a, <2>1
    <3>2. edgePending[f] \/ Noted(f)
      <4>1. ~Fetched(f)
        BY <1>0 DEF Fetched
      <4> QED
        BY <3>1, <4>1 DEF UloopInv, KeptInv
    <3>3. ASSUME edgePending[f] PROVE Fetched(f)'
      <4>1. f \in Reported
        BY <2>1, <3>1, <3>3 DEF Reported
      <4> QED
        BY <1>1, <4>1 DEF Fetched
    <3>4. ASSUME Noted(f) PROVE Noted(f)'
      <4>1. PICK i \in 1 .. Len(uframes) :
              uframes[i].fd = f /\ uframes[i].live /\ uframes[i].again
        BY <3>4 DEF Noted
      <4>2. uframes'[i] = uframes[i]
        BY <1>3, <1>g, <3>1, <4>1
      <4> QED
        BY <1>3, <4>1, <4>2 DEF Noted
    <3> QED
      BY <3>2, <3>3, <3>4
  <2> QED
    BY <1>0, <2>1 DEF UloopInv, KeptInv
<1>9. OnceInv'
  BY <1>3 DEF UloopInv, OnceInv
<1>10. Head(uframes').again = Head(uframes).again
  <2>1. Head(uframes) = uframes[1] /\ Head(uframes') = uframes'[1] /\ 1 \in 1 .. Len(uframes)
    BY <1>3, <1>t DEF UloopInv, StackInv
  <2> QED
    BY <1>3, <2>1
<1> QED
  BY <1>3, <1>4, <1>6, <1>7, <1>8, <1>9, <1>10 DEF UloopInv
\* A frame of a run, or of a callback that runs nowhere else on the stack if its
\* descriptor is edge-triggered, pushed on the stack.
LEMMA PushKeepsStack ==
  ASSUME UloopInv, NEW x \in Frame, ~x.again, x.live => x.k = "cb", x.k = "cb" => x.fd \in Fds,
         x.live /\ x.fd \in EdgeFds =>
           \A i \in 1 .. Len(uframes) : uframes[i].live => uframes[i].fd # x.fd,
         uframes' = <<x>> \o uframes, fdRegistered' = fdRegistered
  PROVE  /\ uframes' \in Seq(Frame) /\ StackInv' /\ OnceInv' /\ \A f : Noted(f) => Noted(f)'
         /\ Len(uframes') = Len(uframes) + 1 /\ uframes'[1] = x
         /\ \A i \in 1 .. Len(uframes') :
              i = 1 \/ (i - 1 \in 1 .. Len(uframes) /\ uframes'[i] = uframes[i - 1])
<1>t. uframes \in Seq(Frame) /\ Len(uframes) \in Nat
  BY DEF UloopInv, UloopTypeOK
<1>1. /\ uframes' \in Seq(Frame) /\ Len(uframes') = Len(uframes) + 1
      /\ uframes'[1] = x
      /\ \A i \in 1 .. Len(uframes) : uframes'[i + 1] = uframes[i]
      /\ \A i \in 1 .. Len(uframes) + 1 : i = 1 \/ i - 1 \in 1 .. Len(uframes)
  BY <1>t, FramePushed
<1>2. \A i \in 1 .. Len(uframes') :
        i = 1 \/ (i - 1 \in 1 .. Len(uframes) /\ uframes'[i] = uframes[i - 1])
  <2> SUFFICES ASSUME NEW i \in 1 .. Len(uframes'), i # 1
               PROVE  i - 1 \in 1 .. Len(uframes) /\ uframes'[i] = uframes[i - 1]
    OBVIOUS
  <2>1. PICK j \in 1 .. Len(uframes) : j = i - 1
    BY <1>1
  <2>2. uframes'[j + 1] = uframes[j] /\ j + 1 = i
    BY <1>1, <1>t, <2>1
  <2> QED
    BY <2>1, <2>2
<1>3. StackInv'
  <2>1. Len(uframes) > 0 /\ uframes[Len(uframes)].k = "main" /\ Len(uframes) \in 1 .. Len(uframes)
    BY <1>t DEF UloopInv, StackInv
  <2>2. Len(uframes') > 0 /\ uframes'[Len(uframes')].k = "main"
    BY <1>1, <1>t, <2>1
  <2>3. ASSUME NEW i \in 1 .. Len(uframes')
        PROVE  /\ uframes'[i].live \/ uframes'[i].again => uframes'[i].k = "cb"
               /\ uframes'[i].k = "cb" => uframes'[i].fd \in Fds
               /\ uframes'[i].again => uframes'[i].fd \in EdgeFds
               /\ uframes'[i].live /\ uframes'[i].again => fdRegistered[uframes'[i].fd]
    <3>1. CASE i = 1
      BY <1>1, <3>1
    <3>2. CASE i # 1
      <4>1. PICK j \in 1 .. Len(uframes) : uframes'[i] = uframes[j]
        BY <1>2, <3>2
      <4> QED
        BY <4>1 DEF UloopInv, StackInv
    <3> QED
      BY <3>1, <3>2
  <2> QED
    BY <2>2, <2>3 DEF StackInv
<1>4. OnceInv'
  <2> SUFFICES ASSUME NEW i \in 1 .. Len(uframes'), NEW j \in 1 .. Len(uframes'),
                      uframes'[i].live, uframes'[j].live, uframes'[i].fd \in EdgeFds,
                      uframes'[i].fd = uframes'[j].fd
               PROVE  i = j
    BY DEF OnceInv
  <2>0. \A k \in 1 .. Len(uframes') : k # 1 => ~(uframes'[k].live /\ x.live
                                          /\ x.fd \in EdgeFds /\ uframes'[k].fd = x.fd)
    <3> SUFFICES ASSUME NEW k \in 1 .. Len(uframes'), k # 1
                 PROVE  ~(uframes'[k].live /\ x.live /\ x.fd \in EdgeFds /\ uframes'[k].fd = x.fd)
      OBVIOUS
    <3>1. PICK m \in 1 .. Len(uframes) : uframes'[k] = uframes[m]
      BY <1>2
    <3> QED
      BY <3>1
  <2>1. CASE i = 1 /\ j # 1
    BY <1>1, <2>0, <2>1
  <2>2. CASE i # 1 /\ j = 1
    BY <1>1, <2>0, <2>2
  <2>3. CASE i # 1 /\ j # 1
    <3>1. PICK k, m \in 1 .. Len(uframes) :
            k = i - 1 /\ m = j - 1 /\ uframes'[i] = uframes[k] /\ uframes'[j] = uframes[m]
      BY <1>2, <2>3
    <3>2. k = m
      BY <3>1 DEF UloopInv, OnceInv
    <3> QED
      BY <3>1, <3>2
  <2> QED
    BY <2>1, <2>2, <2>3
<1>5. ASSUME NEW f, Noted(f)
      PROVE  Noted(f)'
  <2>1. PICK i \in 1 .. Len(uframes) : uframes[i].fd = f /\ uframes[i].live /\ uframes[i].again
    BY <1>5 DEF Noted
  <2>2. i + 1 \in 1 .. Len(uframes') /\ uframes'[i + 1] = uframes[i]
    BY <1>1, <1>t
  <2> QED
    BY <2>1, <2>2 DEF Noted
<1> QED
  BY <1>1, <1>2, <1>3, <1>4, <1>5

\* The top frame, of a run or of a callback for which no event is noted, leaves the
\* stack.
LEMMA PopKeepsStack ==
  ASSUME UloopInv, uframes[1].k # "main", ~(uframes[1].live /\ uframes[1].again),
         uframes' = Tail(uframes), fdRegistered' = fdRegistered
  PROVE  /\ uframes' \in Seq(Frame) /\ StackInv' /\ OnceInv' /\ \A f : Noted(f) => Noted(f)'
         /\ Len(uframes') = Len(uframes) - 1
         /\ \A i \in 1 .. Len(uframes') : i + 1 \in 1 .. Len(uframes) /\ uframes'[i] = uframes[i + 1]
<1>t. uframes \in Seq(Frame) /\ Len(uframes) \in Nat /\ Len(uframes) > 0
  BY DEF UloopInv, UloopTypeOK, StackInv
<1>e. uframes # <<>>
  BY <1>t
<1>1. /\ uframes' \in Seq(Frame) /\ Len(uframes') = Len(uframes) - 1
      /\ \A i \in 1 .. Len(uframes') : uframes'[i] = uframes[i + 1] /\ i + 1 \in 1 .. Len(uframes)
      /\ \A i \in 1 .. Len(uframes) : i = 1 \/ i - 1 \in 1 .. Len(uframes')
  BY <1>e, <1>t, TopTaken
<1>3. StackInv'
  <2>1. uframes[Len(uframes)].k = "main" /\ Len(uframes) # 1
    BY DEF UloopInv, StackInv
  <2>2. Len(uframes') \in 1 .. Len(uframes') /\ Len(uframes') + 1 = Len(uframes)
    BY <1>1, <1>t, <2>1
  <2>3. Len(uframes') > 0 /\ uframes'[Len(uframes')].k = "main"
    BY <1>1, <2>1, <2>2
  <2>4. ASSUME NEW i \in 1 .. Len(uframes')
        PROVE  /\ uframes'[i].live \/ uframes'[i].again => uframes'[i].k = "cb"
               /\ uframes'[i].k = "cb" => uframes'[i].fd \in Fds
               /\ uframes'[i].again => uframes'[i].fd \in EdgeFds
               /\ uframes'[i].live /\ uframes'[i].again => fdRegistered[uframes'[i].fd]
    <3>1. PICK j \in 1 .. Len(uframes) : uframes'[i] = uframes[j]
      BY <1>1
    <3> QED
      BY <3>1 DEF UloopInv, StackInv
  <2> QED
    BY <2>3, <2>4 DEF StackInv
<1>4. OnceInv'
  <2> SUFFICES ASSUME NEW i \in 1 .. Len(uframes'), NEW j \in 1 .. Len(uframes'),
                      uframes'[i].live, uframes'[j].live, uframes'[i].fd \in EdgeFds,
                      uframes'[i].fd = uframes'[j].fd
               PROVE  i = j
    BY DEF OnceInv
  <2>1. PICK k, m \in 1 .. Len(uframes) :
          k = i + 1 /\ m = j + 1 /\ uframes'[i] = uframes[k] /\ uframes'[j] = uframes[m]
    BY <1>1
  <2>2. k = m
    BY <2>1 DEF UloopInv, OnceInv
  <2> QED
    BY <2>1, <2>2
<1>5. ASSUME NEW f, Noted(f)
      PROVE  Noted(f)'
  <2>1. PICK i \in 1 .. Len(uframes) : uframes[i].fd = f /\ uframes[i].live /\ uframes[i].again
    BY <1>5 DEF Noted
  <2>2. PICK j \in 1 .. Len(uframes') : j = i - 1
    BY <1>1, <2>1
  <2>3. uframes'[j] = uframes[i]
    <3>1. uframes'[j] = uframes[j + 1] /\ j + 1 = i
      BY <1>1, <2>2
    <3> QED
      BY <3>1
  <2> QED
    BY <2>1, <2>3 DEF Noted
<1> QED
  BY <1>1, <1>3, <1>4, <1>5

\* A loop started, ended, or a callback that returned for good.
LEMMA CallsKeep ==
  ASSUME UloopInv,
         uloop_run \/ RunEnds \/ (CbReturns /\ ~(UTop.live /\ UTop.again))
  PROVE  UloopInv'
<1>0. /\ UNCHANGED <<fdRegistered, fdDropped, readable, hungUpFd, edgePending, curFds, unseen>>
      /\ uCancelled' \in BOOLEAN
  BY DEF uloop_run, RunEnds, CbReturns, UloopInv, UloopTypeOK
<1>t. UloopTypeOK /\ uframes \in Seq(Frame) /\ Len(uframes) > 0
  BY DEF UloopInv, UloopTypeOK, StackInv
<1>h. UTop = uframes[1]
  BY <1>t DEF UTop
<1>1. /\ uframes' \in Seq(Frame) /\ StackInv' /\ OnceInv' /\ \A f : Noted(f) => Noted(f)'
      /\ \A j \in 1 .. Len(uframes') :
           uframes'[j].live => \E k \in 1 .. Len(uframes) : uframes'[j] = uframes[k]
  <2>1. CASE uloop_run
    <3>1. RunFrame \in Frame /\ ~RunFrame.again /\ ~RunFrame.live /\ RunFrame.k # "cb"
      BY DEF RunFrame, Frame
    <3>2. uframes' = <<RunFrame>> \o uframes
      BY <2>1 DEF uloop_run
    <3>3. /\ uframes' \in Seq(Frame) /\ StackInv' /\ OnceInv' /\ \A f : Noted(f) => Noted(f)'
          /\ uframes'[1] = RunFrame
          /\ \A i \in 1 .. Len(uframes') :
               i = 1 \/ (i - 1 \in 1 .. Len(uframes) /\ uframes'[i] = uframes[i - 1])
      BY <1>0, <3>1, <3>2, PushKeepsStack
    <3> QED
      BY <3>1, <3>3
  <2>2. CASE RunEnds \/ (CbReturns /\ ~(UTop.live /\ UTop.again))
    <3>1. /\ uframes[1].k # "main" /\ ~(uframes[1].live /\ uframes[1].again)
          /\ uframes' = Tail(uframes)
      <4>1. UTop.k = "run" => ~UTop.live
        BY <1>h, <1>t DEF UloopInv, StackInv
      <4> QED
        BY <1>h, <2>2, <4>1 DEF RunEnds, CbReturns
    <3>2. /\ uframes' \in Seq(Frame) /\ StackInv' /\ OnceInv' /\ \A f : Noted(f) => Noted(f)'
          /\ \A i \in 1 .. Len(uframes') :
               i + 1 \in 1 .. Len(uframes) /\ uframes'[i] = uframes[i + 1]
      BY <1>0, <3>1, PopKeepsStack
    <3> QED
      BY <3>2
  <2> QED
    BY <2>1, <2>2
<1>2. UloopTypeOK'
  BY <1>0, <1>1, <1>t DEF UloopTypeOK
<1>3. FetchInv'
  <2>1. ASSUME NEW i \in 1 .. Len(curFds), NEW j \in 1 .. Len(uframes'),
               curFds[i] \in EdgeFds, ~fdRegistered[curFds[i]], uframes'[j].live
        PROVE  uframes'[j].fd # curFds[i]
    BY <1>1, <2>1 DEF UloopInv, FetchInv
  <2> QED
    BY <1>0, <2>1 DEF UloopInv, FetchInv
<1>4. KeptInv'
  <2>1. \A f : Fetched(f)' <=> Fetched(f)
    BY <1>0 DEF Fetched
  <2> QED
    BY <1>0, <1>1, <2>1 DEF UloopInv, KeptInv
<1> QED
  BY <1>1, <1>2, <1>3, <1>4 DEF UloopInv

\* A callback called again for an event noted meanwhile: its descriptor has not been
\* deleted.
LEMMA AgainKeeps ==
  ASSUME UloopInv, CbReturns, UTop.live /\ UTop.again
  PROVE  UloopInv' /\ UTop.fd \in Fds /\ ~fdDropped[UTop.fd]
<1>t. UloopTypeOK /\ uframes \in Seq(Frame) /\ Len(uframes) \in Nat /\ Len(uframes) > 0
  BY DEF UloopInv, UloopTypeOK, StackInv
<1>e. uframes # <<>>
  BY <1>t
<1>h. UTop = uframes[1] /\ 1 \in 1 .. Len(uframes)
  BY <1>t DEF UTop
<1>1. PICK g \in Fds : g = UTop.fd /\ g \in EdgeFds /\ fdRegistered[g] /\ ~fdDropped[g]
  BY <1>h DEF CbReturns, UloopInv, StackInv, FetchInv
<1>0. /\ UNCHANGED <<fdRegistered, fdDropped, readable, hungUpFd, edgePending, curFds, uCancelled>>
      /\ unseen' = [unseen EXCEPT ![g] = FALSE]
      /\ uframes' = <<CbFrame(g)>> \o Tail(uframes)
  BY <1>1 DEF CbReturns
<1>2. /\ CbFrame(g) \in Frame /\ CbFrame(g).k = "cb" /\ CbFrame(g).fd = g
      /\ CbFrame(g).live /\ ~CbFrame(g).again
  BY DEF CbFrame, Frame
<1>3. /\ uframes' \in Seq(Frame) /\ Len(uframes') = Len(uframes)
      /\ uframes'[1] = CbFrame(g)
      /\ \A i \in 1 .. Len(uframes) : i # 1 => uframes'[i] = uframes[i]
  <2>1. PICK s : s = Tail(uframes)
    OBVIOUS
  <2>2. /\ s \in Seq(Frame) /\ Len(s) = Len(uframes) - 1
        /\ \A i \in 1 .. Len(s) : s[i] = uframes[i + 1] /\ i + 1 \in 1 .. Len(uframes)
        /\ \A i \in 1 .. Len(uframes) : i = 1 \/ i - 1 \in 1 .. Len(s)
    BY <1>e, <1>t, <2>1, TopTaken
  <2>3. /\ uframes' \in Seq(Frame) /\ Len(uframes') = Len(s) + 1
        /\ uframes'[1] = CbFrame(g)
        /\ \A i \in 1 .. Len(s) : uframes'[i + 1] = s[i]
    BY <1>0, <1>2, <2>1, <2>2, FramePushed
  <2>4. ASSUME NEW i \in 1 .. Len(uframes), i # 1
        PROVE  uframes'[i] = uframes[i]
    <3>1. PICK j \in 1 .. Len(s) : j = i - 1
      BY <2>2, <2>4
    <3>2. uframes'[j + 1] = uframes[j + 1] /\ j + 1 = i
      BY <2>2, <2>3, <3>1
    <3> QED
      BY <3>2
  <2> QED
    BY <1>t, <2>2, <2>3, <2>4
<1>4. \A i \in 1 .. Len(uframes) : /\ uframes'[i].k = uframes[i].k
                                   /\ uframes'[i].fd = uframes[i].fd
                                   /\ uframes'[i].live = uframes[i].live
                                   /\ uframes'[i].again => uframes[i].again
  <2>1. uframes[1].k = "cb" /\ uframes[1].fd = g /\ uframes[1].live = TRUE
    <3>1. uframes[1] \in Frame
      BY <1>h, <1>t
    <3> QED
      BY <1>1, <1>h, <3>1 DEF CbReturns, Frame
  <2>2. CbFrame(g).live = TRUE
    BY DEF CbFrame
  <2> QED
    BY <1>2, <1>3, <2>1, <2>2
<1>5. UloopTypeOK'
  BY <1>0, <1>3, <1>t DEF UloopTypeOK
<1>6. StackInv'
  <2>0. uframes[Len(uframes)].k = "main" /\ Len(uframes) \in 1 .. Len(uframes)
    BY <1>t DEF UloopInv, StackInv
  <2>1. Len(uframes') > 0 /\ uframes'[Len(uframes')].k = "main"
    BY <1>3, <1>4, <1>t, <2>0
  <2>2. ASSUME NEW i \in 1 .. Len(uframes)
        PROVE  /\ uframes'[i].live \/ uframes'[i].again => uframes'[i].k = "cb"
               /\ uframes'[i].k = "cb" => uframes'[i].fd \in Fds
               /\ uframes'[i].again => uframes'[i].fd \in EdgeFds
               /\ uframes'[i].live /\ uframes'[i].again => fdRegistered[uframes'[i].fd]
    BY <1>4 DEF UloopInv, StackInv
  <2> QED
    BY <1>0, <1>3, <2>1, <2>2 DEF StackInv
<1>7. FetchInv'
  <2>1. ASSUME NEW i \in 1 .. Len(curFds), NEW j \in 1 .. Len(uframes),
               curFds[i] \in EdgeFds, ~fdRegistered[curFds[i]], uframes'[j].live
        PROVE  uframes'[j].fd # curFds[i]
    <3>1. uframes[j].live /\ uframes'[j].fd = uframes[j].fd
      BY <1>4, <2>1
    <3> QED
      BY <2>1, <3>1 DEF UloopInv, FetchInv
  <2> QED
    BY <1>0, <1>3, <2>1 DEF UloopInv, FetchInv
<1>8. KeptInv'
  <2>1. ASSUME NEW f \in EdgeFds, unseen'[f], readable'[f], fdRegistered'[f]
        PROVE  edgePending'[f] \/ Fetched(f)' \/ Noted(f)'
    <3>0. f \in Fds
      BY UloopAssumption
    <3>1. f # g /\ unseen[f]
      BY <1>0, <1>t, <2>1, <3>0 DEF UloopTypeOK
    <3>2. edgePending[f] \/ Fetched(f) \/ Noted(f)
      BY <1>0, <2>1, <3>1 DEF UloopInv, KeptInv
    <3>3. Fetched(f) => Fetched(f)'
      BY <1>0 DEF Fetched
    <3>4. ASSUME Noted(f) PROVE Noted(f)'
      <4>1. PICK i \in 1 .. Len(uframes) :
              uframes[i].fd = f /\ uframes[i].live /\ uframes[i].again
        BY <3>4 DEF Noted
      <4>2. uframes'[i] = uframes[i]
        BY <1>1, <1>3, <1>h, <3>1, <4>1
      <4> QED
        BY <1>3, <4>1, <4>2 DEF Noted
    <3> QED
      BY <1>0, <3>2, <3>3, <3>4
  <2> QED
    BY <1>0, <2>1 DEF UloopInv, KeptInv
<1>9. OnceInv'
  BY <1>3, <1>4 DEF UloopInv, OnceInv
<1> QED
  BY <1>1, <1>5, <1>6, <1>7, <1>8, <1>9 DEF UloopInv
\* The first of the fetched events is skipped, noted for the callback that runs, or
\* served: its descriptor has not been deleted.
LEMMA ServeKeeps ==
  ASSUME UloopInv, uloop_run_events
  PROVE  /\ UloopInv'
         /\ \/ Len(uframes') = Len(uframes)
                 /\ (Head(uframes).again => Head(uframes').again)
            \/ /\ Len(uframes') = Len(uframes) + 1 /\ Head(uframes').fd \in Fds
               /\ ~fdDropped[Head(uframes').fd]
<1>a. EdgeFds \subseteq Fds /\ NullFd \notin Fds
  BY UloopAssumption
<1>t. /\ UloopTypeOK /\ uframes \in Seq(Frame) /\ Len(uframes) \in Nat /\ Len(uframes) > 0
      /\ curFds \in Seq(Fds \union {NullFd}) /\ curFds # <<>>
  BY DEF UloopInv, UloopTypeOK, StackInv, uloop_run_events
<1>h. Head(uframes) = uframes[1] /\ 1 \in 1 .. Len(uframes)
  BY <1>t
<1>0. /\ curFds' = Tail(curFds)
      /\ UNCHANGED <<fdRegistered, fdDropped, readable, hungUpFd, edgePending, uCancelled>>
  BY DEF uloop_run_events
<1>1. PICK fd \in Fds \union {NullFd} : fd = Head(curFds) /\ fd = curFds[1]
  BY <1>t, TopTaken
<1>2. /\ curFds' \in Seq(Fds \union {NullFd}) /\ 1 \in 1 .. Len(curFds)
      /\ \A i \in 1 .. Len(curFds') : curFds'[i] = curFds[i + 1] /\ i + 1 \in 1 .. Len(curFds)
      /\ \A i \in 1 .. Len(curFds) : i = 1 \/ i - 1 \in 1 .. Len(curFds')
  BY <1>0, <1>t, TopTaken
<1>3. \A f : Fetched(f) => f = fd \/ Fetched(f)'
  <2> SUFFICES ASSUME NEW f, Fetched(f), f # fd PROVE Fetched(f)'
    OBVIOUS
  <2>1. PICK i \in 1 .. Len(curFds) : curFds[i] = f
    BY DEF Fetched
  <2>2. PICK j \in 1 .. Len(curFds') : j = i - 1
    BY <1>1, <1>2, <2>1
  <2>3. curFds'[j] = curFds[j + 1] /\ j + 1 = i
    BY <1>2, <2>2
  <2> QED
    BY <2>1, <2>3 DEF Fetched
<1>4. /\ \A f \in Fds : fdRegistered'[f] => ~fdDropped'[f]
      /\ \A i \in 1 .. Len(curFds') : curFds'[i] # NullFd => ~fdDropped'[curFds'[i]]
      /\ \A i, j \in 1 .. Len(curFds') :
           curFds'[i] = curFds'[j] /\ curFds'[i] # NullFd => i = j
      /\ \A i \in 1 .. Len(curFds') : curFds'[i] = fd => fd = NullFd
  <2>1. \A i \in 1 .. Len(curFds') : curFds'[i] # NullFd => ~fdDropped'[curFds'[i]]
    <3> SUFFICES ASSUME NEW i \in 1 .. Len(curFds'), curFds'[i] # NullFd
                 PROVE  ~fdDropped[curFds'[i]]
      BY <1>0
    <3>1. PICK k \in 1 .. Len(curFds) : curFds'[i] = curFds[k]
      BY <1>2
    <3> QED
      BY <3>1 DEF UloopInv, FetchInv
  <2>2. ASSUME NEW i \in 1 .. Len(curFds'), NEW j \in 1 .. Len(curFds'),
               curFds'[i] = curFds'[j], curFds'[i] # NullFd
        PROVE  i = j
    <3>1. PICK k, m \in 1 .. Len(curFds) :
            k = i + 1 /\ m = j + 1 /\ curFds'[i] = curFds[k] /\ curFds'[j] = curFds[m]
      BY <1>2
    <3>2. k = m
      BY <2>2, <3>1 DEF UloopInv, FetchInv
    <3> QED
      BY <3>1, <3>2
  <2>3. ASSUME NEW i \in 1 .. Len(curFds'), curFds'[i] = fd, fd # NullFd
        PROVE  FALSE
    <3>1. PICK k \in 1 .. Len(curFds) : k = i + 1 /\ curFds'[i] = curFds[k]
      BY <1>2
    <3>2. k = 1
      BY <1>1, <1>2, <2>3, <3>1 DEF UloopInv, FetchInv
    <3> QED
      BY <3>1, <3>2
  <2> QED
    BY <1>0, <2>1, <2>2, <2>3 DEF UloopInv, FetchInv
<1>5. ASSUME NEW i \in 1 .. Len(curFds'), NEW j \in 1 .. Len(uframes),
             curFds'[i] \in EdgeFds, ~fdRegistered[curFds'[i]], uframes[j].live
      PROVE  uframes[j].fd # curFds'[i]
  <2>1. PICK k \in 1 .. Len(curFds) : curFds'[i] = curFds[k]
    BY <1>2
  <2> QED
    BY <1>5, <2>1 DEF UloopInv, FetchInv
<1>6. CASE fd = NullFd
  <2>0. UNCHANGED <<uframes, unseen>>
    BY <1>1, <1>6 DEF uloop_run_events
  <2>1. UloopTypeOK' /\ StackInv' /\ OnceInv'
    BY <1>0, <1>2, <1>t, <2>0 DEF UloopInv, UloopTypeOK, StackInv, OnceInv
  <2>2. FetchInv'
    BY <1>0, <1>4, <1>5, <2>0 DEF FetchInv
  <2>3. KeptInv'
    <3>1. \A f : Noted(f)' <=> Noted(f)
      BY <2>0 DEF Noted
    <3> QED
      BY <1>0, <1>3, <1>6, <1>a, <2>0, <3>1 DEF UloopInv, KeptInv
  <2> QED
    BY <2>0, <2>1, <2>2, <2>3 DEF UloopInv
<1>7. CASE fd # NullFd /\ fd \in EdgeFds /\ fdRegistered[fd] /\ StackEntry(uframes, fd) # 0
  <2>1. PICK e \in 1 .. Len(uframes) :
          e = StackEntry(uframes, fd) /\ uframes[e].live /\ uframes[e].fd = fd
    <3>1. \A i \in 1 .. Len(uframes) : uframes[i].live => uframes[i].k = "cb"
      BY DEF UloopInv, StackInv
    <3> QED
      BY <1>7, <1>t, <3>1, EntryFound
  <2>0. uframes' = [uframes EXCEPT ![e].again = TRUE] /\ unseen' = unseen
    <3>1. uframes' = Buffered(fd) /\ unseen' = unseen
      BY <1>1, <1>7 DEF uloop_run_events
    <3> QED
      BY <2>1, <3>1 DEF Buffered
  <2>2. /\ uframes' \in Seq(Frame) /\ Len(uframes') = Len(uframes)
        /\ \A i \in 1 .. Len(uframes) : i # e => uframes'[i] = uframes[i]
        /\ uframes'[e] = [uframes[e] EXCEPT !.again = TRUE]
    <3>1. PICK x \in Frame : x = [uframes[e] EXCEPT !.again = TRUE]
      <4>1. PICK y \in Frame : y = uframes[e]
        BY <1>t
      <4>2. [y EXCEPT !.again = TRUE] \in Frame
        BY DEF Frame
      <4> QED
        BY <4>1, <4>2
    <3>2. uframes' = [uframes EXCEPT ![e] = x]
      BY <2>0, <3>1
    <3>3. /\ uframes' \in Seq(Frame) /\ Len(uframes') = Len(uframes) /\ uframes'[e] = x
          /\ \A i \in 1 .. Len(uframes) : i # e => uframes'[i] = uframes[i]
      BY <1>t, <3>2
    <3> QED
      BY <3>1, <3>3
  <2>3. \A i \in 1 .. Len(uframes) :
          /\ uframes'[i].k = uframes[i].k /\ uframes'[i].fd = uframes[i].fd
          /\ uframes'[i].live = uframes[i].live
          /\ uframes[i].again => uframes'[i].again
          /\ uframes'[i].again => uframes[i].again \/ i = e
    <3>1. PICK y \in Frame : y = uframes[e]
      BY <1>t
    <3>2. /\ uframes'[e].k = y.k /\ uframes'[e].fd = y.fd /\ uframes'[e].live = y.live
          /\ uframes'[e].again
      BY <2>2, <3>1 DEF Frame
    <3> QED
      BY <2>2, <3>1, <3>2
  <2>4. UloopTypeOK'
    BY <1>0, <1>2, <1>t, <2>0, <2>2 DEF UloopTypeOK
  <2>5. StackInv'
    <3>0. uframes[Len(uframes)].k = "main" /\ Len(uframes) \in 1 .. Len(uframes)
      BY <1>t DEF UloopInv, StackInv
    <3>1. Len(uframes') > 0 /\ uframes'[Len(uframes')].k = "main"
      BY <1>t, <2>2, <2>3, <3>0
    <3>2. ASSUME NEW i \in 1 .. Len(uframes)
          PROVE  /\ uframes'[i].live \/ uframes'[i].again => uframes'[i].k = "cb"
                 /\ uframes'[i].k = "cb" => uframes'[i].fd \in Fds
                 /\ uframes'[i].again => uframes'[i].fd \in EdgeFds
                 /\ uframes'[i].live /\ uframes'[i].again => fdRegistered[uframes'[i].fd]
      BY <1>7, <2>1, <2>3 DEF UloopInv, StackInv
    <3> QED
      BY <1>0, <2>2, <3>1, <3>2 DEF StackInv
  <2>6. FetchInv'
    <3>1. ASSUME NEW i \in 1 .. Len(curFds'), NEW j \in 1 .. Len(uframes),
                 curFds'[i] \in EdgeFds, ~fdRegistered[curFds'[i]], uframes'[j].live
          PROVE  uframes'[j].fd # curFds'[i]
      BY <1>5, <2>3, <3>1
    <3> QED
      BY <1>0, <1>4, <2>2, <3>1 DEF FetchInv
  <2>7. KeptInv'
    <3>1. Noted(fd)'
      <4>1. uframes'[e].fd = fd /\ uframes'[e].live /\ uframes'[e].again
        <5>1. PICK y \in Frame : y = uframes[e]
          BY <1>t
        <5>2. uframes'[e].again
          BY <2>2, <5>1 DEF Frame
        <5> QED
          BY <2>1, <2>3, <5>2
      <4>2. e \in 1 .. Len(uframes')
        BY <2>2
      <4> QED
        BY <4>1, <4>2 DEF Noted
    <3>2. \A f : Noted(f) => Noted(f)'
      BY <2>2, <2>3 DEF Noted
    <3> QED
      BY <1>0, <1>3, <2>0, <3>1, <3>2 DEF UloopInv, KeptInv
  <2>8. OnceInv'
    BY <2>2, <2>3 DEF UloopInv, OnceInv
  <2>9. Head(uframes') = uframes'[1]
    BY <1>t, <2>2
  <2> QED
    BY <1>h, <2>2, <2>3, <2>4, <2>5, <2>6, <2>7, <2>8, <2>9 DEF UloopInv
<1>8. CASE fd # NullFd /\ ~(fd \in EdgeFds /\ fdRegistered[fd] /\ StackEntry(uframes, fd) # 0)
  <2>1. fd \in Fds /\ ~fdDropped[fd]
    BY <1>1, <1>2, <1>8 DEF UloopInv, FetchInv
  <2>0. uframes' = <<CbFrame(fd)>> \o uframes /\ unseen' = [unseen EXCEPT ![fd] = FALSE]
    BY <1>1, <1>8 DEF uloop_run_events
  <2>2. PICK x \in Frame : /\ x = CbFrame(fd) /\ x.k = "cb" /\ x.fd = fd /\ x.live /\ ~x.again
    <3>1. CbFrame(fd) \in Frame
      BY <2>1 DEF CbFrame, Frame
    <3>2. /\ CbFrame(fd).k = "cb" /\ CbFrame(fd).fd = fd
          /\ CbFrame(fd).live /\ ~CbFrame(fd).again
      BY DEF CbFrame
    <3> QED
      BY <3>1, <3>2
  <2>3. ASSUME fd \in EdgeFds, NEW i \in 1 .. Len(uframes), uframes[i].live
        PROVE  uframes[i].fd # fd
    <3>1. CASE fdRegistered[fd]
      <4>1. \A j \in 1 .. Len(uframes) : uframes[j].live => uframes[j].k = "cb"
        BY DEF UloopInv, StackInv
      <4>2. StackEntry(uframes, fd) = 0
        BY <1>8, <2>3, <3>1
      <4> QED
        BY <1>t, <2>3, <4>1, <4>2, EntryFound
    <3>2. CASE ~fdRegistered[fd]
      BY <1>1, <1>2, <2>3, <3>2 DEF UloopInv, FetchInv
    <3> QED
      BY <3>1, <3>2
  <2>4. /\ uframes' \in Seq(Frame) /\ StackInv' /\ OnceInv' /\ \A f : Noted(f) => Noted(f)'
        /\ Len(uframes') = Len(uframes) + 1 /\ uframes'[1] = x
        /\ \A i \in 1 .. Len(uframes') :
             i = 1 \/ (i - 1 \in 1 .. Len(uframes) /\ uframes'[i] = uframes[i - 1])
    <3>1. uframes' = <<x>> \o uframes /\ x.fd \in Fds
      BY <2>0, <2>1, <2>2
    <3>2. x.live /\ x.fd \in EdgeFds =>
            \A i \in 1 .. Len(uframes) : uframes[i].live => uframes[i].fd # x.fd
      BY <2>2, <2>3
    <3> QED
      BY <1>0, <2>2, <3>1, <3>2, PushKeepsStack
  <2>5. UloopTypeOK'
    BY <1>0, <1>2, <1>t, <2>0, <2>4 DEF UloopTypeOK
  <2>6. FetchInv'
    <3>1. ASSUME NEW i \in 1 .. Len(curFds'), NEW j \in 1 .. Len(uframes'),
                 curFds'[i] \in EdgeFds, ~fdRegistered[curFds'[i]], uframes'[j].live
          PROVE  uframes'[j].fd # curFds'[i]
      <4>1. CASE j = 1
        BY <1>4, <1>8, <2>2, <2>4, <4>1
      <4>2. CASE j # 1
        <5>1. PICK k \in 1 .. Len(uframes) : uframes'[j] = uframes[k]
          BY <2>4, <4>2
        <5> QED
          BY <1>5, <3>1, <5>1
      <4> QED
        BY <4>1, <4>2
    <3> QED
      BY <1>0, <1>4, <3>1 DEF FetchInv
  <2>7. KeptInv'
    <3>1. ASSUME NEW f \in EdgeFds, unseen'[f]
          PROVE  f # fd /\ unseen[f]
      <4>1. f \in Fds
        BY <1>a
      <4> QED
        BY <1>t, <2>0, <3>1, <4>1 DEF UloopTypeOK
    <3> QED
      BY <1>0, <1>3, <2>4, <3>1 DEF UloopInv, KeptInv
  <2>8. Head(uframes') = x
    BY <1>t, <2>4
  <2> QED
    BY <2>1, <2>2, <2>4, <2>5, <2>6, <2>7, <2>8 DEF UloopInv
<1> QED
  BY <1>6, <1>7, <1>8

-----------------------------------------------------------------------------
(* The theorems *)

\* Every step of the program, the loop and epoll preserves UloopInv.
LEMMA UloopInvKept == UloopInv /\ [UloopNext]_uloopVars => UloopInv'
<1> SUFFICES ASSUME UloopInv, [UloopNext]_uloopVars PROVE UloopInv'
  OBVIOUS
<1>1. CASE \E fd \in Fds : uloop_fd_add(fd) \/ \E h \in BOOLEAN : Arrival(fd, h)
  BY <1>1, QuietStepsKeep
<1>2. CASE \E fd \in Fds : uloop_fd_delete(fd)
  BY <1>2, DeleteKeeps
<1>3. CASE uloop_run \/ RunEnds
  BY <1>3, CallsKeep
<1>4. CASE uloop_end \/ ReadAll
  <2>1. CASE Fds # {}
    <3>1. PICK fd \in Fds : TRUE
      BY <2>1
    <3> QED
      BY <1>4, <3>1, QuietStepsKeep
  <2>2. CASE Fds = {}
    <3>1. UTop.k # "cb"
      <4>1. UTop = uframes[1] /\ 1 \in 1 .. Len(uframes)
        BY DEF UTop, UloopInv, UloopTypeOK, StackInv
      <4> QED
        BY <2>2, <4>1 DEF UloopInv, StackInv
    <3>2. uloop_end
      BY <1>4, <3>1 DEF ReadAll
    <3>3. /\ UNCHANGED <<fdRegistered, fdDropped, readable, hungUpFd, edgePending, curFds,
                         uframes, unseen>>
          /\ uCancelled' = TRUE
      BY <3>2 DEF uloop_end
    <3> QED
      BY <3>3 DEF UloopInv, UloopTypeOK, StackInv, FetchInv, KeptInv, OnceInv, Fetched, Noted
  <2> QED
    BY <2>1, <2>2
<1>5. CASE CbReturns
  <2>1. CASE UTop.live /\ UTop.again
    BY <1>5, <2>1, AgainKeeps
  <2>2. CASE ~(UTop.live /\ UTop.again)
    BY <1>5, <2>2, CallsKeep
  <2> QED
    BY <2>1, <2>2
<1>6. CASE uloop_fetch_events
  BY <1>6, FetchKeeps
<1>7. CASE uloop_run_events
  BY <1>7, ServeKeeps
<1>8. CASE UNCHANGED uloopVars
  BY <1>8 DEF uloopVars, UloopInv, UloopTypeOK, StackInv, FetchInv, KeptInv, OnceInv, Fetched, Noted
<1> QED
  BY <1>1, <1>2, <1>3, <1>4, <1>5, <1>6, <1>7, <1>8 DEF UloopNext

\* For any descriptors, however deep the loop runs within itself: an arrival that
\* epoll reports once is with epoll, among the fetched events, or noted for the
\* callback that runs, which never runs twice at a time for its descriptor.
THEOREM EdgeEventsStayKept == UloopSpec => []EdgeEventsKept
<1>1. UloopInv => EdgeEventsKept
  <2> SUFFICES ASSUME UloopInv PROVE EdgeEventsKept
    OBVIOUS
  <2>1. /\ DOMAIN uframes = 1 .. Len(uframes) /\ DOMAIN curFds = 1 .. Len(curFds)
        /\ Len(uframes) \in Nat
    BY DEF UloopInv, UloopTypeOK
  <2>2. ASSUME NEW fd \in EdgeFds, unseen[fd], readable[fd], fdRegistered[fd]
        PROVE  \/ edgePending[fd] \/ fd \in Range(curFds)
               \/ \E i \in DOMAIN uframes :
                    uframes[i].fd = fd /\ uframes[i].live /\ uframes[i].again
    BY <2>1, <2>2 DEF UloopInv, KeptInv, Fetched, Noted, Range
  <2>3. ASSUME NEW i \in DOMAIN uframes, NEW j \in DOMAIN uframes, i < j,
               uframes[i].fd \in EdgeFds, uframes[i].fd = uframes[j].fd
        PROVE  ~(uframes[i].live /\ uframes[j].live)
    <3>1. uframes[i].live /\ uframes[j].live => i = j
      BY <2>1, <2>3 DEF UloopInv, OnceInv
    <3> QED
      BY <2>1, <2>3, <3>1
  <2> QED
    BY <2>2, <2>3 DEF EdgeEventsKept
<1> QED
  BY <1>1, UloopInitInv, UloopInvKept, PTL DEF UloopSpec

\* For any descriptors: a callback is called, or called again, only for a descriptor
\* that the program has added and not deleted since.
THEOREM NeverCalledAfterDelete == UloopSpec => NotAfterDelete
<1> DEFINE A == \A fd \in Fds : Called(fd) => ~fdDropped[fd]
<1>1. UloopInv /\ [UloopNext]_uloopVars => [A]_uloopVars
  <2> SUFFICES ASSUME UloopInv, UloopNext, NEW fd \in Fds, Called(fd)
               PROVE  ~fdDropped[fd]
    OBVIOUS
  <2>t. uframes \in Seq(Frame) /\ Len(uframes) \in Nat /\ Len(uframes) > 0 /\ UTop = Head(uframes)
    BY DEF UloopInv, UloopTypeOK, StackInv, UTop
  <2>c. \/ Len(uframes') > Len(uframes) /\ Head(uframes').k = "cb" /\ Head(uframes').fd = fd
        \/ /\ Len(uframes') = Len(uframes) /\ UTop.fd = fd /\ UTop.again
           /\ ~Head(uframes').again
    BY DEF Called
  <2>1. ASSUME Len(uframes') = Len(uframes), Head(uframes).again => Head(uframes').again
        PROVE  FALSE
    BY <2>1, <2>c, <2>t
  <2>2. CASE uframes' = uframes
    BY <2>1, <2>2
  <2>3. CASE \E f \in Fds : uloop_fd_delete(f)
    BY <2>1, <2>3, DeleteKeeps
  <2>4. CASE uloop_fetch_events
    BY <2>1, <2>4, FetchKeeps
  <2>5. CASE uloop_run
    <3>1. uframes' = <<RunFrame>> \o uframes /\ RunFrame \in Frame /\ RunFrame.k = "run"
      BY <2>5 DEF uloop_run, RunFrame, Frame
    <3>2. Len(uframes') = Len(uframes) + 1 /\ Head(uframes') = RunFrame
      BY <2>t, <3>1
    <3> QED
      BY <2>c, <2>t, <3>1, <3>2
  <2>6. CASE RunEnds \/ (CbReturns /\ ~(UTop.live /\ UTop.again))
    <3>1. uframes' = Tail(uframes) /\ uframes # <<>>
      BY <2>6, <2>t DEF RunEnds, CbReturns
    <3>2. Len(uframes') = Len(uframes) - 1
      BY <2>t, <3>1, TopTaken
    <3> QED
      BY <2>c, <2>t, <3>2
  <2>7. CASE CbReturns /\ UTop.live /\ UTop.again
    <3>1. UTop.fd \in Fds /\ ~fdDropped[UTop.fd]
      BY <2>7, AgainKeeps
    <3>2. uframes' = <<CbFrame(UTop.fd)>> \o Tail(uframes) /\ uframes # <<>>
      BY <2>7, <2>t DEF CbReturns
    <3>3. CbFrame(UTop.fd) \in Frame
      BY <3>1 DEF CbFrame, Frame
    <3>4. Tail(uframes) \in Seq(Frame) /\ Len(Tail(uframes)) = Len(uframes) - 1
      BY <2>t, <3>2, TopTaken
    <3>5. Len(uframes') = Len(Tail(uframes)) + 1
      BY <3>2, <3>3, <3>4, FramePushed
    <3> QED
      BY <2>c, <2>t, <3>1, <3>4, <3>5
  <2>8. CASE uloop_run_events
    BY <2>1, <2>8, <2>c, <2>t, ServeKeeps
  <2> QED
    BY <2>2, <2>3, <2>4, <2>5, <2>6, <2>7, <2>8
    DEF UloopNext, uloop_fd_add, Arrival, uloop_end, ReadAll
<1> QED
  BY <1>1, UloopInitInv, UloopInvKept, PTL DEF UloopSpec, NotAfterDelete

-----------------------------------------------------------------------------
(***************************************************************************)
(* UloopTimer, for any timers, delays and children: a timer fires in the   *)
(* order of the due times and never early, and no child's exit is          *)
(* forgotten.                                                              *)
(***************************************************************************)

\* A struct timeval.
TimeVal == [sec : Int, usec : Int]

\* C's division loses less than the divisor.
LEMMA TruncatedDivision ==
  ASSUME NEW a \in Int, NEW b \in Nat \ {0}
  PROVE  /\ TruncDiv(a, b) \in Int
         /\ a - b * TruncDiv(a, b) < b /\ b * TruncDiv(a, b) - a < b
<1>1. \A n \in Nat : n \div b \in Int /\ n - b * (n \div b) < b /\ b * (n \div b) <= n
  OBVIOUS
<1>2. CASE a >= 0
  <2>1. a \in Nat /\ TruncDiv(a, b) = a \div b
    BY <1>2 DEF TruncDiv
  <2>2. PICK q \in Int : q = TruncDiv(a, b) /\ a - b * q < b /\ b * q <= a
    BY <1>1, <2>1
  <2>. QED
    BY <2>2
<1>3. CASE ~(a >= 0)
  <2>1. -a \in Nat /\ TruncDiv(a, b) = -((-a) \div b)
    BY <1>3 DEF TruncDiv
  <2>2. PICK q \in Int : q = (-a) \div b /\ -a - b * q < b /\ b * q <= -a
    BY <1>1, <2>1
  <2>3. b * (-q) = -(b * q) /\ b * q \in Int
    BY <2>2
  <2>4. PICK m \in Int : m = b * q
    BY <2>3
  <2>5. TruncDiv(a, b) = -q /\ b * TruncDiv(a, b) = -m
    BY <2>1, <2>2, <2>3, <2>4
  <2>6. -a - m < b /\ m <= -a
    BY <2>2, <2>4
  <2>7. a - (-m) < b /\ (-m) - a < b
    BY <2>6
  <2>. QED
    BY <2>2, <2>5, <2>7
<1>. QED
  BY <1>2, <1>3

\* tv_diff counts the milliseconds between two times, and is less than one off.
LEMMA MillisecondsCounted ==
  ASSUME NEW a \in TimeVal, NEW b \in TimeVal
  PROVE  /\ tv_diff(a, b) \in Int /\ Ticks(a) \in Int /\ Ticks(b) \in Int
         /\ TicksPerMs * tv_diff(a, b) - (Ticks(a) - Ticks(b)) < TicksPerMs
         /\ tv_diff(a, b) > 0 => Ticks(a) > Ticks(b)
         /\ ~(tv_diff(a, b) > 0) => Ticks(a) - Ticks(b) < TicksPerMs
<1>1. TicksPerMs \in Nat \ {0} /\ MsPerSec \in Nat \ {0}
  BY TimerAssumption
<1>2. a.sec \in Int /\ a.usec \in Int /\ b.sec \in Int /\ b.usec \in Int
  BY DEF TimeVal
<1>3. PICK K \in Nat \ {0} : K = TicksPerMs
  BY <1>1
<1>4. PICK M \in Nat \ {0} : M = MsPerSec
  BY <1>1
<1>5. PICK u \in Int : u = a.usec - b.usec
  BY <1>2
<1>6. PICK d \in Int : d = a.sec - b.sec
  BY <1>2
<1>7. PICK q \in Int : q = TruncDiv(u, K) /\ u - K * q < K /\ K * q - u < K
  BY TruncatedDivision
<1>8. tv_diff(a, b) = d * M + q
  BY <1>3, <1>4, <1>5, <1>6, <1>7 DEF tv_diff
<1>9. Ticks(a) = a.sec * (K * M) + a.usec /\ Ticks(b) = b.sec * (K * M) + b.usec
  BY <1>3, <1>4 DEF Ticks, TicksPerSec
<1>10. PICK S \in Int : S = K * M
  OBVIOUS
<1>11. Ticks(a) \in Int /\ Ticks(b) \in Int /\ Ticks(a) - Ticks(b) = d * S + u
  <2>1. PICK x \in Int, y \in Int : x = a.sec /\ y = b.sec
    BY <1>2
  <2>2. x * S \in Int /\ y * S \in Int /\ (x - y) * S = x * S - y * S
    OBVIOUS
  <2>3. PICK xs \in Int, ys \in Int : xs = x * S /\ ys = y * S
    BY <2>2
  <2>4. Ticks(a) = xs + a.usec /\ Ticks(b) = ys + b.usec /\ d * S = xs - ys
    BY <1>6, <1>9, <1>10, <2>1, <2>2, <2>3
  <2>. QED
    BY <1>2, <1>5, <2>3, <2>4
<1>12. PICK dm \in Int : dm = d * M
  OBVIOUS
<1>13. PICK t \in Int : t = dm + q /\ t = tv_diff(a, b)
  BY <1>8, <1>12
<1>14. K * t = K * dm + K * q
  BY <1>13
<1>15. K * dm = d * S
  BY <1>10, <1>12
<1>16. PICK ds \in Int, kq \in Int, kt \in Int : ds = d * S /\ kq = K * q /\ kt = K * t
  OBVIOUS
<1>17. kt = ds + kq /\ u - kq < K /\ kq - u < K
  BY <1>7, <1>14, <1>15, <1>16
<1>18. PICK e \in Int : e = Ticks(a) - Ticks(b) /\ e = ds + u
  BY <1>11, <1>16
<1>19. kt - e < K /\ e - kt < K
  BY <1>17, <1>18
<1>20. t > 0 => kt >= K
  BY <1>16
<1>21. ~(t > 0) => kt <= 0
  BY <1>16
<1>22. (t > 0 => e > 0) /\ (~(t > 0) => e < K)
  BY <1>19, <1>20, <1>21
<1>. QED
  BY <1>3, <1>11, <1>13, <1>16, <1>18, <1>19, <1>22

\* The time of day of a tick is that tick.
LEMMA TimeOfDay ==
  ASSUME NEW n \in Nat
  PROVE  Tv(n) \in TimeVal /\ Ticks(Tv(n)) = n
<1>1. PICK S \in Nat \ {0} : S = TicksPerSec
  BY TimerAssumption DEF TicksPerSec
<1>2. PICK q \in Int, r \in Int : q = n \div S /\ r = n % S /\ n = S * q + r
  OBVIOUS
<1>3. q * S = S * q /\ q * S + r = n
  BY <1>2
<1>. QED
  BY <1>1, <1>2, <1>3 DEF Tv, Ticks, TimeVal

-----------------------------------------------------------------------------
(* The timers' list. *)

\* ts is in the order of the times in due, as far as milliseconds tell.
InOrder(ts, due) ==
  \A i, j \in 1 .. Len(ts) : i < j => Ticks(due[ts[i]]) - Ticks(due[ts[j]]) < TicksPerMs

\* uloop_timeout_add puts the timer at a place where the order is kept, although
\* tv_diff rounds and so is no total order.
LEMMA OrderKept ==
  ASSUME NEW ts \in Seq(Timers), Once(ts), NEW due \in [Timers -> TimeVal], InOrder(ts, due),
         NEW t \in Timers, t \notin Range(ts), NEW r, r = uloop_timeout_add(ts, due, t)
  PROVE  r \in Seq(Timers) /\ Once(r) /\ InOrder(r, due)
<1>1. /\ Len(ts) \in Nat /\ DOMAIN ts = 1 .. Len(ts)
      /\ \A i \in 1 .. Len(ts) : ts[i] \in Timers /\ ts[i] # t
  <2>1. Range(ts) = {ts[i] : i \in 1 .. Len(ts)} /\ Len(ts) \in Nat /\ DOMAIN ts = 1 .. Len(ts)
    BY ListMembers
  <2>. QED
    BY <2>1, ElementOfSeq
<1>2. PICK L : L = {i \in 1 .. Len(ts) : tv_diff(due[ts[i]], due[t]) > 0}
  OBVIOUS
<1>3. \A i \in 1 .. Len(ts) :
        /\ Ticks(due[ts[i]]) \in Int
        /\ tv_diff(due[ts[i]], due[t]) > 0 => Ticks(due[ts[i]]) > Ticks(due[t])
        /\ ~(tv_diff(due[ts[i]], due[t]) > 0) => Ticks(due[ts[i]]) - Ticks(due[t]) < TicksPerMs
  <2>. TAKE i \in 1 .. Len(ts)
  <2>1. PICK a \in TimeVal : a = due[ts[i]]
    BY <1>1
  <2>2. PICK b \in TimeVal : b = due[t]
    OBVIOUS
  <2>. QED
    BY <2>1, <2>2, MillisecondsCounted
<1>4. Ticks(due[t]) \in Int
  BY MillisecondsCounted
<1>5. CASE L = {}
  <2>1. r = Append(ts, t)
    <3>1. SelectInSeq(ts, LAMBDA u : tv_diff(due[u], due[t]) > 0) = 0
      BY <1>1, <1>2, <1>5, Zenon DEF SelectInSeq
    <3>. QED
      BY <3>1, Zenon DEF uloop_timeout_add
  <2>2. r \in Seq(Timers) /\ Once(r)
    <3>1. r \in {<<t>> \o ts, Append(ts, t)}
      BY <2>1
    <3>. QED
      BY <3>1, EntryPut, SMTT(20)
  <2>3. /\ Len(r) = Len(ts) + 1
        /\ \A i \in 1 .. Len(ts) : r[i] = ts[i]
        /\ r[Len(ts) + 1] = t
    BY <2>1, AppendProperties
  <2>4. ASSUME NEW i \in 1 .. Len(r), NEW j \in 1 .. Len(r), i < j
        PROVE  Ticks(due[r[i]]) - Ticks(due[r[j]]) < TicksPerMs
    <3>1. i \in 1 .. Len(ts) /\ r[i] = ts[i]
      BY <1>1, <2>3, <2>4
    <3>2. CASE j \in 1 .. Len(ts)
      BY <2>3, <2>4, <3>1, <3>2 DEF InOrder
    <3>3. CASE j = Len(ts) + 1
      BY <1>2, <1>3, <1>5, <2>3, <3>1, <3>3
    <3>. QED
      BY <1>1, <2>3, <3>2, <3>3
  <2>. QED
    BY <2>2, <2>4 DEF InOrder
<1>6. CASE L # {}
  <2>1. PICK k : k = Min(L)
    OBVIOUS
  <2>2. k \in L /\ \A i \in L : k <= i
    <3>1. L \in SUBSET Nat
      BY <1>1, <1>2
    <3>. QED
      BY <1>6, <2>1, <3>1, MinFound
  <2>3. k \in 1 .. Len(ts) /\ k # 0
    BY <1>1, <1>2, <2>2
  <2>4. r = InsertAt(ts, k, t)
    <3>1. SelectInSeq(ts, LAMBDA u : tv_diff(due[u], due[t]) > 0) = k
      BY <1>1, <1>2, <1>6, <2>1, Zenon DEF SelectInSeq
    <3>. QED
      BY <2>3, <3>1, Zenon DEF uloop_timeout_add
  <2>5. /\ r \in Seq(Timers) /\ Len(r) = Len(ts) + 1
        /\ \A i \in 1 .. Len(ts) : i < k => r[i] = ts[i]
        /\ r[k] = t
        /\ \A i \in 1 .. Len(ts) : k <= i => r[i + 1] = ts[i]
    <3>1. k \in Nat /\ 1 <= k /\ k <= Len(ts) + 1
      BY <1>1, <2>3
    <3>. QED
      BY <2>4, <3>1, EntryInserted
  <2>6. \A i \in 1 .. Len(r) : \/ i < k /\ i \in 1 .. Len(ts) /\ r[i] = ts[i]
                               \/ i = k /\ r[i] = t
                               \/ i > k /\ i - 1 \in 1 .. Len(ts) /\ r[i] = ts[i - 1]
    <3>. TAKE i \in 1 .. Len(r)
    <3>1. CASE i < k
      BY <1>1, <2>3, <2>5, <3>1
    <3>2. CASE i = k
      BY <1>1, <2>3, <2>5, <3>2
    <3>3. CASE i > k
      <4>1. i - 1 \in 1 .. Len(ts) /\ k <= i - 1 /\ i - 1 + 1 = i
        BY <1>1, <2>3, <2>5, <3>3
      <4>. QED
        BY <2>5, <3>3, <4>1
    <3>. QED
      BY <2>3, <3>1, <3>2, <3>3
  <2>7. Once(r)
    <3>1. SUFFICES ASSUME NEW i \in 1 .. Len(r), NEW j \in 1 .. Len(r), r[i] = r[j]
                   PROVE  i = j
      BY DEF Once
    <3>2. CASE i = k \/ j = k
      BY <1>1, <2>3, <2>6, <3>1, <3>2
    <3>3. CASE i # k /\ j # k
      <4>1. PICK m \in 1 .. Len(ts) : r[i] = ts[m] /\ m = IF i < k THEN i ELSE i - 1
        BY <1>1, <2>3, <2>6, <3>3
      <4>2. PICK n \in 1 .. Len(ts) : r[j] = ts[n] /\ n = IF j < k THEN j ELSE j - 1
        BY <1>1, <2>3, <2>6, <3>3
      <4>3. m = n
        BY <3>1, <4>1, <4>2 DEF Once
      <4>. QED
        BY <2>3, <3>3, <4>1, <4>2, <4>3
    <3>. QED
      BY <3>2, <3>3
  <2>8. ASSUME NEW i \in 1 .. Len(r), NEW j \in 1 .. Len(r), i < j
        PROVE  Ticks(due[r[i]]) - Ticks(due[r[j]]) < TicksPerMs
    <3>0. TicksPerMs \in Nat \ {0}
      BY TimerAssumption
    <3>1. CASE i # k /\ j # k
      <4>1. PICK m \in 1 .. Len(ts) : r[i] = ts[m] /\ m = IF i < k THEN i ELSE i - 1
        BY <1>1, <2>3, <2>6, <3>1
      <4>2. PICK n \in 1 .. Len(ts) : r[j] = ts[n] /\ n = IF j < k THEN j ELSE j - 1
        BY <1>1, <2>3, <2>6, <3>1
      <4>3. m < n
        BY <2>3, <2>8, <3>1, <4>1, <4>2
      <4>. QED
        BY <4>1, <4>2, <4>3 DEF InOrder
    <3>2. CASE j = k
      <4>1. i \in 1 .. Len(ts) /\ r[i] = ts[i] /\ i < k /\ r[j] = t
        BY <1>1, <2>3, <2>6, <2>8, <3>2
      <4>2. i \notin L
        BY <1>1, <2>2, <2>3, <4>1
      <4>. QED
        BY <1>2, <1>3, <4>1, <4>2
    <3>3. CASE i = k
      <4>1. PICK n \in 1 .. Len(ts) : n = j - 1 /\ r[j] = ts[n] /\ n >= k /\ r[i] = t
        BY <1>1, <2>3, <2>6, <2>8, <3>3
      <4>2. Ticks(due[ts[k]]) > Ticks(due[t]) /\ Ticks(due[ts[k]]) \in Int /\ Ticks(due[ts[n]]) \in Int
        BY <1>2, <1>3, <2>2, <2>3
      <4>3. n = k \/ Ticks(due[ts[k]]) - Ticks(due[ts[n]]) < TicksPerMs
        <5>1. n = k \/ k < n
          BY <2>3, <4>1
        <5>. QED
          BY <2>3, <5>1 DEF InOrder
      <4>4. PICK x \in Int, y \in Int, z \in Int : x = Ticks(due[ts[k]]) /\ y = Ticks(due[ts[n]]) /\ z = Ticks(due[t])
        BY <1>4, <4>2
      <4>5. x > z /\ (x = y \/ x - y < TicksPerMs)
        BY <4>2, <4>3, <4>4
      <4>. QED
        BY <3>0, <4>1, <4>4, <4>5
    <3>. QED
      BY <3>1, <3>2, <3>3
  <2>. QED
    BY <2>5, <2>7, <2>8 DEF InOrder
<1>. QED
  BY <1>5, <1>6

-----------------------------------------------------------------------------
(* The rounds. *)

\* What the clock, the list and the sleep are.
TimerTypes ==
  /\ now \in Nat /\ wakeAt \in Int /\ dueAt \in [Timers -> TimeVal]
  /\ timeouts \in Seq(Timers) /\ Once(timeouts)

\* The list is in order and the loop does not sleep too long.
TimerKept == TimerTypes /\ TimersInOrder /\ NoOversleep

\* A child on the list was not told of yet.
ChildKept ==
  /\ processes \in Seq(Pids) /\ Once(processes) /\ zombies \in SUBSET Pids
  /\ told \in [Pids -> {0, 1}]
  /\ \A p \in Range(processes) : told[p] = 0
  /\ ExitsNotForgotten

TimerInv == TimerKept /\ ChildKept

\* TimersInOrder says the same of the list's places.
LEMMA OrderOfPlaces ==
  ASSUME timeouts \in Seq(Timers)
  PROVE  TimersInOrder <=> InOrder(timeouts, dueAt)
<1>1. DOMAIN timeouts = 1 .. Len(timeouts)
  BY LenProperties
<1>. QED
  BY <1>1 DEF TimersInOrder, InOrder

\* The same, after a step.
LEMMA OrderOfPlacesNext ==
  ASSUME timeouts' \in Seq(Timers)
  PROVE  TimersInOrder' <=> InOrder(timeouts', dueAt')
<1>1. DOMAIN timeouts' = 1 .. Len(timeouts')
  BY LenProperties
<1>. QED
  BY <1>1 DEF TimersInOrder, InOrder

\* uloop_timeout_set and uloop_timeout_cancel keep the order.
LEMMA SetKeeps ==
  ASSUME TimerKept, NEW t \in Timers,
         uloop_timeout_cancel(t) \/ \E ms \in Delays : uloop_timeout_set(t, ms)
  PROVE  TimerKept'
<1>1. TimerTypes /\ InOrder(timeouts, dueAt)
  BY OrderOfPlaces DEF TimerKept, TimerTypes
<1>2. PICK s : s = RemoveFirst(timeouts, t)
  OBVIOUS
<1>3. /\ s \in Seq(Timers) /\ Once(s) /\ Range(s) = Range(timeouts) \ {t}
      /\ Within(s, timeouts)
  <2>1. timeouts \in Seq(Timers) /\ Once(timeouts)
    BY <1>1 DEF TimerTypes
  <2>2. PICK ts \in Seq(Timers) : ts = timeouts /\ Once(ts)
    BY <2>1
  <2>3. s = RemoveFirst(ts, t)
    BY <1>2, <2>2
  <2>4. s \in Seq(Timers) /\ Once(s) /\ Range(s) = Range(ts) \ {t}
    BY <2>2, <2>3, EntryOut
  <2>5. Within(s, ts)
    BY <2>2, <2>3, EntryOut
  <2>. QED
    BY <2>2, <2>4, <2>5
<1>4. ASSUME NEW due \in [Timers -> TimeVal], \A u \in Timers : u # t => due[u] = dueAt[u]
      PROVE  InOrder(s, due)
  <2>1. SUFFICES ASSUME NEW i \in 1 .. Len(s), NEW j \in 1 .. Len(s), i < j
                 PROVE  Ticks(due[s[i]]) - Ticks(due[s[j]]) < TicksPerMs
    BY DEF InOrder
  <2>2. PICK k \in 1 .. Len(timeouts), l \in 1 .. Len(timeouts) :
          k < l /\ s[i] = timeouts[k] /\ s[j] = timeouts[l]
    BY <1>3, <2>1, Zenon DEF Within
  <2>3. s[i] \in Timers /\ s[j] \in Timers /\ s[i] # t /\ s[j] # t
    <3>1. Range(s) = {s[m] : m \in 1 .. Len(s)} /\ Range(s) \subseteq Timers
      BY <1>3, ListMembers
    <3>. QED
      BY <1>3, <3>1
  <2>4. due[s[i]] = dueAt[s[i]] /\ due[s[j]] = dueAt[s[j]]
    BY <1>4, <2>3
  <2>. QED
    BY <1>1, <2>2, <2>4 DEF InOrder
<1>5. lpc # "sleep" /\ lpc' = lpc /\ now' = now /\ wakeAt' = wakeAt
  BY DEF uloop_timeout_cancel, uloop_timeout_set
<1>6. CASE uloop_timeout_cancel(t)
  <2>1. timeouts' = s /\ dueAt' = dueAt
    BY <1>2, <1>6 DEF uloop_timeout_cancel
  <2>2. dueAt \in [Timers -> TimeVal] /\ InOrder(s, dueAt)
    BY <1>1, <1>4 DEF TimerTypes
  <2>3. timeouts' \in Seq(Timers) /\ InOrder(timeouts', dueAt')
    BY <1>3, <2>1, <2>2
  <2>4. TimersInOrder'
    BY <2>3, OrderOfPlacesNext
  <2>5. TimerTypes'
    BY <1>1, <1>3, <1>5, <2>1 DEF TimerTypes, Once
  <2>. QED
    BY <1>5, <2>4, <2>5 DEF TimerKept, NoOversleep
<1>7. CASE \E ms \in Delays : uloop_timeout_set(t, ms)
  <2>1. PICK ms \in Delays : uloop_timeout_set(t, ms)
    BY <1>7
  <2>2. ms \in Nat
    BY TimerAssumption
  <2>3. DueIn(ms) \in TimeVal
    <3>1. Tv(now).sec \in Int /\ Tv(now).usec \in Int
      BY <1>1, TimeOfDay DEF TimerTypes, TimeVal
    <3>2. PICK S \in Int : S = TicksPerSec
      BY TimerAssumption DEF TicksPerSec
    <3>3. PICK a \in Int : a = Tv(now).sec + ms \div MsPerSec
      BY <2>2, <3>1, TimerAssumption
    <3>4. PICK b \in Int : b = Tv(now).usec + (ms % MsPerSec) * TicksPerMs
      <4>1. PICK m \in Int : m = ms % MsPerSec
        BY <2>2, TimerAssumption
      <4>2. m * TicksPerMs \in Int
        BY TimerAssumption
      <4>. QED
        BY <3>1, <4>1, <4>2
    <3>5. DueIn(ms) = IF b > S THEN [sec |-> a + 1, usec |-> b - S] ELSE [sec |-> a, usec |-> b]
      BY <3>2, <3>3, <3>4, Zenon DEF DueIn
    <3>. QED
      BY <3>5 DEF TimeVal
  <2>4. PICK due : due = [dueAt EXCEPT ![t] = DueIn(ms)]
    OBVIOUS
  <2>5. due \in [Timers -> TimeVal] /\ \A u \in Timers : u # t => due[u] = dueAt[u]
    BY <1>1, <2>3, <2>4 DEF TimerTypes
  <2>6. dueAt' = due /\ timeouts' = uloop_timeout_add(s, due, t)
    BY <1>2, <2>1, <2>4 DEF uloop_timeout_set
  <2>7. InOrder(s, due) /\ t \notin Range(s)
    BY <1>3, <1>4, <2>5
  <2>8. timeouts' \in Seq(Timers) /\ Once(timeouts') /\ InOrder(timeouts', due)
    <3>1. PICK r : r = timeouts'
      OBVIOUS
    <3>2. s \in Seq(Timers) /\ Once(s)
      BY <1>3
    <3>3. r \in Seq(Timers) /\ Once(r) /\ InOrder(r, due)
      BY <2>5, <2>6, <2>7, <3>1, <3>2, OrderKept
    <3>. QED
      BY <3>1, <3>3
  <2>9. TimersInOrder'
    BY <2>6, <2>8, OrderOfPlacesNext
  <2>10. TimerTypes'
    BY <1>1, <1>5, <2>5, <2>6, <2>8 DEF TimerTypes, Once
  <2>. QED
    BY <1>5, <2>9, <2>10 DEF TimerKept, NoOversleep
<1>. QED
  BY <1>6, <1>7

\* A timer that fires leaves the list in order.
LEMMA FiresKeeps ==
  ASSUME TimerKept, TimerFires
  PROVE  TimerKept'
<1>1. TimerTypes /\ InOrder(timeouts, dueAt)
  BY OrderOfPlaces DEF TimerKept, TimerTypes
<1>2. timeouts # <<>> /\ timeouts' = Tail(timeouts) /\ lpc = "timeouts" /\ UNCHANGED <<now, dueAt, wakeAt, lpc>>
  BY DEF TimerFires, FirstIsDue
<1>3. timeouts \in Seq(Timers) /\ Once(timeouts)
  BY <1>1 DEF TimerTypes
<1>4. Tail(timeouts) \in Seq(Timers) /\ Once(Tail(timeouts))
  BY <1>2, <1>3, HeadOut
<1>5. PICK r : r = Tail(timeouts)
  OBVIOUS
<1>6. \A i \in 1 .. Len(r) : r[i] = timeouts[i + 1] /\ i + 1 \in 1 .. Len(timeouts)
  BY <1>2, <1>3, <1>5, TopTaken
<1>7. InOrder(r, dueAt)
  <2>1. SUFFICES ASSUME NEW i \in 1 .. Len(r), NEW j \in 1 .. Len(r), i < j
                 PROVE  Ticks(dueAt[r[i]]) - Ticks(dueAt[r[j]]) < TicksPerMs
    BY DEF InOrder
  <2>2. PICK k \in 1 .. Len(timeouts) : k = i + 1 /\ r[i] = timeouts[k]
    BY <1>6
  <2>3. PICK l \in 1 .. Len(timeouts) : l = j + 1 /\ r[j] = timeouts[l]
    BY <1>6
  <2>4. k < l
    BY <1>3, <2>1, <2>2, <2>3
  <2>. QED
    BY <1>1, <2>2, <2>3, <2>4 DEF InOrder
<1>8. TimersInOrder'
  BY <1>2, <1>4, <1>5, <1>7, OrderOfPlacesNext
<1>9. TimerTypes'
  BY <1>1, <1>2, <1>4 DEF TimerTypes, Once
<1>. QED
  BY <1>2, <1>8, <1>9 DEF TimerKept, NoOversleep

\* The loop goes to sleep for the first timer, and with that for every one.
LEMMA SleepKeeps ==
  ASSUME TimerKept, Sleep
  PROVE  TimerKept'
<1>1. TimerTypes /\ TimersInOrder
  BY DEF TimerKept
<1>2. timeouts' = timeouts /\ dueAt' = dueAt /\ now' = now
      /\ wakeAt' = IF uloop_get_next_timeout = -1 THEN -1 ELSE now + uloop_get_next_timeout * TicksPerMs
  BY DEF Sleep
<1>3. PICK K \in Nat \ {0} : K = TicksPerMs
  BY TimerAssumption
<1>4. /\ now \in Nat /\ timeouts \in Seq(Timers) /\ dueAt \in [Timers -> TimeVal]
      /\ Range(timeouts) = {timeouts[i] : i \in 1 .. Len(timeouts)} /\ Len(timeouts) \in Nat
      /\ DOMAIN timeouts = 1 .. Len(timeouts)
  BY <1>1, ListMembers DEF TimerTypes
<1>5. CASE timeouts = <<>>
  <2>1. wakeAt' = -1 /\ Range(timeouts') = {}
    BY <1>2, <1>4, <1>5, ListMembers DEF uloop_get_next_timeout
  <2>. QED
    BY <1>1, <1>2, <2>1 DEF TimerKept, TimerTypes, Once, TimersInOrder, NoOversleep
<1>6. CASE timeouts # <<>>
  <2>1. PICK h \in Timers : h = Head(timeouts) /\ h = timeouts[1] /\ Len(timeouts) > 0
    BY <1>4, <1>6, TopTaken
  <2>2. PICK a \in TimeVal : a = dueAt[h]
    BY <1>4
  <2>3. PICK b \in TimeVal : b = Tv(now) /\ Ticks(b) = now
    BY <1>4, TimeOfDay
  <2>4. PICK d \in Int : d = tv_diff(a, b)
    BY MillisecondsCounted
  <2>5. Ticks(a) \in Int /\ K * d - (Ticks(a) - now) < K
    BY <1>3, <2>3, <2>4, MillisecondsCounted
  <2>6. PICK g \in Nat : g = uloop_get_next_timeout /\ g = IF d < 0 THEN 0 ELSE d
    BY <1>6, <2>1, <2>2, <2>3, <2>4 DEF uloop_get_next_timeout
  <2>7. wakeAt' = now + g * K
    BY <1>2, <1>3, <2>6
  <2>8. PICK w \in Nat : w = g * K
    OBVIOUS
  <2>9. g = 0 => w = 0
    BY <2>8
  <2>10. g # 0 => d = g /\ w = K * d
    BY <2>6, <2>8
  <2>11. wakeAt' \in Nat /\ wakeAt' # -1
    <3>1. wakeAt' = now + w
      BY <2>7, <2>8
    <3>2. now + w \in Nat
      BY <1>4
    <3>. QED
      BY <3>1, <3>2
  <2>12. PICK x \in Int : x = Ticks(a)
    BY <2>5
  <2>13. wakeAt' > now => wakeAt' - x < K
    <3>1. PICK n \in Nat : n = now
      BY <1>4
    <3>2. PICK kd \in Int : kd = K * d
      OBVIOUS
    <3>3. kd - (x - n) < K
      BY <2>5, <2>12, <3>1, <3>2
    <3>4. wakeAt' = n + w /\ (w # 0 => w = kd)
      BY <2>7, <2>8, <2>9, <2>10, <3>1, <3>2
    <3>. QED
      BY <3>1, <3>3, <3>4
  <2>14. ASSUME NEW t \in Range(timeouts), wakeAt' > now
         PROVE  wakeAt' - Ticks(dueAt[t]) < 2 * K
    <3>1. PICK i \in 1 .. Len(timeouts) : t = timeouts[i]
      BY <1>4
    <3>2. PICK y \in Int : y = Ticks(dueAt[t])
      <4>1. dueAt[t] \in TimeVal
        BY <1>4, ListMembers
      <4>. QED
        BY <4>1, MillisecondsCounted
    <3>3. x - y < K
      <4>1. CASE i = 1
        BY <2>1, <2>2, <2>12, <3>1, <3>2, <4>1
      <4>2. CASE i # 1
        <5>1. 1 \in DOMAIN timeouts /\ i \in DOMAIN timeouts /\ 1 < i
          BY <1>4, <2>1, <4>2
        <5>2. Ticks(dueAt[timeouts[1]]) - Ticks(dueAt[timeouts[i]]) < TicksPerMs
          BY <1>1, <5>1 DEF TimersInOrder
        <5>. QED
          BY <1>3, <2>1, <2>2, <2>12, <3>1, <3>2, <5>2
      <4>. QED
        BY <4>1, <4>2
    <3>4. PICK v \in Nat : v = wakeAt'
      BY <2>11
    <3>5. v - x < K
      BY <2>13, <2>14, <3>4
    <3>6. v - y < 2 * K
      BY <3>3, <3>5
    <3>. QED
      BY <3>2, <3>4, <3>6
  <2>15. NoOversleep'
    BY <1>2, <1>3, <2>11, <2>14 DEF NoOversleep
  <2>. QED
    BY <1>1, <1>2, <2>11, <2>15 DEF TimerKept, TimerTypes, Once, TimersInOrder
<1>. QED
  BY <1>5, <1>6

\* The other steps leave the timers; time only makes the rest of the sleep shorter.
LEMMA RestKeepsTimers ==
  ASSUME TimerKept,
         \/ \E p \in Pids : ReapChild(p) \/ uloop_process_delete(p) \/ ChildExits(p)
         \/ TimeoutsDone \/ NoChild \/ WakeUp \/ TimePasses \/ UNCHANGED timerVars
  PROVE  TimerKept'
<1>1. TimerTypes /\ TimersInOrder /\ NoOversleep
  BY DEF TimerKept
<1>2. /\ timeouts' = timeouts /\ dueAt' = dueAt /\ now' \in Nat /\ now' >= now /\ wakeAt' \in Int
      /\ lpc' = "sleep" => lpc = "sleep" /\ wakeAt' = wakeAt
  <2>1. now \in Nat /\ wakeAt \in Int
    BY <1>1 DEF TimerTypes
  <2>2. CASE \E p \in Pids : ReapChild(p) \/ uloop_process_delete(p) \/ ChildExits(p)
    BY <2>1, <2>2 DEF ReapChild, uloop_process_delete, ChildExits
  <2>3. CASE TimeoutsDone \/ NoChild
    BY <2>1, <2>3 DEF TimeoutsDone, NoChild
  <2>4. CASE WakeUp \/ TimePasses \/ UNCHANGED timerVars
    BY <2>1, <2>4 DEF WakeUp, TimePasses, timerVars
  <2>. QED
    BY <2>2, <2>3, <2>4
<1>3. TimerTypes' /\ TimersInOrder'
  BY <1>1, <1>2 DEF TimerTypes, TimersInOrder, Once
<1>4. NoOversleep'
  <2>1. SUFFICES ASSUME lpc' = "sleep", NEW t \in Range(timeouts)
                 PROVE  wakeAt' # -1 /\ (wakeAt' > now' => wakeAt' - Ticks(dueAt[t]) < 2 * TicksPerMs)
    BY <1>2 DEF NoOversleep
  <2>2. wakeAt # -1 /\ (wakeAt > now => wakeAt - Ticks(dueAt[t]) < 2 * TicksPerMs) /\ wakeAt' = wakeAt
    BY <1>1, <1>2, <2>1 DEF NoOversleep
  <2>3. wakeAt > now' => wakeAt > now
    BY <1>1, <1>2 DEF TimerTypes
  <2>. QED
    BY <2>2, <2>3
<1>. QED
  BY <1>3, <1>4 DEF TimerKept

\* A child is taken off the list, told of or not; its exit is waited for once.
LEMMA ChildrenKept ==
  ASSUME ChildKept, NEW p \in Pids, ReapChild(p) \/ uloop_process_delete(p) \/ ChildExits(p)
  PROVE  ChildKept'
<1>1. PICK ps \in Seq(Pids) : ps = processes /\ Once(ps)
  BY DEF ChildKept
<1>2. PICK r : r = RemoveFirst(ps, p)
  OBVIOUS
<1>3. r \in Seq(Pids) /\ Once(r) /\ Range(r) = Range(ps) \ {p}
  BY <1>1, <1>2, EntryOut
<1>4. /\ zombies \in SUBSET Pids /\ told \in [Pids -> {0, 1}] /\ \A q \in Range(ps) : told[q] = 0
      /\ zombies # {} => doSigchld \/ lpc = "children"
      /\ \A q \in Pids : told[q] = 1 => q \notin zombies
  BY <1>1 DEF ChildKept, ExitsNotForgotten
<1>5. /\ processes' \in Seq(Pids) /\ Once(processes') /\ zombies' \in SUBSET Pids
      /\ told' \in [Pids -> {0, 1}] /\ \A q \in Range(processes') : told'[q] = 0
      /\ \A q \in Pids : told'[q] = 1 => q \notin zombies'
  <2>1. CASE ReapChild(p)
    <3>1. processes' = r /\ zombies' = zombies \ {p}
          /\ told' = IF p \in Range(ps) THEN [told EXCEPT ![p] = @ + 1] ELSE told
      BY <1>1, <1>2, <2>1 DEF ReapChild
    <3>2. CASE p \in Range(ps)
      <4>1. told[p] = 0 /\ told' = [told EXCEPT ![p] = 1]
        <5>1. told[p] = 0 /\ told[p] + 1 = 1
          BY <1>4, <3>2
        <5>2. told' = [told EXCEPT ![p] = told[p] + 1]
          BY <3>1, <3>2
        <5>. QED
          BY <5>1, <5>2
      <4>2. told' \in [Pids -> {0, 1}] /\ told'[p] = 1 /\ \A q \in Pids : q # p => told'[q] = told[q]
        BY <1>4, <4>1
      <4>3. Range(r) \subseteq Pids /\ p \notin Range(r) /\ Range(r) \subseteq Range(ps)
        BY <1>3, ListMembers
      <4>4. \A q \in Range(r) : told'[q] = 0
        BY <1>4, <4>2, <4>3
      <4>5. \A q \in Pids : told'[q] = 1 => q \notin zombies'
        BY <1>4, <3>1, <4>2
      <4>6. processes' \in Seq(Pids) /\ Once(processes') /\ zombies' \in SUBSET Pids
        BY <1>3, <1>4, <3>1
      <4>. QED
        BY <3>1, <4>2, <4>4, <4>5, <4>6
    <3>3. CASE p \notin Range(ps)
      BY <1>3, <1>4, <3>1, <3>3
    <3>. QED
      BY <3>2, <3>3
  <2>2. CASE uloop_process_delete(p)
    <3>1. processes' = r /\ zombies' = zombies /\ told' = told
      BY <1>1, <1>2, <2>2 DEF uloop_process_delete
    <3>. QED
      BY <1>3, <1>4, <3>1
  <2>3. CASE ChildExits(p)
    <3>1. processes' = ps /\ zombies' = zombies \union {p} /\ told' = told /\ told[p] = 0
      BY <1>1, <2>3 DEF ChildExits
    <3>. QED
      BY <1>1, <1>4, <3>1
  <2>. QED
    BY <2>1, <2>2, <2>3
<1>6. zombies' # {} => doSigchld' \/ lpc' = "children"
  <2>1. CASE ReapChild(p)
    BY <2>1 DEF ReapChild, MoreChildren
  <2>2. CASE uloop_process_delete(p)
    BY <1>4, <2>2 DEF uloop_process_delete
  <2>3. CASE ChildExits(p)
    BY <2>3 DEF ChildExits
  <2>. QED
    BY <2>1, <2>2, <2>3
<1>7. \A q \in Pids : told'[q] <= 1
  BY <1>5
<1>. QED
  BY <1>5, <1>6, <1>7 DEF ChildKept, ExitsNotForgotten, Once

\* The other steps leave the children; the round that clears the flag looks at them.
LEMMA RestKeepsChildren ==
  ASSUME ChildKept,
         \/ \E t \in Timers : uloop_timeout_cancel(t) \/ \E ms \in Delays : uloop_timeout_set(t, ms)
         \/ TimerFires \/ TimeoutsDone \/ NoChild \/ Sleep \/ WakeUp \/ TimePasses \/ UNCHANGED timerVars
  PROVE  ChildKept'
<1>1. zombies # {} => doSigchld \/ lpc = "children"
  BY DEF ChildKept, ExitsNotForgotten
<1>2. /\ processes' = processes /\ zombies' = zombies /\ told' = told
      /\ zombies # {} => doSigchld' \/ lpc' = "children"
  <2>1. CASE \E t \in Timers : uloop_timeout_cancel(t) \/ \E ms \in Delays : uloop_timeout_set(t, ms)
    BY <1>1, <2>1 DEF uloop_timeout_cancel, uloop_timeout_set
  <2>2. CASE TimerFires \/ TimeoutsDone \/ NoChild
    BY <1>1, <2>2 DEF TimerFires, TimeoutsDone, NoChild
  <2>3. CASE Sleep \/ WakeUp \/ TimePasses \/ UNCHANGED timerVars
    BY <1>1, <2>3 DEF Sleep, WakeUp, TimePasses, timerVars
  <2>. QED
    BY <2>1, <2>2, <2>3
<1>. QED
  BY <1>2 DEF ChildKept, ExitsNotForgotten, Once

\* uloop starts with no timers and some children.
LEMMA TimerStart ==
  ASSUME TimerInit
  PROVE  TimerInv
<1>1. /\ now = 0 /\ timeouts = <<>> /\ dueAt = [t \in Timers |-> Tv(0)] /\ lpc = "timeouts" /\ wakeAt = -1
      /\ zombies = {} /\ told = [p \in Pids |-> 0]
      /\ processes \in SetToAllKPermutations(Pids)
  BY DEF TimerInit
<1>2. Tv(0) \in TimeVal
  BY TimeOfDay
<1>3. timeouts \in Seq(Timers) /\ Len(timeouts) = 0
  BY <1>1
<1>4. TimerTypes
  BY <1>1, <1>2, <1>3 DEF TimerTypes, Once
<1>5. TimersInOrder
  BY <1>3, OrderOfPlaces DEF InOrder
<1>6. TimerKept
  BY <1>1, <1>4, <1>5 DEF TimerKept, NoOversleep
<1>7. processes \in Seq(Pids) /\ Once(processes)
  <2>1. PICK S \in SUBSET Pids : processes \in SetToSeqs(S)
    BY <1>1 DEF SetToAllKPermutations
  <2>2. IsFiniteSet(S)
    BY FS_Subset, TimerAssumption
  <2>3. /\ processes \in Seq(S)
        /\ \A i, j \in 1 .. Len(processes) : processes[i] = processes[j] => i = j
    BY <2>1, <2>2, SetInOrder
  <2>. QED
    BY <2>3 DEF Once
<1>8. told \in [Pids -> {0, 1}] /\ \A q \in Pids : told[q] = 0
  BY <1>1
<1>9. Range(processes) \subseteq Pids
  BY <1>7, ListMembers
<1>10. ExitsNotForgotten
  BY <1>1, <1>8 DEF ExitsNotForgotten
<1>11. ChildKept
  BY <1>1, <1>7, <1>8, <1>9, <1>10 DEF ChildKept
<1>. QED
  BY <1>6, <1>11 DEF TimerInv

\* Whatever the delays, the ticks of a millisecond and the order of the steps, the
\* list of timers stays in order up to tv_diff's rounding, the loop never sleeps two
\* milliseconds past any timer, and no exit of a child is forgotten or told twice.
THEOREM TimersStayKept == TimerSpec => []TimersAndExitsKept
<1>1. TimerInit => TimerInv
  BY TimerStart
<1>2. TimerInv /\ [TimerNext]_timerVars => TimerInv'
  <2>1. SUFFICES ASSUME TimerInv, [TimerNext]_timerVars PROVE TimerInv'
    OBVIOUS
  <2>2. TimerKept /\ ChildKept
    BY <2>1 DEF TimerInv
  <2>3. CASE \E t \in Timers : uloop_timeout_cancel(t) \/ \E ms \in Delays : uloop_timeout_set(t, ms)
    BY <2>2, <2>3, SetKeeps, RestKeepsChildren DEF TimerInv
  <2>4. CASE \E p \in Pids : ReapChild(p) \/ uloop_process_delete(p) \/ ChildExits(p)
    BY <2>2, <2>4, RestKeepsTimers, ChildrenKept DEF TimerInv
  <2>5. CASE TimerFires
    BY <2>2, <2>5, FiresKeeps, RestKeepsChildren DEF TimerInv
  <2>6. CASE Sleep
    BY <2>2, <2>6, SleepKeeps, RestKeepsChildren DEF TimerInv
  <2>7. CASE TimeoutsDone \/ NoChild \/ WakeUp \/ TimePasses \/ UNCHANGED timerVars
    BY <2>2, <2>7, RestKeepsTimers, RestKeepsChildren DEF TimerInv
  <2>. QED
    BY <2>1, <2>3, <2>4, <2>5, <2>6, <2>7 DEF TimerNext
<1>3. TimerInv => TimersAndExitsKept
  BY DEF TimerInv, TimerKept, ChildKept, TimersAndExitsKept
<1>. QED
  BY <1>1, <1>2, <1>3, PTL DEF TimerSpec

-----------------------------------------------------------------------------
(***************************************************************************)
(* Runqueue, for any tasks and any calls made from within their callbacks: *)
(* the walks over the safe lists stay on them and the queue goes on.       *)
(***************************************************************************)

TaskFlags == [queued : BOOLEAN, running : BOOLEAN, cancelled : BOOLEAN, timer : BOOLEAN]
RqOps == RqCallbacks \union
         {"starting", "start_next", "cancel_pending", "cancel_active", "cancel_pending_next",
          "cancel_active_next", "then_active", "kill_all", "timer_off"}

\* Frames whose iterators wait at one of the tasks in L.
RqFrames(L) == [op : RqOps, t : Tasks \union {TheEnd}, next : L \union {TheEnd}]
OnLists == Range(active) \union Range(inactive)

\* ListsAgree, for the two lists apart.
RqLists ==
  /\ active \in Seq(Tasks) /\ Once(active) /\ inactive \in Seq(Tasks) /\ Once(inactive)
  /\ task \in [Tasks -> TaskFlags]
  /\ running_tasks = Len(active)
  /\ \A t \in Tasks : /\ t \in Range(active) <=> task[t].running
                      /\ t \in Range(inactive) <=> task[t].queued /\ ~task[t].running
                      /\ task[t].running \/ task[t].timer => task[t].queued

\* A frame that will start tasks, or arm the timer that does.
WillStart(fs) == \E i \in 1 .. Len(fs) : fs[i].op \in {"starting", "start_next"}

\* There is something to start, or the program is to be told that the queue is empty.
SomethingDue == \/ ~stopped /\ inactive # <<>> /\ ~Full
                \/ adds > 0 /\ ~empty /\ active = <<>> /\ inactive = <<>>

RqDue ==
  /\ stopped \in BOOLEAN /\ empty \in BOOLEAN /\ killed \in BOOLEAN
  /\ empty => active = <<>> /\ inactive = <<>>
  /\ SomethingDue => qTimer = "start" \/ killed \/ WillStart(rqFrames)

RqInv == RqLists /\ rqFrames \in Seq(RqFrames(OnLists)) /\ RqDue

-----------------------------------------------------------------------------
\* A shorter list of tasks leaves more frames out.
LEMMA FramesOfMore ==
  ASSUME NEW L, NEW M, L \subseteq M
  PROVE  RqFrames(L) \subseteq RqFrames(M) /\ Seq(RqFrames(L)) \subseteq Seq(RqFrames(M))
<1>1. RqFrames(L) \subseteq RqFrames(M)
  BY DEF RqFrames
<1> QED
  BY <1>1, SeqMonotonic

\* Frames put on the stack.
LEMMA StackGrows ==
  ASSUME NEW L, NEW p \in Seq(RqFrames(L)), NEW s \in Seq(RqFrames(L))
  PROVE  p \o s \in Seq(RqFrames(L)) /\ (WillStart(p) \/ WillStart(s) => WillStart(p \o s))
<1>1. Len(p) \in Nat /\ Len(s) \in Nat
  BY LenProperties
<1>2. PICK r : r = p \o s
  OBVIOUS
<1>3. /\ r \in Seq(RqFrames(L)) /\ Len(r) = Len(p) + Len(s)
      /\ \A i \in 1 .. Len(p) + Len(s) : r[i] = IF i <= Len(p) THEN p[i] ELSE s[i - Len(p)]
  BY <1>2, ConcatProperties
<1>4. ASSUME NEW i \in 1 .. Len(p) PROVE i \in 1 .. Len(r) /\ r[i] = p[i]
  BY <1>1, <1>3
<1>5. ASSUME NEW i \in 1 .. Len(s) PROVE \E j \in 1 .. Len(r) : r[j] = s[i]
  <2>1. PICK j \in 1 .. Len(r) : j = Len(p) + i
    BY <1>1, <1>3
  <2>2. j - Len(p) = i /\ ~(j <= Len(p))
    BY <1>1, <2>1
  <2> QED
    BY <1>3, <2>1, <2>2
<1> QED
  BY <1>2, <1>3, <1>4, <1>5 DEF WillStart

\* One frame put on the stack.
LEMMA FrameOn ==
  ASSUME NEW L, NEW f \in RqFrames(L), NEW s \in Seq(RqFrames(L))
  PROVE  /\ <<f>> \o s \in Seq(RqFrames(L)) /\ <<f>> \in Seq(RqFrames(L))
         /\ f.op \in {"starting", "start_next"} \/ WillStart(s) => WillStart(<<f>> \o s)
<1>1. <<f>> \in Seq(RqFrames(L)) /\ Len(<<f>>) = 1 /\ <<f>>[1] = f
  OBVIOUS
<1>2. f.op \in {"starting", "start_next"} => WillStart(<<f>>)
  BY <1>1 DEF WillStart
<1> QED
  BY <1>1, <1>2, StackGrows

\* The top frame taken off; the frames that will start something are below it.
LEMMA FrameOff ==
  ASSUME NEW L, NEW s \in Seq(RqFrames(L)), s # <<>>
  PROVE  /\ Tail(s) \in Seq(RqFrames(L)) /\ Head(s) \in RqFrames(L)
         /\ WillStart(s) /\ Head(s).op \notin {"starting", "start_next"} => WillStart(Tail(s))
<1>1. /\ Head(s) \in RqFrames(L) /\ Head(s) = s[1] /\ Tail(s) \in Seq(RqFrames(L))
      /\ \A i \in 1 .. Len(Tail(s)) : Tail(s)[i] = s[i + 1] /\ i + 1 \in 1 .. Len(s)
      /\ \A i \in 1 .. Len(s) : i = 1 \/ i - 1 \in 1 .. Len(Tail(s))
  BY TopTaken
<1>2. ASSUME NEW i \in 1 .. Len(s), s[i].op \in {"starting", "start_next"},
             Head(s).op \notin {"starting", "start_next"}
      PROVE  WillStart(Tail(s))
  <2>1. i # 1
    BY <1>1, <1>2
  <2>2. PICK k \in 1 .. Len(Tail(s)) : k = i - 1
    BY <1>1, <2>1
  <2>3. k + 1 = i
    BY <2>2
  <2>4. Tail(s)[k] = s[i]
    BY <1>1, <2>3
  <2> QED
    BY <1>2, <2>4 DEF WillStart
<1> QED
  BY <1>1, <1>2 DEF WillStart

\* Where an iterator goes: to another task of the list, or to its end.
LEMMA SuccessorOn ==
  ASSUME NEW s \in Seq(Tasks), Once(s), NEW t
  PROVE  Successor(s, t) \in (Range(s) \ {t}) \union {TheEnd}
<1> DEFINE I == {i \in 1 .. Len(s) : s[i] = t}
<1>1. PICK k : k = SelectInSeq(s, LAMBDA x : x = t)
  OBVIOUS
<1>2. k = IF I # {} THEN Min(I) ELSE 0
  BY <1>1, Zenon DEF SelectInSeq
<1>3. Successor(s, t) = IF k \in 1 .. (Len(s) - 1) THEN s[k + 1] ELSE TheEnd
  BY <1>1, Zenon DEF Successor
<1>4. Len(s) \in Nat /\ Range(s) = {s[i] : i \in 1 .. Len(s)}
  BY ListMembers
<1>5. ASSUME k \in 1 .. (Len(s) - 1) PROVE s[k + 1] \in Range(s) \ {t}
  <2>1. I \in SUBSET Nat /\ I # {}
    BY <1>2, <1>5
  <2>2. Min(I) \in I
    <3> HIDE DEF I
    <3> QED
      BY <2>1, MinFound
  <2>3. k \in 1 .. Len(s) /\ s[k] = t
    BY <1>2, <2>1, <2>2
  <2>4. k + 1 \in 1 .. Len(s) /\ k + 1 # k
    BY <1>4, <1>5
  <2>5. s[k + 1] # t
    <3>1. PICK m \in 1 .. Len(s) : m = k + 1 /\ m # k
      BY <2>4
    <3> QED
      BY <2>3, <3>1 DEF Once
  <2> QED
    BY <1>4, <2>4, <2>5
<1> QED
  BY <1>3, <1>5

\* safe_list_del: no iterator waits at the task that goes.
LEMMA IteratorsMove ==
  ASSUME NEW L, NEW fs \in Seq(RqFrames(L)), NEW s \in Seq(Tasks), Once(s), Range(s) \subseteq L,
         NEW t
  PROVE  /\ safe_list_del(fs, s, t) \in Seq(RqFrames(L \ {t}))
         /\ WillStart(fs) => WillStart(safe_list_del(fs, s, t))
<1> DEFINE n == Successor(s, t)
           e(i) == IF fs[i].next = t THEN [fs[i] EXCEPT !.next = n] ELSE fs[i]
           r == [i \in 1 .. Len(fs) |-> e(i)]
<1>1. n \in (L \ {t}) \union {TheEnd}
  BY SuccessorOn
<1>2. Len(fs) \in Nat /\ DOMAIN fs = 1 .. Len(fs)
  BY LenProperties
<1>3. ASSUME NEW i \in 1 .. Len(fs)
      PROVE  e(i) \in RqFrames(L \ {t}) /\ e(i).op = fs[i].op
  <2>1. PICK f \in RqFrames(L) : f = fs[i]
    BY ElementOfSeq
  <2>2. PICK m \in (L \ {t}) \union {TheEnd} : m = n
    BY <1>1
  <2>3. e(i) = IF f.next = t THEN [f EXCEPT !.next = m] ELSE f
    BY <2>1, <2>2
  <2> QED
    BY <2>1, <2>3 DEF RqFrames
<1>4. safe_list_del(fs, s, t) = r
  BY <1>2 DEF safe_list_del
<1>5. PICK q : q = r
  OBVIOUS
<1>6. q \in [1 .. Len(fs) -> RqFrames(L \ {t})] /\ \A i \in 1 .. Len(fs) : q[i].op = fs[i].op
  <2>1. \A i \in 1 .. Len(fs) : q[i] = e(i)
    BY <1>5
  <2>2. DOMAIN q = 1 .. Len(fs) /\ q = [i \in 1 .. Len(fs) |-> q[i]]
    BY <1>5
  <2> HIDE DEF e, r
  <2> QED
    BY <1>3, <2>1, <2>2
<1> HIDE DEF n, e, r
<1>7. q \in Seq(RqFrames(L \ {t})) /\ Len(q) = Len(fs)
  BY <1>2, <1>6, MappedList
<1> QED
  BY <1>4, <1>5, <1>6, <1>7 DEF WillStart

\* A walk's frame: where it is and where its iterator waits.
LEMMA WalkOn ==
  ASSUME NEW op \in RqOps, NEW s \in Seq(Tasks), Once(s), NEW cur \in Tasks \union {TheEnd},
         NEW L, Range(s) \subseteq L
  PROVE  Walk(op, s, cur) \in RqFrames(L) /\ FirstOf(s) \in Tasks \union {TheEnd}
<1>1. Successor(s, cur) \in L \union {TheEnd}
  BY SuccessorOn
<1>2. FirstOf(s) \in Tasks \union {TheEnd}
  BY ListMembers DEF FirstOf
<1> QED
  BY <1>1, <1>2 DEF Walk, RqFrames

-----------------------------------------------------------------------------
(* The steps of the run queue *)

\* RqFrame's iterator waits nowhere.
LEMMA PlainFrame ==
  ASSUME NEW op \in RqOps, NEW t \in Tasks \union {TheEnd}, NEW L
  PROVE  RqFrame(op, t) \in RqFrames(L) /\ RqFrame(op, t).op = op
BY DEF RqFrame, RqFrames

\* What the flags of a task can be.
LEMMA FlagTypes ==
  ASSUME task \in [Tasks -> TaskFlags], NEW t \in Tasks
  PROVE  /\ task[t].queued \in BOOLEAN /\ task[t].running \in BOOLEAN
         /\ task[t].cancelled \in BOOLEAN /\ task[t].timer \in BOOLEAN
BY DEF TaskFlags

\* A task that is complete is on no list, no iterator waits at it, and
\* runqueue_start_next will be called.
LEMMA CompleteKeeps ==
  ASSUME RqLists, NEW t \in Tasks, task[t].queued, NEW fs \in Seq(RqFrames(OnLists)),
         CompleteTask(t, fs)
  PROVE  /\ RqLists' /\ rqFrames' \in Seq(RqFrames(OnLists')) /\ WillStart(rqFrames')
         /\ (active = <<>> => active' = <<>>) /\ (inactive = <<>> => inactive' = <<>>)
         /\ UNCHANGED <<stopped, empty, qTimer, adds, killed>>
<1>1. /\ active \in Seq(Tasks) /\ Once(active) /\ inactive \in Seq(Tasks) /\ Once(inactive)
      /\ task \in [Tasks -> TaskFlags] /\ running_tasks = Len(active) /\ Len(active) \in Nat
      /\ t \in Range(active) <=> task[t].running
      /\ t \in Range(inactive) <=> task[t].queued /\ ~task[t].running
  BY ListMembers DEF RqLists
<1>2. /\ active' = RemoveFirst(active, t) /\ inactive' = RemoveFirst(inactive, t)
      /\ running_tasks' = running_tasks - (IF task[t].running THEN 1 ELSE 0)
      /\ task' = [task EXCEPT ![t] = [queued |-> FALSE, running |-> FALSE,
                                      cancelled |-> FALSE, timer |-> FALSE]]
      /\ UNCHANGED <<stopped, empty, qTimer, adds, killed>>
  BY DEF CompleteTask
<1>3. /\ active' \in Seq(Tasks) /\ Once(active)' /\ Range(active') = Range(active) \ {t}
      /\ Len(active') = IF t \in Range(active) THEN Len(active) - 1 ELSE Len(active)
  <2>1. PICK r : r = active'
    OBVIOUS
  <2>2. /\ r \in Seq(Tasks) /\ Once(r) /\ Range(r) = Range(active) \ {t}
        /\ Len(r) = IF t \in Range(active) THEN Len(active) - 1 ELSE Len(active)
    BY <1>1, <1>2, <2>1, EntryOut
  <2> QED
    BY <2>1, <2>2 DEF Once
<1>4. /\ inactive' \in Seq(Tasks) /\ Once(inactive)' /\ Range(inactive') = Range(inactive) \ {t}
  <2>1. PICK r : r = inactive'
    OBVIOUS
  <2>2. r \in Seq(Tasks) /\ Once(r) /\ Range(r) = Range(inactive) \ {t}
    BY <1>1, <1>2, <2>1, EntryOut
  <2> QED
    BY <2>1, <2>2 DEF Once
<1>5. running_tasks' = Len(active')
  <2>1. CASE task[t].running
    BY <1>1, <1>2, <1>3, <2>1
  <2>2. CASE ~task[t].running
    BY <1>1, <1>2, <1>3, <2>2
  <2> QED
    BY <2>1, <2>2
<1>6. task' \in [Tasks -> TaskFlags]
  BY <1>1, <1>2 DEF TaskFlags
<1>7. ASSUME NEW u \in Tasks
      PROVE  /\ u \in Range(active') <=> task'[u].running
             /\ u \in Range(inactive') <=> task'[u].queued /\ ~task'[u].running
             /\ task'[u].running \/ task'[u].timer => task'[u].queued
  <2>1. CASE u = t
    <3>1. task'[u] = [queued |-> FALSE, running |-> FALSE, cancelled |-> FALSE, timer |-> FALSE]
      BY <1>1, <1>2, <2>1
    <3> QED
      BY <1>3, <1>4, <2>1, <3>1
  <2>2. CASE u # t
    <3>1. task'[u] = task[u]
      BY <1>1, <1>2, <2>2
    <3> QED
      BY <1>3, <1>4, <2>2, <3>1 DEF RqLists
  <2> QED
    BY <2>1, <2>2
<1>8. RqLists'
  BY <1>3, <1>4, <1>5, <1>6, <1>7 DEF RqLists
<1>9. OnLists' = OnLists \ {t}
  BY <1>3, <1>4 DEF OnLists
<1>10. PICK s \in Seq(Tasks) : s = IF task[t].running THEN active ELSE inactive
  BY <1>1
<1>11. Once(s) /\ Range(s) \subseteq OnLists
  BY <1>1, <1>10 DEF OnLists
<1>12. PICK gs : gs = safe_list_del(fs, s, t)
  OBVIOUS
<1>13. gs \in Seq(RqFrames(OnLists \ {t}))
  BY <1>11, <1>12, IteratorsMove
<1>14. PICK p : p = <<RqFrame("complete_cb", t), RqFrame("start_next", t)>>
  OBVIOUS
<1>15. rqFrames' = p \o gs
  BY <1>10, <1>12, <1>14 DEF CompleteTask
<1>16. p \in Seq(RqFrames(OnLists \ {t})) /\ WillStart(p)
  <2>1. PICK a, b \in RqFrames(OnLists \ {t}) :
          a = RqFrame("complete_cb", t) /\ b = RqFrame("start_next", t) /\ b.op = "start_next"
    <3>1. "complete_cb" \in RqOps /\ "start_next" \in RqOps /\ t \in Tasks \union {TheEnd}
      BY DEF RqOps, RqCallbacks
    <3> QED
      BY <3>1, PlainFrame
  <2>2. p = <<a, b>>
    BY <1>14, <2>1
  <2>3. p \in Seq(RqFrames(OnLists \ {t})) /\ Len(p) = 2 /\ p[2] = b
    BY <2>2
  <2> QED
    BY <2>1, <2>3 DEF WillStart
<1>17. rqFrames' \in Seq(RqFrames(OnLists \ {t})) /\ WillStart(p \o gs)
  BY <1>13, <1>15, <1>16, StackGrows
<1>18. (active = <<>> => active' = <<>>) /\ (inactive = <<>> => inactive' = <<>>)
  BY <1>1, <1>3, <1>4, ListMembers
<1> QED
  BY <1>2, <1>8, <1>9, <1>15, <1>17, <1>18

\* runqueue_task_cancel leaves the lists in agreement and the frames of its caller,
\* in which something to be started stays so.
LEMMA CancelKeeps ==
  ASSUME RqLists, NEW t \in Tasks, NEW fs \in Seq(RqFrames(OnLists)), NEW pending \in BOOLEAN,
         CancelTask(t, fs, pending)
  PROVE  /\ RqLists' /\ rqFrames' \in Seq(RqFrames(OnLists'))
         /\ WillStart(rqFrames') \/ ((WillStart(fs) => WillStart(rqFrames')) /\ UNCHANGED <<active, inactive, running_tasks>>)
         /\ (active = <<>> => active' = <<>>) /\ (inactive = <<>> => inactive' = <<>>)
         /\ UNCHANGED <<stopped, empty, qTimer, adds, killed>>
<1>1. CASE task[t].queued /\ ~task[t].running /\ CompleteTask(t, fs)
  BY <1>1, CompleteKeeps
<1>2. CASE /\ task[t].running
           /\ \E timed \in {TRUE, pending} :
                task' = [task EXCEPT ![t].cancelled = TRUE, ![t].timer = timed]
           /\ rqFrames' = <<RqFrame("cancel_cb", t)>> \o fs
           /\ UNCHANGED <<active, inactive, running_tasks, stopped, empty, qTimer, adds, killed>>
  <2>1. PICK timed \in BOOLEAN : task' = [task EXCEPT ![t].cancelled = TRUE, ![t].timer = timed]
    BY <1>2
  <2>2. task \in [Tasks -> TaskFlags]
    BY DEF RqLists
  <2>3. task' \in [Tasks -> TaskFlags]
    BY <2>1, <2>2 DEF TaskFlags
  <2>4. ASSUME NEW u \in Tasks
        PROVE  /\ task'[u].queued = task[u].queued /\ task'[u].running = task[u].running
               /\ task'[u].timer = task[u].timer \/ u = t
    BY <2>1, <2>2 DEF TaskFlags
  <2>5. RqLists'
    <3>1. task[t].queued
      BY <1>2 DEF RqLists
    <3> QED
      BY <1>2, <2>3, <2>4, <3>1 DEF RqLists, Once
  <2>6. OnLists' = OnLists
    BY <1>2 DEF OnLists
  <2>7. "cancel_cb" \in RqOps /\ t \in Tasks \union {TheEnd}
    BY DEF RqOps, RqCallbacks
  <2>8. RqFrame("cancel_cb", t) \in RqFrames(OnLists)
    BY <2>7, PlainFrame
  <2>9. rqFrames' \in Seq(RqFrames(OnLists)) /\ (WillStart(fs) => WillStart(<<RqFrame("cancel_cb", t)>> \o fs))
    BY <1>2, <2>8, FrameOn
  <2> QED
    BY <1>2, <2>5, <2>6, <2>9
<1>3. CASE /\ ~task[t].queued
           /\ rqFrames' = fs
           /\ UNCHANGED <<active, inactive, task, running_tasks, stopped, empty, qTimer, adds, killed>>
  <2>1. RqLists' /\ OnLists' = OnLists
    BY <1>3 DEF RqLists, Once, OnLists
  <2> QED
    BY <1>3, <2>1
<1> QED
  BY <1>1, <1>2, <1>3 DEF CancelTask

\* runqueue_task_kill ends with runqueue_start_next.
LEMMA KillKeeps ==
  ASSUME RqLists, NEW t \in Tasks, NEW fs \in Seq(RqFrames(OnLists)), KillTask(t, fs)
  PROVE  /\ RqLists' /\ rqFrames' \in Seq(RqFrames(OnLists')) /\ WillStart(rqFrames')
         /\ (active = <<>> => active' = <<>>) /\ (inactive = <<>> => inactive' = <<>>)
         /\ UNCHANGED <<stopped, empty, qTimer, adds, killed>>
<1>1. PICK gs : gs = (IF task[t].running THEN <<RqFrame("kill_cb", t)>> ELSE <<>>)
                     \o <<RqFrame("start_next", t)>> \o fs
  OBVIOUS
<1>2. task[t].queued /\ CompleteTask(t, gs)
  BY <1>1 DEF KillTask
<1>3. "kill_cb" \in RqOps /\ "start_next" \in RqOps /\ t \in Tasks \union {TheEnd}
  BY DEF RqOps, RqCallbacks
<1>4. RqFrame("kill_cb", t) \in RqFrames(OnLists) /\ RqFrame("start_next", t) \in RqFrames(OnLists)
  BY <1>3, PlainFrame
<1>5. PICK p, q \in Seq(RqFrames(OnLists)) :
        /\ p = IF task[t].running THEN <<RqFrame("kill_cb", t)>> ELSE <<>>
        /\ q = <<RqFrame("start_next", t)>>
  <2>1. PICK a, b \in RqFrames(OnLists) : a = RqFrame("kill_cb", t) /\ b = RqFrame("start_next", t)
    BY <1>4
  <2>2. <<a>> \in Seq(RqFrames(OnLists)) /\ <<b>> \in Seq(RqFrames(OnLists))
    OBVIOUS
  <2>3. <<>> \in Seq(RqFrames(OnLists))
    OBVIOUS
  <2> QED
    BY <2>1, <2>2, <2>3
<1>6. gs = (p \o q) \o fs
  BY <1>1, <1>5
<1>7. gs \in Seq(RqFrames(OnLists))
  BY <1>6, StackGrows
<1> QED
  BY <1>2, <1>7, CompleteKeeps

\* What is due stays so unless a list or a flag of the queue changes.
LEMMA DueKept ==
  ASSUME RqInv, NEW s, WillStart(rqFrames) => WillStart(s), rqFrames' = s,
         s \in Seq(RqFrames(OnLists)),
         UNCHANGED <<active, inactive, task, running_tasks, stopped, empty, qTimer, adds, killed>>
  PROVE  RqInv'
<1>1. RqLists' /\ OnLists' = OnLists /\ Full' = Full
  BY DEF RqInv, RqLists, OnLists, Full, Once
<1>2. WillStart(rqFrames) => WillStart(rqFrames')
  OBVIOUS
<1>3. SomethingDue' = SomethingDue
  BY <1>1 DEF SomethingDue
<1>4. RqDue'
  BY <1>2, <1>3 DEF RqInv, RqDue
<1> QED
  BY <1>1, <1>4 DEF RqInv

\* Completing, cancelling and killing, whoever calls them.
LEMMA CompletingKeeps ==
  ASSUME RqInv, NEW t \in Tasks,
         NEW fs \in Seq(RqFrames(OnLists)), WillStart(rqFrames) => WillStart(fs),
         NEW pending \in BOOLEAN,
         \/ task[t].queued /\ CompleteTask(t, fs)
         \/ CancelTask(t, fs, pending)
         \/ KillTask(t, fs)
  PROVE  RqInv'
<1>1. /\ RqLists' /\ rqFrames' \in Seq(RqFrames(OnLists'))
      /\ \/ WillStart(rqFrames')
         \/ (WillStart(rqFrames) => WillStart(rqFrames')) /\ UNCHANGED <<active, inactive, running_tasks>>
      /\ (active = <<>> => active' = <<>>) /\ (inactive = <<>> => inactive' = <<>>)
      /\ UNCHANGED <<stopped, empty, qTimer, adds, killed>>
  BY CompleteKeeps, CancelKeeps, KillKeeps DEF RqInv
<1>2. CASE WillStart(rqFrames')
  BY <1>1, <1>2 DEF RqInv, RqDue
<1>3. CASE (WillStart(rqFrames) => WillStart(rqFrames')) /\ UNCHANGED <<active, inactive, running_tasks>>
  <2>1. SomethingDue' = SomethingDue
    BY <1>1, <1>3 DEF SomethingDue, Full
  <2> QED
    BY <1>1, <1>3, <2>1 DEF RqInv, RqDue
<1> QED
  BY <1>1, <1>2, <1>3

\* A task that is added is started by the timer that is set.
LEMMA AddKeepsQueue ==
  ASSUME RqInv, NEW t \in Tasks, NEW running \in BOOLEAN, NEW first \in BOOLEAN,
         runqueue_task_add(t, running, first)
  PROVE  RqInv'
<1>1. /\ active \in Seq(Tasks) /\ Once(active) /\ inactive \in Seq(Tasks) /\ Once(inactive)
      /\ task \in [Tasks -> TaskFlags] /\ running_tasks = Len(active) /\ Len(active) \in Nat
      /\ rqFrames \in Seq(RqFrames(OnLists))
  BY ListMembers DEF RqInv, RqLists
<1>2. t \notin Range(active) /\ t \notin Range(inactive)
  BY DEF RqInv, RqLists, runqueue_task_add
<1>3. /\ running_tasks' = Counted(running_tasks, running)
      /\ task' = [task EXCEPT ![t] = [queued |-> TRUE, running |-> running,
                                      cancelled |-> FALSE, timer |-> FALSE]]
      /\ empty' = FALSE /\ qTimer' = "start" /\ killed' = FALSE /\ stopped' = stopped
      /\ rqFrames' = rqFrames
  BY DEF runqueue_task_add
<1>4. \/ /\ running /\ inactive' = inactive /\ active' \in {<<t>> \o active, Append(active, t)}
      \/ /\ ~running /\ active' = active /\ inactive' \in {<<t>> \o inactive, Append(inactive, t)}
  BY DEF runqueue_task_add
<1>5. /\ active' \in Seq(Tasks) /\ Once(active') /\ inactive' \in Seq(Tasks) /\ Once(inactive')
      /\ Range(active') = IF running THEN Range(active) \union {t} ELSE Range(active)
      /\ Range(inactive') = IF running THEN Range(inactive) ELSE Range(inactive) \union {t}
      /\ running_tasks' = Len(active')
  <2>1. PICK a, b : a = active' /\ b = inactive'
    OBVIOUS
  <2>2. /\ a \in Seq(Tasks) /\ Once(a) /\ b \in Seq(Tasks) /\ Once(b)
        /\ Range(a) = IF running THEN Range(active) \union {t} ELSE Range(active)
        /\ Range(b) = IF running THEN Range(inactive) ELSE Range(inactive) \union {t}
        /\ Len(a) = IF running THEN Len(active) + 1 ELSE Len(active)
    <3>1. CASE running
      <4>1. a \in {<<t>> \o active, Append(active, t)} /\ b = inactive
        BY <1>4, <2>1, <3>1
      <4>l. active \in Seq(Tasks) /\ Once(active)
        BY <1>1
      <4>2. a \in Seq(Tasks) /\ Once(a) /\ Range(a) = Range(active) \union {t} /\ Len(a) = Len(active) + 1
        BY <1>2, <4>1, <4>l, EntryPut
      <4> QED
        BY <1>1, <3>1, <4>1, <4>2
    <3>2. CASE ~running
      <4>1. b \in {<<t>> \o inactive, Append(inactive, t)} /\ a = active
        BY <1>4, <2>1, <3>2
      <4>2. b \in Seq(Tasks) /\ Once(b) /\ Range(b) = Range(inactive) \union {t}
        BY <1>1, <1>2, <4>1, EntryPut, SMTT(20)
      <4> QED
        BY <1>1, <3>2, <4>1, <4>2
    <3> QED
      BY <3>1, <3>2
  <2>3. running_tasks' = IF running THEN Len(active) + 1 ELSE Len(active)
    BY <1>1, <1>3 DEF Counted
  <2> QED
    BY <2>1, <2>2, <2>3
<1>6. task' \in [Tasks -> TaskFlags]
  BY <1>1, <1>3 DEF TaskFlags
<1>7. ASSUME NEW u \in Tasks
      PROVE  /\ u \in Range(active') <=> task'[u].running
             /\ u \in Range(inactive') <=> task'[u].queued /\ ~task'[u].running
             /\ task'[u].running \/ task'[u].timer => task'[u].queued
  <2>1. CASE u = t
    <3>1. task'[u] = [queued |-> TRUE, running |-> running, cancelled |-> FALSE, timer |-> FALSE]
      BY <1>1, <1>3, <2>1
    <3>2. task'[u].queued = TRUE /\ task'[u].running = running
      BY <3>1
    <3> QED
      BY <1>2, <1>5, <2>1, <3>2
  <2>2. CASE u # t
    <3>1. task'[u] = task[u]
      BY <1>1, <1>3, <2>2
    <3> QED
      BY <1>5, <2>2, <3>1 DEF RqInv, RqLists
  <2> QED
    BY <2>1, <2>2
<1>8. RqLists'
  BY <1>5, <1>6, <1>7 DEF RqLists, Once
<1>9. OnLists \subseteq OnLists'
  BY <1>5 DEF OnLists
<1>10. rqFrames' \in Seq(RqFrames(OnLists'))
  BY <1>1, <1>3, <1>9, FramesOfMore
<1>11. RqDue'
  BY <1>3 DEF RqInv, RqDue
<1> QED
  BY <1>8, <1>10, <1>11 DEF RqInv

\* A task that is started moves from one list to the other; the round goes on.
LEMMA StartKeeps ==
  ASSUME RqInv, StartNext
  PROVE  RqInv'
<1>1. /\ active \in Seq(Tasks) /\ Once(active) /\ inactive \in Seq(Tasks) /\ Once(inactive)
      /\ task \in [Tasks -> TaskFlags] /\ running_tasks = Len(active) /\ Len(active) \in Nat
      /\ rqFrames \in Seq(RqFrames(OnLists)) /\ rqFrames # <<>> /\ inactive # <<>>
  BY ListMembers DEF RqInv, RqLists, StartNext, CanStart
<1>2. PICK t \in Tasks : t = Head(inactive)
  BY <1>1, TopTaken
<1>3. PICK timed \in BOOLEAN : task' = [task EXCEPT ![t].running = TRUE, ![t].timer = timed]
  BY <1>2 DEF StartNext
<1>4. /\ inactive' = Tail(inactive) /\ active' = Append(active, t)
      /\ rqFrames' = <<RqFrame("run_cb", t)>> \o safe_list_del(rqFrames, inactive, t)
      /\ running_tasks' = running_tasks + 1
      /\ UNCHANGED <<stopped, empty, qTimer, adds, killed>>
      /\ RqTop.op = "starting"
  BY <1>2 DEF StartNext
<1>5. /\ t \in Range(inactive) /\ t \notin Range(active) /\ task[t].queued
  <2>1. t \in Range(inactive)
    BY <1>1, <1>2, ListMembers
  <2> QED
    BY <2>1 DEF RqInv, RqLists
<1>6. /\ active' \in Seq(Tasks) /\ Once(active') /\ Range(active') = Range(active) \union {t}
      /\ Len(active') = Len(active) + 1
  <2>1. PICK a : a = active'
    OBVIOUS
  <2>2. /\ a \in Seq(Tasks) /\ Once(a) /\ Range(a) = Range(active) \union {t}
        /\ Len(a) = Len(active) + 1
    <3>1. a \in {<<t>> \o active, Append(active, t)}
      BY <1>4, <2>1
    <3>2. active \in Seq(Tasks) /\ Once(active)
      BY <1>1
    <3> QED
      BY <1>5, <3>1, <3>2, EntryPut
  <2> QED
    BY <2>1, <2>2
<1>7. /\ inactive' \in Seq(Tasks) /\ Once(inactive') /\ Range(inactive') = Range(inactive) \ {t}
  BY <1>1, <1>2, <1>4, HeadOut
<1>8. ASSUME NEW u \in Tasks
      PROVE  /\ u \in Range(active') <=> task'[u].running
             /\ u \in Range(inactive') <=> task'[u].queued /\ ~task'[u].running
             /\ task'[u].running \/ task'[u].timer => task'[u].queued
  <2>1. CASE u = t
    <3>1. task'[u].running = TRUE /\ task'[u].queued = task[u].queued
      BY <1>1, <1>3, <2>1 DEF TaskFlags
    <3> QED
      BY <1>5, <1>6, <1>7, <2>1, <3>1
  <2>2. CASE u # t
    <3>1. task'[u] = task[u]
      BY <1>1, <1>3, <2>2
    <3> QED
      BY <1>6, <1>7, <2>2, <3>1 DEF RqInv, RqLists
  <2> QED
    BY <2>1, <2>2
<1>9. task' \in [Tasks -> TaskFlags]
  BY <1>1, <1>3 DEF TaskFlags
<1>10. RqLists'
  BY <1>1, <1>4, <1>6, <1>7, <1>8, <1>9 DEF RqLists, Once
<1>11. OnLists' = OnLists /\ Range(inactive) \subseteq OnLists
  BY <1>5, <1>6, <1>7 DEF OnLists
<1>12. PICK gs : gs = safe_list_del(rqFrames, inactive, t)
  OBVIOUS
<1>13. gs \in Seq(RqFrames(OnLists \ {t})) /\ (WillStart(rqFrames) => WillStart(gs))
  BY <1>1, <1>11, <1>12, IteratorsMove
<1>14. gs \in Seq(RqFrames(OnLists))
  BY <1>13, FramesOfMore
<1>15. WillStart(rqFrames)
  <2>1. 1 \in 1 .. Len(rqFrames) /\ rqFrames[1].op = "starting"
    BY <1>1, <1>4, TopTaken DEF RqTop
  <2> QED
    BY <2>1 DEF WillStart
<1>16. "run_cb" \in RqOps /\ t \in Tasks \union {TheEnd}
  BY DEF RqOps, RqCallbacks
<1>17. rqFrames' \in Seq(RqFrames(OnLists)) /\ WillStart(<<RqFrame("run_cb", t)>> \o gs)
  BY <1>4, <1>12, <1>13, <1>14, <1>15, <1>16, PlainFrame, FrameOn
<1>18. WillStart(rqFrames')
  BY <1>4, <1>12, <1>17
<1>19. RqDue'
  BY <1>1, <1>4, <1>18 DEF RqInv, RqDue
<1> QED
  BY <1>10, <1>11, <1>17, <1>19 DEF RqInv

\* The steps that only put frames on the stack or take them off, and what arms a timer.
LEMMA QueueStepsKeep ==
  ASSUME RqInv,
         \/ runqueue_cancel \/ runqueue_kill \/ runqueue_stop \/ runqueue_resume
         \/ CallbackDone \/ QueueTimer \/ StartEnds \/ StartNextLater
         \/ WalkNext \/ WalkEnds \/ ThenActive \/ TimerOff
         \/ (KillAll /\ active = <<>>)
  PROVE  RqInv'
<1>1. /\ active \in Seq(Tasks) /\ Once(active) /\ inactive \in Seq(Tasks) /\ Once(inactive)
      /\ rqFrames \in Seq(RqFrames(OnLists)) /\ RqLists
      /\ Range(active) \subseteq OnLists /\ Range(inactive) \subseteq OnLists
  BY DEF RqInv, RqLists, OnLists
<1>2. ASSUME UNCHANGED <<active, inactive, task, running_tasks>>
      PROVE  RqLists' /\ OnLists' = OnLists /\ Full' = Full
  BY <1>1, <1>2 DEF RqLists, OnLists, Full, Once
<1>3. FirstOf(active) \in Tasks \union {TheEnd} /\ FirstOf(inactive) \in Tasks \union {TheEnd}
  BY <1>1, ListMembers DEF FirstOf
<1>4. {"cancel_pending", "cancel_active", "then_active", "kill_all", "timer_off", "starting", "empty_cb"}
         \subseteq RqOps /\ TheEnd \in Tasks \union {TheEnd}
  BY DEF RqOps, RqCallbacks
<1>5. ASSUME rqFrames # <<>>
      PROVE  /\ RqTop \in RqFrames(OnLists) /\ RqBelow \in Seq(RqFrames(OnLists))
             /\ RqTop.next \in Tasks \union {TheEnd}
             /\ WillStart(rqFrames) /\ RqTop.op \notin {"starting", "start_next"} => WillStart(RqBelow)
  <2>1. /\ RqTop \in RqFrames(OnLists) /\ RqBelow \in Seq(RqFrames(OnLists))
        /\ WillStart(rqFrames) /\ RqTop.op \notin {"starting", "start_next"} => WillStart(RqBelow)
    BY <1>1, <1>5, FrameOff DEF RqTop, RqBelow
  <2>2. OnLists \subseteq Tasks
    BY <1>1, ListMembers DEF OnLists
  <2>3. RqTop.next \in OnLists \union {TheEnd}
    BY <2>1 DEF RqFrames
  <2> QED
    BY <2>1, <2>2, <2>3
<1>6. CASE runqueue_cancel
  <2>1. PICK a, b \in RqFrames(OnLists) :
          a = Walk("cancel_pending", inactive, FirstOf(inactive)) /\ b = RqFrame("then_active", TheEnd)
    BY <1>1, <1>3, <1>4, WalkOn, PlainFrame
  <2>2. rqFrames' = <<a, b>> \o rqFrames
    BY <1>6, <2>1 DEF runqueue_cancel
  <2>3. <<a, b>> \in Seq(RqFrames(OnLists))
    OBVIOUS
  <2>4. <<a, b>> \o rqFrames \in Seq(RqFrames(OnLists)) /\ (WillStart(rqFrames) => WillStart(<<a, b>> \o rqFrames))
    BY <1>1, <2>3, StackGrows
  <2> QED
    BY <1>6, <2>2, <2>4, DueKept DEF runqueue_cancel
<1>7. CASE runqueue_kill
  <2>1. RqFrame("kill_all", TheEnd) \in RqFrames(OnLists)
    BY <1>4, PlainFrame
  <2>2. PICK s : s = <<RqFrame("kill_all", TheEnd)>> \o rqFrames
    OBVIOUS
  <2>3. s \in Seq(RqFrames(OnLists)) /\ (WillStart(rqFrames) => WillStart(s))
    BY <1>1, <2>1, <2>2, FrameOn
  <2> QED
    BY <1>7, <2>2, <2>3, DueKept DEF runqueue_kill
<1>8. CASE runqueue_stop
  <2>1. RqLists' /\ OnLists' = OnLists
    BY <1>2, <1>8 DEF runqueue_stop
  <2>2. SomethingDue' => SomethingDue
    BY <1>8 DEF runqueue_stop, SomethingDue
  <2> QED
    BY <1>8, <2>1, <2>2 DEF runqueue_stop, RqInv, RqDue
<1>9. CASE runqueue_resume
  <2>1. RqLists' /\ OnLists' = OnLists
    BY <1>2, <1>9 DEF runqueue_resume
  <2>2. RqDue'
    BY <1>9 DEF runqueue_resume, Armed, RqInv, RqDue, SomethingDue
  <2> QED
    BY <1>9, <2>1, <2>2 DEF runqueue_resume, RqInv
<1>10. CASE CallbackDone \/ WalkEnds
  <2>1. rqFrames # <<>> /\ RqTop.op \notin {"starting", "start_next"}
    BY <1>10 DEF CallbackDone, WalkEnds, RqCallbacks
  <2>2. RqBelow \in Seq(RqFrames(OnLists)) /\ (WillStart(rqFrames) => WillStart(RqBelow))
    BY <1>5, <2>1
  <2> QED
    BY <1>10, <2>2, DueKept DEF CallbackDone, WalkEnds
<1>11. CASE QueueTimer
  <2>1. PICK op \in {"starting", "empty_cb"} : op = IF qTimer = "start" THEN "starting" ELSE "empty_cb"
    OBVIOUS
  <2>2. PICK f \in RqFrames(OnLists) : f = RqFrame(op, TheEnd) /\ f.op = op
    BY <1>4, <2>1, PlainFrame
  <2>3. rqFrames' = <<f>>
    BY <1>11, <2>1, <2>2 DEF QueueTimer
  <2>4. rqFrames' \in Seq(RqFrames(OnLists)) /\ Len(rqFrames') = 1 /\ rqFrames'[1] = f
    BY <2>3
  <2>5. RqLists' /\ OnLists' = OnLists /\ Full' = Full
    BY <1>2, <1>11 DEF QueueTimer
  <2>6. qTimer = "start" => WillStart(rqFrames')
    BY <2>1, <2>2, <2>4 DEF WillStart
  <2>7. ~WillStart(rqFrames)
    <3>1. Len(rqFrames) = 0
      BY <1>11 DEF QueueTimer
    <3> QED
      BY <3>1 DEF WillStart
  <2>8. SomethingDue' = SomethingDue
    BY <1>11, <2>5 DEF QueueTimer, SomethingDue
  <2>9. RqDue'
    BY <1>11, <2>6, <2>7, <2>8 DEF QueueTimer, RqInv, RqDue
  <2> QED
    BY <2>4, <2>5, <2>9 DEF RqInv
<1>12. CASE StartEnds
  <2>1. RqLists' /\ OnLists' = OnLists /\ Full' = Full
    BY <1>2, <1>12 DEF StartEnds
  <2>2. rqFrames' \in Seq(RqFrames(OnLists))
    BY <1>5, <1>12 DEF StartEnds
  <2>3. ~SomethingDue' /\ (empty' => active = <<>> /\ inactive = <<>>) /\ empty' \in BOOLEAN
    BY <1>12, <2>1 DEF StartEnds, CanStart, SomethingDue, RqInv, RqDue
  <2>4. RqDue'
    BY <1>12, <2>3 DEF StartEnds, RqInv, RqDue
  <2> QED
    BY <2>1, <2>2, <2>4 DEF RqInv
<1>13. CASE StartNextLater
  <2>1. RqLists' /\ OnLists' = OnLists /\ Full' = Full
    BY <1>2, <1>13 DEF StartNextLater
  <2>2. rqFrames' \in Seq(RqFrames(OnLists))
    BY <1>5, <1>13 DEF StartNextLater
  <2>3. RqDue'
    BY <1>13, <2>1 DEF StartNextLater, Armed, SomethingDue, RqInv, RqDue
  <2> QED
    BY <2>1, <2>2, <2>3 DEF RqInv
<1>14. CASE WalkNext
  <2>1. rqFrames # <<>> /\ RqTop.op \notin {"starting", "start_next"}
    BY <1>14 DEF WalkNext
  <2>2. PICK f \in RqFrames(OnLists) : rqFrames' = <<f>> \o RqBelow
    <3>1. CASE RqTop.op = "cancel_pending_next"
      <4>1. Walk("cancel_pending", inactive, RqTop.next) \in RqFrames(OnLists)
        BY <1>1, <1>4, <1>5, <2>1, WalkOn
      <4> QED
        BY <1>14, <3>1, <4>1 DEF WalkNext
    <3>2. CASE RqTop.op # "cancel_pending_next"
      <4>1. Walk("cancel_active", active, RqTop.next) \in RqFrames(OnLists)
        BY <1>1, <1>4, <1>5, <2>1, WalkOn
      <4> QED
        BY <1>14, <3>2, <4>1 DEF WalkNext
    <3> QED
      BY <3>1, <3>2
  <2>3. <<f>> \o RqBelow \in Seq(RqFrames(OnLists)) /\ (WillStart(rqFrames) => WillStart(<<f>> \o RqBelow))
    BY <1>5, <2>1, FrameOn
  <2> QED
    BY <1>14, <2>2, <2>3, DueKept DEF WalkNext
<1>15. CASE ThenActive
  <2>1. rqFrames # <<>> /\ RqTop.op \notin {"starting", "start_next"}
    BY <1>15 DEF ThenActive
  <2>2. PICK f \in RqFrames(OnLists) : f = Walk("cancel_active", active, FirstOf(active))
    BY <1>1, <1>3, <1>4, WalkOn
  <2>3. <<f>> \o RqBelow \in Seq(RqFrames(OnLists)) /\ (WillStart(rqFrames) => WillStart(<<f>> \o RqBelow))
    BY <1>5, <2>1, FrameOn
  <2> QED
    BY <1>15, <2>2, <2>3, DueKept DEF ThenActive
<1>16. CASE KillAll /\ active = <<>>
  <2>1. rqFrames # <<>> /\ RqTop.op \notin {"starting", "start_next"}
    BY <1>16 DEF KillAll
  <2>2. PICK a, b \in RqFrames(OnLists) :
          a = Walk("cancel_pending", inactive, FirstOf(inactive)) /\ b = RqFrame("timer_off", TheEnd)
    BY <1>1, <1>3, <1>4, WalkOn, PlainFrame
  <2>3. rqFrames' = <<a, b>> \o RqBelow
    BY <1>16, <2>2 DEF KillAll
  <2>4. <<a, b>> \in Seq(RqFrames(OnLists))
    OBVIOUS
  <2>5. <<a, b>> \o RqBelow \in Seq(RqFrames(OnLists)) /\ (WillStart(rqFrames) => WillStart(<<a, b>> \o RqBelow))
    BY <1>5, <2>1, <2>4, StackGrows
  <2> QED
    BY <1>16, <2>3, <2>5, DueKept DEF KillAll
<1>17. CASE TimerOff
  <2>1. RqLists' /\ OnLists' = OnLists
    BY <1>2, <1>17 DEF TimerOff
  <2>2. rqFrames' \in Seq(RqFrames(OnLists))
    BY <1>5, <1>17 DEF TimerOff
  <2>3. RqDue'
    BY <1>17 DEF TimerOff, RqInv, RqDue
  <2> QED
    BY <2>1, <2>2, <2>3 DEF RqInv
<1> QED
  BY <1>6, <1>7, <1>8, <1>9, <1>10, <1>11, <1>12, <1>13, <1>14, <1>15, <1>16, <1>17

\* The steps that complete, cancel or kill a task.
LEMMA TaskStepsKeep ==
  ASSUME RqInv,
         \/ \E t \in Tasks : \/ runqueue_task_complete(t) \/ runqueue_task_cancel(t)
                             \/ runqueue_task_kill(t) \/ TaskTimeout(t)
         \/ WalkStep \/ (KillAll /\ active # <<>>)
  PROVE  RqInv'
<1>1. /\ rqFrames \in Seq(RqFrames(OnLists)) /\ task \in [Tasks -> TaskFlags]
      /\ active \in Seq(Tasks)
  BY DEF RqInv, RqLists
<1>2. \A t \in Tasks : task[t].timer \in BOOLEAN
  BY <1>1, FlagTypes
<1>3. ASSUME NEW t \in Tasks,
             runqueue_task_complete(t) \/ runqueue_task_cancel(t) \/ runqueue_task_kill(t)
      PROVE  RqInv'
  BY <1>1, <1>2, <1>3, CompletingKeeps
  DEF runqueue_task_complete, runqueue_task_cancel, runqueue_task_kill
<1>4. ASSUME NEW t \in Tasks, TaskTimeout(t) PROVE RqInv'
  <2>1. PICK s : s = <<>>
    OBVIOUS
  <2>2. s \in Seq(RqFrames(OnLists)) /\ rqFrames = s
    BY <1>4, <2>1 DEF TaskTimeout
  <2>3. KillTask(t, s) \/ CancelTask(t, s, FALSE)
    BY <1>4, <2>1 DEF TaskTimeout
  <2> QED
    BY <2>2, <2>3, CompletingKeeps
<1>5. ASSUME WalkStep PROVE RqInv'
  <2>1. /\ rqFrames # <<>> /\ RqTop.op \in {"cancel_pending", "cancel_active"} /\ RqTop.t # TheEnd
        /\ CancelTask(RqTop.t, <<[RqTop EXCEPT !.op = Walked(@)]>> \o RqBelow, task[RqTop.t].timer)
    BY <1>5 DEF WalkStep
  <2>2. /\ RqTop \in RqFrames(OnLists) /\ RqBelow \in Seq(RqFrames(OnLists))
        /\ WillStart(rqFrames) => WillStart(RqBelow)
    BY <1>1, <2>1, FrameOff DEF RqTop, RqBelow
  <2>3. PICK t \in Tasks : t = RqTop.t
    BY <2>1, <2>2 DEF RqFrames
  <2>4. PICK f \in RqFrames(OnLists) : f = [RqTop EXCEPT !.op = Walked(@)]
    <3>1. Walked(RqTop.op) \in RqOps
      BY DEF Walked, RqOps
    <3> QED
      BY <2>2, <3>1 DEF RqFrames
  <2>5. PICK s : s = <<f>> \o RqBelow
    OBVIOUS
  <2>6. s \in Seq(RqFrames(OnLists)) /\ (WillStart(rqFrames) => WillStart(s))
    BY <2>2, <2>5, FrameOn
  <2>7. CancelTask(t, s, task[t].timer)
    BY <2>1, <2>3, <2>4, <2>5
  <2> QED
    BY <1>2, <2>6, <2>7, CompletingKeeps
<1>6. ASSUME KillAll, active # <<>> PROVE RqInv'
  <2>1. PICK t \in Tasks : t = Head(active)
    BY <1>1, <1>6, TopTaken
  <2>2. KillTask(t, rqFrames)
    BY <1>6, <2>1 DEF KillAll
  <2> QED
    BY <1>1, <2>2, CompletingKeeps
<1> QED
  BY <1>3, <1>4, <1>5, <1>6

\* What QueueSound says follows from the invariant.
LEMMA QueueInvSound == RqInv => QueueSound
<1> SUFFICES ASSUME RqInv PROVE QueueSound
  OBVIOUS
<1>1. /\ active \in Seq(Tasks) /\ Once(active) /\ inactive \in Seq(Tasks) /\ Once(inactive)
      /\ rqFrames \in Seq(RqFrames(OnLists)) /\ RqLists
      /\ Len(active) \in Nat /\ Len(inactive) \in Nat
      /\ Range(active) = {active[i] : i \in 1 .. Len(active)}
      /\ Range(inactive) = {inactive[i] : i \in 1 .. Len(inactive)}
      /\ Range(active) \subseteq Tasks
  BY ListMembers DEF RqInv, RqLists
<1>2. PICK u : u = active \o inactive
  OBVIOUS
<1>3. /\ u \in Seq(Tasks) /\ Len(u) = Len(active) + Len(inactive)
      /\ \A i \in 1 .. Len(active) + Len(inactive) :
           u[i] = IF i <= Len(active) THEN active[i] ELSE inactive[i - Len(active)]
  BY <1>1, <1>2, ConcatProperties
<1>4. Range(active) \intersect Range(inactive) = {}
  BY <1>1 DEF RqLists
<1>5. IsInjective(active \o inactive)
  <2> SUFFICES ASSUME NEW i \in 1 .. Len(u), NEW j \in 1 .. Len(u), u[i] = u[j] PROVE i = j
    BY <1>2, <1>3, LenProperties DEF IsInjective
  <2>1. ASSUME NEW k \in 1 .. Len(u)
        PROVE  \/ k \in 1 .. Len(active) /\ u[k] = active[k] /\ u[k] \in Range(active)
               \/ \E m \in 1 .. Len(inactive) :
                    k = Len(active) + m /\ u[k] = inactive[m] /\ u[k] \in Range(inactive)
    <3>1. CASE k <= Len(active)
      <4>1. k \in 1 .. Len(active) /\ u[k] = active[k]
        BY <1>1, <1>3, <3>1
      <4> QED
        BY <1>1, <4>1
    <3>2. CASE ~(k <= Len(active))
      <4>1. PICK m \in 1 .. Len(inactive) : m = k - Len(active)
        BY <1>1, <1>3, <3>2
      <4>2. u[k] = inactive[m] /\ k = Len(active) + m
        BY <1>1, <1>3, <3>2, <4>1
      <4> QED
        BY <1>1, <4>2
    <3> QED
      BY <3>1, <3>2
  <2>2. CASE i \in 1 .. Len(active) /\ u[i] = active[i] /\ u[i] \in Range(active)
    <3>1. j \in 1 .. Len(active) /\ u[j] = active[j]
      BY <1>4, <2>1, <2>2
    <3> QED
      BY <1>1, <2>2, <3>1 DEF Once
  <2>3. CASE \E m \in 1 .. Len(inactive) :
                i = Len(active) + m /\ u[i] = inactive[m] /\ u[i] \in Range(inactive)
    <3>1. PICK m \in 1 .. Len(inactive) : i = Len(active) + m /\ u[i] = inactive[m]
      BY <2>3
    <3>2. PICK n \in 1 .. Len(inactive) : j = Len(active) + n /\ u[j] = inactive[n]
      BY <1>4, <2>1, <2>3
    <3>3. m = n
      BY <1>1, <3>1, <3>2 DEF Once
    <3> QED
      BY <3>1, <3>2, <3>3
  <2> QED
    BY <2>1, <2>2, <2>3
<1>6. ListsAgree
  <2>1. \A t \in Tasks : /\ (t \in Range(active)) = (task[t].queued /\ task[t].running)
                         /\ (t \in Range(inactive)) = (task[t].queued /\ ~task[t].running)
                         /\ task[t].timer => task[t].queued
    BY <1>1 DEF RqLists
  <2> QED
    BY <1>1, <1>5, <2>1 DEF ListsAgree, RqLists
<1>7. WalksStayOnList
  <2>1. Range(active \o inactive) = OnLists
    BY <1>1, RangeConcatenation DEF OnLists
  <2>2. \A i \in DOMAIN rqFrames : rqFrames[i] \in RqFrames(OnLists)
    BY <1>1, LenProperties
  <2>3. \A i \in DOMAIN rqFrames : rqFrames[i].next \in OnLists \union {TheEnd}
    BY <2>2 DEF RqFrames
  <2> QED
    BY <2>1, <2>3 DEF WalksStayOnList
<1>8. rqFrames = <<>> => ~WillStart(rqFrames)
  <2>1. rqFrames = <<>> => Len(rqFrames) = 0
    OBVIOUS
  <2> QED
    BY <2>1 DEF WillStart
<1>9. StartsWhenItCan
  BY <1>8 DEF StartsWhenItCan, CanStart, RqInv, RqDue, SomethingDue
<1>10. EmptyIsTold
  <2>1. qTimer = "off" => qTimer # "start"
    OBVIOUS
  <2> QED
    BY <1>8, <2>1 DEF EmptyIsTold, RqInv, RqDue, SomethingDue
<1> QED
  BY <1>6, <1>7, <1>9, <1>10 DEF QueueSound

\* For any tasks, any limit of running ones and any depth of callbacks: the lists, the
\* flags and the counts agree, no walk follows a deleted task, no task that could start
\* is left waiting, and the program is told when the queue is empty.
THEOREM QueueStaysSound == RqSpec => []QueueSound
<1>1. RqInit => RqInv
  <2> SUFFICES ASSUME RqInit PROVE RqInv
    OBVIOUS
  <2>1. active = <<>> /\ inactive = <<>> /\ rqFrames = <<>> /\ running_tasks = 0
    BY DEF RqInit
  <2>2. Len(active) = 0 /\ Len(inactive) = 0 /\ Range(active) = {} /\ Range(inactive) = {}
    BY <2>1 DEF Range
  <2>3. task \in [Tasks -> TaskFlags]
    BY DEF RqInit, TaskFlags
  <2>4. \A t \in Tasks : task[t].running = FALSE /\ task[t].queued = FALSE /\ task[t].timer = FALSE
    BY DEF RqInit
  <2>5. RqLists
    BY <2>1, <2>2, <2>3, <2>4 DEF RqLists, Once
  <2>6. ~(adds > 0)
    BY DEF RqInit
  <2>7. RqDue
    BY <2>1, <2>6 DEF RqInit, RqDue, SomethingDue
  <2>8. rqFrames \in Seq(RqFrames(OnLists))
    BY <2>1
  <2> QED
    BY <2>5, <2>7, <2>8 DEF RqInv
<1>2. RqInv /\ [RqNext]_rqVars => RqInv'
  <2> SUFFICES ASSUME RqInv, [RqNext]_rqVars PROVE RqInv'
    OBVIOUS
  <2>1. CASE UNCHANGED rqVars
    <3>1. WillStart(rqFrames) => WillStart(rqFrames)
      OBVIOUS
    <3> QED
      BY <2>1, <3>1, DueKept DEF rqVars, RqInv
  <2>2. ASSUME NEW t \in Tasks, NEW r \in BOOLEAN, NEW f \in BOOLEAN, runqueue_task_add(t, r, f)
        PROVE  RqInv'
    BY <2>2, AddKeepsQueue
  <2> QED
    BY <2>1, <2>2, StartKeeps, QueueStepsKeep, TaskStepsKeep DEF RqNext
<1> QED
  BY <1>1, <1>2, QueueInvSound, PTL DEF RqSpec

-----------------------------------------------------------------------------
(***************************************************************************)
(* Vlist, for any keys and nodes and any number of versions: a flush       *)
(* leaves what was added since the last vlist_update, and every node is in *)
(* the tree once or the program's.                                         *)
(***************************************************************************)

VlistTypeOK ==
  /\ vTree \in [VKeys -> VNodes \union {NoVNode}]
  /\ vVersion \in Int /\ vVersion >= -1
  /\ vNode \in [VNodes -> Int]
  /\ vFlags \in [keep_old : BOOLEAN, no_delete : BOOLEAN]
  /\ vFree \subseteq VNodes

\* A node is in the tree under one key or the program's.
OwnedOnce ==
  /\ \A k \in Present : vTree[k] \notin vFree
  /\ \A j, k \in Present : vTree[j] = vTree[k] => j = k
  /\ \A n \in VNodes \ vFree : \E k \in VKeys : vTree[k] = n

\* No node is newer than the tree; the versions of the nodes tell which were
\* added since the last vlist_update and which while the version was -1.
VersionsTell ==
  \A k \in Present :
    /\ vNode[vTree[k]] <= vVersion
    /\ k \in vAdded <=> vNode[vTree[k]] = vVersion
    /\ k \in vKept <=> vNode[vTree[k]] = -1

VlistInv == VlistTypeOK /\ OwnedOnce /\ VersionsTell

-----------------------------------------------------------------------------
\* The tree is empty at first.
LEMMA VlistInitInv == VlistInit => VlistInv
<1> SUFFICES ASSUME VlistInit PROVE VlistInv
  OBVIOUS
<1>1. Present = {}
  BY DEF VlistInit, Present
<1>2. VlistTypeOK
  BY DEF VlistInit, VlistTypeOK
<1>3. OwnedOnce /\ VersionsTell
  BY <1>1 DEF VlistInit, OwnedOnce, VersionsTell
<1> QED
  BY <1>2, <1>3 DEF VlistInv

\* Deleting any keys leaves the others and gives the program their nodes.
LEMMA DeletedOwned ==
  ASSUME VlistTypeOK, OwnedOnce, NEW keys \in SUBSET Present, Deleted(keys)
  PROVE  /\ vTree' \in [VKeys -> VNodes \union {NoVNode}] /\ vFree' \subseteq VNodes
         /\ Present' = Present \ keys
         /\ \A k \in Present' : vTree'[k] = vTree[k]
         /\ OwnedOnce'
<1>0. /\ vTree' = [k \in VKeys |-> IF k \in keys THEN NoVNode ELSE vTree[k]]
      /\ vFree' = vFree \union {vTree[k] : k \in keys}
  BY DEF Deleted
<1>1. keys \subseteq VKeys /\ \A k \in Present : k \in VKeys /\ vTree[k] \in VNodes
  BY DEF Present, VlistTypeOK
<1>2. vTree' \in [VKeys -> VNodes \union {NoVNode}]
  BY <1>0 DEF VlistTypeOK
<1>3. vFree' \subseteq VNodes
  BY <1>0, <1>1 DEF VlistTypeOK
<1>4. Present' = Present \ keys
  BY <1>0, <1>1 DEF Present
<1>5. \A k \in Present' : vTree'[k] = vTree[k]
  BY <1>0, <1>1, <1>4
<1>6. OwnedOnce'
  <2>1. \A k \in Present' : vTree'[k] \notin vFree'
    BY <1>0, <1>4, <1>5 DEF OwnedOnce
  <2>2. \A j, k \in Present' : vTree'[j] = vTree'[k] => j = k
    BY <1>4, <1>5 DEF OwnedOnce
  <2>3. ASSUME NEW n \in VNodes \ vFree' PROVE \E k \in VKeys : vTree'[k] = n
    <3>1. n \in VNodes \ vFree
      BY <1>0, <2>3
    <3>2. PICK k \in VKeys : vTree[k] = n
      BY <3>1 DEF OwnedOnce
    <3>3. k \notin keys
      BY <1>0, <2>3, <3>2
    <3> QED
      BY <1>0, <3>2, <3>3
  <2> QED
    BY <2>1, <2>2, <2>3 DEF OwnedOnce
<1> QED
  BY <1>2, <1>3, <1>4, <1>5, <1>6

\* Adding a node, in place of the key's old one or beside it.
LEMMA AddKeeps ==
  ASSUME VlistInv, NEW k \in VKeys, NEW n \in VNodes, vlist_add(n, k)
  PROVE  VlistInv'
<1>t. VlistTypeOK /\ OwnedOnce /\ VersionsTell
  BY DEF VlistInv
<1>0. /\ n \in vFree
      /\ vAdded' = vAdded \union {k}
      /\ vKept' = IF vVersion = -1 THEN vKept \union {k} ELSE vKept \ {k}
      /\ UNCHANGED <<vVersion, vFlags>>
  BY DEF vlist_add
<1>p. \A j \in Present : j \in VKeys /\ vTree[j] \in VNodes /\ vTree[j] # n
  BY <1>t, <1>0 DEF Present, VlistTypeOK, OwnedOnce
<1>1. CASE KeepsOld /\ k \in Present
  <2>0. /\ vNode' = [vNode EXCEPT ![n] = vVersion, ![vTree[k]] = vVersion]
        /\ vTree' = vTree /\ vFree' = vFree
    BY <1>1 DEF vlist_add
  <2>1. VlistTypeOK'
    BY <1>t, <1>0, <2>0 DEF VlistTypeOK
  <2>2. Present' = Present /\ OwnedOnce'
    BY <1>t, <2>0 DEF Present, OwnedOnce
  <2>3. VersionsTell'
    <3> SUFFICES ASSUME NEW j \in Present
                 PROVE  /\ vNode'[vTree[j]] <= vVersion
                        /\ j \in vAdded' <=> vNode'[vTree[j]] = vVersion
                        /\ j \in vKept' <=> vNode'[vTree[j]] = -1
      BY <1>0, <2>0, <2>2 DEF VersionsTell
    <3>1. CASE j = k
      <4>1. vNode'[vTree[k]] = vVersion
        BY <1>t, <1>p, <2>0, <3>1 DEF VlistTypeOK
      <4> QED
        BY <1>t, <1>0, <3>1, <4>1 DEF VlistTypeOK
    <3>2. CASE j # k
      <4>1. vTree[j] # vTree[k]
        BY <1>t, <1>1, <3>2 DEF OwnedOnce
      <4>2. vNode'[vTree[j]] = vNode[vTree[j]]
        BY <1>t, <1>p, <2>0, <4>1 DEF VlistTypeOK
      <4> QED
        BY <1>t, <1>0, <3>2, <4>2 DEF VersionsTell
    <3> QED
      BY <3>1, <3>2
  <2> QED
    BY <2>1, <2>2, <2>3 DEF VlistInv
<1>2. CASE ~(KeepsOld /\ k \in Present)
  <2>0. /\ vNode' = [vNode EXCEPT ![n] = vVersion]
        /\ vTree' = [vTree EXCEPT ![k] = n]
        /\ vFree' = (vFree \ {n}) \union ({vTree[k]} \ {NoVNode})
    BY <1>2 DEF vlist_add
  <2>1. VlistTypeOK'
    BY <1>t, <1>0, <2>0 DEF VlistTypeOK
  <2>k. vTree'[k] = n /\ \A j \in VKeys : j # k => vTree'[j] = vTree[j]
    BY <1>t, <2>0 DEF VlistTypeOK
  <2>p. /\ k \in Present' /\ Present' \subseteq VKeys
        /\ \A j \in VKeys : j # k => (j \in Present' <=> j \in Present)
    BY <2>k, VlistAssumption DEF Present
  <2>2. OwnedOnce'
    <3>1. ASSUME NEW j \in Present' PROVE vTree'[j] \notin vFree'
      <4>1. CASE j = k
        <5>1. n # vTree[k]
          BY <1>t, <1>0, <1>p, VlistAssumption DEF Present, VlistTypeOK
        <5> QED
          BY <2>0, <2>k, <4>1, <5>1
      <4>2. CASE j # k
        <5>1. j \in Present /\ vTree'[j] = vTree[j]
          BY <2>k, <2>p, <4>2
        <5>2. vTree[j] \notin vFree
          BY <1>t, <5>1 DEF OwnedOnce
        <5>3. vTree[k] # NoVNode => vTree[j] # vTree[k]
          BY <1>t, <4>2, <5>1 DEF OwnedOnce, Present
        <5> QED
          BY <2>0, <5>1, <5>2, <5>3
      <4> QED
        BY <4>1, <4>2
    <3>2. ASSUME NEW i \in Present', NEW j \in Present', vTree'[i] = vTree'[j] PROVE i = j
      <4>1. i \in VKeys /\ j \in VKeys
        BY <2>p
      <4>2. CASE i # k /\ j # k
        BY <1>t, <2>k, <2>p, <3>2, <4>1, <4>2 DEF OwnedOnce
      <4>3. CASE i = k /\ j # k
        BY <1>p, <2>k, <2>p, <3>2, <4>1, <4>3
      <4>4. CASE i # k /\ j = k
        BY <1>p, <2>k, <2>p, <3>2, <4>1, <4>4
      <4> QED
        BY <4>2, <4>3, <4>4
    <3>3. ASSUME NEW m \in VNodes \ vFree' PROVE \E j \in VKeys : vTree'[j] = m
      <4>1. CASE m = n
        BY <2>k, <4>1
      <4>2. CASE m # n
        <5>1. m \in VNodes \ vFree /\ m # vTree[k]
          BY <2>0, <3>3, <4>2, VlistAssumption
        <5>2. PICK j \in VKeys : vTree[j] = m
          BY <1>t, <5>1 DEF OwnedOnce
        <5> QED
          BY <2>k, <5>1, <5>2
      <4> QED
        BY <4>1, <4>2
    <3> QED
      BY <3>1, <3>2, <3>3 DEF OwnedOnce
  <2>3. VersionsTell'
    <3> SUFFICES ASSUME NEW j \in Present'
                 PROVE  /\ vNode'[vTree'[j]] <= vVersion
                        /\ j \in vAdded' <=> vNode'[vTree'[j]] = vVersion
                        /\ j \in vKept' <=> vNode'[vTree'[j]] = -1
      BY <1>0 DEF VersionsTell
    <3>1. CASE j = k
      <4>1. vNode'[vTree'[k]] = vVersion
        BY <1>t, <2>0, <2>k DEF VlistTypeOK
      <4> QED
        BY <1>t, <1>0, <3>1, <4>1 DEF VlistTypeOK
    <3>2. CASE j # k
      <4>1. j \in Present /\ vTree'[j] = vTree[j]
        BY <2>k, <2>p, <3>2
      <4>2. vNode'[vTree'[j]] = vNode[vTree[j]]
        BY <1>t, <1>p, <2>0, <4>1 DEF VlistTypeOK
      <4> QED
        BY <1>t, <1>0, <3>2, <4>1, <4>2 DEF VersionsTell
    <3> QED
      BY <3>1, <3>2
  <2> QED
    BY <2>1, <2>2, <2>3 DEF VlistInv
<1> QED
  BY <1>1, <1>2

\* Every operation keeps the invariant.
LEMMA VlistNextInv == VlistInv /\ [VlistNext]_vlistVars => VlistInv'
<1> SUFFICES ASSUME VlistInv, [VlistNext]_vlistVars PROVE VlistInv'
  OBVIOUS
<1>t. VlistTypeOK /\ OwnedOnce /\ VersionsTell
  BY DEF VlistInv
<1>1. CASE vlist_update
  <2>0. vVersion' = vVersion + 1 /\ vAdded' = {} /\ UNCHANGED <<vTree, vNode, vFlags, vFree, vKept>>
    BY <1>1 DEF vlist_update
  <2>1. VlistTypeOK'
    BY <1>t, <2>0 DEF VlistTypeOK
  <2>2. Present' = Present /\ OwnedOnce'
    BY <1>t, <2>0 DEF Present, OwnedOnce
  <2>3. \A k \in Present : vNode[vTree[k]] \in Int
    BY <1>t DEF Present, VlistTypeOK
  <2>4. VersionsTell'
    <3> SUFFICES ASSUME NEW k \in Present
                 PROVE  /\ vNode[vTree[k]] <= vVersion + 1 /\ vNode[vTree[k]] # vVersion + 1
                        /\ k \in vKept <=> vNode[vTree[k]] = -1
      BY <2>0, <2>2 DEF VersionsTell
    <3>1. vNode[vTree[k]] <= vVersion /\ (k \in vKept <=> vNode[vTree[k]] = -1)
      BY <1>t DEF VersionsTell
    <3>2. vNode[vTree[k]] \in Int /\ vVersion \in Int
      BY <1>t, <2>3 DEF VlistTypeOK
    <3> QED
      BY <3>1, <3>2
  <2> QED
    BY <2>1, <2>2, <2>4 DEF VlistInv
<1>2. ASSUME NEW keys \in SUBSET Present, Deleted(keys),
             UNCHANGED <<vVersion, vNode, vFlags, vAdded, vKept>>
      PROVE  VlistInv'
  <2>1. /\ vTree' \in [VKeys -> VNodes \union {NoVNode}] /\ vFree' \subseteq VNodes
        /\ Present' = Present \ keys
        /\ \A k \in Present' : vTree'[k] = vTree[k]
        /\ OwnedOnce'
    BY <1>t, <1>2, DeletedOwned
  <2>2. VlistTypeOK'
    BY <1>t, <1>2, <2>1 DEF VlistTypeOK
  <2>3. VersionsTell'
    BY <1>t, <1>2, <2>1 DEF VersionsTell
  <2> QED
    BY <2>1, <2>2, <2>3 DEF VlistInv
<1>3. CASE vlist_flush
  <2>1. Flushed(vVersion) \in SUBSET Present
    BY DEF Flushed
  <2> QED
    BY <1>2, <1>3, <2>1 DEF vlist_flush
<1>4. ASSUME NEW k \in VKeys, vlist_delete(k) PROVE VlistInv'
  <2>1. {k} \in SUBSET Present
    BY <1>4 DEF vlist_delete
  <2> QED
    BY <1>2, <1>4, <2>1 DEF vlist_delete
<1>5. CASE vlist_flush_all
  <2>1. Flushed(-1) = Present
    BY DEF Flushed
  <2>2. Deleted(Present)
    BY <1>5, <2>1 DEF vlist_flush_all
  <2>3. /\ vTree' \in [VKeys -> VNodes \union {NoVNode}] /\ vFree' \subseteq VNodes
        /\ Present' = {} /\ OwnedOnce'
    BY <1>t, <2>2, DeletedOwned
  <2>4. VlistTypeOK'
    <3>1. vVersion' = -1 /\ UNCHANGED <<vNode, vFlags>>
      BY <1>5 DEF vlist_flush_all
    <3> QED
      BY <1>t, <2>3, <3>1 DEF VlistTypeOK
  <2>5. VersionsTell'
    BY <2>3 DEF VersionsTell
  <2> QED
    BY <2>3, <2>4, <2>5 DEF VlistInv
<1>6. CASE UNCHANGED vlistVars
  BY <1>t, <1>6 DEF vlistVars, VlistInv, VlistTypeOK, OwnedOnce, VersionsTell, Present
<1> QED
  BY <1>1, <1>3, <1>4, <1>5, <1>6, AddKeeps DEF VlistNext

\* Nodes that are owned once are accounted for.
LEMMA OwnedAccounted == VlistInv => NodesAccounted
<1> SUFFICES ASSUME VlistInv, NEW n \in VNodes
             PROVE  Cardinality({k \in VKeys : vTree[k] = n}) = IF n \in vFree THEN 0 ELSE 1
  BY DEF NodesAccounted
<1>1. n # NoVNode
  BY VlistAssumption
<1>2. \A k \in VKeys : vTree[k] = n => k \in Present
  BY <1>1 DEF Present
<1>3. CASE n \in vFree
  <2>1. {k \in VKeys : vTree[k] = n} = {}
    BY <1>2, <1>3 DEF VlistInv, OwnedOnce
  <2> QED
    BY <1>3, <2>1, FS_EmptySet
<1>4. CASE n \notin vFree
  <2>1. PICK k \in VKeys : vTree[k] = n
    BY <1>4 DEF VlistInv, OwnedOnce
  <2>2. {j \in VKeys : vTree[j] = n} = {k}
    BY <1>2, <2>1 DEF VlistInv, OwnedOnce
  <2> QED
    BY <1>4, <2>2, FS_Singleton
<1> QED
  BY <1>3, <1>4

\* For any keys, nodes, flags and number of versions: every node stays accounted for,
\* and a flush leaves exactly what was added since the last vlist_update or while the
\* version was -1.
THEOREM FlushesLeaveAdded == VlistSpec => FlushLeavesAdded
<1> DEFINE Step == /\ NodesAccounted'
                   /\ vlist_flush /\ vVersion # -1 =>
                        {k \in VKeys : vTree'[k] # NoVNode}
                          = Present \intersect (vAdded \union vKept)
<1>1. VlistInv /\ [VlistNext]_vlistVars => VlistInv'
  BY VlistNextInv
<1>2. VlistInv /\ VlistInv' => Step
  <2> SUFFICES ASSUME VlistInv, VlistInv', vlist_flush, vVersion # -1
               PROVE  {k \in VKeys : vTree'[k] # NoVNode}
                        = Present \intersect (vAdded \union vKept)
    <3>1. VlistInv' => NodesAccounted'
      BY OwnedAccounted, PTL
    <3> QED
      BY <3>1
  <2>1. Flushed(vVersion) \in SUBSET Present /\ Deleted(Flushed(vVersion))
    BY DEF Flushed, vlist_flush
  <2>2. Present' = Present \ Flushed(vVersion)
    BY <2>1, DeletedOwned DEF VlistInv
  <2>3. \A k \in Present :
          k \in Flushed(vVersion) <=> ~(k \in vAdded \/ k \in vKept)
    BY DEF Flushed, VlistInv, VersionsTell
  <2> QED
    BY <2>2, <2>3 DEF Present
<1>3. VlistSpec => []VlistInv
  BY <1>1, VlistInitInv, PTL DEF VlistSpec
<1> QED
  BY <1>1, <1>2, <1>3, PTL DEF VlistSpec, FlushLeavesAdded

-----------------------------------------------------------------------------
(***************************************************************************)
(* Ustream, for any limits and lengths of the buffers: the bytes of each   *)
(* direction are kept in order across moves, cuts and frees of buffers, no *)
(* edge of the descriptor is lost, and the end of the input is told.       *)
(***************************************************************************)

\* Bytes n+1 .. n+len are a sequence of that length.
LEMMA BytesListed ==
  ASSUME NEW n \in Nat, NEW len \in Nat
  PROVE  /\ Bytes(n, len) \in Seq(Nat) /\ Len(Bytes(n, len)) = len
         /\ \A i \in 1 .. len : Bytes(n, len)[i] = n + i
         /\ Bytes(n, len) = <<>> <=> len = 0
<1>1. PICK q : q = [i \in 1 .. len |-> n + i]
  OBVIOUS
<1>2. q \in [1 .. len -> Nat]
  BY <1>1
<1>3. q \in Seq(Nat) /\ Len(q) = len
  BY <1>2, MappedList
<1>4. \A i \in 1 .. len : q[i] = n + i
  BY <1>1
<1>5. q = <<>> <=> len = 0
  BY <1>3, EmptySeq
<1>. QED
  BY <1>1, <1>3, <1>4, <1>5 DEF Bytes

\* Bytes that follow each other, joined.
LEMMA BytesJoined ==
  ASSUME NEW n \in Nat, NEW len \in Nat, NEW more \in Nat
  PROVE  Bytes(n, len) \o Bytes(n + len, more) = Bytes(n, len + more)
<1>1. PICK p \in Seq(Nat) : p = Bytes(n, len) /\ Len(p) = len /\ \A i \in 1 .. len : p[i] = n + i
  BY BytesListed
<1>2. PICK q \in Seq(Nat) : q = Bytes(n + len, more) /\ Len(q) = more /\ \A i \in 1 .. more : q[i] = n + len + i
  <2>1. n + len \in Nat
    OBVIOUS
  <2>. QED
    BY <2>1, BytesListed
<1>3. PICK r \in Seq(Nat) : /\ r = Bytes(n, len + more) /\ Len(r) = len + more
                            /\ \A i \in 1 .. len + more : r[i] = n + i
  <2>1. len + more \in Nat
    OBVIOUS
  <2>. QED
    BY <2>1, BytesListed
<1>4. PICK s : s = p \o q
  OBVIOUS
<1>5. /\ s \in Seq(Nat) /\ Len(s) = Len(p) + Len(q)
      /\ \A i \in 1 .. Len(p) + Len(q) : s[i] = IF i <= Len(p) THEN p[i] ELSE q[i - Len(p)]
  BY <1>4, ConcatProperties
<1>6. ASSUME NEW i \in 1 .. len + more PROVE s[i] = r[i]
  <2>1. s[i] = IF i <= len THEN p[i] ELSE q[i - len]
    BY <1>1, <1>2, <1>5
  <2>2. CASE i <= len
    BY <1>1, <1>3, <2>1, <2>2
  <2>3. CASE ~(i <= len)
    <3>1. PICK j \in 1 .. more : j = i - len /\ n + len + j = n + i
      BY <2>3
    <3>. QED
      BY <1>2, <1>3, <2>1, <2>3, <3>1
  <2>. QED
    BY <2>2, <2>3
<1>7. s = r
  <2>1. Len(s) = len + more /\ Len(r) = len + more
    BY <1>1, <1>2, <1>3, <1>5
  <2>. QED
    BY <1>5, <1>6, <2>1, SeqEqual
<1>. QED
  BY <1>1, <1>2, <1>3, <1>4, <1>7

\* The first of some bytes, and the rest.
LEMMA BytesCut ==
  ASSUME NEW n \in Nat, NEW len \in Nat, NEW m \in 0 .. len
  PROVE  /\ SubSeq(Bytes(n, len), 1, m) = Bytes(n, m)
         /\ SubSeq(Bytes(n, len), m + 1, len) = Bytes(n + m, len - m)
<1>1. PICK p \in Seq(Nat) : p = Bytes(n, len) /\ Len(p) = len /\ \A i \in 1 .. len : p[i] = n + i
  BY BytesListed
<1>2. PICK q \in Seq(Nat) : q = Bytes(n, m) /\ Len(q) = m /\ \A i \in 1 .. m : q[i] = n + i
  <2>1. m \in Nat
    OBVIOUS
  <2>. QED
    BY <2>1, BytesListed
<1>3. PICK r \in Seq(Nat) : r = Bytes(n + m, len - m) /\ Len(r) = len - m /\ \A i \in 1 .. len - m : r[i] = n + m + i
  <2>1. n + m \in Nat /\ len - m \in Nat
    OBVIOUS
  <2>. QED
    BY <2>1, BytesListed
<1>4. PICK s : s = SubSeq(p, 1, m)
  OBVIOUS
<1>5. s \in Seq(Nat) /\ Len(s) = m /\ \A i \in 1 .. m : s[i] = p[i]
  <2>1. 1 \in Int /\ m \in Int /\ \A i \in 1 .. m : p[i] \in Nat
    BY <1>1
  <2>2. /\ s \in Seq(Nat) /\ Len(s) = IF 1 <= m THEN m - 1 + 1 ELSE 0
        /\ \A i \in 1 .. m - 1 + 1 : s[i] = p[1 + i - 1]
    BY <1>4, <2>1, SubSeqProperties
  <2>3. m - 1 + 1 = m /\ \A i \in 1 .. m : 1 + i - 1 = i
    OBVIOUS
  <2>. QED
    BY <2>2, <2>3
<1>6. s = q
  <2>1. \A i \in 1 .. m : s[i] = q[i]
    BY <1>1, <1>2, <1>5
  <2>. QED
    BY <1>2, <1>5, <2>1, SeqEqual
<1>7. PICK t : t = SubSeq(p, m + 1, len)
  OBVIOUS
<1>8. t \in Seq(Nat) /\ Len(t) = len - m /\ \A i \in 1 .. len - m : t[i] = p[m + i]
  <2>1. m + 1 \in Int /\ len \in Int /\ \A i \in m + 1 .. len : p[i] \in Nat
    BY <1>1
  <2>2. /\ t \in Seq(Nat) /\ Len(t) = IF m + 1 <= len THEN len - (m + 1) + 1 ELSE 0
        /\ \A i \in 1 .. len - (m + 1) + 1 : t[i] = p[m + 1 + i - 1]
    BY <1>7, <2>1, SubSeqProperties, SMTT(20)
  <2>3. len - (m + 1) + 1 = len - m /\ \A i \in 1 .. len - m : m + 1 + i - 1 = m + i
    OBVIOUS
  <2>4. Len(t) = len - m
    BY <2>2
  <2>. QED
    BY <2>2, <2>3, <2>4
<1>9. t = r
  <2>1. ASSUME NEW i \in 1 .. len - m PROVE t[i] = r[i]
    <3>1. m + i \in 1 .. len /\ n + (m + i) = n + m + i
      OBVIOUS
    <3>. QED
      BY <1>1, <1>3, <1>8, <3>1
  <2>. QED
    BY <1>3, <1>8, <2>1, SeqEqual
<1>. QED
  BY <1>1, <1>2, <1>3, <1>4, <1>6, <1>7, <1>9

-----------------------------------------------------------------------------
(* Lists of buffers. *)

UsBuf == [off : Nat, data : Seq(Nat)]
UsList == [bufs : Seq(UsBuf), dataTail : Nat, bytes : Nat]

\* Which buffers hold data: none past data_tail, all before it; one that does not is
\* as it was made.
UsShape(l) ==
  /\ l \in UsList /\ l.dataTail <= Len(l.bufs)
  /\ l.dataTail = 0 <=> Len(l.bufs) = 0
  /\ \A i \in 1 .. Len(l.bufs) :
       /\ i > l.dataTail => l.bufs[i] = EmptyBuf
       /\ i < l.dataTail => l.bufs[i].data # <<>>
       /\ l.bufs[i].data = <<>> => l.bufs[i].off = 0

\* at[i] bytes are before buffer i, of n bytes from number a + 1 on.
UsPlaced(l, a, n, at) ==
  /\ at \in [1 .. Len(l.bufs) + 1 -> Nat] /\ at[1] = a /\ at[Len(l.bufs) + 1] = a + n
  /\ \A i \in 1 .. Len(l.bufs) :
       at[i] <= at[i + 1] /\ l.bufs[i].data = Bytes(at[i], at[i + 1] - at[i])

\* The list holds bytes a + 1 .. a + n, in order.
UsHolds(l, a, n) ==
  /\ UsShape(l) /\ a \in Nat /\ n \in Nat /\ l.bytes = n
  /\ \E at : UsPlaced(l, a, n, at)

\* What the buffers hold one after the other is those bytes.
LEMMA ContentHeld ==
  ASSUME NEW l, NEW a, NEW n, UsHolds(l, a, n)
  PROVE  Content(l) = Bytes(a, n)
<1>1. PICK at : UsPlaced(l, a, n, at)
  BY DEF UsHolds
<1>2. PICK N \in Nat : N = Len(l.bufs) /\ DOMAIN l.bufs = 1 .. N
  <2>1. l.bufs \in Seq(UsBuf)
    BY DEF UsHolds, UsShape, UsList
  <2>. QED
    BY <2>1, LenProperties
<1>3. a \in Nat /\ n \in Nat /\ at \in [1 .. N + 1 -> Nat] /\ at[1] = a /\ at[N + 1] = a + n
  BY <1>1, <1>2 DEF UsPlaced, UsHolds
<1>4. \A i \in 1 .. N : at[i] <= at[i + 1] /\ l.bufs[i].data = Bytes(at[i], at[i + 1] - at[i])
  BY <1>1, <1>2 DEF UsPlaced
<1>5. PICK s : s = [i \in 1 .. N |-> l.bufs[i].data]
  OBVIOUS
<1>6. s \in [1 .. N -> Seq(Nat)]
  <2>1. ASSUME NEW i \in 1 .. N PROVE l.bufs[i].data \in Seq(Nat)
    <3>1. at[i] \in Nat /\ at[i + 1] - at[i] \in Nat
      <4>1. i \in 1 .. N + 1 /\ i + 1 \in 1 .. N + 1
        OBVIOUS
      <4>2. PICK u \in Nat, v \in Nat : u = at[i] /\ v = at[i + 1] /\ u <= v
        BY <1>3, <1>4, <4>1
      <4>. QED
        BY <4>2
    <3>. QED
      BY <1>4, <3>1, BytesListed
  <2>. QED
    BY <1>5, <2>1
<1>7. s \in Seq(Seq(Nat)) /\ Len(s) = N
  BY <1>6, MappedList
<1>8. Content(l) = FlattenSeq(s)
  BY <1>2, <1>5 DEF Content
<1>9. CASE N = 0
  <2>1. s = <<>>
    BY <1>7, <1>9, EmptySeq
  <2>2. n = 0
    BY <1>3, <1>9
  <2>3. FlattenSeq(s) = s
    BY <1>7, <1>9, Zenon DEF FlattenSeq
  <2>. QED
    BY <1>3, <1>8, <2>1, <2>2, <2>3, BytesListed
<1>10. CASE N # 0
  <2>1. PICK g : g = [i \in 1 .. N |-> Bytes(a, at[i + 1] - a)]
    OBVIOUS
  <2>2. \A i \in 0 .. N : a <= at[i + 1] /\ at[i + 1] \in Nat
    <3>1. PICK P : P = {i \in 0 .. N : a <= at[i + 1]}
      OBVIOUS
    <3>2. \A i \in 0 .. N : at[i + 1] \in Nat
      BY <1>3
    <3>3. 0 \in P
      BY <1>3, <3>1
    <3>4. ASSUME NEW i \in 1 .. N, i - 1 \in P PROVE i \in P
      <4>1. a <= at[i - 1 + 1] /\ i - 1 + 1 = i /\ i \in 0 .. N /\ i - 1 \in 0 .. N
        BY <3>1, <3>4
      <4>2. PICK u \in Nat, v \in Nat : u = at[i] /\ v = at[i + 1] /\ u <= v
        BY <1>4, <3>2, <4>1
      <4>. QED
        BY <1>3, <3>1, <4>1, <4>2
    <3>5. \A i \in 0 .. N : i \in P
      BY <3>3, <3>4, StepByStep
    <3>. QED
      BY <3>1, <3>2, <3>5
  <2>3. g[1] = s[1]
    <3>1. 1 \in 1 .. N /\ 1 + 1 \in 1 .. N + 1
      BY <1>10
    <3>. QED
      BY <1>3, <1>4, <1>5, <2>1, <3>1
  <2>4. ASSUME NEW i \in 1 .. N, i # 1 PROVE g[i] = g[i - 1] \o s[i]
    <3>1. i - 1 \in 1 .. N /\ i - 1 + 1 = i /\ i \in 0 .. N /\ i - 1 \in 0 .. N
      BY <2>4
    <3>2. PICK u \in Nat, v \in Nat : u = at[i] /\ v = at[i + 1] /\ u <= v /\ a <= u
      BY <1>4, <2>2, <3>1
    <3>3. g[i - 1] = Bytes(a, u - a) /\ g[i] = Bytes(a, v - a) /\ s[i] = Bytes(u, v - u)
      <4>1. PICK j \in 1 .. N : j = i - 1 /\ j + 1 = i
        BY <3>1
      <4>2. g[j] = Bytes(a, at[j + 1] - a) /\ g[i] = Bytes(a, at[i + 1] - a) /\ s[i] = l.bufs[i].data
        BY <1>5, <2>1
      <4>. QED
        BY <1>4, <3>2, <4>1, <4>2
    <3>4. PICK x \in Nat, y \in Nat : x = u - a /\ y = v - u /\ a + x = u /\ x + y = v - a
      <4>1. u - a \in Nat /\ v - u \in Nat /\ a + (u - a) = u /\ (u - a) + (v - u) = v - a
        BY <1>3, <3>2, SMTT(20)
      <4>. QED
        BY <4>1
    <3>5. Bytes(a, x) \o Bytes(a + x, y) = Bytes(a, x + y)
      <4>1. a \in Nat
        BY <1>3
      <4>. QED
        BY <4>1, BytesJoined
    <3>6. g[i - 1] = Bytes(a, x) /\ s[i] = Bytes(a + x, y) /\ g[i] = Bytes(a, x + y)
      BY <3>3, <3>4
    <3>. QED
      BY <3>5, <3>6, Zenon
  <2>5. g = [i \in 1 .. Len(s) |-> IF i = 1 THEN s[i] ELSE g[i - 1] \o s[i]]
    <3>1. \A i \in 1 .. N : g[i] = IF i = 1 THEN s[i] ELSE g[i - 1] \o s[i]
      BY <2>3, <2>4
    <3>2. g = [i \in 1 .. N |-> g[i]]
      BY <2>1
    <3>. QED
      BY <1>7, <3>1, <3>2, Zenon
  <2>. DEFINE F == CHOOSE f : f = [i \in 1 .. Len(s) |-> IF i = 1 THEN s[i] ELSE f[i - 1] \o s[i]]
  <2>6. F = [i \in 1 .. Len(s) |-> IF i = 1 THEN s[i] ELSE F[i - 1] \o s[i]]
    BY <2>5, Zenon
  <2>7. FlattenSeq(s) = F[Len(s)]
    BY <1>7, <1>10, Zenon DEF FlattenSeq
  <2>. HIDE DEF F
  <2>8. PICK P : P = {i \in 0 .. N : i = 0 \/ F[i] = g[i]}
    OBVIOUS
  <2>9. 0 \in P
    BY <2>8
  <2>10. ASSUME NEW i \in 1 .. N, i - 1 \in P PROVE i \in P
    <3>1. F[i] = IF i = 1 THEN s[i] ELSE F[i - 1] \o s[i]
      BY <1>7, <2>6, Zenon
    <3>2. CASE i = 1
      BY <2>3, <2>8, <3>1, <3>2
    <3>3. CASE i # 1
      <4>1. F[i - 1] = g[i - 1]
        BY <2>8, <2>10, <3>3
      <4>2. F[i] = F[i - 1] \o s[i]
        BY <3>1, <3>3, Zenon
      <4>3. F[i] = g[i]
        BY <2>4, <3>3, <4>1, <4>2, Zenon
      <4>. QED
        BY <2>8, <4>3
    <3>. QED
      BY <3>2, <3>3
  <2>11. N \in P
    BY <2>9, <2>10, StepByStep
  <2>12. F[N] = g[N] /\ g[N] = Bytes(a, n)
    <3>1. N \in 1 .. N /\ a + n - a = n
      BY <1>3, <1>10
    <3>. QED
      BY <1>3, <1>10, <2>1, <2>8, <2>11, <3>1
  <2>. QED
    BY <1>7, <1>8, <2>7, <2>12
<1>. QED
  BY <1>9, <1>10

\* A list as a record of its fields.
LEMMA UsFields ==
  ASSUME NEW l \in UsList
  PROVE  /\ l.bufs \in Seq(UsBuf) /\ l.dataTail \in Nat /\ l.bytes \in Nat
         /\ Len(l.bufs) \in Nat /\ DOMAIN l.bufs = 1 .. Len(l.bufs)
         /\ \A i \in 1 .. Len(l.bufs) : l.bufs[i] \in UsBuf /\ l.bufs[i].off \in Nat /\ l.bufs[i].data \in Seq(Nat)
<1>1. l.bufs \in Seq(UsBuf) /\ l.dataTail \in Nat /\ l.bytes \in Nat
  BY DEF UsList
<1>2. Len(l.bufs) \in Nat /\ DOMAIN l.bufs = 1 .. Len(l.bufs)
  BY <1>1, LenProperties
<1>3. \A i \in 1 .. Len(l.bufs) : l.bufs[i] \in UsBuf
  BY <1>1, <1>2, ElementOfSeq
<1>4. \A b \in UsBuf : b.off \in Nat /\ b.data \in Seq(Nat)
  BY DEF UsBuf
<1>. QED
  BY <1>1, <1>2, <1>3, <1>4

\* An empty buffer is a buffer without data.
LEMMA UsEmpty == EmptyBuf \in UsBuf /\ EmptyBuf.off = 0 /\ EmptyBuf.data = <<>> /\ Len(EmptyBuf.data) = 0
<1>1. EmptyBuf = [off |-> 0, data |-> <<>>]
  BY DEF EmptyBuf
<1>2. <<>> \in Seq(Nat) /\ Len(<<>>) = 0
  OBVIOUS
<1>. QED
  BY <1>1, <1>2 DEF UsBuf

\* Moving data to the front of its buffer changes nothing of what the list holds.
LEMMA MovedHeld ==
  ASSUME NEW l, NEW a, NEW n, UsHolds(l, a, n), NEW k, NEW len, NEW m, m = Moved(l, k, len)
  PROVE  UsHolds(m, a, n) /\ m.dataTail = l.dataTail /\ Len(m.bufs) = Len(l.bufs)
<1>1. l \in UsList /\ UsShape(l)
  BY DEF UsHolds, UsShape
<1>2. CASE m = l
  BY <1>2
<1>3. CASE l.dataTail # 0 /\ m = [l EXCEPT !.bufs[l.dataTail].off = 0]
  <2>1. PICK d \in 1 .. Len(l.bufs) : d = l.dataTail
    BY <1>1, <1>3, UsFields DEF UsShape
  <2>2. PICK q \in Seq(UsBuf) : q = l.bufs
    BY <1>1, UsFields
  <2>3. PICK b \in UsBuf : b = q[d]
    BY <1>1, <2>1, <2>2, UsFields
  <2>4. PICK c : c = [b EXCEPT !.off = 0]
    OBVIOUS
  <2>5. c \in UsBuf /\ c.data = b.data /\ c.off = 0
    BY <2>4 DEF UsBuf
  <2>6. PICK r : r = [q EXCEPT ![d] = c]
    OBVIOUS
  <2>7. /\ r \in Seq(UsBuf) /\ Len(r) = Len(q)
        /\ \A i \in 1 .. Len(q) : r[i] = IF i = d THEN c ELSE q[i]
    BY <2>1, <2>2, <2>5, <2>6, ExceptSeq
  <2>8. m = [l EXCEPT !.bufs = r]
    BY <1>3, <2>1, <2>2, <2>3, <2>4, <2>6
  <2>9. m \in UsList /\ m.bufs = r /\ m.dataTail = d /\ m.bytes = l.bytes
    BY <1>1, <2>1, <2>7, <2>8 DEF UsList
  <2>10. ASSUME NEW i \in 1 .. Len(r)
         PROVE  r[i].data = q[i].data /\ (r[i] = q[i] \/ (i = d /\ r[i].off = 0))
    <3>1. r[i] = IF i = d THEN c ELSE q[i]
      BY <2>7
    <3>2. CASE i = d
      BY <2>3, <2>5, <3>1, <3>2
    <3>3. CASE i # d
      BY <3>1, <3>3
    <3>. QED
      BY <3>2, <3>3
  <2>11. UsShape(m)
    <3>1. \A i \in 1 .. Len(q) : /\ i > d => q[i] = EmptyBuf
                                 /\ i < d => q[i].data # <<>>
                                 /\ q[i].data = <<>> => q[i].off = 0
      BY <1>1, <2>1, <2>2 DEF UsShape
    <3>2. ASSUME NEW i \in 1 .. Len(r)
          PROVE  /\ i > d => r[i] = EmptyBuf
                 /\ i < d => r[i].data # <<>>
                 /\ r[i].data = <<>> => r[i].off = 0
      <4>1. i \in 1 .. Len(q)
        BY <2>7
      <4>2. CASE r[i] = q[i]
        BY <3>1, <4>1, <4>2, Zenon
      <4>3. CASE i = d /\ r[i].off = 0
        <5>1. d \in Nat
          BY <1>1, <2>1, UsFields
        <5>. QED
          BY <4>3, <5>1
      <4>. QED
        BY <2>10, <4>2, <4>3
    <3>3. d <= Len(r) /\ (d = 0 <=> Len(r) = 0)
      BY <2>1, <2>2, <2>7
    <3>. QED
      BY <2>9, <3>2, <3>3 DEF UsShape
  <2>12. \A at : UsPlaced(l, a, n, at) => UsPlaced(m, a, n, at)
    BY <2>2, <2>7, <2>9, <2>10 DEF UsPlaced
  <2>. QED
    BY <2>1, <2>2, <2>7, <2>9, <2>11, <2>12 DEF UsHolds
<1>. QED
  BY <1>2, <1>3 DEF Moved

\* A list that holds something has buffers, and one without holds nothing.
LEMMA HeldSomewhere ==
  ASSUME NEW l, NEW a, NEW n, UsHolds(l, a, n), l.dataTail = 0 \/ l.bufs = <<>>
  PROVE  n = 0
<1>1. PICK at : UsPlaced(l, a, n, at)
  BY DEF UsHolds
<1>2. Len(l.bufs) = 0
  <2>1. Len(<<>>) = 0
    OBVIOUS
  <2>. QED
    BY <2>1 DEF UsHolds, UsShape
<1>. QED
  BY <1>1, <1>2 DEF UsPlaced, UsHolds

UsLimits == [min : Int, max : Int, len : Nat \ {0}]

\* The end of what a list holds: the buffers past data_tail have nothing.
LEMMA HeldUpToTail ==
  ASSUME NEW l, NEW a, NEW n, NEW at, UsHolds(l, a, n), UsPlaced(l, a, n, at)
  PROVE  \A i \in 1 .. Len(l.bufs) + 1 : i > l.dataTail => at[i] = a + n
<1>1. PICK N \in Nat : N = Len(l.bufs) /\ l.dataTail \in 0 .. N
  BY UsFields DEF UsHolds, UsShape
<1>2. at \in [1 .. N + 1 -> Nat] /\ at[N + 1] = a + n /\ a \in Nat /\ n \in Nat
  BY <1>1 DEF UsPlaced, UsHolds
<1>3. PICK P : P = {j \in 0 .. N : N + 1 - j > l.dataTail => at[N + 1 - j] = a + n}
  OBVIOUS
<1>4. 0 \in P
  BY <1>2, <1>3
<1>5. ASSUME NEW j \in 1 .. N, j - 1 \in P PROVE j \in P
  <2>. SUFFICES ASSUME N + 1 - j > l.dataTail PROVE at[N + 1 - j] = a + n
    BY <1>3
  <2>1. PICK i \in 1 .. N : i = N + 1 - j /\ i + 1 = N + 1 - (j - 1) /\ i > l.dataTail
    BY <1>1
  <2>2. i + 1 > l.dataTail
    BY <1>1, <2>1
  <2>3. at[i + 1] = a + n
    BY <1>3, <1>5, <2>1, <2>2
  <2>4. at[i] <= at[i + 1] /\ l.bufs[i].data = Bytes(at[i], at[i + 1] - at[i]) /\ l.bufs[i] = EmptyBuf
    BY <1>1, <2>1 DEF UsPlaced, UsHolds, UsShape
  <2>5. PICK u \in Nat, v \in Nat : u = at[i] /\ v = at[i + 1]
    BY <1>2, <2>1
  <2>6. v - u \in Nat /\ Bytes(u, v - u) = <<>>
    BY <2>4, <2>5, UsEmpty
  <2>7. v - u = 0
    BY <2>6, BytesListed
  <2>. QED
    BY <2>1, <2>3, <2>5, <2>7
<1>6. \A j \in 0 .. N : j \in P
  BY <1>4, <1>5, StepByStep
<1>. QED
  <2>. SUFFICES ASSUME NEW i \in 1 .. N + 1, i > l.dataTail PROVE at[i] = a + n
    BY <1>1
  <2>1. N + 1 - i \in 0 .. N /\ N + 1 - (N + 1 - i) = i
    OBVIOUS
  <2>. QED
    BY <1>3, <1>6, <2>1

\* ustream_prepare_buf changes nothing of what the list holds, and leaves room in
\* data_tail unless it fails.
LEMMA PreparedHeld ==
  ASSUME NEW l0, NEW a, NEW n, UsHolds(l0, a, n), NEW k \in UsLimits, NEW len,
         NEW p, p = ustream_prepare_buf(l0, k, len)
  PROVE  /\ UsHolds(p.l, a, n)
         /\ p.ok => /\ p.l.dataTail \in 1 .. Len(p.l.bufs)
                    /\ RoomIn(p.l.bufs[p.l.dataTail], k) \in Nat \ {0}
<1>1. PICK l : l = Moved(l0, k, len)
  OBVIOUS
<1>2. UsHolds(l, a, n)
  BY <1>1, MovedHeld
<1>3. l \in UsList /\ UsShape(l)
  BY <1>2 DEF UsHolds, UsShape
<1>4. PICK q \in Seq(UsBuf) : q = l.bufs
  BY <1>3, UsFields
<1>5. PICK d \in Nat : d = l.dataTail
  BY <1>3, UsFields
<1>6. PICK N \in Nat : N = Len(q) /\ d \in 0 .. N /\ (d = 0 <=> N = 0)
  BY <1>3, <1>4, <1>5, UsFields DEF UsShape
<1>7. k.len \in Nat \ {0}
  BY DEF UsLimits
<1>8. \A i \in 1 .. N : RoomIn(q[i], k) \in Int /\ (q[i].data = <<>> => RoomIn(q[i], k) = k.len)
  <2>. TAKE i \in 1 .. N
  <2>1. q[i].off \in Nat /\ q[i].data \in Seq(Nat)
    BY <1>3, <1>4, <1>6, UsFields
  <2>2. Len(q[i].data) \in Nat /\ (q[i].data = <<>> => q[i].off = 0 /\ Len(q[i].data) = 0)
    <3>1. q[i].data = <<>> => q[i].off = 0
      BY <1>3, <1>4, <1>6 DEF UsShape
    <3>2. Len(<<>>) = 0
      OBVIOUS
    <3>. QED
      BY <2>1, <3>1, <3>2, LenProperties
  <2>3. PICK x \in Nat, y \in Nat, z \in Nat : x = k.len /\ y = q[i].off /\ z = Len(q[i].data)
    BY <1>7, <2>1, <2>2
  <2>4. RoomIn(q[i], k) = x - y - z
    BY <2>3, Zenon DEF RoomIn
  <2>5. x - y - z \in Int /\ (y = 0 /\ z = 0 => x - y - z = x)
    OBVIOUS
  <2>. QED
    BY <2>2, <2>3, <2>4, <2>5
<1>9. PICK more : more = [l EXCEPT !.bufs = Append(@, EmptyBuf), !.dataTail = Len(l.bufs) + 1]
  OBVIOUS
<1>10. PICK room \in BOOLEAN, next \in BOOLEAN :
         /\ room <=> d # 0 /\ RoomIn(q[d], k) > 0
         /\ next <=> d # 0 /\ RoomIn(q[d], k) <= 0 /\ d < N
  OBVIOUS
<1>11. p = CASE room -> [ok |-> TRUE, l |-> l]
             [] next -> [ok |-> TRUE, l |-> [l EXCEPT !.dataTail = @ + 1]]
             [] OTHER -> [ok |-> ustream_can_alloc(l, k), l |-> IF ustream_can_alloc(l, k) THEN more ELSE l]
  BY <1>1, <1>4, <1>5, <1>6, <1>9, <1>10 DEF ustream_prepare_buf
<1>12. d \in 1 .. N => RoomIn(q[d], k) \in Int
  BY <1>8
<1>13. CASE room
  <2>1. ~next
    BY <1>6, <1>10, <1>12, <1>13
  <2>2. p = [ok |-> TRUE, l |-> l]
    BY <1>11, <1>13, <2>1, Zenon
  <2>3. d \in 1 .. N
    BY <1>6, <1>10, <1>13
  <2>4. RoomIn(q[d], k) \in Nat \ {0}
    BY <1>10, <1>12, <1>13, <2>3
  <2>. QED
    BY <1>2, <1>4, <1>5, <1>6, <2>2, <2>3, <2>4
<1>14. CASE next
  <2>1. ~room
    BY <1>6, <1>10, <1>12, <1>14
  <2>2. p = [ok |-> TRUE, l |-> [l EXCEPT !.dataTail = @ + 1]]
    BY <1>11, <1>14, <2>1, Zenon
  <2>3. PICK m : m = [l EXCEPT !.dataTail = @ + 1]
    OBVIOUS
  <2>4. m \in UsList /\ m.bufs = q /\ m.dataTail = d + 1 /\ m.bytes = l.bytes
    BY <1>3, <1>4, <1>5, <2>3 DEF UsList
  <2>5. d \in 1 .. N /\ d + 1 \in 1 .. N
    BY <1>6, <1>10, <1>14
  <2>6. q[d].data # <<>>
    BY <1>7, <1>8, <1>10, <1>14, <2>5
  <2>7. \A i \in 1 .. N : /\ i > d => q[i] = EmptyBuf
                          /\ i < d => q[i].data # <<>>
                          /\ q[i].data = <<>> => q[i].off = 0
    BY <1>3, <1>4, <1>5, <1>6 DEF UsShape
  <2>8. \A i \in 1 .. N : /\ i > d + 1 => q[i] = EmptyBuf
                          /\ i < d + 1 => q[i].data # <<>>
    BY <2>5, <2>6, <2>7
  <2>9. UsShape(m)
    BY <1>6, <2>4, <2>5, <2>7, <2>8 DEF UsShape
  <2>10. \A at : UsPlaced(l, a, n, at) => UsPlaced(m, a, n, at)
    BY <1>4, <2>4 DEF UsPlaced
  <2>11. UsHolds(m, a, n)
    BY <1>2, <2>4, <2>9, <2>10 DEF UsHolds
  <2>12. RoomIn(q[d + 1], k) \in Nat \ {0}
    <3>1. q[d + 1] = EmptyBuf
      BY <2>5, <2>7
    <3>2. q[d + 1].data = <<>>
      BY <3>1, UsEmpty
    <3>. QED
      BY <1>7, <1>8, <2>5, <3>2
  <2>13. p.l = m
    BY <2>2, <2>3
  <2>. QED
    BY <1>6, <2>4, <2>5, <2>11, <2>12, <2>13
<1>15. CASE ~room /\ ~next
  <2>1. p = [ok |-> ustream_can_alloc(l, k), l |-> IF ustream_can_alloc(l, k) THEN more ELSE l]
    BY <1>11, <1>15, Zenon
  <2>2. CASE ~ustream_can_alloc(l, k)
    BY <1>2, <2>1, <2>2
  <2>3. CASE ustream_can_alloc(l, k)
    <3>1. p.l = more
      BY <2>1, <2>3
    <3>2. d = N /\ (d # 0 => RoomIn(q[d], k) <= 0)
      BY <1>6, <1>10, <1>12, <1>15
    <3>3. PICK r : r = Append(q, EmptyBuf)
      OBVIOUS
    <3>4. /\ r \in Seq(UsBuf) /\ Len(r) = N + 1
          /\ r[N + 1] = EmptyBuf /\ \A i \in 1 .. N : r[i] = q[i]
      BY <1>6, <3>3, UsEmpty, AppendProperties
    <3>5. more \in UsList /\ more.bufs = r /\ more.dataTail = N + 1 /\ more.bytes = l.bytes
      <4>1. more = [l EXCEPT !.bufs = r, !.dataTail = N + 1]
        BY <1>4, <1>6, <1>9, <3>3
      <4>2. PICK e \in Nat : e = N + 1
        OBVIOUS
      <4>3. r \in Seq(UsBuf)
        BY <3>4
      <4>4. more = [l EXCEPT !.bufs = r, !.dataTail = e]
        BY <4>1, <4>2
      <4>5. more \in UsList /\ more.bufs = r /\ more.dataTail = e /\ more.bytes = l.bytes
        BY <1>3, <4>3, <4>4 DEF UsList
      <4>. QED
        BY <4>2, <4>5
    <3>6. \A i \in 1 .. N : q[i].data # <<>>
      <4>. TAKE i \in 1 .. N
      <4>1. CASE i < d
        BY <1>3, <1>4, <1>5, <1>6, <4>1 DEF UsShape
      <4>2. CASE i = d
        <5>1. d # 0 /\ RoomIn(q[i], k) <= 0
          BY <3>2, <4>2
        <5>2. ~(k.len <= 0)
          BY <1>7
        <5>. QED
          BY <1>8, <5>1, <5>2
      <4>. QED
        BY <3>2, <4>1, <4>2
    <3>7. UsShape(more)
      <4>1. ASSUME NEW i \in 1 .. N + 1
            PROVE  /\ i > N + 1 => r[i] = EmptyBuf
                   /\ i < N + 1 => r[i].data # <<>>
                   /\ r[i].data = <<>> => r[i].off = 0
        <5>1. CASE i \in 1 .. N
          BY <3>4, <3>6, <5>1
        <5>2. CASE i = N + 1
          BY <3>4, <5>2, UsEmpty
        <5>. QED
          BY <5>1, <5>2
      <4>. QED
        BY <3>4, <3>5, <4>1 DEF UsShape
    <3>8. UsHolds(more, a, n)
      <4>1. PICK at : UsPlaced(l, a, n, at)
        BY <1>2 DEF UsHolds
      <4>2. /\ a \in Nat /\ n \in Nat
            /\ at \in [1 .. N + 1 -> Nat] /\ at[1] = a /\ at[N + 1] = a + n
            /\ \A i \in 1 .. N : at[i] <= at[i + 1] /\ q[i].data = Bytes(at[i], at[i + 1] - at[i])
        BY <1>2, <1>4, <1>6, <4>1 DEF UsPlaced, UsHolds
      <4>3. PICK bt : bt = [i \in 1 .. N + 2 |-> IF i = N + 2 THEN a + n ELSE at[i]]
        OBVIOUS
      <4>4. bt \in [1 .. N + 2 -> Nat] /\ bt[N + 2] = a + n /\ \A i \in 1 .. N + 1 : bt[i] = at[i]
        BY <4>2, <4>3
      <4>5. ASSUME NEW i \in 1 .. N + 1
            PROVE  bt[i] <= bt[i + 1] /\ r[i].data = Bytes(bt[i], bt[i + 1] - bt[i])
        <5>1. CASE i \in 1 .. N
          <6>1. i + 1 \in 1 .. N + 1
            BY <5>1
          <6>. QED
            BY <3>4, <4>2, <4>4, <5>1, <6>1
        <5>2. CASE i = N + 1
          <6>1. i + 1 = N + 2 /\ bt[i] = a + n /\ bt[i + 1] = a + n /\ a + n \in Nat /\ (a + n) - (a + n) = 0
            BY <4>2, <4>4, <5>2
          <6>2. Bytes(a + n, 0) = <<>>
            BY <6>1, BytesListed
          <6>3. r[i].data = <<>>
            BY <3>4, <5>2, UsEmpty
          <6>. QED
            BY <6>1, <6>2, <6>3
        <5>. QED
          BY <5>1, <5>2
      <4>6. UsPlaced(more, a, n, bt)
        <5>1. N + 1 + 1 = N + 2 /\ 1 \in 1 .. N + 1
          OBVIOUS
        <5>. QED
          BY <3>4, <3>5, <4>2, <4>4, <4>5, <5>1 DEF UsPlaced
      <4>. QED
        BY <1>2, <3>5, <3>7, <4>6 DEF UsHolds
    <3>9. RoomIn(r[N + 1], k) \in Nat \ {0}
      <4>1. RoomIn(EmptyBuf, k) = k.len - 0 - 0
        BY UsEmpty DEF RoomIn
      <4>. QED
        BY <1>7, <3>4, <4>1
    <3>. QED
      BY <3>1, <3>4, <3>5, <3>8, <3>9
  <2>. QED
    BY <2>2, <2>3
<1>. QED
  BY <1>13, <1>14, <1>15

\* The parts of UsHolds, for a list with buffers q up to N and data_tail d.
HeldBy(q, N, d, a, n, at) ==
  /\ q \in Seq(UsBuf) /\ N = Len(q) /\ N \in Nat /\ d \in 0 .. N /\ (d = 0 <=> N = 0)
  /\ a \in Nat /\ n \in Nat /\ at \in [1 .. N + 1 -> Nat] /\ at[1] = a /\ at[N + 1] = a + n
  /\ \A i \in 1 .. N :
       /\ i > d => q[i] = EmptyBuf
       /\ i < d => q[i].data # <<>>
       /\ q[i].data = <<>> => q[i].off = 0
       /\ at[i] <= at[i + 1] /\ q[i].data = Bytes(at[i], at[i + 1] - at[i])

\* UsHolds gives the parts, and nothing is held past data_tail.
LEMMA HeldOpened ==
  ASSUME NEW l, NEW a, NEW n, UsHolds(l, a, n)
  PROVE  /\ l \in UsList /\ l.bytes = n
         /\ \E at : /\ HeldBy(l.bufs, Len(l.bufs), l.dataTail, a, n, at)
                    /\ \A i \in 1 .. Len(l.bufs) + 1 : i > l.dataTail => at[i] = a + n
<1>1. PICK at : UsPlaced(l, a, n, at)
  BY DEF UsHolds
<1>2. UsShape(l) /\ l \in UsList /\ l.bytes = n /\ a \in Nat /\ n \in Nat
  BY DEF UsHolds, UsShape
<1>3. /\ l.bufs \in Seq(UsBuf) /\ Len(l.bufs) \in Nat /\ l.dataTail \in 0 .. Len(l.bufs)
      /\ l.dataTail = 0 <=> Len(l.bufs) = 0
  BY <1>2, UsFields DEF UsShape
<1>4. HeldBy(l.bufs, Len(l.bufs), l.dataTail, a, n, at)
  BY <1>1, <1>2, <1>3 DEF HeldBy, UsPlaced, UsShape
<1>. QED
  BY <1>1, <1>2, <1>4, HeldUpToTail

\* The parts give UsHolds.
LEMMA HeldMade ==
  ASSUME NEW l \in UsList, NEW a, NEW n, NEW at, l.bytes = n,
         HeldBy(l.bufs, Len(l.bufs), l.dataTail, a, n, at)
  PROVE  UsHolds(l, a, n)
<1>1. UsShape(l)
  BY DEF HeldBy, UsShape
<1>2. UsPlaced(l, a, n, at)
  BY DEF HeldBy, UsPlaced
<1>. QED
  BY <1>1, <1>2 DEF UsHolds, HeldBy

\* Bytes appended to data_tail are held after the others.
LEMMA FilledHeld ==
  ASSUME NEW l, NEW a, NEW n, UsHolds(l, a, n), l.dataTail \in 1 .. Len(l.bufs),
         NEW m \in Nat, NEW s, s = Bytes(a + n, m), NEW f, f = Filled(l, s)
  PROVE  UsHolds(f, a, n + m)
<1>1. PICK at : /\ HeldBy(l.bufs, Len(l.bufs), l.dataTail, a, n, at)
                /\ \A i \in 1 .. Len(l.bufs) + 1 : i > l.dataTail => at[i] = a + n
  BY HeldOpened
<1>2. l \in UsList /\ l.bytes = n
  BY HeldOpened
<1>3. PICK q, N, d : q = l.bufs /\ N = Len(l.bufs) /\ d = l.dataTail
  OBVIOUS
<1>4. /\ q \in Seq(UsBuf) /\ N = Len(q) /\ N \in Nat /\ d \in 1 .. N
      /\ a \in Nat /\ n \in Nat /\ at \in [1 .. N + 1 -> Nat] /\ at[1] = a /\ at[N + 1] = a + n
      /\ \A i \in 1 .. N + 1 : i > d => at[i] = a + n
  BY <1>1, <1>3 DEF HeldBy
<1>5. /\ \A i \in 1 .. N :
           /\ i > d => q[i] = EmptyBuf
           /\ i < d => q[i].data # <<>>
           /\ q[i].data = <<>> => q[i].off = 0
      /\ \A i \in 1 .. N : at[i] <= at[i + 1] /\ q[i].data = Bytes(at[i], at[i + 1] - at[i])
  BY <1>1, <1>3 DEF HeldBy
<1>6. PICK b \in UsBuf : b = q[d]
  BY <1>4, ElementOfSeq
<1>7. a + n \in Nat /\ s \in Seq(Nat) /\ Len(s) = m /\ (s = <<>> <=> m = 0)
  <2>1. a + n \in Nat
    BY <1>4
  <2>. QED
    BY <2>1, BytesListed
<1>8. PICK u \in Nat : u = at[d] /\ u <= a + n /\ b.data = Bytes(u, (a + n) - u)
  <2>1. d \in 1 .. N + 1 /\ d + 1 \in 1 .. N + 1 /\ d + 1 > d
    BY <1>4
  <2>2. at[d + 1] = a + n /\ at[d] \in Nat
    BY <1>4, <2>1
  <2>3. at[d] <= at[d + 1] /\ q[d].data = Bytes(at[d], at[d + 1] - at[d])
    BY <1>4, <1>5
  <2>4. at[d] <= a + n /\ b.data = Bytes(at[d], (a + n) - at[d])
    <3>1. PICK v : v = at[d + 1]
      OBVIOUS
    <3>2. v = a + n /\ at[d] <= v /\ b.data = Bytes(at[d], v - at[d])
      <4>1. b.data = q[d].data
        BY <1>6
      <4>2. v = a + n
        BY <2>2, <3>1
      <4>3. at[d] <= v
        BY <2>3, <3>1
      <4>4. q[d].data = Bytes(at[d], v - at[d])
        BY <2>3, <3>1
      <4>. QED
        BY <4>1, <4>2, <4>3, <4>4
    <3>. QED
      BY <3>2
  <2>. QED
    BY <2>2, <2>4, Zenon
<1>9. PICK x \in Nat : x = (a + n) - u /\ u + x = a + n /\ x + m = (a + n + m) - u
  <2>1. a \in Nat /\ n \in Nat
    BY <1>4
  <2>2. u <= a + n
    BY <1>8
  <2>3. (a + n) - u \in Nat /\ u + ((a + n) - u) = a + n /\ (a + n) - u + m = (a + n + m) - u
    BY <2>1, <2>2
  <2>. QED
    BY <2>3
<1>10. PICK t : t = b.data \o s
  OBVIOUS
<1>11. t = Bytes(u, (a + n + m) - u) /\ t \in Seq(Nat) /\ (t = <<>> => b.data = <<>>)
  <2>1. Bytes(u, x) \o Bytes(u + x, m) = Bytes(u, x + m)
    BY BytesJoined
  <2>2. b.data = Bytes(u, x) /\ s = Bytes(u + x, m)
    BY <1>8, <1>9
  <2>3. t = Bytes(u, x + m)
    BY <1>10, <2>1, <2>2, Zenon
  <2>4. x + m \in Nat /\ (x + m = 0 => x = 0)
    OBVIOUS
  <2>5. t \in Seq(Nat) /\ (t = <<>> <=> x + m = 0) /\ (b.data = <<>> <=> x = 0)
    BY <2>2, <2>3, <2>4, BytesListed
  <2>. QED
    BY <1>9, <2>3, <2>4, <2>5
<1>12. PICK c : c = [b EXCEPT !.data = t]
  OBVIOUS
<1>13. c \in UsBuf /\ c.off = b.off /\ c.data = t
  BY <1>11, <1>12 DEF UsBuf
<1>14. PICK r : r = [q EXCEPT ![d] = c]
  OBVIOUS
<1>15. /\ r \in Seq(UsBuf) /\ Len(r) = N
       /\ \A i \in 1 .. N : r[i] = IF i = d THEN c ELSE q[i]
  BY <1>4, <1>13, <1>14, ExceptSeq
<1>16. f \in UsList /\ f.bufs = r /\ f.dataTail = d /\ f.bytes = n + m
  <2>1. f = [l EXCEPT !.bufs = r, !.bytes = @ + m]
    <3>1. f = [l EXCEPT !.bufs = [l.bufs EXCEPT ![d] = [l.bufs[d] EXCEPT !.data = l.bufs[d].data \o s]], !.bytes = @ + Len(s)]
      BY <1>3 DEF Filled
    <3>. QED
      BY <1>3, <1>6, <1>7, <1>10, <1>12, <1>14, <3>1
  <2>2. r \in Seq(UsBuf) /\ n + m \in Nat
    BY <1>4, <1>15
  <2>3. f = [l EXCEPT !.bufs = r, !.bytes = n + m]
    BY <1>2, <2>1
  <2>4. f \in UsList /\ f.bufs = r /\ f.dataTail = l.dataTail /\ f.bytes = n + m
    <3>1. PICK y \in Nat : y = n + m
      BY <2>2
    <3>2. f = [l EXCEPT !.bufs = r, !.bytes = y]
      BY <2>3, <3>1
    <3>3. f \in UsList /\ f.bufs = r /\ f.dataTail = l.dataTail /\ f.bytes = y
      BY <1>2, <2>2, <3>2 DEF UsList
    <3>. QED
      BY <3>1, <3>3
  <2>. QED
    BY <1>3, <2>4
<1>17. PICK bt : bt = [i \in 1 .. N + 1 |-> IF i > d THEN a + n + m ELSE at[i]]
  OBVIOUS
<1>18. /\ bt \in [1 .. N + 1 -> Nat]
       /\ \A i \in 1 .. N + 1 : (i > d => bt[i] = a + n + m) /\ (~(i > d) => bt[i] = at[i])
  BY <1>4, <1>17
<1>19. ASSUME NEW i \in 1 .. N
       PROVE  /\ i > d => r[i] = EmptyBuf
              /\ i < d => r[i].data # <<>>
              /\ r[i].data = <<>> => r[i].off = 0
              /\ bt[i] <= bt[i + 1] /\ r[i].data = Bytes(bt[i], bt[i + 1] - bt[i])
  <2>1. i \in 1 .. N + 1 /\ i + 1 \in 1 .. N + 1 /\ d \in Nat
    BY <1>4
  <2>2. CASE i = d
    <3>1. ~(i > d) /\ ~(i < d) /\ i + 1 > d
      BY <2>1, <2>2
    <3>2. r[i] = c /\ bt[i] = u /\ bt[i + 1] = a + n + m
      <4>1. r[i] = c
        BY <1>15, <2>2
      <4>2. bt[i] = at[i] /\ bt[i + 1] = a + n + m
        BY <1>18, <2>1, <3>1
      <4>. QED
        BY <1>8, <2>2, <4>1, <4>2
    <3>3. c.data = <<>> => c.off = 0
      BY <1>4, <1>5, <1>6, <1>11, <1>13
    <3>4. u <= a + n + m
      BY <1>4, <1>8
    <3>. QED
      <4>1. bt[i] <= bt[i + 1]
        BY <3>2, <3>4
      <4>2. r[i].data = Bytes(bt[i], bt[i + 1] - bt[i])
        <5>1. PICK v, w : v = bt[i] /\ w = bt[i + 1]
          OBVIOUS
        <5>2. v = u /\ w = a + n + m
          BY <3>2, <5>1
        <5>3. r[i].data = Bytes(v, w - v)
          BY <1>11, <1>13, <3>2, <5>2
        <5>. QED
          BY <5>1, <5>3
      <4>3. r[i].data = <<>> => r[i].off = 0
        BY <3>2, <3>3
      <4>. QED
        BY <3>1, <4>1, <4>2, <4>3
  <2>3. CASE i < d
    <3>1. r[i] = q[i] /\ bt[i] = at[i] /\ bt[i + 1] = at[i + 1] /\ ~(i > d)
      BY <1>15, <1>18, <2>1, <2>3
    <3>. QED
      BY <1>5, <3>1
  <2>4. CASE i > d
    <3>1. r[i] = q[i] /\ bt[i] = a + n + m /\ bt[i + 1] = a + n + m /\ ~(i < d)
      BY <1>15, <1>18, <2>1, <2>4
    <3>2. q[i] = EmptyBuf
      BY <1>5, <2>4
    <3>3. a + n + m \in Nat /\ (a + n + m) - (a + n + m) = 0 /\ a + n + m <= a + n + m
      BY <1>4
    <3>4. Bytes(a + n + m, 0) = <<>>
      BY <3>3, BytesListed
    <3>. QED
      BY <3>1, <3>2, <3>3, <3>4, UsEmpty
  <2>. QED
    BY <2>1, <2>2, <2>3, <2>4
<1>20. HeldBy(r, N, d, a, n + m, bt)
  <2>1. d \in 0 .. N /\ d # 0 /\ N # 0 /\ n + m \in Nat /\ 1 \in 1 .. N + 1 /\ N + 1 \in 1 .. N + 1 /\ ~(1 > d) /\ N + 1 > d
    BY <1>4
  <2>2. bt[1] = a /\ bt[N + 1] = a + n + m /\ a + n + m = a + (n + m)
    BY <1>4, <1>18, <2>1
  <2>. QED
    BY <1>4, <1>15, <1>18, <1>19, <2>1, <2>2 DEF HeldBy
<1>. QED
  BY <1>15, <1>16, <1>20, HeldMade

\* What is before a buffer is not more than all.
LEMMA HeldWithin ==
  ASSUME NEW q, NEW N, NEW d, NEW a, NEW n, NEW at, HeldBy(q, N, d, a, n, at)
  PROVE  \A i \in 1 .. N + 1 : at[i] \in Nat /\ at[i] <= a + n
<1>1. /\ N \in Nat /\ at \in [1 .. N + 1 -> Nat] /\ at[N + 1] = a + n /\ a + n \in Nat
      /\ \A i \in 1 .. N : at[i] <= at[i + 1]
  BY DEF HeldBy
<1>2. PICK P : P = {j \in 0 .. N : at[N + 1 - j] <= a + n}
  OBVIOUS
<1>3. 0 \in P
  BY <1>1, <1>2
<1>4. ASSUME NEW j \in 1 .. N, j - 1 \in P PROVE j \in P
  <2>1. PICK i \in 1 .. N : i = N + 1 - j /\ i + 1 = N + 1 - (j - 1)
    BY <1>1
  <2>2. at[i + 1] <= a + n
    BY <1>2, <1>4, <2>1
  <2>3. PICK u \in Nat, v \in Nat : u = at[i] /\ v = at[i + 1] /\ u <= v
    <3>1. i \in 1 .. N + 1 /\ i + 1 \in 1 .. N + 1
      BY <1>1
    <3>. QED
      BY <1>1, <3>1
  <2>4. u <= a + n
    BY <1>1, <2>2, <2>3
  <2>. QED
    BY <1>2, <2>1, <2>3, <2>4
<1>5. \A j \in 0 .. N : j \in P
  BY <1>1, <1>3, <1>4, StepByStep
<1>. QED
  <2>. TAKE i \in 1 .. N + 1
  <2>1. N + 1 - i \in 0 .. N /\ N + 1 - (N + 1 - i) = i
    BY <1>1
  <2>. QED
    BY <1>1, <1>2, <1>5, <2>1

\* The first buffer: what it holds, and that it holds something when the list does.
LEMMA FirstHeld ==
  ASSUME NEW l, NEW a, NEW n, UsHolds(l, a, n), NEW have, have = Len(l.bufs[1].data), n # 0
  PROVE  /\ have \in 1 .. n /\ Len(l.bufs) \in Nat \ {0} /\ l.bufs # <<>> /\ Head(l.bufs) = l.bufs[1]
         /\ l.bufs[1] \in UsBuf /\ l.bufs[1].data = Bytes(a, have) /\ l.dataTail \in 1 .. Len(l.bufs)
         /\ \A at : HeldBy(l.bufs, Len(l.bufs), l.dataTail, a, n, at) => at[2] = a + have
<1>1. PICK at : /\ HeldBy(l.bufs, Len(l.bufs), l.dataTail, a, n, at)
                /\ \A i \in 1 .. Len(l.bufs) + 1 : i > l.dataTail => at[i] = a + n
  BY HeldOpened
<1>2. l \in UsList /\ l.bytes = n
  BY HeldOpened
<1>3. PICK q, N, d : q = l.bufs /\ N = Len(l.bufs) /\ d = l.dataTail
  OBVIOUS
<1>4. HeldBy(q, N, d, a, n, at) /\ \A i \in 1 .. N + 1 : i > d => at[i] = a + n
  BY <1>1, <1>3
<1>5. /\ q \in Seq(UsBuf) /\ N = Len(q) /\ N \in Nat /\ d \in 0 .. N /\ (d = 0 <=> N = 0)
      /\ a \in Nat /\ n \in Nat /\ at \in [1 .. N + 1 -> Nat] /\ at[1] = a /\ at[N + 1] = a + n
  BY <1>4 DEF HeldBy
<1>6. \A i \in 1 .. N : (i < d => q[i].data # <<>>) /\ at[i] <= at[i + 1] /\ q[i].data = Bytes(at[i], at[i + 1] - at[i])
  BY <1>4 DEF HeldBy
<1>7. N # 0 /\ 1 \in 1 .. N /\ 1 + 1 = 2 /\ 2 \in 1 .. N + 1 /\ d \in 1 .. N
  BY <1>5
<1>8. q # <<>> /\ Head(q) = q[1] /\ q[1] \in UsBuf
  BY <1>5, <1>7
<1>9. PICK v \in Nat : v = at[2] /\ v <= a + n /\ a <= v /\ q[1].data = Bytes(a, v - a)
  <2>1. at[2] \in Nat /\ at[2] <= a + n
    BY <1>4, <1>7, HeldWithin
  <2>2. at[1] <= at[2] /\ q[1].data = Bytes(at[1], at[2] - at[1])
    BY <1>6, <1>7
  <2>. QED
    BY <1>5, <2>1, <2>2
<1>10. v - a \in Nat /\ have = v - a
  <2>1. v - a \in Nat
    BY <1>5, <1>9
  <2>2. Len(Bytes(a, v - a)) = v - a
    BY <1>5, <2>1, BytesListed
  <2>. QED
    BY <1>3, <1>9, <2>1, <2>2, Zenon
<1>11. have # 0
  <2>1. CASE 1 < d
    <3>1. q[1].data # <<>>
      BY <1>6, <1>7, <2>1
    <3>2. Bytes(a, v - a) # <<>>
      BY <1>9, <3>1, Zenon
    <3>. QED
      BY <1>5, <1>10, <3>2, BytesListed
  <2>2. CASE ~(1 < d)
    <3>1. 2 > d
      BY <1>7, <2>2
    <3>2. v = a + n
      BY <1>4, <1>7, <1>9, <3>1
    <3>. QED
      BY <1>5, <1>10, <3>2
  <2>. QED
    BY <2>1, <2>2
<1>12. have \in 1 .. n
  BY <1>5, <1>9, <1>10, <1>11
<1>13. \A bt : HeldBy(q, N, d, a, n, bt) => bt[2] = a + have
  <2>. SUFFICES ASSUME NEW bt, HeldBy(q, N, d, a, n, bt) PROVE bt[2] = a + have
    OBVIOUS
  <2>1. bt[2] \in Nat /\ bt[1] = a /\ bt[1] <= bt[1 + 1] /\ q[1].data = Bytes(bt[1], bt[1 + 1] - bt[1])
    BY <1>7 DEF HeldBy
  <2>2. PICK w \in Nat : w = bt[2] /\ a <= w /\ q[1].data = Bytes(a, w - a)
    BY <1>7, <2>1
  <2>3. w - a \in Nat
    BY <1>5, <2>2
  <2>4. Len(Bytes(a, w - a)) = w - a
    BY <1>5, <2>3, BytesListed
  <2>5. have = w - a
    BY <1>3, <2>2, <2>4
  <2>. QED
    BY <1>5, <2>2, <2>5
<1>. QED
  BY <1>3, <1>7, <1>8, <1>5, <1>9, <1>10, <1>12, <1>13

\* Part of the first buffer taken.
LEMMA CutHeld ==
  ASSUME NEW l, NEW a, NEW n, UsHolds(l, a, n), NEW have, have = Len(l.bufs[1].data), n # 0,
         NEW left \in Nat, left < have, NEW f, f = FirstCut(l, left)
  PROVE  UsHolds(f, a + left, n - left)
<1>1. /\ have \in 1 .. n /\ Len(l.bufs) \in Nat \ {0} /\ Head(l.bufs) = l.bufs[1]
      /\ l.bufs[1] \in UsBuf /\ l.bufs[1].data = Bytes(a, have) /\ l.dataTail \in 1 .. Len(l.bufs)
      /\ \A at : HeldBy(l.bufs, Len(l.bufs), l.dataTail, a, n, at) => at[2] = a + have
  BY FirstHeld
<1>2. PICK at : HeldBy(l.bufs, Len(l.bufs), l.dataTail, a, n, at)
  BY HeldOpened
<1>3. l \in UsList /\ l.bytes = n
  BY HeldOpened
<1>4. PICK q, N, d, b : q = l.bufs /\ N = Len(l.bufs) /\ d = l.dataTail /\ b = l.bufs[1]
  OBVIOUS
<1>5. at[2] = a + have
  BY <1>1, <1>2
<1>6. /\ q \in Seq(UsBuf) /\ N = Len(q) /\ N \in Nat /\ d \in 1 .. N
      /\ a \in Nat /\ n \in Nat /\ at \in [1 .. N + 1 -> Nat] /\ at[1] = a /\ at[N + 1] = a + n
  BY <1>1, <1>2, <1>4 DEF HeldBy
<1>7. /\ \A i \in 1 .. N :
           /\ i > d => q[i] = EmptyBuf
           /\ i < d => q[i].data # <<>>
           /\ q[i].data = <<>> => q[i].off = 0
      /\ \A i \in 1 .. N : at[i] <= at[i + 1] /\ q[i].data = Bytes(at[i], at[i + 1] - at[i])
  BY <1>2, <1>4 DEF HeldBy
<1>8. /\ SubSeq(b.data, left + 1, have) = Bytes(a + left, have - left)
      /\ have - left \in Nat \ {0} /\ a + left \in Nat /\ have \in Nat
  <2>1. have \in Nat /\ left \in 0 .. have /\ a \in Nat
    BY <1>1, <1>6
  <2>2. SubSeq(Bytes(a, have), left + 1, have) = Bytes(a + left, have - left)
    BY <2>1, BytesCut
  <2>3. have - left \in Nat \ {0} /\ a + left \in Nat
    BY <2>1
  <2>4. b.data = Bytes(a, have)
    BY <1>1, <1>4
  <2>. QED
    BY <2>1, <2>2, <2>3, <2>4, Zenon
<1>9. PICK s : s = Bytes(a + left, have - left)
  OBVIOUS
<1>10. s \in Seq(Nat) /\ s # <<>>
  BY <1>8, <1>9, BytesListed
<1>11. PICK o \in Nat : o = b.off + left
  <2>1. b.off \in Nat
    BY <1>1, <1>4 DEF UsBuf
  <2>. QED
    BY <2>1
<1>12. PICK c : c = [off |-> o, data |-> s]
  OBVIOUS
<1>13. c \in UsBuf /\ c.data = s
  BY <1>10, <1>12 DEF UsBuf
<1>14. PICK r : r = [q EXCEPT ![1] = c]
  OBVIOUS
<1>15. /\ r \in Seq(UsBuf) /\ Len(r) = N
       /\ \A i \in 1 .. N : r[i] = IF i = 1 THEN c ELSE q[i]
  <2>1. 1 \in 1 .. Len(q)
    BY <1>6
  <2>. QED
    BY <1>6, <1>13, <1>14, <2>1, ExceptSeq
<1>16. PICK y \in Nat : y = n - left
  <2>1. n - left \in Nat
    <3>1. PICK h \in Nat : h = have /\ h <= n
      BY <1>1, <1>6
    <3>2. left < h
      BY <3>1
    <3>. QED
      BY <1>6, <3>1, <3>2
  <2>. QED
    BY <2>1
<1>17. f \in UsList /\ f.bufs = r /\ f.dataTail = d /\ f.bytes = y
  <2>1. f = [l EXCEPT !.bufs = r, !.bytes = y]
    <3>1. Head(l.bufs) = b /\ Len(b.data) = have
      BY <1>1, <1>4
    <3>2. f = [l EXCEPT !.bufs = [l.bufs EXCEPT ![1] = [off |-> b.off + left, data |-> SubSeq(b.data, left + 1, have)]], !.bytes = @ - left]
      BY <3>1, Zenon DEF FirstCut
    <3>3. f = [l EXCEPT !.bufs = r, !.bytes = @ - left]
      BY <1>4, <1>8, <1>9, <1>11, <1>12, <1>14, <3>2, Zenon
    <3>. QED
      BY <1>3, <1>16, <3>3
  <2>2. r \in Seq(UsBuf)
    BY <1>15
  <2>3. f \in UsList /\ f.bufs = r /\ f.dataTail = l.dataTail /\ f.bytes = y
    BY <1>3, <2>1, <2>2 DEF UsList
  <2>. QED
    BY <1>4, <2>3
<1>18. PICK bt : bt = [at EXCEPT ![1] = a + left]
  OBVIOUS
<1>19. bt \in [1 .. N + 1 -> Nat] /\ bt[1] = a + left /\ \A i \in 1 .. N + 1 : i # 1 => bt[i] = at[i]
  BY <1>6, <1>8, <1>18
<1>20. ASSUME NEW i \in 1 .. N
       PROVE  /\ i > d => r[i] = EmptyBuf
              /\ i < d => r[i].data # <<>>
              /\ r[i].data = <<>> => r[i].off = 0
              /\ bt[i] <= bt[i + 1] /\ r[i].data = Bytes(bt[i], bt[i + 1] - bt[i])
  <2>1. i \in 1 .. N + 1 /\ i + 1 \in 1 .. N + 1 /\ i + 1 # 1
    BY <1>6
  <2>2. bt[i + 1] = at[i + 1]
    BY <1>19, <2>1
  <2>3. CASE i = 1
    <3>1. r[i] = c /\ ~(i > d) /\ r[i].data # <<>>
      BY <1>6, <1>10, <1>13, <1>15, <2>3
    <3>2. PICK v, w : v = bt[i] /\ w = bt[i + 1]
      OBVIOUS
    <3>3. v = a + left /\ w = a + have
      BY <1>5, <1>19, <2>2, <2>3, <3>2
    <3>4. v <= w /\ w - v = have - left
      BY <1>6, <1>8, <3>3
    <3>5. r[i].data = Bytes(v, w - v)
      BY <1>9, <1>13, <3>1, <3>3, <3>4
    <3>. QED
      BY <3>1, <3>2, <3>4, <3>5
  <2>4. CASE i # 1
    <3>1. r[i] = q[i] /\ bt[i] = at[i]
      BY <1>15, <1>19, <2>1, <2>4
    <3>. QED
      BY <1>7, <2>2, <3>1
  <2>. QED
    BY <2>3, <2>4
<1>21. HeldBy(r, N, d, a + left, y, bt)
  <2>1. d \in 0 .. N /\ d # 0 /\ N # 0 /\ N + 1 \in 1 .. N + 1 /\ N + 1 # 1 /\ a + n = a + left + y
    BY <1>6, <1>16
  <2>2. bt[N + 1] = a + left + y
    BY <1>6, <1>19, <2>1
  <2>. QED
    BY <1>6, <1>8, <1>15, <1>19, <1>20, <2>1, <2>2 DEF HeldBy
<1>22. UsHolds(f, a + left, y)
  BY <1>15, <1>17, <1>21, HeldMade
<1>. QED
  BY <1>16, <1>22

\* The first buffer taken, and freed or put at the end.
LEMMA FreedHeld ==
  ASSUME NEW l, NEW a, NEW n, UsHolds(l, a, n), NEW have, have = Len(l.bufs[1].data), n # 0,
         NEW k \in UsLimits, NEW f, f = FirstFreed(l, k)
  PROVE  UsHolds(f, a + have, n - have)
<1>1. /\ have \in 1 .. n /\ Len(l.bufs) \in Nat \ {0} /\ l.bufs # <<>> /\ Head(l.bufs) = l.bufs[1]
      /\ l.dataTail \in 1 .. Len(l.bufs)
      /\ \A at : HeldBy(l.bufs, Len(l.bufs), l.dataTail, a, n, at) => at[2] = a + have
  BY FirstHeld
<1>2. PICK at : HeldBy(l.bufs, Len(l.bufs), l.dataTail, a, n, at)
  BY HeldOpened
<1>3. l \in UsList /\ l.bytes = n
  BY HeldOpened
<1>4. PICK q, N, d : q = l.bufs /\ N = Len(l.bufs) /\ d = l.dataTail
  OBVIOUS
<1>5. at[2] = a + have
  BY <1>1, <1>2
<1>6. /\ q \in Seq(UsBuf) /\ N = Len(q) /\ N \in Nat \ {0} /\ d \in 1 .. N
      /\ a \in Nat /\ n \in Nat /\ at \in [1 .. N + 1 -> Nat] /\ at[N + 1] = a + n
  BY <1>1, <1>2, <1>4 DEF HeldBy
<1>7. N \in Nat \ {0} /\ a \in Nat /\ n \in Nat /\ have \in Nat /\ have <= n
  BY <1>1, <1>6
<1>8. /\ \A i \in 1 .. N :
           /\ i > d => q[i] = EmptyBuf
           /\ i < d => q[i].data # <<>>
           /\ q[i].data = <<>> => q[i].off = 0
      /\ \A i \in 1 .. N : at[i] <= at[i + 1] /\ q[i].data = Bytes(at[i], at[i + 1] - at[i])
  BY <1>2, <1>4 DEF HeldBy
<1>9. PICK rest : rest = Tail(q)
  OBVIOUS
<1>10. PICK M \in Nat : M = N - 1 /\ M + 1 = N
  BY <1>7
<1>11. rest \in Seq(UsBuf) /\ Len(rest) = M /\ \A i \in 1 .. M : rest[i] = q[i + 1]
  BY <1>1, <1>4, <1>6, <1>9, <1>10, HeadTailProperties, SMTT(20)
<1>12. PICK dt \in 0 .. M :
         /\ dt = IF d > 1 THEN d - 1 ELSE IF rest # <<>> THEN 1 ELSE 0
         /\ dt = 0 <=> M = 0
         /\ \A i \in 1 .. M : (i > dt => i + 1 > d) /\ (i < dt => i + 1 < d)
  <2>1. rest = <<>> <=> M = 0
    BY <1>11, EmptySeq
  <2>2. CASE d > 1
    <3>1. d - 1 \in 0 .. M /\ d - 1 # 0 /\ M # 0 /\ \A i \in 1 .. M : (i > d - 1 => i + 1 > d) /\ (i < d - 1 => i + 1 < d)
      BY <1>6, <1>10, <2>2
    <3>. QED
      BY <2>2, <3>1
  <2>3. CASE ~(d > 1) /\ M # 0
    <3>1. d = 1 /\ 1 \in 0 .. M
      BY <1>6, <2>3
    <3>. QED
      BY <2>1, <2>3, <3>1
  <2>4. CASE ~(d > 1) /\ M = 0
    <3>1. \A i \in 1 .. M : FALSE
      BY <2>4
    <3>. QED
      BY <2>1, <2>4, <3>1
  <2>. QED
    BY <2>2, <2>3, <2>4
<1>13. PICK e \in Nat, y \in Nat : e = a + have /\ y = n - have /\ e + y = a + n
  <2>1. PICK h \in Nat : h = have /\ h <= n
    BY <1>7
  <2>2. h <= n
    BY <2>1
  <2>3. PICK e \in Nat, y \in Nat : e = a + h /\ y = n - h /\ e + y = a + n
    <3>1. a + h \in Nat /\ n - h \in Nat /\ (a + h) + (n - h) = a + n
      BY <1>7, <2>2
    <3>. QED
      BY <3>1
  <2>. QED
    BY <2>1, <2>3, Zenon
<1>14. PICK bt : bt = [i \in 1 .. N |-> at[i + 1]]
  OBVIOUS
<1>15. bt \in [1 .. N -> Nat] /\ bt[1] = e /\ bt[N] = a + n /\ \A i \in 1 .. N : bt[i] = at[i + 1]
  <2>1. 1 \in 1 .. N /\ N \in 1 .. N /\ 1 + 1 = 2 /\ \A i \in 1 .. N : i + 1 \in 1 .. N + 1
    BY <1>6
  <2>. QED
    BY <1>5, <1>6, <1>13, <1>14, <2>1
<1>16. ASSUME NEW i \in 1 .. M
       PROVE  /\ i > dt => rest[i] = EmptyBuf
              /\ i < dt => rest[i].data # <<>>
              /\ rest[i].data = <<>> => rest[i].off = 0
              /\ bt[i] <= bt[i + 1] /\ rest[i].data = Bytes(bt[i], bt[i + 1] - bt[i])
  <2>1. PICK j \in 1 .. N : j = i + 1 /\ i \in 1 .. N
    BY <1>10
  <2>2. rest[i] = q[j] /\ bt[i] = at[j] /\ bt[i + 1] = at[j + 1]
    BY <1>11, <1>15, <2>1
  <2>3. (i > dt => j > d) /\ (i < dt => j < d)
    BY <1>12, <2>1
  <2>. QED
    BY <1>8, <2>2, <2>3
<1>17. CASE M >= k.min
  <2>1. f = [l EXCEPT !.bufs = rest, !.dataTail = dt, !.bytes = y]
    <3>1. ustream_free_buf(l, k) = [l EXCEPT !.bufs = rest, !.dataTail = dt]
      BY <1>4, <1>9, <1>11, <1>12, <1>17 DEF ustream_free_buf
    <3>2. y = l.bytes - Len(Head(l.bufs).data)
      BY <1>1, <1>3, <1>13, Zenon
    <3>3. PICK x, h : x = ustream_free_buf(l, k) /\ h = Len(Head(l.bufs).data)
      OBVIOUS
    <3>4. f = [x EXCEPT !.bytes = @ - h]
      BY <3>3, Zenon DEF FirstFreed
    <3>5. x = [l EXCEPT !.bufs = rest, !.dataTail = dt] /\ y = l.bytes - h
      BY <3>1, <3>2, <3>3, Zenon
    <3>. QED
      BY <1>3, <3>4, <3>5 DEF UsList
  <2>2. f \in UsList /\ f.bufs = rest /\ f.dataTail = dt /\ f.bytes = y
    <3>1. rest \in Seq(UsBuf) /\ dt \in Nat
      BY <1>11, <1>12
    <3>. QED
      BY <1>3, <2>1, <3>1 DEF UsList
  <2>3. HeldBy(rest, M, dt, e, y, bt)
    BY <1>10, <1>11, <1>12, <1>13, <1>15, <1>16 DEF HeldBy
  <2>4. UsHolds(f, e, y)
    BY <1>11, <2>2, <2>3, HeldMade
  <2>. QED
    BY <1>13, <2>4
<1>18. CASE ~(M >= k.min)
  <2>1. PICK r, g : r = Append(rest, EmptyBuf) /\ g = IF dt = 0 THEN 1 ELSE dt
    OBVIOUS
  <2>2. /\ r \in Seq(UsBuf) /\ Len(r) = N
        /\ r[N] = EmptyBuf /\ \A i \in 1 .. M : r[i] = rest[i]
    BY <1>10, <1>11, <2>1, UsEmpty, AppendProperties
  <2>3. g \in 1 .. N /\ \A i \in 1 .. M : (i > g => i > dt) /\ (i < g => i < dt)
    <3>1. CASE dt = 0
      BY <1>6, <2>1, <3>1
    <3>2. CASE dt # 0
      BY <1>10, <2>1, <3>2
    <3>. QED
      BY <3>1, <3>2
  <2>4. f = [l EXCEPT !.bufs = r, !.dataTail = g, !.bytes = y]
    <3>1. ustream_free_buf(l, k) = [l EXCEPT !.bufs = r, !.dataTail = g]
      BY <1>4, <1>9, <1>11, <1>12, <1>18, <2>1 DEF ustream_free_buf
    <3>2. y = l.bytes - Len(Head(l.bufs).data)
      BY <1>1, <1>3, <1>13, Zenon
    <3>3. PICK x, h : x = ustream_free_buf(l, k) /\ h = Len(Head(l.bufs).data)
      OBVIOUS
    <3>4. f = [x EXCEPT !.bytes = @ - h]
      BY <3>3, Zenon DEF FirstFreed
    <3>5. x = [l EXCEPT !.bufs = r, !.dataTail = g] /\ y = l.bytes - h
      BY <3>1, <3>2, <3>3, Zenon
    <3>. QED
      BY <1>3, <3>4, <3>5 DEF UsList
  <2>5. f \in UsList /\ f.bufs = r /\ f.dataTail = g /\ f.bytes = y
    <3>1. r \in Seq(UsBuf) /\ g \in Nat
      BY <1>6, <2>2, <2>3
    <3>. QED
      BY <1>3, <2>4, <3>1 DEF UsList
  <2>6. PICK ct : ct = [i \in 1 .. N + 1 |-> IF i = N + 1 THEN a + n ELSE bt[i]]
    OBVIOUS
  <2>7. ct \in [1 .. N + 1 -> Nat] /\ ct[N + 1] = a + n /\ \A i \in 1 .. N : ct[i] = bt[i]
    <3>1. a + n \in Nat /\ N + 1 \in 1 .. N + 1 /\ \A i \in 1 .. N + 1 : i # N + 1 => i \in 1 .. N
      BY <1>7
    <3>2. \A i \in 1 .. N : i # N + 1 /\ i \in 1 .. N + 1
      BY <1>6
    <3>3. \A i \in 1 .. N : bt[i] \in Nat
      BY <1>15
    <3>. QED
      BY <2>6, <3>1, <3>2, <3>3
  <2>8. ASSUME NEW i \in 1 .. N
        PROVE  /\ i > g => r[i] = EmptyBuf
               /\ i < g => r[i].data # <<>>
               /\ r[i].data = <<>> => r[i].off = 0
               /\ ct[i] <= ct[i + 1] /\ r[i].data = Bytes(ct[i], ct[i + 1] - ct[i])
    <3>1. CASE i \in 1 .. M
      <4>1. r[i] = rest[i] /\ ct[i] = bt[i] /\ i + 1 \in 1 .. N
        BY <1>10, <2>2, <2>7, <3>1
      <4>2. ct[i + 1] = bt[i + 1]
        BY <2>7, <4>1
      <4>. QED
        BY <1>16, <2>3, <3>1, <4>1, <4>2
    <3>2. CASE i = N
      <4>1. r[i] = EmptyBuf /\ ~(i < g)
        BY <1>6, <2>2, <2>3, <3>2
      <4>2. PICK v, w : v = ct[i] /\ w = ct[i + 1]
        OBVIOUS
      <4>3. v = a + n /\ w = a + n
        BY <1>6, <1>15, <2>7, <3>2, <4>2
      <4>4. a + n \in Nat /\ v <= w /\ w - v = 0
        BY <1>6, <4>3
      <4>5. Bytes(a + n, 0) = <<>>
        BY <4>4, BytesListed
      <4>6. EmptyBuf.data = Bytes(v, w - v)
        BY <4>3, <4>4, <4>5, UsEmpty
      <4>. QED
        BY <4>1, <4>2, <4>4, <4>6, UsEmpty
    <3>. QED
      BY <1>10, <3>1, <3>2
  <2>9. HeldBy(r, N, g, e, y, ct)
    <3>1. ct[1] = e
      BY <1>6, <1>15, <2>7
    <3>2. g \in 0 .. N /\ (g = 0 <=> N = 0)
      BY <1>7, <2>3
    <3>. QED
      BY <1>7, <1>13, <2>2, <2>7, <2>8, <3>1, <3>2 DEF HeldBy
  <2>10. UsHolds(f, e, y)
    BY <2>2, <2>5, <2>9, HeldMade
  <2>. QED
    BY <1>13, <2>10
<1>. QED
  BY <1>17, <1>18

\* ustream_consume of len bytes from a list of bytes a + 1 .. a + n, with left to go.
Taking(a, n, len) ==
  {s \in [l : UsList, left : 0 .. len] : UsHolds(s.l, a + (len - s.left), n - (len - s.left))}

\* A round of ustream_consume takes the next bytes, at least one of them.
LEMMA RoundTakes ==
  ASSUME NEW a \in Nat, NEW n \in Nat, NEW len \in 0 .. n, NEW k \in UsLimits,
         NEW s \in Taking(a, n, len), NEW r, r = ConsumeRound(s, k)
  PROVE  /\ r \in Taking(a, n, len)
         /\ s.left = 0 => r.left = 0
         /\ s.left # 0 => r.left < s.left
<1>1. PICK x \in UsList, left \in 0 .. len : x = s.l /\ left = s.left /\ s = [l |-> x, left |-> left]
  BY DEF Taking
<1>2. UsHolds(x, a + (len - left), n - (len - left))
  BY <1>1 DEF Taking
<1>3. CASE left = 0
  <2>1. r = s
    BY <1>1, <1>3 DEF ConsumeRound
  <2>. QED
    BY <1>1, <1>3, <2>1
<1>4. CASE left # 0
  <2>1. PICK a1 \in Nat, n1 \in Nat : a1 = a + (len - left) /\ n1 = n - (len - left) /\ n1 # 0 /\ left \in 1 .. n1
    <3>1. a + (len - left) \in Nat /\ n - (len - left) \in Nat /\ n - (len - left) # 0 /\ left <= n - (len - left) /\ left >= 1
      BY <1>4
    <3>. QED
      BY <3>1
  <2>2. UsHolds(x, a1, n1)
    BY <1>2, <2>1
  <2>3. PICK have : have = Len(x.bufs[1].data)
    OBVIOUS
  <2>4. have \in 1 .. n1 /\ Head(x.bufs) = x.bufs[1]
    BY <2>1, <2>2, <2>3, FirstHeld
  <2>5. r = IF left < have THEN [l |-> FirstCut(x, left), left |-> 0]
            ELSE [l |-> FirstFreed(x, k), left |-> left - have]
    <3>1. Len(Head(x.bufs).data) = have
      BY <2>3, <2>4, Zenon
    <3>2. PICK b \in BOOLEAN : b <=> left < have
      OBVIOUS
    <3>3. r = CASE left = 0 -> s
                [] left # 0 /\ b -> [l |-> FirstCut(x, left), left |-> 0]
                [] OTHER -> [l |-> FirstFreed(x, k), left |-> left - have]
      BY <1>1, <3>1, <3>2 DEF ConsumeRound
    <3>. QED
      BY <1>4, <3>2, <3>3
  <2>6. CASE left < have
    <3>1. PICK f : f = FirstCut(x, left)
      OBVIOUS
    <3>2. left \in Nat
      OBVIOUS
    <3>3. UsHolds(f, a1 + left, n1 - left)
      BY <2>1, <2>2, <2>3, <2>6, <3>1, <3>2, CutHeld
    <3>4. r = [l |-> f, left |-> 0]
      BY <2>5, <2>6, <3>1
    <3>5. a1 + left = a + (len - 0) /\ n1 - left = n - (len - 0) /\ 0 \in 0 .. len /\ 0 < left
      BY <1>4, <2>1
    <3>6. f \in UsList
      BY <3>3 DEF UsHolds, UsShape
    <3>7. UsHolds(f, a + (len - 0), n - (len - 0))
      BY <3>3, <3>5, Zenon
    <3>8. r.l = f /\ r.left = 0 /\ r \in [l : UsList, left : 0 .. len]
      BY <3>4, <3>5, <3>6
    <3>9. r \in Taking(a, n, len)
      BY <3>7, <3>8, Zenon DEF Taking
    <3>. QED
      BY <1>1, <1>4, <3>5, <3>8, <3>9
  <2>7. CASE ~(left < have)
    <3>1. PICK f : f = FirstFreed(x, k)
      OBVIOUS
    <3>2. UsHolds(f, a1 + have, n1 - have)
      BY <2>1, <2>2, <2>3, <3>1, FreedHeld
    <3>3. PICK rest : rest = left - have
      OBVIOUS
    <3>4. r = [l |-> f, left |-> rest]
      BY <2>5, <2>7, <3>1, <3>3
    <3>5. rest \in 0 .. len /\ rest < left /\ a1 + have = a + (len - rest) /\ n1 - have = n - (len - rest)
      BY <2>1, <2>4, <2>7, <3>3
    <3>6. f \in UsList
      BY <3>2 DEF UsHolds, UsShape
    <3>7. UsHolds(f, a + (len - rest), n - (len - rest))
      BY <3>2, <3>5, Zenon
    <3>8. r.l = f /\ r.left = rest /\ r \in [l : UsList, left : 0 .. len]
      BY <3>4, <3>5, <3>6
    <3>9. r \in Taking(a, n, len)
      BY <3>7, <3>8, Zenon DEF Taking
    <3>. QED
      BY <1>1, <1>4, <3>5, <3>8, <3>9
  <2>. QED
    BY <2>6, <2>7
<1>. QED
  BY <1>3, <1>4

\* ustream_consume: the first len bytes are gone, and only they.
LEMMA ConsumedHeld ==
  ASSUME NEW l, NEW a, NEW n, UsHolds(l, a, n), NEW k \in UsLimits, NEW len \in 0 .. n,
         NEW c, c = Consumed(l, k, len)
  PROVE  UsHolds(c, a + len, n - len)
<1>1. a \in Nat /\ n \in Nat /\ len \in Nat /\ l \in UsList
  BY DEF UsHolds, UsShape
<1>2. PICK S, s0 : S = Taking(a, n, len) /\ s0 = [l |-> l, left |-> len]
  OBVIOUS
<1>3. s0 \in S
  <2>1. a + (len - len) = a /\ n - (len - len) = n /\ len \in 0 .. len
    BY <1>1
  <2>2. s0.l = l /\ s0.left = len /\ s0 \in [l : UsList, left : 0 .. len]
    BY <1>1, <1>2, <2>1
  <2>3. UsHolds(s0.l, a + (len - s0.left), n - (len - s0.left))
    BY <2>1, <2>2, Zenon
  <2>. QED
    BY <1>2, <2>2, <2>3, Zenon DEF Taking
<1>4. \A s \in S : /\ ConsumeRound(s, k) \in S
                   /\ s.left = 0 => ConsumeRound(s, k).left = 0
                   /\ s.left # 0 => ConsumeRound(s, k).left < s.left
  BY <1>1, <1>2, RoundTakes
<1>5. PICK step : step = [p \in S \X (1 .. len) |-> ConsumeRound(p[1], k)]
  OBVIOUS
<1>6. StepOf(step, S, len)
  BY <1>4, <1>5 DEF StepOf
<1>7. PICK g : CourseOf(g, s0, step, S, len)
  BY <1>1, <1>3, <1>6, Iterated, Zenon
<1>8. ASSUME NEW i \in 1 .. len PROVE g[i] = ConsumeRound(g[i - 1], k)
  <2>1. i - 1 \in 0 .. len
    BY <1>1
  <2>2. PICK x \in S : x = g[i - 1]
    BY <1>7, <2>1 DEF CourseOf
  <2>3. PICK p : p = <<x, i>>
    OBVIOUS
  <2>4. p \in S \X (1 .. len) /\ p[1] = x /\ p[2] = i
    BY <2>3
  <2>5. step[p] = ConsumeRound(p[1], k)
    BY <1>5, <2>4
  <2>. QED
    BY <1>7, <2>2, <2>3, <2>4, <2>5 DEF CourseOf
<1>9. g = [i \in 0 .. len |-> IF i = 0 THEN [l |-> l, left |-> len] ELSE ConsumeRound(g[i - 1], k)]
  <2>1. \A i \in 0 .. len : g[i] = IF i = 0 THEN s0 ELSE ConsumeRound(g[i - 1], k)
    <3>1. \A i \in 0 .. len : i = 0 \/ i \in 1 .. len
      BY <1>1
    <3>. QED
      BY <1>7, <1>8, <3>1 DEF CourseOf
  <2>2. g = [i \in 0 .. len |-> g[i]]
    BY <1>7 DEF CourseOf
  <2>. QED
    BY <1>2, <2>1, <2>2, Zenon
<1>. DEFINE F == CHOOSE f : f = [i \in 0 .. len |-> IF i = 0 THEN [l |-> l, left |-> len] ELSE ConsumeRound(f[i - 1], k)]
<1>10. F = [i \in 0 .. len |-> IF i = 0 THEN [l |-> l, left |-> len] ELSE ConsumeRound(F[i - 1], k)]
  BY <1>9, Zenon
<1>11. c = F[len].l
  BY Zenon DEF Consumed
<1>. HIDE DEF F
<1>12. PICK P : P = {i \in 0 .. len : F[i] \in S /\ F[i].left <= len - i}
  OBVIOUS
<1>13. 0 \in P
  <2>1. F[0] = s0
    BY <1>1, <1>2, <1>10
  <2>2. s0.left = len
    BY <1>2
  <2>. QED
    BY <1>1, <1>3, <1>12, <2>1, <2>2
<1>14. ASSUME NEW i \in 1 .. len, i - 1 \in P PROVE i \in P
  <2>1. PICK s \in S : s = F[i - 1] /\ s.left <= len - (i - 1)
    BY <1>12, <1>14
  <2>2. F[i] = ConsumeRound(s, k)
    BY <1>10, <2>1
  <2>3. s.left \in 0 .. len /\ ConsumeRound(s, k).left \in 0 .. len
    BY <1>2, <1>4 DEF Taking
  <2>4. PICK u \in Nat, v \in Nat : u = s.left /\ v = ConsumeRound(s, k).left
    BY <2>3
  <2>5. v <= len - i
    <3>1. (u = 0 => v = 0) /\ (u # 0 => v < u) /\ u <= len - (i - 1)
      BY <1>4, <2>1, <2>4
    <3>. QED
      BY <1>1, <3>1
  <2>. QED
    BY <1>4, <1>12, <2>2, <2>4, <2>5
<1>15. len \in P
  BY <1>1, <1>13, <1>14, StepByStep
<1>16. PICK s \in S : s = F[len] /\ s.left <= len - len
  BY <1>12, <1>15
<1>17. s.left = 0
  <2>1. s.left \in Nat
    BY <1>2 DEF Taking
  <2>. QED
    BY <1>1, <1>16, <2>1
<1>18. UsHolds(s.l, a + (len - 0), n - (len - 0))
  BY <1>2, <1>17 DEF Taking
<1>19. len - 0 = len
  BY <1>1
<1>. QED
  BY <1>11, <1>16, <1>18, <1>19, Zenon

\* The lesser of two numbers.
LEMMA LesserOf ==
  ASSUME NEW x \in Nat, NEW y \in Nat, NEW m, m = Min({x, y})
  PROVE  m \in Nat /\ m <= x /\ m <= y /\ (m = x \/ m = y)
<1>1. {x, y} \in SUBSET Nat /\ {x, y} # {}
  OBVIOUS
<1>. QED
  BY <1>1, MinFound

\* What the constants say of the two lists.
LEMMA LimitsKnown == Limits("r") \in UsLimits /\ Limits("w") \in UsLimits
<1>1. RMin \in Int /\ RMax \in Int /\ WMin \in Int /\ WMax \in Int /\ RLen \in Nat \ {0} /\ WLen \in Nat \ {0}
  BY UstreamAssumption
<1>. QED
  BY <1>1 DEF Limits, UsLimits

\* ustream_write_buffered behind bytes from number a + 1 on.
Writing(a, low, len) ==
  {s \in [l : UsList, n : Nat, left : 0 .. len] : low <= s.n /\ s.n - a \in Nat /\ UsHolds(s.l, a, s.n - a)}

\* A round of ustream_write_buffered puts the next bytes behind the others.
LEMMA RoundWrites ==
  ASSUME NEW a \in Nat, NEW low \in Nat, NEW len \in Nat, NEW s \in Writing(a, low, len), NEW r, r = WriteRound(s)
  PROVE  r \in Writing(a, low, len)
<1>1. PICK x \in UsList, n \in Nat, left \in 0 .. len :
        x = s.l /\ n = s.n /\ left = s.left /\ s = [l |-> x, n |-> n, left |-> left]
  BY DEF Writing
<1>2. PICK h \in Nat : h = n - a /\ a + h = n /\ UsHolds(x, a, h)
  BY <1>1 DEF Writing
<1>3. PICK k \in UsLimits : k = Limits("w")
  BY LimitsKnown
<1>4. PICK p : p = ustream_prepare_buf(x, k, left)
  OBVIOUS
<1>5. /\ UsHolds(p.l, a, h)
      /\ p.ok => /\ p.l.dataTail \in 1 .. Len(p.l.bufs)
                 /\ RoomIn(p.l.bufs[p.l.dataTail], k) \in Nat \ {0}
  BY <1>2, <1>4, PreparedHeld
<1>6. PICK room, fits : room = RoomIn(p.l.bufs[p.l.dataTail], k) /\ fits = Min({left, room})
  OBVIOUS
<1>7. PICK b \in BOOLEAN : b <=> p.ok
  OBVIOUS
<1>8. r = CASE left = 0 -> s
            [] left # 0 /\ ~b -> [s EXCEPT !.l = p.l, !.left = 0]
            [] OTHER -> [l |-> Filled(p.l, Bytes(n, fits)), n |-> n + fits, left |-> left - fits]
  BY <1>1, <1>3, <1>4, <1>6, <1>7 DEF WriteRound
<1>9. CASE left = 0
  <2>1. r = s
    BY <1>8, <1>9
  <2>. QED
    BY <2>1
<1>10. CASE left # 0 /\ ~b
  <2>1. r = [s EXCEPT !.l = p.l, !.left = 0]
    BY <1>8, <1>10
  <2>2. p.l \in UsList
    BY <1>5 DEF UsHolds, UsShape
  <2>3. PICK y \in UsList : y = p.l
    BY <2>2
  <2>4. r = [l |-> y, n |-> n, left |-> 0]
    BY <1>1, <2>1, <2>3
  <2>5. r.l = y /\ r.n = n /\ r \in [l : UsList, n : Nat, left : 0 .. len]
    BY <2>4
  <2>6. n - a \in Nat /\ UsHolds(y, a, n - a) /\ low <= n
    BY <1>1, <1>2, <1>5, <2>3 DEF Writing
  <2>. QED
    BY <2>5, <2>6 DEF Writing
<1>11. CASE left # 0 /\ b
  <2>1. r = [l |-> Filled(p.l, Bytes(n, fits)), n |-> n + fits, left |-> left - fits]
    BY <1>8, <1>11
  <2>2. fits \in Nat /\ fits <= left
    <3>1. left \in Nat /\ room \in Nat
      BY <1>5, <1>6, <1>7, <1>11
    <3>. QED
      BY <1>6, <3>1, LesserOf
  <2>3. PICK y, t : y = Filled(p.l, t) /\ t = Bytes(a + h, fits)
    OBVIOUS
  <2>4. UsHolds(y, a, h + fits)
    BY <1>5, <1>7, <1>11, <2>2, <2>3, FilledHeld
  <2>5. y \in UsList
    BY <2>4 DEF UsHolds, UsShape
  <2>6. n + fits \in Nat /\ (n + fits) - a = h + fits /\ h + fits \in Nat /\ left - fits \in 0 .. len
    BY <1>2, <2>2
  <2>7. PICK n1 \in Nat, left1 \in 0 .. len : n1 = n + fits /\ left1 = left - fits /\ n1 - a \in Nat /\ n1 - a = h + fits
    BY <2>6
  <2>8. r = [l |-> y, n |-> n1, left |-> left1]
    BY <1>2, <2>1, <2>3, <2>7, Zenon
  <2>9. r.l = y /\ r.n = n1 /\ r \in [l : UsList, n : Nat, left : 0 .. len]
    BY <2>5, <2>8
  <2>10. UsHolds(y, a, n1 - a) /\ n1 - a \in Nat
    BY <2>4, <2>7, Zenon
  <2>11. low <= n
    BY <1>1 DEF Writing
  <2>12. low <= n1
    BY <2>2, <2>7, <2>11
  <2>. QED
    BY <2>9, <2>10, <2>12 DEF Writing
<1>. QED
  BY <1>7, <1>9, <1>10, <1>11

\* b is what ustream_write_buffered makes of list l.
BufferedIs(b, l, n, len) == b = ustream_write_buffered(l, n, len)

\* ustream_write_buffered: some more bytes behind the others, none when there are none.
LEMMA WrittenHeld ==
  ASSUME NEW l, NEW a, NEW h, UsHolds(l, a, h), NEW len \in Nat,
         NEW b, BufferedIs(b, l, a + h, len)
  PROVE  /\ b.n \in Nat /\ a + h <= b.n /\ b.n - a \in Nat /\ UsHolds(b.l, a, b.n - a)
         /\ len = 0 => b.l = l /\ b.n = a + h
<1>1. PICK n : n = a + h
  OBVIOUS
<1>2. a \in Nat /\ h \in Nat /\ n \in Nat /\ l \in UsList /\ n - a = h /\ n <= n
  BY <1>1 DEF UsHolds, UsShape
<1>3. PICK S, s0 : S = Writing(a, n, len) /\ s0 = [l |-> l, n |-> n, left |-> len]
  OBVIOUS
<1>4. s0 \in S
  <2>1. s0.l = l /\ s0.n = n /\ s0 \in [l : UsList, n : Nat, left : 0 .. len]
    BY <1>2, <1>3
  <2>. QED
    BY <1>2, <1>3, <2>1, Zenon DEF Writing
<1>5. \A s \in S : WriteRound(s) \in S
  BY <1>2, <1>3, RoundWrites
<1>6. PICK step : step = [p \in S \X (1 .. len) |-> WriteRound(p[1])]
  OBVIOUS
<1>7. StepOf(step, S, len)
  BY <1>5, <1>6 DEF StepOf
<1>8. PICK g : CourseOf(g, s0, step, S, len)
  BY <1>4, <1>7, Iterated, Zenon
<1>9. ASSUME NEW i \in 1 .. len PROVE g[i] = WriteRound(g[i - 1])
  <2>1. i - 1 \in 0 .. len
    OBVIOUS
  <2>2. PICK x \in S : x = g[i - 1]
    BY <1>8, <2>1 DEF CourseOf
  <2>3. PICK p : p = <<x, i>>
    OBVIOUS
  <2>4. p \in S \X (1 .. len) /\ p[1] = x /\ p[2] = i
    BY <2>3
  <2>5. step[p] = WriteRound(p[1])
    BY <1>6, <2>4
  <2>. QED
    BY <1>8, <2>2, <2>3, <2>4, <2>5 DEF CourseOf
<1>10. g = [i \in 0 .. len |-> IF i = 0 THEN [l |-> l, n |-> n, left |-> len] ELSE WriteRound(g[i - 1])]
  <2>1. \A i \in 0 .. len : g[i] = IF i = 0 THEN s0 ELSE WriteRound(g[i - 1])
    <3>1. \A i \in 0 .. len : i = 0 \/ i \in 1 .. len
      OBVIOUS
    <3>. QED
      BY <1>8, <1>9, <3>1 DEF CourseOf
  <2>2. g = [i \in 0 .. len |-> g[i]]
    BY <1>8 DEF CourseOf
  <2>. QED
    BY <1>3, <2>1, <2>2, Zenon
<1>. DEFINE F == CHOOSE f : f = [i \in 0 .. len |-> IF i = 0 THEN [l |-> l, n |-> n, left |-> len] ELSE WriteRound(f[i - 1])]
<1>11. F = [i \in 0 .. len |-> IF i = 0 THEN [l |-> l, n |-> n, left |-> len] ELSE WriteRound(F[i - 1])]
  BY <1>10, Zenon
<1>12. b = F[len]
  BY <1>1, Zenon DEF BufferedIs, ustream_write_buffered
<1>. HIDE DEF F
<1>13. F[0] = s0
  BY <1>3, <1>11
<1>14. PICK P : P = {i \in 0 .. len : F[i] \in S}
  OBVIOUS
<1>15. 0 \in P
  BY <1>4, <1>13, <1>14
<1>16. ASSUME NEW i \in 1 .. len, i - 1 \in P PROVE i \in P
  <2>1. PICK s \in S : s = F[i - 1]
    BY <1>14, <1>16
  <2>2. F[i] = WriteRound(s)
    BY <1>11, <2>1
  <2>. QED
    BY <1>5, <1>14, <2>2
<1>17. len \in P
  BY <1>15, <1>16, StepByStep
<1>18. b \in S
  BY <1>12, <1>14, <1>17
<1>19. b.n \in Nat /\ n <= b.n /\ b.n - a \in Nat /\ UsHolds(b.l, a, b.n - a)
  BY <1>3, <1>18 DEF Writing
<1>20. len = 0 => b = s0
  BY <1>12, <1>13
<1>. QED
  BY <1>1, <1>3, <1>19, <1>20

\* A list that holds nothing holds nothing from any number on.
LEMMA NothingHeld ==
  ASSUME NEW l, NEW a, UsHolds(l, a, 0), NEW b \in Nat
  PROVE  UsHolds(l, b, 0)
<1>1. PICK at : HeldBy(l.bufs, Len(l.bufs), l.dataTail, a, 0, at)
  BY HeldOpened
<1>2. l \in UsList /\ l.bytes = 0
  BY HeldOpened
<1>3. PICK q, N, d : q = l.bufs /\ N = Len(l.bufs) /\ d = l.dataTail
  OBVIOUS
<1>4. HeldBy(q, N, d, a, 0, at)
  BY <1>1, <1>3
<1>5. /\ q \in Seq(UsBuf) /\ N = Len(q) /\ N \in Nat /\ d \in 0 .. N /\ (d = 0 <=> N = 0)
      /\ a \in Nat /\ at \in [1 .. N + 1 -> Nat] /\ at[1] = a
      /\ \A i \in 1 .. N : at[i] <= at[i + 1]
  BY <1>4 DEF HeldBy
<1>6. \A i \in 1 .. N + 1 : at[i] \in Nat /\ at[i] <= a
  <2>1. a + 0 = a
    BY <1>5
  <2>. QED
    BY <1>4, <2>1, HeldWithin
<1>7. PICK P : P = {j \in 0 .. N : at[j + 1] = a}
  OBVIOUS
<1>8. 0 \in P
  BY <1>5, <1>7
<1>9. ASSUME NEW j \in 1 .. N, j - 1 \in P PROVE j \in P
  <2>1. at[j] = a /\ j + 1 \in 1 .. N + 1
    BY <1>5, <1>7, <1>9
  <2>2. PICK u \in Nat : u = at[j + 1] /\ u <= a
    BY <1>6, <2>1
  <2>3. a <= u
    BY <1>5, <2>1, <2>2
  <2>4. at[j + 1] = a
    BY <1>5, <2>2, <2>3
  <2>. QED
    BY <1>7, <2>4
<1>10. \A j \in 0 .. N : j \in P
  BY <1>5, <1>8, <1>9, StepByStep
<1>11. \A i \in 1 .. N : at[i] = a /\ at[i + 1] = a
  <2>. TAKE i \in 1 .. N
  <2>1. i \in 0 .. N /\ i - 1 \in 0 .. N /\ i - 1 + 1 = i
    BY <1>5
  <2>. QED
    BY <1>7, <1>10, <2>1
<1>12. PICK bt : bt = [i \in 1 .. N + 1 |-> b]
  OBVIOUS
<1>13. bt \in [1 .. N + 1 -> Nat] /\ \A i \in 1 .. N + 1 : bt[i] = b
  BY <1>12
<1>14. ASSUME NEW i \in 1 .. N
       PROVE  bt[i] <= bt[i + 1] /\ q[i].data = Bytes(bt[i], bt[i + 1] - bt[i])
  <2>1. bt[i] = b /\ bt[i + 1] = b /\ at[i] = a /\ at[i + 1] = a
    BY <1>5, <1>11, <1>13
  <2>2. q[i].data = Bytes(at[i], at[i + 1] - at[i])
    BY <1>4 DEF HeldBy
  <2>3. a - a = 0 /\ b - b = 0 /\ b <= b
    BY <1>5
  <2>4. Bytes(a, 0) = <<>> /\ Bytes(b, 0) = <<>>
    BY <1>5, BytesListed
  <2>. QED
    BY <2>1, <2>2, <2>3, <2>4
<1>15. \A i \in 1 .. N :
         /\ i > d => q[i] = EmptyBuf
         /\ i < d => q[i].data # <<>>
         /\ q[i].data = <<>> => q[i].off = 0
  BY <1>4 DEF HeldBy
<1>16. HeldBy(q, N, d, b, 0, bt)
  <2>1. 1 \in 1 .. N + 1 /\ N + 1 \in 1 .. N + 1 /\ b + 0 = b
    BY <1>5
  <2>2. bt[1] = b /\ bt[N + 1] = b + 0
    BY <1>13, <2>1
  <2>. QED
    BY <1>5, <1>13, <1>14, <1>15, <2>2 DEF HeldBy
<1>. QED
  BY <1>2, <1>3, <1>16, HeldMade

-----------------------------------------------------------------------------
(* The ustream. *)

UsWaiting == wlist.bytes > 0 /\ ~writeError
UsReadable == inPipe # <<>> \/ farEnd # "open"
UsWritable == Len(outPipe) < PipeRoom \/ farEnd = "gone"

UsFlags ==
  sEof \in BOOLEAN /\ writeError \in BOOLEAN /\ stateChange \in BOOLEAN /\ edge \in BOOLEAN /\ fdError \in BOOLEAN

\* What arrived is consumed, in the buffers or still to be read.
UsReads ==
  /\ UsHolds(rlist, consumedBytes, rlist.bytes)
  /\ Len(inPipe) \in Nat /\ inPipe = Bytes(consumedBytes + rlist.bytes, Len(inPipe))
  /\ arrivedBytes = consumedBytes + rlist.bytes + Len(inPipe)

\* What was accepted is sent or in the buffers, until an error.
UsWrites ==
  /\ ~writeError => UsHolds(wlist, sentBytes, wlist.bytes) /\ accepted = sentBytes + wlist.bytes
  /\ \A i \in DOMAIN wlist.bufs :
       (i > wlist.dataTail => wlist.bufs[i] = EmptyBuf) /\ (i < wlist.dataTail => wlist.bufs[i].data # <<>>)

UsOut == outPipe \in Seq(Nat) /\ Len(outPipe) <= PipeRoom

\* The flags of the descriptor follow the stream.
UsArmed ==
  /\ "READ" \in armed <=> blocked = {} /\ ~sEof
  /\ UsWaiting => "WRITE" \in armed

\* What can be read has an edge to come, except while it is being read.
UsReadEdge == upc \in {"idle", "write", "error"} /\ "READ" \in armed /\ UsReadable => edge

\* What can be written has one, except while it is about to be written.
UsWriteEdge ==
  UsWaiting /\ UsWritable => edge \/ (upc \in {"read", "notify", "write"} /\ "WRITE" \in pollEvents)

\* The end of the input was told, or is about to be.
UsTold == sEof /\ ~writeError /\ ~stateChange => toldWith # -1 /\ (wlist.bytes = 0 => toldWith = 0)

UsInv ==
  UsFlags /\ UsReads /\ UsWrites /\ UsOut /\ UsArmed /\ UsReadEdge /\ UsWriteEdge /\ UsTold

\* The flags ustream_fd_set_uloop sets, and the edge it causes.
LEMMA UloopSet ==
  ASSUME NEW bl, NEW eof \in BOOLEAN, NEW w, NEW err \in BOOLEAN, NEW write \in BOOLEAN, NEW in, NEW out,
         fdError \in BOOLEAN, ustream_fd_set_uloop(bl, eof, w, err, write, in, out)
  PROVE  /\ "READ" \in armed' <=> bl = {} /\ ~eof
         /\ "WRITE" \in armed' <=> write \/ (w.bufs # <<>> /\ w.bytes > 0 /\ ~err)
         /\ edge' \in BOOLEAN /\ fdError' \in BOOLEAN
         /\ "READ" \in armed' /\ (in # <<>> \/ farEnd # "open") => edge'
         /\ "WRITE" \in armed' /\ (Len(out) < PipeRoom \/ farEnd = "gone") => edge'
<1>1. /\ armed' = ustream_fd_flags(bl, eof, w, err, write)
      /\ edge' = (armed' \intersect Ready(in, out) # {})
      /\ fdError' = (fdError /\ armed' = {})
  BY DEF ustream_fd_set_uloop
<1>2. /\ "READ" \in armed' <=> bl = {} /\ ~eof
      /\ "WRITE" \in armed' <=> write \/ (w.bufs # <<>> /\ w.bytes > 0 /\ ~err)
  BY <1>1, Zenon DEF ustream_fd_flags
<1>3. /\ "READ" \in Ready(in, out) <=> in # <<>> \/ farEnd # "open"
      /\ "WRITE" \in Ready(in, out) <=> Len(out) < PipeRoom \/ farEnd = "gone"
  BY Zenon DEF Ready
<1>4. edge' \in BOOLEAN /\ fdError' \in BOOLEAN
  BY <1>1
<1>5. \A x : x \in armed' /\ x \in Ready(in, out) => edge'
  BY <1>1
<1>. QED
  BY <1>2, <1>3, <1>4, <1>5

\* What waits to be written is in buffers.
LEMMA WaitingHeld ==
  ASSUME UsWrites, UsWaiting
  PROVE  wlist.bytes \in Nat /\ wlist.bytes # 0 /\ wlist.bufs # <<>>
<1>1. UsHolds(wlist, sentBytes, wlist.bytes)
  BY DEF UsWrites, UsWaiting
<1>2. wlist.bytes \in Nat
  BY <1>1 DEF UsHolds
<1>3. wlist.bytes # 0
  BY <1>2 DEF UsWaiting
<1>. QED
  BY <1>1, <1>2, <1>3, HeldSomewhere

\* What a step leaves alone stays as it is.
LEMMA UsKept ==
  ASSUME UsInv
  PROVE  /\ UNCHANGED <<rlist, inPipe, consumedBytes, arrivedBytes>> => UsReads'
         /\ UNCHANGED <<wlist, writeError, sentBytes, accepted>> => UsWrites'
         /\ UNCHANGED outPipe => UsOut'
         /\ UNCHANGED <<armed, blocked, sEof, wlist, writeError>> => UsArmed'
         /\ UNCHANGED <<upc, armed, inPipe, farEnd, edge>> => UsReadEdge'
         /\ UNCHANGED <<wlist, writeError, outPipe, farEnd, edge, upc, pollEvents>> => UsWriteEdge'
         /\ UNCHANGED <<sEof, writeError, stateChange, toldWith, wlist>> => UsTold'
<1>1. UNCHANGED <<rlist, inPipe, consumedBytes, arrivedBytes>> => UsReads'
  BY DEF UsInv, UsReads
<1>2. UNCHANGED <<wlist, writeError, sentBytes, accepted>> => UsWrites'
  BY DEF UsInv, UsWrites
<1>3. UNCHANGED outPipe => UsOut'
  BY DEF UsInv, UsOut
<1>4. UNCHANGED <<armed, blocked, sEof, wlist, writeError>> => UsArmed'
  BY DEF UsInv, UsArmed, UsWaiting
<1>5. UNCHANGED <<upc, armed, inPipe, farEnd, edge>> => UsReadEdge'
  BY DEF UsInv, UsReadEdge, UsReadable
<1>6. UNCHANGED <<wlist, writeError, outPipe, farEnd, edge, upc, pollEvents>> => UsWriteEdge'
  BY DEF UsInv, UsWriteEdge, UsWaiting, UsWritable
<1>7. UNCHANGED <<sEof, writeError, stateChange, toldWith, wlist>> => UsTold'
  BY DEF UsInv, UsTold
<1>. QED
  BY <1>1, <1>2, <1>3, <1>4, <1>5, <1>6, <1>7, Zenon

\* __ustream_set_read_blocked, and what it leaves of the descriptor.
LEMMA BlockedSet ==
  ASSUME UsInv, NEW val, SetBlocked(val),
         UNCHANGED <<wlist, sEof, writeError, inPipe, outPipe, farEnd, pollEvents, stateChange>>,
         upc' = upc \/ (upc = "read" /\ upc' = "write" /\ val # {})
  PROVE  UsFlags' /\ UsArmed' /\ UsReadEdge' /\ UsWriteEdge'
<1>1. blocked' = val
  BY DEF SetBlocked
<1>2. CASE (blocked = {}) = (val = {})
  <2>1. UNCHANGED <<armed, edge, fdError>>
    BY <1>2 DEF SetBlocked
  <2>2. UsFlags'
    BY <2>1 DEF UsInv, UsFlags
  <2>3. UsArmed'
    BY <1>1, <1>2, <2>1 DEF UsInv, UsArmed, UsWaiting
  <2>4. UsReadEdge'
    BY <1>1, <2>1, <2>3 DEF UsInv, UsReadEdge, UsReadable, UsArmed
  <2>5. UsWriteEdge'
    BY <2>1 DEF UsInv, UsWriteEdge, UsWaiting, UsWritable
  <2>. QED
    BY <2>2, <2>3, <2>4, <2>5
<1>3. CASE (blocked = {}) # (val = {})
  <2>1. ustream_fd_set_uloop(val, sEof, wlist, writeError, FALSE, inPipe, outPipe)
    BY <1>3 DEF SetBlocked
  <2>2. sEof \in BOOLEAN /\ writeError \in BOOLEAN /\ FALSE \in BOOLEAN /\ fdError \in BOOLEAN
    BY DEF UsInv, UsFlags
  <2>3. /\ "READ" \in armed' <=> val = {} /\ ~sEof
        /\ "WRITE" \in armed' <=> wlist.bufs # <<>> /\ wlist.bytes > 0 /\ ~writeError
        /\ edge' \in BOOLEAN /\ fdError' \in BOOLEAN
        /\ "READ" \in armed' /\ (inPipe # <<>> \/ farEnd # "open") => edge'
        /\ "WRITE" \in armed' /\ (Len(outPipe) < PipeRoom \/ farEnd = "gone") => edge'
    <3>1. PICK no \in BOOLEAN : no = FALSE
      OBVIOUS
    <3>2. ustream_fd_set_uloop(val, sEof, wlist, writeError, no, inPipe, outPipe)
      BY <2>1, <3>1, Zenon
    <3>3. /\ "READ" \in armed' <=> val = {} /\ ~sEof
          /\ "WRITE" \in armed' <=> no \/ (wlist.bufs # <<>> /\ wlist.bytes > 0 /\ ~writeError)
          /\ edge' \in BOOLEAN /\ fdError' \in BOOLEAN
          /\ "READ" \in armed' /\ (inPipe # <<>> \/ farEnd # "open") => edge'
          /\ "WRITE" \in armed' /\ (Len(outPipe) < PipeRoom \/ farEnd = "gone") => edge'
      BY <2>2, <3>2, UloopSet
    <3>. QED
      BY <3>1, <3>3, Zenon
  <2>4. UsWaiting => "WRITE" \in armed'
    BY <2>3, WaitingHeld DEF UsInv, UsWaiting
  <2>5. UsFlags'
    BY <2>3 DEF UsInv, UsFlags
  <2>6. UsArmed'
    BY <1>1, <2>3, <2>4 DEF UsArmed, UsWaiting
  <2>7. UsReadEdge'
    BY <2>3 DEF UsReadEdge, UsReadable
  <2>8. UsWriteEdge'
    BY <2>3, <2>4 DEF UsWriteEdge, UsWaiting, UsWritable
  <2>. QED
    BY <2>5, <2>6, <2>7, <2>8
<1>. QED
  BY <1>2, <1>3

\* It holds at first.
LEMMA UsStarts == UstreamInit => UsInv
<1>. SUFFICES ASSUME UstreamInit PROVE UsInv
  OBVIOUS
<1>1. UsFlags
  BY DEF UstreamInit, UsFlags
<1>2. UsHolds(NoBufs, 0, 0)
  <2>1. NoBufs \in UsList /\ NoBufs.bufs = <<>> /\ NoBufs.dataTail = 0 /\ NoBufs.bytes = 0 /\ Len(NoBufs.bufs) = 0
    BY DEF NoBufs, UsList
  <2>2. PICK at : at = [i \in 1 .. 1 |-> 0]
    OBVIOUS
  <2>3. at \in [1 .. 0 + 1 -> Nat] /\ at[1] = 0 /\ at[0 + 1] = 0 + 0 /\ <<>> \in Seq(UsBuf) /\ Len(<<>>) = 0 /\ 0 \in 0 .. 0
    BY <2>2
  <2>4. \A i \in 1 .. 0 : FALSE
    OBVIOUS
  <2>5. HeldBy(<<>>, 0, 0, 0, 0, at)
    BY <2>3, <2>4 DEF HeldBy
  <2>. QED
    BY <2>1, <2>5, HeldMade
<1>3. NoBufs.bytes = 0 /\ NoBufs.bufs = <<>> /\ DOMAIN NoBufs.bufs = {}
  <2>1. NoBufs.bytes = 0 /\ NoBufs.bufs = <<>>
    BY DEF NoBufs
  <2>. QED
    BY <2>1
<1>4. UsReads
  <2>1. rlist = NoBufs /\ consumedBytes = 0 /\ inPipe = <<>> /\ arrivedBytes = 0
    BY DEF UstreamInit
  <2>2. Len(inPipe) = 0 /\ Bytes(0, 0) = <<>> /\ 0 + 0 = 0
    BY <2>1, BytesListed
  <2>. QED
    BY <1>2, <1>3, <2>1, <2>2 DEF UsReads
<1>5. UsWrites
  <2>1. wlist = NoBufs /\ sentBytes = 0 /\ accepted = 0
    BY DEF UstreamInit
  <2>. QED
    BY <1>2, <1>3, <2>1 DEF UsWrites
<1>6. UsOut
  <2>1. outPipe = <<>> /\ PipeRoom \in Nat
    BY UstreamAssumption DEF UstreamInit
  <2>. QED
    BY <2>1 DEF UsOut
<1>7. ~UsWaiting
  BY <1>3 DEF UstreamInit, UsWaiting
<1>8. UsArmed /\ UsReadEdge /\ UsWriteEdge /\ UsTold
  <2>1. armed = {"READ"} /\ blocked = {} /\ sEof = FALSE /\ inPipe = <<>> /\ farEnd = "open"
    BY DEF UstreamInit
  <2>2. UsArmed
    BY <1>7, <2>1 DEF UsArmed
  <2>3. UsReadEdge
    BY <2>1 DEF UsReadEdge, UsReadable
  <2>4. UsWriteEdge
    BY <1>7 DEF UsWriteEdge
  <2>5. UsTold
    BY <2>1 DEF UsTold
  <2>. QED
    BY <2>2, <2>3, <2>4, <2>5
<1>. QED
  BY <1>1, <1>4, <1>5, <1>6, <1>8 DEF UsInv

\* How much the descriptor takes.
LEMMA TakesKnown ==
  ASSUME UsOut, NEW len \in Nat, NEW n, n = Takes(len)
  PROVE  n \in Nat /\ n <= len /\ n <= PipeRoom - Len(outPipe) /\ PipeRoom - Len(outPipe) \in Nat
<1>1. PipeRoom \in Nat /\ Len(outPipe) \in Nat /\ Len(outPipe) <= PipeRoom
  BY UstreamAssumption, LenProperties DEF UsOut
<1>2. PICK room \in Nat : room = PipeRoom - Len(outPipe)
  BY <1>1
<1>3. n = Min({len, room})
  BY <1>2, Zenon DEF Takes
<1>4. n \in Nat /\ n <= len /\ n <= room
  BY <1>3, LesserOf
<1>. QED
  BY <1>2, <1>4

\* Bytes put behind those in the descriptor.
LEMMA OutPut ==
  ASSUME UsOut, NEW n \in Nat, n <= PipeRoom - Len(outPipe), NEW s \in Seq(Nat), Len(s) = n
  PROVE  outPipe \o s \in Seq(Nat) /\ Len(outPipe \o s) <= PipeRoom /\ (n = 0 => outPipe \o s = outPipe)
<1>1. PipeRoom \in Nat /\ outPipe \in Seq(Nat) /\ Len(outPipe) \in Nat
  BY UstreamAssumption, LenProperties DEF UsOut
<1>2. outPipe \o s \in Seq(Nat) /\ Len(outPipe \o s) = Len(outPipe) + Len(s)
  BY <1>1, ConcatProperties
<1>3. Len(outPipe \o s) <= PipeRoom
  BY <1>1, <1>2
<1>4. ASSUME n = 0 PROVE outPipe \o s = outPipe
  <2>1. s = <<>>
    BY <1>4, EmptySeq
  <2>. QED
    BY <1>1, <2>1, ConcatEmptySeq
<1>. QED
  BY <1>2, <1>3, <1>4

\* ustream_write.
LEMMA UsWriteStep ==
  ASSUME UsInv, NEW len \in WriteSizes, ustream_write(len)
  PROVE  UsInv'
<1>1. len \in Nat /\ writeError = FALSE /\ UsFlags
  BY UstreamAssumption DEF ustream_write, UsInv, UsFlags
<1>2. UNCHANGED <<rlist, blocked, sEof, upc, pollEvents, inPipe, farEnd, arrivedBytes, consumedBytes, toldWith>>
  BY DEF ustream_write
<1>3. UsReads'
  BY <1>2, UsKept
<1>4. CASE wlist.bytes = 0 /\ farEnd = "gone"
  <2>1. /\ writeError' = TRUE /\ stateChange' = TRUE
        /\ UNCHANGED <<wlist, armed, edge, fdError, outPipe, accepted, sentBytes>>
    BY <1>4 DEF ustream_write
  <2>2. UsFlags'
    BY <1>1, <1>2, <2>1 DEF UsFlags
  <2>3. UsWrites'
    BY <2>1 DEF UsInv, UsWrites
  <2>4. UsOut' /\ UsReadEdge'
    BY <1>2, <2>1, UsKept
  <2>5. ~UsWaiting'
    BY <2>1 DEF UsWaiting
  <2>6. UsArmed' /\ UsWriteEdge' /\ UsTold'
    BY <1>2, <2>1, <2>5 DEF UsInv, UsArmed, UsWriteEdge, UsTold
  <2>. QED
    BY <1>3, <2>2, <2>3, <2>4, <2>6 DEF UsInv
<1>5. CASE ~(wlist.bytes = 0 /\ farEnd = "gone")
  <2>1. PICK direct, b, out :
          /\ direct = IF wlist.bytes = 0 THEN Takes(len) ELSE 0
          /\ b = ustream_write_buffered(wlist, accepted + direct, len - direct)
          /\ out = outPipe \o Bytes(accepted, direct)
    OBVIOUS
  <2>2. /\ outPipe' = out /\ sentBytes' = sentBytes + direct
        /\ wlist' = b.l /\ accepted' = b.n
        /\ IF wlist.bytes = 0 /\ direct < len
           THEN ustream_fd_set_uloop(blocked, sEof, wlist, writeError, TRUE, inPipe, out)
           ELSE UNCHANGED <<armed, edge, fdError>>
        /\ UNCHANGED <<writeError, stateChange>>
    BY <1>5, <2>1, Zenon DEF ustream_write
  <2>3. PICK h \in Nat : h = wlist.bytes /\ UsHolds(wlist, sentBytes, h) /\ accepted = sentBytes + h /\ sentBytes \in Nat
    BY <1>1 DEF UsInv, UsWrites, UsHolds
  <2>4. direct \in Nat /\ direct <= len /\ direct <= PipeRoom - Len(outPipe) /\ (h # 0 => direct = 0)
    <3>1. Takes(len) \in Nat /\ Takes(len) <= len /\ Takes(len) <= PipeRoom - Len(outPipe) /\ PipeRoom - Len(outPipe) \in Nat
      BY <1>1, TakesKnown DEF UsInv
    <3>2. CASE wlist.bytes = 0
      BY <2>1, <2>3, <3>1, <3>2
    <3>3. CASE wlist.bytes # 0
      <4>1. direct = 0
        BY <2>1, <3>3
      <4>. QED
        BY <1>1, <3>1, <4>1
    <3>. QED
      BY <3>2, <3>3
  <2>5. PICK a \in Nat, n \in Nat, rest \in Nat : a = sentBytes + direct /\ n = accepted + direct /\ rest = len - direct /\ n = a + h
    <3>1. sentBytes + direct \in Nat /\ accepted + direct \in Nat /\ len - direct \in Nat /\ accepted + direct = (sentBytes + direct) + h
      BY <1>1, <2>3, <2>4
    <3>. QED
      BY <3>1
  <2>6. UsHolds(wlist, a, h)
    <3>1. CASE h = 0
      BY <2>3, <3>1, NothingHeld
    <3>2. CASE h # 0
      BY <2>3, <2>4, <2>5, <3>2
    <3>. QED
      BY <3>1, <3>2
  <2>7. BufferedIs(b, wlist, a + h, rest)
    BY <2>1, <2>5, Zenon DEF BufferedIs
  <2>8. /\ b.n \in Nat /\ n <= b.n /\ b.n - a \in Nat /\ UsHolds(b.l, a, b.n - a)
        /\ rest = 0 => b.l = wlist /\ b.n = n
    <3>1. /\ b.n \in Nat /\ a + h <= b.n /\ b.n - a \in Nat /\ UsHolds(b.l, a, b.n - a)
          /\ rest = 0 => b.l = wlist /\ b.n = a + h
      BY <2>6, <2>7, WrittenHeld
    <3>. QED
      BY <2>5, <3>1, Zenon
  <2>9. PICK h1 \in Nat : h1 = b.n - a /\ b.n = a + h1 /\ h <= h1 /\ (rest = 0 => h1 = h)
    <3>1. PICK m \in Nat : m = b.n /\ n <= m /\ m - a \in Nat /\ (rest = 0 => m = n)
      BY <2>8
    <3>2. m = a + (m - a) /\ h <= m - a /\ (rest = 0 => m - a = h)
      BY <2>5, <3>1
    <3>. QED
      BY <3>1, <3>2
  <2>10. UsHolds(wlist', sentBytes', h1) /\ accepted' = sentBytes' + h1 /\ wlist'.bytes = h1
    <3>1. UsHolds(wlist', sentBytes', h1)
      BY <2>2, <2>5, <2>8, <2>9
    <3>. QED
      BY <2>2, <2>5, <2>9, <3>1 DEF UsHolds
  <2>11. UsWrites'
    <3>1. \A i \in DOMAIN (wlist'.bufs) :
            (i > wlist'.dataTail => wlist'.bufs[i] = EmptyBuf) /\ (i < wlist'.dataTail => wlist'.bufs[i].data # <<>>)
      BY <2>10, UsFields DEF UsHolds, UsShape
    <3>. QED
      BY <2>10, <3>1 DEF UsWrites
  <2>12. UsOut' /\ (direct = 0 => outPipe' = outPipe)
    <3>1. accepted \in Nat
      BY <2>3
    <3>2. PICK s \in Seq(Nat) : s = Bytes(accepted, direct) /\ Len(s) = direct
      BY <2>4, <3>1, BytesListed
    <3>3. out = outPipe \o s
      BY <2>1, <3>2
    <3>4. out \in Seq(Nat) /\ Len(out) <= PipeRoom /\ (direct = 0 => out = outPipe)
      <4>1. UsOut
        BY DEF UsInv
      <4>. QED
        BY <2>4, <3>2, <3>3, <4>1, OutPut
    <3>. QED
      BY <2>2, <3>4 DEF UsOut
  <2>13. CASE h = 0 /\ direct < len
    <3>1. ustream_fd_set_uloop(blocked, sEof, wlist, writeError, TRUE, inPipe, out)
      BY <2>2, <2>3, <2>13
    <3>2. sEof \in BOOLEAN /\ writeError \in BOOLEAN /\ TRUE \in BOOLEAN /\ fdError \in BOOLEAN
      BY <1>1 DEF UsFlags
    <3>3. /\ "READ" \in armed' <=> blocked = {} /\ ~sEof
          /\ "WRITE" \in armed'
          /\ edge' \in BOOLEAN /\ fdError' \in BOOLEAN
          /\ "READ" \in armed' /\ (inPipe # <<>> \/ farEnd # "open") => edge'
          /\ "WRITE" \in armed' /\ (Len(out) < PipeRoom \/ farEnd = "gone") => edge'
      <4>1. PICK yes \in BOOLEAN : yes = TRUE
        OBVIOUS
      <4>2. ustream_fd_set_uloop(blocked, sEof, wlist, writeError, yes, inPipe, out)
        BY <3>1, <4>1, Zenon
      <4>3. /\ "READ" \in armed' <=> blocked = {} /\ ~sEof
            /\ "WRITE" \in armed' <=> yes \/ (wlist.bufs # <<>> /\ wlist.bytes > 0 /\ ~writeError)
            /\ edge' \in BOOLEAN /\ fdError' \in BOOLEAN
            /\ "READ" \in armed' /\ (inPipe # <<>> \/ farEnd # "open") => edge'
            /\ "WRITE" \in armed' /\ (Len(out) < PipeRoom \/ farEnd = "gone") => edge'
        BY <3>2, <4>2, UloopSet
      <4>. QED
        BY <4>1, <4>3, Zenon
    <3>4. UsFlags'
      BY <1>1, <1>2, <2>2, <3>3 DEF UsFlags
    <3>5. UsArmed'
      BY <1>2, <3>3 DEF UsArmed
    <3>6. UsReadEdge'
      BY <1>2, <3>3 DEF UsReadEdge, UsReadable
    <3>7. UsWriteEdge'
      BY <1>2, <2>2, <3>3 DEF UsWriteEdge, UsWritable
    <3>8. UsTold'
      BY <1>2, <2>2, <2>3, <2>13 DEF UsInv, UsTold
    <3>. QED
      BY <1>3, <2>11, <2>12, <3>4, <3>5, <3>6, <3>7, <3>8 DEF UsInv
  <2>14. CASE ~(h = 0 /\ direct < len)
    <3>1. UNCHANGED <<armed, edge, fdError, writeError, stateChange>>
      BY <2>2, <2>3, <2>14
    <3>2. UsFlags'
      BY <1>1, <1>2, <3>1 DEF UsFlags
    <3>3. UsWaiting' => UsWaiting /\ direct = 0
      <4>1. CASE h = 0
        <5>1. rest = 0
          BY <1>1, <2>4, <2>5, <2>14, <4>1
        <5>2. wlist'.bytes = 0
          BY <2>9, <2>10, <4>1, <5>1
        <5>. QED
          BY <5>2 DEF UsWaiting
      <4>2. CASE h # 0
        BY <1>1, <2>3, <2>4, <4>2 DEF UsWaiting
      <4>. QED
        BY <4>1, <4>2
    <3>4. UsArmed'
      BY <1>2, <3>1, <3>3 DEF UsInv, UsArmed
    <3>5. UsReadEdge'
      BY <1>2, <3>1, UsKept
    <3>6. UsWriteEdge'
      BY <1>2, <2>12, <3>1, <3>3 DEF UsInv, UsWriteEdge, UsWritable
    <3>7. wlist'.bytes = 0 => wlist.bytes = 0
      BY <2>3, <2>9, <2>10, SMTT(20)
    <3>8. UsTold'
      BY <1>2, <3>1, <3>7 DEF UsInv, UsTold
    <3>. QED
      BY <1>3, <2>11, <2>12, <3>2, <3>4, <3>5, <3>6, <3>8 DEF UsInv
  <2>. QED
    BY <2>13, <2>14
<1>. QED
  BY <1>4, <1>5

\* Only the buffers up to data_tail of a list that holds something have data.
LEMMA TailHeld ==
  ASSUME NEW l, NEW a, NEW n, UsHolds(l, a, n)
  PROVE  \A i \in DOMAIN l.bufs : (i > l.dataTail => l.bufs[i] = EmptyBuf) /\ (i < l.dataTail => l.bufs[i].data # <<>>)
  BY UsFields DEF UsHolds, UsShape

\* ustream_vprintf.
LEMMA UsPrintStep ==
  ASSUME UsInv, NEW len \in WriteSizes, ustream_vprintf(len)
  PROVE  UsInv'
<1>1. len \in Nat /\ writeError = FALSE /\ UsFlags /\ wlist.bytes > 0
  BY UstreamAssumption DEF ustream_vprintf, UsInv, UsFlags
<1>2. UNCHANGED <<rlist, blocked, sEof, writeError, stateChange, upc, pollEvents, armed, edge, fdError, inPipe,
                  outPipe, farEnd, sentBytes, arrivedBytes, consumedBytes, toldWith>>
  BY DEF ustream_vprintf
<1>3. PICK k \in UsLimits : k = Limits("w")
  BY LimitsKnown
<1>4. PICK p, room, first, f, b :
        /\ p = ustream_prepare_buf(wlist, k, 1)
        /\ room = RoomIn(p.l.bufs[p.l.dataTail], k)
        /\ first = IF len < room THEN len ELSE room - 1
        /\ f = Filled(p.l, Bytes(accepted, first))
        /\ b = ustream_write_buffered(f, accepted + first, len - first)
  OBVIOUS
<1>5. IF ~p.ok THEN wlist' = p.l /\ UNCHANGED accepted ELSE wlist' = b.l /\ accepted' = b.n
  BY <1>3, <1>4, Zenon DEF ustream_vprintf
<1>6. PICK h \in Nat, a \in Nat : /\ h = wlist.bytes /\ a = sentBytes /\ UsHolds(wlist, a, h)
                                  /\ accepted = a + h /\ h > 0
  BY <1>1 DEF UsInv, UsWrites, UsHolds
<1>7. /\ UsHolds(p.l, a, h)
      /\ p.ok => p.l.dataTail \in 1 .. Len(p.l.bufs) /\ room \in Nat \ {0}
  <2>1. /\ UsHolds(p.l, a, h)
        /\ p.ok => /\ p.l.dataTail \in 1 .. Len(p.l.bufs)
                   /\ RoomIn(p.l.bufs[p.l.dataTail], k) \in Nat \ {0}
    <3>1. p = ustream_prepare_buf(wlist, k, 1)
      BY <1>4
    <3>. QED
      BY <1>6, <3>1, PreparedHeld
  <2>. QED
    BY <1>4, <2>1, Zenon
<1>8. \E h1 \in Nat : UsHolds(wlist', a, h1) /\ accepted' = a + h1 /\ h1 > 0
  <2>1. CASE ~p.ok
    BY <1>5, <1>6, <1>7, <2>1
  <2>2. CASE p.ok
    <3>1. first \in Nat /\ len - first \in Nat
      <4>1. first = IF len < room THEN len ELSE room - 1
        BY <1>4
      <4>2. room \in Nat \ {0}
        BY <1>7, <2>2
      <4>. QED
        BY <1>1, <4>1, <4>2
    <3>2. PICK s : s = Bytes(a + h, first)
      OBVIOUS
    <3>3. f = Filled(p.l, s)
      BY <1>4, <1>6, <3>2, Zenon
    <3>4. UsHolds(f, a, h + first)
      <4>1. p.l.dataTail \in 1 .. Len(p.l.bufs)
        BY <1>7, <2>2
      <4>. QED
        BY <1>7, <3>1, <3>2, <3>3, <4>1, FilledHeld
    <3>5. PICK g \in Nat, rest \in Nat : g = h + first /\ rest = len - first /\ a + g = (a + h) + first
      <4>1. h + first \in Nat /\ a + (h + first) = (a + h) + first
        BY <3>1
      <4>. QED
        BY <3>1, <4>1
    <3>6. BufferedIs(b, f, a + g, rest)
      <4>1. b = ustream_write_buffered(f, accepted + first, len - first)
        BY <1>4
      <4>. QED
        BY <1>6, <3>5, <4>1, Zenon DEF BufferedIs
    <3>7. UsHolds(f, a, g)
      BY <3>4, <3>5
    <3>8. b.n \in Nat /\ a + g <= b.n /\ b.n - a \in Nat /\ UsHolds(b.l, a, b.n - a)
      BY <3>6, <3>7, WrittenHeld
    <3>9. PICK h1 \in Nat : h1 = b.n - a /\ b.n = a + h1 /\ h1 > 0
      <4>1. PICK m \in Nat : m = b.n /\ a + g <= m /\ m - a \in Nat
        BY <3>8
      <4>2. m = a + (m - a) /\ m - a > 0
        BY <1>6, <3>1, <3>5, <4>1
      <4>. QED
        BY <4>1, <4>2
    <3>10. wlist' = b.l /\ accepted' = b.n
      BY <1>5, <2>2
    <3>11. UsHolds(wlist', a, h1) /\ accepted' = a + h1
      BY <3>8, <3>9, <3>10, Zenon
    <3>. QED
      BY <3>9, <3>11
  <2>. QED
    BY <2>1, <2>2
<1>9. PICK h1 \in Nat : UsHolds(wlist', a, h1) /\ accepted' = a + h1 /\ h1 > 0
  BY <1>8
<1>10. wlist'.bytes = h1 /\ sentBytes' = a
  BY <1>2, <1>6, <1>9 DEF UsHolds
<1>11. UsWrites'
  BY <1>9, <1>10, TailHeld DEF UsWrites
<1>12. UsWaiting /\ UsWaiting'
  BY <1>1, <1>2, <1>9, <1>10 DEF UsWaiting
<1>13. UsReads' /\ UsOut' /\ UsReadEdge'
  BY <1>2, UsKept
<1>14. UsFlags'
  BY <1>1, <1>2 DEF UsFlags
<1>15. UsArmed'
  BY <1>2, <1>12 DEF UsInv, UsArmed
<1>16. UsWriteEdge'
  BY <1>2, <1>12 DEF UsInv, UsWriteEdge, UsWritable
<1>17. wlist'.bytes # 0
  BY <1>9, <1>10
<1>18. UsTold'
  BY <1>2, <1>17 DEF UsInv, UsTold
<1>. QED
  BY <1>11, <1>13, <1>14, <1>15, <1>16, <1>18 DEF UsInv

\* ustream_consume.
LEMMA UsConsumeStep ==
  ASSUME UsInv, NEW len, ustream_consume(len)
  PROVE  UsInv'
<1>1. /\ len \in 1 .. rlist.bytes
      /\ rlist' = Consumed(rlist, Limits("r"), len)
      /\ consumedBytes' = consumedBytes + len
      /\ SetBlocked(blocked \ {"FULL"})
      /\ UNCHANGED <<wlist, sEof, writeError, stateChange, upc, pollEvents, inPipe, outPipe, farEnd,
                     accepted, sentBytes, arrivedBytes, toldWith>>
  BY DEF ustream_consume
<1>2. PICK n \in Nat, a \in Nat : /\ n = rlist.bytes /\ a = consumedBytes /\ UsHolds(rlist, a, n) /\ len \in 0 .. n
                                  /\ inPipe = Bytes(a + n, Len(inPipe)) /\ arrivedBytes = a + n + Len(inPipe) /\ Len(inPipe) \in Nat
  BY <1>1 DEF UsInv, UsReads, UsHolds
<1>3. PICK k \in UsLimits : k = Limits("r")
  BY LimitsKnown
<1>4. rlist' = Consumed(rlist, k, len)
  BY <1>1, <1>3
<1>5. UsHolds(rlist', a + len, n - len)
  BY <1>2, <1>4, ConsumedHeld
<1>6. rlist'.bytes = n - len /\ (a + len) + (n - len) = a + n /\ consumedBytes' = a + len
  BY <1>1, <1>2, <1>5 DEF UsHolds
<1>7. UsReads'
  <2>1. UsHolds(rlist', consumedBytes', rlist'.bytes)
    BY <1>5, <1>6
  <2>2. consumedBytes' + rlist'.bytes = a + n
    BY <1>6
  <2>. QED
    BY <1>1, <1>2, <2>1, <2>2 DEF UsReads
<1>8. UsFlags' /\ UsArmed' /\ UsReadEdge' /\ UsWriteEdge'
  BY <1>1, BlockedSet
<1>9. UsWrites' /\ UsOut' /\ UsTold'
  BY <1>1, UsKept
<1>. QED
  BY <1>7, <1>8, <1>9 DEF UsInv

\* ustream_set_read_blocked.
LEMMA UsBlockStep ==
  ASSUME UsInv, NEW set, ustream_set_read_blocked(set)
  PROVE  UsInv'
<1>1. PICK val : val = IF set THEN blocked \union {"USER"} ELSE blocked \ {"USER"}
  OBVIOUS
<1>2. /\ SetBlocked(val)
      /\ UNCHANGED <<rlist, wlist, sEof, writeError, stateChange, upc, pollEvents, inPipe, outPipe,
                     farEnd, accepted, sentBytes, arrivedBytes, consumedBytes, toldWith>>
  BY <1>1, Zenon DEF ustream_set_read_blocked
<1>3. UsFlags' /\ UsArmed' /\ UsReadEdge' /\ UsWriteEdge'
  BY <1>2, BlockedSet
<1>4. UsReads' /\ UsWrites' /\ UsOut' /\ UsTold'
  BY <1>2, UsKept
<1>. QED
  BY <1>3, <1>4 DEF UsInv

\* ustream_state_change_cb.
LEMMA UsStateStep ==
  ASSUME UsInv, ustream_state_change_cb
  PROVE  UsInv'
<1>1. /\ stateChange' = FALSE
      /\ wlist' = IF writeError THEN [wlist EXCEPT !.bufs = <<>>, !.dataTail = 0] ELSE wlist
      /\ toldWith' = IF sEof THEN wlist.bytes ELSE toldWith
      /\ UNCHANGED <<rlist, blocked, sEof, writeError, upc, pollEvents, armed, edge, fdError, inPipe, outPipe,
                     farEnd, accepted, sentBytes, arrivedBytes, consumedBytes>>
  BY DEF ustream_state_change_cb
<1>2. UsReads' /\ UsOut' /\ UsReadEdge'
  BY <1>1, UsKept
<1>3. UsFlags'
  BY <1>1 DEF UsInv, UsFlags
<1>4. CASE writeError
  <2>1. ~UsWaiting'
    BY <1>1, <1>4 DEF UsWaiting
  <2>2. UsArmed' /\ UsWriteEdge' /\ UsTold'
    BY <1>1, <1>4, <2>1 DEF UsInv, UsArmed, UsWriteEdge, UsTold
  <2>3. UsWrites'
    <3>1. wlist' = [wlist EXCEPT !.bufs = <<>>, !.dataTail = 0]
      BY <1>1, <1>4
    <3>2. wlist'.bufs = <<>> \/ wlist' = wlist \/ wlist'.bufs = wlist.bufs
      BY <3>1
    <3>. QED
      BY <1>1, <1>4, <3>2 DEF UsInv, UsWrites
  <2>. QED
    BY <1>2, <1>3, <2>2, <2>3 DEF UsInv
<1>5. CASE ~writeError
  <2>1. wlist' = wlist
    BY <1>1, <1>5
  <2>2. UsWrites' /\ UsArmed' /\ UsWriteEdge'
    BY <1>1, <2>1, UsKept
  <2>3. wlist.bytes \in Nat
    BY <1>5 DEF UsInv, UsWrites, UsHolds
  <2>4. UsTold'
    BY <1>1, <2>1, <2>3 DEF UsTold
  <2>. QED
    BY <1>2, <1>3, <2>2, <2>4 DEF UsInv
<1>. QED
  BY <1>4, <1>5

\* ustream_uloop_cb: the edge is taken, with all that is ready.
LEMMA UsUloopStep ==
  ASSUME UsInv, ustream_uloop_cb
  PROVE  UsInv'
<1>1. PICK events : events = armed \intersect Ready(inPipe, outPipe)
  OBVIOUS
<1>2. /\ edge' = FALSE /\ fdError' = (fdError \/ farEnd = "gone") /\ pollEvents' = events
      /\ upc' = IF "READ" \in events THEN "read" ELSE "write"
      /\ UNCHANGED <<rlist, wlist, blocked, sEof, writeError, stateChange, armed, inPipe, outPipe,
                     farEnd, accepted, sentBytes, arrivedBytes, consumedBytes, toldWith>>
  BY <1>1, Zenon DEF ustream_uloop_cb, __ustream_fd_poll
<1>3. UsReads' /\ UsWrites' /\ UsOut' /\ UsArmed' /\ UsTold'
  BY <1>2, UsKept
<1>4. UsFlags'
  BY <1>2 DEF UsInv, UsFlags
<1>5. /\ "READ" \in events <=> "READ" \in armed /\ UsReadable
      /\ "WRITE" \in events <=> "WRITE" \in armed /\ UsWritable
  <2>1. /\ "READ" \in Ready(inPipe, outPipe) <=> UsReadable
        /\ "WRITE" \in Ready(inPipe, outPipe) <=> UsWritable
    BY Zenon DEF Ready, UsReadable, UsWritable
  <2>. QED
    BY <1>1, <2>1
<1>6. UsReadEdge'
  <2>1. CASE "READ" \in events
    BY <1>2, <2>1 DEF UsReadEdge
  <2>2. CASE "READ" \notin events
    BY <1>2, <1>5, <2>2 DEF UsReadEdge, UsReadable
  <2>. QED
    BY <2>1, <2>2
<1>7. UsWriteEdge'
  <2>1. upc' \in {"read", "notify", "write"}
    BY <1>2
  <2>2. ASSUME UsWaiting', UsWritable' PROVE "WRITE" \in pollEvents'
    <3>1. UsWaiting /\ UsWritable
      BY <1>2, <2>2 DEF UsWaiting, UsWritable
    <3>2. "WRITE" \in armed
      BY <3>1 DEF UsInv, UsArmed
    <3>. QED
      BY <1>2, <1>5, <3>1, <3>2
  <2>. QED
    BY <2>1, <2>2 DEF UsWriteEdge
<1>. QED
  BY <1>3, <1>4, <1>6, <1>7 DEF UsInv

\* ustream_fd_poll: everything is tried.
LEMMA UsPollStep ==
  ASSUME UsInv, ustream_fd_poll
  PROVE  UsInv'
<1>1. /\ pollEvents' = {"READ", "WRITE"} /\ upc' = "read"
      /\ UNCHANGED <<rlist, wlist, blocked, sEof, writeError, stateChange, armed, inPipe, outPipe,
                     farEnd, accepted, sentBytes, arrivedBytes, consumedBytes, toldWith, edge, fdError>>
  BY Zenon DEF ustream_fd_poll, __ustream_fd_poll
<1>2. UsReads' /\ UsWrites' /\ UsOut' /\ UsArmed' /\ UsTold'
  BY <1>1, UsKept
<1>3. UsFlags'
  BY <1>1 DEF UsInv, UsFlags
<1>4. UsReadEdge' /\ UsWriteEdge'
  BY <1>1 DEF UsReadEdge, UsWriteEdge
<1>. QED
  BY <1>2, <1>3, <1>4 DEF UsInv

\* NotifyReadReturns.
LEMMA UsNotifyStep ==
  ASSUME UsInv, NotifyReadReturns
  PROVE  UsInv'
<1>1. /\ upc = "notify" /\ upc' = "read"
      /\ UNCHANGED <<rlist, wlist, blocked, sEof, writeError, stateChange, pollEvents, armed, edge, fdError, inPipe,
                     outPipe, farEnd, accepted, sentBytes, arrivedBytes, consumedBytes, toldWith>>
  BY DEF NotifyReadReturns
<1>2. UsReads' /\ UsWrites' /\ UsOut' /\ UsArmed' /\ UsTold'
  BY <1>1, UsKept
<1>3. UsFlags'
  BY <1>1 DEF UsInv, UsFlags
<1>4. UsReadEdge'
  BY <1>1 DEF UsReadEdge
<1>5. UsWriteEdge'
  BY <1>1 DEF UsInv, UsWriteEdge, UsWaiting, UsWritable
<1>. QED
  BY <1>2, <1>3, <1>4, <1>5 DEF UsInv

\* One round of ustream_fd_read_pending.
LEMMA UsReadStep ==
  ASSUME UsInv, ReadRound
  PROVE  UsInv'
<1>1. upc = "read" /\ UNCHANGED <<wlist, writeError, pollEvents, outPipe, farEnd, accepted, sentBytes, arrivedBytes,
                                  consumedBytes, toldWith>>
  BY DEF ReadRound
<1>2. UsWrites' /\ UsOut'
  BY <1>1, UsKept
<1>3. PICK k \in UsLimits : k = Limits("r")
  BY LimitsKnown
<1>4. PICK p, n : p = ustream_prepare_buf(rlist, k, 1) /\ n = Min({RoomIn(p.l.bufs[p.l.dataTail], k), Len(inPipe)})
  OBVIOUS
<1>5. (CASE blocked # {} ->
              /\ upc' = "write" /\ UNCHANGED <<rlist, blocked, armed, edge, fdError, inPipe, sEof, stateChange>>
         [] blocked = {} /\ ~p.ok ->
              /\ SetBlocked({"FULL"}) /\ upc' = "write"
              /\ rlist' = p.l /\ UNCHANGED <<inPipe, sEof, stateChange>>
         [] blocked = {} /\ p.ok /\ inPipe = <<>> /\ farEnd = "open" ->
              /\ rlist' = p.l /\ upc' = "write"
              /\ UNCHANGED <<blocked, armed, edge, fdError, inPipe, sEof, stateChange>>
         [] blocked = {} /\ p.ok /\ inPipe = <<>> /\ farEnd # "open" ->
              /\ rlist' = p.l /\ sEof' = TRUE /\ stateChange' = (stateChange \/ ~sEof)
              /\ ustream_fd_set_uloop(blocked, TRUE, wlist, writeError, FALSE, inPipe, outPipe)
              /\ upc' = "write" /\ UNCHANGED <<blocked, inPipe>>
         [] OTHER ->
              /\ rlist' = Filled(p.l, SubSeq(inPipe, 1, n))
              /\ inPipe' = SubSeq(inPipe, n + 1, Len(inPipe))
              /\ upc' = "notify" /\ UNCHANGED <<blocked, armed, edge, fdError, sEof, stateChange>>)
  BY <1>3, <1>4, Zenon DEF ReadRound
<1>6. PICK h \in Nat, a \in Nat, L \in Nat :
        /\ h = rlist.bytes /\ a = consumedBytes /\ L = Len(inPipe) /\ UsHolds(rlist, a, h)
        /\ inPipe = Bytes(a + h, L) /\ arrivedBytes = a + h + L
  BY DEF UsInv, UsReads, UsHolds
<1>7. /\ UsHolds(p.l, a, h)
      /\ p.ok => /\ p.l.dataTail \in 1 .. Len(p.l.bufs)
                 /\ RoomIn(p.l.bufs[p.l.dataTail], k) \in Nat \ {0}
  <2>1. p = ustream_prepare_buf(rlist, k, 1)
    BY <1>4
  <2>. QED
    BY <1>6, <2>1, PreparedHeld
<1>8. ASSUME rlist' = p.l, UNCHANGED inPipe PROVE UsReads'
  <2>1. rlist'.bytes = h /\ UsHolds(rlist', a, h)
    BY <1>7, <1>8 DEF UsHolds
  <2>. QED
    BY <1>1, <1>6, <1>8, <2>1 DEF UsReads
<1>9. CASE blocked # {}
  <2>1. upc' = "write" /\ UNCHANGED <<rlist, blocked, armed, edge, fdError, inPipe, sEof, stateChange>>
    BY <1>5, <1>9, Zenon
  <2>2. UsReads' /\ UsArmed' /\ UsTold'
    BY <1>1, <2>1, UsKept
  <2>3. UsFlags'
    BY <1>1, <2>1 DEF UsInv, UsFlags
  <2>4. UsReadEdge'
    BY <1>9, <2>1 DEF UsInv, UsArmed, UsReadEdge
  <2>5. UsWriteEdge'
    BY <1>1, <2>1 DEF UsInv, UsWriteEdge, UsWaiting, UsWritable
  <2>. QED
    BY <1>2, <2>2, <2>3, <2>4, <2>5 DEF UsInv
<1>10. CASE blocked = {} /\ ~p.ok
  <2>1. SetBlocked({"FULL"}) /\ upc' = "write" /\ rlist' = p.l /\ UNCHANGED <<inPipe, sEof, stateChange>>
    BY <1>5, <1>10, Zenon
  <2>2. UsReads'
    BY <1>8, <2>1
  <2>3. UsTold'
    BY <1>1, <2>1, UsKept
  <2>4. PICK val : val = {"FULL"}
    OBVIOUS
  <2>5. SetBlocked(val) /\ val # {}
    BY <2>1, <2>4
  <2>6. UsFlags' /\ UsArmed' /\ UsReadEdge' /\ UsWriteEdge'
    BY <1>1, <2>1, <2>5, BlockedSet
  <2>. QED
    BY <1>2, <2>2, <2>3, <2>6 DEF UsInv
<1>11. CASE blocked = {} /\ p.ok /\ inPipe = <<>> /\ farEnd = "open"
  <2>1. rlist' = p.l /\ upc' = "write" /\ UNCHANGED <<blocked, armed, edge, fdError, inPipe, sEof, stateChange>>
    BY <1>5, <1>11, Zenon
  <2>2. UsReads'
    BY <1>8, <2>1
  <2>3. UsTold' /\ UsArmed'
    BY <1>1, <2>1, UsKept
  <2>4. UsFlags'
    BY <1>1, <2>1 DEF UsInv, UsFlags
  <2>5. UsReadEdge'
    BY <1>1, <1>11, <2>1 DEF UsReadEdge, UsReadable
  <2>6. UsWriteEdge'
    BY <1>1, <2>1 DEF UsInv, UsWriteEdge, UsWaiting, UsWritable
  <2>. QED
    BY <1>2, <2>2, <2>3, <2>4, <2>5, <2>6 DEF UsInv
<1>12. CASE blocked = {} /\ p.ok /\ inPipe = <<>> /\ farEnd # "open"
  <2>1. /\ rlist' = p.l /\ sEof' = TRUE /\ stateChange' = (stateChange \/ ~sEof)
        /\ ustream_fd_set_uloop(blocked, TRUE, wlist, writeError, FALSE, inPipe, outPipe)
        /\ upc' = "write" /\ UNCHANGED <<blocked, inPipe>>
    BY <1>5, <1>12, Zenon
  <2>2. UsReads'
    BY <1>8, <2>1
  <2>3. /\ "READ" \notin armed'
        /\ "WRITE" \in armed' <=> wlist.bufs # <<>> /\ wlist.bytes > 0 /\ ~writeError
        /\ edge' \in BOOLEAN /\ fdError' \in BOOLEAN
        /\ "WRITE" \in armed' /\ (Len(outPipe) < PipeRoom \/ farEnd = "gone") => edge'
    <3>1. PICK no \in BOOLEAN, yes \in BOOLEAN : no = FALSE /\ yes = TRUE
      OBVIOUS
    <3>2. ustream_fd_set_uloop(blocked, yes, wlist, writeError, no, inPipe, outPipe)
      BY <2>1, <3>1, Zenon
    <3>3. writeError \in BOOLEAN /\ fdError \in BOOLEAN
      BY DEF UsInv, UsFlags
    <3>4. /\ "READ" \in armed' <=> blocked = {} /\ ~yes
          /\ "WRITE" \in armed' <=> no \/ (wlist.bufs # <<>> /\ wlist.bytes > 0 /\ ~writeError)
          /\ edge' \in BOOLEAN /\ fdError' \in BOOLEAN
          /\ "WRITE" \in armed' /\ (Len(outPipe) < PipeRoom \/ farEnd = "gone") => edge'
      BY <3>2, <3>3, UloopSet
    <3>. QED
      BY <3>1, <3>4, Zenon
  <2>4. UsWaiting => "WRITE" \in armed'
    BY <2>3, WaitingHeld DEF UsInv, UsWaiting
  <2>5. UsFlags'
    BY <1>1, <2>1, <2>3 DEF UsInv, UsFlags
  <2>6. UsArmed'
    BY <1>1, <2>1, <2>3, <2>4 DEF UsArmed, UsWaiting
  <2>7. UsReadEdge'
    BY <2>3 DEF UsReadEdge
  <2>8. UsWriteEdge'
    BY <1>1, <2>3, <2>4 DEF UsWriteEdge, UsWaiting, UsWritable
  <2>9. UsTold'
    BY <1>1, <2>1 DEF UsInv, UsTold, UsFlags
  <2>. QED
    BY <1>2, <2>2, <2>5, <2>6, <2>7, <2>8, <2>9 DEF UsInv
<1>13. CASE blocked = {} /\ p.ok /\ inPipe # <<>>
  <2>1. /\ rlist' = Filled(p.l, SubSeq(inPipe, 1, n))
        /\ inPipe' = SubSeq(inPipe, n + 1, Len(inPipe))
        /\ upc' = "notify" /\ UNCHANGED <<blocked, armed, edge, fdError, sEof, stateChange>>
    BY <1>5, <1>13, Zenon
  <2>2. n \in 0 .. L
    <3>1. PICK room \in Nat : room = RoomIn(p.l.bufs[p.l.dataTail], k)
      BY <1>7, <1>13
    <3>2. n = Min({room, L})
      BY <1>4, <1>6, <3>1, Zenon
    <3>3. n \in Nat /\ n <= L
      BY <3>2, LesserOf
    <3>. QED
      BY <3>3
  <2>3. a + h \in Nat
    OBVIOUS
  <2>4. PICK s : s = Bytes(a + h, n)
    OBVIOUS
  <2>5. SubSeq(inPipe, 1, n) = s /\ SubSeq(inPipe, n + 1, L) = Bytes(a + h + n, L - n)
    <3>1. /\ SubSeq(Bytes(a + h, L), 1, n) = Bytes(a + h, n)
          /\ SubSeq(Bytes(a + h, L), n + 1, L) = Bytes(a + h + n, L - n)
      BY <2>2, <2>3, BytesCut
    <3>. QED
      BY <1>6, <2>4, <3>1, Zenon
  <2>6. rlist' = Filled(p.l, s)
    BY <2>1, <2>5, Zenon
  <2>7. UsHolds(rlist', a, h + n)
    <3>1. p.l.dataTail \in 1 .. Len(p.l.bufs) /\ n \in Nat
      BY <1>7, <1>13, <2>2
    <3>. QED
      BY <1>7, <2>4, <2>6, <3>1, FilledHeld
  <2>8. rlist'.bytes = h + n
    BY <2>7 DEF UsHolds
  <2>9. inPipe' = Bytes(a + h + n, L - n)
    BY <1>6, <2>1, <2>5, Zenon
  <2>10. Len(inPipe') = L - n
    <3>1. a + h + n \in Nat /\ L - n \in Nat
      BY <2>2
    <3>. QED
      BY <2>9, <3>1, BytesListed
  <2>11. UsReads'
    <3>1. a + (h + n) = a + h + n /\ a + h + L = a + (h + n) + (L - n) /\ L - n \in Nat
      BY <2>2
    <3>2. consumedBytes' = a /\ arrivedBytes' = a + h + L
      BY <1>1, <1>6
    <3>3. UsHolds(rlist', consumedBytes', rlist'.bytes)
      BY <2>7, <2>8, <3>2
    <3>4. inPipe' = Bytes(consumedBytes' + rlist'.bytes, Len(inPipe'))
      BY <2>8, <2>9, <2>10, <3>1, <3>2, Zenon
    <3>5. arrivedBytes' = consumedBytes' + rlist'.bytes + Len(inPipe')
      BY <2>8, <2>10, <3>1, <3>2, Zenon
    <3>. QED
      BY <2>10, <3>1, <3>3, <3>4, <3>5 DEF UsReads
  <2>12. UsTold' /\ UsArmed'
    BY <1>1, <2>1, UsKept
  <2>13. UsFlags'
    BY <1>1, <2>1 DEF UsInv, UsFlags
  <2>14. UsReadEdge'
    BY <2>1 DEF UsReadEdge
  <2>15. UsWriteEdge'
    BY <1>1, <2>1 DEF UsInv, UsWriteEdge, UsWaiting, UsWritable
  <2>. QED
    BY <1>2, <2>11, <2>12, <2>13, <2>14, <2>15 DEF UsInv
<1>. QED
  BY <1>9, <1>10, <1>11, <1>12, <1>13

\* ustream_write_pending.
LEMMA UsPendingStep ==
  ASSUME UsInv, WritePending
  PROVE  UsInv'
<1>1. /\ upc = "write" /\ upc' = "error" /\ pollEvents' = {}
      /\ UNCHANGED <<rlist, blocked, sEof, inPipe, farEnd, accepted, arrivedBytes, consumedBytes, toldWith>>
  BY DEF WritePending
<1>2. UsReads'
  BY <1>1, UsKept
<1>3. CASE "WRITE" \notin pollEvents \/ writeError
  <2>1. UNCHANGED <<wlist, outPipe, armed, edge, fdError, sentBytes, stateChange, writeError>>
    BY <1>3 DEF WritePending
  <2>2. UsWrites' /\ UsOut' /\ UsArmed' /\ UsTold'
    BY <1>1, <2>1, UsKept
  <2>3. UsFlags'
    BY <1>1, <2>1 DEF UsInv, UsFlags
  <2>4. UsReadEdge'
    BY <1>1, <2>1 DEF UsInv, UsReadEdge, UsReadable
  <2>5. UsWriteEdge'
    <3>1. CASE "WRITE" \notin pollEvents
      BY <1>1, <2>1, <3>1 DEF UsInv, UsWriteEdge, UsWaiting, UsWritable
    <3>2. CASE writeError
      BY <2>1, <3>2 DEF UsWriteEdge, UsWaiting
    <3>. QED
      BY <1>3, <3>1, <3>2
  <2>. QED
    BY <1>2, <2>2, <2>3, <2>4, <2>5 DEF UsInv
<1>4. CASE ~("WRITE" \notin pollEvents \/ writeError) /\ farEnd = "gone" /\ wlist.bytes > 0
  <2>1. /\ writeError' = TRUE /\ stateChange' = TRUE
        /\ UNCHANGED <<wlist, outPipe, armed, edge, fdError, sentBytes>>
    BY <1>4 DEF WritePending
  <2>2. UsOut'
    BY <2>1, UsKept
  <2>3. UsWrites'
    BY <2>1 DEF UsInv, UsWrites
  <2>4. UsFlags'
    BY <1>1, <2>1 DEF UsInv, UsFlags
  <2>5. ~UsWaiting'
    BY <2>1 DEF UsWaiting
  <2>6. UsArmed' /\ UsWriteEdge' /\ UsTold'
    BY <1>1, <2>1, <2>5 DEF UsInv, UsArmed, UsWriteEdge, UsTold
  <2>7. UsReadEdge'
    BY <1>1, <2>1 DEF UsInv, UsReadEdge, UsReadable
  <2>. QED
    BY <1>2, <2>2, <2>3, <2>4, <2>6, <2>7 DEF UsInv
<1>5. CASE ~("WRITE" \notin pollEvents \/ writeError) /\ ~(farEnd = "gone" /\ wlist.bytes > 0)
  <2>1. PICK n, out, w : n = Takes(wlist.bytes) /\ out = outPipe \o SubSeq(Content(wlist), 1, n)
                         /\ w = Consumed(wlist, Limits("w"), n)
    OBVIOUS
  <2>2. /\ wlist' = w /\ outPipe' = out /\ sentBytes' = sentBytes + n
        /\ stateChange' = (stateChange \/ EmptiedAfterEof(n))
        /\ ustream_fd_set_uloop(blocked, sEof, w, writeError, w.bytes > 0, inPipe, out)
        /\ UNCHANGED writeError
    BY <1>5, <2>1, Zenon DEF WritePending
  <2>3. writeError = FALSE /\ UsFlags
    BY <1>5 DEF UsInv, UsFlags
  <2>4. PICK h \in Nat, a \in Nat : h = wlist.bytes /\ a = sentBytes /\ UsHolds(wlist, a, h) /\ accepted = a + h
    BY <2>3 DEF UsInv, UsWrites, UsHolds
  <2>5. n \in Nat /\ n <= h /\ n <= PipeRoom - Len(outPipe)
    <3>1. n = Takes(h) /\ UsOut
      BY <2>1, <2>4 DEF UsInv
    <3>. QED
      BY <3>1, TakesKnown
  <2>6. UsHolds(w, a + n, h - n)
    <3>1. PICK k \in UsLimits : k = Limits("w")
      BY LimitsKnown
    <3>2. w = Consumed(wlist, k, n)
      BY <2>1, <3>1
    <3>3. n \in 0 .. h
      BY <2>5
    <3>. QED
      BY <2>4, <3>2, <3>3, ConsumedHeld
  <2>7. PICK h1 \in Nat : h1 = h - n /\ (a + n) + h1 = a + h /\ (h1 > 0 => h > 0) /\ (h1 = 0 => n = h)
    BY <2>5
  <2>8. w.bytes = h1 /\ UsHolds(w, a + n, h1)
    BY <2>6, <2>7 DEF UsHolds
  <2>9. UsWrites'
    <3>1. sentBytes' = a + n /\ accepted' = a + h /\ wlist'.bytes = h1 /\ UsHolds(wlist', a + n, h1)
      BY <1>1, <2>2, <2>4, <2>8
    <3>. QED
      BY <2>7, <3>1, TailHeld DEF UsWrites
  <2>10. UsOut'
    <3>1. Content(wlist) = Bytes(a, h)
      BY <2>4, ContentHeld
    <3>2. SubSeq(Bytes(a, h), 1, n) = Bytes(a, n)
      <4>1. n \in 0 .. h
        BY <2>5
      <4>. QED
        BY <4>1, BytesCut
    <3>3. PICK s \in Seq(Nat) : s = Bytes(a, n) /\ Len(s) = n
      BY <2>5, BytesListed
    <3>4. out = outPipe \o s
      BY <2>1, <3>1, <3>2, <3>3, Zenon
    <3>5. out \in Seq(Nat) /\ Len(out) <= PipeRoom
      <4>1. UsOut
        BY DEF UsInv
      <4>. QED
        BY <2>5, <3>3, <3>4, <4>1, OutPut
    <3>. QED
      BY <2>2, <3>5 DEF UsOut
  <2>11. /\ "READ" \in armed' <=> blocked = {} /\ ~sEof
         /\ h1 > 0 => "WRITE" \in armed'
         /\ edge' \in BOOLEAN /\ fdError' \in BOOLEAN
         /\ "READ" \in armed' /\ (inPipe # <<>> \/ farEnd # "open") => edge'
         /\ "WRITE" \in armed' /\ (Len(out) < PipeRoom \/ farEnd = "gone") => edge'
    <3>1. PICK yes \in BOOLEAN : yes = (w.bytes > 0)
      <4>1. (w.bytes > 0) \in BOOLEAN
        BY <2>8
      <4>. QED
        BY <4>1, Zenon
    <3>2. ustream_fd_set_uloop(blocked, sEof, w, writeError, yes, inPipe, out)
      BY <2>2, <3>1, Zenon
    <3>3. sEof \in BOOLEAN /\ writeError \in BOOLEAN /\ fdError \in BOOLEAN
      BY <2>3 DEF UsFlags
    <3>4. /\ "READ" \in armed' <=> blocked = {} /\ ~sEof
          /\ "WRITE" \in armed' <=> yes \/ (w.bufs # <<>> /\ w.bytes > 0 /\ ~writeError)
          /\ edge' \in BOOLEAN /\ fdError' \in BOOLEAN
          /\ "READ" \in armed' /\ (inPipe # <<>> \/ farEnd # "open") => edge'
          /\ "WRITE" \in armed' /\ (Len(out) < PipeRoom \/ farEnd = "gone") => edge'
      BY <3>2, <3>3, UloopSet
    <3>5. h1 > 0 => yes
      BY <2>8, <3>1
    <3>. QED
      BY <3>4, <3>5, Zenon
  <2>12. wlist'.bytes = h1
    BY <2>2, <2>8
  <2>13. UsFlags'
    <3>1. stateChange' \in BOOLEAN
      BY <2>2, <2>3 DEF UsFlags
    <3>. QED
      BY <1>1, <2>2, <2>3, <2>11, <3>1 DEF UsFlags
  <2>14. UsArmed'
    BY <1>1, <2>11, <2>12 DEF UsArmed, UsWaiting
  <2>15. UsReadEdge'
    BY <1>1, <2>11 DEF UsReadEdge, UsReadable
  <2>16. UsWriteEdge'
    BY <1>1, <2>2, <2>11, <2>12 DEF UsWriteEdge, UsWaiting, UsWritable
  <2>17. UsTold'
    <3>. SUFFICES ASSUME sEof', ~writeError', ~stateChange' PROVE toldWith' # -1 /\ (wlist'.bytes = 0 => toldWith' = 0)
      BY DEF UsTold
    <3>1. sEof /\ ~stateChange /\ ~EmptiedAfterEof(n)
      BY <1>1, <2>2, <2>3 DEF UsFlags
    <3>2. toldWith # -1 /\ (wlist.bytes = 0 => toldWith = 0)
      BY <2>3, <3>1 DEF UsInv, UsTold
    <3>3. ASSUME h1 = 0 PROVE h = 0
      <4>1. n = h
        BY <2>7, <3>3
      <4>2. ~(n > 0 /\ n = wlist.bytes)
        BY <3>1 DEF EmptiedAfterEof
      <4>. QED
        BY <2>4, <4>1, <4>2
    <3>. QED
      BY <1>1, <2>4, <2>12, <3>2, <3>3
  <2>. QED
    BY <1>2, <2>9, <2>10, <2>13, <2>14, <2>15, <2>16, <2>17 DEF UsInv
<1>. QED
  BY <1>3, <1>4, <1>5

\* The end of __ustream_fd_poll.
LEMMA UsEndStep ==
  ASSUME UsInv, PollEnds
  PROVE  UsInv'
<1>1. /\ upc = "error" /\ upc' = "idle"
      /\ UNCHANGED <<rlist, wlist, blocked, sEof, pollEvents, inPipe, outPipe, farEnd, accepted, sentBytes,
                     arrivedBytes, consumedBytes, toldWith>>
  BY DEF PollEnds
<1>2. UsReads' /\ UsOut'
  BY <1>1, UsKept
<1>3. CASE fdError /\ ~writeError
  <2>1. /\ stateChange' = TRUE /\ writeError' = TRUE
        /\ ustream_fd_set_uloop(blocked, sEof, wlist, TRUE, FALSE, inPipe, outPipe)
    BY <1>3 DEF PollEnds
  <2>2. /\ "READ" \in armed' <=> blocked = {} /\ ~sEof
        /\ edge' \in BOOLEAN /\ fdError' \in BOOLEAN
        /\ "READ" \in armed' /\ (inPipe # <<>> \/ farEnd # "open") => edge'
    <3>1. PICK no \in BOOLEAN, yes \in BOOLEAN : no = FALSE /\ yes = TRUE
      OBVIOUS
    <3>2. ustream_fd_set_uloop(blocked, sEof, wlist, yes, no, inPipe, outPipe)
      BY <2>1, <3>1, Zenon
    <3>3. sEof \in BOOLEAN /\ fdError \in BOOLEAN
      BY DEF UsInv, UsFlags
    <3>. QED
      BY <3>2, <3>3, UloopSet
  <2>3. UsFlags'
    BY <1>1, <2>1, <2>2 DEF UsInv, UsFlags
  <2>4. UsWrites'
    BY <1>1, <2>1 DEF UsInv, UsWrites
  <2>5. ~UsWaiting'
    BY <2>1 DEF UsWaiting
  <2>6. UsArmed' /\ UsWriteEdge' /\ UsTold'
    BY <1>1, <2>1, <2>2, <2>5 DEF UsArmed, UsWriteEdge, UsTold
  <2>7. UsReadEdge'
    BY <1>1, <2>2 DEF UsReadEdge, UsReadable
  <2>. QED
    BY <1>2, <2>3, <2>4, <2>6, <2>7 DEF UsInv
<1>4. CASE ~(fdError /\ ~writeError)
  <2>1. UNCHANGED <<stateChange, writeError, armed, edge, fdError>>
    BY <1>4 DEF PollEnds
  <2>2. UsWrites' /\ UsArmed' /\ UsTold'
    BY <1>1, <2>1, UsKept
  <2>3. UsFlags'
    BY <1>1, <2>1 DEF UsInv, UsFlags
  <2>4. UsReadEdge'
    BY <1>1, <2>1 DEF UsInv, UsReadEdge, UsReadable
  <2>5. UsWriteEdge'
    BY <1>1, <2>1 DEF UsInv, UsWriteEdge, UsWaiting, UsWritable
  <2>. QED
    BY <1>2, <2>2, <2>3, <2>4, <2>5 DEF UsInv
<1>. QED
  BY <1>3, <1>4

\* A byte arrives.
LEMMA UsArriveStep ==
  ASSUME UsInv, PeerWrites
  PROVE  UsInv'
<1>1. /\ arrivedBytes' = arrivedBytes + 1
      /\ inPipe' = Append(inPipe, arrivedBytes + 1)
      /\ edge' = (edge \/ "READ" \in armed)
      /\ UNCHANGED <<rlist, wlist, blocked, sEof, writeError, stateChange, upc, pollEvents, armed, fdError,
                     outPipe, farEnd, accepted, sentBytes, consumedBytes, toldWith>>
  BY DEF PeerWrites
<1>2. UsWrites' /\ UsOut' /\ UsArmed' /\ UsTold'
  BY <1>1, UsKept
<1>3. UsFlags'
  BY <1>1 DEF UsInv, UsFlags
<1>4. UsReadEdge'
  BY <1>1, <1>3 DEF UsFlags, UsReadEdge
<1>5. UsWriteEdge'
  BY <1>1, <1>3 DEF UsInv, UsFlags, UsWriteEdge, UsWaiting, UsWritable
<1>6. PICK m \in Nat, L \in Nat : /\ m = consumedBytes + rlist.bytes /\ L = Len(inPipe)
                                  /\ inPipe = Bytes(m, L) /\ arrivedBytes = m + L
  BY DEF UsInv, UsReads, UsHolds
<1>7. inPipe' = Bytes(m, L + 1) /\ Len(inPipe') = L + 1
  <2>1. PICK s \in Seq(Nat) : s = Bytes(m, L) /\ Len(s) = L /\ \A i \in 1 .. L : s[i] = m + i
    BY BytesListed
  <2>2. PICK t \in Seq(Nat) : t = Bytes(m, L + 1) /\ Len(t) = L + 1 /\ \A i \in 1 .. L + 1 : t[i] = m + i
    <3>1. L + 1 \in Nat
      OBVIOUS
    <3>. QED
      BY <3>1, BytesListed
  <2>3. PICK e \in Nat : e = m + (L + 1)
    OBVIOUS
  <2>4. PICK r : r = Append(s, e)
    OBVIOUS
  <2>5. r \in Seq(Nat) /\ Len(r) = L + 1 /\ r[L + 1] = e /\ \A i \in 1 .. L : r[i] = s[i]
    BY <2>1, <2>4, AppendProperties
  <2>6. \A i \in 1 .. L + 1 : r[i] = t[i]
    <3>. TAKE i \in 1 .. L + 1
    <3>1. CASE i \in 1 .. L
      BY <2>1, <2>2, <2>5, <3>1
    <3>2. CASE i = L + 1
      BY <2>2, <2>3, <2>5, <3>2
    <3>. QED
      BY <3>1, <3>2
  <2>7. r = t
    BY <2>2, <2>5, <2>6, SeqEqual
  <2>8. inPipe' = r
    <3>1. arrivedBytes + 1 = e
      <4>1. arrivedBytes = m + L
        BY <1>6
      <4>. QED
        BY <2>3, <4>1
    <3>. QED
      BY <1>1, <1>6, <2>1, <2>4, <3>1, Zenon
  <2>. QED
    BY <2>2, <2>7, <2>8, Zenon
<1>8. UsReads'
  <2>1. consumedBytes' + rlist'.bytes = m /\ arrivedBytes' = m + (L + 1) /\ L + 1 \in Nat
    <3>1. arrivedBytes = m + L /\ arrivedBytes' = arrivedBytes + 1
      BY <1>1, <1>6
    <3>2. arrivedBytes' = m + (L + 1) /\ L + 1 \in Nat
      BY <3>1
    <3>3. consumedBytes' + rlist'.bytes = m
      BY <1>1, <1>6, Zenon
    <3>. QED
      BY <3>2, <3>3
  <2>2. UsHolds(rlist', consumedBytes', rlist'.bytes)
    BY <1>1 DEF UsInv, UsReads
  <2>. QED
    BY <1>7, <2>1, <2>2 DEF UsReads
<1>. QED
  BY <1>2, <1>3, <1>4, <1>5, <1>8 DEF UsInv

\* The other end reads.
LEMMA UsTakenStep ==
  ASSUME UsInv, PeerReads
  PROVE  UsInv'
<1>1. /\ outPipe # <<>> /\ outPipe' = Tail(outPipe)
      /\ edge' = (edge \/ "WRITE" \in armed)
      /\ UNCHANGED <<rlist, wlist, blocked, sEof, writeError, stateChange, upc, pollEvents, armed, fdError,
                     inPipe, farEnd, accepted, sentBytes, arrivedBytes, consumedBytes, toldWith>>
  BY DEF PeerReads
<1>2. UsReads' /\ UsWrites' /\ UsArmed' /\ UsTold'
  BY <1>1, UsKept
<1>3. UsFlags'
  BY <1>1 DEF UsInv, UsFlags
<1>4. UsReadEdge'
  BY <1>1, <1>3 DEF UsInv, UsFlags, UsReadEdge, UsReadable
<1>5. UsWriteEdge'
  <2>1. UsWaiting' => "WRITE" \in armed
    BY <1>1 DEF UsInv, UsArmed, UsWaiting
  <2>. QED
    BY <1>1, <2>1 DEF UsWriteEdge
<1>6. UsOut'
  <2>1. outPipe \in Seq(Nat) /\ Len(outPipe) <= PipeRoom /\ Len(outPipe) \in Nat /\ PipeRoom \in Nat
    BY UstreamAssumption, LenProperties DEF UsInv, UsOut
  <2>2. Tail(outPipe) \in Seq(Nat) /\ Len(Tail(outPipe)) = Len(outPipe) - 1
    BY <1>1, <2>1, HeadTailProperties
  <2>. QED
    BY <1>1, <2>1, <2>2 DEF UsOut
<1>. QED
  BY <1>2, <1>3, <1>4, <1>5, <1>6 DEF UsInv

\* The other end sends no more, or closes.
LEMMA UsCloseStep ==
  ASSUME UsInv, NEW how \in {"half", "gone"}, PeerCloses(how)
  PROVE  UsInv'
<1>1. /\ farEnd' = how /\ farEnd \in {"open", "half"}
      /\ edge' = (edge \/ (IF how = "half" THEN "READ" \in armed ELSE armed # {}))
      /\ UNCHANGED <<rlist, wlist, blocked, sEof, writeError, stateChange, upc, pollEvents, armed, fdError,
                     inPipe, outPipe, accepted, sentBytes, arrivedBytes, consumedBytes, toldWith>>
  BY DEF PeerCloses
<1>2. UsReads' /\ UsWrites' /\ UsOut' /\ UsArmed' /\ UsTold'
  BY <1>1, UsKept
<1>3. /\ edge' \in BOOLEAN /\ (edge => edge') /\ ("READ" \in armed => edge')
      /\ how = "gone" => ("WRITE" \in armed => edge')
  <2>1. edge \in BOOLEAN
    BY DEF UsInv, UsFlags
  <2>2. CASE how = "half"
    BY <1>1, <2>1, <2>2
  <2>3. CASE how = "gone"
    BY <1>1, <2>1, <2>3
  <2>. QED
    BY <2>2, <2>3
<1>4. UsFlags'
  BY <1>1, <1>3 DEF UsInv, UsFlags
<1>5. UsReadEdge'
  BY <1>1, <1>3 DEF UsReadEdge
<1>6. UsWriteEdge'
  <2>1. UsWaiting' => UsWaiting /\ "WRITE" \in armed
    BY <1>1 DEF UsInv, UsArmed, UsWaiting
  <2>2. UsWritable' => UsWritable \/ how = "gone"
    BY <1>1 DEF UsWritable
  <2>. QED
    BY <1>1, <1>3, <2>1, <2>2 DEF UsInv, UsWriteEdge
<1>. QED
  BY <1>2, <1>4, <1>5, <1>6 DEF UsInv

\* The parts of the invariant together say that the stream is sound.
LEMMA UsSound == UsInv => UstreamSound
<1>. SUFFICES ASSUME UsInv PROVE UstreamSound
  OBVIOUS
<1>1. BytesKept
  <2>1. ASSUME ~writeError
        PROVE  /\ Content(wlist) = [i \in 1 .. accepted - sentBytes |-> sentBytes + i]
               /\ wlist.bytes = Len(Content(wlist))
    <3>1. PICK h \in Nat, a \in Nat : h = wlist.bytes /\ a = sentBytes /\ UsHolds(wlist, a, h) /\ accepted = a + h
      BY <2>1 DEF UsInv, UsWrites, UsHolds
    <3>2. Content(wlist) = Bytes(a, h)
      BY <3>1, ContentHeld
    <3>3. accepted - sentBytes = h
      BY <3>1
    <3>4. Len(Bytes(a, h)) = h
      BY BytesListed
    <3>5. Bytes(a, h) = [i \in 1 .. h |-> a + i]
      BY DEF Bytes
    <3>. QED
      BY <3>1, <3>2, <3>3, <3>4, <3>5, Zenon
  <2>2. /\ Content(rlist) \o inPipe = [i \in 1 .. arrivedBytes - consumedBytes |-> consumedBytes + i]
        /\ rlist.bytes = Len(Content(rlist))
    <3>1. PICK h \in Nat, a \in Nat, L \in Nat :
            /\ h = rlist.bytes /\ a = consumedBytes /\ L = Len(inPipe) /\ UsHolds(rlist, a, h)
            /\ inPipe = Bytes(a + h, L) /\ arrivedBytes = a + h + L
      BY DEF UsInv, UsReads, UsHolds
    <3>2. Content(rlist) = Bytes(a, h)
      BY <3>1, ContentHeld
    <3>3. arrivedBytes - consumedBytes = h + L
      <4>1. arrivedBytes = a + h + L /\ consumedBytes = a
        BY <3>1
      <4>. QED
        BY <4>1
    <3>4. Len(Bytes(a, h)) = h
      BY BytesListed
    <3>5. Bytes(a, h) \o Bytes(a + h, L) = Bytes(a, h + L)
      BY BytesJoined
    <3>6. Bytes(a, h + L) = [i \in 1 .. h + L |-> a + i]
      BY DEF Bytes
    <3>. QED
      BY <3>1, <3>2, <3>3, <3>4, <3>5, <3>6, Zenon
  <2>3. \A i \in DOMAIN rlist.bufs : (i > rlist.dataTail => rlist.bufs[i] = EmptyBuf) /\ (i < rlist.dataTail => rlist.bufs[i].data # <<>>)
    <3>1. UsHolds(rlist, consumedBytes, rlist.bytes)
      BY DEF UsInv, UsReads
    <3>. QED
      BY <3>1, TailHeld
  <2>4. \A i \in DOMAIN wlist.bufs : (i > wlist.dataTail => wlist.bufs[i] = EmptyBuf) /\ (i < wlist.dataTail => wlist.bufs[i].data # <<>>)
    BY DEF UsInv, UsWrites
  <2>. QED
    BY <2>1, <2>2, <2>3, <2>4, Zenon DEF BytesKept
<1>2. NoLostEdge
  <2>1. /\ "READ" \in Ready(inPipe, outPipe) <=> UsReadable
        /\ "WRITE" \in Ready(inPipe, outPipe) <=> UsWritable
    BY Zenon DEF Ready, UsReadable, UsWritable
  <2>. QED
    BY <2>1 DEF UsInv, UsArmed, UsReadEdge, UsWriteEdge, UsWaiting, NoLostEdge
<1>3. EofTold
  BY DEF UsInv, UsTold, EofTold
<1>. QED
  BY <1>1, <1>2, <1>3 DEF UstreamSound

\* Every step keeps the invariant.
LEMMA UsStep == UsInv /\ [UstreamNext]_ustreamVars => UsInv'
<1>. SUFFICES ASSUME UsInv, [UstreamNext]_ustreamVars PROVE UsInv'
  OBVIOUS
<1>1. CASE UNCHANGED ustreamVars
  <2>1. UsFlags'
    BY <1>1 DEF ustreamVars, UsInv, UsFlags
  <2>2. UsReads' /\ UsWrites' /\ UsOut' /\ UsArmed' /\ UsReadEdge' /\ UsWriteEdge' /\ UsTold'
    BY <1>1, UsKept DEF ustreamVars
  <2>. QED
    BY <2>1, <2>2 DEF UsInv
<1>2. CASE \E len \in WriteSizes : ustream_write(len) \/ ustream_vprintf(len)
  BY <1>2, UsWriteStep, UsPrintStep
<1>3. CASE \E len \in 1 .. MaxArriving : ustream_consume(len)
  BY <1>3, UsConsumeStep
<1>4. CASE \E set \in BOOLEAN : ustream_set_read_blocked(set)
  BY <1>4, UsBlockStep
<1>5. CASE ustream_state_change_cb \/ ustream_uloop_cb \/ ustream_fd_poll
  BY <1>5, UsStateStep, UsUloopStep, UsPollStep
<1>6. CASE ReadRound \/ NotifyReadReturns \/ WritePending \/ PollEnds
  BY <1>6, UsReadStep, UsNotifyStep, UsPendingStep, UsEndStep
<1>7. CASE PeerWrites \/ PeerReads \/ \E how \in {"half", "gone"} : PeerCloses(how)
  BY <1>7, UsArriveStep, UsTakenStep, UsCloseStep
<1>. QED
  BY <1>1, <1>2, <1>3, <1>4, <1>5, <1>6, <1>7 DEF UstreamNext

\* A ustream keeps every byte once and in order, misses no edge and tells of the end.
THEOREM UstreamStaysSound == UstreamSpec => []UstreamSound
<1>1. UstreamInit => UsInv
  BY UsStarts
<1>2. UsInv /\ [UstreamNext]_ustreamVars => UsInv'
  BY UsStep
<1>3. UsInv => UstreamSound
  BY UsSound
<1>. QED
  BY <1>1, <1>2, <1>3, PTL DEF UstreamSpec

=============================================================================
