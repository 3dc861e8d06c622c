------------------------------- MODULE Uloop -------------------------------
(***************************************************************************)
(* uloop's file descriptors: epoll's reports, fetched in batches, and the  *)
(* callbacks, which may add and delete descriptors and run the loop again  *)
(* from within.  The C stack is a sequence of frames, innermost first: a   *)
(* uloop_run, or a callback.  Each descriptor is always added with the     *)
(* same trigger mode, as every user in this repository does.               *)
(***************************************************************************)
EXTENDS Naturals, Sequences, SequencesExt, FiniteSets

CONSTANTS Fds, EdgeFds,   \* descriptors; those added with ULOOP_EDGE_TRIGGER
          MaxRuns,        \* bound: uloop_run frames
          MaxArrivals     \* bound: data or hangups that arrive

VARIABLES fdRegistered,   \* fd -> fd->registered
          fdDropped,      \* fd -> the program deleted it and has not added it since
          readable,       \* fd -> there is something to read, or the end of it
          hungUpFd,       \* fd -> EPOLLHUP
          edgePending,    \* fd -> epoll has not reported the last arrival yet
          curFds,         \* cur_fds[cur_fd ..], NULL for entries taken out
          uframes,        \* the stack, with fd_stack's entries in the callbacks' frames
          uCancelled,     \* uloop_cancelled
          unseen,         \* fd -> something arrived and no callback was called since
          arrivals

uloopVars == <<fdRegistered, fdDropped, readable, hungUpFd, edgePending, curFds, uframes,
               uCancelled, unseen, arrivals>>

NullFd == "null"
ASSUME UloopAssumption == NullFd \notin Fds /\ EdgeFds \subseteq Fds /\ IsFiniteSet(Fds)

RunFrame == [k |-> "run", fd |-> NullFd, live |-> FALSE, again |-> FALSE]
MainFrame == [RunFrame EXCEPT !.k = "main"]
CbFrame(fd) == [k |-> "cb", fd |-> fd, live |-> TRUE, again |-> FALSE]
UTop == Head(uframes)

UloopInit ==
  /\ fdRegistered = [f \in Fds |-> FALSE] /\ fdDropped = [f \in Fds |-> TRUE]
  /\ readable = [f \in Fds |-> FALSE] /\ hungUpFd = [f \in Fds |-> FALSE]
  /\ edgePending = [f \in Fds |-> FALSE] /\ unseen = [f \in Fds |-> FALSE]
  /\ curFds = <<>> /\ uframes = <<MainFrame>> /\ uCancelled = FALSE /\ arrivals = 0

InProgram == UTop.k \in {"main", "cb"}
InLoop == UTop.k = "run" /\ ~uCancelled

-----------------------------------------------------------------------------
(* fd_stack. *)

\* The innermost entry of the stack for fd, 0 for none.
StackEntry(fs, fd) == SelectInSeq(fs, LAMBDA f : f.k = "cb" /\ f.live /\ f.fd = fd)

\* Fault: the entry of a deleted descriptor stays.
uloop_fd_stack_delete_Keep(fs, fd) == fs

\* uloop_fd_stack_event(fd, -1): the callback is not called again.
uloop_fd_stack_delete(fs, fd) ==
  IF fd \notin EdgeFds \/ StackEntry(fs, fd) = 0 THEN fs
  ELSE [fs EXCEPT ![StackEntry(fs, fd)].live = FALSE]

-----------------------------------------------------------------------------
(* What the program calls. *)

\* EPOLL_CTL_ADD and EPOLL_CTL_MOD report what is there already.
uloop_fd_add(fd) ==
  /\ InProgram
  /\ fdRegistered' = [fdRegistered EXCEPT ![fd] = TRUE]
  /\ fdDropped' = [fdDropped EXCEPT ![fd] = FALSE]
  /\ edgePending' = [edgePending EXCEPT ![fd] = readable[fd]]
  /\ UNCHANGED <<readable, hungUpFd, curFds, uframes, uCancelled, unseen, arrivals>>

WithoutFd(s, fd) == [i \in DOMAIN s |-> IF s[i] = fd THEN NullFd ELSE s[i]]

\* Events fetched for it are dropped first, registered or not.
Unlisted(fd) == WithoutFd(curFds, fd)

uloop_fd_delete(fd) ==
  /\ InProgram
  /\ curFds' = Unlisted(fd)
  /\ fdDropped' = [fdDropped EXCEPT ![fd] = TRUE]
  /\ IF fdRegistered[fd]
     THEN /\ fdRegistered' = [fdRegistered EXCEPT ![fd] = FALSE]
          /\ uframes' = uloop_fd_stack_delete(uframes, fd)
     ELSE UNCHANGED <<fdRegistered, uframes>>
  /\ edgePending' = [edgePending EXCEPT ![fd] = FALSE]
  /\ UNCHANGED <<readable, hungUpFd, uCancelled, unseen, arrivals>>

uloop_run ==
  /\ InProgram /\ Cardinality({i \in DOMAIN uframes : uframes[i].k = "run"}) < MaxRuns
  /\ uframes' = <<RunFrame>> \o uframes
  /\ uCancelled' = FALSE
  /\ UNCHANGED <<fdRegistered, fdDropped, readable, hungUpFd, edgePending, curFds, unseen, arrivals>>

\* uloop_end, or SIGINT or SIGTERM while a loop runs.
uloop_end ==
  /\ Len(uframes) > 1 /\ uCancelled' = TRUE
  /\ UNCHANGED <<fdRegistered, fdDropped, readable, hungUpFd, edgePending, curFds, uframes,
                 unseen, arrivals>>

\* The callback reads everything; a descriptor at its end stays readable.
ReadAll ==
  /\ UTop.k = "cb"
  /\ readable' = [readable EXCEPT ![UTop.fd] = hungUpFd[UTop.fd]]
  /\ UNCHANGED <<fdRegistered, fdDropped, hungUpFd, edgePending, curFds, uframes,
                 uCancelled, unseen, arrivals>>

\* The do-while of uloop_run_events: an event that came meanwhile calls it again.
CbReturns ==
  /\ UTop.k = "cb"
  /\ IF UTop.live /\ UTop.again
     THEN /\ uframes' = <<CbFrame(UTop.fd)>> \o Tail(uframes)
          /\ unseen' = [unseen EXCEPT ![UTop.fd] = FALSE]
     ELSE uframes' = Tail(uframes) /\ UNCHANGED unseen
  /\ UNCHANGED <<fdRegistered, fdDropped, readable, hungUpFd, edgePending, curFds,
                 uCancelled, arrivals>>

-----------------------------------------------------------------------------
(* The loop. *)

Reported == {f \in Fds : fdRegistered[f] /\ (IF f \in EdgeFds THEN edgePending[f] ELSE readable[f])}

\* A hangup takes the descriptor out, yet its callback is still called this once.
uloop_fetch_events ==
  /\ InLoop /\ curFds = <<>> /\ Reported # {}
  /\ LET hup == {f \in Reported : hungUpFd[f]}
     IN  /\ fdRegistered' = [f \in Fds |-> fdRegistered[f] /\ f \notin hup]
         /\ uframes' = [i \in DOMAIN uframes |->
                           IF uframes[i].fd \in hup
                           THEN uloop_fd_stack_delete(uframes, uframes[i].fd)[i]
                           ELSE uframes[i]]
  /\ curFds' \in SetToSeqs(Reported)
  /\ edgePending' = [f \in Fds |-> edgePending[f] /\ f \notin Reported]
  /\ UNCHANGED <<fdDropped, readable, hungUpFd, uCancelled, unseen, arrivals>>

\* Fault: the event is not noted in the running callback's entry.
Buffered_Lost(fd) == uframes

Buffered(fd) == [uframes EXCEPT ![StackEntry(uframes, fd)].again = TRUE]

\* One entry of cur_fds: skipped, noted for the callback that runs already, or served.
uloop_run_events ==
  /\ InLoop /\ curFds # <<>>
  /\ LET fd == Head(curFds)
     IN  CASE fd = NullFd -> UNCHANGED <<uframes, unseen>>
           [] fd # NullFd /\ fd \in EdgeFds /\ fdRegistered[fd] /\ StackEntry(uframes, fd) # 0 ->
                uframes' = Buffered(fd) /\ UNCHANGED unseen
           [] OTHER -> /\ uframes' = <<CbFrame(fd)>> \o uframes
                       /\ unseen' = [unseen EXCEPT ![fd] = FALSE]
  /\ curFds' = Tail(curFds)
  /\ UNCHANGED <<fdRegistered, fdDropped, readable, hungUpFd, edgePending, uCancelled, arrivals>>

RunEnds ==
  /\ UTop.k = "run" /\ uCancelled
  /\ uframes' = Tail(uframes)
  /\ UNCHANGED <<fdRegistered, fdDropped, readable, hungUpFd, edgePending, curFds,
                 uCancelled, unseen, arrivals>>

\* Data arrives, or the other end hangs up.
Arrival(fd, hup) ==
  /\ arrivals < MaxArrivals /\ ~hungUpFd[fd]
  /\ arrivals' = arrivals + 1
  /\ readable' = [readable EXCEPT ![fd] = TRUE] /\ unseen' = [unseen EXCEPT ![fd] = TRUE]
  /\ edgePending' = [edgePending EXCEPT ![fd] = fdRegistered[fd]]
  /\ hungUpFd' = [hungUpFd EXCEPT ![fd] = hup]
  /\ UNCHANGED <<fdRegistered, fdDropped, curFds, uframes, uCancelled>>

UloopNext ==
  \/ \E fd \in Fds : uloop_fd_add(fd) \/ uloop_fd_delete(fd) \/ \E h \in BOOLEAN : Arrival(fd, h)
  \/ uloop_run \/ uloop_end \/ ReadAll \/ CbReturns
  \/ uloop_fetch_events \/ uloop_run_events \/ RunEnds

UloopSpec == UloopInit /\ [][UloopNext]_uloopVars

-----------------------------------------------------------------------------
(* Properties. *)

\* This step calls the callback of fd.
Called(fd) ==
  \/ Len(uframes') > Len(uframes) /\ Head(uframes').k = "cb" /\ Head(uframes').fd = fd
  \/ Len(uframes') = Len(uframes) /\ UTop.fd = fd /\ UTop.again /\ ~Head(uframes').again

\* A callback is never called, nor called again for an event noted meanwhile, for a
\* descriptor the program has deleted, whatever was fetched for it before.
NotAfterDelete == [][\A fd \in Fds : Called(fd) => ~fdDropped[fd]]_uloopVars

\* An arrival that epoll reports only once is never lost: until a callback is called
\* it is with epoll, in the fetched events or noted for the callback that runs, which
\* is not entered a second time unless it deleted the descriptor or that hung up.
EdgeEventsKept ==
  /\ \A fd \in EdgeFds : unseen[fd] /\ readable[fd] /\ fdRegistered[fd] =>
       \/ edgePending[fd] \/ fd \in Range(curFds)
       \/ \E i \in DOMAIN uframes : uframes[i].fd = fd /\ uframes[i].live /\ uframes[i].again
  /\ \A i, j \in DOMAIN uframes :
       i < j /\ uframes[i].k = "cb" /\ uframes[i].fd \in EdgeFds /\ uframes[i].fd = uframes[j].fd
         => ~(uframes[i].live /\ uframes[j].live)
=============================================================================
