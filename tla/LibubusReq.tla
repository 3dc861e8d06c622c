----------------------------- MODULE LibubusReq -----------------------------
(***************************************************************************)
(* Requests of one libubus context: synchronous ones, which poll the       *)
(* socket until their status is there and may be started from within any   *)
(* callback, asynchronous ones and notifications; the messages for the     *)
(* program's own objects that arrive meanwhile.  The C call stack is a     *)
(* sequence of frames, innermost first; the program's callbacks are frames *)
(* in which it may start, abort or return.                                 *)
(***************************************************************************)
EXTENDS Naturals, Sequences, FiniteSets, SequencesExt

CONSTANTS Requests,       \* struct ubus_request objects, each used once
          ModeOf,         \* Requests -> "sync", "timed", "async" or "notify"
          Invokes,        \* messages for the program's own objects
          MaxReplies,     \* DATA messages per request
          NotifyTo,       \* the subscriber lists the daemon may answer with
          MaxPeers,       \* UBUS_MAX_NOTIFY_PEERS
          SeqRange,       \* 2^16, the range of request_seq
          MaxStarts,      \* bound: requests started
          MaxRx,          \* bound: messages waiting in the socket
          MayDie          \* may the daemon go away?

\* request_seq does not come round again while the model runs.
ASSUME ReqAssumption ==
  /\ MaxReplies \in Nat /\ MaxPeers \in Nat /\ SeqRange \in Nat
  /\ MaxStarts \in Nat /\ MaxStarts < SeqRange
  /\ \A subs \in NotifyTo : subs \in Seq(Range(subs))

VARIABLES reqs,           \* the fields of every request
          ctxRequests,    \* ctx->requests, first entry first
          ctxPending,     \* ctx->pending, first entry first
          frames,         \* the call stack, innermost frame first
          registered,     \* ctx->sock.registered
          pendingTimer,   \* ctx->pending_timer is armed
          uloopCancelled, \* uloop_cancelled
          requestSeq,     \* ctx->request_seq
          sockEof,        \* ctx->sock.eof
          rx,             \* messages in the socket
          peer            \* what the other side has still to send, and whether it lives

reqVars == <<reqs, ctxRequests, ctxPending, frames, registered, pendingTimer,
             uloopCancelled, requestSeq, sockEof, rx, peer>>

Self == "self"            \* the notifying object's own id, index 0
Sync(r) == ModeOf[r] \in {"sync", "timed"}

Frame(k, r, b) == [k |-> k, r |-> r, buf |-> b, saved |-> FALSE, reg |-> FALSE]
Top == Head(frames)
Below == Tail(frames)

\* The innermost frame keeps v: ubus_handle_data that it has read a message and looks
\* at uloop_cancelled from then on, ubus_complete_request the value to restore.
TopSaved(v) == <<[Top EXCEPT !.saved = v]>> \o Below

\* ctx->stack_depth: how many ubus_complete_request are running.
stack_depth(fs) == Cardinality({i \in DOMAIN fs : fs[i].k = "sync"})

\* The program's own code is running: its main loop or one of its callbacks.
AppRuns == Top.k \in {"main", "data", "obj", "done"}

NewReq == [st |-> "idle", seq |-> 0, blocked |-> FALSE, status_msg |-> FALSE,
           from |-> "none", pend |-> 0, npend |-> {}, ids |-> <<>>,
           heard |-> 0, completed |-> 0, gaveUp |-> FALSE]

ReqInit ==
  /\ reqs = [r \in Requests |-> NewReq]
  /\ ctxRequests = <<>> /\ ctxPending = <<>> /\ rx = <<>>
  /\ frames = <<Frame("main", "none", "none")>>
  /\ registered \in BOOLEAN
  /\ pendingTimer = FALSE /\ uloopCancelled = FALSE /\ sockEof = FALSE
  /\ requestSeq = 0
  /\ peer = [dead |-> FALSE, invokes |-> Invokes,
             data |-> [r \in Requests |-> MaxReplies],
             owes |-> [r \in Requests |-> <<>>]]

-----------------------------------------------------------------------------
(* Starting and aborting requests. *)

\* The request is sent under the next sequence number.
Started(r) == [reqs[r] EXCEPT !.st = "active",
                              !.seq = (requestSeq + 1) % SeqRange,
                              !.npend = IF ModeOf[r] = "notify" THEN {0} ELSE {}]

\* ubus_send_msg cannot write: the caller is told and nothing is waited for.
StartFails(r) ==
  /\ peer.dead
  /\ reqs' = [reqs EXCEPT ![r].st = "failed"]
  /\ requestSeq' = (requestSeq + 1) % SeqRange
  /\ sockEof' = TRUE
  /\ UNCHANGED <<ctxRequests, ctxPending, frames, registered, pendingTimer,
                 uloopCancelled, rx, peer>>

StartSent(r) ==
  /\ ~peer.dead
  /\ requestSeq' = (requestSeq + 1) % SeqRange
  /\ reqs' = [reqs EXCEPT ![r] = Started(r)]
  /\ ctxRequests' = <<r>> \o ctxRequests
  /\ peer' = [peer EXCEPT !.owes[r] = IF ModeOf[r] = "notify" THEN <<Self>> ELSE <<"obj">>]

\* ubus_invoke, ubus_lookup and the like: start and wait.
ubus_invoke(r) ==
  /\ AppRuns /\ requestSeq < MaxStarts /\ reqs[r].st = "idle" /\ Sync(r)
  /\ \/ StartFails(r)
     \/ /\ StartSent(r)
        /\ frames' = <<[Frame("sync", r, "none") EXCEPT !.reg = registered]>> \o frames
        /\ registered' = TRUE
        /\ UNCHANGED <<ctxPending, pendingTimer, uloopCancelled, sockEof, rx>>

\* ubus_invoke_async or ubus_notify_async, then ubus_complete_request_async.
ubus_invoke_async(r) ==
  /\ AppRuns /\ requestSeq < MaxStarts /\ reqs[r].st = "idle" /\ ~Sync(r)
  /\ \/ StartFails(r)
     \/ /\ StartSent(r)
        /\ UNCHANGED <<ctxPending, frames, registered, pendingTimer,
                       uloopCancelled, sockEof, rx>>

\* An abort takes a listed request off the list and drops the data put aside;
\* one that is no longer listed is left as it is.
ubus_abort_request(r) ==
  /\ AppRuns /\ ~Sync(r) /\ reqs[r].st = "active" /\ ~reqs[r].gaveUp
  /\ IF r \in Range(ctxRequests)
     THEN /\ reqs' = [reqs EXCEPT ![r].st = "aborted", ![r].gaveUp = TRUE, ![r].pend = 0]
          /\ ctxRequests' = RemoveFirst(ctxRequests, r)
     ELSE /\ reqs' = [reqs EXCEPT ![r].gaveUp = TRUE]
          /\ UNCHANGED ctxRequests
  /\ UNCHANGED <<ctxPending, frames, registered, pendingTimer, uloopCancelled,
                 requestSeq, sockEof, rx, peer>>

-----------------------------------------------------------------------------
(* What a message does to the request it belongs to.  Each operator gives  *)
(* the values after the message: [q, ls, fs, cancel].                      *)

\* complete_cb: the synchronous one ends the loop, the program's own is a frame.
\* It is called once, complete_cb being cleared first.
ubus_req_complete_cb(q, ls, fs, r) ==
  IF Sync(r)
  THEN [q |-> q, ls |-> ls, fs |-> fs, cancel |-> TRUE]
  ELSE [q |-> [q EXCEPT ![r].completed = @ + 1, ![r].st = "done"], ls |-> ls,
        fs |-> <<Frame("done", r, "none")>> \o fs, cancel |-> FALSE]

ubus_set_req_status(q, ls, fs, r, from) ==
  LET q1 == [q EXCEPT ![r].status_msg = TRUE, ![r].from = from]
      ls1 == RemoveFirst(ls, r)
  IN  IF q1[r].blocked
      THEN [q |-> q1, ls |-> ls1, fs |-> fs, cancel |-> FALSE]
      ELSE ubus_req_complete_cb(q1, ls1, fs, r)

\* The first index a notification still waits for from this subscriber.
ubus_find_notify_id(n, from) ==
  LET idx == {i \in n.npend : IF i = 0 THEN from = Self ELSE n.ids[i] = from}
  IN  IF idx = {} THEN Len(n.ids) + 1 ELSE CHOOSE i \in idx : \A j \in idx : i <= j

Matches(r, m) ==
  /\ reqs[r].seq = m.seq
  /\ IF ModeOf[r] = "notify"
     THEN ubus_find_notify_id(reqs[r], m.peer) <= Len(reqs[r].ids)
     ELSE m.peer = "obj"

\* The first request in the list the message belongs to, 0 for none.
ubus_find_request(m) == SelectInSeq(ctxRequests, LAMBDA r : Matches(r, m))

\* The daemon's status lists the subscribers to wait for; theirs end the waiting.
ubus_process_notify_status(r, m, fs) ==
  LET id == ubus_find_notify_id(reqs[r], m.peer)
      subs == SubSeq(m.subs, 1, IF Len(m.subs) < MaxPeers THEN Len(m.subs) ELSE MaxPeers)
      q1 == [reqs EXCEPT ![r].npend = (@ \ {id}) \union (IF id = 0 THEN DOMAIN subs ELSE {}),
                         ![r].ids = IF id = 0 THEN subs ELSE @,
                         ![r].heard = @ + 1]
  IN  IF q1[r].npend = {}
      THEN ubus_set_req_status(q1, ctxRequests, fs, r, m.req)
      ELSE [q |-> q1, ls |-> ctxRequests, fs |-> fs, cancel |-> FALSE]

\* Data that comes while a data callback of the request runs is put aside.
ubus_process_req_data(r, fs) ==
  IF reqs[r].blocked
  THEN [q |-> [reqs EXCEPT ![r].pend = @ + 1], ls |-> ctxRequests, fs |-> fs, cancel |-> FALSE]
  ELSE [q |-> [reqs EXCEPT ![r].blocked = TRUE], ls |-> ctxRequests,
        fs |-> <<Frame("data", r, "msgbuf")>> \o fs, cancel |-> FALSE]

Unmatched(fs) == [q |-> reqs, ls |-> ctxRequests, fs |-> fs, cancel |-> FALSE]

ubus_process_req_msg(m, fs) ==
  LET i == ubus_find_request(m)
      r == ctxRequests[i]
  IN  CASE i = 0 -> Unmatched(fs)
        [] i # 0 /\ m.t = "DATA" -> ubus_process_req_data(r, fs)
        [] i # 0 /\ m.t = "STATUS" /\ ModeOf[r] = "notify" -> ubus_process_notify_status(r, m, fs)
        [] OTHER -> ubus_set_req_status(reqs, ctxRequests, fs, r, m.req)

-----------------------------------------------------------------------------
(* ubus_handle_data: read messages until none is left or the loop is told  *)
(* to end.                                                                 *)

\* Reading a message overwrites the buffer the callbacks below still look at.
Overwrite(fs) == [i \in DOMAIN fs |->
  IF fs[i].buf = "msgbuf" THEN [fs[i] EXCEPT !.buf = "overwritten"] ELSE fs[i]]

\* Fault: the handler's message stays in the context's buffer.
ubus_process_obj_msg_Shared(m, fs) == <<Frame("obj", m, "msgbuf")>> \o fs

\* A handler gets the buffer to itself; a nested read allocates another.
ubus_process_obj_msg(m, fs) == <<Frame("obj", m, "own")>> \o fs

\* Messages for objects wait while a request is being waited for.
ubus_queue_msg(m) ==
  /\ ctxPending' = <<m>> \o ctxPending
  /\ pendingTimer' = (pendingTimer \/ registered)

\* The loop of ubus_handle_data goes on.
Reading == Top.k = "handle" /\ ~(Top.saved /\ uloopCancelled)

Deferred(fs) == stack_depth(fs) > 0

ReadReqMsg ==
  /\ Reading /\ rx # <<>> /\ Head(rx).t # "INVOKE"
  /\ LET after == ubus_process_req_msg(Head(rx), Overwrite(TopSaved(TRUE)))
     IN  /\ reqs' = after.q /\ ctxRequests' = after.ls /\ frames' = after.fs
         /\ uloopCancelled' = (uloopCancelled \/ after.cancel)
  /\ rx' = Tail(rx)
  /\ UNCHANGED <<ctxPending, registered, pendingTimer, requestSeq, sockEof, peer>>

ReadObjMsg ==
  /\ Reading /\ rx # <<>> /\ Head(rx).t = "INVOKE"
  /\ LET fs == Overwrite(TopSaved(TRUE))
     IN  IF Deferred(frames)
         THEN ubus_queue_msg(Head(rx).req) /\ frames' = fs
         ELSE /\ frames' = ubus_process_obj_msg(Head(rx).req, fs)
              /\ UNCHANGED <<ctxPending, pendingTimer>>
  /\ rx' = Tail(rx)
  /\ UNCHANGED <<reqs, ctxRequests, registered, uloopCancelled, requestSeq, sockEof, peer>>

\* Nothing more to read, or told to end: back to the loop, which restores
\* uloop_cancelled when it is that of a synchronous request.
EndReading ==
  /\ Top.k = "handle"
  /\ rx = <<>> \/ ~Reading
  /\ LET eof == sockEof \/ (Reading /\ peer.dead)
     IN  /\ sockEof' = eof
         /\ uloopCancelled' = IF Head(Below).k = "sync" THEN Head(Below).saved
                              ELSE uloopCancelled \/ (eof /\ registered)
  /\ frames' = Below
  /\ UNCHANGED <<reqs, ctxRequests, ctxPending, registered, pendingTimer, requestSeq, rx, peer>>

-----------------------------------------------------------------------------
(* The loops that call it. *)

\* The program's uloop: the socket is readable, or at its end.
SocketEvent ==
  /\ Top.k = "main" /\ registered /\ ~uloopCancelled
  /\ rx # <<>> \/ (peer.dead /\ ~sockEof)
  /\ frames' = <<Frame("handle", "none", "none")>> \o frames
  /\ UNCHANGED <<reqs, ctxRequests, ctxPending, registered, pendingTimer,
                 uloopCancelled, requestSeq, sockEof, rx, peer>>

PendingTimer ==
  /\ Top.k = "main" /\ pendingTimer /\ ~uloopCancelled
  /\ pendingTimer' = FALSE
  /\ frames' = <<Frame("ctxPending", "none", "none")>> \o frames
  /\ UNCHANGED <<reqs, ctxRequests, ctxPending, registered, uloopCancelled,
                 requestSeq, sockEof, rx, peer>>

\* One round of the loop of ubus_complete_request.
PollData ==
  /\ Top.k = "sync" /\ ~reqs[Top.r].status_msg
  /\ frames' = <<Frame("handle", "none", "none")>> \o TopSaved(uloopCancelled)
  /\ uloopCancelled' = FALSE
  /\ UNCHANGED <<reqs, ctxRequests, ctxPending, registered, pendingTimer,
                 requestSeq, sockEof, rx, peer>>

\* Fault: a request that timed out stays in the list.
RequestTimesOut_Listed ==
  /\ Top.k = "sync" /\ ModeOf[Top.r] = "timed" /\ ~reqs[Top.r].status_msg
  /\ reqs' = [reqs EXCEPT ![Top.r].status_msg = TRUE, ![Top.r].from = "timeout"]
  /\ UNCHANGED <<ctxRequests, frames, uloopCancelled, ctxPending, registered,
                 pendingTimer, requestSeq, sockEof, rx, peer>>

\* time_end has passed.
RequestTimesOut ==
  /\ Top.k = "sync" /\ ModeOf[Top.r] = "timed" /\ ~reqs[Top.r].status_msg
  /\ LET after == ubus_set_req_status(reqs, ctxRequests, frames, Top.r, "timeout")
     IN  reqs' = after.q /\ ctxRequests' = after.ls
  /\ UNCHANGED <<frames, uloopCancelled, ctxPending, registered, pendingTimer,
                 requestSeq, sockEof, rx, peer>>

\* The end of ubus_complete_request: an outer one is made to look at its status;
\* a context that had no loop serves what was queued at once.
RequestReturns ==
  /\ Top.k = "sync" /\ reqs[Top.r].status_msg
  /\ reqs' = [reqs EXCEPT ![Top.r].st = "done", ![Top.r].completed = @ + 1]
  /\ uloopCancelled' = (uloopCancelled \/ stack_depth(Below) > 0)
  /\ registered' = Top.reg
  /\ frames' = IF ~Top.reg /\ stack_depth(Below) = 0
               THEN <<Frame("ctxPending", "none", "none")>> \o Below
               ELSE Below
  /\ UNCHANGED <<ctxRequests, ctxPending, pendingTimer, requestSeq, sockEof, rx, peer>>

\* ubus_process_pending_msg: the loop over ctx->pending.
ServePending ==
  /\ Top.k = "ctxPending"
  /\ IF stack_depth(frames) = 0 /\ ctxPending # <<>>
     THEN /\ ctxPending' = Tail(ctxPending)
          /\ frames' = <<Frame("obj", Head(ctxPending), "own")>> \o frames
     ELSE frames' = Below /\ UNCHANGED ctxPending
  /\ UNCHANGED <<reqs, ctxRequests, registered, pendingTimer, uloopCancelled,
                 requestSeq, sockEof, rx, peer>>

-----------------------------------------------------------------------------
(* Returning from the program's callbacks. *)

CallbackReturns ==
  /\ Top.k \in {"obj", "done"}
  /\ frames' = Below
  /\ UNCHANGED <<reqs, ctxRequests, ctxPending, registered, pendingTimer,
                 uloopCancelled, requestSeq, sockEof, rx, peer>>

\* The data put aside is given to the callback first, then the request may end.
DataCallbackReturns ==
  /\ Top.k = "data"
  /\ LET r == Top.r
         q1 == [reqs EXCEPT ![r].blocked = FALSE]
         after == IF reqs[r].status_msg THEN ubus_req_complete_cb(q1, ctxRequests, Below, r)
                  ELSE [q |-> q1, ls |-> ctxRequests, fs |-> Below, cancel |-> FALSE]
     IN  IF reqs[r].pend > 0
         THEN /\ reqs' = [reqs EXCEPT ![r].pend = @ - 1]
              /\ frames' = <<Frame("data", r, "own")>> \o Below
              /\ UNCHANGED uloopCancelled
         ELSE /\ reqs' = after.q /\ frames' = after.fs
              /\ uloopCancelled' = (uloopCancelled \/ after.cancel)
  /\ UNCHANGED <<ctxRequests, ctxPending, registered, pendingTimer, requestSeq,
                 sockEof, rx, peer>>

-----------------------------------------------------------------------------
(* The other side: the daemon and the peers behind it. *)

Arrives(m) == /\ ~peer.dead /\ Len(rx) < MaxRx /\ rx' = Append(rx, m)
              /\ UNCHANGED <<reqs, ctxRequests, ctxPending, frames, registered, pendingTimer,
                             uloopCancelled, requestSeq, sockEof>>

Msg(t, r, from, subs) == [t |-> t, req |-> r, seq |-> reqs[r].seq, peer |-> from, subs |-> subs]

SendsData(r) ==
  /\ peer.owes[r] = <<"obj">> /\ peer.data[r] > 0
  /\ Arrives(Msg("DATA", r, "obj", <<>>))
  /\ peer' = [peer EXCEPT !.data[r] = @ - 1]

\* The last word on a request; a notification is followed by its subscribers' own.
SendsStatus(r) ==
  /\ peer.owes[r] # <<>>
  /\ \E i \in DOMAIN peer.owes[r], subs \in NotifyTo :
       /\ peer.owes[r][i] = Self \/ subs = <<>>
       /\ Arrives(Msg("STATUS", r, peer.owes[r][i], subs))
       /\ peer' = [peer EXCEPT !.owes[r] = RemoveAt(@, i) \o subs]

SendsInvoke(m) ==
  /\ m \in peer.invokes
  /\ Arrives([t |-> "INVOKE", req |-> m, seq |-> 0, peer |-> "obj", subs |-> <<>>])
  /\ peer' = [peer EXCEPT !.invokes = @ \ {m}]

Dies ==
  /\ MayDie /\ ~peer.dead
  /\ peer' = [peer EXCEPT !.dead = TRUE]
  /\ UNCHANGED <<reqs, ctxRequests, ctxPending, frames, registered, pendingTimer,
                 uloopCancelled, requestSeq, sockEof, rx>>

ReqNext ==
  \/ \E r \in Requests : \/ ubus_invoke(r) \/ ubus_invoke_async(r) \/ ubus_abort_request(r)
                         \/ SendsData(r) \/ SendsStatus(r)
  \/ \E m \in Invokes : SendsInvoke(m)
  \/ ReadReqMsg \/ ReadObjMsg \/ EndReading \/ SocketEvent \/ PendingTimer
  \/ PollData \/ RequestTimesOut \/ RequestReturns \/ ServePending
  \/ CallbackReturns \/ DataCallbackReturns \/ Dies

ReqSpec == ReqInit /\ [][ReqNext]_reqVars

-----------------------------------------------------------------------------
(* Properties. *)

\* Every request in ctx->requests is one the program still keeps: no synchronous
\* request whose stack frame is gone (a timeout, a late answer), none aborted.
ListedAlive ==
  \A r \in Range(ctxRequests) :
    /\ reqs[r].st = "active" /\ ~reqs[r].status_msg
    /\ Sync(r) => \E i \in DOMAIN frames : frames[i].k = "sync" /\ frames[i].r = r

\* A request is completed once, after its last data callback has returned and with
\* nothing put aside, also when its status came while such a callback was running.
CompletionLast ==
  \A r \in Requests :
    /\ reqs[r].completed <= 1
    /\ reqs[r].completed = 1 =>
         /\ reqs[r].pend = 0 /\ ~reqs[r].blocked
         /\ \A i \in DOMAIN frames : ~(frames[i].k = "data" /\ frames[i].r = r)

\* A request ends with the status sent for it, or its own timeout: a late answer
\* to a request given up never ends another.
StatusIsMine == \A r \in Requests : reqs[r].from \in {"none", "timeout", r}

\* A handler of the program's objects is never called from within a synchronous
\* request, so it never meets the program in the middle of one.
HandlersOutsideRequests ==
  \A i \in DOMAIN frames : frames[i].k = "obj" => ~\E j \in i..Len(frames) : frames[j].k = "sync"

\* The message a handler looks at is not overwritten by the requests it makes.
HandlerDataIntact == \A i \in DOMAIN frames : frames[i].k = "obj" => frames[i].buf = "own"

\* What was queued during a request is not forgotten: when the program is back in
\* its loop a timer is armed to serve it.
QueuedIsServed == ctxPending # <<>> /\ Len(frames) = 1 => pendingTimer

\* A notification is complete only when the daemon and each subscriber it listed
\* has answered, the same subscriber twice if it is listed twice.
NotifyWaitsForAll ==
  \A r \in Requests : ModeOf[r] = "notify" /\ reqs[r].completed = 1 =>
    reqs[r].heard = 1 + Len(reqs[r].ids)

\* Requests end as they should, however they are nested, time out and are answered:
\* none is listed once its memory is gone, each is completed once, by its own status
\* and after its last data, and a notification after all its subscribers.
RequestsEndRight == ListedAlive /\ CompletionLast /\ StatusIsMine /\ NotifyWaitsForAll

\* The program's handlers run outside its synchronous requests, each with its own
\* message intact, and none of the messages for them is forgotten.
HandlersServed == HandlersOutsideRequests /\ HandlerDataIntact /\ QueuedIsServed
=============================================================================
