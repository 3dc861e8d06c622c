------------------------------ MODULE UbusPoller ------------------------------
(***************************************************************************)
(* The Java half of the binding, UbusPoller.java, on top of the native     *)
(* half: the threads that call ubusInvoke and ubusAddObject, the poller's  *)
(* thread, and the application threads that serve incoming requests.       *)
(*                                                                         *)
(* Threads share a UbusInvoker object (its state, guarded by its own       *)
(* monitor) and mInvokableQueue (guarded by its monitor).  A block that    *)
(* holds a monitor is one step, with one exception: the poller keeps the   *)
(* monitor of the invoker it runs while the native code waits for the bus, *)
(* so the steps of that caller are disabled meanwhile (MonitorFree).       *)
(***************************************************************************)
EXTENDS UbusWrapper

CONSTANTS
  Adders,   \* the Invokers that are ubusAddObject calls
  Refused,  \* those of them whose path another client holds already
  Workers,  \* application threads looping on acceptRequest / replyRequest
  ConnectOutcomes,  \* what ubus_connect may return (TRUE: connected)
  BusMayDie         \* may the daemon go away?

ASSUME PollerAssumption ==
  /\ Adders \subseteq Invokers
  /\ Refused \subseteq Adders
  /\ ConnectOutcomes \subseteq BOOLEAN
  /\ ConnectOutcomes # {}
  /\ BusMayDie \in BOOLEAN
  /\ Invokers \intersect Incoming = {}
  /\ NULL \notin Workers

VARIABLES
  caller,   \* where each thread is inside remoteInvoke()
  state,    \* UbusInvoker.invokable, of calls and of incoming requests
  queued,   \* UbusInvokable.mQueued
  result,   \* what the call left for its caller: UbusInvoker.result or
            \* objectIndex
  queue,    \* mInvokableQueue
  slots,    \* mPendingInvoke
  lastIndex,\* mLastIndex
  index,    \* UbusInvoker.index
  poller,   \* where the poller's thread is in loop()
  cur,      \* the invokable it took from the queue
  fetched,  \* the part of pendingReturns it has not looked at yet
  accept,   \* mRequestQueue
  worker,   \* where each application thread is
  holding   \* the request it serves

callVars == <<wrap, requests, returns>>
inVars == <<incoming, held, accepted, pending, unsent>>
queueVars == <<queued, queue>>
tableVars == <<slots, lastIndex, index>>
appVars == <<accept, worker, holding>>
javaVars == <<caller, state, queued, result, queue, slots,
              lastIndex, index, poller, cur, fetched, accept, worker, holding>>
vars == <<wrapVars, javaVars>>

Invokables == Invokers \union Incoming

States == {"Initialize", "Queued", "Pending", "Canceled", "Completed",
           "PendingRequest"}

\* timed: in wait(4000).  expired, notified: woken from it, by the clock or
\* by notify().  waiting: in the second wait().  checking: woken from that.
CallerPcs == {"idle", "timed", "expired", "notified", "waiting", "checking",
              "done"}

PollerPcs == {"init", "drain", "run", "native", "fetch", "uloop", "collect",
              "complete", "pull"}

TypeOK ==
  /\ WrapperTypeOK
  /\ caller \in [Invokers -> CallerPcs]
  /\ state \in [Invokables -> States]
  /\ queued \in [Invokables -> BOOLEAN]
  /\ result \in [Invokers -> BOOLEAN]
  /\ queue \in Seq(Invokables)
  /\ slots \in [Slots -> Invokers \union {NULL}]
  /\ lastIndex \in Slots
  /\ index \in [Invokers -> Slots]
  /\ poller \in PollerPcs
  /\ cur \in Invokables \union {NULL}
  /\ fetched \in Seq(Slots)
  /\ accept \in Seq(Incoming)
  /\ worker \in [Workers -> {"call", "waiting", "ready", "serving"}]
  /\ holding \in [Workers -> Incoming \union {NULL}]

Init ==
  /\ WrapperInit
  /\ caller = [i \in Invokers |-> "idle"]
  /\ state = [x \in Invokables |-> "Initialize"]
  /\ queued = [x \in Invokables |-> FALSE]
  /\ result = [i \in Invokers |-> FALSE]
  /\ queue = <<>>
  /\ slots = [k \in Slots |-> NULL]
  /\ lastIndex = 0
  /\ index = [i \in Invokers |-> 0]
  /\ poller = "init"
  /\ cur = NULL
  /\ fetched = <<>>
  /\ accept = <<>>
  /\ worker = [w \in Workers |-> "call"]
  /\ holding = [w \in Workers |-> NULL]

-----------------------------------------------------------------------------
(* Shared operations *)

\* UbusPoller.add: at most one entry per invokable, and a byte in the pipe.
add(x) ==
  IF queued[x]
    THEN UNCHANGED <<pipe, queueVars>>
    ELSE /\ queued' = [queued EXCEPT ![x] = TRUE]
         /\ queue' = Append(queue, x)
         /\ ubus_wrap_wakeup(poller # "init")

\* Fault: a caller in its second wait is not woken.
notify_LosesWaiting(i) ==
  caller' = [caller EXCEPT ![i] = IF @ = "timed" THEN "notified" ELSE @]

\* notify() on the invoker: its caller is the only thread that waits there.
notify(i) ==
  caller' = [caller EXCEPT ![i] =
               CASE @ = "timed"   -> "notified"
                 [] @ = "waiting" -> "checking"
                 [] OTHER         -> @]

\* setState: assign, then notify().
setState(i, s) ==
  /\ state' = [state EXCEPT ![i] = s]
  /\ notify(i)

\* The poller does not hold the monitor of x across a wait for the bus.
MonitorFree(x) == ~(poller = "native" /\ cur = x)

\* findEmptyInvokeSlot: the first free slot from mLastIndex on, wrapping
\* around once; -1 (here NULL) when the table is full.
SlotFrom(k) == (lastIndex + k) % MaxInvoke
findEmptyInvokeSlot ==
  LET free == {k \in Slots : slots[SlotFrom(k)] = NULL}
  IN IF free = {} THEN NULL
     ELSE SlotFrom(CHOOSE k \in free : \A j \in free : k <= j)

-----------------------------------------------------------------------------
(* A caller of ubusInvoke or ubusAddObject: remoteInvoke() *)

\* invokable.start(this) queues the call; setState's notify() finds nobody
\* waiting; then the caller releases the monitor in wait(4000).
Start(i) ==
  /\ caller[i] = "idle"
  /\ add(i)
  /\ state' = [state EXCEPT ![i] = "Queued"]
  /\ caller' = [caller EXCEPT ![i] = "timed"]
  /\ UNCHANGED <<callVars, inVars, nobject, bus, aborted, result, tableVars,
                 poller, cur, fetched, appVars>>

\* wait(4000) runs out.
Timeout(i) ==
  /\ caller[i] = "timed"
  /\ caller' = [caller EXCEPT ![i] = "expired"]
  /\ UNCHANGED <<wrapVars, state, result, queueVars, tableVars, poller, cur,
                 fetched, appVars>>

\* Fault: the caller leaves after cancel() whatever the state.
Cancel_Hasty(i) ==
  /\ caller[i] \in {"expired", "notified"}
  /\ MonitorFree(i)
  /\ IF state[i] = "Pending"
       THEN add(i) /\ state' = [state EXCEPT ![i] = "Canceled"]
       ELSE UNCHANGED <<pipe, state, queueVars>>
  /\ caller' = [caller EXCEPT ![i] = "done"]
  /\ UNCHANGED <<callVars, inVars, nobject, bus, aborted, result, tableVars,
                 poller, cur, fetched, appVars>>

\* Woken from the timed wait: invokable.cancel(this), then leave if the call
\* is completed, else wait().  cancel is JavaCancel in the Queued state,
\* JNICancel in the Pending state and nothing in the others.
Cancel(i) ==
  /\ caller[i] \in {"expired", "notified"}
  /\ MonitorFree(i)
  /\ CASE state[i] = "Queued" ->
            /\ state' = [state EXCEPT ![i] = "Completed"]
            /\ UNCHANGED <<pipe, queueVars>>
       [] state[i] = "Pending" ->
            /\ add(i)
            /\ state' = [state EXCEPT ![i] = "Canceled"]
       [] OTHER -> UNCHANGED <<pipe, state, queueVars>>
  /\ caller' = [caller EXCEPT ![i] =
                  IF state'[i] = "Completed" THEN "done" ELSE "waiting"]
  /\ UNCHANGED <<callVars, inVars, nobject, bus, aborted, result, tableVars,
                 poller, cur, fetched, appVars>>

\* Woken from the second wait.
Recheck(i) ==
  /\ caller[i] = "checking"
  /\ MonitorFree(i)
  /\ caller' = [caller EXCEPT ![i] =
                  IF state[i] = "Completed" THEN "done" ELSE "waiting"]
  /\ UNCHANGED <<wrapVars, state, result, queueVars, tableVars, poller, cur,
                 fetched, appVars>>

-----------------------------------------------------------------------------
(* The poller's thread: loop() *)

\* Back to the head of the inner loop; its invokable goes out of scope.
NextInvokable == poller' = "drain" /\ cur' = NULL

\* UbusJNI.init(), which may fail to connect.
PollerInit ==
  /\ poller = "init"
  /\ \E up \in ConnectOutcomes : ubus_wrap_init(up)
  /\ poller' = "drain"
  /\ UNCHANGED <<callVars, inVars, nobject, pipe, aborted, caller, state,
                 result, queueVars, tableVars, cur, fetched, appVars>>

\* Take the head of mInvokableQueue, or go on to fetchReturn.
Drain ==
  /\ poller = "drain"
  /\ IF queue = <<>>
       THEN /\ poller' = "fetch"
            /\ UNCHANGED <<queueVars, cur>>
       ELSE /\ poller' = "run"
            /\ cur' = Head(queue)
            /\ queue' = Tail(queue)
            /\ queued' = [queued EXCEPT ![Head(queue)] = FALSE]
  /\ UNCHANGED <<wrapVars, caller, state, result, tableVars, fetched,
                 appVars>>

\* invokeNative of an ubusInvoke call ends: the wrapper has the call, the
\* table has the invoker, and setState(Pending) notifies the caller.
InvokeNativeEnds(k, sent) ==
  /\ ubus_wrap_invoke(cur, k, sent)
  /\ slots' = [slots EXCEPT ![k] = cur]
  /\ index' = [index EXCEPT ![cur] = k]
  /\ setState(cur, "Pending")
  /\ NextInvokable

\* run() of a Queued ubusInvoke call.  Without a free slot the call is
\* completed with no result.  Otherwise the wrapper asks the bus for the
\* object and waits for the answer ("native"), or finds at once that it
\* cannot ask: no handle, or one whose peer is gone.
RunInvoke ==
  /\ poller = "run"
  /\ cur \in Invokers \ Adders
  /\ state[cur] = "Queued"
  /\ IF findEmptyInvokeSlot = NULL
       THEN /\ setState(cur, "Completed")
            /\ NextInvokable
            /\ UNCHANGED <<callVars, bus, aborted, tableVars>>
       ELSE /\ \E up \in ConnectOutcomes : ubus_wrap_init(up)
            /\ lastIndex' = findEmptyInvokeSlot
            /\ IF bus' = "up"
                 THEN /\ poller' = "native"
                      /\ UNCHANGED <<callVars, aborted, caller, state, slots,
                                     index, cur>>
                 ELSE InvokeNativeEnds(findEmptyInvokeSlot, FALSE)
  /\ UNCHANGED <<inVars, nobject, pipe, result, queueVars, fetched,
                 appVars>>

\* The bus answers the lookup: the object was found and the INVOKE is
\* written, or not.  ubus_complete_request returns in no other way, so a
\* lookup whose bus goes away meanwhile never ends.
LookupAnswered ==
  /\ poller = "native"
  /\ cur \in Invokers \ Adders
  /\ bus = "up"
  /\ \E sent \in BOOLEAN : InvokeNativeEnds(lastIndex, sent)
  /\ UNCHANGED <<inVars, nobject, pipe, bus, result, queueVars, lastIndex,
                 fetched, appVars>>

\* run() of a Queued ubusAddObject call; ubus_add_object waits for the bus
\* too.  Without a working handle an assert fails.
RunAddObject ==
  /\ poller = "run"
  /\ cur \in Adders
  /\ state[cur] = "Queued"
  /\ \E up \in ConnectOutcomes : ubus_wrap_init(up)
  /\ IF bus' = "up" THEN poller' = "native" /\ UNCHANGED <<aborted, cur>>
                    ELSE aborted' = TRUE /\ UNCHANGED <<poller, cur>>
  /\ UNCHANGED <<callVars, inVars, nobject, pipe, caller, state, result,
                 queueVars, tableVars, fetched, appVars>>

\* The bus answers the ADD_OBJECT: UbusAddObjectInvoker.invokeNative ends.
AddObjectAnswered ==
  /\ poller = "native"
  /\ cur \in Adders
  /\ bus = "up"
  /\ ubus_wrap_add_object(cur \notin Refused)
  /\ result' = [result EXCEPT ![cur] = TRUE]
  /\ setState(cur, "Completed")
  /\ NextInvokable
  /\ UNCHANGED <<callVars, inVars, pipe, bus, queueVars, tableVars,
                 fetched, appVars>>

\* run() of a call in the Canceled state: JNIAbort.  In the Completed state
\* it is javaAbort.  In the Pending state run() is empty.
RunOther ==
  /\ poller = "run"
  /\ cur \in Invokers
  /\ state[cur] # "Queued"
  /\ CASE state[cur] = "Canceled" ->
            /\ ubus_wrap_release(cur)
            /\ slots' = [slots EXCEPT ![index[cur]] = NULL]
            /\ setState(cur, "Completed")
       [] state[cur] = "Completed" ->
            /\ setState(cur, "Completed")
            /\ UNCHANGED <<callVars, aborted, slots>>
       [] OTHER -> UNCHANGED <<callVars, aborted, caller, state, slots>>
  /\ NextInvokable
  /\ UNCHANGED <<inVars, nobject, pipe, bus, result, queueVars, lastIndex,
                 index, fetched, appVars>>

\* run() of an incoming request: UbusRequest.invokeNative sends the reply.
RunReply ==
  /\ poller = "run"
  /\ cur \in Incoming
  /\ state[cur] = "Queued"
  /\ ubus_wrap_reply(cur)
  /\ state' = [state EXCEPT ![cur] = "Completed"]
  /\ NextInvokable
  /\ UNCHANGED <<callVars, incoming, pending, unsent, nobject, pipe, bus,
                 caller, result, queueVars, tableVars, fetched, appVars>>

\* fetchReturn blocks in uloop_run only when no call has returned.
Fetch ==
  /\ poller = "fetch"
  /\ poller' = IF returns = <<>> THEN "uloop" ELSE "collect"
  /\ UNCHANGED <<wrapVars, caller, state, result, queueVars, tableVars, cur,
                 fetched, appVars>>

Collect ==
  /\ poller = "collect"
  /\ ubus_wrap_fetch_return(fetched')
  /\ poller' = "complete"
  /\ UNCHANGED <<caller, state, result, queueVars, tableVars, cur, appVars>>

\* Fault: the loop over pendingReturns looks at an index twice.
Complete_Again ==
  /\ poller = "complete"
  /\ fetched # <<>>
  /\ LET i == slots[Head(fetched)]
     IN IF i = NULL
          THEN UNCHANGED <<callVars, aborted, caller, state, result, slots>>
          ELSE /\ slots' = [slots EXCEPT ![Head(fetched)] = NULL]
               /\ result' = [result EXCEPT ![i] = getResult(i)]
               /\ ubus_wrap_release(i)
               /\ setState(i, "Completed")
  /\ UNCHANGED <<inVars, nobject, pipe, bus, queueVars, lastIndex, index,
                 poller, cur, fetched, appVars>>

\* One index of pendingReturns: completeInvoke of the call in that slot.
Complete ==
  /\ poller = "complete"
  /\ fetched # <<>>
  /\ fetched' = Tail(fetched)
  /\ LET k == Head(fetched)
         i == slots[k]
     IN IF i = NULL
          THEN UNCHANGED <<callVars, aborted, caller, state, result, slots>>
          ELSE /\ slots' = [slots EXCEPT ![k] = NULL, ![index[i]] = NULL]
               /\ result' = [result EXCEPT ![i] = getResult(i)]
               /\ ubus_wrap_release(i)
               /\ setState(i, "Completed")
  /\ UNCHANGED <<inVars, nobject, pipe, bus, queueVars, lastIndex, index,
                 poller, cur, appVars>>

\* All returns looked at.
CompleteEnd ==
  /\ poller = "complete"
  /\ fetched = <<>>
  /\ poller' = "pull"
  /\ UNCHANGED <<wrapVars, caller, state, result, queueVars, tableVars, cur,
                 fetched, appVars>>

\* Fault: no notify().
WakeWorker_Never == UNCHANGED worker

\* mRequestQueue.notify() wakes one waiting application thread.
WakeWorker ==
  \/ /\ \A w \in Workers : worker[w] # "waiting"
     /\ UNCHANGED worker
  \/ \E w \in Workers :
       /\ worker[w] = "waiting"
       /\ worker' = [worker EXCEPT ![w] = "ready"]

\* req.pullRequest() and the hand-over to mRequestQueue; then again.
Pull ==
  /\ poller = "pull"
  /\ IF incoming = <<>>
       THEN /\ poller' = "drain"
            /\ UNCHANGED <<incoming, held, accepted, state, accept, worker>>
       ELSE /\ ubus_wrap_accept_request
            /\ state' = [state EXCEPT ![Head(incoming)] = "PendingRequest"]
            /\ accept' = Append(accept, Head(incoming))
            /\ WakeWorker
            /\ UNCHANGED poller
  /\ UNCHANGED <<callVars, pending, unsent, nobject, pipe, bus, aborted,
                 caller, result, queueVars, tableVars, cur, fetched, holding>>

\* A callback of this process' own making that ends uloop_run: the wakeup
\* pipe, or the timer of the postponed INVOKEs.
UloopWoken ==
  /\ poller = "uloop"
  /\ pull_all_data \/ ProcessPending
  /\ poller' = "collect"
  /\ UNCHANGED <<caller, state, result, queueVars, tableVars, cur, fetched,
                 appVars>>

\* A message of the bus that ends uloop_run: the STATUS of a call, or an
\* INVOKE.
BusEndsUloop ==
  /\ poller = "uloop"
  /\ \/ \E i \in Invokers : ubus_sync_req_cb(i)
     \/ \E r \in Incoming : DeliverInvoke(r)
  /\ poller' = "collect"
  /\ UNCHANGED <<caller, state, result, queueVars, tableVars, cur, fetched,
                 appVars>>

\* A message of the bus that lets uloop_run, or the wait for a lookup, go
\* on: the DATA of a call, and inside the lookup's wait the STATUS of
\* another call and an INVOKE.
BusMessage ==
  /\ \/ /\ poller \in {"uloop", "native"}
        /\ \E i \in Invokers : recv_cb_json_out(i)
     \/ /\ poller = "native"
        /\ \/ \E i \in Invokers : ubus_sync_req_cb(i)
           \/ \E r \in Incoming : QueueInvoke(r)
  /\ UNCHANGED javaVars

\* The daemon goes away, wherever the poller is.
Disconnect ==
  /\ BusMayDie
  /\ BusLost
  /\ UNCHANGED javaVars

-----------------------------------------------------------------------------
(* An application thread: acceptRequest() and replyRequest() *)

AcceptRequest(w) ==
  /\ worker[w] \in {"call", "ready"}
  /\ IF accept = <<>>
       THEN /\ worker' = [worker EXCEPT ![w] = "waiting"]
            /\ UNCHANGED <<accept, holding>>
       ELSE /\ worker' = [worker EXCEPT ![w] = "serving"]
            /\ holding' = [holding EXCEPT ![w] = Head(accept)]
            /\ accept' = Tail(accept)
  /\ UNCHANGED <<wrapVars, caller, state, result, queueVars, tableVars,
                 poller, cur, fetched>>

\* invokable.start: in the PendingRequest state it queues the reply.
ReplyRequest(w) ==
  /\ worker[w] = "serving"
  /\ add(holding[w])
  /\ state' = [state EXCEPT ![holding[w]] = "Queued"]
  /\ worker' = [worker EXCEPT ![w] = "call"]
  /\ holding' = [holding EXCEPT ![w] = NULL]
  /\ UNCHANGED <<callVars, inVars, nobject, bus, aborted, caller, result,
                 tableVars, poller, cur, fetched, accept>>

-----------------------------------------------------------------------------
\* The steps of the poller's thread that wait for nothing outside.
Poller ==
  \/ PollerInit \/ Drain \/ RunInvoke \/ RunAddObject \/ RunOther \/ RunReply
  \/ Fetch \/ Collect \/ Complete \/ CompleteEnd \/ Pull \/ UloopWoken

\* The workload is finite: every call has returned and the poller sleeps.
Finished ==
  /\ \A i \in Invokers : caller[i] = "done"
  /\ poller = "uloop"
  /\ pipe = 0
  /\ UNCHANGED vars

\* A failed assert ends the process.
Next ==
  /\ ~aborted
  /\ \/ Poller
     \/ LookupAnswered \/ AddObjectAnswered
     \/ BusEndsUloop \/ BusMessage \/ Disconnect
     \/ \E i \in Invokers : Start(i) \/ Timeout(i) \/ Cancel(i) \/ Recheck(i)
     \/ \E w \in Workers : AcceptRequest(w) \/ ReplyRequest(w)
     \/ Finished

\* Threads are scheduled, a timed wait ends, and the bus answers a lookup
\* as long as it is there.  Nothing is assumed about the peers that answer
\* calls or send requests, nor about callers starting.
Fairness ==
  /\ WF_vars(~aborted /\ Poller)
  /\ WF_vars(~aborted /\ (LookupAnswered \/ AddObjectAnswered))
  /\ \A i \in Invokers :
       WF_vars(~aborted /\ (Timeout(i) \/ Cancel(i) \/ Recheck(i)))
  /\ \A w \in Workers :
       WF_vars(~aborted /\ (AcceptRequest(w) \/ ReplyRequest(w)))

Spec == Init /\ [][Next]_vars
FairSpec == Spec /\ Fairness
-----------------------------------------------------------------------------
(* Properties *)

\* No use after free: a call is on libubus' request list, or on the list of
\* returned calls, exactly when its context is allocated and carries the
\* flag of that list, and it is on one of them at most once (the embedded
\* list_heads of struct ubus_wrap_context).
ListsMatchFlags ==
  TypeOK /\ \A i \in Invokers :
    LET flags == IF wrap[i] = NULL THEN {} ELSE wrap[i].flags
        places == {k \in 1 .. Len(returns) : returns[k] = i}
    IN /\ i \in requests <=> "REQ" \in flags
       /\ places # {} <=> "RET" \in flags
       /\ Cardinality(places) <= 1
       /\ flags # Flags

\* The slot table and the invokers agree: a call the wrapper knows (Pending
\* or Canceled) sits in the slot whose number its context reports to
\* fetchReturn, and a slot holds only such a call.  A number in pendingReturns
\* still names the call that returned: nothing between fetchReturn and
\* completeInvoke frees or reuses the slot.
SlotsMatchCalls ==
  /\ \A i \in Invokers : state[i] \in {"Pending", "Canceled"} =>
       /\ slots[index[i]] = i
       /\ wrap[i] # NULL /\ wrap[i].index = index[i]
  /\ \A k \in Slots : slots[k] # NULL =>
       state[slots[k]] \in {"Pending", "Canceled"} /\ index[slots[k]] = k
  /\ \A n \in 1 .. Len(fetched) :
       /\ slots[fetched[n]] # NULL
       /\ wrap[slots[fetched[n]]] # NULL
       /\ wrap[slots[fetched[n]]].flags = {}
       /\ \A m \in 1 .. Len(fetched) : fetched[m] = fetched[n] => m = n

\* No lost wakeup: the poller never sleeps in uloop_run with work queued and
\* nothing in the pipe, although add() tests no state of the poller and the
\* pipe is read without the queue's lock.
NoLostWakeup ==
  poller = "uloop" /\ queue # <<>> => pipe > 0

\* A call that is over holds no native memory: whichever of the reply, the
\* timeout and the cancel wins, the context has been released.
CompletedReleased ==
  \A i \in Invokers : state[i] = "Completed" => wrap[i] = NULL

Listed(x, s) == \E k \in 1 .. Len(s) : s[k] = x

\* A request taken from the bus is in one place (mRequestQueue, an
\* application thread, the reply queue) until it is answered, and
\* _accept_incoming counts exactly those, so that the assert on it holds.
AcceptedAccounted ==
  /\ ~aborted
  /\ accepted = Cardinality(held)
  /\ held = {r \in Incoming : state[r] \in {"PendingRequest", "Queued"}}
  /\ \A r \in held :
       \/ Listed(r, accept) /\ ~queued[r] /\ cur # r
       \/ \E w \in Workers : holding[w] = r /\ ~queued[r] /\ cur # r
       \/ queued[r] /\ Listed(r, queue) /\ cur # r
       \/ cur = r /\ poller = "run"

\* Once remoteInvoke() has returned, the poller, which may still hold the
\* call in its queue, never changes what the caller got.  A call returns a
\* result only if the peer's DATA reached the wrapper while the call was
\* outstanding, and returns one whenever it is the reply that completes it:
\* completeInvoke reads the result before it releases it.
ReturnedIsFinal ==
  [][/\ \A i \in Invokers : caller[i] = "done" =>
          caller'[i] = "done" /\ result'[i] = result[i] /\ state'[i] = state[i]
     /\ \A i \in Invokers \ Adders :
          /\ result'[i] # result[i] => wrap[i] # NULL /\ wrap[i].result
          /\ poller = "complete" /\ wrap[i] # NULL /\ wrap'[i] = NULL =>
               result'[i] = wrap[i].result]_vars

\* Every call returns: ubusInvoke and ubusAddObject end, with a result or
\* without.
EveryCallReturns ==
  \A i \in Invokers : caller[i] # "idle" ~> caller[i] = "done"

\* Every request that was accepted is answered, given an application that
\* serves.
EveryRequestAnswered ==
  \A r \in Incoming :
    state[r] = "PendingRequest" ~> state[r] = "Completed" \/ aborted

\* The wait(4000) of remoteInvoke: a call that the bus has taken is given up
\* only after its 4000 ms.
CancelOnlyAfterTimeout ==
  [][\A i \in Invokers :
       state[i] = "Pending" /\ state'[i] = "Canceled" =>
         caller[i] = "expired"]_vars
=============================================================================
