----------------------------- MODULE UbusWrapper -----------------------------
(***************************************************************************)
(* The native half of the Java binding, java_ubus_example/jni/             *)
(* ubus_wrapper.c: the contexts of outgoing calls, the list of returned    *)
(* calls, the list of incoming requests and the wakeup pipe.  Everything   *)
(* here but ubus_wrap_wakeup runs on the poller's thread.  An action of    *)
(* this module is one C function; UbusPoller composes them with the Java   *)
(* threads.                                                                *)
(*                                                                         *)
(* The bus (libubus and the daemon behind it) is seen through the messages *)
(* it hands to the wrapper: the answer to a name lookup, the DATA and the  *)
(* STATUS of a call, an INVOKE of an object of this process, and the loss  *)
(* of the connection.                                                      *)
(***************************************************************************)
EXTENDS Naturals, Sequences, FiniteSets

CONSTANTS
  Invokers,     \* outgoing calls: one UbusInvoker object each
  Incoming,     \* requests other clients send to objects of this process
  MaxInvoke,    \* slots of the poller's call table (MAX_INVOKE, 100)
  FetchSize,    \* length of the pendingReturns array (100)
  AcceptLimit,  \* the 100 of assert(_accept_incoming < 100)
  MaxObjects,   \* MAX_OBJECTS, 100
  ReadSize,     \* bytes pull_all_data takes from the pipe (1024)
  NULL

Slots == 0 .. MaxInvoke - 1

\* FLAG_REQ_PENDING: on libubus' request list.  FLAG_RET_PENDING: on the
\* list of returned calls.
Flags == {"REQ", "RET"}

\* A struct ubus_wrap_context; result is TRUE once recv_cb_json_out ran.
Context == [flags : SUBSET Flags, index : Slots, result : BOOLEAN]

ASSUME WrapperAssumption ==
  /\ MaxInvoke \in Nat \ {0}
  /\ FetchSize \in Nat \ {0}
  /\ AcceptLimit \in Nat
  /\ MaxObjects \in Nat
  /\ ReadSize \in Nat \ {0}
  /\ NULL \notin Invokers \union Incoming \union Nat \union Context

VARIABLES
  wrap,      \* _upp->wrap of each call: NULL, or an allocated context
  requests,  \* ctx->requests of libubus: the calls on its list
  returns,   \* _ubus_return_reqs
  incoming,  \* _ubus_incoming_reqs
  held,      \* the accepted requests: _upp->req of a UbusRequest
  accepted,  \* _accept_incoming
  pending,   \* ctx->pending of libubus: INVOKEs seen during a lookup
  unsent,    \* INVOKEs the bus has not delivered yet
  nobject,   \* _ubus_nobject
  pipe,      \* bytes in the wakeup pipe
  bus,       \* the handle: "none" (NULL), "up", or "dead" (peer gone)
  aborted    \* an assert of the wrapper has failed

wrapVars == <<wrap, requests, returns, incoming, held, accepted, pending,
              unsent, nobject, pipe, bus, aborted>>

WrapperTypeOK ==
  /\ wrap \in [Invokers -> Context \union {NULL}]
  /\ requests \subseteq Invokers
  /\ returns \in Seq(Invokers)
  /\ incoming \in Seq(Incoming)
  /\ held \subseteq Incoming
  /\ accepted \in Nat
  /\ pending \in Seq(Incoming)
  /\ unsent \subseteq Incoming
  /\ nobject \in Nat
  /\ pipe \in Nat
  /\ bus \in {"none", "up", "dead"}
  /\ aborted \in BOOLEAN

\* The process before ubus_wrap_init.
WrapperInit ==
  /\ wrap = [i \in Invokers |-> NULL]
  /\ requests = {}
  /\ returns = <<>>
  /\ incoming = <<>>
  /\ held = {}
  /\ accepted = 0
  /\ pending = <<>>
  /\ unsent = Incoming
  /\ nobject = 0
  /\ pipe = 0
  /\ bus = "none"
  /\ aborted = FALSE

-----------------------------------------------------------------------------
\* ubus_wrap_init connects when there is no handle; a handle whose peer is
\* gone is kept for ever.  up says whether ubus_connect succeeded.
ubus_wrap_init(up) ==
  bus' = IF bus # "none" THEN bus ELSE IF up THEN "up" ELSE "none"

\* Fault: the byte is not written.
ubus_wrap_wakeup_Silent(opened) == pipe' = pipe

\* write() of one byte; the poller's thread creates the pipe before it
\* first looks at the queue.
ubus_wrap_wakeup(opened) == pipe' = IF opened THEN pipe + 1 ELSE pipe

\* pull_all_data: take what one read() takes, then uloop_end().
pull_all_data ==
  /\ pipe > 0
  /\ pipe' = IF pipe > ReadSize THEN pipe - ReadSize ELSE 0
  /\ UNCHANGED <<wrap, requests, returns, incoming, held, accepted, pending,
                 unsent, nobject, bus, aborted>>

-----------------------------------------------------------------------------
(* Outgoing calls *)

NewContext(index) == [flags |-> {}, index |-> index, result |-> FALSE]

\* ubus_wrap_invoke up to its exit: sent when the lookup answered with an
\* id and the INVOKE was written, otherwise the invoke_fail path, which
\* reports the call as returned at once.
ubus_wrap_invoke(i, index, sent) ==
  LET ctx == IF wrap[i] = NULL THEN NewContext(index)
                               ELSE [wrap[i] EXCEPT !.index = index]
  IN /\ aborted' = (aborted \/ ctx.flags # {})
     /\ IF sent
          THEN /\ wrap' = [wrap EXCEPT ![i] =
                             [ctx EXCEPT !.flags = @ \union {"REQ"}]]
               /\ requests' = requests \union {i}
               /\ UNCHANGED returns
          ELSE /\ wrap' = [wrap EXCEPT ![i] =
                             [ctx EXCEPT !.flags = @ \union {"RET"}]]
               /\ returns' = Append(returns, i)
               /\ UNCHANGED requests

\* recv_cb_json_out: the DATA message of a call on the request list.
recv_cb_json_out(i) ==
  /\ bus = "up"
  /\ i \in requests
  /\ wrap' = [wrap EXCEPT ![i].result = TRUE]
  /\ UNCHANGED <<requests, returns, incoming, held, accepted, pending, unsent,
                 nobject, pipe, bus, aborted>>

\* ubus_sync_req_cb: the STATUS message of a call on the request list.
\* libubus takes it off that list, the wrapper puts it on the return list.
ubus_sync_req_cb(i) ==
  /\ bus = "up"
  /\ i \in requests
  /\ requests' = requests \ {i}
  /\ returns' = Append(returns, i)
  /\ wrap' = [wrap EXCEPT ![i].flags = (@ \ {"REQ"}) \union {"RET"}]
  /\ UNCHANGED <<incoming, held, accepted, pending, unsent, nobject, pipe, bus,
                 aborted>>

\* ubus_wrap_get_result: the JSON text, if the context has one.
getResult(i) == wrap[i] # NULL /\ wrap[i].result

\* How many calls one fetch takes off the return list.
FetchCount == IF Len(returns) > FetchSize THEN FetchSize ELSE Len(returns)

\* The loop of ubus_wrap_fetch_return; indices[k] is the slot number it
\* stores for the k-th call taken off the list.
ubus_wrap_fetch_return(indices) ==
  /\ indices = [k \in 1 .. FetchCount |-> wrap[returns[k]].index]
  /\ wrap' = [i \in Invokers |->
                IF \E k \in 1 .. FetchCount : returns[k] = i
                  THEN [wrap[i] EXCEPT !.flags = @ \ {"RET"}]
                  ELSE wrap[i]]
  /\ returns' = SubSeq(returns, FetchCount + 1, Len(returns))
  /\ UNCHANGED <<requests, incoming, held, accepted, pending, unsent, nobject,
                 pipe, bus, aborted>>

\* list_del of the node of call i, which is on list s.
list_del(s, i) ==
  LET k == CHOOSE k \in 1 .. Len(s) : s[k] = i
  IN SubSeq(s, 1, k - 1) \o SubSeq(s, k + 1, Len(s))

\* Fault: the return list keeps the freed context.
ubus_wrap_release_StaysListed(i) ==
  /\ requests' = requests \ {i}
  /\ wrap' = [wrap EXCEPT ![i] = NULL]
  /\ UNCHANGED <<returns, aborted>>

\* Fault: nothing to take off a list, so nothing is freed.
ubus_wrap_release_Leaks(i) ==
  LET flags == IF wrap[i] = NULL THEN {} ELSE wrap[i].flags
  IN /\ requests' = requests \ {i}
     /\ returns' = IF "RET" \in flags THEN list_del(returns, i) ELSE returns
     /\ wrap' = IF flags = {} THEN wrap ELSE [wrap EXCEPT ![i] = NULL]
     /\ UNCHANGED aborted

\* ubus_wrap_release: off both lists as the flags say, then free().
ubus_wrap_release(i) ==
  LET flags == IF wrap[i] = NULL THEN {} ELSE wrap[i].flags
  IN /\ requests' = IF "REQ" \in flags THEN requests \ {i} ELSE requests
     /\ returns' = IF "RET" \in flags THEN list_del(returns, i) ELSE returns
     /\ wrap' = [wrap EXCEPT ![i] = NULL]
     /\ aborted' = (aborted \/ ("REQ" \in flags /\ bus = "none"))

-----------------------------------------------------------------------------
(* Incoming requests *)

\* dummy_defer_cb for each request of rs, in that order: the assert, then
\* the request goes to the tail of the incoming list.  Its unknown-method
\* branch is dead: libubus calls it for methods of the object only.
dummy_defer_cb(rs) ==
  /\ aborted' = (aborted \/ ~(accepted < AcceptLimit))
  /\ incoming' = incoming \o rs

\* An INVOKE read from the socket while no lookup is waiting.  Other clients
\* can only call an object that has been added.
DeliverInvoke(r) ==
  /\ bus = "up"
  /\ nobject > 0
  /\ r \in unsent
  /\ unsent' = unsent \ {r}
  /\ dummy_defer_cb(<<r>>)
  /\ UNCHANGED <<wrap, requests, returns, held, accepted, pending, nobject, pipe,
                 bus>>

\* An INVOKE read while a lookup waits (stack_depth > 0): ubus_queue_msg
\* puts it at the head of ctx->pending and arms the timer.
QueueInvoke(r) ==
  /\ bus = "up"
  /\ nobject > 0
  /\ r \in unsent
  /\ unsent' = unsent \ {r}
  /\ pending' = <<r>> \o pending
  /\ UNCHANGED <<wrap, requests, returns, incoming, held, accepted, nobject, pipe,
                 bus, aborted>>

\* ubus_process_pending_msg, run by the timer QueueInvoke armed.
ProcessPending ==
  /\ pending # <<>>
  /\ dummy_defer_cb(pending)
  /\ pending' = <<>>
  /\ UNCHANGED <<wrap, requests, returns, held, accepted, unsent, nobject, pipe,
                 bus>>

\* Take the head of the incoming list for a UbusRequest, and count it.
ubus_wrap_accept_request ==
  /\ incoming # <<>>
  /\ incoming' = Tail(incoming)
  /\ held' = held \union {Head(incoming)}
  /\ accepted' = accepted + 1

\* Fault: _accept_incoming is not decremented.
ubus_wrap_reply_Uncounted(r) ==
  /\ held' = held \ {r}
  /\ UNCHANGED <<accepted, aborted>>

\* ubus_wrap_reply: DATA and STATUS go out (lost when the peer is gone),
\* the request is freed.  The assert wants one that is still held.
ubus_wrap_reply(r) ==
  /\ aborted' = (aborted \/ r \notin held)
  /\ held' = held \ {r}
  /\ accepted' = accepted - 1

-----------------------------------------------------------------------------
(* Objects and the connection *)

\* ubus_wrap_add_object: ok is the outcome of ubus_add_object; anything but
\* success, or a full table, fails an assert.
ubus_wrap_add_object(ok) ==
  IF nobject + 1 < MaxObjects /\ ok
    THEN nobject' = nobject + 1 /\ UNCHANGED aborted
    ELSE aborted' = TRUE /\ UNCHANGED nobject

\* The daemon goes away.  By the time libubus calls connection_lost, uloop
\* has taken the hung-up socket off its list, and ubus_default_connection_lost
\* ends uloop_run only for a registered one: nobody is woken.
BusLost ==
  /\ bus = "up"
  /\ bus' = "dead"
  /\ UNCHANGED <<wrap, requests, returns, incoming, held, accepted, pending,
                 unsent, nobject, pipe, aborted>>
=============================================================================
