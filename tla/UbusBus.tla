------------------------------- MODULE UbusBus -------------------------------
(***************************************************************************)
(* Calls and notifications across the bus: a client sends a request, the   *)
(* daemon forwards it to the client that has the object and forgets it,    *)
(* the answer finds its way back by the ids in the message.  A client that *)
(* waits for an answer does not serve its own objects meanwhile.  A client *)
(* may leave or remove an object at any time, a timed call be given up,    *)
(* and the daemon may have no room for what it sends.                      *)
(***************************************************************************)
EXTENDS Naturals, Sequences, SequencesExt, FiniteSets

CONSTANTS BusClients, BusObjects,
          OwnerOf,        \* BusObjects -> BusClients
          Watching,       \* <<subscriber, target>>: subscriptions at the start
          TimedCallers,   \* clients whose requests carry a timeout
          MaxCalls,       \* bound: requests per client
          MayLeave,       \* clients that may leave
          MayRemove,      \* objects that may be removed
          MaxLost         \* bound: requests that lose a message

\* "none" is id 0; nobody subscribes to an object of its own (ubusd_handle_add_watch).
ASSUME BusAssumption ==
  /\ OwnerOf \in [BusObjects -> BusClients] /\ IsFiniteSet(BusObjects) /\ MaxCalls \in Nat
  /\ "none" \notin BusObjects \union BusClients
  /\ \A s, o \in BusObjects : <<s, o>> \in Watching => OwnerOf[s] # OwnerOf[o]

VARIABLES here,           \* clients the daemon knows
          freed,          \* objects the daemon has removed
          unlisted,       \* objects that are out of their client's ctx->objects
          up, down,       \* per client: messages to the daemon, from the daemon
          call,           \* per client: the request it waits for
          heldMsgs,       \* per client: requests for its objects, not taken up yet
          deferred,       \* per client: requests whose handlers answer later
          ran,            \* per client and request: the objects that handled it
          incomplete      \* <<client, request>>: those of which the daemon dropped a message

busVars == <<here, freed, unlisted, up, down, call, heldMsgs, deferred, ran, incomplete>>

NotCalling == [st |-> "idle", type |-> "none", seq |-> 0, want |-> {}, asked |-> {}]
Waits(c) == call[c].st = "waiting"

BusInit ==
  /\ here = BusClients
  /\ up = [c \in BusClients |-> <<>>] /\ down = [c \in BusClients |-> <<>>]
  /\ call = [c \in BusClients |-> NotCalling]
  /\ heldMsgs = [c \in BusClients |-> {}] /\ deferred = [c \in BusClients |-> {}]
  /\ freed = {} /\ unlisted = {} /\ incomplete = {}
  /\ ran = [c \in BusClients |-> [n \in 1..MaxCalls |-> <<>>]]

BusMsg(t, o, peer, seq) == [type |-> t, obj |-> o, peer |-> peer, seq |-> seq, subs |-> <<>>]

\* What the daemon has for id o: nothing once the object was removed or its client left.
Known(o) == o \in BusObjects \ freed /\ OwnerOf[o] \in here

\* obj->subscribers, subscriptions ending with either side.
Subscribers(o) == {s \in BusObjects : <<s, o>> \in Watching /\ Known(s) /\ Known(o)}

-----------------------------------------------------------------------------
(* The client that asks. *)

Request(c, type, o, want, asked) ==
  /\ c \in here /\ ~Waits(c) /\ call[c].seq < MaxCalls
  /\ call' = [call EXCEPT ![c] = [st |-> "waiting", type |-> type, seq |-> call[c].seq + 1,
                                  want |-> want, asked |-> asked]]
  /\ up' = [up EXCEPT ![c] = Append(@, BusMsg(type, o, "none", call[c].seq + 1))]
  /\ UNCHANGED <<here, freed, unlisted, down, heldMsgs, deferred, ran, incomplete>>

ubus_invoke_object(c, o) == OwnerOf[o] # c /\ Request(c, "INVOKE", o, {o}, {o})

\* The daemon's answer is waited for under the notifying object's own id.
ubus_notify_subscribers(c, o) ==
  OwnerOf[o] = c /\ o \notin unlisted /\ Request(c, "NOTIFY", o, {o}, {})

\* ubus_remove_object; the answer is under id 0.
RemoveObject(c, o) ==
  OwnerOf[o] = c /\ o \in MayRemove \ unlisted /\ Request(c, "REMOVE_OBJECT", o, {"none"}, {})

\* The time of ubus_complete_request is up; ubus_remove_object gives none.
GiveUp(c) ==
  /\ Waits(c) /\ c \in TimedCallers /\ call[c].type # "REMOVE_OBJECT"
  /\ call' = [call EXCEPT ![c].st = "timeout", ![c].want = {}]
  /\ UNCHANGED <<here, freed, unlisted, up, down, heldMsgs, deferred, ran, incomplete>>

\* Fault: the subscribers the daemon lists are not waited for.
Answered_First(k, m) == [k EXCEPT !.st = "done", !.want = {}]

\* A status ends an invocation or a removal; a notification waits for everyone it went
\* to, and takes any status of the daemon, NOT_FOUND too, for a list of them.
Answered(k, m) ==
  LET left == (k.want \ {m.peer}) \union Range(m.subs)
  IN  IF m.type = "NOT_FOUND" /\ k.type # "NOTIFY" THEN [k EXCEPT !.st = "notfound", !.want = {}]
      ELSE [k EXCEPT !.want = left, !.asked = @ \union Range(m.subs),
                     !.st = IF left = {} THEN "done" ELSE "waiting"]

\* A status, the daemon's or a callee's, for the request waited for or a late one.
ReceiveStatus(c) ==
  /\ down[c] # <<>> /\ Head(down[c]).type \in {"STATUS", "NOT_FOUND"} /\ c \in here
  /\ LET m == Head(down[c])
         mine == Waits(c) /\ m.seq = call[c].seq /\ m.peer \in call[c].want
     IN  call' = IF mine THEN [call EXCEPT ![c] = Answered(call[c], m)] ELSE call
  /\ down' = [down EXCEPT ![c] = Tail(@)]
  /\ UNCHANGED <<here, freed, unlisted, up, heldMsgs, deferred, ran, incomplete>>

\* The data that comes before the status of a removal.
ubus_remove_object_cb(c) ==
  /\ down[c] # <<>> /\ Head(down[c]).type = "DATA" /\ c \in here
  /\ unlisted' = IF Waits(c) /\ Head(down[c]).seq = call[c].seq
                 THEN unlisted \union {Head(down[c]).obj} ELSE unlisted
  /\ down' = [down EXCEPT ![c] = Tail(@)]
  /\ UNCHANGED <<here, freed, up, call, heldMsgs, deferred, ran, incomplete>>

-----------------------------------------------------------------------------
(* The client that is asked. *)

\* The message reaches the library, which puts it aside during a request.
ReceiveInvoke(c) ==
  /\ down[c] # <<>> /\ Head(down[c]).type = "INVOKE" /\ c \in here
  /\ heldMsgs' = [heldMsgs EXCEPT ![c] = @ \union {Head(down[c])}]
  /\ down' = [down EXCEPT ![c] = Tail(@)]
  /\ UNCHANGED <<here, freed, unlisted, up, call, deferred, ran, incomplete>>

\* ubus_complete_deferred_request; an object that was not found leaves its struct of the
\* request zeroed, so that nobody is named.
Answer(m) == BusMsg("STATUS", m.obj, m.peer, m.seq)
ZeroedAnswer == BusMsg("STATUS", "none", "none", 0)

\* The handler runs, or there is none and the status says so; it is answered at once or
\* put off (req.deferred).
ubus_process_invoke(c, m) ==
  /\ c \in here /\ m \in heldMsgs[c] /\ ~Waits(c)
  /\ heldMsgs' = [heldMsgs EXCEPT ![c] = @ \ {m}]
  /\ \/ /\ m.obj \in unlisted
        /\ up' = [up EXCEPT ![c] = Append(@, ZeroedAnswer)]
        /\ UNCHANGED <<deferred, ran>>
     \/ /\ m.obj \notin unlisted
        /\ ran' = [ran EXCEPT ![m.peer][m.seq] = Append(@, m.obj)]
        /\ \/ up' = [up EXCEPT ![c] = Append(@, Answer(m))] /\ UNCHANGED deferred
           \/ deferred' = [deferred EXCEPT ![c] = @ \union {m}] /\ UNCHANGED up
  /\ UNCHANGED <<here, freed, unlisted, down, call, incomplete>>

\* The program answers later, whatever has become of the object.
ubus_complete_deferred_request(c, m) ==
  /\ c \in here /\ m \in deferred[c]
  /\ deferred' = [deferred EXCEPT ![c] = @ \ {m}]
  /\ up' = [up EXCEPT ![c] = Append(@, Answer(m))]
  /\ UNCHANGED <<here, freed, unlisted, down, call, heldMsgs, ran, incomplete>>

-----------------------------------------------------------------------------
(* The daemon.  A message is known by the one it is for, an object or "none", the    *)
(* client that asked; those in `drop` find the ring full, or the socket full before  *)
(* an empty ring.                                                                    *)

ubus_msg_send(ds, c, m, dropped) == IF dropped THEN ds ELSE [ds EXCEPT ![c] = Append(@, m)]

NotFoundStatus(m, peer) == BusMsg("NOT_FOUND", m.obj, peer, m.seq)

ubusd_handle_invoke(cl, m, drop) ==
  IF ~Known(m.obj) THEN ubus_msg_send(down, cl, NotFoundStatus(m, m.obj), "none" \in drop)
  ELSE ubus_msg_send(down, OwnerOf[m.obj], BusMsg("INVOKE", m.obj, cl, m.seq), m.obj \in drop)

\* What client c is sent of a notification: ubusd_forward_invoke for each of its objects
\* that subscribe.
Forwarded(c, cl, m, drop) ==
  LET subs == SetToSeq({s \in Subscribers(m.obj) \ drop : OwnerOf[s] = c})
  IN  [i \in DOMAIN subs |-> BusMsg("INVOKE", subs[i], cl, m.seq)]

\* The status for the sender, with the list of subscribers.
Listing(m) == [BusMsg("STATUS", m.obj, m.obj, m.seq)
                 EXCEPT !.subs = SetToSeq(Subscribers(m.obj))]

\* The list of subscribers to the sender first, then the message to each of them.
ubusd_handle_notify(cl, m, drop) ==
  IF ~Known(m.obj) THEN ubus_msg_send(down, cl, NotFoundStatus(m, m.obj), "none" \in drop)
  ELSE [c \in BusClients |-> ubus_msg_send(down, cl, Listing(m), "none" \in drop)[c]
                               \o Forwarded(c, cl, m, drop)]

\* Data and status; each may be dropped.
ubusd_handle_remove_object(cl, m, drop) ==
  IF ~Known(m.obj) THEN ubus_msg_send(down, cl, NotFoundStatus(m, "none"), "none" \in drop)
  ELSE LET data == ubus_msg_send(down, cl, BusMsg("DATA", m.obj, "none", m.seq), m.obj \in drop)
       IN  ubus_msg_send(data, cl, BusMsg("STATUS", m.obj, "none", m.seq), "none" \in drop)

\* Fault: an answer is not passed on under the id of its object.
ubusd_handle_response_KeepPeer(cl, m, drop) ==
  IF Known(m.obj) /\ OwnerOf[m.obj] = cl /\ m.peer \in here
  THEN ubus_msg_send(down, m.peer, m, "none" \in drop) ELSE down

\* An answer goes to the client whose id it carries, if it is still there.
ubusd_handle_response(cl, m, drop) ==
  IF Known(m.obj) /\ OwnerOf[m.obj] = cl /\ m.peer \in here
  THEN ubus_msg_send(down, m.peer, BusMsg("STATUS", m.obj, m.obj, m.seq), "none" \in drop) ELSE down

\* Whom the daemon's messages are for, and the client whose request it is.
SentFor(cl, m) ==
  CASE m.type = "INVOKE" -> IF Known(m.obj) THEN {m.obj} ELSE {"none"}
    [] m.type = "NOTIFY" -> {"none"} \union Subscribers(m.obj)
    [] m.type = "REMOVE_OBJECT" -> IF Known(m.obj) THEN {m.obj, "none"} ELSE {"none"}
    [] OTHER -> IF ubusd_handle_response(cl, m, {}) # down THEN {"none"} ELSE {}
Asker(cl, m) == IF m.type = "STATUS" THEN m.peer ELSE cl

ubusd_proto_receive_message(cl) ==
  /\ cl \in here /\ up[cl] # <<>>
  /\ LET m == Head(up[cl])
     IN  \E drop \in SUBSET SentFor(cl, m) :
           /\ down' = CASE m.type = "INVOKE" -> ubusd_handle_invoke(cl, m, drop)
                        [] m.type = "NOTIFY" -> ubusd_handle_notify(cl, m, drop)
                        [] m.type = "REMOVE_OBJECT" -> ubusd_handle_remove_object(cl, m, drop)
                        [] OTHER -> ubusd_handle_response(cl, m, drop)
           /\ freed' = IF m.type = "REMOVE_OBJECT" /\ Known(m.obj) THEN freed \union {m.obj} ELSE freed
           /\ incomplete' = IF drop = {} THEN incomplete ELSE incomplete \union {<<Asker(cl, m), m.seq>>}
           /\ Cardinality(incomplete') <= MaxLost
  /\ up' = [up EXCEPT ![cl] = Tail(@)]
  /\ UNCHANGED <<here, unlisted, call, heldMsgs, deferred, ran>>

\* ubusd_proto_free_client: nobody who waits for this client is told.
Leave(c) ==
  /\ c \in here /\ c \in MayLeave
  /\ here' = here \ {c}
  /\ up' = [up EXCEPT ![c] = <<>>] /\ down' = [down EXCEPT ![c] = <<>>]
  /\ heldMsgs' = [heldMsgs EXCEPT ![c] = {}] /\ deferred' = [deferred EXCEPT ![c] = {}]
  /\ call' = [call EXCEPT ![c] = [@ EXCEPT !.st = "left", !.want = {}]]
  /\ UNCHANGED <<freed, unlisted, ran, incomplete>>

BusNext ==
  \E c \in BusClients :
    \/ \E o \in BusObjects :
         ubus_invoke_object(c, o) \/ ubus_notify_subscribers(c, o) \/ RemoveObject(c, o)
    \/ GiveUp(c) \/ ReceiveStatus(c) \/ ubus_remove_object_cb(c) \/ ReceiveInvoke(c)
    \/ \E m \in heldMsgs[c] : ubus_process_invoke(c, m)
    \/ \E m \in deferred[c] : ubus_complete_deferred_request(c, m)
    \/ ubusd_proto_receive_message(c) \/ Leave(c)

BusSpec == BusInit /\ [][BusNext]_busVars

-----------------------------------------------------------------------------
(* Properties. *)

\* Nothing is on its way and every client that may has answered.
AtRest ==
  \A c \in here : up[c] = <<>> /\ down[c] = <<>> /\ (Waits(c) \/ heldMsgs[c] \union deferred[c] = {})

\* The daemon forgets a request it has forwarded, yet, unless the daemon itself drops a
\* message of it, none is lost: once the bus is at rest a client still waits only for an
\* object that is gone (its client left, or it was removed before it answered, which
\* nobody is told), or for another client that itself waits and serves nobody until then.
WaitsForAReason ==
  AtRest => \A c \in here : Waits(c) =>
    \/ <<c, call[c].seq>> \in incomplete
    \/ \E o \in call[c].want \intersect BusObjects :
         ~Known(o) \/ (OwnerOf[o] # c /\ Waits(OwnerOf[o]))

\* No object handles a request twice; one that ended well was handled by exactly
\* the objects it was for, one that found no object by none.
HandledOnce ==
  \A c \in BusClients : call[c].seq > 0 =>
    LET objs == ran[c][call[c].seq]
    IN  /\ IsInjective(objs)
        /\ call[c].st = "done" => Range(objs) = call[c].asked
        /\ call[c].st = "notfound" => objs = <<>>
=============================================================================
