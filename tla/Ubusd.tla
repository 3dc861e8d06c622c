-------------------------------- MODULE Ubusd --------------------------------
(***************************************************************************)
(* The registry of ubusd (ubusd_obj.c, ubusd_id.c, and the handlers of     *)
(* ubusd_proto.c and ubusd_event.c that change it): clients, objects,      *)
(* object types, paths, subscriptions and event listeners.                 *)
(*                                                                         *)
(* The daemon has one thread and a handler runs to its end, so a handler   *)
(* is one step; the notices it sends are in out.  Freeing a client frees   *)
(* its objects one after the other, a step each, with no handler between   *)
(* them.  What the client library (libubus-obj.c) remembers of a type's id *)
(* is part of the state: the daemon acts on the id the library sends.      *)
(***************************************************************************)
EXTENDS Integers, FiniteSets

CONSTANTS
  Clients,
  ObjIds,    \* ids ubus_alloc_id may read from /dev/urandom for an object
  Reserved,  \* those of them below UBUS_SYSTEM_OBJECT_MAX
  TypeIds,   \* ids for object types
  Paths,
  Heard,     \* the object events that clients register for
  MaxSubs,   \* bound: subscriptions of one object to one target
  NULL

\* A struct ubus_object; its lists are in subs and listeners.
Object == [client : Clients, type : TypeIds \union {NULL},
           path : Paths \union {NULL}]

ASSUME UbusdAssumption ==
  /\ IsFiniteSet(ObjIds)
  /\ Reserved \subseteq ObjIds
  /\ Heard \subseteq {"ubus.object.add", "ubus.object.remove"}
  /\ MaxSubs \in Nat
  /\ NULL \notin Clients \union ObjIds \union TypeIds \union Paths
  /\ NULL \notin Object

VARIABLES
  connected,  \* the tree clients
  object,     \* the tree objects: a struct ubus_object by id, or NULL
  refcount,   \* the tree obj_types: the count of each type, 0 when absent
  subs,       \* how often an object (first) is subscribed to a target
  listeners,  \* the tree patterns: which objects hear which object event
  known,      \* type->id in each client's library, NULL for 0
  closing,    \* the client handle_client_disconnect is freeing
  out,        \* what the latest step sent, but for the reply to its request
  crashed     \* has the daemon followed a NULL pointer?

vars == <<connected, object, refcount, subs, listeners, known, closing, out,
          crashed>>

ObjEvents == {"ubus.object.add", "ubus.object.remove"}

\* A message: to whom, of which type, for which object of the receiver,
\* about which object.
Message == [type : {"ACTIVE", "INACTIVE", "UNSUBSCRIBE"} \union ObjEvents,
            to : Clients, obj : ObjIds, about : ObjIds]

TypeOK ==
  /\ connected \subseteq Clients
  /\ object \in [ObjIds -> Object \union {NULL}]
  /\ refcount \in [TypeIds -> Nat]
  /\ subs \in [ObjIds -> [ObjIds -> Nat]]
  /\ listeners \subseteq ObjIds \X ObjEvents
  /\ known \in [Clients -> TypeIds \union {NULL}]
  /\ closing \in Clients \union {NULL}
  /\ out \subseteq Message
  /\ crashed \in BOOLEAN

Init ==
  /\ connected = {}
  /\ object = [o \in ObjIds |-> NULL]
  /\ refcount = [t \in TypeIds |-> 0]
  /\ subs = [s \in ObjIds |-> [t \in ObjIds |-> 0]]
  /\ listeners = {}
  /\ known = [c \in Clients |-> NULL]
  /\ closing = NULL
  /\ out = {}
  /\ crashed = FALSE

-----------------------------------------------------------------------------
\* ubusd_find_object finds it.
Exists(o) == object[o] # NULL
Owns(c, o) == Exists(o) /\ object[o].client = c

\* list_empty(&target->subscribers) is false.
Subscribed(t) == \E s \in ObjIds : subs[s][t] > 0

ToOwner(type, o, about) ==
  [type |-> type, to |-> object[o].client, obj |-> o, about |-> about]

\* ubus_notify_subscription
NotifySubscription(t, active) ==
  ToOwner(IF active THEN "ACTIVE" ELSE "INACTIVE", t, t)

\* ubusd_send_obj_event: the listeners' owners are told of o, which is the
\* sender of nothing: cl is NULL.
ubusd_send_obj_event_None(event, o, heard) == {}  \* Fault: nobody is told.
ubusd_send_obj_event(event, o, heard) ==
  {ToOwner(event, l, o) : l \in {x \in ObjIds : <<x, event>> \in heard}}

\* A handler runs for a connected client.
Serves(c) == ~crashed /\ closing = NULL /\ c \in connected

-----------------------------------------------------------------------------
(* Clients *)

\* ubusd_proto_new_client
Connect(c) ==
  /\ ~crashed /\ closing = NULL
  /\ c \notin connected
  /\ connected' = connected \union {c}
  /\ out' = {}
  /\ UNCHANGED <<object, refcount, subs, listeners, known, closing, crashed>>

\* handle_client_disconnect begins.
Disconnect(c) ==
  /\ Serves(c)
  /\ closing' = c
  /\ out' = {}
  /\ UNCHANGED <<connected, object, refcount, subs, listeners, known, crashed>>

-----------------------------------------------------------------------------
(* Objects *)

\* ubus_alloc_id: any id that is not in the tree.  An id below
\* UBUS_SYSTEM_OBJECT_MAX takes the continue of a do-while, which evaluates
\* the avl_insert of the condition all the same.
ubus_alloc_id(o) == ~Exists(o)

PathTaken_Never(p) == FALSE  \* Fault: the tree takes duplicates.
PathTaken(p) == \E o \in ObjIds : Exists(o) /\ object[o].path = p

\* The type of a new object: none without a path (libubus sends neither
\* attribute); the one the library names, if ubus_get_obj_type finds it; a
\* new one for a signature.
TypeFor(c, p, t) ==
  CASE p = NULL        -> t = NULL
    [] known[c] # NULL -> t = IF refcount[known[c]] > 0 THEN known[c] ELSE NULL
    [] OTHER           -> t \in TypeIds /\ refcount[t] = 0

\* ubus_create_obj_type or ubus_get_obj_type, then the new object's count.
TypeRef(t) == IF t = NULL THEN refcount ELSE [refcount EXCEPT ![t] = @ + 1]

\* Fault: the last reference stays.
TypeUnref_None(t) == refcount
\* ubus_unref_object_type; a type whose count is 0 is freed.
TypeUnref(t) == IF t = NULL THEN refcount ELSE [refcount EXCEPT ![t] = @ - 1]

\* The library's side of it, ubus_add_object_cb: the reply names the type
\* when the request carried a signature.
LearnType(c, p, t) ==
  IF p # NULL /\ known[c] = NULL THEN [known EXCEPT ![c] = t] ELSE known

\* ubus_remove_object_cb: the type is forgotten when the reply names it.
ForgetType(c, named) == IF named THEN [known EXCEPT ![c] = NULL] ELSE known

\* ubusd_handle_add_object with ubusd_create_object, and the library's
\* ubus_add_object around it.  A path that is taken makes the daemon free
\* the new object again: nothing changes.
AddObject(c, p) ==
  /\ Serves(c)
  /\ IF p # NULL /\ PathTaken(p)
       THEN /\ out' = {}
            /\ UNCHANGED <<object, refcount, known>>
       ELSE \E o \in ObjIds, t \in TypeIds \union {NULL} :
              /\ ubus_alloc_id(o)
              /\ TypeFor(c, p, t)
              /\ object' = [object EXCEPT ![o] =
                              [client |-> c, type |-> t, path |-> p]]
              /\ refcount' = TypeRef(t)
              /\ known' = LearnType(c, p, t)
              /\ out' = IF p = NULL THEN {}
                        ELSE ubusd_send_obj_event("ubus.object.add", o, listeners)
  /\ UNCHANGED <<connected, subs, listeners, closing, crashed>>

\* Fault: the object stays on its targets' lists of subscribers.
SubsWithout_Targets(o) ==
  [s \in ObjIds |-> [t \in ObjIds |-> IF t = o THEN 0 ELSE subs[s][t]]]
SubsWithout(o) ==
  [s \in ObjIds |-> [t \in ObjIds |-> IF o \in {s, t} THEN 0 ELSE subs[s][t]]]

\* Fault: the owners of the targets are not told.
FreeNotices_Silent(o) ==
  {ToOwner("UNSUBSCRIBE", s, o) : s \in {x \in ObjIds : subs[x][o] > 0}}

\* The subscription messages of ubusd_free_object: the owners of the targets
\* that lost their last subscriber, the subscribers of o, and o's own owner
\* when it had any.
FreeNotices(o) ==
  LET lost == {t \in ObjIds : subs[o][t] > 0
                              /\ \A s \in ObjIds \ {o} : subs[s][t] = 0}
      orphans == {s \in ObjIds : subs[s][o] > 0}
  IN {NotifySubscription(t, FALSE) : t \in lost}
     \union {ToOwner("UNSUBSCRIBE", s, o) : s \in orphans}
     \union {NotifySubscription(o, FALSE) : s \in orphans}

\* ubusd_event_cleanup_object
ListenersWithout(o) == listeners \ ({o} \X ObjEvents)

\* ubusd_free_object
ubusd_free_object(o) ==
  /\ object' = [object EXCEPT ![o] = NULL]
  /\ subs' = SubsWithout(o)
  /\ listeners' = ListenersWithout(o)
  /\ refcount' = TypeUnref(object[o].type)
  /\ out' = FreeNotices(o) \union
            (IF object[o].path = NULL THEN {}
             ELSE ubusd_send_obj_event("ubus.object.remove", o, ListenersWithout(o)))

\* ubusd_handle_remove_object, and the library's ubus_remove_object around
\* it.  The reply, built in the blob b before the object is freed, names the
\* type when it goes too; every message that freeing sends is built in b as
\* well, and then it is that message's contents the reply carries.
RemoveObject(c, o) ==
  /\ Serves(c)
  /\ Owns(c, o)
  /\ ubusd_free_object(o)
  /\ LET t == object[o].type
         named == t # NULL /\ refcount[t] = 1 /\ out' = {}
     IN known' = ForgetType(c, named)
  /\ UNCHANGED <<connected, closing, crashed>>

\* The loop of ubusd_proto_free_client.
FreeNext ==
  /\ closing # NULL
  /\ \E o \in ObjIds : Owns(closing, o) /\ ubusd_free_object(o)
  /\ UNCHANGED <<connected, known, closing, crashed>>

\* Its end.  A client that connects again starts with types of no id
\* (ubus_refresh_state).
ClientFreed ==
  /\ closing # NULL
  /\ \A o \in ObjIds : ~Owns(closing, o)
  /\ connected' = connected \ {closing}
  /\ known' = [known EXCEPT ![closing] = NULL]
  /\ closing' = NULL
  /\ out' = {}
  /\ UNCHANGED <<object, refcount, subs, listeners, crashed>>

\* ubusd_handle_lookup of the paths ps: ubusd_send_obj for each, which
\* reads the id of the object's type.
Lookup(c, ps) ==
  /\ Serves(c)
  /\ crashed' = \E o \in ObjIds :
                  Exists(o) /\ object[o].path \in ps /\ object[o].type = NULL
  /\ out' = {}
  /\ UNCHANGED <<connected, object, refcount, subs, listeners, known, closing>>

-----------------------------------------------------------------------------
(* Subscriptions and listeners *)

\* ubusd_handle_add_watch: c's object o to another client's object t.
Subscribe(c, o, t) ==
  /\ Serves(c)
  /\ Owns(c, o)
  /\ Exists(t) /\ ~Owns(c, t)
  /\ subs[o][t] < MaxSubs
  /\ subs' = [subs EXCEPT ![o][t] = @ + 1]
  /\ out' = IF Subscribed(t) THEN {} ELSE {NotifySubscription(t, TRUE)}
  /\ UNCHANGED <<connected, object, refcount, listeners, known, closing, crashed>>

\* ubus_unsubscribe finds the list of t empty.
LastLeft(o, t) == subs[o][t] = 1 /\ \A s \in ObjIds \ {o} : subs[s][t] = 0

\* Fault: whether there is such a subscription is not asked.
Unsubscribe_Blind(c, o, t) ==
  /\ Serves(c)
  /\ Owns(c, o) /\ Exists(t)
  /\ subs' = [subs EXCEPT ![o][t] = @ - 1]
  /\ out' = {}
  /\ UNCHANGED <<connected, object, refcount, listeners, known, closing, crashed>>

\* ubusd_handle_remove_watch: one subscription of o to t.
Unsubscribe(c, o, t) ==
  /\ Serves(c)
  /\ Owns(c, o)
  /\ subs[o][t] > 0
  /\ subs' = [subs EXCEPT ![o][t] = @ - 1]
  /\ out' = IF LastLeft(o, t) THEN {NotifySubscription(t, FALSE)} ELSE {}
  /\ UNCHANGED <<connected, object, refcount, listeners, known, closing, crashed>>

\* ubusd_alloc_event_pattern, with a pattern that matches the event.
Listen(c, o, event) ==
  /\ Serves(c)
  /\ Owns(c, o)
  /\ o \notin Reserved
  /\ listeners' = listeners \union {<<o, event>>}
  /\ out' = {}
  /\ UNCHANGED <<connected, object, refcount, subs, known, closing, crashed>>

-----------------------------------------------------------------------------
Next ==
  \/ \E c \in Clients :
       \/ Connect(c) \/ Disconnect(c)
       \/ \E p \in Paths \union {NULL} : AddObject(c, p)
       \/ \E ps \in {Paths} \union {{p} : p \in Paths} : Lookup(c, ps)
       \/ \E o \in ObjIds :
            \/ RemoveObject(c, o)
            \/ \E t \in ObjIds : Subscribe(c, o, t) \/ Unsubscribe(c, o, t)
            \/ \E event \in Heard : Listen(c, o, event)
  \/ FreeNext \/ ClientFreed

Spec == Init /\ [][Next]_vars

-----------------------------------------------------------------------------
(* Properties *)

\* No dangling pointer: every subscription joins two live objects of two
\* different clients, every listener is a live object, and every object
\* belongs to a client that is still there, whatever the order in which
\* clients leave and objects are removed.
NoDangling ==
  /\ \A s, t \in ObjIds : subs[s][t] > 0 =>
       Exists(s) /\ Exists(t) /\ object[s].client # object[t].client
  /\ \A o \in ObjIds, e \in ObjEvents : <<o, e>> \in listeners => Exists(o)
  /\ \A o \in ObjIds : Exists(o) => object[o].client \in connected
  /\ closing # NULL => closing \in connected

\* No two objects have one path, and none loses its path to another.
PathsUnique ==
  \A o1, o2 \in ObjIds :
    Exists(o1) /\ Exists(o2) /\ object[o1].path # NULL
      /\ object[o1].path = object[o2].path => o1 = o2

\* The objects of a type.
Users(t) == {o \in ObjIds : Exists(o) /\ object[o].type = t}

\* The count of a type is the number of its objects: it is freed with the
\* last of them and not before.
RefsMatchUsers == \A t \in TypeIds : refcount[t] = Cardinality(Users(t))

\* What the step sends about t is what happens to t's list of subscribers.
StatusTold(t) ==
  /\ NotifySubscription(t, TRUE) \in out' <=> ~Subscribed(t) /\ Subscribed(t)'
  /\ NotifySubscription(t, FALSE) \in out' <=> Subscribed(t) /\ ~Subscribed(t)'

\* A subscription status change is told to the owner, and NOTIFY is sent for
\* nothing else: the owner of an object hears ACTIVE when it gets its first
\* subscriber and INACTIVE when it loses the last, through whichever of
\* unsubscription, removal and disconnection that happens.
StatusChangesTold ==
  [][\A t \in ObjIds : Exists(t) /\ Exists(t)' => StatusTold(t)]_<<object, subs>>

\* The step tells those that lose o.
LossTold(o) ==
  /\ \A s \in ObjIds : subs[s][o] > 0 => ToOwner("UNSUBSCRIBE", s, o) \in out'
  /\ object[o].path # NULL =>
       \A l \in ObjIds \ {o} : <<l, "ubus.object.remove">> \in listeners =>
         ToOwner("ubus.object.remove", l, o) \in out'

\* When an object disappears its subscribers hear UNSUBSCRIBE, and when it
\* had a path every listener for that event hears of it, but for those that
\* disappear with it.
DisappearanceTold ==
  [][\A o \in ObjIds : Exists(o) /\ ~Exists(o)' => LossTold(o)]_vars

\* A lookup is answered: no object that a lookup finds is without a type,
\* although the library names types by ids the daemon may have freed.
DaemonStaysUp == ~crashed
=============================================================================
