----------------------------- MODULE UbusdProofs -----------------------------
(***************************************************************************)
(* Proofs about the registry of ubusd, for any sets of clients, object     *)
(* ids, types and paths.  The inductive invariant is the conjunction of    *)
(* the invariants the runs check: a type's count stays a natural number    *)
(* only because it is the number of its users, and messages are well       *)
(* formed only because nothing dangles.                                    *)
(***************************************************************************)
EXTENDS Ubusd, FiniteSetTheorems, TLAPS

IInv == TypeOK /\ NoDangling /\ PathsUnique /\ RefsMatchUsers

-----------------------------------------------------------------------------
(* Users of a type *)

\* The users of a type are finitely many, and those of none are none.
LEMMA UsersFinite ==
  ASSUME NEW t
  PROVE  IsFiniteSet(Users(t)) /\ Cardinality(Users(t)) \in Nat
BY UbusdAssumption, FS_Subset, FS_CardinalityType DEF Users

\* A new object is one more user of its type and of no other.
LEMMA NewUser ==
  ASSUME TypeOK, NEW o \in ObjIds, object[o] = NULL, NEW v \in Object,
         object' = [object EXCEPT ![o] = v], NEW t
  PROVE  Cardinality(Users(t)') =
           Cardinality(Users(t)) + (IF t = v.type THEN 1 ELSE 0)
<1>0. v # NULL
  BY UbusdAssumption DEF Object
<1>1. CASE t = v.type
  <2>1. Users(t)' = Users(t) \union {o} /\ o \notin Users(t)
    BY <1>0, <1>1 DEF Users, Exists, TypeOK
  <2> QED BY <2>1, <1>1, UsersFinite, FS_AddElement
<1>2. CASE t # v.type
  <2>1. Users(t)' = Users(t)
    BY <1>0, <1>2 DEF Users, Exists, TypeOK
  <2> QED BY <2>1, <1>2, UsersFinite
<1> QED BY <1>1, <1>2

\* A freed object is one user less of its type and of no other.
LEMMA OldUser ==
  ASSUME TypeOK, NEW o \in ObjIds, Exists(o),
         object' = [object EXCEPT ![o] = NULL], NEW t
  PROVE  Cardinality(Users(t)') =
           Cardinality(Users(t)) - (IF t = object[o].type THEN 1 ELSE 0)
<1>1. CASE t = object[o].type
  <2>1. Users(t)' = Users(t) \ {o} /\ o \in Users(t)
    BY <1>1 DEF Users, Exists, TypeOK
  <2> QED BY <2>1, <1>1, UsersFinite, FS_RemoveElement
<1>2. CASE t # object[o].type
  <2>1. Users(t)' = Users(t)
    BY <1>2 DEF Users, Exists, TypeOK
  <2> QED BY <2>1, <1>2, UsersFinite
<1> QED BY <1>1, <1>2

\* A type that has a user is counted.
LEMMA UserCounted ==
  ASSUME RefsMatchUsers, NEW o \in ObjIds, Exists(o), object[o].type \in TypeIds
  PROVE  refcount[object[o].type] > 0
<1>1. o \in Users(object[o].type)
  BY DEF Users
<1>2. Cardinality(Users(object[o].type)) # 0
  BY <1>1, UsersFinite, FS_EmptySet
<1> QED BY <1>2, UsersFinite DEF RefsMatchUsers

-----------------------------------------------------------------------------
(* Messages *)

\* A message to the owner of a live object is well formed.
LEMMA ToOwnerType ==
  ASSUME TypeOK, NEW o \in ObjIds, Exists(o), NEW a \in ObjIds,
         NEW type \in {"ACTIVE", "INACTIVE", "UNSUBSCRIBE"} \union ObjEvents
  PROVE  ToOwner(type, o, a) \in Message
<1>1. object[o].client \in Clients
  BY DEF TypeOK, Exists, Object
<1> QED BY <1>1 DEF ToOwner, Message

\* The notices of a freed object go to owners of live objects.
LEMMA FreeNoticesType ==
  ASSUME TypeOK, NoDangling, NEW o \in ObjIds, Exists(o)
  PROVE  FreeNotices(o) \subseteq Message
<1>1. \A s \in ObjIds : subs[s][o] > 0 => ToOwner("UNSUBSCRIBE", s, o) \in Message
  BY ToOwnerType DEF NoDangling
<1>2. \A t \in ObjIds : subs[o][t] > 0 => NotifySubscription(t, FALSE) \in Message
  BY ToOwnerType DEF NoDangling, NotifySubscription
<1>3. NotifySubscription(o, FALSE) \in Message
  BY ToOwnerType DEF NotifySubscription
<1> QED BY <1>1, <1>2, <1>3 DEF FreeNotices

\* So does the news of an object.
LEMMA ObjEventType ==
  ASSUME TypeOK, NEW o \in ObjIds, NEW event \in ObjEvents,
         NEW heard,
         \A l \in ObjIds : <<l, event>> \in heard => Exists(l)
  PROVE  ubusd_send_obj_event(event, o, heard) \subseteq Message
<1>1. \A l \in ObjIds : <<l, event>> \in heard => ToOwner(event, l, o) \in Message
  BY ToOwnerType
<1> QED BY <1>1 DEF ubusd_send_obj_event

-----------------------------------------------------------------------------
(* The inductive invariant *)

\* The daemon starts with nothing in its trees.
LEMMA InitIInv == Init => IInv
<1> SUFFICES ASSUME Init PROVE IInv
  OBVIOUS
<1>1. TypeOK
  BY DEF Init, TypeOK
<1>2. NoDangling
  <2>1. \A s, t \in ObjIds : subs[s][t] = 0
    BY DEF Init
  <2>2. ~(\E s, t \in ObjIds : subs[s][t] > 0)
    BY <2>1
  <2> QED BY <2>2 DEF Init, NoDangling, Exists
<1>3. PathsUnique
  BY DEF Init, PathsUnique, Exists
<1>4. RefsMatchUsers
  <2>1. \A t \in TypeIds : Users(t) = {}
    BY DEF Init, Users, Exists
  <2> QED BY <2>1, FS_EmptySet DEF RefsMatchUsers, Init
<1> QED BY <1>1, <1>2, <1>3, <1>4 DEF IInv

\* Freeing an object, by its owner's request or with its owner, takes it out
\* of every list that names it.
LEMMA FreeKeepsIInv ==
  ASSUME IInv, NEW o \in ObjIds, Exists(o), ubusd_free_object(o),
         UNCHANGED <<connected, closing, crashed>>,
         known' \in [Clients -> TypeIds \union {NULL}]
  PROVE  IInv'
<1> USE DEF ubusd_free_object
<1>0. object[o] \in Object /\ object[o].type \in TypeIds \union {NULL}
  BY DEF IInv, TypeOK, Exists, Object
<1>1. \A x \in ObjIds : Exists(x)' <=> Exists(x) /\ x # o
  BY DEF IInv, TypeOK, Exists
<1>2. \A x \in ObjIds \ {o} : object'[x] = object[x]
  BY DEF IInv, TypeOK
<1>3. \A s, t \in ObjIds : subs'[s][t] = IF o \in {s, t} THEN 0 ELSE subs[s][t]
  BY DEF SubsWithout
<1>4. \A x \in ObjIds, e \in ObjEvents :
        <<x, e>> \in ListenersWithout(o) => Exists(x) /\ x # o
  BY DEF ListenersWithout, IInv, NoDangling
<1>5. TypeOK'
  <2>1. object' \in [ObjIds -> Object \union {NULL}]
    BY DEF IInv, TypeOK
  <2>2. refcount' \in [TypeIds -> Nat]
    <3>1. CASE object[o].type = NULL
      BY <3>1 DEF TypeUnref, IInv, TypeOK
    <3>2. CASE object[o].type \in TypeIds
      <4>1. refcount[object[o].type] > 0
        BY <3>2, UserCounted DEF IInv
      <4>2. object[o].type # NULL
        BY <3>2, UbusdAssumption
      <4> QED BY <3>2, <4>1, <4>2 DEF TypeUnref, IInv, TypeOK
    <3> QED BY <1>0, <3>1, <3>2
  <2>3. subs' \in [ObjIds -> [ObjIds -> Nat]]
    <3>1. \A s, t \in ObjIds : subs[s][t] \in Nat
      BY DEF IInv, TypeOK
    <3> QED BY <3>1 DEF SubsWithout
  <2>4. listeners' \subseteq ObjIds \X ObjEvents
    BY DEF IInv, TypeOK, ListenersWithout
  <2>5. out' \subseteq Message
    <3>1. FreeNotices(o) \subseteq Message
      BY FreeNoticesType DEF IInv
    <3>2. ubusd_send_obj_event("ubus.object.remove", o, ListenersWithout(o))
            \subseteq Message
      <4>1. "ubus.object.remove" \in ObjEvents
        BY DEF ObjEvents
      <4> QED BY <1>4, <4>1, ObjEventType DEF IInv
    <3> QED BY <3>1, <3>2
  <2> QED BY <2>1, <2>2, <2>3, <2>4, <2>5 DEF IInv, TypeOK
<1>6. NoDangling'
  <2>1. ASSUME NEW s \in ObjIds, NEW t \in ObjIds, subs'[s][t] > 0
        PROVE  Exists(s)' /\ Exists(t)' /\ object'[s].client # object'[t].client
    <3>1. o # s /\ o # t /\ subs[s][t] > 0
      BY <1>3, <2>1
    <3>2. Exists(s) /\ Exists(t) /\ object[s].client # object[t].client
      BY <3>1 DEF IInv, NoDangling
    <3> QED BY <1>1, <1>2, <3>1, <3>2
  <2>2. \A x \in ObjIds, e \in ObjEvents : <<x, e>> \in listeners' => Exists(x)'
    BY <1>1, <1>4
  <2>3. \A x \in ObjIds : Exists(x)' => object'[x].client \in connected'
    BY <1>1, <1>2 DEF IInv, NoDangling
  <2>4. closing' # NULL => closing' \in connected'
    BY DEF IInv, NoDangling
  <2> QED BY <2>1, <2>2, <2>3, <2>4 DEF NoDangling
<1>7. PathsUnique'
  <2> SUFFICES ASSUME NEW x \in ObjIds, NEW y \in ObjIds, Exists(x)', Exists(y)',
                      object'[x].path # NULL, object'[x].path = object'[y].path
               PROVE  x = y
    BY DEF PathsUnique
  <2> QED BY <1>1, <1>2 DEF IInv, PathsUnique
<1>8. RefsMatchUsers'
  <2> SUFFICES ASSUME NEW t \in TypeIds
               PROVE  refcount'[t] = Cardinality(Users(t)')
    BY DEF RefsMatchUsers
  <2>1. refcount'[t] = refcount[t] - (IF t = object[o].type THEN 1 ELSE 0)
    <3>1. t # NULL /\ refcount[t] \in Nat
      BY UbusdAssumption DEF IInv, TypeOK
    <3> QED BY <1>0, <3>1 DEF TypeUnref, IInv, TypeOK
  <2>2. Cardinality(Users(t)') =
          Cardinality(Users(t)) - (IF t = object[o].type THEN 1 ELSE 0)
    BY OldUser DEF IInv
  <2> QED BY <2>1, <2>2 DEF IInv, RefsMatchUsers
<1> QED BY <1>5, <1>6, <1>7, <1>8 DEF IInv

\* A new object has an id and a path no other has, and counts in its type.
LEMMA AddKeepsIInv ==
  ASSUME IInv, NEW c \in Clients, NEW p \in Paths \union {NULL}, AddObject(c, p)
  PROVE  IInv'
<1>1. CASE p # NULL /\ PathTaken(p)
  <2>1. UNCHANGED <<connected, object, refcount, subs, listeners, known, closing,
                    crashed>> /\ out' = {}
    BY <1>1 DEF AddObject
  <2> QED BY <2>1 DEF IInv, TypeOK, NoDangling, PathsUnique, RefsMatchUsers,
                      Users, Exists
<1>2. CASE ~(p # NULL /\ PathTaken(p))
  <2>1. PICK o \in ObjIds, t \in TypeIds \union {NULL} :
          /\ ubus_alloc_id(o)
          /\ TypeFor(c, p, t)
          /\ object' = [object EXCEPT ![o] = [client |-> c, type |-> t, path |-> p]]
          /\ refcount' = TypeRef(t)
          /\ known' = LearnType(c, p, t)
          /\ out' = IF p = NULL THEN {}
                    ELSE ubusd_send_obj_event("ubus.object.add", o, listeners)
    BY <1>2 DEF AddObject
  <2> DEFINE v == [client |-> c, type |-> t, path |-> p]
  <2>2. /\ UNCHANGED <<connected, subs, listeners, closing, crashed>>
        /\ c \in connected
    BY DEF AddObject, Serves
  <2>3. v \in Object /\ v # NULL /\ object[o] = NULL
    BY <2>1, UbusdAssumption DEF Object, ubus_alloc_id, Exists
  <2>4. /\ object' = [object EXCEPT ![o] = v]
        /\ v.client = c /\ v.type = t /\ v.path = p
    BY <2>1
  <2> HIDE DEF v
  <2>5. \A x \in ObjIds : Exists(x)' <=> Exists(x) \/ x = o
    BY <2>3, <2>4 DEF IInv, TypeOK, Exists
  <2>6. object'[o] = v /\ \A x \in ObjIds \ {o} : object'[x] = object[x]
    BY <2>4 DEF IInv, TypeOK
  <2>7. TypeOK'
    <3>1. object' \in [ObjIds -> Object \union {NULL}]
      BY <2>3, <2>4 DEF IInv, TypeOK
    <3>2. refcount' \in [TypeIds -> Nat]
      BY <2>1 DEF TypeRef, IInv, TypeOK
    <3>3. known' \in [Clients -> TypeIds \union {NULL}]
      BY <2>1 DEF LearnType, IInv, TypeOK
    <3>4. out' \subseteq Message
      <4>1. "ubus.object.add" \in ObjEvents
        BY DEF ObjEvents
      <4>2. \A x \in ObjIds : <<x, "ubus.object.add">> \in listeners => Exists(x)
        BY <4>1 DEF IInv, NoDangling
      <4>3. ubusd_send_obj_event("ubus.object.add", o, listeners) \subseteq Message
        BY <4>1, <4>2, ObjEventType DEF IInv
      <4> QED BY <2>1, <4>3
    <3> QED BY <2>2, <3>1, <3>2, <3>3, <3>4 DEF IInv, TypeOK
  <2>8. NoDangling'
    <3>1. ASSUME NEW s \in ObjIds, NEW u \in ObjIds, subs'[s][u] > 0
          PROVE  Exists(s)' /\ Exists(u)' /\ object'[s].client # object'[u].client
      <4>1. Exists(s) /\ Exists(u) /\ object[s].client # object[u].client
        BY <2>2, <3>1 DEF IInv, NoDangling
      <4>2. s # o /\ u # o
        BY <2>3, <4>1 DEF Exists
      <4> QED BY <2>5, <2>6, <4>1, <4>2
    <3>2. \A x \in ObjIds, e \in ObjEvents : <<x, e>> \in listeners' => Exists(x)'
      BY <2>2, <2>5 DEF IInv, NoDangling
    <3>3. \A x \in ObjIds : Exists(x)' => object'[x].client \in connected'
      BY <2>2, <2>4, <2>5, <2>6 DEF IInv, NoDangling
    <3>4. closing' # NULL => closing' \in connected'
      BY <2>2 DEF IInv, NoDangling
    <3> QED BY <3>1, <3>2, <3>3, <3>4 DEF NoDangling
  <2>9. PathsUnique'
    <3>1. p # NULL => \A x \in ObjIds : Exists(x) => object[x].path # p
      BY <1>2 DEF PathTaken
    <3> SUFFICES ASSUME NEW x \in ObjIds, NEW y \in ObjIds, Exists(x)', Exists(y)',
                        object'[x].path # NULL, object'[x].path = object'[y].path
                 PROVE  x = y
      BY DEF PathsUnique
    <3>2. CASE x # o /\ y # o
      BY <2>5, <2>6, <3>2 DEF IInv, PathsUnique
    <3>3. CASE x = o \/ y = o
      BY <2>4, <2>5, <2>6, <3>1, <3>3
    <3> QED BY <3>2, <3>3
  <2>10. RefsMatchUsers'
    <3> SUFFICES ASSUME NEW u \in TypeIds
                 PROVE  refcount'[u] = Cardinality(Users(u)')
      BY DEF RefsMatchUsers
    <3>1. refcount'[u] = refcount[u] + (IF u = t THEN 1 ELSE 0)
      <4>1. u # NULL /\ refcount[u] \in Nat
        BY UbusdAssumption DEF IInv, TypeOK
      <4> QED BY <2>1, <4>1 DEF TypeRef, IInv, TypeOK
    <3>2. Cardinality(Users(u)') =
            Cardinality(Users(u)) + (IF u = v.type THEN 1 ELSE 0)
      BY <2>3, <2>4, NewUser DEF IInv
    <3> QED BY <2>4, <3>1, <3>2 DEF IInv, RefsMatchUsers
  <2> QED BY <2>7, <2>8, <2>9, <2>10 DEF IInv
<1> QED BY <1>1, <1>2

\* A step that only touches subscriptions, listeners or clients keeps the
\* parts of the invariant that are about objects.
LEMMA ObjectsKept ==
  ASSUME IInv, UNCHANGED <<object, refcount>>
  PROVE  PathsUnique' /\ RefsMatchUsers' /\ \A x \in ObjIds : Exists(x)' = Exists(x)
BY DEF IInv, PathsUnique, RefsMatchUsers, Users, Exists

\* Subscribing and unsubscribing: the subscription joins live objects, and
\* the notice goes to the owner of one.
LEMMA WatchKeepsIInv ==
  ASSUME IInv, NEW c \in Clients, NEW o \in ObjIds, NEW t \in ObjIds,
         Subscribe(c, o, t) \/ Unsubscribe(c, o, t)
  PROVE  IInv'
<1>1. UNCHANGED <<connected, object, refcount, listeners, known, closing, crashed>>
  BY DEF Subscribe, Unsubscribe
<1>2. Exists(o) /\ Exists(t) /\ object[o].client # object[t].client
  BY DEF Subscribe, Unsubscribe, Owns, IInv, NoDangling
<1>3. subs[o][t] \in Nat
  BY DEF IInv, TypeOK
<1>4. /\ subs' \in [ObjIds -> [ObjIds -> Nat]]
      /\ \A x, y \in ObjIds : subs'[x][y] > 0 => subs[x][y] > 0 \/ (x = o /\ y = t)
  <2>1. CASE Subscribe(c, o, t)
    BY <1>3, <2>1 DEF Subscribe, IInv, TypeOK
  <2>2. CASE Unsubscribe(c, o, t)
    BY <1>3, <2>2 DEF Unsubscribe, IInv, TypeOK
  <2> QED BY <2>1, <2>2
<1>5. out' \subseteq Message
  <2>1. NotifySubscription(t, TRUE) \in Message /\ NotifySubscription(t, FALSE) \in Message
    BY <1>2, ToOwnerType DEF NotifySubscription, IInv
  <2> QED BY <2>1 DEF Subscribe, Unsubscribe
<1>6. TypeOK'
  BY <1>1, <1>4, <1>5 DEF IInv, TypeOK
<1>7. NoDangling'
  BY <1>1, <1>2, <1>4 DEF IInv, NoDangling, Exists
<1> QED BY <1>1, <1>6, <1>7, ObjectsKept DEF IInv

\* Every handler keeps the invariant.
LEMMA NextIInv == IInv /\ [Next]_vars => IInv'
<1> SUFFICES ASSUME IInv, [Next]_vars PROVE IInv'
  OBVIOUS
<1>1. ASSUME NEW c \in Clients, Connect(c) PROVE IInv'
  <2> USE <1>1 DEF Connect
  <2>1. TypeOK'
    BY DEF IInv, TypeOK
  <2>2. NoDangling'
    BY DEF IInv, NoDangling, Exists
  <2> QED BY <2>1, <2>2, ObjectsKept DEF IInv
<1>2. ASSUME NEW c \in Clients, Disconnect(c) PROVE IInv'
  <2> USE <1>2 DEF Disconnect, Serves
  <2>1. TypeOK'
    BY DEF IInv, TypeOK
  <2>2. NoDangling'
    BY DEF IInv, NoDangling, Exists
  <2> QED BY <2>1, <2>2, ObjectsKept DEF IInv
<1>3. ASSUME NEW c \in Clients, NEW p \in Paths \union {NULL}, AddObject(c, p)
      PROVE  IInv'
  BY <1>3, AddKeepsIInv
<1>4. ASSUME NEW c \in Clients, NEW ps, Lookup(c, ps) PROVE IInv'
  <2> USE <1>4 DEF Lookup
  <2>1. TypeOK'
    BY DEF IInv, TypeOK
  <2>2. NoDangling'
    BY DEF IInv, NoDangling, Exists
  <2> QED BY <2>1, <2>2, ObjectsKept DEF IInv
<1>5. ASSUME NEW c \in Clients, NEW o \in ObjIds, RemoveObject(c, o) PROVE IInv'
  <2>1. /\ Exists(o) /\ ubusd_free_object(o)
        /\ UNCHANGED <<connected, closing, crashed>>
    BY <1>5 DEF RemoveObject, Owns
  <2>2. known' \in [Clients -> TypeIds \union {NULL}]
    BY <1>5 DEF RemoveObject, ForgetType, IInv, TypeOK
  <2> QED BY <2>1, <2>2, FreeKeepsIInv
<1>6. ASSUME NEW c \in Clients, NEW o \in ObjIds, NEW t \in ObjIds,
             Subscribe(c, o, t) \/ Unsubscribe(c, o, t)
      PROVE  IInv'
  BY <1>6, WatchKeepsIInv
<1>7. ASSUME NEW c \in Clients, NEW o \in ObjIds, NEW event \in Heard,
             Listen(c, o, event)
      PROVE  IInv'
  <2> USE <1>7 DEF Listen
  <2>1. event \in ObjEvents
    BY UbusdAssumption DEF ObjEvents
  <2>2. TypeOK'
    BY <2>1 DEF IInv, TypeOK
  <2>3. NoDangling'
    BY DEF IInv, NoDangling, Exists, Owns
  <2> QED BY <2>2, <2>3, ObjectsKept DEF IInv
<1>8. ASSUME FreeNext PROVE IInv'
  <2>1. PICK o \in ObjIds : Owns(closing, o) /\ ubusd_free_object(o)
    BY <1>8 DEF FreeNext
  <2>2. UNCHANGED <<connected, known, closing, crashed>> /\ Exists(o)
    BY <1>8, <2>1 DEF FreeNext, Owns
  <2>3. known' \in [Clients -> TypeIds \union {NULL}]
    BY <2>2 DEF IInv, TypeOK
  <2> QED BY <2>1, <2>2, <2>3, FreeKeepsIInv
<1>9. ASSUME ClientFreed PROVE IInv'
  <2> USE <1>9 DEF ClientFreed
  <2>1. TypeOK'
    BY DEF IInv, TypeOK
  <2>2. NoDangling'
    BY DEF IInv, NoDangling, Exists, Owns
  <2> QED BY <2>1, <2>2, ObjectsKept DEF IInv
<1>10. CASE UNCHANGED vars
  BY <1>10 DEF vars, IInv, TypeOK, NoDangling, PathsUnique, RefsMatchUsers, Users,
               Exists
<1> QED BY <1>1, <1>2, <1>3, <1>4, <1>5, <1>6, <1>7, <1>8, <1>9, <1>10 DEF Next

-----------------------------------------------------------------------------
(* The theorems *)

\* The invariant holds in every state of the daemon.
THEOREM Invariance == Spec => []IInv
BY InitIInv, NextIInv, PTL DEF Spec

\* The trees of the daemon keep their shape, and it only sends well-formed
\* messages to clients.
THEOREM TypeCorrect == Spec => []TypeOK
<1>1. IInv => TypeOK
  BY DEF IInv
<1> QED BY <1>1, Invariance, PTL

\* Nothing in the daemon points to an object or a client it has freed.
THEOREM NothingDangles == Spec => []NoDangling
<1>1. IInv => NoDangling
  BY DEF IInv
<1> QED BY <1>1, Invariance, PTL

\* A path names at most one object.
THEOREM OneObjectPerPath == Spec => []PathsUnique
<1>1. IInv => PathsUnique
  BY DEF IInv
<1> QED BY <1>1, Invariance, PTL

\* ubus_unref_object_type frees a type with its last object and not before.
THEOREM TypesCounted == Spec => []RefsMatchUsers
<1>1. IInv => RefsMatchUsers
  BY DEF IInv
<1> QED BY <1>1, Invariance, PTL

-----------------------------------------------------------------------------
(* What clients are told *)

\* Freeing an object tells those that lose it.
LEMMA FreeTells ==
  ASSUME NEW o \in ObjIds, ubusd_free_object(o)
  PROVE  LossTold(o)
<1>1. ASSUME NEW s \in ObjIds, subs[s][o] > 0
      PROVE  ToOwner("UNSUBSCRIBE", s, o) \in out'
  BY <1>1 DEF ubusd_free_object, FreeNotices
<1>2. ASSUME object[o].path # NULL, NEW l \in ObjIds \ {o},
             <<l, "ubus.object.remove">> \in listeners
      PROVE  ToOwner("ubus.object.remove", l, o) \in out'
  <2>1. <<l, "ubus.object.remove">> \in ListenersWithout(o)
    BY <1>2 DEF ListenersWithout
  <2>2. ToOwner("ubus.object.remove", l, o) \in
          ubusd_send_obj_event("ubus.object.remove", o, ListenersWithout(o))
    BY <1>2, <2>1 DEF ubusd_send_obj_event
  <2> QED BY <1>2, <2>2 DEF ubusd_free_object
<1> QED BY <1>1, <1>2 DEF LossTold

\* A step under which an object disappears is one that frees it.
LEMMA OnlyFreed ==
  ASSUME IInv, [Next]_vars, NEW o \in ObjIds, Exists(o), ~Exists(o)'
  PROVE  ubusd_free_object(o)
<1>1. object' # object
  BY DEF Exists
<1>2. ASSUME NEW x \in ObjIds, ubusd_free_object(x) PROVE ubusd_free_object(o)
  <2>1. x = o
    BY <1>2 DEF ubusd_free_object, Exists, IInv, TypeOK
  <2> QED BY <1>2, <2>1
<1>3. ASSUME NEW c \in Clients, NEW p \in Paths \union {NULL}, AddObject(c, p)
      PROVE  FALSE
  <2>1. PICK x \in ObjIds, t \in TypeIds \union {NULL} :
          ubus_alloc_id(x) /\ object' = [object EXCEPT ![x] =
                                           [client |-> c, type |-> t, path |-> p]]
    BY <1>1, <1>3 DEF AddObject
  <2>2. x # o
    BY <2>1 DEF ubus_alloc_id
  <2> QED BY <2>1, <2>2 DEF Exists, IInv, TypeOK
<1>4. ASSUME NEW c \in Clients, NEW x \in ObjIds, RemoveObject(c, x)
      PROVE  ubusd_free_object(o)
  BY <1>2, <1>4 DEF RemoveObject
<1>5. ASSUME FreeNext PROVE ubusd_free_object(o)
  BY <1>2, <1>5 DEF FreeNext
<1> QED BY <1>1, <1>3, <1>4, <1>5
        DEF Next, vars, Connect, Disconnect, Lookup, Subscribe, Unsubscribe, Listen,
            ClientFreed

\* Whoever removes an object, and however, its subscribers and the listeners
\* for removals are told.
THEOREM LossesTold == Spec => DisappearanceTold
<1>1. IInv /\ [Next]_vars =>
        [\A o \in ObjIds : Exists(o) /\ ~Exists(o)' => LossTold(o)]_vars
  BY OnlyFreed, FreeTells
<1> QED BY <1>1, Invariance, PTL DEF Spec, DisappearanceTold

\* A status notice is of one kind, for one object, and no other message is
\* taken for it.
LEMMA NoticesDiffer ==
  ASSUME NEW t, NEW u, NEW a \in BOOLEAN, NEW b \in BOOLEAN
  PROVE  /\ NotifySubscription(t, a) = NotifySubscription(u, b) => t = u /\ a = b
         /\ \A x, type : type \in {"UNSUBSCRIBE"} \union ObjEvents =>
              ToOwner(type, x, u) # NotifySubscription(t, a)
<1>1. /\ NotifySubscription(t, a).obj = t /\ NotifySubscription(u, b).obj = u
      /\ NotifySubscription(t, a).type = IF a THEN "ACTIVE" ELSE "INACTIVE"
      /\ NotifySubscription(u, b).type = IF b THEN "ACTIVE" ELSE "INACTIVE"
  BY DEF NotifySubscription, ToOwner
<1>2. \A x, type : ToOwner(type, x, u).type = type
  BY DEF ToOwner
<1> QED BY <1>1, <1>2 DEF ObjEvents

\* News of objects is no status notice.
LEMMA EventsDiffer ==
  ASSUME NEW t, NEW a \in BOOLEAN, NEW o, NEW event \in ObjEvents, NEW heard
  PROVE  NotifySubscription(t, a) \notin ubusd_send_obj_event(event, o, heard)
BY NoticesDiffer DEF ubusd_send_obj_event

\* Freeing an object tells the owners of the others what they lose by it.
LEMMA FreeStatusTold ==
  ASSUME IInv, NEW o \in ObjIds, ubusd_free_object(o), NEW t \in ObjIds, t # o
  PROVE  StatusTold(t)
<1>1. \A s \in ObjIds : subs'[s][t] = IF s = o THEN 0 ELSE subs[s][t]
  BY DEF ubusd_free_object, SubsWithout
<1>2. \A s \in ObjIds : subs[s][t] \in Nat
  BY DEF IInv, TypeOK
<1>3. \A a \in BOOLEAN : NotifySubscription(t, a) \in out' <=>
                           NotifySubscription(t, a) \in FreeNotices(o)
  <2>1. "ubus.object.remove" \in ObjEvents
    BY DEF ObjEvents
  <2> QED BY <2>1, EventsDiffer DEF ubusd_free_object
<1> DEFINE lost == {u \in ObjIds : subs[o][u] > 0
                                   /\ \A s \in ObjIds \ {o} : subs[s][u] = 0}
           orphans == {s \in ObjIds : subs[s][o] > 0}
<1>4. FreeNotices(o) = {NotifySubscription(u, FALSE) : u \in lost}
                       \union {ToOwner("UNSUBSCRIBE", s, o) : s \in orphans}
                       \union {NotifySubscription(o, FALSE) : s \in orphans}
  BY DEF FreeNotices
<1>5. \A u \in ObjIds, a \in BOOLEAN :
        NotifySubscription(t, a) = NotifySubscription(u, FALSE) => t = u /\ a = FALSE
  BY NoticesDiffer
<1>6. \A s \in ObjIds, a \in BOOLEAN :
        NotifySubscription(t, a) # ToOwner("UNSUBSCRIBE", s, o)
  BY NoticesDiffer
<1>7. lost \subseteq ObjIds
  OBVIOUS
<1> HIDE DEF lost
<1>8. NotifySubscription(t, TRUE) \notin FreeNotices(o)
  BY <1>4, <1>5, <1>6, <1>7
<1>9. NotifySubscription(t, FALSE) \in FreeNotices(o) <=> t \in lost
  BY <1>4, <1>5, <1>6, <1>7
<1>10. ~(~Subscribed(t) /\ Subscribed(t)')
  BY <1>1 DEF Subscribed
<1>11. Subscribed(t) /\ ~Subscribed(t)' <=> t \in lost
  BY <1>1, <1>2 DEF Subscribed, lost
<1> QED BY <1>3, <1>8, <1>9, <1>10, <1>11 DEF StatusTold

\* Subscribing and unsubscribing tell the owner of the target, and no one
\* else, when the list of subscribers begins or ends.
LEMMA WatchStatusTold ==
  ASSUME IInv, NEW c \in Clients, NEW o \in ObjIds, NEW u \in ObjIds,
         Subscribe(c, o, u) \/ Unsubscribe(c, o, u), NEW t \in ObjIds
  PROVE  StatusTold(t)
<1>1. \A x, y \in ObjIds : subs[x][y] \in Nat
  BY DEF IInv, TypeOK
<1>2. CASE Subscribe(c, o, u)
  <2>1. \A x, y \in ObjIds :
          subs'[x][y] = subs[x][y] + (IF x = o /\ y = u THEN 1 ELSE 0)
    BY <1>1, <1>2 DEF Subscribe, IInv, TypeOK
  <2>2. \A y \in ObjIds : Subscribed(y)' <=> Subscribed(y) \/ y = u
    BY <1>1, <2>1 DEF Subscribed
  <2>3. out' = IF Subscribed(u) THEN {} ELSE {NotifySubscription(u, TRUE)}
    BY <1>2 DEF Subscribe
  <2> QED BY <2>2, <2>3, NoticesDiffer DEF StatusTold
<1>3. CASE Unsubscribe(c, o, u)
  <2>1. \A x, y \in ObjIds :
          subs'[x][y] = subs[x][y] - (IF x = o /\ y = u THEN 1 ELSE 0)
    BY <1>1, <1>3 DEF Unsubscribe, IInv, TypeOK
  <2>2. \A y \in ObjIds \ {u} : Subscribed(y)' <=> Subscribed(y)
    BY <1>1, <2>1 DEF Subscribed
  <2>3. Subscribed(u) /\ (Subscribed(u)' <=> ~LastLeft(o, u))
    BY <1>1, <1>3, <2>1 DEF Subscribed, LastLeft, Unsubscribe
  <2>4. out' = IF LastLeft(o, u) THEN {NotifySubscription(u, FALSE)} ELSE {}
    BY <1>3 DEF Unsubscribe
  <2> QED BY <2>2, <2>3, <2>4, NoticesDiffer DEF StatusTold
<1> QED BY <1>2, <1>3

\* A new object tells no owner of a status.
LEMMA AddStatusTold ==
  ASSUME NEW c \in Clients, NEW p \in Paths \union {NULL}, AddObject(c, p),
         NEW t \in ObjIds
  PROVE  StatusTold(t)
<1>1. "ubus.object.add" \in ObjEvents
  BY DEF ObjEvents
<1>2. \A a \in BOOLEAN : NotifySubscription(t, a) \notin out'
  BY <1>1, EventsDiffer DEF AddObject
<1>3. Subscribed(t)' = Subscribed(t)
  BY DEF AddObject, Subscribed
<1> QED BY <1>2, <1>3 DEF StatusTold

\* An owner is told of the first subscriber and of the loss of the last one,
\* however that happens, and of nothing else.
THEOREM StatusesTold == Spec => StatusChangesTold
<1>1. ASSUME IInv, [Next]_vars, ~(object' = object /\ subs' = subs),
             NEW t \in ObjIds, Exists(t), Exists(t)'
      PROVE  StatusTold(t)
  <2>1. ASSUME NEW o \in ObjIds, ubusd_free_object(o) PROVE StatusTold(t)
    <3>1. t # o
      BY <1>1, <2>1 DEF ubusd_free_object, Exists, IInv, TypeOK
    <3> QED BY <1>1, <2>1, <3>1, FreeStatusTold
  <2>2. ASSUME NEW c \in Clients, NEW o \in ObjIds, RemoveObject(c, o)
        PROVE  StatusTold(t)
    BY <2>1, <2>2 DEF RemoveObject
  <2>3. ASSUME FreeNext PROVE StatusTold(t)
    BY <2>1, <2>3 DEF FreeNext
  <2> QED BY <1>1, <2>2, <2>3, AddStatusTold, WatchStatusTold
          DEF Next, vars, Connect, Disconnect, Lookup, Listen, ClientFreed
<1>2. IInv /\ [Next]_vars =>
        [\A t \in ObjIds : Exists(t) /\ Exists(t)' => StatusTold(t)]_<<object, subs>>
  BY <1>1
<1> QED BY <1>2, Invariance, PTL DEF Spec, StatusChangesTold
=============================================================================
