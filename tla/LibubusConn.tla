----------------------------- MODULE LibubusConn -----------------------------
(***************************************************************************)
(* A program that keeps its connection with ubus_auto_connect: it connects *)
(* as soon as the daemon is there, adds its objects, and when the daemon   *)
(* goes away connects again and pushes out the objects it had.  The daemon *)
(* may stop and start at any step and other programs may take a path.      *)
(***************************************************************************)
EXTENDS Naturals, Sequences, SequencesExt, FiniteSets

CONSTANTS OurObjects,     \* objects the program adds, named by their paths
          TypeOf,         \* the type of each; objects may share one
          MaxDeaths,      \* bound: how often the daemon stops
          MaxTaken        \* bound: how often another program takes a path

ASSUME ConnAssumption == IsFiniteSet(OurObjects)

VARIABLES cpc,            \* "uloop", "push" or "await": inside ubus_add_object
          sockFd,         \* ctx->sock: "none", "open", "dead" (peer gone), "stale" (closed)
          sockReg,        \* ctx->sock.registered
          connTimer,      \* conn->timer: "off", "connect" or "reconnect"
          ctxObjects,     \* ctx->objects
          toPush,         \* objects still to be added
          daemonUp,       \* the daemon runs
          onBus,          \* paths the daemon has for this program
          takenPaths,     \* paths it has for others
          refused,        \* objects whose last ubus_add_object failed
          typeIds,        \* types with type->id # 0
          untyped,        \* objects the daemon has with type NULL
          limits          \* [deaths, taken]

connVars == <<cpc, sockFd, sockReg, connTimer, ctxObjects, toPush, daemonUp,
              onBus, takenPaths, refused, typeIds, untyped, limits>>

TypesOf(objs) == {TypeOf[o] : o \in objs}

ConnInit ==
  /\ cpc = "uloop" /\ sockFd = "none" /\ sockReg = FALSE /\ connTimer = "connect"
  /\ ctxObjects = {} /\ toPush = <<>> /\ onBus = {} /\ refused = {}
  /\ typeIds = {} /\ untyped = {}
  /\ daemonUp \in BOOLEAN /\ takenPaths \in SUBSET OurObjects
  /\ limits = [deaths |-> 0, taken |-> 0]

-----------------------------------------------------------------------------
\* usock fails, or the daemon stops before its HELLO is read: the descriptor is
\* closed but ctx->sock.fd keeps its number.
ConnectFails(timer) ==
  /\ sockFd' \in IF daemonUp THEN {"stale"} ELSE {"none"}
  /\ daemonUp => limits.deaths < MaxDeaths
  /\ limits' = IF daemonUp THEN [limits EXCEPT !.deaths = @ + 1] ELSE limits
  /\ daemonUp' = FALSE
  /\ onBus' = {} /\ untyped' = {}
  /\ takenPaths' = IF daemonUp THEN {} ELSE takenPaths
  /\ sockReg' = FALSE
  /\ connTimer' = timer
  /\ UNCHANGED <<cpc, ctxObjects, toPush, refused, typeIds>>

\* Connected, with objects to push.
Connected(objs) ==
  /\ daemonUp
  /\ sockFd' = "open" /\ sockReg' = FALSE
  /\ connTimer' = "off"
  /\ cpc' = "push" /\ toPush' = SetToSeq(objs)
  /\ UNCHANGED <<daemonUp, onBus, takenPaths, refused, untyped, limits>>

\* The first connection; the program's callback adds its objects.
ubus_auto_connect_cb ==
  /\ cpc = "uloop" /\ connTimer = "connect"
  /\ \/ ConnectFails("connect")
     \/ Connected(OurObjects) /\ ctxObjects' = {} /\ UNCHANGED typeIds

\* Fault: the objects are pushed out again under the type ids of the old daemon.
ubus_refresh_state_Keep == Connected(ctxObjects) /\ ctxObjects' = {} /\ UNCHANGED typeIds

\* The ids of the objects' types are cleared, the tree is emptied, and every object that
\* was in it is added again.
ubus_refresh_state ==
  /\ Connected(ctxObjects) /\ ctxObjects' = {}
  /\ typeIds' = typeIds \ TypesOf(ctxObjects)

ubus_auto_reconnect_cb ==
  /\ cpc = "uloop" /\ connTimer = "reconnect"
  /\ ConnectFails("reconnect") \/ ubus_refresh_state

\* ubus_add_object: the message cannot be sent, and the object is not added.
AddNotSent ==
  /\ cpc = "push" /\ toPush # <<>> /\ sockFd = "dead"
  /\ refused' = refused \union {Head(toPush)}
  /\ toPush' = Tail(toPush)
  /\ UNCHANGED <<cpc, sockFd, sockReg, connTimer, ctxObjects, daemonUp, onBus,
                 takenPaths, typeIds, untyped, limits>>

\* It is sent, and waited for without a timeout.
AddSent ==
  /\ cpc = "push" /\ toPush # <<>> /\ sockFd = "open"
  /\ cpc' = "await"
  /\ UNCHANGED <<sockFd, sockReg, connTimer, ctxObjects, toPush, daemonUp, onBus,
                 takenPaths, refused, typeIds, untyped, limits>>

\* The daemon answers: a path that is taken is refused.  A type whose id the library has
\* is named by it, and the daemon gives an object whose type it does not know none.
AddAnswered ==
  /\ cpc = "await" /\ sockFd = "open"
  /\ LET o == Head(toPush)
         unknown == TypeOf[o] \in typeIds \ TypesOf(onBus \ untyped)
     IN  IF o \in takenPaths
         THEN /\ refused' = refused \union {o}
              /\ UNCHANGED <<ctxObjects, onBus, typeIds, untyped>>
         ELSE /\ refused' = refused \ {o}
              /\ onBus' = onBus \union {o} /\ ctxObjects' = ctxObjects \union {o}
              /\ typeIds' = typeIds \union {TypeOf[o]}
              /\ untyped' = IF unknown THEN untyped \union {o} ELSE untyped
  /\ cpc' = "push" /\ toPush' = Tail(toPush)
  /\ UNCHANGED <<sockFd, sockReg, connTimer, daemonUp, takenPaths, limits>>

\* ubus_add_uloop and back to the loop.
Pushed ==
  /\ cpc = "push" /\ toPush = <<>>
  /\ sockReg' = TRUE
  /\ cpc' = "uloop"
  /\ UNCHANGED <<sockFd, connTimer, ctxObjects, toPush, daemonUp, onBus,
                 takenPaths, refused, typeIds, untyped, limits>>

\* connection_lost
ubus_auto_disconnect_cb == "reconnect"

\* The loop finds the socket hung up: it is taken out, read to its end, lost.
ConnectionLost ==
  /\ cpc = "uloop" /\ sockReg /\ sockFd = "dead"
  /\ sockReg' = FALSE
  /\ connTimer' = ubus_auto_disconnect_cb
  /\ UNCHANGED <<cpc, sockFd, ctxObjects, toPush, daemonUp, onBus, takenPaths,
                 refused, typeIds, untyped, limits>>

\* ubus_remove_object, answered; the answer may lack the type that went with its last
\* object, as the daemon builds it in a buffer that freeing the object uses again.
ubus_remove_object(o) ==
  /\ cpc = "uloop" /\ sockReg /\ sockFd = "open" /\ o \in ctxObjects
  /\ ctxObjects' = ctxObjects \ {o} /\ onBus' = onBus \ {o} /\ untyped' = untyped \ {o}
  /\ refused' = refused \union {o}
  /\ typeIds' \in {typeIds, typeIds \ (TypesOf({o}) \ TypesOf(onBus'))}
  /\ UNCHANGED <<cpc, sockFd, sockReg, connTimer, toPush, daemonUp, takenPaths, limits>>

-----------------------------------------------------------------------------
(* The daemon and the other programs. *)

DaemonStops ==
  /\ daemonUp /\ limits.deaths < MaxDeaths
  /\ daemonUp' = FALSE /\ onBus' = {} /\ untyped' = {} /\ takenPaths' = {}
  /\ sockFd' = IF sockFd = "open" THEN "dead" ELSE sockFd
  /\ limits' = [limits EXCEPT !.deaths = @ + 1]
  /\ UNCHANGED <<cpc, sockReg, connTimer, ctxObjects, toPush, refused, typeIds>>

DaemonStarts ==
  /\ ~daemonUp /\ daemonUp' = TRUE
  /\ UNCHANGED <<cpc, sockFd, sockReg, connTimer, ctxObjects, toPush, onBus,
                 takenPaths, refused, typeIds, untyped, limits>>

PathTakenByOther(o) ==
  /\ daemonUp /\ o \notin onBus \union takenPaths /\ limits.taken < MaxTaken
  /\ takenPaths' = takenPaths \union {o}
  /\ limits' = [limits EXCEPT !.taken = @ + 1]
  /\ UNCHANGED <<cpc, sockFd, sockReg, connTimer, ctxObjects, toPush, daemonUp,
                 onBus, refused, typeIds, untyped>>

ConnNext ==
  \/ ubus_auto_connect_cb \/ ubus_auto_reconnect_cb \/ AddNotSent \/ AddSent
  \/ AddAnswered \/ Pushed \/ ConnectionLost \/ DaemonStops \/ DaemonStarts
  \/ \E o \in OurObjects : ubus_remove_object(o) \/ PathTakenByOther(o)

ConnSpec == ConnInit /\ [][ConnNext]_connVars

-----------------------------------------------------------------------------
(* Properties. *)

\* In its loop the program always has a way back to the daemon: its socket is in
\* the loop or a timer will try again.  Once connected again, however often the
\* daemon was restarted meanwhile, the library and the daemon agree on the program's
\* objects, and only those are missing that the program removed or whose last
\* ubus_add_object failed; none is there without its type, which the old daemon knew
\* by an id that the new one does not.
ObjectsAgree ==
  cpc = "uloop" =>
    /\ sockReg \/ connTimer # "off"
    /\ sockReg /\ sockFd = "open" =>
         ctxObjects = onBus /\ OurObjects \ refused = onBus /\ untyped = {}
=============================================================================
