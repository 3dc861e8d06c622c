------------------------------- MODULE MCBus -------------------------------
(***************************************************************************)
(* Small instances of the specifications of the bus and its event loop,    *)
(* for TLC: libubus (requests, receiving, reconnecting), ubusd (receiving, *)
(* events), programs on a bus, "ubus wait_for", uloop and runqueue, and    *)
(* the Java binding serving requests.  They share no variable; a behaviour *)
(* is one of the specification `which`.                                    *)
(***************************************************************************)
EXTENDS LibubusReq, UbusdRx, LibubusRx, UbusdEvent, UbusBus, UbusWaitFor, LibubusConn,
        Uloop, UloopTimer, Runqueue, UbusPoller, TLC

VARIABLE which

\* Two synchronous requests, one of them with a timeout, an asynchronous one and a
\* notification of an object whose subscribers are none, or two with one of them twice.
ReqModes == [q1 |-> "sync", q2 |-> "timed", a1 |-> "async", n1 |-> "notify"]
ReqSubscribers == {<<>>, <<"s1", "s1", "s2">>}

\* Patterns "", "a", "b" and "aa" for events "a", "aa" and "ba"; "b" stands for "ubus.".
EvClients == [o1 |-> "c1", o2 |-> "c2"]
EvKeys == {<<>>, <<1>>, <<2>>, <<1, 1>>}
EvNames == {<<1>>, <<1, 1>>, <<2, 1>>}
EvSystem == <<2>>

\* Three programs with an object each; two of them watch the first one's.
BusOwners == [o1 |-> "c1", o2 |-> "c2", o3 |-> "c3"]
BusWatching == {<<"o2", "o1">>, <<"o3", "o1">>}

\* One path, the same path twice, and twice with another between.
WaitArguments == {<<"p1">>, <<"p1", "p1">>, <<"p1", "p2", "p1">>}

\* Two objects of the same type.
ConnTypes == [p1 |-> "t", p2 |-> "t"]

\* A caller, an object that is added, two requests for it and two threads that serve.
NoRefusal == {}
AlwaysConnects == {TRUE}

busSuiteVars == <<which, reqVars, rxVars, ioVars, evVars, busVars, waitVars, connVars, uloopVars, timerVars, rqVars, vars>>

SuiteInit ==
  /\ which \in {"req", "rx", "io", "event", "bus", "wait", "conn", "uloop", "timer", "runqueue", "serve"}
  /\ ReqInit /\ RxInit /\ IoInit /\ EvInit /\ BusInit /\ WaitInit /\ ConnInit /\ UloopInit /\ TimerInit /\ RqInit
  /\ Init
  \* The initial states of the others are not varied.
  /\ which # "req" => registered
  /\ which # "wait" => waitPending = <<"p1">> /\ present = {}
  /\ which # "conn" => daemonUp /\ takenPaths = {}
  /\ which # "timer" => processes = <<>>

SuiteNext ==
  /\ UNCHANGED which
  /\ \/ /\ which = "req" /\ ReqNext
        /\ UNCHANGED <<rxVars, ioVars, evVars, busVars, waitVars, connVars, uloopVars, timerVars, rqVars, vars>>
     \/ /\ which = "rx" /\ RxNext
        /\ UNCHANGED <<reqVars, ioVars, evVars, busVars, waitVars, connVars, uloopVars, timerVars, rqVars, vars>>
     \/ /\ which = "io" /\ IoNext
        /\ UNCHANGED <<reqVars, rxVars, evVars, busVars, waitVars, connVars, uloopVars, timerVars, rqVars, vars>>
     \/ /\ which = "event" /\ EvNext
        /\ UNCHANGED <<reqVars, rxVars, ioVars, busVars, waitVars, connVars, uloopVars, timerVars, rqVars, vars>>
     \/ /\ which = "bus" /\ BusNext
        /\ UNCHANGED <<reqVars, rxVars, ioVars, evVars, waitVars, connVars, uloopVars, timerVars, rqVars, vars>>
     \/ /\ which = "wait" /\ WaitNext
        /\ UNCHANGED <<reqVars, rxVars, ioVars, evVars, busVars, connVars, uloopVars, timerVars, rqVars, vars>>
     \/ /\ which = "conn" /\ ConnNext
        /\ UNCHANGED <<reqVars, rxVars, ioVars, evVars, busVars, waitVars, uloopVars, timerVars, rqVars, vars>>
     \/ /\ which = "uloop" /\ UloopNext
        /\ UNCHANGED <<reqVars, rxVars, ioVars, evVars, busVars, waitVars, connVars, timerVars, rqVars, vars>>
     \/ /\ which = "timer" /\ TimerNext
        /\ UNCHANGED <<reqVars, rxVars, ioVars, evVars, busVars, waitVars, connVars, uloopVars, rqVars, vars>>
     \/ /\ which = "runqueue" /\ RqNext
        /\ UNCHANGED <<reqVars, rxVars, ioVars, evVars, busVars, waitVars, connVars, uloopVars, timerVars, vars>>
     \/ /\ which = "serve" /\ Next
        /\ UNCHANGED <<reqVars, rxVars, ioVars, evVars, busVars, waitVars, connVars, uloopVars, timerVars, rqVars>>

SuiteSpec == SuiteInit /\ [][SuiteNext]_busSuiteVars
=============================================================================
