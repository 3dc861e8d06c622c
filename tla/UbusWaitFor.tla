----------------------------- MODULE UbusWaitFor -----------------------------
(***************************************************************************)
(* `ubus wait_for': look up all objects, then register for the events that *)
(* tell of new ones, then wait.  The daemon serves one message at a time;  *)
(* other programs add and remove objects between any two.                  *)
(***************************************************************************)
EXTENDS Naturals, Sequences, SequencesExt, FiniteSets

CONSTANTS Paths,          \* paths of objects on the bus
          Arguments,      \* the command's arguments: sequences of paths
          MaxChanges      \* bound: objects added and removed by others

ASSUME WaitAssumption == IsFiniteSet(Paths)

VARIABLES wpc,            \* where the command is
          waitPending,    \* data.pending: the arguments left, by their places in argv
          wtimer,         \* data.timeout is armed
          present,        \* paths the daemon knows
          wregistered,    \* the daemon has the pattern "ubus.object.add"
          toCli,          \* messages on their way to the command
          wchanges,       \* how many objects came or went
          shown           \* paths present at the lookup or added while registered

waitVars == <<wpc, waitPending, wtimer, present, wregistered, toCli, wchanges, shown>>

WaitInit ==
  /\ wpc = "start" /\ waitPending \in Arguments /\ wtimer = FALSE
  /\ present \in SUBSET Paths /\ wregistered = FALSE /\ toCli = <<>>
  /\ wchanges = 0 /\ shown = {}

ToCli(t, p) == [type |-> t, path |-> p]

\* Fault: of a path given twice only the first is taken off.
wait_check_object_Once(path) ==
  Restrict(waitPending, {i \in DOMAIN waitPending :
    waitPending[i] = path => \E j \in DOMAIN waitPending : j < i /\ waitPending[j] = path})

\* Every argument equal to the path is taken off.
wait_check_object(path) ==
  Restrict(waitPending, {i \in DOMAIN waitPending : waitPending[i] # path})

-----------------------------------------------------------------------------
\* ubus_lookup with no path: one message per object and a status.
WaitLookup ==
  /\ wpc = "start"
  /\ toCli' = [i \in 1..Cardinality(present) |-> ToCli("DATA", SetToSeq(present)[i])]
              \o <<ToCli("STATUS", "none")>>
  /\ shown' = present
  /\ wpc' = "lookup"
  /\ UNCHANGED <<waitPending, wtimer, present, wregistered, wchanges>>

\* wait_list_cb
WaitListed ==
  /\ wpc = "lookup" /\ Head(toCli).type = "DATA"
  /\ waitPending' = wait_check_object(Head(toCli).path)
  /\ toCli' = Tail(toCli)
  /\ UNCHANGED <<wpc, wtimer, present, wregistered, wchanges, shown>>

WaitLookedUp ==
  /\ wpc = "lookup" /\ Head(toCli).type = "STATUS"
  /\ toCli' = Tail(toCli)
  /\ wpc' = IF DOMAIN waitPending = {} THEN "found" ELSE "register"
  /\ UNCHANGED <<waitPending, wtimer, present, wregistered, wchanges, shown>>

\* ubus_register_event_handler at the daemon; then the timer and the loop.
WaitRegister ==
  /\ wpc = "register"
  /\ wregistered' = TRUE /\ wtimer' = TRUE
  /\ wpc' = "run"
  /\ UNCHANGED <<waitPending, present, toCli, wchanges, shown>>

\* wait_event_cb
WaitEvent ==
  /\ wpc = "run" /\ toCli # <<>>
  /\ waitPending' = wait_check_object(Head(toCli).path)
  /\ toCli' = Tail(toCli)
  /\ wpc' = IF DOMAIN waitPending' = {} THEN "found" ELSE "run"
  /\ UNCHANGED <<wtimer, present, wregistered, wchanges, shown>>

\* wait_timeout: data.n_pending decides between success and UBUS_STATUS_TIMEOUT.
WaitTimeout ==
  /\ wpc = "run" /\ wtimer
  /\ wtimer' = FALSE
  /\ wpc' = IF DOMAIN waitPending = {} THEN "found" ELSE "timeout"
  /\ UNCHANGED <<waitPending, present, wregistered, toCli, wchanges, shown>>

-----------------------------------------------------------------------------
(* Other programs. *)

Appears(p) ==
  /\ p \notin present /\ wchanges < MaxChanges
  /\ present' = present \union {p}
  /\ toCli' = IF wregistered THEN Append(toCli, ToCli("ADD", p)) ELSE toCli
  /\ shown' = IF wregistered THEN shown \union {p} ELSE shown
  /\ wchanges' = wchanges + 1
  /\ UNCHANGED <<wpc, waitPending, wtimer, wregistered>>

Disappears(p) ==
  /\ p \in present /\ wchanges < MaxChanges
  /\ present' = present \ {p}
  /\ wchanges' = wchanges + 1
  /\ UNCHANGED <<wpc, waitPending, wtimer, wregistered, toCli, shown>>

WaitNext ==
  \/ WaitLookup \/ WaitListed \/ WaitLookedUp \/ WaitRegister \/ WaitEvent \/ WaitTimeout
  \/ \E p \in Paths : Appears(p) \/ Disappears(p)

WaitSpec == WaitInit /\ [][WaitNext]_waitVars

-----------------------------------------------------------------------------
(* Properties. *)

\* The command says `found' only when each of its arguments was on the bus, and goes
\* on waiting for none that it was shown: what it still waits for, with no message
\* of it on its way, was neither there at the lookup nor added once it listened.
WaitsForUnseen ==
  wpc \in {"register", "run", "found"} =>
    /\ \A i \in DOMAIN waitPending :
         waitPending[i] \in shown => \E j \in DOMAIN toCli : toCli[j].path = waitPending[i]
    /\ wpc = "found" => DOMAIN waitPending = {}
=============================================================================
