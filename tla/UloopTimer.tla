----------------------------- MODULE UloopTimer -----------------------------
(***************************************************************************)
(* uloop's timers and child processes: the rounds of uloop_run, with time  *)
(* passing, children exiting and SIGCHLD arriving between any two steps.   *)
(* Time is counted in ticks, TicksPerMs to a millisecond and MsPerSec of   *)
(* those to a second (1000 and 1000 in the code); tv_diff rounds the parts *)
(* below the second by themselves.                                         *)
(***************************************************************************)
EXTENDS Integers, Sequences, SequencesExt, FiniteSets

CONSTANTS TicksPerMs, MsPerSec,
          Timers, Delays, \* timers; milliseconds they are set to
          Pids,           \* children
          MaxTime,        \* bound: ticks
          MaxSets         \* bound: timers set

ASSUME TimerAssumption ==
  /\ TicksPerMs \in Nat \ {0} /\ MsPerSec \in Nat \ {0}
  /\ Delays \subseteq Nat /\ Pids \subseteq Nat /\ IsFiniteSet(Pids)

VARIABLES now,            \* CLOCK_MONOTONIC, in ticks
          timeouts,       \* the list, timers in order
          dueAt,          \* timer -> timeout->time: [sec, usec]
          lpc,            \* the round: "timeouts", "children", "events", "sleep"
          roundTv,        \* uloop_run's tv
          wakeAt,         \* when epoll_wait returns by itself, -1 for never
          doSigchld,      \* do_sigchld
          processes,      \* the list, sorted by pid
          zombies,        \* children that have exited and were not waited for
          told,           \* pid -> how often the callback was called
          sets

timerVars == <<now, timeouts, dueAt, lpc, roundTv, wakeAt, doSigchld, processes, zombies, told, sets>>

TicksPerSec == TicksPerMs * MsPerSec
Tv(t) == [sec |-> t \div TicksPerSec, usec |-> t % TicksPerSec]
Ticks(tv) == tv.sec * TicksPerSec + tv.usec

\* C's division, towards zero.
TruncDiv(a, b) == IF a >= 0 THEN a \div b ELSE -((-a) \div b)

\* Milliseconds.
tv_diff(t1, t2) == (t1.sec - t2.sec) * MsPerSec + TruncDiv(t1.usec - t2.usec, TicksPerMs)

TimerInit ==
  /\ now = 0 /\ timeouts = <<>> /\ dueAt = [t \in Timers |-> Tv(0)] /\ lpc = "timeouts"
  /\ roundTv = Tv(0) /\ wakeAt = -1 /\ doSigchld = FALSE
  /\ processes \in {ps \in SetToAllKPermutations(Pids) : \A i, j \in DOMAIN ps : i < j => ps[i] < ps[j]}
  /\ sets \in IF processes = <<>> THEN {0} ELSE {MaxSets - 1}  \* bound: not much of both
  /\ zombies = {} /\ told = [p \in Pids |-> 0]

-----------------------------------------------------------------------------
(* Timers. *)

\* Before the first timer that is due later.
uloop_timeout_add(ts, due, t) ==
  LET i == SelectInSeq(ts, LAMBDA u : tv_diff(due[u], due[t]) > 0)
  IN  IF i = 0 THEN Append(ts, t) ELSE InsertAt(ts, i, t)

\* A second is carried over only beyond the full second.
DueIn(ms) ==
  LET tv == Tv(now)
      sec == tv.sec + ms \div MsPerSec
      usec == tv.usec + (ms % MsPerSec) * TicksPerMs
  IN  IF usec > TicksPerSec THEN [sec |-> sec + 1, usec |-> usec - TicksPerSec]
      ELSE [sec |-> sec, usec |-> usec]

\* A callback, of a timer, a child or a descriptor, sets timer t.
uloop_timeout_set(t, ms) ==
  /\ lpc # "sleep" /\ sets < MaxSets
  /\ dueAt' = [dueAt EXCEPT ![t] = DueIn(ms)]
  /\ timeouts' = uloop_timeout_add(RemoveFirst(timeouts, t), dueAt', t)
  /\ sets' = sets + 1
  /\ UNCHANGED <<now, lpc, roundTv, wakeAt, doSigchld, processes, zombies, told>>

uloop_timeout_cancel(t) ==
  /\ lpc # "sleep" /\ t \in Range(timeouts)
  /\ timeouts' = RemoveFirst(timeouts, t)
  /\ UNCHANGED <<now, dueAt, lpc, roundTv, wakeAt, doSigchld, processes, zombies, told, sets>>

\* The first timer is due in this round.
FirstIsDue == IF timeouts = <<>> THEN FALSE ELSE tv_diff(dueAt[Head(timeouts)], roundTv) <= 0

\* uloop_process_timeouts
TimerFires ==
  /\ lpc = "timeouts" /\ FirstIsDue
  /\ timeouts' = Tail(timeouts)
  /\ UNCHANGED <<now, dueAt, lpc, roundTv, wakeAt, doSigchld, processes, zombies, told, sets>>

TimeoutsDone ==
  /\ lpc = "timeouts" /\ ~FirstIsDue
  /\ lpc' = IF doSigchld THEN "children" ELSE "events"
  /\ doSigchld' = FALSE
  /\ UNCHANGED <<now, timeouts, dueAt, roundTv, wakeAt, processes, zombies, told, sets>>

-----------------------------------------------------------------------------
(* Children. *)

MoreChildren(s) == s # {}

\* uloop_handle_processes: waitpid gives any of them; the list is searched in order.
ReapChild(p) ==
  /\ lpc = "children" /\ p \in zombies
  /\ zombies' = zombies \ {p}
  /\ told' = IF p \in Range(processes) THEN [told EXCEPT ![p] = @ + 1] ELSE told
  /\ processes' = RemoveFirst(processes, p)
  /\ lpc' = IF MoreChildren(zombies') THEN "children" ELSE "events"
  /\ UNCHANGED <<now, timeouts, dueAt, roundTv, wakeAt, doSigchld, sets>>

\* The signal came and its child was waited for already.
NoChild ==
  /\ lpc = "children" /\ zombies = {}
  /\ lpc' = "events"
  /\ UNCHANGED <<now, timeouts, dueAt, roundTv, wakeAt, doSigchld, processes, zombies, told, sets>>

uloop_process_delete(p) ==
  /\ lpc # "sleep" /\ p \in Range(processes)
  /\ processes' = RemoveFirst(processes, p)
  /\ UNCHANGED <<now, timeouts, dueAt, lpc, roundTv, wakeAt, doSigchld, zombies, told, sets>>

-----------------------------------------------------------------------------
(* Sleeping. *)

\* Fault: the time to sleep is counted from the beginning of the round.
uloop_get_next_timeout_Stale ==
  IF timeouts = <<>> THEN -1
  ELSE LET diff == tv_diff(dueAt[Head(timeouts)], Tv(0)) IN IF diff < 0 THEN 0 ELSE diff

uloop_get_next_timeout ==
  IF timeouts = <<>> THEN -1
  ELSE LET diff == tv_diff(dueAt[Head(timeouts)], Tv(now)) IN IF diff < 0 THEN 0 ELSE diff

\* epoll_wait
Sleep ==
  /\ lpc = "events"
  /\ wakeAt' = IF uloop_get_next_timeout = -1 THEN -1
               ELSE now + uloop_get_next_timeout * TicksPerMs
  /\ lpc' = "sleep"
  /\ UNCHANGED <<now, timeouts, dueAt, roundTv, doSigchld, processes, zombies, told, sets>>

\* The timeout, a descriptor or a signal; the next round begins.
WakeUp ==
  /\ lpc = "sleep"
  /\ lpc' = "timeouts" /\ roundTv' = Tv(now) /\ wakeAt' = -1
  /\ UNCHANGED <<now, timeouts, dueAt, doSigchld, processes, zombies, told, sets>>

\* A signal that comes while the loop sleeps ends the sleep; one that comes before
\* only sets the flag.
ChildExits(p) ==
  /\ p \notin zombies /\ told[p] = 0 /\ p \in Range(processes)
  /\ zombies' = zombies \union {p}
  /\ doSigchld' = TRUE
  /\ IF lpc = "sleep" THEN lpc' = "timeouts" /\ roundTv' = Tv(now) /\ wakeAt' = -1
     ELSE UNCHANGED <<lpc, roundTv, wakeAt>>
  /\ UNCHANGED <<now, timeouts, dueAt, processes, told, sets>>

TimePasses ==
  /\ now < MaxTime /\ (lpc = "sleep" /\ wakeAt # -1 => now < wakeAt)
  /\ now' = now + 1
  /\ UNCHANGED <<timeouts, dueAt, lpc, roundTv, wakeAt, doSigchld, processes, zombies, told, sets>>

TimerNext ==
  \/ \E t \in Timers : uloop_timeout_cancel(t) \/ \E ms \in Delays : uloop_timeout_set(t, ms)
  \/ \E p \in Pids : ReapChild(p) \/ uloop_process_delete(p) \/ ChildExits(p)
  \/ TimerFires \/ TimeoutsDone \/ NoChild \/ Sleep \/ WakeUp \/ TimePasses

TimerSpec == TimerInit /\ [][TimerNext]_timerVars

-----------------------------------------------------------------------------
(* Properties. *)

\* However the rounding falls, a timer is never behind one that is due a millisecond
\* or more after it.
TimersInOrder ==
  \A i, j \in DOMAIN timeouts : i < j => Ticks(dueAt[timeouts[i]]) - Ticks(dueAt[timeouts[j]]) < TicksPerMs

\* The rounding of the order and that of the sleep add up to less than two
\* milliseconds: the loop never sleeps longer than that past any timer.
NoOversleep ==
  lpc = "sleep" => \A t \in Range(timeouts) :
    wakeAt # -1 /\ (wakeAt > now => wakeAt - Ticks(dueAt[t]) < 2 * TicksPerMs)

\* No exit of a child is forgotten: as long as one was not waited for, the loop is
\* about to look or the flag that makes it look is set, and nobody is told twice.
ExitsNotForgotten ==
  /\ zombies # {} => doSigchld \/ lpc = "children"
  /\ \A p \in Pids : told[p] <= 1 /\ (told[p] = 1 => p \notin zombies)

\* The loop sleeps past no timer, whatever the rounding, and forgets no child's exit.
TimersAndExitsKept == TimersInOrder /\ NoOversleep /\ ExitsNotForgotten
=============================================================================
