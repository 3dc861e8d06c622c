------------------------------ MODULE Runqueue ------------------------------
(***************************************************************************)
(* libubox's run queue on its safe lists.  The queue calls the program     *)
(* back (run, complete, cancel, kill, empty_cb) in the middle of its own   *)
(* functions, and the program may call it again from there: the C stack is *)
(* a sequence of frames, innermost first, each what remains to be done.    *)
(***************************************************************************)
EXTENDS Naturals, Sequences, SequencesExt, FiniteSets

CONSTANTS Tasks,
          MaxRunning,     \* q->max_running_tasks, 0 for no limit
          MaxAdds,        \* bound: tasks added
          MaxFrames       \* bound: depth of the stack

VARIABLES active, inactive,  \* the two lists of tasks
          task,           \* task -> [queued, running, cancelled, timer]
          running_tasks, stopped, empty,
          qTimer,         \* q->timeout: "off", "start" or "empty"
          rqFrames,       \* the stack
          adds,
          killed          \* runqueue_kill has switched the timer off

rqVars == <<active, inactive, task, running_tasks, stopped, empty, qTimer, rqFrames, adds, killed>>

TheEnd == "head"          \* the list head, where a walk ends

ASSUME RqAssumption == TheEnd \notin Tasks

RqFrame(op, t) == [op |-> op, t |-> t, next |-> TheEnd]

RqInit ==
  /\ active = <<>> /\ inactive = <<>> /\ running_tasks = 0
  /\ task = [t \in Tasks |-> [queued |-> FALSE, running |-> FALSE, cancelled |-> FALSE, timer |-> FALSE]]
  /\ stopped = FALSE /\ empty = FALSE /\ qTimer = "off" /\ adds = 0 /\ killed = FALSE
  /\ rqFrames = <<>>

-----------------------------------------------------------------------------
(* safe_list: a walk's iterator waits at the entry it visits next. *)

Successor(s, t) == LET i == SelectInSeq(s, LAMBDA x : x = t)
                   IN  IF i \in 1..(Len(s) - 1) THEN s[i + 1] ELSE TheEnd

\* Fault: the iterators that wait at a deleted entry stay there.
safe_list_del_Stay(fs, s, t) == fs

\* Iterators that wait at the entry move on to the one after it.
safe_list_del(fs, s, t) ==
  [i \in DOMAIN fs |-> IF fs[i].next = t THEN [fs[i] EXCEPT !.next = Successor(s, t)] ELSE fs[i]]

\* safe_list_for_each with __runqueue_cancel: visit f.t, the iterator behind it.
Walk(op, s, cur) == [op |-> op, t |-> cur, next |-> Successor(s, cur)]
FirstOf(s) == IF s = <<>> THEN TheEnd ELSE Head(s)

-----------------------------------------------------------------------------
(* The queue's functions, by what they leave to be done.  fs is the stack  *)
(* of their caller.                                                        *)

\* runqueue_task_complete of a queued task; the callback, then runqueue_start_next.
CompleteTask(t, fs) ==
  /\ running_tasks' = running_tasks - (IF task[t].running THEN 1 ELSE 0)
  /\ task' = [task EXCEPT ![t] = [queued |-> FALSE, running |-> FALSE,
                                  cancelled |-> FALSE, timer |-> FALSE]]
  /\ active' = RemoveFirst(active, t) /\ inactive' = RemoveFirst(inactive, t)
  /\ rqFrames' = <<RqFrame("complete_cb", t), RqFrame("start_next", t)>>
                 \o safe_list_del(fs, IF task[t].running THEN active ELSE inactive, t)
  /\ UNCHANGED <<stopped, empty, qTimer, adds, killed>>

\* runqueue_task_cancel: a waiting task is complete, a running one is asked to end,
\* with cancel_timeout, if it has one, to do so.
CancelTask(t, fs, pending) ==
  \/ task[t].queued /\ ~task[t].running /\ CompleteTask(t, fs)
  \/ /\ task[t].running
     /\ \E armed \in {TRUE, pending} :
          task' = [task EXCEPT ![t].cancelled = TRUE, ![t].timer = armed]
     /\ rqFrames' = <<RqFrame("cancel_cb", t)>> \o fs
     /\ UNCHANGED <<active, inactive, running_tasks, stopped, empty, qTimer, adds, killed>>
  \/ /\ ~task[t].queued
     /\ rqFrames' = fs
     /\ UNCHANGED <<active, inactive, task, running_tasks, stopped, empty, qTimer, adds, killed>>

\* runqueue_task_kill: complete, then kill_cb if it was running, then start_next.
KillTask(t, fs) ==
  /\ task[t].queued
  /\ CompleteTask(t, (IF task[t].running THEN <<RqFrame("kill_cb", t)>> ELSE <<>>)
                     \o <<RqFrame("start_next", t)>> \o fs)

-----------------------------------------------------------------------------
(* What the program calls, from its loop or from one of the callbacks. *)

RqCallbacks == {"run_cb", "complete_cb", "cancel_cb", "kill_cb", "empty_cb"}
ProgramRuns == IF rqFrames = <<>> THEN TRUE ELSE Head(rqFrames).op \in RqCallbacks
MayCall == ProgramRuns /\ Len(rqFrames) < MaxFrames
RqTop == Head(rqFrames)
RqBelow == Tail(rqFrames)

Counted(n, running) == IF running THEN n + 1 ELSE n

\* _runqueue_task_add: a queued task is left as it is.
runqueue_task_add(t, running, first) ==
  /\ MayCall /\ adds < MaxAdds /\ ~task[t].queued
  /\ adds' = adds + 1
  /\ running_tasks' = Counted(running_tasks, running)
  /\ LET put(s) == IF first THEN <<t>> \o s ELSE Append(s, t)
     IN  IF running THEN active' = put(active) /\ UNCHANGED inactive
                    ELSE inactive' = put(inactive) /\ UNCHANGED active
  /\ task' = [task EXCEPT ![t] = [queued |-> TRUE, running |-> running, cancelled |-> FALSE, timer |-> FALSE]]
  /\ empty' = FALSE
  /\ qTimer' = "start" /\ killed' = FALSE
  /\ UNCHANGED <<stopped, rqFrames>>

runqueue_task_complete(t) == MayCall /\ task[t].queued /\ CompleteTask(t, rqFrames)
runqueue_task_cancel(t) == MayCall /\ task[t].queued /\ CancelTask(t, rqFrames, task[t].timer)
runqueue_task_kill(t) == MayCall /\ KillTask(t, rqFrames)

\* runqueue_cancel: first the waiting tasks, then the running ones.
runqueue_cancel ==
  /\ MayCall
  /\ rqFrames' = <<Walk("cancel_pending", inactive, FirstOf(inactive)),
                   RqFrame("then_active", TheEnd)>> \o rqFrames
  /\ UNCHANGED <<active, inactive, task, running_tasks, stopped, empty, qTimer, adds, killed>>

runqueue_kill ==
  /\ MayCall
  /\ rqFrames' = <<RqFrame("kill_all", TheEnd)>> \o rqFrames
  /\ UNCHANGED <<active, inactive, task, running_tasks, stopped, empty, qTimer, adds, killed>>

runqueue_stop ==
  /\ MayCall /\ ~stopped /\ stopped' = TRUE
  /\ UNCHANGED <<active, inactive, task, running_tasks, empty, qTimer, rqFrames, adds, killed>>

\* runqueue_start_next: nothing for an empty queue.
Armed == IF empty THEN UNCHANGED <<qTimer, killed>> ELSE qTimer' = "start" /\ killed' = FALSE

runqueue_resume ==
  /\ MayCall /\ stopped /\ stopped' = FALSE
  /\ Armed
  /\ UNCHANGED <<active, inactive, task, running_tasks, empty, rqFrames, adds>>

CallbackDone ==
  /\ rqFrames # <<>> /\ RqTop.op \in RqCallbacks
  /\ rqFrames' = RqBelow
  /\ UNCHANGED <<active, inactive, task, running_tasks, stopped, empty, qTimer, adds, killed>>

-----------------------------------------------------------------------------
(* Timers. *)

QueueTimer ==
  /\ rqFrames = <<>> /\ qTimer # "off"
  /\ qTimer' = "off"
  /\ rqFrames' = <<RqFrame(IF qTimer = "start" THEN "starting" ELSE "empty_cb", TheEnd)>>
  /\ UNCHANGED <<active, inactive, task, running_tasks, stopped, empty, adds, killed>>

\* __runqueue_task_timeout: the second one, after a cancel, kills.
TaskTimeout(t) ==
  /\ rqFrames = <<>> /\ task[t].timer
  /\ IF task[t].cancelled THEN KillTask(t, <<>>) ELSE CancelTask(t, <<>>, FALSE)

Full == MaxRunning # 0 /\ running_tasks >= MaxRunning
CanStart == ~stopped /\ inactive # <<>> /\ ~Full

\* One round of __runqueue_start_next's loop; the task may have a timeout.
StartNext ==
  /\ rqFrames # <<>> /\ RqTop.op = "starting" /\ CanStart
  /\ LET t == Head(inactive)
     IN  /\ inactive' = Tail(inactive) /\ active' = Append(active, t)
         /\ \E armed \in BOOLEAN :
              task' = [task EXCEPT ![t].running = TRUE, ![t].timer = armed]
         /\ rqFrames' = <<RqFrame("run_cb", t)>> \o safe_list_del(rqFrames, inactive, t)
  /\ running_tasks' = running_tasks + 1
  /\ UNCHANGED <<stopped, empty, qTimer, adds, killed>>

\* The end of it: the first time the queue is found empty empty_cb is due.
StartEnds ==
  /\ rqFrames # <<>> /\ RqTop.op = "starting" /\ ~CanStart
  /\ IF ~empty /\ active = <<>> /\ inactive = <<>>
     THEN empty' = TRUE /\ qTimer' = "empty"
     ELSE UNCHANGED <<empty, qTimer>>
  /\ rqFrames' = RqBelow
  /\ UNCHANGED <<active, inactive, task, running_tasks, stopped, adds, killed>>

-----------------------------------------------------------------------------
(* The rest of the functions that were left for a callback. *)

StartNextLater ==
  /\ rqFrames # <<>> /\ RqTop.op = "start_next"
  /\ Armed
  /\ rqFrames' = RqBelow
  /\ UNCHANGED <<active, inactive, task, running_tasks, stopped, empty, adds>>

Walked(op) == IF op = "cancel_pending" THEN "cancel_pending_next" ELSE "cancel_active_next"

\* One entry of a walk; the next one is where the iterator is then.
WalkStep ==
  /\ rqFrames # <<>> /\ RqTop.op \in {"cancel_pending", "cancel_active"} /\ RqTop.t # TheEnd
  /\ CancelTask(RqTop.t, <<[RqTop EXCEPT !.op = Walked(@)]>> \o RqBelow, task[RqTop.t].timer)

WalkNext ==
  /\ rqFrames # <<>> /\ RqTop.op \in {"cancel_pending_next", "cancel_active_next"}
  /\ LET pending == RqTop.op = "cancel_pending_next"
     IN  rqFrames' = <<Walk(IF pending THEN "cancel_pending" ELSE "cancel_active",
                            IF pending THEN inactive ELSE active, RqTop.next)>> \o RqBelow
  /\ UNCHANGED <<active, inactive, task, running_tasks, stopped, empty, qTimer, adds, killed>>

WalkEnds ==
  /\ rqFrames # <<>> /\ RqTop.op \in {"cancel_pending", "cancel_active"} /\ RqTop.t = TheEnd
  /\ rqFrames' = RqBelow
  /\ UNCHANGED <<active, inactive, task, running_tasks, stopped, empty, qTimer, adds, killed>>

ThenActive ==
  /\ rqFrames # <<>> /\ RqTop.op = "then_active"
  /\ rqFrames' = <<Walk("cancel_active", active, FirstOf(active))>> \o RqBelow
  /\ UNCHANGED <<active, inactive, task, running_tasks, stopped, empty, qTimer, adds, killed>>

\* runqueue_kill: the running tasks one by one, the waiting ones, then the timer.
KillAll ==
  /\ rqFrames # <<>> /\ RqTop.op = "kill_all"
  /\ IF active # <<>> THEN KillTask(Head(active), rqFrames)
     ELSE /\ rqFrames' = <<Walk("cancel_pending", inactive, FirstOf(inactive)),
                           RqFrame("timer_off", TheEnd)>> \o RqBelow
          /\ UNCHANGED <<active, inactive, task, running_tasks, stopped, empty, qTimer, adds, killed>>

TimerOff ==
  /\ rqFrames # <<>> /\ RqTop.op = "timer_off"
  /\ qTimer' = "off" /\ killed' = TRUE
  /\ rqFrames' = RqBelow
  /\ UNCHANGED <<active, inactive, task, running_tasks, stopped, empty, adds>>

RqNext ==
  \/ \E t \in Tasks : \/ \E r, f \in BOOLEAN : runqueue_task_add(t, r, f)
                      \/ runqueue_task_complete(t) \/ runqueue_task_cancel(t)
                      \/ runqueue_task_kill(t) \/ TaskTimeout(t)
  \/ runqueue_cancel \/ runqueue_kill \/ runqueue_stop \/ runqueue_resume
  \/ CallbackDone \/ QueueTimer \/ StartNext \/ StartEnds \/ StartNextLater
  \/ WalkStep \/ WalkNext \/ WalkEnds \/ ThenActive \/ KillAll \/ TimerOff

RqSpec == RqInit /\ [][RqNext]_rqVars

-----------------------------------------------------------------------------
(* Properties. *)

\* The two lists, the flags of the tasks and the count of running tasks always say
\* the same, whatever the callbacks called.
ListsAgree ==
  /\ running_tasks = Len(active)
  /\ \A t \in Tasks : /\ (t \in Range(active)) = (task[t].queued /\ task[t].running)
                      /\ (t \in Range(inactive)) = (task[t].queued /\ ~task[t].running)
                      /\ task[t].timer => task[t].queued
  /\ IsInjective(active \o inactive)

\* A walk over a list never waits at an entry that has left it, so it never follows
\* the links of a task that the callback has deleted.
WalksStayOnList ==
  \A i \in DOMAIN rqFrames :
    rqFrames[i].next # TheEnd => rqFrames[i].next \in Range(active \o inactive)

\* No task is left waiting: once the program is back in its loop, a task that could
\* be started has a timer that will start it, unless runqueue_kill switched it off.
StartsWhenItCan == rqFrames = <<>> /\ CanStart => qTimer = "start" \/ killed

\* The empty callback is called when the queue has run dry, through whatever sequence
\* of completions, cancellations and callbacks that add or cancel tasks: with nothing
\* left to do and no timer it has been called.  Only runqueue_kill keeps it from it.
EmptyIsTold ==
  rqFrames = <<>> /\ qTimer = "off" /\ adds > 0 /\ active = <<>> /\ inactive = <<>> => empty \/ killed

\* Whatever the callbacks call in the middle of a walk: lists, flags and counts agree,
\* no walk follows a deleted task, no task that could start is left waiting, and the
\* program is told when the queue is empty.
QueueSound == ListsAgree /\ WalksStayOnList /\ StartsWhenItCan /\ EmptyIsTold
=============================================================================
