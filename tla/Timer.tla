-------------------------------- MODULE Timer -------------------------------
(***************************************************************************)
(* The update timer of the profiles (core/timer.rs).  refresh() compares   *)
(* the committed profiles with a cached map and sends the new map to the   *)
(* scheduler, which alone owns the delay queue and the task states; an     *)
(* update runs in a task of its own and reports back through the same      *)
(* mailbox.  An interval of 0 stands for a profile without automatic       *)
(* updates.  Time is what makes an armed task fire at some point.          *)
(***************************************************************************)
EXTENDS Naturals, Sequences

CONSTANTS
  Uids,          \* the profiles
  Intervals,     \* update intervals, without 0
  MaxEdits       \* bounds the changes of the profiles

ASSUME TimerAssumption == Intervals \subseteq Nat \ {0} /\ MaxEdits \in Nat

VARIABLES
  interval,      \* the committed profiles: update_interval, 0 when disabled
  timer_map,     \* Timer::timer_map
  asked,         \* refresh() calls waiting for refresh_lock
  refresher,     \* the holder of refresh_lock
  mailbox,       \* the commands of the scheduler
  tasks,         \* TaskState per profile
  updates,       \* updates under way per profile
  overdue,       \* profiles init() runs at once
  initialized,   \* how far init() is
  edits          \* changes made so far

timerVars == <<interval, timer_map, asked, refresher, mailbox, tasks, updates,
               overdue, initialized, edits>>

caller == <<interval, timer_map, asked, refresher, overdue, initialized, edits>>

Maps == [Uids -> Intervals \cup {0}]
Nothing == [u \in Uids |-> 0]
NoTask == [on |-> FALSE, key |-> FALSE, interval |-> 0, running |-> FALSE, retired |-> FALSE]
NoRefresh == [pc |-> "idle", map |-> Nothing]

TimerInit ==
  /\ interval \in Maps
  /\ timer_map = Nothing
  /\ asked = 0 /\ refresher = NoRefresh
  /\ mailbox = <<>>
  /\ tasks = [u \in Uids |-> NoTask]
  /\ updates = [u \in Uids |-> 0]
  /\ overdue \in SUBSET {u \in Uids : interval[u] # 0}
  /\ initialized = "no"
  /\ edits = 0

Send(kind, uid, map) == mailbox' = Append(mailbox, [kind |-> kind, uid |-> uid, map |-> map])

----------------------------------------------------------------------------
(* The callers. *)

init ==
  /\ initialized = "no"
  /\ initialized' = "refreshing"
  /\ asked' = asked + 1
  /\ UNCHANGED <<interval, timer_map, refresher, mailbox, tasks, updates, overdue, edits>>

\* Overdue profiles are run without waiting for the queue.
RunOverdue ==
  /\ initialized = "yes"
  /\ \E u \in overdue : overdue' = overdue \ {u} /\ Send("RunNow", u, Nothing)
  /\ UNCHANGED <<interval, timer_map, asked, refresher, tasks, updates, initialized, edits>>

\* A profile is added, removed or patched, and the caller refreshes the timer;
\* an interval that a subscription brings along is committed without.
EditProfile ==
  /\ edits < MaxEdits
  /\ \E u \in Uids, i \in Intervals \cup {0} : interval' = [interval EXCEPT ![u] = i]
  /\ asked' \in {asked, asked + 1}
  /\ edits' = edits + 1
  /\ UNCHANGED <<timer_map, refresher, mailbox, tasks, updates, overdue, initialized>>

gen_map == interval

RefreshRead ==
  /\ asked > 0 /\ refresher.pc = "idle"
  /\ asked' = asked - 1
  /\ refresher' = [pc |-> "read", map |-> gen_map]
  /\ UNCHANGED <<interval, timer_map, mailbox, tasks, updates, overdue, initialized, edits>>

RefreshReturn ==
  /\ refresher' = NoRefresh
  /\ initialized' = IF initialized = "refreshing" THEN "yes" ELSE initialized

\* A map like the cached one sends nothing.
RefreshSkip ==
  /\ refresher.pc = "read" /\ refresher.map = timer_map
  /\ RefreshReturn
  /\ UNCHANGED <<interval, timer_map, asked, mailbox, tasks, updates, overdue, edits>>

RefreshCache ==
  /\ refresher.pc = "read" /\ refresher.map # timer_map
  /\ timer_map' = refresher.map
  /\ refresher' = [refresher EXCEPT !.pc = "send"]
  /\ UNCHANGED <<interval, asked, mailbox, tasks, updates, overdue, initialized, edits>>

RefreshSend ==
  /\ refresher.pc = "send"
  /\ Send("Apply", "all", refresher.map)
  /\ RefreshReturn
  /\ UNCHANGED <<interval, timer_map, asked, tasks, updates, overdue, edits>>

RefreshStep == RefreshRead \/ RefreshSkip \/ RefreshCache \/ RefreshSend

----------------------------------------------------------------------------
(* The scheduler. *)

Received(kind) == mailbox # <<>> /\ Head(mailbox).kind = kind /\ mailbox' = Tail(mailbox)

insert_task(i) == [NoTask EXCEPT !.on = TRUE, !.key = TRUE, !.interval = i]

\* A new interval moves the deadline; a task without one that is not running
\* gets one.
update_task_interval(t, i) == [t EXCEPT !.interval = i, !.key = @ \/ ~t.running]

\* A task that left the map while its update runs stays, retired, so that
\* enabling it again finds the running update.
Applied(t, i) ==
  CASE i = 0 /\ t.running -> [t EXCEPT !.key = FALSE, !.retired = TRUE]
    [] i = 0 /\ ~t.running -> NoTask
    [] i # 0 /\ ~t.on -> insert_task(i)
    [] i # 0 /\ t.on /\ t.interval = i -> [t EXCEPT !.retired = FALSE]
    [] OTHER -> [update_task_interval(t, i) EXCEPT !.retired = FALSE]

apply_timer_map ==
  /\ Received("Apply")
  /\ tasks' = [u \in Uids |-> Applied(tasks[u], Head(mailbox).map[u])]
  /\ UNCHANGED <<caller, updates>>

\* mark_task_running and spawn_update_task: a task that runs is left alone.
Started(u) ==
  IF tasks[u].on /\ ~tasks[u].running
  THEN /\ tasks' = [tasks EXCEPT ![u].running = TRUE, ![u].key = FALSE]
       /\ updates' = [updates EXCEPT ![u] = @ + 1]
  ELSE UNCHANGED <<tasks, updates>>

run_expired_task(u) ==
  /\ tasks[u].on /\ tasks[u].key
  /\ Started(u)
  /\ UNCHANGED <<caller, mailbox>>

run_task_now ==
  /\ Received("RunNow")
  /\ Started(Head(mailbox).uid)
  /\ UNCHANGED caller

Mut_Finished(t) ==
  CASE ~t.on             -> t
    [] t.on /\ t.retired -> NoTask
    [] OTHER             -> [t EXCEPT !.running = FALSE]

Finished(t) ==
  CASE ~t.on             -> t
    [] t.on /\ t.retired -> NoTask
    [] OTHER             -> [t EXCEPT !.running = FALSE, !.key = TRUE]

finish_task ==
  /\ Received("TaskFinished")
  /\ tasks' = [tasks EXCEPT ![Head(mailbox).uid] = Finished(@)]
  /\ UNCHANGED <<caller, updates>>

\* The update returns, whatever its result, and reports back.
async_task(u) ==
  /\ updates[u] > 0
  /\ updates' = [updates EXCEPT ![u] = @ - 1]
  /\ Send("TaskFinished", u, Nothing)
  /\ UNCHANGED <<caller, tasks>>

run_scheduler == apply_timer_map \/ run_task_now \/ finish_task

TimerNext ==
  \/ init \/ RunOverdue \/ EditProfile
  \/ RefreshStep \/ run_scheduler
  \/ \E u \in Uids : run_expired_task(u) \/ async_task(u)

TimerSpec == TimerInit /\ [][TimerNext]_timerVars

\* The scheduler and the callers of refresh() are polled, deadlines pass and
\* updates return; nothing forces a profile to be edited.
TimerFairness ==
  /\ WF_timerVars(run_scheduler) /\ WF_timerVars(RefreshStep)
  /\ \A u \in Uids : WF_timerVars(run_expired_task(u)) /\ WF_timerVars(async_task(u))

TimerFairSpec == TimerSpec /\ TimerFairness

----------------------------------------------------------------------------

(* A profile that stays in the map keeps being updated: no sequence of     *)
(* changes or reports leaves it with neither a deadline nor an update.     *)
KeepsUpdating ==
  \A u \in Uids : <>[](timer_map[u] # 0) => []<>(tasks[u].running)

(***************************************************************************)
(* What KeepsUpdating rests on, without fairness.                          *)
(***************************************************************************)

\* The reports of u, and the maps, that wait in the mailbox.
Reports(u) == {i \in 1..Len(mailbox) : mailbox[i].kind = "TaskFinished" /\ mailbox[i].uid = u}
MapsSent   == {i \in 1..Len(mailbox) : mailbox[i].kind = "Apply"}

\* A profile is never updated twice at once; and when the scheduler has seen
\* every map that was cached, a profile of the map has its deadline, or an
\* update under way, or a report to come, at the interval of the map; any
\* other has no deadline (apply_timer_map, mark_task_running, finish_task and
\* the tasks that are retired while they run).
NeverForgotten ==
  \A u \in Uids :
    /\ updates[u] <= 1
    /\ refresher.pc # "send" /\ MapsSent = {} =>
         IF timer_map[u] # 0
         THEN /\ tasks[u].interval = timer_map[u]
              /\ tasks[u].key \/ updates[u] = 1 \/ Reports(u) # {}
         ELSE ~tasks[u].key

=============================================================================
