--------------------------- MODULE CoreLifecycle ----------------------------
(***************************************************************************)
(* CoreManager (core/manager/{mod,state,lifecycle,config}.rs) with the     *)
(* owner monitor and the owner recovery of core/service.rs: who may start, *)
(* stop and replace the core, under which locks, and what the failures and *)
(* late events of the core's processes do to it.                           *)
(*                                                                         *)
(* A lifecycle operation is a task with a list of steps still to do, one   *)
(* per point at which the async code awaits.  A failing step drops the     *)
(* list up to its next "catch", the code's own error handling, or ends the *)
(* operation.  Service Health (module RunState) enters as the decision     *)
(* prepare_startup returns; the OS proxy and its guard (module SysProxy)   *)
(* as three flags.                                                         *)
(***************************************************************************)
EXTENDS Naturals, Sequences, FiniteSets

CONSTANTS
  Tasks,      \* callers of the lifecycle operations
  Pids,       \* sidecar processes that may be spawned
  Ops,        \* the operations the tasks call
  Platform,   \* "windows", "linux" or "macos"
  Decisions,  \* the answers prepare_startup may give
  Observers,  \* who may notice the loss of the Service core
  MaxOps,     \* how many operations are called in all
  MaxGen,     \* the owner generations a behaviour may use
  None

ASSUME PlatformAssumption == Platform \in {"windows", "linux", "macos"}
ASSUME DecisionsAssumption == Decisions \subseteq {"Service", "Sidecar", "Wait"}
ASSUME ObserversAssumption == "monitor" \in Observers /\ Observers \subseteq {"monitor", "reader"}
ASSUME OpsAssumption ==
  Ops \subseteq {"start", "stop", "restart", "sidecar", "uninstall", "handoff",
                 "config", "proxy on", "proxy off"}
ASSUME BoundsAssumption == MaxOps \in Nat /\ MaxGen \in Nat

VARIABLES
  flag,       \* config_update_in_progress: the task that set it
  write,      \* Config::lock_config_write: the task that holds it
  life,       \* lifecycle_lock: who holds it
  mode,       \* the Running Mode
  ready,      \* core_readiness_state: generation and active bit
  child,      \* child_sidecar: its pid
  exit,       \* sidecar_exit: the pid whose exit is awaited
  proc,       \* the sidecar processes
  event,      \* the task draining each sidecar's events
  owner,      \* OWNER_MONITOR_GENERATION
  watch,      \* the owner monitor and the log reader of each generation
  session,    \* ACTIVE_SERVICE_SESSION
  svc,        \* external: the session whose core the Service runs
  proxy,      \* the OS proxy points at us
  owned,      \* owned_proxy: the OS proxy is recorded as this instance's
  guard,      \* the proxy guard runs
  want,       \* enable_system_proxy
  task,       \* the operations
  calls       \* how many operations were called

vars == <<flag, write, life, mode, ready, child, exit, proc, event, owner, watch, session,
          svc, proxy, owned, guard, want, task, calls>>

Gens == 0 .. MaxGen

\* Whoever may find out that the Service core is lost: the owner monitor of a
\* generation, or a log request that captured it.
Watchers == Gens \X Observers

\* Whoever may hold the lifecycle lock has an identity of its own.
ASSUME IdentityAssumption ==
  /\ None \notin Tasks \cup Pids \cup Watchers \cup Gens \cup Ops
  /\ Tasks \cap Pids = {} /\ Tasks \cap Watchers = {} /\ Pids \cap Watchers = {}

\* What a step may change besides the task itself, grouped by who owns it.
locks == <<flag, write, life>>
core == <<mode, ready>>
sidecar == <<child, exit, proc, event>>
service == <<owner, watch, session, svc>>
os == <<proxy, owned, guard, want>>

NoTask == [todo |-> <<>>, op |-> None, exp |-> None, old |-> FALSE]
NoEvent == [pc |-> "none", gen |-> 0]
NoWatch == [pc |-> "none", saw |-> None]

Init ==
  /\ flag = None /\ write = None /\ life = None
  /\ mode = "NotRunning" /\ ready = [gen |-> 0, active |-> FALSE]
  /\ child = None /\ exit = None
  /\ proc = [p \in Pids |-> "unused"]
  /\ event = [p \in Pids |-> NoEvent]
  /\ owner = 0
  /\ watch = [w \in Watchers |-> NoWatch]
  /\ session = None /\ svc = None
  /\ proxy \in BOOLEAN   \* an earlier run may have left it
  /\ owned = FALSE /\ guard = FALSE /\ want \in BOOLEAN
  /\ task = [t \in Tasks |-> NoTask]
  /\ calls = 0

----------------------------------------------------------------------------
(* Readiness: one counter whose low bit says that a core is ready. *)

mark_core_ready == ready' = [gen |-> ready.gen + 1, active |-> TRUE]

Invalidated(r) == IF r.active THEN [gen |-> r.gen + 1, active |-> FALSE] ELSE r

invalidate_core_readiness_if(g) ==
  ready' = IF ready.active /\ ready.gen = g THEN Invalidated(ready) ELSE ready

core_stopped == ready' = Invalidated(ready) /\ mode' = "NotRunning"

Running == mode # "NotRunning" /\ ready.active

----------------------------------------------------------------------------
(* The list of steps. *)

At(t, step) == task[t].todo # <<>> /\ Head(task[t].todo) = step

\* The code's error handlers and what each does first.
\* In the order of the cases: start_core_inner, run_service_start_with_sidecar_fallback,
\* continue_with_sidecar and uninstall_service_and_start_sidecar, and
\* try_handoff_sidecar_to_service.
Handler ==
  [c \in {"catch start", "catch service", "catch rollback", "catch handoff"} |->
     CASE c = "catch start"    -> <<"rollback start", "raise">>
       [] c = "catch service"  -> <<"service failed">>
       [] c = "catch rollback" -> <<"rollback", "raise">>
       [] c = "catch handoff"  -> <<"stop", "fall back">>]

Catches == DOMAIN Handler

\* The step succeeded and these come before the rest; a handler that comes
\* up was not needed.
Skip(todo) == IF todo # <<>> /\ Head(todo) \in Catches THEN Tail(todo) ELSE todo

Then(t, steps) == task' = [task EXCEPT ![t].todo = Skip(steps \o Tail(@))]
Done(t) == Then(t, <<>>)

\* The step failed: the next handler gets control, or the operation ends.
Unwound(todo) ==
  LET at == {i \in 1 .. Len(todo) : todo[i] \in Catches}
  IN  IF at = {} THEN <<"failed">>
      ELSE LET i == CHOOSE j \in at : \A k \in at : j <= k
           IN  Handler[todo[i]] \o SubSeq(todo, i + 1, Len(todo))

Raise(t) == task' = [task EXCEPT ![t].todo = Unwound(Tail(@))]

\* The whole of apply_proxy_after_start, stop and start as lists of steps.
ApplyProxy == <<"capture", "apply", "check apply", "refresh", "check refresh">>
StartSidecar == <<"wait exit", "spawn", "poll">>
Terminate == <<"kill", "wait killed">>

Plan(op) ==
  CASE op = "start"     -> <<"lock", "start", "apply if ready">>
    [] op = "stop"      -> <<"lock", "stop">>
    [] op = "restart"   -> <<"lock", "stop for restart", "start", "must run">> \o ApplyProxy
    [] op = "sidecar"   -> <<"write lock", "lock", "allow", "stop guard", "start", "must sidecar">>
                             \o ApplyProxy \o <<"catch rollback">>
    [] op = "uninstall" -> <<"write lock", "lock", "stop", "uninstall and start">>
    [] op = "handoff"   -> <<"lock", "still sidecar", "clear">> \o Terminate \o <<"hand over">>
    [] op = "config"    -> <<"apply config">>
    [] op = "proxy on"  -> <<"write lock", "lock">> \o ApplyProxy
    [] op = "proxy off" -> <<"write lock", "lock", "apply", "refresh">>

\* stop_core, the service commands and the proxy switch take only the
\* lifecycle lock; everything else claims the config flag first, and gives
\* up when it is taken.
NeedsFlag(op) == op \notin {"stop", "proxy on", "proxy off"}

Call(t, op) ==
  /\ task[t] = NoTask /\ calls < MaxOps
  /\ op = "handoff" => Platform = "windows" /\ mode = "Sidecar"
  /\ NeedsFlag(op) => flag = None
  /\ flag' = IF NeedsFlag(op) THEN t ELSE flag
  /\ task' = [task EXCEPT ![t] = [NoTask EXCEPT !.todo = Plan(op) \o <<"end">>, !.op = op]]
  /\ calls' = calls + 1
  /\ UNCHANGED <<write, life, core, sidecar, service, os>>

\* Under the configuration lock a patch stages the setting it wants; the
\* draft is what every later apply reads.
WriteLock(t) ==
  /\ At(t, "write lock") /\ write = None
  /\ write' = t
  /\ task' = [task EXCEPT ![t].todo = Tail(@), ![t].old = want]
  /\ want' = CASE task[t].op = "proxy on" -> TRUE
               [] task[t].op = "proxy off" -> FALSE
               [] OTHER -> want
  /\ UNCHANGED <<flag, life, core, sidecar, service, proxy, owned, guard, calls>>

Lock(t) ==
  /\ At(t, "lock") /\ life = None
  /\ life' = t
  /\ Done(t)
  /\ UNCHANGED <<flag, write, core, sidecar, service, os, calls>>

Mut_Release(t) ==
  /\ flag' = IF flag = t THEN None ELSE flag
  /\ write' = IF write = t THEN None ELSE write
  /\ life' = IF life = t /\ At(t, "end") THEN None ELSE life

Release(t) ==
  /\ flag' = IF flag = t THEN None ELSE flag
  /\ write' = IF write = t THEN None ELSE write
  /\ life' = IF life = t THEN None ELSE life

\* The guards drop; a failed patch rolls its setting back.
End(t) ==
  /\ At(t, "end") \/ At(t, "failed")
  /\ Release(t)
  /\ want' = IF At(t, "failed") /\ task[t].op \in {"proxy on", "proxy off"}
             THEN task[t].old ELSE want
  /\ task' = [task EXCEPT ![t] = NoTask]
  /\ UNCHANGED <<core, sidecar, service, proxy, owned, guard, calls>>

\* Steps that only decide what comes next: an error passed on, and the parts
\* of an operation that have a handler of their own.
Expand(t) ==
  /\ \/ At(t, "raise") /\ Raise(t)
     \/ At(t, "hand over")
          /\ Then(t, <<"start service", "must service">> \o ApplyProxy \o <<"catch handoff">>)
     \/ At(t, "fall back")
          /\ Then(t, StartSidecar \o <<"must sidecar">> \o ApplyProxy \o <<"catch rollback">>)
     \/ At(t, "uninstall and start")
          /\ Then(t, <<"uninstall", "start", "must sidecar">> \o ApplyProxy \o <<"catch rollback">>)
     \/ At(t, "rollback")
          /\ Then(t, (IF mode = "Sidecar" THEN <<"clear">> \o Terminate ELSE <<>>)
                       \o <<"rollback start">>)
     \/ At(t, "apply if ready") /\ Then(t, IF Running THEN ApplyProxy ELSE <<>>)
  /\ UNCHANGED <<locks, core, sidecar, service, os, calls>>

\* Windows falls back to Sidecar when the Service could not start the core and
\* is confirmed idle.
ServiceFailed(t) ==
  /\ At(t, "service failed")
  /\ \/ Then(t, <<"rollback start", "raise">>)
     \/ Platform = "windows" /\ Then(t, StartSidecar \o <<"catch start">>)
  /\ UNCHANGED <<locks, core, sidecar, service, os, calls>>

----------------------------------------------------------------------------
(* Checks between the steps. *)

\* A check passes or fails the operation.
Check(t) ==
  /\ \E c \in {[at |-> "must run",      holds |-> Running],
               [at |-> "must sidecar",  holds |-> mode = "Sidecar" /\ ready.active],
               [at |-> "must service",  holds |-> mode = "Service" /\ ready.active],
               [at |-> "still service", holds |-> mode = "Service"]} :
       At(t, c.at) /\ IF c.holds THEN Done(t) ELSE Raise(t)
  /\ UNCHANGED <<locks, core, sidecar, service, os, calls>>

\* continue_with_sidecar is refused while the Service runs the core and when
\* the Service's health does not call for it.
Allow(t) ==
  /\ At(t, "allow")
  /\ \/ mode # "Service" /\ Done(t)
     \/ task' = [task EXCEPT ![t].todo = <<"failed">>]
  /\ write' = None
  /\ UNCHANGED <<flag, life, core, sidecar, service, os, calls>>

Uninstall(t) ==
  /\ At(t, "uninstall")
  /\ \/ Raise(t) /\ UNCHANGED svc
     \/ Done(t) /\ svc' = None
  /\ UNCHANGED <<locks, core, sidecar, owner, watch, session, os, calls>>

StillSidecar(t) ==
  /\ At(t, "still sidecar")
  /\ IF mode = "Sidecar" THEN Done(t) ELSE task' = [task EXCEPT ![t].todo = <<"end">>]
  /\ UNCHANGED <<locks, core, sidecar, service, os, calls>>

----------------------------------------------------------------------------
(* Applying a configuration to the running core. *)

\* In Service mode the runtime is staged under the lock, otherwise the core
\* reloads it, and is restarted when it will not.
ApplyConfig(t) ==
  /\ At(t, "apply config")
  /\ \/ mode = "Service" /\ Then(t, <<"lock", "still service", "stage">>)
     \/ mode # "Service" /\ Done(t)
     \/ mode # "Service" /\ Then(t, Plan("restart"))
  /\ UNCHANGED <<locks, core, sidecar, service, os, calls>>

Stage(t) ==
  /\ At(t, "stage")
  /\ \/ Done(t)
     \/ Raise(t)
     \/ Then(t, <<"stop", "start service", "must service">> \o ApplyProxy)
  /\ UNCHANGED <<locks, core, sidecar, service, os, calls>>

----------------------------------------------------------------------------
(* Taking the OS proxy back. *)

\* proxy_backend_route: on macOS the Service's helper writes the OS proxy.
Local == Platform # "macos" \/ mode # "Service"

\* Without a record that still matches the OS, reset_sysproxy writes nothing ...
NotOurs == Local /\ owned' = FALSE /\ UNCHANGED proxy

\* ... with one, it turns the proxy off (macOS may find it off already, and
\* then keeps the record) ...
TurnsOff ==
  /\ Local => owned
  /\ proxy' = FALSE
  /\ owned' \in IF Platform = "macos" THEN {owned, FALSE} ELSE {FALSE}

\* ... or fails, every retry used up.
ClearFails == (Local => owned) /\ proxy' \in {proxy, FALSE} /\ UNCHANGED owned

----------------------------------------------------------------------------
(* Stopping. *)

Mut_StopPlan(handover) ==
  IF mode = "NotRunning" THEN <<>>
  ELSE IF mode = "Sidecar" THEN Terminate ELSE <<"stop service">>

\* run_controlled_stop_transition: the proxy goes first, except where macOS
\* leaves it to the helper.
StopPlan(handover) ==
  LET prepare == IF Platform = "macos" /\ (mode = "Service" \/ handover)
                 THEN <<"stop guard">> ELSE <<"clear">>
  IN  CASE mode = "NotRunning" -> <<>>
        [] mode = "Sidecar"    -> prepare \o Terminate
        [] mode = "Service"    -> prepare \o <<"stop service">>

Stop(t) ==
  /\ \/ At(t, "stop") /\ Then(t, StopPlan(FALSE))
     \/ \E decision \in Decisions :
          At(t, "stop for restart") /\ Then(t, StopPlan(decision = "Service"))
  /\ UNCHANGED <<locks, core, sidecar, service, os, calls>>

Kill(t) ==
  /\ At(t, "kill")
  /\ child' = None
  /\ \/ proc' = [p \in Pids |-> IF p = child THEN "dead" ELSE proc[p]]
     \/ UNCHANGED proc
  /\ Done(t)
  /\ UNCHANGED <<locks, core, exit, event, service, os, calls>>

Exited == exit # None => proc[exit] = "dead"

\* The core counts as stopped even when its process would not exit in time.
WaitKilled(t) ==
  /\ At(t, "wait killed")
  /\ core_stopped
  /\ \/ Exited /\ exit' = None /\ Done(t)
     \/ exit # None /\ Raise(t) /\ UNCHANGED exit
  /\ UNCHANGED <<locks, child, proc, event, service, os, calls>>

\* cancel_owner_monitors, then the Service is asked.
StopService(t) ==
  /\ At(t, "stop service") /\ owner < MaxGen
  /\ owner' = owner + 1
  /\ Then(t, <<"service stops">>)
  /\ UNCHANGED <<locks, core, sidecar, watch, session, svc, os, calls>>

\* start_owner_monitor
Monitored(g) == watch' = [watch EXCEPT ![<<g, "monitor">>] = [pc |-> "watching", saw |-> session']]

Mut_ServiceStops(t) ==
  /\ At(t, "service stops")
  /\ \/ /\ svc = session /\ session # None
        /\ svc' = None /\ session' = None
        /\ core_stopped /\ Done(t)
        /\ UNCHANGED <<owner, watch>>
     \/ /\ Raise(t)
        /\ UNCHANGED <<core, session, svc, owner, watch>>
  /\ UNCHANGED <<locks, sidecar, os, calls>>

\* The Service stops the core; or cannot be asked or refuses, and is watched
\* again; or no longer knows our session, and the owner is lost.
ServiceStops(t) ==
  /\ At(t, "service stops")
  /\ \/ /\ svc = session /\ session # None
        /\ svc' = None /\ session' = None
        /\ core_stopped /\ Done(t)
        /\ UNCHANGED <<owner, watch, os>>
     \/ /\ owner < MaxGen
        /\ owner' = owner + 1
        /\ UNCHANGED <<core, session, svc, os>>
        /\ Monitored(owner')
        /\ Raise(t)
     \/ /\ svc # session
        /\ session' = None
        /\ core_stopped
        /\ guard' = FALSE
        /\ IF Platform = "macos" THEN UNCHANGED <<proxy, owned>>
           ELSE NotOurs \/ TurnsOff \/ ClearFails
        /\ Raise(t)
        /\ UNCHANGED <<owner, watch, svc, want>>
  /\ UNCHANGED <<locks, sidecar, calls>>
----------------------------------------------------------------------------
(* Starting. *)

\* start_core_inner: a running core makes it a no-op; otherwise prepare_startup
\* decides from Service Health, and an undecided start leaves nothing running
\* (on Windows a Sidecar may still stand in).
Start(t) ==
  /\ At(t, "start")
  /\ IF mode # "NotRunning" THEN Done(t)
     ELSE \/ "Wait" \in Decisions /\ Then(t, <<"rollback start">>)
          \/ /\ "Wait" \in Decisions /\ Platform = "windows"
             /\ Then(t, <<"rollback start">> \o StartSidecar \o <<"catch start">>)
          \/ "Service" \in Decisions /\ Then(t, <<"start service", "catch service">>)
          \/ "Sidecar" \in Decisions /\ Then(t, StartSidecar \o <<"catch start">>)
  /\ UNCHANGED <<locks, core, sidecar, service, os, calls>>

\* rollback_failed_start
RollbackStart(t) ==
  /\ At(t, "rollback start")
  /\ guard' = FALSE
  /\ core_stopped
  /\ Done(t)
  /\ UNCHANGED <<locks, sidecar, service, proxy, owned, want, calls>>

Mut_WaitExit(t) ==
  /\ At(t, "wait exit")
  /\ exit' = None /\ Done(t)
  /\ UNCHANGED <<locks, core, child, proc, event, service, os, calls>>

\* wait_for_sidecar_exit: the handle stays until the process is gone.
WaitExit(t) ==
  /\ At(t, "wait exit")
  /\ \/ Exited /\ exit' = None /\ Done(t)
     \/ exit # None /\ Raise(t) /\ UNCHANGED exit
  /\ UNCHANGED <<locks, core, child, proc, event, service, os, calls>>

\* start_core_by_sidecar up to the first readiness probe: the reservation may
\* be refused before anything changes, anything may fail before the spawn,
\* and Windows kills a process it cannot put in a job object.
Spawn(t) ==
  /\ At(t, "spawn")
  /\ \/ Raise(t) /\ UNCHANGED <<core, sidecar>>
     \/ core_stopped /\ Raise(t) /\ UNCHANGED sidecar
     \/ /\ Platform = "windows"
        /\ core_stopped
        /\ \E p \in Pids : /\ proc[p] = "unused"
                           /\ \E fate \in {"alive", "dead"} : proc' = [proc EXCEPT ![p] = fate]
                           /\ exit' = p
        /\ Raise(t)
        /\ UNCHANGED <<child, event>>
     \/ /\ mode' = "NotRunning"
        /\ ready' = [gen |-> Invalidated(ready).gen + 1, active |-> TRUE]
        /\ \E p \in Pids :
             /\ proc[p] = "unused"
             /\ proc' = [proc EXCEPT ![p] = "alive"]
             /\ exit' = p
             /\ event' = [event EXCEPT ![p] = [pc |-> "draining", gen |-> ready'.gen]]
        /\ Done(t)
        /\ UNCHANGED child
  /\ UNCHANGED <<locks, service, os, calls>>

\* The rest of it: the core answers, or is killed as unready.
Poll(t) ==
  /\ At(t, "poll")
  /\ \/ /\ proc[exit] = "alive"
        /\ child' = exit
        /\ mode' = "Sidecar"
        /\ Done(t)
        /\ UNCHANGED <<ready, proc, guard>>
     \/ /\ guard' = FALSE
        /\ core_stopped
        /\ proc' \in {proc, [proc EXCEPT ![exit] = "dead"]}
        /\ Raise(t)
        /\ UNCHANGED child
  /\ UNCHANGED <<locks, exit, event, service, proxy, owned, want, calls>>

\* start_core_by_service: not ready; nothing to send; the request fails or is
\* refused (a lost answer may hide a core the Service did start), which Windows
\* retries; or a new session.
StartService(t) ==
  /\ At(t, "start service") /\ owner < MaxGen
  /\ \/ /\ session' \in {session, None}
        /\ Raise(t)
        /\ UNCHANGED <<core, owner, watch, svc>>
     \/ /\ session' = None
        /\ owner' = owner + 1
        /\ svc' \in {svc, owner'}
        /\ Monitored(owner')
        /\ Raise(t) \/ (Platform = "windows" /\ Then(t, <<"start service">>))
        /\ UNCHANGED core
     \/ /\ owner' = owner + 1
        /\ session' = owner' /\ svc' = owner'
        /\ Monitored(owner')
        /\ mark_core_ready
        /\ mode' = "Service"
        /\ Done(t)
  /\ UNCHANGED <<locks, sidecar, os, calls>>

----------------------------------------------------------------------------
(* The system proxy around a core. *)

Clear(t) ==
  /\ At(t, "clear")
  /\ \/ NotOurs /\ UNCHANGED guard /\ Done(t)
     \/ TurnsOff /\ guard' = FALSE /\ Done(t)
     \/ ClearFails /\ guard' \in {guard, FALSE} /\ Raise(t)
  /\ UNCHANGED <<locks, core, sidecar, service, want, calls>>

StopGuard(t) ==
  /\ At(t, "stop guard")
  /\ guard' = FALSE
  /\ Done(t)
  /\ UNCHANGED <<locks, core, sidecar, service, proxy, owned, want, calls>>

\* The core the proxy is about to be pointed at.
Expectation == [mode |-> mode, gen |-> ready.gen,
                owner |-> IF mode = "Service" THEN owner ELSE None]

IsValid(e) == /\ e.mode = mode /\ ready.active /\ e.gen = ready.gen
              /\ e.owner \in {None, owner}

\* While macOS has no network service at login, the write is left to the
\* network watcher.
Capture(t) ==
  /\ At(t, "capture")
  /\ \/ ~Running /\ Raise(t)
     \/ Running /\ task' = [task EXCEPT ![t].todo = Tail(@), ![t].exp = Expectation]
     \/ /\ Running /\ want /\ Platform = "macos"
        /\ task' = [task EXCEPT ![t].todo = Skip(SubSeq(@, Len(ApplyProxy) + 1, Len(@)))]
  /\ UNCHANGED <<locks, core, sidecar, service, os, calls>>

\* proxy_control::apply.  A disable spares a proxy that is not ours, an enable
\* records as ours what it changed; a failed write may have forced the proxy
\* off or left the old guard running, and records nothing.
ApplyWrite(t) ==
  /\ At(t, "apply")
  /\ \/ /\ guard' = FALSE /\ Done(t)
        /\ \/ ~want /\ (NotOurs \/ TurnsOff)
           \/ /\ want /\ proxy' = TRUE
              /\ owned' \in IF ~Local THEN {owned}
                            ELSE IF owned \/ ~proxy THEN {TRUE} ELSE BOOLEAN
     \/ /\ proxy' \in {proxy, want, FALSE}
        /\ guard' \in {guard, FALSE} /\ Raise(t)
        /\ UNCHANGED owned
  /\ UNCHANGED <<locks, core, sidecar, service, want, calls>>

Refresh(t) ==
  /\ At(t, "refresh")
  /\ \/ guard' \in {FALSE, want} /\ Done(t)
     \/ Platform = "macos" /\ guard' = FALSE /\ Raise(t)
  /\ UNCHANGED <<locks, core, sidecar, service, proxy, owned, want, calls>>

\* The core changed while the proxy was written: take it back.
Recheck(t) ==
  /\ At(t, "check apply") \/ At(t, "check refresh")
  /\ IF IsValid(task[t].exp)
     THEN Done(t) /\ UNCHANGED <<proxy, owned, guard>>
     ELSE /\ NotOurs \/ TurnsOff \/ ClearFails
          /\ guard' = FALSE
          /\ Raise(t)
  /\ UNCHANGED <<locks, core, sidecar, service, want, calls>>

TaskStep(t) ==
  \/ End(t) \/ Expand(t) \/ ServiceFailed(t) \/ Check(t) \/ Allow(t) \/ Uninstall(t)
  \/ StillSidecar(t) \/ ApplyConfig(t) \/ Stage(t)
  \/ Stop(t) \/ Kill(t) \/ WaitKilled(t) \/ StopService(t) \/ ServiceStops(t)
  \/ Start(t) \/ RollbackStart(t) \/ WaitExit(t) \/ Spawn(t) \/ Poll(t) \/ StartService(t)
  \/ Clear(t) \/ StopGuard(t) \/ Capture(t) \/ ApplyWrite(t) \/ Refresh(t) \/ Recheck(t)

----------------------------------------------------------------------------
(* A sidecar process dies; its event task notices. *)

Crash(p) ==
  /\ proc[p] = "alive"
  /\ proc' = [proc EXCEPT ![p] = "dead"]
  /\ UNCHANGED <<locks, core, child, exit, event, service, os, task, calls>>

\* Terminated: readiness is withdrawn at once, without the lock, if it is
\* still this process's ...
Terminated(p) ==
  /\ event[p].pc = "draining" /\ proc[p] = "dead"
  /\ invalidate_core_readiness_if(event[p].gen)
  /\ event' = [event EXCEPT ![p].pc = "terminated"]
  /\ UNCHANGED <<locks, mode, child, exit, proc, service, os, task, calls>>

Mut_should_clear_terminated_sidecar(p) == mode = "Sidecar"

should_clear_terminated_sidecar(p) == mode = "Sidecar" /\ child = p

Mut_ClearTerminated(p) ==
  /\ event[p].pc = "terminated"
  /\ IF life = None /\ should_clear_terminated_sidecar(p)
     THEN life' = p /\ child' = None /\ event' = [event EXCEPT ![p].pc = "clearing"]
     ELSE event' = [event EXCEPT ![p] = NoEvent] /\ UNCHANGED <<life, child>>
  /\ UNCHANGED <<flag, write, core, exit, proc, service, os, task, calls>>

\* ... and the mode under it, if this process is still the running core.
ClearTerminated(p) ==
  /\ event[p].pc = "terminated" /\ life = None
  /\ IF should_clear_terminated_sidecar(p)
     THEN /\ life' = p
          /\ child' = None
          /\ event' = [event EXCEPT ![p].pc = "clearing"]
     ELSE /\ event' = [event EXCEPT ![p] = NoEvent]
          /\ UNCHANGED <<life, child>>
  /\ UNCHANGED <<flag, write, core, exit, proc, service, os, task, calls>>

Mut_ClearedGuard(p) ==
  /\ event[p].pc = "clearing"
  /\ core_stopped
  /\ life' = None
  /\ event' = [event EXCEPT ![p] = NoEvent]
  /\ UNCHANGED <<flag, write, child, exit, proc, service, os, task, calls>>

Cleared(p) ==
  /\ event[p].pc = "clearing"
  /\ guard' = FALSE
  /\ core_stopped
  /\ life' = None
  /\ event' = [event EXCEPT ![p] = NoEvent]
  /\ UNCHANGED <<flag, write, child, exit, proc, service, proxy, owned, want, task, calls>>

EventStep(p) == Terminated(p) \/ ClearTerminated(p) \/ Cleared(p)

----------------------------------------------------------------------------
(* The Service core is lost; the owner monitor or a log request notices. *)

\* External: another user takes the Service over, it restarts, or its core
\* dies for good.
ServiceLoses ==
  /\ svc # None
  /\ svc' = None
  /\ UNCHANGED <<locks, core, sidecar, owner, watch, session, os, task, calls>>

\* A log request captures the generation before it asks.  Bound: one log
\* request in flight at a time.
ReadLogs ==
  /\ "reader" \in Observers /\ mode = "Service"
  /\ \A g \in Gens : watch[<<g, "reader">>] = NoWatch
  /\ watch' = [watch EXCEPT ![<<owner, "reader">>] = [pc |-> "watching", saw |-> session]]
  /\ UNCHANGED <<locks, core, sidecar, owner, session, svc, os, task, calls>>

Superseded(w) == w[2] = "monitor" /\ ~(owner = w[1] /\ mode = "Service")

\* The answer: the session is lost, or the monitor infers it from a Service and
\* a core that stay silent (owner_watch); a monitor goes on watching until it
\* is superseded, a log request asks once.
Sample(w) ==
  /\ watch[w].pc = "watching"
  /\ \/ Superseded(w) /\ watch' = [watch EXCEPT ![w] = NoWatch]
     \/ /\ ~Superseded(w)
        /\ w[2] = "monitor" \/ svc # session \/ session = None
        /\ watch' = [watch EXCEPT ![w].pc = "lost"]
     \/ w[2] = "reader" /\ watch' = [watch EXCEPT ![w] = NoWatch]
  /\ UNCHANGED <<locks, core, sidecar, owner, session, svc, os, task, calls>>

\* recover_after_owner_loss up to the lock: one recovery per generation.
Claim(w) ==
  /\ watch[w].pc = "lost" /\ owner < MaxGen
  /\ IF mode = "Service" /\ owner = w[1]
     THEN /\ owner' = owner + 1
          /\ ready' = Invalidated(ready)
          /\ watch' = [watch EXCEPT ![w].pc = "claimed"]
     ELSE /\ watch' = [watch EXCEPT ![w] = NoWatch]
          /\ UNCHANGED <<owner, ready>>
  /\ UNCHANGED <<locks, mode, sidecar, session, svc, os, task, calls>>

Mut_StillLost(w) == mode = "Service"

StillLost(w) == owner = w[1] + 1 /\ mode = "Service"

RecoverLocked(w) ==
  /\ watch[w].pc = "claimed" /\ life = None
  /\ IF StillLost(w)
     THEN life' = w /\ watch' = [watch EXCEPT ![w].pc = "recovering"]
     ELSE UNCHANGED life /\ watch' = [watch EXCEPT ![w] = NoWatch]
  /\ UNCHANGED <<flag, write, core, sidecar, owner, session, svc, os, task, calls>>

\* recover_after_owner_loss_while_locked; macOS leaves the machine-wide proxy
\* alone unless its own core failed.
Recover(w) ==
  /\ watch[w].pc = "recovering"
  /\ guard' = FALSE
  /\ \/ NotOurs \/ TurnsOff \/ ClearFails
     \/ Platform = "macos" /\ UNCHANGED <<proxy, owned>>
  /\ session' = None
  /\ core_stopped
  /\ watch' = [watch EXCEPT ![w] = NoWatch]
  /\ life' = None
  /\ UNCHANGED <<flag, write, sidecar, owner, svc, want, task, calls>>

WatchStep(w) == Sample(w) \/ Claim(w) \/ RecoverLocked(w) \/ Recover(w)

Next ==
  \/ \E t \in Tasks : WriteLock(t) \/ Lock(t) \/ TaskStep(t) \/ \E op \in Ops : Call(t, op)
  \/ \E p \in Pids : Crash(p) \/ EventStep(p)
  \/ \E w \in Watchers : WatchStep(w)
  \/ ServiceLoses \/ ReadLogs

Spec == Init /\ [][Next]_vars

\* Tasks, event drains and a recovery that holds the lock are tokio tasks that
\* keep being polled; both locks are FIFO mutexes, so whoever waits for one
\* gets it.  Nothing is assumed of callers, processes, the Service or of who
\* notices its loss.
FairSpec ==
  /\ Spec
  /\ \A t \in Tasks : WF_vars(TaskStep(t)) /\ SF_vars(Lock(t)) /\ SF_vars(WriteLock(t))
  /\ \A p \in Pids : WF_vars(Terminated(p) \/ Cleared(p)) /\ SF_vars(ClearTerminated(p))
  /\ WF_vars(\E w \in Watchers : Recover(w))

----------------------------------------------------------------------------
(* Properties *)

\* Two sidecar processes never run at once, although a kill may fail, a wait
\* may time out and a start may be retried: wait_for_sidecar_exit keeps the
\* handle of a process that would not exit, and every spawn goes past it.
OneSidecar == Cardinality({p \in Pids : proc[p] = "alive"}) <= 1

\* A core is never stopped deliberately while this instance's own proxy still
\* points at it: whichever operation stops it, and whatever the owner monitor,
\* a failing clear or a staged setting did before, the proxy was given up first
\* (macOS hands it over to the helper and is excluded).
StopsAfterClear ==
  [][ Platform # "macos" =>
        /\ (child # None /\ child' = None /\ \E t \in Tasks : At(t, "kill")) => ~owned
        /\ (svc = session /\ session # None /\ svc' = None /\ session' = None) => ~owned
    ]_vars

\* The late Terminated event of an old sidecar never retires a newer one: a
\* live sidecar leaves Sidecar mode only by an operation's own step.
LiveSidecarKept ==
  [][ mode = "Sidecar" /\ child # None /\ proc[child] = "alive"
        => (mode' = "Sidecar" /\ child' = child) \/ life \in Tasks ]_vars

\* An owner recovery retires only the session that was lost, never one that
\* was started while the recovery waited for the lock.
NewerSessionSurvives ==
  [][ \A w \in Watchers :
        watch[w].pc = "recovering" /\ watch'[w].pc # "recovering" => session = watch[w].saw ]_vars

\* Whenever the lock is free, a Service core is watched: the monitor of the
\* current generation runs, or a recovery of it has claimed the generation.
ServiceIsWatched ==
  mode = "Service" /\ life = None
    => \/ watch[<<owner, "monitor">>].pc \in {"watching", "lost"}
       \/ \E w \in Watchers : watch[w].pc = "claimed" /\ w[1] + 1 = owner

\* No operation, event or recovery is under way.
Quiet ==
  /\ \A t \in Tasks : task[t] = NoTask
  /\ \A p \in Pids : event[p].pc \in {"none", "draining"} /\ (event[p].pc = "draining" => proc[p] = "alive")
  /\ \A w \in Watchers : watch[w].pc \in {"none", "watching"}

\* Once everything has settled, no guard re-asserts this instance's proxy in
\* front of a core that is gone.  (A proxy that was already there is never
\* owned and its guard is not stopped: module SysProxy, ClearedMeansOff.)
GuardHasCore == Quiet /\ guard /\ owned => mode # "NotRunning"

\* A sidecar that died is noticed: it does not stay the current core.
CrashIsNoticed == \A p \in Pids : (child = p /\ proc[p] = "dead") ~> child # p

\* Every operation ends, whatever fails and whoever else wants the lock.
OperationEnds == \A t \in Tasks : task[t] # NoTask ~> task[t] = NoTask

\* A task waits for the configuration lock, or for the lifecycle lock.
Blocked(t) ==
  \/ At(t, "write lock") /\ write # None
  \/ At(t, "lock") /\ life # None

(* What OperationEnds rests on, without fairness.  Both locks and the      *)
(* update flag are taken in one order and given back on every way out, so  *)
(* nobody waits for them in a circle: an operation that has not ended has  *)
(* a step left, and some operation, or the event drain or the recovery     *)
(* that holds the lifecycle lock, does not wait; and once nobody works,    *)
(* none of the three is kept.                                              *)
LocksGoOn ==
  /\ \A t \in Tasks : task[t] # NoTask => task[t].todo # <<>>
  /\ \/ (\A t \in Tasks : task[t] = NoTask) /\ <<flag, write, life>> = <<None, None, None>>
     \/ \E t \in Tasks : task[t] # NoTask /\ ~Blocked(t)
     \/ \E p \in Pids : life = p /\ event[p].pc = "clearing"
     \/ \E w \in Watchers : life = w /\ watch[w].pc = "recovering"

=============================================================================
