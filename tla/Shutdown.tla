------------------------------ MODULE Shutdown ------------------------------
(***************************************************************************)
(* Leaving the application (feat/window.rs, restart_app, the signal latch  *)
(* of clash-verge-signal, the event loop's Exit and ExitRequested): the    *)
(* core is stopped under the lifecycle lock, and only then is the exit     *)
(* committed; a failed stop cancels it and the application goes on.        *)
(*                                                                         *)
(* Quits of several kinds may overlap, and starts and configuration        *)
(* updates that were already under way go on beside them.  What stopping   *)
(* and starting a core consist of is CoreLifecycle's.                      *)
(***************************************************************************)
EXTENDS Naturals

CONSTANTS
  Quits,       \* tasks that quit; the names of the latched ones matter
  Starters,    \* tasks that start or replace a core
  MaxQuits, MaxStarts    \* attempts of each task (bounds)

ASSUME ExitAssumption == Quits \cap Starters = {} /\ "free" \notin Quits \cup Starters

Latched == {"signal", "dev"}    \* a quit of these kinds is not repeated

VARIABLES
  is_exiting,  \* Handle::is_exiting
  latch,       \* kinds whose latch is held: SHUTDOWN_LATCH, DEV_QUIT_REQUESTED
  quitTask,    \* what each quit is doing, and how many it has begun
  startTask,   \* what each starter is doing, and how many it has begun
  exitLock,    \* lifecycle_lock: a task, the event loop, or "free"
  exitMode,    \* Running Mode
  appState,    \* the event loop
  exitServer,  \* the embedded server answers
  lightweight,
  crossed,     \* a quit was cancelled while another was under way
  gaveUp       \* the session ended without a confirmed stop

exitVars == <<is_exiting, latch, quitTask, startTask, exitLock, exitMode,
              appState, exitServer, lightweight, crossed, gaveUp>>

Alive == appState # "gone"
Quitting(q) == quitTask[q].pc # "idle"

ExitInit ==
  /\ is_exiting = FALSE /\ latch = {} /\ exitLock = "free"
  /\ quitTask = [q \in Quits |-> [pc |-> "idle", begun |-> 0]]
  /\ startTask = [s \in Starters |-> [pc |-> "idle", begun |-> 0]]
  /\ exitMode \in {"NotRunning", "Sidecar", "Service"}
  /\ appState = "running" /\ exitServer = TRUE /\ lightweight \in BOOLEAN
  /\ crossed = FALSE /\ gaveUp = FALSE

QuitStep(q, pc) == quitTask' = [quitTask EXCEPT ![q].pc = pc]
StartStep(s, pc) == startTask' = [startTask EXCEPT ![s].pc = pc]

-----------------------------------------------------------------------------
(* quit and restart_app                                                      *)

\* A latched kind begins only if its latch was free; the event loop's own quit
\* only if nothing is exiting.
try_begin(q) ==
  /\ q \in Latched => q \notin latch
  /\ q = "loop" => ~is_exiting /\ appState = "running"
  /\ latch' = latch \cup (Latched \cap {q})

quit(q) ==
  /\ Alive /\ quitTask[q].pc = "idle" /\ quitTask[q].begun < MaxQuits
  /\ try_begin(q) /\ is_exiting' = TRUE
  /\ quitTask' = [quitTask EXCEPT ![q] = [pc |-> "save", begun |-> @.begun + 1]]
  /\ UNCHANGED <<startTask, exitLock, exitMode, appState, exitServer, lightweight, crossed, gaveUp>>

\* Pending drafts are applied and saved, and the lock is waited for.
clean_async(q) ==
  /\ Alive /\ quitTask[q].pc = "save" /\ exitLock = "free"
  /\ exitLock' = q /\ QuitStep(q, "stop")
  /\ UNCHANGED <<is_exiting, latch, startTask, exitMode, appState, exitServer, lightweight, crossed, gaveUp>>

run_exit_cleanup_transition(q) ==
  /\ Alive /\ quitTask[q].pc = "stop" /\ exitLock' = "free"
  /\ \/ /\ exitMode' = "NotRunning" /\ QuitStep(q, "commit")
     \/ /\ exitMode' \in {exitMode, "NotRunning"} /\ QuitStep(q, "cancel")
  /\ UNCHANGED <<is_exiting, latch, startTask, appState, exitServer, lightweight, crossed, gaveUp>>

\* A core that would not stop: the application goes on, and may be left again.
Canceled(q) ==
  /\ Alive /\ quitTask[q].pc = "cancel"
  /\ is_exiting' = FALSE /\ latch' = latch \ {q} /\ QuitStep(q, "idle")
  /\ crossed' = (crossed \/ appState # "running" \/ \E p \in Quits \ {q} : Quitting(p))
  /\ UNCHANGED <<startTask, exitLock, exitMode, appState, exitServer, lightweight, gaveUp>>

\* The embedded server goes, and the event loop is asked to exit with a code.
Committed(q) ==
  /\ Alive /\ quitTask[q].pc = "commit"
  /\ exitServer' = FALSE /\ QuitStep(q, "idle")
  /\ appState' = IF appState = "running" THEN "asked" ELSE appState
  /\ UNCHANGED <<is_exiting, latch, startTask, exitLock, exitMode, lightweight, crossed, gaveUp>>

-----------------------------------------------------------------------------
(* The event loop, which a quit of its own keeps busy                        *)

LoopIsFree == ("loop" \in Quits => ~Quitting("loop"))

\* ExitRequested with a code: only lightweight mode refuses it, unless exiting.
ExitRequested ==
  /\ appState = "asked" /\ LoopIsFree
  /\ appState' = IF lightweight /\ ~is_exiting THEN "running" ELSE "exiting"
  /\ UNCHANGED <<is_exiting, latch, quitTask, startTask, exitLock, exitMode, exitServer, lightweight, crossed, gaveUp>>

\* The session ends: Exit arrives with no ExitRequested before it.
SessionEnds ==
  /\ appState = "running" /\ LoopIsFree /\ appState' = "exiting"
  /\ UNCHANGED <<is_exiting, latch, quitTask, startTask, exitLock, exitMode, exitServer, lightweight, crossed, gaveUp>>

\* Exit: the application proxy is shut down first; a quit that is under way is
\* trusted with the core.
ExitEvent ==
  /\ appState = "exiting"
  /\ appState' = IF is_exiting THEN "gone" ELSE "stopping"
  /\ is_exiting' = TRUE
  /\ gaveUp' = (gaveUp \/ (is_exiting /\ \E q \in Quits : quitTask[q].pc \in {"save", "stop", "cancel"}))
  /\ UNCHANGED <<latch, quitTask, startTask, exitLock, exitMode, exitServer, lightweight, crossed>>

\* A stop bounded to two or three seconds: carried out, or given up.
clean_session_ending_best_effort ==
  /\ appState = "stopping" /\ appState' = "gone"
  /\ \/ /\ exitLock = "free" /\ exitMode' = "NotRunning"
        /\ UNCHANGED gaveUp
     \/ /\ gaveUp' = TRUE /\ exitMode' \in {exitMode, "NotRunning"}
  /\ UNCHANGED <<is_exiting, latch, quitTask, startTask, exitLock, exitServer, lightweight, crossed>>

LightweightToggled ==
  /\ appState = "running" /\ lightweight' = ~lightweight
  /\ UNCHANGED <<is_exiting, latch, quitTask, startTask, exitLock, exitMode, appState, exitServer, crossed, gaveUp>>

-----------------------------------------------------------------------------
(* Starts and updates beside them                                            *)

Begin(s) ==
  /\ Alive /\ startTask[s].pc = "idle" /\ startTask[s].begun < MaxStarts /\ exitLock = "free"

\* start_core_inner does nothing while exiting or beside a running core; a
\* restart has stopped the old core under the same lock.
start_core_inner(s) ==
  /\ Begin(s) /\ (s = "restart" \/ exitMode = "NotRunning")
  /\ exitMode' = "NotRunning"
  /\ startTask' = [startTask EXCEPT ![s] = [pc |-> IF is_exiting THEN "idle" ELSE "prepare", begun |-> @.begun + 1]]
  /\ exitLock' = IF is_exiting THEN "free" ELSE s
  /\ UNCHANGED <<is_exiting, latch, quitTask, appState, exitServer, lightweight, crossed, gaveUp>>

\* The decision waits for the Service; an exit that began meanwhile ends it.
Decided(s) ==
  /\ Alive /\ startTask[s].pc = "prepare"
  /\ StartStep(s, IF is_exiting THEN "idle" ELSE "start")
  /\ exitLock' = IF is_exiting THEN "free" ELSE exitLock
  /\ UNCHANGED <<is_exiting, latch, quitTask, exitMode, appState, exitServer, lightweight, crossed, gaveUp>>

\* An update replaces a Service core whatever the flag says, but only if the
\* core still is the Service's once the lock is held.
Mut_replace_service_core(s) ==
  /\ Begin(s) /\ exitLock' = s
  /\ exitMode' = "NotRunning"
  /\ startTask' = [startTask EXCEPT ![s] = [pc |-> "start", begun |-> @.begun + 1]]
  /\ UNCHANGED <<is_exiting, latch, quitTask, appState, exitServer, lightweight, crossed, gaveUp>>

replace_service_core(s) ==
  /\ Begin(s) /\ exitMode = "Service" /\ exitLock' = s
  /\ exitMode' = "NotRunning"
  /\ startTask' = [startTask EXCEPT ![s] = [pc |-> "start", begun |-> @.begun + 1]]
  /\ UNCHANGED <<is_exiting, latch, quitTask, appState, exitServer, lightweight, crossed, gaveUp>>

CoreStarted(s) ==
  /\ Alive /\ startTask[s].pc = "start" /\ StartStep(s, "idle") /\ exitLock' = "free"
  /\ exitMode' \in {"NotRunning", "Sidecar", "Service"}
  /\ UNCHANGED <<is_exiting, latch, quitTask, appState, exitServer, lightweight, crossed, gaveUp>>

ExitNext ==
  \/ \E q \in Quits : \/ quit(q) \/ clean_async(q) \/ run_exit_cleanup_transition(q)
                      \/ Canceled(q) \/ Committed(q)
  \/ ExitRequested \/ SessionEnds \/ ExitEvent \/ clean_session_ending_best_effort
  \/ LightweightToggled
  \/ \E s \in Starters : \/ start_core_inner(s) \/ Decided(s) \/ replace_service_core(s) \/ CoreStarted(s)

ExitSpec == ExitInit /\ [][ExitNext]_exitVars

-----------------------------------------------------------------------------
\* An application that left has stopped its core, and none is being started
\* (should_abort_exit_after_cleanup, the checks of start_core_inner, replace_service_core's
\* second look at the mode), whatever was under way.  Exempt are a session that
\* ended before the stop was confirmed, and a quit cancelled across another:
\* it clears the flag the other relies on.
ExitLeavesNoCore ==
  appState = "gone" /\ ~gaveUp /\ ~crossed =>
    exitMode = "NotRunning" /\ \A s \in Starters : startTask[s].pc # "start"
=============================================================================
