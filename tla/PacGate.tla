------------------------------- MODULE PacGate ------------------------------
(***************************************************************************)
(* The PAC endpoint (utils/server.rs), the switch that opens and closes it *)
(* (enter_mode, core_starting and core_start_settled of core/runstate),    *)
(* and save_proxy_ports (feat/listener.rs), the one caller that moves the  *)
(* switch without the lifecycle lock.                                      *)
(*                                                                         *)
(* While it is open the endpoint answers with the mixed port of the draft  *)
(* configuration.  A save stages a new port, hides the endpoint, restarts  *)
(* the core and commits, or puts everything back; it holds the config flag *)
(* throughout, so nobody else starts the core, but the core may be stopped *)
(* (stop_core, the sidecar's termination, an owner recovery) at any time.  *)
(* No port is borrowed for the session.                                    *)
(***************************************************************************)
EXTENDS Naturals

CONSTANTS
  Ports,     \* mixed ports
  NoCore     \* no core serves a port

ASSUME PortsAssumption == NoCore \notin Ports

VARIABLES
  mode,      \* the Running Mode: a core runs or not
  pac,       \* PAC_AVAILABLE
  draft,     \* the mixed port of the latest configuration (staged or not)
  data,      \* the committed one
  core,      \* external: the port the running core serves
  save,      \* save_proxy_ports: where it is, was_running, what settle read
  job        \* the holder of the lifecycle lock: for whom, to do what, where

pacVars == <<mode, pac, draft, data, core, save, job>>

NoSave == [pc |-> "idle", was |-> FALSE, running |-> FALSE]
NoJob == [by |-> "none", goal |-> "none", pc |-> "done"]

PacInit ==
  /\ mode = "NotRunning" /\ pac = FALSE /\ core = NoCore
  /\ data \in Ports /\ draft = data
  /\ save = NoSave /\ job = NoJob

SaveGoto(pc) == save' = [save EXCEPT !.pc = pc]

----------------------------------------------------------------------------
(* Starting and stopping the core under the lifecycle lock. *)

\* Where a job begins: a core that runs is stopped first.
Job(by, goal) ==
  [by |-> by, goal |-> goal, pc |-> IF goal = "start" THEN "starting" ELSE "stopping"]

JobBegin(goal) ==
  /\ job = NoJob
  /\ \/ goal = "stop" /\ mode = "Running"
     \/ goal = "start" /\ mode = "NotRunning" /\ save.pc = "idle"
  /\ job' = Job("user", goal)
  /\ UNCHANGED <<mode, pac, draft, data, core, save>>

\* What save_proxy_ports does with the outcome of its restart, or of the
\* restart that puts the old core back.
SaveResume(ok) ==
  CASE save.pc = "restarting" /\ ok  -> SaveGoto("persist") /\ UNCHANGED draft
    [] save.pc = "restarting" /\ ~ok -> SaveGoto("undo") /\ draft' = data
    [] OTHER -> SaveGoto("settle") /\ UNCHANGED draft

\* The job ends and the lock is free again.
JobEnd(ok) ==
  /\ job' = NoJob
  /\ IF job.by = "save" THEN SaveResume(ok) ELSE UNCHANGED <<save, draft>>

JobMove(pc) == job' = [job EXCEPT !.pc = pc] /\ UNCHANGED <<save, draft>>

\* The process goes first, unless the stop fails with the core untouched.
Halt ==
  /\ job.pc = "stopping"
  /\ \/ core' = NoCore /\ JobMove("closing")
     \/ JobEnd(FALSE) /\ UNCHANGED core
  /\ UNCHANGED <<mode, pac, data>>

\* enter_mode(NotRunning): PAC is closed before the mode changes ...
ClosePac ==
  /\ job.pc = "closing"
  /\ pac' = FALSE
  /\ JobMove("leaving")
  /\ UNCHANGED <<mode, data, core>>

LeaveMode ==
  /\ job.pc = "leaving"
  /\ mode' = "NotRunning"
  /\ IF job.goal = "restart" THEN JobMove("starting")
     ELSE JobEnd(job.goal = "stop")
  /\ UNCHANGED <<pac, data, core>>

\* The new core serves what the configuration now says; a core that will not
\* start is rolled back with another enter_mode(NotRunning).
Boot ==
  /\ job.pc = "starting"
  /\ \/ core' = draft /\ JobMove("entering")
     \/ /\ core' = NoCore
        /\ job' = [job EXCEPT !.pc = "closing", !.goal = "start"]
        /\ UNCHANGED <<save, draft>>
  /\ UNCHANGED <<mode, pac, data>>

\* ... and enter_mode(running) opens it only after.
EnterMode ==
  /\ job.pc = "entering"
  /\ mode' = "Running"
  /\ JobMove("opening")
  /\ UNCHANGED <<pac, data, core>>

OpenPac ==
  /\ job.pc = "opening"
  /\ pac' = TRUE
  /\ JobEnd(TRUE)
  /\ UNCHANGED <<mode, data, core>>

JobStep == Halt \/ ClosePac \/ LeaveMode \/ Boot \/ EnterMode \/ OpenPac

----------------------------------------------------------------------------
(* save_proxy_ports *)

SaveStage ==
  /\ save.pc = "idle" /\ (job.by = "none" \/ job.goal = "stop")
  /\ draft' \in Ports \ {data}
  /\ SaveGoto("staged")
  /\ UNCHANGED <<mode, pac, data, core, job>>

\* core_starting
SaveHide ==
  /\ save.pc = "staged"
  /\ pac' = FALSE
  /\ SaveGoto("hidden")
  /\ UNCHANGED <<mode, draft, data, core, job>>

SaveAssess ==
  /\ save.pc = "hidden"
  /\ save' = [save EXCEPT !.pc = "assessed", !.was = (mode = "Running")]
  /\ UNCHANGED <<mode, pac, draft, data, core, job>>

Mut_SaveReject ==
  /\ save.pc \in {"hidden", "assessed"}
  /\ SaveGoto("drop")
  /\ UNCHANGED <<mode, pac, draft, data, core, job>>

\* A conflict, an invalid candidate or a failed write leaves at once; the
\* scope guards settle PAC first and drop the transaction after.
SaveReject ==
  /\ save.pc \in {"hidden", "assessed"}
  /\ SaveGoto("settle")
  /\ UNCHANGED <<mode, pac, draft, data, core, job>>

SaveActivate ==
  /\ save.pc = "assessed"
  /\ \/ ~save.was /\ SaveGoto("persist") /\ UNCHANGED job
     \/ save.was /\ job = NoJob /\ job' = Job("save", IF mode = "Running" THEN "restart" ELSE "start")
        /\ SaveGoto("restarting")
  /\ UNCHANGED <<mode, pac, draft, data, core>>

SavePersist ==
  /\ save.pc = "persist"
  /\ \/ data' = draft /\ SaveGoto("settle") /\ UNCHANGED draft
     \/ draft' = data /\ SaveGoto("undo") /\ UNCHANGED data
  /\ UNCHANGED <<mode, pac, core, job>>

\* rollback_proxy_ports
SaveUndo ==
  /\ save.pc = "undo"
  /\ \/ ~save.was /\ SaveGoto("settle") /\ UNCHANGED job
     \/ save.was /\ job = NoJob /\ job' = Job("save", IF mode = "Running" THEN "restart" ELSE "start")
        /\ SaveGoto("undoing")
  /\ UNCHANGED <<mode, pac, draft, data, core>>

\* core_start_settled reads the mode ...
SettleRead ==
  /\ save.pc = "settle"
  /\ save' = [save EXCEPT !.pc = "reopen", !.running = (mode = "Running")]
  /\ UNCHANGED <<mode, pac, draft, data, core, job>>

\* ... and then moves the switch.
SettleWrite ==
  /\ save.pc = "reopen"
  /\ pac' = save.running
  /\ SaveGoto("drop")
  /\ UNCHANGED <<mode, draft, data, core, job>>

\* The transaction is dropped, uncommitted drafts with it.
SaveDrop ==
  /\ save.pc = "drop"
  /\ draft' = data
  /\ save' = NoSave
  /\ UNCHANGED <<mode, pac, data, core, job>>

SaveStep ==
  \/ SaveStage \/ SaveHide \/ SaveAssess \/ SaveReject \/ SaveActivate \/ SavePersist
  \/ SaveUndo \/ SettleRead \/ SettleWrite \/ SaveDrop

PacNext == SaveStep \/ JobStep \/ \E goal \in {"start", "stop"} : JobBegin(goal)

PacSpec == PacInit /\ [][PacNext]_pacVars

----------------------------------------------------------------------------
(* Properties *)

Quiet == save = NoSave /\ job = NoJob

\* A core that kept running through a rejected or failed save is not left
\* behind a closed PAC endpoint: on every way out of save_proxy_ports, and
\* whatever was stopped meanwhile, the endpoint of a running core is open.
OpenWhenServing == Quiet /\ mode = "Running" => pac

\* Once nothing is under way, PAC is open exactly when a core runs: settling
\* a save never contradicts the mode (core_start_settled).
PacFollowsMode == Quiet => (pac <=> mode = "Running")

=============================================================================
