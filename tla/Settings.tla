------------------------------ MODULE Settings ------------------------------
(***************************************************************************)
(* Settings patches (feat/config.rs: apply_verge_patch and what follows    *)
(* it) and the reconciliation of TUN with what the Run State can carry     *)
(* (feat/tun.rs).                                                          *)
(*                                                                         *)
(* A patch is staged, has its effects, and is committed; an effect that    *)
(* fails rolls the settings back, and what was done before it stays done.  *)
(* The core takes its part from the Runtime Configuration: a restart runs  *)
(* the draft a patch has generated, which nobody commits or discards until *)
(* the next update does.  Every Run State transition spawns a              *)
(* reconciliation, which turns TUN off by a patch of its own.  Settings    *)
(* are on or off; the claims on Draft layers are Draft's, the Run State is *)
(* RunState's.                                                             *)
(***************************************************************************)
EXTENDS Naturals

CONSTANTS
  Patchers,      \* tasks of patch_verge
  Patches,       \* what they may be asked for: some settings' new values (bound)
  RunStates,     \* what the Run State may be: its health, whether an operation
                 \* is in flight or waits for the user, whether Sidecar is
                 \* accepted, its mode (bound)
  Reconcilers    \* reconciliations that may be under way at once (bound)

\* One setting for each flag that does something outside the settings.
Setting == {"port", "tun", "launch"}
CoreSetting == {"port", "tun"}   \* those the Runtime Configuration holds

VARIABLES
  stored,        \* the committed settings
  shown,         \* what the core, and the system, were last told
  inDoubt,       \* settings shown amiss, maybe, since a patch or an update failed, or
                 \* they were written or taken out beside the patches
  runtime,       \* the Runtime Configuration: what it holds of the settings, in its
                 \* committed layer and in its draft, and whether there is a draft
  update,        \* an update by others, under the update flag: what it tells the core,
                 \* and whether a patch crossed it
  writeLock,     \* CONFIG_WRITE_LOCK
  DISABLING_TUN,
  setTask,       \* each task: its step and its patch
  run,           \* Run State
  disableFailed  \* the last reconciliation could not turn TUN off

setVars == <<stored, shown, inDoubt, runtime, update, writeLock, DISABLING_TUN, setTask, run, disableFailed>>
storeVars == <<stored, shown, inDoubt, runtime, update>>

SetTasks == Patchers \cup Reconcilers
ASSUME SettingsAssumption == "free" \notin SetTasks
ASSUME PatchesAssumption == Patches \subseteq UNION {[S -> BOOLEAN] : S \in SUBSET Setting}

NoPatch == [pc |-> "idle", patch |-> <<>>, left |-> {}, internal |-> FALSE]
AllOff == [s \in Setting |-> FALSE]
NoneOn == [s \in CoreSetting |-> FALSE]
NoUpdate == [on |-> FALSE, told |-> NoneOn, crossed |-> FALSE]

SetInit ==
  /\ stored = AllOff /\ shown = AllOff /\ inDoubt = {}
  /\ runtime = [data |-> NoneOn, draft |-> NoneOn, staged |-> FALSE] /\ update = NoUpdate
  /\ writeLock = "free" /\ DISABLING_TUN = FALSE
  /\ setTask = [t \in SetTasks |-> NoPatch]
  /\ run = [health |-> "Unknown", inFlight |-> FALSE, pending |-> FALSE, settled |-> FALSE, mode |-> "NotRunning"]
  /\ disableFailed = FALSE

Steps(t, pc) == setTask' = [setTask EXCEPT ![t].pc = pc]

-----------------------------------------------------------------------------
(* RunState's verdicts; the application is not elevated                      *)

service_usable == run.health = "Ready" /\ ~run.inFlight

\* A broken Service waits for the user's decision, until Sidecar is accepted.
service_needs_attention == ~run.inFlight /\ (run.pending \/ (~run.settled /\ run.health = "Unavailable"))

tun_should_be_disabled(enabled) ==
  enabled /\ ~service_usable /\ run.health # "Unknown" /\ ~run.inFlight /\ ~service_needs_attention

-----------------------------------------------------------------------------
(* apply_verge_patch                                                         *)

\* A port restarts the core, TUN reloads it, both from the whole configuration.
FlagOf == [port |-> "RESTART_CORE", tun |-> "CLASH_CONFIG", launch |-> "LAUNCH"]
Flags == {FlagOf[s] : s \in Setting}
FlagOrder == [RESTART_CORE |-> 1, CLASH_CONFIG |-> 2, LAUNCH |-> 3]

Mut_determine_update_flags(patch) ==
  {flag \in Flags : \E s \in DOMAIN patch : flag = FlagOf[s] /\ patch[s]}

determine_update_flags(patch) ==
  {flag \in Flags : \E s \in DOMAIN patch : flag = FlagOf[s]}

Patched(patch) == [s \in Setting |-> IF s \in DOMAIN patch THEN patch[s] ELSE stored[s]]

Affected(flag) == IF flag = "LAUNCH" THEN {"launch"} ELSE CoreSetting
AffectedBy(patch) == UNION {Affected(flag) : flag \in determine_update_flags(patch)}

\* Between the staging of its patch and its commit or roll back.
Applying(t) == setTask[t].pc \in {"apply", "restart"}

\* latest_arc: what is staged comes before what is committed.
Writing == writeLock \in SetTasks /\ Applying(writeLock)
latest_settings == IF Writing THEN Patched(setTask[writeLock].patch) ELSE stored
latest_runtime == IF runtime.staged THEN runtime.draft ELSE runtime.data

\* What a Runtime Configuration generated from f holds of it.
CoreOf(f) == [s \in CoreSetting |-> f[s]]

\* Its draft is generated from the latest settings; others may be using it.
generate ==
  /\ runtime' = [runtime EXCEPT !.draft = CoreOf(latest_settings), !.staged = TRUE]
  /\ update' = [update EXCEPT !.crossed = update.on]
  /\ inDoubt' = IF update.on THEN inDoubt \cup CoreSetting ELSE inDoubt

\* A transaction commits the draft or discards it.
Adopted(conf) == [data |-> conf, draft |-> conf, staged |-> FALSE]

With(conf) == [s \in Setting |-> IF s \in CoreSetting THEN conf[s] ELSE shown[s]]

\* The core runs conf, but for TUN if it is a Windows sidecar's; known holds
\* the settings that this leaves in no doubt.
CoreRuns(conf, known) ==
  \/ shown' = With(conf) /\ inDoubt' = inDoubt \ known
  \/ /\ conf["tun"]
     /\ shown' = With([conf EXCEPT !["tun"] = FALSE]) /\ inDoubt' = (inDoubt \ known) \cup {"tun"}

patch_verge(t) ==
  /\ t \in Patchers /\ setTask[t].pc = "idle"
  /\ \E patch \in Patches :
       setTask' = [setTask EXCEPT ![t] = [pc |-> "lock", patch |-> patch, left |-> {}, internal |-> FALSE]]
  /\ UNCHANGED <<storeVars, run, writeLock, DISABLING_TUN, disableFailed>>

lock_config_write(t) ==
  /\ setTask[t].pc = "lock" /\ writeLock = "free" /\ writeLock' = t
  /\ setTask' = [setTask EXCEPT ![t].pc = "apply", ![t].left = determine_update_flags(setTask[t].patch)]
  /\ UNCHANGED <<storeVars, run, DISABLING_TUN, disableFailed>>

\* The next flag in the order of the code.
IsNext(t, flag) == flag \in setTask[t].left /\ \A other \in setTask[t].left : FlagOrder[flag] <= FlagOrder[other]
Did(t, flag) == setTask' = [setTask EXCEPT ![t].pc = "apply", ![t].left = @ \ {flag}]

\* RESTART_CORE: the staged settings are generated, with no claim on the draft.
GeneratesFor(t) ==
  /\ setTask[t].pc = "apply" /\ IsNext(t, "RESTART_CORE")
  /\ generate /\ Steps(t, "restart")
  /\ UNCHANGED <<stored, shown, run, writeLock, DISABLING_TUN, disableFailed>>

\* Then the core is restarted from the draft, if it is still there; another
\* update, or somebody's start, makes it fail.
restarts_core(t) ==
  /\ setTask[t].pc = "restart" /\ ~update.on
  /\ CoreRuns(latest_runtime, IF runtime.staged THEN CoreSetting ELSE {})
  /\ Did(t, "RESTART_CORE")
  /\ UNCHANGED <<stored, runtime, update, run, writeLock, DISABLING_TUN, disableFailed>>

\* CLASH_CONFIG: an update of its own, which commits what it has generated.
update_config_checked(t) ==
  /\ setTask[t].pc = "apply" /\ IsNext(t, "CLASH_CONFIG") /\ ~update.on
  /\ runtime' = Adopted(CoreOf(latest_settings))
  /\ CoreRuns(CoreOf(latest_settings), CoreSetting)
  /\ Did(t, "CLASH_CONFIG")
  /\ UNCHANGED <<stored, update, run, writeLock, DISABLING_TUN, disableFailed>>

update_launch(t) ==
  /\ setTask[t].pc = "apply" /\ IsNext(t, "LAUNCH")
  /\ shown' = [shown EXCEPT !["launch"] = latest_settings["launch"]]
  /\ inDoubt' = inDoubt \ {"launch"}
  /\ Did(t, "LAUNCH")
  /\ UNCHANGED <<stored, runtime, update, run, writeLock, DISABLING_TUN, disableFailed>>

process_terminated_flags(t) ==
  GeneratesFor(t) \/ restarts_core(t) \/ update_config_checked(t) \/ update_launch(t)

\* What follows the lock: a patch of TUN reconciles it, unless it was its own.
Released(t, pc) ==
  /\ writeLock' = "free"
  /\ setTask' = [setTask EXCEPT ![t] = [NoPatch EXCEPT !.pc = pc]]

\* Saving may fail after the commit: the caller is told, and does not reconcile.
Commit(t) ==
  /\ setTask[t].pc = "apply" /\ setTask[t].left = {}
  /\ stored' = Patched(setTask[t].patch)
  /\ \E saved \in BOOLEAN :
       /\ IF setTask[t].internal
          THEN Steps(t, "clear") /\ UNCHANGED writeLock
          ELSE Released(t, IF "tun" \in DOMAIN setTask[t].patch /\ saved THEN "check" ELSE "idle")
       /\ disableFailed' = IF saved THEN disableFailed ELSE disableFailed \/ stored'["tun"]
  /\ UNCHANGED <<shown, inDoubt, runtime, update, DISABLING_TUN, run>>

\* The layer is claimed by another transaction, an update is running, or an
\* effect fails part of the way: the settings are what they were.  An update
\* discards the draft; a restart leaves it.
RollsBack(t) ==
  /\ Applying(t)
  /\ inDoubt' = inDoubt \cup AffectedBy(setTask[t].patch)
  /\ update' = [update EXCEPT !.crossed = @ \/ (update.on /\ CoreSetting \subseteq AffectedBy(setTask[t].patch))]
  /\ IF setTask[t].internal
     THEN Steps(t, "clear") /\ disableFailed' = TRUE /\ UNCHANGED writeLock
     ELSE Released(t, "idle") /\ UNCHANGED disableFailed
  /\ \/ UNCHANGED <<shown, runtime>>
     \/ setTask[t].pc = "restart" /\ shown' = With(latest_runtime) /\ UNCHANGED runtime
     \/ /\ setTask[t].pc = "apply" /\ IsNext(t, "CLASH_CONFIG") /\ ~update.on
        /\ shown' \in {shown, With(CoreOf(latest_settings))} /\ runtime' = Adopted(runtime.data)
     \/ /\ setTask[t].pc = "apply" /\ IsNext(t, "LAUNCH")
        /\ shown' = [shown EXCEPT !["launch"] = latest_settings["launch"]]
        /\ UNCHANGED runtime
  /\ UNCHANGED <<stored, DISABLING_TUN, run>>

-----------------------------------------------------------------------------
(* reconcile_tun_availability                                                *)

\* A reconciliation that finds another one writing is coalesced with it.
Coalesces(t) ==
  /\ setTask[t].pc = "check"
  /\ Steps(t, IF DISABLING_TUN THEN "idle" ELSE "reconcile")
  /\ UNCHANGED <<storeVars, run, writeLock, DISABLING_TUN, disableFailed>>

\* State and settings are read again once earlier writes are complete.
reconcile_tun_availability(t) ==
  /\ setTask[t].pc = "reconcile" /\ writeLock = "free"
  /\ disableFailed' = FALSE
  /\ IF run.mode # "NotRunning" /\ tun_should_be_disabled(stored["tun"])
     THEN /\ writeLock' = t /\ DISABLING_TUN' = TRUE
          /\ LET patch == [s \in {"tun"} |-> FALSE]
             IN setTask' = [setTask EXCEPT ![t] = [pc |-> "apply", patch |-> patch, internal |-> TRUE,
                                                   left |-> determine_update_flags(patch)]]
     ELSE Steps(t, "idle") /\ UNCHANGED <<writeLock, DISABLING_TUN>>
  /\ UNCHANGED <<storeVars, run>>

\* The flag is cleared before the lock is released.
Mut_Disabled(t) ==
  /\ setTask[t].pc = "clear"
  /\ IF writeLock = t
     THEN writeLock' = "free" /\ UNCHANGED <<setTask, DISABLING_TUN>>
     ELSE DISABLING_TUN' = FALSE /\ setTask' = [setTask EXCEPT ![t] = NoPatch] /\ UNCHANGED writeLock
  /\ UNCHANGED <<storeVars, run, disableFailed>>

Disabled(t) ==
  /\ setTask[t].pc = "clear" /\ writeLock = t
  /\ IF DISABLING_TUN
     THEN DISABLING_TUN' = FALSE /\ UNCHANGED <<writeLock, setTask>>
     ELSE Released(t, "idle") /\ UNCHANGED DISABLING_TUN
  /\ UNCHANGED <<storeVars, run, disableFailed>>

\* Every published transition spawns one.
PublishRunState ==
  /\ \E t \in Reconcilers : setTask[t].pc = "idle" /\ Steps(t, "check")
  /\ run' \in RunStates \ {run}
  /\ UNCHANGED <<storeVars, writeLock, DISABLING_TUN, disableFailed>>

-----------------------------------------------------------------------------
(* The rest of the application                                               *)

\* continue_with_sidecar, uninstall_service_and_start_sidecar and a startup turn
\* TUN off themselves, without an effect: the core is started from it
\* afterwards, unless it cannot be generated.
disable_tun_and_persist ==
  /\ writeLock = "free" /\ ~update.on /\ tun_should_be_disabled(stored["tun"])
  /\ stored' = [stored EXCEPT !["tun"] = FALSE]
  /\ inDoubt' = inDoubt \cup {"tun"}
  /\ runtime' \in {runtime, [runtime EXCEPT !.draft = CoreOf(stored'), !.staged = TRUE]}
  /\ UNCHANGED <<shown, update, run, writeLock, DISABLING_TUN, setTask, disableFailed>>

\* Those and patch_clash generate into the draft at any time.
OthersGenerate ==
  /\ generate
  /\ UNCHANGED <<stored, shown, run, writeLock, DISABLING_TUN, setTask, disableFailed>>

\* Starts take the update flag; they run the draft if there is one.
OthersStart ==
  /\ ~update.on /\ CoreRuns(latest_runtime, {})
  /\ UNCHANGED <<stored, runtime, update, run, writeLock, DISABLING_TUN, setTask, disableFailed>>

\* perform_config_update for others, a change of profile for one.  It has a
\* draft that was there before at its mercy.
UpdateBegins ==
  /\ ~update.on
  /\ update' = [on |-> TRUE, told |-> CoreOf(latest_settings), crossed |-> FALSE]
  /\ runtime' = [runtime EXCEPT !.draft = CoreOf(latest_settings), !.staged = TRUE]
  /\ inDoubt' = IF runtime.staged THEN inDoubt \cup CoreSetting ELSE inDoubt
  /\ UNCHANGED <<stored, shown, run, writeLock, DISABLING_TUN, setTask, disableFailed>>

UpdateSucceeds ==
  /\ update.on /\ update' = NoUpdate
  /\ \E conf \in {update.told, runtime.draft} :   \* as it was when it was written
       CoreRuns(conf, IF update.crossed THEN {} ELSE CoreSetting)
  /\ runtime' = Adopted(runtime.draft)
  /\ UNCHANGED <<stored, run, writeLock, DISABLING_TUN, setTask, disableFailed>>

\* The core may have taken it all the same.
UpdateFails ==
  /\ update.on /\ update' = NoUpdate
  /\ shown' \in {shown, With(update.told)}
  /\ runtime' = Adopted(runtime.data)
  /\ UNCHANGED <<stored, inDoubt, run, writeLock, DISABLING_TUN, setTask, disableFailed>>

PatchNext ==
  \E t \in SetTasks : \/ patch_verge(t) \/ lock_config_write(t) \/ process_terminated_flags(t)
                      \/ Commit(t) \/ RollsBack(t) \/ Coalesces(t)
                      \/ reconcile_tun_availability(t) \/ Disabled(t)
TunNext == PublishRunState \/ disable_tun_and_persist
OthersNext == OthersGenerate \/ OthersStart \/ UpdateBegins \/ UpdateSucceeds \/ UpdateFails

SetNext == PatchNext \/ TunNext \/ OthersNext

SetSpec == SetInit /\ [][SetNext]_setVars

-----------------------------------------------------------------------------
SettingsRest == writeLock = "free" /\ \A t \in SetTasks : setTask[t].pc = "idle"

\* With nothing under way, TUN is on only where the Run State can carry it or
\* has not decided (tun_should_be_disabled), however transitions, patches and
\* coalesced reconciliations crossed; unless turning it off failed, or nothing
\* runs yet.
TunIsReconciled ==
  SettingsRest /\ run.mode # "NotRunning" /\ ~disableFailed => ~tun_should_be_disabled(stored["tun"])

\* With no patch under way, the core and the system were told what the
\* settings say, whatever updates and starts ran the draft that a restart left
\* behind; save for settings in doubt, since a patch failed part of the way, an
\* update failed that had somebody's draft to discard, or TUN was written off
\* or taken out beside the patches.
EffectsFollowSettings ==
  writeLock = "free" => \A s \in Setting \ inDoubt : shown[s] = stored[s]
=============================================================================
