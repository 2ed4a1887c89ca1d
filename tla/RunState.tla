------------------------------ MODULE RunState ------------------------------
(***************************************************************************)
(* The Run State store (core/runstate/mod.rs, health.rs) and the tasks     *)
(* that use it: what is known of the privileged Service, what the session  *)
(* has decided about it, and the slot that admits one privileged operation *)
(* at a time.                                                              *)
(*                                                                         *)
(* The service record and its observation counter live under one mutex, so *)
(* every method of the store is one atomic step.  What is not atomic, and  *)
(* is therefore several steps here, is                                     *)
(*   - a detected reading: reserve, detect (I/O), commit;                  *)
(*   - a privileged operation: begin, request, run, await, restore, drop;  *)
(*   - settled(): register, read the service, read the slot, wait;         *)
(*   - the guard's drop: clear the slot, then notify the waiters.          *)
(*                                                                         *)
(* Left out: `generation` (written, read by tests only), the reason text   *)
(* of Unavailable (observe has the same effect on the rest of the state    *)
(* whichever reason it carries), publication to the UI, Running Mode and   *)
(* PAC (module PacGate).                                                   *)
(***************************************************************************)
EXTENDS Naturals

CONSTANTS
    Ops,        \* tasks running handle_service_status() or refresh()
    Probers,    \* tasks running observe_current_health(), once each
    Readers,    \* tasks awaiting settled(), once each
    Action,     \* the PendingAction variants in play
    MaxObs      \* bound on the observation counter

None == "None"
Refresh == "Refresh"

\* ServiceHealth, and the verdicts a readable version reply leads to.
Health == {"Unknown", "Ready", "NotInstalled", "VersionMismatch", "Unavailable"}
ReplyHealth == {"Ready", "VersionMismatch", "Unavailable"}

ASSUME ActionAssumption ==
    /\ Action \subseteq {"Install", "Uninstall", "Reinstall", "ForceReinstall"}
    /\ "Install" \in Action
ASSUME MaxObsAssumption == MaxObs \in Nat
ASSUME TasksAssumption == Ops \cap Probers = {}

VARIABLES
    svc,        \* StoredService: health, pending, sidecar_allowed
    obs,        \* VersionedService.observation
    running,    \* operation_running
    op,         \* [Ops -> program counter and locals of one operation]
    rsv,        \* [Ops \cup Probers -> reservation of the reading in flight]
    probe,      \* [Probers -> program counter]
    reader,     \* [Readers -> program counter and locals of settled()]
    overtaken   \* history: readings whose start is older than a newer fact

vars == <<svc, obs, running, op, rsv, probe, reader, overtaken>>

StoredService == [health : Health, pending : Action \cup {None}, allowed : BOOLEAN]

OpPc == {"idle", "begun", "requested", "await", "detect", "restore", "drop", "notify"}
Operation == [pc : OpPc, job : Action \cup {Refresh}, displaced : BOOLEAN]
\* Mutant of Registered: the waiter registers only when it starts to wait.
Mut_RegisteredLate == {"waiting"}

Registered == {"registered", "read", "busy", "waiting"}
SettledCall == [pc : Registered \cup {"start", "done"}, notified : BOOLEAN,
                visible : Action \cup {None}]  \* unfinished request in the snapshot

TypeOK ==
    /\ svc \in StoredService
    /\ obs \in Nat
    /\ running \in BOOLEAN
    /\ op \in [Ops -> Operation]
    /\ rsv \in [Ops \cup Probers -> Nat]
    /\ probe \in [Probers -> {"start", "detect", "done"}]
    /\ reader \in [Readers -> SettledCall]
    /\ overtaken \subseteq (Ops \cup Probers)

-----------------------------------------------------------------------------
(* StoredService: the three ways its fields move together.                 *)

Observed(health) == [health |-> health, pending |-> None, allowed |-> FALSE]

Requested(s, action) == [s EXCEPT !.pending = action, !.allowed = FALSE]
AllowSidecar(s) == [s EXCEPT !.pending = None, !.allowed = TRUE]

IdleOp == [pc |-> "idle", job |-> Refresh, displaced |-> FALSE]

Init ==
    /\ svc = Observed("Unknown")
    /\ obs = 0
    /\ running = FALSE
    /\ op = [t \in Ops |-> IdleOp]
    /\ rsv = [t \in Ops \cup Probers |-> 0]
    /\ probe = [p \in Probers |-> "start"]
    /\ reader = [r \in Readers |-> [pc |-> "start", notified |-> FALSE, visible |-> None]]
    /\ overtaken = {}

(***************************************************************************)
(* Readings in flight: between reserve_health_observation and              *)
(* commit_reserved_observation.                                            *)
(***************************************************************************)
InFlight == {t \in Ops : op[t].pc = "detect"} \cup {p \in Probers : probe[p] = "detect"}

\* Every fact newer than the readings in flight makes them stale.
Supersede == overtaken' = overtaken \cup InFlight

Tick == obs' = obs + 1

\* Bound of the model: nothing new starts once the counter has reached MaxObs
\* (what has started runs to its end, which takes at most four more ticks).
MayStart == obs < MaxObs

\* The store's new value, with the counter bumped so that older readings lose.
Record(s) == svc' = s /\ Tick /\ Supersede

-----------------------------------------------------------------------------
(* Store methods, each one critical section.                               *)

observe(health) == Record(Observed(health))

request_action(action) == Record(Requested(svc, action))

accept_sidecar == Record(AllowSidecar(svc))

\* Cached Ready health keeps the allowance down and says nothing new.
restore_sidecar_allowance ==
    IF ~svc.allowed /\ svc.health = "Ready"
    THEN UNCHANGED <<svc, obs, overtaken>>
    ELSE Record(AllowSidecar(svc))

withdraw_sidecar_allowance == svc.allowed /\ Record([svc EXCEPT !.allowed = FALSE])

allow_sidecar_for_session ==
    /\ ~running
    /\ \/ svc.pending = "Install"
       \/ /\ svc.pending = None
          /\ ~svc.allowed
          /\ svc.health \in {"NotInstalled", "VersionMismatch", "Unavailable"}
    /\ Record(AllowSidecar(svc))

allow_sidecar_after_service_refusal ==
    /\ ~running
    /\ svc.pending = None
    /\ Record(AllowSidecar([svc EXCEPT !.health = "Unavailable"]))

require_install_for_session ==
    /\ ~running
    /\ \/ svc = Observed("NotInstalled") /\ Record(Requested(svc, "Install"))
       \/ svc.pending = "Install" /\ Record(svc)

reserve_health_observation(t) ==
    /\ Tick
    /\ rsv' = [rsv EXCEPT ![t] = obs']
    /\ overtaken' = (overtaken \cup InFlight) \ {t}
    /\ UNCHANGED svc

\* Mutant of commit_reserved_observation: an older reading is recorded when the
\* newer fact left no request behind.
Mut_commit_reserved_observation(t, health) ==
    /\ svc' = IF obs = rsv[t] \/ svc.pending = None THEN Observed(health) ELSE svc
    /\ UNCHANGED <<obs, rsv, overtaken>>

\* An overtaken reading is dropped; a current one is recorded.
commit_reserved_observation(t, health) ==
    /\ svc' = IF obs = rsv[t] THEN Observed(health) ELSE svc
    /\ UNCHANGED <<obs, rsv, overtaken>>

-----------------------------------------------------------------------------
(* One privileged operation: run_operation_and_then around                 *)
(* apply_service_status(action) or confirm_ready().                        *)

GoTo(t, pc) == op' = [op EXCEPT ![t].pc = pc]

\* begin_operation: the slot is swapped under the service mutex.
Begin(t, job) ==
    /\ MayStart
    /\ op[t].pc = "idle"
    /\ ~running
    /\ running' = TRUE
    /\ Record(svc)
    /\ op' = [op EXCEPT ![t] = [pc |-> "begun", job |-> job, displaced |-> FALSE]]
    /\ UNCHANGED <<rsv, probe, reader>>

\* Every caller of apply_service_status asks for a privileged action; what it does
\* with any other status is never reached.
Request(t) ==
    /\ op[t].pc = "begun"
    /\ op[t].job \in Action
    /\ request_action(op[t].job)
    /\ op' = [op EXCEPT ![t].pc = "requested", ![t].displaced = svc.allowed]
    /\ UNCHANGED <<running, rsv, probe, reader>>

\* perform: the privileged action succeeded.
PerformOk(t) ==
    /\ op[t].pc = "requested"
    /\ IF op[t].job = "Uninstall"
       THEN observe("NotInstalled") /\ GoTo(t, "drop")
       ELSE GoTo(t, "await") /\ UNCHANGED <<svc, obs, overtaken>>
    /\ UNCHANGED <<running, rsv, probe, reader>>

\* perform: it failed, and the service is read again.
PerformFails(t) ==
    /\ op[t].pc = "requested"
    /\ reserve_health_observation(t)
    /\ GoTo(t, "detect")
    /\ UNCHANGED <<running, probe, reader>>

PerformDetected(t, health) ==
    /\ op[t].pc = "detect"
    /\ commit_reserved_observation(t, health)
    /\ GoTo(t, "restore")
    /\ UNCHANGED <<running, probe, reader>>

\* Mutant of AwaitIpc: sustained silence is reported but not recorded.
Mut_AwaitIpcSilent(t, health) ==
    /\ op[t].pc = "await"
    /\ IF health = "Unavailable" THEN UNCHANGED <<svc, obs, overtaken>> ELSE observe(health)
    /\ GoTo(t, IF health = "Ready" THEN "drop" ELSE "restore")
    /\ UNCHANGED <<running, rsv, probe, reader>>

\* wait_for_service_ipc: a reply, or silence recorded as Unavailable.
AwaitIpc(t, health) ==
    /\ op[t].pc = "await"
    /\ observe(health)
    /\ GoTo(t, IF health = "Ready" THEN "drop" ELSE "restore")
    /\ UNCHANGED <<running, rsv, probe, reader>>

\* run_action_restoring_sidecar, after a failure.
Restore(t) ==
    /\ op[t].pc = "restore"
    /\ IF op[t].displaced
       THEN restore_sidecar_allowance
       ELSE UNCHANGED <<svc, obs, overtaken>>
    /\ GoTo(t, "drop")
    /\ UNCHANGED <<running, rsv, probe, reader>>

\* refresh: a readable reply is recorded, a transport failure is not.
RefreshReply(t, health) ==
    /\ op[t].pc = "begun"
    /\ op[t].job = Refresh
    /\ observe(health)
    /\ GoTo(t, "drop")
    /\ UNCHANGED <<running, rsv, probe, reader>>

RefreshSilent(t) ==
    /\ op[t].pc = "begun"
    /\ op[t].job = Refresh
    /\ GoTo(t, "drop")
    /\ UNCHANGED <<svc, obs, overtaken, running, rsv, probe, reader>>

\* OperationGuard::drop clears the slot and only then wakes the waiters.
DropSlot(t) ==
    /\ op[t].pc = "drop"
    /\ running' = FALSE
    /\ GoTo(t, "notify")
    /\ UNCHANGED <<svc, obs, overtaken, rsv, probe, reader>>

NotifyWaiters(t) ==
    /\ op[t].pc = "notify"
    /\ reader' = [r \in Readers |->
          IF reader[r].pc \in Registered THEN [reader[r] EXCEPT !.notified = TRUE] ELSE reader[r]]
    /\ op' = [op EXCEPT ![t] = IdleOp]
    /\ UNCHANGED <<svc, obs, overtaken, running, rsv, probe>>

-----------------------------------------------------------------------------
(* detect_startup_status: a reading outside the slot.                      *)

ProbeReserve(p) ==
    /\ MayStart
    /\ probe[p] = "start"
    /\ reserve_health_observation(p)
    /\ probe' = [probe EXCEPT ![p] = "detect"]
    /\ UNCHANGED <<running, op, reader>>

ProbeDetected(p, health) ==
    /\ probe[p] = "detect"
    /\ commit_reserved_observation(p, health)
    /\ probe' = [probe EXCEPT ![p] = "done"]
    /\ UNCHANGED <<running, op, reader>>

-----------------------------------------------------------------------------
(* settled(): one pass of its loop.                          *)

Register(r) ==
    /\ reader[r].pc = "start"
    /\ reader' = [reader EXCEPT ![r].pc = "registered", ![r].notified = FALSE]

\* state(): the service is cloned under its mutex ...
ReadService(r) ==
    /\ reader[r].pc = "registered"
    /\ reader' = [reader EXCEPT ![r].pc = "read",
                                ![r].visible = IF running THEN svc.pending ELSE None]

\* ... and snapshot() loads the slot after the mutex is released.
ReadSlot(r) ==
    /\ reader[r].pc = "read"
    /\ reader' = [reader EXCEPT ![r].pc = IF running THEN "busy" ELSE "done"]

Await(r) ==
    /\ reader[r].pc = "busy"
    /\ reader' = [reader EXCEPT ![r].pc = "waiting"]

Woken(r) ==
    /\ reader[r].pc = "waiting"
    /\ reader[r].notified
    /\ reader' = [reader EXCEPT ![r].pc = "start"]

Settled(r) ==
    /\ Register(r) \/ ReadService(r) \/ ReadSlot(r) \/ Await(r) \/ Woken(r)
    /\ UNCHANGED <<svc, obs, overtaken, running, op, rsv, probe>>

-----------------------------------------------------------------------------
\* Callers outside the slot: a reply to probe(), and the session decisions
\* of core/manager/lifecycle.rs and detect_startup_status.
SessionStep ==
    /\ MayStart
    /\ \/ \E health \in ReplyHealth : observe(health)
       \/ accept_sidecar
       \/ withdraw_sidecar_allowance
       \/ allow_sidecar_for_session
       \/ allow_sidecar_after_service_refusal
       \/ require_install_for_session
    /\ UNCHANGED <<running, op, rsv, probe, reader>>

OpStep(t) ==
    \/ Request(t) \/ PerformOk(t) \/ PerformFails(t)
    \/ \E health \in Health \ {"Unknown"} : PerformDetected(t, health)
    \/ \E health \in ReplyHealth : AwaitIpc(t, health) \/ RefreshReply(t, health)
    \/ Restore(t) \/ RefreshSilent(t) \/ DropSlot(t) \/ NotifyWaiters(t)

ProbeStep(p) ==
    \/ ProbeReserve(p)
    \/ \E health \in Health \ {"Unknown"} : ProbeDetected(p, health)

Next ==
    \/ SessionStep
    \/ \E t \in Ops : OpStep(t) \/ \E job \in Action \cup {Refresh} : Begin(t, job)
    \/ \E p \in Probers : ProbeStep(p)
    \/ \E r \in Readers : Settled(r)

Spec == Init /\ [][Next]_vars

\* The executor keeps running tasks that can run; nothing forces a new
\* operation or a session decision to happen.
Fairness ==
    /\ \A t \in Ops : WF_vars(OpStep(t))
    /\ \A p \in Probers : WF_vars(ProbeStep(p))
    /\ \A r \in Readers : WF_vars(Settled(r))

FairSpec == Spec /\ Fairness

-----------------------------------------------------------------------------
\* The operation that holds the slot.
Holding == {t \in Ops : op[t].pc \notin {"idle", "notify"}}

\* Correctness of the slot: `operation_running` is set exactly while some
\* operation is between begin_operation and the guard's drop, and no two are.
OneOperation ==
    /\ running <=> Holding # {}
    /\ \A t1, t2 \in Holding : t1 = t2

\* health.rs: "`pending` and `sidecar_allowed` are mutually exclusive."
Exclusive == svc.pending = None \/ ~svc.allowed

\* commit_reserved_observation records a detected reading only if no newer
\* fact (an observation, a request, a session decision, a reassertion of
\* either, another reservation) arrived after the reading was reserved.
StaleReadingNeverWins ==
    [][\A t \in InFlight : t \in overtaken /\ t \notin InFlight' => svc' = svc]_vars

\* settled() registers before it reads, so a parked caller is always one that
\* an operation in flight, or one about to notify, will wake.
NoLostWakeup ==
    \A r \in Readers :
        reader[r].pc \in {"busy", "waiting"} /\ ~reader[r].notified
            => running \/ \E t \in Ops : op[t].pc = "notify"

\* settled() "Returns one snapshot taken after any operation visible in that
\* snapshot has settled": a returned snapshot does not show the request of an
\* operation that still held the slot when the service was read.
SettledSnapshotIsSettled ==
    \A r \in Readers : reader[r].pc = "done" => reader[r].visible = None

\* apply_service_status: a finished privileged action leaves no request of its
\* own behind; if its own re-reading was overtaken, the reading that overtook
\* it is still current and will retire the request.
RequestRetired ==
    \A t \in Ops :
        op[t].pc \in {"restore", "drop"} /\ svc.pending = op[t].job
            => \E p \in Probers : probe[p] = "detect" /\ p \notin overtaken

=============================================================================
