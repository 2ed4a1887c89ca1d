------------------------------ MODULE AppProxy ------------------------------
(***************************************************************************)
(* The application proxy (core/app_proxy.rs): a helper process that        *)
(* captures the traffic of chosen applications and sends it to listeners   *)
(* of the core, one per strategy group.                                    *)
(*                                                                         *)
(* One operation at a time changes it (rules_update_lock); beside it run   *)
(* status calls, configuration updates that regenerate the runtime from    *)
(* the desired listeners, crashes of the helper and of the application.    *)
(*                                                                         *)
(* A rule list is the set of the strategy groups of its enabled rules, a   *)
(* listener is named by the group it serves.                               *)
(***************************************************************************)
EXTENDS Naturals, FiniteSets

CONSTANTS
  Groups,      \* the strategy groups a rule may name
  Primary,     \* "regular", the group of the primary listener
  MaxCalls,    \* bounds the operations that are started
  MaxGen       \* bounds the helper processes that are spawned

ASSUME AppProxyAssumption == Primary \in Groups /\ MaxCalls \in Nat /\ MaxGen \in Nat

VARIABLES
  stored,      \* rules.json
  resume,      \* resume.json
  rules,       \* AppProxyManager::rules
  managed,     \* AppProxyManager::inner, the ManagedHelper
  desired,     \* desired_listener: what a regenerated runtime will hold
  runtime,     \* the managed listeners of the runtime configuration
  running,     \* APP_PROXY_RUNNING
  helper,      \* the helper process
  op,          \* the operation under rules_update_lock
  view,        \* a status() call
  regen,       \* a configuration update: the listeners it has merged
  calls        \* operations started so far

apVars == <<stored, resume, rules, managed, desired, runtime, running, helper,
            op, view, regen, calls>>

disk == <<stored, resume>>
memory == <<rules, running>>
listeners == <<desired, runtime>>

NoHelper == [on |-> FALSE, gen |-> 0, failed |-> FALSE, rules |-> {}, extra |-> {}, version |-> 0]
NoOp == [pc |-> "idle", want |-> {}, todo |-> {}, old |-> {}, version |-> 0]
NoView == [pc |-> "idle", gen |-> 0, version |-> 0, extra |-> {}, stable |-> TRUE, ready |-> FALSE]
NoUpdate == [on |-> FALSE, merged |-> {}]

AppProxyInit ==
  /\ stored = {} /\ resume = FALSE /\ rules = {}
  /\ managed = NoHelper /\ running = FALSE
  /\ desired = {} /\ runtime = {}
  /\ helper = [gen |-> 0, alive |-> FALSE, orphan |-> FALSE, resisted |-> FALSE,
               revision |-> 0, rules |-> {}]
  /\ op = NoOp /\ view = NoView /\ regen = NoUpdate /\ calls = 0

----------------------------------------------------------------------------
required_groups(list) == list \cup {Primary}

OpGoto(pc) == op' = [op EXCEPT !.pc = pc]
OpThen(pc, todo) == op' = [op EXCEPT !.pc = pc, !.todo = todo]
OpReturn == op' = NoOp

\* start and a change of the rules keep `inner` locked up to their last step,
\* a status() call while it buries a helper.
InnerFree ==
  /\ view.pc # "bury"
  /\ op.pc \in {"idle", "check", "intent", "fault", "preference", "stop", "halt", "unlisten", "down"}

OpCall(pc, want) ==
  /\ op.pc = "idle" /\ calls < MaxCalls
  /\ calls' = calls + 1
  /\ op' = [NoOp EXCEPT !.pc = pc, !.want = want]
  /\ UNCHANGED <<disk, memory, managed, listeners, helper, view, regen>>

save_rules_to_disk(list) == stored' = list
load_rules_from_disk == stored

managed_listener_loaded(groups) == groups \subseteq runtime

\* update_runtime_config is refused while another update holds the flag, and
\* may fail in validation or application.
configure_listener(g) == ~regen.on /\ runtime' = runtime \cup {g}
remove_listener(g) == ~regen.on /\ runtime' = runtime \ {g}

----------------------------------------------------------------------------
(* start *)

start_app_proxy == \E want \in SUBSET Groups : OpCall("start", want)

\* Without rules of its own the request uses the stored ones.
effective_rules == IF op.want = {} THEN rules ELSE op.want

\* A helper is there, no rule is enabled, the API port is taken, a group is
\* missing or a rule is not acceptable: nothing has been touched.
StartRefused ==
  /\ op.pc = "start" /\ view.pc # "bury"
  /\ OpReturn
  /\ UNCHANGED <<disk, memory, managed, listeners, helper, view, regen, calls>>

StartAccepted ==
  /\ op.pc = "start" /\ view.pc # "bury"
  /\ ~managed.on /\ effective_rules # {} /\ ~helper.alive
  /\ desired' = required_groups(effective_rules)
  /\ op' = [op EXCEPT !.pc = "load", !.want = effective_rules,
                      !.todo = required_groups(effective_rules)]
  /\ UNCHANGED <<disk, memory, managed, runtime, helper, view, regen, calls>>

\* Every failure of a start ends in taking its listeners back.
Abandon == OpThen("unload", required_groups(op.want))

StartLoad ==
  /\ op.pc = "load" /\ op.todo # {}
  /\ \/ \E g \in op.todo : configure_listener(g) /\ OpThen("load", op.todo \ {g})
     \/ /\ UNCHANGED runtime \/ \E g \in op.todo : configure_listener(g)
        /\ Abandon
  /\ UNCHANGED <<disk, memory, managed, desired, helper, view, regen, calls>>

\* The configuration, the credential, the process.
Spawn ==
  /\ op.pc = "load" /\ op.todo = {}
  /\ \/ /\ helper.gen < MaxGen
        /\ helper' = [gen |-> helper.gen + 1, alive |-> TRUE, orphan |-> FALSE,
                      resisted |-> FALSE, revision |-> 0, rules |-> {}]
        /\ OpGoto("ready")
     \/ Abandon /\ UNCHANGED helper
  /\ UNCHANGED <<disk, memory, managed, listeners, view, regen, calls>>

wait_ready ==
  /\ op.pc = "ready"
  /\ \/ helper.alive /\ OpGoto("publish")
     \/ OpGoto("cleanup")
  /\ UNCHANGED <<disk, memory, managed, listeners, helper, view, regen, calls>>

\* The helper takes a rule list that names its current revision. What it
\* answers does not show that it enforces the list: that is confirmed later.
Accepts(list, expected) ==
  /\ helper.alive /\ helper.revision = expected
  /\ \E enforced \in {list, helper.rules} :
       helper' = [helper EXCEPT !.revision = @ + 1, !.rules = enforced]

StartPublish ==
  /\ op.pc = "publish"
  /\ \/ /\ Accepts(op.want, 0) /\ op' = [op EXCEPT !.pc = "confirm", !.version = 1]
     \/ /\ Accepts(op.want, 0) \/ UNCHANGED helper
        /\ OpGoto("cleanup")
  /\ UNCHANGED <<disk, memory, managed, listeners, view, regen, calls>>

\* What the helper exposes is what was published, at the version it answered.
wait_rules_applied(list, version) ==
  helper.alive /\ helper.rules = list /\ helper.revision = version

StartConfirm ==
  /\ op.pc = "confirm"
  /\ \/ wait_rules_applied(op.want, op.version) /\ OpGoto("save")
     \/ OpGoto("cleanup")
  /\ UNCHANGED <<disk, memory, managed, listeners, helper, view, regen, calls>>

StartSave ==
  /\ op.pc = "save"
  /\ \/ /\ save_rules_to_disk(op.want) /\ rules' = op.want
        /\ managed' = [on |-> TRUE, gen |-> helper.gen, failed |-> FALSE, rules |-> op.want,
                       extra |-> op.want \ {Primary}, version |-> op.version]
        /\ running' = TRUE
        /\ OpGoto("check")
     \/ OpGoto("cleanup") /\ UNCHANGED <<stored, memory, managed>>
  /\ UNCHANGED <<resume, listeners, helper, view, regen, calls>>

\* What status() calls ready: the helper of this token answers at the version
\* that was published, and every listener is loaded.
Ready ==
  /\ managed.on /\ ~managed.failed /\ helper.alive /\ helper.gen = managed.gen
  /\ helper.revision = managed.version
  /\ managed_listener_loaded(required_groups(managed.extra))

\* A helper that is dead by now is buried by the call to status (StatusBegin).
StartCheck ==
  /\ op.pc = "check" /\ (managed.on => helper.alive)
  /\ \/ Ready /\ OpGoto("intent")
     \/ OpGoto("stop")
  /\ UNCHANGED <<disk, memory, managed, listeners, helper, view, regen, calls>>

StartIntent ==
  /\ op.pc = "intent"
  /\ \/ resume' = TRUE /\ OpReturn
     \/ UNCHANGED resume /\ OpGoto("stop")
  /\ UNCHANGED <<stored, memory, managed, listeners, helper, view, regen, calls>>

\* The result of a kill is ignored and the wait for it is bounded: the process
\* is gone, or has resisted.
Kill ==
  \/ helper' = [helper EXCEPT !.alive = FALSE]
  \/ helper.alive /\ helper' = [helper EXCEPT !.resisted = TRUE]

Mut_cleanup_failed ==
  /\ op.pc = "cleanup"
  /\ Abandon
  /\ UNCHANGED <<disk, memory, managed, listeners, helper, view, regen, calls>>

cleanup_failed ==
  /\ op.pc = "cleanup"
  /\ Kill
  /\ Abandon
  /\ UNCHANGED <<disk, memory, managed, listeners, view, regen, calls>>

\* clear_desired_listener and remove_listener for each, whose failure is ignored.
Unload ==
  /\ op.pc = "unload"
  /\ \/ \E g \in op.todo :
          /\ desired' = desired \ {g}
          /\ remove_listener(g) \/ UNCHANGED runtime
          /\ OpThen("unload", op.todo \ {g})
     \/ op.todo = {} /\ OpReturn /\ UNCHANGED listeners
  /\ UNCHANGED <<disk, memory, managed, helper, view, regen, calls>>

----------------------------------------------------------------------------
(* set_rules, add_or_update_rule, remove_rule, toggle_rule *)

set_app_proxy_rules == \E want \in SUBSET Groups : OpCall("rules", want)

\* Adding, removing or switching a rule edits the current list under the lock.
EditRule ==
  \E g \in Groups : OpCall("rules", rules \cup {g}) \/ OpCall("rules", rules \ {g})

\* The list is read before the lock is taken.
set_app_proxy_strategy == \E g \in Groups : OpCall("rules", {g})

\* Without a helper the list is validated and stored.
RulesOffline ==
  /\ op.pc = "rules" /\ view.pc # "bury" /\ ~managed.on
  /\ \/ save_rules_to_disk(op.want) /\ rules' = op.want
     \/ UNCHANGED <<stored, rules>>
  /\ OpReturn
  /\ UNCHANGED <<resume, running, managed, listeners, helper, view, regen, calls>>

\* The helper is dead or faulted, a group is missing, a rule not acceptable.
RulesRefused ==
  /\ op.pc = "rules" /\ view.pc # "bury" /\ managed.on
  /\ OpReturn
  /\ UNCHANGED <<disk, memory, managed, listeners, helper, view, regen, calls>>

OldListeners == required_groups(managed.extra)
Staged == required_groups(op.want) \ OldListeners

RulesAccepted ==
  /\ op.pc = "rules" /\ view.pc # "bury"
  /\ managed.on /\ ~managed.failed /\ helper.alive
  /\ desired' = OldListeners \cup Staged
  /\ OpThen("stage", Staged)
  /\ UNCHANGED <<disk, memory, managed, runtime, helper, view, regen, calls>>

\* restore_staged_listeners
Restore == desired' = OldListeners /\ OpThen("restore", Staged)

Fail == managed' = [managed EXCEPT !.failed = TRUE] /\ OpGoto("fault")

RulesStage ==
  /\ op.pc = "stage"
  /\ \/ /\ \E g \in op.todo : configure_listener(g) /\ OpThen("stage", op.todo \ {g})
        /\ UNCHANGED desired
     \/ op.todo = {} /\ OpGoto("put") /\ UNCHANGED listeners
     \/ /\ UNCHANGED runtime \/ \E g \in op.todo : configure_listener(g)
        /\ op.todo # {} /\ Restore
  /\ UNCHANGED <<disk, memory, managed, helper, view, regen, calls>>

\* The answer is the new version; or a rejection, after which the revision is
\* read again and has to be the old one; or none, and the rules may be in
\* force or not.
RulesPut ==
  /\ op.pc = "put"
  /\ \/ /\ Accepts(op.want, managed.version)
        /\ op' = [op EXCEPT !.pc = "applied", !.version = managed.version + 1]
        /\ UNCHANGED <<managed, desired>>
     \/ /\ helper.alive /\ helper.revision = managed.version
        /\ Restore /\ UNCHANGED <<managed, helper>>
     \/ /\ Accepts(op.want, managed.version) \/ UNCHANGED helper
        /\ Fail /\ UNCHANGED desired
  /\ UNCHANGED <<disk, memory, runtime, view, regen, calls>>

RulesApplied ==
  /\ op.pc = "applied"
  /\ \/ wait_rules_applied(op.want, op.version) /\ OpGoto("persist") /\ UNCHANGED managed
     \/ Fail
  /\ UNCHANGED <<disk, memory, listeners, helper, view, regen, calls>>

Mut_RulesPersist ==
  /\ op.pc = "persist"
  /\ \/ /\ save_rules_to_disk(op.want) /\ rules' = op.want
        /\ managed' = [managed EXCEPT !.rules = op.want, !.version = op.version,
                                      !.extra = op.want \ {Primary}]
        /\ op' = [op EXCEPT !.pc = "retire", !.todo = OldListeners \ required_groups(op.want)]
        /\ desired' = required_groups(op.want)
     \/ Restore /\ UNCHANGED <<stored, rules, managed>>
  /\ UNCHANGED <<resume, running, runtime, helper, view, regen, calls>>

\* Stored, the new list takes effect, and listeners no rule needs go; if it
\* cannot be stored the helper is given the old list back.
RulesPersist ==
  /\ op.pc = "persist"
  /\ \/ /\ save_rules_to_disk(op.want) /\ rules' = op.want
        /\ managed' = [managed EXCEPT !.rules = op.want, !.version = op.version,
                                      !.extra = op.want \ {Primary}]
        /\ op' = [op EXCEPT !.pc = "retire", !.todo = OldListeners \ required_groups(op.want)]
        /\ desired' = required_groups(op.want)
     \/ OpGoto("rollback") /\ UNCHANGED <<stored, rules, managed, desired>>
  /\ UNCHANGED <<resume, running, runtime, helper, view, regen, calls>>

RulesRollback ==
  /\ op.pc = "rollback"
  /\ \/ /\ Accepts(managed.rules, op.version)
        /\ op' = [op EXCEPT !.pc = "rolled back", !.version = @ + 1]
        /\ UNCHANGED managed
     \/ /\ Accepts(managed.rules, op.version) \/ UNCHANGED helper
        /\ Fail
  /\ UNCHANGED <<disk, memory, listeners, view, regen, calls>>

\* The version is put right once the staged listeners are gone: the step that
\* fails in between leaves a faulted helper, which is stopped.
RulesRolledBack ==
  /\ op.pc = "rolled back"
  /\ \/ /\ wait_rules_applied(managed.rules, op.version)
        /\ managed' = [managed EXCEPT !.version = op.version]
        /\ Restore
     \/ Fail /\ UNCHANGED desired
  /\ UNCHANGED <<disk, memory, runtime, helper, view, regen, calls>>

RulesRestore ==
  /\ op.pc = "restore"
  /\ \/ /\ \E g \in op.todo : remove_listener(g) /\ OpThen("restore", op.todo \ {g})
        /\ UNCHANGED managed
     \/ op.todo = {} /\ OpReturn /\ UNCHANGED <<managed, runtime>>
     \/ op.todo # {} /\ Fail /\ UNCHANGED runtime
  /\ UNCHANGED <<disk, memory, desired, helper, view, regen, calls>>

RulesRetire ==
  /\ op.pc = "retire"
  /\ \/ /\ \E g \in op.todo : remove_listener(g) /\ OpThen("retire", op.todo \ {g})
        /\ UNCHANGED managed
     \/ op.todo = {} /\ OpReturn /\ UNCHANGED <<managed, runtime>>
     \/ op.todo # {} /\ Fail /\ UNCHANGED runtime
  /\ UNCHANGED <<disk, memory, desired, helper, view, regen, calls>>

\* settle_rule_update: a status() call may have buried the helper meanwhile.
RulesFault ==
  /\ op.pc = "fault" /\ view.pc # "bury"
  /\ IF managed.on /\ managed.failed THEN OpGoto("stop") ELSE OpReturn
  /\ UNCHANGED <<disk, memory, managed, listeners, helper, view, regen, calls>>

----------------------------------------------------------------------------
(* stop and shutdown *)

stop_app_proxy == OpCall("preference", {})

\* A preference that cannot be written does not keep the helper running.
StopPreference ==
  /\ op.pc = "preference"
  /\ resume' \in {FALSE, resume}
  /\ OpGoto("stop")
  /\ UNCHANGED <<stored, memory, managed, listeners, helper, view, regen, calls>>

StopTake ==
  /\ op.pc = "stop" /\ view.pc # "bury"
  /\ IF managed.on
     THEN /\ op' = [op EXCEPT !.pc = "halt", !.todo = OldListeners, !.version = managed.gen]
          /\ managed' = NoHelper /\ desired' = {}
          /\ UNCHANGED running
     ELSE /\ running' = FALSE /\ OpReturn
          /\ UNCHANGED <<managed, desired>>
  /\ UNCHANGED <<disk, rules, runtime, helper, view, regen, calls>>

\* The stop request, the wait and, if it is still there, the kill.
StopHalt ==
  /\ op.pc = "halt"
  /\ Kill
  /\ OpGoto("unlisten")
  /\ UNCHANGED <<disk, memory, managed, listeners, view, regen, calls>>

StopUnlisten ==
  /\ op.pc = "unlisten"
  /\ \/ \E g \in op.todo :
          /\ remove_listener(g) \/ UNCHANGED runtime
          /\ OpThen("unlisten", op.todo \ {g})
          /\ UNCHANGED running
     \/ op.todo = {} /\ running' = FALSE /\ OpReturn /\ UNCHANGED runtime
  /\ UNCHANGED <<disk, rules, managed, desired, helper, view, regen, calls>>

\* shutdown leaves the listeners to the exit of the application.
Shutdown ==
  /\ op.pc = "idle" /\ view.pc = "idle" /\ ~regen.on
  /\ IF managed.on THEN Kill ELSE UNCHANGED helper
  /\ managed' = NoHelper /\ running' = FALSE
  /\ desired' = {} /\ runtime' = {}
  /\ op' = [NoOp EXCEPT !.pc = "down"]
  /\ UNCHANGED <<disk, rules, view, regen, calls>>

\* The application dies: what is on disk and the helper process stay.
AppCrash ==
  /\ op.pc # "down"
  /\ managed' = NoHelper /\ running' = FALSE
  /\ desired' = {} /\ runtime' = {}
  /\ op' = [NoOp EXCEPT !.pc = "down"] /\ view' = NoView /\ regen' = NoUpdate
  /\ helper' = [helper EXCEPT !.orphan = TRUE]
  /\ UNCHANGED <<disk, rules, calls>>

\* AppProxyManager::default and resume_after_startup.
Launch ==
  /\ op.pc = "down"
  /\ rules' = load_rules_from_disk
  /\ op' = IF resume THEN [NoOp EXCEPT !.pc = "start"] ELSE NoOp
  /\ UNCHANGED <<disk, running, managed, listeners, helper, view, regen, calls>>

----------------------------------------------------------------------------
(* status *)

StatusBegin ==
  /\ view.pc = "idle" /\ InnerFree /\ op.pc # "down" /\ managed.on
  /\ IF helper.alive
     THEN /\ view' = [NoView EXCEPT !.pc = "ask", !.gen = managed.gen, !.stable = ~regen.on,
                        !.version = managed.version,
                        !.extra = managed.extra, !.ready = ~managed.failed]
          /\ UNCHANGED <<desired, running>>
     ELSE /\ view' = [NoView EXCEPT !.pc = "bury", !.extra = OldListeners]
          /\ desired' = {} /\ running' = FALSE
  /\ UNCHANGED <<disk, rules, managed, runtime, helper, op, regen, calls>>

\* The helper is gone: its listeners go, then the record of it.
StatusBury ==
  /\ view.pc = "bury"
  /\ \/ \E g \in view.extra :
          /\ remove_listener(g) \/ UNCHANGED runtime
          /\ view' = [view EXCEPT !.extra = @ \ {g}]
          /\ UNCHANGED managed
     \/ view.extra = {} /\ managed' = NoHelper /\ view' = NoView /\ UNCHANGED runtime
  /\ UNCHANGED <<disk, memory, desired, helper, op, regen, calls>>

Answers == helper.alive /\ helper.gen = view.gen

\* The helper answers to the token of the snapshot.
StatusAsk ==
  /\ view.pc = "ask"
  /\ view' = [view EXCEPT !.pc = "look",
                          !.ready = @ /\ Answers /\ helper.revision = view.version]
  /\ UNCHANGED <<disk, memory, managed, listeners, helper, op, regen, calls>>

\* The listeners are looked up, and the whole reading counts only if no
\* configuration update was on in the meantime.
StatusLook ==
  /\ view.pc = "look"
  /\ view' = [view EXCEPT !.pc = "told",
                !.ready = @ /\ view.stable /\ managed_listener_loaded(required_groups(view.extra))]
  /\ UNCHANGED <<disk, memory, managed, listeners, helper, op, regen, calls>>

StatusReturn ==
  /\ view.pc = "told"
  /\ view' = NoView
  /\ UNCHANGED <<disk, memory, managed, listeners, helper, op, regen, calls>>

----------------------------------------------------------------------------
(* The world *)

\* One that has resisted may also die later, or give its port up, after which it
\* is of no concern to a new start.
HelperDies ==
  /\ helper.alive
  /\ helper' = [helper EXCEPT !.alive = FALSE]
  /\ UNCHANGED <<disk, memory, managed, listeners, op, view, regen, calls>>

merge_managed_listener == desired

\* Config::generate merges the desired listeners; the result is applied later.
UpdateBegins ==
  /\ ~regen.on /\ op.pc # "down"
  /\ regen' = [on |-> TRUE, merged |-> merge_managed_listener]
  /\ view' = [view EXCEPT !.stable = FALSE]
  /\ UNCHANGED <<disk, memory, managed, listeners, helper, op, calls>>

UpdateEnds ==
  /\ regen.on
  /\ runtime' \in {regen.merged, runtime}
  /\ regen' = NoUpdate
  /\ UNCHANGED <<disk, memory, managed, desired, helper, op, view, calls>>

----------------------------------------------------------------------------
OpStep ==
  \/ StartRefused \/ StartAccepted \/ StartLoad \/ Spawn \/ wait_ready \/ StartPublish
  \/ StartConfirm \/ StartSave \/ StartCheck \/ StartIntent \/ cleanup_failed \/ Unload
  \/ RulesOffline \/ RulesRefused \/ RulesAccepted \/ RulesStage \/ RulesPut \/ RulesApplied
  \/ RulesPersist \/ RulesRollback \/ RulesRolledBack \/ RulesRestore \/ RulesRetire \/ RulesFault
  \/ StopPreference \/ StopTake \/ StopHalt \/ StopUnlisten

StatusStep == StatusBegin \/ StatusBury \/ StatusAsk \/ StatusLook \/ StatusReturn

AppProxyNext ==
  \/ start_app_proxy \/ stop_app_proxy
  \/ set_app_proxy_rules \/ EditRule \/ set_app_proxy_strategy
  \/ Shutdown \/ Launch \/ AppCrash
  \/ OpStep \/ StatusStep
  \/ HelperDies \/ UpdateBegins \/ UpdateEnds

AppProxySpec == AppProxyInit /\ [][AppProxyNext]_apVars

----------------------------------------------------------------------------
(* When the rule list may be changed next, an application proxy that the   *)
(* manager holds has not failed, and if its helper lives, then helper,     *)
(* manager, rules.json and the listeners agree: whatever step of the last  *)
(* start or change of the rules failed, it was taken back as a whole or    *)
(* the helper was stopped (settle_rule_update, restore_staged_listeners).  *)
Settled ==
  op.pc = "idle" /\ managed.on =>
    /\ ~managed.failed
    /\ stored = rules /\ rules = managed.rules
    /\ helper.alive =>
         /\ helper.gen = managed.gen /\ ~helper.orphan
         /\ helper.rules = managed.rules /\ helper.revision = managed.version
         /\ desired = required_groups(managed.rules) /\ desired \subseteq runtime

(* When no operation runs and the manager holds no helper, none is left    *)
(* running but one that a crash of the application orphaned or that has    *)
(* resisted a kill, and no later regeneration brings its listeners back:   *)
(* every way out of a start or a stop has tried to end the process.        *)
NoStrayHelper ==
  op.pc = "idle" /\ ~managed.on =>
    /\ helper.alive => helper.orphan \/ helper.resisted
    /\ ~running /\ desired = {}

=============================================================================
