----------------------------- MODULE ConfigApply -----------------------------
(***************************************************************************)
(* How a generated configuration is checked and becomes the one the core   *)
(* runs (core/validate.rs, core/manager/config.rs, core/service.rs): a     *)
(* test run of the core unless these bytes were accepted before; then, for *)
(* the Service's core, staging in place with one more ask when the Service *)
(* is silent, and replacement of the core when that does not do; for a     *)
(* sidecar, a reload, or a restart.  The draft is committed only when all  *)
(* of it succeeded.  A restart on account of a setting, and the move to a  *)
(* sidecar, generate into the draft layer under no transaction: a core     *)
(* starts from that draft, and nothing commits it.                         *)
(*                                                                         *)
(* A request whose answer is lost may have been carried out.               *)
(***************************************************************************)
EXTENDS Naturals

CONSTANTS
  Configs,     \* generated configurations; 0 is none
  Cores,       \* the core binaries the user can choose
  MaxBuilds    \* replacements of the binaries or the geo files (bound)

ASSUME ConfigsAssumption == 0 \notin Configs

VARIABLES
  chosen,      \* clash_core of the verge settings
  build,       \* length and time of the binary and the geo files
  accepted,    \* LAST_VALIDATED: the fingerprint of what was last accepted
  change,      \* the update: pc, its configuration and its fingerprint; and whether
               \* somebody else generated into its draft
  settled,     \* the committed Runtime Configuration
  draft,       \* its draft, 0 when there is none
  coreMode,    \* Running Mode
  ran,         \* the configuration the core runs, 0 when there is none
  staged,      \* the bundle in the Service's runtime directory
  adrift,      \* an update failed although the core may have taken its configuration
  unsettled    \* the core was started from a draft, or an update committed another one

applyVars == <<chosen, build, accepted, change, settled, draft, coreMode, ran, staged, adrift, unsettled>>

NoChange == [pc |-> "idle", cfg |-> 0, print |-> <<>>, mixed |-> FALSE]

ApplyInit ==
  /\ chosen \in Cores /\ build = 0 /\ accepted = <<>>
  /\ change = NoChange /\ settled \in Configs /\ draft = 0
  /\ coreMode = "NotRunning" /\ ran = 0 /\ staged = 0 /\ adrift = FALSE /\ unsettled = FALSE

Go(pc) == change' = [change EXCEPT !.pc = pc]

\* The update fails and its draft is dropped; failing late leaves the core adrift.
Fails(late) == change' = NoChange /\ draft' = 0 /\ adrift' = (adrift \/ late)

\* The draft if there is one.
latest_arc == IF draft = 0 THEN settled ELSE draft

-----------------------------------------------------------------------------
(* The check                                                                 *)

validation_fingerprint(c) == <<c, chosen, build>>

\* update_runtime_config, update_config and the others that stage a runtime
\* configuration under the update flag; the validator may be busy with a file.
BeginUpdate(c) ==
  /\ change.pc = "idle"
  /\ change' = [NoChange EXCEPT !.pc = "print", !.cfg = c] /\ draft' = c
  /\ UNCHANGED <<chosen, build, accepted, settled, coreMode, ran, staged, adrift, unsettled>>

validate_config_outcome_with ==
  /\ change.pc = "print"
  /\ change' = [change EXCEPT !.print = validation_fingerprint(change.cfg),
                              !.pc = IF accepted = validation_fingerprint(change.cfg) THEN "write" ELSE "test"]
  /\ UNCHANGED <<chosen, build, accepted, settled, draft, coreMode, ran, staged, adrift, unsettled>>

\* Busy, exiting, a command that cannot be run and a rejection all end it.
Rejected ==
  /\ change.pc \in {"print", "test", "write"} /\ Fails(FALSE)
  /\ UNCHANGED <<chosen, build, accepted, settled, coreMode, ran, staged, unsettled>>

\* core -t: the core chosen by now accepts the configuration.
validate_config_internal_outcome ==
  /\ change.pc = "test"
  /\ accepted' = change.print /\ Go("write")
  /\ UNCHANGED <<chosen, build, settled, draft, coreMode, ran, staged, adrift, unsettled>>

-----------------------------------------------------------------------------
(* The application                                                           *)

\* apply_config: the route follows the mode the core is in; the Service's one
\* first waits for the lifecycle lock.
apply_config ==
  /\ change.pc = "write"
  /\ Go(IF coreMode = "Service" THEN "lock" ELSE "reload")
  /\ UNCHANGED <<chosen, build, accepted, settled, draft, coreMode, ran, staged, adrift, unsettled>>

\* The mode is another one once the lifecycle lock is taken.
ModeChanged ==
  /\ change.pc = "lock" /\ coreMode # "Service" /\ Fails(FALSE)
  /\ UNCHANGED <<chosen, build, accepted, settled, coreMode, ran, staged, unsettled>>

\* attempt_staging: a Service without the capability to stage is not asked.
apply_config_by_service ==
  /\ change.pc = "lock" /\ coreMode = "Service"
  /\ Go("ask") \/ Go("replace")
  /\ UNCHANGED <<chosen, build, accepted, settled, draft, coreMode, ran, staged, adrift, unsettled>>

\* external: what the Service makes of a request to stage.  Each one collects
\* the bundle anew, so the second may be refused for what is in it although the
\* first was not.
Answers == {"Staged", "RestartRequired", "RefusedForAnotherReason", "RefusedTheBundle", "Unanswered"}

Mut_plan_config_application(attempt) ==
  CASE attempt = "Staged" -> "reload staged"
    [] attempt \in {"RefusedTheBundle", "Unanswered"} -> "fail"
    [] OTHER -> "replace"

plan_config_application(attempt) ==
  CASE attempt = "Staged"           -> "reload staged"
    [] attempt = "RefusedTheBundle" -> "fail"
    [] OTHER                        -> "replace"

\* Asked and, if there is no answer, asked once more within a time limit.
stage_with_confirmation ==
  /\ change.pc \in {"ask", "again"} /\ coreMode = "Service"
  /\ \E attempt \in Answers :
       /\ staged' \in CASE attempt = "Staged"     -> {change.cfg}
                        [] attempt = "Unanswered" -> {staged, change.cfg}
                        [] OTHER                  -> {staged}
       /\ \/ attempt = "Unanswered" /\ change.pc = "ask" /\ Go("again") /\ UNCHANGED <<draft, adrift>>
          \/ /\ attempt = "Unanswered" => change.pc = "again"
             /\ IF plan_config_application(attempt) = "fail"
                THEN Fails(change.pc = "again" /\ staged = change.cfg)
                ELSE Go(plan_config_application(attempt)) /\ UNCHANGED <<draft, adrift>>
  /\ UNCHANGED <<chosen, build, accepted, settled, coreMode, ran, unsettled>>

\* reload_config: the core loads the file, or does not say that it did.
reload_config ==
  /\ \/ change.pc = "reload staged" /\ coreMode = "Service"
     \/ change.pc = "reload"
  /\ \/ /\ ran # 0 /\ ran' = change.cfg
        /\ Go("commit")
     \/ /\ ran' \in IF ran = 0 THEN {0} ELSE {ran, change.cfg}
        /\ Go(IF change.pc = "reload" THEN "restart" ELSE "replace")
  /\ UNCHANGED <<chosen, build, accepted, settled, draft, coreMode, staged, adrift, unsettled>>

\* replace_service_core_with_config and restart_core_during_config_update: the
\* proxy is cleared and the core stopped, a core is started, from the update's
\* file or from the draft, and the proxy restored; each may fail.
Replaced ==
  /\ change.pc \in {"replace", "restart"} /\ (change.pc = "replace" => coreMode = "Service")
  /\ \/ /\ ran # 0 /\ Fails(TRUE)
        /\ UNCHANGED <<coreMode, ran, staged, unsettled>>
     \/ /\ coreMode' = "NotRunning" /\ ran' = 0 /\ unsettled' = FALSE /\ Fails(FALSE)
        /\ UNCHANGED staged
     \/ /\ coreMode' \in IF change.pc = "replace" THEN {"Service"} ELSE {"Service", "Sidecar"}
        /\ ran' = IF change.pc = "replace" THEN change.cfg ELSE latest_arc
        /\ staged' = IF coreMode' = "Service" THEN ran' ELSE staged
        /\ (Go("commit") /\ UNCHANGED <<draft, adrift>>) \/ Fails(TRUE)
        /\ UNCHANGED unsettled
  /\ UNCHANGED <<chosen, build, accepted, settled>>

validate_and_apply ==
  /\ change.pc = "commit"
  /\ settled' = latest_arc /\ draft' = 0 /\ change' = NoChange
  /\ adrift' = (adrift /\ ran # change.cfg) /\ unsettled' = change.mixed
  /\ UNCHANGED <<chosen, build, accepted, coreMode, ran, staged>>

-----------------------------------------------------------------------------
(* The rest of the application                                               *)

\* change_core stages and applies its setting without the configuration lock.
change_core ==
  /\ chosen' \in Cores \ {chosen}
  /\ UNCHANGED <<build, accepted, change, settled, draft, coreMode, ran, staged, adrift, unsettled>>

\* A core upgrade or a geo update.
NewFiles ==
  /\ build < MaxBuilds /\ build' = build + 1
  /\ UNCHANGED <<chosen, accepted, change, settled, draft, coreMode, ran, staged, adrift, unsettled>>

\* generate, of continue_with_sidecar, of the uninstallation, and of a patch that
\* restarts the core: into the draft, which the caller has not claimed; the last
\* without the update flag.
Generates(c) ==
  /\ draft' = c
  /\ change' = [change EXCEPT !.mixed = change.pc # "idle"]
  /\ UNCHANGED <<chosen, build, accepted, settled, coreMode, ran, staged, adrift, unsettled>>

\* Starts take the update flag; a core starts from the latest configuration.
StartCoreUnder(mode) ==
  /\ change.pc = "idle"
  /\ coreMode' = mode /\ ran' = latest_arc /\ adrift' = FALSE /\ unsettled' = (draft # 0)
  /\ staged' = IF mode = "Service" THEN latest_arc ELSE staged
  /\ UNCHANGED <<chosen, build, accepted, change, settled, draft>>

\* A stop takes the lifecycle lock, which staging and replacing hold.
CoreEnds ==
  /\ coreMode # "NotRunning" /\ change.pc \notin {"ask", "again", "reload staged", "replace", "restart"}
  /\ coreMode' = "NotRunning" /\ ran' = 0 /\ adrift' = FALSE /\ unsettled' = FALSE
  /\ UNCHANGED <<chosen, build, accepted, change, settled, draft, staged>>

\* external: the Service restarts a core that died, from its own directory.
ServiceRevives ==
  /\ coreMode = "Service" /\ ran' = staged
  /\ UNCHANGED <<chosen, build, accepted, change, settled, draft, coreMode, staged, adrift, unsettled>>

ApplyNext ==
  \/ \E c \in Configs : BeginUpdate(c) \/ Generates(c)
  \/ validate_config_outcome_with \/ Rejected \/ validate_config_internal_outcome
  \/ apply_config \/ ModeChanged \/ apply_config_by_service \/ stage_with_confirmation
  \/ reload_config \/ Replaced \/ validate_and_apply \/ change_core \/ NewFiles
  \/ \E m \in {"Service", "Sidecar"} : StartCoreUnder(m)
  \/ CoreEnds \/ ServiceRevives

ApplySpec == ApplyInit /\ [][ApplyNext]_applyVars

-----------------------------------------------------------------------------
\* Between updates the core runs the committed configuration, and the Service
\* would revive it with that one: an update that fails leaves none of its bytes
\* behind, also when the Service staged them without saying so.  Except that a
\* core whose proxy cannot be cleared, which cannot be stopped, whose proxy
\* cannot be restored afterwards, or whose bundle is refused once it was staged
\* unanswered, keeps what it has; and except for a core that was started from a
\* draft nobody commits, or whose update committed what somebody else generated
\* meanwhile (plan_config_application, stage_with_confirmation, validate_and_apply).
AppliedIsRun ==
  change.pc = "idle" /\ coreMode # "NotRunning" /\ ~adrift /\ ~unsettled =>
    ran = settled /\ (coreMode = "Service" => staged = settled)
=============================================================================
