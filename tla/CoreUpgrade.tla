----------------------------- MODULE CoreUpgrade -----------------------------
(***************************************************************************)
(* The in-app upgrade of the mihomo core (feat/core_upgrade.rs): a copy    *)
(* verified by running it is renamed over the core the application starts, *)
(* the Service is handed its own approved copy, the core is restarted, and *)
(* what fails on the way is rolled back from a hard link.                  *)
(*                                                                         *)
(* Files hold a version, nothing, or something that does not run.  Renames *)
(* fail, up to a bound; the application may die between any two steps; the *)
(* core is started, stopped and moved between modes by others meanwhile.   *)
(* UPGRADE_LOCK is held throughout: there is one upgrade at a time.        *)
(***************************************************************************)
EXTENDS Naturals

CONSTANTS
  MaxVersion,    \* versions that are released (bound)
  MaxRenameFaults, MaxUpgradeCrashes, MaxUpgrades    \* (bounds)

ASSUME UpgradeAssumption ==
  {MaxVersion, MaxRenameFaults, MaxUpgradeCrashes, MaxUpgrades} \subseteq Nat /\ MaxVersion > 0

VARIABLES
  upgradeOs,     \* "unix" or "windows"
  coreFile,      \* the managed core beside the application
  stagedCore, rollbackLink, displacedCore,
  approvedCore,  \* the copy in the Service's directory
  upMode,        \* Running Mode
  upgrade,       \* the running upgrade
  faults,        \* renames that failed, crashes and upgrades so far, and whether
                 \* one left no core in its place to go back to
  drift          \* the Service's copy may differ, for a reason the code accepts

upgradeVars == <<upgradeOs, coreFile, stagedCore, rollbackLink, displacedCore,
                 approvedCore, upMode, upgrade, faults, drift>>

NoFile == 0
Versions == 1..MaxVersion
Broken == MaxVersion + 1    \* what an interrupted in-place update leaves

NoUpgrade == [pc |-> "idle", installed |-> NoFile, latest |-> NoFile,
              restorable |-> FALSE, serviceMode |-> FALSE, staging |-> "NotAttempted"]

UpgradeInit ==
  /\ upgradeOs \in {"unix", "windows"} /\ coreFile \in {1, Broken}
  /\ stagedCore = NoFile /\ rollbackLink = NoFile /\ displacedCore = NoFile
  /\ approvedCore = 1 /\ drift = (coreFile # 1)
  /\ upMode \in {"NotRunning", "Sidecar", "Service"}
  /\ upgrade = NoUpgrade /\ faults = [renames |-> 0, crashes |-> 0, upgrades |-> 0, stranded |-> FALSE]

UpStep(pc) == upgrade' = [upgrade EXCEPT !.pc = pc]

\* A rename that fails, and one that works, changes the files as told.
RenameFails == faults.renames < MaxRenameFaults /\ faults' = [faults EXCEPT !.renames = @ + 1]

-----------------------------------------------------------------------------
\* An unreadable core reports no version; upgrading is its repair.
read_core_version(file) == IF file \in Versions THEN file ELSE NoFile

\* The installed and the latest version are read; nothing to do when they are one.
upgrade_core ==
  /\ upgrade.pc = "idle" /\ faults.upgrades < MaxUpgrades
  /\ \E latest \in Versions, force \in BOOLEAN :
       /\ force \/ read_core_version(coreFile) # latest
       /\ upgrade' = [NoUpgrade EXCEPT !.pc = "fetch", !.latest = latest,
                                       !.installed = read_core_version(coreFile)]
  /\ faults' = [faults EXCEPT !.upgrades = @ + 1, !.stranded = @ \/ coreFile = NoFile]
  /\ UNCHANGED <<upgradeOs, coreFile, stagedCore, rollbackLink, displacedCore, approvedCore, upMode, drift>>

\* resolve_latest_version and download_package fail, or the copy does not run
\* or reports another version: it is removed before anything else is touched.
FetchFails ==
  /\ upgrade.pc = "fetch" /\ upgrade' = NoUpgrade /\ stagedCore' = NoFile
  /\ UNCHANGED <<upgradeOs, coreFile, rollbackLink, displacedCore, approvedCore, upMode, faults, drift>>

\* The copy is run, and kept only if it reports the version it was fetched as.
stage_core ==
  /\ upgrade.pc = "fetch"
  /\ stagedCore' = upgrade.latest
  /\ UpStep("link")
  /\ UNCHANGED <<upgradeOs, coreFile, rollbackLink, displacedCore, approvedCore, upMode, faults, drift>>

\* The link may be refused; the mode is read here, before anything can crash.
LinkRollback ==
  /\ upgrade.pc = "link"
  /\ \E linked \in BOOLEAN :
       /\ linked => coreFile # NoFile
       /\ rollbackLink' = IF linked /\ upgrade.installed # NoFile THEN coreFile ELSE NoFile
       /\ upgrade' = [upgrade EXCEPT !.pc = "publish", !.serviceMode = (upMode = "Service"),
                                     !.restorable = linked /\ upgrade.installed # NoFile]
  /\ UNCHANGED <<upgradeOs, coreFile, stagedCore, displacedCore, approvedCore, upMode, faults, drift>>

-----------------------------------------------------------------------------
(* StagedCore::publish                                                       *)

\* One rename; the Service is then handed the file if it ran the core.
Published ==
  /\ coreFile' = stagedCore /\ stagedCore' = NoFile
  /\ drift' = (drift \/ ~upgrade.serviceMode)
  /\ UpStep(IF upgrade.serviceMode THEN "approve" ELSE "restart")

publish ==
  /\ upgrade.pc = "publish"
  /\ \/ /\ Published
        /\ UNCHANGED <<displacedCore, faults>>
     \/ /\ RenameFails /\ UpStep(IF upgradeOs = "windows" THEN "aside" ELSE "failed")
        /\ displacedCore' = IF upgradeOs = "windows" THEN NoFile ELSE displacedCore
        /\ UNCHANGED <<coreFile, stagedCore, drift>>
  /\ UNCHANGED <<upgradeOs, rollbackLink, approvedCore, upMode>>

\* A running executable can be moved aside on Windows.
MoveAside ==
  /\ upgrade.pc = "aside"
  /\ \/ /\ coreFile # NoFile /\ UpStep("replace")
        /\ displacedCore' = coreFile /\ coreFile' = NoFile
        /\ UNCHANGED faults
     \/ /\ UpStep("failed")
        /\ (coreFile = NoFile /\ UNCHANGED faults) \/ RenameFails
        /\ UNCHANGED <<coreFile, displacedCore>>
  /\ UNCHANGED <<upgradeOs, stagedCore, rollbackLink, approvedCore, upMode, drift>>

ReplaceAside ==
  /\ upgrade.pc = "replace"
  /\ \/ /\ Published /\ displacedCore' \in {NoFile, displacedCore}
        /\ UNCHANGED faults
     \/ /\ RenameFails /\ UpStep("put back")
        /\ UNCHANGED <<coreFile, stagedCore, displacedCore, drift>>
  /\ UNCHANGED <<upgradeOs, rollbackLink, approvedCore, upMode>>

PutBack ==
  /\ upgrade.pc = "put back" /\ UpStep("failed")
  /\ \/ /\ coreFile' = displacedCore /\ displacedCore' = NoFile
        /\ UNCHANGED faults
     \/ /\ RenameFails
        /\ UNCHANGED <<coreFile, displacedCore>>
  /\ UNCHANGED <<upgradeOs, stagedCore, rollbackLink, approvedCore, upMode, drift>>

-----------------------------------------------------------------------------
\* The elevated installer publishes these bytes to the Service, or the prompt
\* is declined.
stage_approved_core ==
  /\ upgrade.pc = "approve"
  /\ \E accepted \in BOOLEAN :
       /\ approvedCore' = IF accepted THEN coreFile ELSE approvedCore
       /\ upgrade' = [upgrade EXCEPT !.pc = IF accepted THEN "restart" ELSE "failed",
                                     !.staging = IF accepted THEN "Succeeded" ELSE "Refused"]
  /\ UNCHANGED <<upgradeOs, coreFile, stagedCore, rollbackLink, displacedCore, upMode, faults, drift>>

\* restart_core: it works, it fails before or after the old core went down, or
\* after the new one came up.
UpgradeRestart ==
  /\ upgrade.pc = "restart"
  /\ \/ /\ UpStep("done") /\ upMode' \in {"Sidecar", "Service"}
     \/ /\ UpStep("failed") /\ upMode' \in {"NotRunning", "Sidecar", "Service"}
  /\ UNCHANGED <<upgradeOs, coreFile, stagedCore, rollbackLink, displacedCore, approvedCore, faults, drift>>

\* The previous core comes back when its file is gone, its process is down, or
\* the Service refused the new one.
Mut_RestoreWanted ==
  upgrade.restorable /\ (upMode = "NotRunning" \/ coreFile = NoFile)

RestoreWanted ==
  upgrade.restorable /\ (upgrade.staging = "Refused" \/ upMode = "NotRunning" \/ coreFile = NoFile)

\* Without a restoration the new file stays, which the Service may not have.
RollBack ==
  /\ upgrade.pc = "failed"
  /\ \/ /\ RestoreWanted /\ coreFile' = rollbackLink
        /\ UpStep(IF upgrade.staging = "Succeeded" THEN "approve again" ELSE "clean")
        /\ UNCHANGED <<faults, drift>>
     \/ /\ RestoreWanted /\ UpStep("clean") /\ drift' = TRUE
        /\ faults.renames < MaxRenameFaults
        /\ faults' = [faults EXCEPT !.renames = @ + 1, !.stranded = @ \/ coreFile = NoFile]
        /\ UNCHANGED coreFile
     \/ /\ ~RestoreWanted /\ UpStep("clean")
        /\ drift' = (drift \/ (upgrade.staging = "Refused" /\ ~upgrade.restorable))
        /\ UNCHANGED <<coreFile, faults>>
  /\ UNCHANGED <<upgradeOs, stagedCore, rollbackLink, displacedCore, approvedCore, upMode>>

\* Only a staging that succeeded left the failing bytes with the Service.
ApproveAgain ==
  /\ upgrade.pc = "approve again" /\ UpStep("clean")
  /\ \/ /\ approvedCore' = coreFile
        /\ UNCHANGED drift
     \/ /\ drift' = TRUE
        /\ UNCHANGED approvedCore
  /\ UNCHANGED <<upgradeOs, coreFile, stagedCore, rollbackLink, displacedCore, upMode, faults>>

\* Links are removed and the staged copy is dropped; the displaced core of a
\* failed upgrade stays when it is the only one left.
Mut_Cleaned ==
  /\ upgrade.pc \in {"clean", "done"} /\ upgrade' = NoUpgrade
  /\ rollbackLink' = NoFile /\ stagedCore' = NoFile
  /\ displacedCore' = NoFile
  /\ UNCHANGED <<upgradeOs, coreFile, approvedCore, upMode, faults, drift>>

Cleaned ==
  /\ upgrade.pc \in {"clean", "done"} /\ upgrade' = NoUpgrade
  /\ rollbackLink' = NoFile /\ stagedCore' = NoFile
  /\ displacedCore' = IF upgrade.pc = "done" \/ upgrade.restorable THEN NoFile ELSE displacedCore
  /\ UNCHANGED <<upgradeOs, coreFile, approvedCore, upMode, faults, drift>>

-----------------------------------------------------------------------------
(* Everything else                                                           *)

\* Starts, stops and handoffs by others, and the restart of a core that is down.
ModeChanges ==
  /\ upMode' \in {"NotRunning", "Sidecar", "Service"} \ {upMode}
  /\ UNCHANGED <<upgradeOs, coreFile, stagedCore, rollbackLink, displacedCore, approvedCore, upgrade, faults, drift>>

\* install_service hands over whatever file is there, and waits for no upgrade.
InstallService ==
  /\ coreFile \in Versions /\ approvedCore' = coreFile
  /\ drift' = (upgrade.pc # "idle")
  /\ UNCHANGED <<upgradeOs, coreFile, stagedCore, rollbackLink, displacedCore, upMode, upgrade, faults>>

\* The application dies; its core may go on, under the Service.
UpgradeCrash ==
  /\ upgrade.pc # "idle" /\ faults.crashes < MaxUpgradeCrashes
  /\ upgrade' = NoUpgrade /\ drift' = TRUE
  /\ faults' = [faults EXCEPT !.crashes = @ + 1]
  /\ UNCHANGED <<upgradeOs, coreFile, stagedCore, rollbackLink, displacedCore, approvedCore, upMode>>

UpgradeNext ==
  \/ upgrade_core \/ FetchFails \/ stage_core \/ LinkRollback
  \/ publish \/ MoveAside \/ ReplaceAside \/ PutBack
  \/ stage_approved_core \/ UpgradeRestart \/ RollBack \/ ApproveAgain \/ Cleaned
  \/ ModeChanges \/ InstallService \/ UpgradeCrash

UpgradeSpec == UpgradeInit /\ [][UpgradeNext]_upgradeVars

-----------------------------------------------------------------------------
\* Whatever fails, a core is on the disk: in its place, or moved aside until it
\* is back (publish, the rollback, the removals after it).  Two cases are out of
\* it, both on Windows only: the rename of the rollback link fails when there is
\* no core in its place, and the displaced core is then removed with the link;
\* and an upgrade that begins without a core in its place, left so by a crash or
\* by renames that failed, first removes the displaced one.
CoreIsKept ==
  upgradeOs = "unix" \/ ~faults.stranded =>
    \E f \in {coreFile, displacedCore} : f # NoFile

\* Between upgrades the Service's copy is the core the application reports,
\* unless the code accepts the difference: an upgrade outside Service mode, a
\* declined restoration, a crash, a core that cannot be put back, or a Service
\* installed in the middle of it.  Otherwise a retry would find nothing to do
\* while the Service runs the old core.
ApprovedIsReported == upgrade.pc = "idle" => drift \/ coreFile \in {NoFile, approvedCore}
=============================================================================
