------------------------------ MODULE Profiles ------------------------------
(***************************************************************************)
(* The profiles (config/profiles.rs, cmd/profile.rs, feat/profile.rs,      *)
(* cmd/save_profile.rs): importing, updating, editing, ordering, deleting  *)
(* and switching them, beside the configuration updates that put the       *)
(* current one into the core.                                              *)
(*                                                                         *)
(* A profile is its uid and the content of its file, which the core        *)
(* accepts unless it is "bad"; the enhancement items created with it come  *)
(* and go with it.                                                         *)
(***************************************************************************)
EXTENDS Naturals, Sequences, SequencesExt

CONSTANTS
  Uids,           \* the uids of profiles
  Jobs,           \* concurrent commands
  NoOne,          \* no profile, no job
  MaxCommands     \* bounds the commands that are started

ASSUME ProfilesAssumption == NoOne \notin Uids \cup Jobs /\ MaxCommands \in Nat

VARIABLES
  profiles,       \* Config::profiles(), committed
  profiles_draft, \* its draft, <<>> without one
  profiles_yaml,  \* profiles.yaml
  files,          \* the profile files
  core_runs,      \* the profile and content the core was configured with
  write_lock,     \* PROFILE_WRITE_LOCK
  permit,         \* the data-modify permit of the store and whether apply() came between
  switching,      \* CURRENT_SWITCHING_PROFILE
  updating,       \* config_update_in_progress
  jobs,           \* the commands
  savers,         \* saves spawned in the background
  taken_back,     \* a save that had found no file took back one that was restored
  commands        \* commands started so far

profVars == <<profiles, profiles_draft, profiles_yaml, files, core_runs, write_lock, permit,
              switching, updating, jobs, savers, taken_back, commands>>

store == <<profiles, profiles_draft>>
persisted == <<profiles_yaml, files>>
flags == <<write_lock, switching, updating>>

NoJob == [op |-> "none", pc |-> "idle", uid |-> NoOne, prev |-> NoOne, copy |-> <<>>,
          text |-> "none", original |-> "none", seen |-> <<NoOne, "none">>]
NoPermit == [by |-> NoOne, stale |-> FALSE]

ProfilesInit ==
  /\ \E u \in Uids :
       /\ profiles = [current |-> u, items |-> <<u>>]
       /\ files = [v \in Uids |-> IF v = u THEN "good" ELSE "none"]
       /\ core_runs = <<u, "good">>
  /\ profiles_draft = <<>> /\ profiles_yaml = profiles
  /\ write_lock = NoOne /\ permit = NoPermit /\ switching = FALSE /\ updating = NoOne
  /\ jobs = [j \in Jobs |-> NoJob] /\ savers = 0 /\ taken_back = FALSE /\ commands = 0

At(j, op, pc) == jobs[j].op = op /\ jobs[j].pc = pc
JobGoto(j, pc) == jobs' = [jobs EXCEPT ![j].pc = pc]
JobDone(j) == jobs' = [jobs EXCEPT ![j] = NoJob]

\* What reading profiles.yaml comes up with: nothing at all when it cannot be read.
NoProfiles == [current |-> NoOne, items |-> <<>>]
ReadProfiles == {profiles_yaml, NoProfiles}

latest_arc == IF profiles_draft = <<>> THEN profiles ELSE profiles_draft
get_item(p, u) == Contains(p.items, u)

\* Only a profile that exists becomes the current one.
patch_config(p, u) == [p EXCEPT !.current = IF get_item(p, u) THEN u ELSE @]

\* with_data_modify: a copy under the permit, and the commit that refuses when
\* the committed data was replaced meanwhile.
CopyData(j, pc, copy) ==
  /\ permit = NoPermit
  /\ permit' = [by |-> j, stale |-> FALSE]
  /\ jobs' = [jobs EXCEPT ![j].pc = pc, ![j].copy = copy]

CommitData(copy) ==
  /\ permit' = NoPermit
  /\ profiles' = IF permit.stale THEN profiles ELSE copy

\* apply() takes no permit.
ApplyDraft ==
  /\ profiles' = latest_arc /\ profiles_draft' = <<>>
  /\ permit' = IF permit = NoPermit THEN permit ELSE [permit EXCEPT !.stale = TRUE]

----------------------------------------------------------------------------
(* The commands. *)

ProfilesCall(j, op, pc, u, text) ==
  /\ jobs[j] = NoJob /\ commands < MaxCommands
  /\ commands' = commands + 1
  /\ jobs' = [jobs EXCEPT ![j] = [NoJob EXCEPT !.op = op, !.pc = pc, !.uid = u, !.text = text]]
  /\ UNCHANGED <<store, persisted, core_runs, flags, permit, savers, taken_back>>

\* A new uid names nothing yet.
import_profile(j) ==
  \E u \in Uids, text \in {"good", "bad"} :
    /\ files[u] = "none" /\ \A k \in Jobs : jobs[k].uid # u
    /\ ProfilesCall(j, "import", "fetch", u, text)

update_profile(j) ==
  \E u \in Uids, text \in {"new", "bad"} : ProfilesCall(j, "update", "check", u, text)

save_profile_file(j) ==
  \E u \in Uids, text \in {"new", "bad"} : ProfilesCall(j, "save", "read", u, text)

delete_profile(j) == \E u \in Uids : ProfilesCall(j, "delete", "lock", u, "none")
\* The profile at whose place it goes takes the place of a text.
reorder_profile(j) == \E u, over \in Uids : ProfilesCall(j, "reorder", "edit", u, over)
enhance_profiles(j) == ProfilesCall(j, "enhance", "update", NoOne, "none")

patch_profiles_config(j) ==
  /\ ~switching
  /\ jobs[j] = NoJob /\ commands < MaxCommands
  /\ commands' = commands + 1
  /\ switching' = TRUE
  /\ \E u \in Uids : jobs' = [jobs EXCEPT ![j] = [NoJob EXCEPT !.op = "switch", !.pc = "lock", !.uid = u]]
  /\ UNCHANGED <<store, persisted, core_runs, write_lock, updating, permit, savers, taken_back>>

\* A backup, of which this profile is the only and current one.
restore_local_backup(j) ==
  \E u \in Uids :
    /\ \A k \in Jobs : jobs[k].op = "import" => jobs[k].uid # u
    /\ ProfilesCall(j, "restore", "lock", u, "good")

\* The exit saves what is staged.
apply_all_and_save_file(j) == ProfilesCall(j, "exit", "lock", NoOne, "none")

----------------------------------------------------------------------------
(* Adding, updating, ordering and saving. *)

\* An update that fails goes out again through the core, then through the
\* system proxy; an import tries once.
perform_profile_update(j) ==
  CASE At(j, "update", "fetch")          -> JobGoto(j, "fetch by core")
    [] At(j, "update", "fetch by core")  -> JobGoto(j, "fetch by proxy")
    [] OTHER                             -> JobDone(j)

from_url(j) ==
  /\ jobs[j].pc \in {"fetch", "fetch by core", "fetch by proxy"}
  /\ \/ JobGoto(j, IF jobs[j].op = "import" THEN "append" ELSE "edit")
     \/ perform_profile_update(j)
  /\ UNCHANGED <<store, persisted, core_runs, flags, permit, savers, taken_back, commands>>

\* A first profile becomes the current one.
append_item(p, u) ==
  [current |-> IF p.current = NoOne THEN u ELSE p.current, items |-> Append(p.items, u)]

profiles_append_item_safe(j) ==
  /\ At(j, "import", "append")
  /\ CopyData(j, "write", append_item(profiles, jobs[j].uid))
  /\ UNCHANGED <<store, persisted, core_runs, flags, savers, taken_back, commands>>

Mut_AppendWrite(j) ==
  /\ At(j, "import", "write")
  /\ \/ /\ files' = [files EXCEPT ![jobs[j].uid] = jobs[j].text]
        /\ CommitData(jobs[j].copy)
        /\ IF permit.stale THEN JobDone(j) ELSE JobGoto(j, "store")
     \/ JobDone(j) /\ UNCHANGED <<files, profiles, permit>>
  /\ UNCHANGED <<profiles_draft, profiles_yaml, core_runs, flags, savers, taken_back, commands>>

AppendWrite(j) ==
  /\ At(j, "import", "write")
  /\ \/ /\ files' = [files EXCEPT ![jobs[j].uid] = jobs[j].text]
        /\ CommitData(jobs[j].copy)
        /\ IF permit.stale THEN JobDone(j) ELSE JobGoto(j, "store")
     \/ permit' = NoPermit /\ JobDone(j) /\ UNCHANGED <<files, profiles>>
  /\ UNCHANGED <<profiles_draft, profiles_yaml, core_runs, flags, savers, taken_back, commands>>

\* A subscription is fetched; a local profile, on request, is only applied
\* again; an automatic update of a profile that does not allow it does nothing.
should_update_profile(j) ==
  /\ At(j, "update", "check")
  /\ \/ get_item(latest_arc, jobs[j].uid) /\ JobGoto(j, "fetch")
     \/ get_item(latest_arc, jobs[j].uid) /\ JobGoto(j, "update")
     \/ JobDone(j)
  /\ UNCHANGED <<store, persisted, core_runs, flags, permit, savers, taken_back, commands>>

\* The index of an item; no two have the same uid.
position(p, u) == CHOOSE i \in 1 .. Len(p.items) : p.items[i] = u

\* The profile is taken out and put in again where the other one was.
reorder(p, u, over) ==
  IF get_item(p, u) /\ get_item(p, over)
  THEN [p EXCEPT !.items = InsertAt(RemoveAt(@, position(p, u)), position(p, over), u)]
  ELSE p

\* update_item and reorder work on the copy; an item that is gone is an error.
Edit(j) ==
  /\ jobs[j].pc = "edit"
  /\ CopyData(j, "edited",
       IF jobs[j].op = "reorder" THEN reorder(profiles, jobs[j].uid, jobs[j].text) ELSE profiles)
  /\ UNCHANGED <<store, persisted, core_runs, flags, savers, taken_back, commands>>

\* The file is written before profiles.yaml; either may fail.
update_item(j) ==
  /\ jobs[j].pc = "edited"
  /\ \/ /\ get_item(jobs[j].copy, jobs[j].uid)
        /\ jobs[j].op = "reorder" => get_item(jobs[j].copy, jobs[j].text)
        /\ files' = IF jobs[j].op = "update" THEN [files EXCEPT ![jobs[j].uid] = jobs[j].text] ELSE files
        /\ profiles_yaml' = jobs[j].copy
        /\ CommitData(jobs[j].copy)
        /\ IF jobs[j].op = "update" /\ ~permit.stale /\ latest_arc.current = jobs[j].uid
           THEN JobGoto(j, "update") ELSE JobDone(j)
     \/ /\ files' \in {files, IF jobs[j].op = "update" /\ get_item(jobs[j].copy, jobs[j].uid)
                              THEN [files EXCEPT ![jobs[j].uid] = jobs[j].text] ELSE files}
        /\ permit' = NoPermit /\ JobDone(j)
        /\ UNCHANGED <<profiles, profiles_yaml>>
  /\ UNCHANGED <<profiles_draft, core_runs, flags, savers, taken_back, commands>>

\* profiles_save_file_safe, by a command or in the background; a failure is
\* reported and changes nothing.
SaveCopy(j) ==
  /\ jobs[j].pc = "store"
  /\ CopyData(j, "storing", profiles)
  /\ UNCHANGED <<store, persisted, core_runs, flags, savers, taken_back, commands>>

save_file(j) ==
  /\ jobs[j].pc = "storing"
  /\ profiles_yaml' \in {profiles_yaml, jobs[j].copy}
  /\ permit' = NoPermit
  /\ IF jobs[j].op = "switch" THEN JobGoto(j, "unlock") ELSE JobDone(j)
  /\ UNCHANGED <<store, files, core_runs, flags, savers, taken_back, commands>>

BackgroundSave ==
  /\ savers > 0 /\ permit = NoPermit
  /\ profiles_yaml' \in {profiles_yaml, profiles}
  /\ savers' = savers - 1
  /\ UNCHANGED <<store, files, core_runs, flags, permit, jobs, taken_back, commands>>

----------------------------------------------------------------------------
(* Saving the text of a profile. *)

\* What is current, and the text to go back to, are read once.
SaveRead(j) ==
  /\ At(j, "save", "read")
  /\ IF get_item(latest_arc, jobs[j].uid)
     THEN jobs' = [jobs EXCEPT ![j].pc = "put", ![j].original = files[jobs[j].uid],
                               ![j].prev = latest_arc.current]
     ELSE JobDone(j)
  /\ UNCHANGED <<store, persisted, core_runs, flags, permit, savers, taken_back, commands>>

SavePut(j) ==
  /\ At(j, "save", "put")
  /\ files' = [files EXCEPT ![jobs[j].uid] = jobs[j].text]
  /\ JobGoto(j, "validate")
  /\ UNCHANGED <<store, profiles_yaml, core_runs, flags, permit, savers, taken_back, commands>>

profile_affects_runtime(j) == jobs[j].prev = jobs[j].uid

\* The check is of the file as it is by now, and may fail for other reasons.
handle_saved_profile_file(j) ==
  /\ At(j, "save", "validate")
  /\ \/ files[jobs[j].uid] \notin {"bad", "none"} /\ profile_affects_runtime(j) /\ JobGoto(j, "update")
     \/ files[jobs[j].uid] \notin {"bad", "none"} /\ ~profile_affects_runtime(j) /\ JobDone(j)
     \/ JobGoto(j, "restore")
  /\ UNCHANGED <<store, persisted, core_runs, flags, permit, savers, taken_back, commands>>

\* Some copy of the profiles, that of a modification included, has u.
Listed(u) ==
  \/ \E p \in {profiles, latest_arc, profiles_yaml} : get_item(p, u)
  \/ permit # NoPermit /\ get_item(jobs[permit.by].copy, u)

restore_original(j) ==
  /\ At(j, "save", "restore")
  /\ taken_back' = (taken_back \/ (jobs[j].original = "none" /\ Listed(jobs[j].uid)))
  /\ files' = [files EXCEPT ![jobs[j].uid] = jobs[j].original]
  /\ JobDone(j)
  /\ UNCHANGED <<store, profiles_yaml, core_runs, flags, permit, savers, commands>>

----------------------------------------------------------------------------
(* A configuration update (manager/config.rs). *)

Outcome(j, valid) ==
  CASE jobs[j].op = "switch" -> IF valid THEN "commit" ELSE "discard"
    [] jobs[j].op = "delete" -> IF valid THEN "record" ELSE "unlock"
    [] jobs[j].op = "save" /\ ~valid -> "restore"
    [] OTHER -> "unlock"

\* Refused while another update runs; an automatic update may be debounced.
update_config_with_force(j) ==
  /\ jobs[j].pc = "update"
  /\ \/ updating = NoOne /\ updating' = j /\ JobGoto(j, "generate")
     \/ /\ updating # NoOne \/ jobs[j].op = "update"
        /\ JobGoto(j, Outcome(j, FALSE)) /\ UNCHANGED updating
  /\ UNCHANGED <<store, persisted, core_runs, write_lock, switching, permit, savers, taken_back, commands>>

current_mapping(p) == <<p.current, IF p.current = NoOne THEN "good" ELSE files[p.current]>>

\* generate() reads the draft when there is one; a deletion passes its own
\* candidate, and its way back the committed profiles.
generate(j) ==
  /\ jobs[j].pc \in {"generate", "rollback"}
  /\ LET p == CASE jobs[j].pc = "rollback"      -> profiles
                [] At(j, "delete", "generate") -> jobs[j].copy
                [] OTHER                       -> latest_arc
     IN  jobs' = [jobs EXCEPT ![j].seen = current_mapping(p),
                              ![j].pc = IF @ = "rollback" THEN "reapply" ELSE "apply"]
  /\ UNCHANGED <<store, persisted, core_runs, flags, permit, savers, taken_back, commands>>

Acceptable(j) == jobs[j].seen[2] \notin {"bad", "none"}

\* An invalid configuration leaves the core alone; a failed application leaves
\* the old one or no core.  A deletion keeps the flag.
validate_and_apply(j) ==
  /\ jobs[j].pc = "apply"
  /\ \/ /\ Acceptable(j)
        /\ core_runs' = jobs[j].seen
        /\ JobGoto(j, Outcome(j, TRUE))
        /\ updating' = IF jobs[j].op = "delete" THEN updating ELSE NoOne
     \/ /\ JobGoto(j, Outcome(j, FALSE))
        /\ updating' = NoOne
        /\ UNCHANGED core_runs
     \/ /\ core_runs' \in {core_runs} \cup (IF Acceptable(j) THEN {<<NoOne, "none">>} ELSE {})
        /\ JobGoto(j, IF jobs[j].op = "delete" THEN "rollback" ELSE Outcome(j, FALSE))
        /\ updating' = IF jobs[j].op = "delete" THEN updating ELSE NoOne
  /\ UNCHANGED <<store, persisted, write_lock, switching, permit, savers, taken_back, commands>>

restore_profile_config(j) ==
  /\ jobs[j].pc = "reapply"
  /\ \/ Acceptable(j) /\ core_runs' = jobs[j].seen
     \/ core_runs' \in {core_runs, <<NoOne, "none">>}
  /\ updating' = NoOne
  /\ JobGoto(j, "unlock")
  /\ UNCHANGED <<store, persisted, write_lock, switching, permit, savers, taken_back, commands>>

----------------------------------------------------------------------------
(* Switching. *)

WriteLock(j) ==
  /\ jobs[j].pc = "lock" /\ write_lock = NoOne
  /\ write_lock' = j
  /\ JobGoto(j, CASE jobs[j].op = "delete"  -> "plan"
                  [] jobs[j].op = "restore" -> "extract"
                  [] OTHER                  -> "stage")
  /\ UNCHANGED <<store, persisted, core_runs, switching, updating, permit, savers, taken_back, commands>>

SwitchStage(j) ==
  /\ At(j, "switch", "stage")
  /\ profiles_draft' = patch_config(latest_arc, jobs[j].uid)
  /\ jobs' = [jobs EXCEPT ![j].pc = "update", ![j].prev = profiles.current]
  /\ UNCHANGED <<profiles, persisted, core_runs, flags, permit, savers, taken_back, commands>>

\* The switch is repeated on the committed profiles, which may have grown.
commit_current_profile(j) ==
  \/ /\ At(j, "switch", "commit")
     /\ profiles_draft' = <<>>
     /\ JobGoto(j, "current")
     /\ UNCHANGED <<profiles, persisted, core_runs, flags, permit, savers, taken_back, commands>>
  \/ /\ At(j, "switch", "current") /\ permit = NoPermit
     /\ profiles' = patch_config(profiles, jobs[j].uid)
     /\ JobGoto(j, "store")
     /\ UNCHANGED <<profiles_draft, persisted, core_runs, flags, permit, savers, taken_back, commands>>

discard_and_restore(j) ==
  /\ At(j, "switch", "discard")
  /\ profiles_draft' = <<>>
  /\ JobGoto(j, IF jobs[j].prev = NoOne THEN "unlock" ELSE "restage")
  /\ UNCHANGED <<profiles, persisted, core_runs, flags, permit, savers, taken_back, commands>>

\* Two calls: one stages a copy of the committed profiles, one applies it.
restore_previous_profile(j) ==
  \/ /\ At(j, "switch", "restage")
     /\ profiles_draft' = patch_config(latest_arc, jobs[j].prev)
     /\ JobGoto(j, "reinstate")
     /\ UNCHANGED <<profiles, persisted, core_runs, flags, permit, savers, taken_back, commands>>
  \/ /\ At(j, "switch", "reinstate")
     /\ ApplyDraft
     /\ savers' = savers + 1
     /\ JobGoto(j, "unlock")
     /\ UNCHANGED <<persisted, core_runs, flags, taken_back, commands>>

ExitSave(j) ==
  /\ At(j, "exit", "stage")
  /\ ApplyDraft
  /\ profiles_yaml' \in {profiles_yaml, latest_arc}
  /\ JobGoto(j, "unlock")
  /\ UNCHANGED <<files, core_runs, flags, savers, taken_back, commands>>

\* The last step of a command that held a lock.
Unlock(j) ==
  /\ jobs[j].pc = "unlock"
  /\ write_lock' = IF write_lock = j THEN NoOne ELSE write_lock
  /\ switching' = (switching /\ jobs[j].op # "switch")
  /\ updating' = IF updating = j THEN NoOne ELSE updating
  /\ permit' = IF permit.by = j THEN NoPermit ELSE permit
  /\ JobDone(j)
  /\ UNCHANGED <<store, persisted, core_runs, savers, taken_back, commands>>

----------------------------------------------------------------------------
(* Deleting: planned and applied on a copy, under the lock and the permit. *)

Mut_plan_delete_item(p, u) == [p EXCEPT !.items = RemoveAt(@, position(p, u))]

plan_delete_item(p, u) ==
  LET left == RemoveAt(p.items, position(p, u))
  IN  [current |-> IF p.current \notin {NoOne, u} THEN p.current
                   ELSE IF left = <<>> THEN NoOne ELSE Head(left),
       items |-> left]

DeletePlan(j) ==
  /\ At(j, "delete", "plan") /\ permit = NoPermit
  /\ IF get_item(profiles, jobs[j].uid)
     THEN CopyData(j, IF profiles.current \in {NoOne, jobs[j].uid} THEN "update" ELSE "record",
                   plan_delete_item(profiles, jobs[j].uid))
     ELSE JobGoto(j, "unlock") /\ UNCHANGED permit
  /\ UNCHANGED <<store, persisted, core_runs, flags, savers, taken_back, commands>>

\* profiles.yaml follows the core; when it cannot be written the core goes back.
DeleteRecord(j) ==
  /\ At(j, "delete", "record")
  /\ \/ profiles_yaml' = jobs[j].copy /\ JobGoto(j, "cleanup")
     \/ JobGoto(j, IF updating = j THEN "rollback" ELSE "unlock") /\ UNCHANGED profiles_yaml
  /\ UNCHANGED <<store, files, core_runs, flags, permit, savers, taken_back, commands>>

\* The files go before the commit.
DeleteCleanup(j) ==
  /\ At(j, "delete", "cleanup")
  /\ files' \in {files, [files EXCEPT ![jobs[j].uid] = "none"]}
  /\ JobGoto(j, "gone")
  /\ UNCHANGED <<store, profiles_yaml, core_runs, flags, permit, savers, taken_back, commands>>

DeleteCommit(j) ==
  /\ At(j, "delete", "gone")
  /\ CommitData(jobs[j].copy)
  /\ JobGoto(j, "unlock")
  /\ UNCHANGED <<profiles_draft, persisted, core_runs, flags, savers, taken_back, commands>>

----------------------------------------------------------------------------
(* Restoring a backup: extracted over the directory, then read. *)

\* The profiles' files come first, profiles.yaml last; what is not in the
\* archive stays.  It may break off, and a verge.yaml that cannot be read or
\* written ends it with everything replaced.
extract(j) ==
  /\ jobs[j].pc = "extract"
  /\ \/ UNCHANGED persisted /\ JobGoto(j, "unlock")
     \/ /\ files' = [files EXCEPT ![jobs[j].uid] = jobs[j].text]
        /\ \/ UNCHANGED profiles_yaml /\ JobGoto(j, "unlock")
           \/ /\ profiles_yaml' = [current |-> jobs[j].uid, items |-> <<jobs[j].uid>>]
              /\ \E pc \in {"unlock", "reload"} : JobGoto(j, pc)
  /\ UNCHANGED <<store, core_runs, flags, permit, savers, taken_back, commands>>

finalize_restored_verge_config(j) ==
  \/ /\ jobs[j].pc = "reload"
     /\ profiles_draft' \in ReadProfiles /\ JobGoto(j, "take")
     /\ UNCHANGED <<profiles, persisted, core_runs, flags, permit, savers, taken_back, commands>>
  \/ /\ jobs[j].pc = "take"
     /\ ApplyDraft /\ JobGoto(j, "update")
     /\ UNCHANGED <<persisted, core_runs, flags, savers, taken_back, commands>>

----------------------------------------------------------------------------
\* The process dies anywhere; the next start loads what was saved, if it can be read,
\* and runs it.
ProfilesRestart ==
  /\ commands < MaxCommands
  /\ commands' = commands + 1
  /\ profiles' \in ReadProfiles /\ profiles_draft' = <<>>
  /\ core_runs' = IF current_mapping(profiles')[2] \in {"bad", "none"}
                  THEN <<NoOne, "none">> ELSE current_mapping(profiles')
  /\ write_lock' = NoOne /\ permit' = NoPermit /\ switching' = FALSE /\ updating' = NoOne
  /\ jobs' = [j \in Jobs |-> NoJob] /\ savers' = 0
  /\ UNCHANGED <<persisted, taken_back>>

ProfilesStart(j) ==
  \/ import_profile(j) \/ update_profile(j) \/ save_profile_file(j) \/ delete_profile(j)
  \/ reorder_profile(j) \/ enhance_profiles(j) \/ patch_profiles_config(j)
  \/ apply_all_and_save_file(j) \/ restore_local_backup(j)

ProfilesStep(j) ==
  \/ from_url(j) \/ profiles_append_item_safe(j) \/ AppendWrite(j) \/ should_update_profile(j) \/ Edit(j)
  \/ update_item(j) \/ SaveCopy(j) \/ save_file(j)
  \/ SaveRead(j) \/ SavePut(j) \/ handle_saved_profile_file(j) \/ restore_original(j)
  \/ update_config_with_force(j) \/ generate(j) \/ validate_and_apply(j)
  \/ restore_profile_config(j)
  \/ WriteLock(j) \/ SwitchStage(j) \/ commit_current_profile(j) \/ discard_and_restore(j)
  \/ restore_previous_profile(j) \/ ExitSave(j) \/ Unlock(j)
  \/ DeletePlan(j) \/ DeleteRecord(j) \/ DeleteCleanup(j) \/ DeleteCommit(j)
  \/ extract(j) \/ finalize_restored_verge_config(j)

ProfilesNext ==
  \/ \E j \in Jobs : ProfilesStart(j) \/ ProfilesStep(j)
  \/ BackgroundSave \/ ProfilesRestart

ProfilesSpec == ProfilesInit /\ [][ProfilesNext]_profVars

----------------------------------------------------------------------------
(* Properties *)

Sound(p) ==
  /\ p.current = NoOne <=> p.items = <<>>
  /\ p.current # NoOne => get_item(p, p.current)
  /\ IsInjective(p.items)
  /\ \A u \in Uids : get_item(p, u) => files[u] # "none"

(* Committed and on disk alike, the current profile exists, there is one   *)
(* unless there are no profiles, and every profile has its file: whatever  *)
(* races a deletion, which removes files before it commits, or restores a  *)
(* backup, and wherever the process dies.  Only a save that found its file *)
(* deleted, and takes back one that was restored since, is not covered.    *)
ProfilesAgree ==
  taken_back \/
  /\ Sound(profiles_yaml)
  /\ (\A j \in Jobs : ~At(j, "delete", "gone")) => Sound(profiles)

NobodyWorks == savers = 0 /\ \A j \in Jobs : jobs[j] = NoJob

\* A command waits at the write lock, or for the permit of the store.
Waits(j) ==
  \/ jobs[j].pc = "lock" /\ write_lock # NoOne
  \/ jobs[j].pc \in {"append", "edit", "store", "plan", "current"} /\ permit # NoPermit

\* Nobody works and everything is free; or a save in the background can take
\* the permit; or some command does not wait.
SomebodyGoesOn ==
  \/ NobodyWorks /\ <<write_lock, permit, switching, updating>> = <<NoOne, NoPermit, FALSE, NoOne>>
  \/ savers > 0 /\ permit = NoPermit
  \/ \E j \in Jobs : jobs[j] # NoJob /\ ~Waits(j)

(* The write lock, the store's permit and the update flag never make the   *)
(* commands wait for each other, no exit of a command keeps one, and a     *)
(* command that does not wait for them has a step to take.                 *)
CommandsGoOn ==
  /\ SomebodyGoesOn
  /\ \A j \in Jobs : jobs[j] # NoJob /\ ~Waits(j) => ENABLED ProfilesStep(j)

=============================================================================
