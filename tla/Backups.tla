------------------------------ MODULE Backups -------------------------------
(***************************************************************************)
(* Local backups (module/auto_backup.rs, feat/backup.rs, core/backup.rs):  *)
(* the automatic ones, by the schedule's runner and after a save of a      *)
(* global script or merge, and those the user asks for.                    *)
(*                                                                         *)
(* An archive is packed in a temporary file named by the second it was     *)
(* begun in, and moved to the backup directory under a name of its own.    *)
(***************************************************************************)
EXTENDS Integers, Sequences, FiniteSets

CONSTANTS
  Savers,                   \* tasks of trigger_backup
  MIN_BACKUP_INTERVAL_SECS,
  AUTO_BACKUP_KEEP,
  MaxTime,                  \* bound on the clock
  MaxSettings,              \* bound on the settings' changes
  MaxBackups                \* bound on the backups that are asked for

VARIABLES
  clock,           \* Local::now(), in seconds
  backupSettings,  \* settings: whether the schedule runs and changes trigger a backup
  watched,         \* the value in settings_tx's channel
  runner,          \* run_scheduler: its step, its copy of the settings, an unseen change
  exec_lock,
  last_backup,     \* 0 before the first
  backup,          \* each task's step, and the second its archive is named by
  temporary,       \* the archives that are being packed
  archives,        \* the backup directory: second and whether made automatically
  changed,         \* changes of the settings so far
  asked,           \* backups asked for so far
  autoBackups      \* the automatic backups that succeeded: begun and recorded when

backupVars == <<clock, backupSettings, watched, runner, exec_lock, last_backup, backup, temporary,
                archives, changed, asked, autoBackups>>
scheduling == <<backupSettings, watched, runner, changed>>
directories == <<temporary, archives>>

NoTask == "none"
Scheduled == "scheduled"
BackupTasks == Savers \cup {Scheduled, "user"}

ASSUME BackupsAssumption ==
  /\ Savers \cap {NoTask, Scheduled, "user"} = {} /\ MIN_BACKUP_INTERVAL_SECS \in Nat

Automatic(t) == t \in Savers \cup {Scheduled}
NotBacking == [pc |-> "idle", at |-> 0]
DefaultSettings == [schedule |-> FALSE, change |-> TRUE]

BackupInit ==
  /\ clock = 1 /\ last_backup = 0 /\ exec_lock = NoTask
  /\ backupSettings \in [schedule : BOOLEAN, change : BOOLEAN]
  /\ watched = DefaultSettings
  /\ runner = [pc |-> IF backupSettings.schedule THEN "waits" ELSE "absent", current |-> DefaultSettings, news |-> FALSE]
  /\ backup = [t \in BackupTasks |-> NotBacking]
  /\ temporary = {} /\ archives = {} /\ changed = 0 /\ asked = 0 /\ autoBackups = <<>>

Packs(t, pc) == backup[t].pc = pc
Onwards(t, pc) == backup' = [backup EXCEPT ![t].pc = pc]

-----------------------------------------------------------------------------
(* Settings and schedule                                                     *)

\* A value sent while nobody subscribes is lost; the runner subscribes after.
refresh_settings ==
  /\ changed < MaxSettings /\ changed' = changed + 1
  /\ \E settings \in [schedule : BOOLEAN, change : BOOLEAN] :
       /\ backupSettings' = settings
       /\ IF runner.pc = "absent"
          THEN /\ runner' = [runner EXCEPT !.pc = IF settings.schedule THEN "waits" ELSE "absent", !.current = watched]
               /\ UNCHANGED watched
          ELSE watched' = settings /\ runner' = [runner EXCEPT !.news = TRUE]
  /\ UNCHANGED <<clock, asked, exec_lock, last_backup, backup, directories, autoBackups>>

\* It waits for a change, or sleeps for the interval of the settings it knows.
RunnerAt(step) == runner.pc = "waits" /\ (step = "sleep" <=> runner.current.schedule)

SettingsSeen ==
  /\ RunnerAt("sleep") \/ RunnerAt("change")
  /\ runner.news /\ runner' = [runner EXCEPT !.current = watched, !.news = FALSE]
  /\ UNCHANGED <<clock, asked, backupSettings, watched, changed, exec_lock, last_backup, backup, directories, autoBackups>>

SleepOver ==
  /\ asked < MaxBackups /\ asked' = asked + 1
  /\ RunnerAt("sleep") /\ runner' = [runner EXCEPT !.pc = "runs"] /\ Onwards(Scheduled, "asked")
  /\ UNCHANGED <<clock, backupSettings, watched, changed, exec_lock, last_backup, directories, autoBackups>>

ClockTicks ==
  /\ clock < MaxTime /\ clock' = clock + 1
  /\ UNCHANGED <<asked, scheduling, exec_lock, last_backup, backup, directories, autoBackups>>

-----------------------------------------------------------------------------
(* A backup                                                                  *)

trigger_backup(t) ==
  /\ t # Scheduled /\ asked < MaxBackups /\ asked' = asked + 1
  /\ Packs(t, "idle") /\ Onwards(t, IF t \in Savers THEN "asked" ELSE "create")
  /\ UNCHANGED <<clock, scheduling, exec_lock, last_backup, directories, autoBackups>>

\* The runner goes back to its sleep.
Over(t) ==
  /\ backup' = [backup EXCEPT ![t] = NotBacking]
  /\ exec_lock' = IF exec_lock = t THEN NoTask ELSE exec_lock
  /\ runner' = IF t = Scheduled THEN [runner EXCEPT !.pc = "waits"] ELSE runner
  /\ UNCHANGED <<backupSettings, watched, changed>>

should_run_now == last_backup = 0 \/ clock - last_backup >= MIN_BACKUP_INTERVAL_SECS

execute_trigger(t) ==
  /\ Packs(t, "asked")
  /\ IF (IF t = Scheduled THEN backupSettings.schedule ELSE backupSettings.change) /\ should_run_now
     THEN Onwards(t, "lock") /\ UNCHANGED <<scheduling, exec_lock>>
     ELSE Over(t)
  /\ UNCHANGED <<clock, asked, last_backup, directories, autoBackups>>

Mut_LockedTrigger(t) ==
  /\ Packs(t, "lock") /\ exec_lock = NoTask
  /\ Onwards(t, "create") /\ exec_lock' = t /\ UNCHANGED scheduling
  /\ UNCHANGED <<clock, asked, last_backup, directories, autoBackups>>

\* Whoever held the lock may have made the backup.
LockedTrigger(t) ==
  /\ Packs(t, "lock") /\ exec_lock = NoTask
  /\ IF should_run_now
     THEN Onwards(t, "create") /\ exec_lock' = t /\ UNCHANGED scheduling
     ELSE Over(t)
  /\ UNCHANGED <<clock, asked, last_backup, directories, autoBackups>>

\* The file is created, or emptied under whoever packs in the same second.
create_backup(t) ==
  /\ Packs(t, "create")
  /\ \/ /\ temporary' = temporary \cup {clock} /\ backup' = [backup EXCEPT ![t] = [pc |-> "pack", at |-> clock]]
        /\ UNCHANGED <<scheduling, exec_lock>>
     \/ Over(t) /\ UNCHANGED temporary
  /\ UNCHANGED <<clock, asked, last_backup, archives, autoBackups>>

\* A file that cannot be read ends it, and leaves the temporary file.
Packed(t) ==
  /\ Packs(t, "pack")
  /\ \/ Onwards(t, "move") /\ UNCHANGED <<scheduling, exec_lock>>
     \/ Over(t)
  /\ UNCHANGED <<clock, asked, last_backup, directories, autoBackups>>

create_backup_and_upload_webdav(t) ==
  /\ t = "user" /\ Packs(t, "move")
  /\ \E left \in {temporary, temporary \ {backup[t].at}} : temporary' = left
  /\ Over(t)
  /\ UNCHANGED <<clock, asked, last_backup, archives, autoBackups>>

\* It is renamed, or copied and removed.  Whoever shared it may be left without
\* one; a copy whose source cannot be removed stays, and the backup has failed.
move_file(t) ==
  /\ Packs(t, "move") /\ temporary' = temporary \ {backup[t].at}
  /\ LET moved == archives \cup {[at |-> backup[t].at, auto |-> Automatic(t)]}
     IN \/ /\ backup[t].at \in temporary /\ archives' = moved
           /\ Onwards(t, "moved") /\ UNCHANGED <<scheduling, exec_lock>>
        \/ /\ archives' \in {archives} \cup (IF backup[t].at \in temporary THEN {moved} ELSE {})
           /\ Over(t)
  /\ UNCHANGED <<clock, asked, last_backup, autoBackups>>

create_local_backup(t) ==
  /\ t = "user" /\ Packs(t, "moved") /\ Over(t)
  /\ UNCHANGED <<clock, asked, last_backup, directories, autoBackups>>

RecordBackup(t) ==
  /\ Automatic(t) /\ Packs(t, "moved") /\ Onwards(t, "clean")
  /\ last_backup' = clock
  /\ autoBackups' = Append(autoBackups, [begun |-> backup[t].at, recorded |-> clock])
  /\ UNCHANGED <<clock, asked, scheduling, exec_lock, directories>>

\* The oldest automatic ones go, as far as they can be removed.
cleanup_auto_backups(t) ==
  /\ Packs(t, "clean") /\ Over(t)
  /\ LET autos == {a \in archives : a.auto}
         Older(a) == {b \in autos : b.at < a.at}
         surplus == {a \in autos : Cardinality(Older(a)) < Cardinality(autos) - AUTO_BACKUP_KEEP}
     IN archives' \in {archives \ gone : gone \in {g \in SUBSET surplus : Cardinality(g) <= Cardinality(autos) - AUTO_BACKUP_KEEP}}
  /\ UNCHANGED <<clock, asked, last_backup, temporary, autoBackups>>

delete_local_backup ==
  /\ \E a \in archives : archives' = archives \ {a}
  /\ UNCHANGED <<clock, asked, scheduling, exec_lock, last_backup, backup, temporary, autoBackups>>

BackupNext ==
  \/ refresh_settings \/ SettingsSeen \/ SleepOver \/ ClockTicks \/ delete_local_backup
  \/ \E t \in BackupTasks :
       \/ trigger_backup(t) \/ execute_trigger(t) \/ LockedTrigger(t) \/ create_backup(t) \/ Packed(t)
       \/ create_backup_and_upload_webdav(t) \/ move_file(t) \/ create_local_backup(t)
       \/ RecordBackup(t) \/ cleanup_auto_backups(t)

BackupSpec == BackupInit /\ [][BackupNext]_backupVars

-----------------------------------------------------------------------------
\* An automatic backup is never begun within the minimum interval after one was
\* recorded, however the schedule, saves of several global files and backups of
\* the user overlap, fail or share a second (should_run_now on both sides of exec_lock).
BackupsSpaced ==
  \A i \in 1 .. Len(autoBackups) - 1 : autoBackups[i + 1].begun - autoBackups[i].recorded >= MIN_BACKUP_INTERVAL_SECS
=============================================================================
