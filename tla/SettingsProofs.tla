--------------------------- MODULE SettingsProofs ---------------------------
(***************************************************************************)
(* For any patches, by any number of tasks, beside any reconciliations and *)
(* any updates and starts by others: with none under way, the effects are  *)
(* those of the committed settings.                                        *)
(***************************************************************************)
EXTENDS Settings, TLAPS

SetPc == {"idle", "lock", "apply", "restart", "check", "reconcile", "clear"}
TunOff == [s \in {"tun"} |-> FALSE]
Patch == Patches \cup {<<>>, TunOff}
Record == [pc : SetPc, patch : Patch, left : SUBSET Flags, internal : BOOLEAN]
Tasks == [SetTasks -> Record]

Conf == [CoreSetting -> BOOLEAN]

SetType ==
  /\ setTask \in Tasks
  /\ stored \in [Setting -> BOOLEAN] /\ shown \in [Setting -> BOOLEAN]
  /\ runtime \in [data : Conf, draft : Conf, staged : BOOLEAN]
  /\ update \in [on : BOOLEAN, told : Conf, crossed : BOOLEAN]

\* Whoever has effects and commits them holds CONFIG_WRITE_LOCK.
OneWriter == \A t \in SetTasks : setTask[t].pc \in {"apply", "restart", "clear"} <=> writeLock = t

\* The flags still to come are the patch's; a restart is one of them until it is over.
FlagsLeft ==
  \A t \in SetTasks :
    /\ Applying(t) => setTask[t].left \subseteq determine_update_flags(setTask[t].patch)
    /\ setTask[t].pc = "restart" => "RESTART_CORE" \in setTask[t].left

\* The settings that effects of t have shown so far.
Told(t) == UNION {Affected(flag) : flag \in determine_update_flags(setTask[t].patch) \ setTask[t].left}

\* Those of the patch under way; and those the Runtime Configuration has to hold.
ToldNow == IF Writing THEN Told(writeLock) ELSE {}
OwedNow == ToldNow \cup (IF Writing /\ setTask[writeLock].pc = "restart" THEN CoreSetting ELSE {})

\* A value that s may have: the staged one or, until it has been told, the old one.
Fits(v, s, told) == v = latest_settings[s] \/ (s \notin told /\ v = stored[s])

\* What was shown, and what the next update or start is going to show, fits.
ShownFits == \A s \in Setting \ inDoubt : Fits(shown[s], s, ToldNow)
HeldFits ==
  \A s \in CoreSetting \ inDoubt : Fits(IF update.on THEN runtime.data[s] ELSE latest_runtime[s], s, OwedNow)

\* So does what an update tells, unless a patch crossed it; the draft is the same.
UpdateFits ==
  update.on /\ ~update.crossed =>
    \A s \in CoreSetting : runtime.draft[s] = update.told[s] /\ Fits(update.told[s], s, OwedNow)
CrossedDoubt == update.on /\ update.crossed => CoreSetting \subseteq inDoubt

\* A restart that finds a draft finds the one its patch has generated.
DraftIsMine ==
  \A t \in SetTasks :
    setTask[t].pc = "restart" /\ runtime.staged => \A s \in CoreSetting : runtime.draft[s] = latest_settings[s]

Right == ShownFits /\ HeldFits /\ UpdateFits /\ CrossedDoubt /\ DraftIsMine

SetInv == SetType /\ OneWriter /\ FlagsLeft /\ Right

-----------------------------------------------------------------------------
\* A setting that a patch changes is among those its effects show.
LEMMA PatchShown ==
  ASSUME NEW patch, NEW s \in Setting, s \notin AffectedBy(patch)
  PROVE  Patched(patch)[s] = stored[s]
<1>1. FlagOf[s] \in Flags /\ s \in Affected(FlagOf[s])
  BY DEF Setting, FlagOf, Flags, Affected, CoreSetting
<1>2. s \notin DOMAIN patch
  BY <1>1 DEF AffectedBy, determine_update_flags
<1> QED
  BY <1>2 DEF Patched

\* Effects on the core show all of its settings, or none.
LEMMA CoreTogether ==
  ASSUME NEW patch, NEW s \in CoreSetting, s \in AffectedBy(patch)
  PROVE  CoreSetting \subseteq AffectedBy(patch)
BY DEF AffectedBy, Affected, CoreSetting

\* Settings stay settings when a patch is laid over them.
LEMMA PatchedType ==
  ASSUME SetType, NEW patch \in Patch
  PROVE  Patched(patch) \in [Setting -> BOOLEAN]
<1> SUFFICES ASSUME NEW s \in Setting, s \in DOMAIN patch PROVE patch[s] \in BOOLEAN
  BY DEF Patched, SetType
<1>1. CASE patch \in Patches
  BY <1>1, PatchesAssumption
<1>2. CASE patch = <<>>
  BY <1>2 DEF Setting
<1>3. CASE patch = TunOff
  BY <1>3 DEF TunOff
<1> QED
  BY <1>1, <1>2, <1>3 DEF Patch

LEMMA LatestType ==
  ASSUME SetType
  PROVE  latest_settings \in [Setting -> BOOLEAN] /\ CoreOf(latest_settings) \in Conf /\ latest_runtime \in Conf
<1>1. latest_settings \in [Setting -> BOOLEAN]
  <2>1. CASE Writing
    <3>1. setTask[writeLock].patch \in Patch
      BY <2>1 DEF Writing, SetType, Tasks, Record
    <3> QED
      BY <2>1, <3>1, PatchedType DEF latest_settings
  <2>2. CASE ~Writing
    BY <2>2 DEF latest_settings, SetType
  <2> QED
    BY <2>1, <2>2
<1>2. latest_runtime \in Conf
  BY DEF latest_runtime, SetType
<1> QED
  BY <1>1, <1>2 DEF CoreOf, Conf, CoreSetting, Setting

\* The writer is the one that applies, and its patch the staged one.
LEMMA Writer ==
  ASSUME OneWriter, NEW t \in SetTasks, Applying(t)
  PROVE  /\ writeLock = t /\ Writing /\ latest_settings = Patched(setTask[t].patch)
         /\ ToldNow = Told(t)
         /\ OwedNow = Told(t) \cup (IF setTask[t].pc = "restart" THEN CoreSetting ELSE {})
         /\ \A u \in SetTasks \ {t} : setTask[u].pc \notin {"apply", "restart", "clear"}
<1>1. writeLock = t /\ \A u \in SetTasks \ {t} : setTask[u].pc \notin {"apply", "restart", "clear"}
  BY DEF OneWriter, Applying
<1> QED
  BY <1>1 DEF Writing, latest_settings, ToldNow, OwedNow

LEMMA NoWriter ==
  ASSUME \A t \in SetTasks : ~Applying(t)
  PROVE  ~Writing /\ latest_settings = stored /\ ToldNow = {} /\ OwedNow = {}
BY DEF Writing, latest_settings, ToldNow, OwedNow

\* A free lock means that nobody applies.
LEMMA FreeRests ==
  ASSUME SetInv, writeLock = "free"
  PROVE  /\ \A t \in SetTasks : setTask[t].pc \notin {"apply", "restart", "clear"}
         /\ \A s \in Setting \ inDoubt : shown[s] = stored[s]
<1>1. \A t \in SetTasks : setTask[t].pc \notin {"apply", "restart", "clear"}
  BY SettingsAssumption DEF SetInv, OneWriter
<1>2. ~Writing /\ latest_settings = stored
  BY <1>1, NoWriter DEF Applying
<1> QED
  BY <1>1, <1>2 DEF SetInv, Right, ShownFits, Fits

\* It holds before anything was patched.
LEMMA SetStart == SetInit => SetInv
<1> SUFFICES ASSUME SetInit PROVE SetInv
  OBVIOUS
<1>1. SetType
  <2>1. setTask \in Tasks
    BY DEF SetInit, Tasks, Record, NoPatch, SetPc, Patch
  <2>2. stored \in [Setting -> BOOLEAN] /\ shown \in [Setting -> BOOLEAN]
    BY DEF SetInit, AllOff
  <2>3. /\ runtime \in [data : Conf, draft : Conf, staged : BOOLEAN]
        /\ update \in [on : BOOLEAN, told : Conf, crossed : BOOLEAN]
    BY DEF SetInit, NoneOn, Conf, NoUpdate
  <2> QED
    BY <2>1, <2>2, <2>3 DEF SetType
<1>2. \A t \in SetTasks : setTask[t].pc = "idle"
  BY DEF SetInit, NoPatch
<1>3. OneWriter /\ FlagsLeft
  BY <1>2, SettingsAssumption DEF SetInit, OneWriter, FlagsLeft, Applying
<1>4. latest_settings = stored
  BY <1>2, NoWriter DEF Applying
<1>5. Right
  BY <1>2, <1>4 DEF SetInit, Right, ShownFits, HeldFits, UpdateFits, CrossedDoubt, DraftIsMine, Fits,
     latest_runtime, NoUpdate, AllOff, NoneOn, Setting, CoreSetting
<1> QED
  BY <1>1, <1>3, <1>5 DEF SetInv

-----------------------------------------------------------------------------
(* The tasks                                                                 *)

\* A task's step of its own: its new record, the others' kept.
LEMMA TaskMoves ==
  ASSUME SetType, NEW t \in SetTasks, NEW next \in Record, setTask' = [setTask EXCEPT ![t] = next]
  PROVE  setTask' \in Tasks /\ setTask'[t] = next /\ \A u \in SetTasks \ {t} : setTask'[u] = setTask[u]
BY DEF SetType, Tasks

\* A task's move to another step keeps its patch.
LEMMA StepMoves ==
  ASSUME SetType, NEW t \in SetTasks, NEW pc \in SetPc, Steps(t, pc)
  PROVE  /\ setTask' \in Tasks /\ setTask'[t].pc = pc
         /\ setTask'[t].patch = setTask[t].patch /\ setTask'[t].left = setTask[t].left
         /\ \A u \in SetTasks \ {t} : setTask'[u] = setTask[u]
BY DEF SetType, Tasks, Record, Steps

\* Giving the lock back, it forgets its patch.
LEMMA ReleaseMoves ==
  ASSUME SetType, NEW t \in SetTasks, NEW pc \in SetPc, Released(t, pc)
  PROVE  /\ setTask' \in Tasks /\ setTask'[t].pc = pc /\ writeLock' = "free"
         /\ \A u \in SetTasks \ {t} : setTask'[u] = setTask[u]
<1> DEFINE next == [NoPatch EXCEPT !.pc = pc]
<1>1. next \in Record /\ next.pc = pc
  BY DEF NoPatch, Record, Patch
<1>2. setTask' = [setTask EXCEPT ![t] = next] /\ writeLock' = "free"
  BY DEF Released
<1> HIDE DEF next
<1> QED
  BY <1>1, <1>2, TaskMoves

\* Where the same task applies the same patch as far as before, values fit as before.
LEMMA SameFits ==
  ASSUME Right, UNCHANGED storeVars,
         latest_settings' = latest_settings, ToldNow' = ToldNow, OwedNow' = OwedNow,
         \A t \in SetTasks : setTask'[t].pc = "restart" => setTask[t].pc = "restart"
  PROVE  Right'
<1>1. ShownFits' /\ UpdateFits' /\ CrossedDoubt'
  BY DEF Right, ShownFits, UpdateFits, CrossedDoubt, Fits, storeVars
<1>2. HeldFits' /\ DraftIsMine'
  BY DEF Right, HeldFits, DraftIsMine, Fits, latest_runtime, storeVars
<1> QED
  BY <1>1, <1>2 DEF Right

\* Steps that neither begin nor end an application and have no effect.
LEMMA AsideKeeps ==
  ASSUME SetInv, NEW t \in SetTasks, ~Applying(t),
         setTask' \in Tasks, setTask'[t].pc \notin {"apply", "restart"},
         \A u \in SetTasks \ {t} : setTask'[u] = setTask[u],
         UNCHANGED storeVars, OneWriter'
  PROVE  SetInv'
<1>1. SetType'
  BY DEF SetInv, SetType, storeVars
<1>2. FlagsLeft'
  BY DEF SetInv, FlagsLeft, Applying, determine_update_flags
<1>3. latest_settings' = latest_settings /\ ToldNow' = ToldNow /\ OwedNow' = OwedNow
  <2>1. CASE \E u \in SetTasks : Applying(u)
    <3> PICK u \in SetTasks : Applying(u)
      BY <2>1
    <3>1. setTask'[u] = setTask[u] /\ writeLock = u /\ writeLock' = u
      BY DEF SetInv, OneWriter, Applying
    <3> QED
      BY <3>1 DEF latest_settings, Writing, Applying, ToldNow, OwedNow, Told, Patched, determine_update_flags, storeVars
  <2>2. CASE \A u \in SetTasks : ~Applying(u)
    <3>1. ~Writing /\ ~Writing'
      BY <2>2 DEF Writing, Applying
    <3> QED
      BY <3>1 DEF latest_settings, ToldNow, OwedNow, storeVars
  <2> QED
    BY <2>1, <2>2
<1>4. Right'
  BY <1>3, SameFits DEF SetInv
<1> QED
  BY <1>1, <1>2, <1>4 DEF SetInv

\* An application begins, under the lock, with all its effects to come.
LEMMA BeginKeeps ==
  ASSUME SetInv, NEW t \in SetTasks, writeLock = "free", writeLock' = t,
         setTask' \in Tasks, setTask'[t].pc = "apply",
         setTask'[t].left = determine_update_flags(setTask'[t].patch),
         \A u \in SetTasks \ {t} : setTask'[u] = setTask[u],
         UNCHANGED storeVars
  PROVE  SetInv'
<1>1. \A u \in SetTasks : setTask[u].pc \notin {"apply", "restart", "clear"}
  BY FreeRests
<1>2. latest_settings = stored
  BY <1>1, NoWriter DEF Applying
<1>3. SetType' /\ OneWriter' /\ FlagsLeft'
  BY <1>1 DEF SetInv, SetType, OneWriter, FlagsLeft, Applying, storeVars, determine_update_flags
<1>4. ToldNow' = {} /\ OwedNow' = {}
  BY DEF ToldNow, OwedNow, Told, determine_update_flags, Writing, Applying
<1>5. ShownFits' /\ UpdateFits' /\ CrossedDoubt'
  BY <1>2, <1>4 DEF SetInv, Right, ShownFits, UpdateFits, CrossedDoubt, Fits, storeVars
<1>6. HeldFits' /\ DraftIsMine'
  BY <1>1, <1>2, <1>4 DEF SetInv, Right, HeldFits, DraftIsMine, Fits, latest_runtime, storeVars
<1> QED
  BY <1>3, <1>5, <1>6 DEF SetInv, Right

\* The end of an application: all that fitted is now the committed settings, but
\* for what is in doubt.
LEMMA EndKeeps ==
  ASSUME SetInv, NEW t \in SetTasks, Applying(t),
         \/ Steps(t, "clear") /\ UNCHANGED writeLock
         \/ Released(t, "idle") \/ Released(t, "check"),
         Right',
         stored' \in [Setting -> BOOLEAN], shown' \in [Setting -> BOOLEAN],
         runtime' \in [data : Conf, draft : Conf, staged : BOOLEAN],
         update' \in [on : BOOLEAN, told : Conf, crossed : BOOLEAN]
  PROVE  SetInv'
<1>1. /\ setTask' \in Tasks
      /\ \A u \in SetTasks \ {t} : setTask'[u] = setTask[u]
      /\ \/ setTask'[t].pc = "clear" /\ writeLock' = writeLock
         \/ setTask'[t].pc \in {"idle", "check"} /\ writeLock' = "free"
  BY StepMoves, ReleaseMoves, {"clear", "idle", "check"} \subseteq SetPc DEF SetPc, SetInv
<1>2. writeLock = t /\ \A u \in SetTasks \ {t} : setTask[u].pc \notin {"apply", "restart", "clear"}
  BY Writer DEF SetInv
<1>3. SetType'
  BY <1>1 DEF SetType
<1>4. OneWriter' /\ FlagsLeft'
  BY <1>1, <1>2, SettingsAssumption DEF OneWriter, FlagsLeft, Applying
<1> QED
  BY <1>3, <1>4 DEF SetInv

\* After it nobody applies.
LEMMA EndRests ==
  ASSUME SetInv, NEW t \in SetTasks, Applying(t),
         \/ Steps(t, "clear") /\ UNCHANGED writeLock
         \/ Released(t, "idle") \/ Released(t, "check")
  PROVE  /\ latest_settings' = stored' /\ ToldNow' = {} /\ OwedNow' = {}
         /\ \A u \in SetTasks : setTask'[u].pc # "restart"
<1>1. \A u \in SetTasks : setTask'[u].pc \notin {"apply", "restart"}
  <2>1. setTask'[t].pc \in {"clear", "idle", "check"} /\ \A u \in SetTasks \ {t} : setTask'[u] = setTask[u]
    BY StepMoves, ReleaseMoves, {"clear", "idle", "check"} \subseteq SetPc DEF SetPc, SetInv
  <2> QED
    BY <2>1, Writer DEF SetInv
<1>2. ~Writing'
  BY <1>1 DEF Writing, Applying
<1> QED
  BY <1>1, <1>2 DEF latest_settings, ToldNow, OwedNow

-----------------------------------------------------------------------------
(* The effects                                                               *)

\* What CoreRuns leaves shown: conf, but for a setting in doubt.
LEMMA RunsConf ==
  ASSUME SetType, NEW conf \in Conf, NEW known, CoreRuns(conf, known)
  PROVE  /\ shown' \in [Setting -> BOOLEAN] /\ inDoubt \ known \subseteq inDoubt'
         /\ shown'["launch"] = shown["launch"]
         /\ \A s \in CoreSetting \ inDoubt' : shown'[s] = conf[s]
<1>1. CASE shown' = With(conf) /\ inDoubt' = inDoubt \ known
  BY <1>1 DEF SetType, Conf, With, Setting, CoreSetting
<1>2. CASE /\ shown' = With([conf EXCEPT !["tun"] = FALSE])
           /\ inDoubt' = (inDoubt \ known) \cup {"tun"}
  BY <1>2 DEF SetType, Conf, With, Setting, CoreSetting
<1> QED
  BY <1>1, <1>2 DEF CoreRuns

\* The task that has had an effect goes on with its other flags.
LEMMA DidMoves ==
  ASSUME SetInv, NEW t \in SetTasks, Applying(t), NEW flag \in setTask[t].left, Did(t, flag),
         stored' = stored, writeLock' = writeLock
  PROVE  /\ setTask' \in Tasks /\ OneWriter' /\ FlagsLeft'
         /\ setTask'[t].pc = "apply" /\ \A u \in SetTasks : setTask'[u].pc # "restart"
         /\ latest_settings' = latest_settings
         /\ ToldNow' = ToldNow \cup Affected(flag) /\ OwedNow' = ToldNow'
<1> DEFINE next == [setTask[t] EXCEPT !.pc = "apply", !.left = @ \ {flag}]
<1>1. next \in Record /\ next.pc = "apply" /\ next.patch = setTask[t].patch /\ next.left = setTask[t].left \ {flag}
  BY DEF SetInv, SetType, Tasks, Record, SetPc
<1>2. setTask' = [setTask EXCEPT ![t] = next]
  BY DEF Did, SetInv, SetType, Tasks, Record
<1> HIDE DEF next
<1>3. setTask' \in Tasks /\ setTask'[t] = next /\ \A u \in SetTasks \ {t} : setTask'[u] = setTask[u]
  BY <1>1, <1>2, TaskMoves DEF SetInv
<1>4. writeLock = t /\ ToldNow = Told(t) /\ latest_settings = Patched(setTask[t].patch)
      /\ \A u \in SetTasks \ {t} : setTask[u].pc \notin {"apply", "restart", "clear"}
  BY Writer DEF SetInv
<1>5. OneWriter' /\ FlagsLeft'
  BY <1>1, <1>3, <1>4 DEF SetInv, OneWriter, FlagsLeft, Applying, determine_update_flags
<1>6. Writing' /\ latest_settings' = latest_settings
  BY <1>1, <1>3, <1>4 DEF Writing, Applying, latest_settings, Patched
<1>7. flag \in determine_update_flags(setTask[t].patch)
  BY DEF SetInv, FlagsLeft
<1>8. Told(t)' = Told(t) \cup Affected(flag)
  BY <1>1, <1>3, <1>7 DEF Told, determine_update_flags
<1> QED
  BY <1>1, <1>3, <1>4, <1>5, <1>6, <1>8 DEF ToldNow, OwedNow, Applying

\* The staged settings are in the draft, for the restart to find.
LEMMA GenerateKeeps ==
  ASSUME SetInv, NEW t \in SetTasks, GeneratesFor(t)
  PROVE  SetInv'
<1>1. setTask[t].pc = "apply" /\ "RESTART_CORE" \in setTask[t].left /\ generate
      /\ UNCHANGED <<stored, shown, writeLock>>
  BY DEF GeneratesFor, IsNext
<1>2. /\ setTask' \in Tasks /\ setTask'[t].pc = "restart"
      /\ setTask'[t].patch = setTask[t].patch /\ setTask'[t].left = setTask[t].left
      /\ \A u \in SetTasks \ {t} : setTask'[u] = setTask[u]
  BY StepMoves, "restart" \in SetPc DEF GeneratesFor, SetPc, SetInv
<1>3. writeLock = t /\ ToldNow = Told(t) /\ latest_settings = Patched(setTask[t].patch)
      /\ \A u \in SetTasks \ {t} : setTask[u].pc \notin {"apply", "restart", "clear"}
  BY <1>1, Writer DEF SetInv, Applying
<1>4. /\ runtime' = [runtime EXCEPT !.draft = CoreOf(latest_settings), !.staged = TRUE]
      /\ update' = [update EXCEPT !.crossed = update.on]
      /\ inDoubt' = IF update.on THEN inDoubt \cup CoreSetting ELSE inDoubt
  BY <1>1 DEF generate
<1>5. SetType'
  BY <1>1, <1>2, <1>4, LatestType DEF SetInv, SetType
<1>6. OneWriter' /\ FlagsLeft'
  BY <1>1, <1>2, <1>3 DEF SetInv, OneWriter, FlagsLeft, Applying, determine_update_flags
<1>7. Writing' /\ latest_settings' = latest_settings /\ ToldNow' = ToldNow
  <2>1. Writing'
    BY <1>1, <1>2, <1>3 DEF Writing, Applying
  <2>2. latest_settings' = latest_settings
    BY <1>1, <1>2, <1>3, <2>1 DEF latest_settings, Patched
  <2>3. Told(t)' = Told(t)
    BY <1>2 DEF Told, determine_update_flags
  <2> QED
    BY <1>1, <1>3, <2>1, <2>2, <2>3 DEF ToldNow
<1>8. /\ runtime'.staged /\ \A s \in CoreSetting : runtime'.draft[s] = latest_settings[s]
      /\ update'.on = update.on /\ update'.crossed = update.on
  BY <1>4 DEF SetInv, SetType, CoreOf
<1>9. ShownFits'
  BY <1>1, <1>4, <1>7 DEF SetInv, Right, ShownFits, Fits
<1>10. HeldFits' /\ UpdateFits' /\ CrossedDoubt' /\ DraftIsMine'
  BY <1>1, <1>4, <1>7, <1>8 DEF HeldFits, UpdateFits, CrossedDoubt, DraftIsMine, Fits, latest_runtime, SetInv, SetType
<1> QED
  BY <1>5, <1>6, <1>9, <1>10 DEF SetInv, Right

\* The core runs the draft; if somebody discarded it, that is in doubt.
LEMMA RestartKeeps ==
  ASSUME SetInv, NEW t \in SetTasks, restarts_core(t)
  PROVE  SetInv'
<1> DEFINE known == IF runtime.staged THEN CoreSetting ELSE {}
<1>1. setTask[t].pc = "restart" /\ ~update.on /\ Did(t, "RESTART_CORE") /\ CoreRuns(latest_runtime, known)
      /\ UNCHANGED <<stored, runtime, update, writeLock>>
  BY DEF restarts_core
<1>2. Applying(t) /\ "RESTART_CORE" \in setTask[t].left /\ Affected("RESTART_CORE") = CoreSetting
  BY <1>1 DEF SetInv, FlagsLeft, Applying, Affected
<1>3. /\ setTask' \in Tasks /\ OneWriter' /\ FlagsLeft' /\ \A u \in SetTasks : setTask'[u].pc # "restart"
      /\ latest_settings' = latest_settings
      /\ ToldNow' = ToldNow \cup CoreSetting /\ OwedNow' = ToldNow \cup CoreSetting
  BY <1>1, <1>2, DidMoves
<1>4. OwedNow = ToldNow \cup CoreSetting
  BY <1>1, <1>2, Writer DEF SetInv
<1>5. \A s \in CoreSetting : s \notin inDoubt \/ runtime.staged => latest_runtime[s] = latest_settings[s]
  <2>1. ASSUME NEW s \in CoreSetting, runtime.staged PROVE latest_runtime[s] = latest_settings[s]
    BY <1>1, <2>1 DEF SetInv, Right, DraftIsMine, latest_runtime
  <2>2. ASSUME NEW s \in CoreSetting, s \notin inDoubt PROVE latest_runtime[s] = latest_settings[s]
    BY <1>1, <1>4, <2>2 DEF SetInv, Right, HeldFits, Fits
  <2> QED
    BY <2>1, <2>2
<1> HIDE DEF known
<1>6. /\ shown' \in [Setting -> BOOLEAN] /\ inDoubt \ known \subseteq inDoubt'
      /\ shown'["launch"] = shown["launch"]
      /\ \A s \in CoreSetting \ inDoubt' : shown'[s] = latest_runtime[s]
  BY <1>1, LatestType, RunsConf DEF SetInv
<1>7. \A s \in CoreSetting \ inDoubt' : latest_runtime[s] = latest_settings[s]
  BY <1>5, <1>6 DEF known
<1>8. SetType'
  BY <1>1, <1>3, <1>6 DEF SetInv, SetType
<1>9. ShownFits'
  <2> SUFFICES ASSUME NEW s \in Setting, s \notin inDoubt' PROVE Fits(shown[s], s, ToldNow)'
    BY DEF ShownFits
  <2>1. CASE s \in CoreSetting
    BY <1>3, <1>6, <1>7, <2>1 DEF Fits
  <2>2. CASE s \notin CoreSetting
    <3>1. s = "launch" /\ s \notin inDoubt
      BY <1>6, <2>2 DEF Setting, CoreSetting, known
    <3> QED
      BY <1>1, <1>3, <1>6, <2>2, <3>1 DEF SetInv, Right, ShownFits, Fits
  <2> QED
    BY <2>1, <2>2
<1>10. HeldFits' /\ UpdateFits' /\ CrossedDoubt' /\ DraftIsMine'
  BY <1>1, <1>3, <1>7 DEF HeldFits, UpdateFits, CrossedDoubt, DraftIsMine, Fits, latest_runtime
<1> QED
  BY <1>3, <1>8, <1>9, <1>10 DEF SetInv, Right

\* An update of its own leaves nothing of the core in doubt.
LEMMA ReloadKeeps ==
  ASSUME SetInv, NEW t \in SetTasks, update_config_checked(t)
  PROVE  SetInv'
<1> DEFINE conf == CoreOf(latest_settings)
<1>1. setTask[t].pc = "apply" /\ "CLASH_CONFIG" \in setTask[t].left /\ ~update.on
      /\ Did(t, "CLASH_CONFIG") /\ CoreRuns(conf, CoreSetting)
      /\ runtime' = Adopted(conf) /\ UNCHANGED <<stored, update, writeLock>>
  BY DEF update_config_checked, IsNext
<1>2. Applying(t) /\ Affected("CLASH_CONFIG") = CoreSetting
  BY <1>1 DEF Applying, Affected
<1>3. /\ setTask' \in Tasks /\ OneWriter' /\ FlagsLeft' /\ \A u \in SetTasks : setTask'[u].pc # "restart"
      /\ latest_settings' = latest_settings
      /\ ToldNow' = ToldNow \cup CoreSetting /\ OwedNow' = ToldNow \cup CoreSetting
  BY <1>1, <1>2, DidMoves
<1>4. conf \in Conf /\ \A s \in CoreSetting : conf[s] = latest_settings[s]
  BY LatestType DEF CoreOf, SetInv
<1> HIDE DEF conf
<1>5. /\ shown' \in [Setting -> BOOLEAN] /\ inDoubt \ CoreSetting \subseteq inDoubt'
      /\ shown'["launch"] = shown["launch"]
      /\ \A s \in CoreSetting \ inDoubt' : shown'[s] = conf[s]
  BY <1>1, <1>4, RunsConf DEF SetInv
<1>6. SetType' /\ runtime'.data = conf /\ ~runtime'.staged
  BY <1>1, <1>3, <1>4, <1>5 DEF SetInv, SetType, Adopted
<1>7. ShownFits'
  <2> SUFFICES ASSUME NEW s \in Setting, s \notin inDoubt' PROVE Fits(shown[s], s, ToldNow)'
    BY DEF ShownFits
  <2>1. CASE s \in CoreSetting
    BY <1>3, <1>4, <1>5, <2>1 DEF Fits
  <2>2. CASE s \notin CoreSetting
    <3>1. s = "launch" /\ s \notin inDoubt
      BY <1>5, <2>2 DEF Setting, CoreSetting
    <3> QED
      BY <1>1, <1>3, <1>5, <2>2, <3>1 DEF SetInv, Right, ShownFits, Fits
  <2> QED
    BY <2>1, <2>2
<1>8. HeldFits' /\ UpdateFits' /\ CrossedDoubt' /\ DraftIsMine'
  BY <1>1, <1>3, <1>4, <1>6 DEF HeldFits, UpdateFits, CrossedDoubt, DraftIsMine, Fits, latest_runtime
<1> QED
  BY <1>3, <1>6, <1>7, <1>8 DEF SetInv, Right

\* Autostart is outside the core.
LEMMA LaunchKeeps ==
  ASSUME SetInv, NEW t \in SetTasks, update_launch(t)
  PROVE  SetInv'
<1>1. setTask[t].pc = "apply" /\ "LAUNCH" \in setTask[t].left /\ Did(t, "LAUNCH")
      /\ shown' = [shown EXCEPT !["launch"] = latest_settings["launch"]] /\ inDoubt' = inDoubt \ {"launch"}
      /\ UNCHANGED <<stored, runtime, update, writeLock>>
  BY DEF update_launch, IsNext
<1>2. Applying(t) /\ Affected("LAUNCH") = {"launch"}
  BY <1>1 DEF Applying, Affected
<1>3. /\ setTask' \in Tasks /\ OneWriter' /\ FlagsLeft' /\ \A u \in SetTasks : setTask'[u].pc # "restart"
      /\ latest_settings' = latest_settings
      /\ ToldNow' = ToldNow \cup {"launch"} /\ OwedNow' = ToldNow \cup {"launch"}
  BY <1>1, <1>2, DidMoves
<1>4. OwedNow = ToldNow
  BY <1>1, <1>2, Writer DEF SetInv
<1>5. SetType'
  <2>1. latest_settings["launch"] \in BOOLEAN
    BY LatestType DEF SetInv, Setting
  <2> QED
    BY <1>1, <1>3, <2>1 DEF SetInv, SetType
<1>6. ShownFits'
  <2> SUFFICES ASSUME NEW s \in Setting, s \notin inDoubt' PROVE Fits(shown[s], s, ToldNow)'
    BY DEF ShownFits
  <2>1. CASE s = "launch"
    BY <1>1, <1>3, <2>1 DEF Fits, SetInv, SetType
  <2>2. CASE s # "launch"
    BY <1>1, <1>3, <2>2 DEF SetInv, Right, ShownFits, Fits, SetType
  <2> QED
    BY <2>1, <2>2
<1>7. "launch" \notin CoreSetting
  BY DEF CoreSetting
<1>8. HeldFits' /\ UpdateFits' /\ CrossedDoubt' /\ DraftIsMine'
  BY <1>1, <1>3, <1>4, <1>7 DEF SetInv, Right, HeldFits, UpdateFits, CrossedDoubt, DraftIsMine, Fits, latest_runtime
<1> QED
  BY <1>3, <1>5, <1>6, <1>8 DEF SetInv, Right

LEMMA EffectKeeps ==
  ASSUME SetInv, NEW t \in SetTasks, process_terminated_flags(t)
  PROVE  SetInv'
BY GenerateKeeps, RestartKeeps, ReloadKeeps, LaunchKeeps DEF process_terminated_flags

-----------------------------------------------------------------------------
(* Its end, and the others                                                   *)

\* A commit has had all its effects.
LEMMA CommitKeeps ==
  ASSUME SetInv, NEW t \in SetTasks, Commit(t)
  PROVE  SetInv'
<1>1. /\ setTask[t].pc = "apply" /\ setTask[t].left = {}
      /\ stored' = Patched(setTask[t].patch) /\ UNCHANGED <<shown, inDoubt, runtime, update>>
      /\ \/ Steps(t, "clear") /\ UNCHANGED writeLock
         \/ Released(t, "idle") \/ Released(t, "check")
  BY DEF Commit
<1>2. Applying(t)
  BY <1>1 DEF Applying
<1>3. stored' = latest_settings /\ ToldNow = AffectedBy(setTask[t].patch) /\ OwedNow = ToldNow
  <2>1. Told(t) = AffectedBy(setTask[t].patch)
    BY <1>1 DEF Told, AffectedBy
  <2> QED
    BY <1>1, <1>2, <2>1, Writer DEF SetInv
<1>4. ASSUME NEW s \in Setting, NEW v, Fits(v, s, ToldNow) PROVE v = stored'[s]
  BY <1>1, <1>3, <1>4, PatchShown DEF Fits
<1>5. latest_settings' = stored' /\ \A u \in SetTasks : setTask'[u].pc # "restart"
  BY <1>1, <1>2, EndRests
<1>6. CoreSetting \subseteq Setting
  BY DEF CoreSetting, Setting
<1>7. ShownFits'
  BY <1>1, <1>4, <1>5 DEF SetInv, Right, ShownFits, Fits
<1>8. HeldFits'
  <2> SUFFICES ASSUME NEW s \in CoreSetting, s \notin inDoubt
               PROVE  (IF update.on THEN runtime.data[s] ELSE latest_runtime[s]) = stored'[s]
    BY <1>1, <1>5 DEF HeldFits, Fits, latest_runtime
  <2> QED
    BY <1>3, <1>4, <1>6 DEF SetInv, Right, HeldFits
<1>9. UpdateFits'
  <2> SUFFICES ASSUME update.on, ~update.crossed, NEW s \in CoreSetting
               PROVE  runtime.draft[s] = update.told[s] /\ update.told[s] = stored'[s]
    BY <1>1, <1>5 DEF UpdateFits, Fits
  <2> QED
    BY <1>3, <1>4, <1>6 DEF SetInv, Right, UpdateFits
<1>10. CrossedDoubt' /\ DraftIsMine'
  BY <1>1, <1>5 DEF SetInv, Right, CrossedDoubt, DraftIsMine
<1>11. stored' \in [Setting -> BOOLEAN]
  BY <1>3, LatestType DEF SetInv
<1> QED
  BY <1>1, <1>2, <1>7, <1>8, <1>9, <1>10, <1>11, EndKeeps DEF SetInv, SetType, Right

\* A patch that fails leaves doubt about no setting but those it touches.
LEMMA FailureKeeps ==
  ASSUME SetInv, NEW t \in SetTasks, RollsBack(t)
  PROVE  SetInv'
<1> DEFINE touched == AffectedBy(setTask[t].patch)
<1>1. /\ Applying(t) /\ stored' = stored /\ inDoubt' = inDoubt \cup touched
      /\ update' = [update EXCEPT !.crossed = @ \/ (update.on /\ CoreSetting \subseteq touched)]
      /\ \/ Steps(t, "clear") /\ UNCHANGED writeLock
         \/ Released(t, "idle") \/ Released(t, "check")
  BY DEF RollsBack
<1>2. latest_settings' = stored /\ \A u \in SetTasks : setTask'[u].pc # "restart"
  BY <1>1, EndRests
<1>3. latest_settings = Patched(setTask[t].patch) /\ FlagsLeft
  BY <1>1, Writer DEF SetInv
<1>4. ASSUME NEW s \in Setting \ touched, NEW v, NEW told, Fits(v, s, told) PROVE v = stored[s]
  BY <1>3, <1>4, PatchShown DEF Fits
<1>5. \A s \in CoreSetting : s \in touched => CoreSetting \subseteq touched
  BY CoreTogether
<1>6. CoreSetting \subseteq Setting
  BY DEF CoreSetting, Setting
<1>7. \/ UNCHANGED <<shown, runtime>>
      \/ setTask[t].pc = "restart" /\ shown' = With(latest_runtime) /\ UNCHANGED runtime
      \/ /\ setTask[t].pc = "apply" /\ "CLASH_CONFIG" \in setTask[t].left /\ ~update.on
         /\ shown' \in {shown, With(CoreOf(latest_settings))} /\ runtime' = Adopted(runtime.data)
      \/ /\ "LAUNCH" \in setTask[t].left
         /\ shown' = [shown EXCEPT !["launch"] = latest_settings["launch"]] /\ UNCHANGED runtime
  BY DEF RollsBack, IsNext
<1>8. \A flag \in setTask[t].left : Affected(flag) \subseteq touched
  BY <1>1, <1>3 DEF FlagsLeft, AffectedBy
<1>9. setTask[t].pc = "restart" => CoreSetting \subseteq touched
  BY <1>3, <1>8 DEF FlagsLeft, Affected
<1>10. "CLASH_CONFIG" \in setTask[t].left => CoreSetting \subseteq touched
  BY <1>8 DEF Affected
<1>11. "LAUNCH" \in setTask[t].left => "launch" \in touched
  BY <1>8 DEF Affected
<1> HIDE DEF touched
<1>12. /\ shown' \in [Setting -> BOOLEAN] /\ runtime' \in [data : Conf, draft : Conf, staged : BOOLEAN]
       /\ \A s \in Setting \ touched : shown'[s] = shown[s]
       /\ runtime' # runtime => CoreSetting \subseteq touched
  <2>1. CASE UNCHANGED <<shown, runtime>>
    BY <2>1 DEF SetInv, SetType
  <2>2. CASE setTask[t].pc = "restart" /\ shown' = With(latest_runtime) /\ UNCHANGED runtime
    BY <1>9, <2>2, LatestType DEF SetInv, SetType, With, Conf
  <2>3. CASE /\ "CLASH_CONFIG" \in setTask[t].left
             /\ shown' \in {shown, With(CoreOf(latest_settings))} /\ runtime' = Adopted(runtime.data)
    BY <1>10, <2>3, LatestType DEF SetInv, SetType, With, Conf, Adopted
  <2>4. CASE /\ "LAUNCH" \in setTask[t].left
             /\ shown' = [shown EXCEPT !["launch"] = latest_settings["launch"]] /\ UNCHANGED runtime
    <3>1. latest_settings["launch"] \in BOOLEAN
      BY LatestType DEF SetInv, Setting
    <3> QED
      BY <1>11, <2>4, <3>1 DEF SetInv, SetType
  <2> QED
    BY <1>7, <2>1, <2>2, <2>3, <2>4
<1>13. ShownFits'
  BY <1>1, <1>2, <1>4, <1>12 DEF SetInv, Right, ShownFits, Fits
<1>14. update' \in [on : BOOLEAN, told : Conf, crossed : BOOLEAN]
       /\ update'.on = update.on /\ update'.told = update.told
       /\ (~update'.crossed => ~update.crossed /\ (update.on => ~(CoreSetting \subseteq touched)))
       /\ (update'.crossed => update.crossed \/ CoreSetting \subseteq touched)
  BY <1>1 DEF SetInv, SetType
<1>15. HeldFits'
  <2> SUFFICES ASSUME NEW s \in CoreSetting, s \notin inDoubt'
               PROVE  Fits(IF update.on THEN runtime.data[s] ELSE latest_runtime[s], s, OwedNow)'
    BY DEF HeldFits
  <2>1. s \notin touched /\ s \notin inDoubt /\ runtime' = runtime
    BY <1>1, <1>12
  <2>2. (IF update.on THEN runtime.data[s] ELSE latest_runtime[s]) = stored[s]
    BY <1>4, <1>6, <2>1 DEF SetInv, Right, HeldFits
  <2>3. latest_runtime' = latest_runtime
    BY <2>1 DEF latest_runtime
  <2> QED
    BY <1>2, <1>14, <2>1, <1>1, <2>2, <2>3 DEF Fits
<1>16. UpdateFits'
  <2> SUFFICES ASSUME update'.on, ~update'.crossed, NEW s \in CoreSetting
               PROVE  runtime'.draft[s] = update'.told[s] /\ Fits(update.told[s], s, OwedNow)'
    BY DEF UpdateFits
  <2>1. s \notin touched /\ runtime' = runtime /\ ~update.crossed /\ update.on
    BY <1>5, <1>12, <1>14
  <2>2. runtime.draft[s] = update.told[s] /\ update.told[s] = stored[s]
    BY <1>4, <1>6, <2>1 DEF SetInv, Right, UpdateFits
  <2> QED
    BY <1>1, <1>2, <1>14, <2>1, <2>2 DEF Fits
<1>17. CrossedDoubt' /\ DraftIsMine'
  BY <1>1, <1>2, <1>14 DEF SetInv, Right, CrossedDoubt, DraftIsMine
<1> QED
  BY <1>1, <1>12, <1>13, <1>14, <1>15, <1>16, <1>17, EndKeeps DEF SetInv, SetType, Right

\* A task that asks, waits or is coalesced touches nothing.
LEMMA WaitKeeps ==
  ASSUME SetInv, NEW t \in SetTasks,
         \/ patch_verge(t) \/ Coalesces(t)
         \/ setTask[t].pc = "idle" /\ Steps(t, "check") /\ UNCHANGED <<storeVars, writeLock>>
  PROVE  SetInv'
<1>1. UNCHANGED <<storeVars, writeLock>> /\ setTask[t].pc \notin {"apply", "restart", "clear"}
  BY DEF patch_verge, Coalesces
<1>2. /\ setTask' \in Tasks /\ setTask'[t].pc \notin {"apply", "restart", "clear"}
      /\ \A u \in SetTasks \ {t} : setTask'[u] = setTask[u]
  <2>1. ASSUME NEW pc \in {"idle", "reconcile", "check"}, Steps(t, pc)
        PROVE  /\ setTask' \in Tasks /\ setTask'[t].pc \notin {"apply", "restart", "clear"}
               /\ \A u \in SetTasks \ {t} : setTask'[u] = setTask[u]
    BY <2>1, StepMoves, pc \in SetPc DEF SetPc, SetInv
  <2>2. CASE patch_verge(t)
    <3> PICK patch \in Patches :
          setTask' = [setTask EXCEPT ![t] = [pc |-> "lock", patch |-> patch, left |-> {}, internal |-> FALSE]]
      BY <2>2 DEF patch_verge
    <3> DEFINE next == [pc |-> "lock", patch |-> patch, left |-> {}, internal |-> FALSE]
    <3>1. setTask' = [setTask EXCEPT ![t] = next]
      OBVIOUS
    <3>2. next \in Record /\ next.pc = "lock"
      BY DEF SetPc, Patch, Record
    <3> HIDE DEF next
    <3>3. setTask' \in Tasks /\ setTask'[t] = next /\ \A u \in SetTasks \ {t} : setTask'[u] = setTask[u]
      BY <3>1, <3>2, TaskMoves DEF SetInv
    <3> QED
      BY <3>2, <3>3
  <2>3. CASE Coalesces(t)
    BY <2>1, <2>3 DEF Coalesces
  <2> QED
    BY <2>1, <2>2, <2>3
<1>3. OneWriter'
  BY <1>1, <1>2 DEF SetInv, OneWriter
<1> QED
  BY <1>1, <1>2, <1>3, AsideKeeps DEF Applying

\* A patch begins once it has the lock.
LEMMA LockKeeps ==
  ASSUME SetInv, NEW t \in SetTasks, lock_config_write(t)
  PROVE  SetInv'
<1>1. /\ setTask' \in Tasks /\ setTask'[t].pc = "apply"
      /\ setTask'[t].patch = setTask[t].patch /\ setTask'[t].left = determine_update_flags(setTask[t].patch)
      /\ \A u \in SetTasks \ {t} : setTask'[u] = setTask[u]
  BY DEF lock_config_write, SetInv, SetType, Tasks, Record, SetPc, determine_update_flags
<1> QED
  BY <1>1, BeginKeeps DEF lock_config_write

\* So does a reconciliation that has something to turn off.
LEMMA ReconcileKeeps ==
  ASSUME SetInv, NEW t \in SetTasks, reconcile_tun_availability(t)
  PROVE  SetInv'
<1>1. UNCHANGED storeVars /\ writeLock = "free" /\ setTask[t].pc = "reconcile"
  BY DEF reconcile_tun_availability
<1>2. CASE Steps(t, "idle") /\ UNCHANGED writeLock
  <2>1. setTask' \in Tasks /\ setTask'[t].pc = "idle" /\ \A u \in SetTasks \ {t} : setTask'[u] = setTask[u]
    BY <1>2, StepMoves, "idle" \in SetPc DEF SetPc, SetInv
  <2>2. OneWriter'
    BY <1>1, <1>2, <2>1 DEF SetInv, OneWriter
  <2> QED
    BY <1>1, <2>1, <2>2, AsideKeeps DEF Applying
<1>3. CASE ~(Steps(t, "idle") /\ UNCHANGED writeLock)
  <2> DEFINE next == [pc |-> "apply", patch |-> TunOff, internal |-> TRUE, left |-> determine_update_flags(TunOff)]
  <2>1. writeLock' = t /\ setTask' = [setTask EXCEPT ![t] = next]
    BY <1>3 DEF reconcile_tun_availability, TunOff
  <2>2. next \in Record
    BY DEF SetPc, Patch, Record, determine_update_flags
  <2> HIDE DEF next
  <2>3. setTask' \in Tasks /\ setTask'[t] = next /\ \A u \in SetTasks \ {t} : setTask'[u] = setTask[u]
    BY <2>1, <2>2, TaskMoves DEF SetInv
  <2>4. setTask'[t].pc = "apply" /\ setTask'[t].left = determine_update_flags(setTask'[t].patch)
    BY <2>3 DEF next
  <2> QED
    BY <1>1, <2>1, <2>3, <2>4, BeginKeeps
<1> QED
  BY <1>2, <1>3

\* Its end gives the lock back.
LEMMA DisabledKeeps ==
  ASSUME SetInv, NEW t \in SetTasks, Disabled(t)
  PROVE  SetInv'
<1>1. UNCHANGED storeVars /\ setTask[t].pc = "clear" /\ writeLock = t
  BY DEF Disabled
<1>2. CASE UNCHANGED <<writeLock, setTask>>
  BY <1>1, <1>2, AsideKeeps DEF Applying, SetInv, SetType, OneWriter
<1>3. CASE Released(t, "idle")
  <2>1. setTask' \in Tasks /\ setTask'[t].pc = "idle" /\ \A u \in SetTasks \ {t} : setTask'[u] = setTask[u]
    BY <1>3, ReleaseMoves, "idle" \in SetPc DEF SetPc, SetInv
  <2>2. OneWriter'
    BY <1>1, <1>3, <2>1, SettingsAssumption DEF SetInv, OneWriter, Released
  <2> QED
    BY <1>1, <2>1, <2>2, AsideKeeps DEF Applying
<1> QED
  BY <1>2, <1>3 DEF Disabled

\* Steps of others, whoever has the lock: the same patch is under way.
LEMMA OthersSame ==
  ASSUME OthersNext
  PROVE  /\ UNCHANGED <<stored, writeLock, setTask>>
         /\ latest_settings' = latest_settings /\ ToldNow' = ToldNow /\ OwedNow' = OwedNow
<1>1. UNCHANGED <<stored, writeLock, setTask>>
  BY DEF OthersNext, OthersGenerate, OthersStart, UpdateBegins, UpdateSucceeds, UpdateFails
<1>2. Writing' <=> Writing
  BY <1>1 DEF Writing, Applying
<1>3. latest_settings' = latest_settings
  BY <1>1, <1>2 DEF latest_settings, Patched
<1>4. \A t \in SetTasks : Told(t)' = Told(t)
  BY <1>1 DEF Told, determine_update_flags
<1>5. ToldNow' = ToldNow
  BY <1>1, <1>2, <1>4 DEF ToldNow, Writing
<1> QED
  BY <1>1, <1>2, <1>3, <1>5 DEF OwedNow

\* What a Runtime Configuration generated by now holds fits, whatever is owed.
LEMMA LatestFits ==
  \A s \in CoreSetting : CoreOf(latest_settings)[s] = latest_settings[s]
                         /\ Fits(CoreOf(latest_settings)[s], s, OwedNow)
BY DEF CoreOf, Fits

\* Whatever is owed has been told, but for a restart that has yet to come.
LEMMA HeldIsShown ==
  ASSUME NEW s, NEW v, Fits(v, s, OwedNow)
  PROVE  Fits(v, s, ToldNow)
BY DEF Fits, OwedNow

\* Others generate: the draft is right again, unless an update has it.
LEMMA OthersGenerateKeeps ==
  ASSUME SetInv, OthersGenerate
  PROVE  SetInv'
<1>1. /\ UNCHANGED <<stored, writeLock, setTask, shown>>
      /\ latest_settings' = latest_settings /\ ToldNow' = ToldNow /\ OwedNow' = OwedNow
  BY OthersSame DEF OthersNext, OthersGenerate
<1>2. /\ runtime' = [runtime EXCEPT !.draft = CoreOf(latest_settings), !.staged = TRUE]
      /\ update' = [update EXCEPT !.crossed = update.on]
      /\ inDoubt' = IF update.on THEN inDoubt \cup CoreSetting ELSE inDoubt
  BY DEF OthersGenerate, generate
<1>3. SetType' /\ OneWriter' /\ FlagsLeft'
  BY <1>1, <1>2, LatestType DEF SetInv, SetType, OneWriter, FlagsLeft, Applying, determine_update_flags
<1>4. /\ runtime'.staged /\ \A s \in CoreSetting : runtime'.draft[s] = latest_settings[s]
      /\ update'.on = update.on /\ update'.crossed = update.on
  BY <1>2 DEF SetInv, SetType, CoreOf
<1>5. ShownFits'
  BY <1>1, <1>2 DEF SetInv, Right, ShownFits, Fits
<1>6. HeldFits' /\ UpdateFits' /\ CrossedDoubt' /\ DraftIsMine'
  BY <1>1, <1>2, <1>4 DEF HeldFits, UpdateFits, CrossedDoubt, DraftIsMine, Fits, latest_runtime, SetInv, SetType
<1> QED
  BY <1>3, <1>5, <1>6 DEF SetInv, Right

\* A start shows what the Runtime Configuration held.
LEMMA OthersStartKeeps ==
  ASSUME SetInv, OthersStart
  PROVE  SetInv'
<1>1. /\ UNCHANGED <<stored, writeLock, setTask, runtime, update>> /\ ~update.on /\ CoreRuns(latest_runtime, {})
      /\ latest_settings' = latest_settings /\ ToldNow' = ToldNow /\ OwedNow' = OwedNow
  BY OthersSame DEF OthersNext, OthersStart
<1>2. /\ shown' \in [Setting -> BOOLEAN] /\ inDoubt \subseteq inDoubt' /\ shown'["launch"] = shown["launch"]
      /\ \A s \in CoreSetting \ inDoubt' : shown'[s] = latest_runtime[s]
  BY <1>1, LatestType, RunsConf DEF SetInv
<1>3. SetType' /\ OneWriter' /\ FlagsLeft'
  BY <1>1, <1>2 DEF SetInv, SetType, OneWriter, FlagsLeft, Applying, determine_update_flags
<1>4. ShownFits'
  <2> SUFFICES ASSUME NEW s \in Setting, s \notin inDoubt' PROVE Fits(shown'[s], s, ToldNow)
    BY <1>1 DEF ShownFits, Fits
  <2>1. CASE s \in CoreSetting
    <3>1. Fits(latest_runtime[s], s, OwedNow)
      BY <1>1, <1>2, <2>1 DEF SetInv, Right, HeldFits
    <3> QED
      BY <1>2, <2>1, <3>1, HeldIsShown
  <2>2. CASE s \notin CoreSetting
    BY <1>2, <2>2 DEF Setting, CoreSetting, SetInv, Right, ShownFits
  <2> QED
    BY <2>1, <2>2
<1>5. HeldFits' /\ UpdateFits' /\ CrossedDoubt' /\ DraftIsMine'
  BY <1>1, <1>2 DEF SetInv, Right, HeldFits, UpdateFits, CrossedDoubt, DraftIsMine, Fits, latest_runtime
<1> QED
  BY <1>3, <1>4, <1>5 DEF SetInv, Right

\* An update begins with the settings as they are staged.
LEMMA UpdateBeginKeeps ==
  ASSUME SetInv, UpdateBegins
  PROVE  SetInv'
<1>1. /\ UNCHANGED <<stored, writeLock, setTask, shown>> /\ ~update.on
      /\ latest_settings' = latest_settings /\ ToldNow' = ToldNow /\ OwedNow' = OwedNow
  BY OthersSame DEF OthersNext, UpdateBegins
<1>2. /\ runtime' = [runtime EXCEPT !.draft = CoreOf(latest_settings), !.staged = TRUE]
      /\ update' = [on |-> TRUE, told |-> CoreOf(latest_settings), crossed |-> FALSE]
      /\ inDoubt' = IF runtime.staged THEN inDoubt \cup CoreSetting ELSE inDoubt
  BY DEF UpdateBegins
<1>3. SetType' /\ OneWriter' /\ FlagsLeft'
  BY <1>1, <1>2, LatestType DEF SetInv, SetType, OneWriter, FlagsLeft, Applying, determine_update_flags
<1>4. /\ runtime'.data = runtime.data /\ runtime'.draft = CoreOf(latest_settings)
      /\ update'.on /\ ~update'.crossed /\ update'.told = CoreOf(latest_settings)
  BY <1>2 DEF SetInv, SetType
<1>5. ShownFits'
  BY <1>1, <1>2 DEF SetInv, Right, ShownFits, Fits
<1>6. UpdateFits' /\ CrossedDoubt' /\ DraftIsMine'
  BY <1>1, <1>4, LatestFits DEF UpdateFits, CrossedDoubt, DraftIsMine, Fits
<1>7. HeldFits'
  <2> SUFFICES ASSUME NEW s \in CoreSetting, s \notin inDoubt' PROVE Fits(runtime.data[s], s, OwedNow)
    BY <1>1, <1>4 DEF HeldFits, Fits
  <2>1. ~runtime.staged /\ s \notin inDoubt
    BY <1>2
  <2> QED
    BY <1>1, <2>1 DEF SetInv, Right, HeldFits, latest_runtime
<1> QED
  BY <1>3, <1>5, <1>6, <1>7 DEF SetInv, Right

\* It ends with what it told, committed; or with what was there before it.
LEMMA UpdateEndKeeps ==
  ASSUME SetInv, UpdateSucceeds \/ UpdateFails
  PROVE  SetInv'
<1>1. /\ UNCHANGED <<stored, writeLock, setTask>> /\ update.on /\ update' = NoUpdate
      /\ latest_settings' = latest_settings /\ ToldNow' = ToldNow /\ OwedNow' = OwedNow
  BY OthersSame DEF OthersNext, UpdateSucceeds, UpdateFails
<1>2. /\ update' \in [on : BOOLEAN, told : Conf, crossed : BOOLEAN] /\ ~update'.on
      /\ update.told \in Conf /\ runtime.draft \in Conf /\ runtime.data \in Conf
  BY <1>1 DEF NoUpdate, NoneOn, Conf, SetInv, SetType
<1>3. OneWriter' /\ FlagsLeft'
  BY <1>1 DEF SetInv, OneWriter, FlagsLeft, Applying, determine_update_flags
<1>4. ASSUME NEW conf \in Conf, runtime' = Adopted(conf), shown' \in [Setting -> BOOLEAN],
             shown'["launch"] = shown["launch"], "launch" \in inDoubt => "launch" \in inDoubt',
             \A s \in CoreSetting \ inDoubt' :
               Fits(conf[s], s, OwedNow) /\ Fits(shown'[s], s, ToldNow)
      PROVE  SetInv'
  <2>1. SetType' /\ ~runtime'.staged /\ runtime'.data = conf
    BY <1>1, <1>2, <1>4 DEF SetInv, SetType, Adopted
  <2>2. UpdateFits' /\ CrossedDoubt' /\ DraftIsMine'
    BY <1>2, <2>1 DEF UpdateFits, CrossedDoubt, DraftIsMine
  <2>3. HeldFits'
    BY <1>1, <1>2, <1>4, <2>1 DEF HeldFits, Fits, latest_runtime
  <2>4. ShownFits'
    <3> SUFFICES ASSUME NEW s \in Setting, s \notin inDoubt' PROVE Fits(shown'[s], s, ToldNow)
      BY <1>1 DEF ShownFits, Fits
    <3>1. CASE s \in CoreSetting
      BY <1>4, <3>1
    <3>2. CASE s \notin CoreSetting
      BY <1>4, <3>2 DEF Setting, CoreSetting, SetInv, Right, ShownFits
    <3> QED
      BY <3>1, <3>2
  <2> QED
    BY <1>3, <2>1, <2>2, <2>3, <2>4 DEF SetInv, Right
<1>5. CASE UpdateSucceeds
  <2> DEFINE known == IF update.crossed THEN {} ELSE CoreSetting
  <2>1. PICK conf \in {update.told, runtime.draft} : CoreRuns(conf, known)
    BY <1>5 DEF UpdateSucceeds
  <2>2. conf \in Conf /\ "launch" \notin known
    BY <1>2 DEF CoreSetting
  <2>3. update.crossed => CoreSetting \subseteq inDoubt /\ known = {}
    BY <1>1 DEF SetInv, Right, CrossedDoubt
  <2>4. ~update.crossed => \A s \in CoreSetting : Fits(runtime.draft[s], s, OwedNow) /\ conf[s] = runtime.draft[s]
    BY <1>1 DEF SetInv, Right, UpdateFits
  <2> HIDE DEF known
  <2>5. /\ shown' \in [Setting -> BOOLEAN] /\ inDoubt \ known \subseteq inDoubt'
        /\ shown'["launch"] = shown["launch"]
        /\ \A s \in CoreSetting \ inDoubt' : shown'[s] = conf[s]
    BY <2>1, <2>2, RunsConf DEF SetInv
  <2>6. \A s \in CoreSetting \ inDoubt' : Fits(runtime.draft[s], s, OwedNow) /\ Fits(shown'[s], s, ToldNow)
    BY <2>3, <2>4, <2>5, HeldIsShown
  <2>7. runtime' = Adopted(runtime.draft)
    BY <1>5 DEF UpdateSucceeds
  <2> QED
    BY <1>2, <1>4, <2>2, <2>5, <2>6, <2>7
<1>6. CASE UpdateFails
  <2>1. runtime' = Adopted(runtime.data) /\ shown' \in {shown, With(update.told)} /\ inDoubt' = inDoubt
    BY <1>6 DEF UpdateFails
  <2>2. shown' \in [Setting -> BOOLEAN] /\ shown'["launch"] = shown["launch"]
    BY <1>2, <2>1 DEF SetInv, SetType, With, Conf, CoreSetting, Setting
  <2>3. ASSUME NEW s \in CoreSetting, s \notin inDoubt'
        PROVE  Fits(runtime.data[s], s, OwedNow) /\ Fits(shown'[s], s, ToldNow)
    <3>1. Fits(runtime.data[s], s, OwedNow) /\ ~update.crossed
      BY <1>1, <2>1, <2>3 DEF SetInv, Right, HeldFits, CrossedDoubt
    <3>2. Fits(update.told[s], s, ToldNow)
      BY <1>1, <3>1, HeldIsShown DEF SetInv, Right, UpdateFits
    <3>3. s \in Setting /\ Fits(shown[s], s, ToldNow)
      BY <2>1, <2>3 DEF SetInv, Right, ShownFits, CoreSetting, Setting
    <3>4. shown'[s] \in {shown[s], update.told[s]}
      BY <2>1, <3>3 DEF With
    <3> QED
      BY <3>1, <3>2, <3>3, <3>4
  <2> QED
    BY <1>2, <1>4, <2>1, <2>2, <2>3
<1> QED
  BY <1>5, <1>6

\* TUN that others write off is in doubt until the core is told.
LEMMA WrittenOffKeeps ==
  ASSUME SetInv, disable_tun_and_persist
  PROVE  SetInv'
<1>1. /\ UNCHANGED <<writeLock, setTask, shown, update>> /\ writeLock = "free" /\ ~update.on
      /\ stored' = [stored EXCEPT !["tun"] = FALSE] /\ inDoubt' = inDoubt \cup {"tun"}
      /\ runtime' \in {runtime, [runtime EXCEPT !.draft = CoreOf(stored'), !.staged = TRUE]}
  BY DEF disable_tun_and_persist
<1>2. \A t \in SetTasks : setTask[t].pc \notin {"apply", "restart", "clear"}
  BY <1>1, FreeRests
<1>3. /\ latest_settings = stored /\ OwedNow = {} /\ ToldNow = {}
      /\ latest_settings' = stored'
  <2>1. ~Writing'
    BY <1>1, <1>2 DEF Writing, Applying
  <2> QED
    BY <1>2, <2>1, NoWriter DEF Applying, latest_settings
<1>4. /\ stored' \in [Setting -> BOOLEAN] /\ CoreOf(stored') \in Conf
      /\ \A s \in Setting \ {"tun"} : stored'[s] = stored[s]
      /\ \A s \in CoreSetting : CoreOf(stored')[s] = stored'[s]
  BY <1>1 DEF SetInv, SetType, CoreOf, Conf, CoreSetting, Setting
<1>5. SetType' /\ OneWriter' /\ FlagsLeft'
  BY <1>1, <1>2, <1>4 DEF SetInv, SetType, OneWriter, FlagsLeft, Applying
<1>6. ShownFits' /\ UpdateFits' /\ CrossedDoubt' /\ DraftIsMine'
  BY <1>1, <1>2, <1>3, <1>4 DEF SetInv, Right, ShownFits, UpdateFits, CrossedDoubt, DraftIsMine, Fits
<1>7. HeldFits'
  <2> SUFFICES ASSUME NEW s \in CoreSetting, s \notin inDoubt' PROVE latest_runtime'[s] = stored'[s]
    BY <1>1, <1>3 DEF HeldFits, Fits
  <2>1. CASE runtime' = runtime
    <3>1. latest_runtime[s] = stored[s]
      BY <1>1, <1>3 DEF SetInv, Right, HeldFits, Fits
    <3>2. s \in Setting \ {"tun"}
      BY <1>1 DEF CoreSetting, Setting
    <3> QED
      BY <1>4, <2>1, <3>1, <3>2 DEF latest_runtime
  <2>2. CASE runtime' = [runtime EXCEPT !.draft = CoreOf(stored'), !.staged = TRUE]
    BY <1>4, <2>2 DEF latest_runtime, SetInv, SetType
  <2> QED
    BY <1>1, <2>1, <2>2
<1> QED
  BY <1>5, <1>6, <1>7 DEF SetInv, Right

\* Every step keeps it.
LEMMA SetNextKeeps == SetInv /\ [SetNext]_setVars => SetInv'
<1> SUFFICES ASSUME SetInv, [SetNext]_setVars PROVE SetInv'
  OBVIOUS
<1>1. CASE UNCHANGED setVars
  <2>1. UNCHANGED storeVars /\ writeLock' = writeLock /\ setTask' = setTask
    BY <1>1 DEF setVars, storeVars
  <2>2. latest_settings' = latest_settings /\ ToldNow' = ToldNow /\ OwedNow' = OwedNow
    BY <2>1 DEF storeVars, latest_settings, Writing, Applying, Patched, ToldNow, OwedNow, Told, determine_update_flags
  <2>3. Right'
    BY <2>1, <2>2, SameFits DEF SetInv
  <2> QED
    BY <2>1, <2>3 DEF storeVars, SetInv, SetType, OneWriter, FlagsLeft, Applying, determine_update_flags
<1>2. CASE PublishRunState
  <2> PICK t \in Reconcilers : setTask[t].pc = "idle" /\ Steps(t, "check")
    BY <1>2 DEF PublishRunState
  <2> QED
    BY <1>2, WaitKeeps DEF PublishRunState, SetTasks
<1>3. CASE PatchNext
  BY <1>3, WaitKeeps, LockKeeps, EffectKeeps, CommitKeeps, FailureKeeps, ReconcileKeeps, DisabledKeeps DEF PatchNext
<1>4. CASE OthersNext
  BY <1>4, OthersGenerateKeeps, OthersStartKeeps, UpdateBeginKeeps, UpdateEndKeeps DEF OthersNext
<1> QED
  BY <1>1, <1>2, <1>3, <1>4, WrittenOffKeeps DEF SetNext, TunNext

\* With no patch under way, the core and the system were told what the settings
\* say, whatever updates and starts ran the draft a restart left behind; save
\* for settings in doubt (the roll back of apply_verge_patch_locked undoes the
\* settings, not the effects).
THEOREM EffectsCorrect == SetSpec => []EffectsFollowSettings
<1>1. SetInv => EffectsFollowSettings
  BY FreeRests DEF EffectsFollowSettings
<1> QED
  BY <1>1, SetStart, SetNextKeeps, PTL DEF SetSpec

-----------------------------------------------------------------------------
(* TUN and Run State                                                         *)

Misfit == run.mode # "NotRunning" /\ tun_should_be_disabled(stored["tun"])
Disabling(t) == Applying(t) /\ setTask[t].internal

\* A reconciliation's own patch turns TUN off, a user's is not taken for one.
OwnPatch ==
  \A t \in SetTasks : /\ Disabling(t) => setTask[t].patch = TunOff
                      /\ setTask[t].pc = "lock" => ~setTask[t].internal

\* Until its flag is cleared, a reconciliation has yet to write, or has just
\* written TUN off, or failed to.
Answers ==
  /\ DISABLING_TUN => \E t \in SetTasks : Disabling(t) \/ setTask[t].pc = "clear"
  /\ (\E t \in SetTasks : setTask[t].pc = "clear") => ~stored["tun"] \/ disableFailed

\* TUN that the Run State cannot carry has somebody who is going to look.
Watched ==
  Misfit /\ ~disableFailed => \E t \in SetTasks : setTask[t].pc \in {"check", "reconcile"} \/ Disabling(t)

TunInv == SetInv /\ OwnPatch /\ Answers /\ Watched

\* Nothing is on, and nothing runs, in the beginning.
LEMMA TunStart == SetInit => TunInv
<1> SUFFICES ASSUME SetInit PROVE TunInv
  OBVIOUS
<1>1. \A t \in SetTasks : setTask[t] = NoPatch
  BY DEF SetInit
<1>2. OwnPatch /\ Answers
  BY <1>1 DEF SetInit, OwnPatch, Answers, Disabling, Applying, NoPatch
<1>3. run.mode = "NotRunning"
  BY DEF SetInit
<1>4. Watched
  BY <1>3 DEF Watched, Misfit
<1> QED
  BY <1>2, <1>4, SetStart DEF TunInv

\* What the tasks' steps are, whoever takes them.
LEMMA TaskKinds ==
  ASSUME SetInv, NEW t \in SetTasks
  PROVE  /\ patch_verge(t) \/ lock_config_write(t) \/ process_terminated_flags(t) \/ Commit(t) \/ RollsBack(t)
              \/ Coalesces(t) \/ reconcile_tun_availability(t) \/ Disabled(t)
              => run' = run /\ \A u \in SetTasks \ {t} : setTask'[u] = setTask[u]
         /\ patch_verge(t) => setTask'[t].pc = "lock" /\ ~setTask'[t].internal
         /\ lock_config_write(t) => setTask'[t].pc = "apply" /\ setTask'[t].internal = setTask[t].internal
         /\ process_terminated_flags(t) =>
              Applying(t) /\ Applying(t)' /\ setTask'[t].internal = setTask[t].internal
              /\ setTask'[t].patch = setTask[t].patch
<1> USE DEF SetInv, SetType, Tasks, Record
<1>1. patch_verge(t) =>
        run' = run /\ (\A u \in SetTasks \ {t} : setTask'[u] = setTask[u])
        /\ setTask'[t].pc = "lock" /\ ~setTask'[t].internal
  BY DEF patch_verge
<1>2. lock_config_write(t) =>
        run' = run /\ (\A u \in SetTasks \ {t} : setTask'[u] = setTask[u])
        /\ setTask'[t].pc = "apply" /\ setTask'[t].internal = setTask[t].internal
  BY DEF lock_config_write
<1>3. process_terminated_flags(t) =>
        run' = run /\ (\A u \in SetTasks \ {t} : setTask'[u] = setTask[u])
        /\ Applying(t) /\ Applying(t)' /\ setTask'[t].internal = setTask[t].internal
        /\ setTask'[t].patch = setTask[t].patch
  <2>1. GeneratesFor(t) =>
          run' = run /\ (\A u \in SetTasks \ {t} : setTask'[u] = setTask[u])
          /\ Applying(t) /\ Applying(t)' /\ setTask'[t].internal = setTask[t].internal
          /\ setTask'[t].patch = setTask[t].patch
    BY DEF GeneratesFor, Steps, Applying
  <2>2. restarts_core(t) \/ update_config_checked(t) \/ update_launch(t) =>
          run' = run /\ (\A u \in SetTasks \ {t} : setTask'[u] = setTask[u])
          /\ Applying(t) /\ Applying(t)' /\ setTask'[t].internal = setTask[t].internal
          /\ setTask'[t].patch = setTask[t].patch
    BY DEF restarts_core, update_config_checked, update_launch, Did, Applying
  <2> QED
    BY <2>1, <2>2 DEF process_terminated_flags
<1>4. Commit(t) \/ RollsBack(t) => run' = run /\ \A u \in SetTasks \ {t} : setTask'[u] = setTask[u]
  BY DEF Commit, RollsBack, Steps, Released
<1>5. Coalesces(t) \/ reconcile_tun_availability(t) \/ Disabled(t) =>
        run' = run /\ \A u \in SetTasks \ {t} : setTask'[u] = setTask[u]
  BY DEF Coalesces, reconcile_tun_availability, Disabled, Steps, Released
<1> QED
  BY <1>1, <1>2, <1>3, <1>4, <1>5

\* Tasks on their way, and effects, leave TUN and Run State as they are.
LEMMA EffectTun ==
  ASSUME TunInv, SetInv', NEW t \in SetTasks, patch_verge(t) \/ lock_config_write(t) \/ process_terminated_flags(t)
  PROVE  TunInv'
<1>1. /\ UNCHANGED <<stored, run, DISABLING_TUN, disableFailed>> /\ \A u \in SetTasks \ {t} : setTask'[u] = setTask[u]
      /\ setTask'[t].pc \notin {"clear", "check", "reconcile"} /\ setTask[t].pc \notin {"clear", "check", "reconcile"}
  BY TaskKinds DEF TunInv, Applying, patch_verge, lock_config_write, process_terminated_flags, GeneratesFor, restarts_core,
     update_config_checked, update_launch, storeVars
<1>2. /\ Disabling(t)' <=> Disabling(t)
      /\ Disabling(t)' => setTask'[t].patch = TunOff
      /\ setTask'[t].pc = "lock" => ~setTask'[t].internal
  BY TaskKinds DEF TunInv, OwnPatch, Disabling, Applying, patch_verge, lock_config_write
<1>3. OwnPatch'
  BY <1>1, <1>2 DEF TunInv, OwnPatch, Disabling, Applying
<1>4. Answers'
  BY <1>1, <1>2 DEF TunInv, Answers, Disabling, Applying
<1>5. Misfit' <=> Misfit
  BY <1>1 DEF Misfit, tun_should_be_disabled, service_usable, service_needs_attention
<1>6. Watched'
  BY <1>1, <1>2, <1>5 DEF TunInv, Watched, Disabling, Applying
<1> QED
  BY <1>3, <1>4, <1>6 DEF TunInv

\* A reconciliation that is dropped leaves it to the one that writes.
LEMMA CoalescedTun ==
  ASSUME TunInv, SetInv', NEW t \in SetTasks, Coalesces(t)
  PROVE  TunInv'
<1>1. /\ UNCHANGED <<stored, run, DISABLING_TUN, disableFailed>> /\ \A u \in SetTasks \ {t} : setTask'[u] = setTask[u]
      /\ setTask[t].pc = "check"
  BY TaskKinds DEF TunInv, Coalesces, storeVars
<1>2. IF DISABLING_TUN THEN setTask'[t].pc = "idle" ELSE setTask'[t].pc = "reconcile"
  BY DEF TunInv, SetInv, SetType, Tasks, Record, Coalesces, Steps
<1>3. OwnPatch' /\ Answers'
  BY <1>1, <1>2 DEF TunInv, OwnPatch, Answers, Disabling, Applying
<1>4. Misfit' => Misfit /\ stored["tun"]
  BY <1>1 DEF Misfit, tun_should_be_disabled, service_usable, service_needs_attention
<1>5. CASE DISABLING_TUN
  <2> PICK u \in SetTasks : Disabling(u) \/ setTask[u].pc = "clear"
    BY <1>5 DEF TunInv, Answers
  <2>1. CASE Disabling(u)
    <3>1. Disabling(u)'
      BY <1>1, <2>1 DEF Disabling, Applying
    <3> QED
      BY <1>3, <3>1 DEF Watched, TunInv
  <2>2. CASE setTask[u].pc = "clear"
    <3>1. ~stored["tun"] \/ disableFailed
      BY <2>2 DEF TunInv, Answers
    <3> QED
      BY <1>1, <1>3, <1>4, <3>1 DEF Watched, TunInv
  <2> QED
    BY <2>1, <2>2
<1>6. CASE ~DISABLING_TUN
  BY <1>2, <1>3, <1>6 DEF TunInv, Watched
<1> QED
  BY <1>5, <1>6

\* The commit of a patch has TUN looked at again, or turns it off.
LEMMA CommitTun ==
  ASSUME TunInv, SetInv', NEW t \in SetTasks, Commit(t)
  PROVE  TunInv'
<1>1. /\ UNCHANGED <<run, DISABLING_TUN>> /\ \A u \in SetTasks \ {t} : setTask'[u] = setTask[u]
      /\ Applying(t) /\ stored' = Patched(setTask[t].patch)
  BY TaskKinds DEF TunInv, Commit, Applying
<1>2. \A u \in SetTasks \ {t} : setTask[u].pc \notin {"apply", "restart", "clear"}
  BY <1>1 DEF TunInv, SetInv, OneWriter, Applying
<1>3. CASE setTask[t].internal
  <2>1. setTask'[t].pc = "clear"
    BY <1>3, StepMoves, "clear" \in SetPc DEF SetPc, Commit, TunInv, SetInv
  <2>2. ~stored'["tun"]
    <3>1. setTask[t].patch = TunOff
      BY <1>1, <1>3 DEF TunInv, OwnPatch, Disabling, Applying
    <3> QED
      BY <1>1, <3>1 DEF Patched, TunOff, Setting
  <2>3. OwnPatch' /\ Answers'
    BY <1>1, <2>1, <2>2 DEF TunInv, OwnPatch, Answers, Disabling, Applying
  <2>4. ~Misfit'
    BY <2>2 DEF Misfit, tun_should_be_disabled
  <2> QED
    BY <2>3, <2>4 DEF TunInv, Watched
<1>4. CASE ~setTask[t].internal
  <2> DEFINE pc == IF setTask'[t].pc = "check" THEN "check" ELSE "idle"
  <2>1. setTask'[t].pc = pc /\ pc \in {"check", "idle"}
    BY <1>4 DEF Commit, Released, NoPatch, TunInv, SetInv, SetType, Tasks, Record
  <2> HIDE DEF pc
  <2>2. OwnPatch' /\ Answers'
    <3>1. ~DISABLING_TUN
      BY <1>1, <1>2, <1>4 DEF TunInv, Answers, Disabling, Applying
    <3> QED
      BY <1>1, <1>2, <2>1, <3>1 DEF TunInv, OwnPatch, Answers, Disabling, Applying
  <2>3. CASE setTask'[t].pc = "check"
    BY <2>2, <2>3 DEF TunInv, Watched
  <2>4. CASE setTask'[t].pc # "check"
    <3>1. PICK saved \in BOOLEAN :
            /\ "tun" \in DOMAIN setTask[t].patch => ~saved
            /\ disableFailed' = IF saved THEN disableFailed ELSE disableFailed \/ stored'["tun"]
      BY <1>4, <2>4 DEF Commit, Released, NoPatch, TunInv, SetInv, SetType, Tasks, Record
    <3>2. CASE ~saved /\ stored'["tun"]
      BY <2>2, <3>1, <3>2 DEF TunInv, Watched
    <3>3. CASE ~stored'["tun"]
      BY <2>2, <3>3 DEF TunInv, Watched, Misfit, tun_should_be_disabled
    <3>4. CASE saved
      <4>1. stored'["tun"] = stored["tun"] /\ disableFailed' = disableFailed
        BY <1>1, <3>1, <3>4 DEF Patched, Setting
      <4>2. Misfit' <=> Misfit
        BY <1>1, <4>1 DEF Misfit, tun_should_be_disabled, service_usable, service_needs_attention
      <4>3. Watched'
        BY <1>1, <1>2, <1>4, <4>1, <4>2 DEF TunInv, Watched, Disabling, Applying
      <4> QED
        BY <2>2, <4>3 DEF TunInv
    <3> QED
      BY <3>2, <3>3, <3>4
  <2> QED
    BY <2>3, <2>4
<1> QED
  BY <1>3, <1>4

\* A patch that fails changes nothing that TUN or Run State depend on.
LEMMA FailureTun ==
  ASSUME TunInv, SetInv', NEW t \in SetTasks, RollsBack(t)
  PROVE  TunInv'
<1>1. /\ UNCHANGED <<stored, run, DISABLING_TUN>> /\ \A u \in SetTasks \ {t} : setTask'[u] = setTask[u]
      /\ Applying(t)
  BY TaskKinds DEF TunInv, RollsBack
<1>2. \A u \in SetTasks \ {t} : setTask[u].pc \notin {"apply", "restart", "clear"}
  BY <1>1 DEF TunInv, SetInv, OneWriter, Applying
<1>3. Misfit' <=> Misfit
  BY <1>1 DEF Misfit, tun_should_be_disabled, service_usable, service_needs_attention
<1>4. CASE setTask[t].internal
  <2>1. setTask'[t].pc = "clear" /\ disableFailed'
    BY <1>4, StepMoves, "clear" \in SetPc DEF SetPc, RollsBack, TunInv, SetInv
  <2>2. OwnPatch' /\ Answers'
    BY <1>1, <2>1 DEF TunInv, OwnPatch, Answers, Disabling, Applying
  <2> QED
    BY <2>1, <2>2 DEF TunInv, Watched
<1>5. CASE ~setTask[t].internal
  <2>1. setTask'[t].pc = "idle" /\ disableFailed' = disableFailed
    BY <1>5 DEF RollsBack, Released, NoPatch, TunInv, SetInv, SetType, Tasks, Record
  <2>2. ~DISABLING_TUN
    BY <1>1, <1>2, <1>5 DEF TunInv, Answers, Disabling, Applying
  <2>3. OwnPatch' /\ Answers'
    BY <1>1, <1>2, <2>1, <2>2 DEF TunInv, OwnPatch, Answers, Disabling, Applying
  <2>4. Watched'
    BY <1>1, <1>2, <1>3, <1>5, <2>1 DEF TunInv, Watched, Disabling, Applying
  <2> QED
    BY <2>3, <2>4 DEF TunInv
<1> QED
  BY <1>4, <1>5

\* A reconciliation that holds the lock begins to turn TUN off, or need not.
LEMMA ReconcileTun ==
  ASSUME TunInv, SetInv', NEW t \in SetTasks, reconcile_tun_availability(t)
  PROVE  TunInv'
<1>1. /\ UNCHANGED <<stored, run>> /\ writeLock = "free" /\ \A u \in SetTasks \ {t} : setTask'[u] = setTask[u]
  BY TaskKinds DEF TunInv, reconcile_tun_availability, storeVars
<1>2. \A u \in SetTasks : setTask[u].pc \notin {"apply", "restart", "clear"}
  BY <1>1, FreeRests DEF TunInv
<1>3. ~DISABLING_TUN
  BY <1>2 DEF TunInv, Answers, Disabling, Applying
<1>4. Misfit' <=> Misfit
  BY <1>1 DEF Misfit, tun_should_be_disabled, service_usable, service_needs_attention
<1>5. CASE Misfit
  <2>1. setTask'[t].pc = "apply" /\ setTask'[t].internal /\ setTask'[t].patch = TunOff
    BY <1>5 DEF reconcile_tun_availability, Misfit, TunOff, TunInv, SetInv, SetType, Tasks, Record
  <2>2. OwnPatch' /\ Answers'
    BY <1>1, <1>2, <2>1 DEF TunInv, OwnPatch, Answers, Disabling, Applying
  <2> QED
    BY <2>1, <2>2 DEF TunInv, Watched, Disabling, Applying
<1>6. CASE ~Misfit
  <2>1. Steps(t, "idle") /\ DISABLING_TUN' = DISABLING_TUN
    BY <1>6 DEF reconcile_tun_availability, Misfit
  <2>2. setTask'[t].pc = "idle"
    BY <2>1, StepMoves, "idle" \in SetPc DEF SetPc, TunInv, SetInv
  <2>3. OwnPatch' /\ Answers'
    BY <1>1, <1>2, <1>3, <2>1, <2>2 DEF TunInv, OwnPatch, Answers, Disabling, Applying
  <2> QED
    BY <1>4, <1>6, <2>3 DEF TunInv, Watched
<1> QED
  BY <1>5, <1>6

\* Clearing the flag, and then the lock, leaves what was written.
LEMMA DisabledTun ==
  ASSUME TunInv, SetInv', NEW t \in SetTasks, Disabled(t)
  PROVE  TunInv'
<1>1. /\ UNCHANGED <<stored, run, disableFailed>> /\ \A u \in SetTasks \ {t} : setTask'[u] = setTask[u]
      /\ setTask[t].pc = "clear"
  BY TaskKinds DEF TunInv, Disabled, storeVars
<1>2. ~DISABLING_TUN' /\ setTask'[t].pc \in {"clear", "idle"}
  BY <1>1 DEF Disabled, Released, NoPatch, TunInv, SetInv, SetType, Tasks, Record
<1>3. OwnPatch' /\ Answers'
  BY <1>1, <1>2 DEF TunInv, OwnPatch, Answers, Disabling, Applying
<1>4. ~stored["tun"] \/ disableFailed
  BY <1>1 DEF TunInv, Answers
<1>5. Watched'
  BY <1>1, <1>4 DEF Watched, Misfit, tun_should_be_disabled
<1> QED
  BY <1>3, <1>5 DEF TunInv

\* Run State moves and somebody looks; others turn TUN off or start the core.
LEMMA OthersTun ==
  ASSUME TunInv, SetInv', PublishRunState \/ disable_tun_and_persist \/ OthersNext
  PROVE  TunInv'
<1>1. CASE PublishRunState
  <2> PICK t \in SetTasks : setTask[t].pc = "idle" /\ Steps(t, "check")
    BY <1>1 DEF PublishRunState, SetTasks
  <2>1. setTask'[t].pc = "check" /\ \A u \in SetTasks \ {t} : setTask'[u] = setTask[u]
    BY StepMoves, "check" \in SetPc DEF SetPc, TunInv, SetInv
  <2>2. OwnPatch' /\ Answers'
    BY <1>1, <2>1 DEF PublishRunState, storeVars, TunInv, OwnPatch, Answers, Disabling, Applying
  <2> QED
    BY <2>1, <2>2 DEF TunInv, Watched
<1>2. CASE disable_tun_and_persist
  <2>1. ~stored'["tun"] /\ UNCHANGED <<setTask, DISABLING_TUN, disableFailed>>
    BY <1>2 DEF disable_tun_and_persist, TunInv, SetInv, SetType, Setting
  <2>2. OwnPatch' /\ Answers'
    BY <2>1 DEF TunInv, OwnPatch, Answers, Disabling, Applying
  <2> QED
    BY <2>1, <2>2 DEF TunInv, Watched, Misfit, tun_should_be_disabled
<1>3. CASE OthersNext
  <2>1. UNCHANGED <<stored, run, setTask, DISABLING_TUN, disableFailed>>
    BY <1>3 DEF OthersNext, OthersGenerate, OthersStart, UpdateBegins, UpdateSucceeds, UpdateFails
  <2>2. (Misfit' <=> Misfit) /\ \A t \in SetTasks : Disabling(t)' <=> Disabling(t)
    BY <2>1 DEF Misfit, tun_should_be_disabled, service_usable, service_needs_attention, Disabling, Applying
  <2> QED
    BY <2>1, <2>2 DEF TunInv, OwnPatch, Answers, Watched
<1> QED
  BY <1>1, <1>2, <1>3

\* Every step keeps it.
LEMMA TunNextKeeps == TunInv /\ [SetNext]_setVars => TunInv'
<1> SUFFICES ASSUME TunInv, [SetNext]_setVars PROVE TunInv'
  OBVIOUS
<1>1. SetInv'
  BY SetNextKeeps DEF TunInv
<1>2. CASE UNCHANGED setVars
  BY <1>1, <1>2 DEF setVars, storeVars, TunInv, OwnPatch, Answers, Watched, Disabling, Applying, Misfit, tun_should_be_disabled,
                    service_usable, service_needs_attention
<1> QED
  BY <1>1, <1>2, EffectTun, CoalescedTun, CommitTun, FailureTun, ReconcileTun, DisabledTun, OthersTun DEF SetNext, PatchNext, TunNext

\* With nothing under way, TUN is on only where the Run State can carry it or
\* has not decided, unless turning it off failed or nothing runs: a coalesced
\* reconciliation always leaves one behind that has yet to read
\* (reconcile_tun_availability, apply_verge_patch).
THEOREM TunCorrect == SetSpec => []TunIsReconciled
<1>1. TunInv => TunIsReconciled
  <2> SUFFICES ASSUME TunInv, SettingsRest, Misfit, ~disableFailed PROVE FALSE
    BY DEF TunIsReconciled, Misfit
  <2>1. \A t \in SetTasks : setTask[t].pc = "idle"
    BY DEF SettingsRest
  <2> QED
    BY <2>1 DEF TunInv, Watched, Disabling, Applying
<1> QED
  BY <1>1, TunStart, TunNextKeeps, PTL DEF SetSpec
====
