---------------------------- MODULE UpdatesProofs ----------------------------
(***************************************************************************)
(* What the parts that watch and follow configuration updates promise, for *)
(* any number of updates, status() calls, ports and proxy operations: the  *)
(* configuration epoch, the PAC gate, the system proxy and its guard, and  *)
(* the application proxy.                                                  *)
(***************************************************************************)
EXTENDS ConfigEpoch, PacGate, SysProxy, AppProxy, TLAPS

(***************************************************************************)
(* Configuration epoch                                                     *)
(***************************************************************************)

\* The flag makes one updater at a time, so the counters tell its place
\* (Serial); then no even snapshot survives a change (Overtaken).
IndInv == TypeOK /\ Serial /\ Overtaken

USE DEF UpdPcs, ReadPcs

\* Only the parity of the epoch matters; a bump flips it.
LEMMA Parity ==
  ASSUME NEW n \in Nat
  PROVE  /\ n % 2 \in {0, 1}
         /\ n % 2 = 0 => (n + 1) % 2 = 1
         /\ n % 2 = 1 => (n + 1) % 2 = 0
OBVIOUS

\* The counters are at rest and nobody reads when the program starts.
LEMMA InitIndInv == Init => IndInv
BY EpochAssumption DEF Init, IndInv, TypeOK, Serial, Overtaken, Idle

\* Each step of an update keeps the types.
LEMMA UpdateType ==
  ASSUME TypeOK, NEW u \in Updaters, UpdateStep(u), Serial
  PROVE  TypeOK'
<1> USE DEF TypeOK, GoUpd
<1>1. CASE TryStart(u)
  BY <1>1 DEF TryStart
<1>2. CASE BeginDepth(u)
  BY <1>2 DEF BeginDepth
<1>3. CASE BeginEpoch(u)
  BY <1>3 DEF BeginEpoch
<1>4. CASE Update(u)
  <2>1. read' \in [Readers -> [pc : ReadPcs, epoch : Nat, stale : BOOLEAN]]
    <3> SUFFICES ASSUME NEW r \in Readers
                 PROVE  [read[r] EXCEPT !.stale = @ \/ Reading(r)]
                          \in [pc : ReadPcs, epoch : Nat, stale : BOOLEAN]
      BY <1>4 DEF Update
    <3>1. read[r] \in [pc : ReadPcs, epoch : Nat, stale : BOOLEAN]
      OBVIOUS
    <3>2. (read[r].stale \/ Reading(r)) \in BOOLEAN
      BY DEF Reading
    <3> QED
      BY <3>1, <3>2
  <2> QED
    BY <1>4, <2>1 DEF Update
<1>5. CASE FinishDepth(u)
  <2>1. depth = 1
    BY <1>5 DEF FinishDepth, Serial
  <2> QED
    BY <1>5, <2>1 DEF FinishDepth
<1>6. CASE FinishEpoch(u)
  BY <1>6 DEF FinishEpoch
<1>7. CASE Release(u)
  BY <1>7 DEF Release
<1>8. CASE HoldOnly(u)
  BY <1>8 DEF HoldOnly
<1> QED
  BY <1>1, <1>2, <1>3, <1>4, <1>5, <1>6, <1>7, <1>8 DEF UpdateStep

\* Each step of an update moves the counters as its place says.
LEMMA UpdateSerial ==
  ASSUME TypeOK, NEW u \in Updaters, UpdateStep(u), Serial
  PROVE  Serial'
<1> USE EpochAssumption DEF TypeOK, GoUpd, Serial
<1>0. \A v \in Updaters : v # u /\ upd[u] # "idle" => upd[v] = "idle"
  OBVIOUS
<1>1. CASE TryStart(u)
  BY <1>1 DEF TryStart
<1>2. CASE BeginDepth(u)
  BY <1>0, <1>2 DEF BeginDepth
<1>3. CASE BeginEpoch(u)
  BY <1>0, <1>3, Parity DEF BeginEpoch
<1>4. CASE Update(u)
  BY <1>0, <1>4 DEF Update
<1>5. CASE FinishDepth(u)
  BY <1>0, <1>5 DEF FinishDepth
<1>6. CASE FinishEpoch(u)
  BY <1>0, <1>6, Parity DEF FinishEpoch
<1>7. CASE Release(u)
  BY <1>0, <1>7 DEF Release
<1>8. CASE HoldOnly(u)
  BY <1>0, <1>8 DEF HoldOnly
<1> QED
  BY <1>1, <1>2, <1>3, <1>4, <1>5, <1>6, <1>7, <1>8 DEF UpdateStep

\* A change of the runtime happens at an odd epoch, so an even snapshot is
\* older than it.
LEMMA UpdateOvertaken ==
  ASSUME TypeOK, NEW u \in Updaters, UpdateStep(u), Serial, Overtaken
  PROVE  Overtaken'
<1>1. CASE Update(u)
  <2>1. epoch % 2 = 1 /\ epoch' = epoch
    BY <1>1 DEF Update, GoUpd, Serial
  <2> SUFFICES ASSUME NEW r \in Readers
               PROVE  /\ read'[r].epoch <= epoch
                      /\ read'[r].pc \in {"depth", "epoch", "stable"} => read'[r].epoch % 2 = 0
                      /\ read'[r].stale /\ read'[r].epoch % 2 = 0
                           => read'[r].pc # "stable" /\ read'[r].epoch < epoch
    BY <2>1 DEF Overtaken
  <2>2. /\ read[r].epoch \in Nat /\ epoch \in Nat
        /\ read[r] \in [pc : ReadPcs, epoch : Nat, stale : BOOLEAN]
    BY DEF TypeOK
  <2>3. /\ read'[r].pc = read[r].pc
        /\ read'[r].epoch = read[r].epoch
        /\ read'[r].stale = (read[r].stale \/ Reading(r))
    BY <1>1, <2>2 DEF Update
  <2>4. read[r].epoch % 2 = 0 => read[r].epoch < epoch
    BY <2>1, <2>2 DEF Overtaken
  <2> QED
    BY <2>2, <2>3, <2>4 DEF Overtaken, Reading
<1>2. CASE read' = read /\ epoch' \in {epoch, epoch + 1}
  BY <1>2 DEF Overtaken, TypeOK
<1> QED
  BY <1>1, <1>2 DEF UpdateStep, TryStart, HoldOnly, BeginDepth, BeginEpoch,
                      FinishDepth, FinishEpoch, Release

\* A status() call moves no counter, and moves on only as they allow.
LEMMA ReadIndInv ==
  ASSUME IndInv, NEW r \in Readers, ReadStep(r)
  PROVE  IndInv'
<1> USE DEF IndInv, TypeOK, GoRead
<1>1. UNCHANGED <<flag, depth, epoch, upd>>
  BY DEF ReadStep, Snapshot, CheckParity, CheckDepth, CheckEpoch, Return
<1>2. Serial'
  BY <1>1 DEF Serial
<1>3. read[r] \in [pc : ReadPcs, epoch : Nat, stale : BOOLEAN]
  OBVIOUS
<1>4. CASE Snapshot(r)
  BY <1>1, <1>2, <1>4 DEF Snapshot, Overtaken
<1>5. CASE CheckParity(r)
  BY <1>1, <1>2, <1>3, <1>5 DEF CheckParity, Overtaken
<1>6. CASE CheckDepth(r)
  BY <1>1, <1>2, <1>3, <1>6 DEF CheckDepth, Overtaken
<1>7. CASE CheckEpoch(r)
  BY <1>1, <1>2, <1>3, <1>7 DEF CheckEpoch, Overtaken
<1>8. CASE Return(r)
  BY <1>1, <1>2, <1>8 DEF Return, Overtaken, Idle
<1> QED
  BY <1>4, <1>5, <1>6, <1>7, <1>8 DEF ReadStep

\* The inductive invariant holds throughout.
THEOREM Invariant == Spec => []IndInv
<1>1. Init => IndInv
  BY InitIndInv
<1>2. IndInv /\ [Next]_vars => IndInv'
  <2> SUFFICES ASSUME IndInv, [Next]_vars PROVE IndInv'
    OBVIOUS
  <2>1. CASE \E u \in Updaters : UpdateStep(u)
    BY <2>1, UpdateType, UpdateSerial, UpdateOvertaken DEF IndInv
  <2>2. CASE \E r \in Readers : ReadStep(r)
    BY <2>2, ReadIndInv
  <2>3. CASE UNCHANGED vars
    BY <2>3 DEF IndInv, TypeOK, Serial, Overtaken, Reading, vars
  <2> QED
    BY <2>1, <2>2, <2>3 DEF Next
<1> QED
  BY <1>1, <1>2, PTL DEF Spec

\* What config_update_is_current calls stable was not changed while status()
\* read it.
THEOREM StableCorrect == Spec => []StableMeansUnchanged
<1>1. IndInv => StableMeansUnchanged
  BY DEF IndInv, TypeOK, Overtaken, StableMeansUnchanged
<1> QED
  BY <1>1, Invariant, PTL

\* Between updates the counters are at rest.
THEOREM SettlesCorrect == Spec => []EpochSettles
<1>1. IndInv => EpochSettles
  BY DEF IndInv, Serial, EpochSettles
<1> QED
  BY <1>1, Invariant, PTL

HIDE DEF UpdPcs, ReadPcs

(***************************************************************************)
(* PAC gate                                                                *)
(***************************************************************************)

\* The steps of a save and of a gate job, and what a save carries.
SavePc == {"idle", "staged", "hidden", "assessed", "restarting", "persist", "undo", "undoing",
           "settle", "reopen", "drop"}
JobPc == {"done", "stopping", "closing", "leaving", "starting", "entering", "opening"}

SaveType == [pc : SavePc, was : BOOLEAN, running : BOOLEAN]

\* Every variable has its type.
PacTypeOK ==
  /\ mode \in {"NotRunning", "Running"} /\ pac \in BOOLEAN
  /\ save \in SaveType
  /\ job \in [by : {"none", "user", "save"}, goal : {"none", "start", "stop", "restart"}, pc : JobPc]

\* A save waits for the jobs it begins, and beside it nothing but a stop goes
\* on: no core starts between its steps.
Beside ==
  /\ job.by = "none" => job.pc = "done"
  /\ job.by = "save" <=> save.pc \in {"restarting", "undoing"}
  /\ job.by = "user" /\ save.pc # "idle" => job.goal = "stop"
  /\ job.pc \in {"starting", "entering", "opening"} => job.goal # "stop"

\* Where PAC may be closed in front of a running core: on the way to another
\* mode, or in a save that has yet to settle.
Hidden ==
  mode = "Running" /\ ~pac =>
    \/ job.pc \in {"leaving", "opening"}
    \/ save.pc \in {"hidden", "assessed", "restarting", "persist", "undo", "undoing", "settle"}
    \/ save.pc = "reopen" /\ save.running

\* What settle read stays true until it moves the switch.
ReadStands == save.pc = "reopen" /\ ~save.running => mode = "NotRunning"

USE DEF SavePc, JobPc, SaveType

\* The inductive invariant.
GateInv == PacTypeOK /\ Beside /\ Hidden /\ ReadStands

\* Nothing is under way when the program starts, and PAC is closed.
LEMMA GateStart == PacInit => GateInv
<1> SUFFICES ASSUME PacInit PROVE GateInv
  OBVIOUS
<1>1. NoSave \in SaveType
  BY DEF NoSave
<1>2. Beside /\ Hidden /\ ReadStands
  BY DEF PacInit, Beside, Hidden, ReadStands, NoSave, NoJob
<1> HIDE DEF SaveType
<1>3. PacTypeOK
  BY <1>1 DEF PacInit, PacTypeOK, NoJob
<1> QED
  BY <1>2, <1>3 DEF GateInv

\* The steps of a start, a stop or a restart under the lifecycle lock.
LEMMA JobKeeps ==
  ASSUME GateInv, JobStep
  PROVE  GateInv'
<1> USE DEF GateInv, PacTypeOK, Beside, Hidden, ReadStands, NoJob, JobMove, JobEnd, SaveResume, SaveGoto
<1>1. CASE Halt
  BY <1>1 DEF Halt
<1>2. CASE ClosePac
  BY <1>2 DEF ClosePac
<1>3. CASE LeaveMode
  BY <1>3 DEF LeaveMode
<1>4. CASE Boot
  BY <1>4 DEF Boot
<1>5. CASE EnterMode
  BY <1>5 DEF EnterMode
<1>6. CASE OpenPac
  BY <1>6 DEF OpenPac
<1> QED
  BY <1>1, <1>2, <1>3, <1>4, <1>5, <1>6 DEF JobStep

\* The steps of save_proxy_ports.
LEMMA SaveKeeps ==
  ASSUME GateInv, SaveStep
  PROVE  GateInv'
<1> USE DEF GateInv, PacTypeOK, Beside, Hidden, ReadStands, NoJob, NoSave, SaveGoto, Job
<1>1. CASE SaveStage \/ SaveHide \/ SaveAssess \/ SaveReject
  BY <1>1 DEF SaveStage, SaveHide, SaveAssess, SaveReject
<1>2. CASE SaveActivate
  BY <1>2 DEF SaveActivate
<1>3. CASE SavePersist \/ SettleWrite
  BY <1>3 DEF SavePersist, SettleWrite
<1>4. CASE SettleRead
  BY <1>4 DEF SettleRead
<1>5. CASE SaveDrop
  BY <1>5 DEF SaveDrop
<1>6. CASE SaveUndo
  BY <1>6 DEF SaveUndo
<1> QED
  BY <1>1, <1>2, <1>3, <1>4, <1>5, <1>6 DEF SaveStep

\* Every step keeps it.
LEMMA GateNext == GateInv /\ [PacNext]_pacVars => GateInv'
<1> SUFFICES ASSUME GateInv, [PacNext]_pacVars PROVE GateInv'
  OBVIOUS
<1>1. ASSUME NEW goal \in {"start", "stop"}, JobBegin(goal) PROVE GateInv'
  BY <1>1 DEF JobBegin, Job, NoJob, GateInv, PacTypeOK, Beside, Hidden, ReadStands
<1>2. CASE UNCHANGED pacVars
  BY <1>2 DEF pacVars, GateInv, PacTypeOK, Beside, Hidden, ReadStands, NoJob
<1> QED
  BY <1>1, <1>2, JobKeeps, SaveKeeps DEF PacNext

\* The endpoint of a running core is open whenever nothing is under way: no
\* way out of save_proxy_ports leaves it hidden.
THEOREM OpenCorrect == PacSpec => []OpenWhenServing
<1>1. GateInv => OpenWhenServing
  BY DEF GateInv, Hidden, OpenWhenServing, Quiet, NoSave, NoJob
<1> QED
  BY <1>1, GateStart, GateNext, PTL DEF PacSpec

HIDE DEF SavePc, JobPc, SaveType

(***************************************************************************)
(* System proxy and its guard                                              *)
(***************************************************************************)

\* The OS setting, what an operation may aim at, who calls, and where a call is.
Switches == [sys : {"off", "ours", "other"}, auto : {"off", "ours", "other"}]
Aims     == Wants \cup {Nobody, "off"}
Callers  == {Nobody, "update", "reset", "refresh", "stop"}
ProxyPc  ==
  {"idle", "drain", "observe", "snapshot", "write1", "write2", "readback", "compensate",
   "disable", "disable again", "reconcile", "skipped"}
\* The call under way, and the guard.
Calls ==
  [pc : ProxyPc, op : Callers, target : Aims, type : Aims, same : BOOLEAN, was : BOOLEAN,
   drained : BOOLEAN, reached : BOOLEAN, then : ProxyPc]

Guards == [st : {"stopped", "stopping", "running"}, type : Aims, writing : Aims]

\* Every variable has its type.
SysType ==
  /\ os \in Switches /\ guard \in Guards /\ t \in Calls /\ want \in Aims
  /\ last \in [op : Callers, how : {"done", "failed", "disabled"}]

\* The guard's target is the confirmed one, and a guard that stopped has nothing
\* in flight.
GuardSound(g, c) ==
  /\ g \in Guards /\ g.type \in {Nobody, c}
  /\ g.st = "stopped" => g.writing = Nobody

\* An update brings the target it is about to confirm, and an operation that saw
\* the guard stop finds it stopped until it ends.
CallSound(u, g) ==
  /\ u \in Calls
  /\ u.op = "update" => u.type \in {Nobody, u.target}
  /\ u.drained = TRUE => g.st = "stopped"
  /\ u.pc = "drain" => u.then \in {"skipped", "snapshot", "disable again", "reconcile"}
  /\ u.pc \in {"readback", "write1", "write2"} => u.op = "update"

\* Nothing is left to write after a reset that disabled the proxy.
OffForGood ==
  t.pc = "idle" /\ last.op = "reset" /\ last.how = "disabled"
    => guard.st = "stopped" /\ os.sys # "ours" /\ os.auto # "ours"

\* The inductive invariant.
SysInv == SysType /\ GuardSound(guard, confirmed) /\ CallSound(t, guard) /\ OffForGood

\* The members of the sets above, for proofs that leave the sets closed.
LEMMA Members ==
  /\ Wants \subseteq Aims /\ Nobody \in Aims /\ "off" \in Aims
  /\ Nobody \in Callers /\ "update" \in Callers /\ "reset" \in Callers
  /\ "refresh" \in Callers /\ "stop" \in Callers
  /\ "idle" \in ProxyPc /\ "drain" \in ProxyPc /\ "observe" \in ProxyPc /\ "snapshot" \in ProxyPc
  /\ "write1" \in ProxyPc /\ "write2" \in ProxyPc /\ "readback" \in ProxyPc
  /\ "compensate" \in ProxyPc /\ "disable" \in ProxyPc /\ "disable again" \in ProxyPc
  /\ "reconcile" \in ProxyPc /\ "skipped" \in ProxyPc
BY DEF Aims, Callers, ProxyPc

\* One call after a step of it: what it asked for stays.
Like(y, x) == y \in Calls /\ y.op = x.op /\ y.target = x.target /\ y.type = x.type

\* No call.
LEMMA IdleCall == OpIdle \in Calls /\ OpIdle.pc = "idle" /\ OpIdle.drained = FALSE /\ OpIdle.type = Nobody
BY Members DEF Calls, OpIdle

\* It holds when the application starts.
LEMMA SysStart == SysProxyInit => SysInv
<1> SUFFICES ASSUME SysProxyInit PROVE SysInv
  OBVIOUS
<1>1. os \in Switches
  BY DEF SysProxyInit, Switches, Target
<1>2. t \in Calls /\ t.pc = "idle" /\ t.drained = FALSE /\ t.type = Nobody
  BY IdleCall DEF SysProxyInit
<1> QED
  BY <1>1, <1>2, Members DEF SysProxyInit, SysInv, SysType, Guards, GuardSound, CallSound, OffForGood


-----------------------------------------------------------------------------
(* What a step does to the invariant, by what it does to the call. *)

\* The call ends, other than by disabling the proxy.
LEMMA CallEnds ==
  ASSUME SysInv, t' = OpIdle, NEW h \in {"done", "failed"}, last' = [op |-> t.op, how |-> h],
         os' \in Switches, GuardSound(guard', confirmed'), want' = want
  PROVE  SysInv'
<1>1. last' \in [op : Callers, how : {"done", "failed", "disabled"}] /\ last'.how # "disabled"
  <2>1. t.op \in Callers
    BY DEF SysInv, SysType, Calls
  <2> QED
    BY <2>1
<1>2. CallSound(t', guard')
  BY IdleCall DEF CallSound
<1> QED
  BY <1>1, <1>2 DEF SysInv, SysType, GuardSound, CallSound, OffForGood

\* The call goes on.
LEMMA CallMoves ==
  ASSUME SysInv, Like(t', t), t'.pc # "idle", last' = last, want' = want,
         t'.pc = "drain" => t'.then \in {"skipped", "snapshot", "disable again", "reconcile"},
         t'.drained = TRUE => guard'.st = "stopped",
         t'.pc \in {"readback", "write1", "write2"} => t.op = "update",
         os' \in Switches, GuardSound(guard', confirmed')
  PROVE  SysInv'
<1>1. CallSound(t', guard')
  BY DEF CallSound, SysInv, Like
<1> QED
  BY <1>1 DEF SysInv, SysType, GuardSound, CallSound, OffForGood

\* A call begins.
LEMMA CallBegins ==
  ASSUME SysInv, t' \in Calls, t'.drained = FALSE, t'.pc \in {"drain", "observe"}, last' = last, want' = want,
         t'.pc = "drain" => t'.then \in {"skipped", "snapshot", "disable again", "reconcile"},
         t'.op = "update" => t'.type \in {Nobody, t'.target},
         os' \in Switches, GuardSound(guard', confirmed')
  PROVE  SysInv'
<1>1. CallSound(t', guard')
  BY DEF CallSound
<1> QED
  BY <1>1 DEF SysInv, SysType, GuardSound, CallSound, OffForGood

\* What an operation does with the guard leaves it sound.
LEMMA ShutdownSound ==
  ASSUME SysInv, GuardShutdown
  PROVE  GuardSound(guard', confirmed) /\ (guard.st = "stopped" => guard'.st = "stopped")
BY DEF SysInv, GuardSound, GuardShutdown, Guards

\* Starting the guard aims it at what is confirmed.
LEMMA StartSound ==
  ASSUME SysInv PROVE GuardSound(Start, confirmed)
BY DEF SysInv, GuardSound, Start, Guards

\* A guard aimed at the target of an update enforces nothing else once that is confirmed.
LEMMA AimedSound ==
  ASSUME SysInv, t.op = "update"
  PROVE  /\ GuardSound([guard EXCEPT !.type = t.type], t.target)
         /\ [guard EXCEPT !.type = t.type].st = guard.st
<1>1. t.type \in Aims /\ t.type \in {Nobody, t.target}
  BY DEF SysInv, CallSound, Calls
<1> QED
  BY <1>1 DEF SysInv, GuardSound, Guards

\* A guard without an aim is sound whatever is confirmed.
LEMMA NoAimSound ==
  ASSUME SysInv
  PROVE  GuardSound([guard EXCEPT !.type = Nobody], confirmed) /\ [guard EXCEPT !.type = Nobody].st = guard.st
BY Members DEF SysInv, GuardSound, Guards

\* The writes keep the shape of the OS setting.
LEMMA WritesSwitches ==
  ASSUME NEW o \in Switches, NEW b \in BOOLEAN
  PROVE  set_system_proxy(o, b) \in Switches /\ set_auto_proxy(o, b) \in Switches
BY DEF set_system_proxy, set_auto_proxy, Switches

\* So does switching both off, whichever write fails.
LEMMA DisableSwitches ==
  ASSUME NEW o \in Switches, NEW x \in DisableBoth(o) PROVE x \in Switches
BY WritesSwitches DEF DisableBoth

-----------------------------------------------------------------------------
(* The operations. *)

\* An update begins.
LEMMA UpdateBeginKeeps == SysInv /\ UpdateBegin => SysInv'
<1> SUFFICES ASSUME SysInv, UpdateBegin PROVE SysInv'
  OBVIOUS
<1>1. want \in Aims /\ GuardType \in Aims /\ GuardType \in {Nobody, want}
  BY Members DEF SysInv, SysType, GuardType
<1>3. os' \in Switches /\ last' = last /\ want' = want /\ confirmed' = confirmed
  BY DEF UpdateBegin, settings, SysInv, SysType
<1> DEFINE rec == [OpIdle EXCEPT !.op = "update", !.target = want, !.type = GuardType]
<1>2. rec \in Calls /\ rec.op = "update" /\ rec.drained = FALSE /\ rec.type = GuardType /\ rec.target = want
  BY <1>1, Members DEF Calls, OpIdle
<1> HIDE DEF rec
<1>4. CASE t' = [rec EXCEPT !.pc = "drain", !.then = "skipped"] /\ GuardShutdown
  <2>1. Like(t', rec) /\ t'.pc = "drain" /\ t'.then = "skipped" /\ t'.drained = rec.drained
    BY <1>4, <1>2, Members DEF Calls, Like
  <2> QED
    BY <2>1, <1>1, <1>2, <1>3, <1>4, ShutdownSound, CallBegins DEF Like
<1>5. CASE t' = [rec EXCEPT !.pc = "observe"] /\ guard' = guard
  <2>1. Like(t', rec) /\ t'.pc = "observe" /\ t'.drained = rec.drained
    BY <1>5, <1>2, Members DEF Calls, Like
  <2> QED
    BY <2>1, <1>1, <1>2, <1>3, <1>5, CallBegins DEF Like, SysInv
<1> QED
  BY <1>4, <1>5 DEF UpdateBegin, rec

\* It reads the OS setting.
LEMMA UpdateObserveKeeps == SysInv /\ UpdateObserve => SysInv'
<1> SUFFICES ASSUME SysInv, UpdateObserve PROVE SysInv'
  OBVIOUS
<1>1. os' \in Switches /\ want' = want /\ confirmed' = confirmed
  BY DEF UpdateObserve, settings, SysInv, SysType
<1>2. CASE SysReturn("failed") /\ guard' = guard
  BY <1>1, <1>2, CallEnds DEF SysReturn, SysInv
<1>3. CASE Drain("skipped") /\ UNCHANGED last
  <2>1. Like(t', t) /\ t'.pc = "drain" /\ t'.then = "skipped" /\ t'.drained = t.drained
    BY <1>3, Members DEF Drain, SysInv, SysType, Calls, Like
  <2> QED
    BY <2>1, <1>1, <1>3, ShutdownSound, CallMoves DEF Drain, SysInv, CallSound
<1>4. ASSUME GuardShutdown, UNCHANGED last, NEW same \in BOOLEAN,
             t' = [t EXCEPT !.pc = "drain", !.then = "snapshot", !.same = same, !.was = guard.st # "stopped"]
      PROVE  SysInv'
  <2>1. Like(t', t) /\ t'.pc = "drain" /\ t'.then = "snapshot" /\ t'.drained = t.drained
    BY <1>4, Members DEF SysInv, SysType, Calls, Like
  <2> QED
    BY <2>1, <1>1, <1>4, ShutdownSound, CallMoves DEF SysInv, CallSound
<1> QED
  BY <1>2, <1>3, <1>4 DEF UpdateObserve

\* It looks again once the guard is idle.
LEMMA UpdateSnapshotKeeps == SysInv /\ UpdateSnapshot => SysInv'
<1> SUFFICES ASSUME SysInv, UpdateSnapshot PROVE SysInv'
  OBVIOUS
<1>1. os' \in Switches /\ want' = want /\ t.op = "update"
  BY DEF UpdateSnapshot, settings, SysInv, SysType
<1>2. CASE SysReturn("done") /\ guard' = [guard EXCEPT !.type = t.type] /\ confirmed' = t.target
  BY <1>1, <1>2, AimedSound, CallEnds DEF SysReturn
<1>3. CASE Goto("write1") /\ UNCHANGED <<guard, last, confirmed>>
  <2>1. Like(t', t) /\ t'.pc = "write1" /\ t'.drained = t.drained
    BY <1>3, Members DEF Goto, SysInv, SysType, Calls, Like
  <2> QED
    BY <2>1, <1>1, <1>3, CallMoves DEF SysInv, CallSound
<1> QED
  BY <1>2, <1>3 DEF UpdateSnapshot

\* It writes one of the two settings.
LEMMA UpdateWriteKeeps == ASSUME SysInv, NEW n \in 1 .. 2, UpdateWrite(n) PROVE SysInv'
<1> DEFINE next == IF n = 1 THEN "write2" ELSE "readback"
           reaches == Apply(proxy_apply_steps(t.target)[n], os, t.target)
<1>1. next \in ProxyPc /\ next \in {"write2", "readback"}
  BY Members
<1>2. reaches \in Switches
  BY WritesSwitches DEF Apply, SysInv, SysType
<1>3. want' = want /\ confirmed' = confirmed /\ t.op = "update"
  BY DEF UpdateWrite, settings, SysInv, CallSound
<1> HIDE DEF next, reaches
<1>4. CASE os' = reaches /\ t' = [t EXCEPT !.pc = next, !.reached = TRUE] /\ UNCHANGED <<guard, last>>
  <2>1. Like(t', t) /\ t'.pc = next /\ t'.drained = t.drained
    BY <1>1, <1>4 DEF SysInv, SysType, Calls, Like
  <2> QED
    BY <2>1, <1>1, <1>2, <1>3, <1>4, CallMoves DEF SysInv, CallSound
<1>5. CASE Goto(next) /\ UNCHANGED <<os, guard, last>>
  <2>1. Like(t', t) /\ t'.pc = next /\ t'.drained = t.drained
    BY <1>1, <1>5 DEF Goto, SysInv, SysType, Calls, Like
  <2>2. os' \in Switches
    BY <1>5 DEF SysInv, SysType
  <2> QED
    BY <2>1, <2>2, <1>1, <1>3, <1>5, CallMoves DEF SysInv, CallSound
<1>6. ASSUME NEW halfway \in BOOLEAN, os' = (IF halfway THEN reaches ELSE os),
             RecoverGuard(StateUnknown(halfway)),
             IF StateUnknown(halfway) THEN Goto("compensate") /\ UNCHANGED last ELSE SysReturn("failed")
      PROVE  SysInv'
  <2>1. os' \in Switches
    BY <1>2, <1>6 DEF SysInv, SysType
  <2>2. CASE StateUnknown(halfway)
    <3>1. Like(t', t) /\ t'.pc = "compensate" /\ t'.drained = t.drained
      BY <1>6, <2>2, Members DEF Goto, SysInv, SysType, Calls, Like
    <3> QED
      BY <3>1, <2>1, <2>2, <1>3, <1>6, NoAimSound, CallMoves DEF RecoverGuard, SysInv, CallSound
  <2>3. CASE ~StateUnknown(halfway)
    BY <2>1, <2>3, <1>3, <1>6, StartSound, CallEnds DEF RecoverGuard, SysReturn, SysInv
  <2> QED
    BY <2>2, <2>3
<1> QED
  BY <1>4, <1>5, <1>6 DEF UpdateWrite, next, reaches

\* It takes back a write that was not completed: both are switched off.
LEMMA UpdateCompensateKeeps == SysInv /\ UpdateCompensate => SysInv'
<1> SUFFICES ASSUME SysInv, UpdateCompensate PROVE SysInv'
  OBVIOUS
<1>1. os' \in Switches
  BY DisableSwitches DEF UpdateCompensate, SysInv, SysType
<1> QED
  BY <1>1, CallEnds DEF UpdateCompensate, SysReturn, settings, SysInv

\* It reads back what it wrote.
LEMMA UpdateReadbackKeeps == SysInv /\ UpdateReadback => SysInv'
<1> SUFFICES ASSUME SysInv, UpdateReadback PROVE SysInv'
  OBVIOUS
<1>1. os' \in Switches /\ want' = want /\ t.op = "update"
  BY DEF UpdateReadback, settings, SysInv, SysType, CallSound
<1>2. CASE SysReturn("done") /\ guard' = [guard EXCEPT !.type = t.type] /\ confirmed' = t.target
  BY <1>1, <1>2, AimedSound, CallEnds DEF SysReturn
<1>3. CASE SysReturn("failed") /\ UNCHANGED <<guard, confirmed>>
  BY <1>1, <1>3, CallEnds DEF SysReturn, SysInv
<1> QED
  BY <1>2, <1>3 DEF UpdateReadback

\* A reset begins.
LEMMA ResetBeginKeeps == SysInv /\ ResetBegin => SysInv'
<1> SUFFICES ASSUME SysInv, ResetBegin PROVE SysInv'
  OBVIOUS
<1>1. os' = os /\ want' = want /\ guard' = guard /\ confirmed' = confirmed
  BY DEF ResetBegin, settings
<1>2. CASE last' = [op |-> "reset", how |-> "done"] /\ UNCHANGED t
  <2>1. last' \in [op : Callers, how : {"done", "failed", "disabled"}] /\ last'.how = "done"
    BY <1>2, Members
  <2> QED
    BY <2>1, <1>1, <1>2 DEF SysInv, SysType, OffForGood
<1>3. CASE t' = [OpIdle EXCEPT !.op = "reset", !.pc = "observe"] /\ UNCHANGED last
  <2>1. t' \in Calls /\ t'.op = "reset" /\ t'.pc = "observe" /\ t'.drained = FALSE
    BY <1>3, Members DEF Calls, OpIdle
  <2> QED
    BY <2>1, <1>1, <1>3, CallBegins DEF SysInv, SysType
<1> QED
  BY <1>2, <1>3 DEF ResetBegin

\* It reads the OS setting.
LEMMA ResetObserveKeeps == SysInv /\ ResetObserve => SysInv'
<1> SUFFICES ASSUME SysInv, ResetObserve PROVE SysInv'
  OBVIOUS
<1>1. os' \in Switches /\ want' = want /\ confirmed' = confirmed
  BY DEF ResetObserve, settings, SysInv, SysType
<1>2. ASSUME NEW h \in {"done", "failed"}, SysReturn(h), guard' = guard PROVE SysInv'
  BY <1>1, <1>2, CallEnds DEF SysReturn, SysInv
<1>3. CASE GuardShutdown /\ UNCHANGED last /\ t' = [t EXCEPT !.pc = "drain", !.then = "snapshot"]
  <2>1. Like(t', t) /\ t'.pc = "drain" /\ t'.then = "snapshot" /\ t'.drained = t.drained
    BY <1>3, Members DEF SysInv, SysType, Calls, Like
  <2> QED
    BY <2>1, <1>1, <1>3, ShutdownSound, CallMoves DEF SysInv, CallSound
<1> QED
  BY <1>2, <1>3 DEF ResetObserve

\* It looks again: all is off already, or has to be switched off.
LEMMA ResetSnapshotKeeps == SysInv /\ ResetSnapshot => SysInv'
<1> SUFFICES ASSUME SysInv, ResetSnapshot PROVE SysInv'
  OBVIOUS
<1>1. os' \in Switches /\ want' = want /\ confirmed' = confirmed /\ guard' = guard
  BY DEF ResetSnapshot, settings, SysInv, SysType
<1>2. CASE SysReturn("done")
  BY <1>1, <1>2, CallEnds DEF SysReturn, SysInv
<1>3. CASE Goto("disable") /\ UNCHANGED last
  <2>1. Like(t', t) /\ t'.pc = "disable" /\ t'.drained = t.drained
    BY <1>3, Members DEF Goto, SysInv, SysType, Calls, Like
  <2> QED
    BY <2>1, <1>1, <1>3, CallMoves DEF SysInv, CallSound
<1> QED
  BY <1>2, <1>3 DEF ResetSnapshot

\* The call that disables: it saw the guard stop, so nothing is in flight.
LEMMA DisabledKeeps == ASSUME SysInv, NEW again \in BOOLEAN, Disabled(again) PROVE SysInv'
<1>1. os' \in Switches /\ want' = want /\ confirmed' = confirmed
  BY DisableSwitches DEF Disabled, settings, SysInv, SysType
<1>2. ASSUME NEW h \in {"done", "failed"}, SysReturn(h), guard' = guard PROVE SysInv'
  BY <1>1, <1>2, CallEnds DEF SysReturn, SysInv
<1>3. CASE SysReturn("disabled") /\ t.drained /\ os' = AllOff /\ guard' = guard
  <2>1. guard.st = "stopped"
    BY <1>3 DEF SysInv, SysType, CallSound, Calls
  <2>2. last' \in [op : Callers, how : {"done", "failed", "disabled"}]
    BY <1>3 DEF SysReturn, SysInv, SysType, Calls
  <2>3. CallSound(t', guard')
    BY <1>3, IdleCall DEF SysReturn, CallSound
  <2>4. OffForGood'
    BY <2>1, <1>3 DEF OffForGood, AllOff
  <2> QED
    BY <2>2, <2>3, <2>4, <1>1, <1>3 DEF SysInv, SysType, CallSound
<1>4. CASE Drain("disable again") /\ UNCHANGED last
  <2>1. Like(t', t) /\ t'.pc = "drain" /\ t'.then = "disable again" /\ t'.drained = t.drained
    BY <1>4, Members DEF Drain, SysInv, SysType, Calls, Like
  <2> QED
    BY <2>1, <1>1, <1>4, ShutdownSound, CallMoves DEF Drain, SysInv, CallSound
<1> QED
  BY <1>2, <1>3, <1>4 DEF Disabled

\* A refresh or a stop of the guard begins.
LEMMA RefreshStopKeeps == SysInv /\ (RefreshBegin \/ StopBegin) => SysInv'
<1> SUFFICES ASSUME SysInv, RefreshBegin \/ StopBegin PROVE SysInv'
  OBVIOUS
<1>1. /\ os' \in Switches /\ want' = want /\ confirmed' = confirmed /\ last' = last
      /\ GuardShutdown
  BY DEF RefreshBegin, StopBegin, settings, SysInv, SysType
<1>2. /\ t' \in Calls /\ t'.op \in {"refresh", "stop"} /\ t'.pc = "drain" /\ t'.drained = FALSE
      /\ t'.then \in {"reconcile", "skipped"}
  BY Members DEF RefreshBegin, StopBegin, Calls, OpIdle
<1> QED
  BY <1>1, <1>2, ShutdownSound, CallBegins

\* A refresh aims the guard at what is confirmed.
LEMMA RefreshReconcileKeeps == SysInv /\ RefreshReconcile => SysInv'
<1> SUFFICES ASSUME SysInv, RefreshReconcile PROVE SysInv'
  OBVIOUS
<1>1. os' \in Switches /\ want' = want /\ confirmed' = confirmed
  BY DEF RefreshReconcile, settings, SysInv, SysType
<1>2. CASE Drain("skipped") /\ UNCHANGED last
  <2>1. Like(t', t) /\ t'.pc = "drain" /\ t'.then = "skipped" /\ t'.drained = t.drained
    BY <1>2, Members DEF Drain, SysInv, SysType, Calls, Like
  <2> QED
    BY <2>1, <1>1, <1>2, ShutdownSound, CallMoves DEF Drain, SysInv, CallSound
<1>3. CASE guard' = Start /\ SysReturn("done")
  BY <1>1, <1>3, StartSound, CallEnds DEF SysReturn
<1> QED
  BY <1>2, <1>3 DEF RefreshReconcile

\* An operation that waits for the guard's last write goes on.
LEMMA DrainEndsKeeps == ASSUME SysInv, NEW d \in BOOLEAN, DrainEnds(d) PROVE SysInv'
<1>1. os' \in Switches /\ want' = want /\ confirmed' = confirmed /\ guard' = guard
  BY DEF DrainEnds, settings, SysInv, SysType
<1>2. CASE SysReturn("done")
  BY <1>1, <1>2, CallEnds DEF SysReturn, SysInv
<1>3. CASE t.then # "skipped" /\ t' = [t EXCEPT !.pc = t.then, !.drained = d] /\ UNCHANGED last
  <2>1. Like(t', t) /\ t'.pc = t.then /\ t'.then = t.then /\ t'.drained = d
    BY <1>3 DEF SysInv, SysType, Calls, Like
  <2>2. d = TRUE => guard.st = "stopped"
    BY DEF DrainEnds
  <2>3. t.then \in {"snapshot", "disable again", "reconcile"}
    BY <1>3 DEF DrainEnds, SysInv, CallSound
  <2> QED
    BY <2>1, <2>2, <2>3, <1>1, <1>3, CallMoves DEF SysInv, CallSound
<1> QED
  BY <1>2, <1>3 DEF DrainEnds

\* The guard writes only what it was aimed at while it ran.
LEMMA GuardKeeps == SysInv /\ (GuardTick \/ GuardWrite \/ GuardStops) => SysInv'
<1> SUFFICES ASSUME SysInv, GuardTick \/ GuardWrite \/ GuardStops PROVE SysInv'
  OBVIOUS
<1>1. t' = t /\ last' = last /\ want' = want /\ confirmed' = confirmed
  BY DEF GuardTick, GuardWrite, GuardStops, settings
<1>2. GuardSound(guard', confirmed) /\ (guard.st = "stopped" => guard'.st = "stopped")
  BY Members DEF GuardTick, GuardWrite, GuardStops, SysInv, GuardSound, Guards
<1>3. os' \in Switches
  BY WritesSwitches DEF GuardTick, GuardWrite, GuardStops, SysInv, SysType
<1>4. OffForGood'
  <2>1. CASE os' = os
    BY <2>1, <1>1, <1>2 DEF OffForGood, SysInv
  <2>2. CASE GuardWrite
    BY <2>2, <1>1 DEF GuardWrite, OffForGood, SysInv, GuardSound
  <2> QED
    BY <2>1, <2>2 DEF GuardTick, GuardStops
<1> QED
  BY <1>1, <1>2, <1>3, <1>4 DEF SysInv, SysType, GuardSound, CallSound

\* Others write nothing of ours, and the settings reach nothing by themselves.
LEMMA WorldKeeps == SysInv /\ (OtherWrites \/ UserEdits \/ UNCHANGED sysVars) => SysInv'
<1> SUFFICES ASSUME SysInv, OtherWrites \/ UserEdits \/ UNCHANGED sysVars PROVE SysInv'
  OBVIOUS
<1>1. t' = t /\ last' = last /\ guard' = guard /\ confirmed' = confirmed
  BY DEF OtherWrites, UserEdits, sysVars
<1>2. os' \in Switches /\ (os' = os \/ (os'.sys # "ours" /\ os'.auto # "ours"))
  <2>1. CASE os' = os
    BY <2>1 DEF SysInv, SysType
  <2>2. CASE os' = AllOff \/ os' = [sys |-> "other", auto |-> "off"]
    BY <2>2 DEF AllOff, Switches
  <2> QED
    BY <2>1, <2>2 DEF OtherWrites, UserEdits, sysVars
<1>3. want' \in Aims
  BY Members DEF OtherWrites, UserEdits, sysVars, settings, SysInv, SysType
<1> QED
  BY <1>1, <1>2, <1>3 DEF SysInv, SysType, OffForGood

\* Every step of the part keeps the invariant.
LEMMA SysStep == SysInv /\ [SysProxyNext]_sysVars => SysInv'
BY UpdateBeginKeeps, UpdateObserveKeeps, UpdateSnapshotKeeps, UpdateWriteKeeps, UpdateCompensateKeeps,
   UpdateReadbackKeeps, ResetBeginKeeps, ResetObserveKeeps, ResetSnapshotKeeps, DisabledKeeps,
   RefreshStopKeeps, RefreshReconcileKeeps, DrainEndsKeeps, GuardKeeps, WorldKeeps
   DEF SysProxyNext, Task, Call, ResetDisable, ResetDisableAgain

\* For any of the platforms and settings: a running guard enforces nothing but
\* what update_sysproxy last saw in the OS.
THEOREM GuardCorrect == SysProxySpec => []GuardEnforcesConfirmed
<1>1. SysInv => GuardEnforcesConfirmed
  BY DEF SysInv, GuardSound, GuardEnforcesConfirmed
<1> QED
  BY <1>1, SysStart, SysStep, PTL DEF SysProxySpec

\* For any of the platforms and settings: a proxy that a reset disabled, with the
\* guard drained, stays off until the next operation.
THEOREM DisabledCorrect == SysProxySpec => []DisabledStaysOff
<1>1. SysInv => DisabledStaysOff
  BY DEF SysInv, OffForGood, DisabledStaysOff
<1> QED
  BY <1>1, SysStart, SysStep, PTL DEF SysProxySpec

(***************************************************************************)
(* Application proxy                                                       *)
(***************************************************************************)

\* The steps of an operation: those during which a status() call may bury the
\* helper, those of a start, of a change of the rules, and of a stop.
FreePc   == {"idle", "start", "rules", "check", "intent", "fault", "preference", "stop"}
StartPc  == {"load", "ready", "publish", "confirm", "save", "cleanup", "unload"}
ChangePc == {"stage", "put", "applied", "persist", "rollback", "rolled back", "restore", "retire"}
HaltPc   == {"halt", "unlisten"}

\* The steps at which the manager, its helper and the listeners agree ...
RestPc == {"idle", "start", "rules", "check", "intent", "preference"}
\* ... and those at which the old list is in force.
OldPc == RestPc \cup {"stage", "put", "restore", "retire"}

\* The records have their fields.
AppShape ==
  /\ op = [pc |-> op.pc, want |-> op.want, todo |-> op.todo, old |-> op.old, version |-> op.version]
  /\ managed = [on |-> managed.on, gen |-> managed.gen, failed |-> managed.failed, rules |-> managed.rules,
                extra |-> managed.extra, version |-> managed.version]
  /\ helper = [gen |-> helper.gen, alive |-> helper.alive, orphan |-> helper.orphan,
               resisted |-> helper.resisted, revision |-> helper.revision, rules |-> helper.rules]
  /\ view = [pc |-> view.pc, gen |-> view.gen, version |-> view.version, extra |-> view.extra,
             stable |-> view.stable, ready |-> view.ready]
  /\ op.pc \in FreePc \cup StartPc \cup ChangePc \cup HaltPc \cup {"down"}
  /\ regen = [on |-> regen.on, merged |-> regen.merged]
  /\ managed.on \in BOOLEAN /\ helper.alive \in BOOLEAN
  /\ helper.orphan \in BOOLEAN /\ helper.resisted \in BOOLEAN /\ running \in BOOLEAN /\ regen.on \in BOOLEAN

\* A start and a stop have no helper on record, a change of the rules has one, and
\* only a dead one is buried.
HeldWhen ==
  /\ op.pc \in StartPc \cup HaltPc \cup {"down"} => managed.on = FALSE
  /\ op.pc \in ChangePc => managed.on = TRUE
  /\ view.pc = "bury" => /\ managed.on = TRUE /\ helper.alive = FALSE
                         /\ desired = {} /\ running = FALSE /\ op.pc \in FreePc

\* Without a helper on record, nothing of it is left.
NothingLeft ==
  managed.on = FALSE =>
    /\ op.pc \notin HaltPc => running = FALSE
    /\ op.pc \in FreePc \cup HaltPc \cup {"down"} => desired = {}
    /\ op.pc \in FreePc \cup {"down"} /\ helper.alive = TRUE =>
         helper.orphan = TRUE \/ helper.resisted = TRUE

\* Listeners s are loaded, and stay so when an update that is under way ends.
Loads(s) == s \subseteq runtime /\ (regen.on => s \subseteq regen.merged)

\* The progress of a start.
StartGoes ==
  /\ op.pc = "load" => helper.alive = FALSE
  /\ op.pc \in {"unload", "unlisten"} /\ helper.alive = TRUE => helper.resisted = TRUE
  /\ op.pc \in StartPc \ {"unload"} => desired = required_groups(op.want)
  /\ op.pc = "unload" => desired \subseteq op.todo
  /\ op.pc = "load" => Loads(required_groups(op.want) \ op.todo)
  /\ op.pc \in {"ready", "publish", "confirm", "save"} => Loads(required_groups(op.want))
  /\ op.pc \in StartPc /\ helper.alive = TRUE => helper.orphan = FALSE
  /\ op.pc = "save" /\ helper.alive = TRUE => helper.rules = op.want /\ helper.revision = op.version

\* What the manager records of a helper that has not failed.
RecordRight ==
  managed.on = TRUE =>
    /\ op.pc \notin {"fault", "stop"} =>
         /\ managed.failed = FALSE /\ stored = rules /\ rules = managed.rules
         /\ managed.extra = managed.rules \ {Primary}
    /\ op.pc = "fault" => managed.failed = TRUE

\* What such a helper enforces while it lives.
HelperRight ==
  managed.on = TRUE /\ helper.alive = TRUE /\ op.pc \notin {"fault", "stop"} =>
    /\ helper.gen = managed.gen /\ helper.orphan = FALSE
    /\ op.pc \in OldPc => helper.rules = managed.rules /\ helper.revision = managed.version
    /\ op.pc \in {"persist", "rollback"} => helper.rules = op.want /\ helper.revision = op.version

\* Its listeners.
ListenersRight ==
  managed.on = TRUE /\ view.pc # "bury" =>
    /\ op.pc \in RestPc \cup {"restore", "retire"} =>
         desired = required_groups(managed.rules) /\ Loads(required_groups(managed.rules))
    /\ op.pc \in {"restore", "retire"} => op.todo \cap required_groups(managed.rules) = {}
    /\ op.pc \in {"stage", "put", "applied", "persist", "rollback", "rolled back"} =>
         desired = OldListeners \cup Staged /\ Loads(OldListeners)
    /\ op.pc = "stage" => Loads(Staged \ op.todo)
    /\ op.pc \in {"put", "applied", "persist"} => Loads(Staged)

\* The inductive invariant.
AppInv ==
  AppShape /\ HeldWhen /\ NothingLeft /\ StartGoes /\ RecordRight /\ HelperRight /\ ListenersRight

\* Every step of an operation, of a status call and of the world keeps the seven.
LEMMA AppKeeps ==
  ASSUME AppInv, [AppProxyNext]_apVars
  PROVE  AppInv'
PROOF
<1> USE DEF AppInv, disk, memory, listeners, FreePc, StartPc, ChangePc, HaltPc, RestPc, OldPc
<1>1. CASE start_app_proxy
  <2>1. AppShape'
    BY <1>1 DEF start_app_proxy, OpCall, NoOp, AppShape
  <2>2. HeldWhen'
    BY <1>1 DEF start_app_proxy, OpCall, NoOp, AppShape, HeldWhen
  <2>3. NothingLeft'
    BY <1>1 DEF start_app_proxy, OpCall, NoOp, AppShape, HeldWhen, NothingLeft
  <2>4. StartGoes'
    BY <1>1 DEF start_app_proxy, OpCall, NoOp, AppShape, HeldWhen, NothingLeft, StartGoes, Loads,
       required_groups
  <2>5. RecordRight'
    BY <1>1 DEF start_app_proxy, OpCall, NoOp, AppShape, HeldWhen, StartGoes, RecordRight
  <2>6. HelperRight'
    BY <1>1 DEF start_app_proxy, OpCall, NoOp, AppShape, HeldWhen, StartGoes, RecordRight, HelperRight
  <2>7. ListenersRight'
    BY <1>1 DEF start_app_proxy, OpCall, NoOp, AppShape, HeldWhen, NothingLeft, StartGoes, RecordRight,
       ListenersRight, Loads, OldListeners, Staged, required_groups
  <2>8. QED
    BY <2>1, <2>2, <2>3, <2>4, <2>5, <2>6, <2>7
<1>2. CASE stop_app_proxy
  <2>1. /\ op.pc = "idle"
        /\ op' = [NoOp EXCEPT !.pc = "preference", !.want = {}]
        /\ UNCHANGED <<disk, memory, managed, listeners, helper, view, regen>>
    BY <1>2 DEF stop_app_proxy, OpCall
  <2>2. CASE op' = [NoOp EXCEPT !.pc = "preference", !.want = {}]
    <3>1. AppShape'
      BY <2>1, <2>2 DEF NoOp, AppShape
    <3>2. HeldWhen'
      BY <2>1, <2>2 DEF NoOp, AppShape, HeldWhen
    <3>3. NothingLeft'
      BY <2>1, <2>2 DEF NoOp, AppShape, HeldWhen, NothingLeft, StartGoes
    <3>4. StartGoes'
      BY <2>1, <2>2 DEF NoOp, AppShape, HeldWhen, NothingLeft, StartGoes, Loads, required_groups
    <3>5. RecordRight'
      BY <2>1, <2>2 DEF NoOp, AppShape, HeldWhen, StartGoes, RecordRight
    <3>6. HelperRight'
      BY <2>1, <2>2 DEF NoOp, AppShape, HeldWhen, StartGoes, RecordRight, HelperRight
    <3>7. ListenersRight'
      BY <2>1, <2>2 DEF NoOp, AppShape, HeldWhen, NothingLeft, StartGoes, RecordRight, ListenersRight,
         Loads, OldListeners, Staged, required_groups
    <3>8. QED
      BY <3>1, <3>2, <3>3, <3>4, <3>5, <3>6, <3>7
  <2>3. QED
    BY <2>1, <2>2
<1>3. CASE set_app_proxy_rules
  <2>1. AppShape'
    BY <1>3 DEF set_app_proxy_rules, OpCall, NoOp, AppShape
  <2>2. HeldWhen'
    BY <1>3 DEF set_app_proxy_rules, OpCall, NoOp, AppShape, HeldWhen
  <2>3. NothingLeft'
    BY <1>3 DEF set_app_proxy_rules, OpCall, NoOp, AppShape, HeldWhen, NothingLeft
  <2>4. StartGoes'
    BY <1>3 DEF set_app_proxy_rules, OpCall, NoOp, AppShape, HeldWhen, NothingLeft, StartGoes, Loads,
       required_groups
  <2>5. RecordRight'
    BY <1>3 DEF set_app_proxy_rules, OpCall, NoOp, AppShape, HeldWhen, StartGoes, RecordRight
  <2>6. HelperRight'
    BY <1>3 DEF set_app_proxy_rules, OpCall, NoOp, AppShape, HeldWhen, StartGoes, RecordRight,
       HelperRight
  <2>7. ListenersRight'
    BY <1>3 DEF set_app_proxy_rules, OpCall, NoOp, AppShape, HeldWhen, NothingLeft, StartGoes,
       RecordRight, ListenersRight, Loads, OldListeners, Staged, required_groups
  <2>8. QED
    BY <2>1, <2>2, <2>3, <2>4, <2>5, <2>6, <2>7
<1>4. CASE EditRule
  <2>1. PICK picked : OpCall("rules", picked)
    BY <1>4 DEF EditRule
  <2>2. AppShape'
    BY <2>1 DEF OpCall, NoOp, AppShape
  <2>3. HeldWhen'
    BY <2>1 DEF OpCall, NoOp, AppShape, HeldWhen
  <2>4. NothingLeft'
    BY <2>1 DEF OpCall, NoOp, AppShape, HeldWhen, NothingLeft, StartGoes
  <2>5. StartGoes'
    BY <2>1 DEF OpCall, NoOp, AppShape, HeldWhen, NothingLeft, StartGoes, Loads, required_groups
  <2>6. RecordRight'
    BY <2>1 DEF OpCall, NoOp, AppShape, HeldWhen, StartGoes, RecordRight
  <2>7. HelperRight'
    BY <2>1 DEF OpCall, NoOp, AppShape, HeldWhen, StartGoes, RecordRight, HelperRight
  <2>8. ListenersRight'
    BY <2>1 DEF OpCall, NoOp, AppShape, HeldWhen, NothingLeft, StartGoes, RecordRight, ListenersRight,
       Loads, OldListeners, Staged, required_groups
  <2>9. QED
    BY <2>2, <2>3, <2>4, <2>5, <2>6, <2>7, <2>8
<1>5. CASE set_app_proxy_strategy
  <2>1. AppShape'
    BY <1>5 DEF set_app_proxy_strategy, OpCall, NoOp, AppShape
  <2>2. HeldWhen'
    BY <1>5 DEF set_app_proxy_strategy, OpCall, NoOp, AppShape, HeldWhen
  <2>3. NothingLeft'
    BY <1>5 DEF set_app_proxy_strategy, OpCall, NoOp, AppShape, HeldWhen, NothingLeft
  <2>4. StartGoes'
    BY <1>5 DEF set_app_proxy_strategy, OpCall, NoOp, AppShape, HeldWhen, NothingLeft, StartGoes, Loads,
       required_groups
  <2>5. RecordRight'
    BY <1>5 DEF set_app_proxy_strategy, OpCall, NoOp, AppShape, HeldWhen, StartGoes, RecordRight
  <2>6. HelperRight'
    BY <1>5 DEF set_app_proxy_strategy, OpCall, NoOp, AppShape, HeldWhen, StartGoes, RecordRight,
       HelperRight
  <2>7. ListenersRight'
    BY <1>5 DEF set_app_proxy_strategy, OpCall, NoOp, AppShape, HeldWhen, NothingLeft, StartGoes,
       RecordRight, ListenersRight, Loads, OldListeners, Staged, required_groups
  <2>8. QED
    BY <2>1, <2>2, <2>3, <2>4, <2>5, <2>6, <2>7
<1>6. CASE Shutdown
  <2>1. AppShape'
    BY <1>6 DEF Shutdown, Kill, NoOp, NoHelper, AppShape
  <2>2. HeldWhen'
    BY <1>6 DEF Shutdown, Kill, NoOp, NoHelper, AppShape, HeldWhen
  <2>3. NothingLeft'
    BY <1>6 DEF Shutdown, Kill, NoOp, NoHelper, AppShape, HeldWhen, NothingLeft
  <2>4. StartGoes'
    BY <1>6 DEF Shutdown, Kill, NoOp, NoHelper, AppShape, HeldWhen, NothingLeft, StartGoes, Loads,
       required_groups
  <2>5. RecordRight'
    BY <1>6 DEF Shutdown, Kill, NoOp, NoHelper, AppShape, HeldWhen, StartGoes, RecordRight
  <2>6. HelperRight'
    BY <1>6 DEF Shutdown, Kill, NoOp, NoHelper, AppShape, HeldWhen, StartGoes, RecordRight, HelperRight
  <2>7. ListenersRight'
    BY <1>6 DEF Shutdown, Kill, NoOp, NoHelper, AppShape, HeldWhen, NothingLeft, StartGoes, RecordRight,
       ListenersRight, Loads, OldListeners, Staged, required_groups
  <2>8. QED
    BY <2>1, <2>2, <2>3, <2>4, <2>5, <2>6, <2>7
<1>7. CASE Launch
  <2>1. AppShape'
    BY <1>7 DEF Launch, NoOp, load_rules_from_disk, AppShape
  <2>2. HeldWhen'
    BY <1>7 DEF Launch, NoOp, load_rules_from_disk, AppShape, HeldWhen
  <2>3. NothingLeft'
    BY <1>7 DEF Launch, NoOp, load_rules_from_disk, AppShape, HeldWhen, NothingLeft
  <2>4. StartGoes'
    BY <1>7 DEF Launch, NoOp, load_rules_from_disk, AppShape, HeldWhen, NothingLeft, StartGoes, Loads,
       required_groups
  <2>5. RecordRight'
    BY <1>7 DEF Launch, NoOp, load_rules_from_disk, AppShape, HeldWhen, StartGoes, RecordRight
  <2>6. HelperRight'
    BY <1>7 DEF Launch, NoOp, load_rules_from_disk, AppShape, HeldWhen, StartGoes, RecordRight,
       HelperRight
  <2>7. ListenersRight'
    BY <1>7 DEF Launch, NoOp, load_rules_from_disk, AppShape, HeldWhen, NothingLeft, StartGoes,
       RecordRight, ListenersRight, Loads, OldListeners, Staged, required_groups
  <2>8. QED
    BY <2>1, <2>2, <2>3, <2>4, <2>5, <2>6, <2>7
<1>8. CASE AppCrash
  <2>1. AppShape'
    BY <1>8 DEF AppCrash, NoOp, NoHelper, NoView, NoUpdate, AppShape
  <2>2. HeldWhen'
    BY <1>8 DEF AppCrash, NoOp, NoHelper, NoView, NoUpdate, AppShape, HeldWhen
  <2>3. NothingLeft'
    BY <1>8 DEF AppCrash, NoOp, NoHelper, NoView, NoUpdate, AppShape, HeldWhen, NothingLeft
  <2>4. StartGoes'
    BY <1>8 DEF AppCrash, NoOp, NoHelper, NoView, NoUpdate, AppShape, HeldWhen, NothingLeft, StartGoes,
       Loads, required_groups
  <2>5. RecordRight'
    BY <1>8 DEF AppCrash, NoOp, NoHelper, NoView, NoUpdate, AppShape, HeldWhen, StartGoes, RecordRight
  <2>6. HelperRight'
    BY <1>8 DEF AppCrash, NoOp, NoHelper, NoView, NoUpdate, AppShape, HeldWhen, StartGoes, RecordRight,
       HelperRight
  <2>7. ListenersRight'
    BY <1>8 DEF AppCrash, NoOp, NoHelper, NoView, NoUpdate, AppShape, HeldWhen, NothingLeft, StartGoes,
       RecordRight, ListenersRight, Loads, OldListeners, Staged, required_groups
  <2>8. QED
    BY <2>1, <2>2, <2>3, <2>4, <2>5, <2>6, <2>7
<1>9. CASE StartRefused
  <2>1. AppShape'
    BY <1>9 DEF StartRefused, OpReturn, NoOp, AppShape
  <2>2. HeldWhen'
    BY <1>9 DEF StartRefused, OpReturn, NoOp, AppShape, HeldWhen
  <2>3. NothingLeft'
    BY <1>9 DEF StartRefused, OpReturn, NoOp, AppShape, HeldWhen, NothingLeft
  <2>4. StartGoes'
    BY <1>9 DEF StartRefused, OpReturn, NoOp, AppShape, HeldWhen, NothingLeft, StartGoes, Loads,
       required_groups
  <2>5. RecordRight'
    BY <1>9 DEF StartRefused, OpReturn, NoOp, AppShape, HeldWhen, StartGoes, RecordRight
  <2>6. HelperRight'
    BY <1>9 DEF StartRefused, OpReturn, NoOp, AppShape, HeldWhen, StartGoes, RecordRight, HelperRight
  <2>7. ListenersRight'
    BY <1>9 DEF StartRefused, OpReturn, NoOp, AppShape, HeldWhen, NothingLeft, StartGoes, RecordRight,
       ListenersRight, Loads, OldListeners, Staged, required_groups
  <2>8. QED
    BY <2>1, <2>2, <2>3, <2>4, <2>5, <2>6, <2>7
<1>10. CASE StartAccepted
  <2>1. AppShape'
    BY <1>10 DEF StartAccepted, effective_rules, required_groups, AppShape
  <2>2. HeldWhen'
    BY <1>10 DEF StartAccepted, effective_rules, required_groups, AppShape, HeldWhen
  <2>3. NothingLeft'
    BY <1>10 DEF StartAccepted, effective_rules, required_groups, AppShape, HeldWhen, NothingLeft
  <2>4. StartGoes'
    BY <1>10 DEF StartAccepted, effective_rules, required_groups, AppShape, HeldWhen, NothingLeft,
       StartGoes, Loads, required_groups
  <2>5. RecordRight'
    BY <1>10 DEF StartAccepted, effective_rules, required_groups, AppShape, HeldWhen, StartGoes,
       RecordRight
  <2>6. HelperRight'
    BY <1>10 DEF StartAccepted, effective_rules, required_groups, AppShape, HeldWhen, StartGoes,
       RecordRight, HelperRight
  <2>7. ListenersRight'
    BY <1>10 DEF StartAccepted, effective_rules, required_groups, AppShape, HeldWhen, NothingLeft,
       StartGoes, RecordRight, ListenersRight, Loads, OldListeners, Staged, required_groups
  <2>8. QED
    BY <2>1, <2>2, <2>3, <2>4, <2>5, <2>6, <2>7
<1>11. CASE StartLoad
  <2>1. AppShape'
    BY <1>11 DEF StartLoad, OpThen, Abandon, configure_listener, AppShape
  <2>2. HeldWhen'
    BY <1>11 DEF StartLoad, OpThen, Abandon, configure_listener, AppShape, HeldWhen
  <2>3. NothingLeft'
    BY <1>11 DEF StartLoad, OpThen, Abandon, configure_listener, AppShape, HeldWhen, NothingLeft
  <2>4. StartGoes'
    BY <1>11 DEF StartLoad, OpThen, Abandon, configure_listener, AppShape, HeldWhen, NothingLeft,
       StartGoes, Loads, required_groups
  <2>5. RecordRight'
    BY <1>11 DEF StartLoad, OpThen, Abandon, configure_listener, AppShape, HeldWhen, StartGoes,
       RecordRight
  <2>6. HelperRight'
    BY <1>11 DEF StartLoad, OpThen, Abandon, configure_listener, AppShape, HeldWhen, StartGoes,
       RecordRight, HelperRight
  <2>7. ListenersRight'
    BY <1>11 DEF StartLoad, OpThen, Abandon, configure_listener, AppShape, HeldWhen, NothingLeft,
       StartGoes, RecordRight, ListenersRight, Loads, OldListeners, Staged, required_groups
  <2>8. QED
    BY <2>1, <2>2, <2>3, <2>4, <2>5, <2>6, <2>7
<1>12. CASE Spawn
  <2>1. /\ op.pc = "load" /\ op.todo = {}
        /\ UNCHANGED <<disk, memory, managed, listeners, view, regen, calls>>
    BY <1>12 DEF Spawn
  <2>2. CASE /\ helper' = [gen |-> helper.gen + 1, alive |-> TRUE, orphan |-> FALSE, resisted |-> FALSE,
                            revision |-> 0, rules |-> {}]
           /\ OpGoto("ready")
    <3>1. AppShape'
      BY <2>1, <2>2 DEF OpGoto, AppShape
    <3>2. HeldWhen'
      BY <2>1, <2>2 DEF OpGoto, AppShape, HeldWhen
    <3>3. NothingLeft'
      BY <2>1, <2>2 DEF OpGoto, AppShape, HeldWhen, NothingLeft, StartGoes
    <3>4. StartGoes'
      BY <2>1, <2>2 DEF OpGoto, AppShape, HeldWhen, NothingLeft, StartGoes, Loads, required_groups
    <3>5. RecordRight'
      BY <2>1, <2>2 DEF OpGoto, AppShape, HeldWhen, StartGoes, RecordRight
    <3>6. HelperRight'
      BY <2>1, <2>2 DEF OpGoto, AppShape, HeldWhen, StartGoes, RecordRight, HelperRight
    <3>7. ListenersRight'
      BY <2>1, <2>2 DEF OpGoto, AppShape, HeldWhen, NothingLeft, StartGoes, RecordRight, ListenersRight,
         Loads, OldListeners, Staged, required_groups
    <3>8. QED
      BY <3>1, <3>2, <3>3, <3>4, <3>5, <3>6, <3>7
  <2>3. CASE Abandon /\ UNCHANGED helper
    <3>1. AppShape'
      BY <2>1, <2>3 DEF Abandon, OpThen, AppShape
    <3>2. HeldWhen'
      BY <2>1, <2>3 DEF Abandon, OpThen, AppShape, HeldWhen
    <3>3. NothingLeft'
      BY <2>1, <2>3 DEF Abandon, OpThen, AppShape, HeldWhen, NothingLeft, StartGoes
    <3>4. StartGoes'
      BY <2>1, <2>3 DEF Abandon, OpThen, AppShape, HeldWhen, NothingLeft, StartGoes, Loads,
         required_groups
    <3>5. RecordRight'
      BY <2>1, <2>3 DEF Abandon, OpThen, AppShape, HeldWhen, StartGoes, RecordRight
    <3>6. HelperRight'
      BY <2>1, <2>3 DEF Abandon, OpThen, AppShape, HeldWhen, StartGoes, RecordRight, HelperRight
    <3>7. ListenersRight'
      BY <2>1, <2>3 DEF Abandon, OpThen, AppShape, HeldWhen, NothingLeft, StartGoes, RecordRight,
         ListenersRight, Loads, OldListeners, Staged, required_groups
    <3>8. QED
      BY <3>1, <3>2, <3>3, <3>4, <3>5, <3>6, <3>7
  <2>4. QED
    BY <1>12, <2>2, <2>3 DEF Spawn
<1>13. CASE wait_ready
  <2>1. AppShape'
    BY <1>13 DEF wait_ready, OpGoto, AppShape
  <2>2. HeldWhen'
    BY <1>13 DEF wait_ready, OpGoto, AppShape, HeldWhen
  <2>3. NothingLeft'
    BY <1>13 DEF wait_ready, OpGoto, AppShape, HeldWhen, NothingLeft
  <2>4. StartGoes'
    BY <1>13 DEF wait_ready, OpGoto, AppShape, HeldWhen, NothingLeft, StartGoes, Loads, required_groups
  <2>5. RecordRight'
    BY <1>13 DEF wait_ready, OpGoto, AppShape, HeldWhen, StartGoes, RecordRight
  <2>6. HelperRight'
    BY <1>13 DEF wait_ready, OpGoto, AppShape, HeldWhen, StartGoes, RecordRight, HelperRight
  <2>7. ListenersRight'
    BY <1>13 DEF wait_ready, OpGoto, AppShape, HeldWhen, NothingLeft, StartGoes, RecordRight,
       ListenersRight, Loads, OldListeners, Staged, required_groups
  <2>8. QED
    BY <2>1, <2>2, <2>3, <2>4, <2>5, <2>6, <2>7
<1>14. CASE StartPublish
  <2>1. AppShape'
    BY <1>14 DEF StartPublish, OpGoto, Accepts, AppShape
  <2>2. HeldWhen'
    BY <1>14 DEF StartPublish, OpGoto, Accepts, AppShape, HeldWhen
  <2>3. NothingLeft'
    BY <1>14 DEF StartPublish, OpGoto, Accepts, AppShape, HeldWhen, NothingLeft
  <2>4. StartGoes'
    BY <1>14 DEF StartPublish, OpGoto, Accepts, AppShape, HeldWhen, NothingLeft, StartGoes, Loads,
       required_groups
  <2>5. RecordRight'
    BY <1>14 DEF StartPublish, OpGoto, Accepts, AppShape, HeldWhen, StartGoes, RecordRight
  <2>6. HelperRight'
    BY <1>14 DEF StartPublish, OpGoto, Accepts, AppShape, HeldWhen, StartGoes, RecordRight, HelperRight
  <2>7. ListenersRight'
    BY <1>14 DEF StartPublish, OpGoto, Accepts, AppShape, HeldWhen, NothingLeft, StartGoes, RecordRight,
       ListenersRight, Loads, OldListeners, Staged, required_groups
  <2>8. QED
    BY <2>1, <2>2, <2>3, <2>4, <2>5, <2>6, <2>7
<1>15. CASE StartConfirm
  <2>1. /\ op.pc = "confirm"
        /\ UNCHANGED <<disk, memory, managed, listeners, helper, view, regen, calls>>
    BY <1>15 DEF StartConfirm
  <2>2. CASE wait_rules_applied(op.want, op.version) /\ OpGoto("save")
    <3>1. AppShape'
      BY <2>1, <2>2 DEF OpGoto, wait_rules_applied, AppShape
    <3>2. HeldWhen'
      BY <2>1, <2>2 DEF OpGoto, wait_rules_applied, AppShape, HeldWhen
    <3>3. NothingLeft'
      BY <2>1, <2>2 DEF OpGoto, wait_rules_applied, AppShape, HeldWhen, NothingLeft, StartGoes
    <3>4. StartGoes'
      BY <2>1, <2>2 DEF OpGoto, wait_rules_applied, AppShape, HeldWhen, NothingLeft, StartGoes, Loads,
         required_groups
    <3>5. RecordRight'
      BY <2>1, <2>2 DEF OpGoto, wait_rules_applied, AppShape, HeldWhen, StartGoes, RecordRight
    <3>6. HelperRight'
      BY <2>1, <2>2 DEF OpGoto, wait_rules_applied, AppShape, HeldWhen, StartGoes, RecordRight,
         HelperRight
    <3>7. ListenersRight'
      BY <2>1, <2>2 DEF OpGoto, wait_rules_applied, AppShape, HeldWhen, NothingLeft, StartGoes,
         RecordRight, ListenersRight, Loads, OldListeners, Staged, required_groups
    <3>8. QED
      BY <3>1, <3>2, <3>3, <3>4, <3>5, <3>6, <3>7
  <2>3. CASE OpGoto("cleanup")
    <3>1. AppShape'
      BY <2>1, <2>3 DEF OpGoto, AppShape
    <3>2. HeldWhen'
      BY <2>1, <2>3 DEF OpGoto, AppShape, HeldWhen
    <3>3. NothingLeft'
      BY <2>1, <2>3 DEF OpGoto, AppShape, HeldWhen, NothingLeft, StartGoes
    <3>4. StartGoes'
      BY <2>1, <2>3 DEF OpGoto, AppShape, HeldWhen, NothingLeft, StartGoes, Loads, required_groups
    <3>5. RecordRight'
      BY <2>1, <2>3 DEF OpGoto, AppShape, HeldWhen, StartGoes, RecordRight
    <3>6. HelperRight'
      BY <2>1, <2>3 DEF OpGoto, AppShape, HeldWhen, StartGoes, RecordRight, HelperRight
    <3>7. ListenersRight'
      BY <2>1, <2>3 DEF OpGoto, AppShape, HeldWhen, NothingLeft, StartGoes, RecordRight, ListenersRight,
         Loads, OldListeners, Staged, required_groups
    <3>8. QED
      BY <3>1, <3>2, <3>3, <3>4, <3>5, <3>6, <3>7
  <2>4. QED
    BY <1>15, <2>2, <2>3 DEF StartConfirm
<1>16. CASE StartSave
  <2>1. /\ op.pc = "save"
        /\ UNCHANGED <<resume, listeners, helper, view, regen, calls>>
    BY <1>16 DEF StartSave
  <2>2. CASE /\ save_rules_to_disk(op.want) /\ rules' = op.want
           /\ managed' = [on |-> TRUE, gen |-> helper.gen, failed |-> FALSE, rules |-> op.want,
                          extra |-> op.want \ {Primary}, version |-> op.version]
           /\ running' = TRUE
           /\ OpGoto("check")
    <3>1. AppShape'
      BY <2>1, <2>2 DEF OpGoto, save_rules_to_disk, AppShape
    <3>2. HeldWhen'
      BY <2>1, <2>2 DEF OpGoto, save_rules_to_disk, AppShape, HeldWhen
    <3>3. NothingLeft'
      BY <2>1, <2>2 DEF OpGoto, save_rules_to_disk, AppShape, HeldWhen, NothingLeft, StartGoes
    <3>4. StartGoes'
      BY <2>1, <2>2 DEF OpGoto, save_rules_to_disk, AppShape, HeldWhen, NothingLeft, StartGoes, Loads,
         required_groups
    <3>5. RecordRight'
      BY <2>1, <2>2 DEF OpGoto, save_rules_to_disk, AppShape, HeldWhen, StartGoes, RecordRight
    <3>6. HelperRight'
      BY <2>1, <2>2 DEF OpGoto, save_rules_to_disk, AppShape, HeldWhen, StartGoes, RecordRight,
         HelperRight
    <3>7. ListenersRight'
      BY <2>1, <2>2 DEF OpGoto, save_rules_to_disk, AppShape, HeldWhen, NothingLeft, StartGoes,
         RecordRight, ListenersRight, Loads, OldListeners, Staged, required_groups
    <3>8. QED
      BY <3>1, <3>2, <3>3, <3>4, <3>5, <3>6, <3>7
  <2>3. CASE OpGoto("cleanup") /\ UNCHANGED <<stored, memory, managed>>
    <3>1. AppShape'
      BY <2>1, <2>3 DEF OpGoto, AppShape
    <3>2. HeldWhen'
      BY <2>1, <2>3 DEF OpGoto, AppShape, HeldWhen
    <3>3. NothingLeft'
      BY <2>1, <2>3 DEF OpGoto, AppShape, HeldWhen, NothingLeft, StartGoes
    <3>4. StartGoes'
      BY <2>1, <2>3 DEF OpGoto, AppShape, HeldWhen, NothingLeft, StartGoes, Loads, required_groups
    <3>5. RecordRight'
      BY <2>1, <2>3 DEF OpGoto, AppShape, HeldWhen, StartGoes, RecordRight
    <3>6. HelperRight'
      BY <2>1, <2>3 DEF OpGoto, AppShape, HeldWhen, StartGoes, RecordRight, HelperRight
    <3>7. ListenersRight'
      BY <2>1, <2>3 DEF OpGoto, AppShape, HeldWhen, NothingLeft, StartGoes, RecordRight, ListenersRight,
         Loads, OldListeners, Staged, required_groups
    <3>8. QED
      BY <3>1, <3>2, <3>3, <3>4, <3>5, <3>6, <3>7
  <2>4. QED
    BY <1>16, <2>2, <2>3 DEF StartSave
<1>17. CASE StartCheck
  <2>1. AppShape'
    BY <1>17 DEF StartCheck, OpGoto, AppShape
  <2>2. HeldWhen'
    BY <1>17 DEF StartCheck, OpGoto, AppShape, HeldWhen
  <2>3. NothingLeft'
    BY <1>17 DEF StartCheck, OpGoto, AppShape, HeldWhen, NothingLeft
  <2>4. StartGoes'
    BY <1>17 DEF StartCheck, OpGoto, AppShape, HeldWhen, NothingLeft, StartGoes, Loads, required_groups
  <2>5. RecordRight'
    BY <1>17 DEF StartCheck, OpGoto, AppShape, HeldWhen, StartGoes, RecordRight
  <2>6. HelperRight'
    BY <1>17 DEF StartCheck, OpGoto, AppShape, HeldWhen, StartGoes, RecordRight, HelperRight
  <2>7. ListenersRight'
    BY <1>17 DEF StartCheck, OpGoto, AppShape, HeldWhen, NothingLeft, StartGoes, RecordRight,
       ListenersRight, Loads, OldListeners, Staged, required_groups
  <2>8. QED
    BY <2>1, <2>2, <2>3, <2>4, <2>5, <2>6, <2>7
<1>18. CASE StartIntent
  <2>1. /\ op.pc = "intent"
        /\ UNCHANGED <<stored, memory, managed, listeners, helper, view, regen, calls>>
    BY <1>18 DEF StartIntent
  <2>2. CASE OpReturn
    <3>1. AppShape'
      BY <2>1, <2>2 DEF OpReturn, NoOp, AppShape
    <3>2. HeldWhen'
      BY <2>1, <2>2 DEF OpReturn, NoOp, AppShape, HeldWhen
    <3>3. NothingLeft'
      BY <2>1, <2>2 DEF OpReturn, NoOp, AppShape, HeldWhen, NothingLeft, StartGoes
    <3>4. StartGoes'
      BY <2>1, <2>2 DEF OpReturn, NoOp, AppShape, HeldWhen, NothingLeft, StartGoes, Loads,
         required_groups
    <3>5. RecordRight'
      BY <2>1, <2>2 DEF OpReturn, NoOp, AppShape, HeldWhen, StartGoes, RecordRight
    <3>6. HelperRight'
      BY <2>1, <2>2 DEF OpReturn, NoOp, AppShape, HeldWhen, StartGoes, RecordRight, HelperRight
    <3>7. ListenersRight'
      BY <2>1, <2>2 DEF OpReturn, NoOp, AppShape, HeldWhen, NothingLeft, StartGoes, RecordRight,
         ListenersRight, Loads, OldListeners, Staged, required_groups
    <3>8. QED
      BY <3>1, <3>2, <3>3, <3>4, <3>5, <3>6, <3>7
  <2>3. CASE OpGoto("stop")
    <3>1. AppShape'
      BY <2>1, <2>3 DEF OpGoto, AppShape
    <3>2. HeldWhen'
      BY <2>1, <2>3 DEF OpGoto, AppShape, HeldWhen
    <3>3. NothingLeft'
      BY <2>1, <2>3 DEF OpGoto, AppShape, HeldWhen, NothingLeft, StartGoes
    <3>4. StartGoes'
      BY <2>1, <2>3 DEF OpGoto, AppShape, HeldWhen, NothingLeft, StartGoes, Loads, required_groups
    <3>5. RecordRight'
      BY <2>1, <2>3 DEF OpGoto, AppShape, HeldWhen, StartGoes, RecordRight
    <3>6. HelperRight'
      BY <2>1, <2>3 DEF OpGoto, AppShape, HeldWhen, StartGoes, RecordRight, HelperRight
    <3>7. ListenersRight'
      BY <2>1, <2>3 DEF OpGoto, AppShape, HeldWhen, NothingLeft, StartGoes, RecordRight, ListenersRight,
         Loads, OldListeners, Staged, required_groups
    <3>8. QED
      BY <3>1, <3>2, <3>3, <3>4, <3>5, <3>6, <3>7
  <2>4. QED
    BY <1>18, <2>2, <2>3 DEF StartIntent
<1>19. CASE cleanup_failed
  <2>1. AppShape'
    BY <1>19 DEF cleanup_failed, Kill, OpThen, Abandon, AppShape
  <2>2. HeldWhen'
    BY <1>19 DEF cleanup_failed, Kill, OpThen, Abandon, AppShape, HeldWhen
  <2>3. NothingLeft'
    BY <1>19 DEF cleanup_failed, Kill, OpThen, Abandon, AppShape, HeldWhen, NothingLeft
  <2>4. StartGoes'
    BY <1>19 DEF cleanup_failed, Kill, OpThen, Abandon, AppShape, HeldWhen, NothingLeft, StartGoes, Loads,
       required_groups
  <2>5. RecordRight'
    BY <1>19 DEF cleanup_failed, Kill, OpThen, Abandon, AppShape, HeldWhen, StartGoes, RecordRight
  <2>6. HelperRight'
    BY <1>19 DEF cleanup_failed, Kill, OpThen, Abandon, AppShape, HeldWhen, StartGoes, RecordRight,
       HelperRight
  <2>7. ListenersRight'
    BY <1>19 DEF cleanup_failed, Kill, OpThen, Abandon, AppShape, HeldWhen, NothingLeft, StartGoes,
       RecordRight, ListenersRight, Loads, OldListeners, Staged, required_groups
  <2>8. QED
    BY <2>1, <2>2, <2>3, <2>4, <2>5, <2>6, <2>7
<1>20. CASE Unload
  <2>1. /\ op.pc = "unload"
        /\ UNCHANGED <<disk, memory, managed, helper, view, regen, calls>>
    BY <1>20 DEF Unload
  <2>2. ASSUME NEW g \in op.todo, desired' = desired \ {g}, OpThen("unload", op.todo \ {g})
        PROVE  AppInv'
    <3>1. AppShape'
      BY <2>1, <2>2 DEF OpThen, AppShape
    <3>2. HeldWhen'
      BY <2>1, <2>2 DEF OpThen, AppShape, HeldWhen
    <3>3. NothingLeft'
      BY <2>1, <2>2 DEF OpThen, AppShape, HeldWhen, NothingLeft, StartGoes
    <3>4. StartGoes'
      <4>1. op'.pc = "unload" /\ op'.todo = op.todo \ {g}
        BY <2>2 DEF AppShape, OpThen
      <4>2. (helper.alive = TRUE => helper.resisted = TRUE) /\ desired \subseteq op.todo
        BY <2>1 DEF StartGoes
      <4>3. QED
        BY <2>1, <2>2, <4>1, <4>2 DEF StartGoes
    <3>5. RecordRight'
      BY <2>1, <2>2 DEF OpThen, AppShape, HeldWhen, StartGoes, RecordRight
    <3>6. HelperRight'
      BY <2>1, <2>2 DEF OpThen, AppShape, HeldWhen, StartGoes, RecordRight, HelperRight
    <3>7. ListenersRight'
      BY <2>1, <2>2 DEF OpThen, AppShape, HeldWhen, NothingLeft, StartGoes, RecordRight, ListenersRight,
         Loads, OldListeners, Staged, required_groups
    <3>8. QED
      BY <3>1, <3>2, <3>3, <3>4, <3>5, <3>6, <3>7
  <2>3. CASE op.todo = {} /\ OpReturn /\ UNCHANGED listeners
    <3>1. AppShape'
      BY <2>1, <2>3 DEF OpReturn, NoOp, AppShape
    <3>2. HeldWhen'
      BY <2>1, <2>3 DEF OpReturn, NoOp, AppShape, HeldWhen
    <3>3. NothingLeft'
      BY <2>1, <2>3 DEF OpReturn, NoOp, AppShape, HeldWhen, NothingLeft, StartGoes
    <3>4. StartGoes'
      BY <2>1, <2>3 DEF OpReturn, NoOp, AppShape, HeldWhen, NothingLeft, StartGoes, Loads,
         required_groups
    <3>5. RecordRight'
      BY <2>1, <2>3 DEF OpReturn, NoOp, AppShape, HeldWhen, StartGoes, RecordRight
    <3>6. HelperRight'
      BY <2>1, <2>3 DEF OpReturn, NoOp, AppShape, HeldWhen, StartGoes, RecordRight, HelperRight
    <3>7. ListenersRight'
      BY <2>1, <2>3 DEF OpReturn, NoOp, AppShape, HeldWhen, NothingLeft, StartGoes, RecordRight,
         ListenersRight, Loads, OldListeners, Staged, required_groups
    <3>8. QED
      BY <3>1, <3>2, <3>3, <3>4, <3>5, <3>6, <3>7
  <2>4. QED
    BY <1>20, <2>2, <2>3 DEF Unload
<1>21. CASE RulesOffline
  <2>1. AppShape'
    BY <1>21 DEF RulesOffline, OpReturn, NoOp, save_rules_to_disk, AppShape
  <2>2. HeldWhen'
    BY <1>21 DEF RulesOffline, OpReturn, NoOp, save_rules_to_disk, AppShape, HeldWhen
  <2>3. NothingLeft'
    BY <1>21 DEF RulesOffline, OpReturn, NoOp, save_rules_to_disk, AppShape, HeldWhen, NothingLeft
  <2>4. StartGoes'
    BY <1>21 DEF RulesOffline, OpReturn, NoOp, save_rules_to_disk, AppShape, HeldWhen, NothingLeft,
       StartGoes, Loads, required_groups
  <2>5. RecordRight'
    BY <1>21 DEF RulesOffline, OpReturn, NoOp, save_rules_to_disk, AppShape, HeldWhen, StartGoes,
       RecordRight
  <2>6. HelperRight'
    BY <1>21 DEF RulesOffline, OpReturn, NoOp, save_rules_to_disk, AppShape, HeldWhen, StartGoes,
       RecordRight, HelperRight
  <2>7. ListenersRight'
    BY <1>21 DEF RulesOffline, OpReturn, NoOp, save_rules_to_disk, AppShape, HeldWhen, NothingLeft,
       StartGoes, RecordRight, ListenersRight, Loads, OldListeners, Staged, required_groups
  <2>8. QED
    BY <2>1, <2>2, <2>3, <2>4, <2>5, <2>6, <2>7
<1>22. CASE RulesRefused
  <2>1. AppShape'
    BY <1>22 DEF RulesRefused, OpReturn, NoOp, AppShape
  <2>2. HeldWhen'
    BY <1>22 DEF RulesRefused, OpReturn, NoOp, AppShape, HeldWhen
  <2>3. NothingLeft'
    BY <1>22 DEF RulesRefused, OpReturn, NoOp, AppShape, HeldWhen, NothingLeft
  <2>4. StartGoes'
    BY <1>22 DEF RulesRefused, OpReturn, NoOp, AppShape, HeldWhen, NothingLeft, StartGoes, Loads,
       required_groups
  <2>5. RecordRight'
    BY <1>22 DEF RulesRefused, OpReturn, NoOp, AppShape, HeldWhen, StartGoes, RecordRight
  <2>6. HelperRight'
    BY <1>22 DEF RulesRefused, OpReturn, NoOp, AppShape, HeldWhen, StartGoes, RecordRight, HelperRight
  <2>7. ListenersRight'
    BY <1>22 DEF RulesRefused, OpReturn, NoOp, AppShape, HeldWhen, NothingLeft, StartGoes, RecordRight,
       ListenersRight, Loads, OldListeners, Staged, required_groups
  <2>8. QED
    BY <2>1, <2>2, <2>3, <2>4, <2>5, <2>6, <2>7
<1>23. CASE RulesAccepted
  <2>1. AppShape'
    BY <1>23 DEF RulesAccepted, OpThen, OldListeners, Staged, required_groups, AppShape
  <2>2. HeldWhen'
    BY <1>23 DEF RulesAccepted, OpThen, OldListeners, Staged, required_groups, AppShape, HeldWhen
  <2>3. NothingLeft'
    BY <1>23 DEF RulesAccepted, OpThen, OldListeners, Staged, required_groups, AppShape, HeldWhen,
       NothingLeft
  <2>4. StartGoes'
    BY <1>23 DEF RulesAccepted, OpThen, OldListeners, Staged, required_groups, AppShape, HeldWhen,
       NothingLeft, StartGoes, Loads, required_groups
  <2>5. RecordRight'
    BY <1>23 DEF RulesAccepted, OpThen, OldListeners, Staged, required_groups, AppShape, HeldWhen,
       StartGoes, RecordRight
  <2>6. HelperRight'
    BY <1>23 DEF RulesAccepted, OpThen, OldListeners, Staged, required_groups, AppShape, HeldWhen,
       StartGoes, RecordRight, HelperRight
  <2>7. ListenersRight'
    BY <1>23 DEF RulesAccepted, OpThen, OldListeners, Staged, required_groups, AppShape, HeldWhen,
       NothingLeft, StartGoes, RecordRight, ListenersRight, Loads, OldListeners, Staged, required_groups
  <2>8. QED
    BY <2>1, <2>2, <2>3, <2>4, <2>5, <2>6, <2>7
<1>24. CASE RulesStage
  <2>1. /\ op.pc = "stage"
        /\ UNCHANGED <<disk, memory, managed, helper, view, regen, calls>>
    BY <1>24 DEF RulesStage
  <2>2. ASSUME NEW g \in op.todo, configure_listener(g), OpThen("stage", op.todo \ {g}), UNCHANGED desired
        PROVE  AppInv'
    <3>1. AppShape'
      BY <2>1, <2>2 DEF OpThen, configure_listener, AppShape
    <3>2. HeldWhen'
      BY <2>1, <2>2 DEF OpThen, configure_listener, AppShape, HeldWhen
    <3>3. NothingLeft'
      BY <2>1, <2>2 DEF OpThen, configure_listener, AppShape, HeldWhen, NothingLeft, StartGoes
    <3>4. StartGoes'
      BY <2>1, <2>2 DEF OpThen, configure_listener, AppShape, HeldWhen, NothingLeft, StartGoes, Loads,
         required_groups
    <3>5. RecordRight'
      BY <2>1, <2>2 DEF OpThen, configure_listener, AppShape, HeldWhen, StartGoes, RecordRight
    <3>6. HelperRight'
      BY <2>1, <2>2 DEF OpThen, configure_listener, AppShape, HeldWhen, StartGoes, RecordRight,
         HelperRight
    <3>7. ListenersRight'
      BY <2>1, <2>2 DEF OpThen, configure_listener, AppShape, HeldWhen, NothingLeft, StartGoes,
         RecordRight, ListenersRight, Loads, OldListeners, Staged, required_groups
    <3>8. QED
      BY <3>1, <3>2, <3>3, <3>4, <3>5, <3>6, <3>7
  <2>3. CASE op.todo = {} /\ OpGoto("put") /\ UNCHANGED listeners
    <3>1. AppShape'
      BY <2>1, <2>3 DEF OpGoto, AppShape
    <3>2. HeldWhen'
      BY <2>1, <2>3 DEF OpGoto, AppShape, HeldWhen
    <3>3. NothingLeft'
      BY <2>1, <2>3 DEF OpGoto, AppShape, HeldWhen, NothingLeft, StartGoes
    <3>4. StartGoes'
      BY <2>1, <2>3 DEF OpGoto, AppShape, HeldWhen, NothingLeft, StartGoes, Loads, required_groups
    <3>5. RecordRight'
      BY <2>1, <2>3 DEF OpGoto, AppShape, HeldWhen, StartGoes, RecordRight
    <3>6. HelperRight'
      BY <2>1, <2>3 DEF OpGoto, AppShape, HeldWhen, StartGoes, RecordRight, HelperRight
    <3>7. ListenersRight'
      BY <2>1, <2>3 DEF OpGoto, AppShape, HeldWhen, NothingLeft, StartGoes, RecordRight, ListenersRight,
         Loads, OldListeners, Staged, required_groups
    <3>8. QED
      BY <3>1, <3>2, <3>3, <3>4, <3>5, <3>6, <3>7
  <2>4. CASE /\ UNCHANGED runtime \/ \E g \in op.todo : configure_listener(g)
           /\ Restore
    <3>1. AppShape'
      BY <2>1, <2>4 DEF configure_listener, Restore, OpThen, AppShape
    <3>2. HeldWhen'
      BY <2>1, <2>4 DEF configure_listener, Restore, OpThen, AppShape, HeldWhen
    <3>3. NothingLeft'
      BY <2>1, <2>4 DEF configure_listener, Restore, OpThen, AppShape, HeldWhen, NothingLeft, StartGoes
    <3>4. StartGoes'
      BY <2>1, <2>4 DEF configure_listener, Restore, OpThen, AppShape, HeldWhen, NothingLeft, StartGoes,
         Loads, required_groups
    <3>5. RecordRight'
      BY <2>1, <2>4 DEF configure_listener, Restore, OpThen, AppShape, HeldWhen, StartGoes, RecordRight
    <3>6. HelperRight'
      BY <2>1, <2>4 DEF configure_listener, Restore, OpThen, AppShape, HeldWhen, StartGoes, RecordRight,
         HelperRight
    <3>7. ListenersRight'
      BY <2>1, <2>4 DEF configure_listener, Restore, OpThen, AppShape, HeldWhen, NothingLeft, StartGoes,
         RecordRight, ListenersRight, Loads, OldListeners, Staged, required_groups
    <3>8. QED
      BY <3>1, <3>2, <3>3, <3>4, <3>5, <3>6, <3>7
  <2>5. QED
    BY <1>24, <2>2, <2>3, <2>4 DEF RulesStage
<1>25. CASE RulesPut
  <2>1. /\ op.pc = "put"
        /\ UNCHANGED <<disk, memory, runtime, view, regen, calls>>
    BY <1>25 DEF RulesPut
  <2>2. CASE /\ Accepts(op.want, managed.version)
           /\ op' = [op EXCEPT !.pc = "applied", !.version = managed.version + 1]
           /\ UNCHANGED <<managed, desired>>
    <3>1. AppShape'
      BY <2>1, <2>2 DEF Accepts, AppShape
    <3>2. HeldWhen'
      BY <2>1, <2>2 DEF Accepts, AppShape, HeldWhen
    <3>3. NothingLeft'
      BY <2>1, <2>2 DEF Accepts, AppShape, HeldWhen, NothingLeft, StartGoes
    <3>4. StartGoes'
      BY <2>1, <2>2 DEF Accepts, AppShape, HeldWhen, NothingLeft, StartGoes, Loads, required_groups
    <3>5. RecordRight'
      BY <2>1, <2>2 DEF Accepts, AppShape, HeldWhen, StartGoes, RecordRight
    <3>6. HelperRight'
      BY <2>1, <2>2 DEF Accepts, AppShape, HeldWhen, StartGoes, RecordRight, HelperRight
    <3>7. ListenersRight'
      BY <2>1, <2>2 DEF Accepts, AppShape, HeldWhen, NothingLeft, StartGoes, RecordRight,
         ListenersRight, Loads, OldListeners, Staged, required_groups
    <3>8. QED
      BY <3>1, <3>2, <3>3, <3>4, <3>5, <3>6, <3>7
  <2>3. CASE /\ helper.alive /\ helper.revision = managed.version
           /\ Restore /\ UNCHANGED <<managed, helper>>
    <3>1. AppShape'
      BY <2>1, <2>3 DEF Restore, OpThen, AppShape
    <3>2. HeldWhen'
      BY <2>1, <2>3 DEF Restore, OpThen, AppShape, HeldWhen
    <3>3. NothingLeft'
      BY <2>1, <2>3 DEF Restore, OpThen, AppShape, HeldWhen, NothingLeft, StartGoes
    <3>4. StartGoes'
      BY <2>1, <2>3 DEF Restore, OpThen, AppShape, HeldWhen, NothingLeft, StartGoes, Loads,
         required_groups
    <3>5. RecordRight'
      BY <2>1, <2>3 DEF Restore, OpThen, AppShape, HeldWhen, StartGoes, RecordRight
    <3>6. HelperRight'
      BY <2>1, <2>3 DEF Restore, OpThen, AppShape, HeldWhen, StartGoes, RecordRight, HelperRight
    <3>7. ListenersRight'
      BY <2>1, <2>3 DEF Restore, OpThen, AppShape, HeldWhen, NothingLeft, StartGoes, RecordRight,
         ListenersRight, Loads, OldListeners, Staged, required_groups
    <3>8. QED
      BY <3>1, <3>2, <3>3, <3>4, <3>5, <3>6, <3>7
  <2>4. CASE /\ Accepts(op.want, managed.version) \/ UNCHANGED helper
           /\ Fail /\ UNCHANGED desired
    <3>1. AppShape'
      BY <2>1, <2>4 DEF Accepts, Fail, OpGoto, AppShape
    <3>2. HeldWhen'
      BY <2>1, <2>4 DEF Accepts, Fail, OpGoto, AppShape, HeldWhen
    <3>3. NothingLeft'
      BY <2>1, <2>4 DEF Accepts, Fail, OpGoto, AppShape, HeldWhen, NothingLeft, StartGoes
    <3>4. StartGoes'
      BY <2>1, <2>4 DEF Accepts, Fail, OpGoto, AppShape, HeldWhen, NothingLeft, StartGoes, Loads,
         required_groups
    <3>5. RecordRight'
      BY <2>1, <2>4 DEF Accepts, Fail, OpGoto, AppShape, HeldWhen, StartGoes, RecordRight
    <3>6. HelperRight'
      BY <2>1, <2>4 DEF Accepts, Fail, OpGoto, AppShape, HeldWhen, StartGoes, RecordRight, HelperRight
    <3>7. ListenersRight'
      BY <2>1, <2>4 DEF Accepts, Fail, OpGoto, AppShape, HeldWhen, NothingLeft, StartGoes, RecordRight,
         ListenersRight, Loads, OldListeners, Staged, required_groups
    <3>8. QED
      BY <3>1, <3>2, <3>3, <3>4, <3>5, <3>6, <3>7
  <2>5. QED
    BY <1>25, <2>2, <2>3, <2>4 DEF RulesPut
<1>26. CASE RulesApplied
  <2>1. /\ op.pc = "applied"
        /\ UNCHANGED <<disk, memory, listeners, helper, view, regen, calls>>
    BY <1>26 DEF RulesApplied
  <2>2. CASE wait_rules_applied(op.want, op.version) /\ OpGoto("persist") /\ UNCHANGED managed
    <3>1. AppShape'
      BY <2>1, <2>2 DEF wait_rules_applied, OpGoto, AppShape
    <3>2. HeldWhen'
      BY <2>1, <2>2 DEF wait_rules_applied, OpGoto, AppShape, HeldWhen
    <3>3. NothingLeft'
      BY <2>1, <2>2 DEF wait_rules_applied, OpGoto, AppShape, HeldWhen, NothingLeft, StartGoes
    <3>4. StartGoes'
      BY <2>1, <2>2 DEF wait_rules_applied, OpGoto, AppShape, HeldWhen, NothingLeft, StartGoes, Loads,
         required_groups
    <3>5. RecordRight'
      BY <2>1, <2>2 DEF wait_rules_applied, OpGoto, AppShape, HeldWhen, StartGoes, RecordRight
    <3>6. HelperRight'
      BY <2>1, <2>2 DEF wait_rules_applied, OpGoto, AppShape, HeldWhen, StartGoes, RecordRight,
         HelperRight
    <3>7. ListenersRight'
      BY <2>1, <2>2 DEF wait_rules_applied, OpGoto, AppShape, HeldWhen, NothingLeft, StartGoes,
         RecordRight, ListenersRight, Loads, OldListeners, Staged, required_groups
    <3>8. QED
      BY <3>1, <3>2, <3>3, <3>4, <3>5, <3>6, <3>7
  <2>3. CASE Fail
    <3>1. AppShape'
      BY <2>1, <2>3 DEF Fail, OpGoto, AppShape
    <3>2. HeldWhen'
      BY <2>1, <2>3 DEF Fail, OpGoto, AppShape, HeldWhen
    <3>3. NothingLeft'
      BY <2>1, <2>3 DEF Fail, OpGoto, AppShape, HeldWhen, NothingLeft, StartGoes
    <3>4. StartGoes'
      BY <2>1, <2>3 DEF Fail, OpGoto, AppShape, HeldWhen, NothingLeft, StartGoes, Loads, required_groups
    <3>5. RecordRight'
      BY <2>1, <2>3 DEF Fail, OpGoto, AppShape, HeldWhen, StartGoes, RecordRight
    <3>6. HelperRight'
      BY <2>1, <2>3 DEF Fail, OpGoto, AppShape, HeldWhen, StartGoes, RecordRight, HelperRight
    <3>7. ListenersRight'
      BY <2>1, <2>3 DEF Fail, OpGoto, AppShape, HeldWhen, NothingLeft, StartGoes, RecordRight,
         ListenersRight, Loads, OldListeners, Staged, required_groups
    <3>8. QED
      BY <3>1, <3>2, <3>3, <3>4, <3>5, <3>6, <3>7
  <2>4. QED
    BY <1>26, <2>2, <2>3 DEF RulesApplied
<1>27. CASE RulesPersist
  <2>1. /\ op.pc = "persist"
        /\ UNCHANGED <<resume, running, runtime, helper, view, regen, calls>>
    BY <1>27 DEF RulesPersist
  <2>2. CASE /\ save_rules_to_disk(op.want) /\ rules' = op.want
           /\ managed' = [managed EXCEPT !.rules = op.want, !.version = op.version,
                                         !.extra = op.want \ {Primary}]
           /\ op' = [op EXCEPT !.pc = "retire", !.todo = OldListeners \ required_groups(op.want)]
           /\ desired' = required_groups(op.want)
    <3>1. AppShape'
      BY <2>1, <2>2 DEF save_rules_to_disk, AppShape
    <3>2. HeldWhen'
      BY <2>1, <2>2 DEF save_rules_to_disk, AppShape, HeldWhen
    <3>3. NothingLeft'
      BY <2>1, <2>2 DEF save_rules_to_disk, AppShape, HeldWhen, NothingLeft, StartGoes
    <3>4. StartGoes'
      BY <2>1, <2>2 DEF save_rules_to_disk, AppShape, HeldWhen, NothingLeft, StartGoes, Loads,
         required_groups
    <3>5. RecordRight'
      BY <2>1, <2>2 DEF save_rules_to_disk, AppShape, HeldWhen, StartGoes, RecordRight
    <3>6. HelperRight'
      BY <2>1, <2>2 DEF save_rules_to_disk, AppShape, HeldWhen, StartGoes, RecordRight, HelperRight
    <3>7. ListenersRight'
      BY <2>1, <2>2 DEF save_rules_to_disk, AppShape, HeldWhen, NothingLeft, StartGoes, RecordRight,
         ListenersRight, Loads, OldListeners, Staged, required_groups
    <3>8. QED
      BY <3>1, <3>2, <3>3, <3>4, <3>5, <3>6, <3>7
  <2>3. CASE OpGoto("rollback") /\ UNCHANGED <<stored, rules, managed, desired>>
    <3>1. AppShape'
      BY <2>1, <2>3 DEF OpGoto, AppShape
    <3>2. HeldWhen'
      BY <2>1, <2>3 DEF OpGoto, AppShape, HeldWhen
    <3>3. NothingLeft'
      BY <2>1, <2>3 DEF OpGoto, AppShape, HeldWhen, NothingLeft, StartGoes
    <3>4. StartGoes'
      BY <2>1, <2>3 DEF OpGoto, AppShape, HeldWhen, NothingLeft, StartGoes, Loads, required_groups
    <3>5. RecordRight'
      BY <2>1, <2>3 DEF OpGoto, AppShape, HeldWhen, StartGoes, RecordRight
    <3>6. HelperRight'
      BY <2>1, <2>3 DEF OpGoto, AppShape, HeldWhen, StartGoes, RecordRight, HelperRight
    <3>7. ListenersRight'
      BY <2>1, <2>3 DEF OpGoto, AppShape, HeldWhen, NothingLeft, StartGoes, RecordRight, ListenersRight,
         Loads, OldListeners, Staged, required_groups
    <3>8. QED
      BY <3>1, <3>2, <3>3, <3>4, <3>5, <3>6, <3>7
  <2>4. QED
    BY <1>27, <2>2, <2>3 DEF RulesPersist
<1>28. CASE RulesRollback
  <2>1. /\ op.pc = "rollback"
        /\ UNCHANGED <<disk, memory, listeners, view, regen, calls>>
    BY <1>28 DEF RulesRollback
  <2>2. CASE /\ Accepts(managed.rules, op.version)
           /\ op' = [op EXCEPT !.pc = "rolled back", !.version = @ + 1]
           /\ UNCHANGED managed
    <3>1. AppShape'
      BY <2>1, <2>2 DEF Accepts, AppShape
    <3>2. HeldWhen'
      BY <2>1, <2>2 DEF Accepts, AppShape, HeldWhen
    <3>3. NothingLeft'
      BY <2>1, <2>2 DEF Accepts, AppShape, HeldWhen, NothingLeft, StartGoes
    <3>4. StartGoes'
      BY <2>1, <2>2 DEF Accepts, AppShape, HeldWhen, NothingLeft, StartGoes, Loads, required_groups
    <3>5. RecordRight'
      BY <2>1, <2>2 DEF Accepts, AppShape, HeldWhen, StartGoes, RecordRight
    <3>6. HelperRight'
      BY <2>1, <2>2 DEF Accepts, AppShape, HeldWhen, StartGoes, RecordRight, HelperRight
    <3>7. ListenersRight'
      BY <2>1, <2>2 DEF Accepts, AppShape, HeldWhen, NothingLeft, StartGoes, RecordRight,
         ListenersRight, Loads, OldListeners, Staged, required_groups
    <3>8. QED
      BY <3>1, <3>2, <3>3, <3>4, <3>5, <3>6, <3>7
  <2>3. CASE /\ Accepts(managed.rules, op.version) \/ UNCHANGED helper
           /\ Fail
    <3>1. AppShape'
      BY <2>1, <2>3 DEF Accepts, Fail, OpGoto, AppShape
    <3>2. HeldWhen'
      BY <2>1, <2>3 DEF Accepts, Fail, OpGoto, AppShape, HeldWhen
    <3>3. NothingLeft'
      BY <2>1, <2>3 DEF Accepts, Fail, OpGoto, AppShape, HeldWhen, NothingLeft, StartGoes
    <3>4. StartGoes'
      BY <2>1, <2>3 DEF Accepts, Fail, OpGoto, AppShape, HeldWhen, NothingLeft, StartGoes, Loads,
         required_groups
    <3>5. RecordRight'
      BY <2>1, <2>3 DEF Accepts, Fail, OpGoto, AppShape, HeldWhen, StartGoes, RecordRight
    <3>6. HelperRight'
      BY <2>1, <2>3 DEF Accepts, Fail, OpGoto, AppShape, HeldWhen, StartGoes, RecordRight, HelperRight
    <3>7. ListenersRight'
      BY <2>1, <2>3 DEF Accepts, Fail, OpGoto, AppShape, HeldWhen, NothingLeft, StartGoes, RecordRight,
         ListenersRight, Loads, OldListeners, Staged, required_groups
    <3>8. QED
      BY <3>1, <3>2, <3>3, <3>4, <3>5, <3>6, <3>7
  <2>4. QED
    BY <1>28, <2>2, <2>3 DEF RulesRollback
<1>29. CASE RulesRolledBack
  <2>1. /\ op.pc = "rolled back"
        /\ UNCHANGED <<disk, memory, runtime, helper, view, regen, calls>>
    BY <1>29 DEF RulesRolledBack
  <2>2. CASE /\ wait_rules_applied(managed.rules, op.version)
           /\ managed' = [managed EXCEPT !.version = op.version]
           /\ Restore
    <3>1. AppShape'
      BY <2>1, <2>2 DEF wait_rules_applied, Restore, OpThen, AppShape
    <3>2. HeldWhen'
      BY <2>1, <2>2 DEF wait_rules_applied, Restore, OpThen, AppShape, HeldWhen
    <3>3. NothingLeft'
      BY <2>1, <2>2 DEF wait_rules_applied, Restore, OpThen, AppShape, HeldWhen, NothingLeft, StartGoes
    <3>4. StartGoes'
      BY <2>1, <2>2 DEF wait_rules_applied, Restore, OpThen, AppShape, HeldWhen, NothingLeft, StartGoes,
         Loads, required_groups
    <3>5. RecordRight'
      BY <2>1, <2>2 DEF wait_rules_applied, Restore, OpThen, AppShape, HeldWhen, StartGoes, RecordRight
    <3>6. HelperRight'
      BY <2>1, <2>2 DEF wait_rules_applied, Restore, OpThen, AppShape, HeldWhen, StartGoes, RecordRight,
         HelperRight
    <3>7. ListenersRight'
      BY <2>1, <2>2 DEF wait_rules_applied, Restore, OpThen, AppShape, HeldWhen, NothingLeft, StartGoes,
         RecordRight, ListenersRight, Loads, OldListeners, Staged, required_groups
    <3>8. QED
      BY <3>1, <3>2, <3>3, <3>4, <3>5, <3>6, <3>7
  <2>3. CASE Fail /\ UNCHANGED desired
    <3>1. AppShape'
      BY <2>1, <2>3 DEF Fail, OpGoto, AppShape
    <3>2. HeldWhen'
      BY <2>1, <2>3 DEF Fail, OpGoto, AppShape, HeldWhen
    <3>3. NothingLeft'
      BY <2>1, <2>3 DEF Fail, OpGoto, AppShape, HeldWhen, NothingLeft, StartGoes
    <3>4. StartGoes'
      BY <2>1, <2>3 DEF Fail, OpGoto, AppShape, HeldWhen, NothingLeft, StartGoes, Loads, required_groups
    <3>5. RecordRight'
      BY <2>1, <2>3 DEF Fail, OpGoto, AppShape, HeldWhen, StartGoes, RecordRight
    <3>6. HelperRight'
      BY <2>1, <2>3 DEF Fail, OpGoto, AppShape, HeldWhen, StartGoes, RecordRight, HelperRight
    <3>7. ListenersRight'
      BY <2>1, <2>3 DEF Fail, OpGoto, AppShape, HeldWhen, NothingLeft, StartGoes, RecordRight,
         ListenersRight, Loads, OldListeners, Staged, required_groups
    <3>8. QED
      BY <3>1, <3>2, <3>3, <3>4, <3>5, <3>6, <3>7
  <2>4. QED
    BY <1>29, <2>2, <2>3 DEF RulesRolledBack
<1>30. CASE RulesRestore
  <2>1. /\ op.pc = "restore"
        /\ UNCHANGED <<disk, memory, desired, helper, view, regen, calls>>
    BY <1>30 DEF RulesRestore
  <2>2. ASSUME NEW g \in op.todo, remove_listener(g), OpThen("restore", op.todo \ {g}), UNCHANGED managed
        PROVE  AppInv'
    <3>1. AppShape'
      BY <2>1, <2>2 DEF OpThen, AppShape
    <3>2. HeldWhen'
      BY <2>1, <2>2 DEF OpThen, AppShape, HeldWhen
    <3>3. NothingLeft'
      BY <2>1, <2>2 DEF OpThen, AppShape, HeldWhen, NothingLeft, StartGoes
    <3>4. StartGoes'
      BY <2>1, <2>2 DEF OpThen, AppShape, HeldWhen, NothingLeft, StartGoes, Loads, required_groups
    <3>5. RecordRight'
      BY <2>1, <2>2 DEF OpThen, AppShape, HeldWhen, StartGoes, RecordRight
    <3>6. HelperRight'
      BY <2>1, <2>2 DEF OpThen, AppShape, HeldWhen, StartGoes, RecordRight, HelperRight
    <3>7. ListenersRight'
      BY <2>1, <2>2 DEF OpThen, remove_listener, AppShape, HeldWhen, NothingLeft, StartGoes,
         RecordRight, ListenersRight, Loads, OldListeners, Staged, required_groups
    <3>8. QED
      BY <3>1, <3>2, <3>3, <3>4, <3>5, <3>6, <3>7
  <2>3. CASE op.todo = {} /\ OpReturn /\ UNCHANGED <<managed, runtime>>
    <3>1. AppShape'
      BY <2>1, <2>3 DEF OpReturn, NoOp, AppShape
    <3>2. HeldWhen'
      BY <2>1, <2>3 DEF OpReturn, NoOp, AppShape, HeldWhen
    <3>3. NothingLeft'
      BY <2>1, <2>3 DEF OpReturn, NoOp, AppShape, HeldWhen, NothingLeft, StartGoes
    <3>4. StartGoes'
      BY <2>1, <2>3 DEF OpReturn, NoOp, AppShape, HeldWhen, NothingLeft, StartGoes, Loads,
         required_groups
    <3>5. RecordRight'
      BY <2>1, <2>3 DEF OpReturn, NoOp, AppShape, HeldWhen, StartGoes, RecordRight
    <3>6. HelperRight'
      BY <2>1, <2>3 DEF OpReturn, NoOp, AppShape, HeldWhen, StartGoes, RecordRight, HelperRight
    <3>7. ListenersRight'
      BY <2>1, <2>3 DEF OpReturn, NoOp, AppShape, HeldWhen, NothingLeft, StartGoes, RecordRight,
         ListenersRight, Loads, OldListeners, Staged, required_groups
    <3>8. QED
      BY <3>1, <3>2, <3>3, <3>4, <3>5, <3>6, <3>7
  <2>4. CASE Fail /\ UNCHANGED runtime
    <3>1. AppShape'
      BY <2>1, <2>4 DEF Fail, OpGoto, AppShape
    <3>2. HeldWhen'
      BY <2>1, <2>4 DEF Fail, OpGoto, AppShape, HeldWhen
    <3>3. NothingLeft'
      BY <2>1, <2>4 DEF Fail, OpGoto, AppShape, HeldWhen, NothingLeft, StartGoes
    <3>4. StartGoes'
      BY <2>1, <2>4 DEF Fail, OpGoto, AppShape, HeldWhen, NothingLeft, StartGoes, Loads, required_groups
    <3>5. RecordRight'
      BY <2>1, <2>4 DEF Fail, OpGoto, AppShape, HeldWhen, StartGoes, RecordRight
    <3>6. HelperRight'
      BY <2>1, <2>4 DEF Fail, OpGoto, AppShape, HeldWhen, StartGoes, RecordRight, HelperRight
    <3>7. ListenersRight'
      BY <2>1, <2>4 DEF Fail, OpGoto, AppShape, HeldWhen, NothingLeft, StartGoes, RecordRight,
         ListenersRight, Loads, OldListeners, Staged, required_groups
    <3>8. QED
      BY <3>1, <3>2, <3>3, <3>4, <3>5, <3>6, <3>7
  <2>5. QED
    BY <1>30, <2>2, <2>3, <2>4 DEF RulesRestore
<1>31. CASE RulesRetire
  <2>1. /\ op.pc = "retire"
        /\ UNCHANGED <<disk, memory, desired, helper, view, regen, calls>>
    BY <1>31 DEF RulesRetire
  <2>2. ASSUME NEW g \in op.todo, remove_listener(g), OpThen("retire", op.todo \ {g}), UNCHANGED managed
        PROVE  AppInv'
    <3>1. AppShape'
      BY <2>1, <2>2 DEF OpThen, AppShape
    <3>2. HeldWhen'
      BY <2>1, <2>2 DEF OpThen, AppShape, HeldWhen
    <3>3. NothingLeft'
      BY <2>1, <2>2 DEF OpThen, AppShape, HeldWhen, NothingLeft, StartGoes
    <3>4. StartGoes'
      BY <2>1, <2>2 DEF OpThen, AppShape, HeldWhen, NothingLeft, StartGoes, Loads, required_groups
    <3>5. RecordRight'
      BY <2>1, <2>2 DEF OpThen, AppShape, HeldWhen, StartGoes, RecordRight
    <3>6. HelperRight'
      BY <2>1, <2>2 DEF OpThen, AppShape, HeldWhen, StartGoes, RecordRight, HelperRight
    <3>7. ListenersRight'
      BY <2>1, <2>2 DEF OpThen, remove_listener, AppShape, HeldWhen, NothingLeft, StartGoes,
         RecordRight, ListenersRight, Loads, OldListeners, Staged, required_groups
    <3>8. QED
      BY <3>1, <3>2, <3>3, <3>4, <3>5, <3>6, <3>7
  <2>3. CASE op.todo = {} /\ OpReturn /\ UNCHANGED <<managed, runtime>>
    <3>1. AppShape'
      BY <2>1, <2>3 DEF OpReturn, NoOp, AppShape
    <3>2. HeldWhen'
      BY <2>1, <2>3 DEF OpReturn, NoOp, AppShape, HeldWhen
    <3>3. NothingLeft'
      BY <2>1, <2>3 DEF OpReturn, NoOp, AppShape, HeldWhen, NothingLeft, StartGoes
    <3>4. StartGoes'
      BY <2>1, <2>3 DEF OpReturn, NoOp, AppShape, HeldWhen, NothingLeft, StartGoes, Loads,
         required_groups
    <3>5. RecordRight'
      BY <2>1, <2>3 DEF OpReturn, NoOp, AppShape, HeldWhen, StartGoes, RecordRight
    <3>6. HelperRight'
      BY <2>1, <2>3 DEF OpReturn, NoOp, AppShape, HeldWhen, StartGoes, RecordRight, HelperRight
    <3>7. ListenersRight'
      BY <2>1, <2>3 DEF OpReturn, NoOp, AppShape, HeldWhen, NothingLeft, StartGoes, RecordRight,
         ListenersRight, Loads, OldListeners, Staged, required_groups
    <3>8. QED
      BY <3>1, <3>2, <3>3, <3>4, <3>5, <3>6, <3>7
  <2>4. CASE Fail /\ UNCHANGED runtime
    <3>1. AppShape'
      BY <2>1, <2>4 DEF Fail, OpGoto, AppShape
    <3>2. HeldWhen'
      BY <2>1, <2>4 DEF Fail, OpGoto, AppShape, HeldWhen
    <3>3. NothingLeft'
      BY <2>1, <2>4 DEF Fail, OpGoto, AppShape, HeldWhen, NothingLeft, StartGoes
    <3>4. StartGoes'
      BY <2>1, <2>4 DEF Fail, OpGoto, AppShape, HeldWhen, NothingLeft, StartGoes, Loads, required_groups
    <3>5. RecordRight'
      BY <2>1, <2>4 DEF Fail, OpGoto, AppShape, HeldWhen, StartGoes, RecordRight
    <3>6. HelperRight'
      BY <2>1, <2>4 DEF Fail, OpGoto, AppShape, HeldWhen, StartGoes, RecordRight, HelperRight
    <3>7. ListenersRight'
      BY <2>1, <2>4 DEF Fail, OpGoto, AppShape, HeldWhen, NothingLeft, StartGoes, RecordRight,
         ListenersRight, Loads, OldListeners, Staged, required_groups
    <3>8. QED
      BY <3>1, <3>2, <3>3, <3>4, <3>5, <3>6, <3>7
  <2>5. QED
    BY <1>31, <2>2, <2>3, <2>4 DEF RulesRetire
<1>32. CASE RulesFault
  <2>1. /\ op.pc = "fault" /\ view.pc # "bury"
        /\ UNCHANGED <<disk, memory, managed, listeners, helper, view, regen, calls>>
    BY <1>32 DEF RulesFault
  <2>2. CASE managed.on = TRUE /\ OpGoto("stop")
    <3>1. AppShape'
      BY <2>1, <2>2 DEF OpGoto, AppShape
    <3>2. HeldWhen'
      BY <2>1, <2>2 DEF OpGoto, AppShape, HeldWhen
    <3>3. NothingLeft'
      BY <2>1, <2>2 DEF OpGoto, AppShape, HeldWhen, NothingLeft, StartGoes
    <3>4. StartGoes'
      BY <2>1, <2>2 DEF OpGoto, AppShape, HeldWhen, NothingLeft, StartGoes, Loads, required_groups
    <3>5. RecordRight'
      BY <2>1, <2>2 DEF OpGoto, AppShape, HeldWhen, StartGoes, RecordRight
    <3>6. HelperRight'
      BY <2>1, <2>2 DEF OpGoto, AppShape, HeldWhen, StartGoes, RecordRight, HelperRight
    <3>7. ListenersRight'
      BY <2>1, <2>2 DEF OpGoto, AppShape, HeldWhen, NothingLeft, StartGoes, RecordRight, ListenersRight,
         Loads, OldListeners, Staged, required_groups
    <3>8. QED
      BY <3>1, <3>2, <3>3, <3>4, <3>5, <3>6, <3>7
  <2>3. CASE managed.on = FALSE /\ OpReturn
    <3>1. AppShape'
      BY <2>1, <2>3 DEF OpReturn, NoOp, AppShape
    <3>2. HeldWhen'
      BY <2>1, <2>3 DEF OpReturn, NoOp, AppShape, HeldWhen
    <3>3. NothingLeft'
      BY <2>1, <2>3 DEF OpReturn, NoOp, AppShape, HeldWhen, NothingLeft, StartGoes
    <3>4. StartGoes'
      BY <2>1, <2>3 DEF OpReturn, NoOp, AppShape, HeldWhen, NothingLeft, StartGoes, Loads,
         required_groups
    <3>5. RecordRight'
      BY <2>1, <2>3 DEF OpReturn, NoOp, AppShape, HeldWhen, StartGoes, RecordRight
    <3>6. HelperRight'
      BY <2>1, <2>3 DEF OpReturn, NoOp, AppShape, HeldWhen, StartGoes, RecordRight, HelperRight
    <3>7. ListenersRight'
      BY <2>1, <2>3 DEF OpReturn, NoOp, AppShape, HeldWhen, NothingLeft, StartGoes, RecordRight,
         ListenersRight, Loads, OldListeners, Staged, required_groups
    <3>8. QED
      BY <3>1, <3>2, <3>3, <3>4, <3>5, <3>6, <3>7
  <2>4. QED
    BY <1>32, <2>2, <2>3 DEF RulesFault, AppShape, RecordRight
<1>33. CASE StopPreference
  <2>1. AppShape'
    BY <1>33 DEF StopPreference, OpGoto, AppShape
  <2>2. HeldWhen'
    BY <1>33 DEF StopPreference, OpGoto, AppShape, HeldWhen
  <2>3. NothingLeft'
    BY <1>33 DEF StopPreference, OpGoto, AppShape, HeldWhen, NothingLeft
  <2>4. StartGoes'
    BY <1>33 DEF StopPreference, OpGoto, AppShape, HeldWhen, NothingLeft, StartGoes, Loads,
       required_groups
  <2>5. RecordRight'
    BY <1>33 DEF StopPreference, OpGoto, AppShape, HeldWhen, StartGoes, RecordRight
  <2>6. HelperRight'
    BY <1>33 DEF StopPreference, OpGoto, AppShape, HeldWhen, StartGoes, RecordRight, HelperRight
  <2>7. ListenersRight'
    BY <1>33 DEF StopPreference, OpGoto, AppShape, HeldWhen, NothingLeft, StartGoes, RecordRight,
       ListenersRight, Loads, OldListeners, Staged, required_groups
  <2>8. QED
    BY <2>1, <2>2, <2>3, <2>4, <2>5, <2>6, <2>7
<1>34. CASE StopTake
  <2>1. /\ op.pc = "stop" /\ view.pc # "bury"
        /\ UNCHANGED <<disk, rules, runtime, helper, view, regen, calls>>
    BY <1>34 DEF StopTake
  <2>2. CASE /\ managed.on = TRUE
           /\ op' = [op EXCEPT !.pc = "halt", !.todo = OldListeners, !.version = managed.gen]
           /\ managed' = NoHelper /\ desired' = {} /\ UNCHANGED running
    <3>1. AppShape'
      BY <2>1, <2>2 DEF NoHelper, AppShape
    <3>2. HeldWhen'
      BY <2>1, <2>2 DEF NoHelper, AppShape, HeldWhen
    <3>3. NothingLeft'
      BY <2>1, <2>2 DEF NoHelper, AppShape, HeldWhen, NothingLeft, StartGoes
    <3>4. StartGoes'
      BY <2>1, <2>2 DEF NoHelper, AppShape, HeldWhen, NothingLeft, StartGoes, Loads, required_groups
    <3>5. RecordRight'
      BY <2>1, <2>2 DEF NoHelper, AppShape, HeldWhen, StartGoes, RecordRight
    <3>6. HelperRight'
      BY <2>1, <2>2 DEF NoHelper, AppShape, HeldWhen, StartGoes, RecordRight, HelperRight
    <3>7. ListenersRight'
      BY <2>1, <2>2 DEF NoHelper, AppShape, HeldWhen, NothingLeft, StartGoes, RecordRight,
         ListenersRight, Loads, OldListeners, Staged, required_groups
    <3>8. QED
      BY <3>1, <3>2, <3>3, <3>4, <3>5, <3>6, <3>7
  <2>3. CASE managed.on = FALSE /\ running' = FALSE /\ OpReturn /\ UNCHANGED <<managed, desired>>
    <3>1. AppShape'
      BY <2>1, <2>3 DEF OpReturn, NoOp, AppShape
    <3>2. HeldWhen'
      BY <2>1, <2>3 DEF OpReturn, NoOp, AppShape, HeldWhen
    <3>3. NothingLeft'
      BY <2>1, <2>3 DEF OpReturn, NoOp, AppShape, HeldWhen, NothingLeft, StartGoes
    <3>4. StartGoes'
      BY <2>1, <2>3 DEF OpReturn, NoOp, AppShape, HeldWhen, NothingLeft, StartGoes, Loads,
         required_groups
    <3>5. RecordRight'
      BY <2>1, <2>3 DEF OpReturn, NoOp, AppShape, HeldWhen, StartGoes, RecordRight
    <3>6. HelperRight'
      BY <2>1, <2>3 DEF OpReturn, NoOp, AppShape, HeldWhen, StartGoes, RecordRight, HelperRight
    <3>7. ListenersRight'
      BY <2>1, <2>3 DEF OpReturn, NoOp, AppShape, HeldWhen, NothingLeft, StartGoes, RecordRight,
         ListenersRight, Loads, OldListeners, Staged, required_groups
    <3>8. QED
      BY <3>1, <3>2, <3>3, <3>4, <3>5, <3>6, <3>7
  <2>4. QED
    BY <1>34, <2>2, <2>3 DEF StopTake, AppShape
<1>35. CASE StopHalt
  <2>1. AppShape'
    BY <1>35 DEF StopHalt, Kill, OpGoto, AppShape
  <2>2. HeldWhen'
    BY <1>35 DEF StopHalt, Kill, OpGoto, AppShape, HeldWhen
  <2>3. NothingLeft'
    BY <1>35 DEF StopHalt, Kill, OpGoto, AppShape, HeldWhen, NothingLeft
  <2>4. StartGoes'
    BY <1>35 DEF StopHalt, Kill, OpGoto, AppShape, HeldWhen, NothingLeft, StartGoes, Loads, required_groups
  <2>5. RecordRight'
    BY <1>35 DEF StopHalt, Kill, OpGoto, AppShape, HeldWhen, StartGoes, RecordRight
  <2>6. HelperRight'
    BY <1>35 DEF StopHalt, Kill, OpGoto, AppShape, HeldWhen, StartGoes, RecordRight, HelperRight
  <2>7. ListenersRight'
    BY <1>35 DEF StopHalt, Kill, OpGoto, AppShape, HeldWhen, NothingLeft, StartGoes, RecordRight,
       ListenersRight, Loads, OldListeners, Staged, required_groups
  <2>8. QED
    BY <2>1, <2>2, <2>3, <2>4, <2>5, <2>6, <2>7
<1>36. CASE StopUnlisten
  <2>1. /\ op.pc = "unlisten"
        /\ UNCHANGED <<disk, rules, managed, desired, helper, view, regen, calls>>
    BY <1>36 DEF StopUnlisten
  <2>2. ASSUME NEW g \in op.todo, OpThen("unlisten", op.todo \ {g}), UNCHANGED running
        PROVE  AppInv'
    <3>1. AppShape'
      BY <2>1, <2>2 DEF OpThen, AppShape
    <3>2. HeldWhen'
      BY <2>1, <2>2 DEF OpThen, AppShape, HeldWhen
    <3>3. NothingLeft'
      BY <2>1, <2>2 DEF OpThen, AppShape, HeldWhen, NothingLeft, StartGoes
    <3>4. StartGoes'
      BY <2>1, <2>2 DEF OpThen, AppShape, HeldWhen, NothingLeft, StartGoes, Loads, required_groups
    <3>5. RecordRight'
      BY <2>1, <2>2 DEF OpThen, AppShape, HeldWhen, StartGoes, RecordRight
    <3>6. HelperRight'
      BY <2>1, <2>2 DEF OpThen, AppShape, HeldWhen, StartGoes, RecordRight, HelperRight
    <3>7. ListenersRight'
      BY <2>1, <2>2 DEF OpThen, AppShape, HeldWhen, NothingLeft, StartGoes, RecordRight, ListenersRight,
         Loads, OldListeners, Staged, required_groups
    <3>8. QED
      BY <3>1, <3>2, <3>3, <3>4, <3>5, <3>6, <3>7
  <2>3. CASE running' = FALSE /\ OpReturn
    <3>1. AppShape'
      BY <2>1, <2>3 DEF OpReturn, NoOp, AppShape
    <3>2. HeldWhen'
      BY <2>1, <2>3 DEF OpReturn, NoOp, AppShape, HeldWhen
    <3>3. NothingLeft'
      BY <2>1, <2>3 DEF OpReturn, NoOp, AppShape, HeldWhen, NothingLeft, StartGoes
    <3>4. StartGoes'
      BY <2>1, <2>3 DEF OpReturn, NoOp, AppShape, HeldWhen, NothingLeft, StartGoes, Loads,
         required_groups
    <3>5. RecordRight'
      BY <2>1, <2>3 DEF OpReturn, NoOp, AppShape, HeldWhen, StartGoes, RecordRight
    <3>6. HelperRight'
      BY <2>1, <2>3 DEF OpReturn, NoOp, AppShape, HeldWhen, StartGoes, RecordRight, HelperRight
    <3>7. ListenersRight'
      BY <2>1, <2>3 DEF OpReturn, NoOp, AppShape, HeldWhen, NothingLeft, StartGoes, RecordRight,
         ListenersRight, Loads, OldListeners, Staged, required_groups
    <3>8. QED
      BY <3>1, <3>2, <3>3, <3>4, <3>5, <3>6, <3>7
  <2>4. QED
    BY <1>36, <2>2, <2>3 DEF StopUnlisten
<1>37. CASE StatusBegin
  <2>1. AppShape'
    BY <1>37 DEF StatusBegin, NoView, InnerFree, AppShape
  <2>2. HeldWhen'
    BY <1>37 DEF StatusBegin, NoView, InnerFree, AppShape, HeldWhen
  <2>3. NothingLeft'
    BY <1>37 DEF StatusBegin, NoView, InnerFree, AppShape, HeldWhen, NothingLeft
  <2>4. StartGoes'
    BY <1>37 DEF StatusBegin, NoView, InnerFree, AppShape, HeldWhen, NothingLeft, StartGoes, Loads,
       required_groups
  <2>5. RecordRight'
    BY <1>37 DEF StatusBegin, NoView, InnerFree, AppShape, HeldWhen, StartGoes, RecordRight
  <2>6. HelperRight'
    BY <1>37 DEF StatusBegin, NoView, InnerFree, AppShape, HeldWhen, StartGoes, RecordRight, HelperRight
  <2>7. ListenersRight'
    BY <1>37 DEF StatusBegin, NoView, InnerFree, AppShape, HeldWhen, NothingLeft, StartGoes,
       RecordRight, ListenersRight, Loads, OldListeners, Staged, required_groups
  <2>8. QED
    BY <2>1, <2>2, <2>3, <2>4, <2>5, <2>6, <2>7
<1>38. CASE StatusBury
  <2>1. /\ view.pc = "bury"
        /\ UNCHANGED <<disk, memory, desired, helper, op, regen, calls>>
    BY <1>38 DEF StatusBury
  <2>2. ASSUME NEW g \in view.extra, view' = [view EXCEPT !.extra = @ \ {g}], UNCHANGED managed
        PROVE  AppInv'
    <3>1. AppShape'
      BY <2>1, <2>2 DEF AppShape
    <3>2. HeldWhen'
      BY <2>1, <2>2 DEF AppShape, HeldWhen
    <3>3. NothingLeft'
      BY <2>1, <2>2 DEF AppShape, HeldWhen, NothingLeft, StartGoes
    <3>4. StartGoes'
      BY <2>1, <2>2 DEF AppShape, HeldWhen, NothingLeft, StartGoes, Loads, required_groups
    <3>5. RecordRight'
      BY <2>1, <2>2 DEF AppShape, HeldWhen, StartGoes, RecordRight
    <3>6. HelperRight'
      BY <2>1, <2>2 DEF AppShape, HeldWhen, StartGoes, RecordRight, HelperRight
    <3>7. ListenersRight'
      BY <2>1, <2>2 DEF AppShape, HeldWhen, NothingLeft, StartGoes, RecordRight, ListenersRight, Loads,
         OldListeners, Staged, required_groups
    <3>8. QED
      BY <3>1, <3>2, <3>3, <3>4, <3>5, <3>6, <3>7
  <2>3. CASE managed' = NoHelper /\ view' = NoView
    <3>1. AppShape'
      BY <2>1, <2>3 DEF NoHelper, NoView, AppShape
    <3>2. HeldWhen'
      BY <2>1, <2>3 DEF NoHelper, NoView, AppShape, HeldWhen
    <3>3. NothingLeft'
      BY <2>1, <2>3 DEF NoHelper, NoView, AppShape, HeldWhen, NothingLeft, StartGoes
    <3>4. StartGoes'
      BY <2>1, <2>3 DEF NoHelper, NoView, AppShape, HeldWhen, NothingLeft, StartGoes, Loads,
         required_groups
    <3>5. RecordRight'
      BY <2>1, <2>3 DEF NoHelper, NoView, AppShape, HeldWhen, StartGoes, RecordRight
    <3>6. HelperRight'
      BY <2>1, <2>3 DEF NoHelper, NoView, AppShape, HeldWhen, StartGoes, RecordRight, HelperRight
    <3>7. ListenersRight'
      BY <2>1, <2>3 DEF NoHelper, NoView, AppShape, HeldWhen, NothingLeft, StartGoes, RecordRight,
         ListenersRight, Loads, OldListeners, Staged, required_groups
    <3>8. QED
      BY <3>1, <3>2, <3>3, <3>4, <3>5, <3>6, <3>7
  <2>4. QED
    BY <1>38, <2>2, <2>3 DEF StatusBury
<1>39. CASE StatusAsk
  <2>1. AppShape'
    BY <1>39 DEF StatusAsk, AppShape
  <2>2. HeldWhen'
    BY <1>39 DEF StatusAsk, AppShape, HeldWhen
  <2>3. NothingLeft'
    BY <1>39 DEF StatusAsk, AppShape, HeldWhen, NothingLeft
  <2>4. StartGoes'
    BY <1>39 DEF StatusAsk, AppShape, HeldWhen, NothingLeft, StartGoes, Loads, required_groups
  <2>5. RecordRight'
    BY <1>39 DEF StatusAsk, AppShape, HeldWhen, StartGoes, RecordRight
  <2>6. HelperRight'
    BY <1>39 DEF StatusAsk, AppShape, HeldWhen, StartGoes, RecordRight, HelperRight
  <2>7. ListenersRight'
    BY <1>39 DEF StatusAsk, AppShape, HeldWhen, NothingLeft, StartGoes, RecordRight, ListenersRight,
       Loads, OldListeners, Staged, required_groups
  <2>8. QED
    BY <2>1, <2>2, <2>3, <2>4, <2>5, <2>6, <2>7
<1>40. CASE StatusLook
  <2>1. AppShape'
    BY <1>40 DEF StatusLook, AppShape
  <2>2. HeldWhen'
    BY <1>40 DEF StatusLook, AppShape, HeldWhen
  <2>3. NothingLeft'
    BY <1>40 DEF StatusLook, AppShape, HeldWhen, NothingLeft
  <2>4. StartGoes'
    BY <1>40 DEF StatusLook, AppShape, HeldWhen, NothingLeft, StartGoes, Loads, required_groups
  <2>5. RecordRight'
    BY <1>40 DEF StatusLook, AppShape, HeldWhen, StartGoes, RecordRight
  <2>6. HelperRight'
    BY <1>40 DEF StatusLook, AppShape, HeldWhen, StartGoes, RecordRight, HelperRight
  <2>7. ListenersRight'
    BY <1>40 DEF StatusLook, AppShape, HeldWhen, NothingLeft, StartGoes, RecordRight, ListenersRight,
       Loads, OldListeners, Staged, required_groups
  <2>8. QED
    BY <2>1, <2>2, <2>3, <2>4, <2>5, <2>6, <2>7
<1>41. CASE StatusReturn
  <2>1. AppShape'
    BY <1>41 DEF StatusReturn, NoView, AppShape
  <2>2. HeldWhen'
    BY <1>41 DEF StatusReturn, NoView, AppShape, HeldWhen
  <2>3. NothingLeft'
    BY <1>41 DEF StatusReturn, NoView, AppShape, HeldWhen, NothingLeft
  <2>4. StartGoes'
    BY <1>41 DEF StatusReturn, NoView, AppShape, HeldWhen, NothingLeft, StartGoes, Loads,
       required_groups
  <2>5. RecordRight'
    BY <1>41 DEF StatusReturn, NoView, AppShape, HeldWhen, StartGoes, RecordRight
  <2>6. HelperRight'
    BY <1>41 DEF StatusReturn, NoView, AppShape, HeldWhen, StartGoes, RecordRight, HelperRight
  <2>7. ListenersRight'
    BY <1>41 DEF StatusReturn, NoView, AppShape, HeldWhen, NothingLeft, StartGoes, RecordRight,
       ListenersRight, Loads, OldListeners, Staged, required_groups
  <2>8. QED
    BY <2>1, <2>2, <2>3, <2>4, <2>5, <2>6, <2>7
<1>42. CASE HelperDies
  <2>1. AppShape'
    BY <1>42 DEF HelperDies, AppShape
  <2>2. HeldWhen'
    BY <1>42 DEF HelperDies, AppShape, HeldWhen
  <2>3. NothingLeft'
    BY <1>42 DEF HelperDies, AppShape, HeldWhen, NothingLeft
  <2>4. StartGoes'
    BY <1>42 DEF HelperDies, AppShape, HeldWhen, NothingLeft, StartGoes, Loads, required_groups
  <2>5. RecordRight'
    BY <1>42 DEF HelperDies, AppShape, HeldWhen, StartGoes, RecordRight
  <2>6. HelperRight'
    BY <1>42 DEF HelperDies, AppShape, HeldWhen, StartGoes, RecordRight, HelperRight
  <2>7. ListenersRight'
    BY <1>42 DEF HelperDies, AppShape, HeldWhen, NothingLeft, StartGoes, RecordRight, ListenersRight,
       Loads, OldListeners, Staged, required_groups
  <2>8. QED
    BY <2>1, <2>2, <2>3, <2>4, <2>5, <2>6, <2>7
<1>43. CASE UpdateBegins
  <2>1. AppShape'
    BY <1>43 DEF UpdateBegins, merge_managed_listener, AppShape
  <2>2. HeldWhen'
    BY <1>43 DEF UpdateBegins, merge_managed_listener, AppShape, HeldWhen
  <2>3. NothingLeft'
    BY <1>43 DEF UpdateBegins, merge_managed_listener, AppShape, HeldWhen, NothingLeft
  <2>4. StartGoes'
    BY <1>43 DEF UpdateBegins, merge_managed_listener, AppShape, HeldWhen, NothingLeft, StartGoes,
       Loads, required_groups
  <2>5. RecordRight'
    BY <1>43 DEF UpdateBegins, merge_managed_listener, AppShape, HeldWhen, StartGoes, RecordRight
  <2>6. HelperRight'
    BY <1>43 DEF UpdateBegins, merge_managed_listener, AppShape, HeldWhen, StartGoes, RecordRight,
       HelperRight
  <2>7. ListenersRight'
    BY <1>43 DEF UpdateBegins, merge_managed_listener, AppShape, HeldWhen, NothingLeft, StartGoes,
       RecordRight, ListenersRight, Loads, OldListeners, Staged, required_groups
  <2>8. QED
    BY <2>1, <2>2, <2>3, <2>4, <2>5, <2>6, <2>7
<1>44. CASE UpdateEnds
  <2>1. AppShape'
    BY <1>44 DEF UpdateEnds, NoUpdate, AppShape
  <2>2. HeldWhen'
    BY <1>44 DEF UpdateEnds, NoUpdate, AppShape, HeldWhen
  <2>3. NothingLeft'
    BY <1>44 DEF UpdateEnds, NoUpdate, AppShape, HeldWhen, NothingLeft
  <2>4. StartGoes'
    BY <1>44 DEF UpdateEnds, NoUpdate, AppShape, HeldWhen, NothingLeft, StartGoes, Loads,
       required_groups
  <2>5. RecordRight'
    BY <1>44 DEF UpdateEnds, NoUpdate, AppShape, HeldWhen, StartGoes, RecordRight
  <2>6. HelperRight'
    BY <1>44 DEF UpdateEnds, NoUpdate, AppShape, HeldWhen, StartGoes, RecordRight, HelperRight
  <2>7. ListenersRight'
    BY <1>44 DEF UpdateEnds, NoUpdate, AppShape, HeldWhen, NothingLeft, StartGoes, RecordRight,
       ListenersRight, Loads, OldListeners, Staged, required_groups
  <2>8. QED
    BY <2>1, <2>2, <2>3, <2>4, <2>5, <2>6, <2>7
<1>45. CASE UNCHANGED apVars
  <2>1. AppShape'
    BY <1>45 DEF apVars, AppShape
  <2>2. HeldWhen'
    BY <1>45 DEF apVars, AppShape, HeldWhen
  <2>3. NothingLeft'
    BY <1>45 DEF apVars, AppShape, HeldWhen, NothingLeft
  <2>4. StartGoes'
    BY <1>45 DEF apVars, AppShape, HeldWhen, NothingLeft, StartGoes, Loads, required_groups
  <2>5. RecordRight'
    BY <1>45 DEF apVars, AppShape, HeldWhen, StartGoes, RecordRight
  <2>6. HelperRight'
    BY <1>45 DEF apVars, AppShape, HeldWhen, StartGoes, RecordRight, HelperRight
  <2>7. ListenersRight'
    BY <1>45 DEF apVars, AppShape, HeldWhen, NothingLeft, StartGoes, RecordRight, ListenersRight, Loads,
       OldListeners, Staged, required_groups
  <2>8. QED
    BY <2>1, <2>2, <2>3, <2>4, <2>5, <2>6, <2>7
<1>46. QED
  BY <1>1, <1>2, <1>3, <1>4, <1>5, <1>6, <1>7, <1>8, <1>9, <1>10, <1>11, <1>12, <1>13, <1>14, <1>15,
     <1>16, <1>17, <1>18, <1>19, <1>20, <1>21, <1>22, <1>23, <1>24, <1>25, <1>26, <1>27, <1>28, <1>29,
     <1>30, <1>31, <1>32, <1>33, <1>34, <1>35, <1>36, <1>37, <1>38, <1>39, <1>40, <1>41, <1>42, <1>43,
     <1>44, <1>45 DEF AppProxyNext, OpStep, StatusStep

\* The manager starts with nothing.
LEMMA AppStarts == AppProxyInit => AppInv
PROOF
<1> SUFFICES ASSUME AppProxyInit PROVE AppInv
  OBVIOUS
<1>1. AppShape
  BY DEF AppProxyInit, AppShape, NoOp, NoHelper, NoView, NoUpdate, FreePc
<1>2. op.pc = "idle" /\ managed.on = FALSE /\ view.pc = "idle" /\ helper.alive = FALSE /\ running = FALSE /\ desired = {}
  BY DEF AppProxyInit, NoOp, NoHelper, NoView
<1>3. HeldWhen /\ NothingLeft /\ StartGoes /\ RecordRight /\ HelperRight /\ ListenersRight
  BY <1>2 DEF HeldWhen, NothingLeft, StartGoes, RecordRight, HelperRight, ListenersRight, StartPc,
     ChangePc, HaltPc
<1>4. QED
  BY <1>1, <1>3 DEF AppInv

\* Settled, whatever the groups and the bounds: once an operation is over, the
\* manager, its helper, rules.json and the listeners agree.
THEOREM SettledCorrect == AppProxySpec => []Settled
PROOF
<1>1. AppInv => Settled
  <2> SUFFICES ASSUME AppInv, op.pc = "idle", managed.on
               PROVE  /\ ~managed.failed
                      /\ stored = rules /\ rules = managed.rules
                      /\ helper.alive =>
                           /\ helper.gen = managed.gen /\ ~helper.orphan
                           /\ helper.rules = managed.rules /\ helper.revision = managed.version
                           /\ desired = required_groups(managed.rules) /\ desired \subseteq runtime
    BY DEF Settled
  <2>1. managed.on = TRUE /\ managed.failed = FALSE /\ stored = rules /\ rules = managed.rules
    BY DEF AppInv, AppShape, RecordRight
  <2>2. ASSUME helper.alive
        PROVE  /\ helper.gen = managed.gen /\ helper.orphan = FALSE
               /\ helper.rules = managed.rules /\ helper.revision = managed.version
    BY <2>1, <2>2 DEF AppInv, AppShape, HelperRight, OldPc, RestPc
  <2>3. ASSUME helper.alive
        PROVE  desired = required_groups(managed.rules) /\ desired \subseteq runtime
    <3>1. view.pc # "bury"
      BY <2>3 DEF AppInv, HeldWhen
    <3>2. QED
      BY <3>1, <2>1 DEF AppInv, ListenersRight, RestPc, Loads
  <2>4. QED
    BY <2>1, <2>2, <2>3
<1>2. QED
  BY <1>1, AppStarts, AppKeeps, PTL DEF AppProxySpec

\* NoStrayHelper, whatever the groups and the bounds: without a helper on record
\* only an orphan of a crash runs, and no listener of it is desired.
THEOREM StrayCorrect == AppProxySpec => []NoStrayHelper
PROOF
<1>1. AppInv => NoStrayHelper
  BY DEF AppInv, AppShape, NothingLeft, NoStrayHelper, FreePc, HaltPc
<1>2. QED
  BY <1>1, AppStarts, AppKeeps, PTL DEF AppProxySpec

=============================================================================
