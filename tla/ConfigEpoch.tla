----------------------------- MODULE ConfigEpoch ----------------------------
(***************************************************************************)
(* The configuration epoch of core/app_proxy.rs: how AppProxyManager's     *)
(* status() finds out that what it read about the runtime, over several    *)
(* awaits, was not changed underneath it.  Every configuration update of   *)
(* the core manager raises a depth counter and bumps the epoch at its      *)
(* beginning and its end, each in an atomic operation of its own; status() *)
(* takes the epoch first and compares it last.                             *)
(***************************************************************************)
EXTENDS Naturals

CONSTANTS
  Updaters,    \* tasks that update the configuration
  Readers,     \* status() calls
  MaxEpoch,    \* how far the epoch counts
  None

ASSUME EpochAssumption == MaxEpoch \in Nat /\ None \notin Updaters

VARIABLES
  flag,        \* config_update_in_progress: the updater that set it
  depth,       \* CONFIG_UPDATE_DEPTH
  epoch,       \* CONFIG_UPDATE_EPOCH
  upd,         \* where each updater is
  read         \* each status() call: where it is, the epoch it took, and
               \* whether the runtime changed since

vars == <<flag, depth, epoch, upd, read>>

Idle == [pc |-> "idle", epoch |-> 0, stale |-> FALSE]

Init ==
  /\ flag = None /\ depth = 0 /\ epoch = 0
  /\ upd = [u \in Updaters |-> "idle"]
  /\ read = [r \in Readers |-> Idle]

----------------------------------------------------------------------------
(* A configuration update. *)

GoUpd(u, from, to) == upd[u] = from /\ upd' = [upd EXCEPT ![u] = to]

\* try_start_config_update
TryStart(u) ==
  /\ GoUpd(u, "idle", "begin")
  /\ flag = None /\ epoch + 2 <= MaxEpoch
  /\ flag' = u
  /\ UNCHANGED <<depth, epoch, read>>

\* start_core, restart_core, the handoffs and save_proxy_ports take the flag
\* and give it back without counting: the epoch says nothing of them.
HoldOnly(u) ==
  /\ GoUpd(u, "begin", "release")
  /\ UNCHANGED <<flag, depth, epoch, read>>

\* begin_config_update: the first one in bumps the epoch.
BeginDepth(u) ==
  /\ GoUpd(u, "begin", IF depth = 0 THEN "bump" ELSE "updating")
  /\ depth' = depth + 1
  /\ UNCHANGED <<flag, epoch, read>>

BeginEpoch(u) ==
  /\ GoUpd(u, "bump", "updating")
  /\ epoch' = epoch + 1
  /\ UNCHANGED <<flag, depth, read>>

\* Between taking the epoch and comparing it.
Reading(r) == read[r].pc \in {"reading", "depth", "epoch"}

\* The runtime changes under every status() call that is still reading.
Update(u) ==
  /\ GoUpd(u, "updating", "updating")
  /\ read' = [r \in Readers |-> [read[r] EXCEPT !.stale = @ \/ Reading(r)]]
  /\ UNCHANGED <<flag, depth, epoch>>

\* finish_config_update: the last one out bumps it again.
FinishDepth(u) ==
  /\ GoUpd(u, "updating", IF depth = 1 THEN "unbump" ELSE "release")
  /\ depth' = depth - 1
  /\ UNCHANGED <<flag, epoch, read>>

FinishEpoch(u) ==
  /\ GoUpd(u, "unbump", "release")
  /\ epoch' = epoch + 1
  /\ UNCHANGED <<flag, depth, read>>

Release(u) ==
  /\ GoUpd(u, "release", "idle")
  /\ flag' = None
  /\ UNCHANGED <<depth, epoch, read>>

UpdateStep(u) ==
  \/ TryStart(u) \/ HoldOnly(u) \/ BeginDepth(u) \/ BeginEpoch(u) \/ Update(u)
  \/ FinishDepth(u) \/ FinishEpoch(u) \/ Release(u)

----------------------------------------------------------------------------
(* status() *)

GoRead(r, from, to) == read[r].pc = from /\ read' = [read EXCEPT ![r].pc = to]

\* config_update_snapshot, before the first await.
Snapshot(r) ==
  /\ read[r].pc = "idle"
  /\ read' = [read EXCEPT ![r] = [pc |-> "reading", epoch |-> epoch, stale |-> FALSE]]
  /\ UNCHANGED <<flag, depth, epoch, upd>>

\* config_update_is_current: the parity of the snapshot ...
CheckParity(r) ==
  /\ GoRead(r, "reading", IF read[r].epoch % 2 = 0 THEN "depth" ELSE "unstable")
  /\ UNCHANGED <<flag, depth, epoch, upd>>

\* ... no update under way ...
CheckDepth(r) ==
  /\ GoRead(r, "depth", IF depth = 0 THEN "epoch" ELSE "unstable")
  /\ UNCHANGED <<flag, depth, epoch, upd>>

Mut_CheckEpoch(r) ==
  /\ GoRead(r, "epoch", IF epoch % 2 = 0 THEN "stable" ELSE "unstable")
  /\ UNCHANGED <<flag, depth, epoch, upd>>

\* ... and none since.
CheckEpoch(r) ==
  /\ GoRead(r, "epoch", IF epoch = read[r].epoch THEN "stable" ELSE "unstable")
  /\ UNCHANGED <<flag, depth, epoch, upd>>

Return(r) ==
  /\ read[r].pc \in {"stable", "unstable"}
  /\ read' = [read EXCEPT ![r] = Idle]
  /\ UNCHANGED <<flag, depth, epoch, upd>>

ReadStep(r) == Snapshot(r) \/ CheckParity(r) \/ CheckDepth(r) \/ CheckEpoch(r) \/ Return(r)

Next == (\E u \in Updaters : UpdateStep(u)) \/ (\E r \in Readers : ReadStep(r))

Spec == Init /\ [][Next]_vars

----------------------------------------------------------------------------
(* Properties *)

UpdPcs == {"idle", "begin", "bump", "updating", "unbump", "release"}
ReadPcs == {"idle", "reading", "depth", "epoch", "stable", "unstable"}

\* The places of the updaters and the status() calls, and counters that never
\* wrap below zero.
TypeOK ==
  /\ flag \in Updaters \cup {None}
  /\ depth \in Nat /\ epoch \in Nat
  /\ upd \in [Updaters -> UpdPcs]
  /\ read \in [Readers -> [pc : ReadPcs, epoch : Nat, stale : BOOLEAN]]

\* What config_update_is_current calls stable was: from the moment status()
\* took the epoch to the moment it compared it, no update that counts itself
\* changed the runtime it was reading, however the two counters' steps fell between its own.
StableMeansUnchanged == \A r \in Readers : read[r].pc = "stable" => ~read[r].stale

\* With no update under way the counters are at rest, depth 0 and an even
\* epoch: no run of updates leaves every later status() call unstable.
EpochSettles == flag = None => depth = 0 /\ epoch % 2 = 0

\* Why: the flag serialises the updates, so the counters tell where the one
\* that holds it is ...
Serial ==
  /\ \A u \in Updaters : upd[u] # "idle" <=> flag = u
  /\ flag = None => depth = 0 /\ epoch % 2 = 0
  /\ \A u \in Updaters :
       /\ upd[u] \in {"begin", "release"} => depth = 0 /\ epoch % 2 = 0
       /\ upd[u] = "bump" => depth = 1 /\ epoch % 2 = 0
       /\ upd[u] = "updating" => depth = 1 /\ epoch % 2 = 1
       /\ upd[u] = "unbump" => depth = 0 /\ epoch % 2 = 1

\* ... and a change moves the epoch past every even snapshot taken before it.
Overtaken ==
  \A r \in Readers :
    /\ read[r].epoch <= epoch
    /\ read[r].pc \in {"depth", "epoch", "stable"} => read[r].epoch % 2 = 0
    /\ read[r].stale /\ read[r].epoch % 2 = 0 => read[r].pc # "stable" /\ read[r].epoch < epoch

=============================================================================
