-------------------------------- MODULE Ports --------------------------------
(***************************************************************************)
(* The mixed port: what the settings name, what the session borrows when   *)
(* that port is occupied at startup (SESSION_FALLBACK), and what the core  *)
(* serves.  The startup with its retries (config/port.rs, CoreManager::    *)
(* init) and a save of the port settings (feat/listener.rs) move it; other *)
(* restarts only follow the runtime configuration.                         *)
(***************************************************************************)
EXTENDS Naturals, FiniteSets

CONSTANTS
  PortNumbers,               \* an interval of ports, in the order they are tried
  ReservedPorts,             \* ports of the other listeners and the controller
  MAX_PORT_FALLBACK_RETRIES,
  MaxSaves, MaxTaken, MaxCrashes   \* bounds

ASSUME PortsAssumption ==
  /\ PortNumbers \subseteq Nat \ {0}
  /\ {MAX_PORT_FALLBACK_RETRIES, MaxSaves, MaxTaken, MaxCrashes} \subseteq Nat

VARIABLES
  taken,     \* ports other processes serve
  saved,     \* config.yaml and verge.yaml: the port each names
  named,     \* the committed settings in memory, clash and verge
  sessionFallback,  \* SESSION_FALLBACK, 0 for none
  runtimePort,   \* port of the committed Runtime Configuration, 0 before there is one
  rdraft,    \* port of its draft, 0 for none
  served,    \* port the core serves, 0 when it is not running
  boot,      \* the startup: pc, port it tries to move to, retries
  save,      \* the save: pc, port, borrowed port, whether the core was running
  strayed,   \* a restart was asked for while the startup was moving the port,
             \* or the way back from a save could not stop the core
  saves, crashes

portVars == <<taken, saved, named, sessionFallback, runtimePort, rdraft, served, boot, save, strayed, saves, crashes>>

Both(p) == [clash |-> p, verge |-> p]
Booting == [pc |-> "resolve", to |-> 0, retries |-> 0]
NoSave  == [pc |-> "idle", port |-> 0, borrowed |-> 0, running |-> FALSE]

PortsInit ==
  /\ taken \in {s \in SUBSET PortNumbers : Cardinality(s) <= MaxTaken}
  /\ \E p \in PortNumbers \ ReservedPorts : saved = Both(p)
  /\ named = saved /\ sessionFallback = 0 /\ runtimePort = 0 /\ rdraft = 0 /\ served = 0
  /\ boot = Booting /\ save = NoSave /\ strayed = FALSE /\ saves = 0 /\ crashes = 0

-----------------------------------------------------------------------------
\* MixedPort::desired: where the system proxy and PAC point.
desired == IF sessionFallback # 0 THEN sessionFallback ELSE named.verge

\* Config::generate: the fallback is put over the merged port.
generated(f, clash) == IF f # 0 THEN f ELSE clash

\* runtime_config_yaml: the latest of the draft and the committed one.
latest == IF rdraft # 0 THEN rdraft ELSE runtimePort

\* external: a core listens on a free port or does not come up.
CoreAt(p) == IF p \in taken THEN {0} ELSE {0, p}

ConfigLocked == boot.pc \in {"move", "stage"} \/ save.pc # "idle"
ConfigUpdateRunning == save.pc # "idle"

-----------------------------------------------------------------------------
(* Startup                                                                   *)

selected == IF sessionFallback # 0 THEN sessionFallback ELSE named.clash

\* The ports above the current one, wrapping around, that nothing reserves.
Distance(p, q) == IF q > p THEN q - p ELSE q - p + Cardinality(PortNumbers)
find_next_available_port(p) ==
  LET free == (PortNumbers \ ReservedPorts) \ (taken \cup {p})
  IN IF free = {} THEN 0
     ELSE CHOOSE q \in free : \A r \in free : Distance(p, q) <= Distance(p, r)

\* The first resolution precedes the runtime configuration, a later one
\* follows a failed start.
Kept == IF runtimePort = 0 THEN "generate" ELSE "ended"

\* resolve_startup_mixed_port up to its scan: the own service's core, a free
\* port and an unclear probe keep the port.
resolve_startup_mixed_port ==
  /\ boot.pc = "resolve" /\ ~ConfigLocked
  /\ \/ boot' = [boot EXCEPT !.pc = Kept]
     \/ /\ selected \in taken
        /\ LET q == find_next_available_port(selected)
           IN boot' = IF q = 0 THEN [boot EXCEPT !.pc = "blocked"]
                      ELSE [boot EXCEPT !.pc = "move", !.to = q]
  /\ UNCHANGED <<taken, saved, named, sessionFallback, runtimePort, rdraft, served, save, strayed, saves, crashes>>

\* apply_startup_mixed_port_fallback: the fallback is set and a runtime
\* configuration generated from it; retry keeps the port to go back to.
apply_startup_mixed_port_fallback ==
  /\ boot.pc = "move"
  /\ sessionFallback' = boot.to /\ rdraft' = generated(boot.to, named.clash)
  /\ boot' = [boot EXCEPT !.pc = "stage", !.to = sessionFallback]
  /\ UNCHANGED <<taken, saved, named, runtimePort, served, save, strayed, saves, crashes>>

\* stage_fallback_runtime: valid and written, it is committed; anything else
\* brings the earlier fallback back and blocks the startup core.
stage_fallback_runtime ==
  /\ boot.pc = "stage" /\ rdraft' = 0
  /\ \/ /\ runtimePort' = rdraft
        /\ boot' = [boot EXCEPT !.pc = "start", !.retries = @ + (IF runtimePort = 0 THEN 0 ELSE 1)]
        /\ UNCHANGED sessionFallback
     \/ /\ sessionFallback' = boot.to /\ boot' = [boot EXCEPT !.pc = "blocked"] /\ UNCHANGED runtimePort
  /\ UNCHANGED <<taken, saved, named, served, save, strayed, saves, crashes>>

\* generate_and_validate and the apply after it; the default configuration
\* an invalid one is replaced with has the same port.
init_runtime_config ==
  /\ boot.pc = "generate" /\ ~ConfigUpdateRunning
  /\ runtimePort' = generated(sessionFallback, named.clash) /\ boot' = [boot EXCEPT !.pc = "start"]
  /\ UNCHANGED <<taken, saved, named, sessionFallback, rdraft, served, save, strayed, saves, crashes>>

\* CoreManager::init: a start refused by a running update, or one that fails,
\* is tried again only after the port moved, and only so often.  A start finds
\* a core that runs already, or waits for the service.
core_init ==
  /\ boot.pc = "start"
  /\ served' \in IF ConfigUpdateRunning \/ served # 0 THEN {served} ELSE CoreAt(latest)
  /\ \/ boot' = [boot EXCEPT !.pc = "ended"]
     \/ /\ served' = 0 /\ boot.retries < MAX_PORT_FALLBACK_RETRIES
        /\ boot' = [boot EXCEPT !.pc = "resolve"]
  /\ UNCHANGED <<taken, saved, named, sessionFallback, runtimePort, rdraft, save, strayed, saves, crashes>>

\* restart_core: the user's, the tray's, a lost sidecar's.
restart_core ==
  /\ runtimePort # 0 /\ ~ConfigUpdateRunning
  /\ served' \in CoreAt(latest)
  /\ strayed' = (strayed \/ boot.pc \in {"resolve", "move", "stage"})
  /\ UNCHANGED <<taken, saved, named, sessionFallback, runtimePort, rdraft, boot, save, saves, crashes>>

-----------------------------------------------------------------------------
(* Saving the ports                                                          *)

\* stage_proxy_ports and the candidate: the borrowed port is given up first.
save_proxy_ports(p) ==
  /\ saves < MaxSaves /\ saves' = saves + 1
  /\ runtimePort # 0 /\ boot.pc # "generate" /\ ~ConfigLocked
  /\ save' = [pc |-> "assess", port |-> p, borrowed |-> sessionFallback, running |-> served # 0]
  /\ sessionFallback' = 0 /\ rdraft' = generated(0, p)
  /\ UNCHANGED <<taken, saved, named, runtimePort, served, boot, strayed, crashes>>

Mut_restore_borrowed_port == sessionFallback' = sessionFallback
restore_borrowed_port == sessionFallback' = save.borrowed

\* The generation, the probe, the validation or the run file fails; ports the
\* core holds itself are no conflict.
SaveRefused ==
  /\ save.pc = "assess"
  /\ restore_borrowed_port /\ rdraft' = 0 /\ save' = NoSave
  /\ UNCHANGED <<taken, saved, named, runtimePort, served, boot, strayed, saves, crashes>>

SaveAssessed ==
  /\ save.pc = "assess" /\ save.port \notin taken
  /\ save' = [save EXCEPT !.pc = IF save.running THEN "restart" ELSE "clash"]
  /\ UNCHANGED <<taken, saved, named, sessionFallback, runtimePort, rdraft, served, boot, strayed, saves, crashes>>

SaveRestart ==
  /\ save.pc = "restart"
  /\ \/ served' \in CoreAt(latest) \ {0} /\ save' = [save EXCEPT !.pc = "clash"]
     \/ served' \in {0, served} /\ save' = [save EXCEPT !.pc = "undo"]
  /\ UNCHANGED <<taken, saved, named, sessionFallback, runtimePort, rdraft, boot, strayed, saves, crashes>>

\* persist_proxy_port_sources writes one file after the other.
PersistSource(file, next) ==
  /\ save.pc = file
  /\ \/ saved' = [saved EXCEPT ![file] = save.port] /\ save' = [save EXCEPT !.pc = next]
     \/ save' = [save EXCEPT !.pc = "undo"] /\ UNCHANGED saved
  /\ UNCHANGED <<taken, named, sessionFallback, runtimePort, rdraft, served, boot, strayed, saves, crashes>>

persist_proxy_port_sources == PersistSource("clash", "verge") \/ PersistSource("verge", "commit")

SaveCommit ==
  /\ save.pc = "commit"
  /\ named' = Both(save.port) /\ runtimePort' = rdraft /\ rdraft' = 0 /\ save' = NoSave
  /\ UNCHANGED <<taken, saved, sessionFallback, served, boot, strayed, saves, crashes>>

\* The drafts go first, then the borrowed port comes back, then the files.
restore_files ==
  /\ save.pc = "undo"
  /\ rdraft' = 0 /\ restore_borrowed_port
  /\ saved' \in {[f \in DOMAIN saved |-> IF f \in done THEN named[f] ELSE saved[f]] :
                   done \in SUBSET DOMAIN saved}
  /\ save' = IF save.running THEN [save EXCEPT !.pc = "back"] ELSE NoSave
  /\ UNCHANGED <<taken, named, runtimePort, served, boot, strayed, saves, crashes>>

\* The previous core is started or restarted; one that cannot be stopped stays.
rollback_proxy_ports ==
  /\ save.pc = "back"
  /\ \/ served' \in CoreAt(latest) /\ UNCHANGED strayed
     \/ served # 0 /\ strayed' = TRUE /\ UNCHANGED served
  /\ save' = NoSave
  /\ UNCHANGED <<taken, saved, named, sessionFallback, runtimePort, rdraft, boot, saves, crashes>>

-----------------------------------------------------------------------------
\* Another process takes a free port, or gives one up.
Occupy ==
  /\ \/ \E p \in PortNumbers \ (taken \cup {served}) : Cardinality(taken) < MaxTaken /\ taken' = taken \cup {p}
     \/ \E p \in taken : taken' = taken \ {p}
  /\ UNCHANGED <<saved, named, sessionFallback, runtimePort, rdraft, served, boot, save, strayed, saves, crashes>>

\* The process ends at any point and starts again from the files.
PortsCrash ==
  /\ crashes < MaxCrashes /\ crashes' = crashes + 1
  /\ named' = saved /\ sessionFallback' = 0 /\ runtimePort' = 0 /\ rdraft' = 0 /\ served' = 0
  /\ boot' = Booting /\ save' = NoSave /\ strayed' = FALSE
  /\ UNCHANGED <<taken, saved, saves>>

PortsNext ==
  \/ resolve_startup_mixed_port \/ apply_startup_mixed_port_fallback \/ stage_fallback_runtime
  \/ init_runtime_config \/ core_init \/ restart_core
  \/ \E p \in PortNumbers \ ReservedPorts : save_proxy_ports(p)
  \/ SaveRefused \/ SaveAssessed \/ SaveRestart \/ persist_proxy_port_sources
  \/ SaveCommit \/ restore_files \/ rollback_proxy_ports
  \/ Occupy \/ PortsCrash

PortsSpec == PortsInit /\ [][PortsNext]_portVars

-----------------------------------------------------------------------------
AtRest == boot.pc \in {"start", "ended", "blocked"} /\ save.pc = "idle"

\* Between operations the system proxy and PAC point at the port the core
\* serves, whatever was borrowed at startup and however a save failed: unless
\* a crash left the two files with different ports, a restart got in between the
\* steps of a startup that moves the port, or the way back itself failed
\* (MixedPort::desired, restore_borrowed_port, apply_startup_mixed_port_fallback).
DesiredIsServed ==
  AtRest /\ served # 0 /\ ~strayed /\ named.clash = named.verge => desired = served
=============================================================================
