------------------------------ MODULE MCParts ------------------------------
(***************************************************************************)
(* Parts that share no state with each other, checked side by side for     *)
(* safety.  A behaviour belongs to the part its initial state names; the   *)
(* other parts rest.                                                       *)
(***************************************************************************)
EXTENDS RuntimeBundle, Listener, Ports, ProxyGuard, OwnerWatch, ConfigApply, CoreUpgrade,
        Shutdown, Singleton, Settings, MainWindow, Backups

VARIABLE part

\* Settings are two parts: patches beside updates and starts, with the Run State
\* at rest; and patches beside the Run State, with nobody else at the core.

\* The patches the user is given: of one setting, and of two at once.
SomePatches == {[tun |-> TRUE], [port |-> TRUE, tun |-> FALSE], [port |-> FALSE, launch |-> TRUE]}

\* A Service that runs, one that is absent, one being installed, and a broken
\* one before and after Sidecar was accepted, and with an action of its user's to come.
SomeRunStates ==
  {[health |-> h, inFlight |-> i, pending |-> p, settled |-> s, mode |-> m] :
     <<h, i, p, s, m>> \in {<<"Ready", FALSE, FALSE, FALSE, "Service">>, <<"NotInstalled", FALSE, FALSE, FALSE, "Sidecar">>,
                           <<"NotInstalled", TRUE, FALSE, FALSE, "NotRunning">>, <<"Unavailable", FALSE, FALSE, FALSE, "Sidecar">>,
                           <<"Unavailable", FALSE, TRUE, TRUE, "Sidecar">>}}

\* No foreign socket on port 1; one; or a live TCP one and a lingering TCP one.
ForeignSockets == {s \in Socket : s.port = 1}
SomeWorlds     ==
  {{}} \cup {{s} : s \in ForeignSockets}
    \cup {{s, t} : s \in {f \in ForeignSockets : f.state = "live" /\ f.transport = "tcp"},
                   t \in {f \in ForeignSockets : f.state = "lingering"}}
\* Interfaces that list every address; none; and every one, with one that fails.
SomeNetworks   == [listed: {V4Hosts \cup V6Hosts, {}}, failing: {{}}]
                    \cup [listed: {V4Hosts \cup V6Hosts}, failing: {{"0.0.0.0"}}]
\* The mixed port alone, or one more listener, at the same port or at another.
OneMore(lan, ipv6, name, port) ==
  [NoListener EXCEPT !.lan = lan, !.ipv6 = ipv6, !.mixed = 1, ![name] = port]
SomeCandidates ==
  {OneMore(lan, FALSE, "socks", port) : lan \in {"no", "192.168.0.2", "::", "fe80::1"}, port \in Port}
    \cup {OneMore("*", ipv6, name, port) : ipv6 \in BOOLEAN, name \in {"http", "tproxy"}, port \in Port}
\* No core; one on the port of those sockets; one with a listener there and one elsewhere.
SomeCurrents   == {NoListener, [NoListener EXCEPT !.mixed = 1],
                   [NoListener EXCEPT !.lan = "*", !.mixed = 2, !.socks = 1]}

\* A part that rests has one initial state.
Rest ==
  /\ IF part = "bundle" THEN TRUE
     ELSE declared = [i \in Provider |-> [kind |-> "local", path |-> Plain, url |-> AnUrl]]
  /\ IF part = "listener" THEN TRUE
     ELSE /\ platform = "linux" /\ sockets = {} /\ current = NoListener
          /\ candidate = OneMore("no", FALSE, "socks", 0)
          /\ network = [listed |-> {}, failing |-> {}]
  /\ IF part = "ports" THEN TRUE
     ELSE taken = {} /\ saved = Both(1)
  /\ IF part = "apply" THEN TRUE
     ELSE chosen = "a" /\ settled = 1
  /\ IF part = "upgrade" THEN TRUE
     ELSE upgradeOs = "unix" /\ coreFile = 1 /\ upMode = "NotRunning"
  /\ IF part = "exit" THEN TRUE
     ELSE exitMode = "NotRunning" /\ lightweight = FALSE
  /\ IF part = "window" THEN TRUE
     ELSE auto_light = FALSE
  /\ IF part = "backups" THEN TRUE
     ELSE backupSettings = DefaultSettings

PartsInit ==
  /\ part \in {"bundle", "listener", "ports", "guard", "watch", "apply", "upgrade", "exit", "single", "settings", "tun", "window", "backups"}
  /\ Rest
  /\ BundleInit
  /\ ListenInit
  /\ PortsInit
  /\ GuardInit
  /\ WatchInit
  /\ ApplyInit
  /\ UpgradeInit
  /\ ExitInit
  /\ SingleInit
  /\ SetInit
  /\ WindowInit
  /\ BackupInit

AllVars == <<bundleVars, listenVars, portVars, guardVars, watchVars, applyVars, upgradeVars, exitVars, singleVars, setVars, windowVars, backupVars>>

PartsNext ==
  /\ UNCHANGED part
  /\ \/ /\ part = "bundle" /\ BundleNext
        /\ UNCHANGED <<listenVars, portVars, guardVars, watchVars, applyVars, upgradeVars, exitVars, singleVars, setVars, windowVars, backupVars>>
     \/ /\ part = "listener" /\ ListenNext
        /\ UNCHANGED <<bundleVars, portVars, guardVars, watchVars, applyVars, upgradeVars, exitVars, singleVars, setVars, windowVars, backupVars>>
     \/ /\ part = "ports" /\ PortsNext
        /\ UNCHANGED <<bundleVars, listenVars, guardVars, watchVars, applyVars, upgradeVars, exitVars, singleVars, setVars, windowVars, backupVars>>
     \/ /\ part = "guard" /\ GuardNext
        /\ UNCHANGED <<bundleVars, listenVars, portVars, watchVars, applyVars, upgradeVars, exitVars, singleVars, setVars, windowVars, backupVars>>
     \/ /\ part = "watch" /\ WatchNext
        /\ UNCHANGED <<bundleVars, listenVars, portVars, guardVars, applyVars, upgradeVars, exitVars, singleVars, setVars, windowVars, backupVars>>
     \/ /\ part = "apply" /\ ApplyNext
        /\ UNCHANGED <<bundleVars, listenVars, portVars, guardVars, watchVars, upgradeVars, exitVars, singleVars, setVars, windowVars, backupVars>>
     \/ /\ part = "upgrade" /\ UpgradeNext
        /\ UNCHANGED <<bundleVars, listenVars, portVars, guardVars, watchVars, applyVars, exitVars, singleVars, setVars, windowVars, backupVars>>
     \/ /\ part = "exit" /\ ExitNext
        /\ UNCHANGED <<bundleVars, listenVars, portVars, guardVars, watchVars, applyVars, upgradeVars, singleVars, setVars, windowVars, backupVars>>
     \/ /\ part = "single" /\ SingleNext
        /\ UNCHANGED <<bundleVars, listenVars, portVars, guardVars, watchVars, applyVars, upgradeVars, exitVars, setVars, windowVars, backupVars>>
     \/ /\ part = "settings" /\ (PatchNext \/ OthersNext)
        /\ UNCHANGED <<bundleVars, listenVars, portVars, guardVars, watchVars, applyVars, upgradeVars, exitVars, singleVars, windowVars, backupVars>>
     \/ /\ part = "tun" /\ (PatchNext \/ TunNext)
        /\ UNCHANGED <<bundleVars, listenVars, portVars, guardVars, watchVars, applyVars, upgradeVars, exitVars, singleVars, windowVars, backupVars>>
     \/ /\ part = "window" /\ WindowNext
        /\ UNCHANGED <<bundleVars, listenVars, portVars, guardVars, watchVars, applyVars, upgradeVars, exitVars, singleVars, setVars, backupVars>>
     \/ /\ part = "backups" /\ BackupNext
        /\ UNCHANGED <<bundleVars, listenVars, portVars, guardVars, watchVars, applyVars, upgradeVars, exitVars, singleVars, setVars, windowVars>>

PartsSpec ==
  /\ PartsInit /\ [][PartsNext]_<<AllVars, part>>
=============================================================================
