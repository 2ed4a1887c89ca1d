------------------------------ MODULE MCUpdates ------------------------------
(***************************************************************************)
(* Four parts that meet in a configuration update and in the system proxy  *)
(* it ends with, checked side by side for safety: the epoch, the PAC gate, *)
(* the system proxy and the application proxy.  A behaviour belongs to the *)
(* part its initial state names; the other parts rest.                     *)
(***************************************************************************)
EXTENDS ConfigEpoch, PacGate, SysProxy, AppProxy

VARIABLE part

UpdatesInit ==
  /\ part \in {"epoch", "pac", "system", "app"}
  /\ IF part = "pac" THEN TRUE ELSE data = CHOOSE p \in Ports : TRUE
  /\ IF part = "system" THEN TRUE
     ELSE platform = "linux" /\ os = Target("off") /\ want = "off" /\ wantGuard = FALSE
  /\ Init /\ PacInit /\ SysProxyInit /\ AppProxyInit

UpdatesNext ==
  /\ UNCHANGED part
  /\ \/ part = "epoch"  /\ Next         /\ UNCHANGED <<pacVars, sysVars, apVars>>
     \/ part = "pac"    /\ PacNext      /\ UNCHANGED <<vars, sysVars, apVars>>
     \/ part = "system" /\ SysProxyNext /\ UNCHANGED <<vars, pacVars, apVars>>
     \/ part = "app"    /\ AppProxyNext /\ UNCHANGED <<vars, pacVars, sysVars>>

UpdatesSpec == UpdatesInit /\ [][UpdatesNext]_<<vars, pacVars, sysVars, apVars, part>>
=============================================================================
