------------------------------ MODULE SysProxy ------------------------------
(***************************************************************************)
(* Sysopt (core/sysopt.rs): the operating system's proxy setting, the      *)
(* guard thread that keeps re-asserting it, and the process-local record   *)
(* of which state this instance owns.                                      *)
(*                                                                         *)
(* Every caller of Sysopt holds CoreManager's lifecycle lock, so one       *)
(* operation runs at a time (`t`); what interleaves with it are the guard  *)
(* thread, other processes that write the same OS setting, and the user    *)
(* editing the configuration.  Hosts, ports, bypass lists and the inactive *)
(* half of a proxy record are data no property tells apart: each of the    *)
(* two switches is "off", "ours" or "other".                               *)
(***************************************************************************)
EXTENDS Naturals

CONSTANTS
  Platforms,  \* the platforms the program is built for
  Wants,      \* the proxy settings the user switches between
  Nobody        \* no owned state, no guard target, no captured value

ASSUME PlatformAssumption == Platforms \subseteq {"windows", "linux", "macos"}
ASSUME WantsAssumption == Wants \subseteq {"off", "global", "pac"}

VARIABLES
  platform,   \* the one this build runs on
  os,         \* what the operating system holds
  want,       \* enable_system_proxy / proxy_auto_config
  wantGuard,  \* enable_proxy_guard
  owned,      \* owned_proxy
  guard,      \* the GuardMonitor
  t,          \* the operation in progress
  last,       \* the operation that returned last, and how
  confirmed   \* the last target that update_sysproxy confirmed

sysVars == <<platform, os, want, wantGuard, owned, guard, t, last, confirmed>>

\* What no operation of Sysopt changes.
settings == <<platform, want, wantGuard>>

AllOff == [sys |-> "off", auto |-> "off"]

Target(w) == [sys  |-> IF w = "global" THEN "ours" ELSE "off",
              auto |-> IF w = "pac" THEN "ours" ELSE "off"]

OpIdle == [pc |-> "idle", op |-> Nobody, target |-> "off", type |-> Nobody,
         same |-> FALSE, was |-> FALSE, drained |-> FALSE, reached |-> FALSE, then |-> "idle"]

\* The proxy left behind by an earlier run of the application is an initial
\* state too: the setting outlives the process.
SysProxyInit ==
  /\ platform \in Platforms
  /\ os \in {[sys |-> "other", auto |-> "off"]} \cup {Target(w) : w \in Wants}
  /\ want \in Wants
  /\ wantGuard \in BOOLEAN
  /\ owned = Nobody
  /\ guard = [st |-> "stopped", type |-> Nobody, writing |-> Nobody]
  /\ t = OpIdle
  /\ last = [op |-> Nobody, how |-> "done"]
  /\ confirmed = Nobody

(***************************************************************************)
(* Writing one switch.  Turning PAC off on Windows clears the WinINET      *)
(* flags of the global proxy as well.                                      *)
(***************************************************************************)
set_system_proxy(o, on) == [o EXCEPT !.sys = IF on THEN "ours" ELSE "off"]

set_auto_proxy(o, on) ==
  [o EXCEPT !.auto = IF on THEN "ours" ELSE "off",
            !.sys  = IF ~on /\ platform = "windows" THEN "off" ELSE @]

proxy_apply_steps(w) == IF w = "global" THEN <<"auto", "sys">> ELSE <<"sys", "auto">>

Enabling(step, w) == IF step = "sys" THEN w = "global" ELSE w = "pac"

\* Without a network service (macOS) a disable counts as done and writes
\* nothing.
SkipsDisable == platform = "macos"

Apply(step, o, w) ==
  IF step = "sys" THEN set_system_proxy(o, w = "global") ELSE set_auto_proxy(o, w = "pac")

enabled_proxy_target_matches(o, w) ==
  IF w = "global" THEN o.sys = "ours" ELSE o.sys = "off" /\ o.auto = "ours"

----------------------------------------------------------------------------
(* The operation's control. *)

Goto(pc) == t' = [t EXCEPT !.pc = pc]

SysReturn(how) ==
  /\ t' = OpIdle
  /\ last' = [op |-> t.op, how |-> how]

\* shutdown() on the guard; the caller then waits for it to become idle.
GuardShutdown == guard' = [guard EXCEPT !.st = IF @ = "stopped" THEN @ ELSE "stopping"]

Drain(then) ==
  /\ GuardShutdown
  /\ t' = [t EXCEPT !.pc = "drain", !.then = then, !.was = guard.st # "stopped"]

\* start() refuses while an earlier run has not finished.
Start == IF guard.st = "stopped" THEN [guard EXCEPT !.st = "running"] ELSE guard

----------------------------------------------------------------------------
(* update_sysproxy *)

\* The guard target that goes with a configuration.
GuardType == IF wantGuard /\ want # "off" THEN want ELSE Nobody

\* A disabled configuration leaves a proxy this instance does not own alone.
UpdateBegin ==
  /\ t.pc = "idle"
  /\ UNCHANGED <<os, settings, owned, last, confirmed>>
  /\ LET rec == [OpIdle EXCEPT !.op = "update", !.target = want, !.type = GuardType]
     IN  IF want = "off" /\ owned = Nobody
         THEN GuardShutdown /\ t' = [rec EXCEPT !.pc = "drain", !.then = "skipped"]
         ELSE t' = [rec EXCEPT !.pc = "observe"] /\ UNCHANGED guard

Mut_UpdateObserve ==
  /\ t.pc = "observe" /\ t.op = "update"
  /\ UNCHANGED <<os, settings, confirmed, owned, last>>
  /\ guard' = [guard EXCEPT !.st = IF @ = "stopped" THEN @ ELSE "stopping", !.type = t.type]
  /\ t' = [t EXCEPT !.pc = "drain", !.then = "snapshot",
                          !.same = (os = Target(t.target)),
                    !.was = guard.st # "stopped"]

\* The same disabled configuration leaves a state alone that someone changed
\* since it was written, and gives up the ownership record.
UpdateObserve ==
  /\ t.pc = "observe" /\ t.op = "update"
  /\ UNCHANGED <<os, settings, confirmed>>
  /\ \/ SysReturn("failed") /\ UNCHANGED <<owned, guard>>
     \/ /\ t.target = "off" /\ os # owned
        /\ owned' = Nobody
        /\ Drain("skipped")
        /\ UNCHANGED last
     \/ /\ ~(t.target = "off" /\ os # owned)
        /\ GuardShutdown
        /\ t' = [t EXCEPT !.pc = "drain", !.then = "snapshot",
                          !.same = (os = Target(t.target)),
                          !.was = guard.st # "stopped"]
        /\ UNCHANGED <<owned, last>>

\* macOS only: with the guard drained, a target already in place is not
\* written again.
AlreadyApplied(w) == platform = "macos" /\ t.drained /\ os = Target(w)

UpdateSnapshot ==
  /\ t.pc = "snapshot" /\ t.op = "update"
  /\ UNCHANGED <<os, settings, owned>>
  /\ \/ /\ AlreadyApplied(t.target)
        /\ guard' = [guard EXCEPT !.type = t.type]
        /\ confirmed' = t.target
        /\ SysReturn("done")
     \/ Goto("write1") /\ UNCHANGED <<guard, last, confirmed>>

\* What recovery does with the guard: a write that is known to have reached
\* the OS leaves no target to enforce, any other failure leaves the old one.
RecoverGuard(unknown) ==
  guard' = IF unknown THEN [guard EXCEPT !.type = Nobody]
           ELSE IF t.was THEN Start ELSE guard

\* Unknown: a write is known to have landed.  The Linux setters report success
\* unreliably, so nothing they do is evidence.
StateUnknown(halfway) == platform # "linux" /\ (t.reached \/ halfway)

\* One of the two setters: it writes, fails before writing, or fails halfway.
UpdateWrite(n) ==
  /\ t.pc = (IF n = 1 THEN "write1" ELSE "write2")
  /\ UNCHANGED <<settings, owned, confirmed>>
  /\ LET step    == proxy_apply_steps(t.target)[n]
         next    == IF n = 1 THEN "write2" ELSE "readback"
         reaches == Apply(step, os, t.target)
     IN  \/ /\ os' = reaches
            /\ t' = [t EXCEPT !.pc = next, !.reached = TRUE]
            /\ UNCHANGED <<guard, last>>
         \/ /\ ~Enabling(step, t.target) /\ SkipsDisable
            /\ Goto(next)
            /\ UNCHANGED <<os, guard, last>>
         \/ \E halfway \in BOOLEAN :
              /\ os' = IF halfway THEN reaches ELSE os
              /\ RecoverGuard(StateUnknown(halfway))
              /\ IF StateUnknown(halfway)
                 THEN Goto("compensate") /\ UNCHANGED last
                 ELSE SysReturn("failed")

\* disable_all_proxies: both kinds are attempted; each write may fail.
DisableBoth(o) ==
  LET p == set_system_proxy(o, FALSE)
  IN  {o, p, set_auto_proxy(o, FALSE), set_auto_proxy(p, FALSE)}

UpdateCompensate ==
  /\ t.pc = "compensate"
  /\ os' \in DisableBoth(os)
  /\ SysReturn("failed")
  /\ UNCHANGED <<settings, owned, guard, confirmed>>

\* Ownership comes from the confirmed read-back, and only when this write
\* changed something: inactive fields of the record may differ (`differs`)
\* although both switches were already where they should be.
UpdateReadback ==
  /\ t.pc = "readback"
  /\ UNCHANGED <<os, settings>>
  /\ \/ /\ t.target = "off"
        /\ owned' = Nobody
        /\ guard' = [guard EXCEPT !.type = t.type]
        /\ confirmed' = t.target
        /\ SysReturn("done")
     \/ /\ t.target # "off"
        /\ SysReturn("failed")
        /\ UNCHANGED <<owned, guard, confirmed>>
     \/ /\ t.target # "off"
        /\ enabled_proxy_target_matches(os, t.target)
        /\ \E differs \in BOOLEAN :
             owned' = IF owned # Nobody \/ ~t.same \/ differs
                      THEN os ELSE owned
        /\ guard' = [guard EXCEPT !.type = t.type]
        /\ confirmed' = t.target
        /\ SysReturn("done")

----------------------------------------------------------------------------
(* reset_sysproxy *)

ResetBegin ==
  /\ t.pc = "idle"
  /\ IF owned = Nobody
     THEN /\ last' = [op |-> "reset", how |-> "done"]
          /\ UNCHANGED t
     ELSE /\ t' = [OpIdle EXCEPT !.op = "reset", !.pc = "observe"]
          /\ UNCHANGED last
  /\ UNCHANGED <<os, settings, owned, guard, confirmed>>

ResetObserve ==
  /\ t.pc = "observe" /\ t.op = "reset"
  /\ UNCHANGED <<os, settings, confirmed>>
  /\ \/ SysReturn("failed") /\ UNCHANGED <<owned, guard>>
     \/ /\ os # owned
        /\ owned' = Nobody
        /\ SysReturn("done")
        /\ UNCHANGED guard
     \/ /\ os = owned
        /\ GuardShutdown
        /\ t' = [t EXCEPT !.pc = "drain", !.then = "snapshot"]
        /\ UNCHANGED <<owned, last>>

ResetSnapshot ==
  /\ t.pc = "snapshot" /\ t.op = "reset"
  /\ \/ AlreadyApplied("off") /\ SysReturn("done")
     \/ Goto("disable") /\ UNCHANGED last
  /\ UNCHANGED <<os, settings, owned, guard, confirmed>>

Mut_Disabled(again) ==
  /\ UNCHANGED <<settings, confirmed>>
  /\ os' \in DisableBoth(os)
  /\ \/ SysReturn("failed") /\ UNCHANGED <<owned, guard>>
     \/ /\ os' = AllOff
        /\ SysReturn("disabled")
        /\ owned' = Nobody
        /\ UNCHANGED guard

\* disable_until_the_last_write_is_ours: a guard that had not drained gets a
\* second chance to, and the disable is repeated after it.
Disabled(again) ==
  /\ UNCHANGED <<settings, confirmed>>
  /\ os' \in DisableBoth(os)
  /\ \/ SysReturn("failed") /\ UNCHANGED <<owned, guard>>
     \/ /\ os' = AllOff \/ (SkipsDisable /\ os' = os)
        /\ IF t.drained \/ again
           THEN /\ SysReturn(IF t.drained /\ os' = AllOff THEN "disabled" ELSE "done")
                /\ owned' = Nobody
                /\ UNCHANGED guard
           ELSE Drain("disable again") /\ UNCHANGED <<owned, last>>

ResetDisable == t.pc = "disable" /\ Disabled(FALSE)
ResetDisableAgain == t.pc = "disable again" /\ Disabled(TRUE)

----------------------------------------------------------------------------
(* refresh_guard and stop_proxy_guard *)

\* proxy_control::refresh_guard cancels the running guard first; the callers
\* refresh only after a successful apply.
RefreshBegin ==
  /\ t.pc = "idle" /\ last.op = "update" /\ last.how # "failed"
  /\ GuardShutdown
  /\ t' = [OpIdle EXCEPT !.op = "refresh", !.pc = "drain", !.then = "reconcile"]
  /\ UNCHANGED <<os, settings, owned, last, confirmed>>

RefreshReconcile ==
  /\ t.pc = "reconcile"
  /\ IF want = "off" \/ ~wantGuard
     THEN Drain("skipped") /\ UNCHANGED last
     ELSE guard' = Start /\ SysReturn("done")
  /\ UNCHANGED <<os, settings, owned, confirmed>>

StopBegin ==
  /\ t.pc = "idle"
  /\ GuardShutdown
  /\ t' = [OpIdle EXCEPT !.op = "stop", !.pc = "drain", !.then = "skipped"]
  /\ UNCHANGED <<os, settings, owned, last, confirmed>>

----------------------------------------------------------------------------
(* Waiting for the guard: it becomes idle or the drain times out. *)

\* The wait is the only place an operation depends on another thread.
DrainEnds(drained) ==
  /\ t.pc = "drain"
  /\ drained <=> guard.st = "stopped"
  /\ IF t.then = "skipped" THEN SysReturn("done")
     ELSE /\ t' = [t EXCEPT !.pc = t.then, !.drained = drained]
          /\ UNCHANGED last
  /\ UNCHANGED <<os, settings, owned, guard, confirmed>>

Task ==
  \/ UpdateObserve \/ UpdateSnapshot \/ UpdateCompensate \/ UpdateReadback
  \/ \E n \in 1..2 : UpdateWrite(n)
  \/ ResetObserve \/ ResetSnapshot \/ ResetDisable \/ ResetDisableAgain
  \/ RefreshReconcile
  \/ \E drained \in BOOLEAN : DrainEnds(drained)

Call == UpdateBegin \/ ResetBegin \/ RefreshBegin \/ StopBegin

----------------------------------------------------------------------------
(* The guard thread and the world. *)

\* A tick reads the OS, finds it changed, and starts a write ...
GuardTick ==
  /\ guard.st = "running" /\ guard.writing = Nobody /\ guard.type # Nobody
  /\ IF guard.type = "global" THEN os.sys # "ours" ELSE os.auto # "ours"
  /\ guard' = [guard EXCEPT !.writing = guard.type]
  /\ UNCHANGED <<os, settings, owned, t, last, confirmed>>

\* ... that lands later, whatever happened to the guard meanwhile.
GuardWrite ==
  /\ guard.writing # Nobody
  /\ os' = IF guard.writing = "global" THEN set_system_proxy(os, TRUE) ELSE set_auto_proxy(os, TRUE)
  /\ guard' = [guard EXCEPT !.writing = Nobody]
  /\ UNCHANGED <<settings, owned, t, last, confirmed>>

GuardStops ==
  /\ guard.st = "stopping" /\ guard.writing = Nobody
  /\ guard' = [guard EXCEPT !.st = "stopped"]
  /\ UNCHANGED <<os, settings, owned, t, last, confirmed>>

\* Another process, or the user in the system settings.
OtherWrites ==
  /\ os' \in {AllOff, [sys |-> "other", auto |-> "off"]}
  /\ os' # os
  /\ UNCHANGED <<settings, owned, guard, t, last, confirmed>>

UserEdits ==
  /\ want' \in Wants /\ wantGuard' \in BOOLEAN
  /\ UNCHANGED <<platform, os, owned, guard, t, last, confirmed>>

SysProxyNext ==
  \/ Task \/ Call
  \/ GuardTick \/ GuardWrite \/ GuardStops
  \/ OtherWrites \/ UserEdits

SysProxySpec == SysProxyInit /\ [][SysProxyNext]_sysVars

----------------------------------------------------------------------------
(* Properties *)

\* A running guard enforces nothing but the target update_sysproxy last saw
\* in the OS, through failed writes, failed read-backs, refused restarts and
\* configuration edits ("Never point the guard at a target that failed to
\* reach the OS").
GuardEnforcesConfirmed == guard.st = "running" => guard.type \in {Nobody, confirmed}

\* After a reset that disabled the proxy and saw the guard finish, the proxy
\* stays off until the next operation: no guard write that was in flight
\* when the reset started lands after its last write.
DisabledStaysOff ==
  t.pc = "idle" /\ last.op = "reset" /\ last.how = "disabled"
    => os.sys # "ours" /\ os.auto # "ours"

\* What the callers that stop the core rely on: after a proxy was confirmed
\* and then cleared successfully, none of it is left in the OS.
ClearedMeansOff ==
  t.pc = "idle" /\ last.op = "reset" /\ last.how # "failed" /\ confirmed \in {"global", "pac"}
    => os.sys # "ours" /\ os.auto # "ours"

=============================================================================
