------------------------------ MODULE ProxyGuard ------------------------------
(***************************************************************************)
(* The system proxy written through the Service (macOS): the operations of *)
(* the application, the guard loops they leave behind, and the table of    *)
(* failures the user is owed (core/proxy_control.rs, core/notification.rs).*)
(*                                                                         *)
(* Operations run one at a time under the lifecycle lock; guard loops run  *)
(* beside them and share only the operation lock and the generation.  A    *)
(* request the Service carries out may still be answered with an error.    *)
(***************************************************************************)
EXTENDS Naturals

CONSTANTS
  MaxGuardGeneration,              \* invalidations (bound)
  MaxServiceSessions,              \* sessions (bound)
  GUARD_FAILURES_BEFORE_STOPPING

ASSUME GuardAssumption ==
  {MaxGuardGeneration, MaxServiceSessions, GUARD_FAILURES_BEFORE_STOPPING} \subseteq Nat

VARIABLES
  generation,  \* guard_generation
  osProxy,     \* the machine-wide proxy: "direct" or "proxy"
  failures,    \* FailureTable: [code -> operation, or "none"]
  guards,      \* [generation -> guard loop: pc, the session it captured, failures]
  active,      \* ACTIVE_SERVICE_SESSION, 0 outside service mode
  honoured,    \* the session the Service honours
  wanted,      \* enable_system_proxy
  proxyOp,          \* the operation under the lifecycle lock: pc and what was asked
  confirmed    \* what the last operation the Service confirmed left behind

guardVars == <<generation, osProxy, failures, guards, active, honoured, wanted, proxyOp, confirmed>>

UserOps     == {"enable", "disable"}       \* FailedOperation
Codes       == {"fallback", "guardStopped"}
Generations == 1 .. MaxGuardGeneration
Idle        == [pc |-> "idle", asked |-> "restore"]
NoGuard     == [pc |-> "none", proof |-> 0, bad |-> 0]

GuardInit ==
  /\ generation = 0 /\ osProxy = "direct" /\ failures = [c \in Codes |-> "none"]
  /\ guards = [g \in Generations |-> NoGuard]
  /\ active = 1 /\ honoured = 1 /\ wanted = FALSE /\ proxyOp = Idle /\ confirmed = "unknown"

-----------------------------------------------------------------------------
(* The table of failures                                                     *)

\* A request of the user outranks an incidental restore under the same code.
outranks(a, b) == a \in UserOps /\ b = "restore"

Recorded(table, code, operation) ==
  [table EXCEPT ![code] = IF outranks(@, operation) THEN @ ELSE operation]

retired_by_success_of(failed, asked) ==
  /\ failed \notin {"guard", "none"} /\ asked # "guard"
  /\ asked \in UserOps \/ failed = "restore"

retire_system_proxy(table, asked) ==
  [c \in Codes |-> IF retired_by_success_of(table[c], asked) THEN "none" ELSE table[c]]

retire_guard(table) == [c \in Codes |-> IF table[c] = "guard" THEN "none" ELSE table[c]]

-----------------------------------------------------------------------------
(* Operations                                                                *)

\* operation_lock is held over a guard's request; the operations' own requests
\* are one step.
Locked == \E g \in Generations : guards[g].pc = "request"

\* Outcomes of a request with a session: the proxy left behind and the answer.
\* An answer that does not come may follow a write that did happen.
Outcomes(proof, target) ==
  IF proof # honoured THEN {<<osProxy, "error">>}
  ELSE {<<target, "ok">>, <<osProxy, "error">>, <<target, "error">>}
         \cup (IF target = "proxy" THEN {<<"direct", "fallback">>} ELSE {})

\* The user's switch, or a restore after a start.
ProxyBegin(asked) ==
  /\ proxyOp.pc = "idle" /\ active # 0 /\ generation + 4 <= MaxGuardGeneration
  /\ wanted' = IF asked = "restore" THEN wanted ELSE asked = "enable"
  /\ proxyOp' = [pc |-> "apply", asked |-> asked]
  /\ UNCHANGED <<generation, osProxy, failures, guards, active, honoured, confirmed>>

Mut_invalidate_guard(next) ==
  /\ proxyOp' = [proxyOp EXCEPT !.pc = next]
  /\ UNCHANGED <<generation, osProxy, failures, guards, active, honoured, wanted, confirmed>>

invalidate_guard(next) ==
  /\ generation' = generation + 1 /\ proxyOp' = [proxyOp EXCEPT !.pc = next]
  /\ UNCHANGED <<osProxy, failures, guards, active, honoured, wanted, confirmed>>

\* apply: the request, and the table settled where every path converges.
apply_through_service ==
  \/ proxyOp.pc = "apply" /\ invalidate_guard("write")
  \/ /\ proxyOp.pc = "write" /\ ~Locked
     /\ \E o \in Outcomes(active, IF wanted THEN "proxy" ELSE "direct") :
          /\ osProxy' = o[1]
          /\ confirmed' = IF o[2] = "ok" THEN o[1] ELSE "unknown"
          /\ failures' = CASE o[2] = "ok"       -> retire_system_proxy(failures, proxyOp.asked)
                           [] o[2] = "fallback" -> Recorded(failures, "fallback", proxyOp.asked)
                           [] OTHER             -> failures
          /\ proxyOp' = IF o[2] = "ok" THEN [proxyOp EXCEPT !.pc = "refresh"] ELSE Idle
     /\ UNCHANGED <<generation, guards, active, honoured, wanted>>

\* refresh_guard: the old guard is invalidated and drained before a new one
\* starts; its warning is retired only with the replacement or when no guard is wanted.
refresh_guard ==
  \/ proxyOp.pc = "refresh" /\ invalidate_guard("spawn")
  \/ /\ proxyOp.pc = "spawn" /\ ~Locked
     /\ guards' = IF wanted THEN [guards EXCEPT ![generation] = [pc |-> "sleep", proof |-> active, bad |-> 0]]
                  ELSE guards
     /\ failures' = retire_guard(failures)
     /\ proxyOp' = Idle
     /\ UNCHANGED <<generation, osProxy, active, honoured, wanted, confirmed>>

\* apply_proxy_after_start finds that the core it applied for has changed.
CoreChanged ==
  /\ proxyOp.pc \in {"refresh", "spawn"} /\ proxyOp.asked # "disable"
  /\ proxyOp' = [proxyOp EXCEPT !.pc = "clear"]
  /\ UNCHANGED <<generation, osProxy, failures, guards, active, honoured, wanted, confirmed>>

\* clear, and the stop_guard behind it: success retires nothing.
clear ==
  \/ proxyOp.pc = "clear" /\ invalidate_guard("reset")
  \/ /\ proxyOp.pc = "reset" /\ ~Locked
     /\ \E o \in Outcomes(active, "direct") :
          osProxy' = o[1] /\ confirmed' = IF o[2] = "ok" THEN o[1] ELSE "unknown"
     /\ proxyOp' = [proxyOp EXCEPT !.pc = "stopGuard"]
     /\ UNCHANGED <<generation, failures, guards, active, honoured, wanted>>

stop_guard ==
  \/ proxyOp.pc = "stopGuard" /\ invalidate_guard("drain")
  \/ /\ proxyOp.pc = "drain" /\ ~Locked /\ proxyOp' = Idle
     /\ UNCHANGED <<generation, osProxy, failures, guards, active, honoured, wanted, confirmed>>

\* A controlled stop: the guard is drained, then one transaction of the Service
\* stops the core and clears the proxy, or is refused.
StopCore ==
  \/ /\ proxyOp.pc = "idle" /\ active # 0 /\ generation < MaxGuardGeneration
     /\ generation' = generation + 1 /\ proxyOp' = [proxyOp EXCEPT !.pc = "halt"]
     /\ UNCHANGED <<osProxy, failures, guards, active, honoured, wanted, confirmed>>
  \/ /\ proxyOp.pc = "halt" /\ ~Locked /\ proxyOp' = Idle
     /\ \/ /\ active = honoured /\ active' = 0 /\ honoured' = 0
           /\ osProxy' = "direct" /\ confirmed' = "direct"
        \/ UNCHANGED <<osProxy, active, honoured, confirmed>>
     /\ UNCHANGED <<generation, failures, guards, wanted>>

\* A core is started under a new session and the proxy restored.
StartCore ==
  /\ proxyOp.pc = "idle" /\ active = 0 /\ generation + 4 <= MaxGuardGeneration
  /\ \E n \in 1 .. MaxServiceSessions :
       /\ \A g \in Generations : guards[g].proof < n
       /\ active' = n /\ honoured' = n
  /\ proxyOp' = [pc |-> "apply", asked |-> "restore"]
  /\ UNCHANGED <<generation, osProxy, failures, guards, wanted, confirmed>>

\* external: another owner takes the Service; the loss of the session is
\* noticed later, and the proxy is that owner's.
Displaced ==
  /\ honoured # 0 /\ honoured' = 0
  /\ UNCHANGED <<generation, osProxy, failures, guards, active, wanted, proxyOp, confirmed>>

OwnerRecovered ==
  /\ proxyOp.pc = "idle" /\ active # 0 /\ active # honoured /\ active' = 0
  /\ UNCHANGED <<generation, osProxy, failures, guards, honoured, wanted, proxyOp, confirmed>>

-----------------------------------------------------------------------------
(* The guard loop                                                            *)

guard_generation_is_current(g) == generation = g

\* run_guard_request: checked under the operation lock, then sent.
run_guard_request(g) ==
  /\ guards[g].pc = "sleep" /\ ~Locked
  /\ guards' = [guards EXCEPT ![g].pc =
       IF guard_generation_is_current(g) /\ active = guards[g].proof THEN "request" ELSE "superseded"]
  /\ UNCHANGED <<generation, osProxy, failures, active, honoured, wanted, proxyOp, confirmed>>

GuardAnswered(g) ==
  /\ guards[g].pc = "request"
  /\ \E o \in Outcomes(guards[g].proof, "proxy") :
       /\ osProxy' = o[1]
       /\ guards' = [guards EXCEPT ![g] =
            LET bad == IF o[2] = "ok" THEN 0 ELSE @.bad + 1
            IN [@ EXCEPT !.bad = bad,
                         !.pc = IF bad >= GUARD_FAILURES_BEFORE_STOPPING THEN "report" ELSE "sleep"]]
  /\ UNCHANGED <<generation, failures, active, honoured, wanted, proxyOp, confirmed>>

\* Under the operation lock, so that a late report of a replaced guard is none.
record_if_current(g) == ~Locked /\ guard_generation_is_current(g)

report_guard_stopped(g) ==
  /\ guards[g].pc = "report" /\ ~Locked
  /\ guards' = [guards EXCEPT ![g].pc = "stopped"]
  /\ failures' = IF record_if_current(g) THEN Recorded(failures, "guardStopped", "guard") ELSE failures
  /\ UNCHANGED <<generation, osProxy, active, honoured, wanted, proxyOp, confirmed>>

GuardNext ==
  \/ \E asked \in UserOps \cup {"restore"} : ProxyBegin(asked)
  \/ apply_through_service \/ refresh_guard \/ CoreChanged \/ clear \/ stop_guard
  \/ StopCore \/ StartCore \/ Displaced \/ OwnerRecovered
  \/ \E g \in Generations : run_guard_request(g) \/ GuardAnswered(g) \/ report_guard_stopped(g)

GuardSpec == GuardInit /\ [][GuardNext]_guardVars

-----------------------------------------------------------------------------
\* Once the Service has confirmed a disable, a clear or a stop, the proxy stays
\* off: no request of an older guard lands behind it, although it may have been
\* checked before the generation moved (run_final_service_operation,
\* run_guard_request).
ClearedThroughService == confirmed = "direct" => osProxy = "direct"

=============================================================================
