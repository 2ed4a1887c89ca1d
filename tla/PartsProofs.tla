----------------------------- MODULE PartsProofs -----------------------------
(***************************************************************************)
(* What the parts around the core promise, for any ports, versions and     *)
(* requests and whatever fails: the Service-side proxy guard, applying a   *)
(* configuration, the core upgrade, the mixed port, the runtime bundle,    *)
(* the owner watch and the probe of a listener.                            *)
(***************************************************************************)
EXTENDS ProxyGuard, ConfigApply, CoreUpgrade, Ports, RuntimeBundle, OwnerWatch, Listener, FiniteSetTheorems,
        WellFoundedInduction, TLAPS

(***************************************************************************)
(* Service-side proxy guard                                                *)
(***************************************************************************)

\* The steps of a guard loop and of a proxy operation.
GuardPc  == {"none", "sleep", "request", "superseded", "report", "stopped"}
RoutePc  == {"idle", "apply", "write", "refresh", "spawn", "clear", "reset", "stopGuard", "drain", "halt"}
Loops    == [pc : GuardPc, proof : Nat, bad : Nat]

\* Every variable has its type.
GuardType ==
  /\ generation \in Nat /\ active \in Nat /\ wanted \in BOOLEAN
  /\ guards \in [Generations -> Loops]
  /\ proxyOp \in [pc : RoutePc, asked : UserOps \cup {"restore"}]

\* Loops are started under a generation that was drawn before.
Drawn == \A g \in Generations : guards[g].pc # "none" => g <= generation

\* Behind an invalidation no loop is current until one is started.
Invalidated ==
  proxyOp.pc \in {"write", "spawn", "reset", "drain", "halt"}
    => \A g \in Generations : g = generation => guards[g].pc = "none"

\* While a proxy counts as cleared nothing is asked for it, and nothing that
\* sleeps would still pass the check.
Quiet ==
  confirmed = "direct" =>
    /\ osProxy = "direct"
    /\ \A g \in Generations : guards[g].pc # "request" /\ (g = generation => guards[g].pc # "sleep")
    /\ proxyOp.pc \in {"refresh", "spawn"} => ~wanted

\* The inductive invariant.
RouteInv == GuardType /\ Drawn /\ Invalidated /\ Quiet

\* It holds when the application starts.
LEMMA RouteStart == GuardInit => RouteInv
<1> SUFFICES ASSUME GuardInit PROVE RouteInv
  OBVIOUS
<1>1. NoGuard \in Loops /\ NoGuard.pc = "none"
  BY DEF NoGuard, Loops, GuardPc
<1>2. proxyOp \in [pc : RoutePc, asked : UserOps \cup {"restore"}] /\ proxyOp.pc = "idle"
  BY DEF GuardInit, Idle, RoutePc
<1> QED
  BY <1>1, <1>2 DEF GuardInit, RouteInv, GuardType, Drawn, Invalidated, Quiet

\* A step of an operation that leaves the loops alone.
LEMMA RouteMoves ==
  ASSUME RouteInv, NEW p \in RoutePc, proxyOp' = [proxyOp EXCEPT !.pc = p], UNCHANGED <<guards, active, wanted>>,
         generation' = generation, p \in {"idle", "apply", "clear", "stopGuard"}, UNCHANGED <<osProxy, confirmed>>
  PROVE  RouteInv'
BY DEF RouteInv, GuardType, Drawn, Invalidated, Quiet

\* The generation moves on: the next one is nobody's yet.
LEMMA InvalidateKeeps ==
  ASSUME RouteInv, NEW p \in RoutePc, invalidate_guard(p),
         p \in {"refresh", "spawn"} => proxyOp.pc \in {"refresh", "spawn"}
  PROVE  RouteInv'
<1>1. /\ generation' = generation + 1 /\ generation \in Nat /\ guards' = guards /\ wanted' = wanted
      /\ active' = active /\ osProxy' = osProxy /\ confirmed' = confirmed
  BY DEF invalidate_guard, RouteInv, GuardType
<1>2. proxyOp' \in [pc : RoutePc, asked : UserOps \cup {"restore"}] /\ proxyOp'.pc = p
  BY DEF invalidate_guard, RouteInv, GuardType
<1>3. \A g \in Generations : g \in Nat /\ (guards[g].pc # "none" => g # generation')
  BY <1>1, GuardAssumption DEF RouteInv, Drawn, Generations
<1>4. GuardType' /\ Drawn'
  BY <1>1, <1>2, GuardAssumption DEF RouteInv, GuardType, Drawn, Generations
<1>5. Invalidated'
  BY <1>1, <1>3 DEF Invalidated
<1>6. Quiet'
  BY <1>1, <1>2, <1>3 DEF RouteInv, Quiet
<1> QED
  BY <1>4, <1>5, <1>6 DEF RouteInv

\* A request of the operation itself, with no loop at its own.
LEMMA WriteKeeps ==
  ASSUME RouteInv, proxyOp.pc = "write", ~Locked, apply_through_service
  PROVE  RouteInv'
<1>1. PICK o \in Outcomes(active, IF wanted THEN "proxy" ELSE "direct") :
        /\ osProxy' = o[1]
        /\ confirmed' = IF o[2] = "ok" THEN o[1] ELSE "unknown"
        /\ proxyOp' = IF o[2] = "ok" THEN [proxyOp EXCEPT !.pc = "refresh"] ELSE Idle
  BY DEF apply_through_service
<1>2. generation' = generation /\ guards' = guards /\ wanted' = wanted /\ active' = active
  BY DEF apply_through_service
<1>3. /\ proxyOp' \in [pc : RoutePc, asked : UserOps \cup {"restore"}]
      /\ proxyOp'.pc \in {"refresh", "idle"}
  BY <1>1 DEF RouteInv, GuardType, Idle, RoutePc
<1>4. o[2] = "ok" => o[1] = IF wanted THEN "proxy" ELSE "direct"
  BY DEF Outcomes
<1>5. confirmed' = "direct" => osProxy' = "direct" /\ ~wanted
  BY <1>1, <1>4
<1>6. \A g \in Generations : guards[g].pc # "request" /\ (g = generation => guards[g].pc = "none")
  BY DEF Locked, RouteInv, Invalidated
<1> QED
  BY <1>2, <1>3, <1>5, <1>6 DEF RouteInv, GuardType, Drawn, Invalidated, Quiet

\* A reset of the OS setting.
LEMMA ResetKeeps ==
  ASSUME RouteInv, proxyOp.pc = "reset", ~Locked, clear
  PROVE  RouteInv'
<1>1. PICK o \in Outcomes(active, "direct") :
        osProxy' = o[1] /\ confirmed' = IF o[2] = "ok" THEN o[1] ELSE "unknown"
  BY DEF clear
<1>2. generation' = generation /\ guards' = guards /\ wanted' = wanted /\ active' = active
  BY DEF clear
<1>3. proxyOp' \in [pc : RoutePc, asked : UserOps \cup {"restore"}] /\ proxyOp'.pc = "stopGuard"
  BY DEF clear, RouteInv, GuardType, RoutePc
<1>4. o[2] = "ok" => o[1] = "direct"
  BY DEF Outcomes
<1>5. confirmed' = "direct" => osProxy' = "direct"
  BY <1>1, <1>4
<1>6. \A g \in Generations : guards[g].pc # "request" /\ (g = generation => guards[g].pc = "none")
  BY DEF Locked, RouteInv, Invalidated
<1> QED
  BY <1>2, <1>3, <1>5, <1>6 DEF RouteInv, GuardType, Drawn, Invalidated, Quiet

\* The new loop is the current one.
LEMMA SpawnKeeps ==
  ASSUME RouteInv, proxyOp.pc = "spawn", ~Locked, refresh_guard
  PROVE  RouteInv'
<1> DEFINE new == [pc |-> "sleep", proof |-> active, bad |-> 0]
<1>1. new \in Loops /\ new.pc = "sleep"
  BY DEF RouteInv, GuardType, Loops, GuardPc
<1> HIDE DEF new
<1>2. /\ generation' = generation /\ wanted' = wanted /\ active' = active /\ osProxy' = osProxy
      /\ confirmed' = confirmed
      /\ guards' = IF wanted THEN [guards EXCEPT ![generation] = new] ELSE guards
  BY DEF refresh_guard, new
<1>3. proxyOp' \in [pc : RoutePc, asked : UserOps \cup {"restore"}] /\ proxyOp'.pc = "idle"
  BY DEF refresh_guard, Idle, RoutePc
<1>4. guards' \in [Generations -> Loops]
  BY <1>1, <1>2 DEF RouteInv, GuardType
<1>5. \A g \in Generations : g # generation => guards'[g] = guards[g]
  BY <1>2 DEF RouteInv, GuardType
<1>6. Drawn'
  BY <1>2, <1>5, GuardAssumption DEF RouteInv, GuardType, Drawn, Generations
<1>7. Quiet'
  BY <1>2, <1>3 DEF RouteInv, Quiet
<1> QED
  BY <1>2, <1>3, <1>4, <1>6, <1>7 DEF RouteInv, GuardType, Invalidated

\* An operation begins, or a core is started under a new session.
LEMMA RouteBegins ==
  ASSUME RouteInv, StartCore \/ (\E asked \in UserOps \cup {"restore"} : ProxyBegin(asked)) PROVE RouteInv'
<1>1. /\ generation' = generation /\ guards' = guards /\ osProxy' = osProxy /\ confirmed' = confirmed
  BY DEF StartCore, ProxyBegin
<1>2. active' \in Nat
  BY DEF StartCore, ProxyBegin, RouteInv, GuardType
<1>3. wanted' \in BOOLEAN
  BY DEF StartCore, ProxyBegin, RouteInv, GuardType
<1>4. proxyOp' \in [pc : RoutePc, asked : UserOps \cup {"restore"}] /\ proxyOp'.pc = "apply"
  BY DEF StartCore, ProxyBegin, RoutePc
<1> QED
  BY <1>1, <1>2, <1>3, <1>4 DEF RouteInv, GuardType, Drawn, Invalidated, Quiet

\* The Service stops the core and clears the proxy in one transaction.
LEMMA StopKeeps == ASSUME RouteInv, StopCore PROVE RouteInv'
<1>1. CASE proxyOp.pc = "idle" /\ invalidate_guard("halt")
  BY <1>1, InvalidateKeeps DEF RoutePc
<1>2. CASE proxyOp.pc = "halt" /\ ~Locked /\ proxyOp' = Idle /\ UNCHANGED <<generation, guards, wanted>>
  <2>1. proxyOp' \in [pc : RoutePc, asked : UserOps \cup {"restore"}] /\ proxyOp'.pc = "idle"
    BY <1>2 DEF Idle, RoutePc
  <2>2. \A g \in Generations : guards[g].pc # "request" /\ (g = generation => guards[g].pc = "none")
    BY <1>2 DEF Locked, RouteInv, Invalidated
  <2>3. active' \in Nat /\ (confirmed' = "direct" => osProxy' = "direct")
    BY <1>2 DEF StopCore, RouteInv, GuardType, Quiet
  <2> QED
    BY <1>2, <2>1, <2>2, <2>3 DEF RouteInv, GuardType, Drawn, Invalidated, Quiet
<1> QED
  BY <1>1, <1>2 DEF StopCore, invalidate_guard

\* The other owner, and the application that notices it.
LEMMA DisplacedKeeps == ASSUME RouteInv, Displaced \/ OwnerRecovered PROVE RouteInv'
<1>1. /\ generation' = generation /\ guards' = guards /\ osProxy' = osProxy /\ confirmed' = confirmed
      /\ proxyOp' = proxyOp /\ wanted' = wanted /\ active' \in Nat
  BY DEF Displaced, OwnerRecovered, RouteInv, GuardType
<1> QED
  BY <1>1 DEF RouteInv, GuardType, Drawn, Invalidated, Quiet

\* A step of a loop: the other loops stay, and it never becomes one that sleeps
\* or asks behind a cleared proxy.
LEMMA LoopMoves ==
  ASSUME RouteInv, NEW g \in Generations, guards[g].pc # "none",
         NEW l \in Loops, guards' = [guards EXCEPT ![g] = l], l.pc # "none",
         confirmed = "direct" => osProxy' = "direct" /\ l.pc # "request" /\ (l.pc = "sleep" => g # generation),
         UNCHANGED <<generation, active, wanted, proxyOp, confirmed>>
  PROVE  RouteInv'
<1>1. guards' \in [Generations -> Loops] /\ guards'[g] = l /\ \A h \in Generations : h # g => guards'[h] = guards[h]
  BY DEF RouteInv, GuardType
<1> QED
  BY <1>1 DEF RouteInv, GuardType, Drawn, Invalidated, Quiet

\* A request of a guard loop to the Service.
LEMMA RequestKeeps == ASSUME RouteInv, NEW g \in Generations, run_guard_request(g) PROVE RouteInv'
<1> DEFINE p == IF guard_generation_is_current(g) /\ active = guards[g].proof THEN "request" ELSE "superseded"
           l == [guards[g] EXCEPT !.pc = p]
<1>1. p \in {"request", "superseded"} /\ p \in GuardPc
  BY DEF GuardPc
<1>2. confirmed = "direct" => p # "request"
  BY DEF RouteInv, Quiet, run_guard_request, guard_generation_is_current
<1>3. guards' = [guards EXCEPT ![g].pc = p] /\ guards[g].pc = "sleep"
  BY DEF run_guard_request
<1> HIDE DEF p
<1>4. guards[g] \in Loops
  BY DEF RouteInv, GuardType
<1>5. l \in Loops /\ l.pc = p
  BY <1>1, <1>4 DEF Loops
<1>6. guards' = [guards EXCEPT ![g] = l]
  BY <1>3
<1>7. UNCHANGED <<generation, active, wanted, proxyOp, confirmed, osProxy>>
  BY DEF run_guard_request
<1> HIDE DEF l
<1> QED
  BY <1>1, <1>2, <1>3, <1>5, <1>6, <1>7, LoopMoves DEF RouteInv, Quiet

\* A request that is under way keeps any operation from confirming.
LEMMA AnswerKeeps == ASSUME RouteInv, NEW g \in Generations, GuardAnswered(g) PROVE RouteInv'
<1>1. PICK o \in Outcomes(guards[g].proof, "proxy") :
       /\ osProxy' = o[1]
       /\ guards' = [guards EXCEPT ![g] =
            LET bad == IF o[2] = "ok" THEN 0 ELSE @.bad + 1
            IN [@ EXCEPT !.bad = bad,
                         !.pc = IF bad >= GUARD_FAILURES_BEFORE_STOPPING THEN "report" ELSE "sleep"]]
  BY DEF GuardAnswered
<1> DEFINE b == IF o[2] = "ok" THEN 0 ELSE guards[g].bad + 1
           p == IF b >= GUARD_FAILURES_BEFORE_STOPPING THEN "report" ELSE "sleep"
           l == [guards[g] EXCEPT !.bad = b, !.pc = p]
<1>2. guards[g] \in Loops
  BY DEF RouteInv, GuardType
<1>3. b \in Nat /\ p \in {"report", "sleep"} /\ p \in GuardPc
  BY <1>2 DEF Loops, GuardPc
<1>4. guards' = [guards EXCEPT ![g] = l]
  BY <1>1
<1> HIDE DEF b, p
<1>5. l \in Loops /\ l.pc = p
  BY <1>2, <1>3 DEF Loops
<1>6. guards[g].pc = "request" /\ confirmed # "direct"
  BY DEF GuardAnswered, RouteInv, Quiet
<1>7. UNCHANGED <<generation, active, wanted, proxyOp, confirmed>>
  BY DEF GuardAnswered
<1> HIDE DEF l
<1> QED
  BY <1>3, <1>4, <1>5, <1>6, <1>7, LoopMoves

\* A guard loop that gives up reports it.
LEMMA ReportKeeps == ASSUME RouteInv, NEW g \in Generations, report_guard_stopped(g) PROVE RouteInv'
<1> DEFINE l == [guards[g] EXCEPT !.pc = "stopped"]
<1>1. guards[g] \in Loops
  BY DEF RouteInv, GuardType
<1>2. l \in Loops /\ l.pc = "stopped"
  BY <1>1 DEF Loops, GuardPc
<1>3. guards' = [guards EXCEPT ![g] = l] /\ guards[g].pc = "report"
  BY DEF report_guard_stopped
<1>4. UNCHANGED <<generation, active, wanted, proxyOp, confirmed, osProxy>>
  BY DEF report_guard_stopped
<1> HIDE DEF l
<1> QED
  BY <1>2, <1>3, <1>4, LoopMoves DEF RouteInv, Quiet

\* Every step keeps the invariant.
LEMMA RouteStep == RouteInv /\ [GuardNext]_guardVars => RouteInv'
<1> SUFFICES ASSUME RouteInv, [GuardNext]_guardVars PROVE RouteInv'
  OBVIOUS
<1>1. CASE apply_through_service
  <2>1. CASE proxyOp.pc = "apply" /\ invalidate_guard("write")
    BY <2>1, InvalidateKeeps DEF RoutePc
  <2> QED
    BY <1>1, <2>1, WriteKeeps DEF apply_through_service
<1>2. CASE refresh_guard
  <2>1. CASE proxyOp.pc = "refresh" /\ invalidate_guard("spawn")
    BY <2>1, InvalidateKeeps DEF RoutePc
  <2> QED
    BY <1>2, <2>1, SpawnKeeps DEF refresh_guard
<1>3. CASE CoreChanged
  BY <1>3, RouteMoves DEF CoreChanged, RoutePc
<1>4. CASE clear
  <2>1. CASE proxyOp.pc = "clear" /\ invalidate_guard("reset")
    BY <2>1, InvalidateKeeps DEF RoutePc
  <2> QED
    BY <1>4, <2>1, ResetKeeps DEF clear
<1>5. CASE stop_guard
  <2>1. CASE proxyOp.pc = "stopGuard" /\ invalidate_guard("drain")
    BY <2>1, InvalidateKeeps DEF RoutePc
  <2>2. CASE proxyOp' = Idle /\ UNCHANGED <<generation, osProxy, guards, active, wanted, confirmed>>
    <3>1. proxyOp' \in [pc : RoutePc, asked : UserOps \cup {"restore"}] /\ proxyOp'.pc = "idle"
      BY <2>2 DEF Idle, RoutePc
    <3> QED
      BY <3>1, <2>2 DEF RouteInv, GuardType, Drawn, Invalidated, Quiet
  <2> QED
    BY <1>5, <2>1, <2>2 DEF stop_guard
<1>6. CASE UNCHANGED guardVars
  BY <1>6 DEF guardVars, RouteInv, GuardType, Drawn, Invalidated, Quiet
<1> QED
  BY <1>1, <1>2, <1>3, <1>4, <1>5, <1>6, RouteBegins, StopKeeps, DisplacedKeeps, RequestKeeps,
     AnswerKeeps,
     ReportKeeps DEF GuardNext

\* For any number of guards and sessions: a proxy that the Service confirmed as
\* cleared stays off.
THEOREM ClearedCorrect == GuardSpec => []ClearedThroughService
<1>1. RouteInv => ClearedThroughService
  BY DEF RouteInv, Quiet, ClearedThroughService
<1> QED
  BY <1>1, RouteStart, RouteStep, PTL DEF GuardSpec

(***************************************************************************)
(* Configuration application                                               *)
(***************************************************************************)

\* The steps of an update.
ApplyPc == {"idle", "print", "test", "write", "lock", "ask", "again", "reload staged", "reload",
            "replace", "restart", "commit"}

\* Up to its first request an update has left the core and the Service alone.
Untouched == {"idle", "print", "test", "write", "lock", "ask"}

\* The core runs c, and the Service, if it owns it, would revive it with c.
Holds(c) == ran = c /\ (coreMode = "Service" => staged = c)

\* What the steps of an update have done by now to the core and the Service.
ApplyInv ==
  /\ change = [pc |-> change.pc, cfg |-> change.cfg, print |-> change.print, mixed |-> change.mixed]
  /\ change.pc \in ApplyPc /\ adrift \in BOOLEAN /\ unsettled \in BOOLEAN /\ change.mixed \in BOOLEAN
  /\ change.pc # "idle" => change.cfg \in Configs
  /\ change.pc # "idle" /\ ~change.mixed => draft = change.cfg
  /\ change.pc \in {"ask", "again", "reload staged", "replace"} => coreMode = "Service"
  /\ change.pc \in {"reload", "restart"} => coreMode # "Service"
  /\ change.pc = "reload staged" => staged = change.cfg
  /\ change.pc = "commit" /\ coreMode # "NotRunning" /\ ~change.mixed => Holds(change.cfg)
  /\ coreMode # "NotRunning" /\ ~adrift /\ ~unsettled =>
       /\ change.pc \in Untouched => Holds(settled)
       /\ change.pc = "again" => staged = change.cfg \/ Holds(settled)

\* Every step keeps what the update has done by now.
LEMMA ApplyKeeps ==
  ASSUME ApplyInv, [ApplyNext]_applyVars
  PROVE  ApplyInv'
PROOF
<1> USE DEF ApplyInv, ApplyPc, Untouched, Holds
<1>1. CASE \E c \in Configs : BeginUpdate(c)
  <2>1. PICK c \in Configs : BeginUpdate(c)
    BY <1>1
  <2>2. change' = [pc |-> "print", cfg |-> c, print |-> <<>>, mixed |-> FALSE]
    BY <2>1 DEF BeginUpdate, NoChange
  <2>3. change.pc = "idle" /\ draft' = c /\ UNCHANGED <<settled, coreMode, ran, staged, adrift, unsettled>>
    BY <2>1 DEF BeginUpdate
  <2>4. QED
    BY <2>2, <2>3
<1>2. CASE validate_config_outcome_with
  BY <1>2 DEF validate_config_outcome_with
<1>3. CASE Rejected
  BY <1>3 DEF Rejected, Fails, NoChange
<1>4. CASE validate_config_internal_outcome
  BY <1>4 DEF validate_config_internal_outcome, Go
<1>5. CASE apply_config
  BY <1>5 DEF apply_config, Go
<1>6. CASE ModeChanged
  BY <1>6 DEF ModeChanged, Fails, NoChange
<1>7. CASE apply_config_by_service
  BY <1>7 DEF apply_config_by_service, Go
<1>8. CASE stage_with_confirmation
  <2>1. PICK attempt \in Answers :
          /\ staged' \in CASE attempt = "Staged"     -> {change.cfg}
                           [] attempt = "Unanswered" -> {staged, change.cfg}
                           [] OTHER                  -> {staged}
          /\ \/ attempt = "Unanswered" /\ change.pc = "ask" /\ Go("again") /\ UNCHANGED <<draft, adrift>>
             \/ /\ attempt = "Unanswered" => change.pc = "again"
                /\ IF plan_config_application(attempt) = "fail"
                   THEN Fails(change.pc = "again" /\ staged = change.cfg)
                   ELSE Go(plan_config_application(attempt)) /\ UNCHANGED <<draft, adrift>>
    BY <1>8 DEF stage_with_confirmation
  <2>2. change.pc \in {"ask", "again"} /\ coreMode = "Service" /\ UNCHANGED <<settled, coreMode, ran, unsettled>>
    BY <1>8 DEF stage_with_confirmation
  <2>3. attempt \in {"Staged", "RestartRequired", "RefusedForAnotherReason", "Unanswered", "RefusedTheBundle"}
    BY DEF Answers
  <2>4. CASE attempt = "Staged"
    BY <2>1, <2>2, <2>4 DEF Go, plan_config_application
  <2>5. CASE attempt = "Unanswered"
    <3>1. CASE change.pc = "ask"
      <4>1. Go("again") /\ UNCHANGED <<draft, adrift>> /\ staged' \in {staged, change.cfg}
        BY <2>1, <2>5, <3>1
      <4>2. change' = [change EXCEPT !.pc = "again"]
        BY <4>1 DEF Go
      <4>3. QED
        BY <2>2, <3>1, <4>1, <4>2
    <3>2. CASE change.pc = "again"
      BY <2>1, <2>2, <2>5, <3>2 DEF Go, plan_config_application
    <3>3. QED
      BY <2>2, <3>1, <3>2
  <2>6. CASE attempt = "RefusedTheBundle"
    <3>1. Fails(change.pc = "again" /\ staged = change.cfg) /\ staged' = staged
      BY <2>1, <2>6 DEF plan_config_application
    <3>2. QED
      BY <2>2, <3>1 DEF Fails, NoChange
  <2>7. CASE attempt \in {"RestartRequired", "RefusedForAnotherReason"}
    BY <2>1, <2>2, <2>7 DEF Go, plan_config_application
  <2>8. QED
    BY <2>3, <2>4, <2>5, <2>6, <2>7
<1>9. CASE reload_config
  BY <1>9 DEF reload_config, Go
<1>10. CASE Replaced
  <2>1. change.pc \in {"replace", "restart"} /\ UNCHANGED settled
    BY <1>10 DEF Replaced
  <2>2. CASE Fails(TRUE) /\ UNCHANGED unsettled
    BY <2>1, <2>2 DEF Fails, NoChange
  <2>3. CASE coreMode' = "NotRunning" /\ unsettled' = FALSE /\ Fails(FALSE)
    BY <2>1, <2>3 DEF Fails, NoChange
  <2>4. CASE /\ ran' = IF change.pc = "replace" THEN change.cfg ELSE latest_arc
             /\ Go("commit") /\ UNCHANGED <<draft, adrift, unsettled>>
             /\ staged' = IF coreMode' = "Service" THEN ran' ELSE staged
    \* Unless somebody else generated meanwhile, the draft is the update's own.
    <3>1. ~change.mixed => ran' = change.cfg
      BY <2>1, <2>4, ConfigsAssumption DEF latest_arc
    <3>2. QED
      BY <2>1, <2>4, <3>1 DEF Go
  <2>5. QED
    BY <1>10, <2>2, <2>3, <2>4 DEF Replaced
<1>11. CASE validate_and_apply
  BY <1>11, ConfigsAssumption DEF validate_and_apply, NoChange, latest_arc
<1>12. CASE change_core
  BY <1>12 DEF change_core
<1>13. CASE NewFiles
  BY <1>13 DEF NewFiles
<1>14. CASE \E m \in {"Service", "Sidecar"} : StartCoreUnder(m)
  BY <1>14 DEF StartCoreUnder, latest_arc
<1>15. CASE CoreEnds
  BY <1>15 DEF CoreEnds
<1>16. CASE ServiceRevives
  BY <1>16 DEF ServiceRevives
<1>17. CASE UNCHANGED applyVars
  BY <1>17 DEF applyVars
<1>18. CASE \E c \in Configs : Generates(c)
  <2>1. PICK c \in Configs : Generates(c)
    BY <1>18
  <2>2. change' = [pc |-> change.pc, cfg |-> change.cfg, print |-> change.print, mixed |-> change.pc # "idle"]
    BY <2>1 DEF Generates
  <2>3. UNCHANGED <<settled, coreMode, ran, staged, adrift, unsettled>>
    BY <2>1 DEF Generates
  <2>4. QED
    BY <2>2, <2>3
<1>19. QED
  BY <1>1, <1>2, <1>3, <1>4, <1>5, <1>6, <1>7, <1>8, <1>9, <1>10, <1>11, <1>12, <1>13, <1>14, <1>15,
     <1>16, <1>17, <1>18 DEF ApplyNext

\* AppliedIsRun, whatever the configurations, the cores and the bound: between
\* updates the core runs, and would be revived with, the committed configuration.
THEOREM ApplyCorrect == ApplySpec => []AppliedIsRun
PROOF
<1>1. ApplyInit => ApplyInv
  <2> SUFFICES ASSUME ApplyInit PROVE ApplyInv
    OBVIOUS
  <2>1. change = NoChange /\ coreMode = "NotRunning" /\ adrift = FALSE
    BY DEF ApplyInit
  <2>2. change.pc = "idle" /\ change = [pc |-> change.pc, cfg |-> change.cfg, print |-> change.print, mixed |-> change.mixed]
        /\ change.mixed = FALSE /\ unsettled = FALSE
    BY <2>1 DEF NoChange, ApplyInit
  <2>3. QED
    BY <2>1, <2>2 DEF ApplyInv, ApplyPc, Untouched, Holds
<1>2. ApplyInv => AppliedIsRun
  BY DEF ApplyInv, AppliedIsRun, Untouched, Holds
<1>3. QED
  BY <1>1, <1>2, ApplyKeeps, PTL DEF ApplySpec

(***************************************************************************)
(* Core upgrade                                                            *)
(***************************************************************************)

\* The steps of an upgrade.
UpgradePc == {"idle", "fetch", "link", "publish", "aside", "replace", "put back", "approve", "restart",
              "failed", "approve again", "clean", "done"}

\* The parts of the running upgrade and of the counters that the arguments use.
UpgradeType ==
  /\ upgrade = [pc |-> upgrade.pc, installed |-> upgrade.installed, latest |-> upgrade.latest,
                restorable |-> upgrade.restorable, serviceMode |-> upgrade.serviceMode,
                staging |-> upgrade.staging]
  /\ upgrade.pc \in UpgradePc
  /\ upgrade.restorable \in BOOLEAN /\ upgrade.serviceMode \in BOOLEAN
  /\ upgrade.staging \in {"NotAttempted", "Succeeded", "Refused"}
  /\ upgrade.pc \in {"fetch", "link", "publish", "aside", "replace", "put back", "approve"} => upgrade.staging = "NotAttempted"
  /\ upgradeOs \in {"unix", "windows"}
  /\ faults = [renames |-> faults.renames, crashes |-> faults.crashes, upgrades |-> faults.upgrades,
               stranded |-> faults.stranded]
  /\ faults.stranded \in BOOLEAN /\ drift \in BOOLEAN

\* Where a core is at each step: what will be published exists, and so does what
\* the rollback link names; without a core in its place the displaced one is
\* there, and not about to be removed.
FilesKept ==
  /\ upgrade.pc = "fetch" => upgrade.latest # NoFile
  /\ upgrade.pc \in {"link", "publish", "aside", "replace"} => stagedCore # NoFile
  /\ upgrade.pc \in {"replace", "put back"} => coreFile = NoFile
  /\ upgrade.restorable => rollbackLink # NoFile
  /\ upgradeOs = "unix" => coreFile # NoFile /\ upgrade.pc \notin {"aside", "replace", "put back"}
  /\ faults.stranded = FALSE =>
       \/ coreFile # NoFile
       \/ /\ displacedCore # NoFile
          /\ upgrade.pc \in {"idle", "replace", "put back", "failed", "clean"}
          /\ upgrade.pc = "clean" => upgrade.restorable = FALSE

\* The core in its place is the one the Service has, or there is none.
Agree == coreFile \in {NoFile, approvedCore}

\* How the Service's copy follows the file while nothing made them differ: they
\* agree until the file is published and again once the copy is accepted, and in
\* between the way back leads to what the Service has.
CopyFollows ==
  drift = FALSE =>
    /\ upgrade.pc \in {"idle", "fetch", "link", "publish", "aside", "restart", "clean", "done"} => Agree
    /\ upgrade.pc \in {"replace", "put back"} => displacedCore = approvedCore
    /\ upgrade.pc \in {"restart", "done"} => upgrade.staging = "Succeeded"
    /\ upgrade.pc = "failed" /\ upgrade.staging # "Refused" => Agree
    /\ /\ upgrade.pc \in {"publish", "aside", "replace", "put back", "approve", "failed"}
       /\ upgrade.restorable = TRUE /\ upgrade.staging # "Succeeded"
       => rollbackLink = approvedCore

\* The inductive invariant.
UpgradeInv == UpgradeType /\ FilesKept /\ CopyFollows



\* Every step of an upgrade, and of what goes on beside it, keeps the three.
LEMMA UpgradeKeeps ==
  ASSUME UpgradeInv, [UpgradeNext]_upgradeVars
  PROVE  UpgradeInv'
PROOF
<1> USE UpgradeAssumption DEF UpgradeInv, UpgradePc, NoFile
<1>1. CASE upgrade_core
  <2>1. UpgradeType'
    BY <1>1 DEF upgrade_core, UpgradeType, read_core_version, NoUpgrade, Versions, Broken
  <2>2. FilesKept'
    <3>1. /\ upgrade'.pc = "fetch" /\ upgrade'.restorable = FALSE /\ upgrade'.latest \in Versions
          /\ faults'.stranded = (faults.stranded \/ coreFile = NoFile)
          /\ UNCHANGED <<upgradeOs, coreFile, displacedCore>>
      BY <1>1 DEF upgrade_core, UpgradeType, NoUpgrade
    <3>2. \A v \in Versions : v # 0
      BY DEF Versions
    <3>3. QED
      BY <3>1, <3>2 DEF UpgradeType, FilesKept
  <2>3. CopyFollows'
    BY <1>1 DEF upgrade_core, UpgradeType, CopyFollows, Agree, read_core_version, NoUpgrade, Versions,
       Broken
  <2>4. QED
    BY <2>1, <2>2, <2>3
<1>2. CASE FetchFails
  <2>1. UpgradeType'
    BY <1>2 DEF FetchFails, UpgradeType, NoUpgrade
  <2>2. FilesKept'
    BY <1>2 DEF FetchFails, UpgradeType, FilesKept, NoUpgrade
  <2>3. CopyFollows'
    BY <1>2 DEF FetchFails, UpgradeType, CopyFollows, Agree, NoUpgrade
  <2>4. QED
    BY <2>1, <2>2, <2>3
<1>3. CASE stage_core
  <2>1. UpgradeType'
    BY <1>3 DEF stage_core, UpgradeType, UpStep
  <2>2. FilesKept'
    BY <1>3 DEF stage_core, UpgradeType, FilesKept, UpStep
  <2>3. CopyFollows'
    BY <1>3 DEF stage_core, UpgradeType, CopyFollows, Agree, UpStep
  <2>4. QED
    BY <2>1, <2>2, <2>3
<1>4. CASE LinkRollback
  <2>1. UpgradeType'
    <3>1. PICK linked \in BOOLEAN :
            upgrade' = [upgrade EXCEPT !.pc = "publish", !.serviceMode = (upMode = "Service"),
                                       !.restorable = linked /\ upgrade.installed # NoFile]
      BY <1>4 DEF LinkRollback
    <3>2. (upMode = "Service") \in BOOLEAN /\ (linked /\ upgrade.installed # NoFile) \in BOOLEAN
      OBVIOUS
    <3>3. upgrade.staging = "NotAttempted"
      BY <1>4 DEF LinkRollback, UpgradeType
    <3>4. UNCHANGED <<upgradeOs, faults, drift>>
      BY <1>4 DEF LinkRollback
    <3>5. QED
      BY <3>1, <3>2, <3>3, <3>4 DEF UpgradeType
  <2>2. FilesKept'
    BY <1>4 DEF LinkRollback, UpgradeType, FilesKept
  <2>3. CopyFollows'
    BY <1>4 DEF LinkRollback, UpgradeType, CopyFollows, Agree
  <2>4. QED
    BY <2>1, <2>2, <2>3
<1>5. CASE publish
  <2>1. UpgradeType'
    BY <1>5 DEF publish, UpgradeType, Published, UpStep, RenameFails
  <2>2. FilesKept'
    BY <1>5 DEF publish, UpgradeType, FilesKept, Published, UpStep, RenameFails
  <2>3. CopyFollows'
    BY <1>5 DEF publish, UpgradeType, CopyFollows, Agree, Published, UpStep, RenameFails
  <2>4. QED
    BY <2>1, <2>2, <2>3
<1>6. CASE MoveAside
  <2>1. UpgradeType'
    BY <1>6 DEF MoveAside, UpgradeType, UpStep, RenameFails
  <2>2. FilesKept'
    BY <1>6 DEF MoveAside, UpgradeType, FilesKept, UpStep, RenameFails
  <2>3. CopyFollows'
    BY <1>6 DEF MoveAside, UpgradeType, CopyFollows, Agree, UpStep, RenameFails
  <2>4. QED
    BY <2>1, <2>2, <2>3
<1>7. CASE ReplaceAside
  <2>1. UpgradeType'
    BY <1>7 DEF ReplaceAside, UpgradeType, Published, UpStep, RenameFails
  <2>2. FilesKept'
    BY <1>7 DEF ReplaceAside, UpgradeType, FilesKept, Published, UpStep, RenameFails
  <2>3. CopyFollows'
    BY <1>7 DEF ReplaceAside, UpgradeType, CopyFollows, Agree, Published, UpStep, RenameFails
  <2>4. QED
    BY <2>1, <2>2, <2>3
<1>8. CASE PutBack
  <2>1. UpgradeType'
    BY <1>8 DEF PutBack, UpgradeType, UpStep, RenameFails
  <2>2. FilesKept'
    BY <1>8 DEF PutBack, UpgradeType, FilesKept, UpStep, RenameFails
  <2>3. CopyFollows'
    BY <1>8 DEF PutBack, UpgradeType, FilesKept, CopyFollows, Agree, UpStep, RenameFails
  <2>4. QED
    BY <2>1, <2>2, <2>3
<1>9. CASE stage_approved_core
  <2>1. UpgradeType'
    BY <1>9 DEF stage_approved_core, UpgradeType
  <2>2. FilesKept'
    BY <1>9 DEF stage_approved_core, UpgradeType, FilesKept
  <2>3. CopyFollows'
    BY <1>9 DEF stage_approved_core, UpgradeType, CopyFollows, Agree
  <2>4. QED
    BY <2>1, <2>2, <2>3
<1>10. CASE UpgradeRestart
  <2>1. UpgradeType'
    BY <1>10 DEF UpgradeRestart, UpgradeType, UpStep
  <2>2. FilesKept'
    BY <1>10 DEF UpgradeRestart, UpgradeType, FilesKept, UpStep
  <2>3. CopyFollows'
    BY <1>10 DEF UpgradeRestart, UpgradeType, CopyFollows, Agree, UpStep
  <2>4. QED
    BY <2>1, <2>2, <2>3
<1>11. CASE RollBack
  <2>1. UpgradeType'
    BY <1>11 DEF RollBack, UpgradeType, RestoreWanted, UpStep
  <2>2. FilesKept'
    BY <1>11 DEF RollBack, UpgradeType, FilesKept, RestoreWanted, UpStep
  <2>3. CopyFollows'
    BY <1>11 DEF RollBack, UpgradeType, CopyFollows, Agree, RestoreWanted, UpStep
  <2>4. QED
    BY <2>1, <2>2, <2>3
<1>12. CASE ApproveAgain
  <2>1. UpgradeType'
    BY <1>12 DEF ApproveAgain, UpgradeType, UpStep
  <2>2. FilesKept'
    BY <1>12 DEF ApproveAgain, UpgradeType, FilesKept, UpStep
  <2>3. CopyFollows'
    BY <1>12 DEF ApproveAgain, UpgradeType, CopyFollows, Agree, UpStep
  <2>4. QED
    BY <2>1, <2>2, <2>3
<1>13. CASE Cleaned
  <2>1. UpgradeType'
    BY <1>13 DEF Cleaned, UpgradeType, NoUpgrade
  <2>2. FilesKept'
    BY <1>13 DEF Cleaned, UpgradeType, FilesKept, NoUpgrade
  <2>3. CopyFollows'
    BY <1>13 DEF Cleaned, UpgradeType, CopyFollows, Agree, NoUpgrade
  <2>4. QED
    BY <2>1, <2>2, <2>3
<1>14. CASE ModeChanges
  <2>1. UpgradeType'
    BY <1>14 DEF ModeChanges, UpgradeType
  <2>2. FilesKept'
    BY <1>14 DEF ModeChanges, UpgradeType, FilesKept
  <2>3. CopyFollows'
    BY <1>14 DEF ModeChanges, UpgradeType, CopyFollows, Agree
  <2>4. QED
    BY <2>1, <2>2, <2>3
<1>15. CASE InstallService
  <2>1. UpgradeType'
    BY <1>15 DEF InstallService, UpgradeType
  <2>2. FilesKept'
    BY <1>15 DEF InstallService, UpgradeType, FilesKept
  <2>3. CopyFollows'
    BY <1>15 DEF InstallService, UpgradeType, CopyFollows, Agree
  <2>4. QED
    BY <2>1, <2>2, <2>3
<1>16. CASE UpgradeCrash
  <2>1. UpgradeType'
    BY <1>16 DEF UpgradeCrash, UpgradeType, NoUpgrade
  <2>2. FilesKept'
    BY <1>16 DEF UpgradeCrash, UpgradeType, FilesKept, NoUpgrade
  <2>3. CopyFollows'
    BY <1>16 DEF UpgradeCrash, UpgradeType, CopyFollows, Agree, NoUpgrade
  <2>4. QED
    BY <2>1, <2>2, <2>3
<1>17. CASE UNCHANGED upgradeVars
  <2>1. UpgradeType' /\ FilesKept' /\ CopyFollows'
    <3> USE <1>17 DEF upgradeVars
    <3>1. UpgradeType'
      BY DEF UpgradeType
    <3>2. FilesKept'
      BY DEF FilesKept
    <3>3. CopyFollows'
      BY DEF CopyFollows, Agree
    <3>4. QED
      BY <3>1, <3>2, <3>3
  <2>2. QED
    BY <2>1
<1>18. QED
  BY <1>1, <1>2, <1>3, <1>4, <1>5, <1>6, <1>7, <1>8, <1>9, <1>10, <1>11, <1>12, <1>13, <1>14, <1>15,
     <1>16, <1>17 DEF UpgradeNext

\* The invariant of an upgrade holds in every reachable state.
LEMMA UpgradeInvariant == UpgradeSpec => []UpgradeInv
PROOF
<1>1. UpgradeInit => UpgradeInv
  <2> SUFFICES ASSUME UpgradeInit PROVE UpgradeInv
    OBVIOUS
  <2>1. /\ upgrade = NoUpgrade /\ faults = [renames |-> 0, crashes |-> 0, upgrades |-> 0, stranded |-> FALSE]
        /\ upgradeOs \in {"unix", "windows"} /\ coreFile \in {1, Broken} /\ approvedCore = 1
        /\ drift = (coreFile # 1)
    BY DEF UpgradeInit
  <2>2. coreFile # NoFile /\ drift \in BOOLEAN
    BY <2>1, UpgradeAssumption DEF NoFile, Broken
  <2>3. UpgradeType
    BY <2>1, <2>2 DEF UpgradeType, UpgradePc, NoUpgrade
  <2>4. upgrade.pc = "idle" /\ upgrade.restorable = FALSE
    BY <2>1 DEF NoUpgrade
  <2>5. FilesKept /\ CopyFollows
    BY <2>1, <2>2, <2>4 DEF FilesKept, CopyFollows, Agree
  <2>6. QED
    BY <2>3, <2>5 DEF UpgradeInv
<1>2. QED
  BY <1>1, UpgradeKeeps, PTL DEF UpgradeSpec

\* CoreIsKept, whatever the bounds on faults, crashes and upgrades: a core is on
\* the disk through every failure of publish and of the way back from it.
THEOREM KeptCorrect == UpgradeSpec => []CoreIsKept
PROOF
<1>1. UpgradeInv => CoreIsKept
  BY DEF UpgradeInv, UpgradeType, FilesKept, CoreIsKept
<1>2. QED
  BY <1>1, UpgradeInvariant, PTL

\* ApprovedIsReported: between upgrades the Service has the core the application
\* reports, unless the code accepts the difference.
THEOREM ReportedCorrect == UpgradeSpec => []ApprovedIsReported
PROOF
<1>1. UpgradeInv => ApprovedIsReported
  BY DEF UpgradeInv, UpgradeType, CopyFollows, Agree, ApprovedIsReported
<1>2. QED
  BY <1>1, UpgradeInvariant, PTL

(***************************************************************************)
(* Mixed port                                                              *)
(***************************************************************************)

\* The steps of the startup and of a save.
BootPc == {"resolve", "generate", "move", "stage", "start", "ended", "blocked"}
SavePc == {"idle", "assess", "restart", "clash", "verge", "commit", "undo", "back"}

\* Every variable has its type.
PortsType ==
  /\ boot = [pc |-> boot.pc, to |-> boot.to, retries |-> boot.retries] /\ boot.pc \in BootPc
  /\ save = [pc |-> save.pc, port |-> save.port, borrowed |-> save.borrowed, running |-> save.running]
  /\ save.pc \in SavePc /\ save.running \in BOOLEAN /\ strayed \in BOOLEAN
  /\ save.pc # "idle" => save.port # 0
  /\ save.pc = "restart" => save.running = TRUE
  /\ boot.pc = "move" => boot.to # 0

\* The startup moves the port alone, and a save starts only where the runtime
\* configuration exists.
OneMover ==
  /\ boot.pc \in {"move", "stage", "generate"} => save.pc = "idle"
  /\ boot.pc = "generate" => runtimePort = 0
  /\ save.pc # "idle" => runtimePort # 0

\* The runtime configuration has the port the session borrows, or the one the
\* settings name; while one is staged, the port it is staged for and the one to
\* go back to are both known.
RuntimeFollows ==
  /\ save.pc = "idle" /\ boot.pc # "stage" =>
       rdraft = 0 /\ runtimePort \in {0, generated(sessionFallback, named.clash)}
  /\ boot.pc = "stage" =>
       /\ sessionFallback # 0 /\ rdraft = sessionFallback
       /\ runtimePort \in {0, generated(boot.to, named.clash)}
  /\ save.pc # "idle" => runtimePort = generated(save.borrowed, named.clash)
  /\ save.pc \in {"assess", "restart", "clash", "verge", "commit", "undo"} =>
       sessionFallback = 0 /\ rdraft = save.port
  /\ save.pc = "back" => sessionFallback = save.borrowed /\ rdraft = 0

\* The core serves the port of the runtime configuration, or the one a save
\* restarted it with; it does not run while the startup moves the port, nor
\* under a save that did not find it running.
ServedFollows ==
  /\ served # 0 => served \notin taken
  /\ strayed = FALSE /\ served # 0 =>
       /\ boot.pc \notin {"move", "stage"}
       /\ save.pc \in {"idle", "assess", "restart"} => served = runtimePort
       /\ save.pc \in {"clash", "verge", "commit"} => served = save.port
       /\ save.pc # "idle" => save.running = TRUE

\* The inductive invariant.
PortsInv == PortsType /\ OneMover /\ RuntimeFollows /\ ServedFollows

\* Every step of the startup, of a save and of the others keeps the four.
LEMMA PortsKeep ==
  ASSUME PortsInv, [PortsNext]_portVars
  PROVE  PortsInv'
PROOF
<1> USE PortsAssumption DEF PortsInv, BootPc, SavePc
<1>1. CASE resolve_startup_mixed_port
  <2>1. PortsType'
    BY <1>1 DEF resolve_startup_mixed_port, Kept, selected, ConfigLocked, generated, PortsType
  <2>2. OneMover'
    BY <1>1 DEF resolve_startup_mixed_port, Kept, selected, ConfigLocked, generated, PortsType, OneMover
  <2>3. RuntimeFollows'
    BY <1>1 DEF resolve_startup_mixed_port, Kept, selected, ConfigLocked, generated, PortsType,
       OneMover, RuntimeFollows
  <2>4. ServedFollows'
    BY <1>1 DEF resolve_startup_mixed_port, Kept, selected, ConfigLocked, generated, PortsType,
       OneMover, RuntimeFollows, ServedFollows
  <2>5. QED
    BY <2>1, <2>2, <2>3, <2>4
<1>2. CASE apply_startup_mixed_port_fallback
  <2>1. PortsType'
    BY <1>2 DEF apply_startup_mixed_port_fallback, generated, PortsType
  <2>2. OneMover'
    BY <1>2 DEF apply_startup_mixed_port_fallback, generated, PortsType, OneMover
  <2>3. RuntimeFollows'
    BY <1>2 DEF apply_startup_mixed_port_fallback, generated, PortsType, OneMover, RuntimeFollows
  <2>4. ServedFollows'
    BY <1>2 DEF apply_startup_mixed_port_fallback, generated, PortsType, OneMover, RuntimeFollows,
       ServedFollows
  <2>5. QED
    BY <2>1, <2>2, <2>3, <2>4
<1>3. CASE stage_fallback_runtime
  <2>1. PortsType'
    BY <1>3 DEF stage_fallback_runtime, generated, PortsType
  <2>2. OneMover'
    BY <1>3 DEF stage_fallback_runtime, generated, PortsType, OneMover
  <2>3. RuntimeFollows'
    BY <1>3 DEF stage_fallback_runtime, generated, PortsType, OneMover, RuntimeFollows
  <2>4. ServedFollows'
    BY <1>3 DEF stage_fallback_runtime, generated, PortsType, OneMover, RuntimeFollows, ServedFollows
  <2>5. QED
    BY <2>1, <2>2, <2>3, <2>4
<1>4. CASE init_runtime_config
  <2>1. PortsType'
    BY <1>4 DEF init_runtime_config, ConfigUpdateRunning, generated, PortsType
  <2>2. OneMover'
    BY <1>4 DEF init_runtime_config, ConfigUpdateRunning, generated, PortsType, OneMover
  <2>3. RuntimeFollows'
    BY <1>4 DEF init_runtime_config, ConfigUpdateRunning, generated, PortsType, OneMover, RuntimeFollows
  <2>4. ServedFollows'
    BY <1>4 DEF init_runtime_config, ConfigUpdateRunning, generated, PortsType, OneMover,
       RuntimeFollows, ServedFollows
  <2>5. QED
    BY <2>1, <2>2, <2>3, <2>4
<1>5. CASE core_init
  <2>1. PortsType'
    BY <1>5 DEF core_init, ConfigUpdateRunning, CoreAt, latest, PortsType
  <2>2. OneMover'
    BY <1>5 DEF core_init, ConfigUpdateRunning, CoreAt, latest, PortsType, OneMover
  <2>3. RuntimeFollows'
    BY <1>5 DEF core_init, ConfigUpdateRunning, CoreAt, latest, PortsType, OneMover, RuntimeFollows
  <2>4. ServedFollows'
    BY <1>5 DEF core_init, ConfigUpdateRunning, CoreAt, latest, PortsType, OneMover, RuntimeFollows,
       ServedFollows
  <2>5. QED
    BY <2>1, <2>2, <2>3, <2>4
<1>6. CASE restart_core
  <2>1. PortsType'
    BY <1>6 DEF restart_core, ConfigUpdateRunning, CoreAt, latest, PortsType
  <2>2. OneMover'
    BY <1>6 DEF restart_core, ConfigUpdateRunning, CoreAt, latest, PortsType, OneMover
  <2>3. RuntimeFollows'
    BY <1>6 DEF restart_core, ConfigUpdateRunning, CoreAt, latest, PortsType, OneMover, RuntimeFollows
  <2>4. ServedFollows'
    BY <1>6 DEF restart_core, ConfigUpdateRunning, CoreAt, latest, PortsType, OneMover, RuntimeFollows,
       ServedFollows
  <2>5. QED
    BY <2>1, <2>2, <2>3, <2>4
<1>7. CASE \E p \in PortNumbers \ ReservedPorts : save_proxy_ports(p)
  <2>1. PortsType'
    BY <1>7 DEF save_proxy_ports, ConfigLocked, generated, PortsType
  <2>2. OneMover'
    BY <1>7 DEF save_proxy_ports, ConfigLocked, generated, PortsType, OneMover
  <2>3. RuntimeFollows'
    BY <1>7 DEF save_proxy_ports, ConfigLocked, generated, PortsType, OneMover, RuntimeFollows
  <2>4. ServedFollows'
    <3>1. PICK p \in PortNumbers \ ReservedPorts : save_proxy_ports(p)
      BY <1>7
    <3>2. /\ save'.pc = "assess" /\ save'.running = (served # 0) /\ save.pc = "idle"
          /\ UNCHANGED <<taken, served, boot, strayed, runtimePort>>
      BY <3>1 DEF save_proxy_ports, ConfigLocked
    <3>3. QED
      BY <3>2 DEF ServedFollows
  <2>5. QED
    BY <2>1, <2>2, <2>3, <2>4
<1>8. CASE SaveRefused
  <2>1. PortsType'
    BY <1>8 DEF SaveRefused, restore_borrowed_port, NoSave, PortsType
  <2>2. OneMover'
    BY <1>8 DEF SaveRefused, restore_borrowed_port, NoSave, PortsType, OneMover
  <2>3. RuntimeFollows'
    BY <1>8 DEF SaveRefused, restore_borrowed_port, NoSave, PortsType, OneMover, RuntimeFollows
  <2>4. ServedFollows'
    BY <1>8 DEF SaveRefused, restore_borrowed_port, NoSave, PortsType, OneMover, RuntimeFollows,
       ServedFollows
  <2>5. QED
    BY <2>1, <2>2, <2>3, <2>4
<1>9. CASE SaveAssessed
  <2>1. PortsType'
    BY <1>9 DEF SaveAssessed, PortsType
  <2>2. OneMover'
    BY <1>9 DEF SaveAssessed, PortsType, OneMover
  <2>3. RuntimeFollows'
    BY <1>9 DEF SaveAssessed, PortsType, OneMover, RuntimeFollows
  <2>4. ServedFollows'
    BY <1>9 DEF SaveAssessed, PortsType, OneMover, RuntimeFollows, ServedFollows
  <2>5. QED
    BY <2>1, <2>2, <2>3, <2>4
<1>10. CASE SaveRestart
  <2>1. PortsType'
    BY <1>10 DEF SaveRestart, CoreAt, latest, PortsType
  <2>2. OneMover'
    BY <1>10 DEF SaveRestart, CoreAt, latest, PortsType, OneMover
  <2>3. RuntimeFollows'
    BY <1>10 DEF SaveRestart, CoreAt, latest, PortsType, OneMover, RuntimeFollows
  <2>4. ServedFollows'
    BY <1>10 DEF SaveRestart, CoreAt, latest, PortsType, OneMover, RuntimeFollows, ServedFollows
  <2>5. QED
    BY <2>1, <2>2, <2>3, <2>4
<1>11. CASE persist_proxy_port_sources
  <2>1. PortsType'
    BY <1>11 DEF persist_proxy_port_sources, PersistSource, PortsType
  <2>2. OneMover'
    BY <1>11 DEF persist_proxy_port_sources, PersistSource, PortsType, OneMover
  <2>3. RuntimeFollows'
    BY <1>11 DEF persist_proxy_port_sources, PersistSource, PortsType, OneMover, RuntimeFollows
  <2>4. ServedFollows'
    BY <1>11 DEF persist_proxy_port_sources, PersistSource, PortsType, OneMover, RuntimeFollows,
       ServedFollows
  <2>5. QED
    BY <2>1, <2>2, <2>3, <2>4
<1>12. CASE SaveCommit
  <2>1. PortsType'
    BY <1>12 DEF SaveCommit, NoSave, Both, generated, PortsType
  <2>2. OneMover'
    BY <1>12 DEF SaveCommit, NoSave, Both, generated, PortsType, OneMover
  <2>3. RuntimeFollows'
    BY <1>12 DEF SaveCommit, NoSave, Both, generated, PortsType, OneMover, RuntimeFollows
  <2>4. ServedFollows'
    BY <1>12 DEF SaveCommit, NoSave, Both, generated, PortsType, OneMover, RuntimeFollows, ServedFollows
  <2>5. QED
    BY <2>1, <2>2, <2>3, <2>4
<1>13. CASE restore_files
  <2>1. PortsType'
    BY <1>13 DEF restore_files, restore_borrowed_port, NoSave, PortsType
  <2>2. OneMover'
    BY <1>13 DEF restore_files, restore_borrowed_port, NoSave, PortsType, OneMover
  <2>3. RuntimeFollows'
    BY <1>13 DEF restore_files, restore_borrowed_port, NoSave, PortsType, OneMover, RuntimeFollows
  <2>4. ServedFollows'
    BY <1>13 DEF restore_files, restore_borrowed_port, NoSave, PortsType, OneMover, RuntimeFollows,
       ServedFollows
  <2>5. QED
    BY <2>1, <2>2, <2>3, <2>4
<1>14. CASE rollback_proxy_ports
  <2>1. PortsType'
    BY <1>14 DEF rollback_proxy_ports, CoreAt, latest, NoSave, PortsType
  <2>2. OneMover'
    BY <1>14 DEF rollback_proxy_ports, CoreAt, latest, NoSave, PortsType, OneMover
  <2>3. RuntimeFollows'
    BY <1>14 DEF rollback_proxy_ports, CoreAt, latest, NoSave, PortsType, OneMover, RuntimeFollows
  <2>4. ServedFollows'
    BY <1>14 DEF rollback_proxy_ports, CoreAt, latest, NoSave, PortsType, OneMover, RuntimeFollows,
       ServedFollows
  <2>5. QED
    BY <2>1, <2>2, <2>3, <2>4
<1>15. CASE Occupy
  <2>1. PortsType'
    BY <1>15 DEF Occupy, PortsType
  <2>2. OneMover'
    BY <1>15 DEF Occupy, PortsType, OneMover
  <2>3. RuntimeFollows'
    BY <1>15 DEF Occupy, PortsType, OneMover, RuntimeFollows
  <2>4. ServedFollows'
    BY <1>15 DEF Occupy, PortsType, OneMover, RuntimeFollows, ServedFollows
  <2>5. QED
    BY <2>1, <2>2, <2>3, <2>4
<1>16. CASE PortsCrash
  <2>1. PortsType'
    BY <1>16 DEF PortsCrash, Booting, NoSave, PortsType
  <2>2. OneMover'
    BY <1>16 DEF PortsCrash, Booting, NoSave, PortsType, OneMover
  <2>3. RuntimeFollows'
    BY <1>16 DEF PortsCrash, Booting, NoSave, PortsType, OneMover, RuntimeFollows
  <2>4. ServedFollows'
    BY <1>16 DEF PortsCrash, Booting, NoSave, PortsType, OneMover, RuntimeFollows, ServedFollows
  <2>5. QED
    BY <2>1, <2>2, <2>3, <2>4
<1>17. CASE UNCHANGED portVars
  <2>1. PortsType'
    BY <1>17 DEF portVars, PortsType
  <2>2. OneMover'
    BY <1>17 DEF portVars, PortsType, OneMover
  <2>3. RuntimeFollows'
    BY <1>17 DEF portVars, PortsType, OneMover, RuntimeFollows
  <2>4. ServedFollows'
    BY <1>17 DEF portVars, PortsType, OneMover, RuntimeFollows, ServedFollows
  <2>5. QED
    BY <2>1, <2>2, <2>3, <2>4
<1>18. QED
  BY <1>1, <1>2, <1>3, <1>4, <1>5, <1>6, <1>7, <1>8, <1>9, <1>10, <1>11, <1>12, <1>13, <1>14, <1>15,
     <1>16, <1>17 DEF PortsNext

\* DesiredIsServed, whatever the ports, the reserved ones and the bounds: between
\* operations the system proxy points at the port the core serves.
THEOREM PortsCorrect == PortsSpec => []DesiredIsServed
PROOF
<1>1. PortsInit => PortsInv
  <2> SUFFICES ASSUME PortsInit PROVE PortsInv
    OBVIOUS
  <2>1. /\ boot = Booting /\ save = NoSave /\ strayed = FALSE /\ served = 0 /\ rdraft = 0 /\ runtimePort = 0
    BY DEF PortsInit
  <2>2. PortsType
    BY <2>1 DEF PortsType, Booting, NoSave, BootPc, SavePc
  <2>3. boot.pc = "resolve" /\ save.pc = "idle"
    BY <2>1 DEF Booting, NoSave
  <2>4. OneMover /\ RuntimeFollows /\ ServedFollows
    BY <2>1, <2>3 DEF OneMover, RuntimeFollows, ServedFollows
  <2>5. QED
    BY <2>2, <2>4 DEF PortsInv
<1>2. PortsInv => DesiredIsServed
  BY DEF PortsInv, PortsType, OneMover, RuntimeFollows, ServedFollows, DesiredIsServed, AtRest, desired,
     generated
<1>3. QED
  BY <1>1, <1>2, PortsKeep, PTL DEF PortsSpec

(***************************************************************************)
(* Runtime bundle                                                          *)
(***************************************************************************)

\* Every non-empty set of natural numbers has a least element.
LEMMA LeastNumber ==
  ASSUME NEW T \in SUBSET Nat, T # {}
  PROVE  \E x \in T : \A y \in T : x <= y
PROOF
<1> DEFINE R == {ss \in Nat \X Nat : ss[1] < ss[2]}
<1>1. IsWellFoundedOn(R, Nat)
  BY NatLessThanWellFounded, Zenon DEF OpToRel
<1>2. PICK x \in T : \A y \in T : ~ (<<y, x>> \in R)
  <2> HIDE DEF R
  <2>1. QED
    BY <1>1, WFMin
<1>3. ASSUME NEW y \in T
      PROVE  x <= y
  <2>1. <<y, x>> \in Nat \X Nat
    BY <1>3
  <2>2. ~ (y < x)
    BY <1>2, <2>1
  <2>3. QED
    BY <2>2
<1>4. QED
  BY <1>2, <1>3

\* Two downloads to one file have one address, unless the file is a local
\* provider's or lies outside.
Resolved ==
  \A i, j \in Of("remote") :
    declared[i].path = declared[j].path /\ declared[i].url # declared[j].url
      => declared[i].path = Outside \/ owners_local(declared[i].path)

\* The inductive invariant.
BundleInv ==
  /\ bphase \in {"declared", "resolved", "collected", "refused"}
  /\ bphase = "declared" => declared \in [Provider -> Providers]
  /\ bphase = "resolved" => Resolved
  /\ BundleUnambiguous

\* Derived names are told apart by the address they are derived from, and are
\* not the names a profile uses.
LEMMA Derived ==
  ASSUME NEW d, NEW u, NEW n, NEW e, NEW v, NEW m
  PROVE  /\ <<d, u, n>> = <<e, v, m>> => u = v /\ n = m
         /\ <<d, u, n>> # <<e>>
PROOF
  OBVIOUS

\* The name that is allocated is free: at most one derived name is ever declared.
LEMMA AllocatedIsFree ==
  ASSUME declared \in [Provider -> Providers], Provider # {}
  PROVE  \A d, u : allocate_provider_destination(d, u) \notin reserved
PROOF
<1> TAKE d, u
<1> DEFINE free == {n \in 0 .. ProviderCount : <<d, u, n>> \notin reserved}
<1>1. 1 \in 0 .. ProviderCount
  BY BundleAssumption DEF Provider
<1>2. <<d, u, 1>> \notin Files
  <2>1. <<d, u, 1>> # <<Plain, AnUrl, 0>>
    BY Derived
  <2>2. <<d, u, 1>> # <<"file">> /\ <<d, u, 1>> # <<"geo">> /\ <<d, u, 1>> # <<"outside">>
    BY Derived
  <2>3. QED
    BY <2>1, <2>2 DEF Files, Plain, Geo, Outside
<1>3. reserved \subseteq Files
  <2>1. \A i \in Provider : declared[i].path \in Files
    BY DEF Providers, Files
  <2>2. Geo \in Files
    BY DEF Files
  <2>3. QED
    BY <2>1, <2>2 DEF reserved
<1>4. free # {} /\ free \in SUBSET Nat
  BY <1>1, <1>2, <1>3
<1>5. \E n \in free : \A m \in free : n <= m
  BY <1>4, LeastNumber
<1>6. (CHOOSE n \in free : \A m \in free : n <= m) \in free
  <2> HIDE DEF free
  <2>1. QED
    BY <1>5
<1>7. QED
  BY <1>6 DEF allocate_provider_destination

\* The conflicts that are left after the resolution are those it may not touch.
LEMMA ConflictsResolved ==
  ASSUME declared \in [Provider -> Providers], resolve_provider_path_conflicts
  PROVE  Resolved'
PROOF
<1> DEFINE Moves(i) == /\ declared[i].kind = "remote" /\ declared[i].path # Outside
                       /\ ~owners_local(declared[i].path)
                       /\ owners_remote(declared[i].path) # {declared[i].url}
<1>1. \A i \in Provider : declared[i] = [kind |-> declared[i].kind, path |-> declared[i].path, url |-> declared[i].url]
  BY DEF Providers
<1>2. \A i \in Provider :
        declared'[i] = IF Moves(i) THEN [declared[i] EXCEPT !.path = allocate_provider_destination(declared[i].path, declared[i].url)]
                                   ELSE declared[i]
  BY DEF resolve_provider_path_conflicts
<1>3. \A i \in Provider :
        /\ declared'[i].kind = declared[i].kind /\ declared'[i].url = declared[i].url
        /\ declared'[i].path = IF Moves(i) THEN allocate_provider_destination(declared[i].path, declared[i].url)
                                           ELSE declared[i].path
  <2> HIDE DEF Moves
  <2>1. QED
    BY <1>1, <1>2
<1>4. Of("remote")' = Of("remote") /\ Of("remote") \subseteq Provider
  BY <1>3 DEF Of, Provider
<1>5. \A d : owners_local(d) => \E k \in Provider \ Of("remote") : declared'[k].path = d
  <2> SUFFICES ASSUME NEW d, NEW k \in Provider \ Of("remote"), declared[k].path = d
               PROVE  declared'[k].path = d
    BY DEF owners_local
  <2>1. ~Moves(k)
    BY DEF Of
  <2>2. QED
    BY <1>3, <2>1
<1>6. SUFFICES ASSUME NEW i \in Of("remote"), NEW j \in Of("remote"),
                      declared'[i].path = declared'[j].path, declared'[i].url # declared'[j].url
               PROVE  \/ declared'[i].path = Outside
                      \/ \E k \in Provider \ Of("remote") : declared'[k].path = declared'[i].path
  BY <1>4 DEF Resolved, owners_local, Outside, Provider
<1>7. i \in Provider /\ j \in Provider /\ Provider # {} /\ declared[i].url # declared[j].url
  BY <1>3, <1>4, <1>6
<1>8. CASE Moves(i) /\ Moves(j)
  <2>1. allocate_provider_destination(declared[i].path, declared[i].url)
          = allocate_provider_destination(declared[j].path, declared[j].url)
    BY <1>3, <1>6, <1>7, <1>8
  <2>2. declared[i].url = declared[j].url
    BY <2>1, Derived DEF allocate_provider_destination
  <2>3. QED
    BY <2>2, <1>7
<1>9. \A k \in Provider : declared[k].path = Outside \/ declared[k].path \in reserved
  BY DEF reserved
<1>10. ASSUME NEW a \in Of("remote"), NEW b \in Of("remote"), Moves(a), ~Moves(b), declared'[a].path = declared'[b].path
       PROVE  declared'[a].path = Outside
  <2>1. declared'[a].path \notin reserved
    <3>1. declared'[a].path = allocate_provider_destination(declared[a].path, declared[a].url)
      BY <1>3, <1>4, <1>10
    <3>2. \A d, u : allocate_provider_destination(d, u) \notin reserved
      BY <1>7, AllocatedIsFree
    <3>3. QED
      BY <3>1, <3>2
  <2>2. declared'[a].path = declared[b].path
    BY <1>3, <1>4, <1>10
  <2>3. QED
    BY <2>1, <2>2, <1>9, <1>4
<1>11. CASE ~Moves(i) /\ ~Moves(j)
  <2>1. declared[i].path = declared[j].path /\ declared'[i].path = declared[i].path
    BY <1>3, <1>6, <1>7, <1>11
  <2>2. declared[j].url \in owners_remote(declared[i].path)
    BY <2>1 DEF owners_remote
  <2>3. owners_remote(declared[i].path) # {declared[i].url}
    BY <2>2, <1>7
  <2>4. declared[i].path = Outside \/ owners_local(declared[i].path)
    BY <2>3, <1>11 DEF Of
  <2>5. QED
    BY <2>1, <2>4, <1>5
<1>12. QED
  BY <1>6, <1>8, <1>10, <1>11

\* What collect_provider_assets accepts is unambiguous.
LEMMA CollectedRight ==
  ASSUME \A i \in Of("remote") : ~Refused(i), collect_provider_assets
  PROVE  /\ \A r, q \in remotes' : r.path = q.path => r.url = q.url
         /\ \A r \in remotes' : r.path \notin assets'
PROOF
<1>1. /\ remotes' = {[path |-> declared[i].path, url |-> declared[i].url] : i \in Of("remote")}
      /\ assets' = {declared[i].path : i \in {j \in Of("local") :
                      \A k \in Of("remote") : k < j => declared[k].path # declared[j].path}}
                   \cup ({Geo} \ {declared[i].path : i \in Of("remote")})
  BY DEF collect_provider_assets
<1>2. Of("remote") \subseteq Nat /\ Of("local") \subseteq Nat /\ Of("remote") \cap Of("local") = {}
  BY BundleAssumption DEF Of, Provider
<1>3. \A i, j \in Of("remote") : declared[i].path = declared[j].path => declared[i].url = declared[j].url
  <2> SUFFICES ASSUME NEW i \in Of("remote"), NEW j \in Of("remote"), declared[i].path = declared[j].path, i < j
               PROVE  declared[i].url = declared[j].url
    BY <1>2
  <2>1. ~Refused(j)
    OBVIOUS
  <2>2. QED
    BY <2>1 DEF Refused
<1>4. ASSUME NEW i \in Of("remote"), NEW j \in Of("local"), declared[i].path = declared[j].path
      PROVE  \E k \in Of("remote") : k < j /\ declared[k].path = declared[j].path
  <2> DEFINE S == {k \in Of("remote") : declared[k].path = declared[j].path}
  <2>1. S # {} /\ S \in SUBSET Nat
    BY <1>2, <1>4
  <2>2. PICK k \in S : \A m \in S : k <= m
    BY <2>1, LeastNumber
  <2>3. k \in Of("remote") /\ declared[k].path = declared[j].path /\ k \in Nat /\ j \in Nat /\ k # j
    BY <1>2
  <2>4. {m \in Of("remote") : m < k /\ declared[m].path = declared[k].path} = {}
    BY <2>2, <2>3, <1>2
  <2>5. ~Refused(k)
    BY <2>3
  <2>6. {m \in Of("local") : m < k /\ declared[m].path = declared[k].path} = {}
    BY <2>4, <2>5 DEF Refused
  <2>7. ~(j < k)
    BY <2>3, <2>6
  <2>8. QED
    BY <2>3, <2>7
<1>5. QED
  BY <1>1, <1>3, <1>4

\* BundleUnambiguous, whatever the number of providers and their addresses.
THEOREM BundleCorrect == BundleSpec => []BundleUnambiguous
PROOF
<1>1. BundleInit => BundleInv
  BY DEF BundleInit, BundleInv, BundleUnambiguous
<1>2. ASSUME BundleInv, [BundleNext]_bundleVars
      PROVE  BundleInv'
  <2>1. CASE resolve_provider_path_conflicts
    <3>1. bphase = "declared" /\ bphase' = "resolved" /\ declared \in [Provider -> Providers]
      BY <1>2, <2>1 DEF BundleInv, resolve_provider_path_conflicts
    <3>2. Resolved'
      BY <2>1, <3>1, ConflictsResolved
    <3>3. QED
      BY <3>1, <3>2 DEF BundleInv, BundleUnambiguous
  <2>2. CASE collect_provider_assets /\ \E i \in Of("remote") : Refused(i)
    <3>1. bphase = "resolved" /\ bphase' = "refused" /\ declared' = declared /\ Resolved
      BY <1>2, <2>2 DEF BundleInv, collect_provider_assets
    <3>2. PICK i \in Of("remote") : Refused(i)
      BY <2>2
    <3>3. \A j \in Of("local") : j \in Provider \ Of("remote")
      BY DEF Of
    <3>4. declared[i].path = Outside \/ owners_local(declared[i].path)
      BY <3>1, <3>2, <3>3 DEF Refused, Resolved, owners_local
    <3>5. (\E k \in Of("remote") : declared[k].path = Outside \/ owners_local(declared[k].path))'
      BY <3>1, <3>4 DEF Of, owners_local, Provider, Outside
    <3>6. QED
      BY <3>1, <3>5 DEF BundleInv, BundleUnambiguous
  <2>3. CASE collect_provider_assets /\ \A i \in Of("remote") : ~Refused(i)
    <3>1. bphase' = "collected"
      BY <2>3 DEF collect_provider_assets
    <3>2. QED
      BY <3>1, <2>3, CollectedRight DEF BundleInv, BundleUnambiguous
  <2>4. CASE UNCHANGED bundleVars
    BY <1>2, <2>4 DEF bundleVars, BundleInv, BundleUnambiguous, Resolved, Of, owners_local
  <2>5. QED
    BY <1>2, <2>1, <2>2, <2>3, <2>4 DEF BundleNext
<1>3. BundleInv => BundleUnambiguous
  BY DEF BundleInv
<1>4. QED
  BY <1>1, <1>2, <1>3, PTL DEF BundleSpec

(***************************************************************************)
(* Owner watch                                                             *)
(***************************************************************************)

\* The samples.
Samples == Unreadable \cup Status \cup {[kind |-> "notActive"]}

\* n samples that could not be read end h, and no more; so many whole runs of them
\* were tolerated, and u since.
Trailing(h, n, u) ==
  /\ \A i \in Len(h) - n + 1 .. Len(h) : h[i].kind = "unreadable"
  /\ n = Len(h) \/ h[Len(h) - n].kind = "status"
  /\ \E q \in Nat : n = q * SUSTAINED_SAMPLES + u

\* From the k-th sample on m status readings found the core gone, and the one
\* before them did not.
GoneSince(h, k, m) ==
  /\ Cardinality(StatusFrom(h, k)) = m
  /\ \A i \in StatusFrom(h, k) : Missing(h[i])
  /\ k = 1 \/ (h[k - 1].kind = "status" /\ ~Missing(h[k - 1]))

\* The two counters while the monitor goes on.
Counters ==
  /\ watch.unreadable < SUSTAINED_SAMPLES /\ watch.missing < SUSTAINED_SAMPLES
  /\ \E n \in 0 .. Len(history) : Trailing(history, n, watch.unreadable)
  /\ \E k \in 1 .. Len(history) + 1 : GoneSince(history, k, watch.missing)

\* The inductive invariant.
MonitorInv ==
  /\ history \in Seq(Samples)
  /\ watch = [unreadable |-> watch.unreadable, missing |-> watch.missing]
  /\ watch.unreadable \in Nat /\ watch.missing \in Nat
  /\ step = "continue" => Counters
  /\ RecoveryJustified

\* Products with a common factor keep their distance.
LEMMA FactorApart ==
  ASSUME NEW S \in Nat \ {0}, NEW a \in Int, NEW b \in Int, a >= b + 1
  PROVE  a * S >= b * S + S
PROOF
<1>1. a * S = b * S + S + (a - b - 1) * S
  OBVIOUS
<1>2. (a - b - 1) * S >= 0
  OBVIOUS
<1>3. a * S \in Int /\ b * S \in Int /\ (a - b - 1) * S \in Int
  OBVIOUS
<1>4. QED
  BY <1>1, <1>2, <1>3

\* A remainder is unique.
LEMMA Remainder ==
  ASSUME NEW S \in Nat \ {0}, NEW q \in Nat, NEW r \in Nat, r < S
  PROVE  (q * S + r) % S = r
PROOF
<1> DEFINE x == q * S + r  d == x \div S  m == x % S
<1>1. x \in Nat
  OBVIOUS
<1>2. d \in Int /\ m \in 0 .. (S - 1) /\ x = S * d + m
  BY <1>1
<1> HIDE DEF d, m
<1>3. ~(q >= d + 1)
  BY <1>2, FactorApart
<1>4. ~(d >= q + 1)
  BY <1>2, FactorApart
<1>5. QED
  BY <1>2, <1>3, <1>4 DEF m

\* The samples before the last stay what they were.
LEMMA Appended ==
  ASSUME NEW h \in Seq(Samples), NEW s \in Samples
  PROVE  /\ Append(h, s) \in Seq(Samples)
         /\ Len(Append(h, s)) = Len(h) + 1 /\ Len(h) \in Nat
         /\ Append(h, s)[Len(h) + 1] = s
         /\ \A i \in 1 .. Len(h) : Append(h, s)[i] = h[i]
PROOF
  OBVIOUS

\* The length of the run of unreadable samples at the end is unique.
LEMMA TrailingUnique ==
  ASSUME NEW h \in Seq(Samples), NEW n \in 0 .. Len(h), NEW m \in 0 .. Len(h),
         \A i \in Len(h) - n + 1 .. Len(h) : h[i].kind = "unreadable",
         n = Len(h) \/ h[Len(h) - n].kind = "status",
         \A i \in Len(h) - m + 1 .. Len(h) : h[i].kind = "unreadable",
         m = Len(h) \/ h[Len(h) - m].kind = "status"
  PROVE  n = m
PROOF
<1>1. Len(h) \in Nat
  OBVIOUS
<1>2. ~(n < m)
  BY <1>1
<1>3. ~(m < n)
  BY <1>1
<1>4. QED
  BY <1>1, <1>2, <1>3

\* One more status reading.
LEMMA StatusAppended ==
  ASSUME NEW h \in Seq(Samples), NEW s \in Samples, NEW k \in 1 .. Len(h) + 1
  PROVE  StatusFrom(Append(h, s), k) =
           IF s.kind = "status" THEN StatusFrom(h, k) \cup {Len(h) + 1} ELSE StatusFrom(h, k)
PROOF
<1> DEFINE g == Append(h, s)
<1>1. Len(g) = Len(h) + 1 /\ g[Len(h) + 1] = s /\ (\A i \in 1 .. Len(h) : g[i] = h[i]) /\ Len(h) \in Nat
  BY Appended
<1> HIDE DEF g
<1>2. StatusFrom(g, k) = {i \in k .. Len(h) + 1 : g[i].kind = "status"}
  BY <1>1 DEF StatusFrom
<1>3. QED
  BY <1>1, <1>2 DEF StatusFrom, g

\* The status readings are finitely many.
LEMMA StatusFinite ==
  ASSUME NEW h \in Seq(Samples), NEW k \in Nat
  PROVE  IsFiniteSet(StatusFrom(h, k)) /\ Cardinality(StatusFrom(h, k)) \in Nat
PROOF
<1>1. IsFiniteSet(k .. Len(h))
  BY FS_Interval, Len(h) \in Nat, Nat \subseteq Int
<1>2. IsFiniteSet(StatusFrom(h, k))
  BY <1>1, FS_Subset, StatusFrom(h, k) \subseteq k .. Len(h) DEF StatusFrom
<1>3. QED
  BY <1>2, FS_CardinalityType

\* An unreadable sample lengthens the run at the end of the history.
LEMMA Lengthened ==
  ASSUME NEW h \in Seq(Samples), NEW s \in Unreadable, NEW n \in 0 .. Len(h), NEW u \in Nat,
         u < SUSTAINED_SAMPLES, Trailing(h, n, u)
  PROVE  LET g == Append(h, s) IN
         /\ n + 1 \in 0 .. Len(g)
         /\ Trailing(g, n + 1, u + 1)
         /\ u + 1 = SUSTAINED_SAMPLES => Trailing(g, n + 1, 0)
         /\ ChannelGone(g) <=> u + 1 = SUSTAINED_SAMPLES /\ ~s.endpoint
PROOF
<1> DEFINE g == Append(h, s)
<1>1. s \in Samples /\ s.kind = "unreadable"
  BY DEF Samples, Unreadable
<1>2. /\ g \in Seq(Samples) /\ Len(g) = Len(h) + 1 /\ Len(h) \in Nat
      /\ g[Len(h) + 1] = s /\ \A i \in 1 .. Len(h) : g[i] = h[i]
  BY <1>1, Appended
<1> HIDE DEF g
<1>3. /\ \A i \in Len(g) - (n + 1) + 1 .. Len(g) : g[i].kind = "unreadable"
      /\ n + 1 = Len(g) \/ g[Len(g) - (n + 1)].kind = "status"
  <2>1. Len(g) - (n + 1) + 1 = Len(h) - n + 1 /\ Len(g) - (n + 1) = Len(h) - n
    BY <1>2
  <2>2. ASSUME NEW i \in Len(h) - n + 1 .. Len(h) + 1
        PROVE  g[i].kind = "unreadable"
    <3>1. CASE i = Len(h) + 1
      BY <1>1, <1>2, <3>1
    <3>2. CASE i # Len(h) + 1
      <4>1. i \in Len(h) - n + 1 .. Len(h) /\ i \in 1 .. Len(h)
        BY <1>2, <2>2, <3>2
      <4>2. QED
        BY <4>1, <1>2 DEF Trailing
    <3>3. QED
      BY <3>1, <3>2
  <2>3. ASSUME n # Len(h)
        PROVE  g[Len(h) - n].kind = "status"
    <3>1. Len(h) - n \in 1 .. Len(h)
      BY <1>2, <2>3
    <3>2. QED
      BY <3>1, <1>2, <2>3 DEF Trailing
  <2>4. QED
    BY <1>2, <2>1, <2>2, <2>3
<1>4. PICK q \in Nat : n = q * SUSTAINED_SAMPLES + u
  BY DEF Trailing
<1>5. n + 1 = q * SUSTAINED_SAMPLES + (u + 1) /\ n + 1 \in 0 .. Len(g)
  <2>1. q * SUSTAINED_SAMPLES \in Nat
    BY WatchAssumption
  <2>2. QED
    BY <1>2, <1>4, <2>1
<1>6. Trailing(g, n + 1, u + 1)
  BY <1>3, <1>5 DEF Trailing
<1>7. ASSUME u + 1 = SUSTAINED_SAMPLES
      PROVE  /\ Trailing(g, n + 1, 0)
             /\ (n + 1) % SUSTAINED_SAMPLES = 0 /\ n + 1 >= SUSTAINED_SAMPLES
  <2>1. n + 1 = (q + 1) * SUSTAINED_SAMPLES + 0 /\ q + 1 \in Nat
    BY <1>5, <1>7, WatchAssumption
  <2>2. (n + 1) % SUSTAINED_SAMPLES = 0
    <3>1. ((q + 1) * SUSTAINED_SAMPLES + 0) % SUSTAINED_SAMPLES = 0
      BY <2>1, Remainder, WatchAssumption
    <3>2. QED
      BY <2>1, <3>1
  <2>3. q * SUSTAINED_SAMPLES >= 0
    BY WatchAssumption
  <2>4. n + 1 >= SUSTAINED_SAMPLES
    BY <1>5, <1>7, <2>3, WatchAssumption
  <2>5. QED
    BY <1>3, <2>1, <2>2, <2>4 DEF Trailing
<1>8. ASSUME u + 1 # SUSTAINED_SAMPLES
      PROVE  (n + 1) % SUSTAINED_SAMPLES # 0
  <2>1. u + 1 < SUSTAINED_SAMPLES /\ u + 1 \in Nat
    BY <1>8, WatchAssumption
  <2>2. (n + 1) % SUSTAINED_SAMPLES = u + 1
    BY <1>5, <2>1, Remainder, WatchAssumption
  <2>3. QED
    BY <2>2
<1>9. ASSUME NEW m \in SUSTAINED_SAMPLES .. Len(g),
             \A i \in Len(g) - m + 1 .. Len(g) : g[i].kind = "unreadable",
             m = Len(g) \/ g[Len(g) - m].kind = "status"
      PROVE  m = n + 1
  <2>1. m \in 0 .. Len(g)
    BY <1>2, WatchAssumption
  <2>2. QED
    BY <1>2, <1>3, <1>5, <1>9, <2>1, TrailingUnique
<1>10. ChannelGone(g) => u + 1 = SUSTAINED_SAMPLES /\ ~s.endpoint
  <2> SUFFICES ASSUME ChannelGone(g)
               PROVE  u + 1 = SUSTAINED_SAMPLES /\ ~s.endpoint
    OBVIOUS
  <2>1. PICK m \in SUSTAINED_SAMPLES .. Len(g) :
          /\ \A i \in Len(g) - m + 1 .. Len(g) : g[i].kind = "unreadable"
          /\ m = Len(g) \/ g[Len(g) - m].kind = "status"
          /\ m % SUSTAINED_SAMPLES = 0 /\ ~g[Len(g)].endpoint
    BY DEF ChannelGone
  <2>2. m = n + 1
    BY <2>1, <1>9
  <2>3. u + 1 = SUSTAINED_SAMPLES
    BY <2>1, <2>2, <1>8
  <2>4. ~s.endpoint
    BY <2>1, <1>2
  <2>5. QED
    BY <2>3, <2>4
<1>11. u + 1 = SUSTAINED_SAMPLES /\ ~s.endpoint => ChannelGone(g)
  <2> SUFFICES ASSUME u + 1 = SUSTAINED_SAMPLES, ~s.endpoint
               PROVE  ChannelGone(g)
    OBVIOUS
  <2>1. n + 1 \in SUSTAINED_SAMPLES .. Len(g)
    BY <1>2, <1>5, <1>7, WatchAssumption
  <2>2. ~g[Len(g)].endpoint
    BY <1>2
  <2>3. QED
    BY <1>3, <1>7, <2>1, <2>2 DEF ChannelGone
<1>12. QED
  BY <1>5, <1>6, <1>7, <1>10, <1>11 DEF g

\* An unreadable sample says nothing of the core.
LEMMA GoneUnchanged ==
  ASSUME NEW h \in Seq(Samples), NEW s \in Unreadable, NEW k \in 1 .. Len(h) + 1, NEW m,
         GoneSince(h, k, m)
  PROVE  k \in 1 .. Len(Append(h, s)) + 1 /\ GoneSince(Append(h, s), k, m)
PROOF
<1> DEFINE g == Append(h, s)
<1>1. s \in Samples /\ s.kind = "unreadable"
  BY DEF Samples, Unreadable
<1>2. Len(g) = Len(h) + 1 /\ Len(h) \in Nat /\ \A i \in 1 .. Len(h) : g[i] = h[i]
  BY <1>1, Appended
<1>3. StatusFrom(g, k) = StatusFrom(h, k)
  BY <1>1, StatusAppended
<1> HIDE DEF g
<1>4. StatusFrom(h, k) \subseteq 1 .. Len(h)
  BY <1>2 DEF StatusFrom
<1>5. k = 1 \/ k - 1 \in 1 .. Len(h)
  BY <1>2
<1>6. QED
  BY <1>2, <1>3, <1>4, <1>5 DEF GoneSince, g

\* A status reading that finds the core gone counts ...
LEMMA GoneCounts ==
  ASSUME NEW h \in Seq(Samples), NEW s \in Status, NEW k \in 1 .. Len(h) + 1, NEW m \in Nat,
         GoneSince(h, k, m), Missing(s), m < SUSTAINED_SAMPLES
  PROVE  LET g == Append(h, s) IN
         /\ k \in 1 .. Len(g) + 1 /\ GoneSince(g, k, m + 1)
         /\ CoreGone(g) <=> m + 1 >= SUSTAINED_SAMPLES
PROOF
<1> DEFINE g == Append(h, s)
<1>1. s \in Samples /\ s.kind = "status"
  BY DEF Samples, Status
<1>2. /\ g \in Seq(Samples) /\ Len(g) = Len(h) + 1 /\ Len(h) \in Nat
      /\ g[Len(h) + 1] = s /\ \A i \in 1 .. Len(h) : g[i] = h[i]
  BY <1>1, Appended
<1>3. StatusFrom(g, k) = StatusFrom(h, k) \cup {Len(h) + 1}
  BY <1>1, StatusAppended
<1> HIDE DEF g
<1>4. StatusFrom(h, k) \subseteq 1 .. Len(h)
  BY <1>2 DEF StatusFrom
<1>5. Cardinality(StatusFrom(g, k)) = m + 1
  <2>1. IsFiniteSet(StatusFrom(h, k)) /\ Len(h) + 1 \notin StatusFrom(h, k)
    BY <1>2, <1>4, StatusFinite
  <2>2. QED
    BY <2>1, <1>3, FS_AddElement DEF GoneSince
<1>6. \A i \in StatusFrom(g, k) : Missing(g[i])
  BY <1>2, <1>3, <1>4 DEF GoneSince
<1>7. k = 1 \/ (g[k - 1].kind = "status" /\ ~Missing(g[k - 1]))
  <2>1. k = 1 \/ k - 1 \in 1 .. Len(h)
    BY <1>2
  <2>2. QED
    BY <1>2, <2>1 DEF GoneSince
<1>8. k \in 1 .. Len(g) + 1 /\ GoneSince(g, k, m + 1)
  BY <1>2, <1>5, <1>6, <1>7 DEF GoneSince
<1>9. ASSUME m + 1 >= SUSTAINED_SAMPLES
      PROVE  CoreGone(g)
  <2>1. m + 1 = SUSTAINED_SAMPLES
    BY <1>9, WatchAssumption
  <2>2. k \in 1 .. Len(g)
    BY <1>2
  <2>3. QED
    BY <1>5, <1>6, <2>1, <2>2 DEF CoreGone
<1>10. ASSUME CoreGone(g)
       PROVE  m + 1 >= SUSTAINED_SAMPLES
  <2>1. PICK j \in 1 .. Len(g) : /\ Cardinality(StatusFrom(g, j)) = SUSTAINED_SAMPLES
                                 /\ \A i \in StatusFrom(g, j) : Missing(g[i])
    BY <1>10 DEF CoreGone
  <2>2. ASSUME j < k
        PROVE  FALSE
    <3>1. k - 1 \in j .. Len(g) /\ k # 1
      BY <1>2, <2>2
    <3>2. k - 1 \in StatusFrom(g, j)
      BY <3>1, <1>7 DEF StatusFrom
    <3>3. QED
      BY <2>1, <3>1, <3>2, <1>7
  <2>3. StatusFrom(g, j) \subseteq StatusFrom(g, k)
    BY <1>2, <2>2 DEF StatusFrom
  <2>4. IsFiniteSet(StatusFrom(g, k))
    BY <1>2, StatusFinite
  <2>5. Cardinality(StatusFrom(g, j)) <= Cardinality(StatusFrom(g, k))
    BY <2>3, <2>4, FS_Subset
  <2>6. QED
    BY <1>5, <2>1, <2>5, WatchAssumption
<1>11. QED
  BY <1>8, <1>9, <1>10 DEF g

\* ... and one that does not starts over.
LEMMA GoneRestarts ==
  ASSUME NEW h \in Seq(Samples), NEW s \in Status, ~Missing(s)
  PROVE  LET g == Append(h, s) IN
         /\ Len(g) + 1 \in 1 .. Len(g) + 1 /\ GoneSince(g, Len(g) + 1, 0)
         /\ ~CoreGone(g)
PROOF
<1> DEFINE g == Append(h, s)
<1>1. s \in Samples /\ s.kind = "status"
  BY DEF Samples, Status
<1>2. Len(g) = Len(h) + 1 /\ Len(h) \in Nat /\ g[Len(h) + 1] = s
  BY <1>1, Appended
<1> HIDE DEF g
<1>3. StatusFrom(g, Len(g) + 1) = {}
  BY <1>2 DEF StatusFrom
<1>4. GoneSince(g, Len(g) + 1, 0)
  <2>1. g[Len(g) + 1 - 1] = s
    BY <1>2
  <2>2. Cardinality(StatusFrom(g, Len(g) + 1)) = 0
    BY <1>3, FS_EmptySet
  <2>3. QED
    BY <1>1, <1>3, <2>1, <2>2 DEF GoneSince
<1>5. ~CoreGone(g)
  <2>1. \A k \in 1 .. Len(g) : Len(g) \in StatusFrom(g, k)
    BY <1>1, <1>2 DEF StatusFrom
  <2>2. QED
    BY <1>2, <2>1 DEF CoreGone
<1>6. QED
  BY <1>2, <1>4, <1>5 DEF g

\* The readings of a sample that is none of the application's.
LEMMA SampleKinds ==
  ASSUME NEW s \in Unreadable \cup Status
  PROVE  /\ read_owner_sample(s) \in Samples
         /\ \/ read_owner_sample(s).kind = "notActive"
            \/ read_owner_sample(s).kind = "unreadable" /\ read_owner_sample(s) \in Unreadable
            \/ read_owner_sample(s).kind = "status" /\ read_owner_sample(s) \in Status
PROOF
<1>1. CASE s \in Unreadable
  BY <1>1 DEF read_owner_sample, Samples, Unreadable
<1>2. CASE s \in Status
  BY <1>2 DEF read_owner_sample, Samples, Status
<1>3. QED
  BY <1>1, <1>2

\* One turn of the monitor keeps the invariant.
LEMMA WatchKeeps ==
  ASSUME MonitorInv, start_owner_monitor
  PROVE  MonitorInv'
PROOF
<1>1. PICK x \in Unreadable \cup Status :
        observe_sample(read_owner_sample(x)) /\ history' = Append(history, read_owner_sample(x))
  BY DEF start_owner_monitor
<1> DEFINE s == read_owner_sample(x)
<1>2. /\ s \in Samples
      /\ \/ s.kind = "notActive"
         \/ s.kind = "unreadable" /\ s \in Unreadable
         \/ s.kind = "status" /\ s \in Status
  BY SampleKinds
<1>3. observe_sample(s) /\ history' = Append(history, s)
  BY <1>1
<1> HIDE DEF s
<1>4. /\ history \in Seq(Samples) /\ watch.unreadable \in Nat /\ watch.missing \in Nat /\ step = "continue" /\ Counters
      /\ watch = [unreadable |-> watch.unreadable, missing |-> watch.missing]
  BY DEF MonitorInv, start_owner_monitor
<1>5. /\ history' \in Seq(Samples) /\ Len(history') = Len(history) + 1 /\ Len(history) \in Nat
      /\ history'[Len(history')] = s
  BY <1>2, <1>3, <1>4, Appended
<1>6. history' # <<>>
  BY <1>5
<1>7. PICK n \in 0 .. Len(history) : Trailing(history, n, watch.unreadable)
  BY <1>4 DEF Counters
<1>8. PICK k \in 1 .. Len(history) + 1 : GoneSince(history, k, watch.missing)
  BY <1>4 DEF Counters
<1>9. watch.unreadable < SUSTAINED_SAMPLES /\ watch.missing < SUSTAINED_SAMPLES
  BY <1>4 DEF Counters
<1>10. CASE s.kind = "notActive"
  <2>1. watch' = watch /\ step' = "displaced"
    BY <1>3, <1>10 DEF observe_sample
  <2>2. RecoveryJustified'
    BY <1>5, <1>10, <2>1 DEF RecoveryJustified
  <2>3. QED
    BY <1>4, <1>5, <2>1, <2>2 DEF MonitorInv
<1>11. CASE s.kind = "unreadable" /\ s \in Unreadable
  <2>1. /\ n + 1 \in 0 .. Len(history')
        /\ Trailing(history', n + 1, watch.unreadable + 1)
        /\ watch.unreadable + 1 = SUSTAINED_SAMPLES => Trailing(history', n + 1, 0)
        /\ ChannelGone(history') <=> watch.unreadable + 1 = SUSTAINED_SAMPLES /\ ~s.endpoint
    BY <1>3, <1>4, <1>7, <1>9, <1>11, Lengthened
  <2>2. k \in 1 .. Len(history') + 1 /\ GoneSince(history', k, watch.missing)
    BY <1>3, <1>4, <1>8, <1>11, GoneUnchanged
  <2>3. s.endpoint \in BOOLEAN
    BY <1>11 DEF Unreadable
  <2>4. CASE watch.unreadable + 1 < SUSTAINED_SAMPLES
    <3>1. watch' = [watch EXCEPT !.unreadable = watch.unreadable + 1] /\ step' = "continue"
      BY <1>3, <1>11, <2>4 DEF observe_sample
    <3>2. /\ watch'.unreadable = watch.unreadable + 1 /\ watch'.missing = watch.missing
          /\ watch' = [unreadable |-> watch'.unreadable, missing |-> watch'.missing]
      BY <1>4, <3>1
    <3>3. ~ChannelGone(history')
      BY <2>1, <2>4, <1>4, WatchAssumption
    <3>4. RecoveryJustified'
      BY <1>5, <1>11, <3>1, <3>3 DEF RecoveryJustified, ChannelGone
    <3>5. Counters'
      BY <1>9, <2>1, <2>2, <2>4, <3>2 DEF Counters
    <3>6. QED
      BY <1>4, <1>5, <3>2, <3>4, <3>5 DEF MonitorInv
  <2>5. CASE ~(watch.unreadable + 1 < SUSTAINED_SAMPLES)
    <3>1. watch.unreadable + 1 = SUSTAINED_SAMPLES
      BY <1>4, <1>9, <2>5, WatchAssumption
    <3>2. /\ step' = resolve_transport(s.endpoint)
          /\ watch' = [watch EXCEPT !.unreadable = IF s.endpoint THEN 0 ELSE watch.unreadable + 1]
      BY <1>3, <1>11, <2>5 DEF observe_sample
    <3>3. /\ watch'.unreadable = (IF s.endpoint THEN 0 ELSE watch.unreadable + 1) /\ watch'.missing = watch.missing
          /\ watch' = [unreadable |-> watch'.unreadable, missing |-> watch'.missing]
      BY <1>4, <3>2
    <3>4. step' = IF ChannelGone(history') THEN "transportFailure" ELSE "continue"
      BY <2>1, <2>3, <3>1, <3>2 DEF resolve_transport
    <3>5. RecoveryJustified'
      BY <1>5, <1>11, <3>4 DEF RecoveryJustified, ChannelGone
    <3>6. ASSUME step' = "continue"
          PROVE  Counters'
      <4>1. watch'.unreadable = 0
        BY <2>3, <3>2, <3>3, <3>6 DEF resolve_transport
      <4>2. QED
        BY <1>9, <2>1, <2>2, <3>1, <3>3, <4>1, WatchAssumption DEF Counters
    <3>7. watch'.unreadable \in Nat /\ watch'.missing \in Nat
      BY <1>4, <2>3, <3>3
    <3>8. QED
      BY <1>5, <3>3, <3>5, <3>6, <3>7 DEF MonitorInv
  <2>6. QED
    BY <2>4, <2>5
<1>12. CASE s.kind = "status" /\ s \in Status
  <2> DEFINE m == IF Missing(s) THEN watch.missing + 1 ELSE 0
  <2>1. watch' = [unreadable |-> 0, missing |-> m] /\ step' = recovery_reason(s, m)
    BY <1>3, <1>12 DEF observe_sample
  <2>2. \E j \in 1 .. Len(history') + 1 : GoneSince(history', j, m)
    <3>1. CASE Missing(s)
      BY <1>3, <1>4, <1>8, <1>9, <1>12, <3>1, GoneCounts
    <3>2. CASE ~Missing(s)
      BY <1>3, <1>4, <1>12, <3>2, GoneRestarts
    <3>3. QED
      BY <3>1, <3>2
  <2>3. CoreGone(history') <=> Missing(s) /\ m >= SUSTAINED_SAMPLES
    <3>1. CASE Missing(s)
      BY <1>3, <1>4, <1>8, <1>9, <1>12, <3>1, GoneCounts
    <3>2. CASE ~Missing(s)
      BY <1>3, <1>4, <1>12, <3>2, GoneRestarts
    <3>3. QED
      BY <3>1, <3>2
  <2>4. m \in Nat
    BY <1>4
  <2> HIDE DEF m
  <2>5. watch'.unreadable = 0 /\ watch'.missing = m
    BY <2>1
  <2>6. step' = IF ~s.desired \/ s.state = "fatal" \/ CoreGone(history') THEN "sameOwnerFailure" ELSE "continue"
    BY <2>1, <2>3 DEF recovery_reason
  <2>7. RecoveryJustified'
    BY <1>5, <1>12, <2>6 DEF RecoveryJustified, CoreGone, StatusFrom, Missing, is_settling
  <2>8. 0 \in 0 .. Len(history') /\ Trailing(history', 0, 0)
    <3>1. 0 = 0 * SUSTAINED_SAMPLES + 0
      BY WatchAssumption
    <3>2. history'[Len(history') - 0].kind = "status"
      BY <1>5, <1>12
    <3>3. QED
      BY <1>5, <3>1, <3>2 DEF Trailing
  <2>9. ASSUME step' = "continue"
        PROVE  Counters'
    <3>1. m < SUSTAINED_SAMPLES
      BY <2>1, <2>4, <2>9, WatchAssumption DEF recovery_reason, m
    <3>2. QED
      BY <2>2, <2>5, <2>8, <3>1, WatchAssumption DEF Counters
  <2>10. watch' = [unreadable |-> watch'.unreadable, missing |-> watch'.missing]
    BY <2>1
  <2>11. QED
    BY <1>5, <2>4, <2>5, <2>7, <2>9, <2>10 DEF MonitorInv
<1>13. QED
  BY <1>2, <1>10, <1>11, <1>12

\* RecoveryJustified, however many samples are tolerated: what the two counters
\* decide is what the whole history of samples calls for.
THEOREM RecoveryCorrect == WatchSpec => []RecoveryJustified
PROOF
<1>1. WatchInit => MonitorInv
  <2> SUFFICES ASSUME WatchInit PROVE MonitorInv
    OBVIOUS
  <2>1. history = <<>> /\ watch = [unreadable |-> 0, missing |-> 0] /\ step = "continue"
    BY DEF WatchInit
  <2>2. Len(history) = 0 /\ history \in Seq(Samples) /\ watch.unreadable = 0 /\ watch.missing = 0
    BY <2>1
  <2>3. 0 = 0 * SUSTAINED_SAMPLES + 0
    BY WatchAssumption
  <2>4. Trailing(history, 0, 0)
    BY <2>2, <2>3 DEF Trailing
  <2>5. StatusFrom(history, 1) = {}
    BY <2>2 DEF StatusFrom
  <2>6. GoneSince(history, 1, 0)
    BY <2>5, FS_EmptySet DEF GoneSince
  <2>7. Counters
    BY <2>2, <2>4, <2>6, WatchAssumption DEF Counters
  <2>8. QED
    BY <2>1, <2>2, <2>7 DEF MonitorInv, RecoveryJustified
<1>2. ASSUME MonitorInv, [WatchNext]_watchVars
      PROVE  MonitorInv'
  <2>1. CASE UNCHANGED watchVars
    BY <1>2, <2>1 DEF watchVars, MonitorInv, Counters, RecoveryJustified
  <2>2. QED
    BY <1>2, <2>1, WatchKeeps DEF WatchNext
<1>3. MonitorInv => RecoveryJustified
  BY DEF MonitorInv
<1>4. QED
  BY <1>1, <1>2, <1>3, PTL DEF WatchSpec

(***************************************************************************)
(* Listener probe                                                          *)
(***************************************************************************)

\* The verdict has its type, and the probe has a world of its own.
ListenType ==
  /\ platform \in {"linux", "macos", "windows"} /\ sockets \subseteq Socket /\ network \in Network
  /\ candidate \in Listeners /\ current \in Listeners \cup {NoListener}
  /\ verdict \in [outcome : {"none", "Available", "Conflict"} \cup Unclear, of : SUBSET Transports]

\* A claim is for an address of the host, a transport and a port.
LEMMA ClaimIsOne ==
  ASSUME ListenType, NEW c \in proxy_claims(candidate)
  PROVE  c.address \in Addresses /\ c.transport \in Transports
<1>1. c \in [name: PROXY_LISTENERS, address: proxy_bind_addresses(candidate), port: ListenPorts,
             transport: Transports]
  BY DEF proxy_claims
<1>2. candidate.lan \in {"no", "*"} \cup Addresses
  BY DEF ListenType, Listeners
<1>3. proxy_bind_addresses(candidate) \subseteq Addresses
  BY <1>2 DEF proxy_bind_addresses, Addresses, V4
<1> QED
  BY <1>1, <1>3

\* The addresses the interfaces list are concrete, and so are their guards.
LEMMA GuardsAreConcrete ==
  ASSUME ListenType, NEW a \in Wild, NEW g \in guard_addresses(a)
  PROVE  g \in Family(a) /\ g \notin Wild
<1>1. network.listed \subseteq V4Hosts \cup V6Hosts
  BY DEF ListenType, Network
<1>2. (V4Hosts \cup V6Hosts) \cap {"0.0.0.0", "::", "127.0.0.1", "::1"} = {}
  BY ListenAssumption
<1>3. CASE g = Loopback(a)
  BY <1>2, <1>3 DEF Loopback, Family, Addresses, V4, Wild
<1>4. CASE g \in (network.listed \ LinkLocal) \cap Family(a)
  BY <1>1, <1>2, <1>4 DEF Wild
<1> QED
  BY <1>3, <1>4 DEF guard_addresses

\* Whoever lives at a concrete address, or at the wildcard of its family,
\* answers there.
LEMMA LivesAnswers ==
  ASSUME NEW a \in Addresses, NEW port, NEW s \in Foreign("tcp", port), s.state = "live",
         s.address \in Addresses, a \notin Wild, Meet(s.address, a)
  PROVE  ~nothing_is_serving(a, "tcp", port)
<1>1. s.address = a \/ s.address \in Wild
  BY DEF Meet
<1>2. (V4Hosts \cup V6Hosts) \cap {"0.0.0.0", "::", "127.0.0.1", "::1"} = {}
  BY ListenAssumption
<1>3. s.address \in Wild => s.address = Unspecified(a)
  BY <1>2 DEF Meet, Family, Wild, Unspecified, V4, Addresses
<1>4. answers(a, port)
  BY <1>1, <1>3 DEF answers
<1> QED
  BY <1>4 DEF nothing_is_serving

\* A live socket of another process that overlaps a claim refuses it, unless it
\* is overlooked: by the bind itself, by a guard macOS holds meanwhile, or by
\* the look at the list of listeners on Windows.
LEMMA TakenIsRefused ==
  ASSUME ListenType, NEW c, c.address \in Addresses, c.transport \in Transports,
         NEW s \in Foreign(c.transport, c.port), s.state = "live", Meet(s.address, c.address),
         ~Overlooked(s, c)
  PROVE  \/ bind_claim(c) = "failed"
         \/ bind_claim(c) = "conflict" /\ ~nothing_is_serving(c.address, c.transport, c.port)
<1> DEFINE tried == IF platform = "macos" /\ c.transport = "tcp" THEN guard_addresses(c.address) ELSE {}
           held  == {g \in tried : bind_socket(g, c.transport, c.port) = "conflict"}
<1>1. s \in sockets /\ s \in Socket /\ s.port = c.port /\ s.transport = c.transport /\ s.address \in Addresses
  BY DEF Foreign, ListenType, Socket
<1>2. (V4Hosts \cup V6Hosts) \cap {"0.0.0.0", "::", "127.0.0.1", "::1"} = {}
  BY ListenAssumption
<1>3. ~nothing_is_serving(c.address, c.transport, c.port)
  <2>1. CASE c.transport = "tcp" /\ c.address \notin Wild
    BY <2>1, <1>1, LivesAnswers
  <2> QED
    BY <2>1 DEF nothing_is_serving
<1>4. bind_claim(c) = CASE \E g \in held : ~nothing_is_serving(g, c.transport, c.port) -> "conflict"
                        [] held # {} /\ \A g \in held : nothing_is_serving(g, c.transport, c.port) -> "bound"
                        [] held = {} ->
                             IF /\ bind_socket(c.address, c.transport, c.port) = "bound"
                                /\ windows_wildcard_tcp_listener_exists(c)
                             THEN "conflict" ELSE bind_socket(c.address, c.transport, c.port)
  BY DEF bind_claim
<1>5. platform \in {"linux", "macos", "windows"} /\ c.transport \in {"tcp", "udp"}
  BY DEF ListenType, Transports
<1>6. ASSUME s.address = c.address
      PROVE  bind_socket(c.address, c.transport, c.port) \in {"failed", "conflict"}
  <2>1. bind_refused(c.address, c.transport, c.port)
    BY <1>6 DEF bind_refused, Refuses
  <2> QED
    BY <2>1 DEF bind_socket
<1>7. CASE platform = "macos" /\ c.transport = "tcp"
  <2>1. CASE s.address # c.address
    <3>1. s.address \in guard_addresses(c.address) /\ s.address \notin network.failing
      BY <1>7, <2>1 DEF Overlooked
    <3>2. bind_refused(s.address, c.transport, c.port)
      BY DEF bind_refused, Refuses
    <3>3. s.address \in held
      BY <3>1, <3>2, <1>7 DEF bind_socket
    <3>4. ~nothing_is_serving(s.address, c.transport, c.port)
      <4>1. CASE s.address \in Wild
        BY <4>1 DEF nothing_is_serving
      <4>2. CASE s.address \notin Wild
        <5>1. Meet(s.address, s.address)
          BY <1>1 DEF Meet, Family
        <5> QED
          BY <4>2, <5>1, <1>1, <1>7, LivesAnswers
      <4> QED
        BY <4>1, <4>2
    <3> HIDE DEF held
    <3> QED
      BY <3>3, <3>4, <1>3, <1>4
  <2>2. CASE s.address = c.address
    \* A wildcard guard never counts as free; a specific one meets a live wildcard.
    <3>1. ASSUME NEW g \in held PROVE ~nothing_is_serving(g, c.transport, c.port)
      <4>1. g \in guard_addresses(c.address)
        BY <1>7
      <4>2. CASE c.address \in Wild
        <5>1. g \in Family(c.address) /\ g \notin Wild
          BY <4>1, <4>2, GuardsAreConcrete
        <5>2. Meet(s.address, g) /\ g \in Addresses
          BY <5>1, <4>2, <2>2 DEF Meet, Family
        <5> QED
          BY <5>1, <5>2, <1>1, <1>7, LivesAnswers
      <4>3. CASE c.address \notin Wild
        <5>1. g \in Wild
          BY <4>1, <4>3 DEF guard_addresses, Unspecified, Wild
        <5> QED
          BY <5>1 DEF nothing_is_serving
      <4> QED
        BY <4>2, <4>3
    <3> HIDE DEF held
    <3>2. CASE held = {}
      BY <3>2, <2>2, <1>3, <1>4, <1>6
    <3>3. CASE held # {}
      BY <3>1, <3>3, <1>3, <1>4
    <3> QED
      BY <3>2, <3>3
  <2> QED
    BY <2>1, <2>2
<1>8. CASE ~(platform = "macos" /\ c.transport = "tcp")
  <2>1. held = {}
    BY <1>8
  <2> HIDE DEF held
  <2>2. CASE platform = "windows" /\ c.transport = "tcp" /\ c.address \notin Wild /\ s.address # c.address
    <3>1. s.address = Unspecified(c.address)
      BY <2>2, <1>1, <1>2 DEF Meet, Family, Wild, Unspecified, V4, Addresses
    <3>2. windows_wildcard_tcp_listener_exists(c)
      BY <2>2, <3>1 DEF windows_wildcard_tcp_listener_exists
    <3>3. bind_socket(c.address, c.transport, c.port) \in {"failed", "conflict", "bound"}
      BY DEF bind_socket
    <3> QED
      BY <2>1, <3>2, <3>3, <1>3, <1>4
  <2>3. CASE ~(platform = "windows" /\ c.transport = "tcp" /\ c.address \notin Wild /\ s.address # c.address)
    <3>1. Refuses(s, c.address)
      BY <2>3, <1>1, <1>5, <1>8 DEF Refuses, Overlooked, Transports
    <3>2. bind_refused(c.address, c.transport, c.port)
      BY <3>1 DEF bind_refused
    <3>3. bind_socket(c.address, c.transport, c.port) \in {"failed", "conflict"}
      BY <3>2 DEF bind_socket
    <3> QED
      BY <2>1, <3>3, <1>3, <1>4
  <2> QED
    BY <2>2, <2>3
<1> QED
  BY <1>7, <1>8

\* So claims that count as free have no live socket in their way, but for one
\* the probe overlooks.
LEMMA FreeIsFree ==
  ASSUME ListenType, NEW claims \in SUBSET proxy_claims(candidate), probe_claims(claims) = "Available",
         NEW c \in claims, NEW s \in Foreign(c.transport, c.port), s.state = "live", Meet(s.address, c.address)
  PROVE  Overlooked(s, c)
<1>1. c.address \in Addresses /\ c.transport \in Transports
  BY ClaimIsOne
<1>2. ~(bind_claim(c) = "conflict" /\ ~nothing_is_serving(c.address, c.transport, c.port))
  BY DEF probe_claims
<1>3. bind_claim(c) # "failed"
  BY DEF probe_claims
<1> QED
  BY <1>1, <1>2, <1>3, TakenIsRefused

\* The inductive invariant, at the start.
LEMMA ListenStart == ListenInit => ListenType /\ ProbeSound
<1> SUFFICES ASSUME ListenInit PROVE ListenType /\ ProbeSound
  OBVIOUS
<1>1. verdict \in [outcome : {"none", "Available", "Conflict"} \cup Unclear, of : SUBSET Transports]
  BY DEF ListenInit
<1>2. verdict.outcome = "none"
  BY DEF ListenInit
<1>3. ListenType
  BY <1>1, ListenAssumption DEF ListenInit, ListenType
<1> QED
  BY <1>2, <1>3 DEF ProbeSound

\* A port change that is tried.
LEMMA ListenChange == ListenType /\ ProbeSound /\ probe_proxy_port_change => ListenType' /\ ProbeSound'
<1> SUFFICES ASSUME ListenType, ProbeSound, probe_proxy_port_change PROVE ListenType' /\ ProbeSound'
  OBVIOUS
<1> DEFINE claims == {c \in proxy_claims(candidate) :
                        \A d \in proxy_claims(current) : ~claims_overlap(d, c)}
<1>1. PICK outcome \in IF internal_conflict(proxy_claims(candidate)) THEN {"Conflict"}
                       ELSE {probe_claims(claims)} \cup Unclear :
        verdict' = [verdict EXCEPT !.outcome = outcome]
  BY DEF probe_proxy_port_change
<1>2. UNCHANGED <<platform, sockets, network, current, candidate>>
  BY DEF probe_proxy_port_change
<1>3. outcome \in {"none", "Available", "Conflict"} \cup Unclear
  BY <1>1 DEF probe_claims, Unclear
<1>4. verdict' \in [outcome : {"none", "Available", "Conflict"} \cup Unclear, of : SUBSET Transports]
        /\ verdict'.outcome = outcome /\ verdict'.of = verdict.of
  BY <1>1, <1>3 DEF ListenType
<1>5. ListenType'
  BY <1>2, <1>4 DEF ListenType
<1>6. ASSUME outcome = "Available"
      PROVE  ~internal_conflict(proxy_claims(candidate)) /\ probe_claims(claims) = "Available"
  BY <1>1, <1>6 DEF Unclear
<1>7. ASSUME outcome = "Available", NEW c \in proxy_claims(candidate),
             ~\E d \in proxy_claims(current) : claims_overlap(d, c),
             NEW s \in Foreign(c.transport, c.port), s.state = "live", Meet(s.address, c.address)
      PROVE  Overlooked(s, c)
  <2>1. c \in claims /\ claims \in SUBSET proxy_claims(candidate)
    BY <1>7
  <2> HIDE DEF claims
  <2> QED
    BY <1>6, <1>7, <2>1, FreeIsFree
<1>8. proxy_claims(candidate)' = proxy_claims(candidate) /\ proxy_claims(current)' = proxy_claims(current)
  BY <1>2 DEF proxy_claims, proxy_bind_addresses, PROXY_LISTENERS
<1>9. \A t, p : Foreign(t, p)' = Foreign(t, p)
  BY <1>2 DEF Foreign
<1> HIDE DEF claims
<1>10. internal_conflict(proxy_claims(candidate))' = internal_conflict(proxy_claims(candidate))
  BY <1>8 DEF internal_conflict
<1>11. \A s, c : Overlooked(s, c)' = Overlooked(s, c)
  BY <1>2 DEF Overlooked, guard_addresses
<1> QED
  BY <1>4, <1>5, <1>6, <1>7, <1>8, <1>9, <1>10, <1>11 DEF ProbeSound

\* One listener that is tried, without a running core to make room for it.
LEMMA ListenOne == ListenType /\ ProbeSound /\ probe_listener => ListenType' /\ ProbeSound'
<1> SUFFICES ASSUME ListenType, ProbeSound, probe_listener PROVE ListenType' /\ ProbeSound'
  OBVIOUS
<1>1. PICK ts \in {{"tcp"}, {"udp"}, Transports} :
        \E outcome \in {probe_claims({c \in proxy_claims(candidate) : c.transport \in ts})} \cup Unclear :
          verdict' = [of |-> ts, outcome |-> outcome]
  BY DEF probe_listener
<1> DEFINE claims == {c \in proxy_claims(candidate) : c.transport \in ts}
<1>2. PICK outcome \in {probe_claims(claims)} \cup Unclear : verdict' = [of |-> ts, outcome |-> outcome]
  BY <1>1
<1>3. UNCHANGED <<platform, sockets, network, current, candidate>> 
        /\ \A n \in PROXY_LISTENERS \ {"mixed"} : candidate[n] = 0
  BY DEF probe_listener
<1>4. outcome \in {"none", "Available", "Conflict"} \cup Unclear /\ ts \in SUBSET Transports
  BY <1>2 DEF probe_claims, Transports, Unclear
<1>5. verdict' \in [outcome : {"none", "Available", "Conflict"} \cup Unclear, of : SUBSET Transports]
        /\ verdict'.outcome = outcome /\ verdict'.of = ts
  BY <1>2, <1>4
<1>6. ListenType'
  BY <1>3, <1>5 DEF ListenType
<1>7. ~internal_conflict(proxy_claims(candidate))
  \* There is one listener only.
  <2>1. ASSUME NEW c \in proxy_claims(candidate) PROVE c.name = "mixed"
    <3>1. c.name \in PROXY_LISTENERS /\ c.port \in ListenPorts /\ c.port = candidate[c.name]
      BY DEF proxy_claims
    <3> QED
      BY <3>1, <1>3, ListenAssumption
  <2> QED
    BY <2>1 DEF internal_conflict
<1>8. ASSUME outcome = "Available", NEW c \in proxy_claims(candidate), c.transport \in ts,
             NEW s \in Foreign(c.transport, c.port), s.state = "live", Meet(s.address, c.address)
      PROVE  Overlooked(s, c)
  <2>1. c \in claims /\ claims \in SUBSET proxy_claims(candidate) /\ probe_claims(claims) = "Available"
    BY <1>2, <1>8 DEF Unclear
  <2> HIDE DEF claims
  <2> QED
    BY <1>8, <2>1, FreeIsFree
<1>9. proxy_claims(candidate)' = proxy_claims(candidate) /\ proxy_claims(current)' = proxy_claims(current)
  BY <1>3 DEF proxy_claims, proxy_bind_addresses, PROXY_LISTENERS
<1>10. \A t, p : Foreign(t, p)' = Foreign(t, p)
  BY <1>3 DEF Foreign
<1>11. internal_conflict(proxy_claims(candidate))' = internal_conflict(proxy_claims(candidate))
  BY <1>9 DEF internal_conflict
<1>12. \A s, c : Overlooked(s, c)' = Overlooked(s, c)
  BY <1>3 DEF Overlooked, guard_addresses
<1> QED
  BY <1>5, <1>6, <1>7, <1>8, <1>9, <1>10, <1>11, <1>12 DEF ProbeSound

\* A port said to be available is, but for the sockets the probe overlooks, in
\* every world of foreign sockets (live and lingering, wildcard and specific),
\* for every running and every candidate configuration, on every platform,
\* whatever addresses the host has, lists and can bind.
THEOREM AvailableIsAvailable == ListenSpec => []ProbeSound
<1>1. ListenType /\ ProbeSound /\ [ListenNext]_listenVars => ListenType' /\ ProbeSound'
  <2> SUFFICES ASSUME ListenType, ProbeSound, [ListenNext]_listenVars PROVE ListenType' /\ ProbeSound'
    OBVIOUS
  <2>1. CASE ListenNext
    BY <2>1, ListenChange, ListenOne DEF ListenNext
  <2>2. CASE UNCHANGED listenVars
    <3>1. UNCHANGED <<platform, sockets, network, current, candidate, verdict>>
      BY <2>2 DEF listenVars
    <3>2. proxy_claims(candidate)' = proxy_claims(candidate) /\ proxy_claims(current)' = proxy_claims(current)
      BY <3>1 DEF proxy_claims, proxy_bind_addresses, PROXY_LISTENERS
    <3>3. \A t, p : Foreign(t, p)' = Foreign(t, p)
      BY <3>1 DEF Foreign
    <3>4. internal_conflict(proxy_claims(candidate))' = internal_conflict(proxy_claims(candidate))
      BY <3>2 DEF internal_conflict
    <3>5. \A s, c : Overlooked(s, c)' = Overlooked(s, c)
      BY <3>1 DEF Overlooked, guard_addresses
    <3> QED
      BY <3>1, <3>2, <3>3, <3>4, <3>5 DEF ListenType, ProbeSound
  <2> QED
    BY <2>1, <2>2
<1> QED
  BY <1>1, ListenStart, PTL DEF ListenSpec

=============================================================================
