--------------------------- MODULE RunStateProofs ---------------------------
(***************************************************************************)
(* Proofs that the Run State store keeps its promises for every number of  *)
(* operations, startup readings and settled() callers, and every bound.    *)
(***************************************************************************)
EXTENDS RunState, TLAPS

\* The steps of one task or of the session, as one disjunction to split on.
LEMMA NextSplit ==
    ASSUME Next
    PROVE  \/ SessionStep
           \/ \E t \in Ops, job \in Action \cup {Refresh} : Begin(t, job)
           \/ \E t \in Ops : Request(t) \/ PerformOk(t) \/ PerformFails(t)
           \/ \E t \in Ops, h \in Health \ {"Unknown"} : PerformDetected(t, h)
           \/ \E t \in Ops, h \in ReplyHealth : AwaitIpc(t, h) \/ RefreshReply(t, h)
           \/ \E t \in Ops : Restore(t) \/ RefreshSilent(t) \/ DropSlot(t) \/ NotifyWaiters(t)
           \/ \E p \in Probers : ProbeReserve(p)
           \/ \E p \in Probers, h \in Health \ {"Unknown"} : ProbeDetected(p, h)
           \/ \E r \in Readers : Settled(r)
  BY DEF Next, OpStep, ProbeStep

-----------------------------------------------------------------------------
(* Type correctness.                                                       *)

USE DEF None, Refresh

\* Before anything was observed, every variable is in its type.
LEMMA TypeInit == Init => TypeOK
<1> SUFFICES ASSUME Init PROVE TypeOK
  OBVIOUS
<1>1. svc \in StoredService
  BY DEF Init, StoredService, Observed, Health
<1>2. op \in [Ops -> Operation]
  BY DEF Init, IdleOp, Operation, OpPc
<1>3. reader \in [Readers -> SettledCall]
  <2>1. [pc |-> "start", notified |-> FALSE, visible |-> None] \in SettledCall
    BY DEF SettledCall
  <2> QED BY <2>1 DEF Init
<1>4. rsv \in [Ops \cup Probers -> Nat] /\ probe \in [Probers -> {"start", "detect", "done"}]
  BY DEF Init
<1> QED BY <1>1, <1>2, <1>3, <1>4 DEF Init, TypeOK

\* Recording a well-typed service value keeps the store well typed.
LEMMA RecordType ==
    ASSUME TypeOK, NEW s \in StoredService, Record(s)
    PROVE  svc' \in StoredService /\ obs' \in Nat /\ overtaken' \subseteq (Ops \cup Probers)
  BY DEF TypeOK, Record, Tick, Supersede, InFlight

\* What the observations and requests make of a stored service is one.
LEMMA ValueTypes ==
    ASSUME TypeOK
    PROVE  /\ \A h \in Health : Observed(h) \in StoredService
           /\ \A a \in Action : Requested(svc, a) \in StoredService
           /\ AllowSidecar(svc) \in StoredService
           /\ AllowSidecar([svc EXCEPT !.health = "Unavailable"]) \in StoredService
           /\ [svc EXCEPT !.allowed = FALSE] \in StoredService
           /\ ReplyHealth \subseteq Health
  BY DEF TypeOK, StoredService, Observed, Requested, AllowSidecar, Health, ReplyHealth

\* What each way of moving the fields does to the request and the allowance.
LEMMA ValueFields ==
    ASSUME TypeOK
    PROVE  /\ \A h : Observed(h).pending = None /\ Observed(h).allowed = FALSE
           /\ \A a : Requested(svc, a).pending = a /\ Requested(svc, a).allowed = FALSE
           /\ AllowSidecar(svc).pending = None
           /\ AllowSidecar([svc EXCEPT !.health = "Unavailable"]).pending = None
           /\ [svc EXCEPT !.allowed = FALSE].pending = svc.pending
           /\ [svc EXCEPT !.allowed = FALSE].allowed = FALSE
  BY DEF TypeOK, StoredService, Observed, Requested, AllowSidecar

\* Every step keeps the types.
LEMMA TypeNext == TypeOK /\ [Next]_vars => TypeOK'
<1> SUFFICES ASSUME TypeOK, [Next]_vars PROVE TypeOK'
  OBVIOUS
<1>1. CASE UNCHANGED vars
  BY <1>1 DEF vars, TypeOK
<1>2. CASE SessionStep
  <2>1. svc' \in StoredService /\ obs' \in Nat /\ overtaken' \subseteq (Ops \cup Probers)
    BY <1>2, RecordType, ValueTypes, ActionAssumption
       DEF SessionStep, observe, accept_sidecar, withdraw_sidecar_allowance,
           allow_sidecar_for_session, allow_sidecar_after_service_refusal,
           require_install_for_session, TypeOK, Health
  <2> QED BY <1>2, <2>1 DEF SessionStep, TypeOK
<1>3. ASSUME NEW t \in Ops, NEW job \in Action \cup {Refresh}, Begin(t, job) PROVE TypeOK'
  <2>1. svc' \in StoredService /\ obs' \in Nat /\ overtaken' \subseteq (Ops \cup Probers)
    BY <1>3, RecordType DEF Begin, TypeOK
  <2>2. op' \in [Ops -> Operation]
    BY <1>3 DEF Begin, TypeOK, Operation, OpPc
  <2> QED BY <1>3, <2>1, <2>2 DEF Begin, TypeOK
<1>4. ASSUME NEW t \in Ops, Request(t) PROVE TypeOK'
  <2>1. svc' \in StoredService /\ obs' \in Nat /\ overtaken' \subseteq (Ops \cup Probers)
    BY <1>4, RecordType, ValueTypes DEF Request, request_action, TypeOK
  <2>2. op' \in [Ops -> Operation]
    BY <1>4 DEF Request, TypeOK, Operation, OpPc, StoredService
  <2> QED BY <1>4, <2>1, <2>2 DEF Request, TypeOK
<1>5. ASSUME NEW t \in Ops, PerformOk(t) PROVE TypeOK'
  <2>1. svc' \in StoredService /\ obs' \in Nat /\ overtaken' \subseteq (Ops \cup Probers)
    BY <1>5, RecordType, ValueTypes DEF PerformOk, observe, TypeOK, Health
  <2>2. op' \in [Ops -> Operation]
    BY <1>5 DEF PerformOk, GoTo, TypeOK, Operation, OpPc
  <2> QED BY <1>5, <2>1, <2>2 DEF PerformOk, TypeOK
<1>6. ASSUME NEW t \in Ops, PerformFails(t) PROVE TypeOK'
  BY <1>6 DEF PerformFails, reserve_health_observation, Tick, InFlight, GoTo, TypeOK, Operation, OpPc
<1>7. ASSUME NEW t \in Ops, NEW h \in Health, PerformDetected(t, h) PROVE TypeOK'
  BY <1>7, ValueTypes DEF PerformDetected, commit_reserved_observation, GoTo, TypeOK, Operation, OpPc
<1>8. ASSUME NEW t \in Ops, NEW h \in ReplyHealth, AwaitIpc(t, h) \/ RefreshReply(t, h)
      PROVE  TypeOK'
  <2>1. svc' \in StoredService /\ obs' \in Nat /\ overtaken' \subseteq (Ops \cup Probers)
    BY <1>8, RecordType, ValueTypes DEF AwaitIpc, RefreshReply, observe, TypeOK
  <2>2. op' \in [Ops -> Operation]
    BY <1>8 DEF AwaitIpc, RefreshReply, GoTo, TypeOK, Operation, OpPc
  <2> QED BY <1>8, <2>1, <2>2 DEF AwaitIpc, RefreshReply, TypeOK
<1>9. ASSUME NEW t \in Ops, Restore(t) PROVE TypeOK'
  <2>1. svc' \in StoredService /\ obs' \in Nat /\ overtaken' \subseteq (Ops \cup Probers)
    BY <1>9, RecordType, ValueTypes DEF Restore, restore_sidecar_allowance, TypeOK
  <2>2. op' \in [Ops -> Operation]
    BY <1>9 DEF Restore, GoTo, TypeOK, Operation, OpPc
  <2> QED BY <1>9, <2>1, <2>2 DEF Restore, TypeOK
<1>10. ASSUME NEW t \in Ops, RefreshSilent(t) \/ DropSlot(t) PROVE TypeOK'
  BY <1>10 DEF RefreshSilent, DropSlot, GoTo, TypeOK, Operation, OpPc
<1>11. ASSUME NEW t \in Ops, NotifyWaiters(t) PROVE TypeOK'
  BY <1>11 DEF NotifyWaiters, IdleOp, TypeOK, Operation, OpPc, SettledCall
<1>12. ASSUME NEW p \in Probers, ProbeReserve(p) PROVE TypeOK'
  BY <1>12 DEF ProbeReserve, reserve_health_observation, Tick, InFlight, TypeOK
<1>13. ASSUME NEW p \in Probers, NEW h \in Health, ProbeDetected(p, h) PROVE TypeOK'
  BY <1>13, ValueTypes DEF ProbeDetected, commit_reserved_observation, TypeOK
<1>14. ASSUME NEW r \in Readers, Settled(r) PROVE TypeOK'
  BY <1>14 DEF Settled, Register, ReadService, ReadSlot, Await, Woken, TypeOK, SettledCall, Registered,
     StoredService
<1> QED
  BY <1>1, <1>2, <1>3, <1>4, <1>5, <1>6, <1>7, <1>8, <1>9, <1>10, <1>11, <1>12, <1>13, <1>14,
     NextSplit

\* Every value the store and its tasks hold is one the code can represent.
THEOREM TypeCorrect == Spec => []TypeOK
  BY TypeInit, TypeNext, PTL DEF Spec

-----------------------------------------------------------------------------
(* The slot admits one operation at a time.                                *)

\* Between begin_operation and the guard's drop an operation only moves its
\* program counter, and leaves the slot alone.
LEMMA HoldingKept ==
    ASSUME TypeOK, NEW t \in Ops,
           \/ Request(t) \/ PerformOk(t) \/ PerformFails(t) \/ Restore(t) \/ RefreshSilent(t)
           \/ \E h \in Health : PerformDetected(t, h) \/ AwaitIpc(t, h) \/ RefreshReply(t, h)
    PROVE  Holding' = Holding /\ running' = running
  BY DEF TypeOK, Holding, Operation, OpPc, Request, PerformOk, PerformFails, Restore, RefreshSilent,
         PerformDetected, AwaitIpc, RefreshReply, GoTo

\* Every step keeps the slot to one operation.
LEMMA SlotNext == TypeOK /\ OneOperation /\ [Next]_vars => OneOperation'
<1> SUFFICES ASSUME TypeOK, OneOperation, [Next]_vars PROVE OneOperation'
  OBVIOUS
<1>1. CASE UNCHANGED vars
  BY <1>1 DEF vars, OneOperation, Holding
<1>2. CASE SessionStep
  BY <1>2 DEF SessionStep, OneOperation, Holding
<1>3. ASSUME NEW t \in Ops, NEW job \in Action \cup {Refresh}, Begin(t, job) PROVE OneOperation'
  <2>1. Holding' = {t} /\ running'
    BY <1>3 DEF Begin, OneOperation, Holding, TypeOK, Operation, OpPc
  <2> QED BY <2>1 DEF OneOperation
<1>4. ASSUME NEW t \in Ops,
             \/ Request(t) \/ PerformOk(t) \/ PerformFails(t) \/ Restore(t) \/ RefreshSilent(t)
             \/ \E h \in Health : PerformDetected(t, h) \/ AwaitIpc(t, h) \/ RefreshReply(t, h)
      PROVE  OneOperation'
  BY <1>4, HoldingKept DEF OneOperation
<1>5. ASSUME NEW t \in Ops, DropSlot(t) PROVE OneOperation'
  <2>1. Holding' = {} /\ ~running'
    BY <1>5 DEF DropSlot, GoTo, OneOperation, Holding, TypeOK, Operation, OpPc
  <2> QED BY <2>1 DEF OneOperation
<1>6. ASSUME NEW t \in Ops, NotifyWaiters(t) PROVE OneOperation'
  <2>1. Holding' = Holding /\ running' = running
    BY <1>6 DEF NotifyWaiters, IdleOp, Holding, TypeOK, Operation, OpPc
  <2> QED BY <2>1 DEF OneOperation
<1>7. ASSUME NEW p \in Probers, ProbeReserve(p) \/ \E h \in Health : ProbeDetected(p, h)
      PROVE  OneOperation'
  BY <1>7 DEF ProbeReserve, ProbeDetected, OneOperation, Holding
<1>8. ASSUME NEW r \in Readers, Settled(r) PROVE OneOperation'
  BY <1>8 DEF Settled, OneOperation, Holding
<1>9. ReplyHealth \subseteq Health
  BY DEF ReplyHealth, Health
<1> QED BY <1>1, <1>2, <1>3, <1>4, <1>5, <1>6, <1>7, <1>8, <1>9, NextSplit

\* `operation_running` and the operations agree, and at most one is in flight,
\* however many tasks call begin_operation.
THEOREM SlotCorrect == Spec => []OneOperation
<1>1. Init => OneOperation
  BY DEF Init, OneOperation, Holding, IdleOp
<1> QED BY <1>1, SlotNext, TypeCorrect, PTL DEF Spec

-----------------------------------------------------------------------------
(* A request and a Sidecar allowance exclude each other.                   *)

\* What a session decision or a reply can leave in the store.
LEMMA SessionValues ==
    ASSUME TypeOK, SessionStep
    PROVE  \/ svc'.pending = None
           \/ svc'.allowed = FALSE /\ svc'.pending = svc.pending /\ svc.allowed
           \/ svc'.allowed = FALSE /\ ~running
           \/ svc' = svc /\ ~running
<1>1. CASE \E health \in ReplyHealth : observe(health)
  BY <1>1, ValueFields DEF observe, Record
<1>2. CASE accept_sidecar
  BY <1>2, ValueFields DEF accept_sidecar, Record
<1>3. CASE withdraw_sidecar_allowance
  BY <1>3, ValueFields DEF withdraw_sidecar_allowance, Record
<1>4. CASE allow_sidecar_for_session
  BY <1>4, ValueFields DEF allow_sidecar_for_session, Record
<1>5. CASE allow_sidecar_after_service_refusal
  BY <1>5, ValueFields DEF allow_sidecar_after_service_refusal, Record
<1>6. CASE require_install_for_session
  BY <1>6, ValueFields DEF require_install_for_session, Record
<1> QED BY <1>1, <1>2, <1>3, <1>4, <1>5, <1>6 DEF SessionStep

\* Every step keeps it.
LEMMA ExclusiveNext == TypeOK /\ Exclusive /\ [Next]_vars => Exclusive'
<1> SUFFICES ASSUME TypeOK, Exclusive, [Next]_vars PROVE Exclusive'
  OBVIOUS
<1> USE ValueFields DEF Exclusive, Record
<1>1. CASE UNCHANGED vars
  BY <1>1 DEF vars
<1>2. CASE SessionStep
  BY <1>2, SessionValues
<1>3. ASSUME NEW t \in Ops, NEW job \in Action \cup {Refresh}, Begin(t, job) PROVE Exclusive'
  BY <1>3 DEF Begin
<1>4. ASSUME NEW t \in Ops, Request(t) \/ PerformOk(t) \/ PerformFails(t) PROVE Exclusive'
  BY <1>4 DEF Request, request_action, PerformOk, observe, PerformFails, reserve_health_observation
<1>5. ASSUME NEW t \in Ops, NEW h \in Health,
             PerformDetected(t, h) \/ AwaitIpc(t, h) \/ RefreshReply(t, h)
      PROVE  Exclusive'
  BY <1>5 DEF PerformDetected, commit_reserved_observation, AwaitIpc, RefreshReply, observe
<1>6. ASSUME NEW t \in Ops, Restore(t) \/ RefreshSilent(t) \/ DropSlot(t) \/ NotifyWaiters(t)
      PROVE  Exclusive'
  BY <1>6 DEF Restore, restore_sidecar_allowance, RefreshSilent, DropSlot, NotifyWaiters
<1>7. ASSUME NEW p \in Probers, NEW h \in Health, ProbeReserve(p) \/ ProbeDetected(p, h)
      PROVE  Exclusive'
  BY <1>7 DEF ProbeReserve, reserve_health_observation, ProbeDetected, commit_reserved_observation
<1>8. ASSUME NEW r \in Readers, Settled(r) PROVE Exclusive'
  BY <1>8 DEF Settled
<1>9. ReplyHealth \subseteq Health /\ Health \ {"Unknown"} # {}
  BY DEF ReplyHealth, Health
<1> QED BY <1>1, <1>2, <1>3, <1>4, <1>5, <1>6, <1>7, <1>8, <1>9, NextSplit

\* health.rs: a pending action and a Sidecar allowance are never stored together.
THEOREM ExclusiveCorrect == Spec => []Exclusive
<1>1. Init => Exclusive
  BY DEF Init, Exclusive, Observed
<1> QED BY <1>1, ExclusiveNext, TypeCorrect, PTL DEF Spec

-----------------------------------------------------------------------------
(* Readings in flight are ordered by the observation counter.              *)

\* The strengthening: a reading in flight has been overtaken exactly when the
\* counter has moved on since it was reserved.
Ordered == \A t \in InFlight : rsv[t] <= obs /\ (t \in overtaken <=> rsv[t] < obs)

\* A recorded value is newer than every reservation in flight.
LEMMA RecordOrdered ==
    ASSUME TypeOK, Ordered, NEW s, Record(s), InFlight' \subseteq InFlight, rsv' = rsv
    PROVE  Ordered'
<1> SUFFICES ASSUME NEW t \in InFlight' PROVE rsv'[t] <= obs' /\ (t \in overtaken' <=> rsv'[t] < obs')
  BY DEF Ordered
<1>1. t \in InFlight /\ t \in overtaken' /\ obs' = obs + 1
  BY DEF Record, Tick, Supersede
<1>2. rsv[t] \in Nat /\ obs \in Nat /\ rsv[t] <= obs
  BY <1>1 DEF Ordered, TypeOK, InFlight
<1> QED BY <1>1, <1>2

\* A reservation made is the newest, and is not overtaken.
LEMMA ReserveOrdered ==
    ASSUME TypeOK, Ordered, NEW u \in Ops \cup Probers, reserve_health_observation(u),
           InFlight' = InFlight \cup {u}
    PROVE  Ordered'
<1> SUFFICES ASSUME NEW t \in InFlight' PROVE rsv'[t] <= obs' /\ (t \in overtaken' <=> rsv'[t] < obs')
  BY DEF Ordered
<1>1. obs' = obs + 1 /\ obs \in Nat /\ rsv \in [Ops \cup Probers -> Nat] /\ t \in Ops \cup Probers
  BY DEF reserve_health_observation, Tick, TypeOK, InFlight
<1>2. CASE t = u
  BY <1>1, <1>2 DEF reserve_health_observation
<1>3. CASE t # u
  <2>1. t \in InFlight /\ rsv'[t] = rsv[t] /\ t \in overtaken' /\ rsv[t] <= obs
    BY <1>1, <1>3 DEF reserve_health_observation, Ordered
  <2> QED BY <1>1, <2>1
<1> QED BY <1>2, <1>3

\* Which readings are in flight after each step that does not start one.
LEMMA InFlightSame ==
    ASSUME TypeOK,
           \/ SessionStep
           \/ \E t \in Ops, job \in Action \cup {Refresh} : Begin(t, job)
           \/ \E t \in Ops : Request(t) \/ PerformOk(t) \/ Restore(t) \/ RefreshSilent(t)
                             \/ DropSlot(t) \/ NotifyWaiters(t)
           \/ \E t \in Ops, h \in ReplyHealth : AwaitIpc(t, h) \/ RefreshReply(t, h)
           \/ \E r \in Readers : Settled(r)
    PROVE  InFlight' = InFlight /\ rsv' = rsv
<1> USE DEF TypeOK, InFlight, Operation
<1>1. CASE SessionStep \/ \E r \in Readers : Settled(r)
  BY <1>1 DEF SessionStep, Settled
<1>2. ASSUME NEW t \in Ops, NEW job \in Action \cup {Refresh}, Begin(t, job)
      PROVE  InFlight' = InFlight /\ rsv' = rsv
  BY <1>2 DEF Begin
<1>3. ASSUME NEW t \in Ops, Request(t) \/ PerformOk(t) \/ Restore(t)
      PROVE  InFlight' = InFlight /\ rsv' = rsv
  BY <1>3 DEF Request, PerformOk, Restore, GoTo
<1>4. ASSUME NEW t \in Ops, RefreshSilent(t) \/ DropSlot(t) \/ NotifyWaiters(t)
      PROVE  InFlight' = InFlight /\ rsv' = rsv
  BY <1>4 DEF RefreshSilent, DropSlot, NotifyWaiters, IdleOp, GoTo
<1>5. ASSUME NEW t \in Ops, NEW h \in ReplyHealth, AwaitIpc(t, h) \/ RefreshReply(t, h)
      PROVE  InFlight' = InFlight /\ rsv' = rsv
  BY <1>5 DEF AwaitIpc, RefreshReply, GoTo
<1> QED BY <1>1, <1>2, <1>3, <1>4, <1>5

\* ... and each of them records something or leaves the order alone.
LEMMA RecordOrKeep ==
    ASSUME TypeOK,
           \/ SessionStep
           \/ \E t \in Ops, job \in Action \cup {Refresh} : Begin(t, job)
           \/ \E t \in Ops : Request(t) \/ PerformOk(t) \/ Restore(t) \/ RefreshSilent(t)
                             \/ DropSlot(t) \/ NotifyWaiters(t)
           \/ \E t \in Ops, h \in ReplyHealth : AwaitIpc(t, h) \/ RefreshReply(t, h)
           \/ \E r \in Readers : Settled(r)
    PROVE  (\E s : Record(s)) \/ UNCHANGED <<svc, obs, overtaken>>
  BY DEF SessionStep, observe, accept_sidecar, withdraw_sidecar_allowance,
         allow_sidecar_for_session, allow_sidecar_after_service_refusal,
         require_install_for_session, Begin, Request, request_action, PerformOk, Restore,
         restore_sidecar_allowance, RefreshSilent, DropSlot, NotifyWaiters, AwaitIpc, RefreshReply,
         Settled

\* The steps that put a reading in flight ...
LEMMA InFlightReserve ==
    ASSUME TypeOK
    PROVE  /\ \A t \in Ops : PerformFails(t) =>
                InFlight' = InFlight \cup {t} /\ reserve_health_observation(t)
           /\ \A p \in Probers : ProbeReserve(p) =>
                InFlight' = InFlight \cup {p} /\ reserve_health_observation(p)
  BY DEF TypeOK, InFlight, Operation, OpPc, PerformFails, ProbeReserve, GoTo

\* ... and those that land it.
LEMMA InFlightCommit ==
    ASSUME TypeOK
    PROVE  /\ \A t \in Ops, h \in Health : PerformDetected(t, h) =>
                t \in InFlight /\ InFlight' = InFlight \ {t} /\ commit_reserved_observation(t, h)
           /\ \A p \in Probers, h \in Health : ProbeDetected(p, h) =>
                p \in InFlight /\ InFlight' = InFlight \ {p} /\ commit_reserved_observation(p, h)
  BY TasksAssumption DEF TypeOK, InFlight, Operation, OpPc, PerformDetected, ProbeDetected, GoTo

\* Every step keeps the order of reservations.
LEMMA OrderedNext == TypeOK /\ Ordered /\ [Next]_vars => Ordered'
<1> SUFFICES ASSUME TypeOK, Ordered, [Next]_vars PROVE Ordered'
  OBVIOUS
<1>1. CASE UNCHANGED vars
  BY <1>1 DEF vars, Ordered, InFlight
<1>2. CASE \/ SessionStep
           \/ \E t \in Ops, job \in Action \cup {Refresh} : Begin(t, job)
           \/ \E t \in Ops : Request(t) \/ PerformOk(t) \/ Restore(t) \/ RefreshSilent(t)
                             \/ DropSlot(t) \/ NotifyWaiters(t)
           \/ \E t \in Ops, h \in ReplyHealth : AwaitIpc(t, h) \/ RefreshReply(t, h)
           \/ \E r \in Readers : Settled(r)
  <2>1. InFlight' = InFlight /\ rsv' = rsv
    BY <1>2, InFlightSame
  <2>2. CASE \E s : Record(s)
    BY <2>1, <2>2, RecordOrdered
  <2>3. CASE UNCHANGED <<svc, obs, overtaken>>
    BY <2>1, <2>3 DEF Ordered
  <2> QED BY <1>2, <2>2, <2>3, RecordOrKeep
<1>3. CASE \/ \E t \in Ops : PerformFails(t)
           \/ \E p \in Probers : ProbeReserve(p)
  BY <1>3, InFlightReserve, ReserveOrdered
<1>4. CASE \/ \E t \in Ops, h \in Health \ {"Unknown"} : PerformDetected(t, h)
           \/ \E p \in Probers, h \in Health \ {"Unknown"} : ProbeDetected(p, h)
  <2>1. InFlight' \subseteq InFlight /\ UNCHANGED <<obs, rsv, overtaken>>
    BY <1>4, InFlightCommit DEF commit_reserved_observation
  <2> QED BY <2>1 DEF Ordered
<1> QED BY <1>1, <1>2, <1>3, <1>4, NextSplit

\* It holds throughout.
LEMMA OrderedInvariant == Spec => []Ordered
<1>1. Init => Ordered
  <2>1. Init => InFlight = {}
    BY DEF Init, InFlight, IdleOp
  <2> QED BY <2>1 DEF Ordered
<1> QED BY <1>1, OrderedNext, TypeCorrect, PTL DEF Spec

\* A reading that was overtaken changes nothing when it lands.
LEMMA StaleStep ==
    ASSUME TypeOK, Ordered, [Next]_vars, NEW t \in InFlight, t \in overtaken, t \notin InFlight'
    PROVE  svc' = svc
<1>1. CASE UNCHANGED vars
  BY <1>1 DEF vars
<1>2. CASE \/ SessionStep
           \/ \E u \in Ops, job \in Action \cup {Refresh} : Begin(u, job)
           \/ \E u \in Ops : Request(u) \/ PerformOk(u) \/ Restore(u) \/ RefreshSilent(u)
                             \/ DropSlot(u) \/ NotifyWaiters(u)
           \/ \E u \in Ops, h \in ReplyHealth : AwaitIpc(u, h) \/ RefreshReply(u, h)
           \/ \E r \in Readers : Settled(r)
  BY <1>2, InFlightSame
<1>3. CASE \/ \E u \in Ops : PerformFails(u)
           \/ \E p \in Probers : ProbeReserve(p)
  BY <1>3, InFlightReserve
<1>4. CASE \/ \E u \in Ops, h \in Health \ {"Unknown"} : PerformDetected(u, h)
           \/ \E p \in Probers, h \in Health \ {"Unknown"} : ProbeDetected(p, h)
  <2>1. PICK h \in Health : commit_reserved_observation(t, h)
    BY <1>4, InFlightCommit
  <2>2. obs # rsv[t]
    BY DEF Ordered, TypeOK, InFlight
  <2> QED BY <2>1, <2>2 DEF commit_reserved_observation
<1> QED BY <1>1, <1>2, <1>3, <1>4, NextSplit

\* A reading that anything newer overtook never changes the store, however
\* many readings, operations and session decisions overlap.
THEOREM StaleCorrect == Spec => StaleReadingNeverWins
<1>1. TypeOK /\ Ordered /\ [Next]_vars
        => [\A t \in InFlight : t \in overtaken /\ t \notin InFlight' => svc' = svc]_vars
  BY StaleStep
<1> QED BY <1>1, TypeCorrect, OrderedInvariant, PTL DEF Spec, StaleReadingNeverWins

-----------------------------------------------------------------------------
(* A finished privileged action leaves no request behind.                  *)

\* Operations whose request should by now be gone: the action is over, or its
\* own re-reading has already been overtaken.
Finished == {t \in Ops : \/ op[t].pc \in {"restore", "drop"}
                         \/ op[t].pc = "detect" /\ t \in overtaken}

\* The strengthening of RequestRetired.
Held == \A t \in Finished : svc.pending = op[t].job
            => \E p \in Probers : probe[p] = "detect" /\ p \notin overtaken

\* Every step keeps what a finished or failed operation holds.
LEMMA HeldNext == TypeOK /\ OneOperation /\ Exclusive /\ Ordered /\ Held /\ [Next]_vars => Held'
<1> SUFFICES ASSUME TypeOK, OneOperation, Exclusive, Ordered, Held, [Next]_vars PROVE Held'
  OBVIOUS
<1>0. TypeOK' /\ OneOperation'
  BY TypeNext, SlotNext
<1>a. (\A t \in Finished' : t \in Holding' /\ running')
      /\ (\A t \in Holding', u \in Finished' : u = t)
      /\ (\A t \in Ops : None # op'[t].job)
  BY <1>0, ActionAssumption DEF TypeOK, OneOperation, Holding, Finished, Operation
<1>n. ASSUME svc'.pending = None PROVE Held'
  BY <1>a, <1>n DEF Held, Finished
<1>s. ASSUME UNCHANGED <<svc, op, probe, overtaken>> PROVE Held'
  BY <1>s DEF Held, Finished
<1>1. CASE UNCHANGED vars
  BY <1>1, <1>s DEF vars
<1>2. CASE SessionStep
  <2>1. op' = op /\ running' = running /\ probe' = probe
    BY <1>2 DEF SessionStep
  <2>2. CASE ~running
    BY <1>a, <2>1, <2>2 DEF Held
  <2> QED BY <1>2, <1>n, <2>2, SessionValues DEF Exclusive
<1>3. ASSUME NEW t \in Ops, NEW job \in Action \cup {Refresh}, Begin(t, job) PROVE Held'
  <2>1. op'[t].pc = "begun"
    BY <1>3 DEF Begin, TypeOK
  <2> QED BY <1>a, <2>1 DEF Held, Finished, Holding
<1>4. ASSUME NEW t \in Ops, Request(t) PROVE Held'
  <2>1. op'[t].pc = "requested"
    BY <1>4 DEF Request, TypeOK, Operation
  <2> QED BY <1>a, <2>1 DEF Held, Finished, Holding
<1>5. ASSUME NEW t \in Ops, PerformOk(t) PROVE Held'
  <2>1. CASE op[t].job = "Uninstall"
    BY <1>5, <1>n, <2>1, ValueFields DEF PerformOk, observe, Record
  <2>2. CASE op[t].job # "Uninstall"
    <3>1. op'[t].pc = "await"
      BY <1>5, <2>2 DEF PerformOk, GoTo, TypeOK, Operation
    <3> QED BY <1>a, <3>1 DEF Held, Finished, Holding
  <2> QED BY <2>1, <2>2
<1>6. ASSUME NEW t \in Ops, PerformFails(t) PROVE Held'
  <2>1. op'[t].pc = "detect" /\ t \notin overtaken'
    BY <1>6 DEF PerformFails, reserve_health_observation, GoTo, TypeOK, Operation
  <2> QED BY <1>a, <2>1 DEF Held, Finished, Holding
<1>7. ASSUME NEW t \in Ops, NEW h \in Health, PerformDetected(t, h) PROVE Held'
  <2>0. t \in InFlight /\ commit_reserved_observation(t, h) /\ rsv[t] \in Nat /\ obs \in Nat
    BY <1>7, InFlightCommit DEF TypeOK
  <2>1. CASE t \notin overtaken
    <3>1. obs = rsv[t]
      BY <2>0, <2>1 DEF Ordered
    <3> QED BY <1>n, <2>0, <3>1, ValueFields DEF commit_reserved_observation
  <2>2. CASE t \in overtaken
    <3>1. svc' = svc /\ UNCHANGED <<probe, overtaken>>
      BY <1>7, <2>0, <2>2 DEF Ordered, commit_reserved_observation, PerformDetected
    <3>2. t \in Finished /\ t \in Holding' /\ op'[t].job = op[t].job
      BY <1>7, <2>2 DEF PerformDetected, Finished, Holding, GoTo, TypeOK, Operation
    <3> QED BY <1>a, <3>1, <3>2 DEF Held
  <2> QED BY <2>1, <2>2
<1>8. ASSUME NEW t \in Ops, NEW h \in ReplyHealth, AwaitIpc(t, h) \/ RefreshReply(t, h) PROVE Held'
  BY <1>8, <1>n, ValueFields DEF AwaitIpc, RefreshReply, observe, Record
<1>9. ASSUME NEW t \in Ops, Restore(t) PROVE Held'
  <2>1. CASE svc'.pending = None
    BY <2>1, <1>n
  <2>2. CASE UNCHANGED <<svc, obs, overtaken>>
    <3>1. t \in Finished /\ t \in Holding' /\ op'[t].job = op[t].job /\ probe' = probe
      BY <1>9 DEF Restore, Finished, Holding, GoTo, TypeOK, Operation
    <3> QED BY <1>a, <2>2, <3>1 DEF Held
  <2> QED BY <1>9, <2>1, <2>2, ValueFields DEF Restore, restore_sidecar_allowance, Record
<1>10. ASSUME NEW t \in Ops, RefreshSilent(t) PROVE Held'
  <2>1. t \in Holding' /\ op'[t].job = Refresh /\ svc'.pending # Refresh
    BY <1>10, ActionAssumption
       DEF RefreshSilent, Holding, GoTo, TypeOK, Operation, StoredService
  <2> QED BY <1>a, <2>1 DEF Held
<1>11. ASSUME NEW t \in Ops, DropSlot(t) PROVE Held'
  BY <1>11, <1>a DEF DropSlot, Held
<1>12. ASSUME NEW t \in Ops, NotifyWaiters(t) PROVE Held'
  <2>1. op'[t] = IdleOp /\ (\A u \in Ops \ {t} : op'[u] = op[u]) /\ UNCHANGED <<svc, probe, overtaken>>
    BY <1>12 DEF NotifyWaiters, TypeOK
  <2>2. \A u \in Finished' : u \in Finished /\ op'[u] = op[u]
    BY <2>1 DEF Finished, IdleOp
  <2> QED BY <2>1, <2>2 DEF Held
<1>13. ASSUME NEW p \in Probers, ProbeReserve(p) PROVE Held'
  <2>1. probe'[p] = "detect" /\ p \notin overtaken'
    BY <1>13 DEF ProbeReserve, reserve_health_observation, TypeOK
  <2> QED BY <2>1 DEF Held
<1>14. ASSUME NEW p \in Probers, NEW h \in Health, ProbeDetected(p, h) PROVE Held'
  <2>0. p \in InFlight /\ commit_reserved_observation(p, h) /\ rsv[p] \in Nat /\ obs \in Nat
    BY <1>14, InFlightCommit DEF TypeOK
  <2>1. CASE p \notin overtaken
    <3>1. obs = rsv[p]
      BY <2>0, <2>1 DEF Ordered
    <3> QED BY <1>n, <2>0, <3>1, ValueFields DEF commit_reserved_observation
  <2>2. CASE p \in overtaken
    <3>1. svc' = svc /\ UNCHANGED <<op, overtaken>>
      BY <1>14, <2>0, <2>2 DEF Ordered, commit_reserved_observation, ProbeDetected
    <3>2. \A q \in Probers \ {p} : probe'[q] = probe[q]
      BY <1>14 DEF ProbeDetected, TypeOK
    <3> QED BY <2>2, <3>1, <3>2 DEF Held, Finished
  <2> QED BY <2>1, <2>2
<1>15. ASSUME NEW r \in Readers, Settled(r) PROVE Held'
  BY <1>15, <1>s DEF Settled
<1> QED
  BY <1>1, <1>2, <1>3, <1>4, <1>5, <1>6, <1>7, <1>8, <1>9, <1>10, <1>11, <1>12, <1>13, <1>14, <1>15,
     NextSplit

\* Whatever happens while a privileged action runs, it ends with its request
\* retired, or with a current reading about to retire it.
THEOREM RetiredCorrect == Spec => []RequestRetired
<1>1. Init => Held
  BY DEF Init, Held, Finished, IdleOp
<1>2. Held => RequestRetired
  BY DEF Held, Finished, RequestRetired
<1> QED BY <1>1, <1>2, HeldNext, TypeCorrect, SlotCorrect, ExclusiveCorrect, OrderedInvariant, PTL
        DEF Spec

-----------------------------------------------------------------------------
(* No caller of settled() is left waiting for a wakeup that has passed.    *)

\* Every step that changes the operation wakes who waits for it.
LEMMA WakeNext == TypeOK /\ OneOperation /\ NoLostWakeup /\ [Next]_vars => NoLostWakeup'
<1> SUFFICES ASSUME TypeOK, OneOperation, NoLostWakeup, [Next]_vars PROVE NoLostWakeup'
  OBVIOUS
<1>1. CASE UNCHANGED vars
  BY <1>1 DEF vars, NoLostWakeup
<1>2. CASE SessionStep
  BY <1>2 DEF SessionStep, NoLostWakeup
<1>3. ASSUME NEW t \in Ops, NEW job \in Action \cup {Refresh}, Begin(t, job) PROVE NoLostWakeup'
  BY <1>3 DEF Begin, NoLostWakeup
<1>4. ASSUME NEW t \in Ops,
             \/ Request(t) \/ PerformOk(t) \/ PerformFails(t) \/ Restore(t) \/ RefreshSilent(t)
             \/ \E h \in Health : PerformDetected(t, h) \/ AwaitIpc(t, h) \/ RefreshReply(t, h)
      PROVE  NoLostWakeup'
  <2>1. t \in Holding /\ reader' = reader
    BY <1>4 DEF Holding, Request, PerformOk, PerformFails, Restore, RefreshSilent, PerformDetected,
       AwaitIpc, RefreshReply
  <2>2. running'
    BY <1>4, <2>1, HoldingKept DEF OneOperation
  <2> QED BY <2>1, <2>2 DEF NoLostWakeup
<1>5. ASSUME NEW t \in Ops, DropSlot(t) PROVE NoLostWakeup'
  <2>1. op'[t].pc = "notify"
    BY <1>5 DEF DropSlot, GoTo, TypeOK, Operation
  <2> QED BY <2>1 DEF NoLostWakeup
<1>6. ASSUME NEW t \in Ops, NotifyWaiters(t) PROVE NoLostWakeup'
  <2>1. ASSUME NEW r \in Readers, reader'[r].pc \in {"busy", "waiting"} PROVE reader'[r].notified
    BY <1>6, <2>1 DEF NotifyWaiters, TypeOK, SettledCall, Registered
  <2> QED BY <2>1 DEF NoLostWakeup
<1>7. ASSUME NEW p \in Probers, ProbeReserve(p) \/ \E h \in Health : ProbeDetected(p, h)
      PROVE  NoLostWakeup'
  BY <1>7 DEF ProbeReserve, ProbeDetected, NoLostWakeup
<1>8. ASSUME NEW r \in Readers, Settled(r) PROVE NoLostWakeup'
  <2>1. UNCHANGED <<running, op>> /\ \A u \in Readers \ {r} : reader'[u] = reader[u]
    BY <1>8 DEF Settled, Register, ReadService, ReadSlot, Await, Woken, TypeOK
  <2>2. reader'[r].pc \in {"busy", "waiting"} /\ ~reader'[r].notified
          => running \/ (reader[r].pc = "busy" /\ ~reader[r].notified)
    BY <1>8 DEF Settled, Register, ReadService, ReadSlot, Await, Woken, TypeOK, SettledCall
  <2> QED BY <2>1, <2>2 DEF NoLostWakeup
<1>9. ReplyHealth \subseteq Health
  BY DEF ReplyHealth, Health
<1> QED BY <1>1, <1>2, <1>3, <1>4, <1>5, <1>6, <1>7, <1>8, <1>9, NextSplit

\* A parked settled() caller always has a wakeup ahead of it.
THEOREM WakeCorrect == Spec => []NoLostWakeup
<1>1. Init => NoLostWakeup
  BY DEF Init, NoLostWakeup
<1> QED BY <1>1, WakeNext, TypeCorrect, SlotCorrect, PTL DEF Spec
=============================================================================
