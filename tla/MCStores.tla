------------------------------ MODULE MCStores ------------------------------
(***************************************************************************)
(* Parts whose tasks wait for each other, checked side by side for safety  *)
(* and for progress: the Run State store, the draft layers, the update     *)
(* timer and the requests to copy provider caches.  A behaviour belongs to the part its     *)
(* initial state names; the other parts rest.                              *)
(***************************************************************************)
EXTENDS MCRunState, MCDraft, Timer, ProviderSync

\* The operations of the application that share a layer keep apart.
ASSUME OperationsApart == Apart

VARIABLE part

StoresInit ==
  /\ part \in {"service", "drafts", "timer", "sync"}
  /\ Init
  /\ DraftInit
  /\ TimerInit
  /\ SyncInit
  /\ part # "drafts" => /\ \A w \in Writers : writer[w].pc = "absent"
                         /\ \A m \in Modifiers : modifier[m].pc = "absent"
  /\ part # "timer" => interval = Nothing
  /\ part # "sync" => cache.stamps = "exact"

AllVars == <<vars, draftVars, timerVars, syncVars>>

StoresNext ==
  /\ UNCHANGED part
  /\ \/ /\ part = "service" /\ Next
        /\ UNCHANGED <<draftVars, timerVars, syncVars>>
     \/ /\ part = "drafts" /\ DraftNext
        /\ UNCHANGED <<vars, timerVars, syncVars>>
     \/ /\ part = "timer" /\ TimerNext
        /\ UNCHANGED <<vars, draftVars, syncVars>>
     \/ /\ part = "sync" /\ SyncNext
        /\ UNCHANGED <<vars, draftVars, timerVars>>

\* The fairness of each part, while it is the one that runs.
StoresSpec ==
  /\ StoresInit /\ [][StoresNext]_<<AllVars, part>>
  /\ \A t \in Ops : WF_vars(part = "service" /\ OpStep(t))
  /\ \A p \in Probers : WF_vars(part = "service" /\ ProbeStep(p))
  /\ \A r \in Readers : WF_vars(part = "service" /\ Settled(r))
  /\ \A m \in Modifiers : WF_draftVars(part = "drafts" /\ ModifierStep(m))
  /\ WF_timerVars(part = "timer" /\ run_scheduler) /\ WF_timerVars(part = "timer" /\ RefreshStep)
  /\ \A u \in Uids : /\ WF_timerVars(part = "timer" /\ run_expired_task(u))
                     /\ WF_timerVars(part = "timer" /\ async_task(u))
  /\ \A t \in SyncTasks : WF_syncVars(part = "sync" /\ TaskStep(t))
  /\ WF_syncVars(part = "sync" /\ CopySteps)
=============================================================================
