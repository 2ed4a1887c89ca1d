-------------------------------- MODULE Draft -------------------------------
(***************************************************************************)
(* The draft layers of the configuration (crates/clash-verge-draft) and    *)
(* the operations of the application that share them.                      *)
(*                                                                         *)
(* A layer has one committed value and one draft slot, under a mutex that  *)
(* is released between the calls of an operation.  What keeps two          *)
(* operations apart is up to them: the configuration write lock, the       *)
(* core's config-update flag, the claims of a DraftTransaction, or nothing *)
(* at all (constants Locking, Updating, Claiming).  The profiles are       *)
(* written by with_data_modify and by the profile switch instead.          *)
(*                                                                         *)
(* A value is the set of the operations whose changes are in it.           *)
(***************************************************************************)
EXTENDS Naturals, Sequences

CONSTANTS
  Layers,
  Writers,     \* operations that stage a draft of their layers and apply it
  Locking,     \* ... those that hold Config::lock_config_write
  Updating,    \* ... those that hold the core's config-update flag
  Claiming,    \* ... those that stage in a DraftTransaction
  Fallible,    \* ... those of them with work before the commit that may fail
  Uses,        \* the layers each of them stages, in order
  Modifiers,   \* operations on the profiles through with_data_modify
  Switches,    \* ... those of them that are profile switches
  Profiles,    \* the layer of the profiles
  Requests,    \* the sets of operations that are requested together
  NoOperation

Operations == Writers \cup Modifiers

ASSUME WritersAssumption ==
  /\ Locking \subseteq Writers /\ Updating \subseteq Writers
  /\ Claiming \subseteq Writers /\ Fallible \subseteq Claiming
  /\ \A w \in Writers : Uses[w] \in Seq(Layers \ {Profiles}) /\ Uses[w] # <<>>

ASSUME OperationsAssumption ==
  /\ Modifiers \cap Writers = {} /\ Switches \subseteq Modifiers
  /\ Profiles \in Layers /\ NoOperation \notin Operations
  /\ Requests \subseteq SUBSET Operations

Places(w) == 1 .. Len(Uses[w])

\* What the operations have to see to themselves: any two that are requested
\* together and share a layer both lock, or both flag, or both claim.
Apart ==
  /\ \A w \in Writers : \A i, j \in Places(w) : Uses[w][i] = Uses[w][j] => i = j
  /\ \A R \in Requests : \A v, w \in Writers \cap R : \A i \in Places(v), j \in Places(w) :
       v # w /\ Uses[v][i] = Uses[w][j] =>
         {v, w} \subseteq Locking \/ {v, w} \subseteq Updating \/ {v, w} \subseteq Claiming

VARIABLES
  data,        \* the committed values
  version,     \* which Arc holds each of them
  draft,       \* the draft slots
  claimed,     \* the claims: who holds each
  lock,        \* CONFIG_WRITE_LOCK
  updating,    \* the config-update flag: who holds it
  writer,      \* the writers: where they are, at which of their layers
  permit,      \* data_modifying
  token,       \* data_modify_notify holds a stored wakeup
  modifier     \* the modifiers: where they are, what they read

draftVars == <<data, version, draft, claimed, lock, updating, writer, permit, token, modifier>>

layers == <<data, version, draft, claimed>>
exclusion == <<lock, updating>>
permits == <<permit, token, modifier>>

NoDraft == [staged |-> FALSE, value |-> {}]

DraftInit ==
  /\ data = [l \in Layers |-> {}]
  /\ version = [l \in Layers |-> 0]
  /\ draft = [l \in Layers |-> NoDraft]
  /\ claimed = [l \in Layers |-> NoOperation]
  /\ lock = NoOperation /\ updating = NoOperation
  /\ permit = FALSE /\ token = FALSE
  /\ \E requested \in Requests :
       /\ writer = [w \in Writers |->
            [pc |-> IF w \in requested THEN "start" ELSE "absent", at |-> 1]]
       /\ modifier = [m \in Modifiers |->
            [pc |-> IF m \notin requested THEN "absent"
                    ELSE IF m \in Switches THEN "stage" ELSE "try",
             read |-> {}, saw |-> 0]]

----------------------------------------------------------------------------
(* The calls on a layer. *)

latest_arc(l) == IF draft[l].staged THEN draft[l].value ELSE data[l]

edit_draft(l, op) ==
  /\ draft' = [draft EXCEPT ![l] = [staged |-> TRUE, value |-> latest_arc(l) \cup {op}]]
  /\ UNCHANGED <<data, version, claimed>>

apply(l) ==
  /\ IF draft[l].staged
     THEN /\ data' = [data EXCEPT ![l] = draft[l].value]
          /\ version' = [version EXCEPT ![l] = @ + 1]
     ELSE UNCHANGED <<data, version>>
  /\ draft' = [draft EXCEPT ![l] = NoDraft]
  /\ UNCHANGED claimed

discard(l) ==
  /\ draft' = [draft EXCEPT ![l] = NoDraft]
  /\ UNCHANGED <<data, version, claimed>>

Mut_try_claim(l, w) ==
  /\ claimed' = [claimed EXCEPT ![l] = w]
  /\ UNCHANGED <<data, version, draft>>

try_claim(l, w) ==
  /\ claimed[l] = NoOperation
  /\ claimed' = [claimed EXCEPT ![l] = w]
  /\ UNCHANGED <<data, version, draft>>

release(l) ==
  /\ claimed' = [claimed EXCEPT ![l] = NoOperation]
  /\ UNCHANGED <<data, version, draft>>

----------------------------------------------------------------------------
(* A writer: exclusion, claims, staging, work, commit or rollback. *)

Pc(w, pc) == writer[w].pc = pc
Layer(w) == Uses[w][writer[w].at]
Goto(w, pc) == writer' = [writer EXCEPT ![w] = [pc |-> pc, at |-> 1]]

\* On to the next layer, or to what follows the last one.
Advance(w, then) ==
  IF writer[w].at = Len(Uses[w]) THEN Goto(w, then)
  ELSE writer' = [writer EXCEPT ![w].at = @ + 1]

Lock(w) ==
  /\ Pc(w, "start")
  /\ w \in Locking => lock = NoOperation
  /\ lock' = IF w \in Locking THEN w ELSE lock
  /\ Goto(w, "flag")
  /\ UNCHANGED <<layers, updating, permits>>

\* try_start_config_update: an operation that finds another one at it is off.
TryStart(w) ==
  /\ Pc(w, "flag")
  /\ IF w \in Updating /\ updating # NoOperation
     THEN Goto(w, "refused") /\ UNCHANGED updating
     ELSE /\ updating' = IF w \in Updating THEN w ELSE updating
          /\ Goto(w, IF w \in Claiming THEN "claim" ELSE "edit")
  /\ UNCHANGED <<layers, lock, permits>>

\* DraftTransaction::begin claims one layer after the other.  At one that is
\* taken it releases those before it, and the operation is off.
Claim(w) ==
  /\ Pc(w, "claim")
  /\ \/ try_claim(Layer(w), w) /\ Advance(w, "edit")
     \/ /\ claimed[Layer(w)] # NoOperation
        /\ writer' = [writer EXCEPT ![w].pc = "give up"]
        /\ UNCHANGED layers
  /\ UNCHANGED <<exclusion, permits>>

GiveUp(w) ==
  /\ Pc(w, "give up")
  /\ IF writer[w].at = 1 THEN Goto(w, "rolled back") /\ UNCHANGED layers
     ELSE /\ writer' = [writer EXCEPT ![w].at = @ - 1]
          /\ release(Uses[w][writer[w].at - 1])
  /\ UNCHANGED <<exclusion, permits>>

Stage(w) ==
  /\ Pc(w, "edit")
  /\ edit_draft(Layer(w), w)
  /\ Advance(w, "work")
  /\ UNCHANGED <<exclusion, permits>>

\* What the operation does outside between staging and committing.
Work(w) ==
  /\ Pc(w, "work")
  /\ \/ Goto(w, "apply")
     \/ w \in Fallible /\ Goto(w, "discard")
  /\ UNCHANGED <<layers, exclusion, permits>>

\* DraftTransaction::commit, or the apply of an operation without one.
Apply(w) ==
  /\ Pc(w, "apply")
  /\ apply(Layer(w))
  /\ Advance(w, IF w \in Claiming THEN "release" ELSE "committed")
  /\ UNCHANGED <<exclusion, permits>>

\* The transaction's drop: a layer is discarded, unless committed, and
\* released before the next one is looked at.
Discard(w) ==
  /\ Pc(w, "discard")
  /\ discard(Layer(w))
  /\ writer' = [writer EXCEPT ![w].pc = "discarded"]
  /\ UNCHANGED <<exclusion, permits>>

Discarded(w) ==
  /\ Pc(w, "discarded")
  /\ release(Layer(w))
  /\ IF writer[w].at = Len(Uses[w]) THEN Goto(w, "rolled back")
     ELSE writer' = [writer EXCEPT ![w] = [pc |-> "discard", at |-> @.at + 1]]
  /\ UNCHANGED <<exclusion, permits>>

Release(w) ==
  /\ Pc(w, "release")
  /\ release(Layer(w))
  /\ Advance(w, "committed")
  /\ UNCHANGED <<exclusion, permits>>

\* The guards of the function go in reverse order: the flag, then the lock.
FinishUpdate(w) ==
  /\ Pc(w, "committed") \/ Pc(w, "rolled back")
  /\ updating' = IF w \in Updating THEN NoOperation ELSE updating
  /\ Goto(w, IF Pc(w, "committed") THEN "saved" ELSE "refused")
  /\ UNCHANGED <<layers, lock, permits>>

Unlock(w) ==
  /\ Pc(w, "saved") \/ Pc(w, "refused")
  /\ lock' = IF w \in Locking THEN NoOperation ELSE lock
  /\ Goto(w, IF Pc(w, "saved") THEN "done" ELSE "undone")
  /\ UNCHANGED <<layers, updating, permits>>

WriterStep(w) ==
  \/ Lock(w) \/ TryStart(w) \/ Claim(w) \/ GiveUp(w) \/ Stage(w) \/ Work(w) \/ Apply(w)
  \/ Discard(w) \/ Discarded(w) \/ Release(w) \/ FinishUpdate(w) \/ Unlock(w)

----------------------------------------------------------------------------
(* with_data_modify *)

Step(m, from, to) == modifier[m].pc = from /\ modifier' = [modifier EXCEPT ![m].pc = to]

\* The first try, and every later one behind a fresh notified().
TryPermit(m) ==
  /\ \E at \in {"try", "again"} :
       Step(m, at, IF ~permit THEN "read" ELSE IF at = "try" THEN "again" ELSE "await")
  /\ permit' = TRUE
  /\ UNCHANGED <<layers, exclusion, writer, token>>

\* notified.await: a stored wakeup is used up, otherwise the task parks.
AwaitPermit(m) ==
  /\ Step(m, "await", IF token THEN "again" ELSE "parked")
  /\ token' = FALSE
  /\ UNCHANGED <<layers, exclusion, writer, permit>>

Read(m) ==
  /\ modifier[m].pc = "read"
  /\ modifier' = [modifier EXCEPT ![m] =
       [pc |-> "modify", read |-> data[Profiles], saw |-> version[Profiles]]]
  /\ UNCHANGED <<layers, exclusion, writer, permit, token>>

\* The edit fails or finds the committed value changed, or it replaces it.
Commit(m) ==
  /\ Step(m, "modify", "release")
  /\ \/ UNCHANGED <<data, version>>
     \/ /\ version[Profiles] = modifier[m].saw
        /\ data' = [data EXCEPT ![Profiles] = modifier[m].read \cup {m}]
        /\ version' = [version EXCEPT ![Profiles] = @ + 1]
  /\ UNCHANGED <<draft, claimed, exclusion, writer, permit, token>>

\* DataModifyPermit::drop
ReleasePermit(m) ==
  /\ Step(m, "release", "notify")
  /\ permit' = FALSE
  /\ UNCHANGED <<layers, exclusion, writer, token>>

Parked == {m \in Modifiers : modifier[m].pc = "parked"}

NotifyOne(m) ==
  /\ modifier[m].pc = "notify"
  /\ IF Parked = {}
     THEN modifier' = [modifier EXCEPT ![m].pc = "done"] /\ token' = TRUE
     ELSE /\ \E n \in Parked : modifier' = [modifier EXCEPT ![m].pc = "done", ![n].pc = "again"]
          /\ UNCHANGED token
  /\ UNCHANGED <<layers, exclusion, writer, permit>>

----------------------------------------------------------------------------
(* patch_profiles_config: the switch is staged, the core is updated from the *)
(* draft, and the draft itself is never committed.                           *)

StageSwitch(m) ==
  /\ Step(m, "stage", "update")
  /\ edit_draft(Profiles, m)
  /\ UNCHANGED <<exclusion, writer, permit, token>>

\* handle_success: the draft goes, the switch is repeated on what is committed.
Switched(m) ==
  /\ Step(m, "update", "try")
  /\ discard(Profiles)
  /\ UNCHANGED <<exclusion, writer, permit, token>>

\* discard_and_restore: the draft goes, and the previous profile, if there was
\* one, is written back through a draft of its own.
SwitchFailed(m) ==
  /\ \E to \in {"restore", "done"} : Step(m, "update", to)
  /\ discard(Profiles)
  /\ UNCHANGED <<exclusion, writer, permit, token>>

StageRestore(m) ==
  /\ Step(m, "restore", "reapply")
  /\ edit_draft(Profiles, m)
  /\ UNCHANGED <<exclusion, writer, permit, token>>

\* ... after which profiles_save_file_safe is spawned: a with_data_modify too.
ApplyRestore(m) ==
  /\ Step(m, "reapply", "try")
  /\ apply(Profiles)
  /\ UNCHANGED <<exclusion, writer, permit, token>>

ModifierStep(m) ==
  \/ TryPermit(m) \/ AwaitPermit(m) \/ Read(m) \/ Commit(m) \/ ReleasePermit(m) \/ NotifyOne(m)
  \/ StageSwitch(m) \/ Switched(m) \/ SwitchFailed(m) \/ StageRestore(m) \/ ApplyRestore(m)

DraftNext == (\E w \in Writers : WriterStep(w)) \/ (\E m \in Modifiers : ModifierStep(m))

DraftSpec == DraftInit /\ [][DraftNext]_draftVars

\* Modifiers are tokio tasks that keep being polled.
DraftFairness == \A m \in Modifiers : WF_draftVars(ModifierStep(m))

DraftFairSpec == DraftSpec /\ DraftFairness

----------------------------------------------------------------------------
(* Properties *)

Transacted == Layers \ {Profiles}

Reg == INSTANCE Register WITH
  Layers <- Transacted, Authors <- Writers, data <- [l \in Transacted |-> data[l]]

\* The clash, verge and runtime layers implement the register: every commit,
\* of a transaction or of an operation without one, adds its own change to the
\* latest committed value.  None is prepared on a value that is replaced before
\* the commit, and none takes somebody else's staged change along.
ImplementsRegister == Reg!Spec

\* An operation that failed or was refused has left nothing in the committed
\* values, nor in a draft that somebody else may yet commit (the rollback of
\* DraftTransaction's drop).
FailedLeavesNothing ==
  \A w \in Writers, l \in Layers :
    Pc(w, "undone") => w \notin data[l] /\ w \notin draft[l].value

=============================================================================
