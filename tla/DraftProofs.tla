----------------------------- MODULE DraftProofs -----------------------------
(***************************************************************************)
(* The draft layers and the update timer.                                  *)
(***************************************************************************)
EXTENDS Draft, Timer, TLAPS

(***************************************************************************)
(* Draft layers: for any layers, operations and ways they keep apart, if   *)
(* the operations are Apart, the layers implement the register.  That they *)
(* are in the program is an assumption of MCStores, which TLC evaluates.   *)
(***************************************************************************)

WriterPc == {"absent", "start", "flag", "claim", "give up", "edit", "work", "apply", "discard", "discarded",
             "release", "committed", "rolled back", "saved", "refused", "done", "undone"}

\* Between its first and its last call a writer has what it takes ...
Holds(w) == writer[w].pc \notin {"absent", "start", "done", "undone"}
Marks(w) == writer[w].pc \in {"claim", "give up", "edit", "work", "apply", "discard", "discarded", "release",
                              "committed", "rolled back"}

\* ... a transaction, its layers up to the one it is at, or from that one on.
Claims(w, i) ==
  \/ writer[w].pc \in {"claim", "give up"} /\ i < writer[w].at
  \/ writer[w].pc \in {"edit", "work", "apply"}
  \/ writer[w].pc \in {"discard", "discarded", "release"} /\ i >= writer[w].at

\* Its drafts are staged, and neither committed nor discarded.
Staging(w, i) ==
  \/ writer[w].pc = "edit" /\ i < writer[w].at
  \/ writer[w].pc = "work"
  \/ writer[w].pc \in {"apply", "discard"} /\ i >= writer[w].at
  \/ writer[w].pc = "discarded" /\ i > writer[w].at

Committed(w, i) ==
  \/ writer[w].pc \in {"release", "committed", "saved", "done"}
  \/ writer[w].pc = "apply" /\ i < writer[w].at

WriterType ==
  /\ writer \in [Writers -> [pc : WriterPc, at : Nat]]
  /\ \A w \in Writers : writer[w].at \in Places(w)

ModifierPc == {"absent", "stage", "update", "restore", "reapply", "try", "again", "await", "parked", "read",
               "modify", "release", "notify", "done"}

\* The profiles are written by the modifiers alone.
ModifierType ==
  /\ modifier \in [Modifiers -> [pc : ModifierPc, read : SUBSET Modifiers, saw : Nat]]
  /\ data[Profiles] \in SUBSET Modifiers /\ draft[Profiles].value \in SUBSET Modifiers

LayerType ==
  /\ data \in [Layers -> SUBSET Operations] /\ version \in [Layers -> Nat]
  /\ draft \in [Layers -> [staged : BOOLEAN, value : SUBSET Operations]]
  /\ claimed \in [Layers -> Claiming \cup {NoOperation}]

UnderLock == \A w \in Locking : Holds(w) => lock = w

UnderFlag == \A w \in Updating : Marks(w) => updating = w

UnderClaim == \A w \in Claiming : \A i \in Places(w) : Claims(w, i) => claimed[Uses[w][i]] = w

Requested == \E R \in Requests : \A w \in Writers : writer[w].pc # "absent" => w \in R

\* Only a transaction releases.
InTransaction ==
  \A w \in Writers : writer[w].pc \in {"claim", "give up", "discard", "discarded", "release"} => w \in Claiming

\* What is staged is one change to what is committed ...
OneChange ==
  \A w \in Writers : \A i \in Places(w) :
    Staging(w, i) => draft[Uses[w][i]] = [staged |-> TRUE, value |-> data[Uses[w][i]] \cup {w}]

\* ... nobody's draft is left behind ...
NothingStale ==
  \A l \in Transacted :
    draft[l] # NoDraft => \E w \in Writers : \E i \in Places(w) : Uses[w][i] = l /\ Staging(w, i)

\* ... and what is committed was meant to be.
Meant ==
  \A l \in Transacted : \A w \in Writers :
    w \in data[l] => \E i \in Places(w) : Uses[w][i] = l /\ Committed(w, i)

Exclusive == UnderLock /\ UnderFlag /\ UnderClaim
Contents == OneChange /\ NothingStale /\ Meant

DraftsInv ==
  /\ WriterType /\ ModifierType /\ LayerType /\ Requested /\ InTransaction
  /\ Exclusive /\ Contents

-----------------------------------------------------------------------------
(* The operations' layers, and their steps                                   *)

\* The first layer is one, and the profiles are none.
LEMMA UsesFact ==
  ASSUME NEW w \in Writers
  PROVE  /\ Len(Uses[w]) \in Nat /\ 1 \in Places(w) /\ Len(Uses[w]) \in Places(w)
         /\ \A i \in Places(w) : i \in Nat /\ Uses[w][i] \in Transacted
         /\ \A i \in Places(w) : i # Len(Uses[w]) => i + 1 \in Places(w)
         /\ \A i \in Places(w) : i # 1 => i - 1 \in Places(w)
BY WritersAssumption DEF Places, Transacted

\* A step of one writer.
LEMMA Moved ==
  ASSUME WriterType, NEW w \in Writers, NEW pc \in WriterPc, NEW at \in Places(w),
         writer' = [writer EXCEPT ![w] = [pc |-> pc, at |-> at]]
  PROVE  /\ WriterType'
         /\ writer'[w].pc = pc /\ writer'[w].at = at
         /\ \A v \in Writers \ {w} : writer'[v] = writer[v]
<1> at \in Nat
  BY UsesFact
<1> QED
  BY DEF WriterType

\* A writer's record, one of its fields set.
LEMMA Fields ==
  ASSUME WriterType, NEW w \in Writers, NEW pc \in WriterPc, NEW at \in Nat
  PROVE  /\ [writer EXCEPT ![w].pc = pc] = [writer EXCEPT ![w] = [pc |-> pc, at |-> writer[w].at]]
         /\ [writer EXCEPT ![w].at = at] = [writer EXCEPT ![w] = [pc |-> writer[w].pc, at |-> at]]
<1>1. writer[w] \in [pc : WriterPc, at : Nat]
  BY DEF WriterType
<1>2. /\ [writer[w] EXCEPT !.pc = pc] = [pc |-> pc, at |-> writer[w].at]
      /\ [writer[w] EXCEPT !.at = at] = [pc |-> writer[w].pc, at |-> at]
  BY <1>1
<1> QED
  BY <1>2

\* Going to another step starts at the first layer.
LEMMA Went ==
  ASSUME WriterType, NEW w \in Writers, NEW pc \in WriterPc, Goto(w, pc)
  PROVE  /\ WriterType'
         /\ writer'[w].pc = pc /\ writer'[w].at = 1
         /\ \A v \in Writers \ {w} : writer'[v] = writer[v]
BY UsesFact, Moved DEF Goto

\* Advancing goes to the next layer, or beyond the last one.
LEMMA Advanced ==
  ASSUME WriterType, NEW w \in Writers, NEW then \in WriterPc, Advance(w, then)
  PROVE  /\ WriterType'
         /\ \/ writer[w].at = Len(Uses[w]) /\ writer'[w].pc = then /\ writer'[w].at = 1
            \/ /\ writer[w].at # Len(Uses[w])
               /\ writer'[w].pc = writer[w].pc /\ writer'[w].at = writer[w].at + 1
         /\ \A v \in Writers \ {w} : writer'[v] = writer[v]
<1>1. CASE writer[w].at = Len(Uses[w])
  BY <1>1, Went DEF Advance
<1>2. CASE writer[w].at # Len(Uses[w])
  <2>1. writer[w].at + 1 \in Places(w) /\ writer[w].pc \in WriterPc
    BY <1>2, UsesFact DEF WriterType
  <2>2. writer' = [writer EXCEPT ![w] = [pc |-> writer[w].pc, at |-> writer[w].at + 1]]
    BY <1>2 DEF Advance, WriterType
  <2> QED
    BY <1>2, <2>1, <2>2, Moved
<1> QED
  BY <1>1, <1>2

\* Two writers are not at a layer at once.
LEMMA Alone ==
  ASSUME Apart, DraftsInv, NEW v \in Writers, NEW w \in Writers, NEW i \in Places(v), NEW j \in Places(w),
         Uses[v][i] = Uses[w][j], Claims(v, i), Claims(w, j)
  PROVE  v = w
<1> SUFFICES ASSUME v # w PROVE FALSE
  OBVIOUS
<1>1. Holds(v) /\ Holds(w) /\ Marks(v) /\ Marks(w)
  BY DEF Claims, Holds, Marks
<1>2. PICK R \in Requests : v \in R /\ w \in R
  BY DEF DraftsInv, Requested, Claims
<1>3. {v, w} \subseteq Locking \/ {v, w} \subseteq Updating \/ {v, w} \subseteq Claiming
  BY <1>2 DEF Apart
<1> QED
  BY <1>1, <1>3 DEF DraftsInv, Exclusive, UnderLock, UnderFlag, UnderClaim

-----------------------------------------------------------------------------
(* What a writer takes                                                       *)

\* A step is one writer's, of those that were requested, and stays in type.
LEMMA Stepped ==
  ASSUME WriterType, InTransaction, NEW w \in Writers, WriterStep(w)
  PROVE  /\ WriterType' /\ \A v \in Writers \ {w} : writer'[v] = writer[v]
         /\ writer[w].pc # "absent" /\ UNCHANGED <<permit, token, modifier>>
<1> USE DEF permits
<1>1. CASE Lock(w)
  BY <1>1, Went DEF Lock, Pc, WriterPc
<1>2. CASE TryStart(w)
  <2>1. \E pc \in WriterPc : Goto(w, pc)
    BY <1>2 DEF TryStart, WriterPc
  <2> QED
    BY <1>2, <2>1, Went DEF TryStart, Pc
<1>3. CASE Claim(w)
  <2>1. CASE Advance(w, "edit")
    BY <1>3, <2>1, Advanced, "edit" \in WriterPc DEF Claim, Pc, WriterPc
  <2>2. CASE writer' = [writer EXCEPT ![w].pc = "give up"]
    <3>1. writer' = [writer EXCEPT ![w] = [pc |-> "give up", at |-> writer[w].at]]
      BY <2>2, Fields, "give up" \in WriterPc, 1 \in Nat DEF WriterPc
    <3>2. "give up" \in WriterPc /\ writer[w].at \in Places(w)
      BY DEF WriterPc, WriterType
    <3> QED
      BY <1>3, <3>1, <3>2, Moved DEF Claim, Pc
  <2> QED
    BY <1>3, <2>1, <2>2 DEF Claim
<1>4. CASE GiveUp(w)
  <2>1. CASE writer[w].at = 1
    BY <1>4, <2>1, Went, "rolled back" \in WriterPc DEF GiveUp, Pc, WriterPc
  <2>2. CASE writer[w].at # 1
    <3> DEFINE at == writer[w].at - 1
    <3>1. "give up" \in WriterPc /\ at \in Places(w) /\ at \in Nat
      BY <2>2, UsesFact DEF WriterPc, WriterType
    <3>2. writer' = [writer EXCEPT ![w].at = at] /\ writer[w].pc = "give up"
      BY <1>4, <2>2 DEF GiveUp, Pc, WriterType
    <3> HIDE DEF at
    <3>3. writer' = [writer EXCEPT ![w] = [pc |-> writer[w].pc, at |-> at]]
      BY <3>1, <3>2, Fields
    <3> QED
      BY <1>4, <3>1, <3>2, <3>3, Moved DEF GiveUp, Pc
  <2> QED
    BY <2>1, <2>2
<1>5. CASE Stage(w)
  BY <1>5, Advanced, "work" \in WriterPc DEF Stage, Pc, WriterPc
<1>6. CASE Work(w)
  <2>1. \E pc \in WriterPc : Goto(w, pc)
    BY <1>6 DEF Work, WriterPc
  <2> QED
    BY <1>6, <2>1, Went DEF Work, Pc
<1>7. CASE Apply(w)
  BY <1>7, Advanced, {"release", "committed"} \subseteq WriterPc DEF Apply, Pc, WriterPc
<1>8. CASE Discard(w)
  <2>1. writer' = [writer EXCEPT ![w] = [pc |-> "discarded", at |-> writer[w].at]]
    BY <1>8, Fields, "discarded" \in WriterPc, 1 \in Nat DEF Discard, WriterPc
  <2>2. "discarded" \in WriterPc /\ writer[w].at \in Places(w)
    BY DEF WriterPc, WriterType
  <2> QED
    BY <1>8, <2>1, <2>2, Moved DEF Discard, Pc
<1>9. CASE Discarded(w)
  <2>1. CASE writer[w].at = Len(Uses[w])
    BY <1>9, <2>1, Went, "rolled back" \in WriterPc DEF Discarded, Pc, WriterPc
  <2>2. CASE writer[w].at # Len(Uses[w])
    <3>1. writer' = [writer EXCEPT ![w] = [pc |-> "discard", at |-> writer[w].at + 1]]
      BY <1>9, <2>2 DEF Discarded, WriterType
    <3>2. "discard" \in WriterPc /\ writer[w].at + 1 \in Places(w)
      BY <2>2, UsesFact DEF WriterPc, WriterType
    <3> QED
      BY <1>9, <3>1, <3>2, Moved DEF Discarded, Pc
  <2> QED
    BY <2>1, <2>2
<1>10. CASE Release(w)
  BY <1>10, Advanced, "committed" \in WriterPc DEF Release, Pc, WriterPc
<1>11. CASE FinishUpdate(w)
  BY <1>11, Went, {"saved", "refused"} \subseteq WriterPc DEF FinishUpdate, Pc, WriterPc
<1>12. CASE Unlock(w)
  BY <1>12, Went, {"done", "undone"} \subseteq WriterPc DEF Unlock, Pc, WriterPc
<1> QED
  BY <1>1, <1>2, <1>3, <1>4, <1>5, <1>6, <1>7, <1>8, <1>9, <1>10, <1>11, <1>12 DEF WriterStep

\* Where the steps lead.
Moves(w, from, to) == writer[w].pc = from /\ writer'[w].pc \in to /\ writer'[w].at = 1

Passes(w, pc, then) ==
  \/ writer[w].at = Len(Uses[w]) /\ Moves(w, pc, {then})
  \/ /\ writer[w].at # Len(Uses[w])
     /\ writer[w].pc = pc /\ writer'[w].pc = pc /\ writer'[w].at = writer[w].at + 1

\* The step of its own that each action makes a writer take, and who may take it.
LEMMA Shape ==
  ASSUME WriterType, NEW w \in Writers
  PROVE  /\ Lock(w) => Moves(w, "start", {"flag"})
         /\ TryStart(w) =>
              \/ Moves(w, "flag", {"refused"}) /\ w \in Updating
              \/ Moves(w, "flag", {"claim"}) /\ w \in Claiming
              \/ Moves(w, "flag", {"edit"}) /\ w \notin Claiming
         /\ Claim(w) =>
              \/ Passes(w, "claim", "edit") /\ try_claim(Layer(w), w)
              \/ /\ writer[w].pc = "claim" /\ writer'[w].pc = "give up" /\ writer'[w].at = writer[w].at
                 /\ UNCHANGED layers
         /\ GiveUp(w) =>
              \/ writer[w].at = 1 /\ Moves(w, "give up", {"rolled back"}) /\ UNCHANGED layers
              \/ /\ writer[w].at # 1 /\ writer[w].pc = "give up" /\ writer'[w].pc = "give up"
                 /\ writer'[w].at = writer[w].at - 1 /\ release(Uses[w][writer[w].at - 1])
         /\ Stage(w) => Passes(w, "edit", "work")
         /\ Work(w) => Moves(w, "work", {"apply"}) \/ (Moves(w, "work", {"discard"}) /\ w \in Fallible)
         /\ Apply(w) => \/ Passes(w, "apply", "release") /\ w \in Claiming
                        \/ Passes(w, "apply", "committed") /\ w \notin Claiming
         /\ Discard(w) => writer[w].pc = "discard" /\ writer'[w].pc = "discarded" /\ writer'[w].at = writer[w].at
         /\ Discarded(w) =>
              \/ writer[w].at = Len(Uses[w]) /\ Moves(w, "discarded", {"rolled back"})
              \/ /\ writer[w].at # Len(Uses[w]) /\ writer[w].pc = "discarded" /\ writer'[w].pc = "discard"
                 /\ writer'[w].at = writer[w].at + 1
         /\ Release(w) => Passes(w, "release", "committed")
         /\ FinishUpdate(w) => Moves(w, "committed", {"saved"}) \/ Moves(w, "rolled back", {"refused"})
         /\ Unlock(w) => Moves(w, "saved", {"done"}) \/ Moves(w, "refused", {"undone"})
<1>1. \A pc \in WriterPc : Goto(w, pc) => writer'[w].pc = pc /\ writer'[w].at = 1
  BY Went
<1>2. \A then \in WriterPc : Advance(w, then) =>
        \/ writer[w].at = Len(Uses[w]) /\ writer'[w].pc = then /\ writer'[w].at = 1
        \/ /\ writer[w].at # Len(Uses[w])
           /\ writer'[w].pc = writer[w].pc /\ writer'[w].at = writer[w].at + 1
  BY Advanced
<1> USE DEF Pc, Moves, Passes
<1>3. Lock(w) => Moves(w, "start", {"flag"})
  BY <1>1 DEF Lock, WriterPc
<1>4. TryStart(w) =>
        \/ Moves(w, "flag", {"refused"}) /\ w \in Updating
        \/ Moves(w, "flag", {"claim"}) /\ w \in Claiming
        \/ Moves(w, "flag", {"edit"}) /\ w \notin Claiming
  BY <1>1 DEF TryStart, WriterPc
<1>5. Claim(w) =>
        \/ Passes(w, "claim", "edit") /\ try_claim(Layer(w), w)
        \/ /\ writer[w].pc = "claim" /\ writer'[w].pc = "give up" /\ writer'[w].at = writer[w].at
           /\ UNCHANGED layers
  BY <1>2 DEF Claim, WriterPc, WriterType
<1>6. GiveUp(w) =>
        \/ writer[w].at = 1 /\ Moves(w, "give up", {"rolled back"}) /\ UNCHANGED layers
        \/ /\ writer[w].at # 1 /\ writer[w].pc = "give up" /\ writer'[w].pc = "give up"
           /\ writer'[w].at = writer[w].at - 1 /\ release(Uses[w][writer[w].at - 1])
  BY <1>1 DEF GiveUp, WriterPc, WriterType
<1>7. Stage(w) => Passes(w, "edit", "work")
  BY <1>2 DEF Stage, WriterPc
<1>8. Work(w) => Moves(w, "work", {"apply"}) \/ (Moves(w, "work", {"discard"}) /\ w \in Fallible)
  <2>1. Goto(w, "apply") => writer'[w].pc = "apply" /\ writer'[w].at = 1
    BY <1>1 DEF WriterPc
  <2>2. Goto(w, "discard") => writer'[w].pc = "discard" /\ writer'[w].at = 1
    BY <1>1 DEF WriterPc
  <2> QED
    BY <2>1, <2>2 DEF Work
<1>9. Apply(w) => \/ Passes(w, "apply", "release") /\ w \in Claiming
                  \/ Passes(w, "apply", "committed") /\ w \notin Claiming
  BY <1>2 DEF Apply, WriterPc
<1>10. Discard(w) => writer[w].pc = "discard" /\ writer'[w].pc = "discarded" /\ writer'[w].at = writer[w].at
  BY DEF Discard, WriterType
<1>11. Discarded(w) =>
         \/ writer[w].at = Len(Uses[w]) /\ Moves(w, "discarded", {"rolled back"})
         \/ /\ writer[w].at # Len(Uses[w]) /\ writer[w].pc = "discarded" /\ writer'[w].pc = "discard"
            /\ writer'[w].at = writer[w].at + 1
  <2>1. Goto(w, "rolled back") => writer'[w].pc = "rolled back" /\ writer'[w].at = 1
    BY <1>1 DEF WriterPc
  <2>2. ASSUME writer' = [writer EXCEPT ![w] = [pc |-> "discard", at |-> writer[w].at + 1]]
        PROVE  writer'[w].pc = "discard" /\ writer'[w].at = writer[w].at + 1
    BY <2>2 DEF WriterType
  <2> QED
    BY <2>1, <2>2 DEF Discarded
<1>12. Release(w) => Passes(w, "release", "committed")
  BY <1>2 DEF Release, WriterPc
<1>13. FinishUpdate(w) => Moves(w, "committed", {"saved"}) \/ Moves(w, "rolled back", {"refused"})
  BY <1>1 DEF FinishUpdate, WriterPc
<1>14. Unlock(w) => Moves(w, "saved", {"done"}) \/ Moves(w, "refused", {"undone"})
  BY <1>1 DEF Unlock, WriterPc
<1> QED
  BY <1>3, <1>4, <1>5, <1>6, <1>7, <1>8, <1>9, <1>10, <1>11, <1>12, <1>13, <1>14

\* The lock, the flag and the claims are their holders'.
LEMMA ExclusiveKept ==
  ASSUME DraftsInv, NEW w \in Writers, WriterStep(w)
  PROVE  UnderLock' /\ UnderFlag' /\ InTransaction' /\ Requested'
<1> WriterType /\ InTransaction
  BY DEF DraftsInv
<1>1. WriterType' /\ \A v \in Writers \ {w} : writer'[v] = writer[v]
  BY Stepped
<1>2. UnderLock'
  <2>1. CASE Lock(w) \/ Unlock(w)
    <3> SUFFICES ASSUME NEW v \in Locking, Holds(v)' PROVE lock' = v
      BY DEF UnderLock
    <3>1. v \in Writers /\ v # NoOperation
      BY WritersAssumption, OperationsAssumption DEF Operations
    <3>2. CASE v = w
      BY <2>1, <3>2, Shape DEF Lock, Unlock, Moves, Holds
    <3>3. CASE v # w
      <4>1. lock = v
        BY <1>1, <3>1, <3>3 DEF Holds, DraftsInv, Exclusive, UnderLock
      <4>2. w \in Locking => ~Unlock(w) 
        BY <3>3, <4>1, Shape DEF Moves, Holds, DraftsInv, Exclusive, UnderLock
      <4> QED
        BY <2>1, <3>1, <4>1, <4>2 DEF Lock, Unlock
    <3> QED
      BY <3>2, <3>3
  <2>2. CASE ~Lock(w) /\ ~Unlock(w)
    <3>1. lock' = lock
      BY <2>2 DEF WriterStep, TryStart, Claim, GiveUp, Stage, Work, Apply, Discard, Discarded, Release, FinishUpdate,
                  exclusion
    <3>2. Holds(w)
      BY <2>2, Shape DEF WriterStep, Moves, Passes, Holds
    <3> QED
      BY <1>1, <3>1, <3>2, WritersAssumption DEF UnderLock, Holds, DraftsInv, Exclusive
  <2> QED
    BY <2>1, <2>2
<1>3. UnderFlag'
  <2>1. CASE TryStart(w) \/ FinishUpdate(w)
    <3> SUFFICES ASSUME NEW v \in Updating, Marks(v)' PROVE updating' = v
      BY DEF UnderFlag
    <3>1. v \in Writers /\ v # NoOperation
      BY WritersAssumption, OperationsAssumption DEF Operations
    <3>2. CASE v = w
      <4>1. TryStart(w)
        BY <2>1, <3>2, Shape DEF Moves, Marks
      <4>2. updating = NoOperation
        <5>1. CASE updating # NoOperation
          BY <3>2, <4>1, <5>1, Went, "refused" \in WriterPc DEF TryStart, Marks, WriterPc
        <5> QED
          BY <5>1
      <4> QED
        BY <3>2, <4>1, <4>2 DEF TryStart
    <3>3. CASE v # w
      <4>1. updating = v
        BY <1>1, <3>1, <3>3 DEF Marks, DraftsInv, Exclusive, UnderFlag
      <4>2. w \in Updating => ~FinishUpdate(w)
        BY <3>3, <4>1, Shape DEF Moves, Marks, DraftsInv, Exclusive, UnderFlag
      <4> QED
        BY <2>1, <3>1, <4>1, <4>2 DEF TryStart, FinishUpdate
    <3> QED
      BY <3>2, <3>3
  <2>2. CASE ~TryStart(w) /\ ~FinishUpdate(w)
    <3>1. updating' = updating
      BY <2>2 DEF WriterStep, Lock, Unlock, Claim, GiveUp, Stage, Work, Apply, Discard, Discarded, Release, exclusion
    <3>2. Marks(w)' => Marks(w)
      BY <2>2, Shape DEF WriterStep, Moves, Passes, Marks
    <3> QED
      BY <1>1, <3>1, <3>2, WritersAssumption DEF UnderFlag, Marks, DraftsInv, Exclusive
  <2> QED
    BY <2>1, <2>2
<1>4. InTransaction'
  BY <1>1, Shape, WritersAssumption DEF WriterStep, Moves, Passes, InTransaction
<1>5. Requested'
  BY <1>1, Stepped DEF DraftsInv, Requested
<1> QED
  BY <1>2, <1>3, <1>4, <1>5

\* Layers before and after the next one.
LEMMA Order ==
  ASSUME NEW w \in Writers, NEW i \in Places(w), NEW at \in Places(w)
  PROVE  /\ ~(i < 1) /\ i >= 1
         /\ i < at + 1 => i < at \/ i = at
         /\ i < at - 1 => i < at /\ i # at - 1
         /\ i >= at + 1 => i >= at /\ i # at
         /\ i < at \/ i >= at
         /\ at = Len(Uses[w]) => i < at \/ i = at
BY UsesFact DEF Places

\* What a step leaves claimed was claimed, but for the layer it is at.
LEMMA ClaimsOfOwn ==
  ASSUME WriterType, InTransaction, NEW w \in Writers, NEW i \in Places(w), Claims(w, i)', WriterStep(w), w \in Claiming
  PROVE  /\ Claims(w, i) \/ (Claim(w) /\ i = writer[w].at)
         /\ Claim(w) => Passes(w, "claim", "edit") \/ i < writer[w].at
         /\ GiveUp(w) => writer[w].at # 1 /\ i # writer[w].at - 1
         /\ Discarded(w) \/ Release(w) => i # writer[w].at
<1>1. i \in Places(w) /\ writer[w].at \in Places(w)
  BY DEF WriterType
<1>2. /\ ~(i < 1) /\ i >= 1
      /\ i < writer[w].at + 1 => i < writer[w].at \/ i = writer[w].at
      /\ i < writer[w].at - 1 => i < writer[w].at /\ i # writer[w].at - 1
      /\ i >= writer[w].at + 1 => i >= writer[w].at /\ i # writer[w].at
      /\ i < writer[w].at \/ i >= writer[w].at
      /\ writer[w].at = Len(Uses[w]) => i < writer[w].at \/ i = writer[w].at
  BY <1>1, Order
<1>3. CASE Claim(w)
  <2>1. /\ writer[w].pc = "claim" /\ ~GiveUp(w) /\ ~Discarded(w) /\ ~Release(w)
        /\ \/ Passes(w, "claim", "edit")
           \/ writer'[w].pc = "give up" /\ writer'[w].at = writer[w].at
    BY <1>3, Shape DEF Moves, Passes
  <2> QED
    BY <1>2, <1>3, <2>1 DEF Claims, Moves, Passes
<1>4. CASE GiveUp(w)
  <2>1. /\ writer[w].pc = "give up" /\ ~Claim(w) /\ ~Discarded(w) /\ ~Release(w)
        /\ \/ writer'[w].pc = "rolled back"
           \/ writer[w].at # 1 /\ writer'[w].pc = "give up" /\ writer'[w].at = writer[w].at - 1
    BY <1>4, Shape DEF Moves, Passes
  <2> QED
    BY <1>2, <2>1 DEF Claims
<1>5. CASE Discarded(w)
  <2>1. /\ writer[w].pc = "discarded" /\ ~Claim(w) /\ ~GiveUp(w)
        /\ \/ writer'[w].pc = "rolled back"
           \/ writer'[w].pc = "discard" /\ writer'[w].at = writer[w].at + 1
    BY <1>5, Shape DEF Moves, Passes
  <2> QED
    BY <1>2, <2>1 DEF Claims
<1>6. CASE Release(w)
  <2>1. /\ writer[w].pc = "release" /\ ~Claim(w) /\ ~GiveUp(w)
        /\ \/ writer'[w].pc = "committed"
           \/ writer'[w].pc = "release" /\ writer'[w].at = writer[w].at + 1
    BY <1>6, Shape DEF Moves, Passes
  <2> QED
    BY <1>2, <2>1 DEF Claims
<1>7. CASE ~(Claim(w) \/ GiveUp(w) \/ Discarded(w) \/ Release(w))
  <2>1. writer'[w].pc \in {"claim", "edit", "work", "apply", "discard", "discarded", "release"}
    BY <1>7, Shape DEF WriterStep, Claims, Moves, Passes
  <2>2. \/ writer[w].pc \in {"edit", "work", "apply"}
        \/ writer[w].pc = "flag" /\ writer'[w].pc = "claim" /\ writer'[w].at = 1
        \/ writer[w].pc = "discard" /\ writer'[w].pc = "discarded" /\ writer'[w].at = writer[w].at
    BY <1>7, <2>1, Shape DEF WriterStep, Moves, Passes
  <2> QED
    BY <1>2, <1>7, <2>2 DEF Claims
<1> QED
  BY <1>3, <1>4, <1>5, <1>6, <1>7

\* A claim is its holder's to give up.
LEMMA ClaimKept ==
  ASSUME Apart, DraftsInv, NEW w \in Writers, WriterStep(w)
  PROVE  UnderClaim'
<1> WriterType /\ InTransaction /\ UnderClaim /\ claimed \in [Layers -> Claiming \cup {NoOperation}]
  BY DEF DraftsInv, LayerType, Exclusive
<1> SUFFICES ASSUME NEW v \in Claiming, NEW i \in Places(v), Claims(v, i)' PROVE claimed'[Uses[v][i]] = v
  BY DEF UnderClaim
<1>1. v \in Writers /\ v # NoOperation /\ Uses[v][i] \in Layers
  BY UsesFact, WritersAssumption, OperationsAssumption DEF Operations, Transacted
<1>2. v # w => Claims(v, i)
  BY <1>1, Stepped DEF Claims
<1>3. Claims(v, i) => claimed[Uses[v][i]] = v
  BY DEF UnderClaim
<1>4. CASE Claim(w)
  <2>1. CASE try_claim(Layer(w), w)
    <3>1. CASE Claims(v, i)
      BY <1>1, <1>3, <2>1, <3>1 DEF try_claim
    <3>2. CASE ~Claims(v, i)
      <4>1. v = w /\ i = writer[w].at
        BY <1>2, <3>2, ClaimsOfOwn
      <4> QED
        BY <1>1, <2>1, <4>1 DEF try_claim, Layer
    <3> QED
      BY <3>1, <3>2
  <2>2. CASE ~try_claim(Layer(w), w)
    <3>1. claimed' = claimed /\ ~Passes(w, "claim", "edit")
      BY <1>4, <2>2, Shape DEF layers, Passes, Moves
    <3>2. Claims(v, i)
      <4>1. CASE v = w
        <5>1. i # writer[w].at
          BY <1>1, <1>4, <3>1, <4>1, ClaimsOfOwn, Order DEF WriterType
        <5> QED
          BY <4>1, <5>1, ClaimsOfOwn
      <4> QED
        BY <1>2, <4>1
    <3> QED
      BY <1>3, <3>1, <3>2
  <2> QED
    BY <2>1, <2>2
<1>5. ASSUME NEW k \in Places(w), release(Uses[w][k]), Claims(w, k), w \in Claiming, ~Claim(w), v = w => i # k
      PROVE  claimed'[Uses[v][i]] = v
  <2>1. Claims(v, i)
    BY <1>2, <1>5, ClaimsOfOwn
  <2>2. claimed[Uses[w][k]] = w
    BY <1>5 DEF UnderClaim
  <2>3. Uses[v][i] # Uses[w][k]
    BY <1>1, <1>3, <1>5, <2>1, <2>2 DEF Apart
  <2> QED
    BY <1>1, <1>3, <1>5, <2>1, <2>3 DEF release
<1>6. CASE GiveUp(w)
  <2>1. CASE writer[w].at # 1
    <3> DEFINE k == writer[w].at - 1
    <3>1. k \in Places(w) /\ k < writer[w].at
      BY <2>1, UsesFact DEF WriterType, Places
    <3>2. release(Uses[w][k]) /\ writer[w].pc = "give up" /\ ~Claim(w)
      BY <1>6, <2>1, Shape DEF Moves, Passes
    <3>3. v = w => i # k
      BY <1>6, ClaimsOfOwn
    <3> HIDE DEF k
    <3> QED
      BY <1>5, <3>1, <3>2, <3>3 DEF Claims, InTransaction
  <2>2. CASE writer[w].at = 1
    <3>1. claimed' = claimed /\ writer'[w].pc = "rolled back" /\ ~Claim(w)
      BY <1>6, <2>2, Shape DEF Moves, Passes, layers
    <3>2. Claims(v, i)
      BY <1>2, <3>1, ClaimsOfOwn
    <3> QED
      BY <1>3, <3>1, <3>2
  <2> QED
    BY <2>1, <2>2
<1>7. CASE Discarded(w) \/ Release(w)
  <2>1. release(Layer(w)) /\ writer[w].pc \in {"discarded", "release"} /\ ~Claim(w)
    BY <1>7, Shape DEF Discarded, Release, Moves, Passes
  <2>2. v = w => i # writer[w].at
    BY <1>7, ClaimsOfOwn
  <2>3. writer[w].at \in Places(w) /\ writer[w].at >= writer[w].at
    BY UsesFact DEF WriterType, Places
  <2> QED
    BY <1>5, <2>1, <2>2, <2>3 DEF Claims, InTransaction, Layer
<1>8. CASE ~(Claim(w) \/ GiveUp(w) \/ Discarded(w) \/ Release(w))
  <2>1. claimed' = claimed
    BY <1>8 DEF WriterStep, Lock, TryStart, Stage, Work, Apply, Discard, FinishUpdate, Unlock, layers, edit_draft, apply,
                discard
  <2>2. Claims(v, i)
    BY <1>2, <1>8, ClaimsOfOwn
  <2> QED
    BY <1>3, <2>1, <2>2
<1> QED
  BY <1>4, <1>6, <1>7, <1>8

-----------------------------------------------------------------------------
(* What the layers hold                                                      *)

\* The calls on a layer stay in type.
LEMMA CallType ==
  ASSUME LayerType, NEW l \in Layers, NEW op \in Operations, edit_draft(l, op) \/ apply(l) \/ discard(l)
  PROVE  LayerType'
<1>1. draft[l] \in [staged : BOOLEAN, value : SUBSET Operations] /\ data[l] \in SUBSET Operations
  BY DEF LayerType
<1>2. CASE edit_draft(l, op)
  <2>1. latest_arc(l) \cup {op} \in SUBSET Operations
    BY <1>1 DEF latest_arc
  <2> QED
    BY <1>2, <2>1 DEF edit_draft, LayerType
<1>3. CASE apply(l)
  BY <1>1, <1>3 DEF apply, NoDraft, LayerType
<1>4. CASE discard(l)
  BY <1>4 DEF discard, NoDraft, LayerType
<1> QED
  BY <1>2, <1>3, <1>4

\* Where a writer is at a layer, and what becomes of its draft and its change.
LEMMA Own ==
  ASSUME WriterType, InTransaction, NEW w \in Writers, NEW i \in Places(w), WriterStep(w)
  PROVE  /\ Staging(w, i) => Claims(w, i)
         /\ Staging(w, i)' => Staging(w, i) \/ (Stage(w) /\ i = writer[w].at)
         /\ Staging(w, i) => Staging(w, i)' \/ ((Apply(w) \/ Discard(w)) /\ i = writer[w].at)
         /\ Committed(w, i) => Committed(w, i)'
         /\ Stage(w) /\ i = writer[w].at => ~Staging(w, i) /\ Staging(w, i)' /\ Claims(w, i)
         /\ Apply(w) /\ i = writer[w].at => Staging(w, i) /\ ~Staging(w, i)' /\ Committed(w, i)'
         /\ Discard(w) /\ i = writer[w].at => Staging(w, i) /\ ~Staging(w, i)'
<1>1. /\ ~(i < 1) /\ i >= 1 /\ (i < writer[w].at \/ i >= writer[w].at) /\ ~(i < i) /\ i >= i
      /\ writer[w].at \in Places(w) /\ i < i + 1 /\ ~(i >= i + 1)
      /\ i < writer[w].at + 1 => i < writer[w].at \/ i = writer[w].at
      /\ i < writer[w].at => i < writer[w].at + 1 /\ i # writer[w].at /\ ~(i >= writer[w].at) /\ ~(i > writer[w].at)
      /\ i >= writer[w].at => i = writer[w].at \/ i >= writer[w].at + 1
      /\ i >= writer[w].at + 1 => i >= writer[w].at /\ i # writer[w].at /\ i > writer[w].at
      /\ i > writer[w].at => i >= writer[w].at /\ i # writer[w].at /\ i >= writer[w].at + 1
      /\ writer[w].at = Len(Uses[w]) => ~(i > writer[w].at) /\ (i >= writer[w].at => i = writer[w].at)
  BY UsesFact DEF WriterType, Places
<1>2. CASE Stage(w)
  <2>1. Passes(w, "edit", "work") /\ ~Apply(w) /\ ~Discard(w)
    BY <1>2, Shape DEF Moves, Passes
  <2> QED
    BY <1>1, <1>2, <2>1 DEF Staging, Claims, Committed, Moves, Passes
<1>3. CASE Apply(w)
  <2>1. ~Stage(w) /\ ~Discard(w) /\ (Passes(w, "apply", "release") \/ Passes(w, "apply", "committed"))
    BY <1>3, Shape DEF Moves, Passes
  <2> QED
    BY <1>1, <1>3, <2>1 DEF Staging, Claims, Committed, Moves, Passes
<1>4. CASE Discard(w)
  <2>1. /\ ~Stage(w) /\ ~Apply(w)
        /\ writer[w].pc = "discard" /\ writer'[w].pc = "discarded" /\ writer'[w].at = writer[w].at
    BY <1>4, Shape DEF Moves, Passes
  <2> QED
    BY <1>1, <1>4, <2>1 DEF Staging, Claims, Committed
<1>5. CASE Discarded(w)
  <2>1. /\ ~Stage(w) /\ ~Apply(w) /\ ~Discard(w) /\ writer[w].pc = "discarded"
        /\ \/ writer[w].at = Len(Uses[w]) /\ writer'[w].pc = "rolled back"
           \/ writer'[w].pc = "discard" /\ writer'[w].at = writer[w].at + 1
    BY <1>5, Shape DEF Moves, Passes
  <2> QED
    BY <1>1, <2>1 DEF Staging, Claims, Committed
<1>6. CASE Work(w)
  <2>1. /\ ~Stage(w) /\ ~Apply(w) /\ ~Discard(w)
        /\ writer[w].pc = "work" /\ writer'[w].pc \in {"apply", "discard"} /\ writer'[w].at = 1
    BY <1>6, Shape DEF Moves, Passes
  <2> QED
    BY <1>1, <2>1 DEF Staging, Claims, Committed
<1>7. CASE Lock(w) \/ TryStart(w) \/ Claim(w) \/ GiveUp(w)
  <2>1. /\ ~Stage(w) /\ ~Apply(w) /\ ~Discard(w)
        /\ writer[w].pc \in {"start", "flag", "claim", "give up"}
        /\ \/ writer'[w].pc \in {"flag", "refused", "claim", "give up", "rolled back"}
           \/ writer'[w].pc = "edit" /\ writer'[w].at = 1
    BY <1>7, Shape DEF Moves, Passes
  <2> QED
    BY <1>1, <2>1 DEF Staging, Claims, Committed
<1>8. CASE Release(w) \/ FinishUpdate(w) \/ Unlock(w)
  <2>1. /\ ~Stage(w) /\ ~Apply(w) /\ ~Discard(w)
        /\ \/ /\ writer[w].pc \in {"release", "committed", "saved"}
              /\ writer'[w].pc \in {"release", "committed", "saved", "done"}
           \/ writer[w].pc \in {"rolled back", "refused"} /\ writer'[w].pc \in {"refused", "undone"}
    BY <1>8, Shape DEF Moves, Passes
  <2> QED
    BY <1>1, <2>1 DEF Staging, Claims, Committed
<1> QED
  BY <1>2, <1>3, <1>4, <1>5, <1>6, <1>7, <1>8 DEF WriterStep

\* What is staged is somebody's at the layer.
LEMMA Theirs ==
  ASSUME WriterType, InTransaction, NEW w \in Writers, WriterStep(w), NEW v \in Writers \ {w}, NEW i \in Places(v)
  PROVE  /\ Staging(v, i)' <=> Staging(v, i)
         /\ Committed(v, i)' <=> Committed(v, i)
         /\ Staging(v, i) => Claims(v, i)
<1>1. writer'[v] = writer[v] /\ writer[v].at \in Nat /\ i \in Nat
  BY Stepped, UsesFact DEF WriterType
<1>2. i > writer[v].at => i >= writer[v].at
  BY <1>1
<1> QED
  BY <1>1, <1>2 DEF Staging, Committed, Claims

\* A step that changes no layer.
LEMMA ContentsRest ==
  ASSUME DraftsInv, NEW w \in Writers, WriterStep(w), ~(Stage(w) \/ Apply(w) \/ Discard(w))
  PROVE  Contents' /\ UNCHANGED <<data, draft>>
<1> WriterType /\ InTransaction /\ Contents
  BY DEF DraftsInv
<1>1. UNCHANGED <<data, draft>>
  BY DEF WriterStep, Lock, TryStart, Claim, GiveUp, Work, Discarded, Release, FinishUpdate, Unlock, layers, try_claim,
         release
<1>2. \A v \in Writers : \A i \in Places(v) :
        (Staging(v, i)' <=> Staging(v, i)) /\ (Committed(v, i) => Committed(v, i)')
  BY Own, Theirs
<1> QED
  BY <1>1, <1>2 DEF Contents, OneChange, NothingStale, Meant

\* A layer that is staged, committed or discarded was nobody else's.
LEMMA ContentsOfLayer ==
  ASSUME Apart, DraftsInv, NEW w \in Writers, WriterStep(w), NEW l \in Transacted,
         l = Layer(w), Stage(w) \/ Apply(w) \/ Discard(w)
  PROVE  \A v \in Writers : \A i \in Places(v) :
           IF Uses[v][i] = l THEN /\ Staging(v, i)  => v = w /\ i = writer[w].at /\ ~Stage(w)
                                  /\ Staging(v, i)' => v = w /\ i = writer[w].at /\ Stage(w)
                             ELSE Staging(v, i)' <=> Staging(v, i)
<1> WriterType /\ InTransaction
  BY DEF DraftsInv
<1>1. writer[w].at \in Places(w) /\ Uses[w][writer[w].at] = l /\ Claims(w, writer[w].at)
  BY Own DEF WriterType, Layer
<1> TAKE v \in Writers
<1> TAKE i \in Places(v)
<1>2. CASE v = w
  <2>1. Uses[w][i] = l => i = writer[w].at
    BY <1>1, <1>2 DEF Apart
  <2> QED
    BY <1>1, <1>2, <2>1, Own
<1>3. CASE v # w
  <2>1. Uses[v][i] = l => ~Staging(v, i)
    BY <1>1, <1>3, Theirs, Alone
  <2> QED
    BY <1>3, <2>1, Theirs
<1> QED
  BY <1>2, <1>3

\* Staging adds one change, to a layer without a draft.
LEMMA StageKeeps ==
  ASSUME Apart, DraftsInv, NEW w \in Writers, Stage(w)
  PROVE  Contents' /\ UNCHANGED data
<1> WriterType /\ InTransaction /\ LayerType /\ OneChange /\ NothingStale /\ Meant
  BY DEF DraftsInv, Contents
<1> DEFINE l == Layer(w)
<1>1. WriterStep(w) /\ l \in Transacted /\ l \in Layers /\ writer[w].at \in Places(w) /\ Uses[w][writer[w].at] = l
  BY UsesFact DEF WriterStep, WriterType, Layer, Transacted
<1> HIDE DEF l
<1>2. \A v \in Writers : \A i \in Places(v) :
        IF Uses[v][i] = l THEN ~Staging(v, i) /\ (Staging(v, i)' => v = w)
                          ELSE Staging(v, i)' <=> Staging(v, i)
  BY <1>1, ContentsOfLayer DEF l
<1>3. draft[l] = NoDraft
  BY <1>1, <1>2 DEF NothingStale
<1>4. data' = data /\ draft' = [draft EXCEPT ![l] = [staged |-> TRUE, value |-> data[l] \cup {w}]]
  BY <1>3 DEF Stage, edit_draft, latest_arc, NoDraft, l
<1>5. OneChange'
  <2> SUFFICES ASSUME NEW v \in Writers, NEW i \in Places(v), Staging(v, i)'
               PROVE  draft'[Uses[v][i]] = [staged |-> TRUE, value |-> data'[Uses[v][i]] \cup {v}]
    BY DEF OneChange
  <2>1. Uses[v][i] \in Layers
    BY UsesFact DEF Transacted
  <2>2. CASE Uses[v][i] = l
    BY <1>1, <1>2, <1>4, <2>2 DEF LayerType
  <2>3. CASE Uses[v][i] # l
    BY <1>1, <1>2, <1>4, <2>1, <2>3 DEF LayerType, OneChange
  <2> QED
    BY <2>2, <2>3
<1>6. NothingStale'
  <2> SUFFICES ASSUME NEW k \in Transacted, draft'[k] # NoDraft
               PROVE  \E v \in Writers : \E i \in Places(v) : Uses[v][i] = k /\ Staging(v, i)'
    BY DEF NothingStale
  <2>1. CASE k = l
    BY <1>1, <2>1, Own
  <2>2. CASE k # l
    <3>1. draft'[k] = draft[k]
      BY <1>4, <2>2 DEF LayerType, Transacted
    <3> QED
      BY <1>2, <2>2, <3>1 DEF NothingStale
  <2> QED
    BY <2>1, <2>2
<1>7. Meant'
  BY <1>1, <1>4, Own, Theirs DEF Meant
<1> QED
  BY <1>4, <1>5, <1>6, <1>7 DEF Contents

\* Committing makes one change; discarding none.
LEMMA EndKeeps ==
  ASSUME Apart, DraftsInv, NEW w \in Writers, Apply(w) \/ Discard(w)
  PROVE  /\ Contents' /\ Layer(w) \in Transacted
         /\ Apply(w) => data' = [data EXCEPT ![Layer(w)] = @ \cup {w}]
         /\ Discard(w) => UNCHANGED data
<1> WriterType /\ InTransaction /\ LayerType /\ OneChange /\ NothingStale /\ Meant
  BY DEF DraftsInv, Contents
<1> DEFINE l == Layer(w)
<1>1. WriterStep(w) /\ l \in Transacted /\ l \in Layers /\ writer[w].at \in Places(w) /\ Uses[w][writer[w].at] = l
  BY UsesFact DEF WriterStep, WriterType, Layer, Transacted
<1>2. ~Stage(w) /\ ~(Apply(w) /\ Discard(w))
  BY Shape DEF Moves, Passes
<1>3. draft' = [draft EXCEPT ![l] = NoDraft]
  BY DEF Apply, Discard, apply, discard
<1>4. draft[l] = [staged |-> TRUE, value |-> data[l] \cup {w}]
  BY <1>1, Own DEF OneChange
<1>5. data' = [data EXCEPT ![l] = IF Apply(w) THEN @ \cup {w} ELSE @]
  <2>1. CASE Apply(w)
    BY <1>4, <2>1 DEF Apply, apply
  <2>2. CASE Discard(w)
    BY <1>1, <1>2, <2>2 DEF Discard, discard, LayerType
  <2> QED
    BY <2>1, <2>2
<1> HIDE DEF l
<1>6. \A v \in Writers : \A i \in Places(v) :
        IF Uses[v][i] = l THEN ~Staging(v, i)' ELSE Staging(v, i)' <=> Staging(v, i)
  BY <1>1, <1>2, ContentsOfLayer DEF l
<1>7. OneChange'
  <2> SUFFICES ASSUME NEW v \in Writers, NEW i \in Places(v), Staging(v, i)'
               PROVE  draft'[Uses[v][i]] = [staged |-> TRUE, value |-> data'[Uses[v][i]] \cup {v}]
    BY DEF OneChange
  <2>1. Uses[v][i] \in Layers /\ Uses[v][i] # l /\ Staging(v, i)
    BY <1>6, UsesFact DEF Transacted
  <2>2. draft'[Uses[v][i]] = draft[Uses[v][i]] /\ data'[Uses[v][i]] = data[Uses[v][i]]
    BY <1>3, <1>5, <2>1 DEF LayerType
  <2> QED
    BY <2>1, <2>2 DEF OneChange
<1>8. NothingStale'
  <2> SUFFICES ASSUME NEW k \in Transacted, draft'[k] # NoDraft
               PROVE  \E v \in Writers : \E i \in Places(v) : Uses[v][i] = k /\ Staging(v, i)'
    BY DEF NothingStale
  <2>1. k # l /\ draft'[k] = draft[k]
    BY <1>1, <1>3 DEF LayerType, Transacted
  <2> QED
    BY <1>6, <2>1 DEF NothingStale
<1>9. Meant'
  <2> SUFFICES ASSUME NEW k \in Transacted, NEW v \in Writers, v \in data'[k]
               PROVE  \E i \in Places(v) : Uses[v][i] = k /\ Committed(v, i)'
    BY DEF Meant
  <2>1. CASE v \in data[k]
    BY <1>1, <2>1, Own, Theirs DEF Meant
  <2>2. CASE v \notin data[k]
    <3>1. k = l /\ v = w /\ Apply(w)
      BY <1>1, <1>5, <2>2 DEF LayerType, Transacted
    <3> QED
      BY <1>1, <3>1, Own
  <2> QED
    BY <2>1, <2>2
<1>10. /\ Apply(w) => data' = [data EXCEPT ![Layer(w)] = @ \cup {w}]
       /\ Discard(w) => UNCHANGED data
  BY <1>1, <1>2, <1>5 DEF l, LayerType
<1> QED
  BY <1>1, <1>7, <1>8, <1>9, <1>10 DEF Contents, l

-----------------------------------------------------------------------------
(* The modifiers, who keep to the profiles                                   *)

\* A modifier's step.
LEMMA StepType ==
  ASSUME NEW to \in ModifierPc, NEW them \in [Modifiers -> [pc : ModifierPc, read : SUBSET Modifiers, saw : Nat]],
         NEW m \in Modifiers
  PROVE  [them EXCEPT ![m].pc = to] \in [Modifiers -> [pc : ModifierPc, read : SUBSET Modifiers, saw : Nat]]
OBVIOUS

\* What a modifier calls of the profiles' layer.
LEMMA ModifierCalls ==
  ASSUME DraftsInv, NEW m \in Modifiers, ModifierStep(m)
  PROVE  /\ UNCHANGED <<claimed, lock, updating, writer>>
         /\ \/ edit_draft(Profiles, m) \/ apply(Profiles) \/ discard(Profiles)
            \/ UNCHANGED <<data, version, draft>>
            \/ /\ data' = [data EXCEPT ![Profiles] = modifier[m].read \cup {m}]
               /\ version' = [version EXCEPT ![Profiles] = @ + 1] /\ UNCHANGED draft
BY DEF ModifierStep, TryPermit, AwaitPermit, Read, Commit, ReleasePermit, NotifyOne, StageSwitch, Switched, SwitchFailed,
       StageRestore, ApplyRestore, Step, edit_draft, apply, discard, layers, exclusion

\* The profiles hold the modifiers' changes alone.
LEMMA ModifierTypeKept ==
  ASSUME DraftsInv, NEW m \in Modifiers, ModifierStep(m)
  PROVE  ModifierType' /\ LayerType' /\ \A l \in Transacted : data'[l] = data[l] /\ draft'[l] = draft[l]
<1> LayerType /\ ModifierType
  BY DEF DraftsInv
<1>1. m \in Operations /\ Profiles \in Layers /\ Modifiers \subseteq Operations
  BY OperationsAssumption DEF Operations
<1>2. modifier[m] \in [pc : ModifierPc, read : SUBSET Modifiers, saw : Nat]
  BY DEF ModifierType
<1>3. modifier' \in [Modifiers -> [pc : ModifierPc, read : SUBSET Modifiers, saw : Nat]]
  <2>1. CASE Read(m)
    <3>1. "modify" \in ModifierPc /\ data[Profiles] \in SUBSET Modifiers /\ version[Profiles] \in Nat
      BY <1>1 DEF ModifierPc, ModifierType, LayerType
    <3>2. [pc |-> "modify", read |-> data[Profiles], saw |-> version[Profiles]]
            \in [pc : ModifierPc, read : SUBSET Modifiers, saw : Nat]
      BY <3>1
    <3> QED
      BY <2>1, <3>2 DEF Read, ModifierType
  <2>2. CASE NotifyOne(m)
    <3>1. {"done", "again"} \subseteq ModifierPc
      BY DEF ModifierPc
    <3>2. CASE modifier' = [modifier EXCEPT ![m].pc = "done"]
      BY <3>1, <3>2, StepType DEF ModifierType
    <3>3. ASSUME NEW n \in Modifiers, modifier' = [modifier EXCEPT ![m].pc = "done", ![n].pc = "again"]
          PROVE  modifier' \in [Modifiers -> [pc : ModifierPc, read : SUBSET Modifiers, saw : Nat]]
      <4> DEFINE them == [modifier EXCEPT ![m].pc = "done"]
      <4>1. them \in [Modifiers -> [pc : ModifierPc, read : SUBSET Modifiers, saw : Nat]]
        BY <3>1, StepType DEF ModifierType
      <4>2. modifier' = [them EXCEPT ![n].pc = "again"]
        BY <3>3
      <4> HIDE DEF them
      <4> QED
        BY <3>1, <4>1, <4>2, StepType
    <3> QED
      BY <2>2, <3>2, <3>3 DEF NotifyOne, Parked
  <2>3. CASE ~Read(m) /\ ~NotifyOne(m)
    <3>1. \E to \in ModifierPc : modifier' = [modifier EXCEPT ![m].pc = to]
      BY <2>3 DEF ModifierStep, TryPermit, AwaitPermit, Commit, ReleasePermit, StageSwitch, Switched, SwitchFailed,
                  StageRestore, ApplyRestore, Step, ModifierPc
    <3> QED
      BY <3>1, StepType DEF ModifierType
  <2> QED
    BY <2>1, <2>2, <2>3
<1>4. LayerType'
  <2>1. CASE data' = [data EXCEPT ![Profiles] = modifier[m].read \cup {m}]
             /\ version' = [version EXCEPT ![Profiles] = @ + 1] /\ UNCHANGED draft
    <3>1. modifier[m].read \cup {m} \in SUBSET Operations
      BY <1>1, <1>2
    <3>2. UNCHANGED claimed
      BY ModifierCalls
    <3>3. data' \in [Layers -> SUBSET Operations]
      BY <2>1, <3>1 DEF LayerType
    <3>4. version \in [Layers -> Nat] /\ version' = [version EXCEPT ![Profiles] = @ + 1]
      BY <2>1 DEF LayerType
    <3>5. version' \in [Layers -> Nat]
      BY <1>1, <3>4
    <3> QED
      BY <2>1, <3>2, <3>3, <3>5 DEF LayerType
  <2>2. CASE UNCHANGED <<data, version, draft>>
    BY <2>2, ModifierCalls DEF LayerType
  <2> QED
    BY <1>1, <2>1, <2>2, ModifierCalls, CallType
<1>5. data'[Profiles] \in SUBSET Modifiers /\ draft'[Profiles].value \in SUBSET Modifiers
  BY <1>1, <1>2, ModifierCalls DEF edit_draft, apply, discard, latest_arc, NoDraft, ModifierType, LayerType
<1>6. \A l \in Transacted : data'[l] = data[l] /\ draft'[l] = draft[l]
  BY ModifierCalls DEF Transacted, edit_draft, apply, discard, LayerType
<1> QED
  BY <1>3, <1>4, <1>5, <1>6 DEF ModifierType

\* The profiles' layer is nobody's to stage but theirs.
LEMMA ModifierKeeps ==
  ASSUME DraftsInv, NEW m \in Modifiers, ModifierStep(m)
  PROVE  DraftsInv' /\ \A l \in Transacted : data'[l] = data[l]
<1>1. ModifierType' /\ LayerType' /\ \A l \in Transacted : data'[l] = data[l] /\ draft'[l] = draft[l]
  BY ModifierTypeKept
<1>2. UNCHANGED <<claimed, lock, updating, writer>>
  BY ModifierCalls
<1>3. WriterType' /\ Requested' /\ InTransaction' /\ Exclusive'
  BY <1>2 DEF DraftsInv, WriterType, Requested, InTransaction, Exclusive, UnderLock, UnderFlag, UnderClaim, Holds, Marks, Claims
<1>4. \A v \in Writers : \A i \in Places(v) :
        /\ Staging(v, i)' <=> Staging(v, i) 
        /\ Committed(v, i)' <=> Committed(v, i)
        /\ Uses[v][i] \in Transacted
  BY <1>2, UsesFact DEF Staging, Committed
<1>5. Contents'
  BY <1>1, <1>4 DEF DraftsInv, Contents, OneChange, NothingStale, Meant
<1> QED
  BY <1>1, <1>3, <1>5 DEF DraftsInv

-----------------------------------------------------------------------------
\* A writer keeps the invariant, and commits one change if any.
LEMMA WriterKeeps ==
  ASSUME Apart, DraftsInv, NEW w \in Writers, WriterStep(w)
  PROVE  /\ DraftsInv'
         /\ UNCHANGED data \/ \E l \in Transacted : data' = [data EXCEPT ![l] = @ \cup {w}]
<1>1. WriterType' /\ UnderLock' /\ UnderFlag' /\ UnderClaim' /\ InTransaction' /\ Requested'
  BY Stepped, ExclusiveKept, ClaimKept DEF DraftsInv
<1>2. /\ Contents'
      /\ UNCHANGED data \/ \E l \in Transacted : data' = [data EXCEPT ![l] = @ \cup {w}]
  BY ContentsRest, StageKeeps, EndKeeps
<1> DEFINE l == Layer(w)
<1>3. l \in Layers /\ l # Profiles /\ w \in Operations
  BY UsesFact DEF DraftsInv, WriterType, Layer, Transacted, Operations
<1>4. LayerType'
  <2>1. CASE Stage(w) \/ Apply(w) \/ Discard(w)
    BY <1>3, <2>1, CallType DEF DraftsInv, Stage, Apply, Discard
  <2>2. CASE Claim(w) \/ GiveUp(w) \/ Discarded(w) \/ Release(w)
    <3>1. writer[w].at \in Places(w)
      BY DEF DraftsInv, WriterType
    <3>2. writer[w].at # 1 => writer[w].at - 1 \in Places(w)
      BY <3>1, UsesFact
    <3>3. \/ UNCHANGED layers
          \/ try_claim(Layer(w), w) /\ w \in Claiming
          \/ release(Layer(w))
          \/ writer[w].at # 1 /\ release(Uses[w][writer[w].at - 1])
      BY <2>2, Shape DEF Claim, GiveUp, Discarded, Release, Pc, DraftsInv, InTransaction
    <3>4. UNCHANGED <<data, version, draft>>
      BY <3>3 DEF layers, try_claim, release
    <3>5. \/ UNCHANGED claimed
          \/ \E k \in Layers, v \in Claiming \cup {NoOperation} : claimed' = [claimed EXCEPT ![k] = v]
      BY <1>3, <3>1, <3>2, <3>3, UsesFact DEF layers, try_claim, release, Transacted
    <3>6. claimed' \in [Layers -> Claiming \cup {NoOperation}]
      BY <3>5 DEF DraftsInv, LayerType
    <3> QED
      BY <3>4, <3>6 DEF DraftsInv, LayerType
  <2>3. CASE Lock(w) \/ TryStart(w) \/ Work(w) \/ FinishUpdate(w) \/ Unlock(w)
    BY <2>3 DEF Lock, TryStart, Work, FinishUpdate, Unlock, layers, DraftsInv, LayerType
  <2> QED
    BY <2>1, <2>2, <2>3 DEF WriterStep
<1>5. ModifierType'
  <2>1. CASE Stage(w) \/ Apply(w) \/ Discard(w)
    <3>1. data'[Profiles] = data[Profiles] /\ draft'[Profiles] = draft[Profiles]
      BY <1>3, <2>1, OperationsAssumption DEF Stage, Apply, Discard, edit_draft, apply, discard, DraftsInv, LayerType
    <3> QED
      BY <3>1, Stepped DEF DraftsInv, ModifierType
  <2>2. CASE ~(Stage(w) \/ Apply(w) \/ Discard(w))
    BY <2>2, ContentsRest, Stepped DEF DraftsInv, ModifierType
  <2> QED
    BY <2>1, <2>2
<1> QED
  BY <1>1, <1>2, <1>4, <1>5 DEF DraftsInv, Exclusive

\* Nothing is staged or committed when the program starts.
LEMMA DraftsStart == DraftInit => DraftsInv
<1> SUFFICES ASSUME DraftInit PROVE DraftsInv
  OBVIOUS
<1> USE DEF DraftInit
<1> PICK requested \in Requests :
      /\ writer = [w \in Writers |-> [pc |-> IF w \in requested THEN "start" ELSE "absent", at |-> 1]]
      /\ modifier = [m \in Modifiers |->
           [pc |-> IF m \notin requested THEN "absent" ELSE IF m \in Switches THEN "stage" ELSE "try",
            read |-> {}, saw |-> 0]]
  OBVIOUS
<1>1. WriterType /\ InTransaction
  BY UsesFact DEF WriterType, InTransaction, WriterPc
<1>2. ModifierType /\ LayerType
  BY OperationsAssumption DEF ModifierType, ModifierPc, LayerType, NoDraft
<1>3. Requested
  BY DEF Requested
<1>4. Exclusive
  BY WritersAssumption DEF Exclusive, UnderLock, UnderFlag, UnderClaim, Holds, Marks, Claims
<1>5. Contents
  BY DEF Contents, OneChange, NothingStale, Meant, Staging, Transacted, NoDraft
<1> QED
  BY <1>1, <1>2, <1>3, <1>4, <1>5 DEF DraftsInv

\* Every step keeps it.
LEMMA DraftsNext == Apart /\ DraftsInv /\ [DraftNext]_draftVars => DraftsInv'
<1> SUFFICES ASSUME Apart, DraftsInv, [DraftNext]_draftVars PROVE DraftsInv'
  OBVIOUS
<1>1. CASE UNCHANGED draftVars
  <2>1. WriterType' /\ ModifierType' /\ LayerType'
    BY <1>1 DEF draftVars, DraftsInv, WriterType, ModifierType, LayerType
  <2>2. Requested' /\ InTransaction'
    BY <1>1 DEF draftVars, DraftsInv, Requested, InTransaction
  <2>3. Exclusive'
    BY <1>1 DEF draftVars, DraftsInv, Exclusive, UnderLock, UnderFlag, UnderClaim, Claims, Holds, Marks
  <2>4. Contents'
    BY <1>1 DEF draftVars, DraftsInv, Contents, OneChange, NothingStale, Meant, Staging, Committed
  <2> QED
    BY <2>1, <2>2, <2>3, <2>4 DEF DraftsInv
<1> QED
  BY <1>1, WriterKeeps, ModifierKeeps DEF DraftNext

\* If any two operations that are requested together and share a layer keep
\* apart in the same way, the clash, verge and runtime layers implement the
\* register: no commit loses another's change or takes a staged one along.
THEOREM RegisterCorrect == ASSUME Apart PROVE DraftSpec => ImplementsRegister
<1>1. DraftInit => Reg!Init
  BY DEF DraftInit, Reg!Init, Transacted
<1>2. DraftsInv /\ [DraftNext]_draftVars => [Reg!Next]_([l \in Transacted |-> data[l]])
  <2> SUFFICES ASSUME DraftsInv, [DraftNext]_draftVars,
                      ([l \in Transacted |-> data[l]])' # [l \in Transacted |-> data[l]]
               PROVE  Reg!Next
    OBVIOUS
  <2>1. CASE UNCHANGED draftVars
    BY <2>1 DEF draftVars
  <2>2. ASSUME NEW m \in Modifiers, ModifierStep(m) PROVE FALSE
    BY <2>2, ModifierKeeps
  <2>3. ASSUME NEW w \in Writers, WriterStep(w) PROVE Reg!Next
    <3>1. PICK l \in Transacted : data' = [data EXCEPT ![l] = @ \cup {w}]
      BY <2>3, WriterKeeps
    <3>2. ([k \in Transacted |-> data[k]])' =
            [[k \in Transacted |-> data[k]] EXCEPT ![l] = @ \cup {w}]
      BY <3>1 DEF DraftsInv, LayerType, Transacted
    <3> QED
      BY <2>3, <3>1, <3>2 DEF Reg!Next, Reg!Commit
  <2> QED
    BY <2>1, <2>2, <2>3 DEF DraftNext
<1> QED
  BY <1>1, <1>2, DraftsStart, DraftsNext, PTL DEF DraftSpec, ImplementsRegister, Reg!Spec

\* Under the same condition, an operation that failed or was refused has left
\* nothing in a committed value or in a draft.
THEOREM FailedCorrect == ASSUME Apart PROVE DraftSpec => []FailedLeavesNothing
<1>1. DraftsInv => FailedLeavesNothing
  <2> SUFFICES ASSUME DraftsInv, NEW w \in Writers, NEW l \in Layers, Pc(w, "undone")
               PROVE  w \notin data[l] /\ w \notin draft[l].value
    BY DEF FailedLeavesNothing
  <2>1. CASE l = Profiles
    BY <2>1, OperationsAssumption DEF DraftsInv, ModifierType
  <2>2. CASE l # Profiles
    <3>1. w \notin data[l]
      BY <2>2 DEF DraftsInv, Contents, Meant, Committed, Pc, Transacted
    <3>2. CASE draft[l] = NoDraft
      BY <3>1, <3>2 DEF NoDraft
    <3>3. ASSUME NEW v \in Writers, NEW i \in Places(v), Uses[v][i] = l, Staging(v, i)
          PROVE  w \notin draft[l].value
      <4>1. v # w
        BY <3>3 DEF Staging, Pc
      <4>2. draft[l] = [staged |-> TRUE, value |-> data[l] \cup {v}]
        BY <3>3 DEF DraftsInv, Contents, OneChange
      <4> QED
        BY <3>1, <4>1, <4>2
    <3> QED
      BY <2>2, <3>1, <3>2, <3>3 DEF DraftsInv, Contents, NothingStale, Transacted
  <2> QED
    BY <2>1, <2>2
<1> QED
  BY <1>1, DraftsStart, DraftsNext, PTL DEF DraftSpec

(***************************************************************************)
(* Update timer                                                            *)
(***************************************************************************)

\* A command of the mailbox, and the state of a task.
Commands ==
  [kind : {"Apply"}, uid : {"all"}, map : Maps]
    \cup [kind : {"RunNow", "TaskFinished"}, uid : Uids, map : Maps]
TaskStates ==
  [on : BOOLEAN, key : BOOLEAN, interval : Intervals \cup {0}, running : BOOLEAN, retired : BOOLEAN]

\* Every variable has its type.
TimerType ==
  /\ interval \in Maps /\ timer_map \in Maps
  /\ refresher \in [pc : {"idle", "read", "send"}, map : Maps]
  /\ mailbox \in Seq(Commands)
  /\ tasks \in [Uids -> TaskStates]
  /\ updates \in [Uids -> {0, 1}]
  /\ overdue \subseteq Uids

\* A task is off; or it runs, with no deadline; or it waits for its deadline.
\* Only a running one is retired.
TaskRight(t) ==
  /\ ~t.on => t = NoTask
  /\ t.retired => t.running
  /\ t.key <=> t.on /\ ~t.running

\* A task that runs has one update or one report of its update, and no other has any.
OneOf(t, n, reports) ==
  /\ ~t.running => n = 0 /\ reports = {}
  /\ t.running => \/ n = 1 /\ reports = {}
                  \/ n = 0 /\ reports # {} /\ \A i, j \in reports : i = j

\* Task t is what a map with interval i makes of it.
Follows(t, i) ==
  /\ i # 0 <=> t.on /\ ~t.retired
  /\ i # 0 => t.interval = i

\* The scheduler is where the cached map is: all of its own accord, or when it
\* reads the last of the maps in its mailbox, or when the refresher has sent it.
OnTheWay ==
  IF refresher.pc = "send" THEN refresher.map = timer_map
  ELSE \/ MapsSent = {} /\ \A u \in Uids : Follows(tasks[u], timer_map[u])
       \/ \E i \in MapsSent : (\A j \in MapsSent : j <= i) /\ mailbox[i].map = timer_map

\* The inductive invariant.
TimerInv ==
  /\ TimerType
  /\ \A u \in Uids : TaskRight(tasks[u]) /\ OneOf(tasks[u], updates[u], Reports(u))
  /\ OnTheWay

\* A profile that is off.
LEMMA NoTaskRight ==
  NoTask \in TaskStates /\ TaskRight(NoTask) /\ OneOf(NoTask, 0, {}) /\ Follows(NoTask, 0)
BY DEF NoTask, TaskStates, TaskRight, OneOf, Follows

\* The maps of no profile.
LEMMA NothingIsMap == Nothing \in Maps
BY DEF Nothing, Maps

\* It holds when the application starts.
LEMMA TimerStart == TimerInit => TimerInv
<1> SUFFICES ASSUME TimerInit PROVE TimerInv
  OBVIOUS
<1>1. mailbox = <<>> /\ Len(mailbox) = 0 /\ mailbox \in Seq(Commands)
  BY DEF TimerInit
<1>2. MapsSent = {} /\ \A u : Reports(u) = {}
  BY <1>1 DEF MapsSent, Reports
<1>3. tasks \in [Uids -> TaskStates] /\ \A u \in Uids : tasks[u] = NoTask /\ updates[u] = 0
  BY NoTaskRight DEF TimerInit
<1>4. refresher \in [pc : {"idle", "read", "send"}, map : Maps] /\ refresher.pc = "idle"
  BY NothingIsMap DEF TimerInit, NoRefresh
<1>5. TimerType
  BY <1>1, <1>3, <1>4, NothingIsMap DEF TimerInit, TimerType
<1>6. \A u \in Uids : TaskRight(tasks[u]) /\ OneOf(tasks[u], updates[u], Reports(u))
  BY <1>2, <1>3, NoTaskRight
<1>7. \A u \in Uids : timer_map[u] = 0 /\ Follows(tasks[u], timer_map[u])
  BY <1>3, NoTaskRight DEF TimerInit, Nothing
<1> QED
  BY <1>2, <1>4, <1>5, <1>6, <1>7 DEF TimerInv, OnTheWay

\* A command is sent to the end of the mailbox.
LEMMA SendPlaces ==
  ASSUME mailbox \in Seq(Commands), NEW k, NEW v, NEW m, Send(k, v, m),
         [kind |-> k, uid |-> v, map |-> m] \in Commands
  PROVE  /\ mailbox' \in Seq(Commands) /\ Len(mailbox) \in Nat /\ Len(mailbox') = Len(mailbox) + 1
         /\ \A i \in 1..Len(mailbox) : mailbox'[i] = mailbox[i]
         /\ mailbox'[Len(mailbox) + 1].kind = k /\ mailbox'[Len(mailbox) + 1].uid = v
         /\ mailbox'[Len(mailbox) + 1].map = m
<1>1. mailbox' = Append(mailbox, [kind |-> k, uid |-> v, map |-> m])
  BY DEF Send
<1> QED
  BY <1>1

\* So a command that is no report leaves the reports, and one that is no map the maps.
LEMMA SendReports ==
  ASSUME mailbox \in Seq(Commands), NEW k, NEW v, NEW m, Send(k, v, m),
         [kind |-> k, uid |-> v, map |-> m] \in Commands
  PROVE  /\ \A u : k = "TaskFinished" /\ u = v => Reports(u)' = Reports(u) \cup {Len(mailbox) + 1}
         /\ \A u : k # "TaskFinished" \/ u # v => Reports(u)' = Reports(u)
         /\ k # "Apply" => MapsSent' = MapsSent
         /\ k = "Apply" => MapsSent' = MapsSent \cup {Len(mailbox) + 1}
<1>1. 1..Len(mailbox') = 1..Len(mailbox) \cup {Len(mailbox) + 1}
  BY SendPlaces
<1>2. \A i \in 1..Len(mailbox) : mailbox'[i] = mailbox[i]
  BY SendPlaces
<1>3. mailbox'[Len(mailbox) + 1].kind = k /\ mailbox'[Len(mailbox) + 1].uid = v
  BY SendPlaces
<1>4. \A u : Reports(u)' = {i \in 1..Len(mailbox') : mailbox'[i].kind = "TaskFinished" /\ mailbox'[i].uid = u}
  BY DEF Reports
<1>5. MapsSent' = {i \in 1..Len(mailbox') : mailbox'[i].kind = "Apply"}
  BY DEF MapsSent
<1>6. \A u : k = "TaskFinished" /\ u = v => Reports(u)' = Reports(u) \cup {Len(mailbox) + 1}
  BY <1>1, <1>2, <1>3, <1>4 DEF Reports
<1>7. \A u : k # "TaskFinished" \/ u # v => Reports(u)' = Reports(u)
  BY <1>1, <1>2, <1>3, <1>4 DEF Reports
<1>8. k # "Apply" => MapsSent' = MapsSent
  BY <1>1, <1>2, <1>3, <1>5 DEF MapsSent
<1>9. k = "Apply" => MapsSent' = MapsSent \cup {Len(mailbox) + 1}
  BY <1>1, <1>2, <1>3, <1>5 DEF MapsSent
<1> QED
  BY <1>6, <1>7, <1>8, <1>9

\* The scheduler takes the first command, and the others move up.
LEMMA TakePlaces ==
  ASSUME mailbox \in Seq(Commands), NEW k, Received(k)
  PROVE  /\ mailbox' \in Seq(Commands) /\ Len(mailbox) \in Nat \ {0} /\ Len(mailbox') = Len(mailbox) - 1
         /\ \A i \in 1..Len(mailbox') : mailbox'[i] = mailbox[i + 1]
         /\ Head(mailbox) = mailbox[1] /\ mailbox[1] \in Commands /\ mailbox[1].kind = k
<1>1. mailbox # <<>> /\ Head(mailbox).kind = k /\ mailbox' = Tail(mailbox)
  BY DEF Received
<1> QED
  BY <1>1

\* So no report and no map is lost but the one that is taken.
LEMMA TakeReports ==
  ASSUME mailbox \in Seq(Commands), NEW k, Received(k)
  PROVE  /\ \A u : Reports(u)' = {i \in 1..Len(mailbox') : i + 1 \in Reports(u)}
         /\ \A u : \A i \in Reports(u) : i # 1 => i - 1 \in Reports(u)'
         /\ MapsSent' = {i \in 1..Len(mailbox') : i + 1 \in MapsSent}
         /\ \A i \in MapsSent : i # 1 => i - 1 \in MapsSent' /\ mailbox'[i - 1] = mailbox[i]
         /\ \A u : 1 \in Reports(u) <=> k = "TaskFinished" /\ Head(mailbox).uid = u
         /\ 1 \in MapsSent <=> k = "Apply"
<1>1. /\ Len(mailbox) \in Nat \ {0} /\ Len(mailbox') = Len(mailbox) - 1
      /\ \A i \in 1..Len(mailbox') : mailbox'[i] = mailbox[i + 1]
      /\ Head(mailbox) = mailbox[1] /\ mailbox[1].kind = k
  BY TakePlaces
<1>2. \A i \in 1..Len(mailbox') : i + 1 \in 1..Len(mailbox)
  BY <1>1
<1>3. \A i \in 1..Len(mailbox) : i # 1 => i - 1 \in 1..Len(mailbox') /\ (i - 1) + 1 = i
  BY <1>1
<1>4. \A u : Reports(u)' = {i \in 1..Len(mailbox') : mailbox'[i].kind = "TaskFinished" /\ mailbox'[i].uid = u}
  BY DEF Reports
<1>5. MapsSent' = {i \in 1..Len(mailbox') : mailbox'[i].kind = "Apply"}
  BY DEF MapsSent
<1>6. \A u : Reports(u)' = {i \in 1..Len(mailbox') : i + 1 \in Reports(u)}
  BY <1>1, <1>2, <1>4 DEF Reports
<1>7. MapsSent' = {i \in 1..Len(mailbox') : i + 1 \in MapsSent}
  BY <1>1, <1>2, <1>5 DEF MapsSent
<1>8. ASSUME NEW u, NEW i \in Reports(u), i # 1 PROVE i - 1 \in Reports(u)'
  <2>1. i - 1 \in 1..Len(mailbox') /\ (i - 1) + 1 = i
    BY <1>3, <1>8 DEF Reports
  <2>2. Reports(u)' = {j \in 1..Len(mailbox') : j + 1 \in Reports(u)}
    BY <1>6
  <2> QED
    BY <2>1, <2>2
<1>9. \A i \in MapsSent : i # 1 => i - 1 \in MapsSent' /\ mailbox'[i - 1] = mailbox[i]
  BY <1>1, <1>3, <1>7 DEF MapsSent
<1>10. 1 \in 1..Len(mailbox)
  BY <1>1
<1>11. \A u : 1 \in Reports(u) <=> k = "TaskFinished" /\ Head(mailbox).uid = u
  BY <1>1, <1>10 DEF Reports
<1>12. 1 \in MapsSent <=> k = "Apply"
  BY <1>1, <1>10 DEF MapsSent
<1> QED
  BY <1>6, <1>7, <1>8, <1>9, <1>11, <1>12

\* The mailbox decides about both.
LEMMA MailKept ==
  ASSUME UNCHANGED mailbox
  PROVE  MapsSent' = MapsSent /\ \A u : Reports(u)' = Reports(u)
BY DEF MapsSent, Reports

\* What the callers change, the scheduler does not see.
LEMMA CallerKeeps ==
  ASSUME TimerInv, UNCHANGED <<mailbox, tasks, updates>>, interval' \in Maps, timer_map' \in Maps,
         overdue' \subseteq Uids, refresher' \in [pc : {"idle", "read", "send"}, map : Maps],
         \/ refresher'.pc = "send" /\ refresher'.map = timer_map'
         \/ refresher.pc # "send" /\ refresher'.pc # "send" /\ timer_map' = timer_map
  PROVE  TimerInv'
<1>1. MapsSent' = MapsSent /\ \A u : Reports(u)' = Reports(u)
  BY MailKept
<1>2. TimerType'
  BY DEF TimerInv, TimerType
<1>3. \A u \in Uids : TaskRight(tasks[u])' /\ OneOf(tasks[u], updates[u], Reports(u))'
  BY <1>1 DEF TimerInv, TaskRight, OneOf
<1>4. OnTheWay'
  <2>1. CASE refresher'.pc = "send"
    BY <2>1 DEF OnTheWay
  <2>2. CASE refresher'.pc # "send"
    BY <2>2, <1>1 DEF OnTheWay, TimerInv, Follows
  <2> QED
    BY <2>1, <2>2
<1> QED
  BY <1>2, <1>3, <1>4 DEF TimerInv

\* The callers' own steps.
LEMMA CallersNext == TimerInv /\ (init \/ EditProfile \/ RefreshRead \/ RefreshSkip \/ RefreshCache) => TimerInv'
<1> SUFFICES ASSUME TimerInv, init \/ EditProfile \/ RefreshRead \/ RefreshSkip \/ RefreshCache PROVE TimerInv'
  OBVIOUS
<1>1. TimerType /\ OnTheWay
  BY DEF TimerInv
<1>2. refresher.pc = "send" => refresher.map = timer_map
  BY <1>1 DEF OnTheWay
<1>3. CASE init
  BY <1>1, <1>2, <1>3, CallerKeeps DEF init, TimerType
<1>4. CASE EditProfile
  <2>1. interval' \in Maps
    BY <1>1, <1>4 DEF EditProfile, TimerType, Maps
  <2> QED
    BY <1>1, <1>2, <1>4, <2>1, CallerKeeps DEF EditProfile, TimerType
<1>5. CASE RefreshRead
  BY <1>1, <1>5, CallerKeeps DEF RefreshRead, gen_map, TimerType
<1>6. CASE RefreshSkip
  BY <1>1, <1>6, CallerKeeps, NothingIsMap DEF RefreshSkip, RefreshReturn, NoRefresh, TimerType
<1>7. CASE RefreshCache
  BY <1>1, <1>7, CallerKeeps DEF RefreshCache, TimerType
<1> QED
  BY <1>3, <1>4, <1>5, <1>6, <1>7

\* A profile is run at once at the start: the command is no report and no map.
LEMMA OverdueNext == TimerInv /\ RunOverdue => TimerInv'
<1> SUFFICES ASSUME TimerInv, RunOverdue PROVE TimerInv'
  OBVIOUS
<1>1. PICK u \in overdue : overdue' = overdue \ {u} /\ Send("RunNow", u, Nothing)
  BY DEF RunOverdue
<1>2. UNCHANGED <<interval, timer_map, refresher, tasks, updates>>
  BY DEF RunOverdue
<1>3. mailbox \in Seq(Commands) /\ overdue \subseteq Uids
  BY DEF TimerInv, TimerType
<1>4. [kind |-> "RunNow", uid |-> u, map |-> Nothing] \in Commands
  BY <1>3, NothingIsMap DEF Commands
<1>5. /\ mailbox' \in Seq(Commands)
      /\ \A i \in 1..Len(mailbox) : mailbox'[i] = mailbox[i]
  BY <1>1, <1>3, <1>4, SendPlaces
<1>6. MapsSent' = MapsSent /\ \A v : Reports(v)' = Reports(v)
  BY <1>1, <1>3, <1>4, SendReports
<1>7. TimerType'
  BY <1>1, <1>2, <1>5 DEF TimerInv, TimerType
<1>8. \A v \in Uids : TaskRight(tasks[v])' /\ OneOf(tasks[v], updates[v], Reports(v))'
  BY <1>2, <1>6 DEF TimerInv, TaskRight, OneOf
<1>9. OnTheWay'
  BY <1>2, <1>5, <1>6 DEF TimerInv, OnTheWay, Follows, MapsSent
<1> QED
  BY <1>7, <1>8, <1>9 DEF TimerInv

\* The map that was cached is sent, as the last one.
LEMMA RefreshSendNext == TimerInv /\ RefreshSend => TimerInv'
<1> SUFFICES ASSUME TimerInv, RefreshSend PROVE TimerInv'
  OBVIOUS
<1>1. TimerType /\ refresher.map = timer_map
  BY DEF TimerInv, OnTheWay, RefreshSend
<1>2. /\ Send("Apply", "all", timer_map) /\ refresher' = NoRefresh
      /\ UNCHANGED <<interval, timer_map, tasks, updates, overdue>>
  BY <1>1 DEF RefreshSend, RefreshReturn
<1>3. mailbox \in Seq(Commands) /\ [kind |-> "Apply", uid |-> "all", map |-> timer_map] \in Commands
  BY <1>1 DEF TimerType, Commands
<1>4. /\ mailbox' \in Seq(Commands) /\ Len(mailbox) \in Nat
      /\ mailbox'[Len(mailbox) + 1].map = timer_map
  BY <1>2, <1>3, SendPlaces
<1>5. MapsSent' = MapsSent \cup {Len(mailbox) + 1} /\ \A v : Reports(v)' = Reports(v)
  BY <1>2, <1>3, SendReports
<1>6. TimerType'
  BY <1>1, <1>2, <1>4, NothingIsMap DEF NoRefresh, TimerType
<1>7. \A v \in Uids : TaskRight(tasks[v])' /\ OneOf(tasks[v], updates[v], Reports(v))'
  BY <1>2, <1>5 DEF TimerInv, TaskRight, OneOf
<1>8. Len(mailbox) + 1 \in MapsSent' /\ \A j \in MapsSent' : j <= Len(mailbox) + 1
  BY <1>4, <1>5 DEF MapsSent
<1>9. OnTheWay'
  BY <1>2, <1>4, <1>8 DEF OnTheWay, NoRefresh
<1> QED
  BY <1>6, <1>7, <1>9 DEF TimerInv

\* A command that is no map is taken: the maps that are under way remain so.
LEMMA TakeMaps ==
  ASSUME TimerInv, NEW k, Received(k), k # "Apply", UNCHANGED <<timer_map, refresher>>,
         \A u \in Uids, i \in Intervals \cup {0} : Follows(tasks[u], i) => Follows(tasks'[u], i)
  PROVE  OnTheWay'
<1>1. mailbox \in Seq(Commands) /\ \A u \in Uids : timer_map[u] \in Intervals \cup {0}
  BY DEF TimerInv, TimerType, Maps
<1>2. /\ MapsSent' = {i \in 1..Len(mailbox') : i + 1 \in MapsSent}
      /\ \A i \in MapsSent : i # 1 => i - 1 \in MapsSent' /\ mailbox'[i - 1] = mailbox[i]
      /\ 1 \notin MapsSent
  BY <1>1, TakeReports
<1>3. CASE refresher.pc = "send"
  BY <1>3 DEF TimerInv, OnTheWay
<1>4. CASE refresher.pc # "send" /\ MapsSent = {}
  <2>1. \A u \in Uids : Follows(tasks[u], timer_map[u])
    BY <1>4 DEF TimerInv, OnTheWay
  <2>2. \A u \in Uids : Follows(tasks'[u], timer_map'[u])
    BY <1>1, <2>1
  <2>3. MapsSent' = {}
    BY <1>2, <1>4
  <2> QED
    BY <1>4, <2>2, <2>3 DEF OnTheWay, Follows
<1>5. CASE refresher.pc # "send" /\ MapsSent # {}
  <2>1. PICK i \in MapsSent : (\A j \in MapsSent : j <= i) /\ mailbox[i].map = timer_map
    BY <1>5 DEF TimerInv, OnTheWay
  <2>2. i - 1 \in MapsSent' /\ mailbox'[i - 1].map = timer_map /\ i \in Nat
    BY <1>2, <2>1 DEF MapsSent
  <2>3. \A j \in MapsSent' : j \in Nat /\ j + 1 <= i
    BY <1>2, <2>1
  <2>4. \A j \in MapsSent' : j <= i - 1
    BY <2>2, <2>3
  <2> QED
    BY <1>5, <2>2, <2>4 DEF OnTheWay
<1> QED
  BY <1>3, <1>4, <1>5

\* Reports that move up are as many as before.
LEMMA ReportsMove ==
  ASSUME TimerInv, NEW u \in Uids, 1 \notin Reports(u),
         Reports(u)' = {i \in 1..Len(mailbox') : i + 1 \in Reports(u)},
         \A i \in Reports(u) : i # 1 => i - 1 \in Reports(u)'
  PROVE  /\ Reports(u) = {} <=> Reports(u)' = {}
         /\ (\A i, j \in Reports(u) : i = j) => \A i, j \in Reports(u)' : i = j
<1>1. \A i \in Reports(u)' : i \in Nat /\ i + 1 \in Reports(u)
  OBVIOUS
<1>2. \A i \in Reports(u) : i - 1 \in Reports(u)'
  OBVIOUS
<1>3. (\A i, j \in Reports(u) : i = j) => \A i, j \in Reports(u)' : i = j
  BY <1>1
<1> QED
  BY <1>1, <1>2, <1>3

\* What a map makes of a task.
LEMMA AppliedRight ==
  ASSUME NEW t \in TaskStates, TaskRight(t), NEW i \in Intervals \cup {0}
  PROVE  /\ Applied(t, i) \in TaskStates /\ TaskRight(Applied(t, i)) /\ Follows(Applied(t, i), i)
         /\ Applied(t, i).running = t.running
<1>1. CASE i = 0 /\ t.running
  <2>1. Applied(t, i) = [t EXCEPT !.key = FALSE, !.retired = TRUE]
    BY <1>1 DEF Applied
  <2> DEFINE r == [t EXCEPT !.key = FALSE, !.retired = TRUE]
  <2>2. /\ r \in TaskStates /\ r.on = t.on /\ r.running = t.running /\ r.interval = t.interval
        /\ r.key = FALSE /\ r.retired = TRUE
    BY DEF TaskStates
  <2>3. t.on
    BY <1>1 DEF TaskRight, NoTask
  <2> QED
    BY <1>1, <2>1, <2>2, <2>3 DEF TaskRight, Follows
<1>2. CASE i = 0 /\ ~t.running
  BY <1>2 DEF Applied, TaskStates, TaskRight, Follows, NoTask
<1>3. CASE i # 0 /\ ~t.on
  BY <1>3 DEF Applied, TaskStates, TaskRight, Follows, NoTask, insert_task
<1>4. CASE i # 0 /\ t.on /\ t.interval = i
  BY <1>4 DEF Applied, TaskStates, TaskRight, Follows, NoTask
<1>5. CASE i # 0 /\ t.on /\ t.interval # i
  BY <1>5 DEF Applied, TaskStates, TaskRight, Follows, NoTask, update_task_interval
<1> QED
  BY <1>1, <1>2, <1>3, <1>4, <1>5

\* The scheduler reads a map; the last one is the cached one.
LEMMA ApplyNext == TimerInv /\ apply_timer_map => TimerInv'
<1> SUFFICES ASSUME TimerInv, apply_timer_map PROVE TimerInv'
  OBVIOUS
<1>1. /\ Received("Apply") /\ UNCHANGED <<interval, timer_map, refresher, overdue, updates>>
      /\ tasks' = [u \in Uids |-> Applied(tasks[u], Head(mailbox).map[u])]
  BY DEF apply_timer_map, caller
<1>2. TimerType
  BY DEF TimerInv
<1>3. /\ mailbox \in Seq(Commands) /\ mailbox' \in Seq(Commands)
      /\ Head(mailbox) = mailbox[1] /\ mailbox[1] \in Commands
  BY <1>1, <1>2, TakePlaces DEF TimerType
<1>4. /\ \A u : Reports(u)' = {i \in 1..Len(mailbox') : i + 1 \in Reports(u)}
      /\ \A u : \A i \in Reports(u) : i # 1 => i - 1 \in Reports(u)'
      /\ \A u : 1 \notin Reports(u)
  BY <1>1, <1>3, TakeReports
<1>5. /\ MapsSent' = {i \in 1..Len(mailbox') : i + 1 \in MapsSent}
      /\ \A i \in MapsSent : i # 1 => i - 1 \in MapsSent' /\ mailbox'[i - 1] = mailbox[i]
      /\ 1 \in MapsSent
  BY <1>1, <1>3, TakeReports
<1>6. \A u \in Uids : mailbox[1].map[u] \in Intervals \cup {0}
  BY <1>3 DEF Commands, Maps
<1>7. \A u \in Uids : /\ tasks'[u] \in TaskStates /\ TaskRight(tasks'[u]) /\ Follows(tasks'[u], mailbox[1].map[u])
                      /\ tasks'[u].running = tasks[u].running
  BY <1>1, <1>2, <1>3, <1>6, AppliedRight DEF TimerInv, TimerType
<1>8. TimerType'
  BY <1>1, <1>2, <1>3, <1>7 DEF TimerType
<1>9. \A u \in Uids : OneOf(tasks'[u], updates[u], Reports(u)')
  BY <1>1, <1>2, <1>4, <1>7, ReportsMove DEF TimerInv, OneOf
<1>10. OnTheWay'
  <2>1. CASE refresher.pc = "send"
    BY <1>1, <2>1 DEF TimerInv, OnTheWay
  <2>2. CASE refresher.pc # "send"
    <3>1. PICK i \in MapsSent : (\A j \in MapsSent : j <= i) /\ mailbox[i].map = timer_map
      BY <1>5, <2>2 DEF TimerInv, OnTheWay
    <3>2. i \in Nat /\ \A j \in MapsSent' : j \in Nat /\ j + 1 <= i
      BY <1>5, <3>1 DEF MapsSent
    <3>3. CASE i = 1
      <4>1. MapsSent' = {}
        BY <1>5, <3>2, <3>3
      <4> QED
        BY <1>1, <1>7, <2>2, <3>1, <3>3, <4>1 DEF OnTheWay, Follows
    <3>4. CASE i # 1
      <4>1. i - 1 \in MapsSent' /\ mailbox'[i - 1].map = timer_map
        BY <1>5, <3>1, <3>4
      <4>2. \A j \in MapsSent' : j <= i - 1
        BY <3>2
      <4> QED
        BY <1>1, <2>2, <4>1, <4>2 DEF OnTheWay
    <3> QED
      BY <3>3, <3>4
  <2> QED
    BY <2>1, <2>2
<1>11. \A u \in Uids : TaskRight(tasks[u])' /\ OneOf(tasks[u], updates[u], Reports(u))'
  BY <1>1, <1>7, <1>9 DEF TaskRight, OneOf
<1> QED
  BY <1>8, <1>10, <1>11 DEF TimerInv

\* An update is started only for a task with neither an update nor a report.
LEMMA StartedRight ==
  ASSUME TimerInv, NEW u \in Uids, Started(u)
  PROVE  /\ tasks' \in [Uids -> TaskStates] /\ updates' \in [Uids -> {0, 1}]
         /\ \A v \in Uids : TaskRight(tasks'[v]) /\ OneOf(tasks'[v], updates'[v], Reports(v))
         /\ \A v \in Uids : tasks'[v].running \/ (tasks'[v] = tasks[v] /\ updates'[v] = updates[v])
         /\ \A v \in Uids, i \in Intervals \cup {0} : Follows(tasks[v], i) => Follows(tasks'[v], i)
<1>1. /\ tasks \in [Uids -> TaskStates] /\ updates \in [Uids -> {0, 1}]
      /\ \A v \in Uids : TaskRight(tasks[v]) /\ OneOf(tasks[v], updates[v], Reports(v))
  BY DEF TimerInv, TimerType
<1>2. CASE ~(tasks[u].on /\ ~tasks[u].running)
  <2>1. UNCHANGED <<tasks, updates>>
    BY <1>2 DEF Started
  <2> QED
    BY <1>1, <2>1
<1>3. CASE tasks[u].on /\ ~tasks[u].running
  <2>1. /\ tasks' = [tasks EXCEPT ![u].running = TRUE, ![u].key = FALSE]
        /\ updates' = [updates EXCEPT ![u] = @ + 1]
    BY <1>3 DEF Started
  <2>2. updates[u] = 0 /\ Reports(u) = {} /\ tasks[u].retired = FALSE /\ tasks[u] \in TaskStates
    BY <1>1, <1>3 DEF OneOf, TaskRight, TaskStates
  <2>3. \A v \in Uids : v # u => tasks'[v] = tasks[v] /\ updates'[v] = updates[v]
    BY <1>1, <2>1
  <2>4. /\ tasks'[u] \in TaskStates /\ tasks'[u].on = TRUE /\ tasks'[u].running = TRUE /\ tasks'[u].key = FALSE
        /\ tasks'[u].retired = FALSE /\ tasks'[u].interval = tasks[u].interval
    BY <1>1, <1>3, <2>1, <2>2 DEF TaskStates
  <2>5. updates'[u] = 1 /\ updates' \in [Uids -> {0, 1}]
    BY <1>1, <2>1, <2>2
  <2>6. tasks' \in [Uids -> TaskStates]
    BY <1>1, <2>1, <2>4
  <2>7. TaskRight(tasks'[u]) /\ OneOf(tasks'[u], updates'[u], Reports(u))
    BY <2>2, <2>4, <2>5 DEF TaskRight, OneOf
  <2>8. \A i \in Intervals \cup {0} : Follows(tasks[u], i) => Follows(tasks'[u], i)
    BY <1>3, <2>2, <2>4 DEF Follows
  <2> QED
    BY <1>1, <2>3, <2>4, <2>5, <2>6, <2>7, <2>8
<1> QED
  BY <1>2, <1>3

\* A deadline passes.
LEMMA ExpiredNext == ASSUME TimerInv, NEW u \in Uids, run_expired_task(u) PROVE TimerInv'
<1>1. Started(u) /\ UNCHANGED <<interval, timer_map, refresher, mailbox, overdue>>
  BY DEF run_expired_task, caller
<1>2. MapsSent' = MapsSent /\ \A v : Reports(v)' = Reports(v)
  BY <1>1, MailKept
<1>3. TimerType'
  BY <1>1, StartedRight DEF TimerInv, TimerType
<1>4. \A v \in Uids : TaskRight(tasks'[v]) /\ OneOf(tasks'[v], updates'[v], Reports(v)')
  BY <1>1, <1>2, StartedRight
<1>5. \A v \in Uids : TaskRight(tasks[v])' /\ OneOf(tasks[v], updates[v], Reports(v))'
  BY <1>4 DEF TaskRight, OneOf
<1>6. \A v \in Uids : timer_map[v] \in Intervals \cup {0}
  BY DEF TimerInv, TimerType, Maps
<1>7. \A v \in Uids : Follows(tasks[v], timer_map[v]) => Follows(tasks'[v], timer_map[v])
  BY <1>1, <1>6, StartedRight
<1>8. OnTheWay'
  BY <1>1, <1>2, <1>7 DEF TimerInv, OnTheWay, Follows
<1> QED
  BY <1>3, <1>5, <1>8 DEF TimerInv

\* A profile is run at once.
LEMMA RunNowNext == TimerInv /\ run_task_now => TimerInv'
<1> SUFFICES ASSUME TimerInv, run_task_now PROVE TimerInv'
  OBVIOUS
<1> DEFINE u == Head(mailbox).uid
<1>1. Received("RunNow") /\ Started(u) /\ UNCHANGED <<interval, timer_map, refresher, overdue>>
  BY DEF run_task_now, caller
<1>2. mailbox \in Seq(Commands)
  BY DEF TimerInv, TimerType
<1>3. mailbox' \in Seq(Commands) /\ Head(mailbox) \in Commands /\ Head(mailbox).kind = "RunNow"
  BY <1>1, <1>2, TakePlaces
<1>4. u \in Uids
  BY <1>3 DEF Commands
<1>5. \A v \in Uids : /\ Reports(v)' = {i \in 1..Len(mailbox') : i + 1 \in Reports(v)}
                      /\ \A i \in Reports(v) : i # 1 => i - 1 \in Reports(v)'
                      /\ 1 \notin Reports(v)
  BY <1>1, <1>2, TakeReports
<1> HIDE DEF u
<1>6. /\ tasks' \in [Uids -> TaskStates] /\ updates' \in [Uids -> {0, 1}]
      /\ \A v \in Uids : TaskRight(tasks'[v]) /\ OneOf(tasks'[v], updates'[v], Reports(v))
      /\ \A v \in Uids, i \in Intervals \cup {0} : Follows(tasks[v], i) => Follows(tasks'[v], i)
  BY <1>1, <1>4, StartedRight
<1>7. \A v \in Uids : OneOf(tasks'[v], updates'[v], Reports(v)')
  BY <1>5, <1>6, ReportsMove DEF OneOf
<1>8. TimerType'
  BY <1>1, <1>3, <1>6 DEF TimerInv, TimerType
<1>9. OnTheWay'
  BY <1>1, <1>6, TakeMaps
<1>10. \A v \in Uids : TaskRight(tasks[v])' /\ OneOf(tasks[v], updates[v], Reports(v))'
  BY <1>6, <1>7 DEF TaskRight, OneOf
<1> QED
  BY <1>8, <1>9, <1>10 DEF TimerInv

\* What a report makes of the task that runs.
LEMMA FinishedRight ==
  ASSUME NEW t \in TaskStates, TaskRight(t), t.running
  PROVE  /\ Finished(t) \in TaskStates /\ TaskRight(Finished(t)) /\ Finished(t).running = FALSE
         /\ \A i \in Intervals \cup {0} : Follows(t, i) => Follows(Finished(t), i)
<1>1. t.on
  BY DEF TaskRight, NoTask
<1>2. CASE t.retired
  <2>1. Finished(t) = NoTask
    BY <1>1, <1>2 DEF Finished
  <2>2. \A i \in Intervals \cup {0} : Follows(t, i) => i = 0
    BY <1>2 DEF Follows
  <2>3. NoTask.running = FALSE
    BY DEF NoTask
  <2> QED
    BY <2>1, <2>2, <2>3, NoTaskRight
<1>3. CASE ~t.retired
  <2> DEFINE r == [t EXCEPT !.running = FALSE, !.key = TRUE]
  <2>1. Finished(t) = r
    BY <1>1, <1>3 DEF Finished
  <2>2. /\ r \in TaskStates /\ r.on = t.on /\ r.running = FALSE /\ r.key = TRUE
        /\ r.retired = t.retired /\ r.interval = t.interval
    BY DEF TaskStates
  <2> HIDE DEF r
  <2> QED
    BY <1>1, <1>3, <2>1, <2>2 DEF TaskRight, Follows
<1> QED
  BY <1>2, <1>3

\* A report is read: it was the only one of its profile, whose update is over.
LEMMA FinishNext == TimerInv /\ finish_task => TimerInv'
<1> SUFFICES ASSUME TimerInv, finish_task PROVE TimerInv'
  OBVIOUS
<1>1. /\ Received("TaskFinished") /\ UNCHANGED <<interval, timer_map, refresher, overdue, updates>>
      /\ tasks' = [tasks EXCEPT ![Head(mailbox).uid] = Finished(@)]
  BY DEF finish_task, caller
<1>2. /\ mailbox \in Seq(Commands) /\ tasks \in [Uids -> TaskStates] /\ updates \in [Uids -> {0, 1}]
      /\ \A v \in Uids : TaskRight(tasks[v]) /\ OneOf(tasks[v], updates[v], Reports(v))
  BY DEF TimerInv, TimerType
<1>3. mailbox' \in Seq(Commands) /\ Head(mailbox) \in Commands /\ Head(mailbox).kind = "TaskFinished"
  BY <1>1, <1>2, TakePlaces
<1>4. PICK u \in Uids : u = Head(mailbox).uid
  BY <1>3 DEF Commands
<1>5. \A v \in Uids : /\ Reports(v)' = {i \in 1..Len(mailbox') : i + 1 \in Reports(v)}
                      /\ \A i \in Reports(v) : i # 1 => i - 1 \in Reports(v)'
                      /\ 1 \in Reports(v) <=> u = v
  BY <1>1, <1>2, <1>4, TakeReports
<1>6. tasks[u].running /\ updates[u] = 0 /\ \A i, j \in Reports(u) : i = j
  BY <1>2, <1>4, <1>5 DEF OneOf
<1>7. /\ tasks' \in [Uids -> TaskStates] /\ \A v \in Uids : TaskRight(tasks'[v])
      /\ tasks'[u].running = FALSE /\ \A v \in Uids : v # u => tasks'[v] = tasks[v]
      /\ \A v \in Uids, i \in Intervals \cup {0} : Follows(tasks[v], i) => Follows(tasks'[v], i)
  BY <1>1, <1>2, <1>4, <1>6, FinishedRight
<1>8. Reports(u)' = {}
  <2>1. \A i \in Reports(u)' : i \in 1..Len(mailbox') /\ i + 1 \in Reports(u)
    BY <1>4, <1>5
  <2>2. \A i \in Reports(u)' : i \in Nat /\ i >= 1 /\ i + 1 = 1
    BY <1>4, <1>5, <1>6, <2>1
  <2> QED
    BY <2>2
<1>9. \A v \in Uids : OneOf(tasks'[v], updates[v], Reports(v)')
  <2>1. OneOf(tasks'[u], updates[u], Reports(u)')
    BY <1>6, <1>7, <1>8 DEF OneOf
  <2>2. ASSUME NEW v \in Uids, v # u PROVE OneOf(tasks'[v], updates[v], Reports(v)')
    BY <1>2, <1>5, <1>7, <2>2, ReportsMove DEF OneOf
  <2> QED
    BY <2>1, <2>2
<1>10. TimerType'
  BY <1>1, <1>3, <1>7 DEF TimerInv, TimerType
<1>11. OnTheWay'
  BY <1>1, <1>7, TakeMaps
<1>12. \A v \in Uids : TaskRight(tasks[v])' /\ OneOf(tasks[v], updates[v], Reports(v))'
  BY <1>1, <1>7, <1>9 DEF TaskRight, OneOf
<1> QED
  BY <1>10, <1>11, <1>12 DEF TimerInv

\* An update returns and reports.
LEMMA AsyncNext == ASSUME TimerInv, NEW u \in Uids, async_task(u) PROVE TimerInv'
<1>1. /\ updates[u] > 0 /\ updates' = [updates EXCEPT ![u] = @ - 1] /\ Send("TaskFinished", u, Nothing)
      /\ UNCHANGED <<interval, timer_map, refresher, overdue, tasks>>
  BY DEF async_task, caller
<1>2. /\ mailbox \in Seq(Commands) /\ tasks \in [Uids -> TaskStates] /\ updates \in [Uids -> {0, 1}]
      /\ \A v \in Uids : TaskRight(tasks[v]) /\ OneOf(tasks[v], updates[v], Reports(v))
  BY DEF TimerInv, TimerType
<1>3. [kind |-> "TaskFinished", uid |-> u, map |-> Nothing] \in Commands
  BY NothingIsMap DEF Commands
<1>4. /\ mailbox' \in Seq(Commands)
      /\ \A i \in 1..Len(mailbox) : mailbox'[i] = mailbox[i]
  BY <1>1, <1>2, <1>3, SendPlaces
<1>5. /\ MapsSent' = MapsSent /\ Reports(u)' = Reports(u) \cup {Len(mailbox) + 1}
      /\ \A v : u # v => Reports(v)' = Reports(v)
  BY <1>1, <1>2, <1>3, SendReports
<1>6. updates[u] = 1
  BY <1>1, <1>2
<1>7. updates' \in [Uids -> {0, 1}] /\ updates'[u] = 0 /\ \A v \in Uids : v # u => updates'[v] = updates[v]
  BY <1>1, <1>2, <1>6
<1>8. tasks[u].running /\ Reports(u) = {}
  BY <1>2, <1>6 DEF OneOf
<1>9. OneOf(tasks[u], updates'[u], Reports(u)')
  BY <1>5, <1>7, <1>8 DEF OneOf
<1>10. \A v \in Uids : OneOf(tasks[v], updates'[v], Reports(v)')
  BY <1>2, <1>5, <1>7, <1>9
<1>11. TimerType'
  BY <1>1, <1>4, <1>7 DEF TimerInv, TimerType
<1>12. OnTheWay'
  BY <1>1, <1>4, <1>5 DEF TimerInv, OnTheWay, Follows, MapsSent
<1>13. \A v \in Uids : TaskRight(tasks[v])' /\ OneOf(tasks[v], updates[v], Reports(v))'
  BY <1>1, <1>2, <1>10 DEF TaskRight, OneOf
<1> QED
  BY <1>11, <1>12, <1>13 DEF TimerInv

\* For any profiles and intervals and however often they are edited: no profile
\* is updated twice at once, and none that the scheduler knows of is left
\* without a deadline, an update or a report.
THEOREM TimerCorrect == TimerSpec => []NeverForgotten
<1>1. TimerInv /\ [TimerNext]_timerVars => TimerInv'
  <2> SUFFICES ASSUME TimerInv, [TimerNext]_timerVars PROVE TimerInv'
    OBVIOUS
  <2>1. CASE TimerNext
    BY <2>1, CallersNext, OverdueNext, RefreshSendNext, ApplyNext, RunNowNext, FinishNext, ExpiredNext, AsyncNext
       DEF TimerNext, RefreshStep, run_scheduler
  <2>2. CASE UNCHANGED timerVars
    <3>1. MapsSent' = MapsSent /\ \A u : Reports(u)' = Reports(u)
      BY <2>2, MailKept DEF timerVars
    <3> QED
      BY <2>2, <3>1 DEF timerVars, TimerInv, TimerType, TaskRight, OneOf, OnTheWay, Follows
  <2> QED
    BY <2>1, <2>2
<1>2. TimerInv => NeverForgotten
  <2> SUFFICES ASSUME TimerInv, NEW u \in Uids
               PROVE  /\ updates[u] <= 1
                      /\ refresher.pc # "send" /\ MapsSent = {} =>
                           IF timer_map[u] # 0
                           THEN /\ tasks[u].interval = timer_map[u]
                                /\ tasks[u].key \/ updates[u] = 1 \/ Reports(u) # {}
                           ELSE ~tasks[u].key
    BY DEF NeverForgotten
  <2>1. updates[u] \in {0, 1} /\ tasks[u] \in TaskStates /\ TaskRight(tasks[u]) /\ OneOf(tasks[u], updates[u], Reports(u))
    BY DEF TimerInv, TimerType
  <2>2. refresher.pc # "send" /\ MapsSent = {} => Follows(tasks[u], timer_map[u])
    BY DEF TimerInv, OnTheWay
  <2> QED
    BY <2>1, <2>2 DEF TaskRight, OneOf, Follows
<1> QED
  BY <1>1, <1>2, TimerStart, PTL DEF TimerSpec

=============================================================================
