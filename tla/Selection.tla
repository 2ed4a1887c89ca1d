------------------------------ MODULE Selection -----------------------------
(***************************************************************************)
(* Putting recorded node selections back into the core                     *)
(* (config/profiles.rs): every start of the core and every profile switch  *)
(* spawns an activation, which waits for the one before it and stands down *)
(* as soon as ACTIVATE_SELECTED_GENERATION has moved on.  Meanwhile the    *)
(* user selects nodes, and providers are still loading groups.             *)
(***************************************************************************)
EXTENDS Naturals

CONSTANTS
  SelProfiles,    \* profiles
  SelGroups,      \* proxy groups
  Nodes,          \* proxy nodes
  NoNode,         \* no record, no node
  MaxActivations, \* bounds the activations that are spawned
  MaxSelections   \* bounds the selections of the user

ASSUME SelectionAssumption ==
  NoNode \notin Nodes /\ MaxActivations \in Nat /\ MaxSelections \in Nat

VARIABLES
  active,         \* the current profile
  recorded,       \* PrfItem::selected of every profile
  offered,        \* the nodes of a group once it is loaded
  selectable,     \* the groups whose node can be selected
  groups,         \* external: what the core answers, group by group
  generation,     \* ACTIVATE_SELECTED_GENERATION
  worker,         \* the activations, in the order they were spawned
  spawned,        \* how many there are
  user,           \* a selection made by the user
  selections      \* how many there were

selVars == <<active, recorded, offered, selectable, groups, generation, worker, spawned, user,
             selections>>

config == <<offered, selectable>>
coreSide == <<config, groups>>
userSide == <<user, selections>>

Absent == [here |-> FALSE, all |-> {}, now |-> NoNode]
Empty == [here |-> TRUE, all |-> {}, now |-> NoNode]
NoWorker == [pc |-> "none", gen |-> 0, prune |-> FALSE, uid |-> NoNode, selected |-> <<>>,
             first |-> <<>>, second |-> <<>>, todo |-> {}, at |-> NoNode]
NoUser == [pc |-> "idle", group |-> NoNode, node |-> NoNode]

Records == [SelGroups -> Nodes \cup {NoNode}]

\* A loaded group has nodes and one of them is selected.
Loaded(g, now) == [here |-> TRUE, all |-> offered[g], now |-> now]

SelectionInit ==
  /\ active \in SelProfiles
  /\ recorded \in [SelProfiles -> Records]
  /\ offered \in [SelGroups -> SUBSET Nodes \ {{}}]
  /\ selectable \in SUBSET SelGroups
  /\ groups = [g \in SelGroups |-> Absent]
  /\ generation = 0
  /\ worker = [n \in 1 .. MaxActivations |-> NoWorker] /\ spawned = 0
  /\ user = NoUser /\ selections = 0

is_activation_current(n) == worker[n].gen = generation

----------------------------------------------------------------------------
(* The core and its providers. *)

\* A reloaded core lists its groups at once, later, or empty until a provider
\* has been read.
Reloaded == groups' \in [SelGroups -> {Absent, Empty}]

ProviderLoads(g) ==
  /\ groups[g].all = {}
  /\ \E now \in offered[g] : groups' = [groups EXCEPT ![g] = Loaded(g, now)]
  /\ UNCHANGED <<active, recorded, config, generation, worker, spawned, userSide>>

----------------------------------------------------------------------------
(* Spawning. *)

activate_selected_nodes_with(prune) ==
  /\ spawned < MaxActivations
  /\ spawned' = spawned + 1
  /\ generation' = generation + 1
  /\ worker' = [worker EXCEPT ![spawned + 1] =
                  [NoWorker EXCEPT !.pc = "wait", !.gen = generation + 1, !.prune = prune]]

\* A switch has put the new profile into the core and committed it.
activate_selected_nodes ==
  /\ \E p \in SelProfiles : active' = p
  /\ Reloaded
  /\ activate_selected_nodes_with(TRUE)
  /\ UNCHANGED <<recorded, config, userSide>>

\* A core start keeps the records it cannot match.
restore_selected_nodes ==
  /\ Reloaded
  /\ activate_selected_nodes_with(FALSE)
  /\ UNCHANGED <<active, recorded, config, userSide>>

----------------------------------------------------------------------------
(* The user selects a node, which is recorded; or removes a record. *)

switch_proxy_node ==
  /\ user.pc = "idle" /\ selections < MaxSelections
  /\ \E g \in SelGroups : \E n \in groups[g].all :
       /\ groups' = [groups EXCEPT ![g].now = n]
       /\ user' = [pc |-> "record", group |-> g, node |-> n]
  /\ selections' = selections + 1
  /\ UNCHANGED <<active, recorded, config, generation, worker, spawned>>

forget_selected_node ==
  /\ user.pc = "idle" /\ selections < MaxSelections
  /\ \E g \in SelGroups : user' = [pc |-> "record", group |-> g, node |-> NoNode]
  /\ selections' = selections + 1
  /\ UNCHANGED <<active, recorded, coreSide, generation, worker, spawned>>

\* Recorded under the store's permit; a record that is there already, or that
\* cannot be saved, supersedes nothing.
record_selected_node ==
  /\ user.pc = "record"
  /\ \/ /\ recorded[active][user.group] # user.node
        /\ recorded' = [recorded EXCEPT ![active][user.group] = user.node]
        /\ user' = [user EXCEPT !.pc = "supersede"]
     \/ user' = NoUser /\ UNCHANGED recorded
  /\ UNCHANGED <<active, coreSide, generation, worker, spawned, selections>>

supersede_selected_activation ==
  /\ user.pc = "supersede"
  /\ generation' = generation + 1
  /\ user' = NoUser
  /\ UNCHANGED <<active, recorded, coreSide, worker, spawned, selections>>

----------------------------------------------------------------------------
(* An activation. *)

Goto(n, pc) == worker' = [worker EXCEPT ![n].pc = pc]
StandDown(n) == Goto(n, "done")

Rest(n) == UNCHANGED <<active, recorded, coreSide, generation, spawned, userSide>>

\* It starts when the previous one has ended, from the committed profiles.
Begin(n) ==
  /\ worker[n].pc = "wait"
  /\ \A m \in 1 .. n - 1 : worker[m].pc = "done"
  /\ IF is_activation_current(n) /\ \E g \in SelGroups : recorded[active][g] # NoNode
     THEN worker' = [worker EXCEPT ![n].pc = "first", ![n].uid = active,
                                   ![n].selected = recorded[active]]
     ELSE StandDown(n)
  /\ Rest(n)

node_is_available(snapshot, g, node) == node \in snapshot[g].all

selected_nodes_need_confirmation(selected, snapshot) ==
  \E g \in SelGroups : selected[g] # NoNode /\ ~node_is_available(snapshot, g, selected[g])

Mut_missing_was_confirmed(selected, previous, g) == previous # <<>>

\* A node counts as gone when two snapshots list the group without it, a group
\* when neither lists it.
missing_was_confirmed(selected, previous, g) ==
  /\ previous # <<>>
  /\ previous[g].all # {} /\ ~node_is_available(previous, g, selected[g])

\* The record of a group that follows its own rule is what it is on now.
Reconciled(selected, previous, snapshot, g) ==
  IF selected[g] = NoNode \/ (~snapshot[g].here /\ previous # <<>> /\ ~previous[g].here) THEN NoNode
  ELSE IF /\ snapshot[g].here /\ snapshot[g].all # {}
          /\ \/ g \notin selectable
             \/ /\ ~node_is_available(snapshot, g, selected[g])
                /\ missing_was_confirmed(selected, previous, g)
  THEN snapshot[g].now
  ELSE selected[g]

\* The selections to make: available and not selected yet.
Activations(selected, snapshot) ==
  {g \in selectable : /\ node_is_available(snapshot, g, selected[g])
                      /\ snapshot[g].now # selected[g]}

\* Groups are asked for until the core answers; an unreachable core ends it.
FirstSnapshot(n) ==
  /\ worker[n].pc = "first"
  /\ \/ /\ is_activation_current(n)
        /\ worker' = [worker EXCEPT ![n].pc = "apply", ![n].first = groups,
                                    ![n].todo = Activations(worker[n].selected, groups)]
     \/ StandDown(n)
  /\ Rest(n)

\* One selection at a time: the generation is checked before and after, the
\* request itself is on its way in between and may fail.
ApplyCheck(n) ==
  /\ worker[n].pc = "apply" /\ worker[n].todo # {}
  /\ IF is_activation_current(n)
     THEN \E g \in worker[n].todo :
            worker' = [worker EXCEPT ![n].pc = "selecting", ![n].at = g, ![n].todo = @ \ {g}]
     ELSE StandDown(n)
  /\ Rest(n)

select_node_with_timeout(n) ==
  /\ worker[n].pc = "selecting"
  /\ LET g == worker[n].at
         node == worker[n].selected[g]
     IN  groups' \in {groups, IF node \in groups[g].all THEN [groups EXCEPT ![g].now = node] ELSE groups}
  /\ Goto(n, IF is_activation_current(n) THEN "apply" ELSE "done")
  /\ UNCHANGED <<active, recorded, config, generation, spawned, userSide>>

\* After the selections of a pass: a second snapshot when something is
\* missing, then the repair, or the retries of a core start.
PassDone(n) ==
  /\ worker[n].pc = "apply" /\ worker[n].todo = {}
  /\ CASE ~is_activation_current(n) -> StandDown(n)
       [] is_activation_current(n) /\ worker[n].second = <<>>
            /\ selected_nodes_need_confirmation(worker[n].selected, worker[n].first) -> Goto(n, "second")
       [] OTHER -> Goto(n, IF worker[n].prune THEN "repair" ELSE "settle")
  /\ Rest(n)

SecondSnapshot(n) ==
  /\ worker[n].pc = "second"
  /\ \/ /\ is_activation_current(n)
        /\ worker' = [worker EXCEPT ![n].pc = "apply", ![n].second = groups,
                                    ![n].todo = Activations(worker[n].selected, groups)]
     \/ StandDown(n)
  /\ Rest(n)

unsettled_selections(selected, snapshot) ==
  {g \in SelGroups : selected[g] # NoNode /\ snapshot[g].now # selected[g]}

\* Until everything is where it belongs, the deadline passes or the core is
\* not reachable any more.
settle_pending_selections(n) ==
  /\ worker[n].pc = "settle"
  /\ \/ /\ is_activation_current(n)
        /\ unsettled_selections(worker[n].selected, groups) # {}
        /\ worker' = [worker EXCEPT ![n].pc = "apply", ![n].second = groups,
                                    ![n].todo = Activations(worker[n].selected, groups)]
     \/ StandDown(n)
  /\ Rest(n)

Plan(n) ==
  [g \in SelGroups |->
     IF worker[n].second = <<>>
     THEN Reconciled(worker[n].selected, <<>>, worker[n].first, g)
     ELSE Reconciled(worker[n].selected, worker[n].first, worker[n].second, g)]

\* The repair is for the profile and the records it was planned from.
MayRepair(n) ==
  /\ is_activation_current(n) /\ active = worker[n].uid
  /\ recorded[active] = worker[n].selected

persist_reconciled_selected(n) ==
  /\ worker[n].pc = "repair"
  /\ \/ MayRepair(n) /\ recorded' = [recorded EXCEPT ![active] = Plan(n)]
     \/ UNCHANGED recorded
  /\ StandDown(n)
  /\ UNCHANGED <<active, coreSide, generation, spawned, userSide>>

ActivationStep(n) ==
  \/ Begin(n) \/ FirstSnapshot(n) \/ ApplyCheck(n) \/ select_node_with_timeout(n) \/ PassDone(n)
  \/ SecondSnapshot(n) \/ settle_pending_selections(n) \/ persist_reconciled_selected(n)

SelectionNext ==
  \/ activate_selected_nodes \/ restore_selected_nodes
  \/ switch_proxy_node \/ forget_selected_node \/ record_selected_node
  \/ supersede_selected_activation
  \/ \E g \in SelGroups : ProviderLoads(g)
  \/ \E n \in 1 .. MaxActivations : ActivationStep(n)

SelectionSpec == SelectionInit /\ [][SelectionNext]_selVars

----------------------------------------------------------------------------
(* A repair only replaces what it has read, so a selection recorded while  *)
(* it worked is not lost even before it is superseded; and it gives up a   *)
(* record only when both snapshots were without the node, never because a  *)
(* provider was still loading (a group without a choice follows the core). *)
RepairIsJustified ==
  [][ \A n \in 1 .. MaxActivations :
        worker[n].pc = "repair" /\ worker'[n].pc # "repair" /\ recorded' # recorded =>
          /\ recorded[active] = worker[n].selected
          /\ \A g \in selectable : recorded'[active][g] # recorded[active][g] =>
               /\ worker[n].second # <<>>
               /\ \A s \in {worker[n].first, worker[n].second} :
                    s[g].here => s[g].all # {} /\ recorded[active][g] \notin s[g].all
    ]_selVars

(* A restoration never moves a group off the node that is recorded for it: *)
(* superseded, it "cannot overwrite a newer selection".  The request of a  *)
(* restoration may still be on its way when it is superseded.              *)
NewerSelectionStays ==
  [][ \A n \in 1 .. MaxActivations, g \in SelGroups :
        worker[n].pc = "selecting" /\ worker'[n].pc # "selecting" /\ user.pc = "idle"
          /\ groups[g].now # NoNode /\ groups[g].now = recorded[active][g]
        => groups'[g].now = groups[g].now ]_selVars
=============================================================================
