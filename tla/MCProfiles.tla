----------------------------- MODULE MCProfiles -----------------------------
(***************************************************************************)
(* The profiles, the node selections they carry, the generation of the     *)
(* configuration from them with its DNS decision, and the copies of        *)
(* provider caches, checked side by side: a behaviour belongs to the part  *)
(* its initial state names, and the others rest.                           *)
(***************************************************************************)
EXTENDS Profiles, Selection, Enhance, DnsOverride, ProviderSync, TLC

VARIABLE part

\* The generations tried: every switch on its own, profiles that set every
\* field or none, with and without overrides of their own.
Generations ==
  {g \in Givens : /\ g.tun /\ g.dns = (g.page # {}) /\ g.page \in {{}, PageKeys}
                  /\ g.lan = g.full /\ g.tunnel = "own" /\ g.edits \in {{}, {"add", "delete"}}}
RestingGeneration == CHOOSE g \in Generations : TRUE

ProfilesPartInit ==
  /\ ProfilesInit /\ SelectionInit /\ DnsInit /\ SyncInit
  /\ \E g \in Generations : Choice(g)
  /\ part \in {"profiles", "selection", "enhance", "dns", "sync"}
  /\ part # "selection" => /\ recorded = [p \in SelProfiles |-> [g \in SelGroups |-> NoNode]]
                           /\ offered = [g \in SelGroups |-> Nodes] /\ selectable = {}
  /\ part # "enhance" => given = RestingGeneration
  /\ part # "dns" => file = NoSource /\ ~disk
  /\ part # "sync" => cache.stamps = "exact"

ProfilesPartNext ==
  /\ UNCHANGED part
  /\ \/ part = "profiles"  /\ ProfilesNext  /\ UNCHANGED <<selVars, enhVars, dnsVars, syncVars>>
     \/ part = "selection" /\ SelectionNext /\ UNCHANGED <<profVars, enhVars, dnsVars, syncVars>>
     \/ part = "enhance"   /\ EnhanceNext   /\ UNCHANGED <<profVars, selVars, dnsVars, syncVars>>
     \/ part = "dns"       /\ DnsNext       /\ UNCHANGED <<profVars, selVars, enhVars, syncVars>>
     \/ part = "sync"      /\ SyncNext      /\ UNCHANGED <<profVars, selVars, enhVars, dnsVars>>

ProfilesPartSpec ==
  /\ ProfilesPartInit
  /\ [][ProfilesPartNext]_<<profVars, selVars, enhVars, dnsVars, syncVars, part>>

Symmetry ==
  UNION {Permutations(Uids), Permutations(Jobs), Permutations(SelProfiles), Permutations(Nodes),
         Permutations(Sources)}
=============================================================================
