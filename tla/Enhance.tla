------------------------------- MODULE Enhance -------------------------------
(***************************************************************************)
(* How the runtime configuration is derived: the profile's file, the       *)
(* user's rule, proxy and group edits, the application's own settings, the *)
(* DNS page, and then the overrides (a merge and a script for all profiles *)
(* and a merge and a script of this profile), after which the fields the   *)
(* application owns are put back and names that lead nowhere are removed.  *)
(*                                                                         *)
(* A configuration is flattened to the fields the code treats in different *)
(* ways, one of each kind: "mode" is always written by the application and *)
(* "socks-port" only while its switch is on; "tun.enable" always, and      *)
(* "tun.stack" once the TUN page has saved it; "dns.ns" and "hosts" belong *)
(* to the DNS page while it overrides.  A value is who wrote it last.      *)
(* Keys are lower case, as the scripts and merges see them.                *)
(***************************************************************************)
EXTENDS Naturals

CONSTANT MaxOverrides   \* how many of the four overrides write something (bound)

VARIABLES
  given,   \* the settings, the profile and the user's edits of this generation
  econf,   \* the configuration so far: [fields -> who wrote the value]
  group,   \* the selector group: its members and the providers it uses
  owned,   \* AuthoritativeFields: [owned fields -> captured value]
  elogs,   \* result_map: [uids of overrides -> keys noted as discarded]
  change,  \* what the overrides for all profiles wrote, where they run again
  writing, \* how many overrides wrote something
  discarded, \* DISCARDED_KEYS_NOTICE.last
  epc

enhVars == <<given, econf, group, owned, elogs, change, writing, discarded, epc>>

ControlPlane == {"mode", "socks-port"}
TunKeys      == {"tun.enable", "tun.stack"}
PageKeys     == {"dns.ns", "hosts"}
Proxies      == {"own", "added"}
EFields      == ControlPlane \cup TunKeys \cup PageKeys \cup Proxies
                  \cup {"dns.range6", "bind-address", "provider"}
OverrideUids == {"Merge", "Script", "merge", "script"}

\* What an override may do: write a field, remove one (scripts only), replace
\* the whole tun block by nothing, or add a member no proxy answers to.
Writes  == {[kind |-> "write", keys |-> {f}] : f \in EFields \ {"dns.range6", "own", "added"}}
             \cup {[kind |-> "ghost", keys |-> {}], [kind |-> "nothing", keys |-> {}]}
Removes == {[kind |-> "remove", keys |-> {f}] : f \in EFields \ {"dns.range6"}}
             \cup {[kind |-> "remove", keys |-> TunKeys]}
Nothing == [kind |-> "nothing", keys |-> {}]

\* get_config_values: the switches, what the TUN page saved and what the DNS
\* page sets (is_set).  "full" profiles write every field themselves.
Givens == [socks: BOOLEAN, stack: BOOLEAN, tun: BOOLEAN, page: SUBSET PageKeys, dns: BOOLEAN,
           lan: BOOLEAN, full: BOOLEAN, ownItems: BOOLEAN, edits: SUBSET {"add", "delete"},
           tunnel: {"none", "own", "added", "group"}]

Choice(g) ==
  /\ given = g
  /\ econf = [f \in EFields |-> "none"]
  /\ group = [members |-> {}, uses |-> {}]
  /\ owned = [f \in {} |-> "none"]
  /\ elogs = [u \in OverrideUids |-> {}]
  /\ change = [merge |-> Nothing, script |-> Nothing]
  /\ discarded = {} /\ writing = 0 /\ epc = "collect"

-----------------------------------------------------------------------------
(* The profile and the user's edits                                          *)

\* The current profile's text, or an error when it cannot be read or is gone;
\* an override whose file is missing or unreadable falls back to doing nothing.
collect_profile_items ==
  /\ epc = "collect"
  /\ \/ /\ econf' = [f \in EFields |->
                       IF f = "own" \/ (f \notin {"added", "dns.range6"} /\ given.full)
                       THEN "profile" ELSE "none"]
        /\ group' = [members |-> {"own", "DIRECT"}, uses |-> {"provider"}]
        /\ epc' = "build"
     \/ epc' = "failed" /\ UNCHANGED <<econf, group>>
  /\ UNCHANGED <<given, owned, elogs, change, writing, discarded>>

\* use_seq on the proxies: deleted ones go, added ones come, and the first
\* selector group follows.
SeqProxies(c) ==
  [c EXCEPT !["own"]   = IF "delete" \in given.edits THEN "none" ELSE @,
            !["added"] = IF "add" \in given.edits THEN "user" ELSE @]
SeqGroup(g) ==
  [g EXCEPT !.members = (@ \ (IF "delete" \in given.edits THEN {"own"} ELSE {}))
                          \cup (IF "add" \in given.edits THEN {"added"} ELSE {})]

-----------------------------------------------------------------------------
(* The application's own values                                              *)

merge_default_config(c) ==
  [c EXCEPT !["mode"]       = "app",
            !["socks-port"] = IF given.socks THEN "app" ELSE "none",
            !["tun.stack"]  = IF given.stack THEN "app" ELSE @]

use_tun(c) ==
  [c EXCEPT !["tun.enable"] = "app",
            !["dns.range6"] = IF given.tun /\ @ = "none" THEN "default" ELSE @]

\* fake-ip with IPv6 needs a range.
ensure_fake_ip_range6(c) == [c EXCEPT !["dns.range6"] = IF @ = "none" THEN "default" ELSE @]

\* The fields the DNS page sets (is_set) replace the profile's.
merge_dns_config(c) == [f \in EFields |-> IF f \in given.page THEN "page" ELSE c[f]]

apply_dns_settings(c) == IF given.dns THEN ensure_fake_ip_range6(merge_dns_config(c)) ELSE c

gui_tun_keys == {"tun.enable"} \cup (IF given.stack THEN {"tun.stack"} ELSE {})

capture(c) ==
  [f \in ControlPlane \cup {k \in gui_tun_keys : c[k] # "none"}
           \cup (IF given.dns THEN given.page ELSE {}) |-> c[f]]

\* From the edits to AuthoritativeFields::capture.
Build ==
  /\ epc = "build"
  /\ econf' = apply_dns_settings(use_tun(merge_default_config(SeqProxies(econf))))
  /\ group' = SeqGroup(group)
  /\ owned' = capture(econf')
  /\ epc' = "merges"
  /\ UNCHANGED <<given, elogs, change, writing, discarded>>

-----------------------------------------------------------------------------
(* The overrides                                                             *)

\* use_merge and use_script lay their change over the configuration.
Overlaid(c, ch) ==
  [f \in EFields |-> IF f \notin ch.keys THEN c[f]
                     ELSE IF ch.kind = "write" THEN "over" ELSE "none"]
OverlaidGroup(g, ch) == [g EXCEPT !.members = @ \cup (IF ch.kind = "ghost" THEN {"ghost"} ELSE {})]

\* Owned keys an override moved off the application's value.
overridden(before, after) ==
  {f \in DOMAIN owned : before[f] # after[f] /\ after[f] # owned[f]}

\* One merge: its notes are added to those under its uid.
MergeItem(uid, ch) ==
  /\ econf' = Overlaid(econf, ch) /\ group' = OverlaidGroup(group, ch)
  /\ elogs' = [elogs EXCEPT ![uid] = @ \cup overridden(econf, econf')]

\* One script: its log replaces the one under its uid; an exception, a script
\* that takes too long or returns too much leaves the configuration alone.
ScriptItem(uid, ch) ==
  /\ econf' = Overlaid(econf, ch) /\ group' = OverlaidGroup(group, ch)
  /\ elogs' = [elogs EXCEPT ![uid] = overridden(econf, econf')]

Counted(ch) ==
  /\ writing' = IF ch = Nothing THEN writing ELSE writing + 1
  /\ writing' <= MaxOverrides

process_global_items ==
  \/ /\ epc = "merges"
     /\ \E ch \in Writes :
          /\ Counted(ch) /\ MergeItem("Merge", ch)
          /\ change' = IF given.ownItems THEN change ELSE [change EXCEPT !.merge = ch]
     /\ epc' = "scripts"
     /\ UNCHANGED <<given, owned, discarded>>
  \/ /\ epc = "scripts"
     /\ \E ch \in Writes \cup Removes :
          /\ Counted(ch) /\ ScriptItem("Script", ch)
          /\ change' = IF given.ownItems THEN change ELSE [change EXCEPT !.script = ch]
     /\ epc' = "ownMerge"
     /\ UNCHANGED <<given, owned, discarded>>

\* A profile without a merge or script of its own runs the common ones again.
process_profile_items ==
  \/ /\ epc = "ownMerge"
     /\ IF given.ownItems THEN \E ch \in Writes : Counted(ch) /\ MergeItem("merge", ch)
                          ELSE MergeItem("Merge", change.merge) /\ UNCHANGED writing
     /\ epc' = "ownScript"
     /\ UNCHANGED <<given, owned, change, discarded>>
  \/ /\ epc = "ownScript"
     /\ IF given.ownItems
        THEN \E ch \in Writes \cup Removes : Counted(ch) /\ ScriptItem("script", ch)
        ELSE ScriptItem("Script", change.script) /\ UNCHANGED writing
     /\ epc' = "finish"
     /\ UNCHANGED <<given, owned, change, discarded>>

-----------------------------------------------------------------------------
(* What the application insists on                                           *)

Mut_enforce_control_plane(c) ==
  [f \in EFields |-> IF f \in ControlPlane /\ owned[f] # "none" THEN owned[f] ELSE c[f]]

\* A key that was not captured is removed.
enforce_control_plane(c) == [f \in EFields |-> IF f \in ControlPlane THEN owned[f] ELSE c[f]]

enforce_tun(c) ==
  [f \in EFields |-> IF f \in TunKeys \cap DOMAIN owned THEN owned[f] ELSE c[f]]

enforce(c) ==
  [f \in EFields |-> IF f \in PageKeys \cap DOMAIN owned THEN owned[f]
                     ELSE enforce_tun(enforce_control_plane(c))[f]]

\* Addresses a profile or an override writes: the loopback ones.
is_loopback_bind_address(v) == v \in {"profile", "over"}

ensure_lan_bind_address(c) ==
  [c EXCEPT !["bind-address"] = IF given.lan /\ is_loopback_bind_address(@) THEN "any" ELSE @]

Exists(c) == {f \in Proxies : c[f] # "none"}

\* Members that are neither a proxy nor built in go, unless the group draws on
\* a provider that exists; providers that do not exist go.
cleanup_proxy_groups(c, g) ==
  LET uses == {u \in g.uses : c[u] # "none"}
  IN [members |-> IF uses # {} THEN g.members ELSE g.members \cap (Exists(c) \cup {"DIRECT"}),
      uses |-> uses]

\* A tunnel through a proxy that does not exist goes direct.
sanitize_tunnels_proxy(c) ==
  IF given.tunnel \in Proxies \ Exists(c) THEN "none" ELSE given.tunnel

Finish ==
  /\ epc = "finish"
  /\ discarded' = overridden(owned, econf)
  /\ econf' = ensure_lan_bind_address(enforce(econf))
  /\ group' = cleanup_proxy_groups(econf', group)
  /\ given' = [given EXCEPT !.tunnel = sanitize_tunnels_proxy(econf')]
  /\ epc' = "done"
  /\ UNCHANGED <<owned, elogs, change, writing>>

EnhanceNext ==
  \/ collect_profile_items \/ Build
  \/ process_global_items \/ process_profile_items \/ Finish

EnhanceSpec == (\E g \in Givens : Choice(g)) /\ [][EnhanceNext]_enhVars

-----------------------------------------------------------------------------
(* Properties                                                                *)

\* Whatever the profile and four overrides wrote or removed, the generated
\* configuration holds what the settings say: the mode, a SOCKS port exactly
\* while its switch is on, the TUN switch and the saved TUN fields, what the
\* DNS page sets while it overrides, and no loopback address under LAN.
SettingsWin ==
  epc = "done" =>
    /\ econf["mode"] = "app" /\ econf["tun.enable"] = "app"
    /\ econf["socks-port"] = IF given.socks THEN "app" ELSE "none"
    /\ given.stack => econf["tun.stack"] = "app"
    /\ given.dns => \A f \in given.page : econf[f] = "page"
    /\ given.lan => ~is_loopback_bind_address(econf["bind-address"])

\* Every key whose value was discarded in the end is noted in the log of an
\* override, so the user can find the one that wrote it.  (A profile without a
\* script of its own runs the common script twice, and the second log replaces
\* the first: there the note can be missing.)
NotesComplete ==
  epc = "done" /\ given.ownItems => discarded \subseteq UNION {elogs[u] : u \in OverrideUids}

\* No name in the result leads nowhere: a group's providers exist, its members
\* exist or are built in unless it draws on a provider, and a tunnel's proxy
\* exists.
NamesResolve ==
  epc = "done" =>
    /\ \A u \in group.uses : econf[u] # "none"
    /\ group.uses = {} => group.members \subseteq Exists(econf) \cup {"DIRECT"}
    /\ given.tunnel \in Proxies => econf[given.tunnel] # "none"

\* The generated configuration is what the settings, the overrides and the
\* profile together mean: the three parts above.
GeneratedRight == SettingsWin /\ NotesComplete /\ NamesResolve
=============================================================================
