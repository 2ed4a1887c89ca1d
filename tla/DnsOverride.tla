----------------------------- MODULE DnsOverride -----------------------------
(***************************************************************************)
(* The DNS page may override the DNS servers a provider put into its       *)
(* profile, but only after the user agreed to give up those very servers,  *)
(* in this session.  The command that turns the override on or off         *)
(* (feat::set_dns_override) stages the setting and has the configuration   *)
(* generated; other updates generate too, from whatever is staged and from *)
(* a profile file a subscription may replace at any time, and afterwards   *)
(* bring the setting in line with what took effect                         *)
(* (Config::sync_dns_override).                                            *)
(***************************************************************************)
EXTENDS Naturals

CONSTANTS
  Sources,         \* fingerprints of the DNS fields a provider may set
  NoSource,        \* the profile sets none, or no confirmation
  MaxReplaced,     \* how often the profile's file is replaced (bound)
  MaxRestarts      \* how often the process ends and starts again (bound)

ASSUME NoSourceAssumption == NoSource \notin Sources

VARIABLES
  file,       \* dns_override_source of the profile's file
  setting,    \* ProfileDnsSettings of the profile, committed
  draft,      \* the staged one, or the committed one when nothing is staged
  disk,       \* the switch in verge.yaml; the confirmation is not stored
  runtime,    \* DnsOverrideState of the committed runtime
  gen,        \* a generation under way: whose, how far, what it read
  cmd,        \* set_dns_override
  sync,       \* Config::sync_dns_override after somebody's update
  agreed,     \* what the user agreed to in this session
  asked,      \* what the user was told would be given up
  replaced, restarts

dnsVars == <<file, setting, draft, disk, runtime, gen, cmd, sync, agreed, asked, replaced, restarts>>

AnySource == Sources \cup {NoSource}
Off       == [enabled |-> FALSE, confirmation |-> NoSource]
NoGen     == [by |-> "nobody", pc |-> "idle", read |-> Off]
NoCmd     == [pc |-> "idle", enabled |-> FALSE, source |-> NoSource]

\* DnsOverrideState::new
Mut_DnsOverrideState(read, source) ==
  [source |-> source, requested |-> read.enabled, confirmation |-> read.confirmation,
   enabled |-> read.enabled /\ (source = NoSource \/ read.confirmation # NoSource)]
DnsOverrideState(read, source) ==
  [source |-> source, requested |-> read.enabled, confirmation |-> read.confirmation,
   enabled |-> read.enabled /\ (source = NoSource \/ source = read.confirmation)]

\* use_default_config: the settings alone run, without a DNS decision.
DefaultRuntime == DnsOverrideState(Off, NoSource)

DnsInit ==
  /\ file \in AnySource
  /\ disk \in BOOLEAN /\ setting = [Off EXCEPT !.enabled = disk] /\ draft = setting
  /\ runtime = DefaultRuntime
  /\ gen = [NoGen EXCEPT !.by = "startup", !.pc = "settings"]
  /\ cmd = NoCmd /\ sync = "idle" /\ agreed = {} /\ asked = {}
  /\ replaced = 0 /\ restarts = 0

\* lock_config_write: the command holds it throughout, a sync while it writes.
Locked == cmd.pc # "idle" \/ sync = "save"

-----------------------------------------------------------------------------
(* Generations, one at a time under the update flag                          *)

other_update ==
  /\ gen.by = "nobody" /\ sync = "idle"
  /\ gen' = [NoGen EXCEPT !.by = "other", !.pc = "settings"]
  /\ UNCHANGED <<file, setting, draft, disk, runtime, cmd, sync, agreed, asked, replaced, restarts>>

\* verge.latest_arc(): what is staged, by whomever.
dns_settings_for ==
  /\ gen.pc = "settings"
  /\ gen' = [gen EXCEPT !.pc = "file", !.read = draft]
  /\ UNCHANGED <<file, setting, draft, disk, runtime, cmd, sync, agreed, asked, replaced, restarts>>

\* The profile is read later, after the settings.
dns_override_source ==
  /\ gen.pc = "file"
  /\ gen' = [gen EXCEPT !.pc = "apply", !.read = DnsOverrideState(gen.read, file)]
  /\ UNCHANGED <<file, setting, draft, disk, runtime, cmd, sync, agreed, asked, replaced, restarts>>

\* Validated and applied: the runtime is committed, and whoever asked goes on.
GenerationValid ==
  /\ gen.pc = "apply"
  /\ runtime' = gen.read
  /\ gen' = NoGen
  /\ IF gen.by = "command" THEN cmd' = [cmd EXCEPT !.pc = "result"] /\ UNCHANGED sync
                           ELSE sync' = "sync" /\ UNCHANGED cmd
  /\ UNCHANGED <<file, setting, draft, disk, agreed, asked, replaced, restarts>>

\* The profile cannot be read, or the core rejects the configuration: nothing
\* is committed and the command gives its draft up.  At startup the core runs
\* the settings alone (use_default_config), without a DNS decision.
GenerationFails ==
  /\ gen.pc \in {"file", "apply"}
  /\ gen' = NoGen
  /\ IF gen.by = "command" THEN cmd' = NoCmd /\ draft' = setting ELSE UNCHANGED <<cmd, draft>>
  /\ runtime' = IF gen.by = "startup" THEN DefaultRuntime ELSE runtime
  /\ UNCHANGED <<file, setting, disk, sync, agreed, asked, replaced, restarts>>

-----------------------------------------------------------------------------
(* set_dns_override                                                          *)

\* A source that would be given up without the user's agreement is returned.
SetCheck(enabled, confirmation) ==
  /\ cmd.pc = "idle" /\ ~Locked
  /\ agreed' = IF enabled /\ confirmation # NoSource THEN agreed \cup {confirmation} ELSE agreed
  /\ IF enabled /\ file \notin {NoSource, confirmation}
     THEN asked' = asked \cup {file} /\ UNCHANGED cmd
     ELSE cmd' = [pc |-> "stage", enabled |-> enabled, source |-> file] /\ UNCHANGED asked
  /\ UNCHANGED <<file, setting, draft, disk, runtime, gen, sync, replaced, restarts>>

\* The page's file is read first, which may fail.
SetStage ==
  /\ cmd.pc = "stage"
  /\ \/ /\ draft' = [enabled |-> cmd.enabled,
                     confirmation |-> IF cmd.enabled THEN cmd.source ELSE NoSource]
        /\ cmd' = [cmd EXCEPT !.pc = "update"]
     \/ cmd.enabled /\ cmd' = NoCmd /\ UNCHANGED draft
  /\ UNCHANGED <<file, setting, disk, runtime, gen, sync, agreed, asked, replaced, restarts>>

\* update_config_checked: refused while another update runs.
SetUpdate ==
  /\ cmd.pc = "update"
  /\ IF gen.by = "nobody"
     THEN /\ gen' = [NoGen EXCEPT !.by = "command", !.pc = "settings"]
          /\ cmd' = [cmd EXCEPT !.pc = "wait"] /\ UNCHANGED draft
     ELSE cmd' = NoCmd /\ draft' = setting /\ UNCHANGED gen
  /\ UNCHANGED <<file, setting, disk, runtime, sync, agreed, asked, replaced, restarts>>

\* The file may have been replaced since the check: the override is not on
\* then, and neither is the setting.
SetCommit ==
  /\ cmd.pc = "result"
  /\ LET refused == cmd.enabled /\ ~runtime.enabled
     IN /\ setting' = IF refused THEN Off ELSE draft
        /\ asked' = IF refused /\ runtime.source # NoSource THEN asked \cup {runtime.source} ELSE asked
  /\ draft' = setting' /\ cmd' = [cmd EXCEPT !.pc = "save"]
  /\ UNCHANGED <<file, disk, runtime, gen, sync, agreed, replaced, restarts>>

SetSave ==
  /\ cmd.pc = "save"
  /\ disk' \in {disk, setting.enabled} /\ cmd' = NoCmd
  /\ UNCHANGED <<file, setting, draft, runtime, gen, sync, agreed, asked, replaced, restarts>>

-----------------------------------------------------------------------------
(* sync_dns_override                                                         *)

\* Only a setting the generation was made from is corrected.
apply_to ==
  IF setting # [enabled |-> runtime.requested, confirmation |-> runtime.confirmation] THEN setting
  ELSE [enabled |-> runtime.enabled,
        confirmation |-> IF runtime.source # runtime.confirmation THEN NoSource ELSE runtime.confirmation]

sync_dns_override ==
  /\ sync = "sync" /\ ~Locked
  /\ setting' = apply_to /\ draft' = setting'
  /\ sync' = IF setting' = setting THEN "idle" ELSE "save"
  /\ UNCHANGED <<file, disk, runtime, gen, cmd, agreed, asked, replaced, restarts>>

SyncSave ==
  /\ sync = "save"
  /\ disk' \in {disk, setting.enabled} /\ sync' = "idle"
  /\ UNCHANGED <<file, setting, draft, runtime, gen, cmd, agreed, asked, replaced, restarts>>

-----------------------------------------------------------------------------
(* The world                                                                 *)

\* A subscription update writes the profile's file.
Replaced(s) ==
  /\ replaced < MaxReplaced /\ s # file
  /\ file' = s /\ replaced' = replaced + 1
  /\ UNCHANGED <<setting, draft, disk, runtime, gen, cmd, sync, agreed, asked, restarts>>

\* The process ends anywhere; what the user agreed to is not remembered.
DnsRestart ==
  /\ restarts < MaxRestarts /\ restarts' = restarts + 1
  /\ setting' = [Off EXCEPT !.enabled = disk] /\ draft' = setting'
  /\ runtime' = DefaultRuntime
  /\ gen' = [NoGen EXCEPT !.by = "startup", !.pc = "settings"]
  /\ cmd' = NoCmd /\ sync' = "idle" /\ agreed' = {} /\ asked' = {}
  /\ UNCHANGED <<file, disk, replaced>>

DnsNext ==
  \/ other_update \/ dns_settings_for \/ dns_override_source
  \/ GenerationValid \/ GenerationFails
  \/ \E e \in BOOLEAN, c \in asked \cup {NoSource} : SetCheck(e, c)
  \/ SetStage \/ SetUpdate \/ SetCommit \/ SetSave
  \/ sync_dns_override \/ SyncSave
  \/ \E s \in AnySource : Replaced(s)
  \/ DnsRestart

DnsSpec == DnsInit /\ [][DnsNext]_dnsVars

-----------------------------------------------------------------------------
(* Properties                                                                *)

\* The page never overrides a provider's DNS servers the user did not agree to
\* give up in this session, whatever file was written between the question,
\* the check and the generation (DnsOverrideState::new).
UnconfirmedNeverInEffect ==
  runtime.enabled /\ runtime.source # NoSource => runtime.source \in agreed

=============================================================================
