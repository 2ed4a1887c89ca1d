---------------------------- MODULE RuntimeBundle ----------------------------
(***************************************************************************)
(* The providers of a runtime configuration and the files they keep below  *)
(* the runtime's directory.  When the configuration is generated, remote   *)
(* providers with different addresses that declare the same file are given *)
(* files of their own; when the service starts or stages the runtime, each *)
(* provider becomes an asset to copy or a download the core caches.        *)
(*                                                                         *)
(* A file is <<name>>, or <<d, u, n>>: the n-th name derived from the file *)
(* d and the address u (the digest distinguishes every d and u).           *)
(***************************************************************************)
EXTENDS Naturals

CONSTANTS
  ProviderCount,   \* providers 1 .. ProviderCount, in the order of declaration
  Urls             \* addresses of remote providers

ASSUME BundleAssumption == ProviderCount \in Nat /\ Urls # {}

VARIABLES
  declared,  \* [provider -> its kind, file and address]
  bphase,    \* "declared", "resolved", "collected" or "refused"
  assets,    \* files copied into the runtime
  remotes    \* remote_providers: file and address of each download

bundleVars == <<declared, bphase, assets, remotes>>

Provider  == 1 .. ProviderCount
AnUrl     == CHOOSE u \in Urls : TRUE
Outside   == <<"outside">>
Plain     == <<"file">>
Geo       == <<"geo">>     \* GEO_ASSETS
\* A file may be declared under the very name that would be derived.
Files     == {Plain, <<Plain, AnUrl, 0>>, Geo, Outside}
\* "nourl" is remote without an address, "absent" local without a source.
Providers == [kind: {"remote"}, path: Files, url: Urls]
               \cup [kind: {"local"}, path: Files \ {Outside}, url: {AnUrl}]
               \cup [kind: {"nourl", "absent"}, path: {Plain}, url: {AnUrl}]

BundleInit ==
  /\ declared \in [Provider -> Providers]
  /\ bphase = "declared" /\ assets = {} /\ remotes = {}

Of(kind) == {i \in Provider : declared[i].kind = kind}

-----------------------------------------------------------------------------
\* Owners of a file that do not move: anything but a remote with an address.
owners_local(d) == \E i \in Provider \ Of("remote") : declared[i].path = d
owners_remote(d) == {declared[i].url : i \in {j \in Of("remote") : declared[j].path = d}}

reserved == ({declared[i].path : i \in Provider} \ {Outside}) \cup {Geo}

Mut_allocate_provider_destination(d, u) == <<d, u, 0>>

\* The first derived name that nothing declares.
allocate_provider_destination(d, u) ==
  LET free == {n \in 0 .. ProviderCount : <<d, u, n>> \notin reserved}
  IN <<d, u, CHOOSE n \in free : \A m \in free : n <= m>>

\* Every source of a contested file moves, so order selects no owner.
resolve_provider_path_conflicts ==
  /\ bphase = "declared"
  /\ declared' = [i \in Provider |->
       LET p == declared[i]
       IN IF /\ p.kind = "remote" /\ p.path # Outside /\ ~owners_local(p.path)
             /\ owners_remote(p.path) # {p.url}
          THEN [p EXCEPT !.path = allocate_provider_destination(p.path, p.url)]
          ELSE p]
  /\ bphase' = "resolved"
  /\ UNCHANGED <<assets, remotes>>

\* What makes collect_provider_assets give up at provider i.
Refused(i) ==
  LET earlier(kind) == {j \in Of(kind) : j < i /\ declared[j].path = declared[i].path}
  IN \/ declared[i].path = Outside
     \/ \E j \in earlier("remote") : declared[j].url # declared[i].url
     \/ earlier("local") # {} /\ earlier("remote") = {}

\* A local file a download already claimed is not copied, and neither are the
\* geo files, which come last.
collect_provider_assets ==
  /\ bphase = "resolved"
  /\ IF \E i \in Of("remote") : Refused(i)
     THEN bphase' = "refused" /\ UNCHANGED <<assets, remotes>>
     ELSE /\ bphase' = "collected"
          /\ assets' = {declared[i].path : i \in {j \in Of("local") :
                          \A k \in Of("remote") : k < j => declared[k].path # declared[j].path}}
                       \cup ({Geo} \ {declared[i].path : i \in Of("remote")})
          /\ remotes' = {[path |-> declared[i].path, url |-> declared[i].url] : i \in Of("remote")}
  /\ UNCHANGED declared

BundleNext == resolve_provider_path_conflicts \/ collect_provider_assets

BundleSpec == BundleInit /\ [][BundleNext]_bundleVars

-----------------------------------------------------------------------------
\* A bundle is unambiguous: one address per downloaded file and no file both
\* copied and downloaded.  And it is only refused for what the resolution of
\* conflicts may not touch: a path outside the runtime, or a download declared
\* on the file of a local provider (resolve_provider_path_conflicts,
\* collect_provider_assets).
BundleUnambiguous ==
  /\ bphase = "collected" =>
       /\ \A r, q \in remotes : r.path = q.path => r.url = q.url
       /\ \A r \in remotes : r.path \notin assets
  /\ bphase = "refused" =>
       \E i \in Of("remote") : declared[i].path = Outside \/ owners_local(declared[i].path)
=============================================================================
