------------------------------- MODULE Listener -------------------------------
(***************************************************************************)
(* Whether the core could listen where a configuration says: the claims of *)
(* a candidate configuration, less those the running core holds already,   *)
(* are bound for a moment (core/listener.rs).  A refused bind alone proves *)
(* nothing, because the sockets of an ended core linger under another      *)
(* user; a bind that succeeds proves nothing on macOS, where a wildcard    *)
(* and a specific listener coexist.                                        *)
(*                                                                         *)
(* One probe per behaviour, in one world of foreign sockets.  Every socket *)
(* is of one address family, and a TCP socket that is bound listens.       *)
(***************************************************************************)
EXTENDS Naturals

CONSTANTS
  V4Hosts,     \* the IPv4 addresses of the host besides 127.0.0.1
  V6Hosts,     \* its IPv6 addresses besides ::1
  LinkLocal,   \* those of them that are link-local
  ListenPorts, \* the ports a listener may have; 0 is a listener that is off
  Worlds,      \* the sets of foreign sockets tried
  Networks,    \* the states of the host's interfaces tried
  Candidates,  \* the configurations tried
  Currents     \* the running configurations tried, or no core

VARIABLES
  platform,  \* "linux", "macos" or "windows"
  sockets,   \* the foreign sockets: address, transport, live or lingering
  network,   \* the addresses the interfaces list; those no socket can be bound to
  current,   \* the running core's configuration, or no core
  candidate, \* the configuration to try
  verdict    \* ListenerProbeOutcome of which transports, "none" before the probe

listenVars == <<platform, sockets, network, current, candidate, verdict>>

V4         == {"127.0.0.1", "0.0.0.0"} \cup V4Hosts
Addresses  == V4 \cup {"::1", "::"} \cup V6Hosts
Wild       == {"0.0.0.0", "::"}
Unspecified(a) == IF a \in V4 THEN "0.0.0.0" ELSE "::"
Loopback(a)    == IF a \in V4 THEN "127.0.0.1" ELSE "::1"
Family(a)      == {b \in Addresses : b \in V4 <=> a \in V4}

Transports == {"tcp", "udp"}
Socket     == [address: Addresses, transport: {"tcp"}, port: ListenPorts, state: {"live", "lingering"}]
                \cup [address: Addresses, transport: {"udp"}, port: ListenPorts, state: {"live"}]
Network    == [listed: SUBSET (V4Hosts \cup V6Hosts), failing: SUBSET Addresses]
Port       == ListenPorts \cup {0}
Listeners  == [lan: {"no", "*"} \cup Addresses, ipv6: BOOLEAN, mixed: ListenPorts, socks: Port,
               http: Port, redir: Port, tproxy: Port]
NoListener == [lan |-> "no", ipv6 |-> FALSE, mixed |-> 0, socks |-> 0, http |-> 0, redir |-> 0, tproxy |-> 0]

ASSUME ListenAssumption ==
  /\ (V4Hosts \cup V6Hosts) \cap {"no", "*", "0.0.0.0", "::", "127.0.0.1", "::1"} = {}
  /\ V4Hosts \cap V6Hosts = {} /\ LinkLocal \subseteq V4Hosts \cup V6Hosts
  /\ ListenPorts \subseteq Nat \ {0}
  /\ Worlds \subseteq SUBSET Socket /\ Networks \subseteq Network
  /\ Candidates \subseteq Listeners /\ Currents \subseteq Listeners \cup {NoListener}

ListenInit ==
  /\ platform \in {"linux", "macos", "windows"}
  /\ sockets \in Worlds /\ network \in Networks
  /\ candidate \in Candidates
  /\ current \in Currents
  /\ verdict = [outcome |-> "none", of |-> Transports]

-----------------------------------------------------------------------------
\* Loopback, unless the LAN may connect: then the bind-address, or every address
\* of both families.
proxy_bind_addresses(c) ==
  CASE c.lan = "no" -> {"127.0.0.1"}
    [] c.lan = "*"  -> {"0.0.0.0"} \cup (IF c.ipv6 THEN {"::"} ELSE {})
    [] OTHER        -> {c.lan}

\* PROXY_LISTENERS; Windows has no transparent proxies.
PROXY_LISTENERS ==
  {"mixed", "socks", "http"} \cup (IF platform = "windows" THEN {} ELSE {"redir", "tproxy"})
TransportsOf(name) == IF name \in {"http", "redir"} THEN {"tcp"} ELSE Transports

proxy_claims(c) ==
  {claim \in [name: PROXY_LISTENERS, address: proxy_bind_addresses(c), port: ListenPorts,
              transport: Transports] :
     claim.port = c[claim.name] /\ claim.transport \in TransportsOf(claim.name)}

Meet(a, b) == b \in Family(a) /\ (a = b \/ a \in Wild \/ b \in Wild)
claims_overlap(l, r) ==
  l.port = r.port /\ l.transport = r.transport /\ Meet(l.address, r.address)

internal_conflict(claims) ==
  \E l, r \in claims : l.name # r.name /\ claims_overlap(l, r)

-----------------------------------------------------------------------------
(* Binding one claim                                                         *)

\* Foreign sockets of the claim's transport on its port.
Foreign(transport, port) == {s \in sockets : s.port = port /\ s.transport = transport}

\* external: a live socket at another address of the family refuses a bind, but
\* not TCP on macOS, nor UDP on Windows, nor a specific TCP bind there if it is
\* the wildcard.
Refuses(s, address) ==
  \/ s.address = address
  \/ /\ Meet(s.address, address)
     /\ CASE platform = "macos"   -> s.transport # "tcp"
          [] platform = "windows" -> s.transport # "udp" /\ address \in Wild
          [] OTHER                -> TRUE

\* external: on Unix a lingering socket of another user is in the way as well.
bind_refused(address, transport, port) ==
  \E s \in Foreign(transport, port) :
    IF s.state = "live" THEN Refuses(s, address)
    ELSE platform # "windows" /\ Meet(s.address, address)

\* A bind that fails otherwise shows no conflict.
bind_socket(address, transport, port) ==
  CASE address \in network.failing            -> "failed"
    [] bind_refused(address, transport, port) -> "conflict"
    [] OTHER                                  -> "bound"

\* external: who answers a connection to the address (a wildcard is this host).
answers(address, port) ==
  \E s \in Foreign("tcp", port) :
    s.state = "live" /\ s.address \in {Unspecified(address),
                                       IF address \in Wild THEN Loopback(address) ELSE address}

Mut_nothing_is_serving(address, transport, port) ==
  transport = "tcp" /\ ~answers(address, port)

\* Only a refused connection to a concrete address clears a refused bind.
nothing_is_serving(address, transport, port) ==
  transport = "tcp" /\ address \notin Wild /\ ~answers(address, port)

\* macOS: the overlapping forms held while probing: for a wildcard what the
\* interfaces list, if they can be enumerated, without the link-local addresses.
guard_addresses(address) ==
  IF address \in Wild
  THEN {Loopback(address)} \cup ((network.listed \ LinkLocal) \cap Family(address))
  ELSE {Unspecified(address)}

windows_wildcard_tcp_listener_exists(c) ==
  platform = "windows" /\ c.transport = "tcp" /\ c.address \notin Wild
    /\ \E s \in Foreign("tcp", c.port) : s.address = Unspecified(c.address) /\ s.state = "live"

\* A guard in conflict with a socket that answers is a conflict of the claim; one
\* in conflict with lingering sockets spares the bind of the claim itself; one
\* that fails otherwise is ignored.
bind_claim(c) ==
  LET guards == IF platform = "macos" /\ c.transport = "tcp" THEN guard_addresses(c.address) ELSE {}
      held   == {g \in guards : bind_socket(g, c.transport, c.port) = "conflict"}
  IN CASE \E g \in held : ~nothing_is_serving(g, c.transport, c.port) -> "conflict"
       [] held # {} /\ \A g \in held : nothing_is_serving(g, c.transport, c.port) -> "bound"
       [] held = {} ->
            IF /\ bind_socket(c.address, c.transport, c.port) = "bound"
               /\ windows_wildcard_tcp_listener_exists(c)
            THEN "conflict" ELSE bind_socket(c.address, c.transport, c.port)

\* Every claim binds, or nothing serves it.
probe_claims(claims) ==
  IF \E c \in claims : bind_claim(c) = "conflict" /\ ~nothing_is_serving(c.address, c.transport, c.port)
  THEN "Conflict"
  ELSE IF \E c \in claims : bind_claim(c) = "failed" THEN "Indeterminate" ELSE "Available"

\* An address that is not the host's, a system call that fails, a connection
\* that is neither accepted nor refused.
Unclear == {"Invalid", "Indeterminate", "Conflict"}

\* The running core gives up its own sockets in the restart.
probe_proxy_port_change ==
  /\ verdict.outcome = "none"
  /\ \E outcome \in IF internal_conflict(proxy_claims(candidate)) THEN {"Conflict"}
                     ELSE {probe_claims({c \in proxy_claims(candidate) :
                             \A d \in proxy_claims(current) : ~claims_overlap(d, c)})} \cup Unclear :
       verdict' = [verdict EXCEPT !.outcome = outcome]
  /\ UNCHANGED <<platform, sockets, network, current, candidate>>

\* probe_mixed_port, and probe_listener: one address and a choice of transports.
probe_listener ==
  /\ verdict.outcome = "none" /\ current = NoListener
  /\ \A n \in PROXY_LISTENERS \ {"mixed"} : candidate[n] = 0
  /\ \E ts \in IF candidate.lan = "*" THEN {Transports} ELSE {{"tcp"}, {"udp"}, Transports} :
       \E outcome \in {probe_claims({c \in proxy_claims(candidate) : c.transport \in ts})} \cup Unclear :
         verdict' = [of |-> ts, outcome |-> outcome]
  /\ UNCHANGED <<platform, sockets, network, current, candidate>>

ListenNext == probe_proxy_port_change \/ probe_listener

ListenSpec == ListenInit /\ [][ListenNext]_listenVars

-----------------------------------------------------------------------------
\* The sockets that the probe does not look for, though they overlap the claim
\* without being at its address: on Windows UDP ones, where only the TCP
\* listeners are looked up; on macOS TCP ones for which no guard could be bound,
\* because their address is link-local, is not listed, or fails.
Overlooked(s, c) ==
  /\ s.address # c.address
  /\ \/ platform = "windows" /\ c.transport = "udp"
     \/ /\ platform = "macos" /\ c.transport = "tcp"
        /\ s.address \notin guard_addresses(c.address) \ network.failing

\* A port said to be available is: the candidate's own listeners do not stand
\* in each other's way, and no live socket of another process overlaps a claim
\* the running core does not hold already, but for one the probe overlooks, in
\* any mix of wildcard, specific and lingering sockets (probe_claims, bind_claim,
\* nothing_is_serving).
ProbeSound ==
  verdict.outcome = "Available" =>
    /\ ~internal_conflict(proxy_claims(candidate))
    /\ \A c \in {d \in proxy_claims(candidate) : d.transport \in verdict.of} :
         \/ \E d \in proxy_claims(current) : claims_overlap(d, c)
         \/ \A s \in Foreign(c.transport, c.port) :
              s.state = "live" /\ Meet(s.address, c.address) => Overlooked(s, c)
=============================================================================
