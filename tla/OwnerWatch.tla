------------------------------ MODULE OwnerWatch ------------------------------
(***************************************************************************)
(* The owner monitor's judgement: samples of the Service's status, read    *)
(* every few seconds while the Service runs the core, and folded into two  *)
(* counters (core/runstate/owner.rs, core/service.rs).  What the fold      *)
(* decides is compared with a reading of the whole history of samples.     *)
(***************************************************************************)
EXTENDS Naturals, Sequences, FiniteSets

CONSTANTS
  SUSTAINED_SAMPLES,
  MaxSamples          \* samples of one monitor (bound)

ASSUME WatchAssumption == SUSTAINED_SAMPLES \in Nat \ {0} /\ MaxSamples \in Nat

VARIABLES
  watch,     \* OwnerWatch: unreadable and missing
  history,   \* the samples so far
  step       \* OwnerStep of the last sample

watchVars == <<watch, history, step>>

\* What read_owner_sample can make of the world.  An unreadable status comes
\* with the answer of the core's own endpoint; a status names the owner's
\* wish, the Service's state and whether the core has a process.
Unreadable == [kind: {"unreadable"}, endpoint: BOOLEAN]
Status     == [kind: {"status"}, ours: BOOLEAN, desired: BOOLEAN,
               state: {"running", "settling", "fatal"}, pid: BOOLEAN]
\* A session that is not the application's counts as not active.
read_owner_sample(s) == IF s.kind = "status" /\ ~s.ours THEN [kind |-> "notActive"] ELSE s

WatchInit ==
  /\ watch = [unreadable |-> 0, missing |-> 0]
  /\ history = <<>> /\ step = "continue"

is_settling(s) == s.state = "settling"   \* Starting, RecoveringCore
Missing(s)     == ~s.pid /\ ~is_settling(s)

recovery_reason(s, missing) ==
  IF ~s.desired \/ s.state = "fatal" \/ (Missing(s) /\ missing >= SUSTAINED_SAMPLES)
  THEN "sameOwnerFailure" ELSE "continue"

\* resolve_transport: a core that answers proves only the status channel broken.
resolve_transport(endpoint) == IF endpoint THEN "continue" ELSE "transportFailure"

Mut_observe_sample(s) ==
  CASE s.kind = "notActive"  -> watch' = watch /\ step' = "displaced"
    [] s.kind = "unreadable" ->
         LET n == watch.unreadable + 1
         IN IF n < SUSTAINED_SAMPLES
            THEN watch' = [unreadable |-> n, missing |-> 0] /\ step' = "continue"
            ELSE /\ step' = resolve_transport(s.endpoint)
                 /\ watch' = [unreadable |-> IF s.endpoint THEN 0 ELSE n, missing |-> 0]
    [] OTHER ->
         LET m == IF Missing(s) THEN watch.missing + 1 ELSE 0
         IN watch' = [unreadable |-> 0, missing |-> m] /\ step' = recovery_reason(s, m)

observe_sample(s) ==
  CASE s.kind = "notActive"  -> watch' = watch /\ step' = "displaced"
    [] s.kind = "unreadable" ->
         LET n == watch.unreadable + 1
         IN IF n < SUSTAINED_SAMPLES
            THEN watch' = [watch EXCEPT !.unreadable = n] /\ step' = "continue"
            ELSE /\ step' = resolve_transport(s.endpoint)
                 /\ watch' = [watch EXCEPT !.unreadable = IF s.endpoint THEN 0 ELSE n]
    [] OTHER ->
         LET m == IF Missing(s) THEN watch.missing + 1 ELSE 0
         IN watch' = [unreadable |-> 0, missing |-> m] /\ step' = recovery_reason(s, m)

\* One turn of the loop of start_owner_monitor; a recovery ends it.
start_owner_monitor ==
  /\ step = "continue" /\ Len(history) < MaxSamples
  /\ \E s \in Unreadable \cup Status :
       /\ observe_sample(read_owner_sample(s))
       /\ history' = Append(history, read_owner_sample(s))

WatchNext == start_owner_monitor

WatchSpec == WatchInit /\ [][WatchNext]_watchVars

-----------------------------------------------------------------------------
\* The status readings from the k-th sample on.
StatusFrom(h, k) == {i \in k .. Len(h) : h[i].kind = "status"}

\* Every status reading of the last few found the core gone.
CoreGone(h) ==
  \E k \in 1 .. Len(h) :
    /\ Cardinality(StatusFrom(h, k)) = SUSTAINED_SAMPLES
    /\ \A i \in StatusFrom(h, k) : Missing(h[i])

\* The history ends in unreadable samples, and at no whole run of them before
\* the last did the core's endpoint answer.
ChannelGone(h) ==
  \E n \in SUSTAINED_SAMPLES .. Len(h) :
    /\ \A i \in Len(h) - n + 1 .. Len(h) : h[i].kind = "unreadable"
    /\ n = Len(h) \/ h[Len(h) - n].kind = "status"
    /\ n % SUSTAINED_SAMPLES = 0 /\ ~h[Len(h)].endpoint

\* A recovery is asked for exactly when the history calls for it: a core gone in
\* as many status readings in a row as are tolerated, however many readings
\* failed in between; a status channel and an endpoint both gone; another owner;
\* or a Service that gave up.  A core that answers, or a Service that is still
\* settling, is never given up (OwnerWatch::observe, resolve_transport).
RecoveryJustified ==
  history # <<>> =>
    LET last == history[Len(history)]
    IN step = CASE last.kind = "notActive"  -> "displaced"
                [] last.kind = "unreadable" -> IF ChannelGone(history) THEN "transportFailure" ELSE "continue"
                [] OTHER -> IF ~last.desired \/ last.state = "fatal" \/ CoreGone(history)
                            THEN "sameOwnerFailure" ELSE "continue"
=============================================================================
