-------------------------- MODULE CoreLifecycleProofs --------------------------
(***************************************************************************)
(* What the lifecycle of the core promises, on every platform and for any  *)
(* number of tasks, watchers and observers: one sidecar, a proxy guard only *)
(* over a core that runs, a watched Service, and what a stop, a restart or a *)
(* crash handler may never do.                                             *)
(***************************************************************************)
EXTENDS CoreLifecycle, SequenceTheorems, FiniteSetTheorems, WellFoundedInduction, TLAPS

(***************************************************************************)
(* The list of steps                                                       *)
(***************************************************************************)

\* The steps an operation takes before it holds the lifecycle lock.
Entry == {"write lock", "lock", "apply config"}

\* All the steps.
Steps ==
  {"write lock", "lock", "apply config", "end", "failed", "raise", "start", "apply if ready", "stop",
   "stop for restart", "must run", "allow", "stop guard", "must sidecar", "uninstall and start",
   "still sidecar", "clear", "kill", "wait killed", "hand over", "capture", "apply", "check apply",
   "refresh", "check refresh", "wait exit", "spawn", "poll", "catch start", "catch service",
   "catch rollback", "catch handoff", "rollback start", "service failed", "rollback", "fall back",
   "start service", "must service", "uninstall", "still service", "stage", "stop service",
   "service stops"}

\* The steps that rely on what the step before them did.
Needs == {"spawn", "poll", "wait exit", "service failed", "start service", "hand over", "fall back",
          "kill", "wait killed", "stop service", "service stops", "apply", "check apply", "refresh",
          "check refresh", "allow", "catch service"}

\* The steps that leave the core stopped.
Stops == {"stop", "stop service", "service stops", "wait killed"}

\* Step a may come directly before step b, which relies on it.
May(a, b) ==
  \/ b = "spawn" /\ a = "wait exit"
  \/ b = "poll" /\ a = "spawn"
  \/ b = "wait exit" /\ a = "rollback start"
  \/ b \in {"start service", "fall back"} /\ a \in Stops
  \/ b = "hand over" /\ a = "wait killed"
  \/ b \in {"kill", "stop service"} /\ (a = "clear" \/ (Platform = "macos" /\ a = "stop guard"))
  \/ b = "wait killed" /\ a = "kill"
  \/ b = "apply" /\ a = "capture"
  \/ b = "check apply" /\ a = "apply"
  \/ b = "refresh" /\ a \in {"apply", "check apply"}
  \/ b = "check refresh" /\ a = "refresh"
  \/ b = "catch service" /\ a = "start service"

\* A list of steps under the lifecycle lock: what a step relies on comes right
\* before it, a proxy application is complete, and the handler of a Service
\* start comes right after it, at the front of the list.
Sound(s) ==
  /\ s \in Seq(Steps)
  /\ \A i \in 1 .. Len(s) :
       /\ s[i] \notin Entry
       /\ i > 1 /\ s[i] \in Needs => May(s[i - 1], s[i])
       /\ s[i] = "capture" => i + 4 <= Len(s) /\ s[i + 4] = "check refresh"
       /\ s[i] = "catch service" => i <= 2

\* The operations on the setting.
ProxyOps == {"proxy on", "proxy off"}

\* What task t can rely on when b is its next step.
Cond(t, b) ==
  /\ b = "spawn" => exit = None
  /\ b \in {"spawn", "wait exit", "service failed", "start service", "hand over", "fall back"} =>
       mode = "NotRunning"
  /\ b = "poll" => exit \in Pids
  /\ b \in {"kill", "wait killed", "stop service", "service stops"} =>
       /\ guard = FALSE \/ owned = FALSE
       /\ Platform # "macos" => owned = FALSE
  /\ b \in {"apply", "check apply", "refresh", "check refresh"} =>
       mode # "NotRunning" \/ (write = t /\ want = FALSE)
  /\ b = "allow" => write = t /\ task[t].op \notin ProxyOps

\* The steps that find what they rely on.
Able(t) == {b \in Steps : Cond(t, b)}

\* A task that holds the lock.
Inside(t) == Sound(task[t].todo) /\ (task[t].todo # <<>> => task[t].todo[1] \in Able(t))

\* What an operation finds once it has the lock, and once it has both.
Enters(t, s) ==
  /\ Sound(s)
  /\ s # <<>> /\ s[1] \in Needs =>
       /\ write = t
       /\ \/ s[1] = "allow" /\ task[t].op \notin ProxyOps
          \/ s[1] = "apply" /\ want = FALSE

\* The same for an operation that takes both locks.
EntersBoth(t, s) ==
  /\ Sound(s)
  /\ s # <<>> /\ s[1] \in Needs => \/ s[1] = "allow" /\ task[t].op \notin ProxyOps
                                   \/ s[1] = "apply" /\ task[t].op = "proxy off"

\* A task that does not hold it.
Outside(t) ==
  /\ task[t].todo \in Seq(Steps)
  /\ \/ task[t].todo \in {<<>>, <<"end">>, <<"apply config", "end">>}
     \/ At(t, "lock") /\ Enters(t, Tail(task[t].todo))
     \/ /\ At(t, "write lock")
        /\ Tail(task[t].todo) # <<>> /\ Head(Tail(task[t].todo)) = "lock"
        /\ EntersBoth(t, Tail(Tail(task[t].todo)))

\* The shape of a task.
TaskShape ==
  task = [t \in Tasks |-> [todo |-> task[t].todo, op |-> task[t].op, exp |-> task[t].exp, old |-> task[t].old]]

\* Every task keeps to the list it was given, inside the lock or outside; it has
\* an operation; and an operation on the setting holds the configuration lock
\* once it is past it.
TaskInv ==
  /\ TaskShape
  /\ \A t \in Tasks :
       /\ life = t => Inside(t)
       /\ life # t => Outside(t)
       /\ life = t \/ task[t].todo # <<>> => task[t].op \in Ops
       /\ task[t].todo # <<>> /\ task[t].op \in ProxyOps => write = t \/ At(t, "write lock")

(***************************************************************************)
(* The parts of the state                                                  *)
(***************************************************************************)

\* A guard of our own proxy has a core behind it.
ProxyInv ==
  /\ mode \in {"NotRunning", "Sidecar", "Service"}
  /\ mode = "NotRunning" => guard = FALSE \/ owned = FALSE

\* At most the process whose exit is awaited is alive, and what an event task has
\* noticed is true.
SidecarInv ==
  /\ proc \in [Pids -> {"unused", "alive", "dead"}]
  /\ event = [p \in Pids |-> [pc |-> event[p].pc, gen |-> event[p].gen]]
  /\ exit \in Pids \cup {None}
  /\ \A p \in Pids : /\ proc[p] = "alive" => exit = p
                     /\ event[p].pc \in {"terminated", "clearing"} => proc[p] = "dead"
                     /\ event[p].pc = "clearing" => life = p /\ child = None

\* Somebody will notice that the Service core is lost.
Watched ==
  \/ watch[<<owner, "monitor">>].pc \in {"watching", "lost"}
  \/ \E w \in Watchers : watch[w].pc = "claimed" /\ w[1] + 1 = owner

\* A watcher of the current generation watches the current session, and so does
\* the recovery that claimed the generation before it; a recovery that holds the
\* lock still has the session it saw.
WatcherOk(w) ==
  /\ watch[w] = [pc |-> watch[w].pc, saw |-> watch[w].saw]
  /\ watch[w].pc \in {"none", "watching", "lost", "claimed", "recovering"}
  /\ watch[w].pc # "none" => w[1] <= owner
  /\ watch[w].pc \in {"claimed", "recovering"} => w[1] < owner
  /\ mode = "Service" /\ watch[w].pc \in {"watching", "lost"} /\ w[1] = owner => watch[w].saw = session
  /\ mode = "Service" /\ watch[w].pc = "claimed" /\ w[1] + 1 = owner => watch[w].saw = session
  /\ watch[w].pc = "recovering" => life = w /\ mode = "Service" /\ watch[w].saw = session

\* Every watcher is right; a Service core is watched except while it is being
\* stopped or given up.
WatchInv ==
  /\ owner \in Gens
  /\ watch = [w \in Watchers |-> watch[w]]
  /\ \A w \in Watchers : WatcherOk(w)
  /\ mode = "Service" =>
       \/ Watched
       \/ \E t \in Tasks : life = t /\ At(t, "service stops")
       \/ \E w \in Watchers : watch[w].pc = "recovering"

\* The inductive invariant.
CoreInv == TaskInv /\ ProxyInv /\ SidecarInv /\ WatchInv

(***************************************************************************)
(* Lists of steps: what the operators on them keep                         *)
(***************************************************************************)

\* A list without the handler of a Service start.
Plain(s) == Sound(s) /\ \A i \in 1 .. Len(s) : s[i] # "catch service"

\* One whose handler of a Service start comes next, if it has one.
CatchNext(s) == \A i \in 1 .. Len(s) : s[i] = "catch service" => i = 1

\* A list that is not empty has a first step.
LEMMA HasFirst ==
  ASSUME NEW S, NEW s \in Seq(S)
  PROVE  Len(s) \in Nat /\ (s # <<>> <=> Len(s) >= 1)
PROOF
  OBVIOUS

\* What is left of a list from some step on is one, and what its first step
\* relies on was done by the step before it.
LEMMA FromSound ==
  ASSUME NEW s, Sound(s), NEW k \in 1 .. Len(s)
  PROVE  /\ Sound(SubSeq(s, k + 1, Len(s)))
         /\ SubSeq(s, k + 1, Len(s)) # <<>> /\ SubSeq(s, k + 1, Len(s))[1] \in Needs =>
              May(s[k], SubSeq(s, k + 1, Len(s))[1])
         /\ s[k] # "start service" => Plain(SubSeq(s, k + 1, Len(s)))
         /\ CatchNext(SubSeq(s, k + 1, Len(s)))
PROOF
<1> DEFINE v == SubSeq(s, k + 1, Len(s))
<1>1. s \in Seq(Steps) /\ Len(s) \in Nat
  BY HasFirst DEF Sound
<1>2. k \in Nat /\ k >= 1 /\ k <= Len(s)
  BY <1>1
<1>3. v \in Seq(Steps) /\ Len(v) = Len(s) - k /\ \A i \in 1 .. Len(v) : v[i] = s[i + k]
  <2>1. \A i \in k + 1 .. Len(s) : s[i] \in Steps
    BY <1>1, <1>2, ElementOfSeq
  <2>2. /\ v \in Seq(Steps) /\ Len(v) = IF k + 1 <= Len(s) THEN Len(s) - (k + 1) + 1 ELSE 0
        /\ \A i \in 1 .. Len(s) - (k + 1) + 1 : v[i] = s[(k + 1) + i - 1]
    BY <1>1, <1>2, <2>1, SubSeqProperties
  <2>3. Len(v) = Len(s) - k /\ Len(s) - (k + 1) + 1 = Len(v) /\ Len(v) \in Nat
    BY <1>1, <1>2, <2>2
  <2>4. \A i \in Nat : (k + 1) + i - 1 = i + k
    BY <1>2
  <2>5. ASSUME NEW i \in 1 .. Len(v) PROVE v[i] = s[i + k]
    <3>1. i \in 1 .. Len(s) - (k + 1) + 1 /\ i \in Nat
      BY <2>3
    <3>2. QED
      BY <3>1, <2>2, <2>4
  <2>6. QED
    BY <2>2, <2>3, <2>5
<1> HIDE DEF v
<1>4. \A i \in 1 .. Len(v) : i + k \in 1 .. Len(s) /\ i + k > 1
  BY <1>1, <1>2, <1>3
<1>5. ASSUME NEW i \in 1 .. Len(v)
      PROVE  /\ v[i] \notin Entry
             /\ v[i] \in Needs => May(s[(i + k) - 1], v[i])
             /\ i > 1 /\ v[i] \in Needs => May(v[i - 1], v[i])
             /\ v[i] = "capture" => i + 4 <= Len(v) /\ v[i + 4] = "check refresh"
             /\ v[i] = "catch service" => i + k <= 2
  <2>1. v[i] = s[i + k] /\ i + k \in 1 .. Len(s) /\ i + k > 1
    BY <1>3, <1>4
  <2>2. /\ v[i] \notin Entry /\ (v[i] \in Needs => May(s[(i + k) - 1], v[i]))
        /\ (v[i] = "catch service" => i + k <= 2)
    BY <2>1 DEF Sound
  <2>3. i > 1 /\ v[i] \in Needs => May(v[i - 1], v[i])
    <3>1. SUFFICES ASSUME i > 1 PROVE v[i - 1] = s[(i + k) - 1]
      BY <2>2
    <3>2. i - 1 \in 1 .. Len(v) /\ (i - 1) + k = (i + k) - 1
      BY <3>1, <1>2, <1>3
    <3>3. QED
      BY <3>2, <1>3
  <2>4. v[i] = "capture" => i + 4 <= Len(v) /\ v[i + 4] = "check refresh"
    <3>1. SUFFICES ASSUME v[i] = "capture" PROVE i + 4 <= Len(v) /\ v[i + 4] = "check refresh"
      OBVIOUS
    <3>2. (i + k) + 4 <= Len(s) /\ s[(i + k) + 4] = "check refresh"
      BY <2>1, <3>1 DEF Sound
    <3>3. i + 4 <= Len(v) /\ i + 4 \in 1 .. Len(v) /\ (i + 4) + k = (i + k) + 4
      <4>1. (i + k) + 4 <= Len(s) /\ Len(v) = Len(s) - k /\ Len(s) \in Nat
        BY <3>2, <1>1, <1>3
      <4>2. QED
        BY <4>1, <1>2
    <3>4. QED
      BY <3>2, <3>3, <1>3
  <2>5. QED
    BY <2>2, <2>3, <2>4
<1>6. Sound(v)
  <2>1. ASSUME NEW i \in 1 .. Len(v), v[i] = "catch service" PROVE i <= 2
    <3>1. i + k <= 2
      BY <2>1, <1>5
    <3>2. QED
      BY <3>1, <1>2
  <2>2. QED
    BY <1>3, <1>5, <2>1 DEF Sound
<1>7. v # <<>> => 1 \in 1 .. Len(v) /\ (1 + k) - 1 = k
  BY <1>2, <1>3, HasFirst
<1>8. v # <<>> /\ v[1] \in Needs => May(s[k], v[1])
  BY <1>5, <1>7
<1>9. ASSUME s[k] # "start service", NEW i \in 1 .. Len(v) PROVE v[i] # "catch service"
  <2>1. SUFFICES ASSUME v[i] = "catch service" PROVE FALSE
    OBVIOUS
  <2>2. i + k <= 2
    BY <2>1, <1>5
  <2>3. i = 1 /\ v # <<>>
    BY <2>2, <1>2, <1>3, HasFirst
  <2>4. "catch service" \in Needs
    BY DEF Needs
  <2>5. May(s[k], "catch service")
    BY <2>1, <2>3, <2>4, <1>8
  <2>6. QED
    BY <2>5, <1>9 DEF May
<1>10. CatchNext(v)
  <2>1. SUFFICES ASSUME NEW i \in 1 .. Len(v), v[i] = "catch service" PROVE i = 1
    BY DEF CatchNext
  <2>2. i + k <= 2
    BY <2>1, <1>5
  <2>3. QED
    BY <2>2, <1>2
<1>11. QED
  BY <1>6, <1>8, <1>9, <1>10 DEF v, Plain

\* The rest of a list.
LEMMA RestSound ==
  ASSUME NEW s, Sound(s), s # <<>>
  PROVE  /\ Head(s) = s[1] /\ s[1] \in Steps
         /\ Sound(Tail(s))
         /\ Tail(s) # <<>> /\ Tail(s)[1] \in Needs => May(s[1], Tail(s)[1])
         /\ s[1] # "start service" => Plain(Tail(s))
         /\ CatchNext(Tail(s))
PROOF
<1>1. s \in Seq(Steps)
  BY DEF Sound
<1>2. 1 \in 1 .. Len(s)
  BY <1>1, HasFirst
<1>3. Head(s) = s[1] /\ s[1] \in Steps
  BY <1>1, <1>2, ElementOfSeq
<1>4. Tail(s) = SubSeq(s, 1 + 1, Len(s))
  <2>1. 1 + 1 = 2
    OBVIOUS
  <2>2. QED
    BY <1>1, <2>1, TailIsSubSeq
<1>5. QED
  BY <1>2, <1>3, <1>4, FromSound

\* A list before another one.
LEMMA JoinSound ==
  ASSUME NEW u, NEW v, Sound(u), u # <<>>, Plain(v),
         v # <<>> /\ v[1] \in Needs => May(u[Len(u)], v[1])
  PROVE  /\ Sound(u \o v) /\ u \o v # <<>> /\ (u \o v)[1] = u[1]
         /\ Plain(u) => Plain(u \o v)
         /\ v # <<>> => (u \o v)[Len(u \o v)] = v[Len(v)]
PROOF
<1> DEFINE w == u \o v
<1>1. u \in Seq(Steps) /\ Len(u) \in Nat /\ Len(u) >= 1 /\ v \in Seq(Steps) /\ Len(v) \in Nat
  <2>1. u \in Seq(Steps) /\ v \in Seq(Steps)
    BY DEF Sound, Plain
  <2>2. QED
    BY <2>1, HasFirst
<1>2. /\ w \in Seq(Steps) /\ Len(w) = Len(u) + Len(v)
      /\ \A i \in 1 .. Len(u) + Len(v) : w[i] = IF i <= Len(u) THEN u[i] ELSE v[i - Len(u)]
  BY <1>1, ConcatProperties
<1> HIDE DEF w
<1>3. \A i \in 1 .. Len(u) : w[i] = u[i] /\ i \in 1 .. Len(w)
  BY <1>1, <1>2
<1>4. \A j \in 1 .. Len(v) : w[j + Len(u)] = v[j] /\ j + Len(u) \in 1 .. Len(w)
  BY <1>1, <1>2
<1>5. \A i \in 1 .. Len(w) : i \in 1 .. Len(u) \/ \E j \in 1 .. Len(v) : i = j + Len(u)
  <2>1. SUFFICES ASSUME NEW i \in 1 .. Len(w), ~(i \in 1 .. Len(u)) PROVE \E j \in 1 .. Len(v) : i = j + Len(u)
    OBVIOUS
  <2>2. i - Len(u) \in 1 .. Len(v) /\ i = (i - Len(u)) + Len(u)
    BY <2>1, <1>1, <1>2
  <2>3. QED
    BY <2>2
<1>6. ASSUME NEW i \in 1 .. Len(u)
      PROVE  /\ w[i] \notin Entry
             /\ i > 1 /\ w[i] \in Needs => May(w[i - 1], w[i])
             /\ w[i] = "capture" => i + 4 <= Len(w) /\ w[i + 4] = "check refresh"
             /\ w[i] = "catch service" => i <= 2
  <2>1. w[i] = u[i] /\ i \in Nat
    BY <1>3
  <2>2. i > 1 => w[i - 1] = u[i - 1]
    <3>1. SUFFICES ASSUME i > 1 PROVE w[i - 1] = u[i - 1]
      OBVIOUS
    <3>2. i - 1 \in 1 .. Len(u)
      BY <3>1, <1>1
    <3>3. QED
      BY <3>2, <1>3
  <2>3. u[i] = "capture" => i + 4 <= Len(w) /\ w[i + 4] = "check refresh"
    <3>1. SUFFICES ASSUME u[i] = "capture" PROVE i + 4 <= Len(w) /\ w[i + 4] = "check refresh"
      OBVIOUS
    <3>2. i + 4 <= Len(u) /\ u[i + 4] = "check refresh"
      BY <3>1 DEF Sound
    <3>3. i + 4 \in 1 .. Len(u) /\ i + 4 <= Len(w)
      <4>1. i + 4 <= Len(u) /\ Len(w) = Len(u) + Len(v) /\ Len(u) \in Nat /\ Len(v) \in Nat
        BY <3>2, <1>1, <1>2
      <4>2. QED
        BY <4>1
    <3>4. QED
      BY <3>2, <3>3, <1>3
  <2>4. QED
    BY <2>1, <2>2, <2>3 DEF Sound
<1>7. ASSUME NEW j \in 1 .. Len(v), NEW i, i = j + Len(u)
      PROVE  /\ w[i] \notin Entry
             /\ i > 1 /\ w[i] \in Needs => May(w[i - 1], w[i])
             /\ w[i] = "capture" => i + 4 <= Len(w) /\ w[i + 4] = "check refresh"
             /\ w[i] # "catch service"
  <2>1. w[i] = v[j] /\ i \in Nat
    BY <1>1, <1>4, <1>7
  <2>2. v[j] \in Needs => May(w[i - 1], v[j])
    <3>1. CASE j = 1
      <4>1. i - 1 = Len(u) /\ Len(u) \in 1 .. Len(u)
        BY <3>1, <1>1, <1>7
      <4>2. w[i - 1] = u[Len(u)]
        BY <4>1, <1>3
      <4>3. v # <<>>
        BY <1>7, EmptySeq
      <4>4. QED
        BY <3>1, <4>2, <4>3
    <3>2. CASE j # 1
      <4>1. j - 1 \in 1 .. Len(v) /\ i - 1 = (j - 1) + Len(u) /\ j > 1
        BY <3>2, <1>1, <1>7
      <4>2. w[i - 1] = v[j - 1]
        BY <4>1, <1>4
      <4>3. QED
        BY <4>1, <4>2 DEF Plain, Sound
    <3>3. QED
      BY <3>1, <3>2
  <2>3. v[j] = "capture" => i + 4 <= Len(w) /\ w[i + 4] = "check refresh"
    <3>1. SUFFICES ASSUME v[j] = "capture" PROVE i + 4 <= Len(w) /\ w[i + 4] = "check refresh"
      OBVIOUS
    <3>2. j + 4 <= Len(v) /\ v[j + 4] = "check refresh"
      BY <3>1 DEF Plain, Sound
    <3>3. j + 4 \in 1 .. Len(v) /\ i + 4 <= Len(w) /\ i + 4 = (j + 4) + Len(u)
      <4>1. /\ j + 4 <= Len(v) /\ Len(w) = Len(u) + Len(v) /\ Len(u) \in Nat /\ Len(v) \in Nat
            /\ i = j + Len(u)
        BY <3>2, <1>1, <1>2, <1>7
      <4>2. QED
        BY <4>1
    <3>4. QED
      BY <3>2, <3>3, <1>4
  <2>4. v[j] \notin Entry /\ v[j] # "catch service"
    BY DEF Plain, Sound
  <2>5. QED
    BY <2>1, <2>2, <2>3, <2>4
<1>8. Sound(w)
  BY <1>2, <1>5, <1>6, <1>7 DEF Sound
<1>9. w # <<>> /\ w[1] = u[1]
  BY <1>1, <1>2, <1>3, EmptySeq
<1>10. Plain(u) => Plain(w)
  BY <1>8, <1>5, <1>3, <1>7 DEF Plain
<1>11. v # <<>> => w[Len(w)] = v[Len(v)]
  <2>1. v # <<>> => Len(v) \in 1 .. Len(v)
    BY <1>1, EmptySeq
  <2>2. QED
    BY <2>1, <1>1, <1>2, <1>4
<1>12. QED
  BY <1>8, <1>9, <1>10, <1>11 DEF w

\* A handler that comes up was not needed.
LEMMA SkipSound ==
  ASSUME NEW s, Sound(s)
  PROVE  /\ Sound(Skip(s))
         /\ Skip(s) # <<>> /\ Skip(s)[1] \in Needs => s # <<>> /\ Skip(s) = s /\ s[1] \notin Catches
PROOF
<1>1. CASE s # <<>> /\ Head(s) \in Catches
  <2>1. Skip(s) = Tail(s)
    BY <1>1 DEF Skip
  <2>2. Sound(Tail(s)) /\ Head(s) = s[1] /\ (Tail(s) # <<>> /\ Tail(s)[1] \in Needs => May(s[1], Tail(s)[1]))
    BY <1>1, RestSound
  <2>3. s[1] \in {"catch start", "catch service", "catch rollback", "catch handoff"}
    BY <1>1, <2>2 DEF Catches, Handler
  <2>4. \A b : ~May(s[1], b)
    BY <2>3 DEF May, Stops
  <2>5. QED
    BY <2>1, <2>2, <2>4
<1>2. CASE ~(s # <<>> /\ Head(s) \in Catches)
  <2>1. Skip(s) = s
    BY <1>2 DEF Skip
  <2>2. s # <<>> => Head(s) = s[1]
    BY RestSound
  <2>3. QED
    BY <1>2, <2>1, <2>2
<1>3. QED
  BY <1>1, <1>2

(***************************************************************************)
(* The lists the operations are made of                                    *)
(***************************************************************************)

\* A list of one step.
LEMMA List1 ==
  ASSUME NEW S, NEW a \in S
  PROVE  /\ <<a>> \in Seq(S) /\ Len(<<a>>) = 1 /\ <<a>> # <<>>
         /\ <<a>>[1] = a
PROOF
  OBVIOUS

\* A list of two steps.
LEMMA List2 ==
  ASSUME NEW S, NEW a \in S, NEW b \in S
  PROVE  /\ <<a, b>> \in Seq(S) /\ Len(<<a, b>>) = 2 /\ <<a, b>> # <<>>
         /\ <<a, b>>[1] = a /\ <<a, b>>[2] = b
         /\ Tail(<<a, b>>) = <<b>> /\ Head(<<a, b>>) = a
PROOF
  OBVIOUS

\* A list of three.
LEMMA List3 ==
  ASSUME NEW S, NEW a \in S, NEW b \in S, NEW c \in S
  PROVE  /\ <<a, b, c>> \in Seq(S) /\ Len(<<a, b, c>>) = 3 /\ <<a, b, c>> # <<>>
         /\ <<a, b, c>>[1] = a /\ <<a, b, c>>[2] = b /\ <<a, b, c>>[3] = c
         /\ Tail(<<a, b, c>>) = <<b, c>> /\ Head(<<a, b, c>>) = a
PROOF
  OBVIOUS

\* A list of four.
LEMMA List4 ==
  ASSUME NEW S, NEW a \in S, NEW b \in S, NEW c \in S, NEW d \in S
  PROVE  /\ <<a, b, c, d>> \in Seq(S) /\ Len(<<a, b, c, d>>) = 4 /\ <<a, b, c, d>> # <<>>
         /\ <<a, b, c, d>>[1] = a /\ <<a, b, c, d>>[2] = b /\ <<a, b, c, d>>[3] = c /\ <<a, b, c, d>>[4] = d
         /\ Tail(<<a, b, c, d>>) = <<b, c, d>> /\ Head(<<a, b, c, d>>) = a
PROOF
  OBVIOUS

\* A list of five.
LEMMA List5 ==
  ASSUME NEW S, NEW a \in S, NEW b \in S, NEW c \in S, NEW d \in S, NEW e \in S
  PROVE  /\ <<a, b, c, d, e>> \in Seq(S) /\ Len(<<a, b, c, d, e>>) = 5 /\ <<a, b, c, d, e>> # <<>>
         /\ <<a, b, c, d, e>>[1] = a /\ <<a, b, c, d, e>>[2] = b /\ <<a, b, c, d, e>>[3] = c /\ <<a, b, c, d, e>>[4] = d /\ <<a, b, c, d, e>>[5] = e
         /\ Tail(<<a, b, c, d, e>>) = <<b, c, d, e>> /\ Head(<<a, b, c, d, e>>) = a
PROOF
  OBVIOUS

\* A list of six.
LEMMA List6 ==
  ASSUME NEW S, NEW a \in S, NEW b \in S, NEW c \in S, NEW d \in S, NEW e \in S, NEW f \in S
  PROVE  /\ <<a, b, c, d, e, f>> \in Seq(S) /\ Len(<<a, b, c, d, e, f>>) = 6 /\ <<a, b, c, d, e, f>> # <<>>
         /\ <<a, b, c, d, e, f>>[1] = a /\ <<a, b, c, d, e, f>>[2] = b /\ <<a, b, c, d, e, f>>[3] = c /\ <<a, b, c, d, e, f>>[4] = d /\ <<a, b, c, d, e, f>>[5] = e /\ <<a, b, c, d, e, f>>[6] = f
         /\ Tail(<<a, b, c, d, e, f>>) = <<b, c, d, e, f>> /\ Head(<<a, b, c, d, e, f>>) = a
PROOF
  OBVIOUS

\* A list of its own: its first step and its last.
Piece(s, first, last) == Sound(s) /\ s # <<>> /\ s[1] = first /\ s[Len(s)] = last

\* One without the handler of a Service start.
Chunk(s, first, last) == Piece(s, first, last) /\ Plain(s)

\* The steps that ask nothing of the list but what comes before them.
Simple == Steps \ (Entry \cup {"capture", "catch service"})

\* One such step.
LEMMA Piece1 ==
  ASSUME NEW a \in Simple
  PROVE  Chunk(<<a>>, a, a)
PROOF
<1> DEFINE s == <<a>>
<1>1. a \in Steps
  BY DEF Simple
<1>2. s \in Seq(Steps) /\ Len(s) = 1 /\ s # <<>> /\ s[1] = a
  BY <1>1, List1
<1> HIDE DEF s
<1>3. \A i \in 1 .. 1 : i = 1
  OBVIOUS
<1>4. ASSUME NEW i \in 1 .. 1
      PROVE  /\ s[i] \notin Entry /\ s[i] # "capture" /\ s[i] # "catch service"
             /\ i > 1 /\ s[i] \in Needs => May(s[i - 1], s[i])
  <2>1. CASE i = 1
    <3>1. ~(i > 1)
      BY <2>1
    <3>2. QED
      BY <2>1, <3>1, <1>2 DEF Simple
  <2>2. QED
    BY <1>3, <2>1
<1>5. Sound(s)
  BY <1>2, <1>4 DEF Sound
<1>6. QED
  BY <1>2, <1>4, <1>5 DEF Chunk, Piece, Plain, s

\* Two.
LEMMA Piece2 ==
  ASSUME NEW a \in Simple, NEW b \in Simple,
         b \in Needs => May(a, b)
  PROVE  Chunk(<<a, b>>, a, b)
PROOF
<1> DEFINE s == <<a, b>>
<1>1. a \in Steps /\ b \in Steps
  BY DEF Simple
<1>2. s \in Seq(Steps) /\ Len(s) = 2 /\ s # <<>> /\ s[1] = a /\ s[2] = b
  BY <1>1, List2
<1> HIDE DEF s
<1>3. \A i \in 1 .. 2 : i = 1 \/ i = 2
  OBVIOUS
<1>4. ASSUME NEW i \in 1 .. 2
      PROVE  /\ s[i] \notin Entry /\ s[i] # "capture" /\ s[i] # "catch service"
             /\ i > 1 /\ s[i] \in Needs => May(s[i - 1], s[i])
  <2>1. CASE i = 1
    <3>1. ~(i > 1)
      BY <2>1
    <3>2. QED
      BY <2>1, <3>1, <1>2 DEF Simple
  <2>2. CASE i = 2
    <3>1. i - 1 = 1
      BY <2>2
    <3>2. QED
      BY <2>2, <3>1, <1>2 DEF Simple
  <2>3. QED
    BY <1>3, <2>1, <2>2
<1>5. Sound(s)
  BY <1>2, <1>4 DEF Sound
<1>6. QED
  BY <1>2, <1>4, <1>5 DEF Chunk, Piece, Plain, s

\* Three.
LEMMA Piece3 ==
  ASSUME NEW a \in Simple, NEW b \in Simple, NEW c \in Simple,
         b \in Needs => May(a, b),
         c \in Needs => May(b, c)
  PROVE  Chunk(<<a, b, c>>, a, c)
PROOF
<1> DEFINE s == <<a, b, c>>
<1>1. a \in Steps /\ b \in Steps /\ c \in Steps
  BY DEF Simple
<1>2. s \in Seq(Steps) /\ Len(s) = 3 /\ s # <<>> /\ s[1] = a /\ s[2] = b /\ s[3] = c
  BY <1>1, List3
<1> HIDE DEF s
<1>3. \A i \in 1 .. 3 : i = 1 \/ i = 2 \/ i = 3
  OBVIOUS
<1>4. ASSUME NEW i \in 1 .. 3
      PROVE  /\ s[i] \notin Entry /\ s[i] # "capture" /\ s[i] # "catch service"
             /\ i > 1 /\ s[i] \in Needs => May(s[i - 1], s[i])
  <2>1. CASE i = 1
    <3>1. ~(i > 1)
      BY <2>1
    <3>2. QED
      BY <2>1, <3>1, <1>2 DEF Simple
  <2>2. CASE i = 2
    <3>1. i - 1 = 1
      BY <2>2
    <3>2. QED
      BY <2>2, <3>1, <1>2 DEF Simple
  <2>3. CASE i = 3
    <3>1. i - 1 = 2
      BY <2>3
    <3>2. QED
      BY <2>3, <3>1, <1>2 DEF Simple
  <2>4. QED
    BY <1>3, <2>1, <2>2, <2>3
<1>5. Sound(s)
  BY <1>2, <1>4 DEF Sound
<1>6. QED
  BY <1>2, <1>4, <1>5 DEF Chunk, Piece, Plain, s

\* Four.
LEMMA Piece4 ==
  ASSUME NEW a \in Simple, NEW b \in Simple, NEW c \in Simple, NEW d \in Simple,
         b \in Needs => May(a, b),
         c \in Needs => May(b, c),
         d \in Needs => May(c, d)
  PROVE  Chunk(<<a, b, c, d>>, a, d)
PROOF
<1> DEFINE s == <<a, b, c, d>>
<1>1. a \in Steps /\ b \in Steps /\ c \in Steps /\ d \in Steps
  BY DEF Simple
<1>2. s \in Seq(Steps) /\ Len(s) = 4 /\ s # <<>> /\ s[1] = a /\ s[2] = b /\ s[3] = c /\ s[4] = d
  BY <1>1, List4
<1> HIDE DEF s
<1>3. \A i \in 1 .. 4 : i = 1 \/ i = 2 \/ i = 3 \/ i = 4
  OBVIOUS
<1>4. ASSUME NEW i \in 1 .. 4
      PROVE  /\ s[i] \notin Entry /\ s[i] # "capture" /\ s[i] # "catch service"
             /\ i > 1 /\ s[i] \in Needs => May(s[i - 1], s[i])
  <2>1. CASE i = 1
    <3>1. ~(i > 1)
      BY <2>1
    <3>2. QED
      BY <2>1, <3>1, <1>2 DEF Simple
  <2>2. CASE i = 2
    <3>1. i - 1 = 1
      BY <2>2
    <3>2. QED
      BY <2>2, <3>1, <1>2 DEF Simple
  <2>3. CASE i = 3
    <3>1. i - 1 = 2
      BY <2>3
    <3>2. QED
      BY <2>3, <3>1, <1>2 DEF Simple
  <2>4. CASE i = 4
    <3>1. i - 1 = 3
      BY <2>4
    <3>2. QED
      BY <2>4, <3>1, <1>2 DEF Simple
  <2>5. QED
    BY <1>3, <2>1, <2>2, <2>3, <2>4
<1>5. Sound(s)
  BY <1>2, <1>4 DEF Sound
<1>6. QED
  BY <1>2, <1>4, <1>5 DEF Chunk, Piece, Plain, s

\* apply_proxy_after_start is complete.
LEMMA ProxyPiece ==
  Chunk(ApplyProxy, "capture", "check refresh")
PROOF
<1> DEFINE s == ApplyProxy
<1>1. "capture" \in Steps /\ "apply" \in Steps /\ "check apply" \in Steps /\ "refresh" \in Steps /\ "check refresh" \in Steps
  BY DEF Steps
<1>2. s \in Seq(Steps) /\ Len(s) = 5 /\ s # <<>> /\ s[1] = "capture" /\ s[2] = "apply" /\ s[3] = "check apply" /\ s[4] = "refresh" /\ s[5] = "check refresh"
  BY <1>1, List5 DEF ApplyProxy
<1> HIDE DEF s
<1>3. \A i \in 1 .. 5 : i = 1 \/ i = 2 \/ i = 3 \/ i = 4 \/ i = 5
  OBVIOUS
<1>4. ASSUME NEW i \in 1 .. 5
      PROVE  /\ s[i] \notin Entry /\ s[i] # "catch service"
             /\ s[i] = "capture" => i = 1
             /\ i > 1 /\ s[i] \in Needs => May(s[i - 1], s[i])
  <2>1. CASE i = 1
    <3>1. ~(i > 1) /\ i <= 2
      BY <2>1
    <3>2. QED
      BY <2>1, <3>1, <1>2 DEF Entry
  <2>2. CASE i = 2
    <3>1. i - 1 = 1
      BY <2>2
    <3>2. QED
      BY <2>2, <3>1, <1>2 DEF Entry, May
  <2>3. CASE i = 3
    <3>1. i - 1 = 2
      BY <2>3
    <3>2. QED
      BY <2>3, <3>1, <1>2 DEF Entry, May
  <2>4. CASE i = 4
    <3>1. i - 1 = 3
      BY <2>4
    <3>2. QED
      BY <2>4, <3>1, <1>2 DEF Entry, May
  <2>5. CASE i = 5
    <3>1. i - 1 = 4
      BY <2>5
    <3>2. QED
      BY <2>5, <3>1, <1>2 DEF Entry, May
  <2>6. QED
    BY <1>3, <2>1, <2>2, <2>3, <2>4, <2>5
<1>5. Sound(s)
  <2>1. ASSUME NEW i \in 1 .. 5, s[i] = "capture" PROVE i + 4 <= 5 /\ s[i + 4] = "check refresh"
    <3>1. i = 1
      BY <2>1, <1>4
    <3>2. i + 4 = 5 /\ i + 4 <= 5
      BY <3>1
    <3>3. QED
      BY <3>2, <1>2
  <2>2. QED
    BY <1>2, <1>4, <2>1 DEF Sound
<1>6. QED
  BY <1>2, <1>4, <1>5 DEF Chunk, Piece, Plain, s

\* A start of the Service core comes with its handler.
LEMMA ServicePiece ==
  Piece(<<"start service", "catch service">>, "start service", "catch service")
PROOF
<1> DEFINE s == <<"start service", "catch service">>
<1>1. "start service" \in Steps /\ "catch service" \in Steps
  BY DEF Steps
<1>2. s \in Seq(Steps) /\ Len(s) = 2 /\ s # <<>> /\ s[1] = "start service" /\ s[2] = "catch service"
  BY <1>1, List2
<1> HIDE DEF s
<1>3. \A i \in 1 .. 2 : i = 1 \/ i = 2
  OBVIOUS
<1>4. ASSUME NEW i \in 1 .. 2
      PROVE  /\ s[i] \notin Entry /\ s[i] # "capture" /\ i <= 2
             /\ i > 1 /\ s[i] \in Needs => May(s[i - 1], s[i])
  <2>1. CASE i = 1
    <3>1. ~(i > 1) /\ i <= 2
      BY <2>1
    <3>2. QED
      BY <2>1, <3>1, <1>2 DEF Entry
  <2>2. CASE i = 2
    <3>1. i - 1 = 1 /\ i <= 2
      BY <2>2
    <3>2. QED
      BY <2>2, <3>1, <1>2 DEF Entry, May
  <2>3. QED
    BY <1>3, <2>1, <2>2
<1>5. Sound(s)
  BY <1>2, <1>4 DEF Sound
<1>6. QED
  BY <1>2, <1>5 DEF Piece, s

\* A list before another one.
LEMMA JoinChunk ==
  ASSUME NEW u, NEW v, NEW a, NEW b, NEW c, NEW d, Chunk(u, a, b), Chunk(v, c, d), c \in Needs => May(b, c)
  PROVE  Chunk(u \o v, a, d)
PROOF
  BY JoinSound DEF Chunk, Piece

\* The lists the operations are made of ...
LEMMA Parts ==
  /\ Chunk(<<"start service", "must service">>, "start service", "must service")
  /\ Chunk(<<"catch handoff">>, "catch handoff", "catch handoff")
  /\ Chunk(<<"must sidecar">>, "must sidecar", "must sidecar")
  /\ Chunk(<<"catch rollback">>, "catch rollback", "catch rollback")
  /\ Chunk(<<"uninstall", "start", "must sidecar">>, "uninstall", "must sidecar")
  /\ Chunk(<<"clear">>, "clear", "clear")
  /\ Chunk(<<"rollback start">>, "rollback start", "rollback start")
  /\ Chunk(<<"catch start">>, "catch start", "catch start")
  /\ Chunk(<<"stop", "start service", "must service">>, "stop", "must service")
  /\ Chunk(<<"stop guard">>, "stop guard", "stop guard")
  /\ Chunk(<<"stop service">>, "stop service", "stop service")
  /\ Chunk(<<"start", "apply if ready">>, "start", "apply if ready")
  /\ Chunk(<<"end">>, "end", "end")
  /\ Chunk(<<"stop">>, "stop", "stop")
  /\ Chunk(<<"stop for restart", "start", "must run">>, "stop for restart", "must run")
  /\ Chunk(<<"allow", "stop guard", "start", "must sidecar">>, "allow", "must sidecar")
  /\ Chunk(<<"stop", "uninstall and start">>, "stop", "uninstall and start")
  /\ Chunk(<<"still sidecar", "clear">>, "still sidecar", "clear")
  /\ Chunk(<<"hand over">>, "hand over", "hand over")
  /\ Chunk(<<"apply", "refresh">>, "apply", "refresh")
  /\ Chunk(<<"still service", "stage">>, "still service", "stage")
  /\ Chunk(<<"failed">>, "failed", "failed")
  /\ Chunk(<<"rollback start", "raise">>, "rollback start", "raise")
  /\ Chunk(<<"service failed">>, "service failed", "service failed")
  /\ Chunk(<<"rollback", "raise">>, "rollback", "raise")
  /\ Chunk(<<"stop", "fall back">>, "stop", "fall back")
  /\ Chunk(<<"service stops">>, "service stops", "service stops")
  /\ Chunk(<<"start service">>, "start service", "start service")
  /\ Chunk(StartSidecar, "wait exit", "poll")
  /\ Chunk(Terminate, "kill", "wait killed")
PROOF
<1> USE DEF Simple, Steps, Entry, Needs, May, Stops
<1>1. Chunk(<<"start service", "must service">>, "start service", "must service")
  BY Piece2
<1>2. Chunk(<<"catch handoff">>, "catch handoff", "catch handoff")
  BY Piece1
<1>3. Chunk(<<"must sidecar">>, "must sidecar", "must sidecar")
  BY Piece1
<1>4. Chunk(<<"catch rollback">>, "catch rollback", "catch rollback")
  BY Piece1
<1>5. Chunk(<<"uninstall", "start", "must sidecar">>, "uninstall", "must sidecar")
  BY Piece3
<1>6. Chunk(<<"clear">>, "clear", "clear")
  BY Piece1
<1>7. Chunk(<<"rollback start">>, "rollback start", "rollback start")
  BY Piece1
<1>8. Chunk(<<"catch start">>, "catch start", "catch start")
  BY Piece1
<1>9. Chunk(<<"stop", "start service", "must service">>, "stop", "must service")
  BY Piece3
<1>10. Chunk(<<"stop guard">>, "stop guard", "stop guard")
  BY Piece1
<1>11. Chunk(<<"stop service">>, "stop service", "stop service")
  BY Piece1
<1>12. Chunk(<<"start", "apply if ready">>, "start", "apply if ready")
  BY Piece2
<1>13. Chunk(<<"end">>, "end", "end")
  BY Piece1
<1>14. Chunk(<<"stop">>, "stop", "stop")
  BY Piece1
<1>15. Chunk(<<"stop for restart", "start", "must run">>, "stop for restart", "must run")
  BY Piece3
<1>16. Chunk(<<"allow", "stop guard", "start", "must sidecar">>, "allow", "must sidecar")
  BY Piece4
<1>17. Chunk(<<"stop", "uninstall and start">>, "stop", "uninstall and start")
  BY Piece2
<1>18. Chunk(<<"still sidecar", "clear">>, "still sidecar", "clear")
  BY Piece2
<1>19. Chunk(<<"hand over">>, "hand over", "hand over")
  BY Piece1
<1>20. Chunk(<<"apply", "refresh">>, "apply", "refresh")
  BY Piece2
<1>21. Chunk(<<"still service", "stage">>, "still service", "stage")
  BY Piece2
<1>22. Chunk(<<"failed">>, "failed", "failed")
  BY Piece1
<1>23. Chunk(<<"rollback start", "raise">>, "rollback start", "raise")
  BY Piece2
<1>24. Chunk(<<"service failed">>, "service failed", "service failed")
  BY Piece1
<1>25. Chunk(<<"rollback", "raise">>, "rollback", "raise")
  BY Piece2
<1>26. Chunk(<<"stop", "fall back">>, "stop", "fall back")
  BY Piece2
<1>27. Chunk(<<"service stops">>, "service stops", "service stops")
  BY Piece1
<1>28. Chunk(<<"start service">>, "start service", "start service")
  BY Piece1
<1>29. Chunk(StartSidecar, "wait exit", "poll")
  BY Piece3 DEF StartSidecar
<1>30. Chunk(Terminate, "kill", "wait killed")
  BY Piece2 DEF Terminate
<1>31. QED
  BY <1>1, <1>2, <1>3, <1>4, <1>5, <1>6, <1>7, <1>8, <1>9, <1>10, <1>11, <1>12, <1>13, <1>14, <1>15,
     <1>16, <1>17, <1>18, <1>19, <1>20, <1>21, <1>22, <1>23, <1>24, <1>25, <1>26, <1>27, <1>28, <1>29,
     <1>30

\* ... and the lists they are joined to.
LEMMA Lists ==
  /\ Chunk(<<"start service", "must service">> \o ApplyProxy \o <<"catch handoff">>, "start service", "catch handoff")
  /\ Chunk(StartSidecar \o <<"must sidecar">> \o ApplyProxy \o <<"catch rollback">>, "wait exit", "catch rollback")
  /\ Chunk(<<"uninstall", "start", "must sidecar">> \o ApplyProxy \o <<"catch rollback">>, "uninstall", "catch rollback")
  /\ Chunk(<<"clear">> \o Terminate \o <<"rollback start">>, "clear", "rollback start")
  /\ Chunk(StartSidecar \o <<"catch start">>, "wait exit", "catch start")
  /\ Chunk(<<"rollback start">> \o StartSidecar \o <<"catch start">>, "rollback start", "catch start")
  /\ Chunk(<<"stop", "start service", "must service">> \o ApplyProxy, "stop", "check refresh")
  /\ Chunk(<<"clear">> \o Terminate, "clear", "wait killed")
  /\ Platform = "macos" => Chunk(<<"stop guard">> \o Terminate, "stop guard", "wait killed")
  /\ Chunk(<<"clear">> \o <<"stop service">>, "clear", "stop service")
  /\ Platform = "macos" => Chunk(<<"stop guard">> \o <<"stop service">>, "stop guard", "stop service")
  /\ Chunk(<<"start", "apply if ready">> \o <<"end">>, "start", "end")
  /\ Chunk(<<"stop">> \o <<"end">>, "stop", "end")
  /\ Chunk(<<"stop for restart", "start", "must run">> \o ApplyProxy \o <<"end">>, "stop for restart", "end")
  /\ Chunk(<<"allow", "stop guard", "start", "must sidecar">> \o ApplyProxy \o <<"catch rollback">> \o <<"end">>, "allow", "end")
  /\ Chunk(<<"stop", "uninstall and start">> \o <<"end">>, "stop", "end")
  /\ Chunk(<<"still sidecar", "clear">> \o Terminate \o <<"hand over">> \o <<"end">>, "still sidecar", "end")
  /\ Chunk(ApplyProxy \o <<"end">>, "capture", "end")
  /\ Chunk(<<"apply", "refresh">> \o <<"end">>, "apply", "end")
  /\ Chunk(<<"still service", "stage">> \o <<"end">>, "still service", "end")
PROOF
<1>1. Chunk(<<"start service", "must service">> \o ApplyProxy \o <<"catch handoff">>, "start service", "catch handoff")
  <2>1. "capture" \in Needs => May("must service", "capture")
    BY DEF Needs, May, Stops
  <2>2. Chunk(<<"start service", "must service">> \o ApplyProxy, "start service", "check refresh")
    BY <2>1, Parts, ProxyPiece, JoinChunk
  <2>3. "catch handoff" \in Needs => May("check refresh", "catch handoff")
    BY DEF Needs, May, Stops
  <2>4. Chunk(<<"start service", "must service">> \o ApplyProxy \o <<"catch handoff">>, "start service", "catch handoff")
    BY <2>2, <2>3, Parts, ProxyPiece, JoinChunk
  <2>5. QED
    BY <2>4
<1>2. Chunk(StartSidecar \o <<"must sidecar">> \o ApplyProxy \o <<"catch rollback">>, "wait exit", "catch rollback")
  <2>1. "must sidecar" \in Needs => May("poll", "must sidecar")
    BY DEF Needs, May, Stops
  <2>2. Chunk(StartSidecar \o <<"must sidecar">>, "wait exit", "must sidecar")
    BY <2>1, Parts, ProxyPiece, JoinChunk
  <2>3. "capture" \in Needs => May("must sidecar", "capture")
    BY DEF Needs, May, Stops
  <2>4. Chunk(StartSidecar \o <<"must sidecar">> \o ApplyProxy, "wait exit", "check refresh")
    BY <2>2, <2>3, Parts, ProxyPiece, JoinChunk
  <2>5. "catch rollback" \in Needs => May("check refresh", "catch rollback")
    BY DEF Needs, May, Stops
  <2>6. Chunk(StartSidecar \o <<"must sidecar">> \o ApplyProxy \o <<"catch rollback">>, "wait exit", "catch rollback")
    BY <2>4, <2>5, Parts, ProxyPiece, JoinChunk
  <2>7. QED
    BY <2>6
<1>3. Chunk(<<"uninstall", "start", "must sidecar">> \o ApplyProxy \o <<"catch rollback">>, "uninstall", "catch rollback")
  <2>1. "capture" \in Needs => May("must sidecar", "capture")
    BY DEF Needs, May, Stops
  <2>2. Chunk(<<"uninstall", "start", "must sidecar">> \o ApplyProxy, "uninstall", "check refresh")
    BY <2>1, Parts, ProxyPiece, JoinChunk
  <2>3. "catch rollback" \in Needs => May("check refresh", "catch rollback")
    BY DEF Needs, May, Stops
  <2>4. Chunk(<<"uninstall", "start", "must sidecar">> \o ApplyProxy \o <<"catch rollback">>, "uninstall", "catch rollback")
    BY <2>2, <2>3, Parts, ProxyPiece, JoinChunk
  <2>5. QED
    BY <2>4
<1>4. Chunk(<<"clear">> \o Terminate \o <<"rollback start">>, "clear", "rollback start")
  <2>1. "kill" \in Needs => May("clear", "kill")
    BY DEF Needs, May, Stops
  <2>2. Chunk(<<"clear">> \o Terminate, "clear", "wait killed")
    BY <2>1, Parts, ProxyPiece, JoinChunk
  <2>3. "rollback start" \in Needs => May("wait killed", "rollback start")
    BY DEF Needs, May, Stops
  <2>4. Chunk(<<"clear">> \o Terminate \o <<"rollback start">>, "clear", "rollback start")
    BY <2>2, <2>3, Parts, ProxyPiece, JoinChunk
  <2>5. QED
    BY <2>4
<1>5. Chunk(StartSidecar \o <<"catch start">>, "wait exit", "catch start")
  <2>1. "catch start" \in Needs => May("poll", "catch start")
    BY DEF Needs, May, Stops
  <2>2. Chunk(StartSidecar \o <<"catch start">>, "wait exit", "catch start")
    BY <2>1, Parts, ProxyPiece, JoinChunk
  <2>3. QED
    BY <2>2
<1>6. Chunk(<<"rollback start">> \o StartSidecar \o <<"catch start">>, "rollback start", "catch start")
  <2>1. "wait exit" \in Needs => May("rollback start", "wait exit")
    BY DEF Needs, May, Stops
  <2>2. Chunk(<<"rollback start">> \o StartSidecar, "rollback start", "poll")
    BY <2>1, Parts, ProxyPiece, JoinChunk
  <2>3. "catch start" \in Needs => May("poll", "catch start")
    BY DEF Needs, May, Stops
  <2>4. Chunk(<<"rollback start">> \o StartSidecar \o <<"catch start">>, "rollback start", "catch start")
    BY <2>2, <2>3, Parts, ProxyPiece, JoinChunk
  <2>5. QED
    BY <2>4
<1>7. Chunk(<<"stop", "start service", "must service">> \o ApplyProxy, "stop", "check refresh")
  <2>1. "capture" \in Needs => May("must service", "capture")
    BY DEF Needs, May, Stops
  <2>2. Chunk(<<"stop", "start service", "must service">> \o ApplyProxy, "stop", "check refresh")
    BY <2>1, Parts, ProxyPiece, JoinChunk
  <2>3. QED
    BY <2>2
<1>8. Chunk(<<"clear">> \o Terminate, "clear", "wait killed")
  <2>1. "kill" \in Needs => May("clear", "kill")
    BY DEF Needs, May, Stops
  <2>2. Chunk(<<"clear">> \o Terminate, "clear", "wait killed")
    BY <2>1, Parts, ProxyPiece, JoinChunk
  <2>3. QED
    BY <2>2
<1>9. Platform = "macos" => Chunk(<<"stop guard">> \o Terminate, "stop guard", "wait killed")
  <2>1. "kill" \in Needs /\ Platform = "macos" => May("stop guard", "kill")
    BY DEF Needs, May, Stops
  <2>2. Platform = "macos" => Chunk(<<"stop guard">> \o Terminate, "stop guard", "wait killed")
    BY <2>1, Parts, ProxyPiece, JoinChunk
  <2>3. QED
    BY <2>2
<1>10. Chunk(<<"clear">> \o <<"stop service">>, "clear", "stop service")
  <2>1. "stop service" \in Needs => May("clear", "stop service")
    BY DEF Needs, May, Stops
  <2>2. Chunk(<<"clear">> \o <<"stop service">>, "clear", "stop service")
    BY <2>1, Parts, ProxyPiece, JoinChunk
  <2>3. QED
    BY <2>2
<1>11. Platform = "macos" => Chunk(<<"stop guard">> \o <<"stop service">>, "stop guard", "stop service")
  <2>1. "stop service" \in Needs /\ Platform = "macos" => May("stop guard", "stop service")
    BY DEF Needs, May, Stops
  <2>2. Platform = "macos" => Chunk(<<"stop guard">> \o <<"stop service">>, "stop guard", "stop service")
    BY <2>1, Parts, ProxyPiece, JoinChunk
  <2>3. QED
    BY <2>2
<1>12. Chunk(<<"start", "apply if ready">> \o <<"end">>, "start", "end")
  <2>1. "end" \in Needs => May("apply if ready", "end")
    BY DEF Needs, May, Stops
  <2>2. Chunk(<<"start", "apply if ready">> \o <<"end">>, "start", "end")
    BY <2>1, Parts, ProxyPiece, JoinChunk
  <2>3. QED
    BY <2>2
<1>13. Chunk(<<"stop">> \o <<"end">>, "stop", "end")
  <2>1. "end" \in Needs => May("stop", "end")
    BY DEF Needs, May, Stops
  <2>2. Chunk(<<"stop">> \o <<"end">>, "stop", "end")
    BY <2>1, Parts, ProxyPiece, JoinChunk
  <2>3. QED
    BY <2>2
<1>14. Chunk(<<"stop for restart", "start", "must run">> \o ApplyProxy \o <<"end">>, "stop for restart", "end")
  <2>1. "capture" \in Needs => May("must run", "capture")
    BY DEF Needs, May, Stops
  <2>2. Chunk(<<"stop for restart", "start", "must run">> \o ApplyProxy, "stop for restart", "check refresh")
    BY <2>1, Parts, ProxyPiece, JoinChunk
  <2>3. "end" \in Needs => May("check refresh", "end")
    BY DEF Needs, May, Stops
  <2>4. Chunk(<<"stop for restart", "start", "must run">> \o ApplyProxy \o <<"end">>, "stop for restart", "end")
    BY <2>2, <2>3, Parts, ProxyPiece, JoinChunk
  <2>5. QED
    BY <2>4
<1>15. Chunk(<<"allow", "stop guard", "start", "must sidecar">> \o ApplyProxy \o <<"catch rollback">> \o <<"end">>, "allow", "end")
  <2>1. "capture" \in Needs => May("must sidecar", "capture")
    BY DEF Needs, May, Stops
  <2>2. Chunk(<<"allow", "stop guard", "start", "must sidecar">> \o ApplyProxy, "allow", "check refresh")
    BY <2>1, Parts, ProxyPiece, JoinChunk
  <2>3. "catch rollback" \in Needs => May("check refresh", "catch rollback")
    BY DEF Needs, May, Stops
  <2>4. Chunk(<<"allow", "stop guard", "start", "must sidecar">> \o ApplyProxy \o <<"catch rollback">>, "allow", "catch rollback")
    BY <2>2, <2>3, Parts, ProxyPiece, JoinChunk
  <2>5. "end" \in Needs => May("catch rollback", "end")
    BY DEF Needs, May, Stops
  <2>6. Chunk(<<"allow", "stop guard", "start", "must sidecar">> \o ApplyProxy \o <<"catch rollback">> \o <<"end">>, "allow", "end")
    BY <2>4, <2>5, Parts, ProxyPiece, JoinChunk
  <2>7. QED
    BY <2>6
<1>16. Chunk(<<"stop", "uninstall and start">> \o <<"end">>, "stop", "end")
  <2>1. "end" \in Needs => May("uninstall and start", "end")
    BY DEF Needs, May, Stops
  <2>2. Chunk(<<"stop", "uninstall and start">> \o <<"end">>, "stop", "end")
    BY <2>1, Parts, ProxyPiece, JoinChunk
  <2>3. QED
    BY <2>2
<1>17. Chunk(<<"still sidecar", "clear">> \o Terminate \o <<"hand over">> \o <<"end">>, "still sidecar", "end")
  <2>1. "kill" \in Needs => May("clear", "kill")
    BY DEF Needs, May, Stops
  <2>2. Chunk(<<"still sidecar", "clear">> \o Terminate, "still sidecar", "wait killed")
    BY <2>1, Parts, ProxyPiece, JoinChunk
  <2>3. "hand over" \in Needs => May("wait killed", "hand over")
    BY DEF Needs, May, Stops
  <2>4. Chunk(<<"still sidecar", "clear">> \o Terminate \o <<"hand over">>, "still sidecar", "hand over")
    BY <2>2, <2>3, Parts, ProxyPiece, JoinChunk
  <2>5. "end" \in Needs => May("hand over", "end")
    BY DEF Needs, May, Stops
  <2>6. Chunk(<<"still sidecar", "clear">> \o Terminate \o <<"hand over">> \o <<"end">>, "still sidecar", "end")
    BY <2>4, <2>5, Parts, ProxyPiece, JoinChunk
  <2>7. QED
    BY <2>6
<1>18. Chunk(ApplyProxy \o <<"end">>, "capture", "end")
  <2>1. "end" \in Needs => May("check refresh", "end")
    BY DEF Needs, May, Stops
  <2>2. Chunk(ApplyProxy \o <<"end">>, "capture", "end")
    BY <2>1, Parts, ProxyPiece, JoinChunk
  <2>3. QED
    BY <2>2
<1>19. Chunk(<<"apply", "refresh">> \o <<"end">>, "apply", "end")
  <2>1. "end" \in Needs => May("refresh", "end")
    BY DEF Needs, May, Stops
  <2>2. Chunk(<<"apply", "refresh">> \o <<"end">>, "apply", "end")
    BY <2>1, Parts, ProxyPiece, JoinChunk
  <2>3. QED
    BY <2>2
<1>20. Chunk(<<"still service", "stage">> \o <<"end">>, "still service", "end")
  <2>1. "end" \in Needs => May("stage", "end")
    BY DEF Needs, May, Stops
  <2>2. Chunk(<<"still service", "stage">> \o <<"end">>, "still service", "end")
    BY <2>1, Parts, ProxyPiece, JoinChunk
  <2>3. QED
    BY <2>2
<1>21. QED
  BY <1>1, <1>2, <1>3, <1>4, <1>5, <1>6, <1>7, <1>8, <1>9, <1>10, <1>11, <1>12, <1>13, <1>14, <1>15,
     <1>16, <1>17, <1>18, <1>19, <1>20

\* Every set of numbers has a least one.
LEMMA Least ==
  ASSUME NEW T \in SUBSET Nat, T # {}
  PROVE  \E x \in T : \A y \in T : x <= y
PROOF
<1> DEFINE R == OpToRel(<, Nat)
<1>1. IsWellFoundedOn(R, Nat)
  BY NatLessThanWellFounded
<1>2. R = {ss \in Nat \X Nat : ss[1] < ss[2]}
  BY DEF OpToRel
<1> HIDE DEF R
<1>3. PICK x \in T : \A y \in T : ~(<<y, x>> \in R)
  BY <1>1, WFMin
<1>4. \A y \in T : x <= y
  <2>1. SUFFICES ASSUME NEW y \in T PROVE ~(y < x)
    OBVIOUS
  <2>2. <<y, x>> \in Nat \X Nat /\ <<y, x>>[1] = y /\ <<y, x>>[2] = x
    OBVIOUS
  <2>3. QED
    BY <1>2, <1>3, <2>2
<1>5. QED
  BY <1>4

\* What a handler does first relies on nothing, but for the failure of the
\* Service's start.
LEMMA Handlers ==
  ASSUME NEW c \in Catches
  PROVE  \E a, b : /\ Chunk(Handler[c], a, b)
                   /\ a \in Needs => c = "catch service" /\ a = "service failed"
PROOF
<1>1. c \in {"catch start", "catch service", "catch rollback", "catch handoff"}
  BY DEF Catches, Handler
<1>2. CASE c = "catch start"
  <2>1. Handler[c] = <<"rollback start", "raise">>
    BY <1>2 DEF Handler
  <2>2. Chunk(Handler[c], "rollback start", "raise")
    BY <2>1, Parts
  <2>3. "rollback start" \notin Needs
    BY DEF Needs
  <2>4. QED
    BY <2>2, <2>3
<1>3. CASE c = "catch service"
  <2>1. Handler[c] = <<"service failed">>
    BY <1>3 DEF Handler
  <2>2. QED
    BY <1>3, <2>1, Parts
<1>4. CASE c = "catch rollback"
  <2>1. Handler[c] = <<"rollback", "raise">>
    BY <1>4 DEF Handler
  <2>2. Chunk(Handler[c], "rollback", "raise")
    BY <2>1, Parts
  <2>3. "rollback" \notin Needs
    BY DEF Needs
  <2>4. QED
    BY <2>2, <2>3
<1>5. CASE c = "catch handoff"
  <2>1. Handler[c] = <<"stop", "fall back">>
    BY <1>5 DEF Handler
  <2>2. Chunk(Handler[c], "stop", "fall back")
    BY <2>1, Parts
  <2>3. "stop" \notin Needs
    BY DEF Needs
  <2>4. QED
    BY <2>2, <2>3
<1>6. QED
  BY <1>1, <1>2, <1>3, <1>4, <1>5

\* A failing step leaves a list that relies on nothing, unless it was the start
\* of the Service whose handler comes next.
LEMMA UnwoundSound ==
  ASSUME NEW s, Sound(s), CatchNext(s)
  PROVE  /\ Sound(Unwound(s)) /\ Unwound(s) # <<>>
         /\ Unwound(s)[1] \in Needs => s # <<>> /\ s[1] = "catch service" /\ Unwound(s)[1] = "service failed"
PROOF
<1> DEFINE at == {i \in 1 .. Len(s) : s[i] \in Catches}
<1>1. s \in Seq(Steps) /\ Len(s) \in Nat
  BY HasFirst DEF Sound
<1>2. CASE at = {}
  <2>1. Unwound(s) = <<"failed">>
    BY <1>2 DEF Unwound
  <2>2. QED
    BY <2>1, Parts DEF Needs, Chunk, Piece
<1>3. CASE at # {}
  <2> DEFINE k == CHOOSE j \in at : \A i \in at : j <= i
  <2> DEFINE v == SubSeq(s, k + 1, Len(s))
  <2>1. at \in SUBSET Nat
    BY <1>1
  <2>2. \E j \in at : \A i \in at : j <= i
    BY <1>3, <2>1, Least
  <2>3. k \in at
    BY <2>2
  <2>4. k \in 1 .. Len(s) /\ s[k] \in Catches
    BY <2>3
  <2>5. Unwound(s) = Handler[s[k]] \o v
    BY <1>3 DEF Unwound
  <2> HIDE DEF k
  <2>6. s[k] \in {"catch start", "catch service", "catch rollback", "catch handoff"}
    BY <2>4 DEF Catches, Handler
  <2>7. \A b : ~May(s[k], b)
    BY <2>6 DEF May, Stops
  <2>8. s[k] # "start service"
    BY <2>6
  <2>9. Plain(v) /\ ~(v # <<>> /\ v[1] \in Needs)
    BY <2>4, <2>7, <2>8, FromSound
  <2>10. PICK a, b : /\ Chunk(Handler[s[k]], a, b)
                     /\ a \in Needs => s[k] = "catch service" /\ a = "service failed"
    BY <2>4, Handlers
  <2> DEFINE h == Handler[s[k]]
  <2> HIDE DEF v, h
  <2>11. Sound(h \o v) /\ h \o v # <<>> /\ (h \o v)[1] = a
    BY <2>9, <2>10, JoinSound DEF Chunk, Piece, h
  <2>12. s[k] = "catch service" => s # <<>> /\ s[1] = "catch service"
    <3>1. SUFFICES ASSUME s[k] = "catch service" PROVE s # <<>> /\ s[1] = "catch service"
      OBVIOUS
    <3>2. k = 1
      BY <2>4, <3>1 DEF CatchNext
    <3>3. s # <<>>
      BY <2>4, <1>1, HasFirst
    <3>4. QED
      BY <3>1, <3>2, <3>3
  <2>13. QED
    BY <2>5, <2>10, <2>11, <2>12 DEF h
<1>4. QED
  BY <1>2, <1>3

(***************************************************************************)
(* A step of a task                                                        *)
(***************************************************************************)

\* Only task t moves, and it keeps its operation.
Moves(t) ==
  /\ TaskShape'
  /\ task'[t].op = task[t].op
  /\ \A u \in Tasks \ {t} : task'[u] = task[u]

\* A new list for task t.
LEMMA Updated ==
  ASSUME TaskShape, NEW t \in Tasks, NEW x, task' = [task EXCEPT ![t].todo = x]
  PROVE  Moves(t) /\ task'[t].todo = x
PROOF
  BY DEF TaskShape, Moves

\* Whoever is past the entry holds the lock, and can rely on what its step needs.
LEMMA Holds ==
  ASSUME TaskInv, NEW t \in Tasks, NEW h \in Steps \ (Entry \cup {"end"}), At(t, h)
  PROVE  /\ life = t /\ Sound(task[t].todo) /\ task[t].todo # <<>> /\ task[t].todo[1] = h
         /\ Cond(t, h)
PROOF
<1>1. task[t].todo # <<>> /\ Head(task[t].todo) = h
  BY DEF At
<1>2. life = t
  <2>1. SUFFICES ASSUME Outside(t) PROVE FALSE
    BY DEF TaskInv
  <2>2. task[t].todo \notin {<<>>, <<"end">>, <<"apply config", "end">>}
    <3>1. Head(<<"end">>) = "end" /\ Head(<<"apply config", "end">>) = "apply config"
      OBVIOUS
    <3>2. QED
      BY <1>1, <3>1 DEF Entry
  <2>3. QED
    BY <2>1, <2>2, <1>1 DEF Outside, At, Entry
<1>3. Sound(task[t].todo) /\ Cond(t, task[t].todo[1])
  BY <1>1, <1>2 DEF TaskInv, Inside, Able
<1>4. QED
  BY <1>1, <1>2, <1>3, RestSound

\* A step that succeeded.
LEMMA DoneStep ==
  ASSUME TaskShape, NEW t \in Tasks, Sound(task[t].todo), task[t].todo # <<>>, Done(t)
  PROVE  /\ Moves(t) /\ Sound(task'[t].todo)
         /\ task'[t].todo # <<>> /\ task'[t].todo[1] \in Needs => May(task[t].todo[1], task'[t].todo[1])
PROOF
<1> DEFINE r == Tail(task[t].todo)
<1>1. Sound(r) /\ (r # <<>> /\ r[1] \in Needs => May(task[t].todo[1], r[1]))
  BY RestSound
<1>2. <<>> \o r = r
  BY <1>1, ConcatEmptySeq DEF Sound
<1>3. task' = [task EXCEPT ![t].todo = Skip(r)]
  BY <1>2 DEF Done, Then
<1>4. Moves(t) /\ task'[t].todo = Skip(r)
  BY <1>3, Updated
<1>5. QED
  BY <1>1, <1>4, SkipSound

\* A step that failed.
LEMMA RaiseStep ==
  ASSUME TaskShape, NEW t \in Tasks, Sound(task[t].todo), task[t].todo # <<>>, Raise(t)
  PROVE  /\ Moves(t) /\ Sound(task'[t].todo) /\ task'[t].todo # <<>>
         /\ task'[t].todo[1] \in Needs => task[t].todo[1] = "start service" /\ task'[t].todo[1] = "service failed"
PROOF
<1> DEFINE r == Tail(task[t].todo)
<1>1. Sound(r) /\ CatchNext(r) /\ (r # <<>> /\ r[1] \in Needs => May(task[t].todo[1], r[1]))
  BY RestSound
<1>2. Moves(t) /\ task'[t].todo = Unwound(r)
  BY Updated DEF Raise
<1>3. r # <<>> /\ r[1] = "catch service" => task[t].todo[1] = "start service"
  <2>1. "catch service" \in Needs
    BY DEF Needs
  <2>2. QED
    BY <1>1, <2>1 DEF May
<1>4. QED
  BY <1>1, <1>2, <1>3, UnwoundSound

\* A step that put others before the rest.
LEMMA ThenStep ==
  ASSUME TaskShape, NEW t \in Tasks, Sound(task[t].todo), task[t].todo # <<>>,
         NEW u, NEW a, NEW b, Piece(u, a, b), a \notin Catches, Then(t, u),
         task[t].todo[1] # "start service",
         \A c \in Needs : May(task[t].todo[1], c) => May(b, c)
  PROVE  Moves(t) /\ Sound(task'[t].todo) /\ task'[t].todo # <<>> /\ task'[t].todo[1] = a
PROOF
<1> DEFINE r == Tail(task[t].todo)
<1>1. Plain(r) /\ (r # <<>> /\ r[1] \in Needs => May(task[t].todo[1], r[1]))
  BY RestSound
<1>2. Sound(u \o r) /\ u \o r # <<>> /\ (u \o r)[1] = a
  BY <1>1, JoinSound DEF Piece
<1>3. Head(u \o r) = a
  BY <1>2, RestSound
<1>4. Skip(u \o r) = u \o r
  BY <1>3 DEF Skip
<1>5. task' = [task EXCEPT ![t].todo = u \o r]
  BY <1>4 DEF Then
<1>6. QED
  BY <1>2, <1>5, Updated

\* The holder of the lock moves on: the others do not notice.
LEMMA HolderMoves ==
  ASSUME TaskInv, NEW t \in Tasks, life = t, life' = t, Moves(t), Inside(t)', want' = want,
         write' = write \/ (write = t /\ task[t].op \notin ProxyOps),
         task[t].todo # <<>>
  PROVE  TaskInv'
PROOF
<1>1. \A u \in Tasks \ {t} : Outside(u)'
  <2>1. SUFFICES ASSUME NEW u \in Tasks \ {t} PROVE Outside(u)'
    OBVIOUS
  <2>2. Outside(u) /\ task'[u] = task[u] /\ (write = u => write' = u)
    BY DEF TaskInv, Moves
  <2>3. QED
    BY <2>2 DEF Outside, Enters, EntersBoth, At
<1>2. ~At(t, "write lock")
  <2>1. Sound(task[t].todo)
    BY DEF TaskInv, Inside
  <2>2. task[t].todo[1] \notin Entry /\ Head(task[t].todo) = task[t].todo[1]
    <3>1. task[t].todo \in Seq(Steps)
      BY <2>1 DEF Sound
    <3>2. 1 \in 1 .. Len(task[t].todo)
      BY <3>1, HasFirst
    <3>3. QED
      BY <2>1, <3>2, RestSound DEF Sound
  <2>3. QED
    BY <2>2 DEF At, Entry
<1>3. task[t].op \in ProxyOps => write' = t
  BY <1>2 DEF TaskInv
<1>4. task'[t].op \in Ops
  BY DEF TaskInv, Moves
<1>5. \A u \in Tasks \ {t} : /\ task'[u].todo # <<>> => task'[u].op \in Ops
                             /\ task'[u].todo # <<>> /\ task'[u].op \in ProxyOps => write' = u \/ At(u, "write lock")'
  <2>1. SUFFICES ASSUME NEW u \in Tasks \ {t}
                 PROVE  /\ task'[u].todo # <<>> => task'[u].op \in Ops
                        /\ task'[u].todo # <<>> /\ task'[u].op \in ProxyOps => write' = u \/ At(u, "write lock")'
    OBVIOUS
  <2>2. task'[u] = task[u] /\ (write = u => write' = u)
    BY DEF Moves
  <2>3. QED
    BY <2>2 DEF TaskInv, At
<1>6. QED
  BY <1>1, <1>3, <1>4, <1>5 DEF TaskInv, Moves


\* What the first step of the new list relies on is so.
LEMMA InsideThen ==
  ASSUME NEW t, Sound(task'[t].todo),
         task'[t].todo # <<>> /\ task'[t].todo[1] \in Needs => task'[t].todo[1] \in Able(t)'
  PROVE  Inside(t)'
PROOF
<1>1. \A c \in Steps \ Needs : c \in Able(t)'
  BY DEF Able, Cond, Needs
<1>2. task'[t].todo # <<>> => task'[t].todo[1] \in Steps
  BY RestSound
<1>3. QED
  BY <1>1, <1>2 DEF Inside

\* A step of the holder that succeeds ...
LEMMA DoneKeeps ==
  ASSUME TaskInv, NEW t \in Tasks, NEW h \in Steps \ (Entry \cup {"end"}), At(t, h), Done(t),
         UNCHANGED <<life, want>>, write' = write \/ (write = t /\ task[t].op \notin ProxyOps),
         \A c \in Needs : May(h, c) => c \in Able(t)'
  PROVE  TaskInv'
PROOF
<1>1. life = t /\ Sound(task[t].todo) /\ task[t].todo # <<>> /\ task[t].todo[1] = h /\ TaskShape
  BY Holds DEF TaskInv
<1>2. /\ Moves(t) /\ Sound(task'[t].todo)
      /\ task'[t].todo # <<>> /\ task'[t].todo[1] \in Needs => May(h, task'[t].todo[1])
  BY <1>1, DoneStep
<1>3. Inside(t)'
  BY <1>2, InsideThen
<1>4. QED
  BY <1>1, <1>2, <1>3, HolderMoves

\* ... that fails ...
LEMMA RaiseKeeps ==
  ASSUME TaskInv, NEW t \in Tasks, NEW h \in Steps \ (Entry \cup {"end"}), At(t, h), Raise(t),
         UNCHANGED <<life, want, write>>, h = "start service" => mode' = "NotRunning"
  PROVE  TaskInv'
PROOF
<1>1. life = t /\ Sound(task[t].todo) /\ task[t].todo # <<>> /\ task[t].todo[1] = h /\ TaskShape
  BY Holds DEF TaskInv
<1>2. /\ Moves(t) /\ Sound(task'[t].todo) /\ task'[t].todo # <<>>
      /\ task'[t].todo[1] \in Needs => h = "start service" /\ task'[t].todo[1] = "service failed"
  BY <1>1, RaiseStep
<1>3. mode' = "NotRunning" => "service failed" \in Able(t)'
  BY DEF Able, Cond, Steps
<1>4. Inside(t)'
  BY <1>2, <1>3, InsideThen
<1>5. QED
  BY <1>1, <1>2, <1>4, HolderMoves

\* ... or that puts others before the rest.
LEMMA ThenKeeps ==
  ASSUME TaskInv, NEW t \in Tasks, NEW h \in Steps \ (Entry \cup {"end"}), At(t, h), h # "start service",
         NEW u, NEW a, NEW b, Piece(u, a, b), a \notin Catches, Then(t, u),
         \A c \in Needs : May(h, c) => May(b, c),
         UNCHANGED <<life, want, write>>, a \in Needs => a \in Able(t)'
  PROVE  TaskInv' /\ At(t, a)'
PROOF
<1>1. life = t /\ Sound(task[t].todo) /\ task[t].todo # <<>> /\ task[t].todo[1] = h /\ TaskShape
  BY Holds DEF TaskInv
<1>2. Moves(t) /\ Sound(task'[t].todo) /\ task'[t].todo # <<>> /\ task'[t].todo[1] = a
  BY <1>1, ThenStep
<1>3. Inside(t)'
  BY <1>2, InsideThen
<1>4. Head(task'[t].todo) = a
  BY <1>2, RestSound
<1>5. QED
  BY <1>1, <1>2, <1>3, <1>4, HolderMoves DEF At

\* A list of the holder that ends it at once.
LEMMA EndsKeeps ==
  ASSUME TaskInv, NEW t \in Tasks, NEW h \in Steps \ (Entry \cup {"end"}), At(t, h), NEW x \in {"end", "failed"},
         task' = [task EXCEPT ![t].todo = <<x>>],
         UNCHANGED <<life, want>>, write' = write \/ (write = t /\ task[t].op \notin ProxyOps)
  PROVE  TaskInv'
PROOF
<1>1. life = t /\ Sound(task[t].todo) /\ task[t].todo # <<>> /\ task[t].todo[1] = h /\ TaskShape
  BY Holds DEF TaskInv
<1>2. Moves(t) /\ task'[t].todo = <<x>>
  BY <1>1, Updated
<1>3. Piece(<<x>>, x, x) /\ x \notin Needs
  BY Parts DEF Chunk, Needs
<1>4. Inside(t)'
  BY <1>2, <1>3, InsideThen DEF Piece
<1>5. QED
  BY <1>1, <1>2, <1>4, HolderMoves

\* No task moves, and the lock does not pass to or from one.
LEMMA NobodyMoves ==
  ASSUME TaskInv, UNCHANGED <<task, write, want>>, \A t \in Tasks : life' = t <=> life = t,
         life \in Tasks => UNCHANGED <<mode, exit, guard, owned>>
  PROVE  TaskInv'
PROOF
<1>1. TaskShape'
  BY DEF TaskInv, TaskShape
<1>2. ASSUME NEW t \in Tasks, life' = t PROVE Inside(t)'
  <2>1. life = t /\ Inside(t) /\ UNCHANGED <<mode, exit, guard, owned, task, write, want>>
    BY <1>2 DEF TaskInv
  <2>2. QED
    BY <2>1 DEF Inside, Able, Cond
<1>3. ASSUME NEW t \in Tasks, life' # t PROVE Outside(t)'
  <2>1. Outside(t) /\ UNCHANGED <<task, write, want>>
    BY <1>3 DEF TaskInv
  <2>2. QED
    BY <2>1 DEF Outside, Enters, EntersBoth, At
<1>4. ASSUME NEW t \in Tasks
      PROVE  /\ life' = t \/ task'[t].todo # <<>> => task'[t].op \in Ops
             /\ task'[t].todo # <<>> /\ task'[t].op \in ProxyOps => write' = t \/ At(t, "write lock")'
  BY DEF TaskInv, At
<1>5. QED
  BY <1>1, <1>2, <1>3, <1>4 DEF TaskInv

\* A list is its first step and the rest.
LEMMA Rejoined ==
  ASSUME NEW S, NEW s \in Seq(S), s # <<>>
  PROVE  s = <<Head(s)>> \o Tail(s)
PROOF
<1>1. Head(s) \in S /\ Tail(s) \in Seq(S) /\ Len(Tail(s)) = Len(s) - 1 /\ Head(s) = s[1] /\ Len(s) \in Nat /\ Len(s) >= 1
  BY HeadTailProperties, HasFirst
<1>2. <<Head(s)>> \in Seq(S) /\ Len(<<Head(s)>>) = 1 /\ <<Head(s)>>[1] = Head(s)
  BY <1>1, List1
<1>3. <<Head(s)>> \o Tail(s) \in Seq(S) /\ Len(<<Head(s)>> \o Tail(s)) = Len(s)
  BY <1>1, <1>2, ConcatProperties
<1>4. \A i \in 1 .. Len(s) : s[i] = (<<Head(s)>> \o Tail(s))[i]
  BY <1>1, <1>2, ConcatProperties, HeadTailProperties
<1>5. QED
  BY <1>3, <1>4, SeqEqual

(***************************************************************************)
(* The operations keep to their lists                                      *)
(***************************************************************************)

\* The steps under the lock.
Under == Steps \ (Entry \cup {"end"})

\* The handlers.
LEMMA CatchSet == Catches = {"catch start", "catch service", "catch rollback", "catch handoff"}
PROOF
  BY DEF Catches, Handler

\* A failed start of the Service core.
LEMMA ServiceFailedKeeps ==
  ASSUME TaskInv, NEW t \in Tasks, ServiceFailed(t)
  PROVE  TaskInv'
PROOF
<1>1. UNCHANGED <<life, want, write>>
  BY DEF ServiceFailed, locks, core, sidecar, service, os
<1>2. CASE At(t, "service failed") /\ Then(t, <<"rollback start", "raise">>) /\ UNCHANGED <<core, sidecar, os>>
  <2>1. "service failed" \in Under /\ At(t, "service failed")
    BY <1>2 DEF Under, Steps, Entry
  <2>2. Cond(t, "service failed")
    BY <2>1, Holds DEF Under
  <2>3. Piece(<<"rollback start", "raise">>, "rollback start", "raise") /\ "rollback start" \notin Catches
    BY Parts, CatchSet DEF Chunk
  <2>4. \A c \in Needs : May("service failed", c) => May("raise", c)
    BY DEF May, Stops
  <2>5. "rollback start" \in Needs => "rollback start" \in Able(t)'
    BY <1>2, <2>2 DEF Needs, Able, Cond, Steps
  <2>6. QED
    BY <1>1, <1>2, <2>1, <2>3, <2>4, <2>5, ThenKeeps DEF Under
<1>3. CASE At(t, "service failed") /\ Then(t, StartSidecar \o <<"catch start">>) /\ UNCHANGED <<core, sidecar, os>>
  <2>1. "service failed" \in Under /\ At(t, "service failed")
    BY <1>3 DEF Under, Steps, Entry
  <2>2. Cond(t, "service failed")
    BY <2>1, Holds DEF Under
  <2>3. Piece(StartSidecar \o <<"catch start">>, "wait exit", "catch start") /\ "wait exit" \notin Catches
    BY Lists, CatchSet DEF Chunk
  <2>4. \A c \in Needs : May("service failed", c) => May("catch start", c)
    BY DEF May, Stops
  <2>5. "wait exit" \in Needs => "wait exit" \in Able(t)'
    BY <1>3, <2>2 DEF Needs, Able, Cond, Steps, core, sidecar, os
  <2>6. QED
    BY <1>1, <1>3, <2>1, <2>3, <2>4, <2>5, ThenKeeps DEF Under
<1>4. QED
  BY <1>2, <1>3 DEF ServiceFailed

\* Where a check is made, and what it leads to.
LEMMA CheckAt ==
  ASSUME NEW t, Check(t)
  PROVE  \E h \in {"must run", "must sidecar", "must service", "still service"} :
           At(t, h) /\ (Done(t) \/ Raise(t)) /\ UNCHANGED <<core, sidecar, os>>
PROOF
<1>1. PICK c \in {[at |-> "must run",      holds |-> Running],
                  [at |-> "must sidecar",  holds |-> mode = "Sidecar" /\ ready.active],
                  [at |-> "must service",  holds |-> mode = "Service" /\ ready.active],
                  [at |-> "still service", holds |-> mode = "Service"]} :
             At(t, c.at) /\ IF c.holds THEN Done(t) ELSE Raise(t)
  BY DEF Check
<1>2. c.at \in {"must run", "must sidecar", "must service", "still service"}
  <2>1. \/ c = [at |-> "must run",      holds |-> Running]
        \/ c = [at |-> "must sidecar",  holds |-> mode = "Sidecar" /\ ready.active]
        \/ c = [at |-> "must service",  holds |-> mode = "Service" /\ ready.active]
        \/ c = [at |-> "still service", holds |-> mode = "Service"]
    BY <1>1, Zenon
  <2>2. CASE c = [at |-> "must run",      holds |-> Running]
    BY <2>2
  <2>3. CASE c = [at |-> "must sidecar",  holds |-> mode = "Sidecar" /\ ready.active]
    BY <2>3
  <2>4. CASE c = [at |-> "must service",  holds |-> mode = "Service" /\ ready.active]
    BY <2>4
  <2>5. CASE c = [at |-> "still service", holds |-> mode = "Service"]
    BY <2>5
  <2>6. QED
    BY <2>1, <2>2, <2>3, <2>4, <2>5
<1>3. At(t, c.at) /\ (Done(t) \/ Raise(t)) /\ UNCHANGED <<core, sidecar, os>>
  BY <1>1 DEF Check
<1>4. QED
  BY <1>2, <1>3

\* The checks between the steps.
LEMMA CheckKeeps ==
  ASSUME TaskInv, NEW t \in Tasks, Check(t)
  PROVE  TaskInv'
PROOF
<1>1. UNCHANGED <<life, want, write>>
  BY DEF Check, locks, core, sidecar, service, os
<1>2. CASE At(t, "must run") /\ Done(t) /\ UNCHANGED <<core, sidecar, os>>
  <2>1. "must run" \in Under /\ At(t, "must run")
    BY <1>2 DEF Under, Steps, Entry
  <2>2. Cond(t, "must run")
    BY <2>1, Holds DEF Under
  <2>3. \A c \in Needs : May("must run", c) => c \in Able(t)'
    BY <1>2, <2>1, <2>2, PlatformAssumption DEF May, Stops, Able, Cond, Steps
  <2>4. QED
    BY <1>1, <1>2, <2>1, <2>3, DoneKeeps DEF Under
<1>3. CASE At(t, "must run") /\ Raise(t)
  <2>1. "must run" \in Under /\ At(t, "must run")
    BY <1>3 DEF Under, Steps, Entry
  <2>2. Cond(t, "must run")
    BY <2>1, Holds DEF Under
  <2>3. QED
    BY <1>1, <1>3, <2>1, RaiseKeeps DEF Under
<1>4. CASE At(t, "must sidecar") /\ Done(t) /\ UNCHANGED <<core, sidecar, os>>
  <2>1. "must sidecar" \in Under /\ At(t, "must sidecar")
    BY <1>4 DEF Under, Steps, Entry
  <2>2. Cond(t, "must sidecar")
    BY <2>1, Holds DEF Under
  <2>3. \A c \in Needs : May("must sidecar", c) => c \in Able(t)'
    BY <1>4, <2>1, <2>2, PlatformAssumption DEF May, Stops, Able, Cond, Steps
  <2>4. QED
    BY <1>1, <1>4, <2>1, <2>3, DoneKeeps DEF Under
<1>5. CASE At(t, "must sidecar") /\ Raise(t)
  <2>1. "must sidecar" \in Under /\ At(t, "must sidecar")
    BY <1>5 DEF Under, Steps, Entry
  <2>2. Cond(t, "must sidecar")
    BY <2>1, Holds DEF Under
  <2>3. QED
    BY <1>1, <1>5, <2>1, RaiseKeeps DEF Under
<1>6. CASE At(t, "must service") /\ Done(t) /\ UNCHANGED <<core, sidecar, os>>
  <2>1. "must service" \in Under /\ At(t, "must service")
    BY <1>6 DEF Under, Steps, Entry
  <2>2. Cond(t, "must service")
    BY <2>1, Holds DEF Under
  <2>3. \A c \in Needs : May("must service", c) => c \in Able(t)'
    BY <1>6, <2>1, <2>2, PlatformAssumption DEF May, Stops, Able, Cond, Steps
  <2>4. QED
    BY <1>1, <1>6, <2>1, <2>3, DoneKeeps DEF Under
<1>7. CASE At(t, "must service") /\ Raise(t)
  <2>1. "must service" \in Under /\ At(t, "must service")
    BY <1>7 DEF Under, Steps, Entry
  <2>2. Cond(t, "must service")
    BY <2>1, Holds DEF Under
  <2>3. QED
    BY <1>1, <1>7, <2>1, RaiseKeeps DEF Under
<1>8. CASE At(t, "still service") /\ Done(t) /\ UNCHANGED <<core, sidecar, os>>
  <2>1. "still service" \in Under /\ At(t, "still service")
    BY <1>8 DEF Under, Steps, Entry
  <2>2. Cond(t, "still service")
    BY <2>1, Holds DEF Under
  <2>3. \A c \in Needs : May("still service", c) => c \in Able(t)'
    BY <1>8, <2>1, <2>2, PlatformAssumption DEF May, Stops, Able, Cond, Steps
  <2>4. QED
    BY <1>1, <1>8, <2>1, <2>3, DoneKeeps DEF Under
<1>9. CASE At(t, "still service") /\ Raise(t)
  <2>1. "still service" \in Under /\ At(t, "still service")
    BY <1>9 DEF Under, Steps, Entry
  <2>2. Cond(t, "still service")
    BY <2>1, Holds DEF Under
  <2>3. QED
    BY <1>1, <1>9, <2>1, RaiseKeeps DEF Under
<1>10. QED
  BY <1>2, <1>3, <1>4, <1>5, <1>6, <1>7, <1>8, <1>9, CheckAt

\* The uninstallation of the Service.
LEMMA UninstallKeeps ==
  ASSUME TaskInv, NEW t \in Tasks, Uninstall(t)
  PROVE  TaskInv'
PROOF
<1>1. UNCHANGED <<life, want, write>>
  BY DEF Uninstall, locks, core, sidecar, service, os
<1>2. CASE At(t, "uninstall") /\ Done(t)
  <2>1. "uninstall" \in Under /\ At(t, "uninstall")
    BY <1>2 DEF Under, Steps, Entry
  <2>2. Cond(t, "uninstall")
    BY <2>1, Holds DEF Under
  <2>3. \A c \in Needs : May("uninstall", c) => c \in Able(t)'
    BY <1>2, <2>1, <2>2, PlatformAssumption DEF May, Stops, Able, Cond, Steps
  <2>4. QED
    BY <1>1, <1>2, <2>1, <2>3, DoneKeeps DEF Under
<1>3. CASE At(t, "uninstall") /\ Raise(t)
  <2>1. "uninstall" \in Under /\ At(t, "uninstall")
    BY <1>3 DEF Under, Steps, Entry
  <2>2. Cond(t, "uninstall")
    BY <2>1, Holds DEF Under
  <2>3. QED
    BY <1>1, <1>3, <2>1, RaiseKeeps DEF Under
<1>4. QED
  BY <1>2, <1>3 DEF Uninstall

\* A runtime staged for the Service.
LEMMA StageKeeps ==
  ASSUME TaskInv, NEW t \in Tasks, Stage(t)
  PROVE  TaskInv'
PROOF
<1>1. UNCHANGED <<life, want, write>>
  BY DEF Stage, locks, core, sidecar, service, os
<1>2. CASE At(t, "stage") /\ Done(t)
  <2>1. "stage" \in Under /\ At(t, "stage")
    BY <1>2 DEF Under, Steps, Entry
  <2>2. Cond(t, "stage")
    BY <2>1, Holds DEF Under
  <2>3. \A c \in Needs : May("stage", c) => c \in Able(t)'
    BY <1>2, <2>1, <2>2, PlatformAssumption DEF May, Stops, Able, Cond, Steps
  <2>4. QED
    BY <1>1, <1>2, <2>1, <2>3, DoneKeeps DEF Under
<1>3. CASE At(t, "stage") /\ Raise(t)
  <2>1. "stage" \in Under /\ At(t, "stage")
    BY <1>3 DEF Under, Steps, Entry
  <2>2. Cond(t, "stage")
    BY <2>1, Holds DEF Under
  <2>3. QED
    BY <1>1, <1>3, <2>1, RaiseKeeps DEF Under
<1>4. CASE At(t, "stage") /\ Then(t, <<"stop", "start service", "must service">> \o ApplyProxy)
  <2>1. "stage" \in Under /\ At(t, "stage")
    BY <1>4 DEF Under, Steps, Entry
  <2>2. Cond(t, "stage")
    BY <2>1, Holds DEF Under
  <2>3. Piece(<<"stop", "start service", "must service">> \o ApplyProxy, "stop", "check refresh") /\ "stop" \notin Catches
    BY Lists, CatchSet DEF Chunk
  <2>4. \A c \in Needs : May("stage", c) => May("check refresh", c)
    BY DEF May, Stops
  <2>5. "stop" \in Needs => "stop" \in Able(t)'
    BY <1>4, <2>2 DEF Needs, Able, Cond, Steps
  <2>6. QED
    BY <1>1, <1>4, <2>1, <2>3, <2>4, <2>5, ThenKeeps DEF Under
<1>5. QED
  BY <1>2, <1>3, <1>4 DEF Stage

\* kill_sidecar.
LEMMA KillKeeps ==
  ASSUME TaskInv, NEW t \in Tasks, Kill(t)
  PROVE  TaskInv'
PROOF
<1>1. UNCHANGED <<life, want, write>>
  BY DEF Kill, locks, core, sidecar, service, os
<1>2. CASE At(t, "kill") /\ Done(t) /\ UNCHANGED <<core, os>>
  <2>1. "kill" \in Under /\ At(t, "kill")
    BY <1>2 DEF Under, Steps, Entry
  <2>2. Cond(t, "kill")
    BY <2>1, Holds DEF Under
  <2>3. \A c \in Needs : May("kill", c) => c \in Able(t)'
    BY <1>2, <2>1, <2>2, PlatformAssumption DEF May, Stops, Able, Cond, Steps, core, os
  <2>4. QED
    BY <1>1, <1>2, <2>1, <2>3, DoneKeeps DEF Under
<1>3. QED
  BY <1>2 DEF Kill

\* The wait for a killed sidecar.
LEMMA WaitKilledKeeps ==
  ASSUME TaskInv, NEW t \in Tasks, WaitKilled(t)
  PROVE  TaskInv'
PROOF
<1>1. UNCHANGED <<life, want, write>>
  BY DEF WaitKilled, locks, core, sidecar, service, os
<1>2. CASE At(t, "wait killed") /\ Done(t) /\ mode' = "NotRunning"
  <2>1. "wait killed" \in Under /\ At(t, "wait killed")
    BY <1>2 DEF Under, Steps, Entry
  <2>2. Cond(t, "wait killed")
    BY <2>1, Holds DEF Under
  <2>3. \A c \in Needs : May("wait killed", c) => c \in Able(t)'
    BY <1>2, <2>1, <2>2, PlatformAssumption DEF May, Stops, Able, Cond, Steps
  <2>4. QED
    BY <1>1, <1>2, <2>1, <2>3, DoneKeeps DEF Under
<1>3. CASE At(t, "wait killed") /\ Raise(t)
  <2>1. "wait killed" \in Under /\ At(t, "wait killed")
    BY <1>3 DEF Under, Steps, Entry
  <2>2. Cond(t, "wait killed")
    BY <2>1, Holds DEF Under
  <2>3. QED
    BY <1>1, <1>3, <2>1, RaiseKeeps DEF Under
<1>4. QED
  BY <1>2, <1>3 DEF WaitKilled, core_stopped

\* The Service is asked to stop the core.
LEMMA StopServiceKeeps ==
  ASSUME TaskInv, NEW t \in Tasks, StopService(t)
  PROVE  TaskInv' /\ At(t, "service stops")'
PROOF
<1>1. UNCHANGED <<life, want, write>>
  BY DEF StopService, locks, core, sidecar, service, os
<1>2. CASE At(t, "stop service") /\ Then(t, <<"service stops">>) /\ UNCHANGED os
  <2>1. "stop service" \in Under /\ At(t, "stop service")
    BY <1>2 DEF Under, Steps, Entry
  <2>2. Cond(t, "stop service")
    BY <2>1, Holds DEF Under
  <2>3. Piece(<<"service stops">>, "service stops", "service stops") /\ "service stops" \notin Catches
    BY Parts, CatchSet DEF Chunk
  <2>4. \A c \in Needs : May("stop service", c) => May("service stops", c)
    BY DEF May, Stops
  <2>5. "service stops" \in Needs => "service stops" \in Able(t)'
    BY <1>2, <2>2 DEF Needs, Able, Cond, Steps, os
  <2>6. QED
    BY <1>1, <1>2, <2>1, <2>3, <2>4, <2>5, ThenKeeps DEF Under
<1>3. QED
  BY <1>2 DEF StopService

\* The Service's answer.
LEMMA ServiceStopsKeeps ==
  ASSUME TaskInv, NEW t \in Tasks, ServiceStops(t)
  PROVE  TaskInv'
PROOF
<1>1. UNCHANGED <<life, want, write>>
  BY DEF ServiceStops, locks, core, sidecar, service, os, NotOurs, TurnsOff, ClearFails
<1>2. CASE At(t, "service stops") /\ Done(t) /\ mode' = "NotRunning"
  <2>1. "service stops" \in Under /\ At(t, "service stops")
    BY <1>2 DEF Under, Steps, Entry
  <2>2. Cond(t, "service stops")
    BY <2>1, Holds DEF Under
  <2>3. \A c \in Needs : May("service stops", c) => c \in Able(t)'
    BY <1>2, <2>1, <2>2, PlatformAssumption DEF May, Stops, Able, Cond, Steps
  <2>4. QED
    BY <1>1, <1>2, <2>1, <2>3, DoneKeeps DEF Under
<1>3. CASE At(t, "service stops") /\ Raise(t)
  <2>1. "service stops" \in Under /\ At(t, "service stops")
    BY <1>3 DEF Under, Steps, Entry
  <2>2. Cond(t, "service stops")
    BY <2>1, Holds DEF Under
  <2>3. QED
    BY <1>1, <1>3, <2>1, RaiseKeeps DEF Under
<1>4. QED
  BY <1>2, <1>3 DEF ServiceStops, core_stopped

\* start_core_inner.
LEMMA StartKeeps ==
  ASSUME TaskInv, NEW t \in Tasks, Start(t)
  PROVE  TaskInv'
PROOF
<1>1. UNCHANGED <<life, want, write>>
  BY DEF Start, locks, core, sidecar, service, os
<1>2. CASE At(t, "start") /\ Done(t)
  <2>1. "start" \in Under /\ At(t, "start")
    BY <1>2 DEF Under, Steps, Entry
  <2>2. Cond(t, "start")
    BY <2>1, Holds DEF Under
  <2>3. \A c \in Needs : May("start", c) => c \in Able(t)'
    BY <1>2, <2>1, <2>2, PlatformAssumption DEF May, Stops, Able, Cond, Steps
  <2>4. QED
    BY <1>1, <1>2, <2>1, <2>3, DoneKeeps DEF Under
<1>3. CASE At(t, "start") /\ Then(t, <<"rollback start">>) /\ UNCHANGED <<core, sidecar, os>>
  <2>1. "start" \in Under /\ At(t, "start")
    BY <1>3 DEF Under, Steps, Entry
  <2>2. Cond(t, "start")
    BY <2>1, Holds DEF Under
  <2>3. Piece(<<"rollback start">>, "rollback start", "rollback start") /\ "rollback start" \notin Catches
    BY Parts, CatchSet DEF Chunk
  <2>4. \A c \in Needs : May("start", c) => May("rollback start", c)
    BY DEF May, Stops
  <2>5. "rollback start" \in Needs => "rollback start" \in Able(t)'
    BY <1>3, <2>2 DEF Needs, Able, Cond, Steps
  <2>6. QED
    BY <1>1, <1>3, <2>1, <2>3, <2>4, <2>5, ThenKeeps DEF Under
<1>4. CASE At(t, "start") /\ Then(t, <<"rollback start">> \o StartSidecar \o <<"catch start">>) /\ UNCHANGED <<core, sidecar, os>>
  <2>1. "start" \in Under /\ At(t, "start")
    BY <1>4 DEF Under, Steps, Entry
  <2>2. Cond(t, "start")
    BY <2>1, Holds DEF Under
  <2>3. Piece(<<"rollback start">> \o StartSidecar \o <<"catch start">>, "rollback start", "catch start") /\ "rollback start" \notin Catches
    BY Lists, CatchSet DEF Chunk
  <2>4. \A c \in Needs : May("start", c) => May("catch start", c)
    BY DEF May, Stops
  <2>5. "rollback start" \in Needs => "rollback start" \in Able(t)'
    BY <1>4, <2>2 DEF Needs, Able, Cond, Steps
  <2>6. QED
    BY <1>1, <1>4, <2>1, <2>3, <2>4, <2>5, ThenKeeps DEF Under
<1>5. CASE At(t, "start") /\ Then(t, <<"start service", "catch service">>) /\ mode = "NotRunning" /\ UNCHANGED <<core, sidecar, os>>
  <2>1. "start" \in Under /\ At(t, "start")
    BY <1>5 DEF Under, Steps, Entry
  <2>2. Cond(t, "start")
    BY <2>1, Holds DEF Under
  <2>3. Piece(<<"start service", "catch service">>, "start service", "catch service") /\ "start service" \notin Catches
    BY ServicePiece, CatchSet DEF Chunk
  <2>4. \A c \in Needs : May("start", c) => May("catch service", c)
    BY DEF May, Stops
  <2>5. "start service" \in Needs => "start service" \in Able(t)'
    BY <1>5, <2>2 DEF Needs, Able, Cond, Steps, core, sidecar, os
  <2>6. QED
    BY <1>1, <1>5, <2>1, <2>3, <2>4, <2>5, ThenKeeps DEF Under
<1>6. CASE At(t, "start") /\ Then(t, StartSidecar \o <<"catch start">>) /\ mode = "NotRunning" /\ UNCHANGED <<core, sidecar, os>>
  <2>1. "start" \in Under /\ At(t, "start")
    BY <1>6 DEF Under, Steps, Entry
  <2>2. Cond(t, "start")
    BY <2>1, Holds DEF Under
  <2>3. Piece(StartSidecar \o <<"catch start">>, "wait exit", "catch start") /\ "wait exit" \notin Catches
    BY Lists, CatchSet DEF Chunk
  <2>4. \A c \in Needs : May("start", c) => May("catch start", c)
    BY DEF May, Stops
  <2>5. "wait exit" \in Needs => "wait exit" \in Able(t)'
    BY <1>6, <2>2 DEF Needs, Able, Cond, Steps, core, sidecar, os
  <2>6. QED
    BY <1>1, <1>6, <2>1, <2>3, <2>4, <2>5, ThenKeeps DEF Under
<1>7. QED
  BY <1>2, <1>3, <1>4, <1>5, <1>6 DEF Start

\* rollback_failed_start.
LEMMA RollbackStartKeeps ==
  ASSUME TaskInv, NEW t \in Tasks, RollbackStart(t)
  PROVE  TaskInv'
PROOF
<1>1. UNCHANGED <<life, want, write>>
  BY DEF RollbackStart, locks, core, sidecar, service, os
<1>2. CASE At(t, "rollback start") /\ Done(t) /\ mode' = "NotRunning"
  <2>1. "rollback start" \in Under /\ At(t, "rollback start")
    BY <1>2 DEF Under, Steps, Entry
  <2>2. Cond(t, "rollback start")
    BY <2>1, Holds DEF Under
  <2>3. \A c \in Needs : May("rollback start", c) => c \in Able(t)'
    BY <1>2, <2>1, <2>2, PlatformAssumption DEF May, Stops, Able, Cond, Steps
  <2>4. QED
    BY <1>1, <1>2, <2>1, <2>3, DoneKeeps DEF Under
<1>3. QED
  BY <1>2 DEF RollbackStart, core_stopped

\* wait_for_sidecar_exit.
LEMMA WaitExitKeeps ==
  ASSUME TaskInv, NEW t \in Tasks, WaitExit(t)
  PROVE  TaskInv'
PROOF
<1>1. UNCHANGED <<life, want, write>>
  BY DEF WaitExit, locks, core, sidecar, service, os
<1>2. CASE At(t, "wait exit") /\ Done(t) /\ UNCHANGED core /\ exit' = None
  <2>1. "wait exit" \in Under /\ At(t, "wait exit")
    BY <1>2 DEF Under, Steps, Entry
  <2>2. Cond(t, "wait exit")
    BY <2>1, Holds DEF Under
  <2>3. \A c \in Needs : May("wait exit", c) => c \in Able(t)'
    BY <1>2, <2>1, <2>2, PlatformAssumption DEF May, Stops, Able, Cond, Steps, core
  <2>4. QED
    BY <1>1, <1>2, <2>1, <2>3, DoneKeeps DEF Under
<1>3. CASE At(t, "wait exit") /\ Raise(t)
  <2>1. "wait exit" \in Under /\ At(t, "wait exit")
    BY <1>3 DEF Under, Steps, Entry
  <2>2. Cond(t, "wait exit")
    BY <2>1, Holds DEF Under
  <2>3. QED
    BY <1>1, <1>3, <2>1, RaiseKeeps DEF Under
<1>4. QED
  BY <1>2, <1>3 DEF WaitExit

\* start_core_by_sidecar up to the first probe.
LEMMA SpawnKeeps ==
  ASSUME TaskInv, NEW t \in Tasks, Spawn(t)
  PROVE  TaskInv'
PROOF
<1>1. UNCHANGED <<life, want, write>>
  BY DEF Spawn, locks, core, sidecar, service, os
<1>2. CASE At(t, "spawn") /\ Done(t) /\ exit' \in Pids
  <2>1. "spawn" \in Under /\ At(t, "spawn")
    BY <1>2 DEF Under, Steps, Entry
  <2>2. Cond(t, "spawn")
    BY <2>1, Holds DEF Under
  <2>3. \A c \in Needs : May("spawn", c) => c \in Able(t)'
    BY <1>2, <2>1, <2>2, PlatformAssumption DEF May, Stops, Able, Cond, Steps
  <2>4. QED
    BY <1>1, <1>2, <2>1, <2>3, DoneKeeps DEF Under
<1>3. CASE At(t, "spawn") /\ Raise(t)
  <2>1. "spawn" \in Under /\ At(t, "spawn")
    BY <1>3 DEF Under, Steps, Entry
  <2>2. Cond(t, "spawn")
    BY <2>1, Holds DEF Under
  <2>3. QED
    BY <1>1, <1>3, <2>1, RaiseKeeps DEF Under
<1>4. QED
  BY <1>2, <1>3 DEF Spawn

\* The rest of it.
LEMMA PollKeeps ==
  ASSUME TaskInv, NEW t \in Tasks, Poll(t)
  PROVE  TaskInv'
PROOF
<1>1. UNCHANGED <<life, want, write>>
  BY DEF Poll, locks, core, sidecar, service, os
<1>2. CASE At(t, "poll") /\ Done(t)
  <2>1. "poll" \in Under /\ At(t, "poll")
    BY <1>2 DEF Under, Steps, Entry
  <2>2. Cond(t, "poll")
    BY <2>1, Holds DEF Under
  <2>3. \A c \in Needs : May("poll", c) => c \in Able(t)'
    BY <1>2, <2>1, <2>2, PlatformAssumption DEF May, Stops, Able, Cond, Steps
  <2>4. QED
    BY <1>1, <1>2, <2>1, <2>3, DoneKeeps DEF Under
<1>3. CASE At(t, "poll") /\ Raise(t)
  <2>1. "poll" \in Under /\ At(t, "poll")
    BY <1>3 DEF Under, Steps, Entry
  <2>2. Cond(t, "poll")
    BY <2>1, Holds DEF Under
  <2>3. QED
    BY <1>1, <1>3, <2>1, RaiseKeeps DEF Under
<1>4. QED
  BY <1>2, <1>3 DEF Poll

\* The proxy is taken back before the core stops.
LEMMA ClearKeeps ==
  ASSUME TaskInv, NEW t \in Tasks, Clear(t)
  PROVE  TaskInv'
PROOF
<1>1. UNCHANGED <<life, want, write>>
  BY DEF Clear, locks, core, sidecar, service, os
<1>2. CASE At(t, "clear") /\ Done(t) /\ ((NotOurs /\ UNCHANGED guard) \/ (TurnsOff /\ guard' = FALSE))
  <2>1. "clear" \in Under /\ At(t, "clear")
    BY <1>2 DEF Under, Steps, Entry
  <2>2. Cond(t, "clear")
    BY <2>1, Holds DEF Under
  <2>3. \A c \in Needs : May("clear", c) => c \in Able(t)'
    BY <1>2, <2>1, <2>2, PlatformAssumption DEF May, Stops, Able, Cond, Steps, NotOurs, TurnsOff, Local
  <2>4. QED
    BY <1>1, <1>2, <2>1, <2>3, DoneKeeps DEF Under
<1>3. CASE At(t, "clear") /\ Raise(t)
  <2>1. "clear" \in Under /\ At(t, "clear")
    BY <1>3 DEF Under, Steps, Entry
  <2>2. Cond(t, "clear")
    BY <2>1, Holds DEF Under
  <2>3. QED
    BY <1>1, <1>3, <2>1, RaiseKeeps DEF Under
<1>4. QED
  BY <1>2, <1>3 DEF Clear

\* The guard stops.
LEMMA StopGuardKeeps ==
  ASSUME TaskInv, NEW t \in Tasks, StopGuard(t)
  PROVE  TaskInv'
PROOF
<1>1. UNCHANGED <<life, want, write>>
  BY DEF StopGuard, locks, core, sidecar, service, os
<1>2. CASE At(t, "stop guard") /\ Done(t) /\ guard' = FALSE /\ UNCHANGED owned
  <2>1. "stop guard" \in Under /\ At(t, "stop guard")
    BY <1>2 DEF Under, Steps, Entry
  <2>2. Cond(t, "stop guard")
    BY <2>1, Holds DEF Under
  <2>3. \A c \in Needs : May("stop guard", c) => c \in Able(t)'
    BY <1>2, <2>1, <2>2, PlatformAssumption DEF May, Stops, Able, Cond, Steps
  <2>4. QED
    BY <1>1, <1>2, <2>1, <2>3, DoneKeeps DEF Under
<1>3. QED
  BY <1>2 DEF StopGuard

\* proxy_control::apply.
LEMMA ApplyWriteKeeps ==
  ASSUME TaskInv, NEW t \in Tasks, ApplyWrite(t)
  PROVE  TaskInv'
PROOF
<1>1. UNCHANGED <<life, want, write>>
  BY DEF ApplyWrite, locks, core, sidecar, service, os
<1>2. CASE At(t, "apply") /\ Done(t) /\ UNCHANGED <<core, locks, want>>
  <2>1. "apply" \in Under /\ At(t, "apply")
    BY <1>2 DEF Under, Steps, Entry
  <2>2. Cond(t, "apply")
    BY <2>1, Holds DEF Under
  <2>3. \A c \in Needs : May("apply", c) => c \in Able(t)'
    BY <1>2, <2>1, <2>2, PlatformAssumption DEF May, Stops, Able, Cond, Steps, core, locks
  <2>4. QED
    BY <1>1, <1>2, <2>1, <2>3, DoneKeeps DEF Under
<1>3. CASE At(t, "apply") /\ Raise(t)
  <2>1. "apply" \in Under /\ At(t, "apply")
    BY <1>3 DEF Under, Steps, Entry
  <2>2. Cond(t, "apply")
    BY <2>1, Holds DEF Under
  <2>3. QED
    BY <1>1, <1>3, <2>1, RaiseKeeps DEF Under
<1>4. QED
  BY <1>2, <1>3 DEF ApplyWrite

\* The guard is refreshed.
LEMMA RefreshKeeps ==
  ASSUME TaskInv, NEW t \in Tasks, Refresh(t)
  PROVE  TaskInv'
PROOF
<1>1. UNCHANGED <<life, want, write>>
  BY DEF Refresh, locks, core, sidecar, service, os
<1>2. CASE At(t, "refresh") /\ Done(t) /\ UNCHANGED <<core, locks, want>>
  <2>1. "refresh" \in Under /\ At(t, "refresh")
    BY <1>2 DEF Under, Steps, Entry
  <2>2. Cond(t, "refresh")
    BY <2>1, Holds DEF Under
  <2>3. \A c \in Needs : May("refresh", c) => c \in Able(t)'
    BY <1>2, <2>1, <2>2, PlatformAssumption DEF May, Stops, Able, Cond, Steps, core, locks
  <2>4. QED
    BY <1>1, <1>2, <2>1, <2>3, DoneKeeps DEF Under
<1>3. CASE At(t, "refresh") /\ Raise(t)
  <2>1. "refresh" \in Under /\ At(t, "refresh")
    BY <1>3 DEF Under, Steps, Entry
  <2>2. Cond(t, "refresh")
    BY <2>1, Holds DEF Under
  <2>3. QED
    BY <1>1, <1>3, <2>1, RaiseKeeps DEF Under
<1>4. QED
  BY <1>2, <1>3 DEF Refresh

\* The core is looked at again.
LEMMA RecheckKeeps ==
  ASSUME TaskInv, NEW t \in Tasks, Recheck(t)
  PROVE  TaskInv'
PROOF
<1>1. UNCHANGED <<life, want, write>>
  BY DEF Recheck, locks, core, sidecar, service, os
<1>2. CASE At(t, "check apply") /\ Done(t) /\ UNCHANGED <<core, locks, want>>
  <2>1. "check apply" \in Under /\ At(t, "check apply")
    BY <1>2 DEF Under, Steps, Entry
  <2>2. Cond(t, "check apply")
    BY <2>1, Holds DEF Under
  <2>3. \A c \in Needs : May("check apply", c) => c \in Able(t)'
    BY <1>2, <2>1, <2>2, PlatformAssumption DEF May, Stops, Able, Cond, Steps, core, locks
  <2>4. QED
    BY <1>1, <1>2, <2>1, <2>3, DoneKeeps DEF Under
<1>3. CASE At(t, "check apply") /\ Raise(t)
  <2>1. "check apply" \in Under /\ At(t, "check apply")
    BY <1>3 DEF Under, Steps, Entry
  <2>2. Cond(t, "check apply")
    BY <2>1, Holds DEF Under
  <2>3. QED
    BY <1>1, <1>3, <2>1, RaiseKeeps DEF Under
<1>4. CASE At(t, "check refresh") /\ Done(t) /\ UNCHANGED <<core, locks, want>>
  <2>1. "check refresh" \in Under /\ At(t, "check refresh")
    BY <1>4 DEF Under, Steps, Entry
  <2>2. Cond(t, "check refresh")
    BY <2>1, Holds DEF Under
  <2>3. \A c \in Needs : May("check refresh", c) => c \in Able(t)'
    BY <1>4, <2>1, <2>2, PlatformAssumption DEF May, Stops, Able, Cond, Steps, core, locks
  <2>4. QED
    BY <1>1, <1>4, <2>1, <2>3, DoneKeeps DEF Under
<1>5. CASE At(t, "check refresh") /\ Raise(t)
  <2>1. "check refresh" \in Under /\ At(t, "check refresh")
    BY <1>5 DEF Under, Steps, Entry
  <2>2. Cond(t, "check refresh")
    BY <2>1, Holds DEF Under
  <2>3. QED
    BY <1>1, <1>5, <2>1, RaiseKeeps DEF Under
<1>6. QED
  BY <1>2, <1>3, <1>4, <1>5 DEF Recheck

\* The steps that only decide what comes next.
LEMMA ExpandKeeps ==
  ASSUME TaskInv, NEW t \in Tasks, Expand(t)
  PROVE  TaskInv'
PROOF
<1>1. UNCHANGED <<life, want, write>>
  BY DEF Expand, locks, core, sidecar, service, os
<1>2. CASE At(t, "raise") /\ Raise(t)
  <2>1. "raise" \in Under /\ At(t, "raise")
    BY <1>2 DEF Under, Steps, Entry
  <2>2. Cond(t, "raise")
    BY <2>1, Holds DEF Under
  <2>3. QED
    BY <1>1, <1>2, <2>1, RaiseKeeps DEF Under
<1>3. CASE At(t, "hand over") /\ Then(t, <<"start service", "must service">> \o ApplyProxy \o <<"catch handoff">>) /\ UNCHANGED <<core, sidecar, os>>
  <2>1. "hand over" \in Under /\ At(t, "hand over")
    BY <1>3 DEF Under, Steps, Entry
  <2>2. Cond(t, "hand over")
    BY <2>1, Holds DEF Under
  <2>3. Piece(<<"start service", "must service">> \o ApplyProxy \o <<"catch handoff">>, "start service", "catch handoff") /\ "start service" \notin Catches
    BY Lists, CatchSet DEF Chunk
  <2>4. \A c \in Needs : May("hand over", c) => May("catch handoff", c)
    BY DEF May, Stops
  <2>5. "start service" \in Needs => "start service" \in Able(t)'
    BY <1>3, <2>2 DEF Needs, Able, Cond, Steps, core, sidecar, os
  <2>6. QED
    BY <1>1, <1>3, <2>1, <2>3, <2>4, <2>5, ThenKeeps DEF Under
<1>4. CASE At(t, "fall back") /\ Then(t, StartSidecar \o <<"must sidecar">> \o ApplyProxy \o <<"catch rollback">>) /\ UNCHANGED <<core, sidecar, os>>
  <2>1. "fall back" \in Under /\ At(t, "fall back")
    BY <1>4 DEF Under, Steps, Entry
  <2>2. Cond(t, "fall back")
    BY <2>1, Holds DEF Under
  <2>3. Piece(StartSidecar \o <<"must sidecar">> \o ApplyProxy \o <<"catch rollback">>, "wait exit", "catch rollback") /\ "wait exit" \notin Catches
    BY Lists, CatchSet DEF Chunk
  <2>4. \A c \in Needs : May("fall back", c) => May("catch rollback", c)
    BY DEF May, Stops
  <2>5. "wait exit" \in Needs => "wait exit" \in Able(t)'
    BY <1>4, <2>2 DEF Needs, Able, Cond, Steps, core, sidecar, os
  <2>6. QED
    BY <1>1, <1>4, <2>1, <2>3, <2>4, <2>5, ThenKeeps DEF Under
<1>5. CASE At(t, "uninstall and start") /\ Then(t, <<"uninstall", "start", "must sidecar">> \o ApplyProxy \o <<"catch rollback">>) /\ UNCHANGED <<core, sidecar, os>>
  <2>1. "uninstall and start" \in Under /\ At(t, "uninstall and start")
    BY <1>5 DEF Under, Steps, Entry
  <2>2. Cond(t, "uninstall and start")
    BY <2>1, Holds DEF Under
  <2>3. Piece(<<"uninstall", "start", "must sidecar">> \o ApplyProxy \o <<"catch rollback">>, "uninstall", "catch rollback") /\ "uninstall" \notin Catches
    BY Lists, CatchSet DEF Chunk
  <2>4. \A c \in Needs : May("uninstall and start", c) => May("catch rollback", c)
    BY DEF May, Stops
  <2>5. "uninstall" \in Needs => "uninstall" \in Able(t)'
    BY <1>5, <2>2 DEF Needs, Able, Cond, Steps
  <2>6. QED
    BY <1>1, <1>5, <2>1, <2>3, <2>4, <2>5, ThenKeeps DEF Under
<1>6. CASE At(t, "rollback") /\ Then(t, <<"clear">> \o Terminate \o <<"rollback start">>) /\ UNCHANGED <<core, sidecar, os>>
  <2>1. "rollback" \in Under /\ At(t, "rollback")
    BY <1>6 DEF Under, Steps, Entry
  <2>2. Cond(t, "rollback")
    BY <2>1, Holds DEF Under
  <2>3. Piece(<<"clear">> \o Terminate \o <<"rollback start">>, "clear", "rollback start") /\ "clear" \notin Catches
    BY Lists, CatchSet DEF Chunk
  <2>4. \A c \in Needs : May("rollback", c) => May("rollback start", c)
    BY DEF May, Stops
  <2>5. "clear" \in Needs => "clear" \in Able(t)'
    BY <1>6, <2>2 DEF Needs, Able, Cond, Steps
  <2>6. QED
    BY <1>1, <1>6, <2>1, <2>3, <2>4, <2>5, ThenKeeps DEF Under
<1>7. CASE At(t, "rollback") /\ Then(t, <<"rollback start">>) /\ UNCHANGED <<core, sidecar, os>>
  <2>1. "rollback" \in Under /\ At(t, "rollback")
    BY <1>7 DEF Under, Steps, Entry
  <2>2. Cond(t, "rollback")
    BY <2>1, Holds DEF Under
  <2>3. Piece(<<"rollback start">>, "rollback start", "rollback start") /\ "rollback start" \notin Catches
    BY Parts, CatchSet DEF Chunk
  <2>4. \A c \in Needs : May("rollback", c) => May("rollback start", c)
    BY DEF May, Stops
  <2>5. "rollback start" \in Needs => "rollback start" \in Able(t)'
    BY <1>7, <2>2 DEF Needs, Able, Cond, Steps
  <2>6. QED
    BY <1>1, <1>7, <2>1, <2>3, <2>4, <2>5, ThenKeeps DEF Under
<1>8. CASE At(t, "apply if ready") /\ Then(t, ApplyProxy) /\ UNCHANGED <<core, sidecar, os>>
  <2>1. "apply if ready" \in Under /\ At(t, "apply if ready")
    BY <1>8 DEF Under, Steps, Entry
  <2>2. Cond(t, "apply if ready")
    BY <2>1, Holds DEF Under
  <2>3. Piece(ApplyProxy, "capture", "check refresh") /\ "capture" \notin Catches
    BY ProxyPiece, CatchSet DEF Chunk
  <2>4. \A c \in Needs : May("apply if ready", c) => May("check refresh", c)
    BY DEF May, Stops
  <2>5. "capture" \in Needs => "capture" \in Able(t)'
    BY <1>8, <2>2 DEF Needs, Able, Cond, Steps
  <2>6. QED
    BY <1>1, <1>8, <2>1, <2>3, <2>4, <2>5, ThenKeeps DEF Under
<1>9. CASE At(t, "apply if ready") /\ Done(t)
  <2>1. "apply if ready" \in Under /\ At(t, "apply if ready")
    BY <1>9 DEF Under, Steps, Entry
  <2>2. Cond(t, "apply if ready")
    BY <2>1, Holds DEF Under
  <2>3. \A c \in Needs : May("apply if ready", c) => c \in Able(t)'
    BY <1>9, <2>1, <2>2, PlatformAssumption DEF May, Stops, Able, Cond, Steps
  <2>4. QED
    BY <1>1, <1>9, <2>1, <2>3, DoneKeeps DEF Under
<1>10. UNCHANGED <<core, sidecar, os>>
  BY DEF Expand
<1>11. <<>> \o <<"rollback start">> = <<"rollback start">>
  OBVIOUS
<1>12. CASE At(t, "rollback") /\ Then(t, (IF mode = "Sidecar" THEN <<"clear">> \o Terminate ELSE <<>>) \o <<"rollback start">>)
  BY <1>6, <1>7, <1>10, <1>11, <1>12
<1>13. CASE At(t, "apply if ready") /\ Then(t, IF Running THEN ApplyProxy ELSE <<>>)
  BY <1>8, <1>9, <1>10, <1>13 DEF Done
<1>14. QED
  BY <1>2, <1>3, <1>4, <1>5, <1>10, <1>12, <1>13 DEF Expand

\* run_controlled_stop_transition.
LEMMA StopKeeps ==
  ASSUME TaskInv, ProxyInv, NEW t \in Tasks, Stop(t)
  PROVE  TaskInv'
PROOF
<1>1. UNCHANGED <<life, want, write>>
  BY DEF Stop, locks, core, sidecar, service, os
<1>2. CASE At(t, "stop") /\ Done(t) /\ mode = "NotRunning" /\ UNCHANGED <<core, sidecar, os>>
  <2>1. "stop" \in Under /\ At(t, "stop")
    BY <1>2 DEF Under, Steps, Entry
  <2>2. Cond(t, "stop")
    BY <2>1, Holds DEF Under
  <2>3. \A c \in Needs : May("stop", c) => c \in Able(t)'
    BY <1>2, <2>1, <2>2, PlatformAssumption DEF May, Stops, Able, Cond, Steps, core, sidecar, os
  <2>4. QED
    BY <1>1, <1>2, <2>1, <2>3, DoneKeeps DEF Under
<1>3. CASE At(t, "stop") /\ Then(t, <<"clear">> \o Terminate) /\ UNCHANGED <<core, sidecar, os>>
  <2>1. "stop" \in Under /\ At(t, "stop")
    BY <1>3 DEF Under, Steps, Entry
  <2>2. Cond(t, "stop")
    BY <2>1, Holds DEF Under
  <2>3. Piece(<<"clear">> \o Terminate, "clear", "wait killed") /\ "clear" \notin Catches
    BY Lists, CatchSet DEF Chunk
  <2>4. \A c \in Needs : May("stop", c) => May("wait killed", c)
    BY DEF May, Stops
  <2>5. "clear" \in Needs => "clear" \in Able(t)'
    BY <1>3, <2>2 DEF Needs, Able, Cond, Steps
  <2>6. QED
    BY <1>1, <1>3, <2>1, <2>3, <2>4, <2>5, ThenKeeps DEF Under
<1>4. CASE At(t, "stop") /\ Then(t, <<"stop guard">> \o Terminate) /\ Platform = "macos" /\ UNCHANGED <<core, sidecar, os>>
  <2>1. "stop" \in Under /\ At(t, "stop")
    BY <1>4 DEF Under, Steps, Entry
  <2>2. Cond(t, "stop")
    BY <2>1, Holds DEF Under
  <2>3. Piece(<<"stop guard">> \o Terminate, "stop guard", "wait killed") /\ "stop guard" \notin Catches
    BY <1>4, Lists, CatchSet DEF Chunk
  <2>4. \A c \in Needs : May("stop", c) => May("wait killed", c)
    BY DEF May, Stops
  <2>5. "stop guard" \in Needs => "stop guard" \in Able(t)'
    BY <1>4, <2>2 DEF Needs, Able, Cond, Steps
  <2>6. QED
    BY <1>1, <1>4, <2>1, <2>3, <2>4, <2>5, ThenKeeps DEF Under
<1>5. CASE At(t, "stop") /\ Then(t, <<"clear">> \o <<"stop service">>) /\ UNCHANGED <<core, sidecar, os>>
  <2>1. "stop" \in Under /\ At(t, "stop")
    BY <1>5 DEF Under, Steps, Entry
  <2>2. Cond(t, "stop")
    BY <2>1, Holds DEF Under
  <2>3. Piece(<<"clear">> \o <<"stop service">>, "clear", "stop service") /\ "clear" \notin Catches
    BY Lists, CatchSet DEF Chunk
  <2>4. \A c \in Needs : May("stop", c) => May("stop service", c)
    BY DEF May, Stops
  <2>5. "clear" \in Needs => "clear" \in Able(t)'
    BY <1>5, <2>2 DEF Needs, Able, Cond, Steps
  <2>6. QED
    BY <1>1, <1>5, <2>1, <2>3, <2>4, <2>5, ThenKeeps DEF Under
<1>6. CASE At(t, "stop") /\ Then(t, <<"stop guard">> \o <<"stop service">>) /\ Platform = "macos" /\ UNCHANGED <<core, sidecar, os>>
  <2>1. "stop" \in Under /\ At(t, "stop")
    BY <1>6 DEF Under, Steps, Entry
  <2>2. Cond(t, "stop")
    BY <2>1, Holds DEF Under
  <2>3. Piece(<<"stop guard">> \o <<"stop service">>, "stop guard", "stop service") /\ "stop guard" \notin Catches
    BY <1>6, Lists, CatchSet DEF Chunk
  <2>4. \A c \in Needs : May("stop", c) => May("stop service", c)
    BY DEF May, Stops
  <2>5. "stop guard" \in Needs => "stop guard" \in Able(t)'
    BY <1>6, <2>2 DEF Needs, Able, Cond, Steps
  <2>6. QED
    BY <1>1, <1>6, <2>1, <2>3, <2>4, <2>5, ThenKeeps DEF Under
<1>7. CASE At(t, "stop for restart") /\ Done(t) /\ mode = "NotRunning"
  <2>1. "stop for restart" \in Under /\ At(t, "stop for restart")
    BY <1>7 DEF Under, Steps, Entry
  <2>2. Cond(t, "stop for restart")
    BY <2>1, Holds DEF Under
  <2>3. \A c \in Needs : May("stop for restart", c) => c \in Able(t)'
    BY <1>7, <2>1, <2>2, PlatformAssumption DEF May, Stops, Able, Cond, Steps
  <2>4. QED
    BY <1>1, <1>7, <2>1, <2>3, DoneKeeps DEF Under
<1>8. CASE At(t, "stop for restart") /\ Then(t, <<"clear">> \o Terminate) /\ UNCHANGED <<core, sidecar, os>>
  <2>1. "stop for restart" \in Under /\ At(t, "stop for restart")
    BY <1>8 DEF Under, Steps, Entry
  <2>2. Cond(t, "stop for restart")
    BY <2>1, Holds DEF Under
  <2>3. Piece(<<"clear">> \o Terminate, "clear", "wait killed") /\ "clear" \notin Catches
    BY Lists, CatchSet DEF Chunk
  <2>4. \A c \in Needs : May("stop for restart", c) => May("wait killed", c)
    BY DEF May, Stops
  <2>5. "clear" \in Needs => "clear" \in Able(t)'
    BY <1>8, <2>2 DEF Needs, Able, Cond, Steps
  <2>6. QED
    BY <1>1, <1>8, <2>1, <2>3, <2>4, <2>5, ThenKeeps DEF Under
<1>9. CASE At(t, "stop for restart") /\ Then(t, <<"stop guard">> \o Terminate) /\ Platform = "macos" /\ UNCHANGED <<core, sidecar, os>>
  <2>1. "stop for restart" \in Under /\ At(t, "stop for restart")
    BY <1>9 DEF Under, Steps, Entry
  <2>2. Cond(t, "stop for restart")
    BY <2>1, Holds DEF Under
  <2>3. Piece(<<"stop guard">> \o Terminate, "stop guard", "wait killed") /\ "stop guard" \notin Catches
    BY <1>9, Lists, CatchSet DEF Chunk
  <2>4. \A c \in Needs : May("stop for restart", c) => May("wait killed", c)
    BY DEF May, Stops
  <2>5. "stop guard" \in Needs => "stop guard" \in Able(t)'
    BY <1>9, <2>2 DEF Needs, Able, Cond, Steps
  <2>6. QED
    BY <1>1, <1>9, <2>1, <2>3, <2>4, <2>5, ThenKeeps DEF Under
<1>10. CASE At(t, "stop for restart") /\ Then(t, <<"clear">> \o <<"stop service">>) /\ UNCHANGED <<core, sidecar, os>>
  <2>1. "stop for restart" \in Under /\ At(t, "stop for restart")
    BY <1>10 DEF Under, Steps, Entry
  <2>2. Cond(t, "stop for restart")
    BY <2>1, Holds DEF Under
  <2>3. Piece(<<"clear">> \o <<"stop service">>, "clear", "stop service") /\ "clear" \notin Catches
    BY Lists, CatchSet DEF Chunk
  <2>4. \A c \in Needs : May("stop for restart", c) => May("stop service", c)
    BY DEF May, Stops
  <2>5. "clear" \in Needs => "clear" \in Able(t)'
    BY <1>10, <2>2 DEF Needs, Able, Cond, Steps
  <2>6. QED
    BY <1>1, <1>10, <2>1, <2>3, <2>4, <2>5, ThenKeeps DEF Under
<1>11. CASE At(t, "stop for restart") /\ Then(t, <<"stop guard">> \o <<"stop service">>) /\ Platform = "macos" /\ UNCHANGED <<core, sidecar, os>>
  <2>1. "stop for restart" \in Under /\ At(t, "stop for restart")
    BY <1>11 DEF Under, Steps, Entry
  <2>2. Cond(t, "stop for restart")
    BY <2>1, Holds DEF Under
  <2>3. Piece(<<"stop guard">> \o <<"stop service">>, "stop guard", "stop service") /\ "stop guard" \notin Catches
    BY <1>11, Lists, CatchSet DEF Chunk
  <2>4. \A c \in Needs : May("stop for restart", c) => May("stop service", c)
    BY DEF May, Stops
  <2>5. "stop guard" \in Needs => "stop guard" \in Able(t)'
    BY <1>11, <2>2 DEF Needs, Able, Cond, Steps
  <2>6. QED
    BY <1>1, <1>11, <2>1, <2>3, <2>4, <2>5, ThenKeeps DEF Under
<1>12. UNCHANGED <<core, sidecar, os>> /\ mode \in {"NotRunning", "Sidecar", "Service"}
  BY DEF Stop, ProxyInv
<1>13. PICK handover \in BOOLEAN, h \in {"stop", "stop for restart"} : At(t, h) /\ Then(t, StopPlan(handover))
  BY DEF Stop
<1>14. StopPlan(handover) \in {<<>>, <<"clear">> \o Terminate, <<"clear">> \o <<"stop service">>}
         \cup (IF Platform = "macos" THEN {<<"stop guard">> \o Terminate, <<"stop guard">> \o <<"stop service">>} ELSE {})
  BY <1>12 DEF StopPlan
<1>15. StopPlan(handover) = <<>> => mode = "NotRunning"
  <2>1. SUFFICES ASSUME mode # "NotRunning" PROVE StopPlan(handover) # <<>>
    BY <1>12
  <2>2. Platform = "macos" =>
          <<"stop guard">> \o Terminate # <<>> /\ <<"stop guard">> \o <<"stop service">> # <<>>
    BY Lists DEF Chunk, Piece
  <2>3. <<"clear">> \o Terminate # <<>> /\ <<"clear">> \o <<"stop service">> # <<>>
    BY Lists DEF Chunk, Piece
  <2>4. QED
    BY <2>1, <2>2, <2>3, <1>12 DEF StopPlan
<1>16. QED
  BY <1>2, <1>3, <1>4, <1>5, <1>6, <1>7, <1>8, <1>9, <1>10, <1>11, <1>12, <1>13, <1>14, <1>15 DEF Done

\* A start of the Service core: failed and retried, or done.
LEMMA StartServiceKeeps ==
  ASSUME TaskInv, NEW t \in Tasks, StartService(t)
  PROVE  TaskInv'
PROOF
<1>1. "start service" \in Under /\ At(t, "start service")
  BY DEF StartService, Under, Steps, Entry
<1>2. life = t /\ Sound(task[t].todo) /\ task[t].todo # <<>> /\ task[t].todo[1] = "start service" /\ Cond(t, "start service")
  BY <1>1, Holds DEF Under
<1>3. UNCHANGED <<life, want, write>>
  BY DEF StartService, locks, os
<1>4. CASE Raise(t) /\ mode' = mode
  BY <1>1, <1>2, <1>3, <1>4, RaiseKeeps DEF Under, Cond
<1>5. CASE Then(t, <<"start service">>) /\ UNCHANGED core
  <2> DEFINE s == task[t].todo
  <2>1. s \in Seq(Steps) /\ s # <<>> /\ Head(s) = "start service"
    BY <1>1, <1>2 DEF Sound, At
  <2>2. <<"start service">> \o Tail(s) = s
    <3>1. s = <<Head(s)>> \o Tail(s)
      BY <2>1, Rejoined
    <3>2. QED
      BY <2>1, <3>1
  <2>3. Skip(s) = s
    BY <2>1, CatchSet DEF Skip
  <2>4. task' = [task EXCEPT ![t].todo = s]
    BY <1>5, <2>2, <2>3 DEF Then
  <2>5. TaskShape
    BY DEF TaskInv
  <2>6. task' = task
    BY <2>4, <2>5 DEF TaskShape
  <2>7. UNCHANGED <<mode, exit, guard, owned>>
    BY <1>5 DEF StartService, core, sidecar, os
  <2>8. QED
    BY <1>3, <2>6, <2>7, NobodyMoves
<1>6. CASE Done(t)
  <2>1. \A c \in Needs : May("start service", c) => c \in Able(t)'
    BY DEF May, Stops, Able, Cond, Steps
  <2>2. QED
    BY <1>1, <1>3, <1>6, <2>1, DoneKeeps DEF Under
<1>7. QED
  BY <1>4, <1>5, <1>6 DEF StartService, core

\* continue_with_sidecar goes on without the configuration lock, or is refused.
LEMMA AllowKeeps ==
  ASSUME TaskInv, NEW t \in Tasks, Allow(t)
  PROVE  TaskInv'
PROOF
<1>1. "allow" \in Under /\ At(t, "allow")
  BY DEF Allow, Under, Steps, Entry
<1>2. write = t /\ task[t].op \notin ProxyOps
  BY <1>1, Holds DEF Under, Cond
<1>3. UNCHANGED <<life, want>>
  BY DEF Allow, os
<1>4. CASE Done(t)
  <2>1. \A c \in Needs : May("allow", c) => c \in Able(t)'
    BY DEF May, Stops
  <2>2. QED
    BY <1>1, <1>2, <1>3, <1>4, <2>1, DoneKeeps DEF Under
<1>5. CASE task' = [task EXCEPT ![t].todo = <<"failed">>]
  BY <1>1, <1>2, <1>3, <1>5, EndsKeeps DEF Under
<1>6. QED
  BY <1>4, <1>5 DEF Allow

\* A handoff that comes too late ends.
LEMMA StillSidecarKeeps ==
  ASSUME TaskInv, NEW t \in Tasks, StillSidecar(t)
  PROVE  TaskInv'
PROOF
<1>1. "still sidecar" \in Under /\ At(t, "still sidecar")
  BY DEF StillSidecar, Under, Steps, Entry
<1>2. UNCHANGED <<life, want, write>>
  BY DEF StillSidecar, locks, os
<1>3. CASE Done(t)
  <2>1. \A c \in Needs : May("still sidecar", c) => c \in Able(t)'
    BY DEF May, Stops
  <2>2. QED
    BY <1>1, <1>2, <1>3, <2>1, DoneKeeps DEF Under
<1>4. CASE task' = [task EXCEPT ![t].todo = <<"end">>]
  BY <1>1, <1>2, <1>4, EndsKeeps DEF Under
<1>5. QED
  BY <1>3, <1>4 DEF StillSidecar

\* Both are fields of the task.
LEMMA TwoFields ==
  ASSUME NEW m, NEW n, NEW a, NEW b, NEW c, NEW d, NEW x, NEW y,
         m = [todo |-> a, op |-> b, exp |-> c, old |-> d], n = [m EXCEPT !.todo = x, !.exp = y]
  PROVE  /\ n.todo = x /\ n.op = b
         /\ n = [todo |-> n.todo, op |-> n.op, exp |-> n.exp, old |-> n.old]
PROOF
<1>1. n.todo = x /\ n.op = b /\ n.exp = y /\ n.old = d
  OBVIOUS
<1>2. n = [todo |-> n.todo, op |-> n.op, exp |-> n.exp, old |-> n.old]
  OBVIOUS
<1>3. QED
  BY <1>1, <1>2

\* A new list for task t, and what it captured or what it found.
LEMMA UpdatedTwo ==
  ASSUME TaskShape, NEW t \in Tasks, NEW x, NEW y,
         \/ task' = [task EXCEPT ![t].todo = x, ![t].exp = y]
         \/ task' = [task EXCEPT ![t].todo = x, ![t].old = y]
  PROVE  Moves(t) /\ task'[t].todo = x
PROOF
<1>1. CASE task' = [task EXCEPT ![t].todo = x, ![t].exp = y]
  <2>1. task[t] = [todo |-> task[t].todo, op |-> task[t].op, exp |-> task[t].exp, old |-> task[t].old]
    BY DEF TaskShape
  <2>2. PICK n : n = [task[t] EXCEPT !.todo = x, !.exp = y]
    OBVIOUS
  <2>3. task' = [task EXCEPT ![t] = n]
    BY <1>1, <2>2 DEF TaskShape
  <2>4. /\ n.todo = x /\ n.op = task[t].op
        /\ n = [todo |-> n.todo, op |-> n.op, exp |-> n.exp, old |-> n.old]
    BY <2>1, <2>2, TwoFields
  <2>5. QED
    BY <2>3, <2>4 DEF TaskShape, Moves
<1>2. CASE task' = [task EXCEPT ![t].todo = x, ![t].old = y]
  <2>1. task' = [task EXCEPT ![t] = [todo |-> x, op |-> task[t].op, exp |-> task[t].exp, old |-> y]]
    BY <1>2 DEF TaskShape
  <2>2. QED
    BY <2>1 DEF TaskShape, Moves
<1>3. QED
  BY <1>1, <1>2

\* The core the proxy is pointed at is captured, or there is none, or the
\* whole application is left to the network watcher.
LEMMA CaptureKeeps ==
  ASSUME TaskInv, NEW t \in Tasks, Capture(t)
  PROVE  TaskInv'
PROOF
<1>1. "capture" \in Under /\ At(t, "capture")
  BY DEF Capture, Under, Steps, Entry
<1>2. /\ life = t /\ Sound(task[t].todo) /\ task[t].todo # <<>> /\ task[t].todo[1] = "capture"
      /\ TaskShape
  BY <1>1, Holds DEF Under, TaskInv
<1>3. UNCHANGED <<life, want, write, mode>>
  BY DEF Capture, locks, core, os
<1>4. CASE Raise(t)
  BY <1>1, <1>3, <1>4, RaiseKeeps DEF Under
<1>5. CASE Running /\ task' = [task EXCEPT ![t].todo = Tail(@), ![t].exp = Expectation]
  <2>1. Moves(t) /\ task'[t].todo = Tail(task[t].todo)
    BY <1>2, <1>5, UpdatedTwo
  <2>2. /\ Sound(Tail(task[t].todo))
        /\ Tail(task[t].todo) # <<>> /\ Tail(task[t].todo)[1] \in Needs => May("capture", Tail(task[t].todo)[1])
    BY <1>2, RestSound
  <2>3. \A c \in Needs : May("capture", c) => c \in Able(t)'
    BY <1>3, <1>5 DEF May, Stops, Able, Cond, Steps, Running
  <2>4. Inside(t)'
    BY <2>1, <2>2, <2>3, InsideThen
  <2>5. QED
    BY <1>2, <1>3, <2>1, <2>4, HolderMoves
<1>6. CASE task' = [task EXCEPT ![t].todo = Skip(SubSeq(@, Len(ApplyProxy) + 1, Len(@)))]
  <2> DEFINE s == task[t].todo
             v == SubSeq(s, 5 + 1, Len(s))
  <2>1. Len(ApplyProxy) = 5
    BY DEF ApplyProxy
  <2>2. task' = [task EXCEPT ![t].todo = Skip(v)]
    BY <1>6, <2>1
  <2>3. Moves(t) /\ task'[t].todo = Skip(v)
    BY <1>2, <2>2, Updated
  <2>4. 5 \in 1 .. Len(s) /\ s[5] = "check refresh"
    <3>1. s \in Seq(Steps)
      BY <1>2 DEF Sound
    <3>2. 1 \in 1 .. Len(s) /\ Len(s) \in Nat
      BY <1>2, <3>1, HasFirst
    <3>3. 1 + 4 <= Len(s) /\ s[1 + 4] = "check refresh"
      BY <1>2, <3>2 DEF Sound
    <3>4. 1 + 4 = 5
      OBVIOUS
    <3>5. 5 <= Len(s) /\ s[5] = "check refresh"
      BY <3>3, <3>4
    <3>6. 5 \in 1 .. Len(s)
      <4>1. 5 <= Len(s) /\ Len(s) \in Nat
        BY <3>2, <3>5
      <4>2. QED
        BY <4>1
    <3>7. QED
      BY <3>5, <3>6
  <2>5. \A b : ~May("check refresh", b)
    BY DEF May, Stops
  <2>6. Sound(v) /\ ~(v # <<>> /\ v[1] \in Needs)
    BY <1>2, <2>4, <2>5, FromSound
  <2> HIDE DEF v
  <2>7. Inside(t)'
    BY <2>3, <2>6, SkipSound, InsideThen
  <2>8. QED
    BY <1>2, <1>3, <2>3, <2>7, HolderMoves
<1>7. QED
  BY <1>4, <1>5, <1>6 DEF Capture

\* A task outside the lock moves: the others do not notice.
LEMMA OtherMoves ==
  ASSUME TaskInv, NEW t \in Tasks, life # t, life' = life, UNCHANGED <<mode, exit, guard, owned>>,
         TaskShape', \A u \in Tasks \ {t} : task'[u] = task[u],
         \A u \in Tasks \ {t} : write = u => write' = u /\ want' = want,
         Outside(t)', task'[t].todo # <<>> => task'[t].op \in Ops,
         task'[t].todo # <<>> /\ task'[t].op \in ProxyOps => write' = t \/ At(t, "write lock")'
  PROVE  TaskInv'
PROOF
<1>1. ASSUME NEW u \in Tasks \ {t}
      PROVE  /\ life' = u => Inside(u)'
             /\ life' # u => Outside(u)'
             /\ life' = u \/ task'[u].todo # <<>> => task'[u].op \in Ops
             /\ task'[u].todo # <<>> /\ task'[u].op \in ProxyOps => write' = u \/ At(u, "write lock")'
  <2>1. task'[u] = task[u] /\ (write = u => write' = u /\ want' = want)
    OBVIOUS
  <2>2. life' = u => Inside(u)'
    BY <2>1 DEF TaskInv, Inside, Able, Cond
  <2>3. life' # u => Outside(u)'
    BY <2>1 DEF TaskInv, Outside, Enters, EntersBoth, At
  <2>4. /\ life' = u \/ task'[u].todo # <<>> => task'[u].op \in Ops
        /\ task'[u].todo # <<>> /\ task'[u].op \in ProxyOps => write' = u \/ At(u, "write lock")'
    BY <2>1 DEF TaskInv, At
  <2>5. QED
    BY <2>2, <2>3, <2>4
<1>2. QED
  BY <1>1 DEF TaskInv

\* Whoever waits for a lock does not hold the lifecycle lock.
LEMMA Waits ==
  ASSUME TaskInv, NEW t \in Tasks, NEW h \in Entry, At(t, h)
  PROVE  life # t /\ Outside(t) /\ task[t].todo # <<>> /\ task[t].op \in Ops
PROOF
<1>1. task[t].todo # <<>> /\ Head(task[t].todo) = h /\ task[t].op \in Ops
  BY DEF At, TaskInv
<1>2. life # t
  <2>1. SUFFICES ASSUME Sound(task[t].todo) PROVE FALSE
    BY DEF TaskInv, Inside
  <2>2. 1 \in 1 .. Len(task[t].todo)
    <3>1. task[t].todo \in Seq(Steps)
      BY <2>1 DEF Sound
    <3>2. QED
      BY <1>1, <3>1, HasFirst
  <2>3. task[t].todo[1] \notin Entry
    BY <2>1, <2>2 DEF Sound
  <2>4. QED
    BY <1>1, <2>1, <2>3, RestSound
<1>3. QED
  BY <1>1, <1>2 DEF TaskInv

\* The configuration lock is taken.
LEMMA WriteLockKeeps ==
  ASSUME TaskInv, NEW t \in Tasks, WriteLock(t)
  PROVE  TaskInv'
PROOF
<1>1. "write lock" \in Entry /\ At(t, "write lock") /\ write = None /\ write' = t
  BY DEF WriteLock, Entry
<1>2. life # t /\ Outside(t) /\ task[t].todo # <<>> /\ task[t].op \in Ops
  BY <1>1, Waits
<1> DEFINE s == task[t].todo
<1>3. s \in Seq(Steps) /\ Head(s) = "write lock"
  BY <1>1, <1>2 DEF Outside, At
<1>4. Tail(s) # <<>> /\ Head(Tail(s)) = "lock" /\ EntersBoth(t, Tail(Tail(s)))
  <2>1. s \notin {<<>>, <<"end">>, <<"apply config", "end">>}
    <3>1. Head(<<"end">>) = "end" /\ Head(<<"apply config", "end">>) = "apply config"
      OBVIOUS
    <3>2. QED
      BY <1>2, <1>3, <3>1
  <2>2. QED
    BY <1>2, <1>3, <2>1 DEF Outside, At
<1>5. /\ TaskShape' /\ task'[t].todo = Tail(s) /\ task'[t].op = task[t].op
      /\ \A u \in Tasks \ {t} : task'[u] = task[u]
  <2>1. TaskShape
    BY DEF TaskInv
  <2>2. task' = [task EXCEPT ![t].todo = Tail(s), ![t].old = want]
    BY DEF WriteLock
  <2>3. QED
    BY <2>1, <2>2, UpdatedTwo DEF Moves
<1>6. task[t].op = "proxy off" => want' = FALSE
  BY DEF WriteLock
<1>7. Enters(t, Tail(task[t].todo))'
  BY <1>1, <1>4, <1>5, <1>6 DEF Enters, EntersBoth
<1>8. Outside(t)'
  <2>1. Tail(s) \in Seq(Steps)
    BY <1>2, <1>3, HeadTailProperties
  <2>2. QED
    BY <1>4, <1>5, <1>7, <2>1 DEF Outside, At
<1>9. \A u \in Tasks : write # u
  BY <1>1, IdentityAssumption
<1>10. life' = life /\ UNCHANGED <<mode, exit, guard, owned>>
  BY DEF WriteLock, core, sidecar
<1>11. QED
  BY <1>1, <1>2, <1>5, <1>8, <1>9, <1>10, OtherMoves

\* The lifecycle lock is taken.
LEMMA LockKeeps ==
  ASSUME TaskInv, NEW t \in Tasks, Lock(t)
  PROVE  TaskInv'
PROOF
<1>1. "lock" \in Entry /\ At(t, "lock") /\ life = None /\ life' = t /\ UNCHANGED <<write, want>>
  BY DEF Lock, Entry, os
<1>2. life # t /\ Outside(t) /\ task[t].todo # <<>> /\ task[t].op \in Ops
  BY <1>1, Waits
<1> DEFINE s == task[t].todo
           r == Tail(s)
<1>3. s \in Seq(Steps) /\ Head(s) = "lock"
  BY <1>1, <1>2 DEF Outside, At
<1>4. Enters(t, r)
  <2>1. s \notin {<<>>, <<"end">>, <<"apply config", "end">>}
    <3>1. Head(<<"end">>) = "end" /\ Head(<<"apply config", "end">>) = "apply config"
      OBVIOUS
    <3>2. QED
      BY <1>2, <1>3, <3>1
  <2>2. QED
    BY <1>2, <1>3, <2>1 DEF Outside, At
<1>5. task' = [task EXCEPT ![t].todo = Skip(r)]
  <2>1. r \in Seq(Steps)
    BY <1>4 DEF Enters, Sound
  <2>2. <<>> \o r = r
    BY <2>1, ConcatEmptySeq
  <2>3. QED
    BY <2>2 DEF Lock, Done, Then
<1>6. Moves(t) /\ task'[t].todo = Skip(r)
  BY <1>5, Updated DEF TaskInv
<1>7. /\ Sound(Skip(r))
      /\ Skip(r) # <<>> /\ Skip(r)[1] \in Needs => r # <<>> /\ Skip(r) = r
  BY <1>4, SkipSound DEF Enters
<1>8. r # <<>> /\ r[1] \in Needs => r[1] \in Able(t)'
  BY <1>1, <1>4, <1>6 DEF Enters, Able, Cond, Steps, Moves
<1> HIDE DEF r
<1>9. Inside(t)'
  BY <1>6, <1>7, <1>8, InsideThen
<1>10. ASSUME NEW u \in Tasks \ {t}
       PROVE  /\ life' # u /\ Outside(u)'
              /\ task'[u].todo # <<>> => task'[u].op \in Ops
              /\ task'[u].todo # <<>> /\ task'[u].op \in ProxyOps => write' = u \/ At(u, "write lock")'
  <2>1. task'[u] = task[u] /\ life # u
    BY <1>1, <1>6, IdentityAssumption DEF Moves
  <2>2. Outside(u)
    BY <2>1 DEF TaskInv
  <2>3. Outside(u)'
    BY <1>1, <2>1, <2>2 DEF Outside, Enters, EntersBoth, At
  <2>4. QED
    BY <1>1, <2>1, <2>3 DEF TaskInv, At
<1>11. task'[t].op \in Ops /\ (task'[t].op \in ProxyOps => write' = t)
  <2>1. ~At(t, "write lock")
    BY <1>3 DEF At
  <2>2. QED
    BY <1>1, <1>2, <1>6, <2>1 DEF TaskInv, Moves
<1>12. QED
  BY <1>1, <1>6, <1>9, <1>10, <1>11 DEF TaskInv, Moves

\* An operation ends.
LEMMA EndKeeps ==
  ASSUME TaskInv, NEW t \in Tasks, End(t)
  PROVE  TaskInv'
PROOF
<1>1. task[t].todo # <<>> /\ ~At(t, "write lock")
  BY DEF End, At
<1>2. /\ TaskShape' /\ task'[t].todo = <<>>
      /\ \A u \in Tasks \ {t} : task'[u] = task[u]
  BY DEF End, TaskInv, TaskShape, NoTask
<1>3. \A u \in Tasks \ {t} : /\ life' = u <=> life = u
                             /\ write' = u <=> write = u
  <2>1. /\ write' = IF write = t THEN None ELSE write
        /\ life' = IF life = t THEN None ELSE life
    BY DEF End, Release
  <2>2. None \notin Tasks
    BY IdentityAssumption
  <2>3. QED
    BY <2>1, <2>2
<1>4. life' # t
  BY IdentityAssumption DEF End, Release
<1>5. \A u \in Tasks \ {t} : write = u => want' = want
  <2>1. task[t].op \in {"proxy on", "proxy off"} => write = t
    BY <1>1 DEF TaskInv, ProxyOps
  <2>2. QED
    BY <2>1 DEF End
<1>6. UNCHANGED <<mode, exit, guard, owned>>
  BY DEF End, core, sidecar
<1>7. ASSUME NEW u \in Tasks \ {t}
      PROVE  /\ life' = u => Inside(u)'
             /\ life' # u => Outside(u)'
             /\ life' = u \/ task'[u].todo # <<>> => task'[u].op \in Ops
             /\ task'[u].todo # <<>> /\ task'[u].op \in ProxyOps => write' = u \/ At(u, "write lock")'
  <2>1. task'[u] = task[u] /\ (write = u => write' = u /\ want' = want) /\ (life' = u <=> life = u) /\ (write' = u => write = u)
    BY <1>2, <1>3, <1>5
  <2>2. life' = u => Inside(u)'
    BY <1>6, <2>1 DEF TaskInv, Inside, Able, Cond
  <2>3. life' # u => Outside(u)'
    BY <2>1 DEF TaskInv, Outside, Enters, EntersBoth, At
  <2>4. /\ life' = u \/ task'[u].todo # <<>> => task'[u].op \in Ops
        /\ task'[u].todo # <<>> /\ task'[u].op \in ProxyOps => write' = u \/ At(u, "write lock")'
    BY <2>1 DEF TaskInv, At
  <2>5. QED
    BY <2>2, <2>3, <2>4
<1>8. Outside(t)'
  BY <1>2, EmptySeq DEF Outside
<1>9. QED
  BY <1>2, <1>4, <1>7, <1>8 DEF TaskInv

\* The first step and the rest of joined lists are those of the first one.
LEMMA TailOfJoin ==
  ASSUME NEW S, NEW u \in Seq(S), u # <<>>, NEW v \in Seq(S)
  PROVE  u \o v \in Seq(S) /\ u \o v # <<>> /\ Head(u \o v) = Head(u) /\ Tail(u \o v) = Tail(u) \o v
         /\ Tail(u) \in Seq(S)
PROOF
<1>1. u \o v \in Seq(S) /\ Len(u \o v) = Len(u) + Len(v) /\ Len(u) \in Nat /\ Len(v) \in Nat /\ Len(u) >= 1
  BY ConcatProperties, HasFirst
<1>2. u \o v # <<>>
  BY <1>1, HasFirst
<1>3. Tail(u) \in Seq(S) /\ Len(Tail(u)) = Len(u) - 1
  BY HeadTailProperties
<1>4. Tail(u \o v) \in Seq(S) /\ Len(Tail(u \o v)) = Len(u) + Len(v) - 1
  BY <1>1, <1>2, HeadTailProperties
<1>5. Tail(u) \o v \in Seq(S) /\ Len(Tail(u) \o v) = Len(u) + Len(v) - 1
  BY <1>1, <1>3, ConcatProperties
<1>6. Head(u \o v) = Head(u)
  BY <1>1, <1>2, ConcatProperties
<1>7. ASSUME NEW i \in 1 .. Len(u) + Len(v) - 1 PROVE Tail(u \o v)[i] = (Tail(u) \o v)[i]
  <2>1. i + 1 \in 1 .. Len(u) + Len(v) /\ i \in 1 .. Len(Tail(u)) + Len(v) /\ i \in Nat
    BY <1>1, <1>3
  <2>2. Tail(u \o v)[i] = (u \o v)[i + 1]
    BY <1>1, <1>2, <1>4, HeadTailProperties
  <2>3. (u \o v)[i + 1] = IF i + 1 <= Len(u) THEN u[i + 1] ELSE v[(i + 1) - Len(u)]
    BY <2>1, ConcatProperties
  <2>4. (Tail(u) \o v)[i] = IF i <= Len(Tail(u)) THEN Tail(u)[i] ELSE v[i - Len(Tail(u))]
    BY <1>3, <2>1, ConcatProperties
  <2>5. CASE i + 1 <= Len(u)
    <3>1. i \in 1 .. Len(Tail(u)) /\ i <= Len(Tail(u))
      BY <1>1, <1>3, <2>1, <2>5
    <3>2. Tail(u)[i] = u[i + 1]
      BY <3>1, HeadTailProperties
    <3>3. QED
      BY <2>2, <2>3, <2>4, <2>5, <3>1, <3>2
  <2>6. CASE ~(i + 1 <= Len(u))
    <3>1. ~(i <= Len(Tail(u))) /\ (i + 1) - Len(u) = i - Len(Tail(u))
      BY <1>1, <1>3, <2>1, <2>6
    <3>2. QED
      BY <2>2, <2>3, <2>4, <2>6, <3>1
  <2>7. QED
    BY <2>5, <2>6
<1>8. QED
  BY <1>1, <1>2, <1>3, <1>4, <1>5, <1>6, <1>7, SeqEqual

\* What an operation is given to do, with the lock it takes first.
Takes(s, a) ==
  /\ s \in Seq(Steps) /\ s # <<>> /\ Head(s) = "lock"
  /\ Sound(Tail(s)) /\ Tail(s) # <<>> /\ Tail(s)[1] = a

\* The same for both locks.
TakesBoth(s, a) ==
  /\ s \in Seq(Steps) /\ s # <<>> /\ Head(s) = "write lock"
  /\ Tail(s) # <<>> /\ Head(Tail(s)) = "lock"
  /\ Sound(Tail(Tail(s))) /\ Tail(Tail(s)) # <<>> /\ Tail(Tail(s))[1] = a

\* List s begins with step h, and t is the rest.
Begins(s, h, t) == s \in Seq(Steps) /\ s # <<>> /\ Head(s) = h /\ Tail(s) = t /\ t \in Seq(Steps)

\* It still does with another list behind it.
LEMMA BeginsJoined ==
  ASSUME NEW s, NEW h, NEW t, Begins(s, h, t), NEW x, x \in Seq(Steps)
  PROVE  Begins(s \o x, h, t \o x)
PROOF
<1>1. /\ s \o x \in Seq(Steps) /\ s \o x # <<>> /\ Head(s \o x) = Head(s)
      /\ Tail(s \o x) = Tail(s) \o x
  BY TailOfJoin DEF Begins
<1>2. t \o x \in Seq(Steps)
  BY ConcatProperties DEF Begins
<1>3. QED
  BY <1>1, <1>2 DEF Begins

\* An operation that begins with the lock takes it first.
LEMMA TakesLock ==
  ASSUME NEW s, NEW t, Begins(s, "lock", t), NEW a, NEW z, Chunk(t, a, z)
  PROVE  Takes(s, a)
PROOF
  BY DEF Begins, Takes, Chunk, Piece

\* One that begins with both takes both.
LEMMA TakesLocks ==
  ASSUME NEW s, NEW r, NEW t, Begins(s, "write lock", r), Begins(r, "lock", t), NEW a, NEW z, Chunk(t, a, z)
  PROVE  TakesBoth(s, a)
PROOF
  BY DEF Begins, TakesBoth, Chunk, Piece

\* A list of one step and another.
LEMMA BeginsOne ==
  ASSUME NEW a \in Steps, NEW x, x \in Seq(Steps)
  PROVE  Begins(<<a>> \o x, a, x)
PROOF
  BY DEF Begins

\* A list of two steps and another.
LEMMA BeginsTwo ==
  ASSUME NEW a \in Steps, NEW b \in Steps, NEW x, x \in Seq(Steps)
  PROVE  Begins(<<a, b>> \o x, a, <<b>> \o x)
PROOF
  BY DEF Begins

\* A list of three steps and another.
LEMMA BeginsThree ==
  ASSUME NEW a \in Steps, NEW b \in Steps, NEW c \in Steps, NEW x, x \in Seq(Steps)
  PROVE  Begins(<<a, b, c>> \o x, a, <<b, c>> \o x)
PROOF
  BY DEF Begins

\* A list of four steps and another.
LEMMA BeginsFour ==
  ASSUME NEW a \in Steps, NEW b \in Steps, NEW c \in Steps, NEW d \in Steps, NEW x, x \in Seq(Steps)
  PROVE  Begins(<<a, b, c, d>> \o x, a, <<b, c, d>> \o x)
PROOF
  BY DEF Begins

\* A list of five steps and another.
LEMMA BeginsFive ==
  ASSUME NEW a \in Steps, NEW b \in Steps, NEW c \in Steps, NEW d \in Steps, NEW e \in Steps, NEW x, x \in Seq(Steps)
  PROVE  Begins(<<a, b, c, d, e>> \o x, a, <<b, c, d, e>> \o x)
PROOF
  BY DEF Begins

\* A list of six steps and another.
LEMMA BeginsSix ==
  ASSUME NEW a \in Steps, NEW b \in Steps, NEW c \in Steps, NEW d \in Steps, NEW e \in Steps, NEW f \in Steps, NEW x, x \in Seq(Steps)
  PROVE  Begins(<<a, b, c, d, e, f>> \o x, a, <<b, c, d, e, f>> \o x)
PROOF
  BY DEF Begins

\* The list of "start".
LEMMA StartPlan == Takes(<<"lock", "start", "apply if ready">> \o <<"end">>, "start")
PROOF
<1>1. "lock" \in Steps /\ "start" \in Steps /\ "apply if ready" \in Steps
  BY DEF Steps
<1>2. <<"end">> \in Seq(Steps)
  BY Parts, ProxyPiece DEF Chunk, Piece, Sound
<1>3. Chunk(<<"start", "apply if ready">> \o <<"end">>, "start", "end")
  BY Lists
<1>4. Begins(<<"lock", "start", "apply if ready">> \o <<"end">>, "lock", <<"start", "apply if ready">> \o <<"end">>)
  BY <1>1, <1>2, BeginsThree
<1>5. QED
  BY <1>3, <1>4, TakesLock

\* The list of "stop".
LEMMA StopsPlan == Takes(<<"lock", "stop">> \o <<"end">>, "stop")
PROOF
<1>1. "lock" \in Steps /\ "stop" \in Steps
  BY DEF Steps
<1>2. <<"end">> \in Seq(Steps)
  BY Parts, ProxyPiece DEF Chunk, Piece, Sound
<1>3. Chunk(<<"stop">> \o <<"end">>, "stop", "end")
  BY Lists
<1>4. Begins(<<"lock", "stop">> \o <<"end">>, "lock", <<"stop">> \o <<"end">>)
  BY <1>1, <1>2, BeginsTwo
<1>5. QED
  BY <1>3, <1>4, TakesLock

\* The list of restart_core.
LEMMA RestartPlan == Takes(<<"lock", "stop for restart", "start", "must run">> \o ApplyProxy \o <<"end">>, "stop for restart")
PROOF
<1>1. "lock" \in Steps /\ "stop for restart" \in Steps /\ "start" \in Steps /\ "must run" \in Steps
  BY DEF Steps
<1>2. ApplyProxy \in Seq(Steps) /\ <<"end">> \in Seq(Steps)
  BY Parts, ProxyPiece DEF Chunk, Piece, Sound
<1>3. Chunk(<<"stop for restart", "start", "must run">> \o ApplyProxy \o <<"end">>, "stop for restart", "end")
  BY Lists
<1>4. Begins(<<"lock", "stop for restart", "start", "must run">> \o ApplyProxy, "lock", <<"stop for restart", "start", "must run">> \o ApplyProxy)
  BY <1>1, <1>2, BeginsFour
<1>5. Begins(<<"lock", "stop for restart", "start", "must run">> \o ApplyProxy \o <<"end">>, "lock", <<"stop for restart", "start", "must run">> \o ApplyProxy \o <<"end">>)
  BY <1>2, <1>4, BeginsJoined
<1>6. QED
  BY <1>3, <1>5, TakesLock

\* The list of "sidecar".
LEMMA SidecarPlan == TakesBoth(<<"write lock", "lock", "allow", "stop guard", "start", "must sidecar">> \o ApplyProxy \o <<"catch rollback">> \o <<"end">>, "allow")
PROOF
<1>1. "write lock" \in Steps /\ "lock" \in Steps /\ "allow" \in Steps /\ "stop guard" \in Steps /\ "start" \in Steps /\ "must sidecar" \in Steps
  BY DEF Steps
<1>2. ApplyProxy \in Seq(Steps) /\ <<"catch rollback">> \in Seq(Steps) /\ <<"end">> \in Seq(Steps)
  BY Parts, ProxyPiece DEF Chunk, Piece, Sound
<1>3. Chunk(<<"allow", "stop guard", "start", "must sidecar">> \o ApplyProxy \o <<"catch rollback">> \o <<"end">>, "allow", "end")
  BY Lists
<1>4. Begins(<<"write lock", "lock", "allow", "stop guard", "start", "must sidecar">> \o ApplyProxy, "write lock", <<"lock", "allow", "stop guard", "start", "must sidecar">> \o ApplyProxy)
  BY <1>1, <1>2, BeginsSix
<1>5. Begins(<<"write lock", "lock", "allow", "stop guard", "start", "must sidecar">> \o ApplyProxy \o <<"catch rollback">>, "write lock", <<"lock", "allow", "stop guard", "start", "must sidecar">> \o ApplyProxy \o <<"catch rollback">>)
  BY <1>2, <1>4, BeginsJoined
<1>6. Begins(<<"write lock", "lock", "allow", "stop guard", "start", "must sidecar">> \o ApplyProxy \o <<"catch rollback">> \o <<"end">>, "write lock", <<"lock", "allow", "stop guard", "start", "must sidecar">> \o ApplyProxy \o <<"catch rollback">> \o <<"end">>)
  BY <1>2, <1>5, BeginsJoined
<1>7. Begins(<<"lock", "allow", "stop guard", "start", "must sidecar">> \o ApplyProxy, "lock", <<"allow", "stop guard", "start", "must sidecar">> \o ApplyProxy)
  BY <1>1, <1>2, BeginsFive
<1>8. Begins(<<"lock", "allow", "stop guard", "start", "must sidecar">> \o ApplyProxy \o <<"catch rollback">>, "lock", <<"allow", "stop guard", "start", "must sidecar">> \o ApplyProxy \o <<"catch rollback">>)
  BY <1>2, <1>7, BeginsJoined
<1>9. Begins(<<"lock", "allow", "stop guard", "start", "must sidecar">> \o ApplyProxy \o <<"catch rollback">> \o <<"end">>, "lock", <<"allow", "stop guard", "start", "must sidecar">> \o ApplyProxy \o <<"catch rollback">> \o <<"end">>)
  BY <1>2, <1>8, BeginsJoined
<1>10. QED
  BY <1>3, <1>6, <1>9, TakesLocks

\* The list of "uninstall".
LEMMA UninstallPlan == TakesBoth(<<"write lock", "lock", "stop", "uninstall and start">> \o <<"end">>, "stop")
PROOF
<1>1. "write lock" \in Steps /\ "lock" \in Steps /\ "stop" \in Steps /\ "uninstall and start" \in Steps
  BY DEF Steps
<1>2. <<"end">> \in Seq(Steps)
  BY Parts, ProxyPiece DEF Chunk, Piece, Sound
<1>3. Chunk(<<"stop", "uninstall and start">> \o <<"end">>, "stop", "end")
  BY Lists
<1>4. Begins(<<"write lock", "lock", "stop", "uninstall and start">> \o <<"end">>, "write lock", <<"lock", "stop", "uninstall and start">> \o <<"end">>)
  BY <1>1, <1>2, BeginsFour
<1>5. Begins(<<"lock", "stop", "uninstall and start">> \o <<"end">>, "lock", <<"stop", "uninstall and start">> \o <<"end">>)
  BY <1>1, <1>2, BeginsThree
<1>6. QED
  BY <1>3, <1>4, <1>5, TakesLocks

\* The list of "handoff".
LEMMA HandoffPlan == Takes(<<"lock", "still sidecar", "clear">> \o Terminate \o <<"hand over">> \o <<"end">>, "still sidecar")
PROOF
<1>1. "lock" \in Steps /\ "still sidecar" \in Steps /\ "clear" \in Steps
  BY DEF Steps
<1>2. Terminate \in Seq(Steps) /\ <<"hand over">> \in Seq(Steps) /\ <<"end">> \in Seq(Steps)
  BY Parts, ProxyPiece DEF Chunk, Piece, Sound
<1>3. Chunk(<<"still sidecar", "clear">> \o Terminate \o <<"hand over">> \o <<"end">>, "still sidecar", "end")
  BY Lists
<1>4. Begins(<<"lock", "still sidecar", "clear">> \o Terminate, "lock", <<"still sidecar", "clear">> \o Terminate)
  BY <1>1, <1>2, BeginsThree
<1>5. Begins(<<"lock", "still sidecar", "clear">> \o Terminate \o <<"hand over">>, "lock", <<"still sidecar", "clear">> \o Terminate \o <<"hand over">>)
  BY <1>2, <1>4, BeginsJoined
<1>6. Begins(<<"lock", "still sidecar", "clear">> \o Terminate \o <<"hand over">> \o <<"end">>, "lock", <<"still sidecar", "clear">> \o Terminate \o <<"hand over">> \o <<"end">>)
  BY <1>2, <1>5, BeginsJoined
<1>7. QED
  BY <1>3, <1>6, TakesLock

\* The list of "proxy on".
LEMMA OnPlan == TakesBoth(<<"write lock", "lock">> \o ApplyProxy \o <<"end">>, "capture")
PROOF
<1>1. "write lock" \in Steps /\ "lock" \in Steps
  BY DEF Steps
<1>2. ApplyProxy \in Seq(Steps) /\ <<"end">> \in Seq(Steps)
  BY Parts, ProxyPiece DEF Chunk, Piece, Sound
<1>3. Chunk(ApplyProxy \o <<"end">>, "capture", "end")
  BY Lists
<1>4. Begins(<<"write lock", "lock">> \o ApplyProxy, "write lock", <<"lock">> \o ApplyProxy)
  BY <1>1, <1>2, BeginsTwo
<1>5. Begins(<<"write lock", "lock">> \o ApplyProxy \o <<"end">>, "write lock", <<"lock">> \o ApplyProxy \o <<"end">>)
  BY <1>2, <1>4, BeginsJoined
<1>6. Begins(<<"lock">> \o ApplyProxy, "lock", ApplyProxy)
  BY <1>1, <1>2, BeginsOne
<1>7. Begins(<<"lock">> \o ApplyProxy \o <<"end">>, "lock", ApplyProxy \o <<"end">>)
  BY <1>2, <1>6, BeginsJoined
<1>8. QED
  BY <1>3, <1>5, <1>7, TakesLocks

\* The list of "proxy off".
LEMMA OffPlan == TakesBoth(<<"write lock", "lock", "apply", "refresh">> \o <<"end">>, "apply")
PROOF
<1>1. "write lock" \in Steps /\ "lock" \in Steps /\ "apply" \in Steps /\ "refresh" \in Steps
  BY DEF Steps
<1>2. <<"end">> \in Seq(Steps)
  BY Parts, ProxyPiece DEF Chunk, Piece, Sound
<1>3. Chunk(<<"apply", "refresh">> \o <<"end">>, "apply", "end")
  BY Lists
<1>4. Begins(<<"write lock", "lock", "apply", "refresh">> \o <<"end">>, "write lock", <<"lock", "apply", "refresh">> \o <<"end">>)
  BY <1>1, <1>2, BeginsFour
<1>5. Begins(<<"lock", "apply", "refresh">> \o <<"end">>, "lock", <<"apply", "refresh">> \o <<"end">>)
  BY <1>1, <1>2, BeginsThree
<1>6. QED
  BY <1>3, <1>4, <1>5, TakesLocks

\* The list of a staged configuration.
LEMMA StagePlan == Takes(<<"lock", "still service", "stage">> \o <<"end">>, "still service")
PROOF
<1>1. "lock" \in Steps /\ "still service" \in Steps /\ "stage" \in Steps
  BY DEF Steps
<1>2. <<"end">> \in Seq(Steps)
  BY Parts, ProxyPiece DEF Chunk, Piece, Sound
<1>3. Chunk(<<"still service", "stage">> \o <<"end">>, "still service", "end")
  BY Lists
<1>4. Begins(<<"lock", "still service", "stage">> \o <<"end">>, "lock", <<"still service", "stage">> \o <<"end">>)
  BY <1>1, <1>2, BeginsThree
<1>5. QED
  BY <1>3, <1>4, TakesLock

\* The rest of two steps.
LEMMA RestOfTwo ==
  ASSUME NEW s, NEW a, NEW b, s = <<a, b>>
  PROVE  Tail(s) = <<b>>
PROOF
  OBVIOUS

\* Two steps, joined.
LEMMA TwoJoined ==
  ASSUME NEW S, NEW a \in S, NEW b \in S
  PROVE  <<a>> \o <<b>> = <<a, b>> /\ <<a, b>> \in Seq(S)
PROOF
<1>1. /\ <<a, b>> \in Seq(S) /\ Len(<<a, b>>) = 2 /\ <<a, b>>[1] = a /\ <<a, b>>[2] = b
      /\ <<a>> \in Seq(S) /\ <<b>> \in Seq(S) /\ Len(<<a>>) = 1 /\ Len(<<b>>) = 1 /\ <<a>>[1] = a /\ <<b>>[1] = b
  OBVIOUS
<1>2. /\ <<a>> \o <<b>> \in Seq(S) /\ Len(<<a>> \o <<b>>) = 2
      /\ (<<a>> \o <<b>>)[1] = a /\ (<<a>> \o <<b>>)[2] = b
  BY <1>1, ConcatProperties
<1>3. \A i \in 1 .. 2 : i = 1 \/ i = 2
  OBVIOUS
<1>4. \A i \in 1 .. 2 : (<<a>> \o <<b>>)[i] = <<a, b>>[i]
  BY <1>1, <1>2, <1>3
<1>5. QED
  BY <1>1, <1>2, <1>4, SeqEqual

\* The configuration is applied: under the lock, by a reload or by a restart.
LEMMA ApplyConfigKeeps ==
  ASSUME TaskInv, NEW t \in Tasks, ApplyConfig(t)
  PROVE  TaskInv'
PROOF
<1>1. "apply config" \in Entry /\ At(t, "apply config")
  BY DEF ApplyConfig, Entry
<1>2. life # t /\ Outside(t) /\ task[t].todo # <<>> /\ task[t].op \in Ops /\ TaskShape
  BY <1>1, Waits DEF TaskInv
<1>3. Tail(task[t].todo) = <<"end">> /\ <<"end">> \in Seq(Steps)
  <2>1. Head(<<"end">>) = "end"
    OBVIOUS
  <2>2. task[t].todo = <<"apply config", "end">>
    BY <1>1, <1>2, <2>1 DEF Outside, At
  <2>3. <<"end">> \in Seq(Steps)
    BY Parts DEF Chunk, Piece, Sound
  <2>4. QED
    BY <2>2, <2>3, RestOfTwo
<1>4. task[t].op \in ProxyOps => write = t
  BY <1>1, <1>2 DEF TaskInv, At
<1>5. UNCHANGED <<life, mode, exit, guard, owned, write, want>>
  BY DEF ApplyConfig, locks, core, sidecar, os
<1>6. ASSUME Moves(t), Outside(t)' PROVE TaskInv'
  BY <1>2, <1>4, <1>5, <1>6, OtherMoves DEF Moves
<1>7. ASSUME NEW u, NEW a, Then(t, u), Takes(u \o <<"end">>, a), a \notin Needs PROVE TaskInv'
  <2>1. Skip(u \o <<"end">>) = u \o <<"end">>
    BY <1>7, CatchSet DEF Skip, Takes
  <2>2. task' = [task EXCEPT ![t].todo = u \o <<"end">>]
    BY <1>3, <1>7, <2>1 DEF Then
  <2>3. Moves(t) /\ task'[t].todo = u \o <<"end">>
    BY <1>2, <2>2, Updated
  <2>4. Outside(t)'
    BY <1>7, <2>3 DEF Outside, At, Enters, Takes
  <2>5. QED
    BY <1>6, <2>3, <2>4
<1>8. CASE Then(t, <<"lock", "still service", "stage">>)
  BY <1>7, <1>8, StagePlan DEF Needs
<1>9. CASE Then(t, Plan("restart"))
  <2>1. Plan("restart") = <<"lock", "stop for restart", "start", "must run">> \o ApplyProxy
    BY DEF Plan
  <2>2. QED
    BY <1>7, <1>9, <2>1, RestartPlan DEF Needs
<1>10. CASE Done(t)
  <2>1. <<>> \o <<"end">> = <<"end">>
    BY <1>3, ConcatEmptySeq
  <2>2. Skip(<<"end">>) = <<"end">>
    <3>1. Head(<<"end">>) = "end"
      OBVIOUS
    <3>2. QED
      BY <3>1, CatchSet DEF Skip
  <2>3. task' = [task EXCEPT ![t].todo = <<"end">>]
    BY <1>3, <1>10, <2>1, <2>2 DEF Done, Then
  <2>4. Moves(t) /\ task'[t].todo = <<"end">>
    BY <1>2, <2>3, Updated
  <2>5. Outside(t)'
    BY <1>3, <2>4 DEF Outside
  <2>6. QED
    BY <1>6, <2>4, <2>5
<1>11. QED
  BY <1>8, <1>9, <1>10 DEF ApplyConfig

\* A task that was just given its list.
LEMMA GivenList ==
  ASSUME NEW x, NEW y
  PROVE  [NoTask EXCEPT !.todo = x, !.op = y] = [todo |-> x, op |-> y, exp |-> None, old |-> FALSE]
PROOF
<1> DEFINE m == [NoTask EXCEPT !.todo = x, !.op = y]
<1>1. m = [f \in {"todo", "op", "exp", "old"} |-> m[f]]
  BY DEF NoTask
<1>2. m.todo = x /\ m.op = y /\ m.exp = None /\ m.old = FALSE
  BY DEF NoTask
<1> HIDE DEF m
<1>3. m = [todo |-> x, op |-> y, exp |-> None, old |-> FALSE]
  BY <1>1, <1>2
<1>4. QED
  BY <1>3 DEF m

\* An operation is called.
LEMMA CallKeeps ==
  ASSUME TaskInv, NEW t \in Tasks, NEW op \in Ops, Call(t, op)
  PROVE  TaskInv'
PROOF
<1> DEFINE s == Plan(op) \o <<"end">>
<1>1. task[t] = NoTask /\ TaskShape
  BY DEF Call, TaskInv
<1>2. life # t
  <2>1. task[t].op = None
    BY <1>1 DEF NoTask
  <2>2. None \notin Ops
    BY IdentityAssumption
  <2>3. QED
    BY <2>1, <2>2 DEF TaskInv
<1>3. /\ TaskShape' /\ task'[t].todo = s /\ task'[t].op = op
      /\ \A u \in Tasks \ {t} : task'[u] = task[u]
  <2>1. task' = [task EXCEPT ![t] = [todo |-> s, op |-> op, exp |-> None, old |-> FALSE]]
    BY GivenList DEF Call
  <2>2. QED
    BY <1>1, <2>1 DEF TaskShape
<1>4. UNCHANGED <<life, mode, exit, guard, owned, write, want>>
  BY DEF Call, core, sidecar, os
<1>5. op \in {"start", "stop", "restart", "sidecar", "uninstall", "handoff", "config", "proxy on", "proxy off"}
  BY OpsAssumption
<1>6. CASE \E a : Takes(s, a) /\ a \notin Needs /\ op \notin ProxyOps
  <2>1. Outside(t)'
    BY <1>3, <1>6 DEF Outside, At, Enters, Takes
  <2>2. QED
    BY <1>2, <1>3, <1>4, <1>6, <2>1, OtherMoves
<1>7. CASE \E a : /\ TakesBoth(s, a)
                  /\ a \in Needs => (a = "allow" /\ op \notin ProxyOps) \/ (a = "apply" /\ op = "proxy off")
  <2>1. Outside(t)'
    BY <1>3, <1>7 DEF Outside, At, EntersBoth, TakesBoth
  <2>2. At(t, "write lock")'
    BY <1>3, <1>7 DEF At, TakesBoth
  <2>3. QED
    BY <1>2, <1>3, <1>4, <2>1, <2>2, OtherMoves
<1>8. CASE op = "start"
  <2>1. Takes(s, "start")
    BY <1>8, StartPlan DEF Plan
  <2>2. "start" \notin Needs /\ op \notin ProxyOps
    BY <1>8 DEF Needs, ProxyOps
  <2>3. QED
    BY <2>1, <2>2, <1>6
<1>9. CASE op = "stop"
  <2>1. Takes(s, "stop")
    BY <1>9, StopsPlan DEF Plan
  <2>2. "stop" \notin Needs /\ op \notin ProxyOps
    BY <1>9 DEF Needs, ProxyOps
  <2>3. QED
    BY <2>1, <2>2, <1>6
<1>10. CASE op = "restart"
  <2>1. Takes(s, "stop for restart")
    BY <1>10, RestartPlan DEF Plan
  <2>2. "stop for restart" \notin Needs /\ op \notin ProxyOps
    BY <1>10 DEF Needs, ProxyOps
  <2>3. QED
    BY <2>1, <2>2, <1>6
<1>11. CASE op = "sidecar"
  <2>1. TakesBoth(s, "allow")
    BY <1>11, SidecarPlan DEF Plan
  <2>2. "allow" \in Needs => ("allow" = "allow" /\ op \notin ProxyOps) \/ ("allow" = "apply" /\ op = "proxy off")
    BY <1>11 DEF Needs, ProxyOps
  <2>3. QED
    BY <2>1, <2>2, <1>7
<1>12. CASE op = "uninstall"
  <2>1. TakesBoth(s, "stop")
    BY <1>12, UninstallPlan DEF Plan
  <2>2. "stop" \in Needs => ("stop" = "allow" /\ op \notin ProxyOps) \/ ("stop" = "apply" /\ op = "proxy off")
    BY <1>12 DEF Needs, ProxyOps
  <2>3. QED
    BY <2>1, <2>2, <1>7
<1>13. CASE op = "handoff"
  <2>1. Takes(s, "still sidecar")
    BY <1>13, HandoffPlan DEF Plan
  <2>2. "still sidecar" \notin Needs /\ op \notin ProxyOps
    BY <1>13 DEF Needs, ProxyOps
  <2>3. QED
    BY <2>1, <2>2, <1>6
<1>14. CASE op = "proxy on"
  <2>1. TakesBoth(s, "capture")
    BY <1>14, OnPlan DEF Plan
  <2>2. "capture" \in Needs => ("capture" = "allow" /\ op \notin ProxyOps) \/ ("capture" = "apply" /\ op = "proxy off")
    BY <1>14 DEF Needs, ProxyOps
  <2>3. QED
    BY <2>1, <2>2, <1>7
<1>15. CASE op = "proxy off"
  <2>1. TakesBoth(s, "apply")
    BY <1>15, OffPlan DEF Plan
  <2>2. "apply" \in Needs => ("apply" = "allow" /\ op \notin ProxyOps) \/ ("apply" = "apply" /\ op = "proxy off")
    BY <1>15 DEF Needs, ProxyOps
  <2>3. QED
    BY <2>1, <2>2, <1>7
<1>16. CASE op = "config"
  <2>1. "apply config" \in Steps /\ "end" \in Steps
    BY DEF Steps
  <2>2. s = <<"apply config", "end">> /\ s \in Seq(Steps)
    <3>1. Plan(op) = <<"apply config">>
      BY <1>16 DEF Plan
    <3>2. <<"apply config">> \o <<"end">> = <<"apply config", "end">> /\ <<"apply config", "end">> \in Seq(Steps)
      BY <2>1, TwoJoined
    <3>3. QED
      BY <3>1, <3>2
  <2>3. Outside(t)'
    BY <1>3, <2>2 DEF Outside
  <2>4. op \notin ProxyOps
    BY <1>16 DEF ProxyOps
  <2>5. QED
    BY <1>2, <1>3, <1>4, <2>3, <2>4, OtherMoves
<1>17. QED
  BY <1>5, <1>8, <1>9, <1>10, <1>11, <1>12, <1>13, <1>14, <1>15, <1>16

(***************************************************************************)
(* The other parts of the state                                            *)
(***************************************************************************)

\* What a task's step keeps besides the lists.
Rest == ProxyInv /\ SidecarInv /\ WatchInv

\* A watcher is a generation and an observer.
LEMMA WatcherPair ==
  ASSUME NEW w \in Watchers
  PROVE  w[1] \in Gens /\ w[1] \in Nat /\ w[2] \in Observers /\ w = <<w[1], w[2]>>
PROOF
  BY BoundsAssumption DEF Watchers, Gens

\* The next generation.
LEMMA NextGen ==
  ASSUME NEW g \in Gens
  PROVE  g \in Nat /\ (g < MaxGen => g + 1 \in Gens)
PROOF
  BY BoundsAssumption DEF Gens

\* The numbers of a watcher, one generation on.
LEMMA OlderWatcher ==
  ASSUME NEW w \in Watchers, NEW g \in Nat, WatcherOk(w), owner = g
  PROVE  /\ watch[w].pc # "none" => w[1] <= g + 1 /\ w[1] # g + 1
         /\ watch[w].pc \in {"claimed", "recovering"} => w[1] < g + 1 /\ w[1] + 1 # g + 1
PROOF
<1>1. w[1] \in Nat
  BY WatcherPair
<1>2. watch[w].pc # "none" => w[1] <= g
  BY DEF WatcherOk
<1>3. watch[w].pc \in {"claimed", "recovering"} => w[1] < g
  BY DEF WatcherOk
<1>4. QED
  BY <1>1, <1>2, <1>3

\* While a task holds the lock, no event task and no recovery does.
LEMMA HolderAlone ==
  ASSUME SidecarInv, WatchInv, NEW t \in Tasks, life = t
  PROVE  /\ \A p \in Pids : event[p].pc # "clearing"
         /\ \A w \in Watchers : watch[w].pc # "recovering"
PROOF
  BY IdentityAssumption DEF SidecarInv, WatchInv, WatcherOk

\* A task at a step under the lock holds it.
LEMMA HolderAt ==
  ASSUME CoreInv, NEW t \in Tasks, NEW h \in Steps \ (Entry \cup {"end"}), At(t, h)
  PROVE  /\ life = t /\ Cond(t, h)
         /\ \A p \in Pids : event[p].pc # "clearing"
         /\ \A w \in Watchers : watch[w].pc # "recovering"
PROOF
<1>1. life = t /\ Cond(t, h)
  BY Holds DEF CoreInv
<1>2. QED
  BY <1>1, HolderAlone DEF CoreInv

\* The proxy and its guard are left alone.
LEMMA ProxySame ==
  ASSUME ProxyInv, UNCHANGED <<guard, owned, mode>>
  PROVE  ProxyInv'
PROOF
  BY DEF ProxyInv

\* The sidecar processes are left alone.
LEMMA SidecarSame ==
  ASSUME SidecarInv, UNCHANGED <<child, exit, proc, event>>, \A p \in Pids : life = p => life' = p
  PROVE  SidecarInv'
PROOF
  BY DEF SidecarInv

\* A new generation is watched, whatever the core and its session are now.
LEMMA Renewed ==
  ASSUME WatchInv, owner < MaxGen, owner' = owner + 1, Monitored(owner'),
         \A w \in Watchers : watch[w].pc # "recovering"
  PROVE  WatchInv'
PROOF
<1> DEFINE m == <<owner', "monitor">>
<1>1. owner \in Nat /\ owner' \in Gens /\ owner \in Gens /\ owner' \in Nat
  BY NextGen DEF WatchInv
<1>2. m \in Watchers /\ m[1] = owner'
  BY <1>1, ObserversAssumption DEF Watchers
<1>3. watch' = [w \in Watchers |-> IF w = m THEN [pc |-> "watching", saw |-> session'] ELSE watch[w]]
  BY <1>2 DEF Monitored, WatchInv
<1> HIDE DEF m
<1>4. watch'[m] = [pc |-> "watching", saw |-> session']
  BY <1>2, <1>3
<1>5. watch' = [w \in Watchers |-> watch'[w]]
  BY <1>3
<1>6. ASSUME NEW w \in Watchers PROVE WatcherOk(w)' /\ watch'[w].pc # "recovering"
  <2>1. CASE w = m
    BY <1>1, <1>2, <1>4, <2>1 DEF WatcherOk
  <2>2. CASE w # m
    <3>1. watch'[w] = watch[w] /\ WatcherOk(w)
      BY <1>3, <2>2 DEF WatchInv
    <3>2. /\ watch[w].pc # "none" => w[1] <= owner' /\ w[1] # owner'
          /\ watch[w].pc \in {"claimed", "recovering"} => w[1] < owner' /\ w[1] + 1 # owner'
      BY <1>1, <3>1, OlderWatcher
    <3>3. QED
      BY <3>1, <3>2 DEF WatcherOk
  <2>3. QED
    BY <2>1, <2>2
<1>7. Watched'
  BY <1>4 DEF Watched, m
<1>8. QED
  BY <1>1, <1>5, <1>6, <1>7 DEF WatchInv

\* So are the watchers, by a step under the lock that is not the stop of the
\* Service core.
LEMMA WatchSame ==
  ASSUME CoreInv, NEW t \in Tasks, NEW h \in Steps \ (Entry \cup {"end", "service stops"}), At(t, h),
         UNCHANGED <<owner, watch, session, life>>, mode' = mode \/ mode' # "Service"
  PROVE  WatchInv'
PROOF
<1>1. life = t /\ \A w \in Watchers : watch[w].pc # "recovering"
  BY HolderAt
<1>2. ~At(t, "service stops")
  BY DEF At
<1>3. mode = "Service" => Watched
  BY <1>1, <1>2 DEF CoreInv, WatchInv
<1>4. Watched => Watched'
  BY DEF Watched
<1>5. ASSUME NEW w \in Watchers PROVE WatcherOk(w)'
  BY <1>1 DEF CoreInv, WatchInv, WatcherOk
<1>6. QED
  BY <1>3, <1>4, <1>5 DEF CoreInv, WatchInv

\* A step that only decides what comes next.
LEMMA ExpandRest ==
  ASSUME CoreInv, NEW t \in Tasks, Expand(t)
  PROVE  Rest'
PROOF
<1>1. PICK h \in {"raise", "hand over", "fall back", "uninstall and start", "rollback", "apply if ready"} : At(t, h)
  BY DEF Expand
<1>2. h \in Steps \ (Entry \cup {"end"})
  BY DEF Steps, Entry
<1>3. life = t /\ Cond(t, h)
  BY <1>1, <1>2, HolderAt
<1>4. (\A p \in Pids : event[p].pc # "clearing") /\ \A w \in Watchers : watch[w].pc # "recovering"
  BY <1>1, <1>2, HolderAt
<1>5. ProxyInv /\ SidecarInv /\ WatchInv
  BY DEF CoreInv
<1>6. ProxyInv'
  BY <1>5, ProxySame DEF Expand, locks, core, sidecar, service, os
<1>7. SidecarInv'
  BY <1>5, SidecarSame DEF Expand, locks, core, sidecar, service, os
<1>8. WatchInv'
  <2>1. h \in Steps \ (Entry \cup {"end", "service stops"})
    BY <1>2
  <2>2. QED
    BY <1>1, <2>1, WatchSame DEF Expand, locks, core, sidecar, service, os
<1>9. QED
  BY <1>6, <1>7, <1>8 DEF Rest

\* The Service could not start the core.
LEMMA ServiceFailedRest ==
  ASSUME CoreInv, NEW t \in Tasks, ServiceFailed(t)
  PROVE  Rest'
PROOF
<1>1. PICK h \in {"service failed"} : At(t, h)
  BY DEF ServiceFailed
<1>2. h \in Steps \ (Entry \cup {"end"})
  BY DEF Steps, Entry
<1>3. life = t /\ Cond(t, h)
  BY <1>1, <1>2, HolderAt
<1>4. (\A p \in Pids : event[p].pc # "clearing") /\ \A w \in Watchers : watch[w].pc # "recovering"
  BY <1>1, <1>2, HolderAt
<1>5. ProxyInv /\ SidecarInv /\ WatchInv
  BY DEF CoreInv
<1>6. ProxyInv'
  BY <1>5, ProxySame DEF ServiceFailed, locks, core, sidecar, service, os
<1>7. SidecarInv'
  BY <1>5, SidecarSame DEF ServiceFailed, locks, core, sidecar, service, os
<1>8. WatchInv'
  <2>1. h \in Steps \ (Entry \cup {"end", "service stops"})
    BY <1>2
  <2>2. QED
    BY <1>1, <2>1, WatchSame DEF ServiceFailed, locks, core, sidecar, service, os
<1>9. QED
  BY <1>6, <1>7, <1>8 DEF Rest

\* A check passes or fails.
LEMMA CheckRest ==
  ASSUME CoreInv, NEW t \in Tasks, Check(t)
  PROVE  Rest'
PROOF
<1>1. PICK h \in {"must run", "must sidecar", "must service", "still service"} : At(t, h)
  BY CheckAt
<1>2. h \in Steps \ (Entry \cup {"end"})
  BY DEF Steps, Entry
<1>3. life = t /\ Cond(t, h)
  BY <1>1, <1>2, HolderAt
<1>4. (\A p \in Pids : event[p].pc # "clearing") /\ \A w \in Watchers : watch[w].pc # "recovering"
  BY <1>1, <1>2, HolderAt
<1>5. ProxyInv /\ SidecarInv /\ WatchInv
  BY DEF CoreInv
<1>6. ProxyInv'
  BY <1>5, ProxySame DEF Check, locks, core, sidecar, service, os
<1>7. SidecarInv'
  BY <1>5, SidecarSame DEF Check, locks, core, sidecar, service, os
<1>8. WatchInv'
  <2>1. h \in Steps \ (Entry \cup {"end", "service stops"})
    BY <1>2
  <2>2. QED
    BY <1>1, <2>1, WatchSame DEF Check, locks, core, sidecar, service, os
<1>9. QED
  BY <1>6, <1>7, <1>8 DEF Rest

\* continue_with_sidecar is allowed or refused.
LEMMA AllowRest ==
  ASSUME CoreInv, NEW t \in Tasks, Allow(t)
  PROVE  Rest'
PROOF
<1>1. PICK h \in {"allow"} : At(t, h)
  BY DEF Allow
<1>2. h \in Steps \ (Entry \cup {"end"})
  BY DEF Steps, Entry
<1>3. life = t /\ Cond(t, h)
  BY <1>1, <1>2, HolderAt
<1>4. (\A p \in Pids : event[p].pc # "clearing") /\ \A w \in Watchers : watch[w].pc # "recovering"
  BY <1>1, <1>2, HolderAt
<1>5. ProxyInv /\ SidecarInv /\ WatchInv
  BY DEF CoreInv
<1>6. ProxyInv'
  BY <1>5, ProxySame DEF Allow, locks, core, sidecar, service, os
<1>7. SidecarInv'
  BY <1>5, SidecarSame DEF Allow, locks, core, sidecar, service, os
<1>8. WatchInv'
  <2>1. h \in Steps \ (Entry \cup {"end", "service stops"})
    BY <1>2
  <2>2. QED
    BY <1>1, <2>1, WatchSame DEF Allow, locks, core, sidecar, service, os
<1>9. QED
  BY <1>6, <1>7, <1>8 DEF Rest

\* The Service is uninstalled.
LEMMA UninstallRest ==
  ASSUME CoreInv, NEW t \in Tasks, Uninstall(t)
  PROVE  Rest'
PROOF
<1>1. PICK h \in {"uninstall"} : At(t, h)
  BY DEF Uninstall
<1>2. h \in Steps \ (Entry \cup {"end"})
  BY DEF Steps, Entry
<1>3. life = t /\ Cond(t, h)
  BY <1>1, <1>2, HolderAt
<1>4. (\A p \in Pids : event[p].pc # "clearing") /\ \A w \in Watchers : watch[w].pc # "recovering"
  BY <1>1, <1>2, HolderAt
<1>5. ProxyInv /\ SidecarInv /\ WatchInv
  BY DEF CoreInv
<1>6. ProxyInv'
  BY <1>5, ProxySame DEF Uninstall, locks, core, sidecar, service, os
<1>7. SidecarInv'
  BY <1>5, SidecarSame DEF Uninstall, locks, core, sidecar, service, os
<1>8. WatchInv'
  <2>1. h \in Steps \ (Entry \cup {"end", "service stops"})
    BY <1>2
  <2>2. QED
    BY <1>1, <2>1, WatchSame DEF Uninstall, locks, core, sidecar, service, os
<1>9. QED
  BY <1>6, <1>7, <1>8 DEF Rest

\* The hand-over finds its core or ends.
LEMMA StillSidecarRest ==
  ASSUME CoreInv, NEW t \in Tasks, StillSidecar(t)
  PROVE  Rest'
PROOF
<1>1. PICK h \in {"still sidecar"} : At(t, h)
  BY DEF StillSidecar
<1>2. h \in Steps \ (Entry \cup {"end"})
  BY DEF Steps, Entry
<1>3. life = t /\ Cond(t, h)
  BY <1>1, <1>2, HolderAt
<1>4. (\A p \in Pids : event[p].pc # "clearing") /\ \A w \in Watchers : watch[w].pc # "recovering"
  BY <1>1, <1>2, HolderAt
<1>5. ProxyInv /\ SidecarInv /\ WatchInv
  BY DEF CoreInv
<1>6. ProxyInv'
  BY <1>5, ProxySame DEF StillSidecar, locks, core, sidecar, service, os
<1>7. SidecarInv'
  BY <1>5, SidecarSame DEF StillSidecar, locks, core, sidecar, service, os
<1>8. WatchInv'
  <2>1. h \in Steps \ (Entry \cup {"end", "service stops"})
    BY <1>2
  <2>2. QED
    BY <1>1, <2>1, WatchSame DEF StillSidecar, locks, core, sidecar, service, os
<1>9. QED
  BY <1>6, <1>7, <1>8 DEF Rest

\* A configuration is staged.
LEMMA StageRest ==
  ASSUME CoreInv, NEW t \in Tasks, Stage(t)
  PROVE  Rest'
PROOF
<1>1. PICK h \in {"stage"} : At(t, h)
  BY DEF Stage
<1>2. h \in Steps \ (Entry \cup {"end"})
  BY DEF Steps, Entry
<1>3. life = t /\ Cond(t, h)
  BY <1>1, <1>2, HolderAt
<1>4. (\A p \in Pids : event[p].pc # "clearing") /\ \A w \in Watchers : watch[w].pc # "recovering"
  BY <1>1, <1>2, HolderAt
<1>5. ProxyInv /\ SidecarInv /\ WatchInv
  BY DEF CoreInv
<1>6. ProxyInv'
  BY <1>5, ProxySame DEF Stage, locks, core, sidecar, service, os
<1>7. SidecarInv'
  BY <1>5, SidecarSame DEF Stage, locks, core, sidecar, service, os
<1>8. WatchInv'
  <2>1. h \in Steps \ (Entry \cup {"end", "service stops"})
    BY <1>2
  <2>2. QED
    BY <1>1, <2>1, WatchSame DEF Stage, locks, core, sidecar, service, os
<1>9. QED
  BY <1>6, <1>7, <1>8 DEF Rest

\* A stop decides how.
LEMMA StopRest ==
  ASSUME CoreInv, NEW t \in Tasks, Stop(t)
  PROVE  Rest'
PROOF
<1>1. PICK h \in {"stop", "stop for restart"} : At(t, h)
  BY DEF Stop
<1>2. h \in Steps \ (Entry \cup {"end"})
  BY DEF Steps, Entry
<1>3. life = t /\ Cond(t, h)
  BY <1>1, <1>2, HolderAt
<1>4. (\A p \in Pids : event[p].pc # "clearing") /\ \A w \in Watchers : watch[w].pc # "recovering"
  BY <1>1, <1>2, HolderAt
<1>5. ProxyInv /\ SidecarInv /\ WatchInv
  BY DEF CoreInv
<1>6. ProxyInv'
  BY <1>5, ProxySame DEF Stop, locks, core, sidecar, service, os
<1>7. SidecarInv'
  BY <1>5, SidecarSame DEF Stop, locks, core, sidecar, service, os
<1>8. WatchInv'
  <2>1. h \in Steps \ (Entry \cup {"end", "service stops"})
    BY <1>2
  <2>2. QED
    BY <1>1, <2>1, WatchSame DEF Stop, locks, core, sidecar, service, os
<1>9. QED
  BY <1>6, <1>7, <1>8 DEF Rest

\* A start decides how.
LEMMA StartRest ==
  ASSUME CoreInv, NEW t \in Tasks, Start(t)
  PROVE  Rest'
PROOF
<1>1. PICK h \in {"start"} : At(t, h)
  BY DEF Start
<1>2. h \in Steps \ (Entry \cup {"end"})
  BY DEF Steps, Entry
<1>3. life = t /\ Cond(t, h)
  BY <1>1, <1>2, HolderAt
<1>4. (\A p \in Pids : event[p].pc # "clearing") /\ \A w \in Watchers : watch[w].pc # "recovering"
  BY <1>1, <1>2, HolderAt
<1>5. ProxyInv /\ SidecarInv /\ WatchInv
  BY DEF CoreInv
<1>6. ProxyInv'
  BY <1>5, ProxySame DEF Start, locks, core, sidecar, service, os
<1>7. SidecarInv'
  BY <1>5, SidecarSame DEF Start, locks, core, sidecar, service, os
<1>8. WatchInv'
  <2>1. h \in Steps \ (Entry \cup {"end", "service stops"})
    BY <1>2
  <2>2. QED
    BY <1>1, <2>1, WatchSame DEF Start, locks, core, sidecar, service, os
<1>9. QED
  BY <1>6, <1>7, <1>8 DEF Rest

\* The core is recorded before the proxy is written.
LEMMA CaptureRest ==
  ASSUME CoreInv, NEW t \in Tasks, Capture(t)
  PROVE  Rest'
PROOF
<1>1. PICK h \in {"capture"} : At(t, h)
  BY DEF Capture
<1>2. h \in Steps \ (Entry \cup {"end"})
  BY DEF Steps, Entry
<1>3. life = t /\ Cond(t, h)
  BY <1>1, <1>2, HolderAt
<1>4. (\A p \in Pids : event[p].pc # "clearing") /\ \A w \in Watchers : watch[w].pc # "recovering"
  BY <1>1, <1>2, HolderAt
<1>5. ProxyInv /\ SidecarInv /\ WatchInv
  BY DEF CoreInv
<1>6. ProxyInv'
  BY <1>5, ProxySame DEF Capture, locks, core, sidecar, service, os
<1>7. SidecarInv'
  BY <1>5, SidecarSame DEF Capture, locks, core, sidecar, service, os
<1>8. WatchInv'
  <2>1. h \in Steps \ (Entry \cup {"end", "service stops"})
    BY <1>2
  <2>2. QED
    BY <1>1, <2>1, WatchSame DEF Capture, locks, core, sidecar, service, os
<1>9. QED
  BY <1>6, <1>7, <1>8 DEF Rest

\* The sidecar is killed.
LEMMA KillRest ==
  ASSUME CoreInv, NEW t \in Tasks, Kill(t)
  PROVE  Rest'
PROOF
<1>1. PICK h \in {"kill"} : At(t, h)
  BY DEF Kill
<1>2. h \in Steps \ (Entry \cup {"end"})
  BY DEF Steps, Entry
<1>3. life = t /\ Cond(t, h)
  BY <1>1, <1>2, HolderAt
<1>4. (\A p \in Pids : event[p].pc # "clearing") /\ \A w \in Watchers : watch[w].pc # "recovering"
  BY <1>1, <1>2, HolderAt
<1>5. ProxyInv /\ SidecarInv /\ WatchInv
  BY DEF CoreInv
<1>6. ProxyInv'
  BY <1>5, ProxySame DEF Kill, locks, core, sidecar, service, os
<1>7. SidecarInv'
  BY <1>1, <1>3, <1>4, <1>5, IdentityAssumption DEF Kill, locks, core, sidecar, service, os, SidecarInv,
     Cond
<1>8. WatchInv'
  <2>1. h \in Steps \ (Entry \cup {"end", "service stops"})
    BY <1>2
  <2>2. QED
    BY <1>1, <2>1, WatchSame DEF Kill, locks, core, sidecar, service, os
<1>9. QED
  BY <1>6, <1>7, <1>8 DEF Rest

\* Its exit is awaited.
LEMMA WaitKilledRest ==
  ASSUME CoreInv, NEW t \in Tasks, WaitKilled(t)
  PROVE  Rest'
PROOF
<1>1. PICK h \in {"wait killed"} : At(t, h)
  BY DEF WaitKilled
<1>2. h \in Steps \ (Entry \cup {"end"})
  BY DEF Steps, Entry
<1>3. life = t /\ Cond(t, h)
  BY <1>1, <1>2, HolderAt
<1>4. (\A p \in Pids : event[p].pc # "clearing") /\ \A w \in Watchers : watch[w].pc # "recovering"
  BY <1>1, <1>2, HolderAt
<1>5. ProxyInv /\ SidecarInv /\ WatchInv
  BY DEF CoreInv
<1>6. ProxyInv'
  BY <1>1, <1>3, <1>5 DEF WaitKilled, locks, core, sidecar, service, os, core_stopped, Exited, ProxyInv,
     Cond
<1>7. SidecarInv'
  BY <1>1, <1>3, <1>4, <1>5, IdentityAssumption DEF WaitKilled, locks, core, sidecar, service, os,
     core_stopped, Exited, SidecarInv, Cond
<1>8. WatchInv'
  <2>1. h \in Steps \ (Entry \cup {"end", "service stops"})
    BY <1>2
  <2>2. QED
    BY <1>1, <2>1, WatchSame DEF WaitKilled, locks, core, sidecar, service, os, core_stopped, Exited
<1>9. QED
  BY <1>6, <1>7, <1>8 DEF Rest

\* The monitors are cancelled.
LEMMA StopServiceRest ==
  ASSUME CoreInv, NEW t \in Tasks, StopService(t)
  PROVE  Rest'
PROOF
<1>1. PICK h \in {"stop service"} : At(t, h)
  BY DEF StopService
<1>2. h \in Steps \ (Entry \cup {"end"})
  BY DEF Steps, Entry
<1>3. life = t /\ Cond(t, h)
  BY <1>1, <1>2, HolderAt
<1>4. (\A p \in Pids : event[p].pc # "clearing") /\ \A w \in Watchers : watch[w].pc # "recovering"
  BY <1>1, <1>2, HolderAt
<1>5. ProxyInv /\ SidecarInv /\ WatchInv
  BY DEF CoreInv
<1>6. ProxyInv'
  BY <1>5, ProxySame DEF StopService, locks, core, sidecar, service, os
<1>7. SidecarInv'
  BY <1>5, SidecarSame DEF StopService, locks, core, sidecar, service, os
<1>8. WatchInv'
  <2>1. At(t, "service stops")' /\ life' = t
    BY <1>3, StopServiceKeeps DEF CoreInv, StopService, locks
  <2>2. owner \in Nat /\ owner' = owner + 1 /\ owner' \in Gens /\ UNCHANGED <<mode, watch, session, life>>
    BY <1>5, NextGen DEF StopService, locks, core, WatchInv
  <2>3. ASSUME NEW w \in Watchers PROVE WatcherOk(w)'
    <3>1. WatcherOk(w)
      BY <1>5 DEF WatchInv
    <3>2. /\ watch[w].pc # "none" => w[1] <= owner' /\ w[1] # owner'
          /\ watch[w].pc \in {"claimed", "recovering"} => w[1] < owner' /\ w[1] + 1 # owner'
      BY <2>2, <3>1, OlderWatcher
    <3>3. QED
      BY <1>4, <2>2, <3>1, <3>2 DEF WatcherOk
  <2>4. QED
    BY <1>5, <2>1, <2>2, <2>3 DEF WatchInv
<1>9. QED
  BY <1>6, <1>7, <1>8 DEF Rest

\* The Service stops its core, or not.
LEMMA ServiceStopsRest ==
  ASSUME CoreInv, NEW t \in Tasks, ServiceStops(t)
  PROVE  Rest'
PROOF
<1>1. PICK h \in {"service stops"} : At(t, h)
  BY DEF ServiceStops
<1>2. h \in Steps \ (Entry \cup {"end"})
  BY DEF Steps, Entry
<1>3. life = t /\ Cond(t, h)
  BY <1>1, <1>2, HolderAt
<1>4. (\A p \in Pids : event[p].pc # "clearing") /\ \A w \in Watchers : watch[w].pc # "recovering"
  BY <1>1, <1>2, HolderAt
<1>5. ProxyInv /\ SidecarInv /\ WatchInv
  BY DEF CoreInv
<1>6. ProxyInv'
  BY <1>1, <1>3, <1>5 DEF ServiceStops, locks, core, sidecar, service, os, core_stopped, NotOurs,
     TurnsOff, ClearFails, Monitored, ProxyInv, Cond
<1>7. SidecarInv'
  BY <1>5, SidecarSame DEF ServiceStops, locks, core, sidecar, service, os, core_stopped, NotOurs,
     TurnsOff, ClearFails, Monitored
<1>8. WatchInv'
  <2>1. CASE UNCHANGED <<owner, watch, life>> /\ mode' = "NotRunning"
    BY <1>4, <1>5, <2>1 DEF WatchInv, WatcherOk
  <2>2. CASE owner < MaxGen /\ owner' = owner + 1 /\ Monitored(owner') /\ UNCHANGED <<core, session>>
    BY <1>4, <1>5, <2>2, Renewed DEF core
  <2>3. QED
    BY <2>1, <2>2 DEF ServiceStops, core_stopped, locks
<1>9. QED
  BY <1>6, <1>7, <1>8 DEF Rest

\* A failed start is rolled back.
LEMMA RollbackStartRest ==
  ASSUME CoreInv, NEW t \in Tasks, RollbackStart(t)
  PROVE  Rest'
PROOF
<1>1. PICK h \in {"rollback start"} : At(t, h)
  BY DEF RollbackStart
<1>2. h \in Steps \ (Entry \cup {"end"})
  BY DEF Steps, Entry
<1>3. life = t /\ Cond(t, h)
  BY <1>1, <1>2, HolderAt
<1>4. (\A p \in Pids : event[p].pc # "clearing") /\ \A w \in Watchers : watch[w].pc # "recovering"
  BY <1>1, <1>2, HolderAt
<1>5. ProxyInv /\ SidecarInv /\ WatchInv
  BY DEF CoreInv
<1>6. ProxyInv'
  BY <1>1, <1>3, <1>5 DEF RollbackStart, locks, core, sidecar, service, os, core_stopped, ProxyInv, Cond
<1>7. SidecarInv'
  BY <1>5, SidecarSame DEF RollbackStart, locks, core, sidecar, service, os, core_stopped
<1>8. WatchInv'
  <2>1. h \in Steps \ (Entry \cup {"end", "service stops"})
    BY <1>2
  <2>2. QED
    BY <1>1, <2>1, WatchSame DEF RollbackStart, locks, core, sidecar, service, os, core_stopped
<1>9. QED
  BY <1>6, <1>7, <1>8 DEF Rest

\* The exit of an earlier sidecar is awaited.
LEMMA WaitExitRest ==
  ASSUME CoreInv, NEW t \in Tasks, WaitExit(t)
  PROVE  Rest'
PROOF
<1>1. PICK h \in {"wait exit"} : At(t, h)
  BY DEF WaitExit
<1>2. h \in Steps \ (Entry \cup {"end"})
  BY DEF Steps, Entry
<1>3. life = t /\ Cond(t, h)
  BY <1>1, <1>2, HolderAt
<1>4. (\A p \in Pids : event[p].pc # "clearing") /\ \A w \in Watchers : watch[w].pc # "recovering"
  BY <1>1, <1>2, HolderAt
<1>5. ProxyInv /\ SidecarInv /\ WatchInv
  BY DEF CoreInv
<1>6. ProxyInv'
  BY <1>5, ProxySame DEF WaitExit, locks, core, sidecar, service, os, Exited
<1>7. SidecarInv'
  BY <1>1, <1>3, <1>4, <1>5, IdentityAssumption DEF WaitExit, locks, core, sidecar, service, os, Exited,
     SidecarInv, Cond
<1>8. WatchInv'
  <2>1. h \in Steps \ (Entry \cup {"end", "service stops"})
    BY <1>2
  <2>2. QED
    BY <1>1, <2>1, WatchSame DEF WaitExit, locks, core, sidecar, service, os, Exited
<1>9. QED
  BY <1>6, <1>7, <1>8 DEF Rest

\* A sidecar is spawned.
LEMMA SpawnRest ==
  ASSUME CoreInv, NEW t \in Tasks, Spawn(t)
  PROVE  Rest'
PROOF
<1>1. PICK h \in {"spawn"} : At(t, h)
  BY DEF Spawn
<1>2. h \in Steps \ (Entry \cup {"end"})
  BY DEF Steps, Entry
<1>3. life = t /\ Cond(t, h)
  BY <1>1, <1>2, HolderAt
<1>4. (\A p \in Pids : event[p].pc # "clearing") /\ \A w \in Watchers : watch[w].pc # "recovering"
  BY <1>1, <1>2, HolderAt
<1>5. ProxyInv /\ SidecarInv /\ WatchInv
  BY DEF CoreInv
<1>6. ProxyInv'
  BY <1>1, <1>3, <1>5 DEF Spawn, locks, core, sidecar, service, os, core_stopped, ProxyInv, Cond
<1>7. SidecarInv'
  BY <1>1, <1>3, <1>4, <1>5, IdentityAssumption DEF Spawn, locks, core, sidecar, service, os,
     core_stopped, SidecarInv, Cond
<1>8. WatchInv'
  <2>1. h \in Steps \ (Entry \cup {"end", "service stops"})
    BY <1>2
  <2>2. QED
    BY <1>1, <2>1, WatchSame DEF Spawn, locks, core, sidecar, service, os, core_stopped
<1>9. QED
  BY <1>6, <1>7, <1>8 DEF Rest

\* It answers or is killed.
LEMMA PollRest ==
  ASSUME CoreInv, NEW t \in Tasks, Poll(t)
  PROVE  Rest'
PROOF
<1>1. PICK h \in {"poll"} : At(t, h)
  BY DEF Poll
<1>2. h \in Steps \ (Entry \cup {"end"})
  BY DEF Steps, Entry
<1>3. life = t /\ Cond(t, h)
  BY <1>1, <1>2, HolderAt
<1>4. (\A p \in Pids : event[p].pc # "clearing") /\ \A w \in Watchers : watch[w].pc # "recovering"
  BY <1>1, <1>2, HolderAt
<1>5. ProxyInv /\ SidecarInv /\ WatchInv
  BY DEF CoreInv
<1>6. ProxyInv'
  BY <1>1, <1>3, <1>5 DEF Poll, locks, core, sidecar, service, os, core_stopped, ProxyInv, Cond
<1>7. SidecarInv'
  BY <1>1, <1>3, <1>4, <1>5, IdentityAssumption DEF Poll, locks, core, sidecar, service, os,
     core_stopped, SidecarInv, Cond
<1>8. WatchInv'
  <2>1. h \in Steps \ (Entry \cup {"end", "service stops"})
    BY <1>2
  <2>2. QED
    BY <1>1, <2>1, WatchSame DEF Poll, locks, core, sidecar, service, os, core_stopped
<1>9. QED
  BY <1>6, <1>7, <1>8 DEF Rest

\* The Service starts a core.
LEMMA StartServiceRest ==
  ASSUME CoreInv, NEW t \in Tasks, StartService(t)
  PROVE  Rest'
PROOF
<1>1. PICK h \in {"start service"} : At(t, h)
  BY DEF StartService
<1>2. h \in Steps \ (Entry \cup {"end"})
  BY DEF Steps, Entry
<1>3. life = t /\ Cond(t, h)
  BY <1>1, <1>2, HolderAt
<1>4. (\A p \in Pids : event[p].pc # "clearing") /\ \A w \in Watchers : watch[w].pc # "recovering"
  BY <1>1, <1>2, HolderAt
<1>5. ProxyInv /\ SidecarInv /\ WatchInv
  BY DEF CoreInv
<1>6. ProxyInv'
  BY <1>1, <1>3, <1>5 DEF StartService, locks, core, sidecar, service, os, Monitored, mark_core_ready,
     ProxyInv, Cond
<1>7. SidecarInv'
  BY <1>5, SidecarSame DEF StartService, locks, core, sidecar, service, os, Monitored, mark_core_ready
<1>8. WatchInv'
  <2>1. mode = "NotRunning"
    BY <1>1, <1>3 DEF Cond
  <2>2. CASE UNCHANGED <<owner, watch, life, mode>>
    BY <1>4, <1>5, <2>1, <2>2 DEF WatchInv, WatcherOk
  <2>3. CASE owner < MaxGen /\ owner' = owner + 1 /\ Monitored(owner')
    BY <1>4, <1>5, <2>3, Renewed
  <2>4. QED
    BY <2>2, <2>3 DEF StartService, core, locks
<1>9. QED
  BY <1>6, <1>7, <1>8 DEF Rest

\* The proxy is given up.
LEMMA ClearRest ==
  ASSUME CoreInv, NEW t \in Tasks, Clear(t)
  PROVE  Rest'
PROOF
<1>1. PICK h \in {"clear"} : At(t, h)
  BY DEF Clear
<1>2. h \in Steps \ (Entry \cup {"end"})
  BY DEF Steps, Entry
<1>3. life = t /\ Cond(t, h)
  BY <1>1, <1>2, HolderAt
<1>4. (\A p \in Pids : event[p].pc # "clearing") /\ \A w \in Watchers : watch[w].pc # "recovering"
  BY <1>1, <1>2, HolderAt
<1>5. ProxyInv /\ SidecarInv /\ WatchInv
  BY DEF CoreInv
<1>6. ProxyInv'
  BY <1>1, <1>3, <1>5 DEF Clear, locks, core, sidecar, service, os, NotOurs, TurnsOff, ClearFails,
     ProxyInv, Cond
<1>7. SidecarInv'
  BY <1>5, SidecarSame DEF Clear, locks, core, sidecar, service, os, NotOurs, TurnsOff, ClearFails
<1>8. WatchInv'
  <2>1. h \in Steps \ (Entry \cup {"end", "service stops"})
    BY <1>2
  <2>2. QED
    BY <1>1, <2>1, WatchSame DEF Clear, locks, core, sidecar, service, os, NotOurs, TurnsOff, ClearFails
<1>9. QED
  BY <1>6, <1>7, <1>8 DEF Rest

\* The guard is stopped.
LEMMA StopGuardRest ==
  ASSUME CoreInv, NEW t \in Tasks, StopGuard(t)
  PROVE  Rest'
PROOF
<1>1. PICK h \in {"stop guard"} : At(t, h)
  BY DEF StopGuard
<1>2. h \in Steps \ (Entry \cup {"end"})
  BY DEF Steps, Entry
<1>3. life = t /\ Cond(t, h)
  BY <1>1, <1>2, HolderAt
<1>4. (\A p \in Pids : event[p].pc # "clearing") /\ \A w \in Watchers : watch[w].pc # "recovering"
  BY <1>1, <1>2, HolderAt
<1>5. ProxyInv /\ SidecarInv /\ WatchInv
  BY DEF CoreInv
<1>6. ProxyInv'
  BY <1>1, <1>3, <1>5 DEF StopGuard, locks, core, sidecar, service, os, ProxyInv, Cond
<1>7. SidecarInv'
  BY <1>5, SidecarSame DEF StopGuard, locks, core, sidecar, service, os
<1>8. WatchInv'
  <2>1. h \in Steps \ (Entry \cup {"end", "service stops"})
    BY <1>2
  <2>2. QED
    BY <1>1, <2>1, WatchSame DEF StopGuard, locks, core, sidecar, service, os
<1>9. QED
  BY <1>6, <1>7, <1>8 DEF Rest

\* The proxy is written.
LEMMA ApplyWriteRest ==
  ASSUME CoreInv, NEW t \in Tasks, ApplyWrite(t)
  PROVE  Rest'
PROOF
<1>1. PICK h \in {"apply"} : At(t, h)
  BY DEF ApplyWrite
<1>2. h \in Steps \ (Entry \cup {"end"})
  BY DEF Steps, Entry
<1>3. life = t /\ Cond(t, h)
  BY <1>1, <1>2, HolderAt
<1>4. (\A p \in Pids : event[p].pc # "clearing") /\ \A w \in Watchers : watch[w].pc # "recovering"
  BY <1>1, <1>2, HolderAt
<1>5. ProxyInv /\ SidecarInv /\ WatchInv
  BY DEF CoreInv
<1>6. ProxyInv'
  BY <1>1, <1>3, <1>5 DEF ApplyWrite, locks, core, sidecar, service, os, NotOurs, TurnsOff, ProxyInv,
     Cond
<1>7. SidecarInv'
  BY <1>5, SidecarSame DEF ApplyWrite, locks, core, sidecar, service, os, NotOurs, TurnsOff
<1>8. WatchInv'
  <2>1. h \in Steps \ (Entry \cup {"end", "service stops"})
    BY <1>2
  <2>2. QED
    BY <1>1, <2>1, WatchSame DEF ApplyWrite, locks, core, sidecar, service, os, NotOurs, TurnsOff
<1>9. QED
  BY <1>6, <1>7, <1>8 DEF Rest

\* Its guard is refreshed.
LEMMA RefreshRest ==
  ASSUME CoreInv, NEW t \in Tasks, Refresh(t)
  PROVE  Rest'
PROOF
<1>1. PICK h \in {"refresh"} : At(t, h)
  BY DEF Refresh
<1>2. h \in Steps \ (Entry \cup {"end"})
  BY DEF Steps, Entry
<1>3. life = t /\ Cond(t, h)
  BY <1>1, <1>2, HolderAt
<1>4. (\A p \in Pids : event[p].pc # "clearing") /\ \A w \in Watchers : watch[w].pc # "recovering"
  BY <1>1, <1>2, HolderAt
<1>5. ProxyInv /\ SidecarInv /\ WatchInv
  BY DEF CoreInv
<1>6. ProxyInv'
  BY <1>1, <1>3, <1>5 DEF Refresh, locks, core, sidecar, service, os, ProxyInv, Cond
<1>7. SidecarInv'
  BY <1>5, SidecarSame DEF Refresh, locks, core, sidecar, service, os
<1>8. WatchInv'
  <2>1. h \in Steps \ (Entry \cup {"end", "service stops"})
    BY <1>2
  <2>2. QED
    BY <1>1, <2>1, WatchSame DEF Refresh, locks, core, sidecar, service, os
<1>9. QED
  BY <1>6, <1>7, <1>8 DEF Rest

\* The core is checked against the record.
LEMMA RecheckRest ==
  ASSUME CoreInv, NEW t \in Tasks, Recheck(t)
  PROVE  Rest'
PROOF
<1>1. PICK h \in {"check apply", "check refresh"} : At(t, h)
  BY DEF Recheck
<1>2. h \in Steps \ (Entry \cup {"end"})
  BY DEF Steps, Entry
<1>3. life = t /\ Cond(t, h)
  BY <1>1, <1>2, HolderAt
<1>4. (\A p \in Pids : event[p].pc # "clearing") /\ \A w \in Watchers : watch[w].pc # "recovering"
  BY <1>1, <1>2, HolderAt
<1>5. ProxyInv /\ SidecarInv /\ WatchInv
  BY DEF CoreInv
<1>6. ProxyInv'
  BY <1>1, <1>3, <1>5 DEF Recheck, locks, core, sidecar, service, os, NotOurs, TurnsOff, ClearFails,
     ProxyInv, Cond
<1>7. SidecarInv'
  BY <1>5, SidecarSame DEF Recheck, locks, core, sidecar, service, os, NotOurs, TurnsOff, ClearFails
<1>8. WatchInv'
  <2>1. h \in Steps \ (Entry \cup {"end", "service stops"})
    BY <1>2
  <2>2. QED
    BY <1>1, <2>1, WatchSame DEF Recheck, locks, core, sidecar, service, os, NotOurs, TurnsOff,
       ClearFails
<1>9. QED
  BY <1>6, <1>7, <1>8 DEF Rest

\* Nothing but the list of a task outside the lock changes.
LEMMA WatchOutside ==
  ASSUME CoreInv, NEW t \in Tasks, life # t, life' = life, UNCHANGED <<owner, watch, session, mode>>,
         \A u \in Tasks \ {t} : task'[u] = task[u]
  PROVE  WatchInv'
PROOF
<1>1. ASSUME NEW u \in Tasks, life = u, At(u, "service stops") PROVE life' = u /\ At(u, "service stops")'
  BY <1>1 DEF At
<1>2. Watched => Watched'
  BY DEF Watched
<1>3. QED
  BY <1>1, <1>2 DEF CoreInv, WatchInv, WatcherOk

\* The same for a step that takes or leaves the lock, while nobody is stopping
\* the Service core or recovering.
LEMMA WatchFree ==
  ASSUME CoreInv, UNCHANGED <<owner, watch, session, mode>>,
         \A w \in Watchers : watch[w].pc # "recovering",
         \A u \in Tasks : life = u => ~At(u, "service stops")
  PROVE  WatchInv'
PROOF
<1>1. mode = "Service" => Watched
  BY DEF CoreInv, WatchInv, WatcherOk
<1>2. Watched => Watched'
  BY DEF Watched
<1>3. QED
  BY <1>1, <1>2 DEF CoreInv, WatchInv, WatcherOk

\* An operation is called.
LEMMA CallRest ==
  ASSUME CoreInv, NEW t \in Tasks, NEW op \in Ops, Call(t, op)
  PROVE  Rest'
PROOF
<1>1. life # t
  <2>1. task[t].op = None
    BY DEF Call, NoTask
  <2>2. QED
    BY <2>1, IdentityAssumption DEF CoreInv, TaskInv
<1>2. \A u \in Tasks \ {t} : task'[u] = task[u]
  BY DEF Call, CoreInv, TaskInv, TaskShape
<1>3. ProxyInv'
  BY ProxySame DEF CoreInv, Call, locks, core, sidecar, service, os
<1>4. SidecarInv'
  BY SidecarSame DEF CoreInv, Call, locks, core, sidecar, service, os
<1>5. WatchInv'
  BY <1>1, <1>2, WatchOutside DEF Call, locks, core, sidecar, service, os
<1>6. QED
  BY <1>3, <1>4, <1>5 DEF Rest

\* The configuration lock is taken.
LEMMA WriteLockRest ==
  ASSUME CoreInv, NEW t \in Tasks, WriteLock(t)
  PROVE  Rest'
PROOF
<1>1. "write lock" \in Entry /\ At(t, "write lock")
  BY DEF WriteLock, Entry
<1>2. life # t
  BY <1>1, Waits DEF CoreInv
<1>3. \A u \in Tasks \ {t} : task'[u] = task[u]
  BY DEF WriteLock, Then, Done, CoreInv, TaskInv, TaskShape
<1>4. ProxyInv'
  BY ProxySame DEF CoreInv, WriteLock, locks, core, sidecar, service, os
<1>5. SidecarInv'
  BY SidecarSame DEF CoreInv, WriteLock, locks, core, sidecar, service, os
<1>6. WatchInv'
  BY <1>2, <1>3, WatchOutside DEF WriteLock, locks, core, sidecar, service, os
<1>7. QED
  BY <1>4, <1>5, <1>6 DEF Rest

\* The configuration is applied.
LEMMA ApplyConfigRest ==
  ASSUME CoreInv, NEW t \in Tasks, ApplyConfig(t)
  PROVE  Rest'
PROOF
<1>1. "apply config" \in Entry /\ At(t, "apply config")
  BY DEF ApplyConfig, Entry
<1>2. life # t
  BY <1>1, Waits DEF CoreInv
<1>3. \A u \in Tasks \ {t} : task'[u] = task[u]
  BY DEF ApplyConfig, Then, Done, CoreInv, TaskInv, TaskShape
<1>4. ProxyInv'
  BY ProxySame DEF CoreInv, ApplyConfig, locks, core, sidecar, service, os
<1>5. SidecarInv'
  BY SidecarSame DEF CoreInv, ApplyConfig, locks, core, sidecar, service, os
<1>6. WatchInv'
  BY <1>2, <1>3, WatchOutside DEF ApplyConfig, locks, core, sidecar, service, os
<1>7. QED
  BY <1>4, <1>5, <1>6 DEF Rest

\* While the lock is free, no event task and no recovery has it.
LEMMA NobodyHolds ==
  ASSUME CoreInv, life = None
  PROVE  /\ \A p \in Pids : event[p].pc # "clearing"
         /\ \A w \in Watchers : watch[w].pc # "recovering"
         /\ \A u \in Tasks : life # u
         /\ mode = "Service" => Watched
PROOF
  BY IdentityAssumption DEF CoreInv, SidecarInv, WatchInv, WatcherOk

\* The lifecycle lock is taken.
LEMMA LockRest ==
  ASSUME CoreInv, NEW t \in Tasks, Lock(t)
  PROVE  Rest'
PROOF
<1>1. life = None
  BY DEF Lock
<1>2. ProxyInv'
  BY ProxySame DEF CoreInv, Lock, locks, core, sidecar, service, os
<1>3. SidecarInv'
  BY <1>1, NobodyHolds, IdentityAssumption, SidecarSame DEF CoreInv, Lock, locks, core, sidecar,
     service, os
<1>4. WatchInv'
  BY <1>1, NobodyHolds, WatchFree DEF Lock, locks, core, sidecar, service, os
<1>5. QED
  BY <1>2, <1>3, <1>4 DEF Rest

\* The operation ends.
LEMMA EndRest ==
  ASSUME CoreInv, NEW t \in Tasks, End(t)
  PROVE  Rest'
PROOF
<1>1. ~At(t, "service stops") /\ life' = IF life = t THEN None ELSE life
  BY DEF End, Release, At
<1>2. ProxyInv'
  BY ProxySame DEF CoreInv, End, locks, core, sidecar, service, os
<1>3. SidecarInv'
  BY <1>1, IdentityAssumption, SidecarSame DEF CoreInv, End, locks, core, sidecar, service, os
<1>4. WatchInv'
  <2>1. CASE life = t
    <3>1. \A w \in Watchers : watch[w].pc # "recovering"
      BY <2>1, HolderAlone DEF CoreInv
    <3>2. QED
      BY <1>1, <2>1, <3>1, WatchFree DEF End, locks, core, sidecar, service, os
  <2>2. CASE life # t
    <3>1. \A u \in Tasks \ {t} : task'[u] = task[u]
      BY DEF End, CoreInv, TaskInv, TaskShape
    <3>2. QED
      BY <1>1, <2>2, <3>1, WatchOutside DEF End, locks, core, sidecar, service, os
  <2>3. QED
    BY <2>1, <2>2
<1>5. QED
  BY <1>2, <1>3, <1>4 DEF Rest

(***************************************************************************)
(* Processes, watchers and the Service                                     *)
(***************************************************************************)

\* The watchers are left alone and the lock moves between others.
LEMMA WatchAlone ==
  ASSUME CoreInv, UNCHANGED <<owner, watch, session, mode, task>>,
         \A u \in Tasks \cup Watchers : life = u => life' = u
  PROVE  WatchInv'
PROOF
<1>1. Watched => Watched'
  BY DEF Watched
<1>2. QED
  BY <1>1 DEF CoreInv, WatchInv, WatcherOk, At

\* A sidecar process dies.
LEMMA CrashKeeps ==
  ASSUME CoreInv, NEW p \in Pids, Crash(p)
  PROVE  CoreInv'
PROOF
<1>1. TaskInv'
  BY NobodyMoves DEF CoreInv, Crash, locks, core, sidecar, service, os
<1>2. ProxyInv'
  BY ProxySame DEF CoreInv, Crash, locks, core, sidecar, service, os
<1>3. SidecarInv'
  BY DEF CoreInv, SidecarInv, Crash, locks, core, sidecar, service, os
<1>4. WatchInv'
  BY WatchAlone DEF Crash, locks, core, sidecar, service, os
<1>5. QED
  BY <1>1, <1>2, <1>3, <1>4 DEF CoreInv

\* Its event task notices.
LEMMA TerminatedKeeps ==
  ASSUME CoreInv, NEW p \in Pids, Terminated(p)
  PROVE  CoreInv'
PROOF
<1>1. TaskInv'
  BY NobodyMoves DEF CoreInv, Terminated, locks, core, sidecar, service, os
<1>2. ProxyInv'
  BY ProxySame DEF CoreInv, Terminated, locks, core, sidecar, service, os
<1>3. SidecarInv'
  BY DEF CoreInv, SidecarInv, Terminated, locks, core, sidecar, service, os
<1>4. WatchInv'
  BY WatchAlone DEF Terminated, locks, core, sidecar, service, os
<1>5. QED
  BY <1>1, <1>2, <1>3, <1>4 DEF CoreInv

\* It takes the lock if its process is still the core.
LEMMA ClearTerminatedKeeps ==
  ASSUME CoreInv, NEW p \in Pids, ClearTerminated(p)
  PROVE  CoreInv'
PROOF
<1>1. life = None /\ life' \in {None, p} /\ \A u \in Tasks \cup Watchers : u # p /\ u # None
  BY IdentityAssumption DEF ClearTerminated
<1>2. TaskInv'
  BY <1>1, NobodyMoves DEF CoreInv, ClearTerminated, locks, core, sidecar, service, os
<1>3. ProxyInv'
  BY ProxySame DEF CoreInv, ClearTerminated, locks, core, sidecar, service, os
<1>4. SidecarInv'
  BY <1>1, NobodyHolds DEF CoreInv, SidecarInv, ClearTerminated, locks, core, sidecar, service, os,
     NoEvent
<1>5. WatchInv'
  BY <1>1, WatchAlone DEF ClearTerminated, locks, core, sidecar, service, os
<1>6. QED
  BY <1>2, <1>3, <1>4, <1>5 DEF CoreInv

\* It retires the core and leaves the lock.
LEMMA ClearedKeeps ==
  ASSUME CoreInv, NEW p \in Pids, Cleared(p)
  PROVE  CoreInv'
PROOF
<1>1. life = p /\ life' = None /\ (\A u \in Tasks \cup Watchers : u # p /\ u # None)
  BY IdentityAssumption DEF CoreInv, SidecarInv, Cleared
<1>2. TaskInv'
  BY <1>1, NobodyMoves DEF CoreInv, Cleared, locks, core, sidecar, service, os
<1>3. ProxyInv'
  BY DEF CoreInv, ProxyInv, Cleared, core_stopped
<1>4. SidecarInv'
  BY <1>1 DEF CoreInv, SidecarInv, Cleared, locks, core, sidecar, service, os, NoEvent
<1>5. WatchInv'
  <2>1. \A w \in Watchers : watch[w].pc # "recovering"
    BY <1>1 DEF CoreInv, WatchInv, WatcherOk
  <2>2. QED
    BY <2>1 DEF CoreInv, WatchInv, WatcherOk, Cleared, core_stopped, locks, core, sidecar, service, os
<1>6. QED
  BY <1>2, <1>3, <1>4, <1>5 DEF CoreInv

\* The Service loses its core.
LEMMA ServiceLosesKeeps ==
  ASSUME CoreInv, ServiceLoses
  PROVE  CoreInv'
PROOF
<1>1. TaskInv'
  BY NobodyMoves DEF CoreInv, ServiceLoses, locks, core, sidecar, service, os
<1>2. ProxyInv'
  BY ProxySame DEF CoreInv, ServiceLoses, locks, core, sidecar, service, os
<1>3. SidecarInv'
  BY SidecarSame DEF CoreInv, ServiceLoses, locks, core, sidecar, service, os
<1>4. WatchInv'
  BY WatchAlone DEF ServiceLoses, locks, core, sidecar, service, os
<1>5. QED
  BY <1>1, <1>2, <1>3, <1>4 DEF CoreInv

\* One watcher changes its state while the lock stays with whom it is.
WatcherMoves(w, pc, saw) ==
  watch' = [v \in Watchers |-> IF v = w THEN [pc |-> pc, saw |-> saw] ELSE watch[v]]

\* A log request captures the generation.
LEMMA ReadLogsKeeps ==
  ASSUME CoreInv, ReadLogs
  PROVE  CoreInv'
PROOF
<1>1. TaskInv'
  BY NobodyMoves DEF CoreInv, ReadLogs, locks, core, sidecar, service, os
<1>2. ProxyInv'
  BY ProxySame DEF CoreInv, ReadLogs, locks, core, sidecar, service, os
<1>3. SidecarInv'
  BY SidecarSame DEF CoreInv, ReadLogs, locks, core, sidecar, service, os
<1>4. WatchInv'
  <2> DEFINE r == <<owner, "reader">>
  <2>1. owner \in Gens /\ owner \in Nat /\ WatchInv
    BY NextGen DEF CoreInv, WatchInv
  <2>2. r \in Watchers /\ r[1] = owner /\ r # <<owner, "monitor">> /\ watch[r].pc = "none"
    BY <2>1 DEF Watchers, ReadLogs, NoWatch
  <2>3. WatcherMoves(r, "watching", session)
    BY <2>2 DEF ReadLogs, WatcherMoves, CoreInv, WatchInv
  <2>4. UNCHANGED <<owner, session, mode, life, task>>
    BY DEF ReadLogs, locks, core, sidecar, service, os
  <2> HIDE DEF r
  <2>5. Watched => Watched'
    <3>1. \A w \in Watchers : watch[w].pc = "claimed" => watch'[w] = watch[w]
      BY <2>2, <2>3 DEF WatcherMoves
    <3>2. <<owner, "monitor">> \in Watchers
      BY <2>1, ObserversAssumption DEF Watchers
    <3>3. watch'[<<owner, "monitor">>] = watch[<<owner, "monitor">>]
      BY <2>2, <2>3, <3>2 DEF WatcherMoves
    <3>4. QED
      BY <2>4, <3>1, <3>3 DEF Watched
  <2>6. ASSUME NEW w \in Watchers PROVE WatcherOk(w)' /\ (watch[w].pc = "recovering" => watch'[w].pc = "recovering")
    <3>1. CASE w = r
      <4>1. watch'[w] = [pc |-> "watching", saw |-> session]
        BY <2>3, <3>1 DEF WatcherMoves
      <4>2. QED
        BY <2>1, <2>2, <2>4, <3>1, <4>1 DEF WatcherOk
    <3>2. CASE w # r
      <4>1. watch'[w] = watch[w] /\ WatcherOk(w)
        BY <2>1, <2>3, <3>2 DEF WatcherMoves, WatchInv
      <4>2. QED
        BY <2>4, <4>1 DEF WatcherOk
    <3>3. QED
      BY <3>1, <3>2
  <2>7. watch' = [w \in Watchers |-> watch'[w]]
    BY <2>3 DEF WatcherMoves
  <2>8. QED
    BY <2>1, <2>4, <2>5, <2>6, <2>7 DEF WatchInv, At
<1>5. QED
  BY <1>1, <1>2, <1>3, <1>4 DEF CoreInv

\* A watcher stops watching, or notices the loss: the others and the core are
\* what they were.
LEMMA OneWatcher ==
  ASSUME CoreInv, NEW w \in Watchers, NEW pc, NEW saw, WatcherMoves(w, pc, saw), watch[w].pc # "recovering",
         UNCHANGED <<owner, session, mode, life, task>>,
         \/ pc = "none" /\ ~(mode = "Service" /\ w = <<owner, "monitor">>)
                        /\ ~(mode = "Service" /\ watch[w].pc = "claimed" /\ w[1] + 1 = owner)
         \/ pc = "lost" /\ watch[w].pc = "watching" /\ saw = watch[w].saw
  PROVE  WatchInv'
PROOF
<1>1. watch'[w] = [pc |-> pc, saw |-> saw] /\ watch'[w].pc = pc /\ watch'[w].saw = saw
  BY DEF WatcherMoves
<1>2. \A v \in Watchers \ {w} : watch'[v] = watch[v]
  BY DEF WatcherMoves
<1>3. watch' = [v \in Watchers |-> watch'[v]]
  BY DEF WatcherMoves
<1>4. WatchInv /\ owner \in Gens
  BY DEF CoreInv, WatchInv
<1>5. mode = "Service" /\ Watched => Watched'
  <2>1. <<owner, "monitor">> \in Watchers
    BY <1>4, ObserversAssumption DEF Watchers
  <2>2. PICK m \in Watchers : m = <<owner, "monitor">>
    BY <2>1
  <2>3. mode = "Service" /\ watch[m].pc \in {"watching", "lost"} => watch'[m].pc \in {"watching", "lost"}
    BY <1>1, <1>2, <2>2
  <2>4. ASSUME mode = "Service", NEW v \in Watchers, watch[v].pc = "claimed", v[1] + 1 = owner
        PROVE  watch'[v].pc = "claimed"
    BY <1>1, <1>2, <2>4
  <2>5. QED
    BY <2>2, <2>3, <2>4 DEF Watched
<1>6. ASSUME NEW v \in Watchers PROVE WatcherOk(v)' /\ (watch[v].pc = "recovering" => watch'[v].pc = "recovering")
  <2>1. WatcherOk(v)
    BY <1>4 DEF WatchInv
  <2>2. CASE v = w
    BY <1>1, <2>1, <2>2 DEF WatcherOk
  <2>3. CASE v # w
    BY <1>2, <2>1, <2>3 DEF WatcherOk
  <2>4. QED
    BY <2>2, <2>3
<1>7. QED
  BY <1>3, <1>4, <1>5, <1>6 DEF WatchInv, At

\* The answer to a watcher.
LEMMA SampleKeeps ==
  ASSUME CoreInv, NEW w \in Watchers, Sample(w)
  PROVE  CoreInv'
PROOF
<1>1. TaskInv'
  BY NobodyMoves DEF CoreInv, Sample, locks, core, sidecar, service, os
<1>2. ProxyInv'
  BY ProxySame DEF CoreInv, Sample, locks, core, sidecar, service, os
<1>3. SidecarInv'
  BY SidecarSame DEF CoreInv, Sample, locks, core, sidecar, service, os
<1>4. WatchInv'
  <2>1. UNCHANGED <<owner, session, mode, life, task>> /\ watch[w].pc = "watching"
    BY DEF Sample, locks, core, sidecar, service, os
  <2>2. w[1] \in Nat /\ w = <<w[1], w[2]>>
    BY WatcherPair
  <2>3. CASE Superseded(w) /\ watch' = [watch EXCEPT ![w] = NoWatch]
    <3>1. WatcherMoves(w, "none", None)
      BY <2>3 DEF WatcherMoves, CoreInv, WatchInv, NoWatch
    <3>2. ~(mode = "Service" /\ w = <<owner, "monitor">>)
      BY <2>3 DEF Superseded
    <3>3. QED
      BY <2>1, <3>1, <3>2, OneWatcher
  <2>4. CASE watch' = [watch EXCEPT ![w].pc = "lost"]
    <3>1. WatcherMoves(w, "lost", watch[w].saw)
      <4>1. watch[w] = [pc |-> watch[w].pc, saw |-> watch[w].saw]
        BY DEF CoreInv, WatchInv, WatcherOk
      <4>2. [watch[w] EXCEPT !.pc = "lost"] = [pc |-> "lost", saw |-> watch[w].saw]
        BY <4>1
      <4>3. QED
        BY <2>4, <4>2 DEF WatcherMoves, CoreInv, WatchInv
    <3>2. QED
      BY <2>1, <3>1, OneWatcher
  <2>5. CASE w[2] = "reader" /\ watch' = [watch EXCEPT ![w] = NoWatch]
    <3>1. WatcherMoves(w, "none", None)
      BY <2>5 DEF WatcherMoves, CoreInv, WatchInv, NoWatch
    <3>2. w # <<owner, "monitor">>
      BY <2>5
    <3>3. QED
      BY <2>1, <3>1, <3>2, OneWatcher
  <2>6. QED
    BY <2>3, <2>4, <2>5 DEF Sample
<1>5. QED
  BY <1>1, <1>2, <1>3, <1>4 DEF CoreInv

\* A recovery claims the generation.
LEMMA ClaimKeeps ==
  ASSUME CoreInv, NEW w \in Watchers, Claim(w)
  PROVE  CoreInv'
PROOF
<1>1. TaskInv'
  BY NobodyMoves DEF CoreInv, Claim, locks, core, sidecar, service, os
<1>2. ProxyInv'
  BY ProxySame DEF CoreInv, Claim, locks, core, sidecar, service, os
<1>3. SidecarInv'
  BY SidecarSame DEF CoreInv, Claim, locks, core, sidecar, service, os
<1>4. WatchInv'
  <2>1. /\ UNCHANGED <<session, mode, life, task>> /\ watch[w].pc = "lost" /\ owner < MaxGen
        /\ owner \in Nat /\ owner \in Gens /\ WatchInv /\ w[1] \in Nat /\ w = <<w[1], w[2]>>
    BY NextGen, WatcherPair DEF Claim, locks, core, sidecar, service, os, CoreInv, WatchInv
  <2>2. CASE mode = "Service" /\ owner = w[1]
    <3>1. owner' = owner + 1 /\ owner' \in Gens
      BY <2>1, <2>2, NextGen DEF Claim
    <3>2. watch[w] = [pc |-> watch[w].pc, saw |-> watch[w].saw] /\ watch[w].saw = session
      BY <2>1, <2>2 DEF WatchInv, WatcherOk
    <3>3. [watch[w] EXCEPT !.pc = "claimed"] = [pc |-> "claimed", saw |-> session]
      BY <3>2
    <3>4. WatcherMoves(w, "claimed", session)
      BY <2>1, <2>2, <3>3 DEF Claim, WatcherMoves, WatchInv
    <3>5. ASSUME NEW v \in Watchers PROVE WatcherOk(v)'
      <4>1. CASE v = w
        <5>1. watch'[v] = [pc |-> "claimed", saw |-> session]
          BY <3>4, <4>1 DEF WatcherMoves
        <5>2. v[1] < owner' /\ v[1] <= owner'
          BY <2>1, <2>2, <3>1, <4>1
        <5>3. QED
          BY <2>1, <5>1, <5>2 DEF WatcherOk
      <4>2. CASE v # w
        <5>1. watch'[v] = watch[v] /\ WatcherOk(v)
          BY <2>1, <3>4, <4>2 DEF WatcherMoves, WatchInv
        <5>2. /\ watch[v].pc # "none" => v[1] <= owner' /\ v[1] # owner'
              /\ watch[v].pc \in {"claimed", "recovering"} => v[1] < owner' /\ v[1] + 1 # owner'
          BY <2>1, <3>1, <5>1, OlderWatcher
        <5>3. QED
          BY <2>1, <5>1, <5>2 DEF WatcherOk
      <4>3. QED
        BY <4>1, <4>2
    <3>6. watch'[w].pc = "claimed" /\ w[1] + 1 = owner' /\ watch' = [v \in Watchers |-> watch'[v]]
      BY <2>2, <3>1, <3>4 DEF WatcherMoves
    <3>7. Watched'
      BY <3>6 DEF Watched
    <3>8. QED
      BY <3>1, <3>5, <3>6, <3>7 DEF WatchInv
  <2>3. CASE ~(mode = "Service" /\ owner = w[1])
    <3>1. WatcherMoves(w, "none", None) /\ owner' = owner
      BY <2>3 DEF Claim, WatcherMoves, CoreInv, WatchInv, NoWatch
    <3>2. ~(mode = "Service" /\ w = <<owner, "monitor">>)
      BY <2>3
    <3>3. QED
      BY <2>1, <3>1, <3>2, OneWatcher
  <2>4. QED
    BY <2>2, <2>3
<1>5. QED
  BY <1>1, <1>2, <1>3, <1>4 DEF CoreInv

\* A recovery takes the lock, if the core is still the lost one.
LEMMA RecoverLockedKeeps ==
  ASSUME CoreInv, NEW w \in Watchers, RecoverLocked(w)
  PROVE  CoreInv'
PROOF
<1>1. /\ life = None /\ life' \in {None, w} /\ (\A u \in Tasks \cup Pids : u # w /\ u # None) /\ watch[w].pc = "claimed"
      /\ (\A u \in Watchers : u # None)
  BY IdentityAssumption DEF RecoverLocked
<1>2. TaskInv'
  BY <1>1, NobodyMoves DEF CoreInv, RecoverLocked, locks, core, sidecar, service, os
<1>3. ProxyInv'
  BY ProxySame DEF CoreInv, RecoverLocked, locks, core, sidecar, service, os
<1>4. SidecarInv'
  BY <1>1, SidecarSame DEF CoreInv, RecoverLocked, locks, core, sidecar, service, os
<1>5. WatchInv'
  <2>1. UNCHANGED <<owner, session, mode, task>> /\ WatchInv
    BY DEF RecoverLocked, CoreInv, locks, core, sidecar, service, os
  <2>2. CASE StillLost(w)
    <3>1. life' = w /\ mode = "Service" /\ owner = w[1] + 1
      BY <2>1, <2>2 DEF RecoverLocked, StillLost
    <3>2. /\ watch[w] = [pc |-> watch[w].pc, saw |-> watch[w].saw] /\ watch[w].saw = session
          /\ w[1] < owner /\ w[1] <= owner
      BY <1>1, <2>1, <3>1 DEF WatchInv, WatcherOk
    <3>3. [watch[w] EXCEPT !.pc = "recovering"] = [pc |-> "recovering", saw |-> session]
      BY <3>2
    <3>4. WatcherMoves(w, "recovering", session)
      BY <2>1, <2>2, <3>3 DEF RecoverLocked, WatcherMoves, WatchInv
    <3>5. ASSUME NEW v \in Watchers PROVE WatcherOk(v)'
      <4>1. CASE v = w
        <5>1. watch'[v] = [pc |-> "recovering", saw |-> session]
          BY <3>4, <4>1 DEF WatcherMoves
        <5>2. QED
          BY <2>1, <3>1, <3>2, <4>1, <5>1 DEF WatcherOk
      <4>2. CASE v # w
        <5>1. watch'[v] = watch[v] /\ WatcherOk(v)
          BY <2>1, <3>4, <4>2 DEF WatcherMoves, WatchInv
        <5>2. watch[v].pc # "recovering"
          BY <1>1, <5>1 DEF WatcherOk
        <5>3. QED
          BY <2>1, <5>1, <5>2 DEF WatcherOk
      <4>3. QED
        BY <4>1, <4>2
    <3>6. watch'[w].pc = "recovering" /\ watch' = [v \in Watchers |-> watch'[v]]
      BY <3>4 DEF WatcherMoves
    <3>7. QED
      BY <2>1, <3>5, <3>6 DEF WatchInv
  <2>3. CASE ~StillLost(w)
    <3>1. life' = life /\ WatcherMoves(w, "none", None)
      BY <2>1, <2>3 DEF RecoverLocked, WatcherMoves, WatchInv, NoWatch
    <3>2. ~(mode = "Service" /\ w[1] + 1 = owner)
      BY <2>3 DEF StillLost
    <3>3. ~(mode = "Service" /\ w = <<owner, "monitor">>)
      <4>1. w[1] < owner /\ w[1] \in Nat
        BY <1>1, <2>1, WatcherPair DEF WatchInv, WatcherOk
      <4>2. w[1] # owner
        BY <4>1
      <4>3. QED
        BY <4>2
    <3>4. QED
      BY <1>1, <2>1, <3>1, <3>2, <3>3, OneWatcher
  <2>4. QED
    BY <2>2, <2>3
<1>6. QED
  BY <1>2, <1>3, <1>4, <1>5 DEF CoreInv

\* It gives the core up and leaves the lock.
LEMMA RecoverKeeps ==
  ASSUME CoreInv, NEW w \in Watchers, Recover(w)
  PROVE  CoreInv'
PROOF
<1>1. life = w /\ life' = None /\ (\A u \in Tasks \cup Pids : u # w /\ u # None)
  BY IdentityAssumption DEF CoreInv, WatchInv, WatcherOk, Recover
<1>2. TaskInv'
  BY <1>1, NobodyMoves DEF CoreInv, Recover, locks, core, sidecar, service, os
<1>3. ProxyInv'
  BY DEF CoreInv, ProxyInv, Recover, core_stopped
<1>4. SidecarInv'
  BY <1>1, SidecarSame DEF CoreInv, Recover, locks, core, sidecar, service, os
<1>5. WatchInv'
  <2>1. mode' = "NotRunning" /\ owner' = owner /\ WatcherMoves(w, "none", None) /\ WatchInv
    BY DEF Recover, core_stopped, CoreInv, WatchInv, WatcherMoves, NoWatch
  <2>2. ASSUME NEW v \in Watchers PROVE WatcherOk(v)'
    <3>1. CASE v = w
      <4>1. watch'[v] = [pc |-> "none", saw |-> None]
        BY <2>1, <3>1 DEF WatcherMoves
      <4>2. QED
        BY <4>1 DEF WatcherOk
    <3>2. CASE v # w
      <4>1. watch'[v] = watch[v] /\ WatcherOk(v)
        BY <2>1, <3>2 DEF WatcherMoves, WatchInv
      <4>2. watch[v].pc # "recovering"
        BY <1>1, <3>2, <4>1 DEF WatcherOk
      <4>3. QED
        BY <2>1, <4>1, <4>2 DEF WatcherOk
    <3>3. QED
      BY <3>1, <3>2
  <2>3. watch' = [v \in Watchers |-> watch'[v]]
    BY <2>1 DEF WatcherMoves
  <2>4. QED
    BY <2>1, <2>2, <2>3 DEF WatchInv
<1>6. QED
  BY <1>2, <1>3, <1>4, <1>5 DEF CoreInv

(***************************************************************************)
(* The invariant                                                           *)
(***************************************************************************)

\* It holds before anything is called.
LEMMA CoreInit == Init => CoreInv
PROOF
<1> SUFFICES ASSUME Init PROVE CoreInv
  OBVIOUS
<1>1. ASSUME NEW t \in Tasks PROVE task[t] = NoTask /\ task[t].todo = <<>> /\ life # t
  BY <1>1, IdentityAssumption DEF Init, NoTask
<1>2. TaskShape
  BY DEF Init, TaskShape, NoTask
<1>3. TaskInv
  <2>1. <<>> \in Seq(Steps)
    OBVIOUS
  <2>2. \A t \in Tasks : Outside(t)
    BY <1>1, <2>1 DEF Outside
  <2>3. QED
    BY <1>1, <1>2, <2>2 DEF TaskInv
<1>4. ProxyInv
  BY DEF Init, ProxyInv
<1>5. SidecarInv
  BY DEF Init, SidecarInv, NoEvent
<1>6. WatchInv
  <2>1. owner \in Gens
    BY BoundsAssumption DEF Init, Gens
  <2>2. ASSUME NEW w \in Watchers PROVE WatcherOk(w)
    BY DEF Init, WatcherOk, NoWatch
  <2>3. QED
    BY <2>1, <2>2 DEF Init, WatchInv
<1>7. QED
  BY <1>3, <1>4, <1>5, <1>6 DEF CoreInv

\* A step of a task keeps it.
LEMMA TaskStepKeeps ==
  ASSUME CoreInv, NEW t \in Tasks, TaskStep(t)
  PROVE  CoreInv'
PROOF
<1>1. TaskInv /\ ProxyInv
  BY DEF CoreInv
<1>2. CASE End(t)
  BY <1>1, <1>2, EndKeeps, EndRest DEF Rest, CoreInv
<1>3. CASE Expand(t)
  BY <1>1, <1>3, ExpandKeeps, ExpandRest DEF Rest, CoreInv
<1>4. CASE ServiceFailed(t)
  BY <1>1, <1>4, ServiceFailedKeeps, ServiceFailedRest DEF Rest, CoreInv
<1>5. CASE Check(t)
  BY <1>1, <1>5, CheckKeeps, CheckRest DEF Rest, CoreInv
<1>6. CASE Allow(t)
  BY <1>1, <1>6, AllowKeeps, AllowRest DEF Rest, CoreInv
<1>7. CASE Uninstall(t)
  BY <1>1, <1>7, UninstallKeeps, UninstallRest DEF Rest, CoreInv
<1>8. CASE StillSidecar(t)
  BY <1>1, <1>8, StillSidecarKeeps, StillSidecarRest DEF Rest, CoreInv
<1>9. CASE ApplyConfig(t)
  BY <1>1, <1>9, ApplyConfigKeeps, ApplyConfigRest DEF Rest, CoreInv
<1>10. CASE Stage(t)
  BY <1>1, <1>10, StageKeeps, StageRest DEF Rest, CoreInv
<1>11. CASE Stop(t)
  BY <1>1, <1>11, StopKeeps, StopRest DEF Rest, CoreInv
<1>12. CASE Kill(t)
  BY <1>1, <1>12, KillKeeps, KillRest DEF Rest, CoreInv
<1>13. CASE WaitKilled(t)
  BY <1>1, <1>13, WaitKilledKeeps, WaitKilledRest DEF Rest, CoreInv
<1>14. CASE StopService(t)
  BY <1>1, <1>14, StopServiceKeeps, StopServiceRest DEF Rest, CoreInv
<1>15. CASE ServiceStops(t)
  BY <1>1, <1>15, ServiceStopsKeeps, ServiceStopsRest DEF Rest, CoreInv
<1>16. CASE Start(t)
  BY <1>1, <1>16, StartKeeps, StartRest DEF Rest, CoreInv
<1>17. CASE RollbackStart(t)
  BY <1>1, <1>17, RollbackStartKeeps, RollbackStartRest DEF Rest, CoreInv
<1>18. CASE WaitExit(t)
  BY <1>1, <1>18, WaitExitKeeps, WaitExitRest DEF Rest, CoreInv
<1>19. CASE Spawn(t)
  BY <1>1, <1>19, SpawnKeeps, SpawnRest DEF Rest, CoreInv
<1>20. CASE Poll(t)
  BY <1>1, <1>20, PollKeeps, PollRest DEF Rest, CoreInv
<1>21. CASE StartService(t)
  BY <1>1, <1>21, StartServiceKeeps, StartServiceRest DEF Rest, CoreInv
<1>22. CASE Clear(t)
  BY <1>1, <1>22, ClearKeeps, ClearRest DEF Rest, CoreInv
<1>23. CASE StopGuard(t)
  BY <1>1, <1>23, StopGuardKeeps, StopGuardRest DEF Rest, CoreInv
<1>24. CASE Capture(t)
  BY <1>1, <1>24, CaptureKeeps, CaptureRest DEF Rest, CoreInv
<1>25. CASE ApplyWrite(t)
  BY <1>1, <1>25, ApplyWriteKeeps, ApplyWriteRest DEF Rest, CoreInv
<1>26. CASE Refresh(t)
  BY <1>1, <1>26, RefreshKeeps, RefreshRest DEF Rest, CoreInv
<1>27. CASE Recheck(t)
  BY <1>1, <1>27, RecheckKeeps, RecheckRest DEF Rest, CoreInv
<1>28. QED
  BY <1>2, <1>3, <1>4, <1>5, <1>6, <1>7, <1>8, <1>9, <1>10, <1>11, <1>12, <1>13, <1>14, <1>15, <1>16,
     <1>17, <1>18, <1>19, <1>20, <1>21, <1>22, <1>23, <1>24, <1>25, <1>26, <1>27 DEF TaskStep

\* Every step keeps it.
LEMMA CoreStep == CoreInv /\ [Next]_vars => CoreInv'
PROOF
<1> SUFFICES ASSUME CoreInv, [Next]_vars PROVE CoreInv'
  OBVIOUS
<1>1. CASE UNCHANGED vars
  <2>1. UNCHANGED <<life, write, mode, child, exit, proc, event, owner, watch, session, owned, guard, want, task>>
    BY <1>1 DEF vars
  <2>2. TaskInv'
    BY <2>1, NobodyMoves DEF CoreInv
  <2>3. ProxyInv'
    BY <2>1, ProxySame DEF CoreInv
  <2>4. SidecarInv'
    BY <2>1, SidecarSame DEF CoreInv
  <2>5. WatchInv'
    BY <2>1, WatchAlone
  <2>6. QED
    BY <2>2, <2>3, <2>4, <2>5 DEF CoreInv
<1>2. ASSUME NEW t \in Tasks, WriteLock(t) PROVE CoreInv'
  BY <1>2, WriteLockKeeps, WriteLockRest DEF Rest, CoreInv
<1>3. ASSUME NEW t \in Tasks, Lock(t) PROVE CoreInv'
  BY <1>3, LockKeeps, LockRest DEF Rest, CoreInv
<1>4. ASSUME NEW t \in Tasks, NEW op \in Ops, Call(t, op) PROVE CoreInv'
  BY <1>4, CallKeeps, CallRest DEF Rest, CoreInv
<1>5. ASSUME NEW p \in Pids, Crash(p) \/ EventStep(p) PROVE CoreInv'
  BY <1>5, CrashKeeps, TerminatedKeeps, ClearTerminatedKeeps, ClearedKeeps DEF EventStep
<1>6. ASSUME NEW w \in Watchers, WatchStep(w) PROVE CoreInv'
  BY <1>6, SampleKeeps, ClaimKeeps, RecoverLockedKeeps, RecoverKeeps DEF WatchStep
<1>7. QED
  BY <1>1, <1>2, <1>3, <1>4, <1>5, <1>6, TaskStepKeeps, ServiceLosesKeeps, ReadLogsKeeps DEF Next

\* The invariant holds in every reachable state.
THEOREM CoreInvariant == Spec => []CoreInv
PROOF
<1>1. QED
  BY CoreInit, CoreStep, PTL DEF Spec

(***************************************************************************)
(* What follows from it                                                    *)
(***************************************************************************)

\* OneSidecar: however many operations race, and whichever kills and waits
\* fail, at most the process whose exit handle is kept is alive.
THEOREM OneSidecarCorrect == Spec => []OneSidecar
PROOF
<1>1. CoreInv => OneSidecar
  <2> SUFFICES ASSUME CoreInv PROVE OneSidecar
    OBVIOUS
  <2> DEFINE A == {p \in Pids : proc[p] = "alive"}
  <2>1. A \subseteq {exit}
    BY DEF CoreInv, SidecarInv
  <2>2. IsFiniteSet({exit}) /\ Cardinality({exit}) = 1
    BY FS_Singleton
  <2>3. Cardinality(A) <= 1
    BY <2>1, <2>2, FS_Subset
  <2>4. QED
    BY <2>3 DEF OneSidecar
<1>2. QED
  BY <1>1, CoreInvariant, PTL

\* GuardHasCore: when everything has settled, no guard re-asserts this
\* instance's proxy in front of a core that is gone.
THEOREM GuardHasCoreCorrect == Spec => []GuardHasCore
PROOF
<1>1. CoreInv => GuardHasCore
  BY DEF CoreInv, ProxyInv, GuardHasCore
<1>2. QED
  BY <1>1, CoreInvariant, PTL

\* ServiceIsWatched: whenever the lifecycle lock is free, the loss of a Service
\* core will be noticed or is being recovered from.
THEOREM WatchedCorrect == Spec => []ServiceIsWatched
PROOF
<1>1. CoreInv => ServiceIsWatched
  BY NobodyHolds DEF ServiceIsWatched, Watched
<1>2. QED
  BY <1>1, CoreInvariant, PTL

(***************************************************************************)
(* What a step may never do                                                *)
(***************************************************************************)

\* A task that does not hold the lock changes nothing but its own list, its
\* locks and the setting.
LEMMA OthersOnly ==
  ASSUME CoreInv, NEW t \in Tasks, TaskStep(t), life # t
  PROVE  End(t) \/ ApplyConfig(t)
PROOF
<1>1. ~Expand(t)
  <2>1. SUFFICES ASSUME Expand(t) PROVE FALSE
    OBVIOUS
  <2>2. PICK h \in {"raise", "hand over", "fall back", "uninstall and start", "rollback", "apply if ready"} : At(t, h)
    BY <2>1 DEF Expand
  <2>3. h \in Steps \ (Entry \cup {"end"})
    BY DEF Steps, Entry
  <2>4. QED
    BY <2>2, <2>3, HolderAt
<1>2. ~ServiceFailed(t)
  <2>1. SUFFICES ASSUME ServiceFailed(t) PROVE FALSE
    OBVIOUS
  <2>2. PICK h \in {"service failed"} : At(t, h)
    BY <2>1 DEF ServiceFailed
  <2>3. h \in Steps \ (Entry \cup {"end"})
    BY DEF Steps, Entry
  <2>4. QED
    BY <2>2, <2>3, HolderAt
<1>3. ~Check(t)
  <2>1. SUFFICES ASSUME Check(t) PROVE FALSE
    OBVIOUS
  <2>2. PICK h \in {"must run", "must sidecar", "must service", "still service"} : At(t, h)
    BY <2>1, CheckAt
  <2>3. h \in Steps \ (Entry \cup {"end"})
    BY DEF Steps, Entry
  <2>4. QED
    BY <2>2, <2>3, HolderAt
<1>4. ~Allow(t)
  <2>1. SUFFICES ASSUME Allow(t) PROVE FALSE
    OBVIOUS
  <2>2. PICK h \in {"allow"} : At(t, h)
    BY <2>1 DEF Allow
  <2>3. h \in Steps \ (Entry \cup {"end"})
    BY DEF Steps, Entry
  <2>4. QED
    BY <2>2, <2>3, HolderAt
<1>5. ~Uninstall(t)
  <2>1. SUFFICES ASSUME Uninstall(t) PROVE FALSE
    OBVIOUS
  <2>2. PICK h \in {"uninstall"} : At(t, h)
    BY <2>1 DEF Uninstall
  <2>3. h \in Steps \ (Entry \cup {"end"})
    BY DEF Steps, Entry
  <2>4. QED
    BY <2>2, <2>3, HolderAt
<1>6. ~StillSidecar(t)
  <2>1. SUFFICES ASSUME StillSidecar(t) PROVE FALSE
    OBVIOUS
  <2>2. PICK h \in {"still sidecar"} : At(t, h)
    BY <2>1 DEF StillSidecar
  <2>3. h \in Steps \ (Entry \cup {"end"})
    BY DEF Steps, Entry
  <2>4. QED
    BY <2>2, <2>3, HolderAt
<1>7. ~Stage(t)
  <2>1. SUFFICES ASSUME Stage(t) PROVE FALSE
    OBVIOUS
  <2>2. PICK h \in {"stage"} : At(t, h)
    BY <2>1 DEF Stage
  <2>3. h \in Steps \ (Entry \cup {"end"})
    BY DEF Steps, Entry
  <2>4. QED
    BY <2>2, <2>3, HolderAt
<1>8. ~Stop(t)
  <2>1. SUFFICES ASSUME Stop(t) PROVE FALSE
    OBVIOUS
  <2>2. PICK h \in {"stop", "stop for restart"} : At(t, h)
    BY <2>1 DEF Stop
  <2>3. h \in Steps \ (Entry \cup {"end"})
    BY DEF Steps, Entry
  <2>4. QED
    BY <2>2, <2>3, HolderAt
<1>9. ~Start(t)
  <2>1. SUFFICES ASSUME Start(t) PROVE FALSE
    OBVIOUS
  <2>2. PICK h \in {"start"} : At(t, h)
    BY <2>1 DEF Start
  <2>3. h \in Steps \ (Entry \cup {"end"})
    BY DEF Steps, Entry
  <2>4. QED
    BY <2>2, <2>3, HolderAt
<1>10. ~Capture(t)
  <2>1. SUFFICES ASSUME Capture(t) PROVE FALSE
    OBVIOUS
  <2>2. PICK h \in {"capture"} : At(t, h)
    BY <2>1 DEF Capture
  <2>3. h \in Steps \ (Entry \cup {"end"})
    BY DEF Steps, Entry
  <2>4. QED
    BY <2>2, <2>3, HolderAt
<1>11. ~Kill(t)
  <2>1. SUFFICES ASSUME Kill(t) PROVE FALSE
    OBVIOUS
  <2>2. PICK h \in {"kill"} : At(t, h)
    BY <2>1 DEF Kill
  <2>3. h \in Steps \ (Entry \cup {"end"})
    BY DEF Steps, Entry
  <2>4. QED
    BY <2>2, <2>3, HolderAt
<1>12. ~WaitKilled(t)
  <2>1. SUFFICES ASSUME WaitKilled(t) PROVE FALSE
    OBVIOUS
  <2>2. PICK h \in {"wait killed"} : At(t, h)
    BY <2>1 DEF WaitKilled
  <2>3. h \in Steps \ (Entry \cup {"end"})
    BY DEF Steps, Entry
  <2>4. QED
    BY <2>2, <2>3, HolderAt
<1>13. ~StopService(t)
  <2>1. SUFFICES ASSUME StopService(t) PROVE FALSE
    OBVIOUS
  <2>2. PICK h \in {"stop service"} : At(t, h)
    BY <2>1 DEF StopService
  <2>3. h \in Steps \ (Entry \cup {"end"})
    BY DEF Steps, Entry
  <2>4. QED
    BY <2>2, <2>3, HolderAt
<1>14. ~ServiceStops(t)
  <2>1. SUFFICES ASSUME ServiceStops(t) PROVE FALSE
    OBVIOUS
  <2>2. PICK h \in {"service stops"} : At(t, h)
    BY <2>1 DEF ServiceStops
  <2>3. h \in Steps \ (Entry \cup {"end"})
    BY DEF Steps, Entry
  <2>4. QED
    BY <2>2, <2>3, HolderAt
<1>15. ~RollbackStart(t)
  <2>1. SUFFICES ASSUME RollbackStart(t) PROVE FALSE
    OBVIOUS
  <2>2. PICK h \in {"rollback start"} : At(t, h)
    BY <2>1 DEF RollbackStart
  <2>3. h \in Steps \ (Entry \cup {"end"})
    BY DEF Steps, Entry
  <2>4. QED
    BY <2>2, <2>3, HolderAt
<1>16. ~WaitExit(t)
  <2>1. SUFFICES ASSUME WaitExit(t) PROVE FALSE
    OBVIOUS
  <2>2. PICK h \in {"wait exit"} : At(t, h)
    BY <2>1 DEF WaitExit
  <2>3. h \in Steps \ (Entry \cup {"end"})
    BY DEF Steps, Entry
  <2>4. QED
    BY <2>2, <2>3, HolderAt
<1>17. ~Spawn(t)
  <2>1. SUFFICES ASSUME Spawn(t) PROVE FALSE
    OBVIOUS
  <2>2. PICK h \in {"spawn"} : At(t, h)
    BY <2>1 DEF Spawn
  <2>3. h \in Steps \ (Entry \cup {"end"})
    BY DEF Steps, Entry
  <2>4. QED
    BY <2>2, <2>3, HolderAt
<1>18. ~Poll(t)
  <2>1. SUFFICES ASSUME Poll(t) PROVE FALSE
    OBVIOUS
  <2>2. PICK h \in {"poll"} : At(t, h)
    BY <2>1 DEF Poll
  <2>3. h \in Steps \ (Entry \cup {"end"})
    BY DEF Steps, Entry
  <2>4. QED
    BY <2>2, <2>3, HolderAt
<1>19. ~StartService(t)
  <2>1. SUFFICES ASSUME StartService(t) PROVE FALSE
    OBVIOUS
  <2>2. PICK h \in {"start service"} : At(t, h)
    BY <2>1 DEF StartService
  <2>3. h \in Steps \ (Entry \cup {"end"})
    BY DEF Steps, Entry
  <2>4. QED
    BY <2>2, <2>3, HolderAt
<1>20. ~Clear(t)
  <2>1. SUFFICES ASSUME Clear(t) PROVE FALSE
    OBVIOUS
  <2>2. PICK h \in {"clear"} : At(t, h)
    BY <2>1 DEF Clear
  <2>3. h \in Steps \ (Entry \cup {"end"})
    BY DEF Steps, Entry
  <2>4. QED
    BY <2>2, <2>3, HolderAt
<1>21. ~StopGuard(t)
  <2>1. SUFFICES ASSUME StopGuard(t) PROVE FALSE
    OBVIOUS
  <2>2. PICK h \in {"stop guard"} : At(t, h)
    BY <2>1 DEF StopGuard
  <2>3. h \in Steps \ (Entry \cup {"end"})
    BY DEF Steps, Entry
  <2>4. QED
    BY <2>2, <2>3, HolderAt
<1>22. ~ApplyWrite(t)
  <2>1. SUFFICES ASSUME ApplyWrite(t) PROVE FALSE
    OBVIOUS
  <2>2. PICK h \in {"apply"} : At(t, h)
    BY <2>1 DEF ApplyWrite
  <2>3. h \in Steps \ (Entry \cup {"end"})
    BY DEF Steps, Entry
  <2>4. QED
    BY <2>2, <2>3, HolderAt
<1>23. ~Refresh(t)
  <2>1. SUFFICES ASSUME Refresh(t) PROVE FALSE
    OBVIOUS
  <2>2. PICK h \in {"refresh"} : At(t, h)
    BY <2>1 DEF Refresh
  <2>3. h \in Steps \ (Entry \cup {"end"})
    BY DEF Steps, Entry
  <2>4. QED
    BY <2>2, <2>3, HolderAt
<1>24. ~Recheck(t)
  <2>1. SUFFICES ASSUME Recheck(t) PROVE FALSE
    OBVIOUS
  <2>2. PICK h \in {"check apply", "check refresh"} : At(t, h)
    BY <2>1 DEF Recheck
  <2>3. h \in Steps \ (Entry \cup {"end"})
    BY DEF Steps, Entry
  <2>4. QED
    BY <2>2, <2>3, HolderAt
<1>25. QED
  BY <1>1, <1>2, <1>3, <1>4, <1>5, <1>6, <1>7, <1>8, <1>9, <1>10, <1>11, <1>12, <1>13, <1>14, <1>15,
     <1>16, <1>17, <1>18, <1>19, <1>20, <1>21, <1>22, <1>23, <1>24 DEF TaskStep

\* LiveSidecarKept: only a task that holds the lock takes a live sidecar out of
\* Sidecar mode; a late Terminated event never does.
THEOREM LiveKept == Spec => LiveSidecarKept
PROOF
<1> DEFINE A == mode = "Sidecar" /\ child # None /\ proc[child] = "alive"
                  => (mode' = "Sidecar" /\ child' = child) \/ life \in Tasks
<1>1. CoreInv /\ [Next]_vars => [A]_vars
  <2> SUFFICES ASSUME CoreInv, Next, mode = "Sidecar", child # None, proc[child] = "alive", life \notin Tasks
               PROVE  mode' = mode /\ child' = child
    OBVIOUS
  <2>1. ASSUME NEW t \in Tasks, WriteLock(t) PROVE mode' = mode /\ child' = child
    BY <2>1 DEF WriteLock, core, sidecar
  <2>2. ASSUME NEW t \in Tasks, Lock(t) PROVE mode' = mode /\ child' = child
    BY <2>2 DEF Lock, core, sidecar
  <2>3. ASSUME NEW t \in Tasks, NEW op \in Ops, Call(t, op) PROVE mode' = mode /\ child' = child
    BY <2>3 DEF Call, core, sidecar
  <2>4. ASSUME NEW t \in Tasks, TaskStep(t) PROVE mode' = mode /\ child' = child
    <3>1. life # t
      OBVIOUS
    <3>2. End(t) \/ ApplyConfig(t)
      BY <2>4, <3>1, OthersOnly
    <3>3. QED
      BY <3>2 DEF End, ApplyConfig, core, sidecar
  <2>5. ASSUME NEW p \in Pids, Crash(p) \/ EventStep(p) PROVE mode' = mode /\ child' = child
    <3>1. CASE Crash(p)
      BY <3>1 DEF Crash, core
    <3>2. CASE Terminated(p)
      BY <3>2 DEF Terminated
    <3>3. CASE ClearTerminated(p)
      <4>1. proc[p] = "dead" /\ ~should_clear_terminated_sidecar(p)
        BY <3>3 DEF ClearTerminated, CoreInv, SidecarInv, should_clear_terminated_sidecar
      <4>2. QED
        BY <3>3, <4>1 DEF ClearTerminated, core
    <3>4. CASE Cleared(p)
      BY <3>4 DEF Cleared, CoreInv, SidecarInv
    <3>5. QED
      BY <2>5, <3>1, <3>2, <3>3, <3>4 DEF EventStep
  <2>6. ASSUME NEW w \in Watchers, WatchStep(w) PROVE mode' = mode /\ child' = child
    <3>1. ~Recover(w)
      BY DEF Recover, CoreInv, WatchInv, WatcherOk
    <3>2. QED
      BY <2>6, <3>1 DEF WatchStep, Sample, Claim, RecoverLocked, core, sidecar
  <2>7. CASE ServiceLoses \/ ReadLogs
    BY <2>7 DEF ServiceLoses, ReadLogs, core, sidecar
  <2>8. QED
    BY <2>1, <2>2, <2>3, <2>4, <2>5, <2>6, <2>7 DEF Next
<1>2. QED
  BY <1>1, CoreInvariant, PTL DEF Spec, LiveSidecarKept

\* Only the answer to a stop takes both the session and the Service's core away.
LEMMA BothGo ==
  ASSUME CoreInv, Next, svc = session, session # None, svc' = None, session' = None
  PROVE  \E t \in Tasks : At(t, "service stops")
PROOF
<1>1. SUFFICES ASSUME \A t \in Tasks : ~At(t, "service stops") PROVE svc' # None \/ session' = session
  OBVIOUS
<1>2. ASSUME NEW t \in Tasks, WriteLock(t) PROVE session' = session
  BY <1>2 DEF WriteLock, service
<1>3. ASSUME NEW t \in Tasks, Lock(t) PROVE session' = session
  BY <1>3 DEF Lock, service
<1>4. ASSUME NEW t \in Tasks, NEW op \in Ops, Call(t, op) PROVE session' = session
  BY <1>4 DEF Call, service
<1>5. ASSUME NEW t \in Tasks, TaskStep(t) PROVE svc' # None \/ session' = session
  <2>1. CASE StartService(t)
    <3>1. owner + 1 # None
      BY <2>1, NextGen, IdentityAssumption DEF StartService, CoreInv, WatchInv
    <3>2. QED
      BY <2>1, <3>1 DEF StartService
  <2>2. ~ServiceStops(t)
    BY <1>1 DEF ServiceStops
  <2>3. ASSUME TaskStep(t), ~StartService(t), ~ServiceStops(t) PROVE session' = session
    <3>1. CASE End(t)
      BY <3>1 DEF End, service
    <3>2. CASE Expand(t)
      BY <3>2 DEF Expand, service
    <3>3. CASE ServiceFailed(t)
      BY <3>3 DEF ServiceFailed, service
    <3>4. CASE Check(t)
      BY <3>4 DEF Check, service
    <3>5. CASE Allow(t)
      BY <3>5 DEF Allow, service
    <3>6. CASE Uninstall(t)
      BY <3>6 DEF Uninstall, service
    <3>7. CASE StillSidecar(t)
      BY <3>7 DEF StillSidecar, service
    <3>8. CASE ApplyConfig(t)
      BY <3>8 DEF ApplyConfig, service
    <3>9. CASE Stage(t)
      BY <3>9 DEF Stage, service
    <3>10. CASE Stop(t)
      BY <3>10 DEF Stop, service
    <3>11. CASE Kill(t)
      BY <3>11 DEF Kill, service
    <3>12. CASE WaitKilled(t)
      BY <3>12 DEF WaitKilled, service
    <3>13. CASE StopService(t)
      BY <3>13 DEF StopService, service
    <3>14. CASE Start(t)
      BY <3>14 DEF Start, service
    <3>15. CASE RollbackStart(t)
      BY <3>15 DEF RollbackStart, service
    <3>16. CASE WaitExit(t)
      BY <3>16 DEF WaitExit, service
    <3>17. CASE Spawn(t)
      BY <3>17 DEF Spawn, service
    <3>18. CASE Poll(t)
      BY <3>18 DEF Poll, service
    <3>19. CASE Clear(t)
      BY <3>19 DEF Clear, service
    <3>20. CASE StopGuard(t)
      BY <3>20 DEF StopGuard, service
    <3>21. CASE Capture(t)
      BY <3>21 DEF Capture, service
    <3>22. CASE ApplyWrite(t)
      BY <3>22 DEF ApplyWrite, service
    <3>23. CASE Refresh(t)
      BY <3>23 DEF Refresh, service
    <3>24. CASE Recheck(t)
      BY <3>24 DEF Recheck, service
    <3>25. QED
      BY <2>3, <3>1, <3>2, <3>3, <3>4, <3>5, <3>6, <3>7, <3>8, <3>9, <3>10, <3>11, <3>12, <3>13, <3>14,
         <3>15, <3>16, <3>17, <3>18, <3>19, <3>20, <3>21, <3>22, <3>23, <3>24 DEF TaskStep
  <2>4. QED
    BY <1>5, <2>1, <2>2, <2>3
<1>6. ASSUME NEW p \in Pids, Crash(p) \/ EventStep(p) PROVE session' = session
  BY <1>6 DEF EventStep, Crash, Terminated, ClearTerminated, Cleared, service
<1>7. ASSUME NEW w \in Watchers, WatchStep(w) PROVE svc' = svc
  BY <1>7 DEF WatchStep, Sample, Claim, RecoverLocked, Recover
<1>8. CASE ServiceLoses \/ ReadLogs
  BY <1>8 DEF ServiceLoses, ReadLogs
<1>9. QED
  BY <1>2, <1>3, <1>4, <1>5, <1>6, <1>7, <1>8 DEF Next

\* StopsAfterClear: off macOS, whoever stops the core, the proxy was given up
\* before.
THEOREM StopsClear == Spec => StopsAfterClear
PROOF
<1> DEFINE A == Platform # "macos" =>
                  /\ (child # None /\ child' = None /\ \E t \in Tasks : At(t, "kill")) => ~owned
                  /\ (svc = session /\ session # None /\ svc' = None /\ session' = None) => ~owned
<1>1. CoreInv /\ [Next]_vars => [A]_vars
  <2> SUFFICES ASSUME CoreInv, Next, Platform # "macos" PROVE A
    OBVIOUS
  <2>1. ASSUME NEW t \in Tasks, NEW h \in {"kill", "service stops"}, At(t, h) PROVE owned = FALSE
    <3>1. h \in Steps \ (Entry \cup {"end"})
      BY DEF Steps, Entry
    <3>2. Cond(t, h)
      BY <2>1, <3>1, HolderAt
    <3>3. QED
      BY <3>2 DEF Cond
  <2>2. (\E t \in Tasks : At(t, "kill")) => owned = FALSE
    BY <2>1
  <2>3. svc = session /\ session # None /\ svc' = None /\ session' = None => owned = FALSE
    BY <2>1, BothGo
  <2>4. QED
    BY <2>2, <2>3
<1>2. QED
  BY <1>1, CoreInvariant, PTL DEF Spec, StopsAfterClear

\* NewerSessionSurvives: a recovery that holds the lock retires the session it
\* saw lost and no other.
THEOREM SessionSurvives == Spec => NewerSessionSurvives
PROOF
<1> DEFINE A == \A w \in Watchers :
                  watch[w].pc = "recovering" /\ watch'[w].pc # "recovering" => session = watch[w].saw
<1>1. CoreInv => [A]_vars
  BY DEF CoreInv, WatchInv, WatcherOk
<1>2. QED
  BY <1>1, CoreInvariant, PTL DEF NewerSessionSurvives

(***************************************************************************)
(* Every operation has a step left, and what is held is given back         *)
(***************************************************************************)

\* A list of steps that ends: what it ends with gives everything back.
Ends(s) == s \in Seq(Steps) /\ s # <<>> /\ s[Len(s)] \in {"end", "failed"}

\* What follows a step that is not the end of such a list is one too.
LEMMA RestEnds ==
  ASSUME NEW s, Ends(s), NEW k \in 1 .. Len(s), s[k] \notin {"end", "failed"}
  PROVE  Ends(SubSeq(s, k + 1, Len(s)))
PROOF
<1> DEFINE v == SubSeq(s, k + 1, Len(s))
<1>1. s \in Seq(Steps) /\ Len(s) \in Nat /\ Len(s) >= 1 /\ k \in Nat /\ k >= 1 /\ k <= Len(s)
  BY HasFirst DEF Ends
<1>2. k # Len(s)
  BY DEF Ends
<1>3. k + 1 <= Len(s) /\ k + 1 \in 1 .. Len(s)
  BY <1>1, <1>2
<1>4. \A i \in k + 1 .. Len(s) : s[i] \in Steps
  BY <1>1, <1>3, ElementOfSeq
<1>5. /\ v \in Seq(Steps) /\ Len(v) = Len(s) - (k + 1) + 1
      /\ \A i \in 1 .. Len(s) - (k + 1) + 1 : v[i] = s[(k + 1) + i - 1]
  BY <1>1, <1>3, <1>4, SubSeqProperties
<1> HIDE DEF v
<1>6. /\ Len(v) \in 1 .. Len(s) - (k + 1) + 1 /\ Len(v) >= 1
      /\ (k + 1) + Len(v) - 1 = Len(s)
  BY <1>1, <1>3, <1>5
<1>7. v[Len(v)] = s[Len(s)] /\ v # <<>>
  BY <1>5, <1>6, HasFirst
<1>8. QED
  BY <1>5, <1>7 DEF Ends, v

\* The rest of such a list.
LEMMA TailEnds ==
  ASSUME NEW s, Ends(s), Head(s) \notin {"end", "failed"}
  PROVE  Ends(Tail(s))
PROOF
<1>1. s \in Seq(Steps) /\ s # <<>> /\ 1 \in 1 .. Len(s) /\ Head(s) = s[1]
  BY HasFirst DEF Ends
<1>2. Tail(s) = SubSeq(s, 1 + 1, Len(s))
  <2>1. 1 + 1 = 2
    OBVIOUS
  <2>2. QED
    BY <1>1, <2>1, TailIsSubSeq
<1>3. QED
  BY <1>1, <1>2, RestEnds

\* It may come after any steps.
LEMMA JoinEnds ==
  ASSUME NEW u \in Seq(Steps), NEW v, Ends(v)
  PROVE  Ends(u \o v)
PROOF
<1> DEFINE w == u \o v
<1>1. v \in Seq(Steps) /\ Len(u) \in Nat /\ Len(v) \in Nat /\ Len(v) >= 1
  BY HasFirst DEF Ends
<1>2. /\ w \in Seq(Steps) /\ Len(w) = Len(u) + Len(v)
      /\ \A i \in 1 .. Len(u) + Len(v) : w[i] = IF i <= Len(u) THEN u[i] ELSE v[i - Len(u)]
  BY <1>1, ConcatProperties
<1> HIDE DEF w
<1>3. Len(w) \in 1 .. Len(u) + Len(v) /\ ~(Len(w) <= Len(u)) /\ Len(w) - Len(u) = Len(v)
  BY <1>1, <1>2
<1>4. w[Len(w)] = v[Len(v)] /\ w # <<>>
  BY <1>2, <1>3, EmptySeq
<1>5. QED
  BY <1>2, <1>4 DEF Ends, w

\* The end is no handler.
LEMMA NoCatchEnds == \A c \in Catches : c \notin {"end", "failed"}
PROOF
  BY CatchSet

\* A handler that comes up is not the end.
LEMMA SkipEnds ==
  ASSUME NEW s, Ends(s)
  PROVE  Ends(Skip(s))
PROOF
<1>1. CASE s # <<>> /\ Head(s) \in Catches
  BY <1>1, TailEnds, NoCatchEnds DEF Skip
<1>2. CASE ~(s # <<>> /\ Head(s) \in Catches)
  BY <1>2 DEF Skip
<1>3. QED
  BY <1>1, <1>2

\* A list of one such step.
LEMMA LastEnds ==
  ASSUME NEW x \in {"end", "failed"}
  PROVE  Ends(<<x>>)
PROOF
<1>1. x \in Steps
  BY DEF Steps
<1>2. QED
  BY <1>1, List1 DEF Ends

\* What a failing step leaves ends as well.
LEMMA UnwoundEnds ==
  ASSUME NEW s, Ends(s)
  PROVE  Ends(Unwound(s))
PROOF
<1> DEFINE at == {i \in 1 .. Len(s) : s[i] \in Catches}
<1>1. s \in Seq(Steps) /\ Len(s) \in Nat
  BY HasFirst DEF Ends
<1>2. CASE at = {}
  BY <1>2, LastEnds DEF Unwound
<1>3. CASE at # {}
  <2> DEFINE k == CHOOSE j \in at : \A i \in at : j <= i
  <2> DEFINE v == SubSeq(s, k + 1, Len(s))
  <2>1. at \in SUBSET Nat
    BY <1>1
  <2>2. \E j \in at : \A i \in at : j <= i
    BY <1>3, <2>1, Least
  <2>3. k \in at
    BY <2>2
  <2>4. k \in 1 .. Len(s) /\ s[k] \in Catches
    BY <2>3
  <2>5. Unwound(s) = Handler[s[k]] \o v
    BY <1>3 DEF Unwound
  <2> HIDE DEF k
  <2>6. Ends(v)
    BY <2>4, RestEnds, NoCatchEnds
  <2>7. Handler[s[k]] \in Seq(Steps)
    BY <2>4, Handlers DEF Chunk, Piece, Sound
  <2>8. QED
    BY <2>5, <2>6, <2>7, JoinEnds
<1>4. QED
  BY <1>2, <1>3

\* How a step leaves the list of its task, when it is not the last.
Goes(t) ==
  \/ \E u \in Seq(Steps) : Then(t, u)
  \/ Raise(t)
  \/ \E x \in {"end", "failed"} : task' = [task EXCEPT ![t].todo = <<x>>]

\* Then the list still ends.
LEMMA GoesEnds ==
  ASSUME TaskShape, NEW t \in Tasks, Ends(task[t].todo), Head(task[t].todo) \notin {"end", "failed"}, Goes(t)
  PROVE  Moves(t) /\ Ends(task'[t].todo)
PROOF
<1> DEFINE r == Tail(task[t].todo)
<1>1. Ends(r)
  BY TailEnds
<1>2. ASSUME NEW u \in Seq(Steps), Then(t, u) PROVE Moves(t) /\ Ends(task'[t].todo)
  <2>1. task' = [task EXCEPT ![t].todo = Skip(u \o r)]
    BY <1>2 DEF Then
  <2>2. Ends(Skip(u \o r))
    BY <1>1, JoinEnds, SkipEnds
  <2>3. QED
    BY <2>1, <2>2, Updated
<1>3. ASSUME Raise(t) PROVE Moves(t) /\ Ends(task'[t].todo)
  <2>1. task' = [task EXCEPT ![t].todo = Unwound(r)]
    BY <1>3 DEF Raise
  <2>2. Ends(Unwound(r))
    BY <1>1, UnwoundEnds
  <2> HIDE DEF r
  <2>3. QED
    BY <2>1, <2>2, Updated
<1>4. ASSUME NEW x \in {"end", "failed"}, task' = [task EXCEPT ![t].todo = <<x>>]
      PROVE  Moves(t) /\ Ends(task'[t].todo)
  BY <1>4, LastEnds, Updated
<1>5. QED
  BY <1>2, <1>3, <1>4 DEF Goes

\* The lists the operations and the steps begin with.
LEMMA InSteps ==
  /\ <<>> \in Seq(Steps) /\ ApplyProxy \in Seq(Steps) /\ StartSidecar \in Seq(Steps) /\ Terminate \in Seq(Steps)
  /\ \A a \in Steps : <<a>> \in Seq(Steps)
  /\ \A a, b \in Steps : <<a, b>> \in Seq(Steps)
  /\ \A a, b, c \in Steps : <<a, b, c>> \in Seq(Steps)
  /\ \A a, b, c, d \in Steps : <<a, b, c, d>> \in Seq(Steps)
  /\ \A a, b, c, d, e, f \in Steps : <<a, b, c, d, e, f>> \in Seq(Steps)
  /\ \A u, v \in Seq(Steps) : u \o v \in Seq(Steps)
PROOF
<1>1. ApplyProxy \in Seq(Steps) /\ StartSidecar \in Seq(Steps) /\ Terminate \in Seq(Steps)
  BY Parts, ProxyPiece DEF Chunk, Piece, Sound
<1>2. <<>> \in Seq(Steps)
  OBVIOUS
<1>3. ASSUME NEW u \in Seq(Steps), NEW v \in Seq(Steps) PROVE u \o v \in Seq(Steps)
  BY ConcatProperties
<1>4. QED
  BY <1>1, <1>2, <1>3, List1, List2, List3, List4, List6

\* What an operation sets out to do is a list of steps.
LEMMA PlanSteps ==
  ASSUME NEW op \in {"start", "stop", "restart", "sidecar", "uninstall", "handoff", "config", "proxy on", "proxy off"}
  PROVE  Plan(op) \in Seq(Steps)
PROOF
<1>1. Plan("start") \in Seq(Steps)
  <2>1. "lock" \in Steps /\ "start" \in Steps /\ "apply if ready" \in Steps
    BY DEF Steps
  <2>2. QED
    BY <2>1, InSteps DEF Plan
<1>2. Plan("stop") \in Seq(Steps)
  <2>1. "lock" \in Steps /\ "stop" \in Steps
    BY DEF Steps
  <2>2. QED
    BY <2>1, InSteps DEF Plan
<1>3. Plan("restart") \in Seq(Steps)
  <2>1. "lock" \in Steps /\ "stop for restart" \in Steps /\ "start" \in Steps /\ "must run" \in Steps
    BY DEF Steps
  <2>2. QED
    BY <2>1, InSteps DEF Plan
<1>4. Plan("sidecar") \in Seq(Steps)
  <2>1. /\ "write lock" \in Steps /\ "lock" \in Steps /\ "allow" \in Steps /\ "stop guard" \in Steps
        /\ "start" \in Steps /\ "must sidecar" \in Steps /\ "catch rollback" \in Steps
    BY DEF Steps
  <2>2. <<"write lock", "lock", "allow", "stop guard", "start", "must sidecar">> \o ApplyProxy \in Seq(Steps)
    BY <2>1, InSteps
  <2>3. QED
    BY <2>1, <2>2, InSteps DEF Plan
<1>5. Plan("uninstall") \in Seq(Steps)
  <2>1. "write lock" \in Steps /\ "lock" \in Steps /\ "stop" \in Steps /\ "uninstall and start" \in Steps
    BY DEF Steps
  <2>2. QED
    BY <2>1, InSteps DEF Plan
<1>6. Plan("handoff") \in Seq(Steps)
  <2>1. "lock" \in Steps /\ "still sidecar" \in Steps /\ "clear" \in Steps /\ "hand over" \in Steps
    BY DEF Steps
  <2>2. <<"lock", "still sidecar", "clear">> \o Terminate \in Seq(Steps)
    BY <2>1, InSteps
  <2>3. QED
    BY <2>1, <2>2, InSteps DEF Plan
<1>7. Plan("config") \in Seq(Steps)
  <2>1. "apply config" \in Steps
    BY DEF Steps
  <2>2. QED
    BY <2>1, InSteps DEF Plan
<1>8. Plan("proxy on") \in Seq(Steps)
  <2>1. "write lock" \in Steps /\ "lock" \in Steps
    BY DEF Steps
  <2>2. QED
    BY <2>1, InSteps DEF Plan
<1>9. Plan("proxy off") \in Seq(Steps)
  <2>1. "write lock" \in Steps /\ "lock" \in Steps /\ "apply" \in Steps /\ "refresh" \in Steps
    BY DEF Steps
  <2>2. QED
    BY <2>1, InSteps DEF Plan
<1>10. QED
  BY <1>1, <1>2, <1>3, <1>4, <1>5, <1>6, <1>7, <1>8, <1>9

\* The steps that are not the last.
Middle == Steps \ {"end", "failed"}

\* The steps that only decide what comes next put a list before the rest, or
\* end the operation.
LEMMA DecideGoes ==
  ASSUME NEW t \in Tasks, Expand(t) \/ ServiceFailed(t) \/ Start(t)
  PROVE  Goes(t) /\ \E h \in Middle : At(t, h)
PROOF
<1>1. ASSUME Expand(t) PROVE Goes(t)
  <2>1. CASE Then(t, <<"start service", "must service">> \o ApplyProxy \o <<"catch handoff">>)
    BY <2>1, Lists DEF Chunk, Piece, Sound, Goes
  <2>2. CASE Then(t, StartSidecar \o <<"must sidecar">> \o ApplyProxy \o <<"catch rollback">>)
    BY <2>2, Lists DEF Chunk, Piece, Sound, Goes
  <2>3. CASE Then(t, <<"uninstall", "start", "must sidecar">> \o ApplyProxy \o <<"catch rollback">>)
    BY <2>3, Lists DEF Chunk, Piece, Sound, Goes
  <2>4. CASE Then(t, (IF mode = "Sidecar" THEN <<"clear">> \o Terminate ELSE <<>>) \o <<"rollback start">>)
    <3>1. "clear" \in Steps /\ "rollback start" \in Steps
      BY DEF Steps
    <3>2. (IF mode = "Sidecar" THEN <<"clear">> \o Terminate ELSE <<>>) \in Seq(Steps)
      BY <3>1, InSteps
    <3>3. (IF mode = "Sidecar" THEN <<"clear">> \o Terminate ELSE <<>>) \o <<"rollback start">> \in Seq(Steps)
      BY <3>1, <3>2, InSteps
    <3>4. QED
      BY <2>4, <3>3 DEF Goes
  <2>5. CASE Then(t, IF Running THEN ApplyProxy ELSE <<>>)
    BY <2>5, InSteps DEF Goes
  <2>6. CASE Raise(t)
    BY <2>6 DEF Goes
  <2>7. QED
    BY <1>1, <2>1, <2>2, <2>3, <2>4, <2>5, <2>6 DEF Expand
<1>2. ASSUME Expand(t) PROVE \E h \in Middle : At(t, h)
  <2>1. \E h \in {"raise", "hand over", "fall back", "uninstall and start", "rollback", "apply if ready"} : At(t, h)
    BY <1>2 DEF Expand
  <2>2. QED
    BY <2>1 DEF Middle, Steps
<1>3. ASSUME ServiceFailed(t) PROVE Goes(t)
  <2>1. <<"rollback start", "raise">> \in Seq(Steps) /\ StartSidecar \o <<"catch start">> \in Seq(Steps)
    BY Parts, Lists DEF Chunk, Piece, Sound
  <2>2. QED
    BY <1>3, <2>1 DEF ServiceFailed, Goes
<1>4. ASSUME ServiceFailed(t) PROVE \E h \in Middle : At(t, h)
  BY <1>4 DEF ServiceFailed, Middle, Steps
<1>5. ASSUME Start(t) PROVE Goes(t)
  <2>1. /\ <<"rollback start">> \in Seq(Steps) /\ StartSidecar \o <<"catch start">> \in Seq(Steps)
        /\ <<"rollback start">> \o StartSidecar \o <<"catch start">> \in Seq(Steps)
    BY Parts, Lists DEF Chunk, Piece, Sound
  <2>2. <<"start service", "catch service">> \in Seq(Steps) /\ <<>> \in Seq(Steps)
    BY ServicePiece, InSteps DEF Piece, Sound
  <2>3. QED
    BY <1>5, <2>1, <2>2 DEF Start, Done, Goes
<1>6. ASSUME Start(t) PROVE \E h \in Middle : At(t, h)
  BY <1>6 DEF Start, Middle, Steps
<1>7. QED
  BY <1>1, <1>2, <1>3, <1>4, <1>5, <1>6

\* So do the steps about a configuration and about a stop.
LEMMA ApplyGoes ==
  ASSUME ProxyInv, NEW t \in Tasks, ApplyConfig(t) \/ Stage(t) \/ Stop(t)
  PROVE  Goes(t) /\ \E h \in Middle : At(t, h)
PROOF
<1>1. <<>> \in Seq(Steps)
  BY InSteps
<1>2. ASSUME ApplyConfig(t) PROVE Goes(t)
  <2>1. "lock" \in Steps /\ "still service" \in Steps /\ "stage" \in Steps
    BY DEF Steps
  <2>2. <<"lock", "still service", "stage">> \in Seq(Steps) /\ Plan("restart") \in Seq(Steps)
    BY <2>1, InSteps, PlanSteps
  <2>3. QED
    BY <1>1, <1>2, <2>2 DEF ApplyConfig, Done, Goes
<1>3. ASSUME ApplyConfig(t) PROVE \E h \in Middle : At(t, h)
  BY <1>3 DEF ApplyConfig, Middle, Steps
<1>4. ASSUME Stage(t) PROVE Goes(t)
  <2>1. <<"stop", "start service", "must service">> \o ApplyProxy \in Seq(Steps)
    BY Lists DEF Chunk, Piece, Sound
  <2>2. QED
    BY <1>1, <1>4, <2>1 DEF Stage, Done, Goes
<1>5. ASSUME Stage(t) PROVE \E h \in Middle : At(t, h)
  BY <1>5 DEF Stage, Middle, Steps
<1>6. ASSUME NEW handover \in BOOLEAN, mode \in {"NotRunning", "Sidecar", "Service"}
      PROVE  StopPlan(handover) \in Seq(Steps)
  <2> DEFINE prepare == IF Platform = "macos" /\ (mode = "Service" \/ handover)
                        THEN <<"stop guard">> ELSE <<"clear">>
  <2>1. "stop guard" \in Steps /\ "clear" \in Steps /\ "stop service" \in Steps
    BY DEF Steps
  <2>2. prepare \in Seq(Steps) /\ <<"stop service">> \in Seq(Steps)
    BY <2>1, InSteps
  <2> HIDE DEF prepare
  <2>3. prepare \o Terminate \in Seq(Steps) /\ prepare \o <<"stop service">> \in Seq(Steps)
    BY <2>2, InSteps
  <2>4. StopPlan(handover) = CASE mode = "NotRunning" -> <<>>
                               [] mode = "Sidecar"    -> prepare \o Terminate
                               [] mode = "Service"    -> prepare \o <<"stop service">>
    BY DEF StopPlan, prepare
  <2>5. QED
    BY <1>1, <1>6, <2>3, <2>4
<1>7. ASSUME Stop(t), mode \in {"NotRunning", "Sidecar", "Service"} PROVE Goes(t)
  <2>1. ASSUME Then(t, StopPlan(FALSE)) PROVE Goes(t)
    <3>1. FALSE \in BOOLEAN
      OBVIOUS
    <3>2. StopPlan(FALSE) \in Seq(Steps)
      BY <1>6, <1>7, <3>1, Zenon
    <3>3. QED
      BY <2>1, <3>2 DEF Goes
  <2>2. ASSUME NEW decision \in Decisions, Then(t, StopPlan(decision = "Service")) PROVE Goes(t)
    <3>1. (decision = "Service") \in BOOLEAN
      OBVIOUS
    <3>2. StopPlan(decision = "Service") \in Seq(Steps)
      BY <1>6, <1>7, <3>1, Zenon
    <3>3. QED
      BY <2>2, <3>2 DEF Goes
  <2>3. QED
    BY <1>7, <2>1, <2>2 DEF Stop
<1>8. ASSUME Stop(t) PROVE \E h \in Middle : At(t, h)
  BY <1>8 DEF Stop, Middle, Steps
<1>9. QED
  BY <1>2, <1>3, <1>4, <1>5, <1>7, <1>8 DEF ProxyInv

\* The rest of the steps succeed, fail or put a few steps first.
LEMMA OthersGo ==
  ASSUME NEW t \in Tasks,
         \/ Check(t) \/ Allow(t) \/ Uninstall(t) \/ StillSidecar(t) \/ Kill(t) \/ WaitKilled(t)
         \/ StopService(t) \/ ServiceStops(t) \/ RollbackStart(t) \/ WaitExit(t) \/ Spawn(t) \/ Poll(t)
         \/ StartService(t) \/ Clear(t) \/ StopGuard(t) \/ ApplyWrite(t) \/ Refresh(t) \/ Recheck(t)
  PROVE  Goes(t) /\ \E h \in Middle : At(t, h)
PROOF
<1>1. <<>> \in Seq(Steps) /\ <<"service stops">> \in Seq(Steps) /\ <<"start service">> \in Seq(Steps)
  BY InSteps, Parts DEF Chunk, Piece, Sound
<1>2. Done(t) \/ Raise(t) => Goes(t)
  BY <1>1 DEF Done, Goes
<1>3. ASSUME Check(t) PROVE Goes(t) /\ \E h \in Middle : At(t, h)
  BY <1>2, <1>3, CheckAt DEF Middle, Steps
<1>4. ASSUME Allow(t) PROVE Goes(t) /\ \E h \in Middle : At(t, h)
  BY <1>2, <1>4 DEF Allow, Goes, Middle, Steps
<1>5. ASSUME Uninstall(t) PROVE Goes(t) /\ \E h \in Middle : At(t, h)
  BY <1>2, <1>5 DEF Uninstall, Middle, Steps
<1>6. ASSUME StillSidecar(t) PROVE Goes(t) /\ \E h \in Middle : At(t, h)
  BY <1>2, <1>6 DEF StillSidecar, Goes, Middle, Steps
<1>7. ASSUME Kill(t) PROVE Goes(t) /\ \E h \in Middle : At(t, h)
  BY <1>2, <1>7 DEF Kill, Middle, Steps
<1>8. ASSUME WaitKilled(t) PROVE Goes(t) /\ \E h \in Middle : At(t, h)
  BY <1>2, <1>8 DEF WaitKilled, Middle, Steps
<1>9. ASSUME StopService(t) PROVE Goes(t) /\ \E h \in Middle : At(t, h)
  BY <1>1, <1>9 DEF StopService, Goes, Middle, Steps
<1>10. ASSUME ServiceStops(t) PROVE Goes(t) /\ \E h \in Middle : At(t, h)
  BY <1>2, <1>10 DEF ServiceStops, Middle, Steps
<1>11. ASSUME RollbackStart(t) PROVE Goes(t) /\ \E h \in Middle : At(t, h)
  BY <1>2, <1>11 DEF RollbackStart, Middle, Steps
<1>12. ASSUME WaitExit(t) PROVE Goes(t) /\ \E h \in Middle : At(t, h)
  BY <1>2, <1>12 DEF WaitExit, Middle, Steps
<1>13. ASSUME Spawn(t) PROVE Goes(t) /\ \E h \in Middle : At(t, h)
  BY <1>2, <1>13 DEF Spawn, Middle, Steps
<1>14. ASSUME Poll(t) PROVE Goes(t) /\ \E h \in Middle : At(t, h)
  BY <1>2, <1>14 DEF Poll, Middle, Steps
<1>15. ASSUME StartService(t) PROVE Goes(t) /\ \E h \in Middle : At(t, h)
  <2>1. Done(t) \/ Raise(t) \/ Then(t, <<"start service">>)
    BY <1>15 DEF StartService
  <2>2. Goes(t)
    BY <1>1, <1>2, <2>1 DEF Goes
  <2>3. QED
    BY <1>15, <2>2 DEF StartService, Middle, Steps
<1>16. ASSUME Clear(t) PROVE Goes(t) /\ \E h \in Middle : At(t, h)
  BY <1>2, <1>16 DEF Clear, Middle, Steps
<1>17. ASSUME StopGuard(t) PROVE Goes(t) /\ \E h \in Middle : At(t, h)
  BY <1>2, <1>17 DEF StopGuard, Middle, Steps
<1>18. ASSUME ApplyWrite(t) PROVE Goes(t) /\ \E h \in Middle : At(t, h)
  BY <1>2, <1>18 DEF ApplyWrite, Middle, Steps
<1>19. ASSUME Refresh(t) PROVE Goes(t) /\ \E h \in Middle : At(t, h)
  BY <1>2, <1>19 DEF Refresh, Middle, Steps
<1>20. ASSUME Recheck(t) PROVE Goes(t) /\ \E h \in Middle : At(t, h)
  BY <1>2, <1>20 DEF Recheck, Middle, Steps
<1>21. QED
  BY <1>3, <1>4, <1>5, <1>6, <1>7, <1>8, <1>9, <1>10, <1>11, <1>12, <1>13, <1>14, <1>15, <1>16, <1>17,
     <1>18, <1>19, <1>20

\* A task that captures the core it is about to point the proxy at.
LEMMA CaptureEnds ==
  ASSUME TaskInv, NEW t \in Tasks, Ends(task[t].todo), Capture(t)
  PROVE  Moves(t) /\ Ends(task'[t].todo)
PROOF
<1> DEFINE s == task[t].todo
<1>1. "capture" \in Under /\ At(t, "capture")
  BY DEF Capture, Under, Steps, Entry
<1>2. life = t /\ Sound(s) /\ s # <<>> /\ s[1] = "capture" /\ TaskShape /\ Head(s) = "capture"
  BY <1>1, Holds DEF Under, TaskInv, At
<1>3. CASE Raise(t)
  BY <1>2, <1>3, GoesEnds DEF Goes
<1>4. CASE task' = [task EXCEPT ![t].todo = Tail(@), ![t].exp = Expectation]
  <2>1. Ends(Tail(s))
    BY <1>2, TailEnds
  <2> DEFINE v == Tail(s)
  <2>2. task' = [task EXCEPT ![t].todo = v, ![t].exp = Expectation]
    BY <1>4
  <2> HIDE DEF v
  <2>3. Moves(t) /\ task'[t].todo = v
    BY <1>2, <2>2, UpdatedTwo
  <2>4. QED
    BY <2>1, <2>3 DEF v
<1>5. CASE task' = [task EXCEPT ![t].todo = Skip(SubSeq(@, Len(ApplyProxy) + 1, Len(@)))]
  <2> DEFINE v == SubSeq(s, 5 + 1, Len(s))
  <2>1. Len(ApplyProxy) = 5
    BY DEF ApplyProxy
  <2>2. task' = [task EXCEPT ![t].todo = Skip(v)]
    BY <1>5, <2>1
  <2>3. s \in Seq(Steps) /\ Len(s) \in Nat /\ 1 \in 1 .. Len(s)
    <3>1. s \in Seq(Steps)
      BY <1>2 DEF Sound
    <3>2. QED
      BY <1>2, <3>1, HasFirst
  <2>4. 1 + 4 <= Len(s) /\ s[1 + 4] = "check refresh"
    BY <1>2, <2>3 DEF Sound
  <2>5. 1 + 4 = 5
    OBVIOUS
  <2>6. 5 <= Len(s) /\ s[5] = "check refresh"
    BY <2>4, <2>5
  <2> DEFINE n == Len(s)
  <2>7. n \in Nat /\ 5 <= n
    BY <2>3, <2>6
  <2> HIDE DEF n
  <2>8. 5 \in 1 .. n
    BY <2>7
  <2>9. Ends(v)
    BY <2>6, <2>8, RestEnds DEF n
  <2>10. Ends(Skip(v))
    BY <2>9, SkipEnds
  <2> HIDE DEF v
  <2>11. Moves(t) /\ task'[t].todo = Skip(v)
    BY <1>2, <2>2, Updated
  <2>12. QED
    BY <2>10, <2>11
<1>6. QED
  BY <1>3, <1>4, <1>5 DEF Capture

\* Every step but the last leaves the task a list that ends.
LEMMA StepEnds ==
  ASSUME CoreInv, NEW t \in Tasks, Ends(task[t].todo), TaskStep(t), ~End(t)
  PROVE  Moves(t) /\ Ends(task'[t].todo)
PROOF
<1>1. TaskInv /\ ProxyInv /\ TaskShape
  BY DEF CoreInv, TaskInv
<1>2. CASE Capture(t)
  BY <1>1, <1>2, CaptureEnds
<1>3. CASE ~Capture(t)
  <2>1. Goes(t) /\ \E h \in Middle : At(t, h)
    BY <1>1, <1>3, DecideGoes, ApplyGoes, OthersGo DEF TaskStep
  <2>2. Head(task[t].todo) \notin {"end", "failed"}
    BY <2>1 DEF At, Middle
  <2>3. QED
    BY <1>1, <2>1, <2>2, GoesEnds
<1>4. QED
  BY <1>2, <1>3

\* It takes no lock, and may give the configuration lock back.
LEMMA StepLocks ==
  ASSUME NEW t, TaskStep(t), ~End(t)
  PROVE  flag' = flag /\ life' = life /\ write' \in {write, None}
PROOF
<1>1. ASSUME Expand(t) \/ ServiceFailed(t) \/ Check(t) \/ Uninstall(t) \/ StillSidecar(t) \/ ApplyConfig(t) \/ Stage(t)
      PROVE  UNCHANGED locks
  BY <1>1 DEF Expand, ServiceFailed, Check, Uninstall, StillSidecar, ApplyConfig, Stage
<1>2. ASSUME Stop(t) \/ Kill(t) \/ WaitKilled(t) \/ StopService(t) \/ ServiceStops(t) \/ Start(t)
      PROVE  UNCHANGED locks
  BY <1>2 DEF Stop, Kill, WaitKilled, StopService, ServiceStops, Start
<1>3. ASSUME RollbackStart(t) \/ WaitExit(t) \/ Spawn(t) \/ Poll(t) \/ StartService(t) \/ Clear(t)
      PROVE  UNCHANGED locks
  BY <1>3 DEF RollbackStart, WaitExit, Spawn, Poll, StartService, Clear
<1>4. ASSUME StopGuard(t) \/ Capture(t) \/ ApplyWrite(t) \/ Refresh(t) \/ Recheck(t)
      PROVE  UNCHANGED locks
  BY <1>4 DEF StopGuard, Capture, ApplyWrite, Refresh, Recheck
<1>5. ASSUME Allow(t) PROVE flag' = flag /\ life' = life /\ write' \in {write, None}
  BY <1>5 DEF Allow
<1>6. QED
  BY <1>1, <1>2, <1>3, <1>4, <1>5 DEF TaskStep, locks

(***************************************************************************)
(* Who holds the locks and the flag                                        *)
(***************************************************************************)

\* An operation that has begun and not ended.
Works(t) == t \in Tasks /\ task[t] # NoTask

\* Whoever holds the lifecycle lock is at work under it.
LifeHeld ==
  \/ life = None
  \/ Works(life)
  \/ life \in Pids /\ event[life].pc = "clearing"
  \/ life \in Watchers /\ watch[life].pc = "recovering"

\* Every operation has a list that ends; the flag and the configuration lock
\* are held by operations that have not ended, and the holder of the
\* configuration lock does not wait for it.
HeldInv ==
  /\ \A t \in Tasks : task[t] = NoTask \/ Ends(task[t].todo)
  /\ flag = None \/ Works(flag)
  /\ write = None \/ (Works(write) /\ ~At(write, "write lock"))
  /\ LifeHeld

\* An operation with a list that ends is at work.
LEMMA EndsWorks ==
  ASSUME NEW t \in Tasks
  PROVE  /\ Ends(task[t].todo) => Works(t)
         /\ Ends(task'[t].todo) => Works(t)'
PROOF
  BY DEF Ends, Works, NoTask

\* A task goes on: if it keeps a list that ends, and is past the configuration
\* lock if it holds it, what is held stays held by somebody at work.
LEMMA TaskGoesOn ==
  ASSUME HeldInv, NEW t \in Tasks, Ends(task'[t].todo), \A u \in Tasks \ {t} : task'[u] = task[u],
         flag' \in {flag, t, None}, life' \in {life, t, None}, write' \in {write, t, None},
         life' = t \/ UNCHANGED <<event, watch>>,
         write' = t => ~At(t, "write lock")'
  PROVE  HeldInv'
PROOF
<1>1. Works(t)'
  BY EndsWorks
<1>2. \A u \in Tasks : Works(u) => Works(u)'
  BY <1>1 DEF Works
<1>3. \A u \in Tasks : task'[u] = NoTask \/ Ends(task'[u].todo)
  BY DEF HeldInv
<1>4. flag' = None \/ Works(flag)'
  <2>1. CASE flag' = t
    BY <1>1, <2>1 DEF Works
  <2>2. CASE flag' = flag
    BY <1>2, <2>2 DEF HeldInv, Works
  <2>3. QED
    BY <2>1, <2>2
<1>5. write' = None \/ (Works(write)' /\ ~At(write, "write lock")')
  <2>1. CASE write' = t
    BY <1>1, <2>1 DEF Works, At
  <2>2. CASE write' = write /\ write # t
    BY <1>2, <2>2 DEF HeldInv, Works, At
  <2>3. QED
    BY <2>1, <2>2
<1>6. LifeHeld'
  <2>1. CASE life' = t
    BY <1>1, <2>1 DEF LifeHeld, Works
  <2>2. CASE life' = life /\ UNCHANGED <<event, watch>>
    BY <1>2, <2>2 DEF HeldInv, LifeHeld, Works
  <2>3. CASE life' = None
    BY <2>3 DEF LifeHeld
  <2>4. QED
    BY <2>1, <2>2, <2>3
<1>7. QED
  BY <1>3, <1>4, <1>5, <1>6 DEF HeldInv

\* A task that takes a step has a list that ends.
LEMMA AtEnds ==
  ASSUME HeldInv, NEW t \in Tasks, NEW h, At(t, h)
  PROVE  Ends(task[t].todo) /\ Head(task[t].todo) = h
PROOF
<1>1. task[t].todo # <<>> /\ Head(task[t].todo) = h
  BY DEF At
<1>2. task[t] # NoTask
  BY <1>1 DEF NoTask
<1>3. QED
  BY <1>1, <1>2 DEF HeldInv

\* A list under the lifecycle lock begins with none of the steps before it.
LEMMA FirstSound ==
  ASSUME NEW s, Sound(s), s # <<>>
  PROVE  Head(s) \notin Entry
PROOF
<1>1. s \in Seq(Steps)
  BY DEF Sound
<1>2. 1 \in 1 .. Len(s)
  BY <1>1, HasFirst
<1>3. Head(s) = s[1]
  BY RestSound
<1>4. QED
  BY <1>2, <1>3 DEF Sound

\* A task that holds the lifecycle lock waits for no lock.
LEMMA InsideNoEntry ==
  ASSUME NEW t, NEW h \in Entry
  PROVE  /\ Inside(t) => ~At(t, h)
         /\ Inside(t)' => ~At(t, h)'
PROOF
  BY FirstSound DEF Inside, At

\* A task does a step that is not the last.
LEMMA StepHeld ==
  ASSUME CoreInv, HeldInv, NEW t \in Tasks, TaskStep(t), ~End(t)
  PROVE  HeldInv'
PROOF
<1>1. \E h : At(t, h)
  <2>1. Capture(t) => At(t, "capture")
    BY DEF Capture
  <2>2. ProxyInv
    BY DEF CoreInv
  <2>3. CASE Expand(t) \/ ServiceFailed(t) \/ Start(t)
    BY <2>3, DecideGoes
  <2>4. CASE ApplyConfig(t) \/ Stage(t) \/ Stop(t)
    BY <2>2, <2>4, ApplyGoes
  <2>5. QED
    BY <2>1, <2>3, <2>4, OthersGo DEF TaskStep
<1>2. Ends(task[t].todo)
  BY <1>1, AtEnds
<1>3. Moves(t) /\ Ends(task'[t].todo)
  BY <1>2, StepEnds
<1>4. flag' = flag /\ life' = life /\ write' \in {write, None}
  BY StepLocks
<1>5. CASE life = t
  <2>1. TaskInv'
    BY TaskStepKeeps DEF CoreInv
  <2>2. Inside(t)'
    BY <1>4, <1>5, <2>1 DEF TaskInv
  <2>3. ~At(t, "write lock")'
    BY <2>2, InsideNoEntry DEF Entry
  <2>4. QED
    BY <1>3, <1>4, <1>5, <2>3, TaskGoesOn DEF Moves
<1>6. CASE life # t
  <2>1. ApplyConfig(t)
    BY <1>6, OthersOnly
  <2>2. UNCHANGED <<event, watch>>
    BY <2>1 DEF ApplyConfig, sidecar, service
  <2>3. ~At(t, "write lock")'
    <3>1. TaskInv /\ TaskShape /\ "apply config" \in Entry /\ At(t, "apply config")
      BY <2>1 DEF CoreInv, TaskInv, ApplyConfig, Entry
    <3>2. Outside(t) /\ task[t].todo # <<>>
      BY <3>1, Waits
    <3>3. Head(<<"end">>) = "end"
      OBVIOUS
    <3>4. task[t].todo = <<"apply config", "end">>
      BY <3>1, <3>2, <3>3 DEF Outside, At
    <3>5. Tail(task[t].todo) = <<"end">>
      BY <3>4, RestOfTwo
    <3>6. ASSUME NEW u, Then(t, u), Takes(u \o <<"end">>, "still service") \/ Takes(u \o <<"end">>, "stop for restart")
          PROVE  ~At(t, "write lock")'
      <4>1. u \o <<"end">> # <<>> /\ Head(u \o <<"end">>) = "lock"
        BY <3>6 DEF Takes
      <4>2. Skip(u \o <<"end">>) = u \o <<"end">>
        BY <4>1, CatchSet DEF Skip
      <4> DEFINE x == u \o <<"end">>
      <4>3. task' = [task EXCEPT ![t].todo = x]
        BY <3>5, <3>6, <4>2 DEF Then
      <4> HIDE DEF x
      <4>4. task'[t].todo = x
        BY <3>1, <4>3, Updated
      <4>5. QED
        BY <4>1, <4>4 DEF At, x
    <3>7. CASE Then(t, <<"lock", "still service", "stage">>)
      BY <3>6, <3>7, StagePlan
    <3>8. CASE Then(t, Plan("restart"))
      <4>1. Plan("restart") = <<"lock", "stop for restart", "start", "must run">> \o ApplyProxy
        BY DEF Plan
      <4>2. QED
        BY <3>6, <3>8, <4>1, RestartPlan
    <3>9. CASE Done(t)
      <4>1. <<"end">> \in Seq(Steps)
        BY Parts DEF Chunk, Piece, Sound
      <4>2. <<>> \o <<"end">> = <<"end">>
        BY <4>1, ConcatEmptySeq
      <4>3. Skip(<<"end">>) = <<"end">>
        BY <3>3, CatchSet DEF Skip
      <4>4. task' = [task EXCEPT ![t].todo = <<"end">>]
        BY <3>5, <3>9, <4>2, <4>3 DEF Done, Then
      <4>5. task'[t].todo = <<"end">>
        BY <3>1, <4>4, Updated
      <4>6. QED
        BY <3>3, <4>5 DEF At
    <3>10. QED
      BY <2>1, <3>7, <3>8, <3>9 DEF ApplyConfig
  <2>4. QED
    BY <1>3, <1>4, <2>2, <2>3, TaskGoesOn DEF Moves
<1>7. QED
  BY <1>5, <1>6

\* The last step gives everything back.
LEMMA EndHeld ==
  ASSUME CoreInv, HeldInv, NEW t \in Tasks, End(t)
  PROVE  HeldInv'
PROOF
<1>1. task' = [task EXCEPT ![t] = NoTask] /\ UNCHANGED <<event, watch>> /\ TaskShape
  BY DEF End, sidecar, service, CoreInv, TaskInv
<1>2. /\ flag' = (IF flag = t THEN None ELSE flag)
      /\ write' = (IF write = t THEN None ELSE write)
      /\ life' = (IF life = t THEN None ELSE life)
  BY DEF End, Release
<1>3. task'[t] = NoTask /\ \A u \in Tasks \ {t} : task'[u] = task[u]
  BY <1>1 DEF TaskShape
<1>4. \A u \in Tasks : task'[u] = NoTask \/ Ends(task'[u].todo)
  BY <1>3 DEF HeldInv
<1>5. \A u : Works(u) /\ u # t => Works(u)'
  BY <1>3 DEF Works
<1>6. flag' = None \/ Works(flag)'
  BY <1>2, <1>5 DEF HeldInv, Works
<1>7. write' = None \/ (Works(write)' /\ ~At(write, "write lock")')
  BY <1>2, <1>3, <1>5 DEF HeldInv, Works, At
<1>8. LifeHeld'
  <2>1. CASE life = t \/ life = None
    BY <1>2, <2>1 DEF LifeHeld
  <2>2. CASE life # t /\ Works(life)
    BY <1>2, <1>5, <2>2 DEF LifeHeld, Works
  <2>3. CASE life # t /\ ~Works(life)
    BY <1>1, <1>2, <2>3 DEF HeldInv, LifeHeld
  <2>4. QED
    BY <2>1, <2>2, <2>3
<1>9. QED
  BY <1>4, <1>6, <1>7, <1>8 DEF HeldInv

\* An operation begins with a list that ends.
LEMMA CallHeld ==
  ASSUME CoreInv, HeldInv, NEW t \in Tasks, NEW op \in Ops, Call(t, op)
  PROVE  HeldInv'
PROOF
<1> DEFINE s == Plan(op) \o <<"end">>
<1>1. task[t] = NoTask /\ TaskShape
  BY DEF Call, CoreInv, TaskInv
<1>2. task'[t].todo = s /\ \A u \in Tasks \ {t} : task'[u] = task[u]
  <2>1. task' = [task EXCEPT ![t] = [todo |-> s, op |-> op, exp |-> None, old |-> FALSE]]
    BY GivenList DEF Call
  <2>2. QED
    BY <1>1, <2>1 DEF TaskShape
<1>3. Ends(s)
  <2>1. op \in {"start", "stop", "restart", "sidecar", "uninstall", "handoff", "config", "proxy on", "proxy off"}
    BY OpsAssumption
  <2>2. Plan(op) \in Seq(Steps)
    BY <2>1, PlanSteps
  <2>3. QED
    BY <2>2, LastEnds, JoinEnds
<1> HIDE DEF s
<1>4. flag' \in {flag, t} /\ UNCHANGED <<write, life, event, watch>>
  BY DEF Call, sidecar, service
<1>5. write # t
  BY <1>1, IdentityAssumption DEF HeldInv, Works
<1>6. QED
  BY <1>2, <1>3, <1>4, <1>5, TaskGoesOn

\* A task gets the configuration lock, and the lifecycle lock is next.
LEMMA WriteLockHeld ==
  ASSUME CoreInv, HeldInv, NEW t \in Tasks, WriteLock(t)
  PROVE  HeldInv'
PROOF
<1> DEFINE r == Tail(task[t].todo)
<1>1. "write lock" \in Entry /\ At(t, "write lock") /\ TaskInv /\ TaskShape
  BY DEF WriteLock, Entry, CoreInv, TaskInv
<1>2. Outside(t) /\ task[t].todo # <<>>
  BY <1>1, Waits
<1>3. task[t].todo \notin {<<>>, <<"end">>, <<"apply config", "end">>} /\ ~At(t, "lock")
  <2>1. Head(<<"end">>) = "end" /\ Head(<<"apply config", "end">>) = "apply config"
    OBVIOUS
  <2>2. QED
    BY <1>1, <1>2, <2>1 DEF At
<1>4. r # <<>> /\ Head(r) = "lock"
  BY <1>2, <1>3 DEF Outside
<1>5. Ends(r)
  <2>1. Ends(task[t].todo) /\ Head(task[t].todo) = "write lock"
    BY <1>1, AtEnds
  <2>2. QED
    BY <2>1, TailEnds
<1>6. task' = [task EXCEPT ![t].todo = r, ![t].old = want]
  BY DEF WriteLock
<1> HIDE DEF r
<1>7. Moves(t) /\ task'[t].todo = r
  BY <1>1, <1>6, UpdatedTwo
<1>8. ~At(t, "write lock")'
  BY <1>4, <1>7 DEF At
<1>9. write' = t /\ UNCHANGED <<flag, life, event, watch>>
  BY DEF WriteLock, sidecar, service
<1>10. QED
  BY <1>5, <1>7, <1>8, <1>9, TaskGoesOn DEF Moves

\* A task gets the lifecycle lock.
LEMMA LockHeld ==
  ASSUME CoreInv, HeldInv, NEW t \in Tasks, Lock(t)
  PROVE  HeldInv'
PROOF
<1>1. "lock" \in Entry /\ At(t, "lock") /\ TaskInv /\ TaskShape
  BY DEF Lock, Entry, CoreInv, TaskInv
<1>2. Ends(task[t].todo) /\ Head(task[t].todo) = "lock"
  BY <1>1, AtEnds
<1>3. Goes(t)
  BY InSteps DEF Lock, Done, Goes
<1>4. Moves(t) /\ Ends(task'[t].todo)
  BY <1>1, <1>2, <1>3, GoesEnds
<1>5. life' = t /\ UNCHANGED <<flag, write>>
  BY DEF Lock
<1>6. ~At(t, "write lock")'
  <2>1. TaskInv'
    BY <1>1, LockKeeps
  <2>2. Inside(t)'
    BY <1>5, <2>1 DEF TaskInv
  <2>3. QED
    BY <2>2, InsideNoEntry DEF Entry
<1>7. QED
  BY <1>4, <1>5, <1>6, TaskGoesOn DEF Moves

\* An event task and a watcher take the lifecycle lock only to work under it,
\* and give it back when they are done; nobody else's lock is touched.
LEMMA EventHeld ==
  ASSUME CoreInv, HeldInv, NEW p \in Pids, Crash(p) \/ EventStep(p)
  PROVE  HeldInv'
PROOF
<1>1. UNCHANGED <<flag, write, task, watch>>
  BY DEF Crash, EventStep, Terminated, ClearTerminated, Cleared, locks, service
<1>2. event = [q \in Pids |-> event[q]]
  BY DEF CoreInv, SidecarInv
<1>3. \A u : Works(u) <=> Works(u)'
  BY <1>1 DEF Works
<1>4. ASSUME LifeHeld' PROVE HeldInv'
  BY <1>1, <1>3, <1>4 DEF HeldInv, Works, At
<1>5. CASE Crash(p)
  <2>1. UNCHANGED <<life, event>>
    BY <1>5 DEF Crash, locks
  <2>2. QED
    BY <1>1, <1>3, <1>4, <2>1 DEF HeldInv, LifeHeld
<1>6. CASE Terminated(p)
  <2>1. life' = life /\ event[p].pc # "clearing" /\ event' = [event EXCEPT ![p].pc = "terminated"]
    BY <1>6 DEF Terminated, locks
  <2>2. \A q \in Pids : event[q].pc = "clearing" => event'[q].pc = "clearing"
    BY <1>2, <2>1
  <2>3. QED
    BY <1>1, <1>3, <1>4, <2>1, <2>2 DEF HeldInv, LifeHeld
<1>7. CASE ClearTerminated(p)
  <2>1. life = None
    BY <1>7 DEF ClearTerminated
  <2>2. CASE life' = None
    BY <1>4, <2>2 DEF LifeHeld
  <2>3. CASE life' = p /\ event' = [event EXCEPT ![p].pc = "clearing"]
    <3>1. event'[p].pc = "clearing"
      BY <2>3 DEF CoreInv, SidecarInv
    <3>2. QED
      BY <1>4, <2>3, <3>1 DEF LifeHeld
  <2>4. QED
    BY <1>7, <2>1, <2>2, <2>3 DEF ClearTerminated
<1>8. CASE Cleared(p)
  <2>1. life' = None
    BY <1>8 DEF Cleared
  <2>2. QED
    BY <1>4, <2>1 DEF LifeHeld
<1>9. QED
  BY <1>5, <1>6, <1>7, <1>8 DEF EventStep

\* The same for the owner monitor and the log reader.
LEMMA WatcherHeld ==
  ASSUME CoreInv, HeldInv, NEW w \in Watchers, WatchStep(w)
  PROVE  HeldInv'
PROOF
<1>1. UNCHANGED <<flag, write, task, event>>
  BY DEF WatchStep, Sample, Claim, RecoverLocked, Recover, locks, sidecar
<1>2. watch = [v \in Watchers |-> watch[v]]
  BY DEF CoreInv, WatchInv
<1>3. \A u : Works(u) <=> Works(u)'
  BY <1>1 DEF Works
<1>4. ASSUME LifeHeld' PROVE HeldInv'
  BY <1>1, <1>3, <1>4 DEF HeldInv, Works, At
<1>5. CASE Sample(w) \/ Claim(w)
  <2>1. life' = life /\ watch[w].pc # "recovering"
    BY <1>5 DEF Sample, Claim, locks
  <2>2. \A v \in Watchers \ {w} : watch'[v] = watch[v]
    BY <1>2, <1>5 DEF Sample, Claim
  <2>3. QED
    BY <1>1, <1>3, <1>4, <2>1, <2>2 DEF HeldInv, LifeHeld
<1>6. CASE RecoverLocked(w)
  <2>1. life = None
    BY <1>6 DEF RecoverLocked
  <2>2. CASE life' = None
    BY <1>4, <2>2 DEF LifeHeld
  <2>3. CASE life' = w /\ watch' = [watch EXCEPT ![w].pc = "recovering"]
    <3>1. watch[w] = [pc |-> watch[w].pc, saw |-> watch[w].saw]
      BY DEF CoreInv, WatchInv, WatcherOk
    <3>2. watch'[w].pc = "recovering"
      BY <1>2, <2>3, <3>1
    <3>3. QED
      BY <1>4, <2>3, <3>2 DEF LifeHeld
  <2>4. QED
    BY <1>6, <2>1, <2>2, <2>3 DEF RecoverLocked
<1>7. CASE Recover(w)
  <2>1. life' = None
    BY <1>7 DEF Recover
  <2>2. QED
    BY <1>4, <2>1 DEF LifeHeld
<1>8. QED
  BY <1>5, <1>6, <1>7 DEF WatchStep

\* The Service loses its core, or a log request begins: nobody's lock moves.
LEMMA OutsideHeld ==
  ASSUME CoreInv, HeldInv, ServiceLoses \/ ReadLogs
  PROVE  HeldInv'
PROOF
<1>1. UNCHANGED <<flag, write, life, task, event>>
  BY DEF ServiceLoses, ReadLogs, locks, sidecar
<1>2. \A u : Works(u) <=> Works(u)'
  BY <1>1 DEF Works
<1>3. \A v \in Watchers : watch[v].pc = "recovering" => watch'[v] = watch[v]
  <2>1. CASE ServiceLoses
    BY <2>1 DEF ServiceLoses
  <2>2. CASE ReadLogs
    <3>1. owner \in Gens /\ watch = [v \in Watchers |-> watch[v]]
      BY DEF CoreInv, WatchInv
    <3>2. watch[<<owner, "reader">>].pc # "recovering"
      BY <2>2, <3>1 DEF ReadLogs, NoWatch
    <3>3. \A v \in Watchers \ {<<owner, "reader">>} : watch'[v] = watch[v]
      BY <2>2, <3>1 DEF ReadLogs
    <3>4. QED
      BY <3>2, <3>3
  <2>3. QED
    BY <2>1, <2>2
<1>4. LifeHeld'
  BY <1>1, <1>2, <1>3 DEF HeldInv, LifeHeld
<1>5. QED
  BY <1>1, <1>2, <1>4 DEF HeldInv, Works, At

\* Every step keeps it.
LEMMA HeldStep == CoreInv /\ HeldInv /\ [Next]_vars => HeldInv'
PROOF
<1> SUFFICES ASSUME CoreInv, HeldInv, [Next]_vars PROVE HeldInv'
  OBVIOUS
<1>1. CASE UNCHANGED vars
  BY <1>1 DEF vars, HeldInv, LifeHeld, Works, At
<1>2. ASSUME NEW t \in Tasks, TaskStep(t) PROVE HeldInv'
  BY <1>2, StepHeld, EndHeld
<1>3. QED
  BY <1>1, <1>2, WriteLockHeld, LockHeld, CallHeld, EventHeld, WatcherHeld, OutsideHeld DEF Next

\* It holds in every reachable state.
THEOREM HeldCorrect == Spec => []HeldInv
PROOF
<1>1. Init => HeldInv
  BY DEF Init, HeldInv, LifeHeld
<1>2. QED
  BY <1>1, HeldStep, CoreInvariant, PTL DEF Spec

\* Nobody who holds the lifecycle lock waits for a lock.
LEMMA HolderGoesOn ==
  ASSUME CoreInv, NEW t \in Tasks, life = t
  PROVE  ~Blocked(t)
PROOF
<1>1. Inside(t)
  BY DEF CoreInv, TaskInv
<1>2. QED
  BY <1>1, InsideNoEntry DEF Blocked, Entry

\* LocksGoOn: neither lock and no flag is ever waited for in a circle or kept
\* by nobody, however operations, event drains and recoveries interleave and
\* whichever step fails.
THEOREM LocksGoOnCorrect == Spec => []LocksGoOn
PROOF
<1>1. CoreInv /\ HeldInv => LocksGoOn
  <2> SUFFICES ASSUME CoreInv, HeldInv PROVE LocksGoOn
    OBVIOUS
  <2>1. \A t \in Tasks : task[t] # NoTask => task[t].todo # <<>>
    BY DEF HeldInv, Ends
  <2>2. ASSUME life # None
        PROVE  \/ \E t \in Tasks : task[t] # NoTask /\ ~Blocked(t)
               \/ \E p \in Pids : life = p /\ event[p].pc = "clearing"
               \/ \E w \in Watchers : life = w /\ watch[w].pc = "recovering"
    BY <2>2, HolderGoesOn DEF HeldInv, LifeHeld, Works
  <2>3. ASSUME life = None, write # None PROVE \E t \in Tasks : task[t] # NoTask /\ ~Blocked(t)
    BY <2>3 DEF HeldInv, Works, Blocked
  <2>4. ASSUME life = None, write = None, NEW t \in Tasks, task[t] # NoTask PROVE ~Blocked(t)
    BY <2>4 DEF Blocked
  <2>5. ASSUME life = None, write = None, \A t \in Tasks : task[t] = NoTask
        PROVE  <<flag, write, life>> = <<None, None, None>>
    BY <2>5 DEF HeldInv, Works
  <2>6. QED
    BY <2>1, <2>2, <2>3, <2>4, <2>5 DEF LocksGoOn
<1>2. QED
  BY <1>1, HeldCorrect, CoreInvariant, PTL

=============================================================================
