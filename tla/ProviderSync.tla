----------------------------- MODULE ProviderSync -----------------------------
(***************************************************************************)
(* The core run by the service downloads a provider into a cache of its    *)
(* own; the application copies that cache into its directory, so that a    *)
(* core it starts itself finds it.  Requests to copy are coalesced behind  *)
(* a flag; a copy reads the file in chunks while the core may be writing   *)
(* it, and is published only if everything says the file was whole.        *)
(*                                                                         *)
(* One provider, whose file has two chunks; a download numbers the chunks  *)
(* it writes, 0 is a chunk that is not there.  A time is the number of     *)
(* chunks written until then: mtime is what the file shows, loaded what    *)
(* the core had loaded when it last reported updatedAt, 0 if it reports    *)
(* none.  What comes within RUNTIME_PROVIDER_SETTLE of a load is near it.  *)
(***************************************************************************)
EXTENDS Naturals

CONSTANTS
  SyncTasks,            \* tasks that requests may spawn (bound)
  MaxRequests,          \* requests (bound)
  RUNTIME_PROVIDER_SYNC_ATTEMPTS,
  MaxWrites,            \* downloads the core makes (bound)
  MaxSessions           \* service sessions (bound)

ASSUME SyncAssumption ==
  {MaxRequests, RUNTIME_PROVIDER_SYNC_ATTEMPTS, MaxWrites, MaxSessions} \subseteq Nat

VARIABLES
  requested,  \* requests made so far
  queued,     \* PROVIDER_SYNC_QUEUED
  task,       \* [task -> pc and attempt]
  covered,    \* requests made before the last copy started
  copy,       \* the copy under PROVIDER_SYNC_SERIAL
  cache,      \* the core's file: chunks, the chunks that the write under way has written,
              \* mtime, whether it has settled and is near the load, and how it is stamped
  loaded,     \* the core's updatedAt
  session,    \* session of the service's core; 0 when the core is not the service's
  applied,    \* whether the committed configuration declares the provider
  published   \* the application's copy: chunks, and whether no check could see a write

syncVars == <<requested, queued, task, covered, copy, cache, loaded, session, applied, published>>

NoCopy == [pc |-> "idle", session |-> 0, before |-> 0, mtime |-> 0, near |-> FALSE,
           got |-> <<0, 0>>, unseen |-> FALSE]

\* How the file system of the service shows the time of a write: at once, when
\* the writer closes the file, or not at all.
Stamps == {"exact", "retained", "none"}

SyncInit ==
  /\ requested = 0 /\ queued = FALSE /\ covered = 0
  /\ task = [t \in SyncTasks |-> [pc |-> "idle", attempt |-> 0]]
  /\ copy = NoCopy
  /\ \E how \in Stamps :
       cache = [chunks |-> <<0, 0>>, stage |-> 0, mtime |-> 0, settled |-> TRUE, near |-> FALSE,
                stamps |-> how]
  /\ loaded = 0 /\ session = 1 /\ applied = TRUE
  /\ published = [chunks |-> <<0, 0>>, unseen |-> FALSE]

-----------------------------------------------------------------------------
(* Requests and tasks                                                        *)

request_runtime_provider_sync(t) ==
  /\ requested < MaxRequests /\ requested' = requested + 1
  /\ task[t].pc = "idle"
  /\ IF queued THEN UNCHANGED <<queued, task>>
     ELSE queued' = TRUE /\ task' = [task EXCEPT ![t] = [pc |-> "delay", attempt |-> 1]]
  /\ UNCHANGED <<covered, copy, cache, loaded, session, applied, published>>

\* The delay, or the pause between two attempts, is over.
Slept(t) ==
  /\ task[t].pc = "delay" /\ task' = [task EXCEPT ![t].pc = "lock"]
  /\ UNCHANGED <<requested, queued, covered, copy, cache, loaded, session, applied, published>>

Mut_Serial(t) ==
  /\ task[t].pc = "lock" /\ copy.pc = "idle"
  /\ task' = [task EXCEPT ![t].pc = "run"]
  /\ covered' = requested
  /\ copy' = [NoCopy EXCEPT !.pc = "begin"]
  /\ UNCHANGED <<requested, queued, cache, loaded, session, applied, published>>

\* PROVIDER_SYNC_SERIAL is taken; the first attempt lets new requests queue.
Serial(t) ==
  /\ task[t].pc = "lock" /\ copy.pc = "idle"
  /\ queued' = IF task[t].attempt = 1 THEN FALSE ELSE queued
  /\ task' = [task EXCEPT ![t].pc = "run"]
  /\ covered' = requested
  /\ copy' = [NoCopy EXCEPT !.pc = "begin"]
  /\ UNCHANGED <<requested, cache, loaded, session, applied, published>>

\* Only files that were not ready are worth another attempt.
Attempted(t) ==
  /\ task[t].pc = "run" /\ copy.pc \in {"done", "pending", "failed"}
  /\ task' = [task EXCEPT ![t] =
       IF copy.pc = "pending" /\ @.attempt < RUNTIME_PROVIDER_SYNC_ATTEMPTS
       THEN [pc |-> "delay", attempt |-> @.attempt + 1]
       ELSE [pc |-> "idle", attempt |-> 0]]
  /\ copy' = NoCopy
  /\ UNCHANGED <<requested, queued, covered, cache, loaded, session, applied, published>>

-----------------------------------------------------------------------------
(* One copy                                                                  *)

CopyStep(next) ==
  /\ copy' = next
  /\ UNCHANGED <<requested, queued, task, covered, cache, loaded, session, applied, published>>

\* The result is all that is left of a copy that has ended.
Ended(result) == [NoCopy EXCEPT !.pc = result]

\* The session and the load times before; nothing declared is nothing to do.
sync_runtime_providers_by_service ==
  /\ copy.pc = "begin"
  /\ CopyStep(IF session = 0 \/ ~applied THEN Ended("done")
              ELSE [copy EXCEPT !.pc = "first", !.session = session, !.before = loaded])

\* A chunk with the file's identity; an absent, changing or fresh file is not ready.
read_chunk(got, next) ==
  CopyStep(IF session # copy.session THEN Ended("failed")
           ELSE IF \/ cache.chunks[1] = 0 \/ ~cache.settled
                   \/ copy.pc # "first" /\ cache.mtime # copy.mtime
                THEN Ended("pending")
                ELSE [copy EXCEPT !.pc = next, !.mtime = cache.mtime, !.near = cache.near, !.got = got])

fetch_runtime_file ==
  \/ copy.pc = "first" /\ read_chunk([copy.got EXCEPT ![1] = cache.chunks[1]], "second")
  \/ copy.pc = "second" /\ read_chunk([copy.got EXCEPT ![2] = cache.chunks[2]], "end")
  \/ copy.pc = "end" /\ read_chunk(copy.got, "verify")
  \* The temporary file cannot be created, or the service answers with an error.
  \/ copy.pc \in {"first", "second", "end"} /\ CopyStep(Ended("pending"))

\* What the core has written so far.
Written == cache.chunks[1] + cache.chunks[2]

Mut_finished_loading == copy.before = loaded
\* No load happened since, and the file is no younger than the last one and the
\* settling time; a time that is missing is no obstacle.
finished_loading ==
  /\ copy.before = loaded
  /\ cache.stamps = "none" \/ loaded = 0 \/ copy.mtime <= loaded \/ copy.near

\* Whether a download that is not loaded yet can hide from the times: the file
\* system does not show it, there is no load to compare it with, or it began
\* within the settling time of that load and has stalled since.
CanHide == loaded # Written /\ (cache.stamps = "exact" => loaded = 0 \/ copy.near)

\* The load times may be unavailable.
VerifyLoads ==
  /\ copy.pc = "verify"
  /\ \/ finished_loading /\ CopyStep([copy EXCEPT !.pc = "recheck", !.unseen = CanHide])
     \/ CopyStep(Ended("pending"))

recheck_identity ==
  /\ copy.pc = "recheck"
  /\ \/ CopyStep(IF session # copy.session THEN Ended("failed")
                 ELSE IF cache.mtime # copy.mtime THEN Ended("pending")
                 ELSE [copy EXCEPT !.pc = "publish",
                         !.unseen = @ /\ (cache.stamps # "none" => cache.stage # 0)])
     \/ CopyStep(Ended("pending"))

\* Under the lifecycle lock: the same service session still runs, and the
\* committed configuration still declares the provider.
publish_fetched ==
  /\ copy.pc = "publish"
  /\ copy' = Ended("done")
  /\ published' \in {published} \cup
       IF session = copy.session /\ applied
       THEN {[chunks |-> copy.got, unseen |-> copy.unseen]} ELSE {}
  /\ UNCHANGED <<requested, queued, task, covered, cache, loaded, session, applied>>

-----------------------------------------------------------------------------
(* The core and its configuration                                            *)

\* A new time stamp; it is near the load only if the one before was.
Stamped(file) ==
  \E near \in {FALSE, cache.near} :
    cache' = [file EXCEPT !.mtime = file.chunks[1] + file.chunks[2], !.settled = FALSE, !.near = near]

\* mihomo rewrites the file in place, one chunk after the other, closes it, and
\* reports a new updatedAt when it has loaded it.
CoreWrites ==
  /\ session # 0 /\ cache.stage < 2 /\ (cache.stage = 0 => cache.chunks[1] < MaxWrites)
  /\ LET last == cache.chunks[1]
         file == [chunks |-> IF cache.stage = 0 THEN <<last + 1, last>> ELSE <<last, last>>,
                  stage |-> cache.stage + 1, mtime |-> cache.mtime, settled |-> cache.settled,
                  near |-> cache.near, stamps |-> cache.stamps]
     IN IF cache.stamps = "exact" THEN Stamped(file) ELSE cache' = file
  /\ UNCHANGED <<requested, queued, task, covered, copy, loaded, session, applied, published>>

CoreCloses ==
  /\ session # 0 /\ cache.stage = 2
  /\ LET file == [cache EXCEPT !.stage = 0]
     IN IF cache.stamps = "retained" THEN Stamped(file) ELSE cache' = file
  /\ UNCHANGED <<requested, queued, task, covered, copy, loaded, session, applied, published>>

CoreLoads ==
  /\ session # 0 /\ cache.stage = 0 /\ loaded # Written
  /\ loaded' = Written /\ cache' = [cache EXCEPT !.near = TRUE]
  /\ UNCHANGED <<requested, queued, task, covered, copy, session, applied, published>>

\* RUNTIME_PROVIDER_SETTLE has passed, also over a write that has stalled.
has_settled ==
  /\ ~cache.settled /\ cache' = [cache EXCEPT !.settled = TRUE]
  /\ UNCHANGED <<requested, queued, task, covered, copy, loaded, session, applied, published>>

\* The core ends; another session starts, or a core that is not the service's.
\* A write that breaks off leaves a version of its own, which the next core loads
\* or does not.
SessionEnds ==
  /\ session # 0 /\ session < MaxSessions /\ session' \in {0, session + 1}
  /\ LET last == cache.chunks[1]
     IN /\ cache' = [cache EXCEPT !.chunks = <<last, last>>, !.stage = 0, !.near = TRUE,
                        !.mtime = IF cache.stamps = "none" THEN 0 ELSE 2 * last]
        /\ loaded' \in {0, 2 * last}
  /\ UNCHANGED <<requested, queued, task, covered, copy, applied, published>>

\* Another configuration is committed.
ConfigSwitches ==
  /\ applied /\ applied' = FALSE
  /\ UNCHANGED <<requested, queued, task, covered, copy, cache, loaded, session, published>>

TaskStep(t) == Slept(t) \/ Serial(t) \/ Attempted(t)
CopySteps   == \/ sync_runtime_providers_by_service \/ fetch_runtime_file \/ VerifyLoads
               \/ recheck_identity \/ publish_fetched

SyncNext ==
  \/ \E t \in SyncTasks : request_runtime_provider_sync(t) \/ TaskStep(t)
  \/ CopySteps
  \/ CoreWrites \/ CoreCloses \/ CoreLoads \/ has_settled \/ SessionEnds \/ ConfigSwitches

SyncSpec ==
  /\ SyncInit /\ [][SyncNext]_syncVars
  /\ \A t \in SyncTasks : WF_syncVars(TaskStep(t))
  /\ WF_syncVars(CopySteps)

-----------------------------------------------------------------------------
\* The application's copy is whole, however the core's write stalls between the
\* chunks and the checks (fetch_runtime_file, finished_loading, recheck_identity):
\* a chunk of one download is published with a chunk of another only where the
\* code lets a write hide, that is, when a download that the core had not loaded
\* was open throughout the checks and its file system shows no times, or shows
\* them only once the file is closed, or the core reports no load, or the
\* download began within the settling time of the last load and then stalled.
TornOnlyUnseen ==
  published.chunks[1] # published.chunks[2] => published.unseen

\* A request is followed by a copy that started after it: one that arrives
\* while a copy runs is not taken for served (request_runtime_provider_sync).
RequestsServed == requested # covered ~> requested = covered

\* What that rests on, without fairness: while a request is not covered, a task
\* that has not begun its copy is on its way to PROVIDER_SYNC_SERIAL, one at a
\* time for all the requests it stands for; and the serial is held by exactly
\* one task that runs, so that a task which waits for it is let in.
NoRequestLost ==
  /\ requested # covered => \E t \in SyncTasks : task[t].pc \in {"delay", "lock"} /\ task[t].attempt = 1
  /\ \A t, u \in SyncTasks :
       task[t].attempt = 1 /\ task[u].attempt = 1 /\ {task[t].pc, task[u].pc} \subseteq {"delay", "lock"} => t = u
  /\ copy.pc # "idle" <=> \E t \in SyncTasks : task[t].pc = "run"
  /\ \A t, u \in SyncTasks : task[t].pc = "run" /\ task[u].pc = "run" => t = u
=============================================================================
