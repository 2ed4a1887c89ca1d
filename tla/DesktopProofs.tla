---------------------------- MODULE DesktopProofs ----------------------------
(***************************************************************************)
(* What the desktop application around the core promises, for any number of *)
(* launches, quits, windows and backup triggers: shutdown, the single      *)
(* instance, automatic backups and the main window.                        *)
(***************************************************************************)
EXTENDS Shutdown, Singleton, Backups, MainWindow, SequenceTheorems, TLAPS

(***************************************************************************)
(* Signal handling and shutdown                                            *)
(***************************************************************************)

\* The steps of a quit and of a start of the core.
QuitPc == {"idle", "save", "stop", "cancel", "commit"}
StartPc == {"idle", "prepare", "start"}

\* Every variable has its type.
ExitType ==
  /\ quitTask \in [Quits -> [pc : QuitPc, begun : Nat]]
  /\ startTask \in [Starters -> [pc : StartPc, begun : Nat]]

\* Cores are stopped and started under the lifecycle lock.
UnderExitLock ==
  /\ \A q \in Quits : quitTask[q].pc = "stop" => exitLock = q
  /\ \A s \in Starters : startTask[s].pc \in {"prepare", "start"} => exitLock = s

\* A quit that is under way keeps the flag up, unless another one was cancelled.
FlagIsUp == \A q \in Quits : Quitting(q) => is_exiting \/ crossed

\* No start is past the point where it is refused; and nothing runs.
NothingStarts == \A s \in Starters : startTask[s].pc \notin {"prepare", "start"}
Stopped == exitMode = "NotRunning" /\ NothingStarts

\* The exit is committed once the core has stopped ...
CommittedStopped ==
  (\E q \in Quits : quitTask[q].pc = "commit") \/ appState = "asked" => crossed \/ (is_exiting /\ Stopped)

\* ... and while the flag is up, it has, or a quit still sees to it.
SeenTo ==
  is_exiting /\ appState \notin {"stopping", "gone"} =>
    crossed \/ Stopped \/ \E q \in Quits : quitTask[q].pc \in {"save", "stop", "cancel"}

\* The inductive invariant.
ExitInv ==
  ExitType /\ UnderExitLock /\ FlagIsUp /\ CommittedStopped /\ SeenTo /\ ExitLeavesNoCore

-----------------------------------------------------------------------------
\* It starts with nothing running.
LEMMA ExitStart == ExitInit => ExitInv
BY DEF ExitInit, ExitInv, ExitType, UnderExitLock, FlagIsUp, Quitting, CommittedStopped, SeenTo,
   ExitLeavesNoCore,
       QuitPc, StartPc, Stopped, NothingStarts

\* A quit's step.
LEMMA QuitMoves ==
  ASSUME ExitType, NEW q \in Quits, NEW pc \in QuitPc,
         QuitStep(q, pc) \/ quitTask' = [quitTask EXCEPT ![q] = [pc |-> pc, begun |-> @.begun + 1]]
  PROVE  /\ quitTask' \in [Quits -> [pc : QuitPc, begun : Nat]] /\ quitTask'[q].pc = pc
         /\ \A p \in Quits \ {q} : quitTask'[p].pc = quitTask[p].pc
<1>1. quitTask[q] \in [pc : QuitPc, begun : Nat]
  BY DEF ExitType
<1>2. quitTask[q].begun + 1 \in Nat
  BY <1>1
<1>3. CASE QuitStep(q, pc)
  BY <1>3 DEF QuitStep, ExitType
<1>4. CASE quitTask' = [quitTask EXCEPT ![q] = [pc |-> pc, begun |-> @.begun + 1]]
  BY <1>2, <1>4 DEF ExitType
<1> QED
  BY <1>3, <1>4

\* A starter's step.
LEMMA StartMoves ==
  ASSUME ExitType, NEW s \in Starters, NEW pc \in StartPc,
         StartStep(s, pc) \/ startTask' = [startTask EXCEPT ![s] = [pc |-> pc, begun |-> @.begun + 1]]
  PROVE  /\ startTask' \in [Starters -> [pc : StartPc, begun : Nat]] /\ startTask'[s].pc = pc
         /\ \A r \in Starters \ {s} : startTask'[r].pc = startTask[r].pc
<1>1. startTask[s] \in [pc : StartPc, begun : Nat]
  BY DEF ExitType
<1>2. startTask[s].begun + 1 \in Nat
  BY <1>1
<1>3. CASE StartStep(s, pc)
  BY <1>3 DEF StartStep, ExitType
<1>4. CASE startTask' = [startTask EXCEPT ![s] = [pc |-> pc, begun |-> @.begun + 1]]
  BY <1>2, <1>4 DEF ExitType
<1> QED
  BY <1>3, <1>4

\* Whoever holds the lock is the only one at the core.
LEMMA OnlyHolder ==
  ASSUME UnderExitLock, NEW q \in Quits, quitTask[q].pc = "stop"
  PROVE  NothingStarts
BY ExitAssumption DEF UnderExitLock, NothingStarts

\* A quit begins by putting the flag up.
LEMMA QuitKeeps ==
  ASSUME ExitInv, NEW q \in Quits, quit(q)
  PROVE  ExitInv'
<1> USE DEF quit, Alive, ExitInv
<1>1. /\ quitTask' \in [Quits -> [pc : QuitPc, begun : Nat]] /\ quitTask'[q].pc = "save"
      /\ \A p \in Quits \ {q} : quitTask'[p].pc = quitTask[p].pc
  BY QuitMoves, "save" \in QuitPc DEF QuitPc
<1>2. ExitType' /\ UnderExitLock' /\ FlagIsUp'
  BY <1>1 DEF ExitType, UnderExitLock, FlagIsUp
<1>3. CommittedStopped'
  BY <1>1 DEF CommittedStopped, Stopped, NothingStarts
<1>4. SeenTo' /\ ExitLeavesNoCore'
  BY <1>1 DEF SeenTo, ExitLeavesNoCore
<1> QED
  BY <1>2, <1>3, <1>4

\* It waits for the lock: no start holds it any more.
LEMMA CleanKeeps ==
  ASSUME ExitInv, NEW q \in Quits, clean_async(q)
  PROVE  ExitInv'
<1> USE DEF clean_async, Alive, ExitInv
<1>1. /\ quitTask' \in [Quits -> [pc : QuitPc, begun : Nat]] /\ quitTask'[q].pc = "stop"
      /\ \A p \in Quits \ {q} : quitTask'[p].pc = quitTask[p].pc
  BY QuitMoves, "stop" \in QuitPc DEF QuitPc
<1>2. ExitType' /\ UnderExitLock'
  BY <1>1, ExitAssumption DEF ExitType, UnderExitLock
<1>3. FlagIsUp' /\ CommittedStopped'
  BY <1>1 DEF FlagIsUp, Quitting, CommittedStopped, Stopped, NothingStarts
<1>4. SeenTo' /\ ExitLeavesNoCore'
  BY <1>1 DEF SeenTo, ExitLeavesNoCore, Stopped, NothingStarts
<1> QED
  BY <1>2, <1>3, <1>4

\* A stop that worked leaves none; one that did not is told to the quit.
LEMMA CleanupKeeps ==
  ASSUME ExitInv, NEW q \in Quits, run_exit_cleanup_transition(q)
  PROVE  ExitInv'
<1> USE DEF run_exit_cleanup_transition, Alive, ExitInv
<1> PICK pc \in {"commit", "cancel"} :
      /\ QuitStep(q, pc) /\ exitMode' \in {exitMode, "NotRunning"} /\ (pc = "commit" => exitMode' = "NotRunning")
  OBVIOUS
<1>1. /\ quitTask' \in [Quits -> [pc : QuitPc, begun : Nat]] /\ quitTask'[q].pc = pc
      /\ \A p \in Quits \ {q} : quitTask'[p].pc = quitTask[p].pc
  BY QuitMoves, pc \in QuitPc DEF QuitPc
<1>2. NothingStarts /\ NothingStarts'
  BY OnlyHolder DEF NothingStarts
<1>3. ExitType' /\ UnderExitLock'
  BY <1>1, <1>2, ExitAssumption DEF ExitType, UnderExitLock, NothingStarts
<1>4. FlagIsUp' /\ (is_exiting \/ crossed)
  BY <1>1 DEF FlagIsUp, Quitting
<1>5. CommittedStopped'
  BY <1>1, <1>2, <1>4 DEF CommittedStopped, Stopped
<1>6. SeenTo'
  BY <1>1, <1>2 DEF SeenTo, Stopped
<1>7. ExitLeavesNoCore'
  BY DEF ExitLeavesNoCore
<1> QED
  BY <1>3, <1>4, <1>5, <1>6, <1>7

\* A quit that is cancelled clears the flag: others that rely on it are crossed.
LEMMA CanceledKeeps ==
  ASSUME ExitInv, NEW q \in Quits, Canceled(q)
  PROVE  ExitInv'
<1> USE DEF Canceled, Alive, ExitInv
<1>1. /\ quitTask' \in [Quits -> [pc : QuitPc, begun : Nat]] /\ quitTask'[q].pc = "idle"
      /\ \A p \in Quits \ {q} : quitTask'[p].pc = quitTask[p].pc
  BY QuitMoves, "idle" \in QuitPc DEF QuitPc
<1>2. ExitType' /\ UnderExitLock'
  BY <1>1 DEF ExitType, UnderExitLock
<1>3. FlagIsUp' /\ CommittedStopped'
  BY <1>1 DEF FlagIsUp, Quitting, CommittedStopped
<1>4. SeenTo' /\ ExitLeavesNoCore'
  BY DEF SeenTo, ExitLeavesNoCore
<1> QED
  BY <1>2, <1>3, <1>4

\* A committed exit leaves a stopped core stopped.
LEMMA CommittedKeeps ==
  ASSUME ExitInv, NEW q \in Quits, Committed(q)
  PROVE  ExitInv'
<1> USE DEF Committed, Alive, ExitInv
<1>1. /\ quitTask' \in [Quits -> [pc : QuitPc, begun : Nat]] /\ quitTask'[q].pc = "idle"
      /\ \A p \in Quits \ {q} : quitTask'[p].pc = quitTask[p].pc
  BY QuitMoves, "idle" \in QuitPc DEF QuitPc
<1>2. ExitType' /\ UnderExitLock'
  BY <1>1 DEF ExitType, UnderExitLock
<1>3. crossed \/ (is_exiting /\ Stopped /\ Stopped')
  BY DEF CommittedStopped, Stopped, NothingStarts
<1>4. FlagIsUp' /\ CommittedStopped' /\ SeenTo'
  BY <1>1, <1>3 DEF FlagIsUp, Quitting, CommittedStopped, SeenTo
<1>5. ExitLeavesNoCore'
  BY DEF ExitLeavesNoCore
<1> QED
  BY <1>2, <1>4, <1>5

\* The event loop leaves with what the quits have done, or stops the core itself.
LEMMA LoopKeeps ==
  ASSUME ExitInv,
         ExitRequested \/ SessionEnds \/ ExitEvent \/ clean_session_ending_best_effort \/ LightweightToggled
  PROVE  ExitInv'
<1> USE DEF ExitInv
<1>1. UNCHANGED <<quitTask, startTask, exitLock, crossed>>
  BY DEF ExitRequested, SessionEnds, ExitEvent, clean_session_ending_best_effort, LightweightToggled
<1>2. ExitType' /\ UnderExitLock'
  BY <1>1 DEF ExitType, UnderExitLock
<1>3. CASE ExitRequested \/ SessionEnds \/ LightweightToggled
  <2> USE <1>1, <1>3 DEF ExitRequested, SessionEnds, LightweightToggled
  <2>1. FlagIsUp' /\ ExitLeavesNoCore'
    BY DEF FlagIsUp, Quitting, ExitLeavesNoCore
  <2>2. CommittedStopped' /\ SeenTo'
    BY DEF CommittedStopped, SeenTo, Stopped, NothingStarts
  <2> QED
    BY <1>2, <2>1, <2>2
<1>4. CASE ExitEvent
  <2> USE <1>1, <1>4 DEF ExitEvent
  <2>1. FlagIsUp' /\ CommittedStopped' /\ SeenTo'
    BY DEF FlagIsUp, Quitting, CommittedStopped, SeenTo, Stopped, NothingStarts
  <2>2. ~is_exiting => appState' # "gone"
    OBVIOUS
  <2>3. is_exiting => crossed \/ Stopped \/ \E q \in Quits : quitTask[q].pc \in {"save", "stop", "cancel"}
    BY DEF SeenTo
  <2>4. (is_exiting /\ \E q \in Quits : quitTask[q].pc \in {"save", "stop", "cancel"}) => gaveUp'
    OBVIOUS
  <2>5. Stopped => exitMode' = "NotRunning" /\ \A s \in Starters : startTask'[s].pc # "start"
    BY DEF Stopped, NothingStarts
  <2>6. crossed => crossed'
    OBVIOUS
  <2> HIDE <1>1, <1>4 DEF ExitEvent, ExitInv
  <2>7. ExitLeavesNoCore'
    BY <2>2, <2>3, <2>4, <2>5, <2>6 DEF ExitLeavesNoCore
  <2> QED
    BY <1>2, <2>1, <2>7 DEF ExitInv
<1>5. CASE clean_session_ending_best_effort
  <2> USE <1>1, <1>5 DEF clean_session_ending_best_effort
  <2>1. FlagIsUp' /\ CommittedStopped' /\ SeenTo'
    BY DEF FlagIsUp, Quitting, CommittedStopped, SeenTo, Stopped, NothingStarts
  <2>2. ExitLeavesNoCore'
    BY ExitAssumption DEF ExitLeavesNoCore, UnderExitLock
  <2> QED
    BY <1>2, <2>1, <2>2
<1> QED
  BY <1>3, <1>4, <1>5

\* What a step of a starter leaves alone.
LEMMA StarterKeeps ==
  ASSUME ExitInv, NEW s \in Starters, UNCHANGED <<is_exiting, quitTask, appState, crossed, gaveUp>>, Alive,
         ExitType', UnderExitLock', is_exiting /\ Stopped => Stopped'
  PROVE  ExitInv'
<1> USE DEF ExitInv
<1>1. FlagIsUp' /\ CommittedStopped' /\ SeenTo'
  BY DEF FlagIsUp, Quitting, CommittedStopped, SeenTo
<1>2. ExitLeavesNoCore'
  BY DEF ExitLeavesNoCore, Alive
<1> QED
  BY <1>1, <1>2

\* A start does nothing once the flag is up.
LEMMA StartKeeps ==
  ASSUME ExitInv, NEW s \in Starters, start_core_inner(s)
  PROVE  ExitInv'
<1> USE DEF start_core_inner, Begin, Alive, ExitInv
<1> DEFINE pc == IF is_exiting THEN "idle" ELSE "prepare"
<1>1. /\ startTask' \in [Starters -> [pc : StartPc, begun : Nat]] /\ startTask'[s].pc = pc
      /\ \A r \in Starters \ {s} : startTask'[r].pc = startTask[r].pc
  BY StartMoves, pc \in StartPc DEF StartPc
<1>2. ExitType' /\ UnderExitLock'
  BY <1>1, ExitAssumption DEF ExitType, UnderExitLock
<1>3. is_exiting /\ Stopped => Stopped'
  BY <1>1 DEF Stopped, NothingStarts
<1> QED
  BY <1>2, <1>3, StarterKeeps

\* A starter that found the flag up does nothing.
LEMMA DecidedKeeps ==
  ASSUME ExitInv, NEW s \in Starters, Decided(s)
  PROVE  ExitInv'
<1> USE DEF Decided, Alive, ExitInv
<1> DEFINE pc == IF is_exiting THEN "idle" ELSE "start"
<1>1. /\ startTask' \in [Starters -> [pc : StartPc, begun : Nat]] /\ startTask'[s].pc = pc
      /\ \A r \in Starters \ {s} : startTask'[r].pc = startTask[r].pc
  BY StartMoves, pc \in StartPc DEF StartPc
<1>2. ExitType' /\ UnderExitLock'
  BY <1>1, ExitAssumption DEF ExitType, UnderExitLock
<1>3. is_exiting /\ Stopped => Stopped'
  BY DEF Stopped, NothingStarts
<1> QED
  BY <1>2, <1>3, StarterKeeps

\* An update that finds no Service core once it has the lock leaves it at that.
LEMMA ReplaceKeeps ==
  ASSUME ExitInv, NEW s \in Starters, replace_service_core(s)
  PROVE  ExitInv'
<1> USE DEF replace_service_core, Begin, Alive, ExitInv
<1>1. /\ startTask' \in [Starters -> [pc : StartPc, begun : Nat]] /\ startTask'[s].pc = "start"
      /\ \A r \in Starters \ {s} : startTask'[r].pc = startTask[r].pc
  BY StartMoves, "start" \in StartPc DEF StartPc
<1>2. ExitType' /\ UnderExitLock'
  BY <1>1, ExitAssumption DEF ExitType, UnderExitLock
<1>3. ~Stopped
  BY DEF Stopped
<1> QED
  BY <1>2, <1>3, StarterKeeps

\* A start ends before anybody else takes the lock.
LEMMA StartedKeeps ==
  ASSUME ExitInv, NEW s \in Starters, CoreStarted(s)
  PROVE  ExitInv'
<1> USE DEF CoreStarted, Alive, ExitInv
<1>1. /\ startTask' \in [Starters -> [pc : StartPc, begun : Nat]] /\ startTask'[s].pc = "idle"
      /\ \A r \in Starters \ {s} : startTask'[r].pc = startTask[r].pc
  BY StartMoves, "idle" \in StartPc DEF StartPc
<1>2. ExitType' /\ UnderExitLock'
  BY <1>1, ExitAssumption DEF ExitType, UnderExitLock
<1>3. ~Stopped
  BY DEF Stopped, NothingStarts
<1> QED
  BY <1>2, <1>3, StarterKeeps

\* Every step keeps it.
LEMMA ExitNextKeeps == ExitInv /\ [ExitNext]_exitVars => ExitInv'
<1> SUFFICES ASSUME ExitInv, [ExitNext]_exitVars PROVE ExitInv'
  OBVIOUS
<1>1. CASE UNCHANGED exitVars
  BY <1>1 DEF exitVars, ExitInv, ExitType, UnderExitLock, FlagIsUp, Quitting, CommittedStopped, SeenTo,
     Stopped,
              NothingStarts, ExitLeavesNoCore
<1> QED
  BY <1>1, QuitKeeps, CleanKeeps, CleanupKeeps, CanceledKeeps, CommittedKeeps, LoopKeeps, StartKeeps,
     DecidedKeeps,
     ReplaceKeeps, StartedKeeps DEF ExitNext

\* An application that left has stopped its core, and none is being started,
\* save for a session that gave up waiting and for quits that crossed
\* (should_abort_exit_after_cleanup, start_core_inner, replace_service_core).
THEOREM ExitCorrect == ExitSpec => []ExitLeavesNoCore
<1>1. ExitInv => ExitLeavesNoCore
  BY DEF ExitInv
<1> QED
  BY <1>1, ExitStart, ExitNextKeeps, PTL DEF ExitSpec

(***************************************************************************)
(* Single instance                                                         *)
(***************************************************************************)

\* The steps at which a process has the instance lock.
Holding == {"bind", "record", "starting", "primary", "leaving"}

\* The steps of a launch, and what a lock file records.
LaunchPc == Holding \cup {"absent", "look", "notify", "failed", "secondary", "gone"}

Record == [port : EmbeddedPorts \cup {Nobody}, token : Launches \cup {Nobody}]

\* Every variable has its type.
LaunchType ==
  /\ record \in Record
  /\ launch \in [Launches -> [pc : LaunchPc, looks : Int, read : Record]]

\* The lock is where the process is that has it: two never have it at once.
OneHolder == \A i \in Launches : launch[i].pc \in Holding => lockHolder = i

\* Who leaves for another goes by the answer of its server, and only a process
\* with the lock has a server that accepts the command.
SingleInv == LaunchType /\ OneHolder

\* It holds before anybody started.
LEMMA SingleStart == SingleInit => SingleInv
BY LaunchesAssumption DEF SingleInit, SingleInv, LaunchType, OneHolder, NoLaunch, NoRecord, Record,
   Holding,
                          LaunchPc, Nobody

\* Whatever a launch does, the types hold.
LEMMA LaunchTyped ==
  ASSUME SingleInv, SingleNext
  PROVE  LaunchType'
<1> USE LaunchesAssumption DEF LaunchPc, Holding, Goes
<1> SUFFICES ASSUME NEW i \in Launches,
                    \/ Launch(i) \/ try_lock_instance(i) \/ read_instance_record(i) \/ BailsOut(i)
                    \/ bind_primary_listener(i) \/ write_instance_record(i) \/ set_commands_ready(i)
                    \/ notify_existing_instance(i) \/ shutdown_embedded_server(i) \/ ProcessEnds(i)
             PROVE  LaunchType'
  BY DEF SingleNext, ForeignProgram, SingleInv, LaunchType
<1>1. launch[i] \in [pc : LaunchPc, looks : Int, read : Record]
  BY DEF SingleInv, LaunchType
<1>2. CASE Launch(i) \/ try_lock_instance(i) \/ BailsOut(i) \/ set_commands_ready(i)
  BY <1>2 DEF Launch, try_lock_instance, BailsOut, set_commands_ready, SingleInv, LaunchType
<1>3. CASE read_instance_record(i)
  BY <1>1, <1>3 DEF read_instance_record, SingleInv, LaunchType
<1>4. CASE bind_primary_listener(i)
  BY <1>1, <1>4 DEF bind_primary_listener, SingleInv, LaunchType, Record
<1>5. CASE write_instance_record(i)
  BY <1>1, <1>5 DEF write_instance_record, SingleInv, LaunchType
<1>6. CASE notify_existing_instance(i)
  BY <1>6 DEF notify_existing_instance, SingleInv, LaunchType
<1>7. CASE shutdown_embedded_server(i) \/ ProcessEnds(i)
  BY <1>7 DEF shutdown_embedded_server, ProcessEnds, SingleInv, LaunchType
<1> QED
  BY <1>2, <1>3, <1>4, <1>5, <1>6, <1>7

\* A process takes the lock only while nobody has it, and keeps it until it
\* fails or ends.
LEMMA LockKept ==
  ASSUME SingleInv, SingleNext
  PROVE  OneHolder'
<1> USE LaunchesAssumption DEF Holding, Nobody, SingleInv, LaunchType, OneHolder, Goes
<1>1. CASE ForeignProgram
  BY <1>1 DEF ForeignProgram
<1>2. ASSUME NEW i \in Launches,
             Launch(i) \/ read_instance_record(i) \/ BailsOut(i) \/ set_commands_ready(i)
               \/ notify_existing_instance(i)
      PROVE  OneHolder'
  BY <1>2 DEF Launch, read_instance_record, BailsOut, set_commands_ready, notify_existing_instance
<1>3. ASSUME NEW i \in Launches, try_lock_instance(i) PROVE OneHolder'
  BY <1>3 DEF try_lock_instance
<1>4. ASSUME NEW i \in Launches, bind_primary_listener(i) PROVE OneHolder'
  BY <1>4 DEF bind_primary_listener
<1>5. ASSUME NEW i \in Launches, write_instance_record(i) PROVE OneHolder'
  BY <1>5 DEF write_instance_record
<1>6. ASSUME NEW i \in Launches, shutdown_embedded_server(i) \/ ProcessEnds(i) PROVE OneHolder'
  BY <1>6 DEF shutdown_embedded_server, ProcessEnds
<1> QED
  BY <1>1, <1>2, <1>3, <1>4, <1>5, <1>6 DEF SingleNext

\* At most one process has the instance lock, for as long as it lives.
THEOREM LockCorrect == SingleSpec => []SingleInv
<1>1. SingleInv /\ [SingleNext]_singleVars => SingleInv'
  <2> SUFFICES ASSUME SingleInv, [SingleNext]_singleVars PROVE SingleInv'
    OBVIOUS
  <2>1. CASE SingleNext
    BY <2>1, LaunchTyped, LockKept DEF SingleInv
  <2>2. CASE UNCHANGED singleVars
    BY <2>2 DEF singleVars, SingleInv, LaunchType, OneHolder
  <2> QED
    BY <2>1, <2>2
<1> QED
  BY <1>1, SingleStart, PTL DEF SingleSpec

\* Only the answer of a server makes a launch leave for another.
LEMMA LeavesByAnswer ==
  ASSUME SingleInv, SingleNext, NEW i \in Launches,
         launch'[i].pc = "secondary", launch[i].pc # "secondary"
  PROVE  \E k \in Launches : notify_existing_instance(k)
<1> USE DEF Goes, SingleInv, LaunchType
<1> SUFFICES ASSUME NEW k \in Launches,
                    \/ Launch(k) \/ try_lock_instance(k) \/ read_instance_record(k) \/ BailsOut(k)
                    \/ bind_primary_listener(k) \/ write_instance_record(k) \/ set_commands_ready(k)
                    \/ shutdown_embedded_server(k) \/ ProcessEnds(k)
             PROVE  FALSE
  BY DEF SingleNext, ForeignProgram
<1>1. CASE Launch(k) \/ try_lock_instance(k) \/ read_instance_record(k) \/ BailsOut(k)
  BY <1>1 DEF Launch, try_lock_instance, read_instance_record, BailsOut
<1>2. CASE bind_primary_listener(k)
  BY <1>2 DEF bind_primary_listener
<1>3. CASE write_instance_record(k) \/ set_commands_ready(k)
  BY <1>3 DEF write_instance_record, set_commands_ready
<1>4. CASE shutdown_embedded_server(k) \/ ProcessEnds(k)
  BY <1>4 DEF shutdown_embedded_server, ProcessEnds
<1> QED
  BY <1>1, <1>2, <1>3, <1>4

\* A launch leaves in favour of another only while that one holds the lock and
\* is set up (check_singleton, COMMANDS_READY).
THEOREM LeavesCorrect == SingleSpec => LeftToPrimary
<1>1. SingleInv /\ [SingleNext]_singleVars =>
        [\A i \in Launches :
           launch'[i].pc = "secondary" /\ launch[i].pc # "secondary" =>
             \E j \in Launches : lockHolder = j /\ launch[j].pc = "primary"]_singleVars
  <2> SUFFICES ASSUME SingleInv, SingleNext, NEW i \in Launches,
                      launch'[i].pc = "secondary", launch[i].pc # "secondary"
               PROVE  \E j \in Launches : lockHolder = j /\ launch[j].pc = "primary"
    OBVIOUS
  <2>1. PICK k \in Launches : notify_existing_instance(k)
    BY LeavesByAnswer
  <2>2. PICK p \in EmbeddedPorts : Accepts(portOwner[p], launch[k].read.token)
    BY <2>1 DEF notify_existing_instance, Goes, SingleInv, LaunchType
  <2> QED
    BY <2>2 DEF Accepts, SingleInv, OneHolder, Holding
<1> QED
  BY <1>1, LockCorrect, PTL DEF SingleSpec, LeftToPrimary

(***************************************************************************)
(* Automatic backups                                                       *)
(***************************************************************************)

\* The steps of a backup.
BackupPc == {"idle", "asked", "lock", "create", "pack", "move", "moved", "clean"}

Tasks == [BackupTasks -> [pc : BackupPc, at : Nat]]

\* Every variable has its type.
BackupsType ==
  /\ clock \in Nat \ {0} /\ last_backup \in Nat
  /\ backup \in Tasks
  /\ autoBackups \in Seq([begun : Nat, recorded : Nat \ {0}])

\* An automatic backup is made under the lock.
UnderLock ==
  \A t \in BackupTasks :
    Automatic(t) /\ backup[t].pc \in {"create", "pack", "move", "moved", "clean"} => exec_lock = t

\* What should_run_now looks at is the end of the last one.
LastKnown ==
  last_backup = IF autoBackups = <<>> THEN 0 ELSE autoBackups[Len(autoBackups)].recorded

\* What it found under the lock stays true until the archive is named, and is
\* true of the name after.
Due(at, last) == last = 0 \/ at - last >= MIN_BACKUP_INTERVAL_SECS

\* A backup that is about to be made is still due.
StillDue ==
  \A t \in BackupTasks :
    Automatic(t) => /\ backup[t].pc = "create" => Due(clock, last_backup)
                    /\ backup[t].pc \in {"pack", "move", "moved"} => Due(backup[t].at, last_backup)

\* The inductive invariant.
BackupsInv == BackupsType /\ UnderLock /\ LastKnown /\ StillDue /\ BackupsSpaced

\* A backup that is due stays due.
LEMMA StaysDue ==
  ASSUME NEW at \in Nat, NEW later \in Nat, later >= at, NEW last \in Nat, Due(at, last)
  PROVE  Due(later, last)
BY BackupsAssumption DEF Due

\* After the first, being due is a matter of time.
LEMMA DueNow ==
  ASSUME NEW at \in Nat, NEW last \in Nat \ {0}, Due(at, last)
  PROVE  at - last >= MIN_BACKUP_INTERVAL_SECS
BY DEF Due

\* What a sequence of them holds.
LEMMA Entry == ASSUME NEW S, NEW log \in Seq(S), NEW i \in 1 .. Len(log) PROVE log[i] \in S
OBVIOUS

\* No backup is recorded at second 0.
LEMMA LogEntry ==
  ASSUME NEW log \in Seq([begun : Nat, recorded : Nat \ {0}]), NEW i \in 1 .. Len(log)
  PROVE  log[i].recorded \in Nat \ {0}
<1>1. log[i] \in [begun : Nat, recorded : Nat \ {0}]
  BY Entry
<1> QED
  BY <1>1

\* What recording adds was due.
LEMMA OneMore ==
  ASSUME NEW log \in Seq([begun : Nat, recorded : Nat \ {0}]), NEW one \in [begun : Nat, recorded : Nat \ {0}],
         \A i \in 1 .. Len(log) - 1 : log[i + 1].begun - log[i].recorded >= MIN_BACKUP_INTERVAL_SECS,
         log # <<>> => one.begun - log[Len(log)].recorded >= MIN_BACKUP_INTERVAL_SECS
  PROVE  \A i \in 1 .. Len(Append(log, one)) - 1 :
           Append(log, one)[i + 1].begun - Append(log, one)[i].recorded >= MIN_BACKUP_INTERVAL_SECS
<1> TAKE i \in 1 .. Len(Append(log, one)) - 1
<1>1. CASE i = Len(log)
  BY <1>1
<1>2. CASE i # Len(log)
  BY <1>2
<1> QED
  BY <1>1, <1>2

\* A task's step.
LEMMA StepType ==
  ASSUME NEW tasks \in Tasks, NEW t \in BackupTasks, NEW pc \in BackupPc, NEW at \in Nat
  PROVE  [tasks EXCEPT ![t].pc = pc] \in Tasks /\ [tasks EXCEPT ![t] = [pc |-> pc, at |-> at]] \in Tasks
BY DEF Tasks

USE BackupsAssumption DEF BackupPc, BackupTasks, Automatic, NoTask, Scheduled

\* No backup has been made when the program starts.
LEMMA BackupsStart == BackupInit => BackupsInv
BY DEF BackupInit, BackupsInv, BackupsType, Tasks, UnderLock, LastKnown, StillDue, BackupsSpaced,
   NotBacking

\* What was recorded is not touched but by recording.
LEMMA SameRecord ==
  ASSUME BackupsInv, UNCHANGED <<last_backup, autoBackups>>
  PROVE  /\ last_backup' \in Nat /\ autoBackups' \in Seq([begun : Nat, recorded : Nat \ {0}])
         /\ LastKnown' /\ BackupsSpaced'
BY DEF BackupsInv, BackupsType, Tasks, LastKnown, BackupsSpaced

\* A step that records nothing and moves no task into the lock's care.
LEMMA Elsewhere ==
  ASSUME BackupsInv, clock' \in Nat \ {0}, clock' >= clock, UNCHANGED <<exec_lock, last_backup, autoBackups>>,
         backup' \in Tasks,
         \A t \in BackupTasks : backup'[t] = backup[t] \/ ~Automatic(t) \/ backup'[t].pc \in {"idle", "asked", "lock"}
  PROVE  BackupsInv'
<1>1. BackupsType'
  BY SameRecord DEF BackupsInv, BackupsType, Tasks
<1>2. UnderLock'
  BY DEF BackupsInv, UnderLock
<1>3. StillDue'
  <2> SUFFICES ASSUME NEW t \in BackupTasks, Automatic(t), backup'[t] = backup[t]
               PROVE  /\ backup[t].pc = "create" => Due(clock', last_backup)
                      /\ backup[t].pc \in {"pack", "move", "moved"} => Due(backup[t].at, last_backup)
    BY DEF StillDue
  <2>1. ASSUME Due(clock, last_backup) PROVE Due(clock', last_backup)
    BY <2>1, StaysDue DEF BackupsInv, BackupsType, Tasks
  <2> QED
    BY <2>1 DEF BackupsInv, StillDue
<1> QED
  BY <1>1, <1>2, <1>3, SameRecord DEF BackupsInv

\* A task that is over gives the lock back, and nobody else's.
LEMMA OverKeeps ==
  ASSUME BackupsInv, NEW t \in BackupTasks, Over(t), UNCHANGED <<clock, last_backup, autoBackups>>
  PROVE  BackupsInv'
BY DEF Over, NotBacking, BackupsInv, BackupsType, Tasks, UnderLock, LastKnown, StillDue, Due,
   BackupsSpaced

\* The second look under the lock is the one that counts.
LEMMA LockedKeeps ==
  ASSUME BackupsInv, NEW t \in BackupTasks, LockedTrigger(t)
  PROVE  BackupsInv'
<1>1. CASE ~should_run_now
  BY <1>1, OverKeeps DEF LockedTrigger
<1>2. CASE should_run_now
  <2>1. /\ exec_lock = NoTask /\ exec_lock' = t /\ backup' = [backup EXCEPT ![t].pc = "create"]
        /\ UNCHANGED <<clock, last_backup, autoBackups>>
    BY <1>2 DEF LockedTrigger, Onwards
  <2> USE <2>1 DEF BackupsInv
  <2>2. Due(clock, last_backup)
    BY <1>2 DEF should_run_now, Due
  <2>3. backup' \in Tasks
    <3> HIDE DEF BackupTasks, BackupPc
    <3>1. "create" \in BackupPc
      BY DEF BackupPc
    <3> QED
      BY <3>1, StepType DEF BackupsType
  <2>4. UnderLock'
    BY DEF BackupsType, Tasks, UnderLock
  <2>5. StillDue'
    BY <2>2 DEF BackupsType, Tasks, UnderLock, StillDue
  <2> QED
    BY <2>3, <2>4, <2>5, SameRecord DEF BackupsType
<1> QED
  BY <1>1, <1>2

\* The archive is named by the second it is begun in.
LEMMA CreateKeeps ==
  ASSUME BackupsInv, NEW t \in BackupTasks, create_backup(t)
  PROVE  BackupsInv'
<1>1. CASE Over(t)
  BY <1>1, OverKeeps DEF create_backup
<1>2. CASE ~Over(t)
  <2>1. /\ backup[t].pc = "create" /\ backup' = [backup EXCEPT ![t] = [pc |-> "pack", at |-> clock]]
        /\ UNCHANGED <<clock, exec_lock, last_backup, autoBackups>>
    BY <1>2 DEF create_backup, Packs
  <2> USE <2>1 DEF BackupsInv
  <2>2. backup' \in Tasks
    <3> HIDE DEF BackupTasks, BackupPc
    <3>1. "pack" \in BackupPc /\ clock \in Nat
      BY DEF BackupPc, BackupsType
    <3> QED
      BY <3>1, StepType DEF BackupsType
  <2>3. UnderLock'
    BY DEF BackupsType, Tasks, UnderLock
  <2>4. StillDue'
    BY DEF BackupsType, Tasks, UnderLock, StillDue
  <2> QED
    BY <2>2, <2>3, <2>4, SameRecord DEF BackupsType
<1> QED
  BY <1>1, <1>2

\* Packing and moving keep the name.
LEMMA MoveKeeps ==
  ASSUME BackupsInv, NEW t \in BackupTasks, Packed(t) \/ move_file(t)
  PROVE  BackupsInv'
<1>1. CASE Over(t)
  BY <1>1, OverKeeps DEF Packed, move_file
<1>2. CASE ~Over(t)
  <2>1. /\ backup[t].pc \in {"pack", "move"}
        /\ \E pc \in {"move", "moved"} : backup' = [backup EXCEPT ![t].pc = pc]
        /\ UNCHANGED <<clock, exec_lock, last_backup, autoBackups>>
    BY <1>2 DEF Packed, move_file, Packs, Onwards
  <2> PICK pc \in {"move", "moved"} : backup' = [backup EXCEPT ![t].pc = pc]
    BY <2>1
  <2> USE <2>1 DEF BackupsInv
  <2>2. backup' \in Tasks
    <3> HIDE DEF BackupTasks, BackupPc
    <3>1. pc \in BackupPc
      BY DEF BackupPc
    <3> QED
      BY <3>1, StepType DEF BackupsType
  <2>3. UnderLock'
    BY DEF BackupsType, Tasks, UnderLock
  <2>4. StillDue'
    BY DEF BackupsType, Tasks, StillDue
  <2> QED
    BY <2>2, <2>3, <2>4, SameRecord DEF BackupsType
<1> QED
  BY <1>1, <1>2

\* A backup that is recorded was due when its archive was named.
LEMMA RecordKeeps ==
  ASSUME BackupsInv, NEW t \in BackupTasks, RecordBackup(t)
  PROVE  BackupsInv'
<1> USE DEF RecordBackup, Packs, Onwards, scheduling, BackupsInv, BackupsType, Tasks
<1>1. exec_lock = t /\ Due(backup[t].at, last_backup)
  BY DEF UnderLock, StillDue
<1>2. BackupsType'
  OBVIOUS
<1>3. UnderLock' /\ LastKnown'
  BY DEF UnderLock, LastKnown
<1>4. StillDue'
  BY <1>1 DEF UnderLock, StillDue
<1>5. BackupsSpaced'
  <2> DEFINE one == [begun |-> backup[t].at, recorded |-> clock]
  <2>1. one \in [begun : Nat, recorded : Nat \ {0}]
    OBVIOUS
  <2>2. autoBackups # <<>> => one.begun - autoBackups[Len(autoBackups)].recorded >= MIN_BACKUP_INTERVAL_SECS
    <3> SUFFICES ASSUME autoBackups # <<>>
                 PROVE  backup[t].at - autoBackups[Len(autoBackups)].recorded >= MIN_BACKUP_INTERVAL_SECS
      OBVIOUS
    <3>1. Len(autoBackups) \in 1 .. Len(autoBackups)
      OBVIOUS
    <3>2. last_backup = autoBackups[Len(autoBackups)].recorded
      BY DEF LastKnown
    <3>3. autoBackups[Len(autoBackups)].recorded \in Nat \ {0}
      BY <3>1, LogEntry
    <3>4. backup[t].at \in Nat /\ last_backup \in Nat \ {0}
      BY <3>2, <3>3
    <3>5. backup[t].at - last_backup >= MIN_BACKUP_INTERVAL_SECS
      BY <1>1, <3>4, DueNow
    <3> QED
      BY <3>2, <3>5
  <2>3. autoBackups' = Append(autoBackups, one)
    OBVIOUS
  <2> HIDE DEF one
  <2> QED
    BY <2>1, <2>2, <2>3, OneMore DEF BackupsSpaced
<1> QED
  BY <1>2, <1>3, <1>4, <1>5

\* Every step keeps it.
LEMMA BackupsNext == BackupsInv /\ [BackupNext]_backupVars => BackupsInv'
<1> SUFFICES ASSUME BackupsInv, [BackupNext]_backupVars PROVE BackupsInv'
  OBVIOUS
<1>1. CASE refresh_settings \/ SettingsSeen \/ delete_local_backup \/ ClockTicks \/ UNCHANGED backupVars
  <2>1. /\ clock' = clock \/ clock' = clock + 1
        /\ UNCHANGED <<backup, exec_lock, last_backup, autoBackups>>
    BY <1>1 DEF refresh_settings, SettingsSeen, delete_local_backup, ClockTicks, backupVars
  <2>2. backup' \in Tasks /\ clock' \in Nat \ {0} /\ clock' >= clock
    BY <2>1 DEF BackupsInv, BackupsType
  <2> QED
    BY <2>1, <2>2, Elsewhere
<1>2. CASE SleepOver
  BY <1>2, Elsewhere DEF SleepOver, Onwards, directories, BackupsInv, BackupsType, Tasks
<1>3. ASSUME NEW t \in BackupTasks, trigger_backup(t) PROVE BackupsInv'
  BY <1>3, Elsewhere DEF trigger_backup, Packs, Onwards, scheduling, directories, BackupsInv,
     BackupsType, Tasks
<1>4. ASSUME NEW t \in BackupTasks, execute_trigger(t) PROVE BackupsInv'
  <2>1. CASE Over(t)
    BY <1>4, <2>1, OverKeeps DEF execute_trigger
  <2>2. CASE ~Over(t)
    BY <1>4, <2>2, Elsewhere DEF execute_trigger, Onwards, scheduling, BackupsInv, BackupsType, Tasks
  <2> QED
    BY <2>1, <2>2
<1>5. ASSUME NEW t \in BackupTasks,
             create_backup_and_upload_webdav(t) \/ create_local_backup(t) \/ cleanup_auto_backups(t)
      PROVE  BackupsInv'
  BY <1>5, OverKeeps DEF create_backup_and_upload_webdav, create_local_backup, cleanup_auto_backups
<1> QED
  BY <1>1, <1>2, <1>3, <1>4, <1>5, LockedKeeps, CreateKeeps, MoveKeeps, RecordKeeps DEF BackupNext

\* An automatic backup is never begun within the minimum interval after one was
\* recorded (should_run_now on both sides of exec_lock).
THEOREM SpacedCorrect == BackupSpec => []BackupsSpaced
<1>1. BackupsInv => BackupsSpaced
  BY DEF BackupsInv
<1> QED
  BY <1>1, BackupsStart, BackupsNext, PTL DEF BackupSpec

HIDE BackupsAssumption DEF BackupPc, BackupTasks, Automatic, NoTask, Scheduled

(***************************************************************************)
(* Main window                                                             *)
(***************************************************************************)

\* What the event loop may be asked to do.
Messages == {"destroy", "close", "show", "reload", "hide"}

\* The event loop has been asked to load the page again.
ReloadPosted == \E i \in 1..Len(posted) : posted[i] = "reload"

\* A dead page that was not forgotten, and did not fail to load again, is still to
\* be noticed, to be loaded, or marked; a mark does not outlast the focus that a shown window gains; and
\* without a window there is no page, and nothing is due for one.
PageInv ==
  /\ posted \in Seq(Messages) /\ WEBVIEW_NEEDS_RELOAD \in BOOLEAN
  /\ forgotten \in BOOLEAN /\ reloadFailed \in BOOLEAN
  /\ page = "dead" /\ forgotten = FALSE /\ reloadFailed = FALSE =>
       "terminated" \in due \/ "reload" \in due \/ ReloadPosted \/ WEBVIEW_NEEDS_RELOAD = TRUE
  /\ WEBVIEW_NEEDS_RELOAD = TRUE /\ window = "shown" => "focus" \in due
  /\ window = "none" => page = "none" /\ due \subseteq {"timer"}

\* What the invariant speaks of.
pageVars == <<posted, WEBVIEW_NEEDS_RELOAD, forgotten, reloadFailed, page, due, window>>

\* A message more: what was asked before is still asked.
LEMMA PostedOne ==
  ASSUME posted \in Seq(Messages), NEW m \in Messages, posted' = Append(posted, m)
  PROVE  posted' \in Seq(Messages) /\ (ReloadPosted => ReloadPosted')
PROOF
<1>1. posted' \in Seq(Messages) /\ Len(posted') = Len(posted) + 1 /\ \A i \in 1..Len(posted) : posted'[i] = posted[i]
  OBVIOUS
<1>2. Len(posted) \in Nat
  OBVIOUS
<1>3. QED
  BY <1>1, <1>2 DEF ReloadPosted

\* Messages more, among them possibly a reload.
LEMMA PostedMore ==
  ASSUME posted \in Seq(Messages), NEW s \in Seq(Messages), posted' = posted \o s
  PROVE  /\ posted' \in Seq(Messages) /\ (ReloadPosted => ReloadPosted')
         /\ s # <<>> /\ s[1] = "reload" => ReloadPosted'
PROOF
<1>1. posted' \in Seq(Messages) /\ Len(posted') = Len(posted) + Len(s)
  OBVIOUS
<1>2. \A i \in 1..Len(posted) : posted'[i] = posted[i]
  OBVIOUS
<1>3. Len(posted) \in Nat /\ Len(s) \in Nat
  OBVIOUS
<1>4. ReloadPosted => ReloadPosted'
  BY <1>1, <1>2, <1>3 DEF ReloadPosted
<1>5. ASSUME s # <<>>, s[1] = "reload" PROVE ReloadPosted'
  <2>1. Len(s) >= 1
    BY <1>5, EmptySeq, <1>3
  <2>2. posted'[Len(posted) + 1] = s[1]
    BY <1>1, <1>3, <2>1
  <2>3. Len(posted) + 1 \in 1..Len(posted')
    BY <1>1, <1>3, <2>1
  <2>4. QED
    BY <1>5, <2>2, <2>3 DEF ReloadPosted
<1>6. QED
  BY <1>1, <1>4, <1>5

\* A message less, which was no reload.
LEMMA PostedLess ==
  ASSUME posted \in Seq(Messages), posted # <<>>, posted' = Tail(posted)
  PROVE  /\ posted' \in Seq(Messages)
         /\ Head(posted) # "reload" /\ ReloadPosted => ReloadPosted'
PROOF
<1>1. posted' \in Seq(Messages) /\ Len(posted') = Len(posted) - 1
  OBVIOUS
<1>2. \A i \in 1..Len(posted') : posted'[i] = posted[i + 1]
  OBVIOUS
<1>3. Head(posted) = posted[1] /\ Len(posted) \in Nat
  OBVIOUS
<1>4. ASSUME Head(posted) # "reload", ReloadPosted PROVE ReloadPosted'
  <2>1. PICK i \in 1..Len(posted) : posted[i] = "reload"
    BY <1>4 DEF ReloadPosted
  <2>2. i # 1
    BY <1>3, <1>4, <2>1
  <2>3. i - 1 \in 1..Len(posted') /\ (i - 1) + 1 = i
    BY <1>1, <1>3, <2>1, <2>2
  <2>4. QED
    BY <1>2, <2>1, <2>3 DEF ReloadPosted
<1>5. QED
  BY <1>1, <1>4

\* What starts a sequence of messages starts it with others behind it, too.
LEMMA StartStays ==
  ASSUME NEW s \in Seq(Messages), NEW t \in Seq(Messages), Len(s) = 1
  PROVE  s \o t \in Seq(Messages) /\ s \o t # <<>> /\ (s \o t)[1] = s[1]
PROOF
<1>1. s \o t \in Seq(Messages) /\ Len(s \o t) = Len(s) + Len(t) /\ Len(t) \in Nat
  BY ConcatProperties, LenProperties
<1>2. (s \o t)[1] = s[1]
  BY ConcatProperties, LenProperties
<1>3. QED
  BY <1>1, <1>2

\* Every step of the tasks and of the event loop keeps the account of the page.
LEMMA PageKeeps ==
  ASSUME PageInv, [WindowNext]_windowVars
  PROVE  PageInv'
PROOF
<1>0. ASSUME UNCHANGED pageVars PROVE PageInv'
  BY <1>0 DEF PageInv, pageVars, ReloadPosted
<1>1. CASE \E k \in IdleTimers : TimerFires(k)
  <2>1. UNCHANGED pageVars
    BY <1>1 DEF TimerFires, pageVars, shownVars, lightVars
  <2>2. QED
    BY <1>0, <2>1
<1>2. CASE \E k \in IdleTimers : TimerExpired(k)
  <2>1. UNCHANGED pageVars
    BY <1>2 DEF TimerExpired, pageVars, shownVars, lightVars
  <2>2. QED
    BY <1>0, <2>1
<1>3. CASE \E t \in WindowTasks : Click(t)
  <2>1. UNCHANGED pageVars
    BY <1>3 DEF Click, pageVars, shownVars, lightVars
  <2>2. QED
    BY <1>0, <2>1
<1>4. CASE \E t \in WindowTasks : entry_lightweight_mode(t)
  <2>1. UNCHANGED pageVars
    BY <1>4 DEF entry_lightweight_mode, pageVars, shownVars, lightVars
  <2>2. QED
    BY <1>0, <2>1
<1>5. CASE \E t \in WindowTasks : exit_lightweight_mode(t)
  <2>1. UNCHANGED pageVars
    BY <1>5 DEF exit_lightweight_mode, pageVars, shownVars, lightVars
  <2>2. QED
    BY <1>0, <2>1
<1>6. CASE \E t \in WindowTasks : Exiting(t)
  <2>1. UNCHANGED pageVars
    BY <1>6 DEF Exiting, pageVars, shownVars, lightVars
  <2>2. QED
    BY <1>0, <2>1
<1>7. CASE \E t \in WindowTasks : open_or_close_dashboard(t)
  <2>1. UNCHANGED pageVars
    BY <1>7 DEF open_or_close_dashboard, pageVars, shownVars, lightVars
  <2>2. QED
    BY <1>0, <2>1
<1>8. CASE \E t \in WindowTasks : handle_reopen(t)
  <2>1. UNCHANGED pageVars
    BY <1>8 DEF handle_reopen, pageVars, shownVars, lightVars
  <2>2. QED
    BY <1>0, <2>1
<1>9. CASE \E t \in WindowTasks : show_main_window(t)
  <2>1. UNCHANGED pageVars
    BY <1>9 DEF show_main_window, pageVars, shownVars, lightVars
  <2>2. QED
    BY <1>0, <2>1
<1>10. CASE \E t \in WindowTasks : Left(t)
  <2>1. UNCHANGED pageVars
    BY <1>10 DEF Left, pageVars, shownVars, lightVars
  <2>2. QED
    BY <1>0, <2>1
<1>11. CASE enable_auto_light_weight_mode
  <2>1. UNCHANGED pageVars
    BY <1>11 DEF enable_auto_light_weight_mode, pageVars, shownVars, lightVars
  <2>2. QED
    BY <1>0, <2>1
<1>12. CASE disable_auto_light_weight_mode
  <2>1. UNCHANGED pageVars
    BY <1>12 DEF disable_auto_light_weight_mode, pageVars, shownVars, lightVars
  <2>2. QED
    BY <1>0, <2>1
<1>13. CASE \E t \in WindowTasks : destroy_main_window(t)
  <2>1. UNCHANGED <<WEBVIEW_NEEDS_RELOAD, forgotten, reloadFailed, page, due, window>>
    BY <1>13 DEF destroy_main_window, shownVars
  <2>2. posted' = posted \/ \E m \in Messages : posted' = Append(posted, m)
    BY <1>13 DEF destroy_main_window, Post, Messages
  <2>3. posted' \in Seq(Messages) /\ (ReloadPosted => ReloadPosted')
    <3>1. CASE posted' = posted
      BY <3>1 DEF PageInv, ReloadPosted
    <3>2. CASE \E m \in Messages : posted' = Append(posted, m)
      BY <3>2, PostedOne DEF PageInv
    <3>3. QED
      BY <2>2, <3>1, <3>2
  <2>4. QED
    BY <2>1, <2>3 DEF PageInv
<1>14. CASE \E t \in WindowTasks : toggle_main_window(t)
  <2>1. UNCHANGED <<WEBVIEW_NEEDS_RELOAD, forgotten, reloadFailed, page, due, window>>
    BY <1>14 DEF toggle_main_window, shownVars
  <2>2. posted' = posted \/ \E m \in Messages : posted' = Append(posted, m)
    BY <1>14 DEF toggle_main_window, Post, Messages
  <2>3. posted' \in Seq(Messages) /\ (ReloadPosted => ReloadPosted')
    <3>1. CASE posted' = posted
      BY <3>1 DEF PageInv, ReloadPosted
    <3>2. CASE \E m \in Messages : posted' = Append(posted, m)
      BY <3>2, PostedOne DEF PageInv
    <3>3. QED
      BY <2>2, <3>1, <3>2
  <2>4. QED
    BY <2>1, <2>3 DEF PageInv
<1>15. CASE \E t \in WindowTasks : hide(t)
  <2>1. UNCHANGED <<WEBVIEW_NEEDS_RELOAD, forgotten, reloadFailed, page, due, window>>
    BY <1>15 DEF hide, shownVars
  <2>2. posted' = posted \/ \E m \in Messages : posted' = Append(posted, m)
    BY <1>15 DEF hide, Post, Messages
  <2>3. posted' \in Seq(Messages) /\ (ReloadPosted => ReloadPosted')
    <3>1. CASE posted' = posted
      BY <3>1 DEF PageInv, ReloadPosted
    <3>2. CASE \E m \in Messages : posted' = Append(posted, m)
      BY <3>2, PostedOne DEF PageInv
    <3>3. QED
      BY <2>2, <3>1, <3>2
  <2>4. QED
    BY <2>1, <2>3 DEF PageInv
<1>16. CASE StartTimer
  <2>1. UNCHANGED <<posted, WEBVIEW_NEEDS_RELOAD, forgotten, reloadFailed, page, window>> /\ due' = due \ {"timer"}
    BY <1>16 DEF StartTimer
  <2>2. QED
    BY <2>1 DEF PageInv, ReloadPosted
<1>17. CASE \E t \in WindowTasks : activate_window(t)
  <2>1. UNCHANGED <<forgotten, page, due, window>> /\ WEBVIEW_NEEDS_RELOAD' = FALSE
    BY <1>17 DEF activate_window, shownVars
  <2> DEFINE reloads == /\ WEBVIEW_NEEDS_RELOAD /\ UNCHANGED reloadFailed
                      /\ posted' = posted \o <<"reload">> \o IF window = "minimized" THEN <<"show">> ELSE <<>>
             shows == Post("show") /\ reloadFailed' = (reloadFailed \/ (WEBVIEW_NEEDS_RELOAD /\ page = "dead"))
  <2>2. CASE reloads
    <3> DEFINE more == <<"reload">> \o IF window = "minimized" THEN <<"show">> ELSE <<>>
    <3>1. posted' = posted \o more
      BY <2>2
    <3>2. more \in Seq(Messages) /\ more # <<>> /\ more[1] = "reload"
      <4>1. CASE window = "minimized"
        <5>1. more = <<"reload">> \o <<"show">>
          BY <4>1
        <5>2. <<"reload">> \in Seq(Messages) /\ <<"show">> \in Seq(Messages)
          BY DEF Messages
        <5>3. Len(<<"reload">>) = 1 /\ <<"reload">>[1] = "reload"
          OBVIOUS
        <5>4. QED
          BY <5>1, <5>2, <5>3, StartStays
      <4>2. CASE window # "minimized"
        <5>1. more = <<"reload">> \o <<>>
          BY <4>2
        <5>2. more = <<"reload">>
          BY <5>1
        <5>3. QED
          BY <5>2 DEF Messages
      <4>3. QED
        BY <4>1, <4>2
    <3>3. posted' \in Seq(Messages) /\ ReloadPosted'
      <4> HIDE DEF more
      <4> QED
        BY <3>1, <3>2, PostedMore DEF PageInv
    <3>4. QED
      BY <2>1, <2>2, <3>3 DEF PageInv
  <2>3. CASE shows
    <3>1. posted' = Append(posted, "show") /\ "show" \in Messages
      BY <2>3 DEF Post, Messages
    <3>2. posted' \in Seq(Messages) /\ (ReloadPosted => ReloadPosted')
      BY <3>1, PostedOne DEF PageInv
    <3>3. reloadFailed' \in BOOLEAN /\ (reloadFailed' = FALSE => reloadFailed = FALSE)
      BY <2>3 DEF PageInv
    <3>4. page = "dead" /\ reloadFailed' = FALSE => WEBVIEW_NEEDS_RELOAD # TRUE
      BY <2>3 DEF PageInv
    <3>5. QED
      BY <2>1, <3>2, <3>3, <3>4 DEF PageInv
  <2>4. reloads \/ shows
    BY <1>17 DEF activate_window
  <2>5. QED
    BY <2>2, <2>3, <2>4
<1>18. CASE \E t \in WindowTasks : create_window(t)
  <2>1. UNCHANGED <<posted, WEBVIEW_NEEDS_RELOAD, forgotten, due>>
    BY <1>18 DEF create_window
  <2>2. (window' = "hidden" /\ page' = "loading" /\ reloadFailed' = FALSE) \/ UNCHANGED <<window, page, reloadFailed>>
    BY <1>18 DEF create_window, build_new_window, Loads
  <2>3. QED
    BY <2>1, <2>2 DEF PageInv, ReloadPosted
<1>19. CASE \E t \in WindowTasks : Built(t)
  <2>1. /\ UNCHANGED <<posted, window, page, due, reloadFailed>> /\ WEBVIEW_NEEDS_RELOAD' = FALSE
        /\ forgotten' = (forgotten \/ (WEBVIEW_NEEDS_RELOAD /\ page = "dead"))
    BY <1>19 DEF Built
  <2>2. QED
    BY <2>1 DEF PageInv, ReloadPosted
<1>20. CASE Handled
  <2>1. /\ posted # <<>> /\ posted' = Tail(posted) /\ UNCHANGED <<WEBVIEW_NEEDS_RELOAD, forgotten>>
    BY <1>20 DEF Handled
  <2>2. posted' \in Seq(Messages) /\ (Head(posted) # "reload" /\ ReloadPosted => ReloadPosted')
    BY <2>1, PostedLess DEF PageInv
  <2>3. CASE window = "none" /\ UNCHANGED <<window, page, due, reloadFailed>>
    BY <2>1, <2>2, <2>3 DEF PageInv
  <2>4. CASE window # "none" /\ Head(posted) = "destroy" /\ Destroyed
    BY <2>1, <2>2, <2>4 DEF PageInv, Destroyed
  <2>5. CASE window # "none" /\ Head(posted) = "reload" /\ Loads /\ UNCHANGED <<window, due>>
    BY <2>1, <2>2, <2>5 DEF PageInv, Loads
  <2>6. CASE window # "none" /\ UNCHANGED reloadFailed /\ Head(posted) = "close" /\ handle_window_close
    BY <2>1, <2>2, <2>6 DEF PageInv, handle_window_close
  <2>7. CASE window # "none" /\ UNCHANGED reloadFailed /\ Head(posted) = "show" /\ ToFront /\ UNCHANGED page
    BY <2>1, <2>2, <2>7 DEF PageInv, ToFront
  <2>8. CASE /\ window # "none" /\ UNCHANGED <<reloadFailed, page>> /\ Head(posted) = "hide"
             /\ window' = "hidden" /\ due' = due \ {"focus"}
    BY <2>1, <2>2, <2>8 DEF PageInv
  <2>9. QED
    BY <1>20, <2>3, <2>4, <2>5, <2>6, <2>7, <2>8 DEF Handled
<1>21. CASE WindowButtons
  BY <1>21 DEF WindowButtons, PageInv, ReloadPosted, handle_window_close, ToFront
<1>22. CASE Focused
  BY <1>22 DEF Focused, Reloads, Loads, PageInv, ReloadPosted
<1>23. CASE PageLoaded
  BY <1>23 DEF PageLoaded, PageInv, ReloadPosted, ToFront
<1>24. CASE PageDies
  BY <1>24 DEF PageDies, PageInv, ReloadPosted
<1>25. CASE on_web_content_process_terminated
  BY <1>25 DEF on_web_content_process_terminated, PageInv, ReloadPosted
<1>26. CASE Reloaded
  BY <1>26 DEF Reloaded, Reloads, Loads, PageInv, ReloadPosted
<1>27. CASE UNCHANGED windowVars
  BY <1>27, <1>0 DEF windowVars, pageVars
<1>28. QED
  BY <1>1, <1>2, <1>3, <1>4, <1>5, <1>6, <1>7, <1>8, <1>9, <1>10, <1>11, <1>12, <1>13, <1>14, <1>15,
     <1>16, <1>17, <1>18, <1>19, <1>20, <1>21, <1>22, <1>23, <1>24, <1>25, <1>26, <1>27 DEF WindowNext

\* NoDeadPage, whatever the clicks, the timers and the bounds: a page whose
\* process was ended is never what the user is left looking at, unless it could not
\* be loaded again.
THEOREM PageCorrect == WindowSpec => []NoDeadPage
PROOF
<1>1. WindowInit => PageInv
  <2> SUFFICES ASSUME WindowInit PROVE PageInv
    OBVIOUS
  <2>1. posted \in Seq(Messages)
    BY DEF WindowInit
  <2>2. QED
    BY <2>1 DEF WindowInit, PageInv
<1>2. PageInv => NoDeadPage
  <2> SUFFICES ASSUME PageInv, posted = <<>>, due = {}, window = "shown", ~forgotten, ~reloadFailed, page = "dead" PROVE FALSE
    BY DEF NoDeadPage, WindowSettled
  <2>1. ~ReloadPosted
    BY DEF ReloadPosted
  <2>2. QED
    BY <2>1 DEF PageInv
<1>3. QED
  BY <1>1, <1>2, PageKeeps, PTL DEF WindowSpec

=============================================================================
