------------------------------ MODULE Singleton ------------------------------
(***************************************************************************)
(* One application per user (utils/server.rs: check_singleton and the      *)
(* embedded server): an instance holds a file lock for as long as it       *)
(* lives and records where its server listens; another that finds the lock *)
(* taken asks the recorded server to show its window and leaves, or waits  *)
(* for the lock.                                                           *)
(*                                                                         *)
(* Ports are reused: by a later instance, which prefers the recorded one,  *)
(* and by foreign programs.  Instances restart, quit and crash.            *)
(***************************************************************************)
EXTENDS Integers

CONSTANTS
  Launches,         \* processes, in the order a restart may launch them
  EmbeddedPorts,    \* ports (bound)
  MaxLooks          \* looks a waiting launch takes before its deadline (bound)

Nobody == 0
ForeignProcess == -1       \* another program; it has no such command
NoRecord == [port |-> Nobody, token |-> Nobody]

VARIABLES
  lockHolder,       \* the process that holds singleton-instance.lock
  record,           \* singleton-instance.json; a token is its instance's own
  portOwner,        \* who listens on each port
  launch            \* each process: its step, looks left, what it read

singleVars == <<lockHolder, record, portOwner, launch>>

ASSUME LaunchesAssumption == Launches \subseteq Nat \ {0} /\ MaxLooks \in Nat

NoLaunch == [pc |-> "absent", looks |-> MaxLooks, read |-> NoRecord]

SingleInit ==
  /\ lockHolder = Nobody /\ record = NoRecord
  /\ portOwner = [p \in EmbeddedPorts |-> Nobody]
  /\ launch = [i \in Launches |-> NoLaunch]

Goes(i, pc) == launch' = [launch EXCEPT ![i].pc = pc]
Without(i) == [p \in EmbeddedPorts |-> IF portOwner[p] = i THEN Nobody ELSE portOwner[p]]

-----------------------------------------------------------------------------
(* check_singleton                                                           *)

Launch(i) ==
  /\ launch[i].pc = "absent" /\ Goes(i, "look")
  /\ UNCHANGED <<lockHolder, record, portOwner>>

try_lock_instance(i) ==
  /\ launch[i].pc = "look" /\ lockHolder = Nobody
  /\ lockHolder' = i /\ Goes(i, "bind")
  /\ UNCHANGED <<record, portOwner>>

\* Another has it: its record is read, which it may be about to replace.
read_instance_record(i) ==
  /\ launch[i].pc = "look" /\ lockHolder # Nobody /\ launch[i].looks > 0
  /\ launch' = [launch EXCEPT ![i] = [pc |-> "notify", looks |-> @.looks - 1, read |-> record]]
  /\ UNCHANGED <<lockHolder, record, portOwner>>

\* Twenty seconds without an answer: "another app instance is starting".
BailsOut(i) ==
  /\ launch[i].pc = "look" /\ lockHolder # Nobody /\ launch[i].looks = 0
  /\ Goes(i, "failed")
  /\ UNCHANGED <<lockHolder, record, portOwner>>

\* The recorded port again, if it can be had; any other one if not.
bind_primary_listener(i) ==
  /\ launch[i].pc = "bind"
  /\ LET preferred == record.port \in EmbeddedPorts /\ portOwner[record.port] = Nobody
         ports == IF preferred THEN {record.port}
                  ELSE {p \in EmbeddedPorts : portOwner[p] = Nobody}
     IN \/ \E p \in ports :
             /\ portOwner' = [portOwner EXCEPT ![p] = i]
             /\ launch' = [launch EXCEPT ![i].pc = "record", ![i].read = [port |-> p, token |-> i]]
             /\ UNCHANGED lockHolder
        \/ /\ ports = {} /\ Goes(i, "failed") /\ lockHolder' = Nobody
           /\ UNCHANGED portOwner
  /\ UNCHANGED record

\* Written aside and renamed: readers see the old record or the new one.
write_instance_record(i) ==
  /\ launch[i].pc = "record"
  /\ \/ /\ record' = launch[i].read /\ Goes(i, "starting")
        /\ UNCHANGED <<lockHolder, portOwner>>
     \/ /\ Goes(i, "failed") /\ lockHolder' = Nobody /\ portOwner' = Without(i)
        /\ UNCHANGED record

\* Commands are refused until the application has been set up.
set_commands_ready(i) ==
  /\ launch[i].pc = "starting" /\ Goes(i, "primary")
  /\ UNCHANGED <<lockHolder, record, portOwner>>

-----------------------------------------------------------------------------
(* The notification                                                          *)

\* The embedded server answers a request that carries its own token.
instance_auth(owner, token) == owner = token

\* It accepts the command once the application has been set up.
Mut_Accepts(owner, token) ==
  owner \in Launches /\ launch[owner].pc \in {"starting", "primary"} /\ instance_auth(owner, token)

Accepts(owner, token) ==
  owner \in Launches /\ launch[owner].pc = "primary" /\ instance_auth(owner, token)

\* Anything but a success within half a second sends the launch back to look.
notify_existing_instance(i) ==
  /\ launch[i].pc = "notify"
  /\ LET port == launch[i].read.port
     IN \/ /\ port \in EmbeddedPorts /\ Accepts(portOwner[port], launch[i].read.token) /\ Goes(i, "secondary")
        \/ Goes(i, "look")
  /\ UNCHANGED <<lockHolder, record, portOwner>>

-----------------------------------------------------------------------------
(* The life of the primary                                                   *)

\* shutdown_embedded_server, on the way out or before a restart, which
\* launches its successor while the lock is still held.
shutdown_embedded_server(i) ==
  /\ launch[i].pc = "primary" /\ portOwner' = Without(i)
  /\ \/ Goes(i, "leaving")
     \/ \E j \in Launches :
          /\ launch[j].pc = "absent"
          /\ launch' = [launch EXCEPT ![i].pc = "leaving", ![j].pc = "look"]
  /\ UNCHANGED <<lockHolder, record>>

\* The process ends, or dies at any earlier point: the lock and the port go
\* with it, the record stays.
ProcessEnds(i) ==
  /\ launch[i].pc \in {"bind", "record", "starting", "primary", "leaving"} /\ Goes(i, "gone")
  /\ lockHolder' = Nobody /\ portOwner' = Without(i)
  /\ UNCHANGED record

\* Another program takes a port, or gives it back.
ForeignProgram ==
  /\ \E p \in EmbeddedPorts :
       \/ portOwner[p] = Nobody /\ portOwner' = [portOwner EXCEPT ![p] = ForeignProcess]
       \/ portOwner[p] = ForeignProcess /\ portOwner' = [portOwner EXCEPT ![p] = Nobody]
  /\ UNCHANGED <<lockHolder, record, launch>>

SingleNext ==
  \/ \E i \in Launches :
       \/ Launch(i) \/ try_lock_instance(i) \/ read_instance_record(i) \/ BailsOut(i)
       \/ bind_primary_listener(i) \/ write_instance_record(i) \/ set_commands_ready(i)
       \/ notify_existing_instance(i) \/ shutdown_embedded_server(i) \/ ProcessEnds(i)
  \/ ForeignProgram

SingleSpec == SingleInit /\ [][SingleNext]_singleVars

-----------------------------------------------------------------------------
\* A launch leaves in favour of another only while that one holds the lock and
\* is set up (check_singleton, COMMANDS_READY): never for a record that is
\* stale, a port that went to another, or an application that may yet fail.
LeftToPrimary ==
  [][\A i \in Launches :
       launch'[i].pc = "secondary" /\ launch[i].pc # "secondary" =>
         \E j \in Launches : lockHolder = j /\ launch[j].pc = "primary"]_singleVars
=============================================================================
