------------------------------ MODULE Service ------------------------------
(***************************************************************************)
(* Registration of the service instance with the balena API and its        *)
(* heartbeat, src/utils/service.ts, as init-primary.ts uses it.            *)
(*                                                                         *)
(* The API is external: it creates an instance for every registration it   *)
(* processes, answered or not, and takes an instance for dead when it has  *)
(* had no heartbeat for a while.                                           *)
(***************************************************************************)
EXTENDS Integers

CONSTANTS
  Ids,    \* bound: ids of service instances that may be created
  NoId    \* _id is null: not a member of Ids

ASSUME ServiceAssumption == NoId \notin Ids

VARIABLES
  id,          \* this._id
  registration,  \* stage of register()
  heartbeat,   \* stage of scheduleHeartbeat()
  instances,   \* external: the service instances the API has created
  alive        \* external: those it takes for alive

serviceVars == <<id, registration, heartbeat, instances, alive>>

ServiceTypeOK ==
  /\ id \in Ids \cup {NoId}
  /\ registration \in {"none", "posting", "interval", "done"}
  /\ heartbeat \in {"off", "interval", "patching"}
  /\ instances \subseteq Ids /\ alive \subseteq instances

\* Inductive: heartbeats are for an instance that the API has created.
ServiceInv ==
  /\ ServiceTypeOK
  /\ heartbeat # "off" => id \in instances

ServiceInit ==
  /\ id = NoId /\ registration = "none" /\ heartbeat = "off"
  /\ instances = {} /\ alive = {}

-----------------------------------------------------------------------------
\* External: the POST is processed.
Created(i) ==
  /\ i \in Ids \ instances
  /\ instances' = instances \cup {i}
  /\ alive' = alive \cup {i}

\* wrap() calls register().
wrap ==
  /\ registration = "none" /\ registration' = "posting"
  /\ UNCHANGED <<id, heartbeat, instances, alive>>

\* register() succeeds; wrap() calls func and schedules the heartbeat.
register(i) ==
  /\ registration = "posting"
  /\ Created(i)
  /\ id' = i /\ registration' = "done" /\ heartbeat' = "interval"

\* register() fails: the POST is refused, or its answer lost or without an id.
\* Bound: the last id is left for a registration that succeeds.
RegisterFails ==
  /\ registration = "posting" /\ registration' = "interval"
  /\ \/ UNCHANGED <<instances, alive>>
     \/ \E i \in Ids : Created(i) /\ \E j \in Ids \ {i} : j \notin instances
  /\ UNCHANGED <<id, heartbeat>>

\* The interval is over: register() calls itself.
RegisterAgain ==
  /\ registration = "interval" /\ registration' = "posting"
  /\ UNCHANGED <<id, heartbeat, instances, alive>>

HeartbeatDue ==
  /\ heartbeat = "interval" /\ heartbeat' = "patching"
  /\ UNCHANGED <<id, registration, instances, alive>>

\* sendHeartbeat() succeeds, and the finally block schedules the next one ...
sendHeartbeat ==
  /\ heartbeat = "patching" /\ heartbeat' = "interval"
  /\ alive' = alive \cup {id}
  /\ UNCHANGED <<id, registration, instances>>

\* Mutant: the failure ends the schedule.
HeartbeatFails_Ends ==
  /\ heartbeat = "patching" /\ heartbeat' = "off"
  /\ UNCHANGED <<id, registration, instances, alive>>

\* ... as it does when it fails.
HeartbeatFails ==
  /\ heartbeat = "patching" /\ heartbeat' = "interval"
  /\ UNCHANGED <<id, registration, instances, alive>>

\* External: there was no heartbeat of i for too long.
Forgotten(i) ==
  /\ i \in alive
  /\ alive' = alive \ {i}
  /\ UNCHANGED <<id, registration, heartbeat, instances>>

ServiceNext ==
  \/ \E i \in Ids : register(i) \/ Forgotten(i)
  \/ wrap \/ RegisterFails \/ RegisterAgain
  \/ HeartbeatDue \/ sendHeartbeat \/ HeartbeatFails

\* Timers fire and requests settle; the API does not fail for ever, and
\* forgets the instances that send no heartbeat.
ServiceFairness ==
  /\ WF_serviceVars(RegisterAgain) /\ WF_serviceVars(HeartbeatDue)
  /\ SF_serviceVars(\E i \in Ids : register(i))
  /\ SF_serviceVars(sendHeartbeat)
  /\ \A i \in Ids : WF_serviceVars(i # id /\ Forgotten(i))

ServiceSpec == ServiceInit /\ [][ServiceNext]_serviceVars

-----------------------------------------------------------------------------
\* register() is retried and heartbeats go on after failures: once called, it
\* registers the instance in the end.  The API then takes it for alive again and
\* again, and in the end no other: one that a registration with a lost answer
\* has left behind is not kept alive.
StaysRegistered ==
  /\ registration = "posting" ~> registration = "done"
  /\ registration = "done" ~> []<>(id \in alive)
  /\ registration = "done" ~> [](alive \subseteq {id})

=============================================================================
