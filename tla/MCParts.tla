------------------------------ MODULE MCParts ------------------------------
(***************************************************************************)
(* Small instances, for TLC, of six parts of the system that have no state *)
(* in common: authentication, metrics and registration in the primary, and *)
(* addresses, start-up and bandwidth limits of an instance.  A behaviour   *)
(* of the system projects to a behaviour of each part, so they need not be *)
(* interleaved: `part' is the one that moves.  The fairness of the others  *)
(* asks for nothing, as no fair action is enabled initially.               *)
(***************************************************************************)
EXTENDS DeviceAuth, ClusterMetrics, Service, Subnets, OpenvpnStart, LearnAddress

\* A single instance has bandwidth limits: all addresses are on its device.
OneDev == {"tun1"}
OneDevOf == [ip \in Ips |-> "tun1"]

VARIABLE part

primaryVars == <<authVars, metricsVars, serviceVars>>
instanceVars == <<subnetVars, startVars, learnVars>>
allVars == <<part, primaryVars, instanceVars>>

Init ==
  /\ part \in {"auth", "metrics", "service", "subnets", "start", "learn"}
  /\ AuthInit /\ MetricsInit /\ ServiceInit
  /\ SubnetsInit /\ StartInit /\ LearnInit
  /\ part # "auth" => valid
  /\ part # "subnets" => env = CHOOSE e \in Envs : TRUE

Next ==
  \/ /\ part = "auth" /\ AuthNext
     /\ UNCHANGED <<part, metricsVars, serviceVars, instanceVars>>
  \/ /\ part = "metrics" /\ MetricsNext
     /\ UNCHANGED <<part, authVars, serviceVars, instanceVars>>
  \/ /\ part = "service" /\ ServiceNext
     /\ UNCHANGED <<part, authVars, metricsVars, instanceVars>>
  \/ /\ part = "subnets" /\ ForkNext
     /\ UNCHANGED <<part, primaryVars, startVars, learnVars>>
  \/ /\ part = "start" /\ StartNext
     /\ UNCHANGED <<part, primaryVars, subnetVars, learnVars>>
  \/ /\ part = "learn" /\ LearnNext
     /\ UNCHANGED <<part, primaryVars, subnetVars, startVars>>

FairSpec ==
  /\ Init /\ [][Next]_allVars
  /\ AuthFairness /\ ServiceFairness /\ StartFairness

\* What each part keeps true, types included: the inductive invariants of those
\* that are proved about.  In particular bwlimit-enable uses class ids again, so
\* that there are never more of them than addresses.
PartsInv ==
  /\ AuthInv /\ MetricsInv /\ ServiceInv
  /\ SubnetsInv /\ StartTypeOK /\ LearnInv

=============================================================================
