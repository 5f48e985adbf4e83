---------------------------- MODULE LearnAddress ----------------------------
(***************************************************************************)
(* The traffic classes that limit the bandwidth of clients, as they are    *)
(* assigned by openvpn/scripts/learn-address.sh.  The plugin of an OpenVPN *)
(* server (external) runs the script when the server learns or forgets an  *)
(* address, once at a time; the servers of all instances share the state   *)
(* directory.                                                              *)
(*                                                                         *)
(* tc is external, too: a class is added to a device unless the device has *)
(* it or there is no such minor number.  The filters that send the traffic *)
(* of an address to its class carry no state that the script reads.        *)
(***************************************************************************)
EXTENDS Integers, FiniteSets

CONSTANTS
  Ips,         \* addresses of clients
  Devs,        \* tun devices, one per OpenVPN server
  DevOf,       \* the device of an address: instances have disjoint subnets
  MaxClassid   \* the last class id that tc accepts

ASSUME LearnAssumption ==
  /\ IsFiniteSet(Ips) /\ DevOf \in [Ips -> Devs]
  /\ MaxClassid \in Nat

VARIABLES
  lastClassid,  \* $statedir/last_classid; 0: no such file
  classidFile,  \* $statedir/$ip.classid; 0: no such file
  devFile,      \* the addresses that have a file $statedir/$ip.dev
  script,       \* the script that runs for a device
  classes,      \* external: class ids on a device
  learned       \* external: addresses of connected clients that the script is
                \* done with

learnVars == <<lastClassid, classidFile, devFile, script, classes, learned>>

Idle == [at |-> "none"]

\* "should reuse classids for reconnecting clients": there are never more of
\* them than there are addresses.
Classids == 0 .. Cardinality(Ips)

LearnTypeOK ==
  /\ lastClassid \in Classids /\ classidFile \in [Ips -> Classids]
  /\ devFile \subseteq Ips /\ learned \subseteq Ips
  /\ script \in [Devs -> {Idle} \cup [at : {"last", "tc"}, ip : Ips, classid : Classids]]
  /\ classes \in [Devs -> SUBSET Classids]

LearnInit ==
  /\ lastClassid = 0 /\ classidFile = [ip \in Ips |-> 0] /\ devFile = {}
  /\ script = [d \in Devs |-> Idle]
  /\ classes = [d \in Devs |-> {}] /\ learned = {}

-----------------------------------------------------------------------------
\* bwlimit-disable: nothing, unless both files are there.  The class id stays
\* with the address.
bwlimitDisable(ip) ==
  /\ devFile' = devFile \ {ip}
  /\ classes' = [classes EXCEPT
       ![DevOf[ip]] = IF ip \in devFile THEN @ \ {classidFile[ip]} ELSE @]
  /\ learned' = learned \ {ip}

\* Mutant: a class id is never used again.
ClassidFor_New(ip) == lastClassid + 1

\* The class id for ip: its own, if it has had one before, else a new one.
ClassidFor(ip) == IF classidFile[ip] # 0 THEN classidFile[ip] ELSE lastClassid + 1

\* bwlimit-enable, up to the class id.
Enable(ip) ==
  /\ script[DevOf[ip]] = Idle
  /\ bwlimitDisable(ip)
  /\ script' = [script EXCEPT ![DevOf[ip]] =
       [at |-> IF classidFile[ip] # 0 THEN "tc" ELSE "last", ip |-> ip,
        classid |-> ClassidFor(ip)]]
  /\ UNCHANGED <<lastClassid, classidFile>>

\* Mutant: the file is written only once.
WriteLast_First(d) ==
  /\ script[d].at = "last"
  /\ lastClassid' = (IF lastClassid = 0 THEN script[d].classid ELSE lastClassid)
  /\ script' = [script EXCEPT ![d].at = "tc"]
  /\ UNCHANGED <<classidFile, devFile, classes, learned>>

\* A new class id becomes the last one.
WriteLast(d) ==
  /\ script[d].at = "last"
  /\ lastClassid' = script[d].classid
  /\ script' = [script EXCEPT ![d].at = "tc"]
  /\ UNCHANGED <<classidFile, devFile, classes, learned>>

\* Mutant: the class of an address that had one is taken to be there.
Limit_OnlyNew(d) ==
  /\ script[d].at = "tc"
  /\ classes' = [classes EXCEPT
       ![d] = IF classidFile[script[d].ip] = 0 THEN @ \cup {script[d].classid} ELSE @]
  /\ classidFile' = [classidFile EXCEPT ![script[d].ip] = script[d].classid]
  /\ devFile' = devFile \cup {script[d].ip}
  /\ learned' = learned \cup {script[d].ip}
  /\ script' = [script EXCEPT ![d] = Idle]
  /\ UNCHANGED lastClassid

\* The tc commands; the files are stored whether these succeed or not.
Limit(d) ==
  /\ script[d].at = "tc"
  /\ LET ip == script[d].ip
         id == script[d].classid
     IN /\ classes' = [classes EXCEPT ![d] = @ \cup ({id} \cap 1 .. MaxClassid)]
        /\ classidFile' = [classidFile EXCEPT ![ip] = id]
        /\ devFile' = devFile \cup {ip}
        /\ learned' = learned \cup {ip}
  /\ script' = [script EXCEPT ![d] = Idle]
  /\ UNCHANGED lastClassid

Disable(ip) ==
  /\ script[DevOf[ip]] = Idle /\ ip \in learned
  /\ bwlimitDisable(ip)
  /\ UNCHANGED <<lastClassid, classidFile, script>>

\* External: the server of d is replaced, and with it the device.  A script is
\* over by the time that there is a new server.
ServerReplaced(d) ==
  /\ script[d] = Idle
  /\ classes' = [classes EXCEPT ![d] = {}]
  /\ learned' = {ip \in learned : DevOf[ip] # d}
  /\ UNCHANGED <<lastClassid, classidFile, devFile, script>>

LearnNext ==
  \/ \E ip \in Ips : Enable(ip) \/ Disable(ip)
  \/ \E d \in Devs : WriteLast(d) \/ Limit(d) \/ ServerReplaced(d)

LearnSpec == LearnInit /\ [][LearnNext]_learnVars

-----------------------------------------------------------------------------
\* The comment in bwlimit-enable, "Find unique classid": no two clients of a
\* device share a class, and with it the bandwidth of one.
UniqueClassid ==
  \A a, b \in learned :
    a # b /\ DevOf[a] = DevOf[b] => classidFile[a] # classidFile[b]

\* The device of every connected client has a class for it, however clients
\* came, went and came back and servers were replaced, but for those who came
\* when tc took no more class ids.  The filters that lead traffic to the class
\* are not modelled.
EveryoneHasClass ==
  \A ip \in learned :
    classidFile[ip] \in classes[DevOf[ip]] \/ classidFile[ip] > MaxClassid

-----------------------------------------------------------------------------
\* The instance has the only server with bandwidth limits.
OneServer == \A a, b \in Ips : DevOf[a] = DevOf[b]

Running == {d \in Devs : script[d] # Idle}

\* A script runs for an address of its own server.
ScriptsAreLocal == \A d \in Running : DevOf[script[d].ip] = d

\* A client that is connected has its files, and an address with a dev file also
\* has a class id.
FilesAreKept == learned \subseteq devFile /\ \A ip \in devFile : classidFile[ip] # 0

\* The addresses that have a class id, or are about to get the last one ...
Numbered ==
  {ip \in Ips : \/ classidFile[ip] # 0
                \/ \E d \in Running : script[d].at = "tc" /\ script[d].ip = ip}

\* ... are as many as last_classid says.
IdsAreCounted == lastClassid = Cardinality(Numbered)

\* A script that works with a new class id has the next one, or has made it the
\* last one; no other address has it, nor the one that it uses again.
IdIsFree ==
  \A d \in Running :
    LET s == script[d]
    IN  /\ s.classid # 0
        /\ IF classidFile[s.ip] # 0
             THEN s.at = "tc" /\ s.classid = classidFile[s.ip]
             ELSE s.classid = IF s.at = "last" THEN lastClassid + 1 ELSE lastClassid
        /\ \A ip \in Ips \ {s.ip} : classidFile[ip] # s.classid

\* Class ids are given out in order, each to one address.
IdsAreDistinct ==
  /\ \A ip \in Ips : classidFile[ip] <= lastClassid
  /\ \A a, b \in Ips : a # b /\ classidFile[a] # 0 => classidFile[a] # classidFile[b]

\* Inductive, with one server: what the scripts keep true.
LearnInv ==
  /\ LearnTypeOK /\ ScriptsAreLocal /\ FilesAreKept
  /\ IdsAreCounted /\ IdIsFree /\ IdsAreDistinct
  /\ EveryoneHasClass

=============================================================================
