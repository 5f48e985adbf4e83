------------------------------ MODULE Subnets ------------------------------
(***************************************************************************)
(* How many instances there are and which addresses each of them has:      *)
(* src/utils/config.ts and the class Netmask of src/utils/netmask.ts, as   *)
(* the workers (src/vpn-worker.ts) use them for the arguments of their     *)
(* OpenVPN servers (src/utils/openvpn.ts).                                 *)
(*                                                                         *)
(* Addresses have Width bits; arithmetic on them wraps around, as it does  *)
(* in long2ip of the library netmask, which is external.                   *)
(***************************************************************************)
EXTENDS Integers, Sequences

CONSTANTS
  Width,       \* 32
  Largest,     \* 16: "as high as openvpn accepts"
  BaseIps,     \* bound: addresses in VPN_BASE_SUBNET
  MaxCount     \* bound: instances and cores

\* 2^k, in a form that can be proved about.
Pow2[k \in Nat] == IF k = 0 THEN 1 ELSE 2 * Pow2[k - 1]

\* 29: "3 usable addresses are required".
Smallest == Width - 3

NotSet == -1

ASSUME SubnetsAssumption ==
  /\ Width \in Nat /\ Largest \in 0 .. Smallest
  /\ BaseIps \subseteq 0 .. Pow2[Width] - 1 /\ MaxCount \in Nat \ {0}

\* The environment, with VPN_INSTANCE_COUNT and the pod info cpu_request.
\* A base subnet /0 is left out: split() does not return.
Envs ==
  [baseIp : BaseIps, baseMask : 1 .. Smallest + 1,
   bitmask : {NotSet} \cup 0 .. Smallest + 1,
   instanceCount : 0 .. MaxCount,
   cpuRequest : {NotSet} \cup 0 .. MaxCount,
   cpus : {MaxCount}]

VARIABLES
  env,
  subnets    \* what the workers forked so far have got

subnetVars == <<env, subnets>>

-----------------------------------------------------------------------------
(***************************************************************************)
(* The class Netmask.                                                      *)
(***************************************************************************)
Size(mask) == Pow2[Width - mask]

Netmask(ip, mask) == [base |-> ip - (ip % Size(mask)), mask |-> mask]

broadcast(net) == net.base + Size(net.mask) - 1
first(net) == net.base + 1
last(net) == broadcast(net) - 1
second(net) == first(net) + 1

third(net) == first(net) + 2

Within(net) == net.base .. broadcast(net)

contains(net, other) == {other.base, broadcast(other)} \subseteq Within(net)

\* Mutant: next() does not get past the subnet.
next_Half(net, count) ==
  [base |-> (net.base + (Size(net.mask) * count) \div 2) % Pow2[Width], mask |-> net.mask]

next(net, count) ==
  Netmask((net.base + Size(net.mask) * count) % Pow2[Width], net.mask)

\* From the first one on, until one is not contained.
split(net, mask) ==
  LET start == Netmask(net.base, mask)
      n == CHOOSE k \in 0 .. Pow2[Width] :
             /\ ~contains(net, next(start, k))
             /\ \A j \in 0 .. k - 1 : contains(net, next(start, j))
  IN [k \in 1 .. n |-> next(start, k - 1)]

-----------------------------------------------------------------------------
(***************************************************************************)
(* The configuration, and the workers.                                     *)
(***************************************************************************)
getInstanceCount ==
  IF env.instanceCount > 0 THEN env.instanceCount
  ELSE IF env.cpuRequest # NotSet THEN env.cpuRequest
  ELSE env.cpus

\* Math.ceil(Math.log2(n)); -Infinity for 0.
CeilLog2(n) ==
  IF n = 0 THEN -Width
  ELSE CHOOSE k \in 0 .. n : Pow2[k] >= n /\ \A j \in 0 .. k - 1 : Pow2[j] < n

\* Mutant: Math.floor.
InstanceBitmask_Floor ==
  LET n == getInstanceCount
      bits == IF env.bitmask # NotSet THEN env.bitmask
              ELSE env.baseMask + (IF n = 0 THEN -Width
                                   ELSE CHOOSE k \in 0 .. n : Pow2[k] <= n /\ Pow2[k + 1] > n)
  IN IF bits > Largest THEN bits ELSE Largest

\* VPN_INSTANCE_SUBNET_BITMASK
InstanceBitmask ==
  LET bits == IF env.bitmask # NotSet THEN env.bitmask
              ELSE env.baseMask + CeilLog2(getInstanceCount)
  IN IF bits > Largest THEN bits ELSE Largest

Fails == [base |-> NotSet, mask |-> NotSet]

\* Both Netmask() and split() throw when the mask is too small, split() also
\* when it is larger than the network; past the last subnet there is undefined,
\* which has no addresses.  The worker fails in all of these cases.
getInstanceSubnet(instanceId) ==
  IF \/ env.baseMask > Smallest
     \/ InstanceBitmask < env.baseMask
     \/ InstanceBitmask > Smallest
    THEN Fails
    ELSE LET all == split(Netmask(env.baseIp, env.baseMask), InstanceBitmask)
         IN IF instanceId \in DOMAIN all THEN all[instanceId] ELSE Fails

SubnetsInit == env \in Envs /\ subnets = <<>>

\* The primary forks the workers in turn.
ForkNext ==
  /\ Len(subnets) < getInstanceCount
  /\ subnets' = Append(subnets, getInstanceSubnet(Len(subnets) + 1))
  /\ UNCHANGED env

SubnetsSpec == SubnetsInit /\ [][ForkNext]_subnetVars

SubnetsTypeOK ==
  subnets \in Seq([base : 0 .. Pow2[Width] - 1, mask : Largest .. Smallest] \cup {Fails})

\* Every worker has what getInstanceSubnet() returns for its number, also after
\* the others were forked: the environment stays as it is.
SubnetsInv ==
  /\ env \in Envs /\ SubnetsTypeOK
  /\ Len(subnets) <= getInstanceCount
  /\ \A i \in DOMAIN subnets : subnets[i] = getInstanceSubnet(i)

-----------------------------------------------------------------------------
Served == {i \in DOMAIN subnets : subnets[i] # Fails}

\* The arguments ifconfig and ifconfig-pool: every server has two addresses and
\* a pool apart from them, none of them the base or broadcast address and none
\* of them an address of another instance, also with the smallest subnet, at the
\* end of the address space and for a base address that is not aligned.
AddressesAreSound ==
  \A i \in Served :
    LET net == subnets[i] IN
    /\ net.base < first(net) /\ first(net) < second(net)
    /\ second(net) < third(net) /\ third(net) <= last(net)
    /\ last(net) < broadcast(net)
    /\ Within(net) \subseteq Within(Netmask(env.baseIp, env.baseMask))
    /\ \A j \in Served \ {i} : Within(net) \cap Within(subnets[j]) = {}

\* "Default to assigning as much of the subnet per openvpn process as possible":
\* without VPN_INSTANCE_SUBNET_BITMASK every instance has a subnet, whichever way
\* their number was found out, as long as the base subnet has 8 addresses for
\* each; and the subnets could not be twice as large, unless they are as large
\* as OpenVPN accepts.
DefaultServesEveryone ==
  env.bitmask = NotSet /\ subnets # <<>> =>
    LET n == getInstanceCount IN
    /\ 8 * Pow2[CeilLog2(n)] <= Size(env.baseMask) => Served = DOMAIN subnets
    /\ \A i \in Served :
         subnets[i].mask = Largest \/ 2 * n * Size(subnets[i].mask) > Size(env.baseMask)

=============================================================================
