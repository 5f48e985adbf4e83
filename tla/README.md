# open-balena-vpn in TLA+

TLA+ models of the open-balena-vpn server, checked with TLC on small instances
and proved with TLAPS for every value of the constants: all invariants, action
properties and refinements that the runs check. Liveness is model-checked only.
Paths below are relative to the repository.

## 1. The system

One container is a *service instance*. Its primary process registers with the
balena API, serves a local HTTP API for scripts and forks one worker per VPN
instance. A worker runs an OpenVPN server behind HAProxy and a connect proxy for
tunnels to devices.

| component | state | operations | properties that make it correct |
|---|---|---|---|
| device state tracker, `src/utils/clients.ts` | per device target and acknowledged state; pending uuids; a report under way | `setConnected`, `updateLoop`, `reportUpdates` | no update is lost, parallel POSTs are disjoint, the API ends up with the target |
| client endpoints, `src/api.ts`, `openvpn/scripts/client-connect-disconnect.sh` | reference count per device, gauge of online devices | POST and DELETE `/clients` | count, target and gauge agree for any order of events; API online iff a session is live |
| device authentication, `src/api.ts`, `auth/` | memoized answers | `checkDeviceAuth` | answers expire, failures are not remembered, every login is decided |
| cluster primary, `src/init-primary.ts` | drain reports, worker processes | SIGTERM, drain message, restart | exits when, and only when, the instances are drained |
| VPN worker, `src/vpn-worker.ts` | client cache, `drainConnections` | start, drain, signals, fatal errors | messages drain it once, out of HAProxy before clients are disconnected |
| HAProxy control, `src/utils/haproxy.ts` | server states (in HAProxy) | register, drain | see worker |
| OpenVPN process, `src/utils/openvpn.ts` | pid file, child process | killOrphan, start, waitForStart, connect, releaseHold | the worker ends up with its own server |
| management stream, `src/utils/openvpn.ts` | buffer, listener, environment | data, lines, events | no event lost or mixed up, whatever the chunks |
| traffic accounting, `src/vpn-worker.ts` | last counts per client | bytecount events | every byte counted once |
| connect proxy, `src/proxy-worker.ts`, `src/utils/device.ts` | requests, access cache, gauge of tunnels | access check, local connect, retry, forward | one answer per request, no endless forwarding, a connected device is found |
| service registration, `src/utils/service.ts` | service id | register, heartbeat | registered in the end, heartbeats go on, nobody else is kept alive |
| metrics, `src/init-primary.ts` | bitrates per device | collect, `/cluster_metrics` | no sample lost, one question to the workers at a time |
| subnets, `src/utils/netmask.ts`, `config.ts` | none | split, addresses | subnets disjoint, usable and inside the base network, one for every instance |
| bandwidth limits, `openvpn/scripts/learn-address.sh` | class id files | add, delete | class ids unique, a traffic class for every client |

Interactions: OpenVPN's scripts call the endpoints with `curl` in the background
(any order, possibly lost); the endpoints call `setConnected`; the tracker POSTs
to the API. The primary and the workers talk over Node.js IPC; the workers talk
to HAProxy over its socket and to OpenVPN over the management port. Connect
proxies of several service instances forward requests to one another, led by
what the API shows, which is what the trackers reported.

Hard to test: everything that depends on order (events overtaking one another,
targets changing during a POST, a device moving during a request), on failure in
the middle (a POST processed but not answered, a worker replaced after its drain
report, an OpenVPN server outliving its worker, a scrape that gives up), on time
(answers kept too long), on cuts (chunks, batches) and on the edges of address
arithmetic.
The list of hazards, with line numbers, is in `PROJECT.json`; those that the code
does run into have a note that says so, and which property makes an exception for
them.

## 2. Modules

| module | models | state and actions |
|---|---|---|
| `Reporter` | abstract: what the tracker promises | `target`, `board` (what the API shows), `dirty` entries; only dirty entries may lag behind |
| `Clients` | `clients.ts` | the four fields of a `DeviceStateTracker` as four functions, `pendingUpdates`, `currentlyReporting`, the POSTs in flight. `setConnected` includes the synchronous first part of `updateLoop`, up to its first `await`; `LoopAgain` is its `finally` block; `ReportSucceeded` and `ReportFailed` are the two ends of a POST |
| `VpnApi` (extends `Clients`) | the `/clients` endpoints, the scripts, sessions | `postClients` and `deleteClients` are the handlers, each one step with the `setConnected` it calls; sessions, scripts and losses are the environment |
| `Cluster` | shutdown of primary and workers | `drainConnections` is split at its awaits: `HaproxyDrained`, `KillNext`, `LoopDone`, `WaitOver`; `KillClient` is the background part. A worker may have several *runs* of it. Commands to HAProxy are queued and carried out later (`HaproxyObeys`) |
| `OpenvpnStart` | `killOrphan`, `start`, `waitForStart`, `connect`, `releaseHold` over restarts | one action per branch of the loop and per await; OpenVPN processes are external |
| `Management` | the management parser and `writeBandwidthMetrics` | `DataArrives` takes a chunk of any length off the stream; `Received` is the recursive function that runs its words, one by one, through buffer, listener, emitted events, client cache and counters, as the synchronous listeners do |
| `Tunnel` | `proxy-worker.ts`, `device.ts` at several service instances | a request is a sequence of hops; one action per await of `tunnelToDevice` and `connect` |
| `MovedWorker` (extends `Clients`) | the tracker with a history of connect events | the worker a device was on when an event was last sent |
| `DeviceAuth` | `/api/v1/auth/`, `checkDeviceAuth`, the auth plugin | logins that use, share or make a lookup; `memo` is the entry of the memoized function, with its age |
| `ClusterMetrics` | bitrate messages and `/cluster_metrics` | `Scrape` is the handler up to its await, `Fetched`, `FetchFailed` and `TimedOut` its ends; `inProgress` is the shared promise |
| `Service` | `service.ts` | `register`, its failures and retries, the heartbeat chain; the API's instances are external |
| `Subnets` | `netmask.ts`, the subnet part of `config.ts`, `getInstanceSubnet` | pure operators over every environment; `ForkNext` gives the workers their subnets in turn. Powers of two are a recursive function (`Pow2`), which can be proved about |
| `LearnAddress` | `learn-address.sh` | class id files and tc classes; a script is cut between reading and writing `last_classid` and before `tc` |
| `MCParts` | the six modules `DeviceAuth`, `ClusterMetrics`, `Service`, `Subnets`, `OpenvpnStart`, `LearnAddress` in one run | they share no variable, so one of them (`part`) moves and the others rest |
| other `MC*` | the instances for TLC | constants and symmetry sets only |
| `Clients_proofs`, `VpnApi_proofs`, `Tunnel_proofs`, `Cluster_proofs`, `Management_proofs`, `Subnets_proofs` | theorems about the module of that name | |
| `Parts_proofs` (extends `MCParts`) | theorems about `DeviceAuth`, `ClusterMetrics`, `LearnAddress`, `Service` and `OpenvpnStart`, and about all parts together | |
| `InductionBySets` | induction over the naturals, stated with sets | |

An operator whose name ends in `_Something` is a *mutant*: the definition before
which it stands with a plausible bug. `PROJECT.json` pairs every checked property
with a mutant that TLC must find to violate it.

Abstractions. Devices, workers, sessions and pids are model values. A POST is a
set of uuids with its kind. Log output, tracing, HTTP bodies and status texts are
left out. The duration histogram and the total counters of `api.ts` only go up
and are left out. In `Tunnel` there is one device, one port and one set of
credentials, so that the access cache has one entry per instance; whether an url
is accepted is a choice. In `Management` a line is a sequence of words, and
received and sent bytes, which are treated alike, are one count.

## 3. Runs

| run | shows | bounds |
|---|---|---|
| `clients_faults` | `NoUpdateLost`, `OnePostPerDevice` and the inductive invariant `LoopInv`, types included, with all kinds of failing POSTs | 2 devices, 2 workers, batches of 1, one late POST of each content |
| `api` | tracker and endpoints together: `TargetFollowsCount`, `GaugeCountsOnline`, `ShownIffLive`, `SettledMeansShown`, the refinements `ImplementsClients` and `ImplementsReporter`, `EventuallyAccurate`, `ApiTypeOK` with lost events, killed servers and refused POSTs | 2 devices, 3 sessions on 2 workers: a device that comes back on another worker, and a second device; batches of 1 |
| `cluster` | `OneRunForMessages`, `KilledOnlyWhenDrained`, `ExitOnlyWhenDrained` and the inductive invariant `ClusterInv`, types included, with crashes, signals, slow drains, early SIGTERM, failing kills and a HAProxy that is behind | 2 workers, 1 connection, 2 SIGTERMs, 1 signal and 2 runs per process, 2 commands waiting |
| `cluster_live` | `ShutdownCompletes` with all of that | 2 workers, 1 connection, 1 SIGTERM, 1 run, 1 command waiting |
| `tunnel` | `AnsweredOnce`, `TunnelReachesDevice`, `TunnelCountedOnce`, `ForwardsFollowTheDevice`, `ConnectedDeviceIsFound`, `EveryRequestAnswered`, `TunnelInv` with failing lookups, devices and peers | 2 instances, 1 request, 3 moves of the device |
| `management` | `NoEventLost`, `BytesCountedOnce`, `LatestBytesCounted`, `BitratesAreTrue` and the inductive invariant `ManagementInv`, types included | 2 clients, 3 messages, chunks cut at every word |
| `parts` | `DeviceAuth`: `NoOneInWithOldKey`, `OutageIsForgotten`, `EveryLoginDecided`; `ClusterMetrics`: `NoSampleLost`, `OneFetchAtATime`; `Service`: `StaysRegistered`; `Subnets`: `AddressesAreSound`, `DefaultServesEveryone`; `OpenvpnStart`: `EndsUpWithOwnServer`; `LearnAddress`: `UniqueClassid`, `EveryoneHasClass`; all inductive invariants and types as `PartsInv` | 2 logins, ages of 2, time 4, the API changes its mind twice; 2 samples, 3 scrapes; 3 instance ids; 6-bit addresses, 4 base addresses, all masks, up to 5 instances; 3 processes; 3 addresses on 1 device, 2 class ids |
| `cluster_second_run` | **violation** of `OneDrainRun` by a signal | |
| `orphan_survives` | **violation** of `OrphanIsDead` | 3 processes |
| `tunnel_loop` | **violation** of `NoForwardLoop`: an instance forwards a request it has forwarded before | 2 instances, 3 moves |
| `classid_shared` | **violation** of `UniqueClassid` by scripts of two servers | 4 addresses, 2 devices |
| `moved_worker` | **violation** of `SentSinceWorkerConnected` | 1 device, 2 workers |

Why the bounds are enough. In `Clients` devices only meet in a batch and in the
one report loop: two of them in batches of one give two POSTs in parallel, and
can be pending and in flight at the same time. In `VpnApi` two sessions of a
device reach the counts -1, 0, 1 and 2 in every order, next to a second device
in the same report loop. In `Cluster` two workers are enough for one to wait for
the other; two SIGTERMs and a signal give every pair of requests to drain. In `Tunnel` the
requests share only the access cache, whose contents are a free choice for one
request, and the gauge; three moves bring a device back to where it was. The
number of hops is not bounded by the model but by `ForwardsFollowTheDevice`. In
`Management` three messages are an event, a second one that ends it or follows
it, and a third; two reports after an ESTABLISHED give a delta. The number of
bytes counted is compared with the size of `Reported`, the set of bytes that the
latest reports are about.
In `DeviceAuth` time 4 is one unit more than a lookup and the age of its answer,
so answers do expire, and a login can share, reuse or miss an earlier one. Three
scrapes are one that times out, one that takes over its promise and one that
comes after it was kept. In `Subnets` 6 bits leave room for masks from the
clamp (/2 for /16) to the smallest subnet (8 addresses), base networks that are
not aligned and the end of the address space. In `OpenvpnStart` three processes
are an orphan, its survivor and a child. With three addresses and two class ids
`LearnAddress` runs out of class ids.

`MCParts`. A behaviour of the system, restricted to the variables of one part, is
a behaviour of that part, so the parts are not interleaved: TLC checks each of
them, not their product. No fair action of a part is enabled in its initial
states, so the fairness of the parts that rest asks for nothing.

`CHECK_DEADLOCK FALSE` is set where the system may stop: the primary has exited,
or sessions, messages, requests, pids or time are used up. The tracker by itself
never stops: `clients_faults` checks for deadlock.

### Fairness

Timers of Node.js fire, requests settle (they have a timeout or their connection
ends), IPC messages and curl requests that are not lost arrive, OpenVPN writes
its status file: weak fairness. `Clients` needs strong fairness in one place: the
API does not refuse the POSTs that name a given device for ever, though it may
refuse any number of them. `Service` needs it in two: registration and heartbeat
do not fail for ever. The API forgets instances that send no heartbeat. A server
that was spawned gets as far as its ports or exits. No fairness is assumed for calls, connections,
signals, crashes, failures or clients.

### Findings

* `cluster_second_run`: the listeners for signals hold the original
  `drainConnections` (`src/vpn-worker.ts:182`), so reassigning the variable
  does not keep a signal from running it again; the comment says "Only run once".
  Messages begin one run between them, whatever signals come (`OneRunForMessages`).
* `orphan_survives`: `process.kill` returns `true` for a process that exists,
  and `killOrphan` takes that for the error it waits for
  (`src/utils/openvpn.ts:322`): it returns at once when there is an orphan.
* `tunnel_loop`: `forwardRequest` does not send the `Forwarded` header that loop
  detection relies on. A request may come back to an instance: if the device is
  there by then it is served. But an instance that has signed a request and would
  forward it again must refuse it, and it does not, as it never sees its signature:
  i1, i2, i1, i2. With the header passed on (`NewHop(vpnHost, signed.forwarded)` in
  `AskForHost`) `NoForwardLoop` holds under the same cfg. That forwarding ends all
  the same is due to the API, which names one instance at a time
  (`ForwardsFollowTheDevice`).
* `classid_shared`: nothing keeps the scripts of two OpenVPN servers from reading
  `last_classid` at the same time (`openvpn/scripts/learn-address.sh:106`). Two
  clients on different devices with one class id do no harm, as classes are per
  device; but the script that writes later sets the file back, and the next new
  client of the other device gets the class id of an older one there. With one
  server, whose scripts run one at a time, ids are unique (`parts`).
* `moved_worker`: `reportUpdates` records the worker that is the target when the
  answer comes (`src/utils/clients.ts:99`). If the device moved in between,
  `updateLoop` sees no difference and sends no connect event for the new worker,
  which the comment says is the key.

Assumptions that the other runs cannot do without, each of them a constant that
can be changed in the cfg to see the counterexample:

* `SettledMeansShown` needs an API that processes no POST it does not
  acknowledge. With `"answerLost"` a device can stay in the wrong state: its
  target returns to the acknowledged state and the pending update is dropped.
* `ExitOnlyWhenDrained` speaks of instances whose process has reported: with
  `"slow"` or `"crash"` one that has reported and been replaced still counts as
  drained, and its replacement is open. It needs that signals come after the
  start-up: with `"earlySignal"` the registration undoes the drain.
* `ShutdownCompletes` excepts workers that have `Missed` the message: one that
  was starting, or that was replaced before it reported, never reports. A
  rejection in `drainConnections`, when HAProxy's socket refuses the connection,
  is taken to become an `uncaughtException` and so another run; where Sentry is
  configured it is only logged, and the worker would not report.
* HAProxy carries out the commands of a worker in the order they were written.
* `EndsUpWithOwnServer` has an exception: a worker that connects to the
  management port while a predecessor's server still listens there releases that
  server's hold and not that of its own child.
* `killOrphan` times out on the stale pid file of a server that has crashed, by
  the same inverted condition as `orphan_survives`. No property promises that a
  start-up succeeds.
* `NoSampleLost` excepts samples that come while a scrape is under way: they are
  cleared unseen when it ends. A scrape that fails leaves its observations in
  the histograms, and scrapes that overlap observe twice; the model does not
  count how often.
* `LearnAddress`: a server runs its scripts one at a time, and they are over when
  the server is replaced. Class ids beyond what tc accepts leave a client without
  a class (`EveryoneHasClass` excepts them). The filters that lead traffic to a
  class are not modelled.
* `Subnets` leaves out a base network /0, for which `split` does not return.
* `ShownIffLive` speaks of devices all of whose events were delivered. After an
  OpenVPN server was killed (`"killed"`) the counts of its devices stay too high,
  and nothing in the primary corrects them.

## 4. Proofs

The theorems hold for any sets of devices, workers, sessions, instances and
requests (finite where they are counted) and for any values of the bounds:

| theorem | states |
|---|---|
| `LoopInvariant` | `Spec => []LoopInv`, type correctness included, for all failures |
| `UpdatesAreNotLost`, `PostsAreDisjoint` | `NoUpdateLost`, `OnePostPerDevice` |
| `SettledIsShown` | `SettledMeansShown` if `Faults \subseteq {"rejected"}` |
| `TrackerImplementsReporter` | `ImplementsReporter`, under the same condition |
| `ApiTypes`, `CountsAgree`, `GaugeIsExact` | `ApiTypeOK`, `TargetFollowsCount`, `GaugeCountsOnline` |
| `ApiImplementsClients` | `ImplementsClients` |
| `ShownOnlineIffLive` | `ShownIffLive` if `Faults \subseteq {"rejected"}` |
| `TunnelInvariant` | `Spec => []TunnelInv` of `Tunnel`, type correctness included, for all failures |
| `ClientsAreAnsweredOnce`, `TunnelsReachTheDevice`, `TunnelsAreCounted`, `ForwardsAreBounded`, `DevicesAreFound` | the five safety properties of `Tunnel` |
| `ClusterInvariant` | `Spec => []ClusterInv` of `Cluster`, type correctness included, for all adversities |
| `MessagesBeginOneRun` | `OneRunForMessages` |
| `NobodyKilledBeforeDrain`, `PrimaryExitsDrained` | `KilledOnlyWhenDrained`, `ExitOnlyWhenDrained` if `"earlySignal" \notin Adversity` |
| `AuthInvariant`, `OldKeysAreRefused`, `OutagesAreForgotten` | `AuthInv`, `NoOneInWithOldKey`, `OutageIsForgotten` |
| `MetricsInvariant`, `SamplesAreNotLost`, `FetchesDoNotOverlap` | `MetricsInv`, `NoSampleLost`, `OneFetchAtATime` |
| `LearnInvariant`, `ClassidsAreUnique`, `ClientsHaveClasses` | `LearnInv`, `UniqueClassid`, `EveryoneHasClass` if `OneServer` |
| `SubnetsInvariant`, `AddressesSound`, `DefaultIsEnough` | `SubnetsInv`, `AddressesAreSound`, `DefaultServesEveryone` |
| `PartsInvariant` | `PartsInv`: the invariants of the six parts of `MCParts` together, with those of `Service` (`ServiceInv`) and `OpenvpnStart`, if `OneServer` |
| `ManagementInvariant` | `Spec => []ManagementInv` of `Management`, for any clients, messages and cuts |
| `EventsAreNotLost`, `BytesAreCountedOnce`, `LatestAreCounted`, `BitratesTrue` | `NoEventLost`, `BytesCountedOnce`, `LatestBytesCounted`, `BitratesAreTrue` |

The argument. `NoUpdateLost` is not inductive: when a POST succeeds, its device
may be lost if the target has changed since the POST was made.
`StaleReportsArePending` says that such a device has been made pending again,
`OnePostPerDevice` that no other POST is about it, and `NothingWaitsForNoLoop`
that a new pass finds no POST of an old one: together, with types, they are
`LoopInv`. A pass of `updateLoop` is one lemma (`LoopPass`), used for both of its
callers; what `chunk` guarantees is another (`ChunkingsPartition`).
`SettledMeansShown` also needs to know what the API shows: `ShownIsCurrent` says
that this is the acknowledged state but for POSTs that are processed and not yet
answered. The refinement maps `dirty` to the pending devices and those in
flight. For the endpoints, `CountInv` adds the counts, and `CountIsBalance`
relates a count to the sessions whose start and end have been told; cardinality
facts come from `FiniteSetTheorems`. The end-to-end theorem then combines the
count of a device, its target and what the API shows.

The connect proxy's `TunnelInv` adds four facts to its properties. Forwarding:
`LastHopIsHost`, a request with one hop more than the API has changed is at the
instance the API names, so it goes no further until the API changes again. The
200s: `StatusTellsTunnel`, a hop still worked on has not been told 200. The
second attempt: `FaultlessIsHome`, while nothing has disturbed a request, device
and API are at its instance, and after the delay so is the status file. Types:
`ApiTrails`. Most actions replace one hop that is not over; one lemma (`HopStep`)
shows what is needed of the new hop, and the lemmas of the handlers show that.

`Cluster`. That messages begin one run (`OneRunForMessages`) rests on
`BegunMeansNoop`: a run that has begun has replaced the function the handler of
messages calls. Signals get around it, and each of them accounts for one more run.
The other two properties compare what HAProxy has been told last with how far the
runs are. `RunsComeAfterRegister`: no run begins before the worker has registered
(here signals during the start-up must be excluded); so nothing is queued after
the "drain" of a run but another "drain" (`DrainIsLast`). `ExitedWithAllReports`
is the rest of `ExitOnlyWhenDrained`. The hypothesis leaves all other adversities;
with `"earlySignal"` both properties fail.

`DeviceAuth`. `LookupIsFresh` and `MemoIsFresh` say at which times the API gave
the answer that a lookup under way or the memoized promise holds: the age of an
entry counts from the end of its lookup, whence the sum of both durations in
`Recently`. `HistoryIsPast` keeps the recorded times in order.

`ClusterMetrics`. `PromiseIsFetch` makes "at most one fetch" inductive: the
number of fetches is 1 exactly while the shared promise is set, also when the
scrape that made it has timed out. `ClearedIsInText` relates what a response will
clear to what its text holds.

`LearnAddress`. `last_classid` is the number of addresses that have an id or are
about to get one (`IdsAreCounted`), no id in a file is above it (`IdsAreDistinct`),
and the id that a running script works with is nobody else's (`IdIsFree`).
`OneServer` is used for one thing, that two scripts do not run at the same time,
and `classid_shared` shows that it cannot be left out.

`Subnets`. That `Pow2` is the function its recursive definition says, and its laws
(doubling, growth, sums of exponents), are proved by induction with sets: a set of
naturals that is closed under successor and has 0 is `Nat` (`SetInduction`), by
the least element of its complement. `Fits` is the arithmetic of `next`: the
subnets of a network lie one after the other, wrap around nowhere, and the one
after the last is outside, also at the end of the address space, where it wraps to
0. So the loop of `split` ends after `Pow2[mask - baseMask]` subnets (`SplitIs`),
and `getInstanceSubnet` is a formula of the instance number (`InstanceSubnetIs`).
`CeilLog2Is` says what the rounded logarithm is; `DefaultIsEnough` compares
powers of two. It covers Width = 32, which TLC cannot enumerate.

`Management`. `NoEventLost` and `LatestBytesCounted` say little while part of the
stream has not been read, and no property is inductive by itself. `RestIsRead`
bridges the gap: it says where the worker *will* be when it has read the words that are still in the stream, namely
at the end of a line with every event that was sent emitted, but for an ADDRESS
whose end is not known yet. Four facts make it inductive:

* Cuts do not matter (`ReceivedConcat`): to read two chunks in turn is to read
  them at once. So `DataArrives` changes nothing about where the worker will be,
  and a message that is sent can be reasoned about as if it came after everything
  else was read.
* Time does not matter to the parser (`ReceivedSame`): only the accounts depend on
  `clock`, so the events that the rest will be read as are the same after `Tick`.
* Every message of OpenVPN is read as its own event from any state in which all
  is read (`LogRead`, `BytecountRead`, `NoticeRead`), also when an ADDRESS is held
  and the line is seen by two listeners (`FirstLine`); a REAUTH, which no listener
  takes, and its environment are passed over (`ReauthRead`).
* What has been emitted only grows (`ReceivedShape`), so at any time it is a prefix
  of what will have been, that is, of what was sent. Therefore the handlers get
  events in an order that OpenVPN sends them in (`SentIsSound`: a client is
  established once and its counts do not decrease), which is what keeps the
  accounts (`EmitGood`, `ReceivedGood`).

The accounts are `CacheFollowsEvents`, which ties an entry of the cache to the
events it comes from, `SamplesFollowCache`, and `BytesCountedOnce`: a report adds
to the counter as many bytes as it adds to the set `Reported` (`ReportedGrows`).
`LatestBytesCounted` follows from these and `LastIsLatest`, the last report that
was sent being about all bytes. The proofs about `Received` are inductions over
the number of words (`RunExists`, `StepsAgree`, `ReceivedIs`, then `RunShape` and
what follows it), with `SetInduction`. The invariant that is proved (`Inductive`)
has one more conjunct than the one TLC checks, `StreamOK`, the types of the stream
and of the worker, for which TLC would have to enumerate sequences.

`PartsInvariant` composes: a step of `MCParts` is a step of one part and leaves
the variables of the others alone (`PartsStep`). The new one among its parts is
`ServiceInv`: heartbeats are for an instance that the API created.

Assumptions on the constants are the named `ASSUME`s of the modules, which TLC
evaluates in the runs.

Only model-checked:

* liveness (`EventuallyAccurate`, `ShutdownCompletes`, `EveryRequestAnswered`,
  `EveryLoginDecided`, `StaysRegistered`, `EndsUpWithOwnServer`), which is out of
  the prover's reach.

The runs that expect a violation are counterexamples and need no proof. The
invariants of `OpenvpnStart` are its types; what it promises is liveness.

## 5. Not modelled

* Logging, error reporting, tracing and the HTTP client have no state of
  interest. SIGUSR2 toggles the verbosity of logs and nothing else.
* The command line of OpenVPN (`args` in `openvpn.ts`) is configuration; the
  addresses it passes on are those of `Subnets`. `stop` and `enableLogging` are
  not called.
* The C plugin of OpenVPN appears through the scripts it runs. tc filters and
  queueing disciplines are the kernel's; the script reads nothing of them.
* The duration histogram and the total counters are only written.
* Container configuration (confd templates, systemd units) is used as the
  environment of `Cluster`.

## 6. Plan

Done: all modules, their runs, and the proofs of every property that is not
liveness.

Left, where the prover can be extended: liveness. The fairness arguments are short
(each action of a hop, a scrape or a drain takes it further, and `ForwardsAreBounded`
bounds the hops), but they need ENABLED.
