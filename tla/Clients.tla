------------------------------ MODULE Clients ------------------------------
(***************************************************************************)
(* The device state tracker of the primary process, src/utils/clients.ts.  *)
(*                                                                         *)
(* setConnected records which state the balena API ought to show for a     *)
(* device (the target).  One report at a time is made by updateLoop: it    *)
(* empties pendingUpdates, POSTs the devices whose target differs from     *)
(* what was last acknowledged (the current state) in chunks, and one       *)
(* second after the last chunk has settled looks for new pending updates.  *)
(* While a report is under way setConnected keeps changing the targets.    *)
(*                                                                         *)
(* The API and the network are external: a POST in flight is first         *)
(* processed by the API and then answered, and may fail before or after    *)
(* the API has processed it.                                               *)
(***************************************************************************)
EXTENDS Integers, FiniteSets

CONSTANTS
  Devices,     \* device uuids
  Workers,     \* ids of the workers of this service instance
  NoWorker,    \* `undefined' in the worker fields of a DeviceStateTracker
  BatchSize,   \* API_DEVICE_STATE_POST_BATCH_SIZE
  Faults       \* the ways a POST may fail, a subset of FaultKinds

\* "rejected":   refused, or lost on its way to the API: never processed
\* "answerLost": processed, but the answer is lost or comes after the timeout
\* "late":       given up on here, but still processed by the API later
FaultKinds == {"rejected", "answerLost", "late"}

ASSUME ClientsAssumption ==
  /\ NoWorker \notin Workers
  /\ BatchSize \in Nat \ {0}
  /\ Faults \subseteq FaultKinds

VARIABLES
  targetConnected,     \* the four fields of deviceStates[uuid] ...
  targetWorkerId,
  currentConnected,
  currentWorkerId,     \* ... "undefined" / NoWorker when there is no entry
  pendingUpdates,
  currentlyReporting,
  inFlight,            \* chunks whose POST has been made and not settled
  apiConnected,        \* external: the state the API shows for a device
  latePosts            \* external: POSTs timed out here, not yet processed

deviceStates ==
  <<targetConnected, targetWorkerId, currentConnected, currentWorkerId>>
loopState == <<pendingUpdates, currentlyReporting, inFlight>>
external == <<apiConnected, latePosts>>
vars == <<deviceStates, loopState, external>>

Event == {"connect", "disconnect"}
Post == [uuids : SUBSET Devices, event : Event, stage : {"sent", "processed"}]

TypeOK ==
  /\ targetConnected \in [Devices -> Event \cup {"undefined"}]
  /\ targetWorkerId \in [Devices -> Workers \cup {NoWorker}]
  /\ currentConnected \in [Devices -> Event \cup {"undefined"}]
  /\ currentWorkerId \in [Devices -> Workers \cup {NoWorker}]
  /\ pendingUpdates \subseteq Devices
  /\ currentlyReporting \in BOOLEAN
  /\ inFlight \subseteq Post
  /\ apiConnected \in [Devices -> Event]
  /\ latePosts \subseteq Post

Init ==
  /\ targetConnected = [u \in Devices |-> "undefined"]
  /\ targetWorkerId = [u \in Devices |-> NoWorker]
  /\ currentConnected = [u \in Devices |-> "undefined"]
  /\ currentWorkerId = [u \in Devices |-> NoWorker]
  /\ pendingUpdates = {}
  /\ currentlyReporting = FALSE
  /\ inFlight = {}
  /\ apiConnected = [u \in Devices |-> "disconnect"]
  /\ latePosts = {}

-----------------------------------------------------------------------------
(***************************************************************************)
(* The report loop.  Its parameters are the values the synchronous part of *)
(* updateLoop reads: its callers have just assigned some of them.          *)
(***************************************************************************)

\* chunk(): every way to cut the devices of S, in some order of insertion,
\* into consecutive chunks of BatchSize, the last one possibly shorter.
Chunkings(S) ==
  { P \in SUBSET (SUBSET S \ {{}}) :
      /\ UNION P = S
      /\ \A b, c \in P : b # c => b \cap c = {}
      /\ \A b \in P : Cardinality(b) <= BatchSize
      /\ \A b, c \in P : Cardinality(b) < BatchSize
                           /\ Cardinality(c) < BatchSize => b = c }

\* The POSTs reportUpdates makes for the given devices, one per chunk.
Posts(chunks, event) ==
  { [uuids |-> b, event |-> event, stage |-> "sent"] : b \in chunks }

\* Target and acknowledged state differ: there is something to report.
Differs(u, target, worker) ==
  \/ target[u] # currentConnected[u]
  \/ worker[u] # currentWorkerId[u]

\* The pending devices an update of the given kind is due for.
Due(event, target, worker, pending) ==
  { u \in pending : /\ Differs(u, target, worker)
                    /\ (target[u] = "connect") <=> (event = "connect") }

\* The pending updates are taken and POSTed, disconnects and connects alike.
startReport(target, worker, pending) ==
  /\ currentlyReporting' = TRUE
  /\ pendingUpdates' = {}
  /\ \E ds \in Chunkings(Due("disconnect", target, worker, pending)),
        cs \in Chunkings(Due("connect", target, worker, pending)) :
       inFlight' = Posts(ds, "disconnect") \cup Posts(cs, "connect")

\* Mutant: updateLoop starts although a report is under way.
updateLoop_NotExclusive(busy, target, worker, pending) ==
  IF pending = {}
    THEN currentlyReporting' = busy /\ UNCHANGED <<pendingUpdates, inFlight>>
    ELSE /\ currentlyReporting' = TRUE
         /\ pendingUpdates' = {}
         /\ \E ds \in Chunkings(Due("disconnect", target, worker, pending)),
               cs \in Chunkings(Due("connect", target, worker, pending)) :
              inFlight' = inFlight \cup Posts(ds, "disconnect")
                                   \cup Posts(cs, "connect")

updateLoop(busy, target, worker, pending) ==
  IF busy \/ pending = {}
    THEN /\ currentlyReporting' = busy
         /\ pendingUpdates' = pending
         /\ UNCHANGED inFlight
    ELSE startReport(target, worker, pending)

\* The exported function: note the new target and make sure a report runs.
setConnected(u, w, event) ==
  LET target == [targetConnected EXCEPT ![u] = event]
      worker == [targetWorkerId EXCEPT ![u] = w]
  IN  /\ targetConnected' = target
      /\ targetWorkerId' = worker
      /\ updateLoop(currentlyReporting, target, worker, pendingUpdates \cup {u})
      /\ UNCHANGED <<currentConnected, currentWorkerId, external>>

\* A call of setConnected.  api.ts reports a disconnect only for a device it
\* has reported as connected before.
SetConnected(u, w, event) ==
  /\ event = "disconnect" => targetConnected[u] = "connect"
  /\ setConnected(u, w, event)

\* Mutant: the target is marked as acknowledged, not the state that was sent.
ReportSucceeded_MarksTarget(p) ==
  /\ p.stage = "processed"
  /\ currentConnected' =
       [u \in Devices |-> IF u \in p.uuids THEN targetConnected[u]
                                           ELSE currentConnected[u]]
  /\ currentWorkerId' =
       [u \in Devices |-> IF u \in p.uuids THEN targetWorkerId[u]
                                           ELSE currentWorkerId[u]]
  /\ inFlight' = inFlight \ {p}
  /\ UNCHANGED <<targetConnected, targetWorkerId, pendingUpdates,
                 currentlyReporting, external>>

\* A chunk is answered with 200.  The worker marked as current is the target
\* worker at this moment, not the one at the moment of the POST.
ReportSucceeded(p) ==
  /\ p.stage = "processed"
  /\ currentConnected' =
       [u \in Devices |-> IF u \in p.uuids THEN p.event ELSE currentConnected[u]]
  /\ currentWorkerId' =
       [u \in Devices |-> IF u \in p.uuids THEN targetWorkerId[u]
                                           ELSE currentWorkerId[u]]
  /\ inFlight' = inFlight \ {p}
  /\ UNCHANGED <<targetConnected, targetWorkerId, pendingUpdates,
                 currentlyReporting, external>>

\* Mutant: a failed chunk is forgotten.
ReportFailed_Forgotten(p) ==
  /\ p.stage = "sent" /\ "rejected" \in Faults
  /\ inFlight' = inFlight \ {p}
  /\ UNCHANGED <<deviceStates, pendingUpdates, currentlyReporting, external>>

\* A chunk fails (refused, other status, time-out): pending again.
ReportFailed(p) ==
  /\ \/ /\ "rejected" \in Faults /\ p.stage = "sent"
        /\ UNCHANGED latePosts
     \/ /\ "answerLost" \in Faults /\ p.stage = "processed"
        /\ UNCHANGED latePosts
     \/ /\ "late" \in Faults /\ p.stage = "sent"
        /\ p \notin latePosts    \* bound: one late POST of each content
        /\ latePosts' = latePosts \cup {p}
  /\ pendingUpdates' = pendingUpdates \cup p.uuids
  /\ inFlight' = inFlight \ {p}
  /\ UNCHANGED <<deviceStates, currentlyReporting, apiConnected>>

\* Mutant: the flag is cleared, but updateLoop is not called again.
LoopAgain_NoRerun ==
  /\ currentlyReporting /\ inFlight = {}
  /\ currentlyReporting' = FALSE
  /\ UNCHANGED <<deviceStates, pendingUpdates, inFlight, external>>

\* All chunks have settled and the second after them is over: the finally
\* block clears the flag and calls updateLoop once more.
LoopAgain ==
  /\ currentlyReporting
  /\ inFlight = {}
  /\ updateLoop(FALSE, targetConnected, targetWorkerId, pendingUpdates)
  /\ UNCHANGED <<deviceStates, external>>

\* External: the API processes a POST.
Process(p) ==
  apiConnected' =
    [u \in Devices |-> IF u \in p.uuids THEN p.event ELSE apiConnected[u]]

Processed(p) ==
  [uuids |-> p.uuids, event |-> p.event, stage |-> "processed"]

ApiProcesses(p) ==
  /\ p.stage = "sent"
  /\ Process(p)
  /\ inFlight' = (inFlight \ {p}) \cup {Processed(p)}
  /\ UNCHANGED <<deviceStates, pendingUpdates, currentlyReporting, latePosts>>

ApiProcessesLate(p) ==
  /\ Process(p)
  /\ latePosts' = latePosts \ {p}
  /\ UNCHANGED <<deviceStates, loopState>>

\* What happens without a call: the loop, the network and the API.
Background ==
  \/ \E p \in inFlight : ReportSucceeded(p)
  \/ \E p \in inFlight : ReportFailed(p)
  \/ LoopAgain
  \/ \E p \in inFlight : ApiProcesses(p)
  \/ \E p \in latePosts : ApiProcessesLate(p)

Next ==
  \/ \E u \in Devices, w \in Workers, e \in Event : SetConnected(u, w, e)
  \/ Background

Spec == Init /\ [][Next]_vars

-----------------------------------------------------------------------------
(***************************************************************************)
(* Fairness.  The timers of Node.js fire, every request settles within     *)
(* REQUEST_TIMEOUT, and the API does not refuse the POSTs that name a      *)
(* given device for ever.  Nothing is assumed about the calls.             *)
(***************************************************************************)
ProcessedFor(u) == \E p \in inFlight : u \in p.uuids /\ ApiProcesses(p)
Settle == \E p \in inFlight : ReportSucceeded(p) \/ ReportFailed(p)

Fairness ==
  /\ WF_vars(LoopAgain)
  /\ WF_vars(Settle)
  /\ WF_vars(\E p \in latePosts : ApiProcessesLate(p))
  /\ \A u \in Devices : SF_vars(ProcessedFor(u))

FairSpec == Spec /\ Fairness

-----------------------------------------------------------------------------
(***************************************************************************)
(* Properties.                                                             *)
(***************************************************************************)

\* The devices named by a POST that has not settled.
Reporting == UNION { p.uuids : p \in inFlight }

\* The devices the tracker still has to do something about.
Unsettled == pendingUpdates \cup Reporting

\* A device that was never reported is offline for the API.
Shown(state) == IF state = "connect" THEN "connect" ELSE "disconnect"

\* updateLoop empties pendingUpdates before the POSTs are answered while
\* setConnected keeps changing targets: yet no update is lost, whatever way
\* POSTs fail.  A device whose target and acknowledged state differ is either
\* pending or named by a POST whose answer is still to come.
NoUpdateLost ==
  \A u \in Devices :
    Differs(u, targetConnected, targetWorkerId) => u \in Unsettled

\* Connects and disconnects are POSTed in parallel, and in several chunks:
\* no two POSTs under way name the same device, so that the order in which
\* the API handles them cannot matter.
OnePostPerDevice ==
  \A p, q \in inFlight : p # q => p.uuids \cap q.uuids = {}

\* Once reportUpdates and updateLoop are done with a device, the API shows its
\* target.  This takes an API that processed no POST it did not acknowledge.
SettledMeansShown ==
  \A u \in Devices \ Unsettled : apiConnected[u] = Shown(targetConnected[u])

\* A setConnected call that finds currentlyReporting set relies on the finally
\* block of updateLoop to pick its update up: when no report is under way,
\* nothing waits for one.
NothingWaitsForNoLoop ==
  ~currentlyReporting => pendingUpdates = {} /\ inFlight = {}

\* The rest of what the report loop maintains: only tracked devices are
\* reported, and a POST that no longer carries its device's target has been
\* followed by a call of setConnected that made the device pending again.
Tracked ==
  \A u \in Unsettled : targetConnected[u] # "undefined"

StaleReportsArePending ==
  \A p \in inFlight : \A u \in p.uuids :
    u \in pendingUpdates \/ p.event = targetConnected[u]

\* The inductive invariant behind NoUpdateLost, whatever way POSTs fail.
LoopInv ==
  /\ TypeOK
  /\ Tracked
  /\ OnePostPerDevice
  /\ NothingWaitsForNoLoop
  /\ StaleReportsArePending
  /\ NoUpdateLost

\* What the API shows is what reportUpdates has recorded as acknowledged, but
\* for the devices of a POST that is processed and not yet answered.  This is
\* what an unacknowledged but processed POST would break.
ShownIsCurrent ==
  \A u \in Devices :
    \/ \E p \in inFlight : /\ u \in p.uuids
                          /\ p.stage = "processed"
                          /\ apiConnected[u] = p.event
    \/ /\ apiConnected[u] = Shown(currentConnected[u])
       /\ \A p \in inFlight : u \in p.uuids => p.stage = "sent"

\* The tracker implements the abstract Reporter: dirty are the devices that
\* are pending or named by a POST, the board is what the API shows.
Promise == INSTANCE Reporter WITH
  target <- [u \in Devices |-> Shown(targetConnected[u])],
  board <- apiConnected,
  dirty <- Unsettled

\* Every step of setConnected, updateLoop, reportUpdates and the API is a step
\* the Reporter allows, or none.
ImplementsReporter == Promise!Spec

=============================================================================
