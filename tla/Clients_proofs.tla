--------------------------- MODULE Clients_proofs ---------------------------
(***************************************************************************)
(* Proofs about the device state tracker, for any sets of devices and      *)
(* workers and any batch size.                                             *)
(***************************************************************************)
EXTENDS Clients, TLAPS

\* Membership in Unsettled, before and after a step.
LEMMA UnsettledIff ==
  \A u : u \in Unsettled
           <=> u \in pendingUpdates \/ \E p \in inFlight : u \in p.uuids
  BY DEF Unsettled, Reporting

\* What chunk() guarantees: the chunks are disjoint and together are S.
LEMMA ChunkingsPartition ==
  ASSUME NEW S, NEW P \in Chunkings(S)
  PROVE  /\ \A b \in P : b \subseteq S
         /\ \A u \in S : \E b \in P : u \in b
         /\ \A b, c \in P : b # c => b \cap c = {}
  BY DEF Chunkings

\* What one pass of updateLoop sends when it finds pending updates: a POST for
\* every pending device that has something to report, with its target, and no
\* two POSTs for one device.
LEMMA LoopSends ==
  ASSUME NEW target, NEW worker, NEW pending \in SUBSET Devices,
         startReport(target, worker, pending)
  PROVE  /\ currentlyReporting' = TRUE
         /\ pendingUpdates' = {}
         /\ inFlight' \in SUBSET Post
         /\ \A p \in inFlight' : p.stage = "sent"
         /\ \A p \in inFlight' : \A u \in p.uuids :
              u \in pending /\ ((target[u] = "connect") <=> (p.event = "connect"))
         /\ \A u \in pending : Differs(u, target, worker)
                                 => \E p \in inFlight' : u \in p.uuids
         /\ \A p, q \in inFlight' : p # q => p.uuids \cap q.uuids = {}
<1> DEFINE D == Due("disconnect", target, worker, pending)
           C == Due("connect", target, worker, pending)
<1>1. PICK ds \in Chunkings(D), cs \in Chunkings(C) :
        inFlight' = Posts(ds, "disconnect") \cup Posts(cs, "connect")
  BY DEF startReport
<1>2. currentlyReporting' = TRUE /\ pendingUpdates' = {}
  BY DEF startReport
<1>3. /\ \A u \in D : u \in pending /\ target[u] # "connect"
      /\ \A u \in C : u \in pending /\ target[u] = "connect"
      /\ \A u \in pending : Differs(u, target, worker) => u \in D \/ u \in C
  BY DEF Due
<1>4. /\ \A b \in ds : b \subseteq D
      /\ \A u \in D : \E b \in ds : u \in b
      /\ \A b, c \in ds : b # c => b \cap c = {}
  BY ChunkingsPartition
<1>5. /\ \A b \in cs : b \subseteq C
      /\ \A u \in C : \E b \in cs : u \in b
      /\ \A b, c \in cs : b # c => b \cap c = {}
  BY ChunkingsPartition
<1> HIDE DEF D, C
<1>6. \A p : p \in inFlight' <=>
        \/ \E b \in ds : p = [uuids |-> b, event |-> "disconnect", stage |-> "sent"]
        \/ \E b \in cs : p = [uuids |-> b, event |-> "connect", stage |-> "sent"]
  BY <1>1 DEF Posts
<1>7. inFlight' \in SUBSET Post
  <2> SUFFICES ASSUME NEW p \in inFlight' PROVE p \in Post
    OBVIOUS
  <2>1. \A b \in ds : b \in SUBSET Devices
    BY <1>3, <1>4
  <2>2. \A b \in cs : b \in SUBSET Devices
    BY <1>3, <1>5
  <2> QED BY <1>6, <2>1, <2>2 DEF Post, Event
<1>8. \A p \in inFlight' : p.stage = "sent"
  BY <1>6
<1>9. \A p \in inFlight' : \A u \in p.uuids :
        u \in pending /\ ((target[u] = "connect") <=> (p.event = "connect"))
  BY <1>3, <1>4, <1>5, <1>6
<1>10. ASSUME NEW u \in pending, Differs(u, target, worker)
       PROVE  \E p \in inFlight' : u \in p.uuids
  <2>1. CASE u \in D
    <3>1. PICK b \in ds : u \in b
      BY <1>4, <2>1
    <3>2. [uuids |-> b, event |-> "disconnect", stage |-> "sent"] \in inFlight'
      BY <1>6
    <3> QED BY <3>1, <3>2
  <2>2. CASE u \in C
    <3>1. PICK b \in cs : u \in b
      BY <1>5, <2>2
    <3>2. [uuids |-> b, event |-> "connect", stage |-> "sent"] \in inFlight'
      BY <1>6
    <3> QED BY <3>1, <3>2
  <2> QED BY <1>3, <1>10, <2>1, <2>2
<1>11. ASSUME NEW p \in inFlight', NEW q \in inFlight', p # q,
              NEW u, u \in p.uuids, u \in q.uuids
       PROVE  FALSE
  <2>1. p.event = q.event
    BY <1>9, <1>11, <1>6
  <2> QED BY <2>1, <1>4, <1>5, <1>6, <1>11
<1> QED BY <1>2, <1>7, <1>8, <1>9, <1>10, <1>11

-----------------------------------------------------------------------------
\* Both callers of updateLoop: setConnected, which has changed the target of a
\* device it adds to the pending ones, and the finally block, which has not.
LEMMA LoopPass ==
  ASSUME LoopInv,
         NEW busy \in BOOLEAN, NEW pending \in SUBSET Devices,
         NEW target \in [Devices -> Event \cup {"undefined"}],
         NEW worker \in [Devices -> Workers \cup {NoWorker}],
         pendingUpdates \subseteq pending,
         \A u \in pending : target[u] # "undefined",
         \A u \in Devices \ pending : /\ target[u] = targetConnected[u]
                                      /\ worker[u] = targetWorkerId[u],
         ~busy => inFlight = {},
         updateLoop(busy, target, worker, pending),
         targetConnected' = target, targetWorkerId' = worker,
         UNCHANGED <<currentConnected, currentWorkerId, external>>
  PROVE  LoopInv'
<1> USE DEF LoopInv
<1>1. CASE busy
  <2>1. currentlyReporting' = TRUE /\ pendingUpdates' = pending /\ inFlight' = inFlight
    BY <1>1 DEF updateLoop
  <2>2. TypeOK'
    BY <2>1 DEF TypeOK, external
  <2>3. Tracked'
    BY <2>1, UnsettledIff DEF Tracked, Unsettled, Reporting, TypeOK, Post
  <2>4. OnePostPerDevice'
    BY <2>1 DEF OnePostPerDevice
  <2>5. NothingWaitsForNoLoop'
    BY <2>1 DEF NothingWaitsForNoLoop
  <2>6. StaleReportsArePending'
    BY <2>1 DEF StaleReportsArePending, TypeOK, Post
  <2>7. NoUpdateLost'
    BY <2>1 DEF NoUpdateLost, Differs, Unsettled, Reporting, external
  <2> QED BY <2>2, <2>3, <2>4, <2>5, <2>6, <2>7
<1>2. CASE ~busy /\ pending = {}
  <2>1. /\ currentlyReporting' = FALSE /\ pendingUpdates' = {}
        /\ inFlight' = {} /\ inFlight = {}
    BY <1>2 DEF updateLoop
  <2>2. targetConnected' = targetConnected /\ targetWorkerId' = targetWorkerId
    BY <1>2 DEF TypeOK
  <2>3. TypeOK'
    BY <2>1 DEF TypeOK, external
  <2>4. Unsettled = {} /\ Unsettled' = {}
    BY <1>2, <2>1 DEF Unsettled, Reporting
  <2>5. NoUpdateLost'
    BY <2>2, <2>4 DEF NoUpdateLost, Differs
  <2> QED
    BY <2>1, <2>3, <2>4, <2>5
    DEF Tracked, OnePostPerDevice, NothingWaitsForNoLoop, StaleReportsArePending
<1>3. CASE ~busy /\ pending # {}
  <2>1. /\ currentlyReporting' = TRUE
        /\ pendingUpdates' = {}
        /\ inFlight' \in SUBSET Post
        /\ \A p \in inFlight' : \A u \in p.uuids :
             u \in pending /\ ((target[u] = "connect") <=> (p.event = "connect"))
        /\ \A u \in pending : Differs(u, target, worker)
                                => \E p \in inFlight' : u \in p.uuids
        /\ \A p, q \in inFlight' : p # q => p.uuids \cap q.uuids = {}
    <3>1. startReport(target, worker, pending)
      BY <1>3 DEF updateLoop
    <3> QED BY <3>1, LoopSends DEF startReport
  <2>2. TypeOK'
    BY <2>1 DEF TypeOK, external
  <2>3. \A u \in Unsettled' : u \in pending
    BY <2>1 DEF Unsettled, Reporting
  <2>4. Tracked'
    BY <2>3 DEF Tracked
  <2>5. OnePostPerDevice'
    BY <2>1 DEF OnePostPerDevice
  <2>6. NothingWaitsForNoLoop'
    BY <2>1 DEF NothingWaitsForNoLoop
  <2>7. StaleReportsArePending'
    BY <2>1 DEF StaleReportsArePending, TypeOK, Post, Event
  <2>8. ASSUME NEW u \in Devices, Differs(u, targetConnected, targetWorkerId)'
        PROVE  u \in Unsettled'
    <3>1. Differs(u, target, worker)
      BY <2>8 DEF Differs
    <3>2. CASE u \in pending
      BY <2>1, <3>1, <3>2 DEF Unsettled, Reporting
    <3>3. CASE u \notin pending
      <4>1. Differs(u, targetConnected, targetWorkerId)
        BY <3>1, <3>3 DEF Differs
      <4>2. u \notin pendingUpdates /\ inFlight = {}
        BY <1>3, <3>3
      <4> QED BY <4>1, <4>2 DEF NoUpdateLost, Unsettled, Reporting
    <3> QED BY <3>2, <3>3
  <2>9. NoUpdateLost'
    BY <2>8 DEF NoUpdateLost
  <2> QED BY <2>2, <2>4, <2>5, <2>6, <2>7, <2>9
<1> QED BY <1>1, <1>2, <1>3

\* The loop is idle, nothing is pending and nothing was reported.
LEMMA LoopInvInit == Init => LoopInv
  BY DEF Init, LoopInv, TypeOK, Tracked, OnePostPerDevice, NothingWaitsForNoLoop,
         StaleReportsArePending, NoUpdateLost, Differs, Unsettled, Reporting, Event

\* setConnected marks the device pending in the same step as it changes its
\* target, so that the pass of updateLoop it starts keeps the invariant.
LEMMA setConnectedKeepsLoopInv ==
  ASSUME LoopInv, NEW u \in Devices, NEW w \in Workers, NEW event \in Event,
         setConnected(u, w, event)
  PROVE  LoopInv'
<1> DEFINE target == [targetConnected EXCEPT ![u] = event]
           worker == [targetWorkerId EXCEPT ![u] = w]
           pending == pendingUpdates \cup {u}
<1>1. /\ updateLoop(currentlyReporting, target, worker, pending)
      /\ targetConnected' = target /\ targetWorkerId' = worker
      /\ UNCHANGED <<currentConnected, currentWorkerId, external>>
  BY DEF setConnected
<1>2. /\ target \in [Devices -> Event \cup {"undefined"}]
      /\ worker \in [Devices -> Workers \cup {NoWorker}]
      /\ pending \in SUBSET Devices
      /\ currentlyReporting \in BOOLEAN
  BY DEF LoopInv, TypeOK
<1>3. \A v \in pending : target[v] # "undefined"
  BY UnsettledIff DEF LoopInv, TypeOK, Tracked, Event
<1>4. \A v \in Devices \ pending : /\ target[v] = targetConnected[v]
                                   /\ worker[v] = targetWorkerId[v]
  BY DEF LoopInv, TypeOK
<1>5. ~currentlyReporting => inFlight = {}
  BY DEF LoopInv, NothingWaitsForNoLoop
<1>6. pendingUpdates \subseteq pending
  OBVIOUS
<1> HIDE DEF target, worker, pending
<1> QED BY <1>1, <1>2, <1>3, <1>4, <1>5, <1>6, LoopPass

\* The invariant of the report loop is inductive: one case for each action.
LEMMA LoopInvStep == LoopInv /\ [Next]_vars => LoopInv'
<1> SUFFICES ASSUME LoopInv, [Next]_vars PROVE LoopInv'
  OBVIOUS
<1>1. ASSUME NEW u \in Devices, NEW w \in Workers, NEW e \in Event,
             SetConnected(u, w, e)
      PROVE  LoopInv'
  BY <1>1, setConnectedKeepsLoopInv DEF SetConnected
<1>2. ASSUME NEW p \in inFlight, ReportSucceeded(p)
      PROVE  LoopInv'
  <2> USE <1>2 DEF ReportSucceeded
  <2>1. TypeOK'
    BY DEF LoopInv, TypeOK, Post, external
  <2>2. \A u \in Devices : u \notin p.uuids => (u \in Unsettled => u \in Unsettled')
    BY DEF Unsettled, Reporting
  <2>3. \A u : u \in Unsettled' => u \in Unsettled
    BY DEF Unsettled, Reporting
  <2>4. Tracked'
    BY <2>3 DEF LoopInv, Tracked
  <2>5. OnePostPerDevice' /\ NothingWaitsForNoLoop' /\ StaleReportsArePending'
    BY DEF LoopInv, OnePostPerDevice, NothingWaitsForNoLoop, StaleReportsArePending
  <2>6. ASSUME NEW u \in Devices, Differs(u, targetConnected, targetWorkerId)'
        PROVE  u \in Unsettled'
    <3>1. CASE u \in p.uuids
      <4>1. currentConnected'[u] = p.event /\ currentWorkerId'[u] = targetWorkerId'[u]
        BY <3>1
      <4>2. u \in pendingUpdates'
        BY <2>6, <3>1, <4>1 DEF Differs, LoopInv, StaleReportsArePending
      <4> QED BY <4>2 DEF Unsettled
    <3>2. CASE u \notin p.uuids
      BY <2>2, <2>6, <3>2 DEF Differs, LoopInv, NoUpdateLost
    <3> QED BY <3>1, <3>2
  <2>7. NoUpdateLost'
    BY <2>6 DEF NoUpdateLost
  <2> QED BY <2>1, <2>4, <2>5, <2>7 DEF LoopInv
<1>3. ASSUME NEW p \in inFlight, ReportFailed(p)
      PROVE  LoopInv'
  <2>1. /\ pendingUpdates' = pendingUpdates \cup p.uuids
        /\ inFlight' = inFlight \ {p}
        /\ latePosts' \in SUBSET (latePosts \cup {p})
        /\ UNCHANGED <<targetConnected, targetWorkerId, currentConnected,
                       currentWorkerId, currentlyReporting, apiConnected>>
    BY <1>3 DEF ReportFailed, deviceStates
  <2>2. TypeOK'
    BY <2>1 DEF LoopInv, TypeOK, Post
  <2>3. \A u : u \in Unsettled' <=> u \in Unsettled
    BY <2>1 DEF Unsettled, Reporting
  <2>4. Tracked'
    BY <2>1, <2>3 DEF LoopInv, Tracked
  <2>5. OnePostPerDevice' /\ NothingWaitsForNoLoop' /\ StaleReportsArePending'
    BY <2>1 DEF LoopInv, OnePostPerDevice, NothingWaitsForNoLoop,
                StaleReportsArePending
  <2>6. NoUpdateLost'
    BY <2>1, <2>3 DEF LoopInv, NoUpdateLost, Differs
  <2> QED BY <2>2, <2>4, <2>5, <2>6 DEF LoopInv
<1>4. ASSUME LoopAgain
      PROVE  LoopInv'
  <2>1. /\ updateLoop(FALSE, targetConnected, targetWorkerId, pendingUpdates)
        /\ UNCHANGED <<targetConnected, targetWorkerId, currentConnected,
                       currentWorkerId, external>>
        /\ inFlight = {}
    BY <1>4 DEF LoopAgain, deviceStates
  <2>2. \A u \in pendingUpdates : targetConnected[u] # "undefined"
    BY DEF LoopInv, Tracked, Unsettled
  <2>3. /\ targetConnected \in [Devices -> Event \cup {"undefined"}]
        /\ targetWorkerId \in [Devices -> Workers \cup {NoWorker}]
        /\ pendingUpdates \in SUBSET Devices
    BY DEF LoopInv, TypeOK
  <2> QED BY <2>1, <2>2, <2>3, LoopPass
<1>5. ASSUME NEW p \in inFlight, ApiProcesses(p)
      PROVE  LoopInv'
  <2> DEFINE q == Processed(p)
  <2>1. /\ inFlight' = (inFlight \ {p}) \cup {q}
        /\ Process(p)
        /\ UNCHANGED <<targetConnected, targetWorkerId, currentConnected,
                       currentWorkerId, pendingUpdates, currentlyReporting,
                       latePosts>>
    BY <1>5 DEF ApiProcesses, deviceStates
  <2>2. q \in Post /\ q.uuids = p.uuids /\ q.event = p.event
    BY DEF LoopInv, TypeOK, Post, Processed
  <2> HIDE DEF q
  <2>3. TypeOK'
    BY <2>1, <2>2 DEF LoopInv, TypeOK, Process, Post
  <2>4. \A u : u \in Unsettled' <=> u \in Unsettled
    BY <2>1, <2>2 DEF Unsettled, Reporting
  <2>5. Tracked'
    BY <2>1, <2>4 DEF LoopInv, Tracked
  <2>6. OnePostPerDevice' /\ NothingWaitsForNoLoop' /\ StaleReportsArePending'
    BY <2>1, <2>2 DEF LoopInv, OnePostPerDevice, NothingWaitsForNoLoop,
                      StaleReportsArePending
  <2>7. NoUpdateLost'
    BY <2>1, <2>4 DEF LoopInv, NoUpdateLost, Differs
  <2> QED BY <2>3, <2>5, <2>6, <2>7 DEF LoopInv
<1>6. ASSUME NEW p \in latePosts, ApiProcessesLate(p)
      PROVE  LoopInv'
  BY <1>6 DEF ApiProcessesLate, Process, LoopInv, TypeOK, Post, Tracked,
              OnePostPerDevice, NothingWaitsForNoLoop, StaleReportsArePending,
              NoUpdateLost, Differs, Unsettled, Reporting, deviceStates, loopState
<1>7. CASE UNCHANGED vars
  BY <1>7 DEF vars, deviceStates, loopState, external, LoopInv, TypeOK, Tracked,
              OnePostPerDevice, NothingWaitsForNoLoop, StaleReportsArePending,
              NoUpdateLost, Differs, Unsettled, Reporting
<1> QED
  BY <1>1, <1>2, <1>3, <1>4, <1>5, <1>6, <1>7 DEF Next, Background

\* The invariant of the report loop, for every way a POST may fail.
THEOREM LoopInvariant == Spec => []LoopInv
<1>1. Init => LoopInv
  BY LoopInvInit
<1>2. LoopInv /\ [Next]_vars => LoopInv'
  BY LoopInvStep
<1> QED BY <1>1, <1>2, PTL DEF Spec

\* No update is lost between setConnected, updateLoop and reportUpdates.
THEOREM UpdatesAreNotLost == Spec => []NoUpdateLost
<1>1. LoopInv => NoUpdateLost
  BY DEF LoopInv
<1> QED BY <1>1, LoopInvariant, PTL

\* Parallel POSTs never name the same device.
THEOREM PostsAreDisjoint == Spec => []OnePostPerDevice
<1>1. LoopInv => OnePostPerDevice
  BY DEF LoopInv
<1> QED BY <1>1, LoopInvariant, PTL

-----------------------------------------------------------------------------
(***************************************************************************)
(* The rest is about an API that never processes a POST without            *)
(* acknowledging it: Faults \subseteq {"rejected"}.                        *)
(***************************************************************************)
\* The inductive invariant behind SettledMeansShown.
ShownInv ==
  /\ LoopInv
  /\ ShownIsCurrent
  /\ latePosts = {}

\* A pass of updateLoop either leaves inFlight alone or starts from none.
LEMMA LoopPassPosts ==
  ASSUME LoopInv,
         NEW busy \in BOOLEAN, NEW pending \in SUBSET Devices,
         NEW target, NEW worker,
         ~busy => inFlight = {},
         updateLoop(busy, target, worker, pending)
  PROVE  \/ inFlight' = inFlight
         \/ inFlight = {} /\ \A p \in inFlight' : p.stage = "sent"
<1>1. CASE busy \/ pending = {}
  BY <1>1 DEF updateLoop
<1>2. CASE ~busy /\ pending # {}
  BY <1>2, LoopSends DEF updateLoop, startReport
<1> QED BY <1>1, <1>2

\* Such a pass leaves ShownIsCurrent alone.
LEMMA LoopPassShown ==
  ASSUME ShownIsCurrent,
         \/ inFlight' = inFlight
         \/ inFlight = {} /\ \A p \in inFlight' : p.stage = "sent",
         UNCHANGED <<currentConnected, apiConnected>>
  PROVE  ShownIsCurrent'
  BY DEF ShownIsCurrent, Shown

\* What setConnected does to the variables that are not its own.
LEMMA setConnectedPosts ==
  ASSUME LoopInv, NEW u \in Devices, NEW w \in Workers, NEW event \in Event,
         setConnected(u, w, event)
  PROVE  /\ \/ inFlight' = inFlight
            \/ inFlight = {} /\ \A p \in inFlight' : p.stage = "sent"
         /\ UNCHANGED <<currentConnected, currentWorkerId, apiConnected, latePosts>>
<1>1. ~currentlyReporting => inFlight = {}
  BY DEF LoopInv, NothingWaitsForNoLoop
<1>2. /\ pendingUpdates \cup {u} \in SUBSET Devices
      /\ currentlyReporting \in BOOLEAN
  BY DEF LoopInv, TypeOK
<1>3. PICK target, worker :
        updateLoop(currentlyReporting, target, worker, pendingUpdates \cup {u})
  BY DEF setConnected
<1>4. \/ inFlight' = inFlight
      \/ inFlight = {} /\ \A p \in inFlight' : p.stage = "sent"
  BY <1>1, <1>2, <1>3, LoopPassPosts
<1> QED BY <1>4 DEF setConnected, external

\* The finally block of updateLoop only starts POSTs when none is in flight.
LEMMA LoopAgainPosts ==
  ASSUME LoopInv, LoopAgain
  PROVE  /\ inFlight = {} /\ \A p \in inFlight' : p.stage = "sent"
         /\ UNCHANGED <<targetConnected, targetWorkerId, currentConnected,
                        currentWorkerId, apiConnected, latePosts>>
<1>1. /\ inFlight = {}
      /\ updateLoop(FALSE, targetConnected, targetWorkerId, pendingUpdates)
  BY DEF LoopAgain
<1>2. pendingUpdates \in SUBSET Devices
  BY DEF LoopInv, TypeOK
<1>3. \/ inFlight' = inFlight
      \/ inFlight = {} /\ \A p \in inFlight' : p.stage = "sent"
  <2>1. CASE pendingUpdates = {}
    BY <1>1, <2>1 DEF updateLoop
  <2>2. CASE pendingUpdates # {}
    <3>1. startReport(targetConnected, targetWorkerId, pendingUpdates)
      BY <1>1, <2>2 DEF updateLoop
    <3> QED BY <1>1, <1>2, <3>1, LoopSends DEF startReport
  <2> QED BY <2>1, <2>2
<1> QED BY <1>1, <1>3 DEF LoopAgain, deviceStates, external

\* What the API shows of a settled device stays current with every action.
LEMMA ShownInvStep ==
  ASSUME Faults \subseteq {"rejected"}, ShownInv, [Next]_vars
  PROVE  ShownInv'
<1>1. LoopInv'
  BY LoopInvStep DEF ShownInv
<1>2. ASSUME NEW u \in Devices, NEW w \in Workers, NEW e \in Event,
             SetConnected(u, w, e)
      PROVE  ShownIsCurrent' /\ latePosts' = {}
  <2>1. setConnected(u, w, e)
    BY <1>2 DEF SetConnected
  <2> QED BY <2>1, setConnectedPosts, LoopPassShown DEF ShownInv
<1>3. ASSUME NEW p \in inFlight, ReportSucceeded(p)
      PROVE  ShownIsCurrent' /\ latePosts' = {}
  <2>1. /\ inFlight' = inFlight \ {p}
        /\ UNCHANGED <<apiConnected, latePosts>>
        /\ p.stage = "processed"
        /\ p.event \in Event
    BY <1>3 DEF ReportSucceeded, external, ShownInv, LoopInv, TypeOK, Post
  <2>2. ASSUME NEW u \in Devices, u \in p.uuids
        PROVE  /\ apiConnected'[u] = Shown(currentConnected'[u])
               /\ \A q \in inFlight' : u \notin q.uuids
    <3>1. \A q \in inFlight : u \in q.uuids => q = p
      BY <2>2 DEF ShownInv, LoopInv, OnePostPerDevice
    <3>2. apiConnected[u] = p.event
      BY <2>1, <2>2, <3>1 DEF ShownInv, ShownIsCurrent
    <3>3. currentConnected'[u] = p.event
      BY <1>3, <2>2 DEF ReportSucceeded
    <3> QED BY <2>1, <3>1, <3>2, <3>3 DEF Shown, Event
  <2>3. ASSUME NEW u \in Devices, u \notin p.uuids
        PROVE  currentConnected'[u] = currentConnected[u]
    BY <1>3, <2>3 DEF ReportSucceeded
  <2> QED BY <2>1, <2>2, <2>3 DEF ShownInv, ShownIsCurrent, Shown
<1>4. ASSUME NEW p \in inFlight, ReportFailed(p)
      PROVE  ShownIsCurrent' /\ latePosts' = {}
  <2>1. /\ p.stage = "sent"
        /\ inFlight' = inFlight \ {p}
        /\ UNCHANGED <<apiConnected, currentConnected, latePosts>>
    BY <1>4 DEF ReportFailed, deviceStates
  <2> QED BY <2>1 DEF ShownInv, ShownIsCurrent, Shown
<1>5. ASSUME LoopAgain
      PROVE  ShownIsCurrent' /\ latePosts' = {}
  BY <1>5, LoopAgainPosts, LoopPassShown DEF ShownInv
<1>6. ASSUME NEW p \in inFlight, ApiProcesses(p)
      PROVE  ShownIsCurrent' /\ latePosts' = {}
  <2> DEFINE q == Processed(p)
  <2>1. /\ inFlight' = (inFlight \ {p}) \cup {q}
        /\ apiConnected' = [v \in Devices |-> IF v \in p.uuids THEN p.event
                                                              ELSE apiConnected[v]]
        /\ UNCHANGED <<currentConnected, latePosts>>
    BY <1>6 DEF ApiProcesses, Process, deviceStates
  <2>2. q.uuids = p.uuids /\ q.event = p.event /\ q.stage = "processed"
    BY DEF Processed
  <2> HIDE DEF q
  <2>3. ASSUME NEW u \in Devices, u \in p.uuids
        PROVE  \E r \in inFlight' : /\ u \in r.uuids
                                    /\ r.stage = "processed"
                                    /\ apiConnected'[u] = r.event
    BY <2>1, <2>2, <2>3
  <2>4. ASSUME NEW u \in Devices, u \notin p.uuids
        PROVE  apiConnected'[u] = apiConnected[u]
    BY <2>1, <2>4
  <2> QED BY <2>1, <2>2, <2>3, <2>4 DEF ShownInv, ShownIsCurrent, Shown
<1>7. ASSUME NEW p \in latePosts, ApiProcessesLate(p)
      PROVE  ShownIsCurrent' /\ latePosts' = {}
  BY DEF ShownInv
<1>8. ASSUME UNCHANGED vars
      PROVE  ShownIsCurrent' /\ latePosts' = {}
  <2>1. UNCHANGED <<inFlight, currentConnected, apiConnected, latePosts>>
    BY <1>8 DEF vars, deviceStates, loopState, external
  <2> QED BY <2>1, LoopPassShown DEF ShownInv
<1>9. ShownIsCurrent' /\ latePosts' = {}
  BY <1>2, <1>3, <1>4, <1>5, <1>6, <1>7, <1>8 DEF Next, Background
<1> QED BY <1>1, <1>9 DEF ShownInv

\* Nothing was sent yet, so that what the API shows is what was reported.
LEMMA ShownInvInit == Init => ShownInv
<1> SUFFICES ASSUME Init PROVE ShownInv
  OBVIOUS
<1>1. LoopInv
  BY LoopInvInit
<1>2. ShownIsCurrent /\ latePosts = {}
  BY DEF Init, ShownIsCurrent, Shown
<1> QED BY <1>1, <1>2 DEF ShownInv

\* The strengthened invariant gives the one that the runs check.
LEMMA ShownInvSettled == ShownInv => SettledMeansShown
<1> SUFFICES ASSUME ShownInv, NEW u \in Devices, u \notin Unsettled
             PROVE  apiConnected[u] = Shown(targetConnected[u])
  BY DEF SettledMeansShown
<1>1. targetConnected[u] = currentConnected[u]
  BY DEF ShownInv, LoopInv, NoUpdateLost, Differs
<1>2. apiConnected[u] = Shown(currentConnected[u])
  BY UnsettledIff DEF ShownInv, ShownIsCurrent
<1> QED BY <1>1, <1>2

\* If the API never processes a POST without acknowledging it, then it shows the
\* target of every device that the tracker is done with.
THEOREM SettledIsShown ==
  ASSUME Faults \subseteq {"rejected"}
  PROVE  Spec => []SettledMeansShown
<1>1. Init => ShownInv
  BY ShownInvInit
<1>2. ShownInv /\ [Next]_vars => ShownInv'
  BY ShownInvStep
<1>3. ShownInv => SettledMeansShown
  BY ShownInvSettled
<1> QED BY <1>1, <1>2, <1>3, PTL DEF Spec

-----------------------------------------------------------------------------
(***************************************************************************)
(* The tracker implements the Reporter.                                    *)
(***************************************************************************)

\* A device that a pass of updateLoop drops has its target acknowledged.
LEMMA LoopDrops ==
  ASSUME NEW target, NEW worker, NEW pending \in SUBSET Devices,
         inFlight = {}, startReport(target, worker, pending)
  PROVE  /\ Unsettled' \subseteq pending
         /\ \A u \in pending \ Unsettled' : target[u] = currentConnected[u]
<1>1. /\ pendingUpdates' = {}
      /\ \A p \in inFlight' : \A u \in p.uuids : u \in pending
      /\ \A u \in pending : Differs(u, target, worker)
                              => \E p \in inFlight' : u \in p.uuids
  BY LoopSends DEF startReport
<1>2. \A u : u \in Unsettled' <=> \E p \in inFlight' : u \in p.uuids
  BY <1>1 DEF Unsettled, Reporting
<1> QED BY <1>1, <1>2 DEF Differs

\* The step of the Reporter that a call of setConnected makes.
LEMMA setConnectedAsks ==
  ASSUME ShownInv, NEW u \in Devices, NEW w \in Workers, NEW event \in Event,
         setConnected(u, w, event)
  PROVE  Promise!Ask(u, event)
<1>1. /\ targetConnected' = [targetConnected EXCEPT ![u] = event]
      /\ apiConnected' = apiConnected
  BY DEF setConnected, external
<1>2. /\ targetConnected \in [Devices -> Event \cup {"undefined"}]
      /\ pendingUpdates \in SUBSET Devices
  BY DEF ShownInv, LoopInv, TypeOK
<1>3. [v \in Devices |-> Shown(targetConnected'[v])]
        = [[v \in Devices |-> Shown(targetConnected[v])] EXCEPT ![u] = event]
  BY <1>1, <1>2 DEF Shown, Event
<1>4. \/ Unsettled' = Unsettled \cup {u}
      \/ u \notin Unsettled /\ apiConnected[u] = event /\ Unsettled' = Unsettled
  <2>1. CASE currentlyReporting
    <3>1. pendingUpdates' = pendingUpdates \cup {u} /\ inFlight' = inFlight
      BY <2>1 DEF setConnected, updateLoop
    <3>2. \A v : v \in Unsettled' <=> v \in Unsettled \/ v = u
      BY <3>1 DEF Unsettled, Reporting
    <3> QED BY <3>2
  <2>2. CASE ~currentlyReporting
    <3> DEFINE target == [targetConnected EXCEPT ![u] = event]
               worker == [targetWorkerId EXCEPT ![u] = w]
    <3>1. pendingUpdates = {} /\ inFlight = {}
      BY <2>2 DEF ShownInv, LoopInv, NothingWaitsForNoLoop
    <3>2. Unsettled = {}
      BY <3>1 DEF Unsettled, Reporting
    <3>3. startReport(target, worker, {u})
      <4>1. pendingUpdates \cup {u} = {u}
        BY <3>1
      <4> QED BY <2>2, <4>1 DEF setConnected, updateLoop
    <3>4. target[u] = event
      BY <1>2
    <3> HIDE DEF target, worker
    <3>5. /\ Unsettled' \subseteq {u}
          /\ u \notin Unsettled' => target[u] = currentConnected[u]
      BY <3>1, <3>3, LoopDrops DEF startReport
    <3>6. apiConnected[u] = Shown(currentConnected[u])
      BY <3>1 DEF ShownInv, ShownIsCurrent
    <3> QED BY <3>2, <3>4, <3>5, <3>6 DEF Shown, Event
  <2> QED BY <2>1, <2>2 DEF ShownInv, LoopInv, TypeOK
<1> QED BY <1>1, <1>3, <1>4 DEF Promise!Ask

\* A step that keeps the target and what the API shows, and with which only
\* devices whose target is shown become settled, is a Done step.
LEMMA SettlingIsDone ==
  ASSUME UNCHANGED <<targetConnected, apiConnected>>,
         Unsettled \in SUBSET Devices, Unsettled' \subseteq Unsettled,
         \A u \in Unsettled \ Unsettled' :
           apiConnected[u] = Shown(targetConnected[u])
  PROVE  Promise!Next
<1> DEFINE D == Unsettled \ Unsettled'
<1>1. Unsettled' = Unsettled \ D
  OBVIOUS
<1>2. D \in SUBSET Devices /\ D \subseteq Unsettled
  OBVIOUS
<1>3. \A d \in D : apiConnected[d]
                     = [u \in Devices |-> Shown(targetConnected[u])][d]
  BY <1>2
<1> HIDE DEF D
<1>4. Promise!Done(D)
  BY <1>1, <1>2, <1>3 DEF Promise!Done
<1> QED BY <1>2, <1>4 DEF Promise!Next

\* Every step of the tracker is a step of the Reporter, or changes nothing
\* that the Reporter sees.
LEMMA StepIsReporterStep ==
  ASSUME Faults \subseteq {"rejected"}, ShownInv, [Next]_vars
  PROVE  [Promise!Next]_(Promise!vars)
<1>0. Unsettled \in SUBSET Devices
  BY DEF ShownInv, LoopInv, TypeOK, Post, Unsettled, Reporting
<1>1. ASSUME NEW u \in Devices, NEW w \in Workers, NEW e \in Event,
             SetConnected(u, w, e)
      PROVE  Promise!Next
  <2>1. Promise!Ask(u, e)
    BY <1>1, setConnectedAsks DEF SetConnected
  <2> QED BY <2>1 DEF Promise!Next, Promise!State, Event
<1>2. ASSUME NEW p \in inFlight, ReportSucceeded(p)
      PROVE  Promise!Next
  <2>1. /\ inFlight' = inFlight \ {p}
        /\ UNCHANGED <<targetConnected, apiConnected, pendingUpdates>>
        /\ p.stage = "processed" /\ p.event \in Event
        /\ p.uuids \in SUBSET Devices
    BY <1>2 DEF ReportSucceeded, external, ShownInv, LoopInv, TypeOK, Post
  <2>2. Unsettled' \subseteq Unsettled
    BY <2>1 DEF Unsettled, Reporting
  <2>3. ASSUME NEW u \in Unsettled \ Unsettled'
        PROVE  apiConnected[u] = Shown(targetConnected[u])
    <3>1. u \in p.uuids /\ u \notin pendingUpdates
      BY <2>1 DEF Unsettled, Reporting
    <3>2. p.event = targetConnected[u]
      BY <3>1 DEF ShownInv, LoopInv, StaleReportsArePending
    <3>3. apiConnected[u] = p.event
      BY <2>1, <3>1 DEF ShownInv, ShownIsCurrent, LoopInv, OnePostPerDevice
    <3> QED BY <2>1, <3>2, <3>3 DEF Shown, Event
  <2> QED BY <1>0, <2>1, <2>2, <2>3, SettlingIsDone
<1>3. ASSUME NEW p \in inFlight, ReportFailed(p)
      PROVE  UNCHANGED Promise!vars
  <2>1. /\ pendingUpdates' = pendingUpdates \cup p.uuids
        /\ inFlight' = inFlight \ {p}
        /\ UNCHANGED <<targetConnected, apiConnected>>
    BY <1>3 DEF ReportFailed, deviceStates
  <2>2. Unsettled' = Unsettled
    <3>1. \A u : u \in Unsettled' <=> u \in Unsettled
      BY <2>1 DEF Unsettled, Reporting
    <3> QED BY <3>1
  <2> QED BY <2>1, <2>2 DEF Promise!vars
<1>4. ASSUME LoopAgain
      PROVE  Promise!Next
  <2>1. /\ inFlight = {}
        /\ updateLoop(FALSE, targetConnected, targetWorkerId, pendingUpdates)
        /\ UNCHANGED <<targetConnected, apiConnected>>
    BY <1>4 DEF LoopAgain, deviceStates, external
  <2>2. Unsettled = pendingUpdates
    BY <2>1 DEF Unsettled, Reporting
  <2>3. /\ Unsettled' \subseteq Unsettled
        /\ \A u \in Unsettled \ Unsettled' : targetConnected[u] = currentConnected[u]
    <3>1. CASE pendingUpdates = {}
      BY <2>1, <2>2, <3>1 DEF updateLoop, Unsettled, Reporting
    <3>2. CASE pendingUpdates # {}
      <4>1. startReport(targetConnected, targetWorkerId, pendingUpdates)
        BY <2>1, <3>2 DEF updateLoop
      <4> QED BY <1>0, <2>1, <2>2, <4>1, LoopDrops DEF startReport
    <3> QED BY <3>1, <3>2
  <2>4. \A u \in Devices : apiConnected[u] = Shown(currentConnected[u])
    BY <2>1 DEF ShownInv, ShownIsCurrent
  <2> QED BY <1>0, <2>1, <2>3, <2>4, SettlingIsDone
<1>5. ASSUME NEW p \in inFlight, ApiProcesses(p)
      PROVE  Promise!Next
  <2>1. /\ inFlight' = (inFlight \ {p}) \cup {Processed(p)}
        /\ apiConnected' = [v \in Devices |-> IF v \in p.uuids THEN p.event
                                                              ELSE apiConnected[v]]
        /\ UNCHANGED <<targetConnected, pendingUpdates>>
    BY <1>5 DEF ApiProcesses, Process, deviceStates
  <2>2. Processed(p).uuids = p.uuids
    BY DEF Processed
  <2>3. Unsettled' = Unsettled
    <3>1. \A u : u \in Unsettled' <=> u \in Unsettled
      BY <2>1, <2>2 DEF Unsettled, Reporting
    <3> QED BY <3>1
  <2>4. p.uuids \in SUBSET Devices /\ p.uuids \subseteq Unsettled /\ p.event \in Event
    BY UnsettledIff DEF ShownInv, LoopInv, TypeOK, Post
  <2>5. Promise!Write(p.uuids, p.event)
    BY <2>1, <2>3, <2>4 DEF Promise!Write
  <2> QED BY <2>4, <2>5 DEF Promise!Next, Promise!State, Event
<1>6. ASSUME NEW p \in latePosts, ApiProcessesLate(p)
      PROVE  Promise!Next
  BY DEF ShownInv
<1>7. CASE UNCHANGED vars
  BY <1>7 DEF vars, deviceStates, loopState, external, Promise!vars, Unsettled,
              Reporting, Shown
<1> QED
  BY <1>1, <1>2, <1>3, <1>4, <1>5, <1>6, <1>7 DEF Next, Background

\* With an API that never processes a POST without acknowledging it, the
\* tracker of clients.ts implements the abstract Reporter.
THEOREM TrackerImplementsReporter ==
  ASSUME Faults \subseteq {"rejected"}
  PROVE  Spec => ImplementsReporter
<1>1. Init => Promise!Init
  BY DEF Init, Promise!Init, Shown, Unsettled, Reporting
<1>2. ShownInv /\ [Next]_vars => [Promise!Next]_(Promise!vars)
  BY StepIsReporterStep
<1>3. Init => ShownInv
  BY ShownInvInit
<1>4. ShownInv /\ [Next]_vars => ShownInv'
  BY ShownInvStep
<1> QED
  BY <1>1, <1>2, <1>3, <1>4, PTL DEF Spec, ImplementsReporter, Promise!Spec

=============================================================================
