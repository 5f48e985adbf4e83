--------------------------- MODULE VpnApi_proofs ---------------------------
(***************************************************************************)
(* Proofs about the client endpoints, for any finite sets of devices and   *)
(* sessions: whatever the order in which events arrive, and whichever of   *)
(* them are lost.                                                          *)
(***************************************************************************)
EXTENDS VpnApi, Clients_proofs, FiniteSetTheorems

\* The devices that the gauge is to count.
Online == {u \in Devices : targetConnected[u] = "connect"}

\* The inductive invariant: targets and gauge follow the counts.
CountInv ==
  /\ ApiTypeOK
  /\ LoopInv
  /\ TargetFollowsCount
  /\ GaugeCountsOnline

\* No device is connected, and both the gauge and every count are zero.
LEMMA CountInvInit == ApiInit => CountInv
<1> SUFFICES ASSUME ApiInit PROVE CountInv
  OBVIOUS
<1>1. LoopInv
  BY LoopInvInit DEF ApiInit
<1>2. ApiTypeOK
  BY <1>1 DEF LoopInv, ApiTypeOK, SessionsOK, ApiInit, Delivery
<1>3. TargetFollowsCount
  BY DEF TargetFollowsCount, ApiInit, Init
<1>4. Online = {}
  BY DEF Online, ApiInit, Init
<1>5. GaugeCountsOnline
  BY <1>4, FS_EmptySet DEF GaugeCountsOnline, Online, ApiInit
<1> QED BY <1>1, <1>2, <1>3, <1>5 DEF CountInv

\* No step of the loop, the network or the API changes a target.
LEMMA BackgroundKeepsTargets ==
  Background => UNCHANGED <<targetConnected, targetWorkerId>>
  BY DEF Background, ReportSucceeded, ReportFailed, LoopAgain, ApiProcesses,
         ApiProcessesLate, deviceStates

\* Every action of VpnApi is, for the tracker, a step of its specification.
LEMMA ApiStepIsClientsStep ==
  ASSUME TargetFollowsCount, [ApiNext]_apiVars
  PROVE  [Next]_vars
<1> USE VpnApiAssumption
<1>1. CASE Environment
  BY <1>1 DEF Environment, ClientConnects, ClientDisconnects, OpenvpnDies,
              ConnectEventLost, DisconnectEventLost
<1>2. ASSUME NEW s \in Sessions, ConnectDelivered(s)
      PROVE  [Next]_vars
  <2>1. /\ UuidOf[s] \in Devices /\ WorkerOf[s] \in Workers
        /\ postClients(UuidOf[s], WorkerOf[s])
    BY <1>2 DEF ConnectDelivered
  <2>2. CASE clientRefCount[UuidOf[s]] >= 0
    <3>1. SetConnected(UuidOf[s], WorkerOf[s], "connect")
      BY <2>1, <2>2 DEF postClients, SetConnected
    <3> QED BY <2>1, <3>1 DEF Next, Event
  <2>3. CASE ~(clientRefCount[UuidOf[s]] >= 0)
    BY <2>1, <2>3 DEF postClients
  <2> QED BY <2>2, <2>3
<1>3. ASSUME NEW s \in Sessions, DisconnectDelivered(s)
      PROVE  [Next]_vars
  <2>1. /\ UuidOf[s] \in Devices /\ WorkerOf[s] \in Workers
        /\ deleteClients(UuidOf[s], WorkerOf[s])
    BY <1>3 DEF DisconnectDelivered
  <2>2. CASE clientRefCount[UuidOf[s]] = 1
    <3>1. targetConnected[UuidOf[s]] = "connect"
      BY <2>1, <2>2 DEF TargetFollowsCount
    <3>2. SetConnected(UuidOf[s], WorkerOf[s], "disconnect")
      BY <2>1, <2>2, <3>1 DEF deleteClients, SetConnected
    <3> QED BY <2>1, <3>2 DEF Next, Event
  <2>3. CASE clientRefCount[UuidOf[s]] # 1
    BY <2>1, <2>3 DEF deleteClients
  <2> QED BY <2>2, <2>3
<1>4. CASE Background
  BY <1>4 DEF Next
<1>5. CASE UNCHANGED apiVars
  BY <1>5 DEF apiVars
<1> QED BY <1>1, <1>2, <1>3, <1>4, <1>5 DEF ApiNext

\* The count, the target and the gauge move together in the two handlers.
LEMMA HandlerKeepsCounts ==
  ASSUME CountInv, NEW u \in Devices, NEW w \in Workers,
         postClients(u, w) \/ deleteClients(u, w)
  PROVE  /\ clientRefCount' \in [Devices -> Int]
         /\ TargetFollowsCount'
         /\ GaugeCountsOnline'
<1> USE VpnApiAssumption
<1>1. /\ clientRefCount \in [Devices -> Int]
      /\ targetConnected \in [Devices -> Event \cup {"undefined"}]
      /\ onlineDevices = Cardinality(Online)
      /\ IsFiniteSet(Online)
  <2>1. IsFiniteSet(Online)
    BY FS_Subset DEF Online
  <2> QED BY <2>1 DEF CountInv, ApiTypeOK, TypeOK, GaugeCountsOnline, Online
<1>2. Cardinality(Online) \in Nat
  BY <1>1, FS_CardinalityType
<1>3. CASE /\ clientRefCount[u] = 0
           /\ postClients(u, w)
  <2>1. /\ clientRefCount' = [clientRefCount EXCEPT ![u] = 1]
        /\ onlineDevices' = onlineDevices + 1
        /\ targetConnected' = [targetConnected EXCEPT ![u] = "connect"]
    BY <1>1, <1>3 DEF postClients, setConnected
  <2>2. TargetFollowsCount'
    BY <1>1, <2>1 DEF CountInv, TargetFollowsCount
  <2>3. u \notin Online /\ Online' = Online \cup {u}
    BY <1>1, <1>3, <2>1 DEF CountInv, TargetFollowsCount, Online
  <2>4. Cardinality(Online') = Cardinality(Online) + 1
    BY <1>1, <2>3, FS_AddElement
  <2> QED BY <1>1, <1>2, <2>1, <2>2, <2>4 DEF GaugeCountsOnline, Online
<1>4. CASE /\ clientRefCount[u] = 1
           /\ deleteClients(u, w)
  <2>1. /\ clientRefCount' = [clientRefCount EXCEPT ![u] = 0]
        /\ onlineDevices' = onlineDevices - 1
        /\ targetConnected' = [targetConnected EXCEPT ![u] = "disconnect"]
    BY <1>1, <1>4 DEF deleteClients, setConnected
  <2>2. TargetFollowsCount'
    BY <1>1, <2>1 DEF CountInv, TargetFollowsCount
  <2>3. u \in Online /\ Online' = Online \ {u}
    BY <1>1, <1>4, <2>1 DEF CountInv, TargetFollowsCount, Online
  <2>4. Cardinality(Online') = Cardinality(Online) - 1
    BY <1>1, <2>3, FS_RemoveElement
  <2> QED BY <1>1, <1>2, <2>1, <2>2, <2>4 DEF GaugeCountsOnline, Online
<1>5. CASE \/ clientRefCount[u] # 0 /\ postClients(u, w)
           \/ clientRefCount[u] # 1 /\ deleteClients(u, w)
  <2>1. /\ clientRefCount' \in [Devices -> Int]
        /\ onlineDevices' = onlineDevices
        /\ \A v \in Devices : /\ clientRefCount'[v] >= 1 <=> clientRefCount[v] >= 1
                              /\ targetConnected'[v] = targetConnected[v]
    <3>1. CASE clientRefCount[u] # 0 /\ postClients(u, w)
      <4>1. /\ clientRefCount' = [clientRefCount EXCEPT ![u] = clientRefCount[u] + 1]
            /\ onlineDevices' = onlineDevices
        BY <3>1 DEF postClients
      <4>2. CASE clientRefCount[u] >= 0
        <5>1. targetConnected' = [targetConnected EXCEPT ![u] = "connect"]
          BY <3>1, <4>2 DEF postClients, setConnected
        <5>2. targetConnected[u] = "connect"
          BY <1>1, <3>1, <4>2 DEF CountInv, TargetFollowsCount
        <5> QED BY <1>1, <3>1, <4>1, <4>2, <5>1, <5>2
      <4>3. CASE ~(clientRefCount[u] >= 0)
        <5>1. UNCHANGED vars
          BY <3>1, <4>3 DEF postClients
        <5>2. targetConnected' = targetConnected
          BY <5>1 DEF vars, deviceStates
        <5> QED BY <1>1, <4>1, <4>3, <5>2
      <4> QED BY <4>2, <4>3
    <3>2. CASE clientRefCount[u] # 1 /\ deleteClients(u, w)
      <4>1. /\ clientRefCount' = [clientRefCount EXCEPT ![u] = clientRefCount[u] - 1]
            /\ onlineDevices' = onlineDevices
            /\ UNCHANGED vars
        BY <3>2 DEF deleteClients
      <4>2. targetConnected' = targetConnected
        BY <4>1 DEF vars, deviceStates
      <4> QED BY <1>1, <3>2, <4>1, <4>2
    <3> QED BY <1>5, <3>1, <3>2
  <2>2. Online' = Online
    BY <2>1 DEF Online
  <2>3. TargetFollowsCount'
    BY <2>1 DEF CountInv, TargetFollowsCount
  <2> QED BY <1>1, <1>2, <2>1, <2>2, <2>3 DEF GaugeCountsOnline, Online
<1> QED BY <1>3, <1>4, <1>5

\* Counts, targets and gauge agree after every action of the API.
LEMMA CountInvStep == CountInv /\ [ApiNext]_apiVars => CountInv'
<1> SUFFICES ASSUME CountInv, [ApiNext]_apiVars PROVE CountInv'
  OBVIOUS
<1> USE VpnApiAssumption
<1>1. LoopInv'
  BY ApiStepIsClientsStep, LoopInvStep DEF CountInv
<1>2. TypeOK'
  BY <1>1 DEF LoopInv
<1>3. SessionsOK'
  <2>1. CASE Environment
    <3>1. ASSUME NEW s \in Sessions, ClientConnects(s) PROVE SessionsOK'
      BY <3>1 DEF CountInv, ApiTypeOK, SessionsOK, ClientConnects, Delivery
    <3> QED
      BY <2>1, <3>1
      DEF CountInv, ApiTypeOK, SessionsOK, Environment, ClientDisconnects,
          OpenvpnDies, ConnectEventLost, DisconnectEventLost, Delivery
  <2>2. CASE \E s \in Sessions : ConnectDelivered(s)
    BY <2>2 DEF CountInv, ApiTypeOK, SessionsOK, ConnectDelivered, Delivery
  <2>3. CASE \E s \in Sessions : DisconnectDelivered(s)
    BY <2>3 DEF CountInv, ApiTypeOK, SessionsOK, DisconnectDelivered, Delivery
  <2>4. CASE UNCHANGED sessions
    BY <2>4 DEF CountInv, ApiTypeOK, SessionsOK, sessions
  <2> QED BY <2>1, <2>2, <2>3, <2>4 DEF ApiNext, apiVars
<1>4. /\ clientRefCount' \in [Devices -> Int]
      /\ TargetFollowsCount'
      /\ GaugeCountsOnline'
  <2>1. CASE \E s \in Sessions : ConnectDelivered(s) \/ DisconnectDelivered(s)
    <3>1. PICK s \in Sessions : ConnectDelivered(s) \/ DisconnectDelivered(s)
      BY <2>1
    <3>2. \/ postClients(UuidOf[s], WorkerOf[s])
          \/ deleteClients(UuidOf[s], WorkerOf[s])
      BY <3>1 DEF ConnectDelivered, DisconnectDelivered
    <3>3. UuidOf[s] \in Devices /\ WorkerOf[s] \in Workers
      OBVIOUS
    <3> QED BY <3>2, <3>3, HandlerKeepsCounts DEF postClients, deleteClients
  <2>2. CASE UNCHANGED <<targetConnected, clientRefCount, onlineDevices>>
    BY <2>2 DEF CountInv, ApiTypeOK, TargetFollowsCount, GaugeCountsOnline
  <2>3. CASE Environment
    <3>1. UNCHANGED vars /\ UNCHANGED apiState
      BY <2>3 DEF Environment, ClientConnects, ClientDisconnects, OpenvpnDies,
                  ConnectEventLost, DisconnectEventLost
    <3> QED BY <2>2, <3>1 DEF vars, deviceStates, apiState
  <2>4. CASE Background /\ UNCHANGED <<apiState, sessions>>
    BY <2>2, <2>4, BackgroundKeepsTargets DEF apiState
  <2>5. CASE UNCHANGED apiVars
    BY <2>2, <2>5 DEF apiVars, vars, deviceStates, apiState
  <2> QED BY <2>1, <2>3, <2>4, <2>5 DEF ApiNext
<1>5. onlineDevices' \in Nat
  <2>1. IsFiniteSet(Online')
    BY FS_Subset DEF Online
  <2> QED BY <1>4, <2>1, FS_CardinalityType DEF GaugeCountsOnline, Online
<1> QED BY <1>1, <1>2, <1>3, <1>4, <1>5 DEF CountInv, ApiTypeOK

\* The handlers keep the types, of the tracker's state too: counts may go below
\* zero, the gauge does not.
THEOREM ApiTypes == ApiSpec => []ApiTypeOK
<1>1. CountInv => ApiTypeOK
  BY DEF CountInv
<1> QED BY <1>1, CountInvInit, CountInvStep, PTL DEF ApiSpec

\* The target handed to setConnected is always that of the reference count.
THEOREM CountsAgree == ApiSpec => []TargetFollowsCount
<1>1. CountInv => TargetFollowsCount
  BY DEF CountInv
<1> QED BY <1>1, CountInvInit, CountInvStep, PTL DEF ApiSpec

\* The gauge OnlineDevices, moved on some paths of two handlers, is always the
\* number of devices whose target is connected.
THEOREM GaugeIsExact == ApiSpec => []GaugeCountsOnline
<1>1. CountInv => GaugeCountsOnline
  BY DEF CountInv
<1> QED BY <1>1, CountInvInit, CountInvStep, PTL DEF ApiSpec

\* api.ts calls setConnected only as the tracker's specification expects, so
\* that all that is proved of the tracker holds of it in this system.
THEOREM ApiImplementsClients == ApiSpec => ImplementsClients
<1>1. ApiInit => Init
  BY DEF ApiInit
<1>2. CountInv /\ [ApiNext]_apiVars => [Next]_vars
  BY ApiStepIsClientsStep DEF CountInv
<1> QED
  BY <1>1, <1>2, CountInvInit, CountInvStep, PTL DEF ApiSpec, ImplementsClients, Spec

-----------------------------------------------------------------------------
(***************************************************************************)
(* End to end.                                                             *)
(***************************************************************************)

\* The sessions of a device are finitely many, so that they can be counted.
LEMMA SessionSetsFinite ==
  \A u \in Devices : IsFiniteSet(Started(u)) /\ IsFiniteSet(Ended(u))
<1> TAKE u \in Devices
<1>1. Started(u) \in SUBSET Sessions /\ Ended(u) \in SUBSET Sessions
  BY DEF Started, Ended, SessionsOf
<1> QED BY <1>1, FS_Subset, VpnApiAssumption

\* No session has been announced or ended.
LEMMA BalanceInit == ApiInit => CountIsBalance
<1> SUFFICES ASSUME ApiInit PROVE CountIsBalance
  OBVIOUS
<1>1. \A u \in Devices : Started(u) = {} /\ Ended(u) = {}
  BY DEF ApiInit, Started, Ended, SessionsOf
<1> QED BY <1>1, FS_EmptySet DEF ApiInit, CountIsBalance

\* Steps that deliver no event.
LEMMA NoDeliveryKeepsBalance ==
  ASSUME CountIsBalance, clientRefCount' = clientRefCount,
         \A s \in Sessions :
           /\ session'[s] = "unused" => connectEvent'[s] = "none"
           /\ session'[s] # "ended" => disconnectEvent'[s] = "none"
           /\ connectEvent'[s] = "delivered" <=> connectEvent[s] = "delivered"
           /\ disconnectEvent'[s] = "delivered" <=> disconnectEvent[s] = "delivered"
  PROVE  CountIsBalance'
<1>1. \A u \in Devices : Started(u)' = Started(u) /\ Ended(u)' = Ended(u)
  BY DEF Started, Ended, SessionsOf
<1> QED BY <1>1 DEF CountIsBalance

\* Every action that moves a count moves the announced or the ended sessions.
LEMMA BalanceStep ==
  ASSUME CountInv, CountIsBalance, [ApiNext]_apiVars
  PROVE  CountIsBalance'
<1> USE VpnApiAssumption
<1>1. /\ session \in [Sessions -> {"unused", "live", "ended"}]
      /\ connectEvent \in [Sessions -> Delivery]
      /\ disconnectEvent \in [Sessions -> Delivery]
      /\ clientRefCount \in [Devices -> Int]
  BY DEF CountInv, ApiTypeOK, SessionsOK
<1>2. \A s \in Sessions : /\ session[s] = "unused" => connectEvent[s] = "none"
                          /\ session[s] # "ended" => disconnectEvent[s] = "none"
  BY DEF CountIsBalance
<1>3. \A u \in Devices : /\ Cardinality(Started(u)) \in Nat
                         /\ Cardinality(Ended(u)) \in Nat
  BY SessionSetsFinite, FS_CardinalityType
<1>4. CASE Environment
  <2>1. clientRefCount' = clientRefCount
    BY <1>4 DEF Environment, ClientConnects, ClientDisconnects, OpenvpnDies,
                ConnectEventLost, DisconnectEventLost, apiState
  <2> DEFINE Kept ==
        \A s \in Sessions :
           /\ session'[s] = "unused" => connectEvent'[s] = "none"
           /\ session'[s] # "ended" => disconnectEvent'[s] = "none"
           /\ connectEvent'[s] = "delivered" <=> connectEvent[s] = "delivered"
           /\ disconnectEvent'[s] = "delivered" <=> disconnectEvent[s] = "delivered"
  <2>2. Kept
    <3>1. ASSUME NEW t \in Sessions, ClientConnects(t) PROVE Kept
      BY <1>1, <1>2, <3>1 DEF ClientConnects
    <3>2. ASSUME NEW t \in Sessions, ClientDisconnects(t) PROVE Kept
      BY <1>1, <1>2, <3>2 DEF ClientDisconnects
    <3>3. ASSUME NEW w \in Workers, OpenvpnDies(w) PROVE Kept
      BY <1>1, <1>2, <3>3 DEF OpenvpnDies
    <3>4. ASSUME NEW t \in Sessions, ConnectEventLost(t) PROVE Kept
      BY <1>1, <1>2, <3>4 DEF ConnectEventLost
    <3>5. ASSUME NEW t \in Sessions, DisconnectEventLost(t) PROVE Kept
      BY <1>1, <1>2, <3>5 DEF DisconnectEventLost
    <3> QED BY <1>4, <3>1, <3>2, <3>3, <3>4, <3>5 DEF Environment
  <2> QED BY <2>1, <2>2, NoDeliveryKeepsBalance
<1>5. ASSUME NEW s \in Sessions, ConnectDelivered(s)
      PROVE  CountIsBalance'
  <2> DEFINE u == UuidOf[s]
  <2>1. /\ u \in Devices
        /\ clientRefCount' = [clientRefCount EXCEPT ![u] = clientRefCount[u] + 1]
        /\ connectEvent[s] = "sent"
        /\ connectEvent' = [connectEvent EXCEPT ![s] = "delivered"]
        /\ UNCHANGED <<session, disconnectEvent>>
    BY <1>5 DEF ConnectDelivered, postClients
  <2>2. s \notin Started(u) /\ Started(u)' = Started(u) \cup {s}
    BY <1>1, <2>1 DEF Started, SessionsOf
  <2>3. Cardinality(Started(u)') = Cardinality(Started(u)) + 1
    BY <2>1, <2>2, SessionSetsFinite, FS_AddElement
  <2>4. \A v \in Devices : /\ Ended(v)' = Ended(v)
                           /\ v # u => Started(v)' = Started(v)
    BY <1>1, <2>1 DEF Started, Ended, SessionsOf
  <2>5. ASSUME NEW v \in Devices
        PROVE  clientRefCount'[v] = Cardinality(Started(v)') - Cardinality(Ended(v)')
    <3> HIDE DEF u
    <3>1. clientRefCount[v] = Cardinality(Started(v)) - Cardinality(Ended(v))
      BY DEF CountIsBalance
    <3>2. CASE v = u
      BY <1>1, <1>3, <2>1, <2>3, <2>4, <3>1, <3>2
    <3>3. CASE v # u
      BY <1>1, <1>3, <2>1, <2>4, <3>1, <3>3
    <3> QED BY <3>2, <3>3
  <2>6. \A t \in Sessions : /\ session'[t] = "unused" => connectEvent'[t] = "none"
                            /\ session'[t] # "ended" => disconnectEvent'[t] = "none"
    BY <1>1, <1>2, <2>1
  <2> QED BY <2>5, <2>6 DEF CountIsBalance
<1>6. ASSUME NEW s \in Sessions, DisconnectDelivered(s)
      PROVE  CountIsBalance'
  <2> DEFINE u == UuidOf[s]
  <2>1. /\ u \in Devices
        /\ clientRefCount' = [clientRefCount EXCEPT ![u] = clientRefCount[u] - 1]
        /\ disconnectEvent[s] = "sent"
        /\ disconnectEvent' = [disconnectEvent EXCEPT ![s] = "delivered"]
        /\ UNCHANGED <<session, connectEvent>>
    BY <1>6 DEF DisconnectDelivered, deleteClients
  <2>2. s \notin Ended(u) /\ Ended(u)' = Ended(u) \cup {s}
    BY <1>1, <2>1 DEF Ended, SessionsOf
  <2>3. Cardinality(Ended(u)') = Cardinality(Ended(u)) + 1
    BY <2>1, <2>2, SessionSetsFinite, FS_AddElement
  <2>4. \A v \in Devices : /\ Started(v)' = Started(v)
                           /\ v # u => Ended(v)' = Ended(v)
    BY <1>1, <2>1 DEF Started, Ended, SessionsOf
  <2>5. ASSUME NEW v \in Devices
        PROVE  clientRefCount'[v] = Cardinality(Started(v)') - Cardinality(Ended(v)')
    <3> HIDE DEF u
    <3>1. clientRefCount[v] = Cardinality(Started(v)) - Cardinality(Ended(v))
      BY DEF CountIsBalance
    <3>2. CASE v = u
      BY <1>1, <1>3, <2>1, <2>3, <2>4, <3>1, <3>2
    <3>3. CASE v # u
      BY <1>1, <1>3, <2>1, <2>4, <3>1, <3>3
    <3> QED BY <3>2, <3>3
  <2>6. \A t \in Sessions : /\ session'[t] = "unused" => connectEvent'[t] = "none"
                            /\ session'[t] # "ended" => disconnectEvent'[t] = "none"
    BY <1>1, <1>2, <2>1
  <2> QED BY <2>5, <2>6 DEF CountIsBalance
<1>7. CASE UNCHANGED <<apiState, sessions>>
  <2>1. UNCHANGED <<clientRefCount, session, connectEvent, disconnectEvent>>
    BY <1>7 DEF apiState, sessions
  <2> QED BY <1>2, <2>1, NoDeliveryKeepsBalance
<1> QED BY <1>4, <1>5, <1>6, <1>7 DEF ApiNext, apiVars

\* When all has been told, the count of a device is the number of its live
\* sessions: it is positive if and only if there is one.
LEMMA CountOfTold ==
  ASSUME CountInv, CountIsBalance, NEW u \in Devices, AllTold(u)
  PROVE  clientRefCount[u] >= 1 <=> Live(u)
<1> DEFINE L == Started(u) \ Ended(u)
<1>1. SessionsOK
  BY DEF CountInv, ApiTypeOK
<1>2. Ended(u) \subseteq Started(u)
  BY <1>1 DEF CountIsBalance, AllTold, Started, Ended, SessionsOf, SessionsOK
<1>3. \A s : s \in L <=> s \in SessionsOf(u) /\ session[s] = "live"
  BY <1>1 DEF CountIsBalance, AllTold, Started, Ended, SessionsOf, SessionsOK
<1>4. Live(u) <=> L # {}
  BY <1>3 DEF Live
<1>5. /\ IsFiniteSet(L)
      /\ Cardinality(L) = Cardinality(Started(u)) - Cardinality(Started(u) \cap Ended(u))
  BY SessionSetsFinite, FS_Difference
<1>6. Started(u) \cap Ended(u) = Ended(u)
  BY <1>2
<1>7. clientRefCount[u] = Cardinality(L)
  BY <1>5, <1>6 DEF CountIsBalance
<1>8. Cardinality(L) \in Nat /\ (Cardinality(L) = 0 <=> L = {})
  BY <1>5, FS_CardinalityType, FS_EmptySet
<1> QED BY <1>4, <1>7, <1>8

\* Whatever the order in which events arrive and whatever POSTs are refused:
\* when all events of a device have been delivered and the tracker is done with
\* it, the API shows it online if and only if it has a live session.
THEOREM ShownOnlineIffLive ==
  ASSUME Faults \subseteq {"rejected"}
  PROVE  ApiSpec => []ShownIffLive
<1> DEFINE I == CountInv /\ CountIsBalance /\ ShownInv
<1>1. ApiInit => I
  BY CountInvInit, BalanceInit, ShownInvInit DEF ApiInit
<1>2. I /\ [ApiNext]_apiVars => I'
  BY CountInvStep, BalanceStep, ApiStepIsClientsStep, ShownInvStep DEF CountInv
<1>3. I => ShownIffLive
  <2> SUFFICES ASSUME I, NEW u \in Devices, u \notin Unsettled, AllTold(u)
               PROVE  apiConnected[u] = "connect" <=> Live(u)
    BY DEF ShownIffLive
  <2>1. apiConnected[u] = Shown(targetConnected[u])
    BY ShownInvSettled DEF SettledMeansShown
  <2>2. targetConnected[u] = "connect" <=> clientRefCount[u] >= 1
    BY DEF CountInv, TargetFollowsCount
  <2> QED BY <2>1, <2>2, CountOfTold DEF Shown
<1> QED BY <1>1, <1>2, <1>3, PTL DEF ApiSpec

=============================================================================
