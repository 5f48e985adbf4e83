---------------------------- MODULE Tunnel_proofs ----------------------------
(***************************************************************************)
(* Proofs about the connect proxy, for any instances and requests, any     *)
(* number of moves of the device and everything that may fail.             *)
(***************************************************************************)
EXTENDS Tunnel, SequenceTheorems, FiniteSetTheorems, TLAPS

\* What TunnelInv says of a single hop.
Sound(h) ==
  /\ h.answers = IF h.stage \in Over THEN 1 ELSE 0
  /\ h.status = 200 <=> h.stage \in {"open", "closed"}
  /\ h.fault = "none" /\ h.stage \notin Over =>
       /\ home = h.at /\ apiHost = h.at
       /\ h.stage = "retry" => h.at \in statusFile
  /\ h.stage = "refused" /\ h.fault = "none" => h.status = 407

\* TunnelInv with the conjuncts about single hops put together.
HopsInv ==
  /\ TypeOK
  /\ \A r \in Requests : \A k \in DOMAIN hops[r] : Sound(hops[r][k])
  /\ TunnelReachesDevice
  /\ TunnelCountedOnce
  /\ ApiTrails
  /\ LastHopIsHost

\* The two are the same, before and after a step.
LEMMA InvIsHopsInv ==
  (TunnelInv <=> HopsInv) /\ (TunnelInv' <=> HopsInv')
<1> USE DEF TunnelInv, HopsInv, Sound, AnsweredOnce, StatusTellsTunnel,
            FaultlessIsHome, ConnectedDeviceIsFound
<1>1. TunnelInv <=> HopsInv
  OBVIOUS
<1>2. TunnelInv' <=> HopsInv'
  OBVIOUS
<1> QED BY <1>1, <1>2

\* The domain of a request's hops, and that they are hops.
LEMMA HopsTyped ==
  ASSUME TypeOK, NEW r \in Requests
  PROVE  /\ hops[r] \in Seq(Hop)
         /\ Len(hops[r]) \in Nat
         /\ DOMAIN hops[r] = 1 .. Len(hops[r])
         /\ \A k \in DOMAIN hops[r] : hops[r][k] \in Hop
         /\ hops[r] # <<>> => Len(hops[r]) \in DOMAIN hops[r]
<1>1. hops[r] \in Seq(Hop)
  BY DEF TypeOK
<1>2. /\ Len(hops[r]) \in Nat
      /\ DOMAIN hops[r] = 1 .. Len(hops[r])
      /\ \A k \in DOMAIN hops[r] : hops[r][k] \in Hop
  BY <1>1, LenProperties, ElementOfSeq
<1>3. hops[r] # <<>> => Len(hops[r]) \in Nat \ {0}
  BY <1>1, EmptySeq
<1> QED BY <1>1, <1>2, <1>3

\* What replacing one hop does.
LEMMA HopSet ==
  ASSUME TypeOK, NEW r \in Requests, NEW k \in DOMAIN hops[r], NEW h \in Hop,
         Set(r, k, h)
  PROVE  /\ hops' \in [Requests -> Seq(Hop)]
         /\ \A q \in Requests : /\ Len(hops'[q]) = Len(hops[q])
                                /\ DOMAIN hops'[q] = DOMAIN hops[q]
         /\ \A q \in Requests : \A j \in DOMAIN hops[q] :
              hops'[q][j] = IF q = r /\ j = k THEN h ELSE hops[q][j]
<1> DEFINE s == [hops[r] EXCEPT ![k] = h]
<1>1. hops' = [hops EXCEPT ![r] = s]
  BY DEF Set
<1>2. /\ s \in Seq(Hop) /\ Len(s) = Len(hops[r]) /\ DOMAIN s = DOMAIN hops[r]
      /\ \A j \in DOMAIN hops[r] : s[j] = IF j = k THEN h ELSE hops[r][j]
  BY HopsTyped, ExceptSeq
<1> HIDE DEF s
<1> QED BY <1>1, <1>2 DEF TypeOK

-----------------------------------------------------------------------------
\* The sets of open tunnels are finite.
LEMMA OpenFinite ==
  \A i : IsFiniteSet(OpenAt(i)) /\ Cardinality(OpenAt(i)) \in Nat
  BY TunnelAssumption, FS_Subset, FS_CardinalityType DEF OpenAt

\* The steps that are about one hop that is not over: it becomes h, and the
\* gauge goes up if this opens a tunnel to a local device.
LEMMA HopStep ==
  ASSUME TunnelInv, NEW r \in Requests, NEW k \in DOMAIN hops[r],
         hops[r][k].stage \notin Over,
         NEW h \in Hop, Set(r, k, h), Sound(h), h.at = hops[r][k].at,
         k < Len(hops[r]) /\ h.status = 200 => hops[r][k + 1].status = 200,
         IF k = Len(hops[r]) /\ h.stage = "open"
           THEN activeTunnels' = [activeTunnels EXCEPT ![h.at] = @ + 1]
           ELSE activeTunnels' = activeTunnels,
         cachedAccess' \in [Instances -> {"none", "yes", "no"}],
         UNCHANGED <<statusFile, device>>
  PROVE  TunnelInv'
<1>1. /\ TypeOK
      /\ \A q \in Requests : \A j \in DOMAIN hops[q] : Sound(hops[q][j])
      /\ TunnelReachesDevice /\ TunnelCountedOnce /\ ApiTrails /\ LastHopIsHost
  BY InvIsHopsInv DEF HopsInv
<1>2. /\ hops' \in [Requests -> Seq(Hop)]
      /\ \A q \in Requests : /\ Len(hops'[q]) = Len(hops[q])
                             /\ DOMAIN hops'[q] = DOMAIN hops[q]
      /\ \A q \in Requests : \A j \in DOMAIN hops[q] :
           hops'[q][j] = IF q = r /\ j = k THEN h ELSE hops[q][j]
  BY <1>1, HopSet
<1>3. \A q \in Requests : /\ Len(hops[q]) \in Nat
                          /\ DOMAIN hops[q] = 1 .. Len(hops[q])
                          /\ \A j \in DOMAIN hops[q] : hops[q][j] \in Hop
                          /\ hops[q] # <<>> => Len(hops[q]) \in DOMAIN hops[q]
                          /\ hops[q] = <<>> <=> Len(hops[q]) = 0
                          /\ hops'[q] = <<>> <=> Len(hops[q]) = 0
  BY <1>1, <1>2, HopsTyped, EmptySeq DEF TypeOK
<1>4. h.at \in Instances /\ activeTunnels' \in [Instances -> Nat]
  <2>1. h.at \in Instances /\ activeTunnels \in [Instances -> Nat]
    BY <1>1 DEF TypeOK, Hop
  <2>2. CASE activeTunnels' = activeTunnels
    BY <2>1, <2>2
  <2>3. CASE activeTunnels' = [activeTunnels EXCEPT ![h.at] = @ + 1]
    BY <2>1, <2>3
  <2> QED BY <2>1, <2>2, <2>3
<1>5. TypeOK'
  BY <1>1, <1>2, <1>4 DEF TypeOK, device
<1>6. (\A q \in Requests : \A j \in DOMAIN hops[q] : Sound(hops[q][j]))'
  <2>1. \A g : Sound(g)' <=> Sound(g)
    BY DEF Sound, device
  <2>2. \A q \in Requests : \A j \in DOMAIN hops[q] : Sound(hops'[q][j])
    BY <1>1, <1>2
  <2> QED BY <1>2, <2>1, <2>2 DEF Sound, device
<1>7. TunnelReachesDevice'
  <2> SUFFICES ASSUME NEW q \in Requests, NEW i \in DOMAIN hops'[q],
                      hops'[q][i].status = 200,
                      NEW j \in i .. Len(hops'[q])
               PROVE  hops'[q][j].status = 200
    BY DEF TunnelReachesDevice
  <2>1. i \in DOMAIN hops[q] /\ j \in i .. Len(hops[q]) /\ j \in DOMAIN hops[q]
    BY <1>2, <1>3
  <2>2. hops[r][k].status # 200
    BY <1>1 DEF Sound, Over
  <2>3. CASE q # r
    BY <1>1, <1>2, <2>1, <2>3 DEF TunnelReachesDevice
  <2>4. CASE q = r /\ i = k
    <3>1. CASE j = k
      BY <1>2, <2>1, <2>4, <3>1
    <3>2. CASE j # k
      <4>1. k + 1 \in DOMAIN hops[r] /\ j \in k + 1 .. Len(hops[r]) /\ h.status = 200
        BY <1>2, <1>3, <2>1, <2>4, <3>2
      <4> QED BY <1>1, <1>2, <1>3, <2>1, <2>4, <3>2, <4>1 DEF TunnelReachesDevice
    <3> QED BY <3>1, <3>2
  <2>5. CASE q = r /\ i # k
    <3>1. hops[q][i].status = 200 /\ hops[q][j].status = 200
      BY <1>1, <1>2, <2>1, <2>5 DEF TunnelReachesDevice
    <3> QED BY <1>2, <2>1, <2>2, <2>5, <3>1
  <2> QED BY <2>3, <2>4, <2>5
<1>8. TunnelCountedOnce'
  <2> SUFFICES ASSUME NEW i \in Instances
               PROVE  activeTunnels'[i] = Cardinality(OpenAt(i)')
    BY DEF TunnelCountedOnce
  <2> DEFINE S == OpenAt(i)
             T == OpenAt(i)'
  <2>1. /\ S \subseteq Requests /\ T \subseteq Requests
        /\ \A q \in Requests :
             q \in T <=> IF q = r /\ k = Len(hops[r])
                           THEN h.stage = "open" /\ h.at = i ELSE q \in S
    BY <1>2, <1>3 DEF OpenAt, In, Last
  <2>2. k = Len(hops[r]) => r \notin S
    BY DEF OpenAt, In, Last, Over
  <2>3. activeTunnels \in [Instances -> Nat] /\ activeTunnels[i] = Cardinality(S)
    BY <1>1 DEF TunnelCountedOnce, TypeOK
  <2>4. IsFiniteSet(S)
    BY OpenFinite
  <2> HIDE DEF S, T
  <2>5. CASE k = Len(hops[r]) /\ h.stage = "open" /\ h.at = i
    <3>1. T = S \cup {r}
      BY <2>1, <2>5
    <3>2. Cardinality(T) = Cardinality(S) + 1
      BY <2>2, <2>4, <2>5, <3>1, FS_AddElement
    <3> QED BY <1>4, <2>3, <2>5, <3>2 DEF T
  <2>6. CASE ~(k = Len(hops[r]) /\ h.stage = "open" /\ h.at = i)
    <3>1. T = S
      <4>1. \A q \in Requests : q \in T <=> q \in S
        BY <2>1, <2>2, <2>6
      <4> QED BY <2>1, <4>1
    <3>2. activeTunnels'[i] = activeTunnels[i]
      BY <1>4, <2>3, <2>6
    <3> QED BY <2>3, <3>1, <3>2 DEF T
  <2> QED BY <2>5, <2>6
<1>9. ApiTrails' /\ LastHopIsHost'
  BY <1>1, <1>2, <1>3 DEF ApiTrails, LastHopIsHost, Last, device, TypeOK
<1> QED BY <1>5, <1>6, <1>7, <1>8, <1>9, InvIsHopsInv DEF HopsInv

-----------------------------------------------------------------------------
(***************************************************************************)
(* The ways a hop goes on.                                                 *)
(***************************************************************************)

\* What is known of the hop that is being worked on.
LEMMA LastHop ==
  ASSUME TunnelInv, NEW r \in Requests, NEW stage, In(r, stage)
  PROVE  /\ Len(hops[r]) \in Nat \ {0}
         /\ Len(hops[r]) \in DOMAIN hops[r]
         /\ Last(r) = hops[r][Len(hops[r])]
         /\ Last(r) \in Hop /\ Last(r).at \in Instances
         /\ Last(r).stage = stage
         /\ Sound(Last(r))
<1>1. TypeOK /\ hops[r] # <<>> /\ Last(r).stage = stage
  BY DEF TunnelInv, In
<1>2. /\ Len(hops[r]) \in Nat /\ DOMAIN hops[r] = 1 .. Len(hops[r])
      /\ Len(hops[r]) \in DOMAIN hops[r] /\ hops[r][Len(hops[r])] \in Hop
  BY <1>1, HopsTyped
<1>3. Sound(hops[r][Len(hops[r])])
  BY <1>2, InvIsHopsInv DEF HopsInv
<1> QED BY <1>1, <1>2, <1>3 DEF Last, Hop

\* A hop with another stage is a hop.
LEMMA Restaged ==
  ASSUME NEW h \in Hop, NEW stage \in Stage
  PROVE  LET g == [h EXCEPT !.stage = stage]
         IN  /\ g \in Hop /\ g.stage = stage /\ g.at = h.at
             /\ g.forwarded = h.forwarded /\ g.answers = h.answers
             /\ g.status = h.status /\ g.fault = h.fault
  BY DEF Hop

\* The handler goes on to a lookup or to wait.
LEMMA GoOnStep ==
  ASSUME TunnelInv, NEW r \in Requests, NEW from, In(r, from), from \notin Over,
         NEW to \in Stage \ (Over \cup {"retry"}), GoOn(r, to),
         cachedAccess' \in [Instances -> {"none", "yes", "no"}],
         UNCHANGED <<activeTunnels, statusFile, device>>
  PROVE  TunnelInv'
<1> DEFINE g == [Last(r) EXCEPT !.stage = to]
<1>1. /\ Len(hops[r]) \in Nat \ {0} /\ Len(hops[r]) \in DOMAIN hops[r]
      /\ Last(r) = hops[r][Len(hops[r])]
      /\ Last(r) \in Hop /\ Last(r).stage = from /\ Sound(Last(r))
  BY LastHop
<1>2. /\ g \in Hop /\ g.stage = to /\ g.at = Last(r).at
      /\ g.answers = Last(r).answers /\ g.status = Last(r).status
      /\ g.fault = Last(r).fault
  BY <1>1, Restaged
<1>3. Set(r, Len(hops[r]), g)
  BY DEF GoOn
<1> HIDE DEF g
<1>4. Sound(g)
  BY <1>1, <1>2 DEF Sound, Over
<1>5. g.stage # "open"
  BY <1>2 DEF Over
<1> QED BY <1>1, <1>2, <1>3, <1>4, <1>5, HopStep

\* The client gets an error, for which there is a reason if nothing has
\* disturbed the request.
LEMMA RefuseStep ==
  ASSUME TunnelInv, NEW r \in Requests, NEW from, In(r, from), from \notin Over,
         NEW status \in {407, 500, 503}, NEW fault \in {"none", "outside"},
         Last(r).fault = "none" /\ fault = "none" => status = 407,
         Set(r, Len(hops[r]), Refused(Last(r), status, 1, fault)),
         cachedAccess' \in [Instances -> {"none", "yes", "no"}],
         UNCHANGED <<activeTunnels, statusFile, device>>
  PROVE  TunnelInv'
<1> DEFINE g == Refused(Last(r), status, 1, fault)
<1>1. /\ Len(hops[r]) \in Nat \ {0} /\ Len(hops[r]) \in DOMAIN hops[r]
      /\ Last(r) = hops[r][Len(hops[r])]
      /\ Last(r) \in Hop /\ Last(r).stage = from /\ Sound(Last(r))
  BY LastHop
<1>2. /\ g \in Hop /\ g.stage = "refused" /\ g.at = Last(r).at
      /\ g.answers = Last(r).answers + 1 /\ g.status = status
      /\ g.fault = "none" <=> Last(r).fault = "none" /\ fault = "none"
  BY <1>1 DEF Refused, Hop, Stage
<1> HIDE DEF g
<1>3. Sound(g)
  BY <1>1, <1>2 DEF Sound, Over
<1> QED BY <1>1, <1>2, <1>3, HopStep DEF g

-----------------------------------------------------------------------------
(***************************************************************************)
(* The handlers.                                                           *)
(***************************************************************************)
\* tunnelToDevice has asked canAccessDevice.
LEMMA AccessStep ==
  ASSUME TunnelInv, NEW r \in Requests, canAccessDevice(r)
  PROVE  TunnelInv'
<1>1. PICK answer \in {"yes", "no"} :
        /\ cachedAccess' = [cachedAccess EXCEPT ![Last(r).at] = answer]
        /\ IF answer = "yes"
             THEN GoOn(r, "online")
             ELSE Set(r, Len(hops[r]), Refused(Last(r), 407, 1, "none"))
  BY DEF canAccessDevice
<1>2. /\ In(r, "access") /\ "access" \notin Over
      /\ UNCHANGED <<activeTunnels, statusFile, device>>
  BY DEF canAccessDevice, Over
<1>3. cachedAccess' \in [Instances -> {"none", "yes", "no"}]
  BY <1>1 DEF TunnelInv, TypeOK
<1>4. CASE GoOn(r, "online")
  <2>1. "online" \in Stage \ (Over \cup {"retry"})
    BY DEF Stage, Over
  <2> QED BY <1>2, <1>3, <1>4, <2>1, GoOnStep
<1>5. CASE Set(r, Len(hops[r]), Refused(Last(r), 407, 1, "none"))
  BY <1>2, <1>3, <1>5, RefuseStep
<1> QED BY <1>1, <1>4, <1>5

\* A hop that is worked on and has no fault is where device and API are.
LEMMA FaultlessHop ==
  ASSUME TunnelInv, NEW r \in Requests, NEW from, In(r, from), from \notin Over,
         Last(r).fault = "none"
  PROVE  /\ home = Last(r).at /\ apiHost = Last(r).at /\ apiHost \in Instances
         /\ from = "retry" => Last(r).at \in statusFile
  BY LastHop DEF Sound

\* tunnelToDevice has asked isDeviceConnectedToVpn.
LEMMA OnlineStep ==
  ASSUME TunnelInv, NEW r \in Requests, isDeviceConnectedToVpn(r)
  PROVE  TunnelInv'
<1>1. /\ In(r, "online") /\ "online" \notin Over
      /\ UNCHANGED <<activeTunnels, statusFile, device>>
      /\ cachedAccess' = cachedAccess
  BY DEF isDeviceConnectedToVpn, Over
<1>2. cachedAccess' \in [Instances -> {"none", "yes", "no"}]
  BY <1>1 DEF TunnelInv, TypeOK
<1>3. CASE GoOn(r, "local")
  <2>1. "local" \in Stage \ (Over \cup {"retry"})
    BY DEF Stage, Over
  <2> QED BY <1>1, <1>2, <1>3, <2>1, GoOnStep
<1>4. CASE apiHost = None /\ Set(r, Len(hops[r]), Refused(Last(r), 503, 1, "none"))
  <2>1. Last(r).fault # "none"
    BY <1>1, <1>4, FaultlessHop, TunnelAssumption
  <2> QED BY <1>1, <1>2, <1>4, <2>1, RefuseStep
<1>5. CASE Set(r, Len(hops[r]), Refused(Last(r), 500, 1, "outside"))
  BY <1>1, <1>2, <1>5, RefuseStep
<1> QED BY <1>3, <1>4, <1>5 DEF isDeviceConnectedToVpn

\* Both attempts to connect.
LEMMA LocalConnectStep ==
  ASSUME TunnelInv, NEW r \in Requests, NEW from, In(r, from), from \notin Over,
         localConnect(r), UNCHANGED <<cachedAccess, statusFile, device>>
  PROVE  TunnelInv'
<1> DEFINE h == Last(r)
           g == Accepted(h, "open")
<1>1. /\ Len(hops[r]) \in Nat \ {0} /\ Len(hops[r]) \in DOMAIN hops[r]
      /\ h = hops[r][Len(hops[r])] /\ h \in Hop /\ h.stage = from /\ Sound(h)
  BY LastHop
<1>2. cachedAccess' \in [Instances -> {"none", "yes", "no"}]
  BY DEF TunnelInv, TypeOK
<1> HIDE DEF h
<1>3. CASE /\ Set(r, Len(hops[r]), g)
           /\ activeTunnels' = [activeTunnels EXCEPT ![h.at] = @ + 1]
  <2>1. /\ g \in Hop /\ g.stage = "open" /\ g.at = h.at
        /\ g.answers = h.answers + 1 /\ g.status = 200
    BY <1>1 DEF Accepted, Hop, Stage
  <2> HIDE DEF g
  <2>2. Sound(g)
    BY <1>1, <2>1 DEF Sound, Over
  <2>3. activeTunnels' = [activeTunnels EXCEPT ![g.at] = @ + 1]
    BY <1>3, <2>1
  <2>4. UNCHANGED <<statusFile, device>> /\ ~(Len(hops[r]) < Len(hops[r]))
    BY <1>1
  <2> QED BY <1>1, <1>2, <1>3, <2>1, <2>2, <2>3, <2>4, HopStep
<1>4. CASE /\ ConnectThrows(r, "Other", 0, "outside")
           /\ UNCHANGED activeTunnels
  <2>1. Set(r, Len(hops[r]), Refused(Last(r), 500, 1, "outside"))
    BY <1>4 DEF ConnectThrows, CaughtAnswers
  <2> QED BY <1>2, <1>4, <2>1, RefuseStep
<1> QED BY <1>3, <1>4 DEF localConnect, h

\* The first attempt of connect: the device is local, or the API is asked.
LEMMA ConnectStep ==
  ASSUME TunnelInv, NEW r \in Requests, Connect(r)
  PROVE  TunnelInv'
<1>1. In(r, "local") /\ "local" \notin Over
  BY DEF Connect, Over
<1>2. UNCHANGED <<cachedAccess, statusFile, device>>
  BY DEF Connect
<1>3. CASE localConnect(r)
  BY <1>1, <1>2, <1>3, LocalConnectStep
<1>4. CASE GoOn(r, "host") /\ UNCHANGED activeTunnels
  <2>1. "host" \in Stage \ (Over \cup {"retry"})
    BY DEF Stage, Over
  <2>2. cachedAccess' \in [Instances -> {"none", "yes", "no"}]
    BY <1>2 DEF TunnelInv, TypeOK
  <2> QED BY <1>1, <1>2, <1>4, <2>1, <2>2, GoOnStep
<1> QED BY <1>3, <1>4 DEF Connect

\* The second attempt of connect, after the delay.
LEMMA RetryStep ==
  ASSUME TunnelInv, NEW r \in Requests, Retry(r)
  PROVE  TunnelInv'
<1>1. In(r, "retry") /\ "retry" \notin Over
  BY DEF Retry, Over
<1>2. UNCHANGED <<cachedAccess, statusFile, device>>
  BY DEF Retry
<1>3. CASE localConnect(r)
  BY <1>1, <1>2, <1>3, LocalConnectStep
<1>4. CASE /\ ~deviceIsLocal(r) /\ UNCHANGED activeTunnels
           /\ ConnectThrows(r, "Handled", 1, "none")
  <2>1. Last(r).fault # "none"
    BY <1>1, <1>4, FaultlessHop DEF deviceIsLocal
  <2>2. cachedAccess' \in [Instances -> {"none", "yes", "no"}]
    BY <1>2 DEF TunnelInv, TypeOK
  <2>3. Set(r, Len(hops[r]), Refused(Last(r), 500, 1, "none"))
    BY <1>4 DEF ConnectThrows, CaughtAnswers
  <2> QED BY <1>1, <1>2, <1>4, <2>1, <2>2, <2>3, RefuseStep
<1> QED BY <1>3, <1>4 DEF Retry

\* A request is forwarded to the instance that the API has named.
LEMMA ForwardStep ==
  ASSUME TunnelInv, NEW r \in Requests, In(r, "host"),
         apiHost \in Instances, apiHost # Last(r).at,
         NEW g \in Hop, g.at = Last(r).at, g.stage = "forward",
         g.answers = Last(r).answers, g.status = Last(r).status,
         g.fault = Last(r).fault,
         hops' = [hops EXCEPT ![r] =
                    Append([@ EXCEPT ![Len(@)] = g], NewHop(apiHost, {}))],
         UNCHANGED <<cachedAccess, activeTunnels, statusFile, device>>
  PROVE  TunnelInv'
<1> DEFINE n == Len(hops[r])
           f == NewHop(apiHost, {})
           s == [hops[r] EXCEPT ![n] = g]
           t == Append(s, f)
<1>1. /\ TypeOK
      /\ \A q \in Requests : \A j \in DOMAIN hops[q] : Sound(hops[q][j])
      /\ TunnelReachesDevice /\ TunnelCountedOnce /\ ApiTrails /\ LastHopIsHost
  BY InvIsHopsInv DEF HopsInv
<1>2. /\ n \in Nat \ {0} /\ n \in DOMAIN hops[r] /\ Last(r) = hops[r][n]
      /\ Last(r) \in Hop /\ Last(r).stage = "host" /\ Sound(Last(r))
  BY LastHop
<1>3. /\ f \in Hop /\ f.at = apiHost /\ f.stage = "access" /\ f.status = 0
      /\ f.answers = 0
      /\ f.fault = "none" => home = apiHost
  BY DEF NewHop, Hop, Stage
<1>4. /\ s \in Seq(Hop) /\ Len(s) = n
      /\ \A j \in 1 .. n : s[j] = IF j = n THEN g ELSE hops[r][j]
  BY <1>1, <1>2, HopsTyped, ExceptSeq
<1>5. hops' = [hops EXCEPT ![r] = t]
  OBVIOUS
<1> HIDE DEF f, s
<1>6. /\ t \in Seq(Hop) /\ Len(t) = n + 1 /\ t # <<>>
      /\ \A j \in 1 .. n : t[j] = s[j]
      /\ t[n + 1] = f
  BY <1>3, <1>4, AppendProperties
<1> HIDE DEF t, n
<1>7. /\ hops' \in [Requests -> Seq(Hop)] /\ hops'[r] = t
      /\ \A q \in Requests : q # r => hops'[q] = hops[q]
  BY <1>1, <1>5, <1>6 DEF TypeOK
<1>8. DOMAIN t = 1 .. n + 1 /\ DOMAIN hops[r] = 1 .. n /\ Len(hops[r]) = n
  BY <1>1, <1>6, LenProperties, HopsTyped DEF n
<1>9. \A j \in 1 .. n + 1 :
        t[j] = IF j = n + 1 THEN f ELSE IF j = n THEN g ELSE hops[r][j]
  BY <1>2, <1>4, <1>6
<1>10. Last(r).status # 200
  BY <1>2 DEF Sound
<1>11. TypeOK'
  BY <1>1, <1>7 DEF TypeOK, device
<1>12. (\A q \in Requests : \A j \in DOMAIN hops[q] : Sound(hops[q][j]))'
  <2>1. Sound(g)
    BY <1>2 DEF Sound, Over
  <2>2. Sound(f)
    BY <1>3 DEF Sound, Over
  <2>3. \A q \in Requests : \A j \in DOMAIN hops'[q] : Sound(hops'[q][j])
    BY <1>1, <1>7, <1>8, <1>9, <2>1, <2>2, <1>2
  <2> QED BY <2>3 DEF Sound, device
<1>13. TunnelReachesDevice'
  <2> SUFFICES ASSUME NEW q \in Requests, NEW i \in DOMAIN hops'[q],
                      hops'[q][i].status = 200,
                      NEW j \in i .. Len(hops'[q])
               PROVE  hops'[q][j].status = 200
    BY DEF TunnelReachesDevice
  <2>1. CASE q # r
    BY <1>1, <1>7, <2>1 DEF TunnelReachesDevice
  <2>2. CASE q = r
    <3>1. i \in 1 .. n + 1 /\ t[i].status = 200
      BY <1>7, <1>8, <2>2
    <3>2. i \in 1 .. n - 1 /\ hops[r][i].status = 200
      BY <1>2, <1>3, <1>9, <1>10, <3>1
    <3>3. hops[r][n].status = 200
      BY <1>1, <1>2, <1>8, <3>2 DEF TunnelReachesDevice
    <3> QED BY <1>2, <1>10, <3>3
  <2> QED BY <2>1, <2>2
<1>14. TunnelCountedOnce'
  <2>1. ASSUME NEW i \in Instances PROVE OpenAt(i)' = OpenAt(i)
    <3>1. r \notin OpenAt(i)' /\ r \notin OpenAt(i)
      BY <1>2, <1>3, <1>6, <1>7, <1>9 DEF OpenAt, In, Last
    <3>2. \A q \in Requests : q # r => (q \in OpenAt(i)' <=> q \in OpenAt(i))
      BY <1>7 DEF OpenAt, In, Last
    <3> QED BY <3>1, <3>2 DEF OpenAt
  <2> QED BY <1>1, <2>1 DEF TunnelCountedOnce
<1>15. ApiTrails'
  BY <1>1 DEF ApiTrails, device
<1>16. LastHopIsHost'
  <2> SUFFICES ASSUME NEW q \in Requests
               PROVE  \/ Len(hops'[q]) <= 1 + apiChanges'
                      \/ Len(hops'[q]) = 2 + apiChanges' /\ Last(q)'.at = apiHost'
    BY DEF LastHopIsHost
  <2>1. CASE q # r
    BY <1>1, <1>7, <2>1 DEF LastHopIsHost, Last, device
  <2>2. CASE q = r
    <3>1. n <= 1 + apiChanges
      BY <1>1, <1>8 DEF LastHopIsHost
    <3>2. Last(q)' = f
      BY <1>2, <1>6, <1>7, <1>9, <2>2 DEF Last
    <3>3. apiChanges \in Nat
      BY <1>1 DEF TypeOK
    <3> QED BY <1>2, <1>3, <1>6, <1>7, <2>2, <3>1, <3>2, <3>3 DEF device
  <2> QED BY <2>1, <2>2
<1> QED BY <1>11, <1>12, <1>13, <1>14, <1>15, <1>16, InvIsHopsInv DEF HopsInv

\* connect has the answer of getDeviceVpnHost.
LEMMA AskStep ==
  ASSUME TunnelInv, NEW r \in Requests, AskForHost(r)
  PROVE  TunnelInv'
<1> DEFINE h == Last(r)
           signed == [h EXCEPT !.stage = "forward", !.forwarded = @ \cup {h.at}]
           here == {"unknown", h.at}
<1>1. /\ In(r, "host") /\ "host" \notin Over
      /\ UNCHANGED <<cachedAccess, activeTunnels, statusFile, device>>
  BY DEF AskForHost, Over
<1>2. h \in Hop /\ h.at \in Instances
  BY <1>1, LastHop
<1>3. cachedAccess' \in [Instances -> {"none", "yes", "no"}]
  BY <1>1 DEF TunnelInv, TypeOK
<1>4. PICK vpnHost \in getDeviceVpnHost :
        \/ vpnHost = None /\ ConnectThrows(r, "Handled", 1, "none")
        \/ vpnHost \in here /\ GoOn(r, "wait")
        \/ vpnHost = "failed" /\ ConnectThrows(r, "API", 0, "outside")
        \/ vpnHost \in Instances \ {h.at} /\ ConnectThrows(r, "Handled", 1, "none")
        \/ /\ vpnHost \in Instances \ {h.at}
           /\ hops' = [hops EXCEPT ![r] =
                         Append([@ EXCEPT ![Len(@)] = signed], NewHop(vpnHost, {}))]
  BY DEF AskForHost
<1>5. vpnHost \in Instances \cup {None} => vpnHost = apiHost
  BY <1>4, TunnelAssumption DEF getDeviceVpnHost
<1>6. CASE ConnectThrows(r, "Handled", 1, "none") /\ vpnHost \in (Instances \ {h.at}) \cup {None}
  <2>1. h.fault # "none"
    BY <1>1, <1>5, <1>6, FaultlessHop, TunnelAssumption
  <2>2. Set(r, Len(hops[r]), Refused(Last(r), 500, 1, "none"))
    BY <1>6 DEF ConnectThrows, CaughtAnswers
  <2> QED BY <1>1, <1>3, <2>1, <2>2, RefuseStep
<1>7. CASE GoOn(r, "wait")
  <2>1. "wait" \in Stage \ (Over \cup {"retry"})
    BY DEF Stage, Over
  <2> QED BY <1>1, <1>3, <1>7, <2>1, GoOnStep
<1>8. CASE ConnectThrows(r, "API", 0, "outside")
  <2>1. Set(r, Len(hops[r]), Refused(Last(r), 500, 1, "outside"))
    BY <1>8 DEF ConnectThrows, CaughtAnswers
  <2> QED BY <1>1, <1>3, <2>1, RefuseStep
<1>9. CASE /\ vpnHost \in Instances \ {h.at}
           /\ hops' = [hops EXCEPT ![r] =
                         Append([@ EXCEPT ![Len(@)] = signed], NewHop(vpnHost, {}))]
  <2>1. /\ signed \in Hop /\ signed.at = h.at /\ signed.stage = "forward"
        /\ signed.answers = h.answers /\ signed.status = h.status
        /\ signed.fault = h.fault
    <3> DEFINE w == [h EXCEPT !.stage = "forward"]
               all == h.forwarded \cup {h.at}
    <3>1. /\ w \in Hop /\ w.at = h.at /\ w.stage = "forward"
          /\ w.answers = h.answers /\ w.status = h.status /\ w.fault = h.fault
      BY <1>2, Restaged DEF Stage
    <3>2. all \in SUBSET Instances
      BY <1>2 DEF Hop
    <3>3. signed = [w EXCEPT !.forwarded = all]
      OBVIOUS
    <3> HIDE DEF w, all, signed, h
    <3> QED BY <3>1, <3>2, <3>3 DEF Hop
  <2> HIDE DEF signed
  <2> QED BY <1>1, <1>5, <1>9, <2>1, ForwardStep
<1> QED BY <1>4, <1>6, <1>7, <1>8, <1>9

\* forwardRequest has its answer.
LEMMA ForwardedStep ==
  ASSUME TunnelInv, NEW r \in Requests, NEW k \in 1 .. Len(hops[r]) - 1,
         Forwarded(r, k)
  PROVE  TunnelInv'
<1> DEFINE h == hops[r][k]
           next == hops[r][k + 1]
<1>1. TypeOK /\ \A j \in DOMAIN hops[r] : Sound(hops[r][j])
  BY InvIsHopsInv DEF HopsInv
<1>2. /\ Len(hops[r]) \in Nat /\ DOMAIN hops[r] = 1 .. Len(hops[r])
      /\ \A j \in DOMAIN hops[r] : hops[r][j] \in Hop
  BY <1>1, HopsTyped
<1>3. /\ k \in DOMAIN hops[r] /\ k + 1 \in DOMAIN hops[r] /\ k < Len(hops[r])
      /\ k # Len(hops[r])
      /\ h \in Hop /\ Sound(h) /\ next \in Hop /\ Sound(next)
  BY <1>1, <1>2
<1>4. /\ h.stage = "forward" /\ h.stage \notin Over
      /\ activeTunnels' = activeTunnels
      /\ UNCHANGED <<statusFile, device>>
  BY DEF Forwarded, Over
<1>5. cachedAccess' \in [Instances -> {"none", "yes", "no"}]
  BY <1>1 DEF Forwarded, TypeOK
<1>6. CASE next.stage \in {"open", "closed"} /\ Set(r, k, Accepted(h, next.stage))
  <2> DEFINE g == Accepted(h, next.stage)
  <2>1. /\ g \in Hop /\ g.stage = next.stage /\ g.at = h.at
        /\ g.answers = h.answers + 1 /\ g.status = 200
    BY <1>3 DEF Accepted, Hop
  <2>2. Set(r, k, g)
    BY <1>6
  <2> HIDE DEF g
  <2>3. Sound(g) /\ next.status = 200
    BY <1>3, <1>4, <1>6, <2>1 DEF Sound, Over
  <2> QED BY <1>3, <1>4, <1>5, <2>1, <2>2, <2>3, HopStep
<1>7. CASE Set(r, k, Refused(h, 500, CaughtAnswers("Remote"), "outside"))
  <2> DEFINE g == Refused(h, 500, 1, "outside")
  <2>1. /\ g \in Hop /\ g.stage = "refused" /\ g.at = h.at
        /\ g.answers = h.answers + 1 /\ g.status = 500 /\ g.fault = "outside"
    BY <1>3 DEF Refused, Hop, Stage
  <2>2. Set(r, k, g)
    BY <1>7 DEF CaughtAnswers
  <2> HIDE DEF g
  <2>3. Sound(g)
    BY <1>3, <1>4, <2>1 DEF Sound, Over
  <2> QED BY <1>3, <1>4, <1>5, <2>1, <2>2, <2>3, HopStep
<1> QED BY <1>6, <1>7 DEF Forwarded

\* A new request, refused at once or not.
LEMMA RequestedStep ==
  ASSUME TunnelInv, NEW r \in Requests, NEW i \in Instances,
         NEW forwarded \in SUBSET Instances, Requested(r, i, forwarded)
  PROVE  TunnelInv'
<1> DEFINE f == NewHop(i, forwarded)
<1>1. /\ TypeOK
      /\ \A q \in Requests : \A j \in DOMAIN hops[q] : Sound(hops[q][j])
      /\ TunnelReachesDevice /\ TunnelCountedOnce /\ ApiTrails /\ LastHopIsHost
  BY InvIsHopsInv DEF HopsInv
<1>2. /\ f \in Hop /\ f.at = i /\ f.stage = "access" /\ f.status = 0
      /\ f.answers = 0
      /\ f.fault = "none" => home = i /\ apiHost = i
  BY DEF NewHop, Hop, Stage
<1>3. \A status \in {400, 403} :
        LET g == Refused(f, status, 1, "outside")
        IN  /\ g \in Hop /\ g.at = i /\ g.stage = "refused" /\ g.status = status
            /\ g.answers = 1 /\ g.fault = "outside"
  BY <1>2 DEF Refused, Hop, Stage
<1> HIDE DEF f
<1>4. PICK g \in Hop : /\ hops' = [hops EXCEPT ![r] = <<g>>]
                       /\ Sound(g) /\ g.stage # "open" /\ g.status # 200
  <2>1. CASE hops' = [hops EXCEPT ![r] = <<f>>]
    <3>1. Sound(f) /\ f.stage # "open" /\ f.status # 200
      BY <1>2 DEF Sound, Over
    <3> QED BY <1>2, <2>1, <3>1
  <2>2. CASE \E status \in {400, 403} :
               hops' = [hops EXCEPT ![r] = <<Refused(f, status, 1, "outside")>>]
    <3>1. PICK status \in {400, 403} :
            hops' = [hops EXCEPT ![r] = <<Refused(f, status, 1, "outside")>>]
      BY <2>2
    <3> DEFINE g == Refused(f, status, 1, "outside")
    <3>2. /\ g \in Hop /\ g.at = i /\ g.stage = "refused" /\ g.status = status
          /\ g.answers = 1 /\ g.fault = "outside"
      BY <1>3
    <3>3. hops' = [hops EXCEPT ![r] = <<g>>]
      BY <3>1
    <3> HIDE DEF g
    <3>4. Sound(g) /\ g.stage # "open" /\ g.status # 200
      BY <3>2 DEF Sound, Over
    <3> QED BY <3>2, <3>3, <3>4
  <2> QED BY <2>1, <2>2 DEF Requested, f
<1>5. /\ hops' \in [Requests -> Seq(Hop)] /\ hops'[r] = <<g>> /\ hops[r] = <<>>
      /\ \A q \in Requests : q # r => hops'[q] = hops[q]
  BY <1>1, <1>4 DEF TypeOK, Requested
<1>6. UNCHANGED <<cachedAccess, activeTunnels, statusFile, device>>
  BY DEF Requested
<1>7. Len(hops'[r]) = 1 /\ DOMAIN hops'[r] = {1} /\ hops'[r][1] = g
  BY <1>5
<1>8. TypeOK'
  BY <1>1, <1>5, <1>6 DEF TypeOK, device
<1>9. (\A q \in Requests : \A j \in DOMAIN hops[q] : Sound(hops[q][j]))'
  <2>1. \A q \in Requests : \A j \in DOMAIN hops'[q] : Sound(hops'[q][j])
    BY <1>1, <1>4, <1>5, <1>7
  <2> QED BY <1>6, <2>1 DEF Sound, device
<1>10. TunnelReachesDevice'
  BY <1>1, <1>4, <1>5, <1>7 DEF TunnelReachesDevice
<1>11. TunnelCountedOnce'
  <2>1. ASSUME NEW a \in Instances PROVE OpenAt(a)' = OpenAt(a)
    <3>1. r \notin OpenAt(a)' /\ r \notin OpenAt(a)
      BY <1>4, <1>5, <1>7 DEF OpenAt, In, Last
    <3>2. \A q \in Requests : q # r => (q \in OpenAt(a)' <=> q \in OpenAt(a))
      BY <1>5 DEF OpenAt, In, Last
    <3> QED BY <3>1, <3>2 DEF OpenAt
  <2> QED BY <1>1, <1>6, <2>1 DEF TunnelCountedOnce
<1>12. ApiTrails'
  BY <1>1, <1>6 DEF ApiTrails, device
<1>13. LastHopIsHost'
  <2> SUFFICES ASSUME NEW q \in Requests
               PROVE  \/ Len(hops'[q]) <= 1 + apiChanges'
                      \/ Len(hops'[q]) = 2 + apiChanges' /\ Last(q)'.at = apiHost'
    BY DEF LastHopIsHost
  <2>1. CASE q # r
    BY <1>1, <1>5, <1>6, <2>1 DEF LastHopIsHost, Last, device
  <2>2. CASE q = r
    <3>1. apiChanges' = apiChanges /\ apiChanges \in Nat
      BY <1>1, <1>6 DEF TypeOK, device
    <3>2. Len(hops'[q]) <= 1 + apiChanges'
      BY <1>7, <2>2, <3>1
    <3> QED BY <3>2
  <2> QED BY <2>1, <2>2
<1> QED BY <1>8, <1>9, <1>10, <1>11, <1>12, <1>13, InvIsHopsInv DEF HopsInv

\* Steps that keep the number of hops of every request, their place and
\* status, and that leave the open tunnels open.
LEMMA SameHops ==
  ASSUME TunnelInv, hops' \in [Requests -> Seq(Hop)],
         \A q \in Requests :
           /\ Len(hops'[q]) = Len(hops[q]) /\ DOMAIN hops'[q] = DOMAIN hops[q]
           /\ \A j \in DOMAIN hops[q] : /\ hops'[q][j].at = hops[q][j].at
                                        /\ hops'[q][j].status = hops[q][j].status
  PROVE  /\ TunnelReachesDevice'
         /\ apiHost' = apiHost /\ apiChanges' = apiChanges => LastHopIsHost'
         /\ apiChanges' = apiChanges + 1 => LastHopIsHost'
         /\ \A q \in Requests : hops[q] # <<>> => Last(q)'.at = Last(q).at
<1>1. TypeOK /\ TunnelReachesDevice /\ LastHopIsHost
  BY DEF TunnelInv
<1>2. \A q \in Requests :
        /\ Len(hops[q]) \in Nat /\ DOMAIN hops[q] = 1 .. Len(hops[q])
        /\ hops[q] # <<>> => Len(hops[q]) \in DOMAIN hops[q]
        /\ Len(hops[q]) # 0 => Len(hops[q]) \in DOMAIN hops[q]
        /\ hops[q] = <<>> => Len(hops[q]) = 0
  BY <1>1, HopsTyped, EmptySeq
<1>3. TunnelReachesDevice'
  BY <1>1, <1>2 DEF TunnelReachesDevice
<1>4. \A q \in Requests : Len(hops[q]) # 0 => Last(q)'.at = Last(q).at
  BY <1>2 DEF Last
<1>5. apiChanges \in Nat
  BY <1>1 DEF TypeOK
<1>6. ASSUME apiHost' = apiHost, apiChanges' = apiChanges PROVE LastHopIsHost'
  BY <1>1, <1>2, <1>4, <1>5, <1>6 DEF LastHopIsHost
<1>7. ASSUME apiChanges' = apiChanges + 1 PROVE LastHopIsHost'
  BY <1>1, <1>2, <1>5, <1>7 DEF LastHopIsHost
<1> QED BY <1>2, <1>3, <1>4, <1>6, <1>7

\* The socket to the device is closed.
LEMMA ClosesStep ==
  ASSUME TunnelInv, NEW r \in Requests, TunnelCloses(r)
  PROVE  TunnelInv'
<1> DEFINE t == [k \in DOMAIN hops[r] |->
                   IF hops[r][k].stage = "open"
                     THEN [hops[r][k] EXCEPT !.stage = "closed"] ELSE hops[r][k]]
<1>1. /\ TypeOK
      /\ \A q \in Requests : \A j \in DOMAIN hops[q] : Sound(hops[q][j])
      /\ TunnelCountedOnce /\ ApiTrails
  BY InvIsHopsInv DEF HopsInv
<1>2. /\ Len(hops[r]) \in Nat \ {0} /\ Len(hops[r]) \in DOMAIN hops[r]
      /\ Last(r) = hops[r][Len(hops[r])] /\ Last(r).stage = "open"
      /\ Last(r).at \in Instances /\ hops[r] # <<>>
  BY LastHop DEF TunnelCloses, In
<1>3. /\ hops' = [hops EXCEPT ![r] = t] /\ UNCHANGED <<cachedAccess, statusFile, device>>
      /\ activeTunnels' = [activeTunnels EXCEPT ![Last(r).at] = @ - 1]
  BY DEF TunnelCloses
<1>4. /\ hops[r] \in Seq(Hop) /\ DOMAIN hops[r] = 1 .. Len(hops[r])
      /\ \A k \in DOMAIN hops[r] : hops[r][k] \in Hop
  BY <1>1, HopsTyped
<1>5. \A k \in DOMAIN hops[r] :
        /\ t[k] \in Hop /\ t[k].at = hops[r][k].at /\ t[k].status = hops[r][k].status
        /\ t[k].answers = hops[r][k].answers /\ t[k].fault = hops[r][k].fault
        /\ t[k].stage = IF hops[r][k].stage = "open" THEN "closed"
                                                     ELSE hops[r][k].stage
  <2> TAKE k \in DOMAIN hops[r]
  <2> DEFINE g == hops[r][k]
  <2>1. g \in Hop /\ "closed" \in Stage
    BY <1>4 DEF Stage
  <2>2. t[k] = IF g.stage = "open" THEN [g EXCEPT !.stage = "closed"] ELSE g
    OBVIOUS
  <2> HIDE DEF g, t
  <2>3. CASE g.stage = "open"
    BY <2>1, <2>2, <2>3, Restaged DEF g
  <2>4. CASE g.stage # "open"
    BY <2>1, <2>2, <2>4 DEF g
  <2> QED BY <2>3, <2>4
<1>6. t \in [1 .. Len(hops[r]) -> Hop]
  BY <1>4, <1>5
<1> HIDE DEF t
<1>7. t \in Seq(Hop) /\ Len(t) = Len(hops[r]) /\ DOMAIN t = DOMAIN hops[r]
  <2>1. t \in Seq(Hop)
    BY <1>2, <1>6, SeqDef
  <2> QED BY <1>2, <1>4, <1>6, <2>1, LenProperties
<1>8. /\ hops' \in [Requests -> Seq(Hop)] /\ hops'[r] = t
      /\ \A q \in Requests : q # r => hops'[q] = hops[q]
  BY <1>1, <1>3, <1>7 DEF TypeOK
<1>9. TunnelReachesDevice' /\ LastHopIsHost'
  BY <1>3, <1>5, <1>7, <1>8, SameHops DEF device
<1>10. ApiTrails'
  BY <1>1, <1>3 DEF ApiTrails, device
<1>11. (\A q \in Requests : \A j \in DOMAIN hops[q] : Sound(hops[q][j]))'
  <2>1. ASSUME NEW j \in DOMAIN hops[r] PROVE Sound(t[j])
    BY <1>1, <1>5 DEF Sound, Over
  <2>2. \A q \in Requests : \A j \in DOMAIN hops'[q] : Sound(hops'[q][j])
    BY <1>1, <1>7, <1>8, <2>1
  <2> QED BY <1>3, <2>2 DEF Sound, device
<1>12. ASSUME NEW i \in Instances
       PROVE  /\ activeTunnels'[i] \in Nat
              /\ activeTunnels'[i] = Cardinality(OpenAt(i)')
  <2> DEFINE S == OpenAt(i)
             T == OpenAt(i)'
  <2>1. r \notin T /\ (r \in S <=> Last(r).at = i)
    BY <1>2, <1>5, <1>7, <1>8 DEF OpenAt, In, Last
  <2>2. \A q \in Requests : q # r => (q \in T <=> q \in S)
    BY <1>8 DEF OpenAt, In, Last
  <2>3. T = S \ {r}
    BY <2>1, <2>2 DEF OpenAt
  <2>4. activeTunnels \in [Instances -> Nat] /\ activeTunnels[i] = Cardinality(S)
    BY <1>1 DEF TunnelCountedOnce, TypeOK
  <2>5. IsFiniteSet(S)
    BY OpenFinite
  <2> HIDE DEF S, T
  <2>6. /\ Cardinality(T) = IF r \in S THEN Cardinality(S) - 1 ELSE Cardinality(S)
        /\ Cardinality(T) \in Nat
    BY <2>3, <2>5, FS_RemoveElement, FS_CardinalityType
  <2>7. activeTunnels'[i] = IF i = Last(r).at THEN activeTunnels[i] - 1
                                              ELSE activeTunnels[i]
    BY <1>3, <2>4
  <2> QED BY <2>1, <2>4, <2>6, <2>7 DEF T
<1>13. TunnelCountedOnce'
  BY <1>12 DEF TunnelCountedOnce
<1>14. activeTunnels' \in [Instances -> Nat]
  BY <1>1, <1>3, <1>12 DEF TypeOK
<1>15. TypeOK'
  BY <1>1, <1>3, <1>8, <1>14 DEF TypeOK, device
<1> QED BY <1>9, <1>10, <1>11, <1>13, <1>15, InvIsHopsInv DEF HopsInv

-----------------------------------------------------------------------------
(***************************************************************************)
(* The device and what others know of it.                                  *)
(***************************************************************************)

\* Every hop that is not over has a fault from now on.
LEMMA DisturbedHops ==
  ASSUME TunnelInv, Disturb
  PROVE  /\ hops' \in [Requests -> Seq(Hop)]
         /\ \A q \in Requests :
              /\ Len(hops'[q]) = Len(hops[q]) /\ DOMAIN hops'[q] = DOMAIN hops[q]
              /\ \A j \in DOMAIN hops[q] :
                   /\ hops'[q][j].at = hops[q][j].at
                   /\ hops'[q][j].status = hops[q][j].status
                   /\ hops'[q][j].stage = hops[q][j].stage
                   /\ Sound(hops'[q][j])
                   /\ hops[q][j].stage \notin Over => hops'[q][j].fault = "outside"
<1>1. TypeOK /\ \A q \in Requests : \A j \in DOMAIN hops[q] : Sound(hops[q][j])
  BY InvIsHopsInv DEF HopsInv
<1>2. ASSUME NEW q \in Requests
      PROVE  /\ hops'[q] \in Seq(Hop)
             /\ Len(hops'[q]) = Len(hops[q]) /\ DOMAIN hops'[q] = DOMAIN hops[q]
             /\ \A j \in DOMAIN hops[q] :
                  /\ hops'[q][j].at = hops[q][j].at
                  /\ hops'[q][j].status = hops[q][j].status
                  /\ hops'[q][j].stage = hops[q][j].stage
                  /\ Sound(hops'[q][j])
                  /\ hops[q][j].stage \notin Over => hops'[q][j].fault = "outside"
  <2> DEFINE t == [k \in DOMAIN hops[q] |->
                     IF hops[q][k].stage \in Over THEN hops[q][k]
                     ELSE [hops[q][k] EXCEPT !.fault = "outside"]]
  <2>1. hops'[q] = t
    BY DEF Disturb
  <2>2. /\ hops[q] \in Seq(Hop) /\ DOMAIN hops[q] = 1 .. Len(hops[q])
        /\ Len(hops[q]) \in Nat
        /\ \A k \in DOMAIN hops[q] : hops[q][k] \in Hop
    BY <1>1, HopsTyped
  <2>3. ASSUME NEW k \in DOMAIN hops[q]
        PROVE  /\ t[k] \in Hop /\ t[k].at = hops[q][k].at
               /\ t[k].status = hops[q][k].status
               /\ t[k].stage = hops[q][k].stage /\ Sound(t[k])
               /\ hops[q][k].stage \notin Over => t[k].fault = "outside"
    <3> DEFINE g == hops[q][k]
               b == [g EXCEPT !.fault = "outside"]
    <3>1. g \in Hop /\ Sound(g)
      BY <1>1, <2>2
    <3>2. t[k] = IF g.stage \in Over THEN g ELSE b
      OBVIOUS
    <3> HIDE DEF g
    <3>3. /\ b \in Hop /\ b.at = g.at /\ b.stage = g.stage /\ b.status = g.status
          /\ b.answers = g.answers /\ b.fault = "outside"
      BY <3>1 DEF Hop
    <3> HIDE DEF b, t
    <3>4. CASE g.stage \in Over
      BY <3>1, <3>2, <3>4 DEF g
    <3>5. CASE g.stage \notin Over
      <4>1. Sound(b)
        BY <3>1, <3>3, <3>5 DEF Sound
      <4> QED BY <3>2, <3>3, <3>5, <4>1 DEF g
    <3> QED BY <3>4, <3>5
  <2>4. t \in [1 .. Len(hops[q]) -> Hop]
    BY <2>2, <2>3
  <2> HIDE DEF t
  <2>5. t \in Seq(Hop) /\ Len(t) = Len(hops[q]) /\ DOMAIN t = DOMAIN hops[q]
    <3>1. t \in Seq(Hop)
      BY <2>2, <2>4, SeqDef
    <3> QED BY <2>2, <2>4, <3>1, LenProperties
  <2> QED BY <2>1, <2>3, <2>5
<1>3. hops' = [q \in Requests |-> hops'[q]]
  BY DEF Disturb
<1> QED BY <1>2, <1>3

\* The device moves, or the API follows it.
LEMMA DeviceStep ==
  ASSUME TunnelInv, (\E i \in Places : DeviceMoves(i)) \/ ApiFollows
  PROVE  TunnelInv'
<1>1. /\ TypeOK /\ TunnelCountedOnce /\ ApiTrails
  BY DEF TunnelInv
<1>2. /\ Disturb /\ UNCHANGED <<cachedAccess, activeTunnels, statusFile>>
      /\ home' \in Places /\ apiHost' \in Places
      /\ moves' \in 0 .. MaxMoves /\ apiChanges' \in 0 .. moves'
      /\ apiHost' # home' => apiChanges' < moves'
      /\ \/ apiHost' = apiHost /\ apiChanges' = apiChanges
         \/ apiChanges' = apiChanges + 1
  <2>1. CASE \E i \in Places : DeviceMoves(i)
    BY <1>1, <2>1, TunnelAssumption DEF DeviceMoves, TypeOK, ApiTrails
  <2>2. CASE ApiFollows
    BY <1>1, <2>2, TunnelAssumption DEF ApiFollows, TypeOK, ApiTrails
  <2> QED BY <2>1, <2>2
<1>3. /\ hops' \in [Requests -> Seq(Hop)]
      /\ \A q \in Requests :
           /\ Len(hops'[q]) = Len(hops[q]) /\ DOMAIN hops'[q] = DOMAIN hops[q]
           /\ \A j \in DOMAIN hops[q] :
                /\ hops'[q][j].at = hops[q][j].at
                /\ hops'[q][j].status = hops[q][j].status
                /\ hops'[q][j].stage = hops[q][j].stage
                /\ Sound(hops'[q][j])
                /\ hops[q][j].stage \notin Over => hops'[q][j].fault = "outside"
  BY <1>2, DisturbedHops
<1>4. TypeOK'
  BY <1>1, <1>2, <1>3 DEF TypeOK
<1>5. (\A q \in Requests : \A j \in DOMAIN hops[q] : Sound(hops[q][j]))'
  BY <1>3 DEF Sound
<1>6. TunnelReachesDevice' /\ LastHopIsHost'
  BY <1>2, <1>3, SameHops
<1>7. ApiTrails'
  BY <1>2 DEF ApiTrails
<1>8. TunnelCountedOnce'
  <2>1. ASSUME NEW i \in Instances PROVE OpenAt(i)' = OpenAt(i)
    <3>1. ASSUME NEW q \in Requests PROVE q \in OpenAt(i)' <=> q \in OpenAt(i)
      <4>1. CASE hops[q] = <<>>
        BY <1>1, <1>3, <4>1, EmptySeq DEF OpenAt, In
      <4>2. CASE hops[q] # <<>>
        BY <1>1, <1>3, <4>2, EmptySeq, HopsTyped DEF OpenAt, In, Last
      <4> QED BY <4>1, <4>2
    <3> QED BY <3>1 DEF OpenAt
  <2> QED BY <1>1, <1>2, <2>1 DEF TunnelCountedOnce
<1> QED BY <1>4, <1>5, <1>6, <1>7, <1>8, InvIsHopsInv DEF HopsInv

\* A status file is written, and those who have waited for it go on.
LEMMA StatusStep ==
  ASSUME TunnelInv, NEW i \in Instances, StatusWritten(i)
  PROVE  TunnelInv'
<1>1. /\ TypeOK /\ TunnelCountedOnce /\ ApiTrails
      /\ \A q \in Requests : \A j \in DOMAIN hops[q] : Sound(hops[q][j])
  BY InvIsHopsInv DEF HopsInv
<1>2. /\ UNCHANGED <<cachedAccess, activeTunnels, device>>
      /\ statusFile' = IF home = i THEN statusFile \cup {i} ELSE statusFile \ {i}
  BY DEF StatusWritten
<1>3. ASSUME NEW q \in Requests
      PROVE  /\ hops'[q] \in Seq(Hop)
             /\ Len(hops'[q]) = Len(hops[q]) /\ DOMAIN hops'[q] = DOMAIN hops[q]
             /\ \A j \in DOMAIN hops[q] :
                  /\ hops'[q][j].at = hops[q][j].at
                  /\ hops'[q][j].status = hops[q][j].status
                  /\ hops'[q][j].answers = hops[q][j].answers
                  /\ hops'[q][j].fault = hops[q][j].fault
                  /\ \/ hops'[q][j].stage = hops[q][j].stage
                     \/ /\ hops[q][j].stage = "wait" /\ hops[q][j].at = i
                        /\ hops'[q][j].stage = "retry"
  <2>1. /\ hops[q] \in Seq(Hop) /\ DOMAIN hops[q] = 1 .. Len(hops[q])
        /\ \A k \in DOMAIN hops[q] : hops[q][k] \in Hop
    BY <1>1, HopsTyped
  <2>2. CASE ~(In(q, "wait") /\ Last(q).at = i)
    <3>1. hops'[q] = hops[q]
      BY <2>2 DEF StatusWritten
    <3> QED BY <2>1, <3>1
  <2>3. CASE In(q, "wait") /\ Last(q).at = i
    <3> DEFINE n == Len(hops[q])
               h == hops[q][n]
               g == [h EXCEPT !.stage = "retry"]
    <3>1. /\ n \in DOMAIN hops[q] /\ h \in Hop /\ h = Last(q)
          /\ h.stage = "wait" /\ h.at = i
      BY <2>3, LastHop
    <3>2. hops'[q] = [hops[q] EXCEPT ![n] = g]
      BY <2>3 DEF StatusWritten
    <3> HIDE DEF h
    <3>3. /\ g \in Hop /\ g.stage = "retry" /\ g.at = h.at /\ g.answers = h.answers
          /\ g.status = h.status /\ g.fault = h.fault
      <4>1. "retry" \in Stage /\ h \in Hop
        BY <3>1 DEF Stage
      <4> QED BY <4>1 DEF Hop
    <3> HIDE DEF g
    <3>4. /\ hops'[q] \in Seq(Hop) /\ Len(hops'[q]) = Len(hops[q])
          /\ \A j \in 1 .. Len(hops[q]) :
               hops'[q][j] = IF j = n THEN g ELSE hops[q][j]
      BY <2>1, <3>1, <3>2, <3>3, ExceptSeq
    <3>5. DOMAIN hops'[q] = DOMAIN hops[q]
      BY <3>2
    <3> QED BY <2>1, <3>1, <3>3, <3>4, <3>5 DEF h
  <2> QED BY <2>2, <2>3
<1>4. hops' \in [Requests -> Seq(Hop)]
  <2>1. hops' = [q \in Requests |-> hops'[q]]
    BY DEF StatusWritten
  <2> QED BY <1>3, <2>1
<1>5. TypeOK'
  BY <1>1, <1>2, <1>4 DEF TypeOK, device
<1>6. (\A q \in Requests : \A j \in DOMAIN hops[q] : Sound(hops[q][j]))'
  <2> SUFFICES ASSUME NEW q \in Requests, NEW j \in DOMAIN hops'[q]
               PROVE  Sound(hops[q][j])'
    OBVIOUS
  <2>1. j \in DOMAIN hops[q] /\ Sound(hops[q][j])
    BY <1>1, <1>3
  <2>2. home' = home /\ apiHost' = apiHost
    BY <1>2 DEF device
  <2> QED BY <1>2, <1>3, <2>1, <2>2 DEF Sound, Over
<1>7. TunnelReachesDevice' /\ LastHopIsHost'
  BY <1>2, <1>3, <1>4, SameHops DEF device
<1>8. ApiTrails'
  BY <1>1, <1>2 DEF ApiTrails, device
<1>9. TunnelCountedOnce'
  <2>1. ASSUME NEW a \in Instances PROVE OpenAt(a)' = OpenAt(a)
    <3>1. ASSUME NEW q \in Requests PROVE q \in OpenAt(a)' <=> q \in OpenAt(a)
      <4>1. CASE hops[q] = <<>>
        BY <1>1, <1>3, <4>1, EmptySeq DEF OpenAt, In
      <4>2. CASE hops[q] # <<>>
        BY <1>1, <1>3, <4>2, EmptySeq, HopsTyped DEF OpenAt, In, Last
      <4> QED BY <4>1, <4>2
    <3> QED BY <3>1 DEF OpenAt
  <2> QED BY <1>1, <1>2, <2>1 DEF TunnelCountedOnce
<1> QED BY <1>5, <1>6, <1>7, <1>8, <1>9, InvIsHopsInv DEF HopsInv

-----------------------------------------------------------------------------
\* The invariant holds before the first request.
LEMMA TunnelInit == Init => TunnelInv
<1> SUFFICES ASSUME Init PROVE TunnelInv
  OBVIOUS
<1>1. \A r \in Requests : hops[r] = <<>> /\ DOMAIN hops[r] = {} /\ Len(hops[r]) = 0
  BY DEF Init
<1>2. TypeOK
  BY TunnelAssumption DEF Init, TypeOK, Places
<1>3. ASSUME NEW i \in Instances PROVE OpenAt(i) = {}
  BY <1>1 DEF OpenAt, In
<1>4. TunnelCountedOnce
  BY <1>3, FS_EmptySet DEF TunnelCountedOnce, Init
<1>5. TunnelReachesDevice /\ ApiTrails /\ LastHopIsHost
  BY <1>1 DEF Init, TunnelReachesDevice, ApiTrails, LastHopIsHost
<1> QED BY <1>1, <1>2, <1>4, <1>5, InvIsHopsInv DEF HopsInv

\* The invariant is inductive: one step per action of Next.
LEMMA TunnelStep == TunnelInv /\ [Next]_vars => TunnelInv'
<1> SUFFICES ASSUME TunnelInv, [Next]_vars PROVE TunnelInv'
  OBVIOUS
<1>1. ASSUME NEW r \in Requests, NEW i \in Instances, NEW f \in SUBSET Instances,
             Requested(r, i, f)
      PROVE  TunnelInv'
  BY <1>1, RequestedStep
<1>2. ASSUME NEW r \in Requests, canAccessDevice(r) PROVE TunnelInv'
  BY <1>2, AccessStep
<1>3. ASSUME NEW i \in Instances, AccessForgotten(i) PROVE TunnelInv'
  <2>1. /\ UNCHANGED <<hops, activeTunnels, statusFile, home, apiHost, moves, apiChanges>>
        /\ cachedAccess' = [cachedAccess EXCEPT ![i] = "none"]
    BY <1>3 DEF AccessForgotten, device
  <2>2. TypeOK'
    BY <2>1 DEF TunnelInv, TypeOK
  <2>3. \A a : OpenAt(a)' = OpenAt(a)
    BY <2>1 DEF OpenAt, In, Last
  <2>4. TunnelCountedOnce'
    BY <2>1, <2>3 DEF TunnelInv, TunnelCountedOnce, OpenAt, In, Last
  <2> QED BY <2>1, <2>2, <2>4
    DEF TunnelInv, AnsweredOnce, StatusTellsTunnel, TunnelReachesDevice, ApiTrails,
        LastHopIsHost, Last, FaultlessIsHome, ConnectedDeviceIsFound
<1>4. ASSUME NEW r \in Requests, isDeviceConnectedToVpn(r) PROVE TunnelInv'
  BY <1>4, OnlineStep
<1>5. ASSUME NEW r \in Requests, Connect(r) PROVE TunnelInv'
  BY <1>5, ConnectStep
<1>6. ASSUME NEW r \in Requests, AskForHost(r) PROVE TunnelInv'
  BY <1>6, AskStep
<1>7. ASSUME NEW r \in Requests, Retry(r) PROVE TunnelInv'
  BY <1>7, RetryStep
<1>8. ASSUME NEW r \in Requests, NEW k \in 1 .. Len(hops[r]) - 1, Forwarded(r, k)
      PROVE  TunnelInv'
  BY <1>8, ForwardedStep
<1>9. ASSUME NEW r \in Requests, TunnelCloses(r) PROVE TunnelInv'
  BY <1>9, ClosesStep
<1>10. ASSUME (\E i \in Places : DeviceMoves(i)) \/ ApiFollows PROVE TunnelInv'
  BY <1>10, DeviceStep
<1>11. ASSUME NEW i \in Instances, StatusWritten(i) PROVE TunnelInv'
  BY <1>11, StatusStep
<1>12. CASE UNCHANGED vars
  BY <1>12
  DEF vars, device, TunnelInv, TypeOK, AnsweredOnce, StatusTellsTunnel,
      TunnelReachesDevice, TunnelCountedOnce, OpenAt, In, ApiTrails, LastHopIsHost,
      Last, FaultlessIsHome, ConnectedDeviceIsFound
<1> QED
  BY <1>1, <1>2, <1>3, <1>4, <1>5, <1>6, <1>7, <1>8, <1>9, <1>10, <1>11, <1>12
  DEF Next

\* The inductive invariant of the connect proxy, for any instances, requests
\* and failures and any number of moves of the device.
THEOREM TunnelInvariant == Spec => []TunnelInv
  BY TunnelInit, TunnelStep, PTL DEF Spec

\* A client of connect or of tunnelToDevice gets one answer and never two.
THEOREM ClientsAreAnsweredOnce == Spec => []AnsweredOnce
<1>1. TunnelInv => AnsweredOnce
  BY DEF TunnelInv
<1> QED BY <1>1, TunnelInvariant, PTL

\* A 200 from forwardRequest or node-tunnel stands for a tunnel all the way.
THEOREM TunnelsReachTheDevice == Spec => []TunnelReachesDevice
<1>1. TunnelInv => TunnelReachesDevice
  BY DEF TunnelInv
<1> QED BY <1>1, TunnelInvariant, PTL

\* ActiveTunnels, counted up and down in localConnect, is the number of open
\* tunnels.
THEOREM TunnelsAreCounted == Spec => []TunnelCountedOnce
<1>1. TunnelInv => TunnelCountedOnce
  BY DEF TunnelInv
<1> QED BY <1>1, TunnelInvariant, PTL

\* A request is forwarded at most once more than the API changes its mind,
\* whatever the Forwarded headers say: the test for its own service id alone
\* keeps connect from forwarding for ever.
THEOREM ForwardsAreBounded == Spec => []ForwardsFollowTheDevice
<1>1. TunnelInv => ForwardsFollowTheDevice
  <2> SUFFICES ASSUME TunnelInv, NEW r \in Requests
               PROVE  Len(hops[r]) <= 2 + apiChanges
    BY DEF ForwardsFollowTheDevice
  <2>1. apiChanges \in Nat /\ Len(hops[r]) \in Nat
    BY HopsTyped DEF TunnelInv, TypeOK
  <2> QED BY <2>1 DEF TunnelInv, LastHopIsHost
<1> QED BY <1>1, TunnelInvariant, PTL

\* The delay before the second attempt of connect is long enough.
THEOREM DevicesAreFound == Spec => []ConnectedDeviceIsFound
<1>1. TunnelInv => ConnectedDeviceIsFound
  BY DEF TunnelInv
<1> QED BY <1>1, TunnelInvariant, PTL

=============================================================================
