------------------------------- MODULE Tunnel -------------------------------
(***************************************************************************)
(* The connect proxy, src/proxy-worker.ts with src/utils/device.ts, of     *)
(* several service instances, and the tunnel requests for one device.      *)
(*                                                                         *)
(* An instance lets a request through if the API grants access and shows   *)
(* the device as connected; it then connects to the device if that is      *)
(* local, or forwards the request to the instance that the API says        *)
(* manages the device.  That instance handles it from the start: a request *)
(* is a sequence of hops, of which only the last one is being worked on    *)
(* while the others wait for its answer.                                   *)
(*                                                                         *)
(* The device, the status files that OpenVPN writes, the API and           *)
(* node-tunnel are external.                                               *)
(***************************************************************************)
EXTENDS Integers, Sequences, FiniteSets

CONSTANTS
  Instances,   \* ids of the service instances
  Requests,    \* tunnel requests, each made at most once
  None,        \* no instance
  MaxMoves,    \* bound: how often the device changes its place
  Failures     \* what may go wrong, a subset of FailureKinds

\* "api":     a request to the API fails
\* "connect": the device refuses the connection to its port
\* "peer":    the connection to the instance forwarded to is lost
FailureKinds == {"api", "connect", "peer"}

ASSUME TunnelAssumption ==
  /\ Instances \cap {None, "unknown", "failed"} = {}
  /\ None \notin {"unknown", "failed"}
  /\ IsFiniteSet(Requests)
  /\ MaxMoves \in Nat
  /\ Failures \subseteq FailureKinds

VARIABLES
  hops,             \* for each request, the instances it has come to
  cachedAccess,     \* canAccessDevice's memoized answer at each instance
  activeTunnels,    \* the gauge Metrics.ActiveTunnels of each instance
  home,             \* external: the instance the device is connected to
  statusFile,       \* external: instances whose status file lists the device
  apiHost,          \* external: the instance that the API shows for it
  moves, apiChanges \* how often home and apiHost have changed

device == <<home, apiHost, moves, apiChanges>>
vars == <<hops, cachedAccess, activeTunnels, statusFile, device>>

Places == Instances \cup {None}

\* How far an instance has come with a request.  "open" is a tunnel, "closed"
\* one that is over, "refused" an error answer.
Stage == {"access", "online", "local", "host", "wait", "retry", "forward",
          "open", "closed", "refused"}
Over == {"open", "closed", "refused"}

\* fault: "none" if, since the request came to this instance, the device and
\* the API were here and nothing went wrong.
Hop == [at : Instances, stage : Stage, forwarded : SUBSET Instances,
        answers : Nat, status : {0, 200, 400, 403, 407, 500, 503},
        fault : {"none", "outside"}]

TypeOK ==
  /\ hops \in [Requests -> Seq(Hop)]
  /\ cachedAccess \in [Instances -> {"none", "yes", "no"}]
  /\ activeTunnels \in [Instances -> Nat]
  /\ home \in Places /\ apiHost \in Places
  /\ statusFile \subseteq Instances
  /\ moves \in 0 .. MaxMoves
  /\ apiChanges \in 0 .. moves

Init ==
  /\ hops = [r \in Requests |-> <<>>]
  /\ cachedAccess = [i \in Instances |-> "none"]
  /\ activeTunnels = [i \in Instances |-> 0]
  /\ home = None /\ apiHost = None /\ statusFile = {}
  /\ moves = 0 /\ apiChanges = 0

-----------------------------------------------------------------------------
(***************************************************************************)
(* A hop that is being worked on, and the ways it goes on.                 *)
(***************************************************************************)
Last(r) == hops[r][Len(hops[r])]
In(r, stage) == hops[r] # <<>> /\ Last(r).stage = stage

\* The k-th hop of r becomes h.
Set(r, k, h) == hops' = [hops EXCEPT ![r][k] = h]

GoOn(r, stage) == Set(r, Len(hops[r]), [Last(r) EXCEPT !.stage = stage])

\* A hop ends with an error for its client, who is answered by the given
\* number of writes, for a fault of the outside or of its own.
Refused(h, status, answers, fault) ==
  [at |-> h.at, stage |-> "refused", forwarded |-> h.forwarded,
   answers |-> h.answers + answers, status |-> status,
   fault |-> IF fault = "none" THEN h.fault ELSE fault]

\* A hop whose client is told 200.
Accepted(h, stage) ==
  [at |-> h.at, stage |-> stage, forwarded |-> h.forwarded,
   answers |-> h.answers + 1, status |-> 200, fault |-> h.fault]

\* Mutant: the catch block answers every error.
CaughtAnswers_Always(error) == 1

\* The catch block of connect answers every error but a HandledTunnelingError,
\* which the place that throws it answers itself.
CaughtAnswers(error) == IF error = "Handled" THEN 0 ELSE 1

ConnectThrows(r, error, answered, fault) ==
  Set(r, Len(hops[r]),
      Refused(Last(r), 500, answered + CaughtAnswers(error), fault))

NewHop(i, forwarded) ==
  [at |-> i, stage |-> "access", forwarded |-> forwarded, answers |-> 0,
   status |-> 0,
   fault |-> IF home = i /\ apiHost = i THEN "none" ELSE "outside"]

\* A client makes a request, with whatever Forwarded header.  parseRequest
\* refuses one without a url, or with the name of no device, at once.
Requested(r, i, forwarded) ==
  /\ hops[r] = <<>>
  /\ \/ hops' = [hops EXCEPT ![r] = <<NewHop(i, forwarded)>>]
     \/ \E status \in {400, 403} :
          hops' = [hops EXCEPT ![r] =
                     <<Refused(NewHop(i, forwarded), status, 1, "outside")>>]
  /\ UNCHANGED <<cachedAccess, activeTunnels, statusFile, device>>

-----------------------------------------------------------------------------
(***************************************************************************)
(* tunnelToDevice.                                                         *)
(***************************************************************************)

\* canAccessDevice is memoized, its failures too: they count as a refusal.
canAccessDevice(r) ==
  /\ In(r, "access")
  /\ \E answer \in {"yes", "no"} :
       /\ cachedAccess[Last(r).at] \in {"none", answer}
       /\ cachedAccess' = [cachedAccess EXCEPT ![Last(r).at] = answer]
       /\ IF answer = "yes"
            THEN GoOn(r, "online")
            ELSE Set(r, Len(hops[r]), Refused(Last(r), 407, 1, "none"))
  /\ UNCHANGED <<activeTunnels, statusFile, device>>

AccessForgotten(i) ==
  /\ cachedAccess[i] # "none"
  /\ cachedAccess' = [cachedAccess EXCEPT ![i] = "none"]
  /\ UNCHANGED <<hops, activeTunnels, statusFile, device>>

\* isDeviceConnectedToVpn; node-tunnel then calls connect.
isDeviceConnectedToVpn(r) ==
  /\ In(r, "online")
  /\ \/ apiHost # None /\ GoOn(r, "local")
     \/ apiHost = None
        /\ Set(r, Len(hops[r]), Refused(Last(r), 503, 1, "none"))
     \/ "api" \in Failures
        /\ Set(r, Len(hops[r]), Refused(Last(r), 500, 1, "outside"))
  /\ UNCHANGED <<cachedAccess, activeTunnels, statusFile, device>>

-----------------------------------------------------------------------------
(***************************************************************************)
(* connect.                                                                *)
(***************************************************************************)
deviceIsLocal(r) == Last(r).at \in statusFile

\* node-tunnel answers 200 when the connection to the device is made.
localConnect(r) ==
  LET h == Last(r)
  IN  \/ /\ home = h.at
         /\ Set(r, Len(hops[r]), Accepted(h, "open"))
         /\ activeTunnels' = [activeTunnels EXCEPT ![h.at] = @ + 1]
      \/ /\ home # h.at \/ "connect" \in Failures
         /\ ConnectThrows(r, "Other", 0, "outside")
         /\ UNCHANGED activeTunnels

Connect(r) ==
  /\ In(r, "local")
  /\ IF deviceIsLocal(r)
       THEN localConnect(r)
       ELSE GoOn(r, "host") /\ UNCHANGED activeTunnels
  /\ UNCHANGED <<cachedAccess, statusFile, device>>

\* What the API may answer: the instance or none, "unknown" for a 401, and
\* "failed" for every other error.
getDeviceVpnHost ==
  {apiHost, "unknown"} \cup {f \in {"failed"} : "api" \in Failures}

\* Mutants: a request is forwarded to this instance itself; the second attempt
\* is made without the delay.
AskForHost_Itself(r) ==
  /\ In(r, "host") /\ apiHost # None
  /\ hops' = [hops EXCEPT ![r] = Append([@ EXCEPT ![Len(@)].stage = "forward"],
                                        NewHop(apiHost, {}))]
  /\ UNCHANGED <<cachedAccess, activeTunnels, statusFile, device>>

AskForHost_NoDelay(r) ==
  /\ In(r, "host") /\ apiHost = Last(r).at /\ GoOn(r, "retry")
  /\ UNCHANGED <<cachedAccess, activeTunnels, statusFile, device>>

\* The request is forwarded to another instance, or not: there may be none, or
\* it is this one, or the header says that the request was here before.
AskForHost(r) ==
  LET h == Last(r)
      signed == [h EXCEPT !.stage = "forward", !.forwarded = @ \cup {h.at}]
  IN  /\ In(r, "host")
      /\ \E vpnHost \in getDeviceVpnHost :
           \/ vpnHost = None /\ ConnectThrows(r, "Handled", 1, "none")
           \/ vpnHost \in {"unknown", h.at} /\ GoOn(r, "wait")
           \/ vpnHost = "failed" /\ ConnectThrows(r, "API", 0, "outside")
           \/ /\ vpnHost \in Instances \ {h.at} /\ h.at \in h.forwarded
              /\ ConnectThrows(r, "Handled", 1, "none")
           \/ /\ vpnHost \in Instances \ {h.at} /\ h.at \notin h.forwarded
              \* forwardRequest does not send the header
              /\ hops' = [hops EXCEPT ![r] =
                            Append([@ EXCEPT ![Len(@)] = signed],
                                   NewHop(vpnHost, {}))]
      /\ UNCHANGED <<cachedAccess, activeTunnels, statusFile, device>>

\* The second attempt, after VPN_STATUS_FILE_WRITE_INTERVAL_SECONDS.
Retry(r) ==
  /\ In(r, "retry")
  /\ IF deviceIsLocal(r)
       THEN localConnect(r)
       ELSE ConnectThrows(r, "Handled", 1, "none") /\ UNCHANGED activeTunnels
  /\ UNCHANGED <<cachedAccess, statusFile, device>>

\* Mutants: any answer is taken for a 200; only a 200 is waited for; the
\* forwarded tunnel is counted.
Forwarded_AnyStatus(r, k) ==
  /\ k < Len(hops[r]) /\ hops[r][k].stage = "forward"
  /\ hops[r][k + 1].stage \in Over
  /\ Set(r, k, Accepted(hops[r][k], "open"))
  /\ UNCHANGED <<cachedAccess, activeTunnels, statusFile, device>>

Forwarded_Only200(r, k) ==
  /\ hops[r][k + 1].stage \in {"open", "closed"}
  /\ Forwarded_AnyStatus(r, k)

Forwarded_Counted(r, k) ==
  /\ k < Len(hops[r]) /\ hops[r][k].stage = "forward"
  /\ hops[r][k + 1].stage = "open"
  /\ Set(r, k, Accepted(hops[r][k], "open"))
  /\ activeTunnels' = [activeTunnels EXCEPT ![hops[r][k].at] = @ + 1]
  /\ UNCHANGED <<cachedAccess, statusFile, device>>

\* forwardRequest: the instance that h was forwarded to has answered, with a
\* complete header, or the connection to it is lost.
Forwarded(r, k) ==
  LET h == hops[r][k]
      next == hops[r][k + 1]
      failed == Refused(h, 500, CaughtAnswers("Remote"), "outside")
  IN  /\ k < Len(hops[r]) /\ h.stage = "forward"
      /\ \/ next.stage \in {"open", "closed"}
            /\ Set(r, k, Accepted(h, next.stage))
         \/ next.stage = "refused" /\ Set(r, k, failed)
         \/ "peer" \in Failures /\ Set(r, k, failed)
      /\ UNCHANGED <<cachedAccess, activeTunnels, statusFile, device>>

\* Mutant: the instance that the client is connected to counts down.
TunnelCloses_AtFirst(r) ==
  /\ In(r, "open")
  /\ hops' = [hops EXCEPT ![r][Len(hops[r])].stage = "closed"]
  /\ activeTunnels' = [activeTunnels EXCEPT ![hops[r][1].at] = @ - 1]
  /\ UNCHANGED <<cachedAccess, statusFile, device>>

\* on('close') of the socket to the device, which ends the tunnel.
TunnelCloses(r) ==
  /\ In(r, "open")
  /\ hops' = [hops EXCEPT ![r] =
                [k \in DOMAIN @ |-> IF @[k].stage = "open"
                                      THEN [@[k] EXCEPT !.stage = "closed"]
                                      ELSE @[k]]]
  /\ activeTunnels' = [activeTunnels EXCEPT ![Last(r).at] = @ - 1]
  /\ UNCHANGED <<cachedAccess, statusFile, device>>

-----------------------------------------------------------------------------
(***************************************************************************)
(* The device and what others know of it.                                  *)
(***************************************************************************)
Disturb ==
  hops' = [r \in Requests |->
             [k \in DOMAIN hops[r] |->
                IF hops[r][k].stage \in Over THEN hops[r][k]
                ELSE [hops[r][k] EXCEPT !.fault = "outside"]]]

DeviceMoves(i) ==
  /\ moves < MaxMoves /\ home # i
  /\ home' = i
  /\ moves' = moves + 1
  /\ Disturb
  /\ UNCHANGED <<cachedAccess, activeTunnels, statusFile, apiHost, apiChanges>>

\* The instances' reports have reached the API (see Clients).
ApiFollows ==
  /\ apiHost # home
  /\ apiHost' = home
  /\ apiChanges' = apiChanges + 1
  /\ Disturb
  /\ UNCHANGED <<cachedAccess, activeTunnels, statusFile, home, moves>>

\* An OpenVPN server writes its status file.  It does so once in the time for
\* which the second attempt is put off.
StatusWritten(i) ==
  /\ statusFile' = IF home = i THEN statusFile \cup {i} ELSE statusFile \ {i}
  /\ hops' = [r \in Requests |->
                IF In(r, "wait") /\ Last(r).at = i
                  THEN [hops[r] EXCEPT ![Len(hops[r])].stage = "retry"]
                  ELSE hops[r]]
  /\ UNCHANGED <<cachedAccess, activeTunnels, device>>

-----------------------------------------------------------------------------
Next ==
  \/ \E r \in Requests, i \in Instances, f \in SUBSET Instances : Requested(r, i, f)
  \/ \E r \in Requests : canAccessDevice(r)
  \/ \E i \in Instances : AccessForgotten(i)
  \/ \E r \in Requests : isDeviceConnectedToVpn(r)
  \/ \E r \in Requests : Connect(r)
  \/ \E r \in Requests : AskForHost(r)
  \/ \E r \in Requests : Retry(r)
  \/ \E r \in Requests : \E k \in 1 .. Len(hops[r]) - 1 : Forwarded(r, k)
  \/ \E r \in Requests : TunnelCloses(r)
  \/ \E i \in Places : DeviceMoves(i)
  \/ ApiFollows
  \/ \E i \in Instances : StatusWritten(i)

Spec == Init /\ [][Next]_vars

\* Lookups are answered or fail, forwarded requests too, and OpenVPN keeps
\* writing its status file.  No client or device need do anything.
Fairness ==
  /\ \A r \in Requests :
       /\ WF_vars(canAccessDevice(r))
       /\ WF_vars(isDeviceConnectedToVpn(r))
       /\ WF_vars(Connect(r))
       /\ WF_vars(AskForHost(r))
       /\ WF_vars(Retry(r))
       /\ WF_vars(\E k \in 1 .. Len(hops[r]) - 1 : Forwarded(r, k))
  /\ \A i \in Instances : WF_vars(StatusWritten(i))

FairSpec == Spec /\ Fairness

-----------------------------------------------------------------------------
(***************************************************************************)
(* Properties.                                                             *)
(***************************************************************************)

\* Errors are answered where they are thrown or in a catch block, depending on
\* their class: every client gets one answer, and never a second one.
AnsweredOnce ==
  \A r \in Requests : \A k \in DOMAIN hops[r] :
    hops[r][k].answers = IF hops[r][k].stage \in Over THEN 1 ELSE 0

\* A client who is told 200 has a tunnel all the way: every instance that his
\* request was forwarded to has said so too, the last one of its own.
TunnelReachesDevice ==
  \A r \in Requests : \A k \in DOMAIN hops[r] :
    hops[r][k].status = 200 =>
      \A j \in k .. Len(hops[r]) : hops[r][j].status = 200

\* ActiveTunnels of an instance counts the tunnels to devices that are local to
\* it, and not those it forwards: over all instances a tunnel counts once.
OpenAt(i) == {r \in Requests : In(r, "open") /\ Last(r).at = i}

TunnelCountedOnce ==
  \A i \in Instances : activeTunnels[i] = Cardinality(OpenAt(i))

\* An instance does not forward what the API says it manages itself: a request
\* is forwarded once, and once more for every change of the API's mind.
ForwardsFollowTheDevice ==
  \A r \in Requests : Len(hops[r]) <= 2 + apiChanges

\* The comment in connect, "to ensure it definitely has enough time to be
\* updated": a device that is connected here, and known to be so by the API,
\* all the time is not missed because its status file is behind.
ConnectedDeviceIsFound ==
  \A r \in Requests : \A k \in DOMAIN hops[r] :
    hops[r][k].stage = "refused" /\ hops[r][k].fault = "none"
      => hops[r][k].status = 407

\* What the invariants above rest on.  A client has been told 200 when there is
\* a tunnel.
StatusTellsTunnel ==
  \A r \in Requests : \A k \in DOMAIN hops[r] :
    hops[r][k].status = 200 <=> hops[r][k].stage \in {"open", "closed"}

\* Hops without a fault are where the device is; the second attempt finds it in the
\* status file.
FaultlessIsHome ==
  \A r \in Requests : \A k \in DOMAIN hops[r] :
    hops[r][k].fault = "none" /\ hops[r][k].stage \notin Over =>
      /\ home = hops[r][k].at /\ apiHost = hops[r][k].at
      /\ hops[r][k].stage = "retry" => hops[r][k].at \in statusFile

ApiTrails == apiHost # home => apiChanges < moves

\* A request that has been forwarded as often as the API allows is where the
\* API says.
LastHopIsHost ==
  \A r \in Requests :
    \/ Len(hops[r]) <= 1 + apiChanges
    \/ Len(hops[r]) = 2 + apiChanges /\ Last(r).at = apiHost

\* All of it: the inductive invariant of the connect proxy.
TunnelInv ==
  /\ TypeOK
  /\ AnsweredOnce
  /\ StatusTellsTunnel
  /\ TunnelReachesDevice
  /\ TunnelCountedOnce
  /\ ApiTrails
  /\ LastHopIsHost
  /\ FaultlessIsHome
  /\ ConnectedDeviceIsFound

\* Every request is answered, at every instance it comes to.
EveryRequestAnswered ==
  \A r \in Requests :
    hops[r] # <<>> ~> \A k \in DOMAIN hops[r] : hops[r][k].stage \in Over

\* The test 'should detect forward loops': an instance that has forwarded a
\* request, and so has signed it, does not forward it again when it comes back.
\* Every hop but the last one was forwarded.
NoForwardLoop ==
  \A r \in Requests : \A j, k \in 1 .. Len(hops[r]) - 1 :
    hops[r][j].at = hops[r][k].at => j = k

=============================================================================
