------------------------------- MODULE VpnApi -------------------------------
(***************************************************************************)
(* The client endpoints of the primary process, src/api.ts, between the    *)
(* OpenVPN servers that call them and the device state tracker they call.  *)
(*                                                                         *)
(* Each worker runs an OpenVPN server.  When a client connects to it or    *)
(* disconnects from it, openvpn/scripts/client-connect-disconnect.sh sends *)
(* a POST or DELETE with curl in the background: these events can overtake *)
(* one another, and a device may be connected to several workers at once.  *)
(* api.ts counts the references to a device and tells the tracker of       *)
(* Clients when a device goes online or offline.                           *)
(***************************************************************************)
EXTENDS Clients

CONSTANTS
  Sessions,       \* the VPN sessions that may ever be opened
  UuidOf,         \* the device that opens a session: its common name
  WorkerOf,       \* the worker whose OpenVPN server it is opened with
  SessionFaults   \* what may go wrong, a subset of SessionFaultKinds

\* "eventLost": the curl started by the script does not reach the primary
\* "killed":    an OpenVPN server dies and runs no disconnect scripts
SessionFaultKinds == {"eventLost", "killed"}

ASSUME VpnApiAssumption ==
  /\ IsFiniteSet(Sessions)
  /\ IsFiniteSet(Devices)
  /\ UuidOf \in [Sessions -> Devices]
  /\ WorkerOf \in [Sessions -> Workers]
  /\ SessionFaults \subseteq SessionFaultKinds

VARIABLES
  clientRefCount,    \* 0 when the Map has no entry
  onlineDevices,     \* the gauge Metrics.OnlineDevices
  session,           \* external: is the session unused, live or ended?
  connectEvent,      \* external: where the POST of the session's start is
  disconnectEvent    \* external: where the DELETE of the session's end is

sessions == <<session, connectEvent, disconnectEvent>>
apiState == <<clientRefCount, onlineDevices>>
apiVars == <<vars, apiState, sessions>>

Delivery == {"none", "sent", "delivered", "lost"}

SessionsOK ==
  /\ session \in [Sessions -> {"unused", "live", "ended"}]
  /\ connectEvent \in [Sessions -> Delivery]
  /\ disconnectEvent \in [Sessions -> Delivery]

ApiTypeOK ==
  /\ TypeOK
  /\ clientRefCount \in [Devices -> Int]
  /\ onlineDevices \in Nat
  /\ SessionsOK

ApiInit ==
  /\ Init
  /\ clientRefCount = [u \in Devices |-> 0]
  /\ onlineDevices = 0
  /\ session = [s \in Sessions |-> "unused"]
  /\ connectEvent = [s \in Sessions |-> "none"]
  /\ disconnectEvent = [s \in Sessions |-> "none"]

-----------------------------------------------------------------------------
(***************************************************************************)
(* The OpenVPN servers and their scripts.                                  *)
(***************************************************************************)

\* A client connects.  Without the duplicate-cn option, the server first
\* closes the session that the same common name still has with it.
ClientConnects(s) ==
  LET replaced == { t \in Sessions : /\ session[t] = "live"
                                     /\ UuidOf[t] = UuidOf[s]
                                     /\ WorkerOf[t] = WorkerOf[s] }
  IN  /\ session[s] = "unused"
      /\ session' = [t \in Sessions |-> IF t = s THEN "live"
                                        ELSE IF t \in replaced THEN "ended"
                                        ELSE session[t]]
      /\ connectEvent' = [connectEvent EXCEPT ![s] = "sent"]
      /\ disconnectEvent' = [t \in Sessions |-> IF t \in replaced THEN "sent"
                                                ELSE disconnectEvent[t]]
      /\ UNCHANGED <<vars, apiState>>

ClientDisconnects(s) ==
  /\ session[s] = "live"
  /\ session' = [session EXCEPT ![s] = "ended"]
  /\ disconnectEvent' = [disconnectEvent EXCEPT ![s] = "sent"]
  /\ UNCHANGED <<vars, apiState, connectEvent>>

\* The server of a worker is killed or crashes: its sessions end unreported.
OpenvpnDies(w) ==
  /\ "killed" \in SessionFaults
  /\ \E s \in Sessions : session[s] = "live" /\ WorkerOf[s] = w
  /\ session' = [s \in Sessions |-> IF session[s] = "live" /\ WorkerOf[s] = w
                                      THEN "ended" ELSE session[s]]
  /\ UNCHANGED <<vars, apiState, connectEvent, disconnectEvent>>

ConnectEventLost(s) ==
  /\ "eventLost" \in SessionFaults
  /\ connectEvent[s] = "sent"
  /\ connectEvent' = [connectEvent EXCEPT ![s] = "lost"]
  /\ UNCHANGED <<vars, apiState, session, disconnectEvent>>

DisconnectEventLost(s) ==
  /\ "eventLost" \in SessionFaults
  /\ disconnectEvent[s] = "sent"
  /\ disconnectEvent' = [disconnectEvent EXCEPT ![s] = "lost"]
  /\ UNCHANGED <<vars, apiState, session, connectEvent>>

-----------------------------------------------------------------------------
(***************************************************************************)
(* The handlers.                                                           *)
(***************************************************************************)

\* Mutants of the handlers: a connect event always reports the device; the
\* gauge counts connect events; the count of an unknown device stays 0; a
\* disconnect event out of order is reported; the gauge goes down with it.
postClients_Always(u, w) ==
  /\ clientRefCount' = [clientRefCount EXCEPT ![u] = @ + 1]
  /\ onlineDevices' = IF clientRefCount[u] = 0 THEN onlineDevices + 1
                                               ELSE onlineDevices
  /\ setConnected(u, w, "connect")

postClients_IncAlways(u, w) ==
  /\ clientRefCount' = [clientRefCount EXCEPT ![u] = @ + 1]
  /\ onlineDevices' = onlineDevices + 1
  /\ IF clientRefCount[u] >= 0 THEN setConnected(u, w, "connect")
                               ELSE UNCHANGED vars

deleteClients_Clamped(u, w) ==
  /\ clientRefCount' = [clientRefCount EXCEPT ![u] = IF @ > 0 THEN @ - 1 ELSE 0]
  /\ IF clientRefCount[u] # 1
       THEN UNCHANGED <<onlineDevices, vars>>
       ELSE onlineDevices' = onlineDevices - 1 /\ setConnected(u, w, "disconnect")

deleteClients_OutOfOrder(u, w) ==
  /\ clientRefCount' = [clientRefCount EXCEPT ![u] = @ - 1]
  /\ IF clientRefCount[u] > 1
       THEN UNCHANGED <<onlineDevices, vars>>
       ELSE onlineDevices' = onlineDevices - 1 /\ setConnected(u, w, "disconnect")

\* POST /api/v2/:worker/clients/
postClients(u, w) ==
  LET startingRefCount == clientRefCount[u]
  IN  /\ clientRefCount' = [clientRefCount EXCEPT ![u] = startingRefCount + 1]
      /\ onlineDevices' = IF startingRefCount = 0 THEN onlineDevices + 1
                                                  ELSE onlineDevices
      /\ IF startingRefCount >= 0 THEN setConnected(u, w, "connect")
                                  ELSE UNCHANGED vars

\* DELETE /api/v2/:worker/clients/
deleteClients(u, w) ==
  LET startingRefCount == clientRefCount[u]
  IN  /\ clientRefCount' = [clientRefCount EXCEPT ![u] = startingRefCount - 1]
      /\ IF startingRefCount # 1
           THEN UNCHANGED <<onlineDevices, vars>>
           ELSE /\ onlineDevices' = onlineDevices - 1
                /\ setConnected(u, w, "disconnect")

ConnectDelivered(s) ==
  /\ connectEvent[s] = "sent"
  /\ connectEvent' = [connectEvent EXCEPT ![s] = "delivered"]
  /\ postClients(UuidOf[s], WorkerOf[s])
  /\ UNCHANGED <<session, disconnectEvent>>

DisconnectDelivered(s) ==
  /\ disconnectEvent[s] = "sent"
  /\ disconnectEvent' = [disconnectEvent EXCEPT ![s] = "delivered"]
  /\ deleteClients(UuidOf[s], WorkerOf[s])
  /\ UNCHANGED <<session, connectEvent>>

-----------------------------------------------------------------------------
Environment ==
  \/ \E s \in Sessions : ClientConnects(s)
  \/ \E s \in Sessions : ClientDisconnects(s)
  \/ \E w \in Workers : OpenvpnDies(w)
  \/ \E s \in Sessions : ConnectEventLost(s)
  \/ \E s \in Sessions : DisconnectEventLost(s)

ApiNext ==
  \/ Environment
  \/ \E s \in Sessions : ConnectDelivered(s)
  \/ \E s \in Sessions : DisconnectDelivered(s)
  \/ Background /\ UNCHANGED <<apiState, sessions>>

ApiSpec == ApiInit /\ [][ApiNext]_apiVars

\* The tracker's fairness, and a script's curl that is not lost arrives.
\* Nothing makes a client connect or disconnect.
ApiFairSpec ==
  /\ ApiSpec
  /\ Fairness
  /\ \A s \in Sessions : WF_apiVars(ConnectDelivered(s))
  /\ \A s \in Sessions : WF_apiVars(DisconnectDelivered(s))

-----------------------------------------------------------------------------
(***************************************************************************)
(* Properties.                                                             *)
(***************************************************************************)
SessionsOf(u) == { s \in Sessions : UuidOf[s] = u }
Live(u) == \E s \in SessionsOf(u) : session[s] = "live"

\* Every start and every end of a session of u has been told to api.ts.
AllTold(u) ==
  \A s \in SessionsOf(u) :
    /\ session[s] # "unused" => connectEvent[s] = "delivered"
    /\ session[s] = "ended" => disconnectEvent[s] = "delivered"

\* Events overtake one another, so that the count of a device may even go
\* below 0: yet the target handed to setConnected is always that of the count.
TargetFollowsCount ==
  \A u \in Devices :
    targetConnected[u] = "connect" <=> clientRefCount[u] >= 1

\* The gauge is moved by 1 at a time in two handlers, and only on some of their
\* paths: it is always the number of devices whose target is connected.
GaugeCountsOnline ==
  onlineDevices = Cardinality({u \in Devices : targetConnected[u] = "connect"})

\* The sessions of u whose start, or end, api.ts has been told of.
Started(u) == { s \in SessionsOf(u) : connectEvent[s] = "delivered" }
Ended(u) == { s \in SessionsOf(u) : disconnectEvent[s] = "delivered" }

\* The count of a device is never adjusted but by one per event, also when it
\* is negative: it is the number of starts minus the number of ends told.  And
\* the scripts tell of no session that has not begun, or is not over.
CountIsBalance ==
  /\ \A s \in Sessions :
       /\ session[s] = "unused" => connectEvent[s] = "none"
       /\ session[s] # "ended" => disconnectEvent[s] = "none"
  /\ \A u \in Devices :
       clientRefCount[u] = Cardinality(Started(u)) - Cardinality(Ended(u))

\* End to end: when every event of a device has been delivered, in any order,
\* and the tracker is done with it, the API shows it online if and only if it
\* has a live session, whatever workers its sessions are with.
ShownIffLive ==
  \A u \in Devices \ Unsettled :
    AllTold(u) => (apiConnected[u] = "connect" <=> Live(u))

\* api.ts is a caller of the kind the tracker's specification expects: it
\* reports a disconnect only for a device it reported as connected.
ImplementsClients == Spec

\* A device all of whose events get through, in whatever order, is in the end
\* shown online by the API if and only if it has a live session.
EventuallyAccurate ==
  \A u \in Devices :
    <>[]AllTold(u) => <>[](apiConnected[u] = "connect" <=> Live(u))

=============================================================================
