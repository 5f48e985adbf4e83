---------------------------- MODULE MovedWorker ----------------------------
(***************************************************************************)
(* The device state tracker with a history variable: the worker a device   *)
(* was on when a connect event was last sent for it.                       *)
(***************************************************************************)
EXTENDS Clients

VARIABLE connectSent

MovedInit == Init /\ connectSent = [u \in Devices |-> NoWorker]

\* The POSTs made by a step of the tracker.
NewConnects == {p \in inFlight' \ inFlight : p.event = "connect" /\ p.stage = "sent"}

MovedNext ==
  /\ Next
  /\ connectSent' = [u \in Devices |->
       IF \E p \in NewConnects : u \in p.uuids THEN targetWorkerId'[u]
                                               ELSE connectSent[u]]

MovedSpec == MovedInit /\ [][MovedNext]_<<vars, connectSent>>

\* The comment in reportUpdates on currentWorkerId: "the key is that we have
\* sent a new connect event since the worker has connected".  So when the tracker
\* is done with a connected device, the last connect event was sent when the
\* device was already on its worker.
SentSinceWorkerConnected ==
  \A u \in Devices \ Unsettled :
    targetConnected[u] = "connect" => connectSent[u] = targetWorkerId[u]

=============================================================================
