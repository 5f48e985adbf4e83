------------------------------ MODULE Reporter ------------------------------
(***************************************************************************)
(* What the device state tracker of src/utils/clients.ts promises, without *)
(* its loop, chunks and requests.  A board (the balena API) shows a state  *)
(* for every device.  It may lag behind the target only for the devices    *)
(* marked dirty, only their entries are ever written, and the mark goes    *)
(* when the board shows the target and at no other time.                   *)
(***************************************************************************)
CONSTANT Devices

VARIABLES target, board, dirty

vars == <<target, board, dirty>>

State == {"connect", "disconnect"}

Init ==
  /\ target = [d \in Devices |-> "disconnect"]
  /\ board = [d \in Devices |-> "disconnect"]
  /\ dirty = {}

\* A new target is asked for; it may be the one the board shows already.
Ask(d, s) ==
  /\ target' = [target EXCEPT ![d] = s]
  /\ \/ dirty' = dirty \cup {d}
     \/ d \notin dirty /\ board[d] = s /\ dirty' = dirty
  /\ UNCHANGED board

\* Some dirty devices are written to the board together.
Write(D, s) ==
  /\ D \subseteq dirty
  /\ board' = [d \in Devices |-> IF d \in D THEN s ELSE board[d]]
  /\ UNCHANGED <<target, dirty>>

\* Devices for which the board has caught up are done with.
Done(D) ==
  /\ D \subseteq dirty
  /\ \A d \in D : board[d] = target[d]
  /\ dirty' = dirty \ D
  /\ UNCHANGED <<target, board>>

Next ==
  \/ \E d \in Devices, s \in State : Ask(d, s)
  \/ \E D \in SUBSET Devices, s \in State : Write(D, s)
  \/ \E D \in SUBSET Devices : Done(D)

Spec == Init /\ [][Next]_vars

\* What a reader of the board may rely on.
CleanIsCurrent == \A d \in Devices \ dirty : board[d] = target[d]

=============================================================================
