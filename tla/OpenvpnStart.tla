---------------------------- MODULE OpenvpnStart ----------------------------
(***************************************************************************)
(* How a worker (src/vpn-worker.ts) starts its OpenVPN server: start(),    *)
(* killOrphan(), connect() and releaseHold() of the class VpnManager of    *)
(* src/utils/openvpn.ts, across restarts of the worker.  A server outlives *)
(* a worker that is killed, and its pid file outlives it.                  *)
(*                                                                         *)
(* The OpenVPN processes are external.  A server writes the pid file, then *)
(* takes its ports; it exits when they are taken, and when it is told to.  *)
(***************************************************************************)
EXTENDS Integers, FiniteSets

CONSTANTS
  Pids,     \* bound: the processes that may ever be spawned
  NoPid     \* no pid file, no process: not a member of Pids

VARIABLES
  step,         \* where start() of the current worker process is
  orphan,       \* the pid that killOrphan() has read from the pid file
  signalled,    \* `error': the value of the last process.kill
  elapsed,      \* which of TERM_TIMEOUT and KILL_TIMEOUT have passed
  child,        \* this.process
  connection,   \* the server at the other end of this.connector
  pidFile,
  spawned,      \* external: pids in use, now or before
  running,        \* external: the OpenVPN processes that run
  terminating,  \* external: those that have got a SIGTERM
  released,     \* external: those whose management hold is released
  port          \* external: who listens on the management and VPN ports

worker == <<step, orphan, signalled, elapsed, child, connection>>
servers == <<pidFile, spawned, running, terminating, released, port>>
startVars == <<worker, servers>>

StartTypeOK ==
  /\ step \in {"killOrphan", "loop", "timedOut", "spawn", "waitForStart",
               "connect", "release", "started", "gone"}
  /\ orphan \in Pids \cup {NoPid}
  /\ signalled \in BOOLEAN
  /\ elapsed \in {"none", "term", "kill"}
  /\ {child, connection} \subseteq Pids \cup {NoPid}
  /\ pidFile \in Pids \cup {NoPid}
  /\ spawned \subseteq Pids /\ running \subseteq spawned
  /\ terminating \subseteq spawned /\ released \subseteq spawned
  /\ port \in Pids \cup {NoPid}

StartInit ==
  /\ step = "gone" /\ signalled = FALSE /\ elapsed = "none"
  /\ child = NoPid /\ connection = NoPid /\ orphan = NoPid /\ pidFile = NoPid
  /\ spawned = {} /\ running = {} /\ terminating = {} /\ released = {}
  /\ port = NoPid

-----------------------------------------------------------------------------
\* The orphan p is dead: its ports are free.
Dead(p) ==
  /\ running' = running \ {p}
  /\ port' = IF port = p THEN NoPid ELSE port

\* killOrphan() without a pid file, and with one: SIGTERM.  process.kill
\* returns true when there is such a process, and kill() false otherwise.
NoOrphan ==
  /\ step = "killOrphan" /\ pidFile = NoPid
  /\ step' = "spawn" /\ orphan' = NoPid
  /\ UNCHANGED <<signalled, elapsed, child, connection, servers>>

KillOrphan ==
  /\ step = "killOrphan" /\ pidFile # NoPid
  /\ orphan' = pidFile
  /\ signalled' = (pidFile \in running)
  /\ terminating' = terminating \cup ({pidFile} \cap running)
  /\ elapsed' = "none"
  /\ step' = "loop"
  /\ UNCHANGED <<child, connection, pidFile, spawned, running, released, port>>

\* while (!error)
LoopEnds ==
  /\ step = "loop" /\ signalled
  /\ step' = "spawn"
  /\ UNCHANGED <<orphan, signalled, elapsed, child, connection, servers>>

\* 100ms later: ping before TERM_TIMEOUT ...
Ping ==
  /\ step = "loop" /\ ~signalled /\ elapsed = "none"
  /\ signalled' = (orphan \in running)
  /\ elapsed' \in {"none", "term"}
  /\ UNCHANGED <<step, orphan, child, connection, servers>>

\* ... SIGKILL after it ...
Sigkill ==
  /\ step = "loop" /\ ~signalled /\ elapsed = "term"
  /\ signalled' = (orphan \in running)
  /\ Dead(orphan)
  /\ elapsed' \in {"term", "kill"}
  /\ UNCHANGED <<step, orphan, child, connection, pidFile, spawned, terminating,
                 released>>

\* ... and after KILL_TIMEOUT, TimeoutError 'orphan openvpn process did not
\* go away'.
OrphanTimeout ==
  /\ step = "loop" /\ ~signalled /\ elapsed = "kill"
  /\ step' = "timedOut"
  /\ UNCHANGED <<orphan, signalled, elapsed, child, connection, servers>>

Spawn ==
  /\ step = "spawn"
  /\ \E p \in Pids \ spawned :
       child' = p /\ running' = running \cup {p} /\ spawned' = spawned \cup {p}
  /\ step' = "waitForStart"
  /\ UNCHANGED <<orphan, signalled, elapsed, connection, pidFile, terminating,
                 released, port>>

\* waitForStart(): whoever listens on the management port, or a TimeoutError.
Ready ==
  /\ step = "waitForStart" /\ port # NoPid
  /\ step' = "connect"
  /\ UNCHANGED <<orphan, signalled, elapsed, child, connection, servers>>

StartTimeout ==
  /\ step = "waitForStart" /\ port = NoPid
  /\ step' = "gone"
  /\ UNCHANGED <<orphan, signalled, elapsed, child, connection, servers>>

\* connect(): once more to whoever listens.
Connect ==
  /\ step = "connect" /\ port # NoPid
  /\ connection' = port
  /\ step' = "release"
  /\ UNCHANGED <<orphan, signalled, elapsed, child, servers>>

\* enableBytecountReporting() and releaseHold(), which release the server at the
\* other end.  The worker registers with HAProxy.
ReleaseHold ==
  /\ step = "release" /\ connection \in running
  /\ released' = released \cup {connection}
  /\ step' = "started"
  /\ UNCHANGED <<orphan, signalled, elapsed, child, connection, pidFile, spawned,
                 running, terminating, port>>

\* The worker has a child.
Spawned == {"waitForStart", "connect", "release", "started"}

\* Mutant: nobody listens to 'process:exit'.
FatalError_NotOnExit ==
  /\ \/ step = "timedOut"
     \/ step = "connect" /\ port = NoPid
     \/ step = "release" /\ connection \notin running
  /\ step' = "gone"
  /\ UNCHANGED <<orphan, signalled, elapsed, child, connection, servers>>

\* fatalErrorHandler, on the rejection of a step or on 'process:exit'.
FatalError ==
  /\ \/ step = "timedOut"
     \/ step = "connect" /\ port = NoPid
     \/ step = "release" /\ connection \notin running
     \/ step \in Spawned /\ child \notin running
  /\ step' = "gone"
  /\ UNCHANGED <<orphan, signalled, elapsed, child, connection, servers>>

\* The worker is killed or exits for another reason; its server goes on.
WorkerExits ==
  /\ step # "gone"
  /\ step' = "gone"
  /\ UNCHANGED <<orphan, signalled, elapsed, child, connection, servers>>

\* The primary forks the first worker process, or the next.
Restart ==
  /\ step = "gone"
  /\ step' = "killOrphan" /\ child' = NoPid /\ connection' = NoPid
  /\ signalled' = FALSE
  /\ UNCHANGED <<orphan, elapsed, servers>>

-----------------------------------------------------------------------------
\* External: a server initialises, exits on its SIGTERM, or crashes.
ServerStarts(p) ==
  /\ p \in running /\ port # p
  /\ pidFile' = p
  /\ IF port = NoPid THEN port' = p /\ UNCHANGED running ELSE Dead(p)
  /\ UNCHANGED <<worker, spawned, terminating, released>>

ServerTerminates(p) ==
  /\ p \in running \cap terminating
  /\ Dead(p)
  /\ UNCHANGED <<worker, pidFile, spawned, terminating, released>>

ServerCrashes(p) ==
  /\ p \in running
  /\ Dead(p)
  /\ UNCHANGED <<worker, pidFile, spawned, terminating, released>>

StartNext ==
  \/ NoOrphan \/ KillOrphan \/ LoopEnds \/ Ping \/ Sigkill \/ OrphanTimeout
  \/ Spawn \/ Ready \/ StartTimeout \/ Connect \/ ReleaseHold
  \/ FatalError \/ WorkerExits \/ Restart
  \/ \E p \in Pids : ServerStarts(p)
  \/ \E p \in Pids : ServerTerminates(p)
  \/ \E p \in Pids : ServerCrashes(p)

\* The end of the child is noticed, and a server that was spawned gets as far as
\* its ports.
StartFairness ==
  /\ WF_startVars(FatalError)
  /\ \A p \in Pids : WF_startVars(ServerStarts(p))

StartSpec == StartInit /\ [][StartNext]_startVars

-----------------------------------------------------------------------------
\* The comment at the end of killOrphan: "the signal was unsuccessful, the pid
\* no longer exists; the process is dead, and our work here is done".  So when
\* killOrphan has returned, the process it was about does not run.
OrphanIsDead ==
  step = "spawn" => orphan \notin running

\* waitForStart() takes whoever listens on the management port for the new
\* server, also one that is terminating or has outlived killOrphan(), and so
\* does connect().  A worker does not go on with such a server: if it stays
\* started, then in the end its own child has the ports.  Unless the connection
\* was made too early, to another server, the child's hold is released, too.
EndsUpWithOwnServer ==
  <>[](step = "started") =>
    <>[](port = child /\ (connection = child => child \in released))

=============================================================================
