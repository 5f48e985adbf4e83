------------------------------ MODULE Cluster ------------------------------
(***************************************************************************)
(* Shutdown of the cluster: the primary process (src/init-primary.ts)      *)
(* forwards SIGTERM to its workers, every worker (src/vpn-worker.ts) takes *)
(* itself out of HAProxy, disconnects its clients and reports, and the     *)
(* primary exits when it has a report of every instance.  Meanwhile the    *)
(* primary replaces every worker that exits.                               *)
(*                                                                         *)
(* HAProxy, OpenVPN and its clients, the IPC channels and signals are      *)
(* external.                                                               *)
(***************************************************************************)
EXTENDS Integers, FiniteSets, Sequences

CONSTANTS
  Workers,      \* instance ids, 1 .. VPN_INSTANCE_COUNT
  Conns,        \* connections that clients may make, each at most once
  MaxSigterm,   \* bound: SIGTERMs sent to the primary
  MaxSignal,    \* bound: signals and uncaught exceptions in a worker process
  MaxCommands,  \* bound: commands of a worker that HAProxy has not yet read
  Runs,         \* bound: runs of drainConnections in one worker process
  Adversity     \* what may happen, a subset of AdversityKinds

\* "crash":        a worker exits by itself (openvpn exit, start-up failure)
\* "earlySignal":  SIGTERM, SIGINT or an uncaught exception reaches a worker
\*                 that is still starting
\* "early":        SIGTERM reaches the primary while a worker is starting
\* "slow":         a worker waits DEFAULT_SIGTERM_TIMEOUT in vain, because
\*                 another one needs longer to drain
\* "killFails":    a kill command sent to the management interface fails
AdversityKinds == {"crash", "earlySignal", "early", "slow", "killFails"}

ASSUME ClusterAssumption ==
  /\ IsFiniteSet(Workers) /\ Workers # {}
  /\ IsFiniteSet(Conns)
  /\ MaxSigterm \in Nat /\ MaxSignal \in Nat /\ MaxCommands \in Nat
  /\ IsFiniteSet(Runs) /\ Runs \subseteq Nat
  /\ Adversity \subseteq AdversityKinds

VARIABLES
  primary,        \* is the primary process still running?
  sigterms,       \* SIGTERMs it has received
  workerStates,   \* the instances it has a drain report of
  reports,        \* drain messages on their way to it
  phase,          \* of the worker process of an instance
  mailbox,        \* prepareShutdown messages on their way to the process
  signals,        \* signals and uncaught exceptions the process has had
  drainIsNoop,    \* the variable drainConnections holds the no-op
  run,            \* how far each run of drainConnections has come
  visited,        \* the clients its loop has been through
  clientCache,
  killing,        \* kill commands under way in the background
  commands,       \* external: commands written to the socket of HAProxy
  haproxy,        \* external: state of the server in the backend vpn-workers
  conn,           \* external: state of a connection
  at              \* external: the instance a connection was routed to

primaryVars == <<primary, sigterms, workerStates>>
drainVars == <<signals, drainIsNoop, run, visited>>
proxy == <<commands, haproxy>>
clientVars == <<clientCache, killing, conn, at>>
vars == <<primaryVars, reports, phase, mailbox, drainVars, clientVars, proxy>>

RunStage == {"idle", "haproxy", "killing", "waiting"}

TypeOK ==
  /\ primary \in {"running", "exited"}
  /\ sigterms \in 0 .. MaxSigterm
  /\ workerStates \subseteq Workers
  /\ reports \subseteq Workers
  /\ phase \in [Workers -> {"starting", "ready", "gone"}]
  /\ mailbox \in [Workers -> 0 .. MaxSigterm]
  /\ signals \in [Workers -> 0 .. MaxSignal]
  /\ drainIsNoop \in [Workers -> BOOLEAN]
  /\ run \in [Workers -> [Runs -> RunStage]]
  /\ visited \in [Workers -> [Runs -> SUBSET Conns]]
  /\ clientCache \in [Workers -> SUBSET Conns]
  /\ killing \in [Workers -> SUBSET Conns]
  /\ commands \in [Workers -> Seq({"ready", "drain"})]
  /\ haproxy \in [Workers -> {"maint", "ready", "drain"}]
  /\ conn \in [Conns -> {"none", "handshake", "connected", "closed"}]
  /\ at \in [Conns -> Workers]

Init ==
  /\ primary = "running" /\ sigterms = 0
  /\ workerStates = {} /\ reports = {}
  /\ phase = [w \in Workers |-> "starting"]
  /\ mailbox = [w \in Workers |-> 0]
  /\ signals = [w \in Workers |-> 0]
  /\ drainIsNoop = [w \in Workers |-> FALSE]
  /\ run = [w \in Workers |-> [i \in Runs |-> "idle"]]
  /\ visited = [w \in Workers |-> [i \in Runs |-> {}]]
  /\ clientCache = [w \in Workers |-> {}]
  /\ killing = [w \in Workers |-> {}]
  /\ commands = [w \in Workers |-> <<>>]
  /\ haproxy = [w \in Workers |-> "maint"]
  /\ conn = [c \in Conns |-> "none"]
  /\ at \in [Conns -> Workers]

-----------------------------------------------------------------------------
(***************************************************************************)
(* The primary.                                                            *)
(***************************************************************************)

\* on('SIGTERM'): every worker of cluster.workers is told.
Sigterm ==
  /\ primary = "running" /\ sigterms < MaxSigterm
  /\ "early" \in Adversity \/ \A w \in Workers : phase[w] = "ready"
  /\ sigterms' = sigterms + 1
  /\ mailbox' = [w \in Workers |-> IF phase[w] = "gone" THEN mailbox[w]
                                                        ELSE mailbox[w] + 1]
  /\ UNCHANGED <<primary, workerStates, reports, phase, drainVars, clientVars,
                 proxy>>

\* Mutant: the first report is taken for the last.
DrainReport_First(w) ==
  /\ primary = "running" /\ w \in reports
  /\ reports' = reports \ {w}
  /\ workerStates' = workerStates \cup {w}
  /\ primary' = "exited"
  /\ UNCHANGED <<sigterms, phase, mailbox, drainVars, clientVars, proxy>>

\* on('message') of type 'drain'.
DrainReport(w) ==
  /\ primary = "running" /\ w \in reports
  /\ reports' = reports \ {w}
  /\ workerStates' = workerStates \cup {w}
  /\ primary' = IF Cardinality(workerStates') >= Cardinality(Workers)
                  THEN "exited" ELSE primary
  /\ UNCHANGED <<sigterms, phase, mailbox, drainVars, clientVars, proxy>>

\* on('exit'): a process with the same WORKER_ID is forked.  The OpenVPN server
\* left behind is replaced, and its connections end (see OpenvpnStart).
restartWorker(w) ==
  /\ primary = "running" /\ phase[w] = "gone"
  /\ phase' = [phase EXCEPT ![w] = "starting"]
  /\ conn' = [c \in Conns |-> IF at[c] = w /\ conn[c] # "none" THEN "closed"
                                                               ELSE conn[c]]
  /\ UNCHANGED <<primaryVars, reports, mailbox, drainVars, clientCache, killing,
                 at, proxy>>

-----------------------------------------------------------------------------
(***************************************************************************)
(* A worker.                                                               *)
(***************************************************************************)
Alive(w) == primary = "running" /\ phase[w] # "gone"

\* The commands of the HAProxy class.  Both methods return when the command is
\* written; nobody waits for HAProxy.
Command(w, state) ==
  /\ Len(commands[w]) < MaxCommands
  /\ commands' = [commands EXCEPT ![w] = Append(@, state)]
  /\ UNCHANGED haproxy

register(w) == Command(w, "ready")
drain(w) == Command(w, "drain")

\* The start-up succeeds: the worker registers with HAProxy, then listens for
\* prepareShutdown.
Started(w) ==
  /\ primary = "running" /\ phase[w] = "starting"
  /\ phase' = [phase EXCEPT ![w] = "ready"]
  /\ register(w)
  /\ UNCHANGED <<primaryVars, reports, mailbox, drainVars, clientVars>>

\* A call of the original drainConnections, in the first run not in use.
drainConnections(w) ==
  \E i \in Runs :
    /\ run[w][i] = "idle" /\ \A j \in Runs : run[w][j] = "idle" => i <= j
    /\ drainIsNoop' = [drainIsNoop EXCEPT ![w] = TRUE]
    /\ run' = [run EXCEPT ![w][i] = "haproxy"]
    /\ visited' = [visited EXCEPT ![w][i] = {}]

\* Mutant: the listener holds on to the original function.
PrepareShutdown_Original(w) ==
  /\ Alive(w) /\ mailbox[w] > 0
  /\ mailbox' = [mailbox EXCEPT ![w] = @ - 1]
  /\ IF phase[w] = "ready" THEN drainConnections(w)
                          ELSE UNCHANGED <<drainIsNoop, run, visited>>
  /\ UNCHANGED <<primaryVars, reports, phase, signals, clientVars, proxy>>

\* on('message') prepareShutdown, once that listener is there: it calls what
\* the variable holds by then.  Before, the message is lost.
PrepareShutdown(w) ==
  /\ Alive(w) /\ mailbox[w] > 0
  /\ mailbox' = [mailbox EXCEPT ![w] = @ - 1]
  /\ IF phase[w] = "ready" /\ ~drainIsNoop[w] THEN drainConnections(w)
       ELSE UNCHANGED <<drainIsNoop, run, visited>>
  /\ UNCHANGED <<primaryVars, reports, phase, signals, clientVars, proxy>>

\* SIGINT, SIGTERM or uncaughtException: these listeners were registered
\* with the original function.
WorkerSignal(w) ==
  /\ Alive(w) /\ signals[w] < MaxSignal
  /\ phase[w] = "ready" \/ "earlySignal" \in Adversity
  /\ signals' = [signals EXCEPT ![w] = @ + 1]
  /\ drainConnections(w)
  /\ UNCHANGED <<primaryVars, reports, phase, mailbox, clientVars, proxy>>

\* Mutants: HAProxy is not told, or told a state it does not know; a worker
\* without clients returns before it reports.
HaproxyDrained_NotTold(w, i) ==
  /\ Alive(w) /\ run[w][i] = "haproxy"
  /\ run' = [run EXCEPT ![w][i] = "killing"]
  /\ UNCHANGED <<primaryVars, reports, phase, mailbox, signals, drainIsNoop,
                 visited, clientVars, proxy>>

HaproxyDrained_Misspelt(w, i) ==
  /\ Alive(w) /\ run[w][i] = "haproxy"
  /\ Command(w, "draining")
  /\ run' = [run EXCEPT ![w][i] = "killing"]
  /\ UNCHANGED <<primaryVars, reports, phase, mailbox, signals, drainIsNoop,
                 visited, clientVars>>

HaproxyDrained_NoReport(w, i) ==
  /\ Alive(w) /\ run[w][i] = "haproxy"
  /\ drain(w)
  /\ run' = [run EXCEPT ![w][i] = IF clientCache[w] = {} THEN "idle" ELSE "killing"]
  /\ UNCHANGED <<primaryVars, reports, phase, mailbox, signals, drainIsNoop,
                 visited, clientVars>>

\* The command to HAProxy is written; with no client in the cache the loop is
\* skipped.  While the socket refuses the connection, the rejection of this run
\* becomes an uncaughtException, for which another one is begun: the run stays
\* where it is.
HaproxyDrained(w, i) ==
  /\ Alive(w) /\ run[w][i] = "haproxy"
  /\ drain(w)
  /\ IF clientCache[w] = {}
       THEN /\ run' = [run EXCEPT ![w][i] = "waiting"]
            /\ reports' = reports \cup {w}
       ELSE /\ run' = [run EXCEPT ![w][i] = "killing"]
            /\ UNCHANGED reports
  /\ UNCHANGED <<primaryVars, phase, mailbox, signals, drainIsNoop, visited,
                 clientVars>>

\* The loop over the clientCache, which also meets clients added meanwhile.
KillNext(w, i) ==
  /\ Alive(w) /\ run[w][i] = "killing"
  /\ \E c \in clientCache[w] \ visited[w][i] :
       /\ visited' = [visited EXCEPT ![w][i] = @ \cup {c}]
       /\ killing' = [killing EXCEPT ![w] = @ \cup {c}]
  /\ UNCHANGED <<primaryVars, reports, phase, mailbox, signals, drainIsNoop,
                 run, clientCache, conn, at, proxy>>

LoopDone(w, i) ==
  /\ Alive(w) /\ run[w][i] = "killing"
  /\ clientCache[w] \subseteq visited[w][i]
  /\ run' = [run EXCEPT ![w][i] = "waiting"]
  /\ reports' = reports \cup {w}
  /\ UNCHANGED <<primaryVars, phase, mailbox, signals, drainIsNoop, visited,
                 clientVars, proxy>>

\* killClient in the background; its failure is logged.
KillClient(w, c) ==
  /\ Alive(w) /\ c \in killing[w]
  /\ killing' = [killing EXCEPT ![w] = @ \ {c}]
  /\ \/ conn' = [conn EXCEPT ![c] = "closed"]
     \/ "killFails" \in Adversity /\ UNCHANGED conn
  /\ UNCHANGED <<primaryVars, reports, phase, mailbox, drainVars, clientCache,
                 at, proxy>>

\* What the process held goes with it.  Its reports and commands do not, and its
\* OpenVPN server stays.
Exit(w) ==
  /\ phase' = [phase EXCEPT ![w] = "gone"]
  /\ mailbox' = [mailbox EXCEPT ![w] = 0]
  /\ signals' = [signals EXCEPT ![w] = 0]
  /\ drainIsNoop' = [drainIsNoop EXCEPT ![w] = FALSE]
  /\ run' = [run EXCEPT ![w] = [i \in Runs |-> "idle"]]
  /\ visited' = [visited EXCEPT ![w] = [i \in Runs |-> {}]]
  /\ clientCache' = [clientCache EXCEPT ![w] = {}]
  /\ killing' = [killing EXCEPT ![w] = {}]
  /\ UNCHANGED <<primaryVars, reports, conn, at, proxy>>

\* No instance is still on its way to a drain report.
AllReported ==
  /\ reports = {}
  /\ \A w \in Workers : /\ mailbox[w] = 0
                        /\ \A i \in Runs : run[w][i] \in {"idle", "waiting"}

\* DEFAULT_SIGTERM_TIMEOUT after the report: process.exit(0).
WaitOver(w, i) ==
  /\ Alive(w) /\ run[w][i] = "waiting"
  /\ "slow" \in Adversity \/ AllReported
  /\ Exit(w)

\* fatalErrorHandler, or a failure to start.
Crash(w) ==
  /\ "crash" \in Adversity
  /\ Alive(w)
  /\ Exit(w)

-----------------------------------------------------------------------------
(***************************************************************************)
(* HAProxy and clients.  HAProxy takes commands in the order they were     *)
(* written, and routes new connections to the servers in state ready; the  *)
(* management interface tells the worker when one is established.          *)
(***************************************************************************)
HaproxyObeys(w) ==
  /\ commands[w] # <<>>
  /\ haproxy' = [haproxy EXCEPT ![w] = Head(commands[w])]
  /\ commands' = [commands EXCEPT ![w] = Tail(@)]
  /\ UNCHANGED <<primaryVars, reports, phase, mailbox, drainVars, clientVars>>

Routed(c) ==
  /\ primary = "running" /\ conn[c] = "none" /\ haproxy[at[c]] = "ready"
  /\ conn' = [conn EXCEPT ![c] = "handshake"]
  /\ UNCHANGED <<primaryVars, reports, phase, mailbox, drainVars, clientCache,
                 killing, at, proxy>>

Established(c) ==
  /\ Alive(at[c]) /\ conn[c] = "handshake"
  /\ conn' = [conn EXCEPT ![c] = "connected"]
  /\ clientCache' = [clientCache EXCEPT ![at[c]] = @ \cup {c}]
  /\ UNCHANGED <<primaryVars, reports, phase, mailbox, drainVars, killing, at,
                 proxy>>

\* A client leaves.  The entry in the clientCache stays.
Leaves(c) ==
  /\ primary = "running" /\ conn[c] \in {"handshake", "connected"}
  /\ conn' = [conn EXCEPT ![c] = "closed"]
  /\ UNCHANGED <<primaryVars, reports, phase, mailbox, drainVars, clientCache,
                 killing, at, proxy>>

-----------------------------------------------------------------------------
WorkerNext(w) ==
  \/ DrainReport(w) \/ restartWorker(w) \/ Started(w)
  \/ PrepareShutdown(w) \/ WorkerSignal(w) \/ Crash(w) \/ HaproxyObeys(w)
  \/ \E i \in Runs : HaproxyDrained(w, i)
  \/ \E i \in Runs : KillNext(w, i)
  \/ \E i \in Runs : LoopDone(w, i)
  \/ \E i \in Runs : WaitOver(w, i)
  \/ \E c \in Conns : KillClient(w, c)

Next ==
  \/ Sigterm
  \/ \E w \in Workers : WorkerNext(w)
  \/ \E c \in Conns : Routed(c) \/ Established(c) \/ Leaves(c)

Spec == Init /\ [][Next]_vars

\* The event loops and timers of the processes and the IPC channels make
\* progress, and HAProxy accepts a connection in the end; a signal, a crash or a
\* client need never come.
Fairness ==
  \A w \in Workers :
    /\ WF_vars(DrainReport(w))
    /\ WF_vars(restartWorker(w))
    /\ WF_vars(Started(w)) /\ WF_vars(HaproxyObeys(w))
    /\ WF_vars(PrepareShutdown(w))
    /\ \A i \in Runs : /\ WF_vars(HaproxyDrained(w, i))
                       /\ WF_vars(KillNext(w, i))
                       /\ WF_vars(LoopDone(w, i))
                       /\ WF_vars(WaitOver(w, i))

FairSpec == Spec /\ Fairness

-----------------------------------------------------------------------------
(***************************************************************************)
(* Properties.                                                             *)
(***************************************************************************)

\* The comment in drainConnections, "Only run once": however many shutdown
\* requests a worker process gets, it is drained by one run.
OneDrainRun ==
  \A w \in Workers : \A i, j \in Runs :
    run[w][i] # "idle" /\ run[w][j] # "idle" => i = j

\* What of "Only run once" holds: prepareShutdown messages begin one run between
\* them, however they fall before, between and after signals; every further
\* run of a process is due to a signal or an uncaught exception of its own.
OneRunForMessages ==
  \A w \in Workers :
    Cardinality({i \in Runs : run[w][i] # "idle"}) <= signals[w] + 1

\* The state HAProxy will have for w when it has caught up.
HeadedFor(w) ==
  IF commands[w] = <<>> THEN haproxy[w] ELSE commands[w][Len(commands[w])]

\* The process of w has sent its report.
HasReported(w) == \E i \in Runs : run[w][i] = "waiting"

\* The primary logs 'all .. worker(s) drained' and exits: no instance is left
\* open to new connections, but for those whose drained process has meanwhile
\* been replaced.
ExitOnlyWhenDrained ==
  primary = "exited" =>
    \A w \in Workers :
      w \in workerStates /\ (HasReported(w) => HeadedFor(w) = "drain")

\* A client is told to disconnect only after HAProxy has been told to stop
\* routing to its worker: it would come straight back otherwise.
KilledOnlyWhenDrained ==
  \A w \in Workers : killing[w] # {} => HeadedFor(w) = "drain"

\* The runs of drainConnections that the process of w has begun.
Begun(w) == {i \in Runs : run[w][i] # "idle"}

\* A run first replaces the function that prepareShutdown calls.
BegunMeansNoop == \A w \in Workers : Begun(w) # {} => drainIsNoop[w]

\* There are no more messages on their way than SIGTERMs forwarded.
MailIsForwarded == \A w \in Workers : mailbox[w] <= sigterms

\* A process has no run before it has registered with HAProxy, unless a signal
\* comes early: no registration undoes a drain.
RunsComeAfterRegister ==
  "earlySignal" \notin Adversity =>
    \A w \in Workers : phase[w] # "ready" => Begun(w) = {} /\ killing[w] = {}

\* HAProxy is headed for "drain" while the clients are gone through, while kills
\* are under way in the background and after the report.
DrainIsLast ==
  "earlySignal" \notin Adversity =>
    \A w \in Workers :
      (\E i \in Runs : run[w][i] \in {"killing", "waiting"}) \/ killing[w] # {}
        => HeadedFor(w) = "drain"

\* The primary exits with a report of every instance.
ExitedWithAllReports == primary = "exited" => workerStates = Workers

\* Inductive: what the shutdown keeps true at every step, types included.
ClusterInv ==
  /\ TypeOK
  /\ MailIsForwarded
  /\ BegunMeansNoop
  /\ OneRunForMessages
  /\ RunsComeAfterRegister
  /\ DrainIsLast
  /\ ExitedWithAllReports

\* Nobody has asked the process of w to drain, and nobody is going to: it was
\* forked or still starting when the message was sent.
Missed(w) ==
  /\ w \notin workerStates \cup reports
  /\ mailbox[w] = 0 /\ ~drainIsNoop[w]

\* "the master should exit when all workers have signaled completion": SIGTERM
\* ends the primary, unless a worker has missed the message; whatever else the
\* workers run into, no report is left out.
ShutdownCompletes ==
  sigterms > 0 ~> primary = "exited" \/ \E w \in Workers : Missed(w)

=============================================================================
