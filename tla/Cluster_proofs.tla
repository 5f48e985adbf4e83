--------------------------- MODULE Cluster_proofs ---------------------------
(***************************************************************************)
(* Proofs about the shutdown of the cluster, for any finite numbers of     *)
(* workers, connections, SIGTERMs, signals and runs, whatever of Adversity *)
(* may happen.                                                             *)
(***************************************************************************)
EXTENDS Cluster, FiniteSetTheorems, SequenceTheorems, TLAPS

\* The last command of a worker is what HAProxy is headed for, so a command
\* written changes it and one carried out does not.
LEMMA WrittenIsHeadedFor ==
  ASSUME TypeOK, NEW w \in Workers, NEW state \in {"ready", "drain"},
         Command(w, state)
  PROVE  /\ HeadedFor(w)' = state
         /\ \A v \in Workers \ {w} : HeadedFor(v)' = HeadedFor(v)
         /\ commands' \in [Workers -> Seq({"ready", "drain"})]
<1>1. commands[w] \in Seq({"ready", "drain"})
  BY DEF TypeOK
<1>2. commands'[w] = Append(commands[w], state)
  BY DEF TypeOK, Command
<1>3. /\ Append(commands[w], state) # <<>>
      /\ Append(commands[w], state) \in Seq({"ready", "drain"})
      /\ Len(Append(commands[w], state)) = Len(commands[w]) + 1
      /\ Append(commands[w], state)[Len(commands[w]) + 1] = state
  BY <1>1
<1>4. HeadedFor(w)' = state
  BY <1>2, <1>3 DEF HeadedFor
<1>5. \A v \in Workers \ {w} : HeadedFor(v)' = HeadedFor(v)
  BY DEF HeadedFor, Command, TypeOK
<1>6. commands' \in [Workers -> Seq({"ready", "drain"})]
  BY <1>3 DEF Command, TypeOK
<1> QED BY <1>4, <1>5, <1>6

\* To take the first command away leaves the last one, if it is not the first.
LEMMA TailKeepsLast ==
  ASSUME NEW S, NEW q \in Seq(S), q # <<>>
  PROVE  /\ Head(q) \in S /\ Tail(q) \in Seq(S)
         /\ q[Len(q)] = IF Tail(q) = <<>> THEN Head(q) ELSE Tail(q)[Len(Tail(q))]
<1>1. Len(q) \in Nat \ {0}
  BY EmptySeq
<1>2. Head(q) \in S /\ Tail(q) \in Seq(S)
  BY HeadTailProperties
<1>3. Len(Tail(q)) = Len(q) - 1 /\ Head(q) = q[1]
  BY HeadTailProperties
<1>4. \A i \in 1 .. Len(Tail(q)) : Tail(q)[i] = q[i + 1]
  BY HeadTailProperties
<1>5. Tail(q) = <<>> <=> Len(q) = 1
  <2>1. Tail(q) # <<>> => Len(Tail(q)) \in Nat \ {0}
    BY <1>2, EmptySeq
  <2>2. Tail(q) = <<>> => Len(Tail(q)) = 0
    BY EmptySeq
  <2> QED BY <1>1, <1>3, <2>1, <2>2
<1>6. Tail(q) # <<>> => Tail(q)[Len(Tail(q))] = q[Len(q)]
  BY <1>1, <1>3, <1>4, <1>5
<1> QED BY <1>1, <1>2, <1>3, <1>5, <1>6

\* What HAProxy carries out does not change what it is headed for.
LEMMA ObeyedIsHeadedFor ==
  ASSUME TypeOK, NEW w \in Workers, HaproxyObeys(w)
  PROVE  /\ \A v \in Workers : HeadedFor(v)' = HeadedFor(v)
         /\ commands' \in [Workers -> Seq({"ready", "drain"})]
         /\ haproxy' \in [Workers -> {"maint", "ready", "drain"}]
<1>1. commands[w] \in Seq({"ready", "drain"}) /\ commands[w] # <<>>
  BY DEF TypeOK, HaproxyObeys
<1>2. /\ Head(commands[w]) \in {"ready", "drain"}
      /\ Tail(commands[w]) \in Seq({"ready", "drain"})
  BY <1>1, TailKeepsLast, Zenon
<1>3. commands'[w] = Tail(commands[w]) /\ haproxy'[w] = Head(commands[w])
  BY DEF HaproxyObeys, TypeOK
<1>4. HeadedFor(w)' = HeadedFor(w)
  <2>1. commands[w][Len(commands[w])] =
          IF Tail(commands[w]) = <<>>
            THEN Head(commands[w])
            ELSE Tail(commands[w])[Len(Tail(commands[w]))]
    BY <1>1, TailKeepsLast, Zenon
  <2> QED BY <1>1, <1>3, <2>1, Zenon DEF HeadedFor
<1>5. \A v \in Workers \ {w} : HeadedFor(v)' = HeadedFor(v)
  BY DEF HeadedFor, HaproxyObeys, TypeOK
<1>6. commands' \in [Workers -> Seq({"ready", "drain"})]
  BY <1>2 DEF HaproxyObeys, TypeOK
<1>7. haproxy' \in [Workers -> {"maint", "ready", "drain"}]
  BY <1>2 DEF HaproxyObeys, TypeOK
<1> QED BY <1>4, <1>5, <1>6, <1>7

-----------------------------------------------------------------------------
\* Nothing has begun, nothing was written, nobody has reported.
LEMMA ClusterInit == Init => ClusterInv
<1> SUFFICES ASSUME Init PROVE ClusterInv
  OBVIOUS
<1>1. TypeOK
  BY ClusterAssumption DEF Init, TypeOK, RunStage
<1>2. \A w \in Workers : Begun(w) = {}
  BY DEF Init, Begun
<1>3. OneRunForMessages
  <2>1. \A w \in Workers : Cardinality(Begun(w)) = 0 /\ signals[w] = 0
    BY <1>2, FS_EmptySet DEF Init
  <2> QED BY <2>1 DEF OneRunForMessages, Begun
<1>4. MailIsForwarded /\ BegunMeansNoop /\ RunsComeAfterRegister /\ ExitedWithAllReports
  BY <1>2 DEF Init, MailIsForwarded, BegunMeansNoop, RunsComeAfterRegister,
              ExitedWithAllReports
<1>5. DrainIsLast
  BY DEF Init, DrainIsLast
<1> QED BY <1>1, <1>3, <1>4, <1>5 DEF ClusterInv

-----------------------------------------------------------------------------
(***************************************************************************)
(* What the pieces of code that several actions share do.                  *)
(***************************************************************************)

\* drainConnections: one more run of w is begun, and the variable holds the no-op.
LEMMA RunBegins ==
  ASSUME TypeOK, NEW w \in Workers, drainConnections(w)
  PROVE  /\ run' \in [Workers -> [Runs -> RunStage]]
         /\ visited' \in [Workers -> [Runs -> SUBSET Conns]]
         /\ drainIsNoop' = [drainIsNoop EXCEPT ![w] = TRUE]
         /\ \E i \in Runs : Begun(w)' = Begun(w) \cup {i}
         /\ \A v \in Workers \ {w} : Begun(v)' = Begun(v)
         /\ \A v \in Workers, i \in Runs :
              run'[v][i] = run[v][i] \/ run'[v][i] = "haproxy"
<1>1. PICK i \in Runs : /\ run' = [run EXCEPT ![w][i] = "haproxy"]
                        /\ visited' = [visited EXCEPT ![w][i] = {}]
                        /\ drainIsNoop' = [drainIsNoop EXCEPT ![w] = TRUE]
  BY DEF drainConnections
<1>2. run' \in [Workers -> [Runs -> RunStage]]
  BY <1>1 DEF TypeOK, RunStage
<1>3. visited' \in [Workers -> [Runs -> SUBSET Conns]]
  BY <1>1 DEF TypeOK
<1>4. \A v \in Workers, j \in Runs :
        run'[v][j] = IF v = w /\ j = i THEN "haproxy" ELSE run[v][j]
  BY <1>1 DEF TypeOK
<1>5. Begun(w)' = Begun(w) \cup {i}
  BY <1>4 DEF Begun
<1>6. \A v \in Workers \ {w} : Begun(v)' = Begun(v)
  BY <1>4 DEF Begun
<1> QED BY <1>1, <1>2, <1>3, <1>4, <1>5, <1>6

\* A run that goes on is still a run.
LEMMA RunGoesOn ==
  ASSUME TypeOK, NEW w \in Workers, NEW i \in Runs, run[w][i] # "idle",
         NEW stage \in {"killing", "waiting"},
         run' = [run EXCEPT ![w][i] = stage]
  PROVE  /\ run' \in [Workers -> [Runs -> RunStage]]
         /\ \A v \in Workers : Begun(v)' = Begun(v)
         /\ \A v \in Workers \ {w} : run'[v] = run[v]
<1>1. run' \in [Workers -> [Runs -> RunStage]]
  BY DEF TypeOK, RunStage
<1>2. \A v \in Workers, j \in Runs :
        run'[v][j] = IF v = w /\ j = i THEN stage ELSE run[v][j]
  BY DEF TypeOK
<1>3. \A v \in Workers : Begun(v)' = Begun(v)
  BY <1>2 DEF Begun
<1>4. \A v \in Workers \ {w} : run'[v] = run[v]
  BY DEF TypeOK
<1> QED BY <1>1, <1>3, <1>4

\* A process that exits takes its runs and its background work with it.
LEMMA ExitForgets ==
  ASSUME TypeOK, NEW w \in Workers, Exit(w)
  PROVE  /\ TypeOK'
         /\ Begun(w)' = {} /\ killing'[w] = {} /\ mailbox'[w] = 0
         /\ \A i \in Runs : run'[w][i] = "idle"
         /\ \A v \in Workers \ {w} :
              /\ Begun(v)' = Begun(v) /\ run'[v] = run[v]
              /\ killing'[v] = killing[v] /\ mailbox'[v] = mailbox[v]
              /\ drainIsNoop'[v] = drainIsNoop[v] /\ signals'[v] = signals[v]
              /\ phase'[v] = phase[v]
<1>1. TypeOK'
  BY ClusterAssumption DEF Exit, TypeOK, RunStage, primaryVars, proxy
<1>2. run'[w] = [i \in Runs |-> "idle"] /\ \A v \in Workers \ {w} : run'[v] = run[v]
  BY DEF TypeOK, Exit
<1>3. Begun(w)' = {} /\ \A v \in Workers \ {w} : Begun(v)' = Begun(v)
  BY <1>2 DEF Begun
<1>4. /\ killing'[w] = {} /\ mailbox'[w] = 0
      /\ \A v \in Workers \ {w} :
           /\ killing'[v] = killing[v] /\ mailbox'[v] = mailbox[v]
           /\ drainIsNoop'[v] = drainIsNoop[v] /\ signals'[v] = signals[v]
           /\ phase'[v] = phase[v]
  BY DEF TypeOK, Exit
<1> QED BY <1>1, <1>2, <1>3, <1>4

-----------------------------------------------------------------------------
(***************************************************************************)
(* Types.                                                                  *)
(***************************************************************************)

\* Every handler keeps the types, and no worker gets more prepareShutdown
\* messages than SIGTERMs were sent.
LEMMA TypeStep ==
  TypeOK /\ MailIsForwarded /\ [Next]_vars => TypeOK' /\ MailIsForwarded'
<1> SUFFICES ASSUME TypeOK, MailIsForwarded, [Next]_vars
             PROVE  TypeOK' /\ MailIsForwarded'
  OBVIOUS
<1> USE DEF primaryVars, drainVars, proxy, clientVars
<1>1. CASE Sigterm
  <2>1. sigterms' \in 0 .. MaxSigterm
    BY <1>1, ClusterAssumption DEF Sigterm, TypeOK
  <2>2. \A w \in Workers : mailbox'[w] \in 0 .. MaxSigterm /\ mailbox'[w] <= sigterms'
    BY <1>1, <2>1, ClusterAssumption DEF Sigterm, TypeOK, MailIsForwarded
  <2>3. mailbox' \in [Workers -> 0 .. MaxSigterm]
    BY <1>1, <2>2 DEF Sigterm
  <2> QED BY <1>1, <2>1, <2>2, <2>3 DEF Sigterm, TypeOK, MailIsForwarded
<1>2. ASSUME NEW w \in Workers, DrainReport(w) PROVE TypeOK' /\ MailIsForwarded'
  BY <1>2 DEF DrainReport, TypeOK, MailIsForwarded
<1>3. ASSUME NEW w \in Workers, restartWorker(w) PROVE TypeOK' /\ MailIsForwarded'
  BY <1>3 DEF restartWorker, TypeOK, MailIsForwarded
<1>4. ASSUME NEW w \in Workers, Started(w) PROVE TypeOK' /\ MailIsForwarded'
  <2>1. commands' \in [Workers -> Seq({"ready", "drain"})]
    BY <1>4, WrittenIsHeadedFor DEF Started, register
  <2> QED BY <1>4, <2>1 DEF Started, register, Command, TypeOK, MailIsForwarded
<1>5. ASSUME NEW w \in Workers, PrepareShutdown(w) PROVE TypeOK' /\ MailIsForwarded'
  <2>1. /\ run' \in [Workers -> [Runs -> RunStage]]
        /\ visited' \in [Workers -> [Runs -> SUBSET Conns]]
        /\ drainIsNoop' \in [Workers -> BOOLEAN]
    <3>1. CASE drainConnections(w)
      BY <3>1, RunBegins DEF TypeOK
    <3>2. CASE UNCHANGED <<drainIsNoop, run, visited>>
      BY <3>2 DEF TypeOK
    <3> QED BY <1>5, <3>1, <3>2 DEF PrepareShutdown
  <2>2. mailbox' \in [Workers -> 0 .. MaxSigterm] /\ MailIsForwarded'
    BY <1>5, ClusterAssumption DEF PrepareShutdown, TypeOK, MailIsForwarded
  <2> QED BY <1>5, <2>1, <2>2 DEF PrepareShutdown, TypeOK
<1>6. ASSUME NEW w \in Workers, WorkerSignal(w) PROVE TypeOK' /\ MailIsForwarded'
  <2>1. /\ run' \in [Workers -> [Runs -> RunStage]]
        /\ visited' \in [Workers -> [Runs -> SUBSET Conns]]
        /\ drainIsNoop' \in [Workers -> BOOLEAN]
    BY <1>6, RunBegins DEF TypeOK, WorkerSignal
  <2>2. signals' \in [Workers -> 0 .. MaxSignal]
    BY <1>6, ClusterAssumption DEF WorkerSignal, TypeOK
  <2> QED BY <1>6, <2>1, <2>2 DEF WorkerSignal, TypeOK, MailIsForwarded
<1>7. ASSUME NEW w \in Workers, HaproxyObeys(w) PROVE TypeOK' /\ MailIsForwarded'
  <2>1. /\ commands' \in [Workers -> Seq({"ready", "drain"})]
        /\ haproxy' \in [Workers -> {"maint", "ready", "drain"}]
    BY <1>7, ObeyedIsHeadedFor
  <2> QED BY <1>7, <2>1 DEF HaproxyObeys, TypeOK, MailIsForwarded
<1>8. ASSUME NEW w \in Workers, NEW i \in Runs, HaproxyDrained(w, i)
      PROVE  TypeOK' /\ MailIsForwarded'
  <2>1. commands' \in [Workers -> Seq({"ready", "drain"})]
    BY <1>8, WrittenIsHeadedFor DEF HaproxyDrained, drain
  <2>2. run' \in [Workers -> [Runs -> RunStage]]
    <3>1. /\ run[w][i] # "idle"
          /\ \/ run' = [run EXCEPT ![w][i] = "waiting"]
             \/ run' = [run EXCEPT ![w][i] = "killing"]
      BY <1>8 DEF HaproxyDrained
    <3> QED BY <3>1, RunGoesOn
  <2> QED BY <1>8, <2>1, <2>2 DEF HaproxyDrained, drain, Command, TypeOK, MailIsForwarded
<1>9. ASSUME NEW w \in Workers, NEW i \in Runs, KillNext(w, i)
      PROVE  TypeOK' /\ MailIsForwarded'
  BY <1>9 DEF KillNext, TypeOK, MailIsForwarded
<1>10. ASSUME NEW w \in Workers, NEW i \in Runs, LoopDone(w, i)
       PROVE  TypeOK' /\ MailIsForwarded'
  BY <1>10 DEF LoopDone, TypeOK, RunStage, MailIsForwarded
<1>11. ASSUME NEW w \in Workers, Exit(w) PROVE TypeOK' /\ MailIsForwarded'
  <2>1. \A v \in Workers : mailbox'[v] = 0 \/ mailbox'[v] = mailbox[v]
    BY <1>11, ExitForgets
  <2>2. sigterms' = sigterms /\ sigterms \in Nat
    BY <1>11 DEF Exit, TypeOK
  <2> QED BY <1>11, <2>1, <2>2, ExitForgets DEF MailIsForwarded
<1>12. ASSUME NEW w \in Workers, NEW c \in Conns, KillClient(w, c)
       PROVE  TypeOK' /\ MailIsForwarded'
  BY <1>12 DEF KillClient, TypeOK, MailIsForwarded
<1>13. ASSUME NEW c \in Conns, Routed(c) PROVE TypeOK' /\ MailIsForwarded'
  BY <1>13 DEF Routed, TypeOK, MailIsForwarded
<1>14. ASSUME NEW c \in Conns, Established(c) PROVE TypeOK' /\ MailIsForwarded'
  BY <1>14 DEF Established, TypeOK, MailIsForwarded
<1>15. ASSUME NEW c \in Conns, Leaves(c) PROVE TypeOK' /\ MailIsForwarded'
  BY <1>15 DEF Leaves, TypeOK, MailIsForwarded
<1>16. CASE UNCHANGED vars
  BY <1>16 DEF vars, TypeOK, MailIsForwarded
<1> QED
  BY <1>1, <1>2, <1>3, <1>4, <1>5, <1>6, <1>7, <1>8, <1>9, <1>10, <1>11, <1>12,
     <1>13, <1>14, <1>15, <1>16
  DEF Next, WorkerNext, WaitOver, Crash

-----------------------------------------------------------------------------
(***************************************************************************)
(* One run for all messages.                                               *)
(***************************************************************************)

\* Steps that begin no run and end no process leave the runs, the no-op and the
\* signals as they are.
LEMMA SameRunsKeepMessages ==
  ASSUME TypeOK, BegunMeansNoop, OneRunForMessages,
         \A w \in Workers : Begun(w)' = Begun(w),
         UNCHANGED <<drainIsNoop, signals>>
  PROVE  BegunMeansNoop' /\ OneRunForMessages'
  BY DEF BegunMeansNoop, OneRunForMessages, Begun

\* A message begins a run only while the variable holds the original function,
\* and then there is none; every other run has its own signal.
LEMMA MessagesStep ==
  TypeOK /\ BegunMeansNoop /\ OneRunForMessages /\ [Next]_vars
    => BegunMeansNoop' /\ OneRunForMessages'
<1> SUFFICES ASSUME TypeOK, BegunMeansNoop, OneRunForMessages, [Next]_vars
             PROVE  BegunMeansNoop' /\ OneRunForMessages'
  OBVIOUS
<1>0. \A w \in Workers : /\ IsFiniteSet(Begun(w))
                          /\ Cardinality(Begun(w)) \in Nat
                          /\ Cardinality(Begun(w)) <= signals[w] + 1
                          /\ signals[w] \in Nat
  <2>1. \A w \in Workers : IsFiniteSet(Begun(w))
    BY ClusterAssumption, FS_Subset DEF Begun
  <2> QED BY <2>1, FS_CardinalityType DEF OneRunForMessages, Begun, TypeOK
<1>1. ASSUME NEW w \in Workers, drainConnections(w),
             \A v \in Workers \ {w} : signals'[v] = signals[v],
             \/ ~drainIsNoop[w] /\ signals'[w] = signals[w]
             \/ signals'[w] = signals[w] + 1
      PROVE  BegunMeansNoop' /\ OneRunForMessages'
  <2>1. PICK i \in Runs : Begun(w)' = Begun(w) \cup {i}
    BY <1>1, RunBegins
  <2>2. \A v \in Workers \ {w} : Begun(v)' = Begun(v) /\ drainIsNoop'[v] = drainIsNoop[v]
    BY <1>1, RunBegins DEF TypeOK
  <2>3. drainIsNoop'[w] = TRUE
    BY <1>1, RunBegins DEF TypeOK
  <2>4. Cardinality(Begun(w)') <= Cardinality(Begun(w)) + 1
    <3>1. Cardinality(Begun(w) \cup {i}) =
            IF i \in Begun(w) THEN Cardinality(Begun(w)) ELSE Cardinality(Begun(w)) + 1
      BY <1>0, FS_AddElement, Zenon
    <3> QED BY <1>0, <2>1, <3>1
  <2>5. ~drainIsNoop[w] => Cardinality(Begun(w)) = 0
    BY FS_EmptySet DEF BegunMeansNoop
  <2>6. Cardinality(Begun(w)') <= signals'[w] + 1
    <3>1. Cardinality(Begun(w)') \in Nat
      BY <1>0, <2>1, FS_AddElement
    <3> QED BY <1>0, <1>1, <2>4, <2>5, <3>1
  <2>7. \A v \in Workers : Cardinality(Begun(v)') <= signals'[v] + 1
    BY <1>0, <1>1, <2>2, <2>6
  <2>8. OneRunForMessages'
    BY <2>7 DEF OneRunForMessages, Begun
  <2> QED BY <2>2, <2>3, <2>8 DEF BegunMeansNoop
<1>2. ASSUME NEW w \in Workers, Exit(w) PROVE BegunMeansNoop' /\ OneRunForMessages'
  <2>1. /\ Begun(w)' = {}
        /\ \A v \in Workers \ {w} : /\ Begun(v)' = Begun(v)
                                      /\ drainIsNoop'[v] = drainIsNoop[v]
                                      /\ signals'[v] = signals[v]
    BY <1>2, ExitForgets
  <2>2. \A v \in Workers : Cardinality(Begun(v)') <= signals'[v] + 1
    <3>1. Cardinality(Begun(w)') = 0
      BY <2>1, FS_EmptySet
    <3>2. signals'[w] = 0
      BY <1>2 DEF Exit, TypeOK
    <3> QED BY <1>0, <2>1, <3>1, <3>2
  <2>3. OneRunForMessages'
    BY <2>2 DEF OneRunForMessages, Begun
  <2> QED BY <2>1, <2>3 DEF BegunMeansNoop
<1>3. ASSUME NEW w \in Workers, PrepareShutdown(w)
      PROVE  BegunMeansNoop' /\ OneRunForMessages'
  <2>1. CASE phase[w] = "ready" /\ ~drainIsNoop[w]
    BY <1>1, <1>3, <2>1 DEF PrepareShutdown
  <2>2. CASE ~(phase[w] = "ready" /\ ~drainIsNoop[w])
    BY <1>3, <2>2, SameRunsKeepMessages DEF PrepareShutdown, Begun
  <2> QED BY <2>1, <2>2
<1>4. ASSUME NEW w \in Workers, WorkerSignal(w)
      PROVE  BegunMeansNoop' /\ OneRunForMessages'
  <2>1. /\ signals'[w] = signals[w] + 1
        /\ \A v \in Workers \ {w} : signals'[v] = signals[v]
    BY <1>4 DEF WorkerSignal, TypeOK
  <2> QED BY <1>1, <1>4, <2>1 DEF WorkerSignal
<1>5. ASSUME NEW w \in Workers, NEW i \in Runs, HaproxyDrained(w, i) \/ LoopDone(w, i)
      PROVE  BegunMeansNoop' /\ OneRunForMessages'
  <2>1. /\ run[w][i] # "idle"
        /\ \/ run' = [run EXCEPT ![w][i] = "waiting"]
           \/ run' = [run EXCEPT ![w][i] = "killing"]
        /\ UNCHANGED <<drainIsNoop, signals>>
    BY <1>5 DEF HaproxyDrained, LoopDone
  <2>2. \A v \in Workers : Begun(v)' = Begun(v)
    BY <2>1, RunGoesOn
  <2> QED BY <2>1, <2>2, SameRunsKeepMessages
<1>6. CASE UNCHANGED <<run, drainIsNoop, signals>>
  BY <1>6, SameRunsKeepMessages DEF Begun
<1> QED
  BY <1>2, <1>3, <1>4, <1>5, <1>6
  DEF Next, WorkerNext, WaitOver, Crash, Sigterm, DrainReport, restartWorker, Started,
      HaproxyObeys, KillNext, KillClient, Routed, Established, Leaves, vars, drainVars

-----------------------------------------------------------------------------
(***************************************************************************)
(* Out of HAProxy first.                                                   *)
(***************************************************************************)

\* The runs of w that have told HAProxy, or have left kills under way.
Told(w) == (\E i \in Runs : run[w][i] \in {"killing", "waiting"}) \/ killing[w] # {}

\* It is enough that a step by which more is told leaves HAProxy headed for
\* "drain", and that nothing is told for a process that is not ready.
LEMMA ToldKeeps ==
  ASSUME RunsComeAfterRegister, DrainIsLast,
         \A v \in Workers :
           /\ phase'[v] # "ready" => Begun(v)' = {} /\ killing'[v] = {}
           /\ Told(v)' => \/ Told(v) /\ HeadedFor(v)' = HeadedFor(v)
                          \/ HeadedFor(v)' = "drain"
  PROVE  RunsComeAfterRegister' /\ DrainIsLast'
<1>1. RunsComeAfterRegister'
  BY DEF RunsComeAfterRegister
<1>2. "earlySignal" \notin Adversity =>
        \A v \in Workers : Told(v)' => HeadedFor(v)' = "drain"
  BY DEF DrainIsLast, Told
<1> QED BY <1>1, <1>2 DEF DrainIsLast, Told

\* drainConnections tells HAProxy before it goes through the clients, and a
\* process that registers has no run yet.
LEMMA DrainStep ==
  TypeOK /\ RunsComeAfterRegister /\ DrainIsLast /\ [Next]_vars
    => RunsComeAfterRegister' /\ DrainIsLast'
<1> SUFFICES ASSUME TypeOK, RunsComeAfterRegister, DrainIsLast, [Next]_vars,
                    "earlySignal" \notin Adversity
             PROVE  RunsComeAfterRegister' /\ DrainIsLast'
  BY DEF RunsComeAfterRegister, DrainIsLast
<1> USE DEF primaryVars, drainVars, proxy, clientVars
<1>a. \A v \in Workers : phase[v] # "ready" => Begun(v) = {} /\ killing[v] = {}
  BY DEF RunsComeAfterRegister
<1>b. \A v \in Workers : phase[v] # "ready" => ~Told(v)
  BY <1>a DEF Told, Begun
<1>c. \A v \in Workers, i \in Runs : run[v][i] # "idle" => phase[v] = "ready"
  BY <1>a DEF Begun
<1>1. ASSUME UNCHANGED <<run, killing, commands, haproxy>>,
             \A v \in Workers : phase'[v] # "ready" => phase[v] # "ready"
      PROVE  RunsComeAfterRegister' /\ DrainIsLast'
  <2>1. \A v \in Workers : /\ Begun(v)' = Begun(v) /\ (Told(v)' <=> Told(v))
                           /\ HeadedFor(v)' = HeadedFor(v)
    BY <1>1 DEF Begun, Told, HeadedFor
  <2> QED BY <1>a, <1>b, <1>c, <1>1, <2>1, ToldKeeps
<1>2. ASSUME NEW w \in Workers, restartWorker(w)
      PROVE  RunsComeAfterRegister' /\ DrainIsLast'
  <2>1. \A v \in Workers : phase'[v] # "ready" => phase[v] # "ready"
    BY <1>2 DEF restartWorker, TypeOK
  <2> QED BY <1>1, <1>2, <2>1 DEF restartWorker
<1>3. ASSUME NEW w \in Workers, Started(w)
      PROVE  RunsComeAfterRegister' /\ DrainIsLast'
  <2>1. /\ phase[w] = "starting" /\ phase'[w] = "ready"
        /\ \A v \in Workers \ {w} : phase'[v] = phase[v]
    BY <1>3 DEF Started, TypeOK
  <2>2. \A v \in Workers : Begun(v)' = Begun(v) /\ (Told(v)' <=> Told(v))
    BY <1>3 DEF Started, Begun, Told
  <2>3. \A v \in Workers \ {w} : HeadedFor(v)' = HeadedFor(v)
    BY <1>3, WrittenIsHeadedFor DEF Started, register
  <2>4. killing' = killing
    BY <1>3 DEF Started
  <2> QED BY <1>a, <1>b, <1>c, <2>1, <2>2, <2>3, <2>4, ToldKeeps
<1>4. ASSUME NEW w \in Workers, drainConnections(w), phase[w] = "ready",
             UNCHANGED <<phase, killing, commands, haproxy>>
      PROVE  RunsComeAfterRegister' /\ DrainIsLast'
  <2>1. \A v \in Workers \ {w} : Begun(v)' = Begun(v)
    BY <1>4, RunBegins
  <2>2. \A v \in Workers : Told(v)' => Told(v)
    BY <1>4, RunBegins DEF Told
  <2>3. \A v \in Workers : HeadedFor(v)' = HeadedFor(v)
    BY <1>4 DEF HeadedFor
  <2> QED BY <1>a, <1>b, <1>c, <1>4, <2>1, <2>2, <2>3, ToldKeeps
<1>5. ASSUME NEW w \in Workers, PrepareShutdown(w)
      PROVE  RunsComeAfterRegister' /\ DrainIsLast'
  <2>1. CASE phase[w] = "ready" /\ ~drainIsNoop[w]
    BY <1>4, <1>5, <2>1 DEF PrepareShutdown
  <2>2. CASE ~(phase[w] = "ready" /\ ~drainIsNoop[w])
    BY <1>1, <1>5, <2>2 DEF PrepareShutdown
  <2> QED BY <2>1, <2>2
<1>6. ASSUME NEW w \in Workers, WorkerSignal(w)
      PROVE  RunsComeAfterRegister' /\ DrainIsLast'
  BY <1>4, <1>6 DEF WorkerSignal
<1>7. ASSUME NEW w \in Workers, HaproxyObeys(w)
      PROVE  RunsComeAfterRegister' /\ DrainIsLast'
  <2>1. \A v \in Workers : Begun(v)' = Begun(v) /\ (Told(v)' <=> Told(v))
    BY <1>7 DEF HaproxyObeys, Begun, Told
  <2>2. \A v \in Workers : HeadedFor(v)' = HeadedFor(v)
    BY <1>7, ObeyedIsHeadedFor
  <2>3. UNCHANGED <<phase, killing>>
    BY <1>7 DEF HaproxyObeys
  <2> QED BY <1>a, <1>b, <1>c, <2>1, <2>2, <2>3, ToldKeeps
<1>8. ASSUME NEW w \in Workers, NEW i \in Runs, HaproxyDrained(w, i)
      PROVE  RunsComeAfterRegister' /\ DrainIsLast'
  <2>1. /\ run[w][i] # "idle"
        /\ \/ run' = [run EXCEPT ![w][i] = "waiting"]
           \/ run' = [run EXCEPT ![w][i] = "killing"]
    BY <1>8 DEF HaproxyDrained
  <2>2. /\ \A v \in Workers : Begun(v)' = Begun(v)
        /\ \A v \in Workers \ {w} : run'[v] = run[v]
    BY <2>1, RunGoesOn
  <2>3. /\ HeadedFor(w)' = "drain"
        /\ \A v \in Workers \ {w} : HeadedFor(v)' = HeadedFor(v)
    BY <1>8, WrittenIsHeadedFor DEF HaproxyDrained, drain
  <2>4. UNCHANGED <<phase, killing>>
    BY <1>8 DEF HaproxyDrained
  <2>5. \A v \in Workers \ {w} : (Told(v)' <=> Told(v))
    BY <2>2, <2>4 DEF Told
  <2> QED BY <1>a, <1>b, <1>c, <2>1, <2>2, <2>3, <2>4, <2>5, ToldKeeps
<1>9. ASSUME NEW w \in Workers, NEW i \in Runs, KillNext(w, i) \/ LoopDone(w, i)
      PROVE  RunsComeAfterRegister' /\ DrainIsLast'
  <2>1. run[w][i] = "killing" /\ UNCHANGED <<phase, commands, haproxy>>
    BY <1>9 DEF KillNext, LoopDone
  <2>2. Told(w) /\ phase[w] = "ready"
    <3>1. run[w][i] # "idle" /\ run[w][i] \in {"killing", "waiting"}
      BY <2>1
    <3> QED BY <1>a, <1>b, <1>c, <3>1 DEF Told
  <2>3. \A v \in Workers \ {w} : run'[v] = run[v] /\ killing'[v] = killing[v]
    BY <1>9 DEF KillNext, LoopDone, TypeOK
  <2>4. \A v \in Workers \ {w} : Begun(v)' = Begun(v) /\ (Told(v)' <=> Told(v))
    BY <2>3 DEF Begun, Told
  <2>5. \A v \in Workers : HeadedFor(v)' = HeadedFor(v)
    BY <2>1 DEF HeadedFor
  <2> QED BY <1>a, <1>b, <1>c, <2>1, <2>2, <2>3, <2>4, <2>5, ToldKeeps
<1>10. ASSUME NEW w \in Workers, NEW c \in Conns, KillClient(w, c)
       PROVE  RunsComeAfterRegister' /\ DrainIsLast'
  <2>1. /\ \A v \in Workers : killing'[v] \subseteq killing[v]
        /\ UNCHANGED <<phase, run, commands, haproxy>>
    BY <1>10 DEF KillClient, TypeOK
  <2>2. \A v \in Workers : Begun(v)' = Begun(v) /\ HeadedFor(v)' = HeadedFor(v)
    BY <2>1 DEF Begun, HeadedFor
  <2>3. \A v \in Workers : Told(v)' => Told(v)
    BY <2>1 DEF Told
  <2> QED BY <1>a, <1>b, <1>c, <2>1, <2>2, <2>3, ToldKeeps
<1>11. ASSUME NEW w \in Workers, Exit(w)
       PROVE  RunsComeAfterRegister' /\ DrainIsLast'
  <2>1. /\ Begun(w)' = {} /\ killing'[w] = {}
        /\ \A i \in Runs : run'[w][i] = "idle"
    BY <1>11, ExitForgets
  <2>2. \A v \in Workers \ {w} : /\ Begun(v)' = Begun(v) /\ run'[v] = run[v]
                                  /\ killing'[v] = killing[v] /\ phase'[v] = phase[v]
    BY <1>11, ExitForgets
  <2>3. ~Told(w)' /\ \A v \in Workers \ {w} : (Told(v)' <=> Told(v))
    BY <2>1, <2>2 DEF Told
  <2>4. \A v \in Workers : HeadedFor(v)' = HeadedFor(v)
    BY <1>11 DEF Exit, HeadedFor
  <2> QED BY <1>a, <1>b, <1>c, <2>1, <2>2, <2>3, <2>4, ToldKeeps
<1>12. CASE UNCHANGED <<run, killing, phase, commands, haproxy>>
  BY <1>1, <1>12
<1> QED
  BY <1>2, <1>3, <1>5, <1>6, <1>7, <1>8, <1>9, <1>10, <1>11, <1>12
  DEF Next, WorkerNext, WaitOver, Crash, Sigterm, DrainReport, Routed, Established,
      Leaves, vars

-----------------------------------------------------------------------------
(***************************************************************************)
(* The theorems.                                                           *)
(***************************************************************************)

\* The primary counts the instances that have reported: it exits when there are
\* as many of them as instances, that is, when they are all of them.
LEMMA ExitStep ==
  TypeOK /\ ExitedWithAllReports /\ [Next]_vars => ExitedWithAllReports'
<1> SUFFICES ASSUME TypeOK, ExitedWithAllReports, [Next]_vars
             PROVE  ExitedWithAllReports'
  OBVIOUS
<1>1. ASSUME NEW w \in Workers, DrainReport(w) PROVE ExitedWithAllReports'
  <2>1. workerStates' \in SUBSET Workers
    BY <1>1 DEF DrainReport, TypeOK
  <2>2. /\ Cardinality(workerStates') \in Nat /\ Cardinality(Workers) \in Nat
        /\ Cardinality(workerStates') <= Cardinality(Workers)
        /\ Cardinality(workerStates') = Cardinality(Workers) => Workers = workerStates'
    BY <2>1, ClusterAssumption, FS_Subset, FS_CardinalityType
  <2>3. primary = "running"
    BY <1>1 DEF DrainReport
  <2>4. Cardinality(workerStates') >= Cardinality(Workers) \/ primary' = "running"
    BY <1>1, <2>3 DEF DrainReport
  <2> QED BY <2>2, <2>4 DEF ExitedWithAllReports
<1>2. CASE UNCHANGED <<primary, workerStates>>
  BY <1>2 DEF ExitedWithAllReports
<1> QED
  BY <1>1, <1>2
  DEF Next, WorkerNext, WaitOver, Crash, Exit, Sigterm, restartWorker, Started,
      PrepareShutdown, WorkerSignal, HaproxyObeys, HaproxyDrained, KillNext, LoopDone,
      KillClient, Routed, Established, Leaves, vars, primaryVars

\* The inductive invariant of the shutdown, types included.
THEOREM ClusterInvariant == Spec => []ClusterInv
<1>1. ClusterInv /\ [Next]_vars => ClusterInv'
  BY TypeStep, MessagesStep, DrainStep, ExitStep DEF ClusterInv
<1> QED BY ClusterInit, <1>1, PTL DEF Spec

\* "Only run once": however many prepareShutdown messages a process gets, and
\* however they fall among its signals, they begin one run between them.
THEOREM MessagesBeginOneRun == Spec => []OneRunForMessages
<1>1. ClusterInv => OneRunForMessages
  BY DEF ClusterInv
<1> QED BY <1>1, ClusterInvariant, PTL

\* drainConnections takes the worker out of HAProxy before it disconnects anyone,
\* whatever crashes and restarts, if no signal reaches a worker that is starting.
THEOREM NobodyKilledBeforeDrain ==
  "earlySignal" \notin Adversity => (Spec => []KilledOnlyWhenDrained)
<1> SUFFICES ASSUME "earlySignal" \notin Adversity
             PROVE  Spec => []KilledOnlyWhenDrained
  OBVIOUS
<1>1. ClusterInv => KilledOnlyWhenDrained
  BY DEF ClusterInv, DrainIsLast, KilledOnlyWhenDrained
<1> QED BY <1>1, ClusterInvariant, PTL

\* The primary does not exit before it has a report of every instance, and those
\* that still wait after their report are out of HAProxy, under the same condition.
THEOREM PrimaryExitsDrained ==
  "earlySignal" \notin Adversity => (Spec => []ExitOnlyWhenDrained)
<1> SUFFICES ASSUME "earlySignal" \notin Adversity
             PROVE  Spec => []ExitOnlyWhenDrained
  OBVIOUS
<1>1. ClusterInv => ExitOnlyWhenDrained
  BY DEF ClusterInv, DrainIsLast, ExitedWithAllReports, ExitOnlyWhenDrained, HasReported
<1> QED BY <1>1, ClusterInvariant, PTL

=============================================================================
