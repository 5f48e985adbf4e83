--------------------------- MODULE ClusterMetrics ---------------------------
(***************************************************************************)
(* The bitrates that workers send to the primary process, and the endpoint *)
(* /cluster_metrics that reports them (src/init-primary.ts).               *)
(*                                                                         *)
(* A scrape observes what workerMetrics holds in the histograms, takes the *)
(* text of the primary's metrics and awaits that of the workers; when it   *)
(* has both it answers and clears everything.  Bitrates keep arriving, and *)
(* scrapes overlap.  A sample stands for the part it has in the mean of    *)
(* its device; the two directions are treated alike, and so are samples    *)
(* that the histograms have observed once and more often.                  *)
(***************************************************************************)
EXTENDS Naturals

CONSTANTS
  Samples,   \* bitrate messages, each sent at most once
  Scrapes    \* requests for /cluster_metrics

VARIABLES
  workerMetrics,   \* the samples kept per device
  hist,            \* the samples that the histograms have observed
  scrape,          \* state of a request
  text,            \* the samples in its promMetrics
  inProgress,      \* inProgessClusterMetrics is a promise
  fetches,         \* clusterMetrics() under way
  received, late, reported    \* history: samples that have come, those of
                              \* them during a scrape, and those answered

metricsVars == <<workerMetrics, hist, scrape, text, inProgress, fetches,
                 received, late, reported>>

MetricsTypeOK ==
  /\ {workerMetrics, hist, received, late, reported} \subseteq SUBSET Samples
  /\ text \in [Scrapes -> SUBSET Samples]
  /\ scrape \in [Scrapes -> {"none", "awaiting", "200", "500"}]
  /\ inProgress \in BOOLEAN /\ fetches \in Nat

MetricsInit ==
  /\ workerMetrics = {} /\ hist = {}
  /\ scrape = [s \in Scrapes |-> "none"] /\ text = [s \in Scrapes |-> {}]
  /\ inProgress = FALSE /\ fetches = 0
  /\ received = {} /\ late = {} /\ reported = {}

Awaiting == {s \in Scrapes : scrape[s] = "awaiting"}

-----------------------------------------------------------------------------
\* on('message') of type 'bitrate'.
Bitrate(x) ==
  /\ x \notin received
  /\ received' = received \cup {x}
  /\ workerMetrics' = workerMetrics \cup {x}
  /\ late' = IF Awaiting = {} THEN late ELSE late \cup {x}
  /\ UNCHANGED <<hist, scrape, text, inProgress, fetches, reported>>

\* The promise is made, or shared.
getClusterMetrics ==
  /\ inProgress' = TRUE
  /\ fetches' = IF inProgress THEN fetches ELSE fetches + 1

\* The handler up to its await: the text is that of this moment.
Scrape(s) ==
  /\ scrape[s] = "none"
  /\ hist' = hist \cup workerMetrics
  /\ text' = [text EXCEPT ![s] = hist']
  /\ scrape' = [scrape EXCEPT ![s] = "awaiting"]
  /\ getClusterMetrics
  /\ UNCHANGED <<workerMetrics, received, late, reported>>

\* The workers have answered: everyone who shares the promise goes on, the
\* response is written and what it was made from is cleared.
Fetched ==
  /\ fetches > 0
  /\ fetches' = fetches - 1 /\ inProgress' = FALSE
  /\ scrape' = [s \in Scrapes |-> IF s \in Awaiting THEN "200" ELSE scrape[s]]
  /\ reported' = reported \cup UNION {text[s] : s \in Awaiting}
  /\ IF Awaiting = {} THEN UNCHANGED <<workerMetrics, hist>>
                      ELSE workerMetrics' = {} /\ hist' = {}
  /\ UNCHANGED <<text, received, late>>

\* The workers could not be asked: 500 for everyone who shares the promise.
FetchFailed ==
  /\ fetches > 0
  /\ fetches' = fetches - 1 /\ inProgress' = FALSE
  /\ scrape' = [s \in Scrapes |-> IF s \in Awaiting THEN "500" ELSE scrape[s]]
  /\ UNCHANGED <<workerMetrics, hist, text, received, late, reported>>

\* Mutants: what was to be reported is cleared all the same; a promise that
\* took too long is forgotten, though it is under way.
TimedOut_Cleared(s) ==
  /\ scrape[s] = "awaiting"
  /\ scrape' = [scrape EXCEPT ![s] = "500"]
  /\ workerMetrics' = {} /\ hist' = {}
  /\ UNCHANGED <<text, inProgress, fetches, received, late, reported>>

TimedOut_Forgotten(s) ==
  /\ scrape[s] = "awaiting"
  /\ scrape' = [scrape EXCEPT ![s] = "500"]
  /\ inProgress' = FALSE
  /\ UNCHANGED <<workerMetrics, hist, text, fetches, received, late, reported>>

\* METRICS_TIMEOUT, or a failure of the primary's own metrics: 500.  The
\* promise stays in progress.
TimedOut(s) ==
  /\ scrape[s] = "awaiting"
  /\ scrape' = [scrape EXCEPT ![s] = "500"]
  /\ UNCHANGED <<workerMetrics, hist, text, inProgress, fetches, received, late,
                 reported>>

MetricsNext ==
  \/ \E x \in Samples : Bitrate(x)
  \/ \E s \in Scrapes : Scrape(s) \/ TimedOut(s)
  \/ Fetched \/ FetchFailed

MetricsSpec == MetricsInit /\ [][MetricsNext]_metricsVars

-----------------------------------------------------------------------------
\* /cluster_metrics clears workerMetrics after an await.  A bitrate that came
\* while no scrape was under way is not lost, whichever scrapes fail: it is
\* kept until a response has reported it.
NoSampleLost == received \subseteq workerMetrics \cup reported \cup late

\* "making sure we only ever have one in progress at a time": however scrapes
\* overlap, time out and fail, the workers are asked by one at a time.
OneFetchAtATime == fetches <= 1

\* The promise is kept exactly as long as the question to the workers is open.
PromiseIsFetch == fetches = IF inProgress THEN 1 ELSE 0

\* What a scrape will clear, it has in its text, or it came too late for that.
ClearedIsInText == \A s \in Awaiting : workerMetrics \subseteq text[s] \cup late

\* Inductive: what overlapping scrapes keep true.
MetricsInv == MetricsTypeOK /\ PromiseIsFetch /\ ClearedIsInText /\ NoSampleLost

=============================================================================
