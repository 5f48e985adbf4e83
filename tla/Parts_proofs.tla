---------------------------- MODULE Parts_proofs ----------------------------
(***************************************************************************)
(* Proofs about the parts of the system that have no state in common: each *)
(* of them for any number of logins, scrapes, instances, processes and     *)
(* addresses, and all of them as MCParts puts them together.               *)
(***************************************************************************)
EXTENDS MCParts, Subnets_proofs, FiniteSetTheorems

-----------------------------------------------------------------------------
(***************************************************************************)
(* Authentication of devices, for any VPN_AUTH_CACHE_TIMEOUT and           *)
(* REQUEST_TIMEOUT, and an API that changes its mind and fails as it       *)
(* likes.                                                                  *)
(***************************************************************************)

\* Nobody has logged in, and nothing is memoized.
LEMMA AuthInvInit == AuthInit => AuthInv
<1> SUFFICES ASSUME AuthInit PROVE AuthInv
  OBVIOUS
<1>1. AuthTypeOK
  BY AuthAssumption DEF AuthInit, AuthTypeOK, Time, NeverYet
<1>2. HistoryIsPast
  BY AuthAssumption DEF AuthInit, HistoryIsPast, NeverYet
<1>3. LookupIsFresh /\ MemoIsFresh /\ NoOneInWithOldKey /\ OutageIsForgotten
  BY DEF AuthInit, LookupIsFresh, MemoIsFresh, NoOneInWithOldKey, OutageIsForgotten
<1> QED BY <1>1, <1>2, <1>3 DEF AuthInv

\* The values that the steps below compare.
LEMMA AuthNumbers ==
  ASSUME AuthTypeOK
  PROVE  /\ clock \in Nat /\ memoAt \in Nat
         /\ validAt \in Int /\ invalidAt \in Int /\ failedAt \in Int
         /\ \A l \in Logins : startedAt[l] \in Nat /\ decidedAt[l] \in Nat
         /\ MaxAge \in Nat \ {0} /\ RequestTimeout \in Nat \ {0}
  BY AuthAssumption DEF AuthTypeOK, Time, NeverYet

\* Every handler keeps the types.
LEMMA AuthTypeStep == AuthTypeOK /\ [AuthNext]_authVars => AuthTypeOK'
<1> SUFFICES ASSUME AuthTypeOK, [AuthNext]_authVars PROVE AuthTypeOK'
  OBVIOUS
<1> USE DEF memoVars, truth, authHistory
<1>1. ASSUME NEW l \in Logins, postAuth(l) PROVE AuthTypeOK'
  <2>1. startedAt' \in [Logins -> Time]
    BY <1>1 DEF postAuth, AuthTypeOK
  <2>2. CASE checkDeviceAuth(l)
    BY <1>1, <2>1, <2>2 DEF postAuth, checkDeviceAuth, AuthTypeOK, After, Plugin
  <2>3. CASE login' = [login EXCEPT ![l] = "400"] /\ UNCHANGED <<memoVars, decidedAt>>
    BY <1>1, <2>1, <2>3 DEF postAuth, AuthTypeOK
  <2> QED BY <1>1, <2>2, <2>3 DEF postAuth
<1>2. ASSUME NEW l \in Logins, DelayOver(l) PROVE AuthTypeOK'
  BY <1>2 DEF DelayOver, AuthTypeOK, Plugin
<1>3. CASE LookupAnswered
  BY <1>3 DEF LookupAnswered, Settle, After, Plugin, AuthTypeOK
<1>4. CASE LookupFailed
  BY <1>4 DEF LookupFailed, Settle, After, Plugin, AuthTypeOK
<1>5. CASE ApiAnswers
  BY <1>5 DEF ApiAnswers, AuthTypeOK
<1>6. CASE KeyChanges
  BY <1>6, AuthAssumption DEF KeyChanges, AuthTypeOK
<1>7. CASE AuthTick
  BY <1>7, AuthAssumption DEF AuthTick, AuthTypeOK, Time
<1>8. CASE UNCHANGED authVars
  BY <1>8 DEF authVars, AuthTypeOK
<1> QED BY <1>1, <1>2, <1>3, <1>4, <1>5, <1>6, <1>7, <1>8 DEF AuthNext

\* The clock only goes forward, and what the API thinks now is noted.
LEMMA HistoryStep ==
  AuthTypeOK /\ HistoryIsPast /\ [AuthNext]_authVars
    => /\ HistoryIsPast'
       /\ validAt' >= validAt /\ invalidAt' >= invalidAt /\ failedAt' >= failedAt
<1> SUFFICES ASSUME AuthTypeOK, HistoryIsPast, [AuthNext]_authVars
             PROVE  /\ HistoryIsPast'
                    /\ validAt' >= validAt /\ invalidAt' >= invalidAt
                    /\ failedAt' >= failedAt
  OBVIOUS
<1> USE AuthNumbers DEF memoVars, truth, authHistory
<1>1. CASE \E l \in Logins : postAuth(l)
  BY <1>1 DEF postAuth, HistoryIsPast, AuthTypeOK
<1>2. CASE KeyChanges
  BY <1>2 DEF KeyChanges, HistoryIsPast, AuthTypeOK
<1>3. CASE AuthTick
  BY <1>3 DEF AuthTick, HistoryIsPast, AuthTypeOK
<1>4. CASE LookupFailed
  BY <1>4 DEF LookupFailed, HistoryIsPast
<1>5. CASE UNCHANGED <<truth, clock, startedAt, validAt, invalidAt, failedAt>>
  BY <1>5 DEF HistoryIsPast
<1> QED
  BY <1>1, <1>2, <1>3, <1>4, <1>5
  DEF AuthNext, DelayOver, LookupAnswered, ApiAnswers, authVars

\* A lookup is shared while it is under way and dropped when it fails; its answer
\* is memoized when it comes and dropped after MaxAge.
LEMMA MemoStep ==
  AuthTypeOK /\ HistoryIsPast /\ LookupIsFresh /\ MemoIsFresh /\ [AuthNext]_authVars
    => LookupIsFresh' /\ MemoIsFresh'
<1> SUFFICES ASSUME AuthTypeOK, HistoryIsPast, LookupIsFresh, MemoIsFresh,
                    [AuthNext]_authVars
             PROVE  LookupIsFresh' /\ MemoIsFresh'
  OBVIOUS
<1> USE AuthNumbers DEF memoVars, truth, authHistory
<1>0. validAt' >= validAt /\ invalidAt' >= invalidAt /\ validAt' \in Int /\ invalidAt' \in Int
  <2>1. validAt' \in Int /\ invalidAt' \in Int
    BY AuthTypeStep, AuthAssumption DEF AuthTypeOK, Time, NeverYet
  <2> QED BY <2>1, HistoryStep
<1>1. ASSUME NEW l \in Logins, postAuth(l) PROVE LookupIsFresh' /\ MemoIsFresh'
  <2>1. CASE UNCHANGED memoVars
    BY <1>1, <2>1 DEF postAuth, LookupIsFresh, MemoIsFresh
  <2>2. CASE /\ memo = "empty" /\ memo' = "pending" /\ memoAt' = clock
             /\ UNCHANGED response
    BY <1>1, <2>2 DEF postAuth, LookupIsFresh, MemoIsFresh
  <2> QED BY <1>1, <2>1, <2>2 DEF postAuth, checkDeviceAuth
<1>2. CASE LookupAnswered
  BY <1>2 DEF LookupAnswered, LookupIsFresh, MemoIsFresh
<1>3. CASE LookupFailed
  BY <1>3 DEF LookupFailed, LookupIsFresh, MemoIsFresh
<1>4. CASE ApiAnswers
  BY <1>4 DEF ApiAnswers, LookupIsFresh, MemoIsFresh, HistoryIsPast
<1>5. CASE KeyChanges
  BY <1>0, <1>5 DEF KeyChanges, LookupIsFresh, MemoIsFresh
<1>6. CASE AuthTick
  BY <1>0, <1>6 DEF AuthTick, Expires, LookupIsFresh, MemoIsFresh
<1>7. CASE UNCHANGED <<memoVars, clock, validAt, invalidAt>>
  BY <1>7 DEF LookupIsFresh, MemoIsFresh
<1> QED
  BY <1>1, <1>2, <1>3, <1>4, <1>5, <1>6, <1>7 DEF AuthNext, DelayOver, authVars

-----------------------------------------------------------------------------
\* What is true of an outcome when it is decided: an authorization of the last
\* time the API accepted the key, a refusal of the last time it did not, or of
\* a lookup that has just failed.
Justified(status) ==
  /\ status = "200" => validAt >= clock - MaxAge - RequestTimeout
  /\ status # "200" => \/ invalidAt >= clock - MaxAge - RequestTimeout
                       \/ failedAt' = clock

\* Logins are decided by a memoized answer that is fresh, or by a lookup that is.
LEMMA DecisionsAreJustified ==
  ASSUME AuthTypeOK, LookupIsFresh, MemoIsFresh
  PROVE  /\ memo \in {"200", "401"} => Justified(memo)
         /\ LookupAnswered => Justified(response)
         /\ LookupFailed => Justified(response)
<1> USE AuthNumbers
<1>1. memo \in {"200", "401"} => Justified(memo)
  BY DEF MemoIsFresh, Justified
<1>2. LookupAnswered => Justified(response)
  BY DEF LookupAnswered, LookupIsFresh, Justified
<1>3. LookupFailed => Justified(response)
  BY DEF LookupFailed, Justified
<1> QED BY <1>1, <1>2, <1>3

\* How a step may leave a login: not decided by it, not decided yet, or decided
\* with justification.
KeepsPromise(l) ==
  \/ /\ login'[l] = login[l] \/ (login[l] = "delayed" /\ login'[l] = "0")
     /\ decidedAt'[l] = decidedAt[l] /\ startedAt'[l] = startedAt[l]
  \/ login'[l] \in {"waiting", "400"}
  \/ /\ decidedAt'[l] = clock /\ startedAt'[l] <= clock
     /\ \/ login'[l] = "1" /\ Justified("200")
        \/ login'[l] \in {"delayed", "0"} /\ Justified("401")

\* Then both promises of postAuth are kept, as the histories only grow.
LEMMA PromisesKept ==
  ASSUME AuthTypeOK, AuthTypeOK', NoOneInWithOldKey, OutageIsForgotten,
         validAt' >= validAt, invalidAt' >= invalidAt, failedAt' >= failedAt,
         \A l \in Logins : KeepsPromise(l)
  PROVE  NoOneInWithOldKey' /\ OutageIsForgotten'
<1> USE AuthNumbers
<1>1. /\ validAt' \in Int /\ invalidAt' \in Int /\ failedAt' \in Int
      /\ \A l \in Logins : startedAt'[l] \in Nat /\ decidedAt'[l] \in Nat
  BY AuthAssumption DEF AuthTypeOK, Time, NeverYet
<1>2. ASSUME NEW l \in Logins, login'[l] = "1"
      PROVE  validAt' >= decidedAt'[l] - MaxAge - RequestTimeout
  BY <1>1, <1>2 DEF KeepsPromise, NoOneInWithOldKey, Recently, Justified
<1>3. ASSUME NEW l \in Logins, login'[l] \in {"delayed", "0"}
      PROVE  \/ invalidAt' >= decidedAt'[l] - MaxAge - RequestTimeout
             \/ failedAt' >= startedAt'[l]
  BY <1>1, <1>3 DEF KeepsPromise, OutageIsForgotten, Recently, Justified
<1> QED BY <1>2, <1>3 DEF NoOneInWithOldKey, OutageIsForgotten, Recently

\* All that wait for a lookup are decided by its outcome, which is justified.
LEMMA SettledKeepPromise ==
  ASSUME AuthTypeOK, HistoryIsPast, NEW status \in {"200", "401", "503", "error"},
         Justified(status), UNCHANGED startedAt,
         NEW outcome, Settle(outcome),
         outcome = After(status) \/ (status # "200" /\ outcome = "0")
  PROVE  \A l \in Logins : KeepsPromise(l)
<1>1. SUFFICES ASSUME NEW l \in Logins PROVE KeepsPromise(l)
  OBVIOUS
<1>2. CASE login[l] # "waiting"
  BY <1>2 DEF Settle, KeepsPromise
<1>3. CASE login[l] = "waiting"
  <2>1. login'[l] = outcome /\ decidedAt'[l] = clock
    BY <1>3 DEF Settle
  <2>2. startedAt'[l] <= clock
    BY DEF HistoryIsPast
  <2>3. IF status = "200" THEN outcome = "1" ELSE outcome \in {"delayed", "0"}
    BY DEF After, Plugin
  <2>4. status # "200" => Justified("401")
    BY DEF Justified
  <2> QED BY <2>1, <2>2, <2>3, <2>4 DEF KeepsPromise
<1> QED BY <1>2, <1>3

\* Every step keeps the promises.
LEMMA DecisionStep ==
  AuthInv /\ [AuthNext]_authVars => NoOneInWithOldKey' /\ OutageIsForgotten'
<1> SUFFICES ASSUME AuthInv, [AuthNext]_authVars
             PROVE  NoOneInWithOldKey' /\ OutageIsForgotten'
  OBVIOUS
<1> USE DEF memoVars, truth, authHistory
<1>a. AuthTypeOK /\ HistoryIsPast /\ LookupIsFresh /\ MemoIsFresh
  BY DEF AuthInv
<1>b. clock \in Nat /\ \A l \in Logins : startedAt[l] <= clock
  BY <1>a, AuthNumbers DEF HistoryIsPast
<1>1. ASSUME NEW l \in Logins, postAuth(l) PROVE \A k \in Logins : KeepsPromise(k)
  <2>1. \A k \in Logins \ {l} : /\ login'[k] = login[k] /\ decidedAt'[k] = decidedAt[k]
                                /\ startedAt'[k] = startedAt[k]
    BY <1>1, <1>a DEF postAuth, checkDeviceAuth, AuthTypeOK
  <2>2. KeepsPromise(l)
    <3>1. CASE /\ memo \in {"200", "401"} /\ login' = [login EXCEPT ![l] = After(memo)]
               /\ decidedAt' = [decidedAt EXCEPT ![l] = clock]
      <4>1. Justified(memo)
        BY <1>a, <3>1, DecisionsAreJustified
      <4>2. decidedAt'[l] = clock /\ startedAt'[l] <= clock
        BY <1>1, <1>a, <1>b, <3>1 DEF postAuth, AuthTypeOK
      <4>3. login'[l] = After(memo)
        BY <1>a, <3>1 DEF AuthTypeOK
      <4> QED BY <3>1, <4>1, <4>2, <4>3 DEF After, Plugin, KeepsPromise
    <3>2. CASE \E s \in {"waiting", "400"} : login' = [login EXCEPT ![l] = s]
      BY <1>a, <3>2 DEF AuthTypeOK, KeepsPromise
    <3> QED BY <1>1, <3>1, <3>2 DEF postAuth, checkDeviceAuth
  <2> QED BY <2>1, <2>2 DEF KeepsPromise
<1>2. ASSUME NEW l \in Logins, DelayOver(l) PROVE \A k \in Logins : KeepsPromise(k)
  BY <1>2, <1>a DEF DelayOver, Plugin, AuthTypeOK, KeepsPromise
<1>3. ASSUME LookupAnswered PROVE \A k \in Logins : KeepsPromise(k)
  <2>1. Justified(response) /\ response \in {"200", "401"} /\ Settle(After(response))
    BY <1>3, <1>a, DecisionsAreJustified DEF LookupAnswered
  <2> QED BY <1>3, <1>a, <2>1, SettledKeepPromise DEF LookupAnswered
<1>4. ASSUME LookupFailed PROVE \A k \in Logins : KeepsPromise(k)
  <2>1. Justified(response) /\ response \in {"503", "error"}
    BY <1>4, <1>a, DecisionsAreJustified DEF LookupFailed
  <2>2. Settle(After(response)) \/ Settle("0")
    BY <1>4 DEF LookupFailed, Plugin
  <2> QED BY <1>4, <1>a, <2>1, <2>2, SettledKeepPromise DEF LookupFailed
<1>5. ASSUME UNCHANGED <<login, startedAt, decidedAt>>
      PROVE  \A k \in Logins : KeepsPromise(k)
  BY <1>5 DEF KeepsPromise
<1>6. \A k \in Logins : KeepsPromise(k)
  BY <1>1, <1>2, <1>3, <1>4, <1>5
  DEF AuthNext, ApiAnswers, KeyChanges, AuthTick, authVars
<1>7. /\ AuthTypeOK' /\ validAt' >= validAt /\ invalidAt' >= invalidAt
      /\ failedAt' >= failedAt
  BY <1>a, AuthTypeStep, HistoryStep
<1> QED BY <1>6, <1>7, PromisesKept DEF AuthInv

-----------------------------------------------------------------------------
\* Every step of a login, the API or the clock keeps it.
LEMMA AuthInvStep == AuthInv /\ [AuthNext]_authVars => AuthInv'
BY AuthTypeStep, HistoryStep, MemoStep, DecisionStep DEF AuthInv

\* The inductive invariant of the memoized lookups of postAuth, types included.
THEOREM AuthInvariant == AuthSpec => []AuthInv
BY AuthInvInit, AuthInvStep, PTL DEF AuthSpec

\* However logins share lookups and memoized answers, nobody is let in with a key
\* that was last accepted longer ago than a lookup and VPN_AUTH_CACHE_TIMEOUT.
THEOREM OldKeysAreRefused == AuthSpec => []NoOneInWithOldKey
<1>1. AuthInv => NoOneInWithOldKey
  BY DEF AuthInv
<1> QED BY <1>1, AuthInvariant, PTL

\* "we don't want to cache it": a refusal comes from a refusal of the API a short
\* while ago or from a lookup that failed while the login was under way.
THEOREM OutagesAreForgotten == AuthSpec => []OutageIsForgotten
<1>1. AuthInv => OutageIsForgotten
  BY DEF AuthInv
<1> QED BY <1>1, AuthInvariant, PTL

-----------------------------------------------------------------------------
(***************************************************************************)
(* /cluster_metrics, for any samples and any number of scrapes that overlap, *)
(* time out and fail.                                                      *)
(***************************************************************************)

\* Nothing has come and nobody has asked.
LEMMA MetricsInvInit == MetricsInit => MetricsInv
<1> SUFFICES ASSUME MetricsInit PROVE MetricsInv
  OBVIOUS
<1>1. MetricsTypeOK
  BY DEF MetricsInit, MetricsTypeOK
<1>2. PromiseIsFetch
  BY DEF MetricsInit, PromiseIsFetch
<1>3. ClearedIsInText /\ NoSampleLost
  BY DEF MetricsInit, ClearedIsInText, Awaiting, NoSampleLost
<1> QED BY <1>1, <1>2, <1>3 DEF MetricsInv

\* Every handler keeps the types, and the promise is there while a question is open.
LEMMA MetricsTypeStep ==
  MetricsTypeOK /\ PromiseIsFetch /\ [MetricsNext]_metricsVars
    => MetricsTypeOK' /\ PromiseIsFetch'
<1> SUFFICES ASSUME MetricsTypeOK, PromiseIsFetch, [MetricsNext]_metricsVars
             PROVE  MetricsTypeOK' /\ PromiseIsFetch'
  OBVIOUS
<1>1. ASSUME NEW x \in Samples, Bitrate(x) PROVE MetricsTypeOK' /\ PromiseIsFetch'
  BY <1>1 DEF Bitrate, MetricsTypeOK, PromiseIsFetch
<1>2. ASSUME NEW s \in Scrapes, Scrape(s) PROVE MetricsTypeOK' /\ PromiseIsFetch'
  <2>1. hist' \in SUBSET Samples
    BY <1>2 DEF Scrape, MetricsTypeOK
  <2>2. text' \in [Scrapes -> SUBSET Samples]
    BY <1>2, <2>1 DEF Scrape, MetricsTypeOK
  <2>3. fetches' \in Nat /\ inProgress' \in BOOLEAN /\ PromiseIsFetch'
    BY <1>2 DEF Scrape, getClusterMetrics, MetricsTypeOK, PromiseIsFetch
  <2> QED BY <1>2, <2>1, <2>2, <2>3 DEF Scrape, MetricsTypeOK
<1>3. ASSUME NEW s \in Scrapes, TimedOut(s) PROVE MetricsTypeOK' /\ PromiseIsFetch'
  BY <1>3 DEF TimedOut, MetricsTypeOK, PromiseIsFetch
<1>a. ASSUME fetches > 0, fetches' = fetches - 1, inProgress' = FALSE
      PROVE  fetches' \in Nat /\ PromiseIsFetch'
  <2>1. fetches = 1
    BY <1>a DEF PromiseIsFetch
  <2>2. fetches' = 0
    BY <1>a, <2>1
  <2> QED BY <1>a, <2>2 DEF PromiseIsFetch
<1>4. CASE Fetched
  <2>1. fetches' \in Nat /\ inProgress' \in BOOLEAN /\ PromiseIsFetch'
    BY <1>4, <1>a DEF Fetched
  <2>2. reported' \in SUBSET Samples
    BY <1>4 DEF Fetched, MetricsTypeOK, Awaiting
  <2> QED BY <1>4, <2>1, <2>2 DEF Fetched, MetricsTypeOK
<1>5. CASE FetchFailed
  <2>1. fetches' \in Nat /\ inProgress' \in BOOLEAN /\ PromiseIsFetch'
    BY <1>5, <1>a DEF FetchFailed
  <2> QED BY <1>5, <2>1 DEF FetchFailed, MetricsTypeOK
<1>6. CASE UNCHANGED metricsVars
  BY <1>6 DEF metricsVars, MetricsTypeOK, PromiseIsFetch
<1> QED BY <1>1, <1>2, <1>3, <1>4, <1>5, <1>6 DEF MetricsNext

\* A scrape takes into its text all that is kept at that moment, and what comes
\* before it ends is late: what it clears is in its text, or late.
LEMMA SamplesStep ==
  MetricsInv /\ [MetricsNext]_metricsVars => ClearedIsInText' /\ NoSampleLost'
<1> SUFFICES ASSUME MetricsInv, [MetricsNext]_metricsVars
             PROVE  ClearedIsInText' /\ NoSampleLost'
  OBVIOUS
<1>a. MetricsTypeOK /\ ClearedIsInText /\ NoSampleLost
  BY DEF MetricsInv
<1>1. ASSUME NEW x \in Samples, Bitrate(x) PROVE ClearedIsInText' /\ NoSampleLost'
  <2>1. Awaiting' = Awaiting
    BY <1>1 DEF Bitrate, Awaiting
  <2>2. ClearedIsInText'
    BY <1>1, <1>a, <2>1 DEF Bitrate, ClearedIsInText
  <2>3. NoSampleLost'
    BY <1>1, <1>a DEF Bitrate, NoSampleLost
  <2> QED BY <2>2, <2>3
<1>2. ASSUME NEW s \in Scrapes, Scrape(s) PROVE ClearedIsInText' /\ NoSampleLost'
  <2>1. Awaiting' \subseteq Awaiting \cup {s}
    BY <1>2, <1>a DEF Scrape, Awaiting, MetricsTypeOK
  <2>2. workerMetrics \subseteq text'[s]
    BY <1>2, <1>a DEF Scrape, MetricsTypeOK
  <2>3. \A r \in Scrapes \ {s} : text'[r] = text[r]
    BY <1>2, <1>a DEF Scrape, MetricsTypeOK
  <2>4. UNCHANGED <<workerMetrics, received, late, reported>>
    BY <1>2 DEF Scrape
  <2>5. Awaiting' \subseteq Scrapes
    BY DEF Awaiting
  <2>6. ClearedIsInText'
    BY <1>a, <2>1, <2>2, <2>3, <2>4, <2>5 DEF ClearedIsInText
  <2> QED BY <1>a, <2>4, <2>6 DEF NoSampleLost
<1>3. ASSUME NEW s \in Scrapes, TimedOut(s) PROVE ClearedIsInText' /\ NoSampleLost'
  <2>1. Awaiting' \subseteq Awaiting
    BY <1>3, <1>a DEF TimedOut, Awaiting, MetricsTypeOK
  <2> QED BY <1>3, <1>a, <2>1 DEF TimedOut, ClearedIsInText, NoSampleLost
<1>4. CASE Fetched
  <2>1. Awaiting' = {}
    BY <1>4 DEF Fetched, Awaiting
  <2>2. CASE Awaiting = {}
    BY <1>4, <1>a, <2>1, <2>2 DEF Fetched, ClearedIsInText, NoSampleLost
  <2>3. CASE Awaiting # {}
    <3>1. PICK s \in Awaiting : TRUE
      BY <2>3
    <3>2. text[s] \subseteq reported'
      BY <1>4, <3>1 DEF Fetched
    <3>3. workerMetrics \subseteq text[s] \cup late
      BY <1>a, <3>1 DEF ClearedIsInText
    <3>4. NoSampleLost'
      BY <1>4, <1>a, <3>2, <3>3 DEF Fetched, NoSampleLost
    <3> QED BY <2>1, <3>4 DEF ClearedIsInText
  <2> QED BY <2>2, <2>3
<1>5. CASE FetchFailed
  <2>1. Awaiting' = {}
    BY <1>5 DEF FetchFailed, Awaiting
  <2> QED BY <1>5, <1>a, <2>1 DEF FetchFailed, ClearedIsInText, NoSampleLost
<1>6. CASE UNCHANGED metricsVars
  BY <1>6, <1>a DEF metricsVars, ClearedIsInText, Awaiting, NoSampleLost
<1> QED BY <1>1, <1>2, <1>3, <1>4, <1>5, <1>6 DEF MetricsNext

-----------------------------------------------------------------------------
\* Every step of a scrape or a worker keeps it.
LEMMA MetricsInvStep == MetricsInv /\ [MetricsNext]_metricsVars => MetricsInv'
BY MetricsTypeStep, SamplesStep DEF MetricsInv

\* The inductive invariant of the scrapes and samples of /cluster_metrics, types
\* included.
THEOREM MetricsInvariant == MetricsSpec => []MetricsInv
BY MetricsInvInit, MetricsInvStep, PTL DEF MetricsSpec

\* A bitrate that comes while no scrape is under way stays until a response of
\* /cluster_metrics has reported it, whichever scrapes overlap or fail.
THEOREM SamplesAreNotLost == MetricsSpec => []NoSampleLost
<1>1. MetricsInv => NoSampleLost
  BY DEF MetricsInv
<1> QED BY <1>1, MetricsInvariant, PTL

\* "only ever have one in progress at a time": getClusterMetrics asks the workers
\* again only when its last question is settled.
THEOREM FetchesDoNotOverlap == MetricsSpec => []OneFetchAtATime
<1>1. MetricsInv => OneFetchAtATime
  BY DEF MetricsInv, PromiseIsFetch, OneFetchAtATime
<1> QED BY <1>1, MetricsInvariant, PTL

-----------------------------------------------------------------------------
(***************************************************************************)
(* The class ids that learn-address.sh gives out, for any limit of tc, with *)
(* one OpenVPN server.  With several the scripts overlap, and the ids are  *)
(* not unique.                                                             *)
(***************************************************************************)

Scripts == [at : {"last", "tc"}, ip : Ips, classid : Classids]

\* The values that the scripts compare.
LEMMA LearnNumbers ==
  ASSUME LearnTypeOK
  PROVE  /\ Cardinality(Ips) \in Nat /\ lastClassid \in Nat
         /\ \A ip \in Ips : classidFile[ip] \in Nat
<1>1. Cardinality(Ips) \in Nat
  BY LearnAssumption, FS_CardinalityType
<1> QED BY <1>1 DEF LearnTypeOK, Classids

\* A device has a script or none.
LEMMA RunningScript ==
  ASSUME LearnTypeOK, NEW d \in Devs
  PROVE  /\ script[d] # Idle => script[d] \in Scripts
         /\ script[d].at \in {"last", "tc"} => script[d] # Idle
<1>1. script[d] \in {Idle} \cup Scripts
  BY DEF LearnTypeOK, Scripts
<1>2. Idle.at = "none"
  BY DEF Idle
<1> QED BY <1>1, <1>2

\* The scripts of one server run one at a time.
LEMMA OneAtATime ==
  ASSUME OneServer, LearnTypeOK, ScriptsAreLocal
  PROVE  /\ \A d, e \in Running : d = e
         /\ \A ip \in Ips : script[DevOf[ip]] = Idle => Running = {}
<1>1. \A d \in Running : script[d].ip \in Ips /\ DevOf[script[d].ip] = d
  BY RunningScript DEF Running, Scripts, ScriptsAreLocal
<1>2. \A d, e \in Running : d = e
  BY <1>1 DEF OneServer
<1>3. ASSUME NEW ip \in Ips, script[DevOf[ip]] = Idle, NEW d \in Running PROVE FALSE
  <2>1. DevOf[ip] = d
    BY <1>1 DEF OneServer
  <2> QED BY <1>3, <2>1 DEF Running
<1> QED BY <1>2, <1>3

\* There is a class id left for every address that has none.
LEMMA NumberedIsFinite ==
  /\ IsFiniteSet(Numbered) /\ Cardinality(Numbered) \in Nat
  /\ Cardinality(Numbered) <= Cardinality(Ips)
  /\ \A ip \in Ips \ Numbered :
       /\ Cardinality(Numbered \cup {ip}) = Cardinality(Numbered) + 1
       /\ Cardinality(Numbered) + 1 <= Cardinality(Ips)
<1>1. Numbered \in SUBSET Ips
  BY DEF Numbered
<1>2. IsFiniteSet(Numbered) /\ Cardinality(Numbered) <= Cardinality(Ips)
  BY <1>1, LearnAssumption, FS_Subset
<1>3. Cardinality(Numbered) \in Nat
  BY <1>2, FS_CardinalityType
<1>4. ASSUME NEW ip \in Ips \ Numbered
      PROVE  /\ Cardinality(Numbered \cup {ip}) = Cardinality(Numbered) + 1
             /\ Cardinality(Numbered) + 1 <= Cardinality(Ips)
  <2>1. Cardinality(Numbered \cup {ip}) = Cardinality(Numbered) + 1
    BY <1>2, FS_AddElement
  <2>2. Numbered \cup {ip} \in SUBSET Ips
    BY <1>1
  <2>3. Cardinality(Numbered \cup {ip}) <= Cardinality(Ips)
    BY <2>2, LearnAssumption, FS_Subset
  <2> QED BY <2>1, <2>3
<1> QED BY <1>2, <1>3, <1>4

\* There are no files and no scripts.
LEMMA LearnInvInit == LearnInit => LearnInv
<1> SUFFICES ASSUME LearnInit PROVE LearnInv
  OBVIOUS
<1>1. Cardinality(Ips) \in Nat
  BY LearnAssumption, FS_CardinalityType
<1>2. LearnTypeOK
  BY <1>1 DEF LearnInit, LearnTypeOK, Classids
<1>3. Running = {}
  BY DEF LearnInit, Running
<1>4. Numbered = {}
  BY <1>3 DEF LearnInit, Numbered
<1>5. IdsAreCounted
  BY <1>4, FS_EmptySet DEF LearnInit, IdsAreCounted
<1>6. ScriptsAreLocal /\ IdIsFree
  BY <1>3 DEF ScriptsAreLocal, IdIsFree
<1>7. FilesAreKept /\ IdsAreDistinct /\ EveryoneHasClass
  BY DEF LearnInit, FilesAreKept, IdsAreDistinct, EveryoneHasClass
<1> QED BY <1>2, <1>5, <1>6, <1>7 DEF LearnInv

-----------------------------------------------------------------------------
\* bwlimit-disable takes away the class of one address: with unique class ids no
\* other address of the device loses its own.
LEMMA DisableKeeps ==
  ASSUME LearnInv, NEW ip \in Ips, bwlimitDisable(ip), UNCHANGED classidFile
  PROVE  /\ devFile' \subseteq Ips /\ learned' \subseteq Ips
         /\ classes' \in [Devs -> SUBSET Classids]
         /\ FilesAreKept' /\ EveryoneHasClass'
<1>1. /\ LearnTypeOK /\ FilesAreKept /\ IdsAreDistinct /\ EveryoneHasClass
  BY DEF LearnInv
<1>2. devFile' \subseteq Ips /\ learned' \subseteq Ips
  BY <1>1 DEF bwlimitDisable, LearnTypeOK
<1>3. classes' \in [Devs -> SUBSET Classids]
  BY <1>1 DEF bwlimitDisable, LearnTypeOK
<1>4. FilesAreKept'
  BY <1>1 DEF bwlimitDisable, FilesAreKept
<1>5. ASSUME NEW k \in learned'
      PROVE  classidFile[k] \in classes'[DevOf[k]] \/ classidFile[k] > MaxClassid
  <2>1. k \in learned /\ k # ip /\ k \in Ips /\ DevOf[k] \in Devs
    BY <1>1, LearnAssumption DEF bwlimitDisable, LearnTypeOK
  <2>2. classidFile[k] # classidFile[ip]
    BY <1>1, <2>1 DEF FilesAreKept, IdsAreDistinct
  <2>3. classidFile[k] \in classes[DevOf[k]] \/ classidFile[k] > MaxClassid
    BY <1>1, <2>1 DEF EveryoneHasClass
  <2> QED BY <1>1, <2>1, <2>2, <2>3 DEF bwlimitDisable, LearnTypeOK
<1> QED BY <1>2, <1>3, <1>4, <1>5 DEF EveryoneHasClass

\* bwlimit-enable takes the class id of the address, or the next one.
LEMMA EnableStep ==
  ASSUME OneServer, LearnInv, NEW ip \in Ips, Enable(ip)
  PROVE  LearnInv'
<1> DEFINE d == DevOf[ip]
           s == [at |-> IF classidFile[ip] # 0 THEN "tc" ELSE "last", ip |-> ip,
                 classid |-> ClassidFor(ip)]
<1>1. /\ LearnTypeOK /\ ScriptsAreLocal /\ IdsAreCounted /\ IdsAreDistinct
  BY DEF LearnInv
<1>2. Running = {} /\ d \in Devs
  BY <1>1, OneAtATime, LearnAssumption DEF Enable
<1>3. UNCHANGED <<lastClassid, classidFile>>
  BY DEF Enable
<1>4. script'[d] = s /\ script' = [script EXCEPT ![d] = s]
  BY <1>1, <1>2 DEF Enable, LearnTypeOK
<1>5. Running' = {d}
  <2>1. s.at # "none"
    OBVIOUS
  <2>2. s # Idle
    BY <2>1 DEF Idle
  <2> QED BY <1>1, <1>2, <1>4, <2>2 DEF Running, LearnTypeOK
<1>6. Numbered = {k \in Ips : classidFile[k] # 0}
  BY <1>2 DEF Numbered
<1>7. Numbered' = Numbered
  <2>1. s.at = "tc" => classidFile[ip] # 0
    OBVIOUS
  <2>2. s.ip = ip
    OBVIOUS
  <2> QED BY <1>3, <1>4, <1>5, <1>6, <2>1, <2>2 DEF Numbered
<1>8. s \in Scripts
  <2>1. ClassidFor(ip) \in Classids
    <3>1. CASE classidFile[ip] # 0
      BY <1>1, <3>1 DEF ClassidFor, LearnTypeOK
    <3>2. CASE classidFile[ip] = 0
      <4>1. ip \in Ips \ Numbered
        BY <1>6, <3>2
      <4>2. Cardinality(Numbered) + 1 <= Cardinality(Ips)
        BY <4>1, NumberedIsFinite
      <4>3. lastClassid + 1 <= Cardinality(Ips)
        BY <1>1, <4>2 DEF IdsAreCounted
      <4>4. lastClassid + 1 \in Classids
        BY <1>1, <4>3, LearnNumbers DEF Classids
      <4> QED BY <3>2, <4>4 DEF ClassidFor
    <3> QED BY <3>1, <3>2
  <2> QED BY <2>1 DEF Scripts
<1>9. LearnTypeOK'
  <2>1. script' \in [Devs -> {Idle} \cup Scripts]
    BY <1>1, <1>4, <1>8 DEF LearnTypeOK, Scripts
  <2>2. /\ devFile' \subseteq Ips /\ learned' \subseteq Ips
        /\ classes' \in [Devs -> SUBSET Classids]
    BY <1>3, DisableKeeps DEF Enable
  <2> QED BY <1>1, <1>3, <2>1, <2>2 DEF LearnTypeOK, Scripts
<1>10. ScriptsAreLocal'
  BY <1>4, <1>5 DEF ScriptsAreLocal
<1>11. IdsAreCounted' /\ IdsAreDistinct'
  BY <1>1, <1>3, <1>7 DEF IdsAreCounted, IdsAreDistinct
<1>12. IdIsFree'
  <2>1. s.ip = ip /\ s.classid = ClassidFor(ip)
    OBVIOUS
  <2>2. ClassidFor(ip) # 0
    BY <1>1, LearnNumbers DEF ClassidFor
  <2>3. IF classidFile[ip] # 0
          THEN s.at = "tc" /\ ClassidFor(ip) = classidFile[ip]
          ELSE s.at = "last" /\ ClassidFor(ip) = lastClassid + 1
    BY DEF ClassidFor
  <2>4. \A k \in Ips \ {ip} : classidFile[k] # ClassidFor(ip)
    BY <1>1, LearnNumbers DEF ClassidFor, IdsAreDistinct
  <2> QED BY <1>3, <1>4, <1>5, <2>1, <2>2, <2>3, <2>4 DEF IdIsFree
<1>13. FilesAreKept' /\ EveryoneHasClass'
  BY <1>3, DisableKeeps DEF Enable
<1> QED BY <1>9, <1>10, <1>11, <1>12, <1>13 DEF LearnInv

\* A script that has taken the next class id makes it the last one.
LEMMA WriteLastStep ==
  ASSUME OneServer, LearnInv, NEW d \in Devs, WriteLast(d)
  PROVE  LearnInv'
<1> DEFINE ip == script[d].ip
<1>1. /\ LearnTypeOK /\ ScriptsAreLocal /\ FilesAreKept /\ IdsAreCounted /\ IdIsFree
      /\ IdsAreDistinct /\ EveryoneHasClass
  BY DEF LearnInv
<1>2. script[d] \in Scripts /\ script[d].at = "last" /\ script[d] # Idle
  BY <1>1, RunningScript DEF WriteLast
<1>3. Running = {d}
  BY <1>1, <1>2, OneAtATime DEF Running
<1>4. ip \in Ips /\ script[d].classid \in Classids
  BY <1>2 DEF Scripts
<1>5. /\ classidFile[ip] = 0 /\ script[d].classid = lastClassid + 1
      /\ \A k \in Ips \ {ip} : classidFile[k] # script[d].classid
  BY <1>1, <1>2, <1>3 DEF IdIsFree
<1>6. UNCHANGED <<classidFile, devFile, classes, learned>>
  BY DEF WriteLast
<1>7. lastClassid' = lastClassid + 1
  BY <1>5 DEF WriteLast
<1>8. /\ script' = [script EXCEPT ![d] = [script[d] EXCEPT !.at = "tc"]]
      /\ script'[d] = [at |-> "tc", ip |-> ip, classid |-> lastClassid + 1]
  <2>1. script' = [script EXCEPT ![d] = [script[d] EXCEPT !.at = "tc"]]
    BY DEF WriteLast
  <2>2. script'[d] = [script[d] EXCEPT !.at = "tc"]
    BY <1>1, <2>1 DEF LearnTypeOK
  <2>3. [script[d] EXCEPT !.at = "tc"] = [at |-> "tc", ip |-> ip, classid |-> lastClassid + 1]
    BY <1>2, <1>5 DEF Scripts
  <2> QED BY <2>1, <2>2, <2>3
<1> HIDE DEF ip
<1>9. script'[d].ip = ip /\ script'[d].at = "tc" /\ script'[d].classid = lastClassid + 1
  BY <1>8
<1>10. Running' = {d}
  <2>1. script'[d] # Idle
    BY <1>9 DEF Idle
  <2>2. \A e \in Devs \ {d} : script'[e] = script[e]
    BY <1>1, <1>8 DEF LearnTypeOK
  <2> QED BY <1>3, <2>1, <2>2 DEF Running
<1>11. LearnTypeOK'
  <2>1. lastClassid + 1 \in Classids
    BY <1>4, <1>5
  <2>2. script'[d] \in Scripts
    BY <1>4, <1>8, <2>1 DEF Scripts
  <2>3. script' \in [Devs -> {Idle} \cup Scripts]
    <3>1. \A e \in Devs : script'[e] \in {Idle} \cup Scripts
      BY <1>1, <1>8, <2>2 DEF LearnTypeOK, Scripts
    <3>2. script' = [e \in Devs |-> script'[e]]
      BY <1>1, <1>8 DEF LearnTypeOK
    <3> QED BY <3>1, <3>2
  <2> QED BY <1>1, <1>6, <1>7, <2>1, <2>3 DEF LearnTypeOK, Scripts
<1>12. ScriptsAreLocal'
  BY <1>1, <1>3, <1>9, <1>10 DEF ScriptsAreLocal, ip
<1>13. IdsAreCounted'
  <2>1. Numbered = {k \in Ips : classidFile[k] # 0}
    BY <1>2, <1>3 DEF Numbered
  <2>2. ip \in Ips \ Numbered
    BY <1>4, <1>5, <2>1
  <2>3. Numbered' = Numbered \cup {ip}
    BY <1>4, <1>6, <1>9, <1>10, <2>1 DEF Numbered
  <2>4. Cardinality(Numbered \cup {ip}) = Cardinality(Numbered) + 1
    BY <2>2, NumberedIsFinite
  <2> QED BY <1>1, <1>7, <2>3, <2>4 DEF IdsAreCounted
<1>14. IdIsFree'
  <2>1. lastClassid + 1 # 0
    BY <1>1, LearnNumbers
  <2> QED BY <1>5, <1>6, <1>7, <1>9, <1>10, <2>1 DEF IdIsFree
<1>15. IdsAreDistinct'
  BY <1>1, <1>6, <1>7, LearnNumbers DEF IdsAreDistinct
<1>16. FilesAreKept' /\ EveryoneHasClass'
  BY <1>1, <1>6 DEF FilesAreKept, EveryoneHasClass
<1> QED BY <1>11, <1>12, <1>13, <1>14, <1>15, <1>16 DEF LearnInv

\* The end of bwlimit-enable: the address has its class and its class id.
LEMMA LimitStep ==
  ASSUME OneServer, LearnInv, NEW d \in Devs, Limit(d)
  PROVE  LearnInv'
<1> DEFINE ip == script[d].ip
           newId == script[d].classid
<1>1. /\ LearnTypeOK /\ ScriptsAreLocal /\ FilesAreKept /\ IdsAreCounted /\ IdIsFree
      /\ IdsAreDistinct /\ EveryoneHasClass
  BY DEF LearnInv
<1>2. script[d] \in Scripts /\ script[d].at = "tc" /\ script[d] # Idle
  BY <1>1, RunningScript DEF Limit
<1>3. Running = {d}
  BY <1>1, <1>2, OneAtATime DEF Running
<1>4. ip \in Ips /\ newId \in Classids /\ DevOf[ip] = d
  BY <1>1, <1>2, <1>3 DEF Scripts, ScriptsAreLocal
<1>5. /\ newId # 0 /\ newId = IF classidFile[ip] # 0 THEN classidFile[ip] ELSE lastClassid
      /\ \A k \in Ips \ {ip} : classidFile[k] # newId
  BY <1>1, <1>2, <1>3 DEF IdIsFree
<1>6. /\ classes' = [classes EXCEPT ![d] = @ \cup ({newId} \cap 1 .. MaxClassid)]
      /\ classidFile' = [classidFile EXCEPT ![ip] = newId]
      /\ devFile' = devFile \cup {ip} /\ learned' = learned \cup {ip}
      /\ script' = [script EXCEPT ![d] = Idle]
      /\ lastClassid' = lastClassid
  BY DEF Limit
<1>7. Running' = {}
  BY <1>1, <1>3, <1>6 DEF Running, LearnTypeOK
<1>8. Numbered' = Numbered
  <2>1. Numbered = {k \in Ips : classidFile[k] # 0} \cup {ip}
    BY <1>2, <1>3, <1>4 DEF Numbered
  <2>2. Numbered' = {k \in Ips : classidFile'[k] # 0}
    BY <1>7 DEF Numbered
  <2>3. \A k \in Ips : classidFile'[k] = IF k = ip THEN newId ELSE classidFile[k]
    BY <1>1, <1>6 DEF LearnTypeOK
  <2> QED BY <1>4, <1>5, <2>1, <2>2, <2>3
<1> HIDE DEF ip, newId
<1>9. \A k \in Ips : classidFile'[k] = IF k = ip THEN newId ELSE classidFile[k]
  BY <1>1, <1>6 DEF LearnTypeOK
<1>10. newId \in Nat /\ newId <= lastClassid
  BY <1>1, <1>4, <1>5, LearnNumbers DEF Classids, IdsAreDistinct
<1>11. LearnTypeOK'
  <2>1. classes' \in [Devs -> SUBSET Classids]
    BY <1>1, <1>4, <1>6 DEF LearnTypeOK
  <2>2. classidFile' \in [Ips -> Classids]
    BY <1>1, <1>4, <1>6 DEF LearnTypeOK
  <2>3. script' \in [Devs -> {Idle} \cup Scripts]
    BY <1>1, <1>6 DEF LearnTypeOK, Scripts
  <2> QED BY <1>1, <1>4, <1>6, <2>1, <2>2, <2>3 DEF LearnTypeOK, Scripts
<1>12. ScriptsAreLocal' /\ IdIsFree'
  BY <1>7 DEF ScriptsAreLocal, IdIsFree
<1>13. IdsAreCounted'
  BY <1>1, <1>6, <1>8 DEF IdsAreCounted
<1>14. IdsAreDistinct'
  BY <1>1, <1>5, <1>6, <1>9, <1>10, LearnNumbers DEF IdsAreDistinct
<1>15. FilesAreKept'
  <2>1. learned' \subseteq devFile'
    BY <1>1, <1>6 DEF FilesAreKept
  <2>2. ASSUME NEW k \in devFile' PROVE classidFile'[k] # 0
    <3>1. k \in Ips /\ (k = ip \/ k \in devFile)
      BY <1>1, <1>4, <1>6 DEF LearnTypeOK
    <3>2. k \in devFile => classidFile[k] # 0
      BY <1>1 DEF FilesAreKept
    <3>3. newId # 0
      BY <1>5 DEF newId
    <3> QED BY <1>9, <3>1, <3>2, <3>3
  <2> QED BY <2>1, <2>2 DEF FilesAreKept
<1>16. EveryoneHasClass'
  <2>1. \A e \in Devs : classes[e] \subseteq classes'[e]
    BY <1>1, <1>6 DEF LearnTypeOK
  <2>2. newId \in classes'[d] \/ newId > MaxClassid
    BY <1>1, <1>5, <1>6, <1>10, LearnAssumption DEF LearnTypeOK
  <2>3. ASSUME NEW k \in learned'
        PROVE  classidFile'[k] \in classes'[DevOf[k]] \/ classidFile'[k] > MaxClassid
    <3>1. CASE k = ip
      BY <1>4, <1>9, <2>2, <3>1
    <3>2. CASE k # ip
      <4>1. k \in learned /\ k \in Ips /\ DevOf[k] \in Devs
        BY <1>1, <1>6, <3>2, LearnAssumption DEF LearnTypeOK
      <4> QED BY <1>1, <1>9, <2>1, <3>2, <4>1 DEF EveryoneHasClass
    <3> QED BY <3>1, <3>2
  <2> QED BY <2>3 DEF EveryoneHasClass
<1> QED BY <1>11, <1>12, <1>13, <1>14, <1>15, <1>16 DEF LearnInv

\* A client leaves: its class goes, its class newId stays.
LEMMA DisableStep ==
  ASSUME LearnInv, NEW ip \in Ips, Disable(ip)
  PROVE  LearnInv'
<1>1. UNCHANGED <<lastClassid, classidFile, script>>
  BY DEF Disable
<1>2. /\ devFile' \subseteq Ips /\ learned' \subseteq Ips
      /\ classes' \in [Devs -> SUBSET Classids]
      /\ FilesAreKept' /\ EveryoneHasClass'
  BY <1>1, DisableKeeps DEF Disable
<1>3. LearnTypeOK'
  BY <1>1, <1>2 DEF LearnInv, LearnTypeOK
<1>4. ScriptsAreLocal' /\ IdsAreCounted' /\ IdIsFree' /\ IdsAreDistinct'
  BY <1>1 DEF LearnInv, ScriptsAreLocal, IdsAreCounted, Numbered, IdIsFree,
              IdsAreDistinct, Running
<1> QED BY <1>2, <1>3, <1>4 DEF LearnInv

\* A server is replaced: its classes go, and so do its clients.
LEMMA ReplacedStep ==
  ASSUME LearnInv, NEW d \in Devs, ServerReplaced(d)
  PROVE  LearnInv'
<1>1. UNCHANGED <<lastClassid, classidFile, devFile, script>>
  BY DEF ServerReplaced
<1>2. LearnTypeOK'
  BY <1>1 DEF LearnInv, LearnTypeOK, ServerReplaced
<1>3. FilesAreKept'
  BY <1>1 DEF LearnInv, FilesAreKept, ServerReplaced
<1>4. EveryoneHasClass'
  BY <1>1 DEF LearnInv, LearnTypeOK, EveryoneHasClass, ServerReplaced
<1>5. ScriptsAreLocal' /\ IdsAreCounted' /\ IdIsFree' /\ IdsAreDistinct'
  BY <1>1 DEF LearnInv, ScriptsAreLocal, IdsAreCounted, Numbered, IdIsFree,
              IdsAreDistinct, Running
<1> QED BY <1>2, <1>3, <1>4, <1>5 DEF LearnInv

-----------------------------------------------------------------------------
\* With one server every step of a script keeps it.
LEMMA LearnInvStep == OneServer /\ LearnInv /\ [LearnNext]_learnVars => LearnInv'
<1> SUFFICES ASSUME OneServer, LearnInv, [LearnNext]_learnVars PROVE LearnInv'
  OBVIOUS
<1>1. CASE UNCHANGED learnVars
  BY <1>1 DEF learnVars, LearnInv, LearnTypeOK, ScriptsAreLocal, FilesAreKept,
              IdsAreCounted, Numbered, IdIsFree, IdsAreDistinct, EveryoneHasClass, Running
<1> QED
  BY <1>1, EnableStep, WriteLastStep, LimitStep, DisableStep, ReplacedStep
  DEF LearnNext

\* The inductive invariant of the scripts of one server, types included: there
\* are never more class ids than addresses.
THEOREM LearnInvariant == OneServer => (LearnSpec => []LearnInv)
<1> SUFFICES ASSUME OneServer PROVE LearnSpec => []LearnInv
  OBVIOUS
<1>1. LearnInv /\ [LearnNext]_learnVars => LearnInv'
  BY LearnInvStep
<1> QED BY LearnInvInit, <1>1, PTL DEF LearnSpec

\* "Find unique classid": no two clients of the server share a class.
THEOREM ClassidsAreUnique == OneServer => (LearnSpec => []UniqueClassid)
<1> SUFFICES ASSUME OneServer PROVE LearnSpec => []UniqueClassid
  OBVIOUS
<1>1. LearnInv => UniqueClassid
  BY DEF LearnInv, LearnTypeOK, FilesAreKept, IdsAreDistinct, UniqueClassid
<1> QED BY <1>1, LearnInvariant, PTL

\* However clients come, go and come back and the server is replaced, the device
\* has a class for every connected client that tc had a class id for.
THEOREM ClientsHaveClasses == OneServer => (LearnSpec => []EveryoneHasClass)
<1> SUFFICES ASSUME OneServer PROVE LearnSpec => []EveryoneHasClass
  OBVIOUS
<1>1. LearnInv => EveryoneHasClass
  BY DEF LearnInv
<1> QED BY <1>1, LearnInvariant, PTL

-----------------------------------------------------------------------------
(***************************************************************************)
(* The registration of the service instance, for any number of attempts.   *)
(***************************************************************************)

\* Nothing is registered, and no heartbeat is due.
LEMMA ServiceInvInit == ServiceInit => ServiceInv
BY DEF ServiceInit, ServiceInv, ServiceTypeOK

\* Every step of the registration, the heartbeat or the API keeps it.
LEMMA ServiceInvStep == ServiceInv /\ [ServiceNext]_serviceVars => ServiceInv'
<1> SUFFICES ASSUME ServiceInv, [ServiceNext]_serviceVars PROVE ServiceInv'
  OBVIOUS
<1> USE DEF ServiceInv, ServiceTypeOK
<1>1. ASSUME NEW i \in Ids, register(i) PROVE ServiceInv'
  BY <1>1 DEF register, Created
<1>2. ASSUME NEW i \in Ids, Forgotten(i) PROVE ServiceInv'
  BY <1>2 DEF Forgotten
<1>3. CASE wrap
  BY <1>3 DEF wrap
<1>4. CASE RegisterFails
  BY <1>4 DEF RegisterFails, Created
<1>5. CASE RegisterAgain
  BY <1>5 DEF RegisterAgain
<1>6. CASE HeartbeatDue
  BY <1>6 DEF HeartbeatDue
<1>7. CASE sendHeartbeat
  BY <1>7 DEF sendHeartbeat
<1>8. CASE HeartbeatFails
  BY <1>8 DEF HeartbeatFails
<1>9. CASE UNCHANGED serviceVars
  BY <1>9 DEF serviceVars
<1> QED BY <1>1, <1>2, <1>3, <1>4, <1>5, <1>6, <1>7, <1>8, <1>9 DEF ServiceNext

-----------------------------------------------------------------------------
(***************************************************************************)
(* The start of a server, for any number of processes.                     *)
(***************************************************************************)

\* Nothing has been started.
LEMMA StartTypeInit == StartInit => StartTypeOK
BY DEF StartInit, StartTypeOK

\* Every step of a start-up keeps the types.
LEMMA StartTypeStep == StartTypeOK /\ [StartNext]_startVars => StartTypeOK'
<1> SUFFICES ASSUME StartTypeOK, [StartNext]_startVars PROVE StartTypeOK'
  OBVIOUS
<1> USE DEF StartTypeOK, worker, servers
<1>1. CASE NoOrphan
  BY <1>1 DEF NoOrphan
<1>2. CASE KillOrphan
  BY <1>2 DEF KillOrphan
<1>3. CASE LoopEnds
  BY <1>3 DEF LoopEnds
<1>4. CASE Ping
  BY <1>4 DEF Ping
<1>5. CASE Sigkill
  BY <1>5 DEF Sigkill, Dead
<1>6. CASE OrphanTimeout
  BY <1>6 DEF OrphanTimeout
<1>7. CASE Spawn
  BY <1>7 DEF Spawn
<1>8. CASE Ready
  BY <1>8 DEF Ready
<1>9. CASE StartTimeout
  BY <1>9 DEF StartTimeout
<1>10. CASE Connect
  BY <1>10 DEF Connect
<1>11. CASE ReleaseHold
  BY <1>11 DEF ReleaseHold
<1>12. CASE FatalError
  BY <1>12 DEF FatalError
<1>13. CASE WorkerExits
  BY <1>13 DEF WorkerExits
<1>14. CASE Restart
  BY <1>14 DEF Restart
<1>15. ASSUME NEW p \in Pids, ServerStarts(p) PROVE StartTypeOK'
  BY <1>15 DEF ServerStarts, Dead
<1>16. ASSUME NEW p \in Pids, ServerTerminates(p) PROVE StartTypeOK'
  BY <1>16 DEF ServerTerminates, Dead
<1>17. ASSUME NEW p \in Pids, ServerCrashes(p) PROVE StartTypeOK'
  BY <1>17 DEF ServerCrashes, Dead
<1>18. CASE UNCHANGED startVars
  BY <1>18 DEF startVars
<1> QED
  BY <1>1, <1>2, <1>3, <1>4, <1>5, <1>6, <1>7, <1>8, <1>9, <1>10, <1>11, <1>12, <1>13,
     <1>14, <1>15, <1>16, <1>17, <1>18
  DEF StartNext

-----------------------------------------------------------------------------
(***************************************************************************)
(* All of them.                                                            *)
(***************************************************************************)

\* A step is one of one part, and no step of the others.
LEMMA PartsStep ==
  [Next]_allVars => /\ [AuthNext]_authVars /\ [MetricsNext]_metricsVars
                    /\ [ServiceNext]_serviceVars /\ [ForkNext]_subnetVars
                    /\ [StartNext]_startVars /\ [LearnNext]_learnVars
BY DEF Next, allVars, primaryVars, instanceVars

\* Authentication, metrics, registration, subnets, start-up and bandwidth limits
\* each keep their inductive invariant: postAuth, /cluster_metrics, service.ts,
\* config.ts, VpnManager.start and learn-address.sh, whichever of them moves.
THEOREM PartsInvariant == OneServer => (FairSpec => []PartsInv)
<1> SUFFICES ASSUME OneServer PROVE FairSpec => []PartsInv
  OBVIOUS
<1>1. Init => PartsInv
  BY AuthInvInit, MetricsInvInit, ServiceInvInit, SubnetsInvInit, StartTypeInit, LearnInvInit
  DEF Init, PartsInv
<1>2. PartsInv /\ [Next]_allVars => PartsInv'
  BY PartsStep, AuthInvStep, MetricsInvStep, ServiceInvStep, SubnetsInvStep, StartTypeStep,
     LearnInvStep
  DEF PartsInv
<1> QED BY <1>1, <1>2, PTL DEF FairSpec

=============================================================================
