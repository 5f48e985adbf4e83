----------------------------- MODULE DeviceAuth -----------------------------
(***************************************************************************)
(* Authentication of devices: POST /api/v1/auth/ and checkDeviceAuth of    *)
(* src/api.ts, called by the OpenVPN plugin auth/src/main.rs.              *)
(*                                                                         *)
(* The answers of the balena API are memoized per uuid and key.  Different *)
(* uuids and keys do not interact, so there is one pair of them here, and  *)
(* a number of logins that present it.                                     *)
(***************************************************************************)
EXTENDS Integers, FiniteSets

CONSTANTS
  Logins,          \* login attempts
  MaxAge,          \* VPN_AUTH_CACHE_TIMEOUT
  RequestTimeout,  \* REQUEST_TIMEOUT of a request to the API
  MaxClock,        \* bound: how long the clock runs
  MaxChanges       \* bound: how often the API changes its mind

ASSUME AuthAssumption ==
  /\ MaxAge \in Nat \ {0} /\ RequestTimeout \in Nat \ {0}
  /\ MaxClock \in Nat /\ MaxChanges \in Nat

VARIABLES
  login,      \* state of a login; "0" and "1" are in the auth control file
  memo,       \* the entry of $checkDeviceAuth
  memoAt,     \* when its lookup was made, or its answer memoized
  response,   \* external: the answer of the API on its way here
  valid,      \* external: the API accepts the key
  changes,    \* external: how often it has changed its mind
  clock,
  startedAt, decidedAt,          \* history: of every login
  validAt, invalidAt, failedAt   \* history: last time the key was accepted or
                                 \* not by the API, and last failed lookup

memoVars == <<memo, memoAt, response>>
truth == <<valid, changes>>
authHistory == <<startedAt, decidedAt, validAt, invalidAt, failedAt>>
authVars == <<login, memoVars, truth, clock, authHistory>>

Time == 0 .. MaxClock
NeverYet == -MaxAge - RequestTimeout - 1

AuthTypeOK ==
  /\ login \in [Logins -> {"new", "waiting", "delayed", "0", "1", "400"}]
  /\ memo \in {"empty", "pending", "200", "401"}
  /\ response \in {"none", "200", "401", "503", "error"}
  /\ valid \in BOOLEAN /\ changes \in 0 .. MaxChanges
  /\ clock \in Time /\ memoAt \in Time
  /\ startedAt \in [Logins -> Time] /\ decidedAt \in [Logins -> Time]
  /\ {validAt, invalidAt, failedAt} \subseteq Time \cup {NeverYet}

AuthInit ==
  /\ login = [l \in Logins |-> "new"]
  /\ memo = "empty" /\ memoAt = 0 /\ response = "none"
  /\ valid \in BOOLEAN /\ changes = 0 /\ clock = 0
  /\ startedAt = [l \in Logins |-> 0] /\ decidedAt = [l \in Logins |-> 0]
  /\ validAt = (IF valid THEN 0 ELSE NeverYet)
  /\ invalidAt = (IF valid THEN NeverYet ELSE 0)
  /\ failedAt = NeverYet

-----------------------------------------------------------------------------
\* What the plugin writes to the auth control file: "1" authorizes the login.
Plugin(status) == IF status = "200" THEN "1" ELSE "0"

\* The handler goes on with the status it was waiting for: 200 is passed on,
\* another status is answered with 401, after DELAY_ON_AUTH_FAIL.
After(status) == IF status = "200" THEN Plugin("200") ELSE "delayed"

\* All that wait for the lookup get the same outcome.
Settle(outcome) ==
  /\ login' = [l \in Logins |-> IF login[l] = "waiting" THEN outcome ELSE login[l]]
  /\ decidedAt' = [l \in Logins |-> IF login[l] = "waiting" THEN clock
                                                            ELSE decidedAt[l]]

\* A memoized answer is used at once, a lookup under way is waited for, and
\* otherwise one is made.
checkDeviceAuth(l) ==
  \/ /\ memo \in {"200", "401"}
     /\ login' = [login EXCEPT ![l] = After(memo)]
     /\ decidedAt' = [decidedAt EXCEPT ![l] = clock]
     /\ UNCHANGED memoVars
  \/ /\ memo = "pending"
     /\ login' = [login EXCEPT ![l] = "waiting"]
     /\ UNCHANGED <<memoVars, decidedAt>>
  \/ /\ memo = "empty"
     /\ login' = [login EXCEPT ![l] = "waiting"]
     /\ memo' = "pending" /\ memoAt' = clock
     /\ UNCHANGED <<response, decidedAt>>

postAuth(l) ==
  /\ login[l] = "new"
  /\ startedAt' = [startedAt EXCEPT ![l] = clock]
  /\ \/ checkDeviceAuth(l)
     \/ \* no username, or no password: not from the plugin, which sends both
        /\ login' = [login EXCEPT ![l] = "400"]
        /\ UNCHANGED <<memoVars, decidedAt>>
  /\ UNCHANGED <<truth, clock, validAt, invalidAt, failedAt>>

\* 200, 401 or 403, which is treated alike: memoized from now on.
LookupAnswered ==
  /\ response \in {"200", "401"}
  /\ memo' = response /\ memoAt' = clock /\ response' = "none"
  /\ Settle(After(response))
  /\ UNCHANGED <<truth, clock, startedAt, validAt, invalidAt, failedAt>>

\* Mutant: 503 is an answer like another, and memoized.
LookupFailed_Memoized ==
  /\ response \in {"503", "error"}
  /\ memo' = (IF response = "503" THEN "401" ELSE "empty")
  /\ memoAt' = clock /\ response' = "none"
  /\ Settle(IF response = "503" THEN After(response) ELSE "0")
  /\ failedAt' = clock
  /\ UNCHANGED <<truth, clock, startedAt, validAt, invalidAt>>

\* Mutant: the handler does not catch errors.
LookupFailed_NotCaught ==
  /\ response \in {"503", "error"}
  /\ memo' = "empty" /\ response' = "none"
  /\ UNCHANGED <<login, memoAt, truth, clock, authHistory>>

\* 503 is thrown as an ExpectedAuthError and turned back into a status; other
\* errors are caught by the handler, which answers 401.  Neither is memoized.
LookupFailed ==
  /\ response \in {"503", "error"}
  /\ memo' = "empty" /\ response' = "none"
  /\ Settle(IF response = "503" THEN After(response) ELSE Plugin("401"))
  /\ failedAt' = clock
  /\ UNCHANGED <<memoAt, truth, clock, startedAt, validAt, invalidAt>>

\* The delay is over: 401, and the plugin is told.
DelayOver(l) ==
  /\ login[l] = "delayed"
  /\ login' = [login EXCEPT ![l] = Plugin("401")]
  /\ UNCHANGED <<memoVars, truth, clock, authHistory>>

-----------------------------------------------------------------------------
\* External: the API answers, fails, or does not answer in time.
ApiAnswers ==
  /\ memo = "pending" /\ response = "none"
  /\ response' \in {IF valid THEN "200" ELSE "401", "503", "error"}
  /\ UNCHANGED <<login, memo, memoAt, truth, clock, authHistory>>

\* External: a key is created, or revoked.
KeyChanges ==
  /\ changes < MaxChanges /\ changes' = changes + 1
  /\ valid' = ~valid
  /\ IF valid THEN invalidAt' = clock /\ UNCHANGED validAt
              ELSE validAt' = clock /\ UNCHANGED invalidAt
  /\ UNCHANGED <<login, memoVars, clock, startedAt, decidedAt, failedAt>>

\* Mutant: answers are kept for ever.
Expires_Never(now) == FALSE

\* A memoized answer is dropped MaxAge after it came.
Expires(now) == memo \in {"200", "401"} /\ now >= memoAt + MaxAge

\* Time passes.  A request to the API is given up after RequestTimeout.
AuthTick ==
  /\ clock < MaxClock
  /\ memo = "pending" => clock < memoAt + RequestTimeout
  /\ clock' = clock + 1
  /\ memo' = IF Expires(clock + 1) THEN "empty" ELSE memo
  /\ validAt' = IF valid THEN clock + 1 ELSE validAt
  /\ invalidAt' = IF valid THEN invalidAt ELSE clock + 1
  /\ UNCHANGED <<login, memoAt, response, truth, startedAt, decidedAt, failedAt>>

AuthNext ==
  \/ \E l \in Logins : postAuth(l) \/ DelayOver(l)
  \/ LookupAnswered \/ LookupFailed
  \/ ApiAnswers \/ KeyChanges \/ AuthTick

\* A request to the API settles, if only by its timeout; timers fire.
AuthFairness ==
  /\ WF_authVars(ApiAnswers)
  /\ WF_authVars(LookupAnswered) /\ WF_authVars(LookupFailed)
  /\ \A l \in Logins : WF_authVars(DelayOver(l))

AuthSpec == AuthInit /\ [][AuthNext]_authVars

-----------------------------------------------------------------------------
Recently(t, l) == t >= decidedAt[l] - MaxAge - RequestTimeout

\* checkDeviceAuth answers from memory, and logins share a lookup that may have
\* been made before the key was revoked: yet nobody is let in by the plugin
\* with a key that the API has not accepted for longer than one lookup and
\* VPN_AUTH_CACHE_TIMEOUT.
NoOneInWithOldKey ==
  \A l \in Logins : login[l] = "1" => Recently(validAt, l)

\* "503 is an expected error code but we don't want to cache it": a login is
\* refused because the API refused the key a short while ago, or because a
\* lookup failed while this login was under way.  An outage is not remembered.
OutageIsForgotten ==
  \A l \in Logins : login[l] \in {"delayed", "0"} =>
    Recently(invalidAt, l) \/ failedAt >= startedAt[l]

\* The histories are of the past, and the key is what it is at this moment.
HistoryIsPast ==
  /\ validAt <= clock /\ invalidAt <= clock /\ failedAt <= clock
  /\ \A l \in Logins : startedAt[l] <= clock
  /\ IF valid THEN validAt = clock ELSE invalidAt = clock

\* A lookup under way is no older than RequestTimeout, and only then can there be
\* an answer, which was true after the lookup was made.
LookupIsFresh ==
  /\ memo = "pending" => memoAt <= clock /\ clock <= memoAt + RequestTimeout
  /\ response # "none" => memo = "pending"
  /\ response = "200" => validAt >= memoAt
  /\ response = "401" => invalidAt >= memoAt

\* A memoized answer is younger than MaxAge, and was true no longer than one
\* lookup before it was memoized.
MemoIsFresh ==
  /\ memo \in {"200", "401"} => memoAt <= clock /\ clock < memoAt + MaxAge
  /\ memo = "200" => validAt >= memoAt - RequestTimeout
  /\ memo = "401" => invalidAt >= memoAt - RequestTimeout

\* Inductive: what postAuth and its memoized lookups keep true.
AuthInv ==
  /\ AuthTypeOK /\ HistoryIsPast
  /\ LookupIsFresh /\ MemoIsFresh
  /\ NoOneInWithOldKey /\ OutageIsForgotten

\* OpenVPN waits for the auth control file: every login that postAuth has
\* accepted is decided in the end, whatever the API does.
EveryLoginDecided ==
  \A l \in Logins :
    login[l] \in {"waiting", "delayed"} ~> login[l] \in {"0", "1"}

=============================================================================
