-------------------------- MODULE ReconnectManager --------------------------
(***************************************************************************)
(* ReconnectManager (src/src/engine/reconnect_manager.cpp): the delay      *)
(* before the next attempt of a download whose network failed.  Each task  *)
(* of the engine has one; the setters are for embedders.  Delays are ints  *)
(* in the code, and doubling one below a maximum of at most 2^30 seconds   *)
(* does not overflow.                                                      *)
(***************************************************************************)
EXTENDS Integers

CONSTANTS Delays,        \* values of the constructor and the setters, in seconds
          MaxFailures    \* bound: failures in a row

VARIABLES retryCount, networkAvailable, baseDelay, maxRetryDelay

reconnectVars == <<retryCount, networkAvailable, baseDelay, maxRetryDelay>>

AtLeast(n, d) == IF d < n THEN n ELSE d

Init ==
  /\ retryCount = 0 /\ networkAvailable = TRUE
  /\ baseDelay \in Delays /\ maxRetryDelay \in Delays

OnNetworkFailure ==
  /\ retryCount < MaxFailures
  /\ retryCount' = retryCount + 1 /\ networkAvailable' = FALSE
  /\ UNCHANGED <<baseDelay, maxRetryDelay>>

OnNetworkRestored ==
  /\ retryCount' = 0 /\ networkAvailable' = TRUE
  /\ UNCHANGED <<baseDelay, maxRetryDelay>>

ResetRetryCount ==
  /\ retryCount' = 0
  /\ UNCHANGED <<networkAvailable, baseDelay, maxRetryDelay>>

SetBaseDelay(seconds) ==
  /\ baseDelay' = AtLeast(0, seconds)
  /\ UNCHANGED <<retryCount, networkAvailable, maxRetryDelay>>

SetMaxRetryDelay(seconds) ==
  /\ maxRetryDelay' = AtLeast(1, seconds)
  /\ UNCHANGED <<retryCount, networkAvailable, baseDelay>>

Next ==
  \/ OnNetworkFailure \/ OnNetworkRestored \/ ResetRetryCount
  \/ \E seconds \in Delays : SetBaseDelay(seconds) \/ SetMaxRetryDelay(seconds)

\* The delay after the first i - 1 rounds of the loop of currentRetryDelay.
Doubled[i \in 1..MaxFailures] ==
  IF i = 1 THEN baseDelay
  ELSE LET before == Doubled[i - 1]
       IN IF before < maxRetryDelay THEN 2 * before ELSE before

\* Mutant form of CurrentRetryDelay: the last doubling may overshoot.
DelayOvershoots == IF retryCount <= 0 THEN baseDelay ELSE Doubled[retryCount]

CurrentRetryDelay ==
  IF retryCount <= 0 THEN baseDelay
  ELSE IF Doubled[retryCount] < maxRetryDelay THEN Doubled[retryCount] ELSE maxRetryDelay

PowerOfTwo[k \in 0..MaxFailures] == IF k = 0 THEN 1 ELSE 2 * PowerOfTwo[k - 1]

\* After n failures in a row the delay is the base delay doubled n - 1 times, or
\* the maximum if that is less, whatever the setters were called with meanwhile
\* (a base above the maximum, zero, a maximum that is no multiple of the base).
DelayDoubles ==
  retryCount > 0 =>
    LET whole == baseDelay * PowerOfTwo[retryCount - 1]
    IN CurrentRetryDelay = IF whole < maxRetryDelay THEN whole ELSE maxRetryDelay
=============================================================================
