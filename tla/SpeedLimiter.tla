---------------------------- MODULE SpeedLimiter ----------------------------
(***************************************************************************)
(* SpeedLimiter and TokenBucket (src/src/speed/speed_limiter.cpp): one     *)
(* bucket for everything, one for each category and each download that has *)
(* a limit.  allowBytes takes tokens at the three levels in turn, under    *)
(* one lock, and does not give back what an upper level has already paid   *)
(* when a lower one refuses.                                               *)
(*                                                                         *)
(* Time is counted in ticks, TicksPerSecond to the second; tokens are      *)
(* whole bytes, as the int64_t they are assigned to truncates them.        *)
(***************************************************************************)
EXTENDS Integers

CONSTANTS Downloads, Categories,   \* ids
          Rates,                   \* limits that are set, in bytes per second
          Requests,                \* sizes allowBytes is asked for
          TicksPerSecond,
          MaxTime                  \* bound: ticks

Global == "global"
Levels == {Global} \cup Downloads \cup Categories
NoBucket == [rate |-> 0, tokens |-> 0, last |-> 0]

ASSUME LimiterAssumption ==
  /\ Global \notin Downloads \cup Categories
  /\ Rates \subseteq Nat \ {0} /\ Requests \subseteq Nat \ {0}
  /\ TicksPerSecond \in Nat \ {0} /\ MaxTime \in Nat

VARIABLES
  now,
  buckets,   \* of each level, NoBucket where there is no limit
  since,     \* history: when the limit of a level was set
  passed     \* history: bytes allowed through it since then

limiterVars == <<now, buckets, since, passed>>

\* availableTokens after a refill: at most one second's worth.
Refilled(b) ==
  LET tokens == b.tokens + (b.rate * (now - b.last)) \div TicksPerSecond
  IN IF tokens > b.rate THEN b.rate ELSE tokens

\* Mutant form of Consumed: lastRefillTime stays where it was.
ConsumedAgain(b, bytes) ==
  IF Refilled(b) >= bytes THEN [b EXCEPT !.tokens = Refilled(b) - bytes]
  ELSE [b EXCEPT !.tokens = Refilled(b)]

\* consume: the refill is kept also when there is not enough.
Consumed(b, bytes) ==
  [b EXCEPT !.tokens = IF Refilled(b) >= bytes THEN Refilled(b) - bytes ELSE Refilled(b),
            !.last = now]

Limited(l) == buckets[l] # NoBucket
Pays(l, bytes) == Limited(l) => Refilled(buckets[l]) >= bytes

\* The levels allowBytes asks, as far as it gets.
Asked(d, c, bytes) ==
  {Global} \cup (IF Pays(Global, bytes) THEN {c} ELSE {})
           \cup (IF Pays(Global, bytes) /\ Pays(c, bytes) THEN {d} ELSE {})

Allows(d, c, bytes) == Pays(Global, bytes) /\ Pays(c, bytes) /\ Pays(d, bytes)

-----------------------------------------------------------------------------
Init ==
  /\ now = 0
  /\ buckets = [l \in Levels |-> NoBucket]
  /\ since = [l \in Levels |-> 0] /\ passed = [l \in Levels |-> 0]

\* setGlobalLimit, setPerDownloadLimit, setPerCategoryLimit: an empty bucket.
SetLimit(l, rate) ==
  /\ buckets' = [buckets EXCEPT ![l] = [rate |-> rate, tokens |-> 0, last |-> now]]
  /\ since' = [since EXCEPT ![l] = now] /\ passed' = [passed EXCEPT ![l] = 0]
  /\ UNCHANGED now

\* A limit of zero or below, clearLimit and clearCategoryLimit.
ClearLimit(l) ==
  /\ Limited(l)
  /\ buckets' = [buckets EXCEPT ![l] = NoBucket]
  /\ since' = [since EXCEPT ![l] = 0] /\ passed' = [passed EXCEPT ![l] = 0]
  /\ UNCHANGED now

AllowBytes(d, c, bytes) ==
  /\ buckets' = [l \in Levels |-> IF l \in Asked(d, c, bytes) /\ Limited(l)
                                  THEN Consumed(buckets[l], bytes) ELSE buckets[l]]
  /\ passed' = [l \in Levels |-> IF Allows(d, c, bytes) /\ l \in {Global, c, d} /\ Limited(l)
                                 THEN passed[l] + bytes ELSE passed[l]]
  /\ UNCHANGED <<now, since>>

Tick ==
  /\ now < MaxTime
  /\ now' = now + 1
  /\ UNCHANGED <<buckets, since, passed>>

Next ==
  \/ \E l \in Levels : ClearLimit(l) \/ \E rate \in Rates : SetLimit(l, rate)
  \/ \E d \in Downloads, c \in Categories, bytes \in Requests : AllowBytes(d, c, bytes)
  \/ Tick

Spec == Init /\ [][Next]_limiterVars

-----------------------------------------------------------------------------
LimiterTypeOK ==
  /\ now \in Nat
  /\ buckets \in [Levels -> [rate : Nat, tokens : Nat, last : Nat]]
  /\ since \in [Levels -> Nat] /\ passed \in [Levels -> Nat]

\* Since a limit was set, no more bytes have passed than its rate allows in that
\* time, whatever the order and the sizes of the requests of all downloads that
\* share it, and however often the refills were cut off (allowBytes, refill).
GrantedWithinRate ==
  \A l \in Levels :
    Limited(l) => passed[l] * TicksPerSecond <= buckets[l].rate * (now - since[l])
=============================================================================
