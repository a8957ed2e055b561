--------------------------- MODULE LibrariesProofs ---------------------------
(***************************************************************************)
(* Proofs about the components of Libraries, each for itself and for all   *)
(* values of its constants; the theorems about AllSpec are at the end.     *)
(***************************************************************************)
EXTENDS Libraries, Lists, FiniteSetTheorems, WellFoundedInduction, TLAPS

-----------------------------------------------------------------------------
(* Induction in the form the proofs below use it: a set of naturals that is *)
(* not empty has a least element.                                           *)

Smaller == {pair \in Nat \X Nat : pair[1] < pair[2]}

\* The order of the natural numbers is well-founded,
LEMMA SmallerWellFounded == IsWellFoundedOn(Smaller, Nat)
<1>1. OpToRel(<, Nat) = Smaller BY Zenon DEF OpToRel, Smaller
<1>2. QED BY <1>1, NatLessThanWellFounded, Zenon

\* so that a set of counterexamples has a least one: the induction of this module.
LEMMA LeastNat ==
  ASSUME NEW T \in SUBSET Nat, T # {}
  PROVE  \E n \in T : \A m \in T : n <= m
<1>1. PICK n \in T : \A m \in T : <<m, n>> \notin Smaller BY SmallerWellFounded, WFMin
<1>2. \A m \in Nat : m < n => <<m, n>> \in Smaller
  <2> SUFFICES ASSUME NEW m \in Nat, m < n PROVE <<m, n>> \in Smaller OBVIOUS
  <2>1. <<m, n>> \in Nat \X Nat OBVIOUS
  <2>2. <<m, n>>[1] < <<m, n>>[2] OBVIOUS
  <2>3. QED BY <2>1, <2>2 DEF Smaller
<1>3. \A m \in T : ~(m < n) BY <1>1, <1>2
<1>4. QED BY <1>3

-----------------------------------------------------------------------------
(* SpeedLimiter.  That the bytes let through stay below the rate is not     *)
(* inductive: the tokens in a bucket are bytes that may still pass.         *)
(* PaidFor counts both against the time up to the last refill.              *)

\* The bytes that have passed a level and the tokens it still holds are paid for
\* by its rate and the time between setting the limit and the last refill.
PaidFor(l) ==
  /\ since[l] <= buckets[l].last
  /\ buckets[l].last <= now
  /\ (buckets[l].tokens + passed[l]) * TicksPerSecond
       <= buckets[l].rate * (buckets[l].last - since[l])

LimiterInv == LimiterTypeOK /\ \A l \in Levels : Limited(l) => PaidFor(l)

\* A whole quotient times its divisor does not exceed the dividend.
LEMMA WholeQuotient ==
  ASSUME NEW x \in Nat, NEW n \in Nat \ {0}
  PROVE  x \div n \in Nat /\ (x \div n) * n <= x
OBVIOUS

\* Products distribute over sums and differences.
LEMMA Distributes ==
  ASSUME NEW a \in Int, NEW b \in Int, NEW n \in Int
  PROVE  (a + b) * n = a * n + b * n /\ n * (a - b) = n * a - n * b
OBVIOUS

\* Products of natural numbers are natural numbers.
LEMMA NaturalProduct == ASSUME NEW a \in Nat, NEW b \in Nat PROVE a * b \in Nat
OBVIOUS

\* Products of naturals grow with each factor.
LEMMA Grows ==
  ASSUME NEW a \in Nat, NEW b \in Nat, NEW n \in Nat, a <= b
  PROVE  a * n \in Nat /\ n * a \in Nat /\ a * n <= b * n /\ n * a <= n * b
OBVIOUS

\* A refill gives a whole number of tokens, paid for by the time it covers
\* (TokenBucket::refill with its truncation and its cap).
LEMMA RefillPaid ==
  ASSUME NEW l \in Levels, LimiterTypeOK, buckets[l].last <= now
  PROVE  /\ Refilled(buckets[l]) \in Nat
         /\ Refilled(buckets[l]) * TicksPerSecond
              <= buckets[l].tokens * TicksPerSecond + buckets[l].rate * (now - buckets[l].last)
<1> DEFINE b == buckets[l]
           earned == b.rate * (now - b.last)
           gained == earned \div TicksPerSecond
<1>1. b.rate \in Nat /\ b.tokens \in Nat /\ b.last \in Nat /\ now \in Nat /\ now - b.last \in Nat
  BY DEF LimiterTypeOK
<1>2. TicksPerSecond \in Nat \ {0} BY LimiterAssumption
<1>3. earned \in Nat BY <1>1, NaturalProduct
<1> HIDE DEF earned
<1>4. gained \in Nat /\ gained * TicksPerSecond <= earned BY <1>2, <1>3, WholeQuotient
<1> HIDE DEF gained
<1>5. b.tokens + gained \in Nat BY <1>1, <1>4
<1>6. Refilled(b) = IF b.tokens + gained > b.rate THEN b.rate ELSE b.tokens + gained
  BY DEF Refilled, gained, earned
<1>7. Refilled(b) \in Nat /\ Refilled(b) <= b.tokens + gained BY <1>1, <1>5, <1>6
<1> HIDE DEF b
<1>8. Refilled(b) * TicksPerSecond <= (b.tokens + gained) * TicksPerSecond BY <1>2, <1>5, <1>7, Grows
<1>9. (b.tokens + gained) * TicksPerSecond = b.tokens * TicksPerSecond + gained * TicksPerSecond
  BY <1>1, <1>2, <1>4, Distributes
<1>10. /\ b.tokens * TicksPerSecond \in Nat /\ gained * TicksPerSecond \in Nat
       /\ Refilled(b) * TicksPerSecond \in Nat
  BY <1>1, <1>2, <1>4, <1>7, Grows
<1>11. Refilled(b) * TicksPerSecond <= b.tokens * TicksPerSecond + earned
  BY <1>3, <1>4, <1>8, <1>9, <1>10
<1>12. QED BY <1>7, <1>11 DEF b, earned

\* After a refill, what has passed and what may still pass is paid for up to now.
LEMMA RefilledPaidFor ==
  ASSUME NEW l \in Levels, LimiterTypeOK, PaidFor(l)
  PROVE  (Refilled(buckets[l]) + passed[l]) * TicksPerSecond <= buckets[l].rate * (now - since[l])
<1> DEFINE b == buckets[l]
           r == Refilled(b)
           p == passed[l]
           T == TicksPerSecond
<1>1. /\ b.rate \in Nat /\ b.tokens \in Nat /\ b.last \in Nat /\ now \in Nat /\ p \in Nat
      /\ since[l] \in Nat /\ T \in Nat /\ b.last <= now /\ since[l] <= b.last
  BY LimiterAssumption DEF LimiterTypeOK, PaidFor
<1>2. r \in Nat /\ r * T <= b.tokens * T + b.rate * (now - b.last) BY RefillPaid DEF PaidFor
<1>3. (b.tokens + p) * T <= b.rate * (b.last - since[l]) BY DEF PaidFor
<1> HIDE DEF b, r, p, T
<1>4. (b.tokens + p) * T = b.tokens * T + p * T /\ (r + p) * T = r * T + p * T
  BY <1>1, <1>2, Distributes
<1>5. /\ b.rate * (now - b.last) = b.rate * now - b.rate * b.last
      /\ b.rate * (b.last - since[l]) = b.rate * b.last - b.rate * since[l]
      /\ b.rate * (now - since[l]) = b.rate * now - b.rate * since[l]
  BY <1>1, Distributes
<1>6. /\ b.tokens * T \in Nat /\ p * T \in Nat /\ r * T \in Nat
      /\ b.rate * now \in Nat /\ b.rate * b.last \in Nat /\ b.rate * since[l] \in Nat
  BY <1>1, <1>2, Grows
<1>7. (r + p) * T <= b.rate * (now - since[l]) BY <1>2, <1>3, <1>4, <1>5, <1>6
<1>8. QED BY <1>7 DEF b, r, p, T

\* Without limits nothing has been let through.
LEMMA LimiterStarts == Init => LimiterInv
BY DEF Init, LimiterInv, LimiterTypeOK, NoBucket, Limited

\* A new limit starts with a full bucket and an empty history.
LEMMA SetLimitKeeps ==
  ASSUME LimiterInv, NEW k \in Levels, NEW rate \in Rates, SetLimit(k, rate) PROVE LimiterInv'
<1>1. rate \in Nat /\ TicksPerSecond \in Nat BY LimiterAssumption
<1>2. LimiterTypeOK' BY <1>1 DEF LimiterInv, LimiterTypeOK, SetLimit
<1>3. ASSUME NEW l \in Levels, Limited(l)' PROVE PaidFor(l)'
  <2>1. CASE l = k
    <3>1. /\ buckets'[l] = [rate |-> rate, tokens |-> 0, last |-> now]
          /\ since'[l] = now /\ passed'[l] = 0 /\ now' = now
      BY <2>1 DEF SetLimit, LimiterInv, LimiterTypeOK
    <3>2. now \in Nat BY DEF LimiterInv, LimiterTypeOK
    <3>3. (0 + 0) * TicksPerSecond = 0 /\ rate * (now - now) = 0 BY <1>1, <3>2
    <3>4. QED BY <3>1, <3>2, <3>3 DEF PaidFor
  <2>2. CASE l # k
    <3>1. buckets'[l] = buckets[l] /\ since'[l] = since[l] /\ passed'[l] = passed[l] /\ now' = now
      BY <2>2 DEF SetLimit, LimiterInv, LimiterTypeOK
    <3>2. QED BY <1>3, <3>1 DEF LimiterInv, PaidFor, Limited
  <2>3. QED BY <2>1, <2>2
<1>4. QED BY <1>2, <1>3 DEF LimiterInv

\* A cleared limit has neither.
LEMMA ClearLimitKeeps ==
  ASSUME LimiterInv, NEW k \in Levels, ClearLimit(k) PROVE LimiterInv'
<1>1. LimiterTypeOK' BY DEF LimiterInv, LimiterTypeOK, ClearLimit, NoBucket
<1>2. ASSUME NEW l \in Levels, Limited(l)' PROVE PaidFor(l)'
  <2>1. l # k BY <1>2 DEF ClearLimit, Limited, LimiterInv, LimiterTypeOK
  <2>2. buckets'[l] = buckets[l] /\ since'[l] = since[l] /\ passed'[l] = passed[l] /\ now' = now
    BY <2>1 DEF ClearLimit, LimiterInv, LimiterTypeOK
  <2>3. QED BY <1>2, <2>2 DEF LimiterInv, PaidFor, Limited
<1>3. QED BY <1>1, <1>2 DEF LimiterInv

\* The clock adds to what may have passed.
LEMMA TickKeeps == ASSUME LimiterInv, Tick PROVE LimiterInv'
<1>1. LimiterTypeOK' BY DEF LimiterInv, LimiterTypeOK, Tick
<1>2. ASSUME NEW l \in Levels, Limited(l)' PROVE PaidFor(l)'
  <2>1. Limited(l) BY <1>2 DEF Tick, Limited
  <2>2. buckets[l].last \in Nat /\ now \in Nat BY DEF LimiterInv, LimiterTypeOK
  <2>3. QED BY <2>1, <2>2 DEF Tick, LimiterInv, PaidFor
<1>3. QED BY <1>1, <1>2 DEF LimiterInv

\* A level that is asked and not limited, or not asked, stays as it is; one that is
\* asked is refilled, and pays only if all do.
LEMMA AllowBytesKeeps ==
  ASSUME LimiterInv, NEW d \in Downloads, NEW c \in Categories, NEW n \in Requests, AllowBytes(d, c, n)
  PROVE  LimiterInv'
<1>1. n \in Nat /\ TicksPerSecond \in Nat BY LimiterAssumption
<1>2. ASSUME NEW l \in Levels
      PROVE  /\ buckets'[l] = IF l \in Asked(d, c, n) /\ Limited(l) THEN Consumed(buckets[l], n)
                              ELSE buckets[l]
             /\ passed'[l] = IF Allows(d, c, n) /\ l \in {Global, c, d} /\ Limited(l)
                             THEN passed[l] + n ELSE passed[l]
             /\ since'[l] = since[l] /\ now' = now
  BY DEF AllowBytes
<1>3. ASSUME NEW l \in Levels, Limited(l)
      PROVE  /\ Refilled(buckets[l]) \in Nat
             /\ Consumed(buckets[l], n) \in [rate : Nat, tokens : Nat, last : Nat]
             /\ Consumed(buckets[l], n).rate = buckets[l].rate
             /\ Consumed(buckets[l], n).last = now
             /\ Consumed(buckets[l], n).tokens =
                   IF Refilled(buckets[l]) >= n THEN Refilled(buckets[l]) - n ELSE Refilled(buckets[l])
  <2>1. LimiterTypeOK /\ PaidFor(l) BY <1>3 DEF LimiterInv
  <2>2. Refilled(buckets[l]) \in Nat BY <2>1, RefillPaid DEF PaidFor
  <2>3. buckets[l] \in [rate : Nat, tokens : Nat, last : Nat] /\ now \in Nat BY <2>1 DEF LimiterTypeOK
  <2> DEFINE left == IF Refilled(buckets[l]) >= n THEN Refilled(buckets[l]) - n
                     ELSE Refilled(buckets[l])
  <2>4. left \in Nat BY <1>1, <2>2
  <2>5. Consumed(buckets[l], n) = [buckets[l] EXCEPT !.tokens = left, !.last = now] BY DEF Consumed
  <2> HIDE DEF left
  <2>6. /\ Consumed(buckets[l], n) \in [rate : Nat, tokens : Nat, last : Nat]
        /\ Consumed(buckets[l], n).rate = buckets[l].rate
        /\ Consumed(buckets[l], n).last = now
        /\ Consumed(buckets[l], n).tokens = left
    BY <2>3, <2>4, <2>5
  <2>7. QED BY <2>2, <2>6 DEF left
<1>4. LimiterTypeOK'
  <2>1. \A l \in Levels : buckets'[l] \in [rate : Nat, tokens : Nat, last : Nat]
    BY <1>2, <1>3 DEF LimiterInv, LimiterTypeOK
  <2>2. \A l \in Levels : passed'[l] \in Nat BY <1>1, <1>2 DEF LimiterInv, LimiterTypeOK
  <2>3. QED BY <2>1, <2>2 DEF AllowBytes, LimiterInv, LimiterTypeOK
<1>5. ASSUME NEW l \in Levels, Limited(l)' PROVE PaidFor(l)'
  <2>1. CASE Limited(l) /\ l \in Asked(d, c, n)
    <3> DEFINE r == Refilled(buckets[l])
    <3>1. (r + passed[l]) * TicksPerSecond <= buckets[l].rate * (now - since[l])
      BY <2>1, RefilledPaidFor DEF LimiterInv
    <3>2. /\ buckets'[l].rate = buckets[l].rate /\ buckets'[l].last = now
          /\ buckets'[l].tokens = (IF r >= n THEN r - n ELSE r) /\ r \in Nat
      BY <1>2, <1>3, <2>1
    <3>3. passed[l] \in Nat /\ since[l] \in Nat /\ now \in Nat /\ buckets[l].rate \in Nat
      BY DEF LimiterInv, LimiterTypeOK
    <3>4. passed'[l] = passed[l] + n => r >= n \/ n = 0
      BY <1>1, <1>2, <2>1, <3>3 DEF Allows, Pays
    <3>5. buckets'[l].tokens + passed'[l] \in Nat /\ buckets'[l].tokens + passed'[l] <= r + passed[l]
      BY <1>1, <1>2, <3>2, <3>3, <3>4
    <3> HIDE DEF r
    <3>6. (buckets'[l].tokens + passed'[l]) * TicksPerSecond <= (r + passed[l]) * TicksPerSecond
      BY <1>1, <3>2, <3>3, <3>5, Grows
    <3>7. /\ (buckets'[l].tokens + passed'[l]) * TicksPerSecond \in Nat
          /\ (r + passed[l]) * TicksPerSecond \in Nat
          /\ buckets[l].rate * (now - since[l]) \in Int
      BY <1>1, <3>2, <3>3, <3>5, Grows
    <3>8. since[l] <= now BY <2>1, <3>3 DEF LimiterInv, PaidFor, LimiterTypeOK
    <3>9. since'[l] = since[l] /\ now' = now BY <1>2
    <3>10. buckets'[l].rate * (buckets'[l].last - since'[l]) = buckets[l].rate * (now - since[l])
      BY <3>2, <3>9
    <3>11. (buckets'[l].tokens + passed'[l]) * TicksPerSecond <= buckets[l].rate * (now - since[l])
      BY <3>1, <3>6, <3>7
    <3>12. now <= now BY <3>3
    <3>13. QED BY <3>2, <3>8, <3>9, <3>10, <3>11, <3>12 DEF PaidFor
  <2>2. CASE ~(Limited(l) /\ l \in Asked(d, c, n))
    <3>1. buckets'[l] = buckets[l] /\ since'[l] = since[l] /\ now' = now BY <1>2, <2>2
    <3>2. Limited(l) BY <1>5, <3>1 DEF Limited
    <3>3. passed'[l] = passed[l] BY <1>2, <2>2, <3>2 DEF Asked, Allows
    <3>4. QED BY <3>1, <3>2, <3>3 DEF LimiterInv, PaidFor
  <2>3. QED BY <2>1, <2>2
<1>6. QED BY <1>4, <1>5 DEF LimiterInv

\* Each step of the limiter preserves its invariant.
LEMMA LimiterKeeps == LimiterInv /\ [Next]_limiterVars => LimiterInv'
<1> SUFFICES ASSUME LimiterInv, [Next]_limiterVars PROVE LimiterInv' OBVIOUS
<1>1. CASE Next BY <1>1, SetLimitKeeps, ClearLimitKeeps, TickKeeps, AllowBytesKeeps DEF Next
<1>2. CASE UNCHANGED limiterVars
  BY <1>2 DEF limiterVars, LimiterInv, LimiterTypeOK, PaidFor, Limited
<1>3. QED BY <1>1, <1>2

\* The invariant about tokens and bytes implies the one about bytes.
LEMMA PaidImpliesRate == LimiterInv => GrantedWithinRate
<1> SUFFICES ASSUME LimiterInv, NEW l \in Levels, Limited(l)
             PROVE  passed[l] * TicksPerSecond <= buckets[l].rate * (now - since[l])
  BY DEF GrantedWithinRate
<1>1. LimiterTypeOK /\ PaidFor(l) BY DEF LimiterInv
<1>2. /\ passed[l] \in Nat /\ since[l] \in Nat /\ now \in Nat /\ buckets[l].rate \in Nat
      /\ TicksPerSecond \in Nat
  BY <1>1, LimiterAssumption DEF LimiterTypeOK
<1>3. Refilled(buckets[l]) \in Nat BY <1>1, RefillPaid DEF PaidFor
<1>4. (Refilled(buckets[l]) + passed[l]) * TicksPerSecond <= buckets[l].rate * (now - since[l])
  BY <1>1, RefilledPaidFor
<1>5. passed[l] * TicksPerSecond <= (Refilled(buckets[l]) + passed[l]) * TicksPerSecond
  BY <1>2, <1>3, Grows
<1>6. /\ passed[l] * TicksPerSecond \in Int /\ buckets[l].rate * (now - since[l]) \in Int
      /\ (Refilled(buckets[l]) + passed[l]) * TicksPerSecond \in Int
  BY <1>2, <1>3
<1>7. QED BY <1>4, <1>5, <1>6

\* Tokens, rates and times keep their types, for any set of levels, rates, requests
\* and any tick (SpeedLimiter as a whole).
THEOREM TypesHold == Spec => []LimiterTypeOK
<1>1. LimiterInv => LimiterTypeOK BY DEF LimiterInv
<1>2. QED BY <1>1, LimiterStarts, LimiterKeeps, PTL DEF Spec

\* For any rates, requests, levels and resolution of the clock, what passes a level
\* after its limit was set stays within the rate (allowBytes, refill).
THEOREM WithinRate == Spec => []GrantedWithinRate
BY LimiterStarts, LimiterKeeps, PaidImpliesRate, PTL DEF Spec
-----------------------------------------------------------------------------
(* ReconnectManager.  Both recursive functions of the module are defined by *)
(* an equation, so that first there must be a function that solves it.      *)

DoubledOnce(before) == IF before < maxRetryDelay THEN 2 * before ELSE before

IsDoubled(f, n) == f = [i \in 1..n |-> IF i = 1 THEN baseDelay ELSE DoubledOnce(f[i - 1])]

IsPower(f, n) == f = [k \in 0..n |-> IF k = 0 THEN 1 ELSE 2 * f[k - 1]]

\* A function solves the equation of the doubled delays, however far.
LEMMA SomeDoubled == \A n \in Nat : \E f : IsDoubled(f, n)
<1> DEFINE T == {n \in Nat : ~ \E f : IsDoubled(f, n)}
<1>1. SUFFICES ASSUME T # {} PROVE FALSE OBVIOUS
<1>2. PICK n \in T : \A m \in T : n <= m BY <1>1, LeastNat
<1>3. n # 0
  <2>1. IsDoubled([i \in 1..0 |-> 0], 0) BY DEF IsDoubled
  <2>2. QED BY <1>2, <2>1
<1>4. n - 1 \in Nat /\ n - 1 \notin T BY <1>2, <1>3
<1>5. PICK f : IsDoubled(f, n - 1) BY <1>4
<1> DEFINE step(h, i) == IF i = 1 THEN baseDelay ELSE DoubledOnce(h[i - 1])
           g == [i \in 1..n |-> IF i < n THEN f[i] ELSE step(f, i)]
<1>6. ASSUME NEW i \in 1..n PROVE g[i] = step(g, i)
  <2>1. i > 1 => g[i - 1] = f[i - 1] BY <1>2
  <2>2. step(f, i) = step(g, i) BY <2>1
  <2>3. i < n => f[i] = step(f, i) BY <1>2, <1>5 DEF IsDoubled
  <2>4. QED BY <2>2, <2>3
<1>7. g = [i \in 1..n |-> step(g, i)]
  <2> HIDE DEF step
  <2>1. g = [i \in 1..n |-> g[i]] OBVIOUS
  <2>2. QED BY <1>6, <2>1
<1>8. IsDoubled(g, n)
  <2> HIDE DEF g
  <2>1. QED BY <1>7 DEF IsDoubled
<1>9. QED BY <1>2, <1>8

\* A function solves the equation of the powers of two.
LEMMA SomePower == \A n \in Nat : \E f : IsPower(f, n)
<1> DEFINE T == {n \in Nat : ~ \E f : IsPower(f, n)}
<1>1. SUFFICES ASSUME T # {} PROVE FALSE OBVIOUS
<1>2. PICK n \in T : \A m \in T : n <= m BY <1>1, LeastNat
<1>3. n # 0
  <2>1. IsPower([k \in 0..0 |-> 1], 0) BY DEF IsPower
  <2>2. QED BY <1>2, <2>1
<1>4. n - 1 \in Nat /\ n - 1 \notin T BY <1>2, <1>3
<1>5. PICK f : IsPower(f, n - 1) BY <1>4
<1> DEFINE step(h, k) == IF k = 0 THEN 1 ELSE 2 * h[k - 1]
           g == [k \in 0..n |-> IF k < n THEN f[k] ELSE step(f, k)]
<1>6. ASSUME NEW k \in 0..n PROVE g[k] = step(g, k)
  <2>1. k > 0 => g[k - 1] = f[k - 1] BY <1>2
  <2>2. step(f, k) = step(g, k) BY <2>1
  <2>3. k < n => f[k] = step(f, k) BY <1>2, <1>5 DEF IsPower
  <2>4. QED BY <2>2, <2>3
<1>7. g = [k \in 0..n |-> step(g, k)]
  <2> HIDE DEF step
  <2>1. g = [k \in 0..n |-> g[k]] OBVIOUS
  <2>2. QED BY <1>6, <2>1
<1>8. IsPower(g, n)
  <2> HIDE DEF g
  <2>1. QED BY <1>7 DEF IsPower
<1>9. QED BY <1>2, <1>8

\* So that the two definitions satisfy their equations.
LEMMA DoubledIs == IsDoubled(Reconnect!Doubled, MaxFailures)
<1>1. PICK f : IsDoubled(f, MaxFailures) BY SomeDoubled, ReconnectAssumption
<1>2. QED BY <1>1 DEF Reconnect!Doubled, IsDoubled, DoubledOnce

\* So that PowerOfTwo satisfies its equation too.
LEMMA PowerIs == IsPower(Reconnect!PowerOfTwo, MaxFailures)
<1>1. PICK f : IsPower(f, MaxFailures) BY SomePower, ReconnectAssumption
<1>2. QED BY <1>1 DEF Reconnect!PowerOfTwo, IsPower

\* Powers of two are natural numbers.
LEMMA PowersNatural == \A k \in 0..MaxFailures : Reconnect!PowerOfTwo[k] \in Nat
<1> DEFINE p == Reconnect!PowerOfTwo
           T == {k \in Nat : k \in 0..MaxFailures /\ p[k] \notin Nat}
<1>1. SUFFICES ASSUME T # {} PROVE FALSE BY ReconnectAssumption
<1>2. PICK k \in T : \A m \in T : k <= m BY <1>1, LeastNat
<1>3. p[k] = IF k = 0 THEN 1 ELSE 2 * p[k - 1] BY <1>2, PowerIs DEF IsPower
<1>4. k # 0 => k - 1 \in 0..MaxFailures /\ k - 1 \notin T BY <1>2, ReconnectAssumption
<1>5. p[k] \in Nat BY <1>3, <1>4
<1>6. QED BY <1>2, <1>5

ReconnectInv == retryCount \in 0..MaxFailures /\ baseDelay \in Nat /\ maxRetryDelay \in Nat

\* The loop of currentRetryDelay stops at the first delay that is not below the
\* maximum, and has doubled the base delay as often as it went round until then.
DelayAfter(i) ==
  LET doubled == Reconnect!Doubled[i]
      inFull == baseDelay * Reconnect!PowerOfTwo[i - 1]
  IN /\ doubled \in Nat /\ inFull \in Nat
     /\ IF inFull < maxRetryDelay THEN doubled = inFull ELSE doubled >= maxRetryDelay

\* So every value the loop reaches is as DelayAfter says.
LEMMA DelayDoubled == ASSUME ReconnectInv PROVE \A i \in 1..MaxFailures : DelayAfter(i)
<1> DEFINE T == {n \in Nat : n \in 1..MaxFailures /\ ~DelayAfter(n)}
           d == Reconnect!Doubled
           p == Reconnect!PowerOfTwo
<1>1. SUFFICES ASSUME T # {} PROVE FALSE BY ReconnectAssumption
<1>2. PICK n \in T : \A m \in T : n <= m BY <1>1, LeastNat
<1>3. n \in 1..MaxFailures /\ MaxFailures \in Nat /\ n \in Nat BY <1>2, ReconnectAssumption
<1>4. baseDelay \in Nat /\ maxRetryDelay \in Nat BY DEF ReconnectInv
<1>5. /\ d[n] = IF n = 1 THEN baseDelay ELSE DoubledOnce(d[n - 1])
      /\ p[n - 1] = IF n = 1 THEN 1 ELSE 2 * p[n - 2]
  <2>1. d[n] = IF n = 1 THEN baseDelay ELSE DoubledOnce(d[n - 1])
    BY <1>3, DoubledIs DEF IsDoubled
  <2>2. p[n - 1] = IF n - 1 = 0 THEN 1 ELSE 2 * p[n - 1 - 1]
    BY <1>3, PowerIs DEF IsPower
  <2>3. n - 1 - 1 = n - 2 BY <1>3
  <2>4. QED BY <1>3, <2>1, <2>2, <2>3
<1>6. CASE n = 1
  <2>1. d[n] = baseDelay /\ baseDelay * p[n - 1] = baseDelay BY <1>4, <1>5, <1>6
  <2>2. QED BY <1>2, <1>4, <2>1 DEF DelayAfter
<1>7. CASE n # 1
  <2>1. n - 1 \in 1..MaxFailures /\ n - 1 \notin T BY <1>2, <1>3, <1>7
  <2>2. DelayAfter(n - 1) BY <2>1
  <2>3. n - 1 - 1 = n - 2 BY <1>3
  <2> DEFINE before == d[n - 1]
             half == baseDelay * p[n - 2]
  <2>4. /\ before \in Nat /\ half \in Nat
        /\ IF half < maxRetryDelay THEN before = half ELSE before >= maxRetryDelay
    BY <2>2, <2>3 DEF DelayAfter
  <2>5. d[n] = IF before < maxRetryDelay THEN 2 * before ELSE before
    BY <1>5, <1>7 DEF DoubledOnce
  <2>6. baseDelay * p[n - 1] = 2 * half
    <3>1. p[n - 1] = 2 * p[n - 2] BY <1>5, <1>7
    <3>2. p[n - 2] \in Nat
      <4>1. n - 2 \in 0..MaxFailures BY <1>3, <1>7
      <4>2. QED BY <4>1, PowersNatural
    <3>3. \A a, b \in Nat : a * (2 * b) = 2 * (a * b) OBVIOUS
    <3>4. QED BY <1>4, <3>1, <3>2, <3>3
  <2> HIDE DEF before, half, d, p
  <2>7. /\ d[n] \in Nat /\ baseDelay * p[n - 1] \in Nat
        /\ IF baseDelay * p[n - 1] < maxRetryDelay THEN d[n] = baseDelay * p[n - 1]
           ELSE d[n] >= maxRetryDelay
    BY <1>4, <2>4, <2>5, <2>6
  <2>8. QED BY <1>2, <2>7 DEF DelayAfter, d, p
<1>8. QED BY <1>6, <1>7

\* That is what the property says of the delay shown.
LEMMA InvGivesDelay == ASSUME ReconnectInv PROVE DelayDoubles
<1> SUFFICES ASSUME retryCount > 0 PROVE DelayDoubles
  BY DEF DelayDoubles, Reconnect!DelayDoubles, ReconnectInv
<1>1. retryCount \in 1..MaxFailures BY DEF ReconnectInv
<1>2. DelayAfter(retryCount) BY <1>1, DelayDoubled
<1>3. baseDelay \in Nat /\ maxRetryDelay \in Nat BY DEF ReconnectInv
<1>4. QED BY <1>1, <1>2, <1>3 DEF DelayAfter, DelayDoubles, Reconnect!DelayDoubles, Reconnect!CurrentRetryDelay

\* Nothing has failed at first.
LEMMA ReconnectStarts == Reconnect!Init => ReconnectInv
BY ReconnectAssumption DEF Reconnect!Init, ReconnectInv

\* Failures and restored connections keep the delays in range.
LEMMA ReconnectKeeps == ReconnectInv /\ [Reconnect!Next]_reconnectVars => ReconnectInv'
<1> SUFFICES ASSUME ReconnectInv, [Reconnect!Next]_reconnectVars PROVE ReconnectInv'
  OBVIOUS
<1>1. \A seconds \in Delays : /\ Reconnect!AtLeast(0, seconds) \in Nat
                              /\ Reconnect!AtLeast(1, seconds) \in Nat
  BY ReconnectAssumption DEF Reconnect!AtLeast
<1>2. CASE Reconnect!OnNetworkFailure
  BY <1>2, ReconnectAssumption DEF Reconnect!OnNetworkFailure, ReconnectInv
<1>3. CASE Reconnect!OnNetworkRestored \/ Reconnect!ResetRetryCount
  BY <1>3, ReconnectAssumption
     DEF Reconnect!OnNetworkRestored, Reconnect!ResetRetryCount, ReconnectInv
<1>4. CASE \E seconds \in Delays : \/ Reconnect!SetBaseDelay(seconds)
                                   \/ Reconnect!SetMaxRetryDelay(seconds)
  BY <1>1, <1>4 DEF Reconnect!SetBaseDelay, Reconnect!SetMaxRetryDelay, ReconnectInv
<1>5. CASE UNCHANGED reconnectVars BY <1>5 DEF reconnectVars, ReconnectInv
<1>6. QED BY <1>2, <1>3, <1>4, <1>5 DEF Reconnect!Next
-----------------------------------------------------------------------------
(* DownloadManager. *)

Active == {id \in 1..MaxDownloads : downloads[id].status = "downloading"}

Statuses == {"absent", "", "queued", "downloading", "paused", "cancelled"}

\* A download is added under an id that no listed one has, so that no active download
\* is replaced.
ManagerInv ==
  /\ downloads \in [1..MaxDownloads -> [status : Statuses, priority : Int]]
  /\ nextId \in Nat \ {0} /\ activeCount \in Int /\ leaked \in Int
  /\ \A id \in 1..MaxDownloads : id >= nextId => downloads[id].status = "absent"
  /\ \A id \in 1..MaxDownloads : downloads[id].status = "absent" => downloads[id] = Manager!Absent
  /\ activeCount = Cardinality(Active) + leaked

\* The module's own copy of Cardinality.
LEMMA SameCardinality == \A S : Manager!Cardinality(S) = Cardinality(S)
BY DEF Manager!Cardinality, Cardinality

\* Sets of downloads are finite; how a set's number changes with one element or with
\* a set of others.
LEMMA SomeDownloads ==
  ASSUME NEW S, S \subseteq 1..MaxDownloads
  PROVE  IsFiniteSet(S) /\ Cardinality(S) \in Nat
<1>1. IsFiniteSet(1..MaxDownloads) BY ManagerAssumption, FS_Interval
<1>2. QED BY <1>1, FS_Subset, FS_CardinalityType

\* Counting one more download,
LEMMA OneMore ==
  ASSUME NEW S, S \subseteq 1..MaxDownloads, NEW id \in 1..MaxDownloads, id \notin S
  PROVE  Cardinality(S \cup {id}) = Cardinality(S) + 1
BY SomeDownloads, FS_AddElement

\* one less,
LEMMA OneLess ==
  ASSUME NEW S, S \subseteq 1..MaxDownloads, NEW id \in S
  PROVE  Cardinality(S \ {id}) = Cardinality(S) - 1
BY SomeDownloads, FS_RemoveElement

\* and several at once.
LEMMA SomeMore ==
  ASSUME NEW S, S \subseteq 1..MaxDownloads, NEW R, R \subseteq 1..MaxDownloads, R \cap S = {}
  PROVE  Cardinality(S \cup R) = Cardinality(S) + Cardinality(R)
<1>1. /\ IsFiniteSet(S) /\ IsFiniteSet(R)
      /\ Cardinality(S) \in Nat /\ Cardinality(R) \in Nat
  BY SomeDownloads
<1>2. Cardinality(S \cup R) = Cardinality(S) + Cardinality(R) - Cardinality(S \cap R)
  BY <1>1, FS_Union
<1>3. S \cap R = {} OBVIOUS
<1>4. Cardinality(S \cap R) = 0 BY <1>3, FS_EmptySet
<1>5. QED BY <1>1, <1>2, <1>4

\* The sets the commands speak of.
LEMMA WithStatus ==
  ASSUME ManagerInv
  PROVE  /\ Manager!Listed = {id \in 1..MaxDownloads : downloads[id].status # "absent"}
         /\ Manager!With("downloading") = Active
         /\ \A status : Manager!With(status) =
              {id \in Manager!Listed : downloads[id].status = status}
<1>1. Manager!Absent.status = "absent" BY DEF Manager!Absent
<1>2. Manager!Listed = {id \in 1..MaxDownloads : downloads[id].status # "absent"}
  BY <1>1 DEF ManagerInv, Manager!Listed, Manager!DownloadIds
<1>3. QED BY <1>2 DEF Manager!With, Active

\* What a command that turns the status of some of them makes of the table.
LEMMA TurnedTable ==
  ASSUME ManagerInv, NEW ids \in SUBSET Manager!Listed, NEW status \in Statuses \ {"absent"},
         downloads' = Manager!Turned(ids, status)
  PROVE  /\ downloads' \in [1..MaxDownloads -> [status : Statuses, priority : Int]]
         /\ \A id \in 1..MaxDownloads :
              /\ downloads'[id].status = (IF id \in ids THEN status ELSE downloads[id].status)
              /\ id \notin ids => downloads'[id] = downloads[id]
<1>1. downloads \in [1..MaxDownloads -> [status : Statuses, priority : Int]] BY DEF ManagerInv
<1>2. downloads' = [id \in 1..MaxDownloads |->
                      IF id \in ids THEN [downloads[id] EXCEPT !.status = status]
                      ELSE downloads[id]]
  BY DEF Manager!Turned, Manager!DownloadIds
<1>3. ASSUME NEW id \in 1..MaxDownloads
      PROVE  /\ downloads'[id] \in [status : Statuses, priority : Int]
             /\ downloads'[id].status = (IF id \in ids THEN status ELSE downloads[id].status)
             /\ id \notin ids => downloads'[id] = downloads[id]
  <2>1. downloads[id] \in [status : Statuses, priority : Int] BY <1>1
  <2>2. downloads'[id] = IF id \in ids THEN [downloads[id] EXCEPT !.status = status]
                         ELSE downloads[id]
    BY <1>2
  <2>3. QED BY <2>1, <2>2
<1>4. QED BY <1>2, <1>3

\* Such a command keeps the invariant if the count changes by what the set of active
\* downloads does.
LEMMA TurnedKeeps ==
  ASSUME ManagerInv, NEW ids \in SUBSET Manager!Listed, NEW status \in Statuses \ {"absent"},
         downloads' = Manager!Turned(ids, status), UNCHANGED <<nextId, leaked>>,
         activeCount' = activeCount + (Cardinality(Active') - Cardinality(Active))
  PROVE  ManagerInv'
<1>1. /\ downloads' \in [1..MaxDownloads -> [status : Statuses, priority : Int]]
      /\ \A id \in 1..MaxDownloads :
              /\ downloads'[id].status = (IF id \in ids THEN status ELSE downloads[id].status)
              /\ id \notin ids => downloads'[id] = downloads[id]
  BY TurnedTable
<1>2. \A id \in ids : id \in 1..MaxDownloads /\ downloads[id].status # "absent" BY WithStatus
<1>3. ASSUME NEW id \in 1..MaxDownloads
      PROVE  /\ id >= nextId' => downloads'[id].status = "absent"
             /\ downloads'[id].status = "absent" => downloads'[id] = Manager!Absent
  <2>1. CASE id \in ids BY <1>1, <1>2, <2>1 DEF ManagerInv
  <2>2. CASE id \notin ids BY <1>1, <2>2 DEF ManagerInv
  <2>3. QED BY <2>1, <2>2
<1>4. Cardinality(Active) \in Nat /\ Cardinality(Active)' \in Nat
  <2>1. Active \subseteq 1..MaxDownloads BY DEF Active
  <2>2. Active' \subseteq 1..MaxDownloads BY DEF Active
  <2>3. QED BY <2>1, <2>2, SomeDownloads
<1>5. activeCount' \in Int /\ activeCount' = Cardinality(Active') + leaked'
  BY <1>4 DEF ManagerInv
<1>6. nextId' \in Nat \ {0} /\ leaked' \in Int BY DEF ManagerInv
<1>7. QED BY <1>1, <1>3, <1>5, <1>6 DEF ManagerInv

\* The set of active downloads after such a command.
LEMMA ActiveAfter ==
  ASSUME ManagerInv, NEW ids \in SUBSET Manager!Listed, NEW status \in Statuses \ {"absent"},
         downloads' = Manager!Turned(ids, status)
  PROVE  /\ ids \subseteq 1..MaxDownloads
         /\ Active \subseteq 1..MaxDownloads
         /\ Active' = IF status = "downloading" THEN Active \cup ids ELSE Active \ ids
<1>1. \A id \in 1..MaxDownloads :
        downloads'[id].status = (IF id \in ids THEN status ELSE downloads[id].status)
  BY TurnedTable
<1>2. ids \subseteq 1..MaxDownloads BY WithStatus
<1>3. Active' = {id \in 1..MaxDownloads : downloads'[id].status = "downloading"} BY DEF Active
<1>4. QED BY <1>1, <1>2, <1>3 DEF Active

\* A new download has the next id and is not active.
LEMMA AddDownloadKeeps ==
  ASSUME ManagerInv, NEW priority \in Priorities,
         NEW status \in Statuses \ {"absent", "downloading"},
         Manager!AddDownload(priority, status)
  PROVE  ManagerInv'
<1> DEFINE row == [status |-> status, priority |-> priority]
<1>1. /\ nextId \in 1..MaxDownloads /\ downloads' = [downloads EXCEPT ![nextId] = row]
      /\ nextId' = nextId + 1 /\ UNCHANGED <<activeCount, leaked>>
  BY DEF Manager!AddDownload, Manager!DownloadIds
<1>2. /\ row \in [status : Statuses, priority : Int]
      /\ row.status # "absent" /\ row.status # "downloading"
  BY ManagerAssumption
<1> HIDE DEF row
<1>3. /\ downloads' \in [1..MaxDownloads -> [status : Statuses, priority : Int]]
      /\ downloads'[nextId] = row
      /\ \A id \in 1..MaxDownloads : id # nextId => downloads'[id] = downloads[id]
  BY <1>1, <1>2 DEF ManagerInv
<1>4. /\ nextId \in Nat \ {0} /\ activeCount \in Int /\ leaked \in Int
      /\ nextId \in 1..MaxDownloads /\ nextId' = nextId + 1
  BY <1>1 DEF ManagerInv
<1>5. Active' = Active
  <2>1. downloads[nextId].status = "absent" 
    <3>1. nextId >= nextId BY <1>4
    <3>2. QED BY <1>4, <3>1 DEF ManagerInv
  <2>2. QED BY <1>1, <1>2, <1>3, <2>1 DEF Active
<1>6. ASSUME NEW id \in 1..MaxDownloads
      PROVE  /\ id >= nextId' => downloads'[id].status = "absent"
             /\ downloads'[id].status = "absent" => downloads'[id] = Manager!Absent
  <2>1. id >= nextId' => id # nextId /\ id >= nextId BY <1>4
  <2>2. QED BY <1>2, <1>3, <2>1 DEF ManagerInv
<1>7. nextId' \in Nat \ {0} /\ activeCount' \in Int /\ leaked' \in Int
  <2>1. UNCHANGED <<activeCount, leaked>> BY <1>1
  <2>2. QED BY <1>4, <2>1
<1>8. activeCount' = Cardinality(Active') + leaked' BY <1>1, <1>5 DEF ManagerInv
<1>9. QED BY <1>3, <1>6, <1>7, <1>8 DEF ManagerInv

\* A removed download that was active leaks its place.
LEMMA RemoveDownloadKeeps ==
  ASSUME ManagerInv, NEW id \in Manager!DownloadIds, Manager!RemoveDownload(id)
  PROVE  ManagerInv'
<1>1. /\ id \in 1..MaxDownloads /\ downloads' = [downloads EXCEPT ![id] = Manager!Absent]
      /\ leaked' = (IF id \in Active THEN leaked + 1 ELSE leaked)
      /\ UNCHANGED <<nextId, activeCount>>
  BY WithStatus DEF Manager!RemoveDownload, Manager!DownloadIds
<1>2. Manager!Absent \in [status : Statuses, priority : Int] /\ Manager!Absent.status = "absent"
  BY DEF Manager!Absent, Statuses
<1>3. /\ downloads' \in [1..MaxDownloads -> [status : Statuses, priority : Int]]
      /\ downloads'[id] = Manager!Absent
      /\ \A other \in 1..MaxDownloads : other # id => downloads'[other] = downloads[other]
  BY <1>1, <1>2 DEF ManagerInv
<1>4. Active' = Active \ {id} /\ Active \subseteq 1..MaxDownloads BY <1>1, <1>2, <1>3 DEF Active
<1>5. ASSUME NEW other \in 1..MaxDownloads
      PROVE  /\ other >= nextId' => downloads'[other].status = "absent"
             /\ downloads'[other].status = "absent" => downloads'[other] = Manager!Absent
  BY <1>1, <1>2, <1>3 DEF ManagerInv
<1>6. nextId' \in Nat \ {0} /\ activeCount' \in Int /\ leaked' \in Int BY <1>1 DEF ManagerInv
<1>7. activeCount' = Cardinality(Active') + leaked'
  <2>1. CASE id \in Active
    <3>1. Cardinality(Active') = Cardinality(Active) - 1 BY <1>4, <2>1, OneLess
    <3>2. Cardinality(Active) \in Nat BY <1>4, SomeDownloads
    <3>3. QED BY <1>1, <2>1, <3>1, <3>2 DEF ManagerInv
  <2>2. CASE id \notin Active
    <3>1. Active' = Active BY <1>4, <2>2
    <3>2. QED BY <1>1, <2>2, <3>1 DEF ManagerInv
  <2>3. QED BY <2>1, <2>2
<1>8. QED BY <1>3, <1>5, <1>6, <1>7 DEF ManagerInv

\* Of one download: start, pause, resume and cancel.
LEMMA OneTurnedKeeps ==
  ASSUME ManagerInv, NEW id \in Manager!DownloadIds,
         \/ Manager!StartDownload(id) \/ Manager!PauseDownload(id)
         \/ Manager!ResumeDownload(id) \/ Manager!CancelDownload(id)
  PROVE  ManagerInv'
<1>1. Active \subseteq 1..MaxDownloads /\ activeCount \in Int BY DEF Active, ManagerInv
<1>2. Cardinality(Active) \in Nat BY <1>1, SomeDownloads
<1>3. CASE Manager!StartDownload(id)
  <2>1. /\ id \in Manager!Listed \ Active /\ downloads' = Manager!Turned({id}, "downloading")
        /\ activeCount' = activeCount + 1 /\ UNCHANGED <<nextId, leaked>>
    BY <1>3, WithStatus DEF Manager!StartDownload
  <2>2. {id} \in SUBSET Manager!Listed /\ "downloading" \in Statuses \ {"absent"}
    BY <2>1 DEF Statuses
  <2>3. Active' = Active \cup {id} /\ {id} \subseteq 1..MaxDownloads BY <2>1, <2>2, ActiveAfter
  <2>4. Cardinality(Active') = Cardinality(Active) + 1 BY <1>1, <2>1, <2>3, OneMore
  <2>5. activeCount' = activeCount + (Cardinality(Active') - Cardinality(Active))
    BY <1>1, <1>2, <2>1, <2>4
  <2>6. QED BY <2>1, <2>2, <2>5, TurnedKeeps
<1>4. CASE Manager!PauseDownload(id)
  <2>1. /\ id \in Active /\ id \in Manager!Listed /\ downloads' = Manager!Turned({id}, "paused")
        /\ activeCount' = activeCount - 1 /\ UNCHANGED <<nextId, leaked>>
    BY <1>4, WithStatus DEF Manager!PauseDownload
  <2>2. {id} \in SUBSET Manager!Listed /\ "paused" \in Statuses \ {"absent"}
    BY <2>1 DEF Statuses
  <2>3. Active' = Active \ {id} BY <2>1, <2>2, ActiveAfter
  <2>4. Cardinality(Active') = Cardinality(Active) - 1 BY <1>1, <2>1, <2>3, OneLess
  <2>5. activeCount' = activeCount + (Cardinality(Active') - Cardinality(Active))
    BY <1>1, <1>2, <2>1, <2>4
  <2>6. QED BY <2>1, <2>2, <2>5, TurnedKeeps
<1>5. CASE Manager!ResumeDownload(id)
  <2>1. /\ id \notin Active /\ id \in Manager!Listed /\ downloads' = Manager!Turned({id}, "queued")
        /\ UNCHANGED <<activeCount, nextId, leaked>>
    BY <1>5, WithStatus DEF Manager!ResumeDownload, Active
  <2>2. {id} \in SUBSET Manager!Listed /\ "queued" \in Statuses \ {"absent"}
    BY <2>1 DEF Statuses
  <2>3. Active' = Active
    <3>1. Active' = Active \ {id} BY <2>1, <2>2, ActiveAfter
    <3>2. QED BY <2>1, <3>1
  <2>4. activeCount' = activeCount + (Cardinality(Active') - Cardinality(Active))
    BY <1>1, <1>2, <2>1, <2>3
  <2>5. QED BY <2>1, <2>2, <2>4, TurnedKeeps
<1>6. CASE Manager!CancelDownload(id)
  <2>1. /\ id \in Manager!Listed /\ downloads' = Manager!Turned({id}, "cancelled")
        /\ activeCount' = (IF id \in Active THEN activeCount - 1 ELSE activeCount)
        /\ UNCHANGED <<nextId, leaked>>
    BY <1>6, WithStatus DEF Manager!CancelDownload
  <2>2. {id} \in SUBSET Manager!Listed /\ "cancelled" \in Statuses \ {"absent"}
    BY <2>1 DEF Statuses
  <2>3. Active' = Active \ {id} BY <2>1, <2>2, ActiveAfter
  <2>4. Cardinality(Active') = IF id \in Active THEN Cardinality(Active) - 1
                               ELSE Cardinality(Active)
    <3>1. CASE id \in Active BY <1>1, <2>3, <3>1, OneLess
    <3>2. CASE id \notin Active
      <4>1. Active' = Active BY <2>3, <3>2
      <4>2. QED BY <3>2, <4>1
    <3>3. QED BY <3>1, <3>2
  <2>5. activeCount' = activeCount + (Cardinality(Active') - Cardinality(Active))
    BY <1>1, <1>2, <2>1, <2>4
  <2>6. QED BY <2>1, <2>2, <2>5, TurnedKeeps
<1>7. QED BY <1>3, <1>4, <1>5, <1>6

\* Of all downloads, or of those processQueue starts.
LEMMA AllTurnedKeeps ==
  ASSUME ManagerInv,
         \/ Manager!PauseAll \/ Manager!ResumeAll \/ Manager!CancelAll \/ Manager!ProcessQueue
  PROVE  ManagerInv'
<1>1. Active \subseteq 1..MaxDownloads /\ activeCount \in Int BY DEF Active, ManagerInv
<1>2. Cardinality(Active) \in Nat BY <1>1, SomeDownloads
<1>3. Active \subseteq Manager!Listed /\ Active = Manager!With("downloading")
  BY WithStatus
<1>4. CASE Manager!PauseAll \/ Manager!CancelAll
  <2>1. PICK ids \in SUBSET Manager!Listed, status \in {"paused", "cancelled"} :
           /\ Active \subseteq ids /\ downloads' = Manager!Turned(ids, status)
           /\ activeCount' = activeCount - Cardinality(Active) /\ UNCHANGED <<nextId, leaked>>
    BY <1>3, <1>4, SameCardinality DEF Manager!PauseAll, Manager!CancelAll
  <2>2. status \in Statuses \ {"absent"} /\ status # "downloading" BY DEF Statuses
  <2>3. Active' = {}
    <3>1. Active' = Active \ ids BY <2>1, <2>2, ActiveAfter
    <3>2. QED BY <2>1, <3>1
  <2>4. Cardinality(Active') = 0 BY <2>3, FS_EmptySet
  <2>5. activeCount' = activeCount + (Cardinality(Active') - Cardinality(Active))
    BY <1>1, <1>2, <2>1, <2>4
  <2>6. QED BY <2>1, <2>2, <2>5, TurnedKeeps
<1>5. CASE Manager!ResumeAll
  <2> DEFINE ids == Manager!With("paused")
  <2>1. /\ ids \in SUBSET Manager!Listed /\ ids \cap Active = {}
        /\ "queued" \in Statuses \ {"absent"}
    BY WithStatus DEF Active, Statuses
  <2>2. downloads' = Manager!Turned(ids, "queued") /\ UNCHANGED <<activeCount, nextId, leaked>>
    BY <1>5 DEF Manager!ResumeAll
  <2> HIDE DEF ids
  <2>3. Active' = Active
    <3>1. Active' = Active \ ids BY <2>1, <2>2, ActiveAfter
    <3>2. QED BY <2>1, <3>1
  <2>4. activeCount' = activeCount + (Cardinality(Active') - Cardinality(Active))
    BY <1>1, <1>2, <2>2, <2>3
  <2>5. QED BY <2>1, <2>2, <2>4, TurnedKeeps
<1>6. CASE Manager!ProcessQueue
  <2>1. PICK first \in SUBSET Manager!With("queued") :
           /\ downloads' = Manager!Turned(first, "downloading")
           /\ activeCount' = activeCount + Cardinality(first) /\ UNCHANGED <<nextId, leaked>>
    BY <1>6, SameCardinality DEF Manager!ProcessQueue
  <2>2. /\ first \in SUBSET Manager!Listed /\ first \cap Active = {}
        /\ "downloading" \in Statuses \ {"absent"}
    BY WithStatus DEF Active, Statuses
  <2>3. Active' = Active \cup first /\ first \subseteq 1..MaxDownloads
    BY <2>1, <2>2, ActiveAfter
  <2>4. Cardinality(Active') = Cardinality(Active) + Cardinality(first)
    BY <1>1, <2>2, <2>3, SomeMore
  <2>5. Cardinality(first) \in Nat BY <2>3, SomeDownloads
  <2>6. activeCount' = activeCount + (Cardinality(Active') - Cardinality(Active))
    BY <1>1, <1>2, <2>1, <2>4, <2>5
  <2>7. QED BY <2>1, <2>2, <2>6, TurnedKeeps
<1>7. QED BY <1>4, <1>5, <1>6

\* No download is active at first.
LEMMA ManagerStarts == Manager!Init => ManagerInv
<1> SUFFICES ASSUME Manager!Init PROVE ManagerInv OBVIOUS
<1>1. Manager!Absent \in [status : Statuses, priority : Int] /\ Manager!Absent.status = "absent"
  BY DEF Manager!Absent, Statuses
<1>2. /\ downloads = [id \in 1..MaxDownloads |-> Manager!Absent]
      /\ nextId = 1 /\ activeCount = 0 /\ leaked = 0
  BY DEF Manager!Init, Manager!DownloadIds
<1>3. Active = {} BY <1>1, <1>2 DEF Active
<1>4. Cardinality(Active) = 0 BY <1>3, FS_EmptySet
<1>5. QED BY <1>1, <1>2, <1>4 DEF ManagerInv

\* Each operation preserves the manager's invariant.
LEMMA ManagerKeeps == ManagerInv /\ [Manager!Next]_managerVars => ManagerInv'
<1> SUFFICES ASSUME ManagerInv, [Manager!Next]_managerVars PROVE ManagerInv' OBVIOUS
<1>1. CASE Manager!Next
  <2>1. {"", "queued"} \subseteq Statuses \ {"absent", "downloading"} BY DEF Statuses
  <2>2. QED
  BY <1>1, <2>1, AddDownloadKeeps, RemoveDownloadKeeps, OneTurnedKeeps, AllTurnedKeeps
     DEF Manager!Next
<1>2. CASE UNCHANGED managerVars BY <1>2 DEF managerVars, ManagerInv, Active
<1>3. QED BY <1>1, <1>2

\* It says that the counter is the number of active and of leaked places.
LEMMA InvCountsActive == ManagerInv => ActiveAccounted
<1> SUFFICES ASSUME ManagerInv PROVE ActiveAccounted OBVIOUS
<1>1. Manager!With("downloading") = Active BY WithStatus
<1>2. activeCount = Cardinality(Active) + leaked BY DEF ManagerInv
<1>3. QED BY <1>1, <1>2, SameCardinality DEF ActiveAccounted, Manager!ActiveAccounted
-----------------------------------------------------------------------------
(* ProgressReport.  A sum over the workers is a recursion over the subsets  *)
(* of Workers, whose equation has a solution because Workers is finite.     *)

AnyOf(s) == CHOOSE x \in s : TRUE

Small(n) == {s \in SUBSET Workers : Cardinality(s) <= n}

AddedUp(f, g, s) == IF s = {} THEN 0 ELSE f[AnyOf(s)] + g[s \ {AnyOf(s)}]

\* One worker fewer: the step of the recursion over sets of workers.
LEMMA OneWorkerLess ==
  ASSUME NEW s \in SUBSET Workers, s # {}
  PROVE  /\ AnyOf(s) \in s /\ s \ {AnyOf(s)} \in SUBSET Workers
         /\ Cardinality(s) \in Nat \ {0}
         /\ Cardinality(s \ {AnyOf(s)}) = Cardinality(s) - 1
<1>1. AnyOf(s) \in s BY DEF AnyOf
<1>2. IsFiniteSet(s) BY ProgressAssumption, FS_Subset
<1>3. Cardinality(s) \in Nat /\ Cardinality(s) # 0 BY <1>2, FS_CardinalityType, FS_EmptySet
<1>4. Cardinality(s \ {AnyOf(s)}) = Cardinality(s) - 1 BY <1>1, <1>2, FS_RemoveElement
<1>5. QED BY <1>1, <1>3, <1>4

\* A function solves the equation of sums over sets of at most n workers.
LEMMA SomeSmallSum ==
  ASSUME NEW f
  PROVE  \A n \in Nat : \E g : g = [s \in Small(n) |-> AddedUp(f, g, s)]
<1> DEFINE T == {n \in Nat : ~ \E g : g = [s \in Small(n) |-> AddedUp(f, g, s)]}
<1>1. SUFFICES ASSUME T # {} PROVE FALSE OBVIOUS
<1>2. PICK n \in T : \A m \in T : n <= m BY <1>1, LeastNat
<1>3. \A s \in SUBSET Workers : Cardinality(s) \in Nat
  BY ProgressAssumption, FS_Subset, FS_CardinalityType
<1>4. CASE n = 0
  <2> DEFINE g == [s \in Small(n) |-> 0]
  <2>1. ASSUME NEW s \in Small(n), s # {} PROVE FALSE
    <3>1. s \in SUBSET Workers /\ Cardinality(s) <= 0 BY <1>4 DEF Small
    <3>2. Cardinality(s) \in Nat \ {0} BY <2>1, <3>1, OneWorkerLess
    <3>3. QED BY <3>1, <3>2
  <2>2. \A s \in Small(n) : AddedUp(f, g, s) = 0 BY <2>1 DEF AddedUp
  <2>3. g = [s \in Small(n) |-> AddedUp(f, g, s)]
    <3>1. [s \in Small(n) |-> 0] = [s \in Small(n) |-> AddedUp(f, g, s)]
      <4> HIDE DEF g
      <4>1. QED BY <2>2
    <3>2. QED BY <3>1
  <2>4. QED BY <1>2, <2>3
<1>5. CASE n # 0
  <2>1. n - 1 \in Nat /\ n - 1 \notin T BY <1>2, <1>5
  <2>2. PICK h : h = [s \in Small(n - 1) |-> AddedUp(f, h, s)] BY <2>1
  <2> DEFINE g == [s \in Small(n) |-> AddedUp(f, h, s)]
  <2>3. ASSUME NEW s \in Small(n) PROVE AddedUp(f, h, s) = AddedUp(f, g, s)
    <3>1. CASE s = {} BY <3>1 DEF AddedUp
    <3>2. CASE s # {}
      <4> DEFINE rest == s \ {AnyOf(s)}
      <4>1. s \in SUBSET Workers /\ Cardinality(s) <= n BY DEF Small
      <4>2. rest \in SUBSET Workers /\ Cardinality(rest) <= n - 1 /\ Cardinality(rest) <= n
        BY <2>1, <3>2, <4>1, OneWorkerLess
      <4>3. rest \in Small(n - 1) /\ rest \in Small(n) BY <4>2 DEF Small
      <4> HIDE DEF rest
      <4>4. h[rest] = AddedUp(f, h, rest) BY <2>2, <4>3
      <4>5. g[rest] = h[rest] BY <4>3, <4>4
      <4> HIDE DEF g
      <4>6. QED BY <3>2, <4>5 DEF AddedUp, rest
    <3>3. QED BY <3>1, <3>2
  <2>4. [s \in Small(n) |-> AddedUp(f, h, s)] = [s \in Small(n) |-> AddedUp(f, g, s)]
    <3> HIDE DEF g
    <3>1. QED BY <2>3
  <2>5. g = [s \in Small(n) |-> AddedUp(f, g, s)] BY <2>4
  <2>6. QED BY <1>2, <2>5
<1>6. QED BY <1>4, <1>5

\* So that SumFunction is the value of such a function at the set of all workers.
LEMMA SumOfWorkers ==
  ASSUME NEW f, DOMAIN f = Workers
  PROVE  \E g : /\ \A s \in SUBSET Workers : g[s] = AddedUp(f, g, s)
                /\ Progress!SumFunction(f) = g[Workers]
<1> DEFINE n == Cardinality(Workers)
<1>1. n \in Nat BY ProgressAssumption, FS_CardinalityType
<1>2. Small(n) = SUBSET Workers BY ProgressAssumption, FS_Subset DEF Small
<1>3. PICK h : h = [s \in SUBSET Workers |-> AddedUp(f, h, s)]
  <2> HIDE DEF n
  <2>1. PICK h : h = [s \in Small(n) |-> AddedUp(f, h, s)] BY <1>1, SomeSmallSum
  <2>2. h = [s \in SUBSET Workers |-> AddedUp(f, h, s)] BY <1>2, <2>1
  <2>3. QED BY <2>2
<1>4. PICK total : total = Progress!SumFunction(f) OBVIOUS
<1>5. \E g : /\ g = [s \in SUBSET Workers |->
                       IF s = {} THEN 0
                       ELSE f[CHOOSE x \in s : TRUE] + g[s \ {CHOOSE x \in s : TRUE}]]
             /\ total = g[Workers]
  <2>1. h = [s \in SUBSET Workers |->
               IF s = {} THEN 0
               ELSE f[CHOOSE x \in s : TRUE] + h[s \ {CHOOSE x \in s : TRUE}]]
    BY <1>3 DEF AddedUp, AnyOf
  <2>2. total = Progress!SumFunctionOnSet(f, Workers) BY <1>4 DEF Progress!SumFunction
  <2>3. QED
    BY <2>1, <2>2, ZenonT(90) DEF Progress!SumFunctionOnSet,
                                  Progress!FoldFunctionOnSet, Progress!MapThenFoldSet
<1>6. QED BY <1>4, <1>5 DEF AddedUp, AnyOf

\* The sum grows with each of its parts.
LEMMA SumGrows ==
  ASSUME NEW f \in [Workers -> Nat], NEW h \in [Workers -> Nat],
         \A w \in Workers : f[w] <= h[w]
  PROVE  /\ Progress!SumFunction(f) \in Nat /\ Progress!SumFunction(h) \in Nat
         /\ Progress!SumFunction(f) <= Progress!SumFunction(h)
<1>1. PICK F : /\ \A s \in SUBSET Workers : F[s] = AddedUp(f, F, s)
               /\ Progress!SumFunction(f) = F[Workers]
  BY SumOfWorkers
<1>2. PICK H : /\ \A s \in SUBSET Workers : H[s] = AddedUp(h, H, s)
               /\ Progress!SumFunction(h) = H[Workers]
  BY SumOfWorkers
<1> DEFINE Good(s) == F[s] \in Nat /\ H[s] \in Nat /\ F[s] <= H[s]
           T == {n \in Nat : \E s \in SUBSET Workers : Cardinality(s) = n /\ ~Good(s)}
<1>3. T = {}
  <2>1. SUFFICES ASSUME T # {} PROVE FALSE OBVIOUS
  <2>2. PICK n \in T : \A m \in T : n <= m BY <2>1, LeastNat
  <2>3. PICK s \in SUBSET Workers : Cardinality(s) = n /\ ~Good(s) BY <2>2
  <2>4. CASE s = {} BY <1>1, <1>2, <2>3, <2>4 DEF AddedUp
  <2>5. CASE s # {}
    <3> DEFINE rest == s \ {AnyOf(s)}
    <3>1. /\ AnyOf(s) \in Workers /\ rest \in SUBSET Workers /\ n \in Nat \ {0}
          /\ Cardinality(rest) = n - 1
      BY <2>3, <2>5, OneWorkerLess
    <3>2. n - 1 \in Nat /\ ~(n <= n - 1) BY <3>1
    <3> HIDE DEF rest
    <3>3. Good(rest) BY <2>2, <3>1, <3>2
    <3>4. F[s] = f[AnyOf(s)] + F[rest] /\ H[s] = h[AnyOf(s)] + H[rest]
      BY <1>1, <1>2, <2>5 DEF AddedUp, rest
    <3>5. f[AnyOf(s)] \in Nat /\ h[AnyOf(s)] \in Nat /\ f[AnyOf(s)] <= h[AnyOf(s)] BY <3>1
    <3>6. QED BY <2>3, <3>3, <3>4, <3>5
  <2>6. QED BY <2>4, <2>5
<1>4. Workers \in SUBSET Workers /\ Cardinality(Workers) \in Nat
  BY ProgressAssumption, FS_CardinalityType
<1>5. Good(Workers) BY <1>3, <1>4
<1>6. QED BY <1>1, <1>2, <1>5

ProgressTypeOK ==
  /\ bytes \in [Workers -> Nat] /\ sum \in [Workers -> Nat] /\ checkpoint \in [Workers -> Nat]
  /\ at \in [Workers -> {"loop", "transfer", "complete", "noted", "summed", "ended"}]
  /\ whole \in [Workers -> BOOLEAN] /\ overshot \in BOOLEAN
  /\ stop \subseteq {"pause", "cancel", "fail"}
  /\ reported \in Nat /\ Progress!FileSize \in Nat

\* Until something is longer than its segment a worker holds no number that is too
\* large; a complete segment is noted with all its bytes and has its checkpoint when
\* its worker ends; and without a stop or failure no worker ends before that.
WorkerInv(w) ==
  /\ ~overshot => /\ bytes[w] <= SegmentBytes[w] /\ checkpoint[w] <= SegmentBytes[w]
                  /\ sum[w] <= Progress!FileSize
  /\ whole[w] => at[w] \in {"noted", "summed", "ended"}
  /\ whole[w] /\ at[w] \in {"noted", "summed"} => bytes[w] = SegmentBytes[w]
  /\ whole[w] /\ at[w] = "ended" => checkpoint[w] = SegmentBytes[w]
  /\ at[w] = "ended" /\ stop = {} => whole[w]

ProgressInv ==
  /\ ProgressTypeOK
  /\ \A w \in Workers : WorkerInv(w)
  /\ ~overshot => reported <= Progress!FileSize
  /\ outcome # "downloading" => \A w \in Workers : at[w] = "ended"
  /\ outcome = "completed" => stop = {} /\ reported = Progress!FileSize

\* What the workers have added up is a number, and at most the file unless something
\* is longer than its segment.
LEMMA TotalBounded ==
  ASSUME ProgressInv
  PROVE  Progress!Total \in Nat /\ (~overshot => Progress!Total <= Progress!FileSize)
<1>1. bytes \in [Workers -> Nat] BY DEF ProgressInv, ProgressTypeOK
<1>2. \A w \in Workers : bytes[w] <= bytes[w] BY <1>1
<1>3. Progress!Total \in Nat BY <1>1, <1>2, SumGrows DEF Progress!Total
<1>4. ASSUME ~overshot PROVE Progress!Total <= Progress!FileSize
  <2>1. \A w \in Workers : bytes[w] <= SegmentBytes[w] BY <1>4 DEF ProgressInv, WorkerInv
  <2>2. QED BY <1>1, <2>1, SumGrows, ProgressAssumption DEF Progress!Total, Progress!FileSize
<1>5. QED BY <1>3, <1>4

\* The size of the file is a sum of natural numbers.
LEMMA FileSizeNatural == Progress!FileSize \in Nat
<1>1. \A w \in Workers : SegmentBytes[w] <= SegmentBytes[w] BY ProgressAssumption
<1>2. QED BY <1>1, SumGrows, ProgressAssumption DEF Progress!FileSize

\* Nothing has been reported at first.
LEMMA ProgressStarts == Progress!Init => ProgressInv
<1> SUFFICES ASSUME Progress!Init PROVE ProgressInv OBVIOUS
<1>1. /\ bytes = [w \in Workers |-> 0] /\ at = [w \in Workers |-> "loop"]
      /\ whole = [w \in Workers |-> FALSE] /\ sum = [w \in Workers |-> 0]
      /\ reported = 0 /\ checkpoint = [w \in Workers |-> 0]
      /\ outcome = "downloading" /\ stop = {} /\ overshot = FALSE
  BY DEF Progress!Init
<1>2. ProgressTypeOK BY <1>1, FileSizeNatural DEF ProgressTypeOK
<1>3. ASSUME NEW w \in Workers PROVE WorkerInv(w)
  <2>1. bytes[w] = 0 /\ sum[w] = 0 /\ checkpoint[w] = 0 /\ at[w] = "loop" /\ ~whole[w] BY <1>1
  <2>2. SegmentBytes[w] \in Nat BY ProgressAssumption
  <2>3. QED BY <2>1, <2>2, FileSizeNatural DEF WorkerInv
<1>4. QED BY <1>1, <1>2, <1>3, FileSizeNatural DEF ProgressInv

\* A step of one worker leaves what the others have.
LEMMA WorkerKeeps ==
  ASSUME ProgressInv, NEW w \in Workers, outcome' = outcome, at[w] # "ended",
         at' = [at EXCEPT ![w] = at'[w]], bytes' = [bytes EXCEPT ![w] = bytes'[w]],
         sum' = [sum EXCEPT ![w] = sum'[w]], whole' = [whole EXCEPT ![w] = whole'[w]],
         checkpoint' = [checkpoint EXCEPT ![w] = checkpoint'[w]],
         bytes'[w] \in Nat, sum'[w] \in Nat, checkpoint'[w] \in Nat, reported' \in Nat,
         at'[w] \in {"loop", "transfer", "complete", "noted", "summed", "ended"},
         whole'[w] \in BOOLEAN, overshot' \in BOOLEAN, overshot => overshot',
         stop' = {} => stop = {}, stop' \subseteq {"pause", "cancel", "fail"},
         ~overshot' => reported' <= Progress!FileSize,
         WorkerInv(w)'
  PROVE  ProgressInv'
<1>1. outcome' = "downloading" BY DEF ProgressInv
<1>2. /\ bytes' \in [Workers -> Nat] /\ sum' \in [Workers -> Nat]
      /\ checkpoint' \in [Workers -> Nat] /\ whole' \in [Workers -> BOOLEAN]
      /\ at' \in [Workers -> {"loop", "transfer", "complete", "noted", "summed", "ended"}]
  BY DEF ProgressInv, ProgressTypeOK
<1>3. Progress!FileSize' = Progress!FileSize BY DEF Progress!FileSize
<1>4. ASSUME NEW v \in Workers PROVE WorkerInv(v)'
  <2>1. CASE v = w BY <2>1
  <2>2. CASE v # w
    <3>1. /\ bytes'[v] = bytes[v] /\ sum'[v] = sum[v] /\ whole'[v] = whole[v]
          /\ checkpoint'[v] = checkpoint[v] /\ at'[v] = at[v]
      BY <2>2 DEF ProgressInv, ProgressTypeOK
    <3>2. WorkerInv(v) BY DEF ProgressInv
    <3>3. QED BY <1>3, <3>1, <3>2 DEF WorkerInv
  <2>3. QED BY <2>1, <2>2
<1>5. ProgressTypeOK' BY <1>2, <1>3, FileSizeNatural DEF ProgressTypeOK
<1>6. QED BY <1>1, <1>3, <1>4, <1>5 DEF ProgressInv

\* Each step of the workers and the runner preserves the invariant.
LEMMA ProgressKeeps == ProgressInv /\ [Progress!Next]_progressVars => ProgressInv'
<1> SUFFICES ASSUME ProgressInv, [Progress!Next]_progressVars PROVE ProgressInv' OBVIOUS
<1>1. Progress!FileSize' = Progress!FileSize /\ Progress!FileSize \in Nat
  BY FileSizeNatural DEF Progress!FileSize
<1>2. /\ bytes \in [Workers -> Nat] /\ sum \in [Workers -> Nat]
      /\ checkpoint \in [Workers -> Nat] /\ whole \in [Workers -> BOOLEAN]
      /\ at \in [Workers -> {"loop", "transfer", "complete", "noted", "summed", "ended"}]
      /\ reported \in Nat /\ overshot \in BOOLEAN /\ stop \subseteq {"pause", "cancel", "fail"}
      /\ ~overshot => reported <= Progress!FileSize
  BY DEF ProgressInv, ProgressTypeOK
<1>3. ASSUME NEW w \in Workers,
             \/ Progress!Look(w) \/ Progress!WorkerStops(w) \/ Progress!Note(w)
             \/ Progress!TransferDone(w) \/ Progress!TransferFails(w) \/ Progress!GiveUp(w)
             \/ Progress!SegmentComplete(w) \/ Progress!SumUp(w) \/ Progress!Report(w)
      PROVE  ProgressInv'
  <2>1. /\ SegmentBytes[w] \in Nat /\ bytes[w] \in Nat /\ checkpoint[w] \in Nat
        /\ sum[w] \in Nat /\ whole[w] \in BOOLEAN /\ Overshoot \in Nat
    BY <1>2, ProgressAssumption
  <2>2. WorkerInv(w) BY DEF ProgressInv
  <2> DEFINE Stays == /\ bytes' = bytes /\ whole' = whole /\ sum' = sum
                      /\ checkpoint' = checkpoint /\ reported' = reported /\ outcome' = outcome
  <2>3. ASSUME Stays, overshot' = overshot, stop \subseteq stop',
               stop' \subseteq {"pause", "cancel", "fail"}, at[w] \in {"loop", "transfer"},
               NEW to \in {"loop", "complete", "ended"}, at' = [at EXCEPT ![w] = to],
               to = "ended" => stop' # {}
        PROVE  ProgressInv'
    <3>1. /\ at'[w] = to /\ bytes'[w] = bytes[w] /\ sum'[w] = sum[w]
          /\ whole'[w] = whole[w] /\ checkpoint'[w] = checkpoint[w]
      BY <1>2, <2>3
    <3>2. ~whole[w] BY <2>2, <2>3 DEF WorkerInv
    <3>3. WorkerInv(w)' BY <1>1, <2>2, <2>3, <3>1, <3>2 DEF WorkerInv
    <3>4. /\ bytes' = [bytes EXCEPT ![w] = bytes'[w]] /\ sum' = [sum EXCEPT ![w] = sum'[w]]
          /\ whole' = [whole EXCEPT ![w] = whole'[w]]
          /\ checkpoint' = [checkpoint EXCEPT ![w] = checkpoint'[w]]
      BY <1>2, <2>3
    <3>5. stop' = {} => stop = {} BY <2>3
    <3>6. QED BY <1>1, <1>2, <2>1, <2>3, <3>1, <3>3, <3>4, <3>5, WorkerKeeps
  <2>4. ASSUME NEW n \in Nat, NEW from \in {"loop", "transfer"},
               NEW to \in {"transfer", "complete", "noted"},
               Progress!Moves(w, from, to), Progress!Counts(w, n),
               UNCHANGED <<whole, sum, reported, checkpoint, outcome, stop>>
        PROVE  ProgressInv'
    <3>1. /\ at[w] = from /\ at' = [at EXCEPT ![w] = to] /\ bytes' = [bytes EXCEPT ![w] = n]
          /\ overshot' = (overshot \/ n > SegmentBytes[w])
      BY <2>4 DEF Progress!Moves, Progress!Counts
    <3>2. /\ at'[w] = to /\ bytes'[w] = n /\ sum'[w] = sum[w]
          /\ whole'[w] = whole[w] /\ checkpoint'[w] = checkpoint[w]
      BY <1>2, <2>4, <3>1
    <3>3. ~whole[w] BY <2>2, <3>1 DEF WorkerInv
    <3>4. ~overshot' => ~overshot /\ n <= SegmentBytes[w]
      <4>1. ~(n > SegmentBytes[w]) => n <= SegmentBytes[w] BY <2>1
      <4>2. ~overshot' => ~overshot /\ ~(n > SegmentBytes[w]) BY <3>1
      <4>3. QED BY <4>1, <4>2
    <3>5. WorkerInv(w)' BY <1>1, <2>2, <2>4, <3>2, <3>3, <3>4 DEF WorkerInv
    <3>6. /\ sum' = [sum EXCEPT ![w] = sum'[w]] /\ whole' = [whole EXCEPT ![w] = whole'[w]]
          /\ checkpoint' = [checkpoint EXCEPT ![w] = checkpoint'[w]]
      BY <1>2, <2>4
    <3>7. overshot' \in BOOLEAN /\ (overshot => overshot') BY <3>1
    <3>8. ~overshot' => reported' <= Progress!FileSize BY <1>2, <2>4, <3>4
    <3>9. at[w] # "ended" /\ at' = [at EXCEPT ![w] = at'[w]] /\ bytes' = [bytes EXCEPT ![w] = bytes'[w]]
      BY <3>1, <3>2
    <3>10. QED
      BY <1>1, <1>2, <2>1, <2>4, <3>2, <3>5, <3>6, <3>7, <3>8, <3>9, WorkerKeeps
  <2>5. CASE Progress!Look(w)
    <3>1. PICK existing \in 0..(SegmentBytes[w] + Overshoot) :
            /\ Progress!Counts(w, existing)
            /\ Progress!Moves(w, "loop", IF existing < SegmentBytes[w] THEN "transfer" ELSE "complete")
      BY <2>5 DEF Progress!Look
    <3>2. UNCHANGED <<whole, sum, reported, checkpoint, outcome, stop>>
      BY <2>5 DEF Progress!Look
    <3>3. existing \in Nat BY <2>1
    <3>4. CASE existing < SegmentBytes[w]
      <4>1. Progress!Moves(w, "loop", "transfer") BY <3>1, <3>4
      <4>2. QED BY <2>4, <3>1, <3>2, <3>3, <4>1
    <3>5. CASE ~(existing < SegmentBytes[w])
      <4>1. Progress!Moves(w, "loop", "complete") BY <3>1, <3>5
      <4>2. QED BY <2>4, <3>1, <3>2, <3>3, <4>1
    <3>6. QED BY <3>4, <3>5
  <2>6. CASE Progress!WorkerStops(w)
    BY <1>2, <2>3, <2>6 DEF Progress!WorkerStops, Progress!Moves
  <2>7. CASE Progress!Note(w)
    <3>1. PICK n \in (bytes[w] + 1)..(SegmentBytes[w] + Overshoot) : Progress!Counts(w, n)
      BY <2>7 DEF Progress!Note
    <3>2. n \in Nat BY <2>1
    <3>3. /\ Progress!Moves(w, "transfer", "noted")
          /\ UNCHANGED <<whole, sum, reported, checkpoint, outcome, stop>>
      BY <2>7 DEF Progress!Note
    <3>4. QED BY <2>4, <3>1, <3>2, <3>3
  <2>8. CASE Progress!TransferDone(w)
    BY <1>2, <2>3, <2>8 DEF Progress!TransferDone, Progress!Moves
  <2>9. CASE Progress!TransferFails(w)
    <3>1. CASE stop \cap {"pause", "cancel"} = {}
      BY <1>2, <2>3, <2>9, <3>1 DEF Progress!TransferFails, Progress!Moves
    <3>2. CASE stop \cap {"pause", "cancel"} # {}
      BY <1>2, <2>3, <2>9, <3>2 DEF Progress!TransferFails, Progress!Moves
    <3>3. QED BY <3>1, <3>2
  <2>10. CASE Progress!GiveUp(w)
    BY <1>2, <2>3, <2>10 DEF Progress!GiveUp, Progress!Moves
  <2>11. CASE Progress!SegmentComplete(w)
    <3>1. /\ at[w] = "complete" /\ at' = [at EXCEPT ![w] = "noted"]
          /\ bytes' = [bytes EXCEPT ![w] = SegmentBytes[w]]
          /\ overshot' = (overshot \/ SegmentBytes[w] > SegmentBytes[w])
          /\ whole' = [whole EXCEPT ![w] = TRUE]
          /\ UNCHANGED <<sum, reported, checkpoint, outcome, stop>>
      BY <2>11 DEF Progress!SegmentComplete, Progress!Moves, Progress!Counts
    <3>2. /\ at'[w] = "noted" /\ bytes'[w] = SegmentBytes[w] /\ sum'[w] = sum[w]
          /\ whole'[w] = TRUE /\ checkpoint'[w] = checkpoint[w]
      BY <1>2, <3>1
    <3>3. overshot' = overshot BY <1>2, <2>1, <3>1
    <3>4. SegmentBytes[w] <= SegmentBytes[w] BY <2>1
    <3>5. WorkerInv(w)' BY <1>1, <2>2, <3>1, <3>2, <3>3, <3>4 DEF WorkerInv
    <3>6. /\ sum' = [sum EXCEPT ![w] = sum'[w]]
          /\ checkpoint' = [checkpoint EXCEPT ![w] = checkpoint'[w]]
      BY <1>2, <3>1
    <3>7. /\ at[w] # "ended" /\ at' = [at EXCEPT ![w] = at'[w]]
          /\ bytes' = [bytes EXCEPT ![w] = bytes'[w]] /\ whole' = [whole EXCEPT ![w] = whole'[w]]
      BY <3>1, <3>2
    <3>8. QED BY <1>1, <1>2, <2>1, <3>1, <3>2, <3>3, <3>5, <3>6, <3>7, WorkerKeeps
  <2>12. CASE Progress!SumUp(w)
    <3>1. /\ at[w] = "noted" /\ at' = [at EXCEPT ![w] = "summed"]
          /\ sum' = [sum EXCEPT ![w] = Progress!Total]
          /\ UNCHANGED <<bytes, whole, reported, checkpoint, outcome, stop, overshot>>
      BY <2>12 DEF Progress!SumUp, Progress!Moves
    <3>2. /\ at'[w] = "summed" /\ bytes'[w] = bytes[w] /\ sum'[w] = Progress!Total
          /\ whole'[w] = whole[w] /\ checkpoint'[w] = checkpoint[w]
      BY <1>2, <3>1
    <3>3. sum'[w] \in Nat /\ (~overshot => sum'[w] <= Progress!FileSize) BY <3>2, TotalBounded
    <3>4. WorkerInv(w)' BY <1>1, <2>2, <3>1, <3>2, <3>3 DEF WorkerInv
    <3>5. /\ bytes' = [bytes EXCEPT ![w] = bytes'[w]] /\ whole' = [whole EXCEPT ![w] = whole'[w]]
          /\ checkpoint' = [checkpoint EXCEPT ![w] = checkpoint'[w]]
      BY <1>2, <3>1
    <3>6. /\ at[w] # "ended" /\ at' = [at EXCEPT ![w] = at'[w]]
          /\ sum' = [sum EXCEPT ![w] = sum'[w]]
      BY <3>1, <3>2
    <3>7. QED BY <1>1, <1>2, <2>1, <3>1, <3>2, <3>3, <3>4, <3>5, <3>6, WorkerKeeps
  <2>13. CASE Progress!Report(w)
    <3>1. /\ at[w] = "summed"
          /\ at' = [at EXCEPT ![w] = IF whole[w] THEN "ended" ELSE "transfer"]
          /\ reported' = sum[w] /\ sum' = [sum EXCEPT ![w] = 0]
          /\ checkpoint' = [checkpoint EXCEPT ![w] = bytes[w]]
          /\ UNCHANGED <<bytes, whole, outcome, stop, overshot>>
      BY <2>13 DEF Progress!Report, Progress!Moves
    <3>2. /\ at'[w] = (IF whole[w] THEN "ended" ELSE "transfer")
          /\ bytes'[w] = bytes[w] /\ sum'[w] = 0
          /\ whole'[w] = whole[w] /\ checkpoint'[w] = bytes[w]
      BY <1>2, <3>1
    <3>3. ASSUME whole[w] PROVE WorkerInv(w)'
      <4>1. at'[w] = "ended" /\ bytes[w] = SegmentBytes[w] /\ whole'[w]
        BY <2>2, <3>1, <3>2, <3>3 DEF WorkerInv
      <4>2. QED BY <1>1, <2>2, <3>1, <3>2, <4>1 DEF WorkerInv
    <3>4. ASSUME ~whole[w] PROVE WorkerInv(w)'
      <4>1. at'[w] = "transfer" /\ ~whole'[w] BY <3>2, <3>4
      <4>2. QED BY <1>1, <2>2, <3>1, <3>2, <4>1 DEF WorkerInv
    <3>5. ~overshot => sum[w] <= Progress!FileSize BY <2>2 DEF WorkerInv
    <3>6. /\ bytes' = [bytes EXCEPT ![w] = bytes'[w]] /\ whole' = [whole EXCEPT ![w] = whole'[w]]
      BY <1>2, <3>1
    <3>7. /\ at[w] # "ended" /\ at' = [at EXCEPT ![w] = at'[w]]
          /\ sum' = [sum EXCEPT ![w] = sum'[w]]
          /\ checkpoint' = [checkpoint EXCEPT ![w] = checkpoint'[w]]
          /\ at'[w] \in {"loop", "transfer", "complete", "noted", "summed", "ended"}
      BY <3>1, <3>2
    <3>8. QED BY <1>1, <1>2, <2>1, <3>1, <3>2, <3>3, <3>4, <3>5, <3>6, <3>7, WorkerKeeps
  <2>14. QED
    BY <1>3, <2>5, <2>6, <2>7, <2>8, <2>9, <2>10, <2>11, <2>12, <2>13
<1>4. ASSUME NEW how \in {"pause", "cancel"}, Progress!Ask(how) PROVE ProgressInv'
  <2>1. /\ outcome = "downloading" /\ stop' = stop \cup {how}
        /\ UNCHANGED <<bytes, at, whole, sum, reported, checkpoint, outcome, overshot>>
    BY <1>4 DEF Progress!Ask
  <2>2. ProgressTypeOK' BY <1>1, <2>1 DEF ProgressInv, ProgressTypeOK
  <2>3. ASSUME NEW w \in Workers PROVE WorkerInv(w)'
    BY <1>1, <2>1 DEF ProgressInv, WorkerInv
  <2>4. QED BY <1>1, <2>1, <2>2, <2>3 DEF ProgressInv
<1>5. CASE Progress!Finish
  <2>1. /\ outcome' \in Progress!Outcomes /\ reported' = Progress!Reached(outcome')
        /\ UNCHANGED <<bytes, at, whole, sum, checkpoint, stop, overshot>>
        /\ \A w \in Workers : at[w] = "ended"
    BY <1>5 DEF Progress!Finish
  <2>2. outcome' = "completed" => stop = {} BY <1>2, <2>1 DEF Progress!Outcomes
  <2>3. reported' = (IF outcome' = "completed" THEN Progress!FileSize ELSE reported)
    BY <2>1 DEF Progress!Reached
  <2>4. ProgressTypeOK' BY <1>1, <1>2, <2>1, <2>3 DEF ProgressTypeOK
  <2>5. ASSUME NEW w \in Workers PROVE WorkerInv(w)'
    BY <1>1, <2>1 DEF ProgressInv, WorkerInv
  <2>6. ~overshot' => reported' <= Progress!FileSize BY <1>1, <1>2, <2>1, <2>3
  <2>7. QED BY <1>1, <2>1, <2>2, <2>3, <2>4, <2>5, <2>6 DEF ProgressInv
<1>6. CASE Progress!Resume
  <2>1. /\ outcome' = "downloading" /\ stop' = {}
        /\ at' = [w \in Workers |-> "loop"] /\ whole' = [w \in Workers |-> FALSE]
        /\ UNCHANGED <<bytes, sum, reported, checkpoint, overshot>>
    BY <1>6 DEF Progress!Resume
  <2>2. ProgressTypeOK' BY <1>1, <1>2, <2>1 DEF ProgressTypeOK
  <2>3. ASSUME NEW w \in Workers PROVE WorkerInv(w)'
    <3>1. at'[w] = "loop" /\ ~whole'[w] BY <2>1
    <3>2. WorkerInv(w) BY DEF ProgressInv
    <3>3. QED BY <1>1, <2>1, <3>1, <3>2 DEF WorkerInv
  <2>4. QED BY <1>1, <1>2, <2>1, <2>2, <2>3 DEF ProgressInv
<1>7. CASE UNCHANGED progressVars
  BY <1>1, <1>7 DEF progressVars, ProgressInv, ProgressTypeOK, WorkerInv
<1>8. QED BY <1>3, <1>4, <1>5, <1>6, <1>7 DEF Progress!Next

\* The numbers of a completed run are then the right ones.
LEMMA InvReportsRight == ProgressInv => EndedReportsRight
<1> SUFFICES ASSUME ProgressInv PROVE EndedReportsRight OBVIOUS
<1>1. \A w \in Workers : WorkerInv(w) BY DEF ProgressInv
<1>2. ASSUME outcome = "completed"
      PROVE  reported = Progress!FileSize /\ \A w \in Workers : checkpoint[w] = SegmentBytes[w]
  BY <1>1, <1>2 DEF ProgressInv, WorkerInv
<1>3. ASSUME ~overshot
      PROVE  reported <= Progress!FileSize /\ \A w \in Workers : checkpoint[w] <= SegmentBytes[w]
  BY <1>1, <1>3 DEF ProgressInv, WorkerInv
<1>4. QED BY <1>2, <1>3 DEF EndedReportsRight, Progress!EndedReportsRight
-----------------------------------------------------------------------------
(* Lists: erasing the items of an id leaves the others in their order. *)

KeptSoFar(f, list, id, n) ==
  IF n = 0 THEN <<>>
  ELSE IF list[n].id = id THEN f[n - 1] ELSE Append(f[n - 1], list[n])

\* A function solves the equation of Without on the first n elements.
LEMMA SomeKept ==
  ASSUME NEW list, NEW id
  PROVE  \A n \in Nat : \E f : f = [i \in 0..n |-> KeptSoFar(f, list, id, i)]
<1> DEFINE T == {n \in Nat : ~ \E f : f = [i \in 0..n |-> KeptSoFar(f, list, id, i)]}
<1>1. SUFFICES ASSUME T # {} PROVE FALSE OBVIOUS
<1>2. PICK n \in T : \A m \in T : n <= m BY <1>1, LeastNat
<1>3. CASE n = 0
  <2> DEFINE g == [i \in 0..0 |-> <<>>]
  <2>1. \A i \in 0..0 : <<>> = KeptSoFar(g, list, id, i) BY DEF KeptSoFar
  <2>2. g = [i \in 0..0 |-> KeptSoFar(g, list, id, i)]
    <3>1. [i \in 0..0 |-> <<>>] = [i \in 0..0 |-> KeptSoFar(g, list, id, i)]
      <4> HIDE DEF g
      <4>1. QED BY <2>1
    <3>2. QED BY <3>1
  <2>3. QED BY <1>2, <1>3, <2>2
<1>4. CASE n # 0
  <2>1. n \in Nat /\ n - 1 \in Nat /\ n - 1 \notin T BY <1>2, <1>4
  <2>2. PICK h : h = [i \in 0..(n - 1) |-> KeptSoFar(h, list, id, i)] BY <2>1
  <2> DEFINE g == [i \in 0..n |-> KeptSoFar(h, list, id, i)]
  <2>3. ASSUME NEW i \in 0..n
        PROVE  KeptSoFar(h, list, id, i) = KeptSoFar(g, list, id, i)
    <3>1. CASE i = 0 BY <3>1 DEF KeptSoFar
    <3>2. CASE i # 0
      <4>1. i - 1 \in 0..(n - 1) /\ i - 1 \in 0..n BY <2>1, <3>2
      <4>2. h[i - 1] = KeptSoFar(h, list, id, i - 1) BY <2>2, <4>1
      <4>3. g[i - 1] = h[i - 1] BY <4>1, <4>2
      <4> HIDE DEF g
      <4>4. QED BY <3>2, <4>3 DEF KeptSoFar
    <3>3. QED BY <3>1, <3>2
  <2>4. [i \in 0..n |-> KeptSoFar(h, list, id, i)] = [i \in 0..n |-> KeptSoFar(g, list, id, i)]
    <3> HIDE DEF g
    <3>1. QED BY <2>3
  <2>5. g = [i \in 0..n |-> KeptSoFar(g, list, id, i)] BY <2>4
  <2>6. QED BY <1>2, <2>5
<1>5. QED BY <1>3, <1>4

\* So that Without satisfies its equation.
LEMMA WithoutIs ==
  ASSUME NEW list, NEW id, Len(list) \in Nat
  PROVE  \E f : /\ \A i \in 0..Len(list) : f[i] = KeptSoFar(f, list, id, i)
                /\ Without(list, id) = f[Len(list)]
<1>1. PICK h : h = [i \in 0..Len(list) |-> KeptSoFar(h, list, id, i)] BY SomeKept
<1>2. PICK t : t = Without(list, id) OBVIOUS
<1>3. \E g : /\ g = [n \in 0..Len(list) |->
                       IF n = 0 THEN <<>>
                       ELSE IF list[n].id = id THEN g[n - 1] ELSE Append(g[n - 1], list[n])]
             /\ t = g[Len(list)]
  <2>1. h = [n \in 0..Len(list) |->
               IF n = 0 THEN <<>>
               ELSE IF list[n].id = id THEN h[n - 1] ELSE Append(h[n - 1], list[n])]
    BY <1>1 DEF KeptSoFar
  <2>2. QED BY <1>2, <2>1 DEF Without
<1>4. QED BY <1>2, <1>3 DEF KeptSoFar

\* t is what is left of the first n items of a list: p says where each comes from.
LeftOf(t, p, list, id, n) ==
  /\ p \in [1..Len(t) -> 1..n]
  /\ \A j \in 1..Len(t) : t[j] = list[p[j]] /\ list[p[j]].id # id
  /\ \A j, k \in 1..Len(t) : j < k => p[j] < p[k]
  /\ \A i \in 1..n : list[i].id # id => \E j \in 1..Len(t) : p[j] = i

\* An element that is kept comes after those kept before it.
LEMMA OneMoreLeft ==
  ASSUME NEW S, NEW list \in Seq(S), NEW id, NEW n \in 1..Len(list),
         NEW t \in Seq(S), NEW p, LeftOf(t, p, list, id, n - 1), list[n].id # id,
         NEW u, u = Append(t, list[n])
  PROVE  u \in Seq(S) /\ \E q : LeftOf(u, q, list, id, n)
<1> DEFINE q == [j \in 1..(Len(t) + 1) |-> IF j <= Len(t) THEN p[j] ELSE n]
<1>1. Len(t) \in Nat /\ n \in Nat /\ list[n] \in S OBVIOUS
<1>2. /\ u \in Seq(S) /\ Len(u) = Len(t) + 1 /\ u[Len(t) + 1] = list[n]
      /\ \A j \in 1..Len(t) : u[j] = t[j]
  BY <1>1
<1>3. ASSUME NEW j \in 1..Len(u)
      PROVE  /\ q[j] \in 1..n /\ u[j] = list[q[j]] /\ list[q[j]].id # id
             /\ j <= Len(t) => q[j] = p[j] /\ p[j] \in 1..(n - 1)
             /\ ~(j <= Len(t)) => q[j] = n /\ j = Len(t) + 1
  BY <1>1, <1>2 DEF LeftOf
<1>4. q \in [1..Len(u) -> 1..n] BY <1>2, <1>3
<1>5. \A j, k \in 1..Len(u) : j < k => q[j] < q[k]
  <2> SUFFICES ASSUME NEW j \in 1..Len(u), NEW k \in 1..Len(u), j < k PROVE q[j] < q[k]
    OBVIOUS
  <2>1. j \in 1..Len(t) /\ q[j] = p[j] /\ p[j] \in 1..(n - 1) BY <1>1, <1>2, <1>3
  <2>2. CASE k <= Len(t)
    <3>1. k \in 1..Len(t) /\ q[k] = p[k] BY <1>3, <2>2
    <3>2. QED BY <2>1, <3>1 DEF LeftOf
  <2>3. CASE ~(k <= Len(t))
    <3>1. q[k] = n BY <1>3, <2>3
    <3> HIDE DEF q
    <3>2. QED BY <1>1, <2>1, <3>1
  <2>4. QED BY <2>2, <2>3
<1>6. ASSUME NEW i \in 1..n, list[i].id # id PROVE \E j \in 1..Len(u) : q[j] = i
  <2>1. CASE i = n
    <3>1. Len(t) + 1 \in 1..Len(u) /\ q[Len(t) + 1] = n BY <1>1, <1>2
    <3>2. QED BY <2>1, <3>1
  <2>2. CASE i # n
    <3>1. i \in 1..(n - 1) BY <1>1, <2>2
    <3>2. PICK j \in 1..Len(t) : p[j] = i BY <1>6, <3>1 DEF LeftOf
    <3>3. j \in 1..Len(u) /\ q[j] = p[j] BY <1>1, <1>2
    <3>4. QED BY <3>2, <3>3
  <2>3. QED BY <2>1, <2>2
<1> HIDE DEF q
<1>7. LeftOf(u, q, list, id, n) BY <1>3, <1>4, <1>5, <1>6 DEF LeftOf
<1>8. QED BY <1>2, <1>7

\* What Without leaves are the other elements, in the order they had.
LEMMA OthersLeft ==
  ASSUME NEW S, NEW list \in Seq(S), NEW id
  PROVE  /\ Without(list, id) \in Seq(S)
         /\ \E p : LeftOf(Without(list, id), p, list, id, Len(list))
<1>1. PICK f : /\ \A i \in 0..Len(list) : f[i] = KeptSoFar(f, list, id, i)
               /\ Without(list, id) = f[Len(list)]
  BY WithoutIs
<1> DEFINE Good(n) == f[n] \in Seq(S) /\ \E p : LeftOf(f[n], p, list, id, n)
           T == {n \in Nat : n <= Len(list) /\ ~Good(n)}
<1>2. T = {}
  <2>1. SUFFICES ASSUME T # {} PROVE FALSE OBVIOUS
  <2>2. PICK n \in T : \A m \in T : n <= m BY <2>1, LeastNat
  <2>3. f[n] = KeptSoFar(f, list, id, n) /\ n \in 0..Len(list) BY <1>1, <2>2
  <2>4. CASE n = 0
    <3>1. f[n] = <<>> BY <2>3, <2>4 DEF KeptSoFar
    <3>2. LeftOf(<<>>, [j \in 1..0 |-> j], list, id, 0) BY DEF LeftOf
    <3>3. f[n] \in Seq(S) BY <3>1
    <3>4. \E p : LeftOf(f[n], p, list, id, n) BY <2>4, <3>1, <3>2
    <3>5. QED BY <2>2, <3>3, <3>4
  <2>5. CASE n # 0
    <3>1. n - 1 \in Nat /\ n - 1 <= Len(list) /\ ~(n <= n - 1) /\ n \in 1..Len(list)
      BY <2>3, <2>5
    <3>2. Good(n - 1) BY <2>2, <3>1
    <3>3. PICK p : LeftOf(f[n - 1], p, list, id, n - 1) BY <3>2
    <3>4. CASE list[n].id = id
      <4>1. f[n] = f[n - 1] BY <2>3, <2>5, <3>4 DEF KeptSoFar
      <4>2. LeftOf(f[n], p, list, id, n)
        <5>1. Len(f[n]) \in Nat /\ Len(f[n]) = Len(f[n - 1]) BY <3>2, <4>1
        <5>2. 1..(n - 1) \subseteq 1..n /\ \A i \in 1..n : i = n \/ i \in 1..(n - 1) BY <3>1
        <5>3. p \in [1..Len(f[n]) -> 1..n] BY <3>3, <4>1, <5>2 DEF LeftOf
        <5>4. QED BY <3>3, <3>4, <4>1, <5>2, <5>3 DEF LeftOf
      <4>3. QED BY <2>2, <3>2, <4>1, <4>2
    <3>5. CASE list[n].id # id
      <4>1. f[n] = Append(f[n - 1], list[n]) BY <2>3, <2>5, <3>5 DEF KeptSoFar
      <4>2. Good(n) BY <3>1, <3>2, <3>3, <3>5, <4>1, OneMoreLeft
      <4>3. QED BY <2>2, <4>2
    <3>6. QED BY <3>4, <3>5
  <2>6. QED BY <2>4, <2>5
<1>3. Len(list) \in Nat /\ Len(list) <= Len(list) OBVIOUS
<1>4. Good(Len(list)) BY <1>2, <1>3
<1>5. QED BY <1>1, <1>4

\* Each module's own copy of Without.
LEMMA SameWithout ==
  \A list, id : /\ Queue!Without(list, id) = Without(list, id)
                /\ Category!Without(list, id) = Without(list, id)
                /\ Scheduler!Without(list, id) = Without(list, id)
BY DEF Queue!Without, Category!Without, Scheduler!Without, Without
-----------------------------------------------------------------------------
(* QueueManager. *)

Entries == [id : QueueIds, priority : Int, frozen : BOOLEAN]

QueueInv == queue \in Seq(Entries) /\ Queue!HighestFirst

\* Sorting gives a sorted list of the same entries.
LEMMA SortedIs ==
  ASSUME NEW S, NEW s \in Seq(S), NEW t \in Queue!SortedForms(s)
  PROVE  /\ t \in Seq(S)
         /\ \A i, j \in DOMAIN t : i < j => t[i].priority >= t[j].priority
<1>1. PICK p \in [DOMAIN s -> DOMAIN s] : t = [i \in DOMAIN s |-> s[p[i]]]
  BY DEF Queue!SortedForms
<1>2. DOMAIN s = 1..Len(s) /\ Len(s) \in Nat OBVIOUS
<1>3. \A i \in DOMAIN s : s[p[i]] \in S BY <1>1, <1>2
<1>4. t = [i \in 1..Len(s) |-> s[p[i]]] BY <1>1, <1>2
<1>5. t \in [1..Len(s) -> S] BY <1>2, <1>3, <1>4
<1>6. t \in Seq(S) BY <1>2, <1>5
<1>7. DOMAIN t = DOMAIN s BY <1>1
<1>8. QED BY <1>6, <1>7 DEF Queue!SortedForms

\* The entry found is one of the queue.
LEMMA FirstIs ==
  ASSUME queue \in Seq(Entries), NEW id, Queue!First(id) # 0
  PROVE  Queue!First(id) \in DOMAIN queue
<1> DEFINE P == {i \in Nat : i \in DOMAIN queue /\ queue[i].id = id}
<1>1. DOMAIN queue = 1..Len(queue) /\ Len(queue) \in Nat OBVIOUS
<1>2. \E i \in DOMAIN queue : queue[i].id = id BY DEF Queue!First
<1>3. P # {} BY <1>1, <1>2
<1>4. PICK i \in P : \A j \in P : i <= j BY <1>3, LeastNat
<1>5. i \in DOMAIN queue /\ queue[i].id = id BY <1>4
<1>6. \A j \in DOMAIN queue : queue[j].id = id => i <= j BY <1>1, <1>4
<1>7. QED BY <1>2, <1>5, <1>6 DEF Queue!First

\* A new entry is sorted into its place.
LEMMA EnqueueKeeps ==
  ASSUME QueueInv, NEW id \in QueueIds, NEW priority \in QueuePriorities,
         Queue!Enqueue(id, priority)
  PROVE  QueueInv'
<1>1. PICK entry \in Entries : queue' \in Queue!SortedForms(Append(queue, entry))
  <2>1. [id |-> id, priority |-> priority, frozen |-> FALSE] \in Entries
    BY QueueAssumption DEF Entries
  <2>2. QED BY <2>1 DEF Queue!Enqueue
<1>2. Append(queue, entry) \in Seq(Entries) BY DEF QueueInv
<1>3. QED BY <1>1, <1>2, SortedIs DEF QueueInv, Queue!HighestFirst

\* Removal keeps the order.
LEMMA DequeueKeeps ==
  ASSUME QueueInv, NEW id, Queue!Dequeue(id)
  PROVE  QueueInv'
<1>1. queue \in Seq(Entries) BY DEF QueueInv
<1>2. queue' = Without(queue, id) BY SameWithout DEF Queue!Dequeue
<1>3. queue' \in Seq(Entries) BY <1>1, <1>2, OthersLeft
<1>4. PICK p : LeftOf(queue', p, queue, id, Len(queue)) BY <1>1, <1>2, OthersLeft
<1>5. DOMAIN queue' = 1..Len(queue') /\ DOMAIN queue = 1..Len(queue) BY <1>1, <1>3
<1>6. ASSUME NEW i \in DOMAIN queue', NEW j \in DOMAIN queue', i < j
      PROVE  queue'[i].priority >= queue'[j].priority
  <2>1. /\ p[i] \in DOMAIN queue /\ p[j] \in DOMAIN queue /\ p[i] < p[j]
        /\ queue'[i] = queue[p[i]] /\ queue'[j] = queue[p[j]]
    BY <1>4, <1>5, <1>6 DEF LeftOf
  <2>2. QED BY <2>1 DEF QueueInv, Queue!HighestFirst
<1>7. QED BY <1>3, <1>6 DEF QueueInv, Queue!HighestFirst

\* Freezing an entry does not move it.
LEMMA FreezeKeeps ==
  ASSUME QueueInv, NEW id, NEW frozen \in BOOLEAN, Queue!Freeze(id, frozen)
  PROVE  QueueInv'
<1> DEFINE k == Queue!First(id)
<1>1. queue \in Seq(Entries) /\ k \in DOMAIN queue BY FirstIs DEF QueueInv, Queue!Freeze
<1>2. queue' = [queue EXCEPT ![k] = [queue[k] EXCEPT !.frozen = frozen]] BY DEF Queue!Freeze
<1> HIDE DEF k
<1>3. DOMAIN queue = 1..Len(queue) /\ queue[k] \in Entries BY <1>1
<1>4. /\ [queue[k] EXCEPT !.frozen = frozen] \in Entries
      /\ [queue[k] EXCEPT !.frozen = frozen].priority = queue[k].priority
  BY <1>3 DEF Entries
<1>5. PICK e \in Entries : queue' = [queue EXCEPT ![k] = e] /\ e.priority = queue[k].priority
  BY <1>2, <1>4
<1>6. queue' \in Seq(Entries) /\ DOMAIN queue' = DOMAIN queue BY <1>1, <1>5
<1>7. \A i \in DOMAIN queue : queue'[i].priority = queue[i].priority BY <1>1, <1>5
<1>8. QED BY <1>6, <1>7 DEF QueueInv, Queue!HighestFirst

\* A new priority is sorted in.
LEMMA ReorderKeeps ==
  ASSUME QueueInv, NEW id, NEW priority \in QueuePriorities, Queue!Reorder(id, priority)
  PROVE  QueueInv'
<1> DEFINE k == Queue!First(id)
<1>1. queue \in Seq(Entries) /\ k \in DOMAIN queue BY FirstIs DEF QueueInv, Queue!Reorder
<1>2. queue' \in Queue!SortedForms([queue EXCEPT ![k] = [queue[k] EXCEPT !.priority = priority]])
  BY DEF Queue!Reorder
<1> HIDE DEF k
<1>3. queue[k] \in Entries BY <1>1
<1>4. [queue[k] EXCEPT !.priority = priority] \in Entries BY <1>3, QueueAssumption DEF Entries
<1>5. PICK e \in Entries : queue' \in Queue!SortedForms([queue EXCEPT ![k] = e])
  BY <1>2, <1>4
<1>6. [queue EXCEPT ![k] = e] \in Seq(Entries) BY <1>1
<1>7. QED BY <1>5, <1>6, SortedIs DEF QueueInv, Queue!HighestFirst

\* An empty queue is in order.
LEMMA QueueStarts == Queue!Init => QueueInv
BY DEF Queue!Init, QueueInv, Queue!HighestFirst

\* Each operation preserves the order of the queue.
LEMMA QueueKeeps == QueueInv /\ [Queue!Next]_queue => QueueInv'
<1> SUFFICES ASSUME QueueInv, [Queue!Next]_queue PROVE QueueInv' OBVIOUS
<1>1. CASE Queue!Next
  BY <1>1, EnqueueKeeps, DequeueKeeps, FreezeKeeps, ReorderKeeps DEF Queue!Next
<1>2. CASE UNCHANGED queue BY <1>2 DEF QueueInv, Queue!HighestFirst
<1>3. QED BY <1>1, <1>2
-----------------------------------------------------------------------------
(* CategoryEngine. *)

Ascends(s) == \A i, j \in DOMAIN s : i < j => s[i].id < s[j].id

Cats == [id : Nat \ {0}, born : Nat]

RuleRows == [id : Nat \ {0}, category : 1..MaxCategoryId, matches : SUBSET SomeFiles]

CategoryInv ==
  /\ categories \in Seq(Cats) /\ rules \in Seq(RuleRows) /\ added \in Nat
  /\ Ascends(categories) /\ Ascends(rules)

\* The next id at the end of an ascending list,
LEMMA AscendsStill ==
  ASSUME NEW S, \A x \in S : x.id \in Nat, NEW s \in Seq(S), Ascends(s), NEW e \in S,
         s # <<>> => e.id = s[Len(s)].id + 1
  PROVE  Append(s, e) \in Seq(S) /\ Ascends(Append(s, e))
<1>1. PICK t : t = Append(s, e) OBVIOUS
<1>2. /\ t \in Seq(S) /\ Len(t) = Len(s) + 1 /\ Len(s) \in Nat /\ t[Len(s) + 1] = e
      /\ \A i \in 1..Len(s) : t[i] = s[i] /\ s[i] \in S
  BY <1>1
<1>3. DOMAIN t = 1..(Len(s) + 1) /\ DOMAIN s = 1..Len(s) BY <1>2
<1>4. ASSUME NEW i \in DOMAIN t, NEW j \in DOMAIN t, i < j PROVE t[i].id < t[j].id
  <2>1. i \in 1..Len(s) BY <1>2, <1>3, <1>4
  <2>2. CASE j \in 1..Len(s)
    <3>1. t[i] = s[i] /\ t[j] = s[j] BY <1>2, <2>1, <2>2
    <3>2. QED BY <1>3, <1>4, <2>1, <2>2, <3>1 DEF Ascends
  <2>3. CASE j \notin 1..Len(s)
    <3>1. j = Len(s) + 1 /\ Len(s) \in 1..Len(s) BY <1>2, <1>3, <2>1, <2>3
    <3>2. t[i] = s[i] /\ t[j] = e /\ s # <<>> BY <1>2, <2>1, <3>1
    <3>3. s[i].id = s[Len(s)].id \/ s[i].id < s[Len(s)].id
      <4>1. i = Len(s) \/ i < Len(s) BY <1>2, <2>1
      <4>2. QED BY <1>3, <2>1, <3>1, <4>1 DEF Ascends
    <3>4. s[i].id \in Nat /\ s[Len(s)].id \in Nat BY <1>2, <2>1, <3>1
    <3>5. e.id = s[Len(s)].id + 1 BY <3>2
    <3>6. QED BY <3>2, <3>3, <3>4, <3>5
  <2>4. QED BY <2>2, <2>3
<1>5. QED BY <1>1, <1>2, <1>4 DEF Ascends

\* and a removal from one, leave it ascending.
LEMMA AscendsWithout ==
  ASSUME NEW S, NEW s \in Seq(S), Ascends(s), NEW id
  PROVE  Without(s, id) \in Seq(S) /\ Ascends(Without(s, id))
<1>1. PICK t : t = Without(s, id) OBVIOUS
<1>2. t \in Seq(S) /\ \E p : LeftOf(t, p, s, id, Len(s)) BY <1>1, OthersLeft
<1>3. PICK p : LeftOf(t, p, s, id, Len(s)) BY <1>2
<1>4. DOMAIN t = 1..Len(t) /\ DOMAIN s = 1..Len(s) BY <1>2
<1>5. ASSUME NEW i \in DOMAIN t, NEW j \in DOMAIN t, i < j PROVE t[i].id < t[j].id
  <2>1. /\ p[i] \in DOMAIN s /\ p[j] \in DOMAIN s /\ p[i] < p[j]
        /\ t[i] = s[p[i]] /\ t[j] = s[p[j]]
    BY <1>3, <1>4, <1>5 DEF LeftOf
  <2>2. QED BY <2>1 DEF Ascends
<1>6. QED BY <1>1, <1>2, <1>5 DEF Ascends

\* A new category has the next id.
LEMMA AddCategoryKeeps == ASSUME CategoryInv, Category!AddCategory PROVE CategoryInv'
<1> DEFINE e == [id |-> Category!NextCategoryId, born |-> added]
<1>1. /\ categories' = Append(categories, e) /\ added' = added + 1 /\ rules' = rules
  BY DEF Category!AddCategory
<1>2. categories \in Seq(Cats) /\ added \in Nat /\ Ascends(categories) BY DEF CategoryInv
<1>3. /\ Category!NextCategoryId \in Nat \ {0}
      /\ categories # <<>> => Category!NextCategoryId = categories[Len(categories)].id + 1
  <2>1. CASE categories = <<>> BY <2>1 DEF Category!NextCategoryId
  <2>2. CASE categories # <<>>
    <3>1. Len(categories) \in DOMAIN categories BY <1>2, <2>2
    <3>2. categories[Len(categories)] \in Cats BY <1>2, <3>1
    <3>3. categories[Len(categories)].id \in Nat BY <3>2 DEF Cats
    <3>4. Category!NextCategoryId = categories[Len(categories)].id + 1
      BY <2>2 DEF Category!NextCategoryId
    <3>5. QED BY <3>3, <3>4
  <2>3. QED BY <2>1, <2>2
<1>4. e \in Cats /\ e.id = Category!NextCategoryId BY <1>2, <1>3 DEF Cats
<1>5. \A x \in Cats : x.id \in Nat BY DEF Cats
<1> HIDE DEF e
<1>6. categories' \in Seq(Cats) /\ Ascends(categories')
  BY <1>1, <1>2, <1>3, <1>4, <1>5, AscendsStill
<1>7. added' \in Nat BY <1>1, <1>2
<1>8. QED BY <1>1, <1>6, <1>7 DEF CategoryInv

\* A new rule has the next id.
LEMMA AddRuleKeeps ==
  ASSUME CategoryInv, NEW id \in 1..MaxCategoryId, NEW files \in SUBSET SomeFiles,
         Category!AddRule(id, files)
  PROVE  CategoryInv'
<1> DEFINE e == [id |-> Category!NextRuleId, category |-> id, matches |-> files]
<1>1. rules' = Append(rules, e) /\ UNCHANGED <<categories, added>> BY DEF Category!AddRule
<1>2. rules \in Seq(RuleRows) /\ Ascends(rules) BY DEF CategoryInv
<1>3. /\ Category!NextRuleId \in Nat \ {0}
      /\ rules # <<>> => Category!NextRuleId = rules[Len(rules)].id + 1
  <2>1. CASE rules = <<>> BY <2>1 DEF Category!NextRuleId
  <2>2. CASE rules # <<>>
    <3>1. Len(rules) \in DOMAIN rules BY <1>2, <2>2
    <3>2. rules[Len(rules)] \in RuleRows BY <1>2, <3>1
    <3>3. rules[Len(rules)].id \in Nat BY <3>2 DEF RuleRows
    <3>4. Category!NextRuleId = rules[Len(rules)].id + 1 BY <2>2 DEF Category!NextRuleId
    <3>5. QED BY <3>3, <3>4
  <2>3. QED BY <2>1, <2>2
<1>4. e \in RuleRows /\ e.id = Category!NextRuleId BY <1>2, <1>3 DEF RuleRows
<1>5. \A x \in RuleRows : x.id \in Nat BY DEF RuleRows
<1> HIDE DEF e
<1>6. rules' \in Seq(RuleRows) /\ Ascends(rules')
  BY <1>1, <1>2, <1>3, <1>4, <1>5, AscendsStill
<1>7. QED BY <1>1, <1>6 DEF CategoryInv

\* There are no categories at first.
LEMMA CategoryStarts == Category!Init => CategoryInv
BY DEF Category!Init, CategoryInv, Ascends

\* Each operation preserves the invariant of categories and rules.
LEMMA CategoryKeeps == CategoryInv /\ [Category!Next]_categoryVars => CategoryInv'
<1> SUFFICES ASSUME CategoryInv, [Category!Next]_categoryVars PROVE CategoryInv' OBVIOUS
<1>1. ASSUME NEW id, Category!RemoveCategory(id) PROVE CategoryInv'
  <2>1. categories' = Without(categories, id) /\ UNCHANGED <<rules, added>>
    BY <1>1, SameWithout DEF Category!RemoveCategory
  <2>2. QED BY <2>1, AscendsWithout DEF CategoryInv
<1>2. ASSUME NEW id, Category!RemoveRule(id) PROVE CategoryInv'
  <2>1. rules' = Without(rules, id) /\ UNCHANGED <<categories, added>>
    BY <1>2, SameWithout DEF Category!RemoveRule
  <2>2. QED BY <2>1, AscendsWithout DEF CategoryInv
<1>3. CASE UNCHANGED categoryVars BY <1>3 DEF categoryVars, CategoryInv
<1>4. QED BY <1>1, <1>2, <1>3, AddCategoryKeeps, AddRuleKeeps DEF Category!Next

\* The first rule that matches decides.
LEMMA FirstDecides ==
  ASSUME rules \in Seq(RuleRows), NEW file, NEW m \in Category!Matching(file),
         \A j \in Category!Matching(file) : m <= j
  PROVE  Category!DetermineCategory(file) = rules[m].category
<1> DEFINE M == Category!Matching(file)
<1>1. M \subseteq Nat BY DEF Category!Matching
<1>2. m \in M /\ \A j \in M : m <= j OBVIOUS
<1> HIDE DEF M
<1>3. (CHOOSE i \in M : \A j \in M : i <= j) = m
  <2>1. PICK c : c = CHOOSE i \in M : \A j \in M : i <= j OBVIOUS
  <2>2. c \in M /\ \A j \in M : c <= j BY <1>2, <2>1
  <2>3. c = m BY <1>1, <1>2, <2>2
  <2>4. QED BY <2>1, <2>3
<1>4. M # {} BY <1>2
<1>5. QED BY <1>3, <1>4 DEF Category!DetermineCategory, M

\* A decision is that of the first rule that matches.
LEMMA SomeRuleDecides ==
  ASSUME rules \in Seq(RuleRows), NEW file, Category!DetermineCategory(file) # 0
  PROVE  \E m \in Category!Matching(file) :
           /\ \A j \in Category!Matching(file) : m <= j
           /\ Category!DetermineCategory(file) = rules[m].category
<1>1. Category!Matching(file) \subseteq Nat BY DEF Category!Matching
<1>2. Category!Matching(file) # {} BY DEF Category!DetermineCategory
<1>3. PICK m \in Category!Matching(file) : \A j \in Category!Matching(file) : m <= j
  BY <1>1, <1>2, LeastNat
<1>4. QED BY <1>3, FirstDecides

\* The same in the next state.
Decided ==
  rules \in Seq(RuleRows) =>
    \A file : \A m \in Category!Matching(file) :
      (\A j \in Category!Matching(file) : m <= j) =>
        Category!DetermineCategory(file) = rules[m].category

\* This is so after a step as well.
LEMMA DecidedNext == Decided'
<1>1. Decided BY FirstDecides DEF Decided
<1>2. QED BY <1>1, PTL

\* What DecisionsKept says of a step, for one file and one category.
DecisionKept(file, id) ==
  Category!DetermineCategory(file) = id /\ Category!DetermineCategory(file)' # id =>
    \/ ~Category!HasCategory(id)'
    \/ \E i \in DOMAIN rules : rules[i].category = id
                              /\ \A j \in DOMAIN rules' : rules'[j] # rules[i]
    \/ Len(categories') > Len(categories)

\* A step changes the decision about a file only as DecisionKept allows.
LEMMA StepKeepsDecision ==
  ASSUME CategoryInv, CategoryInv', [Category!Next]_categoryVars,
         NEW file \in SomeFiles, NEW id \in 1..MaxCategoryId
  PROVE  DecisionKept(file, id)
<1> SUFFICES ASSUME Category!DetermineCategory(file) = id,
                    Category!HasCategory(id)',
                    \A i \in DOMAIN rules : rules[i].category = id =>
                      \E j \in DOMAIN rules' : rules'[j] = rules[i],
                    ~(Len(categories') > Len(categories))
             PROVE  Category!DetermineCategory(file)' = id
  BY DEF DecisionKept
<1>1. /\ rules \in Seq(RuleRows) /\ rules' \in Seq(RuleRows) /\ Ascends(rules)
      /\ categories \in Seq(Cats)
  BY DEF CategoryInv
<1>2. DOMAIN rules = 1..Len(rules) /\ Len(rules) \in Nat BY <1>1
<1>3. PICK m \in Category!Matching(file) :
        /\ \A j \in Category!Matching(file) : m <= j
        /\ rules[m].category = id
  <2>1. id # 0 OBVIOUS
  <2>2. QED BY <1>1, <2>1, SomeRuleDecides
<1>4. m \in DOMAIN rules /\ file \in rules[m].matches BY DEF Category!Matching
\* It is enough that a rule of that category comes first.
<1>5. SUFFICES \E k \in Category!Matching(file)' :
                 /\ \A j \in Category!Matching(file)' : k <= j
                 /\ rules'[k].category = id
  BY <1>1, DecidedNext DEF Decided
<1>6. CASE Category!AddCategory
  <2>1. categories' = Append(categories, [id |-> Category!NextCategoryId, born |-> added])
    BY <1>6 DEF Category!AddCategory
  <2>2. Len(categories') = Len(categories) + 1 /\ Len(categories) \in Nat BY <1>1, <2>1
  <2>3. QED BY <2>2
<1>7. ASSUME NEW c, Category!RemoveCategory(c)
      PROVE  \E k \in Category!Matching(file)' :
               (\A j \in Category!Matching(file)' : k <= j) /\ rules'[k].category = id
  <2>1. rules' = rules /\ categories' = Without(categories, c)
    BY <1>7, SameWithout DEF Category!RemoveCategory
  <2>2. PICK p : LeftOf(categories', p, categories, c, Len(categories))
    BY <1>1, <2>1, OthersLeft
  <2>3. categories' \in Seq(Cats) BY <1>1, <2>1, OthersLeft
  <2>4. \A d : Category!HasCategory(d)' => Category!HasCategory(d)
    <3>1. DOMAIN categories' = 1..Len(categories') /\ DOMAIN categories = 1..Len(categories)
      BY <1>1, <2>3
    <3>2. QED BY <2>2, <3>1 DEF LeftOf, Category!HasCategory
  <2>5. m \in Category!Matching(file)' BY <1>3, <1>4, <2>1 DEF Category!Matching
  <2>6. Category!Matching(file)' \subseteq Category!Matching(file)
    BY <2>1, <2>4 DEF Category!Matching
  <2>7. QED BY <1>3, <2>1, <2>5, <2>6
<1>8. ASSUME NEW c \in 1..MaxCategoryId, NEW files \in SUBSET SomeFiles,
             Category!AddRule(c, files)
      PROVE  \E k \in Category!Matching(file)' :
               (\A j \in Category!Matching(file)' : k <= j) /\ rules'[k].category = id
  <2>1. PICK e : rules' = Append(rules, e) /\ categories' = categories
    BY <1>8 DEF Category!AddRule
  <2>2. /\ DOMAIN rules' = 1..(Len(rules) + 1)
        /\ \A i \in 1..Len(rules) : rules'[i] = rules[i]
    BY <1>1, <1>2, <2>1
  <2>3. \A d : Category!HasCategory(d)' = Category!HasCategory(d)
    BY <2>1 DEF Category!HasCategory
  <2>4. m \in Category!Matching(file)'
    <3>1. m \in 1..(Len(rules) + 1) /\ rules'[m] = rules[m] BY <1>2, <1>4, <2>2
    <3>2. QED BY <1>3, <1>4, <2>2, <3>1 DEF Category!Matching
  <2>5. ASSUME NEW j \in Category!Matching(file)' PROVE m <= j
    <3>1. j \in 1..(Len(rules) + 1) BY <2>2 DEF Category!Matching
    <3>2. CASE j \in 1..Len(rules)
      <4>1. j \in Category!Matching(file) BY <1>2, <2>2, <2>3, <3>2 DEF Category!Matching
      <4>2. QED BY <1>3, <4>1
    <3>3. CASE j = Len(rules) + 1 BY <1>2, <1>4, <3>3
    <3>4. QED BY <1>2, <3>1, <3>2, <3>3
  <2>6. rules'[m] = rules[m] BY <1>2, <1>4, <2>2
  <2>7. QED BY <1>3, <2>4, <2>5, <2>6
<1>9. ASSUME NEW r, Category!RemoveRule(r)
      PROVE  \E k \in Category!Matching(file)' :
               (\A j \in Category!Matching(file)' : k <= j) /\ rules'[k].category = id
  <2>1. rules' = Without(rules, r) /\ categories' = categories
    BY <1>9, SameWithout DEF Category!RemoveRule
  <2>2. PICK p : LeftOf(rules', p, rules, r, Len(rules)) BY <1>1, <2>1, OthersLeft
  <2>3. DOMAIN rules' = 1..Len(rules') /\ Len(rules') \in Nat BY <1>1
  <2>4. \A d : Category!HasCategory(d)' = Category!HasCategory(d)
    BY <2>1 DEF Category!HasCategory
  <2>5. PICK k \in DOMAIN rules' : rules'[k] = rules[m] BY <1>3, <1>4
  <2>6. \A j \in DOMAIN rules' : p[j] \in DOMAIN rules /\ rules'[j] = rules[p[j]]
    BY <1>2, <2>2, <2>3 DEF LeftOf
  <2>7. p[k] = m
    <3>1. rules[p[k]].id = rules[m].id /\ p[k] \in DOMAIN rules BY <2>5, <2>6
    <3>2. rules[m] \in RuleRows BY <1>1, <1>4
    <3>3. rules[m].id \in Nat BY <3>2 DEF RuleRows
    <3>4. ~(p[k] < m) /\ ~(m < p[k])
      <4>1. ~(rules[m].id < rules[m].id) BY <3>3
      <4>2. QED BY <1>1, <1>4, <3>1, <4>1 DEF Ascends
    <3>5. QED BY <1>2, <1>4, <3>1, <3>4
  <2>8. k \in Category!Matching(file)' BY <1>3, <1>4, <2>5 DEF Category!Matching
  <2>9. ASSUME NEW j \in Category!Matching(file)' PROVE k <= j
    <3>1. j \in DOMAIN rules' /\ p[j] \in Category!Matching(file)
      BY <2>4, <2>6 DEF Category!Matching
    <3>2. p[k] <= p[j] BY <1>3, <2>7, <3>1
    <3>3. p[j] \in Nat /\ p[k] \in Nat BY <1>2, <2>5, <2>6, <3>1
    <3>4. ~(p[j] < p[k]) BY <3>2, <3>3
    <3>5. ~(j < k) BY <2>2, <2>3, <2>5, <3>1, <3>4 DEF LeftOf
    <3>6. QED BY <2>3, <2>5, <3>1, <3>5
  <2>10. QED BY <1>3, <2>5, <2>8, <2>9
<1>10. CASE UNCHANGED categoryVars
  <2>1. categories' = categories /\ rules' = rules BY <1>10 DEF categoryVars
  <2>2. Category!Matching(file)' = Category!Matching(file)
    BY <2>1 DEF Category!Matching, Category!HasCategory
  <2>3. QED BY <1>3, <2>1, <2>2
<1>11. QED BY <1>6, <1>7, <1>8, <1>9, <1>10 DEF Category!Next
-----------------------------------------------------------------------------
(* ScheduleEngine. *)

ScheduleRows ==
  [id : Nat, type : {"one_time", "recurring"}, start : Scheduler!Times,
   active : BOOLEAN, quietStart : Scheduler!Times, quietEnd : Scheduler!Times]

ScheduleInv == schedules \in Seq(ScheduleRows) /\ minute \in 0..(Day - 1)

\* A schedule with an id is a row of the list.
LEMMA WithIdIs ==
  ASSUME NEW s \in Scheduler!Schedule, NEW id \in Nat
  PROVE  Scheduler!WithId(s, id) \in ScheduleRows
BY DEF Scheduler!Schedule, Scheduler!WithId, ScheduleRows

\* A new schedule is a row with the next id.
LEMMA AddScheduleKeeps ==
  ASSUME ScheduleInv, NEW s \in Scheduler!Schedule, Scheduler!AddSchedule(s)
  PROVE  ScheduleInv'
<1>1. schedules' = Append(schedules, Scheduler!WithId(s, Scheduler!NextScheduleId))
      /\ minute' = minute
  BY DEF Scheduler!AddSchedule
<1>2. schedules \in Seq(ScheduleRows) BY DEF ScheduleInv
<1>3. Scheduler!NextScheduleId \in Nat
  <2>1. CASE schedules = <<>> BY <2>1 DEF Scheduler!NextScheduleId
  <2>2. CASE schedules # <<>>
    <3>1. Len(schedules) \in DOMAIN schedules BY <1>2, <2>2
    <3>2. schedules[Len(schedules)] \in ScheduleRows BY <1>2, <3>1
    <3>3. schedules[Len(schedules)].id \in Nat BY <3>2 DEF ScheduleRows
    <3>4. QED BY <2>2, <3>3 DEF Scheduler!NextScheduleId
  <2>3. QED BY <2>1, <2>2
<1>4. Scheduler!WithId(s, Scheduler!NextScheduleId) \in ScheduleRows BY <1>3, WithIdIs
<1>5. schedules' \in Seq(ScheduleRows) BY <1>1, <1>2, <1>4
<1>6. QED BY <1>1, <1>5 DEF ScheduleInv

\* A changed one keeps its id and is a row.
LEMMA UpdateScheduleKeeps ==
  ASSUME ScheduleInv, NEW i \in DOMAIN schedules, NEW s \in Scheduler!Schedule,
         Scheduler!UpdateSchedule(i, s)
  PROVE  ScheduleInv'
<1>1. schedules \in Seq(ScheduleRows) /\ schedules[i] \in ScheduleRows BY DEF ScheduleInv
<1>2. schedules[i].id \in Nat BY <1>1 DEF ScheduleRows
<1>3. PICK row \in ScheduleRows :
        schedules' = [schedules EXCEPT ![i] = row] /\ minute' = minute
  BY <1>2, WithIdIs DEF Scheduler!UpdateSchedule
<1>4. QED BY <1>1, <1>3 DEF ScheduleInv

\* What a look at the clock makes of each schedule.
LEMMA Triggered ==
  ASSUME ScheduleInv, Scheduler!CheckAndTrigger
  PROVE  /\ schedules' \in Seq(ScheduleRows)
         /\ \A i \in DOMAIN schedules :
              schedules'[i].active =
                (IF Scheduler!ShouldRun(schedules[i]) THEN schedules[i].type = "recurring"
                 ELSE schedules[i].active)
<1>1. schedules \in Seq(ScheduleRows) BY DEF ScheduleInv
<1>2. DOMAIN schedules = 1..Len(schedules) /\ Len(schedules) \in Nat BY <1>1
<1>3. schedules' = [i \in DOMAIN schedules |->
                      IF Scheduler!ShouldRun(schedules[i])
                      THEN [schedules[i] EXCEPT !.active = schedules[i].type = "recurring"]
                      ELSE schedules[i]]
  BY DEF Scheduler!CheckAndTrigger
<1>4. ASSUME NEW i \in DOMAIN schedules
      PROVE  /\ schedules'[i] \in ScheduleRows
             /\ schedules'[i].active =
                  (IF Scheduler!ShouldRun(schedules[i]) THEN schedules[i].type = "recurring"
                   ELSE schedules[i].active)
  <2>1. schedules[i] \in ScheduleRows BY <1>1
  <2>2. PICK again \in BOOLEAN : again = (schedules[i].type = "recurring") OBVIOUS
  <2>3. /\ [schedules[i] EXCEPT !.active = again] \in ScheduleRows
        /\ [schedules[i] EXCEPT !.active = again].active = again
    BY <2>1 DEF ScheduleRows
  <2>4. schedules'[i] = IF Scheduler!ShouldRun(schedules[i])
                        THEN [schedules[i] EXCEPT !.active = again] ELSE schedules[i]
    BY <1>3, <2>2
  <2>5. CASE Scheduler!ShouldRun(schedules[i])
    <3>1. schedules'[i] = [schedules[i] EXCEPT !.active = again] BY <2>4, <2>5
    <3>2. schedules'[i] \in ScheduleRows /\ schedules'[i].active = again BY <2>3, <3>1
    <3>3. QED BY <2>2, <2>5, <3>2
  <2>6. CASE ~Scheduler!ShouldRun(schedules[i]) BY <2>1, <2>4, <2>6
  <2>7. QED BY <2>5, <2>6
<1>5. DOMAIN schedules' = 1..Len(schedules) BY <1>2, <1>3
<1>6. schedules' \in [1..Len(schedules) -> ScheduleRows] BY <1>2, <1>3, <1>4
<1>7. QED BY <1>2, <1>4, <1>6

\* A minute after a minute of the day is one of the day.
LEMMA NextMinute ==
  ASSUME NEW m \in 0..(Day - 1)
  PROVE  (m + 1) % Day \in 0..(Day - 1)
BY ScheduleAssumption

\* There are no schedules at first.
LEMMA ScheduleStarts == Scheduler!Init => ScheduleInv
BY DEF Scheduler!Init, ScheduleInv, Scheduler!Minutes

\* Each operation and the clock preserve the invariant.
LEMMA ScheduleKeeps == ScheduleInv /\ [Scheduler!Next]_scheduleVars => ScheduleInv'
<1> SUFFICES ASSUME ScheduleInv, [Scheduler!Next]_scheduleVars PROVE ScheduleInv' OBVIOUS
<1>1. ASSUME NEW i, Scheduler!RemoveSchedule(i) PROVE ScheduleInv'
  BY <1>1, SameWithout, OthersLeft DEF Scheduler!RemoveSchedule, ScheduleInv
<1>2. CASE Scheduler!CheckAndTrigger
  <2>1. minute' = minute BY <1>2 DEF Scheduler!CheckAndTrigger
  <2>2. QED BY <1>2, <2>1, Triggered DEF ScheduleInv
<1>3. CASE Scheduler!TimePasses BY <1>3, NextMinute DEF Scheduler!TimePasses, ScheduleInv
<1>4. CASE UNCHANGED scheduleVars BY <1>4 DEF scheduleVars, ScheduleInv
<1>5. QED BY <1>1, <1>2, <1>3, <1>4, AddScheduleKeeps, UpdateScheduleKeeps DEF Scheduler!Next

\* The remainder of what is at most one day too much or too little.
LEMMA DayRemainder ==
  ASSUME NEW x \in Int
  PROVE  /\ x \in 0..(Day - 1) => x % Day = x
         /\ x \in Day..(2 * Day - 1) => x % Day = x - Day
         /\ x \in (-Day)..(-1) => x % Day = x + Day
<1>1. Day \in Nat \ {0} BY ScheduleAssumption
<1>2. x \in 0..(Day - 1) => x % Day = x BY <1>1
<1>3. x \in Day..(2 * Day - 1) => x % Day = x - Day BY <1>1
<1>4. x \in (-Day)..(-1) => x % Day = x + Day BY <1>1
<1>5. QED BY <1>2, <1>3, <1>4

\* The code compares with both ends; counting minutes round the clock comes to the
\* same.
LEMMA QuietHours ==
  ASSUME NEW s \in ScheduleRows, minute \in 0..(Day - 1)
  PROVE  Scheduler!WithinQuietHours(s) <=> minute \in Scheduler!QuietMinutes(s)
<1> DEFINE from == s.quietStart
           to == s.quietEnd
<1>1. CASE from = Scheduler!NoTime \/ to = Scheduler!NoTime
  BY <1>1 DEF Scheduler!WithinQuietHours, Scheduler!QuietMinutes
<1>2. CASE ~(from = Scheduler!NoTime \/ to = Scheduler!NoTime)
  <2>1. from \in 0..(Day - 1) /\ to \in 0..(Day - 1)
    BY <1>2 DEF ScheduleRows, Scheduler!Times, Scheduler!Minutes
  <2>2. Day \in Nat \ {0} BY ScheduleAssumption
  <2>3. Scheduler!WithinQuietHours(s) <=>
          /\ from # to
          /\ IF from < to THEN minute >= from /\ minute < to ELSE minute >= from \/ minute < to
    BY <1>2 DEF Scheduler!WithinQuietHours
  <2>4. Scheduler!QuietMinutes(s) = {(from + k) % Day : k \in 0..(((to - from) % Day) - 1)}
    BY <1>2 DEF Scheduler!QuietMinutes
  <2> HIDE DEF from, to
  <2> DEFINE length == (to - from) % Day
  <2>5. length = IF from <= to THEN to - from ELSE to - from + Day
    <3>1. CASE from <= to
      <4>1. to - from \in 0..(Day - 1) BY <2>1, <2>2, <3>1
      <4>2. QED BY <3>1, <4>1, DayRemainder
    <3>2. CASE ~(from <= to)
      <4>1. to - from \in (-Day)..(-1) BY <2>1, <2>2, <3>2
      <4>2. QED BY <3>2, <4>1, DayRemainder
    <3>3. QED BY <3>1, <3>2
  <2>6. length \in Nat /\ length <= Day - 1 BY <2>1, <2>2, <2>5
  <2> HIDE DEF length
  <2>7. ASSUME NEW k \in 0..(length - 1)
        PROVE  (from + k) % Day = IF from + k < Day THEN from + k ELSE (from + k) - Day
    <3>1. from + k \in 0..(2 * Day - 1) /\ k \in Nat BY <2>1, <2>2, <2>6
    <3>2. CASE from + k < Day
      <4>1. from + k \in 0..(Day - 1) BY <2>2, <3>1, <3>2
      <4>2. QED BY <3>2, <4>1, DayRemainder
    <3>3. CASE ~(from + k < Day)
      <4>1. from + k \in Day..(2 * Day - 1) BY <2>2, <3>1, <3>3
      <4>2. \A x \in Day..(2 * Day - 1) : x % Day = x - Day BY <2>2, DayRemainder
      <4>3. (from + k) % Day = (from + k) - Day BY <4>1, <4>2, Zenon
      <4>4. QED BY <3>3, <4>3
    <3>4. QED BY <3>2, <3>3
  <2>8. ASSUME NEW k \in 0..(length - 1), minute = (from + k) % Day
        PROVE  /\ from # to
               /\ IF from < to THEN minute >= from /\ minute < to
                  ELSE minute >= from \/ minute < to
    BY <2>1, <2>2, <2>5, <2>6, <2>7, <2>8
  <2>9. ASSUME from # to,
               IF from < to THEN minute >= from /\ minute < to ELSE minute >= from \/ minute < to
        PROVE  \E k \in 0..(length - 1) : minute = (from + k) % Day
    <3>1. CASE minute >= from
      <4>1. minute - from \in 0..(length - 1) BY <2>1, <2>2, <2>5, <2>9, <3>1
      <4>2. from + (minute - from) = minute /\ minute < Day BY <2>1, <2>2
      <4>3. minute = (from + (minute - from)) % Day BY <2>7, <4>1, <4>2
      <4>4. QED BY <4>1, <4>3
    <3>2. CASE ~(minute >= from)
      <4>1. minute - from + Day \in 0..(length - 1) BY <2>1, <2>2, <2>5, <2>9, <3>2
      <4>2. from + (minute - from + Day) = minute + Day /\ ~(minute + Day < Day)
            /\ minute + Day - Day = minute
        BY <2>1, <2>2
      <4>3. PICK k \in 0..(length - 1) : k = minute - from + Day BY <4>1
      <4>4. (from + k) % Day = minute
        <5>1. ~(from + k < Day) /\ (from + k) - Day = minute
          BY <2>1, <2>2, <4>2, <4>3
        <5>2. PICK x : x = (from + k) % Day OBVIOUS
        <5>3. x = IF from + k < Day THEN from + k ELSE (from + k) - Day BY <2>7, <5>2, Zenon
        <5>4. QED BY <5>1, <5>2, <5>3, Zenon
      <4>5. QED BY <4>4
    <3>3. QED BY <3>1, <3>2
  <2>10. minute \in Scheduler!QuietMinutes(s) <=>
           \E k \in 0..(length - 1) : minute = (from + k) % Day
    BY <2>4 DEF length
  <2>11. QED BY <2>3, <2>8, <2>9, <2>10
<1>3. QED BY <1>1, <1>2

TriggerRight ==
  Scheduler!CheckAndTrigger =>
    \A i \in DOMAIN schedules :
      schedules[i].active =>
        (~schedules'[i].active <=>
           /\ schedules[i].type = "one_time"
           /\ minute \notin Scheduler!QuietMinutes(schedules[i])
           /\ minute >= schedules[i].start)

\* Exactly the one-time schedules that are due outside their quiet hours are triggered.
LEMMA InvTriggersRight == ASSUME ScheduleInv PROVE TriggerRight
<1> SUFFICES ASSUME Scheduler!CheckAndTrigger, NEW i \in DOMAIN schedules, schedules[i].active
             PROVE  ~schedules'[i].active <=>
                      /\ schedules[i].type = "one_time"
                      /\ minute \notin Scheduler!QuietMinutes(schedules[i])
                      /\ minute >= schedules[i].start
  BY DEF TriggerRight
<1>1. schedules[i] \in ScheduleRows /\ minute \in 0..(Day - 1) BY DEF ScheduleInv
<1>2. schedules'[i].active =
        (IF Scheduler!ShouldRun(schedules[i]) THEN schedules[i].type = "recurring"
         ELSE schedules[i].active)
  BY Triggered
<1>3. Scheduler!WithinQuietHours(schedules[i]) <=>
        minute \in Scheduler!QuietMinutes(schedules[i])
  BY <1>1, QuietHours
<1>4. schedules[i].start = Scheduler!NoTime => minute >= schedules[i].start
  BY <1>1 DEF Scheduler!NoTime
<1>5. Scheduler!ShouldRun(schedules[i]) <=>
        /\ minute \notin Scheduler!QuietMinutes(schedules[i])
        /\ minute >= schedules[i].start
  BY <1>3, <1>4 DEF Scheduler!ShouldRun
<1>6. schedules[i].type = "one_time" <=> ~(schedules[i].type = "recurring")
  BY <1>1 DEF ScheduleRows
<1>7. QED BY <1>2, <1>5, <1>6
-----------------------------------------------------------------------------
(* The libraries together: each step is one component's, and a component at *)
(* rest keeps its variables.                                                *)

\* A step of the composition is one of a single component and leaves the others.
LEMMA StepsOfEach ==
  [AllNext]_allVars =>
    /\ [Next]_limiterVars
    /\ [Reconnect!Next]_reconnectVars
    /\ [Manager!Next]_managerVars
    /\ [Queue!Next]_queue
    /\ [Scheduler!Next]_scheduleVars
    /\ [Category!Next]_categoryVars
    /\ [Progress!Next]_progressVars
<1> SUFFICES ASSUME [AllNext]_allVars
             PROVE  /\ [Next]_limiterVars
                    /\ [Reconnect!Next]_reconnectVars
                    /\ [Manager!Next]_managerVars
                    /\ [Queue!Next]_queue
                    /\ [Scheduler!Next]_scheduleVars
                    /\ [Category!Next]_categoryVars
                    /\ [Progress!Next]_progressVars
  OBVIOUS
<1>1. CASE LimiterStep BY <1>1 DEF LimiterStep
<1>2. CASE ReconnectStep BY <1>2 DEF ReconnectStep
<1>3. CASE ManagerStep BY <1>3 DEF ManagerStep
<1>4. CASE QueueStep BY <1>4 DEF QueueStep
<1>5. CASE SchedulerStep BY <1>5 DEF SchedulerStep
<1>6. CASE CategoryStep BY <1>6 DEF CategoryStep
<1>7. CASE ProgressStep BY <1>7 DEF ProgressStep
<1>8. CASE UNCHANGED allVars BY <1>8 DEF allVars
<1>9. QED BY <1>1, <1>2, <1>3, <1>4, <1>5, <1>6, <1>7, <1>8 DEF AllNext

\* For any delays, after n failures in a row the wait is the base delay doubled n - 1
\* times or the maximum, whatever the setters were called with (currentRetryDelay).
THEOREM DelayAlwaysDoubles == AllSpec => []DelayDoubles
<1>1. AllInit => ReconnectInv BY ReconnectStarts DEF AllInit
<1>2. ReconnectInv /\ [AllNext]_allVars => ReconnectInv' BY StepsOfEach, ReconnectKeeps
<1>3. ReconnectInv => DelayDoubles BY InvGivesDelay
<1>4. QED BY <1>1, <1>2, <1>3, PTL DEF AllSpec

\* For any number of downloads and any priorities, activeCount is the number of active
\* downloads and of those removed while active (DownloadManager).
THEOREM ActiveAlwaysAccounted == AllSpec => []ActiveAccounted
<1>1. AllInit => ManagerInv BY ManagerStarts DEF AllInit
<1>2. ManagerInv /\ [AllNext]_allVars => ManagerInv' BY StepsOfEach, ManagerKeeps
<1>3. QED BY <1>1, <1>2, InvCountsActive, PTL DEF AllSpec

\* For any number of workers, any sizes of their segments and any number of runs, a
\* completed download reports its whole size and has all its checkpoints, and no number
\* is too large until a part file or transfer is longer than its segment (runTask).
THEOREM EndedAlwaysReportsRight == AllSpec => []EndedReportsRight
<1>1. AllInit => ProgressInv BY ProgressStarts DEF AllInit
<1>2. ProgressInv /\ [AllNext]_allVars => ProgressInv' BY StepsOfEach, ProgressKeeps
<1>3. QED BY <1>1, <1>2, InvReportsRight, PTL DEF AllSpec

\* For a day of any length, a look at the clock retires an active schedule exactly if
\* it is a one-time one, its start has come, and the clock is outside its quiet hours
\* as counted off round the clock (checkAndTrigger, withinQuietHours).
THEOREM QuietHoursAlwaysKept == AllSpec => QuietHoursKept
<1>1. AllInit => ScheduleInv BY ScheduleStarts DEF AllInit
<1>2. ScheduleInv /\ [AllNext]_allVars => ScheduleInv' BY StepsOfEach, ScheduleKeeps
<1>3. ScheduleInv => TriggerRight BY InvTriggersRight
<1>4. QED
  BY <1>1, <1>2, <1>3, PTL DEF AllSpec, QuietHoursKept, Scheduler!QuietHoursKept, TriggerRight

\* For any ids, priorities and files: the queue stays sorted, ids ascend along the
\* lists of categories and of rules, and a file keeps its category until that or a
\* rule for it goes, or a category is added (QueueManager, CategoryEngine).
THEOREM ListsAlwaysKept == AllSpec => ListsKept
<1>1. AllInit => QueueInv /\ CategoryInv BY QueueStarts, CategoryStarts DEF AllInit
<1>2. QueueInv /\ [AllNext]_allVars => QueueInv' BY StepsOfEach, QueueKeeps
<1>3. CategoryInv /\ [AllNext]_allVars => CategoryInv' BY StepsOfEach, CategoryKeeps
<1>4. QueueInv /\ CategoryInv => Queue!HighestFirst /\ Category!IdsAscend
  BY DEF QueueInv, CategoryInv, Ascends, Category!IdsAscend
<1>5. CategoryInv /\ CategoryInv' /\ [AllNext]_allVars =>
        \A file \in SomeFiles, id \in 1..MaxCategoryId : DecisionKept(file, id)
  BY StepsOfEach, StepKeepsDecision
<1>6. QED
  BY <1>1, <1>2, <1>3, <1>4, <1>5, PTL
     DEF AllSpec, ListsKept, Category!DecisionsKept, DecisionKept
=============================================================================
