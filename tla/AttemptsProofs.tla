--------------------------- MODULE AttemptsProofs ---------------------------
(***************************************************************************)
(* Proofs about Attempts, for every configuration: the delays a strategy   *)
(* may choose, and that the attempts keep to it.                           *)
(***************************************************************************)
EXTENDS Attempts, WellFoundedInduction, TLAPS

-----------------------------------------------------------------------------
(* Arithmetic.                                                             *)

\* The smaller of two delays.
LEMMA MinOfTwo ==
  ASSUME NEW a \in Int, NEW b \in Int
  PROVE  Min({a, b}) = IF a <= b THEN a ELSE b
<1>1. \E x \in {a, b} : \A y \in {a, b} : x <= y
  OBVIOUS
<1>2. Min({a, b}) \in {a, b} /\ \A y \in {a, b} : Min({a, b}) <= y
  BY <1>1 DEF Min
<1>. QED
  BY <1>2

\* The larger of two delays.
LEMMA MaxOfTwo ==
  ASSUME NEW a \in Int, NEW b \in Int
  PROVE  Max({a, b}) = IF a >= b THEN a ELSE b
<1>1. \E x \in {a, b} : \A y \in {a, b} : x >= y
  OBVIOUS
<1>2. Max({a, b}) \in {a, b} /\ \A y \in {a, b} : Max({a, b}) >= y
  BY <1>1 DEF Max
<1>. QED
  BY <1>2

\* A quotient is the last multiple that fits.
LEMMA Quotient ==
  ASSUME NEW x \in Nat, NEW m \in Nat \ {0}
  PROVE  /\ x \div m \in Nat
         /\ m * (x \div m) <= x
         /\ x < m * (x \div m) + m
<1>1. x \div m \in Int /\ x % m \in 0 .. m - 1
  BY Z3
<1>2. x = m * (x \div m) + (x % m)
  BY Z3
<1>3. m * (x \div m) <= x /\ x < m * (x \div m) + m
  BY <1>1, <1>2
<1>4. x \div m >= 0
  BY <1>1, Z3
<1>. QED
  BY <1>1, <1>3, <1>4

\* A product does not shrink when a factor grows.
LEMMA ProductGrows ==
  ASSUME NEW x \in Nat, NEW y \in Nat, NEW k \in Nat, x <= y
  PROVE  k * x <= k * y /\ k * x \in Nat /\ k * y \in Nat
BY Z3

\* Multiplying by a fraction of at least one does not shrink a delay.
LEMMA FractionGrows ==
  ASSUME NEW x \in Nat, NEW n \in Nat, NEW m \in Nat \ {0}, m <= n
  PROVE  x <= (x * n) \div m
<1>. DEFINE q == (x * n) \div m
<1>1. x * n \in Nat /\ x * m \in Nat /\ x * m <= x * n
  BY ProductGrows
<1>2. q \in Nat /\ x * n < m * q + m
  BY <1>1, Quotient
<1>. HIDE DEF q
<1>3. x * m < m * (q + 1)
  BY <1>1, <1>2, Z3
<1>4. ~(q + 1 <= x)
  <2>. SUFFICES ASSUME q + 1 <= x PROVE FALSE
    OBVIOUS
  <2>1. m * (q + 1) <= m * x
    BY <1>2, ProductGrows
  <2>2. m * x = x * m
    OBVIOUS
  <2>3. m * (q + 1) \in Nat /\ m * x \in Nat
    BY <1>2, ProductGrows
  <2>. QED
    BY <1>3, <2>1, <2>2, <2>3
<1>5. x <= q
  BY <1>2, <1>4
<1>. QED
  BY <1>5 DEF q

-----------------------------------------------------------------------------
(* The delay that grows by a rate.                                         *)

\* The next delay, and the delays of the first n attempts.
Grown(c, x) == Min({c.initialDelay + c.maxDelay, (x * c.backoffRate[1]) \div c.backoffRate[2]})
Growth(c, n, d) ==
  d = [k \in 1 .. n |-> IF k = 1 THEN c.initialDelay ELSE Grown(c, d[k - 1])]

\* There are such delays for every number of attempts.
LEMMA GrowthExists ==
  ASSUME NEW c, NEW n \in Nat
  PROVE  \E d : Growth(c, n, d)
<1>. DEFINE T == {k \in Nat : ~ \E d : Growth(c, k, d)}
<1>. SUFFICES ASSUME T # {} PROVE FALSE
  OBVIOUS
<1>1. PICK t \in T : \A y \in T : ~(<<y, t>> \in OpToRel(<, Nat))
  BY NatLessThanWellFounded, WFMin
<1>2. CASE t = 0
  <2>. DEFINE d == [k \in 1 .. 0 |-> 0]
  <2>1. d = [k \in 1 .. 0 |-> IF k = 1 THEN c.initialDelay ELSE Grown(c, d[k - 1])]
    OBVIOUS
  <2>2. Growth(c, 0, d)
    BY <2>1 DEF Growth
  <2>. QED
    BY <1>1, <1>2, <2>2
<1>3. CASE t # 0
  <2>1. t - 1 \in Nat /\ t - 1 < t
    BY <1>3
  <2>2. t - 1 \notin T
    BY <1>1, <2>1 DEF OpToRel
  <2>3. PICK d : Growth(c, t - 1, d)
    BY <2>1, <2>2
  <2>. DEFINE e == [k \in 1 .. t |-> IF k <= t - 1 THEN d[k]
                                     ELSE IF k = 1 THEN c.initialDelay ELSE Grown(c, d[k - 1])]
  <2>4. \A k \in 1 .. t : e[k] = IF k = 1 THEN c.initialDelay ELSE Grown(c, e[k - 1])
    <3>. SUFFICES ASSUME NEW k \in 1 .. t
                  PROVE  e[k] = IF k = 1 THEN c.initialDelay ELSE Grown(c, e[k - 1])
      OBVIOUS
    <3>1. k # 1 => k - 1 \in 1 .. t - 1 /\ e[k - 1] = d[k - 1]
      OBVIOUS
    <3>2. k \in 1 .. t - 1 => d[k] = IF k = 1 THEN c.initialDelay ELSE Grown(c, d[k - 1])
      BY <2>3 DEF Growth
    <3>3. e[k] = IF k = 1 THEN c.initialDelay ELSE Grown(c, d[k - 1])
      BY <3>2
    <3>. HIDE DEF e
    <3>. QED
      BY <3>1, <3>3
  <2>5. e = [k \in 1 .. t |-> IF k = 1 THEN c.initialDelay ELSE Grown(c, e[k - 1])]
    <3>1. DOMAIN e = 1 .. t /\ e = [k \in DOMAIN e |-> e[k]]
      OBVIOUS
    <3>. HIDE DEF e
    <3>. QED
      BY <2>4, <3>1
  <2>. HIDE DEF e
  <2>. QED
    BY <1>1, <2>5 DEF Growth
<1>. QED
  BY <1>2, <1>3

\* Two such sequences agree wherever both are defined.
LEMMA GrowthAgrees ==
  ASSUME NEW c, NEW n \in Nat, NEW d, Growth(c, n, d), NEW m \in Nat, NEW e, Growth(c, m, e),
         NEW k \in 1 .. n, k \in 1 .. m
  PROVE  d[k] = e[k]
<1>. DEFINE T == {i \in Nat : i \in 1 .. n /\ i \in 1 .. m /\ d[i] # e[i]}
<1>. SUFFICES ASSUME T # {} PROVE FALSE
  OBVIOUS
<1>1. PICK t \in T : \A y \in T : ~(<<y, t>> \in OpToRel(<, Nat))
  BY NatLessThanWellFounded, WFMin
<1>2. /\ d[t] = IF t = 1 THEN c.initialDelay ELSE Grown(c, d[t - 1])
      /\ e[t] = IF t = 1 THEN c.initialDelay ELSE Grown(c, e[t - 1])
  BY <1>1 DEF Growth
<1>3. t # 1
  BY <1>1, <1>2
<1>4. t - 1 \in Nat /\ t - 1 < t /\ t - 1 \in 1 .. n /\ t - 1 \in 1 .. m
  <2>1. t \in Nat /\ 1 <= t /\ t <= n /\ t <= m
    BY <1>1 DEF OpToRel
  <2>. QED
    BY <1>3, <2>1
<1>5. d[t - 1] = e[t - 1]
  BY <1>1, <1>4 DEF OpToRel
<1>. QED
  BY <1>1, <1>2, <1>5

\* Scaled, attempt by attempt.
LEMMA ScaledStep ==
  ASSUME NEW c
  PROVE  /\ Scaled(c, 1) = c.initialDelay
         /\ \A a \in Nat \ {0} : Scaled(c, a + 1) = Grown(c, Scaled(c, a))
<1>. DEFINE D(n) == CHOOSE d : d = [k \in 1 .. n |-> IF k = 1 THEN c.initialDelay
                        ELSE Min({c.initialDelay + c.maxDelay,
                                  (d[k - 1] * c.backoffRate[1]) \div c.backoffRate[2]})]
<1>1. ASSUME NEW n \in Nat PROVE Growth(c, n, D(n))
  BY GrowthExists DEF Growth, Grown
<1>2. \A n : Scaled(c, n) = D(n)[n]
  BY DEF Scaled
<1>. HIDE DEF D
<1>3. Scaled(c, 1) = c.initialDelay
  <2>1. D(1)[1] = c.initialDelay
    BY <1>1 DEF Growth
  <2>. QED
    BY <1>2, <2>1
<1>4. ASSUME NEW a \in Nat \ {0} PROVE Scaled(c, a + 1) = Grown(c, Scaled(c, a))
  <2>1. D(a + 1)[a + 1] = Grown(c, D(a + 1)[a])
    BY <1>1 DEF Growth
  <2>2. D(a + 1)[a] = D(a)[a]
    BY <1>1, GrowthAgrees
  <2>. QED
    BY <1>2, <2>1, <2>2
<1>. QED
  BY <1>3, <1>4

-----------------------------------------------------------------------------
(* The delays of a strategy.                                               *)

\* What construction makes of a valid configuration.
Constructed(s) ==
  /\ s.initialDelay \in Nat /\ s.maxDelay \in Nat /\ s.maxDelay >= Second
  /\ IF s.kind = "linear" THEN s.increment \in Nat ELSE s.backoffRate \in Nat \X (Nat \ {0})

\* A valid configuration has usable delays once its defaults are filled in, and
\* keeps the ones it sets.
LEMMA StrategyFilled ==
  ASSUME NEW c, Configuration(c), Valid(c), c.kind # "own"
  PROVE  /\ Constructed(Strategy(c)) /\ Strategy(c).kind = c.kind
         /\ Strategy(c).maxDelay = IF c.maxDelay = 0 THEN 300 * Second ELSE c.maxDelay
         /\ Strategy(c).maxAttempts = IF c.maxAttempts # 0 THEN c.maxAttempts
                                      ELSE CASE c.kind = "exponential" -> 3 [] c.kind = "linear" -> 6 [] OTHER -> 60
         /\ (c.kind # "linear" /\ ~(c.backoffRate # Unset /\ c.backoffRate[1] < c.backoffRate[2]))
              => Strategy(c).backoffRate[2] <= Strategy(c).backoffRate[1]
<1>1. DOMAIN c = {"kind", "maxAttempts", "initialDelay", "maxDelay", "backoffRate", "increment",
                  "jitter", "retryable"}
  BY DEF Configuration, NoRetry, OwnStrategy, Config
<1>2. /\ c.kind \in {"exponential", "linear", "wait"}
      /\ c.maxAttempts \in Int /\ c.initialDelay \in Int /\ c.maxDelay \in Int /\ c.increment \in Int
      /\ c.backoffRate \in Int \X (Nat \ {0})
  BY DEF Configuration
<1>3. CASE c.kind = "exponential"
  <2>1. Strategy(c) = newRetryStrategy(c)
    BY <1>3 DEF Strategy
  <2>2. /\ Strategy(c).kind = c.kind
        /\ Strategy(c).maxAttempts = OrElse(c.maxAttempts, 0, 3)
        /\ Strategy(c).initialDelay = OrElse(c.initialDelay, 0, 5 * Second)
        /\ Strategy(c).maxDelay = OrElse(c.maxDelay, 0, 5 * Minute)
        /\ Strategy(c).backoffRate = OrElse(c.backoffRate, Unset, <<2, 1>>)
        /\ Strategy(c).increment = c.increment
    BY <1>1, <2>1 DEF newRetryStrategy
  <2>3. /\ AtLeastOneSecondWhenSet(c.initialDelay) /\ AtLeastOneSecondWhenSet(c.maxDelay)
        /\ c.backoffRate[1] >= 0
    BY <1>3 DEF Valid, validateRetryConfig
  <2>4. /\ Strategy(c).backoffRate \in Nat \X (Nat \ {0})
        /\ ~(c.backoffRate # Unset /\ c.backoffRate[1] < c.backoffRate[2])
             => Strategy(c).backoffRate[2] <= Strategy(c).backoffRate[1]
    <3>1. CASE c.backoffRate = Unset
      BY <2>2, <3>1 DEF OrElse
    <3>2. CASE c.backoffRate # Unset
      BY <1>2, <2>2, <2>3, <3>2 DEF OrElse
    <3>. QED
      BY <3>1, <3>2
  <2>. QED
    BY <1>1, <1>2, <1>3, <2>2, <2>3, <2>4 DEF OrElse, Constructed, AtLeastOneSecondWhenSet, Second, Minute
<1>4. CASE c.kind = "linear"
  <2>1. Strategy(c) = newLinearRetryStrategy(c)
    BY <1>4 DEF Strategy
  <2>2. /\ Strategy(c).kind = c.kind
        /\ Strategy(c).maxAttempts = OrElse(c.maxAttempts, 0, 6)
        /\ Strategy(c).initialDelay = OrElse(c.initialDelay, 0, Second)
        /\ Strategy(c).maxDelay = OrElse(c.maxDelay, 0, 5 * Minute)
        /\ Strategy(c).backoffRate = c.backoffRate
        /\ Strategy(c).increment = OrElse(c.increment, 0, Second)
    BY <1>1, <2>1 DEF newLinearRetryStrategy
  <2>3. /\ AtLeastOneSecondWhenSet(c.initialDelay) /\ AtLeastOneSecondWhenSet(c.maxDelay)
        /\ c.increment >= 0
    BY <1>4 DEF Valid, validateLinearRetryConfig
  <2>. QED
    BY <1>1, <1>2, <1>4, <2>2, <2>3 DEF OrElse, Constructed, AtLeastOneSecondWhenSet, Second, Minute
<1>5. CASE c.kind = "wait"
  <2>1. Strategy(c) = newWaitStrategy(c)
    BY <1>5 DEF Strategy
  <2>2. /\ Strategy(c).kind = c.kind
        /\ Strategy(c).maxAttempts = OrElse(c.maxAttempts, 0, 60)
        /\ Strategy(c).initialDelay = OrElse(c.initialDelay, 0, 5 * Second)
        /\ Strategy(c).maxDelay = OrElse(c.maxDelay, 0, 5 * Minute)
        /\ Strategy(c).backoffRate = OrElse(c.backoffRate, Unset, <<3, 2>>)
        /\ Strategy(c).increment = c.increment
    BY <1>1, <2>1 DEF newWaitStrategy
  <2>3. /\ AtLeastOneSecondWhenSet(c.initialDelay) /\ AtLeastOneSecondWhenSet(c.maxDelay)
        /\ c.backoffRate[1] >= 0
    BY <1>5 DEF Valid, validateWaitConfig, validateRetryConfig
  <2>4. /\ Strategy(c).backoffRate \in Nat \X (Nat \ {0})
        /\ ~(c.backoffRate # Unset /\ c.backoffRate[1] < c.backoffRate[2])
             => Strategy(c).backoffRate[2] <= Strategy(c).backoffRate[1]
    <3>1. CASE c.backoffRate = Unset
      BY <2>2, <3>1 DEF OrElse
    <3>2. CASE c.backoffRate # Unset
      BY <1>2, <2>2, <2>3, <3>2 DEF OrElse
    <3>. QED
      BY <3>1, <3>2
  <2>. QED
    BY <1>1, <1>2, <1>5, <2>2, <2>3, <2>4 DEF OrElse, Constructed, AtLeastOneSecondWhenSet, Second, Minute
<1>. QED
  BY <1>2, <1>3, <1>4, <1>5

\* The delay that grows stays a delay, and below the sum of both bounds.
LEMMA ScaledRange ==
  ASSUME NEW s, Constructed(s), s.kind # "linear", NEW a \in Nat \ {0}
  PROVE  Scaled(s, a) \in 0 .. s.initialDelay + s.maxDelay
<1>. DEFINE T == {k \in Nat : k # 0 /\ Scaled(s, k) \notin 0 .. s.initialDelay + s.maxDelay}
<1>. SUFFICES ASSUME T # {} PROVE FALSE
  OBVIOUS
<1>1. PICK t \in T : \A y \in T : ~(<<y, t>> \in OpToRel(<, Nat))
  BY NatLessThanWellFounded, WFMin
<1>2. t # 1
  BY <1>1, ScaledStep DEF Constructed, OpToRel
<1>3. t - 1 \in Nat \ {0} /\ t - 1 < t /\ t = (t - 1) + 1
  BY <1>1, <1>2 DEF OpToRel
<1>4. Scaled(s, t - 1) \in 0 .. s.initialDelay + s.maxDelay
  BY <1>1, <1>3 DEF OpToRel
<1>5. Scaled(s, t) = Grown(s, Scaled(s, t - 1))
  BY <1>3, ScaledStep
<1>. DEFINE x == Scaled(s, t - 1)
            q == (x * s.backoffRate[1]) \div s.backoffRate[2]
<1>6. q \in Nat
  <2>1. x \in Nat /\ s.backoffRate[1] \in Nat /\ s.backoffRate[2] \in Nat \ {0}
    BY <1>4 DEF Constructed
  <2>2. x * s.backoffRate[1] \in Nat
    BY <2>1, ProductGrows
  <2>. QED
    BY <2>1, <2>2, Quotient
<1>7. Grown(s, x) \in 0 .. s.initialDelay + s.maxDelay
  <2>1. Grown(s, x) = Min({s.initialDelay + s.maxDelay, q})
    BY DEF Grown
  <2>. HIDE DEF q
  <2>2. s.initialDelay + s.maxDelay \in Nat
    BY DEF Constructed
  <2>. QED
    BY <1>6, <2>1, <2>2, MinOfTwo
<1>. QED
  BY <1>1, <1>5, <1>7

\* A delay before jitter is positive or zero and never above MaxDelay.
LEMMA BaseRange ==
  ASSUME NEW s, Constructed(s), NEW a \in Nat \ {0}
  PROVE  Base(s, a) \in 0 .. s.maxDelay
<1>. DEFINE raw == IF s.kind = "linear" THEN s.initialDelay + s.increment * (a - 1) ELSE Scaled(s, a)
<1>1. raw \in Nat
  <2>1. s.kind = "linear" => s.increment * (a - 1) \in Nat
    BY ProductGrows DEF Constructed
  <2>. QED
    BY <2>1, ScaledRange DEF Constructed
<1>2. Base(s, a) = Min({raw, s.maxDelay})
  BY DEF Base
<1>. HIDE DEF raw
<1>. QED
  BY <1>1, <1>2, MinOfTwo DEF Constructed

\* Without a rate below one no attempt waits less than the one before it.
LEMMA BaseGrows ==
  ASSUME NEW s, Constructed(s), NEW a \in Nat \ {0},
         s.kind # "linear" => s.backoffRate[2] <= s.backoffRate[1]
  PROVE  Base(s, a) <= Base(s, a + 1)
<1>. DEFINE Raw(k) == IF s.kind = "linear" THEN s.initialDelay + s.increment * (k - 1) ELSE Scaled(s, k)
<1>1. Raw(a) \in Nat /\ Raw(a + 1) \in Nat /\ Raw(a) <= Raw(a + 1)
  <2>1. CASE s.kind = "linear"
    <3>1. /\ s.increment * (a - 1) \in Nat /\ s.increment * ((a + 1) - 1) \in Nat
          /\ s.increment * (a - 1) <= s.increment * ((a + 1) - 1)
      BY <2>1, ProductGrows DEF Constructed
    <3>. QED
      BY <2>1, <3>1 DEF Constructed
  <2>2. CASE s.kind # "linear"
    <3>. DEFINE x == Scaled(s, a)
                q == (x * s.backoffRate[1]) \div s.backoffRate[2]
    <3>1. x \in 0 .. s.initialDelay + s.maxDelay /\ Scaled(s, a + 1) \in 0 .. s.initialDelay + s.maxDelay
      BY <2>2, ScaledRange
    <3>2. x \in Nat /\ s.backoffRate[1] \in Nat /\ s.backoffRate[2] \in Nat \ {0}
      BY <2>2, <3>1 DEF Constructed
    <3>3. x <= q
      BY <2>2, <3>2, FractionGrows
    <3>4. q \in Nat
      <4>1. x * s.backoffRate[1] \in Nat
        BY <3>2, ProductGrows
      <4>. QED
        BY <3>2, <4>1, Quotient
    <3>5. Scaled(s, a + 1) = Min({s.initialDelay + s.maxDelay, q})
      BY ScaledStep DEF Grown
    <3>. HIDE DEF q
    <3>6. x <= Scaled(s, a + 1)
      BY <3>1, <3>3, <3>4, <3>5, MinOfTwo DEF Constructed
    <3>. QED
      BY <2>2, <3>1, <3>6 DEF Constructed
  <2>. QED
    BY <2>1, <2>2
<1>2. Base(s, a) = Min({Raw(a), s.maxDelay}) /\ Base(s, a + 1) = Min({Raw(a + 1), s.maxDelay})
  BY DEF Base
<1>. HIDE DEF Raw
<1>. QED
  BY <1>1, <1>2, MinOfTwo DEF Constructed

\* A share of a delay is no longer than it.
LEMMA Share ==
  ASSUME NEW x \in Nat, NEW k \in 0 .. JitterDraws - 1
  PROVE  (x * k) \div JitterDraws \in 0 .. x
<1>. DEFINE q == (x * k) \div JitterDraws
<1>1. JitterDraws \in Nat \ {0} /\ k \in Nat /\ k < JitterDraws
  BY DelaysAssumption
<1>2. x * k \in Nat /\ x * JitterDraws \in Nat /\ x * k <= x * JitterDraws
  BY <1>1, ProductGrows
<1>3. q \in Nat /\ JitterDraws * q <= x * k
  BY <1>1, <1>2, Quotient
<1>. HIDE DEF q
<1>4. ~(x + 1 <= q)
  <2>. SUFFICES ASSUME x + 1 <= q PROVE FALSE
    OBVIOUS
  <2>1. JitterDraws * (x + 1) <= JitterDraws * q /\ JitterDraws * q \in Nat
    BY <1>1, <1>3, ProductGrows
  <2>2. JitterDraws * (x + 1) = x * JitterDraws + JitterDraws
    BY <1>1, Z3
  <2>. QED
    BY <1>1, <1>2, <1>3, <2>1, <2>2
<1>5. q \in 0 .. x
  BY <1>3, <1>4
<1>. QED
  BY <1>5 DEF q

\* Jitter only ever shortens a delay.
LEMMA JitterShortens ==
  ASSUME NEW ms \in Nat, NEW jitter, NEW x \in Jittered(ms, jitter)
  PROVE  x \in 0 .. ms /\ (jitter = "NONE" => x = ms)
<1>1. CASE jitter = "FULL"
  <2>1. PICK k \in 0 .. JitterDraws - 1 : x = (ms * k) \div JitterDraws
    BY <1>1 DEF Jittered
  <2>. QED
    BY <1>1, <2>1, Share
<1>2. CASE jitter = "HALF"
  <2>. DEFINE h == ms \div 2
  <2>1. h \in Nat /\ h + h <= ms
    OBVIOUS
  <2>2. PICK k \in 0 .. JitterDraws - 1 : x = h + (h * k) \div JitterDraws
    BY <1>2 DEF Jittered
  <2>. HIDE DEF h
  <2>3. (h * k) \div JitterDraws \in 0 .. h
    BY <2>1, Share
  <2>. QED
    BY <1>2, <2>1, <2>2, <2>3
<1>3. CASE jitter \notin {"FULL", "HALF"}
  BY <1>3 DEF Jittered
<1>. QED
  BY <1>1, <1>2, <1>3

\* Rounding keeps the order of two delays.
LEMMA RoundingOrdered ==
  ASSUME NEW x \in Nat, NEW y \in Nat, x <= y
  PROVE  RoundedSeconds(x) \in Nat /\ RoundedSeconds(x) <= RoundedSeconds(y)
BY DEF RoundedSeconds, Second

\* A strategy's delay is a whole number of seconds, at least one and at most what
\* the delay before jitter rounds to, and just that without jitter.
LEMMA FinalDelays ==
  ASSUME NEW ms \in Nat, NEW jitter, NEW d \in finalizeDelay(ms, jitter)
  PROVE  \E k \in 1 .. Max({1, RoundedSeconds(ms)}) :
           d = Second * k /\ (jitter = "NONE" => k = Max({1, RoundedSeconds(ms)}))
<1>1. PICK x \in Jittered(ms, jitter) : d = Second * Max({1, RoundedSeconds(x)})
  BY DEF finalizeDelay
<1>2. x \in 0 .. ms /\ (jitter = "NONE" => x = ms)
  BY JitterShortens
<1>3. RoundedSeconds(x) \in Nat /\ RoundedSeconds(ms) \in Nat /\ RoundedSeconds(x) <= RoundedSeconds(ms)
  BY <1>2, RoundingOrdered
<1>4. /\ Max({1, RoundedSeconds(x)}) = IF 1 >= RoundedSeconds(x) THEN 1 ELSE RoundedSeconds(x)
      /\ Max({1, RoundedSeconds(ms)}) = IF 1 >= RoundedSeconds(ms) THEN 1 ELSE RoundedSeconds(ms)
  BY <1>3, MaxOfTwo
<1>. DEFINE k == Max({1, RoundedSeconds(x)})
<1>5. k \in 1 .. Max({1, RoundedSeconds(ms)}) /\ (jitter = "NONE" => k = Max({1, RoundedSeconds(ms)}))
  BY <1>2, <1>3, <1>4
<1>. QED
  BY <1>1, <1>5

\* Whole seconds are recorded as they are, or refused.
LEMMA WholeSeconds ==
  ASSUME NEW k \in Nat \ {0}
  PROVE  recordedDelay(Second * k) = IF k > MaxSeconds THEN OutOfRange ELSE k
<1>1. Second * k > 0 /\ (Second * k + Second - 1) \div Second = k
  BY DEF Second
<1>2. durationToSeconds(Second * k) = IF k > MaxSeconds THEN OutOfRange ELSE k
  BY <1>1 DEF durationToSeconds, Second
<1>3. OrElse(Second * k, 0, DefaultRetryDelay) = Second * k
  BY <1>1 DEF OrElse, Second
<1>4. OrElse(durationToSeconds(Second * k), 0, 1) = durationToSeconds(Second * k)
  BY <1>2 DEF OrElse, OutOfRange
<1>. QED
  BY <1>2, <1>3, <1>4 DEF recordedDelay

\* The handler's own strategy records the same delay every time.
LEMMA OwnDelay ==
  ASSUME Configuration(cfg), cfg.kind = "own", NEW a, NEW ms \in Delays(Strategy(cfg), a),
         recordedDelay(ms) # OutOfRange
  PROVE  /\ ms = cfg.initialDelay
         /\ recordedDelay(ms) \in 1 .. MaxSeconds /\ recordedDelay(ms) <= Ceiling
<1>1. ms = cfg.initialDelay /\ ms \in Int
  BY DEF Delays, Strategy, Configuration
<1>2. MaxSeconds \in Nat \ {0}
  BY DelaysAssumption
<1>. DEFINE sec == (ms + Second - 1) \div Second
<1>3. sec \in Int /\ (ms >= 0 => sec >= 0) /\ (ms > 0 => sec >= 1) /\ (ms = 0 => sec = 0)
  BY <1>1 DEF Second
<1>4. durationToSeconds(ms) = IF ms < 0 \/ sec > MaxSeconds THEN OutOfRange ELSE sec
  BY DEF durationToSeconds
<1>5. durationToSeconds(DefaultRetryDelay) = 1
  BY <1>2 DEF durationToSeconds, DefaultRetryDelay, Second, OutOfRange
<1>. HIDE DEF sec
<1>6. recordedDelay(ms) = IF ms = 0 THEN 1 ELSE durationToSeconds(ms)
  <2>1. CASE ms = 0
    BY <1>2, <1>3, <1>4, <1>5, <2>1 DEF recordedDelay, OrElse
  <2>2. CASE ms # 0
    <3>1. durationToSeconds(ms) # 0
      BY <1>1, <1>3, <1>4, <2>2 DEF OutOfRange
    <3>. QED
      BY <2>2, <3>1 DEF recordedDelay, OrElse
  <2>. QED
    BY <2>1, <2>2
<1>7. durationToSeconds(ms) \in Int /\ Ceiling = Max({1, durationToSeconds(ms)})
  BY <1>1, <1>3, <1>4 DEF Ceiling, OutOfRange
<1>8. 1 <= Ceiling /\ durationToSeconds(ms) <= Ceiling /\ Ceiling \in Int
  BY <1>7, MaxOfTwo
<1>9. recordedDelay(ms) \in 1 .. MaxSeconds
  BY <1>1, <1>2, <1>3, <1>4, <1>6 DEF OutOfRange
<1>. QED
  BY <1>1, <1>6, <1>8, <1>9

\* A constructed strategy records at most what its base delay rounds to, and just
\* that without jitter.
LEMMA ConstructedDelay ==
  ASSUME Configuration(cfg), Valid(cfg), cfg.kind # "own", NEW a \in Nat \ {0},
         NEW ms \in Delays(Strategy(cfg), a), recordedDelay(ms) # OutOfRange
  PROVE  LET top == Max({1, RoundedSeconds(Base(Strategy(cfg), a))}) IN
         /\ recordedDelay(ms) \in 1 .. MaxSeconds /\ recordedDelay(ms) \in 1 .. top
         /\ Strategy(cfg).jitter = "NONE" => recordedDelay(ms) = top
<1>. DEFINE s == Strategy(cfg)
            base == Base(s, a)
<1>1. Constructed(s) /\ s.kind # "own"
  BY StrategyFilled
<1>2. base \in Nat
  BY <1>1, BaseRange DEF Constructed
<1>3. ms \in finalizeDelay(base, s.jitter)
  BY <1>1 DEF Delays
<1>. HIDE DEF s, base
<1>4. PICK k \in 1 .. Max({1, RoundedSeconds(base)}) :
        ms = Second * k /\ (s.jitter = "NONE" => k = Max({1, RoundedSeconds(base)}))
  BY <1>2, <1>3, FinalDelays
<1>5. k \in Nat \ {0} /\ MaxSeconds \in Nat
  BY DelaysAssumption
<1>6. recordedDelay(ms) = k /\ k <= MaxSeconds
  BY <1>4, <1>5, WholeSeconds
<1>7. k \in 1 .. MaxSeconds
  BY <1>5, <1>6
<1>. QED
  BY <1>4, <1>6, <1>7 DEF s, base

\* What is recorded is at least a second, fits the wire and keeps to the ceiling.
LEMMA DelayAllowed ==
  ASSUME Configuration(cfg), Valid(cfg), NEW a \in Nat \ {0},
         NEW ms \in Delays(Strategy(cfg), a), recordedDelay(ms) # OutOfRange
  PROVE  recordedDelay(ms) \in 1 .. MaxSeconds /\ recordedDelay(ms) <= Ceiling
<1>1. CASE cfg.kind = "own"
  BY <1>1, OwnDelay
<1>2. CASE cfg.kind # "own"
  <2>. DEFINE base == Base(Strategy(cfg), a)
              most == Strategy(cfg).maxDelay
  <2>1. Constructed(Strategy(cfg)) /\ most = IF cfg.maxDelay = 0 THEN 300 * Second ELSE cfg.maxDelay
    BY <1>2, StrategyFilled
  <2>2. base \in Nat /\ most \in Nat /\ base <= most /\ most >= Second
    BY <2>1, BaseRange DEF Constructed
  <2>3. recordedDelay(ms) \in 1 .. MaxSeconds /\ recordedDelay(ms) \in 1 .. Max({1, RoundedSeconds(base)})
    BY <1>2, ConstructedDelay
  <2>. HIDE DEF base
  <2>4. Ceiling = RoundedSeconds(most)
    <3>1. CASE cfg.maxDelay = 0
      BY <1>2, <2>1, <3>1 DEF Ceiling, RoundedSeconds, Second
    <3>2. CASE cfg.maxDelay # 0
      BY <1>2, <2>1, <3>2 DEF Ceiling
    <3>. QED
      BY <3>1, <3>2
  <2>. HIDE DEF most
  <2>5. /\ RoundedSeconds(base) \in Nat /\ RoundedSeconds(most) \in Nat
        /\ RoundedSeconds(base) <= RoundedSeconds(most)
    BY <2>2, RoundingOrdered
  <2>6. RoundedSeconds(most) >= 1
    BY <2>2 DEF RoundedSeconds, Second
  <2>7. Max({1, RoundedSeconds(base)}) <= RoundedSeconds(most) /\ Max({1, RoundedSeconds(base)}) \in Nat
    BY <2>5, <2>6, MaxOfTwo
  <2>. QED
    BY <2>3, <2>4, <2>5, <2>7, DelaysAssumption
<1>. QED
  BY <1>1, <1>2

\* Without jitter and without a rate below one a recorded delay is no shorter than
\* the one before it.
LEMMA DelayGrows ==
  ASSUME Configuration(cfg), Valid(cfg), Strategy(cfg).jitter = "NONE", ~Shrinks, NEW a \in Nat \ {0},
         NEW x \in Delays(Strategy(cfg), a), recordedDelay(x) # OutOfRange,
         NEW y \in Delays(Strategy(cfg), a + 1), recordedDelay(y) # OutOfRange
  PROVE  recordedDelay(x) <= recordedDelay(y)
<1>1. CASE cfg.kind = "own"
  <2>1. x = y /\ recordedDelay(x) \in 1 .. MaxSeconds
    BY <1>1, OwnDelay
  <2>. QED
    BY <2>1, DelaysAssumption
<1>2. CASE cfg.kind # "own"
  <2>. DEFINE before == Base(Strategy(cfg), a)
              after == Base(Strategy(cfg), a + 1)
  <2>1. /\ Constructed(Strategy(cfg))
        /\ Strategy(cfg).kind # "linear" => Strategy(cfg).backoffRate[2] <= Strategy(cfg).backoffRate[1]
    BY <1>2, StrategyFilled DEF Shrinks
  <2>2. before \in Nat /\ after \in Nat
    BY <2>1, BaseRange DEF Constructed
  <2>3. before <= after
    BY <2>1, BaseGrows
  <2>4. /\ recordedDelay(x) = Max({1, RoundedSeconds(before)})
        /\ recordedDelay(y) = Max({1, RoundedSeconds(after)})
    BY <1>2, ConstructedDelay
  <2>. HIDE DEF before, after
  <2>5. /\ RoundedSeconds(before) \in Nat /\ RoundedSeconds(after) \in Nat
        /\ RoundedSeconds(before) <= RoundedSeconds(after)
    BY <2>2, <2>3, RoundingOrdered
  <2>. QED
    BY <2>4, <2>5, MaxOfTwo
<1>. QED
  BY <1>1, <1>2

-----------------------------------------------------------------------------
(* The inductive invariant.                                                *)

\* While an operation makes its attempts none is beyond the limit, and the delay
\* before the latest one is one the strategy chose after the attempt before it.
AttemptInv ==
  /\ attempt \in Nat \ {0} /\ delay \in 0 .. MaxSeconds
  /\ phase = "attempts" =>
       /\ cfg \in Strategies
       /\ Valid(cfg) => attempt <= Limit
       /\ attempt = 1 => delay = 0
       /\ attempt > 1 =>
            /\ Valid(cfg)
            /\ \E ms \in Delays(Strategy(cfg), attempt - 1) :
                 recordedDelay(ms) # OutOfRange /\ delay = recordedDelay(ms)

\* The limit of a valid configuration is that of the strategy it constructs.
LEMMA LimitConfigured ==
  ASSUME cfg \in Strategies, Valid(cfg)
  PROVE  Limit \in Nat \ {0} /\ Strategy(cfg).maxAttempts = Limit
<1>1. Configuration(cfg) /\ (cfg.kind = "own" => cfg.maxAttempts >= 1)
  BY AttemptsAssumption
<1>2. CASE cfg.kind = "own"
  BY <1>1, <1>2 DEF Strategy, Limit, Configuration
<1>3. CASE cfg.kind # "own"
  <2>1. Strategy(cfg).maxAttempts = Limit
    BY <1>1, <1>3, StrategyFilled DEF Limit
  <2>2. cfg.maxAttempts \in Int /\ cfg.maxAttempts >= 0
    BY <1>1, <1>3 DEF Configuration, Valid, validateRetryConfig, validateLinearRetryConfig, validateWaitConfig
  <2>. QED
    BY <2>1, <2>2 DEF Limit
<1>. QED
  BY <1>2, <1>3

\* A valid configuration that the constants allow.
LEMMA AttemptingConfigured ==
  ASSUME AttemptInv, Attempting
  PROVE  /\ cfg \in Strategies /\ Configuration(cfg) /\ Valid(cfg)
         /\ Limit \in Nat \ {0} /\ Strategy(cfg).maxAttempts = Limit /\ attempt <= Limit
BY LimitConfigured, AttemptsAssumption DEF AttemptInv, Attempting

\* The operation begins within its limit.
LEMMA AttemptsBegin == AttemptsInit => AttemptInv
<1>. SUFFICES ASSUME AttemptsInit PROVE AttemptInv
  OBVIOUS
<1>1. attempt = 1 /\ delay = 0 /\ MaxSeconds \in Nat
  BY DelaysAssumption DEF AttemptsInit
<1>2. phase = "attempts" => cfg \in Strategies
  BY DEF AttemptsInit
<1>3. cfg \in Strategies /\ Valid(cfg) => attempt <= Limit
  BY <1>1, LimitConfigured
<1>. QED
  BY <1>1, <1>2, <1>3 DEF AttemptInv

\* Scheduling an attempt below the limit keeps the invariant.
LEMMA SchedulingKeeps ==
  ASSUME AttemptInv, Attempting, AttemptsLeft, ScheduleAttempt
  PROVE  AttemptInv'
<1>1. /\ cfg \in Strategies /\ Configuration(cfg) /\ Valid(cfg)
      /\ Limit \in Nat \ {0} /\ Strategy(cfg).maxAttempts = Limit
  BY AttemptingConfigured
<1>2. attempt \in Nat \ {0} /\ delay \in 0 .. MaxSeconds
  BY DEF AttemptInv
<1>3. PICK ms \in Delays(Strategy(cfg), attempt) :
        /\ \/ recordedDelay(ms) = OutOfRange /\ phase' = "rejected" /\ UNCHANGED <<attempt, delay>>
           \/ /\ recordedDelay(ms) # OutOfRange
              /\ attempt' = attempt + 1 /\ delay' = recordedDelay(ms) /\ UNCHANGED phase
        /\ UNCHANGED <<cfg, operation>>
  BY DEF ScheduleAttempt
<1>4. CASE recordedDelay(ms) = OutOfRange
  BY <1>2, <1>3, <1>4 DEF AttemptInv
<1>5. CASE recordedDelay(ms) # OutOfRange
  <2>1. /\ attempt' = attempt + 1 /\ delay' = recordedDelay(ms)
        /\ cfg' = cfg /\ operation' = operation /\ phase' = phase
    BY <1>3, <1>5
  <2>2. attempt' \in Nat \ {0} /\ attempt' # 1 /\ attempt' - 1 = attempt
    BY <1>2, <2>1
  <2>3. delay' \in 0 .. MaxSeconds
    BY <1>1, <1>2, <1>5, <2>1, DelayAllowed
  <2>4. attempt' <= Limit' /\ Valid(cfg)' /\ Strategy(cfg)' = Strategy(cfg)
    <3>1. attempt < Limit /\ Limit' = Limit
      BY <1>1, <2>1 DEF AttemptsLeft, Limit
    <3>. QED
      BY <1>1, <1>2, <2>1, <3>1
  <2>5. recordedDelay(ms)' = recordedDelay(ms)
    BY <2>1 DEF recordedDelay
  <2>6. \E x \in Delays(Strategy(cfg)', attempt' - 1) :
          recordedDelay(x)' # OutOfRange /\ delay' = recordedDelay(x)'
    BY <1>5, <2>1, <2>2, <2>4, <2>5
  <2>. QED
    BY <1>1, <2>1, <2>2, <2>3, <2>4, <2>6 DEF AttemptInv
<1>. QED
  BY <1>4, <1>5

\* Every step keeps the invariant.
LEMMA AttemptsStep == AttemptInv /\ [AttemptsNext]_attemptVars => AttemptInv'
<1>. SUFFICES ASSUME AttemptInv, [AttemptsNext]_attemptVars PROVE AttemptInv'
  OBVIOUS
<1>1. CASE RejectConfig
  BY <1>1 DEF AttemptInv, RejectConfig
<1>2. CASE CheckMet
  BY <1>2 DEF AttemptInv, CheckMet
<1>3. ASSUME AttemptsOver PROVE AttemptInv'
  BY <1>3, DelaysAssumption DEF AttemptInv, AttemptsOver
<1>4. CASE CheckFailed
  BY <1>3, <1>4 DEF CheckFailed
<1>5. CASE CheckAgain
  BY <1>5, SchedulingKeeps DEF CheckAgain
<1>6. ASSUME NEW matches \in BOOLEAN, AttemptRetried(matches) PROVE AttemptInv'
  BY <1>6, SchedulingKeeps DEF AttemptRetried, Retries
<1>7. ASSUME NEW matches \in BOOLEAN, AttemptFailed(matches) PROVE AttemptInv'
  BY <1>3, <1>7 DEF AttemptFailed
<1>8. CASE UNCHANGED attemptVars
  <2>1. /\ phase' = phase /\ cfg' = cfg /\ operation' = operation
        /\ attempt' = attempt /\ delay' = delay
    BY <1>8 DEF attemptVars
  <2>. QED
    BY <2>1 DEF AttemptInv, Limit, recordedDelay
<1>. QED
  BY <1>1, <1>2, <1>4, <1>5, <1>6, <1>7, <1>8 DEF AttemptsNext

\* No operation makes more attempts than its strategy allows, and each delay fits
\* the wire (strategy.maxAttempts in retry.go and wait_for_condition.go, durationToSeconds).
THEOREM AttemptsWithinLimit == AttemptsSpec => []AttemptInv
BY AttemptsBegin, AttemptsStep, PTL DEF AttemptsSpec

-----------------------------------------------------------------------------
(* A strategy keeps to its configuration.                                  *)

\* What a scheduled attempt waits is in the bounds and no shorter than before.
LEMMA ScheduledAsConfigured ==
  ASSUME AttemptInv, Attempting, AttemptsLeft, ScheduleAttempt, attempt' = attempt + 1
  PROVE  /\ attempt < Limit
         /\ 1 <= delay' /\ delay' <= Ceiling
         /\ Strategy(cfg).jitter = "NONE" /\ ~Shrinks => delay <= delay'
<1>1. /\ cfg \in Strategies /\ Configuration(cfg) /\ Valid(cfg) /\ phase = "attempts"
      /\ Strategy(cfg).maxAttempts = Limit
  BY AttemptingConfigured DEF Attempting
<1>2. attempt \in Nat \ {0} /\ delay \in 0 .. MaxSeconds /\ MaxSeconds \in Nat
  BY DelaysAssumption DEF AttemptInv
<1>3. PICK ms \in Delays(Strategy(cfg), attempt) :
        recordedDelay(ms) # OutOfRange /\ delay' = recordedDelay(ms)
  <2>1. attempt' # attempt
    BY <1>2
  <2>. QED
    BY <2>1 DEF ScheduleAttempt
<1>4. delay' \in 1 .. MaxSeconds /\ delay' <= Ceiling
  BY <1>1, <1>2, <1>3, DelayAllowed
<1>5. ASSUME Strategy(cfg).jitter = "NONE", ~Shrinks PROVE delay <= delay'
  <2>1. CASE attempt = 1
    BY <1>1, <1>2, <1>4, <2>1 DEF AttemptInv
  <2>2. CASE attempt > 1
    <3>1. PICK x \in Delays(Strategy(cfg), attempt - 1) :
            recordedDelay(x) # OutOfRange /\ delay = recordedDelay(x)
      BY <1>1, <2>2 DEF AttemptInv
    <3>2. attempt - 1 \in Nat \ {0} /\ (attempt - 1) + 1 = attempt
      BY <1>2, <2>2
    <3>. QED
      BY <1>1, <1>3, <1>5, <3>1, <3>2, DelayGrows
  <2>. QED
    BY <1>2, <2>1, <2>2
<1>6. attempt < Limit
  BY <1>1 DEF AttemptsLeft
<1>. QED
  BY <1>2, <1>4, <1>5, <1>6

\* A strategy keeps to its configuration, whatever that is: attempts up to its
\* limit, delays of at least a second, within MaxDelay to the nearest second and not
\* shrinking without jitter, and no early end (newRetryStrategy, finalizeDelay).
THEOREM StrategiesKept == AttemptsSpec => RetriesAsConfigured
<1>. DEFINE AsConfigured ==
       phase = "attempts" =>
         /\ attempt' = attempt + 1 =>
              /\ attempt < Limit
              /\ 1 <= delay' /\ delay' <= Ceiling
              /\ Strategy(cfg).jitter = "NONE" /\ ~Shrinks => delay <= delay'
         /\ phase' = "failed" /\ operation # "condition" => attempt = Limit \/ cfg.retryable # {}
<1>1. AttemptInv /\ [AttemptsNext]_attemptVars => [AsConfigured]_attemptVars
  <2>. SUFFICES ASSUME AttemptInv, AttemptsNext, phase = "attempts" PROVE AsConfigured
    OBVIOUS
  <2>1. attempt \in Nat \ {0}
    BY DEF AttemptInv
  <2>2. CASE RejectConfig
    BY <2>1, <2>2 DEF RejectConfig
  <2>3. CASE CheckMet
    BY <2>1, <2>3 DEF CheckMet
  <2>4. CASE CheckFailed
    BY <2>1, <2>4 DEF CheckFailed, AttemptsOver
  <2>5. CASE CheckAgain
    BY <2>5, ScheduledAsConfigured DEF CheckAgain
  <2>6. ASSUME NEW matches \in BOOLEAN, AttemptRetried(matches) PROVE AsConfigured
    <3>1. phase' # "failed"
      BY <2>6 DEF AttemptRetried, ScheduleAttempt, Attempting
    <3>. QED
      BY <2>6, <3>1, ScheduledAsConfigured DEF AttemptRetried, Retries
  <2>7. ASSUME NEW matches \in BOOLEAN, AttemptFailed(matches) PROVE AsConfigured
    <3>1. attempt' = 1 /\ Attempting /\ ~Retries(matches)
      BY <2>7 DEF AttemptFailed, AttemptsOver
    <3>2. Limit \in Nat /\ Strategy(cfg).maxAttempts = Limit /\ attempt <= Limit
      BY <3>1, AttemptingConfigured
    <3>3. attempt = Limit \/ cfg.retryable # {}
      BY <2>1, <3>1, <3>2 DEF Retries, AttemptsLeft
    <3>. QED
      BY <2>1, <3>1, <3>3
  <2>. QED
    BY <2>2, <2>3, <2>4, <2>5, <2>6, <2>7 DEF AttemptsNext
<1>. QED
  BY <1>1, AttemptsWithinLimit, PTL DEF AttemptsSpec, RetriesAsConfigured

=============================================================================
