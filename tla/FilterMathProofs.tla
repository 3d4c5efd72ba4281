--------------------------- MODULE FilterMathProofs ---------------------------
(***************************************************************************)
(* Proofs about FilterMath, for every word, frequency, setting, coordinate *)
(* and width.  What is not linear (products, quotients, remainders) is in  *)
(* the lemmas of the first section; the rest follows from them by cases.   *)
(***************************************************************************)
EXTENDS FilterMath, TLAPS

-----------------------------------------------------------------------------
(* Quotients and words *)

\* What an integer quotient is.
LEMMA Quotient ==
    ASSUME NEW p \in Int, NEW d \in Nat \ {0}
    PROVE  p \div d \in Int /\ d * (p \div d) <= p /\ p < d * (p \div d) + d
OBVIOUS

\* A factor does not exceed a quotient if and only if the product does not exceed
\* the dividend: the overflow checks of the code.
LEMMA ProductFits ==
    ASSUME NEW a \in Int, NEW b \in Int, NEW d \in Nat \ {0}
    PROVE  a <= b \div d <=> a * d <= b
<1> DEFINE k == b \div d
<1>1. k \in Int /\ d * k <= b /\ b < d * k + d
    BY Quotient
<1> HIDE DEF k
<1>2. ASSUME a <= k PROVE a * d <= b
  <2>1. a * d <= k * d
      BY <1>1, <1>2
  <2>2. QED
      BY <2>1, <1>1
<1>3. ASSUME k + 1 <= a PROVE b < a * d
  <2>1. (k + 1) * d <= a * d
      BY <1>1, <1>3
  <2>2. QED
      BY <2>1, <1>1
<1>4. a * d \in Int
    OBVIOUS
<1>5. QED
    BY <1>1, <1>2, <1>3, <1>4 DEF k

\* The quotient of a natural number is one.
LEMMA QuotientOfNat ==
    ASSUME NEW p \in Nat, NEW d \in Nat \ {0}
    PROVE  p \div d \in Nat /\ p \div d <= p
<1>1. p \div d \in Int /\ (0 <= p \div d <=> 0 * d <= p)
    BY Quotient, ProductFits
<1>2. (p + 1 <= p \div d) <=> ((p + 1) * d <= p)
    BY ProductFits
<1>3. p + 1 <= (p + 1) * d
    OBVIOUS
<1>4. (p + 1) * d \in Int
    OBVIOUS
<1>5. QED
    BY <1>1, <1>2, <1>3, <1>4

\* The words of the machine, and the least a second may have.
LEMMA Words ==
    /\ WordHalf \in Nat /\ 3 < WordHalf
    /\ SecondMs \in Nat \ {0} /\ 2 < SecondMs /\ SecondMs < WordHalf
    /\ Fails \notin Int
    /\ Int64Max = WordHalf - 1 /\ Int64Min = -WordHalf
    /\ \A n \in Int64 : n \in Int /\ -WordHalf <= n /\ n <= WordHalf - 1
    /\ \A n \in UInt64 : n \in Nat /\ n <= 2 * WordHalf - 1
BY ArithAssumption DEF Int64Max, Int64Min, Int64, UInt64

\* A remainder of a number below the modulus is that number.
LEMMA SmallRemainder ==
    ASSUME NEW m \in Nat \ {0}, NEW n \in Nat, n < m
    PROVE  n % m = n
OBVIOUS

\* A remainder is below the modulus.
LEMMA RemainderBelow ==
    ASSUME NEW m \in Nat \ {0}, NEW n \in Int
    PROVE  n % m \in 0..m - 1
OBVIOUS

\* A number that fits is stored as itself (int64_t).
LEMMA SignedFits ==
    ASSUME NEW n \in Int, -WordHalf <= n, n <= Int64Max
    PROVE  Signed(n) = n
<1>1. n + WordHalf \in Nat /\ n + WordHalf < 2 * WordHalf /\ 2 * WordHalf \in Nat \ {0}
    BY Words
<1>2. (n + WordHalf) % (2 * WordHalf) = n + WordHalf
    BY ONLY <1>1, SmallRemainder
<1>3. QED
    BY <1>2, Words DEF Signed

\* A number that fits is stored as itself (uint64_t).
LEMMA UnsignedFits ==
    ASSUME NEW n \in Nat, n <= 2 * WordHalf - 1
    PROVE  Unsigned(n) = n
BY SmallRemainder, Words DEF Unsigned

\* A difference of two times in order is stored as a number other than zero.
LEMMA SignedDifference ==
    ASSUME NEW a \in Int64, NEW b \in Int64, a < b
    PROVE  Signed(b - a) \in Int /\ Signed(b - a) # 0
<1> DEFINE n == b - a + WordHalf
           m == 2 * WordHalf
<1>1. /\ n \in Nat /\ m \in Nat \ {0} /\ WordHalf < n /\ n < m + WordHalf
      /\ WordHalf < m /\ WordHalf \in Nat /\ m = 2 * WordHalf
    BY Words
<1>2. n % m \in Int /\ (n % m = IF n < m THEN n ELSE n - m)
  <2> HIDE DEF n, m
  <2>1. CASE n < m
      BY <1>1, <2>1, SmallRemainder
  <2>2. CASE n >= m
    <3>1. n % m = (n - m) % m
        BY <1>1, <2>2
    <3>2. (n - m) % m = n - m
        BY <1>1, <2>2, SmallRemainder
    <3>3. QED
        BY <3>1, <3>2, <1>1, <2>2
  <2>3. QED
      BY <2>1, <2>2, <1>1
<1>3. Signed(b - a) = (n % m) - WordHalf
    BY DEF Signed
<1> HIDE DEF n, m
<1>4. QED
    BY <1>1, <1>2, <1>3

-----------------------------------------------------------------------------
(* Milliseconds and ticks *)

\* A product that passes the overflow check fits, and its ticks are exact.
LEMMA CheckedProduct ==
    ASSUME NEW a \in Nat, NEW b \in Nat, b # 0
    PROVE  IF a > Int64Max \div b THEN b * a > Int64Max
           ELSE /\ b * a <= Int64Max
                /\ Signed(a * b) \div SecondMs = ExactTicks(b, a)
                /\ ExactTicks(b, a) \in 0..Int64Max
<1>1. /\ a \in Int /\ b \in Nat \ {0} /\ Int64Max \in Int
      /\ a * b \in Nat /\ b * a = a * b
    BY Words
<1>2. a <= Int64Max \div b <=> a * b <= Int64Max
    BY <1>1, ProductFits
<1>3. Int64Max \div b \in Int
    BY <1>1, Quotient
<1>4. CASE a > Int64Max \div b
    BY <1>1, <1>2, <1>3, <1>4
<1>5. CASE a <= Int64Max \div b
  <2>1. a * b <= Int64Max
      BY <1>2, <1>5
  <2>2. Signed(a * b) = a * b
      BY <1>1, <2>1, SignedFits, Words
  <2>3. (a * b) \div SecondMs \in Nat /\ (a * b) \div SecondMs <= a * b
      BY <1>1, QuotientOfNat, Words
  <2>4. ExactTicks(b, a) = (a * b) \div SecondMs
      BY <1>1 DEF ExactTicks
  <2>5. ExactTicks(b, a) \in 0..Int64Max
      BY <2>1, <2>3, <2>4, <1>1
  <2>6. QED
      BY <1>1, <1>3, <1>5, <2>1, <2>2, <2>4, <2>5
<1>6. QED
    BY <1>3, <1>4, <1>5

\* roi_filter_try_apply_qpc_offset_ticks is exact or refuses.
LEMMA OffsetIsExact ==
    ASSUME NEW t \in Int64, NEW frequency \in UInt64, NEW ms \in Int
    PROVE  OffsetExact(t, frequency, ms)
<1> DEFINE size == Magnitude(ms)
           ticks == Negated(ms < 0, ExactTicks(size, frequency))
           coded == Negated(ms < 0, Signed(frequency * size) \div SecondMs)
<1>1. /\ t \in Int /\ Int64Min <= t /\ t <= Int64Max
      /\ frequency \in Nat /\ Int64Max \in Int /\ Int64Min \in Int
      /\ Int64Min = -Int64Max - 1
    BY Words
<1>2. size \in Nat /\ (ms # 0 => size # 0)
    BY DEF Magnitude
<1>3. CASE ms = 0
  <2>1. ExactTicks(0, frequency) = 0
    <3>1. 0 * frequency = 0
        BY <1>1
    <3>2. QED
        BY <3>1, Words DEF ExactTicks
  <2>2. TryOffset(t, frequency, ms) = t
      BY <1>3 DEF TryOffset
  <2>3. t + ticks = t
      BY <1>1, <1>3, <2>1 DEF Negated, Magnitude
  <2>4. QED
      BY <2>2, <2>3 DEF OffsetExact
<1>4. CASE ms # 0 /\ ~UsableFrequency(frequency)
    BY <1>4 DEF OffsetExact, TryOffset
<1>5. CASE ms # 0 /\ UsableFrequency(frequency) /\ frequency > Int64Max \div size
  <2>1. size * frequency > Int64Max
      BY <1>1, <1>2, <1>5, CheckedProduct
  <2>2. TryOffset(t, frequency, ms) = Fails
      BY <1>5 DEF TryOffset
  <2>3. QED
      BY <1>5, <2>1, <2>2 DEF OffsetExact
<1>6. CASE ms # 0 /\ UsableFrequency(frequency) /\ ~(frequency > Int64Max \div size)
  <2>1. /\ Signed(frequency * size) \div SecondMs = ExactTicks(size, frequency)
        /\ ExactTicks(size, frequency) \in 0..Int64Max
      BY <1>1, <1>2, <1>6, CheckedProduct
  <2>2. coded = ticks
      BY <2>1
  <2>3. ticks \in Int /\ -Int64Max <= ticks /\ ticks <= Int64Max
      BY <1>1, <2>1 DEF Negated
  <2> HIDE DEF ticks
  <2>4. TryOffset(t, frequency, ms) =
            IF SumOverflows(t, ticks) THEN Fails ELSE Signed(t + ticks)
      BY <1>6, <2>2 DEF TryOffset
  <2>5. CASE SumOverflows(t, ticks)
    <3>1. t + ticks \notin Int64
        BY <1>1, <2>3, <2>5 DEF SumOverflows, Int64
    <3>2. QED
        BY <1>6, <2>4, <2>5, <3>1 DEF OffsetExact, ticks
  <2>6. CASE ~SumOverflows(t, ticks)
    <3>1. t + ticks \in Int64 /\ -WordHalf <= t + ticks /\ t + ticks <= Int64Max
        BY <1>1, <2>3, <2>6, Words DEF SumOverflows, Int64
    <3>2. Signed(t + ticks) = t + ticks
        BY <1>1, <2>3, <3>1, SignedFits
    <3>3. QED
        BY <2>4, <2>6, <3>1, <3>2 DEF OffsetExact, ticks
  <2>7. QED
      BY <2>5, <2>6
<1>7. QED
    BY <1>3, <1>4, <1>5, <1>6

\* roi_filter_try_compute_stale_threshold_ticks is exact or refuses.
LEMMA ThresholdIsExact ==
    ASSUME NEW frequency \in UInt64, NEW ms \in Nat, ms # 0
    PROVE  ThresholdExact(ms, frequency)
<1>1. frequency \in Nat /\ 3 <= Int64Max /\ Int64Max \in Int
    BY Words
<1>2. CASE ~UsableFrequency(frequency) \/ frequency > Int64Max \div ms
    BY <1>2 DEF ThresholdExact, TryStaleThreshold
<1>3. CASE UsableFrequency(frequency) /\ ~(frequency > Int64Max \div ms)
  <2>1. /\ Signed(frequency * ms) \div SecondMs = ExactTicks(ms, frequency)
        /\ ExactTicks(ms, frequency) \in 0..Int64Max
      BY <1>1, <1>3, CheckedProduct
  <2>2. TryStaleThreshold(ms, frequency) =
            IF ExactTicks(ms, frequency) <= 0 THEN 1 ELSE ExactTicks(ms, frequency)
      BY <1>3, <2>1 DEF TryStaleThreshold
  <2>3. QED
      BY <1>1, <2>1, <2>2 DEF ThresholdExact
<1>4. QED
    BY <1>2, <1>3

\* roi_filter_ticks_to_ms_signed_clamped is exact or saturates.
LEMMA AgeIsExact ==
    ASSUME NEW ticks \in Int64, NEW frequency \in UInt64
    PROVE  AgeExact(ticks, frequency)
<1> DEFINE size == Magnitude(ticks)
           held == IF ticks = Int64Min THEN Int64Max ELSE size
           most == Int64Max \div SecondMs
<1> SUFFICES ASSUME UsableFrequency(frequency)
             PROVE  \/ TicksToMsSigned(ticks, frequency) =
                            Negated(ticks < 0, (size * SecondMs) \div frequency)
                    \/ /\ size > most
                       /\ Magnitude(TicksToMsSigned(ticks, frequency)) = Int64Max
    BY DEF AgeExact
<1>1. /\ ticks \in Int /\ Int64Min <= ticks /\ ticks <= Int64Max
      /\ frequency \in Nat \ {0} /\ Int64Max \in Int /\ 3 <= Int64Max
      /\ Int64Min = -Int64Max - 1
    BY Words DEF UsableFrequency
<1>2. most \in Int /\ most < Int64Max /\ 0 <= most
  <2>1. most \in Int /\ SecondMs * most <= Int64Max
      BY <1>1, Words, Quotient
  <2>2. 0 <= most
    <3>1. 0 * SecondMs <= Int64Max
        BY <1>1, Words
    <3>2. QED
        BY <3>1, <1>1, Words, ProductFits
  <2> HIDE DEF most
  <2>3. CASE most = 0
      BY <2>1, <2>3, <1>1
  <2>4. CASE most > 0
    <3>1. 2 * most <= SecondMs * most
        BY <2>1, <2>4, Words
    <3>2. QED
        BY <2>1, <2>4, <3>1, <1>1, Words
  <2>5. QED
      BY <2>1, <2>2, <2>3, <2>4
<1>3. TicksToMsSigned(ticks, frequency) = Negated(ticks < 0, TicksToMs(held, frequency))
    BY DEF TicksToMsSigned
<1>4. /\ held \in Nat /\ size \in Nat /\ held <= size
      /\ (held # size => held = Int64Max)
    BY <1>1 DEF Magnitude
<1> HIDE DEF most
<1>5. CASE held > most
  <2>1. TicksToMs(held, frequency) = Int64Max
      BY <1>1, <1>2, <1>4, <1>5 DEF TicksToMs, most
  <2>2. size > most
      BY <1>2, <1>4, <1>5
  <2>3. QED
      BY <1>1, <1>3, <2>1, <2>2 DEF Negated, Magnitude
<1>6. CASE held <= most
  <2>1. held = size
      BY <1>2, <1>4, <1>6
  <2>2. size * SecondMs \in Nat /\ size * SecondMs <= Int64Max
    <3>1. size \in Int /\ Int64Max \in Int /\ SecondMs \in Nat \ {0}
        BY <1>1, <1>4, Words
    <3>2. size <= Int64Max \div SecondMs
        BY <1>6, <2>1 DEF most
    <3>3. size * SecondMs <= Int64Max
        BY <3>1, <3>2, ProductFits
    <3>4. size * SecondMs \in Nat
        BY <1>4, <3>1
    <3>5. QED
        BY <3>3, <3>4
  <2>3. Signed(size * SecondMs) = size * SecondMs
      BY <2>2, <1>1, SignedFits, Words
  <2>4. CASE size = 0
    <3>1. TicksToMs(held, frequency) = 0
        BY <2>1, <2>4 DEF TicksToMs
    <3>2. 0 * SecondMs = 0 /\ 0 \div frequency = 0
        BY <1>1, Words
    <3>3. (size * SecondMs) \div frequency = 0
        BY <2>4, <3>2
    <3>4. QED
        BY <1>3, <3>1, <3>3
  <2>5. CASE size # 0
    <3>1. TicksToMs(held, frequency) = (size * SecondMs) \div frequency
        BY <1>2, <1>4, <1>6, <2>1, <2>3, <2>5 DEF TicksToMs, most
    <3>2. QED
        BY <1>3, <3>1
  <2>6. QED
      BY <2>4, <2>5
<1>7. QED
    BY <1>2, <1>4, <1>5, <1>6

\* roi_interpolator_compute_timeout_ticks decides as the exact timeout would.
LEMMA TimeoutDecides ==
    ASSUME NEW t \in Int64, NEW frequency \in UInt64, NEW ms \in Nat
    PROVE  LET ticks == ExactTicks(ms, frequency)
               least == IF ms = 0 \/ frequency = 0 THEN 0
                        ELSE IF ticks = 0 THEN 1 ELSE ticks
               coded == SaturatedTimeout(ms, frequency)
           IN  /\ coded \in 0..Int64Max
               /\ coded = 0 <=> least = 0
               /\ t < (2 * WordHalf) \div SecondMs =>
                       (t >= coded <=> t >= least)
<1> DEFINE ticks == ExactTicks(ms, frequency)
           product == ms * frequency
           reach == (2 * WordHalf) \div SecondMs
           word == 2 * WordHalf - 1
<1>1. /\ t \in Int /\ t <= Int64Max /\ frequency \in Nat /\ Int64Max \in Nat
      /\ 3 <= Int64Max /\ WordHalf = Int64Max + 1
      /\ SecondMs \in Nat \ {0} /\ 2 < SecondMs /\ SecondMs < WordHalf
    BY Words
<1>2. product \in Nat /\ ticks = product \div SecondMs /\ word \in Nat
    BY <1>1 DEF ExactTicks
<1>3. ticks \in Nat /\ ticks <= product
    BY <1>1, <1>2, QuotientOfNat
<1>4. reach \in Int /\ 1 <= reach /\ reach <= Int64Max
  <2>1. reach \in Int /\ SecondMs * reach <= 2 * WordHalf /\ 2 * WordHalf \in Int
      BY <1>1, Quotient
  <2>2. 1 <= reach
    <3>1. 1 * SecondMs <= 2 * WordHalf
        BY <1>1
    <3>2. QED
        BY <3>1, <2>1, <1>1, ProductFits
  <2> HIDE DEF reach
  <2>3. 3 * reach <= SecondMs * reach
      BY <1>1, <2>1, <2>2
  <2>4. QED
      BY <1>1, <2>1, <2>2, <2>3
<1> HIDE DEF product, reach
<1>5. CASE ms = 0 \/ frequency = 0
    BY <1>1, <1>5 DEF SaturatedTimeout, reach
<1>6. CASE ms # 0 /\ frequency # 0 /\ ms > word \div frequency
  <2>1. word \div frequency \in Int
      BY <1>1, <1>2, <1>6, Quotient
  <2>2. ~(product <= word)
      BY <1>1, <1>2, <1>6, <2>1, ProductFits DEF product
  <2>3. 2 * WordHalf <= product
      BY <1>1, <1>2, <2>2
  <2>4. reach <= ticks
    <3>1. reach \in Int /\ SecondMs * reach <= 2 * WordHalf
        BY <1>1, Quotient DEF reach
    <3>2. reach * SecondMs <= product
        BY <1>1, <1>2, <2>3, <3>1
    <3>3. QED
        BY <1>1, <1>2, <3>1, <3>2, ProductFits
  <2>5. SaturatedTimeout(ms, frequency) = Int64Max
      BY <1>6 DEF SaturatedTimeout
  <2>6. QED
      BY <1>1, <1>3, <1>4, <1>6, <2>4, <2>5 DEF reach
<1>7. CASE ms # 0 /\ frequency # 0 /\ ~(ms > word \div frequency)
  <2>1. product <= word
    <3>1. word \div frequency \in Int
        BY <1>1, <1>2, <1>7, Quotient
    <3>2. QED
        BY <1>1, <1>2, <1>7, <3>1, ProductFits DEF product
  <2>2. Unsigned(product) = product
      BY <1>2, <2>1, UnsignedFits
  <2>3. ticks <= Int64Max
    <3>1. SecondMs * ticks <= product
        BY <1>1, <1>2, Quotient
    <3>2. 3 * ticks <= SecondMs * ticks
        BY <1>1, <1>3
    <3>3. SecondMs * ticks \in Int
        BY <1>1, <1>3
    <3>4. QED
        BY <1>1, <1>2, <1>3, <2>1, <3>1, <3>2, <3>3
  <2>4. SaturatedTimeout(ms, frequency) = IF ticks = 0 THEN 1 ELSE ticks
      BY <1>1, <1>2, <1>3, <1>7, <2>2, <2>3 DEF SaturatedTimeout, product
  <2>5. QED
      BY <1>1, <1>3, <1>7, <2>3, <2>4
<1>8. QED
    BY <1>5, <1>6, <1>7

-----------------------------------------------------------------------------
(* Spans *)

\* What an accepted span is, and that normalising it again changes nothing.
LEMMA AcceptedSpan ==
    /\ Accepted \subseteq Span
    /\ \A s \in Accepted :
            /\ 0 <= s.at /\ Epsilon < s.size /\ s.at + s.size <= Unit
<1>1. Unit \in Nat \ {0} /\ Epsilon \in Nat \ {0} /\ Coordinates \subseteq Int
    BY GeometryAssumption, MathAssumption
<1>2. ASSUME NEW at \in Int, NEW size \in Int, Normalized(at, size) # NoSpan
      PROVE  /\ Normalized(at, size) \in Span
             /\ 0 <= Normalized(at, size).at /\ Epsilon < Normalized(at, size).size
             /\ Normalized(at, size).at + Normalized(at, size).size <= Unit
    BY <1>1, <1>2 DEF Normalized, Clamped, Span
<1>3. QED
    BY <1>1, <1>2 DEF Accepted

\* A span inside the picture and larger than the epsilon is left as it is.
LEMMA NormalizedKeeps ==
    ASSUME NEW at \in Int, NEW size \in Int,
           0 <= at, Epsilon < size, at + size <= Unit
    PROVE  Normalized(at, size) = [at |-> at, size |-> size]
BY GeometryAssumption DEF Normalized, Clamped

\* The fraction of the way between two anchors in order.
LEMMA AlphaFraction ==
    ASSUME NEW n \in Int, NEW d \in Int, d # 0
    PROVE  /\ Alpha(n, d)[1] \in Int /\ Alpha(n, d)[2] \in Nat \ {0}
           /\ 0 <= Alpha(n, d)[1] /\ Alpha(n, d)[1] <= Alpha(n, d)[2]
BY DEF Alpha, Clamped

\* A part n/d of a distance e, rounded down, is between 0 and the distance.
LEMMA PartOfDistance ==
    ASSUME NEW e \in Int, NEW n \in Int, NEW d \in Nat \ {0}, 0 <= n, n <= d
    PROVE  /\ (e * n) \div d \in Int /\ e * n \in Int
           /\ IF e >= 0 THEN 0 <= (e * n) \div d /\ (e * n) \div d <= e
              ELSE e <= (e * n) \div d /\ (e * n) \div d <= 0
<1> DEFINE k == (e * n) \div d
<1>1. e * n \in Int
    OBVIOUS
<1>2. k \in Int /\ d * k <= e * n /\ e * n < d * k + d
    BY <1>1, Quotient
<1>3. (0 <= k <=> 0 * d <= e * n) /\ (e <= k <=> e * d <= e * n)
    BY <1>1, ProductFits
<1>4. (1 <= k <=> 1 * d <= e * n) /\ (e + 1 <= k <=> (e + 1) * d <= e * n)
    BY <1>1, ProductFits
<1>5. CASE e >= 0
  <2>1. 0 <= e * n /\ e * n <= e * d /\ e * d < (e + 1) * d
      BY <1>5
  <2>2. e * d \in Int /\ (e + 1) * d \in Int
      OBVIOUS
  <2>3. QED
      BY <1>1, <1>2, <1>3, <1>4, <1>5, <2>1, <2>2
<1>6. CASE e < 0
  <2>1. e * n <= 0 /\ e * d <= e * n
      BY <1>6
  <2>2. QED
      BY <1>1, <1>2, <1>3, <1>4, <1>6, <2>1
<1>7. QED
    BY <1>5, <1>6

\* Two parts rounded down on their own are not more than the part of the sum.
LEMMA PartsOfSum ==
    ASSUME NEW e \in Int, NEW f \in Int, NEW n \in Int, NEW d \in Nat \ {0}
    PROVE  (e * n) \div d + (f * n) \div d <= ((e + f) * n) \div d
<1> DEFINE k == (e * n) \div d
           l == (f * n) \div d
<1>1. e * n \in Int /\ f * n \in Int /\ (e + f) * n = e * n + f * n
    OBVIOUS
<1>2. k \in Int /\ l \in Int /\ d * k <= e * n /\ d * l <= f * n
    BY <1>1, Quotient
<1> HIDE DEF k, l
<1>3. (k + l) * d <= (e + f) * n
  <2>1. (k + l) * d = d * k + d * l /\ d * k \in Int /\ d * l \in Int
      BY <1>2
  <2>2. QED
      BY <1>1, <1>2, <2>1
<1>4. k + l <= ((e + f) * n) \div d
  <2>1. k + l \in Int /\ (e + f) * n \in Int
      BY <1>1, <1>2
  <2>2. QED
      BY <1>3, <2>1, ProductFits
<1>5. QED
    BY <1>4 DEF k, l

\* Every blend of accepted spans is accepted (roi_interpolator_lerp_between_anchors).
LEMMA BlendInside ==
    ASSUME NEW l \in Accepted, NEW r \in Accepted,
           NEW left_t \in Int64, NEW right_t \in Int64, NEW t \in Int64
    PROVE  LET b == Lerp(l, left_t, r, right_t, t)
           IN  /\ b # NoSpan
               /\ l.size <= b.size \/ r.size <= b.size
               /\ b.at >= 0 /\ b.at + b.size <= Unit
<1>1. /\ l.at \in Int /\ l.size \in Int /\ r.at \in Int /\ r.size \in Int
      /\ 0 <= l.at /\ Epsilon < l.size /\ l.at + l.size <= Unit
      /\ 0 <= r.at /\ Epsilon < r.size /\ r.at + r.size <= Unit
      /\ Unit \in Nat /\ Epsilon \in Nat /\ NoSpan \notin Span
    BY AcceptedSpan, GeometryAssumption DEF Span
<1>2. CASE right_t <= left_t
  <2>1. Lerp(l, left_t, r, right_t, t) = [at |-> r.at, size |-> r.size]
      BY <1>1, <1>2, NormalizedKeeps DEF Lerp
  <2>2. [at |-> r.at, size |-> r.size] \in Span
      BY <1>1 DEF Span
  <2>3. QED
      BY <1>1, <2>1, <2>2
<1>3. CASE left_t < right_t
  <2> DEFINE alpha == Alpha(Signed(t - left_t), Signed(right_t - left_t))
             at == Between(l.at, r.at, alpha)
             size == Between(l.size, r.size, alpha)
  <2>1. Signed(right_t - left_t) \in Int /\ Signed(right_t - left_t) # 0
      BY <1>3, SignedDifference
  <2>2. Signed(t - left_t) \in Int
    <3>1. t - left_t + WordHalf \in Int /\ 2 * WordHalf \in Nat \ {0} /\ WordHalf \in Int
        BY Words
    <3>2. (t - left_t + WordHalf) % (2 * WordHalf) \in Int
        BY <3>1, RemainderBelow
    <3>3. QED
        BY <3>1, <3>2 DEF Signed
  <2>3. /\ alpha[1] \in Int /\ alpha[2] \in Nat \ {0}
        /\ 0 <= alpha[1] /\ alpha[1] <= alpha[2]
      BY <2>1, <2>2, AlphaFraction
  <2> HIDE DEF alpha
  <2> DEFINE e == r.at - l.at
             f == r.size - l.size
             k == (e * alpha[1]) \div alpha[2]
             m == (f * alpha[1]) \div alpha[2]
             s == ((e + f) * alpha[1]) \div alpha[2]
  <2>4. e \in Int /\ f \in Int /\ e + f \in Int
      BY <1>1
  <2>5. at = l.at + k /\ size = l.size + m
      BY DEF Between
  <2>6. k \in Int /\ (IF e >= 0 THEN 0 <= k /\ k <= e ELSE e <= k /\ k <= 0)
      BY <2>3, <2>4, PartOfDistance
  <2>7. m \in Int /\ (IF f >= 0 THEN 0 <= m /\ m <= f ELSE f <= m /\ m <= 0)
      BY <2>3, <2>4, PartOfDistance
  <2>8. s \in Int /\ (IF e + f >= 0 THEN s <= e + f ELSE s <= 0)
      BY <2>3, <2>4, PartOfDistance
  <2>9. k + m <= s
      BY <2>3, <2>4, PartsOfSum
  <2> HIDE DEF k, m, s, at, size
  <2>10. /\ at \in Int /\ size \in Int /\ 0 <= at /\ at + size <= Unit
         /\ l.size <= size \/ r.size <= size
      BY <1>1, <2>4, <2>5, <2>6, <2>7, <2>8, <2>9
  <2>11. Epsilon < size
      BY <1>1, <2>10
  <2>12. Lerp(l, left_t, r, right_t, t) = Normalized(at, size)
    <3>1. ~(right_t <= left_t)
        BY <1>3, Words
    <3>2. QED
        BY <3>1 DEF Lerp, alpha, at, size
  <2>13. Normalized(at, size) = [at |-> at, size |-> size]
      BY <2>10, <2>11, NormalizedKeeps
  <2>14. [at |-> at, size |-> size] \in Span
      BY <2>10 DEF Span
  <2>15. QED
      BY <1>1, <2>10, <2>12, <2>13, <2>14
<1>4. QED
    BY <1>2, <1>3, Words

-----------------------------------------------------------------------------
(* Pixels *)

\* Where the pixel borders of a coordinate lie.
LEMMA Borders ==
    ASSUME NEW v \in Int, NEW p \in Int
    PROVE  /\ Floor(v) \in Int /\ Ceiling(v) \in Int
           /\ p <= Floor(v) <=> p * Unit <= v
           /\ p < Ceiling(v) <=> p * Unit < v
<1>1. Unit \in Nat \ {0} /\ -v \in Int /\ -p \in Int
    BY GeometryAssumption
<1>2. Floor(v) \in Int /\ (p <= Floor(v) <=> p * Unit <= v)
    BY <1>1, Quotient, ProductFits DEF Floor
<1>3. (-v) \div Unit \in Int /\ ((-p) <= (-v) \div Unit <=> (-p) * Unit <= -v)
    BY <1>1, Quotient, ProductFits
<1>4. (-p) * Unit = -(p * Unit) /\ p * Unit \in Int
    BY <1>1
<1>5. Ceiling(v) \in Int /\ (p < Ceiling(v) <=> p * Unit < v)
    BY <1>1, <1>3, <1>4 DEF Ceiling
<1>6. QED
    BY <1>2, <1>5

\* Whatever floor and ceil return, the corrections of
\* roi_filter_try_compute_subregion_px leave at least one pixel, inside the source.
THEOREM PixelSpanInside ==
    ASSUME NEW lo \in Int, NEW hi \in Int, NEW n \in Nat \ {0}
    PROVE  /\ PixelSpan(lo, hi, n) # NoSpan
           /\ PixelSpan(lo, hi, n).at >= 0 /\ PixelSpan(lo, hi, n).size >= 1
           /\ PixelSpan(lo, hi, n).at + PixelSpan(lo, hi, n).size <= n
<1> DEFINE x == Clamped(lo, 0, n)
           end == IF hi < x THEN x ELSE IF hi > n THEN n ELSE hi
           x2 == IF end <= x /\ x > 0 THEN x - 1 ELSE x
           end2 == IF end <= x2 THEN x2 + 1 ELSE end
           x3 == IF end2 > n THEN n - 1 ELSE x2
           end3 == IF end2 > n THEN n ELSE end2
<1>1. x \in 0..n
    BY DEF Clamped
<1> HIDE DEF x
<1>2. end \in x..n
    BY <1>1
<1> HIDE DEF end
<1>3. x2 \in 0..n /\ end2 \in Int /\ x2 < end2
    BY <1>1, <1>2
<1>4. x3 \in Int /\ end3 \in Int /\ 0 <= x3 /\ x3 < end3 /\ end3 <= n
    BY <1>1, <1>2, <1>3
<1>5. PixelSpan(lo, hi, n) =
        IF x3 < 0 \/ end3 <= x3 THEN NoSpan ELSE [at |-> x3, size |-> end3 - x3]
    BY DEF PixelSpan, x, end
<1> HIDE DEF x2, end2, x3, end3
<1>6. PixelSpan(lo, hi, n) = [at |-> x3, size |-> end3 - x3]
    BY <1>4, <1>5
<1>7. [at |-> x3, size |-> end3 - x3] \in Span
    BY <1>4 DEF Span
<1>8. QED
    BY <1>4, <1>6, <1>7, GeometryAssumption

\* Between borders in order and inside the source nothing is corrected.
LEMMA PixelSpanKeeps ==
    ASSUME NEW lo \in Int, NEW hi \in Int, NEW n \in Nat \ {0},
           0 <= lo, lo < n, lo < hi
    PROVE  PixelSpan(lo, hi, n) =
                [at |-> lo, size |-> (IF hi > n THEN n ELSE hi) - lo]
BY DEF PixelSpan, Clamped

\* The subregion of an accepted span is the set of pixels it touches.
LEMMA SubregionTouched ==
    ASSUME NEW span \in Accepted, NEW err \in Errors, NEW n \in Widths
    PROVE  LET s == Subregion(span.at, span.size, err, n)
               end == span.at + span.size + err
           IN  /\ s # NoSpan
               /\ s.at >= 0 /\ s.size >= 1 /\ s.at + s.size <= n
               /\ \A p \in 0..n - 1 :
                       p \in s.at..s.at + s.size - 1 <=>
                           (p + 1) * Unit > span.at * n /\ p * Unit < end * n
<1> DEFINE at == span.at
           end == span.at + span.size + err
           lo == Floor(at * n)
           hi == Ceiling(end * n)
           s == Subregion(span.at, span.size, err, n)
<1>1. /\ span.at \in Int /\ span.size \in Int
      /\ 0 <= at /\ Epsilon < span.size /\ at + span.size <= Unit
      /\ Unit \in Nat \ {0} /\ Epsilon \in Nat \ {0}
      /\ err \in Int /\ -Epsilon <= err /\ n \in Nat \ {0}
    BY AcceptedSpan, GeometryAssumption, MathAssumption DEF Span
<1>2. at \in Int /\ end \in Int /\ at < end /\ at < Unit
    BY <1>1
<1>3. s = PixelSpan(lo, hi, n)
    BY <1>1 DEF Subregion, Clamped
<1> HIDE DEF at, end
<1>4. at * n \in Int /\ end * n \in Int /\ 0 <= at * n
      /\ at * n < Unit * n /\ at * n < end * n
    BY <1>1, <1>2 DEF at
<1>5. lo \in Int /\ hi \in Int
      /\ \A p \in Int : /\ p <= lo <=> p * Unit <= at * n
                        /\ p < hi <=> p * Unit < end * n
    BY <1>4, Borders
<1> HIDE DEF lo, hi
<1>6. 0 <= lo
  <2>1. 0 * Unit <= at * n
      BY <1>1, <1>4
  <2>2. QED
      BY <1>5, <2>1
<1>7. lo < n
  <2>1. ~(n * Unit <= at * n)
      BY <1>1, <1>4
  <2>2. QED
      BY <1>1, <1>5, <2>1
<1>8. lo < hi
  <2>1. lo * Unit <= at * n /\ lo * Unit \in Int
      BY <1>1, <1>5
  <2>2. lo * Unit < end * n
      BY <1>4, <2>1
  <2>3. QED
      BY <1>5, <2>2
<1>9. s = [at |-> lo, size |-> (IF hi > n THEN n ELSE hi) - lo]
    BY <1>1, <1>3, <1>5, <1>6, <1>7, <1>8, PixelSpanKeeps
<1> HIDE DEF s
<1>10. s \in Span
    BY <1>1, <1>5, <1>9 DEF Span
<1>11. s # NoSpan /\ s.at >= 0 /\ s.size >= 1 /\ s.at + s.size <= n
    BY <1>1, <1>5, <1>6, <1>7, <1>8, <1>9, <1>10, GeometryAssumption
<1>12. ASSUME NEW p \in 0..n - 1
       PROVE  p \in s.at..s.at + s.size - 1 <=>
                    (p + 1) * Unit > at * n /\ p * Unit < end * n
  <2>1. p \in Int /\ p + 1 \in Int /\ p < n
      BY <1>1
  <2>2. p \in s.at..s.at + s.size - 1 <=> lo <= p /\ p < hi
      BY <1>1, <1>5, <1>7, <1>8, <1>9, <2>1
  <2>3. (p + 1) * Unit > at * n <=> ~(p + 1 <= lo)
    <3>1. (p + 1) * Unit \in Int
        BY <1>1, <2>1
    <3>2. QED
        BY <1>4, <1>5, <2>1, <3>1
  <2>4. QED
      BY <1>5, <2>1, <2>2, <2>3
<1>13. QED
    BY <1>11, <1>12 DEF at, end, s

-----------------------------------------------------------------------------
(* The specification *)

\* What a call can be.
LEMMA Calls ==
    ASSUME [MathNext]_call
    PROVE  \/ call' = call
           \/ \E t \in Times, frequency \in Frequencies, ms \in Settings :
                TickCall(t, frequency, ms)
           \/ \E left, right \in Accepted, left_t, right_t, t \in Times :
                BlendCall(left, left_t, right, right_t, t)
           \/ \E span \in Accepted, err \in Errors, n \in Widths :
                RenderCall(span, err, n)
BY DEF MathNext

\* Offsets, thresholds and ages are exact or refused, for every word
\* (TicksAreExact).
THEOREM TicksCorrect == MathSpec => []TicksAreExact
<1>1. MathInit => TicksAreExact
    BY DEF MathInit, TicksAreExact
<1>2. TicksAreExact /\ [MathNext]_call => TicksAreExact'
  <2> SUFFICES ASSUME TicksAreExact, [MathNext]_call PROVE TicksAreExact'
      OBVIOUS
  <2>1. ASSUME NEW t \in Times, NEW frequency \in Frequencies, NEW ms \in Settings,
               TickCall(t, frequency, ms)
        PROVE  TicksAreExact'
    <3>1. t \in Int64 /\ frequency \in UInt64 /\ ms \in Int
        BY MathAssumption, Words
    <3>2. OffsetExact(t, frequency, ms) /\ AgeExact(t, frequency)
        BY <3>1, OffsetIsExact, AgeIsExact
    <3>3. ms > 0 => ThresholdExact(ms, frequency)
        BY <3>1, ThresholdIsExact
    <3>4. QED
        BY <2>1, <3>2, <3>3 DEF TickCall, TicksAreExact
  <2>2. QED
      BY <2>1, Calls DEF BlendCall, RenderCall, TicksAreExact
<1>3. QED
    BY <1>1, <1>2, PTL DEF MathSpec

\* The freeze timeout decides as the exact one, for every word (TimeoutIsExact).
THEOREM TimeoutCorrect == MathSpec => []TimeoutIsExact
<1>1. MathInit => TimeoutIsExact
    BY DEF MathInit, TimeoutIsExact
<1>2. TimeoutIsExact /\ [MathNext]_call => TimeoutIsExact'
  <2> SUFFICES ASSUME TimeoutIsExact, [MathNext]_call PROVE TimeoutIsExact'
      OBVIOUS
  <2>1. ASSUME NEW t \in Times, NEW frequency \in Frequencies, NEW ms \in Settings,
               TickCall(t, frequency, ms)
        PROVE  TimeoutIsExact'
    <3>1. t \in Int64 /\ frequency \in UInt64 /\ ms \in Int
        BY MathAssumption, Words
    <3>2. CASE ~(ms >= 0)
        BY <2>1, <3>2 DEF TickCall, TimeoutIsExact
    <3>3. CASE ms >= 0
      <4>1. ms \in Nat
          BY <3>1, <3>3
      <4>2. QED
          BY <2>1, <3>1, <4>1, TimeoutDecides DEF TickCall, TimeoutIsExact
    <3>4. QED
        BY <3>2, <3>3
  <2>2. QED
      BY <2>1, Calls DEF BlendCall, RenderCall, TimeoutIsExact
<1>3. QED
    BY <1>1, <1>2, PTL DEF MathSpec

\* A blend of accepted ROIs is accepted, for every grid and word (BlendIsShown).
THEOREM BlendCorrect == MathSpec => []BlendIsShown
<1>1. MathInit => BlendIsShown
    BY DEF MathInit, BlendIsShown
<1>2. BlendIsShown /\ [MathNext]_call => BlendIsShown'
  <2> SUFFICES ASSUME BlendIsShown, [MathNext]_call PROVE BlendIsShown'
      OBVIOUS
  <2>1. ASSUME NEW left \in Accepted, NEW right \in Accepted, NEW left_t \in Times,
               NEW right_t \in Times, NEW t \in Times,
               BlendCall(left, left_t, right, right_t, t)
        PROVE  BlendIsShown'
    <3>1. left_t \in Int64 /\ right_t \in Int64 /\ t \in Int64
        BY MathAssumption
    <3>2. QED
        BY <2>1, <3>1, BlendInside DEF BlendCall, BlendIsShown
  <2>2. QED
      BY <2>1, Calls DEF TickCall, RenderCall, BlendIsShown
<1>3. QED
    BY <1>1, <1>2, PTL DEF MathSpec

\* The subregion is the pixels that the ROI touches, for every grid and width
\* (SubregionFits).
THEOREM SubregionCorrect == MathSpec => []SubregionFits
<1>1. MathInit => SubregionFits
    BY DEF MathInit, SubregionFits
<1>2. SubregionFits /\ [MathNext]_call => SubregionFits'
  <2> SUFFICES ASSUME SubregionFits, [MathNext]_call PROVE SubregionFits'
      OBVIOUS
  <2>1. ASSUME NEW span \in Accepted, NEW err \in Errors, NEW n \in Widths,
               RenderCall(span, err, n)
        PROVE  SubregionFits'
      BY <2>1, SubregionTouched DEF RenderCall, SubregionFits
  <2>2. QED
      BY <2>1, Calls DEF TickCall, BlendCall, SubregionFits
<1>3. QED
    BY <1>1, <1>2, PTL DEF MathSpec
=============================================================================
