------------------------------ MODULE TickArith ------------------------------
(***************************************************************************)
(* The conversions between milliseconds and counter ticks of the filter    *)
(* (src/src/roi_filter_source.c, 283-380) and of the interpolator          *)
(* (roi_interpolator_compute_timeout_ticks), in the 64-bit arithmetic they *)
(* are written in: a signed result is taken modulo the word, so an         *)
(* operation without its overflow check gives the wrong number here as it  *)
(* may there.  A function that returns false gives Fails.                  *)
(***************************************************************************)
EXTENDS Integers

CONSTANTS
    WordHalf,       \* 2^63
    SecondMs,       \* milliseconds in a second, 1000
    Fails           \* the function returns false

ASSUME ArithAssumption ==
    /\ WordHalf \in Nat /\ SecondMs \in Nat
    /\ 2 < SecondMs /\ SecondMs < WordHalf
    /\ Fails \notin Int

Int64Max == WordHalf - 1
Int64Min == -WordHalf
Int64 == Int64Min..Int64Max
UInt64 == 0..2 * WordHalf - 1

Signed(n) == ((n + WordHalf) % (2 * WordHalf)) - WordHalf
Unsigned(n) == n % (2 * WordHalf)

Magnitude(n) == IF n < 0 THEN -n ELSE n
Negated(negative, n) == IF negative THEN -n ELSE n

\* A frequency from the wire that can be a divisor of signed 64-bit ticks.
UsableFrequency(frequency) == frequency # 0 /\ frequency <= Int64Max

\* The sum leaves the range of int64_t.
SumOverflows(t_qpc, ticks) ==
    \/ ticks > 0 /\ t_qpc > Int64Max - ticks
    \/ ticks < 0 /\ t_qpc < Int64Min - ticks

\* Mutant: the product is not checked.
OffsetUnchecked(t_qpc, frequency, offset_ms) ==
    LET ticks == Negated(offset_ms < 0,
                    Signed(frequency * Magnitude(offset_ms)) \div SecondMs)
    IN  IF ~UsableFrequency(frequency) \/ SumOverflows(t_qpc, ticks)
        THEN Fails ELSE Signed(t_qpc + ticks)

\* roi_filter_try_apply_qpc_offset_ticks: the new t_qpc.
TryOffset(t_qpc, frequency, offset_ms) ==
    LET magnitude == Magnitude(offset_ms)
        ticks == Negated(offset_ms < 0,
                         Signed(frequency * magnitude) \div SecondMs)
    IN  IF offset_ms = 0 THEN t_qpc
        ELSE IF \/ ~UsableFrequency(frequency)
                \/ frequency > Int64Max \div magnitude
                \/ SumOverflows(t_qpc, ticks)
        THEN Fails
        ELSE Signed(t_qpc + ticks)

\* roi_filter_try_compute_stale_threshold_ticks
TryStaleThreshold(stale_drop_ms, frequency) ==
    IF \/ stale_drop_ms = 0 \/ ~UsableFrequency(frequency)
       \/ frequency > Int64Max \div stale_drop_ms
    THEN Fails
    ELSE LET ticks == Signed(frequency * stale_drop_ms) \div SecondMs
         IN  IF ticks <= 0 THEN 1 ELSE ticks

\* roi_filter_ticks_to_ms_clamped
TicksToMs(ticks, frequency) ==
    IF ticks <= 0 \/ ~UsableFrequency(frequency) THEN 0
    ELSE IF ticks > Int64Max \div SecondMs THEN Int64Max
    ELSE Signed(ticks * SecondMs) \div frequency

\* roi_filter_ticks_to_ms_signed_clamped
TicksToMsSigned(ticks, frequency) ==
    LET size == IF ticks = Int64Min THEN Int64Max ELSE Magnitude(ticks)
    IN  Negated(ticks < 0, TicksToMs(size, frequency))

\* Mutant: the product wraps before it is divided.
SaturatedTooLate(timeout_ms, frequency) ==
    IF timeout_ms = 0 \/ frequency = 0 THEN 0
    ELSE LET ticks == Unsigned(timeout_ms * frequency) \div SecondMs
         IN  IF ticks = 0 THEN 1 ELSE IF ticks > Int64Max THEN Int64Max ELSE ticks

\* roi_interpolator_compute_timeout_ticks
SaturatedTimeout(timeout_ms, frequency) ==
    IF timeout_ms = 0 \/ frequency = 0 THEN 0
    ELSE IF timeout_ms > (2 * WordHalf - 1) \div frequency THEN Int64Max
    ELSE LET ticks == Unsigned(timeout_ms * frequency) \div SecondMs
         IN  IF ticks = 0 THEN 1
             ELSE IF ticks > Int64Max THEN Int64Max ELSE ticks

\* The tick count without any limit: what the conversions stand for.
ExactTicks(ms, frequency) == (ms * frequency) \div SecondMs
=============================================================================
