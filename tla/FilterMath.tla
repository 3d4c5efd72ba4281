------------------------------ MODULE FilterMath ------------------------------
(***************************************************************************)
(* The pure functions of the filter and the interpolator (TickArith,       *)
(* RoiGeometry), called with every argument the program can call them      *)
(* with: one behaviour makes one call, kept in the variable call.          *)
(***************************************************************************)
EXTENDS RoiGeometry

CONSTANTS
    Times,          \* effective times and counter readings
    Frequencies,    \* qpc_frequency, from the wire
    Settings,       \* a time in milliseconds from the settings
    Coordinates,    \* coordinates and sizes on the wire
    Widths,         \* widths of a source
    Errors          \* what a sum of coordinates may be off by

ASSUME MathAssumption ==
    /\ Times \subseteq Int64 /\ Frequencies \subseteq UInt64
    /\ Settings \subseteq Int64Min + 1..Int64Max
    /\ Coordinates \subseteq Int /\ Widths \subseteq Nat \ {0}
    /\ \A e \in Errors : e \in Int /\ -Epsilon <= e /\ e <= Epsilon

VARIABLE call

\* The ROIs that the interpolator keeps.
Accepted == {Normalized(at, size) : at, size \in Coordinates} \ {NoSpan}

\* External: the frame, the settings and the clock that a tick works with.
TickCall(t, frequency, ms) ==
    call' = [kind |-> "ticks", t |-> t, frequency |-> frequency, ms |-> ms]

\* External: two anchors around the time that is rendered.
BlendCall(left, left_t, right, right_t, t) ==
    call' = [kind |-> "blend", left |-> left, left_t |-> left_t,
             right |-> right, right_t |-> right_t, t |-> t]

\* External: the ROI that is shown, on a source of n pixels.
RenderCall(span, err, n) ==
    call' = [kind |-> "render", span |-> span, err |-> err, n |-> n]

MathInit == call = [kind |-> "none"]

MathNext ==
    /\ call.kind = "none"
    /\ \/ \E t \in Times, frequency \in Frequencies, ms \in Settings :
                TickCall(t, frequency, ms)
       \/ \E left, right \in Accepted, left_t, right_t, t \in Times :
                BlendCall(left, left_t, right, right_t, t)
       \/ \E span \in Accepted, err \in Errors, n \in Widths :
                RenderCall(span, err, n)

MathSpec == MathInit /\ [][MathNext]_call

-----------------------------------------------------------------------------
(* What must hold *)

\* Shifting a time by an offset is exact or refused, and it is refused only when
\* the frequency cannot be used, the product does not fit, or the shifted time
\* does not.
OffsetExact(t, frequency, ms) ==
    LET shifted == t + Negated(ms < 0, ExactTicks(Magnitude(ms), frequency))
        result == TryOffset(t, frequency, ms)
    IN  \/ result = shifted /\ result \in Int64
        \/ /\ result = Fails /\ ms # 0
           /\ \/ ~UsableFrequency(frequency)
              \/ Magnitude(ms) * frequency > Int64Max
              \/ shifted \notin Int64

\* A stale threshold that is found is a positive number of ticks, and exact
\* except that it is never zero.
ThresholdExact(ms, frequency) ==
    LET ticks == ExactTicks(ms, frequency)
        result == TryStaleThreshold(ms, frequency)
    IN  result # Fails =>
            /\ result \in 1..Int64Max
            /\ result = IF ticks = 0 THEN 1 ELSE ticks

\* An age in the log is the exact one towards zero, or the largest there is.
AgeExact(ticks, frequency) ==
    LET size == Magnitude(ticks)
        result == TicksToMsSigned(ticks, frequency)
    IN  UsableFrequency(frequency) =>
            \/ result = Negated(ticks < 0, (size * SecondMs) \div frequency)
            \/ size > Int64Max \div SecondMs /\ Magnitude(result) = Int64Max

\* No conversion between milliseconds and ticks gives a wrong number at the
\* limits of the word: no effective time wraps to the other end of the clock, no
\* stale threshold becomes negative and drops every frame.
TicksAreExact ==
    call.kind = "ticks" =>
        /\ OffsetExact(call.t, call.frequency, call.ms)
        /\ call.ms > 0 => ThresholdExact(call.ms, call.frequency)
        /\ AgeExact(call.t, call.frequency)

\* The freeze timeout decides as the exact timeout would, for every frequency on
\* the wire: where the product leaves the word, the timeout is out of reach, as
\* the exact one is for all elapsed times below 2^64/1000 ticks.
TimeoutIsExact ==
    call.kind = "ticks" /\ call.ms >= 0 =>
        LET ticks == ExactTicks(call.ms, call.frequency)
            least == IF call.ms = 0 \/ call.frequency = 0 THEN 0
                     ELSE IF ticks = 0 THEN 1 ELSE ticks
            coded == SaturatedTimeout(call.ms, call.frequency)
        IN  /\ coded \in 0..Int64Max
            /\ coded = 0 <=> least = 0
            /\ call.t < (2 * WordHalf) \div SecondMs =>
                    (call.t >= coded <=> call.t >= least)

\* Between two ROIs that were accepted every blend is accepted too, inside the
\* picture and no smaller than the smaller of them: the picture does not blink
\* out on the way, also when the difference of two effective times wraps.
BlendIsShown ==
    call.kind = "blend" =>
        LET l == call.left
            r == call.right
            b == Lerp(l, call.left_t, r, call.right_t, call.t)
        IN  /\ b # NoSpan
            /\ l.size <= b.size \/ r.size <= b.size
            /\ b.at >= 0 /\ b.at + b.size <= Unit

\* A ROI is shown as the pixels of the source that it touches, all of them and
\* no other: at least one, and none outside the source.
SubregionFits ==
    call.kind = "render" =>
        LET s == Subregion(call.span.at, call.span.size, call.err, call.n)
            end == call.span.at + call.span.size + call.err
        IN  /\ s # NoSpan
            /\ s.at >= 0 /\ s.size >= 1 /\ s.at + s.size <= call.n
            /\ \A p \in 0..call.n - 1 :
                    p \in s.at..s.at + s.size - 1 <=>
                        (p + 1) * Unit > call.span.at * call.n /\ p * Unit < end * call.n
=============================================================================
