----------------------------- MODULE RoiGeometry -----------------------------
(***************************************************************************)
(* A ROI's way to the screen: normalised when its frame arrives, blended   *)
(* between two anchors (src/src/roi_interpolator.c), and turned into a     *)
(* rectangle of whole pixels of the source (src/src/roi_filter_source.c).  *)
(*                                                                         *)
(* The horizontal axis (x, w, width) and the vertical one (y, h, height)   *)
(* are treated alike and do not mix; a span is one of them.  A coordinate  *)
(* is a number of 1/Unit; a blend is rounded down to the next coordinate,  *)
(* and the one sum of floats that reaches a pixel border is off by err.    *)
(* Effective times wrap around like int64_t.                               *)
(***************************************************************************)
EXTENDS TickArith

CONSTANTS
    Unit,       \* 1.0f
    Epsilon,    \* ROI_INTERPOLATOR_ROI_EPSILON
    NoSpan      \* the function returns false

Span == [at : Int, size : Int]

ASSUME GeometryAssumption ==
    /\ Unit \in Nat \ {0} /\ Epsilon \in Nat \ {0}
    /\ NoSpan \notin Span

Clamped(v, lo, hi) == IF v < lo THEN lo ELSE IF v > hi THEN hi ELSE v

\* floor and ceil of a coordinate times a number of pixels.
Floor(n) == n \div Unit
Ceiling(n) == -((-n) \div Unit)

\* roi_interpolator_try_normalize_roi
Normalized(at, size) ==
    LET p == Clamped(at, 0, Unit)
        s == IF size > Unit - p THEN Unit - p ELSE size
    IN  IF \/ size <= 0 \/ at < -Epsilon \/ at > Unit + Epsilon
           \/ at + size > Unit + Epsilon
           \/ s <= Epsilon
        THEN NoSpan ELSE [at |-> p, size |-> s]

\* Mutant: the position between the anchors is not limited to them.
Unlimited(n, d) == IF d < 0 THEN <<-n, -d>> ELSE <<n, d>>

\* alpha, as a fraction with a positive denominator.
Alpha(n, d) ==
    IF d < 0 THEN <<Clamped(-n, 0, -d), -d>> ELSE <<Clamped(n, 0, d), d>>

\* The coordinate at the fraction alpha of the way from l to r.
Between(l, r, alpha) == l + ((r - l) * alpha[1]) \div alpha[2]

\* roi_interpolator_lerp_between_anchors
Lerp(left, left_t, right, right_t, render_qpc) ==
    LET alpha == Alpha(Signed(render_qpc - left_t), Signed(right_t - left_t))
    IN  IF right_t <= left_t THEN Normalized(right.at, right.size)
        ELSE Normalized(Between(left.at, right.at, alpha),
                        Between(left.size, right.size, alpha))

\* The pixel borders that a span of a source of n pixels is given: the chain of
\* corrections in roi_filter_try_compute_subregion_px, for any floor and ceil.
PixelSpan(lo, hi, n) ==
    LET x == Clamped(lo, 0, n)
        end == IF hi < x THEN x ELSE IF hi > n THEN n ELSE hi
        x2 == IF end <= x /\ x > 0 THEN x - 1 ELSE x
        end2 == IF end <= x2 THEN x2 + 1 ELSE end
        x3 == IF end2 > n THEN n - 1 ELSE x2
        end3 == IF end2 > n THEN n ELSE end2
    IN  IF x3 < 0 \/ end3 <= x3 THEN NoSpan ELSE [at |-> x3, size |-> end3 - x3]

\* Mutant: the far border is rounded down as the near one is.
SubregionRoundedDown(at, size, err, n) ==
    LET p == Clamped(at, 0, Unit)
        s == IF size > Unit - p THEN Unit - p ELSE size
    IN  IF n = 0 \/ size <= 0 \/ s <= 0 THEN NoSpan
        ELSE PixelSpan(Floor(p * n), Floor((p + s + err) * n), n)

\* roi_filter_try_compute_subregion_px
Subregion(at, size, err, n) ==
    LET p == Clamped(at, 0, Unit)
        s == IF size > Unit - p THEN Unit - p ELSE size
    IN  IF n = 0 \/ size <= 0 \/ s <= 0 THEN NoSpan
        ELSE PixelSpan(Floor(p * n), Ceiling((p + s + err) * n), n)
=============================================================================
