---------------------------- MODULE RoiHoldPolicy ----------------------------
(***************************************************************************)
(* What the ROI interpolator promises about the picture, with nothing of   *)
(* anchors, buffers, timeouts or frames: who owns the picture, whether the *)
(* owner may move it, and what is shown.                                   *)
(*                                                                         *)
(*   idle     no stream; what is shown stays                               *)
(*   warming  a new stream is being collected; what is shown stays, but    *)
(*            an empty picture may get its first ROI                       *)
(*   live     the stream moves the ROI                                     *)
(*   blocked  the stream changed its mode in flight; what is shown stays   *)
(*            until another stream takes over                              *)
(***************************************************************************)
EXTENDS Integers

CONSTANTS Streams, NoStream

VARIABLES owner, phase, shown

vars == <<owner, phase, shown>>

NoRoi == -1

Init == owner = NoStream /\ phase = "idle" /\ shown = NoRoi

\* A stream takes over; it is live at once if one frame is all it needs.
Adopt(s) ==
    /\ s # owner
    /\ owner' = s
    /\ phase' \in {"warming", "live"}
    /\ UNCHANGED shown

GoLive ==
    /\ phase = "warming" /\ phase' = "live"
    /\ UNCHANGED <<owner, shown>>

Block ==
    /\ phase \in {"warming", "live"} /\ phase' = "blocked"
    /\ UNCHANGED <<owner, shown>>

Release ==
    /\ owner' = NoStream /\ phase' = "idle"
    /\ shown' \in {shown, NoRoi}

ShowFirst ==
    /\ shown = NoRoi /\ phase = "warming"
    /\ shown' \in Nat
    /\ UNCHANGED <<owner, phase>>

Move ==
    /\ phase = "live"
    /\ shown' \in Nat
    /\ UNCHANGED <<owner, phase>>

Next == (\E s \in Streams : Adopt(s)) \/ GoLive \/ Block \/ Release
            \/ ShowFirst \/ Move

Spec == Init /\ [][Next]_vars
=============================================================================
