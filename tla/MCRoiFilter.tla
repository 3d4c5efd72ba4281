----------------------------- MODULE MCRoiFilter -----------------------------
(***************************************************************************)
(* Messages for model checking RoiFilter.  A tick of the counter is a      *)
(* millisecond, except for the frames that carry no frequency.  The ROI    *)
(* tells flagged frames from the others.                                   *)
(***************************************************************************)
EXTENDS RoiFilter, TLC

CONSTANTS a, b

TwoStreams == {a, b}
TwoEpochs == (a :> 0) @@ (b :> 1)

Frame(s, n, t, frequency, v, roi, presend) ==
    [stream |-> s, seq |-> n, t_qpc |-> t, qpc_frequency |-> frequency,
     valid |-> v, roi |-> roi, frame_stream |-> FALSE, presend_v2 |-> presend]

Plain(s, n, t, presend) ==
    [frame |-> Frame(s, n, t, 1000, TRUE, n, presend), effective |-> FALSE]
Flagged(s, n, t, presend) ==
    [frame |-> Frame(s, n, t, 1000, TRUE, 2, presend), effective |-> TRUE]
NoFrequency(s, n, t) ==
    [frame |-> Frame(s, n, t, 0, TRUE, n, FALSE), effective |-> FALSE]

MixedMessages ==
    {Plain(a, 0, 1, TRUE), Plain(a, 1, 3, TRUE), Plain(a, 1, 3, FALSE),
     NoFrequency(b, 0, 1),
     Flagged(a, 0, 2, TRUE), Flagged(a, 1, 2, FALSE)}
FewMessages == {Plain(a, 0, 1, FALSE), Flagged(a, 1, 1, FALSE),
                NoFrequency(b, 0, 1)}
AllFrames == {m.frame : m \in MixedMessages}
=============================================================================
