-------------------------- MODULE MCRoiInterpolator --------------------------
(***************************************************************************)
(* Frame sets for model checking RoiInterpolator.  A keepalive and a frame *)
(* with refused geometry have one t_qpc: the code never reads it.          *)
(***************************************************************************)
EXTENDS RoiInterpolator, TLC

CONSTANTS a, b, MaxSeq, MaxT, MaxRoi

Flags == [frame_stream : BOOLEAN, presend_v2 : BOOLEAN]

Message(s, n, g, t, v, r) ==
    [stream |-> s, seq |-> n, t_qpc |-> t, qpc_frequency |-> 1000, valid |-> v,
     roi |-> r, frame_stream |-> g.frame_stream, presend_v2 |-> g.presend_v2]

FramesOf(streams, flags) ==
    LET who == streams \X (0..MaxSeq) \X flags
    IN  {Message(w[1], w[2], w[3], t, TRUE, r) :
            w \in who, t \in 0..MaxT, r \in 0..MaxRoi}
        \cup {Message(w[1], w[2], w[3], 0, v, NoRoi) :
            w \in who, v \in BOOLEAN}

Presend == {g \in Flags : g.presend_v2}
Legacy == {g \in Flags : ~g.presend_v2}

StreamSymmetry == Permutations({a, b})

TwoStreams == {a, b}
PresendFrames == FramesOf(TwoStreams, {g \in Presend : ~g.frame_stream})
LegacyFrames == FramesOf(TwoStreams, {g \in Legacy : ~g.frame_stream})
FrameStreamFrames == FramesOf(TwoStreams, {g \in Flags : g.frame_stream})
=============================================================================
