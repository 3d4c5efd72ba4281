---------------------------- MODULE MCRoiIpcClient ----------------------------
(***************************************************************************)
(* Instances for model checking RoiIpcClient.                              *)
(***************************************************************************)
EXTENDS RoiIpcClient, TLC

CONSTANTS h1, h2, MaxSeq

TwoPipes == {1, 2}
TwoHandles == {h1, h2}
HandleSymmetry == Permutations(TwoHandles)
PipeMessages == [stream_id : TwoPipes, epoch : {1}, seq : 1..MaxSeq]
=============================================================================
