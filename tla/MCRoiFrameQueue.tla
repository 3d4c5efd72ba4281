--------------------------- MODULE MCRoiFrameQueue ---------------------------
(***************************************************************************)
(* Message sets for model checking RoiFrameQueue.                          *)
(***************************************************************************)
EXTENDS RoiFrameQueue

CONSTANTS MaxStream, MaxEpoch, MaxSeq

SomeMessages == [stream_id : 1..MaxStream, epoch : 1..MaxEpoch, seq : 1..MaxSeq]
=============================================================================
