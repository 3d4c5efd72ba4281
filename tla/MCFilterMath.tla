---------------------------- MODULE MCFilterMath ----------------------------
(***************************************************************************)
(* Arguments for model checking FilterMath: the whole of a 4-bit word, and *)
(* coordinates on a grid of fifths.                                        *)
(***************************************************************************)
EXTENDS FilterMath

AllTimes == Int64
AllFrequencies == UInt64
AllSettings == -7..7
WireCoordinates == -1..6
RoundingErrors == -1..1
=============================================================================
