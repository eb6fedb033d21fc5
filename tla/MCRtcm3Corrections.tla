------------------------- MODULE MCRtcm3Corrections -------------------------
(* A small instance of Rtcm3Corrections: a burst of two messages, frames of *)
(* two or three cells, and a damaged frame of each interesting kind.        *)
EXTENDS Rtcm3Corrections

MCIds == 1..2

(* Intact frames, one of them with a preamble byte in its payload; a frame  *)
(* whose damaged length claims more than the field holds; the rest of a     *)
(* message the stream was joined in, which looks like a short frame.        *)
MCShapes ==
    {[claims |-> <<2, 0>>, ok |-> TRUE],
     [claims |-> <<3, 0, 2>>, ok |-> TRUE],
     [claims |-> <<7, 0>>, ok |-> FALSE]}

MCRequests == {<<1, 2>>}
=============================================================================
