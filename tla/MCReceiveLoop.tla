--------------------------- MODULE MCReceiveLoop ----------------------------
(* Small instances of UartReceiveLoop: a buffer of two or three batches of   *)
(* two cells stands for the 8 KiB buffer and its 1 KiB batches.             *)
EXTENDS UartReceiveLoop

Frame(n, c, good, isPvt) == [size |-> n, claim |-> c, ok |-> good, pvt |-> isPvt]

(* A NAV-PVT, a longer message, one whose damaged header claims cells of    *)
(* its successor, and one that claims more cells than the buffer has: the   *)
(* length field has 16 bits, the buffer 8 KiB.                              *)
MCShapes ==
    {Frame(2, 2, TRUE, TRUE), Frame(3, 3, TRUE, FALSE),
     Frame(2, 4, FALSE, FALSE), Frame(2, 7, FALSE, FALSE)}
=============================================================================
