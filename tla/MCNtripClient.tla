---------------------------- MODULE MCNtripClient ----------------------------
(* A small instance of NtripClient: an intact frame whose payload looks     *)
(* like a preamble, and a damaged one that claims cells of its successor.   *)
EXTENDS NtripClient

MCShapes ==
    {[claims |-> <<3, 0, 2>>, ok |-> TRUE],
     [claims |-> <<2, 5>>, ok |-> TRUE],
     [claims |-> <<4, 0>>, ok |-> FALSE]}
=============================================================================
