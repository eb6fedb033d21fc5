------------------------ MODULE MCNavigationDelivery ------------------------
(* A small instance of NavigationDelivery. *)
EXTENDS NavigationDelivery, TLC

CONSTANTS r1, r2

(* Two epochs in every second: a measurement rate of 2 Hz. In the first     *)
(* second the time becomes valid before the date does.                      *)
MCSecond == [e \in 0..MaxEpoch |-> (e + 1) \div 2]
=============================================================================
