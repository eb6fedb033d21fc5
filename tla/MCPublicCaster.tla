---------------------------- MODULE MCPublicCaster ----------------------------
(* A small instance of PublicCaster: two bases that want the mountpoint     *)
(* under a name each; the second is sometimes a rover of the first.         *)
EXTENDS PublicCaster, TLC

CONSTANTS p1, p2

MCAsks ==
    (p1 :> {<<"POST", "a">>, <<"refused", "a">>})
    @@ (p2 :> {<<"POST", "b">>, <<"GET", "a">>, <<"GET", "">>})
=============================================================================
