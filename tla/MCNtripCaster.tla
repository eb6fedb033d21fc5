---------------------------- MODULE MCNtripCaster ----------------------------
(* Small instances of NtripCaster. *)
EXTENDS NtripCaster, TLC

CONSTANTS p1, p2

(* A rover; another one, a source, or a request that is refused. *)
MCAsks == (p1 :> {"GET"}) @@ (p2 :> Kinds)
=============================================================================
