--------------------------- MODULE MCHatLifecycle ---------------------------
(* A small instance of HatLifecycle: all three products; an object and the  *)
(* one that replaces it.                                                    *)
EXTENDS HatLifecycle
=============================================================================
