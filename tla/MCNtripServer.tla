---------------------------- MODULE MCNtripServer ----------------------------
(* A small instance of NtripServer: enough descriptors for two sessions     *)
(* with reconnects in both.                                                 *)
EXTENDS NtripServer
=============================================================================
