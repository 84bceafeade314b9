-------------------------- MODULE BitStoreCrashMC --------------------------
(***************************************************************************)
(* Instance of BitStoreCrash for TLC.                                      *)
(***************************************************************************)
EXTENDS BitStoreCrash, BitRequests
=============================================================================
