----------------------------- MODULE BitStoreMC -----------------------------
(***************************************************************************)
(* Instances of BitStore for TLC.                                          *)
(***************************************************************************)
EXTENDS BitStore, BitRequests
=============================================================================
