---------------------------- MODULE ConnectionMC ----------------------------
(***************************************************************************)
(* Instances of Connection for TLC.                                        *)
(***************************************************************************)
EXTENDS Connection, TLC

\* Connections are interchangeable.
Symmetric == Permutations(Conns)
=============================================================================
