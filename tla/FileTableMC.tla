---------------------------- MODULE FileTableMC ----------------------------
(***************************************************************************)
(* Instances of FileTable for TLC.                                         *)
(***************************************************************************)
EXTENDS FileTable, TLC

CONSTANTS k1, k2, k3, b1, b2

\* k1 and k2 share a bucket, k3 has one of its own.
TwoBuckets == k1 :> b1 @@ k2 :> b1 @@ k3 :> b2

\* No collisions (Buckets <- Keys in the configuration).
DistinctBuckets == [k \in Keys |-> k]

\* Bound: a run goes no further once an eviction has opened into a slot it did
\* not evict, as what the invariants say ends there.
Intact == ~clobbered

\* k1 and k2 are interchangeable in both maps, and so are the workers.
Symmetric == Permutations({k1, k2}) \cup Permutations(Workers)
=============================================================================
