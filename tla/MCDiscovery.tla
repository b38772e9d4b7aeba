---------------------------- MODULE MCDiscovery ----------------------------
(* An instance of Discovery for TLC. *)
EXTENDS Discovery, TLC
CONSTANTS ann, bob

(* Ann's clock is one unit ahead of Bob's. *)
AnnAhead == [u \in {ann, bob} |-> IF u = ann THEN 1 ELSE 0]

(* Nothing tells one call of Place from another. *)
Interchangeable == Permutations(Places)
=============================================================================
