----------------------------- MODULE MCRagIndex -----------------------------
(***************************************************************************)
(* Small instances of RagIndex for TLC.                                    *)
(***************************************************************************)
EXTENDS RagIndex, TLC

CONSTANTS p1, p2, p3, h1, h2, h3, short, long

OneReplica == {p1}
ThreeReplicas == {p1, p2, p3}
ThreeHandles == {h1, h2, h3}
TwoArticles == {short, long}
Lengths == (short :> 1) @@ (long :> 2)
IndexSymmetry == Permutations(Replicas) \cup Permutations(Handles)
=============================================================================
