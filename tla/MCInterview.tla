----------------------------- MODULE MCInterview -----------------------------
(***************************************************************************)
(* Small instances of Interview for TLC.                                   *)
(***************************************************************************)
EXTENDS Interview, TLC

CONSTANTS a, b, c, d, r1, r2

ThreeTexts == {a, b, c}
FourTexts == {a, b, c, d}
OneSeed == <<a>>
TwoSeeds == <<a, b>>
TwoRequests == {r1, r2}
RequestSymmetry == Permutations(Requests)
=============================================================================
