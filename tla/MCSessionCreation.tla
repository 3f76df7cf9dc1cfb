-------------------------- MODULE MCSessionCreation --------------------------
(***************************************************************************)
(* Small instances of SessionCreation for TLC.                             *)
(***************************************************************************)
EXTENDS SessionCreation

CONSTANTS k1, s1, s2, s3, r1, r2

OneKey == {k1}
AllHeaders == Keys \cup {NoKey, EmptyKey}
ThreeIds == {s1, s2, s3}
TwoRequests == {r1, r2}
=============================================================================
