----------------------------- MODULE MCLlmOutput -----------------------------
(***************************************************************************)
(* Small instances of LlmOutput for TLC: the shipped weights, every list   *)
(* of up to four questions, every list of up to three contradictions,      *)
(* assessments of two ratings at most, and categories assessed again.      *)
(***************************************************************************)
EXTENDS LlmOutput

CONSTANTS k1, k2, k3

ThreeKeys == {k1, k2, k3}
UpTo(n, S) == UNION {[1..m -> S] : m \in 0..n}

SmallLists == UpTo(4, ThreeKeys)
SmallWishes == {-2, -1, 0, 1, 2, 10}

ShippedWeights == <<2, 2, 3, 2, 3, 2, 1, 1, 2, 2>>
ShippedSums == <<0, 2, 4, 7, 9, 12, 14, 15, 16, 18, 20>>

Ratings == [tier : Tiers, evidence : Strengths]
Assess(c, r) == [category |-> c, tier |-> r.tier, evidence |-> r.evidence]
Rating(t, e) == [tier |-> t, evidence |-> e]

\* The first categories rated one way, the others another.
Split(n, r, s) == [c \in 1..10 |-> Assess(c, IF c <= n THEN r ELSE s)]

Analysis(cs, rs, as) == [contradictions |-> cs, risks |-> rs, assessments |-> as]

SomeContradictions == UpTo(3,
  {[topic |-> k, genuine |-> g, severity |-> s] :
     k \in {k1, k2}, g \in {TRUE}, s \in {"MEDIUM", "HIGH", "CRITICAL"}}
  \cup {[topic |-> k1, genuine |-> FALSE, severity |-> "CRITICAL"]})

SomeRisks == UpTo(1, [title : {k1, k3}, severity : {"MEDIUM", "CRITICAL"}])

Flawless == Split(10, Rating("Excellent", "High"), Rating("Excellent", "High"))

\* Contradictions and risks, under scores that are the best.
Contradicted == {Analysis(cs, rs, Flawless) : cs \in SomeContradictions, rs \in SomeRisks}

\* Scores of every kind.
Scored == {Analysis(<<>>, <<>>, Split(n, r, s)) : n \in {1, 3, 5, 8}, r \in Ratings, s \in Ratings}

\* A category assessed twice, or in words scoring does not know.
Reassessed ==
  {Analysis(<<>>, <<>>, Append(Split(5, r, s), Assess(c, t))) :
     r \in {Rating("Excellent", "Medium"), Rating("Weak", "Low")},
     s \in {Rating("Strong", "Low"), Rating("Critical", "High")},
     c \in {1, 7},
     t \in Ratings \cup {Rating("unknown", "High"), Rating("Weak", "unknown")}}

SmallAnalyses == Contradicted \cup Scored \cup Reassessed

\* Contradictions alone, in an interview that otherwise went well.
ContradictedAnalyses == {Analysis(cs, <<>>, Flawless) : cs \in SomeContradictions}
NoLists == {}
=============================================================================
