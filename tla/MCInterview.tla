---------------------------- MODULE MCInterview ----------------------------
(* Instances of Interview for TLC. *)
EXTENDS Interview, TLC

CONSTANTS c1, c2, j1, j2, s1, s2, t1, t2, h1, h2, k1, k2, w1

\* Rows, requests and codes of a kind are interchangeable.
Symmetry == UNION {Permutations(X) : X \in {Candidates, Jobs, Staff, Codes}}
=============================================================================
