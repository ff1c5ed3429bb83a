------------------------------- MODULE MCRateLimit -------------------------------
(* One key, two replicas.                                                       *)
EXTENDS RateLimit, TLC

CONSTANTS q1, q2, q3, r1, r2
MCRequests == {q1, q2, q3}
MCReplicas == {r1, r2}
MCSymmetry == Permutations(MCRequests) \cup Permutations(MCReplicas)
=============================================================================
