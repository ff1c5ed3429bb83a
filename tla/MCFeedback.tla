------------------------------- MODULE MCFeedback -------------------------------
(* Calls on two replicas whose memories hold one record each.                  *)
EXTENDS Feedback, TLC

CONSTANTS c1, c2, c3, r1, r2
MCCalls == {c1, c2, c3}
MCReplicas == {r1, r2}
MCSymmetry == Permutations(MCCalls) \cup Permutations(MCReplicas)
=============================================================================
