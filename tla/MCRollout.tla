-------------------------------- MODULE MCRollout --------------------------------
(* The two replicas of VM100, small enough to be checked as they are.          *)
EXTENDS Rollout
=============================================================================
