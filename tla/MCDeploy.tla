------------------------------- MODULE MCDeploy -------------------------------
(* Deployments are alike: permuting them changes nothing.                  *)
EXTENDS Deploy, TLC
AnyDeployment == Permutations(Deployments)
=============================================================================
