---------------------------- MODULE MCDeployment ----------------------------
(* Constant values and constraints for checking Deployment with TLC. *)
EXTENDS Deployment, TLC

(* Builds of equal size: comparing sizes tells none of them apart. *)
SameSize == [b \in Builds |-> 1]

BuildSymmetry == Permutations(Builds)
=============================================================================
