---------------------------- MODULE MCDeployment ----------------------------
(* Replicas, keys and users as model values. *)
EXTENDS Deployment, TLC

\* Replicas are interchangeable, and so are keys and users.
Symmetry == Permutations(Workers) \cup Permutations(Keys) \cup Permutations(Users)
=============================================================================
