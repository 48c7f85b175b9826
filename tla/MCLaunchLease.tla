---------------------------- MODULE MCLaunchLease ----------------------------
EXTENDS LaunchLease, TLC

CONSTANTS l1, l2, l3, candidate, production

\* Two launches in a candidate directory, one in the production directory.
MixedHome == l1 :> candidate @@ l2 :> candidate @@ l3 :> production
Symmetry == Permutations({l1, l2})
===============================================================================
