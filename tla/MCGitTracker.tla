---------------------------- MODULE MCGitTracker ----------------------------
(* At most MaxBad generations fail, all of the first branch; the second    *)
(* shows what a failing or stuck first branch does to the others.          *)
EXTENDS GitTracker, FiniteSets

CONSTANTS MaxBad

MCHeads == [b \in Branches |-> IF b = 1 THEN MaxKernel ELSE 2]
MCFailing == {f \in SUBSET ({1} \X (1..MaxKernel) \X (1..MaxRev)) : Cardinality(f) <= MaxBad}
=============================================================================
