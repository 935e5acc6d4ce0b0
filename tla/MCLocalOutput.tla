------------------------------ MODULE MCLocalOutput ------------------------------
EXTENDS LocalOutput, TLC

CONSTANTS p1, p2

MCRequests == {1 :> 2, 2 :> 1}
MCEarlier == {1 :> 1 @@ 2 :> 1}
MCSymmetry == Permutations(Procs)
================================================================================
