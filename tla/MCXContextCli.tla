----------------------------- MODULE MCXContextCli -----------------------------
EXTENDS XContextCli, TLC

CONSTANTS p1, p2, u1, u2, b1, b2, t1, t2

MCPages == {b1 :> t1, b1 :> t2 @@ b2 :> t1}
MCSymmetry == Permutations(Procs) \cup Permutations(Users)
================================================================================
