------------------------- MODULE MCFirstCreateRecovery -------------------------
(***************************************************************************)
(* One record besides the first, and the index: three documents, two of    *)
(* them created by the recovery.                                           *)
(***************************************************************************)
EXTENDS FirstCreateRecovery, TLC

CONSTANTS c001, p001, base, edited, i1, i2, i3, i4, e1, e2

MCIds == {i1, i2, i3, i4}
MCRecords == {c001, p001}
MCOrder == <<c001, p001>>
MCFixtures == {base, edited}
MCText == [v \in MCFixtures |-> [r \in MCRecords |-> IF r = p001 THEN v ELSE r]]
MCSymmetry == Permutations(MCIds) \cup Permutations(Execs)
================================================================================
