---------------------------- MODULE MCDrivePublisher ----------------------------
(***************************************************************************)
(* Two records are enough: one whose text differs between the fixtures     *)
(* (P001) and one whose text does not (C001).                              *)
(***************************************************************************)
EXTENDS DrivePublisherInv, TLC

CONSTANTS c001, p001, base, edited, i1, i2, i3, i4, i5

MCIds == {i1, i2, i3, i4, i5}
MCRecords == {c001, p001}
MCOrder == <<c001, p001>>
MCFixtures == {base, edited}
MCText == [v \in MCFixtures |-> [r \in MCRecords |-> IF r = p001 THEN v ELSE r]]
MCSymmetry == Permutations(MCIds)
================================================================================
