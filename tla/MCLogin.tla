------------------------------ MODULE MCLogin ------------------------------
(***************************************************************************)
(* Instance of Login for TLC: an individual account and a shared one, with *)
(* superadmins outside the instance.                                       *)
(***************************************************************************)
EXTENDS Login, TLC

CONSTANTS imam, office, s1, s2, l1, b1

MCUsers == {imam, office}
MCShared == {office}
MCSessions == {s1, s2}
MCMaxPasswords == [u \in MCUsers |-> IF u = imam THEN 2 ELSE 0]

Symmetry == Permutations(MCSessions)
=============================================================================
