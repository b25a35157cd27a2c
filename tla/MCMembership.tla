---------------------------- MODULE MCMembership ----------------------------
(* Instance of Membership for TLC: accounts and invites are interchangeable. *)
EXTENDS Membership, TLC

CONSTANTS x, y, z, i, j, p

MCAccounts == {x, y, z}
MCInvites == {i, j}

Symmetry == Permutations(MCAccounts) \cup Permutations(MCInvites)
=============================================================================
