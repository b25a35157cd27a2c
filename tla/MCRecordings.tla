---------------------------- MODULE MCRecordings ----------------------------
(* Instance of Recordings for TLC. *)
EXTENDS Recordings

CONSTANTS r1, r2

MCRecs == {r1, r2}
=============================================================================
