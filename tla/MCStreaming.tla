---------------------------- MODULE MCStreaming ----------------------------
(* Streaming with two broadcaster sessions and one guest, for TLC. *)
EXTENDS Streaming, TLC

CONSTANTS b1, b2, g1, r1, r2

MCSockets == {b1, b2, g1}
MCBroadcasters == {b1, b2}

MCRecordings == {r1, r2}
MCOneRecording == {r1}

Symmetry == Permutations(MCBroadcasters) \union Permutations(MCRecordings)
=============================================================================
