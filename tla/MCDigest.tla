------------------------------ MODULE MCDigest ------------------------------
(* Digest with a three-hour day and the preferences that differ in it, for TLC. *)
EXTENDS Digest

CONSTANTS r1, r2

MCOneRun == {r1}
MCTwoRuns == {r1, r2}

\* What a new row gets.
MCDefault == [frequency |-> "instant", quiet |-> <<0, 0>>, digestHour |-> 0]

\* Notified at once, but for the hour from 1 to 2, and then by digest.
MCQuiet == [frequency |-> "instant", quiet |-> <<1, 2>>, digestHour |-> 1]
MCDaily == [frequency |-> "daily_digest", quiet |-> <<0, 0>>, digestHour |-> 1]
MCPaused == [frequency |-> "disabled", quiet |-> <<0, 0>>, digestHour |-> 0]

MCBothPaths == {MCQuiet}
MCAllPreferences == {MCDefault, MCQuiet, MCDaily, MCPaused}
=============================================================================
