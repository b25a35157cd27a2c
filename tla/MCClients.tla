------------------------------ MODULE MCClients ------------------------------
(* Instance of Clients for TLC: a broadcaster's page and a listener's page.  An *)
(* old socket of the listener's has no effect on its page: one is enough.       *)
EXTENDS Clients, TLC

CONSTANTS b1, b2, l1

MCBSocks == {b1, b2}
MCLSocks == {l1}
Symmetry == Permutations(MCBSocks)

\* Bound: the waits for the microphone and what comes of two of them are explored
\* with one socket of the broadcaster's, two sockets without them.
MCBound ==
  Cardinality({b \in BSocks : sock[b] # "free"}) > 1 =>
    /\ \A who \in DOMAIN asks : asks[who] = 0
    /\ ~strays /\ recorder # "apart"
=============================================================================
