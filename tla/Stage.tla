------------------------------- MODULE Stage -------------------------------
(***************************************************************************)
(* What a room promises about its one broadcaster's place, whatever the    *)
(* sockets, timers and join handlers do: at most one owner at a time, the  *)
(* owner changes only when the former one's connection is no longer open,  *)
(* and only the connected owner goes on the air.                           *)
(***************************************************************************)
CONSTANTS Clients, Nobody

VARIABLES
    connected,  \* clients with an open connection
    owner,      \* the client that has the room's broadcaster place
    onAir       \* the room is announced live

vars == <<connected, owner, onAir>>

Init == connected = {} /\ owner = Nobody /\ onAir = FALSE

Arrive(c) ==
    /\ c \notin connected /\ owner # c
    /\ connected' = connected \union {c}
    /\ UNCHANGED <<owner, onAir>>

\* Several connections may be cut in one step (slow listeners).
Leave(cs) ==
    /\ connected' = connected \ cs
    /\ UNCHANGED <<owner, onAir>>

\* The place is free, or held by somebody whose connection is gone; onAir is inherited.
Take(c) ==
    /\ c \in connected /\ owner \notin connected
    /\ owner' = c
    /\ UNCHANGED <<connected, onAir>>

Start ==
    /\ owner \in connected /\ ~onAir
    /\ onAir' = TRUE
    /\ UNCHANGED <<connected, owner>>

End ==
    /\ owner \in connected /\ onAir
    /\ onAir' = FALSE
    /\ UNCHANGED <<connected, owner>>

Release ==
    /\ owner # Nobody /\ owner \notin connected
    /\ owner' = Nobody /\ onAir' = FALSE
    /\ UNCHANGED connected

Next ==
    \/ \E c \in Clients : Arrive(c) \/ Take(c)
    \/ \E cs \in SUBSET Clients : Leave(cs)
    \/ Start \/ End \/ Release

Spec == Init /\ [][Next]_vars
=============================================================================
