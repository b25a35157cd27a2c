------------------------------ MODULE Deletion ------------------------------
(***************************************************************************)
(* What the deletion of an organization promises, whatever happens to zips, *)
(* tokens, expiries and overlapping requests: an organization is deleted    *)
(* only after it was archived; the one link of a slug leads to what was     *)
(* archived of the organization that has the slug; and it is gone once a    *)
(* download of it was finished, until that organization is archived anew.   *)
(***************************************************************************)
EXTENDS Integers

CONSTANTS Readers, Nobody

VARIABLES
  founded,   \* organizations are 1..founded
  holder,    \* the organization that has the slug, or Nobody
  doomed,    \* its deletion is pending
  archived,  \* organizations that were archived
  link,      \* organization whose data the link gives, or Nobody: no good link
  served     \* reader -> organization whose data it is being sent, or Nobody

vars == <<founded, holder, doomed, archived, link, served>>

Init ==
  /\ founded = 0 /\ holder = Nobody /\ doomed = FALSE
  /\ archived = {} /\ link = Nobody
  /\ served = [d \in Readers |-> Nobody]

Found ==
  /\ holder = Nobody
  /\ founded' = founded + 1 /\ holder' = founded + 1
  /\ UNCHANGED <<doomed, archived, link, served>>

\* The holder of the slug is archived and gets a new link.
Doom ==
  /\ holder # Nobody
  /\ archived' = archived \union {holder}
  /\ doomed' = TRUE /\ link' = holder
  /\ UNCHANGED <<founded, holder, served>>

\* A former holder's archive comes too late: nobody gets a link to it.
Late(o) ==
  /\ o \in 1..founded /\ o # holder
  /\ archived' = archived \union {o}
  /\ UNCHANGED <<founded, holder, doomed, link, served>>

Spare ==
  /\ doomed
  /\ doomed' = FALSE /\ link' = Nobody
  /\ UNCHANGED <<founded, holder, archived, served>>

Delete ==
  /\ doomed /\ holder \in archived
  /\ holder' = Nobody /\ doomed' = FALSE /\ link' = Nobody
  /\ UNCHANGED <<founded, archived, served>>

Open(d) ==
  /\ served[d] = Nobody /\ link # Nobody
  /\ served' = [served EXCEPT ![d] = link]
  /\ UNCHANGED <<founded, holder, doomed, archived, link>>

\* A finished download ends whatever link there is.
Finish(d) ==
  /\ served[d] # Nobody
  /\ served' = [served EXCEPT ![d] = Nobody]
  /\ link' = Nobody
  /\ UNCHANGED <<founded, holder, doomed, archived>>

\* Any number of readers leave, or all are cut off.
Leave(ds) ==
  /\ served' = [d \in Readers |-> IF d \in ds THEN Nobody ELSE served[d]]
  /\ UNCHANGED <<founded, holder, doomed, archived, link>>

LinkExpires ==
  /\ link' = Nobody
  /\ UNCHANGED <<founded, holder, doomed, archived, served>>

Next ==
  \/ Found \/ Doom \/ Spare \/ Delete \/ LinkExpires
  \/ \E o \in 1..founded : Late(o)
  \/ \E d \in Readers : Open(d) \/ Finish(d)
  \/ \E ds \in SUBSET Readers : Leave(ds)

Spec == Init /\ [][Next]_vars
=============================================================================
