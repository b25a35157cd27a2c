------------------------------ MODULE Captions ------------------------------
(***************************************************************************)
(* What the captions of a recording promise, whatever becomes of requests, *)
(* jobs and callbacks between the app and the sidecar: only a published     *)
(* recording is submitted, while its organization wants captions; an answer *)
(* is taken only for a recording that was submitted and still is there;     *)
(* giving up touches no answer; and what is gone stays gone.                *)
(***************************************************************************)
CONSTANTS Talks  \* recordings

VARIABLES
  state,   \* recording -> "none", "draft", "published" or "deleted"
  wanted,  \* the organization wants captions
  caption  \* recording -> "none", "pending", "done" or "failed"

vars == <<state, wanted, caption>>

Init ==
  /\ state = [r \in Talks |-> "none"]
  /\ wanted \in BOOLEAN
  /\ caption = [r \in Talks |-> "none"]

Record(r) ==
  /\ state[r] = "none"
  /\ state' = [state EXCEPT ![r] = "draft"]
  /\ UNCHANGED <<wanted, caption>>

Show(r) ==
  /\ state[r] \in {"draft", "published"}
  /\ state' = [state EXCEPT ![r] = "published"]
  /\ ~wanted \/ caption[r] \in {"pending", "done"}
  /\ UNCHANGED <<wanted, caption>>

\* Publishing a recording without captions submits it.
ShowAndSubmit(r) ==
  /\ state[r] \in {"draft", "published"}
  /\ wanted /\ caption[r] \in {"none", "failed"}
  /\ state' = [state EXCEPT ![r] = "published"]
  /\ caption' = [caption EXCEPT ![r] = "pending"]
  /\ UNCHANGED wanted

\* A superadmin submits a published recording anew.
Submit(r) ==
  /\ state[r] = "published" /\ wanted
  /\ caption' = [caption EXCEPT ![r] = "pending"]
  /\ UNCHANGED <<state, wanted>>

Hide(r) ==
  /\ state[r] = "published"
  /\ state' = [state EXCEPT ![r] = "draft"]
  /\ UNCHANGED <<wanted, caption>>

Remove(r) ==
  /\ state[r] \in {"draft", "published"}
  /\ state' = [state EXCEPT ![r] = "deleted"]
  /\ caption' = [caption EXCEPT ![r] = "none"]
  /\ UNCHANGED wanted

Decide ==
  /\ wanted' = ~wanted
  /\ UNCHANGED <<state, caption>>

Answer(r, result) ==
  /\ state[r] \in {"draft", "published"} /\ caption[r] # "none"
  /\ caption' = [caption EXCEPT ![r] = result]
  /\ UNCHANGED <<state, wanted>>

\* What was not answered in time has failed.
GiveUp(rs) ==
  /\ \A r \in rs : caption[r] = "pending"
  /\ caption' = [r \in Talks |-> IF r \in rs THEN "failed" ELSE caption[r]]
  /\ UNCHANGED <<state, wanted>>

Next ==
  \/ \E r \in Talks :
       \/ Record(r) \/ Show(r) \/ ShowAndSubmit(r) \/ Submit(r) \/ Hide(r) \/ Remove(r)
       \/ \E result \in {"done", "failed"} : Answer(r, result)
  \/ Decide
  \/ \E rs \in SUBSET Talks : GiveUp(rs)

Spec == Init /\ [][Next]_vars
=============================================================================
