---------------------------- MODULE RoomsProofs ----------------------------
(***************************************************************************)
(* Proofs about what a room keeps (server/rooms.js): its recordings and    *)
(* its schedule.                                                           *)
(*                                                                         *)
(* Recordings: the inductive invariant IInv, one lemma per part with one   *)
(* step per action, the properties it implies, and that app and sidecar    *)
(* together implement Captions.                                            *)
(*                                                                         *)
(* Schedules: what is said of the rows follows from their types, for every *)
(* zone with one switch of its clock, every rule and start, and any number *)
(* of rows; only the countdown of a page is an invariant of its own.  The  *)
(* main step is that the list, which expands each row only so far, is what *)
(* comes first of all that is to come: what the expansion of a row leaves  *)
(* out has as many shows before it as the list is long (LeftOutLate), and  *)
(* what is not among the expanded shows cannot be among the first then     *)
(* (FirstSame).                                                            *)
(***************************************************************************)
EXTENDS Recordings, Schedules, FiniteSetTheorems, TLAPS

-----------------------------------------------------------------------------
(* Recordings *)

\* Every step keeps the types.
LEMMA TypeOKStep ==
  ASSUME TypeOK, [Next]_vars
  PROVE  TypeOK'
<1> USE RecordingsAssumption DEF TypeOK, TranscriptRecord, JobRecord, Statuses
<1>1. ASSUME NEW r \in Recs, Add(r)
      PROVE  TypeOK'
  BY <1>1 DEF sidecar, app, Add
<1>2. ASSUME NEW r \in Recs, Publish(r)
      PROVE  TypeOK'
  <2>1. Marked(r) \in TranscriptRecord
    BY <1>2 DEF Marked
  <2>2. /\ transcript' \in [Recs -> TranscriptRecord \cup {None}]
        /\ sinceMark' \in [Recs -> Nat]
        /\ inFlight' \subseteq Recs
        /\ posts' \in [Recs -> 0..MaxPosts]
    <3>1. CASE captions /\ (FALSE \/ ~Settled(r))
      BY <1>2, <2>1, <3>1 DEF Publish, MaybeTranscribe, RequestTranscript
    <3>2. CASE ~(captions /\ (FALSE \/ ~Settled(r)))
      BY <1>2, <3>2 DEF Publish, MaybeTranscribe
    <3> QED
      BY <3>1, <3>2
  <2>3. published' \in 0..MaxPublished /\ row' \in [Recs -> {"none", "draft", "published", "deleted"}]
    BY <1>2 DEF Publish
  <2> QED
    BY <1>2, <2>2, <2>3 DEF Publish, sidecar
<1>3. ASSUME NEW r \in Recs, Unpublish(r)
      PROVE  TypeOK'
  BY <1>3 DEF sidecar, app, Unpublish
<1>4. ASSUME NEW r \in Recs, Retranscribe(r)
      PROVE  TypeOK'
  <2>1. Marked(r) \in TranscriptRecord
    BY <1>4 DEF Marked
  <2>2. /\ transcript' \in [Recs -> TranscriptRecord \cup {None}]
        /\ sinceMark' \in [Recs -> Nat]
        /\ inFlight' \subseteq Recs
        /\ posts' \in [Recs -> 0..MaxPosts]
    <3>1. CASE captions /\ (TRUE \/ ~Settled(r))
      BY <1>4, <2>1, <3>1 DEF Retranscribe, MaybeTranscribe, RequestTranscript
    <3>2. CASE ~(captions /\ (TRUE \/ ~Settled(r)))
      BY <1>4, <3>2 DEF Retranscribe, MaybeTranscribe
    <3> QED
      BY <3>1, <3>2
  <2>3. forced' \in 0..MaxForced /\ row' \in [Recs -> {"none", "draft", "published", "deleted"}]
    BY <1>4 DEF Retranscribe
  <2> QED
    BY <1>4, <2>2, <2>3 DEF Retranscribe, sidecar
<1>5. ASSUME NEW r \in Recs, Delete(r)
      PROVE  TypeOK'
  BY <1>5 DEF sidecar, app, Delete, Exists
<1>6. ASSUME NEW r \in Recs, DispatchSettles(r)
      PROVE  TypeOK'
  BY <1>6 DEF sidecar, app, DispatchSettles
<1>7. ASSUME NEW r \in Recs, PostLost(r)
      PROVE  TypeOK'
  BY <1>7 DEF sidecar, app, PostLost
<1>8. ASSUME NEW r \in Recs, SidecarTakes(r)
      PROVE  TypeOK'
  BY <1>8 DEF sidecar, app, SidecarTakes
<1>9. ASSUME NEW r \in Recs, JobStarts(r)
      PROVE  TypeOK'
  BY <1>9 DEF sidecar, app, JobStarts
<1>10. ASSUME NEW result \in {"done", "failed"}, JobEnds(result)
      PROVE  TypeOK'
  BY <1>10 DEF sidecar, app, JobEnds
<1>11. ASSUME ToggleCaptions
      PROVE  TypeOK'
  BY <1>11 DEF sidecar, app, ToggleCaptions
<1>12. ASSUME CallbackLost
      PROVE  TypeOK'
  BY <1>12 DEF sidecar, app, CallbackLost
<1>13. ASSUME Callback
      PROVE  TypeOK'
  BY <1>13 DEF sidecar, app, Callback, Accepts, Exists
<1>14. ASSUME Reap
      PROVE  TypeOK'
  <2>1. ASSUME NEW r \in Recs
        PROVE  /\ transcript'[r] \in TranscriptRecord \cup {None}
               /\ sinceMark'[r] \in Nat
    <3>1. CASE ~Pending(r)
      BY <1>14, <3>1 DEF Reap, Overdue
    <3>2. CASE Pending(r)
      <4>1. transcript[r] \in TranscriptRecord
        BY <3>2 DEF Pending
      <4>2. Older(transcript[r].age) \in Nat /\ Older(sinceMark[r]) \in Nat
        BY <4>1 DEF Older
      <4> QED
        BY <1>14, <3>2, <4>1, <4>2 DEF Reap
    <3> QED
      BY <3>1, <3>2
  <2> QED
    BY <1>14, <2>1 DEF Reap, sidecar
<1>15. ASSUME SidecarRestarts
      PROVE  TypeOK'
  BY <1>15 DEF sidecar, app, SidecarRestarts
<1>16. ASSUME AppRestarts
      PROVE  TypeOK'
  BY <1>16 DEF sidecar, app, AppRestarts
<1>17. CASE UNCHANGED vars
  BY <1>17 DEF vars, sidecar, app
<1> QED
  BY <1>1, <1>2, <1>3, <1>4, <1>5, <1>6, <1>7, <1>8, <1>9, <1>10, <1>11, <1>12, <1>13, <1>14, <1>15, <1>16, <1>17 DEF Next

\* No step leaves a transcript without its recording.
LEMMA TranscriptOfRecordingStep ==
  ASSUME TypeOK, TranscriptOfRecording, [Next]_vars
  PROVE  TranscriptOfRecording'
<1> USE RecordingsAssumption DEF TypeOK, TranscriptOfRecording, Exists, TranscriptRecord, JobRecord, Statuses
<1>1. ASSUME NEW r \in Recs, Add(r)
      PROVE  TranscriptOfRecording'
  BY <1>1 DEF sidecar, app, Add
<1>2. ASSUME NEW r \in Recs, Publish(r)
      PROVE  TranscriptOfRecording'
  BY <1>2 DEF sidecar, app, Publish, MaybeTranscribe, RequestTranscript, Marked, Settled
<1>3. ASSUME NEW r \in Recs, Unpublish(r)
      PROVE  TranscriptOfRecording'
  BY <1>3 DEF sidecar, app, Unpublish
<1>4. ASSUME NEW r \in Recs, Retranscribe(r)
      PROVE  TranscriptOfRecording'
  BY <1>4 DEF sidecar, app, Retranscribe, MaybeTranscribe, RequestTranscript, Marked, Settled
<1>5. ASSUME NEW r \in Recs, Delete(r)
      PROVE  TranscriptOfRecording'
  BY <1>5 DEF sidecar, app, Delete
<1>6. ASSUME NEW r \in Recs, DispatchSettles(r)
      PROVE  TranscriptOfRecording'
  BY <1>6 DEF sidecar, app, DispatchSettles
<1>7. ASSUME NEW r \in Recs, PostLost(r)
      PROVE  TranscriptOfRecording'
  BY <1>7 DEF sidecar, app, PostLost
<1>8. ASSUME NEW r \in Recs, SidecarTakes(r)
      PROVE  TranscriptOfRecording'
  BY <1>8 DEF sidecar, app, SidecarTakes
<1>9. ASSUME NEW r \in Recs, JobStarts(r)
      PROVE  TranscriptOfRecording'
  BY <1>9 DEF sidecar, app, JobStarts
<1>10. ASSUME NEW result \in {"done", "failed"}, JobEnds(result)
      PROVE  TranscriptOfRecording'
  BY <1>10 DEF sidecar, app, JobEnds
<1>11. ASSUME ToggleCaptions
      PROVE  TranscriptOfRecording'
  BY <1>11 DEF sidecar, app, ToggleCaptions
<1>12. ASSUME CallbackLost
      PROVE  TranscriptOfRecording'
  BY <1>12 DEF sidecar, app, CallbackLost
<1>13. ASSUME Callback
      PROVE  TranscriptOfRecording'
  BY <1>13 DEF sidecar, app, Callback, Accepts
<1>14. ASSUME Reap
      PROVE  TranscriptOfRecording'
  BY <1>14 DEF sidecar, app, Reap, Overdue, Pending, Older
<1>15. ASSUME SidecarRestarts
      PROVE  TranscriptOfRecording'
  BY <1>15 DEF sidecar, app, SidecarRestarts
<1>16. ASSUME AppRestarts
      PROVE  TranscriptOfRecording'
  BY <1>16 DEF sidecar, app, AppRestarts
<1>17. CASE UNCHANGED vars
  BY <1>17 DEF vars, sidecar, app
<1> QED
  BY <1>1, <1>2, <1>3, <1>4, <1>5, <1>6, <1>7, <1>8, <1>9, <1>10, <1>11, <1>12, <1>13, <1>14, <1>15, <1>16, <1>17 DEF Next

\* A transcript and the time since its dispatch age together.
LEMMA AgeOfDispatchStep ==
  ASSUME TypeOK, AgeOfDispatch, [Next]_vars
  PROVE  AgeOfDispatch'
<1> USE RecordingsAssumption DEF TypeOK, AgeOfDispatch, Pending, TranscriptRecord, JobRecord, Statuses
<1>1. ASSUME NEW r \in Recs, Add(r)
      PROVE  AgeOfDispatch'
  BY <1>1 DEF sidecar, app, Add
<1>2. ASSUME NEW r \in Recs, Publish(r)
      PROVE  AgeOfDispatch'
  BY <1>2 DEF sidecar, app, Publish, MaybeTranscribe, RequestTranscript, Marked, Settled, Exists
<1>3. ASSUME NEW r \in Recs, Unpublish(r)
      PROVE  AgeOfDispatch'
  BY <1>3 DEF sidecar, app, Unpublish
<1>4. ASSUME NEW r \in Recs, Retranscribe(r)
      PROVE  AgeOfDispatch'
  BY <1>4 DEF sidecar, app, Retranscribe, MaybeTranscribe, RequestTranscript, Marked, Settled, Exists
<1>5. ASSUME NEW r \in Recs, Delete(r)
      PROVE  AgeOfDispatch'
  BY <1>5 DEF sidecar, app, Delete, Exists
<1>6. ASSUME NEW r \in Recs, DispatchSettles(r)
      PROVE  AgeOfDispatch'
  BY <1>6 DEF sidecar, app, DispatchSettles
<1>7. ASSUME NEW r \in Recs, PostLost(r)
      PROVE  AgeOfDispatch'
  BY <1>7 DEF sidecar, app, PostLost
<1>8. ASSUME NEW r \in Recs, SidecarTakes(r)
      PROVE  AgeOfDispatch'
  BY <1>8 DEF sidecar, app, SidecarTakes
<1>9. ASSUME NEW r \in Recs, JobStarts(r)
      PROVE  AgeOfDispatch'
  BY <1>9 DEF sidecar, app, JobStarts
<1>10. ASSUME NEW result \in {"done", "failed"}, JobEnds(result)
      PROVE  AgeOfDispatch'
  BY <1>10 DEF sidecar, app, JobEnds
<1>11. ASSUME ToggleCaptions
      PROVE  AgeOfDispatch'
  BY <1>11 DEF sidecar, app, ToggleCaptions
<1>12. ASSUME CallbackLost
      PROVE  AgeOfDispatch'
  BY <1>12 DEF sidecar, app, CallbackLost
<1>13. ASSUME Callback
      PROVE  AgeOfDispatch'
  BY <1>13 DEF sidecar, app, Callback, Accepts, Exists
<1>14. ASSUME Reap
      PROVE  AgeOfDispatch'
  BY <1>14 DEF sidecar, app, Reap, Overdue, Older
<1>15. ASSUME SidecarRestarts
      PROVE  AgeOfDispatch'
  BY <1>15 DEF sidecar, app, SidecarRestarts
<1>16. ASSUME AppRestarts
      PROVE  AgeOfDispatch'
  BY <1>16 DEF sidecar, app, AppRestarts
<1>17. CASE UNCHANGED vars
  BY <1>17 DEF vars, sidecar, app
<1> QED
  BY <1>1, <1>2, <1>3, <1>4, <1>5, <1>6, <1>7, <1>8, <1>9, <1>10, <1>11, <1>12, <1>13, <1>14, <1>15, <1>16, <1>17 DEF Next

\* What is dispatched has a transcript, and no transcript goes.
LEMMA DispatchMarks ==
  ASSUME TypeOK, NEW r \in Recs, NEW force \in BOOLEAN, MaybeTranscribe(r, force), NEW t \in Recs
  PROVE  /\ transcript[t] # None => transcript'[t] # None
         /\ posts'[t] > 0 => posts[t] > 0 \/ transcript'[t] # None
<1>1. CASE captions /\ (force \/ ~Settled(r))
  <2>1. Marked(r) # None
    <3>1. Marked(r) \in TranscriptRecord
      BY RecordingsAssumption DEF Marked, TypeOK, TranscriptRecord, Statuses
    <3> QED
      BY <3>1, RecordingsAssumption
  <2>2. transcript' = [transcript EXCEPT ![r] = Marked(r)] /\ RequestTranscript(r)
    BY <1>1 DEF MaybeTranscribe
  <2>3. transcript'[r] # None /\ (t # r => transcript'[t] = transcript[t])
    BY <2>1, <2>2 DEF TypeOK
  <2>4. t # r => posts'[t] = posts[t]
    BY <2>2 DEF RequestTranscript, TypeOK
  <2> QED
    BY <2>3, <2>4
<1>2. CASE ~(captions /\ (force \/ ~Settled(r)))
  BY <1>2 DEF MaybeTranscribe
<1> QED
  BY <1>1, <1>2

\* The reaper removes no transcript.
LEMMA ReaperKeeps ==
  ASSUME TypeOK, Reap, NEW r \in Recs
  PROVE  /\ transcript'[r] = None <=> transcript[r] = None
         /\ Status(r)' = IF Overdue(r) THEN "failed" ELSE Status(r)
<1>1. CASE ~Pending(r)
  BY <1>1 DEF Reap, Overdue, Status
<1>2. CASE Pending(r)
  <2>1. transcript[r] \in TranscriptRecord /\ transcript[r] # None
    BY <1>2 DEF TypeOK, Pending
  <2>2. Older(transcript[r].age) \in Nat
    BY <2>1, RecordingsAssumption DEF TranscriptRecord, Older
  <2> DEFINE given == [transcript[r] EXCEPT !.status = "failed", !.age = 0]
             older == [transcript[r] EXCEPT !.age = Older(transcript[r].age)]
  <2>3. given \in TranscriptRecord /\ given.status = "failed"
    BY <2>1 DEF TranscriptRecord, Statuses
  <2>4. older \in TranscriptRecord /\ older.status = transcript[r].status
    BY <2>1, <2>2 DEF TranscriptRecord, Statuses
  <2>5. transcript'[r] = IF Overdue(r) THEN given ELSE older
    BY <1>2 DEF Reap
  <2> HIDE DEF given, older
  <2>6. given # None /\ older # None
    BY <2>3, <2>4, RecordingsAssumption
  <2> QED
    BY <2>1, <2>3, <2>4, <2>5, <2>6 DEF Status
<1> QED
  BY <1>1, <1>2

\* A request, a thread or a job is of a recording that was dispatched.
LEMMA OnlyDispatchedStep ==
  ASSUME TypeOK, OnlyDispatched, [Next]_vars
  PROVE  OnlyDispatched'
<1> USE RecordingsAssumption DEF TypeOK, OnlyDispatched, TranscriptRecord, JobRecord, Statuses
<1>1. ASSUME NEW r \in Recs, Add(r)
      PROVE  OnlyDispatched'
  BY <1>1 DEF sidecar, app, Add
<1>2. ASSUME NEW r \in Recs, Publish(r)
      PROVE  OnlyDispatched'
  <2>1. \A q \in Recs : /\ transcript[q] # None => transcript'[q] # None
                        /\ posts'[q] > 0 => posts[q] > 0 \/ transcript'[q] # None
    BY <1>2, DispatchMarks DEF Publish
  <2>2. /\ \A q \in Recs : row[q] = "deleted" => row'[q] = "deleted"
        /\ UNCHANGED <<waiting, job>>
    BY <1>2 DEF Publish, Exists, sidecar
  <2> QED
    BY <2>1, <2>2
<1>3. ASSUME NEW r \in Recs, Unpublish(r)
      PROVE  OnlyDispatched'
  BY <1>3 DEF sidecar, app, Unpublish
<1>4. ASSUME NEW r \in Recs, Retranscribe(r)
      PROVE  OnlyDispatched'
  <2>1. \A q \in Recs : /\ transcript[q] # None => transcript'[q] # None
                        /\ posts'[q] > 0 => posts[q] > 0 \/ transcript'[q] # None
    BY <1>4, DispatchMarks DEF Retranscribe
  <2>2. UNCHANGED <<row, waiting, job>>
    BY <1>4 DEF Retranscribe, sidecar
  <2> QED
    BY <2>1, <2>2
<1>5. ASSUME NEW r \in Recs, Delete(r)
      PROVE  OnlyDispatched'
  BY <1>5 DEF sidecar, app, Delete
<1>6. ASSUME NEW r \in Recs, DispatchSettles(r)
      PROVE  OnlyDispatched'
  BY <1>6 DEF sidecar, app, DispatchSettles
<1>7. ASSUME NEW r \in Recs, PostLost(r)
      PROVE  OnlyDispatched'
  BY <1>7 DEF sidecar, app, PostLost
<1>8. ASSUME NEW r \in Recs, SidecarTakes(r)
      PROVE  OnlyDispatched'
  BY <1>8 DEF sidecar, app, SidecarTakes
<1>9. ASSUME NEW r \in Recs, JobStarts(r)
      PROVE  OnlyDispatched'
  BY <1>9 DEF sidecar, app, JobStarts
<1>10. ASSUME NEW result \in {"done", "failed"}, JobEnds(result)
      PROVE  OnlyDispatched'
  BY <1>10 DEF sidecar, app, JobEnds
<1>11. ASSUME ToggleCaptions
      PROVE  OnlyDispatched'
  BY <1>11 DEF sidecar, app, ToggleCaptions
<1>12. ASSUME CallbackLost
      PROVE  OnlyDispatched'
  BY <1>12 DEF sidecar, app, CallbackLost
<1>13. ASSUME Callback
      PROVE  OnlyDispatched'
  <2>1. UNCHANGED <<row, posts, waiting>> /\ job' = None
    BY <1>13 DEF Callback
  <2>2. \A q \in Recs : transcript[q] # None => transcript'[q] # None
    <3> DEFINE stored == [status |-> job.result, text |-> job.result = "done", age |-> 0]
    <3>1. stored # None
      <4>1. job.result \in {"done", "failed"}
        BY <1>13 DEF Callback
      <4>2. stored \in TranscriptRecord
        BY <4>1
      <4> QED
        BY <4>2
    <3>2. transcript' = [transcript EXCEPT ![job.rec] = stored] \/ transcript' = transcript
      BY <1>13 DEF Callback
    <3> HIDE DEF stored
    <3> QED
      BY <3>1, <3>2
  <2> QED
    BY <2>1, <2>2
<1>14. ASSUME Reap
      PROVE  OnlyDispatched'
  <2>1. \A q \in Recs : transcript'[q] = None <=> transcript[q] = None
    BY <1>14, ReaperKeeps
  <2>2. UNCHANGED <<row, posts, waiting, job>>
    BY <1>14 DEF Reap, sidecar
  <2> QED
    BY <2>1, <2>2
<1>15. ASSUME SidecarRestarts
      PROVE  OnlyDispatched'
  BY <1>15 DEF sidecar, app, SidecarRestarts
<1>16. ASSUME AppRestarts
      PROVE  OnlyDispatched'
  BY <1>16 DEF sidecar, app, AppRestarts
<1>17. CASE UNCHANGED vars
  BY <1>17 DEF vars, sidecar, app
<1> QED
  BY <1>1, <1>2, <1>3, <1>4, <1>5, <1>6, <1>7, <1>8, <1>9, <1>10, <1>11, <1>12, <1>13, <1>14, <1>15, <1>16, <1>17 DEF Next

\* The invariant holds initially.
LEMMA InitIInv == Init => IInv
<1> SUFFICES ASSUME Init PROVE IInv
  OBVIOUS
<1>1. TypeOK
  BY RecordingsAssumption DEF Init, TypeOK
<1>2. TranscriptOfRecording
  BY DEF Init, TranscriptOfRecording
<1>3. AgeOfDispatch
  BY DEF Init, AgeOfDispatch, Pending
<1>4. OnlyDispatched
  BY DEF Init, OnlyDispatched
<1> QED
  BY <1>1, <1>2, <1>3, <1>4 DEF IInv

\* The invariant is inductive.
LEMMA NextIInv == IInv /\ [Next]_vars => IInv'
  BY TypeOKStep, TranscriptOfRecordingStep, AgeOfDispatchStep, OnlyDispatchedStep DEF IInv

-----------------------------------------------------------------------------
\* The inductive invariant holds in every reachable state, for any recordings,
\* any patience of the reaper, and any number of requests and restarts.
THEOREM RecordingsInvariant == Spec => []IInv
  BY InitIInv, NextIInv, PTL DEF Spec

\* A transcript has its recording, however late the callback of its job arrives.
THEOREM NoOrphanTranscript == Spec => []TranscriptOfRecording
<1>1. IInv => TranscriptOfRecording
  BY DEF IInv
<1> QED
  BY <1>1, RecordingsInvariant, PTL

\* The reaper fails no transcript whose last dispatch has not had its time.
THEOREM ReaperWaits == Spec => ReaperPatience
<1> DEFINE Waits == \A r \in Recs : (Pending(r) /\ Reap /\ ~Pending(r)') => sinceMark[r] > Patience
<1>1. IInv => Waits
  <2> SUFFICES ASSUME IInv, NEW r \in Recs, Pending(r), Reap, ~Pending(r)'
               PROVE  sinceMark[r] > Patience
    OBVIOUS
  <2>1. transcript[r].age = sinceMark[r]
    BY DEF IInv, AgeOfDispatch
  <2>2. transcript[r] \in TranscriptRecord
    BY RecordingsAssumption DEF IInv, TypeOK, Pending
  <2>3. CASE Overdue(r)
    BY <2>1, <2>3 DEF Overdue
  <2>4. CASE ~Overdue(r)
    <3>1. transcript'[r] = [transcript[r] EXCEPT !.age = Older(@)]
      BY <2>4 DEF Reap
    <3>2. transcript'[r] # None
      BY <3>1, <2>2, RecordingsAssumption DEF TranscriptRecord, Older, IInv, TypeOK
    <3> QED
      BY <3>1, <3>2, <2>2 DEF Pending, TranscriptRecord
  <2> QED
    BY <2>3, <2>4
<1>2. IInv /\ [Next]_vars => [Waits]_vars
  BY <1>1
<1> QED
  BY <1>2, RecordingsInvariant, PTL DEF Spec, ReaperPatience

-----------------------------------------------------------------------------
(* App and sidecar implement Captions *)

StatusMap == [r \in Recs |-> Status(r)]

\* What a reader of the tables sees of a transcript.
LEMMA StatusOf ==
  ASSUME TypeOK, NEW r \in Recs
  PROVE  /\ Status(r) = "none" <=> transcript[r] = None
         /\ Status(r) = "pending" <=> Pending(r)
         /\ Status(r) \in {"pending", "done"} <=> Settled(r)
  BY RecordingsAssumption DEF TypeOK, Status, Pending, Settled, TranscriptRecord, Statuses

\* A step that writes the transcript of one recording changes what is seen of that one.
LEMMA StatusWritten ==
  ASSUME TypeOK, NEW r \in Recs, NEW t \in TranscriptRecord,
         transcript' = [transcript EXCEPT ![r] = t]
  PROVE  StatusMap' = [StatusMap EXCEPT ![r] = t.status]
<1>1. Status(r)' = t.status
  BY RecordingsAssumption DEF TypeOK, Status
<1>2. ASSUME NEW q \in Recs, q # r PROVE Status(q)' = Status(q)
  BY <1>2 DEF TypeOK, Status
<1> QED
  BY <1>1, <1>2 DEF StatusMap

LEMMA SameStatus ==
  ASSUME UNCHANGED transcript
  PROVE  StatusMap' = StatusMap
  BY DEF StatusMap, Status

\* A recording is submitted, or it is not to be.
LEMMA Submission ==
  ASSUME TypeOK, NEW r \in Recs, NEW force \in BOOLEAN, MaybeTranscribe(r, force)
  PROVE  \/ /\ captions /\ (force \/ Status(r) \notin {"pending", "done"})
            /\ StatusMap' = [StatusMap EXCEPT ![r] = "pending"]
         \/ /\ ~(captions /\ (force \/ Status(r) \notin {"pending", "done"}))
            /\ StatusMap' = StatusMap
<1>1. CASE captions /\ (force \/ ~Settled(r))
  <2>1. Marked(r) \in TranscriptRecord /\ Marked(r).status = "pending"
    BY RecordingsAssumption DEF Marked, TypeOK, TranscriptRecord, Statuses
  <2>2. transcript' = [transcript EXCEPT ![r] = Marked(r)]
    BY <1>1 DEF MaybeTranscribe
  <2> QED
    BY <1>1, <2>1, <2>2, StatusWritten, StatusOf
<1>2. CASE ~(captions /\ (force \/ ~Settled(r)))
  BY <1>2, SameStatus, StatusOf DEF MaybeTranscribe
<1> QED
  BY <1>1, <1>2

LEMMA CaptionStep == IInv /\ [Next]_vars => [Caption!Next]_(Caption!vars)
<1> SUFFICES ASSUME IInv, [Next]_vars
             PROVE  Caption!Next \/ UNCHANGED <<row, captions, StatusMap>>
  BY DEF Caption!vars, StatusMap
<1> DEFINE Goal == Caption!Next \/ UNCHANGED <<row, captions, StatusMap>>
<1> HIDE DEF Goal
<1>1. TypeOK /\ OnlyDispatched
  BY DEF IInv
<1>2. \A r \in Recs : StatusMap[r] = Status(r)
  BY DEF StatusMap
<1>3. ASSUME NEW r \in Recs, Add(r) PROVE Goal
  <2>1. StatusMap' = StatusMap
    BY <1>3, SameStatus DEF Add
  <2>2. Caption!Record(r)
    BY <1>3, <2>1 DEF Add, Caption!Record, StatusMap
  <2> QED
    BY <2>2 DEF Caption!Next, Goal
<1>4. ASSUME NEW r \in Recs, Publish(r) PROVE Goal
  <2>1. /\ row[r] \in {"draft", "published"} /\ row' = [row EXCEPT ![r] = "published"]
        /\ captions' = captions /\ MaybeTranscribe(r, FALSE)
    BY <1>4 DEF Publish, Exists
  <2>2. CASE /\ captions /\ Status(r) \notin {"pending", "done"}
             /\ StatusMap' = [StatusMap EXCEPT ![r] = "pending"]
    <3>1. Status(r) \in {"none", "failed"}
      BY <1>1, <2>2, RecordingsAssumption DEF TypeOK, Status, TranscriptRecord, Statuses
    <3>2. Caption!ShowAndSubmit(r)
      BY <1>2, <2>1, <2>2, <3>1 DEF Caption!ShowAndSubmit, StatusMap
    <3> QED
      BY <3>2 DEF Caption!Next, Goal
  <2>3. CASE /\ ~(captions /\ Status(r) \notin {"pending", "done"})
             /\ StatusMap' = StatusMap
    <3>1. Caption!Show(r)
      BY <1>2, <2>1, <2>3 DEF Caption!Show, StatusMap
    <3> QED
      BY <3>1 DEF Caption!Next, Goal
  <2> QED
    BY <1>1, <2>1, <2>2, <2>3, Submission
<1>5. ASSUME NEW r \in Recs, Retranscribe(r) PROVE Goal
  <2>1. row[r] = "published" /\ UNCHANGED <<row, captions>> /\ MaybeTranscribe(r, TRUE)
    BY <1>5 DEF Retranscribe
  <2>2. CASE captions /\ StatusMap' = [StatusMap EXCEPT ![r] = "pending"]
    <3>1. Caption!Submit(r)
      BY <2>1, <2>2 DEF Caption!Submit, StatusMap
    <3> QED
      BY <3>1 DEF Caption!Next, Goal
  <2>3. CASE StatusMap' = StatusMap
    BY <2>1, <2>3 DEF Goal
  <2> QED
    BY <1>1, <2>1, <2>2, <2>3, Submission
<1>6. ASSUME NEW r \in Recs, Unpublish(r) PROVE Goal
  <2>1. StatusMap' = StatusMap
    BY <1>6, SameStatus DEF Unpublish
  <2>2. Caption!Hide(r)
    BY <1>6, <2>1 DEF Unpublish, Caption!Hide, StatusMap
  <2> QED
    BY <2>2 DEF Caption!Next, Goal
<1>7. ASSUME NEW r \in Recs, Delete(r) PROVE Goal
  <2>1. StatusMap' = [StatusMap EXCEPT ![r] = "none"]
    <3>1. Status(r)' = "none"
      BY <1>1, <1>7 DEF Delete, Status, TypeOK
    <3>2. ASSUME NEW q \in Recs, q # r PROVE Status(q)' = Status(q)
      BY <1>1, <1>7, <3>2 DEF Delete, Status, TypeOK
    <3> QED
      BY <3>1, <3>2 DEF StatusMap
  <2>2. Caption!Remove(r)
    BY <1>7, <2>1 DEF Delete, Exists, Caption!Remove, StatusMap
  <2> QED
    BY <2>2 DEF Caption!Next, Goal
<1>8. ASSUME ToggleCaptions PROVE Goal
  <2>1. StatusMap' = StatusMap
    BY <1>8, SameStatus DEF ToggleCaptions
  <2>2. Caption!Decide
    BY <1>8, <2>1 DEF ToggleCaptions, Caption!Decide, StatusMap
  <2> QED
    BY <2>2 DEF Caption!Next, Goal
<1>9. ASSUME Callback PROVE Goal
  <2>1. job \in JobRecord /\ job.rec \in Recs /\ job.result \in {"done", "failed"}
    BY <1>1, <1>9 DEF Callback, TypeOK, JobRecord
  <2>2. UNCHANGED <<row, captions>>
    BY <1>9 DEF Callback
  <2>3. CASE Accepts(job.rec)
    <3> DEFINE t == [status |-> job.result, text |-> job.result = "done", age |-> 0]
    <3>1. t \in TranscriptRecord
      BY <2>1 DEF TranscriptRecord, Statuses
    <3>2. transcript' = [transcript EXCEPT ![job.rec] = t]
      BY <1>9, <2>3 DEF Callback
    <3>3. t.status = job.result
      OBVIOUS
    <3> HIDE DEF t
    <3>4. StatusMap' = [StatusMap EXCEPT ![job.rec] = job.result]
      BY <1>1, <2>1, <3>1, <3>2, <3>3, StatusWritten
    <3>5. row[job.rec] \in {"draft", "published"} /\ StatusMap[job.rec] # "none"
      <4>1. row[job.rec] \in {"draft", "published"}
        BY <2>3 DEF Accepts, Exists
      <4>2. transcript[job.rec] # None
        BY <1>1, <1>9, <2>1, <4>1 DEF OnlyDispatched, Callback
      <4> QED
        BY <1>1, <1>2, <2>1, <4>1, <4>2, StatusOf
    <3>6. Caption!Answer(job.rec, job.result)
      BY <2>2, <3>4, <3>5 DEF Caption!Answer, StatusMap
    <3> QED
      BY <2>1, <3>6 DEF Caption!Next, Goal
  <2>4. CASE ~Accepts(job.rec)
    BY <1>9, <2>2, <2>4, SameStatus DEF Callback, Goal
  <2> QED
    BY <2>3, <2>4
<1>10. ASSUME Reap PROVE Goal
  <2> DEFINE late == {r \in Recs : Overdue(r)}
  <2>1. ASSUME NEW r \in Recs PROVE Status(r)' = IF r \in late THEN "failed" ELSE Status(r)
    BY <1>1, <1>10, ReaperKeeps
  <2>2. StatusMap' = [r \in Recs |-> IF r \in late THEN "failed" ELSE StatusMap[r]]
    BY <2>1, <1>2 DEF StatusMap
  <2>3. \A r \in late : StatusMap[r] = "pending"
    BY <1>1, <1>2, StatusOf DEF Overdue
  <2>4. Caption!GiveUp(late)
    BY <1>10, <2>2, <2>3 DEF Reap, Caption!GiveUp, StatusMap
  <2>5. late \in SUBSET Recs
    OBVIOUS
  <2> QED
    BY <2>4, <2>5 DEF Caption!Next, Goal
<1>11. ASSUME UNCHANGED <<row, captions, transcript>> PROVE Goal
  BY <1>11, SameStatus DEF Goal
<1> QED
  <2>1. Goal
    BY <1>3, <1>4, <1>5, <1>6, <1>7, <1>8, <1>9, <1>10, <1>11 DEF Next, DispatchSettles, PostLost,
       SidecarTakes, JobStarts, JobEnds, CallbackLost, SidecarRestarts, AppRestarts, app, vars
  <2> QED
    BY <2>1 DEF Goal

\* Whatever becomes of requests, jobs and callbacks, and whoever restarts, the
\* captions of a recording change as Captions says.
THEOREM CaptionsAsPromised == Spec => ImplementsCaptions
<1>1. Init => Caption!Init
  BY RecordingsAssumption DEF Init, Caption!Init, Status
<1>2. IInv /\ [Next]_vars => [Caption!Next]_(Caption!vars)
  BY CaptionStep
<1> QED
  BY <1>1, <1>2, RecordingsInvariant, PTL DEF Spec, ImplementsCaptions, Caption!Spec

-----------------------------------------------------------------------------
(* Schedules: division *)

LEMMA DivMod ==
  ASSUME NEW D \in Nat \ {0}, NEW a \in Int
  PROVE  /\ a \div D \in Int /\ a % D \in 0 .. D - 1
         /\ a = D * (a \div D) + (a % D)
  OBVIOUS

LEMMA DivUnique ==
  ASSUME NEW D \in Nat \ {0}, NEW q \in Int, NEW r \in 0 .. D - 1
  PROVE  (q * D + r) \div D = q /\ (q * D + r) % D = r
<1> DEFINE a == q * D + r
<1>1. a \in Int
  OBVIOUS
<1>2. a \div D \in Int /\ a % D \in 0 .. D - 1 /\ a = D * (a \div D) + (a % D)
  BY <1>1, DivMod
<1>3. a \div D = q
  BY <1>2
<1> QED
  BY <1>2, <1>3

LEMMA DivMonotone ==
  ASSUME NEW D \in Nat \ {0}, NEW a \in Int, NEW b \in Int, a <= b
  PROVE  a \div D <= b \div D
  BY DivMod

\* Less than a day apart, at most one day apart.
LEMMA DivNear ==
  ASSUME NEW D \in Nat \ {0}, NEW a \in Int, NEW b \in Int, b - a < D
  PROVE  b \div D <= (a \div D) + 1
  BY DivMod

LEMMA ModShift ==
  ASSUME NEW D \in Nat \ {0}, NEW a \in Int, NEW j \in Int
  PROVE  (a + j * D) % D = a % D
<1>1. a \div D \in Int /\ a % D \in 0 .. D - 1 /\ a = D * (a \div D) + (a % D)
  BY DivMod
<1> DEFINE q == (a \div D) + j
<1>2. q \in Int /\ a + j * D = q * D + (a % D)
  BY <1>1
<1> HIDE DEF q
<1> QED
  BY <1>1, <1>2, DivUnique

-----------------------------------------------------------------------------
(* Finite sets *)

\* The values of a function on a finite set.
LEMMA FiniteImage ==
  ASSUME NEW S, IsFiniteSet(S), NEW f, DOMAIN f = S, f = [x \in S |-> f[x]]
  PROVE  IsFiniteSet({f[x] : x \in S})
<1> DEFINE T == {f[x] : x \in S}
<1>1. f \in Surjection(S, T)
  BY DEF Surjection
<1> QED
  BY <1>1, FS_Surjection

\* A set with at least n elements before e, given by n different ones.
LEMMA AtLeast ==
  ASSUME NEW n \in Nat, NEW S, IsFiniteSet(S), NEW f \in Injection(1..n, S)
  PROVE  n <= Cardinality(S)
<1>1. Cardinality(1..n) = n
  BY FS_Interval
<1> QED
  BY <1>1, FS_Injection

-----------------------------------------------------------------------------
(* The first n of a list *)

Before(S, e) == {f \in S : Precedes(f, e)}

\* Of the members of V that are not in U, one has only members of U before it.
LEMMA FirstMissing ==
  ASSUME NEW V, IsFiniteSet(V), NEW D, D \subseteq V, D # {},
         \A e \in V : ~Precedes(e, e),
         \A e, f, g \in V : Precedes(e, f) /\ Precedes(f, g) => Precedes(e, g)
  PROVE  \E d \in D : \A e \in D : ~Precedes(e, d)
<1> DEFINE R == StrictSubsetOrdering(V)
           T == {Before(V, d) : d \in D}
<1>1. IsWellFoundedOn(R, SUBSET V)
  BY FS_StrictSubsetOrderingWellFounded, FS_FiniteSubsetsOfFinite
<1>2. T \subseteq SUBSET V /\ T # {}
  <2>1. \A d \in D : Before(V, d) \in SUBSET V
    BY DEF Before
  <2>2. \A d \in D : Before(V, d) \in T
    OBVIOUS
  <2> QED
    BY <2>1, <2>2
<1> HIDE DEF T, R
<1>3. PICK x \in T : \A y \in T : <<y, x>> \notin R
  BY <1>1, <1>2, WFMin
<1>4. PICK d \in D : x = Before(V, d)
  BY DEF T
<1>5. ASSUME NEW e \in D, Precedes(e, d)
      PROVE  FALSE
  <2>1. Before(V, e) \in T /\ Before(V, e) \in SUBSET V /\ x \in SUBSET V
    BY <1>2 DEF T
  <2>2. Before(V, e) \subseteq x
    BY <1>4, <1>5 DEF Before
  <2>3. e \in x /\ e \notin Before(V, e)
    BY <1>4, <1>5 DEF Before
  <2>4. <<Before(V, e), x>> \in R
    BY <2>1, <2>2, <2>3 DEF R, StrictSubsetOrdering
  <2> QED
    BY <1>3, <2>1, <2>4
<1> QED
  BY <1>5

\* What is left out of a list and has n members before it is not one of the n first.
LEMMA FirstSame ==
  ASSUME NEW n \in Nat, NEW U, NEW V, U \subseteq V, IsFiniteSet(V),
         \A e \in V : ~Precedes(e, e),
         \A e, f, g \in V : Precedes(e, f) /\ Precedes(f, g) => Precedes(e, g),
         \A e \in V \ U : n <= Cardinality(Before(V, e))
  PROVE  FirstEntries(n, U) = FirstEntries(n, V)
<1>1. \A e : /\ IsFiniteSet(Before(V, e)) /\ IsFiniteSet(Before(U, e))
             /\ Cardinality(Before(V, e)) \in Nat /\ Cardinality(Before(U, e)) \in Nat
             /\ Cardinality(Before(U, e)) <= Cardinality(Before(V, e))
  <2> SUFFICES ASSUME NEW e
               PROVE  /\ IsFiniteSet(Before(V, e)) /\ IsFiniteSet(Before(U, e))
                      /\ Cardinality(Before(V, e)) \in Nat /\ Cardinality(Before(U, e)) \in Nat
                      /\ Cardinality(Before(U, e)) <= Cardinality(Before(V, e))
    OBVIOUS
  <2>1. Before(V, e) \in SUBSET V /\ Before(U, e) \in SUBSET Before(V, e)
    BY DEF Before
  <2>2. IsFiniteSet(Before(V, e))
    BY <2>1, FS_Subset
  <2> QED
    BY <2>1, <2>2, FS_Subset, FS_CardinalityType
<1>2. ASSUME NEW e \in V, Cardinality(Before(V, e)) < n
      PROVE  e \in U /\ Cardinality(Before(U, e)) < n
  <2>1. e \in U
    BY <1>1, <1>2
  <2> QED
    BY <1>1, <1>2, <2>1
<1>3. ASSUME NEW e \in U, Cardinality(Before(U, e)) < n
      PROVE  Cardinality(Before(V, e)) < n
  <2> DEFINE D == Before(V, e) \ U
  <2>1. CASE D = {}
    <3>1. Before(V, e) = Before(U, e)
      BY <2>1 DEF Before
    <3> QED
      BY <1>3, <3>1
  <2>2. CASE D # {}
    <3>1. D \subseteq V
      BY DEF Before
    <3>2. PICK d \in D : \A f \in D : ~Precedes(f, d)
      <4> HIDE DEF D
      <4> QED
        BY <2>2, <3>1, FirstMissing
    <3>3. d \in V \ U /\ e \in V /\ Precedes(d, e)
      BY <3>1 DEF Before
    <3>4. Before(V, d) \subseteq Before(U, e)
      BY <3>2, <3>3 DEF Before
    <3>5. Cardinality(Before(V, d)) <= Cardinality(Before(U, e))
      BY <1>1, <3>4, FS_Subset
    <3>6. n <= Cardinality(Before(V, d))
      BY <3>3
    <3> QED
      BY <1>1, <1>3, <3>5, <3>6
  <2> QED
    BY <2>1, <2>2
<1> QED
  BY <1>2, <1>3 DEF FirstEntries, Before

\* The first of the n first is the first of all; if there is none, there is nothing.
LEMMA FirstOfFirst ==
  ASSUME NEW n \in Nat \ {0}, NEW V, IsFiniteSet(V),
         \A e \in V : ~Precedes(e, e),
         \A e, f, g \in V : Precedes(e, f) /\ Precedes(f, g) => Precedes(e, g)
  PROVE  /\ FirstEntries(1, FirstEntries(n, V)) = FirstEntries(1, V)
         /\ FirstEntries(n, V) = {} => V = {}
         /\ \A e \in V : e \in FirstEntries(1, V) <=> \A f \in V : ~Precedes(f, e)
<1> DEFINE U == FirstEntries(n, V)
<1>1. U \subseteq V
  BY DEF FirstEntries
<1>2. ASSUME NEW S \in SUBSET V, NEW e \in V
      PROVE  /\ IsFiniteSet(Before(S, e)) /\ Cardinality(Before(S, e)) \in Nat
             /\ Cardinality(Before(S, e)) = 0 <=> \A f \in S : ~Precedes(f, e)
  <2>1. IsFiniteSet(Before(S, e))
    <3>1. Before(S, e) \in SUBSET V
      BY DEF Before
    <3> QED
      BY <3>1, FS_Subset
  <2> QED
    BY <2>1, FS_CardinalityType, FS_EmptySet DEF Before
<1>3. ASSUME NEW S \in SUBSET V, NEW e \in S
      PROVE  e \in FirstEntries(1, S) <=> \A f \in S : ~Precedes(f, e)
  <2>1. e \in FirstEntries(1, S) <=> Cardinality(Before(S, e)) < 1
    BY DEF FirstEntries, Before
  <2> QED
    BY <1>2, <2>1
<1>4. \A e \in V : (\A f \in V : ~Precedes(f, e)) => e \in U
  <2> SUFFICES ASSUME NEW e \in V, \A f \in V : ~Precedes(f, e)
               PROVE  e \in U
    OBVIOUS
  <2>1. Cardinality(Before(V, e)) = 0
    BY <1>2
  <2> QED
    BY <2>1 DEF FirstEntries, Before
<1>5. ASSUME NEW e \in V, NEW f \in V, Precedes(f, e)
      PROVE  \E g \in V : Precedes(g, e) /\ \A h \in V : ~Precedes(h, g)
  <2>1. Before(V, e) # {} /\ Before(V, e) \subseteq V
    BY <1>5 DEF Before
  <2>2. PICK g \in Before(V, e) : \A h \in Before(V, e) : ~Precedes(h, g)
    BY <2>1, FirstMissing
  <2>3. g \in V /\ Precedes(g, e)
    BY DEF Before
  <2>4. \A h \in V : ~Precedes(h, g)
    BY <2>2, <2>3 DEF Before
  <2> QED
    BY <2>3, <2>4
<1>6. U = {} => V = {}
  <2> SUFFICES ASSUME U = {}, V # {}
               PROVE  FALSE
    OBVIOUS
  <2>1. PICK e \in V : \A f \in V : ~Precedes(f, e)
    BY FirstMissing
  <2> QED
    BY <1>4, <2>1
<1>7. FirstEntries(1, U) \subseteq U /\ FirstEntries(1, V) \subseteq V
  BY DEF FirstEntries
<1>8. FirstEntries(1, U) \subseteq FirstEntries(1, V)
  <2> SUFFICES ASSUME NEW e \in FirstEntries(1, U)
               PROVE  e \in FirstEntries(1, V)
    OBVIOUS
  <2>1. e \in U /\ e \in V
    BY <1>1, <1>7
  <2>2. \A f \in U : ~Precedes(f, e)
    BY <1>1, <1>3, <2>1
  <2>3. \A f \in V : ~Precedes(f, e)
    BY <1>4, <1>5, <2>1, <2>2
  <2> QED
    BY <1>3, <2>1, <2>3
<1>9. FirstEntries(1, V) \subseteq FirstEntries(1, U)
  <2> SUFFICES ASSUME NEW e \in FirstEntries(1, V)
               PROVE  e \in FirstEntries(1, U)
    OBVIOUS
  <2>1. e \in V /\ \A f \in V : ~Precedes(f, e)
    BY <1>3, <1>7
  <2>2. e \in U
    BY <1>4, <2>1
  <2> QED
    BY <1>1, <1>3, <2>1, <2>2
<1> QED
  BY <1>3, <1>6, <1>8, <1>9

-----------------------------------------------------------------------------
(* Zones *)

LEMMA ZoneTypes ==
  ASSUME NEW z \in Zones
  PROVE  /\ z.before \in Int /\ z.after \in Int /\ z.switch \in Int /\ Day \in Nat \ {0}
         /\ \A t \in Int : /\ Offset(z, t) \in {z.before, z.after} /\ Offset(z, t) \in Int
                           /\ Wall(z, t) \in Int /\ LocalDay(z, t) \in Int
                           /\ TimeOfDay(z, t) \in 0 .. Day - 1
                           /\ Wall(z, t) = Local(LocalDay(z, t), TimeOfDay(z, t))
<1>1. z.before \in Int /\ z.after \in Int /\ z.switch \in Int /\ Day \in Nat \ {0}
  BY SchedulesAssumption
<1>2. ASSUME NEW t \in Int
      PROVE  Offset(z, t) \in {z.before, z.after} /\ Offset(z, t) \in Int /\ Wall(z, t) \in Int
  BY <1>1 DEF Offset, Wall
<1>3. ASSUME NEW t \in Int
      PROVE  /\ LocalDay(z, t) \in Int /\ TimeOfDay(z, t) \in 0 .. Day - 1
             /\ Wall(z, t) = Local(LocalDay(z, t), TimeOfDay(z, t))
  <2> DEFINE w == Wall(z, t)
  <2>1. w \in Int
    BY <1>2
  <2> HIDE DEF w
  <2>2. w \div Day \in Int /\ w % Day \in 0 .. Day - 1 /\ w = Day * (w \div Day) + (w % Day)
    BY <1>1, <2>1, DivMod
  <2>3. w = (w \div Day) * Day + (w % Day)
    BY <1>1, <2>2
  <2> QED
    BY <2>2, <2>3 DEF LocalDay, TimeOfDay, Local, w
<1> QED
  BY <1>1, <1>2, <1>3

\* The local day never goes back.
LEMMA LocalDayMonotone ==
  ASSUME NEW z \in Zones, NEW a \in Int, NEW b \in Int, a <= b
  PROVE  LocalDay(z, a) <= LocalDay(z, b)
<1>1. /\ z.before \in Int /\ z.after \in Int /\ z.switch \in Int /\ Day \in Nat \ {0}
      /\ \A t \in Int : LocalDay(z, t) \in Int
  BY ZoneTypes
<1>2. ASSUME NEW s \in Int, NEW t \in Int, s <= t, s < z.switch <=> t < z.switch
      PROVE  LocalDay(z, s) <= LocalDay(z, t)
  <2>1. Wall(z, s) \in Int /\ Wall(z, t) \in Int /\ Wall(z, s) <= Wall(z, t)
    BY <1>1, <1>2 DEF Wall, Offset
  <2> QED
    BY <1>1, <2>1, DivMonotone DEF LocalDay
<1>3. LocalDay(z, z.switch - 1) <= LocalDay(z, z.switch)
  BY ZonesAssumption
<1>4. CASE a < z.switch /\ b >= z.switch
  <2>1. LocalDay(z, a) <= LocalDay(z, z.switch - 1)
    BY <1>1, <1>2, <1>4
  <2>2. LocalDay(z, z.switch) <= LocalDay(z, b)
    BY <1>1, <1>2, <1>4
  <2>3. LocalDay(z, z.switch - 1) \in Int /\ LocalDay(z, z.switch) \in Int
    BY <1>1
  <2> QED
    BY <1>1, <1>3, <2>1, <2>2, <2>3
<1> QED
  BY <1>1, <1>2, <1>4

\* Two corrections find the moment at which a zone's clock shows a local time,
\* on both sides of the switch, if there is one.
LEMMA LocalToUTCCorrect ==
  ASSUME NEW z, z.before \in Int, z.after \in Int, z.switch \in Int,
         NEW local \in Int, Shown(z, local)
  PROVE  Wall(z, LocalToUTC(z, local)) = local
<1> DEFINE guess == local - Offset(z, local)
<1>1. Offset(z, local) \in Int /\ guess \in Int
  BY DEF Offset
<1>2. CASE Wall(z, guess) = local
  BY <1>2 DEF LocalToUTC
<1>3. CASE Wall(z, guess) # local
  <2>1. LocalToUTC(z, local) = local - Offset(z, guess)
    BY <1>3 DEF LocalToUTC
  <2>2. PICK o \in {z.before, z.after} : Wall(z, local - o) = local
    BY DEF Shown
  <2>3. o \in Int /\ Offset(z, local - o) \in Int
    BY DEF Offset
  <2>4. Offset(z, local - o) = o
    BY <2>2, <2>3 DEF Wall
  <2>5. Offset(z, local) # o
    BY <1>3, <2>2
  <2>6. Offset(z, guess) # Offset(z, local)
    BY <1>1, <1>3 DEF Wall
  <2>7. Offset(z, guess) = o
    BY <2>5, <2>6 DEF Offset
  <2> QED
    BY <2>1, <2>2, <2>7
<1> QED
  BY <1>2, <1>3

\* A local time is turned into a moment by one of the zone's two offsets.
LEMMA MomentOffset ==
  ASSUME NEW z \in Zones, NEW local \in Int
  PROVE  /\ LocalToUTC(z, local) \in Int
         /\ \E o \in {z.before, z.after} : LocalToUTC(z, local) = local - o
  BY ZoneTypes DEF LocalToUTC, Offset

\* That moment is on the local day that was asked for, or on the day before: when
\* the clock skips the time after midnight.
LEMMA MomentDay ==
  ASSUME NEW z \in Zones, NEW local \in Int
  PROVE  /\ LocalDay(z, LocalToUTC(z, local)) <= local \div Day
         /\ local \div Day <= LocalDay(z, LocalToUTC(z, local)) + 1
<1> DEFINE u == LocalToUTC(z, local)
<1>1. /\ z.before \in Int /\ z.after \in Int /\ z.switch \in Int /\ Day \in Nat \ {0}
      /\ z.after - z.before \in 1 - Day .. Day - 1
  BY ZoneTypes, ZonesAssumption
<1>2. local \div Day \in Int
  BY <1>1
<1>3. CASE Shown(z, local)
  <2>1. Wall(z, u) = local
    BY <1>1, <1>3, LocalToUTCCorrect
  <2> QED
    BY <1>2, <2>1 DEF LocalDay
<1>4. CASE ~Shown(z, local)
  <2>1. Wall(z, local - z.before) # local /\ Wall(z, local - z.after) # local
    BY <1>4 DEF Shown
  <2>2. z.switch + z.before <= local /\ local < z.switch + z.after
    BY <1>1, <2>1 DEF Wall, Offset
  <2>3. CASE local >= z.switch
    <3>1. Wall(z, u) = local + z.after - z.before
      BY <1>1, <2>2, <2>3 DEF LocalToUTC, Wall, Offset
    <3>2. local \in z.switch + z.before .. z.switch + z.after - 1
      BY <1>1, <2>2
    <3>3. (local + z.after - z.before) \div Day = local \div Day
      BY <2>3, <3>2, ZonesAssumption
    <3> QED
      BY <1>2, <3>1, <3>3 DEF LocalDay
  <2>4. CASE local < z.switch
    <3>1. Wall(z, u) = local + z.before - z.after
      BY <1>1, <2>2, <2>4 DEF LocalToUTC, Wall, Offset
    <3>2. Wall(z, u) \in Int /\ Wall(z, u) <= local /\ local - Wall(z, u) < Day
      BY <1>1, <2>2, <3>1
    <3> QED
      BY <1>1, <3>2, DivMonotone, DivNear DEF LocalDay
  <2> QED
    BY <1>1, <2>3, <2>4
<1> QED
  BY <1>3, <1>4

\* A time of day on a day before that of t is before t; two days after it, after t;
\* and it comes later on a later day.
LEMMA MomentsInOrder ==
  ASSUME NEW z \in Zones, NEW tod \in 0 .. Day - 1, NEW d \in Int
  PROVE  /\ Local(d, tod) \in Int /\ LocalToUTC(z, Local(d, tod)) \in Int
         /\ \A t \in Int : d < LocalDay(z, t) => LocalToUTC(z, Local(d, tod)) < t
         /\ \A t \in Int : LocalDay(z, t) + 2 <= d => t < LocalToUTC(z, Local(d, tod))
         /\ \A e \in Int : d < e => LocalToUTC(z, Local(d, tod)) < LocalToUTC(z, Local(e, tod))
<1> DEFINE u(x) == LocalToUTC(z, Local(x, tod))
<1>1. /\ z.before \in Int /\ z.after \in Int /\ z.switch \in Int /\ Day \in Nat \ {0}
      /\ z.after - z.before \in 1 - Day .. Day - 1
      /\ \A t \in Int : LocalDay(z, t) \in Int
  BY ZoneTypes, ZonesAssumption
<1>2. ASSUME NEW x \in Int
      PROVE  Local(x, tod) \in Int /\ Local(x, tod) \div Day = x
  <2>1. x * Day + tod \in Int
    BY <1>1
  <2>2. (x * Day + tod) \div Day = x
    BY <1>1, DivUnique
  <2> QED
    BY <2>1, <2>2 DEF Local
<1>3. \A x \in Int : u(x) \in Int
  BY <1>2, MomentOffset
<1>4. LocalDay(z, u(d)) <= d /\ d <= LocalDay(z, u(d)) + 1
  BY <1>2, MomentDay
<1>5. ASSUME NEW t \in Int, d < LocalDay(z, t)
      PROVE  u(d) < t
  <2>1. t <= u(d) => LocalDay(z, t) <= LocalDay(z, u(d))
    BY <1>3, LocalDayMonotone
  <2> HIDE DEF u
  <2> QED
    BY <1>1, <1>3, <1>4, <1>5, <2>1
<1>6. ASSUME NEW t \in Int, LocalDay(z, t) + 2 <= d
      PROVE  t < u(d)
  <2>1. u(d) <= t => LocalDay(z, u(d)) <= LocalDay(z, t)
    BY <1>3, LocalDayMonotone
  <2> HIDE DEF u
  <2> QED
    BY <1>1, <1>3, <1>4, <1>6, <2>1
<1>7. ASSUME NEW e \in Int, d < e
      PROVE  u(d) < u(e)
  <2>1. PICK p \in {z.before, z.after} : u(d) = Local(d, tod) - p
    BY <1>2, MomentOffset
  <2>2. PICK q \in {z.before, z.after} : u(e) = Local(e, tod) - q
    BY <1>2, MomentOffset
  <2>3. q - p < Day /\ q \in Int /\ p \in Int
    BY <1>1
  <2>4. Local(e, tod) - Local(d, tod) >= Day
    <3>1. Local(e, tod) - Local(d, tod) = (e - d) * Day
      BY <1>1 DEF Local
    <3>2. (e - d) * Day >= Day
      BY <1>1, <1>7
    <3> QED
      BY <3>1, <3>2
  <2> HIDE DEF u
  <2> QED
    BY <1>1, <1>2, <2>1, <2>2, <2>3, <2>4
<1> QED
  BY <1>2, <1>3, <1>5, <1>6, <1>7

\* From a moment to the clock and back, unless the clock shows that time twice.
LEMMA ThereAndBack ==
  ASSUME NEW z \in Zones, NEW t \in Int, ~ShownTwice(z, Wall(z, t))
  PROVE  LocalToUTC(z, Wall(z, t)) = t
<1> DEFINE local == Wall(z, t)
           u == LocalToUTC(z, local)
<1>1. z.before \in Int /\ z.after \in Int /\ z.switch \in Int /\ local \in Int
  BY ZoneTypes
<1>2. Offset(z, t) \in {z.before, z.after} /\ t = local - Offset(z, t)
  BY <1>1 DEF Wall, Offset
<1>3. Shown(z, local)
  BY <1>2 DEF Shown
<1>4. Wall(z, u) = local
  BY <1>1, <1>3, LocalToUTCCorrect
<1>5. PICK o \in {z.before, z.after} : u = local - o
  BY <1>1, MomentOffset
<1>6. CASE o = Offset(z, t)
  BY <1>2, <1>5, <1>6
<1>7. CASE o # Offset(z, t)
  <2>1. \A p \in {z.before, z.after} : p = o \/ p = Offset(z, t)
    BY <1>2, <1>7
  <2>2. \A p \in {z.before, z.after} : Wall(z, local - p) = local
    BY <1>2, <1>4, <1>5, <2>1
  <2>3. z.before # z.after
    BY <1>2, <1>7
  <2> QED
    BY <2>2, <2>3 DEF ShownTwice
<1> QED
  BY <1>6, <1>7

-----------------------------------------------------------------------------
(* The days of a rule *)

LEMMA Sizes ==
  /\ Week \in Nat \ {0} /\ Count \in Nat \ {0} /\ Horizon \in Nat
  /\ Count * Week \in Nat /\ Count + 2 <= Horizon /\ Count * Week + 2 <= Horizon
<1>1. Week \in Nat \ {0} /\ Count \in Nat \ {0} /\ Horizon \in Nat /\ Count * Week + 2 <= Horizon
  BY SchedulesAssumption
<1>2. Count * Week \in Nat /\ Count <= Count * Week
  BY <1>1
<1>3. Count + 2 <= Horizon
  BY <1>1, <1>2
<1> QED
  BY <1>1, <1>2, <1>3

LEMMA CalendarTypes ==
  /\ Week \in Nat \ {0} /\ Count \in Nat \ {0} /\ Horizon \in Nat
  /\ Len(MonthStart) \in Nat /\ 1 < Len(MonthStart)
  /\ \A m \in 1..Len(MonthStart) : MonthStart[m] \in Int
  /\ \A m, n \in 1..Len(MonthStart) : m < n => MonthStart[m] < MonthStart[n]
  BY SchedulesAssumption, Sizes

\* A day is in one month.
LEMMA MonthOfDay ==
  ASSUME NEW d \in Days
  PROVE  /\ d \in Int /\ MonthOf(d) \in Months
         /\ MonthStart[MonthOf(d)] <= d /\ d < MonthStart[MonthOf(d) + 1]
         /\ \A m \in Months : MonthStart[m] <= d /\ d < MonthStart[m + 1] => m = MonthOf(d)
<1>1. d \in Int
  BY CalendarTypes DEF Days
<1>2. \E m \in Months : MonthStart[m] <= d /\ d < MonthStart[m + 1]
  BY SchedulesAssumption
<1>3. MonthOf(d) \in Months /\ MonthStart[MonthOf(d)] <= d /\ d < MonthStart[MonthOf(d) + 1]
  BY <1>2 DEF MonthOf
<1>4. ASSUME NEW m \in Months, NEW n \in Months, m < n, d < MonthStart[m + 1], MonthStart[n] <= d
      PROVE  FALSE
  <2>1. m + 1 \in 1..Len(MonthStart) /\ n \in 1..Len(MonthStart) /\ m + 1 <= n
    BY <1>4, CalendarTypes DEF Months
  <2>2. MonthStart[m + 1] <= MonthStart[n]
    BY <2>1, CalendarTypes
  <2> QED
    BY <1>1, <1>4, <2>1, <2>2, CalendarTypes
<1>5. ASSUME NEW m \in Months, MonthStart[m] <= d, d < MonthStart[m + 1]
      PROVE  m = MonthOf(d)
  <2>1. m \in Int /\ MonthOf(d) \in Int
    BY <1>3, CalendarTypes DEF Months
  <2> QED
    BY <1>3, <1>4, <1>5, <2>1
<1> QED
  BY <1>1, <1>3, <1>5

\* The day that a monthly rule names in a month is in that month.
LEMMA MonthlyDayInMonth ==
  ASSUME NEW dom \in Int \ {0}, NEW m \in Months
  PROVE  /\ MonthlyDay(dom, m) \in Days /\ MonthOf(MonthlyDay(dom, m)) = m
         /\ MonthStart[m] <= MonthlyDay(dom, m) /\ MonthlyDay(dom, m) < MonthStart[m + 1]
<1>1. /\ m \in Int /\ 1 <= m /\ m < Len(MonthStart)
      /\ m \in 1..Len(MonthStart) /\ m + 1 \in 1..Len(MonthStart)
      /\ 1 \in 1..Len(MonthStart) /\ Len(MonthStart) \in 1..Len(MonthStart)
  BY CalendarTypes DEF Months
<1>2. MonthStart[m] \in Int /\ MonthStart[m + 1] \in Int /\ MonthStart[m] < MonthStart[m + 1]
  BY <1>1, CalendarTypes
<1>3. /\ MonthlyDay(dom, m) \in Int
      /\ MonthStart[m] <= MonthlyDay(dom, m) /\ MonthlyDay(dom, m) < MonthStart[m + 1]
  BY <1>2 DEF MonthlyDay, LastDay, Later, Earlier
<1>4. MonthStart[1] <= MonthStart[m] /\ MonthStart[m + 1] <= MonthStart[Len(MonthStart)]
  BY <1>1, CalendarTypes
<1>5. MonthlyDay(dom, m) \in Days
  BY <1>1, <1>2, <1>3, <1>4, CalendarTypes DEF Days
<1> QED
  BY <1>3, <1>5, MonthOfDay

\* The walk takes the days that the rule names.
LEMMA MatchesNamed ==
  ASSUME NEW rule, Recurrence(rule), NEW d \in Days
  PROVE  Matches(rule, d) <=> Named(rule, d)
<1>1. CASE rule.kind # "monthly"
  BY <1>1 DEF Matches, Named
<1>2. CASE rule.kind = "monthly"
  <2> DEFINE m == MonthOf(d)
             L == LastDay(m)
             x == DayOfMonth(d)
  <2>1. /\ rule.dom \in Int /\ d \in Int /\ MonthStart[m] \in Int /\ L \in Int /\ x \in 1..L
        /\ d = MonthStart[m] - 1 + x
    <3>1. rule.dom \in Int
      BY <1>2 DEF Recurrence
    <3>2. m \in 1..Len(MonthStart) /\ m + 1 \in 1..Len(MonthStart)
      BY MonthOfDay, CalendarTypes DEF Months
    <3>3. MonthStart[m] \in Int /\ MonthStart[m + 1] \in Int
      BY <3>2, CalendarTypes
    <3> QED
      BY <3>1, <3>3, MonthOfDay DEF LastDay, DayOfMonth
  <2>2. Matches(rule, d) <=> d = MonthlyDay(rule.dom, m)
    BY <1>2 DEF Matches
  <2>3. Named(rule, d) <=> \/ x = rule.dom
                           \/ L - x + 1 = 1 /\ rule.dom > L
                           \/ L - x + 1 = -rule.dom
                           \/ x = 1 /\ -rule.dom > L
    BY <1>2 DEF Named
  <2>4. MonthlyDay(rule.dom, m) = MonthStart[m] - 1 + (IF rule.dom < 0 THEN Later(1, L + rule.dom + 1) ELSE Earlier(rule.dom, L))
    BY DEF MonthlyDay
  <2> HIDE DEF m, L, x
  <2> QED
    BY <2>1, <2>2, <2>3, <2>4 DEF Later, Earlier
<1> QED
  BY <1>1, <1>2

-----------------------------------------------------------------------------
(* What is to come of a show *)

RowOK(show) ==
  /\ show.start \in Starts /\ show.until \in Int \cup {Null} /\ show.zone \in Zones
  /\ show.rule = Once \/ Recurrence(show.rule)

LEMMA RowTypes ==
  ASSUME NEW show, RowOK(show), now \in FirstNow..LastNow
  PROVE  /\ show.start \in Int /\ show.zone \in Zones /\ now \in Int /\ RowTime(show) \in 0 .. Day - 1
         /\ LocalDay(show.zone, show.start) \in Int /\ LocalDay(show.zone, now) \in Int
         /\ LocalDay(show.zone, show.start) <= FirstDay(show)
         /\ FirstDay(show) = LocalDay(show.zone, Later(show.start, now))
         /\ FirstDay(show) \in {LocalDay(show.zone, show.start), LocalDay(show.zone, now)}
         /\ FirstDay(show) \in Days
<1> DEFINE z == show.zone
           day(t) == LocalDay(z, t)
<1>1. show.start \in Int /\ z \in Zones /\ now \in Int /\ FirstNow \in Int /\ LastNow \in Int
  <2>1. Starts \subseteq Int /\ FirstNow \in Int /\ LastNow \in Int
    BY SchedulesAssumption
  <2>2. show.start \in Starts /\ z \in Zones
    BY DEF RowOK
  <2>3. show.start \in Int
    BY <2>1, <2>2
  <2>4. now \in Int
    BY <2>1
  <2> QED
    BY <2>1, <2>2, <2>3, <2>4
<1>2. RowTime(show) \in 0 .. Day - 1 /\ \A t \in Int : day(t) \in Int
  BY <1>1, ZoneTypes DEF RowTime
<1>3. day(show.start) \in Days /\ day(FirstNow) \in Days /\ day(LastNow) \in Days
  BY ZonesAssumption DEF RowOK
<1>4. day(FirstNow) <= day(now) /\ day(now) <= day(LastNow)
  BY <1>1, LocalDayMonotone
<1>5. day(now) \in Days
  <2>1. 1 \in 1..Len(MonthStart) /\ Len(MonthStart) \in 1..Len(MonthStart)
    BY CalendarTypes
  <2>2. MonthStart[1] \in Int /\ MonthStart[Len(MonthStart)] \in Int
    BY <2>1, CalendarTypes
  <2>3. day(now) \in Int /\ day(FirstNow) \in Int /\ day(LastNow) \in Int
    BY <1>1, <1>2
  <2> HIDE DEF day
  <2> QED
    BY <1>3, <1>4, <2>2, <2>3 DEF Days
<1>6. Later(show.start, now) \in {show.start, now} /\ Later(show.start, now) \in Int /\ show.start <= Later(show.start, now)
  BY <1>1 DEF Later
<1>7. FirstDay(show) = day(Later(show.start, now))
  BY DEF FirstDay
<1>8. day(show.start) <= FirstDay(show)
  BY <1>1, <1>6, <1>7, LocalDayMonotone
<1> QED
  BY <1>1, <1>2, <1>3, <1>5, <1>6, <1>7, <1>8

\* The days of the walk are those of the row, from the first to the last walked.
LEMMA WalkDays ==
  ASSUME NEW show, RowOK(show), show.rule # Once, now \in FirstNow..LastNow
  PROVE  /\ LastWalked(show) \in Int
         /\ Walk(show) = {d \in DaysOf(show) : FirstDay(show) <= d /\ d <= LastWalked(show)}
<1>1. /\ FirstDay(show) \in Days /\ FirstDay(show) \in Int
      /\ LocalDay(show.zone, show.start) \in Int /\ LocalDay(show.zone, show.start) <= FirstDay(show)
  BY RowTypes, MonthOfDay
<1>2. LastWalked(show) \in Int
  <2>1. CASE show.rule.kind = "monthly"
    <3> DEFINE n == Earlier(MonthOf(FirstDay(show)) + Horizon, Len(MonthStart))
    <3>1. MonthOf(FirstDay(show)) \in Months
      BY <1>1, MonthOfDay
    <3>2. n \in 1..Len(MonthStart)
      BY <3>1, CalendarTypes DEF Earlier, Months
    <3>3. MonthStart[n] \in Int
      BY <3>2, CalendarTypes
    <3> QED
      BY <2>1, <3>3 DEF LastWalked
  <2>2. CASE show.rule.kind # "monthly"
    BY <1>1, <2>2, CalendarTypes DEF LastWalked
  <2> QED
    BY <2>1, <2>2
<1>3. \A d \in Days : d \in Int /\ (Matches(show.rule, d) <=> Named(show.rule, d))
  BY MonthOfDay, MatchesNamed DEF RowOK
<1>4. Walk(show) \subseteq {d \in DaysOf(show) : FirstDay(show) <= d /\ d <= LastWalked(show)}
  BY <1>1, <1>2, <1>3 DEF Walk, DaysOf
<1>5. {d \in DaysOf(show) : FirstDay(show) <= d /\ d <= LastWalked(show)} \subseteq Walk(show)
  BY <1>1, <1>2, <1>3 DEF Walk, DaysOf
<1> QED
  BY <1>2, <1>4, <1>5

\* A day that is beyond the walk has as many shows before it as the list is long.
LEMMA BeyondWalk ==
  ASSUME NEW show, RowOK(show), show.rule # Once, now \in FirstNow..LastNow,
         NEW d \in DaysOf(show), LastWalked(show) < d
  PROVE  \E f \in [1..Count -> Walk(show)] :
           /\ \A j \in 1..Count : FirstDay(show) + 2 <= f[j] /\ f[j] < d
           /\ \A j, k \in 1..Count : j < k => f[j] < f[k]
<1> DEFINE first == FirstDay(show)
           last == LastWalked(show)
<1>1. /\ first \in Days /\ first \in Int /\ last \in Int
      /\ LocalDay(show.zone, show.start) \in Int /\ LocalDay(show.zone, show.start) <= first
      /\ d \in Days /\ d \in Int /\ Named(show.rule, d) /\ Recurrence(show.rule)
  BY RowTypes, WalkDays, MonthOfDay DEF DaysOf, RowOK
<1>2. ASSUME NEW x \in Days, first <= x, x <= last, Named(show.rule, x)
      PROVE  x \in Walk(show)
  <2>1. x \in Int
    BY MonthOfDay
  <2> QED
    BY <1>1, <1>2, <2>1, WalkDays DEF DaysOf
<1>3. CASE show.rule.kind # "monthly"
  <2> DEFINE r == (d - (first + 2)) % Week
             f == [j \in 1..Count |-> first + 2 + r + (j - 1) * Week]
  <2>1. d - (first + 2) \in Int /\ r \in 0 .. Week - 1
    <3> HIDE DEF first
    <3>1. d - (first + 2) \in Int
      BY <1>1
    <3> QED
      BY <3>1, Sizes
  <2>2. last = first + Horizon - 1
    BY <1>3 DEF LastWalked
  <2>3. \A j \in 1..Count : /\ f[j] \in Int /\ first + 2 <= f[j]
                            /\ f[j] <= first + 1 + Count * Week
    <3> SUFFICES ASSUME NEW j \in 1..Count
                 PROVE  f[j] \in Int /\ first + 2 <= f[j] /\ f[j] <= first + 1 + Count * Week
      OBVIOUS
    <3>1. j \in Int /\ 0 <= j - 1 /\ j - 1 <= Count - 1 /\ Week \in Nat /\ Count \in Nat
      BY CalendarTypes
    <3>2. (j - 1) * Week \in Int /\ 0 <= (j - 1) * Week
      BY <3>1
    <3>3. (j - 1) * Week <= (Count - 1) * Week
      BY <3>1
    <3>4. (Count - 1) * Week = Count * Week - Week
      BY <3>1
    <3>5. f[j] = first + 2 + r + (j - 1) * Week
      OBVIOUS
    <3>6. r \in Int /\ 0 <= r /\ r <= Week - 1
      BY <2>1, <3>1
    <3> HIDE DEF f, r
    <3> QED
      BY <1>1, <3>1, <3>2, <3>3, <3>4, <3>5, <3>6
  <2>4. \A j \in 1..Count : f[j] <= last /\ f[j] < d
    <3> SUFFICES ASSUME NEW j \in 1..Count
                 PROVE  f[j] <= last /\ f[j] < d
      OBVIOUS
    <3> DEFINE w == Count * Week
    <3>1. f[j] \in Int /\ f[j] <= first + 1 + w
      BY <2>3
    <3>2. w \in Nat /\ w + 2 <= Horizon /\ Horizon \in Nat
      BY Sizes
    <3>3. first \in Int /\ d \in Int /\ last = first + Horizon - 1 /\ last < d
      BY <1>1, <2>2
    <3> HIDE DEF f, first, last, w
    <3> QED
      BY <3>1, <3>2, <3>3
  <2>5. \A j, k \in 1..Count : j < k => f[j] < f[k]
    <3> SUFFICES ASSUME NEW j \in 1..Count, NEW k \in 1..Count, j < k
                 PROVE  f[j] < f[k]
      OBVIOUS
    <3>1. (j - 1) * Week < (k - 1) * Week
      BY CalendarTypes
    <3>2. (j - 1) * Week \in Int /\ (k - 1) * Week \in Int /\ r \in Int
      BY <2>1, CalendarTypes
    <3>3. f[j] = first + 2 + r + (j - 1) * Week /\ f[k] = first + 2 + r + (k - 1) * Week
      OBVIOUS
    <3> HIDE DEF f, r
    <3> QED
      BY <1>1, <3>1, <3>2, <3>3
  <2>6. ASSUME NEW j \in 1..Count
        PROVE  f[j] \in Walk(show)
    <3>1. f[j] % Week = d % Week
      <4> DEFINE a == d - (first + 2)
                 q == a \div Week
      <4>1. a \in Int /\ q \in Int /\ a = Week * q + r /\ r \in Int
        <5>1. a \in Int /\ r = a % Week
          BY <2>1
        <5> HIDE DEF a, r
        <5>2. a \div Week \in Int /\ a % Week \in 0 .. Week - 1 /\ a = Week * (a \div Week) + (a % Week)
          BY <5>1, Sizes, DivMod
        <5> QED
          BY <5>1, <5>2
      <4>2. f[j] = first + 2 + r + (j - 1) * Week
        OBVIOUS
      <4> HIDE DEF a, r, q, f
      <4>3. d = first + 2 + a
        BY <1>1 DEF a
      <4>4. j - 1 - q \in Int /\ (j - 1 - q) * Week = (j - 1) * Week - Week * q
        BY <4>1, CalendarTypes
      <4>5. f[j] = d + (j - 1 - q) * Week
        BY <1>1, <4>1, <4>2, <4>3, <4>4, CalendarTypes
      <4> QED
        BY <1>1, <4>4, <4>5, CalendarTypes, ModShift
    <3>2. f[j] \in Days
      <4>1. MonthStart[1] \in Int /\ MonthStart[Len(MonthStart)] \in Int
        BY CalendarTypes
      <4> HIDE DEF f
      <4> QED
        BY <1>1, <2>3, <2>4, <4>1 DEF Days
    <3>3. Named(show.rule, f[j])
      <4> HIDE DEF f
      <4> QED
        BY <1>1, <1>3, <3>1 DEF Named
    <3>4. first <= f[j]
      <4> HIDE DEF f
      <4> QED
        BY <1>1, <2>3
    <3> HIDE DEF f
    <3> QED
      BY <1>2, <2>4, <3>2, <3>3, <3>4
  <2>7. f \in [1..Count -> Walk(show)]
    BY <2>6
  <2> HIDE DEF f
  <2> QED
    BY <2>3, <2>4, <2>5, <2>7
<1>4. CASE show.rule.kind = "monthly"
  <2> DEFINE M == MonthOf(first)
             dom == show.rule.dom
             f == [j \in 1..Count |-> MonthlyDay(dom, M + 1 + j)]
  <2>1. dom \in Int \ {0}
    <3>1. dom \in Int
      BY <1>1, <1>4 DEF Recurrence
    <3>2. /\ DayOfMonth(d) \in Int /\ LastDay(MonthOf(d)) \in Int
          /\ 1 <= DayOfMonth(d) /\ DayOfMonth(d) <= LastDay(MonthOf(d))
      <4>1. MonthOf(d) \in 1..Len(MonthStart) /\ MonthOf(d) + 1 \in 1..Len(MonthStart)
        BY <1>1, MonthOfDay, CalendarTypes DEF Months
      <4>2. MonthStart[MonthOf(d)] \in Int /\ MonthStart[MonthOf(d) + 1] \in Int
        BY <4>1, CalendarTypes
      <4> QED
        BY <1>1, <4>2, MonthOfDay DEF DayOfMonth, LastDay
    <3>3. dom # 0
      BY <1>1, <1>4, <3>2 DEF Named
    <3> QED
      BY <3>1, <3>3
  <2>2. M \in Int /\ 1 <= M /\ M < Len(MonthStart) /\ first < MonthStart[M + 1]
    BY <1>1, MonthOfDay, CalendarTypes DEF Months
  <2>3. M + Horizon < Len(MonthStart) /\ last = MonthStart[M + Horizon] - 1
    <3>1. last = MonthStart[Earlier(M + Horizon, Len(MonthStart))] - 1
      BY <1>4 DEF LastWalked
    <3>2. MonthStart[Len(MonthStart)] \in Int /\ d < MonthStart[Len(MonthStart)]
      BY <1>1, CalendarTypes DEF Days
    <3>3. CASE M + Horizon < Len(MonthStart)
      BY <3>1, <3>3 DEF Earlier
    <3>4. CASE ~(M + Horizon < Len(MonthStart))
      <4>1. last = MonthStart[Len(MonthStart)] - 1
        BY <3>1, <3>4 DEF Earlier
      <4> QED
        BY <1>1, <3>2, <4>1
    <3> QED
      BY <3>3, <3>4
  <2>4. /\ M + 1 \in 1..Len(MonthStart) /\ M + 2 \in 1..Len(MonthStart)
        /\ M + Horizon \in 1..Len(MonthStart) /\ Len(MonthStart) \in Nat
    <3>1. Len(MonthStart) \in Nat
      BY CalendarTypes
    <3> HIDE DEF M
    <3> QED
      BY <2>2, <2>3, <3>1, Sizes
  <2>5. \A j \in 1..Count : /\ M + 1 + j \in Months /\ M + 1 + j \in 1..Len(MonthStart)
                            /\ M + 2 + j \in 1..Len(MonthStart)
                            /\ M + 2 <= M + 1 + j /\ M + 2 + j <= M + Horizon
    <3> HIDE DEF M
    <3> QED
      BY <2>2, <2>3, <2>4, Sizes DEF Months
  <2>6. first + 2 <= MonthStart[M + 2]
    <3>1. MonthStart[M + 1] \in Int /\ MonthStart[M + 2] \in Int /\ MonthStart[M + 1] < MonthStart[M + 2]
      BY <2>2, <2>4, CalendarTypes
    <3> QED
      BY <1>1, <2>2, <3>1
  <2>7. ASSUME NEW j \in 1..Count
        PROVE  /\ f[j] \in Days /\ f[j] \in Int /\ MonthOf(f[j]) = M + 1 + j
               /\ MonthStart[M + 1 + j] <= f[j] /\ f[j] < MonthStart[M + 2 + j]
               /\ f[j] = MonthlyDay(dom, M + 1 + j)
    <3>1. f[j] = MonthlyDay(dom, M + 1 + j)
      OBVIOUS
    <3>2. M + 1 + j \in Months /\ (M + 1 + j) + 1 = M + 2 + j
      BY <2>2, <2>5
    <3> HIDE DEF f, M, dom
    <3> QED
      BY <2>1, <3>1, <3>2, MonthlyDayInMonth, MonthOfDay
  <2>8. ASSUME NEW j \in 1..Count
        PROVE  first + 2 <= f[j] /\ f[j] <= last
    <3>0. /\ f[j] \in Int /\ MonthStart[M + 1 + j] <= f[j] /\ f[j] < MonthStart[M + 2 + j]
          /\ last = MonthStart[M + Horizon] - 1 /\ first + 2 <= MonthStart[M + 2] /\ first \in Int
      BY <1>1, <2>3, <2>6, <2>7
    <3>1. MonthStart[M + 1 + j] \in Int /\ MonthStart[M + 2 + j] \in Int
      BY <2>5, CalendarTypes
    <3>2. MonthStart[M + 2] \in Int /\ MonthStart[M + Horizon] \in Int
      BY <2>4, CalendarTypes
    <3>3. MonthStart[M + 2] <= MonthStart[M + 1 + j]
      <4>1. M + 2 = M + 1 + j \/ M + 2 < M + 1 + j
        BY <2>2
      <4> QED
        BY <2>4, <2>5, <3>1, <3>2, <4>1, CalendarTypes
    <3>4. MonthStart[M + 2 + j] <= MonthStart[M + Horizon]
      <4>1. M + 2 + j = M + Horizon \/ M + 2 + j < M + Horizon
        <5>1. M + 2 + j <= M + Horizon /\ M + 2 + j \in 1..Len(MonthStart)
          BY <2>5
        <5> HIDE DEF M
        <5> QED
          BY <2>2, <5>1, Sizes
      <4> QED
        BY <2>4, <2>5, <3>1, <3>2, <4>1, CalendarTypes
    <3> HIDE DEF f, M, first, last
    <3> QED
      BY <3>0, <3>1, <3>2, <3>3, <3>4
  <2>9. ASSUME NEW j \in 1..Count, NEW k \in 1..Count, j < k
        PROVE  f[j] < f[k]
    <3>1. MonthStart[M + 2 + j] \in Int /\ MonthStart[M + 1 + k] \in Int
      BY <2>5, CalendarTypes
    <3>2. MonthStart[M + 2 + j] <= MonthStart[M + 1 + k]
      <4>1. M + 2 + j = M + 1 + k \/ M + 2 + j < M + 1 + k
        BY <2>2, <2>9
      <4> QED
        BY <2>5, <3>1, <4>1, CalendarTypes
    <3> HIDE DEF f, M
    <3> QED
      BY <2>7, <3>1, <3>2
  <2>10. ASSUME NEW j \in 1..Count
         PROVE  f[j] \in Walk(show)
    <3> HIDE DEF f, M
    <3>1. Matches(show.rule, f[j])
      BY <1>4, <2>7 DEF Matches
    <3>2. Named(show.rule, f[j])
      BY <1>1, <2>7, <3>1, MatchesNamed
    <3> QED
      BY <1>1, <1>2, <2>7, <2>8, <3>2
  <2>11. f \in [1..Count -> Walk(show)]
    BY <2>10
  <2>12. \A j \in 1..Count : f[j] < d
    <3> HIDE DEF f
    <3> QED
      BY <1>1, <2>7, <2>8
  <2> HIDE DEF f
  <2> QED
    BY <2>8, <2>9, <2>11, <2>12
<1> QED
  BY <1>3, <1>4

\* What is to come of a row is not on a day before the walk.
LEMMA ComingDays ==
  ASSUME NEW show, RowOK(show), show.rule # Once, now \in FirstNow..LastNow
  PROVE  /\ \A d \in DaysOf(show) : /\ d \in Days /\ d \in Int /\ OccurrenceOn(show, d) \in Int
                                    /\ now <= OccurrenceOn(show, d) => FirstDay(show) <= d
                                    /\ FirstDay(show) + 2 <= d => now < OccurrenceOn(show, d)
         /\ \A d, e \in DaysOf(show) : d < e => OccurrenceOn(show, d) < OccurrenceOn(show, e)
<1> DEFINE z == show.zone
<1>1. /\ z \in Zones /\ now \in Int /\ RowTime(show) \in 0 .. Day - 1
      /\ LocalDay(z, show.start) \in Int /\ LocalDay(z, now) \in Int /\ show.start \in Int
      /\ FirstDay(show) \in {LocalDay(z, show.start), LocalDay(z, now)}
      /\ FirstDay(show) = LocalDay(z, Later(show.start, now))
  BY RowTypes
<1>2. ASSUME NEW d \in DaysOf(show)
      PROVE  d \in Days /\ d \in Int /\ LocalDay(z, show.start) <= d
  BY MonthOfDay DEF DaysOf
<1>3. ASSUME NEW d \in DaysOf(show)
      PROVE  /\ OccurrenceOn(show, d) \in Int
             /\ d < LocalDay(z, now) => OccurrenceOn(show, d) < now
             /\ \A t \in Int : LocalDay(z, t) + 2 <= d => t < OccurrenceOn(show, d)
             /\ \A e \in Int : d < e => OccurrenceOn(show, d) < OccurrenceOn(show, e)
  BY <1>1, <1>2, MomentsInOrder DEF OccurrenceOn
<1>4. ASSUME NEW d \in DaysOf(show), now <= OccurrenceOn(show, d)
      PROVE  FirstDay(show) <= d
  BY <1>1, <1>2, <1>3, <1>4
<1>5. ASSUME NEW d \in DaysOf(show), FirstDay(show) + 2 <= d
      PROVE  now < OccurrenceOn(show, d)
  <2>1. Later(show.start, now) \in Int /\ now <= Later(show.start, now)
    BY <1>1 DEF Later
  <2>2. Later(show.start, now) < OccurrenceOn(show, d)
    BY <1>1, <1>3, <1>5, <2>1
  <2> QED
    BY <1>1, <1>3, <2>1, <2>2
<1> QED
  BY <1>2, <1>3, <1>4, <1>5

\* A page's worth of shows is finite.
LEMMA ToComeFinite ==
  ASSUME NEW show, RowOK(show), now \in FirstNow..LastNow
  PROVE  IsFiniteSet(ToCome(show)) /\ ToCome(show) \subseteq Int /\ \A t \in ToCome(show) : now <= t
<1>1. CASE show.rule = Once
  <2>1. ToCome(show) \in SUBSET {show.start}
    BY <1>1 DEF ToCome
  <2>2. IsFiniteSet({show.start})
    BY FS_Singleton
  <2>3. show.start \in Int
    BY RowTypes
  <2> QED
    BY <1>1, <2>1, <2>2, <2>3, FS_Subset DEF ToCome
<1>2. CASE show.rule # Once
  <2> DEFINE f == [d \in DaysOf(show) |-> OccurrenceOn(show, d)]
             T == {f[d] : d \in DaysOf(show)}
  <2>1. IsFiniteSet(Days)
    <3>1. MonthStart[1] \in Int /\ MonthStart[Len(MonthStart)] - 1 \in Int
      BY CalendarTypes
    <3> QED
      BY <3>1, FS_Interval DEF Days
  <2>2. IsFiniteSet(DaysOf(show))
    <3>1. DaysOf(show) \in SUBSET Days
      BY DEF DaysOf
    <3> QED
      BY <2>1, <3>1, FS_Subset
  <2>3. IsFiniteSet(T)
    <3>1. DOMAIN f = DaysOf(show) /\ f = [d \in DaysOf(show) |-> f[d]]
      OBVIOUS
    <3> HIDE DEF f
    <3> QED
      BY <2>2, <3>1, FiniteImage
  <2>4. ToCome(show) \in SUBSET T
    BY <1>2 DEF ToCome
  <2>5. \A t \in ToCome(show) : t \in Int /\ now <= t
    BY <1>2, ComingDays, RowTypes DEF ToCome, InRange
  <2> QED
    BY <2>3, <2>4, <2>5, FS_Subset
<1> QED
  BY <1>1, <1>2

\* What the expansion of a row leaves out of what is to come has as many shows of
\* that row before it as the list is long.
LEMMA LeftOutLate ==
  ASSUME NEW show, RowOK(show), now \in FirstNow..LastNow
  PROVE  /\ Expand(show) \subseteq ToCome(show)
         /\ \A t \in ToCome(show) \ Expand(show) :
              Count <= Cardinality({u \in ToCome(show) : u < t})
<1>1. CASE show.rule = Once
  BY <1>1 DEF Expand, ToCome
<1>2. CASE show.rule # Once
  <2> DEFINE W == {t \in {OccurrenceOn(show, d) : d \in Walk(show)} : InRange(show, t)}
             C == ToCome(show)
  <2>1. Expand(show) = FirstOf(Count, W)
    BY <1>2 DEF Expand
  <2>2. C = {t \in {OccurrenceOn(show, d) : d \in DaysOf(show)} : InRange(show, t)}
    BY <1>2 DEF ToCome
  <2>3. W \subseteq C
    BY <1>2, <2>2, WalkDays
  <2>4. IsFiniteSet(C) /\ \A t : IsFiniteSet({u \in C : u < t})
    <3>1. IsFiniteSet(C)
      BY ToComeFinite
    <3>2. \A t : {u \in C : u < t} \in SUBSET C
      OBVIOUS
    <3> HIDE DEF C
    <3> QED
      BY <3>1, <3>2, FS_Subset
  <2>5. ASSUME NEW t \in C \ W
        PROVE  Count <= Cardinality({u \in C : u < t})
    <3>1. PICK d \in DaysOf(show) : t = OccurrenceOn(show, d) /\ InRange(show, t)
      BY <2>2
    <3>2. FirstDay(show) <= d /\ d \notin Walk(show) /\ LastWalked(show) < d
      <4>1. FirstDay(show) <= d
        BY <1>2, <3>1, ComingDays DEF InRange
      <4>2. d \notin Walk(show)
        BY <2>5, <3>1
      <4>3. d \in Int /\ LastWalked(show) \in Int
        BY <1>2, ComingDays, WalkDays
      <4> QED
        BY <1>2, <4>1, <4>2, <4>3, WalkDays
    <3>3. PICK f \in [1..Count -> Walk(show)] :
            /\ \A j \in 1..Count : FirstDay(show) + 2 <= f[j] /\ f[j] < d
            /\ \A j, k \in 1..Count : j < k => f[j] < f[k]
      BY <1>2, <3>2, BeyondWalk
    <3> DEFINE g == [j \in 1..Count |-> OccurrenceOn(show, f[j])]
               S == {u \in C : u < t}
    <3>4. \A j \in 1..Count : f[j] \in DaysOf(show)
      BY <1>2, <3>3, WalkDays
    <3>5. ASSUME NEW j \in 1..Count
          PROVE  g[j] \in S
      <4>1. g[j] = OccurrenceOn(show, f[j])
        OBVIOUS
      <4>2. now < OccurrenceOn(show, f[j]) /\ OccurrenceOn(show, f[j]) < t
        BY <1>2, <3>1, <3>3, <3>4, ComingDays
      <4>3. OccurrenceOn(show, f[j]) \in Int /\ t \in Int /\ now \in Int /\ show.until \in Int \cup {Null}
        BY <1>2, <3>1, <3>4, ComingDays, RowTypes DEF RowOK
      <4>4. InRange(show, OccurrenceOn(show, f[j]))
        BY <3>1, <4>2, <4>3 DEF InRange
      <4> HIDE DEF g
      <4> QED
        BY <2>2, <3>4, <4>1, <4>2, <4>4
    <3>6. ASSUME NEW j \in 1..Count, NEW k \in 1..Count, j < k
          PROVE  g[j] < g[k]
      BY <1>2, <3>3, <3>4, <3>6, ComingDays
    <3>7. \A j \in 1..Count : g[j] \in Int
      BY <1>2, <3>4, ComingDays
    <3>8. g \in Injection(1..Count, S)
      <4>1. g \in [1..Count -> S]
        BY <3>5
      <4>2. \A j, k \in 1..Count : g[j] = g[k] => j = k
        <5> HIDE DEF g
        <5> QED
          BY <3>6, <3>7, Sizes
      <4> HIDE DEF g, S
      <4> QED
        BY <4>1, <4>2 DEF Injection, IsInjective
    <3> QED
      BY <2>4, <3>8, AtLeast, Sizes
  <2>6. ASSUME NEW t \in W, t \notin Expand(show)
        PROVE  Count <= Cardinality({u \in C : u < t})
    <3>1. ~(Cardinality({u \in W : u < t}) < Count)
      BY <2>1, <2>6 DEF FirstOf
    <3>2. {u \in W : u < t} \in SUBSET {u \in C : u < t}
      BY <2>3
    <3> HIDE DEF W, C
    <3>3. /\ IsFiniteSet({u \in W : u < t})
          /\ Cardinality({u \in W : u < t}) <= Cardinality({u \in C : u < t})
      BY <2>4, <3>2, FS_Subset
    <3>4. Cardinality({u \in W : u < t}) \in Nat /\ Cardinality({u \in C : u < t}) \in Nat
      BY <2>4, <3>3, FS_CardinalityType
    <3> QED
      BY <3>1, <3>3, <3>4, Sizes
  <2>7. Expand(show) \subseteq W
    BY <2>1 DEF FirstOf
  <2> QED
    BY <2>3, <2>5, <2>6, <2>7
<1> QED
  BY <1>1, <1>2

-----------------------------------------------------------------------------
(* The list *)

LEMMA RowsOK == SchedulesTypeOK => now \in FirstNow..LastNow /\ \A i \in Present : RowOK(rows[i])
  BY DEF SchedulesTypeOK, Present, RowOK

\* All that is to come is finite, and in order.
LEMMA AllToComeOrder ==
  ASSUME SchedulesTypeOK
  PROVE  /\ IsFiniteSet(AllToCome)
         /\ \A e \in AllToCome : /\ e.row \in Present /\ e.at \in ToCome(rows[e.row]) /\ e.at \in Int
                                 /\ now <= e.at /\ e = [row |-> e.row, at |-> e.at]
         /\ \A e \in AllToCome : ~Precedes(e, e)
         /\ \A e, f, g \in AllToCome : Precedes(e, f) /\ Precedes(f, g) => Precedes(e, g)
<1> DEFINE Shows(i) == {[row |-> i, at |-> t] : t \in ToCome(rows[i])}
           s == [i \in Present |-> Shows(i)]
<1>1. now \in FirstNow..LastNow /\ \A i \in Present : RowOK(rows[i])
  BY RowsOK
<1>2. IsFiniteSet(Present)
  <2>1. Present \in SUBSET (1..NRows)
    BY DEF Present, Rows
  <2>2. IsFiniteSet(1..NRows)
    BY SchedulesAssumption, FS_Interval
  <2> QED
    BY <2>1, <2>2, FS_Subset
<1>3. ASSUME NEW i \in Present
      PROVE  IsFiniteSet(Shows(i))
  <2> DEFINE f == [t \in ToCome(rows[i]) |-> [row |-> i, at |-> t]]
  <2>1. IsFiniteSet(ToCome(rows[i]))
    BY <1>1, ToComeFinite
  <2>2. DOMAIN f = ToCome(rows[i]) /\ f = [t \in ToCome(rows[i]) |-> f[t]]
    OBVIOUS
  <2>3. Shows(i) = {f[t] : t \in ToCome(rows[i])}
    OBVIOUS
  <2> HIDE DEF f, Shows
  <2> QED
    BY <2>1, <2>2, <2>3, FiniteImage
<1>4. IsFiniteSet(AllToCome)
  <2>1. DOMAIN s = Present /\ s = [i \in Present |-> s[i]]
    OBVIOUS
  <2>2. \A S \in {s[i] : i \in Present} : IsFiniteSet(S)
    BY <1>3
  <2>3. AllToCome = UNION {s[i] : i \in Present}
    BY DEF AllToCome
  <2> HIDE DEF s
  <2>4. IsFiniteSet({s[i] : i \in Present})
    BY <1>2, <2>1, FiniteImage
  <2> QED
    BY <2>2, <2>3, <2>4, FS_UNION
<1>5. ASSUME NEW e \in AllToCome
      PROVE  /\ e.row \in Present /\ e.at \in ToCome(rows[e.row]) /\ e.at \in Int
             /\ now <= e.at /\ e = [row |-> e.row, at |-> e.at]
             /\ e.row \in Int /\ rows[e.row].start \in Int
  <2>1. PICK i \in Present : \E t \in ToCome(rows[i]) : e = [row |-> i, at |-> t]
    BY DEF AllToCome
  <2>2. PICK t \in ToCome(rows[i]) : e = [row |-> i, at |-> t]
    BY <2>1
  <2>3. t \in Int /\ now <= t /\ rows[i].start \in Int
    BY <1>1, ToComeFinite, RowTypes
  <2>4. i \in Int
    BY SchedulesAssumption DEF Present, Rows
  <2> QED
    BY <2>2, <2>3, <2>4
<1>6. \A e \in AllToCome : ~Precedes(e, e)
  BY <1>5 DEF Precedes
<1>7. ASSUME NEW e \in AllToCome, NEW f \in AllToCome, NEW g \in AllToCome,
             Precedes(e, f), Precedes(f, g)
      PROVE  Precedes(e, g)
  BY <1>5, <1>7 DEF Precedes
<1> QED
  BY <1>4, <1>5, <1>6, <1>7

\* In a state of the right types the list is what comes first of all that is to come.
LEMMA TypesListTheNext == SchedulesTypeOK => ListsTheNext
<1> SUFFICES ASSUME SchedulesTypeOK
             PROVE  ListsTheNext
  OBVIOUS
<1> DEFINE U == Expanded
           V == AllToCome
<1>1. now \in FirstNow..LastNow /\ \A i \in Present : RowOK(rows[i])
  BY RowsOK
<1>2. U \subseteq V
  BY <1>1, LeftOutLate DEF Expanded, AllToCome
<1>3. ASSUME NEW e \in V \ U
      PROVE  Count <= Cardinality(Before(V, e))
  <2>1. /\ e.row \in Present /\ e.at \in ToCome(rows[e.row]) /\ e.at \in Int
        /\ e = [row |-> e.row, at |-> e.at]
    BY AllToComeOrder
  <2> DEFINE C == {u \in ToCome(rows[e.row]) : u < e.at}
             f == [u \in C |-> [row |-> e.row, at |-> u]]
  <2>2. e.at \notin Expand(rows[e.row])
    BY <1>3, <2>1 DEF Expanded
  <2>3. Count <= Cardinality(C)
    BY <1>1, <2>1, <2>2, LeftOutLate
  <2>4. f \in Injection(C, Before(V, e))
    <3>1. \A u \in C : f[u] \in Before(V, e)
      BY <2>1 DEF Before, AllToCome, Precedes
    <3>2. \A u, v \in C : f[u] = f[v] => u = v
      <4> SUFFICES ASSUME NEW u \in C, NEW v \in C, f[u] = f[v]
                   PROVE  u = v
        OBVIOUS
      <4>1. f[u].at = u /\ f[v].at = v
        OBVIOUS
      <4> QED
        BY <4>1
    <3>3. f \in [C -> Before(V, e)]
      BY <3>1
    <3> HIDE DEF f, C
    <3> QED
      BY <3>2, <3>3 DEF Injection, IsInjective
  <2>5. IsFiniteSet(Before(V, e))
    <3>1. Before(V, e) \in SUBSET V
      BY DEF Before
    <3> QED
      BY <3>1, AllToComeOrder, FS_Subset
  <2>6. IsFiniteSet(C) /\ Cardinality(C) <= Cardinality(Before(V, e))
    BY <2>4, <2>5, FS_Injection
  <2>7. Cardinality(C) \in Nat /\ Cardinality(Before(V, e)) \in Nat
    BY <2>5, <2>6, FS_CardinalityType
  <2> HIDE DEF C
  <2> QED
    BY <2>3, <2>6, <2>7, Sizes
<1> HIDE DEF U, V
<1>4. FirstEntries(Count, U) = FirstEntries(Count, V)
  <2>1. /\ IsFiniteSet(V) /\ \A e \in V : ~Precedes(e, e)
        /\ \A e, f, g \in V : Precedes(e, f) /\ Precedes(f, g) => Precedes(e, g)
    BY AllToComeOrder DEF V
  <2> QED
    BY <1>2, <1>3, <2>1, Sizes, FirstSame
<1> QED
  BY <1>4 DEF ListsTheNext, Upcoming, U, V

-----------------------------------------------------------------------------
(* Local time, and the first show *)

\* In a state of the right types the shows of every row keep their local time.
LEMMA TypesKeepTime == SchedulesTypeOK => KeepsLocalTime
<1> SUFFICES ASSUME SchedulesTypeOK, NEW i \in Present, NEW d \in Walk(rows[i]),
                    Shown(rows[i].zone, Local(d, RowTime(rows[i])))
             PROVE  Wall(rows[i].zone, OccurrenceOn(rows[i], d)) = Local(d, RowTime(rows[i]))
  BY DEF KeepsLocalTime
<1>1. rows[i].zone \in Zones /\ RowTime(rows[i]) \in 0 .. Day - 1
  BY RowsOK, RowTypes
<1>2. d \in Int
  BY MonthOfDay DEF Walk
<1>3. Local(d, RowTime(rows[i])) \in Int
  BY <1>1, <1>2, MomentsInOrder
<1> QED
  BY <1>1, <1>3, ZoneTypes, LocalToUTCCorrect DEF OccurrenceOn

\* In a state of the right types a show starts with the moment that was picked.
LEMMA TypesFirstIsStart == SchedulesTypeOK => FirstIsStart
<1> SUFFICES ASSUME SchedulesTypeOK, NEW i \in Present, NEW show, show = rows[i],
                    show.rule # Once, InRange(show, show.start),
                    Named(show.rule, LocalDay(show.zone, show.start)),
                    ~ShownTwice(show.zone, Wall(show.zone, show.start))
             PROVE  show.start \in Expand(show) /\ \A t \in Expand(show) : show.start <= t
  BY DEF FirstIsStart
<1> DEFINE first == LocalDay(show.zone, show.start)
           W == {t \in {OccurrenceOn(show, d) : d \in Walk(show)} : InRange(show, t)}
<1>1. RowOK(show) /\ now \in FirstNow..LastNow
  BY RowsOK
<1>2. show.start \in Int /\ show.zone \in Zones /\ now \in Int
  BY <1>1, RowTypes
<1>3. FirstDay(show) = first /\ first \in Days /\ first \in Int
  <2>1. Later(show.start, now) = show.start
    BY <1>2 DEF InRange, Later
  <2> QED
    BY <1>1, <2>1, RowTypes
<1>4. first \in DaysOf(show)
  BY <1>3 DEF DaysOf
<1>5. first <= LastWalked(show)
  <2>1. CASE show.rule.kind = "monthly"
    <3> DEFINE n == Earlier(MonthOf(first) + Horizon, Len(MonthStart))
    <3>1. /\ MonthOf(first) \in Int /\ 1 <= MonthOf(first) /\ MonthOf(first) + 1 <= Len(MonthStart)
          /\ first < MonthStart[MonthOf(first) + 1] /\ Len(MonthStart) \in Nat
      BY <1>3, MonthOfDay, CalendarTypes DEF Months
    <3>2. n \in 1..Len(MonthStart) /\ MonthOf(first) + 1 \in 1..Len(MonthStart) /\ MonthOf(first) + 1 <= n
      <4> DEFINE m == MonthOf(first)
      <4> HIDE DEF m
      <4> QED
        BY <3>1, Sizes DEF Earlier, m
    <3> HIDE DEF n
    <3>3. MonthStart[n] \in Int /\ MonthStart[MonthOf(first) + 1] \in Int
      BY <3>2, CalendarTypes
    <3>4. MonthStart[MonthOf(first) + 1] <= MonthStart[n]
      <4>1. MonthOf(first) + 1 = n \/ MonthOf(first) + 1 < n
        BY <3>1, <3>2
      <4> QED
        BY <3>2, <3>3, <4>1, CalendarTypes
    <3>5. LastWalked(show) = MonthStart[n] - 1
      BY <1>3, <2>1 DEF LastWalked, n
    <3> QED
      BY <1>3, <3>1, <3>3, <3>4, <3>5
  <2>2. CASE show.rule.kind # "monthly"
    <3>1. LastWalked(show) = first + Horizon - 1
      BY <1>3, <2>2 DEF LastWalked
    <3> HIDE DEF first
    <3> QED
      BY <1>3, <3>1, Sizes
  <2> QED
    BY <2>1, <2>2
<1>6. first \in Walk(show) /\ \A d \in Walk(show) : d \in DaysOf(show) /\ first <= d
  BY <1>1, <1>3, <1>4, <1>5, WalkDays
<1>7. OccurrenceOn(show, first) = show.start
  <2>1. Local(first, RowTime(show)) = Wall(show.zone, show.start)
    BY <1>2, ZoneTypes DEF RowTime
  <2> QED
    BY <1>2, <2>1, ThereAndBack DEF OccurrenceOn
<1>8. show.start \in W
  BY <1>6, <1>7
<1>9. ASSUME NEW t \in W
      PROVE  show.start <= t /\ t \in Int
  <2>1. PICK d \in Walk(show) : t = OccurrenceOn(show, d)
    OBVIOUS
  <2>2. d \in Int /\ t \in Int
    BY <1>1, <1>6, <2>1, ComingDays
  <2>3. CASE first < d
    BY <1>1, <1>2, <1>4, <1>6, <1>7, <2>1, <2>2, <2>3, ComingDays
  <2>4. CASE first = d
    BY <1>2, <1>7, <2>1, <2>4
  <2> QED
    BY <1>3, <1>6, <2>2, <2>3, <2>4
<1>10. Expand(show) = FirstOf(Count, W)
  BY DEF Expand
<1>11. {u \in W : u < show.start} = {}
  <2> HIDE DEF W
  <2> QED
    BY <1>2, <1>9
<1>12. Cardinality({u \in W : u < show.start}) < Count
  <2>1. Cardinality({u \in W : u < show.start}) = 0
    BY <1>11, FS_EmptySet
  <2> HIDE DEF W
  <2> QED
    BY <2>1, Sizes
<1> HIDE DEF W
<1> QED
  BY <1>8, <1>9, <1>10, <1>12 DEF FirstOf

-----------------------------------------------------------------------------
(* The countdown *)

\* What a page counts down to is, of all that is to come, what comes first.
CountsToFirst ==
  fresh =>
    IF next = Null THEN AllToCome = {}
    ELSE now <= next => \E e \in AllToCome : e.at = next /\ \A f \in AllToCome : ~Precedes(f, e)

LEMMA FirstUpcoming ==
  ASSUME SchedulesTypeOK
  PROVE  /\ Upcoming = {} <=> AllToCome = {}
         /\ \A e : e \in FirstEntries(1, Upcoming) <=>
                     e \in AllToCome /\ \A f \in AllToCome : ~Precedes(f, e)
<1> DEFINE V == AllToCome
<1>1. Upcoming = FirstEntries(Count, V)
  BY TypesListTheNext DEF ListsTheNext
<1>2. /\ IsFiniteSet(V) /\ \A e \in V : ~Precedes(e, e)
      /\ \A e, f, g \in V : Precedes(e, f) /\ Precedes(f, g) => Precedes(e, g)
  BY AllToComeOrder
<1> HIDE DEF V
<1>3. /\ FirstEntries(1, Upcoming) = FirstEntries(1, V)
      /\ Upcoming = {} => V = {}
      /\ \A e \in V : e \in FirstEntries(1, V) <=> \A f \in V : ~Precedes(f, e)
  BY <1>1, <1>2, Sizes, FirstOfFirst
<1>4. Upcoming \subseteq V /\ FirstEntries(1, V) \subseteq V
  BY <1>1 DEF FirstEntries
<1> QED
  BY <1>3, <1>4 DEF V

LEMMA CountdownIsToFirst == SchedulesTypeOK => (CountdownHolds <=> CountsToFirst)
<1> SUFFICES ASSUME SchedulesTypeOK
             PROVE  CountdownHolds <=> CountsToFirst
  OBVIOUS
<1>1. (\E e \in FirstEntries(1, Upcoming) : e.at = next) <=>
        \E e \in AllToCome : e.at = next /\ \A f \in AllToCome : ~Precedes(f, e)
  BY FirstUpcoming
<1>2. Upcoming = {} <=> AllToCome = {}
  BY FirstUpcoming
<1> QED
  BY <1>1, <1>2 DEF CountdownHolds, CountsToFirst

\* What is to come changes with the rows and with the time only.
LEMMA ComingUnchanged ==
  ASSUME UNCHANGED <<now, rows>>
  PROVE  /\ AllToCome' = AllToCome
         /\ \A e, f : Precedes(e, f)' <=> Precedes(e, f)
<1>1. Present' = Present /\ \A show : ToCome(show)' = ToCome(show)
  BY DEF Present, ToCome, InRange
<1>2. AllToCome' = AllToCome
  BY <1>1 DEF AllToCome
<1>3. \A e, f : Precedes(e, f)' <=> Precedes(e, f)
  BY DEF Precedes
<1> QED
  BY <1>2, <1>3

\* A tick takes what is past from what was to come.
LEMMA ComingAfterTick ==
  ASSUME SchedulesTypeOK, Tick
  PROVE  /\ AllToCome' = {e \in AllToCome : now' <= e.at}
         /\ \A e, f : Precedes(e, f)' <=> Precedes(e, f)
<1>1. /\ rows' = rows /\ now' = now + 1 /\ now \in Int /\ now' \in Int
      /\ Present' = Present
  BY SchedulesAssumption DEF Tick, Present, SchedulesTypeOK
<1>2. ASSUME NEW show, RowOK(show)
      PROVE  ToCome(show)' = {t \in ToCome(show) : now' <= t}
  <2>1. now \in FirstNow..LastNow
    BY DEF SchedulesTypeOK
  <2>2. show.start \in Int
    BY <1>2, <2>1, RowTypes
  <2>3. CASE show.rule = Once
    BY <1>1, <2>2, <2>3 DEF ToCome
  <2>4. CASE show.rule # Once
    <3> DEFINE O == {OccurrenceOn(show, d) : d \in DaysOf(show)}
    <3>1. O \subseteq Int
      BY <1>2, <2>1, <2>4, ComingDays
    <3>2. ToCome(show) = {t \in O : t >= now /\ (show.until # Null => t <= show.until)}
      BY <2>4 DEF ToCome, InRange
    <3>3. ToCome(show)' = {t \in O : t >= now' /\ (show.until # Null => t <= show.until)}
      BY <2>4 DEF ToCome, InRange
    <3>4. \A t \in O : t >= now' <=> t >= now /\ now' <= t
      <4> HIDE DEF O
      <4> QED
        BY <1>1, <3>1
    <3> HIDE DEF O
    <3> QED
      BY <3>2, <3>3, <3>4, Zenon
  <2> QED
    BY <2>3, <2>4
<1>3. \A i \in Present : ToCome(rows[i])' = {t \in ToCome(rows[i]) : now' <= t}
  <2>1. \A i \in Present : RowOK(rows[i])
    BY RowsOK
  <2> QED
    BY <1>1, <1>2, <2>1
<1>4. AllToCome' = {e \in AllToCome : now' <= e.at}
  BY <1>1, <1>3 DEF AllToCome
<1>5. \A e, f : Precedes(e, f)' <=> Precedes(e, f)
  BY <1>1 DEF Precedes
<1> QED
  BY <1>4, <1>5

-----------------------------------------------------------------------------
(* The theorems *)

\* The end of a recurrence that is stored is a time, or none.
LEMMA StoredUntilType ==
  ASSUME now \in Int, NEW until \in Untils
  PROVE  StoredUntil(until) \in Int \cup {Null}
  BY SchedulesAssumption DEF StoredUntil, Earlier

\* A stored row has the right types, whatever the rule that was asked for.
LEMMA AddSchedulePreserves ==
  ASSUME SchedulesTypeOK, NEW i \in Rows, NEW start \in Starts, NEW rule, NEW until \in Untils,
         NEW zone \in Zones, WellFormed(rule) /\ rule.kind = "monthly" => rule.dom \in Int,
         AddSchedule(i, start, rule, until, zone)
  PROVE  SchedulesTypeOK'
<1> DEFINE show == [start |-> start, rule |-> StoredRule(rule), until |-> StoredUntil(until), zone |-> zone]
<1>1. /\ now \in FirstNow..LastNow /\ rows = [j \in Rows |-> rows[j]]
      /\ \A j \in Rows : rows[j] # Null => RowOK(rows[j])
      /\ next \in Int \cup {Null} /\ fresh \in BOOLEAN
  BY DEF SchedulesTypeOK, RowOK
<1>2. StoredUntil(until) \in Int \cup {Null}
  BY <1>1, SchedulesAssumption, StoredUntilType
<1>3. StoredRule(rule) = Once \/ Recurrence(StoredRule(rule))
  BY DEF StoredRule, Recurrence
<1>4. RowOK(show)
  BY <1>2, <1>3 DEF RowOK
<1>5. rows' = [rows EXCEPT ![i] = show] /\ now' = now /\ next' = next /\ fresh' = FALSE
  BY DEF AddSchedule
<1> HIDE DEF show
<1>6. \A j \in Rows : rows'[j] = (IF j = i THEN show ELSE rows[j])
  BY <1>1, <1>5
<1>7. \A j \in Rows : rows'[j] # Null => RowOK(rows'[j])
  BY <1>1, <1>4, <1>6
<1>8. rows' = [j \in Rows |-> rows'[j]]
  BY <1>1, <1>5
<1> QED
  BY <1>1, <1>5, <1>7, <1>8 DEF SchedulesTypeOK, RowOK

LEMMA SchedulesTypeOKStep ==
  ASSUME SchedulesTypeOK, [SchedulesNext]_schedules
  PROVE  SchedulesTypeOK'
<1>1. ASSUME NEW i \in Rows, PostSchedule(i)
      PROVE  SchedulesTypeOK'
  <2>1. \A rule \in Rules : rule.kind = "monthly" => rule.dom \in Int
    BY SchedulesAssumption
  <2> QED
    BY <1>1, <2>1, AddSchedulePreserves DEF PostSchedule
<1>2. ASSUME NEW i \in Rows, AddEvent(i)
      PROVE  SchedulesTypeOK'
  <2>1. PICK start \in Starts, form \in Forms, until \in Untils, zone \in Zones :
          AddSchedule(i, start, FormRule(form, start, zone), until, zone)
    BY <1>2 DEF AddEvent
  <2>2. LocalDay(zone, start) \in Days
    BY ZonesAssumption
  <2>3. DayOfMonth(LocalDay(zone, start)) \in Int
    <3> DEFINE d == LocalDay(zone, start)
    <3>1. d \in Int /\ MonthOf(d) \in 1..Len(MonthStart)
      BY <2>2, MonthOfDay, CalendarTypes DEF Months
    <3>2. MonthStart[MonthOf(d)] \in Int
      BY <3>1, CalendarTypes
    <3> QED
      BY <3>1, <3>2 DEF DayOfMonth
  <2>4. LET rule == FormRule(form, start, zone)
        IN WellFormed(rule) /\ rule.kind = "monthly" => rule.dom \in Int
    BY <2>3 DEF FormRule
  <2> QED
    BY <2>1, <2>4, AddSchedulePreserves
<1>3. ASSUME NEW i \in Rows, DeleteSchedule(i)
      PROVE  SchedulesTypeOK'
  <2>1. \A j \in Rows : rows'[j] # Null => rows'[j] = rows[j]
    BY <1>3 DEF DeleteSchedule, SchedulesTypeOK
  <2>2. rows' = [j \in Rows |-> rows'[j]]
    BY <1>3 DEF DeleteSchedule, SchedulesTypeOK
  <2> QED
    BY <1>3, <2>1, <2>2 DEF DeleteSchedule, SchedulesTypeOK
<1>4. CASE LoadPage
  <2>1. next' \in Int \cup {Null}
    BY <1>4, FirstUpcoming, AllToComeOrder DEF LoadPage
  <2> QED
    BY <1>4, <2>1 DEF LoadPage, SchedulesTypeOK
<1>5. CASE Tick
  BY <1>5, SchedulesAssumption DEF Tick, SchedulesTypeOK
<1>6. CASE UNCHANGED schedules
  BY <1>6 DEF schedules, SchedulesTypeOK
<1> QED
  BY <1>1, <1>2, <1>3, <1>4, <1>5, <1>6 DEF SchedulesNext

LEMMA SchedulesTypes == SchedulesSpec => []SchedulesTypeOK
<1>1. SchedulesInit => SchedulesTypeOK
  <2> SUFFICES ASSUME SchedulesInit
               PROVE  SchedulesTypeOK
    OBVIOUS
  <2>1. rows = [i \in Rows |-> rows[i]] /\ \A i \in Rows : rows[i] = Null
    BY DEF SchedulesInit
  <2>2. now \in FirstNow..LastNow
    BY SchedulesAssumption DEF SchedulesInit
  <2> QED
    BY <2>1, <2>2 DEF SchedulesInit, SchedulesTypeOK
<1>2. SchedulesTypeOK /\ [SchedulesNext]_schedules => SchedulesTypeOK'
  BY SchedulesTypeOKStep
<1> QED
  BY <1>1, <1>2, PTL DEF SchedulesSpec

\* Every variable keeps its type, and a recurring show its local time over the
\* switches of summer time (rooms.js:395), for all rows, rules and zones.
THEOREM SchedulesInvariant == SchedulesSpec => []SchedulesInv
<1>1. SchedulesTypeOK => SchedulesInv
  BY TypesKeepTime DEF SchedulesInv
<1> QED
  BY <1>1, SchedulesTypes, PTL

\* The list is always what comes first of all that is to come, although each row is
\* expanded only so many steps and to so many shows (rooms.js:487, 503).
THEOREM ListIsWhatComesNext == SchedulesSpec => []ListsTheNext
  BY SchedulesTypes, TypesListTheNext, PTL

\* The moment that was picked is a show's first occurrence, in every zone and on
\* either side of its switch.
THEOREM StartIsFirst == SchedulesSpec => []FirstIsStart
  BY SchedulesTypes, TypesFirstIsStart, PTL

LEMMA CountsToFirstStep ==
  ASSUME SchedulesTypeOK, CountsToFirst, [SchedulesNext]_schedules
  PROVE  CountsToFirst'
<1>1. ASSUME NEW i \in Rows, PostSchedule(i) \/ AddEvent(i) \/ DeleteSchedule(i)
      PROVE  CountsToFirst'
  <2>1. ~fresh'
    BY <1>1 DEF PostSchedule, AddEvent, AddSchedule, DeleteSchedule
  <2> QED
    BY <2>1 DEF CountsToFirst
<1>2. CASE LoadPage
  <2>1. AllToCome' = AllToCome /\ \A e, f : Precedes(e, f)' <=> Precedes(e, f)
    BY <1>2, ComingUnchanged DEF LoadPage
  <2>2. CASE Upcoming = {} /\ next' = Null
    <3>1. AllToCome' = {}
      BY <2>1, <2>2, FirstUpcoming
    <3> QED
      BY <2>2, <3>1 DEF CountsToFirst
  <2>3. CASE \E e \in FirstEntries(1, Upcoming) : next' = e.at
    <3>1. PICK e : /\ e \in FirstEntries(1, Upcoming) /\ next' = e.at
      BY <2>3
    <3>2. e \in AllToCome /\ \A f \in AllToCome : ~Precedes(f, e)
      BY <3>1, FirstUpcoming
    <3>3. next' # Null
      BY <3>1, <3>2, AllToComeOrder, SchedulesAssumption
    <3>4. e \in AllToCome' /\ \A f \in AllToCome' : ~Precedes(f, e)'
      BY <2>1, <3>2
    <3> QED
      BY <3>1, <3>3, <3>4 DEF CountsToFirst
  <2> QED
    BY <1>2, <2>2, <2>3 DEF LoadPage
<1>3. CASE Tick
  <2>1. AllToCome' = {e \in AllToCome : now' <= e.at} /\ \A e, f : Precedes(e, f)' <=> Precedes(e, f)
    BY <1>3, ComingAfterTick
  <2>2. next' = next /\ fresh' = fresh /\ now' = now + 1 /\ now \in Int /\ next \in Int \cup {Null}
    BY <1>3, SchedulesAssumption DEF Tick, SchedulesTypeOK
  <2>3. CASE fresh /\ next = Null
    <3>1. AllToCome' = {}
      BY <2>1, <2>3 DEF CountsToFirst
    <3> QED
      BY <2>2, <2>3, <3>1 DEF CountsToFirst
  <2>4. CASE fresh /\ next # Null /\ now' <= next
    <3>1. now <= next
      BY <2>2, <2>4
    <3>2. PICK e \in AllToCome : e.at = next /\ \A f \in AllToCome : ~Precedes(f, e)
      BY <2>4, <3>1 DEF CountsToFirst
    <3>3. e \in AllToCome' /\ \A f \in AllToCome' : ~Precedes(f, e)'
      BY <2>1, <2>4, <3>2
    <3> QED
      BY <2>2, <2>4, <3>2, <3>3 DEF CountsToFirst
  <2>5. CASE ~fresh \/ (next # Null /\ ~(now' <= next))
    BY <2>2, <2>5 DEF CountsToFirst
  <2> QED
    BY <2>3, <2>4, <2>5
<1>4. CASE UNCHANGED schedules
  <2>1. AllToCome' = AllToCome /\ \A e, f : Precedes(e, f)' <=> Precedes(e, f)
    BY <1>4, ComingUnchanged DEF schedules
  <2> QED
    BY <1>4, <2>1 DEF CountsToFirst, schedules
<1> QED
  BY <1>1, <1>2, <1>3, <1>4 DEF SchedulesNext

\* While nobody changes the schedule, the countdown that a page computed once from the
\* list stays right until its show starts, however long the page stays open.
THEOREM CountdownStaysRight == SchedulesSpec => []CountdownHolds
<1>1. SchedulesInit => CountsToFirst
  BY DEF SchedulesInit, CountsToFirst
<1>2. SchedulesTypeOK /\ CountsToFirst /\ [SchedulesNext]_schedules => CountsToFirst'
  BY CountsToFirstStep
<1>3. SchedulesTypeOK => (CountdownHolds <=> CountsToFirst)
  BY CountdownIsToFirst
<1> QED
  BY <1>1, <1>2, <1>3, SchedulesTypes, PTL DEF SchedulesSpec
=============================================================================
