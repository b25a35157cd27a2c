----------------------------- MODULE Recordings -----------------------------
(***************************************************************************)
(* Recordings and their English captions: publishing, deleting and         *)
(* fetching a recording (server/rooms.js, server/index.js), the dispatch of *)
(* a transcription job (server/transcripts.js), the whisper sidecar that    *)
(* runs one job at a time (whisper/app.py), its callback and the reaper.    *)
(*                                                                         *)
(* The app and the sidecar share nothing but HTTP: a request can arrive     *)
(* after its sender gave up, a callback can be lost, and either process can *)
(* restart.  A result carries the id of a recording, not of a job, so the   *)
(* result of one job is taken for that of another.                          *)
(*                                                                         *)
(* A transcript's age counts reaper periods since updated_at.  All          *)
(* recordings are of one organization; an id is not used again.             *)
(***************************************************************************)
EXTENDS Integers

CONSTANTS
  Recs,         \* recordings
  Patience,     \* reaper periods a transcript may be pending
  MaxPublished, \* bound on the publications, over all recordings
  MaxForced,    \* bound on the forced transcriptions
  MaxPosts,     \* bound on the job requests of a recording on their way
  MaxRestarts,  \* bound on the restarts of the app and of the sidecar
  None

Statuses == {"pending", "done", "failed"}
TranscriptRecord == [status : Statuses, text : BOOLEAN, age : Nat]
JobRecord == [rec : Recs, result : {"none", "done", "failed"}]

ASSUME RecordingsAssumption ==
  /\ {Patience, MaxPublished, MaxForced, MaxPosts, MaxRestarts} \subseteq Nat
  /\ None \notin TranscriptRecord \cup JobRecord

VARIABLES
  row,         \* recording -> "none", "draft", "published" or "deleted"
  captions,    \* captions_enabled of the organization
  transcript,  \* recording -> None or [status, text, age]
  inFlight,    \* the app's set of dispatches it waits for
  posts,       \* recording -> job requests on their way to the sidecar
  waiting,     \* recording -> threads of the sidecar that wait for _job_lock
  job,         \* None or the job that holds _job_lock, [rec, result]
  published,   \* publications so far
  forced,      \* forced transcriptions so far
  restarts,    \* restarts so far
  sinceMark    \* history: recording -> reaper periods since its last dispatch

vars == <<row, captions, transcript, inFlight, posts, waiting, job,
          published, forced, restarts, sinceMark>>

sidecar == <<waiting, job>>
app == <<row, captions, transcript, inFlight, published, forced, sinceMark>>

Init ==
  /\ row = [r \in Recs |-> "none"]
  /\ captions \in BOOLEAN
  /\ transcript = [r \in Recs |-> None]
  /\ inFlight = {}
  /\ posts = [r \in Recs |-> 0]
  /\ waiting = [r \in Recs |-> 0]
  /\ job = None
  /\ published = 0 /\ forced = 0 /\ restarts = 0
  /\ sinceMark = [r \in Recs |-> 0]

-----------------------------------------------------------------------------
(* Helpers *)

Pending(r) == transcript[r] # None /\ transcript[r].status = "pending"
Exists(r) == row[r] \in {"draft", "published"}

\* (defect: marking a row again does not make it young)
MarkedOld(r) ==
  [status |-> "pending",
   text |-> transcript[r] # None /\ transcript[r].text,
   age |-> IF transcript[r] = None THEN 0 ELSE transcript[r].age]

\* markTranscriptPending: the text of an earlier transcript stays in the row.
Marked(r) ==
  [status |-> "pending",
   text |-> transcript[r] # None /\ transcript[r].text,
   age |-> 0]

\* requestTranscript: one dispatch of a recording at a time.
RequestTranscript(r) ==
  IF r \in inFlight
  THEN UNCHANGED <<inFlight, posts>>
  ELSE /\ posts[r] < MaxPosts
       /\ inFlight' = inFlight \cup {r}
       /\ posts' = [posts EXCEPT ![r] = @ + 1]

\* A transcript that is there or promised spares the recording a job.
Settled(r) == transcript[r] # None /\ transcript[r].status \in {"done", "pending"}

\* maybeTranscribe, of a recording that is published after the step.
MaybeTranscribe(r, force) ==
  IF captions /\ (force \/ ~Settled(r))
  THEN /\ transcript' = [transcript EXCEPT ![r] = Marked(r)]
       /\ sinceMark' = [sinceMark EXCEPT ![r] = 0]
       /\ RequestTranscript(r)
  ELSE UNCHANGED <<transcript, sinceMark, inFlight, posts>>

-----------------------------------------------------------------------------
(* Recordings *)

\* addRecording, at the end of a broadcast
Add(r) ==
  /\ row[r] = "none"
  /\ row' = [row EXCEPT ![r] = "draft"]
  /\ UNCHANGED <<captions, transcript, inFlight, posts, sidecar,
                 published, forced, restarts, sinceMark>>

\* POST /api/recordings/:id/publish
Publish(r) ==
  /\ Exists(r)
  /\ published < MaxPublished
  /\ published' = published + 1
  /\ row' = [row EXCEPT ![r] = "published"]
  /\ MaybeTranscribe(r, FALSE)
  /\ UNCHANGED <<captions, sidecar, forced, restarts>>

\* POST /api/recordings/:id/unpublish; a job that is under way goes on.
Unpublish(r) ==
  /\ row[r] = "published"
  /\ row' = [row EXCEPT ![r] = "draft"]
  /\ UNCHANGED <<captions, transcript, inFlight, posts, sidecar,
                 published, forced, restarts, sinceMark>>

\* POST /api/recordings/:id/retranscribe, by a superadmin
Retranscribe(r) ==
  /\ row[r] = "published"
  /\ forced < MaxForced
  /\ forced' = forced + 1
  /\ MaybeTranscribe(r, TRUE)
  /\ UNCHANGED <<row, captions, sidecar, published, restarts>>

\* DELETE /api/recordings/:id: the row, and its transcript by cascade.
Delete(r) ==
  /\ Exists(r)
  /\ row' = [row EXCEPT ![r] = "deleted"]
  /\ transcript' = [transcript EXCEPT ![r] = None]
  /\ UNCHANGED <<captions, inFlight, posts, sidecar,
                 published, forced, restarts, sinceMark>>

\* PUT /api/admin/orgs/:slug with captionsEnabled
ToggleCaptions ==
  /\ captions' = ~captions
  /\ UNCHANGED <<row, transcript, inFlight, posts, sidecar,
                 published, forced, restarts, sinceMark>>

-----------------------------------------------------------------------------
(* Dispatch *)

\* The dispatch is answered, fails, or is given up after ten seconds: whatever
\* it was, the row stays pending.
DispatchSettles(r) ==
  /\ r \in inFlight
  /\ inFlight' = inFlight \ {r}
  /\ UNCHANGED <<row, captions, transcript, posts, sidecar,
                 published, forced, restarts, sinceMark>>

\* A request is lost: the sidecar is down, or its connection breaks.
PostLost(r) ==
  /\ posts[r] > 0
  /\ posts' = [posts EXCEPT ![r] = @ - 1]
  /\ UNCHANGED <<app, sidecar, restarts>>

\* do_POST looks at the lock: busy, the request is refused; free, a thread is
\* started, which takes the lock later.
SidecarTakes(r) ==
  /\ posts[r] > 0
  /\ posts' = [posts EXCEPT ![r] = @ - 1]
  /\ waiting' = IF job = None THEN [waiting EXCEPT ![r] = @ + 1] ELSE waiting
  /\ UNCHANGED <<app, job, restarts>>

\* run_job gets the lock.
JobStarts(r) ==
  /\ job = None
  /\ waiting[r] > 0
  /\ waiting' = [waiting EXCEPT ![r] = @ - 1]
  /\ job' = [rec |-> r, result |-> "none"]
  /\ UNCHANGED <<app, posts, restarts>>

\* secure_path, the limits and transcribe: a text, or an exception.
JobEnds(result) ==
  /\ job # None /\ job.result = "none"
  /\ job' = [job EXCEPT !.result = result]
  /\ UNCHANGED <<app, posts, waiting, restarts>>

\* post_back fails or times out: it is logged, and the lock released.
CallbackLost ==
  /\ job # None /\ job.result # "none"
  /\ job' = None
  /\ UNCHANGED <<app, posts, waiting, restarts>>

\* (defect: a result is stored for whatever recording there was)
AcceptsGone(r) == row[r] # "none"

\* POST /internal/transcripts answers 404 for a recording that is gone.
Accepts(r) == Exists(r)

\* post_back arrives: saveTranscript overwrites status and text.
Callback ==
  /\ job # None /\ job.result # "none"
  /\ transcript' = IF Accepts(job.rec)
                   THEN [transcript EXCEPT ![job.rec] =
                           [status |-> job.result, text |-> job.result = "done", age |-> 0]]
                   ELSE transcript
  /\ job' = None
  /\ UNCHANGED <<row, captions, inFlight, posts, waiting,
                 published, forced, restarts, sinceMark>>

\* (defect: the reaper compares the age the wrong way round)
OverdueNever(r) == Pending(r) /\ transcript[r].age < 0

\* A transcript that has been pending for too long.
Overdue(r) == Pending(r) /\ transcript[r].age > Patience

\* One period more; what is overdue need not be told apart.
Older(n) == IF n > Patience THEN n ELSE n + 1

\* reapStaleTranscripts, every 30 minutes: time passes for the pending ones.
Reap ==
  /\ \E r \in Recs : Pending(r)
  /\ transcript' = [r \in Recs |->
       IF Overdue(r) THEN [transcript[r] EXCEPT !.status = "failed", !.age = 0]
       ELSE IF Pending(r) THEN [transcript[r] EXCEPT !.age = Older(@)]
       ELSE transcript[r]]
  /\ sinceMark' = [r \in Recs |-> IF Pending(r) THEN Older(sinceMark[r]) ELSE sinceMark[r]]
  /\ UNCHANGED <<row, captions, inFlight, posts, sidecar, published, forced, restarts>>

\* The sidecar restarts: its jobs are gone, and nobody is told.
SidecarRestarts ==
  /\ restarts < MaxRestarts
  /\ restarts' = restarts + 1
  /\ waiting' = [r \in Recs |-> 0]
  /\ job' = None
  /\ UNCHANGED <<app, posts>>

\* The app restarts: it forgets what it has dispatched.
AppRestarts ==
  /\ restarts < MaxRestarts
  /\ restarts' = restarts + 1
  /\ inFlight' = {}
  /\ UNCHANGED <<row, captions, transcript, posts, sidecar, published, forced, sinceMark>>

Next ==
  \/ \E r \in Recs :
       \/ Add(r) \/ Publish(r) \/ Unpublish(r) \/ Retranscribe(r) \/ Delete(r)
       \/ DispatchSettles(r) \/ PostLost(r) \/ SidecarTakes(r) \/ JobStarts(r)
  \/ \E result \in {"done", "failed"} : JobEnds(result)
  \/ ToggleCaptions \/ CallbackLost \/ Callback \/ Reap
  \/ SidecarRestarts \/ AppRestarts

Spec == Init /\ [][Next]_vars

\* The reaper is a timer of the app, which runs as long as the app does.
FairSpec == Spec /\ WF_vars(Reap)

-----------------------------------------------------------------------------
(* Properties *)

\* Every variable has its type.
TypeOK ==
  /\ row \in [Recs -> {"none", "draft", "published", "deleted"}]
  /\ captions \in BOOLEAN
  /\ transcript \in [Recs -> TranscriptRecord \cup {None}]
  /\ inFlight \subseteq Recs
  /\ posts \in [Recs -> 0..MaxPosts]
  /\ waiting \in [Recs -> Nat]
  /\ job \in JobRecord \cup {None}
  /\ published \in 0..MaxPublished /\ forced \in 0..MaxForced /\ restarts \in 0..MaxRestarts
  /\ sinceMark \in [Recs -> Nat]

\* No recording that is gone, or was never published, has a transcript: the
\* callback of a job that outlives its recording stores nothing
\* (index.js, /internal/transcripts).
TranscriptOfRecording == \A r \in Recs : transcript[r] # None => Exists(r)

\* The age of a pending transcript is the time since its last dispatch.
AgeOfDispatch == \A r \in Recs : Pending(r) => transcript[r].age = sinceMark[r]

\* A request, a thread or a job of the sidecar is of a recording that has a
\* transcript, or is gone: results come only for what was dispatched.
OnlyDispatched ==
  \A r \in Recs :
    (posts[r] > 0 \/ waiting[r] > 0 \/ (job # None /\ job.rec = r)) =>
      transcript[r] # None \/ row[r] = "deleted"

\* The inductive invariant.
IInv == TypeOK /\ TranscriptOfRecording /\ AgeOfDispatch /\ OnlyDispatched

\* The reaper gives up only on a dispatch that has had its time, also when an
\* old transcript is dispatched again (rooms.js:599: the age is not that of the
\* row's creation).
ReaperPatience ==
  [][\A r \in Recs :
       (Pending(r) /\ Reap /\ ~Pending(r)') => sinceMark[r] > Patience]_vars

Status(r) == IF transcript[r] = None THEN "none" ELSE transcript[r].status

\* What the app and the sidecar do to each other ends in the steps of Captions:
\* no recording gets a text that was not submitted while its organization
\* wanted captions, or that is gone (transcripts.js and /internal/transcripts).
Caption == INSTANCE Captions WITH
  Talks <- Recs, state <- row, wanted <- captions,
  caption <- [r \in Recs |-> Status(r)]

ImplementsCaptions == Caption!Spec

\* No transcript stays pending: what a refused request, a lost callback or a
\* restart of either process leaves behind, the reaper ends (rooms.js:595).
PendingSettles == \A r \in Recs : Pending(r) ~> ~Pending(r)
=============================================================================
