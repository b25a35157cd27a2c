------------------------------ MODULE Archives ------------------------------
(***************************************************************************)
(* The deletion of an organization in three steps: a superadmin requests    *)
(* it, which builds a zip of everything the organization has and sends a    *)
(* link that is good for one download within seven days; the deletion is    *)
(* then cancelled, or executed (server/rooms.js and its routes in           *)
(* server/index.js).                                                        *)
(*                                                                         *)
(* Building the zip is an await that may take minutes: the guard of the     *)
(* request runs before it and the UPDATE after it, so requests overlap with *)
(* each other, with cancel, execute, downloads and the hourly sweep.  The   *)
(* UPDATE goes by the id that was read before the await, the consumption of *)
(* a token by the slug, and a slug can be given to another organization     *)
(* once its holder is gone.                                                 *)
(*                                                                         *)
(* The model follows one slug, not that of the undeletable default          *)
(* organization.  A request is identified with its zip and its token.       *)
(***************************************************************************)
EXTENDS Integers

CONSTANTS
  Requests,   \* deletion requests, each with the zip it builds and its token
  Downloads,  \* readers of a link
  MaxOrgs,    \* bound on the organizations that hold the slug in turn
  None

ASSUME ArchivesAssumption ==
  /\ MaxOrgs \in Nat
  /\ None \notin Requests \cup Nat

Orgs == 1..MaxOrgs

VARIABLES
  org,       \* id of the organization that has the slug, or None
  made,      \* ids given so far
  pending,   \* pending_deletion_at of that organization is set
  path,      \* archive_path: the request whose zip it is, or None
  token,     \* archive_token: the request that made it, or None
  expires,   \* archive_expires_at: "none", "ahead" or "passed"
  work,      \* request -> id of the organization it archives now, or None
  file,      \* request -> "none", "partial", "complete" or "deleted"
  owner,     \* request -> id of the organization whose data is in the zip, or None
  reading,   \* download -> request whose zip is being sent, or None
  archived,  \* history: ids of which a zip was completed
  consumed   \* history: requests whose zip was sent to the end

row == <<org, pending, path, token, expires>>
vars == <<row, made, work, file, owner, reading, archived, consumed>>

Init ==
  /\ org = None /\ made = 0
  /\ pending = FALSE /\ path = None /\ token = None /\ expires = "none"
  /\ work = [q \in Requests |-> None]
  /\ file = [q \in Requests |-> "none"]
  /\ owner = [q \in Requests |-> None]
  /\ reading = [d \in Downloads |-> None]
  /\ archived = {} /\ consumed = {}

-----------------------------------------------------------------------------
(* Helpers *)

\* fs.unlinkSync in a try: a file that is gone already is no matter.
Unlinked(q) == IF q = None THEN file ELSE [file EXCEPT ![q] = "deleted"]

NoArchive == path' = None /\ token' = None /\ expires' = "none"

\* (defect: the row is found by its slug)
RowOfSlug(q) == org # None

\* The UPDATE after the await: WHERE id = the id read before it.
RowOfRequest(q) == org = work[q]

-----------------------------------------------------------------------------
(* The deletion *)

\* createOrg with the slug of an organization that is gone.
CreateOrg ==
  /\ org = None /\ made < MaxOrgs
  /\ made' = made + 1
  /\ org' = made + 1
  /\ UNCHANGED <<pending, path, token, expires, work, file, owner, reading, archived, consumed>>

\* requestOrgDeletion up to its await: archiveOrg opens the zip.
RequestStarts(q) ==
  /\ org # None /\ ~pending
  /\ file[q] = "none"
  /\ work' = [work EXCEPT ![q] = org]
  /\ owner' = [owner EXCEPT ![q] = org]
  /\ file' = [file EXCEPT ![q] = "partial"]
  /\ UNCHANGED <<row, made, reading, archived, consumed>>

\* The zip is closed, and the row updated if it is still there.
ArchiveDone(q) ==
  /\ work[q] # None
  /\ file' = [file EXCEPT ![q] = "complete"]
  /\ archived' = archived \cup {work[q]}
  /\ work' = [work EXCEPT ![q] = None]
  /\ IF RowOfRequest(q)
     THEN pending' = TRUE /\ path' = q /\ token' = q /\ expires' = "ahead"
     ELSE UNCHANGED <<pending, path, token, expires>>
  /\ UNCHANGED <<org, made, owner, reading, consumed>>

\* The archiver fails: nobody removes what is written.
ArchiveFails(q) ==
  /\ work[q] # None
  /\ work' = [work EXCEPT ![q] = None]
  /\ UNCHANGED <<row, made, file, owner, reading, archived, consumed>>

CancelOrgDeletion ==
  /\ pending
  /\ file' = Unlinked(path)
  /\ pending' = FALSE
  /\ NoArchive

\* POST /api/admin/orgs/:slug/cancel-deletion, by a superadmin
Cancel ==
  /\ CancelOrgDeletion
  /\ UNCHANGED <<org, made, work, owner, reading, archived, consumed>>

\* (defect: an organization is deleted before its zip is there)
MayExecuteEarly == org # None

MayExecute == org # None /\ pending

\* Rows and recordings go, the zip stays.
ExecuteOrgDeletion ==
  /\ MayExecute
  /\ org' = None
  /\ pending' = FALSE
  /\ NoArchive

\* DELETE /api/admin/orgs/:slug, by a superadmin
Execute ==
  /\ ExecuteOrgDeletion
  /\ UNCHANGED <<made, work, file, owner, reading, archived, consumed>>

-----------------------------------------------------------------------------
(* The link *)

\* getOrgArchive and the existence of the file, for the holder of q's link.
DownloadStarts(d, q) ==
  /\ reading[d] = None
  /\ token = q /\ expires # "passed"
  /\ file[path] = "complete"
  /\ reading' = [reading EXCEPT ![d] = path]
  /\ UNCHANGED <<row, made, work, file, owner, archived, consumed>>

\* (defect: the token stays)
NotConsumed == token

\* consumeOrgArchiveToken: whatever token the holder of the slug has.
Consumed == None

\* 'end' of the read stream
DownloadEnds(d) ==
  /\ reading[d] # None
  /\ reading' = [reading EXCEPT ![d] = None]
  /\ token' = Consumed
  /\ consumed' = consumed \cup {reading[d]}
  /\ UNCHANGED <<org, pending, path, expires, made, work, file, owner, archived>>

\* The reader leaves or the stream fails: the token stays good.
DownloadAborts(d) ==
  /\ reading[d] # None
  /\ reading' = [reading EXCEPT ![d] = None]
  /\ UNCHANGED <<row, made, work, file, owner, archived, consumed>>

Expire ==
  /\ expires = "ahead"
  /\ expires' = "passed"
  /\ UNCHANGED <<org, pending, path, token, made, work, file, owner, reading, archived, consumed>>

\* (defect: the expiry is compared the wrong way round)
SweepableAhead == path # None /\ expires = "ahead"

Sweepable == path # None /\ expires = "passed"

\* sweepExpiredArchives, of the zips that a row names; the deletion stays pending.
Sweep ==
  /\ Sweepable
  /\ file' = Unlinked(path)
  /\ NoArchive
  /\ UNCHANGED <<org, pending, made, work, owner, reading, archived, consumed>>

\* The process ends, also because of an error of the zip's write stream, which
\* has no 'error' handler.
Crash ==
  /\ work' = [q \in Requests |-> None]
  /\ reading' = [d \in Downloads |-> None]
  /\ UNCHANGED <<row, made, file, owner, archived, consumed>>

Next ==
  \/ \E q \in Requests : RequestStarts(q) \/ ArchiveDone(q) \/ ArchiveFails(q)
  \/ \E d \in Downloads, q \in Requests : DownloadStarts(d, q)
  \/ \E d \in Downloads : DownloadEnds(d) \/ DownloadAborts(d)
  \/ CreateOrg \/ Cancel \/ Execute \/ Expire \/ Sweep \/ Crash

Spec == Init /\ [][Next]_vars

\* setInterval runs the sweep every hour, and seven days pass.
FairSpec == Spec /\ WF_vars(Sweep) /\ WF_vars(Expire)

-----------------------------------------------------------------------------
(* Properties *)

\* Every variable has its type.
TypeOK ==
  /\ org \in Orgs \cup {None} /\ made \in 0..MaxOrgs
  /\ pending \in BOOLEAN
  /\ path \in Requests \cup {None} /\ token \in Requests \cup {None}
  /\ expires \in {"none", "ahead", "passed"}
  /\ work \in [Requests -> Orgs \cup {None}]
  /\ file \in [Requests -> {"none", "partial", "complete", "deleted"}]
  /\ owner \in [Requests -> Orgs \cup {None}]
  /\ reading \in [Downloads -> Requests \cup {None}]
  /\ archived \subseteq Orgs /\ consumed \subseteq Requests

\* The link whose token the row holds leads to a whole zip of the organization
\* that has the slug now, never to one of a former holder of the slug, and never
\* to one that was cancelled or swept (index.js:1132, the link in the mail).
LinkWorks ==
  token # None => /\ token = path
                  /\ file[path] = "complete"
                  /\ owner[path] = org

\* The row of an organization names only a whole zip of its own.
RowNamesOwn ==
  path # None => /\ org # None
                 /\ file[path] = "complete"
                 /\ owner[path] = org
                 /\ expires # "none"

\* A pending deletion was archived first.
PendingArchived == pending => org \in archived

\* A zip that is being built is its organization's and was never sent.
Progress ==
  /\ \A q \in Requests :
       /\ work[q] # None => file[q] = "partial" /\ owner[q] = work[q]
       /\ file[q] \in {"none", "partial"} => q \notin consumed
  /\ \A d \in Downloads :
       reading[d] # None => file[reading[d]] \in {"complete", "deleted"}

\* An id is one that was given, and a zip is of an organization that had the slug.
IdsGiven ==
  /\ org # None => org \in 1..made
  /\ \A q \in Requests :
       /\ work[q] # None => work[q] \in 1..made
       /\ file[q] # "none" => owner[q] # None

\* No token is good once its zip has been sent.
SentIsSpent == token # None => token \notin consumed

\* The inductive invariant.
IInv ==
  /\ TypeOK /\ IdsGiven /\ LinkWorks /\ RowNamesOwn /\ PendingArchived
  /\ Progress /\ SentIsSpent

\* No organization is deleted before a zip of that same organization was
\* completed, whoever had the slug before (rooms.js, the deletion flow).
ArchivedFirst == [][\A o \in Orgs : (org = o /\ org' # o) => o \in archived]_vars

\* Once a zip was sent to the end, no download of it starts (index.js:1164, the
\* link is single-use; two downloads that overlap can both go through).
SingleUse ==
  [][\A d \in Downloads :
       (reading[d] = None /\ reading'[d] # None) => reading'[d] \notin consumed]_vars

\* Whose data a link gives: the zip that the row names, until it expires.
LinkTo == IF token # None /\ expires # "passed" THEN owner[path] ELSE None

ReadOf(d) == IF reading[d] = None THEN None ELSE owner[reading[d]]

\* Zips, tokens and expiries of overlapping requests do what Deletion says of
\* an organization, its archive and its one link (the deletion flow of rooms.js).
Promise == INSTANCE Deletion WITH
  Readers <- Downloads, Nobody <- None,
  founded <- made, holder <- org, doomed <- pending,
  link <- LinkTo, served <- [d \in Downloads |-> ReadOf(d)]

ImplementsDeletion == Promise!Spec

\* A zip that a row names is let go of, and its link ends, without anybody's help.
LinkEnds == \A q \in Requests : (path = q) ~> (path # q)

\* Every whole zip is one the sweep finds (rooms.js:219, "Archive zip cleanup
\* deferred to its 7-day expiry sweep"): refuted, the sweep goes through the rows
\* of organizations, and an executed deletion has removed the row.
SweepFindsArchives == \A q \in Requests : file[q] = "complete" => path = q
=============================================================================
