--------------------------- MODULE ArchivesProofs ---------------------------
(***************************************************************************)
(* Proofs about Archives: the inductive invariant IInv, one lemma per part *)
(* with one step per action, the properties it implies, and that the flow  *)
(* implements Deletion.                                                    *)
(***************************************************************************)
EXTENDS Archives, TLAPS

\* Every step keeps the types.
LEMMA TypeOKStep ==
  ASSUME TypeOK, [Next]_vars
  PROVE  TypeOK'
<1> USE ArchivesAssumption DEF TypeOK, Orgs
<1>1. ASSUME NEW q \in Requests, RequestStarts(q)
      PROVE  TypeOK'
  BY <1>1 DEF row, RequestStarts
<1>2. ASSUME NEW q \in Requests, ArchiveDone(q)
      PROVE  TypeOK'
  BY <1>2 DEF row, ArchiveDone, RowOfRequest
<1>3. ASSUME NEW q \in Requests, ArchiveFails(q)
      PROVE  TypeOK'
  BY <1>3 DEF row, ArchiveFails
<1>4. ASSUME NEW d \in Downloads, NEW q \in Requests, DownloadStarts(d, q)
      PROVE  TypeOK'
  BY <1>4 DEF row, DownloadStarts
<1>5. ASSUME NEW d \in Downloads, DownloadEnds(d)
      PROVE  TypeOK'
  BY <1>5 DEF row, DownloadEnds, Consumed
<1>6. ASSUME NEW d \in Downloads, DownloadAborts(d)
      PROVE  TypeOK'
  BY <1>6 DEF row, DownloadAborts
<1>7. ASSUME CreateOrg
      PROVE  TypeOK'
  BY <1>7 DEF row, CreateOrg
<1>8. ASSUME Cancel
      PROVE  TypeOK'
  BY <1>8 DEF row, Cancel, CancelOrgDeletion, Unlinked, NoArchive
<1>9. ASSUME Execute
      PROVE  TypeOK'
  BY <1>9 DEF row, Execute, ExecuteOrgDeletion, NoArchive, MayExecute
<1>10. ASSUME Expire
      PROVE  TypeOK'
  BY <1>10 DEF row, Expire
<1>11. ASSUME Sweep
      PROVE  TypeOK'
  BY <1>11 DEF row, Sweep, Sweepable, Unlinked, NoArchive
<1>12. ASSUME Crash
      PROVE  TypeOK'
  BY <1>12 DEF row, Crash
<1>13. CASE UNCHANGED vars
  BY <1>13 DEF vars, row
<1> QED
  BY <1>1, <1>2, <1>3, <1>4, <1>5, <1>6, <1>7, <1>8, <1>9, <1>10, <1>11, <1>12, <1>13 DEF Next

\* Nothing is archived that never had the slug.
LEMMA IdsGivenStep ==
  ASSUME TypeOK, Progress, RowNamesOwn, IdsGiven, [Next]_vars
  PROVE  IdsGiven'
<1> USE ArchivesAssumption DEF TypeOK, Progress, RowNamesOwn, IdsGiven, Orgs
<1>1. ASSUME NEW q \in Requests, RequestStarts(q)
      PROVE  IdsGiven'
  BY <1>1 DEF row, RequestStarts
<1>2. ASSUME NEW q \in Requests, ArchiveDone(q)
      PROVE  IdsGiven'
  BY <1>2 DEF row, ArchiveDone, RowOfRequest
<1>3. ASSUME NEW q \in Requests, ArchiveFails(q)
      PROVE  IdsGiven'
  BY <1>3 DEF row, ArchiveFails
<1>4. ASSUME NEW d \in Downloads, NEW q \in Requests, DownloadStarts(d, q)
      PROVE  IdsGiven'
  BY <1>4 DEF row, DownloadStarts
<1>5. ASSUME NEW d \in Downloads, DownloadEnds(d)
      PROVE  IdsGiven'
  BY <1>5 DEF row, DownloadEnds, Consumed
<1>6. ASSUME NEW d \in Downloads, DownloadAborts(d)
      PROVE  IdsGiven'
  BY <1>6 DEF row, DownloadAborts
<1>7. ASSUME CreateOrg
      PROVE  IdsGiven'
  BY <1>7 DEF row, CreateOrg
<1>8. ASSUME Cancel
      PROVE  IdsGiven'
  BY <1>8 DEF row, Cancel, CancelOrgDeletion, Unlinked, NoArchive
<1>9. ASSUME Execute
      PROVE  IdsGiven'
  BY <1>9 DEF row, Execute, ExecuteOrgDeletion, NoArchive, MayExecute
<1>10. ASSUME Expire
      PROVE  IdsGiven'
  BY <1>10 DEF row, Expire
<1>11. ASSUME Sweep
      PROVE  IdsGiven'
  BY <1>11 DEF row, Sweep, Sweepable, Unlinked, NoArchive
<1>12. ASSUME Crash
      PROVE  IdsGiven'
  BY <1>12 DEF row, Crash
<1>13. CASE UNCHANGED vars
  BY <1>13 DEF vars, row
<1> QED
  BY <1>1, <1>2, <1>3, <1>4, <1>5, <1>6, <1>7, <1>8, <1>9, <1>10, <1>11, <1>12, <1>13 DEF Next

\* A link that is mailed keeps leading to its zip.
LEMMA LinkWorksStep ==
  ASSUME TypeOK, Progress, RowNamesOwn, LinkWorks, [Next]_vars
  PROVE  LinkWorks'
<1> USE ArchivesAssumption DEF TypeOK, Progress, RowNamesOwn, LinkWorks, Orgs
<1>1. ASSUME NEW q \in Requests, RequestStarts(q)
      PROVE  LinkWorks'
  BY <1>1 DEF row, RequestStarts
<1>2. ASSUME NEW q \in Requests, ArchiveDone(q)
      PROVE  LinkWorks'
  BY <1>2 DEF row, ArchiveDone, RowOfRequest
<1>3. ASSUME NEW q \in Requests, ArchiveFails(q)
      PROVE  LinkWorks'
  BY <1>3 DEF row, ArchiveFails
<1>4. ASSUME NEW d \in Downloads, NEW q \in Requests, DownloadStarts(d, q)
      PROVE  LinkWorks'
  BY <1>4 DEF row, DownloadStarts
<1>5. ASSUME NEW d \in Downloads, DownloadEnds(d)
      PROVE  LinkWorks'
  BY <1>5 DEF row, DownloadEnds, Consumed
<1>6. ASSUME NEW d \in Downloads, DownloadAborts(d)
      PROVE  LinkWorks'
  BY <1>6 DEF row, DownloadAborts
<1>7. ASSUME CreateOrg
      PROVE  LinkWorks'
  BY <1>7 DEF row, CreateOrg
<1>8. ASSUME Cancel
      PROVE  LinkWorks'
  BY <1>8 DEF row, Cancel, CancelOrgDeletion, Unlinked, NoArchive
<1>9. ASSUME Execute
      PROVE  LinkWorks'
  BY <1>9 DEF row, Execute, ExecuteOrgDeletion, NoArchive, MayExecute
<1>10. ASSUME Expire
      PROVE  LinkWorks'
  BY <1>10 DEF row, Expire
<1>11. ASSUME Sweep
      PROVE  LinkWorks'
  BY <1>11 DEF row, Sweep, Sweepable, Unlinked, NoArchive
<1>12. ASSUME Crash
      PROVE  LinkWorks'
  BY <1>12 DEF row, Crash
<1>13. CASE UNCHANGED vars
  BY <1>13 DEF vars, row
<1> QED
  BY <1>1, <1>2, <1>3, <1>4, <1>5, <1>6, <1>7, <1>8, <1>9, <1>10, <1>11, <1>12, <1>13 DEF Next

\* A row names no zip but its own.
LEMMA RowNamesOwnStep ==
  ASSUME TypeOK, Progress, RowNamesOwn, [Next]_vars
  PROVE  RowNamesOwn'
<1> USE ArchivesAssumption DEF TypeOK, Progress, RowNamesOwn, Orgs
<1>1. ASSUME NEW q \in Requests, RequestStarts(q)
      PROVE  RowNamesOwn'
  BY <1>1 DEF row, RequestStarts
<1>2. ASSUME NEW q \in Requests, ArchiveDone(q)
      PROVE  RowNamesOwn'
  BY <1>2 DEF row, ArchiveDone, RowOfRequest
<1>3. ASSUME NEW q \in Requests, ArchiveFails(q)
      PROVE  RowNamesOwn'
  BY <1>3 DEF row, ArchiveFails
<1>4. ASSUME NEW d \in Downloads, NEW q \in Requests, DownloadStarts(d, q)
      PROVE  RowNamesOwn'
  BY <1>4 DEF row, DownloadStarts
<1>5. ASSUME NEW d \in Downloads, DownloadEnds(d)
      PROVE  RowNamesOwn'
  BY <1>5 DEF row, DownloadEnds, Consumed
<1>6. ASSUME NEW d \in Downloads, DownloadAborts(d)
      PROVE  RowNamesOwn'
  BY <1>6 DEF row, DownloadAborts
<1>7. ASSUME CreateOrg
      PROVE  RowNamesOwn'
  BY <1>7 DEF row, CreateOrg
<1>8. ASSUME Cancel
      PROVE  RowNamesOwn'
  BY <1>8 DEF row, Cancel, CancelOrgDeletion, Unlinked, NoArchive
<1>9. ASSUME Execute
      PROVE  RowNamesOwn'
  BY <1>9 DEF row, Execute, ExecuteOrgDeletion, NoArchive, MayExecute
<1>10. ASSUME Expire
      PROVE  RowNamesOwn'
  BY <1>10 DEF row, Expire
<1>11. ASSUME Sweep
      PROVE  RowNamesOwn'
  BY <1>11 DEF row, Sweep, Sweepable, Unlinked, NoArchive
<1>12. ASSUME Crash
      PROVE  RowNamesOwn'
  BY <1>12 DEF row, Crash
<1>13. CASE UNCHANGED vars
  BY <1>13 DEF vars, row
<1> QED
  BY <1>1, <1>2, <1>3, <1>4, <1>5, <1>6, <1>7, <1>8, <1>9, <1>10, <1>11, <1>12, <1>13 DEF Next

\* No deletion is pending without a zip.
LEMMA PendingArchivedStep ==
  ASSUME TypeOK, PendingArchived, [Next]_vars
  PROVE  PendingArchived'
<1> USE ArchivesAssumption DEF TypeOK, PendingArchived, Orgs
<1>1. ASSUME NEW q \in Requests, RequestStarts(q)
      PROVE  PendingArchived'
  BY <1>1 DEF row, RequestStarts
<1>2. ASSUME NEW q \in Requests, ArchiveDone(q)
      PROVE  PendingArchived'
  BY <1>2 DEF row, ArchiveDone, RowOfRequest
<1>3. ASSUME NEW q \in Requests, ArchiveFails(q)
      PROVE  PendingArchived'
  BY <1>3 DEF row, ArchiveFails
<1>4. ASSUME NEW d \in Downloads, NEW q \in Requests, DownloadStarts(d, q)
      PROVE  PendingArchived'
  BY <1>4 DEF row, DownloadStarts
<1>5. ASSUME NEW d \in Downloads, DownloadEnds(d)
      PROVE  PendingArchived'
  BY <1>5 DEF row, DownloadEnds, Consumed
<1>6. ASSUME NEW d \in Downloads, DownloadAborts(d)
      PROVE  PendingArchived'
  BY <1>6 DEF row, DownloadAborts
<1>7. ASSUME CreateOrg
      PROVE  PendingArchived'
  BY <1>7 DEF row, CreateOrg
<1>8. ASSUME Cancel
      PROVE  PendingArchived'
  BY <1>8 DEF row, Cancel, CancelOrgDeletion, Unlinked, NoArchive
<1>9. ASSUME Execute
      PROVE  PendingArchived'
  BY <1>9 DEF row, Execute, ExecuteOrgDeletion, NoArchive, MayExecute
<1>10. ASSUME Expire
      PROVE  PendingArchived'
  BY <1>10 DEF row, Expire
<1>11. ASSUME Sweep
      PROVE  PendingArchived'
  BY <1>11 DEF row, Sweep, Sweepable, Unlinked, NoArchive
<1>12. ASSUME Crash
      PROVE  PendingArchived'
  BY <1>12 DEF row, Crash
<1>13. CASE UNCHANGED vars
  BY <1>13 DEF vars, row
<1> QED
  BY <1>1, <1>2, <1>3, <1>4, <1>5, <1>6, <1>7, <1>8, <1>9, <1>10, <1>11, <1>12, <1>13 DEF Next

\* A zip that is being built stays out of the way.
LEMMA ProgressStep ==
  ASSUME TypeOK, RowNamesOwn, LinkWorks, Progress, [Next]_vars
  PROVE  Progress'
<1> USE ArchivesAssumption DEF TypeOK, RowNamesOwn, LinkWorks, Progress, Orgs
<1>1. ASSUME NEW q \in Requests, RequestStarts(q)
      PROVE  Progress'
  BY <1>1 DEF row, RequestStarts
<1>2. ASSUME NEW q \in Requests, ArchiveDone(q)
      PROVE  Progress'
  BY <1>2 DEF row, ArchiveDone, RowOfRequest
<1>3. ASSUME NEW q \in Requests, ArchiveFails(q)
      PROVE  Progress'
  BY <1>3 DEF row, ArchiveFails
<1>4. ASSUME NEW d \in Downloads, NEW q \in Requests, DownloadStarts(d, q)
      PROVE  Progress'
  BY <1>4 DEF row, DownloadStarts
<1>5. ASSUME NEW d \in Downloads, DownloadEnds(d)
      PROVE  Progress'
  BY <1>5 DEF row, DownloadEnds, Consumed
<1>6. ASSUME NEW d \in Downloads, DownloadAborts(d)
      PROVE  Progress'
  BY <1>6 DEF row, DownloadAborts
<1>7. ASSUME CreateOrg
      PROVE  Progress'
  BY <1>7 DEF row, CreateOrg
<1>8. ASSUME Cancel
      PROVE  Progress'
  BY <1>8 DEF row, Cancel, CancelOrgDeletion, Unlinked, NoArchive
<1>9. ASSUME Execute
      PROVE  Progress'
  BY <1>9 DEF row, Execute, ExecuteOrgDeletion, NoArchive, MayExecute
<1>10. ASSUME Expire
      PROVE  Progress'
  BY <1>10 DEF row, Expire
<1>11. ASSUME Sweep
      PROVE  Progress'
  BY <1>11 DEF row, Sweep, Sweepable, Unlinked, NoArchive
<1>12. ASSUME Crash
      PROVE  Progress'
  BY <1>12 DEF row, Crash
<1>13. CASE UNCHANGED vars
  BY <1>13 DEF vars, row
<1> QED
  BY <1>1, <1>2, <1>3, <1>4, <1>5, <1>6, <1>7, <1>8, <1>9, <1>10, <1>11, <1>12, <1>13 DEF Next

\* The token goes with the zip that was sent.
LEMMA SentIsSpentStep ==
  ASSUME TypeOK, Progress, LinkWorks, SentIsSpent, [Next]_vars
  PROVE  SentIsSpent'
<1> USE ArchivesAssumption DEF TypeOK, Progress, LinkWorks, SentIsSpent, Orgs
<1>1. ASSUME NEW q \in Requests, RequestStarts(q)
      PROVE  SentIsSpent'
  BY <1>1 DEF row, RequestStarts
<1>2. ASSUME NEW q \in Requests, ArchiveDone(q)
      PROVE  SentIsSpent'
  BY <1>2 DEF row, ArchiveDone, RowOfRequest
<1>3. ASSUME NEW q \in Requests, ArchiveFails(q)
      PROVE  SentIsSpent'
  BY <1>3 DEF row, ArchiveFails
<1>4. ASSUME NEW d \in Downloads, NEW q \in Requests, DownloadStarts(d, q)
      PROVE  SentIsSpent'
  BY <1>4 DEF row, DownloadStarts
<1>5. ASSUME NEW d \in Downloads, DownloadEnds(d)
      PROVE  SentIsSpent'
  BY <1>5 DEF row, DownloadEnds, Consumed
<1>6. ASSUME NEW d \in Downloads, DownloadAborts(d)
      PROVE  SentIsSpent'
  BY <1>6 DEF row, DownloadAborts
<1>7. ASSUME CreateOrg
      PROVE  SentIsSpent'
  BY <1>7 DEF row, CreateOrg
<1>8. ASSUME Cancel
      PROVE  SentIsSpent'
  BY <1>8 DEF row, Cancel, CancelOrgDeletion, Unlinked, NoArchive
<1>9. ASSUME Execute
      PROVE  SentIsSpent'
  BY <1>9 DEF row, Execute, ExecuteOrgDeletion, NoArchive, MayExecute
<1>10. ASSUME Expire
      PROVE  SentIsSpent'
  BY <1>10 DEF row, Expire
<1>11. ASSUME Sweep
      PROVE  SentIsSpent'
  BY <1>11 DEF row, Sweep, Sweepable, Unlinked, NoArchive
<1>12. ASSUME Crash
      PROVE  SentIsSpent'
  BY <1>12 DEF row, Crash
<1>13. CASE UNCHANGED vars
  BY <1>13 DEF vars, row
<1> QED
  BY <1>1, <1>2, <1>3, <1>4, <1>5, <1>6, <1>7, <1>8, <1>9, <1>10, <1>11, <1>12, <1>13 DEF Next

\* The invariant holds initially.
LEMMA InitIInv == Init => IInv
<1> SUFFICES ASSUME Init PROVE IInv
  OBVIOUS
<1>1. TypeOK
  <2>1. /\ work \in [Requests -> Orgs \cup {None}] /\ owner \in [Requests -> Orgs \cup {None}]
        /\ file \in [Requests -> {"none", "partial", "complete", "deleted"}]
        /\ reading \in [Downloads -> Requests \cup {None}]
    BY DEF Init
  <2>2. made \in 0..MaxOrgs
    BY ArchivesAssumption DEF Init
  <2>3. /\ org \in Orgs \cup {None} /\ path \in Requests \cup {None}
        /\ token \in Requests \cup {None} /\ archived \subseteq Orgs /\ consumed \subseteq Requests
        /\ expires \in {"none", "ahead", "passed"} /\ pending \in BOOLEAN
    BY DEF Init
  <2> QED
    BY <2>1, <2>2, <2>3 DEF TypeOK
<1>2. LinkWorks
  BY ArchivesAssumption DEF Init, LinkWorks
<1>3. RowNamesOwn
  BY ArchivesAssumption DEF Init, RowNamesOwn
<1>4. PendingArchived
  BY ArchivesAssumption DEF Init, PendingArchived
<1>5. Progress
  BY ArchivesAssumption DEF Init, Progress
<1>6. SentIsSpent
  BY ArchivesAssumption DEF Init, SentIsSpent
<1>7. IdsGiven
  BY ArchivesAssumption DEF Init, IdsGiven
<1> QED
  BY <1>1, <1>2, <1>3, <1>4, <1>5, <1>6, <1>7 DEF IInv

\* The invariant is inductive.
LEMMA NextIInv == IInv /\ [Next]_vars => IInv'
  BY TypeOKStep, IdsGivenStep, LinkWorksStep, RowNamesOwnStep, PendingArchivedStep, ProgressStep,
     SentIsSpentStep DEF IInv

-----------------------------------------------------------------------------
\* The inductive invariant holds in every reachable state, for any number of
\* requests, downloads and organizations.
THEOREM ArchivesInvariant == Spec => []IInv
  BY InitIInv, NextIInv, PTL DEF Spec

\* An organization is not deleted before a zip of it was completed.
THEOREM DeletedIsArchived == Spec => ArchivedFirst
<1> DEFINE First == \A o \in Orgs : (org = o /\ org' # o) => o \in archived
<1>1. IInv /\ [Next]_vars => [First]_vars
  <2> SUFFICES ASSUME IInv, Next, NEW o \in Orgs, org = o, org' # o
               PROVE  o \in archived
    BY DEF vars
  <2>1. pending
    BY ArchivesAssumption DEF Next, RequestStarts, ArchiveDone, ArchiveFails, DownloadStarts,
       DownloadEnds, DownloadAborts, CreateOrg, Cancel, CancelOrgDeletion, Execute, ExecuteOrgDeletion, MayExecute, Expire, Sweep,
       Crash, row, Orgs
  <2> QED
    BY <2>1 DEF IInv, PendingArchived
<1> QED
  BY <1>1, ArchivesInvariant, PTL DEF Spec, ArchivedFirst

\* A link that was used to the end starts no other download.
THEOREM LinkIsSingleUse == Spec => SingleUse
<1> DEFINE Once == \A d \in Downloads :
                     (reading[d] = None /\ reading'[d] # None) => reading'[d] \notin consumed
<1>1. IInv /\ [Next]_vars => [Once]_vars
  <2> SUFFICES ASSUME IInv, Next, NEW d \in Downloads, reading[d] = None, reading'[d] # None
               PROVE  reading'[d] \notin consumed
    BY DEF vars
  <2>1. PICK e \in Downloads, q \in Requests : DownloadStarts(e, q)
    BY DEF Next, RequestStarts, ArchiveDone, ArchiveFails, DownloadEnds, DownloadAborts,
       CreateOrg, Cancel, CancelOrgDeletion, Execute, ExecuteOrgDeletion, Expire, Sweep, Crash, IInv, TypeOK
  <2>2. reading'[d] = path /\ token = q
    BY <2>1 DEF DownloadStarts, IInv, TypeOK
  <2> QED
    BY <2>2, ArchivesAssumption DEF IInv, LinkWorks, SentIsSpent
<1> QED
  BY <1>1, ArchivesInvariant, PTL DEF Spec, SingleUse

-----------------------------------------------------------------------------
(* The deletion flow implements Deletion *)

Served == [d \in Downloads |-> ReadOf(d)]

\* The link leads to the organization that has the slug.
LEMMA LinkToHolder ==
  ASSUME IInv
  PROVE  /\ LinkTo # None => token \in Requests /\ path = token /\ LinkTo = org
         /\ token # None /\ expires # "passed" => LinkTo # None
  BY ArchivesAssumption DEF IInv, TypeOK, IdsGiven, LinkWorks, LinkTo

\* A download is of the zip it began with, whose owner stays.
LEMMA SameServed ==
  ASSUME IInv, UNCHANGED <<owner, reading>>
  PROVE  Served' = Served
  BY DEF Served, ReadOf

LEMMA PromiseStep == IInv /\ [Next]_vars => [Promise!Next]_(Promise!vars)
<1> SUFFICES ASSUME IInv, [Next]_vars
             PROVE  Promise!Next \/ UNCHANGED <<made, org, pending, archived, LinkTo, Served>>
  BY DEF Promise!vars, Served
<1> DEFINE Goal == Promise!Next \/ UNCHANGED <<made, org, pending, archived, LinkTo, Served>>
<1> HIDE DEF Goal
<1> USE ArchivesAssumption
<1>1. TypeOK /\ IdsGiven /\ LinkWorks /\ RowNamesOwn /\ PendingArchived /\ Progress
  BY DEF IInv
<1>2. \A d \in Downloads : reading[d] # None => reading[d] \in Requests /\ ReadOf(d) # None
  BY <1>1 DEF TypeOK, Progress, IdsGiven, ReadOf
<1>3. ASSUME NEW q \in Requests, RequestStarts(q) PROVE Goal
  <2>1. \A t \in Requests : t # q => owner'[t] = owner[t]
    BY <1>1, <1>3 DEF RequestStarts, TypeOK
  <2>2. LinkTo' = LinkTo
    <3>1. CASE token = None
      BY <1>3, <3>1 DEF RequestStarts, row, LinkTo
    <3>2. CASE token # None
      <4>1. path \in Requests /\ path # q
        BY <1>1, <1>3, <3>2 DEF RequestStarts, LinkWorks, TypeOK
      <4> QED
        BY <1>3, <2>1, <4>1 DEF RequestStarts, row, LinkTo
    <3> QED
      BY <3>1, <3>2
  <2>3. Served' = Served
    <3>1. ASSUME NEW d \in Downloads PROVE ReadOf(d)' = ReadOf(d)
      <4>1. reading' = reading
        BY <1>3 DEF RequestStarts
      <4>2. reading[d] # None => reading[d] \in Requests /\ reading[d] # q
        BY <1>1, <1>3 DEF RequestStarts, Progress, TypeOK
      <4> QED
        BY <2>1, <4>1, <4>2 DEF ReadOf
    <3> QED
      BY <3>1 DEF Served
  <2> QED
    BY <1>3, <2>2, <2>3 DEF RequestStarts, row, Goal
<1>4. ASSUME NEW q \in Requests, ArchiveDone(q) PROVE Goal
  <2>1. Served' = Served
    BY <1>4, SameServed DEF ArchiveDone
  <2>2. /\ work[q] # None /\ archived' = archived \cup {work[q]}
        /\ UNCHANGED <<org, made, owner>>
    BY <1>4 DEF ArchiveDone
  <2>3. owner[q] = work[q] /\ work[q] \in 1..made
    BY <1>1, <2>2 DEF Progress, IdsGiven
  <2>4. CASE org = work[q]
    <3>1. pending' = TRUE /\ path' = q /\ token' = q /\ expires' = "ahead"
      BY <1>4, <2>4 DEF ArchiveDone, RowOfRequest
    <3>2. q # None
      BY <1>1, <2>3 DEF TypeOK
    <3>3. LinkTo' = org
      BY <2>2, <2>3, <2>4, <3>1, <3>2 DEF LinkTo
    <3>4. Promise!Doom
      BY <2>1, <2>2, <2>4, <3>1, <3>3 DEF Promise!Doom, Served
    <3> QED
      BY <3>4 DEF Promise!Next, Goal
  <2>5. CASE org # work[q]
    <3>1. UNCHANGED <<pending, path, token, expires>>
      BY <1>4, <2>5 DEF ArchiveDone, RowOfRequest
    <3>2. LinkTo' = LinkTo
      BY <2>2, <3>1 DEF LinkTo
    <3>3. Promise!Late(work[q])
      BY <2>1, <2>2, <2>3, <2>5, <3>1, <3>2 DEF Promise!Late, Served
    <3> QED
      BY <2>3, <3>3 DEF Promise!Next, Goal
  <2> QED
    BY <2>4, <2>5
<1>5. ASSUME NEW q \in Requests, ArchiveFails(q) PROVE Goal
  BY <1>5, SameServed DEF ArchiveFails, row, LinkTo, Goal
<1>6. ASSUME NEW d \in Downloads, NEW q \in Requests, DownloadStarts(d, q) PROVE Goal
  <2>1. /\ reading[d] = None /\ reading' = [reading EXCEPT ![d] = path]
        /\ token = q /\ expires # "passed"
        /\ UNCHANGED <<made, org, pending, archived, owner, LinkTo>>
    BY <1>6 DEF DownloadStarts, row, LinkTo
  <2>2. q # None
    BY ONLY <1>1, <2>1, <1>6, ArchivesAssumption DEF DownloadStarts, TypeOK
  <2>3. path = q /\ LinkTo # None /\ LinkTo = owner[path]
    BY <1>1, <2>1, <2>2, LinkToHolder DEF LinkTo
  <2>4. Served' = [Served EXCEPT ![d] = LinkTo]
    <3>1. ReadOf(d)' = LinkTo
      BY <1>1, <2>1, <2>2, <2>3 DEF ReadOf, TypeOK
    <3>2. ASSUME NEW e \in Downloads, e # d PROVE ReadOf(e)' = ReadOf(e)
      BY <1>1, <2>1, <3>2 DEF ReadOf, TypeOK
    <3> QED
      BY <3>1, <3>2 DEF Served
  <2>5. Served[d] = None
    BY <2>1 DEF Served, ReadOf
  <2>6. Promise!Open(d)
    BY <2>1, <2>3, <2>4, <2>5 DEF Promise!Open, Served
  <2> QED
    BY <2>6 DEF Promise!Next, Goal
<1>7. ASSUME NEW d \in Downloads, DownloadEnds(d) \/ DownloadAborts(d)
      PROVE  Served' = [Served EXCEPT ![d] = None] /\ Served[d] # None
  <2>1. reading[d] # None /\ reading' = [reading EXCEPT ![d] = None] /\ UNCHANGED owner
    BY <1>7 DEF DownloadEnds, DownloadAborts
  <2>2. ReadOf(d)' = None
    BY <1>1, <2>1 DEF ReadOf, TypeOK
  <2>3. ASSUME NEW e \in Downloads, e # d PROVE ReadOf(e)' = ReadOf(e)
    BY <1>1, <2>1, <2>3 DEF ReadOf, TypeOK
  <2> QED
    BY <1>2, <2>1, <2>2, <2>3 DEF Served
<1>8. ASSUME NEW d \in Downloads, DownloadEnds(d) PROVE Goal
  <2>1. LinkTo' = None /\ UNCHANGED <<made, org, pending, archived>>
    BY <1>8 DEF DownloadEnds, Consumed, LinkTo
  <2>2. Promise!Finish(d)
    BY <1>7, <1>8, <2>1 DEF Promise!Finish, Served
  <2> QED
    BY <2>2 DEF Promise!Next, Goal
<1>9. ASSUME NEW d \in Downloads, DownloadAborts(d) PROVE Goal
  <2>1. UNCHANGED <<LinkTo, made, org, pending, archived>>
    BY <1>9 DEF DownloadAborts, row, LinkTo
  <2>2. Served' = [e \in Downloads |-> IF e \in {d} THEN None ELSE Served[e]]
    BY <1>7, <1>9 DEF Served
  <2>3. Promise!Leave({d})
    BY <2>1, <2>2 DEF Promise!Leave, Served
  <2> QED
    BY <2>3 DEF Promise!Next, Goal
<1>10. ASSUME Crash PROVE Goal
  <2>1. UNCHANGED <<LinkTo, made, org, pending, archived>>
    BY <1>10 DEF Crash, row, LinkTo
  <2>2. Served' = [e \in Downloads |-> IF e \in Downloads THEN None ELSE Served[e]]
    BY <1>10 DEF Crash, Served, ReadOf
  <2>3. Promise!Leave(Downloads)
    BY <2>1, <2>2 DEF Promise!Leave, Served
  <2> QED
    BY <2>3 DEF Promise!Next, Goal
<1>11. ASSUME CreateOrg PROVE Goal
  <2>1. Served' = Served /\ UNCHANGED <<LinkTo, pending, archived>>
    BY <1>11, SameServed DEF CreateOrg, LinkTo
  <2>2. Promise!Found
    BY <1>11, <2>1 DEF Promise!Found, CreateOrg, Served
  <2> QED
    BY <2>2 DEF Promise!Next, Goal
<1>12. ASSUME Cancel PROVE Goal
  <2>1. Served' = Served /\ LinkTo' = None
    BY <1>12, SameServed DEF Cancel, CancelOrgDeletion, NoArchive, LinkTo
  <2>2. Promise!Spare
    BY <1>12, <2>1 DEF Promise!Spare, Cancel, CancelOrgDeletion, Served
  <2> QED
    BY <2>2 DEF Promise!Next, Goal
<1>13. ASSUME Execute PROVE Goal
  <2>1. Served' = Served /\ LinkTo' = None
    BY <1>13, SameServed DEF Execute, ExecuteOrgDeletion, NoArchive, LinkTo
  <2>2. org \in archived
    BY <1>1, <1>13 DEF Execute, ExecuteOrgDeletion, MayExecute, PendingArchived
  <2>3. Promise!Delete
    BY <1>13, <2>1, <2>2 DEF Promise!Delete, Execute, ExecuteOrgDeletion, MayExecute, Served
  <2> QED
    BY <2>3 DEF Promise!Next, Goal
<1>14. ASSUME Expire PROVE Goal
  <2>1. Served' = Served /\ LinkTo' = None
    BY <1>14, SameServed DEF Expire, LinkTo
  <2>2. Promise!LinkExpires
    BY <1>14, <2>1 DEF Promise!LinkExpires, Expire, Served
  <2> QED
    BY <2>2 DEF Promise!Next, Goal
<1>15. ASSUME Sweep PROVE Goal
  <2>1. Served' = Served /\ LinkTo' = LinkTo
    BY <1>15, SameServed DEF Sweep, Sweepable, NoArchive, LinkTo
  <2> QED
    BY <1>15, <2>1 DEF Sweep, Goal
<1>16. ASSUME UNCHANGED vars PROVE Goal
  BY <1>16, SameServed DEF vars, row, LinkTo, Goal
<1> QED
  <2>1. Goal
    BY <1>3, <1>4, <1>5, <1>6, <1>8, <1>9, <1>10, <1>11, <1>12, <1>13, <1>14, <1>15, <1>16 DEF Next
  <2> QED
    BY <2>1 DEF Goal

\* Whatever requests, downloads, expiries and crashes overlap, an organization is
\* deleted, and its link behaves, as Deletion says.
THEOREM DeletionAsPromised == Spec => ImplementsDeletion
<1>1. Init => Promise!Init
  BY ArchivesAssumption DEF Init, Promise!Init, LinkTo, ReadOf
<1>2. IInv /\ [Next]_vars => [Promise!Next]_(Promise!vars)
  BY PromiseStep
<1> QED
  BY <1>1, <1>2, ArchivesInvariant, PTL DEF Spec, ImplementsDeletion, Promise!Spec
=============================================================================
