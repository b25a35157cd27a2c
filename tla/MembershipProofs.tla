-------------------------- MODULE MembershipProofs --------------------------
(***************************************************************************)
(* Proofs about Membership: the inductive invariant IInv, one lemma per    *)
(* part with one step per action, and the properties it implies.           *)
(***************************************************************************)
EXTENDS Membership, TLAPS

\* Every step keeps the types.
LEMMA TypeOKStep ==
  ASSUME TypeOK, [Next]_vars
  PROVE  TypeOK'
<1> USE MembershipAssumption DEF TypeOK, InviteRecord, AppRecord
<1>1. ASSUME NEW p \in Apps, Apply(p)
      PROVE  TypeOK'
  BY <1>1 DEF account, Apply, UniqueSlug
<1>2. ASSUME NEW p \in Apps, Approve(p)
      PROVE  TypeOK'
  BY ZenonT(60), <1>2 DEF account, Approve
<1>3. ASSUME NEW p \in Apps, Decline(p)
      PROVE  TypeOK'
  BY <1>3 DEF account, Decline
<1>4. ASSUME NEW p \in Apps, LinkExpires(p)
      PROVE  TypeOK'
  BY <1>4 DEF account, LinkExpires
<1>5. ASSUME NEW p \in Apps, NEW u \in Accounts, Setup(p, u)
      PROVE  TypeOK'
  BY <1>5 DEF account, Setup, CreateBroadcaster, SharedAccounts, Members, FoundingLeader
<1>6. ASSUME NEW i \in Invites, InviteAges(i)
      PROVE  TypeOK'
  BY <1>6 DEF account, InviteAges
<1>7. ASSUME NEW i \in Invites, NEW u \in Accounts, Consume(i, u)
      PROVE  TypeOK'
  BY <1>7 DEF account, Consume, ConsumeInvite, CreateBroadcaster, SharedAccounts, Members
<1>8. ASSUME NEW i \in Invites, NEW by \in Accounts \cup {Root}, NEW o \in Slugs, NEW isShared \in BOOLEAN, Invite(i, by, o, isShared)
      PROVE  TypeOK'
  BY <1>8 DEF account, Invite, Manages, Leaders, Members, SharedTaken, SharedAccounts
<1>9. ASSUME NEW u \in Accounts, SignIn(u)
      PROVE  TypeOK'
  BY <1>9 DEF account, SignIn
<1>10. ASSUME NEW u \in Accounts, SignOut(u)
      PROVE  TypeOK'
  BY <1>10 DEF account, SignOut
<1>11. ASSUME NEW u \in Accounts, NEW by \in Accounts \cup {Root}, DeleteBroadcaster(by, u)
      PROVE  TypeOK'
  BY <1>11 DEF account, DeleteBroadcaster, Manages, Deletable, Members, Leaders, Referenced, Erase
<1>12. ASSUME NEW u \in Accounts, NEW by \in Accounts \cup {Root}, NEW o \in Slugs, Transfer(by, o, u)
      PROVE  TypeOK'
  BY <1>12 DEF account, Transfer, TransferTo, Manages, Leaders, Members, SharedAccounts
<1>13. ASSUME NEW o \in Slugs, CreateOrg(o)
      PROVE  TypeOK'
  BY <1>13 DEF account, CreateOrg
<1>14. ASSUME NEW o \in Slugs, DeleteOrg(o)
      PROVE  TypeOK'
  BY <1>14 DEF account, DeleteOrg, Erase, Members, InvitesAfter
<1>15. ASSUME NEW o \in Slugs, SettleLogo(o)
      PROVE  TypeOK'
  BY <1>15 DEF account, SettleLogo
<1>16. ASSUME NEW o \in Slugs, NEW to \in Accounts, ForceLeader(o, to)
      PROVE  TypeOK'
  BY <1>16 DEF account, ForceLeader, LeadBy, Demoted, Members, Leaders, SharedAccounts
<1>17. ASSUME NEW o \in Slugs, NEW by \in Accounts \cup {Root}, SubmitLogo(by, o)
      PROVE  TypeOK'
  BY <1>17 DEF account, SubmitLogo, Brands, Members, SharedAccounts
<1>18. CASE UNCHANGED vars
  BY <1>18 DEF vars, account
<1> QED
  BY <1>1, <1>2, <1>3, <1>4, <1>5, <1>6, <1>7, <1>8, <1>9, <1>10, <1>11, <1>12, <1>13, <1>14, <1>15, <1>16, <1>17, <1>18 DEF Next

\* No step leaves a row that names one that is gone.
LEMMA NoDanglingRowStep ==
  ASSUME TypeOK, NoDanglingRow, [Next]_vars
  PROVE  NoDanglingRow'
<1> USE MembershipAssumption DEF TypeOK, NoDanglingRow, InviteRecord, AppRecord
<1>1. ASSUME NEW p \in Apps, Apply(p)
      PROVE  NoDanglingRow'
  BY <1>1 DEF account, Apply, UniqueSlug
<1>2. ASSUME NEW p \in Apps, Approve(p)
      PROVE  NoDanglingRow'
  BY <1>2 DEF account, Approve
<1>3. ASSUME NEW p \in Apps, Decline(p)
      PROVE  NoDanglingRow'
  BY <1>3 DEF account, Decline
<1>4. ASSUME NEW p \in Apps, LinkExpires(p)
      PROVE  NoDanglingRow'
  BY <1>4 DEF account, LinkExpires
<1>5. ASSUME NEW p \in Apps, NEW u \in Accounts, Setup(p, u)
      PROVE  NoDanglingRow'
  BY <1>5 DEF account, Setup, CreateBroadcaster, SharedAccounts, Members, FoundingLeader
<1>6. ASSUME NEW i \in Invites, InviteAges(i)
      PROVE  NoDanglingRow'
  BY <1>6 DEF account, InviteAges
<1>7. ASSUME NEW i \in Invites, NEW u \in Accounts, Consume(i, u)
      PROVE  NoDanglingRow'
  BY <1>7 DEF account, Consume, ConsumeInvite, CreateBroadcaster, SharedAccounts, Members
<1>8. ASSUME NEW i \in Invites, NEW by \in Accounts \cup {Root}, NEW o \in Slugs, NEW isShared \in BOOLEAN, Invite(i, by, o, isShared)
      PROVE  NoDanglingRow'
  BY <1>8 DEF account, Invite, Manages, Leaders, Members, SharedTaken, SharedAccounts
<1>9. ASSUME NEW u \in Accounts, SignIn(u)
      PROVE  NoDanglingRow'
  BY <1>9 DEF account, SignIn
<1>10. ASSUME NEW u \in Accounts, SignOut(u)
      PROVE  NoDanglingRow'
  BY <1>10 DEF account, SignOut
<1>11. ASSUME NEW u \in Accounts, NEW by \in Accounts \cup {Root}, DeleteBroadcaster(by, u)
      PROVE  NoDanglingRow'
  BY <1>11 DEF account, DeleteBroadcaster, Manages, Deletable, Members, Leaders, Referenced, Erase
<1>12. ASSUME NEW u \in Accounts, NEW by \in Accounts \cup {Root}, NEW o \in Slugs, Transfer(by, o, u)
      PROVE  NoDanglingRow'
  BY <1>12 DEF account, Transfer, TransferTo, Manages, Leaders, Members, SharedAccounts
<1>13. ASSUME NEW o \in Slugs, CreateOrg(o)
      PROVE  NoDanglingRow'
  BY <1>13 DEF account, CreateOrg
<1>14. ASSUME NEW o \in Slugs, DeleteOrg(o)
      PROVE  NoDanglingRow'
  BY <1>14 DEF account, DeleteOrg, Erase, Members, InvitesAfter
<1>15. ASSUME NEW o \in Slugs, SettleLogo(o)
      PROVE  NoDanglingRow'
  BY <1>15 DEF account, SettleLogo
<1>16. ASSUME NEW o \in Slugs, NEW to \in Accounts, ForceLeader(o, to)
      PROVE  NoDanglingRow'
  BY <1>16 DEF account, ForceLeader, LeadBy, Demoted, Members, Leaders, SharedAccounts
<1>17. ASSUME NEW o \in Slugs, NEW by \in Accounts \cup {Root}, SubmitLogo(by, o)
      PROVE  NoDanglingRow'
  BY <1>17 DEF account, SubmitLogo, Brands, Members, SharedAccounts
<1>18. CASE UNCHANGED vars
  BY <1>18 DEF vars, account
<1> QED
  BY <1>1, <1>2, <1>3, <1>4, <1>5, <1>6, <1>7, <1>8, <1>9, <1>10, <1>11, <1>12, <1>13, <1>14, <1>15, <1>16, <1>17, <1>18 DEF Next

\* Every step leaves one leader at most.
LEMMA OneLeaderStep ==
  ASSUME TypeOK, NoDanglingRow, OneLeader, [Next]_vars
  PROVE  OneLeader'
<1> USE MembershipAssumption DEF TypeOK, NoDanglingRow, OneLeader, InviteRecord, AppRecord
<1>1. ASSUME NEW p \in Apps, Apply(p)
      PROVE  OneLeader'
  BY <1>1 DEF account, Apply, UniqueSlug
<1>2. ASSUME NEW p \in Apps, Approve(p)
      PROVE  OneLeader'
  BY <1>2 DEF account, Approve
<1>3. ASSUME NEW p \in Apps, Decline(p)
      PROVE  OneLeader'
  BY <1>3 DEF account, Decline
<1>4. ASSUME NEW p \in Apps, LinkExpires(p)
      PROVE  OneLeader'
  BY <1>4 DEF account, LinkExpires
<1>5. ASSUME NEW p \in Apps, NEW u \in Accounts, Setup(p, u)
      PROVE  OneLeader'
  BY <1>5 DEF account, Setup, CreateBroadcaster, SharedAccounts, Members, FoundingLeader
<1>6. ASSUME NEW i \in Invites, InviteAges(i)
      PROVE  OneLeader'
  BY <1>6 DEF account, InviteAges
<1>7. ASSUME NEW i \in Invites, NEW u \in Accounts, Consume(i, u)
      PROVE  OneLeader'
  BY <1>7 DEF account, Consume, ConsumeInvite, CreateBroadcaster, SharedAccounts, Members
<1>8. ASSUME NEW i \in Invites, NEW by \in Accounts \cup {Root}, NEW o \in Slugs, NEW isShared \in BOOLEAN, Invite(i, by, o, isShared)
      PROVE  OneLeader'
  BY <1>8 DEF account, Invite, Manages, Leaders, Members, SharedTaken, SharedAccounts
<1>9. ASSUME NEW u \in Accounts, SignIn(u)
      PROVE  OneLeader'
  BY <1>9 DEF account, SignIn
<1>10. ASSUME NEW u \in Accounts, SignOut(u)
      PROVE  OneLeader'
  BY <1>10 DEF account, SignOut
<1>11. ASSUME NEW u \in Accounts, NEW by \in Accounts \cup {Root}, DeleteBroadcaster(by, u)
      PROVE  OneLeader'
  BY <1>11 DEF account, DeleteBroadcaster, Manages, Deletable, Members, Leaders, Referenced, Erase
<1>12. ASSUME NEW u \in Accounts, NEW by \in Accounts \cup {Root}, NEW o \in Slugs, Transfer(by, o, u)
      PROVE  OneLeader'
  BY <1>12 DEF account, Transfer, TransferTo, Manages, Leaders, Members, SharedAccounts
<1>13. ASSUME NEW o \in Slugs, CreateOrg(o)
      PROVE  OneLeader'
  BY <1>13 DEF account, CreateOrg
<1>14. ASSUME NEW o \in Slugs, DeleteOrg(o)
      PROVE  OneLeader'
  BY <1>14 DEF account, DeleteOrg, Erase, Members, InvitesAfter
<1>15. ASSUME NEW o \in Slugs, SettleLogo(o)
      PROVE  OneLeader'
  BY <1>15 DEF account, SettleLogo
<1>16. ASSUME NEW o \in Slugs, NEW to \in Accounts, ForceLeader(o, to)
      PROVE  OneLeader'
  BY <1>16 DEF account, ForceLeader, LeadBy, Demoted, Members, Leaders, SharedAccounts
<1>17. ASSUME NEW o \in Slugs, NEW by \in Accounts \cup {Root}, SubmitLogo(by, o)
      PROVE  OneLeader'
  BY <1>17 DEF account, SubmitLogo, Brands, Members, SharedAccounts
<1>18. CASE UNCHANGED vars
  BY <1>18 DEF vars, account
<1> QED
  BY <1>1, <1>2, <1>3, <1>4, <1>5, <1>6, <1>7, <1>8, <1>9, <1>10, <1>11, <1>12, <1>13, <1>14, <1>15, <1>16, <1>17, <1>18 DEF Next

\* The shared account is promised once.
LEMMA SharedOnceStep ==
  ASSUME TypeOK, NoDanglingRow, SharedOnce, [Next]_vars
  PROVE  SharedOnce'
<1> USE MembershipAssumption DEF TypeOK, SharedOnce, SharedAccounts, Members, InviteRecord, AppRecord
<1>1. ASSUME NEW p \in Apps, Apply(p)
      PROVE  SharedOnce'
  BY <1>1 DEF account, Apply, UniqueSlug
<1>2. ASSUME NEW p \in Apps, Approve(p)
      PROVE  SharedOnce'
  BY <1>2 DEF account, Approve
<1>3. ASSUME NEW p \in Apps, Decline(p)
      PROVE  SharedOnce'
  BY <1>3 DEF account, Decline
<1>4. ASSUME NEW p \in Apps, LinkExpires(p)
      PROVE  SharedOnce'
  BY <1>4 DEF account, LinkExpires
<1>5. ASSUME NEW p \in Apps, NEW u \in Accounts, Setup(p, u)
      PROVE  SharedOnce'
  <2>1. \A o \in Slugs : SharedAccounts(o)' = SharedAccounts(o)
    BY <1>5 DEF Setup, CreateBroadcaster, NoDanglingRow
  <2> QED
    BY <1>5, <2>1 DEF Setup
<1>6. ASSUME NEW i \in Invites, InviteAges(i)
      PROVE  SharedOnce'
  BY <1>6 DEF account, InviteAges
<1>7. ASSUME NEW i \in Invites, NEW u \in Accounts, Consume(i, u)
      PROVE  SharedOnce'
  <2>1. \A o \in Slugs : SharedAccounts(o)' # SharedAccounts(o) =>
          o = invite[i].org /\ invite[i].shared
    BY <1>7 DEF Consume, ConsumeInvite, CreateBroadcaster, NoDanglingRow
  <2>2. invite' = [invite EXCEPT ![i].state = "used"]
    BY <1>7 DEF Consume, ConsumeInvite
  <2>3. invite[i] # None /\ invite[i].state = "live"
    BY <1>7 DEF Consume, ConsumeInvite
  <2>4. ASSUME NEW k \in Invites, invite'[k] # None, invite'[k].shared, invite'[k].state = "live"
        PROVE  /\ k # i /\ invite'[k] = invite[k]
               /\ SharedAccounts(invite[k].org) = {}
               /\ SharedAccounts(invite[k].org)' = {}
    BY <2>1, <2>2, <2>3, <2>4
  <2> QED
    BY <2>2, <2>4
<1>8. ASSUME NEW i \in Invites, NEW by \in Accounts \cup {Root}, NEW o \in Slugs, NEW isShared \in BOOLEAN, Invite(i, by, o, isShared)
      PROVE  SharedOnce'
  BY <1>8 DEF account, Invite, Manages, Leaders, SharedTaken
<1>9. ASSUME NEW u \in Accounts, SignIn(u)
      PROVE  SharedOnce'
  BY <1>9 DEF account, SignIn
<1>10. ASSUME NEW u \in Accounts, SignOut(u)
      PROVE  SharedOnce'
  BY <1>10 DEF account, SignOut
<1>11. ASSUME NEW u \in Accounts, NEW by \in Accounts \cup {Root}, DeleteBroadcaster(by, u)
      PROVE  SharedOnce'
  BY <1>11 DEF account, DeleteBroadcaster, Manages, Deletable, Leaders, Referenced, Erase
<1>12. ASSUME NEW u \in Accounts, NEW by \in Accounts \cup {Root}, NEW o \in Slugs, Transfer(by, o, u)
      PROVE  SharedOnce'
  BY <1>12 DEF account, Transfer, TransferTo, Manages, Leaders
<1>13. ASSUME NEW o \in Slugs, CreateOrg(o)
      PROVE  SharedOnce'
  BY <1>13 DEF account, CreateOrg
<1>14. ASSUME NEW o \in Slugs, DeleteOrg(o)
      PROVE  SharedOnce'
  BY <1>14 DEF account, DeleteOrg, Erase, InvitesAfter
<1>15. ASSUME NEW o \in Slugs, SettleLogo(o)
      PROVE  SharedOnce'
  BY <1>15 DEF account, SettleLogo
<1>16. ASSUME NEW o \in Slugs, NEW to \in Accounts, ForceLeader(o, to)
      PROVE  SharedOnce'
  BY <1>16 DEF account, ForceLeader, LeadBy, Demoted, Leaders
<1>17. ASSUME NEW o \in Slugs, NEW by \in Accounts \cup {Root}, SubmitLogo(by, o)
      PROVE  SharedOnce'
  BY <1>17 DEF account, SubmitLogo, Brands
<1>18. CASE UNCHANGED vars
  BY <1>18 DEF vars, account
<1> QED
  BY <1>1, <1>2, <1>3, <1>4, <1>5, <1>6, <1>7, <1>8, <1>9, <1>10, <1>11, <1>12, <1>13, <1>14, <1>15, <1>16, <1>17, <1>18 DEF Next

\* Who founds an organization leads it, and is only ever replaced.
LEMMA FoundedLedStep ==
  ASSUME TypeOK, NoDanglingRow, OneLeader, FoundedLed, [Next]_vars
  PROVE  FoundedLed'
<1> USE DEF FoundedLed, Leaders, Members
<1>1. ASSUME UNCHANGED <<org, leader, founded>>, orgs \subseteq orgs' PROVE FoundedLed'
  <2>1. \A o \in founded : Leaders(o)' = Leaders(o)
    BY <1>1
  <2> QED
    BY <1>1, <2>1
<1>2. ASSUME NEW p \in Apps, NEW u \in Accounts, Setup(p, u) PROVE FoundedLed'
  <2>1. \A o \in founded : Leaders(o) \subseteq Leaders(o)'
    BY <1>2, MembershipAssumption DEF Setup, CreateBroadcaster, TypeOK
  <2>2. \A q \in {app[p].slug} : Members(q) = {} => u \in Leaders(q)'
    BY <1>2, MembershipAssumption DEF Setup, CreateBroadcaster, FoundingLeader, TypeOK, AppRecord
  <2>3. /\ orgs' = orgs \cup {app[p].slug}
        /\ founded' = IF Members(app[p].slug) = {} THEN founded \cup {app[p].slug} ELSE founded
    BY <1>2 DEF Setup
  <2>4. ASSUME NEW o \in founded' PROVE o \in orgs' /\ Leaders(o)' # {}
    <3>1. CASE o \in founded
      BY <3>1, <2>1, <2>3
    <3>2. CASE o = app[p].slug /\ Members(app[p].slug) = {}
      BY <3>2, <2>2, <2>3
    <3> QED
      BY <2>3, <2>4, <3>1, <3>2
  <2> QED
    BY <2>4
<1>3. ASSUME NEW i \in Invites, NEW u \in Accounts, Consume(i, u) PROVE FoundedLed'
  <2>1. \A o \in founded : Leaders(o) \subseteq Leaders(o)'
    BY <1>3, MembershipAssumption DEF Consume, ConsumeInvite, CreateBroadcaster, TypeOK
  <2> QED
    BY <1>3, <2>1 DEF Consume
<1>4. ASSUME NEW u \in Accounts, NEW by \in Accounts \cup {Root}, DeleteBroadcaster(by, u)
      PROVE  FoundedLed'
  <2>1. \A o \in founded : Leaders(o) \subseteq Leaders(o)'
    BY <1>4 DEF DeleteBroadcaster, Erase, Deletable, TypeOK
  <2> QED
    BY <1>4, <2>1 DEF DeleteBroadcaster
<1>5. ASSUME NEW u \in Accounts, NEW by \in Accounts \cup {Root}, NEW o \in Slugs, Transfer(by, o, u)
      PROVE  FoundedLed'
  <2>1. u \in Leaders(o)'
    BY <1>5 DEF Transfer, TransferTo
  <2>2. \A q \in founded \ {o} : Leaders(q) \subseteq Leaders(q)'
    BY <1>5 DEF Transfer, TransferTo
  <2> QED
    BY <1>5, <2>1, <2>2 DEF Transfer
<1>6. ASSUME NEW o \in Slugs, DeleteOrg(o) PROVE FoundedLed'
  <2>1. \A q \in founded \ {o} : Leaders(q) \subseteq Leaders(q)'
    BY <1>6 DEF DeleteOrg, Erase, TypeOK
  <2> QED
    BY <1>6, <2>1 DEF DeleteOrg
<1>7. ASSUME NEW o \in Slugs, NEW to \in Accounts, ForceLeader(o, to) PROVE FoundedLed'
  <2>1. to \in Leaders(o)'
    BY <1>7 DEF ForceLeader, LeadBy
  <2>2. \A q \in founded \ {o} : Leaders(q) \subseteq Leaders(q)'
    BY <1>7 DEF ForceLeader, LeadBy, Demoted
  <2> QED
    BY <1>7, <2>1, <2>2 DEF ForceLeader
<1> QED
  BY <1>1, <1>2, <1>3, <1>4, <1>5, <1>6, <1>7 DEF Next, vars, account, Apply, Approve, Decline,
     LinkExpires, InviteAges, Invite, SignIn, SignOut, CreateOrg, SettleLogo, SubmitLogo

\* The invariant holds initially.
LEMMA InitIInv == Init => IInv
<1> SUFFICES ASSUME Init PROVE IInv
  OBVIOUS
<1>1. TypeOK
  BY DEF Init, TypeOK
<1>2. NoDanglingRow
  BY DEF Init, NoDanglingRow
<1>3. OneLeader
  BY DEF Init, OneLeader
<1>4. SharedOnce
  BY DEF Init, SharedOnce
<1>5. FoundedLed
  BY DEF Init, FoundedLed
<1> QED
  BY <1>1, <1>2, <1>3, <1>4, <1>5 DEF IInv

\* The invariant is inductive.
LEMMA NextIInv == IInv /\ [Next]_vars => IInv'
  BY TypeOKStep, NoDanglingRowStep, OneLeaderStep, SharedOnceStep, FoundedLedStep DEF IInv

-----------------------------------------------------------------------------
\* The inductive invariant holds in every reachable state, for any number of
\* organizations, accounts, applications and invites.
THEOREM MembershipInvariant == Spec => []IInv
  BY InitIInv, NextIInv, PTL DEF Spec

\* The shared account of an organization is given out once.
THEOREM SharedAccountOnce == Spec => []SharedOnce
<1>1. IInv => SharedOnce
  BY DEF IInv
<1> QED
  BY <1>1, MembershipInvariant, PTL

\* An organization set up by an applicant is never without a leader.
THEOREM FoundedIsLed == Spec => []FoundedLed
<1>1. IInv => FoundedLed
  BY DEF IInv
<1> QED
  BY <1>1, MembershipInvariant, PTL

\* No step takes its leader, or its last member, from an organization that stays.
LEMMA KeptStep ==
  ASSUME IInv, [Next]_vars, NEW q \in orgs \cap orgs'
  PROVE  /\ Leaders(q) # {} => Leaders(q)' # {}
         /\ Members(q) # {} => Members(q)' # {}
<1> DEFINE Kept == /\ Leaders(q) # {} => Leaders(q)' # {}
                   /\ Members(q) # {} => Members(q)' # {}
<1> USE DEF IInv, TypeOK, InviteRecord, Members, Leaders
<1>1. ASSUME NEW p \in Apps, NEW u \in Accounts, Setup(p, u) PROVE Kept
  BY <1>1, MembershipAssumption DEF Setup, CreateBroadcaster
<1>2. ASSUME NEW i \in Invites, NEW u \in Accounts, Consume(i, u) PROVE Kept
  BY <1>2, MembershipAssumption DEF Consume, ConsumeInvite, CreateBroadcaster
<1>3. ASSUME NEW u \in Accounts, NEW by \in Accounts \cup {Root}, DeleteBroadcaster(by, u)
      PROVE  Kept
  <2>1. leader' = leader /\ u \notin leader
    BY <1>3 DEF DeleteBroadcaster, Deletable, Erase
  <2>2. /\ \A v \in Accounts \ {u} : org'[v] = org[v]
        /\ org'[u] = org[u] \/ org'[u] = None
    BY <1>3 DEF DeleteBroadcaster, Erase
  <2>3. Leaders(q) \subseteq Leaders(q)'
    BY <2>1, <2>2
  <2>4. Members(q) # {} => Members(q)' # {}
    <3>1. CASE org[u] = q
      BY <1>3, <2>2, <3>1 DEF DeleteBroadcaster, Deletable
    <3>2. CASE org[u] # q
      BY <2>2, <3>2
    <3> QED
      BY <3>1, <3>2
  <2> QED
    BY <2>3, <2>4
<1>4. ASSUME NEW to \in Accounts, NEW by \in Accounts \cup {Root}, NEW o \in Slugs,
             Transfer(by, o, to)
      PROVE  Kept
  BY <1>4, MembershipAssumption DEF Transfer, TransferTo
<1>5. ASSUME NEW o \in Slugs, NEW to \in Accounts, ForceLeader(o, to) PROVE Kept
  BY <1>5, MembershipAssumption DEF ForceLeader, LeadBy, Demoted
<1>6. ASSUME NEW o \in Slugs, DeleteOrg(o) PROVE Kept
  BY <1>6, MembershipAssumption DEF DeleteOrg, Erase
<1>7. ASSUME UNCHANGED <<org, leader>> PROVE Kept
  BY <1>7
<1> QED
  BY <1>1, <1>2, <1>3, <1>4, <1>5, <1>6, <1>7 DEF Next, vars, account, Apply, Approve, Decline,
     LinkExpires, InviteAges, Invite, SignIn, SignOut, CreateOrg, SettleLogo, SubmitLogo

\* An organization keeps a leader, and members, as long as it is there.
THEOREM LeadersStay == Spec => LeadershipKept
<1>1. IInv /\ [Next]_vars =>
        [\A o \in orgs \cap orgs' : /\ Leaders(o) # {} => Leaders(o)' # {}
                                    /\ Members(o) # {} => Members(o)' # {}]_vars
  BY KeptStep
<1> QED
  BY <1>1, MembershipInvariant, PTL DEF Spec, LeadershipKept
=============================================================================
