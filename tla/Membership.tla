----------------------------- MODULE Membership -----------------------------
(***************************************************************************)
(* Organizations and their broadcasters: applications and their review,    *)
(* the setup of a new organization, invites, leadership and the deletion   *)
(* of accounts (the routes of server/index.js 1102-1204 and 1300-1863,     *)
(* server/auth.js 77-256, server/rooms.js 37-103).                         *)
(*                                                                         *)
(* Every handler reads and writes the database without giving up the       *)
(* thread, and answers and mails afterwards: each is one action.  What is  *)
(* hard here is the long sequences of calls that are legal one by one.     *)
(*                                                                         *)
(* An account is its username.  A slug is a number: the slugs made from one *)
(* name are tried in order.  A superadmin, Root, belongs to the default    *)
(* organization, which no route deletes.  A leader's calls need TOTP, which *)
(* Login lets every leader turn on and off: the guard is left out.         *)
(***************************************************************************)
EXTENDS Integers

CONSTANTS
  Slugs,     \* slugs an organization can get
  Apps,      \* applications (rows of org_signup_requests)
  Accounts,  \* usernames
  Invites,   \* rows of broadcaster_invites
  Root,      \* the superadmins
  None

InviteRecord == [org : Slugs, shared : BOOLEAN, by : Accounts \cup {Root},
                 state : {"live", "stale", "expired", "used"}]
AppRecord == [slug : Slugs, status : {"pending", "approved", "declined"},
              link : {"none", "live", "expired", "used"}]

ASSUME MembershipAssumption ==
  /\ Slugs \subseteq Nat
  /\ Root \notin Accounts /\ None \notin Accounts \cup {Root}
  /\ None \notin Slugs \cup InviteRecord \cup AppRecord

VARIABLES
  orgs,         \* slugs of the organizations
  org,          \* username -> its organization, or None: no such account
  shared,       \* accounts of account_type 'shared'
  leader,       \* accounts with is_org_leader
  session,      \* accounts that are signed in
  invite,       \* invite -> None or [org, shared, by, state]
  app,          \* application -> None or [slug, status, link]
  pendingLogo,  \* slug -> None or the account that uploaded its pending logo
  founded       \* history: organizations whose first member applied for them

account == <<org, shared, leader>>
vars == <<orgs, account, session, invite, app, pendingLogo, founded>>

Init ==
  /\ orgs = {}
  /\ org = [u \in Accounts |-> None]
  /\ shared = {} /\ leader = {}
  /\ session = {}
  /\ invite = [i \in Invites |-> None]
  /\ app = [p \in Apps |-> None]
  /\ pendingLogo = [o \in Slugs |-> None]
  /\ founded = {}

-----------------------------------------------------------------------------
(* Helpers *)

Members(o) == {u \in Accounts : org[u] = o}
Leaders(o) == leader \cap Members(o)
SharedAccounts(o) == shared \cap Members(o)

\* requireOrgLeaderOrSuperadmin: who may manage the broadcasters of o.
Manages(by, o) == by = Root \/ by \in session \cap Leaders(o)

\* requireOrgAccess and not a shared account: who may change its branding.
Brands(by, o) == by = Root \/ by \in (session \cap Members(o)) \ SharedAccounts(o)

\* An account that another row names: its own row cannot be deleted.
Referenced(u) ==
  \/ \E i \in Invites : invite[i] # None /\ invite[i].by = u
  \/ \E o \in Slugs : pendingLogo[o] = u

\* createIndividualBroadcaster; the username is unique, and so is the shared
\* account of an organization (idx_one_shared_per_org).
CreateBroadcaster(u, o, isShared, leads) ==
  /\ org[u] = None
  /\ isShared => SharedAccounts(o) = {}
  /\ org' = [org EXCEPT ![u] = o]
  /\ shared' = IF isShared THEN shared \cup {u} ELSE shared
  /\ leader' = IF leads /\ ~isShared THEN leader \cup {u} ELSE leader

\* _uniqueSlug: the first slug that no organization has; an application that
\* is still open does not hold its slug.
UniqueSlug(o) == o \in Slugs \ orgs /\ \A other \in Slugs \ orgs : o <= other

\* createBroadcasterInvite: the shared account is taken or promised.  An expired
\* invite counts until its day is over (its ISO date is compared as text).
SharedTaken(o) ==
  \/ SharedAccounts(o) # {}
  \/ \E i \in Invites : /\ invite[i] # None
                        /\ invite[i].org = o /\ invite[i].shared
                        /\ invite[i].state \in {"live", "stale"}

-----------------------------------------------------------------------------
(* Applications *)

\* POST /api/orgs/apply
Apply(p) ==
  /\ app[p] = None
  /\ \E o \in Slugs :
       /\ UniqueSlug(o)
       /\ app' = [app EXCEPT ![p] = [slug |-> o, status |-> "pending", link |-> "none"]]
  /\ UNCHANGED <<orgs, account, session, invite, pendingLogo, founded>>

\* POST /api/admin/applications/:id/approve: a new link, which is dead if the
\* application has been used before.
Approve(p) ==
  /\ app[p] # None /\ app[p].status # "approved"
  /\ app' = [app EXCEPT ![p] =
       [@ EXCEPT !.status = "approved", !.link = IF @ = "used" THEN "used" ELSE "live"]]
  /\ UNCHANGED <<orgs, account, session, invite, pendingLogo, founded>>

\* POST /api/admin/applications/:id/decline, also of one that was approved
Decline(p) ==
  /\ app[p] # None /\ app[p].status # "declined"
  /\ app' = [app EXCEPT ![p].status = "declined"]
  /\ UNCHANGED <<orgs, account, session, invite, pendingLogo, founded>>

\* The setup link is seven days old.
LinkExpires(p) ==
  /\ app[p] # None /\ app[p].link = "live"
  /\ app' = [app EXCEPT ![p].link = "expired"]
  /\ UNCHANGED <<orgs, account, session, invite, pendingLogo, founded>>

\* The first broadcaster leads.
FoundingLeader(o) == Members(o) = {}

\* POST /api/orgs/setup/:token: one transaction makes the organization, unless
\* it is there, and the account, and consumes the link.
Setup(p, u) ==
  /\ app[p] # None /\ app[p].status = "approved" /\ app[p].link = "live"
  /\ LET o == app[p].slug IN
     /\ orgs' = orgs \cup {o}
     /\ CreateBroadcaster(u, o, FALSE, FoundingLeader(o))
     /\ founded' = IF Members(o) = {} THEN founded \cup {o} ELSE founded
  /\ app' = [app EXCEPT ![p].link = "used"]
  /\ UNCHANGED <<session, invite, pendingLogo>>

\* POST /api/admin/orgs: a superadmin makes an organization without members.
CreateOrg(o) ==
  /\ o \notin orgs
  /\ orgs' = orgs \cup {o}
  /\ UNCHANGED <<account, session, invite, app, pendingLogo, founded>>

-----------------------------------------------------------------------------
(* Invites *)

\* POST /api/admin/orgs/:slug/invite-broadcaster: only a superadmin's invite
\* can be for the shared account.
Invite(i, by, o, isShared) ==
  /\ o \in orgs /\ Manages(by, o)
  /\ invite[i] = None
  /\ isShared => by = Root /\ ~SharedTaken(o)
  /\ invite' = [invite EXCEPT ![i] =
                  [org |-> o, shared |-> isShared, by |-> by, state |-> "live"]]
  /\ UNCHANGED <<orgs, account, session, app, pendingLogo, founded>>

\* Seven days pass, and then the rest of that day.
InviteAges(i) ==
  /\ invite[i] # None /\ invite[i].state \in {"live", "stale"}
  /\ invite' = [invite EXCEPT ![i].state = IF @ = "live" THEN "stale" ELSE "expired"]
  /\ UNCHANGED <<orgs, account, session, app, pendingLogo, founded>>

\* consumeBroadcasterInvite: the new broadcaster is never a leader.
ConsumeInvite(i, u) ==
  /\ invite[i] # None /\ invite[i].state = "live"
  /\ CreateBroadcaster(u, invite[i].org, invite[i].shared, FALSE)
  /\ invite' = [invite EXCEPT ![i].state = "used"]

\* POST /api/broadcaster-invite/:token
Consume(i, u) ==
  /\ ConsumeInvite(i, u)
  /\ UNCHANGED <<orgs, session, app, pendingLogo, founded>>

-----------------------------------------------------------------------------
(* Leadership and deletion *)

\* transferOrgLeadership
TransferTo(o, from, to) ==
  /\ to \in Members(o) \ shared /\ to # from
  /\ leader' = (leader \ {from}) \cup {to}

\* POST /api/admin/orgs/:slug/transfer-leader, by the leader or a superadmin
Transfer(by, o, to) ==
  /\ o \in orgs /\ Manages(by, o)
  /\ \E from \in Leaders(o) : TransferTo(o, from, to)
  /\ UNCHANGED <<orgs, org, shared, session, invite, app, pendingLogo, founded>>

\* The leaders when that of o, if any, is demoted.
Demoted(o) == leader \ Leaders(o)

\* forceSetOrgLeader
LeadBy(o, to) ==
  /\ to \in Members(o) \ shared
  /\ leader' = Demoted(o) \cup {to}

\* POST /api/admin/orgs/:slug/force-set-leader, by a superadmin
ForceLeader(o, to) ==
  /\ o \in orgs
  /\ LeadBy(o, to)
  /\ UNCHANGED <<orgs, org, shared, session, invite, app, pendingLogo, founded>>

\* The rows of these accounts are deleted.
Erase(us) ==
  /\ org' = [u \in Accounts |-> IF u \in us THEN None ELSE org[u]]
  /\ shared' = shared \ us
  /\ leader' = leader \ us

\* (defect: the last broadcaster can be deleted)
DeletableLast(by, u) == u # by /\ u \notin leader

\* deleteBroadcaster: neither oneself, nor a leader, nor the last one.
Deletable(by, u) ==
  /\ u # by
  /\ u \notin leader
  /\ Members(org[u]) # {u}

\* DELETE /api/admin/broadcasters/:id: the sessions go, then the row, unless
\* another row names the account: then the second statement fails.
DeleteBroadcaster(by, u) ==
  /\ org[u] # None /\ Manages(by, org[u])
  /\ Deletable(by, u)
  /\ session' = session \ {u}
  /\ Erase(IF Referenced(u) THEN {} ELSE {u})
  /\ UNCHANGED <<orgs, invite, app, pendingLogo, founded>>

\* (defect: the invites of the organization stay)
InvitesAfterKept(o) == invite

InvitesAfter(o) ==
  [i \in Invites |-> IF invite[i] # None /\ invite[i].org = o THEN None ELSE invite[i]]

\* _deleteOrgRowsTx, when a requested deletion is executed; the applications stay.
DeleteOrg(o) ==
  /\ o \in orgs
  /\ orgs' = orgs \ {o}
  /\ Erase(Members(o))
  /\ session' = session \ Members(o)
  /\ invite' = InvitesAfter(o)
  /\ pendingLogo' = [pendingLogo EXCEPT ![o] = None]
  /\ founded' = founded \ {o}
  /\ UNCHANGED app

SignIn(u) ==
  /\ org[u] # None
  /\ session' = session \cup {u}
  /\ UNCHANGED <<orgs, account, invite, app, pendingLogo, founded>>

SignOut(u) ==
  /\ session' = session \ {u}
  /\ UNCHANGED <<orgs, account, invite, app, pendingLogo, founded>>

\* A logo is submitted, or decided on or withdrawn (the files are not modelled).
SubmitLogo(by, o) ==
  /\ o \in orgs /\ Brands(by, o)
  /\ pendingLogo' = [pendingLogo EXCEPT ![o] = by]
  /\ UNCHANGED <<orgs, account, session, invite, app, founded>>

SettleLogo(o) ==
  /\ pendingLogo[o] # None
  /\ pendingLogo' = [pendingLogo EXCEPT ![o] = None]
  /\ UNCHANGED <<orgs, account, session, invite, app, founded>>

Next ==
  \/ \E p \in Apps :
       \/ Apply(p) \/ Approve(p) \/ Decline(p) \/ LinkExpires(p)
       \/ \E u \in Accounts : Setup(p, u)
  \/ \E i \in Invites :
       \/ InviteAges(i)
       \/ \E u \in Accounts : Consume(i, u)
       \/ \E by \in Accounts \cup {Root}, o \in Slugs, isShared \in BOOLEAN :
            Invite(i, by, o, isShared)
  \/ \E u \in Accounts :
       \/ SignIn(u) \/ SignOut(u)
       \/ \E by \in Accounts \cup {Root} :
            \/ DeleteBroadcaster(by, u)
            \/ \E o \in Slugs : Transfer(by, o, u)
  \/ \E o \in Slugs :
       \/ CreateOrg(o) \/ DeleteOrg(o) \/ SettleLogo(o)
       \/ \E to \in Accounts : ForceLeader(o, to)
       \/ \E by \in Accounts \cup {Root} : SubmitLogo(by, o)

Spec == Init /\ [][Next]_vars

-----------------------------------------------------------------------------
(* Properties *)

\* Every variable has its type.
TypeOK ==
  /\ orgs \subseteq Slugs
  /\ org \in [Accounts -> Slugs \cup {None}]
  /\ shared \subseteq Accounts /\ leader \subseteq Accounts
  /\ session \subseteq Accounts
  /\ invite \in [Invites -> InviteRecord \cup {None}]
  /\ app \in [Apps -> AppRecord \cup {None}]
  /\ pendingLogo \in [Slugs -> Accounts \cup {Root, None}]
  /\ founded \subseteq Slugs

\* No row names a row that is gone: accounts and invites are of organizations
\* that exist, sessions, invites and pending logos of accounts that exist
\* (the foreign keys; the order of the deletes in _deleteOrgRowsTx).
NoDanglingRow ==
  /\ \A u \in Accounts : org[u] # None => org[u] \in orgs
  /\ \A u \in session \cup shared \cup leader : org[u] # None
  /\ \A i \in Invites : invite[i] # None =>
       invite[i].org \in orgs /\ (invite[i].by # Root => org[invite[i].by] = invite[i].org)
  /\ \A o \in Slugs : pendingLogo[o] # None =>
       o \in orgs /\ (pendingLogo[o] # Root => org[pendingLogo[o]] = o)

\* An organization has at most one leader, who is not its shared account.
OneLeader ==
  /\ \A u, v \in leader : org[u] = org[v] => u = v
  /\ leader \cap shared = {}

\* The shared account of an organization is given out once: an invite for it
\* that still works finds neither the account nor another such invite
\* (createBroadcasterInvite checks both when it is made).
SharedOnce ==
  \A i \in Invites :
    (invite[i] # None /\ invite[i].shared /\ invite[i].state = "live") =>
      /\ SharedAccounts(invite[i].org) = {}
      /\ \A j \in Invites : (invite[j] # None /\ invite[j].shared) =>
           (invite[j].org = invite[i].org /\ invite[j].state = "live" => j = i)

\* An organization that was set up by an applicant is led by somebody.
FoundedLed == founded \subseteq orgs /\ \A o \in founded : Leaders(o) # {}

\* The inductive invariant.
IInv == TypeOK /\ NoDanglingRow /\ OneLeader /\ SharedOnce /\ FoundedLed

\* An organization that has a leader, or has members, keeps one as long as it
\* is there, whatever transfers and deletions do (auth.js deleteBroadcaster:
\* "keep at least one broadcaster per org so the org isn't orphaned").
LeadershipKept ==
  [][\A o \in orgs \cap orgs' :
       /\ Leaders(o) # {} => Leaders(o)' # {}
       /\ Members(o) # {} => Members(o)' # {}]_vars
=============================================================================
