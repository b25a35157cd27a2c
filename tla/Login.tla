-------------------------------- MODULE Login --------------------------------
(***************************************************************************)
(* Broadcaster accounts: password login, the two-stage login of accounts   *)
(* with TOTP, sessions, password changes, and the superadmin's emergency   *)
(* actions (server/auth.js and the routes of server/index.js 662-846).     *)
(*                                                                         *)
(* Every handler is synchronous between two rows of the database, so each  *)
(* is one action.  What interleaves is the two stages of a login with      *)
(* everything else: the first stage leaves a token in memory that is good  *)
(* for five minutes, whatever happens to the account in between.           *)
(*                                                                         *)
(* `now' counts TOTP time steps.  A password is the number of times the    *)
(* password of the account was set.  Enabling TOTP uses a fresh secret, so  *)
(* the codes of one enrolment mean nothing in the next.  Wrong passwords   *)
(* and codes change nothing but the pending login they consume.            *)
(***************************************************************************)
EXTENDS Integers

CONSTANTS
  Users,         \* broadcaster accounts
  Shared,        \* accounts of account_type 'shared'
  Superadmins,   \* accounts with is_superadmin
  SessionIds,    \* session cookies that can be live at once
  LoginTokens,   \* pending two-stage logins that can exist at once
  BackupCodes,   \* backup codes of one enrolment
  None,
  PendingLife,   \* lifetime of a pending login, in time steps
  Window,        \* time steps a code is accepted early or late
  Grace,         \* time steps before TOTP becomes mandatory
  MaxTime,       \* bound on now
  MaxPasswords   \* account -> bound on its password changes

ASSUME LoginAssumption ==
  /\ Shared \subseteq Users /\ Superadmins \subseteq Users
  /\ {PendingLife, Window, Grace, MaxTime} \subseteq Nat
  /\ MaxPasswords \in [Users -> Nat]
  /\ None \notin Int /\ BackupCodes \cap Int = {}

VARIABLES
  now,         \* the current TOTP time step
  password,    \* account -> version of its password
  mustChange,  \* account -> must_change_password
  totp,        \* account -> totp_enabled
  lastStep,    \* account -> totp_last_step
  backup,      \* account -> backup codes left
  firstLogin,  \* account -> first_login_at
  session,     \* cookie -> None or [user, basis, at]; basis and at are history
  pending,     \* login token -> None or [user, basis, expires]; basis is history
  resetAt,     \* history: account -> None or [basis, at] of the last admin reset
  spent,       \* history: account -> second factors its enrolment has accepted
  replayed     \* history: a second factor was accepted twice

account == <<password, mustChange, totp, lastStep, backup, firstLogin>>
vars == <<now, account, session, pending, resetAt, spent, replayed>>

\* A code's time step: the client's clock may be Window steps ahead.
Steps == -Window..(MaxTime + Window)

Init ==
  /\ now = 0
  /\ password = [u \in Users |-> 0]
  /\ mustChange = [u \in Users |-> FALSE]
  /\ totp = [u \in Users |-> FALSE]
  /\ lastStep = [u \in Users |-> None]
  /\ backup = [u \in Users |-> {}]
  /\ firstLogin = [u \in Users |-> None]
  /\ session = [s \in SessionIds |-> None]
  /\ pending = [l \in LoginTokens |-> None]
  /\ resetAt = [u \in Users |-> None]
  /\ spent = [u \in Users |-> {}]
  /\ replayed = FALSE

-----------------------------------------------------------------------------
(* Helpers *)

\* getSession: the account behind a cookie.
SessionOf(s, u) == session[s] # None /\ session[s].user = u

\* broadcasterMiddleware: an outstanding forced change blocks every route
\* outside PW_CHANGE_ALLOWED_PATHS.
Authorized(s, u) == SessionOf(s, u) /\ ~mustChange[u]

\* rejectIfShared guards the password and the enrolment routes.
MayChangePassword(u) == u \notin Shared
MayEnrol(u) == u \notin Shared /\ ~totp[u]

\* The two-factor grace, shared by the HTTP middleware and the WebSocket gate.
GraceExpired(u) ==
  /\ u \notin Superadmins /\ u \notin Shared /\ ~totp[u]
  /\ firstLogin[u] # None
  /\ now - firstLogin[u] >= Grace

\* createSession, with the password the login rests on.
OpenSession(s, u, basis) ==
  /\ session[s] = None
  /\ session' = [session EXCEPT ![s] = [user |-> u, basis |-> basis, at |-> now]]

\* (defect: the grace clock does not start)
MarkFirstLoginSkipped(u) == UNCHANGED firstLogin

\* (defect: every login starts the grace clock anew)
MarkFirstLoginAgain(u) == firstLogin' = [firstLogin EXCEPT ![u] = now]

\* _markFirstLogin: the first login starts the grace clock.
MarkFirstLogin(u) ==
  firstLogin' = [firstLogin EXCEPT ![u] = IF @ = None THEN now ELSE @]

\* (defect: the age of a pending login is not looked at)
PendingAliveUnaged(l) == pending[l] # None

\* consumePendingTotpLogin: a token is good until it has been used or is too old.
PendingAlive(l) == pending[l] # None /\ pending[l].expires >= now

\* The codes verifyDelta accepts now.
CodeWindow == {t \in Steps : t - now \in -Window..Window}

\* (defect: the step last accepted is accepted again)
ClaimOkSameStep(u, t) == lastStep[u] # None => lastStep[u] <= t

\* claimTotpStep: only a step later than the last accepted one.
ClaimOk(u, t) == lastStep[u] # None => lastStep[u] < t

\* History: factor f of the current enrolment of u was accepted.
Spend(u, f) ==
  /\ spent' = [spent EXCEPT ![u] = @ \cup {f}]
  /\ replayed' = (replayed \/ f \in spent[u])

-----------------------------------------------------------------------------
(* Logging in *)

\* POST /api/broadcaster/login of an account without TOTP.
LoginPassword(u, s) ==
  /\ ~totp[u]
  /\ OpenSession(s, u, password[u])
  /\ MarkFirstLogin(u)
  /\ UNCHANGED <<now, password, mustChange, totp, lastStep, backup,
                 pending, resetAt, spent, replayed>>

\* The first stage for an account with TOTP: the password is right, a code is due.
LoginStage1(u, l) ==
  /\ totp[u]
  /\ pending[l] = None
  /\ pending' = [pending EXCEPT ![l] =
                   [user |-> u, basis |-> password[u], expires |-> now + PendingLife]]
  /\ UNCHANGED <<now, account, session, resetAt, spent, replayed>>

\* The second stage, common part: the token is consumed, the account still has
\* TOTP, a session opens.
Stage2(l, u, s) ==
  /\ PendingAlive(l)
  /\ pending[l].user = u
  /\ totp[u]
  /\ pending' = [pending EXCEPT ![l] = None]
  /\ OpenSession(s, u, pending[l].basis)
  /\ MarkFirstLogin(u)
  /\ UNCHANGED <<now, password, mustChange, totp, resetAt>>

\* POST /api/broadcaster/login-totp with a code of time step t.
LoginCode(l, u, s, t) ==
  /\ t \in CodeWindow /\ ClaimOk(u, t)
  /\ Stage2(l, u, s)
  /\ lastStep' = [lastStep EXCEPT ![u] = t]
  /\ Spend(u, t)
  /\ UNCHANGED backup

\* consumeBackupCode: the matching code leaves the list.
TakeBackup(u, c) == backup' = [backup EXCEPT ![u] = @ \ {c}]

\* POST /api/broadcaster/login-totp with a backup code.
LoginBackup(l, u, s, c) ==
  /\ c \in backup[u]
  /\ Stage2(l, u, s)
  /\ TakeBackup(u, c)
  /\ Spend(u, c)
  /\ UNCHANGED lastStep

\* A second stage that fails (wrong code, too old, TOTP gone) consumes the
\* token; so does the cleanup of expired tokens, once a minute.
AbandonLogin(l) ==
  /\ pending[l] # None
  /\ pending' = [pending EXCEPT ![l] = None]
  /\ UNCHANGED <<now, account, session, resetAt, spent, replayed>>

\* A restart loses the pending logins, which are kept in memory only.
Restart ==
  /\ \E l \in LoginTokens : pending[l] # None
  /\ pending' = [l \in LoginTokens |-> None]
  /\ UNCHANGED <<now, account, session, resetAt, spent, replayed>>

-----------------------------------------------------------------------------
(* With a session *)

Logout(s) ==
  /\ session[s] # None
  /\ session' = [session EXCEPT ![s] = None]
  /\ UNCHANGED <<now, account, pending, resetAt, spent, replayed>>

\* A session reaches expires_at: getSession refuses it, the hourly sweep deletes it.
SessionExpires(s) ==
  /\ session[s] # None
  /\ session[s].at < now
  /\ session' = [session EXCEPT ![s] = None]
  /\ UNCHANGED <<now, account, pending, resetAt, spent, replayed>>

\* changePassword: other sessions of the account stay.
NewPassword(u) ==
  /\ password[u] < MaxPasswords[u]
  /\ password' = [password EXCEPT ![u] = @ + 1]
  /\ mustChange' = [mustChange EXCEPT ![u] = FALSE]

\* POST /api/broadcaster/password
ChangePassword(s, u) ==
  /\ SessionOf(s, u)
  /\ MayChangePassword(u)
  /\ NewPassword(u)
  /\ UNCHANGED <<now, totp, lastStep, backup, firstLogin, session,
                 pending, resetAt, spent, replayed>>

\* POST /api/broadcaster/totp/enable with the secret the setup route made; the
\* code that confirms it is verified but not claimed.
EnableTotp(s, u) ==
  /\ Authorized(s, u)
  /\ MayEnrol(u)
  /\ totp' = [totp EXCEPT ![u] = TRUE]
  /\ backup' = [backup EXCEPT ![u] = BackupCodes]
  /\ spent' = [spent EXCEPT ![u] = {}]
  /\ UNCHANGED <<now, password, mustChange, lastStep, firstLogin, session,
                 pending, resetAt, replayed>>

\* POST /api/broadcaster/totp/disable: password, code, claim, then setTotpDisabled.
DisableTotp(s, u, t) ==
  /\ Authorized(s, u)
  /\ totp[u]
  /\ t \in CodeWindow /\ ClaimOk(u, t)
  /\ totp' = [totp EXCEPT ![u] = FALSE]
  /\ lastStep' = [lastStep EXCEPT ![u] = None]
  /\ backup' = [backup EXCEPT ![u] = {}]
  /\ Spend(u, t)
  /\ UNCHANGED <<now, password, mustChange, firstLogin, session,
                 pending, resetAt>>

\* adminResetPassword: a temporary password, a forced change, and the end of
\* every session; pending logins are left alone.
ResetPassword(u) ==
  /\ u \notin Superadmins
  /\ password[u] < MaxPasswords[u]
  /\ password' = [password EXCEPT ![u] = @ + 1]
  /\ mustChange' = [mustChange EXCEPT ![u] = TRUE]
  /\ session' = [x \in SessionIds |-> IF SessionOf(x, u) THEN None ELSE session[x]]
  /\ resetAt' = [resetAt EXCEPT ![u] = [basis |-> password[u] + 1, at |-> now]]

\* POST /api/admin/broadcasters/:id/reset-password: the superadmin who asks for it
\* is any, and need not be one of Users.
AdminReset(u) ==
  /\ ResetPassword(u)
  /\ UNCHANGED <<now, totp, lastStep, backup, firstLogin, pending,
                 spent, replayed>>

\* adminDisableTotp keeps totp_last_step and the sessions.
EraseTotp(u) ==
  /\ u \notin Superadmins
  /\ totp[u]
  /\ totp' = [totp EXCEPT ![u] = FALSE]
  /\ backup' = [backup EXCEPT ![u] = {}]

\* POST /api/admin/broadcasters/:id/disable-2fa
AdminDisableTotp(u) ==
  /\ EraseTotp(u)
  /\ UNCHANGED <<now, password, mustChange, lastStep, firstLogin,
                 session, pending, resetAt, spent, replayed>>

Tick ==
  /\ now < MaxTime
  /\ now' = now + 1
  /\ UNCHANGED <<account, session, pending, resetAt, spent, replayed>>

Next ==
  \/ Tick \/ Restart
  \/ \E l \in LoginTokens : AbandonLogin(l)
  \/ \E u \in Users : AdminReset(u) \/ AdminDisableTotp(u)
  \/ \E u \in Users, l \in LoginTokens :
       \/ LoginStage1(u, l)
       \/ \E s \in SessionIds : \/ \E t \in Steps : LoginCode(l, u, s, t)
                                \/ \E c \in BackupCodes : LoginBackup(l, u, s, c)
  \/ \E s \in SessionIds :
       \/ Logout(s) \/ SessionExpires(s)
       \/ \E u \in Users :
            \/ LoginPassword(u, s) \/ ChangePassword(s, u) \/ EnableTotp(s, u)
            \/ \E t \in Steps : DisableTotp(s, u, t)

Spec == Init /\ [][Next]_vars

-----------------------------------------------------------------------------
(* Properties *)

SessionRecord == [user : Users, basis : Nat, at : Nat]
PendingRecord == [user : Users, basis : Nat, expires : Nat]

\* Every variable has its type.
TypeOK ==
  /\ now \in Nat
  /\ password \in [Users -> Nat]
  /\ mustChange \in [Users -> BOOLEAN]
  /\ totp \in [Users -> BOOLEAN]
  /\ lastStep \in [Users -> Int \cup {None}]
  /\ backup \in [Users -> SUBSET BackupCodes]
  /\ firstLogin \in [Users -> Nat \cup {None}]
  /\ session \in [SessionIds -> SessionRecord \cup {None}]
  /\ pending \in [LoginTokens -> PendingRecord \cup {None}]
  /\ resetAt \in [Users -> [basis : Nat, at : Nat] \cup {None}]
  /\ spent \in [Users -> SUBSET (Int \cup BackupCodes)]
  /\ replayed \in BOOLEAN

\* A code or a backup code of an enrolment is accepted at most once, over all
\* logins and the disabling of TOTP (auth.js claimTotpStep, consumeBackupCode).
SecondFactorOnce == ~replayed

\* A session that rests on a password older than the last admin reset was
\* opened at most PendingLife after that reset: the reset ends the sessions and
\* the lifetime of a pending login bounds what it leaves open.
StaleLoginWindow ==
  \A s \in SessionIds : \A u \in Users :
    (SessionOf(s, u) /\ resetAt[u] # None) =>
       (session[s].basis < resetAt[u].basis => session[s].at <= resetAt[u].at + PendingLife)

\* The grace clock of an account with a session runs: no way of logging in
\* forgets to start it (_markFirstLogin after both stages).
GraceClockRuns ==
  \A s \in SessionIds : \A u \in Users :
    SessionOf(s, u) => firstLogin[u] # None /\ firstLogin[u] <= session[s].at

\* Every second factor the enrolment has accepted is out: a code's step is not
\* after totp_last_step, a backup code is off the list.
SpentIsOut ==
  \A u \in Users : totp[u] =>
    /\ \A t \in spent[u] \cap Int : lastStep[u] # None /\ t <= lastStep[u]
    /\ spent[u] \cap backup[u] = {}

\* What a pending login can outlive: its password is one the account has had,
\* and if an admin reset has replaced it, it dies with the window of the reset.
PendingBounded ==
  \A l \in LoginTokens : pending[l] # None =>
    LET p == pending[l] IN
    /\ p.basis <= password[p.user]
    /\ p.expires <= now + PendingLife
    /\ resetAt[p.user] # None =>
         (p.basis < resetAt[p.user].basis => p.expires <= resetAt[p.user].at + PendingLife)

\* History is of the past.
HistoryPast ==
  /\ \A s \in SessionIds : session[s] # None => session[s].at <= now
  /\ \A u \in Users : /\ resetAt[u] # None => resetAt[u].basis <= password[u]
                      /\ firstLogin[u] # None => firstLogin[u] <= now

\* The inductive invariant.
IInv ==
  /\ TypeOK /\ SpentIsOut /\ PendingBounded /\ HistoryPast
  /\ GraceClockRuns /\ StaleLoginWindow

\* The block of an expired grace ends only by an enrolment from a session of the
\* account, a forced change of the password coming first: no login, password change,
\* reset or end of TOTP moves the deadline (auth.js:243).
GraceBlockStands ==
  [][\A u \in Users : GraceExpired(u) /\ ~GraceExpired(u)' =>
       totp'[u] /\ ~mustChange[u] /\ \E s \in SessionIds : SessionOf(s, u)]_vars

\* Two things the comments of auth.js say and the code does not keep: no run checks
\* them, and TLC refutes both (see "Observations" in the README).

\* auth.js:131-132 and index.js:1801: a reset "forces a password change on next
\* login", so an account that must change its password is one that may.
ForcedChangeHasRemedy == \A u \in Users : mustChange[u] => MayChangePassword(u)

\* auth.js:143: after an admin reset "the temp password should be the ONLY way
\* back in": every session rests on a password no older than the reset.
ResetEndsOldLogins ==
  \A s \in SessionIds : \A u \in Users :
    (SessionOf(s, u) /\ resetAt[u] # None) => session[s].basis >= resetAt[u].basis
=============================================================================
