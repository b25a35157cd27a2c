----------------------------- MODULE LoginProofs -----------------------------
(***************************************************************************)
(* Proofs about Login: the inductive invariant IInv, one lemma per part    *)
(* with one step per action, and the properties it implies.                *)
(***************************************************************************)
EXTENDS Login, TLAPS

\* Every step keeps the types.
LEMMA TypeOKStep ==
  ASSUME TypeOK, [Next]_vars
  PROVE  TypeOK'
<1> USE LoginAssumption DEF TypeOK, SessionRecord, PendingRecord
<1>1. ASSUME Tick PROVE TypeOK'
  BY <1>1 DEF account, Tick
<1>2. ASSUME Restart PROVE TypeOK'
  BY <1>2 DEF account, Restart
<1>3. ASSUME NEW l \in LoginTokens, AbandonLogin(l) PROVE TypeOK'
  BY <1>3 DEF account, AbandonLogin
<1>4. ASSUME NEW u \in Users, AdminReset(u) PROVE TypeOK'
  BY <1>4 DEF account, AdminReset, ResetPassword, SessionOf
<1>5. ASSUME NEW u \in Users, AdminDisableTotp(u) PROVE TypeOK'
  BY <1>5 DEF account, AdminDisableTotp, EraseTotp
<1>6. ASSUME NEW u \in Users, NEW l \in LoginTokens, LoginStage1(u, l) PROVE TypeOK'
  BY <1>6 DEF account, LoginStage1
<1>7. ASSUME NEW u \in Users, NEW l \in LoginTokens, NEW s \in SessionIds, NEW t \in Steps, LoginCode(l, u, s, t) PROVE TypeOK'
  BY <1>7 DEF account, LoginCode, Stage2, OpenSession, MarkFirstLogin, PendingAlive, CodeWindow, Steps, ClaimOk, Spend
<1>8. ASSUME NEW u \in Users, NEW l \in LoginTokens, NEW s \in SessionIds, NEW c \in BackupCodes, LoginBackup(l, u, s, c) PROVE TypeOK'
  BY <1>8 DEF account, LoginBackup, Stage2, OpenSession, MarkFirstLogin, PendingAlive, TakeBackup, Spend
<1>9. ASSUME NEW s \in SessionIds, Logout(s) PROVE TypeOK'
  BY <1>9 DEF account, Logout
<1>10. ASSUME NEW s \in SessionIds, SessionExpires(s) PROVE TypeOK'
  BY <1>10 DEF account, SessionExpires
<1>11. ASSUME NEW s \in SessionIds, NEW u \in Users, LoginPassword(u, s) PROVE TypeOK'
  BY <1>11 DEF account, LoginPassword, OpenSession, MarkFirstLogin
<1>12. ASSUME NEW s \in SessionIds, NEW u \in Users, ChangePassword(s, u) PROVE TypeOK'
  BY <1>12 DEF account, ChangePassword, NewPassword, SessionOf
<1>13. ASSUME NEW s \in SessionIds, NEW u \in Users, EnableTotp(s, u) PROVE TypeOK'
  BY <1>13 DEF account, EnableTotp, Authorized, SessionOf, MayEnrol
<1>14. ASSUME NEW s \in SessionIds, NEW u \in Users, NEW t \in Steps, DisableTotp(s, u, t) PROVE TypeOK'
  BY <1>14 DEF account, DisableTotp, Authorized, SessionOf, CodeWindow, Steps, ClaimOk, Spend
<1>15. CASE UNCHANGED vars
  BY <1>15 DEF vars, account
<1> QED
  BY <1>1, <1>2, <1>3, <1>4, <1>5, <1>6, <1>7, <1>8, <1>9, <1>10, <1>11, <1>12, <1>13, <1>14, <1>15 DEF Next

\* An accepted second factor stays out while the enrolment lasts.
LEMMA SpentIsOutStep ==
  ASSUME TypeOK, SpentIsOut, [Next]_vars
  PROVE  SpentIsOut'
<1> USE LoginAssumption DEF TypeOK, SpentIsOut
<1>1. ASSUME Tick PROVE SpentIsOut'
  BY <1>1 DEF account, Tick
<1>2. ASSUME Restart PROVE SpentIsOut'
  BY <1>2 DEF account, Restart
<1>3. ASSUME NEW l \in LoginTokens, AbandonLogin(l) PROVE SpentIsOut'
  BY <1>3 DEF account, AbandonLogin
<1>4. ASSUME NEW u \in Users, AdminReset(u) PROVE SpentIsOut'
  BY <1>4 DEF account, AdminReset, ResetPassword, SessionOf
<1>5. ASSUME NEW u \in Users, AdminDisableTotp(u) PROVE SpentIsOut'
  BY <1>5 DEF account, AdminDisableTotp, EraseTotp
<1>6. ASSUME NEW u \in Users, NEW l \in LoginTokens, LoginStage1(u, l) PROVE SpentIsOut'
  BY <1>6 DEF account, LoginStage1
<1>7. ASSUME NEW u \in Users, NEW l \in LoginTokens, NEW s \in SessionIds, NEW t \in Steps, LoginCode(l, u, s, t) PROVE SpentIsOut'
  BY <1>7 DEF account, LoginCode, Stage2, OpenSession, MarkFirstLogin, PendingAlive, CodeWindow, Steps, ClaimOk, Spend
<1>8. ASSUME NEW u \in Users, NEW l \in LoginTokens, NEW s \in SessionIds, NEW c \in BackupCodes, LoginBackup(l, u, s, c) PROVE SpentIsOut'
  BY <1>8 DEF account, LoginBackup, Stage2, OpenSession, MarkFirstLogin, PendingAlive, TakeBackup, Spend
<1>9. ASSUME NEW s \in SessionIds, Logout(s) PROVE SpentIsOut'
  BY <1>9 DEF account, Logout
<1>10. ASSUME NEW s \in SessionIds, SessionExpires(s) PROVE SpentIsOut'
  BY <1>10 DEF account, SessionExpires
<1>11. ASSUME NEW s \in SessionIds, NEW u \in Users, LoginPassword(u, s) PROVE SpentIsOut'
  BY <1>11 DEF account, LoginPassword, OpenSession, MarkFirstLogin
<1>12. ASSUME NEW s \in SessionIds, NEW u \in Users, ChangePassword(s, u) PROVE SpentIsOut'
  BY <1>12 DEF account, ChangePassword, NewPassword, SessionOf
<1>13. ASSUME NEW s \in SessionIds, NEW u \in Users, EnableTotp(s, u) PROVE SpentIsOut'
  BY <1>13 DEF account, EnableTotp, Authorized, SessionOf, MayEnrol
<1>14. ASSUME NEW s \in SessionIds, NEW u \in Users, NEW t \in Steps, DisableTotp(s, u, t) PROVE SpentIsOut'
  BY <1>14 DEF account, DisableTotp, Authorized, SessionOf, CodeWindow, Steps, ClaimOk, Spend
<1>15. CASE UNCHANGED vars
  BY <1>15 DEF vars, account
<1> QED
  BY <1>1, <1>2, <1>3, <1>4, <1>5, <1>6, <1>7, <1>8, <1>9, <1>10, <1>11, <1>12, <1>13, <1>14, <1>15 DEF Next

\* A pending login stays bounded by the reset it may outlive.
LEMMA PendingBoundedStep ==
  ASSUME TypeOK, HistoryPast, PendingBounded, [Next]_vars
  PROVE  PendingBounded'
<1> USE LoginAssumption DEF TypeOK, HistoryPast, PendingBounded, PendingRecord
<1>1. ASSUME Tick PROVE PendingBounded'
  BY <1>1 DEF account, Tick
<1>2. ASSUME Restart PROVE PendingBounded'
  BY <1>2 DEF account, Restart
<1>3. ASSUME NEW l \in LoginTokens, AbandonLogin(l) PROVE PendingBounded'
  BY <1>3 DEF account, AbandonLogin
<1>4. ASSUME NEW u \in Users, AdminReset(u) PROVE PendingBounded'
  BY <1>4 DEF account, AdminReset, ResetPassword, SessionOf
<1>5. ASSUME NEW u \in Users, AdminDisableTotp(u) PROVE PendingBounded'
  BY <1>5 DEF account, AdminDisableTotp, EraseTotp
<1>6. ASSUME NEW u \in Users, NEW l \in LoginTokens, LoginStage1(u, l) PROVE PendingBounded'
  BY <1>6 DEF account, LoginStage1
<1>7. ASSUME NEW u \in Users, NEW l \in LoginTokens, NEW s \in SessionIds, NEW t \in Steps, LoginCode(l, u, s, t) PROVE PendingBounded'
  BY <1>7 DEF account, LoginCode, Stage2, OpenSession, MarkFirstLogin, PendingAlive, CodeWindow, Steps, ClaimOk, Spend
<1>8. ASSUME NEW u \in Users, NEW l \in LoginTokens, NEW s \in SessionIds, NEW c \in BackupCodes, LoginBackup(l, u, s, c) PROVE PendingBounded'
  BY <1>8 DEF account, LoginBackup, Stage2, OpenSession, MarkFirstLogin, PendingAlive, TakeBackup, Spend
<1>9. ASSUME NEW s \in SessionIds, Logout(s) PROVE PendingBounded'
  BY <1>9 DEF account, Logout
<1>10. ASSUME NEW s \in SessionIds, SessionExpires(s) PROVE PendingBounded'
  BY <1>10 DEF account, SessionExpires
<1>11. ASSUME NEW s \in SessionIds, NEW u \in Users, LoginPassword(u, s) PROVE PendingBounded'
  BY <1>11 DEF account, LoginPassword, OpenSession, MarkFirstLogin
<1>12. ASSUME NEW s \in SessionIds, NEW u \in Users, ChangePassword(s, u) PROVE PendingBounded'
  BY <1>12 DEF account, ChangePassword, NewPassword, SessionOf
<1>13. ASSUME NEW s \in SessionIds, NEW u \in Users, EnableTotp(s, u) PROVE PendingBounded'
  BY <1>13 DEF account, EnableTotp, Authorized, SessionOf, MayEnrol
<1>14. ASSUME NEW s \in SessionIds, NEW u \in Users, NEW t \in Steps, DisableTotp(s, u, t) PROVE PendingBounded'
  BY <1>14 DEF account, DisableTotp, Authorized, SessionOf, CodeWindow, Steps, ClaimOk, Spend
<1>15. CASE UNCHANGED vars
  BY <1>15 DEF vars, account
<1> QED
  BY <1>1, <1>2, <1>3, <1>4, <1>5, <1>6, <1>7, <1>8, <1>9, <1>10, <1>11, <1>12, <1>13, <1>14, <1>15 DEF Next

\* History stays of the past.
LEMMA HistoryPastStep ==
  ASSUME TypeOK, HistoryPast, [Next]_vars
  PROVE  HistoryPast'
<1> USE LoginAssumption DEF TypeOK, HistoryPast, SessionRecord, PendingRecord
<1>1. ASSUME Tick PROVE HistoryPast'
  BY <1>1 DEF account, Tick
<1>2. ASSUME Restart PROVE HistoryPast'
  BY <1>2 DEF account, Restart
<1>3. ASSUME NEW l \in LoginTokens, AbandonLogin(l) PROVE HistoryPast'
  BY <1>3 DEF account, AbandonLogin
<1>4. ASSUME NEW u \in Users, AdminReset(u) PROVE HistoryPast'
  BY <1>4 DEF account, AdminReset, ResetPassword, SessionOf
<1>5. ASSUME NEW u \in Users, AdminDisableTotp(u) PROVE HistoryPast'
  BY <1>5 DEF account, AdminDisableTotp, EraseTotp
<1>6. ASSUME NEW u \in Users, NEW l \in LoginTokens, LoginStage1(u, l) PROVE HistoryPast'
  BY <1>6 DEF account, LoginStage1
<1>7. ASSUME NEW u \in Users, NEW l \in LoginTokens, NEW s \in SessionIds, NEW t \in Steps, LoginCode(l, u, s, t) PROVE HistoryPast'
  BY <1>7 DEF account, LoginCode, Stage2, OpenSession, MarkFirstLogin, PendingAlive, CodeWindow, Steps, ClaimOk, Spend
<1>8. ASSUME NEW u \in Users, NEW l \in LoginTokens, NEW s \in SessionIds, NEW c \in BackupCodes, LoginBackup(l, u, s, c) PROVE HistoryPast'
  BY <1>8 DEF account, LoginBackup, Stage2, OpenSession, MarkFirstLogin, PendingAlive, TakeBackup, Spend
<1>9. ASSUME NEW s \in SessionIds, Logout(s) PROVE HistoryPast'
  BY <1>9 DEF account, Logout
<1>10. ASSUME NEW s \in SessionIds, SessionExpires(s) PROVE HistoryPast'
  BY <1>10 DEF account, SessionExpires
<1>11. ASSUME NEW s \in SessionIds, NEW u \in Users, LoginPassword(u, s) PROVE HistoryPast'
  BY <1>11 DEF account, LoginPassword, OpenSession, MarkFirstLogin
<1>12. ASSUME NEW s \in SessionIds, NEW u \in Users, ChangePassword(s, u) PROVE HistoryPast'
  BY <1>12 DEF account, ChangePassword, NewPassword, SessionOf
<1>13. ASSUME NEW s \in SessionIds, NEW u \in Users, EnableTotp(s, u) PROVE HistoryPast'
  BY <1>13 DEF account, EnableTotp, Authorized, SessionOf, MayEnrol
<1>14. ASSUME NEW s \in SessionIds, NEW u \in Users, NEW t \in Steps, DisableTotp(s, u, t) PROVE HistoryPast'
  BY <1>14 DEF account, DisableTotp, Authorized, SessionOf, CodeWindow, Steps, ClaimOk, Spend
<1>15. CASE UNCHANGED vars
  BY <1>15 DEF vars, account
<1> QED
  BY <1>1, <1>2, <1>3, <1>4, <1>5, <1>6, <1>7, <1>8, <1>9, <1>10, <1>11, <1>12, <1>13, <1>14, <1>15 DEF Next

\* No login leaves the grace clock unset.
LEMMA GraceClockRunsStep ==
  ASSUME TypeOK, HistoryPast, GraceClockRuns, [Next]_vars
  PROVE  GraceClockRuns'
<1> USE LoginAssumption DEF TypeOK, HistoryPast, GraceClockRuns, SessionOf, SessionRecord, PendingRecord
<1>1. ASSUME Tick PROVE GraceClockRuns'
  BY <1>1 DEF account, Tick
<1>2. ASSUME Restart PROVE GraceClockRuns'
  BY <1>2 DEF account, Restart
<1>3. ASSUME NEW l \in LoginTokens, AbandonLogin(l) PROVE GraceClockRuns'
  BY <1>3 DEF account, AbandonLogin
<1>4. ASSUME NEW u \in Users, AdminReset(u) PROVE GraceClockRuns'
  BY <1>4 DEF account, AdminReset, ResetPassword
<1>5. ASSUME NEW u \in Users, AdminDisableTotp(u) PROVE GraceClockRuns'
  BY <1>5 DEF account, AdminDisableTotp, EraseTotp
<1>6. ASSUME NEW u \in Users, NEW l \in LoginTokens, LoginStage1(u, l) PROVE GraceClockRuns'
  BY <1>6 DEF account, LoginStage1
<1>7. ASSUME NEW u \in Users, NEW l \in LoginTokens, NEW s \in SessionIds, NEW t \in Steps, LoginCode(l, u, s, t) PROVE GraceClockRuns'
  BY <1>7 DEF account, LoginCode, Stage2, OpenSession, MarkFirstLogin, PendingAlive, CodeWindow, Steps, ClaimOk, Spend
<1>8. ASSUME NEW u \in Users, NEW l \in LoginTokens, NEW s \in SessionIds, NEW c \in BackupCodes, LoginBackup(l, u, s, c) PROVE GraceClockRuns'
  BY <1>8 DEF account, LoginBackup, Stage2, OpenSession, MarkFirstLogin, PendingAlive, TakeBackup, Spend
<1>9. ASSUME NEW s \in SessionIds, Logout(s) PROVE GraceClockRuns'
  BY <1>9 DEF account, Logout
<1>10. ASSUME NEW s \in SessionIds, SessionExpires(s) PROVE GraceClockRuns'
  BY <1>10 DEF account, SessionExpires
<1>11. ASSUME NEW s \in SessionIds, NEW u \in Users, LoginPassword(u, s) PROVE GraceClockRuns'
  BY <1>11 DEF account, LoginPassword, OpenSession, MarkFirstLogin
<1>12. ASSUME NEW s \in SessionIds, NEW u \in Users, ChangePassword(s, u) PROVE GraceClockRuns'
  BY <1>12 DEF account, ChangePassword, NewPassword
<1>13. ASSUME NEW s \in SessionIds, NEW u \in Users, EnableTotp(s, u) PROVE GraceClockRuns'
  BY <1>13 DEF account, EnableTotp, Authorized, MayEnrol
<1>14. ASSUME NEW s \in SessionIds, NEW u \in Users, NEW t \in Steps, DisableTotp(s, u, t) PROVE GraceClockRuns'
  BY <1>14 DEF account, DisableTotp, Authorized, CodeWindow, Steps, ClaimOk, Spend
<1>15. CASE UNCHANGED vars
  BY <1>15 DEF vars, account
<1> QED
  BY <1>1, <1>2, <1>3, <1>4, <1>5, <1>6, <1>7, <1>8, <1>9, <1>10, <1>11, <1>12, <1>13, <1>14, <1>15 DEF Next

\* A session on an old password is of the window after the reset.
LEMMA StaleLoginWindowStep ==
  ASSUME TypeOK, HistoryPast, PendingBounded, StaleLoginWindow, [Next]_vars
  PROVE  StaleLoginWindow'
<1> USE LoginAssumption DEF TypeOK, HistoryPast, PendingBounded, StaleLoginWindow, SessionOf, SessionRecord, PendingRecord
<1>1. ASSUME Tick PROVE StaleLoginWindow'
  BY <1>1 DEF account, Tick
<1>2. ASSUME Restart PROVE StaleLoginWindow'
  BY <1>2 DEF account, Restart
<1>3. ASSUME NEW l \in LoginTokens, AbandonLogin(l) PROVE StaleLoginWindow'
  BY <1>3 DEF account, AbandonLogin
<1>4. ASSUME NEW u \in Users, AdminReset(u) PROVE StaleLoginWindow'
  BY <1>4 DEF account, AdminReset, ResetPassword
<1>5. ASSUME NEW u \in Users, AdminDisableTotp(u) PROVE StaleLoginWindow'
  BY <1>5 DEF account, AdminDisableTotp, EraseTotp
<1>6. ASSUME NEW u \in Users, NEW l \in LoginTokens, LoginStage1(u, l) PROVE StaleLoginWindow'
  BY <1>6 DEF account, LoginStage1
<1>7. ASSUME NEW u \in Users, NEW l \in LoginTokens, NEW s \in SessionIds, NEW t \in Steps, LoginCode(l, u, s, t) PROVE StaleLoginWindow'
  BY SMTT(40), <1>7 DEF account, LoginCode, Stage2, OpenSession, MarkFirstLogin, PendingAlive, CodeWindow, Steps, ClaimOk, Spend
<1>8. ASSUME NEW u \in Users, NEW l \in LoginTokens, NEW s \in SessionIds, NEW c \in BackupCodes, LoginBackup(l, u, s, c) PROVE StaleLoginWindow'
  BY <1>8 DEF account, LoginBackup, Stage2, OpenSession, MarkFirstLogin, PendingAlive, TakeBackup, Spend
<1>9. ASSUME NEW s \in SessionIds, Logout(s) PROVE StaleLoginWindow'
  BY <1>9 DEF account, Logout
<1>10. ASSUME NEW s \in SessionIds, SessionExpires(s) PROVE StaleLoginWindow'
  BY <1>10 DEF account, SessionExpires
<1>11. ASSUME NEW s \in SessionIds, NEW u \in Users, LoginPassword(u, s) PROVE StaleLoginWindow'
  BY <1>11 DEF account, LoginPassword, OpenSession, MarkFirstLogin
<1>12. ASSUME NEW s \in SessionIds, NEW u \in Users, ChangePassword(s, u) PROVE StaleLoginWindow'
  BY <1>12 DEF account, ChangePassword, NewPassword
<1>13. ASSUME NEW s \in SessionIds, NEW u \in Users, EnableTotp(s, u) PROVE StaleLoginWindow'
  BY <1>13 DEF account, EnableTotp, Authorized, MayEnrol
<1>14. ASSUME NEW s \in SessionIds, NEW u \in Users, NEW t \in Steps, DisableTotp(s, u, t) PROVE StaleLoginWindow'
  BY <1>14 DEF account, DisableTotp, Authorized, CodeWindow, Steps, ClaimOk, Spend
<1>15. CASE UNCHANGED vars
  BY <1>15 DEF vars, account
<1> QED
  BY <1>1, <1>2, <1>3, <1>4, <1>5, <1>6, <1>7, <1>8, <1>9, <1>10, <1>11, <1>12, <1>13, <1>14, <1>15 DEF Next

\* The invariant holds initially.
LEMMA InitIInv == Init => IInv
<1> SUFFICES ASSUME Init PROVE IInv
  OBVIOUS
<1>1. TypeOK
  BY LoginAssumption DEF Init, TypeOK
<1>2. SpentIsOut
  BY DEF Init, SpentIsOut
<1>3. PendingBounded
  BY DEF Init, PendingBounded
<1>4. HistoryPast
  BY DEF Init, HistoryPast
<1>5. GraceClockRuns
  BY DEF Init, GraceClockRuns, SessionOf
<1>6. StaleLoginWindow
  BY DEF Init, StaleLoginWindow, SessionOf
<1> QED
  BY <1>1, <1>2, <1>3, <1>4, <1>5, <1>6 DEF IInv

\* The invariant is inductive.
LEMMA NextIInv == IInv /\ [Next]_vars => IInv'
  BY TypeOKStep, SpentIsOutStep, PendingBoundedStep, HistoryPastStep,
     GraceClockRunsStep, StaleLoginWindowStep DEF IInv

-----------------------------------------------------------------------------
\* The inductive invariant holds in every reachable state, for any accounts,
\* sessions and lifetimes.
THEOREM LoginInvariant == Spec => []IInv
  BY InitIInv, NextIInv, PTL DEF Spec

\* What is accepted was not accepted before.
LEMMA ReplayStep ==
  ASSUME IInv, SecondFactorOnce, [Next]_vars
  PROVE  SecondFactorOnce'
<1> USE LoginAssumption DEF SecondFactorOnce
<1>1. ASSUME NEW u \in Users, NEW l \in LoginTokens, NEW s \in SessionIds, NEW t \in Steps,
             LoginCode(l, u, s, t)
      PROVE  SecondFactorOnce'
  BY <1>1 DEF IInv, TypeOK, SpentIsOut, LoginCode, Stage2, ClaimOk, CodeWindow, Steps, Spend
<1>2. ASSUME NEW u \in Users, NEW l \in LoginTokens, NEW s \in SessionIds, NEW c \in BackupCodes,
             LoginBackup(l, u, s, c)
      PROVE  SecondFactorOnce'
  BY <1>2 DEF IInv, TypeOK, SpentIsOut, LoginBackup, Stage2, Spend
<1>3. ASSUME NEW s \in SessionIds, NEW u \in Users, NEW t \in Steps, DisableTotp(s, u, t)
      PROVE  SecondFactorOnce'
  BY <1>3 DEF IInv, TypeOK, SpentIsOut, DisableTotp, ClaimOk, CodeWindow, Steps, Spend
<1>4. ASSUME UNCHANGED replayed PROVE SecondFactorOnce'
  BY <1>4
<1> QED
  BY <1>1, <1>2, <1>3, <1>4 DEF Next, vars, Tick, Restart, AbandonLogin, AdminReset, ResetPassword,
     AdminDisableTotp, EraseTotp, LoginStage1, Logout, SessionExpires, LoginPassword, ChangePassword, NewPassword,
     EnableTotp

\* No code and no backup code of an enrolment is accepted twice.
THEOREM NoReplay == Spec => []SecondFactorOnce
<1>1. Init => SecondFactorOnce
  BY DEF Init, SecondFactorOnce
<1> QED
  BY <1>1, ReplayStep, LoginInvariant, PTL DEF Spec

\* A login that outlives a reset does so by the life of a pending login at most.
THEOREM StaleLoginsEnd == Spec => []StaleLoginWindow
<1>1. IInv => StaleLoginWindow
  BY DEF IInv
<1> QED
  BY <1>1, LoginInvariant, PTL

\* Time runs on, first_login_at stays, and TOTP is enabled in one way only.
LEMMA GraceStep ==
  ASSUME TypeOK, HistoryPast, [Next]_vars, NEW v \in Users, GraceExpired(v), ~GraceExpired(v)'
  PROVE  totp'[v] /\ ~mustChange[v] /\ \E s \in SessionIds : SessionOf(s, v)
<1> USE LoginAssumption DEF TypeOK, GraceExpired
<1>1. ASSUME NEW s \in SessionIds, NEW u \in Users, EnableTotp(s, u)
      PROVE  totp'[v] /\ ~mustChange[v] /\ \E x \in SessionIds : SessionOf(x, v)
  BY <1>1 DEF EnableTotp, Authorized
<1>2. ASSUME now' \in Nat, now' >= now, ~totp'[v], firstLogin'[v] = firstLogin[v] PROVE FALSE
  BY <1>2
<1>3. ASSUME NEW u \in Users, MarkFirstLogin(u) PROVE firstLogin'[v] = firstLogin[v]
  BY <1>3 DEF MarkFirstLogin
<1>4. ASSUME NEW u \in Users, NEW s \in SessionIds, LoginPassword(u, s) PROVE FALSE
  BY <1>2, <1>3, <1>4 DEF LoginPassword
<1>5. ASSUME NEW u \in Users, NEW l \in LoginTokens, NEW s \in SessionIds, Stage2(l, u, s) PROVE FALSE
  BY <1>2, <1>3, <1>5 DEF Stage2
<1>6. ASSUME NEW s \in SessionIds, NEW u \in Users, NEW t \in Steps, DisableTotp(s, u, t) PROVE FALSE
  BY <1>2, <1>6 DEF DisableTotp
<1>7. ASSUME NEW u \in Users, AdminDisableTotp(u) PROVE FALSE
  BY <1>2, <1>7 DEF AdminDisableTotp, EraseTotp
<1>8. CASE Tick
  BY <1>2, <1>8 DEF Tick, account
<1>9. CASE UNCHANGED <<now, totp, firstLogin>>
  BY <1>2, <1>9
<1> QED
  BY <1>1, <1>4, <1>5, <1>6, <1>7, <1>8, <1>9
     DEF Next, vars, account, Restart, AbandonLogin, AdminReset, ResetPassword, LoginStage1,
         LoginCode, LoginBackup, Logout, SessionExpires, ChangePassword, NewPassword

\* Whoever the grace blocks stays blocked until an enrolment, which a forced change
\* of the password comes before, for any accounts, sessions and lengths of the grace.
THEOREM GraceDeadlineStands == Spec => GraceBlockStands
<1>1. IInv /\ [Next]_vars =>
        [\A u \in Users : GraceExpired(u) /\ ~GraceExpired(u)' =>
           totp'[u] /\ ~mustChange[u] /\ \E s \in SessionIds : SessionOf(s, u)]_vars
  BY GraceStep DEF IInv
<1> QED
  BY <1>1, LoginInvariant, PTL DEF Spec, GraceBlockStands
=============================================================================
