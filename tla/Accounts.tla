------------------------------ MODULE Accounts ------------------------------
(***************************************************************************)
(* The account of one person: registration, login and lockout, sessions,   *)
(* rotation of refresh tokens, change and reset of the password            *)
(* (apps/api/src/auth).                                                    *)
(*                                                                         *)
(* Hardly any of it is one transaction.  A login reads the account,        *)
(* verifies the password, clears the counter, creates the session and      *)
(* issues the first refresh token in five statements; a refresh reads the  *)
(* token, marks it rotated and creates the next one in three; the counter  *)
(* of failed logins is read and then written without a lock.  One-time     *)
(* tokens are read before the transaction that uses them.  A process may   *)
(* die between any two statements.                                         *)
(*                                                                         *)
(* Abstractions: a password is the number of changes before it; expiry of  *)
(* sessions and refresh tokens only refuses a call, which a call may always *)
(* meet (Deny); the change of a password, which touches the user, then the *)
(* sessions, then the refresh tokens, is atomic: what other calls write in *)
(* between, they may as well write before or after it.                     *)
(***************************************************************************)
EXTENDS Naturals, FiniteSets

CONSTANTS
  Sessions, NoSession,     \* ids of session rows, and none
  RefreshTokens, NoRefresh,
  OneTimeTokens, NoOneTime,\* rows of AuthToken: e-mail verification, password reset
  AuthCalls,               \* requests in progress
  LockoutThreshold,        \* failed logins that lock the account
  MaxRows,                 \* bound: sessions and refresh tokens together
  MaxFailures,             \* bound: the counter of failed logins
  MaxPasswords             \* bound: changes of the password

ASSUME AccountConstants ==
  /\ NoSession \notin Sessions /\ NoRefresh \notin RefreshTokens
  /\ NoOneTime \notin OneTimeTokens
  /\ LockoutThreshold \in Nat \ {0} /\ MaxRows \in Nat /\ MaxFailures \in Nat /\ MaxPasswords \in Nat

VARIABLES
  account,      \* the User row, or its absence
  session,      \* the Session rows
  refresh,      \* the RefreshToken rows
  oneTime,      \* the AuthToken rows
  authCall      \* requests in progress

accountVars == <<account, session, refresh, oneTime, authCall>>

\* failures counts the wrong passwords, recorded one at a time, since the counter
\* was last cleared or restarted or a lock ran out: history, like the fields of a
\* session but its state.
Account == [state    : {"NONE", "INVITED", "ACTIVE"},
            password : Nat,
            failed   : Nat,
            window   : BOOLEAN,       \* failedLoginWindowStartedAt is recent
            locked   : BOOLEAN,       \* lockedUntil is in the future
            failures : Nat]

Session == [state : {"NONE", "ACTIVE", "REVOKED"}, password : Nat,
            raced : BOOLEAN,          \* the password changed during the login
            forked : BOOLEAN]         \* two refreshes of it overlapped

Refresh == [state : {"NONE", "ACTIVE", "ROTATED", "REVOKED"}, session : Sessions \cup {NoSession}]

\* A token that is USED or EXPIRED is SPENT.
OneTime == [state : {"NONE", "ACTIVE", "SPENT"},
            purpose : {"NONE", "EMAIL_VERIFICATION", "PASSWORD_RESET"}]

AuthCall == [op : {"none", "login", "fail", "refresh", "reuse", "change", "confirm"},
             pc : {"idle", "read", "counted", "cleared", "written"},
             password : Nat, raced : BOOLEAN,
             failed : Nat, window : BOOLEAN, locked : BOOLEAN,
             session : Sessions \cup {NoSession}, token : RefreshTokens \cup {NoRefresh},
             oneTime : OneTimeTokens \cup {NoOneTime}]

AccountTypeOK ==
  /\ account \in Account
  /\ session \in [Sessions -> Session]
  /\ refresh \in [RefreshTokens -> Refresh]
  /\ oneTime \in [OneTimeTokens -> OneTime]
  /\ authCall \in [AuthCalls -> AuthCall]

NoAuthCall == [op |-> "none", pc |-> "idle", password |-> 0, raced |-> FALSE, failed |-> 0,
               window |-> FALSE, locked |-> FALSE, session |-> NoSession, token |-> NoRefresh,
               oneTime |-> NoOneTime]

\* A session that is over; what is recorded of it no longer matters.
Revoked == [state |-> "REVOKED", password |-> 0, raced |-> FALSE, forked |-> FALSE]

AccountInit ==
  /\ account = [state |-> "NONE", password |-> 0, failed |-> 0, window |-> FALSE, locked |-> FALSE,
                failures |-> 0]
  /\ session = [s \in Sessions |-> [state |-> "NONE", password |-> 0, raced |-> FALSE, forked |-> FALSE]]
  /\ refresh = [t \in RefreshTokens |-> [state |-> "NONE", session |-> NoSession]]
  /\ oneTime = [k \in OneTimeTokens |-> [state |-> "NONE", purpose |-> "NONE"]]
  /\ authCall = [c \in AuthCalls |-> NoAuthCall]

-----------------------------------------------------------------------------
OnAuth(c, op, pc) == authCall[c].op = op /\ authCall[c].pc = pc

Idle(c) == authCall[c].pc = "idle"

EndAuth(c) == authCall' = [authCall EXCEPT ![c] = NoAuthCall]

Cleared(a) == [a EXCEPT !.failed = 0, !.window = FALSE, !.locked = FALSE,
                        !.failures = 0]

\* A new row: whichever id is free.
Unused(rows) == {x \in DOMAIN rows : rows[x].state = "NONE"}

NewRow(rows) == CHOOSE x \in Unused(rows) : TRUE

Used(rows) == Cardinality((DOMAIN rows) \ Unused(rows))

RoomForARow == Used(session) + Used(refresh) < MaxRows

NewOneTime(purpose) ==
  /\ Unused(oneTime) # {}
  /\ oneTime' = [oneTime EXCEPT ![NewRow(oneTime)] = [state |-> "ACTIVE", purpose |-> purpose]]

NewRefresh(s) ==
  /\ RoomForARow /\ Unused(refresh) # {}
  /\ refresh' = [refresh EXCEPT ![NewRow(refresh)] = [state |-> "ACTIVE", session |-> s]]

-----------------------------------------------------------------------------
FindTenantUserByEmail == account.state # "NONE"

\* The user, invited, and the verification token in one transaction.
CreatePendingUserRegistration ==
  /\ account' = [account EXCEPT !.state = "INVITED"]
  /\ NewOneTime("EMAIL_VERIFICATION")

\* register: a second registration of the address is refused, at the latest by the
\* unique index.
Register ==
  /\ ~FindTenantUserByEmail
  /\ CreatePendingUserRegistration
  /\ UNCHANGED <<session, refresh, authCall>>

\* requestPasswordReset, for an active account.
RequestReset ==
  /\ account.state = "ACTIVE"
  /\ NewOneTime("PASSWORD_RESET")
  /\ UNCHANGED <<account, session, refresh, authCall>>

\* confirmEmailVerification and confirmPasswordReset find an active token ...
ConfirmRead(c, k) ==
  /\ Idle(c)
  /\ oneTime[k].state = "ACTIVE"
  /\ oneTime[k].purpose = "PASSWORD_RESET" => account.state = "ACTIVE"
  /\ authCall' = [authCall EXCEPT ![c] = [NoAuthCall EXCEPT !.op = "confirm", !.pc = "read",
                                                            !.oneTime = k]]
  /\ UNCHANGED <<account, session, refresh, oneTime>>

\* ... which has expired by then ...
ConfirmExpired(c) ==
  /\ OnAuth(c, "confirm", "read")
  /\ oneTime' = [oneTime EXCEPT ![authCall[c].oneTime].state = "SPENT"]
  /\ EndAuth(c)
  /\ UNCHANGED <<account, session, refresh>>

\* ... or is used, whatever has become of it since it was read.
CompleteEmailVerification(k) ==
  /\ oneTime' = [oneTime EXCEPT ![k].state = "SPENT"]
  /\ account' = [account EXCEPT !.state = "ACTIVE"]

VerifyWrite(c) ==
  /\ OnAuth(c, "confirm", "read")
  /\ oneTime[authCall[c].oneTime].purpose = "EMAIL_VERIFICATION"
  /\ CompleteEmailVerification(authCall[c].oneTime)
  /\ EndAuth(c)
  /\ UNCHANGED <<session, refresh>>

-----------------------------------------------------------------------------
\* Mutant: sessions survive a new password.
MutantEndSessions == UNCHANGED <<session, refresh>>

\* completePasswordReset and completePasswordChange: all sessions and refresh
\* tokens of the user end.
EndSessions ==
  /\ session' = [s \in Sessions |-> IF session[s].state = "ACTIVE"
                                    THEN Revoked ELSE session[s]]
  /\ refresh' = [t \in RefreshTokens |-> IF refresh[t].state \in {"ACTIVE", "ROTATED"}
                                         THEN [refresh[t] EXCEPT !.state = "REVOKED"] ELSE refresh[t]]

\* The new password, the end of a lockout, and what it does to logins under way.
NewPassword(c) ==
  /\ account.password < MaxPasswords
  /\ account' = Cleared([account EXCEPT !.password = @ + 1])
  /\ EndSessions
  /\ authCall' = [d \in AuthCalls |->
                    IF d = c THEN NoAuthCall
                    ELSE IF authCall[d].op = "login" /\ authCall[d].pc # "written" THEN [authCall[d] EXCEPT !.raced = TRUE]
                    ELSE authCall[d]]

ResetWrite(c) ==
  /\ OnAuth(c, "confirm", "read")
  /\ oneTime[authCall[c].oneTime].purpose = "PASSWORD_RESET"
  /\ oneTime' = [oneTime EXCEPT ![authCall[c].oneTime].state = "SPENT"]
  /\ NewPassword(c)

\* Whether the user is active, and what a request is authenticated by: an access
\* token counts only while its session lives.
LoadTenantUserIdentity == account.state = "ACTIVE"

FindActiveSession(s) == session[s].state = "ACTIVE"

Authenticated(s) == FindActiveSession(s) /\ LoadTenantUserIdentity

\* changePassword: an active session and the right present password ...
ChangeRead(c, s) ==
  /\ Idle(c)
  /\ Authenticated(s)
  /\ authCall' = [authCall EXCEPT ![c] = [NoAuthCall EXCEPT !.op = "change", !.pc = "read"]]
  /\ UNCHANGED <<account, session, refresh, oneTime>>

\* ... and the new one, once it is hashed.
ChangeWrite(c) ==
  /\ OnAuth(c, "change", "read")
  /\ NewPassword(c)
  /\ UNCHANGED oneTime

-----------------------------------------------------------------------------
\* login finds the candidate, whose lock is over.
LoginRead(c) ==
  /\ Idle(c)
  /\ account.state # "NONE"
  /\ ~account.locked
  /\ authCall' = [authCall EXCEPT ![c] = [NoAuthCall EXCEPT !.op = "login", !.pc = "read",
                                                            !.password = account.password]]
  /\ UNCHANGED <<account, session, refresh, oneTime>>

\* The password is not the one read: recordFailedLoginAttempt reads the counter ...
LoginFails(c) ==
  /\ OnAuth(c, "login", "read")
  /\ account.failed < MaxFailures
  /\ authCall' = [authCall EXCEPT ![c] = [NoAuthCall EXCEPT !.op = "fail", !.pc = "counted",
                    !.failed = account.failed, !.window = account.window, !.locked = account.locked]]
  /\ UNCHANGED <<account, session, refresh, oneTime>>

LocksAt(n) == n >= LockoutThreshold

\* ... and writes it by id, one up, or one if the window is over; at the
\* threshold the account is locked.
LoginCounted(c) ==
  LET w == authCall[c]
      failed == IF w.window THEN w.failed + 1 ELSE 1
      locks == LocksAt(failed) /\ ~w.locked
      others == {d \in AuthCalls \ {c} : authCall[d].op = "fail"} IN
  /\ OnAuth(c, "fail", "counted")
  /\ account' = [account EXCEPT !.failed = failed, !.window = TRUE, !.locked = w.locked \/ locks,
                                !.failures = IF w.raced \/ others # {} THEN 0
                                             ELSE IF w.window THEN @ + 1 ELSE 1]
  /\ authCall' = [d \in AuthCalls |-> IF d = c THEN NoAuthCall
                                      ELSE IF d \in others THEN [authCall[d] EXCEPT !.raced = TRUE]
                                      ELSE authCall[d]]
  /\ UNCHANGED <<session, refresh, oneTime>>

\* The password is right and the account active: the counter is cleared ...
LoginClears(c) ==
  /\ OnAuth(c, "login", "read")
  /\ account.state = "ACTIVE"
  /\ account' = Cleared(account)
  /\ authCall' = [authCall EXCEPT ![c].pc = "cleared"]
  /\ UNCHANGED <<session, refresh, oneTime>>

\* ... the session created ...
LoginCreates(c) ==
  LET w == authCall[c]
      s == NewRow(session) IN
  /\ OnAuth(c, "login", "cleared")
  /\ RoomForARow /\ Unused(session) # {}
  /\ session' = [session EXCEPT ![s] = [state |-> "ACTIVE", password |-> w.password,
                                        raced |-> w.raced, forked |-> FALSE]]
  /\ authCall' = [authCall EXCEPT ![c] = [NoAuthCall EXCEPT !.op = "login", !.pc = "written",
                                                            !.session = s]]
  /\ UNCHANGED <<account, refresh, oneTime>>

\* ... and its first refresh token.
LoginIssues(c) ==
  /\ OnAuth(c, "login", "written")
  /\ NewRefresh(authCall[c].session)
  /\ EndAuth(c)
  /\ UNCHANGED <<account, session, oneTime>>

\* logout of a session, or of another one of the user.
Logout(s) ==
  /\ FindActiveSession(s)
  /\ session' = [session EXCEPT ![s] = Revoked]
  /\ UNCHANGED <<account, refresh, oneTime, authCall>>

-----------------------------------------------------------------------------
Refreshing(s) == \E d \in AuthCalls : authCall[d].op = "refresh" /\ authCall[d].session = s

\* refreshTokenPair finds an active token of a session that lives ...
RefreshRead(c, t) ==
  LET s == refresh[t].session IN
  /\ Idle(c)
  /\ refresh[t].state = "ACTIVE"
  /\ session[s].state = "ACTIVE"
  /\ authCall' = [authCall EXCEPT ![c] = [NoAuthCall EXCEPT !.op = "refresh", !.pc = "read",
                                                            !.token = t, !.session = s]]
  /\ session' = [session EXCEPT ![s].forked = @ \/ Refreshing(s)]
  /\ UNCHANGED <<account, refresh, oneTime>>

\* ... marks it rotated, by id ...
RefreshRotates(c) ==
  /\ OnAuth(c, "refresh", "read")
  /\ refresh' = [refresh EXCEPT ![authCall[c].token].state = "ROTATED"]
  /\ authCall' = [authCall EXCEPT ![c].pc = "written", ![c].token = NoRefresh]
  /\ UNCHANGED <<account, session, oneTime>>

\* ... and creates the next one of the family.
RefreshIssues(c) ==
  /\ OnAuth(c, "refresh", "written")
  /\ NewRefresh(authCall[c].session)
  /\ EndAuth(c)
  /\ UNCHANGED <<account, session, oneTime>>

\* A token that is not active ends its family: first the tokens ...
ReuseRevokes(c, t) ==
  /\ Idle(c)
  /\ refresh[t].state \in {"ROTATED", "REVOKED"}
  /\ refresh' = [u \in RefreshTokens |->
                   IF refresh[u].session = refresh[t].session /\ refresh[u].state \in {"ACTIVE", "ROTATED"}
                   THEN [refresh[u] EXCEPT !.state = "REVOKED"] ELSE refresh[u]]
  /\ authCall' = [authCall EXCEPT ![c] = [NoAuthCall EXCEPT !.op = "reuse", !.pc = "written",
                                                            !.session = refresh[t].session]]
  /\ UNCHANGED <<account, session, oneTime>>

\* ... then the session.
ReuseEnds(c) ==
  /\ OnAuth(c, "reuse", "written")
  /\ session' = [session EXCEPT ![authCall[c].session] = Revoked]
  /\ EndAuth(c)
  /\ UNCHANGED <<account, refresh, oneTime>>

-----------------------------------------------------------------------------
\* The time of a window, or of a lock, is over; a failure being recorded goes by
\* the time at which it started.
Counting == \E d \in AuthCalls : authCall[d].op = "fail"

WindowEnds ==
  /\ ~Counting
  /\ account.window
  /\ account' = [account EXCEPT !.window = FALSE]
  /\ UNCHANGED <<session, refresh, oneTime, authCall>>

LockEnds ==
  /\ ~Counting
  /\ account.locked
  /\ account' = [account EXCEPT !.locked = FALSE, !.failures = 0]
  /\ UNCHANGED <<session, refresh, oneTime, authCall>>

\* A call is refused, or its process dies, before its next statement.
Deny(c) ==
  /\ ~Idle(c)
  /\ EndAuth(c)
  /\ UNCHANGED <<account, session, refresh, oneTime>>

AccountNext ==
  \/ Register \/ RequestReset
  \/ \E s \in Sessions : Logout(s)
  \/ WindowEnds \/ LockEnds
  \/ \E c \in AuthCalls :
       \/ \E k \in OneTimeTokens : ConfirmRead(c, k)
       \/ ConfirmExpired(c) \/ VerifyWrite(c) \/ ResetWrite(c)
       \/ \E s \in Sessions : ChangeRead(c, s)
       \/ ChangeWrite(c)
       \/ LoginRead(c) \/ LoginFails(c) \/ LoginCounted(c)
       \/ LoginClears(c) \/ LoginCreates(c) \/ LoginIssues(c)
       \/ \E t \in RefreshTokens : RefreshRead(c, t) \/ ReuseRevokes(c, t)
       \/ RefreshRotates(c) \/ RefreshIssues(c) \/ ReuseEnds(c)
       \/ Deny(c)

AccountSpec == AccountInit /\ [][AccountNext]_accountVars

-----------------------------------------------------------------------------
\* A session that is active was opened with the present password: a change or
\* reset ends the others, all but those whose login was under way.
SessionsFollowPassword ==
  \A s \in Sessions : session[s].state = "ACTIVE" =>
    session[s].raced \/ session[s].password = account.password

\* An active session has at most one active refresh token, even if a process dies in the
\* middle of a rotation, unless two requests refreshed it at a time.
OneLiveToken ==
  \A s \in Sessions : session[s].state = "ACTIVE" =>
    session[s].forked \/ Cardinality({t \in RefreshTokens : refresh[t].session = s
                                                            /\ refresh[t].state = "ACTIVE"}) <= 1

\* As many wrong passwords as the threshold within one window lock the account
\* until the lock runs out; of those recorded at a time some are lost.
LockoutHolds ==
  account.failures >= LockoutThreshold => account.locked

AccountsSound == SessionsFollowPassword /\ OneLiveToken /\ LockoutHolds
=============================================================================
