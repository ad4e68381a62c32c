---- MODULE Accounts ----
(***************************************************************************)
(* One user account: sign-up, sign-in with a second factor, lockout after  *)
(* failures and the ends of its sessions.                                  *)
(*   auth.service.ts, jwt.strategy.ts, auth.cron.ts, revoked-token.*,      *)
(*   updateStatus of user.service.ts (whose cache is in UserCache)         *)
(*                                                                         *)
(* Every handler reads the user, awaits something (bcrypt, a mail, another *)
(* read) and writes some fields of it.  Time is counted in hours: the      *)
(* lockout lasts one, as the window in which failures are counted.         *)
(***************************************************************************)
EXTENDS Requests

CONSTANTS
    MaxAttempts,    \* MAX_LOGIN_ATTEMPTS, MAX_TWO_FACTOR_ATTEMPTS
    TwoFactor,      \* whether the account needs a second factor
    LastHour,       \* bound: the clock stops here
    MaxPasswords,   \* bound: passwords the account ever has
    MaxToggles      \* bound: changes of isActive

ASSUME AccountsAssumption ==
    /\ MaxAttempts \in Nat \ {0} /\ TwoFactor \in BOOLEAN
    /\ {LastHour, MaxPasswords, MaxToggles} \subseteq Nat

VARIABLES
    hour,
    user,       \* the document
    sessions,   \* the tokens that were not revoked, by when they were issued
    toggles,    \* history: changes of isActive
    sessionsEnd \* history: when the sessions were ended last, or Never

accountOnly == <<hour, user, sessions, toggles, sessionsEnd>>
accountVars == <<reqVars, accountOnly>>

Never == -1

Users == [exists : BOOLEAN, isActive : BOOLEAN, password : Nat,
          loginAttempts : Nat, firstFailedAt : Int, lockoutUntil : Int,
          sessionInvalidatedAt : Int, resetPasswordToken : BOOLEAN,
          twoFactorCode : BOOLEAN, twoFactorAttempts : Nat]

AccountLabels == {"idle", "create", "compare", "token", "code", "verify", "reset", "change",
                  "revoke", "toggle"}

AccountsTypeOK ==
    /\ hour \in 0..LastHour
    /\ user \in Users
    /\ sessions \subseteq 0..LastHour
    /\ toggles \in 0..MaxToggles /\ sessionsEnd \in Int
    /\ pc \in [Procs -> AccountLabels]

NewUser == [exists |-> FALSE, isActive |-> TRUE, password |-> 0,
            loginAttempts |-> 0, firstFailedAt |-> Never, lockoutUntil |-> Never,
            sessionInvalidatedAt |-> Never, resetPasswordToken |-> FALSE,
            twoFactorCode |-> FALSE, twoFactorAttempts |-> 0]

AccountsInit ==
    /\ RequestsInit
    /\ hour = 0 /\ user = NewUser /\ sessions = {}
    /\ toggles = 0 /\ sessionsEnd = Never

(* The fields of the user that a handler has read and goes on from; the    *)
(* password or the session it is given, or whether the code is right.      *)
Read(fields) ==
    [subject |-> "user", read |-> [f \in fields |-> user[f]],
     password |-> 0, right |-> FALSE, session |-> 0]
Lockout == {"loginAttempts", "firstFailedAt", "lockoutUntil"}
User(p) == stack[p].read

Starts(p, label, frame) ==
    /\ user.exists
    /\ Begin(p, label, frame)
    /\ UNCHANGED accountOnly

Locked(u, t) == u.lockoutUntil > t
Unlocked(u) == [u EXCEPT !.loginAttempts = 0, !.firstFailedAt = Never, !.lockoutUntil = Never]

----
(* signUp and the first googleLogin: an index on the e-mail address makes  *)
(* the account unique.                                                     *)
StartSignUp(p) ==
    /\ Begin(p, "create", Read({}))
    /\ UNCHANGED accountOnly

(* A second factor is asked for at once, except of Google's users.         *)
SignUp(p) ==
    /\ pc[p] = "create"
    /\ IF user.exists
       THEN Return(p) /\ UNCHANGED user
       ELSE /\ user' = [NewUser EXCEPT !.exists = TRUE]
            /\ \E next \in {"token"} \cup (IF TwoFactor THEN {"code"} ELSE {}) : Jump(p, next)
    /\ UNCHANGED <<hour, sessions, toggles, sessionsEnd>>

(* signIn reads the user.  Nobody signs in to an account that is disabled  *)
(* or locked.                                                              *)
StartSignIn(p, password) ==
    /\ user.isActive /\ ~Locked(user, hour)
    /\ Starts(p, "compare", [Read(Lockout \cup {"password"}) EXCEPT !.password = password])

(* The count of a wrong password goes on from what was read, or begins     *)
(* anew when the window or the lockout is over.                            *)
AfterFailure(u) ==
    LET anew == \/ u.lockoutUntil # Never
                \/ u.firstFailedAt # Never /\ hour - u.firstFailedAt >= 1
        attempts == IF anew THEN 1 ELSE u.loginAttempts + 1
    IN  IF attempts >= MaxAttempts
        THEN [Unlocked(user) EXCEPT !.lockoutUntil = hour + 1]
        ELSE [user EXCEPT !.loginAttempts = attempts, !.lockoutUntil = Never,
                          !.firstFailedAt = IF anew \/ u.firstFailedAt = Never THEN hour
                                            ELSE u.firstFailedAt]

Compare(p) ==
    /\ pc[p] = "compare"
    /\ IF stack[p].password = User(p).password
       THEN user' = Unlocked(user) /\ Jump(p, IF TwoFactor THEN "code" ELSE "token")
       ELSE user' = AfterFailure(User(p)) /\ Return(p)
    /\ UNCHANGED <<hour, sessions, toggles, sessionsEnd>>

(* sendTwoFactorCode.  The token it returns, of ten minutes, is one that   *)
(* validate accepts too: its purpose is looked at by verifyTwoFactor only. *)
SendCode(p) ==
    /\ pc[p] = "code"
    /\ user' = [user EXCEPT !.twoFactorCode = TRUE, !.twoFactorAttempts = 0]
    /\ sessions' = sessions \cup {hour}
    /\ Return(p)
    /\ UNCHANGED <<hour, toggles, sessionsEnd>>

IssueToken(p) ==
    /\ pc[p] = "token"
    /\ sessions' = sessions \cup {hour}
    /\ Return(p)
    /\ UNCHANGED <<hour, user, toggles, sessionsEnd>>

(* verifyTwoFactor reads the code; the answer is right or wrong.           *)
StartVerify(p, right) ==
    /\ user.twoFactorCode
    /\ Starts(p, "verify", [Read({"twoFactorAttempts"}) EXCEPT !.right = right])

VerifyCode(p) ==
    /\ pc[p] = "verify"
    /\ LET attempts == User(p).twoFactorAttempts + 1
           spent == [user EXCEPT !.twoFactorCode = FALSE, !.twoFactorAttempts = 0]
       IN  IF stack[p].right THEN user' = spent /\ Jump(p, "token")
           ELSE /\ user' = IF attempts >= MaxAttempts THEN spent
                           ELSE [user EXCEPT !.twoFactorAttempts = attempts]
                /\ Return(p)
    /\ UNCHANGED <<hour, sessions, toggles, sessionsEnd>>

(* googleLogin of a user that is there.                                    *)
GoogleLogin(p) ==
    /\ user.isActive
    /\ Starts(p, "token", Read({}))

----
(* The ends of sessions.                                                   *)

NewPassword(u) ==
    /\ u.password < MaxPasswords
    /\ user' = [u EXCEPT !.password = @ + 1, !.sessionInvalidatedAt = hour]
    /\ sessionsEnd' = hour

(* requestPasswordReset; the token lasts an hour.                          *)
RequestReset ==
    /\ user.exists
    /\ user' = [user EXCEPT !.resetPasswordToken = TRUE]
    /\ UNCHANGED <<reqVars, hour, sessions, toggles, sessionsEnd>>

ExpireSecrets ==
    /\ \/ user' = [user EXCEPT !.resetPasswordToken = FALSE]
       \/ user' = [user EXCEPT !.twoFactorCode = FALSE]
    /\ UNCHANGED <<reqVars, hour, sessions, toggles, sessionsEnd>>

(* resetPassword: the token is looked up, then the user saved; save writes *)
(* the fields whose values it has changed, and no other.                   *)
StartReset(p) ==
    /\ user.resetPasswordToken
    /\ Starts(p, "reset", Read(Lockout))

ResetPassword(p) ==
    /\ pc[p] = "reset"
    /\ NewPassword([f \in DOMAIN user |->
           CASE f = "resetPasswordToken" -> FALSE
             [] f \in Lockout /\ User(p)[f] # Unlocked(user)[f] -> Unlocked(user)[f]
             [] OTHER -> user[f]])
    /\ Return(p)
    /\ UNCHANGED <<hour, sessions, toggles>>

StartChange(p) == Starts(p, "change", Read({}))

\* Mutant: the sessions opened with the old password go on.
ChangeQuietly(p) ==
    /\ pc[p] = "change"
    /\ user.password < MaxPasswords
    /\ user' = [user EXCEPT !.password = @ + 1]
    /\ sessionsEnd' = hour
    /\ Return(p)
    /\ UNCHANGED <<hour, sessions, toggles>>

ChangePassword(p) ==
    /\ pc[p] = "change"
    /\ NewPassword(user)
    /\ Return(p)
    /\ UNCHANGED <<hour, sessions, toggles>>

(* logout: other tokens of the same hour go on.                            *)
StartLogout(p, s) ==
    /\ s \in sessions
    /\ Starts(p, "revoke", [Read({}) EXCEPT !.session = s])

Revoke(p) ==
    /\ pc[p] = "revoke"
    /\ sessions' \in {sessions, sessions \ {stack[p].session}}
    /\ Return(p)
    /\ UNCHANGED <<hour, user, toggles, sessionsEnd>>

(* updateStatus turns isActive from what it reads.                         *)
StartToggle(p) == Starts(p, "toggle", Read({"isActive"}))

ToggleStatus(p) ==
    /\ pc[p] = "toggle"
    /\ toggles < MaxToggles /\ toggles' = toggles + 1
    /\ IF User(p).isActive
       THEN /\ user' = [user EXCEPT !.isActive = FALSE, !.sessionInvalidatedAt = hour]
            /\ sessionsEnd' = hour
       ELSE user' = [Unlocked(user) EXCEPT !.isActive = TRUE] /\ UNCHANGED sessionsEnd
    /\ Return(p)
    /\ UNCHANGED <<hour, sessions>>

\* Mutant: the cron releases every locked account.
UnlockAll ==
    /\ user.exists /\ user.isActive /\ user.lockoutUntil # Never
    /\ user' = Unlocked(user)
    /\ UNCHANGED <<reqVars, hour, sessions, toggles, sessionsEnd>>

(* unlockExpiredLockouts, every minute.                                    *)
UnlockExpired ==
    /\ user.exists /\ user.isActive /\ user.lockoutUntil # Never /\ ~Locked(user, hour)
    /\ user' = Unlocked(user)
    /\ UNCHANGED <<reqVars, hour, sessions, toggles, sessionsEnd>>

AnHour ==
    /\ hour < LastHour /\ hour' = hour + 1
    /\ UNCHANGED <<reqVars, user, sessions, toggles, sessionsEnd>>

(* The instance stops.                                                     *)
AccountCrash(p) ==
    /\ pc[p] # "idle"
    /\ FaultyReturn(p, "crash")
    /\ UNCHANGED accountOnly

AccountsNext ==
    \/ AnHour \/ RequestReset \/ ExpireSecrets \/ UnlockExpired
    \/ \E p \in Procs :
        \/ StartSignUp(p) \/ SignUp(p)
        \/ \E password \in 0..MaxPasswords : StartSignIn(p, password)
        \/ Compare(p) \/ SendCode(p) \/ IssueToken(p) \/ GoogleLogin(p)
        \/ \E right \in BOOLEAN : StartVerify(p, right)
        \/ VerifyCode(p)
        \/ StartReset(p) \/ ResetPassword(p) \/ StartChange(p) \/ ChangePassword(p)
        \/ \E s \in sessions : StartLogout(p, s)
        \/ Revoke(p) \/ StartToggle(p) \/ ToggleStatus(p)
        \/ AccountCrash(p)

AccountsSpec == AccountsInit /\ [][AccountsNext]_accountVars

----
(* JwtStrategy.validate, of a token that was not revoked.                  *)
Accepted(s) ==
    /\ user.exists /\ user.isActive
    /\ s > user.sessionInvalidatedAt

(* No session survives a new password or the end of the account: every     *)
(* token the server accepts was issued after the last of them, whichever   *)
(* handlers wrote the user in the meantime.                                *)
SessionsAreEnded == \A s \in sessions : Accepted(s) => s > sessionsEnd

(* A lockout lasts its hour: only a new password, an administrator, or a   *)
(* sign-in that had read the user before it ends it early.                 *)
LockoutLasts ==
    [][Locked(user, hour) /\ hour' = hour /\ ~Locked(user', hour) =>
          \E p \in Procs : pc[p] \in {"reset", "toggle", "compare"} /\ pc'[p] # pc[p]]_accountVars
====
