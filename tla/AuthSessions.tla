---------------------------- MODULE AuthSessions ----------------------------
(***************************************************************************)
(* Sign-in sessions (services/auth.ts, services/auth-session.ts,           *)
(* repositories/auth.ts): refresh tokens, their rotation and revocation,   *)
(* and the password changes that are meant to end them.                    *)
(*                                                                         *)
(* A refresh token is signed over the user, the organization and the       *)
(* second of its issue, so two of the same second are the same token, and  *)
(* the rows are unique per token.  Rotation is a transaction of two        *)
(* statements: it updates the old row, whose lock it then holds, and       *)
(* inserts the new one.  A revocation of all the tokens of a user is one   *)
(* UPDATE, which works on the rows committed when it started and waits for *)
(* the locks of those.  Access tokens are not stored and not modelled.     *)
(***************************************************************************)
EXTENDS Naturals

CONSTANTS
    Users, Orgs,
    Requests,    \* requests that may be in flight at the same time
    Codes,       \* one-time codes for a password reset
    MaxTime,     \* bound on the clock, in seconds
    MaxVersion   \* bound on the passwords a user goes through

ASSUME BoundsAreNat == MaxTime \in Nat /\ MaxVersion \in Nat

VARIABLES
    now,
    password,    \* which password of a user is in force
    token,       \* the state of each refresh token's row
    code,        \* the row of each one-time code
    job,         \* the request in flight
    root,        \* history: the token a chain of rotations began with
    under,       \* history: the password presented when that token was issued
    ended,       \* history: roots of the sessions revoked or logged out
    excused      \* history: roots that outlived a password change, for a reason

vars == <<now, password, token, code, job, root, under, ended, excused>>
rows == <<password, token, code>>
history == <<root, under, ended, excused>>

-----------------------------------------------------------------------------
(* Tokens and requests *)

Token   == [user: Users, org: Orgs, iat: 0..MaxTime]
Version == 0..MaxVersion
NoCode  == [state |-> "none"]
Code    == [state: {"unused", "used", "expired"}, user: Users]

Idle      == [step |-> "idle"]
LoginJob  == [step: {"login"}, user: Users, org: Orgs, version: Version]
RotateJob == [step: {"rotate", "insert"}, old: Token, next: Token]
ChangeJob == [step: {"change"}, user: Users]
ResetJob  == [step: {"reset", "mark"}, user: Users, code: Codes]
\* changed: the revocation follows a change of the password.
RevokeJob == [step: {"revoke", "revoking"}, user: Users, orgs: SUBSET Orgs,
              changed: BOOLEAN, found: SUBSET Token]
Job == {Idle} \cup LoginJob \cup RotateJob \cup ChangeJob \cup ResetJob \cup RevokeJob

Go(r, j)   == job' = [job EXCEPT ![r] = j]
Issued(t)  == token[t] # "none"
Open(t)    == token[t] \in {"valid", "expired"}
Locked(t)  == \E r \in Requests : job[r].step = "insert" /\ job[r].old = t
Fresh(u, o) == [user |-> u, org |-> o, iat |-> now]

Revoke(u, orgs, changed) ==
    [step |-> "revoke", user |-> u, orgs |-> orgs, changed |-> changed, found |-> {}]

-----------------------------------------------------------------------------
(* login, organizationLogin *)

\* The password presented is the one in force; the hash is compared here.
LoginRead(r, u, o) ==
    /\ job[r] = Idle
    /\ Go(r, [step |-> "login", user |-> u, org |-> o, version |-> password[u]])
    /\ UNCHANGED <<now, rows, history>>

\* issueAuthSession
LoginSave(r) ==
    LET t == Fresh(job[r].user, job[r].org)
    IN  /\ job[r].step = "login"
        /\ ~Issued(t)
        /\ token' = [token EXCEPT ![t] = "valid"]
        /\ under' = [under EXCEPT ![t] = job[r].version]
        /\ excused' = IF job[r].version # password[t.user] THEN excused \cup {t} ELSE excused
        /\ Go(r, Idle)
        /\ UNCHANGED <<now, password, code, root, ended>>

\* refresh_token_hash_uq: another login of this second has the same token.
LoginClash(r) ==
    /\ job[r].step = "login"
    /\ Issued(Fresh(job[r].user, job[r].org))
    /\ Go(r, Idle)
    /\ UNCHANGED <<now, rows, history>>

-----------------------------------------------------------------------------
(* refreshAuthToken, rotateRefreshToken *)

RefreshRead(r, t) ==
    /\ job[r] = Idle
    /\ token[t] = "valid"
    /\ Go(r, [step |-> "rotate", old |-> t, next |-> Fresh(t.user, t.org)])
    /\ UNCHANGED <<now, rows, history>>

Rotatable(t) == ~Locked(t) /\ token[t] = "valid"

RotateUpdate(r) ==
    /\ job[r].step = "rotate"
    /\ Rotatable(job[r].old)
    /\ Go(r, [job[r] EXCEPT !.step = "insert"])
    /\ UNCHANGED <<now, rows, history>>

\* "Refresh token has been revoked or expired"
RotateRefused(r) ==
    /\ job[r].step = "rotate"
    /\ ~Locked(job[r].old) /\ ~Rotatable(job[r].old)
    /\ Go(r, Idle)
    /\ UNCHANGED <<now, rows, history>>

\* A revocation that started before the new row is committed does not see it.
Overtaken(t) ==
    \E r \in Requests : job[r].step = "revoking" /\ job[r].changed /\ t \in job[r].found

RotateCommit(r) ==
    LET old  == job[r].old
        next == job[r].next
    IN  /\ job[r].step = "insert"
        /\ ~Issued(next)
        /\ token' = [token EXCEPT ![old] = "revoked", ![next] = "valid"]
        /\ root' = [root EXCEPT ![next] = root[old]]
        /\ excused' = IF Overtaken(old) THEN excused \cup {root[old]} ELSE excused
        /\ Go(r, Idle)
        /\ UNCHANGED <<now, password, code, under, ended>>

\* Mutant: the two statements without a transaction around them.
RotateClashHalf(r) ==
    /\ job[r].step = "insert"
    /\ Issued(job[r].next)
    /\ token' = [token EXCEPT ![job[r].old] = "revoked"]
    /\ Go(r, Idle)
    /\ UNCHANGED <<now, password, code, history>>

\* "Could not rotate refresh token": the new token was issued in this second.
RotateClash(r) ==
    /\ job[r].step = "insert"
    /\ Issued(job[r].next)
    /\ Go(r, Idle)
    /\ UNCHANGED <<now, rows, history>>

-----------------------------------------------------------------------------
(* logout, logoutAll, and the revocation after a change of password *)

\* revokeRefreshToken
Logout(t) ==
    /\ Open(t) /\ ~Locked(t)
    /\ token' = [token EXCEPT ![t] = "revoked"]
    /\ ended' = ended \cup {root[t]}
    /\ UNCHANGED <<now, password, code, job, root, under, excused>>

\* logoutAll; logout without a token, of one organization.
LogoutAll(r, u, orgs) ==
    /\ job[r] = Idle
    /\ orgs = Orgs \/ \E o \in Orgs : orgs = {o}
    /\ Go(r, Revoke(u, orgs, FALSE))
    /\ UNCHANGED <<now, rows, history>>

\* The snapshot of the UPDATE.
RevokeStart(r) ==
    /\ job[r].step = "revoke"
    /\ Go(r, [job[r] EXCEPT !.step = "revoking",
                            !.found = {t \in Token : /\ Issued(t) /\ t.user = job[r].user
                                                     /\ t.org \in job[r].orgs}])
    /\ UNCHANGED <<now, rows, history>>

RevokeFinish(r) ==
    LET found == job[r].found
    IN  /\ job[r].step = "revoking"
        /\ \A t \in found : ~Locked(t)
        /\ token' = [t \in Token |-> IF t \in found THEN "revoked" ELSE token[t]]
        /\ ended' = ended \cup {root[t] : t \in {x \in found : Open(x)}}
        /\ Go(r, Idle)
        /\ UNCHANGED <<now, password, code, root, under, excused>>

-----------------------------------------------------------------------------
(* changePassword, requestPasswordReset, resetPassword *)

\* The current password was presented and compared.
ChangeRead(r, u) ==
    /\ job[r] = Idle
    /\ Go(r, [step |-> "change", user |-> u])
    /\ UNCHANGED <<now, rows, history>>

SetPassword(u) ==
    /\ password[u] < MaxVersion
    /\ password' = [password EXCEPT ![u] = @ + 1]

\* Mutant: only the sessions of the organization of the request are revoked.
RevokedOrgsOne == {CHOOSE o \in Orgs : TRUE}

\* revokeAllRefreshTokensForUser
RevokedOrgs == Orgs

ChangeWrite(r) ==
    /\ job[r].step = "change"
    /\ SetPassword(job[r].user)
    /\ Go(r, Revoke(job[r].user, RevokedOrgs, TRUE))
    /\ UNCHANGED <<now, token, code, history>>

\* A code that was ever issued, to anyone, cannot be issued again.
RequestReset(c, u) ==
    /\ code[c] = NoCode
    /\ code' = [code EXCEPT ![c] = [state |-> "unused", user |-> u]]
    /\ UNCHANGED <<now, password, token, job, history>>

ResetRead(r, c) ==
    /\ job[r] = Idle
    /\ code[c].state = "unused"
    /\ Go(r, [step |-> "reset", user |-> code[c].user, code |-> c])
    /\ UNCHANGED <<now, rows, history>>

ResetWrite(r) ==
    /\ job[r].step = "reset"
    /\ SetPassword(job[r].user)
    /\ Go(r, [job[r] EXCEPT !.step = "mark"])
    /\ UNCHANGED <<now, token, code, root, under, ended, excused>>

\* markPasswordResetUsed, whatever the row says.
ResetMark(r) ==
    /\ job[r].step = "mark"
    /\ code' = [code EXCEPT ![job[r].code].state = "used"]
    /\ Go(r, Revoke(job[r].user, RevokedOrgs, TRUE))
    /\ UNCHANGED <<now, password, token, history>>

-----------------------------------------------------------------------------
(* Time and failures *)

Tick ==
    /\ now < MaxTime
    /\ now' = now + 1
    /\ UNCHANGED <<rows, job, history>>

\* Lifetimes are far longer than requests: a token or a code may expire at any time.
Expire ==
    /\ \/ /\ \E t \in Token : token[t] = "valid" /\ token' = [token EXCEPT ![t] = "expired"]
          /\ UNCHANGED code
       \/ /\ \E c \in Codes : /\ code[c].state = "unused"
                              /\ code' = [code EXCEPT ![c].state = "expired"]
          /\ UNCHANGED token
    /\ UNCHANGED <<now, password, job, history>>

\* The password is changed, its sessions are not revoked yet.
Changing(r) ==
    \/ job[r].step = "mark"
    \/ job[r].step \in {"revoke", "revoking"} /\ job[r].changed

\* A crash or a database error; a transaction is rolled back, a committed
\* password stays.
Fail(r) ==
    /\ job[r] # Idle
    /\ excused' = IF Changing(r) THEN excused \cup {t \in Token : t.user = job[r].user} ELSE excused
    /\ Go(r, Idle)
    /\ UNCHANGED <<now, rows, root, under, ended>>

-----------------------------------------------------------------------------

Init ==
    /\ now = 0
    /\ password = [u \in Users |-> 0]
    /\ token = [t \in Token |-> "none"]
    /\ code = [c \in Codes |-> NoCode]
    /\ job = [r \in Requests |-> Idle]
    /\ root = [t \in Token |-> t]
    /\ under = [t \in Token |-> 0]
    /\ ended = {}
    /\ excused = {}

Proceed(r) ==
    \/ LoginSave(r)    \/ LoginClash(r)
    \/ RotateUpdate(r) \/ RotateRefused(r) \/ RotateCommit(r) \/ RotateClash(r)
    \/ RevokeStart(r)  \/ RevokeFinish(r)
    \/ ChangeWrite(r)  \/ ResetWrite(r)    \/ ResetMark(r)

Begin(r) ==
    \/ \E u \in Users, o \in Orgs : LoginRead(r, u, o)
    \/ \E t \in Token : RefreshRead(r, t)
    \/ \E u \in Users, orgs \in SUBSET Orgs : LogoutAll(r, u, orgs)
    \/ \E u \in Users : ChangeRead(r, u)
    \/ \E c \in Codes : ResetRead(r, c)

Next ==
    \/ \E r \in Requests : Begin(r) \/ Proceed(r) \/ Fail(r)
    \/ \E t \in Token : Logout(t)
    \/ \E c \in Codes, u \in Users : RequestReset(c, u)
    \/ Tick \/ Expire

Spec == Init /\ [][Next]_vars

-----------------------------------------------------------------------------
(* Properties *)

\* Every variable stays in its domain.
TypeOK ==
    /\ now \in 0..MaxTime
    /\ password \in [Users -> Version]
    /\ token \in [Token -> {"none", "valid", "expired", "revoked"}]
    /\ code \in [Codes -> Code \cup {NoCode}]
    /\ job \in [Requests -> Job]
    /\ root \in [Token -> Token]
    /\ under \in [Token -> Version]
    /\ ended \subseteq Token /\ excused \subseteq Token

Session(s) == Issued(s) /\ root[s] = s
OpenTokens(s) == {t \in Token : Open(t) /\ root[t] = s}

\* A session has one token that is not revoked, whoever refreshes it at once and
\* however a rotation fails, until it is ended; from then on it has none.
OneTokenPerSession ==
    \A s \in Token :
        Session(s) => IF s \in ended THEN OpenTokens(s) = {}
                                     ELSE \E t \in Token : OpenTokens(s) = {t}

\* A change of password ends the sessions opened with an older one, in every
\* organization.  Those that outlive it were opened or rotated while the change
\* went on, or its request failed.
OldSessionsEnd ==
    \A t \in Token :
        token[t] = "valid" =>
            \/ under[root[t]] = password[t.user]
            \/ root[t] \in excused
            \/ \E r \in Requests : Changing(r) /\ job[r].user = t.user

=============================================================================
