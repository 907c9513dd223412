------------------------- MODULE AuthSessionsProofs -------------------------
(***************************************************************************)
(* Proofs about AuthSessions: its variables keep their types, a session    *)
(* has exactly one token until it is ended, and a change of password ends  *)
(* the sessions opened with an older one, for any number of users,         *)
(* organizations, concurrent requests and seconds.                         *)
(***************************************************************************)
EXTENDS AuthSessions, TLAPS

-----------------------------------------------------------------------------
(* The inductive invariant *)

\* The root of an issued token is itself the first token of a session; a token
\* not issued yet is its own root.
Rooted ==
    \A t \in Token :
        /\ Issued(t) => Issued(root[t]) /\ root[root[t]] = root[t]
        /\ ~Issued(t) => root[t] = t

\* A rotation between its two statements holds the lock of an open token, alone.
Inserting ==
    /\ \A r \in Requests : job[r].step = "insert" => Open(job[r].old)
    /\ \A r, q \in Requests :
         job[r].step = "insert" /\ job[q].step = "insert" /\ job[r].old = job[q].old => r = q

\* A revocation has found issued tokens only.
Finding == \A r \in Requests : job[r].step = "revoking" => \A t \in job[r].found : Issued(t)

\* Two open tokens are of two sessions.
OneOpen == \A t, x \in Token : Open(t) /\ Open(x) /\ root[t] = root[x] => t = x

\* A session that is not ended has an open token.
Kept == \A s \in Token : Session(s) /\ s \notin ended => \E t \in Token : Open(t) /\ root[t] = s

\* A session that is ended was one, and has none.
Over == /\ \A s \in ended : Issued(s)
        /\ \A t \in Token : root[t] \in ended => ~Open(t)

\* A reset holds a code that was issued.
Coded == \A r \in Requests : job[r].step \in {"reset", "mark"} => code[job[r].code] \in Code

SInv == TypeOK /\ Coded /\ Rooted /\ Inserting /\ Finding /\ OneOpen /\ Kept /\ Over

-----------------------------------------------------------------------------
(* Types *)

\* What a request holds at each of its steps.
LEMMA JobShape ==
    ASSUME TypeOK, NEW r \in Requests
    PROVE  /\ job[r].step = "login" => /\ job[r].user \in Users /\ job[r].org \in Orgs
                                       /\ job[r].version \in Version
           /\ job[r].step \in {"rotate", "insert"} => job[r] \in RotateJob
           /\ job[r].step = "change" => job[r].user \in Users
           /\ job[r].step \in {"reset", "mark"} => job[r] \in ResetJob
           /\ job[r].step \in {"revoke", "revoking"} => job[r] \in RevokeJob
  BY DEF TypeOK, Job, Idle, LoginJob, RotateJob, ChangeJob, ResetJob, RevokeJob

\* A new job in its domain keeps job in its domain.
LEMMA GoTyped ==
    ASSUME TypeOK, NEW r, NEW j \in Job, Go(r, j)
    PROVE  job' \in [Requests -> Job]
  BY DEF TypeOK, Go

\* The token that would be signed now is one.
LEMMA FreshTyped ==
    ASSUME TypeOK, NEW u \in Users, NEW o \in Orgs
    PROVE  Fresh(u, o) \in Token
  BY DEF TypeOK, Fresh, Token

\* Revocations of both kinds are jobs.
LEMMA RevokeTyped ==
    ASSUME NEW u \in Users, NEW orgs \in SUBSET Orgs, NEW c \in BOOLEAN
    PROVE  Revoke(u, orgs, c) \in Job
  BY DEF Revoke, Job, RevokeJob

\* The first step of a request keeps the types.
LEMMA BeginTyped ==
    ASSUME TypeOK, NEW r \in Requests, Begin(r)
    PROVE  TypeOK'
<1>1. job' \in [Requests -> Job]
  <2>1. CASE \E u \in Users, o \in Orgs : LoginRead(r, u, o)
    <3>1. PICK u \in Users, o \in Orgs : LoginRead(r, u, o)
      BY <2>1
    <3>2. [step |-> "login", user |-> u, org |-> o, version |-> password[u]] \in Job
      BY DEF TypeOK, Job, LoginJob
    <3> QED
      BY <3>1, <3>2, GoTyped DEF LoginRead
  <2>2. CASE \E t \in Token : RefreshRead(r, t)
    <3>1. PICK t \in Token : RefreshRead(r, t)
      BY <2>2
    <3>2. Fresh(t.user, t.org) \in Token
      BY FreshTyped DEF Token
    <3>3. [step |-> "rotate", old |-> t, next |-> Fresh(t.user, t.org)] \in Job
      BY <3>2 DEF Job, RotateJob
    <3> QED
      BY <3>1, <3>3, GoTyped DEF RefreshRead
  <2>3. CASE \E u \in Users, orgs \in SUBSET Orgs : LogoutAll(r, u, orgs)
    BY <2>3, GoTyped, RevokeTyped DEF LogoutAll
  <2>4. CASE \E u \in Users : ChangeRead(r, u)
    <3>1. PICK u \in Users : ChangeRead(r, u)
      BY <2>4
    <3>2. [step |-> "change", user |-> u] \in Job
      BY DEF Job, ChangeJob
    <3> QED
      BY <3>1, <3>2, GoTyped DEF ChangeRead
  <2>5. CASE \E c \in Codes : ResetRead(r, c)
    <3>1. PICK c \in Codes : ResetRead(r, c)
      BY <2>5
    <3>2. code[c].user \in Users
      BY <3>1 DEF ResetRead, TypeOK, Code, NoCode
    <3>3. [step |-> "reset", user |-> code[c].user, code |-> c] \in Job
      BY <3>2 DEF Job, ResetJob
    <3> QED
      BY <3>1, <3>3, GoTyped DEF ResetRead
  <2> QED
    BY <2>1, <2>2, <2>3, <2>4, <2>5 DEF Begin
<1>2. UNCHANGED <<now, rows, history>>
  BY DEF Begin, LoginRead, RefreshRead, LogoutAll, ChangeRead, ResetRead
<1> QED
  BY <1>1, <1>2 DEF TypeOK, rows, history

\* So does every later one.
LEMMA ProceedTyped ==
    ASSUME TypeOK, Coded, NEW r \in Requests, Proceed(r)
    PROVE  TypeOK'
<1> USE JobShape
<1>0. Idle \in Job
  BY DEF Job
<1>1. CASE LoginSave(r)
  <2>1. job[r].user \in Users /\ job[r].org \in Orgs /\ job[r].version \in Version
    BY <1>1 DEF LoginSave
  <2>2. Fresh(job[r].user, job[r].org) \in Token
    BY <2>1, FreshTyped
  <2>3. job' \in [Requests -> Job]
    BY <1>0, <1>1, GoTyped DEF LoginSave
  <2> QED
    BY <1>1, <2>1, <2>2, <2>3 DEF LoginSave, TypeOK
<1>2. CASE LoginClash(r) \/ RotateRefused(r) \/ RotateClash(r)
  <2>1. job' \in [Requests -> Job]
    BY <1>0, <1>2, GoTyped DEF LoginClash, RotateRefused, RotateClash
  <2> QED
    BY <1>2, <2>1 DEF LoginClash, RotateRefused, RotateClash, TypeOK, rows, history
<1>3. CASE RotateUpdate(r)
  <2>1. job[r] \in RotateJob
    BY <1>3 DEF RotateUpdate
  <2>2. [job[r] EXCEPT !.step = "insert"] \in Job
    BY <2>1 DEF Job, RotateJob
  <2>3. job' \in [Requests -> Job]
    BY <1>3, <2>2, GoTyped DEF RotateUpdate
  <2> QED
    BY <1>3, <2>3 DEF RotateUpdate, TypeOK, rows, history
<1>4. CASE RotateCommit(r)
  <2>1. job[r].old \in Token /\ job[r].next \in Token
    BY <1>4 DEF RotateCommit, RotateJob
  <2>2. job' \in [Requests -> Job]
    BY <1>0, <1>4, GoTyped DEF RotateCommit
  <2> QED
    BY <1>4, <2>1, <2>2 DEF RotateCommit, TypeOK
<1>5. CASE RevokeStart(r)
  <2> DEFINE found == {t \in Token : Issued(t) /\ t.user = job[r].user /\ t.org \in job[r].orgs}
  <2>1. job[r] \in RevokeJob /\ found \in SUBSET Token
    BY <1>5 DEF RevokeStart
  <2> HIDE DEF found
  <2>2. [job[r] EXCEPT !.step = "revoking", !.found = found] \in Job
    BY <2>1 DEF Job, RevokeJob
  <2>3. job' \in [Requests -> Job]
    BY <1>5, <2>2, GoTyped DEF RevokeStart, found
  <2> QED
    BY <1>5, <2>3 DEF RevokeStart, TypeOK, rows, history
<1>6. CASE RevokeFinish(r)
  <2>1. job' \in [Requests -> Job]
    BY <1>0, <1>6, GoTyped DEF RevokeFinish
  <2>2. job[r].found \subseteq Token
    BY <1>6 DEF RevokeFinish, RevokeJob
  <2>3. token' \in [Token -> {"none", "valid", "expired", "revoked"}]
    BY <1>6 DEF RevokeFinish, TypeOK
  <2>4. ended' \subseteq Token
    BY <1>6, <2>2 DEF RevokeFinish, TypeOK
  <2> QED
    BY <1>6, <2>1, <2>3, <2>4 DEF RevokeFinish, TypeOK
<1>7. CASE ChangeWrite(r)
  <2>1. job[r].user \in Users
    BY <1>7 DEF ChangeWrite
  <2>2. job' \in [Requests -> Job]
    BY <1>7, <2>1, GoTyped, RevokeTyped DEF ChangeWrite, RevokedOrgs
  <2>3. password' \in [Users -> Version]
    BY <1>7, <2>1, BoundsAreNat DEF ChangeWrite, SetPassword, TypeOK, Version
  <2> QED
    BY <1>7, <2>2, <2>3 DEF ChangeWrite, TypeOK, history
<1>8. CASE ResetWrite(r)
  <2>1. job[r] \in ResetJob
    BY <1>8 DEF ResetWrite
  <2>2. [job[r] EXCEPT !.step = "mark"] \in Job
    BY <2>1 DEF Job, ResetJob
  <2>3. job' \in [Requests -> Job]
    BY <1>8, <2>2, GoTyped DEF ResetWrite
  <2>4. password' \in [Users -> Version]
    BY <1>8, <2>1, BoundsAreNat DEF ResetWrite, ResetJob, SetPassword, TypeOK, Version
  <2> QED
    BY <1>8, <2>3, <2>4 DEF ResetWrite, TypeOK
<1>9. CASE ResetMark(r)
  <2>1. job[r].user \in Users /\ job[r].code \in Codes
    BY <1>9 DEF ResetMark, ResetJob
  <2>2. job' \in [Requests -> Job]
    BY <1>9, <2>1, GoTyped, RevokeTyped DEF ResetMark, RevokedOrgs
  <2>3. code' \in [Codes -> Code \cup {NoCode}]
    <3>1. [code[job[r].code] EXCEPT !.state = "used"] \in Code
      BY <1>9 DEF ResetMark, Coded, Code
    <3> QED
      BY <1>9, <2>1, <3>1 DEF ResetMark, TypeOK
  <2> QED
    BY <1>9, <2>2, <2>3 DEF ResetMark, TypeOK, history
<1> QED
  BY <1>1, <1>2, <1>3, <1>4, <1>5, <1>6, <1>7, <1>8, <1>9 DEF Proceed

\* A step of no request, and the failure of one, keep the types.
LEMMA OtherTyped ==
    ASSUME TypeOK,
           \/ \E r \in Requests : Fail(r)
           \/ \E t \in Token : Logout(t)
           \/ \E c \in Codes, u \in Users : RequestReset(c, u)
           \/ Tick \/ Expire
    PROVE  TypeOK'
<1>1. ASSUME NEW r \in Requests, Fail(r) PROVE TypeOK'
  <2>1. job' \in [Requests -> Job]
    BY <1>1, GoTyped DEF Fail, Job
  <2>2. excused' \subseteq Token
    BY <1>1 DEF Fail, TypeOK
  <2> QED
    BY <1>1, <2>1, <2>2 DEF Fail, TypeOK, rows
<1>2. ASSUME NEW t \in Token, Logout(t) PROVE TypeOK'
  BY <1>2 DEF Logout, TypeOK
<1>3. ASSUME NEW c \in Codes, NEW u \in Users, RequestReset(c, u) PROVE TypeOK'
  <2>1. [state |-> "unused", user |-> u] \in Code
    BY DEF Code
  <2> QED
    BY <1>3, <2>1 DEF RequestReset, TypeOK, history
<1>4. CASE Tick
  BY <1>4, BoundsAreNat DEF Tick, TypeOK, rows, history
<1>5. CASE Expire
  <2>1. CASE UNCHANGED token
    <3>1. PICK c \in Codes : code[c].state = "unused" /\ code' = [code EXCEPT ![c].state = "expired"]
      BY <1>5, <2>1 DEF Expire, TypeOK
    <3>2. [code[c] EXCEPT !.state = "expired"] \in Code
      BY <3>1 DEF TypeOK, Code, NoCode
    <3> QED
      BY <1>5, <2>1, <3>1, <3>2 DEF Expire, TypeOK, history
  <2>2. CASE UNCHANGED code
    BY <1>5, <2>2 DEF Expire, TypeOK, history
  <2> QED
    BY <1>5, <2>1, <2>2 DEF Expire
<1> QED
  BY <1>1, <1>2, <1>3, <1>4, <1>5

\* A request changes its own job only.
LEMMA Touched ==
    ASSUME TypeOK, NEW r \in Requests, NEW q \in Requests, NEW j, Go(r, j), job'[q] # job[q]
    PROVE  r = q /\ job'[q] = j
  BY DEF TypeOK, Go

\* Codes are not forgotten, and a reset takes one that exists.
LEMMA CodedKeeps ==
    ASSUME TypeOK, Coded, Next
    PROVE  Coded'
<1>1. \A c \in Codes : code[c] \in Code => code'[c] \in Code
  <2>1. ASSUME NEW r \in Requests, ResetMark(r) PROVE \A c \in Codes : code[c] \in Code => code'[c] \in Code
    BY <2>1 DEF ResetMark, TypeOK, Code
  <2>2. CASE \E c \in Codes, u \in Users : RequestReset(c, u)
    BY <2>2 DEF RequestReset, TypeOK, Code
  <2>3. CASE Expire
    BY <2>3 DEF Expire, TypeOK, Code
  <2>4. ASSUME NEW r \in Requests, Begin(r) \/ Fail(r) \/ (Proceed(r) /\ ~ResetMark(r))
        PROVE  code' = code
    BY <2>4 DEF Begin, Fail, Proceed, LoginRead, RefreshRead, LogoutAll, ChangeRead, ResetRead,
       LoginSave, LoginClash, RotateUpdate, RotateRefused, RotateCommit, RotateClash, RevokeStart,
       RevokeFinish, ChangeWrite, ResetWrite, rows
  <2>5. CASE Tick \/ \E t \in Token : Logout(t)
    BY <2>5 DEF Tick, Logout, rows
  <2> QED
    BY <2>1, <2>2, <2>3, <2>4, <2>5 DEF Next
<1>2. SUFFICES ASSUME NEW q \in Requests, job'[q].step \in {"reset", "mark"}
               PROVE  job'[q].code \in Codes /\ code[job'[q].code] \in Code
  BY <1>1 DEF Coded
<1>3. CASE job'[q] = job[q]
  BY <1>2, <1>3, JobShape DEF Coded, ResetJob
<1>4. CASE job'[q] # job[q]
  <2>1. \/ \E c \in Codes : ResetRead(q, c)
        \/ ResetWrite(q)
    <3>1. job'[q].step \in {"reset", "mark"}
      BY <1>2
    <3>2. ASSUME NEW r \in Requests, Begin(r) PROVE \E c \in Codes : ResetRead(q, c)
      <4>1. ASSUME NEW u \in Users, NEW o \in Orgs, LoginRead(r, u, o) PROVE FALSE
        BY <1>4, <3>1, <4>1, Touched DEF LoginRead
      <4>2. ASSUME NEW t \in Token, RefreshRead(r, t) PROVE FALSE
        BY <1>4, <3>1, <4>2, Touched DEF RefreshRead
      <4>3. ASSUME NEW u \in Users, NEW orgs \in SUBSET Orgs, LogoutAll(r, u, orgs) PROVE FALSE
        BY <1>4, <3>1, <4>3, Touched DEF LogoutAll, Revoke
      <4>4. ASSUME NEW u \in Users, ChangeRead(r, u) PROVE FALSE
        BY <1>4, <3>1, <4>4, Touched DEF ChangeRead
      <4>5. ASSUME NEW c \in Codes, ResetRead(r, c) PROVE ResetRead(q, c)
        BY <1>4, <4>5, Touched DEF ResetRead
      <4> QED
        BY <3>2, <4>1, <4>2, <4>3, <4>4, <4>5 DEF Begin
    <3>3. ASSUME NEW r \in Requests, Proceed(r) PROVE ResetWrite(q)
      <4>1. CASE LoginSave(r) \/ LoginClash(r) \/ RotateRefused(r) \/ RotateCommit(r)
                 \/ RotateClash(r) \/ RevokeFinish(r)
        <5>1. Go(r, Idle)
          BY <4>1 DEF LoginSave, LoginClash, RotateRefused, RotateCommit, RotateClash, RevokeFinish
        <5> QED
          BY <1>4, <3>1, <5>1, Touched DEF Idle
      <4>2. CASE RotateUpdate(r) \/ RevokeStart(r)
        <5>1. CASE RotateUpdate(r)
          <6>1. [job[r] EXCEPT !.step = "insert"].step = "insert"
            BY <5>1, JobShape DEF RotateUpdate, RotateJob
          <6> QED
            BY <1>4, <3>1, <5>1, <6>1, Touched DEF RotateUpdate
        <5>2. CASE RevokeStart(r)
          <6> DEFINE f == {t \in Token : Issued(t) /\ t.user = job[r].user /\ t.org \in job[r].orgs}
          <6>1. Go(r, [job[r] EXCEPT !.step = "revoking", !.found = f])
            BY <5>2 DEF RevokeStart
          <6> HIDE DEF f
          <6>2. [job[r] EXCEPT !.step = "revoking", !.found = f].step = "revoking"
            BY <5>2, JobShape DEF RevokeStart, RevokeJob
          <6> QED
            BY <1>4, <3>1, <6>1, <6>2, Touched
        <5> QED
          BY <4>2, <5>1, <5>2
      <4>3. CASE ChangeWrite(r) \/ ResetMark(r)
        BY <1>4, <3>1, <4>3, Touched DEF ChangeWrite, ResetMark, Revoke
      <4>4. CASE ResetWrite(r)
        BY <1>4, <4>4, Touched DEF ResetWrite
      <4> QED
        BY <3>3, <4>1, <4>2, <4>3, <4>4 DEF Proceed
    <3>4. ASSUME NEW r \in Requests, Fail(r) PROVE FALSE
      <4>1. Go(r, Idle)
        BY <3>4 DEF Fail
      <4> QED
        BY <1>4, <3>1, <4>1, Touched DEF Idle
    <3>5. CASE \/ \E t \in Token : Logout(t)
               \/ \E c \in Codes, u \in Users : RequestReset(c, u)
               \/ Tick \/ Expire
      BY <1>4, <3>5 DEF Logout, RequestReset, Tick, Expire
    <3> QED
      BY <3>2, <3>3, <3>4, <3>5 DEF Next
  <2>2. CASE \E c \in Codes : ResetRead(q, c)
    BY <2>2 DEF ResetRead, Go, TypeOK, Code, NoCode
  <2>3. CASE ResetWrite(q)
    BY <2>3, JobShape DEF ResetWrite, Go, TypeOK, Coded, ResetJob
  <2> QED
    BY <2>1, <2>2, <2>3
<1> QED
  BY <1>3, <1>4

\* Types are kept by every step.
LEMMA TypesKept ==
    ASSUME TypeOK, Coded, Next
    PROVE  TypeOK' /\ Coded'
  BY BeginTyped, ProceedTyped, OtherTyped, CodedKeeps DEF Next

-----------------------------------------------------------------------------
(* One token per session *)

SessionInv == Rooted /\ Inserting /\ Finding /\ OneOpen /\ Kept /\ Over

\* A step that leaves the tokens alone and lets no request into a rotation or a
\* revocation keeps the sessions.
LEMMA QuietKeeps ==
    ASSUME SessionInv, UNCHANGED <<token, root, ended>>,
           \A r \in Requests : job'[r].step \in {"insert", "revoking"} => job'[r] = job[r]
    PROVE  SessionInv'
<1>1. \A t : (Open(t)' <=> Open(t)) /\ (Issued(t)' <=> Issued(t)) /\ (Session(t)' <=> Session(t))
  BY DEF Open, Issued, Session
<1>2. Rooted' /\ OneOpen' /\ Kept' /\ Over'
  BY <1>1 DEF SessionInv, Rooted, OneOpen, Kept, Over
<1>3. Inserting' /\ Finding'
  BY <1>1 DEF SessionInv, Inserting, Finding
<1> QED
  BY <1>2, <1>3 DEF SessionInv

\* The second token of a rotation takes the place of the first.
LEMMA RotateCommitKeeps ==
    ASSUME TypeOK, SessionInv, NEW r \in Requests, RotateCommit(r)
    PROVE  SessionInv'
<1> DEFINE old  == job[r].old
           next == job[r].next
<1>1. /\ old \in Token /\ next \in Token /\ Open(old) /\ Issued(old) /\ ~Issued(next) /\ ~Open(next)
      /\ old # next
  BY JobShape DEF RotateCommit, RotateJob, SessionInv, Inserting, Open, Issued
<1>2. /\ \A t \in Token : token'[t] = IF t = next THEN "valid" ELSE IF t = old THEN "revoked" ELSE token[t]
      /\ \A t \in Token : root'[t] = IF t = next THEN root[old] ELSE root[t]
      /\ ended' = ended
  BY <1>1 DEF RotateCommit, TypeOK
<1>3. \A q \in Requests : job'[q].step \in {"insert", "revoking"} => q # r /\ job'[q] = job[q]
  BY DEF RotateCommit, Go, Idle, TypeOK
<1>4. /\ job[r].step = "insert"
      /\ \A q \in Requests : job[q].step = "insert" => job[q].old \in Token
      /\ \A q \in Requests : job[q].step = "revoking" => job[q].found \subseteq Token
      /\ \A t \in Token : root[t] \in Token
  BY JobShape DEF RotateCommit, RotateJob, RevokeJob, TypeOK
<1>5. ended \subseteq Token
  BY DEF TypeOK
<1> HIDE DEF old, next
<1>6. \A t \in Token : /\ Issued(t)' <=> (Issued(t) \/ t = next)
                       /\ Open(t)' <=> ((Open(t) /\ t # old) \/ t = next)
  BY <1>1, <1>2 DEF Issued, Open
<1>7. Rooted'
  BY <1>1, <1>2, <1>4, <1>6 DEF SessionInv, Rooted
<1>8. Inserting'
  <2>1. \A q \in Requests : job'[q].step = "insert" => job[q].old # old
    BY <1>3, <1>4 DEF SessionInv, Inserting, old
  <2> QED
    BY <1>3, <1>4, <1>6, <2>1 DEF SessionInv, Inserting
<1>9. Finding'
  BY <1>3, <1>4, <1>6 DEF SessionInv, Finding
<1>10. OneOpen'
  BY <1>1, <1>2, <1>6 DEF SessionInv, OneOpen
<1>11. Kept'
  <2> SUFFICES ASSUME NEW x \in Token, Session(x)', x \notin ended
               PROVE  \E t \in Token : Open(t)' /\ root'[t] = x
    BY <1>2 DEF Kept
  <2>1. x # next /\ Session(x)
    BY <1>1, <1>2, <1>4, <1>6 DEF Session, SessionInv, Rooted
  <2>2. PICK t \in Token : Open(t) /\ root[t] = x
    BY <2>1 DEF SessionInv, Kept
  <2>3. CASE t = old
    BY <1>1, <1>2, <1>6, <2>2, <2>3
  <2>4. CASE t # old
    BY <1>1, <1>2, <1>6, <2>2, <2>4
  <2> QED
    BY <2>3, <2>4
<1>12. Over'
  BY <1>1, <1>2, <1>5, <1>6 DEF SessionInv, Over
<1> QED
  BY <1>7, <1>8, <1>9, <1>10, <1>11, <1>12 DEF SessionInv

\* A login opens a session of its own.
LEMMA LoginSaveKeeps ==
    ASSUME TypeOK, SessionInv, NEW r \in Requests, LoginSave(r)
    PROVE  SessionInv'
<1> DEFINE n == Fresh(job[r].user, job[r].org)
<1>1. n \in Token /\ ~Issued(n) /\ ~Open(n) /\ root[n] = n
  BY JobShape, FreshTyped DEF LoginSave, SessionInv, Rooted, Open, Issued
<1>2. /\ \A t \in Token : token'[t] = IF t = n THEN "valid" ELSE token[t]
      /\ root' = root /\ ended' = ended
  BY <1>1 DEF LoginSave, TypeOK
<1>3. \A q \in Requests : job'[q].step \in {"insert", "revoking"} => job'[q] = job[q]
  BY DEF LoginSave, Go, Idle, TypeOK
<1>4. /\ \A q \in Requests : job[q].step = "insert" => job[q].old \in Token
      /\ \A q \in Requests : job[q].step = "revoking" => job[q].found \subseteq Token
      /\ \A t \in Token : root[t] \in Token
      /\ ended \subseteq Token
  BY JobShape DEF RotateJob, RevokeJob, TypeOK
<1> HIDE DEF n
<1>5. \A t \in Token : /\ Issued(t)' <=> (Issued(t) \/ t = n)
                       /\ Open(t)' <=> (Open(t) \/ t = n)
                       /\ Open(t) => Issued(t)
  BY <1>1, <1>2 DEF Issued, Open
<1>6. Rooted'
  BY <1>1, <1>2, <1>4, <1>5 DEF SessionInv, Rooted
<1>7. Inserting' /\ Finding'
  BY <1>3, <1>4, <1>5 DEF SessionInv, Inserting, Finding
<1>8. OneOpen'
  BY <1>1, <1>2, <1>5 DEF SessionInv, OneOpen, Rooted
<1>9. Kept'
  BY <1>1, <1>2, <1>5 DEF SessionInv, Kept, Session
<1>10. Over'
  BY <1>1, <1>2, <1>4, <1>5 DEF SessionInv, Over
<1> QED
  BY <1>6, <1>7, <1>8, <1>9, <1>10 DEF SessionInv

\* A set of unlocked tokens is revoked, by a logout or by the end of a revocation.
LEMMA RevokedKeeps ==
    ASSUME TypeOK, SessionInv, NEW S \in SUBSET Token,
           \A t \in S : Issued(t) /\ ~Locked(t),
           \A t \in Token : token'[t] = IF t \in S THEN "revoked" ELSE token[t],
           root' = root, ended' = ended \cup {root[t] : t \in {x \in S : Open(x)}},
           \A r \in Requests : job'[r].step \in {"insert", "revoking"} => job'[r] = job[r]
    PROVE  SessionInv'
<1>1. /\ \A q \in Requests : job[q].step = "insert" => job[q].old \in Token \ S
      /\ \A q \in Requests : job[q].step = "revoking" => job[q].found \subseteq Token
      /\ \A t \in Token : root[t] \in Token
  BY JobShape DEF RotateJob, RevokeJob, TypeOK, Locked
<1>2. \A t \in Token : /\ Issued(t)' <=> Issued(t)
                       /\ Open(t)' <=> (Open(t) /\ t \notin S)
                       /\ Open(t) => Issued(t)
  BY DEF Issued, Open
<1>3. Rooted'
  BY <1>1, <1>2 DEF SessionInv, Rooted
<1>4. Inserting' /\ Finding'
  BY <1>1, <1>2 DEF SessionInv, Inserting, Finding
<1>5. OneOpen'
  BY <1>2 DEF SessionInv, OneOpen
<1>6. Kept'
  BY <1>2 DEF SessionInv, Kept, Session
<1>7. Over'
  <2>1. \A x \in ended' : x \in ended \/ \E t \in S : Open(t) /\ root[t] = x
    OBVIOUS
  <2>2. ended \subseteq Token
    BY DEF TypeOK
  <2>3. \A x \in ended' : Issued(x)'
    BY <1>1, <1>2, <2>1, <2>2 DEF SessionInv, Over, Rooted
  <2>4. \A t \in Token : root[t] \in ended' => ~Open(t)'
    BY <1>2, <2>1 DEF SessionInv, Over, OneOpen
  <2> QED
    BY <2>3, <2>4 DEF Over
<1> QED
  BY <1>3, <1>4, <1>5, <1>6, <1>7 DEF SessionInv

\* A token that expires is still open.
LEMMA ExpireKeeps ==
    ASSUME TypeOK, SessionInv, Expire
    PROVE  SessionInv'
<1>1. CASE UNCHANGED token
  BY <1>1, QuietKeeps DEF Expire, history
<1>2. CASE \E x \in Token : token[x] = "valid" /\ token' = [token EXCEPT ![x] = "expired"]
  <2>1. \A t \in Token : (Issued(t)' <=> Issued(t)) /\ (Open(t)' <=> Open(t))
    BY <1>2 DEF TypeOK, Issued, Open
  <2>2. root' = root /\ ended' = ended /\ job' = job
    BY DEF Expire, history
  <2>3. /\ \A q \in Requests : job[q].step = "insert" => job[q].old \in Token
        /\ \A q \in Requests : job[q].step = "revoking" => job[q].found \subseteq Token
        /\ \A t \in Token : root[t] \in Token
        /\ ended \subseteq Token
    BY JobShape DEF RotateJob, RevokeJob, TypeOK
  <2>4. Rooted' /\ Inserting' /\ Finding'
    BY <2>1, <2>2, <2>3 DEF SessionInv, Rooted, Inserting, Finding
  <2>5. OneOpen' /\ Kept' /\ Over'
    BY <2>1, <2>2, <2>3 DEF SessionInv, OneOpen, Kept, Over, Session
  <2> QED
    BY <2>4, <2>5 DEF SessionInv
<1> QED
  BY <1>1, <1>2 DEF Expire

\* A rotation takes the lock of a token no other holds.
LEMMA RotateUpdateKeeps ==
    ASSUME TypeOK, SessionInv, NEW r \in Requests, RotateUpdate(r)
    PROVE  SessionInv'
<1> DEFINE j == [job[r] EXCEPT !.step = "insert"]
<1>1. job[r] \in RotateJob
  BY JobShape DEF RotateUpdate
<1>2. j.step = "insert" /\ j.old = job[r].old
  BY <1>1 DEF RotateJob
<1>3. Go(r, j)
  BY DEF RotateUpdate
<1> HIDE DEF j
<1>4. \A q \in Requests : job'[q] = IF q = r THEN j ELSE job[q]
  BY <1>3 DEF Go, TypeOK
<1>5. UNCHANGED <<token, root, ended>> /\ Open(job[r].old) /\ ~Locked(job[r].old)
  BY DEF RotateUpdate, Rotatable, Open, rows, history
<1>6. \A t : (Open(t)' <=> Open(t)) /\ (Issued(t)' <=> Issued(t)) /\ (Session(t)' <=> Session(t))
  BY <1>5 DEF Open, Issued, Session
<1>7. Rooted' /\ OneOpen' /\ Kept' /\ Over'
  BY <1>5, <1>6 DEF SessionInv, Rooted, OneOpen, Kept, Over
<1>8. Inserting' /\ Finding'
  BY <1>2, <1>4, <1>5, <1>6 DEF SessionInv, Inserting, Finding, Locked
<1> QED
  BY <1>7, <1>8 DEF SessionInv

\* A revocation finds the issued tokens of a user.
LEMMA RevokeStartKeeps ==
    ASSUME TypeOK, SessionInv, NEW r \in Requests, RevokeStart(r)
    PROVE  SessionInv'
<1> DEFINE f == {t \in Token : Issued(t) /\ t.user = job[r].user /\ t.org \in job[r].orgs}
           j == [job[r] EXCEPT !.step = "revoking", !.found = f]
<1>1. Go(r, j) /\ job[r] \in RevokeJob /\ \A t \in f : Issued(t)
  BY JobShape DEF RevokeStart
<1> HIDE DEF f
<1>2. j.step = "revoking" /\ j.found = f
  BY <1>1 DEF RevokeJob
<1> HIDE DEF j
<1>3. \A q \in Requests : job'[q] = IF q = r THEN j ELSE job[q]
  BY <1>1 DEF Go, TypeOK
<1>4. UNCHANGED <<token, root, ended>>
  BY DEF RevokeStart, rows, history
<1>5. \A t : (Open(t)' <=> Open(t)) /\ (Issued(t)' <=> Issued(t)) /\ (Session(t)' <=> Session(t))
  BY <1>4 DEF Open, Issued, Session
<1>6. Rooted' /\ OneOpen' /\ Kept' /\ Over'
  BY <1>4, <1>5 DEF SessionInv, Rooted, OneOpen, Kept, Over
<1>7. Inserting' /\ Finding'
  BY <1>1, <1>2, <1>3, <1>5 DEF SessionInv, Inserting, Finding
<1> QED
  BY <1>6, <1>7 DEF SessionInv

\* A request that ends, or goes on elsewhere, is in no rotation and no revocation.
LEMMA ElsewhereKeeps ==
    ASSUME TypeOK, SessionInv, UNCHANGED <<token, root, ended>>, NEW r \in Requests, NEW j,
           Go(r, j), j.step \notin {"insert", "revoking"}
    PROVE  SessionInv'
  BY QuietKeeps DEF Go, TypeOK

\* Every step keeps the sessions.
LEMMA SessionsKept ==
    ASSUME TypeOK, SessionInv, Next
    PROVE  SessionInv'
<1> USE DEF rows, history
<1>1. ASSUME NEW r \in Requests, Begin(r) PROVE SessionInv'
  BY <1>1, ElsewhereKeeps
     DEF Begin, LoginRead, RefreshRead, LogoutAll, ChangeRead, ResetRead, Revoke
<1>2. ASSUME NEW r \in Requests, Proceed(r) PROVE SessionInv'
  <2>1. CASE LoginClash(r) \/ RotateRefused(r) \/ RotateClash(r)
    BY <2>1, ElsewhereKeeps DEF LoginClash, RotateRefused, RotateClash, Idle
  <2>2. CASE ChangeWrite(r) \/ ResetMark(r)
    BY <2>2, ElsewhereKeeps DEF ChangeWrite, ResetMark, Revoke
  <2>3. CASE ResetWrite(r)
    <3>1. [job[r] EXCEPT !.step = "mark"].step = "mark"
      BY <2>3, JobShape DEF ResetWrite, ResetJob
    <3> QED
      BY <2>3, <3>1, ElsewhereKeeps DEF ResetWrite
  <2>4. CASE RevokeFinish(r)
    <3>1. job[r].found \in SUBSET Token /\ \A t \in job[r].found : Issued(t) /\ ~Locked(t)
      BY <2>4, JobShape DEF RevokeFinish, RevokeJob, SessionInv, Finding
    <3>2. \A q \in Requests : job'[q].step \in {"insert", "revoking"} => job'[q] = job[q]
      BY <2>4 DEF RevokeFinish, Go, Idle, TypeOK
    <3> QED
      BY <2>4, <3>1, <3>2, RevokedKeeps DEF RevokeFinish
  <2> QED
    BY <1>2, <2>1, <2>2, <2>3, <2>4, LoginSaveKeeps, RotateUpdateKeeps, RotateCommitKeeps,
       RevokeStartKeeps DEF Proceed
<1>3. ASSUME NEW r \in Requests, Fail(r) PROVE SessionInv'
  BY <1>3, ElsewhereKeeps DEF Fail, Idle
<1>4. ASSUME NEW t \in Token, Logout(t) PROVE SessionInv'
  <2>1. /\ \A x \in {t} : Issued(x) /\ ~Locked(x)
        /\ \A x \in Token : token'[x] = IF x \in {t} THEN "revoked" ELSE token[x]
        /\ root' = root /\ job' = job
    BY <1>4 DEF Logout, Open, Issued, TypeOK
  <2>2. ended' = ended \cup {root[x] : x \in {y \in {t} : Open(y)}}
    BY <1>4 DEF Logout
  <2> QED
    BY <2>1, <2>2, RevokedKeeps
<1>5. ASSUME NEW c \in Codes, NEW u \in Users, RequestReset(c, u) PROVE SessionInv'
  BY <1>5, QuietKeeps DEF RequestReset
<1>6. CASE Tick
  BY <1>6, QuietKeeps DEF Tick
<1> QED
  BY <1>1, <1>2, <1>3, <1>4, <1>5, <1>6, ExpireKeeps DEF Next

-----------------------------------------------------------------------------
(* Password changes *)

\* The tokens of a session belong to one user: a rotation takes the user over.
OneUser ==
    /\ \A t \in Token : root[t].user = t.user
    /\ \A r \in Requests :
         job[r].step \in {"rotate", "insert"} => job[r].next.user = job[r].old.user

\* The revocation after a change of password is of every organization.
Everywhere ==
    \A r \in Requests :
        job[r].step \in {"revoke", "revoking"} /\ job[r].changed => job[r].orgs = Orgs

\* The change of password of request r is still going to revoke t.
Ends(r, t) ==
    /\ Changing(r) /\ job[r].user = t.user
    /\ job[r].step = "revoking" => t \in job[r].found

\* An open token is of a session opened with the password in force, or excused, or
\* about to be revoked.
Covered ==
    \A t \in Token : Open(t) =>
        \/ under[root[t]] = password[t.user]
        \/ root[t] \in excused
        \/ \E r \in Requests : Ends(r, t)

ChangeInv == OneUser /\ Everywhere /\ Covered

\* What a step of request r that puts the job j in its place does to the others.
LEMMA GoOne ==
    ASSUME TypeOK, NEW r \in Requests, NEW j, Go(r, j)
    PROVE  \A q \in Requests : job'[q] = IF q = r THEN j ELSE job[q]
  BY DEF TypeOK, Go

\* Tokens have a user, and so have the tokens requests and histories hold.
LEMMA TokenTypes ==
    ASSUME TypeOK
    PROVE  /\ \A t \in Token : t.user \in Users /\ t.org \in Orgs
           /\ \A t \in Token : root[t] \in Token
           /\ excused \subseteq Token
           /\ \A r \in Requests : job[r].step \in {"rotate", "insert"} =>
                job[r].old \in Token /\ job[r].next \in Token
           /\ \A t \in Token : Open(t) => Issued(t)
  BY JobShape DEF TypeOK, Token, RotateJob, Open, Issued

\* A step that opens no token, changes no password and no history but excuses,
\* and leaves every change of password as it was, keeps the invariant.
LEMMA StillCovered ==
    ASSUME TypeOK, ChangeInv, UNCHANGED <<password, root, under>>,
           \A t \in Token : Open(t)' => Open(t),
           excused \subseteq excused',
           NEW r \in Requests, NEW j, Go(r, j),
           j.step \in {"rotate", "insert"} => j.next.user = j.old.user,
           j.step \in {"revoke", "revoking"} /\ j.changed => j.orgs = Orgs,
           \A t \in Token : Open(t)' /\ Ends(r, t) => root[t] \in excused' \/ Ends(r, t)'
    PROVE  ChangeInv'
<1>1. \A q \in Requests : job'[q] = IF q = r THEN j ELSE job[q]
  BY GoOne
<1>2. OneUser'
  BY <1>1 DEF ChangeInv, OneUser
<1>3. Everywhere'
  BY <1>1 DEF ChangeInv, Everywhere
<1>4. \A q \in Requests, t \in Token : q # r /\ Ends(q, t) => Ends(q, t)'
  BY <1>1 DEF Ends, Changing
<1>5. Covered'
  BY <1>4 DEF ChangeInv, Covered
<1> QED
  BY <1>2, <1>3, <1>5 DEF ChangeInv

\* The same for a step of no request.
LEMMA StillCoveredAlone ==
    ASSUME TypeOK, ChangeInv, UNCHANGED <<password, root, under, excused, job>>,
           \A t \in Token : Open(t)' => Open(t)
    PROVE  ChangeInv'
<1>1. OneUser' /\ Everywhere'
  BY DEF ChangeInv, OneUser, Everywhere
<1>2. \A q \in Requests, t \in Token : Ends(q, t)' <=> Ends(q, t)
  BY DEF Ends, Changing
<1> QED
  BY <1>1, <1>2 DEF ChangeInv, Covered

\* A change of password, about to revoke every token of its user, covers them all.
LEMMA ChangeCovers ==
    ASSUME TypeOK, ChangeInv, UNCHANGED <<token, root, under, excused>>,
           NEW r \in Requests, NEW j, Go(r, j),
           NEW u \in Users, \A v \in Users \ {u} : password'[v] = password[v],
           j.user = u, j.step \in {"mark", "revoke"},
           j.step = "revoke" => j.changed /\ j.orgs = Orgs,
           \A t \in Token : Ends(r, t) => t.user = u
    PROVE  ChangeInv'
<1>1. \A q \in Requests : job'[q] = IF q = r THEN j ELSE job[q]
  BY GoOne
<1>2. OneUser' /\ Everywhere'
  BY <1>1 DEF ChangeInv, OneUser, Everywhere
<1>3. \A t \in Token : t.user = u => Ends(r, t)'
  BY <1>1 DEF Ends, Changing
<1>4. \A q \in Requests, t \in Token : q # r /\ Ends(q, t) => Ends(q, t)'
  BY <1>1 DEF Ends, Changing
<1>5. \A t \in Token : Open(t)' <=> Open(t)
  BY DEF Open
<1>6. Covered'
  <2> SUFFICES ASSUME NEW t \in Token, Open(t), t.user # u
               PROVE  \/ under[root[t]] = password'[t.user]
                      \/ root[t] \in excused
                      \/ \E q \in Requests : Ends(q, t)'
    BY <1>3, <1>5 DEF Covered
  <2>1. password'[t.user] = password[t.user]
    BY TokenTypes
  <2> QED
    BY <1>4, <2>1 DEF ChangeInv, Covered
<1> QED
  BY <1>2, <1>6 DEF ChangeInv

\* A login opens a session with the password it presented, or is excused.
LEMMA LoginCovered ==
    ASSUME TypeOK, SessionInv, ChangeInv, NEW r \in Requests, LoginSave(r)
    PROVE  ChangeInv'
<1> DEFINE n == Fresh(job[r].user, job[r].org)
<1>1. /\ n \in Token /\ ~Issued(n) /\ root[n] = n /\ job[r].version \in Version
  BY JobShape, FreshTyped DEF LoginSave, SessionInv, Rooted
<1>2. /\ \A t \in Token : token'[t] = IF t = n THEN "valid" ELSE token[t]
      /\ \A t \in Token : under'[t] = IF t = n THEN job[r].version ELSE under[t]
      /\ excused' = IF job[r].version # password[n.user] THEN excused \cup {n} ELSE excused
      /\ UNCHANGED <<root, password>>
  BY <1>1 DEF LoginSave, TypeOK
<1>3. /\ \A q \in Requests : job'[q] = IF q = r THEN Idle ELSE job[q]
      /\ job[r].step = "login"
  BY GoOne DEF LoginSave
<1> HIDE DEF n
<1>4. OneUser' /\ Everywhere'
  BY <1>2, <1>3 DEF ChangeInv, OneUser, Everywhere, Idle
<1>5. \A q \in Requests, t \in Token : Ends(q, t) => Ends(q, t)'
  BY <1>3 DEF Ends, Changing
<1>6. Covered'
  <2> SUFFICES ASSUME NEW t \in Token, Open(t)'
               PROVE  \/ under'[root[t]] = password[t.user]
                      \/ root[t] \in excused'
                      \/ \E q \in Requests : Ends(q, t)'
    BY <1>2 DEF Covered
  <2>1. CASE t = n
    BY <1>1, <1>2, <2>1
  <2>2. CASE t # n
    <3>1. Open(t)
      BY <1>2, <2>2 DEF Open
    <3>2. root[t] \in Token /\ root[t] # n
      BY <1>1, <3>1, TokenTypes DEF SessionInv, Rooted
    <3>3. under'[root[t]] = under[root[t]]
      BY <1>2, <3>2
    <3> QED
      BY <1>2, <1>5, <3>1, <3>3 DEF ChangeInv, Covered
  <2> QED
    BY <2>1, <2>2
<1> QED
  BY <1>4, <1>6 DEF ChangeInv

\* The new token of a rotation is covered as the old one was, or the revocation
\* that covered the old one has been overtaken.
LEMMA RotationCovered ==
    ASSUME TypeOK, SessionInv, ChangeInv, NEW r \in Requests, RotateCommit(r)
    PROVE  ChangeInv'
<1> DEFINE old  == job[r].old
           next == job[r].next
<1>1. /\ old \in Token /\ next \in Token /\ Open(old) /\ next.user = old.user
      /\ job[r].step = "insert"
  BY TokenTypes DEF RotateCommit, SessionInv, Inserting, ChangeInv, OneUser
<1>2. /\ \A t \in Token : token'[t] = IF t = next THEN "valid" ELSE IF t = old THEN "revoked" ELSE token[t]
      /\ \A t \in Token : root'[t] = IF t = next THEN root[old] ELSE root[t]
      /\ excused' = IF Overtaken(old) THEN excused \cup {root[old]} ELSE excused
      /\ UNCHANGED <<under, password>>
  BY <1>1 DEF RotateCommit, TypeOK
<1>3. \A q \in Requests : job'[q] = IF q = r THEN Idle ELSE job[q]
  BY GoOne DEF RotateCommit
<1> HIDE DEF old, next
<1>4. OneUser' /\ Everywhere'
  <2>1. \A t \in Token : root'[t].user = t.user
    BY <1>1, <1>2 DEF ChangeInv, OneUser
  <2> QED
    BY <1>3, <2>1 DEF ChangeInv, OneUser, Everywhere, Idle
<1>5. \A q \in Requests, t \in Token : Ends(q, t) => Ends(q, t)'
  BY <1>1, <1>3 DEF Ends, Changing
<1>6. Covered'
  <2> SUFFICES ASSUME NEW t \in Token, Open(t)'
               PROVE  \/ under[root'[t]] = password[t.user]
                      \/ root'[t] \in excused'
                      \/ \E q \in Requests : Ends(q, t)'
    BY <1>2 DEF Covered
  <2>1. CASE t = next
    <3>1. root'[t] = root[old]
      BY <1>1, <1>2, <2>1
    <3>2. CASE \E q \in Requests : Ends(q, old)
      <4>1. PICK q \in Requests : Ends(q, old)
        BY <3>2
      <4>2. CASE job[q].step = "revoking"
        <5>1. Overtaken(old)
          BY <4>1, <4>2 DEF Ends, Changing, Overtaken
        <5> QED
          BY <1>2, <3>1, <5>1
      <4>3. CASE job[q].step # "revoking"
        <5>1. Ends(q, next)
          BY <1>1, <4>1, <4>3 DEF Ends, Changing
        <5> QED
          BY <1>5, <2>1, <5>1
      <4> QED
        BY <4>2, <4>3
    <3>3. CASE ~\E q \in Requests : Ends(q, old)
      BY <1>1, <1>2, <2>1, <3>1, <3>3 DEF ChangeInv, Covered
    <3> QED
      BY <3>2, <3>3
  <2>2. CASE t # next
    <3>1. Open(t) /\ root'[t] = root[t]
      BY <1>2, <2>2 DEF Open
    <3> QED
      BY <1>2, <1>5, <3>1 DEF ChangeInv, Covered
  <2> QED
    BY <2>1, <2>2
<1> QED
  BY <1>4, <1>6 DEF ChangeInv

\* The snapshot of a revocation after a change of password misses no open token.
LEMMA RevokeStartCovered ==
    ASSUME TypeOK, ChangeInv, NEW r \in Requests, RevokeStart(r)
    PROVE  ChangeInv'
<1> DEFINE f == {t \in Token : Issued(t) /\ t.user = job[r].user /\ t.org \in job[r].orgs}
           j == [job[r] EXCEPT !.step = "revoking", !.found = f]
<1>1. Go(r, j) /\ job[r] \in RevokeJob /\ job[r].step = "revoke"
  BY JobShape DEF RevokeStart
<1>2. \A t \in Token : Issued(t) /\ t.user = job[r].user /\ job[r].orgs = Orgs => t \in f
  BY TokenTypes
<1> HIDE DEF f
<1>3. /\ j.step = "revoking" /\ j.found = f /\ j.user = job[r].user
      /\ j.changed = job[r].changed /\ j.orgs = job[r].orgs
  BY <1>1 DEF RevokeJob
<1> HIDE DEF j
<1>4. UNCHANGED <<token, password, root, under, excused>>
  BY DEF RevokeStart, rows, history
<1>5. \A t \in Token : Open(t)' => Open(t)
  BY <1>4 DEF Open
<1>6. j.changed => j.orgs = Orgs
  BY <1>1, <1>3 DEF ChangeInv, Everywhere
<1>7. job'[r] = j
  BY <1>1, GoOne
<1>8. \A t \in Token : Open(t) /\ Ends(r, t) => Ends(r, t)'
  BY <1>1, <1>2, <1>3, <1>6, <1>7, TokenTypes DEF Ends, Changing
<1> QED
  BY <1>1, <1>3, <1>4, <1>5, <1>6, <1>8, StillCovered

\* A revocation that ends has revoked every token it covered.
LEMMA RevokeFinishCovered ==
    ASSUME TypeOK, ChangeInv, NEW r \in Requests, RevokeFinish(r)
    PROVE  ChangeInv'
<1>1. /\ Go(r, Idle) /\ UNCHANGED <<password, root, under, excused>>
      /\ job[r].step = "revoking"
      /\ \A t \in Token : token'[t] = IF t \in job[r].found THEN "revoked" ELSE token[t]
  BY DEF RevokeFinish
<1>2. \A t \in Token : Open(t)' => Open(t) /\ t \notin job[r].found
  BY <1>1 DEF Open
<1>3. Idle.step = "idle"
  BY DEF Idle
<1>4. \A t \in Token : Open(t)' => ~Ends(r, t)
  BY <1>1, <1>2 DEF Ends
<1> HIDE DEF Idle
<1> QED
  BY <1>1, <1>2, <1>3, <1>4, StillCovered

\* A request that fails excuses the sessions of the user whose password it changed.
LEMMA FailCovered ==
    ASSUME TypeOK, ChangeInv, NEW r \in Requests, Fail(r)
    PROVE  ChangeInv'
<1>1. Go(r, Idle) /\ UNCHANGED <<token, password, root, under>>
  BY DEF Fail, rows
<1>2. /\ excused \subseteq excused'
      /\ Changing(r) => \A t \in Token : t.user = job[r].user => t \in excused'
  BY DEF Fail
<1>3. \A t \in Token : Ends(r, t) => root[t] \in excused'
  <2> SUFFICES ASSUME NEW t \in Token, Ends(r, t) PROVE root[t] \in excused'
    OBVIOUS
  <2>1. root[t] \in Token /\ root[t].user = job[r].user
    BY TokenTypes DEF Ends, ChangeInv, OneUser
  <2> QED
    BY <1>2, <2>1 DEF Ends
<1>4. Idle.step = "idle"
  BY DEF Idle
<1>5. \A t \in Token : Open(t)' => Open(t)
  BY <1>1 DEF Open
<1> QED
  BY <1>1, <1>2, <1>3, <1>4, <1>5, StillCovered

\* A step of a request that changes no password and whose request is not in the
\* middle of a change.
LEMMA AsideCovered ==
    ASSUME TypeOK, ChangeInv, UNCHANGED <<token, password, root, under, excused>>,
           NEW r \in Requests, NEW j, Go(r, j), ~Changing(r),
           j.step \in {"rotate", "insert"} => j.next.user = j.old.user,
           j.step \in {"revoke", "revoking"} /\ j.changed => j.orgs = Orgs
    PROVE  ChangeInv'
<1>1. \A t \in Token : Open(t)' => Open(t)
  BY DEF Open
<1>2. \A t \in Token : ~Ends(r, t)
  BY DEF Ends
<1> QED
  BY <1>1, <1>2, StillCovered

\* Every step keeps open tokens covered.
LEMMA ChangesKept ==
    ASSUME TypeOK, SessionInv, ChangeInv, Next
    PROVE  ChangeInv'
<1> USE DEF rows, history
<1>1. ASSUME NEW r \in Requests, Begin(r) PROVE ChangeInv'
  <2>1. job[r] = Idle
    BY <1>1 DEF Begin, LoginRead, RefreshRead, LogoutAll, ChangeRead, ResetRead
  <2>2. ~Changing(r)
    BY <2>1 DEF Changing, Idle
  <2>3. UNCHANGED <<token, password, root, under, excused>>
    BY <1>1 DEF Begin, LoginRead, RefreshRead, LogoutAll, ChangeRead, ResetRead
  <2>4. ASSUME NEW t \in Token, RefreshRead(r, t) PROVE ChangeInv'
    <3>1. Fresh(t.user, t.org).user = t.user
      BY DEF Fresh
    <3> QED
      BY <2>2, <2>3, <2>4, <3>1, AsideCovered DEF RefreshRead
  <2> QED
    BY <1>1, <2>2, <2>3, <2>4, AsideCovered
       DEF Begin, LoginRead, LogoutAll, ChangeRead, ResetRead, Revoke
<1>2. ASSUME NEW r \in Requests, Proceed(r) PROVE ChangeInv'
  <2>1. CASE LoginClash(r) \/ RotateRefused(r) \/ RotateClash(r)
    BY <2>1, AsideCovered DEF LoginClash, RotateRefused, RotateClash, Idle, Changing
  <2>2. CASE RotateUpdate(r)
    <3> DEFINE j == [job[r] EXCEPT !.step = "insert"]
    <3>1. Go(r, j) /\ job[r] \in RotateJob /\ job[r].step = "rotate"
      BY <2>2, JobShape DEF RotateUpdate
    <3>2. j.step = "insert" /\ j.old = job[r].old /\ j.next = job[r].next
      BY <3>1 DEF RotateJob
    <3> HIDE DEF j
    <3>3. j.next.user = j.old.user
      BY <3>1, <3>2 DEF ChangeInv, OneUser
    <3> QED
      BY <2>2, <3>1, <3>2, <3>3, AsideCovered DEF RotateUpdate, Changing
  <2>3. CASE ChangeWrite(r)
    <3>1. job[r].user \in Users
      BY <2>3, JobShape DEF ChangeWrite
    <3>2. \A v \in Users \ {job[r].user} : password'[v] = password[v]
      BY <2>3 DEF ChangeWrite, SetPassword, TypeOK
    <3>3. \A t \in Token : ~Ends(r, t)
      BY <2>3 DEF ChangeWrite, Ends, Changing
    <3> QED
      BY <2>3, <3>1, <3>2, <3>3, ChangeCovers DEF ChangeWrite, Revoke, RevokedOrgs
  <2>4. CASE ResetWrite(r)
    <3> DEFINE j == [job[r] EXCEPT !.step = "mark"]
    <3>1. Go(r, j) /\ job[r] \in ResetJob
      BY <2>4, JobShape DEF ResetWrite
    <3>2. j.step = "mark" /\ j.user = job[r].user /\ job[r].user \in Users
      BY <3>1 DEF ResetJob
    <3> HIDE DEF j
    <3>3. \A v \in Users \ {job[r].user} : password'[v] = password[v]
      BY <2>4 DEF ResetWrite, SetPassword, TypeOK
    <3>4. \A t \in Token : ~Ends(r, t)
      BY <2>4 DEF ResetWrite, Ends, Changing
    <3> QED
      BY <2>4, <3>1, <3>2, <3>3, <3>4, ChangeCovers DEF ResetWrite
  <2>5. CASE ResetMark(r)
    <3>1. job[r].user \in Users
      BY <2>5, JobShape DEF ResetMark, ResetJob
    <3>2. \A t \in Token : Ends(r, t) => t.user = job[r].user
      BY DEF Ends
    <3> QED
      BY <2>5, <3>1, <3>2, ChangeCovers DEF ResetMark, Revoke, RevokedOrgs
  <2> QED
    BY <1>2, <2>1, <2>2, <2>3, <2>4, <2>5, LoginCovered, RotationCovered, RevokeStartCovered,
       RevokeFinishCovered DEF Proceed
<1>3. ASSUME NEW r \in Requests, Fail(r) PROVE ChangeInv'
  BY <1>3, FailCovered
<1>4. ASSUME NEW t \in Token, Logout(t) PROVE ChangeInv'
  <2>1. \A x \in Token : Open(x)' => Open(x)
    BY <1>4 DEF Logout, Open, TypeOK
  <2> QED
    BY <1>4, <2>1, StillCoveredAlone DEF Logout
<1>5. CASE Tick \/ \E c \in Codes, u \in Users : RequestReset(c, u)
  BY <1>5, StillCoveredAlone DEF Tick, RequestReset, Open
<1>6. CASE Expire
  <2>1. \A x \in Token : Open(x)' => Open(x)
    BY <1>6 DEF Expire, Open, TypeOK
  <2> QED
    BY <1>6, <2>1, StillCoveredAlone DEF Expire
<1> QED
  BY <1>1, <1>2, <1>3, <1>4, <1>5, <1>6 DEF Next

-----------------------------------------------------------------------------
(* Theorems *)

\* The invariant holds initially.
LEMMA InitSInv == Init => SInv
<1> SUFFICES ASSUME Init PROVE SInv
  OBVIOUS
<1>1. TypeOK
  BY BoundsAreNat DEF Init, TypeOK, Version, Job
<1>2. Coded
  BY DEF Init, Coded, Idle
<1>3. \A t \in Token : ~Issued(t) /\ ~Open(t) /\ ~Session(t)
  BY DEF Init, Issued, Open, Session
<1>4. Rooted /\ OneOpen /\ Kept /\ Over
  BY <1>3 DEF Init, Rooted, OneOpen, Kept, Over
<1>5. Inserting /\ Finding
  BY DEF Init, Idle, Inserting, Finding
<1> QED
  BY <1>1, <1>2, <1>4, <1>5 DEF SInv

\* Every step keeps the invariant.
LEMMA NextSInv == SInv /\ [Next]_vars => SInv'
<1> SUFFICES ASSUME SInv, [Next]_vars PROVE SInv'
  OBVIOUS
<1>1. CASE Next
  BY <1>1, TypesKept, SessionsKept DEF SInv, SessionInv
<1>2. CASE UNCHANGED vars
  <2>1. TypeOK' /\ Coded'
    BY <1>2 DEF SInv, vars, TypeOK, Coded
  <2>2. SessionInv'
    BY <1>2, QuietKeeps DEF SInv, SessionInv, vars
  <2> QED
    BY <2>1, <2>2 DEF SInv, SessionInv
<1> QED
  BY <1>1, <1>2

\* Every variable keeps its type (the rows of model/auth.ts).
THEOREM SessionTyping == Spec => []TypeOK
<1>1. SInv => TypeOK
  BY DEF SInv
<1> QED
  BY <1>1, InitSInv, NextSInv, PTL DEF Spec

\* Whatever refreshes, logouts and password changes run at once, a session has
\* exactly one token until it is ended and none after (the compare of is_revoked
\* and the transaction in rotateRefreshToken).
THEOREM OneTokenHolds == Spec => []OneTokenPerSession
<1>1. SInv => OneTokenPerSession
  <2> SUFFICES ASSUME SInv, NEW s \in Token, Session(s)
               PROVE  IF s \in ended THEN OpenTokens(s) = {}
                                     ELSE \E t \in Token : OpenTokens(s) = {t}
    BY DEF OneTokenPerSession
  <2>1. CASE s \in ended
    BY <2>1 DEF SInv, Over, OpenTokens
  <2>2. CASE s \notin ended
    <3>1. PICK t \in Token : Open(t) /\ root[t] = s
      BY <2>2 DEF SInv, Kept
    <3>2. OpenTokens(s) = {t}
      BY <3>1 DEF SInv, OneOpen, OpenTokens
    <3> QED
      BY <2>2, <3>2
  <2> QED
    BY <2>1, <2>2
<1> QED
  BY <1>1, InitSInv, NextSInv, PTL DEF Spec

\* Open tokens are covered initially: there are none.
LEMMA InitChangeInv == Init => ChangeInv
<1> SUFFICES ASSUME Init PROVE ChangeInv
  OBVIOUS
<1>1. \A t \in Token : ~Open(t)
  BY DEF Init, Open
<1> QED
  BY <1>1 DEF Init, Idle, ChangeInv, OneUser, Everywhere, Covered

\* The sessions and what covers them are kept together.
LEMMA NextChangeInv == SInv /\ ChangeInv /\ [Next]_vars => ChangeInv'
<1> SUFFICES ASSUME SInv, ChangeInv, [Next]_vars PROVE ChangeInv'
  OBVIOUS
<1>1. CASE Next
  BY <1>1, ChangesKept DEF SInv, SessionInv
<1>2. CASE UNCHANGED vars
  BY <1>2, StillCoveredAlone DEF vars, SInv, Open
<1> QED
  BY <1>1, <1>2

\* A change of password ends every session opened with an older one, in every
\* organization, but those opened or rotated while it went on and those of a
\* request that failed (changePassword, resetPassword, revokeAllRefreshTokensForUser).
THEOREM OldSessionsEndHolds == Spec => []OldSessionsEnd
<1>1. ChangeInv => OldSessionsEnd
  BY DEF ChangeInv, Covered, Ends, OldSessionsEnd, Open
<1> QED
  BY <1>1, InitSInv, NextSInv, InitChangeInv, NextChangeInv, PTL DEF Spec

=============================================================================
