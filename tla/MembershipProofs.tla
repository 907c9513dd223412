-------------------------- MODULE MembershipProofs --------------------------
(***************************************************************************)
(* Proofs about Membership, for any number of users, of requests in flight *)
(* and of invitations: its variables keep their types and a removed member *)
(* is signed out; a dead link stays dead, nobody who left comes back but   *)
(* by invitation, and what the checks of a request are for holds unless    *)
(* another request wrote in between.                                       *)
(***************************************************************************)
EXTENDS Membership, TLAPS

-----------------------------------------------------------------------------
(* The inductive invariant *)

\* A request about to assign a role holds one.
RoleNamed ==
    \A r \in Requests : job[r].step \in {"invite role", "assign"} => job[r].role \in Role

\* A session that was not opened past a check is a member's, or about to end.
Leaving ==
    \A u \in session \ loose :
        \/ status[u] \in {"active", "suspended"}
        \/ \E r \in Requests : At(r, "revoke") /\ job[r].user = u

\* What the checks of request r found out, and its next write relies on.
Holds(r) ==
    /\ At(r, "invite") => Invitable(job[r].user)
    /\ At(r, "activate") => /\ status[job[r].user] = "invited"
                            /\ invite[job[r].user] \in {job[r].token, 0}
    /\ At(r, "replace") => roles[job[r].user] \subseteq job[r].left \cup {job[r].role}
    /\ job[r].step \in {"remove roles", "remove row"} => owner # job[r].user
    /\ At(r, "transfer") => owner = job[r].actor /\ status[job[r].user] = "active"

\* It still holds for a request in whose course no other one wrote.
Uncrossed == \A r \in Requests \ crossed : Holds(r)

MInv == TypeOK /\ RoleNamed /\ Leaving /\ Uncrossed

-----------------------------------------------------------------------------
(* Types *)

\* What a request holds at each of its steps.
LEMMA JobShape ==
    ASSUME TypeOK, NEW r \in Requests
    PROVE  /\ job[r] # Idle <=> job[r].step # "idle"
           /\ job[r] # Idle => job[r].user \in Users
           /\ job[r].step \in {"accept role", "sign in", "suspend", "reactivate",
                             "remove roles", "remove row", "revoke"} => job[r] \in PlainJob
           /\ job[r].step \in {"invite", "invite role", "assign", "unassign"} => job[r] \in RoleJob
           /\ job[r].step = "activate" => job[r] \in AcceptJob
           /\ job[r].step = "replace" => job[r] \in ReplaceJob
           /\ job[r].step \in {"transfer", "transfer role"} => job[r] \in TransferJob
<1>1. PICK j : j = job[r]
  OBVIOUS
<1>2. \/ j = Idle \/ j \in PlainJob \/ j \in RoleJob
      \/ j \in AcceptJob \/ j \in ReplaceJob \/ j \in TransferJob
  BY <1>1 DEF TypeOK, Job
<1>3. j = Idle => j.step = "idle"
  BY DEF Idle
<1>4. j \in PlainJob => /\ j.user \in Users
                       /\ j.step \in {"accept role", "sign in", "suspend", "reactivate",
                                     "remove roles", "remove row", "revoke"}
  BY DEF PlainJob
<1>5. j \in RoleJob => /\ j.user \in Users
                      /\ j.step \in {"invite", "invite role", "assign", "unassign"}
  BY DEF RoleJob
<1>6. j \in AcceptJob => j.user \in Users /\ j.step = "activate"
  BY DEF AcceptJob
<1>7. j \in ReplaceJob => j.user \in Users /\ j.step = "replace"
  BY DEF ReplaceJob
<1>8. j \in TransferJob => j.user \in Users /\ j.step \in {"transfer", "transfer role"}
  BY DEF TransferJob
<1> QED
  BY <1>1, <1>2, <1>3, <1>4, <1>5, <1>6, <1>7, <1>8

\* A new job in its domain keeps job in its domain, and the others as they are.
LEMMA GoTyped ==
    ASSUME TypeOK, NEW r \in Requests, NEW j \in Job, Go(r, j)
    PROVE  /\ job' \in [Requests -> Job]
           /\ job'[r] = j
           /\ \A q \in Requests \ {r} : job'[q] = job[q]
  BY DEF TypeOK, Go

\* A job with nothing to remember is a job.
LEMMA PlainTyped ==
    ASSUME NEW u \in Users,
           NEW s \in {"accept role", "sign in", "suspend", "reactivate",
                      "remove roles", "remove row", "revoke"}
    PROVE  Plain(s, u) \in Job /\ Plain(s, u).step = s /\ Plain(s, u).user = u
  BY DEF Plain, Job, PlainJob

\* What a request has become after its first step; Cancel is over at once.
Begun(r) ==
    /\ job' \in [Requests -> Job]
    /\ \A q \in Requests \ {r} : job'[q] = job[q]
    /\ job'[r].step \in {"invite role", "assign"} => job'[r].role \in Role
    /\ job'[r].step # "revoke"

\* The first step of a request that reads, and what its checks found.
LEMMA BeginReads ==
    ASSUME TypeOK, NEW r \in Requests, Begin(r), \A a, u \in Users : ~Cancel(r, a, u)
    PROVE  Begun(r) /\ Holds(r)' /\ UNCHANGED <<rows, loose>> /\ job[r] = Idle
<1> USE NamedAreRoles
<1>1. CASE \E u \in Users : AcceptRead(r, u)
  <2>1. PICK u \in Users : AcceptRead(r, u)
    BY <1>1
  <2>2. PICK j : j = [step |-> "activate", user |-> u, token |-> invite[u]]
    OBVIOUS
  <2>3. j \in Job
    BY <2>2, MaxInvitesIsNat DEF Job, AcceptJob, TypeOK, Token
  <2>4. job' \in [Requests -> Job] /\ job'[r] = j /\ \A q \in Requests \ {r} : job'[q] = job[q]
    BY <2>1, <2>2, <2>3, GoTyped DEF AcceptRead
  <2> QED
    BY <2>1, <2>2, <2>4 DEF AcceptRead, Begun, Holds, At, Acceptable, Valid, rows
<1>2. CASE \E u \in Users : LoginRead(r, u)
  <2>1. PICK u \in Users : LoginRead(r, u)
    BY <1>2
  <2>2. Plain("sign in", u) \in Job /\ Plain("sign in", u).step = "sign in"
    BY PlainTyped
  <2>3. job' \in [Requests -> Job] /\ job'[r].step = "sign in"
        /\ \A q \in Requests \ {r} : job'[q] = job[q]
    BY <2>1, <2>2, GoTyped DEF LoginRead
  <2> QED
    BY <2>1, <2>3 DEF LoginRead, Begun, Holds, At
<1>3. CASE \E a, u \in Users : SuspendRead(r, a, u) \/ ReactivateRead(r, a, u)
  <2>1. PICK a \in Users, u \in Users : SuspendRead(r, a, u) \/ ReactivateRead(r, a, u)
    BY <1>3
  <2>2. /\ Plain("suspend", u) \in Job /\ Plain("suspend", u).step = "suspend"
        /\ Plain("reactivate", u) \in Job /\ Plain("reactivate", u).step = "reactivate"
    BY PlainTyped
  <2>3. /\ job' \in [Requests -> Job] /\ job'[r].step \in {"suspend", "reactivate"}
        /\ \A q \in Requests \ {r} : job'[q] = job[q]
    BY <2>1, <2>2, GoTyped DEF SuspendRead, ReactivateRead
  <2> QED
    BY <2>1, <2>3 DEF SuspendRead, ReactivateRead, Asks, Begun, Holds, At
<1>4. CASE \E a, u \in Users : RemoveRead(r, a, u)
  <2>1. PICK a \in Users, u \in Users : RemoveRead(r, a, u)
    BY <1>4
  <2>2. Plain("remove roles", u) \in Job /\ Plain("remove roles", u).step = "remove roles"
        /\ Plain("remove roles", u).user = u
    BY PlainTyped
  <2>3. job' \in [Requests -> Job] /\ job'[r].step = "remove roles" /\ job'[r].user = u
        /\ \A q \in Requests \ {r} : job'[q] = job[q]
    BY <2>1, <2>2, GoTyped DEF RemoveRead
  <2> QED
    BY <2>1, <2>3 DEF RemoveRead, Removable, Asks, Begun, Holds, At, rows
<1>5. CASE \E a, u \in Users : TransferRead(r, a, u)
  <2>1. PICK a \in Users, u \in Users : TransferRead(r, a, u)
    BY <1>5
  <2>2. PICK j : j = [step |-> "transfer", user |-> u, actor |-> a]
    OBVIOUS
  <2>3. j \in Job
    BY <2>2 DEF Job, TransferJob
  <2>4. job' \in [Requests -> Job] /\ job'[r] = j /\ \A q \in Requests \ {r} : job'[q] = job[q]
    BY <2>1, <2>2, <2>3, GoTyped DEF TransferRead
  <2> QED
    BY <2>1, <2>2, <2>4 DEF TransferRead, MayTransfer, Asks, Begun, Holds, At, rows
<1>6. CASE \E a, u \in Users : \E role \in Named : AssignRead(r, a, u, role) \/ UnassignRead(r, a, u, role)
  <2>1. PICK a \in Users, u \in Users, role \in Named :
              AssignRead(r, a, u, role) \/ UnassignRead(r, a, u, role)
    BY <1>6
  <2>2. PICK j : /\ j \in [step: {"assign", "unassign"}, user: {u}, role: {role}]
                 /\ Go(r, j)
    BY <2>1 DEF AssignRead, UnassignRead
  <2>3. j \in Job /\ j.step \in {"assign", "unassign"} /\ j.role \in Role
    BY <2>2 DEF Job, RoleJob, Role
  <2>4. job' \in [Requests -> Job] /\ job'[r] = j /\ \A q \in Requests \ {r} : job'[q] = job[q]
    BY <2>2, <2>3, GoTyped
  <2> QED
    BY <2>1, <2>3, <2>4 DEF AssignRead, UnassignRead, Asks, Begun, Holds, At
<1>7. CASE \E a, u \in Users : \E role \in Named : ReplaceRead(r, a, u, role)
  <2>1. PICK a \in Users, u \in Users, role \in Named : ReplaceRead(r, a, u, role)
    BY <1>7
  <2>2. PICK j : j = [step |-> "replace", user |-> u, role |-> role, left |-> Others(u, role)]
    OBVIOUS
  <2>3. role \in Role /\ Others(u, role) \subseteq Role
    BY DEF Others, TypeOK, Role
  <2>4. j \in Job
    BY <2>2, <2>3 DEF Job, ReplaceJob
  <2>5. job' \in [Requests -> Job] /\ job'[r] = j /\ \A q \in Requests \ {r} : job'[q] = job[q]
    BY <2>1, <2>2, <2>4, GoTyped DEF ReplaceRead
  <2>6. roles'[u] \subseteq j.left \cup {j.role}
    BY <2>1, <2>2 DEF ReplaceRead, Others, rows
  <2> QED
    BY <2>1, <2>2, <2>5, <2>6 DEF ReplaceRead, Asks, Begun, Holds, At
<1>8. CASE \E a, u \in Users : \E role \in Named \cup {NoRole} : InviteRead(r, a, u, role)
  <2>1. PICK a \in Users, u \in Users, role \in Named \cup {NoRole} : InviteRead(r, a, u, role)
    BY <1>8
  <2>2. PICK j : j = [step |-> "invite", user |-> u, role |-> role]
    OBVIOUS
  <2>3. j \in Job
    BY <2>2 DEF Job, RoleJob, Role
  <2>4. job' \in [Requests -> Job] /\ job'[r] = j /\ \A q \in Requests \ {r} : job'[q] = job[q]
    BY <2>1, <2>2, <2>3, GoTyped DEF InviteRead
  <2> QED
    BY <2>1, <2>2, <2>4 DEF InviteRead, Invitable, Asks, Begun, Holds, At, rows
<1> QED
  BY <1>1, <1>2, <1>3, <1>4, <1>5, <1>6, <1>7, <1>8 DEF Begin

\* What a later step of request r does to it: nothing to the others, and what
\* its next write relies on holds unless another request wrote before.
Proceeded(r) ==
    /\ job' \in [Requests -> Job]
    /\ \A q \in Requests \ {r} : job'[q] = job[q]
    /\ job'[r].step \in {"invite role", "assign"} => job'[r].role \in Role
    /\ job'[r].step # "activate" /\ job'[r].step # "invite"
    /\ Holds(r) => Holds(r)'

\* A request that is over relies on nothing.
LEMMA IdleProceeded ==
    ASSUME TypeOK, NEW r \in Requests, Go(r, Idle)
    PROVE  Proceeded(r)
<1>1. Idle \in Job /\ Idle.step = "idle"
  BY DEF Job, Idle
<1>2. job' \in [Requests -> Job] /\ job'[r].step = "idle"
      /\ \A q \in Requests \ {r} : job'[q] = job[q]
  BY <1>1, GoTyped
<1> QED
  BY <1>2 DEF Proceeded, Holds, At

\* Every step of a request after the first does no more to it.
LEMMA ProceedRequests ==
    ASSUME TypeOK, NEW r \in Requests, Proceed(r)
    PROVE  Proceeded(r)
<1> PICK j : j = job[r]
  OBVIOUS
<1>1. CASE Invite(r)
  <2>1. j \in RoleJob
    BY <1>1, JobShape DEF Invite, At
  <2>2. CASE j.role = NoRole
    BY <1>1, <2>2, IdleProceeded DEF Invite, AfterInvite
  <2>3. CASE j.role # NoRole
    <3>1. PICK k : k = [j EXCEPT !.step = "invite role"]
      OBVIOUS
    <3>2. k \in Job /\ k.step = "invite role" /\ k.role \in Role
      BY <2>1, <2>3, <3>1 DEF RoleJob, Job
    <3>3. Go(r, k)
      BY <1>1, <2>3, <3>1 DEF Invite, AfterInvite
    <3> QED
      BY <3>2, <3>3, GoTyped DEF Proceeded, Holds, At
  <2> QED
    BY <2>2, <2>3
<1>2. CASE Activate(r)
  <2>1. j.user \in Users
    BY <1>2, JobShape DEF Activate, At
  <2>2. Plain("accept role", j.user) \in Job /\ Plain("accept role", j.user).step = "accept role"
    BY <2>1, PlainTyped
  <2>3. Go(r, Plain("accept role", j.user))
    BY <1>2 DEF Activate
  <2> QED
    BY <2>2, <2>3, GoTyped DEF Proceeded, Holds, At
<1>3. CASE AcceptRole(r)
  <2>1. j.user \in Users
    BY <1>3, JobShape DEF AcceptRole, At
  <2>2. Plain("sign in", j.user) \in Job /\ Plain("sign in", j.user).step = "sign in"
    BY <2>1, PlainTyped
  <2>3. Go(r, Plain("sign in", j.user))
    BY <1>3 DEF AcceptRole
  <2> QED
    BY <2>2, <2>3, GoTyped DEF Proceeded, Holds, At
<1>4. CASE \E role \in Role : ReplaceDrop(r, role)
  <2>1. PICK role \in Role : ReplaceDrop(r, role)
    BY <1>4
  <2>2. j \in ReplaceJob
    BY <2>1, JobShape DEF ReplaceDrop, At
  <2>3. PICK k : k = [j EXCEPT !.left = @ \ {role}]
    OBVIOUS
  <2>4. /\ k \in Job /\ k.step = "replace" /\ k.user = j.user /\ k.role = j.role
        /\ k.left = j.left \ {role}
    BY <2>2, <2>3 DEF ReplaceJob, Job
  <2>5. Go(r, k)
    BY <2>1, <2>3 DEF ReplaceDrop
  <2>6. roles'[j.user] = roles[j.user] \ {role}
    BY <2>1, <2>2 DEF ReplaceDrop, TypeOK, ReplaceJob
  <2> QED
    BY <2>1, <2>4, <2>5, <2>6, GoTyped DEF ReplaceDrop, Proceeded, Holds, At
<1>5. CASE RemoveRoles(r)
  <2>1. j \in PlainJob
    BY <1>5, JobShape DEF RemoveRoles, At
  <2>2. PICK k : k = [j EXCEPT !.step = "remove row"]
    OBVIOUS
  <2>3. k \in Job /\ k.step = "remove row" /\ k.user = j.user
    BY <2>1, <2>2 DEF PlainJob, Job
  <2>4. Go(r, k)
    BY <1>5, <2>2 DEF RemoveRoles
  <2> QED
    BY <1>5, <2>3, <2>4, GoTyped DEF RemoveRoles, Proceeded, Holds, At
<1>6. CASE RemoveRow(r)
  <2>1. j.user \in Users
    BY <1>6, JobShape DEF RemoveRow, At
  <2>2. Plain("revoke", j.user) \in Job /\ Plain("revoke", j.user).step = "revoke"
    BY <2>1, PlainTyped
  <2>3. Go(r, Plain("revoke", j.user))
    BY <1>6 DEF RemoveRow
  <2> QED
    BY <2>2, <2>3, GoTyped DEF Proceeded, Holds, At
<1>7. CASE Transfer(r)
  <2>1. j \in TransferJob
    BY <1>7, JobShape DEF Transfer, At
  <2>2. PICK k : k = [j EXCEPT !.step = "transfer role"]
    OBVIOUS
  <2>3. k \in Job /\ k.step = "transfer role"
    BY <2>1, <2>2 DEF TransferJob, Job
  <2>4. Go(r, k)
    BY <1>7, <2>2 DEF Transfer
  <2> QED
    BY <2>3, <2>4, GoTyped DEF Proceeded, Holds, At
<1>8. CASE \/ InviteRole(r) \/ SignIn(r) \/ Suspend(r) \/ Reactivate(r) \/ Assign(r)
           \/ Unassign(r) \/ ReplaceAdd(r) \/ RemoveRevoke(r) \/ TransferRole(r)
  BY <1>8, IdleProceeded DEF InviteRole, SignIn, Suspend, Reactivate, SetStatus, Assign,
     Unassign, ReplaceAdd, RemoveRevoke, TransferRole
<1> QED
  BY <1>1, <1>2, <1>3, <1>4, <1>5, <1>6, <1>7, <1>8 DEF Proceed

\* A later step of a request keeps the rows in their domains.
LEMMA ProceedRows ==
    ASSUME TypeOK, RoleNamed, NEW r \in Requests, Proceed(r)
    PROVE  /\ owner' \in Users
           /\ status' \in [Users -> Status]
           /\ issued' \in Token
           /\ invite' \in [Users -> 0..issued']
           /\ roles' \in [Users -> SUBSET Role]
           /\ session' \subseteq Users /\ known' \subseteq Users
           /\ loose' \subseteq Users
<1> USE DEF TypeOK, At
<1> PICK u : u = job[r].user
  OBVIOUS
<1>0. u \in Users
  BY JobShape DEF Proceed, Invite, InviteRole, Activate, AcceptRole, SignIn, Suspend, Reactivate,
     SetStatus, Assign, Unassign, ReplaceDrop, ReplaceAdd, RemoveRoles, RemoveRow, RemoveRevoke,
     Transfer, TransferRole
<1>1. CASE Invite(r)
  <2>1. issued + 1 \in Token /\ TokenFor(u) \in 0..(issued + 1)
    BY <1>1, MaxInvitesIsNat DEF Invite, Token, TokenFor
  <2>2. invite \in [Users -> 0..(issued + 1)]
    BY MaxInvitesIsNat DEF Token
  <2>3. status' = [status EXCEPT ![u] = "invited"] /\ invite' = [invite EXCEPT ![u] = TokenFor(u)]
        /\ issued' = issued + 1
    BY <1>1 DEF Invite
  <2>4. status' \in [Users -> Status]
    BY <2>3 DEF Status
  <2>5. invite' \in [Users -> 0..issued']
    BY <2>1, <2>2, <2>3
  <2> QED
    BY <1>0, <1>1, <2>1, <2>3, <2>4, <2>5 DEF Invite
<1>2. CASE Activate(r) \/ RemoveRow(r)
  <2>1. /\ status' = status \/ status' = [status EXCEPT ![u] = "active"]
                           \/ status' = [status EXCEPT ![u] = "none"]
        /\ invite' = invite \/ invite' = [invite EXCEPT ![u] = 0]
        /\ UNCHANGED <<owner, issued, roles, session, known, loose>>
    BY <1>2 DEF Activate, RemoveRow
  <2>2. status' \in [Users -> Status]
    BY <2>1 DEF Status
  <2>3. invite' \in [Users -> 0..issued]
    BY <2>1, MaxInvitesIsNat DEF Token
  <2> QED
    BY <2>1, <2>2, <2>3
<1>3. CASE Suspend(r) \/ Reactivate(r)
  BY <1>3 DEF Suspend, Reactivate, SetStatus, Status
<1>4. CASE InviteRole(r) \/ Assign(r) \/ ReplaceAdd(r) \/ AcceptRole(r) \/ TransferRole(r)
  <2>1. job[r].step \in {"invite role", "assign"} => job[r].role \in Role
    BY DEF RoleNamed
  <2>2. job[r].step = "replace" => job[r].role \in Role
    BY JobShape DEF ReplaceJob
  <2>3. PICK role \in Role : roles' = roles \/ roles' = [roles EXCEPT ![u] = roles[u] \cup {role}]
    BY <1>0, <1>4, <2>1, <2>2
    DEF InviteRole, Assign, ReplaceAdd, AcceptRole, TransferRole, Role
  <2>4. UNCHANGED <<owner, status, invite, issued, session, known, loose>>
    BY <1>4 DEF InviteRole, Assign, ReplaceAdd, AcceptRole, TransferRole
  <2> QED
    BY <1>0, <2>3, <2>4
<1>5. CASE Unassign(r) \/ (\E role \in Role : ReplaceDrop(r, role)) \/ RemoveRoles(r)
  <2>1. PICK gone : roles' = [roles EXCEPT ![u] = roles[u] \ gone]
    <3>1. CASE Unassign(r)
      BY <3>1 DEF Unassign
    <3>2. CASE \E role \in Role : ReplaceDrop(r, role)
      BY <3>2 DEF ReplaceDrop
    <3>3. CASE RemoveRoles(r)
      <4>1. roles[u] \ roles[u] = {}
        OBVIOUS
      <4> QED
        BY <3>3, <4>1 DEF RemoveRoles
    <3> QED
      BY <1>5, <3>1, <3>2, <3>3
  <2>2. UNCHANGED <<owner, status, invite, issued, session, known, loose>>
    BY <1>5 DEF Unassign, ReplaceDrop, RemoveRoles
  <2> QED
    BY <2>1, <2>2
<1>6. CASE SignIn(r) \/ RemoveRevoke(r)
  BY <1>0, <1>6 DEF SignIn, RemoveRevoke
<1>7. CASE Transfer(r)
  BY <1>0, <1>7 DEF Transfer
<1> QED
  BY <1>1, <1>2, <1>3, <1>4, <1>5, <1>6, <1>7 DEF Proceed

\* A cancellation keeps the rows in their domains and is over at once.
LEMMA CancelStep ==
    ASSUME TypeOK, NEW r \in Requests, NEW a \in Users, NEW u \in Users, Cancel(r, a, u)
    PROVE  /\ status' \in [Users -> Status]
           /\ invite' \in [Users -> 0..issued']
           /\ job' = job /\ job[r] = Idle
  BY MaxInvitesIsNat DEF TypeOK, Cancel, Asks, Status, Token

\* A step of request r leaves the other requests as they are, and what its own
\* next write relies on holds unless another request wrote before.
LEMMA StepRequests ==
    ASSUME TypeOK, Uncrossed, NEW r \in Requests, Begin(r) \/ Proceed(r) \/ Fail(r), Cross(r)
    PROVE  /\ job' \in [Requests -> Job]
           /\ \A q \in Requests \ {r} : job'[q] = job[q]
           /\ job'[r].step \in {"invite role", "assign"} =>
                 job[r] = job'[r] \/ job'[r].role \in Role
           /\ r \notin crossed' => Holds(r)'
<1>0. Idle.step = "idle"
  BY DEF Idle
<1>1. job'[r] = Idle => Holds(r)'
  BY <1>0 DEF Holds, At
<1>2. r \in crossed /\ job'[r] # Idle => r \in crossed'
  BY DEF Cross
<1>3. CASE \E a, u \in Users : Cancel(r, a, u)
  <2>1. job' = job /\ job[r] = Idle
    BY <1>3, CancelStep
  <2> QED
    BY <1>1, <2>1 DEF TypeOK
<1>4. CASE Begin(r) /\ \A a, u \in Users : ~Cancel(r, a, u)
  BY <1>4, BeginReads DEF Begun
<1>5. CASE Proceed(r)
  <2>1. r \notin crossed => Holds(r)
    BY DEF Uncrossed
  <2> QED
    BY <1>1, <1>2, <1>5, <2>1, ProceedRequests DEF Proceeded
<1>6. CASE Fail(r)
  <2>1. Proceeded(r) /\ job'[r] = Idle
    BY <1>6, IdleProceeded DEF Fail, Go, TypeOK
  <2> QED
    BY <1>1, <2>1 DEF Proceeded
<1> QED
  BY <1>3, <1>4, <1>5, <1>6

\* Every step keeps the types.
LEMMA TypeNext ==
    ASSUME TypeOK, RoleNamed, Uncrossed, [Next]_vars
    PROVE  TypeOK'
<1>1. CASE \E r \in Requests : (Begin(r) \/ Proceed(r) \/ Fail(r)) /\ Cross(r)
  <2>1. PICK r \in Requests : (Begin(r) \/ Proceed(r) \/ Fail(r)) /\ Cross(r)
    BY <1>1
  <2>2. job' \in [Requests -> Job]
    BY <2>1, StepRequests
  <2>3. crossed' \subseteq {q \in Requests : job'[q] # Idle}
    BY <2>1 DEF Cross
  <2>4. CASE \E a, u \in Users : Cancel(r, a, u)
    BY <2>2, <2>3, <2>4, CancelStep DEF TypeOK, Cancel
  <2>5. CASE Begin(r) /\ \A a, u \in Users : ~Cancel(r, a, u)
    <3>1. UNCHANGED <<rows, loose>>
      BY <2>5, BeginReads
    <3> QED
      BY <2>2, <2>3, <3>1 DEF TypeOK, rows
  <2>6. CASE Proceed(r)
    BY <2>2, <2>3, <2>6, ProceedRows DEF TypeOK
  <2>7. CASE Fail(r)
    <3>1. UNCHANGED rows /\ loose' \subseteq Users
      BY <2>7 DEF Fail, TypeOK
    <3> QED
      BY <2>2, <2>3, <3>1 DEF TypeOK, rows
  <2> QED
    BY <2>1, <2>4, <2>5, <2>6, <2>7
<1>2. CASE \E u \in Users : Expire(u) /\ UNCHANGED crossed
  BY <1>2, MaxInvitesIsNat DEF Expire, TypeOK, Token
<1>3. CASE \E u \in Users : SignOut(u) /\ UNCHANGED crossed
  BY <1>3 DEF SignOut, TypeOK
<1>4. CASE UNCHANGED vars
  BY <1>4 DEF vars, TypeOK
<1> QED
  BY <1>1, <1>2, <1>3, <1>4 DEF Next

-----------------------------------------------------------------------------
(* What the checks found *)

\* No other step changes a role that a request holds.
LEMMA NamedNext ==
    ASSUME TypeOK, RoleNamed, Uncrossed, [Next]_vars
    PROVE  RoleNamed'
<1>1. CASE \E r \in Requests : (Begin(r) \/ Proceed(r) \/ Fail(r)) /\ Cross(r)
  <2>1. PICK r \in Requests : (Begin(r) \/ Proceed(r) \/ Fail(r)) /\ Cross(r)
    BY <1>1
  <2>2. /\ \A q \in Requests \ {r} : job'[q] = job[q]
        /\ job'[r].step \in {"invite role", "assign"} =>
              job[r] = job'[r] \/ job'[r].role \in Role
    BY <2>1, StepRequests
  <2> QED
    BY <2>2 DEF RoleNamed
<1>2. CASE UNCHANGED job
  BY <1>2 DEF RoleNamed
<1> QED
  BY <1>1, <1>2 DEF Next, Expire, SignOut, vars

\* A step of another request that writes nothing leaves what was found.
LEMMA HoldsKept ==
    ASSUME NEW q \in Requests, Holds(q), job'[q] = job[q], UNCHANGED rows
    PROVE  Holds(q)'
  BY DEF Holds, At, Invitable, rows

\* So does an expiration, or the end of a session.
LEMMA HoldsExpired ==
    ASSUME TypeOK, NEW q \in Requests, Holds(q), NEW u \in Users, Expire(u) \/ SignOut(u)
    PROVE  Holds(q)'
<1>1. /\ UNCHANGED <<owner, status, roles, job>>
      /\ \A v \in Users : invite'[v] \in {invite[v], 0}
  BY DEF Expire, SignOut, TypeOK
<1>2. At(q, "activate") => job[q].user \in Users
  BY JobShape DEF At, Idle
<1> QED
  BY <1>1, <1>2 DEF Holds, At, Invitable

\* What a request found holds until another one writes.
LEMMA UncrossedNext ==
    ASSUME TypeOK, Uncrossed, [Next]_vars
    PROVE  Uncrossed'
<1>1. CASE \E r \in Requests : (Begin(r) \/ Proceed(r) \/ Fail(r)) /\ Cross(r)
  <2>1. PICK r \in Requests : (Begin(r) \/ Proceed(r) \/ Fail(r)) /\ Cross(r)
    BY <1>1
  <2>2. \A q \in Requests \ {r} : job'[q] = job[q]
    BY <2>1, StepRequests
  <2>3. r \notin crossed' => Holds(r)'
    BY <2>1, StepRequests
  <2>4. ASSUME NEW q \in Requests \ crossed', q # r
        PROVE  Holds(q)'
    <3>1. CASE job'[q] = Idle
      BY <3>1 DEF Holds, At, Idle
    <3>2. CASE job'[q] # Idle
      <4>1. q \notin crossed /\ rows' = rows
        BY <2>1, <2>4, <3>2 DEF Cross
      <4>2. Holds(q)
        BY <4>1 DEF Uncrossed
      <4> QED
        BY <2>2, <2>4, <4>1, <4>2, HoldsKept
    <3> QED
      BY <3>1, <3>2
  <2> QED
    BY <2>3, <2>4 DEF Uncrossed
<1>2. CASE (\E u \in Users : Expire(u) \/ SignOut(u)) /\ UNCHANGED crossed
  BY <1>2, HoldsExpired DEF Uncrossed
<1>3. CASE UNCHANGED vars
  BY <1>3, HoldsKept DEF Uncrossed, vars, rows
<1> QED
  BY <1>1, <1>2, <1>3 DEF Next

-----------------------------------------------------------------------------
(* Sessions of those who left *)

\* A later step of a request leaves no session behind.
LEMMA LeavingProceed ==
    ASSUME TypeOK, Leaving, NEW r \in Requests, Proceed(r), NEW x \in session' \ loose'
    PROVE  \/ status'[x] \in {"active", "suspended"}
           \/ \E q \in Requests : At(q, "revoke")' /\ job'[q].user = x
<1> USE DEF TypeOK, At
<1> PICK u : u = job[r].user
  OBVIOUS
<1>0. \A q \in Requests \ {r} : job'[q] = job[q]
  BY ProceedRequests DEF Proceeded
<1>1. CASE Invite(r)
  <2>1. /\ job[r].step = "invite" /\ session' = session /\ x \notin loose
        /\ x = u => Invitable(u)
        /\ status' = [status EXCEPT ![u] = "invited"]
    BY <1>1 DEF Invite
  <2>2. x # u => status'[x] = status[x]
    BY <2>1
  <2>3. x = u => status[x] \notin {"active", "suspended"}
    BY <2>1 DEF Invitable
  <2> QED
    BY <1>0, <2>1, <2>2, <2>3 DEF Leaving
<1>2. CASE Activate(r) \/ Suspend(r) \/ Reactivate(r)
  <2>1. /\ job[r].step # "revoke" /\ session' = session /\ loose' = loose
        /\ \/ status' = status
           \/ status' = [status EXCEPT ![u] = "active"]
           \/ status' = [status EXCEPT ![u] = "suspended"]
    BY <1>2 DEF Activate, Suspend, Reactivate, SetStatus
  <2> QED
    BY <1>0, <2>1 DEF Leaving
<1>3. CASE RemoveRow(r)
  <2>1. /\ job[r].step # "revoke" /\ session' = session /\ loose' = loose
        /\ status' = [status EXCEPT ![u] = "none"]
    BY <1>3 DEF RemoveRow
  <2>2. u \in Users
    BY <1>3, JobShape DEF RemoveRow
  <2>3. job'[r] = Plain("revoke", u)
    BY <1>3 DEF RemoveRow, Go
  <2>4. job'[r].step = "revoke" /\ job'[r].user = u
    BY <2>3 DEF Plain
  <2> QED
    BY <1>0, <2>1, <2>4 DEF Leaving
<1>4. CASE SignIn(r)
  <2>1. /\ job[r].step # "revoke" /\ status' = status
        /\ session' = session \cup {u} /\ loose \subseteq loose'
        /\ status[u] # "active" => u \in loose'
    BY <1>4 DEF SignIn
  <2> QED
    BY <1>0, <2>1 DEF Leaving
<1>5. CASE RemoveRevoke(r)
  <2>1. /\ status' = status /\ session' = session \ {u} /\ loose' = loose \ {u}
    BY <1>5 DEF RemoveRevoke
  <2> QED
    BY <1>0, <2>1 DEF Leaving
<1>6. CASE \/ AcceptRole(r) \/ InviteRole(r) \/ Assign(r) \/ Unassign(r) \/ ReplaceAdd(r)
           \/ (\E role \in Role : ReplaceDrop(r, role))
           \/ RemoveRoles(r) \/ Transfer(r) \/ TransferRole(r)
  <2>1. /\ job[r].step # "revoke"
        /\ status' = status /\ session' = session /\ loose' = loose
    BY <1>6 DEF AcceptRole, InviteRole, Assign, Unassign, ReplaceAdd, ReplaceDrop,
       RemoveRoles, Transfer, TransferRole
  <2> QED
    BY <1>0, <2>1 DEF Leaving
<1> QED
  BY <1>1, <1>2, <1>3, <1>4, <1>5, <1>6 DEF Proceed

\* No step leaves a session behind.
LEMMA LeavingNext ==
    ASSUME TypeOK, Leaving, [Next]_vars
    PROVE  Leaving'
<1>1. ASSUME NEW r \in Requests, Begin(r) \/ Proceed(r) \/ Fail(r)
      PROVE  Leaving'
  <2>1. CASE \E a, u \in Users : Cancel(r, a, u)
    BY <2>1 DEF Cancel, Cancellable, Leaving, At, TypeOK
  <2>2. CASE Begin(r) /\ \A a, u \in Users : ~Cancel(r, a, u)
    <3>1. /\ UNCHANGED <<rows, loose>> /\ job[r] = Idle
          /\ \A q \in Requests \ {r} : job'[q] = job[q]
      BY <1>1, <2>2, BeginReads DEF Begun
    <3>2. Idle.step # "revoke"
      BY DEF Idle
    <3> QED
      BY <3>1, <3>2 DEF Leaving, At, rows
  <2>3. CASE Proceed(r)
    BY <2>3, LeavingProceed DEF Leaving
  <2>4. CASE Fail(r)
    <3>1. /\ status' = status /\ session' = session
          /\ \A q \in Requests \ {r} : job'[q] = job[q]
      BY <2>4 DEF Fail, rows, Go, TypeOK
    <3>2. /\ loose \subseteq loose'
          /\ At(r, "revoke") /\ job[r].user \in session => job[r].user \in loose'
      BY <2>4 DEF Fail
    <3> QED
      BY <3>1, <3>2 DEF Leaving, At
  <2> QED
    BY <1>1, <2>1, <2>2, <2>3, <2>4
<1>2. CASE \E u \in Users : Expire(u) \/ SignOut(u)
  BY <1>2 DEF Expire, SignOut, Leaving, At
<1>3. CASE UNCHANGED vars
  BY <1>3 DEF vars, Leaving, At
<1> QED
  BY <1>1, <1>2, <1>3 DEF Next

-----------------------------------------------------------------------------
(* The invariants *)

\* The inductive invariant holds at the start.
LEMMA MInvInit == Init => MInv
<1> SUFFICES ASSUME Init PROVE MInv
  OBVIOUS
<1>1. Idle \in Job /\ Idle.step = "idle"
  BY DEF Job, Idle
<1>2. PICK members \in SUBSET Users :
          /\ status = [u \in Users |-> IF u \in members THEN "active" ELSE "none"]
          /\ session = members /\ known = members
  BY DEF Init
<1>3. TypeOK
  BY <1>1, <1>2, MaxInvitesIsNat DEF Init, TypeOK, Status, Token, Role
<1>4. RoleNamed /\ Uncrossed
  BY <1>1 DEF Init, RoleNamed, Uncrossed, Holds, At
<1>5. Leaving
  BY <1>2 DEF Leaving
<1> QED
  BY <1>3, <1>4, <1>5 DEF MInv

\* It always holds.
LEMMA MInvHolds == Spec => []MInv
<1>1. MInv /\ [Next]_vars => MInv'
  BY TypeNext, NamedNext, LeavingNext, UncrossedNext DEF MInv
<1> QED
  BY <1>1, MInvInit, PTL DEF Spec

\* Once a removal is over the user has no session left, unless the removal failed
\* on the way or the user signed in or was invited past checks made before it; and
\* every variable stays in its domain.
THEOREM RemovedIsSignedOutHolds == Spec => []RemovedIsSignedOut
<1>1. MInv => RemovedIsSignedOut
  BY DEF MInv, Leaving, RemovedIsSignedOut
<1> QED
  BY <1>1, MInvHolds, PTL

-----------------------------------------------------------------------------
(* Action properties *)

\* What one step may do to the row of a user, and to the owner.
LEMMA RowEffects ==
    ASSUME TypeOK, [Next]_vars, NEW u \in Users
    PROVE  /\ \/ status'[u] = "invited" => status[u] = "invited" /\ invite'[u] \in {invite[u], 0}
              \/ /\ invite'[u] = issued + 1
                 /\ \E r \in Requests : /\ At(r, "invite") /\ job[r].user = u
                                        /\ job'[r] # job[r]
           /\ \/ status'[u] = "none" => status[u] \in {"none", "invited"}
              \/ \E r \in Requests : /\ At(r, "remove row") /\ job[r].user = u
                                     /\ job'[r] # job[r]
           /\ status[u] = "none" => status'[u] \in {"none", "invited"}
           /\ owner' # owner => \E r \in Requests : /\ At(r, "transfer") /\ job'[r] # job[r]
                                                  /\ owner' = job[r].user /\ status' = status
<1> USE DEF TypeOK, At
<1>1. CASE \E r \in Requests : Invite(r)
  <2>1. PICK r \in Requests : Invite(r)
    BY <1>1
  <2>2. /\ job[r].step = "invite" /\ owner' = owner
        /\ status' = [status EXCEPT ![job[r].user] = "invited"]
        /\ invite' = [invite EXCEPT ![job[r].user] = issued + 1]
    BY <2>1 DEF Invite, TokenFor
  <2>3. job'[r].step # "invite"
    BY <2>1, ProceedRequests DEF Proceed, Proceeded
  <2> QED
    BY <2>2, <2>3
<1>2. CASE \E r \in Requests : RemoveRow(r)
  <2>1. PICK r \in Requests : RemoveRow(r)
    BY <1>2
  <2>2. /\ job[r].step = "remove row" /\ owner' = owner
        /\ status' = [status EXCEPT ![job[r].user] = "none"]
        /\ invite' = [invite EXCEPT ![job[r].user] = 0]
        /\ job'[r] = Plain("revoke", job[r].user)
    BY <2>1 DEF RemoveRow, Go
  <2>3. Plain("revoke", job[r].user).step = "revoke"
    BY DEF Plain
  <2> QED
    BY <2>2, <2>3
<1>3. CASE \E r \in Requests : Transfer(r)
  <2>1. PICK r \in Requests : Transfer(r)
    BY <1>3
  <2>2. /\ job[r].step = "transfer" /\ owner' = job[r].user
        /\ status' = status /\ invite' = invite
        /\ job'[r] = [job[r] EXCEPT !.step = "transfer role"]
    BY <2>1 DEF Transfer, Go
  <2>3. job'[r].step = "transfer role"
    BY <2>1, <2>2, JobShape DEF TransferJob
  <2> QED
    BY <2>2, <2>3
<1>4. CASE \E r \in Requests : Activate(r) \/ Suspend(r) \/ Reactivate(r)
  <2>1. PICK r \in Requests : Activate(r) \/ Suspend(r) \/ Reactivate(r)
    BY <1>4
  <2>2. PICK to \in {"active", "suspended"} :
          /\ owner' = owner /\ (invite' = invite \/ invite' = [invite EXCEPT ![job[r].user] = 0])
          /\ \/ status' = status
             \/ status[job[r].user] # "none" /\ status' = [status EXCEPT ![job[r].user] = to]
    BY <2>1 DEF Activate, Suspend, Reactivate, SetStatus, HasRow
  <2> QED
    BY <2>2
<1>5. CASE \E r \in Requests : \E a, v \in Users : Cancel(r, a, v)
  BY <1>5 DEF Cancel, Cancellable
<1>6. CASE \E v \in Users : Expire(v) \/ SignOut(v)
  BY <1>6 DEF Expire, SignOut
<1>7. ASSUME NEW r \in Requests, Begin(r) \/ Proceed(r) \/ Fail(r),
             ~Invite(r), ~RemoveRow(r), ~Transfer(r),
             ~Activate(r), ~Suspend(r), ~Reactivate(r), \A a, v \in Users : ~Cancel(r, a, v)
      PROVE  UNCHANGED <<owner, status, invite>>
  <2>1. CASE Begin(r)
    BY <1>7, <2>1, BeginReads DEF rows
  <2>2. CASE Proceed(r)
    BY <1>7, <2>2 DEF Proceed, InviteRole, AcceptRole, SignIn, Assign, Unassign, ReplaceDrop,
       ReplaceAdd, RemoveRoles, RemoveRevoke, TransferRole
  <2>3. CASE Fail(r)
    BY <2>3 DEF Fail, rows
  <2> QED
    BY <1>7, <2>1, <2>2, <2>3
<1>8. CASE UNCHANGED vars
  BY <1>8 DEF vars
<1> QED
  BY <1>1, <1>2, <1>3, <1>4, <1>5, <1>6, <1>7, <1>8 DEF Next

\* A link that was cancelled, replaced or has expired never works again, whatever
\* invitations, suspensions and removals overlap.
THEOREM DeadLinksStayDead == Spec => DeadTokensStayDead
<1>1. MInv /\ [Next]_vars =>
        [\A u \in Users : \A t \in 1..issued : ~Valid(u, t) => ~Valid(u, t)']_vars
  <2> SUFFICES ASSUME MInv, [Next]_vars, NEW u \in Users, NEW t \in 1..issued, Valid(u, t)'
               PROVE  Valid(u, t)
    OBVIOUS
  <2>1. t # issued + 1
    BY MaxInvitesIsNat DEF MInv, TypeOK, Token
  <2> QED
    BY <2>1, RowEffects DEF MInv, Valid
<1> QED
  BY <1>1, MInvHolds, PTL DEF Spec, DeadTokensStayDead

\* Whoever has left comes back by an invitation only, and an acceptance that no
\* other request crossed activates a user whose invitation is still the one presented.
THEOREM BackByInvitationHolds == Spec => BackByInvitation
<1>1. MInv /\ [Next]_vars =>
        [\A u \in Users : status[u] = "none" => status'[u] \in {"none", "invited"}]_vars
  BY RowEffects DEF MInv
<1>2. MInv => [\A r \in Requests \ crossed : Activate(r) =>
                /\ status[job[r].user] = "invited"
                /\ invite[job[r].user] \in {job[r].token, 0}]_vars
  BY DEF MInv, Uncrossed, Holds, Activate
<1> QED
  BY <1>1, <1>2, MInvHolds, PTL DEF Spec, BackByInvitation, ReturnsByInvitation, AcceptedAsInvited

\* Unless another request wrote between its checks and the step, none leaves the
\* organization to someone who is no member, gives away what is not its actor's or
\* turns an active member into an invited one.
THEOREM NobodyIsDisplaced == Spec => NobodyDisplaced
<1>1. MInv /\ [Next]_vars =>
        [\/ Overtaken
         \/ /\ status[owner] \in {"active", "suspended"} => status'[owner'] # "none"
            /\ owner' # owner =>
                 \E r \in Requests : At(r, "transfer") /\ job'[r] # job[r] /\ job[r].actor = owner
            /\ \A u \in Users : status[u] = "active" => status'[u] # "invited"]_vars
  <2> SUFFICES ASSUME MInv, [Next]_vars, ~Overtaken
               PROVE  /\ status[owner] \in {"active", "suspended"} => status'[owner'] # "none"
                      /\ owner' # owner =>
                           \E r \in Requests : /\ At(r, "transfer") /\ job'[r] # job[r]
                                              /\ job[r].actor = owner
                      /\ \A u \in Users : status[u] = "active" => status'[u] # "invited"
    OBVIOUS
  <2>1. TypeOK
    BY DEF MInv
  <2>2. \A r \in Requests : job'[r] # job[r] => Holds(r)
    BY DEF MInv, Uncrossed, Overtaken
  <2>3. status[owner] \in {"active", "suspended"} => status'[owner'] # "none"
    <3>1. owner \in Users
      BY <2>1 DEF TypeOK
    <3>2. CASE owner' # owner
      <4>1. PICK r \in Requests : /\ At(r, "transfer") /\ job'[r] # job[r]
                                 /\ owner' = job[r].user /\ status' = status
        BY <2>1, <3>1, <3>2, RowEffects
      <4> QED
        BY <2>2, <4>1 DEF Holds
    <3>3. CASE owner' = owner
      BY <2>1, <2>2, <3>1, <3>3, RowEffects DEF Holds, At
    <3> QED
      BY <3>2, <3>3
  <2>4. owner' # owner =>
          \E r \in Requests : At(r, "transfer") /\ job'[r] # job[r] /\ job[r].actor = owner
    <3>1. owner \in Users
      BY <2>1 DEF TypeOK
    <3> QED
      BY <2>1, <2>2, <3>1, RowEffects DEF Holds
  <2>5. ASSUME NEW u \in Users, status[u] = "active"
        PROVE  status'[u] # "invited"
    BY <2>1, <2>2, <2>5, RowEffects DEF Holds, Invitable
  <2> QED
    BY <2>3, <2>4, <2>5
<1> QED
  BY <1>1, MInvHolds, PTL DEF Spec, NobodyDisplaced, Overtaken

\* A member whose role was replaced, with no other request writing in between, has
\* that role and no other.
THEOREM ReplacedMeansOneHolds == Spec => ReplacedMeansOne
<1>1. MInv => [\A r \in Requests \ crossed :
                 ReplaceAdd(r) => roles'[job[r].user] = {job[r].role}]_vars
  <2> SUFFICES ASSUME MInv, NEW r \in Requests \ crossed, ReplaceAdd(r)
               PROVE  roles'[job[r].user] = {job[r].role}
    OBVIOUS
  <2>1. TypeOK /\ Holds(r)
    BY DEF MInv, Uncrossed
  <2>2. job[r].user \in Users
    BY <2>1, JobShape DEF ReplaceAdd, At, Idle
  <2>3. roles[job[r].user] \subseteq {job[r].role}
    BY <2>1 DEF Holds, ReplaceAdd
  <2> QED
    BY <2>1, <2>2, <2>3 DEF ReplaceAdd, TypeOK
<1> QED
  BY <1>1, MInvHolds, PTL DEF Spec, ReplacedMeansOne

=============================================================================
