----------------------------- MODULE Membership -----------------------------
(***************************************************************************)
(* The members of one organization: invitations, suspension, roles,        *)
(* removal and ownership (services/invitation.service.ts,                  *)
(* services/user.ts).                                                      *)
(*                                                                         *)
(* No operation here is a transaction: a request reads what its checks     *)
(* need, and then writes one statement after the other, each committed on  *)
(* its own and none of them looking again at what was read.  The reads of  *)
(* a request are one step; each write is one.                              *)
(***************************************************************************)
EXTENDS Naturals

CONSTANTS
    Users,
    Requests,    \* requests that may be in flight at the same time
    Named,       \* the roles requests name
    MaxInvites   \* bound on the invitations sent

ASSUME MaxInvitesIsNat == MaxInvites \in Nat
ASSUME NamedAreRoles == Named \subseteq {"admin", "staff"}

VARIABLES
    owner,     \* organizations.owner_user_id
    status,    \* organization_users.status, "none" without a row
    invite,    \* the unexpired invitation token in a user's row, 0 if none
    issued,    \* the last invitation token generated
    roles,     \* the user_roles rows of a user
    session,   \* users with a refresh token of the organization not revoked
    known,     \* users who signed in at least once: they may hold an access token
    job,       \* the request in flight
    loose,     \* history: users signed in without a membership, for a reason
    crossed    \* history: requests in whose course another one wrote

vars == <<owner, status, invite, issued, roles, session, known, job, loose, crossed>>
rows == <<owner, status, invite, issued, roles, session, known>>

-----------------------------------------------------------------------------
(* Rows and requests *)

Role   == {"admin", "staff"}
NoRole == "none"
Status == {"none", "invited", "active", "suspended"}
Token  == 0..MaxInvites

Idle == [step |-> "idle"]
\* A request with nothing to remember but whom it is about.
PlainJob  == [step: {"accept role", "sign in", "suspend", "reactivate",
                     "remove roles", "remove row", "revoke"}, user: Users]
RoleJob   == [step: {"invite", "invite role", "assign", "unassign"},
              user: Users, role: Role \cup {NoRole}]
AcceptJob == [step: {"activate"}, user: Users, token: Token]
\* left: the roles still to be removed.
ReplaceJob  == [step: {"replace"}, user: Users, role: Role, left: SUBSET Role]
TransferJob == [step: {"transfer", "transfer role"}, user: Users, actor: Users]
Job == {Idle} \cup PlainJob \cup RoleJob \cup AcceptJob \cup ReplaceJob \cup TransferJob

Go(r, j)  == job' = [job EXCEPT ![r] = j]
At(r, s)  == job[r].step = s
Plain(s, u) == [step |-> s, user |-> u]

\* Mutant: an INSERT .. ON CONFLICT instead of an UPDATE.
HasRowAlways(u) == TRUE

HasRow(u) == status[u] # "none"

\* The token t of an invitation would be accepted now (findValidInvitation).
Valid(u, t) == status[u] = "invited" /\ invite[u] = t /\ t # 0

\* A request of user a, who holds an access token, starts.
Asks(r, a) == job[r] = Idle /\ a \in known

-----------------------------------------------------------------------------
(* inviteUserService, resendInvitationService, cancelInvitationService *)

Invitable(u) == status[u] \in {"none", "invited"}

\* A resend is an invitation without a role of a user invited already.
InviteRead(r, a, u, role) ==
    /\ Asks(r, a)
    /\ Invitable(u)
    /\ Go(r, [step |-> "invite", user |-> u, role |-> role])
    /\ UNCHANGED <<rows, loose>>

\* Mutant: an invitation sent again keeps its token.
TokenForKept(u) == IF invite[u] # 0 THEN invite[u] ELSE issued + 1

TokenFor(u) == issued + 1

AfterInvite(j) == IF j.role = NoRole THEN Idle ELSE [j EXCEPT !.step = "invite role"]

\* createInvitation: INSERT .. ON CONFLICT DO UPDATE, whatever the row says.
Invite(r) ==
    LET u == job[r].user
    IN  /\ At(r, "invite") /\ issued < MaxInvites
        /\ status' = [status EXCEPT ![u] = "invited"]
        /\ invite' = [invite EXCEPT ![u] = TokenFor(u)]
        /\ issued' = issued + 1
        /\ Go(r, AfterInvite(job[r]))
        /\ loose' = IF Invitable(u) THEN loose ELSE loose \cup {u}
        /\ UNCHANGED <<owner, roles, session, known>>

\* An error here is swallowed; that is Fail.
InviteRole(r) ==
    /\ At(r, "invite role")
    /\ roles' = [roles EXCEPT ![job[r].user] = @ \cup {job[r].role}]
    /\ Go(r, Idle)
    /\ UNCHANGED <<owner, status, invite, issued, session, known, loose>>

Cancellable(u) == status[u] = "invited"

\* One DELETE that compares the status; the roles stay.
Cancel(r, a, u) ==
    /\ Asks(r, a)
    /\ Cancellable(u)
    /\ status' = [status EXCEPT ![u] = "none"]
    /\ invite' = [invite EXCEPT ![u] = 0]
    /\ UNCHANGED <<owner, issued, roles, session, known, job, loose>>

\* 48 hours passed.
Expire(u) ==
    /\ invite[u] # 0
    /\ invite' = [invite EXCEPT ![u] = 0]
    /\ UNCHANGED <<owner, status, issued, roles, session, known, job, loose>>

-----------------------------------------------------------------------------
(* acceptInvitationService, and signing in *)

\* Mutant: findValidInvitation without the test of the status.
AcceptableAny(u) == invite[u] # 0

Acceptable(u) == Valid(u, invite[u])

AcceptRead(r, u) ==
    /\ job[r] = Idle
    /\ Acceptable(u)
    /\ Go(r, [step |-> "activate", user |-> u, token |-> invite[u]])
    /\ UNCHANGED <<rows, loose>>

\* After the password is hashed and set (and is_active, which nothing reads):
\* acceptInvitation, whose UPDATE compares neither status nor token.
Activate(r) ==
    LET u == job[r].user
    IN  /\ At(r, "activate")
        /\ IF HasRow(u) THEN /\ status' = [status EXCEPT ![u] = "active"]
                             /\ invite' = [invite EXCEPT ![u] = 0]
                        ELSE UNCHANGED <<status, invite>>
        /\ Go(r, Plain("accept role", u))
        /\ UNCHANGED <<owner, issued, roles, session, known, loose>>

\* An error, or a missing role, is passed over.
AcceptRole(r) ==
    LET u == job[r].user
    IN  /\ At(r, "accept role")
        /\ \/ roles' = [roles EXCEPT ![u] = @ \cup {"staff"}]
           \/ UNCHANGED roles
        /\ Go(r, Plain("sign in", u))
        /\ UNCHANGED <<owner, status, invite, issued, session, known, loose>>

\* login, organizationLogin: the membership is active.
LoginRead(r, u) ==
    /\ job[r] = Idle
    /\ status[u] = "active"
    /\ Go(r, Plain("sign in", u))
    /\ UNCHANGED <<rows, loose>>

\* issueAuthSession does not look at the membership.
SignIn(r) ==
    /\ At(r, "sign in")
    /\ session' = session \cup {job[r].user}
    /\ known' = known \cup {job[r].user}
    /\ loose' = IF status[job[r].user] = "active" THEN loose ELSE loose \cup {job[r].user}
    /\ Go(r, Idle)
    /\ UNCHANGED <<owner, status, invite, issued, roles>>

\* The last session is logged out, or expires.
SignOut(u) ==
    /\ u \in session
    /\ session' = session \ {u}
    /\ loose' = loose \ {u}
    /\ UNCHANGED <<owner, status, invite, issued, roles, known, job>>

-----------------------------------------------------------------------------
(* suspendUserService, reactivateUserService *)

SuspendRead(r, a, u) ==
    /\ Asks(r, a) /\ a # u
    /\ HasRow(u) /\ status[u] # "suspended"
    /\ Go(r, Plain("suspend", u))
    /\ UNCHANGED <<rows, loose>>

\* Also a user who is invited.
ReactivateRead(r, a, u) ==
    /\ Asks(r, a)
    /\ HasRow(u) /\ status[u] # "active"
    /\ Go(r, Plain("reactivate", u))
    /\ UNCHANGED <<rows, loose>>

SetStatus(r, step, to) ==
    LET u == job[r].user
    IN  /\ At(r, step)
        /\ status' = IF HasRow(u) THEN [status EXCEPT ![u] = to] ELSE status
        /\ Go(r, Idle)
        /\ UNCHANGED <<owner, invite, issued, roles, session, known, loose>>

Suspend(r)    == SetStatus(r, "suspend", "suspended")
Reactivate(r) == SetStatus(r, "reactivate", "active")

-----------------------------------------------------------------------------
(* assignRoleToUserService, removeRoleFromUserService, replaceUserRoleService *)

AssignRead(r, a, u, role) ==
    /\ Asks(r, a)
    /\ HasRow(u) /\ role \notin roles[u]
    /\ Go(r, [step |-> "assign", user |-> u, role |-> role])
    /\ UNCHANGED <<rows, loose>>

\* ON CONFLICT DO NOTHING
Assign(r) ==
    /\ At(r, "assign")
    /\ roles' = [roles EXCEPT ![job[r].user] = @ \cup {job[r].role}]
    /\ Go(r, Idle)
    /\ UNCHANGED <<owner, status, invite, issued, session, known, loose>>

\* "You cannot remove your own admin role"
UnassignRead(r, a, u, role) ==
    /\ Asks(r, a)
    /\ HasRow(u) /\ role \in roles[u]
    /\ ~(a = u /\ role = "admin")
    /\ Go(r, [step |-> "unassign", user |-> u, role |-> role])
    /\ UNCHANGED <<rows, loose>>

Unassign(r) ==
    /\ At(r, "unassign")
    /\ roles' = [roles EXCEPT ![job[r].user] = @ \ {job[r].role}]
    /\ Go(r, Idle)
    /\ UNCHANGED <<owner, status, invite, issued, session, known, loose>>

\* Mutant: leaves an administrator's role where it is.
OthersButAdmin(u, role) == roles[u] \ {role, "admin"}

Others(u, role) == roles[u] \ {role}

ReplaceRead(r, a, u, role) ==
    /\ Asks(r, a)
    /\ HasRow(u)
    /\ ~(a = u /\ role # "admin" /\ "admin" \in roles[u])
    /\ Go(r, [step |-> "replace", user |-> u, role |-> role, left |-> Others(u, role)])
    /\ UNCHANGED <<rows, loose>>

\* One turn of the loop.
ReplaceDrop(r, role) ==
    /\ At(r, "replace") /\ role \in job[r].left
    /\ roles' = [roles EXCEPT ![job[r].user] = @ \ {role}]
    /\ Go(r, [job[r] EXCEPT !.left = @ \ {role}])
    /\ UNCHANGED <<owner, status, invite, issued, session, known, loose>>

ReplaceAdd(r) ==
    /\ At(r, "replace") /\ job[r].left = {}
    /\ roles' = [roles EXCEPT ![job[r].user] = @ \cup {job[r].role}]
    /\ Go(r, Idle)
    /\ UNCHANGED <<owner, status, invite, issued, session, known, loose>>

-----------------------------------------------------------------------------
(* removeUserFromOrganizationService *)

\* Mutant: without "Transfer ownership before removing the organization owner".
RemovableAny(a, u) == a # u /\ HasRow(u)

Removable(a, u) == a # u /\ HasRow(u) /\ owner # u

RemoveRead(r, a, u) ==
    /\ Asks(r, a)
    /\ Removable(a, u)
    /\ Go(r, Plain("remove roles", u))
    /\ UNCHANGED <<rows, loose>>

RemoveRoles(r) ==
    /\ At(r, "remove roles")
    /\ roles' = [roles EXCEPT ![job[r].user] = {}]
    /\ Go(r, [job[r] EXCEPT !.step = "remove row"])
    /\ UNCHANGED <<owner, status, invite, issued, session, known, loose>>

\* Mutant: leaves the sessions alone.
RemoveRowLast(r) ==
    LET u == job[r].user
    IN  /\ At(r, "remove row")
        /\ status' = [status EXCEPT ![u] = "none"]
        /\ invite' = [invite EXCEPT ![u] = 0]
        /\ Go(r, Idle)
        /\ UNCHANGED <<owner, issued, roles, session, known, loose>>

RemoveRow(r) ==
    LET u == job[r].user
    IN  /\ At(r, "remove row")
        /\ status' = [status EXCEPT ![u] = "none"]
        /\ invite' = [invite EXCEPT ![u] = 0]
        /\ Go(r, Plain("revoke", u))
        /\ UNCHANGED <<owner, issued, roles, session, known, loose>>

\* revokeRefreshTokensForUser
RemoveRevoke(r) ==
    /\ At(r, "revoke")
    /\ session' = session \ {job[r].user}
    /\ loose' = loose \ {job[r].user}
    /\ Go(r, Idle)
    /\ UNCHANGED <<owner, status, invite, issued, roles, known>>

-----------------------------------------------------------------------------
(* transferOwnershipService *)

MayTransfer(a, u) == a # u /\ a = owner /\ status[u] = "active"

TransferRead(r, a, u) ==
    /\ Asks(r, a)
    /\ MayTransfer(a, u)
    /\ Go(r, [step |-> "transfer", user |-> u, actor |-> a])
    /\ UNCHANGED <<rows, loose>>

\* The UPDATE does not compare the owner.
Transfer(r) ==
    /\ At(r, "transfer")
    /\ owner' = job[r].user
    /\ Go(r, [job[r] EXCEPT !.step = "transfer role"])
    /\ UNCHANGED <<status, invite, issued, roles, session, known, loose>>

TransferRole(r) ==
    /\ At(r, "transfer role")
    /\ roles' = [roles EXCEPT ![job[r].user] = @ \cup {"admin"}]
    /\ Go(r, Idle)
    /\ UNCHANGED <<owner, status, invite, issued, session, known, loose>>

-----------------------------------------------------------------------------

\* A crash or a database error: what is written stays, the rest is not done.
Fail(r) ==
    /\ job[r] # Idle
    /\ loose' = IF At(r, "revoke") THEN loose \cup ({job[r].user} \cap session) ELSE loose
    /\ Go(r, Idle)
    /\ UNCHANGED rows

\* An organization with its owner and some other members, as they are after
\* registration and after invitations were accepted.
Init ==
    /\ owner \in Users
    /\ \E members \in SUBSET Users :
          /\ owner \in members
          /\ status = [u \in Users |-> IF u \in members THEN "active" ELSE "none"]
          /\ session = members
          /\ known = members
    /\ roles = [u \in Users |-> IF u = owner THEN {"admin"}
                                ELSE IF status[u] = "active" THEN {"staff"} ELSE {}]
    /\ invite = [u \in Users |-> 0]
    /\ issued = 0
    /\ job = [r \in Requests |-> Idle]
    /\ loose = {}
    /\ crossed = {}

Begin(r) ==
    \/ \E u \in Users : AcceptRead(r, u) \/ LoginRead(r, u)
    \/ \E a, u \in Users :
          \/ SuspendRead(r, a, u) \/ ReactivateRead(r, a, u)
          \/ RemoveRead(r, a, u)  \/ TransferRead(r, a, u)
          \/ Cancel(r, a, u)
          \/ \E role \in Named : \/ AssignRead(r, a, u, role) \/ UnassignRead(r, a, u, role)
                                 \/ ReplaceRead(r, a, u, role)
          \/ \E role \in Named \cup {NoRole} : InviteRead(r, a, u, role)

Proceed(r) ==
    \/ Invite(r)     \/ InviteRole(r)
    \/ Activate(r) \/ AcceptRole(r) \/ SignIn(r)
    \/ Suspend(r)    \/ Reactivate(r)
    \/ Assign(r)     \/ Unassign(r)
    \/ (\E role \in Role : ReplaceDrop(r, role)) \/ ReplaceAdd(r)
    \/ RemoveRoles(r) \/ RemoveRow(r) \/ RemoveRevoke(r)
    \/ Transfer(r)   \/ TransferRole(r)

\* A step of request r that writes crosses the others in flight.
Cross(r) ==
    crossed' = {q \in Requests : /\ job'[q] # Idle
                                 /\ q \in crossed \/ (q # r /\ rows' # rows)}

Next ==
    \/ \E r \in Requests : (Begin(r) \/ Proceed(r) \/ Fail(r)) /\ Cross(r)
    \/ (\E u \in Users : Expire(u) \/ SignOut(u)) /\ UNCHANGED crossed

Spec == Init /\ [][Next]_vars

-----------------------------------------------------------------------------
(* Whatever overlaps *)

\* Every variable stays in its domain, and no row holds a token not yet issued.
TypeOK ==
    /\ owner \in Users
    /\ status \in [Users -> Status]
    /\ issued \in Token
    /\ invite \in [Users -> 0..issued]
    /\ roles \in [Users -> SUBSET Role]
    /\ session \subseteq Users /\ known \subseteq Users
    /\ job \in [Requests -> Job]
    /\ loose \subseteq Users
    /\ crossed \subseteq {r \in Requests : job[r] # Idle}

\* A link that was cancelled, replaced or has expired never works again,
\* whatever invitations, suspensions and removals overlap.
DeadTokensStayDead ==
    [][\A u \in Users : \A t \in 1..issued : ~Valid(u, t) => ~Valid(u, t)']_vars

\* Whoever has left the organization comes back by an invitation only: an
\* acceptance, a suspension or a reactivation that overlaps the removal does not
\* bring the member back.
ReturnsByInvitation ==
    [][\A u \in Users : status[u] = "none" => status'[u] \in {"none", "invited"}]_vars

-----------------------------------------------------------------------------
(* What the checks of each request are for.  They do their work unless         *)
(* another request wrote between the checks and the step.                      *)

\* A step of a request that another one crossed.
Overtaken == \E r \in crossed : job'[r] # job[r]

\* Nobody is displaced: the organization does not lose the member it belongs to
\* ("Transfer ownership before removing the organization owner"), only its owner
\* gives it away ("Only the current owner can transfer ownership"), and an active
\* member is not turned back into an invited one ("User is already an active
\* member of this organization").
NobodyDisplaced ==
    [][\/ Overtaken
       \/ /\ status[owner] \in {"active", "suspended"} => status'[owner'] # "none"
          /\ owner' # owner =>
               \E r \in Requests : At(r, "transfer") /\ job'[r] # job[r] /\ job[r].actor = owner
          /\ \A u \in Users : status[u] = "active" => status'[u] # "invited"]_vars

\* "Invalid or expired invitation token": an acceptance activates a user whose
\* invitation is still the one presented; it may have expired since it was read.
AcceptedAsInvited ==
    [][\A r \in Requests \ crossed : Activate(r) =>
         /\ status[job[r].user] = "invited"
         /\ invite[job[r].user] \in {job[r].token, 0}]_vars

\* A user who left comes back by an invitation only, and an acceptance activates a
\* user whose invitation is still the one presented.
BackByInvitation == ReturnsByInvitation /\ AcceptedAsInvited

\* Once a removal is over the user has no session left, unless it failed on the
\* way, or the user signed in or was invited again with checks made before.  Every
\* variable stays in its domain.
RemovedIsSignedOut ==
    /\ TypeOK
    /\ \A u \in session \ loose :
           status[u] = "none" => \E r \in Requests : At(r, "revoke") /\ job[r].user = u

\* A member whose role was replaced has that role and no other.
ReplacedMeansOne ==
    [][\A r \in Requests \ crossed : ReplaceAdd(r) => roles'[job[r].user] = {job[r].role}]_vars

=============================================================================
