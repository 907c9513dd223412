---------------------------- MODULE Provisioning ----------------------------
(***************************************************************************)
(* The roles of an organization, and a process coming up                   *)
(* (db/seeds/roles.seeder, index.ts, services/auth register).              *)
(*                                                                         *)
(* Every process seeds the roles of every organization when it starts to   *)
(* listen, then starts its scheduler; a registration seeds its own         *)
(* organization before it signs the owner in.  Seeders overlap.  Each      *)
(* looks for a role, inserts it when it saw none, and grants it its        *)
(* permissions in one INSERT that skips what is there.                     *)
(***************************************************************************)
EXTENDS Naturals

CONSTANTS
    Processes, Orgs,
    LastRole,  \* SYSTEM_ROLES in their order: 1 is admin
    None

\* There is an admin role, and no process is an organization.
ASSUME Bounds == LastRole \in Nat \ {0} /\ Processes \cap Orgs = {}

VARIABLES
    role,   \* the roles of each organization and what they are granted
    job,    \* each process, and the registration of each organization
    seeded  \* history: organizations a seeder came to the end of

vars == <<role, job, seeded>>

-----------------------------------------------------------------------------

Roles   == 1..LastRole
Seeders == Processes \cup Orgs

\* An organization is inserted with its admin role, in one transaction.
Active == {o \in Orgs : role[o][1] # "none"}

Seeding == {"list", "next", "look", "insert", "grant"}
Idle    == [step |-> "idle", todo |-> {}, at |-> None, next |-> 1]
Goto(s, step) == job' = [job EXCEPT ![s].step = step]

Has(s) == role[job[s].at][job[s].next]
PutRole(s, x) == role' = [role EXCEPT ![job[s].at][job[s].next] = x]

-----------------------------------------------------------------------------

\* app.listen, onListen
Start(p) ==
    /\ job[p].step = "idle"
    /\ Goto(p, "list")
    /\ UNCHANGED <<role, seeded>>

\* seedAllOrganizations: the organizations there are now, in any order.
ListOrgs(p) ==
    /\ job[p].step = "list"
    /\ job' = [job EXCEPT ![p] = [@ EXCEPT !.step = "next", !.todo = Active]]
    /\ UNCHANGED <<role, seeded>>

TakeOrg(p, o) ==
    /\ job[p].step = "next" /\ o \in job[p].todo
    /\ job' = [job EXCEPT ![p] =
           [@ EXCEPT !.step = "look", !.todo = job[p].todo \ {o}, !.at = o, !.next = 1]]
    /\ UNCHANGED <<role, seeded>>

\* createOrganizationWithOwner: its admin role has no permission yet.
Register(o) ==
    /\ job[o].step = "idle"
    /\ role' = [role EXCEPT ![o][1] = "bare"]
    /\ job' = [job EXCEPT ![o] = [@ EXCEPT !.step = "look", !.at = o]]
    /\ UNCHANGED seeded

\* After a role: the next one, or the end of the organization.
Onward(s) ==
    IF job[s].next < LastRole
    THEN /\ job' = [job EXCEPT ![s] = [@ EXCEPT !.step = "look", !.next = job[s].next + 1]]
         /\ UNCHANGED seeded
    ELSE /\ job' = [job EXCEPT ![s] = [@ EXCEPT !.step = "next", !.at = None, !.next = 1]]
         /\ seeded' = seeded \cup {job[s].at}

\* Mutant: a role that exists is taken to have its permissions.
LookSkip(s) ==
    /\ job[s].step = "look"
    /\ IF Has(s) = "none" THEN Goto(s, "insert") /\ UNCHANGED seeded ELSE Onward(s)
    /\ UNCHANGED role

\* seedRolesForOrganization: the SELECT
Look(s) ==
    /\ job[s].step = "look"
    /\ Goto(s, IF Has(s) = "none" THEN "insert" ELSE "grant")
    /\ UNCHANGED <<role, seeded>>

\* Mutant: the errors of seeding are not caught where a process starts.
BrokenLoose(s) == Goto(s, "failed")

\* index.ts logs the error and starts the scheduler; a registration answers with
\* it, and its organization stays as it is.
Broken(s) == Goto(s, IF s \in Processes THEN "ready" ELSE "failed")

\* An insert, not an upsert: roles_org_name_uq.
InsertRole(s) ==
    /\ job[s].step = "insert"
    /\ IF Has(s) = "none"
       THEN PutRole(s, "bare") /\ Goto(s, "grant")
       ELSE Broken(s) /\ UNCHANGED role
    /\ UNCHANGED seeded

\* seedRolePermissions
Grant(s) ==
    /\ job[s].step = "grant"
    /\ PutRole(s, "granted")
    /\ Onward(s)

\* Nothing left: the scheduler of a process starts, an owner is signed in.
Finish(s) ==
    /\ job[s].step = "next" /\ job[s].todo = {}
    /\ Goto(s, IF s \in Processes THEN "ready" ELSE "session")
    /\ UNCHANGED <<role, seeded>>

\* Any statement may fail, that of the session too.
Fail(s) ==
    /\ job[s].step \in Seeding
    /\ Broken(s)
    /\ UNCHANGED <<role, seeded>>

Stop(p) ==
    /\ job[p].step # "idle"
    /\ job' = [job EXCEPT ![p] = Idle]
    /\ UNCHANGED <<role, seeded>>

-----------------------------------------------------------------------------

Init ==
    /\ role = [o \in Orgs |-> [r \in Roles |-> "none"]]
    /\ job = [s \in Seeders |-> Idle]
    /\ seeded = {}

Proceed(s) ==
    \/ Look(s) \/ InsertRole(s) \/ Grant(s) \/ Finish(s) \/ Fail(s)
    \/ s \in Processes /\ (ListOrgs(s) \/ \E o \in Orgs : TakeOrg(s, o))

Next ==
    \/ \E p \in Processes : Start(p) \/ Stop(p)
    \/ \E o \in Orgs : Register(o)
    \/ \E s \in Seeders : Proceed(s)

\* What was started goes on: the database answers or fails.
Fairness == \A s \in Seeders : WF_vars(Proceed(s))

Spec == Init /\ [][Next]_vars /\ Fairness

-----------------------------------------------------------------------------
(* Properties *)

\* However seeders overlap, stop and fail: where one came to the end of an
\* organization every role is there with its permissions, and an owner who is
\* signed in by registering finds them so.
RolesVouchedFor ==
    /\ role \in [Orgs -> [Roles -> {"none", "bare", "granted"}]]
    /\ \A o \in seeded, r \in Roles : role[o][r] = "granted"
    /\ \A o \in Orgs : job[o].step = "session" => o \in seeded

\* A process that seeds comes to start its scheduler, whatever happens to the
\* seeding, unless it is stopped; a registration comes to an answer.
SeedingEnds ==
    \A s \in Seeders :
        job[s].step \in Seeding ~>
            job[s].step \in IF s \in Processes THEN {"ready", "idle"} ELSE {"session", "failed"}

=============================================================================
