--------------------------- MODULE SettlingProofs ---------------------------
(***************************************************************************)
(* Proofs about the parts of Settling, for any number of processes,        *)
(* organizations, roles, requests, recipients, workers, streams and items. *)
(* Provisioning: where a seeder came to the end of an organization every   *)
(* role is there with its permissions.  Files: a row has its file and a    *)
(* request that is over leaves no file without one.  Notifications: who is *)
(* found is notified once and a stream misses nothing.  Reminders: a       *)
(* firing reminds of an item at most once.                                 *)
(***************************************************************************)
EXTENDS Settling, FiniteSetTheorems, TLAPS

-----------------------------------------------------------------------------
(* Provisioning: the inductive invariant *)

Jobs == [step: {"idle", "list", "next", "look", "insert", "grant", "ready", "session", "failed"},
         todo: SUBSET Orgs, at: Orgs \cup {None}, next: Roles]

\* Every variable stays in its domain.
TypeOK ==
    /\ role \in [Orgs -> [Roles -> {"none", "bare", "granted"}]]
    /\ job \in [Seeders -> Jobs]
    /\ seeded \subseteq Orgs

There(o) == role[o][1] # "none"

\* Nothing is there of an organization that is not registered.
Unregistered ==
    \A o \in Orgs :
        /\ job[o].step = "idle" => ~There(o)
        /\ ~There(o) => o \notin seeded /\ \A r \in Roles : role[o][r] = "none"

AtWork(s) == job[s].step \in {"look", "insert", "grant"}

\* A seeder has before it what is registered, and behind it roles with their
\* permissions; the role it grants is there.
OnItsWay(s) ==
    /\ \A o \in job[s].todo : There(o)
    /\ AtWork(s) =>
          /\ job[s].at \in Orgs /\ There(job[s].at)
          /\ \A r \in Roles : r < job[s].next => role[job[s].at][r] = "granted"

\* A registration seeds its own organization and nothing else.
Registration(o) ==
    /\ job[o].step # "list"
    /\ job[o].step = "idle" => job[o].next = 1
    /\ job[o].todo = {}
    /\ AtWork(o) => job[o].at = o
    /\ job[o].step \in {"next", "session"} => o \in seeded

PInv ==
    /\ TypeOK
    /\ Unregistered
    /\ \A s \in Seeders : OnItsWay(s)
    /\ \A o \in Orgs : Registration(o)
    /\ \A o \in seeded, r \in Roles : role[o][r] = "granted"

-----------------------------------------------------------------------------
(* One lemma for each kind of step *)

\* What every step but a registration does to the roles: no organization comes
\* or goes, what is granted stays, and an organization is called seeded when all
\* of its roles are granted.
Kept ==
    /\ role' \in [Orgs -> [Roles -> {"none", "bare", "granted"}]]
    /\ \A o \in Orgs : There(o)' <=> There(o)
    /\ \A o \in Orgs, r \in Roles :
          /\ role[o][r] = "granted" => role'[o][r] = "granted"
          /\ ~There(o) => role'[o][r] = "none"
    /\ seeded \subseteq seeded' /\ seeded' \subseteq Orgs
    /\ \A o \in seeded', r \in Roles : role'[o][r] = "granted"

\* Such a step that moves one seeder to j, where the invariant holds of it.
LEMMA KeptStep ==
    ASSUME PInv, Kept, NEW s \in Seeders, NEW j \in Jobs,
           job' = [job EXCEPT ![s] = j],
           OnItsWay(s)', s \in Orgs => Registration(s)' /\ (j.step = "idle" => ~There(s))
    PROVE  PInv'
  <1>1. \A t \in Seeders \ {s} : job'[t] = job[t]
    BY DEF PInv, TypeOK
  <1>2. job'[s] = j
    BY DEF PInv, TypeOK
  <1>3. TypeOK'
    BY DEF PInv, TypeOK, Kept
  <1>4. Unregistered'
    <2>1. \A o \in Orgs : job'[o].step = "idle" => ~There(o)
      BY <1>1, <1>2 DEF PInv, Unregistered, Seeders
    <2>2. \A o \in Orgs : ~There(o) => o \notin seeded'
      BY Bounds DEF Kept, There, Roles
    <2> QED  BY <2>1, <2>2 DEF Kept, Unregistered
  <1>5. \A t \in Seeders \ {s} : OnItsWay(t)'
    <2> SUFFICES ASSUME NEW t \in Seeders \ {s} PROVE OnItsWay(t)'
      OBVIOUS
    <2>1. job'[t] = job[t] /\ OnItsWay(t) /\ job[t].todo \subseteq Orgs
      BY <1>1 DEF PInv, TypeOK, Jobs
    <2> QED  BY <2>1 DEF Kept, OnItsWay, AtWork
  <1>6. \A o \in Orgs : Registration(o)'
    BY <1>1 DEF PInv, Kept, Registration, AtWork, Seeders
  <1> QED  BY <1>3, <1>4, <1>5, <1>6 DEF PInv, Kept

\* A step that changes no role.
LEMMA JobStep ==
    ASSUME PInv, NEW s \in Seeders, NEW j \in Jobs,
           job' = [job EXCEPT ![s] = j], UNCHANGED <<role, seeded>>,
           OnItsWay(s)', s \in Orgs => Registration(s)' /\ (j.step = "idle" => ~There(s))
    PROVE  PInv'
  <1>1. Kept
    BY DEF PInv, TypeOK, Unregistered, Kept, There
  <1> QED  BY <1>1, KeptStep

\* A process starts, lists the organizations there are, takes one, or stops.
LEMMA ProcessStep ==
    ASSUME PInv, NEW p \in Processes,
           Start(p) \/ ListOrgs(p) \/ Stop(p) \/ \E o \in Orgs : TakeOrg(p, o)
    PROVE  PInv'
  <1> p \in Seeders /\ p \notin Orgs  BY Bounds DEF Seeders
  <1> job[p] \in Jobs  BY DEF PInv, TypeOK
  <1>1. CASE Start(p)
    <2> DEFINE j == [job[p] EXCEPT !.step = "list"]
    <2>1. j \in Jobs /\ job' = [job EXCEPT ![p] = j]
      BY <1>1 DEF Start, Goto, Jobs, PInv, TypeOK
    <2>2. OnItsWay(p)'
      BY <1>1, <2>1 DEF Start, Goto, OnItsWay, AtWork, There, PInv, TypeOK, Jobs
    <2> QED  BY <1>1, <2>1, <2>2, JobStep DEF Start
  <1>2. CASE ListOrgs(p)
    <2>1. PICK A \in SUBSET Orgs : A = Active
      BY DEF Active
    <2> DEFINE j == [job[p] EXCEPT !.step = "next", !.todo = A]
    <2>2. j \in Jobs
      BY DEF Jobs
    <2>3. job' = [job EXCEPT ![p] = j] /\ UNCHANGED <<role, seeded>>
      BY <1>2, <2>1 DEF ListOrgs
    <2>4. job'[p] = j
      BY <2>3 DEF PInv, TypeOK
    <2>5. job'[p].step = "next" /\ job'[p].todo = A
      BY <2>4 DEF Jobs
    <2>6. \A o \in A : There(o)'
      BY <2>1, <2>3 DEF Active, There
    <2>7. OnItsWay(p)'
      BY <2>5, <2>6 DEF OnItsWay, AtWork
    <2> QED  BY <2>2, <2>3, <2>7, JobStep
  <1>3. ASSUME NEW o \in Orgs, TakeOrg(p, o) PROVE PInv'
    <2> DEFINE j == [job[p] EXCEPT !.step = "look", !.todo = job[p].todo \ {o},
                                   !.at = o, !.next = 1]
    <2>1. 1 \in Roles
      BY Bounds DEF Roles
    <2>2. j \in Jobs
      BY <2>1 DEF Jobs
    <2>3. job' = [job EXCEPT ![p] = j] /\ UNCHANGED <<role, seeded>>
      BY <1>3 DEF TakeOrg
    <2>4. job'[p] = j
      BY <2>3 DEF PInv, TypeOK
    <2>5. /\ job'[p].todo = job[p].todo \ {o}
          /\ job'[p].at = o /\ job'[p].next = 1
      BY <2>4 DEF Jobs
    <2>6. \A q \in job[p].todo : There(q)'
      BY <2>3 DEF PInv, OnItsWay, There
    <2>7. \A r \in Roles : ~(r < 1)
      BY DEF Roles
    <2>8. o \in job[p].todo
      BY <1>3 DEF TakeOrg
    <2>9. OnItsWay(p)'
      BY <2>5, <2>6, <2>7, <2>8 DEF OnItsWay, AtWork
    <2> QED  BY <2>2, <2>3, <2>9, JobStep
  <1>4. CASE Stop(p)
    <2>1. Idle \in Jobs /\ job' = [job EXCEPT ![p] = Idle]
      BY <1>4, Bounds DEF Stop, Jobs, Idle, Roles
    <2>2. OnItsWay(p)'
      BY <1>4, <2>1 DEF Stop, OnItsWay, AtWork, There, PInv, TypeOK, Idle
    <2> QED  BY <1>4, <2>1, <2>2, JobStep DEF Stop
  <1> QED  BY <1>1, <1>2, <1>3, <1>4

\* A seeder looks for a role, comes to the end of its list, or fails.
LEMMA SeederStep ==
    ASSUME PInv, NEW s \in Seeders, Look(s) \/ Finish(s) \/ Fail(s)
    PROVE  PInv'
  <1> job[s] \in Jobs  BY DEF PInv, TypeOK
  <1>1. PICK x \in {"insert", "grant", "ready", "session", "failed"} :
            /\ Goto(s, x) /\ UNCHANGED <<role, seeded>>
            /\ x \in {"insert", "grant"} => AtWork(s)
            /\ x = "session" => s \notin Processes /\ job[s].step = "next"
    BY DEF Look, Finish, Fail, Broken, AtWork
  <1> DEFINE j == [job[s] EXCEPT !.step = x]
  <1>2. j \in Jobs /\ job' = [job EXCEPT ![s] = j]
    BY <1>1 DEF Goto, Jobs
  <1>3. job'[s] = j  BY <1>2 DEF PInv, TypeOK
  <1>4. OnItsWay(s)'
    BY <1>1, <1>3 DEF PInv, OnItsWay, AtWork, There, Jobs
  <1>5. s \in Orgs => Registration(s)'
    BY <1>1, <1>3 DEF PInv, Registration, AtWork, Jobs
  <1>6. s \in Orgs => (j.step = "idle" => ~There(s))
    BY <1>1
  <1> QED  BY <1>1, <1>2, <1>4, <1>5, <1>6, JobStep

\* A registration puts the organization there, with a bare admin role.
LEMMA RegisterStep ==
    ASSUME PInv, NEW o \in Orgs, Register(o)
    PROVE  PInv'
  <1> DEFINE j == [job[o] EXCEPT !.step = "look", !.at = o]
  <1>a. o \in Seeders /\ 1 \in Roles /\ o \notin Processes  BY Bounds DEF Seeders, Roles
  <1>b. job[o] \in Jobs /\ job[o].step = "idle"  BY <1>a DEF PInv, TypeOK, Register
  <1>1. j \in Jobs /\ job' = [job EXCEPT ![o] = j] /\ seeded' = seeded
    BY <1>b DEF Register, Jobs
  <1>2. /\ job'[o] = j /\ \A t \in Seeders \ {o} : job'[t] = job[t]
    BY <1>1, <1>a DEF PInv, TypeOK
  <1>3. /\ \A q \in Orgs, r \in Roles : ~(q = o /\ r = 1) => role'[q][r] = role[q][r]
        /\ role'[o][1] = "bare"
    BY <1>a DEF Register, PInv, TypeOK
  <1>4. \A r \in Roles : role[o][r] = "none"
    BY <1>b DEF PInv, Unregistered
  <1>5. TypeOK'
    BY <1>1, <1>a DEF Register, PInv, TypeOK
  <1>6. o \notin seeded
    BY <1>b DEF PInv, Unregistered
  <1>7. Unregistered'
    <2>1. There(o)' /\ job'[o].step # "idle"
      BY <1>2, <1>3, <1>b DEF There, Jobs
    <2>2. \A q \in Orgs \ {o} : job'[q] = job[q] /\ \A r \in Roles : role'[q][r] = role[q][r]
      BY <1>2, <1>3 DEF Seeders
    <2>3. \A q \in Orgs \ {o} : There(q)' <=> There(q)
      BY <2>2, <1>a DEF There
    <2> QED  BY <1>1, <2>1, <2>2, <2>3 DEF PInv, Unregistered
  <1>8. \A t \in Seeders : OnItsWay(t)'
    <2>1. \A t \in Seeders \ {o} : OnItsWay(t)'
      BY <1>2, <1>3, <1>4, <1>a DEF PInv, OnItsWay, AtWork, There, TypeOK, Jobs
    <2>2. OnItsWay(o)'
      <3>1. job[o].todo = {}  BY DEF PInv, Registration
      <3>2. \A r \in Roles : ~(r < job[o].next)
        <4>1. job[o].next = 1  BY <1>b DEF PInv, Registration
        <4> QED  BY <4>1 DEF Roles
      <3>3. /\ job'[o].at = o /\ job'[o].todo = {} /\ job'[o].next = job[o].next
        BY <1>2, <1>b, <3>1 DEF Jobs
      <3>4. There(o)'
        BY <1>3 DEF There
      <3>5. \A q \in job'[o].todo : There(q)'
        BY <3>3
      <3>6. \A r \in Roles : r < job'[o].next => role'[job'[o].at][r] = "granted"
        BY <3>2, <3>3
      <3> QED  BY <3>3, <3>4, <3>5, <3>6 DEF OnItsWay
    <2> QED  BY <2>1, <2>2
  <1>9. \A q \in Orgs : Registration(q)'
    BY <1>1, <1>2, <1>b DEF PInv, Registration, AtWork, Seeders, Jobs
  <1>10. \A q \in seeded', r \in Roles : role'[q][r] = "granted"
    BY <1>1, <1>3, <1>6 DEF PInv, TypeOK
  <1> QED  BY <1>5, <1>7, <1>8, <1>9, <1>10 DEF PInv

\* What PutRole does at work: nothing but the one role changes.
LEMMA PutKeeps ==
    ASSUME PInv, NEW s \in Seeders, AtWork(s), NEW x \in {"bare", "granted"},
           PutRole(s, x), x = "bare" => Has(s) # "granted"
    PROVE  /\ role' \in [Orgs -> [Roles -> {"none", "bare", "granted"}]]
           /\ \A o \in Orgs : There(o)' <=> There(o)
           /\ \A o \in Orgs, r \in Roles :
                 /\ role[o][r] = "granted" => role'[o][r] = "granted"
                 /\ ~There(o) => role'[o][r] = "none"
           /\ role'[job[s].at][job[s].next] = x
  <1>1. /\ job[s].at \in Orgs /\ There(job[s].at) /\ job[s].next \in Roles
    BY DEF PInv, TypeOK, Jobs, OnItsWay
  <1>2. role' \in [Orgs -> [Roles -> {"none", "bare", "granted"}]]
    BY <1>1 DEF PutRole, PInv, TypeOK
  <1>3. role'[job[s].at][job[s].next] = x
    BY <1>1 DEF PutRole, PInv, TypeOK
  <1>4. \A o \in Orgs, r \in Roles :
            ~(o = job[s].at /\ r = job[s].next) => role'[o][r] = role[o][r]
    BY <1>1 DEF PutRole, PInv, TypeOK
  <1>5. 1 \in Roles
    BY Bounds DEF Roles
  <1>6. \A o \in Orgs : There(o)' <=> There(o)
    <2> SUFFICES ASSUME NEW o \in Orgs PROVE There(o)' <=> There(o)
      OBVIOUS
    <2>1. CASE o = job[s].at /\ job[s].next = 1
      BY <2>1, <1>1, <1>3 DEF There
    <2>2. CASE ~(o = job[s].at /\ job[s].next = 1)
      BY <2>2, <1>4, <1>5 DEF There
    <2> QED  BY <2>1, <2>2
  <1>7. ASSUME NEW o \in Orgs, NEW r \in Roles, role[o][r] = "granted"
        PROVE  role'[o][r] = "granted"
    BY <1>3, <1>4, <1>7 DEF Has
  <1>8. ASSUME NEW o \in Orgs, NEW r \in Roles, ~There(o)
        PROVE  role'[o][r] = "none"
    BY <1>1, <1>4, <1>8 DEF PInv, Unregistered
  <1> QED  BY <1>2, <1>3, <1>6, <1>7, <1>8

\* The role is inserted, or another seeder was first.
LEMMA InsertStep ==
    ASSUME PInv, NEW s \in Seeders, InsertRole(s)
    PROVE  PInv'
  <1>a. job[s] \in Jobs /\ AtWork(s)
    BY DEF PInv, TypeOK, InsertRole, AtWork
  <1>1. CASE Has(s) = "none"
    <2> DEFINE j == [job[s] EXCEPT !.step = "grant"]
    <2>1. PutRole(s, "bare") /\ Goto(s, "grant") /\ seeded' = seeded
      BY <1>1 DEF InsertRole
    <2>2. j \in Jobs /\ job' = [job EXCEPT ![s] = j]
      BY <2>1, <1>a DEF Goto, Jobs
    <2>3. job'[s] = j
      BY <2>2 DEF PInv, TypeOK
    <2>4. /\ job'[s].step = "grant" /\ job'[s].todo = job[s].todo
          /\ job'[s].at = job[s].at /\ job'[s].next = job[s].next
      BY <2>3, <1>a DEF Jobs
    <2>5. /\ role' \in [Orgs -> [Roles -> {"none", "bare", "granted"}]]
          /\ \A o \in Orgs : There(o)' <=> There(o)
          /\ \A o \in Orgs, r \in Roles :
                /\ role[o][r] = "granted" => role'[o][r] = "granted"
                /\ ~There(o) => role'[o][r] = "none"
      BY <1>a, <1>1, <2>1, PutKeeps
    <2>6. Kept
      BY <2>1, <2>5 DEF Kept, PInv, TypeOK
    <2>7. OnItsWay(s)'
      BY <1>a, <2>4, <2>5 DEF PInv, OnItsWay, AtWork, Jobs
    <2>8. s \in Orgs => Registration(s)'
      BY <1>a, <2>1, <2>4 DEF PInv, Registration, AtWork
    <2> QED  BY <2>2, <2>3, <2>4, <2>6, <2>7, <2>8, KeptStep
  <1>2. CASE Has(s) # "none"
    <2>1. Broken(s) /\ UNCHANGED <<role, seeded>>
      BY <1>2 DEF InsertRole
    <2>2. job[s].step \in Seeding
      BY DEF InsertRole, Seeding
    <2> QED  BY <2>1, <2>2, SeederStep DEF Fail
  <1> QED  BY <1>1, <1>2

\* The role is granted its permissions; on to the next, or to the end.
LEMMA GrantStep ==
    ASSUME PInv, NEW s \in Seeders, Grant(s)
    PROVE  PInv'
  <1>a. job[s] \in Jobs /\ AtWork(s) /\ PutRole(s, "granted") /\ Onward(s)
    BY DEF PInv, TypeOK, Grant, AtWork
  <1>b. /\ job[s].at \in Orgs /\ There(job[s].at) /\ job[s].next \in Roles
        /\ \A o \in job[s].todo : There(o)
        /\ \A r \in Roles : r < job[s].next => role[job[s].at][r] = "granted"
    BY <1>a DEF PInv, OnItsWay, Jobs
  <1>c. /\ role' \in [Orgs -> [Roles -> {"none", "bare", "granted"}]]
        /\ \A o \in Orgs : There(o)' <=> There(o)
        /\ \A o \in Orgs, r \in Roles :
              /\ role[o][r] = "granted" => role'[o][r] = "granted"
              /\ ~There(o) => role'[o][r] = "none"
        /\ role'[job[s].at][job[s].next] = "granted"
    BY <1>a, PutKeeps
  <1>d. \A r \in Roles : r <= job[s].next => role'[job[s].at][r] = "granted"
    BY <1>b, <1>c DEF Roles
  <1>e. \A o \in job[s].todo : There(o)'
    BY <1>a, <1>b, <1>c DEF Jobs
  <1>1. CASE job[s].next < LastRole
    <2> DEFINE j == [job[s] EXCEPT !.step = "look", !.next = job[s].next + 1]
    <2>1. job' = [job EXCEPT ![s] = j] /\ seeded' = seeded
      BY <1>1, <1>a DEF Onward
    <2>2. job[s].next + 1 \in Roles
      BY <1>1, <1>b, Bounds DEF Roles
    <2>3. j \in Jobs
      BY <1>a, <2>2 DEF Jobs
    <2>4. job'[s] = j
      BY <2>1 DEF PInv, TypeOK
    <2>5. /\ job'[s].step = "look" /\ job'[s].todo = job[s].todo
          /\ job'[s].at = job[s].at /\ job'[s].next = job[s].next + 1
      BY <2>4, <1>a DEF Jobs
    <2>6. Kept
      BY <2>1, <1>c DEF Kept, PInv, TypeOK
    <2>7. \A r \in Roles : r < job[s].next + 1 => r <= job[s].next
      BY <1>b, Bounds DEF Roles
    <2>8. OnItsWay(s)'
      BY <1>b, <1>c, <1>d, <1>e, <2>5, <2>7 DEF OnItsWay
    <2>9. s \in Orgs => Registration(s)'
      BY <1>a, <2>1, <2>5 DEF PInv, Registration, AtWork
    <2> QED  BY <2>1, <2>3, <2>4, <2>5, <2>6, <2>8, <2>9, KeptStep
  <1>2. CASE ~(job[s].next < LastRole)
    <2> DEFINE j == [job[s] EXCEPT !.step = "next", !.at = None, !.next = 1]
    <2>1. job' = [job EXCEPT ![s] = j] /\ seeded' = seeded \cup {job[s].at}
      BY <1>2, <1>a DEF Onward
    <2>2. 1 \in Roles
      BY Bounds DEF Roles
    <2>3. j \in Jobs
      BY <1>a, <2>2 DEF Jobs
    <2>4. job'[s] = j
      BY <2>1 DEF PInv, TypeOK
    <2>5. job'[s].step = "next" /\ job'[s].todo = job[s].todo
      BY <2>4, <1>a DEF Jobs
    <2>6. \A r \in Roles : r <= job[s].next
      BY <1>2, <1>b, Bounds DEF Roles
    <2>7. \A r \in Roles : role'[job[s].at][r] = "granted"
      BY <1>d, <2>6
    <2>8. Kept
      BY <2>1, <1>b, <1>c, <2>7 DEF Kept, PInv, TypeOK
    <2>9. OnItsWay(s)'
      BY <1>e, <2>5 DEF OnItsWay, AtWork
    <2>10. s \in Orgs => Registration(s)'
      BY <1>a, <2>1, <2>5 DEF PInv, Registration, AtWork
    <2> QED  BY <2>1, <2>3, <2>4, <2>5, <2>8, <2>9, <2>10, KeptStep
  <1> QED  BY <1>1, <1>2

-----------------------------------------------------------------------------
(* Provisioning: the theorems *)

\* Every step preserves the invariant.
LEMMA PInvStep ==
    ASSUME PInv, [Next]_vars
    PROVE  PInv'
  <1>1. ASSUME NEW p \in Processes, Start(p) \/ Stop(p)  PROVE PInv'
    BY <1>1, ProcessStep
  <1>2. ASSUME NEW o \in Orgs, Register(o)  PROVE PInv'
    BY <1>2, RegisterStep
  <1>3. ASSUME NEW s \in Seeders, Proceed(s)  PROVE PInv'
    <2>1. CASE Look(s) \/ Finish(s) \/ Fail(s)
      BY <2>1, SeederStep
    <2>2. CASE InsertRole(s)
      BY <2>2, InsertStep
    <2>3. CASE Grant(s)
      BY <2>3, GrantStep
    <2>4. CASE s \in Processes /\ (ListOrgs(s) \/ \E o \in Orgs : TakeOrg(s, o))
      BY <2>4, ProcessStep
    <2> QED  BY <1>3, <2>1, <2>2, <2>3, <2>4 DEF Proceed
  <1>4. CASE UNCHANGED vars
    BY <1>4 DEF vars, PInv, TypeOK, Unregistered, OnItsWay, AtWork, Registration, There
  <1> QED  BY <1>1, <1>2, <1>3, <1>4 DEF Next

\* Nothing is registered and nothing runs at first.
LEMMA PInvFirst ==
    ASSUME Init
    PROVE  PInv
  <1>1. 1 \in Roles /\ Idle \in Jobs
    BY Bounds DEF Roles, Idle, Jobs
  <1>2. \A s \in Seeders : job[s] = Idle
    BY DEF Init
  <1>3. \A s \in Seeders : job[s].step = "idle" /\ job[s].todo = {} /\ job[s].next = 1
    BY <1>2 DEF Idle
  <1>4. \A o \in Orgs, r \in Roles : role[o][r] = "none"
    BY DEF Init
  <1>5. TypeOK
    BY <1>1 DEF Init, TypeOK
  <1>6. Unregistered
    BY <1>1, <1>4 DEF Init, Unregistered, There
  <1>7. \A s \in Seeders : OnItsWay(s)
    BY <1>3 DEF OnItsWay, AtWork
  <1>8. \A o \in Orgs : Registration(o)
    BY <1>3 DEF Registration, AtWork, Seeders
  <1> QED  BY <1>5, <1>6, <1>7, <1>8 DEF PInv, Init

\* The invariant holds throughout.
LEMMA PInvHolds == Spec => []PInv
  <1>1. Init => PInv
    BY PInvFirst
  <1>2. PInv /\ [Next]_vars => PInv'
    BY PInvStep
  <1> QED  BY <1>1, <1>2, PTL DEF Spec

\* Rows of roles and the places of seeders are what the tables and the code
\* allow, for any number of processes, organizations and roles.
THEOREM ProvisioningTyping == Spec => []TypeOK
  <1>1. PInv => TypeOK
    BY DEF PInv
  <1> QED  BY <1>1, PInvHolds, PTL

\* However seeders overlap, stop and fail: where one came to the end of an
\* organization every role is there with its permissions, and an owner who is
\* signed in by registering finds them so (seedRolesForOrganization, register).
THEOREM RolesVouchedForHolds == Spec => []RolesVouchedFor
  <1>1. PInv => RolesVouchedFor
    BY DEF PInv, TypeOK, Registration, RolesVouchedFor
  <1> QED  BY <1>1, PInvHolds, PTL

-----------------------------------------------------------------------------
(* Files: the inductive invariant *)

\* Until it has moved the file is not in the store and has no row.
Before(r) ==
    /\ step[r] = "new" => disk[r] = "none"
    /\ step[r] \in {"new", "received", "moved", "importing", "drop", "filling", "sending"}
           => row[r] = "none"
    /\ step[r] \in {"received", "importing", "drop", "filling", "sending"} => disk[r] # "kept"

\* From then on it is in the store until it has a row, or is looked for to be removed.
After(r) ==
    /\ step[r] = "moved" => disk[r] = "kept"
    /\ step[r] = "undo" => disk[r] = "kept" /\ (r \notin denied => row[r] = "none")
    /\ step[r] = "catch" => disk[r] # "kept" \/ r \in excuse

Sound(r) ==
    /\ Before(r)
    /\ After(r)
    /\ reader[r] = "found" => row[r] # "none"
    /\ r \notin denied => F!RowHasFile(r)
    /\ r \notin excuse => F!Tidy(r)

FInv == F!TypeOK /\ \A r \in Requests : Sound(r)

-----------------------------------------------------------------------------
(* Files: types *)

\* No step of a request leaves the domains.
LEMMA TypeStep ==
    ASSUME F!TypeOK, NEW r \in Requests,
           F!Upload(r) \/ F!Document(r) \/ F!Workbook(r) \/ F!Remove(r)
    PROVE  F!TypeOK'
  <1>1. CASE F!Upload(r)
    BY <1>1 DEF F!Upload, F!Receive, F!BadBody, F!NotStored, F!Move, F!Insert, F!InsertFails, F!Goto,
                F!TypeOK, F!Steps, F!InFlight
  <1>2. CASE F!Document(r)
    BY <1>2 DEF F!Document, F!Find, F!Fetch, F!Delete, F!TypeOK, F!Steps, F!InFlight
  <1>3. CASE F!Workbook(r)
    BY <1>3 DEF F!Workbook, F!ReceiveWorkbook, F!Import, F!Export, F!ExportLeft, F!Send, F!Goto, F!Excuse,
                F!TypeOK, F!Steps, F!InFlight
  <1>4. CASE F!Remove(r)
    BY <1>4 DEF F!Remove, F!Drop, F!Undo, F!Catch, F!Sent, F!Unlink, F!Goto, F!Excuse, F!TypeOK, F!Steps, F!InFlight
  <1> QED  BY <1>1, <1>2, <1>3, <1>4

\* Nor does the end of the process.
LEMMA TypeStop == F!TypeOK /\ F!Stop => F!TypeOK'
  BY DEF F!Stop, F!TypeOK, F!Steps, F!InFlight

-----------------------------------------------------------------------------
(* The request that moves, and the others *)

\* An upload keeps its own request sound.
LEMMA UploadSound ==
    ASSUME F!TypeOK, NEW r \in Requests, Sound(r), F!Upload(r)
    PROVE  Sound(r)'
  <1> USE DEF Sound, Before, After, F!RowHasFile, F!Tidy, F!TypeOK, F!Goto
  <1>1. CASE F!Receive(r)      BY <1>1 DEF F!Receive
  <1>2. CASE F!BadBody(r)      BY <1>2 DEF F!BadBody
  <1>3. CASE F!NotStored(r)    BY <1>3 DEF F!NotStored
  <1>4. CASE F!Move(r)         BY <1>4 DEF F!Move
  <1>5. CASE F!Insert(r)       BY <1>5 DEF F!Insert
  <1>6. CASE F!InsertFails(r)  BY <1>6 DEF F!InsertFails
  <1> QED  BY <1>1, <1>2, <1>3, <1>4, <1>5, <1>6 DEF F!Upload

\* So do downloads and the deletion of a document.
LEMMA DocumentSound ==
    ASSUME F!TypeOK, NEW r \in Requests, Sound(r), F!Document(r)
    PROVE  Sound(r)'
  <1> USE DEF Sound, Before, After, F!RowHasFile, F!Tidy, F!TypeOK
  <1>1. CASE F!Find(r)    BY <1>1 DEF F!Find
  <1>2. CASE F!Fetch(r)   BY <1>2 DEF F!Fetch
  <1>3. CASE F!Delete(r)  BY <1>3 DEF F!Delete
  <1> QED  BY <1>1, <1>2, <1>3 DEF F!Document

\* So do imports and exports.
LEMMA WorkbookSound ==
    ASSUME F!TypeOK, NEW r \in Requests, Sound(r), F!Workbook(r)
    PROVE  Sound(r)'
  <1> USE DEF Sound, Before, After, F!RowHasFile, F!Tidy, F!TypeOK, F!Goto, F!Excuse
  <1>1. CASE F!ReceiveWorkbook(r)  BY <1>1 DEF F!ReceiveWorkbook
  <1>2. CASE F!Import(r)           BY <1>2 DEF F!Import
  <1>3. CASE F!Export(r)           BY <1>3 DEF F!Export
  <1>4. CASE F!ExportLeft(r)       BY <1>4 DEF F!ExportLeft
  <1>5. CASE F!Send(r)             BY <1>5 DEF F!Send
  <1> QED  BY <1>1, <1>2, <1>3, <1>4, <1>5 DEF F!Workbook

\* So does every unlink, whether it works or not.
LEMMA RemoveSound ==
    ASSUME F!TypeOK, NEW r \in Requests, Sound(r), F!Remove(r)
    PROVE  Sound(r)'
  <1> USE DEF Sound, Before, After, F!RowHasFile, F!Tidy, F!TypeOK, F!Goto, F!Excuse, F!Unlink
  <1>1. CASE F!Drop(r)   BY <1>1 DEF F!Drop
  <1>2. CASE F!Undo(r)   BY <1>2 DEF F!Undo
  <1>3. CASE F!Catch(r)  BY <1>3 DEF F!Catch
  <1>4. CASE F!Sent(r)   BY <1>4 DEF F!Sent
  <1> QED  BY <1>1, <1>2, <1>3, <1>4 DEF F!Remove

\* No request touches what belongs to another one.
LEMMA OthersUntouched ==
    ASSUME F!TypeOK, NEW r \in Requests, NEW q \in Requests, q # r,
           F!Upload(r) \/ F!Document(r) \/ F!Workbook(r) \/ F!Remove(r)
    PROVE  /\ step'[q] = step[q] /\ disk'[q] = disk[q] /\ row'[q] = row[q]
           /\ reader'[q] = reader[q]
           /\ (q \in denied' <=> q \in denied) /\ (q \in excuse' <=> q \in excuse)
  <1> USE DEF F!TypeOK, F!Goto, F!Excuse
  <1>1. CASE F!Upload(r)
    BY <1>1 DEF F!Upload, F!Receive, F!BadBody, F!NotStored, F!Move, F!Insert, F!InsertFails
  <1>2. CASE F!Document(r)
    BY <1>2 DEF F!Document, F!Find, F!Fetch, F!Delete
  <1>3. CASE F!Workbook(r)
    BY <1>3 DEF F!Workbook, F!ReceiveWorkbook, F!Import, F!Export, F!ExportLeft, F!Send
  <1>4. CASE F!Remove(r)
    BY <1>4 DEF F!Remove, F!Drop, F!Undo, F!Catch, F!Sent, F!Unlink
  <1> QED  BY <1>1, <1>2, <1>3, <1>4

\* A request that stops where it was is excused, and one that was over stays sound.
LEMMA StopSound ==
    ASSUME F!TypeOK, NEW r \in Requests, Sound(r), F!Stop
    PROVE  Sound(r)'
  BY DEF F!Stop, Sound, Before, After, F!RowHasFile, F!Tidy, F!TypeOK, F!InFlight

-----------------------------------------------------------------------------
(* Files: the theorems *)

\* The invariant is inductive.
LEMMA FInvInductive == FInv /\ [F!Next]_(F!vars) => FInv'
  <1> SUFFICES ASSUME FInv, [F!Next]_(F!vars) PROVE FInv'
    OBVIOUS
  <1>1. CASE UNCHANGED F!vars
    BY <1>1 DEF F!vars, FInv, F!TypeOK, Sound, Before, After, F!RowHasFile, F!Tidy
  <1>2. CASE F!Stop
    BY <1>2, TypeStop, StopSound DEF FInv
  <1>3. ASSUME NEW r \in Requests, F!Upload(r) \/ F!Document(r) \/ F!Workbook(r) \/ F!Remove(r)
        PROVE  FInv'
    <2>1. F!TypeOK'
      BY <1>3, TypeStep DEF FInv
    <2>2. Sound(r)'
      BY <1>3, UploadSound, DocumentSound, WorkbookSound, RemoveSound DEF FInv
    <2>3. ASSUME NEW q \in Requests, q # r PROVE Sound(q)'
      BY <1>3, <2>3, OthersUntouched DEF FInv, Sound, Before, After, F!RowHasFile, F!Tidy
    <2> QED  BY <2>1, <2>2, <2>3 DEF FInv
  <1> QED  BY <1>1, <1>2, <1>3 DEF F!Next

\* The invariant holds throughout.
LEMMA FInvHolds == F!Spec => []FInv
  <1>1. F!Init => FInv
    BY DEF F!Init, FInv, F!TypeOK, F!Steps, Sound, Before, After, F!RowHasFile, F!Tidy
  <1> QED  BY <1>1, FInvInductive, PTL DEF F!Spec

\* Every variable stays in its domain.
THEOREM FilesTyping == F!Spec => []F!TypeOK
  <1>1. FInv => F!TypeOK  BY DEF FInv
  <1> QED  BY <1>1, FInvHolds, PTL

\* However many requests bring, make, move and remove files, and wherever one fails
\* or the process stops: a row has its file and a download that found the row gets
\* it, unless the insert was reported as failed after it had committed; and a
\* request that is over leaves no file without a row, unless an unlink failed, the
\* process stopped, or an export did not come to its end.
THEOREM FilesAgreeHolds == F!Spec => []FilesAgree
  <1>1. FInv => FilesAgree  BY DEF FInv, Sound, FilesAgree, F!FilesAgree
  <1> QED  BY <1>1, FInvHolds, PTL

-----------------------------------------------------------------------------
(* Notifications: the inductive invariant *)

BusyStep == {"insert", "count", "publish"}
Handles(b, w, u) == worker[b][w].step \in BusyStep /\ worker[b][w].user = u
Inserting(b, w, u) == worker[b][w].step = "insert" /\ worker[b][w].user = u

\* Whom a worker handles was taken, and is handled by that worker alone.
OneHand(b) ==
    \A w \in N!Slot, u \in Users :
        Handles(b, w, u) => u \in taken[b] /\ \A v \in N!Slot : Handles(b, v, u) => v = w

\* Nobody is notified before being taken; who was taken is about to be, or was,
\* or the attempt failed.
Counted(b, u) ==
    /\ inserts[<<b, u>>] <= 1
    /\ u \notin taken[b] => inserts[<<b, u>>] = 0
    /\ \A w \in N!Slot : Inserting(b, w, u) => inserts[<<b, u>>] = 0
    /\ u \in taken[b] => \/ inserts[<<b, u>>] = 1 \/ <<b, u>> \in lost
                         \/ \E w \in N!Slot : Inserting(b, w, u)

\* Nobody was taken before the start, and nobody is left at the end.
Bounded(b) ==
    /\ phase[b] = "new" => taken[b] = {}
    /\ phase[b] = "done" => recipients[b] \subseteq taken[b]

NInv ==
    /\ N!TypeOK
    /\ \A b \in Fanouts : OneHand(b) /\ Bounded(b) /\ \A u \in Users : Counted(b, u)

-----------------------------------------------------------------------------
(* Notifications: the pool *)

\* What a worker does is one of the things it may do.
LEMMA WorkTyped ==
    ASSUME N!TypeOK, NEW b \in Fanouts, NEW w \in N!Slot
    PROVE  /\ worker[b][w] \in N!Work
           /\ worker[b][w].step \in {"free", "ended"} \cup BusyStep
           /\ worker[b][w].step = "free" <=> worker[b][w] = N!Free
           /\ worker[b][w].step = "ended" <=> worker[b][w] = N!Ended
           /\ worker[b][w].step \in BusyStep => worker[b][w].user \in Users
<1>1. PICK x : x = worker[b][w]
  OBVIOUS
<1>2. x \in N!Work
  BY <1>1 DEF N!TypeOK
<1>3. x = N!Free \/ x = N!Ended \/ x \in [step: BusyStep, user: Users]
  BY <1>2 DEF N!Work, BusyStep
<1>4. N!Free.step = "free" /\ N!Ended.step = "ended"
  BY DEF N!Free, N!Ended
<1> QED
  BY <1>1, <1>2, <1>3, <1>4 DEF BusyStep

\* One worker moves, the others stay.
LEMMA SetTyped ==
    ASSUME N!TypeOK, NEW b \in Fanouts, NEW w \in N!Slot, NEW x \in N!Work, N!Set(b, w, x)
    PROVE  /\ worker' \in [Fanouts -> [N!Slot -> N!Work]]
           /\ worker'[b][w] = x
           /\ \A c \in Fanouts, v \in N!Slot : c # b \/ v # w => worker'[c][v] = worker[c][v]
  BY DEF N!TypeOK, N!Set

\* While a fan-out runs its workers may do anything; those of the others have ended.
LEMMA EndedKept ==
    ASSUME N!TypeOK, NEW b \in Fanouts, NEW w \in N!Slot, NEW x \in N!Work, N!Set(b, w, x),
           phase[b] = "running", phase' = phase
    PROVE  \A c \in Fanouts, v \in N!Slot : phase'[c] # "running" => worker'[c][v] = N!Ended
<1> SUFFICES ASSUME NEW c \in Fanouts, NEW v \in N!Slot, phase'[c] # "running"
             PROVE  worker'[c][v] = N!Ended
  OBVIOUS
<1>1. c # b /\ phase[c] # "running"
  OBVIOUS
<1>2. worker[c][v] = N!Ended
  BY <1>1 DEF N!TypeOK
<1> QED
  BY <1>1, <1>2, SetTyped

\* A busy worker is one, and does what it was set to.
LEMMA BusyTyped ==
    ASSUME NEW u \in Users, NEW s \in BusyStep
    PROVE  N!Busy(s, u) \in N!Work /\ N!Busy(s, u).step = s /\ N!Busy(s, u).user = u
  BY DEF N!Busy, N!Work, BusyStep

\* A free or ended worker handles nobody.
LEMMA IdleWork ==
    /\ N!Free \in N!Work /\ N!Ended \in N!Work
    /\ N!Free.step = "free" /\ N!Ended.step = "ended"
  BY DEF N!Free, N!Ended, N!Work

\* To take a recipient keeps the invariant.
LEMMA TakeKeeps ==
    ASSUME NInv, NEW b \in Fanouts, NEW w \in N!Slot, NEW u \in Users, N!Take(b, w, u)
    PROVE  NInv'
<1> USE DEF NInv
<1>1. N!Busy("insert", u) \in N!Work /\ N!Busy("insert", u).step = "insert"
      /\ N!Busy("insert", u).user = u
  BY BusyTyped DEF BusyStep
<1>2. /\ worker' \in [Fanouts -> [N!Slot -> N!Work]]
      /\ worker'[b][w].step = "insert" /\ worker'[b][w].user = u
      /\ \A c \in Fanouts, v \in N!Slot : c # b \/ v # w => worker'[c][v] = worker[c][v]
  BY <1>1, SetTyped DEF N!Take
<1>3. /\ phase[b] = "running" /\ u \in recipients[b] /\ u \notin taken[b]
      /\ UNCHANGED <<phase, recipients, note, inserts, stream, client, told, lost>>
  BY DEF N!Take, N!hub
<1>4. taken' = [taken EXCEPT ![b] = taken[b] \cup {u}]
  BY DEF N!Take, N!Advance
<1>5. worker[b][w].step = "free"
  BY IdleWork DEF N!Take
<1>6. /\ taken' \in [Fanouts -> SUBSET Users] /\ taken'[b] = taken[b] \cup {u}
      /\ \A c \in Fanouts : c # b => taken'[c] = taken[c]
  BY <1>4 DEF N!TypeOK
<1>7. N!TypeOK'
  <2>1. \A c \in Fanouts : taken'[c] \subseteq recipients'[c]
    BY <1>3, <1>6 DEF N!TypeOK
  <2>2. \A c \in Fanouts, v \in N!Slot : phase'[c] # "running" => worker'[c][v] = N!Ended
    BY <1>1, <1>3, EndedKept DEF N!Take
  <2> QED
    BY <1>2, <1>3, <1>6, <2>1, <2>2 DEF N!TypeOK
<1>8. ASSUME NEW c \in Fanouts
      PROVE  OneHand(c)'
  <2>1. ASSUME NEW v \in N!Slot, NEW x \in Users, Handles(c, v, x)'
        PROVE  (Handles(c, v, x) /\ (c # b \/ x # u)) \/ (c = b /\ v = w /\ x = u)
    BY <1>2, <1>3, <2>1 DEF OneHand, Handles
  <2>2. OneHand(c)
    OBVIOUS
  <2> QED
    BY <1>6, <2>1, <2>2 DEF OneHand
<1>9. ASSUME NEW c \in Fanouts
      PROVE  Bounded(c)'
  BY <1>3, <1>6 DEF Bounded
<1>10. ASSUME NEW c \in Fanouts, NEW x \in Users
       PROVE  Counted(c, x)'
  <2>1. Counted(c, x)
    OBVIOUS
  <2>2. CASE c = b /\ x = u
    <3>1. \A v \in N!Slot : Inserting(b, v, u)' => inserts[<<b, u>>] = 0
      BY <1>3, <2>1, <2>2 DEF Counted
    <3>2. Inserting(b, w, u)'
      BY <1>2 DEF Inserting
    <3> QED
      BY <1>3, <1>6, <2>1, <2>2, <3>1, <3>2 DEF Counted
  <2>3. CASE ~(c = b /\ x = u)
    <3>1. \A v \in N!Slot : Inserting(c, v, x)' <=> Inserting(c, v, x)
      BY <1>2, <1>5, <2>3 DEF Inserting
    <3>2. x \in taken'[c] <=> x \in taken[c]
      BY <1>6, <2>3
    <3> QED
      BY <1>3, <2>1, <3>1, <3>2 DEF Counted
  <2> QED
    BY <2>2, <2>3
<1> QED
  BY <1>7, <1>8, <1>9, <1>10

\* A worker that handles somebody goes on with that one, or is free or ended after:
\* nobody else is handled, and nobody twice.
LEMMA LaterKeeps ==
    ASSUME NInv, NEW b \in Fanouts, NEW w \in N!Slot, NEW x \in N!Work, N!Set(b, w, x),
           worker[b][w].step \in BusyStep, x.step \in BusyStep => x.user = worker[b][w].user,
           UNCHANGED <<phase, recipients, taken>>
    PROVE  /\ worker' \in [Fanouts -> [N!Slot -> N!Work]]
           /\ \A c \in Fanouts, v \in N!Slot : phase'[c] # "running" => worker'[c][v] = N!Ended
           /\ \A c \in Fanouts : OneHand(c)' /\ Bounded(c)'
           /\ worker'[b][w] = x
           /\ \A c \in Fanouts, v \in N!Slot : c # b \/ v # w => worker'[c][v] = worker[c][v]
<1> USE DEF NInv
<1>1. /\ worker' \in [Fanouts -> [N!Slot -> N!Work]]
      /\ worker'[b][w] = x
      /\ \A c \in Fanouts, v \in N!Slot : c # b \/ v # w => worker'[c][v] = worker[c][v]
  BY SetTyped
<1>2. phase[b] = "running"
  <2>1. worker[b][w] # N!Ended
    BY IdleWork DEF BusyStep
  <2> QED
    BY <2>1 DEF N!TypeOK
<1>3. \A c \in Fanouts, v \in N!Slot : phase'[c] # "running" => worker'[c][v] = N!Ended
  BY <1>2, EndedKept
<1>4. ASSUME NEW c \in Fanouts
      PROVE  OneHand(c)'
  <2>1. \A v \in N!Slot, u \in Users : Handles(c, v, u)' => Handles(c, v, u)
    BY <1>1 DEF Handles
  <2>2. OneHand(c)
    OBVIOUS
  <2> QED
    BY <2>1, <2>2 DEF OneHand
<1>5. ASSUME NEW c \in Fanouts
      PROVE  Bounded(c)'
  BY DEF Bounded
<1> QED
  BY <1>1, <1>3, <1>4, <1>5

\* To insert the row keeps the invariant.
LEMMA InsertKeeps ==
    ASSUME NInv, NEW b \in Fanouts, NEW w \in N!Slot, N!Insert(b, w)
    PROVE  NInv'
<1> USE DEF NInv
<1>1. PICK u \in Users : u = worker[b][w].user
  BY WorkTyped DEF N!Insert, BusyStep
<1>2. N!Busy("count", u) \in N!Work /\ N!Busy("count", u).step = "count"
      /\ N!Busy("count", u).user = u
  BY BusyTyped DEF BusyStep
<1>3. /\ worker[b][w].step = "insert" /\ N!Set(b, w, N!Busy("count", u))
      /\ note' = [note EXCEPT ![<<b, u>>] = "unread"]
      /\ inserts' = [inserts EXCEPT ![<<b, u>>] = @ + 1]
      /\ UNCHANGED <<phase, recipients, taken, stream, client, told, lost>>
  BY <1>1 DEF N!Insert, N!hub
<1>4. /\ worker' \in [Fanouts -> [N!Slot -> N!Work]]
      /\ \A c \in Fanouts, v \in N!Slot : phase'[c] # "running" => worker'[c][v] = N!Ended
      /\ \A c \in Fanouts : OneHand(c)' /\ Bounded(c)'
      /\ worker'[b][w] = N!Busy("count", u)
      /\ \A c \in Fanouts, v \in N!Slot : c # b \/ v # w => worker'[c][v] = worker[c][v]
  BY <1>1, <1>2, <1>3, LaterKeeps DEF BusyStep
<1>5. /\ note' \in [N!Note -> {"none", "unread", "read"}]
      /\ inserts' \in [N!Note -> Nat]
      /\ inserts[<<b, u>>] = 0 /\ inserts'[<<b, u>>] = 1
      /\ \A c \in Fanouts, x \in Users : c # b \/ x # u => inserts'[<<c, x>>] = inserts[<<c, x>>]
  <2>1. <<b, u>> \in N!Note
    BY DEF N!Note
  <2>2. inserts[<<b, u>>] = 0
    BY <1>1, <1>3 DEF Counted, Inserting
  <2> QED
    BY <1>3, <2>1, <2>2 DEF N!TypeOK, N!Note
<1>6. N!TypeOK'
  BY <1>3, <1>4, <1>5 DEF N!TypeOK
<1>7. ASSUME NEW c \in Fanouts, NEW x \in Users
      PROVE  Counted(c, x)'
  <2>1. Counted(c, x) /\ OneHand(c)
    OBVIOUS
  <2>2. CASE c = b /\ x = u
    <3>1. u \in taken[b] /\ \A v \in N!Slot : Handles(b, v, u) => v = w
      BY <1>1, <1>3 DEF OneHand, Handles, BusyStep
    <3>2. \A v \in N!Slot : ~Inserting(b, v, u)'
      BY <1>2, <1>4, <3>1 DEF Inserting, Handles, BusyStep
    <3> QED
      BY <1>3, <1>5, <2>2, <3>1, <3>2 DEF Counted
  <2>3. CASE c # b \/ x # u
    <3>1. \A v \in N!Slot : Inserting(c, v, x)' <=> Inserting(c, v, x)
      BY <1>1, <1>2, <1>4, <2>3 DEF Inserting
    <3> QED
      BY <1>3, <1>5, <2>1, <2>3, <3>1 DEF Counted
  <2> QED
    BY <2>2, <2>3
<1> QED
  BY <1>4, <1>6, <1>7

\* To count, to publish and to swallow an error keep the invariant.
LEMMA AfterInsertKeeps ==
    ASSUME NInv, NEW b \in Fanouts, NEW w \in N!Slot,
           N!Count(b, w) \/ N!Publish(b, w) \/ N!Swallow(b, w)
    PROVE  NInv'
<1> USE DEF NInv
<1>1. PICK u \in Users : u = worker[b][w].user
  BY WorkTyped DEF N!Count, N!Publish, N!Swallow, BusyStep
<1>2. <<b, u>> \in N!Note
  BY DEF N!Note
<1>3. PICK x \in N!Work :
           /\ worker' = [worker EXCEPT ![b][w] = x]
           /\ x.step = "free" \/ (x.step = "publish" /\ x.user = u)
  <2>1. CASE N!Count(b, w)
    <3>1. worker[b][w] \in [step: BusyStep, user: Users]
      BY <2>1, WorkTyped DEF N!Count, N!Work, BusyStep, N!Free, N!Ended
    <3>2. PICK next : next = [worker[b][w] EXCEPT !.step = "publish"]
      OBVIOUS
    <3>3. next \in N!Work /\ next.step = "publish" /\ next.user = u
      BY <1>1, <3>1, <3>2 DEF N!Work, BusyStep
    <3> QED
      BY <2>1, <3>2, <3>3 DEF N!Count, N!Set
  <2>2. CASE N!Publish(b, w) \/ N!Swallow(b, w)
    BY <2>2, IdleWork DEF N!Publish, N!Swallow, N!AfterError, N!Set
  <2> QED
    BY <2>1, <2>2
<1>4. /\ worker[b][w].step \in BusyStep
      /\ UNCHANGED <<phase, recipients, taken, note, inserts, stream, client>>
      /\ lost \subseteq lost' /\ lost' \subseteq lost \cup {<<b, u>>}
      /\ worker[b][w].step = "insert" => <<b, u>> \in lost'
      /\ told' \in [Streams -> SUBSET N!Note]
  <2>1. CASE N!Count(b, w) \/ N!Swallow(b, w)
    BY <1>1, <2>1 DEF N!Count, N!Swallow, BusyStep, N!hub, N!TypeOK
  <2>2. CASE N!Publish(b, w)
    BY <1>1, <1>2, <2>2 DEF N!Publish, BusyStep, N!TypeOK
  <2> QED
    BY <2>1, <2>2
<1>5. /\ worker' \in [Fanouts -> [N!Slot -> N!Work]]
      /\ \A c \in Fanouts, v \in N!Slot : phase'[c] # "running" => worker'[c][v] = N!Ended
      /\ \A c \in Fanouts : OneHand(c)' /\ Bounded(c)'
      /\ worker'[b][w] = x
      /\ \A c \in Fanouts, v \in N!Slot : c # b \/ v # w => worker'[c][v] = worker[c][v]
  <2>1. x.step \in BusyStep => x.user = worker[b][w].user
    BY <1>1, <1>3 DEF BusyStep
  <2>2. N!Set(b, w, x)
    BY <1>3 DEF N!Set
  <2>3. worker[b][w].step \in BusyStep /\ UNCHANGED <<phase, recipients, taken>>
    BY <1>4
  <2> QED
    BY <2>1, <2>2, <2>3, LaterKeeps
<1>6. N!TypeOK'
  BY <1>2, <1>4, <1>5 DEF N!TypeOK
<1>7. ASSUME NEW c \in Fanouts, NEW y \in Users
      PROVE  Counted(c, y)'
  <2>1. Counted(c, y)
    OBVIOUS
  <2>2. ASSUME NEW v \in N!Slot
        PROVE  /\ Inserting(c, v, y)' => Inserting(c, v, y)
               /\ Inserting(c, v, y) => Inserting(c, v, y)' \/ <<c, y>> \in lost'
    <3>1. CASE c = b /\ v = w
      <4>1. worker'[c][v].step # "insert"
        BY <1>3, <1>5, <3>1
      <4>2. Inserting(c, v, y) => <<c, y>> \in lost'
        BY <1>1, <1>4, <3>1 DEF Inserting
      <4> QED
        BY <4>1, <4>2 DEF Inserting
    <3>2. CASE c # b \/ v # w
      BY <1>5, <3>2 DEF Inserting
    <3> QED
      BY <3>1, <3>2
  <2> QED
    BY <1>4, <2>1, <2>2 DEF Counted
<1> QED
  BY <1>5, <1>6, <1>7


\* To find the recipients keeps the invariant.
LEMMA FanOutKeeps ==
    ASSUME NInv, NEW b \in Fanouts, NEW found \in SUBSET Users, N!FanOut(b, found)
    PROVE  NInv'
<1> USE DEF NInv
<1>1. /\ phase[b] = "new"
      /\ phase' = [phase EXCEPT ![b] = IF found = {} THEN "done" ELSE "running"]
      /\ recipients' = [recipients EXCEPT ![b] = found]
      /\ UNCHANGED <<taken, note, inserts, stream, client, told, lost>>
  BY DEF N!FanOut, N!hub
<1>2. PICK pool \in [N!Slot -> N!Work] :
           /\ worker' = [worker EXCEPT ![b] = pool]
           /\ \A v \in N!Slot : pool[v].step \in {"free", "ended"}
           /\ found = {} => \A v \in N!Slot : pool[v] = N!Ended
  <2>1. PICK pool : pool = [v \in N!Slot |-> IF v <= N!Cardinality(found) THEN N!Free ELSE N!Ended]
    OBVIOUS
  <2>2. pool \in [N!Slot -> N!Work] /\ \A v \in N!Slot : pool[v].step \in {"free", "ended"}
    BY <2>1, IdleWork
  <2>3. ASSUME found = {}, NEW v \in N!Slot
        PROVE  pool[v] = N!Ended
    <3>1. N!Cardinality(found) = 0
      BY <2>3, FS_EmptySet DEF N!Cardinality, Cardinality
    <3>2. v \in Nat /\ v >= 1
      BY WidthIsPositive DEF N!Slot
    <3> QED
      BY <2>1, <3>1, <3>2
  <2>4. worker' = [worker EXCEPT ![b] = pool]
    BY <2>1 DEF N!FanOut
  <2> QED
    BY <2>2, <2>3, <2>4
<1>3. /\ worker' \in [Fanouts -> [N!Slot -> N!Work]] /\ worker'[b] = pool
      /\ \A c \in Fanouts : c # b => worker'[c] = worker[c]
  BY <1>2 DEF N!TypeOK
<1>4. /\ phase' \in [Fanouts -> {"new", "running", "done"}]
      /\ phase'[b] = IF found = {} THEN "done" ELSE "running"
      /\ \A c \in Fanouts : c # b => phase'[c] = phase[c]
  BY <1>1 DEF N!TypeOK
<1>5. /\ recipients' \in [Fanouts -> SUBSET Users] /\ recipients'[b] = found
      /\ \A c \in Fanouts : c # b => recipients'[c] = recipients[c]
  BY <1>1 DEF N!TypeOK
<1>6. taken[b] = {}
  BY <1>1 DEF Bounded
<1>7. N!TypeOK'
  <2>1. \A c \in Fanouts : taken'[c] \subseteq recipients'[c]
    BY <1>1, <1>5, <1>6 DEF N!TypeOK
  <2>2. ASSUME NEW c \in Fanouts, NEW v \in N!Slot, phase'[c] # "running"
        PROVE  worker'[c][v] = N!Ended
    <3>1. CASE c = b
      BY <1>2, <1>3, <1>4, <2>2, <3>1
    <3>2. CASE c # b
      BY <1>3, <1>4, <2>2, <3>2 DEF N!TypeOK
    <3> QED
      BY <3>1, <3>2
  <2> QED
    BY <1>1, <1>3, <1>4, <1>5, <2>1, <2>2 DEF N!TypeOK
<1>8. \A c \in Fanouts, v \in N!Slot, x \in Users :
          Handles(c, v, x)' => c # b /\ Handles(c, v, x)
  BY <1>2, <1>3 DEF Handles, BusyStep
<1>9. ASSUME NEW c \in Fanouts
      PROVE  OneHand(c)' /\ Bounded(c)'
  <2>1. OneHand(c) /\ Bounded(c)
    OBVIOUS
  <2>2. OneHand(c)'
    BY <1>1, <1>8, <2>1 DEF OneHand
  <2>3. Bounded(c)'
    BY <1>1, <1>4, <1>5, <1>6, <2>1 DEF Bounded
  <2> QED
    BY <2>2, <2>3
<1>10. ASSUME NEW c \in Fanouts, NEW x \in Users
       PROVE  Counted(c, x)'
  <2>1. Counted(c, x)
    OBVIOUS
  <2>2. CASE c = b
    <3>1. \A v \in N!Slot : ~Inserting(c, v, x)'
      BY <1>2, <1>3, <2>2 DEF Inserting
    <3> QED
      BY <1>1, <1>6, <2>1, <2>2, <3>1 DEF Counted
  <2>3. CASE c # b
    <3>1. \A v \in N!Slot : Inserting(c, v, x)' <=> Inserting(c, v, x)
      BY <1>3, <2>3 DEF Inserting
    <3> QED
      BY <1>1, <2>1, <3>1 DEF Counted
  <2> QED
    BY <2>2, <2>3
<1> QED
  BY <1>7, <1>9, <1>10

\* A worker that finds nothing left keeps the invariant, and ends the fan-out when it is
\* the last.
LEMMA ReturnKeeps ==
    ASSUME NInv, NEW b \in Fanouts, NEW w \in N!Slot, N!Return(b, w)
    PROVE  NInv'
<1> USE DEF NInv
<1>1. /\ phase[b] = "running" /\ worker[b][w].step = "free" /\ recipients[b] = taken[b]
      /\ phase' = [phase EXCEPT ![b] = IF N!Last(b, w) THEN "done" ELSE phase[b]]
      /\ UNCHANGED <<recipients, taken, note, inserts, stream, client, told, lost>>
  BY IdleWork DEF N!Return, N!hub
<1>2. /\ worker' \in [Fanouts -> [N!Slot -> N!Work]]
      /\ worker'[b][w] = N!Ended /\ worker'[b][w].step = "ended"
      /\ \A c \in Fanouts, v \in N!Slot : c # b \/ v # w => worker'[c][v] = worker[c][v]
  BY IdleWork, SetTyped DEF N!Return
<1>3. /\ phase' \in [Fanouts -> {"new", "running", "done"}]
      /\ phase'[b] = IF N!Last(b, w) THEN "done" ELSE "running"
      /\ \A c \in Fanouts : c # b => phase'[c] = phase[c]
  BY <1>1 DEF N!TypeOK
<1>4. N!TypeOK'
  <2>1. ASSUME NEW c \in Fanouts, NEW v \in N!Slot, phase'[c] # "running"
        PROVE  worker'[c][v] = N!Ended
    <3>1. CASE c = b
      BY <1>2, <1>3, <2>1, <3>1 DEF N!Last
    <3>2. CASE c # b
      BY <1>2, <1>3, <2>1, <3>2 DEF N!TypeOK
    <3> QED
      BY <3>1, <3>2
  <2> QED
    BY <1>1, <1>2, <1>3, <2>1 DEF N!TypeOK
<1>5. \A c \in Fanouts, v \in N!Slot, x \in Users :
          /\ Handles(c, v, x)' => Handles(c, v, x)
          /\ Inserting(c, v, x)' <=> Inserting(c, v, x)
  BY <1>1, <1>2 DEF Handles, Inserting, BusyStep
<1>6. ASSUME NEW c \in Fanouts
      PROVE  OneHand(c)' /\ Bounded(c)'
  <2>1. OneHand(c) /\ Bounded(c)
    OBVIOUS
  <2>2. OneHand(c)'
    BY <1>1, <1>5, <2>1 DEF OneHand
  <2>3. Bounded(c)'
    BY <1>1, <1>3, <2>1 DEF Bounded
  <2> QED
    BY <2>2, <2>3
<1>7. ASSUME NEW c \in Fanouts, NEW x \in Users
      PROVE  Counted(c, x)'
  <2>1. Counted(c, x)
    OBVIOUS
  <2> QED
    BY <1>1, <1>5, <2>1 DEF Counted
<1> QED
  BY <1>4, <1>6, <1>7

\* What leaves the pools, the history of the rows and the lost events alone keeps the invariant.
LEMMA BesideKeeps ==
    ASSUME NInv, N!TypeOK', UNCHANGED <<phase, recipients, taken, worker, inserts, lost>>
    PROVE  NInv'
<1>1. \A b \in Fanouts : OneHand(b)' /\ Bounded(b)'
  BY DEF NInv, OneHand, Handles, Bounded
<1>2. \A b \in Fanouts, u \in Users : Counted(b, u)'
  BY DEF NInv, Counted, Inserting
<1> QED
  BY <1>1, <1>2 DEF NInv

\* Every step of the notifications keeps the invariant.
LEMMA NInvKept ==
    ASSUME NInv, [N!Next]_(N!vars)
    PROVE  NInv'
<1>1. ASSUME NEW b \in Fanouts, NEW w \in N!Slot, N!Step(b, w)
      PROVE  NInv'
  BY <1>1, TakeKeeps, ReturnKeeps, InsertKeeps, AfterInsertKeeps DEF N!Step
<1>2. ASSUME NEW s \in Streams, NEW u \in Users, N!Open(s, u)
      PROVE  NInv'
  <2>1. N!TypeOK'
    BY <1>2 DEF NInv, N!TypeOK, N!Open, N!pool
  <2> QED
    BY <1>2, <2>1, BesideKeeps DEF N!Open, N!pool
<1>3. ASSUME NEW s \in Streams, N!StreamCount(s) \/ N!StreamWrite(s) \/ N!Close(s)
      PROVE  NInv'
  <2>1. stream' \in [Streams -> {"closed", "subscribed", "counted", "open"}]
    BY <1>3 DEF NInv, N!TypeOK, N!StreamCount, N!StreamWrite, N!Close
  <2>2. told' \in [Streams -> SUBSET N!Note]
    BY <1>3 DEF NInv, N!TypeOK, N!StreamCount, N!StreamWrite, N!Close, N!Unread
  <2>3. UNCHANGED <<phase, recipients, taken, worker, note, inserts, client, lost>>
    BY <1>3 DEF N!StreamCount, N!StreamWrite, N!Close, N!pool
  <2>4. N!TypeOK'
    BY <2>1, <2>2, <2>3 DEF NInv, N!TypeOK
  <2> QED
    BY <2>3, <2>4, BesideKeeps
<1>4. ASSUME NEW M, N!MarkRead(M)
      PROVE  NInv'
  <2>1. note' \in [N!Note -> {"none", "unread", "read"}]
    BY <1>4 DEF NInv, N!TypeOK, N!MarkRead
  <2>2. UNCHANGED <<phase, recipients, taken, worker, inserts, stream, client, told, lost>>
    BY <1>4 DEF N!MarkRead, N!pool, N!hub
  <2>3. N!TypeOK'
    BY <2>1, <2>2 DEF NInv, N!TypeOK
  <2> QED
    BY <2>2, <2>3, BesideKeeps
<1>5. CASE UNCHANGED N!vars
  <2>1. N!TypeOK'
    BY <1>5 DEF NInv, N!TypeOK, N!vars
  <2> QED
    BY <1>5, <2>1, BesideKeeps DEF N!vars
<1> QED
  BY <1>1, <1>2, <1>3, <1>4, <1>5, FanOutKeeps DEF N!Next

\* The invariant holds when nobody is to be notified yet.
LEMMA NInvInit == N!Init => NInv
<1> SUFFICES ASSUME N!Init PROVE NInv
  OBVIOUS
<1>1. N!TypeOK
  BY IdleWork DEF N!Init, N!TypeOK
<1>2. ASSUME NEW b \in Fanouts
      PROVE  OneHand(b) /\ Bounded(b)
  BY IdleWork DEF N!Init, OneHand, Handles, Bounded, BusyStep
<1>3. ASSUME NEW b \in Fanouts, NEW u \in Users
      PROVE  Counted(b, u)
  <2>1. <<b, u>> \in N!Note
    BY DEF N!Note
  <2> QED
    BY <2>1, IdleWork DEF N!Init, Counted, Inserting
<1> QED
  BY <1>1, <1>2, <1>3 DEF NInv

-----------------------------------------------------------------------------
(* Notifications: theorems *)

\* The invariant of the pools always holds.
LEMMA NInvHolds == N!Spec => []NInv
  BY NInvInit, NInvKept, PTL DEF N!Spec

\* However the workers of a fan-out take turns over its recipients, each is notified at most
\* once, and each was notified, or the attempt failed, when notifyOrganizationAdmins returns.
THEOREM EachOnceHolds == N!Spec => []EachOnce
<1>1. NInv => EachOnce
  <2> SUFFICES ASSUME NInv PROVE EachOnce
    OBVIOUS
  <2>1. ASSUME NEW b \in Fanouts, NEW u \in Users
        PROVE  /\ inserts[<<b, u>>] <= 1
               /\ phase[b] = "done" /\ u \in recipients[b] =>
                      inserts[<<b, u>>] = 1 \/ <<b, u>> \in lost
    <3>1. Counted(b, u) /\ Bounded(b)
      BY DEF NInv
    <3>2. phase[b] = "done" => \A w \in N!Slot : ~Inserting(b, w, u)
      BY IdleWork DEF NInv, N!TypeOK, Inserting
    <3> QED
      BY <3>1, <3>2 DEF Counted, Bounded
  <2> QED
    BY <2>1 DEF EachOnce, N!EachOnce, NInv
<1> QED
  BY <1>1, NInvHolds, PTL

-----------------------------------------------------------------------------
(* Notifications: the streams *)

\* An event is under way when a worker has inserted the row and not yet published it.
LEMMA InFlightPair ==
    ASSUME NEW b \in Fanouts, NEW u \in Users
    PROVE  N!InFlight(<<b, u>>) <=> \E w \in N!Slot : /\ worker[b][w].step \in {"count", "publish"}
                                                      /\ worker[b][w].user = u
  BY DEF N!InFlight

\* What is unread of a user.
LEMMA UnreadPair ==
    ASSUME NEW b \in Fanouts, NEW u \in Users, NEW v
    PROVE  <<b, u>> \in N!Unread(v) <=> u = v /\ note[<<b, u>>] = "unread"
  BY DEF N!Unread, N!Note

\* A stream, and the notification of a fan-out to a user.
Flies(c, u) ==
    \E v \in N!Slot : worker[c][v].step \in {"count", "publish"} /\ worker[c][v].user = u
Due(s, c, u) ==
    stream[s] \in {"counted", "open"} /\ client[s] = u /\ note[<<c, u>>] = "unread"
Reached(s, c, u) == <<c, u>> \in told[s] \/ <<c, u>> \in lost \/ Flies(c, u)
Gapless == \A s \in Streams, c \in Fanouts, u \in Users : Due(s, c, u) => Reached(s, c, u)

\* NoGap, by fan-out and user.
LEMMA GaplessIsNoGap == N!NoGap <=> Gapless
<1> SUFFICES ASSUME NEW s \in Streams
             PROVE  (stream[s] \in {"counted", "open"} =>
                        \A n \in N!Unread(client[s]) :
                            n \in told[s] \/ n \in lost \/ N!InFlight(n))
                    <=> \A c \in Fanouts, u \in Users : Due(s, c, u) => Reached(s, c, u)
  BY DEF N!NoGap, Gapless
<1>1. \A n \in N!Unread(client[s]) : \E c \in Fanouts, u \in Users : n = <<c, u>>
  BY DEF N!Unread, N!Note
<1>2. ASSUME NEW c \in Fanouts, NEW u \in Users
      PROVE  /\ N!InFlight(<<c, u>>) <=> Flies(c, u)
             /\ <<c, u>> \in N!Unread(client[s]) <=> u = client[s] /\ note[<<c, u>>] = "unread"
  BY InFlightPair, UnreadPair DEF Flies
<1> QED
  BY <1>1, <1>2 DEF Due, Reached

\* A step of a worker leaves no gap in a stream.
LEMMA StepGapless ==
    ASSUME N!TypeOK, Gapless, NEW b \in Fanouts, NEW w \in N!Slot, N!Step(b, w)
    PROVE  Gapless'
<1> SUFFICES ASSUME NEW s \in Streams, NEW c \in Fanouts, NEW u \in Users, Due(s, c, u)'
             PROVE  Reached(s, c, u)'
  BY DEF Gapless
<1>1. UNCHANGED <<stream, client>>
  BY DEF N!Step, N!Take, N!Return, N!Insert, N!Count, N!Publish, N!Swallow, N!hub
<1>2. /\ \A x \in N!Slot : c # b \/ x # w => worker'[c][x] = worker[c][x]
      /\ told[s] \subseteq told'[s] /\ lost \subseteq lost'
  BY DEF N!TypeOK, N!Step, N!Take, N!Return, N!Insert, N!Count, N!Publish, N!Swallow, N!hub, N!Set
<1>3. ASSUME Due(s, c, u), c # b \/ worker[b][w].step \notin {"count", "publish"}
                           \/ worker[b][w].user # u
      PROVE  Reached(s, c, u)'
  BY <1>2, <1>3 DEF Gapless, Reached, Flies
<1>4. CASE (\E x \in Users : N!Take(b, w, x)) \/ N!Return(b, w)
  <2>1. Due(s, c, u) /\ worker[b][w].step = "free"
    BY <1>4, IdleWork DEF Due, N!Take, N!Return, N!hub
  <2> QED
    BY <1>3, <2>1
<1>5. CASE N!Insert(b, w)
  <2>1. CASE c = b /\ u = worker[b][w].user
    <3>1. worker'[b][w] = N!Busy("count", u)
      BY <1>5, <2>1 DEF N!TypeOK, N!Insert, N!Set
    <3>2. N!Busy("count", u).step = "count" /\ N!Busy("count", u).user = u
      BY BusyTyped DEF BusyStep
    <3> QED
      BY <2>1, <3>1, <3>2 DEF Reached, Flies
  <2>2. CASE c # b \/ u # worker[b][w].user
    <3>1. <<c, u>> \in N!Note
      BY DEF N!Note
    <3>2. note'[<<c, u>>] = note[<<c, u>>]
      BY <1>5, <2>2, <3>1 DEF N!TypeOK, N!Insert
    <3>3. Due(s, c, u)
      BY <1>1, <3>2 DEF Due
    <3> QED
      BY <1>3, <2>2, <3>3
  <2> QED
    BY <2>1, <2>2
<1>6. CASE N!Count(b, w)
  <2>1. Due(s, c, u)
    BY <1>6 DEF Due, N!Count, N!hub
  <2>2. PICK x : x = [worker[b][w] EXCEPT !.step = "publish"]
    OBVIOUS
  <2>3. worker'[b][w] = x
    BY <1>6, <2>2 DEF N!TypeOK, N!Count, N!Set
  <2>4. worker[b][w] \in [step: BusyStep, user: Users]
    BY <1>6, WorkTyped DEF N!Count, N!Work, BusyStep, N!Free, N!Ended
  <2>5. x.step = "publish" /\ x.user = worker[b][w].user
    BY <2>2, <2>4
  <2>6. CASE c = b /\ worker[b][w].user = u
    BY <2>3, <2>5, <2>6 DEF Reached, Flies
  <2>7. CASE c # b \/ worker[b][w].user # u
    BY <1>3, <2>1, <2>7
  <2> QED
    BY <2>6, <2>7
<1>7. CASE N!Publish(b, w)
  <2>1. Due(s, c, u)
    BY <1>7 DEF Due, N!Publish
  <2>2. CASE c = b /\ worker[b][w].user = u
    <3>1. s \in N!Listening(u)
      BY <2>1 DEF Due, N!Listening
    <3>2. <<c, u>> \in told'[s]
      BY <1>7, <2>2, <3>1 DEF N!Publish
    <3> QED
      BY <3>2 DEF Reached
  <2>3. CASE c # b \/ worker[b][w].user # u
    BY <1>3, <2>1, <2>3
  <2> QED
    BY <2>2, <2>3
<1>8. CASE N!Swallow(b, w)
  <2>1. Due(s, c, u)
    BY <1>8 DEF Due, N!Swallow, N!hub
  <2>2. CASE c = b /\ worker[b][w].user = u
    BY <1>8, <2>2 DEF Reached, N!Swallow
  <2>3. CASE c # b \/ worker[b][w].user # u
    BY <1>3, <2>1, <2>3
  <2> QED
    BY <2>2, <2>3
<1> QED
  BY <1>4, <1>5, <1>6, <1>7, <1>8 DEF N!Step

\* What makes nothing unread, tells no stream less and reaches no further state of one
\* without its count leaves no gap.
LEMMA BesideGapless ==
    ASSUME Gapless, UNCHANGED <<worker, lost>>,
           \A s \in Streams, c \in Fanouts, u \in Users :
               Due(s, c, u)' => (Due(s, c, u) /\ told[s] \subseteq told'[s]) \/ <<c, u>> \in told'[s]
    PROVE  Gapless'
  BY DEF Gapless, Reached, Flies

\* Every step of the notifications leaves no gap.
LEMMA GaplessKept ==
    ASSUME N!TypeOK, Gapless, [N!Next]_(N!vars)
    PROVE  Gapless'
<1>1. ASSUME NEW b \in Fanouts, NEW found \in SUBSET Users, N!FanOut(b, found)
      PROVE  Gapless'
  <2> SUFFICES ASSUME NEW s \in Streams, NEW c \in Fanouts, NEW u \in Users, Due(s, c, u)'
               PROVE  Reached(s, c, u)'
    BY DEF Gapless
  <2>1. Reached(s, c, u)
    BY <1>1 DEF Gapless, Due, N!FanOut, N!hub
  <2>2. Flies(c, u) => c # b
    BY <1>1, IdleWork DEF N!TypeOK, N!FanOut, Flies
  <2>3. c # b => worker'[c] = worker[c]
    BY <1>1 DEF N!TypeOK, N!FanOut
  <2> QED
    BY <1>1, <2>1, <2>2, <2>3 DEF Reached, Flies, N!FanOut, N!hub
<1>2. ASSUME NEW s \in Streams, NEW u \in Users, N!Open(s, u)
      PROVE  Gapless'
  <2>1. ASSUME NEW r \in Streams, NEW c \in Fanouts, NEW v \in Users, Due(r, c, v)'
        PROVE  Due(r, c, v) /\ told[r] \subseteq told'[r]
    BY <1>2, <2>1 DEF N!TypeOK, N!Open, Due
  <2> QED
    BY <1>2, <2>1, BesideGapless DEF N!Open, N!pool
<1>3. ASSUME NEW s \in Streams, N!StreamCount(s)
      PROVE  Gapless'
  <2>1. ASSUME NEW r \in Streams, NEW c \in Fanouts, NEW v \in Users, Due(r, c, v)'
        PROVE  (Due(r, c, v) /\ told[r] \subseteq told'[r]) \/ <<c, v>> \in told'[r]
    <3>1. CASE r = s
      <4>1. <<c, v>> \in N!Unread(client[s])
        BY <1>3, <2>1, <3>1, UnreadPair DEF N!StreamCount, Due
      <4> QED
        BY <1>3, <3>1, <4>1 DEF N!TypeOK, N!StreamCount
    <3>2. CASE r # s
      BY <1>3, <2>1, <3>2 DEF N!TypeOK, N!StreamCount, Due
    <3> QED
      BY <3>1, <3>2
  <2> QED
    BY <1>3, <2>1, BesideGapless DEF N!StreamCount, N!pool
<1>4. ASSUME NEW s \in Streams, N!StreamWrite(s) \/ N!Close(s)
      PROVE  Gapless'
  <2>1. ASSUME NEW r \in Streams, NEW c \in Fanouts, NEW v \in Users, Due(r, c, v)'
        PROVE  Due(r, c, v) /\ told[r] \subseteq told'[r]
    BY <1>4, <2>1 DEF N!TypeOK, N!StreamWrite, N!Close, Due
  <2> QED
    BY <1>4, <2>1, BesideGapless DEF N!StreamWrite, N!Close, N!pool
<1>5. ASSUME NEW M, N!MarkRead(M)
      PROVE  Gapless'
  <2>1. ASSUME NEW r \in Streams, NEW c \in Fanouts, NEW v \in Users, Due(r, c, v)'
        PROVE  Due(r, c, v) /\ told[r] \subseteq told'[r]
    <3>1. <<c, v>> \in N!Note
      BY DEF N!Note
    <3> QED
      BY <1>5, <2>1, <3>1 DEF N!MarkRead, N!hub, Due
  <2> QED
    BY <1>5, <2>1, BesideGapless DEF N!MarkRead, N!pool
<1>6. CASE UNCHANGED N!vars
  BY <1>6, BesideGapless DEF N!vars, Due
<1> QED
  BY <1>1, <1>2, <1>3, <1>4, <1>5, <1>6, StepGapless DEF N!Next

\* However fan-outs, subscriptions, counts and reads interleave, an event stream misses no
\* unread notification of its user: it was in the count, or its event was sent or will be.
THEOREM NoGapHolds == N!Spec => []NoGap
<1>1. N!Init => Gapless
  BY DEF N!Init, Gapless, Due
<1>2. NInv => N!TypeOK
  BY DEF NInv
<1>3. Gapless => NoGap
  BY GaplessIsNoGap DEF NoGap
<1> QED
  BY <1>1, <1>2, <1>3, GaplessKept, NInvHolds, PTL DEF N!Spec

-----------------------------------------------------------------------------
(* Reminders: the inductive invariant *)

\* A run may still remind of an item for a firing.
Owing(f, i) == {x \in R!Runners : run[x].of = f /\ R!Will(x, i)}

RunStep == {"idle", "list", "orgs"}
Runs    == [step: RunStep, of: R!Firings \cup {<<>>}, lock: BOOLEAN,
            orgs: SUBSET Tenants, items: SUBSET Items]
Rings   == {"down", "up", "ringing"}

\* A run has items of organizations it has done with, and none before it lists; it is a
\* run for a firing.
OnItsRound(x) ==
    /\ run[x].step # "orgs" => run[x].orgs = {} /\ run[x].items = {}
    /\ \A i \in run[x].items : Home[i] \notin run[x].orgs
    /\ run[x].step = "idle" => ~run[x].lock
    /\ run[x].step # "idle" => run[x].of \in R!Firings

Queued(f) == IF f \in waiting THEN 1 ELSE 0

\* Every reminder sent, the job in the queue and every run that may still remind of the
\* item goes back to the firing itself, or to its job having stalled.
Covered(f, i) == sent[f][i] + Queued(f) + Cardinality(Owing(f, i)) <= 1 + stalls[f]

\* A cron that has yet to fire, and what it has not done.
Unfired(f)   == f[2] > day \/ (f[2] = day /\ ring[f[1]] = "ringing")
Untouched(f) ==
    /\ f \notin waiting
    /\ \A x \in R!Runners : run[x].step # "idle" => run[x].of # f
    /\ \A i \in Items : sent[f][i] = 0

Ticking ==
    /\ ring \in [Schedulers -> Rings]
    /\ day \in 0..Days
    /\ \A p \in Schedulers : ring[p] = "ringing" => day # 0

RTyped ==
    /\ run \in [R!Runners -> Runs]
    /\ sent \in [R!Firings -> [Items -> Nat]]
    /\ waiting \subseteq R!Firings
    /\ stalls \in [R!Firings -> 0..R!MaxStalled]
    /\ due \subseteq Items

RInv ==
    /\ RTyped /\ Ticking
    /\ \A x \in R!Runners : OnItsRound(x)
    /\ \A f \in R!Firings, i \in Items : Covered(f, i)
    /\ \A f \in R!Firings : Unfired(f) => Untouched(f)

-----------------------------------------------------------------------------
(* Reminders: counting *)

\* One more element, one more at most.
LEMMA AtMostOneMore ==
    ASSUME NEW S, NEW T, NEW x, IsFiniteSet(S), T \subseteq S \cup {x}
    PROVE  IsFiniteSet(T) /\ Cardinality(T) \in Nat /\ Cardinality(S) \in Nat
           /\ Cardinality(T) <= Cardinality(S) + 1
<1>1. IsFiniteSet(S \cup {x}) /\ Cardinality(S \cup {x}) <= Cardinality(S) + 1
  <2>1. Cardinality(S) \in Nat
    BY FS_CardinalityType
  <2>2. /\ IsFiniteSet(S \cup {x})
        /\ Cardinality(S \cup {x}) = IF x \in S THEN Cardinality(S) ELSE Cardinality(S) + 1
    BY FS_AddElement
  <2> QED
    BY <2>1, <2>2
<1>2. IsFiniteSet(T) /\ Cardinality(T) <= Cardinality(S \cup {x})
  BY <1>1, FS_Subset
<1> QED
  BY <1>1, <1>2, FS_CardinalityType

\* A part is no larger, and smaller when it lacks something.
LEMMA NoMore ==
    ASSUME NEW S, NEW T, IsFiniteSet(S), T \subseteq S
    PROVE  /\ Cardinality(T) \in Nat /\ Cardinality(S) \in Nat
           /\ Cardinality(T) <= Cardinality(S)
           /\ \A x \in S : x \notin T => Cardinality(T) + 1 <= Cardinality(S)
<1>1. IsFiniteSet(T) /\ Cardinality(T) <= Cardinality(S)
  BY FS_Subset
<1>2. Cardinality(T) \in Nat /\ Cardinality(S) \in Nat
  BY <1>1, FS_CardinalityType
<1>3. ASSUME NEW x \in S, x \notin T
      PROVE  Cardinality(T) + 1 <= Cardinality(S)
  <2>1. IsFiniteSet(S \ {x}) /\ Cardinality(S \ {x}) = Cardinality(S) - 1
    BY <1>3, FS_RemoveElement
  <2>2. Cardinality(T) <= Cardinality(S \ {x})
    BY <1>3, <2>1, FS_Subset
  <2> QED
    BY <1>2, <2>1, <2>2
<1> QED
  BY <1>1, <1>2, <1>3

\* Finitely many runs owe an item a reminder.
LEMMA OwingFinite ==
    ASSUME NEW f, NEW i
    PROVE  IsFiniteSet(Owing(f, i))
<1>1. IsFiniteSet(R!Runners)
  BY RunnersAreFinite, FS_Union DEF R!Runners
<1>2. Owing(f, i) \subseteq R!Runners
  BY DEF Owing
<1> QED
  BY <1>1, <1>2, FS_Subset

\* What is counted are numbers.
LEMMA CountsTyped ==
    ASSUME RTyped, NEW f \in R!Firings, NEW i \in Items
    PROVE  sent[f][i] \in Nat /\ Queued(f) \in {0, 1} /\ stalls[f] \in Nat
  BY DEF RTyped, Queued, R!MaxStalled

\* What makes no run owe more and sends nothing stays covered; so does a job that is queued
\* again because it stalled.
LEMMA FewerCovered ==
    ASSUME RTyped, NEW f \in R!Firings, NEW i \in Items, Covered(f, i),
           Owing(f, i)' \subseteq Owing(f, i), sent'[f][i] = sent[f][i],
           \/ stalls'[f] = stalls[f] /\ (f \in waiting' => f \in waiting)
           \/ stalls'[f] = stalls[f] + 1
    PROVE  Covered(f, i)'
<1>1. PICK S, T : S = Owing(f, i) /\ T = Owing(f, i)'
  OBVIOUS
<1>2. Cardinality(T) \in Nat /\ Cardinality(S) \in Nat /\ Cardinality(T) <= Cardinality(S)
  BY <1>1, OwingFinite, NoMore
<1>3. PICK n, m : n = Queued(f) /\ m = Queued(f)'
  OBVIOUS
<1>4. /\ sent[f][i] \in Nat /\ stalls[f] \in Nat /\ n \in {0, 1} /\ m \in {0, 1}
      /\ m <= n \/ stalls'[f] = stalls[f] + 1
      /\ stalls'[f] = stalls[f] \/ stalls'[f] = stalls[f] + 1
  BY <1>3, CountsTyped DEF Queued
<1>5. sent[f][i] + n + Cardinality(S) <= 1 + stalls[f]
  BY <1>1, <1>3 DEF Covered
<1>6. sent'[f][i] + m + Cardinality(T) <= 1 + stalls'[f]
  BY <1>2, <1>4, <1>5
<1> QED
  BY <1>1, <1>3, <1>6 DEF Covered

\* A run that begins is covered by the job it takes off the queue.
LEMMA BegunCovered ==
    ASSUME RTyped, NEW f \in R!Firings, NEW i \in Items, Covered(f, i), NEW x,
           Owing(f, i)' \subseteq Owing(f, i) \cup {x}, sent' = sent, stalls' = stalls,
           f \in waiting, f \notin waiting'
    PROVE  Covered(f, i)'
<1>1. PICK S, T : S = Owing(f, i) /\ T = Owing(f, i)'
  OBVIOUS
<1>2. Cardinality(T) \in Nat /\ Cardinality(S) \in Nat /\ Cardinality(T) <= Cardinality(S) + 1
  BY <1>1, OwingFinite, AtMostOneMore
<1>3. sent[f][i] \in Nat /\ stalls[f] \in Nat /\ Queued(f) = 1 /\ Queued(f)' = 0
  BY CountsTyped DEF Queued
<1>4. sent[f][i] + 1 + Cardinality(S) <= 1 + stalls[f]
  BY <1>1, <1>3 DEF Covered
<1>5. sent'[f][i] + 0 + Cardinality(T) <= 1 + stalls'[f]
  BY <1>2, <1>3, <1>4
<1> QED
  BY <1>1, <1>3, <1>5 DEF Covered

\* A firing adds its one job, or begins its one run.
LEMMA FiredCovered ==
    ASSUME RTyped, NEW f \in R!Firings, NEW i \in Items, NEW x,
           sent[f][i] = 0, sent' = sent, stalls' = stalls,
           \/ Owing(f, i)' = {}
           \/ Owing(f, i)' \subseteq {x} /\ f \notin waiting'
    PROVE  Covered(f, i)'
<1>1. PICK T : T = Owing(f, i)'
  OBVIOUS
<1>2. PICK m : m = Queued(f)'
  OBVIOUS
<1>3. m \in {0, 1} /\ (f \notin waiting' => m = 0) /\ stalls[f] \in Nat
  BY <1>2, CountsTyped DEF Queued
<1>4. m + Cardinality(T) <= 1
  <2>1. CASE T = {}
    BY <1>3, <2>1, FS_EmptySet
  <2>2. CASE T \subseteq {x} /\ f \notin waiting'
    <3>1. IsFiniteSet({x}) /\ Cardinality({x}) = 1
      BY FS_Singleton
    <3>2. Cardinality(T) \in Nat /\ Cardinality(T) <= 1
      BY <2>2, <3>1, NoMore
    <3> QED
      BY <1>3, <2>2, <3>2
  <2> QED
    BY <1>1, <2>1, <2>2
<1>5. Cardinality(T) \in Nat
  <2>1. IsFiniteSet({x}) /\ T \subseteq {x}
    BY <1>1, FS_Singleton
  <2> QED
    BY <2>1, NoMore
<1>6. sent'[f][i] + m + Cardinality(T) <= 1 + stalls'[f]
  BY <1>3, <1>4, <1>5
<1> QED
  BY <1>1, <1>2, <1>6 DEF Covered

\* A reminder is covered by the run that sends it, which will not remind of the item again.
LEMMA SentCovered ==
    ASSUME RTyped, NEW f \in R!Firings, NEW i \in Items, Covered(f, i), NEW x \in Owing(f, i),
           Owing(f, i)' \subseteq Owing(f, i) \ {x},
           sent'[f][i] = sent[f][i] \/ sent'[f][i] = sent[f][i] + 1, UNCHANGED <<waiting, stalls>>
    PROVE  Covered(f, i)'
<1>1. PICK S, T : S = Owing(f, i) /\ T = Owing(f, i)'
  OBVIOUS
<1>2. x \in S /\ x \notin T /\ T \subseteq S /\ IsFiniteSet(S)
  BY <1>1, OwingFinite
<1>3. Cardinality(T) \in Nat /\ Cardinality(S) \in Nat /\ Cardinality(T) + 1 <= Cardinality(S)
  BY <1>2, NoMore
<1>4. sent[f][i] \in Nat /\ stalls[f] \in Nat /\ Queued(f) \in {0, 1} /\ Queued(f)' = Queued(f)
  BY CountsTyped DEF Queued
<1>5. sent[f][i] + Queued(f) + Cardinality(S) <= 1 + stalls[f]
  BY <1>1 DEF Covered
<1>6. sent'[f][i] + Queued(f) + Cardinality(T) <= 1 + stalls'[f]
  BY <1>3, <1>4, <1>5
<1> QED
  BY <1>1, <1>4, <1>6 DEF Covered

-----------------------------------------------------------------------------
(* Reminders: the runs *)

\* What a run is set to, the others stay.
LEMMA RunSet ==
    ASSUME RTyped, NEW x \in R!Runners, NEW r \in Runs, R!Set(x, r)
    PROVE  /\ run' \in [R!Runners -> Runs] /\ run'[x] = r
           /\ \A y \in R!Runners : y # x => run'[y] = run[y]
  BY DEF RTyped, R!Set

\* What a run is that has not begun.
LEMMA IdleRun ==
    /\ R!Idle \in Runs /\ R!Idle.step = "idle" /\ R!Idle.orgs = {} /\ R!Idle.items = {}
    /\ ~R!Idle.lock
  BY DEF R!Idle, Runs, RunStep

\* What a run is that begins.
LEMMA BegunRun ==
    ASSUME NEW f \in R!Firings, NEW b \in BOOLEAN
    PROVE  /\ R!Begin(f, b) \in Runs /\ R!Begin(f, b).step = "list" /\ R!Begin(f, b).of = f
           /\ R!Begin(f, b).orgs = {} /\ R!Begin(f, b).items = {}
  BY DEF R!Idle, R!Begin, Runs, RunStep

\* A run goes on its round for its firing and may remind of nothing it could not remind of
\* before; or it ends.
GoesOn(x, r) ==
    /\ R!Set(x, r)
    /\ r.step # "orgs" => r.orgs = {} /\ r.items = {}
    /\ r.step = "list" => run[x].step = "list"
    /\ r.step = "idle" => ~r.lock
    /\ r.step # "idle" => run[x].step # "idle" /\ r.of = run[x].of
    /\ \A i \in r.items : Home[i] \notin r.orgs
    /\ \A i \in Items : Home[i] \in r.orgs \/ i \in r.items => R!Will(x, i)

\* Then the runs stay on their rounds, and owe no more for any firing.
LEMMA RoundKept ==
    ASSUME RInv, NEW x \in R!Runners, NEW r \in Runs, GoesOn(x, r)
    PROVE  /\ run' \in [R!Runners -> Runs]
           /\ \A y \in R!Runners : OnItsRound(y)'
           /\ \A f \in R!Firings, i \in Items : Owing(f, i)' \subseteq Owing(f, i)
           /\ \A y \in R!Runners : run'[y].step # "idle" =>
                  run[y].step # "idle" /\ run'[y].of = run[y].of
<1>1. /\ run' \in [R!Runners -> Runs] /\ run'[x] = r
      /\ \A y \in R!Runners : y # x => run'[y] = run[y]
  BY RunSet DEF RInv, GoesOn
<1>2. ASSUME NEW y \in R!Runners
      PROVE  OnItsRound(y)'
  <2>1. CASE y = x
    BY <1>1, <2>1 DEF RInv, OnItsRound, GoesOn
  <2>2. CASE y # x
    BY <1>1, <2>2 DEF RInv, OnItsRound
  <2> QED
    BY <2>1, <2>2
<1>3. ASSUME NEW y \in R!Runners, run'[y].step # "idle"
      PROVE  run[y].step # "idle" /\ run'[y].of = run[y].of
  BY <1>1, <1>3 DEF GoesOn
<1>4. ASSUME NEW i \in Items, NEW y \in R!Runners, R!Will(y, i)'
      PROVE  R!Will(y, i) /\ run'[y].step # "idle"
  <2>1. run'[y].step # "idle"
    BY <1>2, <1>4 DEF R!Will, OnItsRound
  <2>2. R!Will(y, i)
    BY <1>1, <1>4 DEF R!Will, GoesOn
  <2> QED
    BY <2>1, <2>2
<1>5. ASSUME NEW f \in R!Firings, NEW i \in Items, NEW y \in Owing(f, i)'
      PROVE  y \in Owing(f, i)
  BY <1>3, <1>4, <1>5 DEF Owing
<1> QED
  BY <1>1, <1>2, <1>3, <1>5

-----------------------------------------------------------------------------
(* Reminders: the queue and the clock *)

\* The queue grows only by the job of a run that stalled.
Requeued ==
    /\ waiting' \subseteq R!Firings
    /\ stalls' \in [R!Firings -> 0..R!MaxStalled]
    /\ \A f \in R!Firings :
           \/ stalls'[f] = stalls[f] /\ (f \in waiting' => f \in waiting)
           \/ /\ stalls'[f] = stalls[f] + 1
              /\ \E y \in R!Runners : run[y].step # "idle" /\ run[y].of = f

\* No cron has come to fire again.
Clocked == Ticking' /\ \A f \in R!Firings : Unfired(f)' => Unfired(f)

\* A queue that is left alone.
LEMMA QueueStays ==
    ASSUME RTyped, UNCHANGED <<waiting, stalls>>
    PROVE  Requeued
  BY DEF RTyped, Requeued

\* A job stalls and is queued again, or has failed.
LEMMA StallRequeues ==
    ASSUME RTyped, NEW y \in R!Runners, run[y].step # "idle", run[y].of \in R!Firings,
           R!Stall(run[y].of)
    PROVE  Requeued
<1>1. PICK f \in R!Firings : f = run[y].of
  OBVIOUS
<1>2. CASE stalls[f] < R!MaxStalled
  <2>1. waiting' = waiting \cup {f} /\ stalls' = [stalls EXCEPT ![f] = stalls[f] + 1]
    BY <1>1, <1>2 DEF R!Stall, R!Add
  <2>2. stalls[f] + 1 \in 0..R!MaxStalled
    BY <1>2 DEF RTyped, R!MaxStalled
  <2>3. stalls' \in [R!Firings -> 0..R!MaxStalled] /\ stalls'[f] = stalls[f] + 1
        /\ \A g \in R!Firings : g # f => stalls'[g] = stalls[g]
    BY <2>1, <2>2 DEF RTyped
  <2> QED
    BY <1>1, <2>1, <2>3 DEF RTyped, Requeued
<1>3. CASE ~(stalls[f] < R!MaxStalled)
  <2>1. UNCHANGED <<waiting, stalls>>
    BY <1>1, <1>3 DEF R!Stall, R!queue
  <2> QED
    BY <2>1, QueueStays
<1> QED
  BY <1>2, <1>3

\* A day goes on, and some crons no longer ring.
LEMMA SameDay ==
    ASSUME Ticking, day' = day, ring' \in [Schedulers -> Rings],
           \A p \in Schedulers : ring'[p] = "ringing" => ring[p] = "ringing"
    PROVE  Clocked
<1>1. ASSUME NEW f \in R!Firings, Unfired(f)'
      PROVE  Unfired(f)
  <2>1. f[1] \in Schedulers
    BY DEF R!Firings
  <2> QED
    BY <1>1, <2>1 DEF Unfired
<1> QED
  BY <1>1 DEF Ticking, Clocked

\* One cron is set to what does not ring.
LEMMA RingSet ==
    ASSUME Ticking, day' = day, NEW p \in Schedulers, NEW v \in {"down", "up"},
           ring' = [ring EXCEPT ![p] = v]
    PROVE  Clocked /\ ring'[p] # "ringing"
<1>1. ring' \in [Schedulers -> Rings] /\ ring'[p] = v
      /\ \A q \in Schedulers : q # p => ring'[q] = ring[q]
  BY DEF Ticking, Rings
<1>2. \A q \in Schedulers : ring'[q] = "ringing" => ring[q] = "ringing"
  BY <1>1
<1> QED
  BY <1>1, <1>2, SameDay

\* The next day comes before its crons fire.
LEMMA DayBreaks ==
    ASSUME Ticking, R!NewDay
    PROVE  Clocked
<1>1. day \in Nat /\ day' = day + 1 /\ day' \in 0..Days
  BY DaysAreDays DEF Ticking, R!NewDay
<1>2. ring' \in [Schedulers -> Rings]
  BY DEF Ticking, Rings, R!NewDay
<1>3. ASSUME NEW f \in R!Firings, Unfired(f)'
      PROVE  Unfired(f)
  <2>1. f[2] \in Int /\ (f[2] > day' \/ f[2] = day')
    BY <1>3, DaysAreDays DEF Unfired, R!Firings
  <2> QED
    BY <1>1, <2>1 DEF Unfired
<1> QED
  BY <1>1, <1>2, <1>3 DEF Ticking, Clocked

-----------------------------------------------------------------------------
(* Reminders: the shapes of a step *)

\* A run that goes on or ends keeps the invariant, also when its job is queued again.
LEMMA RunKeeps ==
    ASSUME RInv, NEW x \in R!Runners, NEW r \in Runs, GoesOn(x, r), Requeued, Clocked,
           UNCHANGED <<due, sent>>
    PROVE  RInv'
<1>1. /\ run' \in [R!Runners -> Runs]
      /\ \A y \in R!Runners : OnItsRound(y)'
      /\ \A f \in R!Firings, i \in Items : Owing(f, i)' \subseteq Owing(f, i)
      /\ \A y \in R!Runners : run'[y].step # "idle" =>
             run[y].step # "idle" /\ run'[y].of = run[y].of
  BY RoundKept
<1>2. RTyped' /\ Ticking'
  BY <1>1 DEF RInv, RTyped, Requeued, Clocked
<1>3. ASSUME NEW f \in R!Firings, NEW i \in Items
      PROVE  Covered(f, i)'
  <2>1. RTyped /\ Covered(f, i)
    BY DEF RInv
  <2>2. \/ stalls'[f] = stalls[f] /\ (f \in waiting' => f \in waiting)
        \/ stalls'[f] = stalls[f] + 1
    BY DEF Requeued
  <2> QED
    BY <1>1, <2>1, <2>2, FewerCovered
<1>4. ASSUME NEW f \in R!Firings, Unfired(f)'
      PROVE  Untouched(f)'
  <2>1. Untouched(f)
    BY <1>4 DEF RInv, Clocked
  <2>2. f \notin waiting'
    BY <2>1 DEF Untouched, Requeued
  <2> QED
    BY <1>1, <2>1, <2>2 DEF Untouched
<1> QED
  BY <1>1, <1>2, <1>3, <1>4 DEF RInv

\* What neither runs, sends nor queues anything keeps the invariant.
LEMMA QuietKeeps ==
    ASSUME RInv, UNCHANGED <<run, sent, waiting, stalls>>, due' \subseteq Items, Clocked
    PROVE  RInv'
<1>1. RTyped' /\ Ticking'
  BY DEF RInv, RTyped, Clocked
<1>2. \A x \in R!Runners : OnItsRound(x)'
  BY DEF RInv, OnItsRound
<1>3. ASSUME NEW f \in R!Firings, NEW i \in Items
      PROVE  Covered(f, i)'
  <2>1. Owing(f, i)' = Owing(f, i) /\ Queued(f)' = Queued(f)
    BY DEF Owing, R!Will, Queued
  <2> QED
    BY <2>1 DEF RInv, Covered
<1>4. ASSUME NEW f \in R!Firings, Unfired(f)'
      PROVE  Untouched(f)'
  BY <1>4 DEF RInv, Clocked, Untouched
<1> QED
  BY <1>1, <1>2, <1>3, <1>4 DEF RInv

\* A run begins for a firing: it is on its round, and the others owe what they owed.
LEMMA BeginsRound ==
    ASSUME RInv, NEW x \in R!Runners, NEW f \in R!Firings, NEW b \in BOOLEAN,
           R!Set(x, R!Begin(f, b))
    PROVE  /\ run' \in [R!Runners -> Runs]
           /\ \A y \in R!Runners : OnItsRound(y)'
           /\ \A i \in Items : Owing(f, i)' \subseteq Owing(f, i) \cup {x}
           /\ \A g \in R!Firings, i \in Items : g # f => Owing(g, i)' \subseteq Owing(g, i)
           /\ \A y \in R!Runners : run'[y].of # f => run'[y] = run[y]
<1>1. /\ run' \in [R!Runners -> Runs] /\ run'[x] = R!Begin(f, b)
      /\ \A y \in R!Runners : y # x => run'[y] = run[y]
  BY BegunRun, RunSet DEF RInv
<1>2. /\ run'[x].step = "list" /\ run'[x].of = f
      /\ run'[x].orgs = {} /\ run'[x].items = {}
  BY <1>1, BegunRun
<1>3. ASSUME NEW y \in R!Runners
      PROVE  OnItsRound(y)'
  BY <1>1, <1>2 DEF RInv, OnItsRound
<1>4. ASSUME NEW g \in R!Firings, NEW i \in Items
      PROVE  Owing(g, i)' \subseteq Owing(g, i) \cup {y \in {x} : g = f}
  BY <1>1, <1>2 DEF Owing, R!Will
<1> QED
  BY <1>1, <1>2, <1>3, <1>4

\* A worker that takes a job off the queue keeps the invariant.
LEMMA JobTakenKeeps ==
    ASSUME RInv, NEW w \in R!Runners, NEW f \in R!Firings, R!TakeJob(w, f)
    PROVE  RInv'
<1>1. /\ f \in waiting /\ waiting' = waiting \ {f} /\ R!Set(w, R!Begin(f, TRUE))
      /\ UNCHANGED <<day, ring, stalls, due, sent>>
  BY DEF R!TakeJob, R!schedule
<1>2. /\ run' \in [R!Runners -> Runs]
      /\ \A y \in R!Runners : OnItsRound(y)'
      /\ \A i \in Items : Owing(f, i)' \subseteq Owing(f, i) \cup {w}
      /\ \A g \in R!Firings, i \in Items : g # f => Owing(g, i)' \subseteq Owing(g, i)
      /\ \A y \in R!Runners : run'[y].of # f => run'[y] = run[y]
  BY <1>1, BeginsRound
<1>3. RTyped' /\ Ticking'
  BY <1>1, <1>2 DEF RInv, RTyped, Ticking
<1>4. ASSUME NEW g \in R!Firings, NEW i \in Items
      PROVE  Covered(g, i)'
  <2>1. RTyped /\ Covered(g, i)
    BY DEF RInv
  <2>2. CASE g = f
    BY <1>1, <1>2, <2>1, <2>2, BegunCovered
  <2>3. CASE g # f
    BY <1>1, <1>2, <2>1, <2>3, FewerCovered
  <2> QED
    BY <2>2, <2>3
<1>5. ASSUME NEW g \in R!Firings, Unfired(g)'
      PROVE  Untouched(g)'
  <2>1. Untouched(g)
    BY <1>1, <1>5 DEF RInv, Unfired
  <2>2. g # f
    BY <1>1, <2>1 DEF Untouched
  <2> QED
    BY <1>1, <1>2, <2>1, <2>2 DEF Untouched
<1> QED
  BY <1>2, <1>3, <1>4, <1>5 DEF RInv

\* A cron that fires keeps the invariant: nothing was done for it before.
LEMMA FireKeeps ==
    ASSUME RInv, NEW p \in Schedulers, R!EnqueueOrRun(p)
    PROVE  RInv'
<1>1. /\ ring[p] = "ringing" /\ ring' = [ring EXCEPT ![p] = "up"]
      /\ UNCHANGED <<day, stalls, due, sent>>
  BY DEF R!EnqueueOrRun, R!Fires
<1>2. PICK f : f = <<p, day>>
  OBVIOUS
<1>3. f \in R!Firings /\ f[1] = p /\ f[2] = day
  BY <1>1, <1>2, DaysAreDays DEF RInv, Ticking, R!Firings
<1>4. Untouched(f)
  BY <1>1, <1>3 DEF RInv, Unfired
<1>5. \A i \in Items : Owing(f, i) = {} /\ sent[f][i] = 0
  BY <1>4 DEF RInv, OnItsRound, Untouched, Owing, R!Will
<1>6. Clocked /\ ring'[p] # "ringing"
  BY <1>1, RingSet DEF RInv
<1>7. ~Unfired(f)'
  BY <1>1, <1>3, <1>6 DEF RInv, Ticking, Unfired
<1>8. PICK x \in R!Runners : x = p
  BY DEF R!Runners
<1>9. /\ run' \in [R!Runners -> Runs]
      /\ \A y \in R!Runners : OnItsRound(y)'
      /\ waiting' \subseteq waiting \cup {f}
      /\ \A i \in Items : Owing(f, i)' = {} \/ (Owing(f, i)' \subseteq {x} /\ f \notin waiting')
      /\ \A g \in R!Firings, i \in Items : g # f => Owing(g, i)' \subseteq Owing(g, i)
      /\ \A y \in R!Runners : run'[y].of # f => run'[y] = run[y]
  <2>1. CASE waiting' = waiting \cup {f} /\ UNCHANGED run
    <3>1. \A g, i : Owing(g, i)' = Owing(g, i)
      BY <2>1 DEF Owing, R!Will
    <3>2. \A y \in R!Runners : OnItsRound(y)'
      BY <2>1 DEF RInv, OnItsRound
    <3> QED
      BY <1>5, <2>1, <3>1, <3>2 DEF RInv, RTyped
  <2>2. CASE R!Set(x, R!Begin(f, FALSE)) /\ UNCHANGED waiting
    <3>1. f \notin waiting'
      BY <1>4, <2>2 DEF Untouched
    <3> QED
      BY <1>3, <1>5, <2>2, <3>1, BeginsRound
  <2> QED
    BY <1>2, <1>8, <2>1, <2>2 DEF R!EnqueueOrRun, R!Add
<1>10. RTyped' /\ Ticking'
  BY <1>1, <1>3, <1>6, <1>9 DEF RInv, RTyped, Clocked
<1>11. ASSUME NEW g \in R!Firings, NEW i \in Items
       PROVE  Covered(g, i)'
  <2>1. RTyped /\ Covered(g, i)
    BY DEF RInv
  <2>2. CASE g = f
    BY <1>1, <1>5, <1>9, <2>1, <2>2, FiredCovered
  <2>3. CASE g # f
    BY <1>1, <1>9, <2>1, <2>3, FewerCovered
  <2> QED
    BY <2>2, <2>3
<1>12. ASSUME NEW g \in R!Firings, Unfired(g)'
       PROVE  Untouched(g)'
  <2>1. Untouched(g) /\ g # f
    BY <1>6, <1>7, <1>12 DEF RInv, Clocked
  <2> QED
    BY <1>1, <1>9, <2>1 DEF Untouched
<1> QED
  BY <1>9, <1>10, <1>11, <1>12 DEF RInv

-----------------------------------------------------------------------------
(* Reminders: the steps of a run *)

\* What leaves the queue and the clock alone.
LEMMA StaysPut ==
    ASSUME RInv, UNCHANGED R!schedule, UNCHANGED R!queue
    PROVE  Requeued /\ Clocked /\ UNCHANGED <<day, ring, waiting, stalls>>
<1>1. UNCHANGED <<day, ring, waiting, stalls>>
  BY DEF R!schedule, R!queue
<1>2. Requeued
  BY <1>1, QueueStays DEF RInv
<1>3. Clocked
  BY <1>1, SameDay DEF RInv, Ticking
<1> QED
  BY <1>1, <1>2, <1>3

\* A run that ends goes on.
LEMMA EndGoesOn ==
    ASSUME NEW x, R!Set(x, R!Idle)
    PROVE  GoesOn(x, R!Idle)
  BY IdleRun DEF GoesOn

\* To list the organizations keeps the invariant.
LEMMA ListKeeps ==
    ASSUME RInv, NEW x \in R!Runners, R!ListOrgs(x)
    PROVE  RInv'
<1>1. PICK r : r = [run[x] EXCEPT !.step = "orgs", !.orgs = Tenants]
  OBVIOUS
<1>2. run[x] \in Runs /\ run[x].items = {} /\ run[x].step = "list"
  BY DEF RInv, RTyped, OnItsRound, R!ListOrgs
<1>3. r \in Runs /\ r.step = "orgs" /\ r.items = {} /\ r.of = run[x].of
  BY <1>1, <1>2 DEF Runs, RunStep
<1>4. R!Set(x, r) /\ UNCHANGED R!schedule /\ UNCHANGED R!queue /\ UNCHANGED <<due, sent>>
  BY <1>1 DEF R!ListOrgs
<1>5. GoesOn(x, r)
  BY <1>2, <1>3, <1>4 DEF GoesOn, R!Will
<1> QED
  BY <1>3, <1>4, <1>5, StaysPut, RunKeeps

\* To take an organization, or to fail to, keeps the invariant.
LEMMA OrgKeeps ==
    ASSUME RInv, NEW x \in R!Runners, NEW o \in Tenants, R!TakeOrg(x, o) \/ R!OrgFails(x, o)
    PROVE  RInv'
<1>1. run[x] \in Runs /\ run[x].step = "orgs" /\ run[x].items = {} /\ o \in run[x].orgs
  BY DEF RInv, RTyped, R!TakeOrg, R!OrgFails, R!NextOrg
<1>2. PICK r \in Runs : /\ R!Set(x, r)
                        /\ r.step = "orgs" /\ r.of = run[x].of /\ r.orgs = run[x].orgs \ {o}
                        /\ \A i \in r.items : Home[i] = o
  <2>1. CASE R!TakeOrg(x, o)
    <3>1. PICK r : r = [run[x] EXCEPT !.orgs = run[x].orgs \ {o}, !.items = R!Of(o) \cap due]
      OBVIOUS
    <3>2. /\ r \in Runs /\ r.step = "orgs" /\ r.of = run[x].of /\ r.orgs = run[x].orgs \ {o}
          /\ \A i \in r.items : Home[i] = o
      BY <1>1, <3>1 DEF Runs, RunStep, R!Of
    <3>3. R!Set(x, r)
      BY <2>1, <3>1 DEF R!TakeOrg
    <3> QED
      BY <3>2, <3>3
  <2>2. CASE R!OrgFails(x, o)
    <3>1. PICK r : r = [run[x] EXCEPT !.orgs = run[x].orgs \ {o}]
      OBVIOUS
    <3>2. /\ r \in Runs /\ r.step = "orgs" /\ r.of = run[x].of /\ r.orgs = run[x].orgs \ {o}
          /\ r.items = {}
      BY <1>1, <3>1 DEF Runs, RunStep
    <3>3. R!Set(x, r)
      BY <2>2, <3>1 DEF R!OrgFails
    <3> QED
      BY <3>2, <3>3
  <2> QED
    BY <2>1, <2>2
<1>3. UNCHANGED R!schedule /\ UNCHANGED R!queue /\ UNCHANGED <<due, sent>>
  BY DEF R!TakeOrg, R!OrgFails
<1>4. GoesOn(x, r)
  <2>1. \A i \in Items : Home[i] \in r.orgs \/ i \in r.items => R!Will(x, i)
    BY <1>1, <1>2 DEF R!Will
  <2> QED
    BY <1>1, <1>2, <2>1 DEF GoesOn
<1> QED
  BY <1>2, <1>3, <1>4, StaysPut, RunKeeps

\* To remind keeps the invariant.
LEMMA RemindKeeps ==
    ASSUME RInv, NEW x \in R!Runners, NEW i \in Items, R!Remind(x, i)
    PROVE  RInv'
<1>1. PICK r : r = [run[x] EXCEPT !.items = run[x].items \ {i}]
  OBVIOUS
<1>2. /\ run[x] \in Runs /\ i \in run[x].items /\ run[x].step = "orgs"
      /\ run[x].of \in R!Firings
      /\ \A j \in run[x].items : Home[j] \notin run[x].orgs
  BY DEF RInv, RTyped, OnItsRound, R!Remind
<1>3. /\ r \in Runs /\ r.step = "orgs" /\ r.orgs = run[x].orgs /\ r.of = run[x].of
      /\ r.items = run[x].items \ {i}
  BY <1>1, <1>2 DEF Runs, RunStep
<1>4. PICK f \in R!Firings : f = run[x].of
  BY <1>2
<1>5. /\ R!Set(x, r) /\ UNCHANGED R!schedule /\ UNCHANGED R!queue /\ UNCHANGED due
      /\ sent' = [sent EXCEPT ![f][i] = sent[f][i] + 1] \/ sent' = sent
  BY <1>1, <1>4 DEF R!Remind
<1>6. GoesOn(x, r)
  BY <1>2, <1>3, <1>5 DEF GoesOn, R!Will
<1>7. /\ run' \in [R!Runners -> Runs]
      /\ \A y \in R!Runners : OnItsRound(y)'
      /\ \A g \in R!Firings, j \in Items : Owing(g, j)' \subseteq Owing(g, j)
      /\ \A y \in R!Runners : run'[y].step # "idle" =>
             run[y].step # "idle" /\ run'[y].of = run[y].of
  BY <1>3, <1>6, RoundKept
<1>8. Requeued /\ Clocked /\ UNCHANGED <<day, ring, waiting, stalls>>
  BY <1>5, StaysPut
<1>9. /\ sent' \in [R!Firings -> [Items -> Nat]]
      /\ \A g \in R!Firings, j \in Items : g # f \/ j # i => sent'[g][j] = sent[g][j]
      /\ sent'[f][i] = sent[f][i] \/ sent'[f][i] = sent[f][i] + 1
  <2>1. sent \in [R!Firings -> [Items -> Nat]]
    BY DEF RInv, RTyped
  <2>2. CASE sent' = sent
    BY <2>1, <2>2
  <2>3. CASE sent' = [sent EXCEPT ![f][i] = sent[f][i] + 1]
    BY <2>1, <2>3
  <2> QED
    BY <1>5, <2>2, <2>3
<1>10. RTyped' /\ Ticking'
  BY <1>5, <1>7, <1>8, <1>9 DEF RInv, RTyped, Clocked
<1>11. ASSUME NEW g \in R!Firings, NEW j \in Items
       PROVE  Covered(g, j)'
  <2> RTyped /\ Covered(g, j)
    BY DEF RInv
  <2>1. CASE g # f \/ j # i
    BY <1>7, <1>8, <1>9, <2>1, FewerCovered
  <2>2. CASE g = f /\ j = i
    <3>1. x \in Owing(f, i)
      BY <1>2, <1>4 DEF Owing, R!Will
    <3>2. run'[x] = r
      BY <1>3, <1>5, RunSet DEF RInv
    <3>3. x \notin Owing(f, i)'
      BY <1>2, <1>3, <3>2 DEF Owing, R!Will
    <3>4. Owing(f, i)' \subseteq Owing(f, i) \ {x}
      BY <1>7, <3>3
    <3> QED
      BY <1>8, <1>9, <2>2, <3>1, <3>4, SentCovered
  <2> QED
    BY <2>1, <2>2
<1>12. ASSUME NEW g \in R!Firings, Unfired(g)'
       PROVE  Untouched(g)'
  <2>1. Untouched(g)
    BY <1>8, <1>12 DEF RInv, Clocked
  <2>2. g # f
    BY <1>2, <1>4, <2>1 DEF Untouched
  <2> QED
    BY <1>7, <1>8, <1>9, <2>1, <2>2 DEF Untouched
<1> QED
  BY <1>7, <1>10, <1>11, <1>12 DEF RInv

\* A worker that stops, or whose lock lapses, keeps the invariant.
LEMMA WorkerKeeps ==
    ASSUME RInv, NEW w \in R!Runners, R!StopWorker(w) \/ R!LoseLock(w)
    PROVE  RInv'
<1>1. /\ run[w] \in Runs /\ run[w].step # "idle" /\ run[w].of \in R!Firings
      /\ run[w].step # "orgs" => run[w].orgs = {} /\ run[w].items = {}
      /\ \A i \in run[w].items : Home[i] \notin run[w].orgs
  BY DEF RInv, RTyped, OnItsRound, R!StopWorker, R!LoseLock, R!Running
<1>2. UNCHANGED <<day, ring>> /\ UNCHANGED <<due, sent>>
  BY DEF R!StopWorker, R!LoseLock, R!schedule
<1>3. Requeued
  <2>1. CASE R!Stall(run[w].of)
    BY <1>1, <2>1, StallRequeues DEF RInv
  <2>2. CASE UNCHANGED R!queue
    BY <2>2, QueueStays DEF RInv, R!queue
  <2> QED
    BY <2>1, <2>2 DEF R!StopWorker, R!LoseLock
<1>4. Clocked
  BY <1>2, SameDay DEF RInv, Ticking
<1>5. CASE R!StopWorker(w)
  BY <1>2, <1>3, <1>4, <1>5, IdleRun, EndGoesOn, RunKeeps DEF R!StopWorker
<1>6. CASE R!LoseLock(w)
  <2>1. PICK r : r = [run[w] EXCEPT !.lock = FALSE]
    OBVIOUS
  <2>2. /\ r \in Runs /\ ~r.lock /\ r.step = run[w].step /\ r.of = run[w].of
        /\ r.orgs = run[w].orgs /\ r.items = run[w].items
    BY <1>1, <2>1 DEF Runs
  <2>3. R!Set(w, r)
    BY <1>6, <2>1 DEF R!LoseLock
  <2>4. GoesOn(w, r)
    BY <1>1, <2>2, <2>3 DEF GoesOn, R!Will
  <2> QED
    BY <1>2, <1>3, <1>4, <2>2, <2>4, RunKeeps
<1> QED
  BY <1>5, <1>6

\* Every step of the reminders keeps the invariant.
LEMMA RInvKept ==
    ASSUME RInv, [R!Next]_(R!vars)
    PROVE  RInv'
<1>1. due \subseteq Items /\ Ticking
  BY DEF RInv, RTyped
<1>2. /\ \A w \in Workers : w \in R!Runners
      /\ \A p \in Schedulers : p \in R!Runners
  BY DEF R!Runners
<1>3. CASE R!NewDay
  <2>1. UNCHANGED <<run, sent, waiting, stalls>> /\ due' \subseteq Items
    BY <1>1, <1>3 DEF R!NewDay, R!queue
  <2> QED
    BY <1>1, <1>3, <2>1, DayBreaks, QuietKeeps
<1>4. ASSUME NEW w \in Workers, NEW f \in R!Firings, R!TakeJob(w, f)
      PROVE  RInv'
  BY <1>2, <1>4, JobTakenKeeps
<1>5. ASSUME NEW w \in Workers, R!StopWorker(w) \/ R!LoseLock(w)
      PROVE  RInv'
  BY <1>2, <1>5, WorkerKeeps
<1>6. ASSUME NEW p \in Schedulers, R!StartScheduler(p) \/ R!NotEnqueued(p)
      PROVE  RInv'
  <2>1. /\ day' = day /\ ring' = [ring EXCEPT ![p] = "up"]
        /\ UNCHANGED <<run, sent, waiting, stalls>> /\ due' \subseteq Items
    BY <1>1, <1>6 DEF R!StartScheduler, R!NotEnqueued, R!queue
  <2>2. Clocked
    BY <1>1, <2>1, RingSet
  <2> QED
    BY <2>1, <2>2, QuietKeeps
<1>7. ASSUME NEW p \in Schedulers, R!StopProcess(p)
      PROVE  RInv'
  <2>1. /\ day' = day /\ ring' = [ring EXCEPT ![p] = "down"] /\ R!Set(p, R!Idle)
        /\ UNCHANGED <<waiting, stalls>> /\ UNCHANGED <<due, sent>>
    BY <1>7 DEF R!StopProcess, R!queue
  <2>2. Clocked
    BY <1>1, <2>1, RingSet
  <2>3. Requeued
    BY <2>1, QueueStays DEF RInv
  <2> QED
    BY <1>2, <2>1, <2>2, <2>3, IdleRun, EndGoesOn, RunKeeps
<1>8. ASSUME NEW p \in Schedulers, R!EnqueueOrRun(p)
      PROVE  RInv'
  BY <1>8, FireKeeps
<1>9. ASSUME NEW x \in R!Runners, R!ListFails(x) \/ R!EndRun(x)
      PROVE  RInv'
  <2>1. R!Set(x, R!Idle) /\ UNCHANGED R!schedule /\ UNCHANGED R!queue /\ UNCHANGED <<due, sent>>
    BY <1>9 DEF R!ListFails, R!EndRun
  <2> QED
    BY <2>1, IdleRun, EndGoesOn, StaysPut, RunKeeps
<1>10. ASSUME NEW x \in R!Runners, R!Work(x)
       PROVE  RInv'
  BY <1>9, <1>10, ListKeeps, OrgKeeps, RemindKeeps DEF R!Work
<1>11. ASSUME NEW i \in Items, R!Resolve(i) \/ R!ComeDue(i)
       PROVE  RInv'
  <2>1. /\ UNCHANGED R!schedule /\ UNCHANGED R!queue
        /\ UNCHANGED <<run, sent>> /\ due' \subseteq Items
    BY <1>1, <1>11 DEF R!Resolve, R!ComeDue
  <2> QED
    BY <2>1, StaysPut, QuietKeeps
<1>12. CASE UNCHANGED R!vars
  <2>1. /\ UNCHANGED R!schedule /\ UNCHANGED R!queue
        /\ UNCHANGED <<run, sent>> /\ due' \subseteq Items
    BY <1>1, <1>12 DEF R!vars, R!schedule, R!queue
  <2> QED
    BY <2>1, StaysPut, QuietKeeps
<1> QED
  BY <1>3, <1>4, <1>5, <1>6, <1>7, <1>8, <1>10, <1>11, <1>12 DEF R!Next

-----------------------------------------------------------------------------
(* Reminders: theorem *)

\* However many processes schedule the job and however many workers work it off or lose it,
\* in a queue or in the process: a firing reminds of an item once, and once more only when
\* its own job stalled.
THEOREM OncePerFiringHolds == R!Spec => []OncePerFiring
<1>1. R!Init => RInv
  <2> SUFFICES ASSUME R!Init PROVE RInv
    OBVIOUS
  <2>1. RTyped
    BY IdleRun DEF R!Init, RTyped, R!MaxStalled
  <2>2. Ticking
    BY DaysAreDays DEF R!Init, Ticking, Rings
  <2>3. \A x \in R!Runners : OnItsRound(x)
    BY IdleRun DEF R!Init, OnItsRound
  <2>4. ASSUME NEW f \in R!Firings
        PROVE  Untouched(f) /\ stalls[f] = 0
    BY IdleRun DEF R!Init, Untouched
  <2>5. ASSUME NEW f \in R!Firings, NEW i \in Items
        PROVE  Covered(f, i)
    <3>1. Owing(f, i) = {}
      BY IdleRun DEF R!Init, Owing, R!Will
    <3>2. Queued(f) = 0 /\ sent[f][i] = 0 /\ stalls[f] = 0
      BY <2>4 DEF Untouched, Queued
    <3> QED
      BY <3>1, <3>2, FS_EmptySet DEF Covered
  <2> QED
    BY <2>1, <2>2, <2>3, <2>4, <2>5 DEF RInv
<1>2. RInv => OncePerFiring
  <2> SUFFICES ASSUME RInv PROVE OncePerFiring
    OBVIOUS
  <2>1. ASSUME NEW f \in R!Firings, NEW i \in Items
        PROVE  sent[f][i] <= 1 + stalls[f]
    <3>1. Cardinality(Owing(f, i)) \in Nat
      BY OwingFinite, FS_CardinalityType
    <3>2. /\ sent[f][i] \in Nat /\ Queued(f) \in {0, 1} /\ stalls[f] \in Nat
          /\ sent[f][i] + Queued(f) + Cardinality(Owing(f, i)) <= 1 + stalls[f]
      BY CountsTyped DEF RInv, Covered
    <3> QED
      BY <3>1, <3>2
  <2> QED
    BY <2>1 DEF OncePerFiring, R!OncePerFiring, RInv, RTyped, Runs, RunStep
<1> QED
  BY <1>1, <1>2, RInvKept, PTL DEF R!Spec

=============================================================================
