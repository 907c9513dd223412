----------------------------- MODULE Maintenance -----------------------------
(***************************************************************************)
(* Maintenance tasks and the status of the assets they are about           *)
(* (services/maintenance.ts).                                              *)
(*                                                                         *)
(* A request changes a task in one transaction (SELECT, UPDATE guarded by  *)
(* the status read, a look at the other tasks of the asset, COMMIT) and    *)
(* only then, in a second transaction of the register, sets the status of  *)
(* the asset.  Between any two statements other requests run, the request  *)
(* may fail, and the register may change the asset: the register is the    *)
(* abstract AssetLifecycle, which AssetRegister implements.                *)
(***************************************************************************)
EXTENDS Naturals, FiniteSets

CONSTANTS
    Assets,    \* ids of assets
    Tasks,     \* ids of maintenance tasks
    Sessions,  \* requests that may be in flight at the same time
    NoTask,    \* the task of an idle session
    Keep       \* "leave it alone": no status in the payload, nothing to apply

VARIABLES
    life, filed,  \* the register, as AssetLifecycle has it
    task,         \* the row of each task
    job,          \* the request each session is running
    disturbed     \* history: assets whose status may disagree with their tasks

vars == <<life, filed, task, job, disturbed>>

Register == INSTANCE AssetLifecycle

ASSUME TasksDistinct == NoTask \notin Tasks
ASSUME SomeAsset == Assets # {}

-----------------------------------------------------------------------------
(* Rows and requests *)

TaskStatus == {"open", "in_progress", "completed", "cancelled"}
NoStatus   == "none"

\* undefined is no status.
ASSUME KeepIsNoStatus == Keep \notin TaskStatus \cup Register!Working

Task == [status: TaskStatus \cup {NoStatus}, asset: Assets]

\* create: about to INSERT;  read: SELECT done;  locked: UPDATE done, its row
\* locked until COMMIT;  apply: committed, the asset to be read;  set: asset read.
JobStep == {"idle", "create", "read", "locked", "apply", "set"}

\* to: the status the payload asks for, completed in completeMaintenanceService
\* only;  seen: the task's status read;  wants: the status to give the asset;
\* was: the asset's status read.
Job == [step: JobStep, task: Tasks \cup {NoTask}, asset: Assets,
        to: TaskStatus \cup {Keep}, seen: TaskStatus,
        wants: Register!Working \cup {Keep}, was: Register!Working]

AnyAsset == CHOOSE a \in Assets : TRUE
Idle     == [step |-> "idle", task |-> NoTask, asset |-> AnyAsset, to |-> Keep,
             seen |-> "open", wants |-> Keep, was |-> "active"]

-----------------------------------------------------------------------------
(* Which assets have a status that tells whether a task is in progress *)

InProgress(a) == {t \in Tasks : task[t].status = "in_progress" /\ task[t].asset = a}

\* The requests past their first write that concern a.
Busy(a) == {s \in Sessions : job[s].step \in {"locked", "apply", "set"} /\ job[s].asset = a}

Agree(a) == Register!Alive(a) /\ life[a].status \in Register!Working =>
              (life[a].status = "maintenance" <=> InProgress(a) # {})

\* History: A are the assets this step may leave in disagreement.  An asset at
\* rest that agrees again is no longer disturbed.
Disturb(A) ==
    disturbed' = {a \in disturbed \cup A : Busy(a)' # {} \/ ~Agree(a)'}

-----------------------------------------------------------------------------
(* createMaintenanceService *)

\* assertAssetExistsInOrg.  t is the id the row will get, one nobody else has.
CreateRead(s, t, a) ==
    /\ job[s].step = "idle"
    /\ task[t].status = NoStatus
    /\ \A u \in Sessions : ~(job[u].step = "create" /\ job[u].task = t)
    /\ Register!Alive(a)
    /\ job' = [job EXCEPT ![s] = [Idle EXCEPT !.step = "create", !.task = t, !.asset = a]]
    /\ UNCHANGED <<life, filed, task>>
    /\ Disturb({})

\* The asset may be gone by now: the foreign key only needs its row.
CreateInsert(s) ==
    /\ job[s].step = "create"
    /\ task' = [task EXCEPT ![job[s].task] = [status |-> "open", asset |-> job[s].asset]]
    /\ job' = [job EXCEPT ![s] = Idle]
    /\ UNCHANGED <<life, filed>>
    /\ Disturb({})

-----------------------------------------------------------------------------
(* updateMaintenanceService and completeMaintenanceService *)

\* SELECT.  Only a completion looks at the status; an update also reopens
\* completed and cancelled tasks.
TaskRead(s, t, to) ==
    /\ job[s].step = "idle"
    /\ task[t].status # NoStatus
    /\ to = "completed" => task[t].status \in {"open", "in_progress"}
    /\ job' = [job EXCEPT ![s] = [Idle EXCEPT !.step = "read", !.task = t,
                                  !.asset = task[t].asset, !.to = to, !.seen = task[t].status]]
    /\ UNCHANGED <<life, filed, task>>
    /\ Disturb({})

Locked(t) == \E u \in Sessions : job[u].step = "locked" /\ job[u].task = t

\* Mutant: the WHERE clause without the status read.
UpdateMatchesAny(s) == TRUE

\* The WHERE clause of the UPDATE, evaluated once no other transaction holds the row.
UpdateMatches(s) == task[job[s].task].status = job[s].seen

\* Mutant: does not look for other tasks in progress.
AssetStatusAloneAfter(seen, to, sibling) ==
    IF to = "in_progress" /\ seen # "in_progress" THEN "maintenance"
    ELSE IF seen = "in_progress" /\ to \notin {"in_progress", Keep} THEN "active" ELSE Keep

\* The status the asset gets after the commit: sibling tells whether another
\* task of the asset is in progress.
AssetStatusAfter(seen, to, sibling) ==
    CASE to = "in_progress" /\ seen # "in_progress"         -> "maintenance"
      [] to \in {"open", "cancelled"} /\ seen = "in_progress" -> IF sibling THEN Keep ELSE "active"
      [] to = "completed" /\ seen = "in_progress" -> IF sibling THEN "maintenance" ELSE "active"
      [] OTHER -> Keep

\* UPDATE, then the SELECT of the sibling, which sees only committed rows.
TaskUpdate(s) ==
    LET j == job[s]
    IN  /\ j.step = "read"
        /\ ~Locked(j.task)
        /\ UpdateMatches(s)
        /\ job' = [job EXCEPT ![s].step = "locked",
                              ![s].wants = AssetStatusAfter(j.seen, j.to,
                                               InProgress(j.asset) \ {j.task} # {})]
        /\ UNCHANGED <<life, filed, task>>
        /\ Disturb(IF Busy(j.asset) # {} THEN {j.asset} ELSE {})

\* Mutant: tries the same UPDATE again instead of reporting the conflict.
TaskConflictRetried(s) ==
    /\ job[s].step = "read"
    /\ ~Locked(job[s].task)
    /\ ~UpdateMatches(s)
    /\ UNCHANGED vars

\* No row matches: ConflictError.
TaskConflict(s) ==
    /\ job[s].step = "read"
    /\ ~Locked(job[s].task)
    /\ ~UpdateMatches(s)
    /\ job' = [job EXCEPT ![s] = Idle]
    /\ UNCHANGED <<life, filed, task>>
    /\ Disturb({})

\* COMMIT.
TaskCommit(s) ==
    LET j == job[s]
    IN  /\ j.step = "locked"
        /\ task' = [task EXCEPT ![j.task].status = IF j.to = Keep THEN @ ELSE j.to]
        /\ job' = [job EXCEPT ![s] = IF j.wants = Keep THEN Idle ELSE [j EXCEPT !.step = "apply"]]
        /\ UNCHANGED <<life, filed>>
        /\ Disturb({})

-----------------------------------------------------------------------------
(* transitionAssetStatus, after the commit *)

\* A deleted asset is skipped, a disposed one is a ConflictError: the task stays
\* as it was committed.
AssetRead(s) ==
    LET a == job[s].asset
    IN  /\ job[s].step = "apply"
        /\ job' = [job EXCEPT ![s] =
                     IF Register!Alive(a) /\ life[a].status \in Register!Working
                     THEN [job[s] EXCEPT !.step = "set", !.was = life[a].status]
                     ELSE Idle]
        /\ UNCHANGED <<life, filed, task>>
        /\ Disturb({})

\* Mutant: the WHERE clause without the status read.
TransitionMatchesAny(s) == ~life[job[s].asset].deleted

TransitionMatches(s) ==
    Register!Alive(job[s].asset) /\ life[job[s].asset].status = job[s].was

AssetWrite(s) ==
    /\ job[s].step = "set"
    /\ TransitionMatches(s)
    /\ Register!Become(job[s].asset, job[s].wants)
    /\ job' = [job EXCEPT ![s] = Idle]
    /\ UNCHANGED <<filed, task>>
    /\ Disturb({})

AssetConflict(s) ==
    /\ job[s].step = "set"
    /\ ~TransitionMatches(s)
    /\ job' = [job EXCEPT ![s] = Idle]
    /\ UNCHANGED <<life, filed, task>>
    /\ Disturb({})

-----------------------------------------------------------------------------
(* Failures and the rest of the register *)

\* A crash or a database error: an open transaction is rolled back, a committed
\* one stands and its asset keeps the status it has.
Fail(s) ==
    /\ job[s].step # "idle"
    /\ job' = [job EXCEPT ![s] = Idle]
    /\ UNCHANGED <<life, filed, task>>
    /\ Disturb(IF job[s].step \in {"apply", "set"} THEN {job[s].asset} ELSE {})

\* Registration and every other operation on assets.
RegisterStep(a) ==
    /\ \/ Register!Register({a}) \/ Register!Revise({a}) \/ Register!Delete({a})
       \/ Register!Dispose(a)    \/ Register!Restore(a)
    /\ UNCHANGED <<task, job>>
    /\ Disturb({a})

-----------------------------------------------------------------------------

Init ==
    /\ Register!Init
    /\ task = [t \in Tasks |-> [status |-> NoStatus, asset |-> AnyAsset]]
    /\ job = [s \in Sessions |-> Idle]
    /\ disturbed = {}

\* What a request does next, by itself.
Proceed(s) ==
    \/ CreateInsert(s)
    \/ TaskUpdate(s)  \/ TaskConflict(s) \/ TaskCommit(s)
    \/ AssetRead(s)   \/ AssetWrite(s)   \/ AssetConflict(s)

Next ==
    \/ \E a \in Assets : RegisterStep(a)
    \/ \E s \in Sessions, t \in Tasks :
         \/ \E a \in Assets : CreateRead(s, t, a)
         \/ \E to \in TaskStatus \cup {Keep} : TaskRead(s, t, to)
    \/ \E s \in Sessions : Proceed(s) \/ Fail(s)

Spec == Init /\ [][Next]_vars

\* The database answers every statement.  A request waiting for a row lock is
\* served in turn (PostgreSQL queues waiters), hence strong fairness.
FairSpec == Spec /\ \A s \in Sessions : SF_vars(Proceed(s))

-----------------------------------------------------------------------------
(* Properties *)

\* Every variable stays in its domain.
TypeOK ==
    /\ life \in [Assets -> Register!Stage]
    /\ filed \in [Assets -> Nat]
    /\ task \in [Tasks -> Task]
    /\ job \in [Sessions -> Job]
    /\ disturbed \subseteq Assets

\* While no request is between its UPDATE and its last write, an asset in
\* service is in maintenance exactly when one of its tasks is in progress,
\* unless two requests on the asset overlapped after their UPDATE, one failed
\* between its two transactions, or someone else changed the asset.
RestingAssetsAgree ==
    \A a \in Assets : Busy(a) = {} /\ a \notin disturbed => Agree(a)

\* A task is completed once, by one request: whatever other requests did since
\* the completion read it, at its commit the task is open or in progress.
CompletedOnce ==
    [][\A s \in Sessions :
         job[s].step = "locked" /\ job'[s] # job[s] /\ task' # task /\ job[s].to = "completed"
         => task[job[s].task].status \in {"open", "in_progress"}]_vars

\* However late a request writes the status of its asset, it never touches an
\* asset disposed or deleted meanwhile, so the disposal record stays in force.
SparesRetired ==
    [][\A s \in Sessions, a \in Assets :
         job[s].step = "set" /\ job'[s] # job[s] /\ life'[a] # life[a]
         => ~life[a].deleted /\ life[a].status \in Register!Working]_vars

\* Every request ends: nobody waits for a row lock for ever.
RequestsEnd == \A s \in Sessions : job[s].step # "idle" ~> job[s].step = "idle"

=============================================================================
