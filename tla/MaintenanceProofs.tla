-------------------------- MODULE MaintenanceProofs --------------------------
(***************************************************************************)
(* Theorems about Maintenance, for every set of assets, tasks and requests *)
(* in flight: its variables keep their types, a task is completed once, no *)
(* late write touches a retired asset, and assets left alone agree with    *)
(* their tasks.                                                            *)
(***************************************************************************)
EXTENDS Maintenance, TLAPS

\* What holds of the requests in flight: a row about to be inserted has one
\* inserter, a row lock one holder, the holder's task is as it was read, and
\* what is left to write into an asset is a status in service.
RequestInv ==
    /\ \A s \in Sessions :
         job[s].step = "create" => job[s].task \in Tasks /\ task[job[s].task].status = NoStatus
    /\ \A s \in Sessions :
         job[s].step \in {"read", "locked"} =>
             /\ job[s].task \in Tasks
             /\ job[s].to = "completed" => job[s].seen \in {"open", "in_progress"}
    /\ \A s \in Sessions :
         job[s].step = "locked" => task[job[s].task].status = job[s].seen
    /\ \A s \in Sessions :
         job[s].step \in {"apply", "set"} => job[s].wants \in Register!Working
    /\ \A s, u \in Sessions :
         /\ job[s].step \in {"create", "locked"}
         /\ job[u].step = job[s].step
         /\ job[u].task = job[s].task
         => u = s

MInv == TypeOK /\ RequestInv

-----------------------------------------------------------------------------

\* The initial request and what a request may become are requests.
LEMMA JobTypes ==
    /\ AnyAsset \in Assets
    /\ Idle \in Job /\ Idle.step = "idle"
  BY SomeAsset DEF AnyAsset, Idle, Job, JobStep, TaskStatus, Register!Working

\* AssetStatusAfter only asks for a status in service, or for none.
LEMMA AssetStatusType ==
    ASSUME NEW seen, NEW to, NEW sibling \in BOOLEAN
    PROVE  AssetStatusAfter(seen, to, sibling) \in Register!Working \cup {Keep}
  BY DEF AssetStatusAfter, Register!Working

\* The bookkeeping of disturbed assets stays within the assets.
LEMMA DisturbType ==
    ASSUME disturbed \subseteq Assets, NEW A \in SUBSET Assets, Disturb(A)
    PROVE  disturbed' \subseteq Assets
  BY DEF Disturb

\* A step of one request s that leaves tasks alone and makes it j, when j is in
\* order by itself, keeps what holds of the requests.
LEMMA JobStepKeeps ==
    ASSUME MInv, NEW s \in Sessions, NEW j \in Job,
           job' = [job EXCEPT ![s] = j], task' = task,
           j.step = "create" => /\ j.task \in Tasks /\ task[j.task].status = NoStatus
                                /\ \A u \in Sessions : ~(job[u].step = "create" /\ job[u].task = j.task),
           j.step \in {"read", "locked"} =>
               /\ j.task \in Tasks
               /\ j.to = "completed" => j.seen \in {"open", "in_progress"},
           j.step = "locked" => task[j.task].status = j.seen /\ ~Locked(j.task),
           j.step \in {"apply", "set"} => j.wants \in Register!Working
    PROVE  job' \in [Sessions -> Job] /\ RequestInv'
<1>1. job \in [Sessions -> Job]
  BY DEF MInv, TypeOK
<1>2. \A u \in Sessions : job'[u] = IF u = s THEN j ELSE job[u]
  BY <1>1
<1> QED
  BY <1>1, <1>2 DEF MInv, RequestInv, Locked

-----------------------------------------------------------------------------
(* The steps *)

\* createMaintenanceService keeps the invariant.
LEMMA CreateKeepsM ==
    ASSUME MInv, NEW s \in Sessions,
           \/ \E t \in Tasks, a \in Assets : CreateRead(s, t, a)
           \/ CreateInsert(s)
    PROVE  MInv'
<1>1. CASE \E t \in Tasks, a \in Assets : CreateRead(s, t, a)
  <2>1. PICK t \in Tasks, a \in Assets : CreateRead(s, t, a)
    BY <1>1
  <2> DEFINE j == [Idle EXCEPT !.step = "create", !.task = t, !.asset = a]
  <2>2. j \in Job /\ j.step = "create" /\ j.task = t
    BY JobTypes DEF Idle, Job, JobStep
  <2>3. /\ job' = [job EXCEPT ![s] = j] /\ task' = task /\ life' = life /\ filed' = filed
        /\ task[t].status = NoStatus /\ Disturb({})
        /\ \A u \in Sessions : ~(job[u].step = "create" /\ job[u].task = t)
    BY <2>1 DEF CreateRead
  <2> HIDE DEF j
  <2>4. job' \in [Sessions -> Job] /\ RequestInv'
    BY <2>2, <2>3, JobStepKeeps
  <2> QED
    BY <2>3, <2>4, DisturbType DEF MInv, TypeOK
<1>2. CASE CreateInsert(s)
  <2> DEFINE t == job[s].task
             row == [status |-> "open", asset |-> job[s].asset]
  <2>1. /\ task' = [task EXCEPT ![t] = row] /\ job' = [job EXCEPT ![s] = Idle]
        /\ life' = life /\ filed' = filed /\ Disturb({})
    BY <1>2 DEF CreateInsert
  <2>2. /\ job \in [Sessions -> Job] /\ task \in [Tasks -> Task] /\ t \in Tasks
        /\ task[t].status = NoStatus /\ job[s].step = "create"
    BY <1>2 DEF CreateInsert, MInv, TypeOK, RequestInv
  <2>3. row \in Task
    BY <2>2 DEF Task, Job, TaskStatus
  <2> HIDE DEF row
  <2>4. \A u \in Sessions : job'[u] = IF u = s THEN Idle ELSE job[u]
    BY <2>1, <2>2
  <2>5. \A x \in Tasks : task'[x] = IF x = t THEN row ELSE task[x]
    BY <2>1, <2>2
  <2>6. \A u \in Sessions : job[u].step = "locked" => job[u].task # t
    BY <2>2 DEF MInv, RequestInv, TypeOK, Job, TaskStatus, NoStatus
  <2>7. RequestInv'
    BY <2>2, <2>4, <2>5, <2>6, JobTypes DEF MInv, RequestInv
  <2> QED
    BY <2>1, <2>2, <2>3, <2>7, JobTypes, DisturbType DEF MInv, TypeOK
<1> QED
  BY <1>1, <1>2

\* A request that reads its task, or takes its row lock.
LEMMA TaskStepKeeps ==
    ASSUME MInv, NEW s \in Sessions,
           \/ \E t \in Tasks, to \in TaskStatus \cup {Keep} : TaskRead(s, t, to)
           \/ TaskUpdate(s)
    PROVE  MInv'
<1>1. CASE \E t \in Tasks, to \in TaskStatus \cup {Keep} : TaskRead(s, t, to)
  <2>1. PICK t \in Tasks, to \in TaskStatus \cup {Keep} : TaskRead(s, t, to)
    BY <1>1
  <2> DEFINE j == [Idle EXCEPT !.step = "read", !.task = t, !.asset = task[t].asset,
                               !.to = to, !.seen = task[t].status]
  <2>2. task[t] \in Task /\ task[t].status # NoStatus
    BY <2>1 DEF TaskRead, MInv, TypeOK
  <2>3. j \in Job /\ j.step = "read" /\ j.task = t /\ j.to = to /\ j.seen = task[t].status
    BY <2>2, JobTypes DEF Idle, Job, JobStep, Task
  <2>4. /\ job' = [job EXCEPT ![s] = j] /\ task' = task /\ life' = life /\ filed' = filed
        /\ Disturb({})
        /\ to = "completed" => task[t].status \in {"open", "in_progress"}
    BY <2>1 DEF TaskRead
  <2> HIDE DEF j
  <2>5. job' \in [Sessions -> Job] /\ RequestInv'
    BY <2>3, <2>4, JobStepKeeps
  <2> QED
    BY <2>4, <2>5, DisturbType DEF MInv, TypeOK
<1>2. CASE TaskUpdate(s)
  <2> DEFINE w == AssetStatusAfter(job[s].seen, job[s].to,
                                   InProgress(job[s].asset) \ {job[s].task} # {})
             j == [job[s] EXCEPT !.step = "locked", !.wants = w]
  <2>1. /\ job[s].step = "read" /\ ~Locked(job[s].task)
        /\ task[job[s].task].status = job[s].seen
        /\ task' = task /\ life' = life /\ filed' = filed
        /\ Disturb(IF Busy(job[s].asset) # {} THEN {job[s].asset} ELSE {})
    BY <1>2 DEF TaskUpdate, UpdateMatches
  <2>2. job \in [Sessions -> Job] /\ job[s] \in Job /\ job[s].asset \in Assets
    BY DEF MInv, TypeOK, Job
  <2>3. w \in Register!Working \cup {Keep}
    BY AssetStatusType
  <2>4. job' = [job EXCEPT ![s] = j]
    BY <1>2, <2>2 DEF TaskUpdate
  <2> HIDE DEF w
  <2>5. /\ j \in Job /\ j.step = "locked" /\ j.task = job[s].task
        /\ j.to = job[s].to /\ j.seen = job[s].seen
    BY <2>2, <2>3 DEF Job, JobStep
  <2> HIDE DEF j
  <2>6. /\ j.task \in Tasks
        /\ j.to = "completed" => j.seen \in {"open", "in_progress"}
    BY <2>1, <2>5 DEF MInv, RequestInv
  <2>7. job' \in [Sessions -> Job] /\ RequestInv'
    BY <2>1, <2>4, <2>5, <2>6, JobStepKeeps
  <2>8. disturbed' \subseteq Assets
    BY <2>1, <2>2, DisturbType DEF MInv, TypeOK
  <2> QED
    BY <2>1, <2>7, <2>8 DEF MInv, TypeOK
<1> QED
  BY <1>1, <1>2

\* The commit writes a status into the task whose row it holds.
LEMMA CommitKeeps ==
    ASSUME MInv, NEW s \in Sessions, TaskCommit(s)
    PROVE  MInv'
<1> DEFINE t == job[s].task
           row == [task[t] EXCEPT !.status = IF job[s].to = Keep THEN @ ELSE job[s].to]
           j == IF job[s].wants = Keep THEN Idle ELSE [job[s] EXCEPT !.step = "apply"]
<1>1. /\ job[s].step = "locked" /\ job' = [job EXCEPT ![s] = j]
      /\ life' = life /\ filed' = filed /\ Disturb({})
  BY DEF TaskCommit
<1>2. /\ job \in [Sessions -> Job] /\ job[s] \in Job /\ task \in [Tasks -> Task]
      /\ t \in Tasks /\ task[t] \in Task
  BY <1>1 DEF MInv, TypeOK, RequestInv
<1>3. task' = [task EXCEPT ![t] = row]
  BY <1>2 DEF TaskCommit
<1>4. row \in Task
  BY <1>2 DEF Task, Job
<1>5. /\ j \in Job /\ j.step \in {"idle", "apply"}
      /\ j.step = "apply" => j.wants \in Register!Working
  BY <1>2, JobTypes DEF Job, JobStep
<1>6. \A u \in Sessions : job[u].step = "create" => job[u].task # t
  BY <1>1, <1>2 DEF MInv, RequestInv, Job, TaskStatus, NoStatus
<1> HIDE DEF row, j
<1>7. \A u \in Sessions : job'[u] = IF u = s THEN j ELSE job[u]
  BY <1>1, <1>2
<1>8. \A x \in Tasks : task'[x] = IF x = t THEN row ELSE task[x]
  BY <1>2, <1>3
<1>9. RequestInv'
  BY <1>1, <1>2, <1>5, <1>6, <1>7, <1>8 DEF MInv, RequestInv
<1> QED
  BY <1>1, <1>2, <1>3, <1>4, <1>5, <1>9, DisturbType DEF MInv, TypeOK

\* The steps that end a request, or go on with its asset.
LEMMA AssetStepKeeps ==
    ASSUME MInv, NEW s \in Sessions,
           \/ TaskConflict(s) \/ AssetRead(s) \/ AssetWrite(s) \/ AssetConflict(s) \/ Fail(s)
    PROVE  MInv'
<1>1. job[s] \in Job /\ job[s].asset \in Assets /\ disturbed \subseteq Assets
  BY DEF MInv, TypeOK, Job
<1>2. CASE TaskConflict(s) \/ AssetConflict(s) \/ Fail(s)
  <2>1. /\ job' = [job EXCEPT ![s] = Idle] /\ task' = task /\ life' = life /\ filed' = filed
        /\ \E A \in SUBSET Assets : Disturb(A)
    BY <1>1, <1>2 DEF TaskConflict, AssetConflict, Fail
  <2>2. job' \in [Sessions -> Job] /\ RequestInv'
    BY <2>1, JobTypes, JobStepKeeps
  <2> QED
    BY <1>1, <2>1, <2>2, DisturbType DEF MInv, TypeOK
<1>3. CASE AssetRead(s)
  <2> DEFINE a == job[s].asset
             j == IF Register!Alive(a) /\ life[a].status \in Register!Working
                  THEN [job[s] EXCEPT !.step = "set", !.was = life[a].status]
                  ELSE Idle
  <2>1. /\ job' = [job EXCEPT ![s] = j] /\ task' = task /\ life' = life /\ filed' = filed
        /\ Disturb({})
    BY <1>3 DEF AssetRead
  <2>2. /\ j \in Job /\ j.step \in {"idle", "set"}
        /\ j.step = "set" => j.wants \in Register!Working
    BY <1>1, <1>3, JobTypes DEF AssetRead, MInv, RequestInv, Job, JobStep
  <2> HIDE DEF j
  <2>3. job' \in [Sessions -> Job] /\ RequestInv'
    BY <2>1, <2>2, JobStepKeeps
  <2> QED
    BY <2>1, <2>3, DisturbType DEF MInv, TypeOK
<1>4. CASE AssetWrite(s)
  <2>1. /\ Register!Become(job[s].asset, job[s].wants)
        /\ job' = [job EXCEPT ![s] = Idle] /\ task' = task /\ filed' = filed /\ Disturb({})
    BY <1>4 DEF AssetWrite
  <2>2. job[s].wants \in Register!Working
    BY <1>4 DEF AssetWrite, MInv, RequestInv
  <2>3. [status |-> job[s].wants, deleted |-> FALSE] \in Register!Stage
    BY <2>2 DEF Register!Stage
  <2>4. life' \in [Assets -> Register!Stage]
    BY <1>1, <2>1, <2>3 DEF Register!Become, MInv, TypeOK
  <2>5. job' \in [Sessions -> Job] /\ RequestInv'
    BY <2>1, JobTypes, JobStepKeeps
  <2> QED
    BY <2>1, <2>4, <2>5, DisturbType DEF MInv, TypeOK
<1> QED
  BY <1>2, <1>3, <1>4

\* The operations of the register, one asset at a time.
LEMMA RegisterKeeps ==
    ASSUME MInv, NEW a \in Assets, RegisterStep(a)
    PROVE  MInv'
<1>1. life \in [Assets -> Register!Stage] /\ filed \in [Assets -> Nat]
  BY DEF MInv, TypeOK
<1>2. UNCHANGED <<task, job>> /\ Disturb({a})
  BY DEF RegisterStep
<1>3. life' \in [Assets -> Register!Stage] /\ filed' \in [Assets -> Nat]
  <2>1. CASE Register!Register({a})
    BY <1>1, <2>1 DEF Register!Register, Register!Stage
  <2>2. CASE Register!Revise({a})
    <3>1. PICK st \in Register!Working :
            life' = [b \in Assets |->
                       IF b \in {a} THEN [status |-> st, deleted |-> FALSE] ELSE life[b]]
      BY <2>2 DEF Register!Revise
    <3>2. [status |-> st, deleted |-> FALSE] \in Register!Stage
      BY DEF Register!Stage
    <3>3. filed' \in [Assets -> Nat]
      BY <1>1, <2>2 DEF Register!Revise
    <3> QED
      BY <1>1, <3>1, <3>2, <3>3
  <2>3. CASE Register!Delete({a})
    BY <1>1, <2>3 DEF Register!Delete, Register!Stage
  <2>4. CASE Register!Dispose(a)
    BY <1>1, <2>4 DEF Register!Dispose, Register!Become, Register!Stage
  <2>5. CASE Register!Restore(a)
    BY <1>1, <2>5 DEF Register!Restore, Register!Become, Register!Stage
  <2> QED
    BY <2>1, <2>2, <2>3, <2>4, <2>5 DEF RegisterStep
<1> QED
  BY <1>2, <1>3, DisturbType DEF MInv, TypeOK, RequestInv

-----------------------------------------------------------------------------
(* Tasks in progress and assets in maintenance *)

\* The task a request has read or locked is one, and is about its asset.
TaskOfAsset ==
    \A s \in Sessions :
        job[s].step \in {"read", "locked"} =>
            /\ task[job[s].task].status # NoStatus
            /\ task[job[s].task].asset = job[s].asset

\* What a request past its UPDATE is about to write is what the tasks call for.
Pending(s) ==
    /\ job[s].step = "locked" =>
         job[s].wants = AssetStatusAfter(job[s].seen, job[s].to,
                                         InProgress(job[s].asset) \ {job[s].task} # {})
    /\ job[s].step \in {"apply", "set"} =>
         (job[s].wants = "maintenance" <=> InProgress(job[s].asset) # {})
    /\ job[s].step = "set" => TransitionMatches(s)

\* At most one request is past its UPDATE, what it will write is right, and as
\* long as no commit has changed a task the asset agrees.
Clean(a) ==
    /\ \A s, u \in Busy(a) : s = u
    /\ (\A s \in Busy(a) : job[s].step = "locked") => Agree(a)
    /\ \A s \in Busy(a) : Pending(s)

AssetInv == TaskOfAsset /\ \A a \in Assets \ disturbed : Clean(a)

\* An asset that is no longer disturbed is at rest and agrees; for the others it
\* is enough to look at those the step does not disturb.
LEMMA DisturbClean ==
    ASSUME NEW A \in SUBSET Assets, Disturb(A), disturbed \subseteq Assets,
           \A a \in Assets \ (disturbed \cup A) : Clean(a)'
    PROVE  \A a \in Assets \ disturbed' : Clean(a)'
<1> SUFFICES ASSUME NEW a \in disturbed \cup A, a \notin disturbed' PROVE Clean(a)'
  OBVIOUS
<1>1. Busy(a)' = {} /\ Agree(a)'
  BY DEF Disturb
<1> QED
  BY <1>1 DEF Clean

\* A step that leaves an asset, its tasks and its requests alone.
LEMMA ApartClean ==
    ASSUME NEW a \in Assets, Clean(a), life'[a] = life[a], InProgress(a)' = InProgress(a),
           Busy(a)' = Busy(a), \A s \in Busy(a) : job'[s] = job[s]
    PROVE  Clean(a)'
<1>1. Agree(a)' <=> Agree(a)
  BY DEF Agree, Register!Alive
<1>2. \A s \in Busy(a) : job[s].asset = a
  BY DEF Busy
<1>3. \A s \in Busy(a) : Pending(s) => Pending(s)'
  BY <1>2 DEF Pending, TransitionMatches, Register!Alive
<1> QED
  BY <1>1, <1>3 DEF Clean

\* The requests past their UPDATE after a step of s that puts j in its place.
LEMMA BusyAfter ==
    ASSUME TypeOK, NEW s \in Sessions, NEW j, job' = [job EXCEPT ![s] = j], NEW a
    PROVE  /\ j.step \in {"locked", "apply", "set"} /\ j.asset = a => Busy(a)' = Busy(a) \cup {s}
           /\ ~(j.step \in {"locked", "apply", "set"} /\ j.asset = a) => Busy(a)' = Busy(a) \ {s}
<1>1. \A u \in Sessions : job'[u] = IF u = s THEN j ELSE job[u]
  BY DEF TypeOK
<1> QED
  BY <1>1 DEF Busy

\* A step of s that concerns another asset than a, now and next.
LEMMA ElsewhereClean ==
    ASSUME TypeOK, NEW s \in Sessions, NEW j, job' = [job EXCEPT ![s] = j],
           NEW a \in Assets, Clean(a), s \notin Busy(a),
           ~(j.step \in {"locked", "apply", "set"} /\ j.asset = a),
           life'[a] = life[a], InProgress(a)' = InProgress(a)
    PROVE  Clean(a)'
<1>1. \A u \in Sessions : job'[u] = IF u = s THEN j ELSE job[u]
  BY DEF TypeOK
<1>2. \A u \in Busy(a) : u \in Sessions
  BY DEF Busy
<1>3. Busy(a)' = Busy(a) \ {s}
  BY BusyAfter
<1> QED
  BY <1>1, <1>2, <1>3, ApartClean

\* The request that is past its UPDATE is the only one of its asset.
LEMMA Alone ==
    ASSUME TypeOK, NEW s \in Sessions, job[s].step \in {"locked", "apply", "set"},
           NEW c, c = job[s].asset, Clean(c), NEW j, job' = [job EXCEPT ![s] = j]
    PROVE  /\ Busy(c) = {s} /\ Pending(s)
           /\ j.step \in {"locked", "apply", "set"} /\ j.asset = c => Busy(c)' = {s}
           /\ ~(j.step \in {"locked", "apply", "set"} /\ j.asset = c) => Busy(c)' = {}
<1>1. Busy(c) = {s} /\ Pending(s)
  BY DEF Busy, Clean
<1>2. \A u \in Sessions : job'[u] = IF u = s THEN j ELSE job[u]
  BY DEF TypeOK
<1> QED
  BY <1>1, <1>2 DEF Busy

\* A step of s that writes no task and puts in its place a request that has not
\* come to its UPDATE, from one that had not either.
LEMMA EarlyKeeps ==
    ASSUME MInv, AssetInv, NEW s \in Sessions, NEW j, job' = [job EXCEPT ![s] = j],
           life' = life, task' = task, Disturb({}),
           job[s].step \in {"idle", "create", "read"}, j.step \in {"idle", "create", "read"},
           j.step = "read" => task[j.task].status # NoStatus /\ task[j.task].asset = j.asset
    PROVE  AssetInv'
<1>1. \A u \in Sessions : job'[u] = IF u = s THEN j ELSE job[u]
  BY DEF MInv, TypeOK
<1>2. TaskOfAsset'
  BY <1>1 DEF AssetInv, TaskOfAsset
<1>3. \A a \in Assets \ disturbed : Clean(a)'
  <2> TAKE a \in Assets \ disturbed
  <2>1. s \notin Busy(a)
    BY DEF Busy
  <2>2. InProgress(a)' = InProgress(a) /\ Clean(a)
    BY DEF InProgress, AssetInv
  <2> QED
    BY <2>1, <2>2, ElsewhereClean DEF MInv
<1>4. \A a \in Assets \ disturbed' : Clean(a)'
  BY <1>3, DisturbClean DEF MInv, TypeOK
<1> QED
  BY <1>2, <1>4 DEF AssetInv

\* Creations and reads change no task in progress.
LEMMA ReadKeepsA ==
    ASSUME MInv, AssetInv, NEW s \in Sessions,
           \/ \E t \in Tasks, a \in Assets : CreateRead(s, t, a)
           \/ \E t \in Tasks, to \in TaskStatus \cup {Keep} : TaskRead(s, t, to)
           \/ TaskConflict(s)
    PROVE  AssetInv'
<1>1. ASSUME NEW t \in Tasks, NEW a \in Assets, CreateRead(s, t, a) PROVE AssetInv'
  <2> DEFINE j == [Idle EXCEPT !.step = "create", !.task = t, !.asset = a]
  <2>1. j.step = "create"
    BY DEF Idle
  <2>2. /\ job' = [job EXCEPT ![s] = j] /\ job[s].step = "idle"
        /\ life' = life /\ task' = task /\ Disturb({})
    BY <1>1 DEF CreateRead
  <2> HIDE DEF j
  <2> QED
    BY <2>1, <2>2, EarlyKeeps
<1>2. ASSUME NEW t \in Tasks, NEW to \in TaskStatus \cup {Keep}, TaskRead(s, t, to)
      PROVE  AssetInv'
  <2> DEFINE j == [Idle EXCEPT !.step = "read", !.task = t, !.asset = task[t].asset,
                               !.to = to, !.seen = task[t].status]
  <2>1. j.step = "read" /\ j.task = t /\ j.asset = task[t].asset
    BY DEF Idle
  <2>2. /\ job' = [job EXCEPT ![s] = j] /\ job[s].step = "idle" /\ task[t].status # NoStatus
        /\ life' = life /\ task' = task /\ Disturb({})
    BY <1>2 DEF TaskRead
  <2> HIDE DEF j
  <2> QED
    BY <2>1, <2>2, EarlyKeeps
<1>3. CASE TaskConflict(s)
  BY <1>3, EarlyKeeps, JobTypes DEF TaskConflict
<1> QED
  BY <1>1, <1>2, <1>3

\* The row inserted is of a task nobody works on.
LEMMA InsertKeepsA ==
    ASSUME MInv, AssetInv, NEW s \in Sessions, CreateInsert(s)
    PROVE  AssetInv'
<1> DEFINE t == job[s].task
           row == [status |-> "open", asset |-> job[s].asset]
<1>1. /\ task' = [task EXCEPT ![t] = row] /\ job' = [job EXCEPT ![s] = Idle]
      /\ life' = life /\ Disturb({}) /\ job[s].step = "create"
  BY DEF CreateInsert
<1>2. t \in Tasks /\ task[t].status = NoStatus /\ task \in [Tasks -> Task]
  BY <1>1 DEF MInv, RequestInv, TypeOK
<1>3. \A x \in Tasks : task'[x] = IF x = t THEN row ELSE task[x]
  BY <1>1, <1>2
<1>4. \A a : InProgress(a)' = InProgress(a)
  BY <1>2, <1>3 DEF InProgress, NoStatus
<1>5. \A u \in Sessions : job'[u] = IF u = s THEN Idle ELSE job[u]
  BY <1>1 DEF MInv, TypeOK
<1>6. TaskOfAsset'
  <2> SUFFICES ASSUME NEW u \in Sessions, job'[u].step \in {"read", "locked"}
               PROVE  /\ task'[job[u].task].status # NoStatus
                      /\ task'[job[u].task].asset = job[u].asset
                      /\ job'[u] = job[u]
    BY DEF TaskOfAsset
  <2>1. u # s /\ job'[u] = job[u]
    BY <1>5, JobTypes
  <2>2. /\ job[u].task \in Tasks /\ task[job[u].task].status # NoStatus
        /\ task[job[u].task].asset = job[u].asset
    BY <2>1 DEF AssetInv, TaskOfAsset, MInv, RequestInv
  <2> QED
    BY <1>2, <1>3, <2>1, <2>2
<1>7. \A a \in Assets \ disturbed : Clean(a)'
  <2> TAKE a \in Assets \ disturbed
  <2>1. s \notin Busy(a) /\ Clean(a)
    BY <1>1 DEF Busy, AssetInv
  <2> QED
    BY <1>1, <1>4, <2>1, ElsewhereClean, JobTypes DEF MInv
<1>8. \A a \in Assets \ disturbed' : Clean(a)'
  BY <1>1, <1>7, DisturbClean DEF MInv, TypeOK
<1> QED
  BY <1>6, <1>8 DEF AssetInv

\* The UPDATE and the SELECT of the sibling: the first request of an asset at rest
\* works out its status from tasks nobody else is changing.
LEMMA UpdateKeepsA ==
    ASSUME MInv, AssetInv, NEW s \in Sessions, TaskUpdate(s)
    PROVE  AssetInv'
<1>0. PICK c : c = job[s].asset
  OBVIOUS
<1> DEFINE w == AssetStatusAfter(job[s].seen, job[s].to, InProgress(c) \ {job[s].task} # {})
           j == [job[s] EXCEPT !.step = "locked", !.wants = w]
<1>1. /\ job[s].step = "read" /\ task' = task /\ life' = life
      /\ Disturb(IF Busy(c) # {} THEN {c} ELSE {})
  BY <1>0 DEF TaskUpdate
<1>2. job \in [Sessions -> Job] /\ job[s] \in Job /\ c \in Assets
  BY <1>0 DEF MInv, TypeOK, Job
<1>3. job' = [job EXCEPT ![s] = j]
  BY <1>0, <1>2 DEF TaskUpdate
<1> HIDE DEF w
<1>4. /\ j.step = "locked" /\ j.task = job[s].task /\ j.asset = c
      /\ j.to = job[s].to /\ j.seen = job[s].seen /\ j.wants = w
  BY <1>0, <1>2 DEF Job
<1> HIDE DEF j
<1>5. \A u \in Sessions : job'[u] = IF u = s THEN j ELSE job[u]
  BY <1>3 DEF MInv, TypeOK
<1>6. TaskOfAsset'
  BY <1>0, <1>1, <1>4, <1>5 DEF AssetInv, TaskOfAsset
<1>7. \A a : InProgress(a)' = InProgress(a)
  BY <1>1 DEF InProgress
<1>8. ASSUME NEW a \in Assets \ disturbed, a = c => Busy(c) = {} PROVE Clean(a)'
  <2>1. Clean(a)
    BY DEF AssetInv
  <2>2. CASE a # c
    <3>1. s \notin Busy(a)
      BY <1>1 DEF Busy
    <3> QED
      BY <1>1, <1>3, <1>4, <1>7, <2>1, <2>2, <3>1, ElsewhereClean DEF MInv
  <2>3. CASE a = c
    <3>1. Busy(c)' = {s}
      BY <1>3, <1>4, <1>8, <2>3, BusyAfter DEF MInv
    <3>2. Agree(c)
      BY <1>8, <2>1, <2>3 DEF Clean
    <3>3. Agree(c)'
      BY <1>1, <1>7, <3>2 DEF Agree, Register!Alive
    <3>4. job'[s] = j
      BY <1>5
    <3>5. Pending(s)'
      BY <1>4, <1>7, <3>4 DEF Pending, w
    <3> QED
      BY <2>3, <3>1, <3>3, <3>5 DEF Clean
  <2> QED
    BY <2>2, <2>3
<1>9. \A a \in Assets \ disturbed' : Clean(a)'
  <2> DEFINE A == IF Busy(c) # {} THEN {c} ELSE {}
  <2>1. A \in SUBSET Assets /\ Disturb(A)
    BY <1>1, <1>2
  <2>2. \A a \in Assets \ (disturbed \cup A) : Clean(a)'
    BY <1>8
  <2> HIDE DEF A
  <2> QED
    BY <2>1, <2>2, DisturbClean DEF MInv, TypeOK
<1> QED
  BY <1>6, <1>9 DEF AssetInv

\* What AssetStatusAfter asks for agrees with the tasks once the commit is done:
\* sibling tells whether another task of the asset is in progress.
LEMMA StatusAfterCommit ==
    ASSUME NEW seen \in TaskStatus, NEW to \in TaskStatus \cup {Keep}, NEW sibling \in BOOLEAN
    PROVE  /\ AssetStatusAfter(seen, to, sibling) \in Register!Working =>
                (AssetStatusAfter(seen, to, sibling) = "maintenance"
                   <=> sibling \/ (IF to = Keep THEN seen ELSE to) = "in_progress")
           /\ AssetStatusAfter(seen, to, sibling) \notin Register!Working =>
                (sibling \/ seen = "in_progress"
                   <=> sibling \/ (IF to = Keep THEN seen ELSE to) = "in_progress")
<1>1. Keep \notin TaskStatus /\ Keep \notin Register!Working
  BY KeepIsNoStatus
<1>2. CASE to = Keep
  BY <1>1, <1>2 DEF AssetStatusAfter, TaskStatus, Register!Working
<1>3. CASE to = "in_progress"
  BY <1>1, <1>3 DEF AssetStatusAfter, TaskStatus, Register!Working
<1>4. CASE to \in {"open", "cancelled"}
  BY <1>1, <1>4 DEF AssetStatusAfter, TaskStatus, Register!Working
<1>5. CASE to = "completed"
  BY <1>1, <1>5 DEF AssetStatusAfter, TaskStatus, Register!Working
<1> QED
  BY <1>2, <1>3, <1>4, <1>5 DEF TaskStatus

\* The commit: the task changes, and what the request goes on to write, if
\* anything, is what the tasks now call for.
LEMMA CommitKeepsA ==
    ASSUME MInv, AssetInv, NEW s \in Sessions, TaskCommit(s)
    PROVE  AssetInv'
<1>0. PICK c : c = job[s].asset
  OBVIOUS
<1> DEFINE t == job[s].task
           sibling == InProgress(c) \ {t} # {}
           after == IF job[s].to = Keep THEN job[s].seen ELSE job[s].to
           row == [task[t] EXCEPT !.status = IF job[s].to = Keep THEN @ ELSE job[s].to]
           j == IF job[s].wants = Keep THEN Idle ELSE [job[s] EXCEPT !.step = "apply"]
<1>1. /\ job[s].step = "locked" /\ job' = [job EXCEPT ![s] = j]
      /\ life' = life /\ Disturb({})
  BY DEF TaskCommit
<1>2. /\ job \in [Sessions -> Job] /\ job[s] \in Job /\ task \in [Tasks -> Task]
      /\ t \in Tasks /\ task[t] \in Task /\ task[t].status = job[s].seen /\ task[t].asset = c
      /\ job[s].seen \in TaskStatus /\ job[s].to \in TaskStatus \cup {Keep} /\ c \in Assets
      /\ job[s].wants \in Register!Working \cup {Keep}
  BY <1>0, <1>1 DEF MInv, TypeOK, RequestInv, AssetInv, TaskOfAsset, Job
<1>3. task' = [task EXCEPT ![t] = row]
  BY <1>2 DEF TaskCommit
<1>4. row.status = after /\ row.asset = c /\ after \in TaskStatus
  BY <1>2 DEF Task
<1>5. /\ job[s].wants = Keep => j.step = "idle"
      /\ job[s].wants # Keep => j.step = "apply" /\ j.asset = c /\ j.wants = job[s].wants
  BY <1>0, <1>2, JobTypes DEF Job
<1> HIDE DEF row, j, after
<1>6. \A x \in Tasks : task'[x] = IF x = t THEN row ELSE task[x]
  BY <1>2, <1>3
<1>7. \A u \in Sessions : job'[u] = IF u = s THEN j ELSE job[u]
  BY <1>1 DEF MInv, TypeOK
<1>8. TaskOfAsset'
  <2> SUFFICES ASSUME NEW u \in Sessions, job'[u].step \in {"read", "locked"}
               PROVE  /\ task'[job[u].task].status # NoStatus
                      /\ task'[job[u].task].asset = job[u].asset
                      /\ job'[u] = job[u]
    BY DEF TaskOfAsset
  <2>1. u # s /\ job'[u] = job[u]
    BY <1>5, <1>7
  <2>2. /\ job[u].task \in Tasks /\ task[job[u].task].status # NoStatus
        /\ task[job[u].task].asset = job[u].asset
    BY <2>1 DEF AssetInv, TaskOfAsset, MInv, RequestInv
  <2> QED
    BY <1>2, <1>4, <1>6, <2>1, <2>2 DEF TaskStatus, NoStatus
<1>9. \A a \in Assets : a # c => InProgress(a)' = InProgress(a)
  BY <1>2, <1>4, <1>6 DEF InProgress
<1>10. ASSUME c \notin disturbed PROVE Clean(c)'
  <2>1. Clean(c)
    BY <1>2, <1>10 DEF AssetInv
  <2>2. /\ Busy(c) = {s} /\ Pending(s)
        /\ job[s].wants # Keep => Busy(c)' = {s}
        /\ job[s].wants = Keep => Busy(c)' = {}
    BY <1>0, <1>1, <1>5, <2>1, Alone DEF MInv
  <2>3. job[s].wants = AssetStatusAfter(job[s].seen, job[s].to, sibling)
    BY <1>0, <1>1, <2>2 DEF Pending
  <2>4. InProgress(c) # {} <=> sibling \/ job[s].seen = "in_progress"
    BY <1>2 DEF InProgress
  <2>5. InProgress(c)' # {} <=> sibling \/ after = "in_progress"
    BY <1>2, <1>4, <1>6 DEF InProgress
  <2> HIDE DEF sibling
  <2>6. /\ job[s].wants \in Register!Working =>
             (job[s].wants = "maintenance" <=> sibling \/ after = "in_progress")
        /\ job[s].wants \notin Register!Working =>
             (sibling \/ job[s].seen = "in_progress" <=> sibling \/ after = "in_progress")
    <3>1. sibling \in BOOLEAN
      BY DEF sibling
    <3> QED
      BY <1>2, <2>3, <3>1, StatusAfterCommit DEF after
  <2>7. CASE job[s].wants = Keep
    <3>1. InProgress(c)' # {} <=> InProgress(c) # {}
      BY <2>4, <2>5, <2>6, <2>7, KeepIsNoStatus
    <3>2. Agree(c)
      BY <1>1, <2>1, <2>2 DEF Clean
    <3>3. Agree(c)'
      BY <1>1, <3>1, <3>2 DEF Agree, Register!Alive
    <3> QED
      BY <2>2, <2>7, <3>3 DEF Clean
  <2>8. CASE job[s].wants # Keep
    <3>1. job'[s] = j /\ j.step = "apply" /\ j.asset = c /\ j.wants = job[s].wants
      BY <1>5, <1>7, <2>8
    <3>2. j.wants = "maintenance" <=> InProgress(c)' # {}
      BY <1>2, <2>5, <2>6, <2>8, <3>1
    <3>3. Pending(s)'
      BY <3>1, <3>2 DEF Pending
    <3> QED
      BY <2>2, <2>8, <3>1, <3>3 DEF Clean
  <2> QED
    BY <2>7, <2>8
<1>11. \A a \in Assets \ disturbed : Clean(a)'
  <2> TAKE a \in Assets \ disturbed
  <2>1. CASE a = c
    BY <1>10, <2>1
  <2>2. CASE a # c
    <3>1. s \notin Busy(a) /\ Clean(a)
      BY <1>0, <2>2 DEF Busy, AssetInv
    <3> QED
      BY <1>1, <1>5, <1>9, <2>2, <3>1, ElsewhereClean DEF MInv
  <2> QED
    BY <2>1, <2>2
<1>12. \A a \in Assets \ disturbed' : Clean(a)'
  BY <1>1, <1>11, DisturbClean DEF MInv, TypeOK
<1> QED
  BY <1>8, <1>12 DEF AssetInv

\* A request ends, or goes on to set its asset; no task changes, and no asset but
\* its own, on which the step itself is accounted for.
LEMMA LateKeeps ==
    ASSUME MInv, AssetInv, NEW s \in Sessions, job[s].step \in {"locked", "apply", "set"},
           NEW j, job' = [job EXCEPT ![s] = j], task' = task,
           NEW A \in SUBSET Assets, Disturb(A), j.step \in {"idle", "set"},
           NEW c \in Assets, c = job[s].asset, j.step = "set" => j.asset = c,
           \A a \in Assets : a # c => life'[a] = life[a],
           j.step = "set" /\ Pending(s) => Pending(s)',
           j.step = "idle" /\ c \notin A /\ Clean(c) /\ Busy(c) = {s} /\ Pending(s) => Agree(c)'
    PROVE  AssetInv'
<1>1. \A u \in Sessions : job'[u] = IF u = s THEN j ELSE job[u]
  BY DEF MInv, TypeOK
<1>2. TaskOfAsset'
  BY <1>1 DEF AssetInv, TaskOfAsset
<1>3. \A a : InProgress(a)' = InProgress(a)
  BY DEF InProgress
<1>4. ASSUME c \notin disturbed \cup A PROVE Clean(c)'
  <2>1. Clean(c)
    BY <1>4 DEF AssetInv
  <2>2. /\ Busy(c) = {s} /\ Pending(s)
        /\ j.step = "set" => Busy(c)' = {s}
        /\ j.step = "idle" => Busy(c)' = {}
    BY <2>1, Alone DEF MInv
  <2>3. (j.step = "set" => Pending(s)') /\ (j.step = "idle" => Agree(c)')
    BY <1>4, <2>1, <2>2
  <2> QED
    BY <1>1, <2>2, <2>3 DEF Clean
<1>5. ASSUME NEW a \in Assets \ disturbed, a # c PROVE Clean(a)'
  <2>1. s \notin Busy(a) /\ Clean(a)
    BY <1>5 DEF Busy, AssetInv
  <2> QED
    BY <1>3, <1>5, <2>1, ElsewhereClean DEF MInv
<1>6. \A a \in Assets \ disturbed' : Clean(a)'
  BY <1>4, <1>5, DisturbClean DEF MInv, TypeOK
<1> QED
  BY <1>2, <1>6 DEF AssetInv

\* transitionAssetStatus: reads, writes or finds the asset changed.
LEMMA AssetKeepsA ==
    ASSUME MInv, AssetInv, NEW s \in Sessions,
           AssetRead(s) \/ AssetWrite(s) \/ AssetConflict(s)
    PROVE  AssetInv'
<1>0. PICK c : c = job[s].asset
  OBVIOUS
<1>1. job \in [Sessions -> Job] /\ job[s] \in Job /\ c \in Assets
  BY <1>0 DEF MInv, TypeOK, Job
<1>2. task' = task => \A a : InProgress(a)' = InProgress(a)
  BY DEF InProgress
<1>3. CASE AssetRead(s)
  <2> DEFINE ok == Register!Alive(c) /\ life[c].status \in Register!Working
             j == IF ok THEN [job[s] EXCEPT !.step = "set", !.was = life[c].status] ELSE Idle
  <2>1. /\ job[s].step = "apply" /\ job' = [job EXCEPT ![s] = j]
        /\ task' = task /\ life' = life /\ Disturb({})
    BY <1>0, <1>3 DEF AssetRead
  <2>2. /\ ok => /\ j.step = "set" /\ j.asset = c /\ j.was = life[c].status
                 /\ j.wants = job[s].wants
        /\ ~ok => j.step = "idle"
    BY <1>0, <1>1, JobTypes DEF Job
  <2> HIDE DEF j
  <2>3. job'[s] = j
    BY <2>1 DEF MInv, TypeOK
  <2>4. ~ok => Agree(c)'
    BY <2>1 DEF Agree, Register!Alive
  <2>5. ok /\ Pending(s) => Pending(s)'
    BY <1>0, <1>2, <2>1, <2>2, <2>3 DEF Pending, TransitionMatches, Register!Alive
  <2>6. /\ j.step = "set" /\ Pending(s) => Pending(s)'
        /\ j.step = "idle" => Agree(c)'
    BY <2>2, <2>4, <2>5
  <2>7. j.step \in {"idle", "set"} /\ (j.step = "set" => j.asset = c)
    BY <2>2
  <2> QED
    BY <1>0, <2>1, <2>6, <2>7, <1>1, LateKeeps
<1>4. CASE AssetWrite(s)
  <2>1. /\ job[s].step = "set" /\ job' = [job EXCEPT ![s] = Idle] /\ task' = task
        /\ life' = [life EXCEPT ![c] = [status |-> job[s].wants, deleted |-> FALSE]]
        /\ Disturb({})
    BY <1>0, <1>4 DEF AssetWrite, Register!Become
  <2>2. life'[c] = [status |-> job[s].wants, deleted |-> FALSE]
    BY <1>1, <2>1 DEF MInv, TypeOK
  <2>3. \A a \in Assets : a # c => life'[a] = life[a]
    BY <2>1 DEF MInv, TypeOK
  <2>4. Pending(s) => Agree(c)'
    BY <1>0, <1>2, <2>1, <2>2 DEF Pending, Agree, Register!Alive
  <2> QED
    BY <1>0, <2>1, <2>3, <2>4, <1>1, LateKeeps, JobTypes
<1>5. CASE AssetConflict(s)
  <2>1. /\ job[s].step = "set" /\ job' = [job EXCEPT ![s] = Idle] /\ task' = task
        /\ life' = life /\ Disturb({}) /\ ~TransitionMatches(s)
    BY <1>5 DEF AssetConflict
  <2>2. ~Pending(s)
    BY <2>1 DEF Pending
  <2> QED
    BY <1>0, <2>1, <2>2, <1>1, LateKeeps, JobTypes
<1> QED
  BY <1>3, <1>4, <1>5

\* A failure after the commit disturbs the asset; one before it leaves the asset
\* agreeing with tasks that did not change.
LEMMA FailKeepsA ==
    ASSUME MInv, AssetInv, NEW s \in Sessions, Fail(s)
    PROVE  AssetInv'
<1>0. PICK c : c = job[s].asset
  OBVIOUS
<1>1. c \in Assets /\ job[s].step \in {"create", "read", "locked", "apply", "set"}
  BY <1>0 DEF Fail, MInv, TypeOK, Job, JobStep
<1>2. Idle.step = "idle" /\ Idle.step # "set" /\ Idle.step \in {"idle", "set"}
  BY JobTypes
<1>3. CASE job[s].step \in {"create", "read"}
  <2>1. job' = [job EXCEPT ![s] = Idle] /\ task' = task /\ life' = life /\ Disturb({})
    BY <1>3 DEF Fail
  <2> QED
    BY <1>3, <2>1, EarlyKeeps, JobTypes
<1>4. CASE job[s].step = "locked"
  <2>1. /\ job[s].step = "locked" /\ job' = [job EXCEPT ![s] = Idle] /\ task' = task
        /\ life' = life /\ Disturb({})
    BY <1>4 DEF Fail
  <2>2. Clean(c) /\ Busy(c) = {s} => Agree(c)
    BY <1>4 DEF Clean
  <2>3. Agree(c) => Agree(c)'
    BY <2>1 DEF Agree, Register!Alive, InProgress
  <2>4. Agree(c)' \/ ~(Clean(c) /\ Busy(c) = {s})
    BY <2>2, <2>3
  <2>5. {} \in SUBSET Assets /\ job[s].step \in {"locked", "apply", "set"}
    BY <1>4
  <2> QED
    BY <1>0, <1>1, <1>2, <2>1, <2>4, <2>5, LateKeeps
<1>5. CASE job[s].step \in {"apply", "set"}
  <2>1. /\ job' = [job EXCEPT ![s] = Idle] /\ task' = task /\ life' = life /\ Disturb({c})
    BY <1>0, <1>5 DEF Fail
  <2>2. {c} \in SUBSET Assets
    BY <1>1
  <2>3. job[s].step \in {"locked", "apply", "set"}
    BY <1>5
  <2> QED
    BY <1>0, <1>1, <1>2, <2>1, <2>2, <2>3, LateKeeps
<1> QED
  BY <1>1, <1>3, <1>4, <1>5

\* The register disturbs the asset it changes, and changes no other.
LEMMA RegisterKeepsA ==
    ASSUME MInv, AssetInv, NEW a \in Assets, RegisterStep(a)
    PROVE  AssetInv'
<1>1. UNCHANGED <<task, job>> /\ Disturb({a}) /\ life \in [Assets -> Register!Stage]
  BY DEF RegisterStep, MInv, TypeOK
<1>2. \A b \in Assets : b # a => life'[b] = life[b]
  BY <1>1 DEF RegisterStep, Register!Register, Register!Revise, Register!Delete,
     Register!Dispose, Register!Restore, Register!Become
<1>3. TaskOfAsset'
  BY <1>1 DEF AssetInv, TaskOfAsset
<1>4. \A b \in Assets \ (disturbed \cup {a}) : Clean(b)'
  <2> TAKE b \in Assets \ (disturbed \cup {a})
  <2>1. Clean(b) /\ Busy(b)' = Busy(b) /\ InProgress(b)' = InProgress(b)
    BY <1>1 DEF AssetInv, Busy, InProgress
  <2> QED
    BY <1>1, <1>2, <2>1, ApartClean
<1>5. \A b \in Assets \ disturbed' : Clean(b)'
  BY <1>1, <1>4, DisturbClean DEF MInv, TypeOK
<1> QED
  BY <1>3, <1>5 DEF AssetInv

-----------------------------------------------------------------------------
(* Theorems *)

\* The initial state satisfies the invariant.
LEMMA InitMInv == Init => MInv
<1> SUFFICES ASSUME Init PROVE MInv
  OBVIOUS
<1>1. life \in [Assets -> Register!Stage] /\ filed \in [Assets -> Nat]
  BY DEF Init, Register!Init, Register!Stage, Register!Absent
<1>2. task \in [Tasks -> Task] /\ job \in [Sessions -> Job] /\ disturbed \subseteq Assets
  BY JobTypes DEF Init, Task
<1>3. RequestInv
  BY JobTypes DEF Init, RequestInv
<1> QED
  BY <1>1, <1>2, <1>3 DEF MInv, TypeOK

\* Every step keeps the invariant.
LEMMA NextMInv == MInv /\ [Next]_vars => MInv'
<1> SUFFICES ASSUME MInv, [Next]_vars PROVE MInv'
  OBVIOUS
<1>1. ASSUME NEW a \in Assets, RegisterStep(a) PROVE MInv'
  BY <1>1, RegisterKeeps
<1>2. ASSUME NEW s \in Sessions, NEW t \in Tasks, NEW a \in Assets, CreateRead(s, t, a)
      PROVE  MInv'
  BY <1>2, CreateKeepsM
<1>3. ASSUME NEW s \in Sessions, NEW t \in Tasks, NEW to \in TaskStatus \cup {Keep},
             TaskRead(s, t, to)
      PROVE  MInv'
  BY <1>3, TaskStepKeeps
<1>4. ASSUME NEW s \in Sessions, Proceed(s) \/ Fail(s) PROVE MInv'
  BY <1>4, CreateKeepsM, TaskStepKeeps, CommitKeeps, AssetStepKeeps DEF Proceed
<1>5. CASE UNCHANGED vars
  BY <1>5 DEF vars, MInv, TypeOK, RequestInv
<1> QED
  BY <1>1, <1>2, <1>3, <1>4, <1>5 DEF Next

\* Every variable keeps its type, for any number of assets, tasks and requests.
THEOREM MaintenanceTyping == Spec => []TypeOK
<1>1. MInv => TypeOK
  BY DEF MInv
<1> QED
  BY <1>1, InitMInv, NextMInv, PTL DEF Spec

\* A task is completed once: the commit of a completion finds it open or in
\* progress, whatever ran since the completion read it (the status compared in
\* the WHERE clause of completeMaintenanceService).
THEOREM CompletedOnceHolds == Spec => CompletedOnce
<1>1. MInv => [\A s \in Sessions :
         job[s].step = "locked" /\ job'[s] # job[s] /\ task' # task /\ job[s].to = "completed"
         => task[job[s].task].status \in {"open", "in_progress"}]_vars
  BY DEF MInv, RequestInv
<1> QED
  BY <1>1, InitMInv, NextMInv, PTL DEF Spec, CompletedOnce

\* The write that follows a task's commit changes an asset in service only
\* (the status compared in the WHERE clause of transitionAssetStatus).
THEOREM SparesRetiredHolds == Spec => SparesRetired
<1>1. MInv /\ [Next]_vars => [\A s \in Sessions, a \in Assets :
         job[s].step = "set" /\ job'[s] # job[s] /\ life'[a] # life[a]
         => ~life[a].deleted /\ life[a].status \in Register!Working]_vars
  <2> SUFFICES ASSUME MInv, Next, NEW s \in Sessions, NEW a \in Assets,
                      job[s].step = "set", job'[s] # job[s], life'[a] # life[a]
               PROVE  ~life[a].deleted /\ life[a].status \in Register!Working
    BY DEF vars
  <2>1. job \in [Sessions -> Job] /\ life \in [Assets -> Register!Stage]
    BY DEF MInv, TypeOK
  <2>2. PICK u \in Sessions : AssetWrite(u)
    BY DEF Next, RegisterStep, CreateRead, TaskRead, Proceed, CreateInsert, TaskUpdate,
       TaskConflict, TaskCommit, AssetRead, AssetConflict, Fail
  <2>3. u = s
    BY <2>1, <2>2 DEF AssetWrite
  <2>4. a = job[s].asset
    BY <2>1, <2>2, <2>3 DEF AssetWrite, Register!Become
  <2> QED
    BY <2>1, <2>2, <2>3, <2>4 DEF AssetWrite, TransitionMatches, Register!Alive, Job
<1> QED
  BY <1>1, InitMInv, NextMInv, PTL DEF Spec, SparesRetired

\* No request and no task: every asset agrees initially, as none is in service.
LEMMA InitAssetInv == Init => AssetInv
<1> SUFFICES ASSUME Init PROVE AssetInv
  OBVIOUS
<1>1. \A s \in Sessions : job[s].step = "idle"
  BY JobTypes DEF Init
<1>2. \A a \in Assets : Busy(a) = {} /\ Agree(a)
  BY <1>1 DEF Init, Register!Init, Register!Absent, Busy, Agree, Register!Alive
<1> QED
  BY <1>1, <1>2 DEF AssetInv, TaskOfAsset, Clean

\* Every step keeps assets and tasks in agreement.
LEMMA NextAssetInv == MInv /\ AssetInv /\ [Next]_vars => AssetInv'
<1> SUFFICES ASSUME MInv, AssetInv, [Next]_vars PROVE AssetInv'
  OBVIOUS
<1>1. ASSUME NEW a \in Assets, RegisterStep(a) PROVE AssetInv'
  BY <1>1, RegisterKeepsA
<1>2. ASSUME NEW s \in Sessions, NEW t \in Tasks,
             \/ \E a \in Assets : CreateRead(s, t, a)
             \/ \E to \in TaskStatus \cup {Keep} : TaskRead(s, t, to)
      PROVE  AssetInv'
  BY <1>2, ReadKeepsA
<1>3. ASSUME NEW s \in Sessions, Proceed(s) \/ Fail(s) PROVE AssetInv'
  BY <1>3, ReadKeepsA, InsertKeepsA, UpdateKeepsA, CommitKeepsA, AssetKeepsA, FailKeepsA
     DEF Proceed
<1>4. CASE UNCHANGED vars
  <2>1. \A a \in Assets \ disturbed : Clean(a)'
    <3> TAKE a \in Assets \ disturbed
    <3>1. Clean(a) /\ Busy(a)' = Busy(a) /\ InProgress(a)' = InProgress(a)
      BY <1>4 DEF vars, AssetInv, Busy, InProgress
    <3> QED
      BY <1>4, <3>1, ApartClean DEF vars
  <2> QED
    BY <1>4, <2>1 DEF vars, AssetInv, TaskOfAsset
<1> QED
  BY <1>1, <1>2, <1>3, <1>4 DEF Next

\* An asset in service is in maintenance exactly when one of its tasks is in
\* progress, once no request is past its UPDATE and unless two requests overlapped
\* there, one failed after its commit, or the register changed the asset, for any
\* number of assets, tasks and requests (updateMaintenanceService and
\* completeMaintenanceService, which look for a sibling task in progress).
THEOREM RestingAssetsAgreeHolds == Spec => []RestingAssetsAgree
<1>1. MInv /\ AssetInv => RestingAssetsAgree
  BY DEF AssetInv, Clean, RestingAssetsAgree
<1> QED
  BY <1>1, InitMInv, NextMInv, InitAssetInv, NextAssetInv, PTL DEF Spec

=============================================================================
