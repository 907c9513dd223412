----------------------------- MODULE Reminders -----------------------------
(***************************************************************************)
(* The daily reminders (jobs/, queue/, worker.ts, repositories/scheduler,  *)
(* notifyMaintenanceDueSoonService).                                       *)
(*                                                                         *)
(* The scheduler of every process fires once a day.  With Redis it adds a  *)
(* job to a queue that workers work through, each one job at a time;       *)
(* without, it runs the job itself.  A run lists the organizations, then   *)
(* reminds of what is due in each.  Nothing records that a reminder was    *)
(* sent: what is due is due again the next day, for every process, and     *)
(* for a job that is worked off again.                                     *)
(***************************************************************************)
EXTENDS Naturals, FiniteSets

CONSTANTS
    Processes,
    Workers,  \* worker processes
    Orgs,
    Items,    \* tasks with an assignee, or assets with a warranty
    Home,     \* the organization of each
    Days      \* bound on the days

VARIABLES
    queued,   \* hasRedis
    day,
    ring,     \* each process: "down", "up", or "ringing" when its cron is to fire
    waiting,  \* the queue: firings whose job waits
    stalls,   \* how often BullMQ found the job of a firing stalled
    run,      \* what each process and each worker runs
    due,      \* what is due within daysAhead
    sent,     \* history: how often a firing reminded of an item
    owed      \* history: items due when a scheduler fired, not yet sent, given up or not due

vars == <<queued, day, ring, waiting, stalls, run, due, sent, owed>>
schedule == <<queued, day, ring>>
queue == <<waiting, stalls>>

-----------------------------------------------------------------------------

\* A process's cron on a day; the job it adds to the queue is known by it.
Firings == Processes \X (1..Days)

\* BullMQ: maxStalledCount
MaxStalled == 1

Runners == Processes \cup Workers
Idle    == [step |-> "idle", of |-> <<>>, lock |-> FALSE, orgs |-> {}, items |-> {}]
Of(o)   == {i \in Items : Home[i] = o}
Running(x) == run[x].step # "idle"
Set(x, r)  == run' = [run EXCEPT ![x] = r]

\* A run for firing f; a worker has its job's lock.
Begin(f, locked) == [Idle EXCEPT !.step = "list", !.of = f, !.lock = locked]

\* The firing may still remind of the item: its job waits, or a run has yet to come to it.
Will(x, i) == run[x].step = "list" \/ Home[i] \in run[x].orgs \/ i \in run[x].items
Coming(f, i) == f \in waiting \/ \E x \in Runners : run[x].of = f /\ Will(x, i)

\* What run x failed to remind of is lost, unless another run of its firing comes to it.
GiveUp(x, I) == LET f == run[x].of IN
    owed' = {w \in owed : w[1] = f /\ w[2] \in I => Coming(f, w[2])'}

-----------------------------------------------------------------------------
(* The schedulers *)

\* startScheduler, once a process has done with seeding.
StartScheduler(p) ==
    /\ ring[p] = "down"
    /\ ring' = [ring EXCEPT ![p] = "up"]
    /\ UNCHANGED <<queued, day, queue, run, due, sent, owed>>

\* A process stops, and what it was running ends.
StopProcess(p) ==
    /\ ring[p] # "down"
    /\ ring' = [ring EXCEPT ![p] = "down"]
    /\ Set(p, Idle)
    /\ UNCHANGED <<queued, day, queue, due, sent>>
    /\ GiveUp(p, Items)

\* cronExpression: the same hour in every process.  A run takes less than a day.
NewDay ==
    /\ day < Days
    /\ \A p \in Processes : ring[p] # "ringing" /\ ~Running(p)
    /\ day' = day + 1
    /\ ring' = [p \in Processes |-> IF ring[p] = "up" THEN "ringing" ELSE ring[p]]
    /\ UNCHANGED <<queued, queue, run, due, sent, owed>>

Fires(p) ==
    /\ ring[p] = "ringing"
    /\ ring' = [ring EXCEPT ![p] = "up"]
    /\ owed' = owed \cup ({<<p, day>>} \X due)
    /\ UNCHANGED <<queued, day, stalls, due, sent>>

\* queue.add
Add(f) == waiting' = waiting \cup {f}

\* Mutant: no return after queue.add.
EnqueueOrRunBoth(p) ==
    /\ Fires(p)
    /\ IF queued THEN Add(<<p, day>>) ELSE UNCHANGED waiting
    /\ Set(p, Begin(<<p, day>>, FALSE))

\* enqueueOrRun
EnqueueOrRun(p) ==
    /\ Fires(p)
    /\ IF queued THEN Add(<<p, day>>) /\ UNCHANGED run
       ELSE Set(p, Begin(<<p, day>>, FALSE)) /\ UNCHANGED waiting

\* queue.add fails: logged.
NotEnqueued(p) ==
    /\ queued /\ ring[p] = "ringing"
    /\ ring' = [ring EXCEPT ![p] = "up"]
    /\ UNCHANGED <<queued, day, queue, run, due, sent, owed>>

-----------------------------------------------------------------------------
(* The workers: BullMQ with concurrency 1, one attempt and its defaults for stalls *)

TakeJob(w, f) ==
    /\ f \in waiting /\ ~Running(w)
    /\ waiting' = waiting \ {f}
    /\ Set(w, Begin(f, TRUE))
    /\ UNCHANGED <<schedule, stalls, due, sent, owed>>

\* A job whose lock lapsed is queued again, or has failed when it stalled before.
Stall(f) ==
    IF stalls[f] < MaxStalled
    THEN Add(f) /\ stalls' = [stalls EXCEPT ![f] = @ + 1]
    ELSE UNCHANGED queue

\* A worker stops within a job; the lock, if it still had it, lapses.
StopWorker(w) ==
    /\ Running(w)
    /\ Set(w, Idle)
    /\ IF run[w].lock THEN Stall(run[w].of) ELSE UNCHANGED queue
    /\ UNCHANGED <<schedule, due, sent>>
    /\ GiveUp(w, Items)

\* A worker does not renew its lock in time and knows nothing of it: it goes on.
LoseLock(w) ==
    /\ run[w].lock
    /\ Set(w, [run[w] EXCEPT !.lock = FALSE])
    /\ Stall(run[w].of)
    /\ UNCHANGED <<schedule, due, sent, owed>>

-----------------------------------------------------------------------------
(* runWarrantyExpiryJob, runMaintenanceDueJob *)

\* getActiveOrganizations
ListOrgs(x) ==
    /\ run[x].step = "list"
    /\ Set(x, [run[x] EXCEPT !.step = "orgs", !.orgs = Orgs])
    /\ UNCHANGED <<schedule, queue, due, sent, owed>>

\* Thrown again: this run reminds nobody.
ListFails(x) ==
    /\ run[x].step = "list"
    /\ Set(x, Idle)
    /\ UNCHANGED <<schedule, queue, due, sent>>
    /\ GiveUp(x, Items)

NextOrg(x, o) == run[x].step = "orgs" /\ run[x].items = {} /\ o \in run[x].orgs

\* getAssetsWithExpiringWarranties, or the SELECT of notifyMaintenanceDueSoonService
TakeOrg(x, o) ==
    /\ NextOrg(x, o)
    /\ Set(x, [run[x] EXCEPT !.orgs = @ \ {o}, !.items = Of(o) \cap due])
    /\ UNCHANGED <<schedule, queue, due, sent, owed>>

\* Mutant: the error of one organization ends the run.
OrgFailsAll(x, o) ==
    /\ NextOrg(x, o)
    /\ Set(x, Idle)
    /\ UNCHANGED <<schedule, queue, due, sent>>
    /\ GiveUp(x, Of(o))

\* "Failed to process org"
OrgFails(x, o) ==
    /\ NextOrg(x, o)
    /\ Set(x, [run[x] EXCEPT !.orgs = @ \ {o}])
    /\ UNCHANGED <<schedule, queue, due, sent>>
    /\ GiveUp(x, Of(o))

\* createInAppNotification, notifyWarrantyExpiringSoon: sent, or the error caught.
Remind(x, i) ==
    /\ i \in run[x].items
    /\ Set(x, [run[x] EXCEPT !.items = @ \ {i}])
    /\ UNCHANGED <<schedule, queue, due>>
    /\ \/ sent' = [sent EXCEPT ![run[x].of][i] = @ + 1] /\ owed' = owed \ {<<run[x].of, i>>}
       \/ UNCHANGED sent /\ GiveUp(x, {i})

EndRun(x) ==
    /\ run[x].step = "orgs" /\ run[x].orgs = {} /\ run[x].items = {}
    /\ Set(x, Idle)
    /\ UNCHANGED <<schedule, queue, due, sent, owed>>

-----------------------------------------------------------------------------

\* A task is completed or given to nobody, a warranty runs out.
Resolve(i) ==
    /\ i \in due
    /\ due' = due \ {i}
    /\ owed' = owed \ (Firings \X {i})
    /\ UNCHANGED <<schedule, queue, run, sent>>

\* A task comes within its last days, or gets a new date.
ComeDue(i) ==
    /\ i \notin due
    /\ due' = due \cup {i}
    /\ UNCHANGED <<schedule, queue, run, sent, owed>>

Init ==
    /\ queued \in BOOLEAN
    /\ day = 0
    /\ ring = [p \in Processes |-> "down"]
    /\ waiting = {}
    /\ stalls = [f \in Firings |-> 0]
    /\ run = [x \in Runners |-> Idle]
    /\ due \in SUBSET Items
    /\ sent = [f \in Firings |-> [i \in Items |-> 0]]
    /\ owed = {}

Work(x) ==
    \/ ListOrgs(x) \/ ListFails(x) \/ EndRun(x)
    \/ \E o \in Orgs : TakeOrg(x, o) \/ OrgFails(x, o)
    \/ \E i \in Items : Remind(x, i)

Next ==
    \/ NewDay
    \/ \E p \in Processes : StartScheduler(p) \/ StopProcess(p) \/ EnqueueOrRun(p) \/ NotEnqueued(p)
    \/ \E w \in Workers : StopWorker(w) \/ LoseLock(w) \/ \E f \in Firings : TakeJob(w, f)
    \/ \E x \in Runners : Work(x)
    \/ \E i \in Items : Resolve(i) \/ ComeDue(i)

\* A run goes on: the database answers or fails.  A worker is there for the queue.
Fairness ==
    /\ \A w \in Workers : WF_vars(\E f \in Firings : TakeJob(w, f))
    /\ \A x \in Runners : WF_vars(Work(x))

Spec == Init /\ [][Next]_vars /\ Fairness

-----------------------------------------------------------------------------
(* Properties *)

\* A firing reminds of an item once, in whatever process it is worked off, and once
\* more only when its own job stalled, however many jobs, workers and stalls there are.
OncePerFiring ==
    /\ run \in [Runners -> [step: {"idle", "list", "orgs"}, of: Firings \cup {<<>>},
                            lock: BOOLEAN, orgs: SUBSET Orgs, items: SUBSET Items]]
    /\ stalls \in [Firings -> 0..MaxStalled]
    /\ \A f \in Firings, i \in Items : sent[f][i] <= 1 + stalls[f]

\* What is due when a scheduler fires is reminded of, unless it is no longer due or every
\* run for the firing fails at something it depends on: its own notification or organization,
\* or the whole run.  The failure of another organization is not among these.
RemindersArrive == \A f \in Firings, i \in Items : <<f, i>> \in owed ~> <<f, i>> \notin owed

=============================================================================
