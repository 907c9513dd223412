---------------------------- MODULE AssetRegister ----------------------------
(***************************************************************************)
(* The asset register: rows of the table assets, changed by requests that  *)
(* run concurrently (repositories/assets.ts, repositories/bulk.ts).        *)
(*                                                                         *)
(* Most repository functions first SELECT the row and then UPDATE it under *)
(* a WHERE clause.  PostgreSQL runs them READ COMMITTED, so another        *)
(* request may commit between the two statements, inside one transaction   *)
(* or not.  A request is therefore two actions, <Op>Read and <Op>Write.    *)
(* The UPDATE holds its row lock until COMMIT and whatever else the        *)
(* transaction writes is committed with it, so UPDATE ... COMMIT is one    *)
(* step.  A failed WHERE clause, an SQL error or a crash rolls the         *)
(* transaction back (Conflict, Abandon).                                   *)
(*                                                                         *)
(* One organization is modelled: every statement filters on its id.        *)
(***************************************************************************)
EXTENDS Naturals, FiniteSets

CONSTANTS
    Assets,      \* ids of the rows that may be registered
    Sessions,    \* requests that may be in flight at the same time
    Users,       \* users an asset can be assigned to
    Branches,    \* branches an asset can be kept at
    None,        \* SQL NULL
    Keep         \* a field that is absent from the request's payload

VARIABLES
    registered,    \* ids of the rows inserted so far
    asset,         \* the row of each asset
    openDisposals, \* asset_disposals rows inserted since the asset was last in service
    bornDisposed,  \* assets registered as disposed and not in service since
    logged,        \* the asset_lifecycle_events row of each asset inserted by the last step
    job            \* the request each session is running

vars == <<registered, asset, openDisposals, bornDisposed, logged, job>>

-----------------------------------------------------------------------------
(* Rows, payloads, events and requests *)

InService == {"active", "maintenance"}
Status    == InService \cup {"disposed"}

Row == [status: Status, deleted: BOOLEAN,
        branchId: Branches \cup {None}, assignedTo: Users \cup {None}]

Payload == [status: InService \cup {Keep},
            branchId: Branches \cup {Keep}, assignedTo: Users \cup {Keep}]

EventType == {"registered", "updated", "assigned", "transferred",
              "status_changed", "disposed", "deleted", "restored", "noted"}

\* branchId and assignedTo are the custody before, as a transfer records it in
\* its event and in asset_transfers.
Event == [type: EventType, bulk: BOOLEAN,
          previousStatus: Status \cup {None}, newStatus: Status,
          branchId: Branches \cup {None}, assignedTo: Users \cup {None}]

SingleOps == {"update", "transfer", "transition", "dispose", "restore"}
BulkOps   == {"bulkDelete", "bulkTransfer", "bulkStatus"}

Job == [op: SingleOps \cup BulkOps \cup {"note", "idle"}, on: SUBSET Assets,
        seen: [Assets -> Row], payload: Payload]

BlankRow == [status |-> "active", deleted |-> FALSE, branchId |-> None, assignedTo |-> None]
NoChange == [status |-> Keep, branchId |-> Keep, assignedTo |-> Keep]
Idle     == [op |-> "idle", on |-> {}, seen |-> [a \in Assets |-> BlankRow],
             payload |-> NoChange]
NoEvent  == [type |-> "none"]
NoEvents == [a \in Assets |-> NoEvent]

\* None, Keep and the data values are told apart by the code (null and
\* undefined are neither uuids nor statuses).
ASSUME ValuesDistinct ==
    /\ None \notin Users \cup Branches \cup Status \cup {Keep}
    /\ Keep \notin Users \cup Branches \cup Status

-----------------------------------------------------------------------------
(* What the statements read and write *)

\* SELECT ... WHERE deleted_at IS NULL
Live(a) == a \in registered /\ ~asset[a].deleted

\* The SET list: only the fields present in the payload.
Patched(row, p) ==
    [row EXCEPT !.status     = IF p.status = Keep THEN @ ELSE p.status,
                !.branchId   = IF p.branchId = Keep THEN @ ELSE p.branchId,
                !.assignedTo = IF p.assignedTo = Keep THEN @ ELSE p.assignedTo]

\* Mutants: a WHERE clause that compares no status, or no custody.
MatchesAnyStatus(op, row, seen) ==
    IF op = "restore" THEN row.deleted \/ row.status = "disposed" ELSE ~row.deleted

MatchesAnyCustody(op, row, seen) ==
    /\ MatchesAnyStatus(op, row, seen)
    /\ op \in {"transfer", "transition", "dispose"} => row.status = seen.status

\* The WHERE clause of a single-asset UPDATE, on the current row, given the
\* row the request has seen.
Matches(op, row, seen) ==
    /\ op = "restore" => row.deleted \/ row.status = "disposed"
    /\ op # "restore" => ~row.deleted
    /\ op \in {"transfer", "transition", "dispose"} => row.status = seen.status
    /\ op = "transfer" => /\ row.branchId = seen.branchId
                          /\ row.assignedTo = seen.assignedTo

\* Mutant: a bulk UPDATE without deleted_at IS NULL.
BulkHitsDeleted(s) == job[s].on

\* The rows a bulk UPDATE touches: those of the request not deleted by now.
BulkHits(s) == {a \in job[s].on : ~asset[a].deleted}

LogEntry(type, bulk, previous, new, custody) ==
    [type |-> type, bulk |-> bulk, previousStatus |-> previous, newStatus |-> new,
     branchId |-> custody.branchId, assignedTo |-> custody.assignedTo]

\* A request has read the rows of S and goes on to write.
Start(s, op, S, p) ==
    /\ job[s].op = "idle"
    /\ job' = [job EXCEPT ![s] =
                 [op |-> op, on |-> S, payload |-> p,
                  seen |-> [a \in Assets |-> IF a \in S THEN asset[a] ELSE BlankRow]]]
    /\ logged' = NoEvents
    /\ UNCHANGED <<registered, asset, openDisposals, bornDisposed>>

Finish(s) == job' = [job EXCEPT ![s] = Idle]

\* History: the disposal records filed since an asset was last in service.
\* filed is the set of assets this step inserts an asset_disposals row for.
TrackDisposals(filed) ==
    /\ openDisposals' = [a \in Assets |->
         IF asset'[a].status # "disposed" THEN 0
         ELSE IF a \in filed THEN openDisposals[a] + 1 ELSE openDisposals[a]]
    /\ bornDisposed' = {a \in bornDisposed : asset'[a].status = "disposed"}

-----------------------------------------------------------------------------
(* Registration: createAsset, bulkCreateAssetsAtomic *)

\* The insert accepts any status, "disposed" included.
CreateAssets(new) ==
    /\ registered' = registered \cup DOMAIN new
    /\ asset' = [a \in Assets |-> IF a \in DOMAIN new THEN new[a] ELSE asset[a]]
    /\ logged' = [a \in Assets |->
         IF a \in DOMAIN new
         THEN LogEntry("registered", FALSE, None, new[a].status, new[a])
         ELSE NoEvent]
    /\ bornDisposed' = bornDisposed \cup {a \in DOMAIN new : new[a].status = "disposed"}
    /\ UNCHANGED <<openDisposals, job>>

\* The rows an insert may leave: never deleted.
FreshRow == {r \in Row : ~r.deleted}

CreateAsset(a) ==
    /\ a \notin registered
    /\ \E r \in FreshRow : CreateAssets([x \in {a} |-> r])

BulkCreate(S) ==
    /\ S \cap registered = {}
    /\ \E new \in [S -> FreshRow] : CreateAssets(new)

-----------------------------------------------------------------------------
(* Single-asset operations *)

\* One statement commits the row and what goes with it in the transaction.
WriteOne(s, a, row, filed, event) ==
    /\ Matches(job[s].op, asset[a], job[s].seen[a])
    /\ asset' = [asset EXCEPT ![a] = row]
    /\ TrackDisposals(filed)
    /\ logged' = [NoEvents EXCEPT ![a] = event]
    /\ Finish(s)
    /\ UNCHANGED registered

\* updateAssetById.  updateAssetService refuses the status "disposed".
UpdateRead(s, a) ==
    /\ Live(a)
    /\ \E p \in Payload : Start(s, "update", {a}, p)

UpdateWrite(s) ==
    /\ job[s].op = "update"
    /\ \E a \in job[s].on :
         LET seen == job[s].seen[a]
             row  == Patched(asset[a], job[s].payload)
             type == IF row.assignedTo # seen.assignedTo THEN "assigned"
                     ELSE IF row.status # seen.status THEN "status_changed"
                     ELSE "updated"
         IN  WriteOne(s, a, row, {}, LogEntry(type, FALSE, seen.status, row.status, seen))

\* softDeleteAssetById: a single statement, no status check.
SoftDelete(a) ==
    /\ Live(a)
    /\ asset' = [asset EXCEPT ![a].deleted = TRUE]
    /\ logged' = [NoEvents EXCEPT ![a] =
         LogEntry("deleted", FALSE, asset[a].status, asset[a].status, asset[a])]
    /\ UNCHANGED <<registered, openDisposals, bornDisposed, job>>

\* transferAsset: refused when it would change neither branch nor assignee;
\* a disposed asset is not refused.
TransferRead(s, a) ==
    /\ Live(a)
    /\ \E p \in Payload :
         /\ p.status = Keep
         /\ Patched(asset[a], p) # asset[a]
         /\ Start(s, "transfer", {a}, p)

TransferWrite(s) ==
    /\ job[s].op = "transfer"
    /\ \E a \in job[s].on :
         LET seen == job[s].seen[a]
             row  == Patched(seen, job[s].payload)
         IN  WriteOne(s, a, [asset[a] EXCEPT !.branchId = row.branchId,
                                             !.assignedTo = row.assignedTo],
                      {}, LogEntry("transferred", FALSE, seen.status, asset[a].status, seen))

\* transitionAssetStatus, called by the maintenance service after its commit.
TransitionRead(s, a) ==
    /\ Live(a)
    /\ asset[a].status # "disposed"
    /\ \E st \in InService : Start(s, "transition", {a}, [NoChange EXCEPT !.status = st])

TransitionWrite(s) ==
    /\ job[s].op = "transition"
    /\ \E a \in job[s].on :
         LET seen == job[s].seen[a]
             row  == Patched(asset[a], job[s].payload)
         IN  WriteOne(s, a, row, {},
                      LogEntry("status_changed", FALSE, seen.status, row.status, seen))

\* disposeAssetById: the asset_disposals row is inserted before the UPDATE and
\* rolled back with it when the WHERE clause no longer holds.
DisposeRead(s, a) ==
    /\ Live(a)
    /\ asset[a].status # "disposed"
    /\ Start(s, "dispose", {a}, NoChange)

DisposeWrite(s) ==
    /\ job[s].op = "dispose"
    /\ \E a \in job[s].on :
         LET seen == job[s].seen[a]
         IN  WriteOne(s, a, [asset[a] EXCEPT !.status = "disposed", !.assignedTo = None],
                      {a}, LogEntry("disposed", FALSE, seen.status, "disposed", seen))

\* restoreAssetById: for a deleted or a disposed asset.
RestoreRead(s, a) ==
    /\ a \in registered
    /\ asset[a].deleted \/ asset[a].status = "disposed"
    /\ \E st \in InService : Start(s, "restore", {a}, [NoChange EXCEPT !.status = st])

RestoreWrite(s) ==
    /\ job[s].op = "restore"
    /\ \E a \in job[s].on :
         LET seen == job[s].seen[a]
             st   == job[s].payload.status
         IN  WriteOne(s, a, [asset[a] EXCEPT !.status = st, !.deleted = FALSE],
                      {}, LogEntry("restored", FALSE, seen.status, st, seen))

\* The WHERE clause matches no row: ConflictError, the transaction rolls back.
Conflict(s) ==
    /\ job[s].op \in SingleOps
    /\ \E a \in job[s].on : ~Matches(job[s].op, asset[a], job[s].seen[a])
    /\ Finish(s)
    /\ logged' = NoEvents
    /\ UNCHANGED <<registered, asset, openDisposals, bornDisposed>>

\* recordAssetLifecycleEvent, and the event of recordAssetDepreciation: SELECT,
\* then INSERT with the status read.
NoteRead(s, a) == Live(a) /\ Start(s, "note", {a}, NoChange)

NoteWrite(s) ==
    /\ job[s].op = "note"
    /\ \E a \in job[s].on :
         LET st == job[s].seen[a].status
         IN  logged' = [NoEvents EXCEPT ![a] =
                             LogEntry("noted", FALSE, st, st, BlankRow)]
    /\ Finish(s)
    /\ UNCHANGED <<registered, asset, openDisposals, bornDisposed>>

-----------------------------------------------------------------------------
(* Bulk operations: the rows are read before the transaction begins *)

\* Those of S that the filters let through; S is the request's assetIds.
BulkFilter(S, op, p) ==
    {a \in S : /\ Live(a)
               /\ asset[a].status # "disposed"
               /\ op = "bulkStatus" => asset[a].status # p.status}

BulkRead(s, op, S, p) ==
    /\ BulkFilter(S, op, p) # {}
    /\ Start(s, op, BulkFilter(S, op, p), p)

\* Rows deleted meanwhile are skipped, but every asset of the request is logged.
BulkWrite(s, row, type) ==
    /\ asset' = [a \in Assets |-> IF a \in BulkHits(s) THEN row[a] ELSE asset[a]]
    /\ TrackDisposals({})
    /\ logged' = [a \in Assets |->
         IF a \in job[s].on
         THEN LET seen == job[s].seen[a]
              IN  LogEntry(type, TRUE, seen.status, Patched(seen, job[s].payload).status, seen)
         ELSE NoEvent]
    /\ Finish(s)
    /\ UNCHANGED registered

BulkDeleteRead(s, S) == BulkRead(s, "bulkDelete", S, NoChange)

BulkDeleteWrite(s) ==
    /\ job[s].op = "bulkDelete"
    /\ BulkWrite(s, [a \in Assets |-> [asset[a] EXCEPT !.deleted = TRUE]], "deleted")

BulkTransferRead(s, S) ==
    \E p \in Payload : /\ p.status = Keep
                       /\ p # NoChange
                       /\ BulkRead(s, "bulkTransfer", S, p)

BulkTransferWrite(s) ==
    /\ job[s].op = "bulkTransfer"
    /\ BulkWrite(s, [a \in Assets |-> Patched(asset[a], job[s].payload)], "transferred")

BulkStatusRead(s, S) ==
    \E st \in InService : BulkRead(s, "bulkStatus", S, [NoChange EXCEPT !.status = st])

BulkStatusWrite(s) ==
    /\ job[s].op = "bulkStatus"
    /\ BulkWrite(s, [a \in Assets |-> Patched(asset[a], job[s].payload)], "status_changed")

-----------------------------------------------------------------------------

\* A crash or a database error before the commit: nothing is written.
Abandon(s) ==
    /\ job[s].op # "idle"
    /\ Finish(s)
    /\ logged' = NoEvents
    /\ UNCHANGED <<registered, asset, openDisposals, bornDisposed>>

Init ==
    /\ registered = {}
    /\ asset = [a \in Assets |-> BlankRow]
    /\ openDisposals = [a \in Assets |-> 0]
    /\ bornDisposed = {}
    /\ logged = NoEvents
    /\ job = [s \in Sessions |-> Idle]

Read(s, a) ==
    \/ UpdateRead(s, a)     \/ TransferRead(s, a) \/ TransitionRead(s, a)
    \/ DisposeRead(s, a)    \/ RestoreRead(s, a)  \/ NoteRead(s, a)

Write(s) ==
    \/ UpdateWrite(s)       \/ TransferWrite(s)   \/ TransitionWrite(s)
    \/ DisposeWrite(s)      \/ RestoreWrite(s)    \/ NoteWrite(s)
    \/ BulkDeleteWrite(s)   \/ BulkTransferWrite(s) \/ BulkStatusWrite(s)

BulkOpRead(s, S) ==
    BulkDeleteRead(s, S) \/ BulkTransferRead(s, S) \/ BulkStatusRead(s, S)

Next ==
    \/ \E a \in Assets : CreateAsset(a) \/ SoftDelete(a)
    \/ \E S \in SUBSET Assets : S # {} /\ BulkCreate(S)
    \/ \E s \in Sessions, a \in Assets : Read(s, a)
    \/ \E s \in Sessions, S \in SUBSET Assets : BulkOpRead(s, S)
    \/ \E s \in Sessions : Write(s) \/ Conflict(s) \/ Abandon(s)

Spec == Init /\ [][Next]_vars

-----------------------------------------------------------------------------
(* Properties *)

\* The step in which the request of s ends and logs an event for a.
Logs(s, a) == job'[s] # job[s] /\ a \in job[s].on /\ logged'[a] # NoEvent

\* Every variable stays in its domain.
TypeOK ==
    /\ registered \subseteq Assets
    /\ asset \in [Assets -> Row]
    /\ openDisposals \in [Assets -> Nat]
    /\ bornDisposed \subseteq registered
    /\ logged \in [Assets -> Event \cup {NoEvent}]
    /\ job \in [Sessions -> Job]

\* The disposal ledger matches the register: since it was last in service, an
\* asset has at most one asset_disposals row, and a disposed asset has exactly
\* one unless it was registered as disposed.  Two disposals of one asset that
\* race, or a disposal racing any other operation, never file two records
\* (disposeAssetById compares the status it read and rolls the record back).
DisposalLedger ==
    \A a \in Assets :
        /\ openDisposals[a] <= 1
        /\ asset[a].status = "disposed" /\ a \notin bornDisposed => openDisposals[a] = 1

\* A soft-deleted asset is frozen: whatever requests were in flight when it was
\* deleted, only a restore that brings it back to service changes its row.
DeletedIsFrozen ==
    [][\A a \in registered :
         asset[a].deleted /\ asset'[a] # asset[a] =>
             /\ ~asset'[a].deleted
             /\ asset'[a].status \in InService
             /\ asset'[a].assignedTo = asset[a].assignedTo
             /\ logged'[a].type = "restored"]_vars

\* What a transfer, a status transition or a disposal writes in the timeline is
\* what really happened: the status and, for a transfer, the custody it says the
\* asset had are those of the row the instant before, never those of a stale read.
CheckedEventsAreExact ==
    [][\A s \in Sessions, a \in Assets :
         Logs(s, a) /\ job[s].op \in {"transfer", "transition", "dispose"}
         => /\ logged'[a].previousStatus = asset[a].status
            /\ logged'[a].newStatus = asset'[a].status
            /\ job[s].op = "transfer" =>
                 /\ logged'[a].branchId = asset[a].branchId
                 /\ logged'[a].assignedTo = asset[a].assignedTo]_vars

\* The register implements AssetLifecycle: seen from outside, every request takes
\* effect at once, whatever it read and however late it writes.
Lifecycle == INSTANCE AssetLifecycle WITH
    life  <- [a \in Assets |->
                IF a \in registered
                THEN [status |-> asset[a].status, deleted |-> asset[a].deleted]
                ELSE [status |-> "absent", deleted |-> FALSE]],
    filed <- openDisposals

ImplementsLifecycle == Lifecycle!Spec

\* Claimed by the refusal "Cannot update status of a disposed asset" of
\* bulkUpdateAssetStatus: a bulk status update never changes a disposed row.
BulkSparesDisposed ==
    [][\A s \in Sessions, a \in Assets :
         Logs(s, a) /\ job[s].op = "bulkStatus" /\ asset'[a] # asset[a]
         => asset[a].status # "disposed"]_vars

=============================================================================
