------------------------------ MODULE Approvals ------------------------------
(***************************************************************************)
(* Approval of disposals and transfers (services/approvals.service.ts,     *)
(* repositories/approvals.ts, the disposals of services/bulk.service.ts).  *)
(*                                                                         *)
(* A request for approval reads the asset, looks for a pending approval    *)
(* and inserts one: three statements.  A decision reads the approval,      *)
(* updates it where it is still pending, carries it out on the asset in a  *)
(* transaction of its own and tells the requester: four steps.  Other      *)
(* requests run, and the request may fail, between any two of them.  The   *)
(* register is the abstract AssetLifecycle, which AssetRegister            *)
(* implements: carrying out a disposal is one step of it.                  *)
(***************************************************************************)
EXTENDS Naturals, FiniteSets

CONSTANTS
    Assets,     \* ids of assets
    Approvals,  \* ids of approval requests
    Sessions    \* requests that may be in flight at the same time

VARIABLES
    life, filed,  \* the register, as AssetLifecycle has it
    approval,     \* the row of each approval
    job,          \* the request each session is running
    executed,     \* history: how often each approval was carried out on its asset
    told,         \* history: the outcomes its requester was told
    excused       \* history: approvals decided but not carried out or told, for a reason

vars == <<life, filed, approval, job, executed, told, excused>>

Register == INSTANCE AssetLifecycle

-----------------------------------------------------------------------------
(* Rows and requests *)

Type     == {"disposal", "transfer"}
Decision == {"approved", "rejected"}

Row  == [asset: Assets, type: Type, status: {"pending"} \cup Decision]
NoRow == [status |-> "none"]

\* ask: asset read;  insert: no pending approval found;  decide: approval read;
\* execute: decision recorded as approved;  tell: outcome to be told.
IdleJob   == [step: {"idle"}]
AskJob    == [step: {"ask", "insert"}, asset: Assets, type: Type]
DecideJob == [step: {"decide", "execute", "tell"}, on: Approvals, decision: Decision]
Job  == IdleJob \cup AskJob \cup DecideJob
Idle == [step |-> "idle"]

Exists(p)  == approval[p] # NoRow
Deciding(s, p) == job[s].step \in {"execute", "tell"} /\ job[s].on = p

Go(s, j) == job' = [job EXCEPT ![s] = j]

-----------------------------------------------------------------------------
(* requestDisposalApprovalService, requestTransferApprovalService *)

\* The asset is read by id alone: a deleted one is accepted.  A bulk disposal
\* of a costly asset comes here too.
RequestRead(s, a, type) ==
    /\ job[s].step = "idle"
    /\ life[a].status \in Register!Working
    /\ Go(s, [step |-> "ask", asset |-> a, type |-> type])
    /\ UNCHANGED <<life, filed, approval, executed, told, excused>>

FindPending(a, type) ==
    {p \in Approvals : approval[p] = [asset |-> a, type |-> type, status |-> "pending"]}

\* "A pending disposal approval already exists for this asset" ends the request.
RequestCheck(s) ==
    /\ job[s].step = "ask"
    /\ Go(s, IF FindPending(job[s].asset, job[s].type) # {} THEN Idle
             ELSE [job[s] EXCEPT !.step = "insert"])
    /\ UNCHANGED <<life, filed, approval, executed, told, excused>>

RequestInsert(s) ==
    /\ job[s].step = "insert"
    /\ \E p \in Approvals :
         /\ ~Exists(p)
         /\ approval' = [approval EXCEPT ![p] = [asset |-> job[s].asset, type |-> job[s].type,
                                                 status |-> "pending"]]
    /\ Go(s, Idle)
    /\ UNCHANGED <<life, filed, executed, told, excused>>

-----------------------------------------------------------------------------
(* decideDisposalApprovalService, decideTransferApprovalService *)

\* The approval must be pending, and of the type the endpoint decides on.
DecideRead(s, p, decision) ==
    /\ job[s].step = "idle"
    /\ Exists(p)
    /\ approval[p].status = "pending"
    /\ Go(s, [step |-> "decide", on |-> p, decision |-> decision])
    /\ UNCHANGED <<life, filed, approval, executed, told, excused>>

\* Mutant: decideApproval without status = 'pending' in its WHERE clause.
StillThere(p) == approval[p].status # "none"

StillPending(p) == approval[p].status = "pending"

\* decideApproval
DecideWrite(s) ==
    /\ job[s].step = "decide"
    /\ StillPending(job[s].on)
    /\ approval' = [approval EXCEPT ![job[s].on].status = job[s].decision]
    /\ Go(s, [job[s] EXCEPT !.step = IF job[s].decision = "approved" THEN "execute" ELSE "tell"])
    /\ UNCHANGED <<life, filed, executed, told, excused>>

\* "Approval was modified concurrently"
DecideConflict(s) ==
    /\ job[s].step = "decide"
    /\ ~StillPending(job[s].on)
    /\ Go(s, Idle)
    /\ UNCHANGED <<life, filed, approval, executed, told, excused>>

\* disposeAssetById
ExecuteDisposal(s) ==
    LET p == job[s].on
    IN  /\ job[s].step = "execute"
        /\ approval[p].type = "disposal"
        /\ Register!Dispose(approval[p].asset)
        /\ executed' = [executed EXCEPT ![p] = @ + 1]
        /\ Go(s, [job[s] EXCEPT !.step = "tell"])
        /\ UNCHANGED <<approval, told, excused>>

\* transferAsset, of any asset that is not deleted.
ExecuteTransfer(s) ==
    LET p == job[s].on
    IN  /\ job[s].step = "execute"
        /\ approval[p].type = "transfer"
        /\ Register!Alive(approval[p].asset)
        /\ executed' = [executed EXCEPT ![p] = @ + 1]
        /\ Go(s, [job[s] EXCEPT !.step = "tell"])
        /\ UNCHANGED <<life, filed, approval, told, excused>>

\* Mutant: goes on after an execution that did nothing, without noticing.
ExecuteSkipped(s) ==
    /\ job[s].step = "execute"
    /\ Go(s, [job[s] EXCEPT !.step = "tell"])
    /\ UNCHANGED <<life, filed, approval, executed, told, excused>>

\* The asset is deleted: the repository returns nothing, which the service does
\* not look at.
ExecuteNothing(s) ==
    LET p == job[s].on
    IN  /\ job[s].step = "execute"
        /\ life[approval[p].asset].deleted
        /\ excused' = excused \cup {p}
        /\ Go(s, [job[s] EXCEPT !.step = "tell"])
        /\ UNCHANGED <<life, filed, approval, executed, told>>

\* Mutant: stops without a word.
TellNobody(s) ==
    /\ job[s].step = "tell"
    /\ Go(s, Idle)
    /\ UNCHANGED <<life, filed, approval, executed, told, excused>>

\* createInAppNotification to the requester.
Tell(s) ==
    /\ job[s].step = "tell"
    /\ told' = [told EXCEPT ![job[s].on] = @ \cup {job[s].decision}]
    /\ Go(s, Idle)
    /\ UNCHANGED <<life, filed, approval, executed, excused>>

-----------------------------------------------------------------------------
(* Failures and the rest of the register *)

\* A crash or a database error at any step, and the ConflictError of an execution:
\* the asset is disposed already, was changed concurrently, or is where the
\* transfer would take it.  What has been committed stands.
Fail(s) ==
    /\ job[s].step # "idle"
    /\ excused' = IF job[s].step \in {"execute", "tell"} THEN excused \cup {job[s].on} ELSE excused
    /\ Go(s, Idle)
    /\ UNCHANGED <<life, filed, approval, executed, told>>

\* disposeAssetService, whatever the cost, and bulkDisposeAssetsService for an
\* asset below the threshold; above it the latter asks for approval (RequestRead).
DirectDispose(a) ==
    /\ Register!Dispose(a)
    /\ UNCHANGED <<approval, job, executed, told, excused>>

RegisterStep(a) ==
    /\ \/ Register!Register({a}) \/ Register!Revise({a}) \/ Register!Delete({a})
       \/ Register!Restore(a)
    /\ UNCHANGED <<approval, job, executed, told, excused>>

-----------------------------------------------------------------------------

Init ==
    /\ Register!Init
    /\ approval = [p \in Approvals |-> NoRow]
    /\ job = [s \in Sessions |-> Idle]
    /\ executed = [p \in Approvals |-> 0]
    /\ told = [p \in Approvals |-> {}]
    /\ excused = {}

\* What a request does next, by itself.
Proceed(s) ==
    \/ RequestCheck(s)    \/ RequestInsert(s)
    \/ DecideWrite(s)     \/ DecideConflict(s)
    \/ ExecuteDisposal(s) \/ ExecuteTransfer(s) \/ ExecuteNothing(s)
    \/ Tell(s)

Next ==
    \/ \E s \in Sessions : Proceed(s) \/ Fail(s)
    \/ \E s \in Sessions, a \in Assets, type \in Type : RequestRead(s, a, type)
    \/ \E s \in Sessions, p \in Approvals, d \in Decision : DecideRead(s, p, d)
    \/ \E a \in Assets : DirectDispose(a) \/ RegisterStep(a)

Spec == Init /\ [][Next]_vars

\* The database answers: a request goes on, or ends in an error when the
\* execution is refused.
FairSpec == Spec /\ \A s \in Sessions : WF_vars(Proceed(s) \/ Fail(s))

-----------------------------------------------------------------------------
(* Properties *)

\* Every variable stays in its domain.
TypeOK ==
    /\ life \in [Assets -> Register!Stage]
    /\ filed \in [Assets -> Nat]
    /\ approval \in [Approvals -> Row \cup {NoRow}]
    /\ job \in [Sessions -> Job]
    /\ executed \in [Approvals -> Nat]
    /\ told \in [Approvals -> SUBSET Decision]
    /\ excused \subseteq Approvals

\* An approval has one outcome, however many approvers decide on it at once: it
\* is carried out at most once and only if it ends up approved, and what the
\* requester is told is what the row says.
OneOutcome ==
    \A p \in Approvals :
        /\ executed[p] <= 1
        /\ executed[p] = 1 => approval[p].status = "approved"
        /\ told[p] \subseteq {approval[p].status}

\* An approved request does not get lost: once no decision on it is under way, it
\* has been carried out, or its asset was deleted, or the decision failed.
ApprovedIsExecuted ==
    \A p \in Approvals :
        /\ approval[p].status = "approved"
        /\ \A s \in Sessions : ~Deciding(s, p)
        => executed[p] = 1 \/ p \in excused

\* Every decision is told to the requester in the end, unless it failed.
DecisionIsTold ==
    \A p \in Approvals :
        approval[p].status \in Decision ~> told[p] # {} \/ p \in excused

=============================================================================
