--------------------------- MODULE AuditCampaign ---------------------------
(***************************************************************************)
(* One audit campaign and its verifications (services/audit.service.ts,    *)
(* repositories/audit.ts).                                                 *)
(*                                                                         *)
(* A request reads the campaign, decides, and then writes one or two       *)
(* statements, each committed on its own; the UPDATE of the campaign       *)
(* compares that it is not deleted and nothing else.  The assets in the    *)
(* scope of the campaign change as the register and the branch of the      *)
(* campaign do.                                                            *)
(***************************************************************************)
EXTENDS Naturals, FiniteSets

CONSTANTS
    Assets,      \* finite
    Requests,    \* requests that may be in flight at the same time
    Marks,       \* the verification results requests report
    MaxBatches   \* bound on the times verifications are inserted

ASSUME AssetsAreFinite == IsFiniteSet(Assets)
ASSUME MaxBatchesIsNat == MaxBatches \in Nat
ASSUME MarksAreResults == Marks \subseteq {"found", "missing", "damaged", "moved", "unknown"}

VARIABLES
    status, deleted,  \* the campaign's row
    expected,         \* total_assets_expected
    totals,           \* total_verified, total_missing, total_damaged
    scope,            \* the assets eligible now
    batches,          \* how often verifications were inserted
    check,            \* the status of each verification, "none" without a row
    job,              \* the request in flight
    halfStarted,      \* history: a start inserted verifications and failed, or overlapped another
    crossed           \* history: requests in whose course another one wrote

vars == <<status, deleted, expected, totals, scope, batches, check, job, halfStarted, crossed>>
campaign == <<status, deleted, expected, totals>>

-----------------------------------------------------------------------------
(* Rows and requests *)

Result  == {"found", "missing", "damaged", "moved", "unknown"}
\* An asset has a row for every batch it was inserted in.
Row     == Assets \X (1..MaxBatches)
MaxRows == Cardinality(Row)
Totals  == [verified: 0..MaxRows, missing: 0..MaxRows, damaged: 0..MaxRows]
NoTotals == [verified |-> 0, missing |-> 0, damaged |-> 0]

Idle == [step |-> "idle"]
Job == {Idle} \cup [step: {"edit", "delete", "count"}]
              \cup [step: {"populate", "started"}, found: SUBSET Assets]
              \cup [step: {"complete"}, stats: Totals]
              \cup [step: {"verify"}, row: Row, mark: Result]

Go(r, j) == job' = [job EXCEPT ![r] = j]
At(r, s) == job[r].step = s
Rows     == {x \in Row : check[x] # "none"}
With(S)  == Cardinality({x \in Row : check[x] \in S})

\* getCampaignVerificationStats, as completeAuditCampaignService writes it.
Tally == [verified |-> With({"found", "damaged", "moved"}),
          missing  |-> With({"missing"}), damaged |-> With({"damaged"})]

\* A request starts on a campaign that is not deleted, in one of the states S.
May(r, S) == job[r] = Idle /\ ~deleted /\ status \in S

Writable == ~deleted

-----------------------------------------------------------------------------
(* The register, and updateAuditCampaignService *)

\* Assets are created, deleted and moved by others.
ScopeChange ==
    /\ scope' \in SUBSET Assets
    /\ UNCHANGED <<campaign, batches, check, job, halfStarted>>

EditRead(r) ==
    /\ May(r, {"draft", "in_progress"})
    /\ Go(r, [step |-> "edit"])
    /\ UNCHANGED <<campaign, scope, batches, check, halfStarted>>

\* The branch, and with it the scope; of a campaign completed meanwhile too.
EditWrite(r) ==
    /\ At(r, "edit")
    /\ IF Writable THEN scope' \in SUBSET Assets ELSE UNCHANGED scope
    /\ Go(r, Idle)
    /\ UNCHANGED <<campaign, batches, check, halfStarted>>

-----------------------------------------------------------------------------
(* deleteAuditCampaignService *)

\* Mutant: without the test of the status.
DeletableAny == {"draft", "in_progress", "completed"}

Deletable == {"draft", "completed"}

DeleteRead(r) ==
    /\ May(r, Deletable)
    /\ Go(r, [step |-> "delete"])
    /\ UNCHANGED <<campaign, scope, batches, check, halfStarted>>

DeleteWrite(r) ==
    /\ At(r, "delete")
    /\ deleted' = TRUE
    /\ Go(r, Idle)
    /\ UNCHANGED <<status, expected, totals, scope, batches, check, halfStarted>>

-----------------------------------------------------------------------------
(* startAuditCampaignService *)

\* Mutant: only a campaign in progress cannot be started.
StartableAgain == {"draft", "completed"}

Startable == {"draft"}

\* autoPopulateAssets decides whether verifications are inserted.
StartRead(r) ==
    /\ May(r, Startable)
    /\ scope # {}
    /\ \E populate \in BOOLEAN :
          Go(r, [step |-> IF populate THEN "populate" ELSE "started", found |-> scope])
    /\ UNCHANGED <<campaign, scope, batches, check, halfStarted>>

\* bulkCreateVerifications: one INSERT; nothing keeps an asset from a second row.
Populate(r) ==
    /\ At(r, "populate") /\ batches < MaxBatches
    /\ batches' = batches + 1
    /\ check' = [x \in Row |-> IF x[1] \in job[r].found /\ x[2] = batches'
                               THEN "pending" ELSE check[x]]
    /\ halfStarted' = (halfStarted \/ r \in crossed
                          \/ \E q \in Requests : At(q, "started"))
    /\ Go(r, [job[r] EXCEPT !.step = "started"])
    /\ UNCHANGED <<campaign, scope>>

Eligible(r) == Cardinality(job[r].found)

\* Of a campaign deleted meanwhile nothing is updated, and no error is raised.
StartWrite(r) ==
    /\ At(r, "started")
    /\ IF Writable THEN /\ status' = "in_progress"
                        /\ expected' = Eligible(r)
                   ELSE UNCHANGED <<status, expected>>
    /\ Go(r, Idle)
    /\ UNCHANGED <<deleted, totals, scope, batches, check, halfStarted>>

-----------------------------------------------------------------------------
(* completeAuditCampaignService *)

CompleteRead(r) ==
    /\ May(r, {"in_progress"})
    /\ Go(r, [step |-> "count"])
    /\ UNCHANGED <<campaign, scope, batches, check, halfStarted>>

CompleteCount(r) ==
    /\ At(r, "count")
    /\ Go(r, [step |-> "complete", stats |-> Tally])
    /\ UNCHANGED <<campaign, scope, batches, check, halfStarted>>

CompleteWrite(r) ==
    /\ At(r, "complete")
    /\ IF Writable THEN status' = "completed" /\ totals' = job[r].stats
                   ELSE UNCHANGED <<status, totals>>
    /\ Go(r, Idle)
    /\ UNCHANGED <<deleted, expected, scope, batches, check, halfStarted>>

-----------------------------------------------------------------------------
(* updateVerificationService *)

\* Mutant: a completed campaign can be corrected.
VerifiableLate == {"in_progress", "completed"}

Verifiable == {"in_progress"}

VerifyRead(r, x, mark) ==
    /\ May(r, Verifiable)
    /\ Go(r, [step |-> "verify", row |-> x, mark |-> mark])
    /\ UNCHANGED <<campaign, scope, batches, check, halfStarted>>

\* The UPDATE finds the row by its id; rows are never deleted.
VerifyWrite(r) ==
    /\ At(r, "verify")
    /\ check' = [check EXCEPT ![job[r].row] = job[r].mark]
    /\ Go(r, Idle)
    /\ UNCHANGED <<campaign, scope, batches, halfStarted>>

-----------------------------------------------------------------------------

\* A crash or a database error; what is written stays.
Fail(r) ==
    /\ job[r] # Idle
    /\ halfStarted' = (halfStarted \/ (At(r, "started") /\ batches > 0))
    /\ Go(r, Idle)
    /\ UNCHANGED <<campaign, scope, batches, check>>

\* A campaign just created.
Init ==
    /\ status = "draft" /\ deleted = FALSE
    /\ expected = 0 /\ totals = NoTotals
    /\ scope = Assets
    /\ batches = 0
    /\ check = [x \in Row |-> "none"]
    /\ job = [r \in Requests |-> Idle]
    /\ halfStarted = FALSE
    /\ crossed = {}

Begin(r) ==
    \/ EditRead(r) \/ DeleteRead(r) \/ StartRead(r) \/ CompleteRead(r)
    \/ \E x \in Rows, mark \in Marks : VerifyRead(r, x, mark)

Proceed(r) ==
    \/ EditWrite(r) \/ DeleteWrite(r) \/ Populate(r) \/ StartWrite(r)
    \/ CompleteCount(r) \/ CompleteWrite(r) \/ VerifyWrite(r)

\* A step of request r that writes crosses the others in flight.
Cross(r) ==
    crossed' = {q \in Requests :
                   /\ job'[q] # Idle
                   /\ q \in crossed \/ (q # r /\ <<campaign, check>>' # <<campaign, check>>)}

Next ==
    \/ ScopeChange /\ UNCHANGED crossed
    \/ \E r \in Requests : (Begin(r) \/ Proceed(r) \/ Fail(r)) /\ Cross(r)

Spec == Init /\ [][Next]_vars

-----------------------------------------------------------------------------
(* Properties *)

\* Every variable stays in its domain, and a row belongs to a batch inserted.
TypeOK ==
    /\ status \in {"draft", "in_progress", "completed"} /\ deleted \in BOOLEAN
    /\ expected \in 0..Cardinality(Assets)
    /\ totals \in Totals
    /\ scope \subseteq Assets
    /\ batches \in 0..MaxBatches
    /\ check \in [Row -> Result \cup {"none", "pending"}]
    /\ \A x \in Rows : x[2] <= batches
    /\ job \in [Requests -> Job]
    /\ halfStarted \in BOOLEAN
    /\ crossed \subseteq {r \in Requests : job[r] # Idle}

-----------------------------------------------------------------------------
(* What the checks of each request are for.  They do their work unless         *)
(* another request wrote between the checks and the step.                      *)

\* A step of a request that another one crossed.
Overtaken == \E r \in crossed : job'[r] # job[r]

\* A campaign goes from draft to in progress to completed and never back; it is
\* verified while in progress and deleted before or after ("Campaign cannot be
\* started from status", "Can only verify assets in an in-progress campaign",
\* "Cannot delete an in-progress campaign").  A deleted one keeps its state and its
\* totals, whatever was in flight.
CampaignOrder ==
    [][/\ deleted => UNCHANGED <<status, expected, totals, deleted>>
       /\ \/ Overtaken
          \/ /\ <<status, status'>> \in {<<"draft", "in_progress">>, <<"in_progress", "completed">>}
                                        \cup {<<st, st>> : st \in {"draft", "in_progress", "completed"}}
             /\ check' # check => IF batches' = batches THEN status = "in_progress" /\ ~deleted
                                  ELSE status = "draft" /\ ~deleted
             /\ deleted' # deleted => status # "in_progress"]_vars

\* "Metrics captured at completion": the totals of a completed campaign are those
\* of its verifications, and stay so.
TotalsRight == status = "completed" => totals = Tally
TotalsMatch == [][TotalsRight => TotalsRight' \/ Overtaken]_vars

\* An asset is verified once in a campaign, unless a start failed half way or two
\* of them overlapped.  Every variable stays in its domain.
EachAssetOnce ==
    /\ TypeOK
    /\ halfStarted \/ \A x, y \in Rows : x[1] = y[1] => x = y

=============================================================================
