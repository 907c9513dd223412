----------------------------- MODULE Recognition -----------------------------
(***************************************************************************)
(* The accounting treatment kept with an asset                             *)
(* (services/assets.recognition.service, services/assets).                 *)
(*                                                                         *)
(* The treatment is decided when an asset is created or imported and when  *)
(* a field it depends on is updated, from the values of the request and,   *)
(* for those the request does not give, from the row as it was read        *)
(* before.  The update itself writes only what the request gives.          *)
(*                                                                         *)
(* Costs are decided on as they come, in tenths of a cent, and stored in   *)
(* cents.  Future economic benefit and reliable measurement go the same    *)
(* way everywhere: "sound" stands for both.  The validators put their      *)
(* default into every request that leaves them out, so a request always    *)
(* gives them, and every update decides anew.  isDepreciable is kept next  *)
(* to the treatment and is true when that is "capitalized".                *)
(***************************************************************************)
EXTENDS Naturals

CONSTANTS
    Assets,
    Updates,    \* requests to PATCH /assets/:id
    Costs,      \* costs of a request, in tenths of a cent
    Lives,      \* useful lives, in months
    Threshold,  \* capitalizationThreshold, in tenths of a cent
    MinLife,    \* minimumUsefulLifeMonths
    None        \* undefined, null, or no row

VARIABLES
    row,   \* the assets table
    job    \* the updates on their way

vars == <<row, job>>

-----------------------------------------------------------------------------

\* numeric(18, 2): half a cent rounds up.
Stored(cost) == 10 * ((cost + 5) \div 10)

Treatments == {"capitalized", "expensed", "tracked_non_capitalized", "pending_review"}

\* evaluateAssetRecognition under getDefaultCapitalizationPolicy.
Evaluate(cost, life, sound) ==
    CASE life = None -> "pending_review"
      [] life # None /\ (~sound \/ life < MinLife) -> "expensed"
      [] life # None /\ sound /\ life >= MinLife /\ cost < Threshold -> "tracked_non_capitalized"
      [] OTHER -> "capitalized"

\* decidedOn and stale are history: the cost the treatment was decided on, and
\* whether the request had read a row that another one wrote since.
Rows == [cost: {Stored(c) : c \in Costs}, life: Lives \cup {None}, sound: BOOLEAN,
         treatment: Treatments,
         decidedOn: Costs \cup {Stored(c) : c \in Costs}, stale: BOOLEAN]
Jobs == [asset: Assets, cost: Costs \cup {None}, life: Lives \cup {None}, sound: BOOLEAN,
         treatment: Treatments,
         decidedOn: Costs \cup {Stored(c) : c \in Costs}, stale: BOOLEAN]

Given(value, current) == IF value # None THEN value ELSE current

\* createAssetService, and a row of an import.
Create(a, cost, life, sound) ==
    /\ row[a] = None
    /\ row' = [row EXCEPT ![a] =
               [cost |-> Stored(cost), life |-> life, sound |-> sound,
                treatment |-> Evaluate(cost, life, sound), decidedOn |-> cost, stale |-> FALSE]]
    /\ UNCHANGED job

\* Mutant: what the request leaves out counts as missing.
MergedAlone(a, cost, life) == [cost |-> Given(cost, row[a].cost), life |-> life]

\* payload.x ?? current.x
Merged(a, cost, life) == [cost |-> Given(cost, row[a].cost), life |-> Given(life, row[a].life)]

\* updateAssetService: getAssetByIdService, then the decision.
Read(u, a, cost, life, sound) ==
    /\ job[u] = None /\ row[a] # None
    /\ LET m == Merged(a, cost, life)
       IN  job' = [job EXCEPT ![u] =
               [asset |-> a, cost |-> cost, life |-> life, sound |-> sound,
                treatment |-> Evaluate(m.cost, m.life, sound),
                decidedOn |-> m.cost, stale |-> FALSE]]
    /\ UNCHANGED row

\* updateAssetById: sets what is given; the row is not compared with what was read.
Write(u) ==
    /\ job[u] # None
    /\ LET j == job[u]  r == row[j.asset]
       IN  /\ row' = [row EXCEPT ![j.asset] =
                  [cost |-> IF j.cost # None THEN Stored(j.cost) ELSE r.cost,
                   life |-> Given(j.life, r.life), sound |-> j.sound,
                   treatment |-> j.treatment,
                   decidedOn |-> j.decidedOn, stale |-> j.stale]]
           /\ job' = [v \in Updates |->
                  IF v = u THEN None
                  ELSE IF job[v] # None /\ job[v].asset = j.asset THEN [job[v] EXCEPT !.stale = TRUE]
                  ELSE job[v]]

\* The request fails before it writes.
Abandon(u) ==
    /\ job[u] # None
    /\ job' = [job EXCEPT ![u] = None]
    /\ UNCHANGED row

Init ==
    /\ row = [a \in Assets |-> None]
    /\ job = [u \in Updates |-> None]

Next ==
    \/ \E a \in Assets, cost \in Costs, life \in Lives \cup {None}, sound \in BOOLEAN :
           \/ Create(a, cost, life, sound)
           \/ \E u \in Updates : Read(u, a, cost, life, sound)
    \/ \E a \in Assets, life \in Lives \cup {None}, sound \in BOOLEAN, u \in Updates :
           Read(u, a, None, life, sound)
    \/ \E u \in Updates : Write(u) \/ Abandon(u)

Spec == Init /\ [][Next]_vars

-----------------------------------------------------------------------------
(* Properties *)

\* The treatment kept with an asset is the one its own fields call for, after any
\* sequence of updates that give some of them; except that two updates overlapped,
\* or that the cost lay less than half a cent below the threshold and was rounded
\* up to it when it was stored.
RecognitionFits ==
    /\ row \in [Assets -> Rows \cup {None}] /\ job \in [Updates -> Jobs \cup {None}]
    /\ \A a \in Assets : row[a] # None =>
        \/ row[a].treatment = Evaluate(row[a].cost, row[a].life, row[a].sound)
        \/ row[a].stale
        \/ row[a].decidedOn < Threshold /\ row[a].cost = Threshold

=============================================================================
