---------------------------- MODULE Depreciation ----------------------------
(***************************************************************************)
(* Yearly depreciation (services/depreciation.service.ts,                  *)
(* services/depreciation.batch.service.ts, repositories/depreciation.ts,   *)
(* recordAssetDepreciation of repositories/assets.ts).                     *)
(*                                                                         *)
(* A run for a fiscal year reads the eligible assets, then the last        *)
(* earlier snapshot of each, one query per asset, and upserts the          *)
(* snapshots of the year in one transaction at the end.  Other runs and    *)
(* records made by hand commit in between.                                 *)
(*                                                                         *)
(* Money is whole cents.  The code computes in floating point and rounds   *)
(* each amount to cents (round2); here the quotient is rounded exactly,    *)
(* halves up.                                                              *)
(***************************************************************************)
EXTENDS Integers, FiniteSetsExt

CONSTANTS
    Assets,       \* ids of capitalized, depreciable assets
    Runs,         \* runs that may be under way at the same time
    LastYear,     \* fiscal years are 1 .. LastYear
    Terms,        \* what an asset may be worth: see TermsAreSound
    HandRecords   \* snapshots that may be recorded by hand

VARIABLES
    terms,    \* the columns of each asset a run reads
    snap,     \* asset_depreciation_snapshots: per asset and fiscal year
    run,      \* what each run has read and computed
    origin,   \* history: the terms and the method a snapshot was computed with
    behind    \* history: years computed before an earlier year was written

vars == <<terms, snap, run, origin, behind>>

Years  == 1..LastYear
Method == {"straight_line", "reducing_balance"}

\* cost and residual in cents, the useful life in months, the year and month of
\* purchase, and num/den, the annual rate of the reducing balance: none for what
\* cost nothing, 2 / years without a residual value, and otherwise the fraction that
\* floating point makes of 1 - (residual / cost) ^ (1 / years), of which only the
\* sign and the bound are used.  A residual value above the cost, which an update
\* may leave, makes it negative.
TermsAreSound ==
    \A t \in Terms :
        /\ t.cost \in Nat /\ t.residual \in Nat /\ t.life \in Nat \ {0}
        /\ t.year \in Int /\ t.month \in 1..12 /\ t.num \in Int /\ t.den \in Nat \ {0}
        /\ t.cost = 0 => t.num = 0
        /\ t.cost # 0 /\ t.residual = 0 => t.num * t.life = 24 * t.den
        /\ t.cost # 0 /\ t.residual # 0 => /\ t.num <= t.den
                                           /\ t.residual <= t.cost => t.num >= 0
                                           /\ t.residual >= t.cost => t.num <= 0

NoSnap == [months |-> -1]
Hand   == [method |-> "hand"]
Idle   == [step |-> "idle"]

Base(t) == t.cost - t.residual

-----------------------------------------------------------------------------
(* The computation *)

\* Mutant: forgets that the month of purchase counts.
MonthsUsedExclusive(t, y) == IF y < t.year THEN 0 ELSE IF y = t.year THEN 12 - t.month ELSE 12

\* Months of fiscal year y in which the asset is in use, the month of purchase
\* included.
MonthsUsed(t, y) == IF y < t.year THEN 0 ELSE IF y = t.year THEN 13 - t.month ELSE 12

\* round2(n / d)
Rounded(n, d) == (2 * n + d) \div (2 * d)

\* Mutant: only the months are capped.
StraightLineUncapped(t, months, bf) == Rounded(Base(t) * months, t.life)

\* The charge for a number of months, at most what is left of the base.
StraightLine(t, months, bf) ==
    LET charge == Rounded(Base(t) * months, t.life)
        capped == IF bf + charge > Base(t) THEN Base(t) - bf ELSE charge
    IN  IF capped < 0 THEN 0 ELSE capped

\* The charge on the book value, which it does not take below the residual value.
ReducingBalance(t, months, bf) ==
    LET book   == t.cost - bf
        charge == Rounded(book * t.num * months, t.den * 12)
        room   == book - t.residual
    IN  IF charge <= room THEN charge ELSE IF room < 0 THEN 0 ELSE room

\* calculateDepreciation: only the straight line looks at the remaining life.
Calculate(t, m, y, bf, prior) ==
    LET left   == t.life - prior
        months == IF m = "straight_line" /\ left < MonthsUsed(t, y) THEN left
                  ELSE MonthsUsed(t, y)
        charge == IF m = "straight_line" THEN StraightLine(t, months, bf)
                  ELSE ReducingBalance(t, months, bf)
    IN  [prior |-> prior, months |-> months, bf |-> bf, charge |-> charge,
         total |-> bf + charge]

-----------------------------------------------------------------------------
(* Snapshots *)

Recorded(a) == {y \in Years : snap[a][y] # NoSnap}

\* Mutant: fiscal_year <= y.
EarlierUpTo(a, y) == {z \in Recorded(a) : z <= y}

Earlier(a, y) == {z \in Recorded(a) : z < y}

\* getLatestSnapshotBeforeYear, and the result computed from it.
Computed(a, t, m, y) ==
    IF Earlier(a, y) = {} THEN Calculate(t, m, y, 0, 0)
    ELSE LET last == snap[a][Max(Earlier(a, y))]
         IN  Calculate(t, m, y, last.total, last.prior + last.months)

\* The CHECK constraints of asset_depreciation_snapshots.
Storable(c) == \A f \in DOMAIN c : c[f] >= 0

\* History.  New snapshots of year y leave later years behind, in the table and
\* in the runs that have read the earlier ones; overtaken are those assets whose
\* new snapshot is itself behind.
Overtake(S, y, overtaken) ==
    behind' = [a \in Assets |->
                 IF a \notin S THEN behind[a]
                 ELSE (behind[a] \ {y}) \cup {z \in Recorded(a) : z > y}
                        \cup (IF a \in overtaken THEN {y} ELSE {})]

CrossedBy(r, S, y) ==
    IF run[r].step = "compute" /\ y < run[r].year
    THEN [run[r] EXCEPT !.crossed = @ \cup (S \cap DOMAIN run[r].calc)]
    ELSE run[r]

-----------------------------------------------------------------------------
(* runDepreciationBatchService *)

\* getDepreciableAssets: S is what is eligible of the assets asked for.
RunRead(r, S, y, m) ==
    /\ run[r] = Idle
    /\ run' = [run EXCEPT ![r] = [step |-> "compute", year |-> y, method |-> m, todo |-> S,
                                  terms |-> [a \in S |-> terms[a]],
                                  calc |-> [a \in {} |-> NoSnap], crossed |-> {}]]
    /\ UNCHANGED <<terms, snap, origin, behind>>

\* One asset of the loop.
RunCompute(r) ==
    /\ run[r].step = "compute"
    /\ \E a \in run[r].todo :
         LET c == Computed(a, run[r].terms[a], run[r].method, run[r].year)
         IN  run' = [run EXCEPT
                 ![r].todo = @ \ {a},
                 ![r].calc = [b \in DOMAIN @ \cup {a} |-> IF b = a THEN c ELSE @[b]]]
    /\ UNCHANGED <<terms, snap, origin, behind>>

\* bulkUpsertDepreciationSnapshots: one transaction, which a single snapshot that
\* cannot be stored rolls back.
RunWrite(r) ==
    LET j == run[r]
        S == DOMAIN j.calc
    IN  /\ j.step = "compute" /\ j.todo = {}
        /\ \A a \in S : Storable(j.calc[a])
        /\ snap' = [a \in Assets |->
                      IF a \in S THEN [snap[a] EXCEPT ![j.year] = j.calc[a]] ELSE snap[a]]
        /\ origin' = [a \in Assets |->
                        IF a \in S
                        THEN [origin[a] EXCEPT ![j.year] =
                                [method |-> j.method, terms |-> j.terms[a]]]
                        ELSE origin[a]]
        /\ Overtake(S, j.year, j.crossed)
        /\ run' = [q \in Runs |-> IF q = r THEN Idle ELSE CrossedBy(q, S, j.year)]
        /\ UNCHANGED terms

\* A dry run, a database error, a crash, or snapshots that cannot be stored.
RunEnd(r) ==
    /\ run[r] # Idle
    /\ run' = [run EXCEPT ![r] = Idle]
    /\ UNCHANGED <<terms, snap, origin, behind>>

-----------------------------------------------------------------------------
(* The rest of the program *)

\* recordAssetDepreciation: the client's numbers, of which the total is checked to be
\* about the sum of the two others.
RecordByHand(a, y, h) ==
    /\ snap' = [snap EXCEPT ![a][y] = h]
    /\ origin' = [origin EXCEPT ![a][y] = Hand]
    /\ Overtake({a}, y, {})
    /\ run' = [q \in Runs |-> CrossedBy(q, {a}, y)]
    /\ UNCHANGED terms

\* updateAssetById may change every column the computation reads.
Revise(a, t) ==
    /\ terms' = [terms EXCEPT ![a] = t]
    /\ UNCHANGED <<snap, run, origin, behind>>

Init ==
    /\ terms \in [Assets -> Terms]
    /\ snap = [a \in Assets |-> [y \in Years |-> NoSnap]]
    /\ run = [r \in Runs |-> Idle]
    /\ origin = [a \in Assets |-> [y \in Years |-> Hand]]
    /\ behind = [a \in Assets |-> {}]

Next ==
    \/ \E r \in Runs, S \in SUBSET Assets \ {{}}, y \in Years, m \in Method : RunRead(r, S, y, m)
    \/ \E r \in Runs : RunCompute(r) \/ RunWrite(r) \/ RunEnd(r)
    \/ \E a \in Assets, y \in Years, h \in HandRecords : RecordByHand(a, y, h)
    \/ \E a \in Assets, t \in Terms : Revise(a, t)

Spec == Init /\ [][Next]_vars

-----------------------------------------------------------------------------
(* Properties *)

\* The years a run recorded last.
ByRun(a) == {y \in Recorded(a) : origin[a][y] # Hand}

Snapshot == [prior: Nat, months: 0..12, bf: Nat, charge: Nat, total: Nat]

\* Every stored snapshot satisfies the constraints of its table, and no run has
\* computed more months than a year has.
TypeOK ==
    /\ terms \in [Assets -> Terms]
    /\ \A a \in Assets : \A y \in Years : snap[a][y] \in Snapshot \cup {NoSnap}
    /\ \A r \in Runs : run[r] # Idle =>
          /\ run[r].todo \cap DOMAIN run[r].calc = {}
          /\ \A a \in DOMAIN run[r].calc : run[r].calc[a].months <= 12
    /\ \A a \in Assets : behind[a] \subseteq Recorded(a)

\* "The yearly charge is capped so accumulated never exceeds (cost - residual)":
\* whatever was charged before, by whichever method or by hand, and however the
\* asset has been revised, a run charges no more than was left of the base it read.
ChargedWithinBase ==
    \A a \in Assets : \A y \in ByRun(a) :
        snap[a][y].charge > 0 => snap[a][y].total <= Base(origin[a][y].terms)

\* Nothing is charged twice and nothing forgotten: unless a year is behind, the
\* years recorded add up, in money and in months, however often and in whatever
\* order they were run, and whichever runs overlapped.  Every variable stays in its
\* domain.
LedgerAddsUp ==
    /\ TypeOK
    /\ \A a \in Assets :
        behind[a] = {} /\ Recorded(a) = ByRun(a) =>
            \A y \in Recorded(a) :
                LET past == Earlier(a, y)
                IN  /\ snap[a][y].bf = MapThenSumSet(LAMBDA z : snap[a][z].charge, past)
                    /\ snap[a][y].prior = MapThenSumSet(LAMBDA z : snap[a][z].months, past)

\* Rounding does not drift: an asset charged by the straight line every year since
\* its purchase is within half a cent per year of the exact share of its base.
CentsFollowMonths ==
    \A a \in Assets : \A y \in ByRun(a) :
        LET t    == origin[a][y].terms
            span == t.year..y
            used == 13 - t.month + 12 * (y - t.year)
            due  == Base(t) * (IF used < t.life THEN used ELSE t.life)
            off  == snap[a][y].total * t.life - due
        IN  /\ Base(t) >= 0 /\ behind[a] = {}
            /\ Recorded(a) \cap 1..y = span
            /\ span # {}
            /\ \A z \in span : origin[a][z] = [method |-> "straight_line", terms |-> t]
            => 2 * off <= t.life * Cardinality(span) /\ -2 * off <= t.life * Cardinality(span)

\* Claimed by the comment "Cap months to remaining useful life" and by the CHECK
\* period_used_current_year >= 0: what a run computes can be stored.
RunsCanBeStored ==
    \A r \in Runs : run[r] # Idle => \A a \in DOMAIN run[r].calc : run[r].calc[a].months >= 0

=============================================================================
