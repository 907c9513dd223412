----------------------------- MODULE MCRequests -----------------------------
(***************************************************************************)
(* TLC instance of Requests.  "part" says which of its parts moves; the    *)
(* others stay in their initial state.                                     *)
(***************************************************************************)
EXTENDS Requests, TLC

CONSTANT Parts    \* those that a run looks at
ASSUME PartsAreParts == Parts \subseteq {"rate", "recognition", "intake", "export", "settings", "depreciation"}

VARIABLE part

\* Sheets of up to three rows, blank, bad or good, and two that name a branch.
Blank    == [kind |-> "blank", tag |-> "", by |-> "", branch |-> 0]
Bad      == [Blank EXCEPT !.kind = "bad"]
Good(t, by, b) == [kind |-> "asset", tag |-> t, by |-> by, branch |-> b]
SomeSheets ==
    UNION {[1..n -> {Blank, Bad, Good("t1", "", 0)}] : n \in 0..2}
    \cup [1..3 -> {Blank, Good("t1", "", 0)}]
    \cup {<<Good("t1", "id", 1), Good("t2", "name", 2)>>, <<Good("t1", "", 0), Good("t2", "name", 1)>>}

\* Written off over one year, without a residual value; over two and a half, with
\* one, at the rate of 1 - (4 / 17) ^ (12 / 30), about 0.439; and with a residual
\* value that an update has put above the cost.
YearLong  == [cost |-> 20, residual |-> 0, life |-> 12, year |-> 1, month |-> 7, num |-> 2, den |-> 1]
PartYears == [cost |-> 17, residual |-> 4, life |-> 30, year |-> 1, month |-> 10, num |-> 439, den |-> 1000]
OddTerms  == [cost |-> 5, residual |-> 10, life |-> 12, year |-> 2, month |-> 1, num |-> -1, den |-> 1]

AllTerms == {YearLong, PartYears, OddTerms}

\* A charge of a few cents after half a year, whose total is a cent off the sum, and
\* one above the cost.
SmallByHand == [prior |-> 6, months |-> 12, bf |-> 0, charge |-> 7, total |-> 8]
LargeByHand == [prior |-> 0, months |-> 0, bf |-> 7, charge |-> 30, total |-> 37]

ByHand == {SmallByHand, LargeByHand}

-----------------------------------------------------------------------------

SumInit ==
    /\ part \in Parts
    /\ Init /\ R!Init /\ I!Init /\ E!Init /\ S!Init /\ D!Init
    /\ part # "depreciation" => \A a \in Depreciable : terms[a] = YearLong
    /\ part # "intake" => ~multi /\ I!LiveBranches = {}

rates       == vars
treatment   == <<row, job>>
register    == <<multi, branch, asset, import, removal>>
exporting   == <<born, matching, export>>
settings    == <<setting, call, last>>
ledger      == <<terms, snap, run, origin, behind>>

Rate       == part = "rate"         /\ Next
Recognize  == part = "recognition"  /\ R!Next
TakeIn     == part = "intake"       /\ I!Next
Export     == part = "export"       /\ E!Next
Set        == part = "settings"     /\ S!Next
Depreciate == part = "depreciation" /\ D!Next

SumNext ==
    \/ Rate       /\ UNCHANGED <<part, treatment, register, exporting, settings, ledger>>
    \/ Recognize  /\ UNCHANGED <<part, rates, register, exporting, settings, ledger>>
    \/ TakeIn     /\ UNCHANGED <<part, rates, treatment, exporting, settings, ledger>>
    \/ Export     /\ UNCHANGED <<part, rates, treatment, register, settings, ledger>>
    \/ Set        /\ UNCHANGED <<part, rates, treatment, register, exporting, ledger>>
    \/ Depreciate /\ UNCHANGED <<part, rates, treatment, register, exporting, settings>>

SumSpec == SumInit /\ [][SumNext]_<<part, rates, treatment, register, exporting, settings, ledger>>

\* Depreciation runs are interchangeable.
Symmetry == Permutations(Runs)

=============================================================================
