\* One asset that is revised, two overlapping depreciation runs, two years, and records
\* by hand.  The other parts stay in their initial state.
CONSTANTS
    Keys = {k1, k2}
    Limit = 2
    Window = 3
    SweepPeriod = 2
    MaxTime = 8
    None = None
    Assets = {"a1"}
    Patches = {"u1", "u2"}
    Costs = {94, 95, 100}
    Lives = {11, 12}
    Threshold = 100
    MinLife = 12
    Tags = {"t1", "t2"}
    Branches = {1, 2}
    Imports = {"i1"}
    Removals = {"d1"}
    Sheets <- SomeSheets
    SheetRows = 2
    Listed = {1, 2, 3, 4}
    Exports = {"x1"}
    Times = {1, 2, 3}
    Unit = 2
    PageSize = 2
    ExportRows = 3
    Calls = {"c1", "c2", "c3"}
    Fields = {"threshold", "life"}
    Values = {5}
    DefaultValue = 0
    Depreciable = {a1}
    Runs = {r1, r2}
    LastYear = 2
    Terms <- AllTerms
    HandRecords <- ByHand
    Parts = {"depreciation"}
SPECIFICATION SumSpec
SYMMETRY Symmetry
INVARIANTS
    ChargedWithinBase LedgerAddsUp CentsFollowMonths
