\* The rate limiter with two keys, a window of 3 instants, a limit of 2 requests and a
\* sweep every two instants.  One asset, two overlapping updates, costs on both sides of
\* the threshold.  Two assets and two branches, one import and one deletion of a branch.
\* An export of four assets in pages of two, with a limit of three rows.  Three calls for
\* settings of two columns.
\* Requests, imports and exports are finite in number: everything may be done.
CONSTANTS
    Keys = {k1, k2}
    Limit = 2
    Window = 3
    SweepPeriod = 2
    MaxTime = 8
    None = None
    Assets = {"a1"}
    Patches = {"u1", "u2"}
    Costs = {94, 95, 100}
    Lives = {11, 12}
    Threshold = 100
    MinLife = 12
    Tags = {"t1", "t2"}
    Branches = {1, 2}
    Imports = {"i1"}
    Removals = {"d1"}
    Sheets <- SomeSheets
    SheetRows = 2
    Listed = {1, 2, 3, 4}
    Exports = {"x1"}
    Times = {1, 2, 3}
    Unit = 2
    PageSize = 2
    ExportRows = 3
    Calls = {"c1", "c2", "c3"}
    Fields = {"threshold", "life"}
    Values = {5}
    DefaultValue = 0
    Depreciable = {a1}
    Runs = {r1, r2}
    LastYear = 2
    Terms <- AllTerms
    HandRecords <- ByHand
    Parts = {"rate", "recognition", "intake", "export", "settings"}
SPECIFICATION SumSpec
INVARIANTS
    WindowsApart AtMostTwice RecognitionFits ImportAccounts OnlyNewcomersStranded
    SkipsShareMillisecond SettingsKept
CHECK_DEADLOCK FALSE
