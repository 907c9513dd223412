\* Four assets, one export in pages of two, two microseconds to a millisecond.
CONSTANTS
    Assets = {1, 2, 3, 4}
    Exports = {x1}
    Times = {1, 2, 3}
    Unit = 2
    PageSize = 2
    MaxRows = 5
SPECIFICATION Spec
INVARIANT ExportComplete
CHECK_DEADLOCK FALSE
