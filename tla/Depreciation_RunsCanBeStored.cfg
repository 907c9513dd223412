\* One asset, one run at a time, three years, nothing by hand.
CONSTANTS
    Assets = {a1}
    Runs = {r1}
    LastYear = 3
    Terms <- OneTerm
    HandRecords <- Nothing
SPECIFICATION Spec
INVARIANT RunsCanBeStored
