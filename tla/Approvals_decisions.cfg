\* Two approvals for one asset, two concurrent requests, failures, other disposals.
CONSTANTS
    Assets = {a1}
    Approvals = {p1, p2}
    Sessions = {s1, s2}
SPECIFICATION FairSpec
INVARIANTS OneOutcome ApprovedIsExecuted
PROPERTY DecisionIsTold
