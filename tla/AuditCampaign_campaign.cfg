\* Two assets, two overlapping requests, two batches of verifications.
CONSTANTS
    Assets = {a1, a2}
    Requests = {r1, r2}
    Marks = {"missing", "damaged"}
    MaxBatches = 2
SPECIFICATION Spec
SYMMETRY Symmetry
INVARIANT EachAssetOnce
PROPERTIES CampaignOrder TotalsMatch
