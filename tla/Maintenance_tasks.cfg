\* One asset with two tasks, two concurrent requests, failures, and the register
\* changing the asset at any time.
CONSTANTS
    Assets = {a1}
    Tasks = {t1, t2}
    Sessions = {s1, s2}
    NoTask = NoTask
    Keep = Keep
SPECIFICATION FairSpec
INVARIANT RestingAssetsAgree
PROPERTIES CompletedOnce SparesRetired RequestsEnd
