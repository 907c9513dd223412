\* Two assets without custody, two concurrent requests.
CONSTANTS
    Assets = {a1, a2}
    Sessions = {s1, s2}
    Users = {}
    Branches = {}
    None = None
    Keep = Keep
SPECIFICATION Spec
SYMMETRY Symmetry
PROPERTY BulkSparesDisposed
