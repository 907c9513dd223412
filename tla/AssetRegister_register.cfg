\* Two assets with one possible holder, two concurrent requests, every
\* operation, against the abstract lifecycle.
CONSTANTS
    Assets = {a1, a2}
    Sessions = {s1, s2}
    Users = {u1}
    Branches = {}
    None = None
    Keep = Keep
SPECIFICATION Spec
SYMMETRY Symmetry
INVARIANT DisposalLedger
PROPERTIES DeletedIsFrozen CheckedEventsAreExact ImplementsLifecycle
