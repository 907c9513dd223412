\* One user of two organizations, two concurrent requests, one code, two seconds,
\* one change of password.
CONSTANTS
    Users = {u1}
    Orgs = {o1, o2}
    Requests = {r1, r2}
    Codes = {c1}
    MaxTime = 1
    MaxVersion = 1
SPECIFICATION Spec
SYMMETRY Symmetry
INVARIANTS OneTokenPerSession OldSessionsEnd
