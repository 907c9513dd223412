\* Two users, two overlapping requests, two invitations or one role to name.
CONSTANTS
    Users = {u1, u2}
    Requests = {r1, r2}
    Named = {"staff"}
    MaxInvites = 2
SPECIFICATION FocusSpec
SYMMETRY Symmetry
INVARIANT RemovedIsSignedOut
PROPERTIES DeadTokensStayDead BackByInvitation NobodyDisplaced ReplacedMeansOne
