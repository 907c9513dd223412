\* Two processes and a registration that seed the three roles of an organization; two
\* requests about files; a fan-out to three users in a pool of two workers, and one
\* stream; two processes and two workers (MCSettling says which move) that remind two
\* organizations of one item each, one day.
\* What is asked for may all be answered.
CONSTANTS
    Processes = {p1, p2}
    Orgs = {o1}
    LastRole = 3
    None = None
    Requests = {"r1", "r2"}
    Users = {"u1", "u2", "u3"}
    Fanouts = {"f1"}
    Streams = {"s1"}
    Width = 2
    Schedulers = {"p1", "p2"}
    Workers = {"w1", "w2"}
    Tenants = {"o1", "o2"}
    Items = {"i1", "i2"}
    Home <- OneEach
    Days = 1
SPECIFICATION SumSpec
INVARIANTS RolesVouchedFor EachOnce NoGap FilesAgree OncePerFiring
PROPERTIES SeedingEnds Finishes FilesSettle RemindersArrive
CHECK_DEADLOCK FALSE
