--------------------------- MODULE Notifications ---------------------------
(***************************************************************************)
(* Notifying the administrators of an organization, and the event streams  *)
(* that show it (services/notifications.ts, services/notification-hub.ts,  *)
(* controllers/notifications.ts).                                          *)
(*                                                                         *)
(* One process.  A fan-out takes its recipients one by one in a pool of    *)
(* workers; each inserts a row, counts the unread rows, and writes the row *)
(* and the count to the streams the hub has for that user.  Streams come   *)
(* and go, and rows are read, in between.                                  *)
(***************************************************************************)
EXTENDS Naturals, FiniteSets

CONSTANTS
    Users,     \* finite
    Fanouts,   \* calls of notifyOrganizationAdmins
    Streams,   \* event streams
    Width      \* NOTIFICATION_FANOUT_CONCURRENCY, at least 1

VARIABLES
    phase,      \* of each fan-out: "new", "running" or "done"
    recipients, \* whom it found
    taken,      \* the recipients its workers took
    worker,     \* what each worker is doing
    row,        \* the notification of a fan-out to a user
    inserts,    \* history: how often it was inserted
    stream,     \* the state of each event stream
    client,     \* the user of each stream in the hub
    told,       \* history: the rows a stream was told of, by event or in a count
    lost        \* history: rows whose event could not be sent

vars == <<phase, recipients, taken, worker, row, inserts, stream, client, told, lost>>
pool == <<phase, recipients, taken, worker>>
hub  == <<stream, client, told>>

-----------------------------------------------------------------------------
(* Rows, workers, streams *)

Note == Fanouts \X Users
Slot == 1..Width

Free == [step |-> "free"]
\* A worker returns when it finds nothing left to take.
Ended == [step |-> "ended"]
Busy(s, u) == [step |-> s, user |-> u]
Work == {Free, Ended} \cup [step: {"insert", "count", "publish"}, user: Users]

Unread(u) == {n \in Note : n[2] = u /\ row[n] = "unread"}
Set(b, w, x) == worker' = [worker EXCEPT ![b][w] = x]

\* Mutant: a stream is in the hub only when its count was written.
ListeningOpen(u) == {s \in Streams : stream[s] = "open" /\ client[s] = u}

\* The streams the hub has for a user.
Listening(u) == {s \in Streams : stream[s] # "closed" /\ client[s] = u}

-----------------------------------------------------------------------------
(* notifyOrganizationAdmins, runWithConcurrency *)

\* findOrganizationAdminRecipients: every user once.
FanOut(b, found) ==
    /\ phase[b] = "new"
    /\ phase' = [phase EXCEPT ![b] = IF found = {} THEN "done" ELSE "running"]
    /\ recipients' = [recipients EXCEPT ![b] = found]
    \* Math.min(concurrency, items.length) workers
    /\ worker' = [worker EXCEPT ![b] = [w \in Slot |->
                     IF w <= Cardinality(found) THEN Free ELSE Ended]]
    /\ UNCHANGED <<taken, row, inserts, hub, lost>>

\* Mutant: the index is not advanced before the item is handled.
AdvanceLate(b, u) == taken[b]

Advance(b, u) == taken[b] \cup {u}

\* No await between the test of the index, the read and its increment.
Take(b, w, u) ==
    /\ phase[b] = "running" /\ worker[b][w] = Free
    /\ u \in recipients[b] \ taken[b]
    /\ taken' = [taken EXCEPT ![b] = Advance(b, u)]
    /\ Set(b, w, Busy("insert", u))
    /\ UNCHANGED <<phase, recipients, row, inserts, hub, lost>>

Last(b, w) == \A v \in Slot \ {w} : worker[b][v] = Ended

\* Promise.all resolves with the last worker.
Return(b, w) ==
    /\ phase[b] = "running" /\ worker[b][w] = Free
    /\ recipients[b] = taken[b]
    /\ Set(b, w, Ended)
    /\ phase' = [phase EXCEPT ![b] = IF Last(b, w) THEN "done" ELSE @]
    /\ UNCHANGED <<recipients, taken, row, inserts, hub, lost>>

-----------------------------------------------------------------------------
(* createInAppNotification *)

Insert(b, w) ==
    LET u == worker[b][w].user
    IN  /\ worker[b][w].step = "insert"
        /\ row' = [row EXCEPT ![<<b, u>>] = "unread"]
        /\ inserts' = [inserts EXCEPT ![<<b, u>>] = @ + 1]
        /\ Set(b, w, Busy("count", u))
        /\ UNCHANGED <<phase, recipients, taken, hub, lost>>

Count(b, w) ==
    /\ worker[b][w].step = "count"
    /\ Set(b, w, [worker[b][w] EXCEPT !.step = "publish"])
    /\ UNCHANGED <<phase, recipients, taken, row, inserts, hub, lost>>

\* publishNotificationEvent: a client is in the hub from its subscription on.
Publish(b, w) ==
    LET u == worker[b][w].user
    IN  /\ worker[b][w].step = "publish"
        /\ told' = [s \in Streams |-> IF s \in Listening(u) THEN told[s] \cup {<<b, u>>} ELSE told[s]]
        /\ Set(b, w, Free)
        /\ UNCHANGED <<phase, recipients, taken, row, inserts, stream, client, lost>>

\* Mutant: the error is not caught, and takes the worker's loop with it.
AfterErrorEnded == Ended

AfterError == Free

\* The catch of createInAppNotification: of an error in the INSERT or in the count.
Swallow(b, w) ==
    LET u == worker[b][w].user
    IN  /\ worker[b][w].step \in {"insert", "count"}
        /\ lost' = lost \cup {<<b, u>>}
        /\ Set(b, w, AfterError)
        /\ UNCHANGED <<phase, recipients, taken, row, inserts, hub>>

-----------------------------------------------------------------------------
(* streamNotifications, and reading *)

\* In the hub at once, before its count is read.
Open(s, u) ==
    /\ stream[s] = "closed"
    /\ stream' = [stream EXCEPT ![s] = "subscribed"]
    /\ client' = [client EXCEPT ![s] = u]
    /\ told' = [told EXCEPT ![s] = {}]
    /\ UNCHANGED <<pool, row, inserts, lost>>

\* countUnreadNotifications
StreamCount(s) ==
    /\ stream[s] = "subscribed"
    /\ stream' = [stream EXCEPT ![s] = "counted"]
    /\ told' = [told EXCEPT ![s] = @ \cup Unread(client[s])]
    /\ UNCHANGED <<pool, row, inserts, client, lost>>

\* The count is written; events may have been written before.
StreamWrite(s) ==
    /\ stream[s] = "counted"
    /\ stream' = [stream EXCEPT ![s] = "open"]
    /\ UNCHANGED <<pool, row, inserts, client, told, lost>>

\* The client went away, or a write to it failed.
Close(s) ==
    /\ stream[s] # "closed"
    /\ stream' = [stream EXCEPT ![s] = "closed"]
    /\ UNCHANGED <<pool, row, inserts, client, told, lost>>

\* markNotificationRead and markAllNotificationsRead publish nothing.
MarkRead(N) ==
    /\ N # {}
    /\ row' = [n \in Note |-> IF n \in N THEN "read" ELSE row[n]]
    /\ UNCHANGED <<pool, inserts, hub, lost>>

-----------------------------------------------------------------------------

Init ==
    /\ phase = [b \in Fanouts |-> "new"]
    /\ recipients = [b \in Fanouts |-> {}]
    /\ taken = [b \in Fanouts |-> {}]
    /\ worker = [b \in Fanouts |-> [w \in Slot |-> Ended]]
    /\ row = [n \in Note |-> "none"]
    /\ inserts = [n \in Note |-> 0]
    /\ stream = [s \in Streams |-> "closed"]
    /\ client \in [Streams -> Users]
    /\ told = [s \in Streams |-> {}]
    /\ lost = {}

Step(b, w) ==
    \/ (\E u \in Users : Take(b, w, u)) \/ Return(b, w)
    \/ Insert(b, w) \/ Count(b, w) \/ Publish(b, w) \/ Swallow(b, w)

Next ==
    \/ \E b \in Fanouts, found \in SUBSET Users : FanOut(b, found)
    \/ \E b \in Fanouts, w \in Slot : Step(b, w)
    \/ \E s \in Streams, u \in Users : Open(s, u)
    \/ \E s \in Streams : StreamCount(s) \/ StreamWrite(s) \/ Close(s)
    \/ \E u \in Users : MarkRead(Unread(u)) \/ \E n \in Unread(u) : MarkRead({n})

\* The event loop runs what is ready, and the database answers or fails.
Fairness == \A b \in Fanouts, w \in Slot : WF_vars(Step(b, w))

Spec == Init /\ [][Next]_vars /\ Fairness

-----------------------------------------------------------------------------
(* Properties *)

\* Every variable stays in its domain; a fan-out that does not run has no worker.
TypeOK ==
    /\ phase \in [Fanouts -> {"new", "running", "done"}]
    /\ recipients \in [Fanouts -> SUBSET Users]
    /\ taken \in [Fanouts -> SUBSET Users]
    /\ \A b \in Fanouts : taken[b] \subseteq recipients[b]
    /\ worker \in [Fanouts -> [Slot -> Work]]
    /\ \A b \in Fanouts, w \in Slot : phase[b] # "running" => worker[b][w] = Ended
    /\ row \in [Note -> {"none", "unread", "read"}]
    /\ inserts \in [Note -> Nat]
    /\ stream \in [Streams -> {"closed", "subscribed", "counted", "open"}]
    /\ client \in [Streams -> Users]
    /\ told \in [Streams -> SUBSET Note]
    /\ lost \subseteq Note

\* However the workers of a pool take turns, a recipient is notified at most once,
\* and when the fan-out returns every one of them was, or the attempt failed.
\* Every variable stays in its domain.
EachOnce ==
    /\ TypeOK
    /\ \A b \in Fanouts, u \in Users :
        /\ inserts[<<b, u>>] <= 1
        /\ phase[b] = "done" /\ u \in recipients[b] => inserts[<<b, u>>] = 1 \/ <<b, u>> \in lost

InFlight(n) ==
    \E w \in Slot : /\ worker[n[1]][w].step \in {"count", "publish"}
                    /\ worker[n[1]][w].user = n[2]

\* A stream misses nothing: every unread notification of its user was in the count
\* it began with or was sent as an event, or its event is still to come.
NoGap ==
    \A s \in Streams : stream[s] \in {"counted", "open"} =>
        \A n \in Unread(client[s]) : n \in told[s] \/ n \in lost \/ InFlight(n)

\* A fan-out returns, whatever fails on the way.
Finishes == \A b \in Fanouts : phase[b] = "running" ~> phase[b] = "done"

=============================================================================
