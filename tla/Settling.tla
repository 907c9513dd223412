------------------------------ MODULE Settling ------------------------------
(***************************************************************************)
(* Provisioning and three parts of the services that share no state with   *)
(* it or with one another, and that each come to an end of what they       *)
(* began: Files, Notifications and Reminders.  They are put side by side   *)
(* for what is checked and proved about them.                              *)
(***************************************************************************)
EXTENDS Provisioning, FiniteSets

CONSTANTS
    Requests,                         \* Files
    Users, Fanouts, Streams, Width,   \* Notifications
    Schedulers, Workers, Tenants,     \* Reminders: the processes that schedule, the workers,
    Items, Home, Days                 \*   the organizations they serve, what comes due

\* NOTIFICATION_FANOUT_CONCURRENCY is at least 1.
ASSUME WidthIsPositive == Width \in Nat \ {0}
\* Finitely many processes schedule, and finitely many workers work.
ASSUME RunnersAreFinite == IsFiniteSet(Schedulers) /\ IsFiniteSet(Workers)
ASSUME DaysAreDays == Days \in Nat

VARIABLES
    step, disk, row, reader, denied, excuse,                                 \* Files
    phase, recipients, taken, worker, note, inserts, stream, client, told,   \* Notifications
        lost,
    queued, day, ring, waiting, stalls, run, due, sent, owed                 \* Reminders

F == INSTANCE Files
N == INSTANCE Notifications WITH row <- note
R == INSTANCE Reminders WITH Processes <- Schedulers, Orgs <- Tenants

-----------------------------------------------------------------------------
(* The properties of the parts *)

\* Files: a row has its file, and a request that is over leaves no file without one.
FilesAgree == F!FilesAgree
\* Files: a temporary file does not stay.
FilesSettle == F!FilesSettle
\* Notifications: who is found is notified once.
EachOnce == N!EachOnce
\* Notifications: a stream misses nothing.
NoGap == N!NoGap
\* Notifications: a fan-out comes to its end.
Finishes == N!Finishes
\* Reminders: a firing reminds of an item once, once more if its job stalled.
OncePerFiring == R!OncePerFiring
\* Reminders: what is due is reminded of, whatever else fails.
RemindersArrive == R!RemindersArrive

=============================================================================
