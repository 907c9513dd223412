----------------------------- MODULE MCSettling -----------------------------
(***************************************************************************)
(* TLC instance of Settling.  "part" says which of the four parts moves;   *)
(* the others stay in their initial state, where fairness asks nothing of  *)
(* them.  The reminders move with two processes and one worker, where all  *)
(* items are and stay due, and with one process and two workers.           *)
(***************************************************************************)
EXTENDS Settling

VARIABLE part

\* Two organizations with one reminder each.
OneEach == [i \in {"i1", "i2"} |-> IF i = "i1" THEN "o1" ELSE "o2"]

seeding   == vars
filing    == <<step, disk, row, reader, denied, excuse>>
notifying == <<phase, recipients, taken, worker, note, inserts, stream, client, told, lost>>
reminding == <<queued, day, ring, waiting, stalls, run, due, sent, owed>>

SumInit ==
    /\ part \in {"notifications", "files", "provisioning", "schedulers", "workers"}
    /\ Init /\ F!Init /\ N!Init /\ R!Init
    /\ part \notin {"schedulers", "workers"} => ~queued /\ due = {}
    /\ part = "schedulers" => due = Items
    /\ part # "notifications" => client = [s \in Streams |-> "u1"]

Notify == part = "notifications" /\ N!Next /\ UNCHANGED <<part, filing, seeding, reminding>>
File   == part = "files"         /\ F!Next /\ UNCHANGED <<part, notifying, seeding, reminding>>
Seed   == part = "provisioning"  /\ Next   /\ UNCHANGED <<part, notifying, filing, reminding>>

\* The queue does not need the second worker to be emptied, nor a day the second process.
Remind ==
    /\ R!Next
    /\ \/ part = "schedulers" /\ run'["w2"] = R!Idle /\ UNCHANGED due
       \/ part = "workers" /\ ring'["p2"] = "down"
    /\ UNCHANGED <<part, notifying, filing, seeding>>

SumSpec ==
    /\ SumInit
    /\ [][Notify \/ File \/ Seed \/ Remind]_<<part, notifying, filing, seeding, reminding>>
    /\ Fairness /\ F!Fairness /\ N!Fairness /\ R!Fairness

=============================================================================
