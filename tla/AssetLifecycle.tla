---------------------------- MODULE AssetLifecycle ----------------------------
(***************************************************************************)
(* What the register promises about the life of an asset, with no request  *)
(* in sight: every operation is one step.  AssetRegister implements it.    *)
(*                                                                         *)
(* An asset is absent, in service (active or in maintenance) or disposed;  *)
(* a deleted asset keeps its status and is frozen.  filed[a] counts the    *)
(* disposal records filed since a was last in service.                     *)
(***************************************************************************)
EXTENDS Naturals

CONSTANT Assets

VARIABLES life, filed

lifeVars == <<life, filed>>

Working == {"active", "maintenance"}
Stage   == [status: Working \cup {"disposed", "absent"}, deleted: BOOLEAN]
Absent  == [status |-> "absent", deleted |-> FALSE]

Alive(a)     == life[a].status # "absent" /\ ~life[a].deleted
Become(a, st) == life' = [life EXCEPT ![a] = [status |-> st, deleted |-> FALSE]]

\* Assets enter the register in any status, several at a time, with no record.
Register(S) ==
    /\ \A a \in S : life[a] = Absent
    /\ \E st \in [S -> Working \cup {"disposed"}] :
         life' = [a \in Assets |->
                    IF a \in S THEN [status |-> st[a], deleted |-> FALSE] ELSE life[a]]
    /\ UNCHANGED filed

\* The status of assets in the register is set to one in service.  Nothing
\* here keeps a disposed asset disposed: see BulkSparesDisposed.
Revise(S) ==
    /\ \A a \in S : Alive(a)
    /\ \E st \in Working :
         life' = [a \in Assets |->
                    IF a \in S THEN [status |-> st, deleted |-> FALSE] ELSE life[a]]
    /\ filed' = [a \in Assets |-> IF a \in S THEN 0 ELSE filed[a]]

\* Only an asset in service is disposed, and that files its one record.
Dispose(a) ==
    /\ Alive(a) /\ life[a].status \in Working /\ filed[a] = 0
    /\ Become(a, "disposed")
    /\ filed' = [filed EXCEPT ![a] = 1]

Delete(S) ==
    /\ \A a \in S : Alive(a)
    /\ life' = [a \in Assets |-> IF a \in S THEN [life[a] EXCEPT !.deleted = TRUE]
                                             ELSE life[a]]
    /\ UNCHANGED filed

Restore(a) ==
    /\ life[a].deleted \/ life[a].status = "disposed"
    /\ \E st \in Working : Become(a, st)
    /\ filed' = [filed EXCEPT ![a] = 0]

Init ==
    /\ life = [a \in Assets |-> Absent]
    /\ filed = [a \in Assets |-> 0]

Next ==
    \/ \E S \in SUBSET Assets : Register(S) \/ Revise(S) \/ Delete(S)
    \/ \E a \in Assets : Dispose(a) \/ Restore(a)

Spec == Init /\ [][Next]_lifeVars

=============================================================================
