------------------------------ MODULE Settings ------------------------------
(***************************************************************************)
(* The settings of one organization (services and repositories             *)
(* organization-settings).                                                 *)
(*                                                                         *)
(* The row is made when somebody first asks for it, with the defaults; an  *)
(* update makes it first and then writes the columns it was given.  Every  *)
(* statement stands alone.                                                 *)
(***************************************************************************)
CONSTANTS
    Calls, Fields, Values,
    Default,  \* DEFAULT_ORGANIZATION_SETTINGS
    None

VARIABLES
    setting,  \* the row of organization_settings
    call,     \* each GET or PATCH
    last      \* history: what each field was last set to

vars == <<setting, call, last>>

-----------------------------------------------------------------------------

Defaults == [f \in Fields |-> Default]
\* What a PATCH may give; a GET gives nothing.
Updates  == UNION {[F -> Values] : F \in SUBSET Fields}
Nothing  == [f \in {} |-> None]
\* The columns that u gives, over what x has.
Given(u, x) == [f \in Fields |-> IF f \in DOMAIN u THEN u[f] ELSE x[f]]

Goto(c, step) == call' = [call EXCEPT ![c].step = step]
Answer(c, x)  == call' = [call EXCEPT ![c] = [@ EXCEPT !.step = "answered", !.answer = x]]

\* A row was found or made: it is the answer, or is updated.
Got(c, x) == IF call[c].update = Nothing THEN Answer(c, x) ELSE Goto(c, "update")

-----------------------------------------------------------------------------

\* getOrCreateOrganizationSettings, updateOrganizationSettings
Ask(c, u) ==
    /\ call[c].step = "new"
    /\ call' = [call EXCEPT ![c] = [@ EXCEPT !.step = "find", !.update = u]]
    /\ UNCHANGED <<setting, last>>

\* findByOrganizationId, of the service and again of the repository.
Find(c) ==
    /\ call[c].step \in {"find", "again"}
    /\ IF setting # None THEN Got(c, setting)
       ELSE Goto(c, IF call[c].step = "find" THEN "again" ELSE "create")
    /\ UNCHANGED <<setting, last>>

\* Mutant: onConflictDoUpdate
CreateOver(c) ==
    /\ call[c].step = "create"
    /\ setting' = Defaults
    /\ Got(c, Defaults)
    /\ UNCHANGED last

\* INSERT ON CONFLICT DO NOTHING
Create(c) ==
    /\ call[c].step = "create"
    /\ IF setting = None
       THEN setting' = Defaults /\ Got(c, Defaults)
       ELSE Goto(c, "conflict") /\ UNCHANGED setting
    /\ UNCHANGED last

\* findByOrganizationId, of the row that was in the way: no row is ever deleted.
FindOther(c) ==
    /\ call[c].step = "conflict"
    /\ Got(c, setting)
    /\ UNCHANGED <<setting, last>>

\* updateSettingsForOrganization: the given columns, and the row as it is then.
Update(c) ==
    /\ call[c].step = "update"
    /\ setting' = Given(call[c].update, setting)
    /\ last' = Given(call[c].update, last)
    /\ Answer(c, setting')

\* The database fails.
Fail(c) ==
    /\ call[c].step \notin {"new", "answered", "failed"}
    /\ Goto(c, "failed")
    /\ UNCHANGED <<setting, last>>

-----------------------------------------------------------------------------

Init ==
    /\ setting = None
    /\ call = [c \in Calls |-> [step |-> "new", update |-> Nothing, answer |-> None]]
    /\ last = Defaults

Next ==
    \E c \in Calls :
        \/ \E u \in Updates : Ask(c, u)
        \/ Find(c) \/ Create(c) \/ FindOther(c) \/ Update(c) \/ Fail(c)

Spec == Init /\ [][Next]_vars

-----------------------------------------------------------------------------
(* Properties *)

\* Making the row never undoes an update, however first readers and writers
\* overlap: each field has what it was last set to, or its default.  Who updated
\* is answered with a row that has the update.
SettingsKept ==
    /\ setting # None => setting = last
    /\ \A c \in Calls : LET u == call[c].update IN
           call[c].step = "answered" => \A f \in DOMAIN u : call[c].answer[f] = u[f]

=============================================================================
