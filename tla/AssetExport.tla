---------------------------- MODULE AssetExport ----------------------------
(***************************************************************************)
(* The export of the assets of an organization to a workbook               *)
(* (services/assets.export.service, repositories/assets).                  *)
(*                                                                         *)
(* The rows are read page by page, newest first.  A page begins behind the *)
(* row the last one ended with, found again by its creation time and its   *)
(* id.  The database keeps that time in microseconds, the driver hands it  *)
(* over in milliseconds, and it is the time at which the row's transaction *)
(* began: all rows of an import have the same one, and rows are not        *)
(* committed in its order.  Assets come and go between two pages.          *)
(***************************************************************************)
EXTENDS Naturals, FiniteSets

CONSTANTS
    Assets,     \* ids, in their order
    Exports,
    Times,      \* creation times, in microseconds
    Unit,       \* microseconds in a millisecond
    PageSize,   \* EXPORT_PAGE_SIZE
    MaxRows     \* MAX_EXPORT_ROWS

VARIABLES
    born,     \* the created_at of an asset
    matching, \* the assets the filters of the exports let through
    export    \* each export

vars == <<born, matching, export>>

-----------------------------------------------------------------------------

\* count is exportedCount; got, ends and there are history: the rows written, the
\* last rows of the pages, and the assets that matched all along.
Ids == Assets \cup {0}
ExportType == [step: {"new", "paging", "done"}, at: Nat, id: Ids, count: Nat,
               got: SUBSET Assets, ends: SUBSET Assets, there: SUBSET Assets]
Fresh == [step |-> "new", at |-> 0, id |-> 0, count |-> 0, got |-> {}, ends |-> {}, there |-> {}]

\* new Date(created_at)
Millis(t) == t - (t % Unit)

Least(m, n) == IF m <= n THEN m ELSE n

\* ORDER BY created_at DESC, id DESC
Before(a, b) == born[a] > born[b] \/ (born[a] = born[b] /\ a > b)

First(S, n) == {a \in S : Cardinality({b \in S : Before(b, a)}) < n}

\* Mutant: lte(assets.id, cursor.id)
BehindEqual(e) ==
    IF e.ends = {} THEN matching
    ELSE {a \in matching : born[a] < e.at \/ (born[a] = e.at /\ a <= e.id)}

\* The filters, with the cursor's from the second page on.
Behind(e) ==
    IF e.ends = {} THEN matching
    ELSE {a \in matching : born[a] < e.at \/ (born[a] = e.at /\ a < e.id)}

\* Mutant: "<=" where the code has "<".
ShortAlways(rows, limit) == Cardinality(rows) <= limit

Short(rows, limit) == Cardinality(rows) < limit

\* One or several assets, in one transaction.
Create(S, t) ==
    /\ S # {} /\ \A a \in S : born[a] = 0
    /\ born' = [a \in Assets |-> IF a \in S THEN t ELSE born[a]]
    /\ matching' = matching \cup S
    /\ UNCHANGED export

\* Deleted, or changed so that the filters no longer let it through.
Leave(a) ==
    /\ a \in matching
    /\ matching' = matching \ {a}
    /\ export' = [e \in Exports |-> [export[e] EXCEPT !.there = @ \ {a}]]
    /\ UNCHANGED born

\* Restored, or changed back.
Enter(a) ==
    /\ born[a] # 0 /\ a \notin matching
    /\ matching' = matching \cup {a}
    /\ UNCHANGED <<born, export>>

Begin(x) ==
    /\ export[x].step = "new"
    /\ export' = [export EXCEPT ![x].step = "paging", ![x].there = matching]
    /\ UNCHANGED <<born, matching>>

\* listAssetsForExportBatch, and the rows it returned are written.
Page(x) ==
    LET e     == export[x]
        limit == Least(PageSize, MaxRows - e.count)
        rows  == First(Behind(e), limit)
        n     == e.count + Cardinality(rows)
    IN  /\ e.step = "paging" /\ rows # {}
        /\ \E last \in rows :
              /\ \A a \in rows \ {last} : Before(a, last)
              /\ export' = [export EXCEPT ![x] =
                     [e EXCEPT !.count = n, !.got = @ \cup rows, !.ends = @ \cup {last},
                               !.at = Millis(born[last]), !.id = last,
                               !.step = IF Short(rows, limit) \/ n >= MaxRows
                                        THEN "done" ELSE "paging"]]
        /\ UNCHANGED <<born, matching>>

NoPage(x) ==
    /\ export[x].step = "paging" /\ Behind(export[x]) = {}
    /\ export' = [export EXCEPT ![x].step = "done"]
    /\ UNCHANGED <<born, matching>>

Init ==
    /\ born = [a \in Assets |-> 0]
    /\ matching = {}
    /\ export = [x \in Exports |-> Fresh]

Next ==
    \/ \E S \in SUBSET Assets, t \in Times : Create(S, t)
    \/ \E a \in Assets : Leave(a) \/ Enter(a)
    \/ \E x \in Exports : Begin(x) \/ Page(x) \/ NoPage(x)

Spec == Init /\ [][Next]_vars

-----------------------------------------------------------------------------
(* Properties *)

Complete(e) == e.step = "done" /\ e.count < MaxRows

\* No row is exported twice, whatever happens between two pages.  An asset that
\* matched all along is left out of an export that was not cut short only if the
\* last row of some page was created in the same millisecond, past its beginning.
SkipsShareMillisecond ==
    /\ born \in [Assets -> Times \cup {0}] /\ matching \subseteq Assets
    /\ export \in [Exports -> ExportType]
    /\ \A x \in Exports : LET e == export[x] IN
        /\ e.count = Cardinality(e.got)
        /\ Complete(e) => \A a \in e.there \ e.got :
               \E p \in e.ends : Millis(born[a]) = Millis(born[p]) /\ born[p] # Millis(born[p])

\* Every asset that matched all along is in an export that was not cut short.
ExportComplete ==
    \A x \in Exports : Complete(export[x]) => export[x].there \subseteq export[x].got

=============================================================================
