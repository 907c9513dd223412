------------------------------- MODULE Intake -------------------------------
(***************************************************************************)
(* How assets come into an organization and its branches: created one by   *)
(* one, imported from a sheet, transferred; and how branches go            *)
(* (services/assets, assets.import.service, branches).                     *)
(*                                                                         *)
(* Nothing compares the branch of an asset with the branches that are      *)
(* left: the foreign key holds for a deleted branch too.  An import lists  *)
(* the branches when it starts and inserts its rows at its end, all or     *)
(* none; the deletion of a branch counts its assets and deletes it after.  *)
(***************************************************************************)
EXTENDS Naturals, Sequences, FiniteSets

CONSTANTS
    Tags,      \* asset tags, unique for ever: the index covers deleted assets
    Branches,  \* names of branches, in their order
    Imports, Removals,
    Sheets,    \* the data rows of a sheet, from the second on
    MaxRows    \* ASSET_IMPORT_MAX_ROWS

VARIABLES
    multi,    \* multiBranchEnabled
    branch,   \* the branches table
    asset,    \* the assets table
    import,   \* each import
    removal   \* each deletion of a branch

vars == <<multi, branch, asset, import, removal>>

-----------------------------------------------------------------------------

NoBranch == 0
Places   == Branches \cup {NoBranch}
NoAsset  == [live |-> FALSE, branch |-> NoBranch, known |-> FALSE]
Asset(b) == [live |-> TRUE, branch |-> b, known |-> TRUE]
In(b)    == {t \in Tags : asset[t].live /\ asset[t].branch = b}
LiveBranches == {b \in Branches : branch[b] = "live"}

Blank == [kind |-> "blank", tag |-> "", by |-> "", branch |-> NoBranch]
Bad   == [Blank EXCEPT !.kind = "bad"]
\* by: the branch column holds nothing, an id, or a name or code.
Row(t, by, b) == [kind |-> "asset", tag |-> t, by |-> by, branch |-> b]

NewImport  == [step |-> "new", sheet |-> <<>>, listed |-> {}, inserted |-> 0, failed |-> 0]
\* newcomers and left are history: the assets that came in after the count, and
\* those that were there when the branch was deleted.
NewRemoval == [step |-> "new", branch |-> NoBranch, force |-> FALSE, newcomers |-> {}, left |-> {}]

Least(m, n) == IF m <= n THEN m ELSE n

\* Assets of T are in b from now on.
Arrive(T, b) ==
    removal' = [d \in Removals |->
        IF removal[d].step = "counted" /\ removal[d].branch = b
        THEN [removal[d] EXCEPT !.newcomers = @ \cup T] ELSE removal[d]]

-----------------------------------------------------------------------------
(* One asset *)

\* assertBranchRequiredIfEnabled, createAsset: any branch there ever was.
Create(t, b) ==
    /\ ~asset[t].known
    /\ multi => b # NoBranch
    /\ b # NoBranch => branch[b] # "none"
    /\ asset' = [asset EXCEPT ![t] = Asset(b)]
    /\ Arrive({t}, b)
    /\ UNCHANGED <<multi, branch, import>>

\* transferAsset, or an update that gives a branch.
Transfer(t, b) ==
    /\ asset[t].live /\ asset[t].branch # b
    /\ branch[b] # "none"
    /\ asset' = [asset EXCEPT ![t].branch = b]
    /\ Arrive({t}, b)
    /\ UNCHANGED <<multi, branch, import>>

DeleteAsset(t) ==
    /\ asset[t].live
    /\ asset' = [asset EXCEPT ![t].live = FALSE]
    /\ UNCHANGED <<multi, branch, import, removal>>

\* restoreAsset asks nothing of the branch.
RestoreAsset(t) ==
    /\ asset[t].known /\ ~asset[t].live
    /\ asset' = [asset EXCEPT ![t].live = TRUE]
    /\ Arrive({t}, asset[t].branch)
    /\ UNCHANGED <<multi, branch, import>>

-----------------------------------------------------------------------------
(* importAssetsFromWorkbook *)

\* sheet.actualRowCount - 1: rows that hold something.
Total(s) == Cardinality({i \in DOMAIN s : s[i].kind # "blank"})

\* sheet.getRows(2, rowsToRead): consecutive rows, the blank ones dropped after.
ReadRows(s) == {i \in 1..Least(Total(s), MaxRows) : s[i].kind # "blank"}

\* Mutant: the header is counted among the rows over the limit.
OverOne(s) == IF Total(s) >= MaxRows THEN Total(s) - MaxRows + 1 ELSE 0

\* Rows over the limit count as failed.
Over(s) == IF Total(s) > MaxRows THEN Total(s) - MaxRows ELSE 0

\* defaultBranchId: the first of those listed, by name.
Default(listed) ==
    IF multi /\ listed # {} THEN CHOOSE b \in listed : \A c \in listed : b <= c ELSE NoBranch

\* resolveBranchId: an id counts as it is, also one that is not listed.
Resolved(row, listed) ==
    CASE row.by = "id" -> row.branch
      [] row.by = "name" /\ row.branch \in listed -> row.branch
      [] OTHER -> Default(listed)

Valid(j) ==
    LET s == import[j].sheet
    IN  {i \in ReadRows(s) : /\ s[i].kind = "asset"
                             /\ multi => Resolved(s[i], import[j].listed) # NoBranch}

\* The unique index and the foreign key.
Insertable(j) ==
    LET s == import[j].sheet IN
    /\ \A i \in Valid(j) : ~asset[s[i].tag].known
    /\ \A i, k \in Valid(j) : s[i].tag = s[k].tag => i = k
    /\ \A i \in Valid(j) : LET b == Resolved(s[i], import[j].listed)
                           IN  b # NoBranch => branch[b] # "none"

\* findOrganizationById, listBranches
List(j, s) ==
    /\ import[j].step = "new"
    /\ import' = [import EXCEPT ![j] = [@ EXCEPT !.step = "listed", !.sheet = s, !.listed = LiveBranches]]
    /\ UNCHANGED <<multi, branch, asset, removal>>

Report(j, inserted) ==
    LET s == import[j].sheet IN
    import' = [import EXCEPT ![j] =
        [@ EXCEPT !.step = "done", !.inserted = inserted,
                  !.failed = Cardinality(ReadRows(s)) - inserted + Over(s)]]

\* The rows are in the table: each valid row's asset in the branch it resolved to.
Put(j) ==
    LET s    == import[j].sheet
        came == [i \in Valid(j) |-> Resolved(s[i], import[j].listed)]
        At(b) == {s[i].tag : i \in {k \in Valid(j) : came[k] = b}}
    IN  /\ asset' = [t \in Tags |->
               IF \E b \in Places : t \in At(b) THEN Asset(CHOOSE b \in Places : t \in At(b))
               ELSE asset[t]]
        /\ removal' = [d \in Removals |->
               IF removal[d].step = "counted"
               THEN [removal[d] EXCEPT !.newcomers = @ \cup At(removal[d].branch)] ELSE removal[d]]

\* bulkCreateAssetsAtomic; the answer may get lost after the commit.
Insert(j) ==
    /\ import[j].step = "listed"
    /\ Insertable(j)
    /\ Put(j)
    /\ Report(j, Cardinality(Valid(j))) \/ (Valid(j) # {} /\ Report(j, 0))
    /\ UNCHANGED <<multi, branch>>

\* One conflict, or the database, fails them all.
InsertFails(j) ==
    /\ import[j].step = "listed" /\ Valid(j) # {}
    /\ Report(j, 0)
    /\ UNCHANGED <<multi, branch, asset, removal>>

-----------------------------------------------------------------------------
(* Branches *)

\* A name is free again when its branch was deleted: only new names are modelled.
CreateBranch(b) ==
    /\ branch[b] = "none"
    /\ branch' = [branch EXCEPT ![b] = "live"]
    /\ UNCHANGED <<multi, asset, import, removal>>

\* Mutant: isNotNull(assets.deletedAt)
AssetsOfDeleted(b) == {t \in Tags : asset[t].known /\ ~asset[t].live /\ asset[t].branch = b}

\* countActiveAssetsInBranch
AssetsOf(b) == In(b)

CountAssets(d, b) ==
    /\ removal[d].step = "new" /\ branch[b] # "none"
    /\ removal' = [removal EXCEPT ![d] =
           [@ EXCEPT !.step = IF AssetsOf(b) = {} THEN "counted" ELSE "refused", !.branch = b]]
    /\ UNCHANGED <<multi, branch, asset, import>>

\* force=true skips the count.
Force(d, b) ==
    /\ removal[d].step = "new" /\ branch[b] # "none"
    /\ removal' = [removal EXCEPT ![d] = [@ EXCEPT !.step = "counted", !.branch = b, !.force = TRUE]]
    /\ UNCHANGED <<multi, branch, asset, import>>

\* softDeleteBranchById, of a branch that is not deleted yet.
DeleteBranch(d) ==
    LET b == removal[d].branch IN
    /\ removal[d].step = "counted"
    /\ IF branch[b] = "live"
       THEN /\ branch' = [branch EXCEPT ![b] = "deleted"]
            /\ removal' = [removal EXCEPT ![d] = [@ EXCEPT !.step = "deleted", !.left = In(b)]]
       ELSE /\ removal' = [removal EXCEPT ![d].step = "refused"]
            /\ UNCHANGED branch
    /\ UNCHANGED <<multi, asset, import>>

-----------------------------------------------------------------------------

Init ==
    /\ multi \in BOOLEAN
    /\ branch \in [Branches -> {"none", "live"}]
    /\ asset = [t \in Tags |-> NoAsset]
    /\ import = [j \in Imports |-> NewImport]
    /\ removal = [d \in Removals |-> NewRemoval]

Next ==
    \/ \E t \in Tags : DeleteAsset(t) \/ RestoreAsset(t) \/ \E b \in Places : Create(t, b)
    \/ \E t \in Tags, b \in Branches : Transfer(t, b)
    \/ \E j \in Imports : Insert(j) \/ InsertFails(j) \/ \E s \in Sheets : List(j, s)
    \/ \E b \in Branches : CreateBranch(b)
    \/ \E d \in Removals : DeleteBranch(d) \/ \E b \in Branches : CountAssets(d, b) \/ Force(d, b)

Spec == Init /\ [][Next]_vars

-----------------------------------------------------------------------------
(* Properties *)

\* Every row of a sheet that holds something is reported, inserted or failed, unless
\* a blank row stands above one of them: then as many are passed over in silence.
ImportAccounts ==
    \A j \in Imports : LET m == import[j]  s == m.sheet IN m.step = "done" =>
        \/ m.inserted + m.failed = Total(s)
        \/ /\ m.inserted + m.failed < Total(s)
           /\ \E i, k \in DOMAIN s : i < k /\ s[i].kind = "blank" /\ s[k].kind # "blank"

\* A branch that is deleted without force takes no asset with it that was there
\* when they were counted: what it leaves without a branch came in between.
OnlyNewcomersStranded ==
    /\ branch \in [Branches -> {"none", "live", "deleted"}]
    /\ asset \in [Tags -> [live: BOOLEAN, branch: Places, known: BOOLEAN]]
    /\ \A d \in Removals : removal[d].step = "deleted" /\ ~removal[d].force =>
           removal[d].left \subseteq removal[d].newcomers

=============================================================================
