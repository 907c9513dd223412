------------------------------ MODULE Requests ------------------------------
(***************************************************************************)
(* RateLimit and five parts of the services that share no state with it or *)
(* with one another, and that answer requests which may overlap:           *)
(* Recognition, Intake, AssetExport, Settings and Depreciation.  They are  *)
(* put side by side for what is checked and proved about them.             *)
(***************************************************************************)
EXTENDS RateLimit, Sequences, FiniteSets

CONSTANTS
    None,
    Assets, Patches, Costs, Lives, Threshold, MinLife,      \* Recognition
    Tags, Branches, Imports, Removals, Sheets, SheetRows,   \* Intake
    Listed, Exports, Times, Unit, PageSize, ExportRows,     \* AssetExport: the ids of its assets
    Calls, Fields, Values, DefaultValue,                    \* Settings
    Depreciable, Runs, LastYear, Terms, HandRecords         \* Depreciation: the ids of its assets

VARIABLES
    row, job,                                \* Recognition
    multi, branch, asset, import, removal,   \* Intake
    born, matching, export,                  \* AssetExport
    setting, call, last,                     \* Settings
    terms, snap, run, origin, behind         \* Depreciation

R == INSTANCE Recognition WITH Updates <- Patches
I == INSTANCE Intake WITH MaxRows <- SheetRows
E == INSTANCE AssetExport WITH Assets <- Listed, MaxRows <- ExportRows
S == INSTANCE Settings WITH Default <- DefaultValue
D == INSTANCE Depreciation WITH Assets <- Depreciable

\* Costs are in tenths of a cent, the threshold is in cents.
ASSUME CostsAreTenths == Costs \subseteq Nat /\ Threshold \in Nat /\ Threshold % 10 = 0
\* A sheet is a sequence of rows, each blank or with an asset's tag or with something wrong.
ASSUME SheetsAreRows ==
    /\ SheetRows \in Nat
    /\ \A s \in Sheets :
          /\ s \in Seq([kind: {"blank", "bad", "asset"}, tag: Tags \cup {""},
                        by: {"", "id", "name"}, branch: I!Places])
          /\ \A i \in DOMAIN s : s[i].kind = "asset" => s[i].tag \in Tags
\* Assets are finite in number, their ids and creation times are positive.
ASSUME PagesAreFinite == /\ IsFiniteSet(Listed) /\ Listed \subseteq Nat \ {0} /\ Times \subseteq Nat \ {0}
                         /\ Unit \in Nat \ {0} /\ PageSize \in Nat \ {0} /\ ExportRows \in Nat \ {0}
\* None is no cost, no row, no request and no settings.
ASSUME NoneIsApart == /\ None \notin Costs /\ None \notin R!Rows /\ None \notin R!Jobs
                      /\ None \notin [Fields -> Values \cup {DefaultValue}]

\* Assets are worth what TermsAreSound says.  What is recorded by hand satisfies
\* recordAssetDepreciationSchema, which lets the total differ from the sum by less
\* than a cent; the table then rounds each of the three amounts, by half a cent at most.
ASSUME LedgersAreSound ==
    /\ LastYear \in Nat /\ D!TermsAreSound
    /\ HandRecords \subseteq {h \in D!Snapshot : h.bf + h.charge - h.total \in -2..2}

-----------------------------------------------------------------------------
(* The properties of the parts *)

\* Recognition: the treatment is the one the fields call for.
RecognitionFits == R!RecognitionFits
\* Intake: every row of a sheet is reported.
ImportAccounts == I!ImportAccounts
\* Intake: only newcomers lose their branch when it is deleted without force.
OnlyNewcomersStranded == I!OnlyNewcomersStranded
\* AssetExport: what an export leaves out shares a millisecond with the end of a page.
SkipsShareMillisecond == E!SkipsShareMillisecond
\* Settings: making the row undoes no update.
SettingsKept == S!SettingsKept
\* Depreciation: no charge beyond the base.
ChargedWithinBase == D!ChargedWithinBase
\* Depreciation: the years add up.
LedgerAddsUp == D!LedgerAddsUp
\* Depreciation: rounding does not drift.
CentsFollowMonths == D!CentsFollowMonths

=============================================================================
