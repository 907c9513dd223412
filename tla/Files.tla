------------------------------- MODULE Files -------------------------------
(***************************************************************************)
(* Files on disk and the rows that name them (services/documents.service,  *)
(* controllers/documents, controllers/assets, services/assets.export).     *)
(*                                                                         *)
(* A request brings or makes one file.  An uploaded document moves from    *)
(* the temporary directory to the store and gets a row; the workbook of an *)
(* import is read and removed; the workbook of an export is written, sent  *)
(* and removed.  Every unlink swallows its error, a process may stop       *)
(* between any two steps, and nothing sweeps up later.                     *)
(***************************************************************************)
CONSTANT Requests

VARIABLES
    step,    \* where each request is
    disk,    \* where its file is
    row,     \* the row of the documents table that names the file
    reader,  \* of each document: what a download of it has come to
    denied,  \* history: inserts that committed and were reported as failed
    excuse   \* history: requests after which a file may stay behind

vars == <<step, disk, row, reader, denied, excuse>>

-----------------------------------------------------------------------------

\* received, moved, undo: an upload; importing: an import; filling, sending: an
\* export; drop, catch: the handlers of errors, the latter also a "finally".
InFlight == {"received", "importing", "drop", "moved", "undo", "catch", "filling", "sending"}
Steps    == {"new", "done", "stopped"} \cup InFlight

Goto(r, s)  == step' = [step EXCEPT ![r] = s]
Excuse(r)   == excuse' = excuse \cup {r}

\* unlink(path).catch(() => undefined): the file at a place is gone, was never
\* there, or stays.
Unlink(r, place) ==
    \/ /\ disk' = [disk EXCEPT ![r] = IF @ = place THEN "none" ELSE @]
       /\ UNCHANGED excuse
    \/ /\ disk[r] = place
       /\ Excuse(r)
       /\ UNCHANGED disk

-----------------------------------------------------------------------------
(* POST /documents *)

\* upload.single: multer has written the temporary file.
Receive(r) ==
    /\ step[r] = "new"
    /\ Goto(r, "received")
    /\ disk' = [disk EXCEPT ![r] = "temp"]
    /\ UNCHANGED <<row, reader, denied, excuse>>

\* The body does not fit uploadDocumentSchema.
BadBody(r) ==
    /\ step[r] = "received"
    /\ Goto(r, "catch")
    /\ UNCHANGED <<disk, row, reader, denied, excuse>>

\* The type is not allowed, the file is too large, or mkdir or rename failed.
NotStored(r) ==
    /\ step[r] = "received"
    /\ Goto(r, "drop")
    /\ UNCHANGED <<disk, row, reader, denied, excuse>>

\* The unlink of uploadDocumentService; the controller's follows.
Drop(r) ==
    /\ step[r] = "drop"
    /\ Unlink(r, "temp")
    /\ Goto(r, "catch")
    /\ UNCHANGED <<row, reader, denied>>

\* Mutant: the row is inserted first, the file moved after.
MoveLate(r) ==
    /\ step[r] = "received"
    /\ Goto(r, "moved")
    /\ UNCHANGED <<disk, row, reader, denied, excuse>>

\* mkdir, rename
Move(r) ==
    /\ step[r] = "received"
    /\ Goto(r, "moved")
    /\ disk' = [disk EXCEPT ![r] = "kept"]
    /\ UNCHANGED <<row, reader, denied, excuse>>

\* createDocument
Insert(r) ==
    /\ step[r] = "moved"
    /\ Goto(r, "done")
    /\ row' = [row EXCEPT ![r] = "live"]
    /\ UNCHANGED <<disk, reader, denied, excuse>>

\* The insert failed, or the connection was lost after it had committed.
InsertFails(r) ==
    /\ step[r] = "moved"
    /\ Goto(r, "undo")
    /\ \/ UNCHANGED <<row, denied>>
       \/ /\ row' = [row EXCEPT ![r] = "live"]
          /\ denied' = denied \cup {r}
    /\ UNCHANGED <<disk, reader, excuse>>

\* Mutant: the file is looked for where it no longer is.
UndoTemp(r) ==
    /\ step[r] = "undo"
    /\ Unlink(r, "temp")
    /\ Goto(r, "catch")
    /\ UNCHANGED <<row, reader, denied>>

\* "Rollback: delete the file if DB insert failed"
Undo(r) ==
    /\ step[r] = "undo"
    /\ Unlink(r, "kept")
    /\ Goto(r, "catch")
    /\ UNCHANGED <<row, reader, denied>>

\* The catch of uploadDocument, and the finally of importAssets.
Catch(r) ==
    /\ step[r] = "catch"
    /\ Unlink(r, "temp")
    /\ Goto(r, "done")
    /\ UNCHANGED <<row, reader, denied>>

-----------------------------------------------------------------------------
(* GET /documents/:id and /documents/:id/download, DELETE /documents/:id *)

\* findDocumentById
Find(r) ==
    /\ row[r] = "live"
    /\ reader' = [reader EXCEPT ![r] = "found"]
    /\ UNCHANGED <<step, disk, row, denied, excuse>>

\* fs.access, then the stream
Fetch(r) ==
    /\ reader[r] = "found"
    /\ reader' = [reader EXCEPT ![r] = IF disk[r] = "kept" THEN "served" ELSE "missing"]
    /\ UNCHANGED <<step, disk, row, denied, excuse>>

\* "We keep it for now for audit purposes": only the row is marked.
Delete(r) ==
    /\ row[r] = "live"
    /\ row' = [row EXCEPT ![r] = "deleted"]
    /\ UNCHANGED <<step, disk, reader, denied, excuse>>

-----------------------------------------------------------------------------
(* POST /assets/import, GET /assets/export *)

ReceiveWorkbook(r) ==
    /\ step[r] = "new"
    /\ Goto(r, "importing")
    /\ disk' = [disk EXCEPT ![r] = "temp"]
    /\ UNCHANGED <<row, reader, denied, excuse>>

\* Mutant: no "finally".
ImportOnly(r) ==
    /\ step[r] = "importing"
    /\ Goto(r, "done")
    /\ UNCHANGED <<disk, row, reader, denied, excuse>>

\* importAssetsFromExcelFile returned or threw.
Import(r) ==
    /\ step[r] = "importing"
    /\ Goto(r, "catch")
    /\ UNCHANGED <<disk, row, reader, denied, excuse>>

\* exportAssetsWorkbook: the writer has its file.
Export(r) ==
    /\ step[r] = "new"
    /\ Goto(r, "filling")
    /\ disk' = [disk EXCEPT ![r] = "temp"]
    /\ UNCHANGED <<row, reader, denied, excuse>>

\* A query threw, or the client left before anybody listened: nobody unlinks.
ExportLeft(r) ==
    /\ step[r] = "filling"
    /\ Goto(r, "done")
    /\ Excuse(r)
    /\ UNCHANGED <<disk, row, reader, denied>>

\* workbook.commit, res.on
Send(r) ==
    /\ step[r] = "filling"
    /\ Goto(r, "sending")
    /\ UNCHANGED <<disk, row, reader, denied, excuse>>

\* finish, close, or an error of the stream: cleanup, once.
Sent(r) ==
    /\ step[r] = "sending"
    /\ Unlink(r, "temp")
    /\ Goto(r, "done")
    /\ UNCHANGED <<row, reader, denied>>

-----------------------------------------------------------------------------

\* The process stops: every request it was serving ends where it was.
Stop ==
    /\ \E r \in Requests : step[r] \in InFlight
    /\ step' = [r \in Requests |-> IF step[r] \in InFlight THEN "stopped" ELSE step[r]]
    /\ excuse' = excuse \cup {r \in Requests : step[r] \in InFlight}
    /\ UNCHANGED <<disk, row, reader, denied>>

Init ==
    /\ step = [r \in Requests |-> "new"]
    /\ disk = [r \in Requests |-> "none"]
    /\ row = [r \in Requests |-> "none"]
    /\ reader = [r \in Requests |-> "none"]
    /\ denied = {}
    /\ excuse = {}

Upload(r)   == Receive(r) \/ BadBody(r) \/ NotStored(r) \/ Move(r) \/ Insert(r) \/ InsertFails(r)
Document(r) == Find(r) \/ Fetch(r) \/ Delete(r)
Workbook(r) == ReceiveWorkbook(r) \/ Import(r) \/ Export(r) \/ ExportLeft(r) \/ Send(r)
Remove(r)   == Drop(r) \/ Undo(r) \/ Catch(r) \/ Sent(r)

Next == Stop \/ \E r \in Requests : Upload(r) \/ Document(r) \/ Workbook(r) \/ Remove(r)

\* What a handler started goes on: awaited calls return or throw.
Proceed(r) ==
    \/ BadBody(r) \/ NotStored(r) \/ Move(r) \/ Insert(r) \/ InsertFails(r)
    \/ Import(r) \/ ExportLeft(r) \/ Send(r) \/ Remove(r)

Fairness == \A r \in Requests : WF_vars(Proceed(r))

Spec == Init /\ [][Next]_vars /\ Fairness

-----------------------------------------------------------------------------
(* Properties *)

\* Every variable stays in its domain.
TypeOK ==
    /\ step \in [Requests -> Steps]
    /\ disk \in [Requests -> {"none", "temp", "kept"}]
    /\ row \in [Requests -> {"none", "live", "deleted"}]
    /\ reader \in [Requests -> {"none", "found", "served", "missing"}]
    /\ denied \subseteq Requests
    /\ excuse \subseteq Requests

RowHasFile(r) ==
    /\ row[r] # "none" => disk[r] = "kept"
    /\ reader[r] # "missing"

Tidy(r) == step[r] = "done" /\ row[r] = "none" => disk[r] = "none"

\* A row, deleted or not, has its file in the store, and a download that found the
\* row gets it, even when the document is deleted in between; except where an
\* insert had committed when it was reported as failed.  Once a request is over,
\* its file is gone or has a row, unless an unlink failed, the process stopped, or
\* an export did not come to its end.
FilesAgree ==
    /\ \A r \in Requests \ denied : RowHasFile(r)
    /\ \A r \in Requests \ excuse : Tidy(r)

\* A temporary file does not stay: it goes, or a row comes to name it, with the
\* same exceptions.
FilesSettle ==
    \A r \in Requests :
        disk[r] = "temp" ~> disk[r] = "none" \/ row[r] # "none" \/ r \in excuse

=============================================================================
