------------------------- MODULE AssetRegisterProofs -------------------------
(***************************************************************************)
(* Theorems about AssetRegister, for every set of assets, requests, users  *)
(* and branches: its variables keep their types, the disposal ledger is    *)
(* exact, deleted rows are frozen, checked entries of the timeline are     *)
(* true, and the register implements the abstract lifecycle.               *)
(***************************************************************************)
EXTENDS AssetRegister, TLAPS

\* The inductive strengthening of DisposalLedger.  A request only ever holds
\* registered assets, a disposal in flight has seen its asset in service, a
\* restore names a status in service, and the ledger of an asset says exactly how it came to be disposed.
LedgerInv ==
    /\ \A s \in Sessions : job[s].on \subseteq registered
    /\ \A s \in Sessions : \A a \in job[s].on :
         job[s].op = "dispose" => job[s].seen[a].status # "disposed"
    /\ \A s \in Sessions : job[s].op = "restore" => job[s].payload.status \in InService
    /\ \A a \in Assets :
         asset[a].status # "disposed" => openDisposals[a] = 0 /\ a \notin bornDisposed
    /\ \A a \in Assets :
         asset[a].status = "disposed" =>
             /\ a \in registered
             /\ openDisposals[a] = IF a \in bornDisposed THEN 0 ELSE 1

IInv == TypeOK /\ LedgerInv

-----------------------------------------------------------------------------
(* Typing of the row operators *)

\* The SET list of an UPDATE keeps a row a row and never disposes of it.
LEMMA PatchedType ==
    ASSUME NEW row \in Row, NEW p \in Payload
    PROVE  /\ Patched(row, p) \in Row
           /\ Patched(row, p).deleted = row.deleted
           /\ p.status = Keep => Patched(row, p).status = row.status
           /\ p.status # Keep => Patched(row, p).status = p.status
           /\ row.status # "disposed" => Patched(row, p).status # "disposed"
  BY ValuesDistinct DEF Patched, Row, Payload, Status, InService

\* What the operations log is a timeline entry.
LEMMA LogEntryType ==
    ASSUME NEW type \in EventType, NEW bulk \in BOOLEAN,
           NEW previous \in Status \cup {None}, NEW new \in Status,
           NEW custody \in Row
    PROVE  LogEntry(type, bulk, previous, new, custody) \in Event
  BY DEF LogEntry, Event, Row

\* The initial rows, requests and events, and the payloads that only name a
\* status, are well typed.
LEMMA ConstantTypes ==
    /\ BlankRow \in Row
    /\ NoChange \in Payload
    /\ Idle \in Job
    /\ NoEvents \in [Assets -> Event \cup {NoEvent}]
    /\ \A st \in InService : [NoChange EXCEPT !.status = st] \in Payload
<1>1. BlankRow \in Row
  BY DEF BlankRow, Row, Status, InService
<1>2. NoChange \in Payload
  BY DEF NoChange, Payload
<1>3. Idle \in Job
  BY <1>1, <1>2 DEF Idle, Job
<1>4. NoEvents \in [Assets -> Event \cup {NoEvent}]
  BY DEF NoEvents
<1>5. \A st \in InService : [NoChange EXCEPT !.status = st] \in Payload
  BY DEF NoChange, Payload
<1> QED
  BY <1>1, <1>2, <1>3, <1>4, <1>5

\* A step that logs one entry, for one asset, keeps the log typed.
LEMMA OneEventType ==
    ASSUME NEW a \in Assets, NEW event \in Event
    PROVE  [NoEvents EXCEPT ![a] = event] \in [Assets -> Event \cup {NoEvent}]
  BY ConstantTypes

-----------------------------------------------------------------------------
(* Reads: Start leaves the register alone *)

\* A SELECT that starts a request on registered assets keeps the invariant.
LEMMA StartKeeps ==
    ASSUME IInv, NEW s \in Sessions, NEW S \in SUBSET registered, NEW p \in Payload,
           NEW op \in SingleOps \cup BulkOps \cup {"note"},
           op = "dispose" => \A a \in S : asset[a].status # "disposed",
           op = "restore" => p.status \in InService,
           Start(s, op, S, p)
    PROVE  IInv'
<1> DEFINE seen == [a \in Assets |-> IF a \in S THEN asset[a] ELSE BlankRow]
           j == [op |-> op, on |-> S, payload |-> p, seen |-> seen]
<1>1. job' = [job EXCEPT ![s] = j] /\ job \in [Sessions -> Job]
  BY DEF Start, IInv, TypeOK
<1>2. j \in Job
  BY ConstantTypes DEF IInv, TypeOK, Job
<1>3. logged' = NoEvents /\ UNCHANGED <<registered, asset, openDisposals, bornDisposed>>
  BY DEF Start
<1>4. TypeOK'
  BY <1>1, <1>2, <1>3, ConstantTypes DEF IInv, TypeOK
<1>5. \A t \in Sessions : job'[t] = IF t = s THEN j ELSE job[t]
  BY <1>1
<1>6. j.on = S /\ j.op = op /\ j.payload = p /\ \A a \in S : j.seen[a] = asset[a]
  BY DEF IInv, TypeOK
<1> HIDE DEF j
<1>7. LedgerInv'
  <2>1. \A t \in Sessions : job'[t].on \subseteq registered'
    BY <1>3, <1>5, <1>6 DEF IInv, LedgerInv
  <2>2. \A t \in Sessions : \A a \in job'[t].on :
          job'[t].op = "dispose" => job'[t].seen[a].status # "disposed"
    BY <1>5, <1>6 DEF IInv, LedgerInv
  <2>3. \A t \in Sessions : job'[t].op = "restore" => job'[t].payload.status \in InService
    BY <1>5, <1>6 DEF IInv, LedgerInv
  <2> QED
    BY <2>1, <2>2, <2>3, <1>3 DEF IInv, LedgerInv
<1> QED
  BY <1>4, <1>7 DEF IInv

\* Ending a request keeps the facts about requests in flight.
LEMMA FinishKeeps ==
    ASSUME IInv, NEW s \in Sessions, Finish(s)
    PROVE  /\ job' \in [Sessions -> Job]
           /\ \A t \in Sessions : job'[t].on \subseteq registered
           /\ \A t \in Sessions : \A a \in job'[t].on :
                job'[t].op = "dispose" => job'[t].seen[a].status # "disposed"
           /\ \A t \in Sessions : job'[t].op = "restore" => job'[t].payload.status \in InService
<1>1. job' = [job EXCEPT ![s] = Idle] /\ job \in [Sessions -> Job]
  BY DEF Finish, IInv, TypeOK
<1>2. \A t \in Sessions : job'[t] = IF t = s THEN Idle ELSE job[t]
  BY <1>1
<1> QED
  BY <1>1, <1>2, ConstantTypes DEF IInv, LedgerInv, Idle

-----------------------------------------------------------------------------
(* Steps that write rows *)

\* TrackDisposals keeps the ledger exact when the assets it files a record for
\* come from service to disposed, and every other asset that ends disposed was
\* disposed before.
LEMMA TrackKeepsLedger ==
    ASSUME IInv, NEW filed \in SUBSET Assets,
           asset' \in [Assets -> Row],
           \A a \in Assets : asset'[a].status = "disposed" => a \in registered,
           \A a \in filed : asset[a].status # "disposed",
           \A a \in Assets \ filed :
               asset'[a].status = "disposed" => asset[a].status = "disposed",
           TrackDisposals(filed)
    PROVE  /\ openDisposals' \in [Assets -> Nat]
           /\ bornDisposed' \subseteq registered
           /\ \A a \in Assets :
                asset'[a].status # "disposed" => openDisposals'[a] = 0 /\ a \notin bornDisposed'
           /\ \A a \in Assets :
                asset'[a].status = "disposed" =>
                    /\ a \in registered
                    /\ openDisposals'[a] = IF a \in bornDisposed' THEN 0 ELSE 1
<1>1. /\ openDisposals \in [Assets -> Nat] /\ bornDisposed \subseteq registered
      /\ registered \subseteq Assets
  BY DEF IInv, TypeOK
<1>2. \A a \in Assets : openDisposals'[a] =
        IF asset'[a].status # "disposed" THEN 0
        ELSE IF a \in filed THEN openDisposals[a] + 1 ELSE openDisposals[a]
  BY DEF TrackDisposals
<1>3. bornDisposed' = {a \in bornDisposed : asset'[a].status = "disposed"}
  BY DEF TrackDisposals
<1>4. openDisposals' \in [Assets -> Nat]
  BY <1>1 DEF TrackDisposals
<1>5. ASSUME NEW a \in Assets, asset'[a].status = "disposed"
      PROVE  openDisposals'[a] = IF a \in bornDisposed' THEN 0 ELSE 1
  <2>1. CASE a \in filed
    BY <1>2, <1>3, <1>5, <2>1 DEF IInv, LedgerInv
  <2>2. CASE a \notin filed
    BY <1>2, <1>3, <1>5, <2>2 DEF IInv, LedgerInv
  <2> QED
    BY <2>1, <2>2
<1> QED
  BY <1>1, <1>2, <1>3, <1>4, <1>5

\* A single-asset write whose new row is typed, and disposed only when the step
\* files a record for an asset in service or the asset was disposed already.
LEMMA WriteOneKeeps ==
    ASSUME IInv, NEW s \in Sessions, NEW a \in job[s].on, NEW row \in Row,
           NEW filed \in SUBSET {a}, NEW event \in Event,
           filed # {} => asset[a].status # "disposed",
           filed = {} => (row.status = "disposed" => asset[a].status = "disposed"),
           WriteOne(s, a, row, filed, event)
    PROVE  IInv'
<1>1. /\ a \in registered /\ registered \subseteq Assets
      /\ asset \in [Assets -> Row] /\ logged \in [Assets -> Event \cup {NoEvent}]
  BY DEF IInv, TypeOK, LedgerInv
<1>2. /\ asset' = [asset EXCEPT ![a] = row] /\ TrackDisposals(filed)
      /\ logged' = [NoEvents EXCEPT ![a] = event]
      /\ Finish(s) /\ registered' = registered
  BY DEF WriteOne
<1>3. asset' \in [Assets -> Row] /\ logged' \in [Assets -> Event \cup {NoEvent}]
  <2>1. a \in Assets
    BY <1>1
  <2> QED
    BY <1>1, <1>2, <2>1, OneEventType
<1>4. \A b \in Assets : asset'[b] = IF b = a THEN row ELSE asset[b]
  BY <1>1, <1>2
<1>5. \A b \in Assets : asset'[b].status = "disposed" => b \in registered
  BY <1>1, <1>4 DEF IInv, LedgerInv
<1>6. \A b \in Assets \ filed :
        asset'[b].status = "disposed" => asset[b].status = "disposed"
  BY <1>4
<1>7. \A b \in filed : asset[b].status # "disposed"
  OBVIOUS
<1>8. /\ openDisposals' \in [Assets -> Nat]
      /\ bornDisposed' \subseteq registered
      /\ \A b \in Assets :
           asset'[b].status # "disposed" => openDisposals'[b] = 0 /\ b \notin bornDisposed'
      /\ \A b \in Assets :
           asset'[b].status = "disposed" =>
               /\ b \in registered
               /\ openDisposals'[b] = IF b \in bornDisposed' THEN 0 ELSE 1
  <2>1. filed \in SUBSET Assets
    BY <1>1
  <2> QED
    BY <1>2, <1>3, <1>5, <1>6, <1>7, <2>1, TrackKeepsLedger
<1>9. /\ job' \in [Sessions -> Job]
      /\ \A t \in Sessions : job'[t].on \subseteq registered
      /\ \A t \in Sessions : \A b \in job'[t].on :
           job'[t].op = "dispose" => job'[t].seen[b].status # "disposed"
      /\ \A t \in Sessions : job'[t].op = "restore" => job'[t].payload.status \in InService
  BY <1>2, FinishKeeps
<1> QED
  BY <1>1, <1>2, <1>3, <1>8, <1>9 DEF IInv, TypeOK, LedgerInv

\* Inserting rows for unregistered assets.
LEMMA CreateKeeps ==
    ASSUME IInv, NEW S \in SUBSET Assets, S \cap registered = {},
           NEW new \in [S -> FreshRow], CreateAssets(new)
    PROVE  IInv'
<1> USE DEF IInv, TypeOK, LedgerInv
<1>1. DOMAIN new = S /\ \A a \in S : new[a] \in Row
  BY DEF FreshRow
<1>2. /\ registered' = registered \cup S
      /\ asset' = [a \in Assets |-> IF a \in S THEN new[a] ELSE asset[a]]
      /\ bornDisposed' = bornDisposed \cup {a \in S : new[a].status = "disposed"}
      /\ openDisposals' = openDisposals /\ job' = job
  BY <1>1 DEF CreateAssets
<1>3. \A a \in Assets : asset'[a] = IF a \in S THEN new[a] ELSE asset[a]
  BY <1>2
<1>4. asset' \in [Assets -> Row]
  BY <1>1, <1>2
<1>5. logged' \in [Assets -> Event \cup {NoEvent}]
  <2>1. \A a \in S : LogEntry("registered", FALSE, None, new[a].status, new[a]) \in Event
    BY <1>1, LogEntryType DEF Row, EventType
  <2> QED
    BY <1>1, <2>1 DEF CreateAssets
<1>6. \A a \in S : openDisposals[a] = 0 /\ a \notin bornDisposed
  OBVIOUS
<1> QED
  BY <1>1, <1>2, <1>3, <1>4, <1>5, <1>6

\* softDeleteAssetById keeps the invariant: it changes no status.
LEMMA SoftDeleteKeeps ==
    ASSUME IInv, NEW a \in Assets, SoftDelete(a)
    PROVE  IInv'
<1> USE DEF IInv, TypeOK, LedgerInv
<1>1. /\ asset' = [asset EXCEPT ![a].deleted = TRUE]
      /\ UNCHANGED <<registered, openDisposals, bornDisposed, job>>
  BY DEF SoftDelete
<1>2. asset' \in [Assets -> Row]
  BY <1>1 DEF Row
<1>3. \A b \in Assets : asset'[b].status = asset[b].status
  BY <1>1 DEF Row
<1>4. logged' \in [Assets -> Event \cup {NoEvent}]
  <2>1. LogEntry("deleted", FALSE, asset[a].status, asset[a].status, asset[a]) \in Event
    BY LogEntryType DEF Row, EventType
  <2> QED
    BY <2>1, OneEventType DEF SoftDelete
<1> QED
  BY <1>1, <1>2, <1>3, <1>4

\* A bulk write: the new rows are typed and none becomes disposed.
LEMMA BulkWriteKeeps ==
    ASSUME IInv, NEW s \in Sessions, NEW row \in [Assets -> Row],
           NEW type \in EventType,
           \A a \in Assets : row[a].status = "disposed" => asset[a].status = "disposed",
           BulkWrite(s, row, type)
    PROVE  IInv'
<1>1. /\ asset' = [a \in Assets |-> IF a \in BulkHits(s) THEN row[a] ELSE asset[a]]
      /\ TrackDisposals({}) /\ Finish(s) /\ registered' = registered
  BY DEF BulkWrite
<1>2. asset' \in [Assets -> Row]
  BY <1>1 DEF IInv, TypeOK
<1>3. \A a \in Assets : asset'[a].status = "disposed" => asset[a].status = "disposed"
  BY <1>1
<1>4. /\ openDisposals' \in [Assets -> Nat]
      /\ bornDisposed' \subseteq registered
      /\ \A a \in Assets :
           asset'[a].status # "disposed" => openDisposals'[a] = 0 /\ a \notin bornDisposed'
      /\ \A a \in Assets :
           asset'[a].status = "disposed" =>
               /\ a \in registered
               /\ openDisposals'[a] = IF a \in bornDisposed' THEN 0 ELSE 1
  <2>1. \A a \in Assets : asset'[a].status = "disposed" => a \in registered
    BY <1>3 DEF IInv, LedgerInv
  <2> QED
    BY <1>1, <1>2, <1>3, <2>1, TrackKeepsLedger
<1>5. /\ job' \in [Sessions -> Job]
      /\ \A t \in Sessions : job'[t].on \subseteq registered
      /\ \A t \in Sessions : \A b \in job'[t].on :
           job'[t].op = "dispose" => job'[t].seen[b].status # "disposed"
      /\ \A t \in Sessions : job'[t].op = "restore" => job'[t].payload.status \in InService
  BY <1>1, FinishKeeps
<1>6. logged' \in [Assets -> Event \cup {NoEvent}]
  <2>1. job[s] \in Job /\ logged \in [Assets -> Event \cup {NoEvent}]
    BY DEF IInv, TypeOK
  <2>2. \A a \in Assets :
          LogEntry(type, TRUE, job[s].seen[a].status,
                   Patched(job[s].seen[a], job[s].payload).status, job[s].seen[a]) \in Event
    <3> SUFFICES ASSUME NEW a \in Assets
                 PROVE  LogEntry(type, TRUE, job[s].seen[a].status,
                          Patched(job[s].seen[a], job[s].payload).status,
                          job[s].seen[a]) \in Event
      OBVIOUS
    <3>1. job[s].seen[a] \in Row /\ job[s].payload \in Payload
      BY <2>1 DEF Job
    <3>2. Patched(job[s].seen[a], job[s].payload) \in Row
      BY <3>1, PatchedType
    <3> QED
      BY <3>1, <3>2, LogEntryType DEF Row
  <2> QED
    BY <2>1, <2>2 DEF BulkWrite
<1> QED
  BY <1>1, <1>2, <1>4, <1>5, <1>6 DEF IInv, TypeOK, LedgerInv

-----------------------------------------------------------------------------
(* The steps of a request *)

\* What the payload, the row seen and the row now are, for the writes below.
LEMMA JobFacts ==
    ASSUME IInv, NEW s \in Sessions, NEW a \in job[s].on
    PROVE  /\ a \in Assets /\ a \in registered
           /\ asset[a] \in Row /\ job[s].seen[a] \in Row /\ job[s].payload \in Payload
  BY DEF IInv, TypeOK, LedgerInv, Job

\* The reads of single-asset operations and of notes.
LEMMA ReadKeeps ==
    ASSUME IInv, NEW s \in Sessions, NEW a \in Assets, Read(s, a)
    PROVE  IInv'
<1>1. CASE UpdateRead(s, a)
  <2>1. PICK p \in Payload : Start(s, "update", {a}, p)
    BY <1>1 DEF UpdateRead
  <2>2. {a} \in SUBSET registered
    BY <1>1 DEF UpdateRead, Live
  <2> QED
    BY <2>1, <2>2, StartKeeps DEF SingleOps
<1>2. CASE TransferRead(s, a)
  <2>1. PICK p \in Payload : Start(s, "transfer", {a}, p)
    BY <1>2 DEF TransferRead
  <2>2. {a} \in SUBSET registered
    BY <1>2 DEF TransferRead, Live
  <2> QED
    BY <2>1, <2>2, StartKeeps DEF SingleOps
<1>3. CASE TransitionRead(s, a)
  <2>1. PICK st \in InService : Start(s, "transition", {a}, [NoChange EXCEPT !.status = st])
    BY <1>3 DEF TransitionRead
  <2>2. {a} \in SUBSET registered
    BY <1>3 DEF TransitionRead, Live
  <2>3. [NoChange EXCEPT !.status = st] \in Payload
    BY ConstantTypes
  <2> QED
    BY <2>1, <2>2, <2>3, StartKeeps DEF SingleOps
<1>4. CASE DisposeRead(s, a)
  <2>1. Start(s, "dispose", {a}, NoChange) /\ asset[a].status # "disposed"
    BY <1>4 DEF DisposeRead
  <2>2. {a} \in SUBSET registered
    BY <1>4 DEF DisposeRead, Live
  <2> QED
    BY <2>1, <2>2, StartKeeps, ConstantTypes DEF SingleOps
<1>5. CASE RestoreRead(s, a)
  <2> DEFINE p(st) == [NoChange EXCEPT !.status = st]
  <2>1. PICK st \in InService : Start(s, "restore", {a}, p(st))
    BY <1>5 DEF RestoreRead
  <2>2. {a} \in SUBSET registered
    BY <1>5 DEF RestoreRead
  <2>3. p(st) \in Payload /\ p(st).status \in InService
    BY ConstantTypes DEF NoChange
  <2> HIDE DEF p
  <2> QED
    BY <2>1, <2>2, <2>3, StartKeeps DEF SingleOps
<1>6. CASE NoteRead(s, a)
  <2>1. Start(s, "note", {a}, NoChange) /\ {a} \in SUBSET registered
    BY <1>6 DEF NoteRead, Live
  <2> QED
    BY <2>1, StartKeeps, ConstantTypes
<1> QED
  BY <1>1, <1>2, <1>3, <1>4, <1>5, <1>6 DEF Read

\* The reads of bulk operations.
LEMMA BulkReadKeeps ==
    ASSUME IInv, NEW s \in Sessions, NEW S \in SUBSET Assets, BulkOpRead(s, S)
    PROVE  IInv'
<1>1. ASSUME NEW op \in BulkOps, NEW p \in Payload, BulkRead(s, op, S, p)
      PROVE  IInv'
  <2>1. BulkFilter(S, op, p) \in SUBSET registered
    BY DEF BulkFilter, Live
  <2>2. Start(s, op, BulkFilter(S, op, p), p) /\ op \notin {"dispose", "restore"}
    BY <1>1 DEF BulkRead, BulkOps
  <2> QED
    BY <2>1, <2>2, StartKeeps
<1>2. CASE BulkDeleteRead(s, S)
  BY <1>1, <1>2, ConstantTypes DEF BulkDeleteRead, BulkOps
<1>3. CASE BulkTransferRead(s, S)
  BY <1>1, <1>3 DEF BulkTransferRead, BulkOps
<1>4. CASE BulkStatusRead(s, S)
  BY <1>1, <1>4, ConstantTypes DEF BulkStatusRead, BulkOps
<1> QED
  BY <1>2, <1>3, <1>4 DEF BulkOpRead

\* A request that ends without writing a row; a note adds an event.
LEMMA NoteKeeps ==
    ASSUME IInv, NEW s \in Sessions, NoteWrite(s)
    PROVE  IInv'
<1>1. PICK a \in job[s].on :
        logged' = [NoEvents EXCEPT ![a] =
          LogEntry("noted", FALSE, job[s].seen[a].status, job[s].seen[a].status, BlankRow)]
  BY DEF NoteWrite
<1>2. LogEntry("noted", FALSE, job[s].seen[a].status, job[s].seen[a].status, BlankRow) \in Event
  BY JobFacts, LogEntryType, ConstantTypes DEF Row, EventType
<1>3. logged' \in [Assets -> Event \cup {NoEvent}]
  <2>1. a \in Assets
    BY JobFacts DEF IInv, TypeOK, LedgerInv
  <2> QED
    BY <1>1, <1>2, <2>1, OneEventType
<1>4. Finish(s) /\ UNCHANGED <<registered, asset, openDisposals, bornDisposed>>
  BY DEF NoteWrite
<1> QED
  BY <1>3, <1>4, FinishKeeps DEF IInv, TypeOK, LedgerInv

\* A request that ends without writing: a ConflictError or a rollback.
LEMMA EndKeeps ==
    ASSUME IInv, NEW s \in Sessions, Finish(s),
           logged' = NoEvents, UNCHANGED <<registered, asset, openDisposals, bornDisposed>>
    PROVE  IInv'
  BY FinishKeeps, ConstantTypes DEF IInv, TypeOK, LedgerInv

\* The writes of single-asset operations: each writes a typed row and event,
\* and only a disposal makes a row disposed.
LEMMA SingleWriteKeeps ==
    ASSUME IInv, NEW s \in Sessions,
           \/ UpdateWrite(s) \/ TransferWrite(s) \/ TransitionWrite(s)
           \/ DisposeWrite(s) \/ RestoreWrite(s)
    PROVE  IInv'
<1> DEFINE seen(a) == job[s].seen[a]
           pay == job[s].payload
<1>1. CASE UpdateWrite(s)
  <2> DEFINE row(a) == Patched(asset[a], pay)
             type(a) == IF row(a).assignedTo # seen(a).assignedTo THEN "assigned"
                        ELSE IF row(a).status # seen(a).status THEN "status_changed"
                        ELSE "updated"
             event(a) == LogEntry(type(a), FALSE, seen(a).status, row(a).status, seen(a))
  <2>1. PICK a \in job[s].on : WriteOne(s, a, row(a), {}, event(a))
    BY <1>1 DEF UpdateWrite
  <2>2. row(a) \in Row /\ (row(a).status = "disposed" => asset[a].status = "disposed")
    BY JobFacts, PatchedType
  <2>3. type(a) \in EventType
    BY DEF EventType
  <2>4. event(a) \in Event
    BY <2>2, <2>3, JobFacts, LogEntryType DEF Row
  <2> HIDE DEF row, event
  <2> QED
    BY <2>1, <2>2, <2>4, WriteOneKeeps
<1>2. CASE TransferWrite(s)
  <2> DEFINE new(a) == Patched(seen(a), pay)
             row(a) == [asset[a] EXCEPT !.branchId = new(a).branchId,
                                        !.assignedTo = new(a).assignedTo]
             event(a) == LogEntry("transferred", FALSE, seen(a).status,
                                  asset[a].status, seen(a))
  <2>1. PICK a \in job[s].on : WriteOne(s, a, row(a), {}, event(a))
    BY <1>2 DEF TransferWrite
  <2>2. new(a) \in Row
    BY JobFacts, PatchedType
  <2> HIDE DEF new
  <2>3. row(a) \in Row /\ row(a).status = asset[a].status
    BY <2>2, JobFacts DEF Row
  <2>4. event(a) \in Event
    BY JobFacts, LogEntryType DEF Row, EventType
  <2> HIDE DEF row, event
  <2> QED
    BY <2>1, <2>3, <2>4, WriteOneKeeps
<1>3. CASE TransitionWrite(s)
  <2> DEFINE row(a) == Patched(asset[a], pay)
             event(a) == LogEntry("status_changed", FALSE, seen(a).status,
                                  row(a).status, seen(a))
  <2>1. PICK a \in job[s].on : WriteOne(s, a, row(a), {}, event(a))
    BY <1>3 DEF TransitionWrite
  <2>2. row(a) \in Row /\ (row(a).status = "disposed" => asset[a].status = "disposed")
    BY JobFacts, PatchedType
  <2>3. event(a) \in Event
    BY <2>2, JobFacts, LogEntryType DEF Row, EventType
  <2> HIDE DEF row, event
  <2> QED
    BY <2>1, <2>2, <2>3, WriteOneKeeps
<1>4. CASE DisposeWrite(s)
  <2> DEFINE row(a) == [asset[a] EXCEPT !.status = "disposed", !.assignedTo = None]
             event(a) == LogEntry("disposed", FALSE, seen(a).status, "disposed", seen(a))
  <2>1. PICK a \in job[s].on : WriteOne(s, a, row(a), {a}, event(a))
    BY <1>4 DEF DisposeWrite
  <2>2. row(a) \in Row
    BY JobFacts DEF Row, Status
  <2>3. event(a) \in Event
    BY JobFacts, LogEntryType DEF Row, EventType, Status
  <2>4. asset[a].status # "disposed"
    <3>1. job[s].op = "dispose"
      BY <1>4 DEF DisposeWrite
    <3>2. asset[a].status = seen(a).status
      BY <2>1, <3>1 DEF WriteOne, Matches
    <3> QED
      BY <3>1, <3>2 DEF IInv, LedgerInv
  <2> HIDE DEF row, event
  <2> QED
    BY <2>1, <2>2, <2>3, <2>4, WriteOneKeeps
<1>5. CASE RestoreWrite(s)
  <2> DEFINE st == pay.status
             row(a) == [asset[a] EXCEPT !.status = st, !.deleted = FALSE]
             event(a) == LogEntry("restored", FALSE, seen(a).status, st, seen(a))
  <2>1. PICK a \in job[s].on : WriteOne(s, a, row(a), {}, event(a))
    BY <1>5 DEF RestoreWrite
  <2>2. st \in InService
    BY <1>5 DEF RestoreWrite, IInv, LedgerInv
  <2>3. row(a) \in Row /\ row(a).status # "disposed"
    BY <2>2, JobFacts DEF Row, Status, InService
  <2>4. event(a) \in Event
    BY <2>2, JobFacts, LogEntryType DEF Row, EventType, Status
  <2> HIDE DEF row, event
  <2> QED
    BY <2>1, <2>3, <2>4, WriteOneKeeps
<1> QED
  BY <1>1, <1>2, <1>3, <1>4, <1>5

\* The writes of bulk operations.
LEMMA BulkWritesKeep ==
    ASSUME IInv, NEW s \in Sessions,
           BulkDeleteWrite(s) \/ BulkTransferWrite(s) \/ BulkStatusWrite(s)
    PROVE  IInv'
<1>1. asset \in [Assets -> Row] /\ job[s].payload \in Payload
  BY DEF IInv, TypeOK, Job
<1> DEFINE gone == [a \in Assets |-> [asset[a] EXCEPT !.deleted = TRUE]]
           patched == [a \in Assets |-> Patched(asset[a], job[s].payload)]
<1>2. gone \in [Assets -> Row] /\ \A a \in Assets : gone[a].status = asset[a].status
  BY <1>1 DEF Row
<1>3. /\ patched \in [Assets -> Row]
      /\ \A a \in Assets : patched[a].status = "disposed" => asset[a].status = "disposed"
  BY <1>1, PatchedType
<1>4. \/ BulkWrite(s, gone, "deleted")
      \/ BulkWrite(s, patched, "transferred") \/ BulkWrite(s, patched, "status_changed")
  BY DEF BulkDeleteWrite, BulkTransferWrite, BulkStatusWrite
<1> HIDE DEF gone, patched
<1> QED
  BY <1>2, <1>3, <1>4, BulkWriteKeeps DEF EventType

-----------------------------------------------------------------------------
(* Theorems *)

\* An empty register satisfies the invariant.
LEMMA InitIInv == Init => IInv
<1> SUFFICES ASSUME Init PROVE IInv
  OBVIOUS
<1>1. TypeOK
  BY ConstantTypes DEF Init, TypeOK
<1>2. \A s \in Sessions : job[s] = Idle
  BY DEF Init
<1>3. Idle.on = {} /\ Idle.op = "idle"
  BY DEF Idle
<1>4. \A a \in Assets : asset[a].status = "active" /\ openDisposals[a] = 0
  BY DEF Init, BlankRow
<1>5. bornDisposed = {}
  BY DEF Init
<1> QED
  BY <1>1, <1>2, <1>3, <1>4, <1>5 DEF IInv, LedgerInv

\* Every step of every request keeps the invariant.
LEMMA NextIInv == IInv /\ [Next]_vars => IInv'
<1> SUFFICES ASSUME IInv, [Next]_vars PROVE IInv'
  OBVIOUS
<1>1. ASSUME NEW a \in Assets, CreateAsset(a) PROVE IInv'
  <2>1. PICK r \in FreshRow : CreateAssets([x \in {a} |-> r])
    BY <1>1 DEF CreateAsset
  <2>2. [x \in {a} |-> r] \in [{a} -> FreshRow] /\ {a} \cap registered = {}
    BY <1>1 DEF CreateAsset
  <2> QED
    BY <2>1, <2>2, CreateKeeps
<1>2. ASSUME NEW a \in Assets, SoftDelete(a) PROVE IInv'
  BY <1>2, SoftDeleteKeeps
<1>3. ASSUME NEW S \in SUBSET Assets, BulkCreate(S) PROVE IInv'
  BY <1>3, CreateKeeps DEF BulkCreate
<1>4. ASSUME NEW s \in Sessions, NEW a \in Assets, Read(s, a) PROVE IInv'
  BY <1>4, ReadKeeps
<1>5. ASSUME NEW s \in Sessions, NEW S \in SUBSET Assets, BulkOpRead(s, S) PROVE IInv'
  BY <1>5, BulkReadKeeps
<1>6. ASSUME NEW s \in Sessions, Write(s) PROVE IInv'
  BY <1>6, NoteKeeps, SingleWriteKeeps, BulkWritesKeep DEF Write
<1>7. ASSUME NEW s \in Sessions, Conflict(s) \/ Abandon(s) PROVE IInv'
  BY <1>7, EndKeeps DEF Conflict, Abandon
<1>8. CASE UNCHANGED vars
  BY <1>8 DEF vars, IInv, TypeOK, LedgerInv
<1> QED
  BY <1>1, <1>2, <1>3, <1>4, <1>5, <1>6, <1>7, <1>8 DEF Next

\* IInv holds in every reachable state, for any number of assets and requests.
THEOREM Invariance == Spec => []IInv
  BY InitIInv, NextIInv, PTL DEF Spec

\* Every variable keeps its type: no handler leaves a row, an event or a request
\* outside its domain.
THEOREM Typing == Spec => []TypeOK
  BY Invariance, PTL DEF IInv

\* The disposal ledger is exact for any number of concurrent requests: at most
\* one asset_disposals row since an asset was last in service, and exactly one
\* for a disposed asset that was not registered as disposed (disposeAssetById).
THEOREM LedgerExact == Spec => []DisposalLedger
<1>1. IInv => DisposalLedger
  BY DEF IInv, TypeOK, LedgerInv, DisposalLedger
<1> QED
  BY <1>1, Invariance, PTL

-----------------------------------------------------------------------------
(* Action properties: what a step may never do *)

\* What a step may do to the row of a deleted asset, and what it may log.
Frozen == \A a \in registered :
    asset[a].deleted /\ asset'[a] # asset[a] =>
        /\ ~asset'[a].deleted
        /\ asset'[a].status \in InService
        /\ asset'[a].assignedTo = asset[a].assignedTo
        /\ logged'[a].type = "restored"

ExactLog == \A s \in Sessions, a \in Assets :
    Logs(s, a) /\ job[s].op \in {"transfer", "transition", "dispose"}
    => /\ logged'[a].previousStatus = asset[a].status
       /\ logged'[a].newStatus = asset'[a].status
       /\ job[s].op = "transfer" =>
            /\ logged'[a].branchId = asset[a].branchId
            /\ logged'[a].assignedTo = asset[a].assignedTo

\* A single-asset write by s of the asset a: which rows and entries it leaves,
\* and whose request it ends.
LEMMA WriteOneEffect ==
    ASSUME IInv, NEW s \in Sessions, NEW a \in job[s].on, NEW row, NEW filed, NEW event,
           WriteOne(s, a, row, filed, event)
    PROVE  /\ a \in Assets
           /\ \A b \in Assets : asset'[b] = IF b = a THEN row ELSE asset[b]
           /\ \A b \in Assets : logged'[b] = IF b = a THEN event ELSE NoEvent
           /\ \A t \in Sessions : t # s => job'[t] = job[t]
           /\ Matches(job[s].op, asset[a], job[s].seen[a])
  BY JobFacts DEF WriteOne, Finish, NoEvents, IInv, TypeOK

\* A write that is not a restore leaves a deleted row alone: its WHERE clause
\* has deleted_at IS NULL.
LEMMA WriteOneSparesDeleted ==
    ASSUME IInv, NEW s \in Sessions, NEW a \in job[s].on, NEW row, NEW filed, NEW event,
           job[s].op # "restore", WriteOne(s, a, row, filed, event)
    PROVE  \A b \in Assets : asset[b].deleted => asset'[b] = asset[b]
  BY WriteOneEffect DEF Matches

\* Every write of a request respects what a deletion has frozen.
LEMMA WriteFrozen ==
    ASSUME IInv, NEW s \in Sessions, Write(s)
    PROVE  Frozen
<1>1. registered \subseteq Assets /\ asset \in [Assets -> Row]
  BY DEF IInv, TypeOK
<1>2. CASE UpdateWrite(s) \/ TransferWrite(s) \/ TransitionWrite(s) \/ DisposeWrite(s)
  <2>1. \E a \in job[s].on : \E row, filed, event : WriteOne(s, a, row, filed, event)
    BY <1>2 DEF UpdateWrite, TransferWrite, TransitionWrite, DisposeWrite
  <2>2. job[s].op # "restore"
    BY <1>2 DEF UpdateWrite, TransferWrite, TransitionWrite, DisposeWrite
  <2>3. \A b \in Assets : asset[b].deleted => asset'[b] = asset[b]
    BY <2>1, <2>2, WriteOneSparesDeleted
  <2> QED
    BY <1>1, <2>3 DEF Frozen
<1>3. CASE RestoreWrite(s)
  <2> DEFINE st == job[s].payload.status
             row(a) == [asset[a] EXCEPT !.status = st, !.deleted = FALSE]
             event(a) == LogEntry("restored", FALSE, job[s].seen[a].status, st, job[s].seen[a])
  <2>1. PICK a \in job[s].on : WriteOne(s, a, row(a), {}, event(a))
    BY <1>3 DEF RestoreWrite
  <2>2. st \in InService
    BY <1>3 DEF RestoreWrite, IInv, LedgerInv
  <2>3. event(a).type = "restored"
    BY DEF LogEntry
  <2>4. asset[a] \in Row
    BY JobFacts
  <2>5. /\ row(a).status = st /\ row(a).deleted = FALSE
        /\ row(a).assignedTo = asset[a].assignedTo
    BY <2>4 DEF Row
  <2> HIDE DEF row, event, st
  <2>6. /\ \A b \in Assets : asset'[b] = IF b = a THEN row(a) ELSE asset[b]
        /\ \A b \in Assets : logged'[b] = IF b = a THEN event(a) ELSE NoEvent
    BY <2>1, WriteOneEffect
  <2> QED
    BY <1>1, <2>2, <2>3, <2>5, <2>6 DEF Frozen
<1>4. CASE NoteWrite(s)
  BY <1>4 DEF NoteWrite, Frozen
<1>5. CASE BulkDeleteWrite(s) \/ BulkTransferWrite(s) \/ BulkStatusWrite(s)
  <2>1. \E row : asset' = [a \in Assets |-> IF a \in BulkHits(s) THEN row[a] ELSE asset[a]]
    BY <1>5 DEF BulkDeleteWrite, BulkTransferWrite, BulkStatusWrite, BulkWrite
  <2>2. \A b \in Assets : asset[b].deleted => asset'[b] = asset[b]
    BY <2>1 DEF BulkHits
  <2> QED
    BY <1>1, <2>2 DEF Frozen
<1> QED
  BY <1>2, <1>3, <1>4, <1>5 DEF Write

\* Every write of a checked operation logs what its WHERE clause compared.
LEMMA WriteLogsExactly ==
    ASSUME IInv, NEW s \in Sessions, Write(s)
    PROVE  ExactLog
<1>1. CASE TransferWrite(s)
  <2> DEFINE new(a) == Patched(job[s].seen[a], job[s].payload)
             row(a) == [asset[a] EXCEPT !.branchId = new(a).branchId,
                                        !.assignedTo = new(a).assignedTo]
             event(a) == LogEntry("transferred", FALSE, job[s].seen[a].status,
                                  asset[a].status, job[s].seen[a])
  <2>1. PICK a \in job[s].on : WriteOne(s, a, row(a), {}, event(a))
    BY <1>1 DEF TransferWrite
  <2>2. /\ event(a).previousStatus = job[s].seen[a].status
        /\ event(a).newStatus = asset[a].status
        /\ event(a).branchId = job[s].seen[a].branchId
        /\ event(a).assignedTo = job[s].seen[a].assignedTo
    BY DEF LogEntry
  <2>3. asset[a] \in Row
    BY JobFacts
  <2>4. row(a).status = asset[a].status
    BY <2>3 DEF Row
  <2> HIDE DEF row, event
  <2>5. /\ a \in Assets
        /\ \A b \in Assets : asset'[b] = IF b = a THEN row(a) ELSE asset[b]
        /\ \A b \in Assets : logged'[b] = IF b = a THEN event(a) ELSE NoEvent
        /\ \A t \in Sessions : t # s => job'[t] = job[t]
        /\ Matches(job[s].op, asset[a], job[s].seen[a])
    BY <2>1, WriteOneEffect
  <2>6. /\ asset[a].status = job[s].seen[a].status
        /\ asset[a].branchId = job[s].seen[a].branchId
        /\ asset[a].assignedTo = job[s].seen[a].assignedTo
    BY <1>1, <2>5 DEF Matches, TransferWrite
  <2> QED
    BY <2>2, <2>4, <2>5, <2>6 DEF ExactLog, Logs
<1>2. CASE TransitionWrite(s)
  <2> DEFINE row(a) == Patched(asset[a], job[s].payload)
             event(a) == LogEntry("status_changed", FALSE, job[s].seen[a].status,
                                  row(a).status, job[s].seen[a])
  <2>1. PICK a \in job[s].on : WriteOne(s, a, row(a), {}, event(a))
    BY <1>2 DEF TransitionWrite
  <2> HIDE DEF row
  <2>2. /\ event(a).previousStatus = job[s].seen[a].status
        /\ event(a).newStatus = row(a).status
    BY DEF LogEntry
  <2> HIDE DEF event
  <2>3. /\ a \in Assets
        /\ \A b \in Assets : asset'[b] = IF b = a THEN row(a) ELSE asset[b]
        /\ \A b \in Assets : logged'[b] = IF b = a THEN event(a) ELSE NoEvent
        /\ \A t \in Sessions : t # s => job'[t] = job[t]
        /\ Matches(job[s].op, asset[a], job[s].seen[a])
    BY <2>1, WriteOneEffect
  <2>4. job[s].op = "transition" /\ asset[a].status = job[s].seen[a].status
    BY <1>2, <2>3 DEF Matches, TransitionWrite
  <2> QED
    BY <2>2, <2>3, <2>4 DEF ExactLog, Logs
<1>3. CASE DisposeWrite(s)
  <2> DEFINE row(a) == [asset[a] EXCEPT !.status = "disposed", !.assignedTo = None]
             event(a) == LogEntry("disposed", FALSE, job[s].seen[a].status, "disposed",
                                  job[s].seen[a])
  <2>1. PICK a \in job[s].on : WriteOne(s, a, row(a), {a}, event(a))
    BY <1>3 DEF DisposeWrite
  <2>2. /\ event(a).previousStatus = job[s].seen[a].status
        /\ event(a).newStatus = "disposed"
    BY DEF LogEntry
  <2>3. asset[a] \in Row
    BY JobFacts
  <2>4. row(a).status = "disposed"
    BY <2>3 DEF Row
  <2> HIDE DEF row, event
  <2>5. /\ a \in Assets
        /\ \A b \in Assets : asset'[b] = IF b = a THEN row(a) ELSE asset[b]
        /\ \A b \in Assets : logged'[b] = IF b = a THEN event(a) ELSE NoEvent
        /\ \A t \in Sessions : t # s => job'[t] = job[t]
        /\ Matches(job[s].op, asset[a], job[s].seen[a])
    BY <2>1, WriteOneEffect
  <2>6. job[s].op = "dispose" /\ asset[a].status = job[s].seen[a].status
    BY <1>3, <2>5 DEF Matches, DisposeWrite
  <2> QED
    BY <2>2, <2>4, <2>5, <2>6 DEF ExactLog, Logs
<1>4. CASE job[s].op \notin {"transfer", "transition", "dispose"}
  <2>1. Finish(s) /\ job \in [Sessions -> Job]
    BY DEF IInv, TypeOK, Write, WriteOne, BulkWrite, UpdateWrite, TransferWrite,
       TransitionWrite, DisposeWrite, RestoreWrite, NoteWrite, BulkDeleteWrite,
       BulkTransferWrite, BulkStatusWrite
  <2>2. \A t \in Sessions : t # s => job'[t] = job[t]
    BY <2>1 DEF Finish
  <2> QED
    BY <1>4, <2>2 DEF ExactLog, Logs
<1> QED
  BY <1>1, <1>2, <1>3, <1>4 DEF Write, UpdateWrite, RestoreWrite, NoteWrite,
     BulkDeleteWrite, BulkTransferWrite, BulkStatusWrite

\* Registration touches no registered row and ends no request.
LEMMA CreateSpares ==
    ASSUME IInv, NEW S \in SUBSET Assets, S \cap registered = {},
           NEW new \in [S -> FreshRow], CreateAssets(new)
    PROVE  Frozen /\ ExactLog
<1>1. registered \subseteq Assets /\ DOMAIN new = S
  BY DEF IInv, TypeOK
<1>2. \A a \in registered : asset'[a] = asset[a]
  BY <1>1 DEF CreateAssets
<1>3. job' = job
  BY DEF CreateAssets
<1> QED
  BY <1>2, <1>3 DEF Frozen, ExactLog, Logs

\* A step that leaves the rows alone freezes them all, and one that starts a
\* request, or ends one without an entry, logs nothing wrong.
LEMMA QuietSpares ==
    ASSUME IInv, asset' = asset, job' = job \/ logged' = NoEvents
    PROVE  Frozen /\ ExactLog
  BY DEF Frozen, ExactLog, Logs, NoEvents

\* What every step does to deleted rows and to the timeline.
LEMMA NextSpares == IInv /\ [Next]_vars => Frozen /\ ExactLog
<1> SUFFICES ASSUME IInv, [Next]_vars PROVE Frozen /\ ExactLog
  OBVIOUS
<1>1. ASSUME NEW a \in Assets, CreateAsset(a) PROVE Frozen /\ ExactLog
  <2>1. PICK r \in FreshRow : CreateAssets([x \in {a} |-> r])
    BY <1>1 DEF CreateAsset
  <2>2. [x \in {a} |-> r] \in [{a} -> FreshRow] /\ {a} \cap registered = {}
    BY <1>1 DEF CreateAsset
  <2> QED
    BY <2>1, <2>2, CreateSpares
<1>2. ASSUME NEW S \in SUBSET Assets, BulkCreate(S) PROVE Frozen /\ ExactLog
  BY <1>2, CreateSpares DEF BulkCreate
<1>3. ASSUME NEW a \in Assets, SoftDelete(a) PROVE Frozen /\ ExactLog
  <2>1. \A b \in Assets : asset[b].deleted => asset'[b] = asset[b]
    BY <1>3 DEF SoftDelete, Live, IInv, TypeOK
  <2>2. job' = job /\ registered \subseteq Assets
    BY <1>3 DEF SoftDelete, IInv, TypeOK
  <2> QED
    BY <2>1, <2>2 DEF Frozen, ExactLog, Logs
<1>4. ASSUME NEW s \in Sessions, NEW a \in Assets, Read(s, a) PROVE Frozen /\ ExactLog
  BY <1>4, QuietSpares DEF Read, UpdateRead, TransferRead, TransitionRead, DisposeRead,
     RestoreRead, NoteRead, Start
<1>5. ASSUME NEW s \in Sessions, NEW S \in SUBSET Assets, BulkOpRead(s, S)
      PROVE  Frozen /\ ExactLog
  BY <1>5, QuietSpares DEF BulkOpRead, BulkDeleteRead, BulkTransferRead, BulkStatusRead,
     BulkRead, Start
<1>6. ASSUME NEW s \in Sessions, Write(s) PROVE Frozen /\ ExactLog
  BY <1>6, WriteFrozen, WriteLogsExactly
<1>7. ASSUME NEW s \in Sessions, Conflict(s) \/ Abandon(s) PROVE Frozen /\ ExactLog
  BY <1>7, QuietSpares DEF Conflict, Abandon
<1>8. CASE UNCHANGED vars
  BY <1>8, QuietSpares DEF vars
<1> QED
  BY <1>1, <1>2, <1>3, <1>4, <1>5, <1>6, <1>7, <1>8 DEF Next

\* A soft-deleted asset is frozen, for any number of concurrent requests: only a
\* restore into service changes its row, and it keeps the assignee (the
\* deleted_at IS NULL of every other UPDATE in repositories/assets.ts and bulk.ts).
THEOREM DeletedStaysFrozen == Spec => DeletedIsFrozen
<1>1. IInv /\ [Next]_vars =>
        [\A a \in registered :
           asset[a].deleted /\ asset'[a] # asset[a] =>
               /\ ~asset'[a].deleted
               /\ asset'[a].status \in InService
               /\ asset'[a].assignedTo = asset[a].assignedTo
               /\ logged'[a].type = "restored"]_vars
  BY NextSpares DEF Frozen
<1> QED
  BY <1>1, Invariance, PTL DEF Spec, DeletedIsFrozen

\* The timeline of transfers, status transitions and disposals says what really
\* happened, for any number of concurrent requests (the optimistic checks in the
\* WHERE clauses of repositories/assets.ts).
THEOREM TimelineIsExact == Spec => CheckedEventsAreExact
<1>1. IInv /\ [Next]_vars =>
        [\A s \in Sessions, a \in Assets :
           Logs(s, a) /\ job[s].op \in {"transfer", "transition", "dispose"}
           => /\ logged'[a].previousStatus = asset[a].status
              /\ logged'[a].newStatus = asset'[a].status
              /\ job[s].op = "transfer" =>
                   /\ logged'[a].branchId = asset[a].branchId
                   /\ logged'[a].assignedTo = asset[a].assignedTo]_vars
  BY NextSpares DEF ExactLog
<1> QED
  BY <1>1, Invariance, PTL DEF Spec, CheckedEventsAreExact

-----------------------------------------------------------------------------
(* Refinement: the register implements AssetLifecycle *)

\* The refinement mapping of Lifecycle.
LifeOf(a) ==
    IF a \in registered THEN [status |-> asset[a].status, deleted |-> asset[a].deleted]
    ELSE [status |-> "absent", deleted |-> FALSE]
Life  == [a \in Assets |-> LifeOf(a)]
Filed == openDisposals

\* A step of the register is a step of the lifecycle or leaves it alone.
Maps == Lifecycle!Next \/ (Life' = Life /\ Filed' = Filed)

\* A step that leaves the rows and the disposals alone.
LEMMA QuietMaps ==
    ASSUME UNCHANGED <<registered, asset, openDisposals>>
    PROVE  Maps
  BY DEF Maps, Life, LifeOf, Filed

\* Registration maps to Register.
LEMMA CreateMaps ==
    ASSUME IInv, NEW S \in SUBSET Assets, S \cap registered = {},
           NEW new \in [S -> FreshRow], CreateAssets(new)
    PROVE  Maps
<1> DEFINE st == [a \in S |-> new[a].status]
<1>1. DOMAIN new = S /\ \A a \in S : new[a] \in Row /\ ~new[a].deleted
  BY DEF FreshRow
<1>2. st \in [S -> Lifecycle!Working \cup {"disposed"}]
  BY <1>1 DEF Row, Status, InService, Lifecycle!Working
<1>3. /\ registered' = registered \cup S /\ openDisposals' = openDisposals
      /\ \A a \in Assets : asset'[a] = IF a \in S THEN new[a] ELSE asset[a]
  BY <1>1 DEF CreateAssets
<1>4. \A a \in S : new[a].deleted = FALSE
  BY <1>1 DEF Row
<1>5. Life' = [a \in Assets |->
               IF a \in S THEN [status |-> st[a], deleted |-> FALSE] ELSE Life[a]]
  BY <1>1, <1>3, <1>4 DEF Life, LifeOf
<1>6. \A a \in S : Life[a] = Lifecycle!Absent
  BY DEF Life, LifeOf, Lifecycle!Absent
<1>7. Lifecycle!Register(S)
  BY <1>2, <1>3, <1>5, <1>6 DEF Lifecycle!Register, Life, LifeOf, Filed
<1> QED
  BY <1>7 DEF Maps, Lifecycle!Next

\* Deleting live assets maps to Delete.
LEMMA DeleteMaps ==
    ASSUME IInv, NEW S \in SUBSET registered, \A a \in S : ~asset[a].deleted,
           \A a \in Assets : /\ asset'[a].status = asset[a].status
                            /\ asset'[a].deleted = IF a \in S THEN TRUE ELSE asset[a].deleted,
           registered' = registered, Filed' = Filed
    PROVE  Maps
<1>1. S \in SUBSET Assets
  BY DEF IInv, TypeOK
<1>2. Life' = [a \in Assets |-> IF a \in S THEN [Life[a] EXCEPT !.deleted = TRUE] ELSE Life[a]]
  <2>1. \A a \in Assets : LifeOf(a)' =
          IF a \in S THEN [LifeOf(a) EXCEPT !.deleted = TRUE] ELSE LifeOf(a)
    BY DEF LifeOf
  <2> QED
    BY <2>1 DEF Life
<1>3. \A a \in S : Lifecycle!Alive(a)
  BY <1>1 DEF Lifecycle!Alive, Life, LifeOf, IInv, TypeOK, Row, Status, InService
<1>4. Lifecycle!Delete(S)
  BY <1>2, <1>3 DEF Lifecycle!Delete, Life, LifeOf, Filed
<1> QED
  BY <1>1, <1>4 DEF Maps, Lifecycle!Next

\* What TrackDisposals does to the ledger when no asset is disposed anew.
LEMMA TrackCounts ==
    ASSUME IInv, TrackDisposals({}),
           \A a \in Assets : asset'[a].status = "disposed" => asset[a].status = "disposed"
    PROVE  \A a \in Assets : openDisposals'[a] =
             IF asset'[a].status # asset[a].status THEN 0 ELSE openDisposals[a]
  BY DEF TrackDisposals, IInv, LedgerInv

\* Setting the status of live assets to one in service maps to Revise; a
\* payload without a status leaves the lifecycle alone.
LEMMA ReviseMaps ==
    ASSUME IInv, NEW S \in SUBSET registered, \A a \in S : ~asset[a].deleted,
           NEW st \in InService \cup {Keep},
           \A a \in Assets :
               /\ asset'[a].deleted = asset[a].deleted
               /\ asset'[a].status = IF a \in S /\ st # Keep THEN st ELSE asset[a].status,
           registered' = registered, TrackDisposals({})
    PROVE  Maps
<1>1. S \in SUBSET Assets
  BY DEF IInv, TypeOK
<1>2. \A a \in Assets : openDisposals'[a] =
        IF asset'[a].status # asset[a].status THEN 0 ELSE openDisposals[a]
  BY TrackCounts, ValuesDistinct DEF InService, Status
<1>3. \A a \in Assets : asset[a].status # "disposed" => openDisposals[a] = 0
  BY DEF IInv, LedgerInv
<1>4. openDisposals \in [Assets -> Nat]
  BY DEF IInv, TypeOK
<1>5. CASE st = Keep
  <2>1. Life' = Life
    BY <1>5 DEF Life, LifeOf
  <2>2. Filed' = Filed
    BY <1>2, <1>4, <1>5 DEF Filed, TrackDisposals
  <2> QED
    BY <2>1, <2>2 DEF Maps
<1>6. CASE st # Keep
  <2>1. st \in Lifecycle!Working /\ st # "disposed"
    BY <1>6 DEF Lifecycle!Working, InService
  <2>2. Life' = [a \in Assets |->
                  IF a \in S THEN [status |-> st, deleted |-> FALSE] ELSE Life[a]]
    <3>1. \A a \in S : asset[a].deleted = FALSE
      BY <1>1 DEF IInv, TypeOK, Row
    <3>2. \A a \in Assets : LifeOf(a)' =
            IF a \in S THEN [status |-> st, deleted |-> FALSE] ELSE LifeOf(a)
      BY <1>6, <3>1 DEF LifeOf
    <3> QED
      BY <3>2 DEF Life
  <2>3. \A a \in Assets : openDisposals'[a] = IF a \in S THEN 0 ELSE openDisposals[a]
    BY <1>2, <1>3, <1>6, <2>1
  <2>4. Filed' = [a \in Assets |-> IF a \in S THEN 0 ELSE Filed[a]]
    BY <2>3 DEF Filed, TrackDisposals
  <2>5. \A a \in S : Lifecycle!Alive(a)
    BY <1>1 DEF Lifecycle!Alive, Life, LifeOf, IInv, TypeOK, Row, Status, InService
  <2>6. Lifecycle!Revise(S)
    BY <2>1, <2>2, <2>4, <2>5 DEF Lifecycle!Revise, Life, LifeOf, Filed
  <2> QED
    BY <1>1, <2>6 DEF Maps, Lifecycle!Next
<1> QED
  BY <1>5, <1>6

\* A step of a single-asset write.
LEMMA SingleWriteMaps ==
    ASSUME IInv, NEW s \in Sessions,
           \/ UpdateWrite(s) \/ TransferWrite(s) \/ TransitionWrite(s)
           \/ DisposeWrite(s) \/ RestoreWrite(s)
    PROVE  Maps
<1>1. ASSUME NEW a \in job[s].on, NEW row \in Row, NEW event, job[s].op # "restore",
             NEW st \in InService \cup {Keep},
             row.deleted = asset[a].deleted,
             row.status = IF st # Keep THEN st ELSE asset[a].status,
             WriteOne(s, a, row, {}, event)
      PROVE  Maps
  <2>1. a \in Assets /\ a \in registered
    BY JobFacts
  <2>2. /\ asset' = [asset EXCEPT ![a] = row] /\ TrackDisposals({})
        /\ registered' = registered /\ ~asset[a].deleted
    BY <1>1 DEF WriteOne, Matches
  <2>3. \A b \in Assets : asset'[b] = IF b = a THEN row ELSE asset[b]
    BY <2>1, <2>2 DEF IInv, TypeOK
  <2>4. \A b \in Assets :
          /\ asset'[b].deleted = asset[b].deleted
          /\ asset'[b].status = IF b \in {a} /\ st # Keep THEN st ELSE asset[b].status
    BY <1>1, <2>3
  <2>5. {a} \in SUBSET registered /\ \A b \in {a} : ~asset[b].deleted
    BY <2>1, <2>2
  <2>6. st \in InService \cup {Keep}
    OBVIOUS
  <2> QED
    BY <2>2, <2>4, <2>5, <2>6, ReviseMaps
<1> DEFINE seen(a) == job[s].seen[a]
           pay == job[s].payload
<1>2. CASE UpdateWrite(s) \/ TransitionWrite(s)
  <2>1. PICK a \in job[s].on : \E event : WriteOne(s, a, Patched(asset[a], pay), {}, event)
    BY <1>2 DEF UpdateWrite, TransitionWrite
  <2>2. PICK event : WriteOne(s, a, Patched(asset[a], pay), {}, event)
    BY <2>1
  <2>3. /\ Patched(asset[a], pay) \in Row
        /\ Patched(asset[a], pay).deleted = asset[a].deleted
        /\ Patched(asset[a], pay).status =
             IF pay.status # Keep THEN pay.status ELSE asset[a].status
        /\ pay.status \in InService \cup {Keep}
    BY JobFacts, PatchedType DEF Payload
  <2>4. job[s].op # "restore"
    BY <1>2 DEF UpdateWrite, TransitionWrite
  <2> HIDE DEF pay
  <2> QED
    BY <1>1, <2>2, <2>3, <2>4
<1>3. CASE TransferWrite(s)
  <2> DEFINE new(a) == Patched(seen(a), pay)
             row(a) == [asset[a] EXCEPT !.branchId = new(a).branchId,
                                        !.assignedTo = new(a).assignedTo]
  <2>1. PICK a \in job[s].on : \E event : WriteOne(s, a, row(a), {}, event)
    BY <1>3 DEF TransferWrite
  <2>2. PICK event : WriteOne(s, a, row(a), {}, event)
    BY <2>1
  <2>3. new(a) \in Row
    BY JobFacts, PatchedType
  <2> HIDE DEF new
  <2>4. /\ row(a) \in Row /\ row(a).deleted = asset[a].deleted
        /\ row(a).status = asset[a].status
    BY <2>3, JobFacts DEF Row
  <2>5. job[s].op # "restore"
    BY <1>3 DEF TransferWrite
  <2> HIDE DEF row
  <2> QED
    BY <1>1, <2>2, <2>4, <2>5
<1>4. CASE DisposeWrite(s)
  <2> DEFINE row(a) == [asset[a] EXCEPT !.status = "disposed", !.assignedTo = None]
  <2>1. PICK a \in job[s].on : \E event : WriteOne(s, a, row(a), {a}, event)
    BY <1>4 DEF DisposeWrite
  <2>2. a \in Assets /\ a \in registered /\ asset[a] \in Row /\ seen(a).status # "disposed"
    BY <1>4, JobFacts DEF DisposeWrite, IInv, LedgerInv
  <2>3. /\ asset' = [asset EXCEPT ![a] = row(a)] /\ TrackDisposals({a})
        /\ registered' = registered
        /\ asset[a].deleted = FALSE /\ asset[a].status = seen(a).status
    BY <1>4, <2>1, <2>2 DEF WriteOne, Matches, DisposeWrite, Row
  <2>4. row(a).status = "disposed" /\ row(a).deleted = FALSE
    BY <2>2, <2>3 DEF Row
  <2> HIDE DEF row
  <2>5. \A b \in Assets : asset'[b] = IF b = a THEN row(a) ELSE asset[b]
    BY <2>2, <2>3 DEF IInv, TypeOK
  <2>6. Life' = [Life EXCEPT ![a] = [status |-> "disposed", deleted |-> FALSE]]
    <3>1. \A b \in Assets : LifeOf(b)' =
            IF b = a THEN [status |-> "disposed", deleted |-> FALSE] ELSE LifeOf(b)
      BY <2>2, <2>3, <2>4, <2>5 DEF LifeOf
    <3> QED
      BY <3>1 DEF Life
  <2>7. \A b \in Assets : openDisposals'[b] = IF b = a THEN 1 ELSE openDisposals[b]
    BY <2>2, <2>3, <2>4, <2>5 DEF TrackDisposals, IInv, LedgerInv
  <2>8. Filed' = [Filed EXCEPT ![a] = 1]
    BY <2>3, <2>7 DEF Filed, TrackDisposals, IInv, TypeOK
  <2>9. Lifecycle!Alive(a) /\ Life[a].status \in Lifecycle!Working /\ Filed[a] = 0
    BY <2>2, <2>3 DEF Lifecycle!Alive, Lifecycle!Working, Life, LifeOf, Filed, IInv,
       LedgerInv, Row, Status, InService
  <2>10. Lifecycle!Dispose(a)
    BY <2>6, <2>8, <2>9 DEF Lifecycle!Dispose, Lifecycle!Become, Life, LifeOf, Filed
  <2> QED
    BY <2>2, <2>10 DEF Maps, Lifecycle!Next
<1>5. CASE RestoreWrite(s)
  <2> DEFINE st == pay.status
             row(a) == [asset[a] EXCEPT !.status = st, !.deleted = FALSE]
  <2>1. PICK a \in job[s].on : \E event : WriteOne(s, a, row(a), {}, event)
    BY <1>5 DEF RestoreWrite
  <2>2. a \in Assets /\ a \in registered /\ asset[a] \in Row /\ st \in InService
    BY <1>5, JobFacts DEF RestoreWrite, IInv, LedgerInv
  <2>3. /\ asset' = [asset EXCEPT ![a] = row(a)] /\ TrackDisposals({})
        /\ registered' = registered
        /\ asset[a].deleted \/ asset[a].status = "disposed"
    BY <1>5, <2>1 DEF WriteOne, Matches, RestoreWrite
  <2>4. row(a).status = st /\ row(a).deleted = FALSE /\ st # "disposed"
    BY <2>2 DEF Row, InService
  <2> HIDE DEF row, st
  <2>5. \A b \in Assets : asset'[b] = IF b = a THEN row(a) ELSE asset[b]
    BY <2>2, <2>3 DEF IInv, TypeOK
  <2>6. Life' = [Life EXCEPT ![a] = [status |-> st, deleted |-> FALSE]]
    <3>1. \A b \in Assets : LifeOf(b)' =
            IF b = a THEN [status |-> st, deleted |-> FALSE] ELSE LifeOf(b)
      BY <2>2, <2>3, <2>4, <2>5 DEF LifeOf
    <3> QED
      BY <3>1 DEF Life
  <2>7. \A b \in Assets : openDisposals'[b] = IF b = a THEN 0 ELSE openDisposals[b]
    BY <2>2, <2>3, <2>4, <2>5 DEF TrackDisposals, IInv, LedgerInv
  <2>8. Filed' = [Filed EXCEPT ![a] = 0]
    BY <2>3, <2>7 DEF Filed, TrackDisposals, IInv, TypeOK
  <2>9. Life[a].deleted \/ Life[a].status = "disposed"
    BY <2>2, <2>3 DEF Life, LifeOf
  <2>10. st \in Lifecycle!Working
    BY <2>2 DEF Lifecycle!Working, InService
  <2>11. Lifecycle!Restore(a)
    BY <2>6, <2>8, <2>9, <2>10 DEF Lifecycle!Restore, Lifecycle!Become, Life, LifeOf, Filed
  <2> QED
    BY <2>2, <2>11 DEF Maps, Lifecycle!Next
<1> QED
  BY <1>2, <1>3, <1>4, <1>5

\* A step of a bulk write.
LEMMA BulkWriteMaps ==
    ASSUME IInv, NEW s \in Sessions,
           BulkDeleteWrite(s) \/ BulkTransferWrite(s) \/ BulkStatusWrite(s)
    PROVE  Maps
<1> DEFINE S == BulkHits(s)
           p == job[s].payload
<1>1. /\ asset \in [Assets -> Row] /\ p \in Payload
      /\ S \in SUBSET registered /\ \A a \in S : ~asset[a].deleted
  BY DEF IInv, TypeOK, LedgerInv, Job, BulkHits
<1>2. registered' = registered /\ TrackDisposals({})
  BY DEF BulkDeleteWrite, BulkTransferWrite, BulkStatusWrite, BulkWrite
<1>3. CASE BulkDeleteWrite(s)
  <2>1. asset' = [a \in Assets |-> IF a \in S THEN [asset[a] EXCEPT !.deleted = TRUE] ELSE asset[a]]
    BY <1>3 DEF BulkDeleteWrite, BulkWrite
  <2>2. \A a \in Assets :
          /\ asset'[a].status = asset[a].status
          /\ asset'[a].deleted = IF a \in S THEN TRUE ELSE asset[a].deleted
    BY <1>1, <2>1 DEF Row
  <2>3. \A a \in Assets : openDisposals'[a] = openDisposals[a]
    BY <1>2, <2>2, TrackCounts
  <2>4. Filed' = Filed
    BY <1>2, <2>3 DEF Filed, TrackDisposals, IInv, TypeOK
  <2> HIDE DEF S
  <2> QED
    BY <1>1, <1>2, <2>2, <2>4, DeleteMaps
<1>4. CASE BulkTransferWrite(s) \/ BulkStatusWrite(s)
  <2>1. asset' = [a \in Assets |-> IF a \in S THEN Patched(asset[a], p) ELSE asset[a]]
    BY <1>4 DEF BulkTransferWrite, BulkStatusWrite, BulkWrite
  <2>2. p.status \in InService \cup {Keep}
    BY <1>1 DEF Payload
  <2> HIDE DEF S, p
  <2>3. \A a \in Assets :
          /\ asset'[a].deleted = asset[a].deleted
          /\ asset'[a].status = IF a \in S /\ p.status # Keep THEN p.status ELSE asset[a].status
    BY <1>1, <2>1, PatchedType
  <2> QED
    BY <1>1, <1>2, <2>2, <2>3, ReviseMaps
<1> QED
  BY <1>3, <1>4

\* Every step of the register, from a state that satisfies the invariant.
LEMMA NextMaps == IInv /\ [Next]_vars => [Lifecycle!Next]_(Lifecycle!lifeVars)
<1> SUFFICES ASSUME IInv, [Next]_vars PROVE Maps
  BY DEF Maps, Lifecycle!lifeVars, Life, LifeOf, Filed
<1>1. ASSUME NEW a \in Assets, CreateAsset(a) PROVE Maps
  <2>1. PICK r \in FreshRow : CreateAssets([x \in {a} |-> r])
    BY <1>1 DEF CreateAsset
  <2>2. [x \in {a} |-> r] \in [{a} -> FreshRow] /\ {a} \cap registered = {}
    BY <1>1 DEF CreateAsset
  <2> QED
    BY <2>1, <2>2, CreateMaps
<1>2. ASSUME NEW S \in SUBSET Assets, BulkCreate(S) PROVE Maps
  BY <1>2, CreateMaps DEF BulkCreate
<1>3. ASSUME NEW a \in Assets, SoftDelete(a) PROVE Maps
  <2>1. /\ {a} \in SUBSET registered /\ \A b \in {a} : ~asset[b].deleted
        /\ registered' = registered /\ openDisposals' = openDisposals
    BY <1>3 DEF SoftDelete, Live
  <2>2. \A b \in Assets :
          /\ asset'[b].status = asset[b].status
          /\ asset'[b].deleted = IF b \in {a} THEN TRUE ELSE asset[b].deleted
    BY <1>3 DEF SoftDelete, IInv, TypeOK, Row
  <2>3. Filed' = Filed
    BY <2>1 DEF Filed
  <2> QED
    BY <2>1, <2>2, <2>3, DeleteMaps
<1>4. ASSUME NEW s \in Sessions, NEW a \in Assets, Read(s, a) PROVE Maps
  BY <1>4, QuietMaps DEF Read, UpdateRead, TransferRead, TransitionRead, DisposeRead,
     RestoreRead, NoteRead, Start
<1>5. ASSUME NEW s \in Sessions, NEW S \in SUBSET Assets, BulkOpRead(s, S) PROVE Maps
  BY <1>5, QuietMaps DEF BulkOpRead, BulkDeleteRead, BulkTransferRead, BulkStatusRead,
     BulkRead, Start
<1>6. ASSUME NEW s \in Sessions, Write(s) PROVE Maps
  <2>1. CASE NoteWrite(s)
    BY <2>1, QuietMaps DEF NoteWrite
  <2> QED
    BY <1>6, <2>1, SingleWriteMaps, BulkWriteMaps DEF Write
<1>7. ASSUME NEW s \in Sessions, Conflict(s) \/ Abandon(s) PROVE Maps
  BY <1>7, QuietMaps DEF Conflict, Abandon
<1>8. CASE UNCHANGED vars
  BY <1>8, QuietMaps DEF vars
<1> QED
  BY <1>1, <1>2, <1>3, <1>4, <1>5, <1>6, <1>7, <1>8 DEF Next

\* Seen from outside, every request takes effect at once: whatever it read and
\* however late it writes, a behaviour of the register is a behaviour of the
\* abstract lifecycle, for any number of assets and concurrent requests.
THEOREM Refinement == Spec => ImplementsLifecycle
<1>1. Init => Lifecycle!Init
  <2>1. Init => \A a \in Assets : a \notin registered /\ openDisposals[a] = 0
    BY DEF Init
  <2>2. Init => Life = [a \in Assets |-> Lifecycle!Absent]
    BY <2>1 DEF Life, LifeOf, Lifecycle!Absent
  <2>3. Init => Filed = [a \in Assets |-> 0]
    BY DEF Init, Filed
  <2> QED
    BY <2>2, <2>3 DEF Lifecycle!Init, Life, LifeOf, Filed
<1> QED
  BY <1>1, Invariance, NextMaps, PTL DEF Spec, ImplementsLifecycle, Lifecycle!Spec

=============================================================================
