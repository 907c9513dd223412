------------------------ MODULE AuditCampaignProofs ------------------------
(***************************************************************************)
(* Proofs about AuditCampaign, for any number of assets, of requests in    *)
(* flight and of batches: its variables keep their types, an asset is      *)
(* verified once unless a start failed half way or overlapped another, a   *)
(* campaign moves forward only and its totals stay those of its            *)
(* verifications, unless a request was overtaken by another.               *)
(***************************************************************************)
EXTENDS AuditCampaign, FiniteSetTheorems, TLAPS

-----------------------------------------------------------------------------
(* The inductive invariant *)

\* The rows of the campaign and the requests stay in their domains.
Typed ==
    /\ status \in {"draft", "in_progress", "completed"} /\ deleted \in BOOLEAN
    /\ expected \in 0..Cardinality(Assets)
    /\ totals \in Totals
    /\ scope \subseteq Assets
    /\ batches \in 0..MaxBatches
    /\ check \in [Row -> Result \cup {"none", "pending"}]
    /\ \A x \in Rows : x[2] <= batches
    /\ job \in [Requests -> Job]
    /\ halfStarted \in BOOLEAN

\* A verification under way is of a row that was inserted.
Known == \A r \in Requests : At(r, "verify") => job[r].row[2] <= batches

\* What the checks of request r found out, and its next write relies on.
Holds(r) ==
    /\ At(r, "delete") => ~deleted /\ status \in {"draft", "completed"}
    /\ At(r, "populate") \/ At(r, "started") => ~deleted /\ status = "draft"
    /\ At(r, "count") \/ At(r, "complete") \/ At(r, "verify") => ~deleted /\ status = "in_progress"
    /\ At(r, "complete") => job[r].stats = Tally

\* It still holds for a request in whose course no other one wrote.
Uncrossed == \A r \in Requests \ crossed : Holds(r)

\* Verifications are inserted once.
OneBatch == halfStarted \/ batches <= 1

\* Whoever inserted them is about to start the campaign.
Starting == \E q \in Requests : At(q, "started")
Begun    == ~halfStarted /\ batches > 0 /\ status = "draft" /\ ~deleted => Starting

AInv == TypeOK /\ Known /\ Uncrossed /\ OneBatch /\ Begun

-----------------------------------------------------------------------------
(* Types *)

\* There are finitely many rows.
LEMMA RowsFinite ==
    IsFiniteSet(Row) /\ MaxRows \in Nat
<1>1. IsFiniteSet(1..MaxBatches)
  BY MaxBatchesIsNat, FS_Interval
<1>2. IsFiniteSet(Row)
  BY <1>1, AssetsAreFinite, FS_Product DEF Row
<1> QED
  BY <1>2, FS_CardinalityType DEF MaxRows

\* What is counted of the rows is no more than there can be.
LEMMA TallyTyped == Tally \in Totals
<1>1. ASSUME NEW S
      PROVE  With(S) \in 0..MaxRows
  <2>1. PICK T : T = {x \in Row : check[x] \in S}
    OBVIOUS
  <2>2. IsFiniteSet(T) /\ Cardinality(T) <= Cardinality(Row)
    BY <2>1, RowsFinite, FS_Subset
  <2>3. Cardinality(T) \in Nat
    BY <2>2, FS_CardinalityType
  <2> QED
    BY <2>1, <2>2, <2>3, RowsFinite DEF With, MaxRows
<1> QED
  BY <1>1 DEF Tally, Totals

\* The tally is that of the verifications.
LEMMA TallySame ==
    ASSUME check' = check
    PROVE  Tally' = Tally
  BY DEF Tally, With

\* What a request holds at each of its steps.
LEMMA JobShape ==
    ASSUME Typed, NEW r \in Requests
    PROVE  /\ job[r] # Idle <=> job[r].step # "idle"
           /\ At(r, "populate") \/ At(r, "started") =>
                  /\ job[r] \in [step: {"populate", "started"}, found: SUBSET Assets]
                  /\ job[r].found \subseteq Assets
           /\ At(r, "complete") => job[r].stats \in Totals
           /\ At(r, "verify") => job[r].row \in Row /\ job[r].mark \in Result
<1>1. PICK j : j = job[r]
  OBVIOUS
<1>2. \/ j = Idle \/ j \in [step: {"edit", "delete", "count"}]
      \/ j \in [step: {"populate", "started"}, found: SUBSET Assets]
      \/ j \in [step: {"complete"}, stats: Totals]
      \/ j \in [step: {"verify"}, row: Row, mark: Result]
  BY <1>1 DEF Typed, Job
<1>3. Idle.step = "idle"
  BY DEF Idle
<1> QED
  BY <1>1, <1>2, <1>3 DEF At

\* A new job in its domain keeps job in its domain, and the others as they are.
LEMMA GoTyped ==
    ASSUME Typed, NEW r \in Requests, NEW j \in Job, Go(r, j)
    PROVE  /\ job' \in [Requests -> Job] /\ job'[r] = j
           /\ \A q \in Requests \ {r} : job'[q] = job[q]
  BY DEF Typed, Go

\* A request that is over.
LEMMA IdleJob == Idle \in Job /\ Idle.step = "idle"
  BY DEF Idle, Job

\* Nothing is known of a request that is over, and nothing relied on.
LEMMA IdleHolds ==
    ASSUME NEW r, job[r].step \in {"idle", "edit"}
    PROVE  Holds(r)
  BY DEF Holds, At

-----------------------------------------------------------------------------
(* The steps *)

\* What a step of request r has to leave behind.
Kept(r) ==
    /\ Typed' /\ Known'
    /\ \A q \in Requests \ {r} : job'[q] = job[q]
    /\ job'[r] = Idle \/ (r \notin crossed => Holds(r)')
    /\ OneBatch' /\ Begun'

\* With that, and with the requests it crosses, the invariant is kept.
LEMMA CrossKeeps ==
    ASSUME AInv, NEW r \in Requests, Cross(r), Kept(r)
    PROVE  AInv'
<1>1. TypeOK'
  BY DEF Kept, Typed, TypeOK, Cross
<1>2. ASSUME NEW q \in Requests, q \notin crossed'
      PROVE  Holds(q)'
  <2>1. CASE job'[q] = Idle
    <3>1. job'[q].step = "idle"
      BY <2>1, IdleJob
    <3> QED
      BY <3>1 DEF Holds, At
  <2>2. CASE q = r /\ job'[q] # Idle
    BY <1>2, <2>2 DEF Cross, Kept
  <2>3. CASE q # r /\ job'[q] # Idle
    <3>1. q \notin crossed /\ UNCHANGED <<status, expected, totals, deleted, check>>
      BY <1>2, <2>3 DEF Cross, campaign
    <3>2. Holds(q) /\ job'[q] = job[q]
      BY <2>3, <3>1 DEF AInv, Uncrossed, Kept
    <3> QED
      BY <3>1, <3>2, TallySame DEF Holds, At
  <2> QED
    BY <2>1, <2>2, <2>3
<1> QED
  BY <1>1, <1>2 DEF AInv, Uncrossed, Kept

\* A request begins: the checks it has made hold.
LEMMA BeginKeeps ==
    ASSUME AInv, NEW r \in Requests, Begin(r)
    PROVE  Kept(r)
<1>1. job[r] = Idle /\ ~deleted /\ UNCHANGED <<campaign, scope, batches, check, halfStarted>>
  BY DEF Begin, EditRead, DeleteRead, StartRead, CompleteRead, VerifyRead, May
<1>2. Typed
  BY DEF AInv, TypeOK, Typed
<1>3. PICK j \in Job :
           /\ Go(r, j)
           /\ \/ j.step = "edit"
              \/ j.step = "delete" /\ status \in {"draft", "completed"}
              \/ j.step \in {"populate", "started"} /\ status = "draft"
              \/ j.step \in {"count", "verify"} /\ status = "in_progress"
           /\ j.step = "verify" => j.row[2] <= batches
  <2>1. CASE EditRead(r) \/ DeleteRead(r) \/ CompleteRead(r)
    <3>1. PICK s \in {"edit", "delete", "count"} :
               /\ Go(r, [step |-> s])
               /\ s = "delete" => status \in {"draft", "completed"}
               /\ s = "count" => status = "in_progress"
      BY <2>1 DEF EditRead, DeleteRead, CompleteRead, May, Deletable
    <3>2. PICK j : j = [step |-> s]
      OBVIOUS
    <3>3. j \in Job /\ j.step = s
      BY <3>2 DEF Job
    <3> QED
      BY <3>1, <3>2, <3>3
  <2>2. CASE StartRead(r)
    <3>1. status = "draft" /\ scope \subseteq Assets
      BY <1>2, <2>2 DEF StartRead, May, Startable, Typed
    <3>2. PICK s \in {"populate", "started"} : Go(r, [step |-> s, found |-> scope])
      BY <2>2 DEF StartRead
    <3>3. PICK j : j = [step |-> s, found |-> scope]
      OBVIOUS
    <3>4. j \in Job /\ j.step = s
      BY <3>1, <3>3 DEF Job
    <3> QED
      BY <3>1, <3>2, <3>3, <3>4
  <2>3. CASE \E x \in Rows, mark \in Marks : VerifyRead(r, x, mark)
    <3>1. PICK x \in Rows, mark \in Marks : VerifyRead(r, x, mark)
      BY <2>3
    <3>2. PICK j : j = [step |-> "verify", row |-> x, mark |-> mark]
      OBVIOUS
    <3>3. j \in Job /\ j.step = "verify" /\ j.row[2] <= batches
      BY <1>2, <3>2, MarksAreResults DEF Job, Rows, Result, Typed
    <3> QED
      BY <3>1, <3>2, <3>3 DEF VerifyRead, May, Verifiable
  <2> QED
    BY <2>1, <2>2, <2>3 DEF Begin
<1>4. job' \in [Requests -> Job] /\ job'[r] = j /\ \A q \in Requests \ {r} : job'[q] = job[q]
  BY <1>2, <1>3, GoTyped
<1>5. Typed'
  BY <1>1, <1>2, <1>4 DEF Typed, Rows, campaign
<1>6. Holds(r)'
  BY <1>1, <1>3, <1>4 DEF Holds, At, campaign
<1>7. Starting => Starting'
  BY <1>1, <1>4, IdleJob DEF Starting, At
<1>8. OneBatch' /\ Begun'
  BY <1>1, <1>7 DEF AInv, OneBatch, Begun, campaign
<1>9. Known'
  BY <1>1, <1>3, <1>4 DEF AInv, Known, At
<1> QED
  BY <1>4, <1>5, <1>6, <1>8, <1>9 DEF Kept

\* A request that ends, and was not about to start the campaign, keeps what is there.
LEMMA EndTyped ==
    ASSUME AInv, NEW r \in Requests, Go(r, Idle)
    PROVE  /\ Typed
           /\ job' \in [Requests -> Job] /\ job'[r] = Idle
           /\ \A q \in Requests \ {r} : job'[q] = job[q]
           /\ Starting /\ ~At(r, "started") => Starting'
           /\ batches' = batches => Known'
<1>1. Typed
  BY DEF AInv, TypeOK, Typed
<1>2. /\ job' \in [Requests -> Job] /\ job'[r] = Idle
      /\ \A q \in Requests \ {r} : job'[q] = job[q]
  BY <1>1, IdleJob, GoTyped
<1>3. batches' = batches => Known'
  BY <1>2, IdleJob DEF AInv, Known, At
<1> QED
  BY <1>1, <1>2, <1>3 DEF Starting, At

\* To write the branch, to delete and to fail keep the invariant.
LEMMA AsideKeeps ==
    ASSUME AInv, NEW r \in Requests, EditWrite(r) \/ DeleteWrite(r) \/ Fail(r)
    PROVE  Kept(r)
<1>1. /\ Go(r, Idle)
      /\ UNCHANGED <<status, expected, totals, batches, check>>
      /\ scope' \subseteq Assets /\ deleted' \in BOOLEAN /\ (deleted => deleted')
      /\ halfStarted' \in BOOLEAN /\ (halfStarted => halfStarted')
  BY DEF AInv, TypeOK, EditWrite, DeleteWrite, Fail, campaign
<1>2. /\ Typed
      /\ job' \in [Requests -> Job] /\ job'[r] = Idle
      /\ \A q \in Requests \ {r} : job'[q] = job[q]
      /\ Starting /\ ~At(r, "started") => Starting'
      /\ Known'
  BY <1>1, EndTyped
<1>3. Typed'
  BY <1>1, <1>2 DEF Typed, Rows
<1>4. Begun'
  <2>1. CASE Fail(r)
    BY <1>1, <1>2, <2>1 DEF AInv, Begun, Fail, campaign
  <2>2. CASE EditWrite(r) \/ DeleteWrite(r)
    BY <1>1, <1>2, <2>2 DEF AInv, Begun, EditWrite, DeleteWrite, At, campaign
  <2> QED
    BY <2>1, <2>2
<1>5. OneBatch'
  BY <1>1 DEF AInv, OneBatch
<1> QED
  BY <1>2, <1>3, <1>4, <1>5 DEF Kept

\* To start the campaign keeps the invariant.
LEMMA StartKeeps ==
    ASSUME AInv, NEW r \in Requests, StartWrite(r)
    PROVE  Kept(r)
<1>1. /\ Typed
      /\ job' \in [Requests -> Job] /\ job'[r] = Idle
      /\ \A q \in Requests \ {r} : job'[q] = job[q]
      /\ Known'
  BY EndTyped DEF StartWrite
<1>2. UNCHANGED <<deleted, totals, scope, batches, check, halfStarted>>
  BY DEF StartWrite
<1>3. Eligible(r) \in 0..Cardinality(Assets)
  <2>1. PICK A : A = job[r].found
    OBVIOUS
  <2>2. A \subseteq Assets
    BY <1>1, <2>1, JobShape DEF StartWrite
  <2>3. IsFiniteSet(A) /\ Cardinality(A) <= Cardinality(Assets)
    BY <2>2, AssetsAreFinite, FS_Subset
  <2>4. Cardinality(A) \in Nat /\ Cardinality(Assets) \in Nat
    BY <2>3, AssetsAreFinite, FS_CardinalityType
  <2> QED
    BY <2>1, <2>3, <2>4 DEF Eligible
<1>4. /\ status' \in {"draft", "in_progress", "completed"}
      /\ expected' \in 0..Cardinality(Assets)
      /\ deleted \/ status' = "in_progress"
  BY <1>1, <1>3 DEF StartWrite, Typed, Writable
<1>5. Typed'
  BY <1>1, <1>2, <1>4 DEF Typed, Rows
<1>6. OneBatch' /\ Begun'
  BY <1>2, <1>4 DEF AInv, OneBatch, Begun
<1> QED
  BY <1>1, <1>5, <1>6 DEF Kept

\* To complete the campaign keeps the invariant.
LEMMA CompleteKeeps ==
    ASSUME AInv, NEW r \in Requests, CompleteWrite(r)
    PROVE  Kept(r)
<1>1. /\ Typed
      /\ job' \in [Requests -> Job] /\ job'[r] = Idle
      /\ \A q \in Requests \ {r} : job'[q] = job[q]
      /\ Known'
  BY EndTyped DEF CompleteWrite
<1>2. UNCHANGED <<deleted, expected, scope, batches, check, halfStarted>>
  BY DEF CompleteWrite
<1>3. job[r].stats \in Totals
  BY <1>1, JobShape DEF CompleteWrite
<1>4. /\ status' \in {"draft", "in_progress", "completed"}
      /\ totals' \in Totals
      /\ deleted \/ status' = "completed"
  BY <1>1, <1>3 DEF CompleteWrite, Typed, Writable
<1>5. Typed'
  BY <1>1, <1>2, <1>4 DEF Typed, Rows
<1>6. OneBatch' /\ Begun'
  BY <1>2, <1>4 DEF AInv, OneBatch, Begun
<1> QED
  BY <1>1, <1>5, <1>6 DEF Kept

\* To verify keeps the invariant.
LEMMA VerifyKeeps ==
    ASSUME AInv, NEW r \in Requests, VerifyWrite(r)
    PROVE  Kept(r)
<1>1. /\ Typed
      /\ job' \in [Requests -> Job] /\ job'[r] = Idle
      /\ \A q \in Requests \ {r} : job'[q] = job[q]
      /\ Starting /\ ~At(r, "started") => Starting'
      /\ Known'
  BY EndTyped DEF VerifyWrite, campaign
<1>2. UNCHANGED <<status, deleted, expected, totals, scope, batches, halfStarted>>
  BY DEF VerifyWrite, campaign
<1>3. PICK x \in Row, m \in Result : x = job[r].row /\ m = job[r].mark
  BY <1>1, JobShape DEF VerifyWrite
<1>4. check' = [check EXCEPT ![x] = m]
  BY <1>3 DEF VerifyWrite
<1>5. /\ check' \in [Row -> Result \cup {"none", "pending"}]
      /\ \A y \in Row : y # x => check'[y] = check[y]
  BY <1>1, <1>4 DEF Typed
<1>6. x[2] <= batches
  BY <1>3 DEF AInv, Known, VerifyWrite
<1>7. \A y \in Rows' : y[2] <= batches'
  BY <1>1, <1>2, <1>5, <1>6 DEF Typed, Rows
<1>8. Typed'
  BY <1>1, <1>2, <1>5, <1>7 DEF Typed
<1>9. Starting => Starting'
  BY <1>1 DEF VerifyWrite, At
<1>10. OneBatch' /\ Begun'
  BY <1>2, <1>9 DEF AInv, OneBatch, Begun
<1> QED
  BY <1>1, <1>8, <1>10 DEF Kept

\* To count the verifications keeps the invariant.
LEMMA CountKeeps ==
    ASSUME AInv, NEW r \in Requests, CompleteCount(r)
    PROVE  Kept(r)
<1>1. Typed
  BY DEF AInv, TypeOK, Typed
<1>2. UNCHANGED <<status, deleted, expected, totals, scope, batches, check, halfStarted>>
  BY DEF CompleteCount, campaign
<1>3. PICK j : j = [step |-> "complete", stats |-> Tally]
  OBVIOUS
<1>4. j \in Job /\ j.step = "complete" /\ j.stats = Tally
  BY <1>3, TallyTyped DEF Job
<1>5. job' \in [Requests -> Job] /\ job'[r] = j /\ \A q \in Requests \ {r} : job'[q] = job[q]
  BY <1>1, <1>3, <1>4, GoTyped DEF CompleteCount
<1>6. Typed' /\ Known'
  <2>1. Typed'
    BY <1>1, <1>2, <1>5 DEF Typed, Rows
  <2>2. Known'
    BY <1>2, <1>4, <1>5 DEF AInv, Known, At
  <2> QED
    BY <2>1, <2>2
<1>7. r \notin crossed => Holds(r)'
  <2> SUFFICES ASSUME r \notin crossed PROVE Holds(r)'
    OBVIOUS
  <2>1. ~deleted /\ status = "in_progress"
    BY DEF AInv, Uncrossed, Holds, CompleteCount
  <2>2. Tally' = Tally
    BY <1>2, TallySame
  <2> QED
    BY <1>2, <1>4, <1>5, <2>1, <2>2 DEF Holds, At
<1>8. Starting => Starting'
  BY <1>5 DEF Starting, At, CompleteCount
<1>9. OneBatch' /\ Begun'
  BY <1>2, <1>8 DEF AInv, OneBatch, Begun
<1> QED
  BY <1>5, <1>6, <1>7, <1>9 DEF Kept

\* To insert the verifications keeps the invariant: who comes second was crossed, or
\* finds another one about to start the campaign.
LEMMA PopulateKeeps ==
    ASSUME AInv, NEW r \in Requests, Populate(r)
    PROVE  Kept(r)
<1>1. Typed
  BY DEF AInv, TypeOK, Typed
<1>2. /\ UNCHANGED <<status, deleted, expected, totals, scope>>
      /\ At(r, "populate") /\ batches' = batches + 1 /\ batches < MaxBatches
      /\ halfStarted' = (halfStarted \/ r \in crossed \/ Starting)
  BY DEF Populate, campaign, Starting
<1>3. PICK j : j = [job[r] EXCEPT !.step = "started"]
  OBVIOUS
<1>4. j \in Job /\ j.step = "started"
  <2>1. job[r] \in [step: {"populate", "started"}, found: SUBSET Assets]
    BY <1>1, <1>2, JobShape
  <2> QED
    BY <1>3, <2>1 DEF Job
<1>5. job' \in [Requests -> Job] /\ job'[r] = j /\ \A q \in Requests \ {r} : job'[q] = job[q]
  BY <1>1, <1>3, <1>4, GoTyped DEF Populate
<1>6. batches \in Nat /\ batches' \in 0..MaxBatches
  BY <1>1, <1>2, MaxBatchesIsNat DEF Typed
<1>7. /\ check' \in [Row -> Result \cup {"none", "pending"}]
      /\ \A x \in Row : check'[x] # "none" => check[x] # "none" \/ x[2] = batches'
  BY <1>1 DEF Populate, Typed
<1>8. \A x \in Rows' : x[2] <= batches'
  <2> SUFFICES ASSUME NEW x \in Row, check'[x] # "none" PROVE x[2] <= batches'
    BY DEF Rows
  <2>1. x[2] \in Nat
    BY MaxBatchesIsNat DEF Row
  <2>2. CASE x[2] = batches'
    BY <2>1, <2>2
  <2>3. CASE check[x] # "none"
    BY <1>1, <1>2, <1>6, <2>1, <2>3 DEF Typed, Rows
  <2> QED
    BY <1>7, <2>2, <2>3
<1>9. Typed'
  BY <1>1, <1>2, <1>5, <1>6, <1>7, <1>8 DEF Typed
<1>10. Known'
  <2>1. ASSUME NEW q \in Requests, At(q, "verify")'
        PROVE  job'[q].row[2] <= batches'
    <3>1. q # r /\ job'[q] = job[q]
      BY <1>4, <1>5, <2>1 DEF At
    <3>2. job[q].row[2] <= batches /\ job[q].row[2] \in Nat
      BY <1>1, <2>1, <3>1, JobShape, MaxBatchesIsNat DEF AInv, Known, At, Row
    <3> QED
      BY <1>2, <1>6, <3>1, <3>2
  <2> QED
    BY <2>1 DEF Known
<1>11. r \notin crossed => Holds(r)'
  BY <1>2, <1>4, <1>5 DEF AInv, Uncrossed, Holds, At
<1>12. OneBatch'
  <2>1. CASE batches = 0
    BY <1>2, <2>1 DEF OneBatch
  <2>2. CASE batches > 0 /\ (r \in crossed \/ halfStarted)
    BY <1>2, <2>2 DEF OneBatch
  <2>3. CASE batches > 0 /\ r \notin crossed /\ ~halfStarted
    <3>1. ~deleted /\ status = "draft"
      BY <1>2, <2>3 DEF AInv, Uncrossed, Holds
    <3>2. Starting
      BY <2>3, <3>1 DEF AInv, Begun
    <3> QED
      BY <1>2, <3>2 DEF OneBatch
  <2> QED
    BY <1>6, <2>1, <2>2, <2>3
<1>13. Begun'
  BY <1>4, <1>5 DEF Begun, Starting, At
<1> QED
  BY <1>5, <1>9, <1>10, <1>11, <1>12, <1>13 DEF Kept

\* Every step keeps the invariant.
LEMMA AInvKept ==
    ASSUME AInv, [Next]_vars
    PROVE  AInv'
<1>1. ASSUME NEW r \in Requests, Begin(r) \/ Proceed(r) \/ Fail(r), Cross(r)
      PROVE  AInv'
  <2>1. Kept(r)
    BY <1>1, BeginKeeps, AsideKeeps, StartKeeps, CompleteKeeps, VerifyKeeps, CountKeeps,
       PopulateKeeps DEF Proceed
  <2> QED
    BY <1>1, <2>1, CrossKeeps
<1>2. CASE UNCHANGED <<campaign, batches, check, job, halfStarted, crossed>> /\ scope' \subseteq Assets
  <2>1. TypeOK'
    BY <1>2 DEF AInv, TypeOK, Rows, campaign
  <2>2. ASSUME NEW q \in Requests \ crossed
        PROVE  Holds(q)'
    BY <1>2, TallySame DEF AInv, Uncrossed, Holds, At, campaign
  <2>3. Known' /\ OneBatch' /\ Begun'
    BY <1>2 DEF AInv, Known, OneBatch, Begun, Starting, At, campaign
  <2> QED
    BY <1>2, <2>1, <2>2, <2>3 DEF AInv, Uncrossed
<1>3. CASE ScopeChange /\ UNCHANGED crossed
  BY <1>2, <1>3 DEF ScopeChange
<1>4. CASE UNCHANGED vars
  BY <1>2, <1>4 DEF vars, campaign, AInv, TypeOK
<1> QED
  BY <1>1, <1>3, <1>4 DEF Next

\* The invariant holds of a campaign just created.
LEMMA AInvInit == Init => AInv
<1> SUFFICES ASSUME Init PROVE AInv
  OBVIOUS
<1>1. Cardinality(Assets) \in Nat
  BY AssetsAreFinite, FS_CardinalityType
<1>2. totals \in Totals
  BY RowsFinite DEF Init, Totals, NoTotals
<1>3. TypeOK
  <2>1. Rows = {} /\ crossed = {}
    BY DEF Init, Rows
  <2>2. job \in [Requests -> Job] /\ check \in [Row -> Result \cup {"none", "pending"}]
    BY IdleJob DEF Init
  <2>3. expected \in 0..Cardinality(Assets) /\ batches \in 0..MaxBatches
    BY <1>1, MaxBatchesIsNat DEF Init
  <2>4. /\ status \in {"draft", "in_progress", "completed"}
        /\ deleted \in BOOLEAN /\ halfStarted \in BOOLEAN /\ scope \subseteq Assets
    BY DEF Init
  <2> QED
    BY <1>2, <2>1, <2>2, <2>3, <2>4 DEF TypeOK
<1>4. Uncrossed /\ Known
  BY IdleJob DEF Init, Uncrossed, Known, Holds, At
<1> QED
  BY <1>3, <1>4 DEF Init, AInv, OneBatch, Begun

\* The invariant always holds.
LEMMA AInvHolds == Spec => []AInv
  BY AInvInit, AInvKept, PTL DEF Spec

-----------------------------------------------------------------------------
(* The theorems *)

\* An asset gets one verification in a campaign, unless a start failed half way or two of
\* them overlapped; and every variable keeps its type.
THEOREM EachAssetOnceHolds == Spec => []EachAssetOnce
<1>1. AInv => EachAssetOnce
  <2> SUFFICES ASSUME AInv, ~halfStarted, NEW x \in Rows, NEW y \in Rows, x[1] = y[1]
               PROVE  x = y
    BY DEF EachAssetOnce, AInv
  <2>1. batches \in Nat /\ batches <= 1
    BY MaxBatchesIsNat DEF AInv, OneBatch, TypeOK
  <2>2. /\ x \in Assets \X (1..MaxBatches) /\ y \in Assets \X (1..MaxBatches)
        /\ x[2] <= batches /\ y[2] <= batches
    BY DEF AInv, TypeOK, Rows, Row
  <2>3. x[2] = 1 /\ y[2] = 1
    BY <2>1, <2>2, MaxBatchesIsNat
  <2> QED
    BY <2>2, <2>3
<1> QED
  BY <1>1, AInvHolds, PTL

\* A request that goes on without having been crossed relies on what it found out.
LEMMA Relies ==
    ASSUME AInv, NEW r \in Requests, Proceed(r), ~Overtaken
    PROVE  Holds(r)
<1>1. Typed
  BY DEF AInv, TypeOK, Typed
<1>2. job[r].step # "idle"
  BY DEF Proceed, EditWrite, DeleteWrite, Populate, StartWrite, CompleteCount, CompleteWrite,
     VerifyWrite, At
<1>3. job'[r] # job[r]
  <2>1. CASE Go(r, Idle)
    BY <1>1, <1>2, <2>1, IdleJob, GoTyped
  <2>2. CASE CompleteCount(r)
    <3>1. PICK j : j = [step |-> "complete", stats |-> Tally]
      OBVIOUS
    <3>2. j \in Job /\ j.step = "complete"
      BY <3>1, TallyTyped DEF Job
    <3>3. job'[r] = j
      BY <1>1, <2>2, <3>1, <3>2, GoTyped DEF CompleteCount
    <3> QED
      BY <2>2, <3>2, <3>3 DEF CompleteCount, At
  <2>3. CASE Populate(r)
    <3>1. PICK j : j = [job[r] EXCEPT !.step = "started"]
      OBVIOUS
    <3>2. job[r] \in [step: {"populate", "started"}, found: SUBSET Assets]
      BY <1>1, <2>3, JobShape DEF Populate
    <3>3. j \in Job /\ j.step = "started"
      BY <3>1, <3>2 DEF Job
    <3>4. job'[r] = j
      BY <1>1, <2>3, <3>1, <3>3, GoTyped DEF Populate
    <3> QED
      BY <2>3, <3>3, <3>4 DEF Populate, At
  <2> QED
    BY <2>1, <2>2, <2>3 DEF Proceed, EditWrite, DeleteWrite, StartWrite, CompleteWrite, VerifyWrite
<1> QED
  BY <1>3 DEF Overtaken, AInv, Uncrossed

\* Unless a request was overtaken by another, a campaign goes from draft to in progress to
\* completed and never back, is verified in progress and deleted before or after; and a
\* deleted one keeps its state and its totals in any case.
THEOREM CampaignOrderHolds == Spec => CampaignOrder
<1>1. AInv /\ [Next]_vars =>
      [/\ deleted => UNCHANGED <<status, expected, totals, deleted>>
       /\ \/ Overtaken
          \/ /\ <<status, status'>> \in {<<"draft", "in_progress">>, <<"in_progress", "completed">>}
                                        \cup {<<st, st>> : st \in {"draft", "in_progress", "completed"}}
             /\ check' # check => IF batches' = batches THEN status = "in_progress" /\ ~deleted
                                  ELSE status = "draft" /\ ~deleted
             /\ deleted' # deleted => status # "in_progress"]_vars
  <2> SUFFICES ASSUME AInv, Next
               PROVE  /\ deleted => UNCHANGED <<status, expected, totals, deleted>>
                      /\ \/ Overtaken
                         \/ /\ \/ status' = status
                               \/ status = "draft" /\ status' = "in_progress"
                               \/ status = "in_progress" /\ status' = "completed"
                            /\ check' # check => IF batches' = batches
                                                 THEN status = "in_progress" /\ ~deleted
                                                 ELSE status = "draft" /\ ~deleted
                            /\ deleted' # deleted => status # "in_progress"
    BY DEF AInv, TypeOK
  <2>1. CASE ScopeChange \/ \E r \in Requests : Begin(r) \/ Fail(r)
    BY <2>1 DEF ScopeChange, Begin, EditRead, DeleteRead, StartRead, CompleteRead, VerifyRead,
       Fail, campaign
  <2>2. ASSUME NEW r \in Requests, Proceed(r)
        PROVE  deleted => UNCHANGED <<status, expected, totals, deleted>>
    BY <2>2 DEF Proceed, EditWrite, DeleteWrite, Populate, StartWrite, CompleteCount,
       CompleteWrite, VerifyWrite, Writable, campaign
  <2>3. ASSUME NEW r \in Requests, Proceed(r), Holds(r)
        PROVE  /\ \/ status' = status
                  \/ status = "draft" /\ status' = "in_progress"
                  \/ status = "in_progress" /\ status' = "completed"
               /\ check' # check => IF batches' = batches
                                    THEN status = "in_progress" /\ ~deleted
                                    ELSE status = "draft" /\ ~deleted
               /\ deleted' # deleted => status # "in_progress"
    <3>1. CASE EditWrite(r) \/ DeleteWrite(r) \/ CompleteCount(r)
      BY <2>3, <3>1 DEF EditWrite, DeleteWrite, CompleteCount, Holds, campaign
    <3>2. CASE Populate(r)
      <4>1. batches \in Nat
        BY MaxBatchesIsNat DEF AInv, TypeOK
      <4>2. batches' # batches /\ UNCHANGED <<status, deleted>>
        BY <3>2, <4>1 DEF Populate, campaign
      <4>3. ~deleted /\ status = "draft"
        BY <2>3, <3>2 DEF Holds, Populate
      <4> QED
        BY <4>2, <4>3
    <3>3. CASE StartWrite(r) \/ CompleteWrite(r) \/ VerifyWrite(r)
      BY <2>3, <3>3 DEF StartWrite, CompleteWrite, VerifyWrite, Holds, campaign
    <3> QED
      BY <2>3, <3>1, <3>2, <3>3 DEF Proceed
  <2> QED
    BY <2>1, <2>2, <2>3, Relies DEF Next
<1> QED
  BY <1>1, AInvHolds, PTL DEF Spec, CampaignOrder

\* Unless a request was overtaken by another, the totals of a completed campaign, once those
\* of its verifications, stay so.
THEOREM TotalsMatchHolds == Spec => TotalsMatch
<1>1. AInv /\ [Next]_vars => [TotalsRight => TotalsRight' \/ Overtaken]_vars
  <2> SUFFICES ASSUME AInv, Next, TotalsRight, ~Overtaken
               PROVE  TotalsRight'
    OBVIOUS
  <2>1. CASE UNCHANGED <<status, totals, check>>
    BY <2>1, TallySame DEF TotalsRight
  <2>2. ASSUME NEW r \in Requests, Proceed(r)
        PROVE  TotalsRight'
    <3>1. Holds(r)
      BY <2>2, Relies
    <3>2. CASE Populate(r) \/ StartWrite(r) \/ VerifyWrite(r)
      <4>1. status' # "completed"
        BY <3>1, <3>2 DEF Holds, Populate, StartWrite, VerifyWrite, Writable, campaign
      <4> QED
        BY <4>1 DEF TotalsRight
    <3>3. CASE CompleteWrite(r)
      <4>1. totals' = Tally /\ UNCHANGED check
        BY <3>1, <3>3 DEF Holds, CompleteWrite, Writable
      <4> QED
        BY <4>1, TallySame DEF TotalsRight
    <3>4. CASE EditWrite(r) \/ DeleteWrite(r) \/ CompleteCount(r)
      BY <2>1, <3>4 DEF EditWrite, DeleteWrite, CompleteCount, campaign
    <3> QED
      BY <2>2, <3>2, <3>3, <3>4 DEF Proceed
  <2>3. CASE ScopeChange \/ \E r \in Requests : Begin(r) \/ Fail(r)
    BY <2>1, <2>3 DEF ScopeChange, Begin, EditRead, DeleteRead, StartRead, CompleteRead,
       VerifyRead, Fail, campaign
  <2> QED
    BY <2>2, <2>3 DEF Next
<1> QED
  BY <1>1, AInvHolds, PTL DEF Spec, TotalsMatch

=============================================================================
