--------------------------- MODULE ApprovalsProofs ---------------------------
(***************************************************************************)
(* Theorems about Approvals, for every set of assets, approvals and        *)
(* requests in flight: types, one outcome per approval, and no approved    *)
(* request lost.                                                           *)
(***************************************************************************)
EXTENDS Approvals, TLAPS

\* The requests past recording their decision.
Carrying == {s \in Sessions : job[s].step \in {"execute", "tell"}}

\* The decision in flight on an approval is the one its row records, and the
\* requester has not been told.
Recorded ==
    \A s \in Carrying :
        approval[job[s].on].status = job[s].decision /\ told[job[s].on] = {}

\* It is carried out only if it approves, and once.
ToExecute ==
    \A s \in Sessions :
        job[s].step = "execute" => job[s].decision = "approved" /\ executed[job[s].on] = 0

\* An approval is told after it was carried out, or with an excuse.
ToTell ==
    \A s \in Sessions :
        job[s].step = "tell" /\ job[s].decision = "approved" =>
            executed[job[s].on] = 1 \/ job[s].on \in excused

\* Nobody else is at it.
OneDecider == \A s, u \in Carrying : job[u].on = job[s].on => u = s

DecidingInv == Recorded /\ ToExecute /\ ToTell /\ OneDecider

\* Nothing has come of an approval nobody decided.
UndecidedInv ==
    \A p \in Approvals :
        approval[p].status \in {"none", "pending"} => executed[p] = 0 /\ told[p] = {}

AInv == TypeOK /\ DecidingInv /\ UndecidedInv /\ OneOutcome /\ ApprovedIsExecuted

-----------------------------------------------------------------------------

\* What a request is about, and what its next step makes of it, is well typed.
LEMMA JobShape ==
    ASSUME AInv, NEW s \in Sessions
    PROVE  /\ job[s].step \in {"ask", "insert"} => job[s].asset \in Assets /\ job[s].type \in Type
           /\ job[s].step \in {"decide", "execute", "tell"} =>
                /\ job[s].on \in Approvals /\ job[s].decision \in Decision
                /\ \A st \in {"execute", "tell"} :
                     /\ [job[s] EXCEPT !.step = st] \in Job
                     /\ [job[s] EXCEPT !.step = st].step = st
                     /\ [job[s] EXCEPT !.step = st].on = job[s].on
                     /\ [job[s] EXCEPT !.step = st].decision = job[s].decision
           /\ Idle \in Job /\ Idle.step = "idle"
<1>1. job[s] \in IdleJob \cup AskJob \cup DecideJob
  BY DEF AInv, TypeOK, Job
<1>2. Idle \in Job /\ Idle.step = "idle"
  BY DEF Idle, Job, IdleJob
<1>3. job[s].step \in {"ask", "insert"} => job[s] \in AskJob
  BY <1>1 DEF IdleJob, AskJob, DecideJob
<1>4. job[s].step \in {"decide", "execute", "tell"} => job[s] \in DecideJob
  BY <1>1 DEF IdleJob, AskJob, DecideJob
<1> QED
  BY <1>2, <1>3, <1>4 DEF AskJob, DecideJob, Job

\* A request that is not carrying out a decision may become any request that is
\* not, as long as approvals and what came of them stay.
LEMMA QuietKeeps ==
    ASSUME AInv, NEW s \in Sessions, NEW j \in Job,
           job[s].step \notin {"execute", "tell"}, j.step \notin {"execute", "tell"},
           Go(s, j), UNCHANGED <<life, filed, approval, executed, told, excused>>
    PROVE  AInv'
<1>1. job' = [job EXCEPT ![s] = j] /\ job \in [Sessions -> Job]
  BY DEF Go, AInv, TypeOK
<1>2. \A u \in Sessions : job'[u] = IF u = s THEN j ELSE job[u]
  BY <1>1
<1>3. TypeOK' /\ UndecidedInv' /\ OneOutcome'
  BY <1>1 DEF AInv, TypeOK, UndecidedInv, OneOutcome
<1>4. DecidingInv'
  BY <1>1, <1>2 DEF AInv, DecidingInv, Carrying, Recorded, ToExecute, ToTell, OneDecider
<1>5. ApprovedIsExecuted'
  BY <1>2 DEF AInv, ApprovedIsExecuted, Deciding
<1> QED
  BY <1>3, <1>4, <1>5 DEF AInv

\* The steps of a request for approval, and of a decision until it is recorded.
LEMMA AskKeeps ==
    ASSUME AInv, NEW s \in Sessions,
           \/ \E a \in Assets, type \in Type : RequestRead(s, a, type)
           \/ RequestCheck(s)
           \/ \E p \in Approvals, d \in Decision : DecideRead(s, p, d)
           \/ DecideConflict(s)
    PROVE  AInv'
<1>1. CASE \E a \in Assets, type \in Type : RequestRead(s, a, type)
  <2>1. PICK a \in Assets, type \in Type : RequestRead(s, a, type)
    BY <1>1
  <2> DEFINE j == [step |-> "ask", asset |-> a, type |-> type]
  <2>2. j \in Job /\ j.step = "ask"
    BY DEF Job, AskJob
  <2>3. /\ Go(s, j) /\ job[s].step = "idle"
        /\ UNCHANGED <<life, filed, approval, executed, told, excused>>
    BY <2>1 DEF RequestRead
  <2> HIDE DEF j
  <2> QED
    BY <2>2, <2>3, QuietKeeps
<1>2. CASE RequestCheck(s)
  <2> DEFINE j == IF FindPending(job[s].asset, job[s].type) # {} THEN Idle
                  ELSE [job[s] EXCEPT !.step = "insert"]
  <2>1. /\ Go(s, j) /\ job[s].step = "ask"
        /\ UNCHANGED <<life, filed, approval, executed, told, excused>>
    BY <1>2 DEF RequestCheck
  <2>2. job[s] \in AskJob
    BY <2>1 DEF AInv, TypeOK, Job, IdleJob, AskJob, DecideJob
  <2>3. j \in Job /\ j.step \in {"idle", "insert"}
    BY <2>2, JobShape DEF Job, AskJob
  <2> HIDE DEF j
  <2> QED
    BY <2>1, <2>3, QuietKeeps
<1>3. CASE \E p \in Approvals, d \in Decision : DecideRead(s, p, d)
  <2>1. PICK p \in Approvals, d \in Decision : DecideRead(s, p, d)
    BY <1>3
  <2> DEFINE j == [step |-> "decide", on |-> p, decision |-> d]
  <2>2. j \in Job /\ j.step = "decide"
    BY DEF Job, DecideJob
  <2>3. /\ Go(s, j) /\ job[s].step = "idle"
        /\ UNCHANGED <<life, filed, approval, executed, told, excused>>
    BY <2>1 DEF DecideRead
  <2> HIDE DEF j
  <2> QED
    BY <2>2, <2>3, QuietKeeps
<1>4. CASE DecideConflict(s)
  BY <1>4, JobShape, QuietKeeps DEF DecideConflict
<1> QED
  BY <1>1, <1>2, <1>3, <1>4

\* A new approval is pending and nothing has come of it.
LEMMA InsertKeeps ==
    ASSUME AInv, NEW s \in Sessions, RequestInsert(s)
    PROVE  AInv'
<1> DEFINE row == [asset |-> job[s].asset, type |-> job[s].type, status |-> "pending"]
<1>1. PICK p \in Approvals : ~Exists(p) /\ approval' = [approval EXCEPT ![p] = row]
  BY DEF RequestInsert
<1>2. /\ job[s].step = "insert" /\ job' = [job EXCEPT ![s] = Idle]
      /\ UNCHANGED <<life, filed, executed, told, excused>>
  BY DEF RequestInsert, Go
<1>3. row \in Row /\ row.status = "pending"
  BY <1>2, JobShape DEF Row
<1>4. approval \in [Approvals -> Row \cup {NoRow}] /\ job \in [Sessions -> Job]
  BY DEF AInv, TypeOK
<1>5. approval[p].status = "none"
  BY <1>1, <1>4 DEF Exists, NoRow
<1> HIDE DEF row
<1>6. \A q \in Approvals : approval'[q] = IF q = p THEN row ELSE approval[q]
  BY <1>1, <1>4
<1>7. \A u \in Sessions : job'[u] = IF u = s THEN Idle ELSE job[u]
  BY <1>2, <1>4
<1>8. \A u \in Carrying : job[u].on # p /\ job[u].on \in Approvals
  BY <1>5, JobShape DEF AInv, DecidingInv, Recorded, Carrying, Decision
<1>9. TypeOK'
  BY <1>1, <1>2, <1>3, <1>4, JobShape DEF AInv, TypeOK
<1>10. DecidingInv'
  <2>1. Carrying' = Carrying \ {s}
    BY <1>7, JobShape DEF Carrying
  <2>2. \A u \in Carrying' : /\ job'[u] = job[u] /\ approval'[job[u].on] = approval[job[u].on]
                            /\ told'[job[u].on] = told[job[u].on]
    BY <1>2, <1>6, <1>7, <1>8, <2>1 DEF Carrying
  <2>3. Recorded' /\ OneDecider'
    BY <2>1, <2>2 DEF AInv, DecidingInv, Recorded, OneDecider
  <2>4. Idle.step = "idle"
    BY DEF Idle
  <2>5. ToExecute'
    BY <1>2, <1>7, <2>4 DEF AInv, DecidingInv, ToExecute
  <2>6. ToTell'
    BY <1>2, <1>7, <2>4 DEF AInv, DecidingInv, ToTell
  <2> QED
    BY <2>3, <2>5, <2>6 DEF DecidingInv
<1>11. UndecidedInv' /\ OneOutcome'
  BY <1>2, <1>3, <1>5, <1>6 DEF AInv, UndecidedInv, OneOutcome
<1>12. ApprovedIsExecuted'
  BY <1>2, <1>3, <1>6, <1>7, JobShape DEF AInv, ApprovedIsExecuted, Deciding
<1> QED
  BY <1>9, <1>10, <1>11, <1>12 DEF AInv

\* Recording a decision.
LEMMA DecideKeeps ==
    ASSUME AInv, NEW s \in Sessions, DecideWrite(s)
    PROVE  AInv'
<1> DEFINE p == job[s].on
           st == IF job[s].decision = "approved" THEN "execute" ELSE "tell"
           j == [job[s] EXCEPT !.step = st]
           row == [approval[p] EXCEPT !.status = job[s].decision]
<1>1. /\ job[s].step = "decide" /\ approval[p].status = "pending"
      /\ job' = [job EXCEPT ![s] = j]
      /\ UNCHANGED <<life, filed, executed, told, excused>>
  BY DEF DecideWrite, StillPending, Go
<1>2. approval \in [Approvals -> Row \cup {NoRow}] /\ job \in [Sessions -> Job]
  BY DEF AInv, TypeOK
<1>3. p \in Approvals /\ job[s].decision \in Decision
  BY <1>1, JobShape
<1>4. /\ j \in Job /\ j.step = st /\ j.on = p /\ j.decision = job[s].decision
      /\ st \in {"execute", "tell"}
  BY <1>1, JobShape
<1>5. approval[p] \in Row
  BY <1>1, <1>2, <1>3 DEF NoRow
<1>6. row \in Row /\ row.status = job[s].decision
  BY <1>3, <1>5 DEF Row
<1>7. approval' = [approval EXCEPT ![p] = row]
  BY <1>2, <1>3 DEF DecideWrite
<1>8. \A q \in Approvals : approval'[q] = IF q = p THEN row ELSE approval[q]
  BY <1>2, <1>7
<1>9. \A u \in Sessions : job'[u] = IF u = s THEN j ELSE job[u]
  BY <1>1, <1>2
<1>10. \A u \in Carrying : job[u].on # p /\ job[u].on \in Approvals
  BY <1>1, JobShape DEF AInv, DecidingInv, Recorded, Carrying, Decision
<1>11. executed[p] = 0 /\ told[p] = {}
  BY <1>1, <1>3 DEF AInv, UndecidedInv
<1>12. st = "execute" <=> job[s].decision = "approved"
  OBVIOUS
<1> HIDE DEF p, j, row, st
<1>13. TypeOK'
  BY <1>1, <1>2, <1>3, <1>4, <1>6, <1>7 DEF AInv, TypeOK
<1>14. DecidingInv'
  <2>1. Carrying' = Carrying \cup {s} /\ s \notin Carrying
    BY <1>1, <1>4, <1>9 DEF Carrying
  <2>2. \A u \in Carrying : /\ job'[u] = job[u] /\ approval'[job[u].on] = approval[job[u].on]
                           /\ told'[job[u].on] = told[job[u].on]
    BY <1>1, <1>8, <1>9, <1>10, <2>1 DEF Carrying
  <2>3. /\ job'[s] = j /\ approval'[p] = row /\ told'[p] = {} /\ executed'[p] = 0
    BY <1>1, <1>3, <1>8, <1>9, <1>11
  <2>4. Recorded'
    BY <1>4, <1>6, <2>1, <2>2, <2>3 DEF AInv, DecidingInv, Recorded
  <2>5. OneDecider'
    BY <1>4, <1>10, <2>1, <2>2, <2>3 DEF AInv, DecidingInv, OneDecider
  <2>6. ToExecute'
    BY <1>1, <1>4, <1>9, <1>12, <2>3 DEF AInv, DecidingInv, ToExecute
  <2>7. ToTell'
    BY <1>1, <1>4, <1>9, <1>12, <2>3 DEF AInv, DecidingInv, ToTell
  <2> QED
    BY <2>4, <2>5, <2>6, <2>7 DEF DecidingInv
<1>15. UndecidedInv' /\ OneOutcome'
  BY <1>1, <1>3, <1>6, <1>8, <1>11 DEF AInv, UndecidedInv, OneOutcome, Decision
<1>16. ApprovedIsExecuted'
  <2>1. ASSUME NEW q \in Approvals, approval'[q].status = "approved",
               \A u \in Sessions : ~Deciding(u, q)'
        PROVE  executed'[q] = 1 \/ q \in excused'
    <3>1. q # p
      BY <1>4, <1>9, <2>1 DEF Deciding
    <3>2. \A u \in Sessions : ~Deciding(u, q)
      BY <1>1, <1>9, <2>1 DEF Deciding
    <3> QED
      BY <1>1, <1>8, <2>1, <3>1, <3>2 DEF AInv, ApprovedIsExecuted
  <2> QED
    BY <2>1 DEF ApprovedIsExecuted
<1> QED
  BY <1>13, <1>14, <1>15, <1>16 DEF AInv

\* A disposal in the register leaves the type of the register as it was.
LEMMA DisposeTyped ==
    ASSUME life \in [Assets -> Register!Stage], filed \in [Assets -> Nat],
           NEW a, Register!Dispose(a)
    PROVE  life' \in [Assets -> Register!Stage] /\ filed' \in [Assets -> Nat]
  BY DEF Register!Dispose, Register!Become, Register!Stage

\* Carrying out an approved decision, or finding its asset deleted.
LEMMA ExecuteKeeps ==
    ASSUME AInv, NEW s \in Sessions,
           ExecuteDisposal(s) \/ ExecuteTransfer(s) \/ ExecuteNothing(s)
    PROVE  AInv'
<1> DEFINE p == job[s].on
           j == [job[s] EXCEPT !.step = "tell"]
<1>1. /\ job[s].step = "execute" /\ job' = [job EXCEPT ![s] = j]
      /\ approval' = approval /\ told' = told
  BY DEF ExecuteDisposal, ExecuteTransfer, ExecuteNothing, Go
<1>2. job \in [Sessions -> Job] /\ executed \in [Approvals -> Nat] /\ excused \subseteq Approvals
  BY DEF AInv, TypeOK
<1>3. /\ p \in Approvals /\ s \in Carrying
      /\ j \in Job /\ j.step = "tell" /\ j.on = p /\ j.decision = job[s].decision
  BY <1>1, JobShape DEF Carrying
<1>4. executed[p] = 0 /\ approval[p].status = "approved"
  BY <1>1, <1>3 DEF AInv, DecidingInv, Recorded, ToExecute
<1>5. \/ executed' = [executed EXCEPT ![p] = 1] /\ excused' = excused
      \/ executed' = executed /\ excused' = excused \cup {p}
  BY <1>2, <1>3, <1>4 DEF ExecuteDisposal, ExecuteTransfer, ExecuteNothing
<1> HIDE DEF p, j
<1>6. /\ \A q \in Approvals : q # p => executed'[q] = executed[q]
      /\ \A q \in Approvals : executed'[q] \in {executed[q], 1} /\ (q \in excused => q \in excused')
      /\ executed'[p] = 1 \/ p \in excused'
      /\ executed'[p] \in {0, 1} /\ p \in Approvals
  BY <1>2, <1>3, <1>4, <1>5
<1>7. \A u \in Sessions : job'[u] = IF u = s THEN j ELSE job[u]
  BY <1>1, <1>2
<1>8. TypeOK'
  <2>1. life' \in [Assets -> Register!Stage] /\ filed' \in [Assets -> Nat]
    <3>1. CASE ExecuteDisposal(s)
      <4>1. life \in [Assets -> Register!Stage] /\ filed \in [Assets -> Nat]
        BY DEF AInv, TypeOK
      <4>2. Register!Dispose(approval[p].asset)
        BY <3>1 DEF ExecuteDisposal, p
      <4> QED
        BY <4>1, <4>2, DisposeTyped
    <3>2. CASE ExecuteTransfer(s) \/ ExecuteNothing(s)
      BY <3>2 DEF ExecuteTransfer, ExecuteNothing, AInv, TypeOK
    <3> QED
      BY <3>1, <3>2
  <2>2. job' \in [Sessions -> Job]
    BY <1>1, <1>2, <1>3
  <2>3. executed' \in [Approvals -> Nat] /\ excused' \subseteq Approvals
    BY <1>2, <1>3, <1>5
  <2> QED
    BY <1>1, <2>1, <2>2, <2>3 DEF AInv, TypeOK
<1>9. DecidingInv'
  <2>1. Carrying' = Carrying
    BY <1>1, <1>3, <1>7 DEF Carrying
  <2>2. \A u \in Carrying : job'[u].on = job[u].on /\ job'[u].decision = job[u].decision
    BY <1>3, <1>7 DEF Carrying, p
  <2>3. \A u \in Carrying : u # s => job[u].on # p /\ job[u].on \in Approvals
    BY <1>3, JobShape DEF AInv, DecidingInv, OneDecider, Carrying, p
  <2>4. Recorded' /\ OneDecider'
    BY <1>1, <2>1, <2>2 DEF AInv, DecidingInv, Recorded, OneDecider
  <2>5. ToExecute'
    <3> SUFFICES ASSUME NEW u \in Sessions, job'[u].step = "execute"
                 PROVE  job'[u].decision = "approved" /\ executed'[job'[u].on] = 0
      BY DEF ToExecute
    <3>1. u # s /\ job'[u] = job[u] /\ u \in Carrying
      BY <1>3, <1>7 DEF Carrying
    <3> QED
      BY <1>6, <2>3, <3>1 DEF AInv, DecidingInv, ToExecute
  <2>6. ToTell'
    <3> SUFFICES ASSUME NEW u \in Sessions, job'[u].step = "tell", job'[u].decision = "approved"
                 PROVE  executed'[job'[u].on] = 1 \/ job'[u].on \in excused'
      BY DEF ToTell
    <3>1. CASE u = s
      BY <1>3, <1>6, <1>7, <3>1
    <3>2. CASE u # s
      <4>1. job'[u] = job[u] /\ u \in Carrying
        BY <1>7, <3>2 DEF Carrying
      <4> QED
        BY <1>6, <2>3, <3>2, <4>1 DEF AInv, DecidingInv, ToTell
    <3> QED
      BY <3>1, <3>2
  <2> QED
    BY <2>4, <2>5, <2>6 DEF DecidingInv
<1>10. UndecidedInv' /\ OneOutcome'
  BY <1>1, <1>4, <1>6 DEF AInv, UndecidedInv, OneOutcome
<1>11. ApprovedIsExecuted'
  <2> SUFFICES ASSUME NEW q \in Approvals, approval[q].status = "approved",
                      \A u \in Sessions : ~Deciding(u, q)'
               PROVE  executed'[q] = 1 \/ q \in excused'
    BY <1>1 DEF ApprovedIsExecuted
  <2>1. \A u \in Sessions : u # s => ~Deciding(u, q)
    BY <1>7 DEF Deciding
  <2>2. q # p
    BY <1>3, <1>7 DEF Deciding
  <2>3. \A u \in Sessions : ~Deciding(u, q)
    BY <2>1, <2>2 DEF Deciding, p
  <2> QED
    BY <1>6, <2>2, <2>3 DEF AInv, ApprovedIsExecuted
<1> QED
  BY <1>8, <1>9, <1>10, <1>11 DEF AInv

\* A request that carries a decision ends: told, or with an error.
LEMMA EndDecisionKeeps ==
    ASSUME AInv, NEW s \in Sessions, Tell(s) \/ Fail(s)
    PROVE  AInv'
<1> DEFINE p == job[s].on
<1>1. job[s].step # "idle" /\ job' = [job EXCEPT ![s] = Idle] /\ UNCHANGED <<life, filed, approval, executed>>
  BY DEF Tell, Fail, Go
<1>2. /\ job \in [Sessions -> Job] /\ told \in [Approvals -> SUBSET Decision]
      /\ excused \subseteq Approvals
  BY DEF AInv, TypeOK
<1>3. \A u \in Sessions : job'[u] = IF u = s THEN Idle ELSE job[u]
  BY <1>1, <1>2
<1>4. Idle.step = "idle" /\ Idle \in Job
  BY JobShape
<1>5. Carrying' = Carrying \ {s}
  BY <1>3, <1>4 DEF Carrying
<1>6. \A u \in Carrying \ {s} : job[u].on \in Approvals /\ (s \in Carrying => job[u].on # p)
  BY JobShape DEF AInv, DecidingInv, OneDecider, Carrying
<1>7. CASE Tell(s)
  <2>1. /\ s \in Carrying /\ p \in Approvals /\ job[s].decision \in Decision
        /\ approval[p].status = job[s].decision /\ told[p] = {}
    BY <1>7, JobShape DEF Tell, Carrying, AInv, DecidingInv, Recorded
  <2>2. told' = [told EXCEPT ![p] = {job[s].decision}] /\ excused' = excused
    BY <1>2, <1>7, <2>1 DEF Tell
  <2>3. \A q \in Approvals : told'[q] = IF q = p THEN {job[s].decision} ELSE told[q]
    BY <1>2, <2>2
  <2>4. job[s].decision = "approved" => executed[p] = 1 \/ p \in excused
    BY <1>7 DEF Tell, AInv, DecidingInv, ToTell
  <2> HIDE DEF p
  <2>5. TypeOK'
    BY <1>1, <1>2, <1>4, <2>1, <2>2 DEF AInv, TypeOK
  <2>6. DecidingInv'
    <3>1. Recorded'
      BY <1>1, <1>3, <1>5, <1>6, <2>1, <2>3 DEF AInv, DecidingInv, Recorded
    <3>2. OneDecider'
      <4>1. \A u \in Carrying' : u \in Carrying /\ job'[u] = job[u]
        BY <1>3, <1>5 DEF Carrying
      <4> QED
        BY <4>1 DEF AInv, DecidingInv, OneDecider
    <3>3. ToExecute'
      BY <1>1, <1>3, <1>4 DEF AInv, DecidingInv, ToExecute
    <3>4. ToTell'
      BY <1>1, <1>3, <1>4, <2>2 DEF AInv, DecidingInv, ToTell
    <3> QED
      BY <3>1, <3>2, <3>3, <3>4 DEF DecidingInv
  <2>7. UndecidedInv' /\ OneOutcome'
    BY <1>1, <2>1, <2>3 DEF AInv, UndecidedInv, OneOutcome, Decision
  <2>8. ApprovedIsExecuted'
    BY <1>1, <1>3, <2>1, <2>2, <2>4 DEF AInv, ApprovedIsExecuted, Deciding, p
  <2> QED
    BY <2>5, <2>6, <2>7, <2>8 DEF AInv
<1>8. CASE Fail(s)
  <2>1. told' = told /\ excused' \subseteq Approvals /\ excused \subseteq excused'
    BY <1>2, <1>8, JobShape DEF Fail
  <2>2. job[s].step \in {"execute", "tell"} => p \in excused'
    BY <1>8 DEF Fail
  <2>3. TypeOK'
    BY <1>1, <1>2, <1>4, <2>1 DEF AInv, TypeOK
  <2>4. DecidingInv'
    <3>1. Recorded' /\ OneDecider'
      BY <1>1, <1>3, <1>5, <2>1 DEF AInv, DecidingInv, Recorded, OneDecider
    <3>2. ToExecute'
      BY <1>1, <1>3, <1>4 DEF AInv, DecidingInv, ToExecute
    <3>3. ToTell'
      BY <1>1, <1>3, <1>4, <2>1 DEF AInv, DecidingInv, ToTell
    <3> QED
      BY <3>1, <3>2, <3>3 DEF DecidingInv
  <2>5. UndecidedInv' /\ OneOutcome'
    BY <1>1, <2>1 DEF AInv, UndecidedInv, OneOutcome
  <2>6. ApprovedIsExecuted'
    BY <1>1, <1>3, <2>1, <2>2 DEF AInv, ApprovedIsExecuted, Deciding
  <2> QED
    BY <2>3, <2>4, <2>5, <2>6 DEF AInv
<1> QED
  BY <1>7, <1>8

\* The register moves without the approvals.
LEMMA RegisterKeepsA ==
    ASSUME AInv, NEW a \in Assets, DirectDispose(a) \/ RegisterStep(a)
    PROVE  AInv'
<1>1. UNCHANGED <<approval, job, executed, told, excused>>
  BY DEF DirectDispose, RegisterStep
<1>2. life \in [Assets -> Register!Stage] /\ filed \in [Assets -> Nat]
  BY DEF AInv, TypeOK
<1>3. life' \in [Assets -> Register!Stage] /\ filed' \in [Assets -> Nat]
  <2>1. CASE Register!Register({a})
    BY <1>2, <2>1 DEF Register!Register, Register!Stage
  <2>2. CASE Register!Revise({a})
    <3>1. PICK st \in Register!Working :
            life' = [b \in Assets |->
                       IF b \in {a} THEN [status |-> st, deleted |-> FALSE] ELSE life[b]]
      BY <2>2 DEF Register!Revise
    <3>2. [status |-> st, deleted |-> FALSE] \in Register!Stage
      BY DEF Register!Stage
    <3>3. filed' \in [Assets -> Nat]
      BY <1>2, <2>2 DEF Register!Revise
    <3> QED
      BY <1>2, <3>1, <3>2, <3>3
  <2>3. CASE Register!Delete({a})
    BY <1>2, <2>3 DEF Register!Delete, Register!Stage
  <2>4. CASE Register!Dispose(a)
    BY <1>2, <2>4 DEF Register!Dispose, Register!Become, Register!Stage
  <2>5. CASE Register!Restore(a)
    BY <1>2, <2>5 DEF Register!Restore, Register!Become, Register!Stage
  <2> QED
    BY <2>1, <2>2, <2>3, <2>4, <2>5 DEF DirectDispose, RegisterStep
<1> QED
  BY <1>1, <1>3 DEF AInv, TypeOK, DecidingInv, Carrying, Recorded, ToExecute, ToTell,
     OneDecider, UndecidedInv, OneOutcome, ApprovedIsExecuted, Deciding

-----------------------------------------------------------------------------
(* Theorems *)

\* No approvals: the invariant holds.
LEMMA InitAInv == Init => AInv
<1> SUFFICES ASSUME Init PROVE AInv
  OBVIOUS
<1>1. life \in [Assets -> Register!Stage] /\ filed \in [Assets -> Nat]
  BY DEF Init, Register!Init, Register!Stage, Register!Absent
<1>2. \A s \in Sessions : job[s].step = "idle"
  BY DEF Init, Idle
<1>3. job \in [Sessions -> Job]
  BY DEF Init, Idle, Job, IdleJob
<1>4. \A p \in Approvals : approval[p].status = "none" /\ executed[p] = 0 /\ told[p] = {}
  BY DEF Init, NoRow
<1>5. TypeOK
  BY <1>1, <1>3 DEF Init, TypeOK
<1> QED
  BY <1>2, <1>4, <1>5 DEF AInv, DecidingInv, Carrying, Recorded, ToExecute, ToTell,
     OneDecider, UndecidedInv, OneOutcome, ApprovedIsExecuted

\* Every step keeps the invariant.
LEMMA NextAInv == AInv /\ [Next]_vars => AInv'
<1> SUFFICES ASSUME AInv, [Next]_vars PROVE AInv'
  OBVIOUS
<1>1. ASSUME NEW s \in Sessions, Proceed(s) \/ Fail(s) PROVE AInv'
  BY <1>1, AskKeeps, InsertKeeps, DecideKeeps, ExecuteKeeps, EndDecisionKeeps DEF Proceed
<1>2. ASSUME NEW s \in Sessions, NEW a \in Assets, NEW type \in Type, RequestRead(s, a, type)
      PROVE  AInv'
  BY <1>2, AskKeeps
<1>3. ASSUME NEW s \in Sessions, NEW p \in Approvals, NEW d \in Decision, DecideRead(s, p, d)
      PROVE  AInv'
  BY <1>3, AskKeeps
<1>4. ASSUME NEW a \in Assets, DirectDispose(a) \/ RegisterStep(a)
      PROVE  AInv'
  BY <1>4, RegisterKeepsA
<1>5. CASE UNCHANGED vars
  BY <1>5 DEF vars, AInv, TypeOK, DecidingInv, Carrying, Recorded, ToExecute, ToTell,
     OneDecider, UndecidedInv, OneOutcome, ApprovedIsExecuted, Deciding
<1> QED
  BY <1>1, <1>2, <1>3, <1>4, <1>5 DEF Next

\* Every variable keeps its type, for any number of assets, approvals and requests.
THEOREM ApprovalsTyping == Spec => []TypeOK
<1>1. AInv => TypeOK
  BY DEF AInv
<1> QED
  BY <1>1, InitAInv, NextAInv, PTL DEF Spec

\* However many approvers decide at once, an approval is carried out at most once
\* and only if it ends up approved, and the requester is told what the row says
\* (the status compared in the WHERE clause of decideApproval).
THEOREM OneOutcomeHolds == Spec => []OneOutcome
<1>1. AInv => OneOutcome
  BY DEF AInv
<1> QED
  BY <1>1, InitAInv, NextAInv, PTL DEF Spec

\* No approved request gets lost without a deleted asset or a failed decision
\* (the execution that decideDisposalApprovalService runs after its decision).
THEOREM NothingLost == Spec => []ApprovedIsExecuted
<1>1. AInv => ApprovedIsExecuted
  BY DEF AInv
<1> QED
  BY <1>1, InitAInv, NextAInv, PTL DEF Spec

=============================================================================
