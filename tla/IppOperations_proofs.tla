------------------------ MODULE IppOperations_proofs -------------------------
(***************************************************************************)
(* What a client can rely on, for any printers, reasons and id width, any  *)
(* jobs, documents and requests: a request is a step of the spooler or     *)
(* changes nothing of it, whatever it carries.                             *)
(***************************************************************************)
EXTENDS IppOperations, SpoolPromise_proofs

-----------------------------------------------------------------------------
(***************************************************************************)
(* The ids of requests, and the jobs they reach.                           *)
(***************************************************************************)

\* The number on the wire gives back the id, also when it is negative.
LEMMA WireRoundTrip ==
    ASSUME NEW id \in JobId
    PROVE  FromWire(Wire(id)) = id
BY IdLimitAssumption DEF JobId, Wire, FromWire

\* An id that finds a job is the position of that job; no other id finds any.
LEMMA FoundIsPosition ==
    ASSUME SpoolBase, NEW id, Find(id) # {}
    PROVE  id \in DOMAIN jobs /\ id \in 1 .. MaxJobs /\ Find(id) = {id} /\ JobOf(id) = id
<1>1. SpoolTypeOK /\ JobIds /\ DOMAIN jobs = 1 .. Len(jobs) /\ Len(jobs) \in Nat
  BY LenProperties DEF SpoolBase, SpoolTypeOK, JobTypeOK
<1>2. PICK i \in DOMAIN jobs : jobs[i].id = id
  BY DEF Find
<1>3. i = id
  BY <1>1, <1>2 DEF JobIds
<1>4. Find(id) = {id}
  BY <1>1, <1>3, FindJob
<1>5. id \in 1 .. MaxJobs
  BY <1>1, <1>2, <1>3, MaxJobsAssumption DEF JobIds
<1> QED
  BY <1>2, <1>3, <1>4, <1>5 DEF JobOf

LEMMA JobOfInRange ==
    ASSUME SpoolBase, NEW id
    PROVE  JobOf(id) \in 0 .. Len(jobs)
<1>1. DOMAIN jobs = 1 .. Len(jobs) /\ Len(jobs) \in Nat
  BY LenProperties DEF SpoolBase, SpoolTypeOK, JobTypeOK
<1>2. CASE Find(id) = {}
  BY <1>1, <1>2 DEF JobOf
<1>3. CASE Find(id) # {}
  BY <1>1, <1>3, FoundIsPosition
<1> QED
  BY <1>2, <1>3

\* Whatever ids a request carries, it is a step of the spooler or none.
LEMMA RequestIsSpoolStep ==
    ASSUME SpoolBase, [OpNext]_opVars
    PROVE  [SpoolNext]_spoolVars
<1>1. ASSUME NEW id, CancelJob(id)
      PROVE  [SpoolNext]_spoolVars
  <2>1. CASE Find(id) = {}
    BY <1>1, <2>1 DEF CancelJob, Cancel, UnknownId, jobVars, spoolVars
  <2>2. CASE Find(id) # {}
    BY <1>1, <2>2, FoundIsPosition DEF SpoolNext, Handler
  <2> QED
    BY <2>1, <2>2
<1>2. ASSUME NEW p \in Printer, NEW id, SendDocument(p, id)
      PROVE  [SpoolNext]_spoolVars
  <2>1. Find(id) # {}
    BY <1>2 DEF SendDocument
  <2> QED
    BY <1>2, <2>1, FoundIsPosition DEF SpoolNext, Handler
<1>3. ASSUME NEW p \in Printer,
             AnswerPrintJob(p) \/ AnswerCreateJob(p) \/ AnswerCancelMyJobs(p)
      PROVE  [SpoolNext]_spoolVars
  BY <1>3 DEF AnswerPrintJob, AnswerCreateJob, AnswerCancelMyJobs, SpoolNext, Handler
<1>4. ASSUME NEW p \in Printer, AnswerSendDocument(p)
      PROVE  [SpoolNext]_spoolVars
  BY <1>2, <1>4 DEF AnswerSendDocument
<1>5. CASE AnswerCancelJob
  BY <1>1, <1>5 DEF AnswerCancelJob
<1>6. CASE ContinueCancelMyJobs
  BY <1>6 DEF ContinueCancelMyJobs, SpoolNext, Handler
<1>7. CASE Refuse \/ AnswerCloseJob \/ AnswerGetJobAttributes \/ AnswerAlways
  BY <1>7 DEF Refuse, AnswerCloseJob, AnswerGetJobAttributes, AnswerAlways
<1>8. ASSUME NEW t \in 1 .. MaxDocuments, Worker(t)
      PROVE  [SpoolNext]_spoolVars
  BY <1>8 DEF SpoolNext
<1>9. CASE UNCHANGED opVars
  BY <1>9 DEF opVars
<1> QED
  BY <1>3, <1>4, <1>5, <1>6, <1>7, <1>8, <1>9 DEF OpNext, Request

LEMMA OpBaseHolds == OpSpec => []SpoolBase
<1>1. OpInit => SpoolBase
  BY BaseInit DEF OpInit
<1>2. SpoolBase /\ [OpNext]_opVars => SpoolBase'
  BY RequestIsSpoolStep, BaseStep
<1> QED
  BY <1>1, <1>2, PTL DEF OpSpec

\* Whoever sends back the job-id or the job-uri of an answer reaches that job and no
\* other, for any id width (extract_job_id, print_job_accepted).
THEOREM AnsweredIdsFindJobs == OpSpec => []AnsweredIdFindsJob
<1>1. SpoolBase => AnsweredIdFindsJob
  <2> SUFFICES ASSUME SpoolBase, NEW i \in DOMAIN jobs, NEW req \in Echo(i),
                      NEW id \in ExtractJobId(req)
               PROVE  id # NoId /\ Find(id) = {i}
    BY DEF AnsweredIdFindsJob
  <2>1. SpoolTypeOK /\ JobIds /\ jobs[i] \in JobRecord
    BY ElementOfSeq, LenProperties DEF SpoolBase, SpoolTypeOK, JobTypeOK
  <2>2. jobs[i].id = i /\ Find(i) = {i} /\ i \in JobId
    <3>1. jobs[i].id \in JobId
      BY <2>1 DEF JobRecord
    <3> QED
      BY <2>1, <3>1, FindJob
  <2>3. req.jobId \subseteq {Wire(i)} /\ req.jobUri \subseteq {i} /\ req.jobId \cup req.jobUri # {}
    BY <2>2 DEF Echo, JobAttributes
  <2>4. FromWire(Wire(i)) = i
    BY <2>2, WireRoundTrip
  <2>5. {FromWire(n) : n \in req.jobId} \cup req.jobUri = {i}
    BY <2>3, <2>4
  <2>6. id = i
    BY <2>5 DEF ExtractJobId
  <2>7. id # NoId
    BY <2>2, <2>6, IdLimitAssumption DEF JobId, NoId
  <2> QED
    BY <2>2, <2>6, <2>7
<1> QED
  BY <1>1, OpBaseHolds, PTL

-----------------------------------------------------------------------------
(***************************************************************************)
(* The answers.                                                            *)
(***************************************************************************)

AnswerRecord == [op : Operation, status : Status, job : 0 .. Len(jobs)]

AnswerOK == answer \in AnswerRecord

LEMMA AnswerTypeStep ==
    ASSUME SpoolBase, SpoolBase', answer \in AnswerRecord, [OpNext]_opVars
    PROVE  answer' \in AnswerRecord'
<1> DEFINE M == 0 .. Len(jobs')
<1>1. /\ DOMAIN jobs = 1 .. Len(jobs) /\ Len(jobs) \in Nat
      /\ DOMAIN jobs' = 1 .. Len(jobs') /\ Len(jobs') \in Nat
  BY LenProperties DEF SpoolBase, SpoolTypeOK, JobTypeOK
<1>2. Len(jobs) <= Len(jobs')
  <2>1. CASE SpoolNext
    <3>1. DOMAIN jobs \subseteq DOMAIN jobs'
      BY <2>1, StepKeepsJobs DEF JobsKept
    <3> QED
      BY <1>1, <3>1
  <2>2. CASE UNCHANGED spoolVars
    BY <1>1, <2>2 DEF spoolVars
  <2> QED
    BY <2>1, <2>2, RequestIsSpoolStep
<1>3. ASSUME NEW op \in Operation, NEW st \in Status, NEW j \in 0 .. Len(jobs'),
             Respond(op, st, j)
      PROVE  answer' \in AnswerRecord'
  BY <1>3 DEF Respond, AnswerRecord
<1>4. \A id : JobOf(id) \in 0 .. Len(jobs')
  <2>1. \A id : JobOf(id) \in 0 .. Len(jobs)
    BY JobOfInRange
  <2> QED
    BY <1>1, <1>2, <2>1
<1>5. 0 \in 0 .. Len(jobs') /\ answer' = NoAnswer => answer' \in AnswerRecord'
  BY <1>1 DEF NoAnswer, AnswerRecord, Operation, Status
<1>6. 0 \in 0 .. Len(jobs')
  BY <1>1
<1>7. \A id : LookupStatus(id) \in Status /\ CancelStatus(id) \in Status
  BY DEF LookupStatus, CancelStatus, Status
<1>8. CASE Refuse
  <2>1. PICK flaw \in DOMAIN Refusal : Respond("any", Refusal[flaw], 0)
    BY <1>8 DEF Refuse
  <2>2. Refusal[flaw] \in Status
    BY <2>1 DEF Refusal, Status
  <2> QED
    BY <1>3, <1>6, <2>1, <2>2 DEF Operation
<1>9. ASSUME NEW p \in Printer, AnswerPrintJob(p) \/ AnswerCreateJob(p)
      PROVE  answer' \in AnswerRecord'
  <2>1. Create(p)
    BY <1>9 DEF AnswerPrintJob, AnswerCreateJob, PrintJob, CreateJob
  <2>2. Len(jobs') = Len(jobs) + 1
    BY <2>1, CreateEffect DEF SpoolBase
  <2>3. Len(jobs) + 1 \in 0 .. Len(jobs')
    BY <1>1, <2>2
  <2> QED
    BY <1>3, <1>9, <2>3 DEF AnswerPrintJob, AnswerCreateJob, Operation, Status
<1>10. ASSUME NEW p \in Printer, AnswerSendDocument(p)
       PROVE  answer' \in AnswerRecord'
  BY <1>3, <1>4, <1>6, <1>7, <1>10 DEF AnswerSendDocument, Operation, Status
<1>11. ASSUME NEW p \in Printer, AnswerCancelMyJobs(p)
       PROVE  answer' \in AnswerRecord'
  BY <1>3, <1>5, <1>6, <1>11 DEF AnswerCancelMyJobs, Operation, Status
<1>12. CASE ContinueCancelMyJobs
  BY <1>3, <1>5, <1>6, <1>12 DEF ContinueCancelMyJobs, Operation, Status
<1>13. CASE AnswerCancelJob
  BY <1>3, <1>4, <1>7, <1>13 DEF AnswerCancelJob, Operation
<1>14. CASE AnswerCloseJob
  BY <1>3, <1>4, <1>14 DEF AnswerCloseJob, Operation, Status
<1>15. CASE AnswerGetJobAttributes
  BY <1>3, <1>4, <1>7, <1>15 DEF AnswerGetJobAttributes, Operation
<1>16. CASE AnswerAlways
  BY <1>3, <1>6, <1>16 DEF AnswerAlways, Operation, Status
<1>17. CASE UNCHANGED opVars
  BY <1>17 DEF opVars, spoolVars, AnswerRecord
<1> QED
  BY <1>5, <1>6, <1>8, <1>9, <1>10, <1>11, <1>12, <1>13, <1>14, <1>15, <1>16, <1>17
     DEF OpNext, Request

\* The answer to a request has a status of IPP or HTTP and names a job that exists,
\* or none.
THEOREM OpTypeCorrect == OpSpec => []OpTypeOK
<1>1. OpInit => AnswerOK
  <2> SUFFICES ASSUME OpInit
               PROVE  answer \in AnswerRecord
    BY DEF AnswerOK
  <2>1. jobs = <<>> /\ answer = NoAnswer /\ 0 \in 0 .. Len(jobs)
    BY DEF OpInit, SpoolInit, JobInit
  <2> QED
    BY <2>1 DEF AnswerRecord, NoAnswer, Operation, Status
<1>2. SpoolBase /\ SpoolBase' /\ AnswerOK /\ [OpNext]_opVars => AnswerOK'
  BY AnswerTypeStep DEF AnswerOK
<1>3. SpoolBase /\ AnswerOK => OpTypeOK
  BY DEF SpoolBase, AnswerOK, AnswerRecord, OpTypeOK
<1> QED
  BY <1>1, <1>2, <1>3, OpBaseHolds, PTL DEF OpSpec

\* The answer to a Cancel-Job, right after the request.
LEMMA CancelAnswered ==
    ASSUME SpoolBase, AnswerCancelJob
    PROVE  CancelAnswerIsTrue'
<1> SUFFICES ASSUME answer'.job # 0
             PROVE  /\ answer'.status = "ok" <=> jobs'[answer'.job].state = "Canceled"
                    /\ answer'.status # "ok" =>
                          jobs'[answer'.job].state \in {"Completed", "Aborted"}
  BY DEF CancelAnswerIsTrue
<1>1. PICK id : Cancel(id) /\ Respond("Cancel-Job", CancelStatus(id), JobOf(id))
  BY DEF AnswerCancelJob, CancelJob
<1>2. answer'.job = JobOf(id) /\ answer'.status = CancelStatus(id)
  BY <1>1 DEF Respond
<1>3. Find(id) # {}
  BY <1>2 DEF JobOf
<1>4. id \in DOMAIN jobs /\ JobOf(id) = id /\ jobs[id].id = id /\ jobs[id] \in JobRecord
      /\ SpoolTypeOK /\ JobIds
  BY <1>3, FoundIsPosition, FindJob, ElementOfSeq, LenProperties
     DEF SpoolBase, SpoolTypeOK, JobTypeOK
<1>5. id # NoId
  <2>1. DOMAIN jobs = 1 .. Len(jobs) /\ Len(jobs) \in Nat
    BY <1>4, LenProperties DEF SpoolTypeOK, JobTypeOK
  <2> QED
    BY <1>4, <2>1 DEF NoId
<1>6. jobs'[id] = CancelRecord(jobs[id])
  BY <1>1, <1>4, CancelJobEffect
<1>7. CancelStatus(id) = IF CancelRecord(jobs[id]).state = "Canceled" THEN "ok" ELSE "not-possible"
  BY <1>3, <1>4, <1>5 DEF CancelStatus
<1>8. CancelRecord(jobs[id]).state \in {"Canceled", "Completed", "Aborted"}
  BY <1>4 DEF CancelRecord, JobRecord, Terminal
<1> QED
  BY <1>2, <1>4, <1>6, <1>7, <1>8

\* A client is told that its cancel was not possible only of a job that has printed
\* or failed, and that it was only of a job that is canceled (Cancel-Job).
THEOREM CancelAnswersAreTrue == OpSpec => []CancelAnswerIsTrue
<1>1. OpInit => CancelAnswerIsTrue
  BY DEF OpInit, NoAnswer, CancelAnswerIsTrue
<1>2. SpoolBase /\ CancelAnswerIsTrue /\ [OpNext]_opVars => CancelAnswerIsTrue'
  <2> SUFFICES ASSUME SpoolBase, CancelAnswerIsTrue, [OpNext]_opVars
               PROVE  CancelAnswerIsTrue'
    OBVIOUS
  <2>1. ASSUME NEW op, NEW st, NEW j, Respond(op, st, j), op # "Cancel-Job"
        PROVE  CancelAnswerIsTrue'
    BY <2>1 DEF Respond, CancelAnswerIsTrue
  <2>2. CASE answer' = NoAnswer
    BY <2>2 DEF NoAnswer, CancelAnswerIsTrue
  <2>3. CASE UNCHANGED opVars
    BY <2>3 DEF opVars, spoolVars, CancelAnswerIsTrue
  <2>4. CASE Request
    BY <2>1, <2>2, <2>4, CancelAnswered
       DEF Request, Refuse, AnswerPrintJob, AnswerCreateJob, AnswerSendDocument,
           AnswerCancelMyJobs, ContinueCancelMyJobs, AnswerCloseJob, AnswerGetJobAttributes,
           AnswerAlways
  <2> QED
    BY <2>2, <2>3, <2>4 DEF OpNext
<1> QED
  BY <1>1, <1>2, OpBaseHolds, PTL DEF OpSpec

-----------------------------------------------------------------------------
(***************************************************************************)
(* The reasons a job shows.  Only a worker whose document failed wrote     *)
(* any, and it never writes another state: if it is the only worker of the *)
(* job, the job stays Aborted.                                             *)
(***************************************************************************)

PastFailure == {"final", "cancel_reasons", "cancel_idle", "cancel_state", "persist", "finished"}

LoneFailure(i) ==
    \A t, u \in DOMAIN tasks : tasks[t].job = i /\ tasks[u].job = i /\ HasFailed(t) => t = u

ReasonsAreOfFailure ==
    \A i \in DOMAIN jobs : jobs[i].reasons # {} =>
        /\ \E t \in DOMAIN tasks : tasks[t].job = i /\ HasFailed(t)
        /\ LoneFailure(i) => jobs[i].state = "Aborted"

ReasonsInv == LastOutcome /\ ReasonsAreOfFailure

LEMMA FailedIsPast ==
    ASSUME LastOutcome, NEW t \in DOMAIN tasks, HasFailed(t)
    PROVE  tasks[t].pc \in PastFailure /\ tasks[t].outcome = "Failed"
  BY DEF LastOutcome, HasFailed, PastFailure

LEMMA FailureStays ==
    ASSUME SpoolBase, LastOutcome, SpoolNext, NEW t \in DOMAIN tasks, HasFailed(t)
    PROVE  HasFailed(t)'
<1>1. tasks[t].pc \in PastFailure /\ tasks[t].outcome = "Failed"
  BY FailedIsPast
<1>2. tasks'[t].outcome = "Failed"
  BY <1>1, OutcomeStays
<1>3. tasks'[t].pc \in PastFailure
  <2>1. CASE tasks'[t] = tasks[t]
    BY <1>1, <2>1
  <2>2. CASE Worker(t)
    BY <1>1, <2>2, NextLabel DEF PastFailure
  <2> QED
    BY <2>1, <2>2, OnlyItsOwnSteps
<1> QED
  BY <1>2, <1>3 DEF HasFailed, PastFailure

LEMMA ReasonsStep ==
    ASSUME SpoolBase, LastOutcome, ReasonsAreOfFailure, SpoolNext
    PROVE  ReasonsAreOfFailure'
<1>1. JobsKept /\ TasksKept
  BY StepKeepsJobs, StepKeepsTasks
<1> DEFINE Explained(i) == /\ \E t \in DOMAIN tasks' : tasks'[t].job = i /\ HasFailed(t)'
                           /\ LoneFailure(i)' => jobs'[i].state = "Aborted"
<1> SUFFICES ASSUME NEW i \in DOMAIN jobs', jobs'[i].reasons # {}
             PROVE  Explained(i)
  BY DEF ReasonsAreOfFailure
<1>2. ASSUME NEW t \in DOMAIN tasks, Fail(t), tasks[t].job = i, jobs'[i].state = "Aborted"
      PROVE  Explained(i)
  <2>1. SpoolTypeOK /\ Goto(t, "fail_state", "final") /\ "final" \in Label
    BY <1>2 DEF SpoolBase, Fail, Label
  <2>2. tasks[t].pc = "fail_state" /\ tasks'[t].pc = "final" /\ tasks'[t].outcome = tasks[t].outcome
    BY <2>1, GotoEffect
  <2>3. HasFailed(t)'
    BY <2>2 DEF LastOutcome, HasFailed
  <2> QED
    BY <1>1, <1>2, <2>3 DEF TasksKept
<1>3. ASSUME i \in DOMAIN jobs, jobs[i].reasons # {},
             \/ jobs'[i].state = jobs[i].state
             \/ jobs[i].state \notin Terminal
             \/ \E t \in DOMAIN tasks :
                   tasks[t].job = i /\ (MarkProcessing(t) \/ Hold(t) \/ Complete(t))
      PROVE  Explained(i)
  <2>1. PICK t \in DOMAIN tasks : tasks[t].job = i /\ HasFailed(t)
    BY <1>3 DEF ReasonsAreOfFailure
  <2>2. HasFailed(t)' /\ t \in DOMAIN tasks' /\ tasks'[t].job = i
    BY <1>1, <2>1, FailureStays DEF TasksKept
  <2>3. ASSUME LoneFailure(i)' PROVE jobs'[i].state = "Aborted"
    <3>1. \A u \in DOMAIN tasks : tasks[u].job = i => u = t
      BY <1>1, <2>2, <2>3 DEF LoneFailure, TasksKept
    <3>2. LoneFailure(i)
      BY <3>1 DEF LoneFailure
    <3>3. jobs[i].state = "Aborted"
      BY <1>3, <3>2 DEF ReasonsAreOfFailure
    <3>4. tasks[t].pc \in PastFailure
      BY <2>1, FailedIsPast
    <3>5. ~(MarkProcessing(t) \/ Hold(t) \/ Complete(t))
      BY <3>4 DEF MarkProcessing, Hold, Complete, Goto, At, PastFailure
    <3> QED
      BY <1>3, <3>1, <3>3, <3>5 DEF Terminal
  <2> QED
    BY <2>2, <2>3
<1> HIDE DEF Explained
<1> QED
  BY <1>2, <1>3, JobRecordStep

LEMMA ReasonsHold == OpSpec => []ReasonsInv
<1>1. OpInit => ReasonsInv
  BY DEF OpInit, SpoolInit, JobInit, ReasonsInv, LastOutcome, ReasonsAreOfFailure
<1>2. SpoolBase /\ ReasonsInv /\ [OpNext]_opVars => ReasonsInv'
  <2> SUFFICES ASSUME ReasonsInv, UNCHANGED spoolVars
               PROVE  ReasonsInv'
    BY RequestIsSpoolStep, LastOutcomeStep, ReasonsStep DEF ReasonsInv
  <2> QED
    BY DEF spoolVars, ReasonsInv, LastOutcome, ReasonsAreOfFailure, LoneFailure, HasFailed
<1> QED
  BY <1>1, <1>2, OpBaseHolds, PTL DEF OpSpec

\* The reasons a job shows say how it ended, and none before it has, for any reasons
\* and any documents, unless one of several documents failed
\* (job_state_reason_keywords, set_failure, set_state).
THEOREM ShownReasonsFit == OpSpec => []ReasonsFitState
<1>1. ReasonsInv => ReasonsFitState
  <2> SUFFICES ASSUME ReasonsInv, NEW i \in DOMAIN jobs, LoneFailure(i)
               PROVE  LET keywords == JobAttributes(jobs[i]).jobStateReasons
                      IN  CASE jobs[i].state = "Canceled"  -> keywords = {"job-canceled-by-user"}
                            [] jobs[i].state = "Completed" -> keywords = {"job-completed-successfully"}
                            [] jobs[i].state = "Aborted"   -> keywords = FailureKeywords(jobs[i].reasons)
                                  \/ keywords = {"aborted-by-system"}
                            [] OTHER -> keywords = {"none"}
    BY DEF ReasonsFitState, LoneFailure
  <2>1. jobs[i].state # "Aborted" => FailureKeywords(jobs[i].reasons) = {}
    BY DEF ReasonsInv, ReasonsAreOfFailure, FailureKeywords, Shown
  <2>2. JobAttributes(jobs[i]).jobStateReasons = StateReasons(jobs[i])
    BY DEF JobAttributes
  <2> QED
    BY <2>1, <2>2 DEF StateReasons, EndKeyword
<1> QED
  BY <1>1, ReasonsHold, PTL

-----------------------------------------------------------------------------
(***************************************************************************)
(* The interface implements the spooler.  No request, however it names its *)
(* job, reaches past the handlers of PrintSpooler, so all that is proved   *)
(* of the spooler holds for whatever clients send.                         *)
(***************************************************************************)

\* The interface implements the spooler: every request, refused or not, is one of the
\* spooler's handlers or changes nothing of it, and its answer is all that is added
\* (handle_ipp).
THEOREM RequestsAreSpooled == OpSpec => SpoolSpec
<1>1. OpInit => SpoolInit
  BY DEF OpInit
<1> QED
  BY <1>1, RequestIsSpoolStep, OpBaseHolds, PTL DEF OpSpec, SpoolSpec

\* A client that sends any requests, in any order, finds the promise kept: its job
\* is worked on until it is over, and at rest only a document or a cancel changes
\* it.  No job and no printer is left in processing, what a job reports is what
\* happened to it, a printer shows the work of a worker until another of its workers
\* takes the display over, and a cancel in time keeps a job from printing
\* (handle_ipp).
THEOREM ClientsAreServed ==
    OpSpec => /\ ImplementsPromise
              /\ [](NoStrandedJob /\ NoStuckPrinter /\ OutcomeIsEarned)
              /\ WorkIsShown
              /\ CanceledInTimeIsNotPrinted
              /\ OnlyHoldsRepeat
  BY RequestsAreSpooled, SpoolerImplementsPromise, JobIsSettled, PrinterIsFreed,
     OutcomesAreEarned, WorkStaysShown, CanceledInTimeIsKept, OnlyHoldsAreRepeated, PTL

\* Nor do requests get at the records but through the registry (handle_ipp).
THEOREM RequestsUseRegistry ==
    OpSpec => JobSpec /\ []IdsIdentifyJobs /\ []FinishedIsStamped /\ CancelKeepsOutcome
  BY RequestsAreSpooled, SpoolerUsesRegistry, SpooledJobsAreSound, PTL

=============================================================================
