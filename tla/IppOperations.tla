---------------------------- MODULE IppOperations ----------------------------
(***************************************************************************)
(* The IPP interface of the spooler (handle_ipp in server.rs): what a      *)
(* request is checked for, how it names its job, and what it is answered.  *)
(* A client sees a job as a number on the wire, a 32-bit signed integer,   *)
(* or at the end of a job-uri, and as the keywords of attributes.rs.       *)
(*                                                                         *)
(* Abstractions.  A request is one action with its answer, except Cancel-  *)
(* My-Jobs, which is answered after its last cancel.  `answer' is the      *)
(* response of the step before, if that was one.  What the queries list is *)
(* left out, my-jobs and requested-attributes with it.  The parser of the  *)
(* ipp crate is external.                                                  *)
(***************************************************************************)
EXTENDS PrintSpooler, Integers

CONSTANTS
    MediaEmpty,     \* the flag PrinterReason::MEDIA_EMPTY
    MediaJam        \* the flag PrinterReason::MEDIA_JAM

VARIABLE answer

opVars == <<spoolVars, answer>>

\* Status codes of IPP, and of HTTP where no IPP response is built.
Status == {"ok", "bad-request", "not-found", "not-possible", "version-not-supported",
           "http-400", "http-404"}

Operation == {"any", "Print-Job", "Create-Job", "Send-Document", "Cancel-Job", "Close-Job",
              "Cancel-My-Jobs", "Identify-Printer", "Query", "Get-Job-Attributes"}

NoAnswer == [op |-> "any", status |-> "ok", job |-> 0]

OpTypeOK ==
    /\ SpoolTypeOK
    /\ answer \in [op : Operation, status : Status, job : 0 .. Len(jobs)]

OpInit == SpoolInit /\ answer = NoAnswer

Respond(op, status, job) == answer' = [op |-> op, status |-> status, job |-> job]

-----------------------------------------------------------------------------
(***************************************************************************)
(* How a request names its job.                                            *)
(***************************************************************************)

\* job.id as i32
Wire(id) == IF id < IdLimit \div 2 THEN id ELSE id - IdLimit

\* A fault: a negative number is no job.
FromWireUnsigned(n) == IF n < 0 THEN 0 ELSE n

\* n as JobId
FromWire(n) == IF n < 0 THEN n + IdLimit ELSE n

NoId == -1

AtMostOne(S) == {{}} \cup {{x} : x \in S}

\* A request carries a job-id or not, and a job-uri or not, whose last segment
\* may be no number.
Target == [jobId : AtMostOne({Wire(id) : id \in JobId}), jobUri : AtMostOne(JobId \cup {NoId})]

\* extract_job_id returns what it meets first, and the attributes come out of a
\* hash map in any order.
ExtractJobId(req) ==
    LET found == {FromWire(n) : n \in req.jobId} \cup req.jobUri
    IN  IF found = {} THEN {NoId} ELSE found

\* A fault: the id is taken for a position of the registry, and nobody looks.
JobAtPosition(id) == id

\* The job of an id, 0 if there is none.
JobOf(id) == IF Find(id) = {} THEN 0 ELSE CHOOSE i \in Find(id) : TRUE

-----------------------------------------------------------------------------
(***************************************************************************)
(* The attributes of a job.                                                *)
(***************************************************************************)

Shown(why, flag, keyword) == IF flag \in why THEN {keyword} ELSE {}

\* The reasons of a failure, as a job shows them.
FailureKeywords(why) ==
    Shown(why, MediaEmpty, "job-completed-with-errors")
    \cup Shown(why, MediaJam, "aborted-by-system")
    \cup Shown(why, Offline, "connection-error")

EndKeyword(rec) ==
    CASE rec.state = "Canceled"  -> {"job-canceled-by-user"}
      [] rec.state = "Completed" -> {"job-completed-successfully"}
      [] rec.state = "Aborted" /\ FailureKeywords(rec.reasons) = {} -> {"aborted-by-system"}
      [] OTHER -> {}

\* A fault: `none' depends on the failure alone.
StateReasonsNoneFirst(rec) ==
    (IF FailureKeywords(rec.reasons) = {} THEN {"none"} ELSE FailureKeywords(rec.reasons))
    \cup EndKeyword(rec)

\* job_state_reason_keywords
StateReasons(rec) ==
    LET keywords == FailureKeywords(rec.reasons) \cup EndKeyword(rec)
    IN  IF keywords = {} THEN {"none"} ELSE keywords

\* job_attrs_for_group: a job as Get-Job-Attributes and Get-Jobs describe it.
JobAttributes(rec) ==
    [jobUri |-> rec.id, jobId |-> Wire(rec.id), jobState |-> rec.state,
     jobStateReasons |-> StateReasons(rec), hasCompletionTime |-> rec.completed]

-----------------------------------------------------------------------------
(***************************************************************************)
(* The operations.                                                         *)
(***************************************************************************)

\* The checks every request goes through, in the order of the code, then the
\* operation code.  The first that fails decides the answer.
Refusal ==
    [parse |-> "http-400", version |-> "version-not-supported",
     attributeOrder |-> "bad-request", requestId |-> "bad-request",
     target |-> "bad-request", printer |-> "http-404", operation |-> "http-400"]

Refuse ==
    /\ \E flaw \in DOMAIN Refusal : Respond("any", Refusal[flaw], 0)
    /\ UNCHANGED spoolVars

AnswerPrintJob(p) == PrintJob(p) /\ Respond("Print-Job", "ok", Len(jobs) + 1)

AnswerCreateJob(p) == CreateJob(p) /\ Respond("Create-Job", "ok", Len(jobs) + 1)

\* The lookup of Send-Document and Get-Job-Attributes.
LookupStatus(id) ==
    IF id = NoId THEN "http-400" ELSE IF Find(id) = {} THEN "http-404" ELSE "ok"

\* last-document must be there, but its value is not read.  A document without
\* data is acknowledged like one with data.
AnswerSendDocument(p) ==
    \/ Respond("Send-Document", "bad-request", 0) /\ UNCHANGED spoolVars
    \/ \E req \in Target : \E id \in ExtractJobId(req) :
          /\ Respond("Send-Document", LookupStatus(id), JobOf(id))
          /\ SendDocument(p, id) \/ UNCHANGED spoolVars

\* A fault: Cancel-Job answers for the state before.
CancelStatusBefore(id) ==
    IF id = NoId THEN "http-400" ELSE IF Find(id) = {} THEN "not-found"
    ELSE IF jobs[JobOf(id)].state \in Terminal THEN "not-possible" ELSE "ok"

CancelStatus(id) ==
    IF id = NoId THEN "http-400" ELSE IF Find(id) = {} THEN "not-found"
    ELSE IF CancelRecord(jobs[JobOf(id)]).state = "Canceled" THEN "ok" ELSE "not-possible"

AnswerCancelJob ==
    \E req \in Target : \E id \in ExtractJobId(req) :
        /\ CancelJob(id)
        /\ Respond("Cancel-Job", CancelStatus(id), JobOf(id))

\* "We finalize jobs eagerly on Send-Document, so Close-Job is an acknowledgement."
AnswerCloseJob ==
    /\ \E req \in Target : \E id \in ExtractJobId(req) :
          Respond("Close-Job", IF Find(id) = {} THEN "not-found" ELSE "ok", JobOf(id))
    /\ UNCHANGED spoolVars

AnswerGetJobAttributes ==
    /\ \E req \in Target : \E id \in ExtractJobId(req) :
          Respond("Get-Job-Attributes", LookupStatus(id), JobOf(id))
    /\ UNCHANGED spoolVars

\* Get-Printer-Attributes, Validate-Job and Get-Jobs; Identify-Printer waits for
\* the device with no lock held.
AnswerAlways ==
    /\ \E op \in {"Query", "Identify-Printer"} : Respond(op, "ok", 0)
    /\ UNCHANGED spoolVars

AnswerCancelMyJobs(p) ==
    /\ BeginCancelMyJobs(p)
    /\ IF sweep' = {} THEN Respond("Cancel-My-Jobs", "ok", 0) ELSE answer' = NoAnswer

ContinueCancelMyJobs ==
    /\ CancelNextOfMine
    /\ IF sweep' = {} THEN Respond("Cancel-My-Jobs", "ok", 0) ELSE answer' = NoAnswer

Request ==
    \/ Refuse
    \/ \E p \in Printer : \/ AnswerPrintJob(p) \/ AnswerCreateJob(p)
                          \/ AnswerSendDocument(p) \/ AnswerCancelMyJobs(p)
    \/ ContinueCancelMyJobs
    \/ AnswerCancelJob \/ AnswerCloseJob \/ AnswerGetJobAttributes \/ AnswerAlways

OpNext ==
    \/ Request
    \/ \E t \in 1 .. MaxDocuments : Worker(t) /\ answer' = NoAnswer

OpSpec == OpInit /\ [][OpNext]_opVars

\* The fairness of the spooler.
FairOpSpec == OpSpec /\ Scheduled /\ WF_spoolVars(CancelNextOfMine)

-----------------------------------------------------------------------------
(***************************************************************************)
(* What a client can rely on.                                              *)
(***************************************************************************)

\* The requests that name a job as its attributes do.
Echo(i) == {req \in Target :
              LET shown == JobAttributes(jobs[i])
              IN  /\ req.jobId \subseteq {shown.jobId} /\ req.jobUri \subseteq {shown.jobUri}
                  /\ req.jobId \cup req.jobUri # {}}

\* Whoever sends back the job-id or the job-uri of an answer, or both, reaches
\* that job and no other, also when half of the ids are negative on the wire
\* (job_attrs_for_group, extract_job_id, JobRegistry::get).
AnsweredIdFindsJob ==
    \A i \in DOMAIN jobs : \A req \in Echo(i) :
        \A id \in ExtractJobId(req) : id # NoId /\ Find(id) = {i}

\* A client that cancels a job it can cancel is told so, also the second time, and
\* one that is told that it could not finds the outcome of its print
\* (JobRegistry::cancel, the three arms of Cancel-Job).
CancelAnswerIsTrue ==
    answer.op = "Cancel-Job" /\ answer.job # 0 =>
        /\ answer.status = "ok" <=> jobs[answer.job].state = "Canceled"
        /\ answer.status # "ok" => jobs[answer.job].state \in {"Completed", "Aborted"}

\* The failure of the worker's document is on record.
HasFailed(t) ==
    /\ tasks[t].outcome = "Failed"
    /\ tasks[t].pc \notin {"fail_reasons", "fail_idle", "fail_state"}

\* A job shows reasons that fit its state, whatever its documents went through: how
\* it ended and nothing else, or none if it has not ended.  The exception are jobs
\* with a failed document among others: the others take the job on and out of
\* Aborted, and the reasons of the failure stay, since set_state does not touch them
\* (job_state_reason_keywords, set_failure, set_state).
ReasonsFitState ==
    \A i \in DOMAIN jobs :
        (\A t, u \in DOMAIN tasks :
            tasks[t].job = i /\ tasks[u].job = i /\ HasFailed(t) => t = u) =>
            LET keywords == JobAttributes(jobs[i]).jobStateReasons
            IN  CASE jobs[i].state = "Canceled"  -> keywords = {"job-canceled-by-user"}
                  [] jobs[i].state = "Completed" -> keywords = {"job-completed-successfully"}
                  [] jobs[i].state = "Aborted"   -> keywords = FailureKeywords(jobs[i].reasons)
                        \/ keywords = {"aborted-by-system"}
                  [] OTHER -> keywords = {"none"}

\* The comment at Close-Job, as it stands: jobs are finalized on Send-Document, and
\* a close acknowledges it; so if devices come back a closed job ends (server.rs).
ClosedJobIsFinalized ==
    DeviceRecovers =>
        \A i \in 1 .. MaxJobs :
            (answer = [op |-> "Close-Job", status |-> "ok", job |-> i])
                ~> (i \in DOMAIN jobs /\ jobs[i].state \in Terminal)

=============================================================================
