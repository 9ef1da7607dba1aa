------------------------ MODULE PrintSpooler_proofs -------------------------
(***************************************************************************)
(* Proofs about the spooler, for any printers, reasons, jobs and documents.*)
(*                                                                         *)
(* The argument: the ids identify the jobs as long as the counter does not *)
(* wrap (JobIds), so the job a worker names by its id is the one whose     *)
(* cancel flag it holds; every record of a worker points to a job          *)
(* (TaskJobs); and cancel flags are never cleared.                         *)
(***************************************************************************)
EXTENDS PrintSpooler, JobRegistry_proofs

-----------------------------------------------------------------------------
(***************************************************************************)
(* The inductive invariant.                                                *)
(***************************************************************************)

\* The id of a job is its position, and the next one is free.
JobIds ==
    /\ \A i \in DOMAIN jobs : jobs[i].id = i
    /\ Len(jobs) <= MaxJobs
    /\ Len(jobs) < IdLimit - 1 => nextId = Len(jobs) + 1

\* Every worker was spawned for a job of the registry.
TaskJobs == \A t \in DOMAIN tasks : tasks[t].job \in DOMAIN jobs

SpoolBase == SpoolTypeOK /\ JobIds /\ TaskJobs

-----------------------------------------------------------------------------
(***************************************************************************)
(* What the methods of the registry do to its vector.                      *)
(***************************************************************************)

\* Writing one record of a sequence of records (job.rs, every iter_mut().find):
\* the other records and the length stay.
LEMMA SeqWrite ==
    ASSUME NEW S, NEW seq \in Seq(S), NEW i \in DOMAIN seq, NEW e \in S,
           NEW new, new = [seq EXCEPT ![i] = e]
    PROVE  /\ new \in Seq(S)
           /\ Len(new) = Len(seq)
           /\ DOMAIN new = DOMAIN seq
           /\ new[i] = e
           /\ \A j \in DOMAIN seq : j # i => new[j] = seq[j]
<1>1. DOMAIN seq = 1 .. Len(seq) /\ Len(seq) \in Nat
  BY LenProperties
<1>2. new \in Seq(S) /\ Len(new) = Len(seq)
  BY <1>1, ExceptSeq
<1>3. DOMAIN new = 1 .. Len(new)
  BY <1>2, LenProperties
<1> QED
  BY <1>1, <1>2, <1>3

\* Pushing a record on a sequence of records: those before it stay.
LEMMA SeqPush ==
    ASSUME NEW S, NEW seq \in Seq(S), NEW e \in S, NEW new, new = Append(seq, e)
    PROVE  /\ new \in Seq(S)
           /\ Len(seq) \in Nat
           /\ Len(new) = Len(seq) + 1
           /\ DOMAIN seq = 1 .. Len(seq)
           /\ DOMAIN new = DOMAIN seq \cup {Len(seq) + 1}
           /\ Len(seq) + 1 \notin DOMAIN seq
           /\ new[Len(seq) + 1] = e
           /\ \A j \in DOMAIN seq : new[j] = seq[j]
<1>1. DOMAIN seq = 1 .. Len(seq) /\ Len(seq) \in Nat
  BY LenProperties
<1>2. new \in Seq(S) /\ Len(new) = Len(seq) + 1
  BY AppendProperties
<1>3. DOMAIN new = 1 .. (Len(seq) + 1)
  BY <1>2, LenProperties
<1>4. DOMAIN new = DOMAIN seq \cup {Len(seq) + 1} /\ Len(seq) + 1 \notin DOMAIN seq
  BY <1>1, <1>3
<1>5. new[Len(seq) + 1] = e /\ \A j \in DOMAIN seq : new[j] = seq[j]
  BY <1>1, AppendProperties
<1> QED
  BY <1>1, <1>2, <1>4, <1>5

\* A lookup by the id of a job returns that job.
LEMMA FindJob ==
    ASSUME SpoolTypeOK, JobIds, NEW i \in DOMAIN jobs
    PROVE  /\ jobs[i].id = i
           /\ Find(i) = {i}
  BY LenProperties DEF SpoolTypeOK, JobTypeOK, JobIds, Find

\* The records the methods write are records.
LEMMA WrittenRecords ==
    ASSUME NEW rec \in JobRecord
    PROVE  /\ \A s \in JobState : StateRecord(rec, s) \in JobRecord
           /\ \A why \in SUBSET Reason : FailureRecord(rec, why) \in JobRecord
           /\ CancelRecord(rec) \in JobRecord
  BY DEF StateRecord, FailureRecord, CancelRecord, JobRecord, JobState, Terminal

\* set_state on a job of the registry.
LEMMA SetStateEffect ==
    ASSUME SpoolTypeOK, JobIds, NEW i \in DOMAIN jobs, NEW s \in JobState,
           SetState(jobs[i].id, s)
    PROVE  /\ jobs' \in Seq(JobRecord)
           /\ Len(jobs') = Len(jobs)
           /\ DOMAIN jobs' = DOMAIN jobs
           /\ jobs'[i] = StateRecord(jobs[i], s)
           /\ \A j \in DOMAIN jobs : j # i => jobs'[j] = jobs[j]
           /\ nextId' = nextId
<1>1. jobs \in Seq(JobRecord) /\ jobs[i] \in JobRecord
  BY ElementOfSeq, LenProperties DEF SpoolTypeOK, JobTypeOK
<1>2. jobs' = [jobs EXCEPT ![i] = StateRecord(jobs[i], s)] /\ nextId' = nextId
  BY FindJob DEF SetState, UnknownId
<1>3. StateRecord(jobs[i], s) \in JobRecord
  BY <1>1, WrittenRecords
<1> QED
  BY <1>1, <1>2, <1>3, SeqWrite

\* set_failure on a job of the registry.
LEMMA SetFailureEffect ==
    ASSUME SpoolTypeOK, JobIds, NEW i \in DOMAIN jobs, NEW why \in SUBSET Reason,
           SetFailure(jobs[i].id, why)
    PROVE  /\ jobs' \in Seq(JobRecord)
           /\ Len(jobs') = Len(jobs)
           /\ DOMAIN jobs' = DOMAIN jobs
           /\ jobs'[i] = FailureRecord(jobs[i], why)
           /\ \A j \in DOMAIN jobs : j # i => jobs'[j] = jobs[j]
           /\ nextId' = nextId
<1>1. jobs \in Seq(JobRecord) /\ jobs[i] \in JobRecord
  BY ElementOfSeq, LenProperties DEF SpoolTypeOK, JobTypeOK
<1>2. jobs' = [jobs EXCEPT ![i] = FailureRecord(jobs[i], why)] /\ nextId' = nextId
  BY FindJob DEF SetFailure, UnknownId
<1>3. FailureRecord(jobs[i], why) \in JobRecord
  BY <1>1, WrittenRecords
<1> QED
  BY <1>1, <1>2, <1>3, SeqWrite

\* cancel on a job of the registry.
LEMMA CancelJobEffect ==
    ASSUME SpoolTypeOK, JobIds, NEW i \in DOMAIN jobs, Cancel(jobs[i].id)
    PROVE  /\ jobs' \in Seq(JobRecord)
           /\ Len(jobs') = Len(jobs)
           /\ DOMAIN jobs' = DOMAIN jobs
           /\ jobs'[i] = CancelRecord(jobs[i])
           /\ \A j \in DOMAIN jobs : j # i => jobs'[j] = jobs[j]
           /\ nextId' = nextId
<1>1. jobs \in Seq(JobRecord) /\ jobs[i] \in JobRecord
  BY ElementOfSeq, LenProperties DEF SpoolTypeOK, JobTypeOK
<1>2. jobs' = [jobs EXCEPT ![i] = CancelRecord(jobs[i])] /\ nextId' = nextId
  BY FindJob DEF Cancel, UnknownId
<1>3. CancelRecord(jobs[i]) \in JobRecord
  BY <1>1, WrittenRecords
<1> QED
  BY <1>1, <1>2, <1>3, SeqWrite

\* cancel with any id, known or not.
LEMMA CancelEffect ==
    ASSUME SpoolTypeOK, JobIds, NEW id, Cancel(id)
    PROVE  \/ jobs' = jobs /\ nextId' = nextId
           \/ \E i \in DOMAIN jobs :
                 /\ jobs' \in Seq(JobRecord)
                 /\ Len(jobs') = Len(jobs)
                 /\ DOMAIN jobs' = DOMAIN jobs
                 /\ jobs'[i] = CancelRecord(jobs[i])
                 /\ \A j \in DOMAIN jobs : j # i => jobs'[j] = jobs[j]
                 /\ nextId' = nextId
<1>1. CASE UnknownId(id)
  BY <1>1 DEF UnknownId, jobVars
<1>2. CASE ~UnknownId(id)
  <2>1. PICK i \in DOMAIN jobs : jobs[i].id = id
    BY <1>2 DEF Cancel, Find
  <2> QED
    BY <2>1, CancelJobEffect
<1> QED
  BY <1>1, <1>2

\* create: one more record, Pending and not canceled, under the next id.
LEMMA CreateEffect ==
    ASSUME SpoolTypeOK, JobIds, NEW p \in Printer, Create(p)
    PROVE  /\ jobs' \in Seq(JobRecord)
           /\ Len(jobs') = Len(jobs) + 1
           /\ DOMAIN jobs' = DOMAIN jobs \cup {Len(jobs) + 1}
           /\ Len(jobs) + 1 \notin DOMAIN jobs
           /\ jobs'[Len(jobs) + 1] =
                 [id |-> Len(jobs) + 1, printer |-> p, state |-> "Pending",
                  reasons |-> {}, completed |-> FALSE, canceled |-> FALSE]
           /\ \A j \in DOMAIN jobs : jobs'[j] = jobs[j]
           /\ Len(jobs') <= MaxJobs
           /\ nextId' \in JobId
           /\ Len(jobs') < IdLimit - 1 => nextId' = Len(jobs') + 1
<1> DEFINE n == Len(jobs)
           rec == [id |-> nextId, printer |-> p, state |-> "Pending",
                   reasons |-> {}, completed |-> FALSE, canceled |-> FALSE]
<1>1. jobs \in Seq(JobRecord) /\ nextId \in JobId /\ n \in Nat
  BY LenProperties DEF SpoolTypeOK, JobTypeOK
<1>2. n < MaxJobs /\ jobs' = Append(jobs, rec) /\ nextId' = NextId(nextId)
  BY DEF Create
<1>3. nextId = n + 1
  BY <1>1, <1>2, NoWrapAssumption, MaxJobsAssumption, IdLimitAssumption DEF JobIds
<1>4. rec \in JobRecord
  BY <1>1 DEF JobRecord, JobState
<1>5. /\ jobs' \in Seq(JobRecord)
      /\ Len(jobs') = n + 1
      /\ DOMAIN jobs' = DOMAIN jobs \cup {n + 1}
      /\ n + 1 \notin DOMAIN jobs
      /\ jobs'[n + 1] = rec
      /\ \A j \in DOMAIN jobs : jobs'[j] = jobs[j]
  <2> HIDE DEF rec
  <2> QED
    BY <1>1, <1>2, <1>4, SeqPush
<1>6. nextId' \in JobId /\ (n + 1 < IdLimit - 1 => nextId' = n + 2)
  BY <1>1, <1>2, <1>3, NoWrapAssumption, MaxJobsAssumption, IdLimitAssumption
     DEF JobId, NextId, WrappingAdd
<1> QED
  BY <1>1, <1>2, <1>3, <1>5, <1>6, MaxJobsAssumption

-----------------------------------------------------------------------------
(***************************************************************************)
(* What a step does to the vector of workers.                              *)
(***************************************************************************)

\* A step of a worker moves its program counter and nothing else of any worker.
LEMMA GotoEffect ==
    ASSUME SpoolTypeOK, NEW t, NEW from, NEW to \in Label, Goto(t, from, to)
    PROVE  /\ t \in DOMAIN tasks
           /\ tasks[t] \in Task
           /\ tasks[t].pc = from
           /\ tasks' \in Seq(Task)
           /\ Len(tasks') = Len(tasks)
           /\ DOMAIN tasks' = DOMAIN tasks
           /\ tasks'[t].pc = to
           /\ tasks'[t].job = tasks[t].job
           /\ tasks'[t].printer = tasks[t].printer
           /\ tasks'[t].outcome = tasks[t].outcome
           /\ tasks'[t].why = tasks[t].why
           /\ \A u \in DOMAIN tasks : u # t => tasks'[u] = tasks[u]
<1> DEFINE new == [tasks[t] EXCEPT !.pc = to]
<1>1. t \in DOMAIN tasks /\ tasks[t].pc = from
  BY DEF Goto, At
<1>2. tasks \in Seq(Task) /\ tasks[t] \in Task
  BY <1>1, ElementOfSeq, LenProperties DEF SpoolTypeOK
<1>3. tasks' = [tasks EXCEPT ![t] = new]
  BY DEF Goto
<1>4. /\ new \in Task
      /\ new.pc = to /\ new.job = tasks[t].job /\ new.printer = tasks[t].printer
      /\ new.outcome = tasks[t].outcome /\ new.why = tasks[t].why
  BY <1>2 DEF Task
<1> HIDE DEF new
<1>5. /\ tasks' \in Seq(Task)
      /\ Len(tasks') = Len(tasks)
      /\ DOMAIN tasks' = DOMAIN tasks
      /\ tasks'[t] = new
      /\ \A u \in DOMAIN tasks : u # t => tasks'[u] = tasks[u]
  BY <1>1, <1>2, <1>3, <1>4, SeqWrite
<1> QED
  BY <1>1, <1>2, <1>4, <1>5

\* The return of the callback stores its outcome and selects the arm.
LEMMA AttemptEffect ==
    ASSUME SpoolTypeOK, NEW t, NEW outcome \in Outcome \ {"None"},
           NEW why \in SUBSET Reason, Attempt(t, outcome, why)
    PROVE  /\ t \in DOMAIN tasks
           /\ tasks[t] \in Task
           /\ tasks[t].pc = "attempt"
           /\ tasks' \in Seq(Task)
           /\ Len(tasks') = Len(tasks)
           /\ DOMAIN tasks' = DOMAIN tasks
           /\ tasks'[t].pc \in {"done_reasons", "fail_reasons", "hold_reasons"}
           /\ tasks'[t].pc = "done_reasons" <=> outcome = "Completed"
           /\ tasks'[t].pc = "fail_reasons" <=> outcome = "Failed"
           /\ tasks'[t].outcome = outcome
           /\ tasks'[t].why = why
           /\ tasks'[t].job = tasks[t].job
           /\ tasks'[t].printer = tasks[t].printer
           /\ \A u \in DOMAIN tasks : u # t => tasks'[u] = tasks[u]
<1> DEFINE arm == CASE outcome = "Completed"   -> "done_reasons"
                    [] outcome = "Failed"      -> "fail_reasons"
                    [] outcome = "Unavailable" -> "hold_reasons"
           new == [tasks[t] EXCEPT !.outcome = outcome, !.why = why, !.pc = arm]
<1>1. t \in DOMAIN tasks /\ tasks[t].pc = "attempt"
  BY DEF Attempt, At
<1>2. tasks \in Seq(Task) /\ tasks[t] \in Task
  BY <1>1, ElementOfSeq, LenProperties DEF SpoolTypeOK
<1>3. /\ arm \in Label
      /\ arm \in {"done_reasons", "fail_reasons", "hold_reasons"}
      /\ arm = "done_reasons" <=> outcome = "Completed"
      /\ arm = "fail_reasons" <=> outcome = "Failed"
  BY DEF Outcome, Label
<1>4. tasks' = [tasks EXCEPT ![t] = new]
  BY DEF Attempt
<1>5. /\ new \in Task
      /\ new.pc = arm /\ new.outcome = outcome /\ new.why = why
      /\ new.job = tasks[t].job /\ new.printer = tasks[t].printer
  <2> HIDE DEF arm
  <2> QED
    BY <1>2, <1>3 DEF Task
<1>6. /\ tasks' \in Seq(Task)
      /\ Len(tasks') = Len(tasks)
      /\ DOMAIN tasks' = DOMAIN tasks
      /\ tasks'[t] = new
      /\ \A u \in DOMAIN tasks : u # t => tasks'[u] = tasks[u]
  <2> HIDE DEF new
  <2> QED
    BY <1>1, <1>2, <1>4, <1>5, SeqWrite
<1> HIDE DEF arm, new
<1> QED
  BY <1>1, <1>2, <1>3, <1>5, <1>6

\* A new worker stands at its start.
LEMMA SpawnEffect ==
    ASSUME SpoolTypeOK, NEW i \in Nat, NEW p \in Printer, Spawn(i, p)
    PROVE  /\ tasks' \in Seq(Task)
           /\ DOMAIN tasks' = DOMAIN tasks \cup {Len(tasks) + 1}
           /\ Len(tasks) + 1 \notin DOMAIN tasks
           /\ tasks'[Len(tasks) + 1] = [pc |-> "start", job |-> i, printer |-> p,
                                        outcome |-> "None", why |-> {}]
           /\ \A u \in DOMAIN tasks : tasks'[u] = tasks[u]
<1> DEFINE new == [pc |-> "start", job |-> i, printer |-> p,
                   outcome |-> "None", why |-> {}]
<1>1. tasks \in Seq(Task) /\ tasks' = Append(tasks, new)
  BY DEF SpoolTypeOK, Spawn
<1>2. new \in Task
  BY DEF Task, Label, Outcome
<1> HIDE DEF new
<1>3. /\ tasks' \in Seq(Task)
      /\ DOMAIN tasks' = DOMAIN tasks \cup {Len(tasks) + 1}
      /\ Len(tasks) + 1 \notin DOMAIN tasks
      /\ tasks'[Len(tasks) + 1] = new
      /\ \A u \in DOMAIN tasks : tasks'[u] = tasks[u]
  BY <1>1, <1>2, SeqPush
<1> QED
  BY <1>3 DEF new

-----------------------------------------------------------------------------
(***************************************************************************)
(* Type correctness, and the ids.                                          *)
(***************************************************************************)

\* The registry after a step: ids stay in place, no job disappears and no
\* cancel flag is cleared.
JobsKept ==
    /\ jobs' \in Seq(JobRecord)
    /\ nextId' \in JobId
    /\ JobIds'
    /\ DOMAIN jobs \subseteq DOMAIN jobs'
    /\ \A i \in DOMAIN jobs : jobs[i].canceled => jobs'[i].canceled

\* The workers after a step: each keeps its job and its printer.
TasksKept ==
    /\ tasks' \in Seq(Task)
    /\ DOMAIN tasks \subseteq DOMAIN tasks'
    /\ \A u \in DOMAIN tasks : /\ tasks'[u].job = tasks[u].job
                               /\ tasks'[u].printer = tasks[u].printer
    /\ TaskJobs'

\* A step of a worker is a move of its program counter to another label, or the
\* return of its callback.
LEMMA WorkerMoves ==
    ASSUME NEW t, Worker(t)
    PROVE  \/ \E from, to \in Label : Goto(t, from, to)
           \/ \E outcome \in Outcome \ {"None"}, why \in SUBSET Reason :
                 Attempt(t, outcome, why)
  BY DEF Worker, BecomeProcessing, MarkProcessing, CheckCanceled, PublishReasons,
         ReturnToIdle, CheckCompletion, Complete, Fail, Hold, Wake,
         CheckFinalCancel, ClearReasons, FinalCancel, Persist, Label

\* What a method call on the registry keeps.
LEMMA UnchangedKeepsJobs ==
    ASSUME SpoolBase, jobs' = jobs, nextId' = nextId
    PROVE  JobsKept
  BY DEF SpoolBase, SpoolTypeOK, JobTypeOK, JobIds, JobsKept

LEMMA WriteKeepsJobs ==
    ASSUME SpoolBase, NEW i \in DOMAIN jobs, NEW rec,
           rec.id = jobs[i].id, jobs[i].canceled => rec.canceled,
           jobs' \in Seq(JobRecord), Len(jobs') = Len(jobs),
           DOMAIN jobs' = DOMAIN jobs, jobs'[i] = rec,
           \A j \in DOMAIN jobs : j # i => jobs'[j] = jobs[j],
           nextId' = nextId
    PROVE  JobsKept
  BY DEF SpoolBase, SpoolTypeOK, JobTypeOK, JobIds, JobsKept

\* The records the methods write keep their id, and their cancel flag once set.
LEMMA WrittenRecordsKeep ==
    ASSUME NEW rec \in JobRecord
    PROVE  /\ \A s : /\ StateRecord(rec, s).id = rec.id
                     /\ StateRecord(rec, s).canceled = rec.canceled
           /\ \A why : /\ FailureRecord(rec, why).id = rec.id
                       /\ FailureRecord(rec, why).canceled = rec.canceled
           /\ CancelRecord(rec).id = rec.id
           /\ rec.canceled => CancelRecord(rec).canceled
  BY DEF StateRecord, FailureRecord, CancelRecord, JobRecord

LEMMA SetStateKeepsJobs ==
    ASSUME SpoolBase, NEW i \in DOMAIN jobs, NEW s \in JobState, SetState(jobs[i].id, s)
    PROVE  JobsKept
<1>1. jobs[i] \in JobRecord
  BY ElementOfSeq, LenProperties DEF SpoolBase, SpoolTypeOK, JobTypeOK
<1> QED
  BY <1>1, SetStateEffect, WrittenRecordsKeep, WriteKeepsJobs DEF SpoolBase

LEMMA SetFailureKeepsJobs ==
    ASSUME SpoolBase, NEW i \in DOMAIN jobs, NEW why \in SUBSET Reason,
           SetFailure(jobs[i].id, why)
    PROVE  JobsKept
<1>1. jobs[i] \in JobRecord
  BY ElementOfSeq, LenProperties DEF SpoolBase, SpoolTypeOK, JobTypeOK
<1> QED
  <2> DEFINE rec == FailureRecord(jobs[i], why)
  <2>1. rec.id = jobs[i].id /\ rec.canceled = jobs[i].canceled
    BY <1>1, WrittenRecordsKeep
  <2>2. /\ jobs' \in Seq(JobRecord)
        /\ Len(jobs') = Len(jobs)
        /\ DOMAIN jobs' = DOMAIN jobs
        /\ jobs'[i] = rec
        /\ \A j \in DOMAIN jobs : j # i => jobs'[j] = jobs[j]
        /\ nextId' = nextId
    BY SetFailureEffect DEF SpoolBase
  <2> HIDE DEF rec
  <2> QED
    BY <2>1, <2>2, WriteKeepsJobs

LEMMA CancelKeepsJobs ==
    ASSUME SpoolBase, NEW id, Cancel(id)
    PROVE  JobsKept
<1>1. \A i \in DOMAIN jobs : jobs[i] \in JobRecord
  BY ElementOfSeq, LenProperties DEF SpoolBase, SpoolTypeOK, JobTypeOK
<1> QED
  BY <1>1, CancelEffect, WrittenRecordsKeep, WriteKeepsJobs, UnchangedKeepsJobs
     DEF SpoolBase

LEMMA CreateKeepsJobs ==
    ASSUME SpoolBase, NEW p \in Printer, Create(p)
    PROVE  JobsKept
<1>1. SpoolTypeOK /\ JobIds
  BY DEF SpoolBase
<1> DEFINE n == Len(jobs)
<1>2. /\ jobs' \in Seq(JobRecord)
      /\ Len(jobs') = n + 1
      /\ DOMAIN jobs' = DOMAIN jobs \cup {n + 1}
      /\ jobs'[n + 1] = [id |-> n + 1, printer |-> p, state |-> "Pending",
                         reasons |-> {}, completed |-> FALSE, canceled |-> FALSE]
      /\ \A j \in DOMAIN jobs : jobs'[j] = jobs[j]
      /\ Len(jobs') <= MaxJobs
      /\ nextId' \in JobId
      /\ Len(jobs') < IdLimit - 1 => nextId' = Len(jobs') + 1
  BY <1>1, CreateEffect
<1>3. jobs'[n + 1].id = n + 1
  BY <1>2
<1>4. JobIds'
  BY <1>1, <1>2, <1>3 DEF JobIds
<1> QED
  BY <1>2, <1>4 DEF JobsKept

\* The job of a worker is in the registry.
LEMMA JobOfTask ==
    ASSUME SpoolBase, NEW t \in DOMAIN tasks
    PROVE  /\ tasks[t] \in Task
           /\ tasks[t].job \in DOMAIN jobs
           /\ IdOf(t) = jobs[tasks[t].job].id
  BY ElementOfSeq, LenProperties DEF SpoolBase, SpoolTypeOK, TaskJobs, IdOf

\* Every step keeps the registry well formed.
LEMMA StepKeepsJobs ==
    ASSUME SpoolBase, SpoolNext
    PROVE  JobsKept
<1>1. CASE jobs' = jobs /\ nextId' = nextId
  BY <1>1, UnchangedKeepsJobs
<1>2. ASSUME NEW p \in Printer, Create(p)
      PROVE  JobsKept
  BY <1>2, CreateKeepsJobs
<1>3. ASSUME NEW id, Cancel(id)
      PROVE  JobsKept
  BY <1>3, CancelKeepsJobs
<1>4. CASE Handler
  BY <1>1, <1>2, <1>3, <1>4
     DEF Handler, PrintJob, CreateJob, SendDocument, CancelJob,
         BeginCancelMyJobs, CancelNextOfMine
<1>5. ASSUME NEW t \in DOMAIN tasks, NEW s \in JobState, SetState(IdOf(t), s)
      PROVE  JobsKept
  BY <1>5, JobOfTask, SetStateKeepsJobs
<1>6. ASSUME NEW t \in DOMAIN tasks, SetFailure(IdOf(t), tasks[t].why)
      PROVE  JobsKept
  <2>1. tasks[t].why \in SUBSET Reason
    BY JobOfTask DEF Task
  <2> QED
    BY <1>6, <2>1, JobOfTask, SetFailureKeepsJobs
<1>7. ASSUME NEW t, Worker(t)
      PROVE  JobsKept
  <2>1. CASE MarkProcessing(t) \/ Complete(t) \/ Hold(t)
    BY <2>1, <1>5 DEF MarkProcessing, Complete, Hold, Goto, At, JobState
  <2>2. CASE Fail(t)
    BY <2>2, <1>6 DEF Fail, Goto, At
  <2>3. CASE FinalCancel(t)
    BY <2>3, <1>3 DEF FinalCancel
  <2> QED
    BY <1>1, <1>7, <2>1, <2>2, <2>3
       DEF Worker, BecomeProcessing, CheckCanceled, Attempt, PublishReasons,
           ReturnToIdle, CheckCompletion, Wake, CheckFinalCancel, ClearReasons, Persist
<1> QED
  BY <1>4, <1>7 DEF SpoolNext

\* Every step keeps the workers well formed.
LEMMA StepKeepsTasks ==
    ASSUME SpoolBase, SpoolNext, JobsKept
    PROVE  TasksKept
<1> USE DEF SpoolBase
<1>1. CASE tasks' = tasks
  BY <1>1 DEF SpoolTypeOK, TaskJobs, JobsKept, TasksKept
<1>2. ASSUME NEW i \in DOMAIN jobs', NEW p \in Printer, Spawn(i, p)
      PROVE  TasksKept
  <2>1. i \in Nat
    BY LenProperties DEF JobsKept
  <2>2. /\ tasks' \in Seq(Task)
        /\ DOMAIN tasks' = DOMAIN tasks \cup {Len(tasks) + 1}
        /\ tasks'[Len(tasks) + 1] = [pc |-> "start", job |-> i, printer |-> p,
                                     outcome |-> "None", why |-> {}]
        /\ \A u \in DOMAIN tasks : tasks'[u] = tasks[u]
    BY <1>2, <2>1, SpawnEffect
  <2>3. tasks'[Len(tasks) + 1].job = i
    BY <2>2
  <2>4. TaskJobs'
    BY <2>2, <2>3 DEF TaskJobs, JobsKept
  <2> QED
    BY <2>2, <2>4 DEF TasksKept
<1>3. CASE Handler
  <2>1. ASSUME NEW p \in Printer, PrintJob(p)
        PROVE  TasksKept
    BY <2>1, <1>2, CreateEffect DEF PrintJob
  <2>2. ASSUME NEW p \in Printer, NEW id, SendDocument(p, id)
        PROVE  TasksKept
    BY <2>2, <1>2 DEF SendDocument, Find
  <2> QED
    BY <1>1, <1>3, <2>1, <2>2
       DEF Handler, CreateJob, CancelJob, BeginCancelMyJobs, CancelNextOfMine
<1>4. ASSUME NEW t, Worker(t)
      PROVE  TasksKept
  <2>1. ASSUME NEW from \in Label, NEW to \in Label, Goto(t, from, to)
        PROVE  TasksKept
    BY <2>1, GotoEffect DEF TaskJobs, JobsKept, TasksKept
  <2>2. ASSUME NEW outcome \in Outcome \ {"None"}, NEW why \in SUBSET Reason,
               Attempt(t, outcome, why)
        PROVE  TasksKept
    BY <2>2, AttemptEffect DEF TaskJobs, JobsKept, TasksKept
  <2> QED
    BY <1>4, <2>1, <2>2, WorkerMoves
<1> QED
  BY <1>3, <1>4 DEF SpoolNext

\* Every step keeps the printers and the request under way well formed.
LEMMA StepKeepsRest ==
    ASSUME SpoolBase, SpoolNext
    PROVE  PrinterTypeOK' /\ sweep' \in SUBSET JobId
<1> USE DEF SpoolBase, SpoolTypeOK
<1>1. ASSUME NEW p \in Printer
      PROVE  JobsForPrinter(p) \in SUBSET JobId
  <2>1. \A i \in DOMAIN jobs : jobs[i] \in JobRecord
    BY ElementOfSeq, LenProperties DEF JobTypeOK
  <2>2. \A i \in DOMAIN jobs : jobs[i].id \in JobId
    BY <2>1 DEF JobRecord
  <2> QED
    BY <2>2 DEF JobsForPrinter
<1>2. CASE Handler
  BY <1>1, <1>2
     DEF Handler, PrintJob, CreateJob, SendDocument, CancelJob, BeginCancelMyJobs,
         CancelNextOfMine, PrinterTypeOK
<1>3. ASSUME NEW t, Worker(t)
      PROVE  PrinterTypeOK' /\ sweep' \in SUBSET JobId
  <2>1. t \in DOMAIN tasks
    BY <1>3, WorkerMoves DEF Goto, At, Attempt
  <2>2. tasks[t].why \in SUBSET Reason
    BY <2>1, JobOfTask DEF Task
  <2>3. CASE UNCHANGED printers
    BY <1>3, <2>3
       DEF Worker, BecomeProcessing, MarkProcessing, CheckCanceled, Attempt,
           PublishReasons, ReturnToIdle, CheckCompletion, Complete, Fail, Hold, Wake,
           CheckFinalCancel, ClearReasons, FinalCancel, Persist, PrinterTypeOK
  <2>4. CASE BecomeProcessing(t) \/ PublishReasons(t) \/ ReturnToIdle(t) \/ ClearReasons(t)
    BY <2>2, <2>4
       DEF BecomeProcessing, PublishReasons, ReturnToIdle, ClearReasons,
           SetPrinterProcessing, SetPrinterReasons, SetPrinterIdle, PrinterTypeOK,
           PrinterRecord, IppPrinterState
  <2> QED
    BY <1>3, <2>3, <2>4
       DEF Worker, MarkProcessing, CheckCanceled, Attempt, CheckCompletion, Complete,
           Fail, Hold, Wake, CheckFinalCancel, FinalCancel, Persist
<1> QED
  BY <1>2, <1>3 DEF SpoolNext

LEMMA BaseInit == SpoolInit => SpoolBase
<1> SUFFICES ASSUME SpoolInit
             PROVE  SpoolBase
  OBVIOUS
<1>1. <<>> \in Seq(JobRecord) /\ <<>> \in Seq(Task)
  OBVIOUS
<1>2. 1 \in JobId
  BY IdLimitAssumption DEF JobId
<1>3. SpoolTypeOK
  BY <1>1, <1>2 DEF SpoolInit, SpoolTypeOK, JobInit, JobTypeOK, PrinterInit, PrinterTypeOK,
         PrinterRecord, IppPrinterState
<1>4. JobIds /\ TaskJobs
  BY MaxJobsAssumption DEF SpoolInit, JobInit, JobIds, TaskJobs
<1> QED
  BY <1>3, <1>4 DEF SpoolBase

LEMMA BaseStep == SpoolBase /\ [SpoolNext]_spoolVars => SpoolBase'
<1> SUFFICES ASSUME SpoolBase, [SpoolNext]_spoolVars
             PROVE  SpoolBase'
  OBVIOUS
<1>1. CASE SpoolNext
  BY <1>1, StepKeepsJobs, StepKeepsTasks, StepKeepsRest
     DEF JobsKept, TasksKept, SpoolBase, SpoolTypeOK, JobTypeOK
<1>2. CASE UNCHANGED spoolVars
  BY <1>2 DEF spoolVars, SpoolBase, SpoolTypeOK, JobTypeOK, PrinterTypeOK, JobIds, TaskJobs
<1> QED
  BY <1>1, <1>2

\* The base of the inductive invariants is an invariant of the spooler.
THEOREM SpoolBaseInvariant == SpoolSpec => []SpoolBase
  BY BaseInit, BaseStep, PTL DEF SpoolSpec

\* The variables of the spooler keep their types: the records of jobs, printers
\* and workers, for any number of them (job.rs, printer.rs, spawn_print_worker).
THEOREM SpoolTypeCorrect == SpoolSpec => []SpoolTypeOK
<1>1. SpoolBase => SpoolTypeOK
  BY DEF SpoolBase
<1> QED
  BY <1>1, SpoolBaseInvariant, PTL

-----------------------------------------------------------------------------
(***************************************************************************)
(* No printer and no job is left behind.                                   *)
(***************************************************************************)

\* A worker that is not the one to step stays where it is.
LEMMA OnlyItsOwnSteps ==
    ASSUME SpoolBase, SpoolNext, NEW t \in DOMAIN tasks
    PROVE  tasks'[t] = tasks[t] \/ Worker(t)
<1> USE DEF SpoolBase
<1>1. CASE tasks' = tasks
  BY <1>1
<1>2. ASSUME NEW i, NEW p \in Printer, Spawn(i, p)
      PROVE  tasks'[t] = tasks[t]
  <2>1. tasks \in Seq(Task) /\ t \in 1 .. Len(tasks)
    BY LenProperties DEF SpoolTypeOK
  <2> QED
    BY <1>2, <2>1 DEF Spawn
<1>3. CASE Handler
  BY <1>1, <1>2, <1>3
     DEF Handler, PrintJob, CreateJob, SendDocument, CancelJob, BeginCancelMyJobs,
         CancelNextOfMine
<1>4. ASSUME NEW u, Worker(u), u # t
      PROVE  tasks'[t] = tasks[t]
  <2>1. ASSUME NEW from \in Label, NEW to \in Label, Goto(u, from, to)
        PROVE  tasks'[t] = tasks[t]
    <3>1. SpoolTypeOK
      OBVIOUS
    <3>2. \A v \in DOMAIN tasks : v # u => tasks'[v] = tasks[v]
      BY <2>1, <3>1, GotoEffect
    <3> QED
      BY <1>4, <3>2
  <2>2. ASSUME NEW outcome \in Outcome \ {"None"}, NEW why \in SUBSET Reason,
               Attempt(u, outcome, why)
        PROVE  tasks'[t] = tasks[t]
    BY <1>4, <2>2, AttemptEffect
  <2> QED
    BY <1>4, <2>1, <2>2, WorkerMoves
<1> QED
  BY <1>3, <1>4 DEF SpoolNext

\* A cancel that a worker has been told of is not taken back.
LEMMA StaysCanceled ==
    ASSUME SpoolBase, JobsKept, TasksKept, NEW t \in DOMAIN tasks, IsCanceled(t)
    PROVE  IsCanceled(t)'
  BY DEF SpoolBase, TaskJobs, JobsKept, TasksKept, IsCanceled

\* Where the program counter of a worker can go in one step.
LEMMA NextLabel ==
    ASSUME SpoolBase, NEW t, Worker(t)
    PROVE  /\ t \in DOMAIN tasks
           /\ \/ BecomeProcessing(t) /\ tasks[t].pc = "start" /\ tasks'[t].pc = "mark"
              \/ MarkProcessing(t) /\ tasks[t].pc = "mark" /\ tasks'[t].pc = "check"
              \/ /\ CheckCanceled(t)
                 /\ tasks[t].pc = "check"
                 /\ \/ tasks'[t].pc = "attempt"
                    \/ tasks'[t].pc = "final" /\ IsCanceled(t)
              \/ /\ tasks[t].pc = "attempt"
                 /\ tasks'[t].pc \in {"done_reasons", "fail_reasons", "hold_reasons"}
                 /\ UNCHANGED <<jobs, nextId, printers, sweep>>
              \/ /\ PublishReasons(t)
                 /\ \/ tasks[t].pc = "done_reasons" /\ tasks'[t].pc = "done_idle"
                    \/ tasks[t].pc = "fail_reasons" /\ tasks'[t].pc = "fail_idle"
                    \/ tasks[t].pc = "hold_reasons" /\ tasks'[t].pc = "hold_state"
              \/ /\ ReturnToIdle(t)
                 /\ \/ tasks[t].pc = "done_idle" /\ tasks'[t].pc = "done_check"
                    \/ tasks[t].pc = "fail_idle" /\ tasks'[t].pc = "fail_state"
                    \/ tasks[t].pc = "cancel_idle" /\ tasks'[t].pc = "cancel_state"
              \/ /\ CheckCompletion(t)
                 /\ tasks[t].pc = "done_check"
                 /\ \/ tasks'[t].pc = "done_state"
                    \/ tasks'[t].pc = "final" /\ IsCanceled(t)
              \/ Complete(t) /\ tasks[t].pc = "done_state" /\ tasks'[t].pc = "final"
              \/ Fail(t) /\ tasks[t].pc = "fail_state" /\ tasks'[t].pc = "final"
              \/ Hold(t) /\ tasks[t].pc = "hold_state" /\ tasks'[t].pc = "hold_sleep"
              \/ /\ Wake(t)
                 /\ tasks[t].pc = "hold_sleep"
                 /\ \/ tasks'[t].pc = "check"
                    \/ tasks'[t].pc = "final" /\ IsCanceled(t)
              \/ /\ CheckFinalCancel(t)
                 /\ tasks[t].pc = "final"
                 /\ \/ tasks'[t].pc = "cancel_reasons" /\ IsCanceled(t)
                    \/ tasks'[t].pc = "persist" /\ ~IsCanceled(t)
              \/ ClearReasons(t) /\ tasks[t].pc = "cancel_reasons" /\ tasks'[t].pc = "cancel_idle"
              \/ FinalCancel(t) /\ tasks[t].pc = "cancel_state" /\ tasks'[t].pc = "persist"
              \/ Persist(t) /\ tasks[t].pc = "persist" /\ tasks'[t].pc = "finished"
<1>1. SpoolTypeOK
  BY DEF SpoolBase
<1>2. ASSUME NEW from, NEW to \in Label, Goto(t, from, to)
      PROVE  t \in DOMAIN tasks /\ tasks[t].pc = from /\ tasks'[t].pc = to
  BY <1>1, <1>2, GotoEffect
<1>3. ASSUME NEW outcome \in Outcome \ {"None"}, NEW why \in SUBSET Reason,
             Attempt(t, outcome, why)
      PROVE  /\ t \in DOMAIN tasks
             /\ tasks[t].pc = "attempt"
             /\ tasks'[t].pc \in {"done_reasons", "fail_reasons", "hold_reasons"}
             /\ UNCHANGED <<jobs, nextId, printers, sweep>>
  <2>1. UNCHANGED <<jobs, nextId, printers, sweep>>
    BY <1>3 DEF Attempt
  <2> QED
    BY <1>1, <1>3, <2>1, AttemptEffect
<1> QED
  BY <1>2, <1>3
     DEF Worker, BecomeProcessing, MarkProcessing, CheckCanceled, PublishReasons,
         ReturnToIdle, CheckCompletion, Complete, Fail, Hold, Wake,
         CheckFinalCancel, ClearReasons, FinalCancel, Persist, Label

\* A worker that will free its printer goes on to, or frees it now.
LEMMA FreeStep ==
    ASSUME SpoolBase, SpoolNext, JobsKept, TasksKept,
           NEW t \in DOMAIN tasks, WillFreePrinter(t)
    PROVE  WillFreePrinter(t)' \/ ReturnToIdle(t)
<1>1. IsCanceled(t) => IsCanceled(t)'
  BY StaysCanceled
<1>2. CASE tasks'[t] = tasks[t]
  BY <1>1, <1>2 DEF WillFreePrinter
<1>3. CASE Worker(t)
  BY <1>1, <1>3, NextLabel DEF WillFreePrinter
<1> QED
  BY <1>2, <1>3, OnlyItsOwnSteps

\* A worker that will settle its job goes on to, or settles it now.
LEMMA SettleStep ==
    ASSUME SpoolBase, SpoolNext, JobsKept, TasksKept,
           NEW t \in DOMAIN tasks, WillSettleJob(t)
    PROVE  WillSettleJob(t)' \/ Complete(t) \/ Fail(t) \/ FinalCancel(t)
<1>1. IsCanceled(t) => IsCanceled(t)'
  BY StaysCanceled
<1>2. CASE tasks'[t] = tasks[t]
  BY <1>1, <1>2 DEF WillSettleJob
<1>3. CASE Worker(t)
  BY <1>1, <1>3, NextLabel DEF WillSettleJob
<1> QED
  BY <1>2, <1>3, OnlyItsOwnSteps

\* The state of a printer changes only when a worker takes it or frees it.
LEMMA PrinterStateStep ==
    ASSUME SpoolBase, SpoolNext, NEW p \in Printer,
           printers'[p].state = "Processing", printers[p].state # "Processing"
    PROVE  \E t \in DOMAIN tasks : BecomeProcessing(t) /\ tasks[t].printer = p
<1>1. PrinterTypeOK
  BY DEF SpoolBase, SpoolTypeOK
<1>2. ~Handler
  BY DEF Handler, PrintJob, CreateJob, SendDocument, CancelJob, BeginCancelMyJobs,
         CancelNextOfMine
<1>3. PICK t : Worker(t)
  BY <1>2 DEF SpoolNext
<1>4. t \in DOMAIN tasks
  BY <1>3, NextLabel
<1>5. ASSUME NEW why, SetPrinterReasons(tasks[t].printer, why)
      PROVE  FALSE
  BY <1>1, <1>5 DEF SetPrinterReasons, PrinterTypeOK, PrinterRecord
<1>6. ASSUME SetPrinterIdle(tasks[t].printer)
      PROVE  FALSE
  BY <1>1, <1>6 DEF SetPrinterIdle, PrinterTypeOK, PrinterRecord
<1>7. BecomeProcessing(t)
  BY <1>3, <1>5, <1>6, NextLabel
     DEF MarkProcessing, CheckCanceled, PublishReasons, ReturnToIdle,
         CheckCompletion, Complete, Fail, Hold, Wake, CheckFinalCancel, ClearReasons,
         FinalCancel, Persist
<1>8. tasks[t].printer = p
  BY <1>1, <1>7 DEF BecomeProcessing, SetPrinterProcessing, PrinterTypeOK, PrinterRecord
<1> QED
  BY <1>4, <1>7, <1>8

\* Freeing a printer makes it idle.
LEMMA IdleNow ==
    ASSUME SpoolBase, NEW t \in DOMAIN tasks, ReturnToIdle(t)
    PROVE  printers'[tasks[t].printer].state = "Idle"
<1>1. tasks[t].printer \in Printer
  BY JobOfTask DEF Task
<1>2. PrinterTypeOK
  BY DEF SpoolBase, SpoolTypeOK
<1> QED
  BY <1>1, <1>2 DEF ReturnToIdle, SetPrinterIdle, PrinterTypeOK, PrinterRecord

LEMMA NoStuckPrinterStep ==
    ASSUME SpoolBase, NoStuckPrinter, SpoolNext
    PROVE  NoStuckPrinter'
<1>1. JobsKept /\ TasksKept
  BY StepKeepsJobs, StepKeepsTasks
<1> SUFFICES ASSUME NEW p \in Printer, printers'[p].state = "Processing"
             PROVE  \E t \in DOMAIN tasks' : tasks'[t].printer = p /\ WillFreePrinter(t)'
  BY DEF NoStuckPrinter
<1>2. CASE printers[p].state = "Processing"
  <2>1. PICK t \in DOMAIN tasks : tasks[t].printer = p /\ WillFreePrinter(t)
    BY <1>2 DEF NoStuckPrinter
  <2>2. ~ReturnToIdle(t)
    BY <2>1, IdleNow
  <2>3. WillFreePrinter(t)'
    BY <1>1, <2>1, <2>2, FreeStep
  <2> QED
    BY <1>1, <2>1, <2>3 DEF TasksKept
<1>3. CASE printers[p].state # "Processing"
  <2>1. PICK t \in DOMAIN tasks : BecomeProcessing(t) /\ tasks[t].printer = p
    BY <1>3, PrinterStateStep
  <2>2. tasks'[t].pc = "mark"
    BY <2>1, NextLabel DEF Worker, BecomeProcessing, MarkProcessing, CheckCanceled,
       PublishReasons, ReturnToIdle, CheckCompletion, Complete, Fail, Hold, Wake,
       CheckFinalCancel, ClearReasons, FinalCancel, Persist, Goto, At
  <2> QED
    BY <1>1, <2>1, <2>2 DEF TasksKept, WillFreePrinter
<1> QED
  BY <1>2, <1>3

\* A printer is Processing only while some worker will still return it to Idle
\* (spawn_print_worker), for any number of printers, jobs and documents.
THEOREM PrinterIsFreed == SpoolSpec => []NoStuckPrinter
<1>1. SpoolInit => NoStuckPrinter
  BY DEF SpoolInit, PrinterInit, NoStuckPrinter
<1>2. SpoolBase /\ NoStuckPrinter /\ [SpoolNext]_spoolVars => NoStuckPrinter'
  <2> SUFFICES ASSUME SpoolBase, NoStuckPrinter, UNCHANGED spoolVars
               PROVE  NoStuckPrinter'
    BY NoStuckPrinterStep
  <2> QED
    BY DEF spoolVars, NoStuckPrinter, WillFreePrinter, IsCanceled
<1> QED
  BY <1>1, <1>2, SpoolBaseInvariant, PTL DEF SpoolSpec

\* How a step can change the record of a job: it is new, or canceled, or written
\* by a worker of its own.
LEMMA JobRecordStep ==
    ASSUME SpoolBase, SpoolNext, NEW i \in DOMAIN jobs'
    PROVE  \/ i \in DOMAIN jobs /\ jobs'[i] = jobs[i]
           \/ i \notin DOMAIN jobs /\ jobs'[i].state = "Pending" /\ jobs'[i].reasons = {}
           \/ /\ i \in DOMAIN jobs
              /\ jobs[i].state \notin Terminal
              /\ jobs'[i].state = "Canceled"
              /\ jobs'[i].canceled
              /\ jobs'[i].reasons = jobs[i].reasons
           \/ /\ i \in DOMAIN jobs
              /\ \E t \in DOMAIN tasks :
                    /\ tasks[t].job = i
                    /\ \/ /\ \/ MarkProcessing(t) /\ jobs'[i].state = "Processing"
                             \/ Hold(t) /\ jobs'[i].state = "ProcessingStopped"
                             \/ Complete(t) /\ jobs'[i].state = "Completed"
                          /\ jobs'[i].reasons = jobs[i].reasons
                       \/ /\ Fail(t)
                          /\ jobs'[i].state = "Aborted"
                          /\ jobs'[i].reasons = tasks[t].why
<1> DEFINE Same == i \in DOMAIN jobs /\ jobs'[i] = jobs[i]
           New == i \notin DOMAIN jobs /\ jobs'[i].state = "Pending" /\ jobs'[i].reasons = {}
           Canceled == /\ i \in DOMAIN jobs
                       /\ jobs[i].state \notin Terminal
                       /\ jobs'[i].state = "Canceled"
                       /\ jobs'[i].canceled
                       /\ jobs'[i].reasons = jobs[i].reasons
<1>1. SpoolTypeOK /\ JobIds
  BY DEF SpoolBase
<1>2. \A j \in DOMAIN jobs : jobs[j] \in JobRecord
  BY <1>1, ElementOfSeq, LenProperties DEF SpoolTypeOK, JobTypeOK
<1>3. CASE jobs' = jobs
  BY <1>3
<1>4. ASSUME NEW p \in Printer, Create(p)
      PROVE  Same \/ New
  <2> DEFINE n == Len(jobs) + 1
  <2>1. /\ DOMAIN jobs' = DOMAIN jobs \cup {n}
        /\ n \notin DOMAIN jobs
        /\ jobs'[n] = [id |-> n, printer |-> p, state |-> "Pending",
                       reasons |-> {}, completed |-> FALSE, canceled |-> FALSE]
        /\ \A j \in DOMAIN jobs : jobs'[j] = jobs[j]
    BY <1>1, <1>4, CreateEffect
  <2>2. jobs'[n].state = "Pending" /\ jobs'[n].reasons = {}
    BY <2>1
  <2> QED
    BY <2>1, <2>2
<1>5. ASSUME NEW id, Cancel(id)
      PROVE  Same \/ Canceled
  <2>1. \A j \in DOMAIN jobs :
           \/ CancelRecord(jobs[j]) = jobs[j]
           \/ /\ jobs[j].state \notin Terminal
              /\ CancelRecord(jobs[j]).state = "Canceled"
              /\ CancelRecord(jobs[j]).canceled
              /\ CancelRecord(jobs[j]).reasons = jobs[j].reasons
    BY <1>2 DEF CancelRecord, JobRecord
  <2>2. CASE jobs' = jobs
    BY <2>2
  <2>3. ASSUME NEW k \in DOMAIN jobs,
               DOMAIN jobs' = DOMAIN jobs,
               jobs'[k] = CancelRecord(jobs[k]),
               \A j \in DOMAIN jobs : j # k => jobs'[j] = jobs[j]
        PROVE  Same \/ Canceled
    BY <2>1, <2>3
  <2> QED
    BY <1>1, <1>5, <2>2, <2>3, CancelEffect
<1>6. CASE Handler
  BY <1>3, <1>4, <1>5, <1>6
     DEF Handler, PrintJob, CreateJob, SendDocument, CancelJob, BeginCancelMyJobs,
         CancelNextOfMine
<1>7. ASSUME NEW t \in DOMAIN tasks, Worker(t)
      PROVE  \/ Same
             \/ Canceled
             \/ /\ i \in DOMAIN jobs
                /\ tasks[t].job = i
                /\ \/ /\ \/ MarkProcessing(t) /\ jobs'[i].state = "Processing"
                         \/ Hold(t) /\ jobs'[i].state = "ProcessingStopped"
                         \/ Complete(t) /\ jobs'[i].state = "Completed"
                      /\ jobs'[i].reasons = jobs[i].reasons
                   \/ /\ Fail(t)
                      /\ jobs'[i].state = "Aborted"
                      /\ jobs'[i].reasons = tasks[t].why
  <2> DEFINE k == tasks[t].job
  <2>1. k \in DOMAIN jobs /\ IdOf(t) = jobs[k].id /\ tasks[t].why \in SUBSET Reason
    BY <1>1, JobOfTask DEF Task
  <2>2. ASSUME NEW s \in JobState, SetState(IdOf(t), s)
        PROVE  \/ Same
               \/ /\ i \in DOMAIN jobs /\ k = i
                  /\ jobs'[i].state = s /\ jobs'[i].reasons = jobs[i].reasons
    <3>1. /\ jobs'[k] = StateRecord(jobs[k], s)
          /\ DOMAIN jobs' = DOMAIN jobs
          /\ \A j \in DOMAIN jobs : j # k => jobs'[j] = jobs[j]
      BY <1>1, <2>1, <2>2, SetStateEffect
    <3>2. StateRecord(jobs[k], s).state = s /\ StateRecord(jobs[k], s).reasons = jobs[k].reasons
      BY <1>2, <2>1 DEF StateRecord, JobRecord
    <3> QED
      BY <3>1, <3>2
  <2>3. CASE Fail(t)
    <3>1. SetFailure(jobs[k].id, tasks[t].why)
      BY <2>1, <2>3 DEF Fail
    <3>2. /\ jobs'[k] = FailureRecord(jobs[k], tasks[t].why)
          /\ DOMAIN jobs' = DOMAIN jobs
          /\ \A j \in DOMAIN jobs : j # k => jobs'[j] = jobs[j]
      BY <1>1, <2>1, <3>1, SetFailureEffect
    <3>3. /\ FailureRecord(jobs[k], tasks[t].why).state = "Aborted"
          /\ FailureRecord(jobs[k], tasks[t].why).reasons = tasks[t].why
      BY <1>2, <2>1 DEF FailureRecord, JobRecord
    <3> QED
      BY <2>3, <3>2, <3>3
  <2>4. CASE MarkProcessing(t)
    BY <2>2, <2>4 DEF MarkProcessing, JobState
  <2>5. CASE Hold(t)
    BY <2>2, <2>5 DEF Hold, JobState
  <2>6. CASE Complete(t)
    BY <2>2, <2>6 DEF Complete, JobState
  <2>7. CASE FinalCancel(t)
    BY <2>7, <1>5 DEF FinalCancel
  <2> QED
    BY <1>3, <1>7, <2>3, <2>4, <2>5, <2>6, <2>7, NextLabel
       DEF BecomeProcessing, CheckCanceled, PublishReasons, ReturnToIdle,
           CheckCompletion, Wake, CheckFinalCancel, ClearReasons, Persist
<1>8. ASSUME NEW t, Worker(t)
      PROVE  t \in DOMAIN tasks
  BY <1>8, NextLabel
<1> QED
  BY <1>6, <1>7, <1>8 DEF SpoolNext

\* Settling a job takes it out of processing.
LEMMA SettledNow ==
    ASSUME SpoolBase, NEW t \in DOMAIN tasks, Complete(t) \/ Fail(t) \/ FinalCancel(t)
    PROVE  jobs'[tasks[t].job].state \in Terminal
<1> DEFINE k == tasks[t].job
<1>1. SpoolTypeOK /\ JobIds
  BY DEF SpoolBase
<1>2. /\ k \in DOMAIN jobs /\ IdOf(t) = jobs[k].id
      /\ jobs[k] \in JobRecord /\ tasks[t].why \in SUBSET Reason
  BY <1>1, JobOfTask, ElementOfSeq, LenProperties DEF SpoolTypeOK, JobTypeOK, Task
<1>3. CASE Complete(t)
  <2>1. SetState(jobs[k].id, "Completed") /\ "Completed" \in JobState
    BY <1>2, <1>3 DEF Complete, JobState
  <2>2. jobs'[k] = StateRecord(jobs[k], "Completed")
    BY <1>1, <1>2, <2>1, SetStateEffect
  <2> QED
    BY <1>2, <2>2 DEF StateRecord, JobRecord, Terminal
<1>4. CASE Fail(t)
  <2>1. SetFailure(jobs[k].id, tasks[t].why)
    BY <1>2, <1>4 DEF Fail
  <2>2. jobs'[k] = FailureRecord(jobs[k], tasks[t].why)
    BY <1>1, <1>2, <2>1, SetFailureEffect
  <2> QED
    BY <1>2, <2>2 DEF FailureRecord, JobRecord, Terminal
<1>5. CASE FinalCancel(t)
  <2>1. Cancel(jobs[k].id)
    BY <1>2, <1>5 DEF FinalCancel
  <2>2. jobs'[k] = CancelRecord(jobs[k])
    BY <1>1, <1>2, <2>1, CancelJobEffect
  <2> QED
    BY <1>2, <2>2 DEF CancelRecord, JobRecord, Terminal
<1> QED
  BY <1>3, <1>4, <1>5

LEMMA NoStrandedJobStep ==
    ASSUME SpoolBase, NoStrandedJob, SpoolNext
    PROVE  NoStrandedJob'
<1>1. JobsKept /\ TasksKept
  BY StepKeepsJobs, StepKeepsTasks
<1> SUFFICES ASSUME NEW i \in DOMAIN jobs',
                    jobs'[i].state \in {"Processing", "ProcessingStopped"}
             PROVE  \E t \in DOMAIN tasks' : tasks'[t].job = i /\ WillSettleJob(t)'
  BY DEF NoStrandedJob
<1>2. CASE i \in DOMAIN jobs /\ jobs'[i] = jobs[i]
  <2>1. PICK t \in DOMAIN tasks : tasks[t].job = i /\ WillSettleJob(t)
    BY <1>2 DEF NoStrandedJob
  <2>2. ~(Complete(t) \/ Fail(t) \/ FinalCancel(t))
    BY <2>1, SettledNow DEF Terminal
  <2>3. WillSettleJob(t)'
    BY <1>1, <2>1, <2>2, SettleStep
  <2> QED
    BY <1>1, <2>1, <2>3 DEF TasksKept
<1>3. ASSUME NEW t \in DOMAIN tasks, MarkProcessing(t) \/ Hold(t), tasks[t].job = i
      PROVE  \E u \in DOMAIN tasks' : tasks'[u].job = i /\ WillSettleJob(u)'
  <2>1. Goto(t, "mark", "check") \/ Goto(t, "hold_state", "hold_sleep")
    BY <1>3 DEF MarkProcessing, Hold
  <2>2. SpoolTypeOK /\ "check" \in Label /\ "hold_sleep" \in Label
    BY DEF SpoolBase, Label
  <2>3. tasks'[t].pc \in {"check", "hold_sleep"}
    BY <2>1, <2>2, GotoEffect
  <2> QED
    BY <1>1, <1>3, <2>3 DEF TasksKept, WillSettleJob
<1> QED
  BY <1>2, <1>3, JobRecordStep

\* A job is in processing or processing-stopped only while some worker of it
\* will still bring it to a terminal state (spawn_print_worker), whatever the
\* number of documents sent for it and the order of cancels and holds.
THEOREM JobIsSettled == SpoolSpec => []NoStrandedJob
<1>1. SpoolInit => NoStrandedJob
  BY DEF SpoolInit, JobInit, NoStrandedJob
<1>2. SpoolBase /\ NoStrandedJob /\ [SpoolNext]_spoolVars => NoStrandedJob'
  <2> SUFFICES ASSUME SpoolBase, NoStrandedJob, UNCHANGED spoolVars
               PROVE  NoStrandedJob'
    BY NoStrandedJobStep
  <2> QED
    BY DEF spoolVars, NoStrandedJob, WillSettleJob, IsCanceled
<1> QED
  BY <1>1, <1>2, SpoolBaseInvariant, PTL DEF SpoolSpec

-----------------------------------------------------------------------------
(***************************************************************************)
(* What a finished job reports.  A worker whose callback completed or      *)
(* failed has left the retry loop for good (LastOutcome), so the outcome   *)
(* that justified the state of its job is never replaced by another.       *)
(***************************************************************************)

LastOutcome ==
    \A t \in DOMAIN tasks :
        /\ tasks[t].pc \in {"done_reasons", "done_idle", "done_check", "done_state"} =>
              tasks[t].outcome = "Completed"
        /\ tasks[t].pc \in {"fail_reasons", "fail_idle", "fail_state"} =>
              tasks[t].outcome = "Failed"
        /\ tasks[t].outcome \in {"Completed", "Failed"} =>
              tasks[t].pc \in {"done_reasons", "done_idle", "done_check", "done_state",
                               "fail_reasons", "fail_idle", "fail_state",
                               "final", "cancel_reasons", "cancel_idle", "cancel_state",
                               "persist", "finished"}

\* A step of a worker other than the return of its callback keeps the outcome.
LEMMA OutcomeStep ==
    ASSUME SpoolBase, NEW t, Worker(t)
    PROVE  \/ tasks'[t].outcome = tasks[t].outcome /\ tasks'[t].why = tasks[t].why
           \/ tasks[t].pc = "attempt"
<1>1. SpoolTypeOK
  BY DEF SpoolBase
<1> QED
  BY <1>1, WorkerMoves, GotoEffect, AttemptEffect

\* The worker a step adds, if any, has no outcome and stands at its start.
LEMMA NewTask ==
    ASSUME SpoolBase, SpoolNext, JobsKept, NEW t \in DOMAIN tasks', t \notin DOMAIN tasks
    PROVE  tasks'[t].pc = "start" /\ tasks'[t].outcome = "None"
<1>1. SpoolTypeOK
  BY DEF SpoolBase
<1>2. ASSUME NEW i \in Nat, NEW p \in Printer, Spawn(i, p)
      PROVE  tasks'[t].pc = "start" /\ tasks'[t].outcome = "None"
  <2>1. tasks'[t] = [pc |-> "start", job |-> i, printer |-> p,
                     outcome |-> "None", why |-> {}]
    BY <1>1, <1>2, SpawnEffect
  <2> QED
    BY <2>1
<1>3. ASSUME NEW u, Worker(u)
      PROVE  FALSE
  <2>1. DOMAIN tasks' = DOMAIN tasks
    BY <1>1, <1>3, WorkerMoves, GotoEffect, AttemptEffect
  <2> QED
    BY <2>1
<1>4. jobs \in Seq(JobRecord)
  BY <1>1 DEF SpoolTypeOK, JobTypeOK
<1>5. Len(jobs) + 1 \in Nat /\ \A i \in DOMAIN jobs : i \in Nat
  BY <1>4, LenProperties
<1> QED
  BY <1>2, <1>3, <1>5
     DEF SpoolNext, Handler, PrintJob, CreateJob, SendDocument, CancelJob,
         BeginCancelMyJobs, CancelNextOfMine, Find

\* Only the callback takes a worker from its attempt.
LEMMA AttemptedOutcome ==
    ASSUME SpoolBase, NEW t, Worker(t), tasks[t].pc = "attempt"
    PROVE  /\ tasks'[t].outcome \in {"Completed", "Failed", "Unavailable"}
           /\ tasks'[t].pc = "done_reasons" <=> tasks'[t].outcome = "Completed"
           /\ tasks'[t].pc = "fail_reasons" <=> tasks'[t].outcome = "Failed"
<1>1. SpoolTypeOK
  BY DEF SpoolBase
<1>2. PICK outcome \in Outcome \ {"None"}, why \in SUBSET Reason : Attempt(t, outcome, why)
  BY DEF Worker, BecomeProcessing, MarkProcessing, CheckCanceled, PublishReasons,
         ReturnToIdle, CheckCompletion, Complete, Fail, Hold, Wake,
         CheckFinalCancel, ClearReasons, FinalCancel, Persist, Goto, At
<1>3. outcome \in {"Completed", "Failed", "Unavailable"}
  BY DEF Outcome
<1> QED
  BY <1>1, <1>2, <1>3, AttemptEffect

LEMMA LastOutcomeStep ==
    ASSUME SpoolBase, LastOutcome, SpoolNext
    PROVE  LastOutcome'
<1>1. JobsKept
  BY StepKeepsJobs
<1> SUFFICES ASSUME NEW t \in DOMAIN tasks'
             PROVE  /\ tasks'[t].pc \in {"done_reasons", "done_idle", "done_check", "done_state"}
                          => tasks'[t].outcome = "Completed"
                    /\ tasks'[t].pc \in {"fail_reasons", "fail_idle", "fail_state"}
                          => tasks'[t].outcome = "Failed"
                    /\ tasks'[t].outcome \in {"Completed", "Failed"} =>
                          tasks'[t].pc \in
                             {"done_reasons", "done_idle", "done_check", "done_state",
                              "fail_reasons", "fail_idle", "fail_state",
                              "final", "cancel_reasons", "cancel_idle", "cancel_state",
                              "persist", "finished"}
  BY DEF LastOutcome
<1>2. CASE t \notin DOMAIN tasks
  BY <1>1, <1>2, NewTask
<1>3. CASE t \in DOMAIN tasks /\ tasks'[t] = tasks[t]
  BY <1>3 DEF LastOutcome
<1>4. CASE t \in DOMAIN tasks /\ Worker(t)
  <2>1. CASE tasks[t].pc = "attempt"
    <3>1. tasks'[t].pc \in {"done_reasons", "fail_reasons", "hold_reasons"}
      BY <1>4, <2>1, NextLabel
    <3> QED
      BY <1>4, <2>1, <3>1, AttemptedOutcome
  <2>2. CASE tasks[t].pc # "attempt"
    <3>1. tasks'[t].outcome = tasks[t].outcome
      BY <1>4, <2>2, OutcomeStep
    <3> QED
      BY <1>4, <2>2, <3>1, NextLabel DEF LastOutcome
  <2> QED
    BY <2>1, <2>2
<1> QED
  BY <1>2, <1>3, <1>4, OnlyItsOwnSteps

\* What an attempt said is not replaced.
LEMMA OutcomeStays ==
    ASSUME SpoolBase, LastOutcome, SpoolNext, NEW t \in DOMAIN tasks,
           tasks[t].outcome \in {"Completed", "Failed"}
    PROVE  tasks'[t].outcome = tasks[t].outcome /\ tasks'[t].why = tasks[t].why
  BY OnlyItsOwnSteps, OutcomeStep DEF LastOutcome

LEMMA OutcomeIsEarnedStep ==
    ASSUME SpoolBase, LastOutcome, OutcomeIsEarned, SpoolNext
    PROVE  OutcomeIsEarned'
<1>1. JobsKept /\ TasksKept
  BY StepKeepsJobs, StepKeepsTasks
<1> DEFINE Earned(i) ==
      /\ jobs'[i].state = "Completed" =>
            \E t \in DOMAIN tasks' : tasks'[t].job = i /\ tasks'[t].outcome = "Completed"
      /\ jobs'[i].state = "Aborted" \/ jobs'[i].reasons # {} =>
            \E t \in DOMAIN tasks' : /\ tasks'[t].job = i
                                     /\ tasks'[t].outcome = "Failed"
                                     /\ tasks'[t].why = jobs'[i].reasons
      /\ jobs'[i].state = "Canceled" => jobs'[i].canceled
<1> SUFFICES ASSUME NEW i \in DOMAIN jobs'
             PROVE  Earned(i)
  BY DEF OutcomeIsEarned
<1>2. \A t \in DOMAIN tasks :
         /\ t \in DOMAIN tasks'
         /\ tasks'[t].job = tasks[t].job
         /\ tasks[t].outcome \in {"Completed", "Failed"} =>
               tasks'[t].outcome = tasks[t].outcome /\ tasks'[t].why = tasks[t].why
  BY <1>1, OutcomeStays DEF TasksKept
<1>3. CASE i \in DOMAIN jobs /\ jobs'[i] = jobs[i]
  BY <1>2, <1>3 DEF OutcomeIsEarned
<1>4. CASE jobs'[i].state = "Pending" /\ jobs'[i].reasons = {}
  BY <1>4
<1>5. ASSUME i \in DOMAIN jobs, jobs'[i].reasons = jobs[i].reasons, jobs'[i].reasons # {}
      PROVE  \E t \in DOMAIN tasks' : /\ tasks'[t].job = i
                                      /\ tasks'[t].outcome = "Failed"
                                      /\ tasks'[t].why = jobs'[i].reasons
  <2>1. PICK t \in DOMAIN tasks : /\ tasks[t].job = i
                                  /\ tasks[t].outcome = "Failed"
                                  /\ tasks[t].why = jobs[i].reasons
    BY <1>5 DEF OutcomeIsEarned
  <2> QED
    BY <1>2, <1>5, <2>1
<1>6. CASE /\ i \in DOMAIN jobs /\ jobs'[i].reasons = jobs[i].reasons
           /\ jobs'[i].state = "Canceled" /\ jobs'[i].canceled
  BY <1>5, <1>6
<1>7. ASSUME NEW t \in DOMAIN tasks, tasks[t].job = i,
             \/ /\ i \in DOMAIN jobs /\ jobs'[i].reasons = jobs[i].reasons
                /\ \/ MarkProcessing(t) /\ jobs'[i].state = "Processing"
                   \/ Hold(t) /\ jobs'[i].state = "ProcessingStopped"
                   \/ Complete(t) /\ jobs'[i].state = "Completed"
             \/ Fail(t) /\ jobs'[i].state = "Aborted" /\ jobs'[i].reasons = tasks[t].why
      PROVE  Earned(i)
  <2>1. Complete(t) => tasks[t].outcome = "Completed"
    BY DEF LastOutcome, Complete, Goto, At
  <2>2. Fail(t) => tasks[t].outcome = "Failed"
    BY DEF LastOutcome, Fail, Goto, At
  <2> QED
    BY <1>2, <1>5, <1>7, <2>1, <2>2
<1> HIDE DEF Earned
<1> QED
  BY <1>3, <1>4, <1>6, <1>7, JobRecordStep

\* A job reports Completed, Aborted or the reasons of a failure only as an attempt of
\* one of its workers said, and Canceled only if a client asked for it
\* (spawn_print_worker, set_state, set_failure, cancel), for any number of jobs,
\* documents and workers of one job.
THEOREM OutcomesAreEarned == SpoolSpec => []OutcomeIsEarned
<1>1. SpoolInit => LastOutcome /\ OutcomeIsEarned
  BY DEF SpoolInit, JobInit, LastOutcome, OutcomeIsEarned
<1>2. SpoolBase /\ LastOutcome /\ OutcomeIsEarned /\ [SpoolNext]_spoolVars
         => LastOutcome' /\ OutcomeIsEarned'
  <2> SUFFICES ASSUME SpoolBase, LastOutcome, OutcomeIsEarned, UNCHANGED spoolVars
               PROVE  LastOutcome' /\ OutcomeIsEarned'
    BY LastOutcomeStep, OutcomeIsEarnedStep
  <2> QED
    BY DEF spoolVars, LastOutcome, OutcomeIsEarned
<1> QED
  BY <1>1, <1>2, SpoolBaseInvariant, PTL DEF SpoolSpec

-----------------------------------------------------------------------------
(***************************************************************************)
(* What a printer shows of its workers.  A worker takes its own work off   *)
(* the display with the step that ends it; any other step that takes it    *)
(* off is one with which another worker of the printer frees it, or        *)
(* reports.                                                                *)
(***************************************************************************)

\* A worker writes no record but the one of its printer.
LEMMA OwnPrinterOnly ==
    ASSUME SpoolBase, NEW t, Worker(t), NEW p \in Printer, tasks[t].printer # p
    PROVE  printers'[p] = printers[p]
<1>1. PrinterTypeOK
  BY DEF SpoolBase, SpoolTypeOK
<1>2. CASE \/ SetPrinterProcessing(tasks[t].printer)
           \/ SetPrinterIdle(tasks[t].printer)
           \/ \E why : SetPrinterReasons(tasks[t].printer, why)
  BY <1>1, <1>2
     DEF SetPrinterProcessing, SetPrinterIdle, SetPrinterReasons, PrinterTypeOK, PrinterRecord
<1>3. CASE printers' = printers
  BY <1>3
<1> QED
  BY <1>2, <1>3, NextLabel
     DEF BecomeProcessing, MarkProcessing, CheckCanceled, PublishReasons, ReturnToIdle,
         CheckCompletion, Complete, Fail, Hold, Wake, CheckFinalCancel, ClearReasons,
         FinalCancel, Persist

\* The reasons with which the last call of the callback returned are kept by every
\* other step.
LEMMA MoveKeepsWhy ==
    ASSUME SpoolBase, NEW t, NEW from, NEW to \in Label, Goto(t, from, to)
    PROVE  tasks'[t].why = tasks[t].why /\ tasks'[t].printer = tasks[t].printer
  BY GotoEffect DEF SpoolBase

LEMMA OwnStepShowsWork ==
    ASSUME SpoolBase, NEW t \in DOMAIN tasks, Worker(t)
    PROVE  StaysShown(t, {})
<1> DEFINE p == tasks[t].printer
<1>1. p \in Printer /\ PrinterTypeOK
  BY JobOfTask DEF SpoolBase, SpoolTypeOK, Task
<1>2. CASE BecomeProcessing(t) /\ tasks'[t].pc = "mark"
  <2>1. printers'[p].state = "Processing"
    BY <1>1, <1>2 DEF BecomeProcessing, SetPrinterProcessing, PrinterTypeOK, PrinterRecord
  <2> QED
    BY <1>2, <2>1 DEF StaysShown, Holds
<1>3. CASE PublishReasons(t)
  <2>1. /\ printers'[p].state = printers[p].state
        /\ printers'[p].reasons = tasks[t].why
    BY <1>1, <1>3 DEF PublishReasons, SetPrinterReasons, PrinterTypeOK, PrinterRecord
  <2>2. tasks'[t].why = tasks[t].why
    BY <1>3, MoveKeepsWhy DEF PublishReasons, Label
  <2>3. UsesPrinter(t)
    BY <1>3 DEF PublishReasons, Goto, At, UsesPrinter
  <2> QED
    BY <2>1, <2>2, <2>3 DEF StaysShown
<1>4. CASE printers' = printers /\ tasks'[t].pc \notin {"mark", "hold_state"}
  <2>1. UsesPrinter(t)' => UsesPrinter(t)
    BY <1>4, NextLabel DEF UsesPrinter
  <2>2. Holds(t)' => Holds(t) /\ tasks'[t].why = tasks[t].why
    BY <1>4, NextLabel, MoveKeepsWhy DEF Holds, Hold, Label
  <2> QED
    BY <1>4, <2>1, <2>2 DEF StaysShown
<1>5. CASE ReturnToIdle(t) \/ ClearReasons(t)
  <2>1. tasks'[t].pc \in {"done_check", "fail_state", "cancel_state", "cancel_idle"}
    BY <1>5, NextLabel DEF ReturnToIdle, ClearReasons, Goto, At
  <2> QED
    BY <2>1 DEF StaysShown, UsesPrinter, Holds
<1> QED
  BY <1>2, <1>3, <1>4, <1>5, NextLabel
     DEF MarkProcessing, CheckCanceled, CheckCompletion, Complete, Fail, Hold, Wake,
         CheckFinalCancel, FinalCancel, Persist

\* Only a worker that frees a printer takes it out of Processing, and only one that
\* reports changes its reasons.
LEMMA DisplayStep ==
    ASSUME SpoolBase, NEW u, Worker(u), tasks[u].printer \in Printer
    PROVE  LET p == tasks[u].printer
           IN  /\ \/ printers[p].state = "Processing" => printers'[p].state = "Processing"
                  \/ WillFreePrinter(u) /\ ~WillFreePrinter(u)'
               /\ \/ printers'[p].reasons = printers[p].reasons
                  \/ Reports(u) /\ ~Reports(u)'
<1> DEFINE p == tasks[u].printer
<1>1. p \in Printer /\ PrinterTypeOK
  BY DEF SpoolBase, SpoolTypeOK
<1>2. CASE BecomeProcessing(u)
  BY <1>1, <1>2 DEF BecomeProcessing, SetPrinterProcessing, PrinterTypeOK, PrinterRecord
<1>3. CASE PublishReasons(u)
  <2>1. printers'[p].state = printers[p].state
    BY <1>1, <1>3 DEF PublishReasons, SetPrinterReasons, PrinterTypeOK, PrinterRecord
  <2>2. /\ tasks[u].pc \in {"done_reasons", "fail_reasons", "hold_reasons"}
        /\ tasks'[u].pc \in {"done_idle", "fail_idle", "hold_state"}
    BY <1>3, NextLabel DEF PublishReasons, Goto, At
  <2> QED
    BY <2>1, <2>2 DEF Reports
<1>4. CASE ClearReasons(u)
  <2>1. printers'[p].state = printers[p].state
    BY <1>1, <1>4 DEF ClearReasons, SetPrinterReasons, PrinterTypeOK, PrinterRecord
  <2>2. tasks[u].pc = "cancel_reasons" /\ tasks'[u].pc = "cancel_idle"
    BY <1>4, NextLabel DEF ClearReasons, Goto, At
  <2> QED
    BY <2>1, <2>2 DEF Reports
<1>5. CASE ReturnToIdle(u)
  <2>1. printers'[p].reasons = printers[p].reasons
    BY <1>1, <1>5 DEF ReturnToIdle, SetPrinterIdle, PrinterTypeOK, PrinterRecord
  <2>2. /\ tasks[u].pc \in {"done_idle", "fail_idle", "cancel_idle"}
        /\ tasks'[u].pc \in {"done_check", "fail_state", "cancel_state"}
    BY <1>5, NextLabel DEF ReturnToIdle, Goto, At
  <2> QED
    BY <2>1, <2>2 DEF WillFreePrinter
<1>6. CASE printers' = printers
  BY <1>6
<1> QED
  BY <1>2, <1>3, <1>4, <1>5, <1>6, NextLabel
     DEF MarkProcessing, CheckCanceled, CheckCompletion, Complete, Fail, Hold, Wake,
         CheckFinalCancel, FinalCancel, Persist

LEMMA WorkShownStep ==
    ASSUME SpoolBase, SpoolNext, NEW t \in DOMAIN tasks
    PROVE  StaysShown(t, Others(t))
<1>1. CASE Worker(t)
  <2>1. StaysShown(t, {})
    BY <1>1, OwnStepShowsWork
  <2> QED
    BY <2>1 DEF StaysShown
<1>2. CASE ~Worker(t)
  <2> DEFINE p == tasks[t].printer
  <2>1. tasks'[t] = tasks[t]
    BY <1>2, OnlyItsOwnSteps
  <2>2. (UsesPrinter(t)' <=> UsesPrinter(t)) /\ (Holds(t)' <=> Holds(t))
    BY <2>1 DEF UsesPrinter, Holds
  <2>3. CASE printers'[p] = printers[p]
    BY <2>1, <2>2, <2>3 DEF StaysShown
  <2>4. ASSUME NEW u, Worker(u), printers'[p] # printers[p]
        PROVE  StaysShown(t, Others(t))
    <3>1. p \in Printer
      BY JobOfTask DEF Task
    <3>2. u \in Others(t) /\ tasks[u].printer = p
      BY <1>2, <2>4, <3>1, NextLabel, OwnPrinterOnly DEF Others
    <3>3. /\ \/ printers[p].state = "Processing" => printers'[p].state = "Processing"
             \/ WillFreePrinter(u) /\ ~WillFreePrinter(u)'
          /\ \/ printers'[p].reasons = printers[p].reasons
             \/ Reports(u) /\ ~Reports(u)'
      BY <2>4, <3>1, <3>2, DisplayStep
    <3> QED
      BY <2>1, <2>2, <3>2, <3>3 DEF StaysShown
  <2>5. CASE Handler
    BY <2>3, <2>5 DEF Handler, PrintJob, CreateJob, SendDocument, CancelJob, BeginCancelMyJobs,
                      CancelNextOfMine
  <2> QED
    BY <2>3, <2>4, <2>5 DEF SpoolNext
<1> QED
  BY <1>1, <1>2

\* The display of a printer's work, at any time and for any number of workers on it:
\* a printer in use is Processing, and during a hold shows why, until another worker
\* of it frees it or reports its own reasons (spawn_print_worker).
THEOREM WorkStaysShown == SpoolSpec => WorkIsShown
<1> DEFINE Stays == \A t \in DOMAIN tasks : StaysShown(t, Others(t))
<1>1. SpoolBase /\ [SpoolNext]_spoolVars => [Stays]_spoolVars
  BY WorkShownStep
<1> QED
  BY <1>1, SpoolBaseInvariant, PTL DEF SpoolSpec, WorkIsShown

-----------------------------------------------------------------------------
(***************************************************************************)
(* A cancel that comes in time.  A worker gets to an attempt only past the *)
(* check of the flag, and the flag of a canceled job is set for good.      *)
(***************************************************************************)

InAttempt == {"attempt", "done_reasons", "done_idle", "done_check", "done_state",
              "fail_reasons", "fail_idle", "fail_state"}

LEMMA CanceledStaysOut ==
    ASSUME SpoolBase, SpoolNext, NEW t \in DOMAIN tasks, IsCanceled(t),
           tasks[t].pc \notin InAttempt
    PROVE  tasks'[t].pc \notin InAttempt
<1>1. CASE tasks'[t] = tasks[t]
  BY <1>1
<1>2. CASE Worker(t)
  <2>1. CASE CheckCanceled(t)
    <3>1. Goto(t, "check", "final") /\ SpoolTypeOK /\ "final" \in Label
      BY <2>1 DEF CheckCanceled, SpoolBase, Label
    <3>2. tasks'[t].pc = "final"
      BY <3>1, GotoEffect
    <3> QED
      BY <3>2 DEF InAttempt
  <2> QED
    BY <1>2, <2>1, NextLabel DEF InAttempt
<1> QED
  BY <1>1, <1>2, OnlyItsOwnSteps

\* A worker that a step adds stands at its start.
LEMMA NewWorker ==
    ASSUME SpoolBase, SpoolNext, NEW t \in DOMAIN tasks', t \notin DOMAIN tasks
    PROVE  tasks'[t].pc = "start"
<1>0. SpoolTypeOK
  BY DEF SpoolBase
<1>1. ASSUME NEW i \in Nat, NEW p \in Printer, Spawn(i, p)
      PROVE  tasks'[t].pc = "start"
  <2>1. /\ DOMAIN tasks' = DOMAIN tasks \cup {Len(tasks) + 1}
        /\ tasks'[Len(tasks) + 1] = [pc |-> "start", job |-> i, printer |-> p,
                                     outcome |-> "None", why |-> {}]
    BY <1>0, <1>1, SpawnEffect
  <2>2. t = Len(tasks) + 1
    BY <2>1
  <2> QED
    BY <2>1, <2>2
<1>2. CASE Handler
  <2>1. \A id : Find(id) \subseteq Nat
    BY <1>0, LenProperties DEF Find, SpoolTypeOK, JobTypeOK
  <2>2. Len(jobs) + 1 \in Nat
    BY <1>0, LenProperties DEF SpoolTypeOK, JobTypeOK
  <2> QED
    BY <1>1, <1>2, <2>1, <2>2
       DEF Handler, PrintJob, CreateJob, SendDocument, CancelJob, BeginCancelMyJobs,
           CancelNextOfMine
<1>3. ASSUME NEW u, Worker(u)
      PROVE  FALSE
  BY <1>0, <1>3, WorkerMoves, GotoEffect, AttemptEffect
<1> QED
  BY <1>2, <1>3 DEF SpoolNext

LEMMA CanceledInTimeStep ==
    ASSUME SpoolBase, SpoolNext, NEW i \in DOMAIN jobs, CanceledInTime(i)
    PROVE  CanceledInTime(i)'
<1>1. JobsKept /\ TasksKept
  BY StepKeepsJobs, StepKeepsTasks
<1>2. i \in DOMAIN jobs' /\ jobs'[i].canceled
  BY <1>1 DEF JobsKept, CanceledInTime
<1>3. \A t \in DOMAIN tasks : tasks[t].job = i => tasks[t].pc \notin InAttempt /\ IsCanceled(t)
  BY DEF CanceledInTime, InAttempt, IsCanceled
<1>4. jobs'[i].state \notin {"Completed", "Aborted"}
  <2>1. \A t \in DOMAIN tasks : tasks[t].job = i => ~Complete(t) /\ ~Fail(t)
    BY <1>3 DEF Complete, Fail, Goto, At, InAttempt
  <2>2. jobs[i].state \notin {"Completed", "Aborted"}
    BY DEF CanceledInTime
  <2> QED
    BY <1>2, <2>1, <2>2, JobRecordStep
<1>5. ASSUME NEW t \in DOMAIN tasks', tasks'[t].job = i
      PROVE  tasks'[t].pc \notin InAttempt
  <2>1. CASE t \notin DOMAIN tasks
    BY <2>1, NewWorker DEF InAttempt
  <2>2. CASE t \in DOMAIN tasks
    <3>1. tasks[t].job = i
      BY <1>1, <1>5, <2>2 DEF TasksKept
    <3> QED
      BY <1>3, <2>2, <3>1, CanceledStaysOut
  <2> QED
    BY <2>1, <2>2
<1> QED
  BY <1>2, <1>4, <1>5 DEF CanceledInTime, InAttempt

\* A job canceled with no attempt under way is never printed or aborted, whichever
\* documents and workers it has or still gets (spawn_print_worker).
THEOREM CanceledInTimeIsKept == SpoolSpec => CanceledInTimeIsNotPrinted
<1> DEFINE Kept == \A i \in DOMAIN jobs : CanceledInTime(i) => CanceledInTime(i)'
<1>1. SpoolBase /\ [SpoolNext]_spoolVars => [Kept]_spoolVars
  BY CanceledInTimeStep
<1> QED
  BY <1>1, SpoolBaseInvariant, PTL DEF SpoolSpec, CanceledInTimeIsNotPrinted

-----------------------------------------------------------------------------
(***************************************************************************)
(* The way of a worker.  Its only step that leads back is a retry, and the *)
(* one who retries was told that its device is not available.              *)
(***************************************************************************)

HoldOutcome ==
    \A t \in DOMAIN tasks :
        tasks[t].pc \in {"hold_reasons", "hold_state", "hold_sleep"} =>
            tasks[t].outcome = "Unavailable"

LEMMA HoldOutcomeStep ==
    ASSUME SpoolBase, HoldOutcome, SpoolNext
    PROVE  HoldOutcome'
<1>1. JobsKept
  BY StepKeepsJobs
<1> SUFFICES ASSUME NEW t \in DOMAIN tasks',
                    tasks'[t].pc \in {"hold_reasons", "hold_state", "hold_sleep"}
             PROVE  tasks'[t].outcome = "Unavailable"
  BY DEF HoldOutcome
<1>2. CASE t \notin DOMAIN tasks
  BY <1>1, <1>2, NewTask
<1>3. CASE t \in DOMAIN tasks /\ tasks'[t] = tasks[t]
  BY <1>3 DEF HoldOutcome
<1>4. CASE t \in DOMAIN tasks /\ Worker(t)
  <2>1. CASE tasks[t].pc = "attempt"
    <3>1. tasks'[t].pc = "hold_reasons"
      BY <1>4, <2>1, NextLabel
    <3> QED
      BY <1>4, <2>1, <3>1, AttemptedOutcome
  <2>2. CASE tasks[t].pc # "attempt"
    <3>1. tasks[t].pc \in {"hold_reasons", "hold_state", "hold_sleep"}
      BY <1>4, <2>2, NextLabel
    <3> QED
      BY <1>4, <2>2, <3>1, OutcomeStep DEF HoldOutcome
  <2> QED
    BY <2>1, <2>2
<1> QED
  BY <1>2, <1>3, <1>4, OnlyItsOwnSteps

\* The measure is one, and it starts at thirteen.
LEMMA StepsLeftIsBounded ==
    /\ DOMAIN StepsLeft = Label
    /\ \A pc \in Label : StepsLeft[pc] \in 0 .. 13
  BY DEF StepsLeft, Label

LEMMA WorkerAdvances ==
    ASSUME SpoolBase, HoldOutcome, NEW t, Worker(t)
    PROVE  \/ StepsLeft[tasks'[t].pc] < StepsLeft[tasks[t].pc]
           \/ At(t, "hold_sleep") /\ tasks[t].outcome = "Unavailable" /\ ~IsCanceled(t)
<1>1. CASE tasks[t].pc # "hold_sleep"
  BY <1>1, NextLabel DEF StepsLeft
<1>2. CASE tasks[t].pc = "hold_sleep"
  <2>1. t \in DOMAIN tasks /\ Wake(t) /\ tasks[t].outcome = "Unavailable"
    BY <1>2, NextLabel DEF HoldOutcome
  <2>2. CASE IsCanceled(t)
    <3>1. Goto(t, "hold_sleep", "final") /\ SpoolTypeOK /\ "final" \in Label
      BY <2>1, <2>2 DEF Wake, SpoolBase, Label
    <3>2. tasks'[t].pc = "final"
      BY <3>1, GotoEffect
    <3> QED
      BY <1>2, <3>2 DEF StepsLeft
  <2> QED
    BY <1>2, <2>1, <2>2 DEF At
<1> QED
  BY <1>1, <1>2

LEMMA OnlyHoldsRepeatStep ==
    ASSUME SpoolBase, HoldOutcome, SpoolNext, NEW t \in DOMAIN tasks
    PROVE  \/ tasks'[t] = tasks[t]
           \/ StepsLeft[tasks'[t].pc] < StepsLeft[tasks[t].pc]
           \/ At(t, "hold_sleep") /\ tasks[t].outcome = "Unavailable" /\ ~IsCanceled(t)
  BY OnlyItsOwnSteps, WorkerAdvances

\* Every step of a worker brings it nearer to its end, except a retry for a device
\* that was not available, and that only while its job is not canceled
\* (spawn_print_worker, sleep_cancelable): nothing else can go on forever.
THEOREM OnlyHoldsAreRepeated == SpoolSpec => OnlyHoldsRepeat
<1> DEFINE Advance == \A t \in DOMAIN tasks :
          \/ tasks'[t] = tasks[t]
          \/ StepsLeft[tasks'[t].pc] < StepsLeft[tasks[t].pc]
          \/ At(t, "hold_sleep") /\ tasks[t].outcome = "Unavailable" /\ ~IsCanceled(t)
<1>1. SpoolInit => HoldOutcome
  BY DEF SpoolInit, HoldOutcome
<1>2. SpoolBase /\ HoldOutcome /\ [SpoolNext]_spoolVars => HoldOutcome'
  <2> SUFFICES ASSUME HoldOutcome, UNCHANGED spoolVars
               PROVE  HoldOutcome'
    BY HoldOutcomeStep
  <2> QED
    BY DEF spoolVars, HoldOutcome
<1>3. SpoolBase /\ HoldOutcome /\ [SpoolNext]_spoolVars => [Advance]_spoolVars
  BY OnlyHoldsRepeatStep
<1> QED
  BY <1>1, <1>2, <1>3, SpoolBaseInvariant, PTL DEF SpoolSpec, OnlyHoldsRepeat

-----------------------------------------------------------------------------
(***************************************************************************)
(* The spooler and the registry.  Handlers and workers reach the records   *)
(* only through the methods of the registry, so that what holds of the     *)
(* registry under any calls holds in the spooler.                          *)
(***************************************************************************)

LEMMA StepIsRegistryCall == SpoolBase /\ [SpoolNext]_spoolVars => [JobNext]_jobVars
<1> SUFFICES ASSUME SpoolBase, [SpoolNext]_spoolVars
             PROVE  [JobNext]_jobVars
  OBVIOUS
<1>1. CASE UNCHANGED jobVars
  BY <1>1
<1>2. ASSUME NEW t, Worker(t)
      PROVE  [JobNext]_jobVars
  <2>1. t \in DOMAIN tasks
    BY <1>2, NextLabel
  <2>2. tasks[t] \in Task /\ tasks[t].job \in DOMAIN jobs
    BY <2>1, JobOfTask
  <2>3. jobs[tasks[t].job] \in JobRecord
    BY <2>2, ElementOfSeq, LenProperties DEF SpoolBase, SpoolTypeOK, JobTypeOK
  <2>4. IdOf(t) \in JobId /\ tasks[t].why \in SUBSET Reason
    BY <2>2, <2>3 DEF IdOf, JobRecord, Task
  <2> QED
    BY <1>1, <1>2, <2>4
       DEF Worker, BecomeProcessing, MarkProcessing, CheckCanceled, Attempt, PublishReasons,
           ReturnToIdle, CheckCompletion, Complete, Fail, Hold, Wake, CheckFinalCancel,
           ClearReasons, FinalCancel, Persist, JobNext, jobVars
<1>3. CASE Handler
  <2>1. \A id \in 1 .. MaxJobs : id \in JobId
    BY NoWrapAssumption, MaxJobsAssumption, IdLimitAssumption DEF JobId
  <2>2. \A id \in sweep : id \in JobId
    BY DEF SpoolBase, SpoolTypeOK
  <2> QED
    BY <1>1, <1>3, <2>1, <2>2
       DEF Handler, PrintJob, CreateJob, SendDocument, CancelJob, BeginCancelMyJobs,
           CancelNextOfMine, JobNext, jobVars
<1> QED
  BY <1>1, <1>2, <1>3 DEF SpoolNext, spoolVars, jobVars

\* The spooler implements the registry's own specification: whatever handlers and
\* workers do to a job is a sequence of calls of create, set_state, set_failure and
\* cancel, each with arguments that the registry allows (server.rs, job.rs).
THEOREM SpoolerUsesRegistry == SpoolSpec => JobSpec
<1>1. SpoolInit => JobInit
  BY DEF SpoolInit
<1> QED
  BY <1>1, StepIsRegistryCall, SpoolBaseInvariant, PTL DEF SpoolSpec, JobSpec

\* What the registry guarantees under any calls, the jobs of the spooler have:
\* lookups find the job they name, a finished job has its completion time, and no
\* cancel replaces an outcome.
THEOREM SpooledJobsAreSound ==
    SpoolSpec => []IdsIdentifyJobs /\ []FinishedIsStamped /\ CancelKeepsOutcome
  BY SpoolerUsesRegistry, IdsAreSound, FinishedJobsAreStamped, CancelKeepsOutcomes, PTL

-----------------------------------------------------------------------------
(***************************************************************************)
(* Cancel-My-Jobs.  Ids leave the snapshot one by one, each with the call  *)
(* that cancels its job.                                                   *)
(***************************************************************************)

SweptJobsEnd ==
    \A i \in DOMAIN jobs :
        jobs[i].id \in sweep /\ jobs[i].id \notin sweep' => jobs'[i].state \in Terminal

LEMMA SweptJobsEndStep ==
    ASSUME SpoolBase, SpoolNext
    PROVE  SweptJobsEnd
<1> SUFFICES ASSUME NEW i \in DOMAIN jobs, jobs[i].id \in sweep, jobs[i].id \notin sweep'
             PROVE  jobs'[i].state \in Terminal
  BY DEF SweptJobsEnd
<1>1. CancelNextOfMine
  <2>1. \A t : ~Worker(t)
    BY NextLabel DEF Worker, BecomeProcessing, MarkProcessing, CheckCanceled, Attempt,
                     PublishReasons, ReturnToIdle, CheckCompletion, Complete, Fail, Hold, Wake,
                     CheckFinalCancel, ClearReasons, FinalCancel, Persist
  <2> QED
    BY <2>1 DEF SpoolNext, Handler, PrintJob, CreateJob, SendDocument, CancelJob,
                BeginCancelMyJobs
<1>2. Cancel(jobs[i].id)
  BY <1>1 DEF CancelNextOfMine
<1>3. jobs'[i] = CancelRecord(jobs[i])
  BY <1>2, CancelJobEffect DEF SpoolBase
<1>4. jobs[i] \in JobRecord
  BY ElementOfSeq, LenProperties DEF SpoolBase, SpoolTypeOK, JobTypeOK
<1> QED
  BY <1>3, <1>4 DEF CancelRecord, JobRecord, Terminal

\* A job leaves the snapshot of Cancel-My-Jobs only when it is in a terminal state,
\* whatever other handlers and workers did between two calls of cancel: the safety
\* half of SweepReachesEveryJob (the loop over jobs_for_printer in server.rs).
THEOREM SweptJobsAreCanceled == SpoolSpec => [][SweptJobsEnd]_spoolVars
<1>1. SpoolBase /\ [SpoolNext]_spoolVars => [SweptJobsEnd]_spoolVars
  BY SweptJobsEndStep
<1> QED
  BY <1>1, SpoolBaseInvariant, PTL DEF SpoolSpec

=============================================================================
