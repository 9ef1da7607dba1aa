------------------------ MODULE SpoolPromise_proofs -------------------------
(***************************************************************************)
(* The spooler implements SpoolPromise, step by step.                      *)
(*                                                                         *)
(* Two facts carry the argument: a job no worker is busy with rests in     *)
(* Pending or in a terminal state (NoStrandedJob), and a worker past its   *)
(* first two steps has taken its job out of Pending for good (Touched).    *)
(***************************************************************************)
EXTENDS PrintSpooler_proofs

\* A worker that has marked its job never finds it Pending again.
Touched ==
    \A t \in DOMAIN tasks :
        tasks[t].pc \notin {"start", "mark"} => jobs[tasks[t].job].state # "Pending"

PromiseInv == SpoolBase /\ NoStrandedJob /\ Touched

LEMMA TouchedStep ==
    ASSUME SpoolBase, Touched, SpoolNext
    PROVE  Touched'
<1>1. JobsKept /\ TasksKept
  BY StepKeepsJobs, StepKeepsTasks
<1> SUFFICES ASSUME NEW t \in DOMAIN tasks', tasks'[t].pc \notin {"start", "mark"},
                    jobs'[tasks'[t].job].state = "Pending"
             PROVE  FALSE
  BY DEF Touched
<1>2. t \in DOMAIN tasks /\ tasks'[t].job = tasks[t].job
  BY <1>1, NewTask DEF TasksKept
<1> DEFINE i == tasks[t].job
<1>3. i \in DOMAIN jobs /\ i \in DOMAIN jobs'
  BY <1>1, <1>2, JobOfTask DEF JobsKept
<1>4. jobs'[i].state = "Pending"
  BY <1>2
<1>5. jobs'[i] = jobs[i]
  BY <1>3, <1>4, JobRecordStep
<1>6. tasks[t].pc \in {"start", "mark"}
  BY <1>2, <1>4, <1>5 DEF Touched
<1>7. MarkProcessing(t)
  BY <1>2, <1>6, OnlyItsOwnSteps, NextLabel
<1>8. jobs'[i] = StateRecord(jobs[i], "Processing")
  <2>1. SetState(jobs[i].id, "Processing") /\ "Processing" \in JobState
    BY <1>2, <1>7, JobOfTask DEF MarkProcessing, JobState
  <2> QED
    BY <1>3, <2>1, SetStateEffect DEF SpoolBase
<1>9. jobs[i] \in JobRecord
  BY <1>3, ElementOfSeq, LenProperties DEF SpoolBase, SpoolTypeOK, JobTypeOK
<1> QED
  BY <1>4, <1>8, <1>9 DEF StateRecord, JobRecord

LEMMA PromiseInvInvariant == SpoolSpec => []PromiseInv
<1>1. SpoolInit => Touched
  BY DEF SpoolInit, Touched
<1>2. SpoolBase /\ Touched /\ [SpoolNext]_spoolVars => Touched'
  <2> SUFFICES ASSUME Touched, UNCHANGED spoolVars
               PROVE  Touched'
    BY TouchedStep
  <2> QED
    BY DEF spoolVars, Touched
<1> QED
  BY <1>1, <1>2, SpoolBaseInvariant, JobIsSettled, PTL DEF SpoolSpec, PromiseInv

-----------------------------------------------------------------------------
(***************************************************************************)
(* Jobs at rest, and what a step does to them.                             *)
(***************************************************************************)

\* A worker is busy until it is past its last write to its job.
LEMMA BusyLabels ==
    ASSUME NEW t \in DOMAIN tasks
    PROVE  /\ WillSettleJob(t) => Busy(t)
           /\ tasks[t].pc \in {"start", "mark"} => Busy(t)
           /\ tasks[t].pc \in {"done_state", "fail_state", "hold_state"} => Busy(t)
  BY DEF WillSettleJob, Busy

\* A job at rest waits for a document or is over.
LEMMA AtRest ==
    ASSUME PromiseInv, NEW i \in DOMAIN jobs, ~Working(i)
    PROVE  jobs[i].state \in {"Pending"} \cup Terminal
<1>1. jobs[i] \in JobRecord
  BY ElementOfSeq, LenProperties DEF PromiseInv, SpoolBase, SpoolTypeOK, JobTypeOK
<1>2. jobs[i].state \notin {"Processing", "ProcessingStopped"}
  BY BusyLabels DEF PromiseInv, NoStrandedJob, Working
<1> QED
  BY <1>1, <1>2 DEF JobRecord, JobState, Terminal

\* A job that is no longer worked on is over.
LEMMA WorkSettles ==
    ASSUME PromiseInv, PromiseInv', SpoolNext, NEW i \in DOMAIN jobs,
           Working(i), ~Working(i)'
    PROVE  jobs'[i].state \in Terminal
<1>1. JobsKept /\ TasksKept
  BY StepKeepsJobs, StepKeepsTasks DEF PromiseInv
<1>2. PICK t \in DOMAIN tasks : tasks[t].job = i /\ Busy(t)
  BY DEF Working
<1>3. t \in DOMAIN tasks' /\ tasks'[t].job = i
  BY <1>1, <1>2 DEF TasksKept
<1>4. ~Busy(t)'
  BY <1>3 DEF Working
<1>5. tasks'[t].pc \notin {"start", "mark"}
  BY <1>4 DEF Busy
<1>6. jobs'[i].state # "Pending"
  BY <1>3, <1>5 DEF PromiseInv, Touched
<1>7. i \in DOMAIN jobs'
  BY <1>1 DEF JobsKept
<1>8. jobs'[i] \in JobRecord
  BY <1>1, <1>7, ElementOfSeq, LenProperties DEF JobsKept
<1>9. jobs'[i].state \notin {"Processing", "ProcessingStopped"}
  BY <1>7 DEF PromiseInv, NoStrandedJob, Working, WillSettleJob, Busy
<1> QED
  BY <1>6, <1>8, <1>9 DEF JobRecord, JobState, Terminal

\* A job at rest before and after a step is unchanged, or was withdrawn.
LEMMA RestStays ==
    ASSUME PromiseInv, SpoolNext, NEW i \in DOMAIN jobs, ~Working(i)
    PROVE  \/ jobs'[i].state = jobs[i].state
           \/ jobs[i].state = "Pending" /\ jobs'[i].state = "Canceled"
<1>1. SpoolBase /\ i \in DOMAIN jobs'
  BY StepKeepsJobs DEF PromiseInv, JobsKept
<1>2. ASSUME NEW t \in DOMAIN tasks, tasks[t].job = i,
             MarkProcessing(t) \/ Hold(t) \/ Complete(t) \/ Fail(t)
      PROVE  FALSE
  <2>1. tasks[t].pc \in {"mark", "hold_state", "done_state", "fail_state"}
    BY <1>2 DEF MarkProcessing, Hold, Complete, Fail, Goto, At
  <2> QED
    BY <1>2, <2>1, BusyLabels DEF Working
<1> QED
  BY <1>1, <1>2, JobRecordStep, AtRest

\* A worker touches its own job and its own record (spawn_print_worker).
LEMMA WorkerFocus ==
    ASSUME SpoolBase, NEW t, Worker(t)
    PROVE  /\ t \in DOMAIN tasks
           /\ DOMAIN tasks' = DOMAIN tasks
           /\ \A u \in DOMAIN tasks : u # t => tasks'[u] = tasks[u]
           /\ DOMAIN jobs' = DOMAIN jobs
           /\ \A j \in DOMAIN jobs : j # tasks[t].job => jobs'[j] = jobs[j]
<1>1. /\ t \in DOMAIN tasks
      /\ DOMAIN tasks' = DOMAIN tasks
      /\ \A u \in DOMAIN tasks : u # t => tasks'[u] = tasks[u]
  BY WorkerMoves, GotoEffect, AttemptEffect DEF SpoolBase
<1>2. CASE jobs' = jobs
  BY <1>1, <1>2
<1> DEFINE i == tasks[t].job
<1>3. i \in DOMAIN jobs /\ IdOf(t) = jobs[i].id /\ tasks[t] \in Task
  BY <1>1, JobOfTask
<1>4. ASSUME NEW s \in JobState, SetState(IdOf(t), s)
      PROVE  DOMAIN jobs' = DOMAIN jobs /\ \A j \in DOMAIN jobs : j # i => jobs'[j] = jobs[j]
  BY <1>3, <1>4, SetStateEffect DEF SpoolBase
<1>5. ASSUME NEW why \in SUBSET Reason, SetFailure(IdOf(t), why)
      PROVE  DOMAIN jobs' = DOMAIN jobs /\ \A j \in DOMAIN jobs : j # i => jobs'[j] = jobs[j]
  BY <1>3, <1>5, SetFailureEffect DEF SpoolBase
<1>6. CASE Cancel(IdOf(t))
  BY <1>1, <1>3, <1>6, CancelJobEffect DEF SpoolBase
<1>7. tasks[t].why \in SUBSET Reason
  BY <1>3 DEF Task
<1>8. CASE MarkProcessing(t) \/ Complete(t) \/ Hold(t)
  BY <1>1, <1>4, <1>8 DEF MarkProcessing, Complete, Hold, JobState
<1>9. CASE Fail(t)
  BY <1>1, <1>5, <1>7, <1>9 DEF Fail
<1>10. CASE FinalCancel(t)
  BY <1>6, <1>10 DEF FinalCancel
<1> QED
  BY <1>2, <1>8, <1>9, <1>10
     DEF Worker, BecomeProcessing, CheckCanceled, Attempt, PublishReasons, ReturnToIdle,
         CheckCompletion, Wake, CheckFinalCancel, ClearReasons, Persist

\* What the client sees of a job depends on its record and on its workers.
LEMMA SameView ==
    ASSUME SpoolBase, NEW j \in DOMAIN jobs, jobs'[j] = jobs[j],
           \A t \in DOMAIN tasks : tasks[t].job = j => tasks'[t] = tasks[t],
           \A t \in DOMAIN tasks' : tasks'[t].job = j => t \in DOMAIN tasks /\ tasks[t].job = j,
           DOMAIN tasks \subseteq DOMAIN tasks'
    PROVE  jobs'[j].state = jobs[j].state /\ (Working(j)' <=> Working(j))
<1>1. ASSUME NEW t \in DOMAIN tasks, tasks[t].job = j
      PROVE  Busy(t)' <=> Busy(t)
  BY <1>1 DEF Busy, IsCanceled
<1> QED
  BY <1>1 DEF Working

\* A new worker is after the others, and for the job it was spawned for.
LEMMA SpawnedFor ==
    ASSUME SpoolBase, NEW i \in Nat, NEW p \in Printer, Spawn(i, p)
    PROVE  /\ DOMAIN tasks' = DOMAIN tasks \cup {Len(tasks) + 1}
           /\ Len(tasks) + 1 \notin DOMAIN tasks
           /\ tasks'[Len(tasks) + 1].job = i
           /\ tasks'[Len(tasks) + 1].pc = "start"
           /\ \A u \in DOMAIN tasks : tasks'[u] = tasks[u]
<1>1. SpoolTypeOK
  BY DEF SpoolBase
<1>2. tasks'[Len(tasks) + 1] = [pc |-> "start", job |-> i, printer |-> p,
                                outcome |-> "None", why |-> {}]
  BY <1>1, SpawnEffect
<1>3. /\ DOMAIN tasks' = DOMAIN tasks \cup {Len(tasks) + 1}
      /\ Len(tasks) + 1 \notin DOMAIN tasks
      /\ \A u \in DOMAIN tasks : tasks'[u] = tasks[u]
  BY <1>1, SpawnEffect
<1> QED
  BY <1>2, <1>3

\* Every step of the spooler on the jobs it already has concerns one of them.
LEMMA OneJob ==
    ASSUME SpoolBase, SpoolNext
    PROVE  \/ \E p \in Printer : PrintJob(p) \/ CreateJob(p)
           \/ /\ DOMAIN jobs' = DOMAIN jobs
              /\ \E i : \A j \in DOMAIN jobs : j # i =>
                    jobs'[j].state = jobs[j].state /\ (Working(j)' <=> Working(j))
<1>1. JobsKept /\ TasksKept
  BY StepKeepsJobs, StepKeepsTasks
<1> DEFINE Focus(i) == \A j \in DOMAIN jobs : j # i =>
                           jobs'[j].state = jobs[j].state /\ (Working(j)' <=> Working(j))
           Goal == DOMAIN jobs' = DOMAIN jobs /\ \E i : Focus(i)
<1>2. ASSUME NEW t, Worker(t)
      PROVE  Goal
  <2>1. /\ t \in DOMAIN tasks
        /\ DOMAIN tasks' = DOMAIN tasks
        /\ \A u \in DOMAIN tasks : u # t => tasks'[u] = tasks[u]
        /\ DOMAIN jobs' = DOMAIN jobs
        /\ \A j \in DOMAIN jobs : j # tasks[t].job => jobs'[j] = jobs[j]
    BY <1>2, WorkerFocus
  <2>2. \A u \in DOMAIN tasks : tasks'[u].job = tasks[u].job
    BY <1>1 DEF TasksKept
  <2>3. Focus(tasks[t].job)
    BY <2>1, <2>2, SameView
  <2> QED
    BY <2>1, <2>3
<1>3. ASSUME NEW i \in DOMAIN jobs, NEW p \in Printer, Spawn(i, p), jobs' = jobs
      PROVE  Goal
  <2>1. i \in Nat
    BY LenProperties DEF SpoolBase, SpoolTypeOK, JobTypeOK
  <2>2. /\ DOMAIN tasks' = DOMAIN tasks \cup {Len(tasks) + 1}
        /\ tasks'[Len(tasks) + 1].job = i
        /\ \A u \in DOMAIN tasks : tasks'[u] = tasks[u]
    BY <1>3, <2>1, SpawnedFor
  <2>3. Focus(i)
    BY <1>3, <2>2, SameView
  <2> QED
    BY <1>3, <2>3
<1>4. ASSUME NEW id, Cancel(id), tasks' = tasks
      PROVE  Goal
  <2>1. CASE jobs' = jobs
    <3>1. Focus(0)
      BY <1>4, <2>1, SameView
    <3> QED
      BY <2>1, <3>1
  <2>2. ASSUME NEW i \in DOMAIN jobs, DOMAIN jobs' = DOMAIN jobs,
               \A j \in DOMAIN jobs : j # i => jobs'[j] = jobs[j]
        PROVE  Goal
    <3>1. Focus(i)
      BY <1>4, <2>2, SameView
    <3> QED
      BY <2>2, <3>1
  <2> QED
    BY <1>4, <2>1, <2>2, CancelEffect DEF SpoolBase
<1>5. CASE jobs' = jobs /\ tasks' = tasks
  <2>1. Focus(0)
    BY <1>5, SameView
  <2> QED
    BY <1>5, <2>1
<1>6. CASE Handler
  <2>1. CASE \E p \in Printer : PrintJob(p) \/ CreateJob(p)
    BY <2>1
  <2>2. ASSUME NEW p \in Printer, NEW id \in 1 .. MaxJobs, SendDocument(p, id)
        PROVE  Goal
    BY <1>3, <2>2 DEF SendDocument, Find
  <2>3. CASE \E id \in 1 .. MaxJobs : CancelJob(id)
    BY <1>4, <2>3 DEF CancelJob
  <2>4. CASE CancelNextOfMine
    BY <1>4, <2>4 DEF CancelNextOfMine
  <2>5. CASE \E p \in Printer : BeginCancelMyJobs(p)
    BY <1>5, <2>5 DEF BeginCancelMyJobs
  <2> QED
    BY <1>6, <2>1, <2>2, <2>3, <2>4, <2>5 DEF Handler
<1> QED
  BY <1>2, <1>6 DEF SpoolNext

-----------------------------------------------------------------------------
(***************************************************************************)
(* The refinement.                                                         *)
(***************************************************************************)

Seen == JobState \cup {"Working"}

\* A function on 1 .. n is a sequence of length n.
LEMMA FunctionIsSeq ==
    ASSUME NEW S, NEW n \in Nat, NEW f \in [1 .. n -> S]
    PROVE  f \in Seq(S) /\ Len(f) = n
<1>1. f \in Seq(S)
  BY SeqDef
<1>2. DOMAIN f = 1 .. n
  OBVIOUS
<1>3. PICK m \in Nat : m = Len(f) /\ 1 .. m = 1 .. n
  BY <1>1, <1>2, LenProperties
<1>4. ASSUME NEW a \in Nat, NEW b \in Nat, 1 .. a = 1 .. b, ~(a <= b)
      PROVE  FALSE
  <2>1. a \in 1 .. a
    BY <1>4
  <2> QED
    BY <1>4, <2>1
<1>5. m <= n /\ n <= m
  BY <1>3, <1>4
<1> QED
  BY <1>1, <1>3, <1>5

\* The view is a sequence as long as the registry.
LEMMA ViewShape ==
    ASSUME SpoolTypeOK
    PROVE  /\ JobView \in Seq(Seen)
           /\ Len(JobView) = Len(jobs)
           /\ DOMAIN JobView = DOMAIN jobs
           /\ \A i \in DOMAIN jobs :
                 JobView[i] = IF Working(i) THEN "Working" ELSE jobs[i].state
<1>1. DOMAIN jobs = 1 .. Len(jobs) /\ Len(jobs) \in Nat
  BY LenProperties DEF SpoolTypeOK, JobTypeOK
<1>2. \A i \in DOMAIN jobs : jobs[i] \in JobRecord
  BY ElementOfSeq, LenProperties DEF SpoolTypeOK, JobTypeOK
<1>3. \A i \in DOMAIN jobs : jobs[i].state \in JobState
  BY <1>2 DEF JobRecord
<1>4. JobView \in [1 .. Len(jobs) -> Seen]
  BY <1>1, <1>3 DEF JobView, Seen
<1>5. JobView \in Seq(Seen) /\ Len(JobView) = Len(jobs)
  BY <1>1, <1>4, FunctionIsSeq
<1> QED
  BY <1>5 DEF JobView

\* A step that concerns one job of the registry is a step of the promise.
LEMMA OneJobPromised ==
    ASSUME PromiseInv, PromiseInv', SpoolNext, DOMAIN jobs' = DOMAIN jobs,
           NEW i, \A j \in DOMAIN jobs : j # i =>
                      jobs'[j].state = jobs[j].state /\ (Working(j)' <=> Working(j))
    PROVE  [Promise!PromiseNext]_JobView
<1> DEFINE See(j) == IF Working(j) THEN "Working" ELSE jobs[j].state
<1>1. /\ JobView \in Seq(Seen)
      /\ DOMAIN JobView = DOMAIN jobs
      /\ \A j \in DOMAIN jobs : JobView[j] = See(j)
  BY ViewShape DEF PromiseInv, SpoolBase
<1>2. JobView' = [j \in DOMAIN jobs |-> See(j)']
  BY DEF JobView
<1>3. \A j \in DOMAIN jobs : j # i => See(j)' = See(j)
  OBVIOUS
<1>4. JobView = [j \in DOMAIN jobs |-> See(j)]
  BY DEF JobView
<1>5. CASE i \notin DOMAIN jobs \/ See(i)' = See(i)
  BY <1>2, <1>3, <1>4, <1>5
<1>6. ASSUME i \in DOMAIN jobs, NEW s, See(i)' = s
      PROVE  JobView' = [JobView EXCEPT ![i] = s]
  BY <1>2, <1>3, <1>4, <1>6
<1>7. ASSUME i \in DOMAIN jobs
      PROVE  i \in 1 .. MaxJobs
  BY <1>7, LenProperties, MaxJobsAssumption
     DEF PromiseInv, SpoolBase, SpoolTypeOK, JobTypeOK, JobIds
<1>8. CASE i \in DOMAIN jobs /\ Working(i) /\ ~Working(i)'
  <2>1. See(i)' \in Promise!Rest /\ See(i) = "Working"
    BY <1>8, WorkSettles DEF Terminal, Promise!Rest
  <2>2. Promise!Settle(i)
    BY <1>1, <1>6, <1>8, <2>1 DEF Promise!Settle
  <2> QED
    BY <1>7, <1>8, <2>2 DEF Promise!PromiseNext
<1>9. CASE i \in DOMAIN jobs /\ ~Working(i) /\ Working(i)'
  <2>1. See(i)' = "Working" /\ See(i) # "Working"
    BY <1>9, AtRest DEF Terminal
  <2>2. Promise!Receive(i)
    BY <1>1, <1>6, <1>9, <2>1 DEF Promise!Receive
  <2> QED
    BY <1>7, <1>9, <2>2 DEF Promise!PromiseNext
<1>10. CASE i \in DOMAIN jobs /\ ~Working(i) /\ ~Working(i)'
  <2>1. See(i) = jobs[i].state /\ See(i)' = jobs'[i].state
    BY <1>10
  <2>2. CASE jobs'[i].state = jobs[i].state
    BY <1>5, <2>1, <2>2
  <2>3. CASE jobs[i].state = "Pending" /\ jobs'[i].state = "Canceled"
    <3>1. Promise!Withdraw(i)
      BY <1>1, <1>6, <1>10, <2>1, <2>3 DEF Promise!Withdraw
    <3> QED
      BY <1>7, <1>10, <3>1 DEF Promise!PromiseNext
  <2> QED
    BY <1>10, <2>2, <2>3, RestStays
<1>11. CASE i \in DOMAIN jobs /\ Working(i) /\ Working(i)'
  BY <1>5, <1>11
<1> QED
  BY <1>5, <1>8, <1>9, <1>10, <1>11

\* A new job is submitted, waiting for its document or with it.
LEMMA NewJobPromised ==
    ASSUME PromiseInv, PromiseInv', NEW p \in Printer, PrintJob(p) \/ CreateJob(p)
    PROVE  Promise!Submit
<1>0. PICK n : n = Len(jobs) + 1
  OBVIOUS
<1> DEFINE See(j) == IF Working(j) THEN "Working" ELSE jobs[j].state
<1>1. SpoolBase /\ SpoolTypeOK /\ SpoolTypeOK' /\ JobIds
  BY DEF PromiseInv, SpoolBase
<1>2. /\ DOMAIN jobs' = DOMAIN jobs \cup {n}
      /\ n \notin DOMAIN jobs
      /\ Len(jobs') = n
      /\ \A j \in DOMAIN jobs : jobs'[j] = jobs[j]
  BY <1>0, <1>1, CreateEffect DEF PrintJob, CreateJob
<1>3. jobs'[n].state = "Pending"
  <2>1. jobs'[n] = [id |-> n, printer |-> p, state |-> "Pending",
                    reasons |-> {}, completed |-> FALSE, canceled |-> FALSE]
    BY <1>0, <1>1, CreateEffect DEF PrintJob, CreateJob
  <2> QED
    BY <2>1
<1>4. n \in Nat /\ \A t \in DOMAIN tasks : tasks[t].job \in DOMAIN jobs
  BY <1>0, <1>1, LenProperties DEF SpoolTypeOK, JobTypeOK, SpoolBase, TaskJobs
<1>5. \A j \in DOMAIN jobs : See(j)' = See(j)
  <2>1. CASE tasks' = tasks
    BY <1>1, <1>2, <2>1, SameView
  <2>2. CASE Spawn(n, p)
    <3>1. /\ DOMAIN tasks' = DOMAIN tasks \cup {Len(tasks) + 1}
          /\ tasks'[Len(tasks) + 1].job = n
          /\ \A u \in DOMAIN tasks : tasks'[u] = tasks[u]
      BY <1>1, <1>4, <2>2, SpawnedFor
    <3>2. \A j \in DOMAIN jobs : jobs'[j].state = jobs[j].state /\ (Working(j)' <=> Working(j))
      BY <1>1, <1>2, <3>1, SameView
    <3> QED
      BY <3>2
  <2> QED
    BY <1>0, <2>1, <2>2 DEF PrintJob, CreateJob
<1>6. See(n)' \in {"Pending", "Working"}
  BY <1>3
<1>7. /\ JobView \in Seq(Seen)
      /\ Len(JobView) = Len(jobs)
      /\ DOMAIN JobView = DOMAIN jobs
      /\ \A j \in DOMAIN jobs : JobView[j] = See(j)
  BY <1>1, ViewShape
<1>8. /\ JobView' \in Seq(Seen)
      /\ Len(JobView') = n
      /\ \A j \in DOMAIN jobs' : JobView'[j] = See(j)'
  <2>1. JobView' = [j \in DOMAIN jobs' |-> See(j)']
    BY DEF JobView
  <2>2. \A j \in DOMAIN jobs' : See(j)' \in Seen
    <3>1. \A j \in DOMAIN jobs : See(j) \in Seen
      <4>1. \A j \in DOMAIN jobs : jobs[j] \in JobRecord
        BY <1>1, ElementOfSeq, LenProperties DEF SpoolTypeOK, JobTypeOK
      <4> QED
        BY <4>1 DEF JobRecord, Seen
    <3> QED
      BY <1>2, <1>5, <1>6, <3>1 DEF Seen, JobState
  <2>3. DOMAIN jobs' = 1 .. n
    BY <1>1, <1>2, LenProperties DEF SpoolTypeOK, JobTypeOK
  <2>4. JobView' \in [1 .. n -> Seen]
    BY <2>1, <2>2, <2>3
  <2> QED
    BY <1>4, <2>1, <2>4, FunctionIsSeq
<1>9. JobView' = Append(JobView, See(n)')
  <2> DEFINE s == See(n)'
             new == Append(JobView, s)
  <2>1. s \in Seen
    BY <1>6 DEF Seen, JobState
  <2>2. /\ new \in Seq(Seen)
        /\ Len(new) = n
        /\ new[n] = s
        /\ DOMAIN new = DOMAIN jobs'
        /\ \A j \in DOMAIN jobs : new[j] = JobView[j]
    <3> HIDE DEF s, See
    <3> QED
      BY <1>0, <1>2, <1>7, <2>1, SeqPush
  <2>3. \A j \in DOMAIN jobs' : JobView'[j] = new[j]
    <3> HIDE DEF new, See
    <3>1. \A j \in DOMAIN jobs : JobView'[j] = new[j]
      BY <1>2, <1>5, <1>7, <1>8, <2>2
    <3>2. JobView'[n] = new[n]
      BY <1>2, <1>8, <2>2
    <3> QED
      BY <1>2, <3>1, <3>2
  <2>4. DOMAIN new = 1 .. n
    BY <2>2, LenProperties
  <2>5. JobView' = new
    <3> HIDE DEF new, See
    <3>1. DOMAIN jobs' = 1 .. n /\ Len(JobView') = n /\ Len(new) = n
      BY <1>8, <2>2, <2>4
    <3> QED
      BY <1>8, <2>2, <2>3, <3>1, SeqEqual
  <2> QED
    BY <2>5
<1> QED
  BY <1>6, <1>9 DEF Promise!Submit

\* Without jobs there is nothing to see.
LEMMA ViewInit == SpoolInit => Promise!PromiseInit
<1> SUFFICES ASSUME SpoolInit
             PROVE  JobView = <<>>
  BY DEF Promise!PromiseInit
<1>1. SpoolTypeOK /\ jobs = <<>>
  BY BaseInit DEF SpoolInit, JobInit, SpoolBase
<1>2. JobView \in Seq(Seen) /\ Len(JobView) = 0
  BY <1>1, ViewShape
<1> QED
  BY <1>2, EmptySeq, SeqEqual

\* A step of the spooler is a step of the promise, or changes nothing that it sees.
LEMMA PromiseStep ==
    PromiseInv /\ PromiseInv' /\ [SpoolNext]_spoolVars => [Promise!PromiseNext]_JobView
<1> SUFFICES ASSUME PromiseInv, PromiseInv', [SpoolNext]_spoolVars
             PROVE  [Promise!PromiseNext]_JobView
  OBVIOUS
<1>1. CASE UNCHANGED spoolVars
  BY <1>1 DEF spoolVars, JobView, Working, Busy, IsCanceled
<1>2. CASE \E p \in Printer : PrintJob(p) \/ CreateJob(p)
  BY <1>2, NewJobPromised DEF Promise!PromiseNext
<1>3. ASSUME SpoolNext, ~\E p \in Printer : PrintJob(p) \/ CreateJob(p)
      PROVE  [Promise!PromiseNext]_JobView
  <2>1. PICK i : \A j \in DOMAIN jobs : j # i =>
                    jobs'[j].state = jobs[j].state /\ (Working(j)' <=> Working(j))
    BY <1>3, OneJob DEF PromiseInv
  <2>2. DOMAIN jobs' = DOMAIN jobs
    BY <1>3, OneJob DEF PromiseInv
  <2> QED
    BY <1>3, <2>1, <2>2, OneJobPromised
<1> QED
  BY <1>1, <1>2, <1>3

\* The spooler implements the promise, for any number of printers, jobs, workers
\* and documents: whatever the interleaving, a job leaves the hands of its
\* workers only for Completed, Aborted or Canceled, and at rest it changes only
\* by a withdrawal or a document (handle_ipp, spawn_print_worker).
THEOREM SpoolerImplementsPromise == SpoolSpec => ImplementsPromise
  BY ViewInit, PromiseStep, PromiseInvInvariant, PTL
     DEF SpoolSpec, ImplementsPromise, Promise!PromiseSafety

-----------------------------------------------------------------------------
(***************************************************************************)
(* Canceled jobs.  A cancel takes a job out of Pending, to which it never  *)
(* returns; so a canceled job is over, or a worker is on its way to end it.*)
(***************************************************************************)

CanceledIsNotPending == \A i \in DOMAIN jobs : jobs[i].canceled => jobs[i].state # "Pending"

LEMMA CanceledIsNotPendingStep ==
    ASSUME PromiseInv, CanceledIsNotPending, SpoolNext
    PROVE  CanceledIsNotPending'
<1>1. SpoolBase /\ SpoolTypeOK /\ JobIds
  BY DEF PromiseInv, SpoolBase
<1> SUFFICES ASSUME NEW i \in DOMAIN jobs', jobs'[i].canceled, jobs'[i].state = "Pending"
             PROVE  FALSE
  BY DEF CanceledIsNotPending
<1>2. CASE i \in DOMAIN jobs
  <2>1. jobs'[i] = jobs[i]
    BY <1>1, <1>2, JobRecordStep
  <2> QED
    BY <1>2, <2>1 DEF CanceledIsNotPending
<1>3. CASE i \notin DOMAIN jobs
  <2>1. PICK p \in Printer : Create(p)
    BY <1>1, <1>3, OneJob DEF PrintJob, CreateJob
  <2>2. /\ DOMAIN jobs' = DOMAIN jobs \cup {Len(jobs) + 1}
        /\ jobs'[Len(jobs) + 1] = [id |-> Len(jobs) + 1, printer |-> p, state |-> "Pending",
                                   reasons |-> {}, completed |-> FALSE, canceled |-> FALSE]
    BY <1>1, <2>1, CreateEffect
  <2> QED
    BY <1>3, <2>2
<1> QED
  BY <1>2, <1>3

\* A canceled job is in a terminal state or has a worker that is busy with it,
\* whatever state the worker has overwritten the cancel with meanwhile; with
\* OnlyHoldsAreRepeated, by which each of its workers has at most thirteen steps
\* left, this is the safety half of CancelBringsToRest (spawn_print_worker, cancel).
THEOREM CanceledJobsRest ==
    SpoolSpec => [](\A i \in DOMAIN jobs :
                       jobs[i].canceled => jobs[i].state \in Terminal \/ Working(i))
<1>1. SpoolInit => CanceledIsNotPending
  BY DEF SpoolInit, JobInit, CanceledIsNotPending
<1>2. PromiseInv /\ CanceledIsNotPending /\ [SpoolNext]_spoolVars => CanceledIsNotPending'
  <2> SUFFICES ASSUME CanceledIsNotPending, UNCHANGED spoolVars
               PROVE  CanceledIsNotPending'
    BY CanceledIsNotPendingStep
  <2> QED
    BY DEF spoolVars, CanceledIsNotPending
<1>3. PromiseInv /\ CanceledIsNotPending =>
          \A i \in DOMAIN jobs : jobs[i].canceled => jobs[i].state \in Terminal \/ Working(i)
  BY AtRest DEF CanceledIsNotPending
<1> QED
  BY <1>1, <1>2, <1>3, PromiseInvInvariant, PTL DEF SpoolSpec

=============================================================================
