---------------------------- MODULE JobRegistry -----------------------------
(***************************************************************************)
(* The job registry (job.rs): a vector of job records behind one lock, and *)
(* the next job-id.  Every method holds the lock from its first read to    *)
(* its last write, so each one is a single action.                         *)
(*                                                                         *)
(* Abstractions.  The clock is left out: `completed' says that the record  *)
(* carries a completed_at stamp.  `canceled' is the cancel flag that the   *)
(* record shares with its print worker.  Owner, message and creation time  *)
(* are read by queries only.  Records are never removed.                   *)
(***************************************************************************)
EXTENDS IppTypes, Sequences

CONSTANT MaxJobs    \* bound: jobs created in a behaviour

ASSUME MaxJobsAssumption == MaxJobs \in Nat

VARIABLES
    jobs,       \* Inner.jobs, in allocation order
    nextId      \* Inner.next_id

jobVars == <<jobs, nextId>>

JobId == 0 .. IdLimit - 1

JobRecord == [id : JobId, printer : Printer, state : JobState,
              reasons : SUBSET Reason, completed : BOOLEAN, canceled : BOOLEAN]

JobTypeOK == jobs \in Seq(JobRecord) /\ nextId \in JobId

JobInit == jobs = <<>> /\ nextId = 1

-----------------------------------------------------------------------------

\* A fault: the counter does not wrap.
UnboundedAdd(id) == id + 1

WrappingAdd(id) == IF id = IdLimit - 1 THEN 0 ELSE id + 1

\* A fault: the guard that keeps 0 out of the ids is lost.
NextIdFromZero(id) == WrappingAdd(id)

\* wrapping_add(1).max(1)
NextId(id) == IF WrappingAdd(id) = 0 THEN 1 ELSE WrappingAdd(id)

\* The positions `iter().find(|j| j.id == id)' can return: the first, or none.
Find(id) == {i \in DOMAIN jobs : /\ jobs[i].id = id
                                 /\ \A k \in DOMAIN jobs : jobs[k].id = id => i <= k}

Create(p) ==
    /\ Len(jobs) < MaxJobs
    /\ jobs' = Append(jobs, [id |-> nextId, printer |-> p, state |-> "Pending",
                             reasons |-> {}, completed |-> FALSE, canceled |-> FALSE])
    /\ nextId' = NextId(nextId)

\* A fault: a finished job can still be canceled.
CancelRecordUnguarded(rec) ==
    [rec EXCEPT !.canceled = TRUE, !.state = "Canceled", !.completed = TRUE]

CancelRecord(rec) ==
    IF rec.state \in Terminal
      THEN rec
      ELSE [rec EXCEPT !.canceled = TRUE, !.state = "Canceled", !.completed = TRUE]

\* A fault: reaching a terminal state does not stamp completed_at.
StateRecordUnstamped(rec, s) == [rec EXCEPT !.state = s]

StateRecord(rec, s) ==
    [rec EXCEPT !.state = s, !.completed = @ \/ s \in Terminal]

FailureRecord(rec, why) ==
    [rec EXCEPT !.state = "Aborted", !.reasons = why, !.completed = TRUE]

\* An unknown id is ignored by every method.
UnknownId(id) == Find(id) = {} /\ UNCHANGED jobVars

SetState(id, s) ==
    \/ UnknownId(id)
    \/ /\ \E i \in Find(id) : jobs' = [jobs EXCEPT ![i] = StateRecord(@, s)]
       /\ UNCHANGED nextId

SetFailure(id, why) ==
    \/ UnknownId(id)
    \/ /\ \E i \in Find(id) : jobs' = [jobs EXCEPT ![i] = FailureRecord(@, why)]
       /\ UNCHANGED nextId

Cancel(id) ==
    \/ UnknownId(id)
    \/ /\ \E i \in Find(id) : jobs' = [jobs EXCEPT ![i] = CancelRecord(@)]
       /\ UNCHANGED nextId

-----------------------------------------------------------------------------
(***************************************************************************)
(* The registry on its own, its methods called in any order with any       *)
(* arguments the server passes.                                            *)
(***************************************************************************)

JobNext ==
    \/ \E p \in Printer : Create(p)
    \/ \E id \in JobId, s \in {"Processing", "ProcessingStopped", "Completed"} :
            SetState(id, s)
    \/ \E id \in JobId, why \in SUBSET Reason : SetFailure(id, why)
    \/ \E id \in JobId : Cancel(id)

JobSpec == JobInit /\ [][JobNext]_jobVars

\* Until the counter wraps, the ids handed out are non-zero (IPP has no job 0)
\* and no two jobs share one, so that every lookup finds the job its id was
\* allocated for (create and get in job.rs).  Wrapping must skip 0.
IdsIdentifyJobs ==
    /\ \A i \in DOMAIN jobs : jobs[i].id # 0
    /\ Len(jobs) < IdLimit => \A i \in DOMAIN jobs : Find(jobs[i].id) = {i}

\* A finished job has a completion time (job.rs: the three methods that reach a
\* terminal state stamp completed_at, Get-Job-Attributes reports it).
FinishedIsStamped ==
    \A i \in DOMAIN jobs : jobs[i].state \in Terminal => jobs[i].completed

\* Cancel never takes a job out of Completed or Aborted (job.rs cancel,
\* "Already-terminal jobs are left alone"): the client is told the cancel was
\* not possible, and what it then reads is the outcome of its print.
CancelKeepsOutcome ==
    [][\A i \in DOMAIN jobs :
          jobs[i].state \in {"Completed", "Aborted"} => jobs'[i].state # "Canceled"]_jobVars

=============================================================================
