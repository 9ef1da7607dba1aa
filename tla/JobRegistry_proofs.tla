------------------------- MODULE JobRegistry_proofs -------------------------
(***************************************************************************)
(* The properties of the job registry, for any printers, reasons, width of *)
(* an id and number of jobs, the wrap of the counter included.             *)
(***************************************************************************)
EXTENDS JobRegistry, SequenceTheorems, TLAPS

-----------------------------------------------------------------------------
(***************************************************************************)
(* What a method does to one record, and to the counter.                   *)
(***************************************************************************)

\* Each helper returns a record.
LEMMA RecordType ==
    ASSUME NEW rec \in JobRecord, NEW s \in JobState, NEW why \in SUBSET Reason
    PROVE  /\ StateRecord(rec, s) \in JobRecord
           /\ FailureRecord(rec, why) \in JobRecord
           /\ CancelRecord(rec) \in JobRecord
BY DEF JobRecord, StateRecord, FailureRecord, CancelRecord, JobState, Terminal

\* The counter stays in its width and is never 0; until it wraps it counts.
LEMMA CounterStep ==
    ASSUME NEW id \in JobId
    PROVE  /\ NextId(id) \in JobId
           /\ NextId(id) # 0
           /\ id < IdLimit - 1 => NextId(id) = id + 1
BY IdLimitAssumption DEF NextId, WrappingAdd, JobId

-----------------------------------------------------------------------------
(***************************************************************************)
(* What a step does to the registry.                                       *)
(***************************************************************************)

\* A record that a method returns for `old'.
Written(old, new) ==
    \/ \E s \in {"Processing", "ProcessingStopped", "Completed"} : new = StateRecord(old, s)
    \/ \E why \in SUBSET Reason : new = FailureRecord(old, why)
    \/ new = CancelRecord(old)

Creates ==
    /\ \E p \in Printer :
          jobs' = Append(jobs, [id |-> nextId, printer |-> p, state |-> "Pending",
                                reasons |-> {}, completed |-> FALSE, canceled |-> FALSE])
    /\ nextId' = NextId(nextId)

Writes ==
    /\ \E i \in DOMAIN jobs, new \in JobRecord :
          Written(jobs[i], new) /\ jobs' = [jobs EXCEPT ![i] = new]
    /\ nextId' = nextId

\* A record that is written keeps its id, is stamped if it is finished, and is not
\* canceled if it was completed or aborted.
LEMMA WrittenRecord ==
    ASSUME NEW old \in JobRecord, NEW new, Written(old, new)
    PROVE  /\ new.id = old.id
           /\ (old.state \in Terminal => old.completed) => (new.state \in Terminal => new.completed)
           /\ old.state \in {"Completed", "Aborted"} => new.state # "Canceled"
<1>1. ASSUME NEW s \in {"Processing", "ProcessingStopped", "Completed"}, new = StateRecord(old, s)
      PROVE  /\ new.id = old.id
             /\ (old.state \in Terminal => old.completed) => (new.state \in Terminal => new.completed)
             /\ new.state # "Canceled"
    BY <1>1 DEF JobRecord, StateRecord, Terminal
<1>2. ASSUME NEW why \in SUBSET Reason, new = FailureRecord(old, why)
      PROVE  new.id = old.id /\ new.completed /\ new.state # "Canceled"
    BY <1>2 DEF JobRecord, FailureRecord
<1>3. ASSUME new = CancelRecord(old)
      PROVE  /\ new.id = old.id
             /\ (old.state \in Terminal => old.completed) => new.completed
             /\ old.state \in {"Completed", "Aborted"} => new.state # "Canceled"
    BY <1>3 DEF JobRecord, CancelRecord, Terminal
<1> QED BY <1>1, <1>2, <1>3 DEF Written

\* A step creates a job, writes one record, or changes nothing.
LEMMA RegistryStep ==
    ASSUME JobTypeOK, [JobNext]_jobVars
    PROVE  Creates \/ Writes \/ UNCHANGED jobVars
<1>t. ASSUME NEW i \in DOMAIN jobs PROVE jobs[i] \in JobRecord
    BY <1>t, ElementOfSeq DEF JobTypeOK
<1>1. ASSUME NEW p \in Printer, Create(p) PROVE Creates
    BY <1>1 DEF Create, Creates
<1>2. ASSUME NEW id \in JobId, NEW s \in {"Processing", "ProcessingStopped", "Completed"},
             SetState(id, s), ~UNCHANGED jobVars
      PROVE  Writes
    <2>1. PICK i \in Find(id) : jobs' = [jobs EXCEPT ![i] = StateRecord(jobs[i], s)]
        BY <1>2 DEF SetState, UnknownId
    <2>2. i \in DOMAIN jobs
        BY <2>1 DEF Find
    <2>3. StateRecord(jobs[i], s) \in JobRecord
        BY <2>2, <1>t, RecordType DEF JobState
    <2> QED BY <1>2, <2>1, <2>2, <2>3 DEF Writes, Written, SetState, UnknownId
<1>3. ASSUME NEW id \in JobId, NEW why \in SUBSET Reason, SetFailure(id, why), ~UNCHANGED jobVars
      PROVE  Writes
    <2>1. PICK i \in Find(id) : jobs' = [jobs EXCEPT ![i] = FailureRecord(jobs[i], why)]
        BY <1>3 DEF SetFailure, UnknownId
    <2>2. i \in DOMAIN jobs
        BY <2>1 DEF Find
    <2>3. FailureRecord(jobs[i], why) \in JobRecord
        BY <2>2, <1>t, RecordType DEF JobState
    <2> QED BY <1>3, <2>1, <2>2, <2>3 DEF Writes, Written, SetFailure, UnknownId
<1>4. ASSUME NEW id \in JobId, Cancel(id), ~UNCHANGED jobVars PROVE Writes
    <2>1. PICK i \in Find(id) : jobs' = [jobs EXCEPT ![i] = CancelRecord(jobs[i])]
        BY <1>4 DEF Cancel, UnknownId
    <2>2. i \in DOMAIN jobs
        BY <2>1 DEF Find
    <2>3. CancelRecord(jobs[i]) \in JobRecord
        BY <2>2, <1>t, RecordType DEF JobState
    <2> QED BY <1>4, <2>1, <2>2, <2>3 DEF Writes, Written, Cancel, UnknownId
<1> QED BY <1>1, <1>2, <1>3, <1>4 DEF JobNext

\* The records after a step of either kind.
LEMMA JobsAfterCreate ==
    ASSUME JobTypeOK, Creates
    PROVE  /\ jobs' \in Seq(JobRecord)
           /\ DOMAIN jobs' = DOMAIN jobs \cup {Len(jobs) + 1}
           /\ Len(jobs') = Len(jobs) + 1
           /\ \A i \in DOMAIN jobs : jobs'[i] = jobs[i]
           /\ jobs'[Len(jobs) + 1].id = nextId
           /\ jobs'[Len(jobs) + 1].state = "Pending"
<1>1. PICK p \in Printer :
          jobs' = Append(jobs, [id |-> nextId, printer |-> p, state |-> "Pending",
                                reasons |-> {}, completed |-> FALSE, canceled |-> FALSE])
    BY DEF Creates
<1> DEFINE rec == [id |-> nextId, printer |-> p, state |-> "Pending",
                   reasons |-> {}, completed |-> FALSE, canceled |-> FALSE]
<1>2. rec \in JobRecord
    BY DEF JobRecord, JobState, JobTypeOK
<1> HIDE DEF rec
<1>3. jobs' = Append(jobs, rec)
    BY <1>1 DEF rec
<1>4. jobs \in Seq(JobRecord)
    BY DEF JobTypeOK
<1>5. rec.id = nextId /\ rec.state = "Pending"
    BY DEF rec
<1> QED BY <1>2, <1>3, <1>4, <1>5, AppendProperties

LEMMA JobsAfterWrite ==
    ASSUME JobTypeOK, NEW i \in DOMAIN jobs, NEW new \in JobRecord,
           jobs' = [jobs EXCEPT ![i] = new]
    PROVE  /\ jobs' \in Seq(JobRecord)
           /\ DOMAIN jobs' = DOMAIN jobs
           /\ Len(jobs') = Len(jobs)
           /\ jobs'[i] = new
           /\ \A k \in DOMAIN jobs \ {i} : jobs'[k] = jobs[k]
<1>1. jobs \in Seq(JobRecord)
    BY DEF JobTypeOK
<1> QED BY <1>1, ExceptSeq

-----------------------------------------------------------------------------
(***************************************************************************)
(* Types.                                                                  *)
(***************************************************************************)

LEMMA JobTypeStep ==
    ASSUME JobTypeOK, [JobNext]_jobVars
    PROVE  JobTypeOK'
<1>1. CASE Creates
    BY <1>1, JobsAfterCreate, CounterStep DEF JobTypeOK, Creates
<1>2. CASE Writes
    BY <1>2, JobsAfterWrite DEF JobTypeOK, Writes
<1>3. CASE UNCHANGED jobVars
    BY <1>3 DEF JobTypeOK, jobVars
<1> QED BY <1>1, <1>2, <1>3, RegistryStep

\* The records and the counter keep their types: the counter stays in its width.
THEOREM JobTypeCorrect == JobSpec => []JobTypeOK
<1>1. JobInit => JobTypeOK
    BY IdLimitAssumption DEF JobInit, JobTypeOK, JobId
<1>2. JobTypeOK /\ [JobNext]_jobVars => JobTypeOK'
    BY JobTypeStep
<1> QED BY <1>1, <1>2, PTL DEF JobSpec

-----------------------------------------------------------------------------
(***************************************************************************)
(* Ids.  Until the counter wraps the id of a job is its position; what has *)
(* been handed out since then is only known not to be 0.                   *)
(***************************************************************************)

IdsCount ==
    /\ nextId # 0
    /\ Len(jobs) < IdLimit - 1 => nextId = Len(jobs) + 1
    /\ \A i \in DOMAIN jobs : /\ jobs[i].id # 0
                              /\ i < IdLimit => jobs[i].id = i

LEMMA IdsCountStep ==
    ASSUME JobTypeOK, IdsCount, [JobNext]_jobVars
    PROVE  IdsCount'
<1>t. /\ DOMAIN jobs = 1 .. Len(jobs) /\ Len(jobs) \in Nat
      /\ \A i \in DOMAIN jobs : jobs[i] \in JobRecord
    BY ElementOfSeq, LenProperties DEF JobTypeOK
<1>1. CASE Creates
    <2>1. nextId' # 0 /\ (nextId < IdLimit - 1 => nextId' = nextId + 1)
        BY <1>1, CounterStep DEF Creates, JobTypeOK
    <2>2. Len(jobs') < IdLimit - 1 => nextId' = Len(jobs') + 1
        BY <1>1, <1>t, <2>1, JobsAfterCreate, IdLimitAssumption DEF IdsCount
    <2>3. ASSUME NEW i \in DOMAIN jobs'
          PROVE  jobs'[i].id # 0 /\ (i < IdLimit => jobs'[i].id = i)
        <3>1. CASE i \in DOMAIN jobs
            BY <3>1, <1>1, JobsAfterCreate DEF IdsCount
        <3>2. CASE i = Len(jobs) + 1
            BY <3>2, <1>1, <1>t, JobsAfterCreate, IdLimitAssumption DEF IdsCount
        <3> QED BY <3>1, <3>2, <2>3, <1>1, JobsAfterCreate
    <2> QED BY <2>1, <2>2, <2>3 DEF IdsCount
<1>2. CASE Writes
    <2>1. PICK i \in DOMAIN jobs, new \in JobRecord :
              Written(jobs[i], new) /\ jobs' = [jobs EXCEPT ![i] = new]
        BY <1>2 DEF Writes
    <2>2. new.id = jobs[i].id
        BY <2>1, <1>t, WrittenRecord
    <2>3. /\ DOMAIN jobs' = DOMAIN jobs /\ Len(jobs') = Len(jobs)
          /\ \A k \in DOMAIN jobs : jobs'[k].id = jobs[k].id
        BY <2>1, <2>2, JobsAfterWrite
    <2> QED BY <1>2, <2>3 DEF IdsCount, Writes
<1>3. CASE UNCHANGED jobVars
    BY <1>3 DEF IdsCount, jobVars
<1> QED BY <1>1, <1>2, <1>3, RegistryStep

\* Ids are never 0, and until the counter wraps every lookup by id finds the job
\* the id was allocated for, for every width of an id.
THEOREM IdsAreSound == JobSpec => []IdsIdentifyJobs
<1>1. JobInit => JobTypeOK /\ IdsCount
    BY IdLimitAssumption DEF JobInit, JobTypeOK, JobId, IdsCount
<1>2. JobTypeOK /\ IdsCount /\ [JobNext]_jobVars => (JobTypeOK /\ IdsCount)'
    BY JobTypeStep, IdsCountStep
<1>3. JobTypeOK /\ IdsCount => IdsIdentifyJobs
    <2> SUFFICES ASSUME JobTypeOK, IdsCount PROVE IdsIdentifyJobs
        OBVIOUS
    <2>1. DOMAIN jobs = 1 .. Len(jobs) /\ Len(jobs) \in Nat
        BY LenProperties DEF JobTypeOK
    <2>2. ASSUME Len(jobs) < IdLimit, NEW i \in DOMAIN jobs PROVE Find(jobs[i].id) = {i}
        <3>1. \A k \in DOMAIN jobs : jobs[k].id = k
            BY <2>1, <2>2, IdLimitAssumption DEF IdsCount
        <3>2. Find(jobs[i].id) \subseteq {i}
            BY <2>2, <3>1 DEF Find
        <3>3. i \in Find(jobs[i].id)
            BY <2>1, <2>2, <3>1 DEF Find
        <3> QED BY <3>2, <3>3
    <2> QED BY <2>2 DEF IdsIdentifyJobs, IdsCount
<1> QED BY <1>1, <1>2, <1>3, PTL DEF JobSpec

-----------------------------------------------------------------------------
(***************************************************************************)
(* Outcomes.                                                               *)
(***************************************************************************)

LEMMA StampedStep ==
    ASSUME JobTypeOK, FinishedIsStamped, [JobNext]_jobVars
    PROVE  FinishedIsStamped'
<1>t. \A i \in DOMAIN jobs : jobs[i] \in JobRecord
    BY ElementOfSeq DEF JobTypeOK
<1>1. CASE Creates
    BY <1>1, JobsAfterCreate DEF FinishedIsStamped, Terminal
<1>2. CASE Writes
    <2>1. PICK i \in DOMAIN jobs, new \in JobRecord :
              Written(jobs[i], new) /\ jobs' = [jobs EXCEPT ![i] = new]
        BY <1>2 DEF Writes
    <2>2. new.state \in Terminal => new.completed
        BY <2>1, <1>t, WrittenRecord DEF FinishedIsStamped
    <2> QED BY <2>1, <2>2, JobsAfterWrite DEF FinishedIsStamped
<1>3. CASE UNCHANGED jobVars
    BY <1>3 DEF FinishedIsStamped, jobVars
<1> QED BY <1>1, <1>2, <1>3, RegistryStep

\* A job that is finished carries a completion time.
THEOREM FinishedJobsAreStamped == JobSpec => []FinishedIsStamped
<1>1. JobInit => JobTypeOK /\ FinishedIsStamped
    BY IdLimitAssumption DEF JobInit, JobTypeOK, JobId, FinishedIsStamped
<1>2. JobTypeOK /\ FinishedIsStamped /\ [JobNext]_jobVars => (JobTypeOK /\ FinishedIsStamped)'
    BY JobTypeStep, StampedStep
<1> QED BY <1>1, <1>2, PTL DEF JobSpec

\* No method turns Completed or Aborted into Canceled, whatever the order of calls.
THEOREM CancelKeepsOutcomes == JobSpec => CancelKeepsOutcome
<1> DEFINE Kept == \A i \in DOMAIN jobs :
                      jobs[i].state \in {"Completed", "Aborted"} => jobs'[i].state # "Canceled"
<1>1. ASSUME JobTypeOK, [JobNext]_jobVars PROVE [Kept]_jobVars
    <2>t. \A i \in DOMAIN jobs : jobs[i] \in JobRecord
        BY <1>1, ElementOfSeq DEF JobTypeOK
    <2>1. CASE Creates
        BY <1>1, <2>1, JobsAfterCreate
    <2>2. CASE Writes
        <3>1. PICK i \in DOMAIN jobs, new \in JobRecord :
                  Written(jobs[i], new) /\ jobs' = [jobs EXCEPT ![i] = new]
            BY <2>2 DEF Writes
        <3>2. jobs[i].state \in {"Completed", "Aborted"} => new.state # "Canceled"
            BY <3>1, <2>t, WrittenRecord
        <3> QED BY <1>1, <3>1, <3>2, JobsAfterWrite
    <2>3. CASE UNCHANGED jobVars
        BY <2>3
    <2> QED BY <1>1, <2>1, <2>2, <2>3, RegistryStep
<1>2. JobSpec => []JobTypeOK
    BY JobTypeCorrect
<1> QED BY <1>1, <1>2, PTL DEF JobSpec, CancelKeepsOutcome

=============================================================================
