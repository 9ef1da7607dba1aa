---------------------------- MODULE SpoolPromise ----------------------------
(***************************************************************************)
(* What the spooler promises a client about a job, whatever happens to the *)
(* printers, the workers and the device behind it.  A job waits for its    *)
(* document; once it has one it is worked on until it is Completed,        *)
(* Aborted or Canceled; at rest it changes only if a client cancels it     *)
(* while it waits or sends it a document.                                  *)
(*                                                                         *)
(* The states "Processing" and "ProcessingStopped" exist only inside       *)
(* "Working": no job rests in them.                                        *)
(***************************************************************************)
EXTENDS Naturals, Sequences

CONSTANT MaxJobs    \* bound: jobs created in a behaviour

VARIABLE job        \* for each job, in order of creation, what becomes of it

Rest == {"Completed", "Aborted", "Canceled"}

PromiseInit == job = <<>>

\* Create-Job, or Print-Job with its document.
Submit == \E s \in {"Pending", "Working"} : job' = Append(job, s)

\* A document arrives for a job at rest.
Receive(i) ==
    /\ i \in DOMAIN job
    /\ job[i] # "Working"
    /\ job' = [job EXCEPT ![i] = "Working"]

\* The work on a job is over.
Settle(i) ==
    /\ i \in DOMAIN job
    /\ job[i] = "Working"
    /\ \E s \in Rest : job' = [job EXCEPT ![i] = s]

\* A job is canceled before it has a document.
Withdraw(i) ==
    /\ i \in DOMAIN job
    /\ job[i] = "Pending"
    /\ job' = [job EXCEPT ![i] = "Canceled"]

PromiseNext ==
    \/ Submit
    \/ \E i \in 1 .. MaxJobs : Receive(i) \/ Settle(i) \/ Withdraw(i)

PromiseSafety == PromiseInit /\ [][PromiseNext]_job

PromiseFairness == \A i \in 1 .. MaxJobs : WF_job(Settle(i))

PromiseSpec == PromiseSafety /\ PromiseFairness

=============================================================================
