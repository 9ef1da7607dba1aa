---------------------------- MODULE PrintSpooler ----------------------------
(***************************************************************************)
(* The spooler: the IPP handlers that create, feed and cancel jobs         *)
(* (handle_ipp in server.rs) and the print workers they spawn              *)
(* (spawn_print_worker), over the job registry and the printer registry.   *)
(*                                                                         *)
(* A handler that touches the registries once is one action; Cancel-My-    *)
(* Jobs, which loops over a snapshot, is several.  A worker takes one step *)
(* per lock it acquires and per read of the cancel flag, and any other     *)
(* task may run between two of them: nothing serializes the workers of a   *)
(* printer, or the workers of one job.                                     *)
(*                                                                         *)
(* The flag and the state that JobRegistry!cancel sets under the job lock  *)
(* change together here.  A worker that sees the flag before the lock is   *)
(* released can only reach the job by waiting for that lock.               *)
(*                                                                         *)
(* Abstractions.  A backoff is a step that ends at any time.  The print    *)
(* callback is one step that ends with any outcome.  Payload, format,      *)
(* quality and copies are handed through.  Cancel-My-Jobs runs one request *)
(* at a time.                                                              *)
(***************************************************************************)
EXTENDS JobRegistry, PrinterRegistry

CONSTANT MaxDocuments   \* bound: documents received, so workers spawned

ASSUME MaxDocumentsAssumption == MaxDocuments \in Nat
ASSUME NoWrapAssumption == MaxJobs < IdLimit

VARIABLES
    tasks,  \* the print workers spawned so far
    sweep   \* ids a Cancel-My-Jobs request has still to cancel

spoolVars == <<jobs, nextId, printers, tasks, sweep>>

\* Where a worker stands: each label names the next step it takes.
Label == {"start", "mark", "check", "attempt",
          "done_reasons", "done_idle", "done_check", "done_state",
          "fail_reasons", "fail_idle", "fail_state",
          "hold_reasons", "hold_state", "hold_sleep",
          "final", "cancel_reasons", "cancel_idle", "cancel_state",
          "persist", "finished"}

Outcome == {"None", "Completed", "Failed", "Unavailable"}

\* job: position in jobs of the record whose cancel flag the worker holds;
\* outcome, why: what the last call of the callback returned, and its reasons.
Task == [pc : Label, job : Nat, printer : Printer,
         outcome : Outcome, why : SUBSET Reason]

SpoolTypeOK ==
    /\ JobTypeOK
    /\ PrinterTypeOK
    /\ tasks \in Seq(Task)
    /\ sweep \in SUBSET JobId

SpoolInit == JobInit /\ PrinterInit /\ tasks = <<>> /\ sweep = {}

-----------------------------------------------------------------------------
(***************************************************************************)
(* The handlers.                                                           *)
(***************************************************************************)

Spawn(i, p) ==
    /\ Len(tasks) < MaxDocuments
    /\ tasks' = Append(tasks, [pc |-> "start", job |-> i, printer |-> p,
                               outcome |-> "None", why |-> {}])

PrintJob(p) ==
    /\ Create(p)
    /\ Spawn(Len(jobs) + 1, p)
    /\ UNCHANGED <<printers, sweep>>

CreateJob(p) == Create(p) /\ UNCHANGED <<printers, tasks, sweep>>

\* A document for any job that exists, whatever its state, through the path of
\* any printer.  A Send-Document without data changes nothing.
SendDocument(p, id) ==
    /\ \E i \in Find(id) : Spawn(i, p)
    /\ UNCHANGED <<jobs, nextId, printers, sweep>>

CancelJob(id) == Cancel(id) /\ UNCHANGED <<printers, tasks, sweep>>

JobsForPrinter(p) == {jobs[i].id : i \in {k \in DOMAIN jobs : jobs[k].printer = p}}

\* Cancel-My-Jobs: a snapshot of the printer's jobs, whoever owns them ...
BeginCancelMyJobs(p) ==
    /\ sweep = {}
    /\ sweep' = JobsForPrinter(p)
    /\ UNCHANGED <<jobs, nextId, printers, tasks>>

\* A fault: the loop ends at the first job it cancels.
CancelFirstOfMine ==
    \E id \in sweep :
        /\ \A other \in sweep : id <= other
        /\ Cancel(id)
        /\ sweep' = {}
        /\ UNCHANGED <<printers, tasks>>

\* ... then one call of cancel for each, in the order of allocation.
CancelNextOfMine ==
    \E id \in sweep :
        /\ \A other \in sweep : id <= other
        /\ Cancel(id)
        /\ sweep' = sweep \ {id}
        /\ UNCHANGED <<printers, tasks>>

Handler ==
    \/ \E p \in Printer : PrintJob(p)
    \/ \E p \in Printer : CreateJob(p)
    \/ \E p \in Printer, id \in 1 .. MaxJobs : SendDocument(p, id)
    \/ \E id \in 1 .. MaxJobs : CancelJob(id)
    \/ \E p \in Printer : BeginCancelMyJobs(p)
    \/ CancelNextOfMine

-----------------------------------------------------------------------------
(***************************************************************************)
(* The print worker.                                                       *)
(***************************************************************************)

IdOf(t) == jobs[tasks[t].job].id

\* A fault: the worker holds a copy of the flag, not the flag of the record.
IsCanceledCopy(t) == FALSE

\* ctx.is_canceled(): the flag of the record the worker was given.
IsCanceled(t) == jobs[tasks[t].job].canceled

At(t, label) == t \in DOMAIN tasks /\ tasks[t].pc = label

Goto(t, from, to) == At(t, from) /\ tasks' = [tasks EXCEPT ![t].pc = to]

BecomeProcessing(t) ==
    /\ Goto(t, "start", "mark")
    /\ SetPrinterProcessing(tasks[t].printer)
    /\ UNCHANGED <<jobs, nextId, sweep>>

MarkProcessing(t) ==
    /\ Goto(t, "mark", "check")
    /\ SetState(IdOf(t), "Processing")
    /\ UNCHANGED <<printers, sweep>>

\* A fault: the flag is not read again before a retry.
CheckCanceledOnce(t) ==
    /\ Goto(t, "check", IF IsCanceled(t) /\ tasks[t].outcome = "None" THEN "final" ELSE "attempt")
    /\ UNCHANGED <<jobs, nextId, printers, sweep>>

CheckCanceled(t) ==
    /\ Goto(t, "check", IF IsCanceled(t) THEN "final" ELSE "attempt")
    /\ UNCHANGED <<jobs, nextId, printers, sweep>>

\* The callback returns, and its outcome selects the arm of the match.
Attempt(t, outcome, why) ==
    /\ At(t, "attempt")
    /\ outcome = "Completed" => why = {}
    /\ tasks' = [tasks EXCEPT ![t] =
                   [@ EXCEPT !.outcome = outcome, !.why = why,
                             !.pc = CASE outcome = "Completed"   -> "done_reasons"
                                      [] outcome = "Failed"      -> "fail_reasons"
                                      [] outcome = "Unavailable" -> "hold_reasons"]]
    /\ UNCHANGED <<jobs, nextId, printers, sweep>>

\* set_printer_reasons with the reasons of the outcome, in all three arms.
PublishReasons(t) ==
    /\ \/ Goto(t, "done_reasons", "done_idle")
       \/ Goto(t, "fail_reasons", "fail_idle")
       \/ Goto(t, "hold_reasons", "hold_state")
    /\ SetPrinterReasons(tasks[t].printer, tasks[t].why)
    /\ UNCHANGED <<jobs, nextId, sweep>>

ReturnToIdle(t) ==
    /\ \/ Goto(t, "done_idle", "done_check")
       \/ Goto(t, "fail_idle", "fail_state")
       \/ Goto(t, "cancel_idle", "cancel_state")
    /\ SetPrinterIdle(tasks[t].printer)
    /\ UNCHANGED <<jobs, nextId, sweep>>

\* "Don't clobber a Cancel that landed mid-print."
CheckCompletion(t) ==
    /\ Goto(t, "done_check", IF IsCanceled(t) THEN "final" ELSE "done_state")
    /\ UNCHANGED <<jobs, nextId, printers, sweep>>

Complete(t) ==
    /\ Goto(t, "done_state", "final")
    /\ SetState(IdOf(t), "Completed")
    /\ UNCHANGED <<printers, sweep>>

Fail(t) ==
    /\ Goto(t, "fail_state", "final")
    /\ SetFailure(IdOf(t), tasks[t].why)
    /\ UNCHANGED <<printers, sweep>>

\* Faults: a device that is not available drops the job; a held job gives its
\* printer back.
HoldDropsJob(t) ==
    /\ Goto(t, "hold_state", "final")
    /\ SetFailure(IdOf(t), tasks[t].why)
    /\ UNCHANGED <<printers, sweep>>

HoldFreesPrinter(t) ==
    /\ Goto(t, "hold_state", "hold_sleep")
    /\ SetState(IdOf(t), "ProcessingStopped")
    /\ SetPrinterIdle(tasks[t].printer)
    /\ UNCHANGED sweep

Hold(t) ==
    /\ Goto(t, "hold_state", "hold_sleep")
    /\ SetState(IdOf(t), "ProcessingStopped")
    /\ UNCHANGED <<printers, sweep>>

\* A fault: the wait always leaves the loop.
WakeGivesUp(t) ==
    /\ Goto(t, "hold_sleep", "final")
    /\ UNCHANGED <<jobs, nextId, printers, sweep>>

\* A fault: the wait ends only with a cancel.
WakeOnCancelOnly(t) ==
    /\ Goto(t, "hold_sleep", "final")
    /\ IsCanceled(t)
    /\ UNCHANGED <<jobs, nextId, printers, sweep>>

\* A fault: the wait ends early on a cancel, and the loop goes on.
WakeOnly(t) ==
    /\ Goto(t, "hold_sleep", "check")
    /\ UNCHANGED <<jobs, nextId, printers, sweep>>

\* sleep_cancelable: the wait is over, or it sees the flag and leaves the loop.
Wake(t) ==
    /\ Goto(t, "hold_sleep", IF IsCanceled(t) THEN "final" ELSE "check")
    /\ UNCHANGED <<jobs, nextId, printers, sweep>>

\* A fault: the block after the loop is missing.
CheckFinalCancelMissing(t) ==
    /\ Goto(t, "final", "persist")
    /\ UNCHANGED <<jobs, nextId, printers, sweep>>

CheckFinalCancel(t) ==
    /\ Goto(t, "final", IF IsCanceled(t) THEN "cancel_reasons" ELSE "persist")
    /\ UNCHANGED <<jobs, nextId, printers, sweep>>

\* A fault: a cancel clears the reasons and leaves the printer as it is.
ClearReasonsOnly(t) ==
    /\ Goto(t, "cancel_reasons", "cancel_state")
    /\ SetPrinterReasons(tasks[t].printer, {})
    /\ UNCHANGED <<jobs, nextId, sweep>>

ClearReasons(t) ==
    /\ Goto(t, "cancel_reasons", "cancel_idle")
    /\ SetPrinterReasons(tasks[t].printer, {})
    /\ UNCHANGED <<jobs, nextId, sweep>>

FinalCancel(t) ==
    /\ Goto(t, "cancel_state", "persist")
    /\ Cancel(IdOf(t))
    /\ UNCHANGED <<printers, sweep>>

\* Server::persist writes the printers' configurations, which no handler or
\* worker of this module changes.
Persist(t) ==
    /\ Goto(t, "persist", "finished")
    /\ UNCHANGED <<jobs, nextId, printers, sweep>>

Worker(t) ==
    \/ BecomeProcessing(t)
    \/ MarkProcessing(t)
    \/ CheckCanceled(t)
    \/ \E outcome \in Outcome \ {"None"}, why \in SUBSET Reason : Attempt(t, outcome, why)
    \/ PublishReasons(t)
    \/ ReturnToIdle(t)
    \/ CheckCompletion(t)
    \/ Complete(t)
    \/ Fail(t)
    \/ Hold(t)
    \/ Wake(t)
    \/ CheckFinalCancel(t)
    \/ ClearReasons(t)
    \/ FinalCancel(t)
    \/ Persist(t)

SpoolNext == Handler \/ \E t \in 1 .. MaxDocuments : Worker(t)

SpoolSpec == SpoolInit /\ [][SpoolNext]_spoolVars

-----------------------------------------------------------------------------
(***************************************************************************)
(* Safety.                                                             *)
(***************************************************************************)

\* The worker will still put its job in a terminal state, or find it there.
WillSettleJob(t) ==
    \/ tasks[t].pc \in {"check", "attempt",
                        "done_reasons", "done_idle", "done_check", "done_state",
                        "fail_reasons", "fail_idle", "fail_state",
                        "hold_reasons", "hold_state", "hold_sleep",
                        "cancel_reasons", "cancel_idle", "cancel_state"}
    \/ tasks[t].pc = "final" /\ IsCanceled(t)

\* The worker will still return its printer to Idle.
WillFreePrinter(t) ==
    \/ tasks[t].pc \in {"mark", "check", "attempt", "done_reasons", "done_idle",
                        "fail_reasons", "fail_idle",
                        "hold_reasons", "hold_state", "hold_sleep",
                        "cancel_reasons", "cancel_idle"}
    \/ tasks[t].pc = "final" /\ IsCanceled(t)

\* No job is left in processing or processing-stopped with nobody to finish
\* it: whatever the order of cancels, holds and second documents, some worker
\* of that job is on its way to a terminal state (the loop and the final block
\* of spawn_print_worker).
NoStrandedJob ==
    \A i \in DOMAIN jobs : jobs[i].state \in {"Processing", "ProcessingStopped"} =>
        \E t \in DOMAIN tasks : tasks[t].job = i /\ WillSettleJob(t)

\* No printer is left in Processing with nobody to return it to Idle: the
\* status poller skips such a printer, so it would never recover
\* (spawn_print_worker, every way out of the loop).
NoStuckPrinter ==
    \A p \in Printer : printers[p].state = "Processing" =>
        \E t \in DOMAIN tasks : tasks[t].printer = p /\ WillFreePrinter(t)

\* What a job reports is what happened to it: Completed, Aborted, or the reasons of a
\* failure, in whatever state a further document has put it, only if an attempt of
\* one of its own workers said so, and Canceled only if a client asked
\* (spawn_print_worker, set_state, which keeps the reasons, set_failure).
OutcomeIsEarned ==
    \A i \in DOMAIN jobs :
        /\ jobs[i].state = "Completed" =>
              \E t \in DOMAIN tasks : tasks[t].job = i /\ tasks[t].outcome = "Completed"
        /\ jobs[i].state = "Aborted" \/ jobs[i].reasons # {} =>
              \E t \in DOMAIN tasks : /\ tasks[t].job = i
                                      /\ tasks[t].outcome = "Failed"
                                      /\ tasks[t].why = jobs[i].reasons
        /\ jobs[i].state = "Canceled" => jobs[i].canceled

\* The worker is between set_printer_processing and set_printer_idle.
UsesPrinter(t) ==
    tasks[t].pc \in {"mark", "check", "attempt", "done_reasons", "done_idle",
                     "fail_reasons", "fail_idle",
                     "hold_reasons", "hold_state", "hold_sleep"}

\* The next step of the worker is to write the reasons of its printer.
Reports(t) == tasks[t].pc \in {"done_reasons", "fail_reasons", "hold_reasons", "cancel_reasons"}

\* The worker is holding its job.
Holds(t) == tasks[t].pc \in {"hold_state", "hold_sleep"}

\* The other workers of its printer.
Others(t) == {u \in DOMAIN tasks \ {t} : tasks[u].printer = tasks[t].printer}

\* The printer says after the step that the worker uses it and, during a hold, why;
\* or it did not say so before, or a worker of others has just freed it, or has just
\* reported.
StaysShown(t, others) ==
    LET p == tasks[t].printer
    IN  /\ UsesPrinter(t)' =>
              \/ printers'[p].state = "Processing"
              \/ /\ UsesPrinter(t)
                 /\ \/ printers[p].state # "Processing"
                    \/ \E u \in others : WillFreePrinter(u) /\ ~WillFreePrinter(u)'
        /\ Holds(t)' =>
              \/ printers'[p].reasons = tasks'[t].why
              \/ /\ Holds(t)
                 /\ \/ printers[p].reasons # tasks[t].why
                    \/ \E u \in others : Reports(u) /\ ~Reports(u)'

\* "The printer stays `Processing` for the whole life of the job"
\* (spawn_print_worker) and "surfacing `reasons` on the printer [...] meanwhile"
\* (JobOutcome in raster.rs), for each worker from its start on and for any number
\* of them on a printer: the printer says that it is used, and during a hold why,
\* until another worker of the same printer gives it back, or says why in its turn.
\* No worker takes its own work, or that of another printer, off the display.
WorkIsShown ==
    [][\A t \in DOMAIN tasks : StaysShown(t, Others(t))]_spoolVars

\* The job is canceled and keeps its document from printing: no worker of it is in
\* an attempt or holds the outcome of one.
CanceledInTime(i) ==
    /\ jobs[i].canceled
    /\ jobs[i].state \notin {"Completed", "Aborted"}
    /\ ~\E t \in DOMAIN tasks :
          /\ tasks[t].job = i
          /\ tasks[t].pc \in {"attempt",
                              "done_reasons", "done_idle", "done_check", "done_state",
                              "fail_reasons", "fail_idle", "fail_state"}

\* A job that is canceled before an attempt has begun, or between two attempts of
\* a hold, is never printed or aborted afterwards, whichever documents still come
\* for it (the checks of the flag in spawn_print_worker, sleep_cancelable).
CanceledInTimeIsNotPrinted ==
    [][\A i \in DOMAIN jobs : CanceledInTime(i) => CanceledInTime(i)']_spoolVars

\* The comment in the Completed arm, as it stands: a completion does not clobber
\* a cancel that landed while the document printed (server.rs).
CompletionKeepsCancel ==
    [][\A i \in DOMAIN jobs :
          jobs[i].state = "Canceled" => jobs'[i].state # "Completed"]_spoolVars

-----------------------------------------------------------------------------
(***************************************************************************)
(* Fairness and progress.                                                  *)
(***************************************************************************)

\* Every worker step is taken in the end: tokio runs each spawned task, a
\* backoff is finite, and the callback returns from every call.
Scheduled == \A t \in 1 .. MaxDocuments : WF_spoolVars(Worker(t))

CanceledSpec == SpoolSpec /\ Scheduled /\ WF_spoolVars(CancelNextOfMine)

\* The device comes back: an attempt made again and again prints or fails.
DeviceRecovers ==
    \A t \in 1 .. MaxDocuments :
        SF_spoolVars(\E outcome \in {"Completed", "Failed"}, why \in SUBSET Reason :
                        Attempt(t, outcome, why))

\* The steps a worker has before it at most, if it never retries.
StepsLeft ==
    [start |-> 13, mark |-> 12, check |-> 11, attempt |-> 10,
     done_reasons |-> 9, done_idle |-> 8, done_check |-> 7, done_state |-> 6,
     fail_reasons |-> 8, fail_idle |-> 7, fail_state |-> 6,
     hold_reasons |-> 8, hold_state |-> 7, hold_sleep |-> 6,
     final |-> 5, cancel_reasons |-> 4, cancel_idle |-> 3, cancel_state |-> 2,
     persist |-> 1, finished |-> 0]

\* Only a hold repeats anything: every other step of a worker brings it nearer to
\* its end, and a retry is of a job that is not canceled and whose device was not
\* available.  So no document is printed twice, and from the cancel of its job on a
\* worker has at most thirteen steps left, whatever its device answers (the loop
\* of spawn_print_worker, sleep_cancelable).
OnlyHoldsRepeat ==
    [][\A t \in DOMAIN tasks :
          \/ tasks'[t] = tasks[t]
          \/ StepsLeft[tasks'[t].pc] < StepsLeft[tasks[t].pc]
          \/ At(t, "hold_sleep") /\ tasks[t].outcome = "Unavailable" /\ ~IsCanceled(t)]_spoolVars

Busy(t) == ~(\/ tasks[t].pc \in {"persist", "finished"}
             \/ tasks[t].pc = "final" /\ ~IsCanceled(t))

\* A canceled job comes to rest even if its device never answers again: each of
\* its workers leaves the hold loop and the job ends in a terminal state
\* (sleep_cancelable and the checks of the flag in spawn_print_worker).
CancelBringsToRest ==
    \A i \in 1 .. MaxJobs :
        (i \in DOMAIN jobs /\ jobs[i].canceled) ~>
            /\ i \in DOMAIN jobs
            /\ jobs[i].state \in Terminal
            /\ ~\E t \in DOMAIN tasks : tasks[t].job = i /\ Busy(t)

\* Cancel-My-Jobs leaves no job of its snapshot out: each one reaches a terminal
\* state, those without a document too (the loop over jobs_for_printer, where
\* other handlers and workers run between two calls of cancel).
SweepReachesEveryJob ==
    \A i \in 1 .. MaxJobs :
        (i \in DOMAIN jobs /\ jobs[i].id \in sweep) ~>
            (i \in DOMAIN jobs /\ jobs[i].state \in Terminal)

-----------------------------------------------------------------------------
(***************************************************************************)
(* The promise to the client.                                              *)
(***************************************************************************)

Working(i) == \E t \in DOMAIN tasks : tasks[t].job = i /\ Busy(t)

\* What the abstract spooler sees of each job.
JobView == [i \in DOMAIN jobs |-> IF Working(i) THEN "Working" ELSE jobs[i].state]

Promise == INSTANCE SpoolPromise WITH job <- JobView

\* Step by step the spooler implements the abstract one: no worker leaves its
\* job anywhere but in a terminal state, and a job at rest changes only when it
\* is canceled before it has a document, or receives one (handle_ipp,
\* spawn_print_worker).
ImplementsPromise == Promise!PromiseSafety

\* With the fairness the abstract one adds: if devices come back, the work on a
\* job ends.  A held job prints, fails or is canceled in the end (the retry loop
\* of spawn_print_worker).
KeepsPromise == DeviceRecovers => Promise!PromiseFairness

=============================================================================
