-------------------------- MODULE PrinterApp_proofs --------------------------
(***************************************************************************)
(* The spooler with callbacks that panic, first on its own, then with the  *)
(* poller over one registry, for any printers, labels, reasons, jobs and   *)
(* documents. A step of the application is a step of the spooler, which    *)
(* leaves the poller alone; a step of the poller, which writes nothing of  *)
(* the spooler but the records of the printers; or a callback that panics, *)
(* which moves one worker to its end.                                      *)
(***************************************************************************)
EXTENDS PrinterApp, SpoolPromise_proofs, StatusPoller_proofs

-----------------------------------------------------------------------------
(***************************************************************************)
(* The spooler with callbacks that panic, on its own.  Whoever was on the  *)
(* way to free a printer, or to settle a job, still is, or has panicked,   *)
(* or has just done it.                                                    *)
(***************************************************************************)

PanicBase == SpoolBase /\ panicked \in SUBSET DOMAIN tasks

LEMMA PanicEffect ==
    ASSUME PanicBase, NEW t, Panic(t)
    PROVE  /\ t \in DOMAIN tasks
           /\ tasks[t].pc = "attempt"
           /\ JobsKept /\ TasksKept
           /\ UNCHANGED <<jobs, nextId, printers, sweep>>
           /\ panicked' = panicked \cup {t}
           /\ \A u \in DOMAIN tasks : u # t => tasks'[u] = tasks[u]
<1>1. SpoolBase /\ SpoolTypeOK /\ Goto(t, "attempt", "finished") /\ "finished" \in Label
  BY DEF PanicBase, SpoolBase, Panic, Label
<1>2. UNCHANGED <<jobs, nextId, printers, sweep>> /\ panicked' = panicked \cup {t}
  BY DEF Panic
<1>3. JobsKept
  BY <1>1, <1>2, UnchangedKeepsJobs
<1>4. /\ t \in DOMAIN tasks
      /\ tasks[t].pc = "attempt"
      /\ tasks' \in Seq(Task)
      /\ DOMAIN tasks' = DOMAIN tasks
      /\ tasks'[t].job = tasks[t].job
      /\ tasks'[t].printer = tasks[t].printer
      /\ \A u \in DOMAIN tasks : u # t => tasks'[u] = tasks[u]
  BY <1>1, GotoEffect
<1>5. TasksKept
  <2>1. \A u \in DOMAIN tasks : /\ tasks'[u].job = tasks[u].job
                                /\ tasks'[u].printer = tasks[u].printer
    BY <1>4
  <2> QED
    BY <1>1, <1>2, <1>4, <2>1 DEF TasksKept, TaskJobs, SpoolBase
<1> QED
  BY <1>2, <1>3, <1>4, <1>5

LEMMA PanicBaseStep ==
    ASSUME PanicBase, PanicNext
    PROVE  PanicBase' /\ JobsKept /\ TasksKept
<1>1. CASE SpoolNext /\ UNCHANGED panicked
  BY <1>1, BaseStep, StepKeepsJobs, StepKeepsTasks DEF PanicBase, TasksKept
<1>2. ASSUME NEW t, Panic(t)
      PROVE  PanicBase' /\ JobsKept /\ TasksKept
  <2>1. /\ t \in DOMAIN tasks
        /\ JobsKept /\ TasksKept
        /\ UNCHANGED <<jobs, nextId, printers, sweep>>
        /\ panicked' = panicked \cup {t}
    BY <1>2, PanicEffect
  <2>2. SpoolBase'
    BY <2>1 DEF PanicBase, SpoolBase, SpoolTypeOK, JobTypeOK, PrinterTypeOK, JobsKept, TasksKept
  <2> QED
    BY <2>1, <2>2 DEF PanicBase, TasksKept
<1> QED
  BY <1>1, <1>2 DEF PanicNext

LEMMA SpoolFrees ==
    ASSUME PanicBase, SpoolNext, panicked' = panicked,
           NEW p \in Printer, NEW t \in DOMAIN tasks, WorkerOf(p, t)
    PROVE  t \in DOMAIN tasks' /\ (WorkerOf(p, t)' \/ printers'[p].state = "Idle")
<1>1. SpoolBase /\ SpoolNext /\ JobsKept /\ TasksKept /\ panicked' = panicked
  BY StepKeepsJobs, StepKeepsTasks DEF PanicBase
<1>2. t \in DOMAIN tasks' /\ tasks[t].printer = p /\ tasks'[t].printer = p
  BY <1>1 DEF TasksKept, WorkerOf
<1>3. CASE t \in panicked
  BY <1>1, <1>2, <1>3 DEF WorkerOf
<1>4. CASE WillFreePrinter(t)
  <2>1. WillFreePrinter(t)' \/ ReturnToIdle(t)
    BY <1>1, <1>4, FreeStep
  <2>2. ReturnToIdle(t) => printers'[p].state = "Idle"
    BY <1>1, <1>2, IdleNow
  <2> QED
    BY <1>2, <2>1, <2>2 DEF WorkerOf
<1> QED
  BY <1>3, <1>4 DEF WorkerOf

LEMMA PanicFrees ==
    ASSUME PanicBase, NEW p \in Printer, NEW t \in DOMAIN tasks, WorkerOf(p, t),
           NEW u, Panic(u)
    PROVE  t \in DOMAIN tasks' /\ WorkerOf(p, t)'
<1>1. /\ TasksKept /\ jobs' = jobs
      /\ panicked' = panicked \cup {u}
      /\ \A v \in DOMAIN tasks : v # u => tasks'[v] = tasks[v]
  BY PanicEffect
<1>2. t \in DOMAIN tasks' /\ tasks'[t].printer = p
  BY <1>1 DEF TasksKept, WorkerOf
<1>3. CASE t = u
  BY <1>1, <1>2, <1>3 DEF WorkerOf
<1>4. CASE t # u
  BY <1>1, <1>2, <1>4 DEF WorkerOf, WillFreePrinter, IsCanceled
<1> QED
  BY <1>3, <1>4

PrinterIsHeld ==
    \A p \in Printer : printers[p].state = "Processing" =>
        \E t \in DOMAIN tasks : WorkerOf(p, t)

WorkerOfJob(i, t) == tasks[t].job = i /\ (WillSettleJob(t) \/ t \in panicked)

JobIsHeld ==
    \A i \in DOMAIN jobs : jobs[i].state \in {"Processing", "ProcessingStopped"} =>
        \E t \in DOMAIN tasks : WorkerOfJob(i, t)

LEMMA PrinterHeldStep ==
    ASSUME PanicBase, PrinterIsHeld, PanicNext
    PROVE  PrinterIsHeld'
<1> SUFFICES ASSUME NEW p \in Printer, printers'[p].state = "Processing"
             PROVE  \E t \in DOMAIN tasks' : WorkerOf(p, t)'
  BY DEF PrinterIsHeld
<1>1. CASE SpoolNext /\ UNCHANGED panicked
  <2>1. SpoolBase /\ SpoolNext /\ TasksKept
    BY <1>1, StepKeepsJobs, StepKeepsTasks DEF PanicBase
  <2>2. CASE printers[p].state = "Processing"
    <3>1. PICK t \in DOMAIN tasks : WorkerOf(p, t)
      BY <2>2 DEF PrinterIsHeld
    <3>2. t \in DOMAIN tasks' /\ (WorkerOf(p, t)' \/ printers'[p].state = "Idle")
      BY <1>1, <3>1, SpoolFrees
    <3> QED
      BY <3>2
  <2>3. CASE printers[p].state # "Processing"
    <3>1. PICK t \in DOMAIN tasks : BecomeProcessing(t) /\ tasks[t].printer = p
      BY <2>1, <2>3, PrinterStateStep
    <3>2. SpoolTypeOK /\ Goto(t, "start", "mark") /\ "mark" \in Label
      BY <2>1, <3>1 DEF SpoolBase, BecomeProcessing, Label
    <3>3. tasks'[t].pc = "mark"
      BY <3>2, GotoEffect
    <3> QED
      BY <2>1, <3>1, <3>3 DEF TasksKept, WorkerOf, WillFreePrinter
  <2> QED
    BY <2>2, <2>3
<1>2. ASSUME NEW u, Panic(u)
      PROVE  \E t \in DOMAIN tasks' : WorkerOf(p, t)'
  BY <1>2, PanicEffect, PanicFrees DEF PrinterIsHeld
<1> QED
  BY <1>1, <1>2 DEF PanicNext

LEMMA JobHeldStep ==
    ASSUME PanicBase, JobIsHeld, PanicNext
    PROVE  JobIsHeld'
<1> SUFFICES ASSUME NEW i \in DOMAIN jobs',
                    jobs'[i].state \in {"Processing", "ProcessingStopped"}
             PROVE  \E t \in DOMAIN tasks' : WorkerOfJob(i, t)'
  BY DEF JobIsHeld
<1>1. CASE SpoolNext /\ UNCHANGED panicked
  <2>1. SpoolBase /\ SpoolNext /\ JobsKept /\ TasksKept /\ panicked' = panicked
    BY <1>1, StepKeepsJobs, StepKeepsTasks DEF PanicBase
  <2>2. CASE i \in DOMAIN jobs /\ jobs'[i] = jobs[i]
    <3>1. PICK t \in DOMAIN tasks : WorkerOfJob(i, t)
      BY <2>2 DEF JobIsHeld
    <3>2. CASE t \in panicked
      BY <2>1, <3>1, <3>2 DEF TasksKept, WorkerOfJob
    <3>3. CASE WillSettleJob(t)
      <4>1. ~(Complete(t) \/ Fail(t) \/ FinalCancel(t))
        BY <2>1, <3>1, SettledNow DEF Terminal, WorkerOfJob
      <4>2. WillSettleJob(t)'
        BY <2>1, <3>3, <4>1, SettleStep
      <4> QED
        BY <2>1, <3>1, <4>2 DEF TasksKept, WorkerOfJob
    <3> QED
      BY <3>1, <3>2, <3>3 DEF WorkerOfJob
  <2>3. ASSUME NEW t \in DOMAIN tasks, MarkProcessing(t) \/ Hold(t), tasks[t].job = i
        PROVE  \E u \in DOMAIN tasks' : WorkerOfJob(i, u)'
    <3>1. Goto(t, "mark", "check") \/ Goto(t, "hold_state", "hold_sleep")
      BY <2>3 DEF MarkProcessing, Hold
    <3>2. SpoolTypeOK /\ "check" \in Label /\ "hold_sleep" \in Label
      BY <2>1 DEF SpoolBase, Label
    <3>3. tasks'[t].pc \in {"check", "hold_sleep"}
      BY <3>1, <3>2, GotoEffect
    <3> QED
      BY <2>1, <2>3, <3>3 DEF TasksKept, WorkerOfJob, WillSettleJob
  <2> QED
    BY <2>1, <2>2, <2>3, JobRecordStep
<1>2. ASSUME NEW u, Panic(u)
      PROVE  \E t \in DOMAIN tasks' : WorkerOfJob(i, t)'
  <2>1. /\ TasksKept /\ jobs' = jobs
        /\ panicked' = panicked \cup {u}
        /\ \A v \in DOMAIN tasks : v # u => tasks'[v] = tasks[v]
    BY <1>2, PanicEffect
  <2>2. PICK t \in DOMAIN tasks : WorkerOfJob(i, t)
    BY <2>1 DEF JobIsHeld
  <2>3. t \in DOMAIN tasks' /\ tasks'[t].job = i
    BY <2>1, <2>2 DEF TasksKept, WorkerOfJob
  <2>4. CASE t = u
    BY <2>1, <2>3, <2>4 DEF WorkerOfJob
  <2>5. CASE t # u
    BY <2>1, <2>2, <2>3, <2>5 DEF WorkerOfJob, WillSettleJob, IsCanceled
  <2> QED
    BY <2>4, <2>5
<1> QED
  BY <1>1, <1>2 DEF PanicNext

LEMMA PanicBaseHolds == PanicSpec => []PanicBase
<1>1. PanicInit => PanicBase
  BY BaseInit DEF PanicInit, SpoolInit, PanicBase
<1>2. PanicBase /\ [PanicNext]_panicVars => PanicBase'
  <2> SUFFICES ASSUME PanicBase, UNCHANGED panicVars
               PROVE  PanicBase'
    BY PanicBaseStep
  <2> QED
    BY BaseStep DEF panicVars, spoolVars, PanicBase
<1> QED
  BY <1>1, <1>2, PTL DEF PanicSpec

\* Whichever callbacks panic, a printer is Processing and a job in processing or
\* processing-stopped only with a worker of its own that will take it out or that
\* panicked (spawn_print_worker), for any number of them.
THEOREM PanicsAreContained == PanicSpec => []PanicIsContained
<1>1. PanicInit => PrinterIsHeld /\ JobIsHeld
  BY DEF PanicInit, SpoolInit, PrinterInit, JobInit, PrinterIsHeld, JobIsHeld
<1>2. PanicBase /\ PrinterIsHeld /\ JobIsHeld /\ [PanicNext]_panicVars
        => PrinterIsHeld' /\ JobIsHeld'
  <2> SUFFICES ASSUME PrinterIsHeld, JobIsHeld, UNCHANGED panicVars
               PROVE  PrinterIsHeld' /\ JobIsHeld'
    BY PrinterHeldStep, JobHeldStep
  <2> QED
    BY DEF panicVars, spoolVars, PrinterIsHeld, JobIsHeld, WorkerOf, WorkerOfJob,
           WillFreePrinter, WillSettleJob, IsCanceled
<1>3. PrinterIsHeld /\ JobIsHeld => PanicIsContained
  BY DEF PrinterIsHeld, JobIsHeld, WorkerOfJob, PanicIsContained
<1> QED
  BY <1>1, <1>2, <1>3, PanicBaseHolds, PTL DEF PanicSpec

-----------------------------------------------------------------------------
(***************************************************************************)
(* What the workers are up to when callbacks panic.  A callback that       *)
(* panics says nothing: its worker keeps the outcome of the attempt before *)
(* and goes to its end, past every label that depends on an outcome.       *)
(***************************************************************************)

WorkerInv == LastOutcome /\ HoldOutcome /\ OutcomeIsEarned

\* A panic moves one worker from its attempt to its end.
LEMMA PanicMoves ==
    ASSUME PanicBase, NEW t, Panic(t)
    PROVE  /\ t \in DOMAIN tasks /\ tasks[t].pc = "attempt" /\ tasks'[t].pc = "finished"
           /\ DOMAIN tasks' = DOMAIN tasks
           /\ jobs' = jobs
           /\ \A u \in DOMAIN tasks : /\ tasks'[u].job = tasks[u].job
                                      /\ tasks'[u].outcome = tasks[u].outcome
                                      /\ tasks'[u].why = tasks[u].why
                                      /\ u # t => tasks'[u] = tasks[u]
<1>1. SpoolTypeOK /\ Goto(t, "attempt", "finished") /\ "finished" \in Label /\ jobs' = jobs
  BY DEF PanicBase, SpoolBase, Panic, Label
<1> QED
  BY <1>1, GotoEffect

LEMMA PanicKeepsWorkers ==
    ASSUME PanicBase, WorkerInv, NEW t, Panic(t)
    PROVE  WorkerInv'
<1>1. LastOutcome' /\ HoldOutcome'
  BY PanicMoves DEF WorkerInv, LastOutcome, HoldOutcome
<1>2. OutcomeIsEarned'
  BY PanicMoves DEF WorkerInv, OutcomeIsEarned
<1> QED
  BY <1>1, <1>2 DEF WorkerInv

LEMMA WorkersStep ==
    ASSUME PanicBase, WorkerInv, PanicNext
    PROVE  WorkerInv'
<1>1. CASE SpoolNext
  BY <1>1, LastOutcomeStep, HoldOutcomeStep, OutcomeIsEarnedStep DEF PanicBase, WorkerInv
<1> QED
  BY <1>1, PanicKeepsWorkers DEF PanicNext

\* A worker that panics shows nothing any more, and touches no display.
LEMMA PanicLeavesDisplay ==
    ASSUME PanicBase, NEW u, Panic(u), NEW t \in DOMAIN tasks
    PROVE  StaysShown(t, Others(t))
<1>1. printers' = printers
  BY DEF Panic
<1>2. CASE t = u
  BY <1>2, PanicMoves DEF StaysShown, UsesPrinter, Holds
<1>3. CASE t # u
  <2>1. tasks'[t] = tasks[t]
    BY <1>3, PanicMoves
  <2> QED
    BY <1>1, <2>1 DEF StaysShown, UsesPrinter, Holds
<1> QED
  BY <1>2, <1>3

LEMMA DisplayKept ==
    ASSUME PanicBase, [PanicNext]_panicVars
    PROVE  [\A t \in DOMAIN tasks : StaysShown(t, Others(t))]_spoolVars
BY WorkShownStep, PanicLeavesDisplay DEF PanicNext, panicVars, PanicBase

\* Callbacks that panic break none of this: the types, that outcomes are earned, and
\* that no worker takes its own work, or that of another printer, off the display
\* (spawn_print_worker, whose task ends then and there).
THEOREM PanicsLeaveTheRest ==
    PanicSpec => []SpoolTypeOK /\ []OutcomeIsEarned /\ WorkIsShown
<1>1. PanicInit => WorkerInv
  BY DEF PanicInit, SpoolInit, JobInit, WorkerInv, LastOutcome, HoldOutcome, OutcomeIsEarned
<1>2. PanicBase /\ WorkerInv /\ [PanicNext]_panicVars => WorkerInv'
  <2> SUFFICES ASSUME WorkerInv, UNCHANGED panicVars
               PROVE  WorkerInv'
    BY WorkersStep
  <2> QED
    BY DEF panicVars, spoolVars, WorkerInv, LastOutcome, HoldOutcome, OutcomeIsEarned
<1>3. PanicBase /\ WorkerInv => SpoolTypeOK /\ OutcomeIsEarned
  BY DEF PanicBase, SpoolBase, WorkerInv
<1> QED
  BY <1>1, <1>2, <1>3, PanicBaseHolds, DisplayKept, PTL DEF PanicSpec, WorkIsShown

-----------------------------------------------------------------------------
(***************************************************************************)
(* The three kinds of step.                                                *)
(***************************************************************************)

SpoolStep == SpoolNext /\ UNCHANGED <<pollVars, panicked>>

PollStep == PollNext /\ UNCHANGED <<spoolTasks, panicked>>

\* The poller, and what it lives in, write a record only with the answer of its
\* device.
RecordsAreAnswers ==
    \/ UNCHANGED printers
    \/ \E p \in Printer : UpdateRecord(p)

LEMMA AppStepKinds ==
    ASSUME AppNext
    PROVE  \/ SpoolStep
           \/ PollStep /\ RecordsAreAnswers
           \/ \E t \in 1 .. MaxDocuments : AppPanic(t)
<1>1. CASE AppStart
  BY <1>1 DEF AppStart, Start, PollStep, PollNext, RecordsAreAnswers
<1>2. CASE AppHandler
  BY <1>2 DEF AppHandler, SpoolStep, SpoolNext, pollVars
<1>3. ASSUME NEW t \in 1 .. MaxDocuments, AppWorker(t)
      PROVE  SpoolStep
  BY <1>3 DEF AppWorker, SpoolStep, SpoolNext, pollVars
<1>4. CASE AppPoller
  <2>1. RecordsAreAnswers
    BY <1>4 DEF AppPoller, Poller, Tick, Answer, NoUpdate, Publish, PublishFails, Withdraw,
                LeaveAdvert, Reconcile, RecordsAreAnswers
  <2> QED
    BY <1>4, <2>1 DEF AppPoller, PollStep, PollNext
<1>5. ASSUME NEW p \in Printer, AppPowerSwitch(p)
      PROVE  PollStep /\ RecordsAreAnswers
  BY <1>5 DEF AppPowerSwitch, PowerSwitch, PollStep, PollNext, RecordsAreAnswers
<1> QED
  BY <1>1, <1>2, <1>3, <1>4, <1>5 DEF AppNext

-----------------------------------------------------------------------------
(***************************************************************************)
(* Types, and the invariants of the parts.                                 *)
(***************************************************************************)

AppBase == PanicBase /\ PollTypeOK /\ AdvertInv

LEMMA SpoolStepKeepsBase ==
    ASSUME AppBase, SpoolStep
    PROVE  AppBase' /\ JobsKept /\ TasksKept
<1>1. SpoolBase /\ SpoolNext /\ UNCHANGED <<pollVars, panicked>>
  BY DEF AppBase, PanicBase, SpoolStep
<1>2. JobsKept /\ TasksKept
  BY <1>1, StepKeepsJobs, StepKeepsTasks
<1>3. SpoolBase'
  BY <1>1, BaseStep
<1>4. AdvertInv'
  BY <1>1, IdleKeepsAdverts DEF AppBase, PanicBase, pollVars
<1>5. PollTypeOK' /\ panicked' \in SUBSET DOMAIN tasks'
  BY <1>1, <1>2, <1>4 DEF AppBase, PanicBase, pollVars, PollTypeOK, AdvertInv, TasksKept
<1> QED
  BY <1>2, <1>3, <1>4, <1>5 DEF AppBase, PanicBase

LEMMA PollStepKeepsBase ==
    ASSUME AppBase, PollStep
    PROVE  AppBase' /\ UNCHANGED <<spoolTasks, panicked>>
<1>1. /\ PollNext
      /\ UNCHANGED <<jobs, nextId, tasks, sweep, panicked>>
      /\ PrinterTypeOK /\ PollTypeOK /\ AdvertInv
  BY DEF AppBase, PanicBase, PollStep, spoolTasks, SpoolBase, SpoolTypeOK
<1>2. AdvertInv' /\ PrinterTypeOK' /\ PollTypeOK'
  BY <1>1, AdvertInvStep, PollTypeStep
<1>3. SpoolBase'
  BY <1>1, <1>2 DEF AppBase, PanicBase, SpoolBase, SpoolTypeOK, JobTypeOK, JobIds, TaskJobs
<1> QED
  BY <1>1, <1>2, <1>3 DEF AppBase, PanicBase, PollStep

LEMMA PanicKeepsBase ==
    ASSUME AppBase, NEW t \in 1 .. MaxDocuments, AppPanic(t)
    PROVE  AppBase'
<1>1. PanicBase /\ PanicNext /\ Panic(t) /\ UNCHANGED pollVars
  BY DEF AppBase, PanicBase, AppPanic, PanicNext
<1>2. PanicBase' /\ printers' = printers
  BY <1>1, PanicBaseStep, PanicEffect
<1>3. AdvertInv' /\ PollTypeOK'
  BY <1>1, IdleKeepsAdverts DEF AppBase, PanicBase, pollVars, PollTypeOK, AdvertInv
<1> QED
  BY <1>2, <1>3 DEF AppBase, PanicBase

LEMMA AppBaseStep == AppBase /\ [AppNext]_appVars => AppBase'
<1>1. ASSUME AppBase, AppNext PROVE AppBase'
  BY <1>1, AppStepKinds, SpoolStepKeepsBase, PollStepKeepsBase, PanicKeepsBase
<1>2. ASSUME AppBase, UNCHANGED appVars PROVE AppBase'
  <2>1. UNCHANGED <<spoolVars, pollVars, panicked>>
    BY <1>2 DEF appVars, panicVars
  <2>2. SpoolBase'
    BY <1>2, <2>1, BaseStep DEF AppBase, PanicBase
  <2>3. AdvertInv' /\ PollTypeOK'
    BY <1>2, <2>1, IdleKeepsAdverts DEF AppBase, PanicBase, pollVars, PollTypeOK, AdvertInv
  <2> QED
    BY <1>2, <2>1, <2>2, <2>3 DEF AppBase, PanicBase, spoolVars
<1> QED
  BY <1>1, <1>2

LEMMA AppBaseInit == AppInit => AppBase
<1> SUFFICES ASSUME AppInit PROVE AppBase
  OBVIOUS
<1>1. SpoolBase
  BY BaseInit DEF AppInit, PanicInit
<1>2. AdvertInv
  BY AdvertInvInit DEF AppInit, PanicInit, PollerInit
<1>3. PollTypeOK
  BY <1>2 DEF AppInit, PanicInit, PollerInit, PollTypeOK, AdvertInv, Round
<1> QED
  BY <1>1, <1>2, <1>3 DEF AppBase, PanicBase, AppInit, PanicInit

LEMMA AppBaseHolds == AppSpec => []AppBase
  BY AppBaseInit, AppBaseStep, PTL DEF AppSpec

\* The variables of the application keep their types while spooler and poller run
\* over one registry (server.rs, status.rs).
THEOREM AppTypeCorrect == AppSpec => []AppTypeOK
<1>1. AppBase => AppTypeOK
  BY DEF AppBase, PanicBase, SpoolBase, AppTypeOK
<1> QED
  BY <1>1, AppBaseHolds, PTL

LEMMA PollFrees ==
    ASSUME AppBase, PollStep, NEW p, NEW t \in DOMAIN tasks
    PROVE  t \in DOMAIN tasks' /\ WorkerOf(p, t)' = WorkerOf(p, t)
<1>1. UNCHANGED <<jobs, tasks, panicked>>
  BY PollStepKeepsBase DEF spoolTasks
<1> QED
  BY <1>1 DEF WorkerOf, WillFreePrinter, IsCanceled

-----------------------------------------------------------------------------
(***************************************************************************)
(* A stopped printer says why.  A worker stops no printer, and touches the *)
(* reasons only while it is on its way to free it; the poller writes state *)
(* and reasons of one answer together.                                     *)
(***************************************************************************)

\* What a step of the spooler leaves of a stopped printer.
LEMMA SpoolStepOnStopped ==
    ASSUME SpoolBase, SpoolNext, NEW p \in Printer, printers'[p].state = "Stopped"
    PROVE  /\ printers[p].state = "Stopped"
           /\ \/ printers'[p].reasons = printers[p].reasons
              \/ \E t \in DOMAIN tasks : tasks[t].printer = p /\ WillFreePrinter(t)
<1>1. PrinterTypeOK
  BY DEF SpoolBase, SpoolTypeOK
<1>2. CASE printers' = printers
  BY <1>2
<1>3. CASE Handler
  BY <1>2, <1>3 DEF Handler, PrintJob, CreateJob, SendDocument, CancelJob, BeginCancelMyJobs,
                    CancelNextOfMine
<1>4. ASSUME NEW t, Worker(t)
      PROVE  /\ printers[p].state = "Stopped"
             /\ \/ printers'[p].reasons = printers[p].reasons
                \/ t \in DOMAIN tasks /\ tasks[t].printer = p /\ WillFreePrinter(t)
  <2>1. t \in DOMAIN tasks
    BY <1>4, NextLabel
  <2>2. tasks[t].printer \in Printer
    BY <2>1, JobOfTask DEF Task
  <2>3. ASSUME NEW why, SetPrinterReasons(tasks[t].printer, why)
        PROVE  /\ printers[p].state = "Stopped"
               /\ tasks[t].printer # p => printers'[p].reasons = printers[p].reasons
    BY <1>1, <2>2, <2>3 DEF SetPrinterReasons, PrinterTypeOK, PrinterRecord
  <2>4. CASE SetPrinterIdle(tasks[t].printer) \/ SetPrinterProcessing(tasks[t].printer)
    BY <1>1, <2>2, <2>4 DEF SetPrinterIdle, SetPrinterProcessing, PrinterTypeOK, PrinterRecord
  <2>5. CASE PublishReasons(t)
    <3>1. WillFreePrinter(t)
      BY <2>5 DEF PublishReasons, Goto, At, WillFreePrinter
    <3> QED
      BY <2>1, <2>3, <2>5, <3>1 DEF PublishReasons
  <2>6. CASE ClearReasons(t)
    <3>1. WillFreePrinter(t)
      BY <2>6 DEF ClearReasons, Goto, At, WillFreePrinter
    <3> QED
      BY <2>1, <2>3, <2>6, <3>1 DEF ClearReasons
  <2>7. CASE BecomeProcessing(t) \/ ReturnToIdle(t)
    BY <2>4, <2>7 DEF BecomeProcessing, ReturnToIdle
  <2> QED
    BY <1>2, <1>4, <2>5, <2>6, <2>7, NextLabel
       DEF MarkProcessing, CheckCanceled, CheckCompletion, Complete, Fail, Hold, Wake,
           CheckFinalCancel, FinalCancel, Persist
<1> QED
  BY <1>3, <1>4 DEF SpoolNext

\* What the poller writes: a record that is stopped says why.
LEMMA AnswerOnRecord ==
    ASSUME PrinterTypeOK, NEW q \in Printer, UpdateRecord(q), NEW p \in Printer
    PROVE  \/ printers'[p] = printers[p]
           \/ printers'[p].state = "Idle"
           \/ printers'[p].state = "Stopped" /\ Offline \in printers'[p].reasons
  BY DEF UpdateRecord, Reachable, PrinterTypeOK, PrinterRecord

LEMMA StoppedSaysWhyStep ==
    ASSUME AppBase, StoppedSaysWhy, AppNext
    PROVE  StoppedSaysWhy'
<1> SUFFICES ASSUME NEW p \in Printer, printers'[p].state = "Stopped",
                    \A t \in DOMAIN tasks' : ~WorkerOf(p, t)'
             PROVE  Offline \in printers'[p].reasons
  BY DEF StoppedSaysWhy
<1>1. CASE SpoolStep
  <2>1. PanicBase /\ SpoolBase /\ SpoolNext /\ panicked' = panicked
    BY <1>1 DEF AppBase, PanicBase, SpoolStep
  <2>2. ASSUME NEW t \in DOMAIN tasks, WorkerOf(p, t) PROVE FALSE
    BY <2>1, <2>2, SpoolFrees
  <2>3. printers[p].state = "Stopped" /\ printers'[p].reasons = printers[p].reasons
    BY <2>1, <2>2, SpoolStepOnStopped DEF WorkerOf
  <2> QED
    BY <2>2, <2>3 DEF StoppedSaysWhy
<1>2. CASE PollStep /\ RecordsAreAnswers
  <2>1. \A t \in DOMAIN tasks : ~WorkerOf(p, t)
    BY <1>2, PollFrees
  <2>2. PrinterTypeOK
    BY DEF AppBase, PanicBase, SpoolBase, SpoolTypeOK
  <2>3. CASE printers'[p] = printers[p]
    BY <2>1, <2>3 DEF StoppedSaysWhy
  <2> QED
    BY <1>2, <2>2, <2>3, AnswerOnRecord DEF RecordsAreAnswers
<1>3. ASSUME NEW u, AppPanic(u)
      PROVE  Offline \in printers'[p].reasons
  <2>1. PanicBase /\ Panic(u) /\ printers' = printers
    BY <1>3, PanicEffect DEF AppBase, AppPanic
  <2>2. ASSUME NEW t \in DOMAIN tasks, WorkerOf(p, t) PROVE FALSE
    BY <2>1, <2>2, PanicFrees
  <2> QED
    BY <2>1, <2>2 DEF StoppedSaysWhy
<1> QED
  BY <1>1, <1>2, <1>3, AppStepKinds

\* A stopped printer that no worker holds reports that its device is offline,
\* whatever its workers wrote before, held, failed at or panicked in (poll_once
\* against spawn_print_worker).
THEOREM StoppedPrinterSaysWhy == AppSpec => []StoppedSaysWhy
<1>1. AppInit => StoppedSaysWhy
  BY DEF AppInit, PanicInit, SpoolInit, PrinterInit, StoppedSaysWhy
<1>2. AppBase /\ StoppedSaysWhy /\ [AppNext]_appVars => StoppedSaysWhy'
  <2> SUFFICES ASSUME StoppedSaysWhy, UNCHANGED appVars
               PROVE  StoppedSaysWhy'
    BY StoppedSaysWhyStep
  <2> QED
    BY DEF appVars, panicVars, spoolVars, StoppedSaysWhy, WorkerOf, WillFreePrinter, IsCanceled
<1> QED
  BY <1>1, <1>2, AppBaseHolds, PTL DEF AppSpec

-----------------------------------------------------------------------------
(***************************************************************************)
(* What a panic leaves behind stays with its own job and printer, also     *)
(* next to a poller that writes the printers' records.                     *)
(***************************************************************************)

LEMMA HeldStep ==
    ASSUME AppBase, PrinterIsHeld, JobIsHeld, AppNext
    PROVE  PrinterIsHeld' /\ JobIsHeld'
<1>1. ASSUME PanicNext PROVE PrinterIsHeld' /\ JobIsHeld'
  BY <1>1, PrinterHeldStep, JobHeldStep DEF AppBase, PanicBase
<1>2. CASE PollStep /\ RecordsAreAnswers
  <2>1. UNCHANGED <<jobs, tasks, panicked>>
    BY <1>2, PollStepKeepsBase DEF spoolTasks
  <2>2. JobIsHeld'
    BY <2>1 DEF JobIsHeld, WorkerOfJob, WillSettleJob, IsCanceled
  <2>3. ASSUME NEW p \in Printer, printers'[p].state = "Processing"
        PROVE  \E t \in DOMAIN tasks' : WorkerOf(p, t)'
    <3>1. PrinterTypeOK
      BY DEF AppBase, PanicBase, SpoolBase, SpoolTypeOK
    <3>2. printers[p].state = "Processing"
      BY <1>2, <2>3, <3>1, AnswerOnRecord DEF RecordsAreAnswers
    <3> QED
      BY <1>2, <3>2, PollFrees DEF PrinterIsHeld
  <2> QED
    BY <2>2, <2>3 DEF PrinterIsHeld
<1> QED
  BY <1>1, <1>2, AppStepKinds DEF SpoolStep, AppPanic, PanicNext

\* Whichever callbacks panic, a printer is Processing and a job in processing or
\* processing-stopped only with a worker of its own that will take it out or that
\* panicked (spawn_print_worker), for any number of them, and also next to a poller
\* that writes the records of the printers.
THEOREM PanicStaysContained == AppSpec => []PanicIsContained
<1>1. AppInit => PrinterIsHeld /\ JobIsHeld
  BY DEF AppInit, PanicInit, SpoolInit, PrinterInit, JobInit, PrinterIsHeld, JobIsHeld
<1>2. AppBase /\ PrinterIsHeld /\ JobIsHeld /\ [AppNext]_appVars
        => PrinterIsHeld' /\ JobIsHeld'
  <2> SUFFICES ASSUME PrinterIsHeld, JobIsHeld, UNCHANGED appVars
               PROVE  PrinterIsHeld' /\ JobIsHeld'
    BY HeldStep
  <2> QED
    BY DEF appVars, panicVars, spoolVars, PrinterIsHeld, JobIsHeld, WorkerOf, WorkerOfJob,
           WillFreePrinter, WillSettleJob, IsCanceled
<1>3. PrinterIsHeld /\ JobIsHeld => PanicIsContained
  BY DEF PrinterIsHeld, JobIsHeld, WorkerOfJob, PanicIsContained
<1> QED
  BY <1>1, <1>2, <1>3, AppBaseHolds, PTL DEF AppSpec

-----------------------------------------------------------------------------
(***************************************************************************)
(* The application implements its parts.  To the poller the spooler is     *)
(* workers that write the records at any time; to the registry of jobs all *)
(* of them are callers.                                                    *)
(***************************************************************************)

\* What a worker does to the records is one of the writes the poller expects.
LEMMA WorkerWritesRecord ==
    ASSUME AppBase, NEW t, AppWorker(t)
    PROVE  [PollNext]_<<printers, pollVars>>
<1>1. SpoolBase /\ Worker(t) /\ UNCHANGED pollVars /\ run # "down"
  BY DEF AppBase, PanicBase, AppWorker, Serving
<1>2. t \in DOMAIN tasks
  BY <1>1, NextLabel
<1>3. tasks[t].printer \in Printer /\ tasks[t].why \in SUBSET Reason
  BY <1>1, <1>2, JobOfTask DEF Task
<1>4. CASE printers' = printers
  BY <1>1, <1>4
<1>5. CASE PublishReasons(t) \/ ClearReasons(t) \/ BecomeProcessing(t) \/ ReturnToIdle(t)
  <2>1. WorkerWrites(tasks[t].printer)
    BY <1>1, <1>3, <1>5 DEF PublishReasons, ClearReasons, BecomeProcessing, ReturnToIdle,
                            WorkerWrites
  <2> QED
    BY <1>3, <2>1 DEF PollNext
<1> QED
  BY <1>1, <1>4, <1>5, NextLabel
     DEF MarkProcessing, CheckCanceled, CheckCompletion, Complete, Fail, Hold, Wake,
         CheckFinalCancel, FinalCancel, Persist

LEMMA AppIsPollStep ==
    ASSUME AppBase, [AppNext]_appVars
    PROVE  [PollNext]_<<printers, pollVars>>
<1>1. CASE UNCHANGED <<printers, pollVars>>
  BY <1>1
<1>2. CASE AppStart \/ AppPoller \/ \E p \in Printer : AppPowerSwitch(p)
  BY <1>2 DEF AppStart, AppPoller, AppPowerSwitch, PollNext
<1>3. CASE AppHandler
  <2>1. printers' = printers
    BY <1>3 DEF AppHandler, Handler, PrintJob, CreateJob, SendDocument, CancelJob,
                BeginCancelMyJobs, CancelNextOfMine
  <2> QED
    BY <1>1, <1>3, <2>1 DEF AppHandler
<1>4. ASSUME NEW t, AppPanic(t)
      PROVE  UNCHANGED <<printers, pollVars>>
  BY <1>4 DEF AppPanic, Panic
<1> QED
  BY <1>1, <1>2, <1>3, <1>4, WorkerWritesRecord DEF AppNext, appVars, panicVars, spoolVars

\* The application implements the poller's specification: real workers, with their
\* holds, retries and panics, do nothing to a record that the poller on its own
\* does not allow for (server.rs, status.rs).
THEOREM AppImplementsPoller == AppSpec => PollSpec
<1>1. AppInit => PollInit
  BY DEF AppInit, PanicInit, SpoolInit, PollInit
<1> QED
  BY <1>1, AppIsPollStep, AppBaseHolds, PTL DEF AppSpec, PollSpec

\* While spooler and poller run, the network sees, where no two printers share a
\* label, the printers that the advertiser has registered and besides only services
\* that the daemon refused to unregister, and a reconciliation has its effect, but
\* for those (mdns.rs, poll_once).
THEOREM AppAdvertsAreHome ==
    AppSpec => []AdvertsLeadHome /\ []NoOrphanAdvert /\ ReconcileTakesEffect
  BY AppImplementsPoller, AdvertsAreHome, NoAdvertIsOrphaned, ReconcilesTakeEffect, PTL

LEMMA AppIsRegistryCall ==
    ASSUME AppBase, [AppNext]_appVars
    PROVE  [JobNext]_jobVars
<1>1. SpoolBase
  BY DEF AppBase, PanicBase
<1>2. CASE UNCHANGED jobVars
  BY <1>2
<1>3. CASE SpoolStep
  BY <1>1, <1>3, StepIsRegistryCall DEF SpoolStep
<1>4. CASE PollStep
  BY <1>2, <1>4 DEF PollStep, spoolTasks, jobVars
<1>5. ASSUME NEW t, AppPanic(t)
      PROVE  UNCHANGED jobVars
  BY <1>5 DEF AppPanic, Panic, jobVars
<1> QED
  BY <1>2, <1>3, <1>4, <1>5, AppStepKinds DEF appVars, panicVars, spoolVars, jobVars

\* The application reaches the jobs only through the methods of the registry, also
\* when callbacks panic, so that what the registry guarantees holds in it.
THEOREM AppUsesRegistry ==
    AppSpec => JobSpec /\ []IdsIdentifyJobs /\ []FinishedIsStamped /\ CancelKeepsOutcome
<1>1. AppInit => JobInit
  BY DEF AppInit, PanicInit, SpoolInit
<1>2. AppSpec => JobSpec
  BY <1>1, AppIsRegistryCall, AppBaseHolds, PTL DEF AppSpec, JobSpec
<1> QED
  BY <1>2, IdsAreSound, FinishedJobsAreStamped, CancelKeepsOutcomes, PTL

-----------------------------------------------------------------------------
(***************************************************************************)
(* Outcomes and cancels, in the application.                               *)
(***************************************************************************)

LEMMA WorkerInvStep == AppBase /\ WorkerInv /\ [AppNext]_appVars => WorkerInv'
<1> SUFFICES ASSUME AppBase, WorkerInv, [AppNext]_appVars
             PROVE  WorkerInv'
  OBVIOUS
<1>1. CASE PanicNext
  BY <1>1, WorkersStep DEF AppBase
<1>2. CASE UNCHANGED <<jobs, tasks>>
  BY <1>2 DEF WorkerInv, LastOutcome, HoldOutcome, OutcomeIsEarned
<1>3. CASE PollStep
  BY <1>2, <1>3 DEF PollStep, spoolTasks
<1>4. CASE AppNext
  BY <1>1, <1>3, <1>4, AppStepKinds DEF SpoolStep, AppPanic, PanicNext
<1> QED
  BY <1>2, <1>4 DEF appVars, panicVars, spoolVars

LEMMA WorkerInvHolds == AppSpec => []WorkerInv
<1>1. AppInit => WorkerInv
  BY DEF AppInit, PanicInit, SpoolInit, JobInit, WorkerInv, LastOutcome, HoldOutcome,
         OutcomeIsEarned
<1> QED
  BY <1>1, WorkerInvStep, AppBaseHolds, PTL DEF AppSpec

\* Also in the application, where callbacks panic and the poller writes, a job is
\* Completed or Aborted, and shows reasons, only because an attempt said so, and is
\* Canceled only because a client asked (spawn_print_worker).
THEOREM AppOutcomesAreEarned == AppSpec => []OutcomeIsEarned
<1>1. WorkerInv => OutcomeIsEarned
  BY DEF WorkerInv
<1> QED
  BY <1>1, WorkerInvHolds, PTL

LEMMA AppCanceledInTimeStep ==
    ASSUME AppBase, AppNext, NEW i \in DOMAIN jobs, CanceledInTime(i)
    PROVE  CanceledInTime(i)'
<1>1. CASE SpoolStep
  BY <1>1, CanceledInTimeStep DEF AppBase, PanicBase, SpoolStep
<1>2. CASE PollStep
  BY <1>2 DEF PollStep, spoolTasks, CanceledInTime
<1>3. ASSUME NEW t, AppPanic(t)
      PROVE  CanceledInTime(i)'
  BY <1>3, PanicMoves DEF AppBase, AppPanic, CanceledInTime
<1> QED
  BY <1>1, <1>2, <1>3, AppStepKinds

LEMMA AppAdvances ==
    ASSUME AppBase, HoldOutcome, AppNext, NEW t \in DOMAIN tasks
    PROVE  \/ tasks'[t] = tasks[t]
           \/ StepsLeft[tasks'[t].pc] < StepsLeft[tasks[t].pc]
           \/ At(t, "hold_sleep") /\ tasks[t].outcome = "Unavailable" /\ ~IsCanceled(t)
<1>1. CASE SpoolStep
  BY <1>1, OnlyHoldsRepeatStep DEF AppBase, PanicBase, SpoolStep
<1>2. CASE PollStep
  BY <1>2 DEF PollStep, spoolTasks
<1>3. ASSUME NEW u, AppPanic(u)
      PROVE  \/ tasks'[t] = tasks[t]
             \/ StepsLeft[tasks'[t].pc] < StepsLeft[tasks[t].pc]
  BY <1>3, PanicMoves DEF AppBase, AppPanic, StepsLeft
<1> QED
  BY <1>1, <1>2, <1>3, AppStepKinds

\* Also with panics, a job canceled in time is not printed, and a worker repeats
\* nothing but a hold: a panic, too, brings it nearer to its end.
THEOREM AppCancelsAreKept == AppSpec => CanceledInTimeIsNotPrinted /\ OnlyHoldsRepeat
<1> DEFINE Kept == \A i \in DOMAIN jobs : CanceledInTime(i) => CanceledInTime(i)'
           Advance == \A t \in DOMAIN tasks :
              \/ tasks'[t] = tasks[t]
              \/ StepsLeft[tasks'[t].pc] < StepsLeft[tasks[t].pc]
              \/ At(t, "hold_sleep") /\ tasks[t].outcome = "Unavailable" /\ ~IsCanceled(t)
<1>1. AppBase /\ WorkerInv /\ [AppNext]_appVars => [Kept]_spoolVars /\ [Advance]_spoolVars
  BY AppCanceledInTimeStep, AppAdvances DEF WorkerInv, appVars, panicVars
<1> QED
  BY <1>1, AppBaseHolds, WorkerInvHolds, PTL
     DEF AppSpec, CanceledInTimeIsNotPrinted, OnlyHoldsRepeat

-----------------------------------------------------------------------------
(***************************************************************************)
(* As long as no callback has panicked, the application keeps what the     *)
(* spooler promises on its own.                                            *)
(***************************************************************************)

\* Without a panic nothing is stranded and nothing is stuck, although the poller
\* writes the same records (spawn_print_worker, poll_once).
THEOREM NothingIsStrandedWithoutPanic ==
    AppSpec => [](panicked = {} => NoStrandedJob /\ NoStuckPrinter)
<1>1. PanicIsContained => (panicked = {} => NoStrandedJob /\ NoStuckPrinter)
  BY DEF PanicIsContained, WorkerOf, NoStrandedJob, NoStuckPrinter
<1> QED
  BY <1>1, PanicStaysContained, PTL

\* A behaviour of the application in which no callback panics implements the
\* promise to the client, next to a poller that writes the printers' records.
THEOREM AppImplementsPromise == AppSpec /\ [](panicked = {}) => ImplementsPromise
<1> DEFINE NoPanic == panicked = {}
<1>1. AppInit => Touched /\ Promise!PromiseInit
  BY ViewInit DEF AppInit, PanicInit, SpoolInit, Touched
<1>2. ASSUME AppBase, NoPanic, NoPanic', [AppNext]_appVars
      PROVE  SpoolNext \/ UNCHANGED <<jobs, tasks>>
  <2>1. ASSUME NEW t, AppPanic(t) PROVE FALSE
    BY <1>2, <2>1 DEF AppPanic, Panic
  <2> QED
    BY <1>2, <2>1, AppStepKinds
       DEF SpoolStep, PollStep, spoolTasks, appVars, panicVars, spoolVars
<1>3. AppBase /\ NoPanic /\ NoPanic' /\ Touched /\ [AppNext]_appVars => Touched'
  <2> SUFFICES ASSUME Touched, UNCHANGED <<jobs, tasks>>
               PROVE  Touched'
    BY <1>2, TouchedStep DEF AppBase, PanicBase
  <2> QED
    BY DEF Touched
<1>4. AppBase /\ Touched /\ NoPanic /\ (NoPanic => NoStrandedJob /\ NoStuckPrinter)
          => PromiseInv
  BY DEF AppBase, PanicBase, PromiseInv
<1>5. AppBase /\ NoPanic /\ NoPanic' /\ PromiseInv /\ PromiseInv' /\ [AppNext]_appVars
          => [Promise!PromiseNext]_JobView
  <2> SUFFICES ASSUME UNCHANGED <<jobs, tasks>>
               PROVE  JobView' = JobView
    BY <1>2, PromiseStep
  <2> QED
    BY DEF JobView, Working, Busy, IsCanceled
<1> QED
  BY <1>1, <1>3, <1>4, <1>5, AppBaseHolds, NothingIsStrandedWithoutPanic, PTL
     DEF AppSpec, ImplementsPromise, Promise!PromiseSafety

=============================================================================
