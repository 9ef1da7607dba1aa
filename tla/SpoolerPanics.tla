---------------------------- MODULE SpoolerPanics ----------------------------
(***************************************************************************)
(* The spooler with print callbacks that may panic (spawn_print_worker):   *)
(* tokio ends the task of that worker then and there, no lock is held      *)
(* while the callback runs, and nothing waits for the task.                *)
(***************************************************************************)
EXTENDS PrintSpooler

VARIABLE panicked   \* history: the workers whose callback panicked

panicVars == <<spoolVars, panicked>>

\* A fault: the workers run in one task, which ends with the first that panics.
PanicEndsAll(t) ==
    /\ At(t, "attempt")
    /\ tasks' = [u \in DOMAIN tasks |-> [tasks[u] EXCEPT !.pc = "finished"]]
    /\ panicked' = panicked \cup {t}
    /\ UNCHANGED <<jobs, nextId, printers, sweep>>

\* The callback panics: none of the arms of the match is reached, nor the block
\* after the loop.
Panic(t) ==
    /\ Goto(t, "attempt", "finished")
    /\ panicked' = panicked \cup {t}
    /\ UNCHANGED <<jobs, nextId, printers, sweep>>

PanicInit == SpoolInit /\ panicked = {}

PanicNext ==
    \/ SpoolNext /\ UNCHANGED panicked
    \/ \E t \in 1 .. MaxDocuments : Panic(t)

PanicSpec == PanicInit /\ [][PanicNext]_panicVars

-----------------------------------------------------------------------------

\* A worker of the printer is on its way to free it, or died on its way.
WorkerOf(p, t) == tasks[t].printer = p /\ (WillFreePrinter(t) \/ t \in panicked)

\* What a panic leaves behind stays with its own job and printer: a printer in
\* Processing, or a job in processing or processing-stopped, has a worker of its
\* own that will take it out or that panicked, whichever other workers died on
\* other printers or jobs (spawn_print_worker, whose task has no guard that runs
\* when the callback unwinds).
PanicIsContained ==
    /\ \A p \in Printer : printers[p].state = "Processing" =>
          \E t \in DOMAIN tasks : WorkerOf(p, t)
    /\ \A i \in DOMAIN jobs : jobs[i].state \in {"Processing", "ProcessingStopped"} =>
          \E t \in DOMAIN tasks : tasks[t].job = i /\ (WillSettleJob(t) \/ t \in panicked)

=============================================================================
