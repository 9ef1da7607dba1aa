----------------------------- MODULE PrinterApp -----------------------------
(***************************************************************************)
(* The printer application while it serves: the spooler, the status poller *)
(* and the advertiser running together over one printer registry, as       *)
(* Server::run starts them.  How a server ends is in StatusPoller.         *)
(*                                                                         *)
(* A callback can print only while the device is online; an attempt on a   *)
(* device that is offline ends Unavailable or Failed.  It can also panic.  *)
(***************************************************************************)
EXTENDS SpoolerPanics, StatusPoller

spoolTasks == <<jobs, nextId, tasks, sweep>>
appVars == <<panicVars, pollVars>>

AppTypeOK == SpoolTypeOK /\ PollTypeOK /\ panicked \in SUBSET DOMAIN tasks

AppInit == PanicInit /\ PollerInit

AppStart == Start /\ UNCHANGED <<spoolTasks, panicked>>

\* The listener answers from here on.
Serving == run = "serving"

AppHandler == Serving /\ Handler /\ UNCHANGED <<pollVars, panicked>>

DeviceAllows ==
    \A t \in DOMAIN tasks :
        (tasks[t].pc = "attempt" /\ tasks'[t].pc = "done_reasons") =>
            online[tasks[t].printer]

AppWorker(t) ==
    /\ Serving
    /\ Worker(t)
    /\ DeviceAllows
    /\ UNCHANGED <<pollVars, panicked>>

AppPanic(t) == Serving /\ Panic(t) /\ UNCHANGED pollVars

AppPoller == Serving /\ Poller /\ UNCHANGED <<spoolTasks, panicked>>

AppPowerSwitch(p) == PowerSwitch(p) /\ UNCHANGED <<spoolTasks, panicked>>

AppNext ==
    \/ AppStart
    \/ AppHandler
    \/ \E t \in 1 .. MaxDocuments : AppWorker(t) \/ AppPanic(t)
    \/ AppPoller
    \/ \E p \in Printer : AppPowerSwitch(p)

AppSpec == AppInit /\ [][AppNext]_appVars

-----------------------------------------------------------------------------
(***************************************************************************)
(* Safety.                                                             *)
(***************************************************************************)

\* A printer at rest that reports stopped says that its device is offline, so
\* that the client is told why its job waits (the two fields poll_once writes
\* under one lock, against the workers that write them under two).  The reasons
\* of a hold survive a callback that panics at the next attempt.
StoppedSaysWhy ==
    \A p \in Printer :
        (/\ printers[p].state = "Stopped"
         /\ \A t \in DOMAIN tasks : ~WorkerOf(p, t))
            => Offline \in printers[p].reasons

\* The comment in poll_once, as it stands: the poller never disturbs a printer
\* that is Processing (status.rs).
PollerSparesProcessing ==
    [][\A p \in Printer :
          (/\ round[p] = "update" /\ round'[p] = "reconcile"
           /\ printers[p].state = "Processing")
              => printers'[p].state = "Processing"]_appVars

-----------------------------------------------------------------------------
(***************************************************************************)
(* Fairness and liveness.                                                  *)
(***************************************************************************)

\* The tasks run: the workers, as in the spooler, and the poller, whose ticks
\* keep coming.  A backend that is asked again and again answers, and so does
\* the DNS-SD daemon that registers a service.  No callback has to panic.
AppScheduled ==
    /\ WF_appVars(AppStart)
    /\ \A t \in 1 .. MaxDocuments : WF_appVars(AppWorker(t))
    /\ WF_appVars(AppPoller)
    /\ \A p \in Printer :
          /\ SF_appVars(AppPoller /\ Answer(p))
          /\ SF_appVars(AppPoller /\ Publish(p))

\* An attempt made again and again on a device that is online prints or fails.
AppDeviceRecovers ==
    \A t \in 1 .. MaxDocuments :
        SF_appVars(/\ AppWorker(t)
                   /\ \E outcome \in {"Completed", "Failed"}, why \in SUBSET Reason :
                         Attempt(t, outcome, why))

FairAppSpec == AppSpec /\ AppScheduled /\ AppDeviceRecovers

\* The device is reachable, and no callback has panicked on the printer.
Healthy(p) == online[p] /\ \A t \in panicked : tasks[t].printer # p

\* A printer whose device is back for good does not stay stopped, so that CUPS
\* releases the jobs it holds: Stopped printers are polled, and the worker of a
\* held job lets go of its printer (poll_once, spawn_print_worker).
OnlineRecovers ==
    \A p \in Printer : <>[](Healthy(p) /\ Serving) => <>[](printers[p].state = "Idle")

\* A printer whose device is back for good is advertised again, also when a held
\* job took it from Stopped to Idle between two polls, and when a registration
\* failed (the reconciliation in poll_once, "not edge-triggered").
OnlineIsAdvertised ==
    \A p \in Printer : <>[](Healthy(p) /\ Advertising) => <>[](Advert(p) \in services)

=============================================================================
