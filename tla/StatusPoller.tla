---------------------------- MODULE StatusPoller ----------------------------
(***************************************************************************)
(* The background status poller (status.rs), and the life of the server    *)
(* that starts it (Server::run): one task that, at every tick, takes a     *)
(* snapshot of the printers at rest and asks the device of each for its    *)
(* status, one after the other.  The lock of the registry is free while it *)
(* waits for the device, and again while it reconciles the advert.         *)
(*                                                                         *)
(* Abstractions.  A tick may come at any time once a round is over, and    *)
(* the printers of a round are polled in any order.  The loaded media and  *)
(* the save that follows a swap are in MediaServer; the supply level is    *)
(* left out.  The device is external: it is online or not, its backend     *)
(* answers with OFFLINE exactly when it is not, or with nothing (no        *)
(* update).  Startup happens once the listener is bound.                   *)
(***************************************************************************)
EXTENDS PrinterRegistry, Advertiser

VARIABLES
    run,        \* how far Server::run has come, and the runtime it runs in
    round,      \* where each printer stands in the current round
    status,     \* the reasons the device of each printer last answered with
    online      \* external: whether the device of each printer is reachable

pollVars == <<advertVars, run, round, status, online>>

Round == {"out", "todo", "update", "reconcile"}

PollTypeOK ==
    /\ AdvertTypeOK
    /\ run \in {"starting", "serving", "returned", "down"}
    /\ round \in [Printer -> Round]
    /\ status \in [Printer -> SUBSET Reason]
    /\ online \in [Printer -> BOOLEAN]

PollerInit ==
    /\ AdvertInit
    /\ run = "starting"
    /\ round = [p \in Printer |-> "out"]
    /\ status = [p \in Printer |-> {}]
    /\ online \in [Printer -> BOOLEAN]

-----------------------------------------------------------------------------
(***************************************************************************)
(* Server::run.                                                            *)
(***************************************************************************)

\* The adverts are registered, and then poller and listener started.
Start ==
    /\ run = "starting"
    /\ \/ Startup /\ UNCHANGED run
       \/ ~Starting /\ run' = "serving" /\ UNCHANGED advertVars
    /\ UNCHANGED <<printers, round, status, online>>

\* Server::run returns, or is dropped.  It lets go of the handle of the poller's
\* task, which detaches the task.
RunReturns ==
    /\ run = "serving"
    /\ run' = "returned"
    /\ Release("server")
    /\ UNCHANGED <<printers, round, status, online>>

\* The runtime ends and drops its tasks where they wait.
RuntimeEnds ==
    /\ run = "returned"
    /\ \A p \in Printer : round[p] \in {"out", "todo"}
    /\ run' = "down"
    /\ Release("poller")
    /\ round' = [p \in Printer |-> "out"]
    /\ UNCHANGED <<printers, status, online>>

PollerRuns == run \in {"serving", "returned"}

-----------------------------------------------------------------------------
(***************************************************************************)
(* A round of the poller.                                                  *)
(***************************************************************************)

\* A fault: an offline printer is not polled any more.
PolledIdleOnly == {p \in Printer : printers[p].state = "Idle"}

\* The printers a round polls: those that are not printing.
Polled == {p \in Printer : printers[p].state \in {"Idle", "Stopped"}}

Tick ==
    /\ PollerRuns
    /\ \A p \in Printer : round[p] = "out"
    /\ round' = [p \in Printer |-> IF p \in Polled THEN "todo" ELSE "out"]
    /\ UNCHANGED <<printers, advertVars, run, status, online>>

Turn(p) ==
    /\ PollerRuns
    /\ round[p] = "todo"
    /\ \A q \in Printer : round[q] \in {"out", "todo"}

\* poll_status returns Some(status).
Answer(p) ==
    /\ Turn(p)
    /\ \E why \in SUBSET (Reason \ {Offline}) :
          status' = [status EXCEPT ![p] = IF online[p] THEN why ELSE why \cup {Offline}]
    /\ round' = [round EXCEPT ![p] = "update"]
    /\ UNCHANGED <<printers, advertVars, run, online>>

\* poll_status returns None.
NoUpdate(p) ==
    /\ Turn(p)
    /\ round' = [round EXCEPT ![p] = "out"]
    /\ UNCHANGED <<printers, advertVars, run, status, online>>

Reachable(p) == Offline \notin status[p]

\* A fault: a device that does not answer leaves the reasons it had.
UpdateRecordKeepsReasons(p) ==
    /\ round[p] = "update"
    /\ printers' = [printers EXCEPT ![p] =
                      [state |-> IF Reachable(p) THEN "Idle" ELSE "Stopped",
                       reasons |-> IF Reachable(p) THEN status[p] ELSE @.reasons]]
    /\ round' = [round EXCEPT ![p] = "reconcile"]
    /\ UNCHANGED <<advertVars, run, status, online>>

\* A fault: the advert is reconciled only when the printer-state changes.
UpdateRecordOnEdge(p) ==
    /\ round[p] = "update"
    /\ LET want == IF Reachable(p) THEN "Idle" ELSE "Stopped"
       IN  /\ printers' = [printers EXCEPT ![p] = [state |-> want, reasons |-> status[p]]]
           /\ round' = [round EXCEPT ![p] =
                           IF printers[p].state = want THEN "out" ELSE "reconcile"]
    /\ UNCHANGED <<advertVars, run, status, online>>

\* The record is written whatever its state has become since the snapshot.
UpdateRecord(p) ==
    /\ round[p] = "update"
    /\ printers' = [printers EXCEPT ![p] =
                      [state |-> IF Reachable(p) THEN "Idle" ELSE "Stopped",
                       reasons |-> status[p]]]
    /\ round' = [round EXCEPT ![p] = "reconcile"]
    /\ UNCHANGED <<advertVars, run, status, online>>

\* The poller has an advertiser.
Advertising == "poller" \in holders

NeedsPublish(p) == Advertising /\ Reachable(p) /\ p \notin registered

\* A fault: the test of is_advertised is the wrong way round.
NeedsWithdrawSwapped(p) == Advertising /\ ~Reachable(p) /\ p \notin registered

NeedsWithdraw(p) == Advertising /\ ~Reachable(p) /\ p \in registered

Reconcile(p) ==
    /\ round[p] = "reconcile"
    /\ round' = [round EXCEPT ![p] = "out"]
    /\ UNCHANGED <<printers, holders, run, status, online>>

Publish(p) ==
    /\ NeedsPublish(p)
    /\ Reconcile(p)
    /\ RegisterOne(p)

\* The registration fails: logged, and left to a later round.
PublishFails(p) ==
    /\ NeedsPublish(p)
    /\ Reconcile(p)
    /\ UNCHANGED <<registered, services, refused>>

Withdraw(p) ==
    /\ NeedsWithdraw(p)
    /\ Reconcile(p)
    /\ WithdrawOne(p)

LeaveAdvert(p) ==
    /\ ~NeedsPublish(p)
    /\ ~NeedsWithdraw(p)
    /\ Reconcile(p)
    /\ UNCHANGED <<registered, services, refused>>

Poller ==
    \/ Tick
    \/ \E p \in Printer : \/ Answer(p) \/ NoUpdate(p) \/ UpdateRecord(p)
                          \/ Publish(p) \/ PublishFails(p)
                          \/ Withdraw(p) \/ LeaveAdvert(p)

\* External: the device is switched off or on, or goes out of reach and back.
PowerSwitch(p) ==
    /\ online' = [online EXCEPT ![p] = ~@]
    /\ UNCHANGED <<printers, advertVars, run, round, status>>

-----------------------------------------------------------------------------
(***************************************************************************)
(* The poller on its own: the print workers, which PrinterApp has in full, *)
(* write the records at any time.                                          *)
(***************************************************************************)

WorkerWrites(p) ==
    /\ run # "down"
    /\ \/ SetPrinterProcessing(p)
       \/ SetPrinterIdle(p)
       \/ \E why \in SUBSET Reason : SetPrinterReasons(p, why)
    /\ UNCHANGED pollVars

PollNext ==
    \/ Start \/ RunReturns \/ RuntimeEnds
    \/ Poller
    \/ \E p \in Printer : PowerSwitch(p) \/ WorkerWrites(p)

PollInit == PrinterInit /\ PollerInit

PollSpec == PollInit /\ [][PollNext]_<<printers, pollVars>>

\* Reconciling a printer has its effect: the network sees the printer exactly if
\* its device answered that it is reachable, whatever was registered before, unless
\* the daemon refuses.  A refused registration changes nothing and is taken up again
\* in the next round; a service that the daemon refused to unregister, now or in an
\* earlier round, stays (the reconciliation in poll_once).  For labels that differ.
ReconcileTakesEffect ==
    [][\A p \in Printer :
          (/\ round[p] = "reconcile" /\ round'[p] = "out"
           /\ Advertising
           /\ \A q \in Printer : LabelOf[q] = LabelOf[p] => q = p)
              => \/ (Advert(p) \in services') = Reachable(p)
                 \/ /\ Reachable(p) /\ p \notin registered'
                    /\ services' = services
                 \/ ~Reachable(p) /\ Advert(p) \in refused']_<<printers, pollVars>>

\* register_all ends, ticks keep coming, a backend that is asked again and again
\* answers, and so does the daemon.  Nothing makes the server or the runtime end.
FairPollSpec ==
    /\ PollSpec
    /\ WF_<<printers, pollVars>>(Start)
    /\ WF_<<printers, pollVars>>(Poller)
    /\ \A p \in Printer :
          /\ SF_<<printers, pollVars>>(Answer(p))
          /\ SF_<<printers, pollVars>>(Publish(p))

\* A printer that stays at rest is on the network for good if its device stays
\* reachable, and off it if it does not, whatever the workers wrote and whichever
\* registration failed before, as long as there is a poller and an advertiser
\* (the reconciliation in poll_once, "idempotent, not edge-triggered").  The advert
\* of an unreachable one stays if the daemon refused to unregister it: the printer
\* is forgotten by then, and no round tries again until its device is back.
RestingAdvertFollowsDevice ==
    \A p \in Printer, up \in BOOLEAN :
        <>[](/\ PollerRuns /\ Advertising
             /\ online[p] = up /\ printers[p].state # "Processing"
             /\ up \/ Advert(p) \notin refused)
            => <>[]((Advert(p) \in services) = up)

\* The comments in run and spawn, as they stand: the advertiser is held for the
\* server's lifetime, and its Drop withdraws every advert (that the daemon agrees
\* to withdraw).
EndedServerIsWithdrawn == (run = "returned") ~> (services \subseteq refused)

=============================================================================
