------------------------- MODULE StatusPoller_proofs -------------------------
(***************************************************************************)
(* The adverts of a server, for any printers, labels and reasons: through  *)
(* startup, polling, and the end of server and runtime.                    *)
(***************************************************************************)
EXTENDS StatusPoller, TLAPS

-----------------------------------------------------------------------------
(***************************************************************************)
(* The inductive invariant.  Every service has the label of a printer that *)
(* the advertiser has registered, also when printers share a label, or the *)
(* daemon refused to unregister it; a registered printer that shares its   *)
(* label with no other has its service; and without an owner the           *)
(* advertiser has registered nothing.                                      *)
(***************************************************************************)

ServicesOwned ==
    \A s \in services : s \in refused \/ \E p \in registered : s[1] = LabelOf[p]

NobodyRegisters == holders = {} => registered = {}

LabelsDiffer == \A p, q \in Printer : LabelOf[p] = LabelOf[q] => p = q

OwnLabel(p) == \A q \in Printer : LabelOf[q] = LabelOf[p] => q = p

OwnLabelServed == \A p \in registered : OwnLabel(p) => Advert(p) \in services

AdvertInv == /\ AdvertTypeOK /\ ServicesOwned /\ OwnLabelServed
             /\ NobodyRegisters /\ AdvertsLeadHome

\* What AdvertsLeadHome says when no two printers share a label.
Home == /\ services = {Advert(p) : p \in registered} \cup refused
        /\ refused \subseteq {Advert(p) : p \in Printer \ registered}

LEMMA AdvertInvInit == AdvertInit => AdvertInv
BY DEF AdvertInit, AdvertInv, AdvertTypeOK, ServicesOwned, OwnLabelServed, NobodyRegisters,
       AdvertsLeadHome

\* The three things that happen to the adverts: a service is registered by somebody
\* who owns the advertiser, one is withdrawn, an owner lets go.
LEMMA RegisterKeepsAdverts ==
    ASSUME AdvertInv, NEW p \in Printer, RegisterOne(p), UNCHANGED holders, holders # {}
    PROVE  AdvertInv'
<1>1. AdvertTypeOK'
    BY LabelAssumption DEF AdvertInv, AdvertTypeOK, RegisterOne, Without, Advert
<1>2. ServicesOwned'
    BY DEF AdvertInv, ServicesOwned, RegisterOne, Without, Advert
<1>3. OwnLabelServed'
    BY DEF AdvertInv, OwnLabelServed, OwnLabel, RegisterOne, Without, Advert, AdvertTypeOK
<1>4. NobodyRegisters'
    BY DEF NobodyRegisters
<1>5. AdvertsLeadHome'
    <2> SUFFICES ASSUME LabelsDiffer PROVE Home'
        BY DEF AdvertsLeadHome, LabelsDiffer, Home
    <2>1. Home /\ registered \subseteq Printer
        BY DEF AdvertInv, AdvertsLeadHome, LabelsDiffer, AdvertTypeOK, Home
    <2> QED BY <2>1 DEF RegisterOne, Without, Advert, LabelsDiffer, Home
<1> QED BY <1>1, <1>2, <1>3, <1>4, <1>5 DEF AdvertInv

LEMMA WithdrawKeepsAdverts ==
    ASSUME AdvertInv, NEW p \in Printer, WithdrawOne(p), UNCHANGED holders
    PROVE  AdvertInv'
<1> USE DEF WithdrawOne, Unregister, UnregisterFails, Without
<1>1. AdvertTypeOK'
    BY DEF AdvertInv, AdvertTypeOK
<1>2. ServicesOwned'
    BY DEF AdvertInv, ServicesOwned
<1>3. OwnLabelServed'
    BY DEF AdvertInv, OwnLabelServed, OwnLabel, Advert, AdvertTypeOK
<1>4. NobodyRegisters'
    BY DEF AdvertInv, NobodyRegisters
<1>5. AdvertsLeadHome'
    <2> SUFFICES ASSUME LabelsDiffer PROVE Home'
        BY DEF AdvertsLeadHome, LabelsDiffer, Home
    <2>1. Home /\ registered \subseteq Printer
        BY DEF AdvertInv, AdvertsLeadHome, LabelsDiffer, AdvertTypeOK, Home
    <2>2. \A q \in Printer : LabelOf[q] = LabelOf[p] => q = p
        BY DEF LabelsDiffer
    <2>3. \A s \in services : s[1] = LabelOf[p] => s = Advert(p)
        BY <2>1, <2>2 DEF Home, Advert
    <2>4. \A q \in Printer : Advert(q)[1] = LabelOf[q]
        BY DEF Advert
    <2>5. CASE Unregister({p})
        BY <2>1, <2>2, <2>3, <2>4, <2>5 DEF Home
    <2>6. CASE UnregisterFails({p})
        BY <2>1, <2>2, <2>3, <2>4, <2>6 DEF Home
    <2> QED BY <2>5, <2>6
<1> QED BY <1>1, <1>2, <1>3, <1>4, <1>5 DEF AdvertInv

\* What is left after Drop is what the daemon refused.
LEMMA DropLeavesRefused ==
    ASSUME AdvertInv, Drop
    PROVE  registered' = {} /\ services' = refused' /\ services' \subseteq services
<1>1. CASE services' = {} /\ refused' = {}
    BY <1>1 DEF Drop
<1>2. ASSUME NEW kept \in SUBSET registered,
             services' = Without(services, registered \ kept),
             refused' = (refused \cap services') \cup (services' \ Without(services', kept))
      PROVE  services' = refused' /\ services' \subseteq services
    BY <1>2 DEF AdvertInv, ServicesOwned, Without
<1> QED BY <1>1, <1>2 DEF Drop

LEMMA ReleaseKeepsAdverts ==
    ASSUME AdvertInv, NEW who, Release(who)
    PROVE  AdvertInv'
<1>1. CASE holders = {who}
    <2>1. /\ holders' = {} /\ registered' = {}
          /\ services' = refused' /\ services' \subseteq services
        BY <1>1, DropLeavesRefused DEF Release
    <2>2. AdvertTypeOK'
        BY <2>1 DEF AdvertInv, AdvertTypeOK
    <2>3. AdvertsLeadHome'
        <3> SUFFICES ASSUME LabelsDiffer PROVE Home'
            BY DEF AdvertsLeadHome, LabelsDiffer, Home
        <3>1. Home /\ registered \subseteq Printer
            BY DEF AdvertInv, AdvertsLeadHome, LabelsDiffer, AdvertTypeOK, Home
        <3> QED BY <2>1, <3>1 DEF Home
    <2> QED BY <2>1, <2>2, <2>3 DEF AdvertInv, ServicesOwned, OwnLabelServed, NobodyRegisters
<1>2. CASE holders # {who}
    <2>1. holders' = holders \ {who} /\ UNCHANGED <<registered, services, refused>>
        BY <1>2 DEF Release
    <2>2. holders' = {} => holders = {}
        BY <1>2, <2>1
    <2> QED BY <1>2, <2>1, <2>2
            DEF AdvertInv, AdvertTypeOK, ServicesOwned, OwnLabelServed, NobodyRegisters,
                AdvertsLeadHome
<1> QED BY <1>1, <1>2

LEMMA StartupKeepsAdverts ==
    ASSUME AdvertInv, Startup
    PROVE  AdvertInv'
<1>1. ASSUME NEW p \in Printer, RegisterNext(p) PROVE AdvertInv'
    BY <1>1, RegisterKeepsAdverts DEF RegisterNext, Starting
<1>2. CASE RegistrationFails
    BY <1>2, ReleaseKeepsAdverts DEF RegistrationFails
<1>3. CASE AllRegistered
    BY <1>3 DEF AllRegistered, AdvertInv, AdvertTypeOK, ServicesOwned, OwnLabelServed,
                NobodyRegisters, AdvertsLeadHome
<1> QED BY <1>1, <1>2, <1>3 DEF Startup

LEMMA IdleKeepsAdverts ==
    ASSUME AdvertInv, UNCHANGED advertVars
    PROVE  AdvertInv'
BY DEF advertVars, AdvertInv, AdvertTypeOK, ServicesOwned, OwnLabelServed, NobodyRegisters,
       AdvertsLeadHome

LEMMA PollerKeepsAdverts ==
    ASSUME AdvertInv, Poller
    PROVE  AdvertInv'
<1>1. CASE Tick
    BY <1>1, IdleKeepsAdverts DEF Tick
<1>2. ASSUME NEW p \in Printer, Answer(p) \/ NoUpdate(p) \/ UpdateRecord(p) PROVE AdvertInv'
    BY <1>2, IdleKeepsAdverts DEF Answer, NoUpdate, UpdateRecord
<1>3. ASSUME NEW p \in Printer, Publish(p) PROVE AdvertInv'
    BY <1>3, RegisterKeepsAdverts DEF Publish, NeedsPublish, Advertising, Reconcile
<1>4. ASSUME NEW p \in Printer, Withdraw(p) PROVE AdvertInv'
    BY <1>4, WithdrawKeepsAdverts DEF Withdraw, Reconcile
<1>5. ASSUME NEW p \in Printer, PublishFails(p) \/ LeaveAdvert(p) PROVE AdvertInv'
    BY <1>5, IdleKeepsAdverts DEF PublishFails, LeaveAdvert, Reconcile, advertVars
<1> QED BY <1>1, <1>2, <1>3, <1>4, <1>5 DEF Poller

LEMMA AdvertInvStep ==
    ASSUME AdvertInv, [PollNext]_<<printers, pollVars>>
    PROVE  AdvertInv'
<1>1. CASE Start
    BY <1>1, StartupKeepsAdverts, IdleKeepsAdverts DEF Start
<1>2. CASE RunReturns \/ RuntimeEnds
    BY <1>2, ReleaseKeepsAdverts DEF RunReturns, RuntimeEnds
<1>3. CASE Poller
    BY <1>3, PollerKeepsAdverts
<1>4. ASSUME NEW p \in Printer, PowerSwitch(p) \/ WorkerWrites(p) PROVE AdvertInv'
    BY <1>4, IdleKeepsAdverts DEF PowerSwitch, WorkerWrites, pollVars
<1>5. CASE UNCHANGED <<printers, pollVars>>
    BY <1>5, IdleKeepsAdverts DEF pollVars
<1> QED BY <1>1, <1>2, <1>3, <1>4, <1>5 DEF PollNext

LEMMA AdvertInvHolds == PollSpec => []AdvertInv
<1>1. PollInit => AdvertInv
    BY AdvertInvInit DEF PollInit, PollerInit
<1>2. AdvertInv /\ [PollNext]_<<printers, pollVars>> => AdvertInv'
    BY AdvertInvStep
<1> QED BY <1>1, <1>2, PTL DEF PollSpec

-----------------------------------------------------------------------------

\* Every printer that the advertiser has registered has one service, which leads to
\* it, and besides there are only services that the daemon refused to unregister,
\* for any printers whose labels differ.
THEOREM AdvertsAreHome == PollSpec => []AdvertsLeadHome
<1>1. AdvertInv => AdvertsLeadHome
    BY DEF AdvertInv
<1> QED BY <1>1, AdvertInvHolds, PTL

\* No service outlives the advertiser but those that the daemon refused to
\* unregister, also with printers that share a label.
THEOREM NoAdvertIsOrphaned == PollSpec => []NoOrphanAdvert
<1>1. AdvertInv => NoOrphanAdvert
    BY DEF AdvertInv, ServicesOwned, NobodyRegisters, NoOrphanAdvert
<1> QED BY <1>1, AdvertInvHolds, PTL

-----------------------------------------------------------------------------
(***************************************************************************)
(* Types.                                                                  *)
(***************************************************************************)

LEMMA UpdateKeepsTypes ==
    ASSUME PrinterTypeOK, PollTypeOK, NEW p \in Printer, UpdateRecord(p)
    PROVE  PrinterTypeOK' /\ status' = status /\ round' \in [Printer -> Round]
BY DEF PrinterTypeOK, PollTypeOK, PrinterRecord, IppPrinterState, UpdateRecord, Round

LEMMA PollTypeStep ==
    ASSUME PrinterTypeOK, PollTypeOK, AdvertInv', [PollNext]_<<printers, pollVars>>
    PROVE  PrinterTypeOK' /\ PollTypeOK'
<1>a. AdvertTypeOK'
    BY DEF AdvertInv
<1>1. CASE Start \/ RunReturns \/ RuntimeEnds
    BY <1>a, <1>1 DEF Start, RunReturns, RuntimeEnds, PollTypeOK, PrinterTypeOK, Round
<1>2. CASE Tick
    BY <1>a, <1>2 DEF Tick, PollTypeOK, PrinterTypeOK, Round
<1>3. ASSUME NEW p \in Printer, Answer(p) \/ NoUpdate(p) PROVE PrinterTypeOK' /\ PollTypeOK'
    <2>1. CASE Answer(p)
        <3>1. PICK why \in SUBSET (Reason \ {Offline}) :
                  status' = [status EXCEPT ![p] = IF online[p] THEN why ELSE why \cup {Offline}]
            BY <2>1 DEF Answer
        <3>2. status' \in [Printer -> SUBSET Reason]
            BY <3>1, ReasonAssumption DEF PollTypeOK
        <3> QED BY <1>a, <2>1, <3>2 DEF Answer, PollTypeOK, PrinterTypeOK, Round
    <2>2. CASE NoUpdate(p)
        BY <1>a, <2>2 DEF NoUpdate, PollTypeOK, PrinterTypeOK, Round
    <2> QED BY <1>3, <2>1, <2>2
<1>4. ASSUME NEW p \in Printer, UpdateRecord(p) PROVE PrinterTypeOK' /\ PollTypeOK'
    BY <1>a, <1>4, UpdateKeepsTypes DEF UpdateRecord, PollTypeOK
<1>5. ASSUME NEW p \in Printer, Reconcile(p) PROVE PrinterTypeOK' /\ PollTypeOK'
    BY <1>a, <1>5 DEF Reconcile, PollTypeOK, PrinterTypeOK, Round
<1>6. CASE Poller
    BY <1>2, <1>3, <1>4, <1>5, <1>6 DEF Poller, Publish, PublishFails, Withdraw, LeaveAdvert
<1>7. ASSUME NEW p \in Printer, PowerSwitch(p) PROVE PrinterTypeOK' /\ PollTypeOK'
    BY <1>a, <1>7 DEF PowerSwitch, PollTypeOK, PrinterTypeOK
<1>8. ASSUME NEW p \in Printer, WorkerWrites(p) PROVE PrinterTypeOK' /\ PollTypeOK'
    <2>1. PrinterTypeOK'
        BY <1>8 DEF WorkerWrites, SetPrinterProcessing, SetPrinterIdle, SetPrinterReasons,
                    PrinterTypeOK, PrinterRecord, IppPrinterState
    <2> QED BY <1>a, <1>8, <2>1 DEF WorkerWrites, pollVars, PollTypeOK
<1>9. CASE UNCHANGED <<printers, pollVars>>
    BY <1>a, <1>9 DEF pollVars, PollTypeOK, PrinterTypeOK
<1> QED BY <1>1, <1>6, <1>7, <1>8, <1>9 DEF PollNext

\* The records, the round, the last answers and the adverts keep their types.
THEOREM PollTypeCorrect == PollSpec => [](PrinterTypeOK /\ PollTypeOK)
<1>1. PollInit => PrinterTypeOK /\ PollTypeOK
    BY DEF PollInit, PrinterInit, PollerInit, AdvertInit, PrinterTypeOK, PollTypeOK, AdvertTypeOK,
           PrinterRecord, IppPrinterState, Round
<1>2. /\ PrinterTypeOK /\ PollTypeOK /\ AdvertInv' /\ [PollNext]_<<printers, pollVars>>
      => (PrinterTypeOK /\ PollTypeOK)'
    BY PollTypeStep
<1> QED BY <1>1, <1>2, AdvertInvHolds, PTL DEF PollSpec

-----------------------------------------------------------------------------
(***************************************************************************)
(* What a reconciliation does.                                             *)
(***************************************************************************)

\* Only its own reconciliation takes a printer out of it.
LEMMA ReconciledNow ==
    ASSUME PollTypeOK, PollNext, NEW p \in Printer, round[p] = "reconcile", round'[p] = "out"
    PROVE  Publish(p) \/ PublishFails(p) \/ Withdraw(p) \/ LeaveAdvert(p)
<1>0. round \in [Printer -> Round]
    BY DEF PollTypeOK
<1>1. ~(Start \/ RunReturns \/ RuntimeEnds \/ Tick)
    BY DEF Start, RunReturns, RuntimeEnds, Tick
<1>2. ASSUME NEW q \in Printer PROVE ~(Answer(q) \/ NoUpdate(q) \/ PowerSwitch(q) \/ WorkerWrites(q))
    BY DEF Answer, NoUpdate, Turn, PowerSwitch, WorkerWrites, pollVars
<1>3. ASSUME NEW q \in Printer, UpdateRecord(q) PROVE FALSE
    BY <1>0, <1>3 DEF UpdateRecord
<1>4. ASSUME NEW q \in Printer, Reconcile(q) PROVE q = p
    BY <1>0, <1>4 DEF Reconcile
<1> QED BY <1>1, <1>2, <1>3, <1>4
        DEF PollNext, Poller, Publish, PublishFails, Withdraw, LeaveAdvert

\* A printer with a label of its own is on the network exactly if it is registered or
\* the daemon refused to unregister it.
LEMMA ServedIfRegistered ==
    ASSUME AdvertInv, NEW p \in Printer, OwnLabel(p)
    PROVE  Advert(p) \in services <=> p \in registered \/ Advert(p) \in refused
BY DEF AdvertInv, AdvertTypeOK, ServicesOwned, OwnLabelServed, OwnLabel, Advert

LEMMA ReconcileStep ==
    ASSUME PollTypeOK, AdvertInv, PollNext, NEW p \in Printer,
           round[p] = "reconcile", round'[p] = "out", Advertising, OwnLabel(p)
    PROVE  \/ (Advert(p) \in services') = Reachable(p)
           \/ /\ Reachable(p) /\ p \notin registered'
              /\ services' = services
           \/ ~Reachable(p) /\ Advert(p) \in refused'
<1>1. Advert(p) \in services <=> p \in registered \/ Advert(p) \in refused
    BY ServedIfRegistered
<1>2. CASE Publish(p)
    BY <1>2 DEF Publish, NeedsPublish, RegisterOne, Reachable
<1>3. CASE PublishFails(p)
    BY <1>3 DEF PublishFails, NeedsPublish
<1>4. CASE Withdraw(p)
    BY <1>1, <1>4 DEF Withdraw, NeedsWithdraw, WithdrawOne, Unregister, UnregisterFails, Without,
                    Advert, Reachable
<1>5. CASE LeaveAdvert(p)
    BY <1>1, <1>5 DEF LeaveAdvert, NeedsPublish, NeedsWithdraw, Reachable
<1> QED BY <1>2, <1>3, <1>4, <1>5, ReconciledNow

\* A reconciliation puts a printer on the network or takes it off as the device
\* answered, unless the daemon refuses: then a registration changes nothing, and a
\* withdrawal leaves the service.  For any printers, those that share a label among
\* the others included.
THEOREM ReconcilesTakeEffect == PollSpec => ReconcileTakesEffect
<1> DEFINE Effect == \A p \in Printer :
          (/\ round[p] = "reconcile" /\ round'[p] = "out"
           /\ Advertising
           /\ \A q \in Printer : LabelOf[q] = LabelOf[p] => q = p)
              => \/ (Advert(p) \in services') = Reachable(p)
                 \/ /\ Reachable(p) /\ p \notin registered'
                    /\ services' = services
                 \/ ~Reachable(p) /\ Advert(p) \in refused'
<1>1. /\ PollTypeOK /\ AdvertInv /\ [PollNext]_<<printers, pollVars>>
      => [Effect]_<<printers, pollVars>>
    BY ReconcileStep DEF OwnLabel
<1>2. PollSpec => []PollTypeOK
    BY PollTypeCorrect, PTL
<1> QED BY <1>1, <1>2, AdvertInvHolds, PTL DEF PollSpec, ReconcileTakesEffect

=============================================================================
