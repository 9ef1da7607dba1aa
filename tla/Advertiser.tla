----------------------------- MODULE Advertiser -----------------------------
(***************************************************************************)
(* The DNS-SD advertiser (mdns.rs) and the daemon it drives.               *)
(* register_all registers every printer before the server serves; then the *)
(* advertiser is shared, by reference count, by Server::run and the task   *)
(* of the status poller, and whoever lets go of it last drops it.          *)
(*                                                                         *)
(* Abstractions.  A fullname is the label of its printer: type and domain  *)
(* are the same for all.  Of the TXT records only `rp' is kept, the        *)
(* printer that the advert leads to.  The printers are registered in any   *)
(* order.  Host name, interfaces and addresses are left out.  The daemon   *)
(* is external: it keeps one service per fullname, and may refuse any call *)
(* (its queue is full).  A refused registration is reported to the caller; *)
(* the result of unregister and shutdown is ignored.                       *)
(***************************************************************************)
EXTENDS IppTypes

CONSTANTS
    InstanceName,   \* DNS-SD instance names
    LabelOf         \* display_label of each printer

ASSUME LabelAssumption == LabelOf \in [Printer -> InstanceName]

VARIABLES
    registered, \* Advertiser.registered: the printers it has a fullname for
    holders,    \* who owns the advertiser; nobody if there is none
    services,   \* external: the daemon's services, <<fullname, rp>>
    refused     \* history: the services that it last refused to unregister

advertVars == <<registered, holders, services, refused>>

AdvertTypeOK ==
    /\ registered \in SUBSET Printer
    /\ holders \in SUBSET {"register_all", "server", "poller"}
    /\ services \in SUBSET (InstanceName \X Printer)
    /\ refused \in SUBSET services

\* No advertiser: the application does its own advertising, or the daemon does
\* not start.
AdvertInit ==
    /\ registered = {}
    /\ holders \in {{"register_all"}, {}}
    /\ services = {}
    /\ refused = {}

-----------------------------------------------------------------------------

Advert(p) == <<LabelOf[p], p>>

\* Those of some services that do not have the label of a printer in P.
Without(some, P) == {s \in some : \A p \in P : s[1] # LabelOf[p]}

Unregister(P) ==
    /\ services' = Without(services, P)
    /\ refused' = Without(refused, P)

\* The daemon refuses: the services of the printers in P stay.
UnregisterFails(P) ==
    /\ refused' = refused \cup (services \ Without(services, P))
    /\ UNCHANGED services

\* A fault: the printer is remembered by its label, not by its name.
RegisterOneByLabel(p) ==
    /\ registered' = registered \cup {LabelOf[p]}
    /\ services' = Without(services, {p}) \cup {Advert(p)}
    /\ refused' = Without(refused, {p})

\* register_one
RegisterOne(p) ==
    /\ registered' = registered \cup {p}
    /\ services' = Without(services, {p}) \cup {Advert(p)}
    /\ refused' = Without(refused, {p})

\* A fault: the printer is forgotten, and nobody tells the daemon.
WithdrawOneForgets(p) == registered' = registered \ {p} /\ UNCHANGED <<services, refused>>

\* The printer is forgotten first, whatever the daemon then says.
WithdrawOne(p) ==
    /\ registered' = registered \ {p}
    /\ Unregister({p}) \/ UnregisterFails({p})

\* A fault: Drop leaves the services to the daemon.
ReleaseSilently(who) ==
    /\ holders' = holders \ {who}
    /\ registered' = IF holders = {who} THEN {} ELSE registered
    /\ UNCHANGED <<services, refused>>

\* Drop: every service is unregistered and the daemon shut down, which is the end
\* of its services.  One that refuses to shut down keeps those of the printers in
\* kept, which it refused to unregister.
Drop ==
    /\ registered' = {}
    /\ \/ services' = {} /\ refused' = {}
       \/ \E kept \in SUBSET registered :
             LET rest == Without(services, registered \ kept)
             IN  /\ services' = rest
                 /\ refused' = (refused \cap rest) \cup (rest \ Without(rest, kept))

\* An owner lets go; the last one drops the advertiser.
Release(who) ==
    /\ holders' = holders \ {who}
    /\ IF holders = {who} THEN Drop ELSE UNCHANGED <<registered, services, refused>>

Starting == "register_all" \in holders

RegisterNext(p) ==
    /\ Starting
    /\ p \notin registered
    /\ RegisterOne(p)
    /\ UNCHANGED holders

\* One registration fails: register_all gives up and drops what it has built, and
\* the server runs without an advertiser.
RegistrationFails ==
    /\ Starting
    /\ registered # Printer
    /\ Release("register_all")

AllRegistered ==
    /\ Starting
    /\ registered = Printer
    /\ holders' = {"server", "poller"}
    /\ UNCHANGED <<registered, services, refused>>

Startup == (\E p \in Printer : RegisterNext(p)) \/ RegistrationFails \/ AllRegistered

-----------------------------------------------------------------------------

\* What the network sees is what the advertiser believes, one service for each
\* printer it has registered, which leads to that printer, and besides only what
\* the daemon refused to unregister: no label is withdrawn that another printer
\* still uses, and none is forgotten.  Two printers of one label would break it, so
\* it is promised for labels that differ (register_one, withdraw and Drop, against
\* is_advertised, on which the poller relies).
AdvertsLeadHome ==
    (\A p, q \in Printer : LabelOf[p] = LabelOf[q] => p = q)
        => /\ services = {Advert(p) : p \in registered} \cup refused
           /\ refused \subseteq {Advert(p) : p \in Printer \ registered}

\* No advert outlives its advertiser, neither after a startup that failed half
\* way through the printers, nor after the last owner has let go, unless the
\* daemon refuses both to unregister it and to shut down (register_all, whose early
\* return drops what it has built, and Drop).
NoOrphanAdvert == holders = {} => services \subseteq refused

=============================================================================
