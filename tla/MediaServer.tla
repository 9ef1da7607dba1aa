----------------------------- MODULE MediaServer -----------------------------
(***************************************************************************)
(* The tasks that change what a printer has loaded, and save it: the       *)
(* status poller (status.rs), the media form with the application's hook   *)
(* (media_apply_handler), the print workers, which save when they end, and *)
(* bootstrap_printers, which restores the printers after a crash.          *)
(*                                                                         *)
(* Abstractions.  The printers a round polls are any that are registered:  *)
(* which of them are printing is the subject of StatusPoller.  The roll in *)
(* a device, the hook and the devices found at startup are external.       *)
(***************************************************************************)
EXTENDS StateFile

CONSTANTS
    InRange     \* the rolls whose size the form accepts (media_size_min, _max)

ASSUME InRangeAssumption == InRange \subseteq Media

VARIABLES
    mode,       \* whether the process is up
    todo,       \* the printers the current round has still to poll
    answer,     \* the roll that poll_status answered with, until it is recorded
    swapped,    \* media_changed of the round
    form,       \* the requests to the media form that wait for the hook, or the lock
    loaded,     \* external: the roll each device reports, if it reports one
    survives    \* history: the configurations at a crash that found them saved

serverVars == <<config, ready, file, save, lone, mode, todo, answer, swapped, form,
                loaded, survives>>

MediaTypeOK ==
    /\ IsConfigs(config)
    /\ ready \in [Printer -> Media \cup {NoMedia}]
    /\ FileTypeOK
    /\ mode \in {"down", "up"}
    /\ todo \in SUBSET Printer
    /\ DOMAIN answer \subseteq Printer /\ \A p \in DOMAIN answer : answer[p] \in Media
    /\ swapped \in BOOLEAN
    /\ DOMAIN form \subseteq Form
    /\ \A f \in DOMAIN form :
          form[f] \in [printer : Printer, media : Media, agreed : BOOLEAN]
    /\ loaded \in [Printer -> Media \cup {NoMedia}]
    /\ IsConfigs(survives)

ServerInit ==
    /\ MediaInit
    /\ FileInit
    /\ mode = "down"
    /\ todo = {}
    /\ answer = NoPrinters
    /\ swapped = FALSE
    /\ form = NoPrinters
    /\ loaded \in [Printer -> Media \cup {NoMedia}]
    /\ survives = NoPrinters

\* bootstrap_printers has returned and Server::run has been called.
Running == mode = "up" /\ "boot" \notin DOMAIN save

\* No change waits to be saved, and none is being saved.
Quiet == Running /\ DOMAIN save = {} /\ ~swapped

-----------------------------------------------------------------------------
(***************************************************************************)
(* Start and crash.                                                        *)
(***************************************************************************)

\* A fault: what is discovered replaces what was loaded.
MergeFresh(found) ==
    [p \in DOMAIN LoadFile \cup found |-> IF p \in found THEN Factory[p] ELSE LoadFile[p]]

\* The printers of the file, then the devices that no printer of the file has.
Merge(found) ==
    [p \in DOMAIN LoadFile \cup found |->
        IF p \in DOMAIN LoadFile THEN LoadFile[p] ELSE Factory[p]]

Bootstrap ==
    /\ mode = "down"
    /\ mode' = "up"
    /\ \E found \in SUBSET Printer : config' = Merge(found)
    /\ ready' = [p \in Printer |-> NoMedia]
    /\ save' = Persist("boot")
    /\ survives' = NoPrinters
    /\ UNCHANGED <<file, lone, todo, answer, swapped, form, loaded>>

\* The process dies; the file stays as it is.
Crash ==
    /\ mode = "up"
    /\ mode' = "down"
    /\ survives' = IF Quiet /\ lone THEN config ELSE NoPrinters
    /\ config' = NoPrinters
    /\ ready' = [p \in Printer |-> NoMedia]
    /\ save' = NoPrinters
    /\ lone' = (lone /\ ~\E s \in DOMAIN save : save[s].pc = "write")
    /\ todo' = {}
    /\ answer' = NoPrinters
    /\ swapped' = FALSE
    /\ form' = NoPrinters
    /\ UNCHANGED <<file, loaded>>

-----------------------------------------------------------------------------
(***************************************************************************)
(* The status poller.                                                      *)
(***************************************************************************)

Polling == Running /\ "poller" \notin DOMAIN save

Tick ==
    /\ Polling
    /\ todo = {} /\ ~swapped
    /\ todo' \in SUBSET DOMAIN config \ {{}}
    /\ UNCHANGED <<mediaVars, fileVars, mode, answer, swapped, form, loaded, survives>>

\* A fault: a status without media is taken for one.
AnswerOmitted(p) ==
    /\ Polling
    /\ p \in todo /\ DOMAIN answer = {}
    /\ answer' = [q \in {p} |-> loaded[q]]
    /\ UNCHANGED <<mediaVars, fileVars, mode, todo, swapped, form, loaded, survives>>

\* poll_status returns a status with the loaded roll.
Answer(p) ==
    /\ Polling
    /\ p \in todo /\ DOMAIN answer = {}
    /\ loaded[p] # NoMedia
    /\ answer' = [q \in {p} |-> loaded[q]]
    /\ UNCHANGED <<mediaVars, fileVars, mode, todo, swapped, form, loaded, survives>>

\* poll_status returns None, or a status without media.
NoRollReported(p) ==
    /\ Polling
    /\ p \in todo /\ DOMAIN answer = {}
    /\ todo' = todo \ {p}
    /\ UNCHANGED <<mediaVars, fileVars, mode, answer, swapped, form, loaded, survives>>

\* A fault: the poller records a roll only if it knows none.
RecordRollOnce(p) ==
    /\ p \in DOMAIN answer
    /\ IF ready[p] = NoMedia THEN SetReadyMedia(p, answer[p]) ELSE UNCHANGED mediaVars
    /\ swapped' = (swapped \/ ready[p] = NoMedia)
    /\ todo' = todo \ {p}
    /\ answer' = NoPrinters
    /\ UNCHANGED <<fileVars, mode, form, loaded, survives>>

RecordRoll(p) ==
    /\ p \in DOMAIN answer
    /\ SetReadyMedia(p, answer[p])
    /\ swapped' = (swapped \/ MediaChanges(p, answer[p]))
    /\ todo' = todo \ {p}
    /\ answer' = NoPrinters
    /\ UNCHANGED <<fileVars, mode, form, loaded, survives>>

SaveSwap ==
    /\ todo = {} /\ swapped
    /\ swapped' = FALSE
    /\ save' = Persist("poller")
    /\ UNCHANGED <<mediaVars, file, lone, mode, todo, answer, form, loaded, survives>>

PollerStep ==
    \/ Tick
    \/ \E p \in Printer : Answer(p) \/ NoRollReported(p) \/ RecordRoll(p)
    \/ SaveSwap

-----------------------------------------------------------------------------
(***************************************************************************)
(* The media form: a request checks the range, waits for the hook with no  *)
(* lock held, then records the roll and saves.                             *)
(***************************************************************************)

SubmitForm(f) ==
    /\ Running
    /\ f \notin DOMAIN form \cup DOMAIN save
    /\ \E p \in DOMAIN config, m \in InRange :
          form' = With(form, f, [printer |-> p, media |-> m, agreed |-> FALSE])
    /\ UNCHANGED <<mediaVars, fileVars, mode, todo, answer, swapped, loaded, survives>>

\* The hook accepts, or there is none.  The device may be told of the roll.
HookAccepts(f) ==
    /\ f \in DOMAIN form /\ ~form[f].agreed
    /\ form' = [form EXCEPT ![f].agreed = TRUE]
    /\ loaded' \in {loaded, [loaded EXCEPT ![form[f].printer] = form[f].media]}
    /\ UNCHANGED <<mediaVars, fileVars, mode, todo, answer, swapped, survives>>

HookRefuses(f) ==
    /\ f \in DOMAIN form /\ ~form[f].agreed
    /\ form' = Restrict(form, DOMAIN form \ {f})
    /\ UNCHANGED <<mediaVars, fileVars, mode, todo, answer, swapped, loaded, survives>>

ApplyForm(f) ==
    /\ f \in DOMAIN form /\ form[f].agreed
    /\ SetReadyMedia(form[f].printer, form[f].media)
    /\ form' = Restrict(form, DOMAIN form \ {f})
    /\ save' = Persist(f)
    /\ UNCHANGED <<file, lone, mode, todo, answer, swapped, loaded, survives>>

FormStep(f) == SubmitForm(f) \/ HookAccepts(f) \/ HookRefuses(f) \/ ApplyForm(f)

-----------------------------------------------------------------------------

\* A print worker ends, which saves.
WorkerEnds(w) ==
    /\ Running
    /\ w \notin DOMAIN save
    /\ save' = Persist(w)
    /\ UNCHANGED <<mediaVars, file, lone, mode, todo, answer, swapped, form, loaded, survives>>

SaveStep(s) == Saving(s) /\ UNCHANGED <<mode, todo, answer, swapped, form, loaded, survives>>

\* External: somebody puts a roll into a device, or takes it out.
LoadRoll(p) ==
    /\ \E m \in Media \cup {NoMedia} :
          m # loaded[p] /\ loaded' = [loaded EXCEPT ![p] = m]
    /\ UNCHANGED <<mediaVars, fileVars, mode, todo, answer, swapped, form, survives>>

ServerNext ==
    \/ Bootstrap
    \/ Crash
    \/ PollerStep
    \/ \E f \in Form : FormStep(f)
    \/ \E w \in Worker : WorkerEnds(w)
    \/ \E s \in Saver : SaveStep(s)
    \/ \E p \in Printer : LoadRoll(p)

ServerSpec == ServerInit /\ [][ServerNext]_serverVars

-----------------------------------------------------------------------------
(***************************************************************************)
(* Fairness and properties.                                                *)
(***************************************************************************)

\* The poller's ticks keep coming, a printer is at rest at some of them, and a
\* backend that is asked again and again answers.  No client, no crash and no
\* change of roll has to happen.
FairServerSpec ==
    /\ ServerSpec
    /\ WF_serverVars(PollerStep)
    /\ \A p \in Printer : SF_serverVars(Tick /\ p \in todo') /\ SF_serverVars(Answer(p))
    /\ \A s \in Saver : WF_serverVars(SaveStep(s))

\* When nothing waits to be saved and the last save ran alone, the file says what
\* the server shows: whichever of poller, form and worker made the last change,
\* it was followed by a save that saw it (Server::persist and its callers).
LoneSaveIsCurrent == (Quiet /\ lone) => file = Text(config)

\* A file that cannot be read has a cause: a save has emptied it and not written it
\* yet, or the last save failed, met another one, or died between the two.  A crash
\* at any other time loses no printers, however many saves are about to begin
\* (fs::write in PersistedState::save, which empties the file first).
UnreadableFileHasCause ==
    lone /\ file.kind # "json" => \E s \in DOMAIN save : save[s].pc = "write"

\* A roll swap outlives the process: a server that crashes with its changes saved
\* by a save that ran alone comes back with the same printers, the same media and
\* the same defaults, whatever devices it finds at startup (bootstrap_printers).
SwapOutlivesProcess ==
    [][mode = "down" /\ mode' = "up" =>
          \A p \in DOMAIN survives : p \in DOMAIN config' /\ config'[p] = survives[p]]_serverVars

\* The roll a device keeps reporting ends up loaded and the default, whatever the
\* form and the poller wrote before from answers that had become stale.
LoadedIsShown ==
    \A p \in Printer, m \in Media :
        <>[](Running /\ p \in DOMAIN config /\ loaded[p] = m /\ DOMAIN form = {})
            => <>[](p \in DOMAIN config /\ ready[p] = m /\ IsDefault(p, m))

\* The comment in spawn (status.rs), as it stands: a swap has to outlive the
\* process, so once its save is over it is in the file.
QuietFileIsCurrent == Quiet => file = Text(config)

=============================================================================
