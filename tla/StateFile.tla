------------------------------ MODULE StateFile ------------------------------
(***************************************************************************)
(* The state file: Server::persist, called by several tasks, and           *)
(* PersistedState::save and load (server.rs, state.rs).                    *)
(*                                                                         *)
(* A save takes a snapshot of the configurations under the read lock, and, *)
(* with the lock released, fs::write opens the file, which empties it, and *)
(* writes.  Nothing keeps two saves apart: what one writes over the text   *)
(* of the other is a file of its own, or the tail of a longer text stays   *)
(* behind and the file cannot be parsed.  A save that fails is ignored.    *)
(***************************************************************************)
EXTENDS LoadedMedia

CONSTANTS
    Form,           \* requests to the media form that can be under way at once
    Worker,         \* print workers that can be saving at once
    DiskMayFail,    \* whether creating, opening or writing the file may fail
    Earlier         \* the printers that an earlier version may have left in the file

ASSUME EarlierAssumption ==
    \A f \in Earlier : IsConfigs(f) /\ \A p \in DOMAIN f : Tidy(f[p])

Saver == {"boot", "poller"} \cup Form \cup Worker

ASSUME SaverAssumption ==
    Form \cap Worker = {} /\ {"boot", "poller"} \cap (Form \cup Worker) = {}

VARIABLES
    file,   \* the file: empty or missing, the text of some printers, or torn
    save,   \* the saves under way
    lone    \* history: the last save ran alone and did not fail or die half-way

fileVars == <<file, save, lone>>

NoFile == [kind |-> "empty", printers |-> NoPrinters]
TornFile == [kind |-> "torn", printers |-> NoPrinters]
Text(f) == [kind |-> "json", printers |-> f]

FileTypeOK ==
    /\ file.kind \in {"empty", "json", "torn"} /\ IsConfigs(file.printers)
    /\ DOMAIN save \subseteq Saver
    /\ \A s \in DOMAIN save :
          /\ save[s].pc \in {"snapshot", "open", "write"}
          /\ IsConfigs(save[s].copy)
          /\ save[s].alone \in BOOLEAN
    /\ lone \in BOOLEAN

FileInit ==
    /\ file \in {NoFile} \cup {Text(f) : f \in Earlier}
    /\ save = NoPrinters
    /\ lone = FALSE

\* PersistedState::load: a file that is missing or cannot be parsed is no printer.
LoadFile == IF file.kind = "json" THEN file.printers ELSE NoPrinters

-----------------------------------------------------------------------------

\* The value of save with a call of persist by s added.
Persist(s) == With(save, s, [pc |-> "snapshot", copy |-> NoPrinters, alone |-> TRUE])

EndSave(s, wasLone) ==
    /\ save' = Restrict(save, DOMAIN save \ {s})
    /\ lone' = wasLone

At(s, pc) == s \in DOMAIN save /\ save[s].pc = pc

TakeSnapshot(s) ==
    /\ At(s, "snapshot")
    /\ LET others == {r \in DOMAIN save \ {s} : save[r].pc # "snapshot"}
       IN  save' = [r \in DOMAIN save |->
                      IF r = s THEN [pc |-> "open", copy |-> config, alone |-> others = {}]
                      ELSE [save[r] EXCEPT !.alone = @ /\ r \notin others]]
    /\ UNCHANGED <<file, lone>>

\* A fault: opening the file leaves its text there.
OpenFileKeepingText(s) ==
    /\ At(s, "open")
    /\ save' = [save EXCEPT ![s].pc = "write"]
    /\ UNCHANGED <<file, lone>>

OpenFile(s) ==
    /\ At(s, "open")
    /\ file' = NoFile
    /\ save' = [save EXCEPT ![s].pc = "write"]
    /\ UNCHANGED lone

\* The file is not empty here only if another save wrote since OpenFile.
WriteFile(s) ==
    /\ At(s, "write")
    /\ LET mine == Text(save[s].copy)
       IN  file' \in IF file \in {NoFile, mine} THEN {mine} ELSE {mine, TornFile}
    /\ EndSave(s, save[s].alone)

SaveFails(s) ==
    /\ DiskMayFail
    /\ \/ At(s, "open") /\ UNCHANGED file
       \/ At(s, "write") /\ file' \in {file, TornFile}
    /\ EndSave(s, FALSE)

Saving(s) ==
    /\ TakeSnapshot(s) \/ OpenFile(s) \/ WriteFile(s) \/ SaveFails(s)
    /\ UNCHANGED mediaVars

=============================================================================
