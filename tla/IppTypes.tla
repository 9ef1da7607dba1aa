------------------------------ MODULE IppTypes ------------------------------
(***************************************************************************)
(* The vocabulary the components of the printer application share: the    *)
(* printers of the registry, the printer-state-reasons flags, and the     *)
(* job-state and printer-state enumerations.                               *)
(***************************************************************************)
EXTENDS Naturals

CONSTANTS
    Printer,    \* logical names of the registered printers, one record each
    Reason,     \* the PrinterReason flags that the model tells apart
    Offline,    \* the flag PrinterReason::OFFLINE
    IdLimit     \* number of values of a job id: 2^32 in the code

ASSUME ReasonAssumption == Offline \in Reason
ASSUME IdLimitAssumption == IdLimit \in Nat /\ IdLimit > 1

\* JobState::Held is declared by the code and never assigned.
JobState == {"Pending", "Processing", "ProcessingStopped",
             "Canceled", "Aborted", "Completed"}

Terminal == {"Canceled", "Aborted", "Completed"}

IppPrinterState == {"Idle", "Processing", "Stopped"}

=============================================================================
