-------------------------- MODULE PrinterRegistry ---------------------------
(***************************************************************************)
(* The printer registry (printer.rs): for each printer the printer-state   *)
(* and the printer-state-reasons of its record, behind one lock.  Each     *)
(* operator below is one hold of that lock.  The registry is filled before *)
(* the server runs and no handler adds or removes a record.                *)
(***************************************************************************)
EXTENDS IppTypes

VARIABLE printers   \* PrinterRegistry: the record of each printer

PrinterRecord == [state : IppPrinterState, reasons : SUBSET Reason]

PrinterTypeOK == printers \in [Printer -> PrinterRecord]

PrinterInit == printers = [p \in Printer |-> [state |-> "Idle", reasons |-> {}]]

SetPrinterProcessing(p) == printers' = [printers EXCEPT ![p].state = "Processing"]

SetPrinterIdle(p) == printers' = [printers EXCEPT ![p].state = "Idle"]

SetPrinterReasons(p, why) == printers' = [printers EXCEPT ![p].reasons = why]

=============================================================================
