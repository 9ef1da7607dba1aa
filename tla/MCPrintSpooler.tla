--------------------------- MODULE MCPrintSpooler ---------------------------
(***************************************************************************)
(* Small instances of the spooler, with panics, for TLC.                   *)
(***************************************************************************)
EXTENDS SpoolerPanics, TLC

\* The printers are interchangeable; used for safety only.
PrinterSymmetry == Permutations(Printer)

=============================================================================
