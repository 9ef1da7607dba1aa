--------------------------- MODULE MCStatusPoller ---------------------------
(***************************************************************************)
(* Each printer has its own name for a label.                              *)
(***************************************************************************)
EXTENDS StatusPoller

MCLabelOf == CHOOSE f \in [Printer -> InstanceName] : \A p, q \in Printer : p # q => f[p] # f[q]

=============================================================================
