-------------------------- MODULE MCInvoicePipeline ---------------------------
(***************************************************************************)
(* A small instance of InvoicePipeline for the run BootWedged: its cfg     *)
(* gives the constants model values.                                       *)
(***************************************************************************)
EXTENDS InvoicePipeline

===============================================================================
