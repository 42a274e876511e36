--------------------------- MODULE MCTicketHistory ----------------------------
(***************************************************************************)
(* Small instances of TicketHistory for TLC.                               *)
(***************************************************************************)
EXTENDS TicketHistory, TLC

\* Invoices are interchangeable, and so are handlers; used where no liveness is
\* checked.
Interchangeable == Permutations(Invoices) \cup Permutations(Requests)

===============================================================================
