------------------------------ MODULE MCMcpImport ------------------------------
(***************************************************************************)
(* Small instances of McpImport for TLC, with a bound on how often a       *)
(* process ends or a statement fails where that loses something, and on    *)
(* how many invoices are read a second time: one.                          *)
(***************************************************************************)
EXTENDS McpImport, FiniteSets, TLC

CONSTANT MaxFaults

VARIABLE faults

Fault ==
  \/ \E c \in Importers, f \in Files : LookupFails(c, f)
  \/ \E p \in Procs : \/ WorkerClaimFails(p) \/ WorkerMarkFails(p)
                       \/ ProcessEnds(p)
  \/ RecoverFails

BoundedInit == Init /\ faults = 0

BoundedNext ==
  /\ Next
  /\ faults' = IF Fault THEN faults + 1 ELSE faults
  /\ faults' <= MaxFaults
  /\ Cardinality(twice') <= 1

BoundedSpec == BoundedInit /\ [][BoundedNext]_<<vars, faults>> /\ Fairness

===============================================================================
