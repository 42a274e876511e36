------------------------------ MODULE MCFileStore ------------------------------
(***************************************************************************)
(* A small instance of FileStore for TLC.                                  *)
(***************************************************************************)
EXTENDS FileStore, TLC

Interchangeable == Permutations(Importers)

===============================================================================
