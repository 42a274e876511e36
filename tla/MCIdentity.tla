------------------------------- MODULE MCIdentity -------------------------------
(***************************************************************************)
(* Small instances of Identity for TLC.  Users, requests and tokens are    *)
(* interchangeable.                                                        *)
(***************************************************************************)
EXTENDS Identity, TLC

Interchangeable ==
  Permutations(Users) \cup Permutations(Requests) \cup Permutations(Tokens)

===============================================================================
