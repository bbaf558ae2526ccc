---- MODULE MCNetConnect ----
(***************************************************************************)
(* NetConnect for TLC.                                                     *)
(***************************************************************************)
EXTENDS NetConnect, TLC

ClientSymmetry == Permutations(Clients)
====
