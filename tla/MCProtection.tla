---------------------------- MODULE MCProtection ----------------------------
(***************************************************************************)
(* Two threads, two pages and up to three nested scopes: ranges that are   *)
(* the same, apart, and a part of one another, inside and outside.         *)
(***************************************************************************)
EXTENDS Protection, TLC

MCSymmetry == Permutations(Threads)
=============================================================================
