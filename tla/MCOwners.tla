------------------------------ MODULE MCOwners ------------------------------
(***************************************************************************)
(* Two locals and three objects or handles: enough for a chain of two      *)
(* objects that goes when the first does, and for a handle that is used    *)
(* again.                                                                  *)
(***************************************************************************)
EXTENDS Owners, TLC

MCSymmetry == Permutations(Locals) \cup Permutations(Resources)
=============================================================================
