---------------------------- MODULE MCTrampoline ----------------------------
(***************************************************************************)
(* Functions that start with any three instructions of the given kinds.    *)
(* A displacement reaches 256 bytes; the trampoline is 200 bytes away, as  *)
(* AllocatePageNear allows it to be half of the reach of a real one.       *)
(***************************************************************************)
EXTENDS Trampoline
=============================================================================
